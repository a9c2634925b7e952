----------------------------- MODULE MCCatalog -----------------------------
(***************************************************************************)
(* Two paths, of which one is opened under the name of the other, as       *)
(* "a\b" is under "a/b".                                                  *)
(***************************************************************************)
EXTENDS Catalog, TLC

CONSTANTS slash, backslash

MCOpensAs == [p \in Paths |-> slash]

\* The handlers are interchangeable, and so are the commands and the backups.
Symmetry == Permutations(Handlers) \union Permutations(Commands) \union Permutations(Backups)

============================================================================
