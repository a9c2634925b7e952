----------------------------- MODULE MCAccounts -----------------------------
(***************************************************************************)
(* One address that is typed in two ways, and another one; two Google      *)
(* accounts that may log in with either.                                   *)
(***************************************************************************)
EXTENDS Accounts, TLC

CONSTANTS lower, upper, other

MCFold == [a \in Addresses |-> IF a = upper THEN lower ELSE a]

\* The ids are interchangeable, and so are the passwords, the Google accounts
\* and the requests.
Symmetry ==
  Permutations(Ids) \union Permutations(Passwords)
    \union Permutations(Googles) \union Permutations(Clients)

============================================================================
