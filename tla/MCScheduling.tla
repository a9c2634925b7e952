---------------------------- MODULE MCScheduling ----------------------------
(***************************************************************************)
(* Rows whose cron expression has five fields, and one whose expression    *)
(* has six, as the retention job's has.                                    *)
(***************************************************************************)
EXTENDS Scheduling, TLC

CONSTANTS sixFields

MCCronFields == [s \in Specs |-> IF s = sixFields THEN 6 ELSE 5]

\* The ids are interchangeable, and so are the handlers.
Symmetry == Permutations(Ids) \union Permutations(Handlers)

============================================================================
