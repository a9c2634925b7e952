--------------------------- MODULE BackupPromise ---------------------------
(***************************************************************************)
(* What a call of RunBackup promises, without the goroutines, the pipe and *)
(* the adapters that deliver it.  A call begins under an object name, may  *)
(* touch only what is stored under that name, and ends exactly once,       *)
(* recorded or failed.  A row never appears unless the call's whole dump   *)
(* is in the storage, except that a rival call under the very same name    *)
(* may have displaced it.                                                  *)
(***************************************************************************)
CONSTANTS
  Runs,    \* the calls of RunBackup
  Names,   \* the object names
  NoName   \* the call has not begun

VARIABLES
  name,    \* name[r]: the object name call r writes to
  status,  \* status[r]: "idle", "running", "recorded" or "failed"
  stored,  \* stored[r]: the whole dump of r, and only it, is in the storage
  rows     \* the calls whose row is in the backups table

vars == <<name, status, stored, rows>>

Init ==
  /\ name = [r \in Runs |-> NoName]
  /\ status = [r \in Runs |-> "idle"]
  /\ stored = [r \in Runs |-> FALSE]
  /\ rows = {}

Rivals(r) == {x \in Runs \ {r} : name[x] = name[r]}

Intact(r) == stored[r] \/ Rivals(r) # {}

\* Call r may complete or spoil its own object, and spoil those of its rivals.
Rewrites(r) ==
  /\ stored' \in [Runs -> BOOLEAN]
  /\ \A x \in Runs \ {r} : stored'[x] # stored[x] => x \in Rivals(r) /\ ~stored'[x]

Begin(r) ==
  /\ status[r] = "idle"
  /\ \E n \in Names : name' = [name EXCEPT ![r] = n]
  /\ status' = [status EXCEPT ![r] = "running"]
  /\ UNCHANGED <<stored, rows>>

Write(r) ==
  /\ status[r] = "running"
  /\ Rewrites(r)
  /\ UNCHANGED <<name, status, rows>>

Record(r) ==
  /\ status[r] = "running"
  /\ Intact(r)
  /\ status' = [status EXCEPT ![r] = "recorded"]
  /\ rows' = rows \union {r}
  /\ UNCHANGED <<name, stored>>

\* The caller is told of a failure.  The row may be there all the same, when
\* only the database's answer was lost; then the object is there too.
Fail(r) ==
  /\ status[r] = "running"
  /\ status' = [status EXCEPT ![r] = "failed"]
  /\ \/ Rewrites(r) /\ UNCHANGED rows
     \/ Intact(r) /\ rows' = rows \union {r} /\ UNCHANGED stored
  /\ UNCHANGED name

Next == \E r \in Runs : Begin(r) \/ Write(r) \/ Record(r) \/ Fail(r)

Spec == Init /\ [][Next]_vars

============================================================================
