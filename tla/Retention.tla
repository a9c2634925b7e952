------------------------------ MODULE Retention ------------------------------
(***************************************************************************)
(* The backups of schedules through their lives: the jobs that make them,  *)
(* the foreign key that ties their rows to a schedule, and ApplyRetention, *)
(* which prunes them from a snapshot of the schedules while requests       *)
(* change and delete those.  Nothing here is one transaction: each call to *)
(* the database or the storage is a step that can fail or be the last.     *)
(*                                                                         *)
(* Each backup has an object of its own (Catalog is about those that share *)
(* a name) and the clock counts days.  When ApplyRetention runs is left    *)
(* open: Scheduling shows that the entry of its job is refused.            *)
(***************************************************************************)
EXTENDS Naturals

CONSTANTS
  Schedules,  \* ids of schedules
  Backups,    \* ids of backups
  Sweeps,     \* runs of ApplyRetention that can overlap
  Days,       \* the retention_days a schedule can have; 0 keeps for ever
  MaxClock,   \* bound on the clock
  None        \* no schedule, no row, no backup

ASSUME RetentionAssumption ==
  /\ Days \subseteq Nat
  /\ MaxClock \in Nat
  /\ None \notin Schedules \union Backups \union Nat

VARIABLES
  clock,
  policy,    \* policy[s]: retention_days of row s, None when it was deleted
  rows,      \* the ids in the backups table
  owner,     \* owner[b]: schedule_id of row b, None for NULL
  finished,  \* finished[b]: finished_at
  objects,   \* the backups whose object is in the storage
  job,       \* job[b]: the scheduled run that makes b
  sweep,     \* sweep[w]: how far a run of ApplyRetention is
  began,     \* history: the policies, and the rows due, when sweep w began
  missed,    \* history: the rows an error made sweep w leave
  lost,      \* history: objects left behind by an error, a refusal or a crash
  halved     \* history: rows left behind by an error or a crash

tables == <<policy, rows, owner>>
history == <<began, missed, lost, halved>>
vars == <<clock, tables, finished, objects, job, sweep, history>>

----------------------------------------------------------------------------
\* Mutant: the backup of the last day goes too.
ExpiredEarly(b, days) == days > 0 /\ finished[b] + days <= clock

\* schedule.RetentionDays > 0 and b.FinishedAt.Before(cutoff)
Expired(b, days) == days > 0 /\ finished[b] + days < clock

Positive(s) == policy[s] # None /\ policy[s] > 0

\* SELECT ... FROM backups WHERE schedule_id = $1
RowsOf(s) == {b \in rows : owner[b] = s}

\* What a sweep that begins now is to prune.
Due == UNION {{b \in RowsOf(s) : finished[b] + policy[s] < clock} :
                s \in {x \in Schedules : Positive(x)}}

NoJob   == [pc |-> "none", of |-> None]
NotBegun == [policy |-> [s \in Schedules |-> None], due |-> {}]
NoSweep == [pc |-> "idle", plan |-> [s \in Schedules |-> 0], left |-> {}, b |-> None]

TypeOK ==
  /\ clock \in 0..MaxClock
  /\ policy \in [Schedules -> Days \union {None}]
  /\ rows \subseteq Backups
  /\ owner \in [Backups -> Schedules \union {None}]
  /\ finished \in [Backups -> 0..MaxClock]
  /\ objects \subseteq Backups
  /\ job \in [Backups -> [pc: {"none", "save", "record", "ended"},
                          of: Schedules \union {None}]]
  /\ sweep \in [Sweeps -> [pc: {"idle", "list", "object", "row"},
                           plan: [Schedules -> Days \union {0}],
                           left: SUBSET Backups, b: Backups \union {None}]]
  /\ began \in [Sweeps -> [policy: [Schedules -> Days \union {None}], due: SUBSET Backups]]
  /\ missed \in [Sweeps -> SUBSET Backups]
  /\ lost \subseteq Backups
  /\ halved \subseteq Backups

Init ==
  /\ clock = 0
  /\ policy \in [Schedules -> Days]
  /\ rows = {}
  /\ owner = [b \in Backups |-> None]
  /\ finished = [b \in Backups |-> 0]
  /\ objects = {}
  /\ job = [b \in Backups |-> NoJob]
  /\ sweep = [w \in Sweeps |-> NoSweep]
  /\ began = [w \in Sweeps |-> NotBegun]
  /\ missed = [w \in Sweeps |-> {}]
  /\ lost = {}
  /\ halved = {}

Tick ==
  /\ clock < MaxClock
  /\ clock' = clock + 1
  /\ UNCHANGED <<tables, finished, objects, job, sweep, history>>

----------------------------------------------------------------------------
(***************************************************************************)
(* Requests and commands that change schedules.                            *)
(***************************************************************************)
UpdateSchedule(s) ==
  /\ policy[s] # None
  /\ \E d \in Days : policy' = [policy EXCEPT ![s] = d]
  /\ UNCHANGED <<clock, rows, owner, finished, objects, job, sweep, history>>

\* Mutant: ON DELETE CASCADE.
DeleteCascades(s) ==
  /\ policy[s] # None
  /\ policy' = [policy EXCEPT ![s] = None]
  /\ rows' = {b \in rows : owner[b] # s}
  /\ UNCHANGED <<clock, owner, finished, objects, job, sweep, history>>

\* ON DELETE SET NULL: its backups stay, and are nobody's.
DeleteSchedule(s) ==
  /\ policy[s] # None
  /\ policy' = [policy EXCEPT ![s] = None]
  /\ owner' = [b \in Backups |-> IF owner[b] = s THEN None ELSE owner[b]]
  /\ UNCHANGED <<clock, rows, finished, objects, job, sweep, history>>

----------------------------------------------------------------------------
(***************************************************************************)
(* A scheduled job: RunBackup at the grain of BackupPromise.  Its cron     *)
(* entry may outlive the row of its schedule.  last_run, which it sets at  *)
(* the end if it can, is only listed and left out.                         *)
(***************************************************************************)
JobGoes(b, pc) == job' = [job EXCEPT ![b].pc = pc]

\* Mutant: the row comes first.
JobBeginsUnsaved(b) ==
  /\ job[b].pc = "none"
  /\ \E s \in Schedules : job' = [job EXCEPT ![b] = [pc |-> "record", of |-> s]]
  /\ UNCHANGED <<clock, tables, finished, objects, sweep, history>>

JobBegins(b) ==
  /\ job[b].pc = "none"
  /\ \E s \in Schedules : job' = [job EXCEPT ![b] = [pc |-> "save", of |-> s]]
  /\ UNCHANGED <<clock, tables, finished, objects, sweep, history>>

JobSaves(b) ==
  /\ job[b].pc = "save"
  /\ objects' = objects \union {b}
  /\ finished' = [finished EXCEPT ![b] = clock]
  /\ JobGoes(b, "record")
  /\ UNCHANGED <<clock, tables, sweep, history>>

JobSaveFails(b) ==
  /\ job[b].pc = "save"
  /\ objects' \in {objects, objects \union {b}}
  /\ lost' = lost \union {b}
  /\ JobGoes(b, "ended")
  /\ UNCHANGED <<clock, tables, finished, sweep, began, missed, halved>>

JobRecords(b) ==
  /\ job[b].pc = "record"
  /\ policy[job[b].of] # None
  /\ rows' = rows \union {b}
  /\ owner' = [owner EXCEPT ![b] = job[b].of]
  /\ JobGoes(b, "ended")
  /\ UNCHANGED <<clock, policy, finished, objects, sweep, history>>

\* The insert fails, and must when the schedule is gone by now: what was saved
\* is nobody's.  When the connection failed the row may be there all the same.
JobRecordFails(b) ==
  /\ job[b].pc = "record"
  /\ \/ UNCHANGED <<rows, owner>>
     \/ /\ policy[job[b].of] # None
        /\ rows' = rows \union {b}
        /\ owner' = [owner EXCEPT ![b] = job[b].of]
  /\ lost' = lost \union {b}
  /\ JobGoes(b, "ended")
  /\ UNCHANGED <<clock, policy, finished, objects, sweep, began, missed, halved>>

----------------------------------------------------------------------------
(***************************************************************************)
(* ApplyRetention.                                                         *)
(***************************************************************************)
\* Mutant: no schedule is skipped.
SweepBeginsAll(w) ==
  /\ sweep[w].pc = "idle"
  /\ sweep' = [sweep EXCEPT ![w] = [NoSweep EXCEPT !.pc = "list", !.plan = policy]]
  /\ began' = [began EXCEPT ![w] = [policy |-> policy, due |-> Due]]
  /\ UNCHANGED <<clock, tables, finished, objects, job, missed, lost, halved>>

\* ListSchedules; a schedule without retention is skipped (its plan is 0).
SweepBegins(w) ==
  /\ sweep[w].pc = "idle"
  /\ sweep' = [sweep EXCEPT ![w] = [NoSweep EXCEPT !.pc = "list",
                 !.plan = [s \in Schedules |-> IF Positive(s) THEN policy[s] ELSE 0]]]
  /\ began' = [began EXCEPT ![w] = [policy |-> policy, due |-> Due]]
  /\ UNCHANGED <<clock, tables, finished, objects, job, missed, lost, halved>>

\* Mutant: what was pruned is not taken off the list.
ContinueForEver(w, left) ==
  [sweep[w] EXCEPT !.b = None, !.left = left \union sweep[w].left,
                   !.pc = IF left \union sweep[w].left = {} THEN "list" ELSE "object"]

\* Where the loops go on when left is still to be pruned.
Continue(w, left) ==
  [sweep[w] EXCEPT !.left = left, !.b = None, !.pc = IF left = {} THEN "list" ELSE "object"]

\* ListBackupsBySchedule, and the cutoff.
SweepLists(w, s) ==
  LET days == sweep[w].plan[s] IN
  /\ sweep[w].pc = "list"
  /\ days # 0
  /\ sweep' = [sweep EXCEPT ![w] =
       [Continue(w, {b \in RowsOf(s) : Expired(b, days)}) EXCEPT !.plan[s] = 0]]
  /\ UNCHANGED <<clock, tables, finished, objects, job, history>>

\* Mutant: the first failure to list ends the sweep for all schedules.
SweepListAborts(w, s) ==
  /\ sweep[w].pc = "list"
  /\ sweep[w].plan[s] # 0
  /\ sweep' = [sweep EXCEPT ![w].plan = NoSweep.plan]
  /\ missed' = [missed EXCEPT ![w] = @ \union RowsOf(s)]
  /\ UNCHANGED <<clock, tables, finished, objects, job, began, lost, halved>>

\* Logged, and on with the next schedule.
SweepListFails(w, s) ==
  /\ sweep[w].pc = "list"
  /\ sweep[w].plan[s] # 0
  /\ sweep' = [sweep EXCEPT ![w].plan[s] = 0]
  /\ missed' = [missed EXCEPT ![w] = @ \union RowsOf(s)]
  /\ UNCHANGED <<clock, tables, finished, objects, job, began, lost, halved>>

SweepDeletesObject(w, b) ==
  /\ sweep[w].pc = "object"
  /\ b \in sweep[w].left
  /\ objects' = objects \ {b}
  /\ sweep' = [sweep EXCEPT ![w].pc = "row", ![w].b = b]
  /\ UNCHANGED <<clock, tables, finished, job, history>>

\* The storage fails, or it is not the one the backup is in (the adapter is that
\* of the configuration of today); the row will go all the same.
SweepObjectFails(w, b) ==
  /\ sweep[w].pc = "object"
  /\ b \in sweep[w].left
  /\ objects' \in {objects, objects \ {b}}
  /\ lost' = lost \union {b}
  /\ sweep' = [sweep EXCEPT ![w].pc = "row", ![w].b = b]
  /\ UNCHANGED <<clock, tables, finished, job, began, missed, halved>>

SweepDeletesRow(w) ==
  LET b == sweep[w].b IN
  /\ sweep[w].pc = "row"
  /\ rows' = rows \ {b}
  /\ sweep' = [sweep EXCEPT ![w] = Continue(w, sweep[w].left \ {b})]
  /\ UNCHANGED <<clock, policy, owner, finished, objects, job, history>>

SweepRowFails(w) ==
  LET b == sweep[w].b IN
  /\ sweep[w].pc = "row"
  /\ rows' \in {rows, rows \ {b}}
  /\ sweep' = [sweep EXCEPT ![w] = Continue(w, sweep[w].left \ {b})]
  /\ missed' = [missed EXCEPT ![w] = @ \union {b}]
  /\ halved' = halved \union {b}
  /\ UNCHANGED <<clock, policy, owner, finished, objects, job, began, lost>>

SweepEnds(w) ==
  /\ sweep[w].pc = "list"
  /\ sweep[w].plan = NoSweep.plan
  /\ sweep' = [sweep EXCEPT ![w] = NoSweep]
  /\ began' = [began EXCEPT ![w] = NotBegun]
  /\ missed' = [missed EXCEPT ![w] = {}]
  /\ UNCHANGED <<clock, tables, finished, objects, job, lost, halved>>

----------------------------------------------------------------------------
\* The controller dies, with its jobs and sweeps.
Crash ==
  /\ job' = [b \in Backups |-> IF job[b].pc \in {"save", "record"}
                               THEN [job[b] EXCEPT !.pc = "ended"] ELSE job[b]]
  /\ sweep' = [w \in Sweeps |-> NoSweep]
  /\ lost' = lost \union {b \in Backups : job[b].pc \in {"save", "record"}}
  /\ halved' = halved \union {b \in Backups : \E w \in Sweeps : sweep[w].b = b}
  /\ began' = [w \in Sweeps |-> NotBegun]
  /\ missed' = [w \in Sweeps |-> {}]
  /\ UNCHANGED <<clock, tables, finished, objects>>

Job(b) ==
  JobBegins(b) \/ JobSaves(b) \/ JobSaveFails(b) \/ JobRecords(b) \/ JobRecordFails(b)

SweepGoesOn(w) ==
  \/ \E s \in Schedules : SweepLists(w, s) \/ SweepListFails(w, s)
  \/ \E b \in Backups : SweepDeletesObject(w, b) \/ SweepObjectFails(w, b)
  \/ SweepDeletesRow(w) \/ SweepRowFails(w) \/ SweepEnds(w)

Next ==
  \/ Tick \/ Crash
  \/ \E s \in Schedules : UpdateSchedule(s) \/ DeleteSchedule(s)
  \/ \E b \in Backups : Job(b)
  \/ \E w \in Sweeps : SweepBegins(w) \/ SweepGoesOn(w)

Spec == Init /\ [][Next]_vars

\* Every call a sweep makes is answered or fails; nothing makes a sweep begin.
FairSpec == Spec /\ \A w \in Sweeps : WF_vars(SweepGoesOn(w))

----------------------------------------------------------------------------
(***************************************************************************)
(* Properties.                                                             *)
(***************************************************************************)

\* A row is pruned only by a sweep, and only if it is older than the policy its
\* schedule had when the sweep began: a sweep overlooks no more than what is
\* changed while it is at work, and never prunes what was nobody's before.
PrunedWasOld ==
  [][\A b \in rows \ rows' :
       \E w \in Sweeps : LET days == began[w].policy[job[b].of] IN
         sweep[w].b = b /\ days # None /\ days > 0 /\ finished[b] + days < clock]_vars

\* A sweep that has run to its end has pruned every backup that was due when it
\* began, but those that an error made it leave and those whose schedule was
\* deleted meanwhile; jobs, requests and other sweeps do not make it skip any.
SweepIsThorough ==
  [][\A w \in Sweeps :
       SweepEnds(w) => \A b \in began[w].due \ missed[w] : b \notin rows \/ owner[b] = None]_vars

\* An object is listed, or about to be, as long as it is there: rows go last,
\* and schedules go without their backups.  Only an error, a row refused for its
\* schedule's sake, or a crash leaves an object that nobody will delete.
StoredIsListed ==
  \A b \in objects \ lost : b \in rows \/ job[b].pc = "record"

\* A listed backup has its object, or is being pruned right now; only an error
\* or a crash between the two deletions leaves a row that leads nowhere.
ListedIsStored ==
  \A b \in rows \ halved : b \in objects \/ \E w \in Sweeps : sweep[w].b = b

Planned(w) == {s \in Schedules : sweep[w].plan[s] # 0}

CanGoOn(w) ==
  \/ sweep[w].pc = "list" /\ sweep[w].left = {}
  \/ sweep[w].pc = "object" /\ sweep[w].left # {}
  \/ sweep[w].pc = "row" /\ sweep[w].b \in sweep[w].left

\* The step of a sweep that leaves it fewer schedules to list, or else fewer backups
\* to prune, or else only the row of the one it is at.
LessToDo(w) ==
  \/ sweep'[w].pc = "idle"
  \/ Planned(w)' \subseteq Planned(w) /\ Planned(w)' # Planned(w)
  \/ /\ Planned(w)' = Planned(w)
     /\ sweep'[w].left \subseteq sweep[w].left /\ sweep'[w].left # sweep[w].left
  \/ /\ Planned(w)' = Planned(w)
     /\ sweep'[w].left = sweep[w].left
     /\ sweep[w].pc = "object" /\ sweep'[w].pc = "row"

\* A sweep at work always has something to do next, and whatever it does, be it
\* answered or not, leaves it less: jobs and requests add nothing to the lists it
\* works off.  This is why SweepReturns holds for any number of backups.
SweepWorksOff ==
  /\ [](\A w \in Sweeps : sweep[w].pc # "idle" => CanGoOn(w))
  /\ [][\A w \in Sweeps :
           sweep[w].pc # "idle" /\ sweep'[w] # sweep[w] => LessToDo(w)]_vars

\* A sweep returns, however many backups are made or lost while it is at work.
SweepReturns == \A w \in Sweeps : sweep[w].pc # "idle" ~> sweep[w].pc = "idle"

============================================================================
