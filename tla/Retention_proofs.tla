---------------------------- MODULE Retention_proofs ----------------------------
(***************************************************************************)
(* Proofs about Retention, for any schedules, backups, retention days,     *)
(* lengths of time and numbers of overlapping sweeps: its type invariant,  *)
(* that objects and rows come and go together, that a sweep prunes only    *)
(* what was old when it began, and all of it, and that each of its steps   *)
(* leaves it less to do.                                                   *)
(*                                                                         *)
(* They rest on BackupInv, that a backup which is listed changes no more   *)
(* but for its schedule's sake, and on ListInv, which relates what a       *)
(* sweep has on its list to the policies that it began with.               *)
(***************************************************************************)
EXTENDS Retention, TLAPS

----------------------------------------------------------------------------
(* The inductive invariant.                                                *)

\* A row is made once, by the job of its schedule, and after its object.
BackupInv(b) ==
  /\ job[b].pc # "none" => job[b].of \in Schedules
  /\ job[b].pc = "record" => b \in objects
  /\ b \in rows \/ owner[b] # None => job[b].pc = "ended"
  /\ owner[b] # None => owner[b] = job[b].of

\* Backup b was older than the policy its schedule had when sweep w began.
Old(w, b) ==
  LET days == began[w].policy[job[b].of] IN
  /\ job[b].pc = "ended"
  /\ days # None /\ days > 0
  /\ finished[b] + days < clock

\* Where a sweep has its backups at each of its steps.
PlaceInv(w) ==
  /\ sweep[w].pc \in {"idle", "list"} => sweep[w].left = {}
  /\ sweep[w].pc # "row" => sweep[w].b = None
  /\ sweep[w].pc = "row" => /\ sweep[w].b \in sweep[w].left
                            /\ sweep[w].b \notin objects \/ sweep[w].b \in lost

\* What is on the list of a sweep is old, and what is due is on it, or will be.
ListInv(w) ==
  /\ \A s \in Schedules : sweep[w].plan[s] # 0 => began[w].policy[s] = sweep[w].plan[s]
  /\ \A b \in sweep[w].left \union began[w].due : Old(w, b)
  /\ \A b \in began[w].due \ missed[w] :
       \/ b \notin rows \/ owner[b] = None
       \/ b \in sweep[w].left
       \/ sweep[w].plan[owner[b]] # 0

IInv ==
  /\ TypeOK
  /\ \A b \in Backups : BackupInv(b)
  /\ \A w \in Sweeps : PlaceInv(w) /\ ListInv(w)
  /\ StoredIsListed
  /\ ListedIsStored

----------------------------------------------------------------------------
(* Types.                                                                  *)

JobType   == [pc: {"none", "save", "record", "ended"}, of: Schedules \union {None}]
SweepType == [pc: {"idle", "list", "object", "row"}, plan: [Schedules -> Days \union {0}],
              left: SUBSET Backups, b: Backups \union {None}]
BeganType == [policy: [Schedules -> Days \union {None}], due: SUBSET Backups]

LEMMA Types ==
  ASSUME TypeOK
  PROVE  /\ job \in [Backups -> JobType]
         /\ sweep \in [Sweeps -> SweepType]
         /\ began \in [Sweeps -> BeganType]
BY DEF TypeOK, JobType, SweepType, BeganType

\* A job, or a sweep, that has taken a step.
LEMMA JobGoesType ==
  ASSUME TypeOK, NEW b \in Backups, NEW pc \in {"none", "save", "record", "ended"}, JobGoes(b, pc)
  PROVE  job' \in [Backups -> JobType]
<1>1. \A j \in JobType : [j EXCEPT !.pc = pc] \in JobType
  BY DEF JobType
<1>2. job' = [job EXCEPT ![b] = [job[b] EXCEPT !.pc = pc]]
  BY Types DEF JobGoes
<1> QED BY <1>1, <1>2, Types

LEMMA ContinueType ==
  ASSUME TypeOK, NEW w \in Sweeps, NEW left \in SUBSET Backups
  PROVE  Continue(w, left) \in SweepType
<1>1. PICK pc \in {"list", "object"} : pc = IF left = {} THEN "list" ELSE "object"
  OBVIOUS
<1>2. Continue(w, left) = [sweep[w] EXCEPT !.left = left, !.b = None, !.pc = pc]
  BY <1>1 DEF Continue
<1>3. \A s \in SweepType : [s EXCEPT !.left = left, !.b = None, !.pc = pc] \in SweepType
  BY DEF SweepType
<1> QED BY <1>2, <1>3, Types

LEMMA NoSweepType == NoSweep \in SweepType /\ NotBegun \in BeganType
BY DEF NoSweep, NotBegun, SweepType, BeganType

LEMMA RowsOfType ==
  ASSUME TypeOK
  PROVE  Due \subseteq Backups /\ \A s : RowsOf(s) \subseteq Backups
BY DEF Due, RowsOf, TypeOK

LEMMA TypeStep == IInv /\ [Next]_vars => TypeOK'
<1> SUFFICES ASSUME IInv, [Next]_vars PROVE TypeOK'
  OBVIOUS
<1>0. TypeOK
  BY DEF IInv
<1> USE RetentionAssumption DEF tables, history
<1>1. CASE Tick
  BY <1>0, <1>1 DEF Tick, TypeOK
<1>2. CASE \E s \in Schedules : UpdateSchedule(s) \/ DeleteSchedule(s)
  <2>1. policy' \in [Schedules -> Days \union {None}]
    BY <1>0, <1>2 DEF UpdateSchedule, DeleteSchedule, TypeOK
  <2>2. owner' \in [Backups -> Schedules \union {None}]
    BY <1>0, <1>2 DEF UpdateSchedule, DeleteSchedule, TypeOK
  <2> QED BY <1>0, <1>2, <2>1, <2>2 DEF UpdateSchedule, DeleteSchedule, TypeOK
<1>3. ASSUME NEW b \in Backups, JobBegins(b) PROVE TypeOK'
  <2>1. job' \in [Backups -> JobType]
    BY <1>0, <1>3, Types DEF JobBegins, JobType
  <2> QED BY <1>0, <1>3, <2>1 DEF JobBegins, JobType, TypeOK
<1>4. ASSUME NEW b \in Backups, JobSaves(b) \/ JobSaveFails(b) PROVE TypeOK'
  <2>1. job' \in [Backups -> JobType]
    BY <1>0, <1>4, JobGoesType DEF JobSaves, JobSaveFails
  <2>2. finished' \in [Backups -> 0..MaxClock]
    BY <1>0, <1>4 DEF JobSaves, JobSaveFails, TypeOK
  <2> QED BY <1>0, <1>4, <2>1, <2>2 DEF JobSaves, JobSaveFails, JobType, TypeOK
<1>5. ASSUME NEW b \in Backups, JobRecords(b) \/ JobRecordFails(b) PROVE TypeOK'
  <2>1. job' \in [Backups -> JobType]
    BY <1>0, <1>5, JobGoesType DEF JobRecords, JobRecordFails
  <2>2. owner' \in [Backups -> Schedules \union {None}]
    <3>1. job[b].of \in Schedules \union {None}
      BY <1>0, Types DEF JobType
    <3> QED BY <1>0, <1>5, <3>1 DEF JobRecords, JobRecordFails, TypeOK
  <2> QED BY <1>0, <1>5, <2>1, <2>2 DEF JobRecords, JobRecordFails, JobType, TypeOK
<1>6. ASSUME NEW w \in Sweeps, SweepBegins(w) PROVE TypeOK'
  <2> DEFINE plan == [s \in Schedules |-> IF Positive(s) THEN policy[s] ELSE 0]
  <2>1. plan \in [Schedules -> Days \union {0}]
    BY <1>0 DEF Positive, TypeOK
  <2>2. \A p \in [Schedules -> Days \union {0}] : [NoSweep EXCEPT !.pc = "list", !.plan = p] \in SweepType
    BY NoSweepType DEF NoSweep, SweepType
  <2>3. sweep' \in [Sweeps -> SweepType]
    BY <1>0, <1>6, <2>1, <2>2, Types DEF SweepBegins
  <2>4. [policy |-> policy, due |-> Due] \in BeganType
    BY <1>0, RowsOfType DEF BeganType, TypeOK
  <2>5. began' \in [Sweeps -> BeganType]
    BY <1>0, <1>6, <2>4, Types DEF SweepBegins
  <2> QED BY <1>0, <1>6, <2>3, <2>5 DEF SweepBegins, SweepType, BeganType, TypeOK
<1>7. ASSUME NEW w \in Sweeps, NEW s \in Schedules, SweepLists(w, s) PROVE TypeOK'
  <2>1. PICK left \in SUBSET Backups :
          sweep' = [sweep EXCEPT ![w] = [Continue(w, left) EXCEPT !.plan[s] = 0]]
    BY <1>0, <1>7, RowsOfType DEF SweepLists
  <2>2. \A x \in SweepType : [x EXCEPT !.plan[s] = 0] \in SweepType
    BY DEF SweepType
  <2>3. sweep' \in [Sweeps -> SweepType]
    BY <1>0, <2>1, <2>2, ContinueType, Types
  <2> QED BY <1>0, <1>7, <2>3 DEF SweepLists, SweepType, TypeOK
<1>8. ASSUME NEW w \in Sweeps, NEW s \in Schedules, SweepListFails(w, s) PROVE TypeOK'
  <2>1. \A x \in SweepType : [x EXCEPT !.plan[s] = 0] \in SweepType
    BY DEF SweepType
  <2>2. sweep' = [sweep EXCEPT ![w] = [sweep[w] EXCEPT !.plan[s] = 0]]
    BY <1>0, <1>8, Types DEF SweepListFails
  <2>3. sweep' \in [Sweeps -> SweepType]
    BY <1>0, <2>1, <2>2, Types
  <2>4. missed' \in [Sweeps -> SUBSET Backups]
    BY <1>0, <1>8, RowsOfType DEF SweepListFails, TypeOK
  <2> QED BY <1>0, <1>8, <2>3, <2>4 DEF SweepListFails, SweepType, TypeOK
<1>9. ASSUME NEW w \in Sweeps, NEW b \in Backups, SweepDeletesObject(w, b) \/ SweepObjectFails(w, b)
      PROVE  TypeOK'
  <2>1. \A x \in SweepType : [x EXCEPT !.pc = "row", !.b = b] \in SweepType
    BY DEF SweepType
  <2>2. sweep' = [sweep EXCEPT ![w] = [sweep[w] EXCEPT !.pc = "row", !.b = b]]
    BY <1>0, <1>9, Types DEF SweepDeletesObject, SweepObjectFails
  <2>3. sweep' \in [Sweeps -> SweepType]
    BY <1>0, <2>1, <2>2, Types
  <2> QED BY <1>0, <1>9, <2>3 DEF SweepDeletesObject, SweepObjectFails, SweepType, TypeOK
<1>10. ASSUME NEW w \in Sweeps, SweepDeletesRow(w) \/ SweepRowFails(w) PROVE TypeOK'
  <2>1. sweep[w].left \ {sweep[w].b} \in SUBSET Backups
    BY <1>0, Types DEF SweepType
  <2>2. sweep' \in [Sweeps -> SweepType]
    BY <1>0, <1>10, <2>1, ContinueType, Types DEF SweepDeletesRow, SweepRowFails
  <2>3. sweep[w].b \in Backups
    <3>1. sweep[w].b \in sweep[w].left
      BY <1>10 DEF IInv, PlaceInv, SweepDeletesRow, SweepRowFails
    <3>2. sweep[w].left \subseteq Backups
      BY <1>0, Types DEF SweepType
    <3> QED BY <3>1, <3>2
  <2>4. missed' \in [Sweeps -> SUBSET Backups] /\ halved' \subseteq Backups
    <3>1. PICK b \in Backups : b = sweep[w].b
      BY <2>3
    <3>2. CASE SweepDeletesRow(w)
      BY <1>0, <3>2 DEF SweepDeletesRow, TypeOK
    <3>3. CASE SweepRowFails(w)
      <4>1. missed' = [missed EXCEPT ![w] = @ \union {b}] /\ halved' = halved \union {b}
        BY <3>1, <3>3 DEF SweepRowFails
      <4> QED BY <1>0, <4>1 DEF TypeOK
    <3> QED BY <1>10, <3>2, <3>3
  <2> QED BY <1>0, <1>10, <2>2, <2>4 DEF SweepDeletesRow, SweepRowFails, SweepType, TypeOK
<1>11. ASSUME NEW w \in Sweeps, SweepEnds(w) PROVE TypeOK'
  <2>1. sweep' \in [Sweeps -> SweepType] /\ began' \in [Sweeps -> BeganType]
    BY <1>0, <1>11, NoSweepType, Types DEF SweepEnds
  <2> QED BY <1>0, <1>11, <2>1 DEF SweepEnds, SweepType, BeganType, TypeOK
<1>12. CASE Crash
  <2>1. sweep' \in [Sweeps -> SweepType] /\ began' \in [Sweeps -> BeganType]
    BY <1>12, NoSweepType DEF Crash
  <2>2. job' \in [Backups -> JobType]
    <3>1. \A j \in JobType : [j EXCEPT !.pc = "ended"] \in JobType
      BY DEF JobType
    <3> QED BY <1>0, <1>12, <3>1, Types DEF Crash
  <2>3. lost' \subseteq Backups /\ halved' \subseteq Backups /\ missed' \in [Sweeps -> SUBSET Backups]
    BY <1>0, <1>12 DEF Crash, TypeOK
  <2> QED BY <1>0, <1>12, <2>1, <2>2, <2>3 DEF Crash, SweepType, BeganType, JobType, TypeOK
<1>13. CASE UNCHANGED vars
  BY <1>0, <1>13 DEF vars, TypeOK
<1> QED BY <1>1, <1>2, <1>3, <1>4, <1>5, <1>6, <1>7, <1>8, <1>9, <1>10, <1>11, <1>12, <1>13
        DEF Next, Job, SweepGoesOn

----------------------------------------------------------------------------
(* Backups.                                                                *)

\* A backup whose job has ended does not change, but that it may go, and that its
\* schedule may; and errors are not forgotten.
Calm ==
  /\ clock' >= clock /\ lost \subseteq lost'
  /\ \A b \in Backups : job[b].pc = "ended" =>
       /\ job'[b] = job[b] /\ finished'[b] = finished[b]
       /\ b \in rows' => b \in rows
       /\ owner'[b] = owner[b] \/ owner'[b] = None
       /\ b \in objects' => b \in objects

Only(b) == \A x \in Backups \ {b} : job'[x] = job[x]

LEMMA JobGoesTo ==
  ASSUME TypeOK, NEW b \in Backups, NEW pc, JobGoes(b, pc)
  PROVE  Only(b) /\ job'[b].pc = pc /\ job'[b].of = job[b].of
<1>1. \A j \in JobType : [j EXCEPT !.pc = pc].pc = pc /\ [j EXCEPT !.pc = pc].of = j.of
  BY DEF JobType
<1>2. job'[b] = [job[b] EXCEPT !.pc = pc] /\ Only(b)
  BY Types DEF JobGoes, Only
<1> QED BY <1>1, <1>2, Types

\* The steps of a job.
LEMMA JobStep ==
  ASSUME IInv, NEW b \in Backups, Job(b)
  PROVE  /\ Calm /\ Only(b) /\ UNCHANGED <<sweep, began, missed, halved, policy, clock>>
         /\ \A x \in Backups : BackupInv(x)'
         /\ StoredIsListed' /\ ListedIsStored'
<1>0. TypeOK /\ BackupInv(b)
  BY DEF IInv
<1>1. UNCHANGED <<sweep, began, missed, halved, policy, clock>>
  BY DEF Job, JobBegins, JobSaves, JobSaveFails, JobRecords, JobRecordFails, tables, history
<1>2. \A x \in Backups \ {b} : /\ x \in rows' <=> x \in rows
                               /\ x \in objects' <=> x \in objects
                               /\ owner'[x] = owner[x] /\ finished'[x] = finished[x]
  BY <1>0 DEF Job, JobBegins, JobSaves, JobSaveFails, JobRecords, JobRecordFails, tables, history,
     TypeOK
<1>3. Only(b) /\ lost \subseteq lost' /\ lost' \subseteq lost \union {b}
  <2>1. CASE JobBegins(b)
    BY <1>0, <2>1, Types DEF JobBegins, Only, history
  <2>2. CASE ~JobBegins(b)
    BY <1>0, <2>2, JobGoesTo DEF Job, JobSaves, JobSaveFails, JobRecords, JobRecordFails, history
  <2> QED BY <2>1, <2>2
<1>4. clock' >= clock
  BY <1>0, <1>1 DEF TypeOK
<1>5. job[b].pc # "ended"
  BY DEF Job, JobBegins, JobSaves, JobSaveFails, JobRecords, JobRecordFails
<1>6. Calm
  BY <1>2, <1>3, <1>4, <1>5 DEF Calm, Only
<1>7. /\ BackupInv(b)'
      /\ b \in objects' \ lost' => b \in rows' \/ job'[b].pc = "record"
      /\ b \in rows' => b \in objects'
  <2>1. b \notin rows /\ owner[b] = None
    BY <1>0, <1>5 DEF BackupInv
  <2>2. CASE JobBegins(b)
    <3>1. job'[b].pc = "save" /\ job'[b].of \in Schedules
      BY <1>0, <2>2, Types DEF JobBegins
    <3>2. b \in objects => b \in lost
      BY <2>1, <2>2 DEF IInv, StoredIsListed, JobBegins
    <3> QED BY <2>1, <2>2, <3>1, <3>2 DEF JobBegins, BackupInv, tables, history
  <2>3. CASE JobSaves(b)
    <3>1. job'[b].pc = "record" /\ job'[b].of = job[b].of
      BY <1>0, <2>3, JobGoesTo DEF JobSaves
    <3> QED BY <1>0, <2>1, <2>3, <3>1 DEF JobSaves, BackupInv, tables
  <2>4. CASE JobSaveFails(b)
    <3>1. job'[b].pc = "ended" /\ job'[b].of = job[b].of
      BY <1>0, <2>4, JobGoesTo DEF JobSaveFails
    <3> QED BY <1>0, <2>1, <2>4, <3>1 DEF JobSaveFails, BackupInv, tables
  <2>5. CASE JobRecords(b) \/ JobRecordFails(b)
    <3>1. job'[b].pc = "ended" /\ job'[b].of = job[b].of /\ job[b].of \in Schedules
      BY <1>0, <2>5, JobGoesTo DEF JobRecords, JobRecordFails, BackupInv
    <3>2. owner'[b] \in {None, job[b].of}
      BY <1>0, <2>1, <2>5 DEF JobRecords, JobRecordFails, TypeOK
    <3>3. b \in objects' /\ (b \in rows' \/ b \in lost')
      BY <1>0, <2>5 DEF JobRecords, JobRecordFails, BackupInv
    <3> QED BY <3>1, <3>2, <3>3 DEF BackupInv
  <2> QED BY <2>2, <2>3, <2>4, <2>5 DEF Job
<1>8. \A x \in Backups \ {b} : BackupInv(x)'
  BY <1>2, <1>3 DEF IInv, BackupInv, Only
<1>9. StoredIsListed'
  <2>1. objects' \subseteq Backups
    BY <1>0 DEF Job, JobBegins, JobSaves, JobSaveFails, JobRecords, JobRecordFails, TypeOK
  <2> QED BY <1>2, <1>3, <1>7, <2>1 DEF IInv, StoredIsListed, Only
<1>10. ListedIsStored'
  <2>1. rows' \subseteq Backups
    BY <1>0 DEF Job, JobBegins, JobSaves, JobSaveFails, JobRecords, JobRecordFails, TypeOK, tables
  <2> QED BY <1>1, <1>2, <1>7, <2>1 DEF IInv, ListedIsStored
<1> QED BY <1>1, <1>3, <1>6, <1>7, <1>8, <1>9, <1>10

----------------------------------------------------------------------------
(* Sweeps.                                                                 *)

\* What is old stays old.
LEMMA OldStays ==
  ASSUME IInv, TypeOK', Calm, NEW w \in Sweeps, began'[w].policy = began[w].policy,
         NEW b \in Backups, Old(w, b)
  PROVE  Old(w, b)'
<1>1. job'[b] = job[b] /\ finished'[b] = finished[b] /\ clock' >= clock
  BY DEF Calm, Old
<1>2. PICK days : days = began[w].policy[job[b].of]
  OBVIOUS
<1>3. days # None /\ days > 0 /\ finished[b] + days < clock /\ job[b].pc = "ended"
  BY <1>2 DEF Old
<1>4. days \in Nat
  <2>1. TypeOK /\ job[b].of \in Schedules
    BY <1>3 DEF IInv, BackupInv
  <2>2. days \in Days \union {None}
    BY <1>2, <2>1, Types DEF BeganType
  <2> QED BY <1>3, <2>2, RetentionAssumption
<1>5. finished[b] \in Nat /\ clock \in Nat /\ clock' \in Nat
  BY RetentionAssumption DEF IInv, TypeOK
<1>6. finished[b] + days < clock'
  BY <1>1, <1>3, <1>4, <1>5
<1> QED BY <1>1, <1>2, <1>3, <1>6 DEF Old

\* A sweep that takes no step keeps its invariants.
LEMMA SweepStays ==
  ASSUME IInv, TypeOK', Calm, NEW v \in Sweeps,
         sweep'[v] = sweep[v], began'[v] = began[v], missed'[v] = missed[v]
  PROVE  PlaceInv(v)' /\ ListInv(v)'
<1>0. TypeOK /\ PlaceInv(v) /\ ListInv(v)
  BY DEF IInv
<1>1. sweep[v].left \subseteq Backups /\ began[v].due \subseteq Backups
  BY <1>0, Types DEF SweepType, BeganType
<1>2. \A b \in sweep[v].left \union began[v].due : b \in Backups /\ Old(v, b) /\ Old(v, b)'
  BY <1>0, <1>1, OldStays DEF ListInv
<1>3. PlaceInv(v)'
  <2>1. sweep[v].pc = "row" => sweep[v].b \in sweep[v].left /\ (sweep[v].b \notin objects' \/ sweep[v].b \in lost')
    BY <1>0, <1>2 DEF PlaceInv, Calm, Old
  <2> QED BY <1>0, <2>1 DEF PlaceInv
<1>4. ListInv(v)'
  <2>1. ASSUME NEW b \in began[v].due \ missed[v]
        PROVE  \/ b \notin rows' \/ owner'[b] = None
               \/ b \in sweep[v].left
               \/ sweep[v].plan[owner'[b]] # 0
    <3>1. (b \in rows' => b \in rows) /\ (owner'[b] = owner[b] \/ owner'[b] = None)
      BY <1>2 DEF Calm, Old
    <3> QED BY <1>0, <3>1 DEF ListInv
  <2> QED BY <1>0, <1>2, <2>1 DEF ListInv
<1> QED BY <1>3, <1>4

\* When no job steps and nothing comes, rows and objects keep their invariants
\* as soon as rows only go after their objects.
LEMMA NothingComes ==
  ASSUME IInv, TypeOK', job' = job, finished' = finished, clock' >= clock,
         rows' \subseteq rows, objects' \subseteq objects, lost \subseteq lost',
         \A b \in Backups : owner'[b] = owner[b] \/ owner'[b] = None,
         \A b \in objects \ objects' : job[b].pc # "record",
         \A b \in rows \ rows' : b \notin objects' \/ b \in lost'
  PROVE  Calm /\ (\A b \in Backups : BackupInv(b)') /\ StoredIsListed'
<1>1. Calm
  BY DEF Calm
<1>2. \A b \in Backups : BackupInv(b)'
  BY DEF IInv, BackupInv
<1>3. StoredIsListed'
  BY DEF IInv, StoredIsListed
<1> QED BY <1>1, <1>2, <1>3

\* Steps no sweep takes.
LEMMA QuietStep ==
  ASSUME IInv, TypeOK',
         \/ Tick \/ UNCHANGED vars
         \/ \E s \in Schedules : UpdateSchedule(s) \/ DeleteSchedule(s)
  PROVE  IInv'
<1>0. TypeOK
  BY DEF IInv
<1>1. /\ UNCHANGED <<rows, finished, objects, job, sweep, history>>
      /\ clock' >= clock
  BY <1>0, RetentionAssumption DEF Tick, UpdateSchedule, DeleteSchedule, vars, tables, TypeOK
<1>2. \A b \in Backups : owner'[b] = owner[b] \/ owner'[b] = None
  BY <1>0 DEF Tick, UpdateSchedule, DeleteSchedule, vars, tables, TypeOK
<1>3. Calm /\ (\A b \in Backups : BackupInv(b)') /\ StoredIsListed'
  BY <1>1, <1>2, NothingComes DEF history
<1>4. \A v \in Sweeps : PlaceInv(v)' /\ ListInv(v)'
  BY <1>1, <1>3, SweepStays DEF history
<1>5. ListedIsStored'
  BY <1>1 DEF IInv, ListedIsStored, history
<1> QED BY <1>3, <1>4, <1>5 DEF IInv

\* A new sweep has all that is due in its plan.
LEMMA BeginsStep ==
  ASSUME IInv, TypeOK', NEW w \in Sweeps, SweepBegins(w)
  PROVE  IInv'
<1>0. TypeOK /\ PlaceInv(w) /\ ListInv(w)
  BY DEF IInv
<1>1. UNCHANGED <<clock, tables, finished, objects, job, missed, lost, halved>>
  BY DEF SweepBegins
<1>2. Calm /\ (\A b \in Backups : BackupInv(b)') /\ StoredIsListed'
  <2>1. clock' >= clock
    BY <1>0, <1>1 DEF TypeOK
  <2> QED BY <1>1, <2>1, NothingComes DEF tables
<1>3. \A v \in Sweeps \ {w} : PlaceInv(v)' /\ ListInv(v)'
  <2>1. \A v \in Sweeps \ {w} : sweep'[v] = sweep[v] /\ began'[v] = began[v] /\ missed'[v] = missed[v]
    BY <1>0, <1>1 DEF SweepBegins, TypeOK
  <2> QED BY <1>2, <2>1, SweepStays
<1> DEFINE plan == [s \in Schedules |-> IF Positive(s) THEN policy[s] ELSE 0]
<1>4. sweep'[w] = [pc |-> "list", plan |-> plan, left |-> {}, b |-> None]
  BY <1>0, Types DEF SweepBegins, NoSweep
<1>5. began'[w] = [policy |-> policy, due |-> Due]
  BY <1>0 DEF SweepBegins, TypeOK
<1>6. PlaceInv(w)'
  BY <1>4 DEF PlaceInv
<1>7. ListInv(w)'
  <2>1. \A s \in Schedules : plan[s] # 0 => policy[s] = plan[s]
    OBVIOUS
  <2>2. \A b \in Due : b \in Backups /\ b \in rows /\ owner[b] \in Schedules
                       /\ Positive(owner[b]) /\ finished[b] + policy[owner[b]] < clock
    BY <1>0 DEF Due, RowsOf, TypeOK
  <2>3. \A b \in Due : Old(w, b)'
    <3>1. \A b \in Due : job[b].pc = "ended" /\ owner[b] = job[b].of
      BY <2>2, RetentionAssumption DEF IInv, BackupInv
    <3> QED BY <1>1, <1>5, <2>2, <3>1 DEF Old, Positive
  <2>4. \A b \in Due : plan[owner[b]] # 0
    <3>1. \A b \in Due : plan[owner[b]] = policy[owner[b]] /\ policy[owner[b]] > 0
      BY <2>2 DEF Positive
    <3> QED BY <3>1
  <2>5. \A s \in Schedules : sweep'[w].plan[s] # 0 => began'[w].policy[s] = sweep'[w].plan[s]
    BY <1>4, <1>5, <2>1
  <2>6. \A b \in sweep'[w].left \union began'[w].due : Old(w, b)'
    BY <1>4, <1>5, <2>3
  <2>7. \A b \in began'[w].due : sweep'[w].plan[owner'[b]] # 0
    BY <1>1, <1>4, <1>5, <2>4 DEF tables
  <2> QED BY <2>5, <2>6, <2>7 DEF ListInv
<1>8. ListedIsStored'
  <2>1. ASSUME NEW b \in rows, NEW v \in Sweeps, sweep[v].b = b
        PROVE  sweep'[v].b = b
    <3>1. sweep[w].b = None
      BY <1>0 DEF SweepBegins, PlaceInv
    <3>2. b # None
      BY <1>0, RetentionAssumption DEF TypeOK
    <3>3. v # w
      BY <2>1, <3>1, <3>2
    <3> QED BY <1>0, <2>1, <3>3 DEF SweepBegins, TypeOK
  <2> QED BY <1>1, <2>1 DEF IInv, ListedIsStored, tables
<1> QED BY <1>2, <1>3, <1>6, <1>7, <1>8 DEF IInv

\* The fields of a sweep that goes on, or looks at its next schedule.
LEMMA ContinueFields ==
  ASSUME TypeOK, NEW w \in Sweeps, NEW left
  PROVE  /\ Continue(w, left).left = left /\ Continue(w, left).b = None
         /\ Continue(w, left).plan = sweep[w].plan
         /\ Continue(w, left).pc = IF left = {} THEN "list" ELSE "object"
<1>1. PICK pc : pc = IF left = {} THEN "list" ELSE "object"
  OBVIOUS
<1>2. \A x \in SweepType : LET y == [x EXCEPT !.left = left, !.b = None, !.pc = pc]
        IN y.left = left /\ y.b = None /\ y.plan = x.plan /\ y.pc = pc
  BY DEF SweepType
<1>3. Continue(w, left) = [sweep[w] EXCEPT !.left = left, !.b = None, !.pc = pc]
  BY <1>1 DEF Continue
<1> QED BY <1>1, <1>2, <1>3, Types

LEMMA PlanFields ==
  ASSUME NEW x \in SweepType, NEW s \in Schedules
  PROVE  LET y == [x EXCEPT !.plan[s] = 0] IN
         /\ y.left = x.left /\ y.b = x.b /\ y.pc = x.pc
         /\ y.plan[s] = 0 /\ \A r \in Schedules \ {s} : y.plan[r] = x.plan[r]
BY DEF SweepType

\* A schedule is listed: what is due in it is on the list.
LEMMA ListsStep ==
  ASSUME IInv, TypeOK', NEW w \in Sweeps, NEW s \in Schedules, SweepLists(w, s)
  PROVE  IInv'
<1>0. TypeOK /\ PlaceInv(w) /\ ListInv(w)
  BY DEF IInv
<1>1. UNCHANGED <<clock, tables, finished, objects, job, history>>
  BY DEF SweepLists
<1>2. Calm /\ (\A b \in Backups : BackupInv(b)') /\ StoredIsListed'
  <2>1. clock' >= clock
    BY <1>0, <1>1 DEF TypeOK
  <2> QED BY <1>1, <2>1, NothingComes DEF tables, history
<1>3. \A v \in Sweeps \ {w} : sweep'[v] = sweep[v]
  BY <1>0 DEF SweepLists, TypeOK
<1>4. \A v \in Sweeps \ {w} : PlaceInv(v)' /\ ListInv(v)'
  BY <1>1, <1>2, <1>3, SweepStays DEF history
<1>5. PICK days : days = sweep[w].plan[s]
  OBVIOUS
<1>6. PICK left : left = {b \in RowsOf(s) : Expired(b, days)}
  OBVIOUS
<1>7. left \subseteq Backups
  BY <1>0, <1>6, RowsOfType
<1>8. sweep'[w] = [Continue(w, left) EXCEPT !.plan[s] = 0]
  <2>1. sweep' = [sweep EXCEPT ![w] = [Continue(w, left) EXCEPT !.plan[s] = 0]]
    BY <1>5, <1>6 DEF SweepLists
  <2> QED BY <1>0, <2>1 DEF TypeOK
<1>9. /\ sweep'[w].left = left /\ sweep'[w].b = None
      /\ sweep'[w].pc = IF left = {} THEN "list" ELSE "object"
      /\ sweep'[w].plan[s] = 0
      /\ \A r \in Schedules \ {s} : sweep'[w].plan[r] = sweep[w].plan[r]
  BY <1>0, <1>7, <1>8, ContinueType, ContinueFields, PlanFields
<1>10. PlaceInv(w)'
  BY <1>9 DEF PlaceInv
<1>11. began[w].policy[s] = days /\ sweep[w].left = {} /\ sweep[w].b = None
  BY <1>0, <1>5 DEF SweepLists, PlaceInv, ListInv
<1>12. ListInv(w)'
  <2>1. \A b \in left : Old(w, b)'
    <3>1. ASSUME NEW b \in left PROVE Old(w, b)
      <4>1. b \in Backups /\ b \in rows /\ owner[b] = s /\ days > 0 /\ finished[b] + days < clock
        BY <1>6, <1>7, <3>1 DEF RowsOf, Expired
      <4>2. job[b].pc = "ended" /\ job[b].of = s
        BY <4>1, RetentionAssumption DEF IInv, BackupInv
      <4>3. days # None
        <5>1. days \in Days \union {0}
          BY <1>0, <1>5, Types DEF SweepType
        <5> QED BY <5>1, RetentionAssumption
      <4> QED BY <1>11, <4>1, <4>2, <4>3 DEF Old
    <3>2. began'[w].policy = began[w].policy
      BY <1>1 DEF history
    <3> QED BY <1>2, <1>7, <3>1, <3>2, OldStays
  <2>2. \A b \in began[w].due : b \in Backups /\ Old(w, b) /\ Old(w, b)'
    <3>1. began[w].due \subseteq Backups
      BY <1>0, Types DEF BeganType
    <3> QED BY <1>0, <1>1, <1>2, <3>1, OldStays DEF ListInv, history
  <2>3. ASSUME NEW b \in began[w].due \ missed[w], b \in rows, owner[b] # None
        PROVE  b \in left \/ sweep'[w].plan[owner[b]] # 0
    <3>1. sweep[w].plan[owner[b]] # 0 /\ owner[b] \in Schedules
      BY <1>0, <1>11, <2>2, <2>3 DEF ListInv, TypeOK
    <3>2. CASE owner[b] = s
      <4>1. days > 0 /\ finished[b] + days < clock
        BY <1>11, <2>2, <2>3, <3>2 DEF Old, IInv, BackupInv
      <4> QED BY <1>6, <2>3, <3>2, <4>1 DEF RowsOf, Expired
    <3> QED BY <1>9, <3>1, <3>2
  <2>4. \A r \in Schedules : sweep'[w].plan[r] # 0 => began[w].policy[r] = sweep'[w].plan[r]
    BY <1>0, <1>9 DEF ListInv
  <2> QED BY <1>1, <1>9, <2>1, <2>2, <2>3, <2>4 DEF ListInv, tables, history
<1>13. ListedIsStored'
  <2>1. ASSUME NEW b \in rows, NEW v \in Sweeps, sweep[v].b = b PROVE sweep'[v].b = b
    <3>1. b # None
      BY <1>0, RetentionAssumption DEF TypeOK
    <3>2. v # w
      BY <1>11, <2>1, <3>1
    <3> QED BY <1>3, <2>1, <3>2
  <2> QED BY <1>1, <2>1 DEF IInv, ListedIsStored, tables, history
<1> QED BY <1>2, <1>4, <1>10, <1>12, <1>13 DEF IInv

\* A schedule cannot be listed: its rows are missed.
LEMMA ListFailsStep ==
  ASSUME IInv, TypeOK', NEW w \in Sweeps, NEW s \in Schedules, SweepListFails(w, s)
  PROVE  IInv'
<1>0. TypeOK /\ PlaceInv(w) /\ ListInv(w)
  BY DEF IInv
<1>1. UNCHANGED <<clock, tables, finished, objects, job, began, lost, halved>>
  BY DEF SweepListFails
<1>2. Calm /\ (\A b \in Backups : BackupInv(b)') /\ StoredIsListed'
  <2>1. clock' >= clock
    BY <1>0, <1>1 DEF TypeOK
  <2> QED BY <1>1, <2>1, NothingComes DEF tables
<1>3. \A v \in Sweeps \ {w} : sweep'[v] = sweep[v] /\ missed'[v] = missed[v]
  BY <1>0 DEF SweepListFails, TypeOK
<1>4. \A v \in Sweeps \ {w} : PlaceInv(v)' /\ ListInv(v)'
  BY <1>1, <1>2, <1>3, SweepStays
<1>5. sweep'[w] = [sweep[w] EXCEPT !.plan[s] = 0] /\ missed'[w] = missed[w] \union RowsOf(s)
  BY <1>0 DEF SweepListFails, TypeOK
<1>6. /\ sweep'[w].left = sweep[w].left /\ sweep'[w].b = sweep[w].b /\ sweep'[w].pc = sweep[w].pc
      /\ sweep'[w].plan[s] = 0
      /\ \A r \in Schedules \ {s} : sweep'[w].plan[r] = sweep[w].plan[r]
  BY <1>0, <1>5, PlanFields, Types
<1>7. PlaceInv(w)'
  BY <1>0, <1>6 DEF PlaceInv, SweepListFails
<1>8. ListInv(w)'
  <2>1. \A b \in sweep[w].left \union began[w].due : b \in Backups /\ Old(w, b)'
    <3>1. began[w].due \subseteq Backups /\ sweep[w].left \subseteq Backups
      BY <1>0, Types DEF BeganType, SweepType
    <3> QED BY <1>0, <1>1, <1>2, <3>1, OldStays DEF ListInv
  <2>2. ASSUME NEW b \in began[w].due \ missed'[w], b \in rows, owner[b] # None
        PROVE  b \in sweep[w].left \/ sweep'[w].plan[owner[b]] # 0
    <3>1. owner[b] \in Schedules \ {s}
      BY <1>0, <1>5, <2>1, <2>2 DEF RowsOf, TypeOK
    <3> QED BY <1>0, <1>5, <1>6, <2>2, <3>1 DEF ListInv
  <2>3. \A r \in Schedules : sweep'[w].plan[r] # 0 => began[w].policy[r] = sweep'[w].plan[r]
    BY <1>0, <1>6 DEF ListInv
  <2> QED BY <1>1, <1>6, <2>1, <2>2, <2>3 DEF ListInv, tables
<1>9. ListedIsStored'
  BY <1>1, <1>3, <1>6 DEF IInv, ListedIsStored, tables
<1> QED BY <1>2, <1>4, <1>7, <1>8, <1>9 DEF IInv

\* An object goes, or is given up: its row is next.
LEMMA ObjectStep ==
  ASSUME IInv, TypeOK', NEW w \in Sweeps, NEW b \in Backups,
         SweepDeletesObject(w, b) \/ SweepObjectFails(w, b)
  PROVE  IInv'
<1>0. TypeOK /\ PlaceInv(w) /\ ListInv(w)
  BY DEF IInv
<1>1. UNCHANGED <<clock, tables, finished, job, began, missed, halved>>
  BY DEF SweepDeletesObject, SweepObjectFails, history
<1>2. /\ objects' \in {objects, objects \ {b}} /\ lost \subseteq lost'
      /\ b \notin objects' \/ b \in lost'
      /\ b \in sweep[w].left /\ sweep[w].pc = "object"
  BY DEF SweepDeletesObject, SweepObjectFails, history
<1>3. Calm /\ (\A x \in Backups : BackupInv(x)') /\ StoredIsListed'
  <2>1. clock' >= clock
    BY <1>0, <1>1 DEF TypeOK
  <2>2. job[b].pc = "ended"
    BY <1>0, <1>2 DEF ListInv, Old
  <2> QED BY <1>1, <1>2, <2>1, <2>2, NothingComes DEF tables
<1>4. \A v \in Sweeps \ {w} : sweep'[v] = sweep[v]
  BY <1>0 DEF SweepDeletesObject, SweepObjectFails, TypeOK
<1>5. \A v \in Sweeps \ {w} : PlaceInv(v)' /\ ListInv(v)'
  BY <1>1, <1>3, <1>4, SweepStays
<1>6. /\ sweep'[w].left = sweep[w].left /\ sweep'[w].b = b /\ sweep'[w].pc = "row"
      /\ sweep'[w].plan = sweep[w].plan
  <2>1. \A x \in SweepType : LET y == [x EXCEPT !.pc = "row", !.b = b]
          IN y.left = x.left /\ y.b = b /\ y.pc = "row" /\ y.plan = x.plan
    BY DEF SweepType
  <2>2. sweep'[w] = [sweep[w] EXCEPT !.pc = "row", !.b = b]
    BY <1>0, Types DEF SweepDeletesObject, SweepObjectFails
  <2> QED BY <1>0, <2>1, <2>2, Types
<1>7. PlaceInv(w)'
  BY <1>2, <1>6 DEF PlaceInv
<1>8. ListInv(w)'
  <2>1. \A x \in sweep[w].left \union began[w].due : Old(w, x)'
    <3>1. began[w].due \subseteq Backups /\ sweep[w].left \subseteq Backups
      BY <1>0, Types DEF BeganType, SweepType
    <3> QED BY <1>0, <1>1, <1>3, <3>1, OldStays DEF ListInv
  <2> QED BY <1>0, <1>1, <1>6, <2>1 DEF ListInv, tables
<1>9. ListedIsStored'
  <2>1. \A x \in rows, v \in Sweeps : sweep[v].b = x => sweep'[v].b = x
    <3>1. None \notin rows
      BY <1>0, RetentionAssumption DEF TypeOK
    <3>2. sweep[w].b \notin rows
      BY <1>0, <1>2, <3>1 DEF PlaceInv
    <3> QED BY <1>4, <3>2
  <2>2. b \notin rows' \/ sweep'[w].b = b
    BY <1>6
  <2> QED BY <1>1, <1>2, <2>1, <2>2 DEF IInv, ListedIsStored, tables
<1> QED BY <1>3, <1>5, <1>7, <1>8, <1>9 DEF IInv

\* A row goes, or is given up: the next backup is next.
LEMMA RowStep ==
  ASSUME IInv, TypeOK', NEW w \in Sweeps, SweepDeletesRow(w) \/ SweepRowFails(w)
  PROVE  IInv'
<1>0. TypeOK /\ PlaceInv(w) /\ ListInv(w)
  BY DEF IInv
<1>1. UNCHANGED <<clock, policy, owner, finished, objects, job, began, lost>>
  BY DEF SweepDeletesRow, SweepRowFails, history
<1>2. PICK b : b = sweep[w].b
  OBVIOUS
<1>3. b \in sweep[w].left /\ (b \notin objects \/ b \in lost) /\ b \in Backups
  <2>1. sweep[w].left \subseteq Backups
    BY <1>0, Types DEF SweepType
  <2> QED BY <1>0, <1>2, <2>1 DEF PlaceInv, SweepDeletesRow, SweepRowFails
<1>4. /\ rows' \in {rows, rows \ {b}} /\ halved \subseteq halved'
      /\ b \notin rows' \/ (b \in halved' /\ b \in missed'[w])
      /\ missed[w] \subseteq missed'[w]
      /\ \A v \in Sweeps \ {w} : missed'[v] = missed[v]
  <2>1. CASE SweepDeletesRow(w)
    BY <1>2, <2>1 DEF SweepDeletesRow, history
  <2>2. CASE SweepRowFails(w)
    <3>1. missed' = [missed EXCEPT ![w] = @ \union {b}] /\ halved' = halved \union {b}
          /\ rows' \in {rows, rows \ {b}}
      BY <1>2, <2>2 DEF SweepRowFails
    <3> QED BY <1>0, <3>1 DEF TypeOK
  <2> QED BY <2>1, <2>2
<1>5. Calm /\ (\A x \in Backups : BackupInv(x)') /\ StoredIsListed'
  <2>1. clock' >= clock
    BY <1>0, <1>1 DEF TypeOK
  <2> QED BY <1>1, <1>3, <1>4, <2>1, NothingComes
<1>6. \A v \in Sweeps \ {w} : sweep'[v] = sweep[v]
  BY <1>0 DEF SweepDeletesRow, SweepRowFails, TypeOK
<1>7. \A v \in Sweeps \ {w} : PlaceInv(v)' /\ ListInv(v)'
  BY <1>1, <1>4, <1>5, <1>6, SweepStays
<1>8. PICK left : left = sweep[w].left \ {b}
  OBVIOUS
<1>9. sweep'[w] = Continue(w, left)
  BY <1>0, <1>2, <1>8 DEF SweepDeletesRow, SweepRowFails, TypeOK
<1>10. /\ sweep'[w].left = left /\ sweep'[w].b = None
       /\ sweep'[w].pc = IF left = {} THEN "list" ELSE "object"
       /\ sweep'[w].plan = sweep[w].plan
  BY <1>0, <1>9, ContinueFields
<1>11. PlaceInv(w)'
  BY <1>10 DEF PlaceInv
<1>12. ListInv(w)'
  <2>1. \A x \in sweep[w].left \union began[w].due : Old(w, x)'
    <3>1. began[w].due \subseteq Backups /\ sweep[w].left \subseteq Backups
      BY <1>0, Types DEF BeganType, SweepType
    <3> QED BY <1>0, <1>1, <1>5, <3>1, OldStays DEF ListInv
  <2>2. \A x \in began[w].due \ missed'[w] :
          x \notin rows' \/ owner[x] = None \/ x \in left \/ sweep[w].plan[owner[x]] # 0
    BY <1>0, <1>4, <1>8 DEF ListInv
  <2> QED BY <1>0, <1>1, <1>8, <1>10, <2>1, <2>2 DEF ListInv
<1>13. ListedIsStored'
  <2>1. \A x \in rows \ {b}, v \in Sweeps : sweep[v].b = x => sweep'[v].b = x
    BY <1>2, <1>6
  <2> QED BY <1>1, <1>4, <2>1 DEF IInv, ListedIsStored
<1> QED BY <1>5, <1>7, <1>11, <1>12, <1>13 DEF IInv

\* Sweeps that have ended, or died, have nothing on their lists.
LEMMA Fresh ==
  ASSUME NEW w \in Sweeps, sweep'[w] = NoSweep, began'[w] = NotBegun
  PROVE  PlaceInv(w)' /\ ListInv(w)'
<1>1. PlaceInv(w)'
  BY DEF NoSweep, PlaceInv
<1>2. ListInv(w)'
  BY DEF NoSweep, NotBegun, ListInv
<1> QED BY <1>1, <1>2

LEMMA EndsStep ==
  ASSUME IInv, TypeOK', NEW w \in Sweeps, SweepEnds(w)
  PROVE  IInv'
<1>0. TypeOK /\ PlaceInv(w)
  BY DEF IInv
<1>1. UNCHANGED <<clock, tables, finished, objects, job, lost, halved>>
  BY DEF SweepEnds
<1>2. Calm /\ (\A b \in Backups : BackupInv(b)') /\ StoredIsListed'
  <2>1. clock' >= clock
    BY <1>0, <1>1 DEF TypeOK
  <2> QED BY <1>1, <2>1, NothingComes DEF tables
<1>3. \A v \in Sweeps \ {w} : sweep'[v] = sweep[v] /\ began'[v] = began[v] /\ missed'[v] = missed[v]
  BY <1>0 DEF SweepEnds, TypeOK
<1>4. PlaceInv(w)' /\ ListInv(w)'
  BY <1>0, Fresh DEF SweepEnds, TypeOK
<1>5. \A v \in Sweeps \ {w} : PlaceInv(v)' /\ ListInv(v)'
  BY <1>2, <1>3, SweepStays
<1>6. ListedIsStored'
  <2>1. \A b \in rows, v \in Sweeps : sweep[v].b = b => sweep'[v].b = b
    BY <1>0, <1>3, RetentionAssumption DEF SweepEnds, PlaceInv, TypeOK
  <2> QED BY <1>1, <2>1 DEF IInv, ListedIsStored, tables
<1> QED BY <1>2, <1>4, <1>5, <1>6 DEF IInv

LEMMA CrashStep ==
  ASSUME IInv, TypeOK', Crash
  PROVE  IInv'
<1>0. TypeOK
  BY DEF IInv
<1>1. UNCHANGED <<clock, tables, finished, objects>>
  BY DEF Crash
<1>2. \A v \in Sweeps : PlaceInv(v)' /\ ListInv(v)'
  BY Fresh DEF Crash
<1>3. \A b \in Backups : /\ job'[b].of = job[b].of
                         /\ job'[b].pc = IF job[b].pc \in {"save", "record"} THEN "ended" ELSE job[b].pc
  <2>1. \A j \in JobType : [j EXCEPT !.pc = "ended"].pc = "ended" /\ [j EXCEPT !.pc = "ended"].of = j.of
    BY DEF JobType
  <2> QED BY <1>0, <2>1, Types DEF Crash
<1>4. \A b \in Backups : BackupInv(b)'
  BY <1>1, <1>3 DEF IInv, BackupInv, tables
<1>5. StoredIsListed'
  <2>1. objects \subseteq Backups
    BY <1>0 DEF TypeOK
  <2> QED BY <1>1, <2>1 DEF IInv, StoredIsListed, Crash, tables
<1>6. ListedIsStored'
  <2>1. rows \subseteq Backups
    BY <1>0 DEF TypeOK
  <2> QED BY <1>1, <2>1 DEF IInv, ListedIsStored, Crash, tables
<1> QED BY <1>2, <1>4, <1>5, <1>6 DEF IInv

----------------------------------------------------------------------------
(* The invariant, and the theorems.                                        *)

LEMMA Initially == Init => IInv
<1> SUFFICES ASSUME Init PROVE IInv
  OBVIOUS
<1>1. TypeOK
  BY RetentionAssumption DEF Init, NoJob, NoSweep, NotBegun, TypeOK
<1>2. \A b \in Backups : BackupInv(b)
  BY DEF Init, NoJob, BackupInv
<1>3. \A w \in Sweeps : PlaceInv(w) /\ ListInv(w)
  BY DEF Init, NoSweep, NotBegun, PlaceInv, ListInv
<1> QED BY <1>1, <1>2, <1>3 DEF Init, IInv, StoredIsListed, ListedIsStored

LEMMA Inductive == IInv /\ [Next]_vars => IInv'
<1> SUFFICES ASSUME IInv, [Next]_vars PROVE IInv'
  OBVIOUS
<1>1. TypeOK'
  BY TypeStep
<1>2. ASSUME NEW b \in Backups, Job(b) PROVE IInv'
  BY <1>1, <1>2, JobStep, SweepStays DEF IInv
<1>3. ASSUME NEW w \in Sweeps, SweepGoesOn(w) PROVE IInv'
  BY <1>1, <1>3, ListsStep, ListFailsStep, ObjectStep, RowStep, EndsStep DEF SweepGoesOn
<1> QED BY <1>1, <1>2, <1>3, QuietStep, CrashStep, BeginsStep DEF Next

\* The inductive invariant holds in every state of Retention.
THEOREM Invariance == Spec => []IInv
BY Initially, Inductive, PTL DEF Spec

\* Every variable of Retention has its type.
THEOREM TypeCorrect == Spec => []TypeOK
BY Invariance, PTL DEF IInv

\* A stored object is listed or about to be, unless an error, a refusal or a
\* crash left it behind (deleteSchedule, RunBackup, ApplyRetention).
THEOREM StoredListed == Spec => []StoredIsListed
BY Invariance, PTL DEF IInv

\* A listed backup of a schedule has its object or is being pruned, unless an
\* error or a crash came between the two deletions (ApplyRetention).
THEOREM ListedStored == Spec => []ListedIsStored
BY Invariance, PTL DEF IInv

\* Rows go only by ApplyRetention, and only those that were too old for the
\* policy which their schedule had when it began.
THEOREM PrunedOld == Spec => PrunedWasOld
<1> DEFINE Pruned == \A b \in rows \ rows' :
             \E w \in Sweeps : LET days == began[w].policy[job[b].of] IN
               sweep[w].b = b /\ days # None /\ days > 0 /\ finished[b] + days < clock
<1>1. IInv /\ [Next]_vars => [Pruned]_vars
  <2> SUFFICES ASSUME IInv, Next, NEW b \in rows \ rows'
               PROVE  \E w \in Sweeps : LET days == began[w].policy[job[b].of] IN
                        sweep[w].b = b /\ days # None /\ days > 0 /\ finished[b] + days < clock
    OBVIOUS
  <2>1. PICK w \in Sweeps : SweepDeletesRow(w) \/ SweepRowFails(w)
    BY DEF Next, Tick, Crash, UpdateSchedule, DeleteSchedule, Job, JobBegins, JobSaves,
           JobSaveFails, JobRecords, JobRecordFails, SweepBegins, SweepGoesOn, SweepLists,
           SweepListFails, SweepDeletesObject, SweepObjectFails, SweepEnds, tables
  <2>2. sweep[w].b = b
    BY <2>1 DEF SweepDeletesRow, SweepRowFails
  <2>3. Old(w, b)
    BY <2>1, <2>2 DEF IInv, PlaceInv, ListInv, SweepDeletesRow, SweepRowFails
  <2> QED BY <2>2, <2>3 DEF Old
<1> QED BY <1>1, Invariance, PTL DEF Spec, PrunedWasOld

\* A sweep of ApplyRetention that has run to its end leaves no backup that was
\* due when it began, but by an error or because its schedule was deleted.
THEOREM Thorough == Spec => SweepIsThorough
<1> DEFINE Done == \A w \in Sweeps :
             SweepEnds(w) => \A b \in began[w].due \ missed[w] : b \notin rows \/ owner[b] = None
<1>1. IInv /\ [Next]_vars => [Done]_vars
  <2> SUFFICES ASSUME IInv, NEW w \in Sweeps, SweepEnds(w), NEW b \in began[w].due \ missed[w],
                      b \in rows, owner[b] # None
               PROVE  FALSE
    OBVIOUS
  <2>1. TypeOK /\ PlaceInv(w) /\ ListInv(w)
    BY DEF IInv
  <2>2. owner[b] \in Schedules
    BY <2>1 DEF TypeOK
  <2>3. sweep[w].left = {} /\ sweep[w].plan[owner[b]] = 0
    BY <2>1, <2>2 DEF SweepEnds, PlaceInv, NoSweep
  <2> QED BY <2>1, <2>3 DEF ListInv
<1> QED BY <1>1, Invariance, PTL DEF Spec, SweepIsThorough

----------------------------------------------------------------------------
(* Progress.                                                               *)

\* A sweep that is to delete an object has one to delete.
ObjectInv == \A w \in Sweeps : sweep[w].pc = "object" => sweep[w].left # {}

\* The steps of sweep w, as the change of its record.
SweepChanges(w) ==
  \/ sweep'[w] = NoSweep
  \/ \E s \in Schedules, left \in SUBSET Backups :
       /\ sweep[w].pc = "list" /\ sweep[w].plan[s] # 0
       /\ sweep'[w] = [Continue(w, left) EXCEPT !.plan[s] = 0]
  \/ \E s \in Schedules :
       /\ sweep[w].pc = "list" /\ sweep[w].plan[s] # 0
       /\ sweep'[w] = [sweep[w] EXCEPT !.plan[s] = 0]
  \/ \E b \in sweep[w].left :
       /\ sweep[w].pc = "object"
       /\ sweep'[w] = [sweep[w] EXCEPT !.pc = "row", !.b = b]
  \/ /\ sweep[w].pc = "row"
     /\ sweep'[w] = Continue(w, sweep[w].left \ {sweep[w].b})

\* A sweep at work changes by these steps only.
LEMMA OnlyItsSteps ==
  ASSUME TypeOK, [Next]_vars, NEW w \in Sweeps, sweep[w].pc # "idle", sweep'[w] # sweep[w]
  PROVE  SweepChanges(w)
<1> USE DEF TypeOK
<1>1. CASE Crash
  BY <1>1 DEF Crash, SweepChanges
<1>2. PICK v \in Sweeps : Crash \/ SweepBegins(v) \/ SweepGoesOn(v)
  <2>1. sweep' # sweep
    OBVIOUS
  <2> QED
    BY <2>1 DEF Next, Tick, UpdateSchedule, DeleteSchedule, Job, JobBegins, JobSaves, JobSaveFails,
      JobRecords, JobRecordFails, vars
<1>3. CASE SweepBegins(v)
  BY <1>3 DEF SweepBegins
<1>4. CASE SweepGoesOn(v)
  <2>1. v = w
    BY <1>4 DEF SweepGoesOn, SweepLists, SweepListFails, SweepDeletesObject, SweepObjectFails,
      SweepDeletesRow, SweepRowFails, SweepEnds
  <2>2. ASSUME NEW s \in Schedules, SweepLists(w, s) PROVE SweepChanges(w)
    <3>1. PICK left \in SUBSET Backups :
            left = {b \in RowsOf(s) : Expired(b, sweep[w].plan[s])}
      BY RowsOfType
    <3>2. sweep'[w] = [Continue(w, left) EXCEPT !.plan[s] = 0]
      BY <2>2, <3>1 DEF SweepLists
    <3> QED BY <2>2, <3>2 DEF SweepLists, SweepChanges
  <2>3. ASSUME NEW s \in Schedules, SweepListFails(w, s) PROVE SweepChanges(w)
    <3>1. sweep'[w] = [sweep[w] EXCEPT !.plan[s] = 0]
      BY <2>3 DEF SweepListFails
    <3> QED BY <2>3, <3>1 DEF SweepListFails, SweepChanges
  <2>4. ASSUME NEW b \in Backups, SweepDeletesObject(w, b) \/ SweepObjectFails(w, b)
        PROVE  SweepChanges(w)
    <3>1. sweep'[w] = [sweep[w] EXCEPT !.pc = "row", !.b = b]
      BY <2>4 DEF SweepDeletesObject, SweepObjectFails
    <3> QED BY <2>4, <3>1 DEF SweepDeletesObject, SweepObjectFails, SweepChanges
  <2>5. CASE SweepDeletesRow(w) \/ SweepRowFails(w)
    <3>1. sweep'[w] = Continue(w, sweep[w].left \ {sweep[w].b})
      BY <2>5 DEF SweepDeletesRow, SweepRowFails
    <3> QED BY <2>5, <3>1 DEF SweepDeletesRow, SweepRowFails, SweepChanges
  <2>6. CASE SweepEnds(w)
    BY <2>6 DEF SweepEnds, SweepChanges
  <2> QED BY <1>4, <2>1, <2>2, <2>3, <2>4, <2>5, <2>6 DEF SweepGoesOn
<1> QED BY <1>1, <1>2, <1>3, <1>4

\* The next schedule is listed, whatever is in it: fewer are planned.
LEMMA PlanShrinks ==
  ASSUME TypeOK, NEW w \in Sweeps, NEW s \in Schedules, sweep[w].plan[s] # 0,
         NEW x \in SweepType, x.plan = sweep[w].plan,
         sweep'[w] = [x EXCEPT !.plan[s] = 0]
  PROVE  LessToDo(w)
<1>1. sweep'[w].plan[s] = 0 /\ \A r \in Schedules \ {s} : sweep'[w].plan[r] = sweep[w].plan[r]
  BY PlanFields
<1>2. Planned(w)' = Planned(w) \ {s} /\ s \in Planned(w)
  BY <1>1 DEF Planned
<1> QED BY <1>2 DEF LessToDo

\* What a step leaves to do, and that there is something to do after it.
LEMMA ChangeWorksOff ==
  ASSUME IInv, NEW w \in Sweeps, SweepChanges(w)
  PROVE  LessToDo(w) /\ (sweep'[w].pc = "object" => sweep'[w].left # {})
<1>0. TypeOK /\ sweep[w] \in SweepType
  BY Types DEF IInv
<1>1. CASE sweep'[w] = NoSweep
  BY <1>1 DEF NoSweep, LessToDo
<1>2. ASSUME NEW s \in Schedules, NEW left \in SUBSET Backups,
             sweep[w].pc = "list", sweep[w].plan[s] # 0,
             sweep'[w] = [Continue(w, left) EXCEPT !.plan[s] = 0]
      PROVE  LessToDo(w) /\ (sweep'[w].pc = "object" => sweep'[w].left # {})
  <2>1. Continue(w, left) \in SweepType /\ Continue(w, left).plan = sweep[w].plan
    BY <1>0, ContinueType, ContinueFields
  <2>2. sweep'[w].pc = Continue(w, left).pc /\ sweep'[w].left = Continue(w, left).left
    BY <1>2, <2>1, PlanFields
  <2>3. Continue(w, left).left = left
        /\ Continue(w, left).pc = IF left = {} THEN "list" ELSE "object"
    BY <1>0, ContinueFields
  <2>4. LessToDo(w)
    BY <1>0, <1>2, <2>1, PlanShrinks
  <2> QED BY <2>2, <2>3, <2>4
<1>3. ASSUME NEW s \in Schedules, sweep[w].pc = "list", sweep[w].plan[s] # 0,
             sweep'[w] = [sweep[w] EXCEPT !.plan[s] = 0]
      PROVE  LessToDo(w) /\ (sweep'[w].pc = "object" => sweep'[w].left # {})
  <2>1. sweep'[w].pc = "list"
    BY <1>0, <1>3, PlanFields
  <2> QED BY <1>0, <1>3, <2>1, PlanShrinks
<1>4. ASSUME NEW b \in sweep[w].left, sweep[w].pc = "object",
             sweep'[w] = [sweep[w] EXCEPT !.pc = "row", !.b = b]
      PROVE  LessToDo(w) /\ (sweep'[w].pc = "object" => sweep'[w].left # {})
  <2>1. \A x \in SweepType : LET y == [x EXCEPT !.pc = "row", !.b = b] IN
          y.pc = "row" /\ y.left = x.left /\ y.plan = x.plan
    BY DEF SweepType
  <2>2. sweep'[w].pc = "row" /\ sweep'[w].left = sweep[w].left /\ sweep'[w].plan = sweep[w].plan
    BY <1>0, <1>4, <2>1
  <2> QED BY <1>4, <2>2 DEF LessToDo, Planned
<1>5. ASSUME sweep[w].pc = "row", sweep'[w] = Continue(w, sweep[w].left \ {sweep[w].b})
      PROVE  LessToDo(w) /\ (sweep'[w].pc = "object" => sweep'[w].left # {})
  <2>1. PICK left : left = sweep[w].left \ {sweep[w].b}
    OBVIOUS
  <2>2. /\ sweep'[w].left = left /\ sweep'[w].plan = sweep[w].plan
        /\ sweep'[w].pc = IF left = {} THEN "list" ELSE "object"
    BY <1>0, <1>5, <2>1, ContinueFields
  <2>3. sweep[w].b \in sweep[w].left
    BY <1>5 DEF IInv, PlaceInv
  <2> QED BY <2>1, <2>2, <2>3 DEF LessToDo, Planned
<1> QED BY <1>1, <1>2, <1>3, <1>4, <1>5 DEF SweepChanges

LEMMA ObjectInvStep == IInv /\ ObjectInv /\ [Next]_vars => ObjectInv'
<1> SUFFICES ASSUME IInv, ObjectInv, [Next]_vars, NEW w \in Sweeps, sweep'[w].pc = "object"
             PROVE  sweep'[w].left # {}
  BY DEF ObjectInv
<1>1. CASE sweep'[w] = sweep[w]
  BY <1>1 DEF ObjectInv
<1>2. CASE sweep'[w] # sweep[w] /\ sweep[w].pc # "idle"
  BY <1>2, OnlyItsSteps, ChangeWorksOff DEF IInv
<1>3. CASE sweep'[w] # sweep[w] /\ sweep[w].pc = "idle"
  <2>1. PICK v \in Sweeps : Crash \/ SweepBegins(v) \/ SweepGoesOn(v)
    BY <1>3 DEF Next, Tick, UpdateSchedule, DeleteSchedule, Job, JobBegins, JobSaves, JobSaveFails,
      JobRecords, JobRecordFails, vars
  <2>2. CASE Crash
    BY <2>2 DEF Crash, NoSweep
  <2>3. CASE SweepBegins(v)
    BY <1>3, <2>3 DEF SweepBegins, NoSweep, IInv, TypeOK
  <2>4. CASE SweepGoesOn(v)
    <3>1. sweep[v].pc # "idle" /\ \A x \in Sweeps \ {v} : sweep'[x] = sweep[x]
      BY <2>4 DEF SweepGoesOn, SweepLists, SweepListFails, SweepDeletesObject, SweepObjectFails,
        SweepDeletesRow, SweepRowFails, SweepEnds, IInv, TypeOK
    <3> QED BY <1>3, <3>1
  <2> QED BY <2>1, <2>2, <2>3, <2>4
<1> QED BY <1>1, <1>2, <1>3

\* A run of ApplyRetention always has a next thing to do, and each leaves it fewer
\* schedules, or fewer backups, or only the row of one: it returns if it is let run.
THEOREM WorksOff == Spec => SweepWorksOff
<1> DEFINE Steps == \A w \in Sweeps :
             sweep[w].pc # "idle" /\ sweep'[w] # sweep[w] => LessToDo(w)
           Can == \A w \in Sweeps : sweep[w].pc # "idle" => CanGoOn(w)
<1>1. Init => ObjectInv
  BY DEF Init, NoSweep, ObjectInv
<1>2. Spec => [](IInv /\ ObjectInv)
  BY <1>1, ObjectInvStep, Invariance, PTL DEF Spec
<1>3. IInv /\ ObjectInv => Can
  BY DEF IInv, PlaceInv, ObjectInv, CanGoOn, TypeOK
<1>4. IInv /\ [Next]_vars => [Steps]_vars
  BY OnlyItsSteps, ChangeWorksOff DEF IInv
<1> QED BY <1>2, <1>3, <1>4, PTL DEF Spec, SweepWorksOff

================================================================================
