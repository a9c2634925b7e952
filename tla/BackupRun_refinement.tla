------------------------ MODULE BackupRun_refinement ------------------------
(***************************************************************************)
(* RunBackup implements BackupPromise: the initial states map to initial   *)
(* states, and every step of the goroutines, the pipe and the storage maps *)
(* to a step of the promise or to none.  In the same way, and as long as   *)
(* no two calls share a name, it implements the job of Retention.          *)
(***************************************************************************)
EXTENDS BackupRun_proofs

----------------------------------------------------------------------------
(* The mapping.                                                            *)

PName   == [r \in Runs |-> IF Started(r) THEN Name(r) ELSE NoObject]
PStatus == [r \in Runs |-> Status(r)]
PStored == [r \in Runs |-> Started(r) /\ objects[Name(r)] = FullObject(r)]

\* Nothing in the storage is of a call that has not begun.
OwnerInv ==
  \A n \in Names, r \in Runs :
    objects[n] \in Contents /\ objects[n].of = r => Started(r)

LEMMA OwnerInit == Init => OwnerInv
BY NoObjectAssumption DEF Init, OwnerInv

\* The step of a call on its own object: no other call's dump comes out whole.
Touches(r) ==
  /\ objects' = [objects EXCEPT ![Name(r)] = objects'[Name(r)]]
  /\ objects'[Name(r)] \in Contents
  /\ objects'[Name(r)].of = r \/ objects'[Name(r)].mixed

LEMMA SaveTouches ==
  ASSUME TypeInv, NEW r \in Runs,
         SaveOpens(r) \/ SaveReads(r) \/ SaveReturns(r) \/ SaveFails(r) \/ Crash(r)
  PROVE  UNCHANGED objects \/ Touches(r)
<1> USE RunAssumption
<1>1. CASE SaveOpens(r) /\ adapter[r] = "local"
  <2>1. Object(r, 0, FALSE) \in Contents
    BY ObjectType
  <2>2. objects' = [objects EXCEPT ![Name(r)] = Object(r, 0, FALSE)]
    BY <1>1 DEF SaveOpens
  <2> QED BY <2>1, <2>2, NameType DEF Touches, TypeInv, TypeOK, Object
<1>2. CASE SaveReads(r) /\ adapter[r] = "local"
  <2> DEFINE o == objects[Name(r)]
  <2>1. o \in Contents
    BY <1>2 DEF SaveReads, TypeInv, FileInv
  <2>2. Appended(o, r, pipe[r] = "end") \in Contents
    BY <2>1, AppendedType
  <2>3. objects' = [objects EXCEPT ![Name(r)] = Appended(o, r, pipe[r] = "end")]
    BY <1>2 DEF SaveReads
  <2>4. \/ Appended(o, r, pipe[r] = "end").of = r
        \/ Appended(o, r, pipe[r] = "end").mixed
    BY <2>1 DEF Appended, Contents
  <2> QED BY <2>2, <2>3, <2>4, NameType DEF Touches, TypeInv, TypeOK
<1>3. CASE objects' = Published(r) /\ adapter[r] = "s3"
  <2>1. Object(r, taken[r], ended[r]) \in Contents
    BY ObjectType DEF TypeInv, TypeOK
  <2>2. objects' = [objects EXCEPT ![Name(r)] = Object(r, taken[r], ended[r])]
    BY <1>3 DEF Published
  <2> QED BY <2>1, <2>2, NameType DEF Touches, TypeInv, TypeOK, Object
<1>4. \/ UNCHANGED objects
      \/ SaveOpens(r) /\ adapter[r] = "local"
      \/ SaveReads(r) /\ adapter[r] = "local"
      \/ objects' = Published(r) /\ adapter[r] = "s3"
  BY DEF SaveOpens, SaveReads, SaveReturns, SaveFails, Crash, Published
<1> QED BY <1>1, <1>2, <1>3, <1>4

LEMMA OwnerStep == TypeInv /\ OwnerInv /\ [Next]_vars => OwnerInv'
<1> SUFFICES ASSUME TypeInv, OwnerInv, [Next]_vars, NEW n \in Names, NEW x \in Runs,
                    objects'[n] \in Contents, objects'[n].of = x
             PROVE  Started(x)'
  BY DEF OwnerInv
<1>1. CASE objects'[n] = objects[n]
  BY <1>1, NameStays DEF OwnerInv
<1>2. ASSUME NEW r \in Runs,
             SaveOpens(r) \/ SaveReads(r) \/ SaveReturns(r) \/ SaveFails(r) \/ Crash(r),
             objects'[n] # objects[n]
      PROVE  Started(x)'
  <2>1. Touches(r) /\ n = Name(r)
    BY <1>2, SaveTouches DEF Touches, TypeInv, TypeOK
  <2>2. Started(r)
    BY <1>2 DEF SaveOpens, SaveReads, SaveReturns, AtEOF, SaveFails, Crash, Active, Started
  <2>3. CASE SaveReads(r) /\ adapter[r] = "local"
    <3>1. objects[n] \in Contents
      BY <2>1, <2>3 DEF SaveReads, TypeInv, FileInv
    <3>2. objects'[n] = Appended(objects[n], r, pipe[r] = "end")
      BY <2>1, <2>3, NameType DEF SaveReads, TypeInv, TypeOK
    <3>3. objects'[n].of = objects[n].of
      BY <3>1, <3>2 DEF Appended, Contents
    <3> QED BY <3>1, <3>3, NameStays DEF OwnerInv
  <2>4. CASE ~(SaveReads(r) /\ adapter[r] = "local")
    <3>1. objects'[n].of = r
      BY <1>2, <2>1, <2>4, NameType
      DEF SaveOpens, SaveReads, SaveReturns, SaveFails, Crash, Published, Object, TypeInv,
        TypeOK
    <3> QED BY <2>2, <3>1, NameStays
  <2> QED BY <2>3, <2>4
<1>3. \/ UNCHANGED objects
      \/ \E r \in Runs :
           SaveOpens(r) \/ SaveReads(r) \/ SaveReturns(r) \/ SaveFails(r) \/ Crash(r)
  BY DEF Next, Tick, Begin, DumperStep, DumpBlock, DumpReturns, CloseGzip, ClosePipe,
    CallerStep, SaveStep, CheckDump, Record, RecordFails, vars
<1> QED BY <1>1, <1>2, <1>3

LEMMA OwnerInvariant == Spec => []OwnerInv
BY OwnerInit, OwnerStep, TypeInit, TypeStep, PTL DEF Spec

----------------------------------------------------------------------------
(* The steps.                                                              *)

\* Which calls have begun, and under which names, is as before.
NamesSame == \A x \in Runs : Started(x)' = Started(x) /\ Name(x)' = Name(x)

LEMMA PNameSame ==
  ASSUME NamesSame
  PROVE  PName' = PName
BY DEF NamesSame, PName

\* A call's own writes are what the promise allows it.
LEMMA TouchesRewrites ==
  ASSUME TypeInv, NamesSame, NEW r \in Runs, Started(r), Touches(r) \/ UNCHANGED objects
  PROVE  Promise!Rewrites(r)
<1>1. PStored' \in [Runs -> BOOLEAN]
  BY DEF PStored, Started
<1>2. ASSUME NEW x \in Runs \ {r}, PStored'[x] # PStored[x]
      PROVE  x \in Promise!Rivals(r) /\ ~PStored'[x]
  <2>1. Started(x) /\ Name(x)' = Name(x) /\ objects'[Name(x)] # objects[Name(x)]
    BY <1>2 DEF PStored, NamesSame, FullObject, Object
  <2>2. Touches(r) /\ Name(x) = Name(r)
    BY <2>1, NameType DEF Touches, TypeInv, TypeOK
  <2>3. objects'[Name(x)] # FullObject(x)
    BY <1>2, <2>2 DEF Touches, FullObject, Object
  <2>4. ~PStored'[x]
    BY <2>1, <2>3 DEF PStored, FullObject, Object
  <2>5. PName[x] = PName[r]
    BY <2>1, <2>2 DEF PName
  <2> QED BY <2>4, <2>5 DEF Promise!Rivals, PName
<1> QED BY <1>1, <1>2 DEF Promise!Rewrites, PStored

LEMMA PStoredSame ==
  ASSUME NamesSame, UNCHANGED objects
  PROVE  PStored' = PStored
BY DEF NamesSame, PStored, FullObject, Object

\* A call past Save without an error has its object in place, if it is its own.
LEMMA PastSaveIntact ==
  ASSUME IInv, NEW r \in Runs, caller[r] = "record"
  PROVE  Promise!Intact(r)
<1>1. Started(r) /\ Kept(r)
  BY DEF Started, Kept
<1>2. CASE Sole(r)
  <2>1. dumper[r] = "done" /\ ~dumpErr[r]
    BY DEF IInv, CallerInv
  <2>2. taken[r] = DumpLen[r] /\ ended[r]
    BY <2>1 DEF IInv, PipeInv, TypeInv, TypeOK
  <2>3. objects[Name(r)] = Object(r, taken[r], ended[r])
    BY <1>1, <1>2 DEF IInv, StorageInv
  <2>4. objects[Name(r)] = FullObject(r)
    BY <2>2, <2>3 DEF FullObject, IInv, TypeInv, TypeOK
  <2> QED BY <1>1, <2>4 DEF Promise!Intact, PStored
<1>3. CASE ~Sole(r)
  <2>1. PICK x \in Runs \ {r} : Started(x) /\ Name(x) = Name(r)
    BY <1>3 DEF Sole
  <2>2. x \in Promise!Rivals(r)
    BY <1>1, <2>1 DEF Promise!Rivals, PName
  <2> QED BY <2>2 DEF Promise!Intact
<1> QED BY <1>2, <1>3

\* The steps of a call that has begun and is not over.
LEMMA RunningStep ==
  ASSUME TypeInv, [Next]_vars, NEW r \in Runs, CallerStep(r) \/ Crash(r)
  PROVE  NamesSame /\ Started(r) /\ PStatus[r] = "running"
<1> USE DEF CallerStep, SaveStep, SaveOpens, SaveReads, SaveReturns, AtEOF, SaveFails,
  CheckDump,
      Record, RecordFails, Crash, Active
<1>1. caller[r] \in Active
  OBVIOUS
<1>2. UNCHANGED clockVars /\ \A x \in Runs \ {r} : caller'[x] = caller[x]
  BY DEF TypeInv, TypeOK
<1>3. Started(r) /\ PStatus[r] = "running"
  BY <1>1 DEF Started, PStatus, Status
<1> HIDE DEF CallerStep, Crash
<1>4. NamesSame
  BY <1>2, <1>3, NameStays DEF NamesSame, Started, Name, clockVars, callVars
<1> QED BY <1>3, <1>4

LEMMA PStatusMoves ==
  ASSUME TypeInv, NEW r \in Runs, NEW pc \in CallerStates,
         caller' = [caller EXCEPT ![r] = pc]
  PROVE  /\ pc \in Active => PStatus' = [PStatus EXCEPT ![r] = "running"]
         /\ pc = "ok" => PStatus' = [PStatus EXCEPT ![r] = "recorded"]
         /\ pc \in {"failed", "dead"} => PStatus' = [PStatus EXCEPT ![r] = "failed"]
<1>1. \A x \in Runs \ {r} : Status(x)' = Status(x)
  BY DEF Status, TypeInv, TypeOK
<1>2. /\ pc \in Active => Status(r)' = "running"
      /\ pc = "ok" => Status(r)' = "recorded"
      /\ pc \in {"failed", "dead"} => Status(r)' = "failed"
  BY DEF Status, TypeInv, TypeOK, Active, CallerStates
<1> QED BY <1>1, <1>2 DEF PStatus

\* A call at work that stays at work, and adds no row, writes or stutters.
LEMMA WorkingWrites ==
  ASSUME TypeInv, [Next]_vars, NEW r \in Runs, CallerStep(r) \/ Crash(r),
         Touches(r) \/ UNCHANGED objects, UNCHANGED rows, PStatus' = PStatus
  PROVE  Promise!Write(r)
BY RunningStep, TouchesRewrites, PNameSame DEF Promise!Write, PName, PStatus

\* One that fails, or dies, without a row.
LEMMA FailingFails ==
  ASSUME TypeInv, [Next]_vars, NEW r \in Runs, CallerStep(r) \/ Crash(r),
         Touches(r) \/ UNCHANGED objects, UNCHANGED rows,
         NEW pc \in {"failed", "dead"}, caller' = [caller EXCEPT ![r] = pc]
  PROVE  Promise!Fail(r)
<1>1. PStatus' = [PStatus EXCEPT ![r] = "failed"]
  BY PStatusMoves DEF CallerStates
<1> QED BY <1>1, RunningStep, TouchesRewrites, PNameSame DEF Promise!Fail, PName, PStatus

\* One that fails, or dies, although its row is in.
LEMMA RecordedFails ==
  ASSUME IInv, [Next]_vars, NEW r \in Runs, CallerStep(r) \/ Crash(r), caller[r] = "record",
         UNCHANGED objects, rows' = rows \union {r},
         NEW pc \in {"failed", "dead"}, caller' = [caller EXCEPT ![r] = pc]
  PROVE  Promise!Fail(r)
<1> TypeInv
  BY DEF IInv
<1>1. PStatus' = [PStatus EXCEPT ![r] = "failed"]
  BY PStatusMoves DEF CallerStates
<1>2. PStored' = PStored
  BY RunningStep, PStoredSame
<1> QED
  BY <1>1, <1>2, RunningStep, PastSaveIntact, PNameSame
  DEF Promise!Fail, PName, PStatus, PStored

LEMMA PromiseInit == Init => Promise!Init
<1> SUFFICES ASSUME Init PROVE Promise!Init
  OBVIOUS
<1>1. \A r \in Runs : ~Started(r) /\ Status(r) = "idle"
  BY DEF Init, Started, Status, Active
<1>2. PName = [r \in Runs |-> NoObject]
  BY <1>1 DEF PName
<1>3. PStatus = [r \in Runs |-> "idle"]
  BY <1>1 DEF PStatus
<1>4. PStored = [r \in Runs |-> FALSE]
  BY <1>1 DEF PStored
<1> QED BY <1>2, <1>3, <1>4 DEF Init, Promise!Init, PName, PStatus, PStored

LEMMA PromiseStep ==
  IInv /\ OwnerInv /\ OwnerInv' /\ [Next]_vars => [Promise!Next]_(Promise!vars)
<1> SUFFICES ASSUME IInv, OwnerInv, OwnerInv', [Next]_vars
             PROVE  Promise!Next \/ UNCHANGED Promise!vars
  OBVIOUS
<1> TypeInv
  BY DEF IInv
<1> DEFINE Stutter == PName' = PName /\ PStatus' = PStatus /\ PStored' = PStored /\ rows' = rows
<1> Stutter => UNCHANGED Promise!vars
  BY DEF Promise!vars, PName, PStatus, PStored
<1>1. CASE Tick \/ UNCHANGED vars
  <2>1. NamesSame /\ UNCHANGED <<objects, caller, rows>>
    BY <1>1 DEF Tick, vars, clockVars, callVars, NamesSame, Started, Name
  <2>2. PStatus' = PStatus
    BY <2>1 DEF PStatus, Status
  <2> QED BY <2>1, <2>2, PNameSame, PStoredSame
<1>2. ASSUME NEW r \in Runs, Begin(r) PROVE Promise!Begin(r)
  <2>1. PStatus[r] = "idle" /\ PStatus' = [PStatus EXCEPT ![r] = "running"]
    BY <1>2, PStatusMoves DEF Begin, PStatus, Status, Active, CallerStates
  <2>2. \A x \in Runs \ {r} : Started(x)' = Started(x) /\ Name(x)' = Name(x)
    BY <1>2 DEF Begin, callVars, Started, Name, TypeInv, TypeOK
  <2>3. ~Started(r) /\ Started(r)' /\ Name(r)' = <<adapter[r], Label[r], clock>>
    BY <1>2 DEF Begin, callVars, Started, Name, TypeInv, TypeOK
  <2>4. Name(r)' \in Names
    BY <2>3, RunAssumption DEF Names, TypeInv, TypeOK
  <2>5. PName' = [PName EXCEPT ![r] = Name(r)']
    BY <2>2, <2>3 DEF PName
  <2>6. objects'[Name(r)'] # FullObject(r)
    <3>1. FullObject(r) \in Contents /\ FullObject(r).of = r
      BY RunAssumption, ObjectType DEF FullObject, Object
    <3> QED BY <1>2, <2>3, <2>4, <3>1 DEF OwnerInv, Begin
  <2>7. PStored' = PStored
    <3>1. objects' = objects
      BY <1>2 DEF Begin
    <3> QED BY <2>2, <2>3, <2>6, <3>1 DEF PStored, FullObject, Object
  <2> QED
    BY <1>2, <2>1, <2>4, <2>5, <2>7 DEF Promise!Begin, Begin, PName, PStatus, PStored
<1>3. ASSUME NEW r \in Runs, DumperStep(r) PROVE Stutter
  <2>1. UNCHANGED <<clockVars, caller, objects, rows>>
    BY <1>3 DEF DumperStep, DumpBlock, DumpReturns, CloseGzip, ClosePipe
  <2>2. NamesSame
    BY <2>1 DEF NamesSame, Started, Name, clockVars, callVars
  <2>3. PStatus' = PStatus
    BY <2>1 DEF PStatus, Status
  <2> QED BY <2>1, <2>2, <2>3, PNameSame, PStoredSame
<1>4. ASSUME NEW r \in Runs, SaveOpens(r) \/ SaveReads(r) \/ SaveReturns(r)
      PROVE  Promise!Write(r)
  <2>1. Touches(r) \/ UNCHANGED objects
    BY <1>4, SaveTouches
  <2>2. PStatus' = PStatus
    <3>1. CASE SaveReads(r)
      BY <3>1 DEF SaveReads, PStatus, Status
    <3>2. CASE SaveOpens(r) \/ SaveReturns(r)
      <4>1. \E pc \in Active : caller' = [caller EXCEPT ![r] = pc]
        BY <3>2 DEF SaveOpens, SaveReturns, Active
      <4>2. PStatus' = [PStatus EXCEPT ![r] = "running"]
        BY <4>1, PStatusMoves DEF Active, CallerStates
      <4>3. PStatus[r] = "running"
        BY <1>4, RunningStep DEF CallerStep, SaveStep
      <4> QED BY <4>2, <4>3 DEF PStatus
    <3> QED BY <1>4, <3>1, <3>2
  <2>3. UNCHANGED rows
    BY <1>4 DEF SaveOpens, SaveReads, SaveReturns
  <2>4. CallerStep(r)
    BY <1>4 DEF CallerStep, SaveStep
  <2> QED BY <2>1, <2>2, <2>3, <2>4, WorkingWrites
<1>5. ASSUME NEW r \in Runs, SaveFails(r) PROVE Promise!Fail(r)
  <2>1. Touches(r) \/ UNCHANGED objects
    BY <1>5, SaveTouches
  <2> QED BY <1>5, <2>1, FailingFails DEF SaveFails, CallerStep, SaveStep
<1>6. ASSUME NEW r \in Runs, CheckDump(r) PROVE Promise!Fail(r) \/ Promise!Write(r)
  <2>1. CASE dumpErr[r]
    BY <1>6, <2>1, FailingFails DEF CheckDump, CallerStep
  <2>2. CASE ~dumpErr[r]
    <3>1. PStatus' = [PStatus EXCEPT ![r] = "running"]
      BY <1>6, <2>2, PStatusMoves DEF CheckDump, Active, CallerStates
    <3>2. PStatus' = PStatus
      BY <1>6, <3>1, RunningStep DEF CallerStep, PStatus
    <3> QED BY <1>6, <3>2, WorkingWrites DEF CheckDump, CallerStep
  <2> QED BY <2>1, <2>2
<1>7. ASSUME NEW r \in Runs, Record(r) PROVE Promise!Record(r)
  <2>1. NamesSame /\ PStatus[r] = "running"
    BY <1>7, RunningStep DEF CallerStep
  <2>2. PName' = PName /\ PStored' = PStored
    BY <1>7, <2>1, PNameSame, PStoredSame DEF Record
  <2>3. PStatus' = [PStatus EXCEPT ![r] = "recorded"]
    BY <1>7, PStatusMoves DEF Record, CallerStates
  <2>4. Promise!Intact(r)
    BY <1>7, PastSaveIntact DEF Record
  <2> QED
    BY <1>7, <2>1, <2>2, <2>3, <2>4 DEF Promise!Record, Record, PName, PStatus, PStored
<1>8. ASSUME NEW r \in Runs, RecordFails(r) PROVE Promise!Fail(r)
  <2>1. CASE rows' = rows
    BY <1>8, <2>1, FailingFails DEF RecordFails, CallerStep
  <2>2. CASE rows' = rows \union {r}
    BY <1>8, <2>2, RecordedFails DEF RecordFails, CallerStep
  <2> QED BY <1>8, <2>1, <2>2 DEF RecordFails
<1>9. ASSUME NEW r \in Runs, Crash(r) PROVE Promise!Fail(r)
  <2>1. CASE rows' = rows
    BY <1>9, <2>1, SaveTouches, FailingFails DEF Crash
  <2>2. CASE rows' # rows
    BY <1>9, <2>2, RecordedFails DEF Crash
  <2> QED BY <2>1, <2>2
<1> QED
  BY <1>1, <1>2, <1>3, <1>4, <1>5, <1>6, <1>7, <1>8, <1>9
  DEF Next, CallerStep, SaveStep, Promise!Next

\* RunBackup delivers its promise: seen from outside, a call touches nothing but
\* its own name, ends once, and leaves a row only for a dump that is stored
\* whole or was displaced by a rival under the same name.
THEOREM RunBackupKeepsPromise == Spec => KeepsPromise
<1>1. Spec => [](IInv /\ OwnerInv)
  BY IInvInvariant, OwnerInvariant, PTL
<1> QED
  BY <1>1, PromiseInit, PromiseStep, PTL DEF Spec, KeepsPromise, Promise!Spec

----------------------------------------------------------------------------
(***************************************************************************)
(* RunBackup is the job that Retention follows.                            *)
(***************************************************************************)
JOwner   == [r \in Runs |-> IF r \in rows THEN Label[r] ELSE NoObject]
JObjects == {r \in Runs : Stored(r)}
JJob     == [r \in Runs |-> [pc |-> Phase(r), of |-> IF Started(r) THEN Label[r] ELSE NoObject]]
JLost    == {r \in Runs : caller[r] \in {"failed", "dead"}}

LEMMA PhaseType ==
  ASSUME TypeInv, NEW r \in Runs
  PROVE  /\ Phase(r) \in {"none", "save", "record", "ended"}
         /\ Phase(r) = "none" <=> ~Started(r)
BY DEF TypeInv, TypeOK, CallerStates, Phase, Started

\* Calls that do not meet now did not meet before.
LEMMA NoRivalsBefore ==
  ASSUME TypeInv, [Next]_vars, NoRivals'
  PROVE  NoRivals
BY NameStays DEF NoRivals, Sole

\* A step of r that touches at most its own object keeps those of the others.
LEMMA OthersStored ==
  ASSUME TypeInv, [Next]_vars, NoRivals', NEW r \in Runs, Started(r)',
         UNCHANGED objects \/ (Started(r) /\ Touches(r)),
         NEW x \in Runs \ {r}, caller'[x] = caller[x]
  PROVE  Stored(x)' = Stored(x)
<1>1. Phase(x)' = Phase(x)
  BY DEF Phase
<1>2. CASE Phase(x) \in {"record", "ended"}
  <2>1. Started(x)
    BY <1>2, PhaseType
  <2>2. Name(x)' = Name(x)
    BY <2>1, NameStays
  <2>3. objects'[Name(x)] = objects[Name(x)]
    BY <2>1, NoRivalsBefore, NameType DEF NoRivals, Sole, Touches, TypeInv, TypeOK
  <2> QED BY <1>1, <2>2, <2>3 DEF Stored
<1>3. CASE Phase(x) \notin {"record", "ended"}
  BY <1>1, <1>3 DEF Stored
<1> QED BY <1>2, <1>3

\* The call that takes a step, in the terms of Retention.
LEMMA JobMoves ==
  ASSUME TypeInv, [Next]_vars, NEW r \in Runs, Started(r),
         \A x \in Runs \ {r} : caller'[x] = caller[x]
  PROVE  /\ JJob' = [JJob EXCEPT ![r].pc = Phase(r)']
         /\ JJob[r] = [pc |-> Phase(r), of |-> Label[r]]
<1>1. Started(r)'
  BY NameStays
<1>2. \A x \in Runs \ {r} : Phase(x)' = Phase(x) /\ Started(x)' = Started(x)
  BY DEF Phase, Started
<1> QED BY <1>1, <1>2 DEF JJob

LEMMA ObjectsMove ==
  ASSUME TypeInv, [Next]_vars, NoRivals', NEW r \in Runs, Started(r),
         UNCHANGED objects \/ Touches(r),
         \A x \in Runs \ {r} : caller'[x] = caller[x]
  PROVE  /\ Stored(r)' => JObjects' = JObjects \union {r}
         /\ ~Stored(r)' => JObjects' = JObjects \ {r}
<1>1. Started(r)'
  BY NameStays
<1>2. \A x \in Runs \ {r} : Stored(x)' = Stored(x)
  BY <1>1, OthersStored
<1> QED BY <1>2 DEF JObjects

LEMMA LostMoves ==
  ASSUME NEW r \in Runs, \A x \in Runs \ {r} : caller'[x] = caller[x]
  PROVE  /\ caller'[r] \in {"failed", "dead"} => JLost' = JLost \union {r}
         /\ caller[r] \notin {"failed", "dead"} /\ caller'[r] \notin {"failed", "dead"} =>
              JLost' = JLost
BY DEF JLost

LEMMA OwnerMoves ==
  ASSUME NEW r \in Runs
  PROVE  /\ rows' = rows => JOwner' = JOwner
         /\ rows' = rows \union {r} => JOwner' = [JOwner EXCEPT ![r] = Label[r]]
BY DEF JOwner

\* The clock, the policies and the sweeps of Retention do not move.
LEMMA JobsRest ==
  ASSUME JJob' = JJob, JObjects' = JObjects, JLost' = JLost, JOwner' = JOwner, rows' = rows
  PROVE  UNCHANGED Jobs!vars
BY DEF Jobs!vars, Jobs!tables, Jobs!history, JJob, JObjects, JLost, JOwner

LEMMA JobsInit == Init => Jobs!Init
<1> SUFFICES ASSUME Init PROVE Jobs!Init
  OBVIOUS
<1>1. \A r \in Runs : Phase(r) = "none" /\ ~Started(r) /\ ~Stored(r)
  BY DEF Init, Phase, Started, Stored
<1>2. JJob = [r \in Runs |-> [pc |-> "none", of |-> NoObject]]
  BY <1>1 DEF JJob
<1>3. JObjects = {} /\ JLost = {} /\ JOwner = [r \in Runs |-> NoObject]
  BY <1>1 DEF JObjects, JLost, JOwner, Init
<1> QED
  BY <1>2, <1>3 DEF Jobs!Init, Jobs!NoJob, JJob, JObjects, JLost, JOwner, Init

\* What the steps of a call do to its phase, to its row and to what is stored.
LEMMA CallSteps ==
  ASSUME TypeInv, NEW r \in Runs, CallerStep(r) \/ Crash(r)
  PROVE  /\ \A x \in Runs \ {r} : caller'[x] = caller[x]
         /\ Phase(r) \in {"save", "record"} /\ caller[r] \notin {"failed", "dead"}
         /\ caller'[r] \in CallerStates
         /\ Phase(r) = "save" => rows' = rows
         /\ rows' # rows => rows' = rows \union {r} /\ Phase(r)' = "ended"
         /\ Phase(r) = "record" => objects' = objects
<1> USE DEF TypeInv, TypeOK, Phase, CallerStates
<1>1. CASE SaveOpens(r) \/ SaveReads(r) \/ SaveReturns(r) \/ SaveFails(r)
  BY <1>1 DEF SaveOpens, SaveReads, SaveReturns, AtEOF, SaveFails
<1>2. CASE CheckDump(r) \/ Record(r) \/ RecordFails(r)
  BY <1>2 DEF CheckDump, Record, RecordFails
<1>3. CASE Crash(r)
  BY <1>3 DEF Crash, AtEOF, Active
<1> QED BY <1>1, <1>2, <1>3 DEF CallerStep, SaveStep

LEMMA JobsStep == IInv /\ [Next]_vars /\ NoRivals' => [Jobs!Next]_(Jobs!vars)
<1> SUFFICES ASSUME IInv, [Next]_vars, NoRivals'
             PROVE  Jobs!Next \/ UNCHANGED Jobs!vars
  OBVIOUS
<1> TypeInv
  BY DEF IInv
<1> NoObject \notin Nat
  BY NoObjectAssumption
<1>1. CASE Tick \/ UNCHANGED vars \/ \E r \in Runs : DumperStep(r)
  <2>1. UNCHANGED <<adapter, caller, start, objects, rows>>
    BY <1>1 DEF Tick, DumperStep, DumpBlock, DumpReturns, CloseGzip, ClosePipe, clockVars,
      callVars, vars
  <2>2. JJob' = JJob /\ JObjects' = JObjects /\ JLost' = JLost /\ JOwner' = JOwner
    BY <2>1 DEF JJob, JObjects, JLost, JOwner, Stored, Phase, Started, Name
  <2> QED BY <2>1, <2>2, JobsRest
<1>2. ASSUME NEW r \in Runs, Begin(r) PROVE Jobs!JobBegins(r)
  <2>1. /\ caller[r] = "idle" /\ caller' = [caller EXCEPT ![r] = "opening"]
        /\ UNCHANGED <<objects, rows>>
    BY <1>2 DEF Begin
  <2>2. \A x \in Runs \ {r} :
          Phase(x)' = Phase(x) /\ Started(x)' = Started(x) /\ Name(x)' = Name(x)
    BY <1>2 DEF Begin, callVars, Phase, Started, Name, TypeInv, TypeOK
  <2>3. /\ Phase(r) = "none" /\ Phase(r)' = "save" /\ ~Started(r) /\ Started(r)'
        /\ ~Stored(r) /\ ~Stored(r)'
    BY <2>1 DEF Phase, Started, Stored, TypeInv, TypeOK
  <2>4. /\ JJob' = [JJob EXCEPT ![r] = [pc |-> "save", of |-> Label[r]]]
        /\ JJob[r].pc = "none"
    BY <2>2, <2>3 DEF JJob
  <2>5. JObjects' = JObjects
    BY <2>1, <2>2, <2>3 DEF JObjects, Stored
  <2>6. JLost' = JLost /\ JOwner' = JOwner
    BY <2>1 DEF JLost, JOwner, TypeInv, TypeOK
  <2>7. Label[r] \in Labels
    BY RunAssumption
  <2> QED
    BY <2>1, <2>4, <2>5, <2>6, <2>7
    DEF Jobs!JobBegins, Jobs!tables, Jobs!history, JJob, JObjects, JLost, JOwner
<1>3. ASSUME NEW r \in Runs, CallerStep(r) \/ Crash(r)
      PROVE  Jobs!Job(r) \/ UNCHANGED Jobs!vars
  <2>1. /\ \A x \in Runs \ {r} : caller'[x] = caller[x]
        /\ Phase(r) \in {"save", "record"} /\ caller[r] \notin {"failed", "dead"}
        /\ caller'[r] \in CallerStates
        /\ Phase(r) = "save" => rows' = rows
        /\ rows' # rows => rows' = rows \union {r} /\ Phase(r)' = "ended"
        /\ Phase(r) = "record" => objects' = objects
    BY <1>3, CallSteps
  <2>2. UNCHANGED objects \/ Touches(r)
    BY <1>3, SaveTouches DEF CallerStep, SaveStep, CheckDump, Record, RecordFails
  <2>3. Started(r) /\ Name(r)' = Name(r)
    BY <1>3, RunningStep DEF NamesSame
  <2>4. /\ JJob' = [JJob EXCEPT ![r].pc = Phase(r)']
        /\ JJob[r] = [pc |-> Phase(r), of |-> Label[r]]
    BY <2>1, <2>3, JobMoves
  <2>5. /\ Stored(r)' => JObjects' = JObjects \union {r}
        /\ ~Stored(r)' => JObjects' = JObjects \ {r}
    BY <2>1, <2>2, <2>3, ObjectsMove
  <2>6. /\ caller'[r] \in {"failed", "dead"} => JLost' = JLost \union {r}
        /\ caller'[r] \notin {"failed", "dead"} => JLost' = JLost
    BY <2>1, LostMoves
  <2>7. /\ rows' = rows => JOwner' = JOwner
        /\ rows' = rows \union {r} => JOwner' = [JOwner EXCEPT ![r] = Label[r]]
    BY OwnerMoves
  <2>8. Label[r] \in Labels
    BY RunAssumption
  <2> DEFINE Failed == caller'[r] \in {"failed", "dead"}
  <2>9. CASE Phase(r) = "save" /\ Phase(r)' = "save"
    <3>1. ~Stored(r) /\ ~Stored(r)' /\ ~Failed
      BY <2>9 DEF Stored, Phase
    <3>2. JObjects' = JObjects /\ JLost' = JLost /\ JOwner' = JOwner
      BY <2>1, <2>5, <2>6, <2>7, <2>9, <3>1 DEF JObjects
    <3>3. JJob' = JJob
      BY <2>4, <2>9 DEF JJob
    <3> QED BY <2>1, <2>9, <3>2, <3>3, JobsRest
  <2>10. CASE Phase(r) = "save" /\ Phase(r)' = "record"
    <3>1. SaveReturns(r)
      BY <1>3, <2>10 DEF CallerStep, SaveStep, SaveOpens, SaveReads, SaveFails, CheckDump,
        Record,
        RecordFails, Crash, Phase, TypeInv, TypeOK
    <3>2. objects'[Name(r)] # NoObject
      <4>1. CASE adapter[r] = "s3"
        <5>1. Object(r, taken[r], ended[r]) \in Contents
          BY ObjectType DEF TypeInv, TypeOK
        <5>2. objects'[Name(r)] = Object(r, taken[r], ended[r])
          BY <3>1, <4>1, NameType DEF SaveReturns, Published, TypeInv, TypeOK
        <5> QED BY <5>1, <5>2, NoObjectAssumption
      <4>2. CASE adapter[r] = "local"
        <5>1. objects[Name(r)] \in Contents
          BY <3>1, <4>2 DEF SaveReturns, AtEOF, TypeInv, FileInv
        <5> QED BY <3>1, <4>2, <5>1, NoObjectAssumption DEF SaveReturns, Published
      <4> QED BY <4>1, <4>2 DEF TypeInv, TypeOK, Adapters
    <3>3. Stored(r)' /\ ~Failed
      BY <2>3, <2>10, <3>2 DEF Stored, Phase
    <3>4. JObjects' = JObjects \union {r} /\ JLost' = JLost /\ JOwner' = JOwner
      BY <2>1, <2>5, <2>6, <2>7, <2>10, <3>3
    <3>5. Jobs!JobSaves(r)
      BY <2>1, <2>4, <2>10, <3>4
      DEF Jobs!JobSaves, Jobs!JobGoes, Jobs!tables, Jobs!history, JJob, JObjects, JLost, JOwner
    <3> QED BY <3>5 DEF Jobs!Job
  <2>11. CASE Phase(r) = "save" /\ Phase(r)' = "ended"
    <3>1. Failed /\ ~Stored(r)
      BY <1>3, <2>11 DEF CallerStep, SaveStep, SaveOpens, SaveReads, SaveReturns, SaveFails,
        CheckDump, Record, RecordFails, Crash, Phase, Stored, TypeInv, TypeOK
    <3>2. JObjects' \in {JObjects, JObjects \union {r}}
      BY <2>5, <3>1 DEF JObjects
    <3>3. JLost' = JLost \union {r} /\ JOwner' = JOwner
      BY <2>1, <2>6, <2>7, <2>11, <3>1
    <3>4. Jobs!JobSaveFails(r)
      BY <2>1, <2>4, <2>11, <3>2, <3>3
      DEF Jobs!JobSaveFails, Jobs!JobGoes, Jobs!tables, JJob, JObjects, JLost, JOwner
    <3> QED BY <3>4 DEF Jobs!Job
  <2>12. CASE Phase(r) = "record"
    <3>1. Phase(r)' \in {"record", "ended"}
      BY <1>3, <2>12 DEF CallerStep, SaveStep, SaveOpens, SaveReads, SaveReturns, SaveFails,
        CheckDump, Record, RecordFails, Crash, Phase, TypeInv, TypeOK
    <3>2. JObjects' = JObjects
      BY <2>1, <2>3, <2>5, <2>12, <3>1 DEF JObjects, Stored
    <3>0. /\ JJob[r].pc = "record" /\ JJob[r].of = Label[r]
          /\ [s \in Labels |-> 0][JJob[r].of] # NoObject
      BY <2>4, <2>8, <2>12
    <3>3. CASE Phase(r)' = "record"
      <4>1. ~Failed
        BY <3>3 DEF Phase
      <4>2. JJob' = JJob
        BY <2>4, <2>12, <3>3 DEF JJob
      <4> QED BY <2>1, <2>6, <2>7, <3>2, <3>3, <4>1, <4>2, JobsRest
    <3>4. CASE Phase(r)' = "ended" /\ Failed
      <4>1. JLost' = JLost \union {r}
        BY <2>6, <3>4
      <4>2. Jobs!JobRecordFails(r)
        <5>1. /\ JJob' = [JJob EXCEPT ![r].pc = "ended"]
              /\ \/ rows' = rows /\ JOwner' = JOwner
                 \/ /\ rows' = rows \union {r}
                    /\ JOwner' = [JOwner EXCEPT ![r] = JJob[r].of]
          BY <2>1, <2>4, <2>7, <3>0, <3>4
        <5> QED
          BY <3>0, <3>2, <4>1, <5>1
          DEF Jobs!JobRecordFails, Jobs!JobGoes, JJob, JObjects, JLost, JOwner
      <4> QED BY <4>2 DEF Jobs!Job
    <3>5. CASE Phase(r)' = "ended" /\ ~Failed
      <4>1. Record(r)
        BY <1>3, <2>12, <3>5 DEF CallerStep, SaveStep, SaveOpens, SaveReads, SaveReturns,
          SaveFails, CheckDump, RecordFails, Crash, Phase, TypeInv, TypeOK
      <4>2. rows' = rows \union {r} /\ JLost' = JLost
        BY <2>6, <3>5, <4>1 DEF Record
      <4>3. Jobs!JobRecords(r)
        <5>1. /\ JJob' = [JJob EXCEPT ![r].pc = "ended"]
              /\ JOwner' = [JOwner EXCEPT ![r] = JJob[r].of]
          BY <2>4, <2>7, <3>0, <3>5, <4>2
        <5> QED
          BY <3>0, <3>2, <4>2, <5>1
          DEF Jobs!JobRecords, Jobs!JobGoes, Jobs!history, JJob, JObjects, JLost, JOwner
      <4> QED BY <4>3 DEF Jobs!Job
    <3> QED BY <3>1, <3>3, <3>4, <3>5
  <2>13. Phase(r)' \in {"none", "save", "record", "ended"} /\ Phase(r)' # "none"
    BY <1>3, <2>1, <2>3, NameStays DEF Phase, CallerStates, Started
  <2>14. Phase(r)' \in {"save", "record", "ended"}
    BY <2>13
  <2> QED BY <2>1, <2>9, <2>10, <2>11, <2>12, <2>14
<1> QED BY <1>1, <1>2, <1>3 DEF Next, Jobs!Next, Jobs!Job

\* As long as no two calls meet on an object name, RunBackup is the job whose object
\* and row Retention follows: its goroutines, its pipe and its adapters come down to
\* saving first, then recording, and leaving behind only what counts as lost.
THEOREM RunBackupIsTheJob == Spec => IsScheduledJob
<1>1. IInv /\ [Next]_vars => [NoRivals' => [Jobs!Next]_(Jobs!vars)]_vars
  BY JobsStep
<1> QED BY <1>1, JobsInit, IInvInvariant, PTL DEF Spec, IsScheduledJob

============================================================================
