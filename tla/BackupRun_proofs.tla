-------------------------- MODULE BackupRun_proofs --------------------------
(***************************************************************************)
(* Proofs about BackupRun, for any number of calls, any lengths of dump    *)
(* and either adapter: its type invariant, that dumpErr is read only after *)
(* the dumper has ended, that a recorded backup is a complete one, that no *)
(* goroutine waits in vain, and that the work of a call runs out.          *)
(*                                                                         *)
(* The safety invariants are conclusions of PipeInv, an accounting of      *)
(* every block between the dumper and Save, and of StorageInv, which says  *)
(* how much of a call's dump its object holds at each point.               *)
(***************************************************************************)
EXTENDS BackupRun, TLAPS

----------------------------------------------------------------------------
(* The inductive invariant.                                                *)

\* Every block sent has been taken or is being offered; the trailer follows the
\* last block, and the pipe is closed after it has been taken.
PipeInv(r) ==
  /\ caller[r] = "idle" => dumper[r] = "none"
  /\ dumper[r] = "none" => sent[r] = 0 /\ taken[r] = 0
  /\ sent[r] = taken[r] + (IF pipe[r] = "block" THEN 1 ELSE 0)
  /\ dumper[r] \in {"none", "dumping", "closeGzip"} => pipe[r] # "end" /\ ~ended[r]
  /\ dumper[r] = "none" => pipe[r] = "empty"
  /\ dumper[r] \in {"closeGzip", "closePipe", "done"} =>
       pipe[r] # "block" /\ (dumpErr[r] \/ sent[r] = DumpLen[r])
  /\ dumper[r] \in {"closePipe", "done"} => pipe[r] = "end" \/ ended[r]
  /\ dumper[r] = "done" => pipe[r] = "empty"

\* What the caller has of the stream before Save, and what it knows after it.
CallerInv(r) ==
  /\ caller[r] = "opening" => taken[r] = 0 /\ ~ended[r]
  /\ caller[r] \in {"check", "record", "ok"} => dumper[r] = "done"
  /\ caller[r] = "record" => ~dumpErr[r]
  /\ caller[r] = "ok" => r \in rows
  /\ r \in rows => /\ caller[r] \in {"ok", "failed", "dead"}
                   /\ ~dumpErr[r] /\ dumper[r] \in {"done", "dead"}
                   /\ taken[r] = DumpLen[r] /\ ended[r]

\* The object of call r is the part of its dump that Save has taken.
Kept(r) ==
  \/ caller[r] \in {"check", "record"}
  \/ r \in rows
  \/ adapter[r] = "local" /\ caller[r] = "saving"

StorageInv(r) ==
  Kept(r) /\ Sole(r) => objects[Name(r)] = Object(r, taken[r], ended[r])

\* Local has made the file before it writes to it.
FileInv(r) ==
  adapter[r] = "local" /\ caller[r] = "saving" => objects[Name(r)] \in Contents

TypeInv == TypeOK /\ \A r \in Runs : FileInv(r)

IInv ==
  /\ TypeInv
  /\ \A r \in Runs : PipeInv(r) /\ CallerInv(r) /\ StorageInv(r)

----------------------------------------------------------------------------
(* Types.                                                                  *)

\* No step gives a call another adapter or another caller.
LEMMA AdapterStays == [Next]_vars => adapter' = adapter /\ scheduled' = scheduled
BY DEF Next, Tick, Begin, DumperStep, DumpBlock, DumpReturns, CloseGzip, ClosePipe, CallerStep,
  SaveStep, SaveOpens, SaveReads, SaveReturns, SaveFails, CheckDump, Record, RecordFails, Crash,
  clockVars, callVars, vars

\* An object name is one of Names, whatever second the call began in.
LEMMA NameType ==
  ASSUME TypeOK, NEW r \in Runs
  PROVE  Name(r) \in Names
BY RunAssumption DEF TypeOK, Name, Names

\* What the adapters store has the shape of an object.
LEMMA ObjectType ==
  ASSUME NEW r \in Runs, NEW n \in Nat, NEW e \in BOOLEAN
  PROVE  Object(r, n, e) \in Contents
BY DEF Object, Contents

\* So has a file after one more write.
LEMMA AppendedType ==
  ASSUME NEW o \in Contents, NEW r \in Runs, NEW e \in BOOLEAN
  PROVE  Appended(o, r, e) \in Contents
<1>1. o.blocks + 1 \in Nat
  BY DEF Contents
<1>2. [o EXCEPT !.mixed = TRUE] \in Contents
  BY Zenon DEF Contents
<1>3. [o EXCEPT !.end = TRUE] \in Contents
  BY Zenon DEF Contents
<1>4. [o EXCEPT !.blocks = @ + 1] \in Contents
  BY <1>1, Zenon DEF Contents
<1> QED BY <1>2, <1>3, <1>4 DEF Appended

\* Storing an object under a name keeps the type of the storage, and takes no
\* file away.
LEMMA StoreType ==
  ASSUME TypeInv, NEW r \in Runs, NEW o \in Contents,
         objects' = [objects EXCEPT ![Name(r)] = o]
  PROVE  /\ objects' \in [Names -> Contents \union {NoObject}]
         /\ \A n \in Names : objects[n] \in Contents => objects'[n] \in Contents
         /\ objects'[Name(r)] \in Contents
BY NameType DEF TypeInv, TypeOK

\* Publishing an object does so, too.
LEMMA PublishedType ==
  ASSUME TypeInv, NEW r \in Runs, objects' = Published(r)
  PROVE  /\ objects' \in [Names -> Contents \union {NoObject}]
         /\ \A n \in Names : objects[n] \in Contents => objects'[n] \in Contents
<1>1. CASE adapter[r] = "s3"
  <2>1. Object(r, taken[r], ended[r]) \in Contents
    BY ObjectType DEF TypeInv, TypeOK
  <2>2. objects' = [objects EXCEPT ![Name(r)] = Object(r, taken[r], ended[r])]
    BY <1>1 DEF Published
  <2> QED BY <2>1, <2>2, StoreType
<1>2. CASE adapter[r] # "s3"
  <2>1. objects' = objects
    BY <1>2 DEF Published
  <2> QED BY <2>1 DEF TypeInv, TypeOK
<1> QED BY <1>1, <1>2

\* What is sent about a call are messages.
LEMMA NotifyType ==
  ASSUME TypeOK, NEW r \in Runs, NEW own \in SUBSET Messages, Notify(r, own)
  PROVE  notified' \in [Runs -> SUBSET Messages]
<1>1. notified[r] \union own \union {m \in {"job"} : r \in scheduled} \in SUBSET Messages
  BY DEF TypeOK, Messages
<1> QED BY <1>1 DEF Notify, TypeOK

LEMMA TypeInit == Init => TypeInv
<1> SUFFICES ASSUME Init PROVE TypeInv
  OBVIOUS
<1>1. TypeOK
  BY RunAssumption DEF Init, TypeOK, CallerStates, DumperStates
<1>2. \A r \in Runs : FileInv(r)
  BY DEF Init, FileInv
<1> QED BY <1>1, <1>2 DEF TypeInv


\* Steps that leave the storage alone and open no file.
LEMMA TypeStepElsewhere ==
  ASSUME TypeInv, UNCHANGED <<adapter, objects>>, TypeOK',
         \A r \in Runs : Name(r)' = Name(r) \/ caller'[r] # "saving",
         \A r \in Runs : caller'[r] = "saving" => caller[r] = "saving"
  PROVE  TypeInv'
BY DEF TypeInv, FileInv, Contents

LEMMA TypeStep == TypeInv /\ [Next]_vars => TypeInv'
<1> SUFFICES ASSUME TypeInv, [Next]_vars PROVE TypeInv'
  OBVIOUS
<1> USE RunAssumption
<1> adapter' = adapter /\ scheduled' = scheduled
  BY AdapterStays
<1>1. CASE Tick
  BY <1>1, TypeStepElsewhere
  DEF TypeInv, TypeOK, Tick, clockVars, callVars, dumperVars, saveVars, Name
<1>2. ASSUME NEW r \in Runs, Begin(r) PROVE TypeInv'
  <2>1. TypeOK'
    BY <1>2 DEF TypeInv, TypeOK, Begin, dumperVars, saveVars, CallerStates, DumperStates
  <2>2. \A x \in Runs : Name(x)' = Name(x) \/ caller'[x] # "saving"
    BY <1>2 DEF TypeInv, TypeOK, Begin, Name
  <2> QED BY <1>2, <2>1, <2>2, TypeStepElsewhere DEF TypeInv, TypeOK, Begin
<1>3. ASSUME NEW r \in Runs, DumperStep(r) PROVE TypeInv'
  <2>1. TypeOK'
    BY <1>3 DEF TypeInv, TypeOK, DumperStep, DumpBlock, DumpReturns, CloseGzip, ClosePipe,
      Unblocked, clockVars, callVars, saveVars, DumperStates
  <2> QED
    BY <1>3, <2>1, TypeStepElsewhere DEF DumperStep, DumpBlock, DumpReturns, CloseGzip,
      ClosePipe, clockVars, callVars, Name
<1>4. ASSUME NEW r \in Runs, SaveOpens(r) PROVE TypeInv'
  <2>1. Object(r, 0, FALSE) \in Contents
    BY ObjectType
  <2>2. /\ objects' \in [Names -> Contents \union {NoObject}]
        /\ \A n \in Names : objects[n] \in Contents => objects'[n] \in Contents
        /\ adapter[r] = "local" => objects'[Name(r)] \in Contents
    BY <1>4, <2>1, StoreType DEF SaveOpens, TypeInv, TypeOK
  <2>3. TypeOK'
    BY <1>4, <2>2 DEF TypeInv, TypeOK, SaveOpens, clockVars, callVars, dumperVars,
      saveVars, CallerStates
  <2>4. ASSUME NEW x \in Runs PROVE FileInv(x)'
    BY <1>4, <2>2, NameType DEF TypeInv, TypeOK, FileInv, SaveOpens, clockVars, callVars, Name
  <2> QED BY <2>3, <2>4 DEF TypeInv
<1>5. ASSUME NEW r \in Runs, SaveReads(r) PROVE TypeInv'
  <2>1. adapter[r] = "local" => Appended(objects[Name(r)], r, pipe[r] = "end") \in Contents
    BY <1>5, AppendedType DEF SaveReads, TypeInv, FileInv
  <2>2. /\ objects' \in [Names -> Contents \union {NoObject}]
        /\ \A n \in Names : objects[n] \in Contents => objects'[n] \in Contents
    BY <1>5, <2>1, StoreType DEF SaveReads, TypeInv, TypeOK
  <2>3. TypeOK'
    BY <1>5, <2>2 DEF TypeInv, TypeOK, SaveReads, clockVars, callVars, dumperVars
  <2>4. ASSUME NEW x \in Runs PROVE FileInv(x)'
    BY <1>5, <2>2, NameType DEF TypeInv, FileInv, SaveReads, clockVars, callVars, Name
  <2> QED BY <2>3, <2>4 DEF TypeInv
<1>6. ASSUME NEW r \in Runs, SaveReturns(r) \/ SaveFails(r) \/ Crash(r) PROVE TypeInv'
  <2>1. UNCHANGED objects \/ objects' = Published(r)
    BY <1>6 DEF SaveReturns, SaveFails, Crash
  <2>2. /\ objects' \in [Names -> Contents \union {NoObject}]
        /\ \A n \in Names : objects[n] \in Contents => objects'[n] \in Contents
    BY <2>1, PublishedType DEF TypeInv, TypeOK
  <2>0. notified' \in [Runs -> SUBSET Messages]
    BY <1>6, NotifyType DEF SaveReturns, SaveFails, Crash, Messages, TypeInv, TypeOK
  <2>3. TypeOK'
    BY <1>6, <2>0, <2>2 DEF TypeInv, TypeOK, SaveReturns, SaveFails, Crash, clockVars,
      callVars, dumperVars,
      saveVars, CallerStates, DumperStates
  <2>4. ASSUME NEW x \in Runs PROVE FileInv(x)'
    BY <1>6, <2>2, NameType DEF TypeInv, TypeOK, FileInv, SaveReturns, SaveFails, Crash,
      clockVars, callVars, Name
  <2> QED BY <2>3, <2>4 DEF TypeInv
<1>7. ASSUME NEW r \in Runs, CheckDump(r) \/ Record(r) \/ RecordFails(r) PROVE TypeInv'
  <2>0. notified' \in [Runs -> SUBSET Messages]
    BY <1>7, NotifyType DEF CheckDump, Record, RecordFails, Messages, TypeInv, TypeOK
  <2>1. TypeOK'
    BY <1>7, <2>0 DEF TypeInv, TypeOK, CheckDump, Record, RecordFails, clockVars, callVars,
      dumperVars,
      saveVars, CallerStates
  <2> QED
    BY <1>7, <2>1, TypeStepElsewhere DEF TypeInv, TypeOK, CheckDump, Record, RecordFails,
      clockVars, callVars, Name
<1>8. CASE UNCHANGED vars
  BY <1>8, TypeStepElsewhere
  DEF TypeInv, TypeOK, vars, clockVars, callVars, dumperVars, saveVars, Name
<1> QED
  BY <1>1, <1>2, <1>3, <1>4, <1>5, <1>6, <1>7, <1>8 DEF Next, CallerStep, SaveStep

\* Every state has the types the module declares, whatever the calls, their
\* dumps and the adapter are.
THEOREM TypeCorrect == Spec => []TypeOK
<1>1. Spec => []TypeInv
  BY TypeInit, TypeStep, PTL DEF Spec
<1>2. TypeInv => TypeOK
  BY DEF TypeInv
<1> QED BY <1>1, <1>2, PTL

----------------------------------------------------------------------------
(* The pipe and the caller.                                                *)

PipesInv   == \A r \in Runs : PipeInv(r)
CallersInv == \A r \in Runs : CallerInv(r)

LEMMA PipeInit == Init => PipesInv /\ CallersInv
BY DEF Init, PipesInv, PipeInv, CallersInv, CallerInv

LEMMA PipeStep == TypeInv /\ PipesInv /\ [Next]_vars => PipesInv'
<1> SUFFICES ASSUME TypeInv, PipesInv, [Next]_vars, NEW x \in Runs PROVE PipeInv(x)'
  BY DEF PipesInv
<1> USE RunAssumption DEF TypeInv, TypeOK, PipesInv, PipeInv
<1>1. CASE Tick
  BY <1>1 DEF Tick, dumperVars, saveVars
<1>2. ASSUME NEW r \in Runs, Begin(r) PROVE PipeInv(x)'
  BY <1>2 DEF Begin, saveVars
<1>3. ASSUME NEW r \in Runs, DumpBlock(r) PROVE PipeInv(x)'
  BY <1>3 DEF DumpBlock, Unblocked, saveVars
<1>4. ASSUME NEW r \in Runs, DumpReturns(r) PROVE PipeInv(x)'
  BY <1>4 DEF DumpReturns, Unblocked, saveVars
<1>5. ASSUME NEW r \in Runs, CloseGzip(r) PROVE PipeInv(x)'
  BY <1>5 DEF CloseGzip, Unblocked, saveVars
<1>6. ASSUME NEW r \in Runs, ClosePipe(r) PROVE PipeInv(x)'
  BY <1>6 DEF ClosePipe, Unblocked, saveVars
<1>7. ASSUME NEW r \in Runs, SaveReads(r) PROVE PipeInv(x)'
  <2>1. CASE x # r
    BY <1>7, <2>1 DEF SaveReads, dumperVars
  <2>2. CASE x = r /\ pipe[r] = "block"
    <3>1. /\ taken'[r] = taken[r] + 1 /\ pipe'[r] = "empty"
          /\ UNCHANGED <<sent, dumper, caller, dumpErr>> /\ ended'[r] = ended[r]
      BY <1>7, <2>2 DEF SaveReads, dumperVars
    <3> QED BY <2>2, <3>1
  <2>3. CASE x = r /\ pipe[r] = "end"
    <3>1. /\ taken'[r] = taken[r] /\ pipe'[r] = "empty"
          /\ UNCHANGED <<sent, dumper, caller, dumpErr>> /\ ended'[r]
      BY <1>7, <2>3 DEF SaveReads, dumperVars
    <3> QED BY <2>3, <3>1
  <2> QED BY <1>7, <2>1, <2>2, <2>3 DEF SaveReads
<1>8. ASSUME NEW r \in Runs,
             \/ SaveOpens(r) \/ SaveReturns(r) \/ SaveFails(r)
             \/ CheckDump(r) \/ Record(r) \/ RecordFails(r)
      PROVE  PipeInv(x)'
  <2>1. UNCHANGED <<dumper, sent, pipe, dumpErr, taken, ended>>
    BY <1>8 DEF SaveOpens, SaveReturns, SaveFails, CheckDump, Record, RecordFails, dumperVars,
      saveVars
  <2>2. caller'[x] = "idle" => caller[x] = "idle"
    BY <1>8 DEF SaveOpens, SaveReturns, SaveFails, CheckDump, Record, RecordFails
  <2> QED BY <2>1, <2>2
<1>9. ASSUME NEW r \in Runs, Crash(r) PROVE PipeInv(x)'
  BY <1>9 DEF Crash, Active, saveVars
<1>10. CASE UNCHANGED vars
  BY <1>10 DEF vars, dumperVars, saveVars
<1> QED
  BY <1>1, <1>2, <1>3, <1>4, <1>5, <1>6, <1>7, <1>8, <1>9, <1>10
  DEF Next, DumperStep, CallerStep, SaveStep

LEMMA CallersStep == TypeInv /\ PipesInv /\ CallersInv /\ [Next]_vars => CallersInv'
<1> SUFFICES ASSUME TypeInv, PipesInv, CallersInv, [Next]_vars, NEW x \in Runs
             PROVE  CallerInv(x)'
  BY DEF CallersInv
<1> USE RunAssumption DEF TypeInv, TypeOK, CallersInv, CallerInv
<1>1. CASE Tick
  BY <1>1 DEF Tick, dumperVars, saveVars
<1>2. ASSUME NEW r \in Runs, Begin(r) PROVE CallerInv(x)'
  BY <1>2 DEF Begin, saveVars, PipesInv, PipeInv
<1>3. ASSUME NEW r \in Runs, DumperStep(r) PROVE CallerInv(x)'
  BY <1>3 DEF DumperStep, DumpBlock, DumpReturns, CloseGzip, ClosePipe, Unblocked, saveVars
<1>4. ASSUME NEW r \in Runs, SaveOpens(r) \/ SaveReads(r) \/ SaveFails(r) PROVE CallerInv(x)'
  <2>1. CASE SaveReads(r)
    BY <2>1 DEF SaveReads, dumperVars
  <2>2. CASE SaveOpens(r) \/ SaveFails(r)
    <3>1. UNCHANGED <<dumper, dumpErr, taken, ended, rows>>
      BY <2>2 DEF SaveOpens, SaveFails, dumperVars, saveVars
    <3>2. /\ caller[r] \in {"opening", "saving"} /\ caller'[r] \in {"saving", "failed"}
          /\ \A y \in Runs \ {r} : caller'[y] = caller[y]
      BY <2>2 DEF SaveOpens, SaveFails
    <3>3. CASE x = r
      BY <3>1, <3>2, <3>3
    <3>4. CASE x # r
      BY <3>1, <3>2, <3>4
    <3> QED BY <3>3, <3>4
  <2> QED BY <1>4, <2>1, <2>2
<1>5. ASSUME NEW r \in Runs, SaveReturns(r) PROVE CallerInv(x)'
  BY <1>5 DEF SaveReturns, AtEOF, Unblocked, dumperVars, saveVars
<1>6. ASSUME NEW r \in Runs, CheckDump(r) PROVE CallerInv(x)'
  BY <1>6 DEF CheckDump, dumperVars, saveVars
<1>7. ASSUME NEW r \in Runs, Record(r) \/ RecordFails(r) \/ Crash(r) PROVE CallerInv(x)'
  <2>1. ASSUME caller[r] = "record" PROVE taken[r] = DumpLen[r] /\ ended[r]
    <3>1. dumper[r] = "done" /\ ~dumpErr[r]
      BY <2>1
    <3>2. PipeInv(r)
      BY DEF PipesInv
    <3> QED BY <3>1, <3>2 DEF PipeInv
  <2>2. \/ rows' = rows
        \/ caller[r] = "record" /\ rows' = rows \union {r}
    BY <1>7 DEF Record, RecordFails, Crash
  <2> QED
    BY <1>7, <2>1, <2>2 DEF Record, RecordFails, Crash, Active, dumperVars, saveVars
<1>8. CASE UNCHANGED vars
  BY <1>8 DEF vars, dumperVars, saveVars
<1> QED
  BY <1>1, <1>2, <1>3, <1>4, <1>5, <1>6, <1>7, <1>8 DEF Next, CallerStep, SaveStep

LEMMA PipesInvariant == Spec => [](TypeInv /\ PipesInv /\ CallersInv)
BY TypeInit, TypeStep, PipeInit, PipeStep, CallersStep, PTL DEF Spec

\* When RunBackup reads dumpErr, and from then on, its dumper has returned: no
\* schedule of the two goroutines lets it miss an error or leaves one behind.
THEOREM DumperDone == Spec => []DumperDoneWhenRead
<1>1. CallersInv => DumperDoneWhenRead
  BY DEF CallersInv, CallerInv, DumperDoneWhenRead
<1> QED BY <1>1, PipesInvariant, PTL

----------------------------------------------------------------------------
(* The storage.                                                            *)

StoragesInv == \A r \in Runs : StorageInv(r)

\* A call that has begun keeps its object name.
LEMMA NameStays ==
  ASSUME TypeInv, [Next]_vars, NEW r \in Runs, Started(r)
  PROVE  Started(r)' /\ Name(r)' = Name(r)
<1> USE DEF TypeInv, TypeOK, Started, Name
<1>1. CASE Tick \/ UNCHANGED vars
  BY <1>1 DEF Tick, vars, clockVars, callVars
<1>2. ASSUME NEW y \in Runs, Begin(y) PROVE Started(r)' /\ Name(r)' = Name(r)
  BY <1>2 DEF Begin, callVars
<1>3. ASSUME NEW y \in Runs, DumperStep(y) PROVE Started(r)' /\ Name(r)' = Name(r)
  BY <1>3 DEF DumperStep, DumpBlock, DumpReturns, CloseGzip, ClosePipe, clockVars, callVars
<1>4. ASSUME NEW y \in Runs, CallerStep(y) \/ Crash(y)
      PROVE  Started(r)' /\ Name(r)' = Name(r)
  <2>1. UNCHANGED clockVars
    BY <1>4 DEF CallerStep, SaveStep, SaveOpens, SaveReads, SaveReturns, SaveFails, CheckDump,
      Record, RecordFails, Crash
  <2>2. \/ UNCHANGED caller
        \/ \E pc \in CallerStates \ {"idle"} : caller' = [caller EXCEPT ![y] = pc]
    BY <1>4 DEF CallerStep, SaveStep, SaveOpens, SaveReads, SaveReturns, SaveFails, CheckDump,
      Record, RecordFails, Crash, CallerStates
  <2> QED BY <2>1, <2>2 DEF clockVars, callVars
<1> QED BY <1>1, <1>2, <1>3, <1>4 DEF Next

\* So a call that has its name for itself has had it for itself all along.
LEMMA SoleBefore ==
  ASSUME TypeInv, [Next]_vars, NEW r \in Runs, Started(r), Sole(r)'
  PROVE  Sole(r)
BY NameStays DEF Sole

\* What one call stores does not touch the object of another one.
LEMMA OthersApart ==
  ASSUME TypeInv, NEW r \in Runs, NEW x \in Runs, x # r, Started(r), Sole(x), NEW o,
         objects' = [objects EXCEPT ![Name(r)] = o]
  PROVE  objects'[Name(x)] = objects[Name(x)]
BY NameType DEF TypeInv, TypeOK, Sole

LEMMA KeptStarted ==
  ASSUME CallersInv, NEW r \in Runs, Kept(r)
  PROVE  Started(r)
BY DEF CallersInv, CallerInv, Kept, Started

\* A step that leaves the object, the progress and the standing of a call alone.
LEMMA StorageSame ==
  ASSUME TypeInv, CallersInv, StoragesInv, [Next]_vars, NEW x \in Runs,
         Sole(x) => objects'[Name(x)] = objects[Name(x)],
         taken'[x] = taken[x], ended'[x] = ended[x], Kept(x)' => Kept(x)
  PROVE  StorageInv(x)'
<1> SUFFICES ASSUME Kept(x)', Sole(x)'
             PROVE  objects'[Name(x)'] = Object(x, taken'[x], ended'[x])
  BY DEF StorageInv, Object
<1>1. Kept(x) /\ Started(x)
  BY KeptStarted
<1>2. Sole(x) /\ Name(x)' = Name(x)
  BY <1>1, SoleBefore, NameStays
<1> QED BY <1>1, <1>2 DEF StoragesInv, StorageInv

\* Call r takes the step; its effect on the object of a call x, itself or another.
LEMMA StorageStep ==
  TypeInv /\ PipesInv /\ CallersInv /\ StoragesInv /\ [Next]_vars => StoragesInv'
<1> SUFFICES ASSUME TypeInv, PipesInv, CallersInv, StoragesInv, [Next]_vars, NEW x \in Runs
             PROVE  StorageInv(x)'
  BY DEF StoragesInv
<1> USE RunAssumption
<1> adapter' = adapter /\ scheduled' = scheduled
  BY AdapterStays
<1>1. CASE Tick \/ UNCHANGED vars
  BY <1>1, StorageSame DEF Tick, vars, dumperVars, saveVars, Kept
<1>2. ASSUME NEW r \in Runs, Begin(r) \/ DumperStep(r) PROVE StorageInv(x)'
  <2>1. UNCHANGED <<objects, taken, ended, rows>>
    BY <1>2 DEF Begin, DumperStep, DumpBlock, DumpReturns, CloseGzip, ClosePipe, saveVars
  <2>2. Kept(x)' => Kept(x)
    BY <1>2, <2>1 DEF Begin, DumperStep, DumpBlock, DumpReturns, CloseGzip, ClosePipe, Kept,
      TypeInv, TypeOK
  <2> QED BY <2>1, <2>2, StorageSame
<1>3. ASSUME NEW r \in Runs, SaveOpens(r) PROVE StorageInv(x)'
  <2>1. Started(r)
    BY <1>3 DEF SaveOpens, Started
  <2>2. CASE x # r
    <3>1. Sole(x) => objects'[Name(x)] = objects[Name(x)]
      BY <1>3, <2>1, <2>2, OthersApart DEF SaveOpens
    <3> QED BY <1>3, <2>2, <3>1, StorageSame DEF SaveOpens, saveVars, Kept, TypeInv, TypeOK
  <2>3. CASE x = r /\ adapter[r] = "local"
    <3>1. taken[r] = 0 /\ ended[r] = FALSE
      BY <1>3 DEF SaveOpens, CallersInv, CallerInv, TypeInv, TypeOK
    <3>2. objects'[Name(r)] = Object(r, 0, FALSE)
      BY <1>3, <2>3, NameType DEF SaveOpens, TypeInv, TypeOK
    <3>3. Name(r)' = Name(r)
      BY <2>1, NameStays
    <3> QED BY <1>3, <2>3, <3>1, <3>2, <3>3 DEF StorageInv, SaveOpens, saveVars
  <2>4. CASE x = r /\ adapter[r] # "local"
    <3>1. r \notin rows
      BY <1>3 DEF SaveOpens, CallersInv, CallerInv
    <3>2. ~Kept(r)'
      BY <1>3, <2>4, <3>1 DEF SaveOpens, Kept, TypeInv, TypeOK
    <3> QED BY <2>4, <3>2 DEF StorageInv
  <2> QED BY <2>2, <2>3, <2>4
<1>4. ASSUME NEW r \in Runs, SaveReads(r) PROVE StorageInv(x)'
  <2>1. Started(r)
    BY <1>4 DEF SaveReads, Started
  <2>2. CASE x # r
    <3>1. Sole(x) => objects'[Name(x)] = objects[Name(x)]
      BY <1>4, <2>1, <2>2, OthersApart DEF SaveReads
    <3> QED BY <1>4, <2>2, <3>1, StorageSame DEF SaveReads, Kept, TypeInv, TypeOK
  <2>3. CASE x = r
    <3> SUFFICES ASSUME Kept(r)', Sole(r)'
                 PROVE  objects'[Name(r)'] = Object(r, taken'[r], ended'[r])
      BY <2>3 DEF StorageInv
    <3>1. Sole(r) /\ Name(r)' = Name(r)
      BY <2>1, SoleBefore, NameStays
    <3>2. r \notin rows /\ rows' = rows /\ caller' = caller /\ caller[r] = "saving"
      BY <1>4 DEF SaveReads, CallersInv, CallerInv
    <3>3. adapter[r] = "local" /\ Kept(r)
      BY <3>2 DEF Kept
    <3>4. objects[Name(r)] = Object(r, taken[r], ended[r])
      BY <3>1, <3>3 DEF StoragesInv, StorageInv
    <3>5. objects'[Name(r)] = Appended(Object(r, taken[r], ended[r]), r, pipe[r] = "end")
      BY <1>4, <3>3, <3>4, NameType DEF SaveReads, TypeInv, TypeOK
    <3>6. CASE pipe[r] = "end"
      <4>1. taken'[r] = taken[r] /\ ended'[r] = TRUE
        BY <1>4, <3>6 DEF SaveReads, TypeInv, TypeOK
      <4>2. objects'[Name(r)] = [Object(r, taken[r], ended[r]) EXCEPT !.end = TRUE]
        BY <3>5, <3>6 DEF Appended, Object
      <4>3. objects'[Name(r)] = Object(r, taken[r], TRUE)
        BY <4>2 DEF Object
      <4> QED BY <3>1, <4>1, <4>3
    <3>7. CASE pipe[r] = "block"
      <4>1. taken'[r] = taken[r] + 1 /\ ended'[r] = ended[r]
        BY <1>4, <3>7 DEF SaveReads, TypeInv, TypeOK
      <4> QED BY <3>1, <3>5, <3>7, <4>1 DEF Appended, Object
    <3> QED BY <1>4, <3>6, <3>7 DEF SaveReads, TypeInv, TypeOK
  <2> QED BY <2>2, <2>3
<1>5. ASSUME NEW r \in Runs, SaveReturns(r) PROVE StorageInv(x)'
  <2>1. Started(r) /\ caller[r] = "saving"
    BY <1>5 DEF SaveReturns, AtEOF, Started
  <2>2. CASE x # r
    <3>1. Sole(x) => objects'[Name(x)] = objects[Name(x)]
      BY <1>5, <2>1, <2>2, OthersApart DEF SaveReturns, Published
    <3> QED BY <1>5, <2>2, <3>1, StorageSame DEF SaveReturns, saveVars, Kept, TypeInv, TypeOK
  <2>3. CASE x = r /\ adapter[r] = "s3"
    <3>1. objects'[Name(r)] = Object(r, taken[r], ended[r])
      BY <1>5, <2>3, NameType DEF SaveReturns, Published, TypeInv, TypeOK
    <3> QED BY <1>5, <2>1, <2>3, <3>1, NameStays DEF StorageInv, SaveReturns, saveVars
  <2>4. CASE x = r /\ adapter[r] = "local"
    <3>1. Kept(r)' => Kept(r)
      BY <2>1, <2>4 DEF Kept
    <3> QED BY <1>5, <2>4, <3>1, StorageSame DEF SaveReturns, Published, saveVars
  <2>5. adapter[r] \in Adapters
    BY DEF TypeInv, TypeOK
  <2> QED BY <2>2, <2>3, <2>4, <2>5 DEF Adapters
<1>6. ASSUME NEW r \in Runs,
             SaveFails(r) \/ CheckDump(r) \/ Record(r) \/ RecordFails(r) \/ Crash(r)
      PROVE  StorageInv(x)'
  <2>1. /\ Started(r)
        /\ UNCHANGED <<taken, ended>>
        /\ UNCHANGED objects \/ objects' = Published(r)
    BY <1>6 DEF SaveFails, CheckDump, Record, RecordFails, Crash, Active, Started, saveVars
  <2>2. CASE x # r
    <3>1. Sole(x) => objects'[Name(x)] = objects[Name(x)]
      BY <2>1, <2>2, OthersApart DEF Published
    <3>2. caller'[x] = caller[x] /\ (x \in rows' => x \in rows)
      BY <1>6, <2>2
      DEF SaveFails, CheckDump, Record, RecordFails, Crash, TypeInv, TypeOK
    <3> QED BY <2>1, <3>1, <3>2, StorageSame DEF Kept
  <2>3. CASE x = r /\ (SaveFails(r) \/ (Crash(r) /\ AtEOF(r)))
    <3>1. r \notin rows /\ caller'[r] \in {"failed", "dead"} /\ rows' = rows
      BY <2>3 DEF SaveFails, Crash, AtEOF, CallersInv, CallerInv, TypeInv, TypeOK
    <3> QED BY <2>3, <3>1 DEF StorageInv, Kept
  <2>4. CASE x = r /\ ~SaveFails(r) /\ ~(Crash(r) /\ AtEOF(r))
    <3>1. UNCHANGED objects
      BY <1>6, <2>4 DEF CheckDump, Record, RecordFails, Crash
    <3>2. Kept(r)' => Kept(r)
      BY <1>6, <2>4 DEF CheckDump, Record, RecordFails, Crash, Kept, TypeInv, TypeOK
    <3> QED BY <2>1, <2>4, <3>1, <3>2, StorageSame
  <2> QED BY <2>2, <2>3, <2>4
<1> QED
  BY <1>1, <1>2, <1>3, <1>4, <1>5, <1>6 DEF Next, CallerStep, SaveStep

LEMMA IInvInvariant == Spec => []IInv
<1>1. Init => StoragesInv
  BY DEF Init, StoragesInv, StorageInv, Kept
<1>2. TypeInv /\ PipesInv /\ CallersInv /\ StoragesInv => IInv
  BY DEF IInv, PipesInv, CallersInv, StoragesInv
<1> QED
  BY <1>1, <1>2, TypeInit, TypeStep, PipeInit, PipeStep, CallersStep, StorageStep, PTL DEF Spec

\* A row stands for an object that holds the whole dump and the trailer, however
\* many calls run, fail and die beside it, if none of them shares its name.
THEOREM RecordedComplete == Spec => []RecordedIsComplete
<1>1. IInv => RecordedIsComplete
  BY DEF IInv, TypeInv, TypeOK, CallerInv, StorageInv, Kept, RecordedIsComplete, FullObject,
    Object
<1> QED BY <1>1, IInvInvariant, PTL

----------------------------------------------------------------------------
(* Announcements.                                                          *)

\* What RunBackup itself has told of is a call that failed without a row.
NotifiedInv ==
  \A r \in Runs : ~(notified[r] \subseteq {"job"}) => caller[r] = "failed" /\ r \notin rows

LEMMA NotifiedStep ==
  TypeInv /\ CallersInv /\ NotifiedInv /\ [Next]_vars => NotifiedInv'
<1> SUFFICES ASSUME TypeInv, CallersInv, NotifiedInv, [Next]_vars PROVE NotifiedInv'
  OBVIOUS
<1>1. CASE Tick \/ UNCHANGED vars
  BY <1>1 DEF NotifiedInv, Tick, vars, dumperVars, saveVars, clockVars
<1>2. ASSUME NEW r \in Runs, Begin(r) \/ DumperStep(r) PROVE NotifiedInv'
  BY <1>2 DEF NotifiedInv, TypeInv, TypeOK, Begin, DumperStep, DumpBlock, DumpReturns,
    CloseGzip, ClosePipe, dumperVars, saveVars, clockVars
<1>3. ASSUME NEW r \in Runs, SaveOpens(r) \/ SaveReads(r) \/ SaveReturns(r) PROVE NotifiedInv'
  BY <1>3 DEF NotifiedInv, TypeInv, TypeOK, SaveOpens, SaveReads, SaveReturns, AtEOF,
    dumperVars, saveVars, clockVars
<1>4. ASSUME NEW r \in Runs, SaveFails(r) \/ CheckDump(r) PROVE NotifiedInv'
  <2>1. r \notin rows /\ rows' = rows
    BY <1>4 DEF CallersInv, CallerInv, SaveFails, CheckDump
  <2>2. caller[r] # "failed" /\ (notified' = notified \/ caller'[r] = "failed")
    BY <1>4 DEF SaveFails, CheckDump, TypeInv, TypeOK
  <2>3. \A x \in Runs \ {r} : caller'[x] = caller[x] /\ notified'[x] = notified[x]
    BY <1>4 DEF SaveFails, CheckDump, Notify, TypeInv, TypeOK
  <2> QED BY <2>1, <2>2, <2>3 DEF NotifiedInv
<1>5. ASSUME NEW r \in Runs, Record(r) \/ RecordFails(r) \/ Crash(r) PROVE NotifiedInv'
  <2>1. notified[r] \subseteq {"job"}
    BY <1>5 DEF NotifiedInv, Record, RecordFails, Crash, Active
  <2>2. notified'[r] \subseteq {"job"}
    BY <1>5, <2>1 DEF Record, RecordFails, Crash, Notify, TypeInv, TypeOK
  <2>3. \A x \in Runs \ {r} :
          /\ caller'[x] = caller[x] /\ (x \in rows' => x \in rows)
          /\ notified'[x] = notified[x]
    BY <1>5 DEF TypeInv, TypeOK, Record, RecordFails, Crash, Notify
  <2> QED BY <2>2, <2>3 DEF NotifiedInv
<1> QED
  BY <1>1, <1>2, <1>3, <1>4, <1>5 DEF Next, CallerStep, SaveStep

\* Of a listed backup the dump has not failed, and nobody but the job of a schedule,
\* when the INSERT's answer was lost, has announced that it did: the row is written
\* last, after all that RunBackup itself tells of, and at most once.
THEOREM FailedNotListed == Spec => []FailedIsNotListed
<1>1. Init => NotifiedInv
  BY DEF Init, NotifiedInv
<1>2. IInv => TypeInv /\ CallersInv
  BY DEF IInv, CallersInv
<1>3. CallersInv /\ TypeInv /\ NotifiedInv => FailedIsNotListed
  BY DEF CallersInv, CallerInv, TypeInv, TypeOK, NotifiedInv, FailedIsNotListed
<1> QED BY <1>1, <1>2, <1>3, NotifiedStep, IInvInvariant, PTL DEF Spec

----------------------------------------------------------------------------
(* Progress.                                                               *)

\* The dumper is there from when RunBackup begins until it or the process ends.
AliveInv ==
  \A r \in Runs :
    /\ caller[r] \in {"opening", "saving"} =>
         dumper[r] \in {"dumping", "closeGzip", "closePipe", "done"}
    /\ caller[r] = "dead" => dumper[r] = "dead"

LEMMA AliveInit == Init => AliveInv
BY DEF Init, AliveInv

LEMMA AliveStep == TypeInv /\ AliveInv /\ [Next]_vars => AliveInv'
<1> SUFFICES ASSUME TypeInv, AliveInv, [Next]_vars PROVE AliveInv'
  OBVIOUS
<1> USE DEF TypeInv, TypeOK, AliveInv
<1>1. CASE Tick \/ UNCHANGED vars
  BY <1>1 DEF Tick, vars, dumperVars
<1>2. ASSUME NEW r \in Runs, Begin(r) PROVE AliveInv'
  BY <1>2 DEF Begin
<1>3. ASSUME NEW r \in Runs, DumperStep(r) PROVE AliveInv'
  BY <1>3 DEF DumperStep, DumpBlock, DumpReturns, CloseGzip, ClosePipe, Unblocked
<1>4. ASSUME NEW r \in Runs, CallerStep(r) PROVE AliveInv'
  <2>1. CASE SaveOpens(r) \/ SaveReads(r)
    BY <2>1 DEF SaveOpens, SaveReads, dumperVars
  <2>2. CASE SaveReturns(r) \/ SaveFails(r) \/ CheckDump(r)
    BY <2>2 DEF SaveReturns, SaveFails, CheckDump, dumperVars
  <2>3. CASE Record(r) \/ RecordFails(r)
    BY <2>3 DEF Record, RecordFails, dumperVars
  <2> QED BY <1>4, <2>1, <2>2, <2>3 DEF CallerStep, SaveStep
<1>5. ASSUME NEW r \in Runs, Crash(r) PROVE AliveInv'
  BY <1>5 DEF Crash
<1> QED BY <1>1, <1>2, <1>3, <1>4, <1>5 DEF Next

\* Save always waits for a dumper that can go on, and a dumper waits for ever only
\* when Save has failed.
THEOREM NobodyStuck == Spec => []NobodyIsStuck
<1>1. Spec => [](PipesInv /\ CallersInv /\ AliveInv)
  BY PipesInvariant, TypeInit, TypeStep, AliveInit, AliveStep, PTL DEF Spec
<1>2. TypeInv /\ PipesInv /\ CallersInv /\ AliveInv => NobodyIsStuck
  <2> SUFFICES ASSUME TypeInv, PipesInv, CallersInv, AliveInv, NEW r \in Runs,
                      pipe[r] # "empty", dumper[r] # "dead"
               PROVE  caller[r] \in {"opening", "saving", "failed"}
    BY DEF NobodyIsStuck, AliveInv
  <2>1. caller[r] \notin {"idle", "dead"}
    BY DEF PipesInv, PipeInv, AliveInv
  <2>2. caller[r] \notin {"check", "record", "ok"}
    BY DEF PipesInv, PipeInv, CallersInv, CallerInv
  <2> QED BY <2>1, <2>2 DEF TypeInv, TypeOK, CallerStates
<1> QED BY <1>1, <1>2, TypeInit, TypeStep, PTL DEF Spec

\* The work of a call is a natural number.
LEMMA WorkType ==
  ASSUME TypeInv, NEW r \in Runs
  PROVE  Work(r) \in Nat
<1>1. DumpLen[r] - sent[r] \in Nat
  BY RunAssumption DEF TypeInv, TypeOK
<1> QED BY <1>1 DEF Work, DumperWork, CallerWork

LEMMA WorkSame ==
  ASSUME NEW r \in Runs, State(r)' = State(r)
  PROVE  Work(r)' = Work(r)
BY DEF State, Work, DumperWork, CallerWork

\* The steps of call x, its goroutines' and its death, on its own work.
LEMMA DumperWorks ==
  ASSUME TypeInv, NEW r \in Runs, DumperStep(r)
  PROVE  Work(r)' < Work(r)
<1> DEFINE todo == DumpLen[r] - sent[r]
<1>1. todo \in Nat /\ sent[r] \in Nat /\ DumpLen[r] \in Nat
  BY RunAssumption DEF TypeInv, TypeOK
<1>2. caller'[r] = caller[r] /\ pipe[r] = "empty" /\ CallerWork(caller[r]) \in Nat
  BY DEF DumperStep, DumpBlock, DumpReturns, CloseGzip, ClosePipe, Unblocked, CallerWork
<1> USE DEF TypeInv, TypeOK, Unblocked
<1>3. CASE DumpBlock(r)
  <2>1. sent'[r] = sent[r] + 1 /\ dumper'[r] = dumper[r] /\ pipe'[r] = "block"
    BY <1>3 DEF DumpBlock
  <2>2. 2 * (DumpLen[r] - sent'[r]) = 2 * todo - 2
    BY <1>1, <2>1
  <2>3. DumperWork(dumper[r]) \in Nat
    BY DEF DumperWork
  <2> QED BY <1>1, <1>2, <2>1, <2>2, <2>3 DEF Work
<1>4. CASE DumpReturns(r)
  <2>1. dumper[r] = "dumping" /\ dumper'[r] = "closeGzip" /\ UNCHANGED <<sent, pipe>>
    BY <1>4 DEF DumpReturns
  <2> QED BY <1>1, <1>2, <2>1 DEF Work, DumperWork
<1>5. CASE CloseGzip(r)
  <2>1. dumper[r] = "closeGzip" /\ dumper'[r] = "closePipe" /\ pipe'[r] = "end" /\ sent' = sent
    BY <1>5 DEF CloseGzip
  <2> QED BY <1>1, <1>2, <2>1 DEF Work, DumperWork
<1>6. CASE ClosePipe(r)
  <2>1. dumper[r] = "closePipe" /\ dumper'[r] = "done" /\ UNCHANGED <<sent, pipe>>
    BY <1>6 DEF ClosePipe
  <2> QED BY <1>1, <1>2, <2>1 DEF Work, DumperWork
<1> QED BY <1>3, <1>4, <1>5, <1>6 DEF DumperStep

LEMMA CallerWorks ==
  ASSUME TypeInv, NEW r \in Runs, CallerStep(r) \/ Crash(r)
  PROVE  Work(r)' < Work(r)
<1> DEFINE todo == DumpLen[r] - sent[r]
<1>0. todo \in Nat
  BY RunAssumption DEF TypeInv, TypeOK
<1>1. todo \in Nat /\ sent' = sent
  BY <1>0 DEF CallerStep, SaveStep, SaveOpens, SaveReads, SaveReturns,
    SaveFails, CheckDump, Record, RecordFails, Crash, dumperVars
<1>2. DumperWork(dumper[r]) \in Nat /\ CallerWork(caller[r]) \in Nat
  BY DEF DumperWork, CallerWork
<1> USE DEF TypeInv, TypeOK, dumperVars
<1>3. CASE SaveReads(r)
  <2>1. pipe[r] # "empty" /\ pipe'[r] = "empty" /\ UNCHANGED <<caller, dumper>>
    BY <1>3 DEF SaveReads
  <2> QED BY <1>1, <1>2, <2>1 DEF Work
<1>4. CASE SaveOpens(r) \/ SaveReturns(r) \/ SaveFails(r) \/ CheckDump(r) \/ Record(r)
           \/ RecordFails(r)
  <2>1. UNCHANGED <<dumper, pipe>>
    BY <1>4 DEF SaveOpens, SaveReturns, SaveFails, CheckDump, Record, RecordFails
  <2>2. \E from, to \in CallerStates :
          /\ caller[r] = from /\ caller'[r] = to
          /\ \/ from = "opening" /\ to = "saving"
             \/ from = "saving" /\ to = "check"
             \/ from = "check" /\ to = "record"
             \/ from \in Active /\ to \in {"ok", "failed"}
    BY <1>4 DEF SaveOpens, SaveReturns, AtEOF, SaveFails, CheckDump, Record, RecordFails,
      CallerStates, Active
  <2>3. CallerWork(caller'[r]) < CallerWork(caller[r])
    BY <2>2 DEF CallerWork, Active
  <2>4. CallerWork(caller'[r]) \in Nat
    BY DEF CallerWork
  <2> QED BY <1>1, <1>2, <2>1, <2>3, <2>4 DEF Work
<1>5. CASE Crash(r)
  <2>1. caller[r] \in Active /\ caller'[r] = "dead" /\ dumper'[r] = "dead" /\ pipe' = pipe
    BY <1>5 DEF Crash
  <2>2. CallerWork(caller'[r]) < CallerWork(caller[r]) /\ CallerWork(caller'[r]) = 0
    BY <2>1 DEF Active, CallerWork
  <2>3. DumperWork(dumper'[r]) = 0
    BY <2>1 DEF DumperWork
  <2> QED BY <1>1, <1>2, <2>1, <2>2, <2>3 DEF Work
<1> QED BY <1>3, <1>4, <1>5 DEF CallerStep, SaveStep

LEMMA OtherStateStays ==
  ASSUME TypeInv, NEW r \in Runs, NEW x \in Runs \ {r},
         Begin(x) \/ DumperStep(x) \/ CallerStep(x) \/ Crash(x)
  PROVE  State(r)' = State(r)
<1> USE DEF TypeInv, TypeOK, State
<1>1. CASE Begin(x)
  BY <1>1 DEF Begin, saveVars
<1>2. CASE DumperStep(x)
  BY <1>2 DEF DumperStep, DumpBlock, DumpReturns, CloseGzip, ClosePipe, saveVars
<1>3. CASE SaveStep(x)
  BY <1>3 DEF SaveStep, SaveOpens, SaveReads, SaveReturns, SaveFails, dumperVars, saveVars
<1>4. CASE CheckDump(x) \/ Record(x) \/ RecordFails(x) \/ Crash(x)
  BY <1>4 DEF CheckDump, Record, RecordFails, Crash, dumperVars, saveVars
<1> QED BY <1>1, <1>2, <1>3, <1>4 DEF CallerStep

\* Every step of a call leaves it less to do, and no step of another call more: a
\* call of RunBackup, which has 2 * DumpLen[r] + 8 to do when it has begun, takes no
\* more steps than that.
THEOREM WorkDecreases == Spec => WorkRunsOut /\ [](\A r \in Runs : Work(r) \in Nat)
<1>1. TypeInv /\ [Next]_vars =>
        [\A r \in Runs : Started(r) =>
           Work(r)' < Work(r) \/ (Work(r)' = Work(r) /\ State(r)' = State(r))]_vars
  <2> SUFFICES ASSUME TypeInv, Next, NEW r \in Runs, Started(r)
               PROVE  Work(r)' < Work(r) \/ (Work(r)' = Work(r) /\ State(r)' = State(r))
    OBVIOUS
  <2> SUFFICES ASSUME State(r)' # State(r) PROVE Work(r)' < Work(r)
    BY WorkSame
  <2>1. ~Tick /\ ~Begin(r)
    BY DEF Tick, Begin, dumperVars, saveVars, State, Started
  <2>2. ASSUME NEW x \in Runs \ {r}, Begin(x) \/ DumperStep(x) \/ CallerStep(x) \/ Crash(x)
        PROVE  FALSE
    BY <2>2, OtherStateStays
  <2>3. DumperStep(r) \/ CallerStep(r) \/ Crash(r)
    BY <2>1, <2>2 DEF Next
  <2> QED BY <2>3, DumperWorks, CallerWorks
<1>2. TypeInv => \A r \in Runs : Work(r) \in Nat
  BY WorkType
<1> QED BY <1>1, <1>2, TypeInit, TypeStep, PTL DEF Spec, WorkRunsOut

============================================================================
