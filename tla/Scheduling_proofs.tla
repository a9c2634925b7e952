--------------------------- MODULE Scheduling_proofs ---------------------------
(***************************************************************************)
(* Proofs about Scheduling, for any schedules, rows, handlers and cron     *)
(* entries: its type invariant, that the map leads to live entries, that   *)
(* cron runs what is stored for every schedule left undisturbed, and that  *)
(* a deleted schedule is not stored again.                                 *)
(*                                                                         *)
(* RecordedEntryIsLive rests on LiveInv: the numbers of the entries tell   *)
(* the one that a handler has just made from those that others remove.     *)
(* UndisturbedInSync rests on SyncInv, which says how far a row, its entry *)
(* and the map are apart at each step of the only handler at work on them. *)
(***************************************************************************)
EXTENDS Scheduling, TLAPS

----------------------------------------------------------------------------
(* The inductive invariant.                                                *)

\* What a request is about, by the time it has got where it is.
RequestInv(h) ==
  /\ req[h].pc # "idle" =>
       /\ up
       /\ req[h].op # "none"
       /\ req[h].op = "delete" \/ req[h].spec \in Specs
  /\ req[h].pc \in {"load", "update", "add", "addCron", "addMap"} => req[h].op # "delete"

RowInv == \A id \in Ids \ used : table[id] = None

Holding(h) == req[h].pc \in {"removeCron", "removeMap", "addMap"}

\* An entry that waits to be put into the map is alive and known to nobody else.
LiveInv(h) ==
  /\ Holding(h) => req[h].entry <= last[req[h].id]
  /\ At(h, "addMap") =>
       /\ req[h].entry # 0
       /\ \E e \in entries[req[h].id] : e.n = req[h].entry
       /\ entryOf[req[h].id] # req[h].entry
       /\ \A g \in Serving(req[h].id) \ {h} : Holding(g) => req[g].entry # req[h].entry

Bare(id)   == entryOf[id] = 0 /\ entries[id] = {}
Linked(id) == entryOf[id] # 0 /\ \E s \in Specs : entries[id] = {[n |-> entryOf[id], spec |-> s]}

\* How the row of request h, its entry and the map stand to each other when
\* nobody disturbs it.
Stage(h) ==
  LET id == req[h].id IN
  /\ req[h].pc \in {"load", "add", "addCron"} => Bare(id) /\ table[id] = req[h].spec
  /\ At(h, "addMap") =>
       /\ entryOf[id] = 0
       /\ entries[id] = {[n |-> req[h].entry, spec |-> req[h].spec]}
       /\ table[id] = req[h].spec
       /\ Parses(CronFields[table[id]])
  /\ At(h, "update") => Bare(id)
  /\ At(h, "remove") => Bare(id) \/ Linked(id)
  /\ At(h, "removeCron") => Linked(id) /\ req[h].entry = entryOf[id]
  /\ At(h, "removeMap") => entries[id] = {}
  /\ req[h].pc \in {"remove", "removeCron", "removeMap", "update"} =>
       (table[id] = None <=> req[h].op = "delete")

SyncInv(id) ==
  up /\ id \notin disturbed =>
    /\ Serving(id) = {} => Synced(id)
    /\ \A h \in Serving(id) : Serving(id) = {h} /\ Stage(h)

CronInv == \A id \in Ids : entryOf[id] <= last[id] /\ \A e \in entries[id] : e.n <= last[id]

IInv ==
  /\ TypeOK /\ RowInv /\ CronInv
  /\ \A h \in Handlers : RequestInv(h) /\ LiveInv(h)
  /\ RecordedEntryIsLive
  /\ \A id \in Ids : SyncInv(id)

----------------------------------------------------------------------------
(* Types.                                                                  *)

\* Requests keep their type, and are about ids that were handed out.
RequestsType(r, ids) ==
  /\ r \in [Handlers -> Request]
  /\ \A h \in Handlers : r[h].pc # "idle" => r[h].id \in ids

LEMMA ReplyType ==
  ASSUME TypeOK, NEW h \in Handlers, Reply(h)
  PROVE  RequestsType(req', used)
<1>1. NoRequest \in Request
  BY DEF NoRequest, Request, Ops, PCs
<1> QED BY <1>1 DEF TypeOK, RequestsType, Reply, NoRequest

LEMMA GotoType ==
  ASSUME TypeOK, NEW h \in Handlers, req[h].pc # "idle", NEW pc \in PCs, Goto(h, pc)
  PROVE  RequestsType(req', used)
<1>1. \A r \in Request : [r EXCEPT !.pc = pc] \in Request
  BY DEF Request
<1>2. req' = [req EXCEPT ![h] = [req[h] EXCEPT !.pc = pc]]
  BY DEF Goto, TypeOK
<1>3. req' \in [Handlers -> Request]
  BY <1>1, <1>2 DEF TypeOK
<1>4. req'[h].id = req[h].id /\ \A g \in Handlers \ {h} : req'[g] = req[g]
  BY <1>2 DEF TypeOK, Request
<1> QED BY <1>3, <1>4 DEF TypeOK, RequestsType

LEMMA AcceptType ==
  ASSUME TypeOK, NEW h \in Handlers, NEW op \in Ops, NEW pc \in PCs, NEW id \in Ids,
         NEW spec \in Specs \union {None}, Accept(h, op, pc, id, spec)
  PROVE  RequestsType(req', used \union {id})
<1>1. [op |-> op, pc |-> pc, id |-> id, spec |-> spec, entry |-> 0] \in Request
  BY DEF Request
<1> QED BY <1>1 DEF TypeOK, RequestsType, Accept

\* A handler that goes on with a row or an entry it has found.
LEMMA FoundType ==
  ASSUME TypeOK, NEW h \in Handlers, req[h].pc # "idle", NEW pc \in PCs,
         \/ \E s \in Specs : req' = [req EXCEPT ![h].pc = pc, ![h].spec = s]
         \/ \E n \in Nat : req' = [req EXCEPT ![h].pc = pc, ![h].entry = n]
  PROVE  RequestsType(req', used)
<1>1. ASSUME NEW s \in Specs, req' = [req EXCEPT ![h].pc = pc, ![h].spec = s]
      PROVE  RequestsType(req', used)
  <2>1. \A r \in Request : /\ [r EXCEPT !.pc = pc, !.spec = s] \in Request
                           /\ [r EXCEPT !.pc = pc, !.spec = s].id = r.id
    BY DEF Request
  <2>2. req' = [req EXCEPT ![h] = [req[h] EXCEPT !.pc = pc, !.spec = s]]
    BY <1>1 DEF TypeOK
  <2>3. req'[h].id = req[h].id /\ \A g \in Handlers \ {h} : req'[g] = req[g]
    BY <2>1, <2>2 DEF TypeOK
  <2> QED BY <2>1, <2>2, <2>3 DEF TypeOK, RequestsType
<1>2. ASSUME NEW n \in Nat, req' = [req EXCEPT ![h].pc = pc, ![h].entry = n]
      PROVE  RequestsType(req', used)
  <2>1. \A r \in Request : /\ [r EXCEPT !.pc = pc, !.entry = n] \in Request
                           /\ [r EXCEPT !.pc = pc, !.entry = n].id = r.id
    BY DEF Request
  <2>2. req' = [req EXCEPT ![h] = [req[h] EXCEPT !.pc = pc, !.entry = n]]
    BY <1>2 DEF TypeOK
  <2>3. req'[h].id = req[h].id /\ \A g \in Handlers \ {h} : req'[g] = req[g]
    BY <2>1, <2>2 DEF TypeOK
  <2> QED BY <2>1, <2>2, <2>3 DEF TypeOK, RequestsType
<1> QED BY <1>1, <1>2

\* What a handler has in hand.
LEMMA InHand ==
  ASSUME IInv, NEW h \in Handlers, req[h].pc # "idle"
  PROVE  /\ up /\ req[h].id \in used /\ req[h].id \in Ids
         /\ req[h].op # "delete" => req[h].spec \in Specs
         /\ req[h].op \in {"create", "update", "delete"}
         /\ req[h].entry \in Nat /\ last[req[h].id] \in Nat /\ entryOf[req[h].id] \in Nat
<1>1. TypeOK /\ RequestInv(h)
  BY DEF IInv
<1>2. req[h].id \in used /\ req[h].id \in Ids
  BY <1>1 DEF TypeOK
<1>3. req[h].op \in Ops /\ req[h].entry \in Nat
  BY <1>1 DEF TypeOK, Request
<1> QED BY <1>1, <1>2, <1>3 DEF RequestInv, TypeOK, Ops

LEMMA TypeStep == IInv /\ [Next]_vars => TypeOK'
<1> SUFFICES ASSUME IInv, [Next]_vars PROVE TypeOK'
  OBVIOUS
<1>0. TypeOK
  BY DEF IInv
<1> USE SchedulingAssumption
<1>1. CASE StartController
  <2>1. \A id \in Ids : table[id] # None => [n |-> 1, spec |-> table[id]] \in Entry
    BY <1>0 DEF TypeOK, Entry
  <2>2. PICK listed \in BOOLEAN :
          LET Loads(id) == listed /\ table[id] # None /\ Parses(CronFields[table[id]])
          IN  /\ entries' = [id \in Ids |-> IF Loads(id)
                                           THEN {[n |-> 1, spec |-> table[id]]}
                                           ELSE {}]
              /\ last' = [id \in Ids |-> IF Loads(id) THEN 1 ELSE 0]
              /\ entryOf' = [id \in Ids |-> IF Loads(id) THEN 1 ELSE 0]
              /\ disturbed' = IF listed THEN {} ELSE Ids
    BY <1>1 DEF StartController
  <2>3. entries' \in [Ids -> SUBSET Entry]
    BY <2>1, <2>2
  <2>4. last' \in [Ids -> Nat] /\ entryOf' \in [Ids -> Nat] /\ disturbed' \subseteq Ids
    BY <2>2
  <2> QED BY <1>0, <1>1, <2>3, <2>4 DEF StartController, TypeOK, Parses
<1>2. ASSUME NEW why \in {"killed", "race", "panic"}, Stop(why) PROVE TypeOK'
  <2>1. NoRequest \in Request /\ NoRequest.pc = "idle"
    BY DEF NoRequest, Request, Ops, PCs
  <2> QED BY <1>0, <1>2, <2>1 DEF Stop, TypeOK
<1>3. ASSUME NEW id \in Ids, Fire(id) PROVE TypeOK'
  BY <1>0, <1>3 DEF Fire, TypeOK, cronVars, Entry
<1>4. ASSUME NEW j \in jobs, JobEnds(j) PROVE TypeOK'
  BY <1>0, <1>4 DEF JobEnds, TypeOK, cronVars
<1>5. ASSUME NEW h \in Handlers, CreateInsert(h) PROVE TypeOK'
  <2>1. PICK id \in Ids \ used : \E s \in Specs :
          /\ table' = [table EXCEPT ![id] = s]
          /\ used' = used \union {id}
          /\ Accept(h, "create", "load", id, s)
    BY <1>5 DEF CreateInsert
  <2>2. PICK s \in Specs :
          /\ table' = [table EXCEPT ![id] = s]
          /\ used' = used \union {id}
          /\ Accept(h, "create", "load", id, s)
    BY <2>1
  <2>3. RequestsType(req', used')
    BY <1>0, <2>2, AcceptType DEF Ops, PCs
  <2> QED BY <1>0, <1>5, <2>2, <2>3 DEF CreateInsert, Unchanging, TypeOK, RequestsType, cronVars
<1>6. ASSUME NEW h \in Handlers, UpdateGet(h) \/ DeleteRow(h) PROVE TypeOK'
  <2>1. RequestsType(req', used)
    <3>1. PICK id \in used, op \in Ops, pc \in PCs, s \in Specs \union {None} :
            Accept(h, op, pc, id, s)
      BY <1>6 DEF UpdateGet, DeleteRow, Ops, PCs
    <3>2. id \in Ids /\ used \union {id} = used
      BY <1>0 DEF TypeOK
    <3> QED BY <1>0, <3>1, <3>2, AcceptType
  <2>2. table' \in [Ids -> Specs \union {None}] /\ disturbed' \subseteq Ids
    BY <1>0, <1>6 DEF UpdateGet, DeleteRow, Overlap, TypeOK
  <2> QED BY <1>0, <1>6, <2>1, <2>2 DEF UpdateGet, DeleteRow, Unchanging, TypeOK, RequestsType, cronVars
<1>7. CASE CliAdd \/ CliRemove \/ \E h \in Handlers : CreateInsertFails(h) \/ DeleteRowFails(h)
  BY <1>0, <1>7 DEF CliAdd, CliRemove, CreateInsertFails, DeleteRowFails, Unchanging, TypeOK, cronVars
<1>8. ASSUME NEW h \in Handlers, CreateLoad(h) \/ CreateLoadFails(h) PROVE TypeOK'
  <2>1. req[h].pc # "idle" /\ req[h].id \in Ids
    BY <1>0, <1>8, InHand DEF CreateLoad, CreateLoadFails, At
  <2>2. table[req[h].id] # None => table[req[h].id] \in Specs
    BY <1>0, <2>1 DEF TypeOK
  <2>3. RequestsType(req', used)
    BY <1>0, <1>8, <2>1, <2>2, FoundType, ReplyType DEF CreateLoad, CreateLoadFails, PCs
  <2> QED BY <1>0, <1>8, <2>1, <2>3 DEF CreateLoad, CreateLoadFails, Unchanging, TypeOK, RequestsType,
             cronVars
<1>9. ASSUME NEW h \in Handlers, UpdateRow(h) \/ UpdateRowFails(h) PROVE TypeOK'
  <2>1. req[h].pc # "idle" /\ req[h].id \in Ids /\ req[h].spec \in Specs
    BY <1>0, <1>9, InHand DEF UpdateRow, UpdateRowFails, At, IInv, RequestInv
  <2>2. RequestsType(req', used)
    BY <1>0, <1>9, <2>1, GotoType, ReplyType DEF UpdateRow, UpdateRowFails, PCs
  <2> QED BY <1>0, <1>9, <2>1, <2>2 DEF UpdateRow, UpdateRowFails, Unchanging, TypeOK, RequestsType,
             cronVars
<1>10. ASSUME NEW h \in Handlers, RemoveCheck(h) \/ RemoveCron(h) \/ RemoveMap(h) \/ AddCheck(h) \/ AddMap(h)
       PROVE  TypeOK'
  <2>1. req[h].pc # "idle"
    BY <1>10 DEF RemoveCheck, RemoveCron, RemoveMap, AddCheck, AddMap, At
  <2>2. req[h].id \in Ids /\ entryOf[req[h].id] \in Nat /\ req[h].entry \in Nat
    BY <2>1, InHand
  <2>3. RequestsType(req', used)
    BY <1>0, <1>10, <2>1, <2>2, FoundType, GotoType, ReplyType
       DEF RemoveCheck, RemoveCron, RemoveMap, AddCheck, AddMap, AfterRemove, PCs
  <2>4. entries' \in [Ids -> SUBSET Entry] /\ entryOf' \in [Ids -> Nat] /\ last' = last
    BY <1>0, <1>10, <2>2 DEF RemoveCheck, RemoveCron, RemoveMap, AddCheck, AddMap, TypeOK, cronVars
  <2> QED BY <1>0, <1>10, <2>3, <2>4 DEF RemoveCheck, RemoveCron, RemoveMap, AddCheck, AddMap,
             Unchanging, TypeOK, RequestsType
<1>11. ASSUME NEW h \in Handlers, AddCron(h) PROVE TypeOK'
  <2>1. /\ req[h].pc # "idle" /\ req[h].id \in Ids /\ req[h].spec \in Specs
        /\ last[req[h].id] + 1 \in Nat \ {0}
    BY <1>0, <1>11, InHand DEF AddCron, At, IInv, RequestInv
  <2>2. RequestsType(req', used)
    BY <1>0, <1>11, <2>1, FoundType, ReplyType DEF AddCron, PCs
  <2>3. [n |-> last[req[h].id] + 1, spec |-> req[h].spec] \in Entry
    BY <2>1 DEF Entry
  <2>4. entries' \in [Ids -> SUBSET Entry] /\ last' \in [Ids -> Nat]
    BY <1>0, <1>11, <2>1, <2>3 DEF AddCron, TypeOK, cronVars
  <2> QED BY <1>0, <1>11, <2>2, <2>4 DEF AddCron, Unchanging, TypeOK, RequestsType
<1>12. CASE UNCHANGED vars
  BY <1>0, <1>12 DEF vars, cronVars, TypeOK
<1> QED BY <1>1, <1>2, <1>3, <1>4, <1>5, <1>6, <1>7, <1>8, <1>9, <1>10, <1>11, <1>12
        DEF Next, Accepts, Proceeds, Kill, MapRace, FirePanics

----------------------------------------------------------------------------
(* Requests, rows and the numbers of entries.                              *)

Only(h) == \A g \in Handlers \ {h} : req'[g] = req[g]

Same(h) == req'[h].id = req[h].id /\ req'[h].op = req[h].op

\* A request that goes on stays one for the same schedule.
LEMMA GotoKeeps ==
  ASSUME TypeOK, NEW h \in Handlers, NEW pc, Goto(h, pc)
  PROVE  /\ Only(h) /\ Same(h) /\ req'[h].pc = pc
         /\ req'[h].spec = req[h].spec /\ req'[h].entry = req[h].entry
BY DEF Goto, TypeOK, Request, Only, Same

LEMMA ReplyKeeps ==
  ASSUME TypeOK, NEW h \in Handlers, Reply(h)
  PROVE  Only(h) /\ req'[h].pc = "idle"
BY DEF Reply, NoRequest, TypeOK, Only

LEMMA CreateLoadKeeps ==
  ASSUME TypeOK, NEW h \in Handlers, CreateLoad(h)
  PROVE  /\ Only(h) /\ Same(h) /\ req'[h].pc = "add"
         /\ req'[h].spec = table[req[h].id]
<1>1. PICK s : s = table[req[h].id]
  OBVIOUS
<1>2. \A r \in Request : LET f == [r EXCEPT !.pc = "add", !.spec = s] IN
        f.id = r.id /\ f.op = r.op /\ f.pc = "add" /\ f.spec = s
  BY DEF Request
<1>3. req' = [req EXCEPT ![h].pc = "add", ![h].spec = s]
  BY <1>1 DEF CreateLoad
<1>4. req'[h] = [req[h] EXCEPT !.pc = "add", !.spec = s] /\ Only(h)
  BY <1>3 DEF TypeOK, Only
<1> QED BY <1>1, <1>2, <1>4 DEF TypeOK, Same

LEMMA RemoveCheckKeeps ==
  ASSUME TypeOK, NEW h \in Handlers, RemoveCheck(h), entryOf[req[h].id] # 0
  PROVE  /\ Only(h) /\ Same(h) /\ req'[h].pc = "removeCron" /\ req'[h].spec = req[h].spec
         /\ req'[h].entry = entryOf[req[h].id]
<1>1. PICK n : n = entryOf[req[h].id]
  OBVIOUS
<1>2. \A r \in Request : LET f == [r EXCEPT !.pc = "removeCron", !.entry = n] IN
        f.id = r.id /\ f.op = r.op /\ f.spec = r.spec /\ f.pc = "removeCron" /\ f.entry = n
  BY DEF Request
<1>3. req' = [req EXCEPT ![h].pc = "removeCron", ![h].entry = n]
  BY <1>1 DEF RemoveCheck
<1>4. req'[h] = [req[h] EXCEPT !.pc = "removeCron", !.entry = n] /\ Only(h)
  BY <1>3 DEF TypeOK, Only
<1> QED BY <1>1, <1>2, <1>4 DEF TypeOK, Same

LEMMA AddCronKeeps ==
  ASSUME TypeOK, NEW h \in Handlers, AddCron(h), Parses(CronFields[req[h].spec])
  PROVE  /\ Only(h) /\ Same(h) /\ req'[h].pc = "addMap" /\ req'[h].spec = req[h].spec
         /\ req'[h].entry = last[req[h].id] + 1
<1>1. PICK n : n = last[req[h].id] + 1
  OBVIOUS
<1>2. \A r \in Request : LET f == [r EXCEPT !.pc = "addMap", !.entry = n] IN
        f.id = r.id /\ f.op = r.op /\ f.spec = r.spec /\ f.pc = "addMap" /\ f.entry = n
  BY DEF Request
<1>3. req' = [req EXCEPT ![h].pc = "addMap", ![h].entry = n]
  BY <1>1 DEF AddCron
<1>4. req'[h] = [req[h] EXCEPT !.pc = "addMap", !.entry = n] /\ Only(h)
  BY <1>3 DEF TypeOK, Only
<1> QED BY <1>1, <1>2, <1>4 DEF TypeOK, Same

LEMMA AcceptKeeps ==
  ASSUME TypeOK, NEW h \in Handlers, NEW op, NEW pc, NEW id, NEW spec, Accept(h, op, pc, id, spec)
  PROVE  /\ Only(h)
         /\ req'[h].op = op /\ req'[h].pc = pc /\ req'[h].id = id
         /\ req'[h].spec = spec /\ req'[h].entry = 0
BY DEF Accept, TypeOK, Only

\* Nothing is at work in a controller that has stopped.
LEMMA StoppedStep ==
  ASSUME IInv, NEW why, Stop(why)
  PROVE  \A h \in Handlers : req'[h].pc = "idle"
BY DEF Stop, NoRequest

LEMMA DownIsIdle ==
  ASSUME IInv, ~up
  PROVE  \A h \in Handlers : req[h].pc = "idle"
BY DEF IInv, RequestInv

\* What a handler does once it is at work on a schedule.
LEMMA ProceedsKeeps ==
  ASSUME IInv, NEW h \in Handlers, Proceeds(h)
  PROVE  /\ Only(h) /\ Unchanging /\ used' = used
         /\ req[h].pc # "idle"
         /\ \/ req'[h].pc = "idle"
            \/ /\ req'[h].pc \in PCs /\ Same(h)
               /\ req'[h].spec = req[h].spec \/ req'[h].spec \in Specs
               /\ req'[h].pc = "update" => req[h].op # "delete"
               /\ req'[h].pc \in {"load", "add", "addCron", "addMap"} =>
                    req[h].pc \in {"load", "update", "add", "addCron", "addMap"}
<1>0. TypeOK
  BY DEF IInv
<1>1. CASE CreateLoad(h) \/ CreateLoadFails(h)
  <2>1. req[h].id \in Ids
    BY <1>1, InHand DEF CreateLoad, CreateLoadFails, At
  <2>2. table[req[h].id] # None => table[req[h].id] \in Specs
    BY <1>0, <2>1 DEF TypeOK
  <2>3. CASE CreateLoad(h)
    <3>1. Only(h) /\ Same(h) /\ req'[h].pc = "add" /\ req'[h].spec = table[req[h].id]
      BY <1>0, <2>3, CreateLoadKeeps
    <3> QED BY <2>2, <2>3, <3>1 DEF CreateLoad, At, PCs
  <2>4. CASE CreateLoadFails(h)
    BY <1>0, <2>4, ReplyKeeps DEF CreateLoadFails, At
  <2> QED BY <1>1, <2>3, <2>4
<1>2. CASE UpdateRow(h) \/ UpdateRowFails(h)
  BY <1>0, <1>2, GotoKeeps, ReplyKeeps DEF UpdateRow, UpdateRowFails, At, PCs
<1>3. CASE RemoveCheck(h) \/ RemoveMap(h)
  <2>1. CASE AfterRemove(h)
    BY <1>0, <1>3, <2>1, GotoKeeps, ReplyKeeps DEF RemoveCheck, RemoveMap, AfterRemove, At, PCs
  <2>2. CASE RemoveCheck(h) /\ entryOf[req[h].id] # 0
    BY <1>0, <2>2, RemoveCheckKeeps DEF RemoveCheck, At, PCs
  <2> QED BY <1>3, <2>1, <2>2 DEF RemoveCheck, RemoveMap
<1>4. CASE RemoveCron(h)
  BY <1>0, <1>4, GotoKeeps DEF RemoveCron, At, PCs
<1>5. CASE AddCheck(h) \/ AddMap(h)
  BY <1>0, <1>5, GotoKeeps, ReplyKeeps DEF AddCheck, AddMap, At, PCs
<1>6. CASE AddCron(h)
  <2>1. CASE Reply(h)
    BY <1>0, <1>6, <2>1, ReplyKeeps DEF AddCron, At
  <2>2. CASE Parses(CronFields[req[h].spec])
    BY <1>0, <1>6, <2>2, AddCronKeeps DEF AddCron, At, PCs
  <2> QED BY <1>6, <2>1, <2>2 DEF AddCron
<1> QED BY <1>1, <1>2, <1>3, <1>4, <1>5, <1>6 DEF Proceeds

LEMMA RequestStep == IInv /\ [Next]_vars => RowInv' /\ \A h \in Handlers : RequestInv(h)'
<1> SUFFICES ASSUME IInv, [Next]_vars
             PROVE  RowInv' /\ \A h \in Handlers : RequestInv(h)'
  OBVIOUS
<1>0. TypeOK /\ RowInv /\ \A h \in Handlers : RequestInv(h)
  BY DEF IInv
<1>1. CASE StartController
  BY <1>0, <1>1, DownIsIdle DEF StartController, RowInv, RequestInv
<1>2. ASSUME NEW why, Stop(why) PROVE RowInv' /\ \A h \in Handlers : RequestInv(h)'
  BY <1>0, <1>2, StoppedStep DEF Stop, RowInv, RequestInv
<1>3. CASE \/ \E id \in Ids : Fire(id)
           \/ \E j \in jobs : JobEnds(j)
           \/ UNCHANGED vars
  BY <1>0, <1>3 DEF Fire, JobEnds, vars, RowInv, RequestInv
<1>4. CASE CliAdd \/ CliRemove \/ \E h \in Handlers : CreateInsertFails(h) \/ DeleteRowFails(h)
  BY <1>0, <1>4 DEF CliAdd, CliRemove, CreateInsertFails, DeleteRowFails, Unchanging, RowInv,
     RequestInv, TypeOK
<1>5. ASSUME NEW h \in Handlers, CreateInsert(h)
      PROVE  RowInv' /\ \A g \in Handlers : RequestInv(g)'
  <2>1. PICK id \in Ids \ used : \E s \in Specs :
          /\ table' = [table EXCEPT ![id] = s]
          /\ used' = used \union {id}
          /\ Accept(h, "create", "load", id, s)
    BY <1>5 DEF CreateInsert
  <2>2. PICK s \in Specs :
          /\ table' = [table EXCEPT ![id] = s]
          /\ used' = used \union {id}
          /\ Accept(h, "create", "load", id, s)
    BY <2>1
  <2>3. RequestInv(h)' /\ \A g \in Handlers \ {h} : RequestInv(g)'
    BY <1>0, <1>5, <2>2, AcceptKeeps DEF CreateInsert, Unchanging, RequestInv, Only
  <2> QED BY <1>0, <2>2, <2>3 DEF RowInv, TypeOK
<1>6. ASSUME NEW h \in Handlers, UpdateGet(h) \/ DeleteRow(h)
      PROVE  RowInv' /\ \A g \in Handlers : RequestInv(g)'
  <2>1. RequestInv(h)' /\ \A g \in Handlers \ {h} : RequestInv(g)'
    BY <1>0, <1>6, AcceptKeeps DEF UpdateGet, DeleteRow, Unchanging, RequestInv, Only
  <2> QED BY <1>0, <1>6, <2>1 DEF UpdateGet, DeleteRow, RowInv, TypeOK
<1>7. ASSUME NEW h \in Handlers, Proceeds(h)
      PROVE  RowInv' /\ \A g \in Handlers : RequestInv(g)'
  <2>1. \A g \in Handlers \ {h} : RequestInv(g)'
    BY <1>0, <1>7, ProceedsKeeps DEF Only, RequestInv, Unchanging
  <2>2. RequestInv(h)'
    BY <1>0, <1>7, ProceedsKeeps, InHand DEF Same, RequestInv, Unchanging
  <2>3. RowInv'
    <3>1. req[h].id \in used
      BY <1>7, ProceedsKeeps, InHand
    <3> QED BY <1>0, <1>7, <3>1, ProceedsKeeps DEF Proceeds, CreateLoad, CreateLoadFails, UpdateRow,
            UpdateRowFails, RemoveCheck, RemoveCron, RemoveMap, AddCheck, AddCron, AddMap, RowInv, TypeOK
  <2> QED BY <2>1, <2>2, <2>3
<1> QED BY <1>1, <1>2, <1>3, <1>4, <1>5, <1>6, <1>7
        DEF Next, Accepts, Kill, MapRace, FirePanics

----------------------------------------------------------------------------
(* The map leads to live entries.                                          *)

EntriesInv == CronInv /\ RecordedEntryIsLive /\ \A h \in Handlers : LiveInv(h)

\* Steps that touch neither cron nor the map, nor a request that is about to.
LEMMA LiveElsewhere ==
  ASSUME IInv, UNCHANGED <<entries, last, entryOf>>,
         \A g \in Handlers : Holding(g)' \/ At(g, "removeMap") => req'[g] = req[g]
  PROVE  EntriesInv'
<1>1. CronInv'
  BY DEF IInv, CronInv
<1>2. RecordedEntryIsLive'
  BY DEF IInv, RecordedEntryIsLive, Serving, At
<1>3. ASSUME NEW h \in Handlers PROVE LiveInv(h)'
  <2>1. LiveInv(h)
    BY DEF IInv
  <2> QED BY <2>1 DEF LiveInv, Holding, At, Serving
<1> QED BY <1>1, <1>2, <1>3 DEF EntriesInv

\* The steps of handlers that do.
LEMMA RemoveCronLive ==
  ASSUME IInv, NEW h \in Handlers, RemoveCron(h)
  PROVE  EntriesInv'
<1> DEFINE id == req[h].id
<1>0. TypeOK /\ id \in Ids /\ req[h].pc = "removeCron" /\ LiveInv(h)
  BY InHand DEF IInv, RemoveCron, At
<1>1. Only(h) /\ Same(h) /\ req'[h].pc = "removeMap" /\ req'[h].entry = req[h].entry
  BY <1>0, GotoKeeps DEF RemoveCron
<1>2. /\ entries'[id] = {e \in entries[id] : e.n # req[h].entry}
      /\ \A x \in Ids \ {id} : entries'[x] = entries[x]
      /\ last' = last /\ entryOf' = entryOf
  BY <1>0 DEF RemoveCron, TypeOK
<1>3. CronInv'
  BY <1>0, <1>2 DEF IInv, CronInv
<1>4. RecordedEntryIsLive'
  <2>1. ASSUME NEW x \in Ids \ {id}, entryOf[x] # 0
        PROVE  \/ \E e \in entries'[x] : e.n = entryOf'[x]
               \/ \E g \in Serving(x)' : At(g, "removeMap")'
    BY <1>0, <1>1, <1>2, <2>1 DEF IInv, RecordedEntryIsLive, Serving, Only, At
  <2>2. h \in Serving(id)' /\ At(h, "removeMap")'
    <3>1. \A x : x = id => h \in Serving(x)'
      BY <1>1 DEF Serving, Same
    <3>2. id' = id
      BY <1>1 DEF Same
    <3> QED BY <1>1, <3>1, <3>2 DEF At, Serving
  <2> QED BY <1>1, <1>2, <2>1, <2>2 DEF RecordedEntryIsLive, Serving, Same, At
<1>5. LiveInv(h)'
  BY <1>0, <1>1, <1>2 DEF LiveInv, Holding, At, Same
<1>6. ASSUME NEW g \in Handlers \ {h} PROVE LiveInv(g)'
  <2>1. LiveInv(g) /\ req'[g] = req[g]
    BY <1>1 DEF IInv, Only
  <2>2. At(g, "addMap") => req[g].id \in Ids
    BY InHand DEF At
  <2>3. At(g, "addMap") /\ req[g].id = id => req[g].entry # req[h].entry
    BY <1>0, <2>1 DEF LiveInv, Serving, Holding
  <2>4. At(g, "addMap") => \E e \in entries'[req[g].id] : e.n = req[g].entry
    BY <1>2, <2>1, <2>2, <2>3 DEF LiveInv
  <2>5. At(g, "addMap") => \A k \in Serving(req[g].id)' \ {g} : Holding(k)' => req'[k].entry # req[g].entry
    BY <1>0, <1>1, <2>1 DEF LiveInv, Serving, Holding, Only, Same
  <2> QED BY <1>2, <2>1, <2>4, <2>5 DEF LiveInv, Holding, At, Serving
<1> QED BY <1>3, <1>4, <1>5, <1>6 DEF EntriesInv

LEMMA RemoveCheckLive ==
  ASSUME IInv, NEW h \in Handlers, RemoveCheck(h)
  PROVE  EntriesInv'
<1> DEFINE id == req[h].id
           n == entryOf[id]
<1>0. TypeOK /\ id \in Ids /\ req[h].pc = "remove"
  BY InHand DEF IInv, RemoveCheck, At
<1>1. UNCHANGED <<entries, last, entryOf>>
  BY DEF RemoveCheck, cronVars
<1>2. CASE n = 0
  <2>1. Only(h) /\ req'[h].pc \in {"idle", "update"}
    BY <1>0, <1>2, GotoKeeps, ReplyKeeps DEF RemoveCheck, AfterRemove
  <2> QED BY <1>0, <1>1, <2>1, LiveElsewhere DEF Only, Holding, At
<1>3. CASE n # 0
  <2>1. Only(h) /\ Same(h) /\ req'[h].pc = "removeCron" /\ req'[h].entry = n
    BY <1>0, <1>3, RemoveCheckKeeps
  <2>2. CronInv'
    BY <1>1 DEF IInv, CronInv
  <2>3. RecordedEntryIsLive'
    BY <1>0, <1>1, <2>1 DEF IInv, RecordedEntryIsLive, Serving, Only, At
  <2>4. LiveInv(h)'
    BY <1>0, <1>1, <2>1 DEF IInv, CronInv, LiveInv, Holding, At, Same
  <2>5. ASSUME NEW g \in Handlers \ {h} PROVE LiveInv(g)'
    <3>1. LiveInv(g) /\ req'[g] = req[g]
      BY <2>1 DEF IInv, Only
    <3>2. At(g, "addMap") => \A k \in Serving(req[g].id)' \ {g} : Holding(k)' => req'[k].entry # req[g].entry
      BY <1>0, <2>1, <3>1 DEF LiveInv, Serving, Holding, Only, Same
    <3> QED BY <1>1, <3>1, <3>2 DEF LiveInv, Holding, At, Serving
  <2> QED BY <2>2, <2>3, <2>4, <2>5 DEF EntriesInv
<1> QED BY <1>2, <1>3

LEMMA RemoveMapLive ==
  ASSUME IInv, NEW h \in Handlers, RemoveMap(h)
  PROVE  EntriesInv'
<1> DEFINE id == req[h].id
<1>0. TypeOK /\ id \in Ids /\ req[h].pc = "removeMap"
  BY InHand DEF IInv, RemoveMap, At
<1>1. Only(h) /\ req'[h].pc \in {"idle", "update"}
  BY <1>0, GotoKeeps, ReplyKeeps DEF RemoveMap, AfterRemove
<1>2. /\ entryOf'[id] = 0 /\ \A x \in Ids \ {id} : entryOf'[x] = entryOf[x]
      /\ last' = last /\ entries' = entries
  BY <1>0 DEF RemoveMap, cronVars, TypeOK
<1>3. CronInv'
  BY <1>0, <1>2 DEF IInv, CronInv, TypeOK
<1>4. RecordedEntryIsLive'
  <2>1. ASSUME NEW x \in Ids, entryOf'[x] # 0
        PROVE  \/ \E e \in entries'[x] : e.n = entryOf'[x]
               \/ \E g \in Serving(x)' : At(g, "removeMap")'
    BY <1>0, <1>1, <1>2, <2>1 DEF IInv, RecordedEntryIsLive, Serving, Only, At
  <2> QED BY <2>1 DEF RecordedEntryIsLive
<1>5. LiveInv(h)'
  BY <1>1 DEF LiveInv, Holding, At
<1>6. ASSUME NEW g \in Handlers \ {h} PROVE LiveInv(g)'
  <2>1. LiveInv(g) /\ req'[g] = req[g]
    BY <1>1 DEF IInv, Only
  <2>2. At(g, "addMap") => req[g].id \in Ids
    BY InHand DEF At
  <2>3. At(g, "addMap") => \A k \in Serving(req[g].id)' \ {g} : Holding(k)' => req'[k].entry # req[g].entry
    BY <1>1, <2>1 DEF LiveInv, Serving, Holding, Only
  <2> QED BY <1>2, <2>1, <2>2, <2>3 DEF LiveInv, Holding, At, Serving
<1> QED BY <1>3, <1>4, <1>5, <1>6 DEF EntriesInv

LEMMA AddCronLive ==
  ASSUME IInv, NEW h \in Handlers, AddCron(h)
  PROVE  EntriesInv'
<1> DEFINE id == req[h].id
           n == last[id] + 1
<1>0. TypeOK /\ id \in Ids /\ req[h].pc = "addCron" /\ last[id] \in Nat
  BY InHand DEF IInv, AddCron, At
<1>1. CASE ~Parses(CronFields[req[h].spec])
  <2>1. Only(h) /\ req'[h].pc = "idle"
    BY <1>0, <1>1, ReplyKeeps DEF AddCron
  <2> QED BY <1>0, <1>1, <2>1, LiveElsewhere DEF AddCron, cronVars, Only, Holding, At
<1>2. CASE Parses(CronFields[req[h].spec])
  <2>2. Only(h) /\ Same(h) /\ req'[h].pc = "addMap" /\ req'[h].entry = n
    BY <1>0, <1>2, AddCronKeeps
  <2>3. /\ entries'[id] = entries[id] \union {[n |-> n, spec |-> req[h].spec]}
        /\ last'[id] = n
        /\ \A x \in Ids \ {id} : entries'[x] = entries[x] /\ last'[x] = last[x]
        /\ entryOf' = entryOf
    BY <1>0, <1>2 DEF AddCron, TypeOK
  <2>4. \A x \in Ids : last[x] <= last'[x]
    BY <1>0, <2>3 DEF TypeOK
  <2>5. CronInv'
    <3>1. ASSUME NEW x \in Ids PROVE entryOf'[x] <= last'[x] /\ \A e \in entries'[x] : e.n <= last'[x]
      <4>1. CASE x # id
        BY <2>3, <4>1 DEF IInv, CronInv
      <4>2. CASE x = id
        <5>1. entryOf[x] \in Nat /\ entryOf[x] <= last[x] /\ \A e \in entries[x] : e.n \in Nat /\ e.n <= last[x]
          BY <1>0 DEF IInv, CronInv, TypeOK, Entry
        <5>2. entryOf'[x] <= last'[x]
          BY <1>0, <2>3, <4>2, <5>1
        <5>3. \A e \in entries'[x] : e.n = n \/ e \in entries[x]
          BY <2>3, <4>2
        <5>4. \A e \in entries'[x] : e.n <= last'[x]
          BY <1>0, <2>3, <4>2, <5>1, <5>3
        <5> QED BY <5>2, <5>4
      <4> QED BY <4>1, <4>2
    <3> QED BY <3>1 DEF CronInv
  <2>6. RecordedEntryIsLive'
    <3>1. \A x \in Ids : entries[x] \subseteq entries'[x]
      BY <2>3
    <3> QED BY <1>0, <2>2, <2>3, <3>1 DEF IInv, RecordedEntryIsLive, Serving, Only, At
  <2>7. ASSUME NEW g \in Handlers \ {h}, req[g].id = id, Holding(g) PROVE req[g].entry # n
    <3>1. req[g].entry <= last[id] /\ req[g].entry \in Nat
      BY <2>7, InHand DEF IInv, LiveInv, Holding
    <3> QED BY <1>0, <3>1
  <2>8. LiveInv(h)'
    <3>1. entryOf[id] # n
      <4>1. entryOf[id] <= last[id] /\ entryOf[id] \in Nat
        BY <1>0 DEF IInv, CronInv, TypeOK
      <4> QED BY <1>0, <4>1
    <3>2. \E e \in entries'[id] : e.n = n
      <4>1. [n |-> n, spec |-> req[h].spec].n = n
        OBVIOUS
      <4> QED BY <2>3, <4>1
    <3>3. \A g \in Serving(id)' \ {h} : Holding(g)' => req'[g].entry # n
      BY <2>2, <2>7 DEF Serving, Only, Holding, Same
    <3>4. n # 0 /\ n <= last'[id]
      BY <1>0, <2>3
    <3> QED BY <2>2, <2>3, <3>1, <3>2, <3>3, <3>4 DEF LiveInv, Holding, At, Same, Serving
  <2>9. ASSUME NEW g \in Handlers \ {h} PROVE LiveInv(g)'
    <3>1. LiveInv(g) /\ req'[g] = req[g]
      BY <2>2 DEF IInv, Only
    <3>2. Holding(g) => req[g].id \in Ids /\ req[g].entry \in Nat /\ req[g].entry <= last'[req[g].id]
      <4>1. Holding(g) => /\ req[g].id \in Ids /\ req[g].entry \in Nat
                          /\ last[req[g].id] \in Nat /\ req[g].entry <= last[req[g].id]
        BY <3>1, InHand DEF Holding, LiveInv
      <4>2. Holding(g) => last'[req[g].id] \in Nat /\ last[req[g].id] <= last'[req[g].id]
        BY <1>0, <2>3, <2>4, <4>1
      <4> QED BY <4>1, <4>2
    <3>3. At(g, "addMap") => \A k \in Serving(req[g].id)' \ {g} : Holding(k)' => req'[k].entry # req[g].entry
      BY <1>0, <2>2, <2>7, <3>1 DEF LiveInv, Serving, Holding, Only, Same, At
    <3>4. At(g, "addMap") => \E e \in entries'[req[g].id] : e.n = req[g].entry
      BY <2>3, <3>1, <3>2 DEF LiveInv, Holding, At
    <3> QED BY <2>3, <3>1, <3>2, <3>3, <3>4 DEF LiveInv, Holding, At, Serving
  <2> QED BY <2>5, <2>6, <2>8, <2>9 DEF EntriesInv
<1> QED BY <1>1, <1>2

LEMMA AddMapLive ==
  ASSUME IInv, NEW h \in Handlers, AddMap(h)
  PROVE  EntriesInv'
<1> DEFINE id == req[h].id
<1>0. TypeOK /\ id \in Ids /\ req[h].pc = "addMap" /\ LiveInv(h)
  BY InHand DEF IInv, AddMap, At
<1>1. Only(h) /\ req'[h].pc = "idle"
  BY <1>0, ReplyKeeps DEF AddMap
<1>2. /\ entryOf'[id] = req[h].entry /\ \A x \in Ids \ {id} : entryOf'[x] = entryOf[x]
      /\ last' = last /\ entries' = entries
  BY <1>0 DEF AddMap, cronVars, TypeOK
<1>3. CronInv'
  BY <1>0, <1>2 DEF IInv, CronInv, LiveInv, Holding
<1>4. RecordedEntryIsLive'
  <2>1. ASSUME NEW x \in Ids, entryOf'[x] # 0
        PROVE  \/ \E e \in entries'[x] : e.n = entryOf'[x]
               \/ \E g \in Serving(x)' : At(g, "removeMap")'
    BY <1>0, <1>1, <1>2, <2>1 DEF IInv, RecordedEntryIsLive, LiveInv, Serving, Only, At
  <2> QED BY <2>1 DEF RecordedEntryIsLive
<1>5. LiveInv(h)'
  BY <1>1 DEF LiveInv, Holding, At
<1>6. ASSUME NEW g \in Handlers \ {h} PROVE LiveInv(g)'
  <2>1. LiveInv(g) /\ req'[g] = req[g]
    BY <1>1 DEF IInv, Only
  <2>2. At(g, "addMap") => req[g].id \in Ids
    BY InHand DEF At
  <2>3. At(g, "addMap") => \A k \in Serving(req[g].id)' \ {g} : Holding(k)' => req'[k].entry # req[g].entry
    BY <1>1, <2>1 DEF LiveInv, Serving, Holding, Only
  <2>4. At(g, "addMap") => entryOf'[req[g].id] # req[g].entry
    BY <1>0, <1>2, <2>1, <2>2 DEF LiveInv, Serving, Holding, At
  <2> QED BY <1>2, <2>1, <2>2, <2>3, <2>4 DEF LiveInv, Holding, At, Serving
<1> QED BY <1>3, <1>4, <1>5, <1>6 DEF EntriesInv

LEMMA LiveStep == IInv /\ [Next]_vars => EntriesInv'
<1> SUFFICES ASSUME IInv, [Next]_vars PROVE EntriesInv'
  OBVIOUS
<1>0. TypeOK
  BY DEF IInv
<1>1. CASE StartController
  <2>1. PICK listed \in BOOLEAN :
          LET Loads(id) == listed /\ table[id] # None /\ Parses(CronFields[table[id]])
          IN  /\ entries' = [id \in Ids |-> IF Loads(id)
                                           THEN {[n |-> 1, spec |-> table[id]]}
                                           ELSE {}]
              /\ last' = [id \in Ids |-> IF Loads(id) THEN 1 ELSE 0]
              /\ entryOf' = [id \in Ids |-> IF Loads(id) THEN 1 ELSE 0]
              /\ disturbed' = IF listed THEN {} ELSE Ids
    BY <1>1 DEF StartController
  <2>2. \A h \in Handlers : req'[h].pc = "idle"
    BY <1>1, DownIsIdle DEF StartController
  <2>3. CronInv' /\ RecordedEntryIsLive'
    <3>1. \A x \in Ids : \/ entries'[x] = {} /\ last'[x] = 0 /\ entryOf'[x] = 0
                         \/ /\ entries'[x] = {[n |-> 1, spec |-> table[x]]}
                            /\ last'[x] = 1 /\ entryOf'[x] = 1
      BY <2>1
    <3>2. \A x : [n |-> 1, spec |-> table[x]].n = 1
      OBVIOUS
    <3>3. \A x \in Ids : entryOf'[x] = last'[x] /\ \A e \in entries'[x] : e.n = last'[x]
      BY <3>1, <3>2
    <3>4. \A x \in Ids : last'[x] \in {0, 1}
      BY <3>1
    <3>5. \A x \in Ids : entryOf'[x] # 0 => \E e \in entries'[x] : e.n = entryOf'[x]
      BY <3>1, <3>2
    <3>6. CronInv'
      BY <3>3, <3>4 DEF CronInv
    <3> QED BY <3>5, <3>6 DEF RecordedEntryIsLive
  <2> QED BY <2>2, <2>3 DEF EntriesInv, LiveInv, Holding, At
<1>2. ASSUME NEW why, Stop(why) PROVE EntriesInv'
  <2>1. CronInv' /\ RecordedEntryIsLive'
    <3>1. \A x \in Ids : entries'[x] = {} /\ last'[x] = 0 /\ entryOf'[x] = 0
      BY <1>2 DEF Stop
    <3> QED BY <3>1 DEF CronInv, RecordedEntryIsLive
  <2>2. \A h \in Handlers : LiveInv(h)'
    BY <1>2, StoppedStep DEF LiveInv, Holding, At
  <2> QED BY <2>1, <2>2 DEF EntriesInv
<1>3. CASE \/ \E id \in Ids : Fire(id)
           \/ \E j \in jobs : JobEnds(j)
           \/ CliAdd \/ CliRemove
           \/ \E h \in Handlers : CreateInsertFails(h) \/ DeleteRowFails(h)
           \/ UNCHANGED vars
  BY <1>3, LiveElsewhere DEF Fire, JobEnds, vars, CliAdd, CliRemove, CreateInsertFails,
     DeleteRowFails, Unchanging, cronVars
<1>4. ASSUME NEW h \in Handlers, CreateInsert(h) \/ UpdateGet(h) \/ DeleteRow(h) PROVE EntriesInv'
  <2>1. Only(h) /\ req[h].pc = "idle" /\ req'[h].pc \in {"load", "remove"}
    BY <1>0, <1>4, AcceptKeeps DEF CreateInsert, UpdateGet, DeleteRow, At
  <2>2. UNCHANGED <<entries, last, entryOf>>
    BY <1>4 DEF CreateInsert, UpdateGet, DeleteRow, cronVars
  <2> QED BY <2>1, <2>2, LiveElsewhere DEF Only, Holding, At
<1>5. ASSUME NEW h \in Handlers,
             CreateLoad(h) \/ CreateLoadFails(h) \/ UpdateRow(h) \/ UpdateRowFails(h) \/ AddCheck(h)
      PROVE  EntriesInv'
  <2>1. Only(h) /\ req[h].pc \in {"load", "update", "add"} /\ req'[h].pc \in {"idle", "add", "addCron"}
    <3>1. CASE CreateLoad(h)
      <4>1. Only(h) /\ req'[h].pc = "add"
        BY <1>0, <3>1, CreateLoadKeeps
      <4> QED BY <3>1, <4>1 DEF CreateLoad, At
    <3>2. CASE CreateLoadFails(h) \/ UpdateRow(h) \/ UpdateRowFails(h) \/ AddCheck(h)
      BY <1>0, <3>2, GotoKeeps, ReplyKeeps DEF CreateLoadFails, UpdateRow, UpdateRowFails, AddCheck, At
    <3> QED BY <1>5, <3>1, <3>2
  <2>2. UNCHANGED <<entries, last, entryOf>>
    BY <1>5 DEF CreateLoad, CreateLoadFails, UpdateRow, UpdateRowFails, AddCheck, cronVars
  <2> QED BY <2>1, <2>2, LiveElsewhere DEF Only, Holding, At
<1> QED BY <1>1, <1>2, <1>3, <1>4, <1>5, RemoveCheckLive, RemoveCronLive, RemoveMapLive, AddCronLive,
           AddMapLive DEF Next, Accepts, Proceeds, Kill, MapRace, FirePanics

----------------------------------------------------------------------------
(* Cron runs what is stored.                                               *)

Kept(x) == table'[x] = table[x] /\ entries'[x] = entries[x] /\ entryOf'[x] = entryOf[x]

\* Steps that have nothing to do with a schedule.
LEMMA Apart ==
  ASSUME IInv, NEW x \in Ids, up' => up, x \in disturbed => x \in disturbed', Kept(x),
         \A g \in Handlers : g \in Serving(x) \/ g \in Serving(x)' => req'[g] = req[g]
  PROVE  SyncInv(x)'
<1>1. Serving(x)' = Serving(x)
  BY DEF Serving
<1>2. SyncInv(x)
  BY DEF IInv
<1>3. Synced(x)' = Synced(x)
  BY DEF Kept, Synced, Runnable
<1>4. ASSUME NEW h \in Serving(x), Stage(h) PROVE Stage(h)'
  <2>1. req'[h] = req[h] /\ req[h].id = x
    BY DEF Serving
  <2> QED BY <1>4, <2>1 DEF Stage, Kept, Bare, Linked, At
<1> QED BY <1>1, <1>2, <1>3, <1>4 DEF SyncInv

\* A step of a handler, for the schedule it is at work on or begins with.
LEMMA Touches ==
  ASSUME IInv, NEW h \in Handlers, NEW id \in Ids, Only(h), up' => up, disturbed \subseteq disturbed',
         req[h].pc = "idle" \/ req[h].id = id,
         req'[h].pc = "idle" \/ req'[h].id = id,
         \A x \in Ids \ {id} : Kept(x),
         up' /\ id \notin disturbed' =>
           /\ Serving(id) \subseteq {h}
           /\ IF req'[h].pc = "idle" THEN Synced(id)' ELSE Stage(h)'
  PROVE  \A x \in Ids : SyncInv(x)'
<1>1. ASSUME NEW x \in Ids \ {id} PROVE SyncInv(x)'
  <2>1. \A g \in Handlers : g \in Serving(x) \/ g \in Serving(x)' => req'[g] = req[g]
    BY DEF Only, Serving
  <2> QED BY <2>1, Apart
<1>2. SyncInv(id)'
  <2>1. ASSUME up', id \notin disturbed' PROVE Serving(id)' = IF req'[h].pc = "idle" THEN {} ELSE {h}
    BY <2>1 DEF Serving, Only
  <2> QED BY <2>1 DEF SyncInv
<1> QED BY <1>1, <1>2

\* The handler at work on a schedule that nobody disturbs.
LEMMA Alone ==
  ASSUME IInv, NEW h \in Handlers, NEW id \in Ids, id = req[h].id, req[h].pc # "idle",
         id \notin disturbed
  PROVE  Serving(id) = {h} /\ Stage(h)
<1>1. SyncInv(id) /\ up /\ h \in Serving(id)
  BY InHand DEF IInv, Serving
<1> QED BY <1>1 DEF SyncInv

\* The steps of a handler at work, one by one.
LEMMA ProceedsSync ==
  ASSUME IInv, NEW h \in Handlers, Proceeds(h)
  PROVE  \A x \in Ids : SyncInv(x)'
<1>0. TypeOK /\ RequestInv(h)
  BY DEF IInv
<1>1. /\ Only(h) /\ up' = up /\ req[h].pc # "idle"
      /\ req'[h].pc = "idle" \/ req'[h].id = req[h].id
  BY ProceedsKeeps DEF Unchanging, Same
<1>2. PICK id \in Ids : id = req[h].id
  BY <1>1, InHand
<1>3. id \notin disturbed => Serving(id) = {h} /\ Stage(h)
  BY <1>1, <1>2, Alone
<1>4. disturbed \subseteq disturbed' /\ \A x \in Ids \ {id} : Kept(x)
  BY <1>0, <1>2 DEF Proceeds, CreateLoad, CreateLoadFails, UpdateRow, UpdateRowFails, RemoveCheck,
     RemoveCron, RemoveMap, AddCheck, AddCron, AddMap, Kept, TypeOK, cronVars
<1>5. SUFFICES ASSUME up', id \notin disturbed'
               PROVE  IF req'[h].pc = "idle" THEN Synced(id)' ELSE Stage(h)'
  BY <1>1, <1>2, <1>3, <1>4, Touches
<1>6. Stage(h) /\ id \notin disturbed
  BY <1>3, <1>4, <1>5
<1>7. CASE CreateLoad(h)
  <2>1. Same(h) /\ req'[h].pc = "add" /\ req'[h].spec = table[id]
    BY <1>0, <1>2, <1>7, CreateLoadKeeps
  <2> QED BY <1>2, <1>6, <1>7, <2>1 DEF CreateLoad, cronVars, Stage, Bare, At, Same
<1>8. CASE CreateLoadFails(h) \/ UpdateRowFails(h)
  BY <1>2, <1>5, <1>8 DEF CreateLoadFails, UpdateRowFails
<1>9. CASE UpdateRow(h)
  <2>1. Same(h) /\ req'[h].pc = "add" /\ req'[h].spec = req[h].spec
    BY <1>0, <1>9, GotoKeeps DEF UpdateRow
  <2>2. Bare(id) /\ table[id] # None
    BY <1>0, <1>2, <1>6, <1>9 DEF UpdateRow, At, Stage, RequestInv
  <2>3. table'[id] = req[h].spec
    BY <1>0, <1>2, <1>9, <2>2 DEF UpdateRow, TypeOK
  <2> QED BY <1>2, <1>9, <2>1, <2>2, <2>3 DEF UpdateRow, cronVars, Stage, Bare, At, Same
<1>10. ASSUME AfterRemove(h), UNCHANGED <<table, entries>>, entries[id] = {}, entryOf'[id] = 0,
              table[id] = None <=> req[h].op = "delete"
       PROVE  IF req'[h].pc = "idle" THEN Synced(id)' ELSE Stage(h)'
  <2>1. CASE req[h].op = "delete"
    <3>1. req'[h].pc = "idle"
      BY <1>0, <1>10, <2>1, ReplyKeeps DEF AfterRemove
    <3> QED BY <1>10, <2>1, <3>1 DEF Synced, Runnable
  <2>2. CASE req[h].op # "delete"
    <3>1. Same(h) /\ req'[h].pc = "update"
      BY <1>0, <1>10, <2>2, GotoKeeps DEF AfterRemove
    <3> QED BY <1>2, <1>10, <2>2, <3>1 DEF Stage, Bare, At, Same
  <2> QED BY <2>1, <2>2
<1>11. CASE RemoveCheck(h)
  <2>1. /\ Bare(id) \/ Linked(id)
        /\ table[id] = None <=> req[h].op = "delete"
    BY <1>2, <1>6, <1>11 DEF RemoveCheck, At, Stage
  <2>2. CASE entryOf[id] = 0
    BY <1>2, <1>10, <1>11, <2>1, <2>2 DEF RemoveCheck, cronVars, Bare, Linked
  <2>3. CASE entryOf[id] # 0
    <3>1. Same(h) /\ req'[h].pc = "removeCron" /\ req'[h].entry = entryOf[id]
      BY <1>0, <1>2, <1>11, <2>3, RemoveCheckKeeps
    <3> QED BY <1>2, <1>11, <2>1, <2>3, <3>1 DEF RemoveCheck, cronVars, Stage, Bare, Linked, At, Same
  <2> QED BY <2>2, <2>3
<1>12. CASE RemoveCron(h)
  <2>1. Same(h) /\ req'[h].pc = "removeMap"
    BY <1>0, <1>12, GotoKeeps DEF RemoveCron
  <2>2. /\ Linked(id) /\ req[h].entry = entryOf[id]
        /\ table[id] = None <=> req[h].op = "delete"
    BY <1>2, <1>6, <1>12 DEF RemoveCron, At, Stage
  <2>3. entries'[id] = {}
    <3>1. PICK s \in Specs : entries[id] = {[n |-> entryOf[id], spec |-> s]}
      BY <2>2 DEF Linked
    <3>2. entries'[id] = {e \in entries[id] : e.n # req[h].entry}
      BY <1>0, <1>2, <1>12 DEF RemoveCron, TypeOK
    <3> QED BY <2>2, <3>1, <3>2
  <2> QED BY <1>2, <1>12, <2>1, <2>2, <2>3 DEF RemoveCron, Stage, At, Same
<1>13. CASE RemoveMap(h)
  <2>1. entries[id] = {} /\ (table[id] = None <=> req[h].op = "delete")
    BY <1>2, <1>6, <1>13 DEF RemoveMap, At, Stage
  <2>2. entryOf'[id] = 0
    BY <1>0, <1>2, <1>13 DEF RemoveMap, TypeOK
  <2> QED BY <1>10, <1>13, <2>1, <2>2 DEF RemoveMap, cronVars
<1>14. CASE AddCheck(h)
  <2>1. Bare(id) /\ table[id] = req[h].spec
    BY <1>2, <1>6, <1>14 DEF AddCheck, At, Stage
  <2>2. Same(h) /\ req'[h].pc = "addCron" /\ req'[h].spec = req[h].spec
    BY <1>0, <1>2, <1>14, <2>1, GotoKeeps DEF AddCheck, Bare
  <2> QED BY <1>2, <1>14, <2>1, <2>2 DEF AddCheck, cronVars, Stage, Bare, At, Same
<1>15. CASE AddCron(h)
  <2>1. Bare(id) /\ table[id] = req[h].spec
    BY <1>2, <1>6, <1>15 DEF AddCron, At, Stage
  <2>2. CASE Parses(CronFields[req[h].spec])
    <3>1. PICK n : n = last[id] + 1
      OBVIOUS
    <3>3. Same(h) /\ req'[h].pc = "addMap" /\ req'[h].entry = n /\ req'[h].spec = req[h].spec
      BY <1>0, <1>2, <1>15, <2>2, <3>1, AddCronKeeps
    <3>4. entries'[id] = {[n |-> n, spec |-> req[h].spec]}
      BY <1>0, <1>2, <1>15, <2>1, <2>2, <3>1 DEF AddCron, TypeOK, Bare
    <3> QED BY <1>2, <1>15, <2>1, <2>2, <3>3, <3>4 DEF AddCron, Stage, Bare, At, Same
  <2>3. CASE ~Parses(CronFields[req[h].spec])
    <3>1. req'[h].pc = "idle"
      BY <1>0, <1>15, <2>3, ReplyKeeps DEF AddCron
    <3> QED BY <1>15, <2>1, <2>3, <3>1 DEF AddCron, cronVars, Synced, Runnable, Bare
  <2> QED BY <2>2, <2>3
<1>16. CASE AddMap(h)
  <2>1. /\ entries[id] = {[n |-> req[h].entry, spec |-> req[h].spec]}
        /\ table[id] = req[h].spec
        /\ Parses(CronFields[table[id]])
        /\ req[h].entry # 0 /\ req[h].spec \in Specs
    BY <1>0, <1>2, <1>6, <1>16 DEF AddMap, At, Stage, IInv, LiveInv, RequestInv
  <2>2. req'[h].pc = "idle" /\ entryOf'[id] = req[h].entry
    BY <1>0, <1>2, <1>16, ReplyKeeps DEF AddMap, TypeOK
  <2>3. table[id] # None
    BY <2>1, SchedulingAssumption
  <2> QED BY <1>16, <2>1, <2>2, <2>3 DEF AddMap, cronVars, Synced, Runnable
<1> QED BY <1>7, <1>8, <1>9, <1>11, <1>12, <1>13, <1>14, <1>15, <1>16 DEF Proceeds

LEMMA SyncStep == IInv /\ [Next]_vars => \A x \in Ids : SyncInv(x)'
<1> SUFFICES ASSUME IInv, [Next]_vars PROVE \A x \in Ids : SyncInv(x)'
  OBVIOUS
<1>0. TypeOK /\ RowInv
  BY DEF IInv
<1>1. CASE StartController
  <2>1. PICK listed \in BOOLEAN :
          LET Loads(id) == listed /\ table[id] # None /\ Parses(CronFields[table[id]])
          IN  /\ entries' = [id \in Ids |-> IF Loads(id)
                                           THEN {[n |-> 1, spec |-> table[id]]}
                                           ELSE {}]
              /\ last' = [id \in Ids |-> IF Loads(id) THEN 1 ELSE 0]
              /\ entryOf' = [id \in Ids |-> IF Loads(id) THEN 1 ELSE 0]
              /\ disturbed' = IF listed THEN {} ELSE Ids
    BY <1>1 DEF StartController
  <2>2. \A x \in Ids : Serving(x)' = {}
    BY <1>1, DownIsIdle DEF StartController, Serving
  <2>3. listed => \A x \in Ids : Synced(x)'
    BY <1>1, <2>1 DEF StartController, Synced, Runnable
  <2> QED BY <2>1, <2>2, <2>3 DEF SyncInv
<1>2. ASSUME NEW why, Stop(why) PROVE \A x \in Ids : SyncInv(x)'
  BY <1>2 DEF Stop, SyncInv
<1>3. CASE \/ \E id \in Ids : Fire(id)
           \/ \E j \in jobs : JobEnds(j)
           \/ UNCHANGED vars
  BY <1>3, Apart DEF Fire, JobEnds, vars, cronVars, Kept
<1>4. CASE CliAdd \/ CliRemove \/ \E h \in Handlers : CreateInsertFails(h) \/ DeleteRowFails(h)
  <2>1. PICK id \in Ids : /\ disturbed' = disturbed \union {id}
                          /\ \A x \in Ids \ {id} : Kept(x)
    <3>1. ASSUME NEW id \in Ids, NEW s, table' = [table EXCEPT ![id] = s], UNCHANGED <<cronVars, entryOf>>
          PROVE  \A x \in Ids \ {id} : Kept(x)
      BY <1>0, <3>1 DEF Kept, cronVars, TypeOK
    <3> QED BY <1>0, <1>4, <3>1 DEF CliAdd, CliRemove, CreateInsertFails, DeleteRowFails, TypeOK
  <2>2. up' = up /\ req' = req
    BY <1>4 DEF CliAdd, CliRemove, CreateInsertFails, DeleteRowFails, Unchanging
  <2>3. ASSUME NEW x \in Ids \ {id} PROVE SyncInv(x)'
    BY <2>1, <2>2, Apart
  <2>4. SyncInv(id)'
    BY <2>1 DEF SyncInv
  <2> QED BY <2>3, <2>4
<1>5. ASSUME NEW h \in Handlers, CreateInsert(h) PROVE \A x \in Ids : SyncInv(x)'
  <2>1. PICK id \in Ids \ used : \E s \in Specs :
          /\ table' = [table EXCEPT ![id] = s]
          /\ used' = used \union {id}
          /\ Accept(h, "create", "load", id, s)
    BY <1>5 DEF CreateInsert
  <2>2. PICK s \in Specs :
          /\ table' = [table EXCEPT ![id] = s]
          /\ used' = used \union {id}
          /\ Accept(h, "create", "load", id, s)
    BY <2>1
  <2>3. /\ Only(h) /\ req[h].pc = "idle" /\ up /\ up' = up /\ disturbed' = disturbed
        /\ req'[h].pc = "load" /\ req'[h].id = id /\ req'[h].spec = s
    BY <1>0, <1>5, <2>2, AcceptKeeps DEF CreateInsert, Unchanging, At
  <2>4. Serving(id) = {}
    BY <2>1, InHand DEF Serving
  <2>5. table'[id] = s /\ \A x \in Ids \ {id} : Kept(x)
    BY <1>0, <1>5, <2>2 DEF CreateInsert, Kept, cronVars, TypeOK
  <2>6. id \notin disturbed => Bare(id)
    BY <1>0, <2>1, <2>3, <2>4 DEF IInv, SyncInv, Synced, Runnable, RowInv, Bare
  <2>7. id \notin disturbed' => Stage(h)'
    BY <1>5, <2>3, <2>5, <2>6 DEF CreateInsert, cronVars, Stage, Bare, At
  <2> QED BY <2>3, <2>4, <2>5, <2>7, Touches
<1>6. ASSUME NEW h \in Handlers, UpdateGet(h) \/ DeleteRow(h) PROVE \A x \in Ids : SyncInv(x)'
  <2>1. PICK id \in Ids :
          \/ /\ table[id] # None
             /\ \E s \in Specs : Accept(h, "update", "remove", id, s)
             /\ disturbed' = Overlap(id)
             /\ UNCHANGED table
          \/ /\ table' = [table EXCEPT ![id] = None]
             /\ Accept(h, "delete", "remove", id, None)
             /\ disturbed' = Overlap(id)
    BY <1>0, <1>6 DEF UpdateGet, DeleteRow, TypeOK
  <2>2. /\ Only(h) /\ req[h].pc = "idle" /\ up /\ up' = up
        /\ req'[h].pc = "remove" /\ req'[h].id = id
        /\ \/ req'[h].op = "update" /\ table'[id] # None
           \/ req'[h].op = "delete" /\ table'[id] = None
    BY <1>0, <1>6, <2>1, AcceptKeeps DEF UpdateGet, DeleteRow, Unchanging, At, TypeOK
  <2>3. \A x \in Ids \ {id} : Kept(x)
    BY <1>0, <1>6, <2>1 DEF UpdateGet, DeleteRow, Kept, cronVars, TypeOK
  <2>4. disturbed \subseteq disturbed' /\ (id \notin disturbed' => Serving(id) = {} /\ id \notin disturbed)
    BY <2>1 DEF Overlap
  <2>5. ASSUME id \notin disturbed' PROVE Bare(id) \/ Linked(id)
    <3>1. Synced(id)
      BY <2>2, <2>4, <2>5 DEF IInv, SyncInv
    <3>2. table[id] # None => table[id] \in Specs
      BY <1>0 DEF TypeOK
    <3> QED BY <3>1, <3>2 DEF Synced, Runnable, Bare, Linked
  <2>6. id \notin disturbed' => Stage(h)'
    <3>1. UNCHANGED <<entries, entryOf>>
      BY <1>6 DEF UpdateGet, DeleteRow, cronVars
    <3> QED BY <2>2, <2>5, <3>1 DEF Stage, Bare, Linked, At
  <2> QED BY <2>2, <2>3, <2>4, <2>6, Touches
<1> QED BY <1>1, <1>2, <1>3, <1>4, <1>5, <1>6, ProceedsSync
        DEF Next, Accepts, Kill, MapRace, FirePanics

----------------------------------------------------------------------------
(* Deleted schedules.                                                      *)

StaysDeleted == \A id \in used : table[id] = None => table'[id] = None

\* Rows of ids that were not handed out yet are the only ones that are added.
LEMMA AddedIsNew ==
  ASSUME TypeOK, NEW id \in Ids \ used, NEW s, table' = [table EXCEPT ![id] = s]
  PROVE  StaysDeleted
BY DEF TypeOK, StaysDeleted

LEMMA DeletedStep == IInv /\ [Next]_vars => StaysDeleted
<1> SUFFICES ASSUME IInv, [Next]_vars PROVE StaysDeleted
  OBVIOUS
<1>0. TypeOK
  BY DEF IInv
<1>1. CASE \/ StartController
           \/ \E why \in {"killed", "race", "panic"} : Stop(why)
           \/ \E id \in Ids : Fire(id)
           \/ \E j \in jobs : JobEnds(j)
           \/ UNCHANGED vars
  BY <1>1 DEF StartController, Stop, Fire, JobEnds, vars, StaysDeleted
<1>2. CASE CliAdd \/ \E h \in Handlers : CreateInsert(h) \/ CreateInsertFails(h)
  BY <1>0, <1>2, AddedIsNew DEF CliAdd, CreateInsert, CreateInsertFails
<1>3. CASE CliRemove \/ \E h \in Handlers : UpdateGet(h) \/ DeleteRow(h) \/ DeleteRowFails(h)
  BY <1>0, <1>3 DEF CliRemove, UpdateGet, DeleteRow, DeleteRowFails, TypeOK, StaysDeleted
<1>4. ASSUME NEW h \in Handlers, UpdateRow(h) \/ UpdateRowFails(h) PROVE StaysDeleted
  <2>1. CASE table[req[h].id] = None
    BY <1>0, <1>4, <2>1 DEF UpdateRow, UpdateRowFails, TypeOK, StaysDeleted
  <2>2. CASE table[req[h].id] # None
    BY <1>0, <1>4, <2>2 DEF UpdateRow, UpdateRowFails, TypeOK, StaysDeleted
  <2> QED BY <2>1, <2>2
<1>5. ASSUME NEW h \in Handlers,
             \/ CreateLoad(h) \/ CreateLoadFails(h)
             \/ RemoveCheck(h) \/ RemoveCron(h) \/ RemoveMap(h)
             \/ AddCheck(h) \/ AddCron(h) \/ AddMap(h)
      PROVE  StaysDeleted
  BY <1>5 DEF CreateLoad, CreateLoadFails, RemoveCheck, RemoveCron, RemoveMap, AddCheck, AddCron,
     AddMap, StaysDeleted
<1> QED BY <1>1, <1>2, <1>3, <1>4, <1>5
        DEF Next, Accepts, Proceeds, Kill, MapRace, FirePanics

----------------------------------------------------------------------------
(* The theorems.                                                           *)

LEMMA Initially == Init => IInv
<1> SUFFICES ASSUME Init PROVE IInv
  OBVIOUS
<1> USE DEF Init
<1>1. TypeOK
  <2>1. NoRequest \in Request /\ NoRequest.pc = "idle"
    BY DEF NoRequest, Request, Ops, PCs
  <2> QED BY <2>1 DEF TypeOK
<1>2. RowInv /\ CronInv /\ RecordedEntryIsLive /\ \A id \in Ids : SyncInv(id)
  BY DEF RowInv, CronInv, RecordedEntryIsLive, SyncInv
<1>3. \A h \in Handlers : RequestInv(h) /\ LiveInv(h)
  BY DEF RequestInv, LiveInv, Holding, At, NoRequest
<1> QED BY <1>1, <1>2, <1>3 DEF IInv

LEMMA Inductive == IInv /\ [Next]_vars => IInv'
BY TypeStep, RequestStep, LiveStep, SyncStep DEF IInv, EntriesInv

\* The invariant of the table, cron and the map, under all handlers, commands,
\* restarts and jobs.
THEOREM Invariance == Spec => []IInv
BY Initially, Inductive, PTL DEF Spec

\* Every variable keeps its type, and every request is about a schedule whose id
\* was handed out.
THEOREM TypeCorrect == Spec => []TypeOK
<1>1. IInv => TypeOK
  BY DEF IInv
<1> QED BY <1>1, Invariance, PTL

\* What scheduleEntryIDs says is alive in cron, for any number of handlers that
\* add, update and delete without a lock (Scheduler.AddSchedule, RemoveSchedule).
THEOREM RecordedIsLive == Spec => []RecordedEntryIsLive
<1>1. IInv => RecordedEntryIsLive
  BY DEF IInv
<1> QED BY <1>1, Invariance, PTL

\* Cron runs exactly the stored row of every schedule that was left undisturbed,
\* for any number of schedules and handlers.
THEOREM InSync == Spec => []UndisturbedInSync
<1>1. IInv => UndisturbedInSync
  BY DEF IInv, SyncInv, UndisturbedInSync
<1> QED BY <1>1, Invariance, PTL

\* No update, late or half done, stores a schedule again that was deleted, by
\* whatever handler or command and across restarts.
THEOREM DeletedStays == Spec => DeletedStaysDeleted
<1>1. IInv /\ [Next]_vars => [StaysDeleted]_vars
  BY DeletedStep
<1> QED BY <1>1, Invariance, PTL DEF Spec, DeletedStaysDeleted, StaysDeleted

\* No controller ever has the retention job among its cron entries: the expression
\* of the job (scheduler.go) has six fields, the parser of cron.New() takes five,
\* and the error is only logged.  It concerns no other state and needs no invariant.
LEMMA RetentionNeverRuns == Spec => []~retention
<1>1. Init => ~retention
  BY DEF Init
<1>2. ~retention /\ [Next]_vars => ~retention'
  <2> SUFFICES ASSUME ~retention, [Next]_vars PROVE ~retention'
    OBVIOUS
  <2>1. CASE StartController
    <3>1. retention' = Parses(RetentionFields)
      BY <2>1 DEF StartController
    <3>2. ~Parses(RetentionFields)
      BY DEF Parses, RetentionFields
    <3> QED BY <3>1, <3>2, Zenon
  <2>2. CASE Kill \/ MapRace \/ \E id \in Ids : FirePanics(id)
    BY <2>2 DEF Kill, MapRace, FirePanics, Stop
  <2>3. CASE UNCHANGED vars \/ (\E id \in Ids : Fire(id)) \/ (\E j \in jobs : JobEnds(j))
    BY <2>3 DEF vars, Fire, JobEnds
  <2>4. CASE CliAdd \/ CliRemove \/ \E h \in Handlers : Accepts(h)
    BY <2>4 DEF CliAdd, CliRemove, Accepts, CreateInsert, CreateInsertFails, UpdateGet, DeleteRow,
      DeleteRowFails, Unchanging
  <2>5. CASE \E h \in Handlers : Proceeds(h)
    BY <2>5 DEF Proceeds, CreateLoad, CreateLoadFails, UpdateRow, UpdateRowFails, RemoveCheck,
      RemoveCron, RemoveMap, AddCheck, AddCron, AddMap, Unchanging
  <2> QED BY <2>1, <2>2, <2>3, <2>4, <2>5 DEF Next
<1> QED BY <1>1, <1>2, PTL DEF Spec

============================================================================
