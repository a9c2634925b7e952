---------------------------- MODULE Catalog_proofs ----------------------------
(***************************************************************************)
(* Proofs about Catalog, for any backups, paths, storages' habits and      *)
(* numbers of clients: its type invariant, that a listed backup is stored, *)
(* that a deleted one is gone, that a file which is being restored holds   *)
(* the beginning of one backup, and a restored one the whole.              *)
(*                                                                         *)
(* The first three rest on MakerInv, that a backup which is being made is  *)
(* not yet known to anybody else, and the last two on WriterInv, which     *)
(* follows a restore block by block.                                       *)
(***************************************************************************)
EXTENDS Catalog, TLAPS

----------------------------------------------------------------------------
(* The inductive invariant.                                                *)

Making(c)   == req[c].pc \in {"save", "record"}
Removing(c) == req[c].pc \in {"deleteObject", "deleteRow"}

\* Nobody else has heard of a backup before its row is there.
MakerInv(c) ==
  Making(c) =>
    /\ req[c].id \in begun \ (rows \union halved \union deleted)
    /\ req[c].adapter = home[req[c].id]
    /\ \A d \in Clients \ {c} : Making(d) \/ Removing(d) => req[d].id # req[c].id

RemoverInv(c) ==
  Removing(c) =>
    /\ req[c].id \in begun
    /\ req[c].adapter = "s3"
    /\ At(c, "deleteRow") => stores["s3"][PathOf(c)] # req[c].id

\* An object is under the path of its backup.
PlaceInv ==
  \A a \in Adapters, p \in Paths :
    stores[a][p] # None => stores[a][p] \in begun /\ path[stores[a][p]] = p

\* What was saved is there when its row is about to be made.
SavedInv(c) ==
  At(c, "record") /\ Sole(req[c].id) => stores[req[c].adapter][PathOf(c)] = req[c].id

\* The backup a reader may have opened.
From(c, x) == x \in begun /\ Source(c, x)

\* What a restore has written is what it opened, and it has emptied the rest, as
\* long as it was never joined by another one.
WriterInv(c) ==
  /\ req[c].pc \in {"open", "create", "copy"} => req[c].id \in begun
  /\ req[c].pc \in {"create", "copy"} => req[c].to \in Targets /\ From(c, req[c].got)
  /\ req[c].pc \in {"open", "create"} => req[c].n = 0
  /\ req[c].alone /\ req[c].to # None => \A d \in Clients \ {c} : req[d].to # req[c].to
  /\ At(c, "copy") /\ req[c].alone =>
       \A k \in 1..Size :
         target[req[c].to][k] = IF k <= req[c].n THEN req[c].got ELSE None

MakingInv  == \A c \in Clients : MakerInv(c) /\ RemoverInv(c) /\ SavedInv(c)
WritingInv == \A c \in Clients : WriterInv(c)

IInv == TypeOK /\ PlaceInv /\ MakingInv /\ WritingInv /\ ListedIsStored /\ DeletedIsGone

----------------------------------------------------------------------------
(* Types.                                                                  *)

\* A client that does nothing is a request like others.
LEMMA IdleType == Idle \in Request
BY CatalogAssumption DEF Idle, Request, Steps, Adapters

\* What a client asks for when it begins.
LEMMA AcceptType ==
  ASSUME TypeOK, NEW c \in Clients, NEW pc \in Steps, NEW b \in Backups,
         NEW a \in Adapters, Accept(c, pc, b, a)
  PROVE  req' \in [Clients -> Request]
<1>1. [Idle EXCEPT !.pc = pc, !.id = b, !.adapter = a] \in Request
  BY IdleType, CatalogAssumption DEF Idle, Request, Steps, Adapters
<1> QED BY <1>1 DEF Accept, TypeOK

\* A client that goes on, or is done.
LEMMA GotoType ==
  ASSUME TypeOK, NEW c \in Clients, NEW pc \in Steps, Goto(c, pc)
  PROVE  req' \in [Clients -> Request]
<1>1. \A r \in Request : [r EXCEPT !.pc = pc] \in Request
  BY DEF Request
<1> QED BY <1>1 DEF TypeOK, Goto

LEMMA DoneType ==
  ASSUME TypeOK, NEW c \in Clients, Done(c)
  PROVE  req' \in [Clients -> Request]
BY IdleType DEF TypeOK, Done

\* A reader that has opened its object, or read on.
LEMMA OpenedType ==
  ASSUME NEW r \in Request, NEW pc \in Steps, NEW x \in Backups \union {None}
  PROVE  [r EXCEPT !.pc = pc, !.got = x] \in Request
BY DEF Request

LEMMA ReadType ==
  ASSUME TypeOK, NEW c \in Clients, NEW k \in 0..Size, req' = [req EXCEPT ![c].n = k]
  PROVE  req' \in [Clients -> Request]
<1>1. \A r \in Request : [r EXCEPT !.n = k] \in Request
  BY DEF Request
<1> QED BY <1>1 DEF TypeOK

\* What RestoreGet does to the requests.
Joins(c, b, a, t) ==
  req' = [d \in Clients |->
            IF d = c
            THEN [Idle EXCEPT !.pc = "open", !.id = b, !.adapter = a, !.to = t,
                              !.alone = Writing(t) = {}]
            ELSE IF d \in Writing(t) THEN [req[d] EXCEPT !.alone = FALSE]
            ELSE req[d]]

\* What a save or a deletion leaves in a storage.
LEMMA PutType ==
  ASSUME TypeOK, NEW c \in Clients, req[c].id \in Backups,
         NEW b \in Backups \union {None}, Put(c, b)
  PROVE  stores' \in [Adapters -> [Paths -> Backups \union {None}]]
<1>1. req[c].adapter \in Adapters /\ PathOf(c) \in Paths
  BY DEF TypeOK, Request, PathOf
<1> QED BY <1>1 DEF TypeOK, Put

\* The adapters a client may get are adapters.
LEMMA AdaptersType ==
  ASSUME NEW c \in Clients
  PROVE  AdaptersOf(c) \subseteq Adapters
BY DEF AdaptersOf, Adapters

\* Who saves, records or deletes has a backup in hand that was begun.
LEMMA InHand ==
  ASSUME IInv, NEW c \in Clients, Making(c) \/ Removing(c)
  PROVE  req[c].id \in begun /\ req[c].id \in Backups
BY DEF IInv, TypeOK, MakingInv, MakerInv, RemoverInv

LEMMA TypeStep == IInv /\ [Next]_vars => TypeOK'
<1> SUFFICES ASSUME IInv, [Next]_vars PROVE TypeOK'
  OBVIOUS
<1>0. TypeOK
  BY DEF IInv
<1> USE CatalogAssumption, <1>0
<1>1. ASSUME NEW c \in Clients, CreateBegin(c) PROVE TypeOK'
  <2>1. PICK b \in Backups \ begun :
          \E p \in Paths, a \in AdaptersOf(c) :
            /\ Accept(c, "save", b, a)
            /\ path' = [path EXCEPT ![b] = p]
            /\ begun' = begun \union {b}
            /\ home' = [home EXCEPT ![b] = a]
    BY <1>1 DEF CreateBegin
  <2>2. PICK p \in Paths :
          \E a \in AdaptersOf(c) :
            /\ Accept(c, "save", b, a)
            /\ path' = [path EXCEPT ![b] = p]
            /\ begun' = begun \union {b}
            /\ home' = [home EXCEPT ![b] = a]
    BY <2>1
  <2>3. PICK a \in AdaptersOf(c) :
          /\ Accept(c, "save", b, a)
          /\ path' = [path EXCEPT ![b] = p]
          /\ begun' = begun \union {b}
          /\ home' = [home EXCEPT ![b] = a]
    BY <2>2
  <2>4. req' \in [Clients -> Request]
    BY <2>3, AcceptType, AdaptersType DEF Steps
  <2> QED BY <1>1, <2>3, <2>4, AdaptersType DEF CreateBegin, TypeOK
<1>2. ASSUME NEW c \in Clients, CreateSave(c) \/ CreateSaveFails(c) PROVE TypeOK'
  <2>1. req[c].id \in Backups
    BY <1>2, InHand DEF CreateSave, CreateSaveFails, At, Making
  <2>2. stores' \in [Adapters -> [Paths -> Backups \union {None}]]
    BY <1>2, <2>1, PutType DEF CreateSave, CreateSaveFails, TypeOK
  <2>3. req' \in [Clients -> Request]
    BY <1>2, GotoType, DoneType DEF CreateSave, CreateSaveFails, Steps
  <2> QED BY <1>2, <2>2, <2>3 DEF CreateSave, CreateSaveFails, TypeOK, history
<1>3. ASSUME NEW c \in Clients, CreateRecord(c) \/ CreateRecordFails(c) PROVE TypeOK'
  <2>1. req[c].id \in begun
    BY <1>3, InHand DEF CreateRecord, CreateRecordFails, At, Making
  <2>2. req' \in [Clients -> Request]
    BY <1>3, GotoType, DoneType DEF CreateRecord, CreateRecordFails, Steps
  <2> QED BY <1>3, <2>1, <2>2 DEF CreateRecord, CreateRecordFails, TypeOK, history
<1>4. ASSUME NEW c \in Clients, CreateLoad(c) \/ RestoreEnds(c) \/ RestoreFails(c) \/ DownloadEnds(c)
      PROVE  TypeOK'
  <2>1. req' \in [Clients -> Request]
    BY <1>4, DoneType DEF CreateLoad, RestoreEnds, RestoreFails, DownloadEnds
  <2> QED BY <1>4, <2>1 DEF CreateLoad, RestoreEnds, RestoreFails, DownloadEnds, TypeOK, history
<1>5. ASSUME NEW c \in Clients, DeleteGet(c) \/ DownloadGet(c) PROVE TypeOK'
  <2>1. req' \in [Clients -> Request]
    BY <1>5, AcceptType DEF DeleteGet, DownloadGet, Steps, Adapters, TypeOK
  <2> QED BY <1>5, <2>1 DEF DeleteGet, DownloadGet, TypeOK, history
<1>6. ASSUME NEW c \in Clients, DeleteObject(c) \/ DeleteObjectFails(c) PROVE TypeOK'
  <2>1. req[c].id \in Backups /\ req[c].id \in begun
    BY <1>6, InHand DEF DeleteObject, DeleteObjectFails, At, Removing
  <2>2. stores' \in [Adapters -> [Paths -> Backups \union {None}]]
    BY <1>6, <2>1, PutType DEF DeleteObject, DeleteObjectFails, TypeOK
  <2>3. req' \in [Clients -> Request]
    BY <1>6, GotoType, DoneType DEF DeleteObject, DeleteObjectFails, Steps
  <2> QED BY <1>6, <2>1, <2>2, <2>3 DEF DeleteObject, DeleteObjectFails, TypeOK, history
<1>7. ASSUME NEW c \in Clients, DeleteRow(c) \/ DeleteRowFails(c) PROVE TypeOK'
  <2>1. req[c].id \in begun
    BY <1>7, InHand DEF DeleteRow, DeleteRowFails, At, Removing
  <2>2. req' \in [Clients -> Request]
    BY <1>7, DoneType DEF DeleteRow, DeleteRowFails
  <2> QED BY <1>7, <2>1, <2>2 DEF DeleteRow, DeleteRowFails, TypeOK
<1>8. ASSUME NEW c \in Clients, RestoreGet(c) PROVE TypeOK'
  <2>1. ASSUME NEW b \in rows, NEW a \in AdaptersOf(c), NEW t \in Targets
        PROVE  [Idle EXCEPT !.pc = "open", !.id = b, !.adapter = a, !.to = t,
                            !.alone = Writing(t) = {}] \in Request
    BY IdleType, AdaptersType DEF Idle, Request, Steps, TypeOK
  <2>2. \A d \in Clients : [req[d] EXCEPT !.alone = FALSE] \in Request
    <3>1. \A r \in Request : [r EXCEPT !.alone = FALSE] \in Request
      BY DEF Request
    <3> QED BY <3>1 DEF TypeOK
  <2>3. req' \in [Clients -> Request]
    <3>1. PICK b \in rows, a \in AdaptersOf(c), t \in Targets : Joins(c, b, a, t)
      BY <1>8, Zenon DEF RestoreGet, Joins
    <3>2. \A d \in Clients : req'[d] \in Request
      BY <2>1, <2>2, <3>1 DEF Joins, TypeOK
    <3>3. req' = [d \in Clients |-> req'[d]]
      BY <3>1, Zenon DEF Joins
    <3> QED BY <3>2, <3>3
  <2> QED BY <1>8, <2>3 DEF RestoreGet, TypeOK, history
<1>9. ASSUME NEW c \in Clients, RestoreOpen(c) PROVE TypeOK'
  <2>1. req[c].adapter \in Adapters /\ req[c].id \in Backups
    BY <1>9 DEF RestoreOpen, IInv, WritingInv, WriterInv, TypeOK, Request, At
  <2>2. Found(c) \in Backups \union {None}
    BY <2>1 DEF Found, PathOf, TypeOK
  <2>3. [req[c] EXCEPT !.pc = IF req[c].to = None THEN "send" ELSE "create",
                       !.got = Found(c)] \in Request
    BY <2>2, OpenedType DEF TypeOK, Steps
  <2>4. req' = [req EXCEPT ![c] = [req[c] EXCEPT
                   !.pc = IF req[c].to = None THEN "send" ELSE "create", !.got = Found(c)]]
    BY <1>9 DEF RestoreOpen, TypeOK
  <2>5. req' \in [Clients -> Request]
    BY <2>3, <2>4 DEF TypeOK
  <2> QED BY <1>9, <2>5 DEF RestoreOpen, TypeOK, history
<1>10. ASSUME NEW c \in Clients, RestoreCreate(c) PROVE TypeOK'
  <2>1. req' \in [Clients -> Request]
    BY <1>10, GotoType DEF RestoreCreate, Steps
  <2> QED BY <1>10, <2>1 DEF RestoreCreate, TypeOK, history
<1>11. ASSUME NEW c \in Clients, RestoreCopy(c) PROVE TypeOK'
  <2>1. req[c].n + 1 \in 0..Size /\ req[c].got \in Backups \union {None}
    BY <1>11 DEF RestoreCopy, TypeOK, Request
  <2>2. req' \in [Clients -> Request]
    BY <1>11, <2>1, ReadType DEF RestoreCopy
  <2>3. target' \in [Targets -> [1..Size -> Backups \union {None}]]
    BY <1>11, <2>1 DEF RestoreCopy, TypeOK
  <2> QED BY <1>11, <2>2, <2>3 DEF RestoreCopy, TypeOK, history
<1>12. ASSUME NEW c \in Clients, DownloadSend(c) PROVE TypeOK'
  <2>1. req[c].n + 1 \in 0..Size
    BY <1>12 DEF DownloadSend, TypeOK, Request
  <2>2. req' \in [Clients -> Request]
    BY <1>12, <2>1, ReadType, Zenon DEF DownloadSend
  <2> QED BY <1>12, <2>2 DEF DownloadSend, TypeOK, history
<1>13. ASSUME NEW c \in Clients, Dies(c) PROVE TypeOK'
  <2>1. req' \in [Clients -> Request]
    BY <1>13, DoneType DEF Dies
  <2>2. At(c, "save") \/ At(c, "deleteObject") \/ At(c, "record") \/ At(c, "deleteRow")
          => req[c].id \in Backups /\ req[c].id \in begun
    BY InHand DEF At, Making, Removing
  <2>3. stores' \in [Adapters -> [Paths -> Backups \union {None}]]
    BY <1>13, <2>2, PutType DEF Dies, TypeOK
  <2>4. rows' \subseteq begun /\ halved' \subseteq begun
    BY <1>13, <2>2 DEF Dies, TypeOK, At
  <2> QED BY <1>13, <2>1, <2>3, <2>4 DEF Dies, TypeOK
<1>14. ASSUME UNCHANGED vars PROVE TypeOK'
  BY <1>14 DEF vars, history, TypeOK
<1>15. ASSUME NEW c \in Clients, RestoreGarbles(c) PROVE TypeOK'
  <2>1. req' \in [Clients -> Request]
    BY <1>15, GotoType DEF RestoreGarbles, Steps
  <2>2. target' \in [Targets -> [1..Size -> Backups \union {None}]]
    <3>1. req[c].to \in Targets
      BY <1>15 DEF IInv, WritingInv, WriterInv, RestoreGarbles, At
    <3>2. target[req[c].to] \in [1..Size -> Backups \union {None}]
      BY <3>1 DEF TypeOK
    <3>3. PICK x \in Backups \union {None} :
            target' = [target EXCEPT ![req[c].to] =
                         [k \in 1..Size |-> IF k <= req[c].n THEN @[k] ELSE x]]
      BY <1>15, Zenon DEF RestoreGarbles
    <3>4. [k \in 1..Size |-> IF k <= req[c].n THEN target[req[c].to][k] ELSE x]
            \in [1..Size -> Backups \union {None}]
      BY <3>2
    <3> QED BY <3>3, <3>4 DEF TypeOK
  <2> QED BY <1>15, <2>1, <2>2 DEF RestoreGarbles, TypeOK, history
<1> QED BY <1>1, <1>2, <1>3, <1>4, <1>5, <1>6, <1>7, <1>8, <1>9, <1>10, <1>11, <1>12, <1>13, <1>14,
           <1>15
        DEF Next, Creates, Deletes, Restores

----------------------------------------------------------------------------
(* Who makes, who removes, and what is stored.                             *)

StorageVars == <<rows, begun, path, stores, home, halved, deleted>>

StoringInv == PlaceInv /\ MakingInv /\ ListedIsStored /\ DeletedIsGone

\* Client d goes on with the same backup, or has none to make or remove.
Same(d) ==
  Making(d) \/ Removing(d) \/ Making(d)' \/ Removing(d)' =>
    req'[d].pc = req[d].pc /\ req'[d].id = req[d].id /\ req'[d].adapter = req[d].adapter

\* Steps of readers.
LEMMA StoringElsewhere ==
  ASSUME IInv, UNCHANGED StorageVars, \A d \in Clients : Same(d)
  PROVE  StoringInv'
<1>1. PlaceInv'
  BY DEF IInv, PlaceInv, StorageVars
<1>2. ASSUME NEW c \in Clients PROVE MakerInv(c)'
  BY <1>2 DEF IInv, MakingInv, MakerInv, StorageVars, Same, Making, Removing
<1>3. ASSUME NEW c \in Clients PROVE RemoverInv(c)'
  BY <1>3 DEF IInv, MakingInv, RemoverInv, StorageVars, Same, Removing, PathOf, At
<1>4. ASSUME NEW c \in Clients PROVE SavedInv(c)'
  BY <1>4 DEF IInv, MakingInv, SavedInv, StorageVars, Same, Making, PathOf, At, Sole
<1>5. \A b : Deleting(b) => Deleting(b)'
  BY DEF Deleting, At, Same, Removing
<1>6. ListedIsStored'
  BY <1>5 DEF IInv, ListedIsStored, StorageVars, Sole
<1>7. DeletedIsGone'
  BY DEF IInv, DeletedIsGone, StorageVars
<1> QED BY <1>1, <1>2, <1>3, <1>4, <1>6, <1>7 DEF StoringInv, MakingInv

\* The steps of readers, one by one.
LEMMA ReadersStore ==
  ASSUME IInv, NEW c \in Clients, Restores(c) \/ CreateLoad(c)
  PROVE  StoringInv'
<1>0. TypeOK
  BY DEF IInv
<1>1. UNCHANGED StorageVars
  BY DEF Restores, RestoreGet, RestoreOpen, RestoreCreate, RestoreCopy, RestoreGarbles,
     RestoreEnds, RestoreFails, DownloadGet, DownloadSend, DownloadEnds, CreateLoad, StorageVars, history
<1>2. CASE RestoreGet(c)
  <2>1. PICK b \in rows, a \in AdaptersOf(c), t \in Targets : Joins(c, b, a, t)
    BY <1>2, Zenon DEF RestoreGet, Joins
  <2>2. req'[c].pc = "open" /\ req[c].pc = "idle"
    BY <1>2, <2>1 DEF RestoreGet, Joins, At, Idle
  <2>3. \A d \in Clients \ {c} :
          req'[d].pc = req[d].pc /\ req'[d].id = req[d].id /\ req'[d].adapter = req[d].adapter
    BY <1>0, <2>1 DEF Joins, TypeOK, Request
  <2>4. \A d \in Clients : Same(d)
    BY <2>2, <2>3 DEF Same, Making, Removing
  <2> QED BY <1>1, <2>4, StoringElsewhere
<1>3. CASE ~RestoreGet(c)
  <2>1. \A d \in Clients \ {c} : req'[d] = req[d]
    BY <1>0, <1>3 DEF Restores, RestoreOpen, RestoreCreate, RestoreCopy, RestoreGarbles, RestoreEnds,
       RestoreFails, DownloadGet, DownloadSend, DownloadEnds, CreateLoad, Goto, Done, Accept, TypeOK
  <2>2. ~Making(c) /\ ~Removing(c)
    BY <1>3 DEF Restores, RestoreOpen, RestoreCreate, RestoreCopy, RestoreGarbles, RestoreEnds,
       RestoreFails, DownloadGet, DownloadSend, DownloadEnds, CreateLoad, Accept, At, Making, Removing
  <2>3. ~Making(c)' /\ ~Removing(c)'
    <3>1. req'[c].pc \in {"idle", "open", "send", "create", "copy", "garbled"}
      <4>1. CASE RestoreOpen(c)
        BY <1>0, <4>1 DEF RestoreOpen, TypeOK, Request
      <4>2. CASE RestoreCopy(c) \/ DownloadSend(c) \/ RestoreCreate(c) \/ RestoreGarbles(c)
        BY <1>0, <4>2 DEF RestoreCopy, DownloadSend, RestoreCreate, RestoreGarbles, Goto, At, TypeOK, Request
      <4>3. CASE DownloadGet(c)
        BY <1>0, <4>3 DEF DownloadGet, Accept, Idle, TypeOK, Request
      <4>4. CASE RestoreEnds(c) \/ RestoreFails(c) \/ DownloadEnds(c) \/ CreateLoad(c)
        BY <1>0, <4>4 DEF RestoreEnds, RestoreFails, DownloadEnds, CreateLoad, Done, Idle, TypeOK
      <4> QED BY <1>3, <4>1, <4>2, <4>3, <4>4 DEF Restores
    <3> QED BY <3>1 DEF Making, Removing
  <2>4. \A d \in Clients : Same(d)
    BY <2>1, <2>2, <2>3 DEF Same, Making, Removing
  <2> QED BY <1>1, <2>4, StoringElsewhere
<1> QED BY <1>2, <1>3

\* Only client c goes on, and it has neither begun to make nor to remove.
Others(c) == \A d \in Clients \ {c} : req'[d] = req[d]
Leaves(c) == ~Making(c)' /\ ~Removing(c)'
Keeps(c)  == req'[c].id = req[c].id /\ req'[c].adapter = req[c].adapter

\* What a storage holds after a save or a deletion.
LEMMA PutHolds ==
  ASSUME TypeOK, NEW c \in Clients, req[c].id \in Backups, NEW b, Put(c, b)
  PROVE  \A a \in Adapters, p \in Paths :
           stores'[a][p] = IF a = req[c].adapter /\ p = PathOf(c) THEN b ELSE stores[a][p]
<1>1. req[c].adapter \in Adapters /\ PathOf(c) \in Paths
  BY DEF TypeOK, Request, PathOf
<1> QED BY <1>1 DEF TypeOK, Put

\* A save, whole or not.
LEMMA SaveStep ==
  ASSUME IInv, NEW c \in Clients, At(c, "save"), Others(c),
         UNCHANGED <<rows, begun, path, home, halved, deleted>>,
         Put(c, req[c].id) \/ UNCHANGED stores,
         \/ Leaves(c)
         \/ Put(c, req[c].id) /\ At(c, "record")' /\ Keeps(c)
  PROVE  StoringInv'
<1>0. TypeOK /\ MakerInv(c) /\ Making(c)
  BY DEF IInv, MakingInv, Making, At
<1>1. req[c].id \in begun /\ req[c].id \in Backups /\ req[c].adapter \in Adapters
      /\ PathOf(c) \in Paths
  BY <1>0, InHand DEF TypeOK, Request, PathOf
<1>2. \/ UNCHANGED stores
      \/ \A a \in Adapters, p \in Paths :
           stores'[a][p] = IF a = req[c].adapter /\ p = PathOf(c) THEN req[c].id ELSE stores[a][p]
  BY <1>0, <1>1, PutHolds
<1>3. PlaceInv'
  BY <1>1, <1>2 DEF IInv, PlaceInv, PathOf
<1>4. MakerInv(c)' /\ RemoverInv(c)'
  BY <1>0, CatalogAssumption DEF MakerInv, RemoverInv, Leaves, Keeps, Others, Making, Removing, At
<1>5. SavedInv(c)'
  <2>1. CASE Leaves(c)
    BY <2>1 DEF SavedInv, Leaves, Making, At
  <2>2. CASE Put(c, req[c].id) /\ At(c, "record")' /\ Keeps(c)
    BY <1>0, <1>1, <2>2, PutHolds DEF SavedInv, Keeps, PathOf
  <2> QED BY <2>1, <2>2
<1>6. ASSUME NEW d \in Clients \ {c} PROVE MakerInv(d)' /\ RemoverInv(d)' /\ SavedInv(d)'
  <2>1. req'[d] = req[d] /\ MakerInv(d) /\ RemoverInv(d) /\ SavedInv(d)
    BY DEF Others, IInv, MakingInv
  <2>2. MakerInv(d)'
    BY <1>0, <2>1 DEF MakerInv, Others, Leaves, Keeps, Making, Removing, At
  <2>3. RemoverInv(d)'
    <3>1. Removing(d) => req[d].id # req[c].id /\ req[d].id \in Backups
      BY <1>0, InHand DEF MakerInv
    <3>2. Removing(d) => PathOf(d) \in Paths
      BY <1>0, <3>1 DEF PathOf, TypeOK
    <3> QED BY <1>2, <2>1, <3>1, <3>2 DEF RemoverInv, Removing, At, PathOf, Adapters
  <2>4. SavedInv(d)'
    <3>1. At(d, "record") => /\ req[d].id # req[c].id /\ req[d].id \in Backups
                             /\ req[d].adapter \in Adapters
      BY <1>0, InHand DEF MakerInv, Making, At, TypeOK, Request
    <3>2. At(d, "record") /\ Sole(req[d].id) => PathOf(d) \in Paths /\ PathOf(d) # PathOf(c)
      BY <1>0, <1>1, <3>1 DEF PathOf, TypeOK, Sole
    <3> QED BY <1>2, <2>1, <3>1, <3>2 DEF SavedInv, At, PathOf, Sole
  <2> QED BY <2>2, <2>3, <2>4
<1>7. ListedIsStored'
  <2>1. \A b : Deleting(b) => Deleting(b)'
    BY <1>0 DEF Deleting, Others, At, Making
  <2>2. \A b \in rows : home[b] \in Adapters /\ path[b] \in Paths /\ b # req[c].id
    BY <1>0 DEF TypeOK, MakerInv
  <2>3. \A b \in rows : Sole(b) => path[b] # PathOf(c)
    BY <1>1, <2>2 DEF Sole, PathOf
  <2> QED BY <1>2, <2>1, <2>2, <2>3 DEF IInv, ListedIsStored, Sole
<1>8. DeletedIsGone'
  <2>1. \A b \in deleted : path[b] \in Paths /\ b # req[c].id
    BY <1>0 DEF TypeOK, MakerInv
  <2> QED BY <1>2, <2>1 DEF IInv, DeletedIsGone, Adapters
<1> QED BY <1>3, <1>4, <1>5, <1>6, <1>7, <1>8 DEF StoringInv, MakingInv

\* The row of what was saved, made or not.
LEMMA RecordStep ==
  ASSUME IInv, NEW c \in Clients, At(c, "record"), Others(c), Leaves(c),
         UNCHANGED <<begun, path, stores, home, halved, deleted>>,
         rows' = rows \/ rows' = rows \union {req[c].id}
  PROVE  StoringInv'
<1>0. TypeOK /\ MakerInv(c) /\ Making(c) /\ SavedInv(c)
  BY DEF IInv, MakingInv, Making, At
<1>1. PlaceInv'
  BY DEF IInv, PlaceInv
<1>2. MakerInv(c)' /\ RemoverInv(c)' /\ SavedInv(c)'
  BY DEF MakerInv, RemoverInv, SavedInv, Leaves, Making, At
<1>3. ASSUME NEW d \in Clients \ {c} PROVE MakerInv(d)' /\ RemoverInv(d)' /\ SavedInv(d)'
  <2>1. req'[d] = req[d] /\ MakerInv(d) /\ RemoverInv(d) /\ SavedInv(d)
    BY DEF Others, IInv, MakingInv
  <2> QED BY <1>0, <2>1 DEF MakerInv, RemoverInv, SavedInv, Others, Leaves, Making, Removing, At,
             PathOf, Sole
<1>4. \A b : Deleting(b) => Deleting(b)'
  BY DEF Deleting, Others, At
<1>5. ListedIsStored'
  BY <1>0, <1>4 DEF IInv, ListedIsStored, Sole, SavedInv, MakerInv, PathOf
<1>6. DeletedIsGone'
  BY <1>0 DEF IInv, DeletedIsGone, MakerInv
<1> QED BY <1>1, <1>2, <1>3, <1>5, <1>6 DEF StoringInv, MakingInv

\* The object of a backup that is being deleted, gone or not.
LEMMA RemoveObjectStep ==
  ASSUME IInv, NEW c \in Clients, At(c, "deleteObject"), Others(c),
         UNCHANGED <<rows, begun, path, home, deleted>>,
         Put(c, None) \/ UNCHANGED stores,
         \/ Leaves(c) /\ halved' = halved \union {req[c].id}
         \/ Put(c, None) /\ At(c, "deleteRow")' /\ Keeps(c) /\ halved' = halved
  PROVE  StoringInv'
<1>0. TypeOK /\ RemoverInv(c) /\ Removing(c)
  BY DEF IInv, MakingInv, Removing, At
<1>1. req[c].id \in begun /\ req[c].id \in Backups /\ req[c].adapter = "s3"
      /\ PathOf(c) \in Paths
  BY <1>0, InHand DEF TypeOK, RemoverInv, PathOf
<1>2. \/ UNCHANGED stores
      \/ \A a \in Adapters, p \in Paths :
           stores'[a][p] = IF a = "s3" /\ p = PathOf(c) THEN None ELSE stores[a][p]
  BY <1>0, <1>1, PutHolds
<1>3. None \notin Backups
  BY CatalogAssumption
<1>4. PlaceInv'
  BY <1>2 DEF IInv, PlaceInv
<1>5. MakerInv(c)' /\ SavedInv(c)'
  BY DEF MakerInv, SavedInv, Leaves, Making, At
<1>6. RemoverInv(c)'
  <2>1. CASE Leaves(c)
    BY <2>1 DEF RemoverInv, Leaves
  <2>2. CASE Put(c, None) /\ At(c, "deleteRow")' /\ Keeps(c)
    BY <1>0, <1>1, <1>3, <2>2, PutHolds DEF RemoverInv, Keeps, PathOf, Adapters
  <2> QED BY <2>1, <2>2
<1>7. ASSUME NEW d \in Clients \ {c} PROVE MakerInv(d)' /\ RemoverInv(d)' /\ SavedInv(d)'
  <2>1. req'[d] = req[d] /\ MakerInv(d) /\ RemoverInv(d) /\ SavedInv(d)
    BY DEF Others, IInv, MakingInv
  <2>2. Making(d) => req[d].id # req[c].id
    BY <1>0, <2>1 DEF MakerInv
  <2>3. MakerInv(d)'
    BY <2>1, <2>2 DEF MakerInv, Others, Leaves, Keeps, Making, Removing, At
  <2>4. RemoverInv(d)'
    <3>1. Removing(d) => req[d].id \in Backups /\ PathOf(d) \in Paths
      BY <1>0, InHand DEF PathOf, TypeOK
    <3> QED BY <1>2, <1>3, <2>1, <3>1 DEF RemoverInv, Removing, At, PathOf, Adapters
  <2>5. SavedInv(d)'
    <3>1. At(d, "record") => req[d].id \in Backups /\ req[d].adapter \in Adapters
      BY <1>0, InHand DEF Making, At, TypeOK, Request
    <3>2. At(d, "record") /\ Sole(req[d].id) => PathOf(d) \in Paths /\ PathOf(d) # PathOf(c)
      BY <1>0, <1>1, <2>2, <3>1 DEF PathOf, TypeOK, Sole, Making, At
    <3> QED BY <1>2, <2>1, <3>1, <3>2 DEF SavedInv, At, PathOf, Sole
  <2> QED BY <2>3, <2>4, <2>5
<1>8. ListedIsStored'
  <2>1. \A b : Deleting(b) => Deleting(b)'
    BY DEF Deleting, Others, At
  <2>2. \A b : b = req[c].id => b \in halved' \/ Deleting(b)'
    BY DEF Deleting, Keeps, At
  <2>3. \A b \in rows : home[b] \in Adapters /\ path[b] \in Paths
    BY <1>0 DEF TypeOK
  <2>4. \A b \in rows : Sole(b) /\ b # req[c].id => path[b] # PathOf(c)
    BY <1>1, <2>3 DEF Sole, PathOf
  <2>5. ASSUME NEW b \in rows \ halved', Sole(b), ~Deleting(b)'
        PROVE  stores'[home[b]][path[b]] = b
    <3>1. b # req[c].id /\ ~Deleting(b) /\ b \notin halved
      BY <2>1, <2>2, <2>5
    <3>2. stores[home[b]][path[b]] = b
      BY <2>5, <3>1 DEF IInv, ListedIsStored
    <3> QED BY <1>2, <2>3, <2>4, <2>5, <3>1, <3>2
  <2> QED BY <2>5 DEF ListedIsStored, Sole
<1>9. DeletedIsGone'
  <2>1. \A b \in deleted : path[b] \in Paths /\ b \in Backups
    BY <1>0 DEF TypeOK
  <2> QED BY <1>2, <1>3, <2>1 DEF IInv, DeletedIsGone, Adapters
<1> QED BY <1>4, <1>5, <1>6, <1>7, <1>8, <1>9 DEF StoringInv, MakingInv

\* Its row, gone or not.
LEMMA RemoveRowStep ==
  ASSUME IInv, NEW c \in Clients, At(c, "deleteRow"), Others(c), Leaves(c),
         UNCHANGED <<begun, path, stores, home>>,
         \/ /\ rows' = rows \ {req[c].id}
            /\ deleted' = deleted \union {req[c].id}
            /\ halved' = halved
         \/ /\ rows' = rows \/ rows' = rows \ {req[c].id}
            /\ deleted' = deleted
            /\ halved' = halved \union {req[c].id}
  PROVE  StoringInv'
<1>0. TypeOK /\ RemoverInv(c) /\ Removing(c)
  BY DEF IInv, MakingInv, Removing, At
<1>1. PlaceInv'
  BY DEF IInv, PlaceInv
<1>2. MakerInv(c)' /\ RemoverInv(c)' /\ SavedInv(c)'
  BY DEF MakerInv, RemoverInv, SavedInv, Leaves, Making, At
<1>3. ASSUME NEW d \in Clients \ {c} PROVE MakerInv(d)' /\ RemoverInv(d)' /\ SavedInv(d)'
  <2>1. req'[d] = req[d] /\ MakerInv(d) /\ RemoverInv(d) /\ SavedInv(d)
    BY DEF Others, IInv, MakingInv
  <2> QED BY <1>0, <2>1 DEF MakerInv, RemoverInv, SavedInv, Others, Leaves, Making, Removing, At,
             PathOf, Sole
<1>4. \A b : Deleting(b) => Deleting(b)' \/ b = req[c].id
  BY DEF Deleting, Others, At
<1>5. ListedIsStored'
  BY <1>4 DEF IInv, ListedIsStored, Sole
<1>6. DeletedIsGone'
  BY <1>0 DEF IInv, DeletedIsGone, RemoverInv, PathOf, At
<1> QED BY <1>1, <1>2, <1>3, <1>5, <1>6 DEF StoringInv, MakingInv

\* A backup begins: nobody has heard of it.
LEMMA BeginStep ==
  ASSUME IInv, NEW c \in Clients, At(c, "idle"), Others(c),
         NEW b \in Backups \ begun, NEW p \in Paths, NEW a \in Adapters,
         At(c, "save")', req'[c].id = b, req'[c].adapter = a,
         path' = [path EXCEPT ![b] = p], home' = [home EXCEPT ![b] = a],
         begun' = begun \union {b}, UNCHANGED <<rows, stores, halved, deleted>>
  PROVE  StoringInv'
<1>0. TypeOK
  BY DEF IInv
<1>1. \A x \in begun : path'[x] = path[x] /\ home'[x] = home[x]
  BY <1>0 DEF TypeOK
<1>2. \A x \in begun : Sole(x)' => Sole(x)
  BY <1>1 DEF Sole
<1>3. PlaceInv'
  BY <1>1 DEF IInv, PlaceInv
<1>4. MakerInv(c)'
  <2>1. \A d \in Clients \ {c} : Making(d) \/ Removing(d) => req[d].id # b
    BY InHand
  <2>2. home'[b] = a
    BY <1>0 DEF TypeOK
  <2> QED BY <1>0, <2>1, <2>2 DEF MakerInv, Others, Making, Removing, At, TypeOK
<1>5. RemoverInv(c)' /\ SavedInv(c)'
  BY DEF RemoverInv, SavedInv, Removing, At
<1>6. ASSUME NEW d \in Clients \ {c} PROVE MakerInv(d)' /\ RemoverInv(d)' /\ SavedInv(d)'
  <2>1. req'[d] = req[d] /\ MakerInv(d) /\ RemoverInv(d) /\ SavedInv(d)
    BY DEF Others, IInv, MakingInv
  <2>2. Making(d) \/ Removing(d) => req[d].id \in begun
    BY InHand
  <2> QED BY <1>1, <1>2, <2>1, <2>2 DEF MakerInv, RemoverInv, SavedInv, Others, Making, Removing, At,
             PathOf
<1>7. \A x : Deleting(x) => Deleting(x)'
  BY DEF Deleting, Others, At
<1>8. ListedIsStored'
  BY <1>0, <1>1, <1>2, <1>7 DEF IInv, ListedIsStored, TypeOK
<1>9. DeletedIsGone'
  BY <1>0, <1>1 DEF IInv, DeletedIsGone, TypeOK
<1> QED BY <1>3, <1>4, <1>5, <1>6, <1>8, <1>9 DEF StoringInv, MakingInv

\* A deletion begins: of a backup that is listed, and so not being made.
LEMMA DeleteStep ==
  ASSUME IInv, NEW c \in Clients, At(c, "idle"), Others(c), NEW b \in rows,
         At(c, "deleteObject")', req'[c].id = b, req'[c].adapter = "s3",
         UNCHANGED StorageVars
  PROVE  StoringInv'
<1>0. TypeOK
  BY DEF IInv
<1>1. MakerInv(c)' /\ RemoverInv(c)' /\ SavedInv(c)'
  BY <1>0 DEF MakerInv, RemoverInv, SavedInv, Making, Removing, At, StorageVars, TypeOK
<1>2. ASSUME NEW d \in Clients \ {c} PROVE MakerInv(d)' /\ RemoverInv(d)' /\ SavedInv(d)'
  <2>1. req'[d] = req[d] /\ MakerInv(d) /\ RemoverInv(d) /\ SavedInv(d)
    BY DEF Others, IInv, MakingInv
  <2> QED BY <2>1 DEF MakerInv, RemoverInv, SavedInv, Others, Making, Removing, At, PathOf,
             StorageVars, Sole
<1>3. \A x : Deleting(x) => Deleting(x)'
  BY DEF Deleting, Others, At
<1>4. PlaceInv' /\ ListedIsStored' /\ DeletedIsGone'
  BY <1>3 DEF IInv, PlaceInv, ListedIsStored, DeletedIsGone, StorageVars, Sole
<1> QED BY <1>1, <1>2, <1>4 DEF StoringInv, MakingInv

LEMMA StoringStep == IInv /\ [Next]_vars => StoringInv'
<1> SUFFICES ASSUME IInv, [Next]_vars PROVE StoringInv'
  OBVIOUS
<1>0. TypeOK
  BY DEF IInv
<1>1. ASSUME NEW c \in Clients, CreateBegin(c) PROVE StoringInv'
  <2>1. PICK b \in Backups \ begun :
          \E p \in Paths, a \in AdaptersOf(c) :
            /\ Accept(c, "save", b, a)
            /\ path' = [path EXCEPT ![b] = p]
            /\ begun' = begun \union {b}
            /\ home' = [home EXCEPT ![b] = a]
    BY <1>1 DEF CreateBegin
  <2>2. PICK p \in Paths :
          \E a \in AdaptersOf(c) :
            /\ Accept(c, "save", b, a)
            /\ path' = [path EXCEPT ![b] = p]
            /\ begun' = begun \union {b}
            /\ home' = [home EXCEPT ![b] = a]
    BY <2>1
  <2>3. PICK a \in AdaptersOf(c) :
          /\ Accept(c, "save", b, a)
          /\ path' = [path EXCEPT ![b] = p]
          /\ begun' = begun \union {b}
          /\ home' = [home EXCEPT ![b] = a]
    BY <2>2
  <2>4. a \in Adapters
    BY AdaptersType
  <2>5. At(c, "idle") /\ Others(c) /\ At(c, "save")' /\ req'[c].id = b /\ req'[c].adapter = a
    BY <1>0, <2>3 DEF Accept, Others, At, Idle, TypeOK
  <2> QED BY <1>1, <2>3, <2>4, <2>5, BeginStep DEF CreateBegin
<1>2. ASSUME NEW c \in Clients, Done(c) PROVE Others(c) /\ Leaves(c)
  BY <1>0, <1>2 DEF Done, Idle, Others, Leaves, Making, Removing, TypeOK
<1>3. ASSUME NEW c \in Clients, CreateSave(c) PROVE StoringInv'
  <2>1. Others(c) /\ At(c, "record")' /\ Keeps(c)
    BY <1>0, <1>3 DEF CreateSave, Goto, Others, At, Keeps, TypeOK, Request
  <2> QED BY <1>3, <2>1, SaveStep DEF CreateSave, history
<1>4. ASSUME NEW c \in Clients, CreateSaveFails(c) PROVE StoringInv'
  BY <1>2, <1>4, SaveStep DEF CreateSaveFails, history
<1>5. ASSUME NEW c \in Clients, CreateRecord(c) PROVE StoringInv'
  <2>1. Others(c) /\ Leaves(c)
    <3>1. CASE Goto(c, "load")
      BY <1>0, <3>1 DEF Goto, Others, Leaves, Making, Removing, TypeOK, Request
    <3> QED BY <1>2, <1>5, <3>1 DEF CreateRecord
  <2> QED BY <1>5, <2>1, RecordStep DEF CreateRecord, history
<1>6. ASSUME NEW c \in Clients, CreateRecordFails(c) PROVE StoringInv'
  BY <1>2, <1>6, RecordStep DEF CreateRecordFails, history
<1>7. ASSUME NEW c \in Clients, DeleteGet(c) PROVE StoringInv'
  <2>1. PICK b \in rows : Accept(c, "deleteObject", b, "s3")
    BY <1>7 DEF DeleteGet
  <2>2. /\ At(c, "idle") /\ Others(c) /\ At(c, "deleteObject")'
        /\ req'[c].id = b /\ req'[c].adapter = "s3"
    BY <1>0, <2>1 DEF Accept, Others, At, Idle, TypeOK
  <2> QED BY <1>7, <2>1, <2>2, DeleteStep DEF DeleteGet, StorageVars, history
<1>8. ASSUME NEW c \in Clients, DeleteObject(c) PROVE StoringInv'
  <2>1. Others(c) /\ At(c, "deleteRow")' /\ Keeps(c)
    BY <1>0, <1>8 DEF DeleteObject, Goto, Others, At, Keeps, TypeOK, Request
  <2> QED BY <1>8, <2>1, RemoveObjectStep DEF DeleteObject, history
<1>9. ASSUME NEW c \in Clients, DeleteObjectFails(c) PROVE StoringInv'
  BY <1>2, <1>9, RemoveObjectStep DEF DeleteObjectFails
<1>10. ASSUME NEW c \in Clients, DeleteRow(c) PROVE StoringInv'
  BY <1>2, <1>10, RemoveRowStep DEF DeleteRow
<1>11. ASSUME NEW c \in Clients, DeleteRowFails(c) PROVE StoringInv'
  BY <1>2, <1>11, RemoveRowStep DEF DeleteRowFails
<1>12. ASSUME NEW c \in Clients, Dies(c) PROVE StoringInv'
  <2>1. Others(c) /\ Leaves(c)
    BY <1>2, <1>12 DEF Dies
  <2>2. CASE At(c, "save")
    BY <1>12, <2>1, <2>2, SaveStep DEF Dies, At
  <2>3. CASE At(c, "record")
    BY <1>12, <2>1, <2>3, RecordStep DEF Dies, At
  <2>4. CASE At(c, "deleteObject")
    BY <1>12, <2>1, <2>4, RemoveObjectStep DEF Dies, At
  <2>5. CASE At(c, "deleteRow")
    BY <1>12, <2>1, <2>5, RemoveRowStep DEF Dies, At
  <2>6. CASE ~Making(c) /\ ~Removing(c)
    <3>1. \A d \in Clients : Same(d)
      BY <2>1, <2>6 DEF Others, Leaves, Same, Making, Removing
    <3>2. UNCHANGED StorageVars
      BY <1>12, <2>6 DEF Dies, StorageVars, Making, Removing, At
    <3> QED BY <3>1, <3>2, StoringElsewhere
  <2> QED BY <2>2, <2>3, <2>4, <2>5, <2>6 DEF Making, Removing, At
<1>13. ASSUME UNCHANGED vars PROVE StoringInv'
  BY <1>13, StoringElsewhere DEF vars, history, StorageVars, Same, Making, Removing
<1> QED BY <1>1, <1>3, <1>4, <1>5, <1>6, <1>7, <1>8, <1>9, <1>10, <1>11, <1>12, <1>13, ReadersStore
        DEF Next, Creates, Deletes

----------------------------------------------------------------------------
(* What a restore has written.                                             *)

\* The backups that were begun keep their paths.
PathsStay == begun \subseteq begun' /\ \A x \in begun : path'[x] = path[x]

\* No client but c changes, and c does not join a restore.
NoneJoins(c) == Others(c) /\ (req'[c].to = None \/ req'[c].to = req[c].to)

\* A restore that another client's step leaves alone.
LEMMA WriterStays ==
  ASSUME IInv, PathsStay, NEW c \in Clients, NoneJoins(c), NEW d \in Clients,
         req'[d] = req[d],
         At(d, "copy") /\ req[d].alone => target'[req[d].to] = target[req[d].to]
  PROVE  WriterInv(d)'
<1>1. WriterInv(d)
  BY DEF IInv, WritingInv
<1>2. \A e \in Clients : req'[e].to = None \/ req'[e].to = req[e].to
  BY DEF NoneJoins, Others
<1>3. req[d].pc \in {"open", "create", "copy"} => PathOf(d)' = PathOf(d)
  BY <1>1 DEF WriterInv, PathOf, PathsStay
<1>4. req[d].pc \in {"create", "copy"} => From(d, req[d].got)'
  BY <1>1, <1>3 DEF WriterInv, From, Source, PathsStay
<1>5. req[d].alone /\ req[d].to # None => \A e \in Clients \ {d} : req'[e].to # req[d].to
  BY <1>1, <1>2 DEF WriterInv
<1>6. At(d, "copy") /\ req[d].alone =>
        \A k \in 1..Size :
          target'[req[d].to][k] = IF k <= req[d].n THEN req[d].got ELSE None
  BY <1>1 DEF WriterInv
<1> QED BY <1>1, <1>3, <1>4, <1>5, <1>6 DEF WriterInv, PathsStay, At

\* Nobody else writes to the file of a restore that is alone.
LEMMA AloneWrites ==
  ASSUME IInv, NEW c \in Clients, req[c].to # None, NEW d \in Clients \ {c}, req[d].alone
  PROVE  req[d].to # req[c].to
BY DEF IInv, WritingInv, WriterInv

\* Whoever does not restore leaves every restore as it is.
LEMMA WritingElsewhere ==
  ASSUME IInv, PathsStay, target' = target, NEW c \in Clients, NoneJoins(c),
         req'[c].pc \notin {"open", "create", "copy"},
         req'[c].to = None \/ req'[c].alone = req[c].alone
  PROVE  WritingInv'
<1>1. ASSUME NEW d \in Clients \ {c} PROVE WriterInv(d)'
  BY WriterStays DEF NoneJoins, Others
<1>2. WriterInv(c)'
  <2>1. WriterInv(c)
    BY DEF IInv, WritingInv
  <2> QED BY <2>1 DEF WriterInv, At, NoneJoins, Others
<1> QED BY <1>1, <1>2 DEF WritingInv

LEMMA WritingStep == IInv /\ [Next]_vars => WritingInv'
<1> SUFFICES ASSUME IInv, [Next]_vars PROVE WritingInv'
  OBVIOUS
<1>0. TypeOK
  BY DEF IInv
<1>a. UNCHANGED <<begun, path>> => PathsStay
  BY DEF PathsStay
<1>b. \A c \in Clients : Done(c) => NoneJoins(c) /\ req'[c].pc = "idle" /\ req'[c].to = None
  BY <1>0 DEF Done, Idle, NoneJoins, Others, TypeOK
<1>c. \A c \in Clients, pc \in Steps : Goto(c, pc) =>
        /\ NoneJoins(c) /\ req'[c].pc = pc
        /\ req'[c].id = req[c].id /\ req'[c].adapter = req[c].adapter /\ req'[c].got = req[c].got
        /\ req'[c].to = req[c].to /\ req'[c].n = req[c].n /\ req'[c].alone = req[c].alone
  BY <1>0 DEF Goto, NoneJoins, Others, TypeOK, Request
<1>1. ASSUME NEW c \in Clients, CreateBegin(c) PROVE WritingInv'
  <2>1. PathsStay
    BY <1>0, <1>1 DEF CreateBegin, PathsStay, TypeOK
  <2>2. NoneJoins(c) /\ req'[c].pc = "save" /\ req'[c].to = None
    BY <1>0, <1>1 DEF CreateBegin, Accept, Idle, NoneJoins, Others, TypeOK
  <2> QED BY <1>1, <2>1, <2>2, WritingElsewhere DEF CreateBegin
<1>2. ASSUME NEW c \in Clients, Done(c), UNCHANGED <<begun, path, target>> PROVE WritingInv'
  BY <1>2, <1>a, <1>b, WritingElsewhere
<1>3. ASSUME NEW c \in Clients, NEW pc \in {"record", "load", "deleteRow"}, Goto(c, pc),
             UNCHANGED <<begun, path, target>>
      PROVE  WritingInv'
  BY <1>3, <1>a, <1>c, WritingElsewhere DEF Steps
<1>4. ASSUME NEW c \in Clients, DeleteGet(c) PROVE WritingInv'
  <2>1. NoneJoins(c) /\ req'[c].pc = "deleteObject" /\ req'[c].to = None
    BY <1>0, <1>4 DEF DeleteGet, Accept, Idle, NoneJoins, Others, TypeOK
  <2> QED BY <1>4, <1>a, <2>1, WritingElsewhere DEF DeleteGet
<1>5. ASSUME NEW c \in Clients, DownloadGet(c) PROVE WritingInv'
  <2>1. /\ NoneJoins(c) /\ req'[c].pc = "open" /\ req'[c].to = None
        /\ req'[c].n = 0 /\ req'[c].id \in begun
    BY <1>0, <1>5 DEF DownloadGet, Accept, Idle, NoneJoins, Others, TypeOK
  <2>2. WriterInv(c)'
    BY <1>5, <2>1 DEF WriterInv, At, DownloadGet
  <2>3. ASSUME NEW d \in Clients \ {c} PROVE WriterInv(d)'
    BY <1>5, <1>a, <2>1, WriterStays DEF NoneJoins, Others, DownloadGet
  <2> QED BY <2>2, <2>3 DEF WritingInv
<1>6. ASSUME NEW c \in Clients, RestoreGet(c) PROVE WritingInv'
  <2>1. PICK b \in rows, a \in AdaptersOf(c), t \in Targets : Joins(c, b, a, t)
    BY <1>6, Zenon DEF RestoreGet, Joins
  <2>2. /\ req'[c].pc = "open" /\ req'[c].n = 0 /\ req'[c].id \in begun
        /\ req'[c].to = t /\ req'[c].alone = (Writing(t) = {})
    BY <1>0, <2>1 DEF Joins, Idle, TypeOK
  <2>3. ASSUME NEW d \in Clients \ {c}
        PROVE  /\ req'[d].pc = req[d].pc /\ req'[d].id = req[d].id /\ req'[d].got = req[d].got
               /\ req'[d].to = req[d].to /\ req'[d].n = req[d].n
               /\ req'[d].alone => req[d].alone /\ req[d].to # t
    BY <1>0, <2>1 DEF Joins, TypeOK, Request, Writing
  <2>4. WriterInv(c)'
    <3>1. Writing(t) = {} => \A d \in Clients \ {c} : req'[d].to # t
      BY <2>3 DEF Writing
    <3> QED BY <1>6, <2>2, <3>1 DEF WriterInv, At, RestoreGet
  <2>5. ASSUME NEW d \in Clients \ {c} PROVE WriterInv(d)'
    <3>1. WriterInv(d)
      BY DEF IInv, WritingInv
    <3>2. PathOf(d)' = PathOf(d) /\ From(d, req[d].got)' = From(d, req[d].got)
      BY <1>6, <2>3 DEF PathOf, From, Source, RestoreGet
    <3>3. req'[d].alone /\ req'[d].to # None => \A e \in Clients \ {d} : req'[e].to # req'[d].to
      BY <2>2, <2>3, <3>1 DEF WriterInv
    <3>4. At(d, "copy")' /\ req'[d].alone =>
            \A k \in 1..Size :
              target'[req'[d].to][k] = IF k <= req'[d].n THEN req'[d].got ELSE None
      <4>1. At(d, "copy")' /\ req'[d].alone => At(d, "copy") /\ req[d].alone
        BY <2>3 DEF At
      <4>2. At(d, "copy") /\ req[d].alone =>
              \A k \in 1..Size :
                target[req[d].to][k] = IF k <= req[d].n THEN req[d].got ELSE None
        BY <3>1 DEF WriterInv
      <4>3. target' = target
        BY <1>6 DEF RestoreGet
      <4> QED BY <2>3, <4>1, <4>2, <4>3
    <3> QED BY <1>6, <2>3, <3>1, <3>2, <3>3, <3>4 DEF WriterInv, RestoreGet, From, Source
  <2> QED BY <2>4, <2>5 DEF WritingInv
<1>7. ASSUME NEW c \in Clients, RestoreOpen(c) PROVE WritingInv'
  <2>1. WriterInv(c) /\ req[c].pc = "open" /\ req[c].id \in begun /\ req[c].n = 0
    BY <1>7 DEF IInv, WritingInv, WriterInv, RestoreOpen, At
  <2>2. /\ NoneJoins(c) /\ req'[c].to = req[c].to /\ req'[c].alone = req[c].alone
        /\ req'[c].id = req[c].id /\ req'[c].n = 0 /\ req'[c].got = Found(c)
        /\ req'[c].pc = IF req[c].to = None THEN "send" ELSE "create"
    BY <1>0, <1>7, <2>1 DEF RestoreOpen, NoneJoins, Others, TypeOK, Request
  <2>3. From(c, Found(c))
    <3>1. req[c].adapter \in Adapters /\ req[c].id \in Backups
      BY <1>0, <2>1 DEF TypeOK, Request
    <3>2. PathOf(c) \in Paths
      BY <1>0, <3>1 DEF PathOf, TypeOK
    <3>3. OpensAs[PathOf(c)] \in Paths
      BY <3>2, CatalogAssumption
    <3> QED BY <1>7, <3>1, <3>2, <3>3 DEF IInv, PlaceInv, Found, From, Source, RestoreOpen
  <2>4. PathOf(c)' = PathOf(c)
    BY <1>7, <2>2 DEF PathOf, RestoreOpen
  <2>5. WriterInv(c)'
    <3>1. req[c].to # None => req[c].to \in Targets
      BY <1>0 DEF TypeOK, Request
    <3>2. From(c, req[c].got)'
      BY <1>7, <2>2, <2>3, <2>4 DEF From, Source, RestoreOpen
    <3>3. req'[c].alone /\ req'[c].to # None => \A d \in Clients \ {c} : req'[d].to # req'[c].to
      BY <2>1, <2>2 DEF WriterInv, NoneJoins, Others
    <3>4. /\ req'[c].pc # "open" /\ req'[c].pc # "copy"
          /\ req'[c].pc = "create" => req'[c].to \in Targets
          /\ req'[c].id \in begun'
      BY <1>7, <2>1, <2>2, <3>1 DEF RestoreOpen
    <3> QED BY <2>2, <3>2, <3>3, <3>4 DEF WriterInv, At
  <2>6. ASSUME NEW d \in Clients \ {c} PROVE WriterInv(d)'
    BY <1>7, <1>a, <2>2, WriterStays DEF NoneJoins, Others, RestoreOpen
  <2> QED BY <2>5, <2>6 DEF WritingInv
<1>8. ASSUME NEW c \in Clients, RestoreCreate(c) PROVE WritingInv'
  <2>1. WriterInv(c) /\ req[c].pc = "create" /\ req[c].n = 0 /\ req[c].to \in Targets
    BY <1>8 DEF IInv, WritingInv, WriterInv, RestoreCreate, At
  <2>2. /\ NoneJoins(c) /\ req'[c].pc = "copy" /\ req'[c].to = req[c].to
        /\ req'[c].alone = req[c].alone /\ req'[c].id = req[c].id
        /\ req'[c].n = 0 /\ req'[c].got = req[c].got
    BY <1>8, <1>c, <2>1 DEF RestoreCreate, Steps
  <2>3. WriterInv(c)'
    <3>1. \A k \in 1..Size : target'[req[c].to][k] = None /\ ~(k <= 0)
      BY <1>0, <1>8, <2>1, CatalogAssumption DEF RestoreCreate, TypeOK
    <3>2. From(c, req[c].got)'
      BY <1>8, <2>1, <2>2 DEF WriterInv, From, Source, PathOf, RestoreCreate
    <3> QED BY <1>8, <2>1, <2>2, <3>1, <3>2
            DEF WriterInv, RestoreCreate, At, NoneJoins, Others
  <2>4. ASSUME NEW d \in Clients \ {c} PROVE WriterInv(d)'
    <3>1. req[d].alone => req[d].to # req[c].to
      BY <2>1, AloneWrites, CatalogAssumption
    <3>2. At(d, "copy") => req[d].to \in Targets
      BY DEF IInv, WritingInv, WriterInv, At
    <3>3. At(d, "copy") /\ req[d].alone => target'[req[d].to] = target[req[d].to]
      BY <1>0, <1>8, <3>1, <3>2 DEF RestoreCreate, TypeOK
    <3> QED BY <1>8, <1>a, <2>2, <3>3, WriterStays DEF NoneJoins, Others, RestoreCreate
  <2> QED BY <2>3, <2>4 DEF WritingInv
<1>9. ASSUME NEW c \in Clients, RestoreCopy(c) PROVE WritingInv'
  <2>1. WriterInv(c) /\ req[c].pc = "copy" /\ req[c].to \in Targets /\ req[c].n \in 0..Size
    BY <1>0, <1>9 DEF IInv, WritingInv, WriterInv, RestoreCopy, At, TypeOK, Request
  <2>2. /\ NoneJoins(c) /\ req'[c].pc = "copy" /\ req'[c].to = req[c].to
        /\ req'[c].alone = req[c].alone /\ req'[c].id = req[c].id
        /\ req'[c].n = req[c].n + 1 /\ req'[c].got = req[c].got
    BY <1>0, <1>9, <2>1 DEF RestoreCopy, NoneJoins, Others, TypeOK, Request
  <2>3. /\ target'[req[c].to][req[c].n + 1] = req[c].got
        /\ \A k \in 1..Size : k # req[c].n + 1 => target'[req[c].to][k] = target[req[c].to][k]
    BY <1>0, <1>9, <2>1, CatalogAssumption DEF RestoreCopy, TypeOK
  <2>4. WriterInv(c)'
    <3>1. ASSUME req[c].alone, NEW k \in 1..Size
          PROVE  target'[req[c].to][k] = IF k <= req[c].n + 1 THEN req[c].got ELSE None
      <4>1. target[req[c].to][k] = IF k <= req[c].n THEN req[c].got ELSE None
        BY <2>1, <3>1 DEF WriterInv, At
      <4>2. k # req[c].n + 1 => (k <= req[c].n + 1 <=> k <= req[c].n)
        BY <2>1, CatalogAssumption
      <4>3. k = req[c].n + 1 => k <= req[c].n + 1
        BY <2>1
      <4> QED BY <2>3, <4>1, <4>2, <4>3
    <3>2. From(c, req[c].got)'
      BY <1>9, <2>1, <2>2 DEF WriterInv, From, Source, PathOf, RestoreCopy
    <3> QED BY <1>9, <2>1, <2>2, <3>1, <3>2
            DEF WriterInv, RestoreCopy, At, NoneJoins, Others
  <2>5. ASSUME NEW d \in Clients \ {c} PROVE WriterInv(d)'
    <3>1. req[d].alone => req[d].to # req[c].to
      BY <2>1, AloneWrites, CatalogAssumption
    <3>2. At(d, "copy") => req[d].to \in Targets
      BY DEF IInv, WritingInv, WriterInv, At
    <3>3. At(d, "copy") /\ req[d].alone => target'[req[d].to] = target[req[d].to]
      BY <1>0, <1>9, <2>1, <3>1, <3>2 DEF RestoreCopy, TypeOK
    <3> QED BY <1>9, <1>a, <2>2, <3>3, WriterStays DEF NoneJoins, Others, RestoreCopy
  <2> QED BY <2>4, <2>5 DEF WritingInv
<1>10. ASSUME NEW c \in Clients, DownloadSend(c) PROVE WritingInv'
  <2>1. /\ NoneJoins(c) /\ req'[c].pc = "send" /\ req'[c].to = req[c].to
        /\ req'[c].alone = req[c].alone
    BY <1>0, <1>10 DEF DownloadSend, NoneJoins, Others, At, TypeOK, Request
  <2> QED BY <1>10, <1>a, <2>1, WritingElsewhere DEF DownloadSend
<1>11. ASSUME UNCHANGED vars PROVE WritingInv'
  <2>1. WritingInv
    BY DEF IInv
  <2> QED BY <1>11, <2>1 DEF vars, history, WritingInv, WriterInv, At, From, Source, PathOf
<1>12. ASSUME NEW c \in Clients,
              CreateSave(c) \/ CreateSaveFails(c) \/ CreateRecord(c) \/ CreateRecordFails(c)
       PROVE  WritingInv'
  BY <1>2, <1>3, <1>12 DEF CreateSave, CreateSaveFails, CreateRecord, CreateRecordFails
<1>13. ASSUME NEW c \in Clients,
              DeleteObject(c) \/ DeleteObjectFails(c) \/ DeleteRow(c) \/ DeleteRowFails(c)
       PROVE  WritingInv'
  BY <1>2, <1>3, <1>13 DEF DeleteObject, DeleteObjectFails, DeleteRow, DeleteRowFails
<1>14. ASSUME NEW c \in Clients,
              CreateLoad(c) \/ RestoreEnds(c) \/ RestoreFails(c) \/ DownloadEnds(c) \/ Dies(c)
       PROVE  WritingInv'
  BY <1>2, <1>14 DEF CreateLoad, RestoreEnds, RestoreFails, DownloadEnds, Dies
<1>15. ASSUME NEW c \in Clients, RestoreGarbles(c) PROVE WritingInv'
  <2>1. WriterInv(c) /\ req[c].pc = "copy" /\ req[c].to \in Targets
    BY <1>15 DEF IInv, WritingInv, WriterInv, RestoreGarbles, At
  <2>2. /\ NoneJoins(c) /\ req'[c].pc = "garbled" /\ req'[c].to = req[c].to
        /\ req'[c].alone = req[c].alone
    BY <1>15, <1>c DEF RestoreGarbles, Steps
  <2>3. WriterInv(c)'
    BY <2>1, <2>2 DEF WriterInv, At, NoneJoins, Others
  <2>4. ASSUME NEW d \in Clients \ {c} PROVE WriterInv(d)'
    <3>1. req[d].alone => req[d].to # req[c].to
      BY <2>1, AloneWrites, CatalogAssumption
    <3>2. At(d, "copy") => req[d].to \in Targets
      BY DEF IInv, WritingInv, WriterInv, At
    <3>3. At(d, "copy") /\ req[d].alone => target'[req[d].to] = target[req[d].to]
      BY <1>0, <1>15, <3>1, <3>2 DEF RestoreGarbles, TypeOK
    <3> QED BY <1>15, <1>a, <2>2, <3>3, WriterStays DEF NoneJoins, Others, RestoreGarbles
  <2> QED BY <2>3, <2>4 DEF WritingInv
<1> QED BY <1>1, <1>4, <1>5, <1>6, <1>7, <1>8, <1>9, <1>10, <1>11, <1>12, <1>13, <1>14, <1>15
        DEF Next, Creates, Deletes, Restores

----------------------------------------------------------------------------
(* The theorems.                                                           *)

LEMMA Initially == Init => IInv
<1> SUFFICES ASSUME Init PROVE IInv
  OBVIOUS
<1> USE CatalogAssumption DEF Init
<1>1. TypeOK
  <2>1. path \in [Backups -> Paths]
    OBVIOUS
  <2>2. req \in [Clients -> Request]
    BY IdleType
  <2> QED BY <2>1, <2>2 DEF TypeOK, Adapters
<1>2. PlaceInv /\ ListedIsStored /\ DeletedIsGone
  BY DEF PlaceInv, ListedIsStored, DeletedIsGone
<1>3. MakingInv /\ WritingInv
  BY DEF MakingInv, WritingInv, MakerInv, RemoverInv, SavedInv, WriterInv, Making, Removing, At, Idle
<1> QED BY <1>1, <1>2, <1>3 DEF IInv

LEMMA Inductive == IInv /\ [Next]_vars => IInv'
BY TypeStep, StoringStep, WritingStep DEF IInv, StoringInv

\* The invariant of everybody's work on the table, the storages and the files.
THEOREM Invariance == Spec => []IInv
BY Initially, Inductive, PTL DEF Spec

\* Every variable keeps its type, whoever fails or dies (Catalog.tla, all of
\* the handlers and commands).
THEOREM TypeCorrect == Spec => []TypeOK
<1>1. IInv => TypeOK
  BY DEF IInv
<1> QED BY <1>1, Invariance, PTL

\* A listed backup whose path is its own is in the storage it was saved to, unless
\* its deletion is between its two steps or has stopped there (RunBackup and the
\* handler of DELETE /backups/{id}).
THEOREM ListedStored == Spec => []ListedIsStored
<1>1. IInv => ListedIsStored
  BY DEF IInv
<1> QED BY <1>1, Invariance, PTL

\* A backup whose deletion was answered is neither listed nor in S3, for ever.
THEOREM DeletedGone == Spec => []DeletedIsGone
<1>1. IInv => DeletedIsGone
  BY DEF IInv
<1> QED BY <1>1, Invariance, PTL

\* What a restore has written is the beginning of what one backup stored, of any
\* size, and the rest of its file is empty (RestoreFromReader: os.Create, io.Copy).
LEMMA WrittenSoFar ==
  ASSUME IInv, NEW c \in Clients, At(c, "copy"), req[c].alone
  PROVE  \E x \in begun :
           /\ Source(c, x)
           /\ target[req[c].to] = [k \in 1..Size |-> IF k <= req[c].n THEN x ELSE None]
<1>1. TypeOK /\ WriterInv(c)
  BY DEF IInv, WritingInv
<1>2. req[c].to \in Targets /\ From(c, req[c].got)
  BY <1>1 DEF WriterInv, At
<1>3. \A k \in 1..Size : target[req[c].to][k] = IF k <= req[c].n THEN req[c].got ELSE None
  BY <1>1 DEF WriterInv
<1>4. target[req[c].to] \in [1..Size -> Backups \union {None}]
  BY <1>1, <1>2 DEF TypeOK
<1>5. target[req[c].to] = [k \in 1..Size |-> IF k <= req[c].n THEN req[c].got ELSE None]
  BY <1>3, <1>4
<1> QED BY <1>2, <1>5 DEF From

\* At any moment of a restore that was never joined by another one, and so when it
\* fails, dies or ends, its file holds the beginning of one backup as far as the
\* restore has come, and nothing else (RestoreFromReader: os.Create, io.Copy).
THEOREM WrittenPrefix == Spec => []WrittenIsPrefix
<1>1. IInv => WrittenIsPrefix
  BY WrittenSoFar DEF WrittenIsPrefix
<1> QED BY <1>1, Invariance, PTL

\* A restore that was never joined by another one and is answered with success
\* leaves in its file the whole of what one backup stored, of any size
\* (BackupController.Restore, RestoreFromReader).
THEOREM RestoredWhole == Spec => RestoredIsWhole
<1>1. ASSUME IInv, NEW c \in Clients, RestoreEnds(c), req[c].alone
      PROVE  \E x \in begun : Source(c, x) /\ target[req[c].to] = [k \in 1..Size |-> x]
  <2>1. At(c, "copy") /\ req[c].n = Size
    BY <1>1 DEF RestoreEnds
  <2>2. PICK x \in begun :
          /\ Source(c, x)
          /\ target[req[c].to] = [k \in 1..Size |-> IF k <= req[c].n THEN x ELSE None]
    BY <1>1, <2>1, WrittenSoFar
  <2>3. \A k \in 1..Size : k <= req[c].n
    BY <2>1, CatalogAssumption
  <2>4. target[req[c].to] = [k \in 1..Size |-> x]
    BY <2>2, <2>3
  <2> QED BY <2>2, <2>4
<1>2. IInv => [\A c \in Clients :
                 RestoreEnds(c) /\ req[c].alone
                   => \E x \in begun :
                        Source(c, x) /\ target[req[c].to] = [k \in 1..Size |-> x]]_vars
  BY <1>1
<1> QED BY <1>2, Invariance, PTL DEF RestoredIsWhole

============================================================================
