------------------------------ MODULE Catalog ------------------------------
(***************************************************************************)
(* The backups table and the two storages it points into, under everybody  *)
(* who works on them at once: the HTTP handlers of BackupController and    *)
(* the commands "dbback backup" and "dbback restore", each of them a       *)
(* sequence of calls to the database and to a storage adapter that can     *)
(* fail, or die, between any two of them.  A row says under which path its *)
(* backup was saved, but not in which storage.                             *)
(*                                                                         *)
(* RunBackup is here at the grain of BackupPromise: an object appears      *)
(* whole, then a row.  The controller has S3 storage; a command uses S3    *)
(* too, or the local directory when it cannot reach S3.                    *)
(***************************************************************************)
EXTENDS Naturals

CONSTANTS
  Backups,   \* the ids that rows can have
  Paths,     \* storage paths
  OpensAs,   \* OpensAs[p]: the name S3's Open asks for when it is given p
  Targets,   \* files to restore to
  Size,      \* how many blocks a dump has
  Handlers,  \* goroutines that serve HTTP requests
  Commands,  \* runs of the CLI
  None       \* no backup, no target, an empty block

ASSUME CatalogAssumption ==
  /\ Paths # {}
  /\ OpensAs \in [Paths -> Paths]
  /\ Size \in Nat \ {0}
  /\ None \notin Backups \union Targets
  /\ Handlers \intersect Commands = {}

VARIABLES
  rows,    \* the ids in the backups table
  begun,   \* the backups that were ever begun
  path,    \* path[b]: the path backup b is saved under
  stores,  \* stores[a][p]: the backup whose dump adapter a has under path p
  home,    \* history: home[b] is the adapter backup b was begun with
  target,  \* target[t][k]: the backup block k of file t comes from
  req,     \* req[c]: what client c is doing
  halved,  \* history: the backups a deletion of which stopped half way
  deleted  \* history: the backups a client was told are deleted

history == <<home, halved, deleted>>
vars == <<rows, begun, path, stores, target, req, history>>

----------------------------------------------------------------------------
Clients  == Handlers \union Commands
Adapters == {"s3", "local"}
Steps    == {"idle", "save", "record", "load", "deleteObject", "deleteRow",
             "open", "create", "copy", "garbled", "send"}

Request == [pc: Steps, id: Backups \union {None}, adapter: Adapters,
            got: Backups \union {None}, to: Targets \union {None}, n: 0..Size, alone: BOOLEAN]

Idle == [pc |-> "idle", id |-> None, adapter |-> "s3",
         got |-> None, to |-> None, n |-> 0, alone |-> TRUE]

TypeOK ==
  /\ rows \subseteq begun
  /\ begun \subseteq Backups
  /\ path \in [Backups -> Paths]
  /\ stores \in [Adapters -> [Paths -> Backups \union {None}]]
  /\ home \in [Backups -> Adapters]
  /\ target \in [Targets -> [1..Size -> Backups \union {None}]]
  /\ req \in [Clients -> Request]
  /\ halved \subseteq begun
  /\ deleted \subseteq begun

Init ==
  /\ rows = {}
  /\ begun = {}
  /\ path = [b \in Backups |-> CHOOSE p \in Paths : TRUE]
  /\ stores = [a \in Adapters |-> [p \in Paths |-> None]]
  /\ home = [b \in Backups |-> "s3"]
  /\ target = [t \in Targets |-> [k \in 1..Size |-> None]]
  /\ req = [c \in Clients |-> Idle]
  /\ halved = {}
  /\ deleted = {}

At(c, pc)   == req[c].pc = pc
Goto(c, pc) == req' = [req EXCEPT ![c].pc = pc]
Done(c)     == req' = [req EXCEPT ![c] = Idle]

Accept(c, pc, b, a) ==
  /\ At(c, "idle")
  /\ req' = [req EXCEPT ![c] = [Idle EXCEPT !.pc = pc, !.id = b, !.adapter = a]]

\* The storages a client may be given: a command that cannot set S3 up takes the
\* local directory instead.
AdaptersOf(c) == IF c \in Handlers THEN {"s3"} ELSE Adapters

PathOf(c) == path[req[c].id]
Put(c, b) == stores' = [stores EXCEPT ![req[c].adapter][PathOf(c)] = b]

----------------------------------------------------------------------------
(***************************************************************************)
(* POST /backups and "dbback backup".                                      *)
(***************************************************************************)
CreateBegin(c) ==
  /\ \E b \in Backups \ begun, p \in Paths, a \in AdaptersOf(c) :
       /\ Accept(c, "save", b, a)
       /\ path' = [path EXCEPT ![b] = p]
       /\ begun' = begun \union {b}
       /\ home' = [home EXCEPT ![b] = a]
  /\ UNCHANGED <<rows, stores, target, halved, deleted>>

CreateSave(c) ==
  /\ At(c, "save")
  /\ Put(c, req[c].id)
  /\ Goto(c, "record")
  /\ UNCHANGED <<rows, begun, path, target, history>>

\* Mutant: the error of Save is not looked at.
CreateSaveUnseen(c) ==
  /\ At(c, "save")
  /\ Put(c, req[c].id) \/ UNCHANGED stores
  /\ Goto(c, "record")
  /\ UNCHANGED <<rows, begun, path, target, history>>

CreateSaveFails(c) ==
  /\ At(c, "save")
  /\ Put(c, req[c].id) \/ UNCHANGED stores
  /\ Done(c)
  /\ UNCHANGED <<rows, begun, path, target, history>>

\* The command is done; the handler loads the row it has just made, and answers
\* with it or with an error.
CreateRecord(c) ==
  /\ At(c, "record")
  /\ rows' = rows \union {req[c].id}
  /\ IF c \in Handlers THEN Goto(c, "load") ELSE Done(c)
  /\ UNCHANGED <<begun, path, stores, target, history>>

CreateRecordFails(c) ==
  /\ At(c, "record")
  /\ rows' \in {rows, rows \union {req[c].id}}
  /\ Done(c)
  /\ UNCHANGED <<begun, path, stores, target, history>>

CreateLoad(c) ==
  /\ At(c, "load")
  /\ Done(c)
  /\ UNCHANGED <<rows, begun, path, stores, target, history>>

----------------------------------------------------------------------------
(***************************************************************************)
(* DELETE /backups/{id}: the object goes first, the row last.              *)
(***************************************************************************)
DeleteGet(c) ==
  /\ c \in Handlers
  /\ \E b \in rows : Accept(c, "deleteObject", b, "s3")
  /\ UNCHANGED <<rows, begun, path, stores, target, history>>

\* S3 takes the deletion of what is not there for done.
DeleteObject(c) ==
  /\ At(c, "deleteObject")
  /\ Put(c, None)
  /\ Goto(c, "deleteRow")
  /\ UNCHANGED <<rows, begun, path, target, history>>

\* Mutant: the row is deleted although the object may be there.
DeleteObjectAnyway(c) ==
  /\ At(c, "deleteObject")
  /\ Put(c, None) \/ UNCHANGED stores
  /\ Goto(c, "deleteRow")
  /\ UNCHANGED <<rows, begun, path, target, history>>

DeleteObjectFails(c) ==
  /\ At(c, "deleteObject")
  /\ Put(c, None) \/ UNCHANGED stores
  /\ Done(c)
  /\ halved' = halved \union {req[c].id}
  /\ UNCHANGED <<rows, begun, path, target, home, deleted>>

DeleteRow(c) ==
  /\ At(c, "deleteRow")
  /\ rows' = rows \ {req[c].id}
  /\ Done(c)
  /\ deleted' = deleted \union {req[c].id}
  /\ UNCHANGED <<begun, path, stores, target, home, halved>>

DeleteRowFails(c) ==
  /\ At(c, "deleteRow")
  /\ rows' \in {rows, rows \ {req[c].id}}
  /\ Done(c)
  /\ halved' = halved \union {req[c].id}
  /\ UNCHANGED <<begun, path, stores, target, home, deleted>>

----------------------------------------------------------------------------
(***************************************************************************)
(* POST /backups/{id}/restore and "dbback restore"; a download opens and   *)
(* reads in the same way, but has no file to write.                        *)
(***************************************************************************)
\* The restores that write to file t.
Writing(t) == {d \in Clients : req[d].to = t}

RestoreGet(c) ==
  /\ At(c, "idle")
  /\ \E b \in rows, a \in AdaptersOf(c), t \in Targets :
       req' = [d \in Clients |->
                 IF d = c
                 THEN [Idle EXCEPT !.pc = "open", !.id = b, !.adapter = a, !.to = t,
                                   !.alone = Writing(t) = {}]
                 ELSE IF d \in Writing(t) THEN [req[d] EXCEPT !.alone = FALSE]
                 ELSE req[d]]
  /\ UNCHANGED <<rows, begun, path, stores, target, history>>

DownloadGet(c) ==
  /\ c \in Handlers
  /\ \E b \in rows : Accept(c, "open", b, "s3")
  /\ UNCHANGED <<rows, begun, path, stores, target, history>>

\* Save and Delete take a name as it is, S3's Open makes slashes of backslashes.
Found(c) ==
  stores[req[c].adapter][IF req[c].adapter = "s3" THEN OpensAs[PathOf(c)] ELSE PathOf(c)]

RestoreOpen(c) ==
  /\ At(c, "open")
  /\ Found(c) # None
  /\ req' = [req EXCEPT ![c].pc = IF req[c].to = None THEN "send" ELSE "create",
                       ![c].got = Found(c)]
  /\ UNCHANGED <<rows, begun, path, stores, target, history>>

\* Mutant: the file is opened as it is, without O_TRUNC.
RestoreCreateKeeps(c) ==
  /\ At(c, "create")
  /\ Goto(c, "copy")
  /\ UNCHANGED <<rows, begun, path, stores, target, history>>

\* os.Create: whatever the file held is gone before the first block is read.
RestoreCreate(c) ==
  /\ At(c, "create")
  /\ target' = [target EXCEPT ![req[c].to] = [k \in 1..Size |-> None]]
  /\ Goto(c, "copy")
  /\ UNCHANGED <<rows, begun, path, stores, history>>

\* What is still to come of an object is what was opened: S3 serves it to its end,
\* or nothing any more (If-Match).  A local file may have been rewritten in place.
Readable(c) == req[c].adapter = "s3" \/ Found(c) = req[c].got

\* Mutant: one block too many.
RestoreCopyTooMuch(c) ==
  LET k == req[c].n + 1 IN
  /\ At(c, "copy")
  /\ k <= Size + 1
  /\ target' = [target EXCEPT ![req[c].to] = [x \in 1..Size |-> req[c].got]]
  /\ req' = [req EXCEPT ![c].n = k]
  /\ UNCHANGED <<rows, begun, path, stores, history>>

\* Each restore writes at the offset it has come to itself.
RestoreCopy(c) ==
  LET k == req[c].n + 1 IN
  /\ At(c, "copy")
  /\ k <= Size
  /\ Readable(c)
  /\ target' = [target EXCEPT ![req[c].to][k] = req[c].got]
  /\ req' = [req EXCEPT ![c].n = k]
  /\ UNCHANGED <<rows, begun, path, stores, history>>

\* Mutant: the error of io.Copy is not looked at.
RestoreGarblesUnseen(c) ==
  /\ At(c, "copy")
  /\ req[c].n < Size
  /\ ~Readable(c)
  /\ \E x \in Backups \union {None} :
       target' = [target EXCEPT ![req[c].to] =
                    [k \in 1..Size |-> IF k <= req[c].n THEN @[k] ELSE x]]
  /\ req' = [req EXCEPT ![c].n = Size]
  /\ UNCHANGED <<rows, begun, path, stores, history>>

\* A local file is rewritten under its reader, who copies whatever it is by then,
\* before the checksum of gzip shows that it is not what it was.
RestoreGarbles(c) ==
  /\ At(c, "copy")
  /\ req[c].n < Size
  /\ ~Readable(c)
  /\ \E x \in Backups \union {None} :
       target' = [target EXCEPT ![req[c].to] =
                    [k \in 1..Size |-> IF k <= req[c].n THEN @[k] ELSE x]]
  /\ Goto(c, "garbled")
  /\ UNCHANGED <<rows, begun, path, stores, history>>

RestoreEnds(c) ==
  /\ At(c, "copy")
  /\ req[c].n = Size
  /\ Done(c)
  /\ UNCHANGED <<rows, begun, path, stores, target, history>>

DownloadSend(c) ==
  /\ At(c, "send")
  /\ req[c].n < Size
  /\ Readable(c)
  /\ req' = [req EXCEPT ![c].n = @ + 1]
  /\ UNCHANGED <<rows, begun, path, stores, target, history>>

\* The answer ends in the same way whether everything was sent or io.Copy failed.
DownloadEnds(c) ==
  /\ At(c, "send")
  /\ Done(c)
  /\ UNCHANGED <<rows, begun, path, stores, target, history>>

\* Opening, reading or writing fails; the file stays as it is.
RestoreFails(c) ==
  /\ req[c].pc \in {"open", "create", "copy", "garbled"}
  /\ Done(c)
  /\ UNCHANGED <<rows, begun, path, stores, target, history>>

----------------------------------------------------------------------------
\* The command is killed, or the controller with the request.  What it asked of
\* the storage or the database last may still be done.
Dies(c) ==
  /\ ~At(c, "idle")
  /\ Done(c)
  /\ \/ UNCHANGED <<rows, stores>>
     \/ At(c, "save") /\ Put(c, req[c].id) /\ UNCHANGED rows
     \/ At(c, "deleteObject") /\ Put(c, None) /\ UNCHANGED rows
     \/ At(c, "record") /\ rows' = rows \union {req[c].id} /\ UNCHANGED stores
     \/ At(c, "deleteRow") /\ rows' = rows \ {req[c].id} /\ UNCHANGED stores
  /\ halved' = IF req[c].pc \in {"deleteObject", "deleteRow"}
               THEN halved \union {req[c].id} ELSE halved
  /\ UNCHANGED <<begun, path, target, home, deleted>>

Creates(c) ==
  \/ CreateBegin(c) \/ CreateSave(c) \/ CreateSaveFails(c)
  \/ CreateRecord(c) \/ CreateRecordFails(c) \/ CreateLoad(c)

Deletes(c) ==
  DeleteGet(c) \/ DeleteObject(c) \/ DeleteObjectFails(c) \/ DeleteRow(c) \/ DeleteRowFails(c)

Restores(c) ==
  \/ RestoreGet(c) \/ RestoreOpen(c) \/ RestoreCreate(c)
  \/ RestoreCopy(c) \/ RestoreGarbles(c) \/ RestoreEnds(c) \/ RestoreFails(c)
  \/ DownloadGet(c) \/ DownloadSend(c) \/ DownloadEnds(c)

Next == \E c \in Clients : Creates(c) \/ Deletes(c) \/ Restores(c) \/ Dies(c)

Spec == Init /\ [][Next]_vars

----------------------------------------------------------------------------
(***************************************************************************)
(* Properties.                                                             *)
(***************************************************************************)

\* No other backup was begun under the path of b.
Sole(b) == \A x \in begun \ {b} : path[x] # path[b]

Deleting(b) == \E c \in Clients : At(c, "deleteRow") /\ req[c].id = b

\* A listed backup is in the storage it was saved to, until the very moment a
\* deletion takes both away: the row comes after the object and goes after it.
\* Only a deletion that stopped half way leaves a row that leads nowhere.
ListedIsStored ==
  \A b \in rows \ halved :
    Sole(b) /\ ~Deleting(b) => stores[home[b]][path[b]] = b

\* Who is told that a backup was deleted will not meet it again, whoever else
\* deletes, saves or dies: the row is gone, and so is the object in S3.
DeletedIsGone ==
  \A b \in deleted : b \notin rows /\ (home[b] = "s3" => stores["s3"][path[b]] # b)

\* Client c may open what backup x stored.
Source(c, x) == path[x] \in {PathOf(c), OpensAs[PathOf(c)]}

\* At any moment of a restore, and so when it fails, its file holds the beginning
\* of what one backup stored, as far as the restore has come, and nothing of what
\* it held before; unless somebody restores to the same file, or a local file was
\* rewritten while it was read.
WrittenIsPrefix ==
  \A c \in Clients :
    At(c, "copy") /\ req[c].alone =>
      \E x \in begun :
        /\ Source(c, x)
        /\ target[req[c].to] = [k \in 1..Size |-> IF k <= req[c].n THEN x ELSE None]

\* Who is told that a backup was restored has in the file, in whole, what one
\* backup stored, this one or one that saved under its very path or the name Open
\* makes of it (what a failed dump has left there counts, too), and no mixture,
\* whatever was deleted, saved or restored meanwhile, unless somebody else
\* restored to the same file at the same time.
RestoredIsWhole ==
  [][\A c \in Clients :
       RestoreEnds(c) /\ req[c].alone
         => \E x \in begun : Source(c, x) /\ target[req[c].to] = [k \in 1..Size |-> x]]_vars

============================================================================
