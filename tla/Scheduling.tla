----------------------------- MODULE Scheduling -----------------------------
(***************************************************************************)
(* The schedules: their rows in the metadata database, the cron entries    *)
(* of the running controller, the map from schedule ids to cron entries,   *)
(* and everybody who changes them: the HTTP handlers of ScheduleController *)
(* (each one a goroutine, none of them holding a lock), the CLI, which     *)
(* writes to the same database from another process, and the controller's  *)
(* start and death.                                                        *)
(*                                                                         *)
(* A row is abstracted to a spec: the database type, source, cron          *)
(* expression and retention it holds.  Cron's EntryIDs are unique for the  *)
(* life of the process; here the entries of each schedule are numbered     *)
(* from 1 on, and 0 is the zero value a handler holds before it has one.   *)
(***************************************************************************)
EXTENDS Naturals, FiniteSets

CONSTANTS
  Ids,          \* the schedule ids the store can generate
  Specs,        \* what a row can say
  CronFields,   \* CronFields[s]: the number of fields of its cron expression
  Handlers,     \* the goroutines that serve HTTP requests
  StorageTypes, \* the cfg.Storage.Type it may be started with: "s3", "local"
  Listings,     \* whether ListSchedules succeeds at a start: TRUE, FALSE, or either
  MaxEntries,   \* bound on the cron entries made for one schedule
  None          \* no row, no id

ASSUME SchedulingAssumption ==
  /\ CronFields \in [Specs -> Nat]
  /\ StorageTypes \subseteq {"s3", "local"}
  /\ Listings \subseteq BOOLEAN
  /\ MaxEntries \in Nat
  /\ None \notin Ids \union Specs

VARIABLES
  table,      \* table[id]: the row of schedule id
  used,       \* the ids generated so far
  up,         \* the controller is running
  storage,    \* cfg.Storage.Type of the controller that runs, or ran last
  exit,       \* how the controller last stopped, until it starts again
  entries,    \* entries[id]: the cron entries that run schedule id
  last,       \* last[id]: the number of the last entry made for id
  entryOf,    \* scheduleEntryIDs[id], 0 if absent
  retention,  \* the retention job has a cron entry
  jobs,       \* the scheduled backups in flight
  req,        \* req[h]: the request handler h is serving
  disturbed   \* history: the ids whose row and entry may have come apart

cronVars == <<entries, last>>
vars == <<table, used, up, storage, exit, cronVars, entryOf, retention, jobs, req, disturbed>>

----------------------------------------------------------------------------
Ops == {"none", "create", "update", "delete"}
PCs == {"idle", "load", "remove", "removeCron", "removeMap",
        "update", "add", "addCron", "addMap"}

Request == [op: Ops, pc: PCs, id: Ids \union {None},
            spec: Specs \union {None}, entry: Nat]

NoRequest == [op |-> "none", pc |-> "idle", id |-> None, spec |-> None, entry |-> 0]

Entry == [n: Nat \ {0}, spec: Specs]

TypeOK ==
  /\ table \in [Ids -> Specs \union {None}]
  /\ used \subseteq Ids
  /\ up \in BOOLEAN
  /\ storage \in {"s3", "local"}
  /\ exit \in {"none", "killed", "race", "panic"}
  /\ entries \in [Ids -> SUBSET Entry]
  /\ last \in [Ids -> Nat]
  /\ entryOf \in [Ids -> Nat]
  /\ retention \in BOOLEAN
  /\ jobs \subseteq [id: Ids, spec: Specs]
  /\ req \in [Handlers -> Request]
  /\ \A h \in Handlers : req[h].pc # "idle" => req[h].id \in used
  /\ disturbed \subseteq Ids

\* The parser of cron.New(): minute, hour, day of month, month, day of week.
Parses(fields) == fields = 5

\* The expression of the retention job is "30 * * * * *".
RetentionFields == 6

Serving(id) == {h \in Handlers : req[h].pc # "idle" /\ req[h].id = id}

Init ==
  /\ table = [id \in Ids |-> None]
  /\ used = {}
  /\ up = FALSE
  /\ storage = "local"
  /\ exit = "none"
  /\ entries = [id \in Ids |-> {}]
  /\ last = [id \in Ids |-> 0]
  /\ entryOf = [id \in Ids |-> 0]
  /\ retention = FALSE
  /\ jobs = {}
  /\ req = [h \in Handlers |-> NoRequest]
  /\ disturbed = {}

----------------------------------------------------------------------------
(***************************************************************************)
(* The controller process.                                                 *)
(***************************************************************************)

\* main, with today's configuration: every row is given to AddSchedule, whose
\* error is ignored; nothing is if ListSchedules fails, and the controller
\* starts all the same.  Then Start adds the retention job, whose parse error is
\* only logged.
StartController ==
  /\ ~up
  /\ up' = TRUE
  /\ storage' \in StorageTypes
  /\ exit' = "none"
  /\ \E listed \in Listings :
       LET Loads(id) == listed /\ table[id] # None /\ Parses(CronFields[table[id]])
       IN  /\ entries' = [id \in Ids |-> IF Loads(id)
                                         THEN {[n |-> 1, spec |-> table[id]]}
                                         ELSE {}]
           /\ last' = [id \in Ids |-> IF Loads(id) THEN 1 ELSE 0]
           /\ entryOf' = [id \in Ids |-> IF Loads(id) THEN 1 ELSE 0]
           /\ disturbed' = IF listed THEN {} ELSE Ids
  /\ retention' = Parses(RetentionFields)
  /\ UNCHANGED <<table, used, jobs, req>>

\* Whatever the process held is gone; the database is not.
Stop(why) ==
  /\ up
  /\ up' = FALSE
  /\ exit' = why
  /\ entries' = [id \in Ids |-> {}]
  /\ last' = [id \in Ids |-> 0]
  /\ entryOf' = [id \in Ids |-> 0]
  /\ retention' = FALSE
  /\ jobs' = {}
  /\ req' = [h \in Handlers |-> NoRequest]
  /\ UNCHANGED <<table, used, storage, disturbed>>

Kill == Stop("killed")

\* The map has no lock.  While one handler writes to it, another one that
\* reads or writes it may be caught by the Go runtime, which ends the process.
WritesMap(h) == req[h].pc \in {"removeMap", "addMap"}
ReadsMap(h)  == req[h].pc \in {"remove", "add"}

MapRace ==
  /\ \E g, h \in Handlers : g # h /\ WritesMap(g) /\ (WritesMap(h) \/ ReadsMap(h))
  /\ Stop("race")

\* Cron runs an entry in a goroutine of its own.  The job hands s.s3 to
\* RunBackup, which is nil when the storage is local: Save dereferences it and
\* nothing recovers the panic.
Fire(id) ==
  /\ up
  /\ \E e \in entries[id] :
       /\ storage = "s3"
       /\ jobs' = jobs \union {[id |-> id, spec |-> e.spec]}
  /\ UNCHANGED <<table, used, up, storage, exit, cronVars, entryOf, retention, req, disturbed>>

FirePanics(id) ==
  /\ entries[id] # {}
  /\ storage = "local"
  /\ Stop("panic")

\* RunBackup is back, and last_run (not modelled) is set if it succeeded.
JobEnds(j) ==
  /\ j \in jobs
  /\ jobs' = jobs \ {j}
  /\ UNCHANGED <<table, used, up, storage, exit, cronVars, entryOf, retention, req, disturbed>>

----------------------------------------------------------------------------
(***************************************************************************)
(* The handlers.  Requests that are turned away before they change         *)
(* anything (a bad body, no such row, a database that fails first) are     *)
(* left out.  A handler that begins while another one serves the same      *)
(* schedule, and one that gives up half way, disturb it.                   *)
(***************************************************************************)
Unchanging == UNCHANGED <<up, storage, exit, retention, jobs>>

Goto(h, pc)  == req' = [req EXCEPT ![h].pc = pc]
Reply(h)     == req' = [req EXCEPT ![h] = NoRequest]
At(h, pc)    == req[h].pc = pc

Accept(h, op, pc, id, spec) ==
  req' = [req EXCEPT ![h] = [op |-> op, pc |-> pc, id |-> id, spec |-> spec, entry |-> 0]]

Overlap(id) == IF Serving(id) = {} THEN disturbed ELSE disturbed \union {id}

\* A new cron entry can be made for id within the bound of the model.
Room(id) == last[id] < MaxEntries

\* Mutant: the store hands out an id again.
CreateInsertReuses(h) ==
  /\ up /\ At(h, "idle")
  /\ \E id \in Ids \ used, s \in Specs :
       /\ table' = [table EXCEPT ![id] = s]
       /\ Accept(h, "create", "load", id, s)
  /\ Unchanging /\ UNCHANGED <<used, cronVars, entryOf, disturbed>>

\* POST /schedules: AddSchedule of the store inserts the row.
CreateInsert(h) ==
  /\ up /\ At(h, "idle")
  /\ \E id \in Ids \ used, s \in Specs :
       /\ table' = [table EXCEPT ![id] = s]
       /\ used' = used \union {id}
       /\ Accept(h, "create", "load", id, s)
  /\ Unchanging /\ UNCHANGED <<cronVars, entryOf, disturbed>>

\* The row is committed, but the client is told that it is not.
CreateInsertFails(h) ==
  /\ up /\ At(h, "idle")
  /\ \E id \in Ids \ used, s \in Specs :
       /\ table' = [table EXCEPT ![id] = s]
       /\ used' = used \union {id}
       /\ disturbed' = disturbed \union {id}
  /\ Unchanging /\ UNCHANGED <<cronVars, entryOf, req>>

\* GetSchedule of the row just made.
CreateLoad(h) ==
  LET id == req[h].id IN
  /\ At(h, "load")
  /\ table[id] # None
  /\ req' = [req EXCEPT ![h].pc = "add", ![h].spec = table[id]]
  /\ Unchanging /\ UNCHANGED <<table, used, cronVars, entryOf, disturbed>>

\* GetSchedule fails, or finds no row: the row, if any, is not scheduled.
CreateLoadFails(h) ==
  /\ At(h, "load")
  /\ disturbed' = disturbed \union {req[h].id}
  /\ Reply(h)
  /\ Unchanging /\ UNCHANGED <<table, used, cronVars, entryOf>>

\* PUT /schedules/{id}: the row is read and merged with the body.
UpdateGet(h) ==
  /\ up /\ At(h, "idle")
  /\ \E id \in used, s \in Specs :
       /\ table[id] # None
       /\ Room(id)
       /\ Accept(h, "update", "remove", id, s)
       /\ disturbed' = Overlap(id)
  /\ Unchanging /\ UNCHANGED <<table, used, cronVars, entryOf>>

\* Mutant: INSERT ... ON CONFLICT DO UPDATE, as AddSchedule has it.
UpdateRowUpserts(h) ==
  /\ At(h, "update")
  /\ table' = [table EXCEPT ![req[h].id] = req[h].spec]
  /\ Goto(h, "add")
  /\ Unchanging /\ UNCHANGED <<used, cronVars, entryOf, disturbed>>

\* UPDATE ... WHERE id: no row is not an error.
UpdateRow(h) ==
  LET id == req[h].id IN
  /\ At(h, "update")
  /\ table' = [table EXCEPT ![id] = IF @ = None THEN None ELSE req[h].spec]
  /\ Goto(h, "add")
  /\ Unchanging /\ UNCHANGED <<used, cronVars, entryOf, disturbed>>

\* The cron entry is gone by now; the row may or may not have been changed.
UpdateRowFails(h) ==
  LET id == req[h].id IN
  /\ At(h, "update")
  /\ \/ UNCHANGED table
     \/ table[id] # None /\ table' = [table EXCEPT ![id] = req[h].spec]
  /\ disturbed' = disturbed \union {id}
  /\ Reply(h)
  /\ Unchanging /\ UNCHANGED <<used, cronVars, entryOf>>

\* Mutant: the handler does not call RemoveSchedule.
DeleteRowOnly(h) ==
  /\ up /\ At(h, "idle")
  /\ \E id \in used :
       /\ table' = [table EXCEPT ![id] = None]
       /\ disturbed' = Overlap(id)
  /\ Unchanging /\ UNCHANGED <<used, cronVars, entryOf, req>>

\* DELETE /schedules/{id}: no row is not an error.
DeleteRow(h) ==
  /\ up /\ At(h, "idle")
  /\ \E id \in used :
       /\ table' = [table EXCEPT ![id] = None]
       /\ Accept(h, "delete", "remove", id, None)
       /\ disturbed' = Overlap(id)
  /\ Unchanging /\ UNCHANGED <<used, cronVars, entryOf>>

\* The row is gone, but its cron entry is left alone.
DeleteRowFails(h) ==
  /\ up /\ At(h, "idle")
  /\ \E id \in used :
       /\ table[id] # None
       /\ table' = [table EXCEPT ![id] = None]
       /\ disturbed' = disturbed \union {id}
  /\ Unchanging /\ UNCHANGED <<used, cronVars, entryOf, req>>

----------------------------------------------------------------------------
(***************************************************************************)
(* Scheduler.RemoveSchedule and Scheduler.AddSchedule, called by the       *)
(* handlers: each access to the map is a step.                             *)
(***************************************************************************)

\* A delete answers when RemoveSchedule returns; an update goes on.
AfterRemove(h) == IF req[h].op = "delete" THEN Reply(h) ELSE Goto(h, "update")

RemoveCheck(h) ==
  LET n == entryOf[req[h].id] IN
  /\ At(h, "remove")
  /\ IF n # 0
     THEN req' = [req EXCEPT ![h].pc = "removeCron", ![h].entry = n]
     ELSE AfterRemove(h)
  /\ Unchanging /\ UNCHANGED <<table, used, cronVars, entryOf, disturbed>>

RemoveCron(h) ==
  /\ At(h, "removeCron")
  /\ entries' = [entries EXCEPT ![req[h].id] = {e \in @ : e.n # req[h].entry}]
  /\ Goto(h, "removeMap")
  /\ Unchanging /\ UNCHANGED <<table, used, last, entryOf, disturbed>>

\* Mutant: the id stays in the map.
RemoveMapForgotten(h) ==
  /\ At(h, "removeMap")
  /\ AfterRemove(h)
  /\ Unchanging /\ UNCHANGED <<table, used, cronVars, entryOf, disturbed>>

RemoveMap(h) ==
  /\ At(h, "removeMap")
  /\ entryOf' = [entryOf EXCEPT ![req[h].id] = 0]
  /\ AfterRemove(h)
  /\ Unchanging /\ UNCHANGED <<table, used, cronVars, disturbed>>

\* A schedule that has an entry already is skipped, which is not an error.
AddCheck(h) ==
  /\ At(h, "add")
  /\ IF entryOf[req[h].id] # 0 THEN Reply(h) ELSE Goto(h, "addCron")
  /\ Unchanging /\ UNCHANGED <<table, used, cronVars, entryOf, disturbed>>

\* cron.AddFunc; when the expression does not parse, the client is answered
\* with an error and the row stays as it is.
AddCron(h) ==
  LET id == req[h].id
      n  == last[id] + 1
  IN
  /\ At(h, "addCron")
  /\ IF Parses(CronFields[req[h].spec])
     THEN /\ entries' = [entries EXCEPT ![id] = @ \union {[n |-> n, spec |-> req[h].spec]}]
          /\ last' = [last EXCEPT ![id] = n]
          /\ req' = [req EXCEPT ![h].pc = "addMap", ![h].entry = n]
     ELSE Reply(h) /\ UNCHANGED cronVars
  /\ Unchanging /\ UNCHANGED <<table, used, entryOf, disturbed>>

\* Mutant: the EntryID is not stored.
AddMapForgotten(h) ==
  /\ At(h, "addMap")
  /\ Reply(h)
  /\ Unchanging /\ UNCHANGED <<table, used, cronVars, entryOf, disturbed>>

AddMap(h) ==
  /\ At(h, "addMap")
  /\ entryOf' = [entryOf EXCEPT ![req[h].id] = req[h].entry]
  /\ Reply(h)
  /\ Unchanging /\ UNCHANGED <<table, used, cronVars, disturbed>>

----------------------------------------------------------------------------
(***************************************************************************)
(* The CLI: "dbback schedule add" and "dbback schedule remove" write to    *)
(* the database; a running controller does not hear of it.                 *)
(***************************************************************************)
CliAdd ==
  /\ \E id \in Ids \ used, s \in Specs :
       /\ table' = [table EXCEPT ![id] = s]
       /\ used' = used \union {id}
       /\ disturbed' = disturbed \union {id}
  /\ Unchanging /\ UNCHANGED <<cronVars, entryOf, req>>

CliRemove ==
  /\ \E id \in used :
       /\ table[id] # None
       /\ table' = [table EXCEPT ![id] = None]
       /\ disturbed' = disturbed \union {id}
  /\ Unchanging /\ UNCHANGED <<used, cronVars, entryOf, req>>

----------------------------------------------------------------------------
Accepts(h) ==
  CreateInsert(h) \/ CreateInsertFails(h) \/ UpdateGet(h) \/ DeleteRow(h) \/ DeleteRowFails(h)

Proceeds(h) ==
  \/ CreateLoad(h) \/ CreateLoadFails(h)
  \/ UpdateRow(h) \/ UpdateRowFails(h)
  \/ RemoveCheck(h) \/ RemoveCron(h) \/ RemoveMap(h)
  \/ AddCheck(h) \/ AddCron(h) \/ AddMap(h)

Next ==
  \/ StartController \/ Kill \/ MapRace
  \/ \E id \in Ids : Fire(id) \/ FirePanics(id)
  \/ \E j \in jobs : JobEnds(j)
  \/ \E h \in Handlers : Accepts(h) \/ Proceeds(h)
  \/ CliAdd \/ CliRemove

Spec == Init /\ [][Next]_vars

\* The controller is started again when it has stopped, and the Go runtime
\* lets every handler go on; nobody has to send a request.
FairSpec ==
  /\ Spec
  /\ WF_vars(StartController)
  /\ \A h \in Handlers : WF_vars(Proceeds(h))

----------------------------------------------------------------------------
(***************************************************************************)
(* Properties.                                                             *)
(***************************************************************************)
Runnable(id) == table[id] # None /\ Parses(CronFields[table[id]])

\* Cron runs exactly the stored row of id, and the map leads to its entry.
Synced(id) ==
  IF Runnable(id)
  THEN entryOf[id] # 0 /\ entries[id] = {[n |-> entryOf[id], spec |-> table[id]]}
  ELSE entryOf[id] = 0 /\ entries[id] = {}

\* What cron runs is what is stored, for every schedule that no request is
\* changing right now and that no overlapping requests, half-failed request or
\* CLI command has touched since the controller started.  Requests for other
\* schedules, malformed cron expressions and restarts do no harm.
UndisturbedInSync ==
  up => \A id \in Ids \ disturbed : Serving(id) = {} => Synced(id)

\* A cron entry that the map leads to exists in cron, however the handlers
\* interleave, unless a handler that has just removed it is about to clear the
\* map; so RemoveSchedule never takes a dead entry for the live one.
RecordedEntryIsLive ==
  \A id \in Ids :
    entryOf[id] # 0 => \/ \E e \in entries[id] : e.n = entryOf[id]
                       \/ \E h \in Serving(id) : At(h, "removeMap")

\* A schedule that was deleted is not stored again, although an update that
\* read its row before writes it afterwards (Update in schedule_controller.go,
\* UpdateSchedule in postgres.go); so a cron entry that such an update leaves
\* behind is gone with the next start of the controller.
DeletedStaysDeleted ==
  [][\A id \in used : table[id] = None => table'[id] = None]_vars

\* "Check if the schedule is already added to prevent duplicates"
\* (internal/scheduler/scheduler.go).
NoDuplicateEntries ==
  \A id \in Ids : \A d, e \in entries[id] : d = e

\* The scheduler "automatically runs backup jobs based on schedules defined via
\* the CLI or API" (README.md): a runnable schedule gets a cron entry.  (A start
\* whose ListSchedules fails breaks this as well; a run that is to show what the
\* CLI does behind a running controller gives Listings the value {TRUE}.)
StoredSchedulesRun ==
  \A id \in Ids : Runnable(id) ~> (entries[id] # {} \/ ~Runnable(id))

\* "The RunBackup function will handle which one to use"
\* (internal/scheduler/scheduler.go): no job takes the controller down.
JobsDoNotPanic == exit # "panic"

============================================================================
