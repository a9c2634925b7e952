----------------------------- MODULE BackupRun -----------------------------
(***************************************************************************)
(* RunBackup (internal/backup/backup.go) and the two storage adapters it   *)
(* writes through (internal/storage).  One call is two goroutines joined   *)
(* by an unbuffered io.Pipe: the dumper writes the dump through a gzip     *)
(* writer into the pipe and closes both; the caller hands the pipe's read  *)
(* end to adapter.Save, looks at the dump's error once Save is back and    *)
(* inserts the metadata row last.                                          *)
(*                                                                         *)
(* A dump is DumpLen[r] blocks followed by the trailer that closing the    *)
(* gzip writer adds.  Contents are abstracted to what tells a good object  *)
(* from a bad one: whose dump it holds, how many of its blocks, whether    *)
(* the trailer is there and whether another call wrote into the same file. *)
(***************************************************************************)
EXTENDS Naturals

CONSTANTS
  Runs,      \* the calls of RunBackup
  Labels,    \* the "<dbType>/<name>" prefixes of object names
  Label,     \* Label[r]: the prefix call r uses
  DumpLen,   \* DumpLen[r]: how many blocks the source of call r dumps to
  MaxClock,  \* bound on the clock, in seconds
  NoObject   \* the storage holds nothing under this name

ASSUME RunAssumption ==
  /\ Label \in [Runs -> Labels]
  /\ DumpLen \in [Runs -> Nat]
  /\ MaxClock \in Nat

VARIABLES
  adapter,   \* adapter[r]: the adapter call r is given
  scheduled, \* the calls made by the job of a schedule
  clock,     \* time.Now().Unix()
  start,     \* start[r]: the clock when call r began
  caller,    \* caller[r]: where the goroutine that called RunBackup is
  dumper,    \* dumper[r]: where the goroutine RunBackup spawned is
  sent,      \* sent[r]: blocks the dumper has written to the pipe
  pipe,      \* pipe[r]: the write the dumper is blocked in, if any
  dumpErr,   \* dumpErr[r]: the variable the two goroutines share
  taken,     \* taken[r]: blocks Save has read from the pipe
  ended,     \* ended[r]: Save has read the gzip trailer
  objects,   \* objects[n]: what a storage holds under a name
  rows,      \* the calls whose row is in the backups table
  notified   \* notified[r]: what was sent to Slack about call r, or tried to be

callVars   == <<adapter, scheduled>>
clockVars  == <<callVars, clock, start>>
dumperVars == <<dumper, sent, dumpErr>>
saveVars   == <<taken, ended>>
vars == <<clockVars, caller, dumperVars, pipe, saveVars, objects, rows, notified>>

----------------------------------------------------------------------------
Adapters == {"s3", "local"}
Names    == Adapters \X Labels \X (0..MaxClock)
Contents == [of: Runs, blocks: Nat, end: BOOLEAN, mixed: BOOLEAN]

ASSUME NoObjectAssumption == NoObject \notin Contents \union Nat

\* fmt.Sprintf("%s/%s-%d.gz", dbType, name, start.Unix()), in the storage of the
\* adapter.
Name(r) == <<adapter[r], Label[r], start[r]>>

Object(r, n, e) == [of |-> r, blocks |-> n, end |-> e, mixed |-> FALSE]

\* What storing the whole dump of r, and only it, leaves under its name.
FullObject(r) == Object(r, DumpLen[r], TRUE)

CallerStates == {"idle", "opening", "saving", "check", "record", "ok", "failed", "dead"}
DumperStates == {"none", "dumping", "closeGzip", "closePipe", "done", "dead"}
Active       == {"opening", "saving", "check", "record"}
Returned     == {"ok", "failed"}

\* The messages: "failed to save backup to storage" and "database dump failed" of
\* RunBackup, and "scheduled backup failed" of the job that called it.
Messages == {"save", "dump", "job"}

TypeOK ==
  /\ adapter \in [Runs -> Adapters]
  /\ scheduled \subseteq {r \in Runs : adapter[r] = "s3"}
  /\ clock \in 0..MaxClock
  /\ start \in [Runs -> 0..MaxClock]
  /\ caller \in [Runs -> CallerStates]
  /\ dumper \in [Runs -> DumperStates]
  /\ sent \in [Runs -> Nat]
  /\ \A r \in Runs : sent[r] <= DumpLen[r]
  /\ pipe \in [Runs -> {"empty", "block", "end"}]
  /\ dumpErr \in [Runs -> BOOLEAN]
  /\ taken \in [Runs -> Nat]
  /\ ended \in [Runs -> BOOLEAN]
  /\ objects \in [Names -> Contents \union {NoObject}]
  /\ rows \subseteq Runs
  /\ notified \in [Runs -> SUBSET Messages]

\* The job of a schedule passes s.s3, whatever the storage is.
Init ==
  /\ adapter \in [Runs -> Adapters]
  /\ scheduled \in SUBSET {r \in Runs : adapter[r] = "s3"}
  /\ clock = 0
  /\ start = [r \in Runs |-> 0]
  /\ caller = [r \in Runs |-> "idle"]
  /\ dumper = [r \in Runs |-> "none"]
  /\ sent = [r \in Runs |-> 0]
  /\ pipe = [r \in Runs |-> "empty"]
  /\ dumpErr = [r \in Runs |-> FALSE]
  /\ taken = [r \in Runs |-> 0]
  /\ ended = [r \in Runs |-> FALSE]
  /\ objects = [n \in Names |-> NoObject]
  /\ rows = {}
  /\ notified = [r \in Runs |-> {}]

Tick ==
  /\ clock < MaxClock
  /\ clock' = clock + 1
  /\ UNCHANGED <<callVars, start, caller, dumperVars, pipe, saveVars, objects, rows, notified>>

\* start := time.Now(), the pipe and the gzip writer are made, the dumper is
\* spawned and adapter.Save is entered.
Begin(r) ==
  /\ caller[r] = "idle"
  /\ start' = [start EXCEPT ![r] = clock]
  /\ caller' = [caller EXCEPT ![r] = "opening"]
  /\ dumper' = [dumper EXCEPT ![r] = "dumping"]
  /\ UNCHANGED <<callVars, clock, sent, dumpErr, pipe, saveVars, objects, rows, notified>>

----------------------------------------------------------------------------
(***************************************************************************)
(* The dumper: performDump, then the two deferred closes, last one first.  *)
(* A write to the pipe returns when the other end has taken it, so every   *)
(* step waits for the previous write.                                      *)
(***************************************************************************)
Unblocked(r, pc) == dumper[r] = pc /\ pipe[r] = "empty"

\* Mutant: one block too many.
DumpBlockTooMany(r) ==
  /\ Unblocked(r, "dumping")
  /\ sent[r] <= DumpLen[r]
  /\ sent' = [sent EXCEPT ![r] = @ + 1]
  /\ pipe' = [pipe EXCEPT ![r] = "block"]
  /\ UNCHANGED <<clockVars, caller, dumper, dumpErr, saveVars, objects, rows, notified>>

DumpBlock(r) ==
  /\ Unblocked(r, "dumping")
  /\ sent[r] < DumpLen[r]
  /\ sent' = [sent EXCEPT ![r] = @ + 1]
  /\ pipe' = [pipe EXCEPT ![r] = "block"]
  /\ UNCHANGED <<clockVars, caller, dumper, dumpErr, saveVars, objects, rows, notified>>

\* performDump returns: nil after the last block, or an error after any of
\* them (an unreadable file, an unsupported type, a dump command that fails).
DumpReturns(r) ==
  /\ Unblocked(r, "dumping")
  /\ \E failed \in BOOLEAN :
       /\ failed \/ sent[r] = DumpLen[r]
       /\ dumpErr' = [dumpErr EXCEPT ![r] = failed]
  /\ dumper' = [dumper EXCEPT ![r] = "closeGzip"]
  /\ UNCHANGED <<clockVars, caller, sent, pipe, saveVars, objects, rows, notified>>

\* Mutant: gzip is not closed.
CloseGzipForgotten(r) ==
  /\ Unblocked(r, "closeGzip")
  /\ dumper' = [dumper EXCEPT ![r] = "closePipe"]
  /\ UNCHANGED <<clockVars, caller, sent, dumpErr, pipe, saveVars, objects, rows, notified>>

CloseGzip(r) ==
  /\ Unblocked(r, "closeGzip")
  /\ pipe' = [pipe EXCEPT ![r] = "end"]
  /\ dumper' = [dumper EXCEPT ![r] = "closePipe"]
  /\ UNCHANGED <<clockVars, caller, sent, dumpErr, saveVars, objects, rows, notified>>

\* Mutant: the goroutine ends without closing the pipe.
ClosePipeForgotten(r) ==
  /\ Unblocked(r, "closePipe")
  /\ dumper' = [dumper EXCEPT ![r] = "dead"]
  /\ UNCHANGED <<clockVars, caller, sent, dumpErr, pipe, saveVars, objects, rows, notified>>

\* From here on the other end of the pipe reads io.EOF.
ClosePipe(r) ==
  /\ Unblocked(r, "closePipe")
  /\ dumper' = [dumper EXCEPT ![r] = "done"]
  /\ UNCHANGED <<clockVars, caller, sent, dumpErr, pipe, saveVars, objects, rows, notified>>

----------------------------------------------------------------------------
(***************************************************************************)
(* The caller, inside adapter.Save.  Local creates (and truncates) the     *)
(* file first and appends what it reads; S3 publishes the object in one    *)
(* piece when the stream has ended.                                        *)
(***************************************************************************)
SaveOpens(r) ==
  /\ caller[r] = "opening"
  /\ caller' = [caller EXCEPT ![r] = "saving"]
  /\ objects' = IF adapter[r] = "local"
                THEN [objects EXCEPT ![Name(r)] = Object(r, 0, FALSE)]
                ELSE objects
  /\ UNCHANGED <<clockVars, dumperVars, pipe, saveVars, rows, notified>>

\* The file as call r leaves it after writing one block or the trailer.
Appended(o, r, isEnd) ==
  IF o.of # r THEN [o EXCEPT !.mixed = TRUE]
  ELSE IF isEnd THEN [o EXCEPT !.end = TRUE]
  ELSE [o EXCEPT !.blocks = @ + 1]

SaveReads(r) ==
  /\ caller[r] = "saving"
  /\ pipe[r] # "empty"
  /\ taken' = [taken EXCEPT ![r] = IF pipe[r] = "block" THEN @ + 1 ELSE @]
  /\ ended' = [ended EXCEPT ![r] = @ \/ pipe[r] = "end"]
  /\ pipe' = [pipe EXCEPT ![r] = "empty"]
  /\ objects' = IF adapter[r] = "local"
                THEN [objects EXCEPT ![Name(r)] = Appended(@, r, pipe[r] = "end")]
                ELSE objects
  /\ UNCHANGED <<clockVars, caller, dumperVars, rows, notified>>

\* Mutant: Save stops at the gzip trailer and not at io.EOF.
AtTrailer(r) == caller[r] = "saving" /\ ended[r]

AtEOF(r) == caller[r] = "saving" /\ Unblocked(r, "done")

\* The storage once the stream of r has ended and the adapter has put it there.
Published(r) ==
  IF adapter[r] = "s3"
  THEN [objects EXCEPT ![Name(r)] = Object(r, taken[r], ended[r])]
  ELSE objects

\* Save has read io.EOF and returns without an error.
SaveReturns(r) ==
  /\ AtEOF(r)
  /\ caller' = [caller EXCEPT ![r] = "check"]
  /\ objects' = Published(r)
  /\ UNCHANGED <<clockVars, dumperVars, pipe, saveVars, rows, notified>>

\* Mutant: RunBackup does not look at the error Save returns.
SaveFailsUnseen(r) ==
  /\ caller[r] \in {"opening", "saving"}
  /\ caller' = [caller EXCEPT ![r] = "check"]
  /\ UNCHANGED objects \/ (AtEOF(r) /\ objects' = Published(r))
  /\ UNCHANGED <<clockVars, dumperVars, pipe, saveVars, rows, notified>>

\* A failing call tries to send what RunBackup itself has to say, and after its
\* return the job, if one called it, tells of any error.  (A process that dies between
\* the two messages sends the first one only.)
Notify(r, own) ==
  notified' = [notified EXCEPT ![r] = @ \union own \union {m \in {"job"} : r \in scheduled}]

\* Mutant: Save is tried again on what is left of the stream.
SaveFailsRetried(r) ==
  /\ caller[r] \in {"opening", "saving"}
  /\ caller' = [caller EXCEPT ![r] = "opening"]
  /\ Notify(r, {"save"})
  /\ UNCHANGED <<clockVars, dumperVars, pipe, saveVars, objects, rows>>

\* Save fails, at any point; S3 may have the object all the same, when only
\* its last answer is lost.  Nobody closes the read end of the pipe: a dumper
\* that is not done stays blocked in its next write.
SaveFails(r) ==
  /\ caller[r] \in {"opening", "saving"}
  /\ caller' = [caller EXCEPT ![r] = "failed"]
  /\ Notify(r, {"save"})
  /\ UNCHANGED objects \/ (AtEOF(r) /\ objects' = Published(r))
  /\ UNCHANGED <<clockVars, dumperVars, pipe, saveVars, rows>>

----------------------------------------------------------------------------
(***************************************************************************)
(* The caller, after Save.                                                 *)
(***************************************************************************)
\* Mutant: RunBackup notifies and goes on.
CheckDumpGoesOn(r) ==
  /\ caller[r] = "check"
  /\ IF dumpErr[r] THEN Notify(r, {"dump"}) ELSE UNCHANGED notified
  /\ caller' = [caller EXCEPT ![r] = "record"]
  /\ UNCHANGED <<clockVars, dumperVars, pipe, saveVars, objects, rows>>

CheckDump(r) ==
  /\ caller[r] = "check"
  /\ \/ /\ dumpErr[r]
        /\ caller' = [caller EXCEPT ![r] = "failed"]
        /\ Notify(r, {"dump"})
     \/ /\ ~dumpErr[r]
        /\ caller' = [caller EXCEPT ![r] = "record"]
        /\ UNCHANGED notified
  /\ UNCHANGED <<clockVars, dumperVars, pipe, saveVars, objects, rows>>

Record(r) ==
  /\ caller[r] = "record"
  /\ caller' = [caller EXCEPT ![r] = "ok"]
  /\ rows' = rows \union {r}
  /\ UNCHANGED <<clockVars, dumperVars, pipe, saveVars, objects, notified>>

\* store.AddBackup returns an error.  The INSERT may have been committed all
\* the same, when only its answer is lost.  RunBackup sends no message of its own:
\* the job of a schedule tells of the error, and a direct caller's is only returned.
RecordFails(r) ==
  /\ caller[r] = "record"
  /\ caller' = [caller EXCEPT ![r] = "failed"]
  /\ rows' \in {rows, rows \union {r}}
  /\ Notify(r, {})
  /\ UNCHANGED <<clockVars, dumperVars, pipe, saveVars, objects>>

\* The process dies: killed, or exiting while a scheduled job still runs.  What
\* it asked of S3 or of the database last may be done after its death.
Crash(r) ==
  /\ caller[r] \in Active
  /\ caller' = [caller EXCEPT ![r] = "dead"]
  /\ dumper' = [dumper EXCEPT ![r] = "dead"]
  /\ \/ UNCHANGED <<objects, rows>>
     \/ AtEOF(r) /\ objects' = Published(r) /\ UNCHANGED rows
     \/ caller[r] = "record" /\ rows' = rows \union {r} /\ UNCHANGED objects
  /\ UNCHANGED <<clockVars, sent, dumpErr, pipe, saveVars, notified>>

----------------------------------------------------------------------------
DumperStep(r) == DumpBlock(r) \/ DumpReturns(r) \/ CloseGzip(r) \/ ClosePipe(r)

SaveStep(r) == SaveOpens(r) \/ SaveReads(r) \/ SaveReturns(r) \/ SaveFails(r)

CallerStep(r) == SaveStep(r) \/ CheckDump(r) \/ Record(r) \/ RecordFails(r)

Next ==
  \/ Tick
  \/ \E r \in Runs : Begin(r) \/ DumperStep(r) \/ CallerStep(r) \/ Crash(r)

Spec == Init /\ [][Next]_vars

(***************************************************************************)
(* Goroutines are scheduled fairly, and what they wait for outside the     *)
(* process (the dump command, the storage, the database) answers or fails. *)
(* Nothing obliges a call to begin, the clock to be read again, or a        *)
(* storage to fail so that a call that waits for its dumper gets away.     *)
(***************************************************************************)
GoesOn(r) ==
  \/ SaveOpens(r) \/ SaveReads(r) \/ SaveReturns(r)
  \/ CheckDump(r) \/ Record(r) \/ RecordFails(r)

FairSpec ==
  /\ Spec
  /\ \A r \in Runs : WF_vars(DumperStep(r)) /\ WF_vars(GoesOn(r))

----------------------------------------------------------------------------
(***************************************************************************)
(* Properties.                                                             *)
(***************************************************************************)
Started(r) == caller[r] # "idle"

\* No other call writes under the object name of r: one with the same type
\* and name that began within the same second would.
Sole(r) == \A x \in Runs \ {r} : Started(x) => Name(x) # Name(r)

\* A row in the backups table stands for a backup that can be restored: the
\* object holds the whole dump with its trailer, whatever failed on the way.
\* RunBackup owes this to the order of its steps: the error is read after
\* Save is back, the row is written last, gzip is closed before the pipe.
RecordedIsComplete ==
  \A r \in rows : Sole(r) => objects[Name(r)] = FullObject(r)

\* RunBackup reads dumpErr, which the dumper writes without a lock, only when
\* the dumper has returned; so a call that gets past Save leaves no goroutine
\* behind (one whose Save fails may).
DumperDoneWhenRead ==
  \A r \in Runs : caller[r] \in {"check", "record", "ok"} => dumper[r] = "done"

\* Neither goroutine waits for the other in vain: while Save waits for the stream
\* the dumper can go on with it or has ended it, and a dumper is left in a write
\* that nobody reads only by a Save that failed (it leaks then, with its dump
\* command, as nothing closes the read end).
NobodyIsStuck ==
  \A r \in Runs :
    /\ caller[r] = "saving" /\ pipe[r] = "empty" =>
         dumper[r] \in {"dumping", "closeGzip", "closePipe", "done"}
    /\ pipe[r] # "empty" /\ dumper[r] # "dead" => caller[r] \in {"opening", "saving", "failed"}

\* What is left to do for call r, at most: blocks, the dumper's returns and
\* closes, what is in the pipe, and the caller's steps.
DumperWork(pc) ==
  CASE pc = "dumping" -> 4 [] pc = "closeGzip" -> 3 [] pc = "closePipe" -> 1 [] OTHER -> 0

CallerWork(pc) ==
  CASE pc = "opening" -> 4 [] pc = "saving" -> 3 [] pc = "check" -> 2 [] pc = "record" -> 1
    [] OTHER -> 0

Work(r) ==
  2 * (DumpLen[r] - sent[r]) + (IF pipe[r] = "empty" THEN 0 ELSE 1)
  + DumperWork(dumper[r]) + CallerWork(caller[r])

State(r) == <<caller[r], dumper[r], sent[r], pipe[r], dumpErr[r], taken[r], ended[r]>>

\* No call goes round in circles, whatever fails: each step of its goroutines
\* leaves less to do, and no other call makes it more.  With NobodyIsStuck this
\* is why RunReturns holds for dumps of any length.
WorkRunsOut ==
  [][\A r \in Runs : Started(r) =>
       Work(r)' < Work(r) \/ (Work(r)' = Work(r) /\ State(r)' = State(r))]_vars

\* Every call of RunBackup returns: Save is never left waiting for the end of
\* a stream that the dumper does not close, nor the dumper for a reader.
RunReturns ==
  \A r \in Runs : (caller[r] = "opening") ~> (caller[r] \in Returned \union {"dead"})

\* A backup that is listed can be restored, whatever else was backed up
\* ("restore: Restore a specific backup from storage to a target file").
EveryRecordedIsComplete ==
  \A r \in rows : objects[Name(r)] = FullObject(r)

\* No backup whose dump failed, or of which RunBackup has told that it was not stored
\* or not dumped, is in the list of backups.  Only the job of a schedule can announce a
\* listed backup as failed, when the INSERT was committed and its answer lost: that
\* backup is whole all the same, if its name is its own (RecordedIsComplete).
FailedIsNotListed ==
  \A r \in rows : ~dumpErr[r] /\ notified[r] \subseteq {"job"}

----------------------------------------------------------------------------
(***************************************************************************)
(* RunBackup delivers BackupPromise.                                       *)
(***************************************************************************)
Status(r) ==
  CASE caller[r] = "idle" -> "idle"
    [] caller[r] \in Active -> "running"
    [] caller[r] = "ok" -> "recorded"
    [] caller[r] \in {"failed", "dead"} -> "failed"

Promise == INSTANCE BackupPromise WITH
  NoName <- NoObject,
  name   <- [r \in Runs |-> IF Started(r) THEN Name(r) ELSE NoObject],
  status <- [r \in Runs |-> Status(r)],
  stored <- [r \in Runs |-> Started(r) /\ objects[Name(r)] = FullObject(r)]

KeepsPromise == Promise!Spec

(***************************************************************************)
(* RunBackup is the job whose object and row Retention follows: the steps  *)
(* of its goroutines and of Save amount to the saving and the recording    *)
(* that Retention takes for one step each.                                 *)
(***************************************************************************)
Phase(r) ==
  CASE caller[r] = "idle" -> "none"
    [] caller[r] \in {"opening", "saving"} -> "save"
    [] caller[r] \in {"check", "record"} -> "record"
    [] caller[r] \in {"ok", "failed", "dead"} -> "ended"

\* Save is over, and something is stored under the name of r.
Stored(r) == Phase(r) \in {"record", "ended"} /\ objects[Name(r)] # NoObject

Jobs == INSTANCE Retention WITH
  Schedules <- Labels, Backups <- Runs, Sweeps <- {}, Days <- {0}, None <- NoObject,
  MaxClock  <- 0,
  clock     <- 0,
  policy    <- [s \in Labels |-> 0],
  owner     <- [r \in Runs |-> IF r \in rows THEN Label[r] ELSE NoObject],
  finished  <- [r \in Runs |-> 0],
  objects   <- {r \in Runs : Stored(r)},
  job       <- [r \in Runs |-> [pc |-> Phase(r),
                                of |-> IF Started(r) THEN Label[r] ELSE NoObject]],
  sweep     <- [w \in {} |-> NoObject],
  began     <- [w \in {} |-> NoObject],
  missed    <- [w \in {} |-> {}],
  lost      <- {r \in Runs : caller[r] \in {"failed", "dead"}},
  halved    <- {}

NoRivals == \A r \in Runs : Started(r) => Sole(r)

\* As long as no two calls meet on an object name, every call is a job as
\* Retention knows it: an object stays with its job, a row comes only after the
\* object, and whatever a failure leaves behind counts as lost.
IsScheduledJob ==
  Jobs!Init /\ [][NoRivals' => [Jobs!Next]_(Jobs!vars)]_vars

============================================================================
