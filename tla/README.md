# dbback in TLA+

Models, model checks and proofs of dbback: a Go program that dumps databases,
streams the dumps compressed into S3 or a local directory, keeps a row per
backup in PostgreSQL, runs backups on cron schedules and restores them, through
a command line and a controller with an HTTP API.

## 1. The system

| Component | State it keeps | Operations | What must be right | Modelled in |
|---|---|---|---|---|
| Backup pipeline (`internal/backup`) | per call: a pipe, a gzip writer, `dumpErr` shared by two goroutines | `RunBackup`, `performDump`, `RestoreFromReader`, `StreamBackup` | a row only for a dump that is stored whole; every call returns | `BackupRun`, `BackupPromise`, `Catalog` |
| Storage adapters (`internal/storage`) | objects in S3, files under `backups/`; the bucket | `NewS3Adapter`, `Save`, `Open`, `Delete` | what is under a name is what was saved under it | `BackupRun`, `Catalog`, `Startup` |
| Scheduler (`internal/scheduler`) | cron's entries, `scheduleEntryIDs` (a map without a lock) | `AddSchedule`, `RemoveSchedule`, `Start`, `Stop`, its jobs | cron runs exactly the stored schedules, each once | `Scheduling`, `Retention` |
| Schedule API (`schedule_controller.go`) | none of its own | Create, Update, Delete, List | table, cron and map agree again after each request | `Scheduling` |
| Backup API (`backup_controller.go`, `handlers.go`) | none of its own | Create, Get, List, Delete, Download, Restore | rows and objects come and go together | `Catalog` |
| Controller (`cmd/controller`) | the process | start, shutdown | who is up is ready; a restart repairs what a crash took apart | `Startup`, `Scheduling` |
| Configuration (`internal/config`) | none | `Load`, `AuthSecret`, `ValidateProduction` | precedence of its sources; no development secret in production | `Startup` |
| CLI (`cmd/dbback`) | none; writes to the same database and storage | backup, restore, list, schedule add/list/remove | works beside a running controller | `Scheduling`, `Catalog`, `Startup` |
| Metadata store (`internal/metadata/postgres.go`) | tables `schedules`, `backups` (with a foreign key) | the migrations, one SQL statement each | all migrations or no store | `Startup`, and with its callers |
| Retention (`internal/retention`) | none | `ApplyRetention` | prunes what is old, all of it, and nothing else | `Retention` |
| Accounts (`users.go`, `auth_controller.go`) | table `users` | register, login, Google login | one account per address, one address per Google account | `Accounts` |
| Tokens (`internal/auth`, `middleware`) | none: stateless tokens | generate, validate, refresh | a session lasts as long as its client was told | `Sessions` |
| Encryption (`internal/crypto`) | per stream: a goroutine and a pipe | `EncryptReader`, `DecryptReader` | the whole text or an error | `CryptoStream` |
| File metadata store (`metadata.go`) | a JSON file | not used by the program | - | - |
| Notification, logging, health | none | I/O only | - | - |

They interact through three things they share: the database (all processes,
all handlers, all jobs), the storage (the same), and, inside the controller,
the scheduler's map and cron (all handlers). Calls to the database and to the
storage are separate steps that can fail, and every step can be the last one of
its process. That is where the hard behaviour is:

- the two goroutines of `RunBackup`, joined by an unbuffered pipe and an
  unlocked variable;
- handlers that read the map, change cron and write the map in separate steps;
- rows and objects, or rows and cron entries, changed in two steps of which the
  second may fail or never come;
- a CLI that changes the table behind a running controller;
- object names with a resolution of one second, written over without a check,
  and opened under another name than they were saved under;
- rows that do not say which storage they point into;
- retention that works on a snapshot, beside the jobs that make backups and the
  requests that change and delete their schedules;
- processes that all migrate the same database and make the same bucket when
  they start;
- tokens that outlive the process, and count time more coarsely than the answer
  that announces them.

`PROJECT.json` lists each of these hazards at its line, with the properties that
are about it.

## 2. The modules

### BackupPromise, BackupRun

`BackupRun` is `RunBackup` with both adapters' `Save`; each call `r` is given
one of them (`adapter[r]`), and they share the storages; those in `scheduled` are made
by the job of a schedule. A call is two program
counters, `caller[r]` and `dumper[r]`, and the pipe between them.

| Code | Model |
|---|---|
| `start := time.Now()`, pipe, gzip writer, `go func` | `Begin` (the clock is `Tick`) |
| `performDump` writing, and returning | `DumpBlock`, `DumpReturns` (an error at any block) |
| `defer gw.Close()`, `defer pw.Close()` | `CloseGzip` (writes the trailer), `ClosePipe` |
| `Local.Save`: create, copy, return | `SaveOpens`, `SaveReads`, `SaveReturns` |
| `S3Adapter.Save`: one object at the end | `SaveReturns` through `Published` |
| `if err != nil` after `Save` | `SaveFails` (at any point; the object may be there all the same) |
| `if dumpErr != nil` | `CheckDump` |
| `store.AddBackup` | `Record`, `RecordFails` (the row may be there all the same) |
| the Slack messages of `RunBackup` and of the job that called it | `Notify`, within the step that fails |
| the process dies | `Crash` |

Dumps are counted in blocks; an object is known by whose dump it holds, how much
of it, whether the trailer is there and whether two calls wrote into the same
file. How gzip cuts blocks into bytes, and the buffering of the MinIO client,
are left out: neither changes what is stored when the stream has ended.

`notified[r]` is the set of messages that were tried about a call: `RunBackup` tells
of a failed `Save` and of a failed dump, and the job of a schedule of every error it
gets back, `AddBackup`'s included. When the answer to an INSERT is lost, its row
is there and the job announces the backup as failed all the same;
`FailedIsNotListed` allows that message about a listed backup, and no other. A
command whose `AddBackup` fails tells nobody, although `cmd/dbback/main.go:89` has it
that "the notification is handled inside RunBackup". The job's message comes after
`RunBackup` has returned; the model sends it within the step that fails, which keeps a
listed backup's messages in sight from the first moment.

`BackupPromise` says what a caller may rely on, with no goroutine in sight: a
call touches nothing but its own name, ends once, and leaves a row only if its
whole dump is stored or a rival under the very same name displaced it.
`BackupRun!Promise` is the mapping. `BackupRun!Jobs` is a second one, onto the
jobs of `Retention` (below): `Phase` and `Stored` say where a job is while its
goroutines are somewhere between.

### Scheduling

Rows (`table`), cron (`entries`), the map (`entryOf`), the handlers (`req`), the
CLI, the controller's start and its deaths. Each access to the map is a step of
its own, as nothing in the code makes two of them one.

| Code | Model |
|---|---|
| `main`: list the schedules, `AddSchedule` each, `Start` | `StartController` (with S3 or local storage, whichever is configured today; `Listings` says whether `ListSchedules` may fail) |
| `Create` | `CreateInsert`, `CreateLoad`, then as `AddSchedule` |
| `Update` | `UpdateGet`, then as `RemoveSchedule`, `UpdateRow`, then as `AddSchedule` |
| `Delete` | `DeleteRow`, then as `RemoveSchedule` |
| `RemoveSchedule` | `RemoveCheck`, `RemoveCron`, `RemoveMap` |
| `AddSchedule` | `AddCheck`, `AddCron`, `AddMap` |
| a statement that fails | the `...Fails` action beside it, with the statement done or not |
| the job of an entry | `Fire`, `JobEnds`; `FirePanics` with local storage |
| Go's check for concurrent accesses of a map | `MapRace`, which it may or may not notice |
| `dbback schedule add`, `remove` | `CliAdd`, `CliRemove` |

A cron expression is abstracted to the number of its fields, which decides
whether the parser takes it. `disturbed` is a history variable: the schedules
that overlapping requests, a half-failed request or the CLI have touched since
the controller started. So what `disturbed` covers is no violation of
`UndisturbedInSync`: the entry that an update leaves of a schedule deleted meanwhile,
a failing UPDATE whose cron entry is gone, and a start whose `ListSchedules` failed.

`retention` says whether the retention job is in cron. It never is: its expression,
`"30 * * * * *"`, has six fields, `cron.New()` parses five, and the error is only
logged, against the comments at `scheduler.go:101-102` ("at 01:05 every day", "Run at
30s past the minute"). Nothing interleaves there, so it is not a run, but
the lemma `RetentionNeverRuns` of `Scheduling_proofs`.

### Catalog

The table `backups` and the two storages under handlers and commands that
create, delete, download and restore, one database or storage call per step. A
restore reads its object in blocks and writes them at its own offset. `OpensAs`
is `strings.ReplaceAll` of `S3Adapter.Open`, which `Save` and `Delete` do not do.
`home`, `halved`, `deleted` and the field `alone` are history. The controller
has S3 storage here: with local storage its storage handlers panic on a nil
adapter before they do anything, and net/http recovers.

| Code | Model |
|---|---|
| `POST /backups`, `dbback backup` | `CreateBegin`, `CreateSave`, `CreateRecord`, `CreateLoad` |
| `DELETE /backups/{id}` | `DeleteGet`, `DeleteObject`, `DeleteRow` |
| `POST /backups/{id}/restore`, `dbback restore` | `RestoreGet`, `RestoreOpen`, `RestoreCreate`, `RestoreCopy`, `RestoreGarbles` (a local file rewritten under its reader), `RestoreEnds` |
| `GET /backups/{id}/download` | `DownloadGet`, `RestoreOpen`, `DownloadSend`, `DownloadEnds` |
| a call that fails; a client that dies | the `...Fails` actions; `Dies` |

### Retention

The jobs of schedules, at a coarser grain than `BackupRun` (which is shown to
implement it), the requests that change
and delete schedules, and any number of overlapping runs of `ApplyRetention`
(`sweep[w]`), beside a clock in days.

| Code | Model |
|---|---|
| a job: `RunBackup` with the schedule's id | `JobBegins`, `JobSaves`, `JobRecords`, and their failures; the foreign key is in their guards |
| `UPDATE schedules`, `DELETE FROM schedules` (`ON DELETE SET NULL`) | `UpdateSchedule`, `DeleteSchedule` |
| `ListSchedules`, `RetentionDays <= 0` | `SweepBegins` (the policies of that moment are the sweep's `plan`) |
| `ListBackupsBySchedule`, the cutoff | `SweepLists`, `SweepListFails` |
| `adapter.Delete`, `store.DeleteBackup`, whose errors are ignored | `SweepDeletesObject`, `SweepDeletesRow`, and their failures |
| the end of the loops | `SweepEnds` |

The cutoff is taken in the moment of the list. `ListSchedules` orders by
creation, the model takes schedules and backups in any
order. `began` and `missed` are the history a sweep is judged by; `lost` and
`halved` are the objects and rows that an error, a refused row or a crash left
behind: `StoredIsListed` and `ListedIsStored` except them, so they do not speak against
the ignored errors of the two deletions. That the job is never registered is shown in
`Scheduling`; here it may run whenever it likes.

### Startup, Sessions

`Startup` takes processes (controllers and commands) from the configuration
through the migrations and the bucket to their work, over and over. A start
finds any of the configurations in `Environments`.

| Code | Model |
|---|---|
| `config.Load`, `loadFromEnv`, `AuthSecret`, `ValidateProduction` | the operators of the same names, `Accepted`, `Begin` |
| `NewStore`, `migrate` | `Migrate`, `Migrated`, `StoreFails` |
| `NewS3Adapter` | `BucketExists`, `MakeBucket`, `BucketTaken`, `StorageFails` |
| a command's fallback to the local directory, the controller's exit | `WithoutAdapter` |
| the process ends | `Ends` |

A database URL may be `Blank` (blanks in a variable, or `""` in the file): it
goes over what lies below it like any other value, `ValidateProduction` refuses it in
production, and `NewStore` everywhere (`HasURL`).

The comment at `s3.go:84` would ignore the error of a bucket that somebody else has made
meanwhile; the code returns it (`BucketTaken`). A controller exits and finds
the bucket at its next start (`ControllersComeUp`), a command stores into the local
directory instead (`WithoutAdapter`).

`Sessions` extends it with the accounts of each database, and tokens: `SignIn`
(through `Issued`, which is `writeAuthResponse`), `Refresh`, `Valid` and `Admits`
(`ValidateToken`, `RequireAuth`). Its clock is finer than the seconds that a token counts.

### Directory, Accounts

The table `users` under registration, password login (a statement each) and
Google login, which looks for the Google account, then for the address, and then
links or inserts (`GoogleUnknown`, `EmailFree` or `EmailUnlinked`, then
`CreateGoogleUser` or `LinkGoogleID`), with other requests between its
statements. `Fold` is trimming and lower case, which the code does in each of
its functions; the unique indices are `Clashes`. `withPassword` and `withGoogle`
record who was signed in to which account, `raced` the addresses for which two
Google accounts logged in at once.

`Directory` says what the accounts are to the people who have them, without
table, indices or requests: what an address leads to, what a Google account
leads to, and the password of each account, all of them for good. A step opens an
account or links a Google account to one. `Accounts!Dir` is the mapping.

### CryptoStream

`EncryptReader` and `DecryptReader` one after the other, and `KeptIsCut` for what may
happen to the stream in between. A sealed chunk opens only whole and alone. How much
a read returns is up to the source.

| Code | Model |
|---|---|
| `EncryptReader`: nonce, reads, sealed chunks, `io.EOF` | `WriteNonce`, `ReadSome`, `WriteChunk`, `ReadEnd` |
| each of its errors | `EncryptFails` |
| `DecryptReader`: `io.ReadFull`, `io.ReadAll` | `DecryptBegins`, `DecryptReads`, `DecryptReadFails` |
| `aead.Open` of all that follows the nonce | `Opens`, `DecryptOpens` |
| `pw.Write(plain)` | `DecryptWrites`, `DecryptWriteFails` |

Two things that the model shows are exceptions of `AllOrAnError`, which is about streams
that were kept whole. When nothing was kept, `io.ReadFull` returns `io.EOF`, and
`CloseWithError(io.EOF)` is how a pipe ends well: the stream decrypts to an empty
text, without an error. And a stream that was cut behind its first chunk opens as a
shorter text. The other way round, an empty text, of which only the nonce is
written, is refused like one of several chunks.

### The proofs

`BackupRun_proofs`, `BackupRun_refinement`, `Scheduling_proofs`,
`Catalog_proofs`, `Retention_proofs`, `Accounts_proofs`, `Sessions_proofs` and
`CryptoStream_proofs`, see section 5.

## 3. The runs

| Run | Bounds | Shows |
|---|---|---|
| `backup` | 2 calls with one prefix, each to S3 or to local files, those to S3 by a job or not, dumps of 1 and 2 blocks, 2 seconds | `RecordedIsComplete`, `DumperDoneWhenRead`, `FailedIsNotListed`, `NobodyIsStuck`, `WorkRunsOut`, `RunReturns`, `KeepsPromise`, `IsScheduledJob` |
| `schedules` | 1 schedule, 3 contents (one with a malformed cron expression), 2 handlers, 3 cron entries, both storages | `RecordedEntryIsLive`, `UndisturbedInSync`, `DeletedStaysDeleted` |
| `catalog` | 2 backups, 2 paths of which one is opened as the other, 1 handler, 2 commands, 1 target, 2 blocks | `ListedIsStored`, `DeletedIsGone`, `WrittenIsPrefix`, `RestoredIsWhole` |
| `retention` | 2 schedules, 2 backups, 1 sweep at a time, retention of 0 or 1 days, 3 days | `StoredIsListed`, `ListedIsStored`, `PrunedWasOld`, `SweepIsThorough`, `SweepWorksOff`, `SweepReturns` |
| `controller` | 1 controller, 1 command, 2 migrations, 2 databases, 2 secrets, 7 configurations (a controller refuses 4 of them, a command 3), 1 account, 2 tokens, half seconds | `UpIsReady`, `SessionsLastAsTold`, `TokensNameAccounts`, `ControllersComeUp` |
| `accounts` | 3 accounts, 2 addresses of which one is typed in 2 ways, 2 passwords, 2 Google accounts, 2 Google logins at a time | `OneAccountEach`, `SignInIsRepeatable`, `LinksAreForGood`, `IsDirectory` |
| `crypto` | texts of up to 4 blocks, reads of up to 3 | `AllOrAnError`, `StreamsEnd` |

Each of them checks the module's `TypeOK` as well.

Some of these properties say less than their names may suggest. `IsScheduledJob`
speaks of the steps up to which no two calls have met on an object name: rivals
displace each other's objects, which `Retention` does not know; that is what
`backup_collision` is about. `RestoredIsWhole` says that a restored file is the
whole of one stored object and no mixture, not that this object is a complete
dump: a failed dump leaves an object that another backup with the same path may
be restored from. Nor does `WrittenIsPrefix` promise anything of what a file held
before a restore that failed: `os.Create` has truncated it by then, and what is
left is the beginning of one stored backup, or, when a local file was rewritten
while it was read, whatever came out of it before the checksum of gzip did not fit.

Why the bounds are enough to meet the interesting cases: two calls are enough to
collide on a name and to interleave at every step, and a dump of two blocks has
an error before, between and after its blocks; two seconds let the calls collide
or not. Two handlers are enough for each race on the map (every race is between
two), and three entries let one schedule go through two updates. `MaxEntries` is
checked only where an update begins. Two blocks are enough for a mixture, and two
paths for backups that share one, that do not, and that only `Open` takes for one.
It takes two commands for a local file to be rewritten while it is read, since
handlers never write to local files, and a handler for what commands do not do.
Three accounts are one more than addresses, so a second account for an address
has room. With two schedules a sweep goes on after one whose list fails; three
days let a backup be made, be as old as its retention, and older. One token to
expire and one to refresh it are two; a second of two ticks has a part to round
away. A text of 4 blocks comes in one read never, in two or more always, and one
of 3 either way. `Room`, `MaxClock`, `MaxEntries` and `MaxTokens` are bounds of
the models only: they stop clocks and requests, never a request in flight.

What the bounds leave out was tried beside these runs where it is small enough
(two schedules in `Scheduling`, 793k states; two handlers, so two deletions at
once, and one command in `Catalog`, 3.0M states; two overlapping sweeps of one
schedule in `Retention`, 707k states), and is proved: see section 5.

Runs that end in a violation show where the program does other than its
documentation or comments say:

| Run | Said | Found |
|---|---|---|
| `backup_collision` | a listed backup can be restored | two backups of one name in one second: the later one truncates or replaces the object of the earlier one |
| `schedule_duplicates` | the check prevents duplicates | not against a concurrent call: a create that has inserted its row and an update of that row leave two entries |
| `schedule_stored_idle` | schedules defined via the CLI are run | a controller is up, the CLI adds a row, and nothing makes it an entry until the controller restarts (`Listings = {TRUE}`: here no start fails to list) |
| `schedule_panic` | `RunBackup` will handle which adapter to use | it dereferences the nil one and the controller dies |
| `crypto_round_trip` | `EncryptReader` and `DecryptReader` are an encryption stream, suitable for smaller files, to be integrated | a text that comes in two reads is sealed in two chunks and refused when it is decrypted |

## 4. Fairness

`BackupRun!FairSpec`: each goroutine of a call goes on while it can (the Go
runtime schedules them), and what it waits for outside the process, the dump
command, the storage, the database, answers or fails. Nothing makes a call begin,
the clock tick, or the storage fail a call that waits for its dumper (`SaveFails` is
not in `GoesOn`): what ends the wait is that the dumper closes the pipe. With it every call returns (`RunReturns`).

`Scheduling!FairSpec`: a controller that is down is started again (the deployment
restarts it) and a handler that has begun goes on; no one has to send requests.
It is used only by the run that refutes the claim about stored schedules, and is
what makes it mean something: the system does not just stop.

`Retention!FairSpec`: a sweep that has begun goes on (`SweepGoesOn`), each call
it makes being answered or failing; nothing makes one begin, or a job go on. That
a sweep returns (`SweepReturns`) although jobs keep making backups is due to the
list that it works on, which is read once per schedule.

`Sessions!FairSpec`: the deployment starts a controller that is down, and no step
of a start fails, or is the last one, each time it is tried (strong fairness of
the migrations and of the making of the bucket: between two tries the process
may be down). Commands may never run again. `ControllersComeUp` then says that no
state the others leave behind, such as a bucket that is there by now, keeps a start
from succeeding.

`CryptoStream!Spec`: both goroutines go on; the source and the readers answer.

## 5. The proofs

TLAPS checks the following for every value of the constants that fits the named
assumptions of the modules, which state the constants' shapes and that `None`,
`Unset` and `NoObject` are nothing else. Each is of the form `Spec => []P`,
`Spec => [][A]_vars` or `Spec => AbstractSpec`, from an inductive invariant `IInv` (theorem `Invariance`)
that TLC checked on instances like those of section 3 first.

**BackupRun**, for any number of calls, lengths of dump and choice of adapters:

- `TypeCorrect`. `TypeOK` alone is not inductive: with the
  local adapter a write appends to the file, so it needs `FileInv`, that the
  file was created when `Save` reads.
- `DumperDone`: `DumperDoneWhenRead`. It rests on `PipeInv`, an
  accounting of every block between the two goroutines: what was sent is what
  was taken plus what is in the pipe, the trailer comes last, and the pipe is
  closed only after the trailer was taken. `CallerInv` says what follows for a
  caller that is past `Save`.
- `RecordedComplete`: `RecordedIsComplete`. `StorageInv` adds how much
  of a dump its object holds, if no other call has the same name; that others
  leave it alone needs that a started call keeps its name (`NameStays`) and that
  it has had it for itself all along (`SoleBefore`).
- `FailedNotListed`: `FailedIsNotListed`. A call whose dump failed, or that told of a
  failed `Save` or dump, has returned without a row; only a call that is past
  both checks can be recorded, and what is said of it then only its job says (`NotifiedInv`, `CallerInv`).
- `NobodyStuck` (`NobodyIsStuck`): while `Save` waits for the stream, the dumper
  can go on with it or has ended it, and only a failed `Save` leaves a dumper behind. It needs
  `AliveInv` beside `PipeInv`: the dumper is there as long as `Save` is.
- `WorkDecreases` (`WorkRunsOut`, and that `Work(r)` is a natural number):
  each step of a call leaves it less to do (blocks, closes and returns,
  counted by `Work`), and no other call's step makes it more.
  With `NobodyStuck` this is what `RunReturns` rests on besides fairness.
- `RunBackupIsTheJob` (`IsScheduledJob`): until two calls meet on a name, every
  step of the pipeline is a step of `Retention`'s job or none. `OthersStored`
  says that a step leaves the objects of other calls alone, `JobMoves`,
  `ObjectsMove`, `LostMoves` and `OwnerMoves` how a step of one call changes what
  the mapping makes of it. So what `Retention` takes for a job is what `RunBackup`
  does with its goroutines, pipe and adapters; sweeps and requests are not in this mapping.
- `RunBackupKeepsPromise`: `Spec => Promise!Spec`. Every step of the pipeline is
  a step of the promise or none. It needs `IInv` and `OwnerInv`: nothing in the
  storage is of a call that has not begun.

**Scheduling**, for any schedules, contents, handlers, storages and number of entries:

- `TypeCorrect`, `RecordedIsLive` (`RecordedEntryIsLive`) and `InSync`
  (`UndisturbedInSync`). `RowInv` and `CronInv` say that rows have ids that were
  handed out and that entries are numbered up to `last` and not twice;
  `RequestInv` what a handler knows at each of its steps. `LiveInv` is
  `RecordedEntryIsLive` made inductive: an entry that a handler is about to put in the
  map is in cron and nobody else's. `SyncInv` says of an undisturbed schedule that
  it has at most one handler, and `Stage` what that one has done so far.
- `DeletedStays` (`DeletedStaysDeleted`), an action property: an update may have read
  the row before a delete and writes it afterwards, which must not bring it
  back; only ids never handed out before get rows.
- `RetentionNeverRuns`, a lemma: no start of the controller puts the retention job into cron.

**Catalog**, for any backups, paths, ways to open them, targets and clients:

- `TypeCorrect`, `ListedStored` (`ListedIsStored`) and `DeletedGone`
  (`DeletedIsGone`). `PlaceInv` says that a storage holds a backup under its own
  path only; `MakerInv` that who makes a backup is alone with it until its row
  is there, `SavedInv` that it is stored by then, and `RemoverInv` that a row goes
  only after the object has.
- `WrittenPrefix` (`WrittenIsPrefix`) and `RestoredWhole` (`RestoredIsWhole`), the
  latter an action property: `WriterInv` says which blocks a restore that has its
  file for itself has written, that the rest of the file is empty, and that what
  it writes is of a backup with its path, or the name that `Open` makes of it. It
  can only be kept because whoever joins a restore takes `alone` from it before
  either writes.

**Retention**, for any schedules, backups, policies and overlapping sweeps:

- `TypeCorrect`, `StoredListed` (`StoredIsListed`), `ListedStored`
  (`ListedIsStored`), and the action properties `PrunedOld` (`PrunedWasOld`) and
  `Thorough` (`SweepIsThorough`). `BackupInv` says that a row is made once, by
  a job that ends with it; so a backup on a sweep's list changes no more, but that it may go
  or lose its schedule (`Calm`, which every step is). `ListInv` has what is due
  either gone, on the list, or in a schedule still to be listed, and `PlaceInv`
  that a row is about to go only once its object is gone or given up.
- `WorksOff` (`SweepWorksOff`): a sweep at work has a step to take (`ObjectInv`: it
  has something on its list when it is about to delete), and each of its steps takes
  something from the schedules it has left, or from its list, or goes from object to row. That
  is a lexicographic order on finite sets, so it ends; with fairness this is `SweepReturns`.

**Startup and Sessions**, for any processes, configurations, databases, secrets,
accounts, granularity of the clock and life of a token:

- `TypeCorrect`, `Ready` (`UpIsReady`), `AccountsNamed` (`TokensNameAccounts`) and
  `LastAsTold` (`SessionsLastAsTold`). `ProcessInv` says that what a process has
  seen done stays done, whatever others do; `TokenInv` that a token says what
  was told, without what is no whole second (`WholeSeconds` is the arithmetic).

**Accounts**, for any accounts, addresses, Google accounts and requests
(`AccountsAssumption`: `Fold` is idempotent):

- `TypeCorrect` and `OneAccount`. `IInv` adds what the unique index on the stored
  address needs to be one on the folded address: stored addresses are folded
  (`Folded`), and so are those that a Google login carries from its first
  statement to its last (`LoginInv`).
- `LinksStay`, an action property, from `RowsStay`: a row only ever changes by
  getting a Google account while it has none.
- `SignInRepeatable`. `SInv` adds that an account a login is about to link can
  have been linked meanwhile only to the same Google account (`LinkInv`), since two
  Google accounts do not use one unraced address at once (`RaceInv`).
- `ImplementsDirectory` (`IsDirectory`): `Spec => Dir!Spec`. By `OneAccount` an
  address and a Google account lead to one account, so the mapping's choices are
  none; a row that is inserted changes what exactly its own address and Google account
  lead to, and a link what its Google account leads to.

**CryptoStream**, for texts and buffers of any size:

- `TypeCorrect` and `WholeOrError` (`AllOrAnError`), from `WriterInv`: as long as the reader has kept one
  chunk only, it has kept all that was read. What several chunks add up to would
  need a sum, and plays no part.

Only model-checked: the liveness properties `RunReturns`, `SweepReturns`,
`ControllersComeUp` and `StreamsEnd`, since liveness under fairness is out of
the prover's reach (for the first two the safety half, that nobody waits in vain
and that steps run out, is proved: `NobodyStuck`, `WorkDecreases`, `WorksOff`); and that the properties of the runs that end in a violation
are violated.

## 6. Not modelled

- `FileStore` (`internal/metadata/metadata.go`): nothing in the program makes
  one since the PostgreSQL store took its place.
- Logging, Slack messages, the health endpoint, CORS, routing, and the listings
  of API and CLI: no state. Which notifications a failing backup sends is in `BackupRun`.
- `StreamBackup` (`dbback backup --destination local`): a pipe to stdout that
  keeps nothing.
- `Local.Delete`: its callers hold a nil S3 adapter when the storage is local,
  and fail before. `normalizeObjectName` leaves the names that
  `RunBackup` makes as they are, unless a backup's own name holds `..`; `Save` and `Open`
  of the local directory apply it alike, so a label or path of the models stands for what
  it makes of a name. `PresignedURL` has no caller.
- Settings that decide nothing here: addresses, CORS origins, the S3 endpoint and
  keys; keys of the encryption that have a wrong length, which are refused first.
- `last_run` of a schedule, which is written at the end of a job and only listed.
- What is inside the dump commands, gzip, MinIO, PostgreSQL, cron, JWT and bcrypt:
  they are taken to do what their documentation says, and to fail at any time.

What could still be added: a composition of `Scheduling` and `Retention` in one
module, so that the entries whose jobs run are those of the first and not any
schedule that ever was; `FileStore` with a crash between truncating and writing
its file, should the program use it again.
