------------------------------- MODULE Startup -------------------------------
(***************************************************************************)
(* How the processes of dbback come up: the configuration from a file and  *)
(* the environment, the migrations that each of them runs on the database, *)
(* and the bucket that each of them makes when it is missing.  Several     *)
(* controllers and commands may start at once, fail at any step, and die;  *)
(* a start may see another configuration than the one before.              *)
(*                                                                         *)
(* Of the settings, only those that decide something here are kept.  A     *)
(* value stands for what the code takes it for: DBBACK_ENV for whether it  *)
(* is "production" in some spelling, a storage type for whether it is      *)
(* "s3".  A secret is trimmed, a database URL is not: a blank one is set.  *)
(***************************************************************************)
EXTENDS Naturals

CONSTANTS
  Controllers,   \* processes that run cmd/controller
  Commands,      \* processes that run a command of cmd/dbback that stores
  Environments,  \* what a start may find in its environment and its file
  Databases,     \* database URLs
  Secrets,       \* values of DBBACK_AUTH_SECRET
  DefaultURL,    \* the database URL of config.Load
  DevSecret,     \* defaultDevAuthSecret
  Migrations,    \* the number of files in migrations/
  Blank,         \* a database URL of blanks only, or set to "" in the file
  Unset          \* an empty variable or setting

Types == {"s3", "local"}

ASSUME StartupAssumption ==
  /\ Migrations \in Nat
  /\ DefaultURL \in Databases /\ DevSecret \in Secrets
  /\ Blank \notin Databases
  /\ Unset \notin Databases \union {Blank} \union Secrets \union Types
  /\ Environments \subseteq
       [parses: BOOLEAN,  \* the file is YAML, or there is none
        fileDatabase: Databases \union {Blank, Unset},
        fileStorage: Types \union {Unset},
        DBBACK_DATABASE_URL: Databases \union {Blank, Unset},
        DATABASE_URL: Databases \union {Blank, Unset},
        DBBACK_STORAGE_TYPE: Types \union {Unset},
        DBBACK_ENV: {"production", Unset},
        DBBACK_AUTH_SECRET: Secrets \union {Unset}]

VARIABLES
  proc,    \* proc[p]: how far process p has come, and its configuration
  schema,  \* schema[d]: the migrations applied to database d
  bucket   \* the bucket exists

startupVars == <<proc, schema, bucket>>

----------------------------------------------------------------------------
(***************************************************************************)
(* package config                                                          *)
(***************************************************************************)
Or(value, otherwise) == IF value # Unset THEN value ELSE otherwise

AuthSecret(e) == Or(e.DBBACK_AUTH_SECRET, DevSecret)

\* Mutant: Load sets no database of its own.
LoadWithoutDefault(e) ==
  [database   |-> Or(e.DATABASE_URL, Or(e.DBBACK_DATABASE_URL, e.fileDatabase)),
   storage    |-> Or(Or(e.DBBACK_STORAGE_TYPE, e.fileStorage), "local"),
   production |-> e.DBBACK_ENV = "production",
   secret     |-> AuthSecret(e)]

\* Load and loadFromEnv: the environment goes over the file, and the file over
\* what Load sets first; of two variables for one setting the later one wins.
Load(e) ==
  [database   |-> Or(e.DATABASE_URL, Or(e.DBBACK_DATABASE_URL, Or(e.fileDatabase, DefaultURL))),
   storage    |-> Or(Or(e.DBBACK_STORAGE_TYPE, e.fileStorage), "local"),
   production |-> e.DBBACK_ENV = "production",
   secret     |-> AuthSecret(e)]

\* Production needs a secret of its own and a database.
ValidateProduction(e) ==
  Load(e).production => AuthSecret(e) # DevSecret /\ Load(e).database # Blank

\* NewStore opens no database without a URL.
HasURL(e) == Load(e).database # Blank

----------------------------------------------------------------------------
Processes == Controllers \union Commands

Config == [database: Databases, storage: Types, production: BOOLEAN, secret: Secrets]

Stages == {"down", "migrate", "bucket", "makeBucket", "up"}

StartupTypeOK ==
  /\ proc \in [Processes -> [at: Stages, cfg: Config, done: 0..Migrations, adapter: Types]]
  /\ schema \in [Databases -> SUBSET (1..Migrations)]
  /\ bucket \in BOOLEAN

Down == [at |-> "down", done |-> 0, adapter |-> "local",
         cfg |-> [database |-> DefaultURL, storage |-> "local",
                  production |-> FALSE, secret |-> DevSecret]]

StartupInit ==
  /\ proc = [p \in Processes |-> Down]
  /\ schema = [d \in Databases |-> {}]
  /\ bucket = FALSE

At(p, stage) == proc[p].at = stage
Cfg(p)       == proc[p].cfg
Exit(p)      == proc' = [proc EXCEPT ![p] = Down]
UpWith(p, a) == proc' = [proc EXCEPT ![p].at = "up", ![p].adapter = a]

\* Only the controller checks what production needs.  A start that finds its
\* configuration wrong exits and leaves nothing behind.
Accepted(p, e) ==
  /\ e.parses
  /\ p \in Controllers => ValidateProduction(e)
  /\ HasURL(e)

Begin(p) ==
  /\ At(p, "down")
  /\ \E e \in Environments :
       /\ Accepted(p, e)
       /\ proc' = [proc EXCEPT ![p] = [Down EXCEPT !.at = "migrate", !.cfg = Load(e)]]
  /\ UNCHANGED <<schema, bucket>>

\* migrate runs every file on every start, in the order of their names; each is
\* one implicit transaction and can be applied again, but not before those it
\* builds on.  Then the adapter is made.
Migrate(p, k) ==
  /\ At(p, "migrate")
  /\ k = proc[p].done + 1
  /\ 1..(k - 1) \subseteq schema[Cfg(p).database]
  /\ schema' = [schema EXCEPT ![Cfg(p).database] = @ \union {k}]
  /\ proc' = [proc EXCEPT ![p].done = k]
  /\ UNCHANGED bucket

Migrated(p) ==
  /\ At(p, "migrate")
  /\ proc[p].done = Migrations
  /\ IF Cfg(p).storage = "s3"
     THEN proc' = [proc EXCEPT ![p].at = "bucket"]
     ELSE UpWith(p, "local")
  /\ UNCHANGED <<schema, bucket>>

\* Mutant: a failed migration is only logged.
StoreIgnores(p) ==
  /\ At(p, "migrate")
  /\ proc[p].done < Migrations
  /\ proc' = [proc EXCEPT ![p].done = @ + 1]
  /\ UNCHANGED <<schema, bucket>>

\* NewStore fails: no database, or a migration that collides with that of another
\* process.  What was sent last may have been applied.
StoreFails(p) ==
  /\ At(p, "migrate")
  /\ Exit(p)
  /\ schema' \in {schema} \union
       {[schema EXCEPT ![Cfg(p).database] = @ \union {k}] :
          k \in {proc[p].done + 1} \intersect (1..Migrations)}
  /\ UNCHANGED bucket

\* Mutant: the bucket is made without looking whether it is there.
BucketUnchecked(p) ==
  /\ At(p, "bucket")
  /\ proc' = [proc EXCEPT ![p].at = "makeBucket"]
  /\ UNCHANGED <<schema, bucket>>

BucketExists(p) ==
  /\ At(p, "bucket")
  /\ IF bucket THEN UpWith(p, "s3") ELSE proc' = [proc EXCEPT ![p].at = "makeBucket"]
  /\ UNCHANGED <<schema, bucket>>

MakeBucket(p) ==
  /\ At(p, "makeBucket")
  /\ ~bucket
  /\ bucket' = TRUE
  /\ UpWith(p, "s3")
  /\ UNCHANGED schema

\* NewS3Adapter fails: the controller exits, a command takes the local directory.
WithoutAdapter(p) == IF p \in Controllers THEN Exit(p) ELSE UpWith(p, "local")

\* Another process has made the bucket since: MakeBucket fails on what is there.
BucketTaken(p) ==
  /\ At(p, "makeBucket")
  /\ bucket
  /\ WithoutAdapter(p)
  /\ UNCHANGED <<schema, bucket>>

\* No answer; what was asked for may have been done.
StorageFails(p) ==
  /\ At(p, "bucket") \/ At(p, "makeBucket")
  /\ WithoutAdapter(p)
  /\ bucket' \in {bucket, bucket \/ At(p, "makeBucket")}
  /\ UNCHANGED schema

\* A command is done, a controller is shut down, or either is killed.
Ends(p) ==
  /\ ~At(p, "down")
  /\ Exit(p)
  /\ UNCHANGED <<schema, bucket>>

StartupStep(p) ==
  \/ Begin(p) \/ Migrated(p) \/ StoreFails(p) \/ Ends(p)
  \/ \E k \in 1..Migrations : Migrate(p, k)
  \/ BucketExists(p) \/ MakeBucket(p) \/ BucketTaken(p) \/ StorageFails(p)

----------------------------------------------------------------------------
(***************************************************************************)
(* Properties.                                                             *)
(***************************************************************************)

\* Whoever is up finds what it works with: all tables, the bucket if it stores
\* in S3, and in production a secret of its own, whatever other processes made,
\* half made or failed to make at the same time.
UpIsReady ==
  \A p \in Processes : At(p, "up") =>
    /\ schema[Cfg(p).database] = 1..Migrations
    /\ proc[p].adapter = "s3" => bucket
    /\ p \in Controllers /\ Cfg(p).production => Cfg(p).secret # DevSecret

\* A controller comes up again and again: a start that others have interrupted
\* or overtaken at any step, the making of the bucket included, leaves nothing
\* that could keep a later one from succeeding.
ControllersComeUp == \A p \in Controllers : []<>At(p, "up")

============================================================================
