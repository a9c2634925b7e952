-------------------------- MODULE Sessions_proofs --------------------------
(***************************************************************************)
(* Proofs about Startup and Sessions, for any processes, configurations,   *)
(* databases, secrets and clocks: their type invariant, that whoever is up *)
(* finds what it works with, that sessions last as long as was told, and   *)
(* that tokens are for accounts there are.                                 *)
(*                                                                         *)
(* They rest on ProcessInv, that a process keeps finding the migrations it *)
(* has been through, and on TokenInv.                                      *)
(***************************************************************************)
EXTENDS Sessions, TLAPS

----------------------------------------------------------------------------
(* The inductive invariant.                                                *)

\* What a process has seen done stays done; its configuration was accepted.
ProcessInv(p) ==
  /\ 1..proc[p].done \subseteq schema[Cfg(p).database]
  /\ ~At(p, "down") /\ ~At(p, "migrate") => proc[p].done = Migrations
  /\ proc[p].adapter = "s3" => bucket
  /\ p \in Controllers /\ Cfg(p).production => Cfg(p).secret # DevSecret

\* What a token says is what was told, without what is no whole second.
TokenInv == \A tok \in tokens : tok.exp = Seconds(tok.told)

IInv ==
  /\ TypeOK
  /\ \A p \in Processes : ProcessInv(p)
  /\ TokenInv
  /\ TokensNameAccounts

----------------------------------------------------------------------------
(* Types.                                                                  *)

ProcType == [at: Stages, cfg: Config, done: 0..Migrations, adapter: Types]

LEMMA DownType == Down \in ProcType
BY StartupAssumption DEF Down, ProcType, Stages, Config, Types

LEMMA LoadType ==
  ASSUME NEW e \in Environments, HasURL(e)
  PROVE  Load(e) \in Config
<1>1. /\ {e.DATABASE_URL, e.DBBACK_DATABASE_URL, e.fileDatabase}
           \subseteq Databases \union {Blank, Unset}
      /\ {e.DBBACK_STORAGE_TYPE, e.fileStorage} \subseteq Types \union {Unset}
      /\ e.DBBACK_AUTH_SECRET \in Secrets \union {Unset}
  BY StartupAssumption
<1>2. Or(e.DATABASE_URL, Or(e.DBBACK_DATABASE_URL, Or(e.fileDatabase, DefaultURL))) \in Databases
  BY <1>1, StartupAssumption DEF Or, HasURL, Load
<1>3. Or(Or(e.DBBACK_STORAGE_TYPE, e.fileStorage), "local") \in Types
  BY <1>1 DEF Or, Types
<1>4. AuthSecret(e) \in Secrets
  BY <1>1, StartupAssumption DEF Or, AuthSecret
<1> QED BY <1>2, <1>3, <1>4 DEF Load, Config

----------------------------------------------------------------------------
(* Processes.                                                              *)

\* What others do leaves a process as it is, and takes nothing from it.
LEMMA ProcessStays ==
  ASSUME StartupTypeOK, StartupTypeOK', NEW q \in Processes, ProcessInv(q), proc'[q] = proc[q],
         \A d \in Databases : schema[d] \subseteq schema'[d], bucket => bucket'
  PROVE  ProcessInv(q)'
<1>1. Cfg(q).database \in Databases
  BY DEF StartupTypeOK, Cfg, Config
<1> QED BY <1>1 DEF ProcessInv, At, Cfg

\* A process whose record becomes r, with what r says there.
LEMMA ProcessGoes ==
  ASSUME StartupTypeOK, NEW p \in Processes, NEW r \in ProcType, proc' = [proc EXCEPT ![p] = r],
         schema' \in [Databases -> SUBSET (1..Migrations)], bucket' \in BOOLEAN,
         \A d \in Databases : schema[d] \subseteq schema'[d], bucket => bucket',
         \A q \in Processes : ProcessInv(q),
         1..r.done \subseteq schema'[r.cfg.database],
         r.at \notin {"down", "migrate"} => r.done = Migrations,
         r.adapter = "s3" => bucket',
         p \in Controllers /\ r.cfg.production => r.cfg.secret # DevSecret
  PROVE  StartupTypeOK' /\ \A q \in Processes : ProcessInv(q)'
<1>1. proc \in [Processes -> ProcType]
  BY DEF StartupTypeOK, ProcType
<1>2. StartupTypeOK'
  BY <1>1 DEF StartupTypeOK, ProcType
<1>3. proc'[p] = r
  BY <1>1
<1>4. ProcessInv(p)'
  BY <1>3 DEF ProcessInv, At, Cfg
<1>5. \A q \in Processes \ {p} : proc'[q] = proc[q]
  BY <1>1
<1> QED BY <1>2, <1>4, <1>5, ProcessStays

\* Exit, from whatever step: the process is down.
LEMMA ProcessExits ==
  ASSUME StartupTypeOK, NEW p \in Processes, Exit(p),
         schema' \in [Databases -> SUBSET (1..Migrations)], bucket' \in BOOLEAN,
         \A d \in Databases : schema[d] \subseteq schema'[d], bucket => bucket',
         \A q \in Processes : ProcessInv(q)
  PROVE  StartupTypeOK' /\ \A q \in Processes : ProcessInv(q)'
<1>1. /\ 1..Down.done = {} /\ Down.at = "down" /\ Down.adapter = "local"
      /\ Down.cfg.production = FALSE
  BY DEF Down
<1> QED BY <1>1, DownType, ProcessGoes DEF Exit

\* A process that has its adapter, and with it all it needs.
LEMMA ProcessUp ==
  ASSUME StartupTypeOK, NEW p \in Processes, NEW a \in Types, UpWith(p, a), UNCHANGED schema,
         bucket' \in BOOLEAN, bucket => bucket', a = "s3" => bucket',
         proc[p].done = Migrations, \A q \in Processes : ProcessInv(q)
  PROVE  StartupTypeOK' /\ \A q \in Processes : ProcessInv(q)'
<1>1. proc[p] \in ProcType /\ schema \in [Databases -> SUBSET (1..Migrations)]
  BY DEF StartupTypeOK, ProcType
<1>2. \A x \in ProcType : LET y == [x EXCEPT !.at = "up", !.adapter = a] IN
        y \in ProcType /\ y.done = x.done /\ y.cfg = x.cfg /\ y.adapter = a
  BY DEF ProcType, Stages
<1>3. PICK r \in ProcType : r = [proc[p] EXCEPT !.at = "up", !.adapter = a]
  BY <1>1, <1>2
<1>4. r.done = proc[p].done /\ r.cfg = proc[p].cfg /\ r.adapter = a
  BY <1>1, <1>2, <1>3
<1>5. proc' = [proc EXCEPT ![p] = r]
  BY <1>3 DEF UpWith
<1>6. 1..r.done \subseteq schema[r.cfg.database]
      /\ (p \in Controllers /\ r.cfg.production => r.cfg.secret # DevSecret)
  BY <1>4 DEF ProcessInv, Cfg
<1> QED BY <1>1, <1>4, <1>5, <1>6, ProcessGoes

\* Every step of a start, and of its end.
LEMMA StartupSteps ==
  ASSUME StartupTypeOK, \A q \in Processes : ProcessInv(q), NEW p \in Processes, StartupStep(p)
  PROVE  StartupTypeOK' /\ \A q \in Processes : ProcessInv(q)'
<1>0. /\ ProcessInv(p) /\ proc[p] \in ProcType /\ Cfg(p) \in Config
      /\ schema \in [Databases -> SUBSET (1..Migrations)] /\ bucket \in BOOLEAN
  BY DEF StartupTypeOK, ProcType, Cfg
<1>1. ASSUME NEW e \in Environments, Accepted(p, e), UNCHANGED <<schema, bucket>>,
             proc' = [proc EXCEPT ![p] = [Down EXCEPT !.at = "migrate", !.cfg = Load(e)]]
      PROVE  StartupTypeOK' /\ \A q \in Processes : ProcessInv(q)'
  <2>1. PICK cfg \in Config : cfg = Load(e)
    BY <1>1, LoadType DEF Accepted
  <2>2. PICK r : r = [Down EXCEPT !.at = "migrate", !.cfg = cfg]
    OBVIOUS
  <2>3. r \in ProcType /\ r.done = 0 /\ r.at = "migrate" /\ r.adapter = "local" /\ r.cfg = cfg
    <3>1. \A x \in ProcType : LET y == [x EXCEPT !.at = "migrate", !.cfg = cfg] IN
            y \in ProcType /\ y.done = x.done /\ y.at = "migrate" /\ y.adapter = x.adapter /\ y.cfg = cfg
      BY DEF ProcType, Stages
    <3>2. Down.done = 0 /\ Down.adapter = "local"
      BY DEF Down
    <3> QED BY <2>2, <3>1, <3>2, DownType
  <2>4. p \in Controllers /\ cfg.production => cfg.secret # DevSecret
    BY <1>1, <2>1 DEF Accepted, ValidateProduction, Load
  <2>5. 1..r.done = {}
    BY <2>3
  <2>6. proc' = [proc EXCEPT ![p] = r]
    BY <1>1, <2>1, <2>2
  <2> QED BY <1>0, <1>1, <2>3, <2>4, <2>5, <2>6, ProcessGoes
<1>2. ASSUME NEW k \in 1..Migrations, Migrate(p, k)
      PROVE  StartupTypeOK' /\ \A q \in Processes : ProcessInv(q)'
  <2>1. PICK d \in Databases : d = Cfg(p).database
    BY <1>0 DEF Config
  <2>2. schema' = [schema EXCEPT ![d] = @ \union {k}]
    BY <1>2, <2>1 DEF Migrate
  <2>3. PICK r : r = [proc[p] EXCEPT !.done = k]
    OBVIOUS
  <2>4. \A x \in ProcType : LET y == [x EXCEPT !.done = k] IN
          y \in ProcType /\ y.done = k /\ y.cfg = x.cfg /\ y.at = x.at /\ y.adapter = x.adapter
    BY DEF ProcType
  <2>5. r \in ProcType /\ r.done = k /\ r.cfg = Cfg(p) /\ r.at = "migrate" /\ r.adapter = proc[p].adapter
    BY <1>0, <1>2, <2>3, <2>4 DEF Migrate, At, Cfg
  <2>6. 1..k \subseteq schema'[d]
    <3>1. 1..(k - 1) \subseteq schema[d]
      BY <1>2, <2>1 DEF Migrate
    <3>2. 1..k = (1..(k - 1)) \union {k}
      OBVIOUS
    <3> QED BY <1>0, <2>2, <3>1, <3>2
  <2>7. proc' = [proc EXCEPT ![p] = r] /\ bucket' = bucket
    BY <1>2, <2>3 DEF Migrate
  <2>8. schema' \in [Databases -> SUBSET (1..Migrations)]
        /\ \A x \in Databases : schema[x] \subseteq schema'[x]
    BY <1>0, <2>2
  <2>9. r.adapter = "s3" => bucket'
    BY <1>0, <2>5, <2>7 DEF ProcessInv
  <2>10. p \in Controllers /\ r.cfg.production => r.cfg.secret # DevSecret
    BY <1>0, <2>5 DEF ProcessInv
  <2>11. 1..r.done \subseteq schema'[r.cfg.database]
    BY <2>1, <2>5, <2>6
  <2> QED BY <1>0, <2>5, <2>7, <2>8, <2>9, <2>10, <2>11, ProcessGoes
<1>3. ASSUME NEW stage \in {"bucket", "makeBucket"}, UNCHANGED <<schema, bucket>>,
             proc' = [proc EXCEPT ![p].at = stage], proc[p].done = Migrations
      PROVE  StartupTypeOK' /\ \A q \in Processes : ProcessInv(q)'
  <2>1. PICK r : r = [proc[p] EXCEPT !.at = stage]
    OBVIOUS
  <2>2. \A x \in ProcType : LET y == [x EXCEPT !.at = stage] IN
          y \in ProcType /\ y.done = x.done /\ y.cfg = x.cfg /\ y.adapter = x.adapter
    BY DEF ProcType, Stages
  <2>3. r \in ProcType /\ r.done = Migrations /\ r.cfg = Cfg(p) /\ r.adapter = proc[p].adapter
    BY <1>0, <1>3, <2>1, <2>2 DEF Cfg
  <2>4. proc' = [proc EXCEPT ![p] = r]
    BY <1>3, <2>1
  <2>5. 1..r.done \subseteq schema'[r.cfg.database] /\ (r.adapter = "s3" => bucket')
        /\ (p \in Controllers /\ r.cfg.production => r.cfg.secret # DevSecret)
    BY <1>0, <1>3, <2>3 DEF ProcessInv
  <2> QED BY <1>0, <1>3, <2>3, <2>4, <2>5, ProcessGoes
<1>4. CASE StoreFails(p)
  <2>1. /\ schema' \in [Databases -> SUBSET (1..Migrations)]
        /\ \A x \in Databases : schema[x] \subseteq schema'[x]
    <3>1. CASE schema' = schema
      BY <1>0, <3>1
    <3>2. CASE schema' # schema
      <4>1. PICK k \in 1..Migrations : schema' = [schema EXCEPT ![Cfg(p).database] = @ \union {k}]
        BY <1>4, <3>2 DEF StoreFails
      <4> QED BY <1>0, <4>1
    <3> QED BY <3>1, <3>2
  <2> QED BY <1>0, <1>4, <2>1, ProcessExits DEF StoreFails
<1>5. CASE Ends(p)
  BY <1>0, <1>5, ProcessExits DEF Ends
<1>6. CASE MakeBucket(p)
  <2>1. proc[p].done = Migrations
    BY <1>0, <1>6 DEF MakeBucket, ProcessInv, At
  <2> QED BY <1>6, <2>1, ProcessUp DEF MakeBucket, Types
<1>7. CASE BucketTaken(p) \/ StorageFails(p)
  <2>1. proc[p].done = Migrations
    BY <1>0, <1>7 DEF BucketTaken, StorageFails, ProcessInv, At
  <2>2. schema' = schema /\ bucket' \in BOOLEAN /\ (bucket => bucket') /\ WithoutAdapter(p)
    BY <1>0, <1>7 DEF BucketTaken, StorageFails
  <2>3. CASE Exit(p)
    BY <1>0, <2>2, <2>3, ProcessExits
  <2>4. CASE UpWith(p, "local")
    <3>1. "local" \in Types
      BY DEF Types
    <3> QED BY <2>1, <2>2, <2>4, <3>1, ProcessUp
  <2> QED BY <2>2, <2>3, <2>4 DEF WithoutAdapter
<1>8. CASE Migrated(p) \/ BucketExists(p)
  <2>1. proc[p].done = Migrations /\ UNCHANGED <<schema, bucket>>
    BY <1>0, <1>8 DEF Migrated, BucketExists, ProcessInv, At
  <2>2. \/ UpWith(p, "local")
        \/ bucket /\ UpWith(p, "s3")
        \/ \E stage \in {"bucket", "makeBucket"} : proc' = [proc EXCEPT ![p].at = stage]
    <3>1. CASE Migrated(p)
      BY <3>1 DEF Migrated
    <3>2. CASE BucketExists(p)
      BY <3>2 DEF BucketExists
    <3> QED BY <1>8, <3>1, <3>2
  <2>3. "local" \in Types /\ "s3" \in Types
    BY DEF Types
  <2> QED BY <1>0, <1>3, <2>1, <2>2, <2>3, ProcessUp
<1> QED BY <1>1, <1>2, <1>4, <1>5, <1>6, <1>7, <1>8 DEF StartupStep, Begin

----------------------------------------------------------------------------
(* Tokens.                                                                 *)

LEMMA IssuedToken ==
  ASSUME TypeOK, NEW p \in Processes, NEW u \in Users
  PROVE  /\ Issued(p, u) \in Token /\ Issued(p, u).exp = Seconds(Issued(p, u).told)
         /\ Issued(p, u).sub = u /\ Issued(p, u).of = Cfg(p).database
<1>1. PICK told \in Nat : told = clock + Lifetime * PerSecond
  <2>1. clock \in Nat /\ Lifetime \in Nat /\ PerSecond \in Nat
    BY SessionsAssumption DEF TypeOK
  <2> QED BY <2>1
<1>2. Seconds(told) \in Nat
  BY <1>1, SessionsAssumption DEF Seconds
<1>3. Cfg(p).secret \in Secrets /\ Cfg(p).database \in Databases
  BY DEF TypeOK, StartupTypeOK, Cfg, Config
<1>4. Issued(p, u) = [sub |-> u, secret |-> Cfg(p).secret, of |-> Cfg(p).database,
                      exp |-> Seconds(told), told |-> told]
  BY <1>1 DEF Issued
<1> QED BY <1>2, <1>3, <1>4 DEF Token

\* A token is issued to an account that is there.
LEMMA TokenStep ==
  ASSUME IInv, NEW p \in Controllers, NEW u \in Users, users' \in [Databases -> SUBSET Users],
         \A d \in Databases : users[d] \subseteq users'[d], u \in users'[Cfg(p).database],
         tokens' = tokens \union {Issued(p, u)}, UNCHANGED <<startupVars, clock>>
  PROVE  IInv'
<1>0. TypeOK /\ p \in Processes
  BY DEF IInv, Processes
<1>1. TypeOK'
  BY <1>0, IssuedToken DEF TypeOK, StartupTypeOK, startupVars
<1>2. \A q \in Processes : ProcessInv(q)'
  BY DEF IInv, ProcessInv, At, Cfg, startupVars
<1>3. TokenInv'
  BY <1>0, IssuedToken DEF IInv, TokenInv, Seconds
<1>4. TokensNameAccounts'
  <2>1. \A tok \in tokens : tok.of \in Databases
    BY <1>0 DEF TypeOK, Token
  <2> QED BY <1>0, <2>1, IssuedToken DEF IInv, TokensNameAccounts
<1> QED BY <1>1, <1>2, <1>3, <1>4 DEF IInv

----------------------------------------------------------------------------
LEMMA Initially == Init => IInv
<1> SUFFICES ASSUME Init PROVE IInv
  OBVIOUS
<1>1. StartupTypeOK
  BY DownType DEF Init, StartupInit, StartupTypeOK, ProcType
<1>2. TypeOK
  BY <1>1, SessionsAssumption DEF Init, TypeOK
<1>3. \A p \in Processes : ProcessInv(p)
  BY StartupAssumption DEF Init, StartupInit, Down, ProcessInv, At, Cfg
<1> QED BY <1>2, <1>3 DEF Init, IInv, TokenInv, TokensNameAccounts

LEMMA Inductive == IInv /\ [Next]_vars => IInv'
<1> SUFFICES ASSUME IInv, [Next]_vars PROVE IInv'
  OBVIOUS
<1>0. TypeOK
  BY DEF IInv
<1>1. CASE Tick \/ UNCHANGED vars
  <2>1. UNCHANGED <<startupVars, users, tokens>> /\ clock' \in 0..MaxClock
    BY <1>0, <1>1, SessionsAssumption DEF Tick, vars, TypeOK
  <2>2. TypeOK'
    BY <1>0, <2>1 DEF TypeOK, StartupTypeOK, startupVars
  <2>3. \A q \in Processes : ProcessInv(q)'
    BY <2>1 DEF IInv, ProcessInv, At, Cfg, startupVars
  <2>4. TokenInv' /\ TokensNameAccounts'
    BY <2>1 DEF IInv, TokenInv, TokensNameAccounts, Seconds
  <2> QED BY <2>2, <2>3, <2>4 DEF IInv
<1>2. ASSUME NEW p \in Processes, Start(StartupStep(p)) PROVE IInv'
  <2>1. StartupStep(p) /\ UNCHANGED <<clock, users, tokens>>
    BY <1>2 DEF Start
  <2>2. StartupTypeOK' /\ \A q \in Processes : ProcessInv(q)'
    BY <1>0, <2>1, StartupSteps DEF IInv, TypeOK
  <2>3. TokenInv' /\ TokensNameAccounts'
    BY <2>1 DEF IInv, TokenInv, TokensNameAccounts, Seconds
  <2> QED BY <1>0, <2>1, <2>2, <2>3 DEF IInv, TypeOK
<1>3. ASSUME NEW p \in Controllers, NEW u \in Users, SignIn(p, u) PROVE IInv'
  <2>1. Cfg(p).database \in Databases
    BY <1>0 DEF TypeOK, StartupTypeOK, Cfg, Config, Processes
  <2>2. /\ users' \in [Databases -> SUBSET Users] /\ u \in users'[Cfg(p).database]
        /\ \A d \in Databases : users[d] \subseteq users'[d]
    BY <1>0, <1>3, <2>1 DEF SignIn, TypeOK
  <2> QED BY <1>3, <2>2, TokenStep DEF SignIn
<1>4. ASSUME NEW p \in Controllers, NEW tok \in tokens, Refresh(p, tok) PROVE IInv'
  <2>1. tok.sub \in Users
    BY <1>0 DEF TypeOK, Token
  <2> QED BY <1>0, <1>4, <2>1, TokenStep DEF Refresh, TypeOK
<1> QED BY <1>1, <1>2, <1>3, <1>4 DEF Next

\* The inductive invariant holds in every state of Sessions.
THEOREM Invariance == Spec => []IInv
BY Initially, Inductive, PTL DEF Spec

\* Every variable of Sessions has its type.
THEOREM TypeCorrect == Spec => []TypeOK
BY Invariance, PTL DEF IInv

\* Whoever is up finds all tables, its bucket, and in production a secret of its
\* own (migrate, NewS3Adapter, ValidateProduction).
THEOREM Ready == Spec => []UpIsReady
<1>1. IInv => UpIsReady
  <2> SUFFICES ASSUME IInv, NEW p \in Processes, At(p, "up")
               PROVE  /\ schema[Cfg(p).database] = 1..Migrations
                      /\ proc[p].adapter = "s3" => bucket
                      /\ p \in Controllers /\ Cfg(p).production => Cfg(p).secret # DevSecret
    BY DEF UpIsReady
  <2>1. ProcessInv(p) /\ Cfg(p).database \in Databases
    BY DEF IInv, TypeOK, StartupTypeOK, Cfg, Config
  <2>2. schema[Cfg(p).database] \subseteq 1..Migrations
    BY <2>1 DEF IInv, TypeOK, StartupTypeOK
  <2> QED BY <2>1, <2>2 DEF ProcessInv, At
<1> QED BY <1>1, Invariance, PTL

\* A token is for an account of the database that it was issued from, on
\* sign-in and on refresh (writeAuthResponse, Refresh).
THEOREM AccountsNamed == Spec => []TokensNameAccounts
BY Invariance, PTL DEF IInv

\* Whole seconds.
LEMMA WholeSeconds ==
  ASSUME NEW n \in Nat
  PROVE  /\ Seconds(n) \in Nat
         /\ Seconds(n) * PerSecond <= n /\ n < Seconds(n) * PerSecond + PerSecond
BY SessionsAssumption DEF Seconds

\* A token admits its bearer as long as the client was told, but for the second
\* that is rounded away (writeAuthResponse, ValidateToken).
THEOREM LastAsTold == Spec => []SessionsLastAsTold
<1>1. IInv => SessionsLastAsTold
  <2> SUFFICES ASSUME IInv, NEW p \in Controllers, NEW tok \in tokens, At(p, "up")
               PROVE  /\ Admits(p, tok) => tok.secret = Cfg(p).secret /\ clock < tok.told
                      /\ tok.secret = Cfg(p).secret /\ clock + PerSecond <= tok.told => Admits(p, tok)
    BY DEF SessionsLastAsTold
  <2>1. clock \in Nat /\ tok.told \in Nat /\ tok.exp = Seconds(tok.told)
    BY SessionsAssumption DEF IInv, TypeOK, Token, TokenInv
  <2>2. PICK exp \in Nat : /\ exp = Seconds(tok.told)
                           /\ exp * PerSecond <= tok.told /\ tok.told < exp * PerSecond + PerSecond
    BY <2>1, WholeSeconds
  <2>3. PICK now \in Nat : /\ now = Seconds(clock)
                           /\ now * PerSecond <= clock /\ clock < now * PerSecond + PerSecond
    BY <2>1, WholeSeconds
  <2>4. exp > now => clock < tok.told
    <3>1. exp >= now + 1 => exp * PerSecond >= now * PerSecond + PerSecond
      BY SessionsAssumption
    <3> QED BY <2>1, <2>2, <2>3, <3>1, SessionsAssumption
  <2>5. clock + PerSecond <= tok.told => exp > now
    <3>1. exp <= now => exp * PerSecond <= now * PerSecond
      BY SessionsAssumption
    <3> QED BY <2>1, <2>2, <2>3, <3>1, SessionsAssumption
  <2> QED BY <2>1, <2>2, <2>3, <2>4, <2>5 DEF Admits, Valid
<1> QED BY <1>1, Invariance, PTL

============================================================================
