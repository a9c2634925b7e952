------------------------------ MODULE Sessions ------------------------------
(***************************************************************************)
(* Signed-in users across the lives of the controllers of Startup.  A      *)
(* controller keeps no session: a token says who it is for and until when, *)
(* and is good for every controller with the secret it was signed with.    *)
(* Which account a sign-in is for is the matter of Accounts.               *)
(*                                                                         *)
(* The clock is finer than the seconds a token counts: the answer tells    *)
(* the client the end of the session in milliseconds, the token says it in *)
(* whole seconds.                                                          *)
(***************************************************************************)
EXTENDS Startup, FiniteSets

CONSTANTS
  Users,      \* accounts
  PerSecond,  \* ticks of the clock in a second
  Lifetime,   \* 24 hours, in seconds
  MaxClock,   \* bound on the clock
  MaxTokens   \* bound on the tokens: a client signs in only below it

ASSUME SessionsAssumption ==
  /\ PerSecond \in Nat \ {0}
  /\ {Lifetime, MaxClock, MaxTokens} \subseteq Nat

VARIABLES
  clock,   \* in ticks
  users,   \* users[d]: the accounts in database d
  tokens   \* the tokens ever issued

vars == <<startupVars, clock, users, tokens>>

----------------------------------------------------------------------------
\* exp is what the token says, told what the answer says; of is the database of
\* the controller that issued it (history).
Token == [sub: Users, secret: Secrets, exp: Nat, told: Nat, of: Databases]

TypeOK ==
  /\ StartupTypeOK
  /\ clock \in 0..MaxClock
  /\ users \in [Databases -> SUBSET Users]
  /\ tokens \subseteq Token

Init ==
  /\ StartupInit
  /\ clock = 0
  /\ users = [d \in Databases |-> {}]
  /\ tokens = {}

Seconds(ticks) == ticks \div PerSecond

\* writeAuthResponse
Issued(p, u) ==
  LET expiresAt == clock + Lifetime * PerSecond
  IN  [sub |-> u, secret |-> Cfg(p).secret, of |-> Cfg(p).database,
       exp |-> Seconds(expiresAt), told |-> expiresAt]

\* Mutant: expired only when the second is over.
ValidLate(tok, secret) == tok.secret = secret /\ tok.exp >= Seconds(clock)

\* ValidateToken: the signature, then the expiry.
Valid(tok, secret) == tok.secret = secret /\ tok.exp > Seconds(clock)

\* RequireAuth
Admits(p, tok) == At(p, "up") /\ Valid(tok, Cfg(p).secret)

Room == Cardinality(tokens) < MaxTokens

SignIn(p, u) ==
  /\ At(p, "up") /\ Room
  /\ users' = [users EXCEPT ![Cfg(p).database] = @ \union {u}]
  /\ tokens' = tokens \union {Issued(p, u)}
  /\ UNCHANGED <<startupVars, clock>>

\* Mutant: what the token says is taken for what is stored.
RefreshUnknown(p, tok) ==
  /\ Admits(p, tok) /\ Room
  /\ tokens' = tokens \union {Issued(p, tok.sub)}
  /\ UNCHANGED <<startupVars, clock, users>>

\* Refresh: the token is checked by the middleware and again by the handler, and
\* the account is looked up.  A token that was exchanged stays good, as one does
\* whose user has logged out.
Refresh(p, tok) ==
  /\ Admits(p, tok) /\ Room
  /\ tok.sub \in users[Cfg(p).database]
  /\ tokens' = tokens \union {Issued(p, tok.sub)}
  /\ UNCHANGED <<startupVars, clock, users>>

Tick ==
  /\ clock < MaxClock
  /\ clock' = clock + 1
  /\ UNCHANGED <<startupVars, users, tokens>>

Start(A) == A /\ UNCHANGED <<clock, users, tokens>>

Next ==
  \/ Tick
  \/ \E p \in Processes : Start(StartupStep(p))
  \/ \E p \in Controllers :
       \/ \E u \in Users : SignIn(p, u)
       \/ \E tok \in tokens : Refresh(p, tok)

Spec == Init /\ [][Next]_vars

\* The deployment starts a controller again when it has stopped, and no step of
\* a start fails, or is the last one, each time that it is tried; that the bucket
\* is taken is an answer like others.
FairSpec ==
  /\ Spec
  /\ \A p \in Controllers :
       /\ WF_vars(Start(Begin(p)))
       /\ \A k \in 1..Migrations : SF_vars(Start(Migrate(p, k)))
       /\ SF_vars(Start(Migrated(p)))
       /\ SF_vars(Start(BucketExists(p)))
       /\ SF_vars(Start(MakeBucket(p)))
       /\ WF_vars(Start(BucketTaken(p)))

----------------------------------------------------------------------------
(***************************************************************************)
(* Properties.                                                             *)
(***************************************************************************)

\* The client was told how long its session lasts, and that is how long it does,
\* give or take the second that is rounded away: never longer, and not more than
\* a second shorter, on every controller with the same secret and through all
\* their restarts; with another secret it is over, until the secret is back.
SessionsLastAsTold ==
  \A p \in Controllers, tok \in tokens : At(p, "up") =>
    /\ Admits(p, tok) => tok.secret = Cfg(p).secret /\ clock < tok.told
    /\ tok.secret = Cfg(p).secret /\ clock + PerSecond <= tok.told => Admits(p, tok)

\* A token is only ever issued to an account of the database the controller then
\* worked on, although a token of another database under the same secret gets
\* its bearer past the middleware.
TokensNameAccounts == \A tok \in tokens : tok.sub \in users[tok.of]

============================================================================
