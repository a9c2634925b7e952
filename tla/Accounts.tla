------------------------------ MODULE Accounts ------------------------------
(***************************************************************************)
(* The users table under the handlers that make accounts, link them to     *)
(* Google accounts and sign people in to them.  Registration and password  *)
(* login are one SQL statement each; a Google login is up to three, with   *)
(* other requests between them.  What keeps them apart are the table's     *)
(* unique indices and the condition of LinkGoogleID's UPDATE.              *)
(*                                                                         *)
(* Passwords stand for their hashes.  Requests that are turned away before *)
(* they reach the table are left out; rows are never deleted.              *)
(***************************************************************************)
EXTENDS Naturals

CONSTANTS
  Ids,        \* ids that accounts can have
  Addresses,  \* e-mail addresses as people type them
  Fold,       \* Fold[a]: address a trimmed and in lower case
  Passwords,
  Googles,    \* subjects of Google accounts
  Clients,    \* requests that can be served at once
  None        \* no row, no password, no Google account

ASSUME AccountsAssumption ==
  /\ Fold \in [Addresses -> Addresses]
  /\ \A a \in Addresses : Fold[Fold[a]] = Fold[a]
  /\ None \notin Ids \union Addresses \union Passwords \union Googles

VARIABLES
  users,         \* users[u]: the row with id u
  req,           \* req[c]: the Google login that c serves
  withPassword,  \* history: who was signed in to which account
  withGoogle,    \* history: the same, for Google logins
  raced          \* history: addresses two Google accounts logged in with at once

history == <<withPassword, withGoogle, raced>>
vars == <<users, req, history>>

----------------------------------------------------------------------------
\* There is some way to sign in to every account.
Row == {r \in [email: Addresses, password: Passwords \union {None}, google: Googles \union {None}] :
          r.password # None \/ r.google # None}

NoRow == [email |-> None, password |-> None, google |-> None]

Login == [pc: {"idle", "byEmail", "link", "create"}, google: Googles \union {None},
          email: Addresses \union {None}, id: Ids \union {None}]

Idle == [pc |-> "idle", google |-> None, email |-> None, id |-> None]

TypeOK ==
  /\ users \in [Ids -> Row \union {NoRow}]
  /\ req \in [Clients -> Login]
  /\ withPassword \subseteq [email: Addresses, password: Passwords, as: Ids]
  /\ withGoogle \subseteq [google: Googles, email: Addresses, as: Ids]
  /\ raced \subseteq Addresses

Init ==
  /\ users = [u \in Ids |-> NoRow]
  /\ req = [c \in Clients |-> Idle]
  /\ withPassword = {}
  /\ withGoogle = {}
  /\ raced = {}

Known == {u \in Ids : users[u] # NoRow}

ByEmail(a)  == {u \in Known : Fold[users[u].email] = Fold[a]}
ByGoogle(g) == {u \in Known : users[u].google = g}

\* The unique indices on email, as it is stored, and on google_id if there is one.
Clashes(row) ==
  {u \in Known : \/ users[u].email = row.email
                 \/ row.google # None /\ users[u].google = row.google}

Insert(u, row) ==
  /\ u \in Ids \ Known
  /\ Clashes(row) = {}
  /\ users' = [users EXCEPT ![u] = row]

SignInGoogle(c, u) ==
  /\ withGoogle' = withGoogle \union
                     {[google |-> req[c].google, email |-> req[c].email, as |-> u]}
  /\ UNCHANGED <<withPassword, raced>>

At(c, pc)   == req[c].pc = pc
Goto(c, pc) == req' = [req EXCEPT ![c].pc = pc]
Done(c)     == req' = [req EXCEPT ![c] = Idle]

----------------------------------------------------------------------------
(***************************************************************************)
(* POST /auth/register and POST /auth/login.                               *)
(***************************************************************************)
\* Mutant: the address is stored as it was typed.
LocalRowAsTyped(a, p) == [email |-> a, password |-> p, google |-> None]

LocalRow(a, p) == [email |-> Fold[a], password |-> p, google |-> None]

\* The answer may get lost, which is CreateUser's error to the client.  When the
\* address is taken nothing changes (and the answer is not the conflict that the
\* handler is prepared for, as CreateUser does not return ErrUserExists).
Register ==
  /\ \E u \in Ids, a \in Addresses, p \in Passwords :
       /\ Insert(u, LocalRow(a, p))
       /\ \/ withPassword' = withPassword \union {[email |-> a, password |-> p, as |-> u]}
          \/ UNCHANGED withPassword
  /\ UNCHANGED <<req, withGoogle, raced>>

PasswordLogin ==
  /\ \E a \in Addresses, p \in Passwords : \E u \in ByEmail(a) :
       /\ users[u].password = p
       /\ withPassword' = withPassword \union {[email |-> a, password |-> p, as |-> u]}
  /\ UNCHANGED <<users, req, withGoogle, raced>>

----------------------------------------------------------------------------
(***************************************************************************)
(* POST /auth/google.                                                      *)
(***************************************************************************)
\* The Google accounts that log in with address a right now.
Using(a) == {req[d].google : d \in {d \in Clients : ~At(d, "idle") /\ req[d].email = a}}

\* The token is verified, and its address folded; then the account with its
\* subject is looked for.
GoogleFound ==
  /\ \E g \in Googles, a \in Addresses : \E u \in ByGoogle(g) :
       withGoogle' = withGoogle \union {[google |-> g, email |-> Fold[a], as |-> u]}
  /\ UNCHANGED <<users, req, withPassword, raced>>

GoogleUnknown(c) ==
  /\ At(c, "idle")
  /\ \E g \in Googles, a \in Addresses :
       /\ ByGoogle(g) = {}
       /\ req' = [req EXCEPT ![c] = [pc |-> "byEmail", google |-> g, email |-> Fold[a], id |-> None]]
       /\ raced' = IF Using(Fold[a]) \subseteq {g} THEN raced ELSE raced \union {Fold[a]}
  /\ UNCHANGED <<users, withPassword, withGoogle>>

EmailFree(c) ==
  /\ At(c, "byEmail")
  /\ ByEmail(req[c].email) = {}
  /\ Goto(c, "create")
  /\ UNCHANGED <<users, history>>

\* Mutant: an account without a Google account is taken without linking it.
EmailUnlinkedTaken(c) ==
  /\ At(c, "byEmail")
  /\ \E u \in ByEmail(req[c].email) : users[u].google = None /\ SignInGoogle(c, u)
  /\ Done(c)
  /\ UNCHANGED users

EmailUnlinked(c) ==
  /\ At(c, "byEmail")
  /\ \E u \in ByEmail(req[c].email) :
       /\ users[u].google = None
       /\ req' = [req EXCEPT ![c].pc = "link", ![c].id = u]
  /\ UNCHANGED <<users, history>>

\* The account is linked by now: to this Google account, or to another one.
EmailLinked(c) ==
  /\ At(c, "byEmail")
  /\ \E u \in ByEmail(req[c].email) :
       /\ users[u].google # None
       /\ IF users[u].google = req[c].google THEN SignInGoogle(c, u) ELSE UNCHANGED history
  /\ Done(c)
  /\ UNCHANGED users

\* Mutant: the UPDATE has no condition on google_id.
LinkGoogleIDAnyway(c) ==
  LET u == req[c].id IN
  /\ At(c, "link")
  /\ ByGoogle(req[c].google) \subseteq {u}
  /\ users' = [users EXCEPT ![u].google = req[c].google]
  /\ SignInGoogle(c, u)
  /\ Done(c)

\* UPDATE ... WHERE id AND google_id IS NULL: how many rows it changed is not
\* looked at.  It violates the unique index if the Google account was linked to
\* some other account meanwhile.
LinkGoogleID(c) ==
  LET u == req[c].id IN
  /\ At(c, "link")
  /\ \/ users[u].google # None /\ UNCHANGED users
     \/ /\ users[u].google = None
        /\ ByGoogle(req[c].google) = {}
        /\ users' = [users EXCEPT ![u].google = req[c].google]
  /\ SignInGoogle(c, u)
  /\ Done(c)

\* Mutant: the subject is not stored.
GoogleRowUnlinked(a, g) == [email |-> a, password |-> None, google |-> None]

GoogleRow(a, g) == [email |-> a, password |-> None, google |-> g]

\* Mutant: an address that has an account by now is no conflict; its row is updated.
CreateGoogleUserUpserts(c) ==
  /\ At(c, "create")
  /\ \E u \in Ids :
       /\ \/ Insert(u, GoogleRow(req[c].email, req[c].google))
          \/ /\ u \in ByEmail(req[c].email) /\ ByGoogle(req[c].google) = {}
             /\ users' = [users EXCEPT ![u].google = req[c].google]
       /\ SignInGoogle(c, u)
  /\ Done(c)

CreateGoogleUser(c) ==
  /\ At(c, "create")
  /\ \E u \in Ids :
       /\ Insert(u, GoogleRow(req[c].email, req[c].google))
       /\ SignInGoogle(c, u)
  /\ Done(c)

\* The statement fails, violates an index, or is done although the client, who
\* may be gone, is not told.
GoogleLoginFails(c) ==
  /\ ~At(c, "idle")
  /\ \/ UNCHANGED users
     \/ /\ At(c, "link") /\ users[req[c].id].google = None /\ ByGoogle(req[c].google) = {}
        /\ users' = [users EXCEPT ![req[c].id].google = req[c].google]
     \/ /\ At(c, "create")
        /\ \E u \in Ids : Insert(u, GoogleRow(req[c].email, req[c].google))
  /\ Done(c)
  /\ UNCHANGED history

GoogleLogin(c) ==
  \/ GoogleUnknown(c) \/ EmailFree(c) \/ EmailUnlinked(c) \/ EmailLinked(c)
  \/ LinkGoogleID(c) \/ CreateGoogleUser(c) \/ GoogleLoginFails(c)

Next == Register \/ PasswordLogin \/ GoogleFound \/ \E c \in Clients : GoogleLogin(c)

Spec == Init /\ [][Next]_vars

----------------------------------------------------------------------------
(***************************************************************************)
(* Properties.                                                             *)
(***************************************************************************)

\* However an address is typed, and however registrations and Google logins
\* race for it, it has one account, and so has a Google account.  The unique
\* index compares addresses as they are stored, the lookup in lower case.
SameAddress(u, v) == Fold[users[u].email] = Fold[users[v].email]
SameGoogle(u, v)  == users[u].google # None /\ users[u].google = users[v].google

OneAccountEach ==
  \A u, v \in Known : SameAddress(u, v) \/ SameGoogle(u, v) => u = v

\* An account that is linked to a Google account stays linked to it: the handler
\* decides to link on what it read two statements before.
LinksAreForGood ==
  [][\A u \in Known : users[u].google # None => users'[u].google = users[u].google]_vars

\* Who was signed in to an account can sign in to it again in the same way,
\* whatever others registered or linked since: the password is still its
\* password, the Google account is the one it is linked to.  Only a Google login
\* that overlapped one of another Google account for the same address may have
\* been signed in without being linked.
SignInIsRepeatable ==
  /\ \A s \in withPassword :
       ByEmail(s.email) = {s.as} /\ users[s.as].password = s.password
  /\ \A s \in withGoogle : s.email \notin raced => ByGoogle(s.google) = {s.as}

----------------------------------------------------------------------------
(***************************************************************************)
(* The table, as an implementation of the directory.                       *)
(***************************************************************************)
Account(us) == IF us = {} THEN None ELSE CHOOSE u \in us : TRUE

Dir == INSTANCE Directory WITH
  Addresses <- {Fold[a] : a \in Addresses},
  address   <- [a \in {Fold[x] : x \in Addresses} |-> Account(ByEmail(a))],
  google    <- [g \in Googles |-> Account(ByGoogle(g))],
  password  <- [u \in Ids |-> users[u].password]

\* Whatever registrations and Google logins race for an address or a Google account,
\* one of them opens the account, under that address for ever; the others find it
\* or fail, and none takes it over, moves it, or changes its password.
IsDirectory == Dir!Spec

============================================================================
