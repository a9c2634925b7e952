--------------------------- MODULE Accounts_proofs ---------------------------
(***************************************************************************)
(* Proofs about Accounts, for any number of accounts, addresses, Google    *)
(* accounts and requests: its types, that an address and a Google account  *)
(* have one account each, that links are never taken back, that sign-ins   *)
(* can be repeated, and that the table implements Directory.               *)
(*                                                                         *)
(* That addresses are stored folded is what makes the unique index on the  *)
(* stored address as good as one on the folded address.                    *)
(***************************************************************************)
EXTENDS Accounts, TLAPS

----------------------------------------------------------------------------
(* The inductive invariant.                                                *)

UsersType == users \in [Ids -> Row \union {NoRow}]

Folded == \A u \in Known : Fold[users[u].email] = users[u].email

UsersInv == UsersType /\ Folded /\ OneAccountEach

\* A Google login has a folded address, and links an account that exists.
LoginInv(c) ==
  ~At(c, "idle") =>
    /\ req[c].email \in Addresses /\ Fold[req[c].email] = req[c].email
    /\ req[c].google \in Googles
    /\ At(c, "link") => req[c].id \in Known

LoginsInv == req \in [Clients -> Login] /\ \A c \in Clients : LoginInv(c)

HistoryType ==
  /\ withPassword \subseteq [email: Addresses, password: Passwords, as: Ids]
  /\ withGoogle \subseteq [google: Googles, email: Addresses, as: Ids]
  /\ raced \subseteq Addresses

IInv == UsersInv /\ LoginsInv /\ HistoryType

----------------------------------------------------------------------------
(* The table.                                                              *)

\* An id without a row is told from every row by its address.
LEMMA KnownRow ==
  ASSUME UsersType, NEW u \in Known
  PROVE  u \in Ids /\ users[u] \in Row
BY DEF UsersType, Known

LEMMA RowKnown ==
  ASSUME NEW row \in Row
  PROVE  row # NoRow /\ row.email \in Addresses
BY AccountsAssumption DEF Row, NoRow

LEMMA LocalRowType ==
  ASSUME NEW a \in Addresses, NEW p \in Passwords
  PROVE  LocalRow(a, p) \in Row /\ Fold[LocalRow(a, p).email] = LocalRow(a, p).email
BY AccountsAssumption DEF LocalRow, Row

LEMMA GoogleRowType ==
  ASSUME NEW a \in Addresses, NEW g \in Googles
  PROVE  GoogleRow(a, g) \in Row /\ GoogleRow(a, g).email = a
BY AccountsAssumption DEF GoogleRow, Row

\* An INSERT that the unique indices let through.
LEMMA InsertKeeps ==
  ASSUME UsersInv, NEW row \in Row, Fold[row.email] = row.email,
         NEW n \in Ids, Insert(n, row)
  PROVE  UsersInv' /\ Known \subseteq Known'
<1>1. /\ n \notin Known
      /\ users'[n] = row
      /\ \A u \in Ids \ {n} : users'[u] = users[u]
  BY DEF Insert, UsersInv, UsersType
<1>2. UsersType'
  BY DEF Insert, UsersInv, UsersType
<1>3. Known' = Known \union {n}
  BY <1>1, RowKnown DEF Known
<1>4. Folded'
  BY <1>1, <1>3 DEF UsersInv, Folded, Known
<1>5. ASSUME NEW u \in Known
      PROVE  /\ Fold[users[u].email] # Fold[row.email]
             /\ ~(row.google # None /\ users[u].google = row.google)
  BY <1>5 DEF Insert, Clashes, UsersInv, Folded
<1>6. OneAccountEach'
  <2> SUFFICES ASSUME NEW u \in Known', NEW v \in Known',
                      SameAddress(u, v)' \/ SameGoogle(u, v)'
               PROVE  u = v
    BY DEF OneAccountEach
  <2>1. CASE u = n /\ v # n
    BY <1>1, <1>3, <1>5, <2>1 DEF SameAddress, SameGoogle, Known
  <2>2. CASE v = n /\ u # n
    BY <1>1, <1>3, <1>5, <2>2 DEF SameAddress, SameGoogle, Known
  <2>3. CASE u # n /\ v # n
    BY <1>1, <1>3, <2>3 DEF UsersInv, OneAccountEach, SameAddress, SameGoogle, Known
  <2> QED BY <2>1, <2>2, <2>3
<1> QED BY <1>2, <1>3, <1>4, <1>6 DEF UsersInv

\* The UPDATE of LinkGoogleID, where it changes a row.
LEMMA LinkKeeps ==
  ASSUME UsersInv, NEW n \in Known, users[n].google = None,
         NEW g \in Googles, ByGoogle(g) = {},
         users' = [users EXCEPT ![n].google = g]
  PROVE  UsersInv' /\ Known \subseteq Known'
<1>1. n \in Ids /\ users[n] \in Row
  BY KnownRow DEF UsersInv
<1> DEFINE row == [users[n] EXCEPT !.google = g]
<1>2. /\ users'[n] = row
      /\ \A u \in Ids \ {n} : users'[u] = users[u]
  BY <1>1 DEF UsersInv, UsersType
<1>3. /\ row \in Row
      /\ row.email = users[n].email
      /\ row.google = g
  BY <1>1, AccountsAssumption DEF Row
<1>4. UsersType'
  BY <1>1, <1>3 DEF UsersInv, UsersType
<1>5. Known' = Known
  BY <1>1, <1>2, <1>3, RowKnown DEF Known
<1>6. Folded'
  BY <1>2, <1>3, <1>5 DEF UsersInv, Folded, Known
<1>7. \A u \in Known : users[u].google # g
  BY DEF ByGoogle
<1>8. OneAccountEach'
  BY <1>2, <1>3, <1>5, <1>7
  DEF UsersInv, OneAccountEach, SameAddress, SameGoogle, Known
<1> QED BY <1>4, <1>5, <1>6, <1>8 DEF UsersInv

----------------------------------------------------------------------------
(* The steps.                                                              *)

LEMMA IInvInit == Init => IInv
<1> SUFFICES ASSUME Init PROVE IInv
  OBVIOUS
<1>1. UsersInv
  BY DEF Init, UsersInv, UsersType, Folded, OneAccountEach, Known
<1>2. LoginsInv
  BY DEF Init, LoginsInv, LoginInv, Login, Idle, At
<1>3. HistoryType
  BY DEF Init, HistoryType
<1> QED BY <1>1, <1>2, <1>3 DEF IInv

\* A login that ends, or leaves the table alone, keeps the other ones as they are.
LEMMA DoneKeeps ==
  ASSUME LoginsInv, NEW c \in Clients, Done(c), Known \subseteq Known'
  PROVE  LoginsInv'
<1>1. Idle \in Login
  BY DEF Idle, Login
<1> QED BY <1>1 DEF LoginsInv, LoginInv, Done, At, Idle

LEMMA SignInKeeps ==
  ASSUME HistoryType, NEW c \in Clients, ~At(c, "idle"), LoginInv(c),
         NEW u \in Ids, SignInGoogle(c, u)
  PROVE  HistoryType'
BY DEF HistoryType, LoginInv, SignInGoogle

LEMMA IInvStep == IInv /\ [Next]_vars => IInv'
<1> SUFFICES ASSUME IInv, [Next]_vars PROVE IInv'
  OBVIOUS
<1>0. UsersInv /\ LoginsInv /\ HistoryType /\ UsersType
  BY DEF IInv, UsersInv
<1>a. ASSUME UNCHANGED users PROVE UsersInv' /\ Known' = Known
  BY <1>0, <1>a DEF UsersInv, UsersType, Folded, OneAccountEach, SameAddress, SameGoogle, Known
<1>b. ASSUME UNCHANGED req, Known \subseteq Known' PROVE LoginsInv'
  BY <1>0, <1>b DEF LoginsInv, LoginInv, At
<1>1. CASE Register
  <2>1. PICK u \in Ids, a \in Addresses, p \in Passwords :
          /\ Insert(u, LocalRow(a, p))
          /\ \/ withPassword' = withPassword \union {[email |-> a, password |-> p, as |-> u]}
             \/ UNCHANGED withPassword
    BY <1>1 DEF Register
  <2>2. UsersInv' /\ Known \subseteq Known'
    BY <1>0, <2>1, LocalRowType, InsertKeeps
  <2>3. HistoryType'
    BY <1>0, <1>1, <2>1 DEF HistoryType, Register
  <2> QED BY <1>1, <1>b, <2>2, <2>3 DEF Register, IInv
<1>2. CASE PasswordLogin \/ GoogleFound
  <2>1. UNCHANGED <<users, req>>
    BY <1>2 DEF PasswordLogin, GoogleFound
  <2>2. HistoryType'
    BY <1>0, <1>2, AccountsAssumption
    DEF HistoryType, PasswordLogin, GoogleFound, ByEmail, ByGoogle, Known
  <2> QED BY <1>a, <1>b, <2>1, <2>2 DEF IInv
<1>3. ASSUME NEW c \in Clients, GoogleUnknown(c) PROVE IInv'
  <2>1. PICK g \in Googles, a \in Addresses :
          /\ req' = [req EXCEPT ![c] = [pc |-> "byEmail", google |-> g,
                                        email |-> Fold[a], id |-> None]]
          /\ raced' = IF Using(Fold[a]) \subseteq {g} THEN raced ELSE raced \union {Fold[a]}
    BY <1>3 DEF GoogleUnknown
  <2>2. Fold[a] \in Addresses /\ Fold[Fold[a]] = Fold[a]
    BY AccountsAssumption
  <2>3. LoginsInv'
    BY <1>0, <1>3, <1>a, <2>1, <2>2 DEF LoginsInv, LoginInv, Login, At, GoogleUnknown
  <2>4. HistoryType'
    BY <1>0, <1>3, <2>1, <2>2 DEF HistoryType, GoogleUnknown
  <2> QED BY <1>3, <1>a, <2>3, <2>4 DEF IInv, GoogleUnknown
<1>4. ASSUME NEW c \in Clients, EmailFree(c) \/ EmailUnlinked(c) PROVE IInv'
  <2>1. UNCHANGED <<users, history>>
    BY <1>4 DEF EmailFree, EmailUnlinked
  <2>2. LoginsInv'
    BY <1>0, <1>4, <1>a, <2>1
    DEF LoginsInv, LoginInv, Login, At, EmailFree, EmailUnlinked, Goto, ByEmail, Known
  <2> QED BY <1>0, <1>a, <2>1, <2>2 DEF IInv, HistoryType, history
<1>5. ASSUME NEW c \in Clients, EmailLinked(c) PROVE IInv'
  <2>1. UNCHANGED users /\ Done(c)
    BY <1>5 DEF EmailLinked
  <2>2. HistoryType'
    BY <1>0, <1>5, SignInKeeps
    DEF EmailLinked, LoginsInv, ByEmail, Known, HistoryType, history, At
  <2> QED BY <1>0, <1>a, <2>1, <2>2, DoneKeeps DEF IInv
<1>6. ASSUME NEW c \in Clients, LinkGoogleID(c) PROVE IInv'
  <2> DEFINE u == req[c].id
  <2>1. u \in Known /\ req[c].google \in Googles /\ u \in Ids
    BY <1>0, <1>6 DEF LinkGoogleID, LoginsInv, LoginInv, At, Known
  <2>2. UsersInv' /\ Known \subseteq Known'
    BY <1>0, <1>6, <1>a, <2>1, LinkKeeps DEF LinkGoogleID
  <2>3. HistoryType'
    BY <1>0, <1>6, <2>1, SignInKeeps DEF LinkGoogleID, LoginsInv, At
  <2> QED BY <1>0, <1>6, <2>2, <2>3, DoneKeeps DEF LinkGoogleID, IInv
<1>7. ASSUME NEW c \in Clients, CreateGoogleUser(c) PROVE IInv'
  <2>1. PICK u \in Ids : /\ Insert(u, GoogleRow(req[c].email, req[c].google))
                         /\ SignInGoogle(c, u)
    BY <1>7 DEF CreateGoogleUser
  <2>2. LoginInv(c) /\ ~At(c, "idle")
    BY <1>0, <1>7 DEF CreateGoogleUser, LoginsInv, At
  <2>3. UsersInv' /\ Known \subseteq Known'
    BY <1>0, <2>1, <2>2, GoogleRowType, InsertKeeps DEF LoginInv
  <2>4. HistoryType'
    BY <1>0, <2>1, <2>2, SignInKeeps
  <2> QED BY <1>0, <1>7, <2>3, <2>4, DoneKeeps DEF CreateGoogleUser, IInv
<1>8. ASSUME NEW c \in Clients, GoogleLoginFails(c) PROVE IInv'
  <2>1. Done(c) /\ UNCHANGED history /\ LoginInv(c) /\ ~At(c, "idle")
    BY <1>0, <1>8 DEF GoogleLoginFails, LoginsInv
  <2>2. UsersInv' /\ Known \subseteq Known'
    <3>1. CASE UNCHANGED users
      BY <1>a, <3>1
    <3>2. CASE /\ At(c, "link") /\ users[req[c].id].google = None
               /\ ByGoogle(req[c].google) = {}
               /\ users' = [users EXCEPT ![req[c].id].google = req[c].google]
      BY <1>0, <2>1, <3>2, LinkKeeps DEF LoginInv
    <3>3. CASE \E u \in Ids : Insert(u, GoogleRow(req[c].email, req[c].google))
      BY <1>0, <2>1, <3>3, GoogleRowType, InsertKeeps DEF LoginInv
    <3> QED BY <1>8, <3>1, <3>2, <3>3 DEF GoogleLoginFails
  <2> QED BY <1>0, <2>1, <2>2, DoneKeeps DEF IInv, HistoryType, history
<1>9. CASE UNCHANGED vars
  BY <1>0, <1>9, <1>a, <1>b DEF vars, history, IInv, HistoryType
<1> QED
  BY <1>1, <1>2, <1>3, <1>4, <1>5, <1>6, <1>7, <1>8, <1>9 DEF Next, GoogleLogin

LEMMA IInvInvariant == Spec => []IInv
BY IInvInit, IInvStep, PTL DEF Spec

\* Every reachable state has the declared types.
THEOREM TypeCorrect == Spec => []TypeOK
<1>1. IInv => TypeOK
  BY DEF IInv, UsersInv, UsersType, LoginsInv, HistoryType, TypeOK
<1> QED BY <1>1, IInvInvariant, PTL

\* An address, however it is typed, and a Google account have one account each,
\* whatever registrations and Google logins race.
THEOREM OneAccount == Spec => []OneAccountEach
<1>1. IInv => OneAccountEach
  BY DEF IInv, UsersInv
<1> QED BY <1>1, IInvInvariant, PTL

----------------------------------------------------------------------------
(* What becomes of a row.                                                  *)

\* Only LinkGoogleID changes a row, and only one without a Google account.
LinkedBy(u) ==
  \E c \in Clients : /\ At(c, "link") /\ req[c].id = u
                     /\ users[u].google = None /\ users'[u].google = req[c].google

LEMMA RowsStay ==
  ASSUME UsersType, LoginsInv, [Next]_vars, NEW u \in Known
  PROVE  /\ u \in Ids /\ u \in Known'
         /\ users'[u].email = users[u].email
         /\ users'[u].password = users[u].password
         /\ users'[u].google = users[u].google \/ LinkedBy(u)
<1>1. u \in Ids /\ users[u] \in Row
  BY KnownRow
<1>2. CASE users'[u] = users[u]
  BY <1>1, <1>2 DEF Known
<1>3. ASSUME NEW n \in Ids, NEW row, Insert(n, row) PROVE users'[u] = users[u]
  BY <1>1, <1>3 DEF Insert, UsersType
<1>4. ASSUME NEW c \in Clients, At(c, "link"), users[req[c].id].google = None,
             users' = [users EXCEPT ![req[c].id].google = req[c].google]
      PROVE  \/ users'[u] = users[u]
             \/ LinkedBy(u) /\ users'[u] = [users[u] EXCEPT !.google = req[c].google]
  <2>1. CASE u # req[c].id
    BY <1>1, <1>4, <2>1 DEF UsersType
  <2>2. CASE u = req[c].id
    <3>1. users'[u] = [users[u] EXCEPT !.google = req[c].google]
      BY <1>1, <1>4, <2>2 DEF UsersType
    <3>2. users'[u].google = req[c].google
      BY <1>1, <3>1 DEF Row
    <3> QED BY <1>4, <2>2, <3>1, <3>2 DEF LinkedBy
  <2> QED BY <2>1, <2>2
<1>5. ASSUME NEW g \in Googles, users'[u] = [users[u] EXCEPT !.google = g]
      PROVE  /\ u \in Known'
             /\ users'[u].email = users[u].email
             /\ users'[u].password = users[u].password
  BY <1>1, <1>5, AccountsAssumption DEF Row, Known, NoRow
<1>6. ASSUME NEW c \in Clients, At(c, "link")
      PROVE  req[c].google \in Googles
  BY <1>6 DEF LoginsInv, LoginInv, At
<1>7. ASSUME NEW c \in Clients, LinkGoogleID(c)
      PROVE  \/ users'[u] = users[u]
             \/ LinkedBy(u) /\ users'[u] = [users[u] EXCEPT !.google = req[c].google]
  BY <1>4, <1>7 DEF LinkGoogleID
<1>8. ASSUME NEW c \in Clients, GoogleLoginFails(c)
      PROVE  \/ users'[u] = users[u]
             \/ At(c, "link") /\ LinkedBy(u) /\ users'[u] = [users[u] EXCEPT !.google = req[c].google]
  BY <1>3, <1>4, <1>8 DEF GoogleLoginFails
<1>9. \/ users'[u] = users[u]
      \/ \E g \in Googles : LinkedBy(u) /\ users'[u] = [users[u] EXCEPT !.google = g]
  <2>1. CASE UNCHANGED users
    BY <2>1
  <2>2. ASSUME NEW c \in Clients, LinkGoogleID(c) \/ GoogleLoginFails(c)
        PROVE  \/ users'[u] = users[u]
               \/ \E g \in Googles : LinkedBy(u) /\ users'[u] = [users[u] EXCEPT !.google = g]
    BY <1>6, <1>7, <1>8, <2>2 DEF LinkGoogleID
  <2> QED
    BY <1>3, <2>1, <2>2 DEF vars, Next, GoogleLogin, Register, PasswordLogin, GoogleFound,
      GoogleUnknown, EmailFree, EmailUnlinked, EmailLinked, CreateGoogleUser
<1> QED BY <1>1, <1>2, <1>5, <1>9

\* A link to a Google account is never taken back or replaced: rows are inserted
\* under new ids, and linked only while they are not.
THEOREM LinksStay == Spec => LinksAreForGood
<1>1. IInv /\ [Next]_vars
        => [\A u \in Known : users[u].google # None => users'[u].google = users[u].google]_vars
  BY RowsStay DEF IInv, UsersInv, LinkedBy
<1> QED BY <1>1, IInvInvariant, PTL DEF Spec, LinksAreForGood

----------------------------------------------------------------------------
(* Signing in again.                                                       *)

\* Two Google accounts do not log in with one address at once, unless it is raced.
RaceInv ==
  \A c, d \in Clients :
    /\ ~At(c, "idle") /\ ~At(d, "idle")
    /\ req[c].email = req[d].email /\ req[c].email \notin raced
    => req[c].google = req[d].google

\* The account that c is about to link may have been linked meanwhile, but only to
\* the same Google account.
LinkInv(c) ==
  At(c, "link") =>
    /\ users[req[c].id].email = req[c].email
    /\ req[c].email \notin raced => users[req[c].id].google \in {None, req[c].google}

PasswordInv ==
  \A s \in withPassword : /\ s.as \in Known
                          /\ users[s.as].email = Fold[s.email]
                          /\ users[s.as].password = s.password

GoogleInv ==
  \A s \in withGoogle : s.email \notin raced => s.as \in Known /\ users[s.as].google = s.google

SInv ==
  /\ IInv /\ RaceInv /\ PasswordInv /\ GoogleInv
  /\ \A c \in Clients : LinkInv(c)

LEMMA RacedGrows == [Next]_vars => raced \subseteq raced'
BY DEF Next, GoogleLogin, Register, PasswordLogin, GoogleFound, GoogleUnknown, EmailFree,
  EmailUnlinked, EmailLinked, LinkGoogleID, CreateGoogleUser, GoogleLoginFails,
  SignInGoogle, history, vars

\* A login goes on with the address and the Google account it began with.
LEMMA LoginsStay ==
  ASSUME LoginsInv, [Next]_vars, NEW d \in Clients, ~At(d, "idle")'
  PROVE  \/ /\ ~At(d, "idle")
            /\ req'[d].email = req[d].email /\ req'[d].google = req[d].google
            /\ At(d, "link")' => \/ At(d, "link") /\ req'[d].id = req[d].id
                                 \/ EmailUnlinked(d)
         \/ GoogleUnknown(d) /\ ~At(d, "link")'
<1>1. CASE UNCHANGED req
  BY <1>1 DEF At
<1>2. ASSUME NEW c \in Clients, Done(c)
      PROVE  d # c /\ req'[d] = req[d]
  BY <1>2 DEF LoginsInv, Done, At, Idle
<1>3. ASSUME NEW c \in Clients, EmailLinked(c) \/ LinkGoogleID(c) \/ CreateGoogleUser(c) \/ GoogleLoginFails(c)
      PROVE  req'[d] = req[d]
  BY <1>2, <1>3 DEF EmailLinked, LinkGoogleID, CreateGoogleUser, GoogleLoginFails
<1>4. ASSUME NEW c \in Clients, EmailFree(c) \/ EmailUnlinked(c) \/ GoogleUnknown(c), d # c
      PROVE  req'[d] = req[d]
  BY <1>4 DEF LoginsInv, EmailFree, EmailUnlinked, GoogleUnknown, Goto
<1>5. CASE EmailFree(d)
  BY <1>5 DEF LoginsInv, Login, EmailFree, Goto, At
<1>6. CASE EmailUnlinked(d)
  <2>1. PICK u : req' = [req EXCEPT ![d].pc = "link", ![d].id = u]
    BY <1>6 DEF EmailUnlinked
  <2>2. \A l \in Login : LET k == [l EXCEPT !.pc = "link", !.id = u]
          IN k.email = l.email /\ k.google = l.google
    BY DEF Login
  <2>3. req[d] \in Login /\ req'[d] = [req[d] EXCEPT !.pc = "link", !.id = u]
    BY <2>1 DEF LoginsInv
  <2>4. req'[d].email = req[d].email /\ req'[d].google = req[d].google
    BY <2>2, <2>3
  <2> QED BY <1>6, <2>4 DEF EmailUnlinked, At
<1>7. CASE GoogleUnknown(d)
  <2>1. req'[d].pc = "byEmail"
    BY <1>7 DEF LoginsInv, GoogleUnknown
  <2> QED BY <1>7, <2>1 DEF At
<1> QED
  BY <1>1, <1>3, <1>4, <1>5, <1>6, <1>7
  DEF Next, GoogleLogin, Register, PasswordLogin, GoogleFound, At, vars

LEMMA RaceStep == SInv /\ [Next]_vars => RaceInv'
<1> SUFFICES ASSUME SInv, [Next]_vars, NEW c \in Clients, NEW d \in Clients,
                    ~At(c, "idle")', ~At(d, "idle")',
                    req'[c].email = req'[d].email, req'[c].email \notin raced'
             PROVE  req'[c].google = req'[d].google
  BY DEF RaceInv
<1>1. LoginsInv /\ raced \subseteq raced'
  BY RacedGrows DEF SInv, IInv
<1>2. ASSUME NEW x \in Clients, NEW y \in Clients, x # y, GoogleUnknown(x), ~At(y, "idle")',
             req'[x].email = req'[y].email, req'[x].email \notin raced'
      PROVE  req'[x].google = req'[y].google
  <2>1. req'[y] = req[y] /\ ~At(y, "idle")
    BY <1>1, <1>2 DEF LoginsInv, GoogleUnknown, At
  <2>2. PICK g \in Googles, a \in Addresses :
          /\ req'[x].email = Fold[a] /\ req'[x].google = g
          /\ raced' = IF Using(Fold[a]) \subseteq {g} THEN raced ELSE raced \union {Fold[a]}
    BY <1>1, <1>2 DEF LoginsInv, GoogleUnknown
  <2>3. req[y].google \in Using(Fold[a])
    BY <1>2, <2>1, <2>2 DEF Using
  <2>4. Using(Fold[a]) \subseteq {g}
    BY <1>2, <2>2
  <2> QED BY <2>1, <2>2, <2>3, <2>4
<1>3. CASE GoogleUnknown(c) \/ GoogleUnknown(d)
  BY <1>2, <1>3
<1>4. CASE ~GoogleUnknown(c) /\ ~GoogleUnknown(d)
  BY <1>1, <1>4, LoginsStay DEF SInv, RaceInv
<1> QED BY <1>3, <1>4

LEMMA LinkStep == SInv /\ [Next]_vars => \A c \in Clients : LinkInv(c)'
<1> SUFFICES ASSUME SInv, [Next]_vars, NEW c \in Clients, At(c, "link")' PROVE LinkInv(c)'
  BY DEF LinkInv
<1>1. LoginsInv /\ UsersType /\ Folded /\ raced \subseteq raced' /\ ~At(c, "idle")'
  BY RacedGrows DEF SInv, IInv, UsersInv, At
<1>2. CASE EmailUnlinked(c)
  <2>1. PICK u \in ByEmail(req[c].email) : /\ users[u].google = None
                                           /\ req' = [req EXCEPT ![c].pc = "link", ![c].id = u]
    BY <1>2 DEF EmailUnlinked
  <2>2. req'[c].id = u /\ req'[c].email = req[c].email /\ UNCHANGED users
    BY <1>1, <1>2, <2>1 DEF LoginsInv, Login, EmailUnlinked
  <2>3. users[u].email = req[c].email
    BY <1>1, <1>2, <2>1 DEF Folded, ByEmail, LoginsInv, LoginInv, EmailUnlinked, At
  <2> QED BY <2>1, <2>2, <2>3 DEF LinkInv
<1>3. CASE ~EmailUnlinked(c)
  <2> DEFINE u == req[c].id
  <2>1. At(c, "link") /\ req'[c].id = u /\ req'[c].email = req[c].email /\ req'[c].google = req[c].google
    BY <1>1, <1>3, LoginsStay
  <2>2. u \in Known /\ ~At(c, "idle")
    BY <1>1, <2>1 DEF LoginsInv, LoginInv, At
  <2>3. users'[u].email = users[u].email /\ (users'[u].google = users[u].google \/ LinkedBy(u))
    BY <1>1, <2>2, RowsStay
  <2>4. LinkInv(c)
    BY DEF SInv
  <2>5. ASSUME LinkedBy(u), req[c].email \notin raced PROVE users'[u].google = req[c].google
    <3>1. PICK d \in Clients : At(d, "link") /\ req[d].id = u /\ users'[u].google = req[d].google
      BY <2>5 DEF LinkedBy
    <3>2. req[d].email = req[c].email /\ ~At(d, "idle")
      BY <2>1, <2>4, <3>1 DEF SInv, LinkInv, At
    <3> QED BY <2>2, <2>5, <3>1, <3>2 DEF SInv, RaceInv
  <2> QED BY <1>1, <2>1, <2>3, <2>4, <2>5 DEF LinkInv
<1> QED BY <1>2, <1>3

LEMMA PasswordStep == SInv /\ [Next]_vars => PasswordInv'
<1> SUFFICES ASSUME SInv, [Next]_vars PROVE PasswordInv'
  OBVIOUS
<1>1. LoginsInv /\ UsersType /\ Folded
  BY DEF SInv, IInv, UsersInv
<1>2. ASSUME NEW s \in withPassword
      PROVE  s.as \in Known' /\ users'[s.as].email = Fold[s.email] /\ users'[s.as].password = s.password
  BY <1>1, RowsStay DEF SInv, PasswordInv
<1>3. CASE Register
  <2>1. PICK u \in Ids, a \in Addresses, p \in Passwords :
          /\ Insert(u, LocalRow(a, p))
          /\ \/ withPassword' = withPassword \union {[email |-> a, password |-> p, as |-> u]}
             \/ UNCHANGED withPassword
    BY <1>3 DEF Register
  <2>2. users'[u] = LocalRow(a, p) /\ u \in Known'
    BY <1>1, <2>1, LocalRowType, RowKnown DEF Insert, UsersType, Known
  <2> QED BY <1>2, <2>1, <2>2 DEF PasswordInv, LocalRow
<1>4. CASE PasswordLogin
  <2>1. PICK a \in Addresses, p \in Passwords : \E u \in ByEmail(a) :
          /\ users[u].password = p
          /\ withPassword' = withPassword \union {[email |-> a, password |-> p, as |-> u]}
    BY <1>4 DEF PasswordLogin
  <2>2. PICK u \in ByEmail(a) :
          /\ users[u].password = p
          /\ withPassword' = withPassword \union {[email |-> a, password |-> p, as |-> u]}
    BY <2>1
  <2>3. u \in Known' /\ users'[u].email = Fold[a] /\ users'[u].password = p
    BY <1>1, <1>4, <2>2 DEF PasswordLogin, ByEmail, Folded, Known
  <2> QED BY <1>2, <2>2, <2>3 DEF PasswordInv
<1>5. CASE UNCHANGED withPassword
  BY <1>2, <1>5 DEF PasswordInv
<1> QED
  BY <1>3, <1>4, <1>5 DEF Next, GoogleLogin, GoogleFound, GoogleUnknown, EmailFree,
    EmailUnlinked, EmailLinked, LinkGoogleID, CreateGoogleUser, GoogleLoginFails,
    SignInGoogle, history, vars

LEMMA GoogleStep == SInv /\ [Next]_vars => GoogleInv'
<1> SUFFICES ASSUME SInv, [Next]_vars PROVE GoogleInv'
  OBVIOUS
<1>1. LoginsInv /\ UsersType /\ HistoryType /\ raced \subseteq raced'
  BY RacedGrows DEF SInv, IInv, UsersInv
<1>2. ASSUME NEW s \in withGoogle, s.email \notin raced'
      PROVE  s.as \in Known' /\ users'[s.as].google = s.google
  <2>1. s.as \in Known /\ users[s.as].google = s.google /\ s.google \in Googles
    BY <1>1, <1>2 DEF SInv, GoogleInv, HistoryType
  <2> QED BY <1>1, <2>1, RowsStay, AccountsAssumption DEF LinkedBy
<1>3. ASSUME NEW c \in Clients, NEW u, SignInGoogle(c, u),
             req[c].email \notin raced => u \in Known' /\ users'[u].google = req[c].google
      PROVE  GoogleInv'
  BY <1>1, <1>2, <1>3 DEF GoogleInv, SignInGoogle
<1>4. CASE UNCHANGED withGoogle
  BY <1>2, <1>4 DEF GoogleInv
<1>5. CASE GoogleFound
  <2>0. PICK g \in Googles, a \in Addresses : \E u \in ByGoogle(g) :
          withGoogle' = withGoogle \union {[google |-> g, email |-> Fold[a], as |-> u]}
    BY <1>5 DEF GoogleFound
  <2>1. PICK u \in ByGoogle(g) :
          withGoogle' = withGoogle \union {[google |-> g, email |-> Fold[a], as |-> u]}
    BY <2>0
  <2>2. u \in Known' /\ users'[u].google = g
    BY <1>5, <2>1 DEF GoogleFound, ByGoogle, Known
  <2> QED BY <1>2, <2>1, <2>2 DEF GoogleInv
<1>6. ASSUME NEW c \in Clients, EmailLinked(c) PROVE GoogleInv'
  <2>1. PICK u \in ByEmail(req[c].email) :
          IF users[u].google = req[c].google THEN SignInGoogle(c, u) ELSE UNCHANGED history
    BY <1>6 DEF EmailLinked
  <2>2. u \in Known' /\ users' = users
    BY <1>6, <2>1 DEF EmailLinked, ByEmail, Known
  <2> QED BY <1>3, <1>4, <2>1, <2>2 DEF history
<1>7. ASSUME NEW c \in Clients, LinkGoogleID(c) PROVE GoogleInv'
  <2> DEFINE u == req[c].id
  <2>1. u \in Known /\ u \in Ids /\ users[u] \in Row
    BY <1>1, <1>7, KnownRow DEF LinkGoogleID, LoginsInv, LoginInv, At
  <2>2. u \in Known'
    BY <1>1, <2>1, RowsStay
  <2>3. CASE users[u].google # None /\ UNCHANGED users
    BY <1>3, <1>7, <2>2, <2>3 DEF LinkGoogleID, SInv, LinkInv
  <2>4. CASE users' = [users EXCEPT ![u].google = req[c].google]
    <3>1. users'[u].google = req[c].google
      BY <1>1, <2>1, <2>4 DEF UsersType, Row
    <3> QED BY <1>3, <1>7, <2>2, <3>1 DEF LinkGoogleID
  <2> QED BY <1>7, <2>3, <2>4 DEF LinkGoogleID
<1>8. ASSUME NEW c \in Clients, CreateGoogleUser(c) PROVE GoogleInv'
  <2>1. PICK u \in Ids : /\ Insert(u, GoogleRow(req[c].email, req[c].google))
                         /\ SignInGoogle(c, u)
    BY <1>8 DEF CreateGoogleUser
  <2>2. req[c].email \in Addresses /\ req[c].google \in Googles
    BY <1>1, <1>8 DEF CreateGoogleUser, LoginsInv, LoginInv, At
  <2>3. users'[u] = GoogleRow(req[c].email, req[c].google)
    BY <1>1, <2>1 DEF Insert, UsersType
  <2>4. u \in Known' /\ users'[u].google = req[c].google
    BY <2>2, <2>3, GoogleRowType, RowKnown DEF Known, GoogleRow
  <2> QED BY <1>3, <2>1, <2>4
<1> QED
  BY <1>4, <1>5, <1>6, <1>7, <1>8 DEF Next, GoogleLogin, Register, PasswordLogin,
    GoogleUnknown, EmailFree, EmailUnlinked, GoogleLoginFails, history, vars

\* Who was signed in to an account can sign in to it again in the same way, for
\* any number of people who register and log in beside him.
THEOREM SignInRepeatable == Spec => []SignInIsRepeatable
<1>1. Init => SInv
  <2> SUFFICES ASSUME Init PROVE SInv
    OBVIOUS
  <2> QED BY IInvInit DEF Init, SInv, RaceInv, PasswordInv, GoogleInv, LinkInv, At, Idle
<1>2. SInv /\ [Next]_vars => SInv'
  BY IInvStep, RaceStep, LinkStep, PasswordStep, GoogleStep DEF SInv
<1>3. SInv => SignInIsRepeatable
  <2> SUFFICES ASSUME SInv PROVE SignInIsRepeatable
    OBVIOUS
  <2>1. UsersType /\ Folded /\ OneAccountEach /\ HistoryType
    BY DEF SInv, IInv, UsersInv
  <2>2. ASSUME NEW s \in withPassword
        PROVE  ByEmail(s.email) = {s.as} /\ users[s.as].password = s.password
    <3>1. s.as \in Known /\ users[s.as].email = Fold[s.email] /\ users[s.as].password = s.password
      BY DEF SInv, PasswordInv
    <3>2. s.as \in ByEmail(s.email)
      BY <2>1, <3>1 DEF Folded, ByEmail
    <3>3. \A u \in ByEmail(s.email) : u = s.as
      BY <2>1, <3>2 DEF ByEmail, OneAccountEach, SameAddress
    <3> QED BY <3>1, <3>2, <3>3
  <2>3. ASSUME NEW s \in withGoogle, s.email \notin raced
        PROVE  ByGoogle(s.google) = {s.as}
    <3>1. s.as \in ByGoogle(s.google) /\ s.google # None
      BY <2>1, <2>3, AccountsAssumption DEF SInv, GoogleInv, ByGoogle, HistoryType
    <3> QED BY <2>1, <3>1 DEF ByGoogle, OneAccountEach, SameGoogle
  <2> QED BY <2>2, <2>3 DEF SignInIsRepeatable
<1> QED BY <1>1, <1>2, <1>3, PTL DEF Spec

----------------------------------------------------------------------------
(* The directory.                                                          *)

Folds     == {Fold[x] : x \in Addresses}
DAddress  == [a \in Folds |-> Account(ByEmail(a))]
DGoogle   == [g \in Googles |-> Account(ByGoogle(g))]
DPassword == [u \in Ids |-> users[u].password]

LEMMA FoldsFolded == \A a \in Folds : a \in Addresses /\ Fold[a] = a
BY AccountsAssumption DEF Folds

\* The account of a set with one id, and of none.
LEMMA AccountIs ==
  /\ Account({}) = None
  /\ \A u : Account({u}) = u
BY DEF Account

\* A person finds the account that a set of ids stands for, if there is one.
LEMMA AccountFound ==
  ASSUME NEW us \in SUBSET Ids
  PROVE  /\ Account(us) \in us \/ (us = {} /\ Account(us) = None)
         /\ Account(us) = None => us = {}
BY AccountsAssumption DEF Account

\* The lookups by an address, or by a Google account, find at most one account.
LEMMA Lookups ==
  ASSUME UsersInv
  PROVE  /\ \A a \in Folds : ByEmail(a) = {u \in Known : users[u].email = a}
         /\ \A a \in Addresses : \A u, v \in ByEmail(a) : u = v
         /\ \A g \in Googles : \A u, v \in ByGoogle(g) : u = v
BY FoldsFolded, AccountsAssumption
DEF UsersInv, Folded, OneAccountEach, SameAddress, SameGoogle, ByEmail, ByGoogle

\* Open accounts are those with a row.
LEMMA OpenIsKnown ==
  ASSUME UsersInv
  PROVE  Dir!Open = Known
<1>1. ASSUME NEW u \in Known PROVE u \in Ids /\ \E a \in Folds : DAddress[a] = u
  <2>1. u \in Ids /\ users[u] \in Row /\ Fold[users[u].email] = users[u].email
    BY KnownRow DEF UsersInv, Folded
  <2>2. users[u].email \in Folds
    BY <2>1 DEF Row, Folds
  <2>3. ByEmail(users[u].email) = {u}
    BY <2>2, Lookups, FoldsFolded
  <2> QED BY <2>1, <2>2, <2>3, AccountIs DEF DAddress
<1>2. ASSUME NEW u \in Ids, NEW a \in Folds, DAddress[a] = u PROVE u \in Known
  <2>1. ByEmail(a) \subseteq Known /\ Known \subseteq Ids
    BY DEF ByEmail, Known
  <2>2. Account(ByEmail(a)) = u /\ u # None
    BY <1>2, AccountsAssumption DEF DAddress
  <2> QED BY <2>1, <2>2, AccountFound
<1> QED BY <1>1, <1>2 DEF Dir!Open, DAddress, Folds

\* A row that is inserted opens an account.
LEMMA InsertOpens ==
  ASSUME UsersInv, NEW n \in Ids, NEW row \in Row, Fold[row.email] = row.email, Insert(n, row),
         \/ row.google = None /\ row.password \in Passwords
         \/ row.google \in Googles /\ row.password = None
  PROVE  Dir!OpenAccount(row.email, n) /\ row.email \in Folds
<1>1. /\ n \notin Known /\ users'[n] = row
      /\ \A u \in Ids \ {n} : users'[u] = users[u]
  BY DEF Insert, UsersInv, UsersType
<1>2. row.email \in Folds
  BY DEF Row, Folds
<1>3. Known' = Known \union {n} /\ Known \subseteq Ids
  BY <1>1, RowKnown DEF Known
<1>4. ByEmail(row.email) = {}
  <2> SUFFICES ASSUME NEW u \in Known, users[u].email = row.email PROVE FALSE
    BY <1>2, Lookups
  <2> QED BY DEF Insert, Clashes
<1>5. \A a \in Folds : ByEmail(a)' = IF a = row.email THEN {n} ELSE ByEmail(a)
  <2> SUFFICES ASSUME NEW a \in Folds
               PROVE  ByEmail(a)' = IF a = row.email THEN {n} ELSE ByEmail(a)
    OBVIOUS
  <2>1. ByEmail(a)' = {u \in Known \union {n} : Fold[users'[u].email] = Fold[a]}
    BY <1>3 DEF ByEmail
  <2>2. Fold[a] = a
    BY FoldsFolded
  <2> QED BY <1>1, <1>3, <1>4, <2>1, <2>2 DEF ByEmail
<1>6. DAddress' = [DAddress EXCEPT ![row.email] = n] /\ DAddress[row.email] = None
  BY <1>2, <1>4, <1>5, AccountIs DEF DAddress
<1>7. DPassword[n] = None /\ DPassword' = [DPassword EXCEPT ![n] = row.password]
  <2>1. users[n] = NoRow
    BY <1>1 DEF Known
  <2>2. users[n].password = None
    BY <2>1 DEF NoRow
  <2>3. \A u \in Ids \ {n} : users'[u].password = users[u].password
    BY <1>1
  <2> QED BY <1>1, <2>2, <2>3, Zenon DEF DPassword
<1>8. n \notin Dir!Open
  BY <1>1, OpenIsKnown
<1>9. CASE row.google = None
  <2>1. \A g \in Googles : ByGoogle(g)' = ByGoogle(g)
    BY <1>1, <1>3, <1>9, AccountsAssumption DEF ByGoogle
  <2>2. DGoogle' = DGoogle
    BY <2>1 DEF DGoogle
  <2> QED
    BY <1>2, <1>6, <1>7, <1>8, <1>9, <2>2, AccountsAssumption
    DEF Dir!OpenAccount, DAddress, DGoogle, DPassword, Folds
<1>10. CASE row.google \in Googles /\ row.password = None
  <2>1. ByGoogle(row.google) = {}
    BY <1>10, AccountsAssumption DEF Insert, Clashes, ByGoogle
  <2>2. \A g \in Googles : ByGoogle(g)' = IF g = row.google THEN {n} ELSE ByGoogle(g)
    <3> SUFFICES ASSUME NEW g \in Googles
                 PROVE  ByGoogle(g)' = IF g = row.google THEN {n} ELSE ByGoogle(g)
      OBVIOUS
    <3>1. ByGoogle(g)' = {u \in Known \union {n} : users'[u].google = g}
      BY <1>3 DEF ByGoogle
    <3> QED BY <1>1, <1>3, <2>1, <3>1 DEF ByGoogle
  <2>3. DGoogle' = [DGoogle EXCEPT ![row.google] = n] /\ DGoogle[row.google] = None
    BY <1>10, <2>1, <2>2, AccountIs DEF DGoogle
  <2>4. ASSUME NEW h \in Googles PROVE DGoogle[h] # n
    <3>1. ByGoogle(h) \in SUBSET Ids /\ n \notin ByGoogle(h) /\ n # None
      BY <1>1, <1>3, AccountsAssumption DEF ByGoogle
    <3> QED BY <3>1, AccountFound DEF DGoogle
  <2>5. DPassword' = DPassword
    BY <1>7, <1>10 DEF DPassword
  <2> QED
    BY <1>2, <1>6, <1>8, <1>10, <2>3, <2>4, <2>5
    DEF Dir!OpenAccount, Dir!Link, DAddress, DGoogle, DPassword, Folds
<1> QED BY <1>2, <1>9, <1>10

\* The UPDATE of LinkGoogleID, where it changes a row, links an account.
LEMMA UpdateLinks ==
  ASSUME UsersInv, NEW n \in Known, users[n].google = None,
         NEW g \in Googles, ByGoogle(g) = {},
         users' = [users EXCEPT ![n].google = g]
  PROVE  Dir!LinkAccount(n)
<1>1. n \in Ids /\ users[n] \in Row
  BY KnownRow DEF UsersInv
<1> DEFINE row == [users[n] EXCEPT !.google = g]
<1>2. users'[n] = row /\ \A u \in Ids \ {n} : users'[u] = users[u]
  BY <1>1 DEF UsersInv, UsersType
<1>3. row \in Row /\ row.email = users[n].email /\ row.google = g
      /\ row.password = users[n].password
  BY <1>1, AccountsAssumption DEF Row
<1>4. Known' = Known /\ Known \subseteq Ids
  BY <1>1, <1>2, <1>3, RowKnown DEF Known
<1>5. \A a \in Folds : ByEmail(a)' = ByEmail(a)
  BY <1>2, <1>3, <1>4 DEF ByEmail
<1>6. DAddress' = DAddress
  BY <1>5 DEF DAddress
<1>7. DPassword' = DPassword
  BY <1>2, <1>3 DEF DPassword
<1>8. \A h \in Googles : ByGoogle(h)' = IF h = g THEN {n} ELSE ByGoogle(h)
  <2> SUFFICES ASSUME NEW h \in Googles
               PROVE  ByGoogle(h)' = IF h = g THEN {n} ELSE ByGoogle(h)
    OBVIOUS
  <2>1. ByGoogle(h)' = {u \in Known : users'[u].google = h}
    BY <1>4 DEF ByGoogle
  <2>2. h # None /\ (\A u \in Known : users[u].google # g)
    BY AccountsAssumption DEF ByGoogle
  <2>3. users'[n].google = g /\ \A u \in Known \ {n} : users'[u].google = users[u].google
    BY <1>2, <1>3, <1>4
  <2>4. CASE h = g
    BY <2>1, <2>2, <2>3, <2>4
  <2>5. CASE h # g
    BY <2>1, <2>2, <2>3, <2>5 DEF ByGoogle
  <2> QED BY <2>4, <2>5
<1>9. DGoogle' = [DGoogle EXCEPT ![g] = n] /\ DGoogle[g] = None
  BY <1>8, AccountIs DEF DGoogle
<1>10. ASSUME NEW h \in Googles PROVE DGoogle[h] # n
  <2>1. ByGoogle(h) \in SUBSET Ids /\ n \notin ByGoogle(h) /\ n # None
    BY <1>1, <1>4, AccountsAssumption DEF ByGoogle
  <2> QED BY <2>1, AccountFound DEF DGoogle
<1>11. n \in Dir!Open
  BY OpenIsKnown
<1> QED
  BY <1>1, <1>6, <1>7, <1>9, <1>10, <1>11
  DEF Dir!LinkAccount, Dir!Link, DAddress, DGoogle, DPassword, Folds

\* A step that leaves the table alone is none of the directory.
LEMMA SameTable ==
  ASSUME UNCHANGED users
  PROVE  UNCHANGED Dir!vars
<1>1. Known' = Known
  BY DEF Known
<1>2. (\A a \in Folds : ByEmail(a)' = ByEmail(a)) /\ (\A g \in Googles : ByGoogle(g)' = ByGoogle(g))
  BY <1>1 DEF ByEmail, ByGoogle
<1>3. DAddress' = DAddress /\ DGoogle' = DGoogle /\ DPassword' = DPassword
  BY <1>2 DEF DAddress, DGoogle, DPassword
<1> QED BY <1>3 DEF Dir!vars, DAddress, DGoogle, DPassword, Folds

LEMMA DirectoryInit == Init => Dir!Init
<1> SUFFICES ASSUME Init PROVE Dir!Init
  OBVIOUS
<1>1. Known = {}
  BY DEF Init, Known
<1>2. (\A a \in Folds : ByEmail(a) = {}) /\ (\A g \in Googles : ByGoogle(g) = {})
  BY <1>1 DEF ByEmail, ByGoogle
<1>3. /\ DAddress = [a \in Folds |-> None] /\ DGoogle = [g \in Googles |-> None]
      /\ DPassword = [u \in Ids |-> None]
  BY <1>2, AccountIs DEF DAddress, DGoogle, DPassword, Init, NoRow
<1> QED BY <1>3 DEF Dir!Init, DAddress, DGoogle, DPassword, Folds

LEMMA DirectoryStep == IInv /\ [Next]_vars => [Dir!Next]_(Dir!vars)
<1> SUFFICES ASSUME IInv, [Next]_vars PROVE Dir!Next \/ UNCHANGED Dir!vars
  OBVIOUS
<1> UsersInv /\ LoginsInv
  BY DEF IInv
<1>1. ASSUME NEW a \in Addresses, NEW p \in Passwords, NEW n \in Ids, Insert(n, LocalRow(a, p))
      PROVE  Dir!Next
  <2>1. /\ LocalRow(a, p) \in Row /\ Fold[LocalRow(a, p).email] = LocalRow(a, p).email
        /\ LocalRow(a, p).google = None /\ LocalRow(a, p).password \in Passwords
    BY LocalRowType DEF LocalRow
  <2>2. PICK row \in Row : row = LocalRow(a, p)
    BY <2>1
  <2>3. Dir!OpenAccount(row.email, n) /\ row.email \in Folds
    BY <1>1, <2>1, <2>2, InsertOpens
  <2> QED BY <2>3 DEF Dir!Next, Folds
<1>2. ASSUME NEW a \in Addresses, Fold[a] = a, NEW g \in Googles, NEW n \in Ids,
             Insert(n, GoogleRow(a, g))
      PROVE  Dir!Next
  <2>1. /\ GoogleRow(a, g) \in Row /\ Fold[GoogleRow(a, g).email] = GoogleRow(a, g).email
        /\ GoogleRow(a, g).google \in Googles /\ GoogleRow(a, g).password = None
    BY <1>2, GoogleRowType DEF GoogleRow
  <2>2. PICK row \in Row : row = GoogleRow(a, g)
    BY <2>1
  <2>3. Dir!OpenAccount(row.email, n) /\ row.email \in Folds
    BY <1>2, <2>1, <2>2, InsertOpens
  <2> QED BY <2>3 DEF Dir!Next, Folds
<1>3. ASSUME NEW c \in Clients, At(c, "link"), users[req[c].id].google = None,
             ByGoogle(req[c].google) = {},
             users' = [users EXCEPT ![req[c].id].google = req[c].google]
      PROVE  Dir!Next
  <2>1. PICK n, g : n = req[c].id /\ g = req[c].google
    OBVIOUS
  <2>2. n \in Known /\ g \in Googles /\ n \in Ids
    BY <1>3, <2>1 DEF LoginsInv, LoginInv, At, Known
  <2>3. Dir!LinkAccount(n)
    BY <1>3, <2>1, <2>2, UpdateLinks
  <2> QED BY <2>2, <2>3 DEF Dir!Next
<1>4. CASE UNCHANGED users
  BY <1>4, SameTable
<1>5. CASE Register
  BY <1>1, <1>5 DEF Register
<1>6. ASSUME NEW c \in Clients, ~At(c, "idle")
      PROVE  /\ req[c].email \in Addresses /\ Fold[req[c].email] = req[c].email
             /\ req[c].google \in Googles
  BY <1>6 DEF LoginsInv, LoginInv
<1>7. ASSUME NEW c \in Clients, CreateGoogleUser(c) \/ GoogleLoginFails(c) \/ LinkGoogleID(c)
      PROVE  Dir!Next \/ UNCHANGED Dir!vars
  <2>1. \/ UNCHANGED users
        \/ /\ At(c, "link") /\ users[req[c].id].google = None /\ ByGoogle(req[c].google) = {}
           /\ users' = [users EXCEPT ![req[c].id].google = req[c].google]
        \/ At(c, "create") /\ \E u \in Ids : Insert(u, GoogleRow(req[c].email, req[c].google))
    BY <1>7 DEF CreateGoogleUser, GoogleLoginFails, LinkGoogleID
  <2>2. ASSUME At(c, "create"), NEW u \in Ids, Insert(u, GoogleRow(req[c].email, req[c].google))
        PROVE  Dir!Next
    <3>1. PICK a, g : a = req[c].email /\ g = req[c].google
      OBVIOUS
    <3>2. a \in Addresses /\ Fold[a] = a /\ g \in Googles
      BY <1>6, <2>2, <3>1 DEF At
    <3> QED BY <1>2, <2>2, <3>1, <3>2
  <2> QED BY <1>3, <1>4, <2>1, <2>2
<1> QED
  BY <1>4, <1>5, <1>7 DEF Next, GoogleLogin, PasswordLogin, GoogleFound, GoogleUnknown, EmailFree,
    EmailUnlinked, EmailLinked, vars

\* The users table is a directory for any number of people: an address and a Google
\* account lead to the account that was opened for them or linked to them, for ever.
THEOREM ImplementsDirectory == Spec => IsDirectory
<1>1. IInv /\ [Next]_vars => [Dir!Next]_(Dir!vars)
  BY DirectoryStep
<1> QED BY <1>1, DirectoryInit, IInvInvariant, PTL DEF Spec, IsDirectory, Dir!Spec

============================================================================
