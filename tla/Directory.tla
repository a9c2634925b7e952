----------------------------- MODULE Directory -----------------------------
(***************************************************************************)
(* What the accounts are to the people who have them, without the table,   *)
(* its indices and the requests that race for it: an address leads to one  *)
(* account and so does a Google account, both for ever; an account is      *)
(* opened with a password or a Google account, keeps the password it was   *)
(* opened with, and can get one Google account later.                      *)
(***************************************************************************)
CONSTANTS
  Ids,        \* ids that accounts can have
  Addresses,  \* e-mail addresses, each written in one way
  Passwords,
  Googles,    \* subjects of Google accounts
  None        \* no account, no password

VARIABLES
  address,    \* address[a]: the account that address a leads to
  google,     \* google[g]: the account that Google account g leads to
  password    \* password[u]: the password of account u

vars == <<address, google, password>>

Init ==
  /\ address = [a \in Addresses |-> None]
  /\ google = [g \in Googles |-> None]
  /\ password = [u \in Ids |-> None]

Open == {u \in Ids : \E a \in Addresses : address[a] = u}

Link(g, u) ==
  /\ google[g] = None
  /\ \A h \in Googles : google[h] # u
  /\ google' = [google EXCEPT ![g] = u]

OpenAccount(a, u) ==
  /\ u \notin Open
  /\ address[a] = None
  /\ address' = [address EXCEPT ![a] = u]
  /\ \/ /\ \E p \in Passwords : password' = [password EXCEPT ![u] = p]
        /\ UNCHANGED google
     \/ /\ \E g \in Googles : Link(g, u)
        /\ UNCHANGED password

LinkAccount(u) ==
  /\ u \in Open
  /\ \E g \in Googles : Link(g, u)
  /\ UNCHANGED <<address, password>>

Next == \E u \in Ids : LinkAccount(u) \/ \E a \in Addresses : OpenAccount(a, u)

Spec == Init /\ [][Next]_vars

============================================================================
