---------------------------- MODULE StudioAccounts ----------------------------
(***************************************************************************)
(* The accounts and sessions of the Node service (standaloneAuth.js and    *)
(* its routes in the history service).  The store is a SQLite database     *)
(* with synchronous calls; a login alone waits in its middle, for the      *)
(* derivation of the password, with the row that it read before.  Each     *)
(* password is known by a number: the first is set at registration, the    *)
(* others by resets.                                                       *)
(*                                                                         *)
(* Of the limiters, the one per account is modelled; those per address,    *)
(* per address and account, and over all accounts refuse more.             *)
(***************************************************************************)
EXTENDS Naturals, FiniteSets

CONSTANTS
  Users,          \* who may register
  External,       \* the users that an embedding gateway signs in
  Requests,       \* login requests that may be under way
  Tokens,         \* session tokens (bound: sessions at a time)
  Concurrency,    \* AUTH_LOGIN_MAX_CONCURRENCY
  MaxFailures,    \* failures of an account in a window
  MaxPasswords    \* bound: passwords of an account

ASSUME AccountsAssumption ==
  /\ External \subseteq Users
  /\ Concurrency \in Nat \ {0} /\ MaxFailures \in Nat \ {0}

VARIABLES
  users,          \* user -> "none", "active" or "disabled"
  password,       \* user -> the number of the current password
  sessions,       \* token -> the user of its session, or "nobody"
  reset,          \* user -> whether a reset token is open
  linked,         \* the external users whose identity is linked
  bonus,          \* user -> registration bonuses received
  failures,       \* user -> failed logins in the window, in memory
  logins          \* request -> the login under way, or Idle

vars == << users, password, sessions, reset, linked, bonus, failures, logins >>

Idle == [ user |-> "nobody" ]

Init ==
  /\ users = [u \in Users |-> "none"]
  /\ password = [u \in Users |-> 0]
  /\ sessions = [t \in Tokens |-> "nobody"]
  /\ reset = [u \in Users |-> FALSE]
  /\ linked = {}
  /\ bonus = [u \in Users |-> 0]
  /\ failures = [u \in Users |-> 0]
  /\ logins = [r \in Requests |-> Idle]

-------------------------------------------------------------------------------
Busy == { r \in Requests : logins[r] # Idle }

Exists(u) == users[u] # "none"

(* requireLoginBucket and beginLoginWork, before anything else is done.    *)
Admitted_Wrong(u, r) == logins[r] = Idle /\ failures[u] < MaxFailures
Admitted(u, r) ==
  /\ logins[r] = Idle
  /\ failures[u] < MaxFailures
  /\ Cardinality(Busy) < Concurrency

(* A login up to its wait: the row is read, and none may be there. *)
Derive(r, u, supplied, kind) ==
  logins' = [logins EXCEPT ![r] =
    [ user |-> u, supplied |-> supplied, kind |-> kind,
      status |-> users'[u], password |-> password'[u] ]]

(* The row of a new user and its bonus are two transactions. *)
CreateUser(u) ==
  /\ users[u] = "none"
  /\ users' = [users EXCEPT ![u] = "active"]
  /\ password' = [password EXCEPT ![u] = 1]

GrantRegistrationBonus(u) == bonus' = [bonus EXCEPT ![u] = @ + 1]

Register(u, r) ==
  /\ u \notin External
  /\ Admitted(u, r)
  /\ CreateUser(u)
  /\ GrantRegistrationBonus(u)
  /\ Derive(r, u, 1, "register")
  /\ UNCHANGED << sessions, reset, linked, failures >>

BeginLogin(u, r, supplied) ==
  /\ Admitted(u, r)
  /\ UNCHANGED << users, password, sessions, reset, linked, bonus, failures >>
  /\ Derive(r, u, supplied, "login")

Matches(l) == l.status # "none" /\ l.supplied = l.password

(* createSessionForUser reads the user again: it may have been disabled    *)
(* while the password was derived.                                         *)
MayOpen_Wrong(u) == TRUE
MayOpen(u) == users[u] = "active"

CreateSession(u, t) ==
  /\ sessions[t] = "nobody"
  /\ sessions' = [sessions EXCEPT ![t] = u]

EndLogin(r) ==
  /\ logins' = [logins EXCEPT ![r] = Idle]
  /\ UNCHANGED << users, password, reset, linked, bonus >>

Accepted(l) == Matches(l) /\ l.status = "active" /\ MayOpen(l.user)

(* A login that ends well forgives the failures of the account; a          *)
(* registration leaves them to the window.                                 *)
LoginSucceeds(r, t) ==
  /\ logins[r] # Idle /\ Accepted(logins[r])
  /\ CreateSession(logins[r].user, t)
  /\ failures' = [failures EXCEPT ![logins[r].user] =
       IF logins[r].kind = "login" THEN 0 ELSE @]
  /\ EndLogin(r)

LoginFails(r) ==
  /\ logins[r] # Idle /\ ~Accepted(logins[r])
  /\ failures' = [failures EXCEPT ![logins[r].user] =
       IF logins[r].kind = "login" THEN @ + 1 ELSE @]
  /\ UNCHANGED sessions
  /\ EndLogin(r)

-------------------------------------------------------------------------------
(* handleEmbeddedAuthRoute, once the gateway has named the user:           *)
(* ensureExternalUser creates the user, links it and grants the bonus, but *)
(* to a user that it created only; then a session is opened.               *)
EnsureExternalUser(u) ==
  /\ linked' = linked \cup {u}
  /\ \/ /\ CreateUser(u) /\ GrantRegistrationBonus(u)
     \/ /\ Exists(u) /\ UNCHANGED << users, password, bonus >>

Embed(u) ==
  /\ u \in External
  /\ EnsureExternalUser(u)
  /\ IF users'[u] = "active" THEN \E t \in Tokens : CreateSession(u, t)
     ELSE UNCHANGED sessions
  /\ UNCHANGED << reset, failures, logins >>

(* logout, an expired session, or one that verifySession removes. *)
EndSession(t) ==
  /\ sessions[t] # "nobody"
  /\ sessions' = [sessions EXCEPT ![t] = "nobody"]
  /\ UNCHANGED << users, password, reset, linked, bonus, failures, logins >>

WithoutSessions(u) ==
  [t \in Tokens |-> IF sessions[t] = u THEN "nobody" ELSE sessions[t]]

DisableUser(u) ==
  /\ Exists(u)
  /\ users' = [users EXCEPT ![u] = "disabled"]
  /\ sessions' = WithoutSessions(u)
  /\ UNCHANGED << password, reset, linked, bonus, failures, logins >>

(* A new reset token replaces the open one. *)
CreatePasswordResetToken(u) ==
  /\ users[u] = "active"
  /\ reset' = [reset EXCEPT ![u] = TRUE]
  /\ UNCHANGED << users, password, sessions, linked, bonus, failures, logins >>

ResetPassword(u) ==
  /\ users[u] = "active" /\ reset[u]
  /\ password[u] < MaxPasswords
  /\ reset' = [reset EXCEPT ![u] = FALSE]
  /\ password' = [password EXCEPT ![u] = @ + 1]
  /\ sessions' = WithoutSessions(u)
  /\ UNCHANGED << users, linked, bonus, failures, logins >>

(* Failures, and a reset token, age out. *)
Age(u) ==
  /\ failures' \in { [failures EXCEPT ![u] = n] : n \in 0 .. failures[u] }
  /\ reset' \in { [reset EXCEPT ![u] = FALSE], reset }
  /\ << failures', reset' >> # << failures, reset >>
  /\ UNCHANGED << users, password, sessions, linked, bonus, logins >>

(* The process dies, perhaps between the transactions of a request.        *)
Crash ==
  /\ \/ UNCHANGED << users, password, linked >>
     \/ \E u \in Users : CreateUser(u) /\ UNCHANGED linked
     \/ \E u \in External : CreateUser(u) /\ linked' = linked \cup {u}
  /\ failures' = [u \in Users |-> 0]
  /\ logins' = [r \in Requests |-> Idle]
  /\ UNCHANGED << sessions, reset, bonus >>

Next ==
  \/ \E u \in Users, r \in Requests : Register(u, r)
  \/ \E u \in Users, r \in Requests, p \in 0 .. MaxPasswords : BeginLogin(u, r, p)
  \/ \E r \in Requests, t \in Tokens : LoginSucceeds(r, t)
  \/ \E r \in Requests : LoginFails(r)
  \/ \E u \in Users : Embed(u) \/ DisableUser(u) \/ Age(u)
  \/ \E u \in Users : CreatePasswordResetToken(u) \/ ResetPassword(u)
  \/ \E t \in Tokens : EndSession(t)
  \/ Crash

Spec == Init /\ [][Next]_vars

-------------------------------------------------------------------------------
(* Properties. *)

(* No session of a disabled user, not even from a login that was waiting   *)
(* for its password when the user was disabled (login, disableUser).       *)
SessionsOfActive ==
  \A t \in Tokens : sessions[t] # "nobody" => users[sessions[t]] = "active"

(* The failures of an account in a window do not exceed the limit by more  *)
(* than the logins that were let in before it was reached: they pass the   *)
(* test first and fail later (requireLoginBucket, beginLoginWork).         *)
FailuresBounded ==
  \A u \in Users :
    failures[u] + Cardinality({ r \in Busy : logins[r].user = u })
      <= MaxFailures - 1 + Concurrency

(* Each user has one bonus at most, whether it comes back after a crash or *)
(* through the gateway (register, ensureExternalUser).                     *)
BonusOnce == \A u \in Users : bonus[u] <= 1
===============================================================================
