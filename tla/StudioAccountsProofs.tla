-------------------------- MODULE StudioAccountsProofs --------------------------
(***************************************************************************)
(* Theorems about StudioAccounts, for any users, requests, tokens and      *)
(* limits: no disabled user has a session, the failed logins of an account *)
(* are bounded although they are counted after the wait, and nobody is     *)
(* granted the bonus twice.  Each has an invariant of its own.             *)
(***************************************************************************)
EXTENDS StudioAccounts, FiniteSetTheorems, TLAPS

UserStatuses == {"none", "active", "disabled"}

(* A login that waits is that of a user. *)
LoginsOf(u) == { r \in Busy : logins[r].user = u }
LoginsOK ==
  /\ DOMAIN logins = Requests
  /\ \A r \in Busy : logins[r].user \in Users

(* The sessions of active users only, with the types this rests on.        *)
SessionsInv ==
  /\ LoginsOK
  /\ users \in [Users -> UserStatuses]
  /\ sessions \in [Tokens -> Users \cup {"nobody"}]
  /\ SessionsOfActive

(* A user who is not there yet has no bonus: that of a user who is created *)
(* is the first.  BonusOnce alone would not exclude a second one.          *)
BonusInv ==
  /\ users \in [Users -> UserStatuses]
  /\ bonus \in [Users -> Nat]
  /\ \A u \in Users : bonus[u] <= 1 /\ (users[u] = "none" => bonus[u] = 0)

(* FailuresBounded, over a finite set of logins.                           *)
FailuresInv ==
  /\ LoginsOK
  /\ failures \in [Users -> Nat]
  /\ IsFiniteSet(Busy)
  /\ FailuresBounded

-------------------------------------------------------------------------------
LEMMA LoginsStep == LoginsOK /\ [Next]_vars => LoginsOK'
<1> SUFFICES ASSUME LoginsOK, [Next]_vars
             PROVE  LoginsOK'
  OBVIOUS
<1> USE DEF LoginsOK, Busy
<1>1. ASSUME NEW u \in Users, NEW r \in Requests,
             Register(u, r) \/ \E p \in 0 .. MaxPasswords : BeginLogin(u, r, p)
      PROVE  LoginsOK'
  <2>1. \E l : l.user = u /\ logins' = [logins EXCEPT ![r] = l]
    BY <1>1 DEF Register, BeginLogin, Derive
  <2> QED  BY <2>1
<1>2. ASSUME NEW r \in Requests, EndLogin(r)
      PROVE  LoginsOK'
  BY <1>2 DEF EndLogin
<1>3. CASE Crash
  BY <1>3 DEF Crash
<1>4. CASE UNCHANGED logins
  BY <1>4
<1> QED
  BY <1>1, <1>2, <1>3, <1>4
     DEF Next, vars, LoginSucceeds, LoginFails, Embed, DisableUser, Age,
         CreatePasswordResetToken, ResetPassword, EndSession

LEMMA LoginsInit == Init => LoginsOK
  BY DEF Init, LoginsOK, Busy

-------------------------------------------------------------------------------
LEMMA SessionsInit == Init => SessionsInv
  BY LoginsInit DEF Init, SessionsInv, SessionsOfActive, UserStatuses

LEMMA SessionsStep == SessionsInv /\ [Next]_vars => SessionsInv'
<1> SUFFICES ASSUME SessionsInv, [Next]_vars
             PROVE  SessionsInv'
  OBVIOUS
<1>0. LoginsOK'
  BY LoginsStep DEF SessionsInv
<1> USE <1>0 DEF SessionsInv, SessionsOfActive, UserStatuses
<1>1. ASSUME NEW u \in Users, NEW r \in Requests, Register(u, r)
      PROVE  SessionsInv'
  BY <1>1 DEF Register, CreateUser
<1>2. ASSUME NEW u \in Users, NEW r \in Requests, NEW p \in 0 .. MaxPasswords,
             BeginLogin(u, r, p)
      PROVE  SessionsInv'
  BY <1>2 DEF BeginLogin
<1>3. ASSUME NEW r \in Requests, NEW t \in Tokens, LoginSucceeds(r, t)
      PROVE  SessionsInv'
  <2> DEFINE u == logins[r].user
  <2>1. users[u] = "active" /\ users' = users /\ sessions' = [sessions EXCEPT ![t] = u]
    BY <1>3 DEF LoginSucceeds, Accepted, MayOpen, CreateSession, EndLogin
  <2>2. u \in Users
    BY <1>3 DEF LoginSucceeds, LoginsOK, Busy
  <2> QED  BY <2>1, <2>2
<1>4. ASSUME NEW r \in Requests, LoginFails(r)
      PROVE  SessionsInv'
  BY <1>4 DEF LoginFails, EndLogin
<1>5. ASSUME NEW u \in Users, Embed(u)
      PROVE  SessionsInv'
  <2>1. /\ users' \in [Users -> UserStatuses]
        /\ \A v \in Users : users[v] = "active" => users'[v] = "active"
    BY <1>5 DEF Embed, EnsureExternalUser, CreateUser
  <2>2. CASE users'[u] = "active"
    BY <1>5, <2>1, <2>2 DEF Embed, CreateSession
  <2>3. CASE users'[u] # "active"
    BY <1>5, <2>1, <2>3 DEF Embed
  <2> QED  BY <2>2, <2>3
<1>6. ASSUME NEW u \in Users, DisableUser(u)
      PROVE  SessionsInv'
  BY <1>6 DEF DisableUser, WithoutSessions
<1>7. ASSUME NEW u \in Users, Age(u) \/ CreatePasswordResetToken(u)
      PROVE  SessionsInv'
  BY <1>7 DEF Age, CreatePasswordResetToken
<1>8. ASSUME NEW u \in Users, ResetPassword(u)
      PROVE  SessionsInv'
  BY <1>8 DEF ResetPassword, WithoutSessions
<1>9. ASSUME NEW t \in Tokens, EndSession(t)
      PROVE  SessionsInv'
  BY <1>9 DEF EndSession
<1>10. CASE Crash
  <2>1. /\ users' \in [Users -> UserStatuses]
        /\ \A v \in Users : users[v] = "active" => users'[v] = "active"
        /\ sessions' = sessions
    BY <1>10, AccountsAssumption DEF Crash, CreateUser, AccountsAssumption
  <2> QED  BY <2>1
<1>11. CASE UNCHANGED vars
  BY <1>11 DEF vars
<1> QED
  BY <1>1, <1>2, <1>3, <1>4, <1>5, <1>6, <1>7, <1>8, <1>9, <1>10, <1>11 DEF Next

(* A session belongs to an active user, whatever happened while a login    *)
(* was waiting for its password.                                           *)
THEOREM NoSessionOfDisabled == Spec => []SessionsOfActive
<1>1. SessionsInv => SessionsOfActive
  BY DEF SessionsInv
<1> QED  BY <1>1, SessionsInit, SessionsStep, PTL DEF Spec
-------------------------------------------------------------------------------
LEMMA BonusStep == BonusInv /\ [Next]_vars => BonusInv'
<1> SUFFICES ASSUME BonusInv, [Next]_vars
             PROVE  BonusInv'
  OBVIOUS
<1> USE DEF BonusInv, UserStatuses
<1>1. ASSUME NEW u \in Users, CreateUser(u), GrantRegistrationBonus(u)
      PROVE  BonusInv'
  BY <1>1 DEF CreateUser, GrantRegistrationBonus
<1>2. ASSUME NEW u \in Users, CreateUser(u), UNCHANGED bonus
      PROVE  BonusInv'
  BY <1>2 DEF CreateUser
<1>3. ASSUME NEW u \in Users, DisableUser(u)
      PROVE  BonusInv'
  BY <1>3 DEF DisableUser, Exists
<1>4. CASE UNCHANGED << users, bonus >>
  BY <1>4
<1>5. CASE Crash
  BY <1>2, <1>4, <1>5, AccountsAssumption DEF Crash, AccountsAssumption
<1>6. ASSUME NEW u \in Users, Embed(u)
      PROVE  BonusInv'
  BY <1>1, <1>4, <1>6 DEF Embed, EnsureExternalUser
<1> QED
  BY <1>1, <1>3, <1>4, <1>5, <1>6
     DEF Next, vars, Register, BeginLogin, LoginSucceeds, LoginFails, EndLogin,
         Age, CreatePasswordResetToken, ResetPassword, EndSession

(* Nobody gets the registration bonus twice, through a crash between a     *)
(* user and its bonus, a second registration, or the gateway.              *)
THEOREM BonusGrantedOnce == Spec => []BonusOnce
<1>1. Init => BonusInv
  BY DEF Init, BonusInv, UserStatuses
<1>2. BonusInv => BonusOnce
  BY DEF BonusInv, BonusOnce
<1> QED  BY <1>1, <1>2, BonusStep, PTL DEF Spec

-------------------------------------------------------------------------------
(* What a part of a finite set counts. *)
LEMMA PartCounts ==
  ASSUME NEW S, IsFiniteSet(S), NEW T, T \subseteq S
  PROVE  /\ IsFiniteSet(T)
         /\ Cardinality(T) \in Nat /\ Cardinality(S) \in Nat
         /\ Cardinality(T) <= Cardinality(S)
<1>1. IsFiniteSet(T) /\ Cardinality(T) <= Cardinality(S)
  BY FS_Subset
<1>2. Cardinality(T) \in Nat /\ Cardinality(S) \in Nat
  BY <1>1, FS_CardinalityType
<1> QED  BY <1>1, <1>2

(* A login is let in below the limit of failures, beside less than         *)
(* Concurrency others; those of the other users stay as they are.          *)
LEMMA AdmittedBounded ==
  ASSUME FailuresInv, NEW u \in Users, NEW r \in Requests, Admitted(u, r),
         UNCHANGED failures, LoginsOK', Busy' \subseteq Busy \cup {r},
         \A v \in Users \ {u} : LoginsOf(v)' \subseteq LoginsOf(v)
  PROVE  FailuresInv'
<1> USE AccountsAssumption DEF AccountsAssumption, FailuresInv
<1>1. IsFiniteSet(Busy') /\ Cardinality(Busy') <= Concurrency
  <2>1. /\ IsFiniteSet(Busy \cup {r})
        /\ Cardinality(Busy \cup {r}) =
             IF r \in Busy THEN Cardinality(Busy) ELSE Cardinality(Busy) + 1
    BY FS_AddElement
  <2>2. Cardinality(Busy) \in Nat
    BY FS_CardinalityType
  <2>3. /\ IsFiniteSet(Busy') /\ Cardinality(Busy') <= Cardinality(Busy \cup {r})
        /\ Cardinality(Busy') \in Nat
    BY <2>1, PartCounts
  <2> QED  BY <2>1, <2>2, <2>3 DEF Admitted
<1>2. ASSUME NEW v \in Users
      PROVE  failures'[v] + Cardinality(LoginsOf(v)') <= MaxFailures - 1 + Concurrency
  <2>1. CASE v = u
    <3>1. LoginsOf(u)' \subseteq Busy'
      BY DEF LoginsOf
    <3>2. /\ Cardinality(LoginsOf(u)') \in Nat /\ Cardinality(Busy') \in Nat
          /\ Cardinality(LoginsOf(u)') <= Cardinality(Busy')
      BY <1>1, <3>1, PartCounts
    <3> QED  BY <1>1, <2>1, <3>2 DEF Admitted
  <2>2. CASE v # u
    <3>1. LoginsOf(v)' \subseteq LoginsOf(v) /\ LoginsOf(v) \subseteq Busy
      BY <2>2 DEF LoginsOf
    <3>2. IsFiniteSet(LoginsOf(v))
      BY <3>1, PartCounts
    <3>3. /\ Cardinality(LoginsOf(v)) \in Nat /\ Cardinality(LoginsOf(v)') \in Nat
          /\ Cardinality(LoginsOf(v)') <= Cardinality(LoginsOf(v))
      BY <3>1, <3>2, PartCounts
    <3>4. failures[v] + Cardinality(LoginsOf(v)) <= MaxFailures - 1 + Concurrency
      BY DEF FailuresBounded, LoginsOf
    <3> QED  BY <3>3, <3>4
  <2> QED  BY <2>1, <2>2
<1> QED  BY <1>1, <1>2 DEF FailuresBounded, LoginsOf

(* A login ends: it fails at most once.                                    *)
LEMMA EndedBounded ==
  ASSUME FailuresInv, NEW r \in Busy, LoginsOK', Busy' \subseteq Busy,
         \A v \in Users : LoginsOf(v)' \subseteq LoginsOf(v) \ {r},
         failures' \in [Users -> Nat],
         \A v \in Users :
           failures'[v] <= IF r \in LoginsOf(v) THEN failures[v] + 1 ELSE failures[v]
  PROVE  FailuresInv'
<1> USE AccountsAssumption DEF AccountsAssumption, FailuresInv
<1>1. IsFiniteSet(Busy')
  BY PartCounts
<1>2. ASSUME NEW v \in Users
      PROVE  failures'[v] + Cardinality(LoginsOf(v)') <= MaxFailures - 1 + Concurrency
  <2> DEFINE W == LoginsOf(v)
  <2>1. IsFiniteSet(W) /\ Cardinality(W) \in Nat
    <3>1. W \subseteq Busy
      BY DEF LoginsOf
    <3> QED  BY <3>1, PartCounts
  <2>2. /\ IsFiniteSet(W \ {r})
        /\ Cardinality(W \ {r}) = IF r \in W THEN Cardinality(W) - 1 ELSE Cardinality(W)
    BY <2>1, FS_RemoveElement
  <2>3. Cardinality(W') \in Nat /\ Cardinality(W') <= Cardinality(W \ {r})
    BY <2>2, PartCounts
  <2>4. failures[v] + Cardinality(W) <= MaxFailures - 1 + Concurrency
    BY DEF FailuresBounded, LoginsOf
  <2>5. /\ failures'[v] <= IF r \in W THEN failures[v] + 1 ELSE failures[v]
        /\ failures'[v] \in Nat /\ failures[v] \in Nat
    OBVIOUS
  <2> HIDE DEF W
  <2>6. failures'[v] + Cardinality(W') <= MaxFailures - 1 + Concurrency
    BY <2>1, <2>2, <2>3, <2>4, <2>5
  <2> QED  BY <2>6 DEF W
<1> QED  BY <1>1, <1>2 DEF FailuresBounded, LoginsOf

(* The logins go on; failures age.                                         *)
LEMMA AgedBounded ==
  ASSUME FailuresInv, UNCHANGED logins, failures' \in [Users -> Nat],
         \A v \in Users : failures'[v] <= failures[v]
  PROVE  FailuresInv'
<1> USE AccountsAssumption DEF AccountsAssumption, FailuresInv
<1>1. UNCHANGED Busy /\ LoginsOK' /\ IsFiniteSet(Busy')
  BY DEF Busy, LoginsOK
<1>2. ASSUME NEW v \in Users
      PROVE  failures'[v] + Cardinality(LoginsOf(v)') <= MaxFailures - 1 + Concurrency
  <2>1. LoginsOf(v) \subseteq Busy /\ LoginsOf(v)' = LoginsOf(v)
    BY <1>1 DEF LoginsOf
  <2>2. Cardinality(LoginsOf(v)) \in Nat
    BY <2>1, PartCounts
  <2>3. failures[v] + Cardinality(LoginsOf(v)) <= MaxFailures - 1 + Concurrency
    BY DEF FailuresBounded, LoginsOf
  <2> QED  BY <2>1, <2>2, <2>3
<1> QED  BY <1>1, <1>2 DEF FailuresBounded, LoginsOf

(* Nobody waits and nobody has failed: the start, and a restart.           *)
LEMMA FailuresInit == Init => FailuresInv
<1> SUFFICES ASSUME Init
             PROVE  FailuresInv
  OBVIOUS
<1>1. Busy = {} /\ \A u \in Users : LoginsOf(u) = {}
  BY DEF Init, Busy, LoginsOf
<1>2. IsFiniteSet({}) /\ Cardinality({}) = 0
  BY FS_EmptySet
<1> QED
  BY <1>1, <1>2, LoginsInit, AccountsAssumption
     DEF Init, FailuresInv, FailuresBounded, LoginsOf, AccountsAssumption

LEMMA RestartBounded == LoginsOK /\ LoginsOK' /\ Crash => FailuresInv'
<1> SUFFICES ASSUME LoginsOK, LoginsOK', Crash
             PROVE  FailuresInv'
  OBVIOUS
<1>1. Busy' = {} /\ \A u \in Users : LoginsOf(u)' = {}
  BY DEF Crash, Busy, LoginsOf
<1>2. IsFiniteSet({}) /\ Cardinality({}) = 0
  BY FS_EmptySet
<1> QED
  BY <1>1, <1>2, AccountsAssumption
     DEF Crash, FailuresInv, FailuresBounded, LoginsOf, AccountsAssumption

LEMMA FailuresStep == FailuresInv /\ [Next]_vars => FailuresInv'
<1> SUFFICES ASSUME FailuresInv, [Next]_vars
             PROVE  FailuresInv'
  OBVIOUS
<1>0. LoginsOK /\ LoginsOK' /\ failures \in [Users -> Nat]
  BY LoginsStep DEF FailuresInv
<1>1. ASSUME NEW u \in Users, NEW r \in Requests,
             Register(u, r) \/ \E p \in 0 .. MaxPasswords : BeginLogin(u, r, p)
      PROVE  FailuresInv'
  <2>1. /\ Admitted(u, r) /\ UNCHANGED failures
        /\ \E l : l.user = u /\ logins' = [logins EXCEPT ![r] = l]
    BY <1>1 DEF Register, BeginLogin, Derive
  <2>2. Busy' \subseteq Busy \cup {r} /\ \A v \in Users \ {u} : LoginsOf(v)' \subseteq LoginsOf(v)
    BY <1>0, <2>1 DEF Busy, LoginsOf, LoginsOK
  <2> QED  BY <1>0, <2>1, <2>2, AdmittedBounded
<1>2. ASSUME NEW r \in Requests, LoginFails(r) \/ \E t \in Tokens : LoginSucceeds(r, t)
      PROVE  FailuresInv'
  <2>1. /\ r \in Busy
        /\ logins' = [logins EXCEPT ![r] = Idle]
        /\ \E n \in {0, failures[logins[r].user], failures[logins[r].user] + 1} :
             failures' = [failures EXCEPT ![logins[r].user] = n]
    BY <1>2 DEF LoginFails, LoginSucceeds, EndLogin, Busy
  <2>2. logins[r].user \in Users /\ Busy' = Busy \ {r}
        /\ \A v \in Users : LoginsOf(v)' = LoginsOf(v) \ {r}
    BY <1>0, <2>1 DEF Busy, LoginsOf, LoginsOK
  <2>3. /\ failures' \in [Users -> Nat]
        /\ \A v \in Users :
             failures'[v] <= IF r \in LoginsOf(v) THEN failures[v] + 1 ELSE failures[v]
    BY <1>0, <2>1, <2>2 DEF LoginsOf
  <2> QED  BY <1>0, <2>1, <2>2, <2>3, EndedBounded
<1>3. ASSUME NEW u \in Users, Age(u)
      PROVE  FailuresInv'
  <2>1. /\ UNCHANGED logins /\ failures' \in [Users -> Nat]
        /\ \A v \in Users : failures'[v] <= failures[v]
    BY <1>0, <1>3 DEF Age
  <2> QED  BY <2>1, AgedBounded
<1>4. CASE UNCHANGED << failures, logins >>
  BY <1>0, <1>4, AgedBounded
<1>5. ASSUME NEW u \in Users, ResetPassword(u)
      PROVE  FailuresInv'
  <2>1. /\ UNCHANGED logins /\ failures' \in [Users -> Nat]
        /\ \A v \in Users : failures'[v] <= failures[v]
    BY <1>0, <1>5 DEF ResetPassword
  <2> QED  BY <2>1, AgedBounded
<1>6. CASE Crash
  BY <1>0, <1>6, RestartBounded
<1> QED
  BY <1>1, <1>2, <1>3, <1>4, <1>5, <1>6
     DEF Next, vars, Embed, DisableUser, CreatePasswordResetToken, EndSession

(* However many logins wait for their password at once, the failures of an *)
(* account stay below its limit and the logins let in beside it.           *)
THEOREM FailuresStayBounded == Spec => []FailuresBounded
<1>1. FailuresInv => FailuresBounded
  BY DEF FailuresInv
<1> QED  BY <1>1, FailuresInit, FailuresStep, PTL DEF Spec
===============================================================================
