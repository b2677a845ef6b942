--------------------------- MODULE SessionProofs ---------------------------
(***************************************************************************)
(* The invariants of the console's session, for any number of logins,      *)
(* logouts and page requests.  The spinner's counter is right because no   *)
(* request is made twice: a login is sent once, and the requests of        *)
(* doPostLoginActions follow the answer of the login they belong to.       *)
(***************************************************************************)
EXTENDS Session, FiniteSetTheorems, TLAPS

PostKinds == Parts \cup {"status"}

\* Who made the requests under way.
Accounted ==
  /\ DOMAIN login = Logins
  /\ \A r \in flight : r = [kind |-> r.kind, of |-> r.of]
  /\ \A r \in flight : r.kind \in PostKinds
       => r.of = 0 \/ (r.of \in Logins /\ login[r.of] = "answered")
  /\ \A r \in flight : r.kind = "login" /\ r.of \in Logins => login[r.of] = "sent"

\* Nothing is under way before the controller is mounted.
NothingBefore ==
  ~mounted => /\ flight = {} /\ stage # "LOGGED_IN"
              /\ \A l \in Logins : login[l] = "unused"

SessionInv ==
  /\ IsFiniteSet(flight) /\ SpinnerCountsRequests
  /\ Accounted /\ NothingBefore /\ LoggedInNotAskedAgain

-----------------------------------------------------------------------------
\* Counting requests up and down.
LEMMA CountUp ==
  ASSUME NEW F, IsFiniteSet(F), NEW P, IsFiniteSet(P), \A r \in P : r \notin F
  PROVE  /\ IsFiniteSet(F \cup P)
         /\ Cardinality(F \cup P) = Cardinality(F) + Cardinality(P)
<1>. DEFINE both == F \cap P
<1>1. both = {}
  OBVIOUS
<1>2. /\ IsFiniteSet(F \cup P)
      /\ Cardinality(F \cup P) = Cardinality(F) + Cardinality(P) - Cardinality(both)
  BY FS_Union
<1>3. Cardinality(F) \in Nat /\ Cardinality(P) \in Nat
  BY FS_CardinalityType
<1>. HIDE DEF both
<1>4. Cardinality(both) = 0
  BY <1>1, FS_EmptySet
<1>. QED BY <1>2, <1>3, <1>4

LEMMA CountDown ==
  ASSUME IsFiniteSet(flight), SpinnerCountsRequests, NEW r \in flight, NEW outcome
  PROVE  /\ IsFiniteSet(flight \ {r})
         /\ Decrement(outcome) = Cardinality(flight \ {r})
<1>1. /\ IsFiniteSet(flight \ {r})
      /\ Cardinality(flight \ {r}) = Cardinality(flight) - 1
  BY FS_RemoveElement
<1>2. Cardinality(flight \ {r}) \in Nat /\ Cardinality(flight) \in Nat
  BY <1>1, FS_CardinalityType
<1>. QED BY <1>1, <1>2 DEF Decrement, SpinnerCountsRequests

LEMMA PostLoginFinite ==
  ASSUME NEW l
  PROVE  /\ IsFiniteSet(PostLoginRequests(l))
         /\ \A r \in PostLoginRequests(l) : /\ r = [kind |-> r.kind, of |-> r.of]
                                             /\ r.kind \in PostKinds /\ r.of = l
<1>. DEFINE f == [k \in PostKinds |-> [kind |-> k, of |-> l]]
<1>1. IsFiniteSet(PostKinds)
  <2>1. IsFiniteSet({"namespaces"})
    BY FS_Singleton
  <2>2. IsFiniteSet({"namespaces"} \cup {"serverConfig"})
    BY <2>1, FS_AddElement
  <2>3. IsFiniteSet(({"namespaces"} \cup {"serverConfig"}) \cup {"tracingInfo"})
    BY <2>2, FS_AddElement
  <2>4. IsFiniteSet((({"namespaces"} \cup {"serverConfig"}) \cup {"tracingInfo"})
                      \cup {"status"})
    BY <2>3, FS_AddElement
  <2>5. PostKinds = (({"namespaces"} \cup {"serverConfig"}) \cup {"tracingInfo"})
                      \cup {"status"}
    BY DEF PostKinds, Parts
  <2>. QED BY <2>4, <2>5
<1>2. f \in Surjection(PostKinds, PostLoginRequests(l))
  <2>1. \A k \in PostKinds : f[k] \in PostLoginRequests(l)
    BY DEF PostLoginRequests, PostKinds
  <2>2. ASSUME NEW r \in PostLoginRequests(l)
        PROVE  r.kind \in PostKinds /\ f[r.kind] = r
    BY DEF PostLoginRequests, PostKinds
  <2>. QED BY <2>1, <2>2 DEF Surjection
<1>. HIDE DEF f
<1>. QED BY <1>1, <1>2, FS_Surjection DEF PostLoginRequests, PostKinds

\* A user who is logged in is past the login form, whatever the new state of
\* the login.
LEMMA StageKeeps ==
  ASSUME LoggedInNotAskedAgain, NEW a, auth' = a, stage' = StageAfter(a)
  PROVE  LoggedInNotAskedAgain'
BY DEF LoggedInNotAskedAgain, StageAfter, Authenticated

\* A request is answered and no other is made.
LEMMA AnswerKeeps ==
  ASSUME SessionInv, NEW r \in flight, NEW outcome,
         flight' = flight \ {r}, loadingCounter' = Decrement(outcome),
         UNCHANGED <<login, mounted>>, LoggedInNotAskedAgain'
  PROVE  SessionInv'
<1>1. IsFiniteSet(flight)' /\ SpinnerCountsRequests'
  BY CountDown DEF SessionInv, SpinnerCountsRequests
<1>2. Accounted' /\ NothingBefore'
  BY DEF SessionInv, Accounted, NothingBefore
<1>. QED BY <1>1, <1>2 DEF SessionInv

\* A new request of another kind.
LEMMA RequestKeeps ==
  ASSUME SessionInv, NEW kind \in {"page", "logout"}, NEW of,
         [kind |-> kind, of |-> of] \notin flight,
         flight' = flight \cup {[kind |-> kind, of |-> of]}, loadingCounter' = Increment(1),
         UNCHANGED <<auth, stage, login, mounted>>, stage = "LOGGED_IN"
  PROVE  SessionInv'
<1>. DEFINE r == [kind |-> kind, of |-> of]
<1>1. IsFiniteSet(flight \cup {r}) /\ Cardinality(flight \cup {r}) = Cardinality(flight) + 1
  BY FS_AddElement DEF SessionInv
<1>2. IsFiniteSet(flight)' /\ SpinnerCountsRequests'
  BY <1>1 DEF SessionInv, SpinnerCountsRequests, Increment
<1>3. /\ r.kind \notin PostKinds /\ r.kind # "login"
      /\ r = [kind |-> r.kind, of |-> r.of]
  BY DEF PostKinds, Parts
<1>. HIDE DEF r
<1>4. Accounted' /\ NothingBefore' /\ LoggedInNotAskedAgain'
  BY <1>3 DEF SessionInv, Accounted, NothingBefore, LoggedInNotAskedAgain, r
<1>. QED BY <1>2, <1>4 DEF SessionInv

-----------------------------------------------------------------------------
LEMMA SessionStarts == Init => SessionInv
<1>. SUFFICES ASSUME Init PROVE SessionInv
  OBVIOUS
<1>1. IsFiniteSet(flight) /\ SpinnerCountsRequests
  BY FS_EmptySet DEF Init, SpinnerCountsRequests
<1>. QED BY <1>1 DEF Init, SessionInv, Accounted, NothingBefore, LoggedInNotAskedAgain

LEMMA SessionStep ==
  ASSUME SessionInv, [Next]_vars
  PROVE  SessionInv'
<1>. USE DEF SessionInv
<1>1. CASE Mount
  <2>1. ~mounted /\ mounted' = TRUE /\ flight = {} /\ loadingCounter = 0
    BY <1>1, FS_EmptySet DEF Mount, NothingBefore, SpinnerCountsRequests
  <2>2. CASE stage = "LOGGED_IN_AT_LOAD"
    <3>1. /\ flight' = PostLoginRequests(0)
          /\ loadingCounter' = 0 + Cardinality(PostLoginRequests(0))
          /\ UNCHANGED <<auth, stage, login>>
      BY <1>1, <2>1, <2>2 DEF Mount, Increment
    <3>2. IsFiniteSet(flight)' /\ SpinnerCountsRequests'
      BY <3>1, PostLoginFinite, FS_CardinalityType DEF SpinnerCountsRequests
    <3>3. Accounted'
      <4>1. \A r \in flight' : /\ r = [kind |-> r.kind, of |-> r.of]
                                /\ r.kind \in PostKinds /\ r.of = 0
        BY <3>1, PostLoginFinite
      <4>2. "login" \notin PostKinds
        BY DEF PostKinds, Parts
      <4>. QED BY <3>1, <4>1, <4>2 DEF Accounted
    <3>. QED BY <2>1, <3>1, <3>2, <3>3 DEF NothingBefore, LoggedInNotAskedAgain
  <2>3. CASE stage # "LOGGED_IN_AT_LOAD" /\ strategy \in {"anonymous", "header"}
    <3>1. /\ auth' = LoginRequest /\ stage' = "LOGGED_IN_AT_LOAD"
          /\ login' = [login EXCEPT ![1] = "sent"]
          /\ \/ flight' = {[kind |-> "login", of |-> 1]} /\ loadingCounter' = 1
             \/ flight' = {} /\ loadingCounter' = 0
      BY <1>1, <2>1, <2>3 DEF Mount, Increment
    <3>2. IsFiniteSet(flight)' /\ SpinnerCountsRequests'
      <4>. DEFINE r == [kind |-> "login", of |-> 1]
      <4>1. CASE flight' = {r} /\ loadingCounter' = 1
        <5>. HIDE DEF r
        <5>. QED BY <4>1, FS_Singleton DEF SpinnerCountsRequests
      <4>2. CASE flight' = {} /\ loadingCounter' = 0
        BY <4>2, FS_EmptySet DEF SpinnerCountsRequests
      <4>. QED BY <3>1, <4>1, <4>2
    <3>3. Accounted'
      BY <3>1 DEF Accounted, PostKinds, Parts
    <3>. QED BY <2>1, <3>1, <3>2, <3>3 DEF NothingBefore, LoggedInNotAskedAgain
  <2>4. CASE stage # "LOGGED_IN_AT_LOAD" /\ strategy \notin {"anonymous", "header"}
    <3>1. UNCHANGED <<auth, stage, login, flight, loadingCounter>>
      BY <1>1, <2>4 DEF Mount
    <3>. QED BY <2>1, <3>1
           DEF SpinnerCountsRequests, Accounted, NothingBefore, LoggedInNotAskedAgain
  <2>. QED BY <2>2, <2>3, <2>4 
<1>2. ASSUME NEW l \in Logins, Authenticate(l) PROVE SessionInv'
  <2>. DEFINE r == [kind |-> "login", of |-> l]
  <2>1. /\ login[l] = "unused" /\ login' = [login EXCEPT ![l] = "sent"]
        /\ flight' = flight \cup {r} /\ loadingCounter' = loadingCounter + 1
        /\ auth' = LoginRequest /\ mounted /\ UNCHANGED <<mounted, stage>>
    BY <1>2 DEF Authenticate, Increment
  <2>2. /\ r.kind = "login" /\ r.of = l /\ r.kind \notin PostKinds
        /\ r = [kind |-> r.kind, of |-> r.of]
    BY DEF PostKinds, Parts
  <2>3. r \notin flight
    BY <2>1, <2>2 DEF Accounted
  <2>4. IsFiniteSet(flight)' /\ SpinnerCountsRequests'
    BY <2>1, <2>3, FS_AddElement DEF SpinnerCountsRequests
  <2>. HIDE DEF r
  <2>5. Accounted'
    BY <2>1, <2>2 DEF Accounted
  <2>6. LoggedInNotAskedAgain'
    BY <2>1 DEF LoggedInNotAskedAgain, LoginRequest, InitialLoginState, Authenticated
  <2>. QED BY <2>1, <2>4, <2>5, <2>6 DEF NothingBefore
<1>3. ASSUME NEW l \in Logins, NEW outcome \in Outcomes, LoginAnswered(l, outcome)
      PROVE  SessionInv'
  <2>. DEFINE r == [kind |-> "login", of |-> l]
              new == IF outcome = "ok" THEN LoginSuccess("live")
                     ELSE Bail(Intercept(auth, outcome), outcome)
              P == IF ~Authenticated(auth) /\ Authenticated(new)
                   THEN PostLoginRequests(l) ELSE {}
              n == IF r \in flight THEN Decrement(outcome) ELSE loadingCounter
  <2>1. /\ login[l] = "sent" /\ login' = [login EXCEPT ![l] = "answered"]
        /\ auth' = new /\ stage' = StageAfter(new) /\ mounted' = mounted
        /\ flight' = (flight \ {r}) \cup P
    BY <1>3 DEF LoginAnswered
  <2>2. loadingCounter' = n + Cardinality(P)
    BY <1>3, FS_EmptySet DEF LoginAnswered
  <2>3. /\ IsFiniteSet(P)
        /\ \A q \in P : /\ q = [kind |-> q.kind, of |-> q.of]
                        /\ q.kind \in PostKinds /\ q.of = l
    BY PostLoginFinite, FS_EmptySet
  <2>4. LoggedInNotAskedAgain'
    BY <2>1, StageKeeps
  <2>. HIDE DEF P, new
  <2>5. IsFiniteSet(flight \ {r}) /\ n = Cardinality(flight \ {r})
    <3>1. CASE r \in flight
      BY <3>1, CountDown
    <3>2. CASE r \notin flight
      <4>1. flight \ {r} = flight
        BY <3>2
      <4>. QED BY <3>2, <4>1 DEF SpinnerCountsRequests
    <3>. QED BY <3>1, <3>2
  <2>6. r.kind = "login" /\ r.of = l /\ "login" \notin PostKinds /\ l # 0
    BY SessionBounds DEF PostKinds, Parts, Logins
  <2>. HIDE DEF n
  <2>7. \A q \in P : q \notin flight \ {r}
    BY <2>1, <2>3, <2>6 DEF Accounted
  <2>8. IsFiniteSet(flight)' /\ SpinnerCountsRequests'
    BY <2>1, <2>2, <2>3, <2>5, <2>7, CountUp DEF SpinnerCountsRequests
  <2>9. Accounted'
    <3>1. ASSUME NEW q \in flight \ {r}, q.kind = "login", q.of \in Logins
          PROVE  login'[q.of] = "sent"
      <4>1. CASE q.of # l
        BY <2>1, <3>1, <4>1 DEF Accounted
      <4>2. CASE q.of = l
        <5>1. q = r
          BY <3>1, <4>2 DEF Accounted
        <5>. QED BY <5>1
      <4>. QED BY <4>1, <4>2
    <3>2. ASSUME NEW q \in flight \ {r}, q.kind \in PostKinds
          PROVE  q.of = 0 \/ (q.of \in Logins /\ login'[q.of] = "answered")
      BY <2>1, <3>2 DEF Accounted
    <3>3. DOMAIN login' = Logins /\ login'[l] = "answered"
      BY <2>1 DEF Accounted
    <3>. QED BY <2>1, <2>3, <2>6, <3>1, <3>2, <3>3 DEF Accounted
  <2>10. NothingBefore'
    BY <2>1 DEF NothingBefore
  <2>. QED BY <2>4, <2>8, <2>9, <2>10
<1>4. ASSUME NEW l \in PostLogins, NEW k \in Parts, NEW outcome \in Outcomes,
             PartAnswered(l, k, outcome)
      PROVE  SessionInv'
  <2>. DEFINE r == [kind |-> k, of |-> l]
  <2>1. /\ r \in flight /\ flight' = flight \ {r} /\ loadingCounter' = Decrement(outcome)
        /\ UNCHANGED <<login, mounted>> /\ auth' = Intercept(auth, outcome)
        /\ \/ stage' = StageAfter(Intercept(auth, outcome))
           \/ stage' \in {"LOGGED_IN_AT_LOAD", "LOGGED_IN"}
    BY <1>4 DEF PartAnswered
  <2>2. LoggedInNotAskedAgain'
    <3>1. CASE stage' = StageAfter(Intercept(auth, outcome))
      BY <2>1, <3>1, StageKeeps
    <3>2. CASE stage' \in {"LOGGED_IN_AT_LOAD", "LOGGED_IN"}
      BY <3>2 DEF LoggedInNotAskedAgain
    <3>. QED BY <2>1, <3>1, <3>2
  <2>. HIDE DEF r
  <2>. QED BY <2>1, <2>2, AnswerKeeps
<1>5. ASSUME NEW r \in flight, NEW outcome \in Outcomes, OtherAnswered(r, outcome)
      PROVE  SessionInv'
  <2>1. /\ flight' = flight \ {r} /\ loadingCounter' = Decrement(outcome)
        /\ UNCHANGED <<login, mounted>> /\ auth' = Intercept(auth, outcome)
        /\ stage' = StageAfter(Intercept(auth, outcome))
    BY <1>5 DEF OtherAnswered
  <2>2. LoggedInNotAskedAgain'
    BY <2>1, StageKeeps
  <2>. QED BY <2>1, <2>2, AnswerKeeps
<1>6. ASSUME NEW outcome \in Outcomes, LogoutAnswered(outcome) PROVE SessionInv'
  <2>. DEFINE r == [kind |-> "logout", of |-> 0]
              new == IF outcome = "ok" THEN LogoutSuccess ELSE Intercept(auth, outcome)
  <2>1. /\ r \in flight /\ flight' = flight \ {r} /\ loadingCounter' = Decrement(outcome)
        /\ UNCHANGED <<login, mounted>>
        /\ \/ UNCHANGED <<auth, stage>>
           \/ auth' = new /\ stage' = StageAfter(new)
    BY <1>6 DEF LogoutAnswered
  <2>. HIDE DEF r, new
  <2>2. LoggedInNotAskedAgain'
    <3>1. CASE UNCHANGED <<auth, stage>>
      BY <3>1 DEF LoggedInNotAskedAgain
    <3>2. CASE auth' = new /\ stage' = StageAfter(new)
      BY <3>2, StageKeeps
    <3>. QED BY <2>1, <3>1, <3>2
  <2>. QED BY <2>1, <2>2, AnswerKeeps
<1>7. ASSUME NEW l \in PostLogins, PostLoginTimer(l) PROVE SessionInv'
  BY <1>7 DEF PostLoginTimer, SpinnerCountsRequests, Accounted, NothingBefore,
              LoggedInNotAskedAgain
<1>8. CASE PageRequest
  <2>1. stage = "LOGGED_IN"
    BY <1>8 DEF PageRequest, Screen
  <2>. QED BY <1>8, <2>1, RequestKeeps DEF PageRequest
<1>9. CASE Logout
  <2>1. stage = "LOGGED_IN"
    BY <1>9 DEF Logout, Screen
  <2>. QED BY <1>9, <2>1, RequestKeeps DEF Logout
<1>10. CASE Redirect \/ UNCHANGED vars
  BY <1>10 DEF Redirect, vars, SpinnerCountsRequests, Accounted, NothingBefore,
               LoggedInNotAskedAgain
<1>. HIDE DEF SessionInv
<1>. QED BY <1>1, <1>2, <1>3, <1>4, <1>5, <1>6, <1>7, <1>8, <1>9, <1>10 DEF Next, Answers

LEMMA SessionAlways == Spec => []SessionInv
<1>1. SessionInv /\ [Next]_vars => SessionInv'
  BY SessionStep
<1>. QED BY SessionStarts, <1>1, PTL DEF Spec

-----------------------------------------------------------------------------
\* The interceptors count every request up once and down once, for any number
\* of logins, pages and logouts and whatever becomes of them.
THEOREM SpinnerCounts == Spec => []SpinnerCountsRequests
<1>1. SessionInv => SpinnerCountsRequests
  BY DEF SessionInv
<1>. QED BY SessionAlways, <1>1, PTL

\* No answer or timer brings a user who is logged in back to the login form.
THEOREM NotAskedAgain == Spec => []LoggedInNotAskedAgain
<1>1. SessionInv => LoggedInNotAskedAgain
  BY DEF SessionInv
<1>. QED BY SessionAlways, <1>1, PTL
=============================================================================
