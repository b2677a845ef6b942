------------------------------ MODULE Session ------------------------------
(***************************************************************************)
(* The session of the web console: the redux state of the login            *)
(* (reducers/LoginState.ts), the login strategies (services/Login.ts and   *)
(* actions/LoginThunkActions.ts), the axios interceptors (app/App.tsx),    *)
(* AuthenticationController, which decides what the user sees, and the     *)
(* session timer of the masthead (UserDropdown.tsx).                       *)
(*                                                                         *)
(* A browser task is one step: the handler of an answer, with every        *)
(* dispatch, render and promise reaction it causes.  What interleaves is   *)
(* the order of the answers, the timers and the user.  The landing route and *)
(* the notices are left out: they decide nothing here.                     *)
(***************************************************************************)
EXTENDS Naturals, FiniteSets

CONSTANTS
  MaxLogins,         \* login requests of a behaviour (bound)
  MaxPageRequests,   \* requests of the pages of the protected area (bound)
  MaxLogouts         \* logout requests of a behaviour (bound)

ASSUME SessionBounds ==
  MaxLogins \in Nat /\ MaxPageRequests \in Nat /\ MaxLogouts \in Nat

VARIABLES
  strategy,          \* authenticationConfig.strategy
  auth,              \* redux: state.authentication
  stage,             \* AuthenticationController: state.stage
  isPostLoginError,  \* AuthenticationController: state.isPostLoginError
  mounted,           \* AuthenticationController is mounted
  login,             \* the calls of performLogin
  post,              \* the calls of doPostLoginActions
  flight,            \* axios requests without an answer
  loadingCounter,    \* redux: state.globalState.loadingCounter
  sent,              \* page and logout requests so far
  left               \* the browser left the console

vars == <<strategy, auth, stage, isPostLoginError, mounted, login, post, flight,
          loadingCounter, sent, left>>

Strategies == {"anonymous", "token", "header", "oauth"}
Stages == {"LOGIN", "POST_LOGIN", "LOGGED_IN", "LOGGED_IN_AT_LOAD"}
Logins == 1..MaxLogins
PostLogins == 0..MaxLogins       \* 0: the session was there at load time
Parts == {"namespaces", "serverConfig", "tracingInfo"}

\* An answer: data, 401, another error answer, or none (connection lost).
Outcomes == {"ok", "401", "error", "lost"}

LoginState ==
  [status : {"loggedOut", "logging", "loggedIn", "error", "expired"},
   session : {"none", "live"}]

PostLogin ==
  [pc : {"idle", "waiting", "done"}, timer : BOOLEAN,
   part : [Parts -> {"none", "sent", "cancelled", "resolved"}]]

Request ==
  [kind : Parts \cup {"login", "status", "page", "logout"}, of : PostLogins]

\* The variables range over the values the declarations in Store.ts,
\* AuthenticationController.tsx and Login.ts allow.
TypeOK ==
  /\ strategy \in Strategies
  /\ auth \in LoginState
  /\ stage \in Stages
  /\ isPostLoginError \in BOOLEAN
  /\ mounted \in BOOLEAN
  /\ login \in [Logins -> {"unused", "sent", "answered"}]
  /\ post \in [PostLogins -> PostLogin]
  /\ flight \in SUBSET Request
  /\ loadingCounter \in Nat
  /\ sent \in [page : 0..MaxPageRequests, logout : 0..MaxLogouts]
  /\ left \in BOOLEAN

---------------------------------------------------------------------------
(* LoginStateReducer: one operator per action.                             *)

InitialLoginState == [status |-> "loggedOut", session |-> "none"]

LoginRequest == [InitialLoginState EXCEPT !.status = "logging"]
LoginSuccess(s) == [status |-> "loggedIn", session |-> s]
LogoutSuccess == InitialLoginState
SessionExpired == [InitialLoginState EXCEPT !.status = "expired"]

\* The reducer reads error.response.data: without an answer it throws and the
\* state stays as it was.
LoginFailure(a, outcome) ==
  IF outcome = "lost" THEN a
  ELSE [InitialLoginState EXCEPT !.status = "error"]

Authenticated(a) == a.status = "loggedIn"

\* The response interceptor: any 401 ends the session.
Intercept(a, outcome) == IF outcome = "401" THEN SessionExpired ELSE a

\* incrementLoadingCounter and decrementLoadingCounter of the interceptors.
Increment(n) == loadingCounter + n
DecrementUnguarded(outcome) ==
  IF outcome = "lost" \/ loadingCounter = 0 THEN loadingCounter ELSE loadingCounter - 1
Decrement(outcome) == IF loadingCounter > 0 THEN loadingCounter - 1 ELSE loadingCounter

---------------------------------------------------------------------------
(* AuthenticationController                                                *)

StageAfterLate(a) ==
  IF ~Authenticated(auth) /\ auth.status # "logging" /\ Authenticated(a) THEN "POST_LOGIN"
  ELSE IF Authenticated(auth) /\ ~Authenticated(a) THEN "LOGIN"
  ELSE IF auth.status # "error" /\ a.status = "error" THEN "LOGIN"
  ELSE stage

\* componentDidUpdate after the login state became a.
StageAfter(a) ==
  IF ~Authenticated(auth) /\ Authenticated(a) THEN "POST_LOGIN"
  ELSE IF Authenticated(auth) /\ ~Authenticated(a) THEN "LOGIN"
  ELSE IF auth.status # "error" /\ a.status = "error" THEN "LOGIN"
  ELSE stage

Idle == [pc |-> "idle", timer |-> FALSE, part |-> [k \in Parts |-> "none"]]

\* The finally of doPostLoginActions clears the timer.
Finished == [Idle EXCEPT !.pc = "done"]

\* doPostLoginActions registers its promises under the keys of the call before
\* it, which cancels those that are not settled.
StartPostLogin(l) ==
  [p \in PostLogins |->
     IF p = l
     THEN [pc |-> "waiting", timer |-> TRUE, part |-> [k \in Parts |-> "sent"]]
     ELSE [post[p] EXCEPT !.part =
             [k \in Parts |-> IF @[k] = "sent" THEN "cancelled" ELSE @[k]]]]

PostLoginRequests(l) == [kind : Parts \cup {"status"}, of : {l}]

\* componentDidMount.  checkCredentials finds no session here, so shouldRelogin
\* holds and performLogin is called.
Mount ==
  /\ ~mounted /\ ~left
  /\ mounted' = TRUE
  /\ \/ /\ stage = "LOGGED_IN_AT_LOAD"
        /\ post' = StartPostLogin(0)
        /\ flight' = flight \cup PostLoginRequests(0)
        /\ loadingCounter' = Increment(Cardinality(PostLoginRequests(0)))
        /\ UNCHANGED <<auth, stage, login>>
     \/ /\ stage # "LOGGED_IN_AT_LOAD" /\ strategy \in {"anonymous", "header"}
        /\ auth' = LoginRequest
        /\ login' = [login EXCEPT ![1] = "sent"]
        /\ stage' = "LOGGED_IN_AT_LOAD"
        /\ IF strategy = "header"
           THEN /\ flight' = flight \cup {[kind |-> "login", of |-> 1]}
                /\ loadingCounter' = Increment(1)
           ELSE UNCHANGED <<flight, loadingCounter>>
        /\ UNCHANGED post
     \/ /\ stage # "LOGGED_IN_AT_LOAD" /\ strategy \notin {"anonymous", "header"}
        /\ UNCHANGED <<auth, stage, login, post, flight, loadingCounter>>
  /\ UNCHANGED <<strategy, isPostLoginError, sent, left>>

\* What the user sees (render).
Screen ==
  CASE stage = "LOGGED_IN" -> "protected"
    [] stage = "LOGGED_IN_AT_LOAD" -> IF isPostLoginError THEN "failed" ELSE "initializing"
    [] stage = "POST_LOGIN" ->
         IF ~isPostLoginError /\ strategy = "oauth" THEN "initializing" ELSE "loginBusy"
    [] OTHER -> "login"

\* The login page of the token strategy; the button is disabled while a login
\* is under way and while the user is logged in.
Authenticate(l) ==
  /\ mounted /\ ~left
  /\ strategy = "token"
  /\ Screen = "login" /\ auth.status \notin {"logging", "loggedIn"}
  /\ login[l] = "unused" /\ \A k \in Logins : k < l => login[k] # "unused"
  /\ auth' = LoginRequest
  /\ login' = [login EXCEPT ![l] = "sent"]
  /\ flight' = flight \cup {[kind |-> "login", of |-> l]}
  /\ loadingCounter' = Increment(1)
  /\ UNCHANGED <<strategy, stage, isPostLoginError, mounted, post, sent, left>>

\* bail: authenticate passes data and reports the failure, checkCredentials
\* passes none and goes back to logged out.
Bail(a, outcome) == IF strategy = "token" THEN LoginFailure(a, outcome) ELSE LogoutSuccess

\* performLogin got its answer: loginSuccess, or the interceptor and bail.
LoginAnswered(l, outcome) ==
  LET r == [kind |-> "login", of |-> l]
      new == IF outcome = "ok" THEN LoginSuccess("live")
             ELSE Bail(Intercept(auth, outcome), outcome)
      starts == ~Authenticated(auth) /\ Authenticated(new)
  IN
  /\ ~left /\ login[l] = "sent"
  /\ strategy = "anonymous" => outcome = "ok"
  /\ login' = [login EXCEPT ![l] = "answered"]
  /\ auth' = new
  /\ stage' = StageAfter(new)
  /\ post' = IF starts THEN StartPostLogin(l) ELSE post
  /\ flight' = (flight \ {r}) \cup (IF starts THEN PostLoginRequests(l) ELSE {})
  /\ loadingCounter' =
       (IF r \in flight THEN Decrement(outcome) ELSE loadingCounter)
         + (IF starts THEN Cardinality(PostLoginRequests(l)) ELSE 0)
  /\ UNCHANGED <<strategy, isPostLoginError, mounted, sent, left>>

CaughtUnset == isPostLoginError

\* The catch of doPostLoginActions sets isPostLoginError.
Caught == TRUE

\* A promise doPostLoginActions awaits settles; the one for the tracing
\* information has a catch of its own.
Settles(l, k, outcome) ==
  k = "tracingInfo" \/ (post[l].part[k] = "sent" /\ outcome = "ok")

\* The promise settles and Promise.all still waits, resolves, or rejects.
PartAnswered(l, k, outcome) ==
  LET r == [kind |-> k, of |-> l]
      new == Intercept(auth, outcome)
      part == [post[l].part EXCEPT ![k] = "resolved"]
      fails == ~Settles(l, k, outcome)
      completes == ~fails /\ \A j \in Parts : part[j] = "resolved"
  IN
  /\ ~left /\ r \in flight
  /\ flight' = flight \ {r}
  /\ loadingCounter' = Decrement(outcome)
  /\ \/ /\ post[l].pc = "done" \/ ~(fails \/ completes)
        /\ auth' = new
        /\ stage' = StageAfter(new)
        /\ post' = IF post[l].pc = "done" THEN post ELSE [post EXCEPT ![l].part = part]
        /\ UNCHANGED isPostLoginError
     \/ /\ post[l].pc = "waiting" /\ fails
        /\ auth' = new
        /\ stage' = "LOGGED_IN_AT_LOAD"
        /\ isPostLoginError' = Caught
        /\ post' = [post EXCEPT ![l] = Finished]
     \/ /\ post[l].pc = "waiting" /\ completes
        /\ auth' = new
        /\ stage' = "LOGGED_IN"
        /\ post' = [post EXCEPT ![l] = Finished]
        /\ UNCHANGED isPostLoginError
  /\ UNCHANGED <<strategy, mounted, login, sent, left>>

\* postLoginTimer: the loading screen after three seconds.
PostLoginTimer(l) ==
  /\ ~left /\ post[l].timer
  /\ post' = [post EXCEPT ![l].timer = FALSE]
  /\ stage' = "LOGGED_IN_AT_LOAD"
  /\ UNCHANGED <<strategy, auth, isPostLoginError, mounted, login, flight, loadingCounter, sent, left>>

---------------------------------------------------------------------------
(* The protected area and the other requests.                              *)

\* A page of the protected area asks the server for something.
PageRequest ==
  /\ Screen = "protected" /\ auth.session # "none" /\ ~left
  /\ sent.page < MaxPageRequests
  /\ [kind |-> "page", of |-> 0] \notin flight
  /\ sent' = [sent EXCEPT !.page = @ + 1]
  /\ flight' = flight \cup {[kind |-> "page", of |-> 0]}
  /\ loadingCounter' = Increment(1)
  /\ UNCHANGED <<strategy, auth, stage, isPostLoginError, mounted, login, post, left>>

\* The answer to a page, or to getStatus, which nothing waits for.
OtherAnswered(r, outcome) ==
  LET new == Intercept(auth, outcome) IN
  /\ ~left /\ r \in flight /\ r.kind \in {"page", "status"}
  /\ flight' = flight \ {r}
  /\ loadingCounter' = Decrement(outcome)
  /\ auth' = new
  /\ stage' = StageAfter(new)
  /\ UNCHANGED <<strategy, isPostLoginError, mounted, login, post, sent, left>>

\* UserDropdown: the user logs out, or timeLeft, called every second, finds that
\* the session has reached its expiresOn.
Logout ==
  /\ Screen = "protected" /\ auth.session # "none" /\ ~left
  /\ sent.logout < MaxLogouts
  /\ [kind |-> "logout", of |-> 0] \notin flight
  /\ sent' = [sent EXCEPT !.logout = @ + 1]
  /\ flight' = flight \cup {[kind |-> "logout", of |-> 0]}
  /\ loadingCounter' = Increment(1)
  /\ UNCHANGED <<strategy, auth, stage, isPostLoginError, mounted, login, post, left>>

\* logout: logged out, or failed; the strategies with an identity provider go to
\* the address the server names, and OpenShift's form is submitted in any case.
LogoutAnswered(outcome) ==
  LET r == [kind |-> "logout", of |-> 0]
      new == IF outcome = "ok" THEN LogoutSuccess ELSE Intercept(auth, outcome)
  IN
  /\ ~left /\ r \in flight
  /\ flight' = flight \ {r}
  /\ loadingCounter' = Decrement(outcome)
  /\ \/ /\ strategy = "oauth"
        /\ left' = TRUE
        /\ UNCHANGED <<auth, stage>>
     \/ /\ auth' = new
        /\ stage' = StageAfter(new)
        /\ UNCHANGED left
  /\ UNCHANGED <<strategy, isPostLoginError, mounted, login, post, sent>>

\* The login page sends the user to the identity provider, at once or when the
\* button is clicked, or (header) loads the console again.
Redirect ==
  /\ mounted /\ ~left
  /\ strategy \in {"oauth", "header"} /\ Screen \in {"login", "loginBusy"}
  /\ left' = TRUE
  /\ UNCHANGED <<strategy, auth, stage, isPostLoginError, mounted, login, post, flight, loadingCounter, sent>>

---------------------------------------------------------------------------
\* StartupInitializer got the authentication configuration, with or without
\* the session of the cookie.
Init ==
  /\ strategy \in Strategies
  /\ auth \in {LoginSuccess("live"), InitialLoginState}
  /\ stage = IF Authenticated(auth) THEN "LOGGED_IN_AT_LOAD" ELSE "LOGIN"
  /\ isPostLoginError = FALSE
  /\ mounted = FALSE
  /\ login = [l \in Logins |-> "unused"]
  /\ post = [l \in PostLogins |-> Idle]
  /\ flight = {}
  /\ loadingCounter = 0
  /\ sent = [page |-> 0, logout |-> 0]
  /\ left = FALSE

Answers ==
  \E outcome \in Outcomes :
    \/ \E l \in Logins : LoginAnswered(l, outcome)
    \/ \E l \in PostLogins, k \in Parts : PartAnswered(l, k, outcome)
    \/ \E r \in flight : OtherAnswered(r, outcome)
    \/ LogoutAnswered(outcome)

Next ==
  \/ Mount
  \/ \E l \in Logins : Authenticate(l)
  \/ Answers
  \/ \E l \in PostLogins : PostLoginTimer(l)
  \/ PageRequest
  \/ Logout
  \/ Redirect

\* Every request is answered or fails, and a timer that is set fires; nothing
\* is assumed of the user.
Fairness ==
  /\ \A l \in Logins : WF_vars(\E o \in Outcomes : LoginAnswered(l, o))
  /\ \A l \in PostLogins :
       /\ WF_vars(PostLoginTimer(l))
       /\ \A k \in Parts : WF_vars(\E o \in Outcomes : PartAnswered(l, k, o))

Spec == Init /\ [][Next]_vars /\ Fairness

---------------------------------------------------------------------------
\* The spinner of the masthead shows exactly while requests are under way: the
\* interceptors of App.tsx count every request up and, whatever becomes of it
\* (an answer, a 401, a lost connection), count it down once.
SpinnerCountsRequests == loadingCounter = Cardinality(flight)

\* A user who is logged in is not shown the login form: whatever answers of
\* earlier logins, earlier post-login calls and timers come between, the stage
\* of AuthenticationController is LOGIN only without a session.
LoggedInNotAskedAgain == Authenticated(auth) => stage # "LOGIN"

\* A login never ends in an endless loading screen: once the user has a session,
\* doPostLoginActions brings the protected area, the error message or, when the
\* session ends meanwhile, the login form.
LoginSettles ==
  Authenticated(auth) /\ mounted ~>
    \/ stage \in {"LOGGED_IN", "LOGIN"}
    \/ isPostLoginError
    \/ left

\* The protected area is only shown to a user with a session: its masthead reads
\* this.props.session!.expiresOn as soon as it is mounted.
ProtectedAreaHasSession == stage = "LOGGED_IN" => auth.session # "none"
=============================================================================
