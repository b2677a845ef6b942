------------------------- MODULE ConfigEditorProofs -------------------------
(***************************************************************************)
(* The invariants of the editor, for any set of Istio objects and any      *)
(* number of requests and calls.  A handler is a composition of changes to *)
(* the record Page, so the invariant is stated of such a record (Sound)    *)
(* and each change is shown to keep it, under the condition its handlers   *)
(* call it in; an action then only says which changes it composes.         *)
(***************************************************************************)
EXTENDS ConfigEditor, FiniteSetTheorems, TLAPS

Fields == {"route", "gen", "fetches", "details", "loaded", "isModified", "typedAt",
           "yamlErrors", "failed", "modal", "pendingLeave", "blocked"}

\* What TypeOK says of a page.
Typed(p) ==
  /\ DOMAIN p = Fields
  /\ p.route \in Routes /\ p.gen \in 0..MaxFetches
  /\ p.fetches \subseteq Fetch /\ p.details \in Routes /\ p.loaded \in 0..MaxFetches
  /\ p.isModified \in BOOLEAN /\ p.typedAt \in Routes /\ p.yamlErrors \in BOOLEAN
  /\ p.failed \in BOOLEAN /\ p.modal \in {"none", "leave", "reload"}
  /\ p.pendingLeave \in BOOLEAN
  /\ p.blocked = {} \/ \E t \in Routes : p.blocked = {t}
  /\ p.route = None => p.fetches = {} /\ ~p.isModified /\ p.modal = "none"

Newest(p) ==
  p.route # None /\ ~p.failed /\ (\A f \in p.fetches : f.gen # p.gen) => p.loaded = p.gen

Asked(p) ==
  /\ p.blocked # {} => p.isModified
  /\ p.blocked # {} \/ p.pendingLeave => p.modal # "none"

\* Unsaved text was typed under the route that is shown.
TypedHere(p) == p.isModified => p.typedAt = p.route

Sound(p) == Typed(p) /\ Newest(p) /\ Asked(p) /\ TypedHere(p)

CallsOK ==
  /\ calls \subseteq Call
  /\ route = None => \A c \in calls : c.gone
  /\ PatchTypedForTarget

Editor == parentKiosk \in BOOLEAN /\ Sound(Page) /\ CallsOK

-----------------------------------------------------------------------------
LEMMA ClearKeeps ==
  ASSUME NEW p, Typed(p), Newest(p), TypedHere(p)
  PROVE  LET q == ClearEditorDirtyState(p) IN
         /\ Typed(q) /\ Newest(q) /\ TypedHere(q) /\ ~q.isModified
         /\ q.route = p.route /\ q.gen = p.gen /\ q.blocked = p.blocked
         /\ q.modal = p.modal /\ q.pendingLeave = p.pendingLeave
BY DEF ClearEditorDirtyState, Typed, Newest, TypedHere, Fields, Routes

LEMMA FetchKeeps ==
  ASSUME NEW p, Typed(p), Asked(p), TypedHere(p), NEW c \in Configs, p.route # None,
         p.gen < MaxFetches
  PROVE  LET q == FetchIstioObjectDetails(p, c) IN
         /\ Sound(q) /\ q.route = p.route /\ q.blocked = p.blocked
         /\ q.isModified = p.isModified /\ q.modal = p.modal
<1>. DEFINE q == FetchIstioObjectDetails(p, c)
            f == [gen |-> p.gen + 1, of |-> c]
<1>1. p.gen + 1 \in 1..MaxFetches /\ p.gen + 1 \in 0..MaxFetches
  BY EditorBounds DEF Typed
<1>2. f \in Fetch /\ f.gen = p.gen + 1
  BY <1>1 DEF Fetch
<1>3. /\ DOMAIN q = Fields /\ q.gen = p.gen + 1 /\ q.fetches = p.fetches \cup {f}
      /\ q.route = p.route /\ q.details = p.details /\ q.loaded = p.loaded
      /\ q.isModified = p.isModified /\ q.typedAt = p.typedAt /\ q.yamlErrors = p.yamlErrors
      /\ q.failed = p.failed /\ q.modal = p.modal /\ q.pendingLeave = p.pendingLeave
      /\ q.blocked = p.blocked
  BY DEF FetchIstioObjectDetails, Typed, Fields
<1>. HIDE DEF q, f
<1>4. Typed(q)
  BY <1>1, <1>2, <1>3 DEF Typed
<1>5. Newest(q)
  BY <1>2, <1>3 DEF Newest
<1>6. Asked(q) /\ TypedHere(q)
  BY <1>3 DEF Asked, TypedHere
<1>. QED BY <1>3, <1>4, <1>5, <1>6 DEF Sound, q

\* Arriving at t; a page with unsaved text is only left for another page.
LEMMA ArriveKeeps ==
  ASSUME NEW p, Typed(p), Newest(p), TypedHere(p), NEW t \in Routes,
         p.pendingLeave => p.modal # "none",
         p.isModified => t \in {None, p.route},
         t \in Configs /\ t # p.route => p.gen < MaxFetches
  PROVE  /\ Sound(Arrive(p, t))
         /\ Arrive(p, t).route = t
<1>1. CASE t = None
  <2>1. Arrive(p, t) = InitialPage
    BY <1>1 DEF Arrive
  <2>2. Sound(InitialPage)
    BY EditorBounds DEF InitialPage, Sound, Typed, Newest, Asked, TypedHere, Fields, Routes
  <2>. QED BY <1>1, <2>1, <2>2 DEF InitialPage
<1>2. CASE t # None /\ t = p.route
  <2>1. Arrive(p, t) = [p EXCEPT !.blocked = {}]
    BY <1>2 DEF Arrive
  <2>. QED
    BY <1>2, <2>1 DEF Sound, Typed, Newest, Asked, TypedHere, Fields
<1>3. CASE t # None /\ t # p.route
  <2>. DEFINE q == [p EXCEPT !.route = t, !.blocked = {}]
  <2>1. Arrive(p, t) = FetchIstioObjectDetails(q, t)
    BY <1>3 DEF Arrive
  <2>2. t \in Configs
    BY <1>3 DEF Routes
  <2>3. Typed(q) /\ Asked(q) /\ TypedHere(q) /\ q.route = t /\ q.gen = p.gen
    BY <1>3 DEF Typed, Asked, TypedHere, Fields
  <2>. HIDE DEF q
  <2>. QED BY <1>3, <2>1, <2>2, <2>3, FetchKeeps
<1>. QED BY <1>1, <1>2, <1>3

\* A navigation through the router.
LEMMA NavigateKeeps ==
  ASSUME NEW p, Sound(p), NEW t \in Routes,
         parentKiosk => t = None,
         t \in Configs => p.gen < MaxFetches
  PROVE  /\ Sound(Navigate(p, t))
         /\ p.isModified /\ ~parentKiosk => Navigate(p, t).route = p.route
<1>1. CASE ShouldBlock(p, t)
  <2>. DEFINE q == [p EXCEPT !.blocked = {t}, !.modal = IF @ = "reload" THEN @ ELSE "leave"]
  <2>1. Navigate(p, t) = q
    BY <1>1 DEF Navigate
  <2>2. q.blocked = {t} /\ q.modal \in {"reload", "leave"} /\ q.route = p.route
    BY DEF Sound, Typed, Fields
  <2>3. Typed(q) /\ Newest(q) /\ TypedHere(q)
    BY <1>1, <2>2 DEF Sound, Typed, Newest, TypedHere, Fields, ShouldBlock
  <2>4. Asked(q)
    BY <1>1, <2>2 DEF Sound, Typed, Asked, Fields, ShouldBlock
  <2>. QED BY <2>1, <2>2, <2>3, <2>4 DEF Sound
<1>2. CASE ~ShouldBlock(p, t)
  <2>1. Navigate(p, t) = Arrive(p, t)
    BY <1>2 DEF Navigate
  <2>2. p.isModified => t \in {None, p.route}
    BY <1>2 DEF ShouldBlock
  <2>3. p.isModified /\ ~parentKiosk => t = p.route
    BY <1>2 DEF ShouldBlock
  <2>4. Typed(p) /\ Newest(p) /\ TypedHere(p) /\ (p.pendingLeave => p.modal # "none")
    BY DEF Sound, Asked
  <2>. QED BY <2>1, <2>2, <2>3, <2>4, ArriveKeeps
<1>. QED BY <1>1, <1>2

\* Once the dirty state is cleared, a blocked navigation goes on.
LEMMA ProceedKeeps ==
  ASSUME NEW p, Typed(p), Newest(p), ~p.isModified, p.pendingLeave => p.modal # "none",
         p.blocked # {} => p.gen < MaxFetches
  PROVE  /\ Sound(ProceedIfClean(p))
         /\ p.blocked = {} => ProceedIfClean(p).route = p.route
<1>1. CASE p.blocked = {}
  BY <1>1 DEF ProceedIfClean, Sound, Asked, TypedHere
<1>2. CASE p.blocked # {}
  <2>. DEFINE t == CHOOSE u \in p.blocked : TRUE
  <2>1. t \in Routes
    BY <1>2 DEF Typed
  <2>2. ProceedIfClean(p) = Arrive(p, t)
    BY <1>2 DEF ProceedIfClean
  <2>. HIDE DEF t
  <2>. QED BY <1>2, <2>1, <2>2, ArriveKeeps DEF TypedHere
<1>. QED BY <1>1, <1>2

-----------------------------------------------------------------------------
\* The record Page, field by field.
LEMMA PageFields ==
  /\ Page.route = route /\ Page.gen = gen /\ Page.fetches = fetches
  /\ Page.details = details /\ Page.loaded = loaded /\ Page.isModified = isModified
  /\ Page.typedAt = typedAt /\ Page.yamlErrors = yamlErrors /\ Page.failed = failed
  /\ Page.modal = modal /\ Page.pendingLeave = pendingLeave /\ Page.blocked = blocked
  /\ DOMAIN Page = Fields
BY DEF Page, Fields

\* A handler that ends with a sound page and calls of the right kind.
LEMMA SettleKeeps ==
  ASSUME Editor, NEW p, Sound(p), NEW rest, rest \subseteq Call,
         \A c \in rest : c.kind = "save" => c.typedAt = c.to,
         Settle(p, rest)
  PROVE  Editor'
<1>1. /\ route' = p.route /\ gen' = p.gen /\ fetches' = p.fetches
      /\ details' = p.details /\ loaded' = p.loaded /\ isModified' = p.isModified
      /\ typedAt' = p.typedAt /\ yamlErrors' = p.yamlErrors /\ failed' = p.failed
      /\ modal' = p.modal /\ pendingLeave' = p.pendingLeave /\ blocked' = p.blocked
  BY DEF Settle, Become
<1>2. /\ Page'.route = p.route /\ Page'.gen = p.gen /\ Page'.fetches = p.fetches
      /\ Page'.details = p.details /\ Page'.loaded = p.loaded
      /\ Page'.isModified = p.isModified /\ Page'.typedAt = p.typedAt
      /\ Page'.yamlErrors = p.yamlErrors /\ Page'.failed = p.failed
      /\ Page'.modal = p.modal /\ Page'.pendingLeave = p.pendingLeave
      /\ Page'.blocked = p.blocked /\ DOMAIN Page' = Fields
  BY <1>1 DEF Page, Fields
<1>3. Sound(Page')
  BY <1>2 DEF Sound, Typed, Newest, Asked, TypedHere
<1>4. CallsOK'
  <2>1. CASE p.route = None
    <3>1. calls' = {[c EXCEPT !.gone = TRUE] : c \in rest}
      BY <2>1 DEF Settle
    <3>2. ASSUME NEW c \in rest
          PROVE  LET d == [c EXCEPT !.gone = TRUE] IN
                 d \in Call /\ d.gone /\ (d.kind = "save" => d.typedAt = d.to)
      BY DEF Call
    <3>. QED BY <3>1, <3>2 DEF CallsOK, PatchTypedForTarget
  <2>2. CASE p.route # None
    BY <1>1, <2>2 DEF CallsOK, PatchTypedForTarget, Settle
  <2>. QED BY <2>1, <2>2
<1>. QED BY <1>3, <1>4 DEF Editor, Settle

LEMMA InitEditor == Init => Editor
<1>. SUFFICES ASSUME Init PROVE Editor
  OBVIOUS
<1>1. Typed(Page)
  <2>1. 0 \in 0..MaxFetches /\ None \in Routes
    BY EditorBounds DEF Routes
  <2>2. /\ Page.isModified = FALSE /\ Page.yamlErrors = FALSE /\ Page.failed = FALSE
        /\ Page.pendingLeave = FALSE
    BY PageFields DEF Init
  <2>3. /\ Page.isModified \in BOOLEAN /\ Page.yamlErrors \in BOOLEAN
        /\ Page.failed \in BOOLEAN /\ Page.pendingLeave \in BOOLEAN
    BY <2>2
  <2>. QED BY <2>1, <2>2, <2>3, PageFields DEF Init, Typed
<1>2. Newest(Page) /\ Asked(Page) /\ TypedHere(Page)
  BY PageFields DEF Init, Newest, Asked, TypedHere
<1>. QED BY <1>1, <1>2 DEF Init, Editor, Sound, CallsOK, PatchTypedForTarget

\* What the editor's invariant says of the variables.
LEMMA EditorNow ==
  ASSUME Editor
  PROVE  /\ Typed(Page) /\ Newest(Page) /\ Asked(Page) /\ TypedHere(Page) /\ Sound(Page)
         /\ calls \subseteq Call
         /\ \A c \in calls : c.kind = "save" => c.typedAt = c.to
         /\ route \in Routes /\ gen \in 0..MaxFetches /\ details \in Routes
         /\ typedAt \in Routes
         /\ route = None => fetches = {} /\ ~isModified /\ modal = "none"
         /\ blocked = {} \/ \E t \in Routes : blocked = {t}
         /\ blocked # {} \/ pendingLeave => modal # "none"
         /\ isModified => typedAt = route
         /\ blocked # {} => isModified
         /\ isModified \in BOOLEAN
BY PageFields DEF Editor, Sound, Typed, Asked, TypedHere, CallsOK, PatchTypedForTarget

-----------------------------------------------------------------------------
\* Each handler leaves a sound page.
LEMMA OpenSound ==
  ASSUME Editor, NEW c \in Configs, MaxFetches > 0
  PROVE  Sound(FetchIstioObjectDetails([InitialPage EXCEPT !.route = c], c))
<1>. DEFINE p == [InitialPage EXCEPT !.route = c]
<1>1. /\ p.route = c /\ p.gen = 0 /\ p.fetches = {} /\ p.details = None /\ p.loaded = 0
      /\ p.isModified = FALSE /\ p.typedAt = None /\ p.yamlErrors = FALSE
      /\ p.failed = FALSE /\ p.modal = "none" /\ p.pendingLeave = FALSE
      /\ p.blocked = {} /\ DOMAIN p = Fields
  BY DEF InitialPage, Fields
<1>. HIDE DEF p
<1>2. 0 \in 0..MaxFetches /\ None \in Routes /\ c \in Routes /\ c # None
  BY EditorBounds DEF Routes
<1>3. /\ p.isModified \in BOOLEAN /\ p.yamlErrors \in BOOLEAN
      /\ p.failed \in BOOLEAN /\ p.pendingLeave \in BOOLEAN
  BY <1>1
<1>4. Typed(p)
  BY <1>1, <1>2, <1>3 DEF Typed
<1>5. Asked(p) /\ TypedHere(p) /\ p.route # None /\ p.gen < MaxFetches
  BY <1>1, <1>2 DEF Asked, TypedHere
<1>. QED BY <1>4, <1>5, FetchKeeps DEF p

LEMMA FetchedSound ==
  ASSUME Editor, NEW f \in fetches, f.gen = gen /\ blocked # {} => gen < MaxFetches
  PROVE  /\ Sound(Fetched(f))
         /\ blocked = {} \/ f.gen # gen => Fetched(f).route = route
<1>. DEFINE p == [Page EXCEPT !.fetches = @ \ {f}]
<1>1. /\ p.route = route /\ p.gen = gen /\ p.fetches = fetches \ {f}
      /\ p.details = details /\ p.loaded = loaded /\ p.isModified = isModified
      /\ p.typedAt = typedAt /\ p.yamlErrors = yamlErrors /\ p.failed = failed
      /\ p.modal = modal /\ p.pendingLeave = pendingLeave /\ p.blocked = blocked
      /\ DOMAIN p = Fields
  BY PageFields DEF Fields
<1>2. Typed(p) /\ Asked(p) /\ TypedHere(p)
  BY <1>1, PageFields, EditorNow DEF Typed, Asked, TypedHere
<1>3. CASE f.gen # gen
  <2>1. Newest(p)
    BY <1>1, <1>3, PageFields, EditorNow DEF Newest
  <2>2. Fetched(f) = p
    BY <1>3 DEF Fetched
  <2>. HIDE DEF p
  <2>. QED BY <1>1, <1>2, <1>3, <2>1, <2>2 DEF Sound
<1>4. CASE f.gen = gen
  <2>. DEFINE q == [p EXCEPT !.details = f.of, !.loaded = f.gen]
              r == ClearEditorDirtyState(q)
  <2>1. Fetched(f) = ProceedIfClean(r)
    BY <1>4 DEF Fetched
  <2>. HIDE DEF p
  <2>2. f.of \in Configs /\ f.gen = p.gen
    BY <1>1, <1>4, PageFields, EditorNow DEF Typed, Fetch
  <2>3. /\ Typed(q) /\ Newest(q) /\ TypedHere(q) /\ q.route = route /\ q.gen = gen
        /\ q.blocked = blocked /\ q.modal = modal /\ q.pendingLeave = pendingLeave
    BY <1>1, <1>2, <1>4, <2>2 DEF Typed, Newest, TypedHere, Fields, Routes
  <2>. HIDE DEF q
  <2>4. /\ Typed(r) /\ Newest(r) /\ ~r.isModified /\ r.route = route
        /\ r.gen = gen /\ r.blocked = blocked /\ r.modal = modal
        /\ r.pendingLeave = pendingLeave
    BY <2>3, ClearKeeps
  <2>. HIDE DEF r
  <2>. QED BY <1>4, <2>1, <2>4, EditorNow, ProceedKeeps
<1>. QED BY <1>3, <1>4

LEMMA FailedSound ==
  ASSUME Editor, NEW f \in fetches
  PROVE  Sound([Page EXCEPT !.fetches = @ \ {f}, !.failed = @ \/ f.gen = gen])
<1>. DEFINE p == [Page EXCEPT !.fetches = @ \ {f}, !.failed = @ \/ f.gen = gen]
<1>1. /\ p.route = route /\ p.gen = gen /\ p.fetches = fetches \ {f}
      /\ p.details = details /\ p.loaded = loaded /\ p.isModified = isModified
      /\ p.typedAt = typedAt /\ p.yamlErrors = yamlErrors
      /\ p.failed = (failed \/ f.gen = gen)
      /\ p.modal = modal /\ p.pendingLeave = pendingLeave /\ p.blocked = blocked
      /\ DOMAIN p = Fields
  BY PageFields DEF Fields
<1>. HIDE DEF p
<1>2. Typed(p) /\ Asked(p) /\ TypedHere(p)
  BY <1>1, PageFields, EditorNow DEF Typed, Asked, TypedHere
<1>3. Newest(p)
  BY <1>1, PageFields, EditorNow DEF Newest, Typed
<1>. QED BY <1>2, <1>3 DEF Sound, p

LEMMA TypeSound ==
  ASSUME Editor, EditorShown, NEW err \in BOOLEAN
  PROVE  Sound([Page EXCEPT !.isModified = TRUE, !.typedAt = route, !.yamlErrors = err])
BY PageFields, EditorNow
   DEF EditorShown, AtWork, Sound, Typed, Newest, Asked, TypedHere, Fields

LEMMA ConfirmedSound ==
  ASSUME Editor, modal # "none", gen < MaxFetches
  PROVE  Sound(Confirmed)
<1>. DEFINE closed == [Page EXCEPT !.modal = "none", !.pendingLeave = FALSE]
            clean == ClearEditorDirtyState(closed)
<1>1. /\ closed.route = route /\ closed.gen = gen /\ closed.fetches = fetches
      /\ closed.details = details /\ closed.loaded = loaded
      /\ closed.isModified = isModified /\ closed.typedAt = typedAt
      /\ closed.yamlErrors = yamlErrors /\ closed.failed = failed
      /\ closed.modal = "none" /\ closed.pendingLeave = FALSE
      /\ closed.blocked = blocked /\ DOMAIN closed = Fields
  BY PageFields DEF Fields
<1>2. Typed(closed) /\ Newest(closed) /\ TypedHere(closed)
  BY <1>1, PageFields, EditorNow DEF Typed, Newest, TypedHere
<1>3. CASE modal = "reload"
  <2>. DEFINE q == [closed EXCEPT !.blocked = {}]
  <2>1. Confirmed = FetchIstioObjectDetails(q, route)
    BY <1>3 DEF Confirmed
  <2>. HIDE DEF closed
  <2>2. Typed(q) /\ Asked(q) /\ TypedHere(q) /\ q.route = route /\ q.gen = gen
    BY <1>1, <1>2 DEF Typed, Asked, TypedHere, Fields
  <2>3. route \in Configs /\ route # None
    BY <1>3, EditorNow DEF Routes
  <2>. HIDE DEF q
  <2>. QED BY <2>1, <2>2, <2>3, FetchKeeps
<1>4. CASE modal # "reload"
  <2>. HIDE DEF closed
  <2>1. /\ Typed(clean) /\ Newest(clean) /\ TypedHere(clean) /\ ~clean.isModified
        /\ clean.gen = gen /\ clean.blocked = blocked
        /\ clean.pendingLeave = FALSE /\ clean.modal = "none"
    BY <1>1, <1>2, ClearKeeps
  <2>2. CASE blocked # {}
    <3>. DEFINE t == CHOOSE u \in blocked : TRUE
    <3>1. Confirmed = Arrive(clean, t)
      BY <1>4, <2>2 DEF Confirmed, closed
    <3>2. t \in Routes
      BY <2>2, EditorNow
    <3>. HIDE DEF t, clean
    <3>. QED BY <2>1, <3>1, <3>2, ArriveKeeps
  <2>3. CASE blocked = {} /\ pendingLeave
    <3>1. Confirmed = Arrive(clean, None)
      BY <1>4, <2>3 DEF Confirmed, closed
    <3>. HIDE DEF clean
    <3>. QED BY <2>1, <3>1, ArriveKeeps, EditorBounds DEF Routes
  <2>4. CASE blocked = {} /\ ~pendingLeave
    <3>1. Confirmed = clean
      BY <1>4, <2>4 DEF Confirmed, closed
    <3>. HIDE DEF clean
    <3>. QED BY <2>1, <2>4, <3>1 DEF Sound, Asked
  <2>. QED BY <2>2, <2>3, <2>4
<1>. QED BY <1>3, <1>4

LEMMA ClosedSound ==
  ASSUME Editor, modal # "none"
  PROVE  Sound(Closed)
<1>1. CASE modal = "reload" /\ (blocked # {} \/ pendingLeave)
  <2>1. Closed = [Page EXCEPT !.modal = "leave"]
    BY <1>1 DEF Closed
  <2>. QED BY <1>1, <2>1, PageFields, EditorNow
         DEF Sound, Typed, Newest, Asked, TypedHere, Fields
<1>2. CASE ~(modal = "reload" /\ (blocked # {} \/ pendingLeave))
  <2>1. Closed = [Page EXCEPT !.modal = "none", !.pendingLeave = FALSE, !.blocked = {}]
    BY <1>2 DEF Closed
  <2>. QED BY <1>2, <2>1, PageFields, EditorNow
         DEF Sound, Typed, Newest, Asked, TypedHere, Fields
<1>. QED BY <1>1, <1>2

-----------------------------------------------------------------------------
\* Every step keeps the editor's invariant.
LEMMA EditorStep ==
  ASSUME Editor, [Next]_vars
  PROVE  Editor'
<1>1. ASSUME NEW c \in Configs, Open(c) PROVE Editor'
  <2>. DEFINE p == FetchIstioObjectDetails([InitialPage EXCEPT !.route = c], c)
  <2>1. Sound(p) /\ Settle(p, calls)
    BY <1>1, OpenSound DEF Open
  <2>. HIDE DEF p
  <2>. QED BY <2>1, EditorNow, SettleKeeps
<1>2. ASSUME NEW t \in Routes, Leave(t) PROVE Editor'
  <2>1. Sound(Navigate(Page, t)) /\ Settle(Navigate(Page, t), calls)
    BY <1>2, EditorNow, PageFields, NavigateKeeps DEF Leave
  <2>. QED BY <2>1, EditorNow, SettleKeeps
<1>3. ASSUME NEW f \in fetches, FetchAnswered(f) PROVE Editor'
  <2>1. Sound(Fetched(f)) /\ Settle(Fetched(f), calls)
    BY <1>3, FetchedSound DEF FetchAnswered
  <2>. QED BY <2>1, EditorNow, SettleKeeps
<1>4. ASSUME NEW f \in fetches, FetchFailed(f) PROVE Editor'
  <2>. DEFINE p == [Page EXCEPT !.fetches = @ \ {f}, !.failed = @ \/ f.gen = gen]
  <2>1. Sound(p) /\ Settle(p, calls)
    BY <1>4, FailedSound DEF FetchFailed
  <2>. HIDE DEF p
  <2>. QED BY <2>1, EditorNow, SettleKeeps
<1>5. ASSUME NEW err \in BOOLEAN, Type(err) PROVE Editor'
  <2>. DEFINE p == [Page EXCEPT !.isModified = TRUE, !.typedAt = route, !.yamlErrors = err]
  <2>1. Sound(p) /\ Settle(p, calls)
    BY <1>5, TypeSound DEF Type
  <2>. HIDE DEF p
  <2>. QED BY <2>1, EditorNow, SettleKeeps
<1>6. CASE HandleUpdate
  <2>. DEFINE new == [kind |-> "save", to |-> route, of |-> details,
                      typedAt |-> typedAt, gone |-> FALSE]
  <2>1. Settle(Page, calls \cup {new})
    BY <1>6 DEF HandleUpdate
  <2>2. route \in Configs /\ isModified
    BY <1>6, EditorNow DEF HandleUpdate, EditorShown, AtWork, Routes
  <2>3. new \in Call /\ new.typedAt = new.to
    BY <2>2, EditorNow DEF Call
  <2>. HIDE DEF new
  <2>. QED BY <2>1, <2>3, EditorNow, SettleKeeps
<1>7. CASE HandleDelete
  <2>. DEFINE new == [kind |-> "delete", to |-> route, of |-> details,
                      typedAt |-> None, gone |-> FALSE]
  <2>1. Settle(Page, calls \cup {new})
    BY <1>7 DEF HandleDelete
  <2>2. route \in Configs /\ None \in Routes
    BY <1>7, EditorNow DEF HandleDelete, EditorShown, AtWork, Routes
  <2>3. new \in Call /\ new.kind = "delete"
    BY <2>2, EditorNow DEF Call
  <2>. HIDE DEF new
  <2>. QED BY <2>1, <2>3, EditorNow, SettleKeeps
<1>8. ASSUME NEW c \in calls, UpdateAnswered(c) PROVE Editor'
  <2>1. CASE c.gone
    <3>1. Settle(Page, calls \ {c})
      BY <1>8, <2>1 DEF UpdateAnswered
    <3>. QED BY <3>1, EditorNow, SettleKeeps
  <2>2. CASE ~c.gone
    <3>. DEFINE p == FetchIstioObjectDetails(Page, c.to)
    <3>1. Settle(p, calls \ {c}) /\ gen < MaxFetches
      BY <1>8, <2>2 DEF UpdateAnswered
    <3>2. c.to \in Configs /\ route # None
      BY <2>2, EditorNow DEF Call, Editor, CallsOK
    <3>3. Sound(p)
      BY <3>1, <3>2, EditorNow, PageFields, FetchKeeps
    <3>. HIDE DEF p
    <3>. QED BY <3>1, <3>3, EditorNow, SettleKeeps
  <2>. QED BY <2>1, <2>2
<1>9. ASSUME NEW c \in calls, UpdateFailed(c) PROVE Editor'
  <2>. DEFINE p == [Page EXCEPT !.yamlErrors = @ /\ c.gone]
  <2>1. Settle(p, calls \ {c})
    BY <1>9 DEF UpdateFailed
  <2>2. /\ p.route = route /\ p.gen = gen /\ p.fetches = fetches
        /\ p.details = details /\ p.loaded = loaded /\ p.isModified = isModified
        /\ p.typedAt = typedAt /\ p.yamlErrors = (yamlErrors /\ c.gone)
        /\ p.failed = failed /\ p.modal = modal /\ p.pendingLeave = pendingLeave
        /\ p.blocked = blocked /\ DOMAIN p = Fields
    BY PageFields DEF Fields
  <2>. HIDE DEF p
  <2>3. Sound(p)
    BY <2>2, PageFields, EditorNow DEF Sound, Typed, Newest, Asked, TypedHere
  <2>. QED BY <2>1, <2>3, EditorNow, SettleKeeps
<1>10. ASSUME NEW c \in calls, DeleteAnswered(c) PROVE Editor'
  <2>1. CASE c.gone
    <3>1. Settle(Navigate(Page, None), calls \ {c})
      BY <1>10, <2>1 DEF DeleteAnswered
    <3>2. Sound(Navigate(Page, None))
      BY EditorNow, NavigateKeeps, EditorBounds DEF Routes
    <3>. QED BY <3>1, <3>2, EditorNow, SettleKeeps
  <2>2. CASE ~c.gone
    <3>. DEFINE p == ClearEditorDirtyState(Page)
    <3>1. Settle(Arrive(p, None), calls \ {c})
      BY <1>10, <2>2 DEF DeleteAnswered
    <3>2. /\ Typed(p) /\ Newest(p) /\ TypedHere(p) /\ ~p.isModified
          /\ p.pendingLeave => p.modal # "none"
      BY EditorNow, PageFields, ClearKeeps
    <3>. HIDE DEF p
    <3>3. Sound(Arrive(p, None))
      BY <3>2, ArriveKeeps, EditorBounds DEF Routes
    <3>. QED BY <3>1, <3>3, EditorNow, SettleKeeps
  <2>. QED BY <2>1, <2>2
<1>11. ASSUME NEW c \in calls, DeleteFailed(c) PROVE Editor'
  BY <1>11, EditorNow, SettleKeeps DEF DeleteFailed
<1>12. CASE HandleCancel
  <2>1. CASE isModified /\ ~parentKiosk
    <3>. DEFINE p == [Page EXCEPT !.pendingLeave = TRUE, !.modal = "leave"]
    <3>1. Settle(p, calls) /\ route # None
      BY <1>12, <2>1 DEF HandleCancel, AtWork
    <3>2. Sound(p)
      BY <3>1, PageFields, EditorNow DEF Sound, Typed, Newest, Asked, TypedHere, Fields
    <3>. HIDE DEF p
    <3>. QED BY <3>1, <3>2, EditorNow, SettleKeeps
  <2>2. CASE ~(isModified /\ ~parentKiosk)
    <3>1. Settle(Arrive(Page, None), calls)
      BY <1>12, <2>2 DEF HandleCancel
    <3>2. Sound(Arrive(Page, None))
      BY EditorNow, PageFields, ArriveKeeps, EditorBounds DEF Routes
    <3>. QED BY <3>1, <3>2, EditorNow, SettleKeeps
  <2>. QED BY <2>1, <2>2
<1>13. CASE HandleRefresh
  <2>1. CASE isModified /\ ~parentKiosk
    <3>. DEFINE p == [Page EXCEPT !.modal = "reload"]
    <3>1. Settle(p, calls) /\ route # None
      BY <1>13, <2>1 DEF HandleRefresh, AtWork
    <3>2. Sound(p)
      BY <3>1, PageFields, EditorNow DEF Sound, Typed, Newest, Asked, TypedHere, Fields
    <3>. HIDE DEF p
    <3>. QED BY <3>1, <3>2, EditorNow, SettleKeeps
  <2>2. CASE ~(isModified /\ ~parentKiosk)
    <3>. DEFINE p == FetchIstioObjectDetails(Page, route)
    <3>1. Settle(p, calls) /\ route # None /\ gen < MaxFetches
      BY <1>13, <2>2 DEF HandleRefresh, AtWork
    <3>2. Sound(p)
      BY <3>1, EditorNow, PageFields, FetchKeeps DEF Routes
    <3>. HIDE DEF p
    <3>. QED BY <3>1, <3>2, EditorNow, SettleKeeps
  <2>. QED BY <2>1, <2>2
<1>14. CASE HandleConfirm
  BY <1>14, EditorNow, ConfirmedSound, SettleKeeps DEF HandleConfirm
<1>15. CASE HandleModalClose
  BY <1>15, EditorNow, ClosedSound, SettleKeeps DEF HandleModalClose
<1>16. CASE UNCHANGED vars
  <2>1. Page' = Page /\ calls' = calls /\ route' = route /\ parentKiosk' = parentKiosk
    BY <1>16 DEF vars, page, Page
  <2>. QED BY <2>1 DEF Editor, CallsOK, PatchTypedForTarget
<1>. QED BY <1>1, <1>2, <1>3, <1>4, <1>5, <1>6, <1>7, <1>8, <1>9, <1>10, <1>11,
           <1>12, <1>13, <1>14, <1>15, <1>16 DEF Next

-----------------------------------------------------------------------------
LEMMA EditorAlways == Spec => []Editor
<1>1. Editor /\ [Next]_vars => Editor'
  BY EditorStep
<1>. QED BY InitEditor, <1>1, PTL DEF Spec

\* The types of the editor: at most one blocked navigation, and a page that is
\* gone keeps neither requests nor unsaved text, nor calls that still know it.
THEOREM EditorTypes == Spec => []TypeOK
<1>1. Editor => TypeOK
  <2>. SUFFICES ASSUME Editor PROVE TypeOK
    OBVIOUS
  <2>1. Cardinality(blocked) <= 1
    BY EditorNow, FS_EmptySet, FS_Singleton
  <2>2. blocked \in SUBSET Routes
    BY EditorNow
  <2>. QED BY <2>1, <2>2, PageFields, EditorNow
       DEF TypeOK, Typed, Editor, CallsOK
<1>. QED BY EditorAlways, <1>1, PTL

\* However many requests are under way and in whatever order they are answered,
\* the editor holds the answer to the newest one (fetchGenerationRef).
THEOREM EditorShowsNewest == Spec => []NewestAnswerShown
<1>1. Editor => NewestAnswerShown
  BY EditorNow, PageFields DEF Newest, NewestAnswerShown
<1>. QED BY EditorAlways, <1>1, PTL

\* A blocked or pending navigation always has a dialog, and something to lose.
THEOREM EditorAsks == Spec => []WaitingLeaveIsAsked
<1>1. Editor => WaitingLeaveIsAsked
  BY EditorNow DEF WaitingLeaveIsAsked
<1>. QED BY EditorAlways, <1>1, PTL

\* Every text sent by handleUpdate was typed under the route it is sent to.
THEOREM EditorPatches == Spec => []PatchTypedForTarget
<1>1. Editor => PatchTypedForTarget
  BY DEF Editor, CallsOK
<1>. QED BY EditorAlways, <1>1, PTL

\* The page is left with unsaved text only from a dialog or by the answer to a
\* delete.
LEMMA LeaveStep ==
  ASSUME Editor, [Next]_vars, isModified, ~parentKiosk, route' # route, modal = "none"
  PROVE  \E c \in calls : c.kind = "delete" /\ c \notin calls'
<1>. USE EditorNow, PageFields
<1>1. ASSUME NEW c \in Configs, Open(c) PROVE FALSE
  BY <1>1 DEF Open
<1>2. ASSUME NEW t \in Routes, Leave(t) PROVE FALSE
  <2>1. Navigate(Page, t).route = route
    BY <1>2, NavigateKeeps DEF Leave
  <2>. QED BY <1>2, <2>1 DEF Leave, Settle, Become
<1>3. ASSUME NEW f \in fetches, FetchAnswered(f) PROVE FALSE
  <2>1. Fetched(f).route = route
    BY <1>3, FetchedSound DEF FetchAnswered
  <2>. QED BY <1>3, <2>1 DEF FetchAnswered, Settle, Become
<1>4. ASSUME NEW f \in fetches, FetchFailed(f) PROVE FALSE
  BY <1>4 DEF FetchFailed, Settle, Become, Fields
<1>5. ASSUME NEW err \in BOOLEAN, Type(err) PROVE FALSE
  BY <1>5 DEF Type, Settle, Become, Fields
<1>6. CASE HandleUpdate \/ HandleDelete
  BY <1>6 DEF HandleUpdate, HandleDelete, Settle, Become
<1>7. ASSUME NEW c \in calls, UpdateAnswered(c) \/ UpdateFailed(c) \/ DeleteFailed(c)
      PROVE  FALSE
  BY <1>7 DEF UpdateAnswered, UpdateFailed, DeleteFailed, FetchIstioObjectDetails,
              Settle, Become, Fields
<1>8. ASSUME NEW c \in calls, DeleteAnswered(c)
      PROVE  c.kind = "delete" /\ c \notin calls'
  <2>1. CASE c.gone
    <3>1. Navigate(Page, None).route = route
      BY NavigateKeeps, EditorBounds DEF Routes
    <3>. QED BY <1>8, <2>1, <3>1 DEF DeleteAnswered, Settle, Become
  <2>2. CASE ~c.gone
    <3>. DEFINE p == Arrive(ClearEditorDirtyState(Page), None)
    <3>1. p.route = None
      BY DEF Arrive, InitialPage
    <3>2. Settle(p, calls \ {c}) /\ c.kind = "delete"
      BY <1>8, <2>2 DEF DeleteAnswered
    <3>. HIDE DEF p
    <3>3. calls' = {[d EXCEPT !.gone = TRUE] : d \in calls \ {c}}
      BY <3>1, <3>2 DEF Settle
    <3>4. \A d \in calls : [d EXCEPT !.gone = TRUE].gone = TRUE
      BY DEF Call
    <3>. QED BY <2>2, <3>2, <3>3, <3>4
  <2>. QED BY <2>1, <2>2
<1>9. CASE HandleCancel
  BY <1>9 DEF HandleCancel, Settle, Become, Fields
<1>10. CASE HandleRefresh
  BY <1>10 DEF HandleRefresh, Settle, Become, Fields
<1>11. CASE HandleConfirm \/ HandleModalClose
  BY <1>11 DEF HandleConfirm, HandleModalClose
<1>12. CASE UNCHANGED vars
  BY <1>12 DEF vars, page
<1>. QED BY <1>1, <1>2, <1>3, <1>4, <1>5, <1>6, <1>7, <1>8, <1>9, <1>10, <1>11,
           <1>12 DEF Next

\* Outside a parent kiosk no handler takes unsaved text off the screen without
\* a dialog, a deletion apart: not the router, not the answer of an old save or
\* delete, not the effect on the blocker.
THEOREM EditorLeavesConfirmed == Spec => LeavingIsConfirmed
<1>1. Editor /\ [Next]_vars
        => [isModified /\ ~parentKiosk /\ route' # route
              => modal # "none" \/ \E c \in calls : c.kind = "delete" /\ c \notin calls']_vars
  BY LeaveStep
<1>. QED BY EditorAlways, <1>1, PTL DEF Spec, LeavingIsConfirmed
=============================================================================
