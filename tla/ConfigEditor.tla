---------------------------- MODULE ConfigEditor ----------------------------
(***************************************************************************)
(* The editor of an Istio object                                           *)
(* (pages/IstioConfigDetails/IstioConfigDetailsPage.tsx).  The route keeps  *)
(* one instance of the page while the user goes from one object to         *)
(* another, so requests for an earlier object, answers of an earlier save  *)
(* or delete, a blocked navigation and the two confirmation dialogs meet   *)
(* in the same React state.                                                *)
(*                                                                         *)
(* The text of the editor is abstracted to the object it was loaded from   *)
(* (details) and the route it was typed under (typedAt).  A browser task   *)
(* with the renders and effects it causes is one step.  Folding, markers,  *)
(* the drawer and the cluster of the object are left out.                  *)
(***************************************************************************)
EXTENDS Naturals, FiniteSets

CONSTANTS
  Configs,      \* Istio objects, by namespace, kind and name
  None,         \* no object; as a route, another page of the console
  MaxFetches,   \* requests of one instance of the page (bound)
  MaxCalls      \* saves and deletes under way (bound)

ASSUME EditorBounds ==
  None \notin Configs /\ MaxFetches \in Nat /\ MaxCalls \in Nat

VARIABLES
  parentKiosk,  \* the console runs inside another application
  route,        \* istioConfigId of the props; None: the page is unmounted
  gen,          \* fetchGenerationRef
  fetches,      \* getIstioConfigDetail requests without an answer
  details,      \* the object of istioObjectDetails, and of the editor's text
  loaded,       \* the generation of the answer that set details
  isModified,   \* the dirty flag
  typedAt,      \* the route at the last change of the editor
  yamlErrors,   \* yamlValidations has markers
  failed,       \* isRemoved and error, which are set together
  modal,        \* modalType while showModal
  pendingLeave, \* pendingLeaveUrlRef is set
  blocked,      \* state of useBlocker: {} or the set of its location
  calls         \* updateIstioConfigDetail and deleteIstioConfigDetail calls

page == <<route, gen, fetches, details, loaded, isModified, typedAt, yamlErrors,
          failed, modal, pendingLeave, blocked>>
vars == <<parentKiosk, page, calls>>

Routes == Configs \cup {None}
Fetch == [gen : 1..MaxFetches, of : Configs]

\* A save: the route it patches, the object its text was loaded from and the
\* route that text was typed under.  gone: the page that sent it is unmounted.
Call == [kind : {"save", "delete"}, to : Configs, of : Routes, typedAt : Routes,
         gone : BOOLEAN]

\* Types of the state; a page that is not mounted keeps no state at all.
TypeOK ==
  /\ parentKiosk \in BOOLEAN /\ route \in Routes /\ gen \in 0..MaxFetches
  /\ fetches \subseteq Fetch /\ details \in Routes /\ loaded \in 0..MaxFetches
  /\ isModified \in BOOLEAN /\ typedAt \in Routes /\ yamlErrors \in BOOLEAN
  /\ failed \in BOOLEAN /\ modal \in {"none", "leave", "reload"}
  /\ pendingLeave \in BOOLEAN /\ blocked \in SUBSET Routes
  /\ Cardinality(blocked) <= 1 /\ calls \subseteq Call
  /\ route = None => /\ fetches = {} /\ ~isModified /\ modal = "none"
                     /\ \A c \in calls : c.gone

----------------------------------------------------------------------------
\* State of the page, as one record, so that a handler can be written as the
\* composition of the state changes it makes.
Page == [route |-> route, gen |-> gen, fetches |-> fetches, details |-> details,
         loaded |-> loaded, isModified |-> isModified, typedAt |-> typedAt,
         yamlErrors |-> yamlErrors, failed |-> failed, modal |-> modal,
         pendingLeave |-> pendingLeave, blocked |-> blocked]

Become(p) ==
  /\ route' = p.route /\ gen' = p.gen /\ fetches' = p.fetches
  /\ details' = p.details /\ loaded' = p.loaded /\ isModified' = p.isModified
  /\ typedAt' = p.typedAt /\ yamlErrors' = p.yamlErrors /\ failed' = p.failed
  /\ modal' = p.modal /\ pendingLeave' = p.pendingLeave /\ blocked' = p.blocked

InitialPage ==
  [route |-> None, gen |-> 0, fetches |-> {}, details |-> None, loaded |-> 0,
   isModified |-> FALSE, typedAt |-> None, yamlErrors |-> FALSE,
   failed |-> FALSE, modal |-> "none", pendingLeave |-> FALSE, blocked |-> {}]

ClearNothing(p) == p

ClearEditorDirtyState(p) ==
  [p EXCEPT !.isModified = FALSE, !.yamlErrors = FALSE, !.typedAt = None]

FetchIstioObjectDetails(p, c) ==
  [p EXCEPT !.gen = @ + 1, !.fetches = @ \cup {[gen |-> p.gen + 1, of |-> c]}]

ArriveKeepingState(p, t) ==
  IF t \in {None, p.route} THEN [p EXCEPT !.route = t, !.blocked = {}]
  ELSE FetchIstioObjectDetails([p EXCEPT !.route = t, !.blocked = {}], t)

\* The router shows t: another route unmounts the page, another object makes
\* the effect on istioConfigId fetch it into the same instance.
Arrive(p, t) ==
  CASE t = None -> InitialPage
    [] t # None /\ t = p.route -> [p EXCEPT !.blocked = {}]
    [] OTHER -> FetchIstioObjectDetails([p EXCEPT !.route = t, !.blocked = {}], t)

BlockCancelOnly(p, t) == ~parentKiosk /\ p.isModified /\ t = None /\ p.pendingLeave

ShouldBlock(p, t) == ~parentKiosk /\ p.isModified /\ t # p.route

\* A navigation through the router: blocked, and the effect on the blocker
\* asks, or done.  An open reload dialog stays.
Navigate(p, t) ==
  IF ShouldBlock(p, t)
  THEN [p EXCEPT !.blocked = {t}, !.modal = IF @ = "reload" THEN @ ELSE "leave"]
  ELSE Arrive(p, t)

ProceedNever(p) == p

\* The same effect once the dirty state was cleared behind a blocked navigation.
ProceedIfClean(p) ==
  IF p.isModified \/ p.blocked = {}
  THEN p ELSE Arrive(p, CHOOSE t \in p.blocked : TRUE)

\* A handler leaves the page as p and the calls rest under way.  Calls outlive
\* the page that made them.
Settle(p, rest) ==
  /\ Become(p)
  /\ calls' = IF p.route = None THEN {[c EXCEPT !.gone = TRUE] : c \in rest} ELSE rest
  /\ UNCHANGED parentKiosk

----------------------------------------------------------------------------
\* Another page links to an object: a new instance fetches it on mount.
Open(c) ==
  /\ route = None /\ MaxFetches > 0
  /\ Settle(FetchIstioObjectDetails([InitialPage EXCEPT !.route = c], c), calls)

\* A link of the page, or the browser's back button.  In a parent kiosk the
\* parent owns navigation: it only replaces the page.
Leave(t) ==
  /\ route # None /\ t # route
  /\ parentKiosk => t = None
  /\ gen < MaxFetches
  /\ Settle(Navigate(Page, t), calls)

FetchedAny(f) ==
  ProceedIfClean(ClearEditorDirtyState(
    [Page EXCEPT !.fetches = @ \ {f}, !.details = f.of, !.loaded = f.gen]))

\* Answer of getIstioConfigDetail; one that is not the newest is ignored.
Fetched(f) ==
  LET p == [Page EXCEPT !.fetches = @ \ {f}] IN
  IF f.gen # gen THEN p
  ELSE ProceedIfClean(ClearEditorDirtyState(
         [p EXCEPT !.details = f.of, !.loaded = f.gen]))

FetchAnswered(f) ==
  /\ f \in fetches
  /\ f.gen = gen /\ blocked # {} => gen < MaxFetches
  /\ Settle(Fetched(f), calls)

FetchFailed(f) ==
  /\ f \in fetches
  /\ Settle([Page EXCEPT !.fetches = @ \ {f}, !.failed = @ \/ f.gen = gen], calls)

----------------------------------------------------------------------------
\* The user works in the page while no dialog covers it, with the editor that
\* shows the last details loaded; an error replaces the editor.
AtWork == route # None /\ modal = "none" /\ ~failed
EditorShown == AtWork /\ details # None

\* handleEditorChange, with a text that is valid YAML or not.
Type(err) ==
  /\ EditorShown
  /\ Settle([Page EXCEPT !.isModified = TRUE, !.typedAt = route, !.yamlErrors = err],
            calls)

\* handleUpdate sends the difference between the text and the details loaded
\* to the object of the route.
HandleUpdate ==
  /\ EditorShown /\ isModified /\ ~yamlErrors
  /\ Cardinality(calls) < MaxCalls
  /\ Settle(Page, calls \cup {[kind |-> "save", to |-> route, of |-> details,
                               typedAt |-> typedAt, gone |-> FALSE]})

\* The save's continuation fetches again, with the istioConfigId of the render
\* in which Save was clicked.
UpdateAnswered(c) ==
  /\ c \in calls /\ c.kind = "save"
  /\ ~c.gone => gen < MaxFetches
  /\ Settle(IF c.gone THEN Page ELSE FetchIstioObjectDetails(Page, c.to), calls \ {c})

\* A rejected save: setYamlValidations with an annotation and no marker.
UpdateFailed(c) ==
  /\ c \in calls /\ c.kind = "save"
  /\ Settle([Page EXCEPT !.yamlErrors = @ /\ c.gone], calls \ {c})

HandleDelete ==
  /\ EditorShown /\ Cardinality(calls) < MaxCalls
  /\ Settle(Page, calls \cup {[kind |-> "delete", to |-> route, of |-> details,
                               typedAt |-> None, gone |-> FALSE]})

\* navigateToList(true), also after the user went on to another object or page.
DeleteAnswered(c) ==
  /\ c \in calls /\ c.kind = "delete"
  /\ Settle(IF c.gone THEN Navigate(Page, None)
            ELSE Arrive(ClearEditorDirtyState(Page), None), calls \ {c})

DeleteFailed(c) ==
  /\ c \in calls /\ c.kind = "delete"
  /\ Settle(Page, calls \ {c})

\* handleCancel: navigateToList, which asks when there is something to lose.
HandleCancel ==
  /\ AtWork
  /\ Settle(IF isModified /\ ~parentKiosk
            THEN [Page EXCEPT !.pendingLeave = TRUE, !.modal = "leave"]
            ELSE Arrive(Page, None), calls)

\* handleRefresh: the Reload button.
HandleRefresh ==
  /\ AtWork /\ gen < MaxFetches
  /\ Settle(IF isModified /\ ~parentKiosk THEN [Page EXCEPT !.modal = "reload"]
            ELSE FetchIstioObjectDetails(Page, route), calls)

----------------------------------------------------------------------------
\* handleConfirm.  Leave clears the dirty state before it goes on, to the
\* blocked location if there is one, else to the list.
Confirmed ==
  LET closed == [Page EXCEPT !.modal = "none", !.pendingLeave = FALSE] IN
  IF modal = "reload"
  THEN FetchIstioObjectDetails([closed EXCEPT !.blocked = {}], route)
  ELSE LET clean == ClearEditorDirtyState(closed) IN
       CASE blocked # {} -> Arrive(clean, CHOOSE t \in blocked : TRUE)
         [] blocked = {} /\ pendingLeave -> Arrive(clean, None)
         [] OTHER -> clean

HandleConfirm ==
  /\ modal # "none" /\ gen < MaxFetches
  /\ Settle(Confirmed, calls)

\* handleModalClose.
Closed ==
  IF modal = "reload" /\ (blocked # {} \/ pendingLeave)
  THEN [Page EXCEPT !.modal = "leave"]
  ELSE [Page EXCEPT !.modal = "none", !.pendingLeave = FALSE, !.blocked = {}]

HandleModalClose ==
  /\ modal # "none"
  /\ Settle(Closed, calls)

----------------------------------------------------------------------------
Init ==
  /\ parentKiosk \in BOOLEAN
  /\ route = None /\ gen = 0 /\ fetches = {} /\ details = None /\ loaded = 0
  /\ isModified = FALSE /\ typedAt = None /\ yamlErrors = FALSE
  /\ failed = FALSE /\ modal = "none" /\ pendingLeave = FALSE /\ blocked = {}
  /\ calls = {}

Next ==
  \/ \E c \in Configs : Open(c)
  \/ \E t \in Routes : Leave(t)
  \/ \E f \in fetches : FetchAnswered(f) \/ FetchFailed(f)
  \/ \E err \in BOOLEAN : Type(err)
  \/ HandleUpdate \/ HandleDelete
  \/ \E c \in calls : \/ UpdateAnswered(c) \/ UpdateFailed(c)
                      \/ DeleteAnswered(c) \/ DeleteFailed(c)
  \/ HandleCancel \/ HandleRefresh \/ HandleConfirm \/ HandleModalClose

Spec == Init /\ [][Next]_vars

----------------------------------------------------------------------------
\* Answers out of order: once the newest request is answered, the editor holds
\* that answer or the page shows an error, whatever arrives late
\* (fetchGenerationRef, "Ignore stale responses when the user navigated to
\* another config or re-fetched").
NewestAnswerShown ==
  route # None /\ ~failed /\ (\A f \in fetches : f.gen # gen) => loaded = gen

\* A navigation that waits for the user has its dialog: the fetch that clears
\* the dirty state, the reload dialog on top and the Cancel button never leave
\* a blocked navigation, or a pending leave, behind that nobody asks about.
WaitingLeaveIsAsked ==
  /\ blocked # {} => isModified
  /\ blocked # {} \/ pendingLeave => modal # "none"

\* Edits are not lost by leaving without a dialog: with unsaved changes the
\* route changes only from a dialog, or when a delete the user asked for is
\* answered.  In a parent kiosk the parent asks.
LeavingIsConfirmed ==
  [][isModified /\ ~parentKiosk /\ route' # route
       => modal # "none" \/ \E c \in calls : c.kind = "delete" /\ c \notin calls']_vars

\* A text typed for one object is never sent to another: the dirty state is
\* cleared before the instance shows the next object ("Clear dirty before
\* leave so the reused route instance cannot PATCH stale YAML").
PatchTypedForTarget ==
  \A c \in calls : c.kind = "save" => c.typedAt = c.to

\* No PATCH is made from the YAML of another object: what is sent to an object
\* is the difference to the details loaded for it.
NoStalePatch ==
  \A c \in calls : c.kind = "save" => c.of = c.to

=============================================================================
