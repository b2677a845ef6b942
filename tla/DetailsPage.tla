----------------------------- MODULE DetailsPage -----------------------------
(***************************************************************************)
(* The details pages of workloads, applications and services               *)
(* (pages/WorkloadDetails, AppDetails and ServiceDetails).  One instance    *)
(* follows the user from one resource, cluster or tab to the next.  The    *)
(* details are asked for in componentDidUpdate and their promises are not  *)
(* registered anywhere: every answer is applied, in the order of arrival,  *)
(* and only then does the state take over the cluster and the tab of the   *)
(* URL - so every render in between asks again.  With the details of a     *)
(* service come its gateways, whose promise is registered, and its peer    *)
(* authentications, whose promise is not; their answers render too.        *)
(*                                                                         *)
(* The answer to a request and the renders of its state changes, which     *)
(* React 17 makes one by one, are one step.                                *)
(***************************************************************************)
EXTENDS Naturals, FiniteSets, Bags, BagsExt

CONSTANTS
  Resources,    \* namespace and name in the props
  Clusters,
  None,
  Tabs,         \* "info", "logs" and others
  Links,        \* clusters and tabs of the links to a page
  MaxChanges,   \* things the user and the clock do (bound)
  MaxInFlight   \* requests for details beside which gateways and peer
                \* authentications still make the page ask again (bound)

\* Where the user is: with no cluster in the URL the one of the state is used.
Place == [cluster : Clusters \cup {None}, tab : Tabs]

ASSUME DetailsConstants ==
  /\ MaxChanges \in Nat /\ MaxInFlight \in Nat
  /\ None \notin Clusters /\ Links \subseteq Place

VARIABLES
  kind,        \* which of the three pages
  mounted,
  resource,    \* this.props: the resource of the route
  url,         \* cluster and tab of the URL
  state,       \* this.state: cluster and tab
  shown,       \* this.state has details
  error,       \* this.state.error is set
  health,      \* redux: aiChat.resourceHealth
  requests,    \* bag of requests for details without an answer
  gateways,    \* a request for gateways is awaited
  peers,       \* requests for peer authentications without an answer
  changes

vars == <<kind, mounted, resource, url, state, shown, error, health, requests,
          gateways, peers, changes>>

Kinds == {"workload", "app", "service"}

\* sets: the continuation that takes the cluster and the tab over, which the
\* requests of componentDidMount and of a save do not have.
Request == [of : Resources, at : Place, sets : BOOLEAN]
Health == [of : Resources, cluster : Clusters \cup {None}, sets : BOOLEAN]

\* Types.
TypeOK ==
  /\ kind \in Kinds /\ mounted \in BOOLEAN /\ resource \in Resources
  /\ url \in Place /\ state \in Place
  /\ shown \in BOOLEAN /\ error \in BOOLEAN
  /\ health \in {{}} \cup {{h} : h \in Health}
  /\ IsABag(requests) /\ BagToSet(requests) \subseteq Request
  /\ gateways \in BOOLEAN /\ peers \in Nat
  /\ changes \in 0..MaxChanges

----------------------------------------------------------------------------
Page == [state |-> state, requests |-> requests, gateways |-> gateways, peers |-> peers]

Shows(p) ==
  /\ state' = p.state /\ requests' = p.requests
  /\ gateways' = p.gateways /\ peers' = p.peers

\* fetchWorkload, fetchApp and fetchService ask for the resource of the props.
\* A service's gateways asked for before are cancelled.
Fetch(p, at, sets) ==
  LET asked == [p EXCEPT !.requests = BagAdd(@, [of |-> resource', at |-> at, sets |-> sets])]
  IN  IF kind = "service" THEN [asked EXCEPT !.gateways = TRUE, !.peers = @ + 1] ELSE asked

\* The tabs that show the details themselves.
FetchTabs == IF kind = "workload" THEN {"info", "logs"} ELSE {"info"}

Cluster(p) == IF url'.cluster = None THEN p.state.cluster ELSE url'.cluster

\* componentDidUpdate, for a page p; must: another resource, a refreshTick or
\* another duration in the props.
DidUpdateTabOnly(p, must) ==
  IF must \/ (url'.tab # p.state.tab /\ url'.tab \in FetchTabs)
  THEN Fetch(p, [cluster |-> Cluster(p), tab |-> url'.tab], TRUE)
  ELSE [p EXCEPT !.state.tab = url'.tab]

DidUpdate(p, must) ==
  LET mustFetch == must \/ Cluster(p) # p.state.cluster IN
  IF mustFetch \/ (url'.tab # p.state.tab /\ url'.tab \in FetchTabs)
  THEN Fetch(p, [cluster |-> Cluster(p), tab |-> url'.tab], TRUE)
  ELSE [p EXCEPT !.state.tab = url'.tab]

\* The continuation: setState({ currentTab, cluster }).
TakeOver(p, q) == [p EXCEPT !.state = q.at]

RenderedOnce(q, n) == DidUpdate([Page EXCEPT !.requests = BagRemove(@, q)], FALSE)

\* The renders that an answer to q causes: renders of the details or of the
\* error, then the one of the continuation.
Rendered(q, n) ==
  LET p0 == [Page EXCEPT !.requests = BagRemove(@, q)]
      p1 == DidUpdate(p0, FALSE)
      p2 == IF n = 2 THEN DidUpdate(p1, FALSE) ELSE p1
  IN  IF q.sets THEN DidUpdate(TakeOver(p2, q), FALSE) ELSE p2

----------------------------------------------------------------------------
PublishedAsAsked(q) == [of |-> q.of, cluster |-> q.at.cluster, sets |-> q.sets]

\* publishChatResourceHealth: the health of q's answer is filed under the
\* cluster of the request and the resource that the props have by then.
Published(q) == [of |-> resource, cluster |-> q.at.cluster, sets |-> q.sets]

\* The answer to fetchWorkload, fetchApp or fetchService.  A workload of a
\* service also sets the filter of the waypoint tab, with a render of its own.
Answered(q, n) ==
  /\ BagIn(q, requests)
  /\ n = 2 => kind = "workload"
  /\ UNCHANGED <<kind, mounted, resource, url, error, changes>>
  /\ health' = {Published(q)}
  /\ IF mounted
     THEN Shows(Rendered(q, n)) /\ shown' = TRUE
     ELSE Shows([Page EXCEPT !.requests = BagRemove(@, q)]) /\ UNCHANGED shown

Failed(q) ==
  /\ BagIn(q, requests)
  /\ UNCHANGED <<kind, mounted, resource, url, shown, changes>>
  /\ health' = {}
  /\ IF mounted
     THEN Shows(Rendered(q, 1)) /\ error' = TRUE
     ELSE Shows([Page EXCEPT !.requests = BagRemove(@, q)]) /\ UNCHANGED error

\* Renders of a service page for something else than its details.
RendersAside(p) ==
  /\ p.requests # requests => BagCardinality(requests) < MaxInFlight
  /\ Shows(p)

\* Gateways: two state changes, or an error.
GatewaysAnswered ==
  /\ gateways
  /\ UNCHANGED <<kind, mounted, resource, url, shown, error, health, changes>>
  /\ LET p == [Page EXCEPT !.gateways = FALSE] IN
     \/ RendersAside(DidUpdate(DidUpdate(p, FALSE), FALSE))
     \/ Shows(p)

\* Peer authentications: one state change, or an error; nothing on a page that
\* is gone.
PeersAnswered ==
  /\ peers > 0
  /\ UNCHANGED <<kind, mounted, resource, url, shown, error, health, changes>>
  /\ LET p == [Page EXCEPT !.peers = @ - 1] IN
     \/ mounted /\ RendersAside(DidUpdate(p, FALSE))
     \/ Shows(p)

----------------------------------------------------------------------------
\* A link to another resource, cluster or tab, with the page staying mounted.
Navigate(r, u) ==
  /\ mounted /\ changes < MaxChanges
  /\ r # resource \/ u # url
  /\ changes' = changes + 1
  /\ resource' = r /\ url' = u
  /\ Shows(DidUpdate(Page, r # resource))
  /\ UNCHANGED <<kind, mounted, shown, error, health>>

\* A tab of the page, which is in the state at once.
SelectTab(tab) ==
  /\ mounted /\ changes < MaxChanges
  /\ IF kind = "service" THEN ~error ELSE shown
  /\ tab # state.tab
  /\ changes' = changes + 1
  /\ url' = [url EXCEPT !.tab = tab]
  /\ UNCHANGED <<kind, mounted, resource, shown, error, health>>
  /\ Shows(DidUpdate([Page EXCEPT !.state.tab = tab], FALSE))

\* Another duration, or a refreshTick.
Refresh ==
  /\ mounted /\ changes < MaxChanges
  /\ changes' = changes + 1
  /\ UNCHANGED <<kind, mounted, resource, url, shown, error, health>>
  /\ Shows(DidUpdate(Page, TRUE))

\* After a wizard or a change of labels the details are asked for again, in the
\* cluster of the state.
Refetch ==
  /\ mounted /\ changes < MaxChanges
  /\ shown /\ kind # "app"
  /\ changes' = changes + 1
  /\ UNCHANGED <<kind, mounted, resource, url, shown, error, health>>
  /\ Shows(Fetch(Page, state, FALSE))

\* Only the gateways are cancelled.
Unmount ==
  /\ mounted
  /\ mounted' = FALSE
  /\ health' = {} /\ gateways' = FALSE
  /\ UNCHANGED <<kind, resource, url, state, shown, error, requests, peers, changes>>

\* componentDidMount asks with the state of the constructor.
Init ==
  /\ kind \in Kinds /\ mounted = TRUE /\ resource \in Resources
  /\ url \in Links /\ state = url
  /\ shown = FALSE /\ error = FALSE /\ health = {}
  /\ requests = SetToBag({[of |-> resource, at |-> url, sets |-> FALSE]})
  /\ gateways = (kind = "service")
  /\ peers = IF kind = "service" THEN 1 ELSE 0
  /\ changes = 0

Next ==
  \/ \E q \in BagToSet(requests) : \/ \E n \in 1..2 : Answered(q, n)
                                   \/ Failed(q)
  \/ GatewaysAnswered \/ PeersAnswered
  \/ \E r \in Resources, u \in Links : Navigate(r, u)
  \/ \E tab \in Tabs : SelectTab(tab)
  \/ Refresh \/ Refetch \/ Unmount

Spec == Init /\ [][Next]_vars

\* Requests are answered, with what they ask for or with an error, however
\* many others are answered before.
DetailsArrive == \E q \in BagToSet(requests) : (\E n \in 1..2 : Answered(q, n)) \/ Failed(q)
FairSpec ==
  /\ Spec
  /\ WF_vars(DetailsArrive) /\ WF_vars(GatewaysAnswered \/ PeersAnswered)

----------------------------------------------------------------------------
Quiet == requests = EmptyBag

\* "when linking from one cluster's workload to another cluster's workload,
\* cluster in state should be changed": whatever requests overlap and whatever
\* order they are answered in, a page that waits for no details has the tab and
\* the cluster of the URL.
QuietFollowsUrl ==
  mounted /\ Quiet => /\ state.tab = url.tab
                      /\ url.cluster # None => state.cluster = url.cluster

\* What the chat is told the page is about (publishChatResourceHealth): once no
\* details are awaited, the resource of the route, though answers to requests
\* for earlier resources came in between or last; and the cluster of the state
\* unless the answer was to the request of the mount or of a save.  The figures
\* under that name are those of the answer, which may be another resource's.
ChatNamesPage ==
  mounted => \A h \in health : /\ Quiet => h.of = resource
                               /\ h.sets => h.cluster = state.cluster

\* Once the user does nothing more, requests end.  Renders that ask again while
\* details are awaited feed themselves on the service page, through the answers
\* for gateways and peer authentications, but only until details asked for at
\* the place of the URL arrive.
FetchingEnds == <>[](Quiet /\ ~gateways /\ peers = 0)

=============================================================================
