------------------------- MODULE DetailsPageProofs -------------------------
(***************************************************************************)
(* The details pages, for any resources, clusters and tabs and any number  *)
(* of changes and overtaking answers.  The argument is that every step of  *)
(* a page that is mounted ends with a componentDidUpdate, which either     *)
(* asks again or finds the state where the URL is, and that another        *)
(* resource always asks again.                                             *)
(***************************************************************************)
EXTENDS DetailsPage, TLAPS

PageFields == {"state", "requests", "gateways", "peers"}

\* A page p of the right types.
Typed(p) ==
  /\ DOMAIN p = PageFields
  /\ p.state \in Place
  /\ \A q \in DOMAIN p.requests : q \in Request

\* A page waits for details, or its state is the one of the URL u.
Follows(p, u) ==
  \/ DOMAIN p.requests # {}
  \/ /\ p.state.tab = u.tab
     /\ u.cluster # None => p.state.cluster = u.cluster

\* What the chat was told is about the resource of the route, unless an answer
\* is still to come.
ChatFollows ==
  \A h \in health : /\ h.of = resource \/ DOMAIN requests # {}
                    /\ h.sets => h.cluster = state.cluster

DetailsInv ==
  /\ resource \in Resources /\ url \in Place /\ Typed(Page)
  /\ mounted \in BOOLEAN
  /\ mounted => Follows(Page, url) /\ ChatFollows

-----------------------------------------------------------------------------
LEMMA BagAddDomain ==
  ASSUME NEW B, NEW x
  PROVE  DOMAIN BagAdd(B, x) = DOMAIN B \cup {x}
BY DEF BagAdd

LEMMA BagRemoveDomain ==
  ASSUME NEW B, NEW x
  PROVE  DOMAIN BagRemove(B, x) \subseteq DOMAIN B
BY DEF BagRemove

\* A request more, with what comes with it on the service page.
LEMMA FetchAsks ==
  ASSUME NEW p, Typed(p), NEW at \in Place, NEW sets \in BOOLEAN, resource' \in Resources
  PROVE  LET g == Fetch(p, at, sets) IN
         Typed(g) /\ g.state = p.state /\ DOMAIN g.requests # {}
<1>. DEFINE q == [of |-> resource', at |-> at, sets |-> sets]
            asked == [p EXCEPT !.requests = BagAdd(@, q)]
            g == Fetch(p, at, sets)
<1>1. q \in Request
  BY DEF Request
<1>2. g = IF kind = "service" THEN [asked EXCEPT !.gateways = TRUE, !.peers = @ + 1]
          ELSE asked
  BY DEF Fetch
<1>. HIDE DEF q, g
<1>3. /\ DOMAIN asked = PageFields /\ asked.state = p.state
      /\ asked.requests = BagAdd(p.requests, q)
  BY DEF Typed, PageFields
<1>. HIDE DEF asked
<1>4. DOMAIN g = PageFields /\ g.state = p.state /\ g.requests = BagAdd(p.requests, q)
  BY <1>2, <1>3 DEF PageFields
<1>5. DOMAIN g.requests = DOMAIN p.requests \cup {q}
  BY <1>4, BagAddDomain
<1>. QED BY <1>1, <1>4, <1>5 DEF Typed, g

\* componentDidUpdate asks again unless cluster and tab are those of the URL; it
\* never takes a request back nor changes the cluster.
LEMMA DidUpdateFollows ==
  ASSUME NEW p, Typed(p), NEW must \in BOOLEAN, url' \in Place, resource' \in Resources
  PROVE  LET g == DidUpdate(p, must) IN
         /\ Typed(g) /\ Follows(g, url')
         /\ g.state.cluster = p.state.cluster
         /\ must \/ DOMAIN p.requests # {} => DOMAIN g.requests # {}
<1>. DEFINE at == [cluster |-> Cluster(p), tab |-> url'.tab]
            asks == \/ must \/ Cluster(p) # p.state.cluster
                    \/ url'.tab # p.state.tab /\ url'.tab \in FetchTabs
            g == DidUpdate(p, must)
<1>1. at \in Place
  BY DEF Cluster, Typed, Place
<1>2. CASE asks
  <2>1. g = Fetch(p, at, TRUE)
    BY <1>2 DEF DidUpdate
  <2>. HIDE DEF g, at
  <2>2. Typed(g) /\ g.state = p.state /\ DOMAIN g.requests # {}
    BY <1>1, <2>1, FetchAsks
  <2>. QED BY <2>2 DEF Follows, g
<1>3. CASE ~asks
  <2>1. g = [p EXCEPT !.state.tab = url'.tab]
    BY <1>3 DEF DidUpdate
  <2>2. /\ g.state = [p.state EXCEPT !.tab = url'.tab]
        /\ g.requests = p.requests
        /\ DOMAIN g = PageFields
    BY <2>1 DEF Typed, PageFields
  <2>3. url'.tab \in Tabs
    BY DEF Place
  <2>4. /\ [p.state EXCEPT !.tab = url'.tab] \in Place
        /\ [p.state EXCEPT !.tab = url'.tab].tab = url'.tab
        /\ [p.state EXCEPT !.tab = url'.tab].cluster = p.state.cluster
    BY <2>3 DEF Typed, Place
  <2>5. url'.cluster # None => p.state.cluster = url'.cluster
    BY <1>3 DEF Cluster
  <2>. HIDE DEF g
  <2>6. Typed(g) /\ Follows(g, url') /\ g.state.cluster = p.state.cluster
    BY <2>2, <2>4, <2>5 DEF Typed, Follows
  <2>. QED BY <1>3, <2>2, <2>6 DEF g
<1>. QED BY <1>2, <1>3

LEMMA PageParts ==
  /\ DOMAIN Page = PageFields /\ Page.state = state /\ Page.requests = requests
  /\ Page.gateways = gateways /\ Page.peers = peers
BY DEF Page, PageFields

LEMMA Removed ==
  ASSUME DetailsInv, NEW q
  PROVE  Typed([Page EXCEPT !.requests = BagRemove(@, q)])
<1>. DEFINE p == [Page EXCEPT !.requests = BagRemove(@, q)]
<1>1. DOMAIN p = PageFields /\ p.state = state /\ p.requests = BagRemove(requests, q)
  BY PageParts DEF PageFields
<1>. HIDE DEF p
<1>2. \A x \in DOMAIN p.requests : x \in DOMAIN requests
  BY <1>1, BagRemoveDomain
<1>3. Typed(p)
  BY <1>1, <1>2, PageParts DEF DetailsInv, Typed
<1>. QED BY <1>3 DEF p

\* The renders of an answer.
LEMMA RenderedFollows ==
  ASSUME DetailsInv, NEW q \in DOMAIN requests, NEW n, url' = url, resource' = resource
  PROVE  LET g == Rendered(q, n) IN
         /\ Typed(g) /\ Follows(g, url')
         /\ q.sets => g.state.cluster = q.at.cluster
<1>. DEFINE p0 == [Page EXCEPT !.requests = BagRemove(@, q)]
            p1 == DidUpdate(p0, FALSE)
            p2 == IF n = 2 THEN DidUpdate(p1, FALSE) ELSE p1
            p3 == TakeOver(p2, q)
            p4 == DidUpdate(p3, FALSE)
            g == Rendered(q, n)
<1>1. g = IF q.sets THEN p4 ELSE p2
  BY DEF Rendered
<1>. HIDE DEF g
<1>2. url' \in Place /\ resource' \in Resources /\ q \in Request
  BY PageParts DEF DetailsInv, Typed
<1>3. Typed(p0)
  BY Removed
<1>. HIDE DEF p0
<1>4. Typed(p1) /\ Follows(p1, url')
  BY <1>2, <1>3, DidUpdateFollows
<1>. HIDE DEF p1
<1>5. Typed(p2) /\ Follows(p2, url')
  BY <1>2, <1>4, DidUpdateFollows
<1>. HIDE DEF p2
<1>6. Typed(p3) /\ p3.state = q.at
  BY <1>2, <1>5 DEF TakeOver, Typed, Request, PageFields
<1>. HIDE DEF p3
<1>7. Typed(p4) /\ Follows(p4, url') /\ p4.state.cluster = p3.state.cluster
  BY <1>2, <1>6, DidUpdateFollows
<1>. HIDE DEF p4
<1>8. Typed(g) /\ Follows(g, url') /\ (q.sets => g.state.cluster = q.at.cluster)
  BY <1>1, <1>5, <1>6, <1>7
<1>. QED BY <1>8 DEF g

\* The page becomes p.
LEMMA ShowsFollows ==
  ASSUME NEW p, Typed(p), Shows(p)
  PROVE  /\ Typed(Page)' /\ state' = p.state /\ requests' = p.requests
         /\ Follows(p, url') => Follows(Page, url)'
<1>1. state' = p.state /\ requests' = p.requests
  BY DEF Shows
<1>2. DOMAIN Page' = PageFields /\ Page'.state = p.state /\ Page'.requests = p.requests
  BY <1>1 DEF Page, PageFields
<1>. QED BY <1>1, <1>2 DEF Typed, Follows

\* A render for nothing but the URL, of a page that is p by then.
LEMMA RenderKeeps ==
  ASSUME DetailsInv, NEW p, Typed(p), NEW must \in BOOLEAN,
         DOMAIN requests # {} => DOMAIN p.requests # {},
         p.state.cluster = state.cluster,
         url' \in Place, resource' \in Resources, mounted' = mounted, health' = health,
         must \/ resource' = resource, Shows(DidUpdate(p, must))
  PROVE  DetailsInv'
<1>. DEFINE g == DidUpdate(p, must)
<1>1. /\ Typed(g) /\ Follows(g, url') /\ g.state.cluster = state.cluster
      /\ must \/ DOMAIN requests # {} => DOMAIN g.requests # {}
  BY DidUpdateFollows
<1>2. Shows(g)
  OBVIOUS
<1>. HIDE DEF g
<1>3. /\ Typed(Page)' /\ Follows(Page, url)' /\ state' = g.state /\ requests' = g.requests
  BY <1>1, <1>2, ShowsFollows
<1>4. mounted => ChatFollows'
  BY <1>1, <1>3 DEF DetailsInv, ChatFollows
<1>. QED BY <1>3, <1>4 DEF DetailsInv

\* A step that changes neither the state nor the requests for details.
LEMMA AsideKeeps ==
  ASSUME DetailsInv, UNCHANGED <<mounted, resource, url, state, requests, health>>
  PROVE  DetailsInv'
<1>1. Typed(Page)'
  BY DEF DetailsInv, Typed, Page, PageFields
<1>2. mounted => Follows(Page, url)'
  BY DEF DetailsInv, Follows, Page
<1>. QED BY <1>1, <1>2 DEF DetailsInv, ChatFollows

-----------------------------------------------------------------------------
LEMMA DetailsStart == Init => DetailsInv
<1>. SUFFICES ASSUME Init PROVE DetailsInv
  OBVIOUS
<1>. DEFINE q == [of |-> resource, at |-> url, sets |-> FALSE]
<1>0. url \in Place
  BY DetailsConstants DEF Init
<1>1. DOMAIN requests = {q}
  BY DEF Init, SetToBag
<1>2. q \in Request
  BY <1>0 DEF Init, Request
<1>. HIDE DEF q
<1>3. Typed(Page)
  BY <1>0, <1>1, <1>2, PageParts DEF Init, Typed
<1>4. Follows(Page, url)
  BY <1>1, PageParts DEF Follows
<1>. QED BY <1>0, <1>3, <1>4 DEF Init, DetailsInv, ChatFollows

\* An answer for details, or an error, which is published or takes the health back.
LEMMA AnswerKeeps ==
  ASSUME DetailsInv, NEW q \in BagToSet(requests), NEW n,
         UNCHANGED <<mounted, resource, url>>, health' = {Published(q)} \/ health' = {},
         IF mounted THEN Shows(Rendered(q, n))
                    ELSE Shows([Page EXCEPT !.requests = BagRemove(@, q)])
  PROVE  DetailsInv'
<1>1. q \in DOMAIN requests
  BY DEF BagToSet
<1>2. CASE mounted
  <2>. DEFINE g == Rendered(q, n)
  <2>1. /\ Typed(g) /\ Follows(g, url')
        /\ q.sets => g.state.cluster = q.at.cluster
    BY <1>1, RenderedFollows
  <2>2. Shows(g)
    BY <1>2
  <2>. HIDE DEF g
  <2>3. Typed(Page)' /\ Follows(Page, url)' /\ state' = g.state
    BY <2>1, <2>2, ShowsFollows
  <2>4. ChatFollows'
    BY <2>1, <2>3 DEF ChatFollows, Published
  <2>. QED BY <2>3, <2>4 DEF DetailsInv
<1>3. CASE ~mounted
  <2>. DEFINE p == [Page EXCEPT !.requests = BagRemove(@, q)]
  <2>1. Typed(p) /\ Shows(p)
    BY <1>3, Removed
  <2>. HIDE DEF p
  <2>2. Typed(Page)'
    BY <2>1, ShowsFollows
  <2>. QED BY <1>3, <2>2 DEF DetailsInv
<1>. QED BY <1>2, <1>3 DEF DetailsInv

LEMMA DetailsStep ==
  ASSUME DetailsInv, [Next]_vars
  PROVE  DetailsInv'
<1>. USE DEF DetailsInv
<1>1. ASSUME NEW q \in BagToSet(requests), NEW n, Answered(q, n) PROVE DetailsInv'
  <2>1. /\ UNCHANGED <<mounted, resource, url>> /\ health' = {Published(q)}
        /\ IF mounted THEN Shows(Rendered(q, n))
                      ELSE Shows([Page EXCEPT !.requests = BagRemove(@, q)])
    BY <1>1 DEF Answered
  <2>. HIDE DEF DetailsInv
  <2>. QED BY <2>1, AnswerKeeps
<1>2. ASSUME NEW q \in BagToSet(requests), Failed(q) PROVE DetailsInv'
  <2>1. /\ UNCHANGED <<mounted, resource, url>> /\ health' = {}
        /\ IF mounted THEN Shows(Rendered(q, 1))
                      ELSE Shows([Page EXCEPT !.requests = BagRemove(@, q)])
    BY <1>2 DEF Failed
  <2>. HIDE DEF DetailsInv
  <2>. QED BY <2>1, AnswerKeeps
<1>3. CASE GatewaysAnswered
  <2>. DEFINE p == [Page EXCEPT !.gateways = FALSE]
              p1 == DidUpdate(p, FALSE)
  <2>1. /\ UNCHANGED <<mounted, resource, url, health>>
        /\ Shows(DidUpdate(p1, FALSE)) \/ Shows(p)
    BY <1>3 DEF GatewaysAnswered, RendersAside
  <2>2. DOMAIN p = PageFields /\ p.state = state /\ p.requests = requests
    BY PageParts DEF PageFields
  <2>. HIDE DEF p, DetailsInv
  <2>3. Typed(p) /\ url' \in Place /\ resource' \in Resources
    BY <2>1, <2>2, PageParts DEF DetailsInv, Typed
  <2>4. /\ Typed(p1) /\ p1.state.cluster = state.cluster
        /\ DOMAIN requests # {} => DOMAIN p1.requests # {}
    BY <2>2, <2>3, DidUpdateFollows
  <2>. HIDE DEF p1
  <2>5. CASE Shows(DidUpdate(p1, FALSE))
    BY <2>1, <2>3, <2>4, <2>5, RenderKeeps
  <2>6. CASE Shows(p)
    BY <2>1, <2>2, <2>6, AsideKeeps DEF Shows
  <2>. QED BY <2>1, <2>5, <2>6
<1>4. CASE PeersAnswered
  <2>. DEFINE p == [Page EXCEPT !.peers = @ - 1]
  <2>1. /\ UNCHANGED <<mounted, resource, url, health>>
        /\ Shows(DidUpdate(p, FALSE)) \/ Shows(p)
    BY <1>4 DEF PeersAnswered, RendersAside
  <2>2. DOMAIN p = PageFields /\ p.state = state /\ p.requests = requests
    BY PageParts DEF PageFields
  <2>. HIDE DEF p, DetailsInv
  <2>3. Typed(p) /\ url' \in Place /\ resource' \in Resources
    BY <2>1, <2>2, PageParts DEF DetailsInv, Typed
  <2>4. CASE Shows(DidUpdate(p, FALSE))
    BY <2>1, <2>2, <2>3, <2>4, RenderKeeps
  <2>5. CASE Shows(p)
    BY <2>1, <2>2, <2>5, AsideKeeps DEF Shows
  <2>. QED BY <2>1, <2>4, <2>5
<1>5. ASSUME NEW r \in Resources, NEW u \in Links, Navigate(r, u) PROVE DetailsInv'
  <2>0. u \in Place
    BY DetailsConstants
  <2>1. /\ mounted' = mounted /\ health' = health /\ resource' = r /\ url' = u
        /\ Shows(DidUpdate(Page, r # resource))
    BY <1>5 DEF Navigate
  <2>2. Typed(Page) /\ Page.state = state /\ Page.requests = requests
    BY PageParts
  <2>. HIDE DEF DetailsInv
  <2>. QED BY <1>5, <2>0, <2>1, <2>2, RenderKeeps
<1>6. ASSUME NEW tab \in Tabs, SelectTab(tab) PROVE DetailsInv'
  <2>. DEFINE p == [Page EXCEPT !.state.tab = tab]
  <2>1. /\ UNCHANGED <<mounted, resource, health>> /\ url' = [url EXCEPT !.tab = tab]
        /\ Shows(DidUpdate(p, FALSE))
    BY <1>6 DEF SelectTab
  <2>2. /\ DOMAIN p = PageFields /\ p.requests = requests
        /\ p.state = [state EXCEPT !.tab = tab]
    BY PageParts DEF PageFields
  <2>3. state \in Place
    BY PageParts DEF Typed
  <2>4. url' \in Place /\ p.state \in Place /\ p.state.cluster = state.cluster
    BY <2>1, <2>2, <2>3 DEF Place
  <2>. HIDE DEF p, DetailsInv
  <2>5. Typed(p)
    BY <2>2, <2>4, PageParts DEF DetailsInv, Typed
  <2>6. resource' \in Resources
    BY <2>1 DEF DetailsInv
  <2>. QED BY <2>1, <2>2, <2>4, <2>5, <2>6, RenderKeeps
<1>7. CASE Refresh
  <2>1. /\ UNCHANGED <<mounted, resource, url, health>>
        /\ Shows(DidUpdate(Page, TRUE))
    BY <1>7 DEF Refresh
  <2>2. /\ Typed(Page) /\ Page.state = state /\ Page.requests = requests
        /\ url' \in Place /\ resource' \in Resources
    BY <2>1, PageParts
  <2>. HIDE DEF DetailsInv
  <2>. QED BY <2>1, <2>2, RenderKeeps
<1>8. CASE Refetch
  <2>. DEFINE g == Fetch(Page, state, FALSE)
  <2>1. UNCHANGED <<mounted, resource, url, health>> /\ Shows(g)
    BY <1>8 DEF Refetch
  <2>2. /\ Typed(Page) /\ Page.state = state /\ state \in Place
        /\ resource' \in Resources
    BY <2>1, PageParts DEF Typed
  <2>. HIDE DEF DetailsInv
  <2>3. Typed(g) /\ g.state = state /\ DOMAIN g.requests # {}
    BY <2>2, FetchAsks
  <2>. HIDE DEF g
  <2>4. /\ Typed(Page)' /\ Follows(Page, url)'
        /\ state' = state /\ DOMAIN requests' # {}
    BY <2>1, <2>3, ShowsFollows DEF Follows
  <2>. QED BY <2>1, <2>4 DEF DetailsInv, ChatFollows
<1>9. CASE Unmount
  <2>1. Typed(Page)'
    BY <1>9 DEF Unmount, Typed, Page, PageFields
  <2>. QED BY <1>9, <2>1 DEF Unmount
<1>10. CASE UNCHANGED vars
  BY <1>10, AsideKeeps DEF vars
<1>. QED BY <1>1, <1>2, <1>3, <1>4, <1>5, <1>6, <1>7, <1>8, <1>9, <1>10 DEF Next

LEMMA DetailsAlways == Spec => []DetailsInv
<1>1. DetailsInv /\ [Next]_vars => DetailsInv'
  BY DetailsStep
<1>. QED BY DetailsStart, <1>1, PTL DEF Spec

-----------------------------------------------------------------------------
\* However many requests overlap and whatever order they are answered in, a
\* details page that waits for no details has the cluster and the tab of the
\* URL.
THEOREM DetailsFollowUrl == Spec => []QuietFollowsUrl
<1>1. DetailsInv => QuietFollowsUrl
  <2>. SUFFICES ASSUME DetailsInv, mounted, Quiet
                PROVE  /\ state.tab = url.tab
                       /\ url.cluster # None => state.cluster = url.cluster
    BY DEF QuietFollowsUrl
  <2>1. DOMAIN requests = {}
    BY DEF Quiet, EmptyBag, SetToBag
  <2>. QED BY <2>1, PageParts DEF DetailsInv, Follows
<1>. QED BY DetailsAlways, <1>1, PTL

\* Once a page waits for no details, the chat was told its health under the name
\* of the resource of the route, whichever request was answered last: another
\* resource always asks again, and an answer is published under the props of
\* that moment.  The cluster is the one of the state.
THEOREM ChatNamesRoute == Spec => []ChatNamesPage
<1>1. DetailsInv => ChatNamesPage
  <2>1. Quiet => DOMAIN requests = {}
    BY DEF Quiet, EmptyBag, SetToBag
  <2>. QED BY <2>1 DEF DetailsInv, ChatFollows, ChatNamesPage
<1>. QED BY DetailsAlways, <1>1, PTL
=============================================================================
