------------------------------ MODULE ListPage ------------------------------
(***************************************************************************)
(* The list pages of the web console: applications, services and workloads *)
(* (pages/AppList, ServiceList and WorkloadList, one algorithm three       *)
(* times) and Istio objects (pages/IstioConfigList).  They fetch through a *)
(* PromisesRegistry, the first three on the refresh clock of RefreshHook.  *)
(*                                                                         *)
(* A row stands for what one cluster answered for a selection and a        *)
(* filter.  The sort and the columns live in the URL, filters and toggles  *)
(* in variables of their own too.  A list of column ids is the set of its  *)
(* pairs <<a, b>> where a is not after b, so its order counts.  An answer  *)
(* and the promise reactions and renders it starts are one step.           *)
(***************************************************************************)
EXTENDS RefreshHook

CONSTANTS
  Clusters,       \* serverConfig.clusters
  Selections,     \* non-empty values of activeNamespaces
  Filters,        \* filters and toggles
  Sorts,          \* sort fields and directions of the URL
  Columns,        \* column ids of the table; "name" cannot be hidden
  Unknown,        \* ids in a URL that are no columns
  Links,          \* column parameters of the links to the page
  MaxFetches,     \* calls of updateListItems (bound)
  MaxColumnEdits  \* uses of the column dialog and links to the page shown (bound)

Settings == {"hidden", "order"}
Absent == {<<"absent", "absent">>}
Listed(ids) == ids \X ids

ASSUME ListConstants ==
  /\ MaxFetches \in Nat /\ MaxColumnEdits \in Nat
  /\ IsFiniteSet(Clusters) /\ "page" \in Components
  /\ "name" \in Columns /\ Unknown \cap Columns = {}
  /\ "absent" \notin Columns \cup Unknown
  /\ Links \subseteq [Settings -> (SUBSET Listed(Columns \cup Unknown)) \cup {Absent}]

VARIABLES
  kind,           \* which page: "items" or "istio"
  shown,          \* the page is mounted
  activeNamespaces,
  filter, urlSort,
  sort,           \* state: currentSortField and isSortAscending
  rows, rowSort,  \* state: listItems, and what they are sorted by
  requests,       \* promises of the registry
  fetchNo,        \* calls of updateListItems so far
  lost,           \* a request of the newest call failed
  url, redux,     \* hidden columns and column order, in the URL and in redux
  relinked,       \* what a link to the page changed in the URL while it was shown
  edits

pageVars == <<kind, shown, activeNamespaces, filter, urlSort, sort, rows, rowSort,
              requests, fetchNo, lost, url, redux, relinked, edits>>
vars == <<hookVars, pageVars>>

ValidIds == [hidden |-> Columns \ {"name"}, order |-> Columns]
NoNamespaces == "none"

Request == [no : 1..MaxFetches, from : SUBSET Clusters,
            of : Selections, filter : Filters]
Row == [no : 1..MaxFetches, cluster : Clusters, of : Selections, filter : Filters]

\* Types; the three item pages are in the tree of the refresh hook, the Istio
\* page is not.
TypeOK ==
  /\ HookTypeOK
  /\ kind \in {"items", "istio"} /\ shown \in BOOLEAN
  /\ activeNamespaces \in Selections \cup {NoNamespaces}
  /\ filter \in Filters /\ urlSort \in Sorts /\ sort \in Sorts
  /\ rows \subseteq Row /\ rowSort \in Sorts /\ requests \subseteq Request
  /\ fetchNo \in 0..MaxFetches /\ lost \in BOOLEAN /\ edits \in 0..MaxColumnEdits
  /\ url \in [Settings -> (SUBSET Listed(Columns \cup Unknown)) \cup {Absent}]
  /\ redux \in [Settings -> SUBSET Listed(Columns)]
  /\ relinked \subseteq {"columns", "sort"}
  /\ shown /\ kind = "items" <=> "page" \in mounted

\* The components of the page that use the hook (connectRefresh).
Tree == IF kind = "items" THEN {"page"} ELSE {}

----------------------------------------------------------------------------
\* promises.cancelAll(): the answers to come are ignored.
CancelAll(reqs) == {}

\* fetchApps and its like ask all clusters and wait for all of them;
\* the Istio page has a promise for each cluster.
RequestsFor(ns, f) ==
  IF ns = NoNamespaces THEN {}
  ELSE {[no |-> fetchNo + 1, from |-> s, of |-> ns, filter |-> f] :
          s \in IF kind = "items" THEN {Clusters} ELSE {{c} : c \in Clusters}}

UpdateKeepingRows(ns, f, old) ==
  /\ fetchNo < MaxFetches
  /\ fetchNo' = fetchNo + 1
  /\ requests' = CancelAll(requests) \cup RequestsFor(ns, f)
  /\ rows' = IF ns = NoNamespaces THEN {} ELSE old
  /\ lost' = FALSE

\* updateListItems, when the page shows the rows old.  Only the Istio page
\* drops them before it asks.
UpdateListItems(ns, f, old) ==
  /\ fetchNo < MaxFetches
  /\ fetchNo' = fetchNo + 1
  /\ requests' = CancelAll(requests) \cup RequestsFor(ns, f)
  /\ rows' = IF ns = NoNamespaces \/ kind = "istio" THEN {} ELSE old
  /\ lost' = FALSE

NoUpdate == UNCHANGED <<fetchNo, requests, rows, lost>>

\* componentDidUpdate of the item pages, from interval i to j with the sort
\* of the URL now s.
MustUpdateOnAnyInterval(ticked, selected, i, j, s) ==
  \/ ticked
  \/ j # RefreshIntervalManual /\ (selected \/ i < j \/ sort # s)

MustUpdate(ticked, selected, i, j, s) ==
  \/ ticked
  \/ /\ j # RefreshIntervalManual
     /\ \/ selected
        \/ i # j /\ (j # RefreshIntervalPause \/ i = RefreshIntervalManual)
        \/ sort # s

DidUpdate(must, ns, s) ==
  IF must
  THEN UpdateListItems(ns, filter, rows) /\ sort' = s
  ELSE NoUpdate /\ UNCHANGED sort

\* Any render tests the sort of the URL, which a link may have changed.
Resorts ==
  IF kind = "istio" THEN sort # urlSort
  ELSE MustUpdate(FALSE, FALSE, refreshInterval, refreshInterval, urlSort)

\* updateListItems by itself: where it empties the list it renders, and that
\* render may call it again for another sort.
UpdateByHand(f) ==
  LET renders == kind = "istio" \/ activeNamespaces = NoNamespaces IN
  /\ UpdateListItems(activeNamespaces, f, rows)
  /\ sort' = IF renders /\ Resorts THEN urlSort ELSE sort
  /\ relinked' = IF renders THEN relinked \ {"sort"} ELSE relinked

----------------------------------------------------------------------------
\* syncColumnsFromURL at mount, for each of the two settings: the URL wins
\* over redux, and is written where it says nothing.
Known(s, u) == u \cap Listed(ValidIds[s])

SyncOnlyKnown(s, u) ==
  IF u # Absent /\ Known(s, u) # {}
  THEN [url |-> u, redux |-> Known(s, u)]
  ELSE [url |-> u, redux |-> redux[s]]

SyncColumns(s, u) ==
  IF u # Absent THEN [url |-> u, redux |-> Known(s, u)]
  ELSE [url |-> IF redux[s] = {} THEN Absent ELSE redux[s], redux |-> redux[s]]

\* Mount, with the parameters of the link: the interval, which the page's
\* Refresh component copies to redux, and the columns.
Enter(i, u) ==
  /\ ~shown
  /\ shown' = TRUE
  /\ kind = "istio" => i = refreshInterval
  /\ Commit({}, Tree, i)
  /\ sort' = urlSort
  /\ IF kind = "istio" \/ RefreshIntervalManual \notin {refreshInterval, i}
        \/ MustUpdate(FALSE, FALSE, refreshInterval, i, sort)
     THEN UpdateListItems(activeNamespaces, filter, rows) ELSE NoUpdate
  /\ IF kind = "items"
     THEN /\ url' = [s \in Settings |-> SyncColumns(s, u[s]).url]
          /\ redux' = [s \in Settings |-> SyncColumns(s, u[s]).redux]
     ELSE UNCHANGED <<url, redux>>
  /\ rowSort' = urlSort
  /\ relinked' = {}
  /\ UNCHANGED <<kind, activeNamespaces, filter, urlSort, edits>>

\* The menu's link to the page that is shown (without a query) or the browser's
\* history: the page stays mounted and is not rendered, the URL has other
\* columns and another sort.
Relink(u, s) ==
  /\ shown /\ edits < MaxColumnEdits
  /\ edits' = edits + 1
  /\ urlSort' = s
  /\ url' = IF kind = "items" THEN u ELSE url
  /\ relinked' = {"columns", "sort"}
  /\ NoUpdate
  /\ UNCHANGED <<hookVars, kind, shown, activeNamespaces, filter, sort, rowSort, redux>>

\* Unmount, for a page made of the components new: the registry is cancelled,
\* the state is gone.
Exit(new) ==
  /\ shown
  /\ shown' = FALSE
  /\ "page" \notin new
  /\ Commit(Tree, new, refreshInterval)
  /\ requests' = CancelAll(requests) /\ rows' = {} /\ lost' = FALSE
  /\ url' = [s \in Settings |-> Absent] /\ relinked' = {}
  /\ UNCHANGED <<kind, activeNamespaces, filter, urlSort, sort, rowSort, fetchNo,
                 redux, edits>>

\* The namespace selector, which is there whatever page is shown.
SelectNamespaces(ns) ==
  /\ ns # activeNamespaces
  /\ activeNamespaces' = ns
  /\ IF shown
     THEN DidUpdate(kind = "istio" \/ MustUpdate(FALSE, TRUE, refreshInterval,
                                                 refreshInterval, urlSort), ns, urlSort)
     ELSE NoUpdate /\ UNCHANGED sort
  /\ relinked' = relinked \ {"sort"}
  /\ UNCHANGED <<hookVars, kind, shown, filter, urlSort, rowSort, url, redux, edits>>

\* onFilterChange fetches whatever the interval.
ChangeFilter(f) ==
  /\ shown /\ f # filter
  /\ filter' = f
  /\ UpdateByHand(f)
  /\ UNCHANGED <<hookVars, kind, shown, activeNamespaces, urlSort, rowSort, url, redux,
                 edits>>

\* A click on a column header changes the URL, and onSort renders the page.
ChangeSort(s) ==
  /\ shown /\ s # urlSort
  /\ urlSort' = s
  /\ DidUpdate(IF kind = "istio" THEN sort # s
               ELSE MustUpdate(FALSE, FALSE, refreshInterval, refreshInterval, s),
               activeNamespaces, s)
  /\ relinked' = relinked \ {"sort"}
  /\ UNCHANGED <<hookVars, kind, shown, activeNamespaces, filter, rowSort, url,
                 redux, edits>>

ChangeInterval(i) ==
  /\ shown /\ kind = "items"
  /\ SetRefreshInterval(i)
  /\ DidUpdate(MustUpdate(FALSE, FALSE, refreshInterval, i, urlSort),
               activeNamespaces, urlSort)
  /\ relinked' = relinked \ {"sort"}
  /\ UNCHANGED <<kind, shown, activeNamespaces, filter, urlSort, rowSort, url,
                 redux, edits>>

\* The timer or the Refresh button: a new lastRefreshAt.
Tick ==
  /\ TimerFires \/ TriggerRefresh
  /\ LET ticked == "page" \in mounted /\ comp'["page"].last # comp["page"].last IN
     /\ DidUpdate(ticked, activeNamespaces, urlSort)
     /\ relinked' = IF ticked THEN relinked \ {"sort"} ELSE relinked
  /\ UNCHANGED <<kind, shown, activeNamespaces, filter, urlSort, rowSort, url,
                 redux, edits>>

\* The button of the Istio page calls updateListItems itself.
RefreshButton ==
  /\ shown /\ kind = "istio"
  /\ UpdateByHand(filter)
  /\ UNCHANGED <<hookVars, kind, shown, activeNamespaces, filter, urlSort, rowSort, url,
                 redux, edits>>

\* Other components of the console come and go, and the page with them: a
\* commit may take the page away and bring another component.
OtherMounts(c) ==
  /\ Commit({}, {c}, refreshInterval)
  /\ c # "page"
  /\ UNCHANGED pageVars

OtherUnmounts(c) ==
  /\ Commit({c}, {}, refreshInterval)
  /\ c # "page"
  /\ UNCHANGED pageVars

\* Effects of the hook run; they render the page again only to show it.
Effects == RunEffects /\ UNCHANGED pageVars

----------------------------------------------------------------------------
\* An answer of all clusters asked replaces the rows, or joins those of the
\* other clusters on the Istio page.  The sort is the one of that moment; the
\* render may ask again for another one.
Answered(r) ==
  LET new == {[no |-> r.no, cluster |-> c, of |-> r.of, filter |-> r.filter] :
                c \in r.from}
      all == IF kind = "items" THEN new ELSE rows \cup new
  IN  /\ r \in requests
      /\ rowSort' = sort
      /\ relinked' = relinked \ {"sort"}
      /\ IF Resorts
         THEN UpdateListItems(activeNamespaces, filter, all) /\ sort' = urlSort
         ELSE /\ requests' = requests \ {r}
              /\ rows' = all
              /\ UNCHANGED <<fetchNo, lost, sort>>
      /\ UNCHANGED <<hookVars, kind, shown, activeNamespaces, filter, urlSort, url,
                     redux, edits>>

\* A failure is a notice; the rows stay.
Failed(r) ==
  /\ r \in requests
  /\ requests' = requests \ {r}
  /\ lost' = TRUE
  /\ UNCHANGED <<hookVars, kind, shown, activeNamespaces, filter, urlSort, sort,
                 rows, rowSort, fetchNo, url, redux, relinked, edits>>

\* Every order the columns can be put in.
Orders ==
  {o \in SUBSET Listed(Columns) :
     /\ \A a, b \in Columns : /\ <<a, b>> \in o \/ <<b, a>> \in o
                              /\ {<<a, b>>, <<b, a>>} \subseteq o => a = b
     /\ \A a, b, c \in Columns : {<<a, b>>, <<b, c>>} \subseteq o => <<a, c>> \in o}

\* The dialog of ListColumnManagementModal, applied or reset.
ApplyColumns(hide, o) ==
  LET new == [hidden |-> o \cap Listed(hide), order |-> o] IN
  /\ shown /\ kind = "items" /\ edits < MaxColumnEdits
  /\ edits' = edits + 1
  /\ redux' = new
  /\ url' = [s \in Settings |-> IF new[s] = {} THEN Absent ELSE new[s]]
  /\ DidUpdate(Resorts, activeNamespaces, urlSort)
  /\ relinked' = {}
  /\ UNCHANGED <<hookVars, kind, shown, activeNamespaces, filter, urlSort, rowSort>>

ResetColumns ==
  /\ shown /\ kind = "items" /\ edits < MaxColumnEdits
  /\ edits' = edits + 1
  /\ redux' = [s \in Settings |-> {}]
  /\ url' = [s \in Settings |-> Absent]
  /\ DidUpdate(Resorts, activeNamespaces, urlSort)
  /\ relinked' = {}
  /\ UNCHANGED <<hookVars, kind, shown, activeNamespaces, filter, urlSort, rowSort>>

----------------------------------------------------------------------------
Init ==
  /\ HookInit
  /\ kind \in {"items", "istio"} /\ shown = FALSE
  /\ activeNamespaces \in Selections \cup {NoNamespaces}
  /\ filter \in Filters /\ urlSort \in Sorts /\ sort = urlSort
  /\ rows = {} /\ rowSort = urlSort /\ requests = {} /\ fetchNo = 0 /\ lost = FALSE
  /\ url = [s \in Settings |-> Absent]
  /\ redux = [s \in Settings |-> {}]
  /\ relinked = {} /\ edits = 0

Next ==
  \/ \E i \in Intervals, u \in Links : Enter(i, u)
  \/ \E u \in Links, s \in Sorts : Relink(u, s)
  \/ \E new \in SUBSET Components : Exit(new)
  \/ \E c \in Components : OtherMounts(c) \/ OtherUnmounts(c)
  \/ \E ns \in Selections \cup {NoNamespaces} : SelectNamespaces(ns)
  \/ \E f \in Filters : ChangeFilter(f)
  \/ \E s \in Sorts : ChangeSort(s)
  \/ \E i \in Intervals : ChangeInterval(i)
  \/ Tick \/ RefreshButton \/ Effects
  \/ \E r \in requests : Answered(r) \/ Failed(r)
  \/ \E hide \in SUBSET ValidIds.hidden, o \in Orders : ApplyColumns(hide, o)
  \/ ResetColumns

Spec == Init /\ [][Next]_vars

----------------------------------------------------------------------------
\* What a list shows when nothing is under way, unless the last call failed or
\* updates wait for the user (manual interval): exactly the rows all clusters
\* have for the namespaces and the filter selected, in the order of the URL.
\* No answer of an earlier selection is in it, no cluster is in it twice, none
\* is missing, in whatever order answers, refreshes and changes come.  The
\* order is the one of the URL but for a link to the page that came after the
\* last render.
ListMatchesSelection ==
  shown /\ requests = {} /\ ~lost
        /\ (kind = "items" => refreshInterval # RefreshIntervalManual)
    => /\ {<<r.cluster, r.of, r.filter>> : r \in rows} =
            IF activeNamespaces = NoNamespaces THEN {}
            ELSE Clusters \X {activeNamespaces} \X {filter}
       /\ Cardinality(rows) = IF activeNamespaces = NoNamespaces THEN 0
                              ELSE Cardinality(Clusters)
       /\ rows # {} /\ "sort" \notin relinked => rowSort = urlSort

\* On the Istio page the rows of two calls are never mixed, also while answers
\* are still to come (fetchConfigs adds to this.state.listItems).
OneCallAtATime ==
  kind = "istio" => \A r \in rows : r.no = fetchNo

\* Column settings: redux, which is kept between visits, lists columns of the
\* table only and never hides the name, and it says what the URL of the page
\* says, order included, from the mount on.  A link to the page already shown
\* changes the URL alone (syncColumnsFromURL runs at mount): they agree again
\* after the next mount or use of the dialog.
ColumnsAgree ==
  shown /\ kind = "items" =>
    \A s \in Settings :
      /\ redux[s] \subseteq Listed(ValidIds[s])
      /\ "columns" \notin relinked
           => redux[s] = IF url[s] = Absent THEN {} ELSE Known(s, url[s])

=============================================================================
