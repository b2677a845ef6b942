---------------------------- MODULE GraphRefresh ----------------------------
(***************************************************************************)
(* The graph cache in use: HTTP requests for namespace graphs              *)
(* (handlers/graph.go, graphNamespacesWithCache) and the background        *)
(* refresh jobs that keep cached graphs current (graph/refresh_job.go).    *)
(*                                                                         *)
(* The processes are request handlers, the Start loop of every job, its    *)
(* pending UpdateInterval goroutines, and the refresh() calls both start.  *)
(* A step is what a process does between two mutexes: cache.mu, the        *)
(* manager's mu and the job's mu are never held together with graph        *)
(* generation, so anything may happen between two steps.                   *)
(*                                                                         *)
(* Requests that never touch the cache (cache disabled, no session id,     *)
(* explicit queryTime) are stuttering steps.  Timers fire at any moment;   *)
(* RefreshTicker looks at which ticker is installed.                       *)
(***************************************************************************)
EXTENDS GraphCache, RefreshJobOps

CONSTANTS
  Threads,           \* request handlers running at one time (bound)
  Refreshers,        \* refresh() calls running at one time (bound)
  Jobs,              \* RefreshJob objects in use at one time (bound)
  NoJob, NoSession,
  AllowBypass,       \* TRUE: requests may have refreshInterval <= 0
  InactivityTimeout, \* GraphCacheConfig.InactivityTimeout, as an age
  MaxRequests        \* requests of a behaviour (bound)

ASSUME RefreshConstants ==
  /\ NoJob \notin Jobs
  /\ NoSession \notin Sessions
  /\ 0 \notin Intervals
  /\ AllowBypass \in BOOLEAN
  /\ InactivityTimeout \in 0..(AgeCap - 1)
  /\ MaxRequests \in Nat

VARIABLES
  graphGenerator,    \* owner of GraphCacheImpl.graphGenerator
  jobs,              \* RefreshJobManager.jobs
  job,               \* the RefreshJob objects
  cancelled,         \* the manager's context is cancelled
  req,               \* the request handlers
  rf,                \* the refresh() calls
  budget             \* requests still to come

managerVars == <<jobs, job, cancelled>>
vars == <<sessionGraphs, heap, graphGenerator, jobs, job, cancelled, req, rf, budget>>

\* Requested intervals; 0 asks for a bypass of the cache.
RequestIntervals == IF AllowBypass THEN Intervals \cup {0} ELSE Intervals

(***************************************************************************)
(* owner is the session whose request built the job's generator; the       *)
(* fields from interval on are those of RefreshJobOps.                     *)
(***************************************************************************)
RefreshJob ==
  [session : Sessions \cup {NoSession}, owner : Sessions \cup {NoSession},
   options : Options, interval : Intervals, stopped : BOOLEAN,
   loop : BOOLEAN, pending : BOOLEAN, superseded : Nat]

RequestPc ==
  {"idle", "bypass", "bypassEvict", "lookup", "hit", "getJob", "update",
   "write", "reset", "serve", "invalidate", "stopStale", "generate",
   "checkGenerator", "setGenerator", "start"}

Request ==
  [pc : RequestPc, session : Sessions \cup {NoSession}, options : Options,
   interval : Intervals \cup {0}, graph : Graphs \cup {NoGraph},
   job : Jobs \cup {NoJob}]

RefreshPc == {"idle", "lookup", "check", "generate", "set", "evict", "stop"}

Refresh ==
  [pc : RefreshPc, job : Jobs \cup {NoJob}, graph : Graphs \cup {NoGraph},
   fresh : Graphs \cup {NoGraph}]

\* The variables range over the values the Go declarations allow.
TypeOK ==
  /\ CacheTypeOK
  /\ graphGenerator \in Sessions \cup {NoSession}
  /\ jobs \in [Sessions -> Jobs \cup {NoJob}]
  /\ job \in [Jobs -> RefreshJob]
  /\ cancelled \in BOOLEAN
  /\ req \in [Threads -> Request]
  /\ rf \in [Refreshers -> Refresh]
  /\ budget \in 0..MaxRequests

SomeOptions == CHOOSE o \in Options : TRUE
SomeInterval == CHOOSE i \in Intervals : TRUE

IdleRequest ==
  [pc |-> "idle", session |-> NoSession, options |-> SomeOptions,
   interval |-> 0, graph |-> NoGraph, job |-> NoJob]

IdleRefresh == [pc |-> "idle", job |-> NoJob, graph |-> NoGraph, fresh |-> NoGraph]

\* An object nobody refers to: Go would have collected it.
UnusedJob ==
  [session |-> NoSession, owner |-> NoSession, options |-> SomeOptions,
   interval |-> SomeInterval, stopped |-> TRUE, loop |-> FALSE,
   pending |-> FALSE, superseded |-> 0]

Init ==
  /\ CacheInit
  /\ graphGenerator = NoSession
  /\ jobs = [s \in Sessions |-> NoJob]
  /\ job = [j \in Jobs |-> UnusedJob]
  /\ cancelled = FALSE
  /\ req = [t \in Threads |-> IdleRequest]
  /\ rf = [r \in Refreshers |-> IdleRefresh]
  /\ budget = MaxRequests

\* Heap cells something points to; the others can hold a new object.
UsedGraphs ==
  {sessionGraphs[s] : s \in Sessions} \cup {req[t].graph : t \in Threads}
    \cup {rf[r].graph : r \in Refreshers} \cup {rf[r].fresh : r \in Refreshers}

UsedJobs ==
  {jobs[s] : s \in Sessions} \cup {req[t].job : t \in Threads}
    \cup {rf[r].job : r \in Refreshers}
    \cup {j \in Jobs : job[j].loop \/ job[j].pending \/ job[j].superseded > 0}

\* Where a new object goes does not matter, so the choice is a fixed one.
NewGraph == CHOOSE g \in Graphs : g \notin UsedGraphs
NewJob == CHOOSE j \in Jobs : j \notin UsedJobs
-----------------------------------------------------------------------------
(***************************************************************************)
(* RefreshJob and RefreshJobManager operations.                            *)
(***************************************************************************)

Stop(j) == job' = [job EXCEPT ![j] = Stopped(@)]

StopJob(s) ==
  /\ jobs' = [jobs EXCEPT ![s] = NoJob]
  /\ IF jobs[s] = NoJob THEN UNCHANGED job ELSE Stop(jobs[s])

\* Faulty: the job uses the generator the cache keeps, not its request's.
NewJobSharedGenerator(s, o, i) ==
  [session |-> s, owner |-> graphGenerator, options |-> o, interval |-> i,
   stopped |-> FALSE, loop |-> TRUE, pending |-> FALSE, superseded |-> 0]

NewRefreshJob(s, o, i) ==
  [session |-> s, owner |-> s, options |-> o, interval |-> i,
   stopped |-> FALSE, loop |-> TRUE, pending |-> FALSE, superseded |-> 0]

\* Faulty: the job that is replaced is not stopped.
StartJobKeepsOld(s, o, i) ==
  /\ ~(Jobs \subseteq UsedJobs)
  /\ jobs' = [jobs EXCEPT ![s] = NewJob]
  /\ job' = [job EXCEPT ![NewJob] = NewRefreshJob(s, o, i)]

\* A job the session already has is stopped and replaced, under the mutex.
StartJob(s, o, i) ==
  /\ ~(Jobs \subseteq UsedJobs)
  /\ jobs' = [jobs EXCEPT ![s] = NewJob]
  /\ job' = [k \in Jobs |-> IF k = NewJob THEN NewRefreshJob(s, o, i)
                            ELSE IF k = jobs[s] THEN Stopped(job[k])
                            ELSE job[k]]

StopAll ==
  /\ jobs' = [s \in Sessions |-> NoJob]
  /\ job' = [j \in Jobs |-> IF \E s \in Sessions : jobs[s] = j
                            THEN Stopped(job[j]) ELSE job[j]]
  /\ cancelled' = TRUE
  /\ UNCHANGED <<sessionGraphs, heap, graphGenerator, req, rf, budget>>

\* The server's context ends: the manager's and every job's with it.
Shutdown ==
  /\ ~cancelled
  /\ cancelled' = TRUE
  /\ UNCHANGED <<sessionGraphs, heap, graphGenerator, jobs, job, req, rf, budget>>
-----------------------------------------------------------------------------
(***************************************************************************)
(* graphNamespacesWithCache.  One action per step of a handler t.          *)
(***************************************************************************)
At(t, pc) == req[t].pc = pc
Goto(t, pc) == req' = [req EXCEPT ![t].pc = pc]
Respond(t) == req' = [req EXCEPT ![t] = IdleRequest]

\* Faulty: no bypass, so a job may get interval 0, for which NewTicker panics.
ArriveWithoutBypass(t) ==
  /\ At(t, "idle")
  /\ budget > 0
  /\ \E s \in Sessions, o \in Options, i \in RequestIntervals :
       req' = [req EXCEPT ![t] = [IdleRequest EXCEPT
                 !.pc = "lookup", !.session = s, !.options = o, !.interval = i]]
  /\ budget' = budget - 1
  /\ UNCHANGED <<sessionGraphs, heap, graphGenerator, jobs, job, cancelled, rf>>

Arrive(t) ==
  /\ At(t, "idle")
  /\ budget > 0
  /\ \E s \in Sessions, o \in Options, i \in RequestIntervals :
       req' = [req EXCEPT ![t] = [IdleRequest EXCEPT
                 !.pc = IF i = 0 THEN "bypass" ELSE "lookup",
                 !.session = s, !.options = o, !.interval = i]]
  /\ budget' = budget - 1
  /\ UNCHANGED <<sessionGraphs, heap, graphGenerator, jobs, job, cancelled, rf>>

\* refreshInterval <= 0: stop the job, then drop the graph, then generate one
\* that is not cached.
BypassStop(t) ==
  /\ At(t, "bypass")
  /\ StopJob(req[t].session)
  /\ Goto(t, "bypassEvict")
  /\ UNCHANGED <<sessionGraphs, heap, graphGenerator, cancelled, rf, budget>>

BypassEvict(t) ==
  /\ At(t, "bypassEvict")
  /\ Evict(req[t].session)
  /\ Respond(t)
  /\ UNCHANGED <<heap, graphGenerator, jobs, job, cancelled, rf, budget>>

\* Faulty: a cached graph of the session is good for any request.
AnyOptionsMatch(cached, requested) == TRUE

\* Options stands for the classes of options that graphOptionsMatch tells
\* apart (the query time is not among what it compares).
GraphOptionsMatch(cached, requested) == cached = requested

\* GetSessionGraph and graphOptionsMatch; the options of an object never
\* change, so the comparison may as well happen under the lock.
Miss(t) ==
  /\ At(t, "lookup")
  /\ req[t].session \notin Cached
  /\ Goto(t, "generate")
  /\ UNCHANGED <<sessionGraphs, heap, graphGenerator, jobs, job, cancelled, rf, budget>>

Found(t) ==
  /\ At(t, "lookup")
  /\ req[t].session \in Cached
  /\ Touch(req[t].session)
  /\ LET g == sessionGraphs[req[t].session]
     IN  req' = [req EXCEPT
           ![t].pc = IF GraphOptionsMatch(heap[g].options, req[t].options)
                    THEN "hit" ELSE "invalidate",
           ![t].graph = g]
  /\ UNCHANGED <<sessionGraphs, graphGenerator, jobs, job, cancelled, rf, budget>>

\* requestedInterval != cached.RefreshInterval, read without a lock.
CompareInterval(t) ==
  /\ At(t, "hit")
  /\ Goto(t, IF heap[req[t].graph].interval = req[t].interval THEN "serve" ELSE "getJob")
  /\ UNCHANGED <<sessionGraphs, heap, graphGenerator, jobs, job, cancelled, rf, budget>>

GetJob(t) ==
  /\ At(t, "getJob")
  /\ LET j == jobs[req[t].session]
     IN  req' = [req EXCEPT ![t].pc = IF j = NoJob THEN "serve" ELSE "update", ![t].job = j]
  /\ UNCHANGED <<sessionGraphs, heap, graphGenerator, jobs, job, cancelled, rf, budget>>

UpdateJob(t) ==
  /\ At(t, "update")
  /\ job' = [job EXCEPT ![req[t].job] = WithInterval(@, req[t].interval)]
  /\ req' = [req EXCEPT ![t].pc = "write", ![t].job = NoJob]
  /\ UNCHANGED <<sessionGraphs, heap, graphGenerator, jobs, cancelled, rf, budget>>

\* cached.RefreshInterval = requestedInterval, again without a lock, ...
WriteInterval(t) ==
  /\ At(t, "write")
  /\ heap' = [heap EXCEPT ![req[t].graph].interval = req[t].interval]
  /\ Goto(t, "reset")
  /\ UNCHANGED <<sessionGraphs, graphGenerator, jobs, job, cancelled, rf, budget>>

\* ... and SetSessionGraph of that same object, whatever the cache holds now.
ResetGraph(t) ==
  /\ At(t, "reset")
  /\ SetSessionGraph(req[t].session, req[t].graph, heap[req[t].graph].mb)
  /\ Goto(t, "serve")
  /\ UNCHANGED <<heap, graphGenerator, jobs, job, cancelled, rf, budget>>

\* generateGraphFromTrafficMap(cached.TrafficMap, cached.Options).
Serve(t) ==
  /\ At(t, "serve")
  /\ Respond(t)
  /\ UNCHANGED <<sessionGraphs, heap, graphGenerator, jobs, job, cancelled, rf, budget>>

\* Options changed: Evict, then StopJob.
Invalidate(t) ==
  /\ At(t, "invalidate")
  /\ Evict(req[t].session)
  /\ req' = [req EXCEPT ![t].pc = "stopStale", ![t].graph = NoGraph]
  /\ UNCHANGED <<heap, graphGenerator, jobs, job, cancelled, rf, budget>>

StopStale(t) ==
  /\ At(t, "stopStale")
  /\ StopJob(req[t].session)
  /\ Goto(t, "generate")
  /\ UNCHANGED <<sessionGraphs, heap, graphGenerator, cancelled, rf, budget>>

\* api.GraphNamespaces returns 200 or panics; a panic becomes a 500 response.
GeneratePanics(t) ==
  /\ At(t, "generate")
  /\ Respond(t)
  /\ UNCHANGED <<sessionGraphs, heap, graphGenerator, jobs, job, cancelled, rf, budget>>

\* Otherwise SetSessionGraph of a new object, with no shared access between.
GenerateAndStore(t) ==
  /\ At(t, "generate")
  /\ ~(Graphs \subseteq UsedGraphs)
  /\ \E mb \in Sizes :
       /\ heap' = [heap EXCEPT ![NewGraph] =
                     [owner |-> req[t].session, options |-> req[t].options,
                      interval |-> req[t].interval, age |-> 0, mb |-> mb]]
       /\ SetSessionGraph(req[t].session, NewGraph, mb)
  /\ Goto(t, "checkGenerator")
  /\ UNCHANGED <<graphGenerator, jobs, job, cancelled, rf, budget>>

\* GetGraphGenerator() == nil.
CheckGenerator(t) ==
  /\ At(t, "checkGenerator")
  /\ Goto(t, IF graphGenerator = NoSession THEN "setGenerator" ELSE "start")
  /\ UNCHANGED <<sessionGraphs, heap, graphGenerator, jobs, job, cancelled, rf, budget>>

SetGraphGenerator(t) ==
  /\ At(t, "setGenerator")
  /\ graphGenerator' = req[t].session
  /\ Goto(t, "start")
  /\ UNCHANGED <<sessionGraphs, heap, jobs, job, cancelled, rf, budget>>

Start(t) ==
  /\ At(t, "start")
  /\ StartJob(req[t].session, req[t].options, req[t].interval)
  /\ Respond(t)
  /\ UNCHANGED <<sessionGraphs, heap, graphGenerator, cancelled, rf, budget>>

RequestStep(t) ==
  \/ BypassStop(t) \/ BypassEvict(t) \/ Miss(t) \/ Found(t)
  \/ CompareInterval(t) \/ GetJob(t) \/ UpdateJob(t) \/ WriteInterval(t)
  \/ ResetGraph(t) \/ Serve(t) \/ Invalidate(t) \/ StopStale(t)
  \/ GeneratePanics(t) \/ GenerateAndStore(t) \/ CheckGenerator(t)
  \/ SetGraphGenerator(t) \/ Start(t)
-----------------------------------------------------------------------------
(***************************************************************************)
(* The goroutines of a job.  A select with several ready cases takes any   *)
(* of them: a timer may still win after the job was stopped.               *)
(***************************************************************************)
Refreshing(j) ==
  \E r \in Refreshers :
     /\ rf[r].pc = "idle"
     /\ rf' = [rf EXCEPT ![r] = [IdleRefresh EXCEPT !.pc = "lookup", !.job = j]]

\* The first timer or a tick, in the Start loop: go j.refresh().
LoopTick(j) ==
  /\ job[j].loop
  /\ Refreshing(j)
  /\ UNCHANGED <<sessionGraphs, heap, graphGenerator, jobs, job, cancelled, req, budget>>

\* stopChan or the context: cleanup() and return.
LoopExit(j) ==
  /\ job[j].loop
  /\ job[j].stopped \/ cancelled
  /\ job' = [job EXCEPT ![j] = Cleaned(@)]
  /\ UNCHANGED <<sessionGraphs, heap, graphGenerator, jobs, cancelled, req, rf, budget>>

\* The interval/2 timer of an UpdateInterval goroutine.
UpdateTick(j) ==
  /\ \E b \in UpdateFired(job[j]) : job' = [job EXCEPT ![j] = b]
  /\ Refreshing(j)
  /\ UNCHANGED <<sessionGraphs, heap, graphGenerator, jobs, cancelled, req, budget>>

\* Its context: the job was stopped, or a later UpdateInterval superseded it.
UpdateExit(j) ==
  /\ \E b \in UpdateEnded(job[j], cancelled) : job' = [job EXCEPT ![j] = b]
  /\ UNCHANGED <<sessionGraphs, heap, graphGenerator, jobs, cancelled, req, rf, budget>>
-----------------------------------------------------------------------------
(***************************************************************************)
(* refresh().  It never looks at stopped again once it has begun.          *)
(***************************************************************************)
SessionOf(r) == job[rf[r].job].session
RfGoto(r, pc) == rf' = [rf EXCEPT ![r].pc = pc]
RfEnd(r) == rf' = [rf EXCEPT ![r] = IdleRefresh]

\* Faulty: the lookup counts as an access of the session.
RfLookupTouches(r) ==
  /\ rf[r].pc = "lookup"
  /\ LET s == SessionOf(r)
     IN  /\ rf' = [rf EXCEPT ![r].pc = IF s \in Cached THEN "check" ELSE "stop",
                             ![r].graph = sessionGraphs[s]]
         /\ IF s \in Cached THEN Touch(s) ELSE UNCHANGED heap
  /\ UNCHANGED <<sessionGraphs, graphGenerator, jobs, job, cancelled, req, budget>>

\* getSessionGraphInternal does not touch LastAccessed.
RfLookup(r) ==
  /\ rf[r].pc = "lookup"
  /\ LET s == SessionOf(r)
     IN  rf' = [rf EXCEPT ![r].pc = IF s \in Cached THEN "check" ELSE "stop",
                          ![r].graph = sessionGraphs[s]]
  /\ UNCHANGED <<sessionGraphs, heap, graphGenerator, jobs, job, cancelled, req, budget>>

RfCheckInactivity(r) ==
  /\ rf[r].pc = "check"
  /\ rf' = [rf EXCEPT ![r] = IF heap[@.graph].age > InactivityTimeout
                              THEN [@ EXCEPT !.pc = "evict", !.graph = NoGraph]
                              ELSE [@ EXCEPT !.pc = "generate"]]
  /\ UNCHANGED <<sessionGraphs, heap, graphGenerator, jobs, job, cancelled, req, budget>>

\* The generator returns an error (createGraphGenerator never does, but the
\* type allows it): the old graph stays.
RfGenerateFails(r) ==
  /\ rf[r].pc = "generate"
  /\ RfEnd(r)
  /\ UNCHANGED <<sessionGraphs, heap, graphGenerator, jobs, job, cancelled, req, budget>>

\* The generator panics: the deferred recover evicts the graph, stops the job.
RfGeneratePanics(r) ==
  /\ rf[r].pc = "generate"
  /\ rf' = [rf EXCEPT ![r].pc = "evict", ![r].graph = NoGraph]
  /\ UNCHANGED <<sessionGraphs, heap, graphGenerator, jobs, job, cancelled, req, budget>>

\* The new object: options and generator of the job, its interval now, and
\* the access time of the object found at the start.  (That unlocked read
\* races with Touch; time.Time compares by one word, so it is old or new.
\* The locked read of the interval just before it is joined with it.)
RfGenerate(r) ==
  /\ rf[r].pc = "generate"
  /\ ~(Graphs \subseteq UsedGraphs)
  /\ LET j == job[rf[r].job]
     IN  \E mb \in Sizes :
           heap' = [heap EXCEPT ![NewGraph] =
                     [owner |-> j.owner, options |-> j.options,
                      interval |-> j.interval, age |-> heap[rf[r].graph].age,
                      mb |-> mb]]
  /\ rf' = [rf EXCEPT ![r].pc = "set", ![r].fresh = NewGraph, ![r].graph = NoGraph]
  /\ UNCHANGED <<sessionGraphs, graphGenerator, jobs, job, cancelled, req, budget>>

RfSet(r) ==
  /\ rf[r].pc = "set"
  /\ SetSessionGraph(SessionOf(r), rf[r].fresh, heap[rf[r].fresh].mb)
  /\ RfEnd(r)
  /\ UNCHANGED <<heap, graphGenerator, jobs, job, cancelled, req, budget>>

RfEvict(r) ==
  /\ rf[r].pc = "evict"
  /\ Evict(SessionOf(r))
  /\ RfGoto(r, "stop")
  /\ UNCHANGED <<heap, graphGenerator, jobs, job, cancelled, req, budget>>

RfStop(r) ==
  /\ rf[r].pc = "stop"
  /\ Stop(rf[r].job)
  /\ RfEnd(r)
  /\ UNCHANGED <<sessionGraphs, heap, graphGenerator, jobs, cancelled, req, budget>>

RefreshStep(r) ==
  \/ RfLookup(r) \/ RfCheckInactivity(r) \/ RfGenerateFails(r)
  \/ RfGeneratePanics(r) \/ RfGenerate(r) \/ RfSet(r) \/ RfEvict(r) \/ RfStop(r)

\* Time passes for every graph.
TimePasses ==
  /\ heap' = Older(heap)
  /\ UNCHANGED <<sessionGraphs, graphGenerator, jobs, job, cancelled, req, rf, budget>>

Next ==
  \/ \E t \in Threads : Arrive(t) \/ RequestStep(t)
  \/ \E j \in Jobs : LoopTick(j) \/ LoopExit(j) \/ UpdateTick(j) \/ UpdateExit(j)
  \/ \E r \in Refreshers : RefreshStep(r)
  \/ StopAll \/ Shutdown
  \/ TimePasses

Spec == Init /\ [][Next]_vars

(***************************************************************************)
(* Handlers and refreshes run to their end (generation is bounded by the   *)
(* query timeouts), tickers tick and time passes.  Ticks are strongly fair *)
(* because the bound on Refreshers may withhold a slot that Go would not.  *)
(***************************************************************************)
Fairness ==
  /\ \A t \in Threads : WF_vars(RequestStep(t))
  /\ \A r \in Refreshers : WF_vars(RefreshStep(r))
  /\ \A j \in Jobs : /\ SF_vars(LoopTick(j)) /\ WF_vars(LoopExit(j))
                     /\ SF_vars(UpdateTick(j))
  /\ WF_vars(TimePasses)

FairSpec == Spec /\ Fairness
-----------------------------------------------------------------------------
\* However requests, self-stopping refreshes and shutdown interleave, a job
\* that is not stopped is the one its session has in the manager's map: no
\* session has two running jobs, and StopJob can reach every running job.
OneLiveJob == \A j \in Jobs : ~job[j].stopped => jobs[job[j].session] = j

\* A session is only ever given a graph generated with its own request's
\* client: in the cache, and in the hands of a handler, also when refreshes
\* of replaced jobs write back late.
SessionIsolation ==
  /\ \A s \in Cached : heap[sessionGraphs[s]].owner = s
  /\ \A t \in Threads :
       req[t].graph # NoGraph => heap[req[t].graph].owner = req[t].session

\* From the options check to the response, the graph a handler is going to
\* serve is one for the options of its request, whatever refreshes write.
ServedMatchesRequest ==
  \A t \in Threads :
     req[t].pc \in {"hit", "getJob", "update", "write", "reset", "serve"}
       => heap[req[t].graph].options = req[t].options

\* Once requests stop coming, every goroutine of every job ends: inactivity
\* is noticed although the refreshes themselves keep reading the graph.
GoroutinesEnd ==
  <>[](\A j \in Jobs : ~job[j].loop /\ ~job[j].pending /\ job[j].superseded = 0)

\* "Sessions inactive (no cache hit) longer than this are evicted to free
\* memory": once requests stop coming, the cache drains (unless the server
\* goes down first).
InactiveEvicted == <>[](cancelled \/ Cached = {})
=============================================================================
