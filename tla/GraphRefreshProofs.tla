------------------------- MODULE GraphRefreshProofs -------------------------
(***************************************************************************)
(* Proofs about GraphRefresh, for any number of sessions, handlers, jobs   *)
(* and overlapping refreshes: its variables keep their types, at most one  *)
(* job of a session is live and it is the one in the manager's map, and no *)
(* session is given a graph made for another one.  Then about GraphCache,  *)
(* on its own and in use: its memory limit and what it evicts.             *)
(***************************************************************************)
EXTENDS GraphRefresh, FiniteSetTheorems, WellFoundedInduction, TLAPS

(***************************************************************************)
(* What a process can rely on at a step: the fields it set before.         *)
(***************************************************************************)
RequestsOK ==
  \A t \in Threads :
     /\ req[t].pc # "idle" => req[t].session \in Sessions
     /\ req[t].pc \notin {"idle", "bypass", "bypassEvict"} => req[t].interval \in Intervals
     /\ req[t].pc \in {"hit", "getJob", "update", "write", "reset", "serve", "invalidate"} => req[t].graph \in Graphs
     /\ req[t].pc = "update" => req[t].job \in Jobs

\* A job object is in use by one of its own goroutines, or could be again.
Active(jb) == ~jb.stopped \/ jb.loop \/ jb.pending \/ jb.superseded > 0

JobsOK == \A j \in Jobs : Active(job[j]) => job[j].session \in Sessions

RefreshesOK ==
  \A r \in Refreshers :
     /\ rf[r].pc # "idle" => rf[r].job \in Jobs /\ job[rf[r].job].session \in Sessions
     /\ rf[r].pc \in {"check", "generate"} => rf[r].graph \in Graphs
     /\ rf[r].pc = "set" => rf[r].fresh \in Graphs

WellFormed == TypeOK /\ RequestsOK /\ JobsOK /\ RefreshesOK
-----------------------------------------------------------------------------
\* What every job operation but the creation of a job keeps.
SameJob(jb, b) ==
  /\ b \in RefreshJob
  /\ b.session = jb.session
  /\ b.owner = jb.owner
  /\ Active(b) => Active(jb)
  /\ ~b.stopped => ~jb.stopped

\* The operations of RefreshJobOps keep type, session and owner of a job, do
\* not start a stopped job, and do not wake one whose goroutines are gone.
LEMMA OpsKeepJob ==
  ASSUME NEW jb \in RefreshJob, NEW i \in Intervals, NEW c \in BOOLEAN
  PROVE  /\ SameJob(jb, jb)
         /\ SameJob(jb, Stopped(jb))
         /\ SameJob(jb, WithInterval(jb, i))
         /\ jb.loop => SameJob(jb, Cleaned(jb))
         /\ \A b \in UpdateFired(jb) : SameJob(jb, b)
         /\ \A b \in UpdateEnded(jb, c) : SameJob(jb, b)
<1>. USE DEF SameJob, RefreshJob, Active
<1>1. SameJob(jb, jb) /\ SameJob(jb, Stopped(jb))
  BY DEF Stopped
<1>2. SameJob(jb, WithInterval(jb, i))
  <2>1. CASE jb.stopped \/ jb.interval = i
    BY <1>1, <2>1 DEF WithInterval
  <2>2. CASE ~(jb.stopped \/ jb.interval = i)
    <3>. DEFINE n == jb.superseded + (IF jb.pending THEN 1 ELSE 0)
    <3>1. n \in Nat
      OBVIOUS
    <3>2. WithInterval(jb, i) = [jb EXCEPT !.interval = i, !.pending = TRUE, !.superseded = n]
      BY <2>2 DEF WithInterval
    <3>. HIDE DEF n
    <3>. QED BY <2>2, <3>1, <3>2
  <2>. QED BY <2>1, <2>2
<1>3. jb.loop => SameJob(jb, Cleaned(jb))
  BY DEF Cleaned
<1>4. jb.pending => SameJob(jb, PendingLeft(jb))
  BY DEF PendingLeft
<1>5. jb.superseded > 0 => SameJob(jb, SupersededLeft(jb))
  <2>. DEFINE n == jb.superseded - 1
  <2>1. jb.superseded > 0 => n \in Nat
    OBVIOUS
  <2>2. SupersededLeft(jb) = [jb EXCEPT !.superseded = n]
    BY DEF SupersededLeft
  <2>. HIDE DEF n
  <2>. QED BY <2>1, <2>2
<1>. QED BY <1>1, <1>2, <1>3, <1>4, <1>5 DEF UpdateFired, UpdateEnded

\* SetSessionGraph puts g under s and changes other sessions at most to none.
LEMMA SetKeeps ==
  ASSUME CacheTypeOK, NEW s \in Sessions, NEW g \in Graphs, NEW mb,
         SetSessionGraph(s, g, mb)
  PROVE  /\ sessionGraphs' \in [Sessions -> Graphs \cup {NoGraph}]
         /\ sessionGraphs'[s] = g
         /\ \A x \in Sessions : sessionGraphs'[x] \in {g, NoGraph, sessionGraphs[x]}
         /\ \A x \in Sessions : x # s => sessionGraphs'[x] \in {NoGraph, sessionGraphs[x]}
<1>1. PICK E \in CheckMemoryLimits(s, mb) :
        sessionGraphs' = [x \in Sessions |-> IF x = s THEN g
                                             ELSE IF x \in E THEN NoGraph
                                             ELSE sessionGraphs[x]]
  BY DEF SetSessionGraph
<1>. QED BY <1>1 DEF CacheTypeOK

\* A new object goes to a cell, or is a job, that nothing refers to.
LEMMA NewIsUnused ==
  /\ ~(Graphs \subseteq UsedGraphs) => NewGraph \in Graphs /\ NewGraph \notin UsedGraphs
  /\ ~(Jobs \subseteq UsedJobs) => NewJob \in Jobs /\ NewJob \notin UsedJobs
BY DEF NewGraph, NewJob
-----------------------------------------------------------------------------
(***************************************************************************)
(* The variables one at a time.  Each lemma takes an action apart as far   *)
(* as its variable is concerned.                                           *)
(***************************************************************************)

\* A handler's record is well formed.
RequestOK(q) ==
  /\ q \in Request
  /\ q.pc # "idle" => q.session \in Sessions
  /\ q.pc \notin {"idle", "bypass", "bypassEvict"} => q.interval \in Intervals
  /\ q.pc \in {"hit", "getJob", "update", "write", "reset", "serve", "invalidate"} => q.graph \in Graphs
  /\ q.pc = "update" => q.job \in Jobs

LEMMA IdleRequestOK == RequestOK(IdleRequest)
<1>1. SomeOptions \in Options
  BY CacheConstants DEF SomeOptions
<1>. QED BY <1>1 DEF RequestOK, IdleRequest, Request, RequestPc

LEMMA ReqStep ==
  ASSUME WellFormed, NEW t \in Threads, Arrive(t) \/ RequestStep(t)
  PROVE  req' \in [Threads -> Request] /\ RequestsOK'
<1>. DEFINE q == req[t]
<1>1. \A x \in Threads : RequestOK(req[x])
  BY DEF WellFormed, TypeOK, RequestsOK, RequestOK
<1>2. SUFFICES \E n : RequestOK(n) /\ req' = [req EXCEPT ![t] = n]
  BY <1>1 DEF WellFormed, TypeOK, RequestsOK, RequestOK
<1>. USE DEF At, Goto, Respond
<1>3. CASE Arrive(t)
  <2>1. PICK s \in Sessions, o \in Options, i \in RequestIntervals :
          req' = [req EXCEPT ![t] = [IdleRequest EXCEPT
                    !.pc = IF i = 0 THEN "bypass" ELSE "lookup",
                    !.session = s, !.options = o, !.interval = i]]
    BY <1>3 DEF Arrive
  <2>2. i \in Intervals \cup {0}
    BY DEF RequestIntervals
  <2>3. RequestOK([IdleRequest EXCEPT !.pc = IF i = 0 THEN "bypass" ELSE "lookup",
                     !.session = s, !.options = o, !.interval = i])
    BY <2>2 DEF RequestOK, IdleRequest, Request, RequestPc
  <2>. QED BY <2>1, <2>3
<1>4. CASE BypassStop(t)
  BY <1>1, <1>4 DEF BypassStop, RequestOK, Request, RequestPc, WellFormed, TypeOK
<1>5. CASE \/ Miss(t) \/ StopStale(t) \/ GenerateAndStore(t) \/ CheckGenerator(t)
           \/ SetGraphGenerator(t)
  <2>1. PICK pc \in {"generate", "checkGenerator", "setGenerator", "start"} :
          req' = [req EXCEPT ![t].pc = pc]
    BY <1>5 DEF Miss, StopStale, GenerateAndStore, CheckGenerator, SetGraphGenerator
  <2>2. req[t].pc \in {"lookup", "stopStale", "generate", "checkGenerator", "setGenerator"}
    BY <1>5 DEF Miss, StopStale, GenerateAndStore, CheckGenerator, SetGraphGenerator
  <2>. QED BY <1>1, <2>1, <2>2 DEF RequestOK, Request, RequestPc, WellFormed, TypeOK
<1>6. CASE Found(t)
  <2>. DEFINE g == sessionGraphs[req[t].session]
              n == [req[t] EXCEPT !.pc = IF GraphOptionsMatch(heap[g].options, req[t].options)
                                         THEN "hit" ELSE "invalidate", !.graph = g]
  <2>1. g \in Graphs
    BY <1>1, <1>6 DEF Found, Cached, RequestOK, WellFormed, TypeOK, CacheTypeOK
  <2>2. req' = [req EXCEPT ![t] = n]
    BY <1>6 DEF Found, WellFormed, TypeOK
  <2>. HIDE DEF g
  <2>3. RequestOK(n)
    BY <1>1, <1>6, <2>1 DEF Found, RequestOK, Request, RequestPc
  <2>. QED BY <2>2, <2>3
<1>7. CASE GetJob(t)
  <2>. DEFINE j == jobs[req[t].session]
              n == [req[t] EXCEPT !.pc = IF j = NoJob THEN "serve" ELSE "update", !.job = j]
  <2>1. j \in Jobs \cup {NoJob}
    BY <1>1, <1>7 DEF GetJob, RequestOK, WellFormed, TypeOK
  <2>2. req' = [req EXCEPT ![t] = n]
    BY <1>7 DEF GetJob, WellFormed, TypeOK
  <2>. HIDE DEF j
  <2>3. RequestOK(n)
    BY <1>1, <1>7, <2>1 DEF GetJob, RequestOK, Request, RequestPc
  <2>. QED BY <2>2, <2>3
<1>8. CASE UpdateJob(t)
  <2>. DEFINE n == [req[t] EXCEPT !.pc = "write", !.job = NoJob]
  <2>1. req' = [req EXCEPT ![t] = n]
    BY <1>8 DEF UpdateJob, WellFormed, TypeOK
  <2>2. RequestOK(n)
    BY <1>1, <1>8 DEF UpdateJob, RequestOK, Request, RequestPc
  <2>. QED BY <2>1, <2>2
<1>9. CASE CompareInterval(t) \/ WriteInterval(t) \/ ResetGraph(t)
  <2>1. PICK pc \in {"serve", "getJob", "reset"} : req' = [req EXCEPT ![t].pc = pc]
    BY <1>9 DEF CompareInterval, WriteInterval, ResetGraph
  <2>2. req[t].pc \in {"hit", "write", "reset"}
    BY <1>9 DEF CompareInterval, WriteInterval, ResetGraph
  <2>. QED BY <1>1, <2>1, <2>2 DEF RequestOK, Request, RequestPc, WellFormed, TypeOK
<1>10. CASE Invalidate(t)
  <2>. DEFINE n == [req[t] EXCEPT !.pc = "stopStale", !.graph = NoGraph]
  <2>1. req' = [req EXCEPT ![t] = n]
    BY <1>10 DEF Invalidate, WellFormed, TypeOK
  <2>2. RequestOK(n)
    BY <1>1, <1>10 DEF Invalidate, RequestOK, Request, RequestPc
  <2>. QED BY <2>1, <2>2
<1>11. CASE BypassEvict(t) \/ Serve(t) \/ GeneratePanics(t) \/ Start(t)
  BY <1>11, IdleRequestOK DEF BypassEvict, Serve, GeneratePanics, Start
<1>. QED
  BY <1>3, <1>4, <1>5, <1>6, <1>7, <1>8, <1>9, <1>10, <1>11 DEF RequestStep

\* The refresh() calls.
RefreshOK(f) ==
  /\ f \in Refresh
  /\ f.pc # "idle" => f.job \in Jobs /\ job[f.job].session \in Sessions
  /\ f.pc \in {"check", "generate"} => f.graph \in Graphs
  /\ f.pc = "set" => f.fresh \in Graphs

LEMMA IdleRefreshOK == RefreshOK(IdleRefresh)
BY DEF RefreshOK, IdleRefresh, Refresh, RefreshPc

LEMMA RfStep ==
  ASSUME WellFormed,
         \/ \E r \in Refreshers : RefreshStep(r)
         \/ \E j \in Jobs : LoopTick(j) \/ UpdateTick(j)
  PROVE  rf' \in [Refreshers -> Refresh] /\ \A r \in Refreshers : RefreshOK(rf'[r])
<1>1. rf \in [Refreshers -> Refresh] /\ \A x \in Refreshers : RefreshOK(rf[x])
  BY DEF WellFormed, TypeOK, RefreshesOK, RefreshOK
<1>2. SUFFICES \E r \in Refreshers : \E n : RefreshOK(n) /\ rf' = [rf EXCEPT ![r] = n]
  BY <1>1 DEF RefreshOK
<1>3. ASSUME NEW j \in Jobs, LoopTick(j) \/ UpdateTick(j)
      PROVE  \E r \in Refreshers : \E n : RefreshOK(n) /\ rf' = [rf EXCEPT ![r] = n]
  <2>. DEFINE n == [IdleRefresh EXCEPT !.pc = "lookup", !.job = j]
  <2>1. Refreshing(j)
    BY <1>3 DEF LoopTick, UpdateTick
  <2>2. Active(job[j])
    <3>1. CASE LoopTick(j)
      BY <3>1 DEF LoopTick, Active
    <3>2. CASE UpdateTick(j)
      BY <3>2 DEF UpdateTick, UpdateFired, Active
    <3>. QED BY <1>3, <3>1, <3>2
  <2>3. RefreshOK(n)
    BY <2>2 DEF WellFormed, JobsOK, RefreshOK, IdleRefresh, Refresh, RefreshPc
  <2>. QED BY <2>1, <2>3 DEF Refreshing
<1>4. ASSUME NEW r \in Refreshers, RefreshStep(r)
      PROVE  \E n : RefreshOK(n) /\ rf' = [rf EXCEPT ![r] = n]
  <2>. USE DEF RfGoto, RfEnd
  <2>1. CASE RfLookup(r)
    <3>. DEFINE g == sessionGraphs[SessionOf(r)]
                n == [rf[r] EXCEPT !.pc = IF SessionOf(r) \in Cached THEN "check" ELSE "stop",
                                   !.graph = g]
    <3>1. /\ g \in Graphs \cup {NoGraph}
          /\ SessionOf(r) \in Cached => g \in Graphs
      BY <1>1, <2>1 DEF RfLookup, SessionOf, Cached, RefreshOK, WellFormed, TypeOK, CacheTypeOK
    <3>2. rf' = [rf EXCEPT ![r] = n]
      BY <1>1, <2>1 DEF RfLookup
    <3>. HIDE DEF g
    <3>3. RefreshOK(n)
      BY <1>1, <2>1, <3>1 DEF RfLookup, RefreshOK, Refresh, RefreshPc
    <3>. QED BY <3>2, <3>3
  <2>2. CASE RfCheckInactivity(r)
    <3>. DEFINE n == [rf[r] EXCEPT !.pc = "evict", !.graph = NoGraph]
                m == [rf[r] EXCEPT !.pc = "generate"]
    <3>1. rf' = [rf EXCEPT ![r] = n] \/ rf' = [rf EXCEPT ![r] = m]
      BY <1>1, <2>2 DEF RfCheckInactivity
    <3>2. RefreshOK(n) /\ RefreshOK(m)
      BY <1>1, <2>2 DEF RfCheckInactivity, RefreshOK, Refresh, RefreshPc
    <3>. QED BY <3>1, <3>2
  <2>3. CASE RfGenerateFails(r) \/ RfSet(r) \/ RfStop(r)
    BY <2>3, IdleRefreshOK DEF RfGenerateFails, RfSet, RfStop
  <2>4. CASE RfGeneratePanics(r)
    <3>. DEFINE n == [rf[r] EXCEPT !.pc = "evict", !.graph = NoGraph]
    <3>1. rf' = [rf EXCEPT ![r] = n]
      BY <1>1, <2>4 DEF RfGeneratePanics
    <3>2. RefreshOK(n)
      BY <1>1, <2>4 DEF RfGeneratePanics, RefreshOK, Refresh, RefreshPc
    <3>. QED BY <3>1, <3>2
  <2>5. CASE RfGenerate(r)
    <3>. DEFINE n == [rf[r] EXCEPT !.pc = "set", !.fresh = NewGraph, !.graph = NoGraph]
    <3>1. rf' = [rf EXCEPT ![r] = n]
      BY <1>1, <2>5 DEF RfGenerate
    <3>2. NewGraph \in Graphs
      BY <2>5, NewIsUnused DEF RfGenerate
    <3>3. RefreshOK(n)
      BY <1>1, <2>5, <3>2 DEF RfGenerate, RefreshOK, Refresh, RefreshPc
    <3>. QED BY <3>1, <3>3
  <2>6. CASE RfEvict(r)
    <3>. DEFINE n == [rf[r] EXCEPT !.pc = "stop"]
    <3>1. rf' = [rf EXCEPT ![r] = n]
      BY <1>1, <2>6 DEF RfEvict
    <3>2. RefreshOK(n)
      BY <1>1, <2>6 DEF RfEvict, RefreshOK, Refresh, RefreshPc
    <3>. QED BY <3>1, <3>2
  <2>. QED BY <1>4, <2>1, <2>2, <2>3, <2>4, <2>5, <2>6 DEF RefreshStep
<1>. QED BY <1>3, <1>4

\* An object just created by StartJob: it was not in use before.
Created(k) ==
  /\ k \notin UsedJobs
  /\ \E s \in Sessions, o \in Options, i \in Intervals : job'[k] = NewRefreshJob(s, o, i)

\* The steps that change neither the manager's map nor a job.
JobsIdle == UNCHANGED <<jobs, job>>

LEMMA QuietSteps ==
  ASSUME [Next]_vars
  PROVE  \/ JobsIdle
         \/ \E t \in Threads : BypassStop(t) \/ UpdateJob(t) \/ StopStale(t) \/ Start(t)
         \/ \E j \in Jobs : LoopExit(j) \/ UpdateTick(j) \/ UpdateExit(j)
         \/ \E r \in Refreshers : RfStop(r)
         \/ StopAll
<1>1. ASSUME NEW t \in Threads, Arrive(t) \/ RequestStep(t)
      PROVE  JobsIdle \/ BypassStop(t) \/ UpdateJob(t) \/ StopStale(t) \/ Start(t)
  BY <1>1 DEF JobsIdle, RequestStep, Arrive, BypassEvict, Miss, Found, CompareInterval,
              GetJob, WriteInterval, ResetGraph, CheckGenerator,
              Serve, Invalidate, GeneratePanics, GenerateAndStore, SetGraphGenerator
<1>2. ASSUME NEW r \in Refreshers, RefreshStep(r)
      PROVE  JobsIdle \/ RfStop(r)
  BY <1>2 DEF JobsIdle, RefreshStep, RfLookup, RfCheckInactivity, RfGenerateFails,
              RfGeneratePanics, RfGenerate, RfSet, RfEvict
<1>3. ASSUME NEW j \in Jobs, LoopTick(j)
      PROVE  JobsIdle
  BY <1>3 DEF JobsIdle, LoopTick
<1>4. Shutdown \/ TimePasses \/ UNCHANGED vars => JobsIdle
  BY DEF JobsIdle, Shutdown, TimePasses, vars
<1>. QED BY <1>1, <1>2, <1>3, <1>4 DEF Next

LEMMA JobStep ==
  ASSUME WellFormed, [Next]_vars
  PROVE  /\ jobs' \in [Sessions -> Jobs \cup {NoJob}]
         /\ job' \in [Jobs -> RefreshJob]
         /\ \A k \in Jobs : SameJob(job[k], job'[k]) \/ Created(k)
         /\ \/ UNCHANGED jobs /\ \A k \in Jobs : SameJob(job[k], job'[k])
            \/ \E s \in Sessions : StopJob(s) /\ \A k \in Jobs : SameJob(job[k], job'[k])
            \/ \E t \in Threads : Start(t)
            \/ StopAll
<1>1. /\ jobs \in [Sessions -> Jobs \cup {NoJob}]
      /\ job \in [Jobs -> RefreshJob]
      /\ cancelled \in BOOLEAN
      /\ \A t \in Threads : RequestOK(req[t])
      /\ \A r \in Refreshers : RefreshOK(rf[r])
  BY DEF WellFormed, TypeOK, RequestsOK, RequestOK, RefreshesOK, RefreshOK
<1>2. \A k \in Jobs : /\ SameJob(job[k], job[k])
                      /\ SameJob(job[k], Stopped(job[k]))
                      /\ \A i \in Intervals : SameJob(job[k], WithInterval(job[k], i))
                      /\ job[k].loop => SameJob(job[k], Cleaned(job[k]))
                      /\ \A b \in UpdateFired(job[k]) : SameJob(job[k], b)
                      /\ \A b \in UpdateEnded(job[k], cancelled) : SameJob(job[k], b)
  <2>1. PICK i \in Intervals : TRUE
    BY CacheConstants
  <2>. QED BY <1>1, <2>1, OpsKeepJob
<1>3. ASSUME NEW j \in Jobs, NEW b, SameJob(job[j], b), job' = [job EXCEPT ![j] = b]
      PROVE  job' \in [Jobs -> RefreshJob] /\ \A k \in Jobs : SameJob(job[k], job'[k])
  BY <1>1, <1>2, <1>3 DEF SameJob
<1>4. CASE JobsIdle
  BY <1>1, <1>2, <1>4 DEF JobsIdle
<1>5. ASSUME NEW s \in Sessions, StopJob(s)
      PROVE  /\ jobs' \in [Sessions -> Jobs \cup {NoJob}]
             /\ job' \in [Jobs -> RefreshJob]
             /\ \A k \in Jobs : SameJob(job[k], job'[k])
  <2>1. CASE jobs[s] = NoJob
    BY <1>1, <1>2, <1>5, <2>1 DEF StopJob
  <2>2. CASE jobs[s] # NoJob
    <3>1. jobs[s] \in Jobs /\ job' = [job EXCEPT ![jobs[s]] = Stopped(job[jobs[s]])]
      BY <1>1, <1>5, <2>2 DEF StopJob, Stop
    <3>. QED BY <1>1, <1>2, <1>3, <1>5, <3>1 DEF StopJob
  <2>. QED BY <2>1, <2>2
<1>6. ASSUME NEW t \in Threads, BypassStop(t) \/ StopStale(t)
      PROVE  req[t].session \in Sessions /\ StopJob(req[t].session)
  BY <1>1, <1>6 DEF BypassStop, StopStale, At, RequestOK
<1>7. ASSUME NEW t \in Threads, UpdateJob(t)
      PROVE  /\ UNCHANGED jobs
             /\ \E j \in Jobs : \E b : SameJob(job[j], b) /\ job' = [job EXCEPT ![j] = b]
  <2>1. /\ req[t].job \in Jobs /\ req[t].interval \in Intervals /\ UNCHANGED jobs
        /\ job' = [job EXCEPT ![req[t].job] = WithInterval(job[req[t].job], req[t].interval)]
    BY <1>1, <1>7 DEF UpdateJob, At, RequestOK
  <2>. QED BY <1>2, <2>1
<1>8. ASSUME NEW t \in Threads, Start(t)
      PROVE  /\ jobs' \in [Sessions -> Jobs \cup {NoJob}]
             /\ job' \in [Jobs -> RefreshJob]
             /\ \A k \in Jobs : SameJob(job[k], job'[k]) \/ Created(k)
  <2>. DEFINE s == req[t].session o == req[t].options i == req[t].interval
  <2>1. s \in Sessions /\ o \in Options /\ i \in Intervals
    BY <1>1, <1>8 DEF Start, At, RequestOK, Request
  <2>2. NewJob \in Jobs /\ NewJob \notin UsedJobs
    BY <1>8, NewIsUnused DEF Start, StartJob
  <2>3. /\ jobs' = [jobs EXCEPT ![s] = NewJob]
        /\ job' = [k \in Jobs |-> IF k = NewJob THEN NewRefreshJob(s, o, i)
                                  ELSE IF k = jobs[s] THEN Stopped(job[k])
                                  ELSE job[k]]
    BY <1>8 DEF Start, StartJob
  <2>4. NewRefreshJob(s, o, i) \in RefreshJob
    BY <2>1 DEF NewRefreshJob, RefreshJob
  <2>. HIDE DEF s, o, i
  <2>5. \A k \in Jobs : SameJob(job[k], job'[k]) \/ Created(k)
    BY <1>2, <2>1, <2>2, <2>3 DEF Created
  <2>6. job' \in [Jobs -> RefreshJob]
    BY <1>2, <2>3, <2>4 DEF SameJob
  <2>. QED BY <1>1, <2>1, <2>2, <2>3, <2>5, <2>6
<1>9. ASSUME NEW j \in Jobs, LoopExit(j) \/ UpdateTick(j) \/ UpdateExit(j)
      PROVE  /\ UNCHANGED jobs
             /\ \E b : SameJob(job[j], b) /\ job' = [job EXCEPT ![j] = b]
  BY <1>2, <1>9 DEF LoopExit, UpdateTick, UpdateExit
<1>10. ASSUME NEW r \in Refreshers, RfStop(r)
       PROVE  /\ UNCHANGED jobs
              /\ \E j \in Jobs : \E b : SameJob(job[j], b) /\ job' = [job EXCEPT ![j] = b]
  BY <1>1, <1>2, <1>10 DEF RfStop, Stop, RefreshOK
<1>11. CASE StopAll
  <2>1. job' \in [Jobs -> RefreshJob] /\ \A k \in Jobs : SameJob(job[k], job'[k])
    BY <1>1, <1>2, <1>11 DEF StopAll, SameJob
  <2>. QED BY <1>11, <2>1 DEF StopAll
<1>. QED BY <1>1, <1>3, <1>4, <1>5, <1>6, <1>7, <1>8, <1>9, <1>10, <1>11, QuietSteps

\* The steps that change neither the cache nor a cached object.
CacheIdle == UNCHANGED <<sessionGraphs, heap>>

LEMMA CacheQuietSteps ==
  ASSUME [Next]_vars
  PROVE  \/ CacheIdle
         \/ \E t \in Threads : BypassEvict(t) \/ Found(t) \/ WriteInterval(t) \/ ResetGraph(t)
                                \/ Invalidate(t) \/ GenerateAndStore(t)
         \/ \E r \in Refreshers : RfGenerate(r) \/ RfSet(r) \/ RfEvict(r)
         \/ TimePasses
<1>1. ASSUME NEW t \in Threads, Arrive(t) \/ RequestStep(t)
      PROVE  \/ CacheIdle
             \/ BypassEvict(t) \/ Found(t) \/ WriteInterval(t) \/ ResetGraph(t)
             \/ Invalidate(t) \/ GenerateAndStore(t)
  BY <1>1 DEF CacheIdle, RequestStep, Arrive, BypassStop, Miss, CompareInterval, GetJob,
              UpdateJob, Serve, StopStale, CheckGenerator, GeneratePanics, SetGraphGenerator, Start
<1>2. ASSUME NEW r \in Refreshers, RefreshStep(r)
      PROVE  CacheIdle \/ RfGenerate(r) \/ RfSet(r) \/ RfEvict(r)
  BY <1>2 DEF CacheIdle, RefreshStep, RfLookup, RfCheckInactivity, RfGenerateFails,
              RfGeneratePanics, RfStop
<1>3. ASSUME NEW j \in Jobs, LoopTick(j) \/ LoopExit(j) \/ UpdateTick(j) \/ UpdateExit(j)
      PROVE  CacheIdle
  BY <1>3 DEF CacheIdle, LoopTick, LoopExit, UpdateTick, UpdateExit
<1>4. StopAll \/ Shutdown \/ UNCHANGED vars => CacheIdle
  BY DEF CacheIdle, StopAll, Shutdown, vars
<1>. QED BY <1>1, <1>2, <1>3, <1>4 DEF Next

\* An object written to a free cell has the type of a cached graph.
LEMMA CacheStep ==
  ASSUME WellFormed, \A j \in Jobs : job[j].owner = job[j].session, [Next]_vars
  PROVE  CacheTypeOK'
<1>1. /\ sessionGraphs \in [Sessions -> Graphs \cup {NoGraph}]
      /\ heap \in [Graphs -> CachedGraph]
      /\ CacheTypeOK
      /\ \A t \in Threads : RequestOK(req[t])
      /\ \A r \in Refreshers : RefreshOK(rf[r])
      /\ job \in [Jobs -> RefreshJob]
  BY DEF WellFormed, TypeOK, CacheTypeOK, RequestsOK, RequestOK, RefreshesOK, RefreshOK
<1>2. CASE CacheIdle
  BY <1>1, <1>2 DEF CacheIdle, CacheTypeOK
<1>3. ASSUME NEW s, Evict(s), UNCHANGED heap PROVE CacheTypeOK'
  BY <1>1, <1>3 DEF Evict, CacheTypeOK
<1>4. ASSUME NEW t \in Threads, Found(t) PROVE CacheTypeOK'
  <2>. DEFINE g == sessionGraphs[req[t].session]
  <2>1. g \in Graphs /\ UNCHANGED sessionGraphs /\ heap' = [heap EXCEPT ![g].age = 0]
    BY <1>1, <1>4 DEF Found, Touch, Cached
  <2>2. [heap[g] EXCEPT !.age = 0] \in CachedGraph
    BY <1>1, <2>1, CacheConstants DEF CachedGraph
  <2>. HIDE DEF g
  <2>. QED BY <1>1, <2>1, <2>2 DEF CacheTypeOK
<1>5. ASSUME NEW t \in Threads, WriteInterval(t) \/ ResetGraph(t) PROVE CacheTypeOK'
  <2>. DEFINE g == req[t].graph s == req[t].session i == req[t].interval
  <2>1. g \in Graphs /\ s \in Sessions /\ i \in Intervals
    BY <1>1, <1>5 DEF WriteInterval, ResetGraph, At, RequestOK
  <2>2. CASE WriteInterval(t)
    <3>1. heap' = [heap EXCEPT ![g].interval = i] /\ UNCHANGED sessionGraphs
      BY <2>2 DEF WriteInterval
    <3>. HIDE DEF g, s, i
    <3>2. [heap[g] EXCEPT !.interval = i] \in CachedGraph
      BY <1>1, <2>1 DEF CachedGraph
    <3>. QED BY <1>1, <2>1, <3>1, <3>2 DEF CacheTypeOK
  <2>3. CASE ResetGraph(t)
    <3>1. SetSessionGraph(s, g, heap[g].mb) /\ UNCHANGED heap
      BY <2>3 DEF ResetGraph
    <3>2. sessionGraphs' \in [Sessions -> Graphs \cup {NoGraph}]
      BY <1>1, <2>1, <3>1, SetKeeps
    <3>. QED BY <1>1, <3>1, <3>2 DEF CacheTypeOK
  <2>. QED BY <1>5, <2>2, <2>3
<1>6. ASSUME NEW t \in Threads, GenerateAndStore(t) PROVE CacheTypeOK'
  <2>. DEFINE s == req[t].session
  <2>1. /\ s \in Sessions /\ req[t].options \in Options /\ req[t].interval \in Intervals
        /\ NewGraph \in Graphs
    BY <1>1, <1>6, NewIsUnused DEF GenerateAndStore, At, RequestOK, Request
  <2>2. PICK mb \in Sizes :
          /\ heap' = [heap EXCEPT ![NewGraph] =
                        [owner |-> s, options |-> req[t].options,
                         interval |-> req[t].interval, age |-> 0, mb |-> mb]]
          /\ SetSessionGraph(s, NewGraph, mb)
    BY <1>6 DEF GenerateAndStore
  <2>3. [owner |-> s, options |-> req[t].options, interval |-> req[t].interval,
         age |-> 0, mb |-> mb] \in CachedGraph
    BY <2>1, CacheConstants DEF CachedGraph
  <2>. HIDE DEF s
  <2>4. sessionGraphs' \in [Sessions -> Graphs \cup {NoGraph}]
    BY <1>1, <2>1, <2>2, SetKeeps
  <2>. QED BY <1>1, <2>1, <2>2, <2>3, <2>4 DEF CacheTypeOK
<1>7. ASSUME NEW r \in Refreshers, RfGenerate(r) PROVE CacheTypeOK'
  <2>. DEFINE j == job[rf[r].job] a == heap[rf[r].graph].age
  <2>1. /\ j.owner \in Sessions /\ j.options \in Options /\ j.interval \in Intervals
        /\ NewGraph \in Graphs
    BY <1>1, <1>7, NewIsUnused DEF RfGenerate, RefreshOK, RefreshJob
  <2>2. a \in 0..AgeCap
    BY <1>1, <1>7 DEF RfGenerate, RefreshOK, CachedGraph
  <2>3. PICK mb \in Sizes :
          heap' = [heap EXCEPT ![NewGraph] =
                     [owner |-> j.owner, options |-> j.options, interval |-> j.interval,
                      age |-> a, mb |-> mb]]
    BY <1>7 DEF RfGenerate
  <2>. HIDE DEF j, a
  <2>4. [owner |-> j.owner, options |-> j.options, interval |-> j.interval,
         age |-> a, mb |-> mb] \in CachedGraph
    BY <2>1, <2>2 DEF CachedGraph
  <2>5. UNCHANGED sessionGraphs
    BY <1>7 DEF RfGenerate
  <2>. QED BY <1>1, <2>1, <2>3, <2>4, <2>5 DEF CacheTypeOK
<1>8. ASSUME NEW r \in Refreshers, RfSet(r) PROVE CacheTypeOK'
  <2>1. /\ SessionOf(r) \in Sessions /\ rf[r].fresh \in Graphs /\ UNCHANGED heap
        /\ SetSessionGraph(SessionOf(r), rf[r].fresh, heap[rf[r].fresh].mb)
    BY <1>1, <1>8 DEF RfSet, SessionOf, RefreshOK
  <2>2. sessionGraphs' \in [Sessions -> Graphs \cup {NoGraph}]
    BY <1>1, <2>1, SetKeeps
  <2>. QED BY <1>1, <2>1, <2>2 DEF CacheTypeOK
<1>9. CASE TimePasses
  <2>1. /\ heap' = [g \in Graphs |-> [heap[g] EXCEPT !.age =
                       IF heap[g].age < AgeCap THEN heap[g].age + 1 ELSE heap[g].age]]
        /\ UNCHANGED sessionGraphs
    BY <1>9 DEF TimePasses, Older
  <2>2. ASSUME NEW g \in Graphs PROVE heap'[g] \in CachedGraph
    <3>. DEFINE a == IF heap[g].age < AgeCap THEN heap[g].age + 1 ELSE heap[g].age
    <3>1. a \in 0..AgeCap
      BY <1>1, CacheConstants DEF CachedGraph
    <3>2. heap'[g] = [heap[g] EXCEPT !.age = a]
      BY <2>1
    <3>. HIDE DEF a
    <3>. QED BY <1>1, <3>1, <3>2 DEF CachedGraph
  <2>. QED BY <1>1, <2>1, <2>2 DEF CacheTypeOK
<1>10. ASSUME NEW t \in Threads, BypassEvict(t) \/ Invalidate(t) PROVE CacheTypeOK'
  BY <1>3, <1>10 DEF BypassEvict, Invalidate
<1>11. ASSUME NEW r \in Refreshers, RfEvict(r) PROVE CacheTypeOK'
  BY <1>3, <1>11 DEF RfEvict
<1>. QED BY <1>2, <1>4, <1>5, <1>6, <1>7, <1>8, <1>9, <1>10, <1>11, CacheQuietSteps
-----------------------------------------------------------------------------
(***************************************************************************)
(* The inductive invariant behind type correctness.                        *)
(***************************************************************************)
OwnersOK == \A j \in Jobs : job[j].owner = job[j].session

Consistent == WellFormed /\ OwnersOK

LEMMA InitConsistent == ASSUME Init PROVE Consistent
<1>1. SomeOptions \in Options /\ SomeInterval \in Intervals
  BY CacheConstants DEF SomeOptions, SomeInterval
<1>2. (CHOOSE c \in CachedGraph : TRUE) \in CachedGraph
  <2>1. PICK s \in Sessions, z \in Sizes : TRUE
    BY CacheConstants
  <2>2. [owner |-> s, options |-> SomeOptions, interval |-> SomeInterval, age |-> 0, mb |-> z]
          \in CachedGraph
    BY <1>1, CacheConstants DEF CachedGraph
  <2>. QED BY <2>2
<1>3. UnusedJob \in RefreshJob /\ ~Active(UnusedJob) /\ UnusedJob.owner = UnusedJob.session
  BY <1>1 DEF UnusedJob, RefreshJob, Active
<1>4. CacheTypeOK
  BY <1>2 DEF Init, CacheInit, CacheTypeOK
<1>5. req \in [Threads -> Request] /\ RequestsOK
  BY IdleRequestOK DEF Init, RequestOK, RequestsOK
<1>6. rf \in [Refreshers -> Refresh] /\ RefreshesOK
  BY IdleRefreshOK DEF Init, RefreshOK, RefreshesOK
<1>7. job \in [Jobs -> RefreshJob] /\ JobsOK /\ OwnersOK
  BY <1>3 DEF Init, JobsOK, OwnersOK
<1>8. /\ graphGenerator \in Sessions \cup {NoSession}
      /\ jobs \in [Sessions -> Jobs \cup {NoJob}]
      /\ cancelled \in BOOLEAN
      /\ budget \in 0..MaxRequests
  <2>1. MaxRequests \in 0..MaxRequests
    BY RefreshConstants
  <2>. QED BY <2>1 DEF Init
<1>. QED BY <1>4, <1>5, <1>6, <1>7, <1>8 DEF Consistent, WellFormed, TypeOK

\* Which processes a step can move.
LEMMA Movers ==
  ASSUME [Next]_vars
  PROVE  /\ \/ UNCHANGED req
            \/ \E t \in Threads : Arrive(t) \/ RequestStep(t)
         /\ \/ UNCHANGED rf
            \/ \E r \in Refreshers : RefreshStep(r)
            \/ \E j \in Jobs : LoopTick(j) \/ UpdateTick(j)
<1>1. ASSUME NEW t \in Threads, Arrive(t) \/ RequestStep(t) PROVE UNCHANGED rf
  BY <1>1 DEF RequestStep, Arrive, BypassStop, BypassEvict, Miss, Found, CompareInterval,
              GetJob, UpdateJob, WriteInterval, ResetGraph, CheckGenerator, Serve, Invalidate,
              StopStale, GeneratePanics, GenerateAndStore,
              SetGraphGenerator, Start
<1>2. ASSUME NEW r \in Refreshers, RefreshStep(r) PROVE UNCHANGED req
  BY <1>2 DEF RefreshStep, RfLookup, RfCheckInactivity, RfGenerateFails, RfGeneratePanics,
              RfGenerate, RfSet, RfEvict, RfStop
<1>3. ASSUME NEW j \in Jobs, LoopTick(j) \/ UpdateTick(j) PROVE UNCHANGED req
  BY <1>3 DEF LoopTick, UpdateTick
<1>4. ASSUME NEW j \in Jobs, LoopExit(j) \/ UpdateExit(j) PROVE UNCHANGED <<req, rf>>
  BY <1>4 DEF LoopExit, UpdateExit
<1>5. StopAll \/ Shutdown \/ TimePasses \/ UNCHANGED vars => UNCHANGED <<req, rf>>
  BY DEF StopAll, Shutdown, TimePasses, vars
<1>. QED BY <1>1, <1>2, <1>3, <1>4, <1>5 DEF Next

\* The three plain variables.
LEMMA PlainStep ==
  ASSUME WellFormed, [Next]_vars
  PROVE  /\ graphGenerator' \in Sessions \cup {NoSession}
         /\ cancelled' \in BOOLEAN
         /\ budget' \in 0..MaxRequests
<1>1. /\ graphGenerator \in Sessions \cup {NoSession}
      /\ cancelled \in BOOLEAN
      /\ budget \in 0..MaxRequests
      /\ \A t \in Threads : RequestOK(req[t])
  BY DEF WellFormed, TypeOK, RequestsOK, RequestOK
<1>2. ASSUME NEW t \in Threads, Arrive(t)
      PROVE  UNCHANGED <<graphGenerator, cancelled>> /\ budget' \in 0..MaxRequests
  BY <1>1, <1>2, RefreshConstants DEF Arrive
<1>3. ASSUME NEW t \in Threads, SetGraphGenerator(t)
      PROVE  UNCHANGED <<budget, cancelled>> /\ graphGenerator' \in Sessions
  BY <1>1, <1>3 DEF SetGraphGenerator, At, RequestOK
<1>4. ASSUME NEW t \in Threads, RequestStep(t), ~SetGraphGenerator(t)
      PROVE  UNCHANGED <<graphGenerator, cancelled, budget>>
  BY <1>4 DEF RequestStep, BypassStop, BypassEvict, Miss, Found, CompareInterval,
              GetJob, UpdateJob, WriteInterval, ResetGraph, CheckGenerator, Serve, Invalidate,
              StopStale, GeneratePanics, GenerateAndStore, Start
<1>5. ASSUME NEW r \in Refreshers, RefreshStep(r)
      PROVE  UNCHANGED <<graphGenerator, cancelled, budget>>
  BY <1>5 DEF RefreshStep, RfLookup, RfCheckInactivity, RfGenerateFails, RfGeneratePanics,
              RfGenerate, RfSet, RfEvict, RfStop
<1>6. ASSUME NEW j \in Jobs, LoopTick(j) \/ LoopExit(j) \/ UpdateTick(j) \/ UpdateExit(j)
      PROVE  UNCHANGED <<graphGenerator, cancelled, budget>>
  BY <1>6 DEF LoopTick, LoopExit, UpdateTick, UpdateExit
<1>7. TimePasses \/ UNCHANGED vars => UNCHANGED <<graphGenerator, cancelled, budget>>
  BY DEF TimePasses, vars
<1>8. StopAll \/ Shutdown => UNCHANGED <<graphGenerator, budget>> /\ cancelled' = TRUE
  BY DEF StopAll, Shutdown
<1>. QED BY <1>1, <1>2, <1>3, <1>4, <1>5, <1>6, <1>7, <1>8 DEF Next

LEMMA StepConsistent == ASSUME Consistent, [Next]_vars PROVE Consistent'
<1>0. WellFormed /\ OwnersOK
  BY DEF Consistent
<1>1. req' \in [Threads -> Request] /\ RequestsOK'
  <2>1. CASE UNCHANGED req
    BY <1>0, <2>1 DEF WellFormed, TypeOK, RequestsOK
  <2>. QED BY <1>0, <2>1, Movers, ReqStep
<1>2. /\ jobs' \in [Sessions -> Jobs \cup {NoJob}]
      /\ job' \in [Jobs -> RefreshJob]
      /\ \A k \in Jobs : SameJob(job[k], job'[k]) \/ Created(k)
  BY <1>0, JobStep
<1>3. JobsOK' /\ OwnersOK'
  <2>1. \A s \in Sessions, o \in Options, i \in Intervals :
          NewRefreshJob(s, o, i).session = s /\ NewRefreshJob(s, o, i).owner = s
    BY DEF NewRefreshJob
  <2>. QED BY <1>0, <1>2, <2>1 DEF WellFormed, JobsOK, OwnersOK, SameJob, Created
<1>4. rf' \in [Refreshers -> Refresh] /\ \A r \in Refreshers : RefreshOK(rf'[r])
  <2>1. CASE UNCHANGED rf
    BY <1>0, <2>1 DEF WellFormed, TypeOK, RefreshesOK, RefreshOK
  <2>. QED BY <1>0, <2>1, Movers, RfStep
<1>5. RefreshesOK'
  <2>1. \A k \in Jobs : job[k].session \in Sessions => job'[k].session \in Sessions
    BY <1>2 DEF SameJob, Created, NewRefreshJob
  <2>. QED BY <1>4, <2>1 DEF RefreshesOK, RefreshOK
<1>6. CacheTypeOK'
  BY <1>0, CacheStep DEF OwnersOK
<1>. QED BY <1>0, <1>1, <1>2, <1>3, <1>4, <1>5, <1>6, PlainStep DEF Consistent, WellFormed, TypeOK

\* The variables of GraphRefresh keep their types, however many requests,
\* jobs and refreshes run together.
THEOREM TypeCorrect == Spec => []TypeOK
<1>1. Init => Consistent
  BY InitConsistent
<1>2. Consistent /\ [Next]_vars => Consistent'
  BY StepConsistent
<1>3. Consistent => TypeOK
  BY DEF Consistent, WellFormed
<1>. QED BY <1>1, <1>2, <1>3, PTL DEF Spec
-----------------------------------------------------------------------------
(***************************************************************************)
(* One live job per session.                                               *)
(***************************************************************************)
LEMMA StepOneLiveJob == ASSUME Consistent, OneLiveJob, [Next]_vars PROVE OneLiveJob'
<1>1. /\ WellFormed
      /\ jobs \in [Sessions -> Jobs \cup {NoJob}]
      /\ job \in [Jobs -> RefreshJob]
      /\ \A j \in Jobs : ~job[j].stopped => job[j].session \in Sessions
      /\ \A t \in Threads : RequestOK(req[t])
  BY DEF Consistent, WellFormed, TypeOK, RequestsOK, RequestOK, JobsOK, Active
<1>2. CASE UNCHANGED jobs /\ \A k \in Jobs : SameJob(job[k], job'[k])
  BY <1>2 DEF OneLiveJob, SameJob
<1>3. ASSUME NEW s \in Sessions, StopJob(s), \A k \in Jobs : SameJob(job[k], job'[k])
      PROVE  OneLiveJob'
  <2>. SUFFICES ASSUME NEW j \in Jobs, ~job'[j].stopped
                PROVE  jobs'[job'[j].session] = j
    BY DEF OneLiveJob
  <2>1. ~job[j].stopped /\ job'[j].session = job[j].session /\ job[j].session \in Sessions
    BY <1>1, <1>3 DEF SameJob
  <2>2. jobs[job[j].session] = j
    BY <2>1 DEF OneLiveJob
  <2>3. jobs[s] # j
    <3>. SUFFICES ASSUME jobs[s] = j PROVE FALSE
      OBVIOUS
    <3>1. job' = [job EXCEPT ![j] = Stopped(job[j])]
      BY <1>3, RefreshConstants DEF StopJob, Stop
    <3>. QED BY <1>1, <3>1 DEF Stopped, RefreshJob
  <2>. QED BY <1>1, <1>3, <2>1, <2>2, <2>3 DEF StopJob
<1>4. ASSUME NEW t \in Threads, Start(t) PROVE OneLiveJob'
  <2>. DEFINE s == req[t].session o == req[t].options i == req[t].interval
  <2>1. s \in Sessions
    BY <1>1, <1>4 DEF Start, At, RequestOK
  <2>2. /\ jobs' = [jobs EXCEPT ![s] = NewJob]
        /\ job' = [k \in Jobs |-> IF k = NewJob THEN NewRefreshJob(s, o, i)
                                  ELSE IF k = jobs[s] THEN Stopped(job[k])
                                  ELSE job[k]]
    BY <1>4 DEF Start, StartJob
  <2>3. NewRefreshJob(s, o, i).session = s
    BY DEF NewRefreshJob
  <2>4. \A k \in Jobs : Stopped(job[k]).stopped
    BY <1>1 DEF Stopped, RefreshJob
  <2>. HIDE DEF s, o, i
  <2>5. ASSUME NEW j \in Jobs, ~job'[j].stopped PROVE jobs'[job'[j].session] = j
    <3>1. CASE j = NewJob
      BY <1>1, <2>1, <2>2, <2>3, <3>1
    <3>2. CASE j # NewJob
      <4>1. j # jobs[s] /\ job'[j] = job[j]
        BY <2>2, <2>4, <2>5, <3>2
      <4>2. jobs[job[j].session] = j /\ job[j].session \in Sessions
        BY <1>1, <2>5, <4>1 DEF OneLiveJob
      <4>. QED BY <1>1, <2>2, <4>1, <4>2
    <3>. QED BY <3>1, <3>2
  <2>. QED BY <2>5 DEF OneLiveJob
<1>5. CASE StopAll
  <2>. SUFFICES ASSUME NEW j \in Jobs PROVE job'[j].stopped
    BY DEF OneLiveJob
  <2>1. CASE \E s \in Sessions : jobs[s] = j
    BY <1>1, <1>5, <2>1 DEF StopAll, Stopped, RefreshJob
  <2>2. CASE ~\E s \in Sessions : jobs[s] = j
    <3>1. job'[j] = job[j]
      BY <1>5, <2>2 DEF StopAll
    <3>. QED BY <1>1, <2>2, <3>1 DEF OneLiveJob
  <2>. QED BY <2>1, <2>2
<1>. QED BY <1>1, <1>2, <1>3, <1>4, <1>5, JobStep

\* StartJob, StopJob and the jobs' own Stop keep at most one live job per
\* session, always the one that StopJob would find.
THEOREM LiveJobIsUnique == Spec => []OneLiveJob
<1>1. Init => Consistent /\ OneLiveJob
  <2>1. UnusedJob.stopped
    BY DEF UnusedJob
  <2>2. Init => OneLiveJob
    BY <2>1 DEF Init, OneLiveJob
  <2>. QED BY <2>2, InitConsistent
<1>2. Consistent /\ OneLiveJob /\ [Next]_vars => (Consistent /\ OneLiveJob)'
  BY StepConsistent, StepOneLiveJob
<1>. QED BY <1>1, <1>2, PTL DEF Spec
-----------------------------------------------------------------------------
(***************************************************************************)
(* Session isolation.  The cache and the handlers only ever hold objects   *)
(* that a refresh may have made some time ago, so the invariant follows    *)
(* ownership also through the refreshes that have not stored theirs yet.   *)
(***************************************************************************)
CacheOwned == \A s \in Sessions : sessionGraphs[s] # NoGraph => heap[sessionGraphs[s]].owner = s

RequestsOwned ==
  \A t \in Threads : req[t].graph # NoGraph => heap[req[t].graph].owner = req[t].session

RefreshesOwned ==
  \A r \in Refreshers :
     rf[r].fresh # NoGraph => /\ rf[r].job \in Jobs
                              /\ heap[rf[r].fresh].owner = job[rf[r].job].session

Owned == CacheOwned /\ RequestsOwned /\ RefreshesOwned

\* No step changes whose an object is, for which options it was made or how
\* large it is, while something refers to it.
SameGraph(c, d) == c.owner = d.owner /\ c.options = d.options /\ c.mb = d.mb

LEMMA ObjectsStay ==
  ASSUME Consistent, [Next]_vars
  PROVE  \A g \in Graphs : g \in UsedGraphs => SameGraph(heap'[g], heap[g])
<1>1. /\ sessionGraphs \in [Sessions -> Graphs \cup {NoGraph}]
      /\ heap \in [Graphs -> CachedGraph]
      /\ \A t \in Threads : RequestOK(req[t])
  BY DEF Consistent, WellFormed, TypeOK, CacheTypeOK, RequestsOK, RequestOK
<1>2. \A g \in Graphs : \A a : SameGraph([heap[g] EXCEPT !.age = a], heap[g])
  BY <1>1 DEF CachedGraph, SameGraph
<1>3. \A g \in Graphs : \A i : SameGraph([heap[g] EXCEPT !.interval = i], heap[g])
  BY <1>1 DEF CachedGraph, SameGraph
<1>0. \A g \in Graphs : SameGraph(heap[g], heap[g])
  BY DEF SameGraph
<1>4. CASE UNCHANGED heap
  BY <1>0, <1>4
<1>5. ASSUME NEW t \in Threads, Found(t)
      PROVE  \A g \in Graphs : SameGraph(heap'[g], heap[g])
  <2>1. heap' = [heap EXCEPT ![sessionGraphs[req[t].session]] =
                   [heap[sessionGraphs[req[t].session]] EXCEPT !.age = 0]]
    BY <1>5 DEF Found, Touch
  <2>. QED BY <1>0, <1>1, <1>2, <2>1
<1>6. ASSUME NEW t \in Threads, WriteInterval(t)
      PROVE  \A g \in Graphs : SameGraph(heap'[g], heap[g])
  <2>1. heap' = [heap EXCEPT ![req[t].graph] =
                   [heap[req[t].graph] EXCEPT !.interval = req[t].interval]]
    BY <1>6 DEF WriteInterval
  <2>. QED BY <1>0, <1>1, <1>3, <2>1
<1>7. ASSUME NEW t \in Threads, GenerateAndStore(t)
      PROVE  \A g \in Graphs : g \in UsedGraphs => SameGraph(heap'[g], heap[g])
  BY <1>0, <1>1, <1>7, NewIsUnused DEF GenerateAndStore
<1>8. ASSUME NEW r \in Refreshers, RfGenerate(r)
      PROVE  \A g \in Graphs : g \in UsedGraphs => SameGraph(heap'[g], heap[g])
  BY <1>0, <1>1, <1>8, NewIsUnused DEF RfGenerate
<1>9. CASE TimePasses
  <2>1. heap' = [g \in Graphs |-> [heap[g] EXCEPT !.age =
                   IF heap[g].age < AgeCap THEN heap[g].age + 1 ELSE heap[g].age]]
    BY <1>9 DEF TimePasses, Older
  <2>. QED BY <1>2, <2>1
<1>10. ASSUME NEW t \in Threads, BypassEvict(t) \/ Invalidate(t) \/ ResetGraph(t)
       PROVE  UNCHANGED heap
  BY <1>10 DEF BypassEvict, Invalidate, ResetGraph
<1>11. ASSUME NEW r \in Refreshers, RfSet(r) \/ RfEvict(r) PROVE UNCHANGED heap
  BY <1>11 DEF RfSet, RfEvict
<1>12. CacheIdle => UNCHANGED heap
  BY DEF CacheIdle
<1>. QED BY <1>4, <1>5, <1>6, <1>7, <1>8, <1>9, <1>10, <1>11, <1>12, CacheQuietSteps

\* Where the graph in the hands of a handler comes from.
LEMMA HandlerGraphs ==
  ASSUME Consistent, [Next]_vars
  PROVE  \A t \in Threads :
           \/ req'[t].graph = NoGraph
           \/ req'[t].graph = req[t].graph /\ req'[t].session = req[t].session
           \/ /\ req'[t].session = req[t].session /\ req[t].session \in Sessions
              /\ req'[t].graph = sessionGraphs[req[t].session]
<1>1. req \in [Threads -> Request] /\ \A t \in Threads : RequestOK(req[t])
  BY DEF Consistent, WellFormed, TypeOK, RequestsOK, RequestOK
<1>2. CASE UNCHANGED req
  BY <1>2
<1>3. ASSUME NEW t \in Threads, Arrive(t) \/ RequestStep(t)
      PROVE  \E n : /\ req' = [req EXCEPT ![t] = n]
                    /\ \/ n.graph = NoGraph
                       \/ n.graph = req[t].graph /\ n.session = req[t].session
                       \/ /\ n.session = req[t].session /\ req[t].session \in Sessions
                          /\ n.graph = sessionGraphs[req[t].session]
  <2>. USE DEF Goto, Respond, At
  <2>0. IdleRequest.graph = NoGraph /\ req[t] \in Request
    BY <1>1 DEF IdleRequest
  <2>1. \A pc : [req[t] EXCEPT !.pc = pc].graph = req[t].graph
             /\ [req[t] EXCEPT !.pc = pc].session = req[t].session
    BY <2>0 DEF Request
  <2>2. CASE Arrive(t)
    <3>1. PICK x \in Sessions, o \in Options, i \in RequestIntervals :
            req' = [req EXCEPT ![t] = [IdleRequest EXCEPT
                      !.pc = IF i = 0 THEN "bypass" ELSE "lookup",
                      !.session = x, !.options = o, !.interval = i]]
      BY <2>2 DEF Arrive
    <3>2. [IdleRequest EXCEPT !.pc = IF i = 0 THEN "bypass" ELSE "lookup",
             !.session = x, !.options = o, !.interval = i].graph = NoGraph
      BY DEF IdleRequest
    <3>. QED BY <3>1, <3>2
  <2>3. CASE \/ BypassStop(t) \/ Miss(t) \/ CompareInterval(t) \/ WriteInterval(t)
             \/ ResetGraph(t) \/ StopStale(t) \/ GenerateAndStore(t) \/ CheckGenerator(t)
             \/ SetGraphGenerator(t)
    <3>1. \E pc : req' = [req EXCEPT ![t] = [req[t] EXCEPT !.pc = pc]]
      BY <2>3 DEF BypassStop, Miss, CompareInterval, WriteInterval, ResetGraph, StopStale,
                  GenerateAndStore, CheckGenerator, SetGraphGenerator
    <3>. QED BY <2>1, <3>1
  <2>4. CASE BypassEvict(t) \/ Serve(t) \/ GeneratePanics(t) \/ Start(t)
    BY <2>0, <2>4 DEF BypassEvict, Serve, GeneratePanics, Start
  <2>5. CASE Found(t)
    <3>. DEFINE g == sessionGraphs[req[t].session]
    <3>1. \E pc : req' = [req EXCEPT ![t] = [req[t] EXCEPT !.pc = pc, !.graph = g]]
      BY <1>1, <2>5 DEF Found
    <3>2. \A pc : [req[t] EXCEPT !.pc = pc, !.graph = g].graph = g
               /\ [req[t] EXCEPT !.pc = pc, !.graph = g].session = req[t].session
      BY <2>0 DEF Request
    <3>3. req[t].session \in Sessions
      BY <1>1, <2>5 DEF Found, RequestOK
    <3>. QED BY <3>1, <3>2, <3>3
  <2>6. CASE GetJob(t) \/ UpdateJob(t)
    <3>1. PICK pc, j : req' = [req EXCEPT ![t] = [req[t] EXCEPT !.pc = pc, !.job = j]]
      <4>1. CASE UpdateJob(t)
        BY <1>1, <4>1 DEF UpdateJob
      <4>2. CASE GetJob(t)
        BY <1>1, <4>2 DEF GetJob
      <4>. QED BY <2>6, <4>1, <4>2
    <3>. DEFINE n == [req[t] EXCEPT !.pc = pc, !.job = j]
    <3>2. n.graph = req[t].graph /\ n.session = req[t].session
      BY <2>0 DEF Request
    <3>. QED BY <3>1, <3>2
  <2>7. CASE Invalidate(t)
    <3>. DEFINE n == [req[t] EXCEPT !.pc = "stopStale", !.graph = NoGraph]
    <3>1. req' = [req EXCEPT ![t] = n]
      BY <1>1, <2>7 DEF Invalidate
    <3>2. n.graph = NoGraph
      BY <2>0 DEF Request
    <3>. QED BY <3>1, <3>2
  <2>. QED BY <1>3, <2>2, <2>3, <2>4, <2>5, <2>6, <2>7 DEF RequestStep
<1>. QED BY <1>1, <1>2, <1>3, Movers

\* Where the graph a refresh is about to store comes from.
LEMMA RefreshGraphs ==
  ASSUME Consistent, [Next]_vars
  PROVE  \A r \in Refreshers :
           \/ rf'[r].fresh = NoGraph
           \/ rf'[r].fresh = rf[r].fresh /\ rf'[r].job = rf[r].job
           \/ RfGenerate(r) /\ rf'[r].fresh = NewGraph /\ rf'[r].job = rf[r].job
<1>1. rf \in [Refreshers -> Refresh]
  BY DEF Consistent, WellFormed, TypeOK
<1>2. IdleRefresh.fresh = NoGraph
  BY DEF IdleRefresh
<1>3. ASSUME NEW j \in Jobs, LoopTick(j) \/ UpdateTick(j)
      PROVE  \A r \in Refreshers : rf'[r].fresh = NoGraph \/ rf'[r] = rf[r]
  <2>1. PICK r \in Refreshers :
          rf' = [rf EXCEPT ![r] = [IdleRefresh EXCEPT !.pc = "lookup", !.job = j]]
    BY <1>3 DEF LoopTick, UpdateTick, Refreshing
  <2>2. [IdleRefresh EXCEPT !.pc = "lookup", !.job = j].fresh = NoGraph
    BY DEF IdleRefresh
  <2>. QED BY <1>1, <2>1, <2>2
<1>4. ASSUME NEW r \in Refreshers, RefreshStep(r)
      PROVE  \E n : /\ rf' = [rf EXCEPT ![r] = n]
                    /\ \/ n.fresh = NoGraph
                       \/ n.fresh = rf[r].fresh /\ n.job = rf[r].job
                       \/ RfGenerate(r) /\ n.fresh = NewGraph /\ n.job = rf[r].job
  <2>. USE DEF RfGoto, RfEnd
  <2>2. CASE RfGenerateFails(r) \/ RfSet(r) \/ RfStop(r)
    BY <1>2, <2>2 DEF RfGenerateFails, RfSet, RfStop
  <2>3. CASE RfGenerate(r)
    <3>. DEFINE n == [rf[r] EXCEPT !.pc = "set", !.fresh = NewGraph, !.graph = NoGraph]
    <3>1. rf' = [rf EXCEPT ![r] = n]
      BY <1>1, <2>3 DEF RfGenerate
    <3>2. n.fresh = NewGraph /\ n.job = rf[r].job
      BY <1>1 DEF Refresh
    <3>. QED BY <2>3, <3>1, <3>2
  <2>4. CASE RfEvict(r) \/ RfCheckInactivity(r) \/ RfGeneratePanics(r) \/ RfLookup(r)
    <3>1. \/ \E pc : rf' = [rf EXCEPT ![r] = [rf[r] EXCEPT !.pc = pc]]
          \/ \E pc, g : rf' = [rf EXCEPT ![r] = [rf[r] EXCEPT !.pc = pc, !.graph = g]]
      <4>1. CASE RfEvict(r)
        BY <1>1, <4>1 DEF RfEvict
      <4>2. CASE RfCheckInactivity(r)
        BY <1>1, <4>2 DEF RfCheckInactivity
      <4>3. CASE RfGeneratePanics(r)
        BY <1>1, <4>3 DEF RfGeneratePanics
      <4>4. CASE RfLookup(r)
        BY <1>1, <4>4 DEF RfLookup
      <4>. QED BY <2>4, <4>1, <4>2, <4>3, <4>4
    <3>2. ASSUME NEW pc, rf' = [rf EXCEPT ![r] = [rf[r] EXCEPT !.pc = pc]]
          PROVE  \E n : rf' = [rf EXCEPT ![r] = n] /\ n.fresh = rf[r].fresh /\ n.job = rf[r].job
      <4>. DEFINE n == [rf[r] EXCEPT !.pc = pc]
      <4>1. n.fresh = rf[r].fresh /\ n.job = rf[r].job
        BY <1>1 DEF Refresh
      <4>. QED BY <3>2, <4>1
    <3>3. ASSUME NEW pc, NEW g, rf' = [rf EXCEPT ![r] = [rf[r] EXCEPT !.pc = pc, !.graph = g]]
          PROVE  \E n : rf' = [rf EXCEPT ![r] = n] /\ n.fresh = rf[r].fresh /\ n.job = rf[r].job
      <4>. DEFINE n == [rf[r] EXCEPT !.pc = pc, !.graph = g]
      <4>1. n.fresh = rf[r].fresh /\ n.job = rf[r].job
        BY <1>1 DEF Refresh
      <4>. QED BY <3>3, <4>1
    <3>. QED BY <3>1, <3>2, <3>3
  <2>. QED BY <1>4, <2>2, <2>3, <2>4 DEF RefreshStep
<1>5. ASSUME NEW r \in Refreshers, RefreshStep(r), NEW x \in Refreshers
      PROVE  \/ rf'[x].fresh = NoGraph
             \/ rf'[x].fresh = rf[x].fresh /\ rf'[x].job = rf[x].job
             \/ RfGenerate(x) /\ rf'[x].fresh = NewGraph /\ rf'[x].job = rf[x].job
  <2>1. CASE x = r
    BY <1>1, <1>4, <1>5, <2>1
  <2>2. CASE x # r
    BY <1>1, <1>4, <1>5, <2>2
  <2>. QED BY <2>1, <2>2
<1>6. UNCHANGED rf => \A r \in Refreshers : rf'[r] = rf[r]
  OBVIOUS
<1>. QED BY <1>3, <1>5, <1>6, Movers

LEMMA StepOwned == ASSUME Consistent, Owned, [Next]_vars PROVE Owned'
<1>1. /\ WellFormed /\ CacheTypeOK
      /\ sessionGraphs \in [Sessions -> Graphs \cup {NoGraph}]
      /\ heap \in [Graphs -> CachedGraph]
      /\ req \in [Threads -> Request] /\ \A t \in Threads : RequestOK(req[t])
      /\ rf \in [Refreshers -> Refresh] /\ \A r \in Refreshers : RefreshOK(rf[r])
      /\ \A j \in Jobs : job[j].owner = job[j].session
  BY DEF Consistent, OwnersOK, WellFormed, TypeOK, CacheTypeOK, RequestsOK, RequestOK,
         RefreshesOK, RefreshOK
<1>2. \A g \in Graphs : g \in UsedGraphs => heap'[g].owner = heap[g].owner
  BY ObjectsStay DEF SameGraph
<1>3. /\ \A s \in Sessions : sessionGraphs[s] \in UsedGraphs
      /\ \A t \in Threads : req[t].graph \in UsedGraphs /\ req[t].graph \in Graphs \cup {NoGraph}
      /\ \A r \in Refreshers : rf[r].fresh \in UsedGraphs /\ rf[r].fresh \in Graphs \cup {NoGraph}
  BY <1>1 DEF UsedGraphs, Request, Refresh
<1>4. CacheOwned'
  <2>1. ASSUME \A x \in Sessions : sessionGraphs'[x] \in {NoGraph, sessionGraphs[x]}
        PROVE  CacheOwned'
    BY <1>1, <1>2, <1>3, <2>1 DEF CacheOwned, Owned
  <2>2. ASSUME NEW s \in Sessions, NEW g \in Graphs, NEW mb, SetSessionGraph(s, g, mb),
               heap'[g].owner = s
        PROVE  CacheOwned'
    <3>1. /\ sessionGraphs'[s] = g
          /\ \A x \in Sessions : x # s => sessionGraphs'[x] \in {NoGraph, sessionGraphs[x]}
      BY <1>1, <2>2, SetKeeps
    <3>. QED BY <1>1, <1>2, <1>3, <2>2, <3>1 DEF CacheOwned, Owned
  <2>3. CASE CacheIdle \/ TimePasses
    BY <2>1, <2>3 DEF CacheIdle, TimePasses
  <2>4. ASSUME NEW s, Evict(s) PROVE CacheOwned'
    BY <1>1, <2>1, <2>4 DEF Evict
  <2>5. ASSUME NEW t \in Threads, ResetGraph(t) PROVE CacheOwned'
    <3>1. /\ req[t].session \in Sessions /\ req[t].graph \in Graphs
          /\ SetSessionGraph(req[t].session, req[t].graph, heap[req[t].graph].mb)
      BY <1>1, <2>5 DEF ResetGraph, At, RequestOK
    <3>2. heap'[req[t].graph].owner = req[t].session
      BY <1>2, <1>3, <3>1, CacheConstants DEF Owned, RequestsOwned
    <3>. QED BY <2>2, <3>1, <3>2
  <2>6. ASSUME NEW t \in Threads, GenerateAndStore(t) PROVE CacheOwned'
    <3>. DEFINE c(mb) == [owner |-> req[t].session, options |-> req[t].options,
                          interval |-> req[t].interval, age |-> 0, mb |-> mb]
    <3>1. PICK mb \in Sizes : /\ heap' = [heap EXCEPT ![NewGraph] = c(mb)]
                              /\ SetSessionGraph(req[t].session, NewGraph, mb)
      BY <2>6 DEF GenerateAndStore
    <3>2. req[t].session \in Sessions /\ NewGraph \in Graphs
      BY <1>1, <2>6, NewIsUnused DEF GenerateAndStore, At, RequestOK
    <3>3. heap'[NewGraph].owner = req[t].session
      BY <1>1, <3>1, <3>2
    <3>. QED BY <2>2, <3>1, <3>2, <3>3
  <2>7. ASSUME NEW r \in Refreshers, RfSet(r) PROVE CacheOwned'
    <3>1. /\ SessionOf(r) \in Sessions /\ rf[r].fresh \in Graphs
          /\ SetSessionGraph(SessionOf(r), rf[r].fresh, heap[rf[r].fresh].mb)
      BY <1>1, <2>7 DEF RfSet, SessionOf, RefreshOK
    <3>2. heap'[rf[r].fresh].owner = SessionOf(r)
      BY <1>2, <1>3, <3>1, CacheConstants DEF Owned, RefreshesOwned, SessionOf
    <3>. QED BY <2>2, <3>1, <3>2
  <2>8. ASSUME NEW t \in Threads,
               BypassEvict(t) \/ Found(t) \/ WriteInterval(t) \/ Invalidate(t)
        PROVE  CacheOwned'
    BY <2>1, <2>4, <2>8 DEF BypassEvict, Found, WriteInterval, Invalidate
  <2>9. ASSUME NEW r \in Refreshers, RfGenerate(r) \/ RfEvict(r) PROVE CacheOwned'
    BY <2>1, <2>4, <2>9 DEF RfGenerate, RfEvict
  <2>. QED BY <2>3, <2>5, <2>6, <2>7, <2>8, <2>9, CacheQuietSteps
<1>5. RequestsOwned'
  <2>. SUFFICES ASSUME NEW t \in Threads, req'[t].graph # NoGraph
                PROVE  heap'[req'[t].graph].owner = req'[t].session
    BY DEF RequestsOwned
  <2>1. CASE req'[t].graph = req[t].graph /\ req'[t].session = req[t].session
    BY <1>2, <1>3, <2>1 DEF Owned, RequestsOwned
  <2>2. CASE /\ req'[t].session = req[t].session /\ req[t].session \in Sessions
             /\ req'[t].graph = sessionGraphs[req[t].session]
    BY <1>1, <1>2, <1>3, <2>2 DEF Owned, CacheOwned
  <2>. QED BY <2>1, <2>2, HandlerGraphs
<1>6. RefreshesOwned'
  <2>. SUFFICES ASSUME NEW r \in Refreshers, rf'[r].fresh # NoGraph
                PROVE  /\ rf'[r].job \in Jobs
                       /\ heap'[rf'[r].fresh].owner = job'[rf'[r].job].session
    BY DEF RefreshesOwned
  <2>1. rf[r].job \in Jobs => job'[rf[r].job].session = job[rf[r].job].session
    BY <1>1, JobStep DEF SameJob, Created, UsedJobs
  <2>2. CASE rf'[r].fresh = rf[r].fresh /\ rf'[r].job = rf[r].job
    BY <1>2, <1>3, <2>1, <2>2 DEF Owned, RefreshesOwned
  <2>3. CASE RfGenerate(r) /\ rf'[r].fresh = NewGraph /\ rf'[r].job = rf[r].job
    <3>1. rf[r].job \in Jobs /\ NewGraph \in Graphs
      BY <1>1, <2>3, NewIsUnused DEF RfGenerate, RefreshOK
    <3>2. heap'[NewGraph].owner = job[rf[r].job].owner
      BY <1>1, <2>3, <3>1 DEF RfGenerate
    <3>. QED BY <1>1, <2>1, <2>3, <3>1, <3>2
  <2>. QED BY <2>2, <2>3, RefreshGraphs
<1>. QED BY <1>4, <1>5, <1>6 DEF Owned

\* No session is ever given a graph that was made with another session's
\* client, for any number of sessions, handlers and refreshes.
THEOREM SessionsAreIsolated == Spec => []SessionIsolation
<1>1. Init => Consistent /\ Owned
  <2>1. Init => CacheOwned
    BY DEF Init, CacheInit, CacheOwned
  <2>2. IdleRequest.graph = NoGraph /\ IdleRefresh.fresh = NoGraph
    BY DEF IdleRequest, IdleRefresh
  <2>3. Init => RequestsOwned /\ RefreshesOwned
    BY <2>2 DEF Init, RequestsOwned, RefreshesOwned
  <2>. QED BY <2>1, <2>3, InitConsistent DEF Owned
<1>2. Consistent /\ Owned /\ [Next]_vars => (Consistent /\ Owned)'
  BY StepConsistent, StepOwned
<1>3. Owned => SessionIsolation
  BY DEF Owned, CacheOwned, RequestsOwned, SessionIsolation, Cached
<1>. QED BY <1>1, <1>2, <1>3, PTL DEF Spec
-----------------------------------------------------------------------------
(***************************************************************************)
(* What is served.  A handler keeps the pointer it looked up while the     *)
(* cache moves on, and objects keep the options they were made for.        *)
(***************************************************************************)
Serving == {"hit", "getJob", "update", "write", "reset", "serve"}

\* A handler is about to serve a graph because it was before, or because it
\* has just found one that matches.
LEMMA ServingSteps ==
  ASSUME Consistent, [Next]_vars
  PROVE  \A t \in Threads :
           \/ req'[t].pc \notin Serving
           \/ /\ req[t].pc \in Serving
              /\ req'[t].graph = req[t].graph /\ req'[t].options = req[t].options
           \/ /\ req[t].session \in Cached
              /\ req[t].session \in Sessions
              /\ req'[t].graph = sessionGraphs[req[t].session]
              /\ req'[t].options = req[t].options
              /\ heap[sessionGraphs[req[t].session]].options = req[t].options
<1>1. req \in [Threads -> Request] /\ \A t \in Threads : RequestOK(req[t])
  BY DEF Consistent, WellFormed, TypeOK, RequestsOK, RequestOK
<1>2. ASSUME NEW t \in Threads, Arrive(t) \/ RequestStep(t)
      PROVE  \E n : /\ req' = [req EXCEPT ![t] = n]
                    /\ \/ n.pc \notin Serving
                       \/ /\ req[t].pc \in Serving
                          /\ n.graph = req[t].graph /\ n.options = req[t].options
                       \/ /\ req[t].session \in Cached
                          /\ req[t].session \in Sessions
                          /\ n.graph = sessionGraphs[req[t].session]
                          /\ n.options = req[t].options
                          /\ heap[sessionGraphs[req[t].session]].options = req[t].options
  <2>. USE DEF Goto, Respond, At
  <2>0. IdleRequest.pc \notin Serving /\ req[t] \in Request
    BY <1>1 DEF IdleRequest, Serving
  <2>1. \A pc : /\ [req[t] EXCEPT !.pc = pc].pc = pc
                /\ [req[t] EXCEPT !.pc = pc].graph = req[t].graph
                /\ [req[t] EXCEPT !.pc = pc].options = req[t].options
    BY <2>0 DEF Request
  <2>2. CASE Arrive(t)
    <3>1. PICK x \in Sessions, o \in Options, i \in RequestIntervals :
            req' = [req EXCEPT ![t] = [IdleRequest EXCEPT
                      !.pc = IF i = 0 THEN "bypass" ELSE "lookup",
                      !.session = x, !.options = o, !.interval = i]]
      BY <2>2 DEF Arrive
    <3>2. [IdleRequest EXCEPT !.pc = IF i = 0 THEN "bypass" ELSE "lookup",
             !.session = x, !.options = o, !.interval = i].pc \notin Serving
      BY DEF IdleRequest, Serving
    <3>. QED BY <3>1, <3>2
  <2>3. CASE BypassEvict(t) \/ Serve(t) \/ GeneratePanics(t) \/ Start(t)
    BY <2>0, <2>3 DEF BypassEvict, Serve, GeneratePanics, Start
  <2>4. CASE \/ BypassStop(t) \/ Miss(t) \/ StopStale(t) \/ GenerateAndStore(t)
             \/ CheckGenerator(t) \/ SetGraphGenerator(t)
    <3>1. PICK pc : pc \notin Serving /\ req' = [req EXCEPT ![t] = [req[t] EXCEPT !.pc = pc]]
      BY <2>4 DEF BypassStop, Miss, StopStale, GenerateAndStore, CheckGenerator,
                  SetGraphGenerator, Serving
    <3>. DEFINE n == [req[t] EXCEPT !.pc = pc]
    <3>2. n.pc \notin Serving
      BY <2>1, <3>1
    <3>. QED BY <3>1, <3>2
  <2>5. CASE CompareInterval(t) \/ WriteInterval(t) \/ ResetGraph(t)
    <3>1. PICK pc : req' = [req EXCEPT ![t] = [req[t] EXCEPT !.pc = pc]]
      BY <2>5 DEF CompareInterval, WriteInterval, ResetGraph
    <3>. DEFINE n == [req[t] EXCEPT !.pc = pc]
    <3>2. n.graph = req[t].graph /\ n.options = req[t].options
      BY <2>1
    <3>3. req[t].pc \in Serving
      BY <2>5 DEF CompareInterval, WriteInterval, ResetGraph, Serving
    <3>. QED BY <3>1, <3>2, <3>3
  <2>6. CASE GetJob(t) \/ UpdateJob(t)
    <3>1. PICK pc, j : req' = [req EXCEPT ![t] = [req[t] EXCEPT !.pc = pc, !.job = j]]
      <4>1. CASE UpdateJob(t)
        BY <1>1, <4>1 DEF UpdateJob
      <4>2. CASE GetJob(t)
        BY <1>1, <4>2 DEF GetJob
      <4>. QED BY <2>6, <4>1, <4>2
    <3>. DEFINE n == [req[t] EXCEPT !.pc = pc, !.job = j]
    <3>2. n.graph = req[t].graph /\ n.options = req[t].options
      BY <2>0 DEF Request
    <3>3. req[t].pc \in Serving
      BY <2>6 DEF GetJob, UpdateJob, Serving
    <3>. QED BY <3>1, <3>2, <3>3
  <2>7. CASE Invalidate(t)
    <3>. DEFINE n == [req[t] EXCEPT !.pc = "stopStale", !.graph = NoGraph]
    <3>1. req' = [req EXCEPT ![t] = n]
      BY <1>1, <2>7 DEF Invalidate
    <3>2. n.pc \notin Serving
      BY <2>0 DEF Request, Serving
    <3>. QED BY <3>1, <3>2
  <2>8. CASE Found(t)
    <3>. DEFINE g == sessionGraphs[req[t].session]
                n == [req[t] EXCEPT !.pc = IF GraphOptionsMatch(heap[g].options, req[t].options)
                                           THEN "hit" ELSE "invalidate", !.graph = g]
    <3>1. req' = [req EXCEPT ![t] = n] /\ req[t].session \in Cached
      BY <1>1, <2>8 DEF Found
    <3>2. n.graph = g /\ n.options = req[t].options
      BY <2>0 DEF Request
    <3>3. n.pc = IF GraphOptionsMatch(heap[g].options, req[t].options) THEN "hit" ELSE "invalidate"
      BY <2>0 DEF Request
    <3>4. n.pc \in Serving => heap[g].options = req[t].options
      BY <3>3 DEF GraphOptionsMatch, Serving
    <3>5. req[t].session \in Sessions
      BY <3>1 DEF Cached
    <3>. QED BY <3>1, <3>2, <3>4, <3>5
  <2>. QED BY <1>2, <2>2, <2>3, <2>4, <2>5, <2>6, <2>7, <2>8 DEF RequestStep
<1>3. CASE UNCHANGED req
  BY <1>3
<1>. QED BY <1>1, <1>2, <1>3, Movers

LEMMA StepServed ==
  ASSUME Consistent, ServedMatchesRequest, [Next]_vars
  PROVE  ServedMatchesRequest'
<1>1. /\ sessionGraphs \in [Sessions -> Graphs \cup {NoGraph}]
      /\ \A t \in Threads : RequestOK(req[t])
  BY DEF Consistent, WellFormed, TypeOK, CacheTypeOK, RequestsOK, RequestOK
<1>2. \A g \in Graphs : g \in UsedGraphs => heap'[g].options = heap[g].options
  BY ObjectsStay DEF SameGraph
<1>. SUFFICES ASSUME NEW t \in Threads, req'[t].pc \in Serving
              PROVE  heap'[req'[t].graph].options = req'[t].options
  BY DEF ServedMatchesRequest, Serving
<1>3. CASE /\ req[t].pc \in Serving
           /\ req'[t].graph = req[t].graph /\ req'[t].options = req[t].options
  <2>1. req[t].graph \in Graphs /\ req[t].graph \in UsedGraphs
    BY <1>1, <1>3 DEF RequestOK, Serving, UsedGraphs
  <2>. QED BY <1>2, <1>3, <2>1 DEF ServedMatchesRequest, Serving
<1>4. CASE /\ req[t].session \in Cached
           /\ req[t].session \in Sessions
           /\ req'[t].graph = sessionGraphs[req[t].session]
           /\ req'[t].options = req[t].options
           /\ heap[sessionGraphs[req[t].session]].options = req[t].options
  <2>1. sessionGraphs[req[t].session] \in Graphs /\ sessionGraphs[req[t].session] \in UsedGraphs
    BY <1>1, <1>4 DEF Cached, UsedGraphs
  <2>. QED BY <1>2, <1>4, <2>1
<1>. QED BY <1>3, <1>4, ServingSteps

\* The graph a handler serves is one for the options of its request, for any
\* number of handlers and refreshes: a refresh stores a new object and never
\* writes into one that a handler holds.
THEOREM ServesWhatWasAsked == Spec => []ServedMatchesRequest
<1>1. Init => Consistent /\ ServedMatchesRequest
  <2>1. Init => ServedMatchesRequest
    BY DEF Init, IdleRequest, ServedMatchesRequest
  <2>. QED BY <2>1, InitConsistent
<1>2. Consistent /\ ServedMatchesRequest /\ [Next]_vars => (Consistent /\ ServedMatchesRequest)'
  BY StepConsistent, StepServed
<1>. QED BY <1>1, <1>2, PTL DEF Spec
-----------------------------------------------------------------------------
(***************************************************************************)
(* Memory.  MemoryOf is a sum over a set of sessions, defined by recursion *)
(* with an arbitrary choice of the next session.  A graph of n MB is       *)
(* represented by n blocks: the sum is then the number of blocks, and what *)
(* is needed of sums are facts about the cardinality of finite sets.       *)
(***************************************************************************)

\* The memory of the sessions S when g and h are sessionGraphs and heap.
Mem(g, h, S) == MapThenSumSet(LAMBDA s : h[g[s]].mb, S)

\* The megabytes of those sessions as a set.
Blocks(g, h, S) == {p \in S \X (0..LargestSize) : p[2] < h[g[p[1]]].mb}

\* LargestSize is what its name says.
LEMMA Largest ==
  /\ LargestSize \in Nat
  /\ \A n \in Sizes : n <= LargestSize
<1>1. PICK m \in Sizes : \A n \in Sizes : n <= m
  BY CacheConstants
<1>2. /\ LargestSize \in Sizes \cup {0}
      /\ \A n \in Sizes \cup {0} : LargestSize >= n
  <2>1. \E x \in Sizes \cup {0} : \A y \in Sizes \cup {0} : x >= y
    BY <1>1, CacheConstants
  <2>. QED BY <2>1 DEF LargestSize, Max
<1>. QED BY <1>2, CacheConstants

\* A finite set of sessions that have graphs.
Sized(g, h, S) == IsFiniteSet(S) /\ \A x \in S : h[g[x]].mb \in Sizes

\* Blocks are finitely many, ...
LEMMA BlocksFinite ==
  ASSUME NEW g, NEW h, NEW S, IsFiniteSet(S)
  PROVE  IsFiniteSet(Blocks(g, h, S)) /\ Cardinality(Blocks(g, h, S)) \in Nat
<1>1. IsFiniteSet(0..LargestSize)
  BY Largest, FS_Interval
<1>2. IsFiniteSet(S \X (0..LargestSize))
  BY <1>1, FS_Product
<1>3. Blocks(g, h, S) \in SUBSET (S \X (0..LargestSize))
  BY DEF Blocks
<1>4. IsFiniteSet(Blocks(g, h, S))
  BY <1>2, <1>3, FS_Subset
<1>. QED BY <1>4, FS_CardinalityType

\* ... as many as the size of the graph for one session, ...
LEMMA BlocksOfOne ==
  ASSUME NEW g, NEW h, NEW x, h[g[x]].mb \in Sizes
  PROVE  Cardinality(Blocks(g, h, {x})) = h[g[x]].mb
<1>. DEFINE n == h[g[x]].mb
<1>1. n \in Nat /\ n <= LargestSize /\ LargestSize \in Nat
  BY Largest, CacheConstants
<1>2. Blocks(g, h, {x}) = {x} \X (0..(n-1))
  BY <1>1 DEF Blocks
<1>3. IsFiniteSet({x}) /\ Cardinality({x}) = 1
  BY FS_Singleton
<1>4. IsFiniteSet(0..(n-1)) /\ Cardinality(0..(n-1)) = n
  <2>. HIDE DEF n
  <2>1. 0 \in Int /\ n - 1 \in Int
    BY <1>1
  <2>2. /\ IsFiniteSet(0..(n-1))
        /\ Cardinality(0..(n-1)) = IF 0 > n-1 THEN 0 ELSE (n-1)-0+1
    BY <2>1, FS_Interval
  <2>. QED BY <1>1, <2>2
<1>5. Cardinality(Blocks(g, h, {x})) = 1 * n
  <2>. HIDE DEF n
  <2>. QED BY <1>2, <1>3, <1>4, FS_Product
<1>. QED BY <1>1, <1>5

\* ... and those of different sessions are different.
LEMMA BlocksApart ==
  ASSUME NEW g, NEW h, NEW S, NEW T, IsFiniteSet(S), IsFiniteSet(T), S \cap T = {}
  PROVE  Cardinality(Blocks(g, h, S \cup T))
           = Cardinality(Blocks(g, h, S)) + Cardinality(Blocks(g, h, T))
<1>1. /\ Blocks(g, h, S \cup T) = Blocks(g, h, S) \cup Blocks(g, h, T)
      /\ Blocks(g, h, S) \cap Blocks(g, h, T) = {}
  BY DEF Blocks
<1>2. /\ IsFiniteSet(Blocks(g, h, S)) /\ Cardinality(Blocks(g, h, S)) \in Nat
      /\ IsFiniteSet(Blocks(g, h, T)) /\ Cardinality(Blocks(g, h, T)) \in Nat
  BY BlocksFinite
<1>3. Cardinality(Blocks(g, h, S) \cup Blocks(g, h, T))
        = Cardinality(Blocks(g, h, S)) + Cardinality(Blocks(g, h, T))
            - Cardinality(Blocks(g, h, S) \cap Blocks(g, h, T))
  BY <1>2, FS_Union, Zenon
<1>4. Cardinality(Blocks(g, h, S) \cap Blocks(g, h, T)) = 0
  BY <1>1, FS_EmptySet, Zenon
<1>5. Cardinality(Blocks(g, h, S \cup T)) = Cardinality(Blocks(g, h, S) \cup Blocks(g, h, T))
  BY <1>1, Zenon
<1>. QED BY <1>2, <1>3, <1>4, <1>5

\* MapThenSumSet counts the blocks.  Its recursion has a solution, namely
\* counting, so the function it chooses is one; a smallest set on which that
\* one does not count cannot exist.
LEMMA MemCounts ==
  ASSUME NEW g, NEW h, NEW S, Sized(g, h, S)
  PROVE  Mem(g, h, S) = Cardinality(Blocks(g, h, S))
<1>. DEFINE one(s) == CHOOSE x \in s : TRUE
            R(f) == f = [s \in SUBSET S |-> IF s = {} THEN 0 ELSE h[g[one(s)]].mb + f[s \ {one(s)}]]
            c == [s \in SUBSET S |-> Cardinality(Blocks(g, h, s))]
            F == CHOOSE f : R(f)
<1>0. \A s \in SUBSET S : IsFiniteSet(s)
  BY FS_Subset DEF Sized
<1>1. \A s \in SUBSET S : s # {} => one(s) \in s
  OBVIOUS
<1>2. ASSUME NEW s \in SUBSET S, s # {}
      PROVE  Cardinality(Blocks(g, h, s)) = h[g[one(s)]].mb + Cardinality(Blocks(g, h, s \ {one(s)}))
  <2>. DEFINE x == one(s)
  <2>1. x \in s
    BY <1>1, <1>2
  <2>. HIDE DEF x
  <2>2. /\ s = {x} \cup (s \ {x}) /\ {x} \cap (s \ {x}) = {}
        /\ s \ {x} \in SUBSET S
    BY <2>1
  <2>3. IsFiniteSet({x}) /\ IsFiniteSet(s \ {x})
    BY <1>0, <2>2, FS_Singleton
  <2>4. Cardinality(Blocks(g, h, s)) = Cardinality(Blocks(g, h, {x})) + Cardinality(Blocks(g, h, s \ {x}))
    BY <2>2, <2>3, BlocksApart
  <2>5. Cardinality(Blocks(g, h, {x})) = h[g[x]].mb
    BY <2>1, BlocksOfOne DEF Sized
  <2>. QED BY <2>4, <2>5 DEF x
<1>3. Cardinality(Blocks(g, h, {})) = 0
  BY FS_EmptySet DEF Blocks
<1>4. R(c)
  <2>1. \A s \in SUBSET S : c[s] = IF s = {} THEN 0 ELSE h[g[one(s)]].mb + c[s \ {one(s)}]
    <3>. TAKE s \in SUBSET S
    <3>1. s \ {one(s)} \in SUBSET S
      OBVIOUS
    <3>. QED BY <1>2, <1>3, <3>1
  <2>. QED BY <2>1
<1>5. R(F)
  <2>. HIDE DEF R, c
  <2>1. \E f : R(f)
    BY <1>4
  <2>. QED BY <2>1
<1>6. \A s \in SUBSET S : F[s] = IF s = {} THEN 0 ELSE h[g[one(s)]].mb + F[s \ {one(s)}]
  <2>. HIDE DEF F, one
  <2>. QED BY <1>5
<1>7. Mem(g, h, S) = F[S]
  BY DEF Mem, MapThenSumSet, MapThenFoldSet
<1>8. \A s \in SUBSET S : F[s] = Cardinality(Blocks(g, h, s))
  <2>. DEFINE B == {s \in SUBSET S : F[s] # Cardinality(Blocks(g, h, s))}
  <2>. SUFFICES ASSUME B # {} PROVE FALSE
    OBVIOUS
  <2>1. IsWellFoundedOn(StrictSubsetOrdering(S), SUBSET S)
    BY FS_StrictSubsetOrderingWellFounded, FS_FiniteSubsetsOfFinite DEF Sized
  <2>2. PICK s \in B : \A t \in B : ~(<<t, s>> \in StrictSubsetOrdering(S))
    <3>. HIDE DEF B
    <3>1. B \subseteq SUBSET S
      BY DEF B
    <3>. QED BY <2>1, <3>1, WFMin
  <2>. HIDE DEF F, one
  <2>3. s # {}
    BY <1>3, <1>6
  <2>. DEFINE t == s \ {one(s)}
  <2>4. t \in SUBSET S /\ t \subseteq s /\ t # s
    BY <1>1, <2>3
  <2>5. t \notin B
    BY <2>2, <2>4 DEF StrictSubsetOrdering
  <2>6. F[t] = Cardinality(Blocks(g, h, t))
    BY <2>4, <2>5
  <2>. QED BY <1>2, <1>6, <2>3, <2>6
<1>. QED BY <1>7, <1>8

\* The memory of two disjoint sets of sessions.
LEMMA MemApart ==
  ASSUME NEW g, NEW h, NEW S, NEW T, Sized(g, h, S), Sized(g, h, T), S \cap T = {}
  PROVE  /\ Mem(g, h, S) \in Nat /\ Mem(g, h, T) \in Nat
         /\ Mem(g, h, S \cup T) = Mem(g, h, S) + Mem(g, h, T)
<1>1. IsFiniteSet(S) /\ IsFiniteSet(T)
  BY DEF Sized
<1>2. Sized(g, h, S \cup T)
  BY <1>1, FS_Union DEF Sized
<1>3. /\ Mem(g, h, S) = Cardinality(Blocks(g, h, S))
      /\ Mem(g, h, T) = Cardinality(Blocks(g, h, T))
      /\ Mem(g, h, S \cup T) = Cardinality(Blocks(g, h, S \cup T))
  BY <1>2, MemCounts
<1>. QED BY <1>1, <1>3, BlocksFinite, BlocksApart

\* The memory of a subset.
LEMMA MemPart ==
  ASSUME NEW g, NEW h, NEW S, NEW T \in SUBSET S, Sized(g, h, S)
  PROVE  /\ Sized(g, h, T) /\ Mem(g, h, T) \in Nat /\ Mem(g, h, S) \in Nat
         /\ Mem(g, h, S) = Mem(g, h, T) + Mem(g, h, S \ T)
         /\ Mem(g, h, T) <= Mem(g, h, S)
<1>1. IsFiniteSet(T) /\ IsFiniteSet(S \ T)
  BY FS_Subset, FS_Difference DEF Sized
<1>2. Sized(g, h, T) /\ Sized(g, h, S \ T)
  BY <1>1 DEF Sized
<1>3. T \cup (S \ T) = S /\ T \cap (S \ T) = {}
  OBVIOUS
<1>4. /\ Mem(g, h, T) \in Nat /\ Mem(g, h, S \ T) \in Nat
      /\ Mem(g, h, T \cup (S \ T)) = Mem(g, h, T) + Mem(g, h, S \ T)
  BY <1>2, <1>3, MemApart
<1>. QED BY <1>2, <1>3, <1>4

\* Only the sizes matter.
LEMMA MemSame ==
  ASSUME NEW g, NEW h, NEW S, Sized(g, h, S), NEW f, NEW k,
         \A x \in S : k[f[x]].mb = h[g[x]].mb
  PROVE  Sized(f, k, S) /\ Mem(f, k, S) = Mem(g, h, S)
<1>1. Sized(f, k, S)
  BY DEF Sized
<1>2. Blocks(f, k, S) = Blocks(g, h, S)
  BY DEF Blocks
<1>. QED BY <1>1, <1>2, MemCounts

\* The memory of one session.
LEMMA MemOne ==
  ASSUME NEW g, NEW h, NEW x, h[g[x]].mb \in Sizes
  PROVE  Sized(g, h, {x}) /\ Mem(g, h, {x}) = h[g[x]].mb
<1>1. Sized(g, h, {x})
  BY FS_Singleton DEF Sized
<1>2. Mem(g, h, {x}) = Cardinality(Blocks(g, h, {x}))
  BY <1>1, MemCounts
<1>. QED BY <1>1, <1>2, BlocksOfOne

\* The least element of a set of naturals, and the greatest of a bounded one.
LEMMA SmallestNat ==
  ASSUME NEW T \in SUBSET Nat, T # {}
  PROVE  \E n \in T : \A m \in T : n <= m
<1>. DEFINE R == OpToRel(<, Nat)
<1>2. \A m, i \in Nat : m < i => <<m, i>> \in R
  BY DEF OpToRel
<1>3. IsWellFoundedOn(R, Nat)
  BY NatLessThanWellFounded
<1>. HIDE DEF R
<1>1. PICK n \in T : \A m \in T : ~(<<m, n>> \in R)
  BY <1>3, WFMin
<1>4. ASSUME NEW m \in T PROVE n <= m
  <2>1. m \in Nat /\ n \in Nat
    OBVIOUS
  <2>2. ~(m < n)
    BY <1>1, <1>2, <2>1, Zenon
  <2>. QED BY <2>1, <2>2
<1>. QED BY <1>4

LEMMA LargestNat ==
  ASSUME NEW k \in Nat, NEW T \in SUBSET (1..k), T # {}
  PROVE  \E n \in T : \A m \in T : m <= n
<1>. DEFINE U == {k - n : n \in T}
<1>1. U \in SUBSET Nat /\ U # {}
  <2>1. PICK t \in T : TRUE
    OBVIOUS
  <2>2. k - t \in U
    OBVIOUS
  <2>3. \A t_1 \in T : k - t_1 \in Nat
    OBVIOUS
  <2>. QED BY <2>2, <2>3
<1>2. PICK u \in U : \A v \in U : u <= v
  <2>. HIDE DEF U
  <2>. QED BY <1>1, SmallestNat
<1>. QED BY <1>2

-----------------------------------------------------------------------------
\* The memory of the model, now and after a step.
LEMMA MemoryIsMem ==
  /\ \A S : MemoryOf(S) = Mem(sessionGraphs, heap, S)
  /\ TotalMemoryMB = Mem(sessionGraphs, heap, Cached)
  /\ TotalMemoryMB' = Mem(sessionGraphs', heap', Cached')
<1>1. \A S : MemoryOf(S) = Mem(sessionGraphs, heap, S)
  BY DEF MemoryOf, Mem
<1>2. TotalMemoryMB = Mem(sessionGraphs, heap, Cached)
  BY DEF MemoryOf, TotalMemoryMB, Mem
<1>3. TotalMemoryMB' = Mem(sessionGraphs', heap', Cached')
  BY DEF MemoryOf, TotalMemoryMB, Mem, MapThenSumSet, MapThenFoldSet
<1>. QED BY <1>1, <1>2, <1>3

\* Cached sessions have graphs with a size.
LEMMA CachedSized ==
  ASSUME CacheTypeOK, IsFiniteSet(Cached)
  PROVE  Sized(sessionGraphs, heap, Cached)
BY DEF CacheTypeOK, CachedGraph, Cached, Sized

(***************************************************************************)
(* evictLRU, whichever order the sort gives: it frees the target or        *)
(* everything, it takes the oldest, and the youngest victim e other than a *)
(* session s was needed: the victims before it, P, free less than the      *)
(* target.                                                                 *)
(***************************************************************************)
LastWasNeeded(V, target) ==
  \E e \in V, P \in SUBSET Cached :
     /\ \A x \in V : Age(x) >= Age(e)
     /\ e \notin P /\ V \subseteq P \cup {e}
     /\ MemoryOf(P) < target

LEMMA Victims ==
  ASSUME CacheTypeOK, IsFiniteSet(Cached), NEW target \in Nat,
         NEW E \in EvictLRU(target), NEW s
  PROVE  /\ E \subseteq Cached
         /\ E = Cached \/ MemoryOf(E) >= target
         /\ \A e \in E, k \in Cached \ E : Age(e) >= Age(k)
         /\ E \ {s} # {} => LastWasNeeded(E \ {s}, target)
<1>. DEFINE n == Cardinality(Cached)
<1>1. PICK q \in OldestFirst :
        E = {q[i] : i \in {k \in DOMAIN q : MemoryOf({q[j] : j \in 1..(k-1)}) < target}}
  BY DEF EvictLRU
<1>2. /\ q \in [1..n -> Cached] /\ DOMAIN q = 1..n
      /\ \A i, j \in 1..n : q[i] = q[j] => i = j
      /\ \A i, j \in 1..n : i < j => Age(q[i]) >= Age(q[j])
  BY DEF OldestFirst
<1>. DEFINE Before(k) == {q[j] : j \in 1..(k-1)}
            D == {k \in 1..n : MemoryOf(Before(k)) < target}
<1>3. E = {q[i] : i \in D}
  BY <1>1, <1>2
<1>4. n \in Nat
  BY FS_CardinalityType
<1>. HIDE DEF n
<1>5. \A k \in 1..n : Before(k) \in SUBSET Cached
  BY <1>2, <1>4
<1>6. \A i, j \in 1..n : i <= j => /\ MemoryOf(Before(i)) \in Nat /\ MemoryOf(Before(j)) \in Nat
                                   /\ MemoryOf(Before(i)) <= MemoryOf(Before(j))
  <2>. TAKE i, j \in 1..n
  <2>1. HAVE i <= j
  <2>2. Before(i) \in SUBSET Before(j) /\ Before(j) \in SUBSET Cached
    BY <1>4, <1>5, <2>1
  <2>. HIDE DEF Before
  <2>3. Sized(sessionGraphs, heap, Before(j))
    BY <2>2, CachedSized, MemPart
  <2>. QED BY <2>2, <2>3, MemPart, MemoryIsMem
<1>7. \A i, j \in 1..n : j \in D /\ i <= j => i \in D
  <2>. HIDE DEF Before
  <2>. QED BY <1>4, <1>6
<1>8. E \subseteq Cached
  BY <1>2, <1>3
<1>9. E = Cached \/ MemoryOf(E) >= target
  <2>1. CASE D = 1..n
    <3>1. q \in Injection(1..n, Cached)
      BY <1>2 DEF Injection, IsInjective
    <3>2. Cardinality(1..n) = n
      <4>1. /\ IsFiniteSet(1..n)
            /\ Cardinality(1..n) = IF 1 > n THEN 0 ELSE n-1+1
        BY <1>4, FS_Interval
      <4>. QED BY <1>4, <4>1
    <3>3. q \in Surjection(1..n, Cached)
      BY <3>1, <3>2, FS_Injection DEF n
    <3>4. Cached \subseteq {q[i] : i \in 1..n}
      BY <3>3 DEF Surjection
    <3>. QED BY <1>3, <1>8, <2>1, <3>4
  <2>2. CASE D # 1..n
    <3>. DEFINE N == (1..n) \ D
    <3>1. N \in SUBSET Nat /\ N # {}
      <4>1. D \subseteq 1..n
        OBVIOUS
      <4>. HIDE DEF D
      <4>2. N # {}
        BY <2>2, <4>1, Zenon
      <4>3. N \subseteq 1..n
        BY Zenon
      <4>. HIDE DEF N
      <4>. QED BY <4>2, <4>3
    <3>2. PICK k \in N : \A m \in N : k <= m
      <4>. HIDE DEF N, D
      <4>. QED BY <3>1, SmallestNat
    <3>3. k \in 1..n /\ ~(MemoryOf(Before(k)) < target)
      OBVIOUS
    <3>4. \A j \in 1..(k-1) : j \in D
      <4>. HIDE DEF D
      <4>. QED BY <1>4, <3>2, <3>3
    <3>5. Before(k) \in SUBSET E
      <4>. HIDE DEF D
      <4>. QED BY <1>3, <3>4
    <3>. HIDE DEF Before, D, N
    <3>6. Sized(sessionGraphs, heap, E)
      BY <1>8, CachedSized, MemPart
    <3>7. /\ MemoryOf(Before(k)) \in Nat /\ MemoryOf(E) \in Nat
          /\ MemoryOf(Before(k)) <= MemoryOf(E)
      BY <3>5, <3>6, MemPart, MemoryIsMem
    <3>. QED BY <3>3, <3>7
  <2>. QED BY <2>1, <2>2
<1>10. \A e \in E, k \in Cached \ E : Age(e) >= Age(k)
  <2>. TAKE e \in E, k \in Cached \ E
  <2>1. PICK i \in D : e = q[i]
    BY <1>3
  <2>2. PICK j \in 1..n : k = q[j]
    <3>1. q \in Injection(1..n, Cached)
      BY <1>2 DEF Injection, IsInjective
    <3>2. Cardinality(1..n) = n
      <4>1. /\ IsFiniteSet(1..n)
            /\ Cardinality(1..n) = IF 1 > n THEN 0 ELSE n-1+1
        BY <1>4, FS_Interval
      <4>. QED BY <1>4, <4>1
    <3>3. q \in Surjection(1..n, Cached)
      BY <3>1, <3>2, FS_Injection DEF n
    <3>. QED BY <3>3 DEF Surjection
  <2>3. i \in 1..n
    OBVIOUS
  <2>. HIDE DEF D
  <2>4. j \notin D
    BY <1>3, <2>2
  <2>5. i < j
    BY <1>4, <1>7, <2>1, <2>2, <2>3, <2>4
  <2>. QED BY <1>2, <2>1, <2>2, <2>3, <2>5
<1>11. ASSUME E \ {s} # {}
       PROVE  LastWasNeeded(E \ {s}, target)
  <2>. DEFINE M == {i \in D : q[i] # s}
  <2>1. M \in SUBSET (1..n) /\ M # {}
    BY <1>3, <1>11
  <2>2. PICK i \in M : \A m \in M : m <= i
    <3>. HIDE DEF M, D
    <3>. QED BY <1>4, <2>1, LargestNat
  <2>3. i \in 1..n /\ q[i] \in E \ {s} /\ MemoryOf(Before(i)) < target
    BY <1>3
  <2>4. \A x \in E \ {s} : \E m \in 1..n : x = q[m] /\ m <= i
    BY <1>3, <2>2
  <2>. HIDE DEF M, D
  <2>5. \A x \in E \ {s} : Age(x) >= Age(q[i])
    <3>. TAKE x \in E \ {s}
    <3>1. PICK m \in 1..n : x = q[m] /\ m <= i
      BY <2>4
    <3>2. CASE m = i
      <4>1. q[i] \in Cached
        BY <1>2, <2>3
      <4>2. Age(q[i]) \in Nat
        BY <4>1, CacheConstants DEF Age, CacheTypeOK, Cached, CachedGraph
      <4>. QED BY <3>1, <3>2, <4>2
    <3>3. CASE m < i
      BY <1>2, <2>3, <3>1, <3>3
    <3>. QED BY <1>4, <2>3, <3>1, <3>2, <3>3
  <2>6. q[i] \notin Before(i)
    BY <1>2, <1>4, <2>3
  <2>7. E \ {s} \subseteq Before(i) \cup {q[i]}
    BY <1>4, <2>3, <2>4
  <2>. HIDE DEF Before
  <2>. QED BY <1>5, <2>3, <2>5, <2>6, <2>7 DEF LastWasNeeded
<1>. HIDE DEF D, Before
<1>. QED BY <1>8, <1>9, <1>10, <1>11
-----------------------------------------------------------------------------
\* SetSessionGraph once its victims E are chosen.
Stored(s, g, E) ==
  sessionGraphs' = [x \in Sessions |-> IF x = s THEN g
                                       ELSE IF x \in E THEN NoGraph
                                       ELSE sessionGraphs[x]]

\* The objects of the sessions S keep their sizes.
SizesStay(S) == \A x \in S : heap'[sessionGraphs[x]].mb = heap[sessionGraphs[x]].mb

\* What a store does to the memory: the sessions E go, s gets an object of mb.
LEMMA StoredMemory ==
  ASSUME CacheTypeOK, IsFiniteSet(Cached),
         NEW s \in Sessions, NEW g \in Graphs, NEW mb \in Sizes, NEW E,
         Stored(s, g, E), heap'[g].mb = mb, SizesStay(Cached \ {s})
  PROVE  /\ Cached' = ((Cached \ E) \ {s}) \cup {s}
         /\ IsFiniteSet(Cached')
         /\ TotalMemoryMB' = MemoryOf((Cached \ E) \ {s}) + mb
<1>. DEFINE K == (Cached \ E) \ {s}
<1>1. Cached' = K \cup {s}
  BY CacheConstants DEF Cached, CacheTypeOK, Stored
<1>2. K \in SUBSET Cached
  OBVIOUS
<1>3. Sized(sessionGraphs, heap, K)
  <2>. HIDE DEF K
  <2>. QED BY <1>2, CachedSized, MemPart
<1>4. \A x \in K : heap'[sessionGraphs'[x]].mb = heap[sessionGraphs[x]].mb
  BY DEF Cached, Stored, SizesStay
<1>5. K \cap {s} = {}
  OBVIOUS
<1>6. sessionGraphs'[s] = g
  BY DEF Stored
<1>. HIDE DEF K
<1>7. /\ Sized(sessionGraphs', heap', K)
      /\ Mem(sessionGraphs', heap', K) = Mem(sessionGraphs, heap, K)
  BY <1>3, <1>4, MemSame
<1>8. /\ Sized(sessionGraphs', heap', {s})
      /\ Mem(sessionGraphs', heap', {s}) = mb
  BY <1>6, MemOne
<1>9. Mem(sessionGraphs', heap', K \cup {s}) = Mem(sessionGraphs, heap, K) + mb
  BY <1>5, <1>7, <1>8, MemApart
<1>10. IsFiniteSet(K \cup {s})
  BY <1>7, FS_AddElement DEF Sized
<1>11. TotalMemoryMB' = MemoryOf(K) + mb
  BY <1>1, <1>9, MemoryIsMem
<1>. QED BY <1>1, <1>10, <1>11 DEF K

\* The victims of a store, and what checkMemoryLimits knew when it chose them.
LEMMA ChosenVictims ==
  ASSUME CacheTypeOK, IsFiniteSet(Cached), NEW s \in Sessions, NEW mb \in Sizes,
         NEW E \in CheckMemoryLimits(s, mb)
  PROVE  LET others == MemoryOf(Cached \ {s})
             target == others + mb - MaxCacheMemoryMB
         IN  /\ others \in Nat /\ target \in Int
             /\ \/ E = {} /\ target <= 0
                \/ target \in Nat /\ target > 0 /\ E \in EvictLRU(target)
<1>. DEFINE others == MemoryOf(Cached \ {s})
            old == IF s \in Cached THEN heap[sessionGraphs[s]].mb ELSE 0
            projected == TotalMemoryMB - old + mb
<1>1. mb \in Nat /\ MaxCacheMemoryMB \in Nat
  BY CacheConstants
<1>2. others \in Nat /\ TotalMemoryMB = others + old
  <2>1. /\ Sized(sessionGraphs, heap, Cached \ {s}) /\ others \in Nat
    BY CachedSized, MemPart, MemoryIsMem
  <2>2. CASE s \in Cached
    <3>1. heap[sessionGraphs[s]].mb \in Sizes
      BY <2>2 DEF CacheTypeOK, CachedGraph, Cached
    <3>2. /\ Sized(sessionGraphs, heap, {s})
          /\ Mem(sessionGraphs, heap, {s}) = old
      BY <2>2, <3>1, MemOne
    <3>3. (Cached \ {s}) \cup {s} = Cached /\ (Cached \ {s}) \cap {s} = {}
      BY <2>2
    <3>4. Mem(sessionGraphs, heap, (Cached \ {s}) \cup {s}) = Mem(sessionGraphs, heap, Cached \ {s}) + old
      BY <2>1, <3>2, <3>3, MemApart
    <3>. QED BY <2>1, <3>3, <3>4, MemoryIsMem
  <2>3. CASE s \notin Cached
    <3>1. Cached \ {s} = Cached
      BY <2>3
    <3>. QED BY <2>1, <2>3, <3>1, MemoryIsMem
  <2>. QED BY <2>2, <2>3
<1>3. old \in Nat
  BY CacheConstants DEF CacheTypeOK, CachedGraph, Cached
<1>4. projected = others + mb
  <2>. HIDE DEF others, old
  <2>. QED BY <1>1, <1>2, <1>3
<1>5. E \in IF projected > MaxCacheMemoryMB THEN EvictLRU(projected - MaxCacheMemoryMB) ELSE {{}}
  BY DEF CheckMemoryLimits
<1>. HIDE DEF projected, others
<1>6. CASE projected > MaxCacheMemoryMB
  BY <1>1, <1>2, <1>4, <1>5, <1>6 DEF others
<1>7. CASE ~(projected > MaxCacheMemoryMB)
  BY <1>1, <1>2, <1>4, <1>5, <1>7 DEF others
<1>. QED BY <1>6, <1>7

\* A store brings the total under the limit plus the size of one graph, and
\* under the limit when its session is new and does not end up alone.
LEMMA StoreRestores ==
  ASSUME CacheTypeOK, IsFiniteSet(Cached),
         NEW s \in Sessions, NEW g \in Graphs, NEW mb \in Sizes,
         SetSessionGraph(s, g, mb), heap'[g].mb = mb, SizesStay(Cached \ {s})
  PROVE  /\ IsFiniteSet(Cached')
         /\ MemoryOvershootBounded'
         /\ s \notin Cached => TotalMemoryMB' <= MaxCacheMemoryMB \/ Cached' = {s}
<1>1. PICK E \in CheckMemoryLimits(s, mb) : Stored(s, g, E)
  BY DEF SetSessionGraph, Stored
<1>. DEFINE K == (Cached \ E) \ {s}
            others == MemoryOf(Cached \ {s})
            target == others + mb - MaxCacheMemoryMB
<1>2. /\ Cached' = K \cup {s} /\ IsFiniteSet(Cached')
      /\ TotalMemoryMB' = MemoryOf(K) + mb
  <2>. HIDE DEF K
  <2>. QED BY <1>1, StoredMemory DEF K
<1>3. /\ others \in Nat /\ target \in Int
      /\ \/ E = {} /\ target <= 0
         \/ target \in Nat /\ target > 0 /\ E \in EvictLRU(target)
  BY ChosenVictims
<1>4. /\ mb \in Nat /\ mb <= LargestSize /\ LargestSize \in Nat
      /\ MaxCacheMemoryMB \in Nat
  BY Largest, CacheConstants
<1>5. TotalMemoryMB' <= MaxCacheMemoryMB + LargestSize
      /\ (s \notin Cached => TotalMemoryMB' <= MaxCacheMemoryMB \/ Cached' = {s})
  <2>1. CASE E = {} /\ target <= 0
    <3>1. K = Cached \ {s}
      BY <2>1
    <3>2. TotalMemoryMB' = others + mb
      BY <1>2, <3>1
    <3>. HIDE DEF others, K
    <3>. QED BY <1>3, <1>4, <2>1, <3>2
  <2>2. CASE target \in Nat /\ target > 0 /\ E \in EvictLRU(target)
    <3>. HIDE DEF target
    <3>1. E \subseteq Cached /\ (E = Cached \/ MemoryOf(E) >= target)
      BY <2>2, Victims
    <3>2. CASE E = Cached
      <4>1. K = {}
        BY <3>2
      <4>2. MemoryOf(K) = 0
        <5>1. Sized(sessionGraphs, heap, {})
          BY FS_EmptySet DEF Sized
        <5>2. Mem(sessionGraphs, heap, {}) = Cardinality(Blocks(sessionGraphs, heap, {}))
          BY <5>1, MemCounts
        <5>3. Cardinality(Blocks(sessionGraphs, heap, {})) = 0
          BY FS_EmptySet DEF Blocks
        <5>. QED BY <4>1, <5>2, <5>3, MemoryIsMem
      <4>3. Cached' = {s}
        BY <1>2, <4>1
      <4>. HIDE DEF K
      <4>. QED BY <1>2, <1>4, <4>2, <4>3
    <3>3. CASE MemoryOf(E) >= target
      <4>1. /\ MemoryOf(K) \in Nat /\ MemoryOf(E \ {s}) \in Nat
            /\ others = MemoryOf(K) + MemoryOf(E \ {s})
        <5>. DEFINE V == E \ {s}
        <5>1. /\ V \in SUBSET Cached /\ K \in SUBSET Cached
              /\ Cached \ {s} = K \cup V /\ K \cap V = {}
          BY <3>1
        <5>. HIDE DEF K, V
        <5>2. Sized(sessionGraphs, heap, K) /\ Sized(sessionGraphs, heap, V)
          BY <5>1, CachedSized, MemPart
        <5>3. /\ Mem(sessionGraphs, heap, K) \in Nat /\ Mem(sessionGraphs, heap, V) \in Nat
              /\ Mem(sessionGraphs, heap, K \cup V) = Mem(sessionGraphs, heap, K) + Mem(sessionGraphs, heap, V)
          BY <5>1, <5>2, MemApart
        <5>4. others = Mem(sessionGraphs, heap, K \cup V)
          BY <5>1, MemoryIsMem, Zenon
        <5>. QED BY <5>3, <5>4, MemoryIsMem DEF V
      <4>2. CASE s \notin E
        <5>1. E \ {s} = E
          BY <4>2
        <5>2. MemoryOf(E \ {s}) >= target
          BY <3>3, <5>1
        <5>. HIDE DEF K, others
        <5>. QED BY <1>2, <1>3, <1>4, <4>1, <5>2 DEF target
      <4>3. CASE s \in E
        <5>1. s \in Cached
          BY <3>1, <4>3
        <5>2. heap[sessionGraphs[s]].mb \in Sizes
          BY <5>1 DEF CacheTypeOK, CachedGraph, Cached
        <5>3. /\ Sized(sessionGraphs, heap, {s})
              /\ Mem(sessionGraphs, heap, {s}) = heap[sessionGraphs[s]].mb
          BY <5>2, MemOne
        <5>4. Sized(sessionGraphs, heap, E)
          BY <3>1, CachedSized, MemPart
        <5>5. MemoryOf(E) = heap[sessionGraphs[s]].mb + MemoryOf(E \ {s})
          <6>. DEFINE one == {s}
          <6>1. one \in SUBSET E
            BY <4>3
          <6>2. Mem(sessionGraphs, heap, one) = heap[sessionGraphs[s]].mb
            BY <5>3
          <6>3. MemoryOf(E \ {s}) = Mem(sessionGraphs, heap, E \ one)
            BY MemoryIsMem, Zenon
          <6>. HIDE DEF one
          <6>4. Mem(sessionGraphs, heap, E)
                  = Mem(sessionGraphs, heap, one) + Mem(sessionGraphs, heap, E \ one)
            BY <5>4, <6>1, MemPart
          <6>. QED BY <6>2, <6>3, <6>4, MemoryIsMem
        <5>6. heap[sessionGraphs[s]].mb \in Nat /\ heap[sessionGraphs[s]].mb <= LargestSize
          BY <5>2, Largest, CacheConstants
        <5>. HIDE DEF K, others
        <5>. QED BY <1>2, <1>3, <1>4, <3>3, <4>1, <5>1, <5>5, <5>6 DEF target
      <4>. QED BY <4>2, <4>3
    <3>. QED BY <3>1, <3>2, <3>3
  <2>. QED BY <1>3, <2>1, <2>2
<1>. QED BY <1>2, <1>5 DEF MemoryOvershootBounded
-----------------------------------------------------------------------------
\* The cells of the cached sessions do not change their size, and a session
\* is dropped or stays as it is: the memory does not grow.
LEMMA NothingStored ==
  ASSUME CacheTypeOK, IsFiniteSet(Cached), MemoryOvershootBounded,
         \A x \in Sessions : sessionGraphs'[x] \in {NoGraph, sessionGraphs[x]},
         SizesStay(Cached)
  PROVE  IsFiniteSet(Cached') /\ MemoryOvershootBounded'
<1>1. /\ Cached' \in SUBSET Cached
      /\ \A x \in Cached' : sessionGraphs'[x] = sessionGraphs[x]
  BY DEF Cached
<1>2. Sized(sessionGraphs, heap, Cached)
  BY CachedSized
<1>. DEFINE C == Cached'
<1>. HIDE DEF C
<1>3. /\ Sized(sessionGraphs, heap, C)
      /\ Mem(sessionGraphs, heap, C) \in Nat /\ Mem(sessionGraphs, heap, Cached) \in Nat
      /\ Mem(sessionGraphs, heap, C) <= Mem(sessionGraphs, heap, Cached)
  <2>1. C \in SUBSET Cached
    BY <1>1 DEF C
  <2>. QED BY <1>2, <2>1, MemPart
<1>4. \A x \in C : heap'[sessionGraphs'[x]].mb = heap[sessionGraphs[x]].mb
  BY <1>1 DEF C, SizesStay
<1>5. /\ Sized(sessionGraphs', heap', C)
      /\ Mem(sessionGraphs', heap', C) = Mem(sessionGraphs, heap, C)
  BY <1>3, <1>4, MemSame
<1>6. TotalMemoryMB' = Mem(sessionGraphs', heap', C)
  BY MemoryIsMem DEF C
<1>7. TotalMemoryMB = Mem(sessionGraphs, heap, Cached)
  BY MemoryIsMem
<1>8. LargestSize \in Nat /\ MaxCacheMemoryMB \in Nat
  BY Largest, CacheConstants
<1>9. TotalMemoryMB' <= MaxCacheMemoryMB + LargestSize
  BY <1>3, <1>5, <1>6, <1>7, <1>8 DEF MemoryOvershootBounded
<1>10. IsFiniteSet(Cached')
  BY <1>5 DEF Sized, C
<1>. QED BY <1>9, <1>10 DEF MemoryOvershootBounded

\* The cache on its own.
CacheInv == CacheTypeOK /\ IsFiniteSet(Cached) /\ MemoryOvershootBounded

LEMMA CacheStarts == CacheInit => CacheInv
<1>. SUFFICES ASSUME CacheInit PROVE CacheInv
  OBVIOUS
<1>1. CachedGraph # {}
  <2>1. PICK s \in Sessions, o \in Options, i \in Intervals, m \in Sizes : TRUE
    BY CacheConstants
  <2>2. [owner |-> s, options |-> o, interval |-> i, age |-> 0, mb |-> m] \in CachedGraph
    BY CacheConstants DEF CachedGraph
  <2>. QED BY <2>2
<1>2. CacheTypeOK
  BY <1>1 DEF CacheInit, CacheTypeOK
<1>3. Cached = {}
  BY DEF CacheInit, Cached
<1>4. IsFiniteSet({}) /\ Cardinality({}) = 0
  BY FS_EmptySet
<1>5. Sized(sessionGraphs, heap, {})
  BY <1>4 DEF Sized
<1>6. Mem(sessionGraphs, heap, {}) = Cardinality(Blocks(sessionGraphs, heap, {}))
  BY <1>5, MemCounts
<1>7. Blocks(sessionGraphs, heap, {}) = {}
  BY DEF Blocks
<1>8. TotalMemoryMB = 0
  BY <1>3, <1>4, <1>6, <1>7, MemoryIsMem
<1>. QED BY <1>2, <1>3, <1>4, <1>8, Largest, CacheConstants DEF CacheInv, MemoryOvershootBounded

\* Store(s) puts a new object under s and changes no size.
LEMMA StoreTypes ==
  ASSUME CacheTypeOK, NEW s \in Sessions, Store(s)
  PROVE  \E g \in Graphs, mb \in Sizes :
           /\ g \notin {sessionGraphs[x] : x \in Sessions}
           /\ SetSessionGraph(s, g, mb)
           /\ CacheTypeOK' /\ heap'[g].mb = mb
           /\ SizesStay(Cached \ {s})
<1>1. PICK g \in Graphs \ {sessionGraphs[x] : x \in Sessions}, c \in CachedGraph :
        /\ heap' = [heap EXCEPT ![g] = c]
        /\ SetSessionGraph(s, g, c.mb)
  BY DEF Store
<1>2. PICK E : Stored(s, g, E)
  BY <1>1 DEF SetSessionGraph, Stored
<1>3. CacheTypeOK'
  BY <1>1, <1>2 DEF CacheTypeOK, Stored
<1>4. c.mb \in Sizes
  BY DEF CachedGraph
<1>5. heap'[g].mb = c.mb
  BY <1>1 DEF CacheTypeOK
<1>6. SizesStay(Cached \ {s})
  BY <1>1 DEF CacheTypeOK, Cached, SizesStay
<1>. QED BY <1>1, <1>3, <1>4, <1>5, <1>6

\* A step of the cache.
LEMMA CacheInvStep == ASSUME CacheInv, [CacheNext]_cacheVars PROVE CacheInv'
<1>. USE DEF CacheInv
<1>1. ASSUME NEW s \in Sessions, Store(s) PROVE CacheInv'
  <2>1. PICK g \in Graphs, mb \in Sizes :
           /\ SetSessionGraph(s, g, mb)
           /\ CacheTypeOK' /\ heap'[g].mb = mb
           /\ SizesStay(Cached \ {s})
    BY <1>1, StoreTypes
  <2>3. IsFiniteSet(Cached') /\ MemoryOvershootBounded'
    BY <2>1, StoreRestores
  <2>. QED BY <2>1, <2>3
<1>2. ASSUME CacheTypeOK',
             \A x \in Sessions : sessionGraphs'[x] \in {NoGraph, sessionGraphs[x]},
             SizesStay(Cached)
      PROVE  CacheInv'
  BY <1>2, NothingStored
<1>3. ASSUME NEW s \in Sessions, GetSessionGraph(s) PROVE CacheInv'
  <2>1. heap' = [heap EXCEPT ![sessionGraphs[s]] = [heap[sessionGraphs[s]] EXCEPT !.age = 0]]
        /\ sessionGraphs' = sessionGraphs
    BY <1>3 DEF GetSessionGraph, Touch
  <2>4. /\ sessionGraphs[s] \in Graphs /\ heap \in [Graphs -> CachedGraph]
        /\ heap[sessionGraphs[s]] \in CachedGraph
    BY <1>3 DEF GetSessionGraph, Cached, CacheTypeOK
  <2>5. [heap[sessionGraphs[s]] EXCEPT !.age = 0] \in CachedGraph
    BY <2>4, CacheConstants DEF CachedGraph
  <2>2. CacheTypeOK'
    BY <2>1, <2>4, <2>5 DEF CacheTypeOK
  <2>3. SizesStay(Cached)
    BY <2>1 DEF CacheTypeOK, CachedGraph, Cached, SizesStay
  <2>. QED BY <1>2, <2>1, <2>2, <2>3
<1>4. ASSUME NEW s \in Sessions, Remove(s) PROVE CacheInv'
  <2>1. CacheTypeOK' /\ heap' = heap
        /\ \A x \in Sessions : sessionGraphs'[x] \in {NoGraph, sessionGraphs[x]}
    BY <1>4 DEF Remove, Evict, CacheTypeOK
  <2>. QED BY <1>2, <2>1 DEF SizesStay
<1>5. CASE RemoveAll
  <2>1. CacheTypeOK' /\ heap' = heap
        /\ \A x \in Sessions : sessionGraphs'[x] \in {NoGraph, sessionGraphs[x]}
    BY <1>5 DEF RemoveAll, Clear, CacheTypeOK
  <2>. QED BY <1>2, <2>1 DEF SizesStay
<1>6. CASE Tick
  <2>1. heap' = [g \in Graphs |-> [heap[g] EXCEPT !.age =
                   IF heap[g].age < AgeCap THEN heap[g].age + 1 ELSE heap[g].age]]
        /\ sessionGraphs' = sessionGraphs
    BY <1>6 DEF Tick, Older
  <2>2. \A g \in Graphs : heap[g] \in CachedGraph
    BY DEF CacheTypeOK
  <2>3. \A g \in Graphs : heap'[g] \in CachedGraph /\ heap'[g].mb = heap[g].mb
    BY <2>1, <2>2, CacheConstants DEF CachedGraph
  <2>4. CacheTypeOK'
    BY <2>1, <2>3 DEF CacheTypeOK
  <2>5. SizesStay(Cached)
    BY <2>3 DEF CacheTypeOK, Cached, SizesStay
  <2>. QED BY <1>2, <2>1, <2>4, <2>5
<1>7. CASE UNCHANGED cacheVars
  <2>1. CacheTypeOK' /\ heap' = heap /\ sessionGraphs' = sessionGraphs
    BY <1>7 DEF cacheVars, CacheTypeOK
  <2>. QED BY <1>2, <2>1 DEF SizesStay
<1>. QED BY <1>1, <1>3, <1>4, <1>5, <1>6, <1>7 DEF CacheNext

LEMMA CacheAlways == CacheSpec => []CacheInv
BY CacheStarts, CacheInvStep, PTL DEF CacheSpec

\* However graphs are stored, replaced, retrieved and dropped, the memory of
\* the cache stays within the limit and the size of one graph: replacing does
\* not add up, although checkMemoryLimits may count the old graph twice.
THEOREM CacheMemoryBounded == CacheSpec => []MemoryOvershootBounded
<1>1. CacheInv => MemoryOvershootBounded
  BY DEF CacheInv
<1>. QED BY <1>1, CacheAlways, PTL

\* Only Store(s) makes a session s cached, or gives it another graph.
LEMMA OnlyStoreStores ==
  ASSUME CacheTypeOK, [CacheNext]_cacheVars, NEW s \in Sessions,
         sessionGraphs'[s] \notin {NoGraph, sessionGraphs[s]}
  PROVE  Store(s)
<1>1. ASSUME NEW x \in Sessions, Store(x), x # s PROVE FALSE
  <2>1. PICK g \in Graphs, mb \in Sizes : SetSessionGraph(x, g, mb)
    BY <1>1 DEF Store, CachedGraph
  <2>. QED BY <1>1, <2>1 DEF SetSessionGraph
<1>2. ASSUME NEW x \in Sessions, GetSessionGraph(x) PROVE FALSE
  BY <1>2 DEF GetSessionGraph
<1>3. ASSUME NEW x \in Sessions, Remove(x) PROVE FALSE
  BY <1>3 DEF Remove, Evict, CacheTypeOK
<1>4. ~RemoveAll /\ ~Tick /\ ~UNCHANGED cacheVars
  BY DEF RemoveAll, Clear, Tick, cacheVars
<1>. QED BY <1>1, <1>2, <1>3, <1>4 DEF CacheNext

\* Storing the graph of a session that had none brings the memory under the
\* limit, or leaves that graph alone in the cache.
THEOREM InsertsRestoreLimit == CacheSpec => InsertRestoresLimit
<1>1. ASSUME CacheInv, [CacheNext]_cacheVars, NEW s \in Sessions, s \notin Cached, s \in Cached'
      PROVE  TotalMemoryMB' <= MaxCacheMemoryMB \/ Cached' = {s}
  <2>1. CacheTypeOK /\ IsFiniteSet(Cached)
    BY <1>1 DEF CacheInv
  <2>2. Store(s)
    BY <1>1, <2>1, OnlyStoreStores DEF Cached
  <2>3. PICK g \in Graphs, mb \in Sizes :
           /\ SetSessionGraph(s, g, mb)
           /\ CacheTypeOK' /\ heap'[g].mb = mb
           /\ SizesStay(Cached \ {s})
    BY <2>1, <2>2, StoreTypes
  <2>. QED BY <1>1, <2>1, <2>3, StoreRestores
<1>2. CacheInv /\ [CacheNext]_cacheVars =>
        [\A s \in Sessions : s \notin Cached /\ s \in Cached'
            => TotalMemoryMB' <= MaxCacheMemoryMB \/ Cached' = {s}]_cacheVars
  BY <1>1
<1>. QED BY <1>2, CacheAlways, PTL DEF CacheSpec, InsertRestoresLimit

\* The victims of a store, apart from the session itself.
LEMMA StoreEvictsOldest ==
  ASSUME CacheTypeOK, IsFiniteSet(Cached),
         NEW s \in Sessions, NEW g \in Graphs, NEW mb \in Sizes,
         SetSessionGraph(s, g, mb), heap'[g].mb = mb, SizesStay(Cached \ {s}),
         (Cached \ Cached') \ {s} # {}
  PROVE  /\ \A e \in (Cached \ Cached') \ {s}, k \in (Cached \cap Cached') \ {s} : Age(e) >= Age(k)
         /\ \E e \in (Cached \ Cached') \ {s} :
              /\ \A x \in (Cached \ Cached') \ {s} : Age(x) >= Age(e)
              /\ TotalMemoryMB' + heap[sessionGraphs[e]].mb > MaxCacheMemoryMB
<1>1. PICK E \in CheckMemoryLimits(s, mb) : Stored(s, g, E)
  BY DEF SetSessionGraph, Stored
<1>. DEFINE K == (Cached \ E) \ {s}
            others == MemoryOf(Cached \ {s})
            target == others + mb - MaxCacheMemoryMB
<1>2. Cached' = K \cup {s} /\ TotalMemoryMB' = MemoryOf(K) + mb
  <2>. HIDE DEF K
  <2>. QED BY <1>1, StoredMemory DEF K
<1>3. others \in Nat /\ (E = {} \/ (target \in Nat /\ E \in EvictLRU(target)))
  BY ChosenVictims
<1>4. (Cached \ Cached') \ {s} = (Cached \cap E) \ {s} /\ (Cached \cap Cached') \ {s} = K
  BY <1>2
<1>5. E # {} /\ target \in Nat /\ E \in EvictLRU(target)
  BY <1>3, <1>4
<1>6. mb \in Nat /\ MaxCacheMemoryMB \in Nat
  BY CacheConstants
<1>. HIDE DEF target
<1>7. /\ E \subseteq Cached
      /\ \A e \in E, k \in Cached \ E : Age(e) >= Age(k)
      /\ E \ {s} # {} => LastWasNeeded(E \ {s}, target)
  BY <1>5, Victims
<1>8. (Cached \ Cached') \ {s} = E \ {s}
  BY <1>4, <1>7
<1>. DEFINE V == E \ {s}
<1>9. LastWasNeeded(V, target)
  BY <1>7, <1>8
<1>. HIDE DEF V
<1>10. PICK e \in V, P \in SUBSET Cached :
          /\ \A y \in V : Age(y) >= Age(e)
          /\ e \notin P /\ V \subseteq P \cup {e}
          /\ MemoryOf(P) < target
  BY <1>9 DEF LastWasNeeded
<1>. USE DEF V
<1>11. MemoryOf(K) + heap[sessionGraphs[e]].mb + MemoryOf(P) >= others
  <2>. DEFINE m(S) == Mem(sessionGraphs, heap, S)
              R == Cached \ {s}
              Q == P \cap R
              O == R \ Q
  <2>1. Sized(sessionGraphs, heap, Cached)
    BY CachedSized
  <2>2. Sized(sessionGraphs, heap, R) /\ Sized(sessionGraphs, heap, P)
    BY <2>1, MemPart
  <2>3. m(Q) \in Nat /\ m(R) = m(Q) + m(O)
    <3>1. Q \in SUBSET R /\ O \in SUBSET R /\ R = Q \cup O /\ Q \cap O = {}
      OBVIOUS
    <3>. HIDE DEF Q, R, O
    <3>2. Sized(sessionGraphs, heap, Q) /\ Sized(sessionGraphs, heap, O)
      BY <2>2, <3>1, MemPart
    <3>3. m(Q) \in Nat /\ m(Q \cup O) = m(Q) + m(O)
      BY <3>1, <3>2, MemApart
    <3>. QED BY <3>1, <3>3
  <2>4. m(P) \in Nat /\ m(Q) <= m(P)
    <3>1. Q \in SUBSET P
      OBVIOUS
    <3>. HIDE DEF Q
    <3>. QED BY <2>2, <3>1, MemPart, Zenon
  <2>5. O \subseteq K \cup {e} /\ K \cap {e} = {} /\ K \cup {e} \subseteq Cached
    BY <1>7, <1>10
  <2>6. Sized(sessionGraphs, heap, K) /\ heap[sessionGraphs[e]].mb \in Sizes
    BY <1>7, <2>1, MemPart DEF Sized
  <2>7. /\ Sized(sessionGraphs, heap, {e}) /\ m({e}) = heap[sessionGraphs[e]].mb
    BY <2>6, MemOne
  <2>. HIDE DEF K, O, Q
  <2>8. m(K) \in Nat /\ m({e}) \in Nat /\ m(K \cup {e}) = m(K) + m({e})
    <3>1. m(K) \in Nat /\ m({e}) \in Nat
      BY <2>5, <2>6, <2>7, MemApart
    <3>2. m(K \cup {e}) = m(K) + m({e})
      BY <2>5, <2>6, <2>7, MemApart
    <3>. QED BY <3>1, <3>2
  <2>9. Sized(sessionGraphs, heap, K \cup {e})
    BY <2>1, <2>5, MemPart
  <2>10. m(O) \in Nat /\ m(O) <= m(K \cup {e})
    <3>1. O \in SUBSET (K \cup {e})
      BY <2>5
    <3>. QED BY <2>9, <3>1, MemPart, Zenon
  <2>11. MemoryOf(K) = m(K) /\ MemoryOf(P) = m(P) /\ others = m(R)
    BY MemoryIsMem, Zenon
  <2>. HIDE DEF m, others, R
  <2>. QED BY <2>3, <2>4, <2>7, <2>8, <2>10, <2>11
<1>12. MemoryOf(K) \in Nat /\ MemoryOf(P) \in Nat /\ heap[sessionGraphs[e]].mb \in Nat
  <2>1. Sized(sessionGraphs, heap, Cached)
    BY CachedSized
  <2>2. MemoryOf(K) \in Nat
    BY <2>1, MemPart, MemoryIsMem
  <2>3. MemoryOf(P) \in Nat
    BY <2>1, MemPart, MemoryIsMem
  <2>. QED BY <1>7, <2>1, <2>2, <2>3, CacheConstants DEF Sized
<1>13. TotalMemoryMB' + heap[sessionGraphs[e]].mb > MaxCacheMemoryMB
  <2>. HIDE DEF K, others
  <2>. QED BY <1>2, <1>3, <1>5, <1>6, <1>10, <1>11, <1>12 DEF target
<1>14. \A x \in (Cached \ Cached') \ {s}, k \in (Cached \cap Cached') \ {s} : Age(x) >= Age(k)
  BY <1>4, <1>7, <1>8
<1>15. e \in (Cached \ Cached') \ {s} /\ \A x \in (Cached \ Cached') \ {s} : Age(x) >= Age(e)
  BY <1>8, <1>10
<1>. QED BY <1>13, <1>14, <1>15

\* evictLRU drops no session that was accessed after one that stays, and none
\* that could have stayed: with the most recent of the victims the cache would
\* have been above its limit.
THEOREM LeastRecentEvicted == CacheSpec => OnlyLeastRecentEvicted
<1>1. ASSUME CacheInv, [CacheNext]_cacheVars, NEW s \in Sessions,
             sessionGraphs'[s] \notin {sessionGraphs[s], NoGraph},
             (Cached \ Cached') \ {s} # {}
      PROVE  /\ \A e \in (Cached \ Cached') \ {s}, k \in (Cached \cap Cached') \ {s} : Age(e) >= Age(k)
             /\ \E e \in (Cached \ Cached') \ {s} :
                  /\ \A x \in (Cached \ Cached') \ {s} : Age(x) >= Age(e)
                  /\ TotalMemoryMB' + heap[sessionGraphs[e]].mb > MaxCacheMemoryMB
  <2>1. CacheTypeOK /\ IsFiniteSet(Cached)
    BY <1>1 DEF CacheInv
  <2>2. Store(s)
    BY <1>1, <2>1, OnlyStoreStores
  <2>3. PICK g \in Graphs, mb \in Sizes :
           /\ SetSessionGraph(s, g, mb)
           /\ CacheTypeOK' /\ heap'[g].mb = mb
           /\ SizesStay(Cached \ {s})
    BY <2>1, <2>2, StoreTypes
  <2>. QED BY <1>1, <2>1, <2>3, StoreEvictsOldest
<1>2. CacheInv /\ [CacheNext]_cacheVars =>
        [\A s \in Sessions :
           LET gone == (Cached \ Cached') \ {s}
               kept == (Cached \cap Cached') \ {s}
           IN  sessionGraphs'[s] \notin {sessionGraphs[s], NoGraph} /\ gone # {} =>
                 /\ \A e \in gone, k \in kept : Age(e) >= Age(k)
                 /\ \E e \in gone :
                      /\ \A x \in gone : Age(x) >= Age(e)
                      /\ TotalMemoryMB' + heap[sessionGraphs[e]].mb > MaxCacheMemoryMB]_cacheVars
  BY <1>1
<1>. QED BY <1>2, CacheAlways, PTL DEF CacheSpec, OnlyLeastRecentEvicted
-----------------------------------------------------------------------------
(***************************************************************************)
(* The cache in use.  A handler or a refresh stores an object of its own,  *)
(* which may be an old one or the one that is cached already.              *)
(***************************************************************************)
StoresGraph(s, g, mb) == SetSessionGraph(s, g, mb) /\ heap'[g].mb = mb

LEMMA CacheChanges ==
  ASSUME Consistent, [Next]_vars
  PROVE  \/ \A x \in Sessions : sessionGraphs'[x] \in {NoGraph, sessionGraphs[x]}
         \/ \E s \in Sessions, g \in Graphs, mb \in Sizes : StoresGraph(s, g, mb)
<1>. DEFINE Changes == \/ \A x \in Sessions : sessionGraphs'[x] \in {NoGraph, sessionGraphs[x]}
                       \/ \E s \in Sessions, g \in Graphs, mb \in Sizes : StoresGraph(s, g, mb)
<1>1. /\ heap \in [Graphs -> CachedGraph]
      /\ sessionGraphs \in [Sessions -> Graphs \cup {NoGraph}]
      /\ \A t \in Threads : RequestOK(req[t])
      /\ \A r \in Refreshers : RefreshOK(rf[r])
  BY DEF Consistent, WellFormed, TypeOK, CacheTypeOK, RequestsOK, RequestOK, RefreshesOK, RefreshOK
<1>2. \A g \in Graphs : heap[g].mb \in Sizes
  BY <1>1 DEF CachedGraph
<1>3. ASSUME UNCHANGED sessionGraphs PROVE Changes
  BY <1>3
<1>4. ASSUME NEW s, Evict(s) PROVE Changes
  BY <1>1, <1>4 DEF Evict
<1>5. ASSUME NEW s \in Sessions, NEW g \in Graphs, NEW mb \in Sizes, StoresGraph(s, g, mb)
      PROVE  Changes
  BY <1>5
<1>. HIDE DEF Changes
<1>6. ASSUME NEW t \in Threads, ResetGraph(t) PROVE Changes
  <2>1. /\ req[t].session \in Sessions /\ req[t].graph \in Graphs
        /\ StoresGraph(req[t].session, req[t].graph, heap[req[t].graph].mb)
    BY <1>1, <1>6 DEF ResetGraph, At, RequestOK, StoresGraph
  <2>. QED BY <1>2, <1>5, <2>1
<1>7. ASSUME NEW t \in Threads, GenerateAndStore(t) PROVE Changes
  <2>1. PICK mb \in Sizes :
          /\ heap' = [heap EXCEPT ![NewGraph] =
                        [owner |-> req[t].session, options |-> req[t].options,
                         interval |-> req[t].interval, age |-> 0, mb |-> mb]]
          /\ SetSessionGraph(req[t].session, NewGraph, mb)
    BY <1>7 DEF GenerateAndStore
  <2>2. req[t].session \in Sessions /\ NewGraph \in Graphs
    BY <1>1, <1>7, NewIsUnused DEF GenerateAndStore, At, RequestOK
  <2>3. heap'[NewGraph].mb = mb
    BY <1>1, <2>1, <2>2
  <2>. QED BY <1>5, <2>1, <2>2, <2>3 DEF StoresGraph
<1>8. ASSUME NEW r \in Refreshers, RfSet(r) PROVE Changes
  <2>1. /\ SessionOf(r) \in Sessions /\ rf[r].fresh \in Graphs
        /\ StoresGraph(SessionOf(r), rf[r].fresh, heap[rf[r].fresh].mb)
    BY <1>1, <1>8 DEF RfSet, SessionOf, RefreshOK, StoresGraph
  <2>. QED BY <1>2, <1>5, <2>1
<1>9. ASSUME NEW t \in Threads,
             BypassEvict(t) \/ Found(t) \/ WriteInterval(t) \/ Invalidate(t)
      PROVE  Changes
  BY <1>3, <1>4, <1>9 DEF BypassEvict, Found, WriteInterval, Invalidate
<1>10. ASSUME NEW r \in Refreshers, RfGenerate(r) \/ RfEvict(r) PROVE Changes
  BY <1>3, <1>4, <1>10 DEF RfGenerate, RfEvict
<1>11. ASSUME CacheIdle \/ TimePasses PROVE Changes
  BY <1>3, <1>11 DEF CacheIdle, TimePasses
<1>. QED BY <1>6, <1>7, <1>8, <1>9, <1>10, <1>11, CacheQuietSteps DEF Changes

\* Cached graphs keep their sizes.
LEMMA CachedSizesStay ==
  ASSUME Consistent, [Next]_vars
  PROVE  CacheTypeOK /\ SizesStay(Cached) /\ \A s : SizesStay(Cached \ {s})
<1>1. CacheTypeOK
  BY DEF Consistent, WellFormed, TypeOK
<1>2. \A s \in Cached : sessionGraphs[s] \in Graphs /\ sessionGraphs[s] \in UsedGraphs
  BY <1>1 DEF CacheTypeOK, Cached, UsedGraphs
<1>3. \A g \in Graphs : g \in UsedGraphs => heap'[g].mb = heap[g].mb
  BY ObjectsStay DEF SameGraph
<1>. QED BY <1>1, <1>2, <1>3 DEF SizesStay

InUse == Consistent /\ IsFiniteSet(Cached) /\ MemoryOvershootBounded

LEMMA StepMemory == ASSUME InUse, [Next]_vars PROVE InUse'
<1>1. /\ Consistent /\ CacheTypeOK /\ IsFiniteSet(Cached) /\ MemoryOvershootBounded
      /\ SizesStay(Cached) /\ \A s : SizesStay(Cached \ {s})
  BY CachedSizesStay DEF InUse
<1>2. ASSUME \A x \in Sessions : sessionGraphs'[x] \in {NoGraph, sessionGraphs[x]}
      PROVE  IsFiniteSet(Cached') /\ MemoryOvershootBounded'
  BY <1>1, <1>2, NothingStored
<1>3. ASSUME NEW s \in Sessions, NEW g \in Graphs, NEW mb \in Sizes, StoresGraph(s, g, mb)
      PROVE  IsFiniteSet(Cached') /\ MemoryOvershootBounded'
  BY <1>1, <1>3, StoreRestores DEF StoresGraph
<1>. QED BY <1>1, <1>2, <1>3, CacheChanges, StepConsistent DEF InUse

LEMMA InUseAlways == Spec => []InUse
<1>1. Init => InUse
  BY InitConsistent, CacheStarts DEF Init, CacheInv, InUse
<1>. QED BY <1>1, StepMemory, PTL DEF Spec

\* The same bound for the cache under handlers and background refreshes, which
\* store objects they made some time ago, or stored before.
THEOREM RefreshMemoryBounded == Spec => []MemoryOvershootBounded
<1>1. InUse => MemoryOvershootBounded
  BY DEF InUse
<1>. QED BY <1>1, InUseAlways, PTL

\* A step that gives a session a graph it did not have is a store for it.
LEMMA StoreInUse ==
  ASSUME InUse, [Next]_vars, NEW s \in Sessions,
         sessionGraphs'[s] \notin {NoGraph, sessionGraphs[s]}
  PROVE  \E g \in Graphs, mb \in Sizes : StoresGraph(s, g, mb)
<1>1. Consistent /\ CacheTypeOK
  BY CachedSizesStay DEF InUse
<1>2. PICK x \in Sessions, g \in Graphs, mb \in Sizes : StoresGraph(x, g, mb)
  BY <1>1, CacheChanges
<1>3. x = s
  BY <1>1, <1>2, SetKeeps DEF StoresGraph
<1>. QED BY <1>2, <1>3

\* Insertions by handlers, and by refreshes whose session was evicted
\* meanwhile, restore the limit as well.
THEOREM RefreshInsertsRestoreLimit == Spec => InsertRestoresLimit
<1>1. ASSUME InUse, [Next]_vars, NEW s \in Sessions, s \notin Cached, s \in Cached'
      PROVE  TotalMemoryMB' <= MaxCacheMemoryMB \/ Cached' = {s}
  <2>1. CacheTypeOK /\ IsFiniteSet(Cached) /\ SizesStay(Cached \ {s})
    BY <1>1, CachedSizesStay DEF InUse
  <2>2. PICK g \in Graphs, mb \in Sizes : StoresGraph(s, g, mb)
    BY <1>1, StoreInUse DEF Cached
  <2>. QED BY <1>1, <2>1, <2>2, StoreRestores DEF StoresGraph
<1>2. InUse /\ [Next]_vars =>
        [\A s \in Sessions : s \notin Cached /\ s \in Cached'
            => TotalMemoryMB' <= MaxCacheMemoryMB \/ Cached' = {s}]_cacheVars
  BY <1>1
<1>. QED BY <1>2, InUseAlways, PTL DEF Spec, InsertRestoresLimit

\* Also in use, where a refresh stores a graph with the age it read before it
\* generated, only the least recently used are evicted.
THEOREM RefreshEvictsLeastRecent == Spec => OnlyLeastRecentEvicted
<1>1. ASSUME InUse, [Next]_vars, NEW s \in Sessions,
             sessionGraphs'[s] \notin {sessionGraphs[s], NoGraph},
             (Cached \ Cached') \ {s} # {}
      PROVE  /\ \A e \in (Cached \ Cached') \ {s}, k \in (Cached \cap Cached') \ {s} : Age(e) >= Age(k)
             /\ \E e \in (Cached \ Cached') \ {s} :
                  /\ \A x \in (Cached \ Cached') \ {s} : Age(x) >= Age(e)
                  /\ TotalMemoryMB' + heap[sessionGraphs[e]].mb > MaxCacheMemoryMB
  <2>1. CacheTypeOK /\ IsFiniteSet(Cached) /\ SizesStay(Cached \ {s})
    BY <1>1, CachedSizesStay DEF InUse
  <2>2. PICK g \in Graphs, mb \in Sizes : StoresGraph(s, g, mb)
    BY <1>1, StoreInUse
  <2>. QED BY <1>1, <2>1, <2>2, StoreEvictsOldest DEF StoresGraph
<1>2. InUse /\ [Next]_vars =>
        [\A s \in Sessions :
           LET gone == (Cached \ Cached') \ {s}
               kept == (Cached \cap Cached') \ {s}
           IN  sessionGraphs'[s] \notin {sessionGraphs[s], NoGraph} /\ gone # {} =>
                 /\ \A e \in gone, k \in kept : Age(e) >= Age(k)
                 /\ \E e \in gone :
                      /\ \A x \in gone : Age(x) >= Age(e)
                      /\ TotalMemoryMB' + heap[sessionGraphs[e]].mb > MaxCacheMemoryMB]_cacheVars
  BY <1>1
<1>. QED BY <1>2, InUseAlways, PTL DEF Spec, OnlyLeastRecentEvicted
=============================================================================
