------------------------ MODULE RefreshTickerProofs ------------------------
(***************************************************************************)
(* A refresh job is never deaf, for any number of overlapping              *)
(* UpdateInterval calls.  NeverDeaf alone is not inductive: the loop may   *)
(* take from resetChan a ticker nobody stopped (QueuedTickerRuns), and it  *)
(* listens only once it has installed one (LoopHasTicker).                 *)
(*                                                                         *)
(* The job in detail implements JobLifecycle, the job that GraphRefresh    *)
(* assumes.  The mapping counts superseded updaters, so they have to be    *)
(* finitely many at any time (Countable), and the proof shows for every    *)
(* step which operation of RefreshJobOps it is.                            *)
(***************************************************************************)
EXTENDS RefreshTicker, FiniteSetTheorems, TLAPS

QueuedTickerRuns == \A i \in DOMAIN resetChan : resetChan[i].running
LoopHasTicker == loop = "select" => ticker \in Ticker

Attentive == QueuedTickerRuns /\ LoopHasTicker /\ NeverDeaf

\* The variables keep their types.
THEOREM TypeCorrect == Spec => []TypeOK
<1>1. Init => TypeOK
  <2>. SUFFICES ASSUME Init PROVE TypeOK
    OBVIOUS
  <2>1. [pc |-> "idle", interval |-> refreshInterval, cancelled |-> TRUE] \in Updater
    BY DEF Init, Updater
  <2>2. upd \in [Updaters -> Updater]
    BY <2>1 DEF Init
  <2>3. budget \in 0..MaxUpdates
    BY TickerConstants DEF Init
  <2>4. resetChan \in {<<>>} \cup {<<k>> : k \in Ticker}
    BY DEF Init
  <2>. QED BY <2>2, <2>3, <2>4 DEF Init, TypeOK
<1>2. TypeOK /\ [Next]_vars => TypeOK'
  <2>. SUFFICES ASSUME TypeOK, [Next]_vars PROVE TypeOK'
    OBVIOUS
  <2>. USE DEF TypeOK
  <2>1. CASE LoopStep
    <3>1. CASE StartLoop BY <3>1 DEF StartLoop
    <3>2. CASE FirstTimer BY <3>2 DEF FirstTimer
    <3>3. CASE InstallTicker BY <3>3 DEF InstallTicker, NewTicker, Ticker
    <3>4. CASE ResetTicker
      <4>1. PICK k \in Ticker : resetChan = <<k>>
        BY <3>4 DEF ResetTicker
      <4>2. ticker' = k /\ resetChan' = <<>>
        BY <3>4, <4>1 DEF ResetTicker
      <4>. QED BY <3>4, <4>2 DEF ResetTicker
    <3>5. CASE LoopReturns BY <3>5 DEF LoopReturns, StopTicker, Ticker
    <3>. QED BY <2>1, <3>1, <3>2, <3>3, <3>4, <3>5 DEF LoopStep
  <2>2. CASE Stop BY <2>2 DEF Stop
  <2>3. CASE Shutdown BY <2>3 DEF Shutdown
  <2>4. ASSUME NEW i \in Intervals, UpdateInterval(i) PROVE TypeOK'
    <3>1. upd' \in [Updaters -> Updater] /\ latest' \in Updaters
      <4>1. PICK u \in Updaters :
              /\ latest' = u
              /\ upd' = [v \in Updaters |->
                   IF v = u THEN [pc |-> "wait", interval |-> i, cancelled |-> FALSE]
                   ELSE IF v = latest THEN [upd[v] EXCEPT !.cancelled = TRUE]
                   ELSE upd[v]]
        BY <2>4 DEF UpdateInterval
      <4>2. [pc |-> "wait", interval |-> i, cancelled |-> FALSE] \in Updater
        BY DEF Updater
      <4>3. \A v \in Updaters : [upd[v] EXCEPT !.cancelled = TRUE] \in Updater
        BY DEF Updater
      <4>. QED BY <4>1, <4>2, <4>3
    <3>2. ticker' \in Ticker \cup {NoTicker}
      BY <2>4 DEF UpdateInterval, StopTicker, Ticker
    <3>3. budget' \in 0..MaxUpdates
      BY <2>4, TickerConstants DEF UpdateInterval
    <3>. QED BY <2>4, <3>1, <3>2, <3>3 DEF UpdateInterval
  <2>5. ASSUME NEW u \in Updaters, UpdaterStep(u) PROVE TypeOK'
    <3>1. CASE UpdateFires(u) BY <3>1 DEF UpdateFires, Updater
    <3>2. CASE UpdateCancelled(u) BY <3>2 DEF UpdateCancelled, Updater
    <3>3. CASE UpdateRefreshed(u) BY <3>3 DEF UpdateRefreshed, Updater
    <3>4. CASE SendTicker(u)
      <4>1. NewTicker(upd[u].interval) \in Ticker
        BY DEF NewTicker, Ticker, Updater
      <4>2. upd' \in [Updaters -> Updater]
        BY <3>4 DEF SendTicker, Updater
      <4>. QED BY <3>4, <4>1, <4>2 DEF SendTicker
    <3>5. CASE DropTicker(u) BY <3>5 DEF DropTicker, Updater
    <3>. QED BY <2>5, <3>1, <3>2, <3>3, <3>4, <3>5 DEF UpdaterStep
  <2>6. CASE UNCHANGED vars BY <2>6 DEF vars
  <2>. QED BY <2>1, <2>2, <2>3, <2>4, <2>5, <2>6 DEF Next
<1>. QED BY <1>1, <1>2, PTL DEF Spec

\* Until it is stopped, the loop of a job has a running ticker, or one is
\* queued for it, or an UpdateInterval goroutine that nobody cancelled is on
\* its way to send one: no overlap of calls leaves the job deaf.
THEOREM JobIsNeverDeaf == Spec => []NeverDeaf
<1>1. Init => Attentive
  BY DEF Attentive, Init, QueuedTickerRuns, LoopHasTicker, NeverDeaf
<1>2. TypeOK /\ TypeOK' /\ Attentive /\ [Next]_vars => Attentive'
  <2>. SUFFICES ASSUME TypeOK, TypeOK', Attentive, [Next]_vars PROVE Attentive'
    OBVIOUS
  <2>. USE DEF Attentive, TypeOK, QueuedTickerRuns, LoopHasTicker, NeverDeaf, Done
  <2>1. CASE LoopStep
    <3>1. CASE StartLoop BY <3>1 DEF StartLoop
    <3>2. CASE FirstTimer BY <3>2 DEF FirstTimer
    <3>3. CASE InstallTicker BY <3>3 DEF InstallTicker, NewTicker, Ticker
    <3>4. CASE ResetTicker
      <4>1. PICK k \in Ticker : resetChan = <<k>>
        BY <3>4 DEF ResetTicker
      <4>2. ticker' = k /\ resetChan' = <<>> /\ k.running
        BY <3>4, <4>1 DEF ResetTicker
      <4>. QED BY <3>4, <4>2 DEF ResetTicker
    <3>5. CASE LoopReturns BY <3>5 DEF LoopReturns
    <3>. QED BY <2>1, <3>1, <3>2, <3>3, <3>4, <3>5 DEF LoopStep
  <2>2. CASE Stop BY <2>2 DEF Stop
  <2>3. CASE Shutdown BY <2>3 DEF Shutdown
  <2>4. ASSUME NEW i \in Intervals, UpdateInterval(i) PROVE Attentive'
    <3>1. \E u \in Updaters : upd'[u].pc # "idle" /\ ~upd'[u].cancelled
      BY <2>4 DEF UpdateInterval
    <3>2. LoopHasTicker'
      BY <2>4, TickerConstants DEF UpdateInterval, StopTicker, Ticker
    <3>. QED BY <2>4, <3>1, <3>2 DEF UpdateInterval
  <2>5. ASSUME NEW u \in Updaters, UpdaterStep(u) PROVE Attentive'
    <3>1. CASE UpdateFires(u) BY <3>1 DEF UpdateFires, Updater
    <3>2. CASE UpdateCancelled(u) BY <3>2 DEF UpdateCancelled, CtxDone, Updater
    <3>3. CASE UpdateRefreshed(u) BY <3>3 DEF UpdateRefreshed, Updater
    <3>4. CASE SendTicker(u)
      <4>1. resetChan' # <<>> /\ QueuedTickerRuns'
        BY <3>4 DEF SendTicker, NewTicker
      <4>. QED BY <3>4, <4>1 DEF SendTicker
    <3>5. CASE DropTicker(u) BY <3>5 DEF DropTicker, CtxDone, Updater
    <3>. QED BY <2>5, <3>1, <3>2, <3>3, <3>4, <3>5 DEF UpdaterStep
  <2>6. CASE UNCHANGED vars BY <2>6 DEF vars
  <2>. QED BY <2>1, <2>2, <2>3, <2>4, <2>5, <2>6 DEF Next
<1>3. Attentive => NeverDeaf
  BY DEF Attentive
<1>. QED BY <1>1, <1>2, <1>3, TypeCorrect, PTL DEF Spec
-----------------------------------------------------------------------------
(* The refinement.  JobLifecycle counts the goroutines that were cancelled *)
(* while they wait, so two facts are needed: only the latest goroutine is  *)
(* not cancelled, hence an UpdateInterval cancels at most one more; and    *)
(* the waiting ones are finite in number, whatever set Updaters is.        *)

Pending == \E u \in Updaters : upd[u].pc = "wait" /\ ~upd[u].cancelled
Superseded == {u \in Updaters : upd[u].pc = "wait" /\ upd[u].cancelled}

\* The job as the rest of the system sees it.
Job == [interval |-> refreshInterval, stopped |-> stopped, loop |-> loop # "returned",
        pending |-> Pending, superseded |-> Cardinality(Superseded)]

OnlyLatestCounts ==
  \A u \in Updaters : upd[u].pc # "idle" /\ ~upd[u].cancelled => u = latest

Countable == OnlyLatestCounts /\ IsFiniteSet(Superseded)

LEMMA CountableInv == Spec => []Countable
<1>1. Init => Countable
  <2>. SUFFICES ASSUME Init PROVE Countable
    OBVIOUS
  <2>1. Superseded = {}
    BY DEF Init, Superseded
  <2>. QED BY <2>1, FS_EmptySet DEF Init, Countable, OnlyLatestCounts
<1>2. TypeOK /\ Countable /\ [Next]_vars => Countable'
  <2>. SUFFICES ASSUME TypeOK, Countable, [Next]_vars PROVE Countable'
    OBVIOUS
  <2>. USE DEF TypeOK, Countable, OnlyLatestCounts, Superseded
  <2>1. CASE UNCHANGED <<upd, latest>>
    BY <2>1
  <2>2. ASSUME NEW i \in Intervals, UpdateInterval(i) PROVE Countable'
    <3>1. PICK u \in Updaters :
            /\ upd[u].pc = "idle"
            /\ latest' = u
            /\ upd' = [v \in Updaters |->
                 IF v = u THEN [pc |-> "wait", interval |-> i, cancelled |-> FALSE]
                 ELSE IF v = latest THEN [upd[v] EXCEPT !.cancelled = TRUE]
                 ELSE upd[v]]
      BY <2>2 DEF UpdateInterval
    <3>2. \A v \in Updaters : upd[v] \in Updater
      OBVIOUS
    <3>3. OnlyLatestCounts'
      BY <3>1, <3>2 DEF Updater
    <3>4. Superseded' \subseteq Superseded \cup {latest}
      BY <3>1, <3>2 DEF Updater
    <3>5. IsFiniteSet(Superseded \cup {latest})
      BY FS_AddElement
    <3>. QED BY <3>3, <3>4, <3>5, FS_Subset
  <2>3. ASSUME NEW u \in Updaters, UpdaterStep(u) PROVE Countable'
    <3>1. \A v \in Updaters : upd[v] \in Updater
      OBVIOUS
    <3>2. /\ latest' = latest
          /\ \E q \in {"idle", "refresh", "send"} :
               upd[u].pc # "idle" /\ upd' = [upd EXCEPT ![u].pc = q]
      BY <2>3 DEF UpdaterStep, UpdateFires, UpdateCancelled, UpdateRefreshed,
                  SendTicker, DropTicker
    <3>3. OnlyLatestCounts' /\ Superseded' \subseteq Superseded
      BY <3>1, <3>2 DEF Updater
    <3>. QED BY <3>3, FS_Subset
  <2>. QED
    BY <2>1, <2>2, <2>3
    DEF Next, LoopStep, StartLoop, FirstTimer, InstallTicker, ResetTicker,
        LoopReturns, Stop, Shutdown, vars
<1>. QED BY <1>1, <1>2, TypeCorrect, PTL DEF Spec

Jobs == [interval : Intervals, stopped : BOOLEAN, loop : BOOLEAN, pending : BOOLEAN,
         superseded : Nat]

\* The operations of RefreshJobOps, on any job.
LEMMA StoppedJob ==
  ASSUME NEW j \in Jobs, NEW k \in Jobs, k.interval = j.interval, k.stopped,
         k.loop = j.loop, k.pending = j.pending, k.superseded = j.superseded
  PROVE  k = Lifecycle!Stopped(j)
BY DEF Jobs, Lifecycle!Stopped

LEMMA PendingLeftJob ==
  ASSUME NEW j \in Jobs, NEW k \in Jobs, k.interval = j.interval, k.stopped = j.stopped,
         k.loop = j.loop, ~k.pending, k.superseded = j.superseded
  PROVE  k = Lifecycle!PendingLeft(j)
BY DEF Jobs, Lifecycle!PendingLeft

LEMMA CleanedJob ==
  ASSUME NEW j \in Jobs, NEW k \in Jobs, k.interval = j.interval, k.stopped,
         ~k.loop, k.pending = j.pending, k.superseded = j.superseded
  PROVE  k = Lifecycle!Cleaned(j)
<1>. DEFINE m == [j EXCEPT !.loop = FALSE]
<1>1. m \in Jobs /\ ~m.loop /\ m.interval = j.interval /\ m.pending = j.pending
                 /\ m.superseded = j.superseded
  BY DEF Jobs
<1>2. Lifecycle!Cleaned(j) = Lifecycle!Stopped(m)
  BY DEF Lifecycle!Cleaned, Lifecycle!Stopped, Jobs
<1>. HIDE DEF m
<1>. QED BY <1>1, <1>2, StoppedJob DEF Jobs

LEMMA JobType == TypeOK /\ Countable => Job \in Jobs
<1>. SUFFICES ASSUME TypeOK, Countable PROVE Job \in Jobs
  OBVIOUS
<1>1. Cardinality(Superseded) \in Nat
  BY FS_CardinalityType DEF Countable
<1>. QED BY <1>1 DEF Job, Jobs, Pending, TypeOK

LEMMA JobTypeNext == (TypeOK /\ Countable)' => (Job \in Jobs)'
BY JobType, PTL

\* What a step of a goroutine does to the job that is seen: nothing, unless the
\* goroutine was waiting.
LEMMA LeavesWait ==
  ASSUME TypeOK, Countable, TypeOK', Countable', NEW u \in Updaters, NEW q \in {"idle", "refresh", "send"},
         upd' = [upd EXCEPT ![u].pc = q],
         UNCHANGED <<refreshInterval, stopped, loop>>
  PROVE  /\ upd[u].pc # "wait" => Job' = Job
         /\ upd[u].pc = "wait" /\ ~upd[u].cancelled =>
              Job.pending /\ Job' = Lifecycle!PendingLeft(Job)
         /\ upd[u].pc = "wait" /\ upd[u].cancelled =>
              Job.superseded > 0 /\ Job' = Lifecycle!SupersededLeft(Job)
<1>. USE DEF Countable, OnlyLatestCounts
<1>1. \A v \in Updaters : upd[v] \in Updater
  BY DEF TypeOK
<1>2. \A v \in Updaters : /\ upd'[v].cancelled = upd[v].cancelled
                          /\ upd'[v].pc = IF v = u THEN q ELSE upd[v].pc
  BY <1>1 DEF TypeOK, Updater
<1>3. CASE upd[u].pc # "wait"
  <2>1. Pending' = Pending /\ Superseded' = Superseded
    BY <1>2, <1>3 DEF Pending, Superseded
  <2>. QED BY <1>3, <2>1 DEF Job
<1>4. CASE upd[u].pc = "wait" /\ ~upd[u].cancelled
  <2>1. Pending /\ Pending' = FALSE
    BY <1>2, <1>4 DEF Pending
  <2>2. Superseded' = Superseded
    BY <1>2, <1>4 DEF Superseded
  <2>3. Job \in Jobs /\ Job' \in Jobs
    BY JobType, JobTypeNext DEF Jobs
  <2>. QED BY <1>4, <2>1, <2>2, <2>3, PendingLeftJob DEF Job
<1>5. CASE upd[u].pc = "wait" /\ upd[u].cancelled
  <2>1. Pending' = Pending
    BY <1>2, <1>5 DEF Pending
  <2>2. u \in Superseded /\ Superseded' = Superseded \ {u}
    BY <1>2, <1>5 DEF Superseded
  <2>3. /\ Cardinality(Superseded) \in Nat
        /\ Cardinality(Superseded') = Cardinality(Superseded) - 1
        /\ Cardinality(Superseded) > 0
    <3>1. IsFiniteSet(Superseded) /\ Superseded # {}
      BY <2>2
    <3>2. Cardinality(Superseded \ {u}) = Cardinality(Superseded) - 1
      BY <2>2, <3>1, FS_RemoveElement
    <3>3. Cardinality(Superseded) \in Nat /\ Cardinality(Superseded) # 0
      BY <3>1, FS_CardinalityType, FS_EmptySet
    <3>. QED BY <2>2, <3>2, <3>3
  <2>. QED BY <1>5, <2>1, <2>3 DEF Job, Lifecycle!SupersededLeft
<1>. QED BY <1>3, <1>4, <1>5

\* UpdateInterval, seen from outside.
LEMMA UpdateSeen ==
  ASSUME TypeOK, Countable, NEW i \in Intervals, UpdateInterval(i)
  PROVE  Job' = Lifecycle!WithInterval(Job, i)
<1>. USE DEF Countable, OnlyLatestCounts
<1>1. PICK u \in Updaters :
        /\ upd[u].pc = "idle"
        /\ latest' = u
        /\ upd' = [v \in Updaters |->
             IF v = u THEN [pc |-> "wait", interval |-> i, cancelled |-> FALSE]
             ELSE IF v = latest THEN [upd[v] EXCEPT !.cancelled = TRUE]
             ELSE upd[v]]
  BY DEF UpdateInterval
<1>2. \A v \in Updaters : upd[v] \in Updater
  BY DEF TypeOK
<1>3. Pending'
  BY <1>1, <1>2 DEF Pending
<1>4. CASE ~Pending
  <2>1. Superseded' = Superseded
    BY <1>1, <1>2, <1>4 DEF Superseded, Pending, Updater
  <2>2. Cardinality(Superseded) + 0 = Cardinality(Superseded)
    BY FS_CardinalityType
  <2>. QED BY <1>3, <1>4, <2>1, <2>2 DEF Job, UpdateInterval, Lifecycle!WithInterval
<1>5. CASE Pending
  <2>1. latest \in Updaters /\ latest # u /\ upd[latest].pc = "wait" /\ ~upd[latest].cancelled
    BY <1>1, <1>5 DEF Pending
  <2>2. latest \notin Superseded /\ Superseded' = Superseded \cup {latest}
    BY <1>1, <1>2, <2>1 DEF Superseded, Updater
  <2>3. Cardinality(Superseded') = Cardinality(Superseded) + 1
    BY <2>2, FS_AddElement
  <2>. QED BY <1>3, <1>5, <2>3 DEF Job, UpdateInterval, Lifecycle!WithInterval
<1>. QED BY <1>4, <1>5

\* The detailed job implements the job of GraphRefresh: each of its steps is one
\* of the operations of RefreshJobOps, or is not seen at all.
THEOREM JobImplementsLifecycle == Spec => ImplementsLifecycle
<1>1. Init => Lifecycle!LifecycleInit
  <2>. SUFFICES ASSUME Init PROVE Lifecycle!LifecycleInit
    OBVIOUS
  <2>1. Cardinality(Superseded) = 0 /\ Pending = FALSE
    BY FS_EmptySet DEF Init, Superseded, Pending
  <2>2. stopped = FALSE /\ (loop # "returned") = TRUE
    BY DEF Init
  <2>3. Job = Lifecycle!NewJob(refreshInterval)
    BY <2>1, <2>2 DEF Job, Lifecycle!NewJob
  <2>. QED BY <2>3 DEF Init, Job, Pending, Superseded, Lifecycle!LifecycleInit
<1>2. TypeOK /\ TypeOK' /\ Countable /\ Countable' /\ [Next]_vars
        => [Lifecycle!LifecycleNext]_<<Job, cancelled>>
  <2>. SUFFICES ASSUME TypeOK, TypeOK', Countable, Countable', [Next]_vars
                PROVE  Lifecycle!LifecycleNext \/ UNCHANGED <<Job, cancelled>>
    OBVIOUS
  <2>. DEFINE Change(b) == Job' = b /\ UNCHANGED cancelled
  <2>0. /\ Change(Lifecycle!Stopped(Job)) => Lifecycle!LifecycleNext
        /\ \A i \in Intervals : Change(Lifecycle!WithInterval(Job, i)) => Lifecycle!LifecycleNext
        /\ Job.loop /\ Done /\ Change(Lifecycle!Cleaned(Job)) => Lifecycle!LifecycleNext
        /\ \A b \in Lifecycle!UpdateFired(Job) \cup Lifecycle!UpdateEnded(Job, cancelled) :
             Change(b) => Lifecycle!LifecycleNext
        /\ cancelled' = TRUE /\ UNCHANGED Job => Lifecycle!LifecycleNext
    BY DEF Lifecycle!LifecycleNext, Lifecycle!Change, Job, Pending, Superseded, Done
  <2>. Job \in Jobs /\ Job' \in Jobs
    BY JobType, JobTypeNext DEF Jobs
  <2>1. ASSUME UNCHANGED <<refreshInterval, stopped, upd>>, loop # "returned", loop' # "returned"
        PROVE  Job' = Job
    BY <2>1 DEF Job, Pending, Superseded
  <2>2. CASE StartLoop
    <3>1. CASE stopped
      BY <2>0, <2>2, <3>1, CleanedJob DEF StartLoop, Job, Pending, Superseded, Done
    <3>2. CASE ~stopped
      BY <2>1, <2>2, <3>2 DEF StartLoop
    <3>. QED BY <3>1, <3>2
  <2>3. CASE FirstTimer \/ InstallTicker \/ ResetTicker
    BY <2>1, <2>3 DEF FirstTimer, InstallTicker, ResetTicker
  <2>4. CASE LoopReturns
    BY <2>0, <2>4, CleanedJob DEF LoopReturns, Job, Pending, Superseded
  <2>5. CASE Stop
    BY <2>0, <2>5, StoppedJob DEF Stop, Job, Pending, Superseded
  <2>6. ASSUME NEW i \in Intervals, UpdateInterval(i) PROVE Lifecycle!LifecycleNext
    BY <2>0, <2>6, UpdateSeen DEF UpdateInterval
  <2>7. ASSUME NEW u \in Updaters, UpdaterStep(u)
        PROVE  Lifecycle!LifecycleNext \/ UNCHANGED <<Job, cancelled>>
    <3>1. /\ UNCHANGED <<refreshInterval, stopped, loop, cancelled>>
          /\ \E q \in {"idle", "refresh", "send"} : upd' = [upd EXCEPT ![u].pc = q]
      BY <2>7 DEF UpdaterStep, UpdateFires, UpdateCancelled, UpdateRefreshed,
                  SendTicker, DropTicker
    <3>2. CASE upd[u].pc # "wait"
      BY <3>1, <3>2, LeavesWait
    <3>3. CASE upd[u].pc = "wait" /\ ~upd[u].cancelled
      <4>1. Job.pending /\ Job' = Lifecycle!PendingLeft(Job)
        BY <3>1, <3>3, LeavesWait
      <4>2. Lifecycle!PendingLeft(Job) \in Lifecycle!UpdateFired(Job)
        BY <4>1 DEF Lifecycle!UpdateFired
      <4>. QED BY <2>0, <3>1, <4>1, <4>2
    <3>4. CASE upd[u].pc = "wait" /\ upd[u].cancelled
      <4>1. Job.superseded > 0 /\ Job' = Lifecycle!SupersededLeft(Job)
        BY <3>1, <3>4, LeavesWait
      <4>2. Lifecycle!SupersededLeft(Job) \in Lifecycle!UpdateFired(Job)
        BY <4>1 DEF Lifecycle!UpdateFired
      <4>. QED BY <2>0, <3>1, <4>1, <4>2
    <3>. QED BY <3>2, <3>3, <3>4
  <2>8. CASE Shutdown
    BY <2>0, <2>8 DEF Shutdown, Job, Pending, Superseded
  <2>9. CASE UNCHANGED vars
    BY <2>9 DEF vars, Job, Pending, Superseded
  <2>. QED BY <2>2, <2>3, <2>4, <2>5, <2>6, <2>7, <2>8, <2>9 DEF Next, LoopStep
<1>. QED
  BY <1>1, <1>2, TypeCorrect, CountableInv, PTL
  DEF Spec, ImplementsLifecycle, Lifecycle!LifecycleSpec, Job, Pending, Superseded
=============================================================================
