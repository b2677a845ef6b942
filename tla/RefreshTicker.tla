--------------------------- MODULE RefreshTicker ---------------------------
(***************************************************************************)
(* One RefreshJob (graph/refresh_job.go) in detail: the Start loop, the    *)
(* ticker it listens to, and the goroutines UpdateInterval starts, which   *)
(* hand the loop a new ticker over resetChan.                              *)
(*                                                                         *)
(* A ticker is its interval and whether it runs.  A ticker is only ever    *)
(* held by the goroutine that made it, then by resetChan, then by the job, *)
(* so it needs no identity.  The channel the loop has captured is always   *)
(* that of the installed ticker: only the loop installs one.  A tick       *)
(* starts a refresh (GraphRefresh) and changes nothing here.               *)
(***************************************************************************)
EXTENDS Naturals, FiniteSets, Sequences

CONSTANTS
  Intervals,         \* refresh intervals a client asks for
  Updaters,          \* UpdateInterval goroutines alive at one time (bound)
  NoUpdater,
  NoTicker,          \* j.ticker == nil
  MaxUpdates         \* UpdateInterval calls that change something (bound)

ASSUME TickerConstants ==
  /\ NoUpdater \notin Updaters
  /\ NoTicker \notin [interval : Intervals, running : BOOLEAN]
  /\ MaxUpdates \in Nat

VARIABLES
  refreshInterval, stopped, ticker,   \* fields of RefreshJob
  resetChan,         \* chan *time.Ticker of capacity 1
  latest,            \* the goroutine updateIntervalCancel would cancel
  cancelled,         \* the manager's context, the parent of j.ctx
  loop,              \* where Start() is
  upd,               \* the UpdateInterval goroutines
  budget             \* UpdateInterval calls still to come

vars == <<refreshInterval, stopped, ticker, resetChan, latest, cancelled, loop, upd, budget>>

Ticker == [interval : Intervals, running : BOOLEAN]
NewTicker(i) == [interval |-> i, running |-> TRUE]

\* wait: for the interval/2 timer; refresh: in j.refresh(); send: in the
\* select that hands over the new ticker.
Updater ==
  [pc : {"idle", "wait", "refresh", "send"}, interval : Intervals, cancelled : BOOLEAN]

\* The variables range over the values the Go declarations allow.
TypeOK ==
  /\ refreshInterval \in Intervals
  /\ stopped \in BOOLEAN
  /\ ticker \in Ticker \cup {NoTicker}
  /\ resetChan \in {<<>>} \cup {<<k>> : k \in Ticker}
  /\ latest \in Updaters \cup {NoUpdater}
  /\ cancelled \in BOOLEAN
  /\ loop \in {"start", "first", "install", "select", "returned"}
  /\ upd \in [Updaters -> Updater]
  /\ budget \in 0..MaxUpdates

Init ==
  /\ refreshInterval \in Intervals
  /\ stopped = FALSE
  /\ ticker = NoTicker
  /\ resetChan = <<>>
  /\ latest = NoUpdater
  /\ cancelled = FALSE
  /\ loop = "start"
  /\ upd = [u \in Updaters |-> [pc |-> "idle", interval |-> refreshInterval, cancelled |-> TRUE]]
  /\ budget = MaxUpdates

\* stopChan is closed, or j.ctx is done: Stop does both.
Done == stopped \/ cancelled

\* ticker.Stop() on whatever ticker the job has.
StopTicker == IF ticker = NoTicker THEN ticker ELSE [ticker EXCEPT !.running = FALSE]
-----------------------------------------------------------------------------
\* Start(): an already stopped job returns at once.
StartLoop ==
  /\ loop = "start"
  /\ loop' = IF stopped THEN "returned" ELSE "first"
  /\ UNCHANGED <<refreshInterval, stopped, ticker, resetChan, latest, cancelled, upd, budget>>

\* The interval/2 timer: go j.refresh(), and then the regular ticker.
FirstTimer ==
  /\ loop = "first"
  /\ loop' = "install"
  /\ UNCHANGED <<refreshInterval, stopped, ticker, resetChan, latest, cancelled, upd, budget>>

InstallTicker ==
  /\ loop = "install"
  /\ ticker' = NewTicker(refreshInterval)
  /\ loop' = "select"
  /\ UNCHANGED <<refreshInterval, stopped, resetChan, latest, cancelled, upd, budget>>

\* case newTicker := <-j.resetChan.
ResetTicker ==
  /\ loop = "select"
  /\ resetChan # <<>>
  /\ ticker' = Head(resetChan)
  /\ resetChan' = Tail(resetChan)
  /\ UNCHANGED <<refreshInterval, stopped, latest, cancelled, loop, upd, budget>>

\* case <-j.stopChan, case <-j.ctx.Done(): cleanup() and return.
LoopReturns ==
  /\ loop \in {"first", "select"}
  /\ Done
  /\ ticker' = StopTicker
  /\ stopped' = TRUE
  /\ loop' = "returned"
  /\ UNCHANGED <<refreshInterval, resetChan, latest, cancelled, upd, budget>>
-----------------------------------------------------------------------------
\* Stop(), called by the manager, a handler or the job's own refresh().
Stop ==
  /\ ~stopped
  /\ stopped' = TRUE
  /\ UNCHANGED <<refreshInterval, ticker, resetChan, latest, cancelled, loop, upd, budget>>

\* Faulty: the new context is stored before the old one is cancelled, so the
\* call cancels its own goroutine.
UpdateCancelsItself(newInterval) ==
  /\ ~stopped
  /\ refreshInterval # newInterval
  /\ budget > 0
  /\ refreshInterval' = newInterval
  /\ ticker' = StopTicker
  /\ \E u \in Updaters :
       /\ upd[u].pc = "idle"
       /\ latest' = u
       /\ upd' = [upd EXCEPT ![u] = [pc |-> "wait", interval |-> newInterval, cancelled |-> TRUE]]
  /\ budget' = budget - 1
  /\ UNCHANGED <<stopped, resetChan, cancelled, loop>>

\* Faulty: a stopped job is updated as well.
UpdateStoppedJob(newInterval) ==
  /\ refreshInterval # newInterval
  /\ budget > 0
  /\ refreshInterval' = newInterval
  /\ ticker' = StopTicker
  /\ \E u \in Updaters :
       /\ upd[u].pc = "idle"
       /\ latest' = u
       /\ upd' = [v \in Updaters |->
            IF v = u THEN [pc |-> "wait", interval |-> newInterval, cancelled |-> FALSE]
            ELSE IF v = latest THEN [upd[v] EXCEPT !.cancelled = TRUE]
            ELSE upd[v]]
  /\ budget' = budget - 1
  /\ UNCHANGED <<stopped, resetChan, cancelled, loop>>

UpdateInterval(newInterval) ==
  /\ ~stopped
  /\ refreshInterval # newInterval
  /\ budget > 0
  /\ refreshInterval' = newInterval
  /\ ticker' = StopTicker
  /\ \E u \in Updaters :
       /\ upd[u].pc = "idle"
       /\ latest' = u
       /\ upd' = [v \in Updaters |->
            IF v = u THEN [pc |-> "wait", interval |-> newInterval, cancelled |-> FALSE]
            ELSE IF v = latest THEN [upd[v] EXCEPT !.cancelled = TRUE]
            ELSE upd[v]]
  /\ budget' = budget - 1
  /\ UNCHANGED <<stopped, resetChan, cancelled, loop>>

Shutdown ==
  /\ ~cancelled
  /\ cancelled' = TRUE
  /\ UNCHANGED <<refreshInterval, stopped, ticker, resetChan, latest, loop, upd, budget>>
-----------------------------------------------------------------------------
\* The goroutine UpdateInterval starts.  updateCtx is done when its own
\* cancel was called or with j.ctx.
CtxDone(u) == upd[u].cancelled \/ Done

UpdateFires(u) ==
  /\ upd[u].pc = "wait"
  /\ upd' = [upd EXCEPT ![u].pc = "refresh"]
  /\ UNCHANGED <<refreshInterval, stopped, ticker, resetChan, latest, cancelled, loop, budget>>

UpdateCancelled(u) ==
  /\ upd[u].pc = "wait"
  /\ CtxDone(u)
  /\ upd' = [upd EXCEPT ![u].pc = "idle"]
  /\ UNCHANGED <<refreshInterval, stopped, ticker, resetChan, latest, cancelled, loop, budget>>

\* j.refresh() returned; it may have stopped the job meanwhile (Stop).
UpdateRefreshed(u) ==
  /\ upd[u].pc = "refresh"
  /\ upd' = [upd EXCEPT ![u].pc = IF stopped THEN "idle" ELSE "send"]
  /\ UNCHANGED <<refreshInterval, stopped, ticker, resetChan, latest, cancelled, loop, budget>>

\* Faulty: resetChan without a capacity.
SendUnbounded(u) ==
  /\ upd[u].pc = "send"
  /\ resetChan' = Append(resetChan, NewTicker(upd[u].interval))
  /\ upd' = [upd EXCEPT ![u].pc = "idle"]
  /\ UNCHANGED <<refreshInterval, stopped, ticker, latest, cancelled, loop, budget>>

\* case j.resetChan <- newTicker.
SendTicker(u) ==
  /\ upd[u].pc = "send"
  /\ resetChan = <<>>
  /\ resetChan' = <<NewTicker(upd[u].interval)>>
  /\ upd' = [upd EXCEPT ![u].pc = "idle"]
  /\ UNCHANGED <<refreshInterval, stopped, ticker, latest, cancelled, loop, budget>>

\* Faulty: the select has no case for the end of the job.
DropSuperseded(u) ==
  /\ upd[u].pc = "send"
  /\ upd[u].cancelled
  /\ upd' = [upd EXCEPT ![u].pc = "idle"]
  /\ UNCHANGED <<refreshInterval, stopped, ticker, resetChan, latest, cancelled, loop, budget>>

\* case <-j.stopChan, case <-updateCtx.Done().
DropTicker(u) ==
  /\ upd[u].pc = "send"
  /\ CtxDone(u)
  /\ upd' = [upd EXCEPT ![u].pc = "idle"]
  /\ UNCHANGED <<refreshInterval, stopped, ticker, resetChan, latest, cancelled, loop, budget>>

LoopStep == StartLoop \/ FirstTimer \/ InstallTicker \/ ResetTicker \/ LoopReturns
UpdaterStep(u) ==
  \/ UpdateFires(u) \/ UpdateCancelled(u) \/ UpdateRefreshed(u)
  \/ SendTicker(u) \/ DropTicker(u)

Next ==
  \/ LoopStep
  \/ Stop
  \/ \E i \in Intervals : UpdateInterval(i)
  \/ \E u \in Updaters : UpdaterStep(u)
  \/ Shutdown

Spec == Init /\ [][Next]_vars

\* Every goroutine that can move does: timers fire, refreshes return.
FairSpec == Spec /\ WF_vars(LoopStep) /\ \A u \in Updaters : WF_vars(UpdaterStep(u))
-----------------------------------------------------------------------------
\* The job is never deaf: UpdateInterval stops the installed ticker, and
\* however calls overlap, until the job is stopped the loop has a running
\* ticker, or one waits in resetChan, or a goroutine that nobody cancelled
\* is on its way to send one.
NeverDeaf ==
  loop = "select" /\ ~Done =>
    \/ ticker.running
    \/ resetChan # <<>>
    \/ \E u \in Updaters : upd[u].pc # "idle" /\ ~upd[u].cancelled

\* A stopped job leaves no goroutine behind: not the loop, and no updater
\* blocked on a resetChan that nobody reads any more.
StoppedJobEnds ==
  Done ~> loop = "returned" /\ \A u \in Updaters : upd[u].pc = "idle"

\* The job's part in GraphRefresh is what JobLifecycle says.
Lifecycle ==
  INSTANCE JobLifecycle WITH
    jb <- [interval |-> refreshInterval, stopped |-> stopped,
           loop |-> loop # "returned",
           pending |-> \E u \in Updaters : upd[u].pc = "wait" /\ ~upd[u].cancelled,
           superseded |-> Cardinality({u \in Updaters :
                                         upd[u].pc = "wait" /\ upd[u].cancelled})]

\* The detailed job implements the one GraphRefresh uses.
ImplementsLifecycle == Lifecycle!LifecycleSpec

\* What the documentation says of overlapping UpdateInterval calls: the
\* context guards them from racing each other.  Once no more calls come, the
\* loop settles on the interval asked for last (or the job ends).
LastIntervalWins ==
  <>[](Done \/ (loop = "select" /\ ticker = NewTicker(refreshInterval)))
=============================================================================
