---------------------------- MODULE JobLifecycle ----------------------------
(***************************************************************************)
(* What a RefreshJob shows to the rest of the system: its interval, when   *)
(* it counts as stopped, and which of its goroutines can still begin a     *)
(* refresh.  GraphRefresh moves its jobs by exactly these operations;      *)
(* RefreshTicker is the detailed job and implements this specification.    *)
(***************************************************************************)
EXTENDS RefreshJobOps

CONSTANTS Intervals

VARIABLES
  jb,                \* the job, a record as RefreshJobOps describes
  cancelled          \* the manager's context is cancelled

NewJob(i) ==
  [interval |-> i, stopped |-> FALSE, loop |-> TRUE, pending |-> FALSE,
   superseded |-> 0]

LifecycleInit == /\ \E i \in Intervals : jb = NewJob(i)
                 /\ cancelled = FALSE

Change(b) == jb' = b /\ UNCHANGED cancelled

LifecycleNext ==
  \/ Change(Stopped(jb))
  \/ \E i \in Intervals : Change(WithInterval(jb, i))
  \/ jb.loop /\ (jb.stopped \/ cancelled) /\ Change(Cleaned(jb))
  \/ \E b \in UpdateFired(jb) \cup UpdateEnded(jb, cancelled) : Change(b)
  \/ cancelled' = TRUE /\ UNCHANGED jb

LifecycleSpec == LifecycleInit /\ [][LifecycleNext]_<<jb, cancelled>>
=============================================================================
