--------------------------- MODULE RefreshJobOps ---------------------------
(***************************************************************************)
(* What the methods of a RefreshJob (graph/refresh_job.go) do to the job,  *)
(* as functions of the job record.  Each runs under the job's mutex.       *)
(*                                                                         *)
(*   interval    refreshInterval                                           *)
(*   stopped     stopped; Stop also closes stopChan and cancels ctx        *)
(*   loop        the Start goroutine has not returned                      *)
(*   pending     the goroutine of the latest UpdateInterval waits for its  *)
(*               interval/2 timer                                          *)
(*   superseded  how many goroutines of earlier UpdateIntervals, whose     *)
(*               context is cancelled, have not left that wait yet         *)
(***************************************************************************)
EXTENDS Naturals

Stopped(jb) == [jb EXCEPT !.stopped = TRUE]

WithInterval(jb, i) ==
  IF jb.stopped \/ jb.interval = i THEN jb
  ELSE [jb EXCEPT !.interval = i, !.pending = TRUE,
                  !.superseded = @ + (IF jb.pending THEN 1 ELSE 0)]

\* The Start loop saw stopChan or the context: cleanup() and return.
Cleaned(jb) == [jb EXCEPT !.loop = FALSE, !.stopped = TRUE]

PendingLeft(jb) == [jb EXCEPT !.pending = FALSE]
SupersededLeft(jb) == [jb EXCEPT !.superseded = @ - 1]

\* A timer of a waiting UpdateInterval goroutine fires.  With the context
\* cancelled as well, select takes either case.
UpdateFired(jb) ==
  {b \in {PendingLeft(jb)} : jb.pending} \cup {b \in {SupersededLeft(jb)} : jb.superseded > 0}

\* A waiting UpdateInterval goroutine returns because of its context.
UpdateEnded(jb, cancelled) ==
  {b \in {PendingLeft(jb)} : jb.pending /\ (jb.stopped \/ cancelled)}
    \cup {b \in {SupersededLeft(jb)} : jb.superseded > 0}
=============================================================================
