---------------------------- MODULE MCGraphPage ----------------------------
(***************************************************************************)
(* Values for the records of GraphPage: what the controls of the toolbar   *)
(* set, the settings left in the store and the URLs the page is opened     *)
(* with.                                                                   *)
(***************************************************************************)
EXTENDS GraphPage, TLC

Plain == [view |-> 1, detail |-> 1, edgeLabels |-> 0, findValue |-> 0, hideValue |-> 0]

\* One setting at a time, or all of them (the reset button).
MCControls ==
  {"view" :> 0, "edgeLabels" :> 1, "findValue" :> 1, Plain}

\* With and without a namespace.
MCStored == {Plain, [Plain EXCEPT !.view = 0, !.detail = 2, !.edgeLabels = 1]}

Bare == [settings |-> <<>>, type |-> FALSE, refresh |-> "none", replay |-> FALSE]

\* Links that leave the first fetch to the timeout, to the update, to both and
\* to neither, and links to a replay, beside which the refresh interval of the
\* URL is not taken over.
MCLinks ==
  { Bare,
    [Bare EXCEPT !.settings = "view" :> 2, !.type = TRUE],
    [Bare EXCEPT !.settings = "view" :> 2 @@ "hideValue" :> 1, !.refresh = "running"],
    [Bare EXCEPT !.settings = "edgeLabels" :> 1, !.refresh = "manual"],
    [Bare EXCEPT !.refresh = "manual", !.replay = TRUE],
    [Bare EXCEPT !.refresh = "running", !.replay = TRUE] }
=============================================================================
