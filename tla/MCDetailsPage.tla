---------------------------- MODULE MCDetailsPage ----------------------------
(* DetailsPage for TLC: links to two clusters, and one that names none.     *)
EXTENDS DetailsPage

CONSTANTS c1, c2

At(cluster, tab) == [cluster |-> cluster, tab |-> tab]

MCLinks == {At(c1, "info"), At(c2, "logs"), At(None, "traffic")}
==============================================================================
