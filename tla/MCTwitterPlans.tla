--------------------------- MODULE MCTwitterPlans ---------------------------
(***************************************************************************)
(* Instances of TwitterPlans for TLC.                                      *)
(***************************************************************************)
EXTENDS TwitterPlans

CONSTANTS
    MaxAirdrops   \* bound: a state with more rows of a user is checked, but not extended

AirdropBound == \A u \in Uids : airdrops[u] <= MaxAirdrops

=============================================================================
