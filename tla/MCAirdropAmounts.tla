-------------------------- MODULE MCAirdropAmounts --------------------------
(***************************************************************************)
(* An instance for TLC of AirdropDispatch, which pays the amounts of rows, *)
(* and of TwitterCoin, which the amounts come from: counts and check       *)
(* results on both sides of every threshold.  The two share no variable.   *)
(***************************************************************************)
EXTENDS MCAirdropDispatch, TwitterCoin

MCCounts == {0, 10, 11, 199, 200, 250, 499, 500, 90000}

MCResults ==
    [CheckNum : {5, 179, 180}, LowFollowerNum : {0, 1, 36}, ZeroTweetNum : {0, 36},
     ZeroFollowerNum : {0}, RecentRegisterNum : {0, 35}]

AmountsInit == Init /\ CoinInit

AmountsNext ==
    \/ Next /\ UNCHANGED user
    \/ CoinNext /\ UNCHANGED vars

AmountsSpec == AmountsInit /\ [][AmountsNext]_<<vars, user>>

OneProfile ==
    [ FollowersCount |-> 0, FollowingCount |-> 0, TweetCount |-> 0, OldEnough |-> FALSE,
      browser |-> "none", DeviceIdNum |-> 0, CheckResult |-> NoResult ]

\* Rows are paid for one profile, and profiles change before the first row.
Apart == user = OneProfile \/ Init

=============================================================================
