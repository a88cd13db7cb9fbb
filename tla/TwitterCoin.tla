---------------------------- MODULE TwitterCoin ----------------------------
(***************************************************************************)
(* What a user is worth: IsValidTwitterUser and GetTwitterAirdropCoin of   *)
(* app/services/user_twitter/index.go, in umises.  The profile is what     *)
(* Twitter said when the user was looked up; the number of users of the    *)
(* device is counted by the lookup plan, the followers are examined by     *)
(* the check plan.                                                         *)
(*                                                                         *)
(* The numbers are far below 2^64 / 1000, so that none overflows.          *)
(***************************************************************************)
EXTENDS Integers

CONSTANTS
    FollowsMinFollow,   \* env.Envs.FollowsMinFollow
    Counts,             \* the values of the counters of a profile
    Results             \* the CheckResults the check plan may store

ASSUME CountsAssumption == FollowsMinFollow \in Nat /\ Counts \subseteq Nat

Mises == 1000000
MaxCoin == 10 * Mises

CheckResult ==
    [CheckNum : Nat, LowFollowerNum : Nat, ZeroTweetNum : Nat, ZeroFollowerNum : Nat,
     RecentRegisterNum : Nat]

ASSUME ResultsAssumption == Results \subseteq CheckResult

NoResult ==
    [CheckNum |-> 0, LowFollowerNum |-> 0, ZeroTweetNum |-> 0, ZeroFollowerNum |-> 0,
     RecentRegisterNum |-> 0]

\* Chrome of one of two versions, which is not looked at further; no browser; another.
Browser == {"trusted", "none", "other"}

Profile ==
    [ FollowersCount : Counts, FollowingCount : Counts, TweetCount : Counts,
      OldEnough : BOOLEAN,            \* registered before VALID_TWITTER_REGISTER_DATE
      browser : Browser,
      DeviceIdNum : 0 .. 2,             \* 0 without a device id, at most 2 (bound)
      CheckResult : Results \cup {NoResult} ]

IsValidTwitterUser(x) == x.FollowersCount > 0 /\ x.OldEnough

\* The score before the followers are looked at.  That a user without tweets, or
\* who follows nobody, scores 1 is overwritten by the next statement.
ActivityScore(x) ==
    IF \/ x.TweetCount <= 10
       \/ x.FollowingCount <= 10
       \/ /\ x.FollowersCount >= FollowsMinFollow
          /\ x.FollowingCount * 10 >= x.FollowersCount * 5
    THEN 10 ELSE 100

\* A fifth of the followers is of little worth, or there are fewer than claimed.
PoorFollowers(x) ==
    LET r == x.CheckResult
    IN  /\ r.CheckNum > 0
        /\ \/ r.LowFollowerNum * 5 >= r.CheckNum
           \/ r.ZeroTweetNum * 5 >= r.CheckNum
           \/ r.ZeroFollowerNum * 5 >= r.CheckNum
           \/ r.RecentRegisterNum * 5 >= r.CheckNum
           \/ x.FollowersCount >= 200 /\ r.CheckNum < 180

SharedDevice(x) == x.DeviceIdNum > 1

\* Mutant: good results restore the score.
Score_Rewards(x) ==
    IF x.CheckResult.CheckNum > 0 /\ ~PoorFollowers(x) THEN 100
    ELSE IF PoorFollowers(x) \/ SharedDevice(x) THEN 1 ELSE ActivityScore(x)

Score(x) == IF PoorFollowers(x) \/ SharedDevice(x) THEN 1 ELSE ActivityScore(x)

\* Mutant: the bound is left out.
Earned_Unbounded(x) == Mises + ((1000 * Score(x)) \div 100) * x.FollowersCount

\* A base of one mises and something for each follower, up to ten mises.
Earned(x) ==
    LET coin == Mises + ((1000 * Score(x)) \div 100) * x.FollowersCount
    IN  IF coin > MaxCoin THEN MaxCoin ELSE coin

GetTwitterAirdropCoin(x) ==
    IF x.FollowersCount = 0 THEN 0
    ELSE IF x.browser = "other" THEN Mises \div 10
    ELSE Earned(x)

\* What the owner of the channel gets for a user who came through it.
ChannelAmount(x) == GetTwitterAirdropCoin(x) \div 10

-----------------------------------------------------------------------------
(* A user, from the lookup on. *)

VARIABLE user

CoinInit == user \in {x \in Profile : x.DeviceIdNum = 0 /\ x.CheckResult = NoResult}

\* The lookup plan counts the users of the device, every time it looks the user up.
CountDevice(n) == user' = [user EXCEPT !.DeviceIdNum = n]

\* The check plan examines the followers of a valid user.
CheckFollowers(r) ==
    /\ IsValidTwitterUser(user)
    /\ user.CheckResult = NoResult
    /\ user' = [user EXCEPT !.CheckResult = r]

\* A later lookup finds more followers.
Gain ==
    \E n \in Counts :
        n > user.FollowersCount /\ user' = [user EXCEPT !.FollowersCount = n]

CoinNext ==
    \/ \E n \in 1 .. 2 : CountDevice(n)
    \/ \E r \in Results : CheckFollowers(r)
    \/ Gain

CoinSpec == CoinInit /\ [][CoinNext]_user

\* A valid user gets something, so that createAirdrop does not fail with "coin is
\* zero"; nobody gets more than ten mises; a channel owner gets something as well.
CoinIsBounded ==
    /\ GetTwitterAirdropCoin(user) <= MaxCoin
    /\ IsValidTwitterUser(user) =>
          GetTwitterAirdropCoin(user) >= Mises \div 10 /\ ChannelAmount(user) > 0

\* Nothing that is found out about a user later raises the amount: neither a second
\* user of the device nor an examination of the followers (the rules of the score
\* overwrite one another, so their order matters).  Only more followers, or fewer
\* users of the device when they are counted again, may raise it.
SuspicionNeverPays ==
    [][user'.FollowersCount = user.FollowersCount /\ user'.DeviceIdNum >= user.DeviceIdNum
         => GetTwitterAirdropCoin(user') <= GetTwitterAirdropCoin(user)]_user

=============================================================================
