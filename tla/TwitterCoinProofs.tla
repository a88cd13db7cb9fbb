------------------------- MODULE TwitterCoinProofs -------------------------
(***************************************************************************)
(* What TwitterCoin promises for every profile, threshold and check result.*)
(***************************************************************************)
EXTENDS TwitterCoin, TLAPS

\* A score is one of three, so that a follower is worth 10, 100 or 1000 umises.
LEMMA ScoreValues ==
    \A x : Score(x) \in {1, 10, 100}
  BY DEF Score, ActivityScore

\* What a user with f followers earns is a number that grows with the score.
LEMMA EarnedBounds ==
    ASSUME NEW x \in Profile
    PROVE  /\ Earned(x) \in Nat
           /\ Earned(x) >= Mises
           /\ Earned(x) <= MaxCoin
  <1>1. x.FollowersCount \in Nat
    BY CountsAssumption DEF Profile
  <1>2. Score(x) \in {1, 10, 100}
    BY ScoreValues
  <1>3. ((1000 * Score(x)) \div 100) \in {10, 100, 1000}
    BY <1>2
  <1>4. ((1000 * Score(x)) \div 100) * x.FollowersCount \in Nat
    BY <1>1, <1>3
  <1>. QED
    BY <1>4 DEF Earned, Mises, MaxCoin

\* The invariant: the user is a profile.
LEMMA ProfileInvariant == CoinSpec => [](user \in Profile)
  <1>1. CoinInit => user \in Profile
    BY DEF CoinInit
  <1>2. user \in Profile /\ [CoinNext]_user => (user \in Profile)'
    <2>. SUFFICES ASSUME user \in Profile, [CoinNext]_user
                  PROVE  user' \in Profile
      OBVIOUS
    <2>1. CASE \E n \in 1 .. 2 : CountDevice(n)
      BY <2>1 DEF CountDevice, Profile
    <2>2. CASE \E r \in Results : CheckFollowers(r)
      BY <2>2 DEF CheckFollowers, Profile
    <2>3. CASE Gain
      BY <2>3 DEF Gain, Profile
    <2>4. CASE UNCHANGED user
      BY <2>4
    <2>. QED
      BY <2>1, <2>2, <2>3, <2>4 DEF CoinNext
  <1>. QED
    BY <1>1, <1>2, PTL DEF CoinSpec

\* Nobody gets more than ten mises, and a valid user, and the owner of the channel
\* the user came through, get something (GetTwitterAirdropCoin, createAirdrop).
THEOREM CoinAlwaysBounded == CoinSpec => []CoinIsBounded
  <1>1. user \in Profile => CoinIsBounded
    <2>. SUFFICES ASSUME user \in Profile
                  PROVE  CoinIsBounded
      OBVIOUS
    <2>1. /\ Earned(user) \in Nat
          /\ Earned(user) >= Mises
          /\ Earned(user) <= MaxCoin
      BY EarnedBounds
    <2>2. GetTwitterAirdropCoin(user) <= MaxCoin
      BY <2>1 DEF GetTwitterAirdropCoin, MaxCoin, Mises
    <2>3. ASSUME IsValidTwitterUser(user)
          PROVE  GetTwitterAirdropCoin(user) >= Mises \div 10 /\ ChannelAmount(user) > 0
      <3>1. user.FollowersCount # 0
        BY <2>3, CountsAssumption DEF IsValidTwitterUser, Profile
      <3>2. /\ GetTwitterAirdropCoin(user) \in Nat
            /\ GetTwitterAirdropCoin(user) >= 100000
        BY <2>1, <3>1 DEF GetTwitterAirdropCoin, Mises
      <3>. QED
        BY <3>2 DEF ChannelAmount, Mises
    <2>. QED
      BY <2>2, <2>3 DEF CoinIsBounded
  <1>. QED
    BY <1>1, ProfileInvariant, PTL

\* Two profiles that differ in score alone earn in the order of their scores.
LEMMA EarnedMonotone ==
    ASSUME NEW x \in Profile, NEW y \in Profile,
           x.FollowersCount = y.FollowersCount, Score(y) <= Score(x)
    PROVE  Earned(y) <= Earned(x)
  <1>. DEFINE f == x.FollowersCount
              p(z) == (1000 * Score(z)) \div 100
  <1>1. f \in Nat
    BY CountsAssumption DEF Profile
  <1>2. Score(x) \in {1, 10, 100} /\ Score(y) \in {1, 10, 100}
    BY ScoreValues
  <1>3. p(x) \in {10, 100, 1000} /\ p(y) \in {10, 100, 1000} /\ p(y) <= p(x)
    BY <1>2
  <1>4. p(x) * f \in Nat /\ p(y) * f \in Nat /\ p(y) * f <= p(x) * f
    <2>. HIDE DEF p, f
    <2>. QED
      BY <1>1, <1>3
  <1>. QED
    BY <1>4 DEF Earned, Mises, MaxCoin

\* A second user of the device, or an examination of the followers, never raises
\* what the user is worth (GetTwitterAirdropCoin after plan.go has written either).
THEOREM SuspicionCosts == CoinSpec => SuspicionNeverPays
  <1>1. ASSUME user \in Profile, user' \in Profile, [CoinNext]_user,
               user'.FollowersCount = user.FollowersCount,
               user'.DeviceIdNum >= user.DeviceIdNum
        PROVE  GetTwitterAirdropCoin(user') <= GetTwitterAirdropCoin(user)
    <2>1. /\ Earned(user) \in Nat /\ Earned(user') \in Nat
          /\ GetTwitterAirdropCoin(user) \in Nat
      BY <1>1, EarnedBounds DEF GetTwitterAirdropCoin, Mises
    <2>2. /\ user'.browser = user.browser
          /\ Score(user') <= Score(user)
      <3>1. CASE \E n \in 1 .. 2 : CountDevice(n)
        BY <1>1, <3>1
           DEF CountDevice, Profile, Score, ActivityScore, PoorFollowers, SharedDevice
      <3>2. CASE \E r \in Results : CheckFollowers(r)
        BY <1>1, <3>2 DEF CheckFollowers, Profile, NoResult, Score, ActivityScore,
                          PoorFollowers, SharedDevice
      <3>3. CASE Gain
        BY <1>1, <3>3, CountsAssumption DEF Gain, Profile
      <3>4. CASE UNCHANGED user
        <4>1. Score(user) <= Score(user)
          BY ScoreValues
        <4>. QED
          BY <3>4, <4>1
      <3>. QED
        BY <1>1, <3>1, <3>2, <3>3, <3>4 DEF CoinNext
    <2>3. Earned(user') <= Earned(user)
      BY <1>1, <2>2, EarnedMonotone
    <2>. QED
      BY <1>1, <2>1, <2>2, <2>3 DEF GetTwitterAirdropCoin, Mises
  <1>2. user \in Profile /\ (user \in Profile)' /\ [CoinNext]_user
          => [user'.FollowersCount = user.FollowersCount
              /\ user'.DeviceIdNum >= user.DeviceIdNum
                => GetTwitterAirdropCoin(user') <= GetTwitterAirdropCoin(user)]_user
    BY <1>1
  <1>. QED
    BY <1>2, ProfileInvariant, PTL DEF CoinSpec, SuspicionNeverPays

=============================================================================
