------------------------- MODULE ChannelPageProofs -------------------------
(***************************************************************************)
(* Proofs about ChannelPage, for any number of requests, owners, clients   *)
(* and rows: an owner has no more channels than requests can overlap, an   *)
(* answer is about the caller's own channel, and a walk through the pages  *)
(* shows every row there was when it began.  Of the collection the walks   *)
(* only know that it grows.                                                *)
(***************************************************************************)
EXTENDS ChannelPage, FiniteSetTheorems, TLAPS

-----------------------------------------------------------------------------
(* The requests of ChannelInfo. *)

\* The _ids of channels are given out in order, and no channel has more users than
\* its owner may have.
ChannelsOK ==
    /\ \E n \in Nat : DOMAIN owner = 1 .. n
    /\ \A i \in DOMAIN owner : owner[i] \in ChannelOwners
    /\ through \in [DOMAIN owner -> 0 .. MaxUsers]
    /\ failures \in 0 .. MaxFailures

\* A request at a step, for user u, with channel i and total n: it has nothing to
\* answer before it has found a channel of u, and the total is u's.
RequestOK(step, u, i, n) ==
    /\ step \in Steps /\ u \in ChannelOwners \cup {Nobody} /\ i \in Nat /\ n \in Nat
    /\ IF step = "idle" THEN u = Nobody ELSE u \in ChannelOwners
    /\ step \notin {"total", "answer"} => i = NoChannel
    /\ step # "answer" => n = 0
    /\ step = "total" => i # NoChannel
    /\ i # NoChannel => i \in ChannelsOf(u)
    /\ n <= UsersOf(u)

RequestsOK ==
    /\ DOMAIN at = Requests /\ DOMAIN for = Requests
    /\ DOMAIN channel = Requests /\ DOMAIN total = Requests
    /\ at = [q \in Requests |-> at[q]] /\ for = [q \in Requests |-> for[q]]
    /\ channel = [q \in Requests |-> channel[q]] /\ total = [q \in Requests |-> total[q]]
    /\ \A q \in Requests : RequestOK(at[q], for[q], channel[q], total[q])

CInv == ChannelsOK /\ RequestsOK

\* The users of an owner are finitely many, and a channel adds its own to them.
LEMMA UsersFinite ==
    ASSUME ChannelsOK, NEW u
    PROVE  /\ IsFiniteSet(ThroughChannels(ChannelsOf(u)))
           /\ UsersOf(u) \in Nat
           /\ ThroughChannels(ChannelsOf(u)) \subseteq (DOMAIN owner) \X (1 .. MaxUsers)
  <1>1. PICK n \in Nat : DOMAIN owner = 1 .. n
    BY DEF ChannelsOK
  <1>2. MaxUsers \in Nat
    BY RequestsAssumption
  <1>3. IsFiniteSet((1 .. n) \X (1 .. MaxUsers))
    <2>1. IsFiniteSet(1 .. n) /\ IsFiniteSet(1 .. MaxUsers)
      BY <1>2, FS_Interval
    <2>. QED
      BY <2>1, FS_Product
  <1>4. ThroughChannels(ChannelsOf(u)) \subseteq (1 .. n) \X (1 .. MaxUsers)
    BY <1>1, <1>2 DEF ChannelsOK, ThroughChannels, ChannelsOf
  <1>5. IsFiniteSet(ThroughChannels(ChannelsOf(u)))
    BY <1>3, <1>4, FS_Subset
  <1>6. UsersOf(u) \in Nat
    BY <1>5, FS_CardinalityType DEF UsersOf
  <1>. QED
    BY <1>1, <1>4, <1>5, <1>6

LEMMA OwnUsers ==
    ASSUME ChannelsOK, NEW i \in DOMAIN owner
    PROVE  through[i] <= UsersOf(owner[i])
  <1>1. through[i] \in Nat
    BY RequestsAssumption DEF ChannelsOK
  <1>2. {i} \X (1 .. through[i]) \subseteq ThroughChannels(ChannelsOf(owner[i]))
    BY DEF ThroughChannels, ChannelsOf
  <1>3. Cardinality({i} \X (1 .. through[i])) = through[i]
    <2>1. IsFiniteSet({i}) /\ Cardinality({i}) = 1
      BY FS_Singleton
    <2>2. IsFiniteSet(1 .. through[i]) /\ Cardinality(1 .. through[i]) = through[i]
      BY <1>1, FS_Interval
    <2>3. Cardinality({i} \X (1 .. through[i])) = 1 * through[i]
      BY <2>1, <2>2, FS_Product
    <2>. QED
      BY <1>1, <2>3
  <1>. QED
    BY <1>2, <1>3, UsersFinite, FS_Subset DEF UsersOf

\* The channels and their users.
Growing ==
    /\ \A i \in DOMAIN owner : i \in DOMAIN owner' /\ owner'[i] = owner[i]
    /\ \A u : UsersOf(u) \in Nat /\ UsersOf(u)' \in Nat /\ UsersOf(u) <= UsersOf(u)'

\* A step that leaves the collections alone.
LEMMA NothingGrows ==
    ASSUME ChannelsOK, UNCHANGED <<owner, through>>, failures' \in 0 .. MaxFailures
    PROVE  ChannelsOK' /\ Growing /\ \A u : UsersOf(u)' = UsersOf(u)
  <1>1. \A u : UsersOf(u)' = UsersOf(u)
    BY DEF UsersOf, ThroughChannels, ChannelsOf
  <1>2. \A u : UsersOf(u) \in Nat
    BY UsersFinite
  <1>. QED
    BY <1>1, <1>2 DEF ChannelsOK, Growing

\* The insert of a channel gives it the next _id and no users.
LEMMA ChannelInserted ==
    ASSUME ChannelsOK, NEW u \in ChannelOwners, InsertOne(u), failures' \in 0 .. MaxFailures
    PROVE  /\ ChannelsOK'
           /\ Growing
           /\ \A v : UsersOf(v)' = UsersOf(v)
           /\ NextID \in Nat \ {0} /\ NextID \notin DOMAIN owner
           /\ DOMAIN owner' = DOMAIN owner \cup {NextID}
           /\ owner'[NextID] = u
  <1>1. PICK n \in Nat : DOMAIN owner = 1 .. n
    BY DEF ChannelsOK
  <1>2. NextID = n + 1
    <2>1. Cardinality(1 .. n) = n
      BY FS_Interval
    <2>. QED
      BY <1>1, <2>1 DEF NextID
  <1>3. /\ DOMAIN owner' = 1 .. (n + 1)
        /\ owner'[n + 1] = u
        /\ \A i \in 1 .. n : owner'[i] = owner[i]
    BY <1>2 DEF InsertOne
  <1>4. /\ DOMAIN through' = 1 .. (n + 1)
        /\ through'[n + 1] = 0
        /\ \A i \in 1 .. n : through'[i] = through[i]
        /\ through' \in [1 .. (n + 1) -> 0 .. MaxUsers]
    BY <1>1, <1>2, RequestsAssumption DEF InsertOne, ChannelsOK
  <1>5. ChannelsOK'
    <2>1. \E k \in Nat : DOMAIN owner' = 1 .. k
      <3>1. n + 1 \in Nat
        OBVIOUS
      <3>. QED
        BY <3>1, <1>3
    <2>2. \A i \in DOMAIN owner' : owner'[i] \in ChannelOwners
      <3>1. \A i \in 1 .. n : owner[i] \in ChannelOwners
        BY <1>1 DEF ChannelsOK
      <3>2. \A i \in 1 .. (n + 1) : i \in 1 .. n \/ i = n + 1
        OBVIOUS
      <3>. QED
        BY <3>1, <3>2, <1>3
    <2>3. through' \in [DOMAIN owner' -> 0 .. MaxUsers]
      BY <1>3, <1>4
    <2>. QED
      BY <2>1, <2>2, <2>3 DEF ChannelsOK
  <1>6. ASSUME NEW v PROVE ThroughChannels(ChannelsOf(v))' = ThroughChannels(ChannelsOf(v))
    BY <1>1, <1>3, <1>4 DEF ThroughChannels, ChannelsOf
  <1>7. \A v : UsersOf(v)' = UsersOf(v)
    BY <1>6 DEF UsersOf
  <1>8. \A v : UsersOf(v) \in Nat
    BY UsersFinite
  <1>. QED
    BY <1>1, <1>2, <1>3, <1>5, <1>7, <1>8 DEF Growing

\* A user who comes through a channel is one more of its owner.
LEMMA UserRegistered ==
    ASSUME ChannelsOK, NEW i \in DOMAIN owner, RegisterChannelUser(i)
    PROVE  /\ ChannelsOK'
           /\ Growing
           /\ \A u : UsersOf(u) <= MaxUsers => UsersOf(u)' <= MaxUsers
  <1> DEFINE row == <<i, through[i] + 1>>
  <1>1. /\ owner' = owner /\ failures' = failures /\ UsersOf(owner[i]) < MaxUsers
        /\ through' = [through EXCEPT ![i] = @ + 1]
    BY DEF RegisterChannelUser, Works
  <1>2. MaxUsers \in Nat /\ through[i] \in 0 .. MaxUsers /\ through[i] <= UsersOf(owner[i])
    BY RequestsAssumption, OwnUsers DEF ChannelsOK
  <1>3. UsersOf(owner[i]) \in Nat
    BY UsersFinite
  <1>4. ChannelsOK'
    <2>1. through[i] + 1 \in 0 .. MaxUsers
      BY <1>1, <1>2, <1>3
    <2>2. through' \in [DOMAIN owner -> 0 .. MaxUsers]
      BY <2>1, <1>1 DEF ChannelsOK
    <2>. QED
      BY <2>2, <1>1 DEF ChannelsOK
  <1>5. \A k \in DOMAIN owner : k # i => through'[k] = through[k]
    BY <1>1 DEF ChannelsOK
  <1>6. through'[i] = through[i] + 1
    BY <1>1 DEF ChannelsOK
  <1>7. ASSUME NEW u, u # owner[i]
        PROVE  UsersOf(u)' = UsersOf(u)
    <2>1. ThroughChannels(ChannelsOf(u))' = ThroughChannels(ChannelsOf(u))
      BY <1>1, <1>5, <1>7 DEF ThroughChannels, ChannelsOf
    <2>. QED
      BY <2>1 DEF UsersOf
  <1>8. ASSUME NEW u, u = owner[i]
        PROVE  UsersOf(u)' = UsersOf(u) + 1
    <2>1. ThroughChannels(ChannelsOf(u))' = ThroughChannels(ChannelsOf(u)) \cup {row}
      <3>1. 1 .. through'[i] = (1 .. through[i]) \cup {through[i] + 1}
        BY <1>2, <1>6
      <3>2. ASSUME NEW k, NEW m
            PROVE  <<k, m>> \in ThroughChannels(ChannelsOf(u))'
                     <=> <<k, m>> \in ThroughChannels(ChannelsOf(u)) \cup {row}
        <4>1. CASE k = i
          BY <4>1, <3>1, <1>1, <1>8 DEF ThroughChannels, ChannelsOf
        <4>2. CASE k # i
          BY <4>2, <1>1, <1>5 DEF ThroughChannels, ChannelsOf
        <4>. QED
          BY <4>1, <4>2
      <3>3. \A x \in ThroughChannels(ChannelsOf(u)) \cup ThroughChannels(ChannelsOf(u))' \cup {row} :
               \E k, m : x = <<k, m>>
        BY DEF ThroughChannels
      <3>. QED
        BY <3>2, <3>3
    <2>2. row \notin ThroughChannels(ChannelsOf(u))
      BY <1>2 DEF ThroughChannels
    <2>. QED
      BY <2>1, <2>2, UsersFinite, FS_AddElement DEF UsersOf
  <1>9. \A u : UsersOf(u) \in Nat
    BY UsersFinite
  <1>10. ASSUME NEW u
         PROVE  /\ UsersOf(u) \in Nat /\ UsersOf(u)' \in Nat /\ UsersOf(u) <= UsersOf(u)'
                /\ UsersOf(u) <= MaxUsers => UsersOf(u)' <= MaxUsers
    <2>1. CASE u = owner[i]
      BY <2>1, <1>1, <1>2, <1>3, <1>8
    <2>2. CASE u # owner[i]
      BY <2>2, <1>2, <1>7, <1>9
    <2>. QED
      BY <2>1, <2>2
  <1>. QED
    BY <1>1, <1>4, <1>10 DEF Growing

-----------------------------------------------------------------------------
(* What a step does to the requests. *)

\* A step that touches the variables of one request.
Touches(q) ==
    /\ \E x : at' = [at EXCEPT ![q] = x]
    /\ \E x : for' = [for EXCEPT ![q] = x]
    /\ \E x : channel' = [channel EXCEPT ![q] = x]
    /\ \E x : total' = [total EXCEPT ![q] = x]

LEMMA RequestKept ==
    ASSUME RequestsOK, NEW q \in Requests, Touches(q), Growing, ChannelsOK, ChannelsOK',
           RequestOK(at[q], for[q], channel[q], total[q])'
    PROVE  RequestsOK'
  <1>1. ASSUME NEW r \in Requests, r # q
        PROVE  at'[r] = at[r] /\ for'[r] = for[r] /\ channel'[r] = channel[r] /\ total'[r] = total[r]
    BY <1>1 DEF Touches, RequestsOK
  <1>2. /\ DOMAIN at' = Requests /\ DOMAIN for' = Requests
        /\ DOMAIN channel' = Requests /\ DOMAIN total' = Requests
        /\ at' = [r \in Requests |-> at'[r]] /\ for' = [r \in Requests |-> for'[r]]
        /\ channel' = [r \in Requests |-> channel'[r]] /\ total' = [r \in Requests |-> total'[r]]
    BY DEF Touches, RequestsOK
  <1>3. ASSUME NEW s, NEW u, NEW i, NEW n, RequestOK(s, u, i, n)
        PROVE  RequestOK(s, u, i, n)'
    <2>1. UsersOf(u) \in Nat /\ UsersOf(u)' \in Nat /\ UsersOf(u) <= UsersOf(u)'
      BY DEF Growing
    <2>2. i \in ChannelsOf(u) => i \in ChannelsOf(u)'
      BY DEF Growing, ChannelsOf
    <2>. QED
      BY <1>3, <2>1, <2>2 DEF RequestOK
  <1>4. ASSUME NEW r \in Requests
        PROVE  RequestOK(at[r], for[r], channel[r], total[r])'
    <2>1. CASE r = q
      BY <2>1
    <2>2. CASE r # q
      <3>1. RequestOK(at[r], for[r], channel[r], total[r])
        BY DEF RequestsOK
      <3>. QED
        BY <3>1, <2>2, <1>1, <1>3
    <2>. QED
      BY <2>1, <2>2
  <1>. QED
    BY <1>2, <1>4 DEF RequestsOK

\* What a step of request q, or of none, leaves true.
Stepped(q) ==
    /\ ChannelsOK' /\ Growing /\ Touches(q)
    /\ RequestOK(at[q], for[q], channel[q], total[q])'
    /\ \A u : UsersOf(u)' = UsersOf(u)

LEMMA FailuresKept ==
    ASSUME ChannelsOK, Works \/ Fails
    PROVE  failures' \in 0 .. MaxFailures
  BY RequestsAssumption DEF ChannelsOK, Works, Fails

\* A step that leaves the collections alone.
LEMMA Answered ==
    ASSUME CInv, UNCHANGED <<owner, through>>, Works \/ Fails
    PROVE  /\ ChannelsOK' /\ Growing
           /\ \A u : UsersOf(u)' = UsersOf(u) /\ UsersOf(u) \in Nat
           /\ \A u : ChannelsOf(u)' = ChannelsOf(u)
  <1>1. ChannelsOK' /\ Growing /\ \A u : UsersOf(u)' = UsersOf(u)
    BY FailuresKept, NothingGrows DEF CInv
  <1>. QED
    BY <1>1 DEF Growing, ChannelsOf

\* The _ids of channels are numbers.
LEMMA ChannelIDs ==
    ASSUME ChannelsOK, NEW u, NEW i \in ChannelsOf(u)
    PROVE  i \in Nat /\ i # NoChannel
  BY DEF ChannelsOK, NoChannel, ChannelsOf

LEMMA ChannelInfoStep ==
    ASSUME CInv, NEW q \in Requests, NEW u \in ChannelOwners, ChannelInfo(q, u)
    PROVE  Stepped(q)
  <1>1. /\ at[q] = "idle" /\ at' = [at EXCEPT ![q] = "find"]
        /\ for' = [for EXCEPT ![q] = u] /\ UNCHANGED <<owner, through, channel, total>>
        /\ RequestOK(at[q], for[q], channel[q], total[q])
    BY DEF ChannelInfo, Goto, CInv, RequestsOK
  <1>2. at'[q] = "find" /\ for'[q] = u /\ channel'[q] = NoChannel /\ total'[q] = 0
    BY <1>1 DEF CInv, RequestsOK, RequestOK
  <1>3. /\ ChannelsOK' /\ Growing
        /\ \A v : UsersOf(v)' = UsersOf(v) /\ UsersOf(v) \in Nat
    BY <1>1, Answered DEF ChannelInfo
  <1>4. UsersOf(u)' \in Nat
    BY <1>3
  <1>5. RequestOK(at[q], for[q], channel[q], total[q])'
    BY <1>2, <1>4 DEF RequestOK, Steps, NoChannel
  <1>6. Touches(q)
    <2>1. channel' = [channel EXCEPT ![q] = channel[q]] /\ total' = [total EXCEPT ![q] = total[q]]
      BY <1>1 DEF CInv, RequestsOK
    <2>. QED
      BY <1>1, <2>1 DEF Touches
  <1>. QED
    BY <1>3, <1>5, <1>6 DEF Stepped

LEMMA FindStep ==
    ASSUME CInv, NEW q \in Requests, NEW from \in {"find", "findAgain"},
           NEW missing \in {"user", "answer"}, FindChannelListByMisesid(q, from, missing)
    PROVE  Stepped(q)
  <1>1. /\ at[q] = from /\ UNCHANGED <<owner, through, for, total>>
        /\ RequestOK(at[q], for[q], channel[q], total[q])
    BY DEF FindChannelListByMisesid, CInv, RequestsOK
  <1>2. for[q] \in ChannelOwners /\ channel[q] = NoChannel /\ total[q] = 0
    BY <1>1 DEF RequestOK
  <1>3. /\ ChannelsOK' /\ Growing
        /\ \A u : UsersOf(u)' = UsersOf(u) /\ UsersOf(u) \in Nat
        /\ \A u : ChannelsOf(u)' = ChannelsOf(u)
    BY <1>1, Answered DEF FindChannelListByMisesid
  <1>4. for'[q] = for[q] /\ total'[q] = 0
    BY <1>1, <1>2
  <1>5. UsersOf(for[q])' \in Nat
    BY <1>1, <1>3 DEF UsersOf, ThroughChannels, ChannelsOf
  <1>6. CASE /\ channel' = channel
             /\ \E step \in {missing, "answer"} : at' = [at EXCEPT ![q] = step]
    <2>1. channel'[q] = NoChannel /\ at'[q] \in {missing, "answer"}
      BY <1>2, <1>6 DEF CInv, RequestsOK
    <2>2. RequestOK(at[q], for[q], channel[q], total[q])'
      BY <1>2, <1>4, <1>5, <2>1 DEF RequestOK, Steps, NoChannel
    <2>3. Touches(q)
      <3>1. /\ channel' = [channel EXCEPT ![q] = channel[q]]
            /\ total' = [total EXCEPT ![q] = total[q]] /\ for' = [for EXCEPT ![q] = for[q]]
        BY <1>1, <1>6 DEF CInv, RequestsOK
      <3>. QED
        BY <1>6, <3>1 DEF Touches
    <2>. QED
      BY <1>3, <2>2, <2>3 DEF Stepped
  <1>7. ASSUME NEW i \in ChannelsOf(for[q]), channel' = [channel EXCEPT ![q] = i],
               at' = [at EXCEPT ![q] = "total"]
        PROVE  Stepped(q)
    <2>1. channel'[q] = i /\ at'[q] = "total" /\ i \in Nat /\ i # NoChannel
      BY <1>7, ChannelIDs DEF CInv, RequestsOK
    <2>2. i \in ChannelsOf(for[q])'
      BY <1>1, <1>7 DEF ChannelsOf
    <2>3. RequestOK(at[q], for[q], channel[q], total[q])'
      BY <1>2, <1>4, <1>5, <2>1, <2>2 DEF RequestOK, Steps
    <2>4. Touches(q)
      <3>1. total' = [total EXCEPT ![q] = total[q]] /\ for' = [for EXCEPT ![q] = for[q]]
        BY <1>1 DEF CInv, RequestsOK
      <3>. QED
        BY <1>7, <3>1 DEF Touches
    <2>. QED
      BY <1>3, <2>3, <2>4 DEF Stepped
  <1>. QED
    BY <1>6, <1>7 DEF FindChannelListByMisesid, Goto

\* A request goes on, or gives up, without having learned anything.
LEMMA PassStep ==
    ASSUME CInv, NEW q \in Requests, at[q] \in {"user", "count"},
           NEW step \in {"count", "insert", "findAgain", "answer"}, Goto(q, step),
           UNCHANGED <<owner, through, for, channel, total>>, Works \/ Fails
    PROVE  Stepped(q)
  <1>1. /\ at' = [at EXCEPT ![q] = step] /\ RequestOK(at[q], for[q], channel[q], total[q])
        /\ for[q] \in ChannelOwners /\ channel[q] = NoChannel /\ total[q] = 0
    BY DEF Goto, CInv, RequestsOK, RequestOK
  <1>2. /\ ChannelsOK' /\ Growing
        /\ \A u : UsersOf(u)' = UsersOf(u) /\ UsersOf(u) \in Nat
    BY Answered
  <1>3. UsersOf(for[q])' \in Nat
    BY <1>2 DEF UsersOf, ThroughChannels, ChannelsOf
  <1>4. at'[q] = step /\ for'[q] = for[q] /\ channel'[q] = NoChannel /\ total'[q] = 0
    BY <1>1 DEF CInv, RequestsOK
  <1>5. RequestOK(at[q], for[q], channel[q], total[q])'
    BY <1>1, <1>3, <1>4 DEF RequestOK, Steps, NoChannel
  <1>6. Touches(q)
    <2>1. /\ channel' = [channel EXCEPT ![q] = channel[q]]
          /\ total' = [total EXCEPT ![q] = total[q]] /\ for' = [for EXCEPT ![q] = for[q]]
      BY DEF CInv, RequestsOK
    <2>. QED
      BY <1>1, <2>1 DEF Touches
  <1>. QED
    BY <1>2, <1>5, <1>6 DEF Stepped

LEMMA CreateStep ==
    ASSUME CInv, NEW q \in Requests, CreateChannelList(q)
    PROVE  Stepped(q)
  <1>1. /\ at[q] = "insert" /\ total' = total
        /\ RequestOK(at[q], for[q], channel[q], total[q])
        /\ for[q] \in ChannelOwners /\ channel[q] = NoChannel /\ total[q] = 0
    BY DEF CreateChannelList, CInv, RequestsOK, RequestOK
  <1>2. failures' \in 0 .. MaxFailures
    BY FailuresKept DEF CreateChannelList, CInv
  <1>3. total'[q] = 0 /\ total' = [total EXCEPT ![q] = total[q]]
    BY <1>1 DEF CInv, RequestsOK
  <1>4. CASE InsertOne(for[q]) /\ channel' = [channel EXCEPT ![q] = NextID]
             /\ Goto(q, "total") /\ for' = for
    <2>1. /\ ChannelsOK' /\ Growing /\ \A u : UsersOf(u)' = UsersOf(u)
          /\ NextID \in Nat \ {0} /\ DOMAIN owner' = DOMAIN owner \cup {NextID}
          /\ owner'[NextID] = for[q]
      BY <1>1, <1>2, <1>4, ChannelInserted DEF CInv
    <2>2. /\ at' = [at EXCEPT ![q] = "total"]
          /\ at'[q] = "total" /\ channel'[q] = NextID /\ for'[q] = for[q]
      BY <1>4 DEF Goto, CInv, RequestsOK
    <2>3. NextID \in ChannelsOf(for[q])'
      BY <2>1, <2>2 DEF ChannelsOf
    <2>4. \A u : UsersOf(u)' \in Nat
      BY <2>1 DEF Growing
    <2>5. UsersOf(for[q])' \in Nat
      BY <2>4, <1>4 DEF UsersOf, ThroughChannels, ChannelsOf
    <2>6. RequestOK(at[q], for[q], channel[q], total[q])'
      BY <1>1, <1>3, <2>1, <2>2, <2>3, <2>5 DEF RequestOK, Steps, NoChannel
    <2>7. Touches(q)
      <3>1. for' = [for EXCEPT ![q] = for[q]]
        BY <1>4 DEF CInv, RequestsOK
      <3>. QED
        BY <1>3, <1>4, <2>2, <3>1 DEF Touches
    <2>. QED
      BY <2>1, <2>6, <2>7 DEF Stepped
  <1>5. CASE /\ InsertOne(for[q]) \/ UNCHANGED <<owner, through>>
             /\ Goto(q, "idle") /\ for' = [for EXCEPT ![q] = Nobody] /\ channel' = channel
    <2>1. ChannelsOK' /\ Growing /\ \A u : UsersOf(u)' = UsersOf(u)
      BY <1>1, <1>2, <1>5, ChannelInserted, NothingGrows DEF CInv
    <2>2. /\ at' = [at EXCEPT ![q] = "idle"]
          /\ at'[q] = "idle" /\ channel'[q] = NoChannel /\ for'[q] = Nobody
      BY <1>1, <1>5 DEF Goto, CInv, RequestsOK
    <2>3. UsersOf(Nobody)' \in Nat
      BY <2>1 DEF Growing
    <2>4. UsersOf(for[q])' \in Nat
      BY <2>2, <2>3 DEF UsersOf, ThroughChannels, ChannelsOf
    <2>5. RequestOK(at[q], for[q], channel[q], total[q])'
      BY <1>3, <2>2, <2>4 DEF RequestOK, Steps, NoChannel
    <2>6. Touches(q)
      <3>1. channel' = [channel EXCEPT ![q] = channel[q]]
        BY <1>5 DEF CInv, RequestsOK
      <3>. QED
        BY <1>3, <1>5, <2>2, <3>1 DEF Touches
    <2>. QED
      BY <2>1, <2>5, <2>6 DEF Stepped
  <1>. QED
    BY <1>4, <1>5 DEF CreateChannelList

LEMMA CountStep ==
    ASSUME CInv, NEW q \in Requests, CountChannelTotalUser(q)
    PROVE  Stepped(q)
  <1>1. /\ at[q] = "total" /\ at' = [at EXCEPT ![q] = "answer"]
        /\ UNCHANGED <<owner, through, for, channel>>
        /\ RequestOK(at[q], for[q], channel[q], total[q])
    BY DEF CountChannelTotalUser, Goto, CInv, RequestsOK
  <1>2. /\ ChannelsOK' /\ Growing
        /\ \A u : UsersOf(u)' = UsersOf(u) /\ UsersOf(u) \in Nat
    BY <1>1, Answered DEF CountChannelTotalUser
  <1>3. /\ for[q] \in ChannelOwners /\ channel[q] # NoChannel /\ total[q] = 0
        /\ channel[q] \in ChannelsOf(for[q]) /\ channel[q] \in Nat
    BY <1>1 DEF RequestOK
  <1>4. PICK n : total' = [total EXCEPT ![q] = n] /\ n \in {0, through[channel[q]]}
    <2>1. total = [total EXCEPT ![q] = 0]
      BY <1>3 DEF CInv, RequestsOK
    <2>. QED
      BY <2>1 DEF CountChannelTotalUser, CountChannelUser
  <1>5. n \in Nat /\ n <= UsersOf(for[q])
    <2>1. /\ through[channel[q]] \in Nat
          /\ through[channel[q]] <= UsersOf(for[q])
      BY <1>3, OwnUsers, RequestsAssumption DEF ChannelsOf, CInv, ChannelsOK
    <2>. QED
      BY <2>1, <1>2, <1>4
  <1>6. UsersOf(for[q])' = UsersOf(for[q]) /\ ChannelsOf(for[q])' = ChannelsOf(for[q])
    BY <1>1 DEF UsersOf, ThroughChannels, ChannelsOf
  <1>7. at'[q] = "answer" /\ for'[q] = for[q] /\ channel'[q] = channel[q] /\ total'[q] = n
    BY <1>1, <1>4 DEF CInv, RequestsOK
  <1>8. RequestOK(at[q], for[q], channel[q], total[q])'
    BY <1>3, <1>5, <1>6, <1>7 DEF RequestOK, Steps
  <1>9. Touches(q)
    <2>1. channel' = [channel EXCEPT ![q] = channel[q]] /\ for' = [for EXCEPT ![q] = for[q]]
      BY <1>1 DEF CInv, RequestsOK
    <2>. QED
      BY <1>1, <1>4, <2>1 DEF Touches
  <1>. QED
    BY <1>2, <1>8, <1>9 DEF Stepped

LEMMA AnswerStep ==
    ASSUME CInv, NEW q \in Requests, Answer(q)
    PROVE  Stepped(q)
  <1>1. /\ at' = [at EXCEPT ![q] = "idle"] /\ for' = [for EXCEPT ![q] = Nobody]
        /\ channel' = [channel EXCEPT ![q] = NoChannel] /\ total' = [total EXCEPT ![q] = 0]
        /\ UNCHANGED <<owner, through>>
    BY DEF Answer, Goto
  <1>2. /\ ChannelsOK' /\ Growing
        /\ \A u : UsersOf(u)' = UsersOf(u) /\ UsersOf(u) \in Nat
    BY <1>1, Answered DEF Answer
  <1>3. at'[q] = "idle" /\ for'[q] = Nobody /\ channel'[q] = NoChannel /\ total'[q] = 0
    BY <1>1 DEF CInv, RequestsOK
  <1>4. UsersOf(Nobody)' \in Nat
    BY <1>2
  <1>5. UsersOf(for[q])' \in Nat
    BY <1>3, <1>4 DEF UsersOf, ThroughChannels, ChannelsOf
  <1>6. RequestOK(at[q], for[q], channel[q], total[q])'
    BY <1>3, <1>5 DEF RequestOK, Steps, NoChannel
  <1>. QED
    BY <1>1, <1>2, <1>6 DEF Stepped, Touches

LEMMA ServeStep ==
    ASSUME CInv, NEW q \in Requests, Serve(q)
    PROVE  Stepped(q)
  <1>1. CASE Find(q)
    BY <1>1, FindStep DEF Find
  <1>2. CASE FindUserByMisesid(q)
    BY <1>2, PassStep DEF FindUserByMisesid
  <1>3. CASE BeforeCreate(q)
    BY <1>3, PassStep DEF BeforeCreate
  <1>4. CASE CreateChannelList(q)
    BY <1>4, CreateStep
  <1>5. CASE FindAgain(q)
    BY <1>5, FindStep DEF FindAgain
  <1>6. CASE CountChannelTotalUser(q)
    BY <1>6, CountStep
  <1>7. CASE Answer(q)
    BY <1>7, AnswerStep
  <1>. QED
    BY <1>1, <1>2, <1>3, <1>4, <1>5, <1>6, <1>7 DEF Serve

\* The process dies: no request has anything left.
LEMMA CrashStep ==
    ASSUME CInv, Crash
    PROVE  CInv' /\ Growing /\ \A u : UsersOf(u)' = UsersOf(u)
  <1>1. /\ at' = [q \in Requests |-> "idle"] /\ for' = [q \in Requests |-> Nobody]
        /\ channel' = [q \in Requests |-> NoChannel] /\ total' = [q \in Requests |-> 0]
        /\ UNCHANGED <<owner, through>>
    BY DEF Crash
  <1>2. /\ ChannelsOK' /\ Growing
        /\ \A u : UsersOf(u)' = UsersOf(u) /\ UsersOf(u) \in Nat
    BY <1>1, Answered DEF Crash
  <1>3. ASSUME NEW q \in Requests
        PROVE  RequestOK(at[q], for[q], channel[q], total[q])'
    <2>1. at'[q] = "idle" /\ for'[q] = Nobody /\ channel'[q] = NoChannel /\ total'[q] = 0
      BY <1>1
    <2>2. UsersOf(Nobody)' \in Nat
      BY <1>2
    <2>3. UsersOf(for[q])' \in Nat
      BY <2>1, <2>2 DEF UsersOf, ThroughChannels, ChannelsOf
    <2>. QED
      BY <2>1, <2>3 DEF RequestOK, Steps, NoChannel
  <1>4. RequestsOK'
    BY <1>1, <1>3 DEF RequestsOK
  <1>. QED
    BY <1>2, <1>4 DEF CInv

\* A step that leaves the requests alone.
LEMMA RequestsLeft ==
    ASSUME CInv, ChannelsOK', Growing, UNCHANGED <<at, for, channel, total>>
    PROVE  CInv'
  <1>1. ASSUME NEW r \in Requests
        PROVE  RequestOK(at[r], for[r], channel[r], total[r])'
    <2>1. RequestOK(at[r], for[r], channel[r], total[r])
      BY DEF CInv, RequestsOK
    <2>2. /\ UsersOf(for[r]) \in Nat /\ UsersOf(for[r]) <= UsersOf(for[r])'
          /\ UsersOf(for[r])' \in Nat
      <3>1. ASSUME NEW u, u = for[r]
            PROVE  UsersOf(for[r])' = UsersOf(u)'
        BY <3>1 DEF UsersOf, ThroughChannels, ChannelsOf
      <3>. QED
        BY <3>1 DEF Growing
    <2>3. channel[r] \in ChannelsOf(for[r]) => channel[r] \in ChannelsOf(for[r])'
      BY DEF Growing, ChannelsOf
    <2>. QED
      BY <2>1, <2>2, <2>3 DEF RequestOK
  <1>. QED
    BY <1>1 DEF CInv, RequestsOK

\* What every step leaves true of the channels: they grow, up to the bound.
LEMMA CInvNext ==
    ASSUME CInv, [Next]_vars
    PROVE  /\ CInv' /\ Growing
           /\ \A u : UsersOf(u) <= MaxUsers => UsersOf(u)' <= MaxUsers
  <1>1. CASE UNCHANGED channelVars
    <2>1. /\ ChannelsOK' /\ Growing
          /\ \A u : UsersOf(u)' = UsersOf(u) /\ UsersOf(u) \in Nat
      BY <1>1, Answered DEF channelVars, Works
    <2>. QED
      BY <1>1, <2>1, RequestsLeft DEF channelVars
  <1>2. ASSUME NEW w, PageFails(w)
        PROVE  /\ CInv' /\ Growing
               /\ \A u : UsersOf(u) <= MaxUsers => UsersOf(u)' <= MaxUsers
    <2>1. /\ ChannelsOK' /\ Growing
          /\ \A u : UsersOf(u)' = UsersOf(u) /\ UsersOf(u) \in Nat
      BY <1>2, Answered DEF PageFails
    <2>. QED
      BY <1>2, <2>1, RequestsLeft DEF PageFails
  <1>3. CASE ProcessDies
    BY <1>3, CrashStep DEF ProcessDies
  <1>4. ASSUME NEW q \in Requests, Serve(q) \/ \E u \in ChannelOwners : ChannelInfo(q, u)
        PROVE  /\ CInv' /\ Growing
               /\ \A u : UsersOf(u) <= MaxUsers => UsersOf(u)' <= MaxUsers
    <2>1. Stepped(q)
      BY <1>4, ServeStep, ChannelInfoStep
    <2>2. RequestsOK'
      BY <2>1, RequestKept DEF Stepped, CInv
    <2>. QED
      BY <2>1, <2>2 DEF Stepped, CInv
  <1>5. ASSUME NEW i \in DOMAIN owner, RegisterChannelUser(i)
        PROVE  /\ CInv' /\ Growing
               /\ \A u : UsersOf(u) <= MaxUsers => UsersOf(u)' <= MaxUsers
    <2>1. /\ ChannelsOK' /\ Growing
          /\ \A u : UsersOf(u) <= MaxUsers => UsersOf(u)' <= MaxUsers
      BY <1>5, UserRegistered DEF CInv
    <2>. QED
      BY <2>1, <1>5, RequestsLeft DEF RegisterChannelUser
  <1>. QED
    BY <1>1, <1>2, <1>3, <1>4, <1>5 DEF Next, InfoStep, ChannelsNext, Begin, Walk, vars

LEMMA CInvInit == Init => CInv /\ \A u : UsersOf(u) = 0
  <1>. SUFFICES ASSUME ChannelsInit
                PROVE  CInv /\ \A u : UsersOf(u) = 0
    BY DEF Init
  <1>1. DOMAIN owner = {} /\ DOMAIN through = {} /\ 1 .. 0 = {}
    BY DEF ChannelsInit
  <1>2. \A u : ThroughChannels(ChannelsOf(u)) = {}
    BY <1>1 DEF ThroughChannels, ChannelsOf
  <1>3. \A u : UsersOf(u) = 0
    BY <1>2, FS_EmptySet DEF UsersOf
  <1>4. ChannelsOK
    <2>1. \E n \in Nat : DOMAIN owner = 1 .. n
      BY <1>1
    <2>2. through \in [DOMAIN owner -> 0 .. MaxUsers]
      BY <1>1 DEF ChannelsInit
    <2>. QED
      BY <1>1, <2>1, <2>2, RequestsAssumption DEF ChannelsInit, ChannelsOK
  <1>5. RequestsOK
    BY <1>3 DEF ChannelsInit, RequestsOK, RequestOK, Steps, NoChannel
  <1>. QED
    BY <1>3, <1>4, <1>5 DEF CInv

\* A request never answers with the channel of somebody else, and its total promises
\* no more users than the pages of the owner select: for any number of requests that
\* overlap, of channels of one owner, failures and crashes (ChannelInfo,
\* countChannelTotalUser).
THEOREM AnswersAreOwn == Spec => []AnswerIsOwn
  <1>1. Init => CInv
    BY CInvInit
  <1>2. CInv /\ [Next]_vars => CInv'
    BY CInvNext
  <1>3. CInv => AnswerIsOwn
    BY DEF CInv, RequestsOK, RequestOK, AnswerIsOwn, ChannelsOf
  <1>. QED
    BY <1>1, <1>2, <1>3, PTL DEF Spec

-----------------------------------------------------------------------------
(* The channels of one owner. *)

LEMMA ChannelsFinite ==
    ASSUME ChannelsOK, NEW u
    PROVE  /\ IsFiniteSet(ChannelsOf(u)) /\ Cardinality(ChannelsOf(u)) \in Nat
           /\ IsFiniteSet(Inserting(u)) /\ Cardinality(Inserting(u)) \in Nat
           /\ Cardinality(Inserting(u)) <= Cardinality(Requests)
           /\ Cardinality(Requests) \in Nat
  <1>1. IsFiniteSet(Requests) /\ Cardinality(Requests) \in Nat
    BY RequestsAssumption, FS_CardinalityType
  <1>2. Inserting(u) \subseteq Requests
    BY DEF Inserting
  <1>3. /\ IsFiniteSet(Inserting(u))
        /\ Cardinality(Inserting(u)) <= Cardinality(Requests)
    BY <1>1, <1>2, FS_Subset
  <1>4. PICK n \in Nat : DOMAIN owner = 1 .. n
    BY DEF ChannelsOK
  <1>5. IsFiniteSet(1 .. n)
    BY FS_Interval
  <1>6. ChannelsOf(u) \subseteq 1 .. n
    BY <1>4 DEF ChannelsOf
  <1>7. IsFiniteSet(ChannelsOf(u))
    BY <1>5, <1>6, FS_Subset
  <1>. QED
    BY <1>1, <1>3, <1>7, FS_CardinalityType

\* The two sets of an owner after a step: nothing new, a channel for a request that was
\* inserting it, or a request more that has counted none.
DupStep(u) ==
    \/ ChannelsOf(u)' = ChannelsOf(u) /\ Inserting(u)' \subseteq Inserting(u)
    \/ \E q \in Inserting(u) :
          /\ ChannelsOf(u)' = ChannelsOf(u) \cup {NextID}
          /\ Inserting(u)' = Inserting(u) \ {q}
    \/ ChannelsOf(u) = {} /\ ChannelsOf(u)' = {} /\ Inserting(u)' \subseteq Requests

LEMMA DupStays ==
    ASSUME RequestsOK, UNCHANGED owner, NEW u,
           \A r \in Requests : at'[r] = "insert" => at[r] = "insert" /\ for'[r] = for[r]
    PROVE  DupStep(u)
  BY DEF DupStep, ChannelsOf, Inserting

LEMMA DupServe ==
    ASSUME CInv, NEW u \in ChannelOwners, NEW q \in Requests,
           Serve(q) \/ \E v \in ChannelOwners : ChannelInfo(q, v)
    PROVE  DupStep(u)
  <1>1. CASE CreateChannelList(q)
    <2>1. at[q] = "insert" /\ at'[q] # "insert" /\ for[q] \in ChannelOwners
      BY <1>1 DEF CreateChannelList, Goto, CInv, RequestsOK, RequestOK
    <2>2. \A r \in Requests : r # q => at'[r] = at[r] /\ for'[r] = for[r]
      BY <1>1 DEF CreateChannelList, Goto, CInv, RequestsOK
    <2>3. CASE UNCHANGED owner
      BY <2>1, <2>2, <2>3, DupStays DEF CInv
    <2>4. CASE InsertOne(for[q])
      <3>1. /\ NextID \notin DOMAIN owner /\ DOMAIN owner' = DOMAIN owner \cup {NextID}
            /\ owner'[NextID] = for[q] /\ \A i \in DOMAIN owner : owner'[i] = owner[i]
        <4>1. failures' \in 0 .. MaxFailures
          BY <1>1, FailuresKept DEF CreateChannelList, CInv
        <4>. QED
          BY <4>1, <2>1, <2>4, ChannelInserted DEF Growing, CInv
      <3>2. CASE for[q] = u
        <4>1. q \in Inserting(u) /\ Inserting(u)' = Inserting(u) \ {q}
          BY <2>1, <2>2, <3>2 DEF Inserting
        <4>2. ChannelsOf(u)' = ChannelsOf(u) \cup {NextID}
          BY <3>1, <3>2 DEF ChannelsOf
        <4>. QED
          BY <4>1, <4>2 DEF DupStep
      <3>3. CASE for[q] # u
        <4>1. Inserting(u)' = Inserting(u)
          BY <2>1, <2>2, <3>3 DEF Inserting
        <4>2. ChannelsOf(u)' = ChannelsOf(u)
          BY <3>1, <3>3 DEF ChannelsOf
        <4>. QED
          BY <4>1, <4>2 DEF DupStep
      <3>. QED
        BY <3>2, <3>3
    <2>. QED
      BY <1>1, <2>3, <2>4 DEF CreateChannelList
  <1>2. CASE BeforeCreate(q)
    <2>1. UNCHANGED <<owner, for>> /\ \A r \in Requests : r # q => at'[r] = at[r]
      BY <1>2 DEF BeforeCreate, Goto, CInv, RequestsOK
    <2>2. at'[q] = "insert" => ChannelsOf(for[q]) = {}
      BY <1>2 DEF BeforeCreate, Goto, CInv, RequestsOK
    <2>3. CASE for[q] = u /\ at'[q] = "insert"
      <3>1. ChannelsOf(u) = {} /\ ChannelsOf(u)' = {} /\ Inserting(u)' \subseteq Requests
        BY <2>1, <2>2, <2>3 DEF ChannelsOf, Inserting
      <3>. QED
        BY <3>1 DEF DupStep
    <2>4. CASE ~(for[q] = u /\ at'[q] = "insert")
      BY <2>1, <2>4 DEF DupStep, ChannelsOf, Inserting
    <2>. QED
      BY <2>3, <2>4
  <1>3. ASSUME UNCHANGED owner, at'[q] # "insert",
               \A r \in Requests : r # q => at'[r] = at[r] /\ for'[r] = for[r]
        PROVE  DupStep(u)
    BY <1>3, DupStays DEF CInv
  <1>4. CASE Find(q) \/ FindAgain(q)
    BY <1>3, <1>4 DEF Find, FindAgain, FindChannelListByMisesid, Goto, CInv, RequestsOK
  <1>5. CASE FindUserByMisesid(q) \/ CountChannelTotalUser(q) \/ Answer(q)
    BY <1>3, <1>5 DEF FindUserByMisesid, CountChannelTotalUser, Answer, Goto, CInv, RequestsOK
  <1>6. CASE \E v \in ChannelOwners : ChannelInfo(q, v)
    BY <1>3, <1>6 DEF ChannelInfo, Goto, CInv, RequestsOK
  <1>. QED
    BY <1>1, <1>2, <1>4, <1>5, <1>6 DEF Serve

LEMMA DupSteps ==
    ASSUME CInv, [Next]_vars, NEW u \in ChannelOwners
    PROVE  DupStep(u)
  <1>1. CASE UNCHANGED <<owner, at, for>>
    BY <1>1, DupStays DEF CInv
  <1>2. CASE ProcessDies
    BY <1>2, DupStays DEF ProcessDies, Crash, CInv
  <1>3. CASE \E q \in Requests : Serve(q) \/ \E v \in ChannelOwners : ChannelInfo(q, v)
    BY <1>3, DupServe
  <1>. QED
    BY <1>1, <1>2, <1>3 DEF Next, InfoStep, ChannelsNext, RegisterChannelUser, Begin, Walk,
                            PageFails, vars, channelVars

\* An owner never has more channels than requests can overlap, although the count of
\* BeforeCreate and the insert after it are not held together: for any number of
\* requests, owners, failures and crashes.
THEOREM DuplicatesBounded == Spec => []DuplicatesAreBounded
  <1>1. Init => CInv /\ DuplicatesAreBounded
    <2>1. Init => CInv /\ DOMAIN owner = {} /\ \A q \in Requests : at[q] = "idle"
      BY CInvInit DEF Init, ChannelsInit
    <2>2. ASSUME CInv, DOMAIN owner = {}, \A q \in Requests : at[q] = "idle", NEW u
          PROVE  Cardinality(ChannelsOf(u)) + Cardinality(Inserting(u)) <= Cardinality(Requests)
      <3>1. ChannelsOf(u) = {} /\ Inserting(u) = {}
        BY <2>2 DEF ChannelsOf, Inserting
      <3>2. Cardinality({}) = 0 /\ Cardinality(Requests) \in Nat
        BY <2>2, ChannelsFinite, FS_EmptySet DEF CInv
      <3>. QED
        BY <3>1, <3>2
    <2>. QED
      BY <2>1, <2>2 DEF DuplicatesAreBounded
  <1>2. CInv /\ DuplicatesAreBounded /\ [Next]_vars => (CInv /\ DuplicatesAreBounded)'
    <2>. SUFFICES ASSUME CInv, DuplicatesAreBounded, [Next]_vars, NEW u \in ChannelOwners
                  PROVE  Cardinality(ChannelsOf(u)') + Cardinality(Inserting(u)')
                           <= Cardinality(Requests)
      BY CInvNext DEF DuplicatesAreBounded
    <2> DEFINE n == Cardinality(ChannelsOf(u))
               k == Cardinality(Inserting(u))
    <2>1. /\ IsFiniteSet(ChannelsOf(u)) /\ n \in Nat
          /\ IsFiniteSet(Inserting(u)) /\ k \in Nat
          /\ Cardinality(Requests) \in Nat /\ n + k <= Cardinality(Requests)
      BY ChannelsFinite DEF CInv, DuplicatesAreBounded
    <2>2. CASE ChannelsOf(u)' = ChannelsOf(u) /\ Inserting(u)' \subseteq Inserting(u)
      <3>1. Cardinality(Inserting(u)') <= k /\ Cardinality(Inserting(u)') \in Nat
        BY <2>1, <2>2, FS_Subset, FS_CardinalityType
      <3>. QED
        BY <2>1, <2>2, <3>1
    <2>3. ASSUME NEW q \in Inserting(u), ChannelsOf(u)' = ChannelsOf(u) \cup {NextID},
                 Inserting(u)' = Inserting(u) \ {q}
          PROVE  Cardinality(ChannelsOf(u)') + Cardinality(Inserting(u)')
                   <= Cardinality(Requests)
      <3>1. Cardinality(Inserting(u)') = k - 1
        BY <2>1, <2>3, FS_RemoveElement
      <3>2. Cardinality(ChannelsOf(u)') <= n + 1 /\ Cardinality(ChannelsOf(u)') \in Nat
        <4>1. Cardinality(ChannelsOf(u) \cup {NextID})
                = IF NextID \in ChannelsOf(u) THEN n ELSE n + 1
          BY <2>1, FS_AddElement
        <4>. QED
          BY <2>1, <2>3, <4>1
      <3>. QED
        BY <2>1, <3>1, <3>2
    <2>4. CASE ChannelsOf(u)' = {} /\ Inserting(u)' \subseteq Requests
      <3>1. Cardinality({}) = 0
        BY FS_EmptySet
      <3>2. /\ Cardinality(Inserting(u)') <= Cardinality(Requests)
            /\ Cardinality(Inserting(u)') \in Nat
        BY <2>4, RequestsAssumption, FS_Subset, FS_CardinalityType
      <3>. QED
        BY <2>4, <3>1, <3>2
    <2>. QED
      BY <2>2, <2>3, <2>4, DupSteps DEF DupStep
  <1>. QED
    BY <1>1, <1>2, PTL DEF Spec

-----------------------------------------------------------------------------
(* The walks.  Of the collection they know that its rows have the _ids 1 to n, *)
(* and that n grows.                                                           *)

Rows == UsersOf(Viewed)

Counting == {"count", "find", "answered", "done"}
Quick == {"quickFind", "quickNext", "quickAnswered", "quickDone"}

\* The client has seen the rows after n of those there were when its walk began.
Shown(w, n) == \A i \in 1 .. start[w] : i > n => i \in seen[w]

\* The last row that a quick page may show.
Top(w) == IF page[w].next = Pages!NoID THEN Rows ELSE page[w].next

\* The rows of answer a to a page, found when there were n of them.
FoundAmong(a, p, n) ==
    /\ a.records <= n
    /\ a.rows = Pages!Find(1 .. n, Pages!Offset(p), p.size)

WalkOK(w) ==
    /\ walkAt[w] \in {"idle"} \cup Counting \cup Quick
    /\ start[w] \in 0 .. Rows
    /\ seen[w] \subseteq 1 .. Rows
    /\ walkAt[w] \in Counting => page[w] \in [num : Nat \ {0}, size : Nat \ {0}]
    /\ walkAt[w] \in Quick => page[w] \in [next : 0 .. Rows, size : Nat \ {0}]
    /\ walkAt[w] \in {"find", "answered"} =>
          /\ listed[w].records \in 0 .. Rows
          /\ listed[w].pages = Pages!TotalPages(listed[w].records, page[w].size)
    \* What was shown before page num, or before the _id next.
    /\ walkAt[w] \in {"count", "find"} => Shown(w, Rows - Pages!Offset(page[w]))
    /\ walkAt[w] = "answered" =>
          \E n \in 0 .. Rows :
              FoundAmong(listed[w], page[w], n) /\ Shown(w, n - page[w].num * page[w].size)
    /\ walkAt[w] \in {"quickFind", "quickNext"} => Shown(w, Top(w))
    /\ walkAt[w] = "quickNext" =>
          /\ listed[w].rows \subseteq 1 .. Rows
          /\ \A i \in 1 .. start[w] : i > Top(w) - page[w].size =>
                 i \in seen[w] \cup listed[w].rows
    /\ walkAt[w] = "quickAnswered" =>
          listed[w].next \in 0 .. Rows /\ Shown(w, listed[w].next)
    /\ walkAt[w] \in {"done", "quickDone"} => Shown(w, 0)

WalksOK ==
    /\ DOMAIN walkAt = Walkers /\ DOMAIN page = Walkers /\ DOMAIN listed = Walkers
    /\ DOMAIN start = Walkers /\ DOMAIN seen = Walkers
    /\ walkAt = [w \in Walkers |-> walkAt[w]] /\ page = [w \in Walkers |-> page[w]]
    /\ listed = [w \in Walkers |-> listed[w]] /\ start = [w \in Walkers |-> start[w]]
    /\ seen = [w \in Walkers |-> seen[w]]
    /\ \A w \in Walkers : WalkOK(w)

\* What Pagination calls the number of elements is what this module calls so.
LEMMA SameCardinality ==
    ASSUME NEW S
    PROVE  Pages!Cardinality(S) = Cardinality(S)
  BY DEF Pages!Cardinality, Cardinality

\* Skipping and limiting the rows 1 to n, newest first, leaves an interval of them.
LEMMA FindInterval ==
    ASSUME NEW n \in Nat, NEW skip \in Nat, NEW limit \in Nat
    PROVE  /\ Pages!Find(1 .. n, skip, limit)
                = {i \in 1 .. n : n - i >= skip /\ n - i < skip + limit}
           /\ IsFiniteSet(Pages!Find(1 .. n, skip, limit))
           /\ Cardinality(Pages!Find(1 .. n, skip, limit))
                = IF n <= skip THEN 0 ELSE IF n < skip + limit THEN n - skip ELSE limit
  <1> DEFINE Limited == {i \in 1 .. n : n - i >= skip /\ n - i < skip + limit}
             low == IF n < skip + limit THEN 1 ELSE n - skip - limit + 1
  <1>1. ASSUME NEW i \in 1 .. n
        PROVE  Cardinality(Pages!Newer(1 .. n, i)) = n - i
    <2>1. Pages!Newer(1 .. n, i) = (i + 1) .. n
      BY DEF Pages!Newer
    <2>2. Cardinality((i + 1) .. n) = IF i + 1 > n THEN 0 ELSE n - (i + 1) + 1
      BY FS_Interval
    <2>3. (IF i + 1 > n THEN 0 ELSE n - (i + 1) + 1) = n - i
      OBVIOUS
    <2>. QED
      BY <2>1, <2>2, <2>3
  <1>2. Pages!Find(1 .. n, skip, limit) = Limited
    <2>1. ASSUME NEW i \in 1 .. n
          PROVE  Pages!Cardinality(Pages!Newer(1 .. n, i)) \in skip .. skip + limit - 1
                   <=> n - i >= skip /\ n - i < skip + limit
      BY <1>1, SameCardinality
    <2>. QED
      BY <2>1 DEF Pages!Find
  <1>3. Limited = low .. (n - skip)
    OBVIOUS
  <1>4. /\ IsFiniteSet(low .. (n - skip))
        /\ Cardinality(low .. (n - skip))
             = IF low > n - skip THEN 0 ELSE n - skip - low + 1
    <2>1. low \in Int /\ n - skip \in Int
      OBVIOUS
    <2>. HIDE DEF low
    <2>. QED
      BY <2>1, FS_Interval
  <1>5. (IF low > n - skip THEN 0 ELSE n - skip - low + 1)
          = IF n <= skip THEN 0 ELSE IF n < skip + limit THEN n - skip ELSE limit
    OBVIOUS
  <1>6. /\ IsFiniteSet(Pages!Find(1 .. n, skip, limit))
        /\ Cardinality(Pages!Find(1 .. n, skip, limit))
             = IF n <= skip THEN 0 ELSE IF n < skip + limit THEN n - skip ELSE limit
    <2>. HIDE DEF low, Limited
    <2>. QED
      BY <1>2, <1>3, <1>4, <1>5
  <1>. QED
    BY <1>2, <1>6

\* The pages before a page, and the pages that a total makes.
LEMMA PageArithmetic ==
    ASSUME NEW num \in Nat \ {0}, NEW size \in Nat \ {0}
    PROVE  /\ (num - 1) * size \in Nat
           /\ num * size = (num - 1) * size + size
  OBVIOUS

LEMMA PagesOfTotal ==
    ASSUME NEW count \in Nat, NEW size \in Nat \ {0}, NEW num \in Nat \ {0}
    PROVE  /\ num < Pages!TotalPages(count, size) => num * size < count
           /\ num = Pages!TotalPages(count, size) => (num - 1) * size < count
           /\ num > Pages!TotalPages(count, size) => (num - 1) * size >= count
  <1> DEFINE full == count \div size
             rest == count % size
  <1>1. /\ full \in Nat /\ rest \in Nat /\ rest < size
        /\ count = full * size + rest
    OBVIOUS
  <1>2. Pages!TotalPages(count, size) = full + IF rest > 0 THEN 1 ELSE 0
    BY DEF Pages!TotalPages
  <1>. HIDE DEF full, rest
  <1>3. ASSUME NEW a \in Nat, NEW b \in Nat, a <= b
        PROVE  a * size <= b * size
    BY <1>3
  <1>4. num * size = (num - 1) * size + size /\ num - 1 \in Nat
    BY PageArithmetic
  <1>5. (full + 1) * size = full * size + size
    BY <1>1
  <1>6. full * size \in Nat /\ num * size \in Nat /\ (num - 1) * size \in Nat
    BY <1>1
  <1>7. /\ num <= full => num * size <= full * size
        /\ num - 1 <= full => (num - 1) * size <= full * size
        /\ full <= num - 1 => full * size <= (num - 1) * size
        /\ full + 1 <= num - 1 => (full + 1) * size <= (num - 1) * size
        /\ num + 1 <= full => (num + 1) * size <= full * size
    <2>1. full + 1 \in Nat /\ num + 1 \in Nat
      BY <1>1
    <2>. QED
      BY <1>1, <1>3, <1>4, <2>1
  <1>8. (num + 1) * size = num * size + size
    OBVIOUS
  <1>9. CASE rest > 0
    BY <1>1, <1>2, <1>4, <1>5, <1>6, <1>7, <1>9
  <1>10. CASE rest = 0
    BY <1>1, <1>2, <1>4, <1>5, <1>6, <1>7, <1>8, <1>10
  <1>. QED
    BY <1>1, <1>9, <1>10

-----------------------------------------------------------------------------
(* The steps of a walk. *)

\* A walk that does nothing while the collection grows.
LEMMA WalkGrows ==
    ASSUME NEW w \in Walkers, WalkOK(w), Growing,
           walkAt'[w] = walkAt[w], page'[w] = page[w], listed'[w] = listed[w],
           start'[w] = start[w], seen'[w] = seen[w]
    PROVE  WalkOK(w)'
  <1>1. Rows \in Nat /\ Rows' \in Nat /\ Rows <= Rows'
    BY DEF Rows, Growing
  <1>2. start[w] \in 0 .. Rows /\ seen[w] \subseteq 1 .. Rows
    BY DEF WalkOK
  <1>3. walkAt[w] \in {"count", "find"} => Shown(w, Rows - Pages!Offset(page[w]))'
    <2>. SUFFICES ASSUME walkAt[w] \in {"count", "find"}
                  PROVE  Shown(w, Rows - Pages!Offset(page[w]))'
      OBVIOUS
    <2>1. page[w] \in [num : Nat \ {0}, size : Nat \ {0}]
      BY DEF WalkOK, Counting
    <2> DEFINE o == (page[w].num - 1) * page[w].size
    <2>2. o \in Nat
      BY <2>1, PageArithmetic
    <2>3. Pages!Offset(page[w]) = o /\ Pages!Offset(page[w])' = o
      BY DEF Pages!Offset
    <2>. HIDE DEF o
    <2>4. \A i \in 1 .. start[w] : i > Rows - o => i \in seen[w]
      BY <2>3 DEF WalkOK, Shown
    <2>5. \A i \in 1 .. start[w] : i > Rows' - o => i \in seen[w]
      BY <1>1, <1>2, <2>2, <2>4
    <2>. QED
      BY <2>3, <2>5 DEF Shown
  <1>4. walkAt[w] = "answered" =>
          (\E n \in 0 .. Rows :
              FoundAmong(listed[w], page[w], n) /\ Shown(w, n - page[w].num * page[w].size))'
    <2>. SUFFICES ASSUME walkAt[w] = "answered"
                  PROVE  \E n \in 0 .. Rows' :
                            FoundAmong(listed[w], page[w], n)'
                              /\ Shown(w, n - page[w].num * page[w].size)'
      OBVIOUS
    <2>1. PICK n \in 0 .. Rows :
             FoundAmong(listed[w], page[w], n) /\ Shown(w, n - page[w].num * page[w].size)
      BY DEF WalkOK
    <2>2. n \in 0 .. Rows'
      BY <1>1
    <2>3. FoundAmong(listed[w], page[w], n)'
      BY <2>1 DEF FoundAmong, Pages!Offset
    <2>4. Shown(w, n - page[w].num * page[w].size)'
      BY <2>1 DEF Shown
    <2>. QED
      BY <2>2, <2>3, <2>4
  <1>5. walkAt[w] \in {"quickFind", "quickNext"} => Shown(w, Top(w))'
    BY <1>1, <1>2 DEF WalkOK, Shown, Top, Quick
  <1>6. walkAt[w] = "quickNext" =>
          \A i \in 1 .. start[w] : i > Top(w)' - page[w].size => i \in seen[w] \cup listed[w].rows
    <2>. SUFFICES ASSUME walkAt[w] = "quickNext", NEW i \in 1 .. start[w],
                         i > Top(w)' - page[w].size
                  PROVE  i \in seen[w] \cup listed[w].rows
      OBVIOUS
    <2>1. page[w] \in [next : 0 .. Rows, size : Nat \ {0}]
      BY DEF WalkOK, Quick
    <2>2. Top(w) \in Nat /\ Top(w)' \in Nat /\ Top(w) <= Top(w)'
      BY <1>1, <2>1 DEF Top
    <2>3. i > Top(w) - page[w].size
      BY <1>2, <2>1, <2>2
    <2>. QED
      BY <2>3 DEF WalkOK
  <1>7. /\ walkAt[w] = "quickAnswered" => listed[w].next \in 0 .. Rows' /\ Shown(w, listed[w].next)'
        /\ walkAt[w] \in {"done", "quickDone"} => Shown(w, 0)'
    BY <1>1 DEF WalkOK, Shown
  <1>8. /\ walkAt[w] \in Counting => page[w] \in [num : Nat \ {0}, size : Nat \ {0}]
        /\ walkAt[w] \in Quick => page[w] \in [next : 0 .. Rows', size : Nat \ {0}]
        /\ walkAt[w] \in {"find", "answered"} =>
              /\ listed[w].records \in 0 .. Rows'
              /\ listed[w].pages = Pages!TotalPages(listed[w].records, page[w].size)
        /\ walkAt[w] = "quickNext" => listed[w].rows \subseteq 1 .. Rows'
        /\ start[w] \in 0 .. Rows' /\ seen[w] \subseteq 1 .. Rows'
        /\ walkAt[w] \in {"idle"} \cup Counting \cup Quick
    <2>1. 0 .. Rows \subseteq 0 .. Rows' /\ 1 .. Rows \subseteq 1 .. Rows'
      BY <1>1
    <2>. QED
      BY <2>1 DEF WalkOK
  <1>. QED
    BY <1>3, <1>4, <1>5, <1>6, <1>7, <1>8 DEF WalkOK, Pages!TotalPages

\* A step of one walk, in which the collection stands still.
Walks(w) ==
    /\ UNCHANGED channelVars
    /\ \E x : walkAt' = [walkAt EXCEPT ![w] = x]
    /\ \E x : page' = [page EXCEPT ![w] = x]
    /\ \E x : listed' = [listed EXCEPT ![w] = x]
    /\ \E x : start' = [start EXCEPT ![w] = x]
    /\ \E x : seen' = [seen EXCEPT ![w] = x]

LEMMA WalkKept ==
    ASSUME CInv, WalksOK, NEW w \in Walkers, Walks(w), WalkOK(w)'
    PROVE  WalksOK'
  <1>1. Growing
    BY Answered DEF Walks, channelVars, Works
  <1>2. ASSUME NEW v \in Walkers, v # w PROVE WalkOK(v)'
    <2>1. /\ walkAt'[v] = walkAt[v] /\ page'[v] = page[v] /\ listed'[v] = listed[v]
          /\ start'[v] = start[v] /\ seen'[v] = seen[v]
      BY <1>2 DEF Walks, WalksOK
    <2>. QED
      BY <1>1, <2>1, WalkGrows DEF WalksOK
  <1>3. /\ DOMAIN walkAt' = Walkers /\ DOMAIN page' = Walkers /\ DOMAIN listed' = Walkers
        /\ DOMAIN start' = Walkers /\ DOMAIN seen' = Walkers
        /\ walkAt' = [v \in Walkers |-> walkAt'[v]] /\ page' = [v \in Walkers |-> page'[v]]
        /\ listed' = [v \in Walkers |-> listed'[v]] /\ start' = [v \in Walkers |-> start'[v]]
        /\ seen' = [v \in Walkers |-> seen'[v]]
    BY DEF Walks, WalksOK
  <1>. QED
    BY <1>2, <1>3 DEF WalksOK

\* A walk after a step, from the variables it changed.
LEMMA WalkBasics ==
    ASSUME CInv, WalksOK, NEW w \in Walkers, UNCHANGED channelVars
    PROVE  /\ WalkOK(w) /\ Rows \in Nat /\ Rows' = Rows
           /\ start[w] \in 0 .. Rows /\ seen[w] \subseteq 1 .. Rows
           /\ walkAt[w] \in Counting => page[w] \in [num : Nat \ {0}, size : Nat \ {0}]
           /\ walkAt[w] \in Quick => page[w] \in [next : 0 .. Rows, size : Nat \ {0}]
  <1>1. Rows \in Nat /\ Rows' = Rows
    <2>1. UsersOf(Viewed) \in Nat /\ UsersOf(Viewed)' = UsersOf(Viewed)
      BY Answered DEF channelVars, Works
    <2>. QED
      BY <2>1 DEF Rows
  <1>. QED
    BY <1>1 DEF WalksOK, WalkOK

LEMMA BeginStep ==
    ASSUME CInv, WalksOK, NEW w \in Walkers, Begin(w)
    PROVE  WalksOK'
  <1>1. PICK kind \in Pages!Kinds, num \in 0 .. 1, size \in PageSizes :
           Pages!Begin(w, kind, num, size)
    BY DEF Begin
  <1>2. /\ UNCHANGED <<channelVars, listed, seen>> /\ start' = [start EXCEPT ![w] = Rows]
        /\ size \in Nat
    BY <1>1, PagesAssumption DEF Begin, Pages!Begin, Rows
  <1>3. /\ Rows \in Nat /\ Rows' = Rows /\ start'[w] = Rows /\ seen'[w] = seen[w]
        /\ seen[w] \subseteq 1 .. Rows
    BY <1>2, WalkBasics DEF WalksOK
  <1>4. CASE kind = "traditional"
    <2> DEFINE p == [num |-> Pages!PageNum(num), size |-> Pages!PageSize(size)]
    <2>1. /\ walkAt' = [walkAt EXCEPT ![w] = "count"] /\ page' = [page EXCEPT ![w] = p]
      BY <1>1, <1>4 DEF Pages!Begin, Pages!Goto
    <2>2. p \in [num : Nat \ {0}, size : Nat \ {0}] /\ p.num = 1
      BY <1>2 DEF Pages!PageNum, Pages!PageSize
    <2>3. walkAt'[w] = "count" /\ page'[w] = p
      BY <2>1 DEF WalksOK
    <2>. HIDE DEF p
    <2>4. Pages!Offset(page[w])' = 0
      BY <2>2, <2>3 DEF Pages!Offset
    <2>5. Shown(w, Rows - Pages!Offset(page[w]))'
      BY <1>3, <2>4 DEF Shown
    <2>6. WalkOK(w)'
      BY <1>3, <2>2, <2>3, <2>5 DEF WalkOK, Counting, Quick
    <2>7. Walks(w)
      <3>1. listed' = [listed EXCEPT ![w] = listed[w]] /\ seen' = [seen EXCEPT ![w] = seen[w]]
        BY <1>2 DEF WalksOK
      <3>. QED
        BY <1>2, <2>1, <3>1 DEF Walks
    <2>. QED
      BY <2>6, <2>7, WalkKept
  <1>5. CASE kind # "traditional"
    <2> DEFINE p == [next |-> Pages!NoID, size |-> Pages!QuickLimit(size)]
    <2>1. walkAt' = [walkAt EXCEPT ![w] = "quickFind"] /\ page' = [page EXCEPT ![w] = p]
      BY <1>1, <1>5 DEF Pages!Begin, Pages!Goto
    <2>2. p \in [next : 0 .. Rows, size : Nat \ {0}] /\ p.next = Pages!NoID
      BY <1>2, <1>3 DEF Pages!QuickLimit, Pages!NoID
    <2>3. walkAt'[w] = "quickFind" /\ page'[w] = p
      BY <2>1 DEF WalksOK
    <2>. HIDE DEF p
    <2>4. Shown(w, Top(w))'
      BY <1>3, <2>2, <2>3 DEF Shown, Top, Pages!NoID
    <2>5. WalkOK(w)'
      BY <1>3, <2>2, <2>3, <2>4 DEF WalkOK, Counting, Quick
    <2>6. Walks(w)
      <3>1. listed' = [listed EXCEPT ![w] = listed[w]] /\ seen' = [seen EXCEPT ![w] = seen[w]]
        BY <1>2 DEF WalksOK
      <3>. QED
        BY <1>2, <2>1, <3>1 DEF Walks
    <2>. QED
      BY <2>5, <2>6, WalkKept
  <1>. QED
    BY <1>4, <1>5

\* The rows are counted, and become the total of the answer.
LEMMA CountPages ==
    ASSUME CInv, WalksOK, NEW w \in Walkers, UNCHANGED channelVars, Pages!Count(w)
    PROVE  WalksOK'
  <1> DEFINE a == [records |-> Rows, pages |-> Pages!TotalPages(Rows, page[w].size)]
  <1>1. /\ walkAt[w] = "count" /\ walkAt' = [walkAt EXCEPT ![w] = "find"]
        /\ listed' = [listed EXCEPT ![w] = a] /\ UNCHANGED <<page, start, seen>>
    BY DEF Pages!Count, Pages!Goto, Rows
  <1>2. walkAt'[w] = "find" /\ listed'[w] = a
    BY <1>1 DEF WalksOK
  <1>3. a.records = Rows /\ a.pages = Pages!TotalPages(Rows, page[w].size)
    OBVIOUS
  <1>. HIDE DEF a
  <1>4. /\ WalkOK(w) /\ Rows \in Nat /\ Rows' = Rows
        /\ page[w] \in [num : Nat \ {0}, size : Nat \ {0}]
        /\ start[w] \in 0 .. Rows /\ seen[w] \subseteq 1 .. Rows
    BY <1>1, WalkBasics DEF Counting
  <1>5. Shown(w, Rows - Pages!Offset(page[w]))'
    <2>1. Shown(w, Rows - Pages!Offset(page[w]))
      BY <1>1, <1>4 DEF WalkOK
    <2>. QED
      BY <2>1, <1>1, <1>4 DEF Shown, Pages!Offset
  <1>6. /\ listed'[w].records \in 0 .. Rows'
        /\ listed'[w].pages = Pages!TotalPages(listed[w].records, page[w].size)'
    BY <1>1, <1>2, <1>3, <1>4 DEF Pages!TotalPages
  <1>7. WalkOK(w)'
    BY <1>1, <1>2, <1>4, <1>5, <1>6 DEF WalkOK, Counting, Quick
  <1>8. Walks(w)
    <2>1. /\ page' = [page EXCEPT ![w] = page[w]] /\ start' = [start EXCEPT ![w] = start[w]]
          /\ seen' = [seen EXCEPT ![w] = seen[w]]
      BY <1>1 DEF WalksOK
    <2>. QED
      BY <1>1, <2>1 DEF Walks
  <1>. QED
    BY <1>7, <1>8, WalkKept

\* A page of rows is listed and shown.
LEMMA PaginateStep ==
    ASSUME CInv, WalksOK, NEW w \in Walkers, UNCHANGED channelVars, Pages!Paginate(w)
    PROVE  WalksOK'
  <1> DEFINE o == (page[w].num - 1) * page[w].size
             size == page[w].size
             found == Pages!Find(1 .. Rows, o, size)
             a == [records |-> listed[w].records, pages |-> listed[w].pages, rows |-> found]
  <1>1. /\ walkAt[w] = "find" /\ walkAt' = [walkAt EXCEPT ![w] = "answered"]
        /\ listed' = [listed EXCEPT ![w] = a]
        /\ seen' = [seen EXCEPT ![w] = @ \cup found] /\ UNCHANGED <<page, start>>
    BY DEF Pages!Paginate, Pages!Goto, Pages!Given, Pages!Offset, Rows
  <1>2. /\ WalkOK(w) /\ Rows \in Nat /\ Rows' = Rows
        /\ page[w] \in [num : Nat \ {0}, size : Nat \ {0}]
        /\ start[w] \in 0 .. Rows /\ seen[w] \subseteq 1 .. Rows
    BY <1>1, WalkBasics DEF Counting
  <1>3. /\ o \in Nat /\ size \in Nat \ {0} /\ page[w].num * size = o + size
    BY <1>2, PageArithmetic
  <1>4. walkAt'[w] = "answered" /\ listed'[w] = a /\ seen'[w] = seen[w] \cup found
    BY <1>1 DEF WalksOK
  <1>5. /\ a.records = listed[w].records /\ a.pages = listed[w].pages
        /\ a.rows = Pages!Find(1 .. Rows, o, size)
    OBVIOUS
  <1>. HIDE DEF a, o, size
  <1>6. found = {i \in 1 .. Rows : Rows - i >= o /\ Rows - i < o + size}
    BY <1>2, <1>3, FindInterval
  <1>7. /\ a.records \in 0 .. Rows
        /\ a.pages = Pages!TotalPages(a.records, page[w].size)
    BY <1>1, <1>2, <1>5 DEF WalkOK
  <1>8. Pages!Offset(page[w]) = o
    BY DEF Pages!Offset, o
  <1>9. \A i \in 1 .. start[w] : i > Rows - o => i \in seen[w]
    BY <1>1, <1>2, <1>8 DEF WalkOK, Shown
  <1>10. \A i \in 1 .. start[w] : i > Rows - (o + size) => i \in seen[w] \cup found
    <2>. SUFFICES ASSUME NEW i \in 1 .. start[w], i > Rows - (o + size), i \notin seen[w]
                  PROVE  i \in found
      OBVIOUS
    <2>1. i \in 1 .. Rows /\ ~(i > Rows - o)
      BY <1>2, <1>9
    <2>. HIDE DEF found
    <2>. QED
      BY <1>2, <1>3, <1>6, <2>1
  <1>11. FoundAmong(listed[w], page[w], Rows)'
    BY <1>1, <1>2, <1>4, <1>5, <1>7, <1>8 DEF FoundAmong, Pages!Offset, size
  <1>12. Shown(w, Rows - page[w].num * page[w].size)'
    BY <1>1, <1>2, <1>3, <1>4, <1>10 DEF Shown, size
  <1>13. (\E n \in 0 .. Rows :
             FoundAmong(listed[w], page[w], n) /\ Shown(w, n - page[w].num * page[w].size))'
    <2>1. Rows' \in 0 .. Rows'
      BY <1>2
    <2>2. FoundAmong(listed'[w], page'[w], Rows')
      BY <1>11 DEF FoundAmong, Pages!Offset
    <2>. QED
      BY <1>2, <1>11, <1>12, <2>1
  <1>14. found \subseteq 1 .. Rows
    BY <1>6
  <1>. HIDE DEF found
  <1>15. WalkOK(w)'
    BY <1>1, <1>2, <1>4, <1>7, <1>13, <1>14 DEF WalkOK, Counting, Quick, Pages!TotalPages
  <1>16. Walks(w)
    <2>1. /\ page' = [page EXCEPT ![w] = page[w]] /\ start' = [start EXCEPT ![w] = start[w]]
          /\ seen' = [seen EXCEPT ![w] = seen[w] \cup found]
      BY <1>1 DEF WalksOK
    <2>. QED
      BY <1>1, <2>1 DEF Walks
  <1>. QED
    BY <1>15, <1>16, WalkKept

\* How many rows an answered page has.
LEMMA FoundCount ==
    ASSUME NEW p \in [num : Nat \ {0}, size : Nat \ {0}], NEW n \in Nat, NEW a,
           FoundAmong(a, p, n), a.records \in Nat
    PROVE  LET o == (p.num - 1) * p.size
           IN  /\ o \in Nat /\ p.num * p.size = o + p.size /\ a.records <= n
               /\ Cardinality(a.rows)
                    = IF n <= o THEN 0 ELSE IF n < o + p.size THEN n - o ELSE p.size
  <1> DEFINE o == (p.num - 1) * p.size
  <1>1. o \in Nat /\ p.num * p.size = o + p.size
    BY PageArithmetic
  <1>2. a.records <= n /\ a.rows = Pages!Find(1 .. n, o, p.size)
    BY DEF FoundAmong, Pages!Offset
  <1>. HIDE DEF o
  <1>3. PICK size \in Nat : size = p.size
    OBVIOUS
  <1>4. Cardinality(Pages!Find(1 .. n, o, size))
          = IF n <= o THEN 0 ELSE IF n < o + size THEN n - o ELSE size
    BY <1>1, FindInterval
  <1>5. Cardinality(a.rows) = IF n <= o THEN 0 ELSE IF n < o + p.size THEN n - o ELSE p.size
    BY <1>2, <1>3, <1>4
  <1>. QED
    BY <1>1, <1>2, <1>5 DEF o

\* A client that got a full page asks for the next; one that did not has seen all.
LEMMA NextPageStep ==
    ASSUME CInv, WalksOK, NEW w \in Walkers, UNCHANGED channelVars, Pages!NextPage(w)
    PROVE  WalksOK'
  <1> DEFINE p == page[w]
             o == (p.num - 1) * p.size
  <1>1. /\ walkAt[w] = "answered" /\ UNCHANGED <<listed, start, seen>>
        /\ IF Cardinality(listed[w].rows) = p.size
           THEN walkAt' = [walkAt EXCEPT ![w] = "count"] /\ page' = [page EXCEPT ![w].num = @ + 1]
           ELSE walkAt' = [walkAt EXCEPT ![w] = "done"] /\ page' = page
    BY SameCardinality DEF Pages!NextPage, Pages!Goto
  <1>2. /\ WalkOK(w) /\ Rows \in Nat /\ Rows' = Rows
        /\ p \in [num : Nat \ {0}, size : Nat \ {0}]
        /\ start[w] \in 0 .. Rows /\ seen[w] \subseteq 1 .. Rows
    BY <1>1, WalkBasics DEF Counting
  <1>3. PICK n \in 0 .. Rows : FoundAmong(listed[w], p, n) /\ Shown(w, n - p.num * p.size)
    BY <1>1, <1>2 DEF WalkOK
  <1>4. listed[w].records \in Nat
    BY <1>1, <1>2 DEF WalkOK
  <1>5. /\ o \in Nat /\ p.num * p.size = o + p.size /\ p.size \in Nat \ {0} /\ n \in Nat
        /\ Cardinality(listed[w].rows)
             = IF n <= o THEN 0 ELSE IF n < o + p.size THEN n - o ELSE p.size
    BY <1>2, <1>3, <1>4, FoundCount
  <1>6. \A i \in 1 .. start[w] : i > n - (o + p.size) => i \in seen[w]
    BY <1>3, <1>5 DEF Shown
  <1>7. CASE Cardinality(listed[w].rows) = p.size
    <2>1. /\ walkAt' = [walkAt EXCEPT ![w] = "count"]
          /\ page' = [page EXCEPT ![w] = [p EXCEPT !.num = p.num + 1]]
      BY <1>1, <1>7 DEF WalksOK
    <2>2. walkAt'[w] = "count" /\ page'[w] = [p EXCEPT !.num = p.num + 1]
      BY <2>1 DEF WalksOK
    <2>3. /\ page'[w] \in [num : Nat \ {0}, size : Nat \ {0}]
          /\ page'[w].num = p.num + 1 /\ page'[w].size = p.size
      BY <1>2, <2>2
    <2>4. Pages!Offset(page[w])' = o + p.size
      BY <1>2, <1>5, <2>3 DEF Pages!Offset
    <2>. HIDE DEF o, p
    <2>5. Shown(w, Rows - Pages!Offset(page[w]))'
      BY <1>1, <1>2, <1>3, <1>5, <1>6, <2>4 DEF Shown
    <2>6. WalkOK(w)'
      BY <1>1, <1>2, <2>2, <2>3, <2>5 DEF WalkOK, Counting, Quick
    <2>7. Walks(w)
      <3>1. /\ listed' = [listed EXCEPT ![w] = listed[w]]
            /\ start' = [start EXCEPT ![w] = start[w]] /\ seen' = [seen EXCEPT ![w] = seen[w]]
        BY <1>1 DEF WalksOK
      <3>. QED
        BY <2>1, <3>1 DEF Walks
    <2>. QED
      BY <2>6, <2>7, WalkKept
  <1>8. CASE Cardinality(listed[w].rows) # p.size
    <2>1. /\ walkAt' = [walkAt EXCEPT ![w] = "done"] /\ page' = page /\ walkAt'[w] = "done"
      BY <1>1, <1>8 DEF WalksOK
    <2>. HIDE DEF o, p
    <2>2. n < o + p.size
      BY <1>5, <1>8
    <2>3. \A i \in 1 .. start[w] : i > 0 => i \in seen[w]
      BY <1>2, <1>5, <1>6, <2>2
    <2>4. Shown(w, 0)'
      BY <1>1, <2>3 DEF Shown
    <2>5. WalkOK(w)'
      BY <1>1, <1>2, <2>1, <2>4 DEF WalkOK, Counting, Quick, p
    <2>6. Walks(w)
      <3>1. /\ listed' = [listed EXCEPT ![w] = listed[w]] /\ page' = [page EXCEPT ![w] = page[w]]
            /\ start' = [start EXCEPT ![w] = start[w]] /\ seen' = [seen EXCEPT ![w] = seen[w]]
        BY <1>1, <2>1 DEF WalksOK
      <3>. QED
        BY <2>1, <3>1 DEF Walks
    <2>. QED
      BY <2>5, <2>6, WalkKept
  <1>. QED
    BY <1>7, <1>8

\* The rows that the filter of a quick page selects.
LEMMA NotAfterTop ==
    ASSUME Rows \in Nat, NEW w \in Walkers, page[w].next \in 0 .. Rows
    PROVE  /\ Top(w) \in 0 .. Rows
           /\ Pages!NotAfter(page[w].next) = 1 .. Top(w)
  <1>1. Pages!NotAfter(page[w].next)
          = {i \in 1 .. Rows : page[w].next = Pages!NoID \/ i <= page[w].next}
    BY DEF Pages!NotAfter, Rows
  <1>. QED
    BY <1>1 DEF Top, Pages!NoID

LEMMA QuickPageStep ==
    ASSUME CInv, WalksOK, NEW w \in Walkers, UNCHANGED channelVars, Pages!QuickPaginate(w)
    PROVE  WalksOK'
  <1> DEFINE size == page[w].size
             found == Pages!Find(1 .. Top(w), 0, size)
  <1>1. /\ walkAt[w] = "quickFind" /\ walkAt' = [walkAt EXCEPT ![w] = "quickNext"]
        /\ UNCHANGED <<page, start, seen>>
        /\ listed' = [listed EXCEPT
              ![w] = [rows |-> Pages!Find(Pages!NotAfter(page[w].next), 0, size)]]
    BY DEF Pages!QuickPaginate, Pages!Goto
  <1>2. /\ WalkOK(w) /\ Rows \in Nat /\ Rows' = Rows
        /\ page[w] \in [next : 0 .. Rows, size : Nat \ {0}]
        /\ start[w] \in 0 .. Rows /\ seen[w] \subseteq 1 .. Rows
    BY <1>1, WalkBasics DEF Quick
  <1>3. Top(w) \in 0 .. Rows /\ Pages!NotAfter(page[w].next) = 1 .. Top(w) /\ size \in Nat
    BY <1>2, NotAfterTop
  <1>4. walkAt'[w] = "quickNext" /\ listed'[w].rows = found
    BY <1>1, <1>3 DEF WalksOK
  <1>5. found = {i \in 1 .. Top(w) : Top(w) - i >= 0 /\ Top(w) - i < 0 + size}
    BY <1>2, <1>3, FindInterval
  <1>6. Shown(w, Top(w)) /\ Top(w)' = Top(w) /\ Shown(w, Top(w))'
    BY <1>1, <1>2 DEF WalkOK, Shown, Top
  <1>. HIDE DEF found
  <1>7. \A i \in 1 .. start[w] : i > Top(w) - size => i \in seen[w] \cup found
    <2>. SUFFICES ASSUME NEW i \in 1 .. start[w], i > Top(w) - size, i \notin seen[w]
                  PROVE  i \in found
      OBVIOUS
    <2>1. i \in Nat /\ i >= 1 /\ ~(i > Top(w))
      BY <1>2, <1>6 DEF Shown
    <2>. HIDE DEF size
    <2>. QED
      BY <1>2, <1>3, <1>5, <2>1
  <1>8. found \subseteq 1 .. Rows
    <2>1. 1 .. Top(w) \subseteq 1 .. Rows
      BY <1>2, <1>3
    <2>. QED
      BY <1>5, <2>1
  <1>9. WalkOK(w)'
    BY <1>1, <1>2, <1>4, <1>6, <1>7, <1>8 DEF WalkOK, Counting, Quick
  <1>10. Walks(w)
    <2>1. /\ page' = [page EXCEPT ![w] = page[w]] /\ start' = [start EXCEPT ![w] = start[w]]
          /\ seen' = [seen EXCEPT ![w] = seen[w]]
      BY <1>1 DEF WalksOK
    <2>. QED
      BY <1>1, <2>1 DEF Walks
  <1>. QED
    BY <1>9, <1>10, WalkKept

\* The first row of the next page is read: the page ends before it.
LEMMA QuickNextStep ==
    ASSUME CInv, WalksOK, NEW w \in Walkers, UNCHANGED channelVars, Pages!QuickNext(w)
    PROVE  WalksOK'
  <1> DEFINE size == page[w].size
             items == Pages!Find(1 .. Top(w), size, 1)
             next == IF items = {} THEN Pages!NoID ELSE CHOOSE i \in items : TRUE
             found == listed[w].rows
             a == [rows |-> found, next |-> next]
  <1>1. walkAt[w] = "quickNext"
    BY DEF Pages!QuickNext
  <1>2. /\ WalkOK(w) /\ Rows \in Nat /\ Rows' = Rows
        /\ page[w] \in [next : 0 .. Rows, size : Nat \ {0}]
        /\ start[w] \in 0 .. Rows /\ seen[w] \subseteq 1 .. Rows
    BY <1>1, WalkBasics DEF Quick
  <1>3. /\ Top(w) \in 0 .. Rows /\ Pages!NotAfter(page[w].next) = 1 .. Top(w)
        /\ size \in Nat \ {0}
    BY <1>2, NotAfterTop
  <1>4. /\ walkAt' = [walkAt EXCEPT ![w] = "quickAnswered"]
        /\ listed' = [listed EXCEPT ![w] = a]
        /\ seen' = [seen EXCEPT ![w] = @ \cup found] /\ UNCHANGED <<page, start>>
    <2>1. Pages!NextItem(page[w]) = items
      BY <1>3 DEF Pages!NextItem
    <2>. QED
      BY <2>1 DEF Pages!QuickNext, Pages!Goto, Pages!Given
  <1>5. /\ walkAt'[w] = "quickAnswered" /\ listed'[w].next = next
        /\ seen'[w] = seen[w] \cup found
    BY <1>4 DEF WalksOK
  <1>6. items = {i \in 1 .. Top(w) : Top(w) - i >= size /\ Top(w) - i < size + 1}
    BY <1>3, FindInterval
  <1>7. /\ found \subseteq 1 .. Rows
        /\ \A i \in 1 .. start[w] : i > Top(w) - size => i \in seen[w] \cup found
    BY <1>1, <1>2 DEF WalkOK
  <1>8. next \in 0 .. Rows /\ \A i \in 1 .. start[w] : i > next => i > Top(w) - size
    <2>1. CASE items = {}
      <3>1. next = 0
        BY <2>1 DEF Pages!NoID
      <3>2. Top(w) - size < 1
        <4>1. ASSUME Top(w) - size >= 1 PROVE FALSE
          <5>. HIDE DEF size, items
          <5>1. Top(w) - size \in items
            BY <1>2, <1>3, <1>6, <4>1
          <5>. QED
            BY <2>1, <5>1
        <4>. HIDE DEF size
        <4>. QED
          BY <1>2, <1>3, <4>1
      <3>. HIDE DEF next, size
      <3>. QED
        BY <1>2, <1>3, <3>1, <3>2
    <2>2. CASE items # {}
      <3>1. next \in items
        BY <2>2
      <3>. HIDE DEF next, size, items
      <3>2. next \in 1 .. Top(w) /\ next = Top(w) - size
        BY <1>2, <1>3, <1>6, <3>1
      <3>. QED
        BY <1>2, <1>3, <3>2
    <2>. QED
      BY <2>1, <2>2
  <1>. HIDE DEF next, size, items, found, a
  <1>9. Shown(w, listed[w].next)'
    <2>1. \A i \in 1 .. start[w] : i > next => i \in seen[w] \cup found
      BY <1>7, <1>8
    <2>. QED
      BY <1>4, <1>5, <2>1 DEF Shown
  <1>10. seen'[w] \subseteq 1 .. Rows
    BY <1>2, <1>5, <1>7
  <1>11. WalkOK(w)'
    BY <1>2, <1>4, <1>5, <1>8, <1>9, <1>10 DEF WalkOK, Counting, Quick
  <1>12. Walks(w)
    <2>1. /\ page' = [page EXCEPT ![w] = page[w]] /\ start' = [start EXCEPT ![w] = start[w]]
          /\ seen' = [seen EXCEPT ![w] = seen[w] \cup found]
      BY <1>4 DEF WalksOK
    <2>. QED
      BY <1>4, <2>1 DEF Walks
  <1>. QED
    BY <1>11, <1>12, WalkKept

\* A client that was given a next asks from there; one that was not has seen all.
LEMMA NextQuickPageStep ==
    ASSUME CInv, WalksOK, NEW w \in Walkers, UNCHANGED channelVars, Pages!NextQuickPage(w)
    PROVE  WalksOK'
  <1> DEFINE next == listed[w].next
  <1>1. walkAt[w] = "quickAnswered" /\ UNCHANGED <<listed, start, seen>>
    BY DEF Pages!NextQuickPage
  <1>2. /\ WalkOK(w) /\ Rows \in Nat /\ Rows' = Rows
        /\ page[w] \in [next : 0 .. Rows, size : Nat \ {0}]
        /\ start[w] \in 0 .. Rows /\ seen[w] \subseteq 1 .. Rows
    BY <1>1, WalkBasics DEF Quick
  <1>3. next \in 0 .. Rows /\ Shown(w, next)
    BY <1>1, <1>2 DEF WalkOK
  <1>4. CASE next # Pages!NoID
    <2>1. /\ walkAt' = [walkAt EXCEPT ![w] = "quickFind"]
          /\ page' = [page EXCEPT ![w] = [page[w] EXCEPT !.next = next]]
      BY <1>4 DEF Pages!NextQuickPage, Pages!Goto, WalksOK
    <2>2. walkAt'[w] = "quickFind" /\ page'[w] = [page[w] EXCEPT !.next = next]
      BY <2>1 DEF WalksOK
    <2>. HIDE DEF next
    <2>3. /\ page'[w] \in [next : 0 .. Rows, size : Nat \ {0}]
          /\ page'[w].next = next
      BY <1>2, <1>3, <2>2
    <2>4. Shown(w, Top(w))'
      BY <1>1, <1>3, <1>4, <2>3 DEF Shown, Top
    <2>5. WalkOK(w)'
      BY <1>1, <1>2, <2>2, <2>3, <2>4 DEF WalkOK, Counting, Quick
    <2>6. Walks(w)
      <3>1. /\ listed' = [listed EXCEPT ![w] = listed[w]]
            /\ start' = [start EXCEPT ![w] = start[w]] /\ seen' = [seen EXCEPT ![w] = seen[w]]
        BY <1>1 DEF WalksOK
      <3>. QED
        BY <2>1, <3>1 DEF Walks
    <2>. QED
      BY <2>5, <2>6, WalkKept
  <1>5. CASE next = Pages!NoID
    <2>1. walkAt' = [walkAt EXCEPT ![w] = "quickDone"] /\ page' = page
      BY <1>5 DEF Pages!NextQuickPage, Pages!Goto
    <2>2. walkAt'[w] = "quickDone" /\ page'[w] = page[w]
      BY <2>1 DEF WalksOK
    <2>3. Shown(w, 0)'
      BY <1>1, <1>3, <1>5 DEF Shown, Pages!NoID
    <2>4. WalkOK(w)'
      BY <1>1, <1>2, <2>2, <2>3 DEF WalkOK, Counting, Quick
    <2>5. Walks(w)
      <3>1. /\ listed' = [listed EXCEPT ![w] = listed[w]] /\ page' = [page EXCEPT ![w] = page[w]]
            /\ start' = [start EXCEPT ![w] = start[w]] /\ seen' = [seen EXCEPT ![w] = seen[w]]
        BY <1>1, <2>1 DEF WalksOK
      <3>. QED
        BY <2>1, <3>1 DEF Walks
    <2>. QED
      BY <2>4, <2>5, WalkKept
  <1>. QED
    BY <1>4, <1>5


\* A request that is asked again starts over: what was shown is shown.
LEMMA RetryStep ==
    ASSUME CInv, WalksOK, Growing, NEW W, Pages!Retry(W)
    PROVE  WalksOK'
  <1>1. /\ walkAt' = [w \in Walkers |-> IF w \in W THEN Pages!FirstCall(w) ELSE walkAt[w]]
        /\ UNCHANGED <<page, listed, start, seen>> /\ Rows' = Rows
    BY DEF Pages!Retry, Rows
  <1>2. ASSUME NEW w \in Walkers PROVE WalkOK(w)'
    <2>1. WalkOK(w) /\ Rows \in Nat
      BY DEF WalksOK, Growing, Rows
    <2>2. CASE walkAt'[w] = walkAt[w]
      BY <1>1, <2>1, <2>2, WalkGrows
    <2>3. CASE walkAt[w] = "find" /\ walkAt'[w] = "count"
      <3>1. Shown(w, Rows - Pages!Offset(page[w]))'
        BY <1>1, <2>1, <2>3 DEF WalkOK, Shown, Pages!Offset
      <3>. QED
        BY <1>1, <2>1, <2>3, <3>1 DEF WalkOK, Counting, Quick
    <2>4. CASE walkAt[w] = "quickNext" /\ walkAt'[w] = "quickFind"
      <3>1. Shown(w, Top(w))'
        BY <1>1, <2>1, <2>4 DEF WalkOK, Shown, Top
      <3>. QED
        BY <1>1, <2>1, <2>4, <3>1 DEF WalkOK, Counting, Quick
    <2>5. walkAt'[w] = walkAt[w] \/ walkAt'[w] = Pages!FirstCall(w)
      BY <1>1
    <2>. QED
      BY <2>2, <2>3, <2>4, <2>5 DEF Pages!FirstCall
  <1>3. /\ DOMAIN walkAt' = Walkers
        /\ walkAt' = [w \in Walkers |-> walkAt'[w]]
    BY <1>1
  <1>. QED
    BY <1>1, <1>2, <1>3 DEF WalksOK

\* The invariant of the walks, and that there are never more rows than the bound.
PageInv == CInv /\ WalksOK /\ Rows <= MaxUsers

LEMMA PageInvInit == Init => PageInv
  <1>. SUFFICES ASSUME Init PROVE PageInv
    OBVIOUS
  <1>1. CInv /\ Rows = 0 /\ Rows <= MaxUsers
    BY CInvInit, RequestsAssumption DEF Rows
  <1>2. WalksOK
    <2>1. ASSUME NEW w \in Walkers
          PROVE  walkAt[w] = "idle" /\ start[w] = 0 /\ seen[w] = {}
      BY DEF Init, Pages!Init
    <2>2. ASSUME NEW w \in Walkers PROVE WalkOK(w)
      BY <1>1, <2>1 DEF WalkOK, Counting, Quick
    <2>. QED
      BY <2>2 DEF WalksOK, Init, Pages!Init
  <1>. QED
    BY <1>1, <1>2 DEF PageInv

LEMMA WalkStep ==
    ASSUME CInv, WalksOK, NEW w \in Walkers, Walk(w)
    PROVE  WalksOK'
  BY CountPages, PaginateStep, NextPageStep, QuickPageStep, QuickNextStep, NextQuickPageStep
     DEF Walk, Pages!Walk

LEMMA PageInvNext == PageInv /\ [Next]_vars => PageInv'
  <1>. SUFFICES ASSUME PageInv, [Next]_vars PROVE PageInv'
    OBVIOUS
  <1>1. CInv /\ WalksOK /\ CInv' /\ Growing
    BY CInvNext DEF PageInv
  <1>2. Rows' <= MaxUsers
    BY CInvNext DEF PageInv, Rows
  <1>3. ASSUME UNCHANGED walkVars PROVE WalksOK'
    <2>1. ASSUME NEW w \in Walkers PROVE WalkOK(w)'
      BY <1>1, <1>3, WalkGrows DEF WalksOK, walkVars
    <2>. QED
      BY <1>1, <1>3, <2>1 DEF WalksOK, walkVars
  <1>4. ASSUME NEW w \in Walkers, Begin(w) \/ Walk(w) PROVE WalksOK'
    BY <1>1, <1>4, BeginStep, WalkStep
  <1>5. ASSUME NEW w \in Walkers, PageFails(w) PROVE WalksOK'
    BY <1>1, <1>5, RetryStep DEF PageFails
  <1>6. ASSUME ProcessDies PROVE WalksOK'
    BY <1>1, <1>6, RetryStep DEF ProcessDies
  <1>7. \/ UNCHANGED walkVars \/ ProcessDies
        \/ \E w \in Walkers : Begin(w) \/ Walk(w) \/ PageFails(w)
    BY DEF Next, InfoStep, vars
  <1>8. WalksOK'
    BY <1>3, <1>4, <1>5, <1>6, <1>7
  <1>. QED
    BY <1>1, <1>2, <1>8 DEF PageInv

\* Every variable of the requests and the walks holds a value of its kind, and a walk
\* shows rows that exist (ChannelInfo, PageChannelUser, Paginate).
THEOREM PageTypeCorrect == Spec => []TypeOK
  <1>1. PageInv => ChannelsTypeOK
    <2>. SUFFICES ASSUME CInv PROVE ChannelsTypeOK
      BY DEF PageInv
    <2>1. DOMAIN owner = 1 .. Cardinality(DOMAIN owner)
      <3>1. PICK n \in Nat : DOMAIN owner = 1 .. n
        BY DEF CInv, ChannelsOK
      <3>2. Cardinality(1 .. n) = n
        BY FS_Interval
      <3>. QED
        BY <3>1, <3>2
    <2>2. through \in [DOMAIN owner -> Nat]
      <3>1. 0 .. MaxUsers \subseteq Nat
        OBVIOUS
      <3>. QED
        BY <3>1 DEF CInv, ChannelsOK
    <2>3. /\ at \in [Requests -> Steps]
          /\ for \in [Requests -> ChannelOwners \cup {Nobody}]
          /\ channel \in [Requests -> Nat]
          /\ total \in [Requests -> Nat]
      BY DEF CInv, RequestsOK, RequestOK
    <2>4. \A q \in Requests :
             at[q] = "idle" => for[q] = Nobody /\ channel[q] = NoChannel /\ total[q] = 0
      BY DEF CInv, RequestsOK, RequestOK
    <2>. QED
      BY <2>1, <2>2, <2>3, <2>4 DEF CInv, ChannelsOK, ChannelsTypeOK
  <1>2. PageInv => Pages!PagesTypeOK
    <2>. SUFFICES ASSUME PageInv PROVE Pages!PagesTypeOK
      OBVIOUS
    <2>1. Rows \in 0 .. MaxUsers
      <3>1. Rows \in Nat
        BY UsersFinite DEF PageInv, CInv, Rows
      <3>. QED
        BY <3>1, RequestsAssumption DEF PageInv
    <2>2. ASSUME NEW w \in Walkers
          PROVE  /\ walkAt[w] \in {"idle"} \cup Counting \cup Quick
                 /\ walkAt[w] # "idle" => page[w].size > 0
                 /\ start[w] <= Rows
                 /\ seen[w] \subseteq 1 .. Rows
      <3>1. WalkOK(w)
        BY DEF PageInv, WalksOK
      <3>. QED
        BY <2>1, <3>1 DEF WalkOK
    <2>. QED
      BY <2>1, <2>2 DEF Pages!PagesTypeOK, Rows, Counting, Quick
  <1>. QED
    BY <1>1, <1>2, PageInvInit, PageInvNext, PTL DEF Spec, TypeOK

\* A walk to its end shows every row there was when it began, whichever paginator it
\* uses, whatever is inserted between its calls and whatever fails (Paginate).
THEOREM WalksComplete == Spec => []WalkIsComplete
  <1>1. PageInv => WalkIsComplete
    <2>. SUFFICES ASSUME PageInv, NEW w \in Walkers, walkAt[w] \in {"done", "quickDone"},
                         NEW i \in 1 .. start[w]
                  PROVE  i \in seen[w]
      BY DEF WalkIsComplete, Pages!WalkIsComplete
    <2>1. WalkOK(w)
      BY DEF PageInv, WalksOK
    <2>2. start[w] \in Nat
      <3>1. Rows \in Nat
        BY UsersFinite DEF PageInv, CInv, Rows
      <3>. QED
        BY <2>1, <3>1 DEF WalkOK
    <2>. QED
      BY <2>1, <2>2 DEF WalkOK, Shown
  <1>. QED
    BY <1>1, PageInvInit, PageInvNext, PTL DEF Spec

\* The pages agree with the total they come with, although rows are inserted between
\* the count and the find of one answer (TraditionalPaginator.Paginate).
THEOREM PageTotalsAgree == Spec => []TotalsAgree
  <1>1. PageInv => TotalsAgree
    <2>. SUFFICES ASSUME PageInv, NEW w \in Walkers, walkAt[w] = "answered"
                  PROVE  LET n == Pages!Cardinality(listed[w].rows)
                         IN  /\ page[w].num < listed[w].pages => n = page[w].size
                             /\ page[w].num = listed[w].pages => n > 0
                             /\ page[w].num > listed[w].pages
                                  => n <= Rows - listed[w].records
      BY DEF TotalsAgree, Pages!TotalsAgree, Rows
    <2> DEFINE p == page[w]
               o == (p.num - 1) * p.size
               count == listed[w].records
    <2>1. WalkOK(w) /\ Rows \in Nat
      BY UsersFinite DEF PageInv, CInv, WalksOK, Rows
    <2>2. /\ p \in [num : Nat \ {0}, size : Nat \ {0}]
          /\ count \in 0 .. Rows /\ listed[w].pages = Pages!TotalPages(count, p.size)
      BY <2>1 DEF WalkOK, Counting
    <2>3. PICK n \in 0 .. Rows : FoundAmong(listed[w], p, n)
      BY <2>1 DEF WalkOK
    <2>4. /\ o \in Nat /\ p.num * p.size = o + p.size /\ count <= n
          /\ Cardinality(listed[w].rows)
               = IF n <= o THEN 0 ELSE IF n < o + p.size THEN n - o ELSE p.size
      BY <2>1, <2>2, <2>3, FoundCount
    <2>5. /\ p.num < listed[w].pages => o + p.size < count
          /\ p.num = listed[w].pages => o < count
          /\ p.num > listed[w].pages => o >= count
      <3>1. count \in Nat /\ p.size \in Nat \ {0} /\ p.num \in Nat \ {0}
        BY <2>1, <2>2
      <3>2. PICK size \in Nat \ {0}, num \in Nat \ {0} : size = p.size /\ num = p.num
        BY <3>1
      <3>. HIDE DEF count
      <3>3. /\ num < Pages!TotalPages(count, size) => num * size < count
            /\ num = Pages!TotalPages(count, size) => (num - 1) * size < count
            /\ num > Pages!TotalPages(count, size) => (num - 1) * size >= count
        BY <3>1, PagesOfTotal
      <3>. QED
        BY <2>2, <2>4, <3>2, <3>3
    <2>6. p.size \in Nat \ {0}
      BY <2>2
    <2>7. Pages!Cardinality(listed[w].rows) = Cardinality(listed[w].rows)
      BY SameCardinality
    <2>. HIDE DEF o, count
    <2>8. /\ p.num < listed[w].pages => Cardinality(listed[w].rows) = p.size
          /\ p.num = listed[w].pages => Cardinality(listed[w].rows) > 0
          /\ p.num > listed[w].pages => Cardinality(listed[w].rows) <= Rows - count
      <3>. HIDE DEF p
      <3>. QED
        BY <2>1, <2>2, <2>4, <2>5, <2>6
    <2>. QED
      BY <2>7, <2>8 DEF count, p
  <1>. QED
    BY <1>1, PageInvInit, PageInvNext, PTL DEF Spec
=============================================================================
