------------------------------ MODULE Channels ------------------------------
(***************************************************************************)
(* The channel of a user: ChannelInfo of app/services/channel_list and the *)
(* collection "channellists" (app/models/channellist.go).  A request finds *)
(* the channel of a user, or creates it.  BeforeCreate counts the channels *)
(* of the user under a mutex that is a local variable, so it excludes      *)
(* nobody, and the insert comes after it.  Then ChannelInfo counts the     *)
(* channel users that came through the channel; another service inserts    *)
(* them.                                                                   *)
(***************************************************************************)
EXTENDS Integers, FiniteSets

CONSTANTS
    Requests,      \* the goroutines that serve ChannelInfo, one request at a time
    ChannelOwners, \* the users
    MaxUsers,      \* bound: the channel users of one owner
    MaxFailures    \* bound: database calls that fail, and crashes

ASSUME RequestsAssumption ==
    IsFiniteSet(Requests) /\ MaxUsers \in Nat /\ MaxFailures \in Nat

VARIABLES
    owner,    \* owner[i]: the owner of the channel with the i-th _id
    through,  \* through[i]: the number of channel users with this channel_id
    at,       \* at[q]: the next step of request q
    for,      \* for[q]: the user it is about
    channel,  \* channel[q]: the _id of the channel it found or created, or NoChannel
    total,    \* total[q]: TotalChannelUser of its answer
    failures

channelVars == <<owner, through, at, for, channel, total, failures>>

NoChannel == 0
Nobody == "nobody"

Steps == {"idle", "find", "user", "count", "insert", "findAgain", "total", "answer"}

\* Every variable holds a value of its kind.
ChannelsTypeOK ==
    /\ DOMAIN owner = 1 .. Cardinality(DOMAIN owner)
    /\ \A i \in DOMAIN owner : owner[i] \in ChannelOwners
    /\ through \in [DOMAIN owner -> Nat]
    /\ at \in [Requests -> Steps]
    /\ for \in [Requests -> ChannelOwners \cup {Nobody}]
    /\ channel \in [Requests -> Nat]
    /\ total \in [Requests -> Nat]
    /\ \A q \in Requests :
          at[q] = "idle" => for[q] = Nobody /\ channel[q] = NoChannel /\ total[q] = 0
    /\ failures \in 0 .. MaxFailures

ChannelsInit ==
    /\ owner = [i \in {} |-> Nobody]
    /\ through = [i \in {} |-> 0]
    /\ at = [q \in Requests |-> "idle"]
    /\ for = [q \in Requests |-> Nobody]
    /\ channel = [q \in Requests |-> NoChannel]
    /\ total = [q \in Requests |-> 0]
    /\ failures = 0

ChannelsOf(u) == {i \in DOMAIN owner : owner[i] = u}

\* The channel users that came through the channels S, numbered in each channel.
ThroughChannels(S) == UNION {{i} \X (1 .. through[i]) : i \in S}

UsersOf(u) == Cardinality(ThroughChannels(ChannelsOf(u)))

Goto(q, step) == at' = [at EXCEPT ![q] = step]

Works == UNCHANGED failures
Fails == failures < MaxFailures /\ failures' = failures + 1

-----------------------------------------------------------------------------

ChannelInfo(q, u) ==
    /\ at[q] = "idle"
    /\ for' = [for EXCEPT ![q] = u]
    /\ Goto(q, "find")
    /\ UNCHANGED <<owner, through, channel, total>>
    /\ Works

\* FindChannelListByMisesid: the newest channel of the user.
FindChannelListByMisesid(q, from, missing) ==
    /\ at[q] = from
    /\ UNCHANGED <<owner, through, for, total>>
    /\ \/ /\ Works
          /\ IF ChannelsOf(for[q]) = {}
             THEN Goto(q, missing) /\ UNCHANGED channel
             ELSE /\ \E i \in ChannelsOf(for[q]) :
                        /\ \A j \in ChannelsOf(for[q]) : j <= i
                        /\ channel' = [channel EXCEPT ![q] = i]
                  /\ Goto(q, "total")
       \/ Fails /\ Goto(q, "answer") /\ UNCHANGED channel

Find(q) == FindChannelListByMisesid(q, "find", "user")

\* CreateChannelByMisesid: the user must exist.
FindUserByMisesid(q) ==
    /\ at[q] = "user"
    /\ UNCHANGED <<owner, through, for, channel, total>>
    /\ Works
    /\ Goto(q, "count") \/ Goto(q, "answer")

\* BeforeCreate: ChannelExist when there is one by now.
BeforeCreate(q) ==
    /\ at[q] = "count"
    /\ UNCHANGED <<owner, through, for, channel, total>>
    /\ \/ Works /\ Goto(q, IF ChannelsOf(for[q]) = {} THEN "insert" ELSE "findAgain")
       \/ Fails /\ Goto(q, "answer")

NextID == Cardinality(DOMAIN owner) + 1

InsertOne(u) ==
    /\ owner' = [i \in 1 .. NextID |-> IF i = NextID THEN u ELSE owner[i]]
    /\ through' = [i \in 1 .. NextID |-> IF i = NextID THEN 0 ELSE through[i]]

\* Mutant: the insert is tried again when it reports an error.
CreateChannelList_Retries(q) ==
    /\ at[q] = "insert"
    /\ UNCHANGED <<for, channel, total>>
    /\ \/ Works /\ InsertOne(for[q]) /\ Goto(q, "answer")
       \/ Fails /\ (InsertOne(for[q]) \/ UNCHANGED <<owner, through>>) /\ UNCHANGED at

\* The insert.  When it fails, the result it has not got is used, and the request
\* dies of it, behind gRPC with its process (Crash); the row may be there.
CreateChannelList(q) ==
    /\ at[q] = "insert"
    /\ UNCHANGED total
    /\ \/ /\ Works
          /\ InsertOne(for[q])
          /\ channel' = [channel EXCEPT ![q] = NextID]
          /\ Goto(q, "total")
          /\ UNCHANGED for
       \/ /\ Fails
          /\ InsertOne(for[q]) \/ UNCHANGED <<owner, through>>
          /\ Goto(q, "idle")
          /\ for' = [for EXCEPT ![q] = Nobody]
          /\ UNCHANGED channel

FindAgain(q) == FindChannelListByMisesid(q, "findAgain", "answer")

\* Mutant: without a channel_id, the count has no clause at all.
CountChannelUser_All(i) == Cardinality(ThroughChannels(DOMAIN owner))

CountChannelUser(i) == through[i]

\* countChannelTotalUser, unless only the url is asked for.  An error counts as none.
CountChannelTotalUser(q) ==
    /\ at[q] = "total"
    /\ Goto(q, "answer")
    /\ UNCHANGED <<owner, through, for, channel>>
    /\ \/ Works /\ UNCHANGED total
       \/ Works /\ total' = [total EXCEPT ![q] = CountChannelUser(channel[q])]
       \/ Fails /\ total' = [total EXCEPT ![q] = 0]

\* Mutant: the variable that holds the channel outlives the request.
Answer_Keeps(q) ==
    /\ at[q] = "answer"
    /\ Goto(q, "idle")
    /\ for' = [for EXCEPT ![q] = Nobody]
    /\ UNCHANGED <<owner, through, channel, total, failures>>

\* The answer: the urls of the channel and the total, or an error.
Answer(q) ==
    /\ at[q] = "answer"
    /\ Goto(q, "idle")
    /\ for' = [for EXCEPT ![q] = Nobody]
    /\ channel' = [channel EXCEPT ![q] = NoChannel]
    /\ total' = [total EXCEPT ![q] = 0]
    /\ UNCHANGED <<owner, through>>
    /\ Works

Serve(q) ==
    \/ Find(q) \/ FindUserByMisesid(q) \/ BeforeCreate(q) \/ CreateChannelList(q)
    \/ FindAgain(q) \/ CountChannelTotalUser(q) \/ Answer(q)

\* Another service inserts a user who installed the app through the link of channel i.
RegisterChannelUser(i) ==
    /\ UsersOf(owner[i]) < MaxUsers
    /\ through' = [through EXCEPT ![i] = @ + 1]
    /\ UNCHANGED <<owner, at, for, channel, total>>
    /\ Works

\* The process dies, and its requests with it.
Crash ==
    /\ at' = [q \in Requests |-> "idle"]
    /\ for' = [q \in Requests |-> Nobody]
    /\ channel' = [q \in Requests |-> NoChannel]
    /\ total' = [q \in Requests |-> 0]
    /\ UNCHANGED <<owner, through>>
    /\ Fails

ChannelsNext ==
    \/ \E q \in Requests : Serve(q) \/ \E u \in ChannelOwners : ChannelInfo(q, u)
    \/ \E i \in DOMAIN owner : RegisterChannelUser(i)

-----------------------------------------------------------------------------

\* The requests that have counted no channel of u and are about to insert one.
Inserting(u) == {q \in Requests : at[q] = "insert" /\ for[q] = u}

\* However many requests for a user come and overlap, the user never has more
\* channels than requests that overlapped once, when the first was inserted: every
\* later one counts it (BeforeCreate, CreateChannelList).
DuplicatesAreBounded ==
    \A u \in ChannelOwners :
        Cardinality(ChannelsOf(u)) + Cardinality(Inserting(u)) <= Cardinality(Requests)

\* A request never answers with the channel of somebody else, although it remembers
\* only an _id between the calls; and the total it answers with promises no more
\* users than the pages of the owner will list, although the total is counted by the
\* channel, of which there may be several, and the pages are selected by the owner.
AnswerIsOwn ==
    \A q \in Requests :
        /\ channel[q] # NoChannel => channel[q] \in DOMAIN owner /\ owner[channel[q]] = for[q]
        /\ total[q] <= UsersOf(for[q])

=============================================================================
