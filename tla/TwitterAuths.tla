---------------------------- MODULE TwitterAuths ----------------------------
(***************************************************************************)
(* The collection "usertwitterauths" (app/models/user_twitter_auth.go):    *)
(* one document for each user who logged in with Twitter.  Each operator   *)
(* is one database call.  Updates are by _id, and do not look at what they *)
(* overwrite unless it says so.  There is no unique index.                 *)
(*                                                                         *)
(* Left out: tokens, user agent, device counts, amounts and check results, *)
(* which the plans only hand on.                                           *)
(***************************************************************************)
EXTENDS Integers, Sequences, FiniteSets
LOCAL INSTANCE FiniteSetsExt

CONSTANTS
    Uids,        \* the users of the service
    TwitterIds   \* the Twitter accounts they log in with

VARIABLES
    docs,   \* docs[d]: the document with the d-th _id
    live    \* the _ids of the documents that are not deleted

authVars == <<docs, live>>

\* The states of a job: not wanted, pending, success, failed, Unauthorized, and
\* 5, which the plans use for a rate limit.
JobState == 0 .. 5

UserTwitterAuth ==
    [ UID : Uids, TwitterUserId : TwitterIds,
      TwitterUser : BOOLEAN,            \* the profile is there
      IsAirdrop : BOOLEAN,
      FindTwitterUserState : JobState, FollowState : JobState,
      SendTweeState : JobState, LikeTweeState : JobState,
      ValidState : 0 .. 7 ]

AuthsTypeOK ==
    /\ docs \in Seq(UserTwitterAuth)
    /\ live \subseteq DOMAIN docs

AuthsInit == docs = << >> /\ live = {}

\* FindUserTwitterAuthByTwitterUserId, FindUserTwitterAuthByUid: Last, so the newest.
FindUserTwitterAuth(selected) == {d \in selected : \A e \in selected : e <= d}

\* ListUserTwitterAuth with a limit and a sort by _id, and by the number of
\* followers, which may be any order.  A list holds copies of the documents.
Copies(D) == {[id |-> d, data |-> docs[d]] : d \in D}

ListByID(D, n) == Copies({d \in D : Cardinality({e \in D : e < d}) < n})

ListsByFollowers(D, n) ==
    {Copies(E) : E \in {F \in SUBSET D :
                          Cardinality(F) = IF Cardinality(D) < n THEN Cardinality(D) ELSE n}}

\* The same with a filter on the app name, or on the number of followers, besides.
ListsOfSome(D, n) == {Copies(E) : E \in {F \in SUBSET D : Cardinality(F) <= n}}

\* The one of D that a call meets first.
Earliest(D) == Min(D)

\* An upsert on the user and the Twitter account.  It resets the profile and the
\* find state, and leaves the other states as they are.
CreateUserTwitterAuth(data) ==
    LET same == {d \in live : /\ docs[d].UID = data.UID
                              /\ docs[d].TwitterUserId = data.TwitterUserId}
    IN  IF same = {}
        THEN docs' = Append(docs, data) /\ live' = live \cup {Len(docs) + 1}
        ELSE /\ docs' = [docs EXCEPT ![Earliest(same)] =
                           [@ EXCEPT !.TwitterUser = data.TwitterUser,
                                     !.FindTwitterUserState = data.FindTwitterUserState]]
             /\ UNCHANGED live

\* The document an update by _id meets; nothing when it was deleted.
Update(d, new) ==
    /\ docs' = IF d \in live THEN [docs EXCEPT ![d] = new] ELSE docs
    /\ UNCHANGED live

\* The whole group of fields is written, as the caller read or computed them.
UpdateUserTwitterAuthTwitterUser(x) == Update(x.id, x.data)

UpdateUserTwitterAuthFindState(x) ==
    Update(x.id, [docs[x.id] EXCEPT !.FindTwitterUserState = x.data.FindTwitterUserState])

UpdateUserTwitterAuthFollow(x) ==
    Update(x.id, [docs[x.id] EXCEPT !.FollowState = x.data.FollowState])

\* Mutant: the filter asks for the state that is being written.
UpdateUserTwitterAuthSendTweet_Success(x) ==
    Update(x.id, [docs[x.id] EXCEPT
                    !.SendTweeState = IF @ = 2 THEN x.data.SendTweeState ELSE @])

\* These two select a document that is still pending.
UpdateUserTwitterAuthSendTweet(x) ==
    Update(x.id, [docs[x.id] EXCEPT
                    !.SendTweeState = IF @ = 1 THEN x.data.SendTweeState ELSE @])

UpdateUserTwitterAuthLikeTweet(x) ==
    Update(x.id, [docs[x.id] EXCEPT
                    !.LikeTweeState = IF @ = 1 THEN x.data.LikeTweeState ELSE @])

DeleteUserTwitterAuthByID(d) == live' = live \ {d} /\ UNCHANGED docs

=============================================================================
