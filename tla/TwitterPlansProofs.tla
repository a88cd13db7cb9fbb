------------------------- MODULE TwitterPlansProofs -------------------------
(***************************************************************************)
(* Theorems about TwitterPlans, for any number of users, accounts, plans   *)
(* and logins at once, failures and crashes: a user is marked as having an *)
(* airdrop, and a channel user valid, only when the airdrop is there.      *)
(*                                                                         *)
(* The plans work on copies of documents and write whole groups of fields  *)
(* back, so the invariant speaks of every copy as well.  Nothing more is   *)
(* needed, because rows of "airdrops" are never deleted.                   *)
(*                                                                         *)
(* The last part is about plans and logins that do not overlap.            *)
(***************************************************************************)
EXTENDS TwitterPlans, FiniteSetTheorems, WellFoundedInduction, TLAPS

\* The airdrop of a document that is marked exists.
Backed(data) == data.IsAirdrop => airdrops[data.UID] > 0

Copy == [id : Nat, data : UserTwitterAuth]

\* The steps with a copy at hand, and those with a login at hand.
WithCopy == {"channel", "create", "save", "saveChannel", "findState", "delete", "actSave"}
WithLogin == {"byTwitter", "byUid", "airdrop", "new"}

Request == [UID : Uids, TwitterUserId : TwitterIds]

DocsOK ==
    /\ docs \in Seq(UserTwitterAuth)
    /\ live \subseteq DOMAIN docs
    /\ \A d \in DOMAIN docs : Backed(docs[d])

OutsideOK ==
    /\ airdrops \in [Uids -> Nat]
    /\ chanValid \in [Uids -> {"none", "default", "success", "failed"}]
    /\ ChannelUserIsBacked

ListsOK ==
    /\ list \in [Workers -> SUBSET Copy]
    /\ \A w \in Workers : \A x \in list[w] : Backed(x.data)

StepsOK ==
    /\ pc \in [Workers \cup Logins -> {"idle", "next"} \cup WithCopy \cup WithLogin]
    /\ cur \in [Workers -> Current \cup {NoCurrent}]
    /\ req \in [Logins -> Request \cup {NoRequest}]
    /\ \A w \in Workers : pc[w] \in WithCopy => cur[w] \in Current
    /\ \A w \in Workers : cur[w] \in Current => Backed(cur[w].data)
    /\ \A l \in Logins : pc[l] \in WithLogin => req[l] \in Request

\* The inductive invariant.
IInv == DocsOK /\ OutsideOK /\ ListsOK /\ StepsOK

-----------------------------------------------------------------------------
(* Lemmas about the database calls. *)

\* An update by _id keeps the documents backed when what it writes is.
LEMMA UpdateOK ==
    ASSUME DocsOK, NEW d, NEW new,
           d \in live => new \in UserTwitterAuth /\ Backed(new),
           Update(d, new), airdrops' = airdrops
    PROVE  DocsOK'
  <1>1. CASE d \in live
    <2>1. docs' = [docs EXCEPT ![d] = new] /\ live' = live
      BY <1>1 DEF Update
    <2>2. d \in DOMAIN docs /\ DOMAIN docs' = DOMAIN docs
      BY <1>1, <2>1 DEF DocsOK
    <2>3. docs' \in Seq(UserTwitterAuth)
      BY <1>1, <2>1, <2>2 DEF DocsOK
    <2>4. \A e \in DOMAIN docs : docs'[e] = IF e = d THEN new ELSE docs[e]
      BY <2>1, <2>2
    <2>. QED
      BY <1>1, <2>1, <2>2, <2>3, <2>4 DEF DocsOK, Backed
  <1>2. CASE d \notin live
    BY <1>2 DEF Update, DocsOK, Backed
  <1>. QED
    BY <1>1, <1>2

\* The upsert of a login creates an unmarked document, or resets fields of one that
\* keeps its mark.
LEMMA CreateOK ==
    ASSUME DocsOK, NEW r \in Request,
           CreateUserTwitterAuth(NewDocument(r)), airdrops' = airdrops
    PROVE  DocsOK'
  <1>. DEFINE data == NewDocument(r)
              same == {d \in live : /\ docs[d].UID = data.UID
                                    /\ docs[d].TwitterUserId = data.TwitterUserId}
              m == Earliest(same)
              reset(x) == [x EXCEPT !.TwitterUser = data.TwitterUser,
                                    !.FindTwitterUserState = data.FindTwitterUserState]
  <1>1. data \in UserTwitterAuth /\ ~data.IsAirdrop
    BY DEF NewDocument, Request, UserTwitterAuth, JobState
  <1>2. CASE same = {}
    <2>1. docs' = Append(docs, data) /\ live' = live \cup {Len(docs) + 1}
      BY <1>2 DEF CreateUserTwitterAuth
    <2>. HIDE DEF data
    <2>2. docs' \in Seq(UserTwitterAuth) /\ DOMAIN docs' = 1 .. Len(docs) + 1
      BY <1>1, <2>1 DEF DocsOK
    <2>3. \A d \in DOMAIN docs' : docs'[d] = IF d = Len(docs) + 1 THEN data ELSE docs[d]
      BY <1>1, <2>1, <2>2 DEF DocsOK
    <2>4. live' \subseteq DOMAIN docs'
      BY <2>1, <2>2 DEF DocsOK
    <2>. QED
      BY <1>1, <2>2, <2>3, <2>4 DEF DocsOK, Backed
  <1>3. CASE same # {}
    <2>1. docs' = [docs EXCEPT ![m] = reset(docs[m])] /\ live' = live
      BY <1>3 DEF CreateUserTwitterAuth
    <2>2. \A x \in UserTwitterAuth :
             /\ reset(x) \in UserTwitterAuth
             /\ reset(x).IsAirdrop = x.IsAirdrop
             /\ reset(x).UID = x.UID
      BY <1>1 DEF UserTwitterAuth
    <2>. HIDE DEF m, reset
    <2>3. CASE m \in DOMAIN docs
      <3>1. docs[m] \in UserTwitterAuth /\ Backed(docs[m])
        BY <2>3 DEF DocsOK
      <3>2. reset(docs[m]) \in UserTwitterAuth /\ Backed(reset(docs[m]))
        BY <2>2, <3>1 DEF Backed
      <3>3. docs' \in Seq(UserTwitterAuth) /\ DOMAIN docs' = DOMAIN docs
        BY <2>1, <2>3, <3>2 DEF DocsOK
      <3>4. \A d \in DOMAIN docs : docs'[d] = IF d = m THEN reset(docs[m]) ELSE docs[d]
        BY <2>1
      <3>. QED
        BY <2>1, <3>2, <3>3, <3>4 DEF DocsOK, Backed
    <2>4. CASE m \notin DOMAIN docs
      <3>1. docs' = docs
        BY <2>1, <2>4 DEF DocsOK
      <3>. QED
        BY <2>1, <3>1 DEF DocsOK, Backed
    <2>. QED
      BY <2>3, <2>4
  <1>. QED
    BY <1>2, <1>3

-----------------------------------------------------------------------------
(* Lemmas about the steps of a plan. *)

\* The lists of a plan are copies of documents.
LEMMA ListsAreCopies ==
    ASSUME DocsOK, NEW p \in Plans, NEW some \in Lists(p)
    PROVE  some \in SUBSET Copy /\ \A x \in some : Backed(x.data)
  <1>1. PICK D \in SUBSET live : some = Copies(D)
    <2>1. Wanted(p) \subseteq live
      BY DEF Wanted
    <2>2. p \in {"lookup", "check", "send", "reply", "like", "follow"}
      BY PlansAssumption
    <2>. HIDE DEF Wanted
    <2>3. CASE p = "lookup"
      BY <2>1, <2>3 DEF Lists, ListByID
    <2>4. CASE p \in {"check", "like"}
      BY <2>1, <2>4 DEF Lists, ListsByFollowers
    <2>5. CASE p \in {"send", "reply", "follow"}
      BY <2>1, <2>5 DEF Lists, ListsOfSome
    <2>. QED
      BY <2>2, <2>3, <2>4, <2>5
  <1>2. \A d \in D : d \in Nat /\ docs[d] \in UserTwitterAuth /\ Backed(docs[d])
    BY DEF DocsOK
  <1>. QED
    BY <1>1, <1>2 DEF Copies, Copy

\* A step that changes neither documents nor rows, nor the channel users.
LEMMA Quiet ==
    ASSUME DocsOK, OutsideOK, UNCHANGED <<authVars, outsideVars>>
    PROVE  DocsOK' /\ OutsideOK'
  BY DEF DocsOK, OutsideOK, Backed, ChannelUserIsBacked, authVars, outsideVars

\* The loop takes a copy of its list.
LEMMA TakeOK ==
    ASSUME IInv, NEW w \in Workers, NEW x \in list[w], NEW to \in WithCopy,
           NEW data \in UserTwitterAuth, Backed(data), NEW create \in BOOLEAN,
           Take(w, x, to, data, create), airdrops' = airdrops, req' = req
    PROVE  ListsOK' /\ StepsOK'
  <1>. DEFINE c == [id |-> x.id, data |-> data, doChannel |-> FALSE, create |-> create]
  <1>1. x \in Copy /\ c \in Current
    BY DEF IInv, ListsOK, Copy, Current
  <1>2. ListsOK'
    BY DEF IInv, ListsOK, Take, Backed
  <1>3. cur' = [cur EXCEPT ![w] = c] /\ pc' = [pc EXCEPT ![w] = to]
    BY DEF Take, Goto
  <1>4. StepsOK'
    <2>1. c.data = data
      OBVIOUS
    <2>. HIDE DEF c
    <2>. QED
      BY <1>1, <1>3, <2>1 DEF IInv, StepsOK, Backed, WithCopy, WithLogin
  <1>. QED
    BY <1>2, <1>4

\* The loop passes over a copy.
LEMMA SkipOK ==
    ASSUME IInv, NEW w \in Workers, NEW x \in list[w],
           Skip(w, x), airdrops' = airdrops, req' = req
    PROVE  ListsOK' /\ StepsOK'
  <1>1. ListsOK'
    BY DEF IInv, ListsOK, Skip, Backed
  <1>2. StepsOK'
    BY DEF IInv, StepsOK, Skip, Backed
  <1>. QED
    BY <1>1, <1>2

\* The plan goes on to the next copy of its list.
LEMMA NextCopyOK ==
    ASSUME IInv, NEW w \in Workers, NextCopy(w), airdrops' = airdrops,
           UNCHANGED <<list, req>>
    PROVE  ListsOK' /\ StepsOK'
  <1>1. ListsOK'
    BY DEF IInv, ListsOK, Backed
  <1>2. cur' = [cur EXCEPT ![w] = NoCurrent] /\ pc' = [pc EXCEPT ![w] = "next"]
    BY DEF NextCopy, Goto
  <1>3. NoCurrent \notin Current
    BY DEF NoCurrent, Current
  <1>4. StepsOK'
    BY <1>2, <1>3 DEF IInv, StepsOK, Backed, WithCopy, WithLogin
  <1>. QED
    BY <1>1, <1>4

\* A plan goes to another step with the copy it has.
LEMMA GotoOK ==
    ASSUME IInv, NEW w \in Workers, cur[w] \in Current,
           NEW to \in WithCopy, Goto(w, to), airdrops' = airdrops,
           UNCHANGED <<list, req, cur>>
    PROVE  ListsOK' /\ StepsOK'
  <1>1. ListsOK'
    BY DEF IInv, ListsOK, Backed
  <1>2. StepsOK'
    BY DEF IInv, StepsOK, Goto, Backed, WithCopy, WithLogin
  <1>. QED
    BY <1>1, <1>2

-----------------------------------------------------------------------------
(* Each action keeps the invariant. *)

\* A step of a login that reads.
LEMMA LoginStep ==
    ASSUME IInv, NEW l \in Logins,
           UNCHANGED <<authVars, outsideVars, workerVars>>,
           \/ LoginEnds(l)
           \/ pc[l] \in WithLogin /\ \E to \in WithLogin : LoginGoesOn(l, to)
    PROVE  IInv'
  <1>1. DocsOK' /\ OutsideOK'
    BY Quiet DEF IInv
  <1>2. ListsOK'
    BY DEF IInv, ListsOK, Backed, workerVars, outsideVars
  <1>3. StepsOK'
    BY DEF IInv, StepsOK, LoginEnds, LoginGoesOn, Goto, Backed, WithCopy, WithLogin,
           workerVars, outsideVars
  <1>. QED
    BY <1>1, <1>2, <1>3 DEF IInv

LEMMA CallbackOK ==
    ASSUME IInv, NEW l \in Logins, NEW u \in Uids, NEW tw \in TwitterIds,
           Callback(l, u, tw)
    PROVE  IInv'
  <1>1. DocsOK' /\ OutsideOK'
    BY Quiet DEF IInv, Callback
  <1>2. ListsOK'
    BY DEF IInv, ListsOK, Backed, Callback, workerVars, outsideVars
  <1>3. StepsOK'
    BY DEF IInv, StepsOK, Callback, Goto, Request, Backed, WithCopy, WithLogin,
           workerVars, outsideVars
  <1>. QED
    BY <1>1, <1>2, <1>3 DEF IInv

LEMMA LoginOK ==
    ASSUME IInv, NEW l \in Logins, Login(l)
    PROVE  IInv'
  <1>1. CASE FindByTwitterUserId(l)
    BY <1>1, LoginStep DEF FindByTwitterUserId, WithLogin
  <1>2. CASE FindByUid(l)
    BY <1>2, LoginStep DEF FindByUid, WithLogin
  <1>3. CASE FindAirdropByUid(l)
    BY <1>3, LoginStep DEF FindAirdropByUid, WithLogin
  <1>4. CASE CreateUser(l)
    <2>1. req[l] \in Request
      BY <1>4 DEF CreateUser, IInv, StepsOK, WithLogin
    <2>2. airdrops' = airdrops /\ OutsideOK'
      BY <1>4 DEF CreateUser, IInv, OutsideOK, ChannelUserIsBacked, outsideVars
    <2>3. CASE CreateUserTwitterAuth(NewDocument(req[l]))
      <3>1. DocsOK'
        BY <2>1, <2>2, <2>3, CreateOK DEF IInv
      <3>2. ListsOK' /\ StepsOK'
        BY <1>4, <2>2 DEF IInv, ListsOK, StepsOK, CreateUser, LoginEnds, Goto, Backed,
                          WithCopy, WithLogin, workerVars
      <3>. QED
        BY <2>2, <3>1, <3>2 DEF IInv
    <2>4. CASE UNCHANGED authVars
      BY <1>4, <2>4, LoginStep DEF CreateUser
    <2>. QED
      BY <1>4, <2>3, <2>4 DEF CreateUser
  <1>. QED
    BY <1>1, <1>2, <1>3, <1>4 DEF Login

LEMMA CallOK ==
    ASSUME IInv, NEW w \in Workers, NEW p \in Plans, Call(w, p)
    PROVE  IInv'
  <1>1. DocsOK' /\ OutsideOK'
    BY Quiet DEF IInv, Call
  <1>2. airdrops' = airdrops /\ UNCHANGED <<cur, req>>
    BY DEF Call, outsideVars
  <1>3. CASE UNCHANGED <<plan, list, pc>>
    BY <1>1, <1>2, <1>3 DEF IInv, ListsOK, StepsOK, Backed
  <1>4. CASE \E some \in Lists(p) : list' = [list EXCEPT ![w] = some] /\ Goto(w, "next")
    <2>1. PICK some \in Lists(p) : list' = [list EXCEPT ![w] = some] /\ Goto(w, "next")
      BY <1>4
    <2>2. some \in SUBSET Copy /\ \A x \in some : Backed(x.data)
      BY ListsAreCopies DEF IInv
    <2>3. ListsOK'
      BY <1>2, <2>1, <2>2 DEF IInv, ListsOK, Backed
    <2>4. StepsOK'
      BY <1>2, <2>1 DEF IInv, StepsOK, Goto, Backed, WithCopy, WithLogin
    <2>. QED
      BY <1>1, <2>3, <2>4 DEF IInv
  <1>. QED
    BY <1>3, <1>4 DEF Call

LEMMA PlanEndsOK ==
    ASSUME IInv, NEW w \in Workers, PlanEnds(w)
    PROVE  IInv'
  <1>1. DocsOK' /\ OutsideOK'
    BY Quiet DEF IInv, PlanEnds
  <1>2. ListsOK'
    BY DEF IInv, ListsOK, PlanEnds, Backed, outsideVars
  <1>3. StepsOK'
    BY DEF IInv, StepsOK, PlanEnds, Goto, Backed, WithCopy, WithLogin, outsideVars
  <1>. QED
    BY <1>1, <1>2, <1>3 DEF IInv

\* What the loops read from a list is a copy of a backed document.
LEMMA CopyOK ==
    ASSUME IInv, NEW w \in Workers, NEW x \in list[w]
    PROVE  x.data \in UserTwitterAuth /\ Backed(x.data)
  BY DEF IInv, ListsOK, Copy

\* A look-up neither marks a document nor gives it to another user.
LEMMA LookedUpType ==
    ASSUME NEW data \in UserTwitterAuth, NEW answer
    PROVE  /\ LookedUp(data, answer) \in UserTwitterAuth
           /\ LookedUp(data, answer).IsAirdrop = data.IsAirdrop
           /\ LookedUp(data, answer).UID = data.UID
  <1>. DEFINE valid == answer \in {"valid", "doubtful"}
              v == IF answer = "doubtful" THEN 4 ELSE 3
              s == IF valid THEN 1 ELSE data.SendTweeState
              k == IF valid THEN 1 ELSE data.LikeTweeState
              x == [data EXCEPT !.TwitterUser = TRUE, !.FollowState = 1]
              y == [x EXCEPT !.FindTwitterUserState = 2, !.ValidState = v]
              z == [y EXCEPT !.SendTweeState = s, !.LikeTweeState = k]
  <1>1. /\ v \in 0 .. 7 /\ s \in JobState /\ k \in JobState
        /\ 1 \in JobState /\ 2 \in JobState
    BY DEF UserTwitterAuth, JobState
  <1>2. LookedUp(data, answer) = z
    BY DEF LookedUp, UserTwitterAuth
  <1>3. x \in UserTwitterAuth /\ x.IsAirdrop = data.IsAirdrop /\ x.UID = data.UID
    BY <1>1 DEF UserTwitterAuth
  <1>. HIDE DEF v, s, k, x
  <1>4. y \in UserTwitterAuth /\ y.IsAirdrop = x.IsAirdrop /\ y.UID = x.UID
    BY <1>1, <1>3 DEF UserTwitterAuth
  <1>. HIDE DEF y
  <1>5. z \in UserTwitterAuth /\ z.IsAirdrop = y.IsAirdrop /\ z.UID = y.UID
    BY <1>1, <1>4 DEF UserTwitterAuth
  <1>. QED
    BY <1>2, <1>3, <1>4, <1>5

LEMMA LookupOK ==
    ASSUME IInv, NEW w \in Workers, Lookup(w)
    PROVE  IInv'
  <1>1. DocsOK' /\ OutsideOK' /\ airdrops' = airdrops /\ req' = req
    BY Quiet DEF IInv, Lookup, outsideVars
  <1>2. PICK x \in list[w] :
          \/ Skip(w, x)
          \/ \E answer \in {"valid", "invalid", "doubtful"} :
                Take(w, x, "channel", LookedUp(x.data, answer), answer = "valid")
          \/ Take(w, x, "findState", [x.data EXCEPT !.FindTwitterUserState = 3], FALSE)
          \/ Take(w, x, "delete", x.data, FALSE)
    BY DEF Lookup, First
  <1>3. x.data \in UserTwitterAuth /\ Backed(x.data)
    BY CopyOK
  <1>4. \A answer : /\ LookedUp(x.data, answer) \in UserTwitterAuth
                    /\ Backed(LookedUp(x.data, answer))
    BY <1>3, LookedUpType DEF Backed
  <1>5. LET y == [x.data EXCEPT !.FindTwitterUserState = 3]
        IN  y \in UserTwitterAuth /\ Backed(y)
    BY <1>3 DEF UserTwitterAuth, JobState, Backed
  <1>6. ListsOK' /\ StepsOK'
    <2>1. CASE Skip(w, x)
      BY <1>1, <2>1, SkipOK
    <2>2. ASSUME NEW answer \in {"valid", "invalid", "doubtful"},
                 Take(w, x, "channel", LookedUp(x.data, answer), answer = "valid")
          PROVE  ListsOK' /\ StepsOK'
      BY <1>1, <1>4, <2>2, TakeOK DEF WithCopy
    <2>3. CASE Take(w, x, "findState", [x.data EXCEPT !.FindTwitterUserState = 3], FALSE)
      BY <1>1, <1>5, <2>3, TakeOK DEF WithCopy
    <2>4. CASE Take(w, x, "delete", x.data, FALSE)
      BY <1>1, <1>3, <2>4, TakeOK DEF WithCopy
    <2>. QED
      BY <1>2, <2>1, <2>2, <2>3, <2>4
  <1>. QED
    BY <1>1, <1>6 DEF IInv

LEMMA CheckOK ==
    ASSUME IInv, NEW w \in Workers, Check(w)
    PROVE  IInv'
  <1>1. DocsOK' /\ OutsideOK' /\ airdrops' = airdrops /\ req' = req
    BY Quiet DEF IInv, Check, outsideVars
  <1>2. PICK x \in list[w] :
          \/ Skip(w, x)
          \/ Take(w, x, "channel", x.data, TRUE)
          \/ \E refused \in {3, 6, 7} :
                Take(w, x, "save", [x.data EXCEPT !.ValidState = refused], FALSE)
    BY DEF Check
  <1>3. x.data \in UserTwitterAuth /\ Backed(x.data)
    BY CopyOK
  <1>4. ListsOK' /\ StepsOK'
    <2>1. CASE Skip(w, x)
      BY <1>1, <2>1, SkipOK
    <2>2. CASE Take(w, x, "channel", x.data, TRUE)
      BY <1>1, <1>3, <2>2, TakeOK DEF WithCopy
    <2>3. ASSUME NEW refused \in {3, 6, 7},
                 Take(w, x, "save", [x.data EXCEPT !.ValidState = refused], FALSE)
          PROVE  ListsOK' /\ StepsOK'
      <3>1. LET y == [x.data EXCEPT !.ValidState = refused]
            IN  y \in UserTwitterAuth /\ Backed(y)
        BY <1>3 DEF UserTwitterAuth, Backed
      <3>. QED
        BY <1>1, <2>3, <3>1, TakeOK DEF WithCopy
    <2>. QED
      BY <1>2, <2>1, <2>2, <2>3
  <1>. QED
    BY <1>1, <1>4 DEF IInv

\* A plan writes the copy at hand.
LEMMA WriteOK ==
    ASSUME DocsOK, NEW x \in Current, Backed(x.data), airdrops' = airdrops,
           \/ UpdateUserTwitterAuthTwitterUser(x)
           \/ UpdateUserTwitterAuthFindState(x)
           \/ UpdateUserTwitterAuthFollow(x)
           \/ UpdateUserTwitterAuthSendTweet(x)
           \/ UpdateUserTwitterAuthLikeTweet(x)
           \/ DeleteUserTwitterAuthByID(x.id)
           \/ UNCHANGED authVars
    PROVE  DocsOK'
  <1>. DEFINE d == x.id
              old == docs[d]
  <1>1. x.data \in UserTwitterAuth
    BY DEF Current
  <1>2. d \in live => old \in UserTwitterAuth /\ Backed(old)
    BY DEF DocsOK
  <1>. HIDE DEF d, old
  <1>3. CASE UpdateUserTwitterAuthTwitterUser(x)
    BY <1>1, <1>3, UpdateOK DEF UpdateUserTwitterAuthTwitterUser
  <1>4. CASE UpdateUserTwitterAuthFindState(x)
    <2>. DEFINE y == [old EXCEPT !.FindTwitterUserState = x.data.FindTwitterUserState]
    <2>1. d \in live => y \in UserTwitterAuth /\ Backed(y)
      BY <1>1, <1>2 DEF UserTwitterAuth, Backed
    <2>2. Update(d, y)
      BY <1>4 DEF UpdateUserTwitterAuthFindState, d, old
    <2>. HIDE DEF y
    <2>. QED
      BY <2>1, <2>2, UpdateOK
  <1>5. CASE UpdateUserTwitterAuthFollow(x)
    <2>. DEFINE y == [old EXCEPT !.FollowState = x.data.FollowState]
    <2>1. d \in live => y \in UserTwitterAuth /\ Backed(y)
      BY <1>1, <1>2 DEF UserTwitterAuth, Backed
    <2>2. Update(d, y)
      BY <1>5 DEF UpdateUserTwitterAuthFollow, d, old
    <2>. HIDE DEF y
    <2>. QED
      BY <2>1, <2>2, UpdateOK
  <1>6. CASE UpdateUserTwitterAuthSendTweet(x)
    <2>. DEFINE y == [old EXCEPT !.SendTweeState = IF @ = 1 THEN x.data.SendTweeState ELSE @]
    <2>1. d \in live => y \in UserTwitterAuth /\ Backed(y)
      BY <1>1, <1>2 DEF UserTwitterAuth, Backed
    <2>2. Update(d, y)
      BY <1>6 DEF UpdateUserTwitterAuthSendTweet, d, old
    <2>. HIDE DEF y
    <2>. QED
      BY <2>1, <2>2, UpdateOK
  <1>7. CASE UpdateUserTwitterAuthLikeTweet(x)
    <2>. DEFINE y == [old EXCEPT !.LikeTweeState = IF @ = 1 THEN x.data.LikeTweeState ELSE @]
    <2>1. d \in live => y \in UserTwitterAuth /\ Backed(y)
      BY <1>1, <1>2 DEF UserTwitterAuth, Backed
    <2>2. Update(d, y)
      BY <1>7 DEF UpdateUserTwitterAuthLikeTweet, d, old
    <2>. HIDE DEF y
    <2>. QED
      BY <2>1, <2>2, UpdateOK
  <1>8. CASE DeleteUserTwitterAuthByID(x.id)
    BY <1>8 DEF DeleteUserTwitterAuthByID, DocsOK, Backed
  <1>9. CASE UNCHANGED authVars
    BY <1>9 DEF authVars, DocsOK, Backed
  <1>. QED
    BY <1>3, <1>4, <1>5, <1>6, <1>7, <1>8, <1>9

\* Rows of "airdrops" are only added, so that what was backed stays backed.
LEMMA RowsGrow ==
    ASSUME IInv, NEW u \in Uids,
           Insert(u) \/ UNCHANGED outsideVars, UNCHANGED authVars
    PROVE  /\ DocsOK' /\ OutsideOK'
           /\ \A data \in UserTwitterAuth : Backed(data) => Backed(data)'
           /\ Insert(u) => airdrops'[u] > 0
  <1>1. /\ airdrops' \in [Uids -> Nat]
        /\ \A v \in Uids : airdrops'[v] >= airdrops[v]
        /\ Insert(u) => airdrops'[u] > 0
        /\ chanValid' = chanValid
    BY DEF IInv, OutsideOK, Insert, outsideVars
  <1>2. \A data \in UserTwitterAuth : data.UID \in Uids
    BY DEF UserTwitterAuth
  <1>3. \A v \in Uids : airdrops[v] > 0 => airdrops'[v] > 0
    BY <1>1 DEF IInv, OutsideOK
  <1>4. \A data \in UserTwitterAuth : Backed(data) => Backed(data)'
    BY <1>2, <1>3 DEF Backed
  <1>5. OutsideOK'
    BY <1>1, <1>3 DEF IInv, OutsideOK, ChannelUserIsBacked
  <1>6. DocsOK'
    <2>1. \A d \in DOMAIN docs : docs[d] \in UserTwitterAuth
      BY DEF IInv, DocsOK
    <2>. QED
      BY <1>2, <1>3, <2>1 DEF IInv, DocsOK, Backed, authVars
  <1>. QED
    BY <1>1, <1>4, <1>5, <1>6

\* The document of a granted airdrop is a document, and keeps its user.
LEMMA GrantedType ==
    ASSUME NEW data \in UserTwitterAuth
    PROVE  Granted(data) \in UserTwitterAuth /\ Granted(data).UID = data.UID
  <1>. DEFINE s == IF data.SendTweeState = 0 THEN 1 ELSE data.SendTweeState
              k == IF data.LikeTweeState = 0 THEN 1 ELSE data.LikeTweeState
              x == [data EXCEPT !.IsAirdrop = TRUE, !.ValidState = 2]
              y == [x EXCEPT !.SendTweeState = s, !.LikeTweeState = k]
  <1>1. s \in JobState /\ k \in JobState /\ 2 \in 0 .. 7
    BY DEF UserTwitterAuth, JobState
  <1>2. Granted(data) = y
    BY DEF Granted, UserTwitterAuth
  <1>3. x \in UserTwitterAuth /\ x.UID = data.UID
    BY <1>1 DEF UserTwitterAuth
  <1>. HIDE DEF s, k, x
  <1>4. y \in UserTwitterAuth /\ y.UID = x.UID
    BY <1>1, <1>3 DEF UserTwitterAuth
  <1>. QED
    BY <1>2, <1>3, <1>4

\* A step with a copy at hand: the copy is well formed and backed.
LEMMA AtHand ==
    ASSUME IInv, NEW w \in Workers, pc[w] \in WithCopy
    PROVE  /\ cur[w] \in Current /\ Backed(cur[w].data)
           /\ cur[w].data \in UserTwitterAuth /\ cur[w].data.UID \in Uids
  BY DEF IInv, StepsOK, Current, UserTwitterAuth

\* A step that writes no row and no channel user.
LEMMA OutsideKept ==
    ASSUME OutsideOK, UNCHANGED outsideVars
    PROVE  OutsideOK' /\ airdrops' = airdrops
  BY DEF OutsideOK, ChannelUserIsBacked, outsideVars

\* A plan changes the copy it has, and goes to another step with it, while rows are
\* only added.
LEMMA ChangeOK ==
    ASSUME IInv, NEW w \in Workers, NEW c \in Current, NEW to \in WithCopy,
           cur' = [cur EXCEPT ![w] = c], Goto(w, to), UNCHANGED <<list, req>>,
           Backed(c.data)',
           \A data \in UserTwitterAuth : Backed(data) => Backed(data)'
    PROVE  ListsOK' /\ StepsOK'
  <1>1. \A v \in Workers : cur[v] \in Current => cur[v].data \in UserTwitterAuth
    BY DEF Current
  <1>2. \A v \in Workers : \A x \in list[v] : x.data \in UserTwitterAuth
    BY DEF IInv, ListsOK, Copy
  <1>3. ListsOK'
    BY <1>2 DEF IInv, ListsOK
  <1>4. \A v \in Workers : (cur[v] \in Current => Backed(cur[v].data))'
    <2>1. SUFFICES ASSUME NEW v \in Workers, cur'[v] \in Current
                   PROVE  Backed(cur[v].data)'
      OBVIOUS
    <2>2. CASE v = w
      <3>1. cur'[v] = c
        BY <2>2 DEF IInv, StepsOK
      <3>. QED
        BY <3>1 DEF Backed
    <2>3. CASE v # w
      <3>1. cur'[v] = cur[v]
        BY <2>3 DEF IInv, StepsOK
      <3>. QED
        BY <1>1, <2>1, <3>1 DEF IInv, StepsOK, Backed
    <2>. QED
      BY <2>2, <2>3
  <1>5. StepsOK'
    BY <1>4 DEF IInv, StepsOK, Goto, WithCopy, WithLogin
  <1>. QED
    BY <1>3, <1>5

LEMMA DeleteUserOK ==
    ASSUME IInv, NEW w \in Workers, DeleteUser(w)
    PROVE  IInv'
  <1>1. cur[w] \in Current /\ Backed(cur[w].data)
    BY AtHand DEF DeleteUser, WithCopy
  <1>2. OutsideOK' /\ airdrops' = airdrops
    BY OutsideKept DEF IInv, DeleteUser
  <1>3. DocsOK'
    BY <1>1, <1>2, WriteOK DEF IInv, DeleteUser
  <1>4. ListsOK' /\ StepsOK'
    BY <1>2, NextCopyOK DEF DeleteUser
  <1>. QED
    BY <1>2, <1>3, <1>4 DEF IInv

LEMMA SaveFindStateOK ==
    ASSUME IInv, NEW w \in Workers, SaveFindState(w)
    PROVE  IInv'
  <1>1. cur[w] \in Current /\ Backed(cur[w].data)
    BY AtHand DEF SaveFindState, WithCopy
  <1>2. OutsideOK' /\ airdrops' = airdrops
    BY OutsideKept DEF IInv, SaveFindState
  <1>3. DocsOK'
    BY <1>1, <1>2, WriteOK DEF IInv, SaveFindState
  <1>4. ListsOK' /\ StepsOK'
    BY <1>2, NextCopyOK DEF SaveFindState
  <1>. QED
    BY <1>2, <1>3, <1>4 DEF IInv

LEMMA FindChannelUserOK ==
    ASSUME IInv, NEW w \in Workers, FindChannelUserByUID(w)
    PROVE  IInv'
  <1>1. cur[w] \in Current /\ Backed(cur[w].data)
    BY AtHand DEF FindChannelUserByUID, WithCopy
  <1>2. DocsOK' /\ OutsideOK' /\ airdrops' = airdrops /\ UNCHANGED <<list, req>>
    BY Quiet DEF IInv, FindChannelUserByUID, outsideVars
  <1>3. PICK to \in {"create", "save"} : Goto(w, to)
    BY DEF FindChannelUserByUID
  <1>4. CASE UNCHANGED cur
    BY <1>1, <1>2, <1>3, <1>4, GotoOK DEF IInv, WithCopy
  <1>5. CASE cur' = [cur EXCEPT ![w].doChannel =
                       chanValid[cur[w].data.UID] \in {"default", "failed"}]
    <2>. DEFINE do == chanValid[cur[w].data.UID] \in {"default", "failed"}
    <2>1. do \in BOOLEAN
      OBVIOUS
    <2>. HIDE DEF do
    <2>2. PICK c \in Current : /\ c.data = cur[w].data
                               /\ cur' = [cur EXCEPT ![w] = c]
      <3>1. [cur[w] EXCEPT !.doChannel = do] \in Current
        BY <1>1, <2>1 DEF Current
      <3>2. [cur[w] EXCEPT !.doChannel = do].data = cur[w].data
        BY <1>1 DEF Current
      <3>3. cur' = [cur EXCEPT ![w] = [cur[w] EXCEPT !.doChannel = do]]
        BY <1>5 DEF do
      <3>. QED
        BY <3>1, <3>2, <3>3
    <2>3. \A data \in UserTwitterAuth : Backed(data) => Backed(data)'
      BY <1>2 DEF Backed
    <2>4. Backed(c.data)'
      BY <1>1, <1>2, <2>2 DEF Backed
    <2>. QED
      BY <1>2, <1>3, <2>2, <2>3, <2>4, ChangeOK DEF IInv, WithCopy
  <1>. QED
    BY <1>4, <1>5 DEF FindChannelUserByUID

\* The row is inserted before the copy is marked.
LEMMA CreateAirdropOK ==
    ASSUME IInv, NEW w \in Workers, CreateAirdrop(w)
    PROVE  IInv'
  <1>. DEFINE u == cur[w].data.UID
              data0 == cur[w].data
  <1>1. /\ cur[w] \in Current /\ Backed(data0)
        /\ data0 \in UserTwitterAuth /\ u \in Uids
    BY AtHand DEF CreateAirdrop, WithCopy
  <1>2. Insert(u) \/ UNCHANGED outsideVars
    BY DEF CreateAirdrop
  <1>3. UNCHANGED <<authVars, list, req>>
    BY DEF CreateAirdrop
  <1>4. /\ DocsOK' /\ OutsideOK'
        /\ \A data \in UserTwitterAuth : Backed(data) => Backed(data)'
        /\ Insert(u) => airdrops'[u] > 0
    <2>. HIDE DEF u
    <2>. QED
      BY <1>1, <1>2, <1>3, RowsGrow
  <1>5. \A c \in Current, to \in WithCopy :
           /\ cur' = [cur EXCEPT ![w] = c]
           /\ Goto(w, to)
           /\ c.data.IsAirdrop => airdrops'[c.data.UID] > 0
           => ListsOK' /\ StepsOK'
    <2>1. SUFFICES ASSUME NEW c \in Current, NEW to \in WithCopy,
                          cur' = [cur EXCEPT ![w] = c], Goto(w, to),
                          c.data.IsAirdrop => airdrops'[c.data.UID] > 0
                   PROVE  ListsOK' /\ StepsOK'
      OBVIOUS
    <2>2. Backed(c.data)'
      BY <2>1 DEF Backed
    <2>. QED
      BY <1>3, <1>4, <2>1, <2>2, ChangeOK
  <1>6. CASE /\ Insert(u)
             /\ cur' = [cur EXCEPT ![w].data = Granted(@)]
             /\ Goto(w, "save")
    <2>1. Granted(data0) \in UserTwitterAuth /\ Granted(data0).UID = u
      BY <1>1, GrantedType
    <2>. DEFINE g == Granted(data0)
                c == [cur[w] EXCEPT !.data = g]
    <2>2. cur' = [cur EXCEPT ![w] = c]
      BY <1>6
    <2>. HIDE DEF g
    <2>3. c \in Current /\ c.data = g
      BY <1>1, <2>1 DEF Current, g
    <2>4. airdrops'[g.UID] > 0
      BY <1>4, <1>6, <2>1 DEF g
    <2>. HIDE DEF c
    <2>. QED
      BY <1>4, <1>5, <1>6, <2>2, <2>3, <2>4 DEF IInv, WithCopy
  <1>7. CASE /\ cur' = [cur EXCEPT ![w].data.FindTwitterUserState = 3]
             /\ Goto(w, "findState")
    <2>. DEFINE g == [data0 EXCEPT !.FindTwitterUserState = 3]
                c == [cur[w] EXCEPT !.data = g]
    <2>1. /\ g \in UserTwitterAuth
          /\ g.UID = data0.UID /\ g.IsAirdrop = data0.IsAirdrop
      BY <1>1 DEF UserTwitterAuth, JobState
    <2>2. cur' = [cur EXCEPT ![w] = c]
      BY <1>7
    <2>. HIDE DEF g
    <2>3. c \in Current /\ c.data = g
      BY <1>1, <2>1 DEF Current
    <2>4. g.IsAirdrop => airdrops'[g.UID] > 0
      BY <1>1, <1>4, <2>1 DEF Backed
    <2>. HIDE DEF c
    <2>. QED
      BY <1>4, <1>5, <1>7, <2>2, <2>3, <2>4 DEF IInv, WithCopy
  <1>8. CASE /\ cur' = [cur EXCEPT ![w].data.ValidState = 5, ![w].doChannel = FALSE]
             /\ Goto(w, "save")
    <2>. DEFINE g == [data0 EXCEPT !.ValidState = 5]
                c == [cur[w] EXCEPT !.data = g, !.doChannel = FALSE]
    <2>1. /\ g \in UserTwitterAuth
          /\ g.UID = data0.UID /\ g.IsAirdrop = data0.IsAirdrop
      BY <1>1 DEF UserTwitterAuth, JobState
    <2>2. cur' = [cur EXCEPT ![w] = c]
      BY <1>1, <1>8 DEF IInv, StepsOK
    <2>. HIDE DEF g
    <2>3. c \in Current /\ c.data = g
      BY <1>1, <2>1 DEF Current
    <2>4. g.IsAirdrop => airdrops'[g.UID] > 0
      BY <1>1, <1>4, <2>1 DEF Backed
    <2>. HIDE DEF c
    <2>. QED
      BY <1>4, <1>5, <1>8, <2>2, <2>3, <2>4 DEF IInv, WithCopy
  <1>. QED
    BY <1>6, <1>7, <1>8 DEF CreateAirdrop

LEMMA SaveOK ==
    ASSUME IInv, NEW w \in Workers, Save(w)
    PROVE  IInv'
  <1>1. cur[w] \in Current /\ Backed(cur[w].data)
    BY AtHand DEF Save, WithCopy
  <1>2. OutsideOK' /\ airdrops' = airdrops
    BY OutsideKept DEF IInv, Save
  <1>3. DocsOK'
    BY <1>1, <1>2, WriteOK DEF IInv, Save
  <1>4. CASE NextCopy(w)
    BY <1>2, <1>3, <1>4, NextCopyOK DEF Save, IInv
  <1>5. CASE Goto(w, "saveChannel") /\ UNCHANGED cur
    BY <1>1, <1>2, <1>3, <1>5, GotoOK DEF Save, IInv, WithCopy
  <1>. QED
    BY <1>4, <1>5 DEF Save

\* The channel user becomes valid when the copy is marked, and that is backed.
LEMMA SaveChannelOK ==
    ASSUME IInv, NEW w \in Workers, SaveChannel(w)
    PROVE  IInv'
  <1>. DEFINE data == cur[w].data
              u == data.UID
  <1>1. Backed(data) /\ u \in Uids
    BY AtHand DEF SaveChannel, WithCopy
  <1>2. UNCHANGED <<authVars, list, req>> /\ NextCopy(w)
    BY DEF SaveChannel
  <1>3. UpdateCreateAirdrop(u, data) \/ UNCHANGED outsideVars
    BY DEF SaveChannel
  <1>4. airdrops' = airdrops
    BY <1>3 DEF UpdateCreateAirdrop, outsideVars
  <1>5. DocsOK'
    BY <1>2, <1>4 DEF IInv, DocsOK, Backed, authVars
  <1>6. OutsideOK'
    <2>1. CASE UpdateCreateAirdrop(u, data)
      <3>. DEFINE v == IF data.IsAirdrop THEN "success" ELSE "failed"
      <3>1. v \in {"success", "failed"} /\ (v = "success" => airdrops[u] > 0)
        BY <1>1 DEF Backed
      <3>2. chanValid' = [chanValid EXCEPT ![u] = v]
        BY <2>1 DEF UpdateCreateAirdrop
      <3>. HIDE DEF v, u
      <3>. QED
        BY <1>1, <1>4, <3>1, <3>2 DEF IInv, OutsideOK, ChannelUserIsBacked
    <2>2. CASE UNCHANGED outsideVars
      BY <2>2, OutsideKept DEF IInv
    <2>. QED
      BY <1>3, <2>1, <2>2
  <1>7. ListsOK' /\ StepsOK'
    BY <1>2, <1>4, NextCopyOK
  <1>. QED
    BY <1>5, <1>6, <1>7 DEF IInv

\* The job of a plan changes one state of the copy.
LEMMA AnsweredType ==
    ASSUME NEW data \in UserTwitterAuth, NEW state \in JobState,
           NEW p \in {"send", "reply", "like", "follow"}
    PROVE  /\ Answered(p, data, state) \in UserTwitterAuth
           /\ Answered(p, data, state).IsAirdrop = data.IsAirdrop
           /\ Answered(p, data, state).UID = data.UID
  <1>1. CASE p \in {"send", "reply"}
    BY <1>1 DEF Answered, UserTwitterAuth
  <1>2. CASE p = "like"
    BY <1>2 DEF Answered, UserTwitterAuth
  <1>3. CASE p = "follow"
    BY <1>3 DEF Answered, UserTwitterAuth
  <1>. QED
    BY <1>1, <1>2, <1>3

LEMMA ActOK ==
    ASSUME IInv, NEW w \in Workers, Act(w)
    PROVE  IInv'
  <1>1. /\ UNCHANGED <<authVars, airdrops, chanValid, req>>
        /\ plan[w] \in {"send", "reply", "like", "follow"}
    BY DEF Act
  <1>2. DocsOK' /\ OutsideOK'
    BY <1>1 DEF IInv, DocsOK, OutsideOK, Backed, ChannelUserIsBacked, authVars
  <1>3. PICK x \in list[w], a \in Answers(plan[w]) :
          Take(w, x, "actSave", Answered(plan[w], x.data, a.state), FALSE)
    BY DEF Act, First
  <1>4. x.data \in UserTwitterAuth /\ Backed(x.data)
    BY CopyOK
  <1>5. a.state \in JobState
    BY DEF Answers, JobState
  <1>6. PICK data \in UserTwitterAuth :
          data = Answered(plan[w], x.data, a.state) /\ Backed(data)
    <2>1. /\ Answered(plan[w], x.data, a.state) \in UserTwitterAuth
          /\ Answered(plan[w], x.data, a.state).IsAirdrop = x.data.IsAirdrop
          /\ Answered(plan[w], x.data, a.state).UID = x.data.UID
      BY <1>1, <1>4, <1>5, AnsweredType
    <2>. QED
      BY <1>4, <2>1 DEF Backed
  <1>7. ListsOK' /\ StepsOK'
    BY <1>1, <1>3, <1>6, TakeOK DEF WithCopy
  <1>. QED
    BY <1>2, <1>7 DEF IInv

LEMMA ActSaveOK ==
    ASSUME IInv, NEW w \in Workers, ActSave(w)
    PROVE  IInv'
  <1>1. cur[w] \in Current /\ Backed(cur[w].data)
    BY AtHand DEF ActSave, WithCopy
  <1>2. OutsideOK' /\ airdrops' = airdrops
    BY OutsideKept DEF IInv, ActSave
  <1>3. DocsOK'
    BY <1>1, <1>2, WriteOK DEF IInv, ActSave
  <1>4. ListsOK' /\ StepsOK'
    BY <1>2, NextCopyOK DEF ActSave
  <1>. QED
    BY <1>2, <1>3, <1>4 DEF IInv

LEMMA RegisterOK ==
    ASSUME IInv, NEW u \in Uids, RegisterChannelUser(u)
    PROVE  IInv'
  <1>1. UNCHANGED <<authVars, airdrops, pc, workerVars, req>>
    BY DEF RegisterChannelUser
  <1>2. DocsOK' /\ ListsOK' /\ StepsOK'
    BY <1>1 DEF IInv, DocsOK, ListsOK, StepsOK, Backed, authVars, workerVars
  <1>3. OutsideOK'
    BY <1>1 DEF RegisterChannelUser, IInv, OutsideOK, ChannelUserIsBacked
  <1>. QED
    BY <1>2, <1>3 DEF IInv

LEMMA CrashOK ==
    ASSUME IInv, Crash
    PROVE  IInv'
  <1>1. DocsOK' /\ OutsideOK'
    BY Quiet DEF IInv, Crash
  <1>2. ListsOK'
    BY DEF Crash, ListsOK
  <1>3. NoCurrent \notin Current
    BY DEF NoCurrent, Current
  <1>4. StepsOK'
    BY <1>3 DEF Crash, StepsOK, WithCopy, WithLogin
  <1>. QED
    BY <1>1, <1>2, <1>4 DEF IInv

LEMMA InitOK == Init => IInv
  <1>. SUFFICES ASSUME Init PROVE IInv
    OBVIOUS
  <1>1. DocsOK
    BY DEF Init, AuthsInit, DocsOK
  <1>2. OutsideOK
    BY DEF Init, OutsideOK, ChannelUserIsBacked
  <1>3. ListsOK
    BY DEF Init, ListsOK
  <1>4. NoCurrent \notin Current
    BY DEF NoCurrent, Current
  <1>5. StepsOK
    BY <1>4 DEF Init, StepsOK, WithCopy, WithLogin
  <1>. QED
    BY <1>1, <1>2, <1>3, <1>5 DEF IInv

LEMMA NextOK == IInv /\ [Next]_vars => IInv'
  <1>. SUFFICES ASSUME IInv, [Next]_vars PROVE IInv'
    OBVIOUS
  <1>1. ASSUME NEW l \in Logins, NEW u \in Uids, NEW tw \in TwitterIds, Callback(l, u, tw)
        PROVE  IInv'
    BY <1>1, CallbackOK
  <1>2. ASSUME NEW l \in Logins, Login(l)
        PROVE  IInv'
    BY <1>2, LoginOK
  <1>3. ASSUME NEW w \in Workers, NEW p \in Plans, Call(w, p)
        PROVE  IInv'
    BY <1>3, CallOK
  <1>4. ASSUME NEW w \in Workers, Work(w)
        PROVE  IInv'
    BY <1>4, PlanEndsOK, LookupOK, DeleteUserOK, SaveFindStateOK, CheckOK,
       FindChannelUserOK, CreateAirdropOK, SaveOK, SaveChannelOK, ActOK, ActSaveOK DEF Work
  <1>5. ASSUME NEW u \in Uids, RegisterChannelUser(u)
        PROVE  IInv'
    BY <1>5, RegisterOK
  <1>6. CASE Crash
    BY <1>6, CrashOK
  <1>7. CASE UNCHANGED vars
    BY <1>7 DEF vars, authVars, outsideVars, workerVars, IInv, DocsOK, OutsideOK, ListsOK,
                StepsOK, Backed, ChannelUserIsBacked
  <1>. QED
    BY <1>1, <1>2, <1>3, <1>4, <1>5, <1>6, <1>7 DEF Next

\* Whatever plans and logins run at the same time, and whatever fails or crashes, the
\* invariant holds.
THEOREM PlansInvariant == Spec => []IInv
  BY InitOK, NextOK, PTL DEF Spec

\* A document that runLookupTwitterUser or runCheckTwitterUser marked IsAirdrop has a
\* row in "airdrops", also when a stale copy of it was written back.
THEOREM AirdropsBacked == Spec => []AirdropIsBacked
  <1>1. IInv => AirdropIsBacked
    BY DEF IInv, DocsOK, AirdropIsBacked, Backed
  <1>. QED
    BY <1>1, PlansInvariant, PTL

\* A channel user that UpdateCreateAirdrop made valid belongs to a user who has a row
\* in "airdrops".
THEOREM ChannelUsersBacked == Spec => []ChannelUserIsBacked
  <1>1. IInv => ChannelUserIsBacked
    BY DEF IInv, OutsideOK
  <1>. QED
    BY <1>1, PlansInvariant, PTL

-----------------------------------------------------------------------------
(* The types that the argument above does without. *)

MInv ==
    /\ plan \in [Workers -> Plans \cup {"none"}]
    /\ posted \subseteq TwitterIds
    /\ faults \in Nat /\ crashes \in Nat
    /\ \A w \in Workers : \A x \in list[w] : x.id \in DOMAIN docs

\* Documents are added, and changed in place.
LEMMA DocsGrow ==
    ASSUME IInv, Next
    PROVE  DOMAIN docs \subseteq DOMAIN docs'
  <1>. DEFINE grow == DOMAIN docs \subseteq DOMAIN docs'
  <1>. SUFFICES grow
    OBVIOUS
  <1>0. docs \in Seq(UserTwitterAuth)
    BY DEF IInv, DocsOK
  <1>1. CASE UNCHANGED docs
    BY <1>1
  <1>2. ASSUME NEW d, NEW new, Update(d, new) PROVE grow
    BY <1>0, <1>2 DEF Update
  <1>3. ASSUME NEW data, CreateUserTwitterAuth(data)
        PROVE  grow
    <2>1. \/ docs' = Append(docs, data)
          \/ \E d, new : docs' = [docs EXCEPT ![d] = new]
      BY <1>3 DEF CreateUserTwitterAuth
    <2>. QED
      BY <1>0, <2>1
  <1>. HIDE DEF grow
  <1>4. CASE \/ \E l \in Logins : Login(l)
             \/ \E l \in Logins, u \in Uids, tw \in TwitterIds : Callback(l, u, tw)
    BY <1>1, <1>3, <1>4
    DEF Callback, Login, FindByTwitterUserId, FindByUid, FindAirdropByUid, CreateUser, authVars
  <1>5. CASE \E w \in Workers : Work(w)
    BY <1>1, <1>2, <1>5
    DEF Work, PlanEnds, Lookup, DeleteUser, DeleteUserTwitterAuthByID, SaveFindState,
        UpdateUserTwitterAuthFindState, Check, FindChannelUserByUID, CreateAirdrop, Save,
        UpdateUserTwitterAuthTwitterUser, SaveChannel, Act, ActSave,
        UpdateUserTwitterAuthSendTweet, UpdateUserTwitterAuthLikeTweet,
        UpdateUserTwitterAuthFollow, authVars
  <1>6. CASE \/ \E w \in Workers, p \in Plans : Call(w, p)
             \/ \E u \in Uids : RegisterChannelUser(u)
             \/ Crash
    BY <1>1, <1>6 DEF Call, RegisterChannelUser, Crash, authVars
  <1>. QED
    BY <1>4, <1>5, <1>6 DEF Next

\* A list only becomes shorter, or is read again.
LEMMA ListSteps ==
    ASSUME IInv, Next, NEW w \in Workers
    PROVE  \/ list'[w] \subseteq list[w]
           \/ \E p \in Plans : \E some \in Lists(p) : list'[w] = some
  <1>0. list \in [Workers -> SUBSET Copy]
    BY DEF IInv, ListsOK
  <1>1. CASE UNCHANGED list
    BY <1>1
  <1>2. ASSUME NEW v \in Workers, NEW x, list' = [list EXCEPT ![v] = @ \ {x}]
        PROVE  list'[w] \subseteq list[w]
    BY <1>0, <1>2
  <1>3. CASE \/ \E l \in Logins : Login(l)
             \/ \E l \in Logins, u \in Uids, tw \in TwitterIds : Callback(l, u, tw)
    BY <1>1, <1>3
    DEF Callback, Login, FindByTwitterUserId, FindByUid, FindAirdropByUid, CreateUser, workerVars
  <1>4. CASE \E v \in Workers : Work(v)
    BY <1>1, <1>2, <1>4
    DEF Work, PlanEnds, Lookup, DeleteUser, SaveFindState, Check, FindChannelUserByUID,
        CreateAirdrop, Save, SaveChannel, Act, ActSave, Take, Skip
  <1>5. CASE \E v \in Workers, p \in Plans : Call(v, p)
    BY <1>0, <1>1, <1>5 DEF Call
  <1>6. CASE \/ \E u \in Uids : RegisterChannelUser(u)
             \/ Crash
    BY <1>0, <1>6 DEF RegisterChannelUser, Crash, workerVars
  <1>. QED
    BY <1>3, <1>4, <1>5, <1>6 DEF Next

\* The lists are made of documents that are not deleted.
LEMMA ListsAreLive ==
    ASSUME NEW p \in Plans, NEW some \in Lists(p), NEW x \in some
    PROVE  x.id \in Wanted(p) /\ x.data = docs[x.id]
  <1>1. p \in {"lookup", "check", "send", "reply", "like", "follow"}
    BY PlansAssumption
  <1>. DEFINE D == Wanted(p)
  <1>2. \E E \in SUBSET D : some = Copies(E)
    <2>. HIDE DEF D
    <2>1. CASE p = "lookup"
      BY <2>1 DEF Lists, ListByID, D
    <2>2. CASE p \in {"check", "like"}
      BY <2>2 DEF Lists, ListsByFollowers, D
    <2>3. CASE p \in {"send", "reply", "follow"}
      BY <2>3 DEF Lists, ListsOfSome, D
    <2>. QED
      BY <1>1, <2>1, <2>2, <2>3
  <1>. QED
    BY <1>2 DEF Copies

\* A step works, or its database call fails, or the process dies.
LEMMA Counts ==
    ASSUME Next
    PROVE  Works \/ Fails \/ Crash
  <1>1. CASE \/ \E l \in Logins : Login(l)
             \/ \E l \in Logins, u \in Uids, tw \in TwitterIds : Callback(l, u, tw)
    BY <1>1
    DEF Callback, Login, FindByTwitterUserId, FindByUid, FindAirdropByUid, CreateUser
  <1>2. CASE \E w \in Workers : Work(w)
    BY <1>2
    DEF Work, PlanEnds, Lookup, DeleteUser, SaveFindState, Check, FindChannelUserByUID,
        CreateAirdrop, Save, SaveChannel, Act, ActSave
  <1>. QED
    BY <1>1, <1>2 DEF Next, Call, RegisterChannelUser

LEMMA MInvNext == IInv /\ MInv /\ [Next]_vars => MInv'
  <1>. SUFFICES ASSUME IInv, MInv, [Next]_vars PROVE MInv'
    OBVIOUS
  <1>1. CASE UNCHANGED vars
    BY <1>1 DEF vars, authVars, outsideVars, workerVars, MInv
  <1>2. CASE Next
    <2>1. plan' \in [Workers -> Plans \cup {"none"}]
      <3>1. \/ UNCHANGED plan
            \/ \E w \in Workers, p \in Plans \cup {"none"} : plan' = [plan EXCEPT ![w] = p]
            \/ Crash
        <4>1. CASE \/ \E l \in Logins : Login(l)
                   \/ \E l \in Logins, u \in Uids, tw \in TwitterIds : Callback(l, u, tw)
          BY <4>1
          DEF Callback, Login, FindByTwitterUserId, FindByUid, FindAirdropByUid, CreateUser,
              workerVars
        <4>2. CASE \E w \in Workers : Work(w)
          BY <4>2
          DEF Work, PlanEnds, Lookup, DeleteUser, SaveFindState, Check, FindChannelUserByUID,
              CreateAirdrop, Save, SaveChannel, Act, ActSave
        <4>. QED
          BY <1>2, <4>1, <4>2 DEF Next, Call, RegisterChannelUser, workerVars
      <3>. QED
        BY <3>1 DEF MInv, Crash
    <2>2. posted' \subseteq TwitterIds
      <3>1. CASE \E w \in Workers : Act(w)
        <4>1. PICK w \in Workers : \E x \in list[w] :
                 posted' \in {posted, posted \cup {x.data.TwitterUserId}}
          BY <3>1 DEF Act, First
        <4>. PICK x \in list[w] : posted' \in {posted, posted \cup {x.data.TwitterUserId}}
          BY <4>1
        <4>2. x.data.TwitterUserId \in TwitterIds
          BY CopyOK DEF UserTwitterAuth
        <4>. QED
          BY <4>1, <4>2 DEF MInv
      <3>2. CASE ~\E w \in Workers : Act(w)
        <4>1. CASE \/ \E l \in Logins : Login(l)
                   \/ \E l \in Logins, u \in Uids, tw \in TwitterIds : Callback(l, u, tw)
          BY <4>1
          DEF Callback, Login, FindByTwitterUserId, FindByUid, FindAirdropByUid, CreateUser,
              outsideVars, MInv
        <4>2. CASE \E w \in Workers : Work(w)
          BY <3>2, <4>2
          DEF Work, PlanEnds, Lookup, DeleteUser, SaveFindState, Check, FindChannelUserByUID,
              CreateAirdrop, Insert, Save, SaveChannel, UpdateCreateAirdrop, ActSave,
              outsideVars, MInv
        <4>. QED
          BY <1>2, <4>1, <4>2 DEF Next, Call, RegisterChannelUser, Crash, outsideVars, MInv
      <3>. QED
        BY <3>1, <3>2
    <2>3. faults' \in Nat /\ crashes' \in Nat
      BY <1>2, Counts DEF Works, Fails, Crash, MInv
    <2>4. \A w \in Workers : \A x \in list'[w] : x.id \in DOMAIN docs'
      <3>1. \A p \in Plans : Wanted(p) \subseteq DOMAIN docs
        BY DEF Wanted, IInv, DocsOK
      <3>. QED
        BY <1>2, <3>1, ListSteps, ListsAreLive, DocsGrow DEF MInv
    <2>. QED
      BY <2>1, <2>2, <2>3, <2>4 DEF MInv
  <1>. QED
    BY <1>1, <1>2

\* What the plans and logins work with: the invariants together.
TInv == IInv /\ MInv

LEMMA PlansTyped == Spec => []TInv
  <1>1. Init => MInv
    BY DEF Init, MInv
  <1>. QED
    BY <1>1, InitOK, NextOK, MInvNext, PTL DEF Spec, TInv

\* Every variable of the plans and logins holds a value of its kind.
THEOREM PlansTypeCorrect == Spec => []TypeOK
  <1>1. TInv => TypeOK
    <2>. SUFFICES ASSUME TInv PROVE TypeOK
      OBVIOUS
    <2>. USE DEF TInv, IInv, MInv
    <2>1. AuthsTypeOK
      BY DEF DocsOK, AuthsTypeOK
    <2>2. list \in [Workers -> SUBSET [id : DOMAIN docs, data : UserTwitterAuth]]
      BY DEF ListsOK, Copy
    <2>3. \A w \in Workers : cur[w] = NoCurrent \/ cur[w] \in Current
      BY DEF StepsOK
    <2>4. pc \in [Workers \cup Logins ->
                 {"idle", "next", "channel", "create", "save", "saveChannel", "findState",
                  "delete", "actSave", "byTwitter", "byUid", "airdrop", "new"}]
      BY DEF StepsOK, WithCopy, WithLogin
    <2>. QED
      BY <2>1, <2>2, <2>3, <2>4 DEF OutsideOK, StepsOK, Request, TypeOK
  <1>. QED
    BY <1>1, PlansTyped, PTL

-----------------------------------------------------------------------------
(* While logins come one after the other, and plans too, as OneLogin and    *)
(* OnePlan say, a user has one document and gets one airdrop, and a tweet   *)
(* that is pending was not sent.  None of this holds without the            *)
(* assumptions, which nothing in the code ensures.                          *)

OneLogin == \A k, l \in Logins : k = l
OnePlan == \A v, w \in Workers : v = w

\* A nonempty finite set of numbers has a greatest one.
LEMMA Greatest ==
    ASSUME NEW S, IsFiniteSet(S), S \subseteq Nat, S # {}
    PROVE  \E d \in S : \A e \in S : e <= d
  <1>. DEFINE above(d) == {e \in S : e > d}
              T == {above(d) : d \in S}
              R == StrictSubsetOrdering(S)
  <1>1. T \subseteq FiniteSubsetsOf(S) /\ T # {}
    <2>1. \A d \in S : above(d) \subseteq S /\ IsFiniteSet(above(d))
      BY FS_Subset
    <2>. QED
      BY <2>1 DEF FiniteSubsetsOf
  <1>2. PICK A \in T : \A B \in T : <<B, A>> \notin R
    <2>1. IsWellFoundedOn(R, FiniteSubsetsOf(S))
      BY FS_StrictSubsetOrderingWellFounded
    <2>. HIDE DEF T, R
    <2>. QED
      BY <1>1, <2>1, WFMin
  <1>3. PICK d \in S : A = above(d)
    BY <1>2
  <1>4. ASSUME NEW e \in S, ~(e <= d) PROVE FALSE
    <2>1. d \in Nat /\ e \in Nat /\ e > d /\ \A y \in S : y \in Nat
      BY <1>4
    <2>2. above(e) \subseteq above(d)
      <3>. SUFFICES ASSUME NEW y \in S, y > e PROVE y > d
        OBVIOUS
      <3>. QED
        BY <2>1
    <2>3. e \in above(d) /\ e \notin above(e)
      BY <2>1
    <2>4. above(e) \in T /\ above(e) \subseteq S /\ above(d) \subseteq S
      OBVIOUS
    <2>. HIDE DEF above
    <2>5. <<above(e), above(d)>> \in R
      BY <2>2, <2>3, <2>4 DEF StrictSubsetOrdering
    <2>. QED
      BY <1>2, <1>3, <2>4, <2>5
  <1>. QED
    BY <1>4

\* FindUserTwitterAuth finds a document when there is one.
LEMMA Found ==
    ASSUME DocsOK, NEW S, S \subseteq live
    PROVE  /\ IsFiniteSet(S)
           /\ S # {} => \E d \in S : d \in FindUserTwitterAuth(S)
  <1>1. live \subseteq 1 .. Len(docs) /\ Len(docs) \in Nat
    BY DEF DocsOK
  <1>2. IsFiniteSet(1 .. Len(docs))
    BY <1>1, FS_Interval
  <1>3. S \in SUBSET (1 .. Len(docs)) /\ S \subseteq Nat
    BY <1>1
  <1>4. IsFiniteSet(S)
    BY <1>2, <1>3, FS_Subset
  <1>. QED
    BY <1>3, <1>4, Greatest DEF FindUserTwitterAuth

-----------------------------------------------------------------------------
(* Who a document, or a copy of one, belongs to.  It never changes. *)

SameHolder(x, y) == x.UID = y.UID /\ x.TwitterUserId = y.TwitterUserId

CopyOf(x) == x.id \in DOMAIN docs /\ SameHolder(x.data, docs[x.id])

CopiesHeld ==
    /\ \A w \in Workers : \A x \in list[w] : CopyOf(x)
    /\ \A w \in Workers : pc[w] \in WithCopy => CopyOf(cur[w])

LEMMA LookedUpFields ==
    ASSUME NEW data \in UserTwitterAuth, NEW answer
    PROVE  /\ SameHolder(LookedUp(data, answer), data)
           /\ LookedUp(data, answer).FindTwitterUserState = 2
  BY DEF LookedUp, UserTwitterAuth, SameHolder

Closed(data) == data.IsAirdrop /\ data.ValidState = 2

LEMMA GrantedFields ==
    ASSUME NEW data \in UserTwitterAuth
    PROVE  /\ SameHolder(Granted(data), data)
           /\ Closed(Granted(data))
           /\ Granted(data).FindTwitterUserState = data.FindTwitterUserState
           /\ Granted(data).SendTweeState =
                 IF data.SendTweeState = 0 THEN 1 ELSE data.SendTweeState
  BY DEF Granted, UserTwitterAuth, SameHolder, Closed

LEMMA AnsweredFields ==
    ASSUME NEW data \in UserTwitterAuth, NEW state,
           NEW p \in {"send", "reply", "like", "follow"}
    PROVE  /\ SameHolder(Answered(p, data, state), data)
           /\ p \in {"send", "reply"} => Answered(p, data, state).SendTweeState = state
  <1>1. CASE p \in {"send", "reply"}
    BY <1>1 DEF Answered, UserTwitterAuth, SameHolder
  <1>2. CASE p = "like"
    BY <1>2 DEF Answered, UserTwitterAuth, SameHolder
  <1>3. CASE p = "follow"
    BY <1>3 DEF Answered, UserTwitterAuth, SameHolder
  <1>. QED
    BY <1>1, <1>2, <1>3

\* A plan has taken copy x from its list, for step "to"; or it has passed over x.
Took(w, x, to) ==
    /\ pc'[w] = to
    /\ cur'[w].id = x.id
    /\ SameHolder(cur'[w].data, x.data)
    /\ list' = [list EXCEPT ![w] = @ \ {x}]

Passed(w, x) ==
    /\ UNCHANGED <<pc, cur>>
    /\ list' = [list EXCEPT ![w] = @ \ {x}]

LEMMA TakeMoves ==
    ASSUME IInv, NEW w \in Workers, NEW x, NEW to, NEW data, NEW create,
           Take(w, x, to, data, create), SameHolder(data, x.data)
    PROVE  Took(w, x, to) /\ cur'[w].data = data
  BY DEF Take, Goto, Took, IInv, StepsOK

LEMMA LookupMoves ==
    ASSUME IInv, NEW w \in Workers, Lookup(w)
    PROVE  \E x \in list[w] :
             \/ Passed(w, x)
             \/ ~Done(x.data) /\ Took(w, x, "channel") /\ cur'[w].data.FindTwitterUserState = 2
             \/ ~Done(x.data) /\ Took(w, x, "findState") /\ cur'[w].data.FindTwitterUserState = 3
             \/ ~Done(x.data) /\ Took(w, x, "delete")
  <1>1. PICK x \in list[w] :
             \/ Skip(w, x)
             \/ /\ ~Done(x.data)
                /\ \/ \E answer \in {"valid", "invalid", "doubtful"} :
                        Take(w, x, "channel", LookedUp(x.data, answer), answer = "valid")
                   \/ Take(w, x, "findState", [x.data EXCEPT !.FindTwitterUserState = 3], FALSE)
                   \/ Take(w, x, "delete", x.data, FALSE)
    BY DEF Lookup, First
  <1>2. x.data \in UserTwitterAuth
    BY CopyOK
  <1>3. CASE Skip(w, x)
    BY <1>3 DEF Skip, Passed
  <1>4. ASSUME ~Done(x.data), NEW answer,
               Take(w, x, "channel", LookedUp(x.data, answer), answer = "valid")
        PROVE  Took(w, x, "channel") /\ cur'[w].data.FindTwitterUserState = 2
    BY <1>2, <1>4, LookedUpFields, TakeMoves
  <1>5. ASSUME Take(w, x, "findState", [x.data EXCEPT !.FindTwitterUserState = 3], FALSE)
        PROVE  Took(w, x, "findState") /\ cur'[w].data.FindTwitterUserState = 3
    <2>. DEFINE y == [x.data EXCEPT !.FindTwitterUserState = 3]
    <2>1. SameHolder(y, x.data) /\ y.FindTwitterUserState = 3
      BY <1>2 DEF UserTwitterAuth, SameHolder
    <2>2. Take(w, x, "findState", y, FALSE)
      BY <1>5
    <2>. HIDE DEF y
    <2>. QED
      BY <2>1, <2>2, TakeMoves
  <1>6. ASSUME Take(w, x, "delete", x.data, FALSE)
        PROVE  Took(w, x, "delete")
    BY <1>6, TakeMoves DEF SameHolder
  <1>. QED
    BY <1>1, <1>3, <1>4, <1>5, <1>6

LEMMA CheckMoves ==
    ASSUME IInv, NEW w \in Workers, Check(w)
    PROVE  \E x \in list[w] :
             \/ Passed(w, x)
             \/ Took(w, x, "channel") /\ cur'[w].data = x.data
             \/ /\ Took(w, x, "save")
                /\ cur'[w].data.FindTwitterUserState = x.data.FindTwitterUserState
                /\ cur'[w].data.SendTweeState = x.data.SendTweeState
  <1>1. PICK x \in list[w] :
             \/ Skip(w, x)
             \/ Take(w, x, "channel", x.data, TRUE)
             \/ \E refused \in {3, 6, 7} :
                   Take(w, x, "save", [x.data EXCEPT !.ValidState = refused], FALSE)
    BY DEF Check
  <1>2. x.data \in UserTwitterAuth
    BY CopyOK
  <1>3. CASE Skip(w, x)
    BY <1>3 DEF Skip, Passed
  <1>4. ASSUME Take(w, x, "channel", x.data, TRUE)
        PROVE  Took(w, x, "channel") /\ cur'[w].data = x.data
    BY <1>4, TakeMoves DEF SameHolder
  <1>5. ASSUME NEW refused, Take(w, x, "save", [x.data EXCEPT !.ValidState = refused], FALSE)
        PROVE  /\ Took(w, x, "save")
               /\ cur'[w].data.FindTwitterUserState = x.data.FindTwitterUserState
               /\ cur'[w].data.SendTweeState = x.data.SendTweeState
    <2>. DEFINE y == [x.data EXCEPT !.ValidState = refused]
    <2>1. /\ SameHolder(y, x.data)
          /\ y.FindTwitterUserState = x.data.FindTwitterUserState
          /\ y.SendTweeState = x.data.SendTweeState
      BY <1>2 DEF UserTwitterAuth, SameHolder
    <2>. HIDE DEF y
    <2>. QED
      BY <1>5, <2>1, TakeMoves DEF y
  <1>. QED
    BY <1>1, <1>3, <1>4, <1>5

LEMMA ActMoves ==
    ASSUME IInv, NEW w \in Workers, Act(w)
    PROVE  \E x \in list[w] :
             /\ Took(w, x, "actSave")
             /\ IF plan[w] \in {"send", "reply"}
                THEN /\ cur'[w].data.SendTweeState \notin {0, 1}
                     /\ posted' \in {posted, posted \cup {x.data.TwitterUserId}}
                ELSE posted' = posted
  <1>1. PICK x \in list[w], a \in Answers(plan[w]) :
             /\ Take(w, x, "actSave", Answered(plan[w], x.data, a.state), FALSE)
             /\ posted' = IF a.ok /\ plan[w] \in {"send", "reply"}
                          THEN posted \cup {x.data.TwitterUserId} ELSE posted
    BY DEF Act, First
  <1>2. x.data \in UserTwitterAuth /\ plan[w] \in {"send", "reply", "like", "follow"}
    BY CopyOK DEF Act
  <1>3. a.state \notin {0, 1}
    BY DEF Answers
  <1>4. Took(w, x, "actSave") /\ cur'[w].data = Answered(plan[w], x.data, a.state)
    <2>. DEFINE y == Answered(plan[w], x.data, a.state)
    <2>1. Take(w, x, "actSave", y, FALSE) /\ SameHolder(y, x.data)
      BY <1>1, <1>2, AnsweredFields
    <2>. HIDE DEF y
    <2>. QED
      BY <2>1, TakeMoves DEF y
  <1>. QED
    BY <1>1, <1>2, <1>3, <1>4, AnsweredFields

\* What an update by _id does.
LEMMA UpdateMoves ==
    ASSUME IInv, NEW d, NEW new, Update(d, new)
    PROVE  /\ live' = live /\ DOMAIN docs' = DOMAIN docs
           /\ \A e \in DOMAIN docs : docs'[e] = IF e = d /\ d \in live THEN new ELSE docs[e]
  BY DEF Update, IInv, DocsOK

\* What a step of a plan writes to the document of its copy.
LEMMA WriteMoves ==
    ASSUME IInv, CopiesHeld, NEW w \in Workers, pc[w] \in WithCopy,
           \/ UpdateUserTwitterAuthTwitterUser(cur[w])
           \/ UpdateUserTwitterAuthFindState(cur[w])
           \/ UpdateUserTwitterAuthFollow(cur[w])
           \/ UpdateUserTwitterAuthSendTweet(cur[w])
           \/ UpdateUserTwitterAuthLikeTweet(cur[w])
    PROVE  \E new : Update(cur[w].id, new) /\ SameHolder(new, docs[cur[w].id])
  <1>. DEFINE old == docs[cur[w].id]
              data == cur[w].data
  <1>1. old \in UserTwitterAuth /\ SameHolder(data, old)
    BY DEF CopiesHeld, CopyOf, IInv, DocsOK
  <1>2. \A s : /\ SameHolder([old EXCEPT !.FindTwitterUserState = s], old)
               /\ SameHolder([old EXCEPT !.FollowState = s], old)
               /\ SameHolder([old EXCEPT !.SendTweeState = s], old)
               /\ SameHolder([old EXCEPT !.LikeTweeState = s], old)
    BY <1>1 DEF UserTwitterAuth, SameHolder
  <1>3. CASE UpdateUserTwitterAuthTwitterUser(cur[w])
    BY <1>1, <1>3 DEF UpdateUserTwitterAuthTwitterUser
  <1>4. CASE UpdateUserTwitterAuthFindState(cur[w])
    BY <1>2, <1>4 DEF UpdateUserTwitterAuthFindState
  <1>5. CASE UpdateUserTwitterAuthFollow(cur[w])
    BY <1>2, <1>5 DEF UpdateUserTwitterAuthFollow
  <1>6. CASE UpdateUserTwitterAuthSendTweet(cur[w])
    BY <1>2, <1>6 DEF UpdateUserTwitterAuthSendTweet
  <1>7. CASE UpdateUserTwitterAuthLikeTweet(cur[w])
    BY <1>2, <1>7 DEF UpdateUserTwitterAuthLikeTweet
  <1>. QED
    BY <1>3, <1>4, <1>5, <1>6, <1>7

\* The documents that a step writes.
LEMMA DocMoves ==
    ASSUME IInv, CopiesHeld, Next
    PROVE  \/ UNCHANGED authVars
           \/ \E l \in Logins : /\ pc[l] = "new" /\ LoginEnds(l)
                                /\ CreateUserTwitterAuth(NewDocument(req[l]))
           \/ \E w \in Workers : pc[w] = "delete" /\ DeleteUserTwitterAuthByID(cur[w].id)
           \/ \E w \in Workers :
                 \E new : /\ pc[w] \in {"findState", "save", "actSave"}
                          /\ Update(cur[w].id, new)
                          /\ SameHolder(new, docs[cur[w].id])
  <1>1. CASE \E l \in Logins : Login(l)
    BY <1>1 DEF Login, FindByTwitterUserId, FindByUid, FindAirdropByUid, CreateUser
  <1>2. ASSUME NEW w \in Workers, Work(w)
        PROVE  \/ UNCHANGED authVars
               \/ pc[w] = "delete" /\ DeleteUserTwitterAuthByID(cur[w].id)
               \/ \E new : /\ pc[w] \in {"findState", "save", "actSave"}
                           /\ Update(cur[w].id, new) /\ SameHolder(new, docs[cur[w].id])
    <2>1. CASE DeleteUser(w)
      BY <2>1 DEF DeleteUser
    <2>2. CASE SaveFindState(w)
      BY <2>2, WriteMoves DEF SaveFindState, WithCopy
    <2>3. CASE Save(w)
      BY <2>3, WriteMoves DEF Save, WithCopy
    <2>4. CASE ActSave(w)
      BY <2>4, WriteMoves DEF ActSave, WithCopy
    <2>5. CASE Lookup(w) \/ Check(w) \/ Act(w) \/ PlanEnds(w) \/ FindChannelUserByUID(w)
               \/ CreateAirdrop(w) \/ SaveChannel(w)
      BY <2>5
      DEF Lookup, Check, Act, PlanEnds, FindChannelUserByUID, CreateAirdrop, SaveChannel
    <2>. QED
      BY <1>2, <2>1, <2>2, <2>3, <2>4, <2>5 DEF Work
  <1>3. CASE \/ \E l \in Logins, u \in Uids, tw \in TwitterIds : Callback(l, u, tw)
             \/ \E w \in Workers, p \in Plans : Call(w, p)
             \/ \E u \in Uids : RegisterChannelUser(u)
             \/ Crash
    BY <1>3 DEF Callback, Call, RegisterChannelUser, Crash
  <1>. QED
    BY <1>1, <1>2, <1>3 DEF Next

\* Documents stay, and stay their user's.
LEMMA HoldersStay ==
    ASSUME IInv, CopiesHeld, Next, NEW d \in DOMAIN docs
    PROVE  d \in DOMAIN docs' /\ SameHolder(docs'[d], docs[d])
  <1>0. docs \in Seq(UserTwitterAuth) /\ SameHolder(docs[d], docs[d])
    BY DEF IInv, DocsOK, SameHolder
  <1>1. CASE UNCHANGED docs
    BY <1>0, <1>1
  <1>2. ASSUME NEW l \in Logins, CreateUserTwitterAuth(NewDocument(req[l]))
        PROVE  d \in DOMAIN docs' /\ SameHolder(docs'[d], docs[d])
    <2>1. ASSUME NEW data, docs' = Append(docs, data)
          PROVE  d \in DOMAIN docs' /\ SameHolder(docs'[d], docs[d])
      BY <1>0, <2>1 DEF SameHolder
    <2>2. ASSUME NEW m, NEW a, NEW b,
                 docs' = [docs EXCEPT ![m] = [@ EXCEPT !.TwitterUser = a,
                                                       !.FindTwitterUserState = b]]
          PROVE  d \in DOMAIN docs' /\ SameHolder(docs'[d], docs[d])
      <3>1. docs[d] \in UserTwitterAuth
        BY <1>0
      <3>2. SameHolder([docs[d] EXCEPT !.TwitterUser = a, !.FindTwitterUserState = b], docs[d])
        BY <3>1 DEF SameHolder, UserTwitterAuth
      <3>. QED
        BY <1>0, <2>2, <3>2
    <2>3. \/ \E data : docs' = Append(docs, data)
          \/ \E m, a, b : docs' = [docs EXCEPT ![m] = [@ EXCEPT !.TwitterUser = a,
                                                                !.FindTwitterUserState = b]]
      BY <1>2 DEF CreateUserTwitterAuth
    <2>. QED
      BY <2>1, <2>2, <2>3
  <1>3. ASSUME NEW w \in Workers, NEW new, Update(cur[w].id, new),
               SameHolder(new, docs[cur[w].id])
        PROVE  d \in DOMAIN docs' /\ SameHolder(docs'[d], docs[d])
    BY <1>0, <1>3, UpdateMoves
  <1>. QED
    BY <1>1, <1>2, <1>3, DocMoves DEF authVars, DeleteUserTwitterAuthByID
-----------------------------------------------------------------------------
(* A step is one goroutine's; the others stay where they are. *)

PlanStays(w) == pc'[w] = pc[w] /\ plan'[w] = plan[w] /\ list'[w] = list[w] /\ cur'[w] = cur[w]

LoginStays(l) == pc'[l] = pc[l] /\ req'[l] = req[l]

LEMMA PlansStay ==
    ASSUME TInv, Next, NEW w \in Workers
    PROVE  Work(w) \/ (\E p \in Plans : Call(w, p)) \/ Crash \/ PlanStays(w)
  <1>0. /\ DOMAIN pc = Workers \cup Logins
        /\ DOMAIN plan = Workers /\ DOMAIN list = Workers /\ DOMAIN cur = Workers
    BY DEF TInv, MInv, IInv, StepsOK, ListsOK
  <1>1. ASSUME NEW l \in Logins, Login(l) \/ \E u \in Uids, tw \in TwitterIds : Callback(l, u, tw)
        PROVE  PlanStays(w)
    <2>1. l # w
      BY ProcsAssumption
    <2>2. UNCHANGED workerVars /\ \E to : pc' = [pc EXCEPT ![l] = to]
      BY <1>1
      DEF Login, FindByTwitterUserId, FindByUid, FindAirdropByUid, CreateUser, Callback,
          LoginEnds, LoginGoesOn, Goto
    <2>. QED
      BY <1>0, <2>1, <2>2 DEF PlanStays, workerVars
  <1>2. ASSUME NEW v \in Workers, v # w, Work(v)
        PROVE  PlanStays(w)
    <2>1. \/ UNCHANGED pc
          \/ \E to : pc' = [pc EXCEPT ![v] = to]
      BY <1>2
      DEF Work, PlanEnds, Lookup, DeleteUser, SaveFindState, Check, FindChannelUserByUID,
          CreateAirdrop, Save, SaveChannel, Act, ActSave, Take, Skip, NextCopy, Goto
    <2>2. \/ UNCHANGED plan
          \/ \E p : plan' = [plan EXCEPT ![v] = p]
      BY <1>2
      DEF Work, PlanEnds, Lookup, DeleteUser, SaveFindState, Check, FindChannelUserByUID,
          CreateAirdrop, Save, SaveChannel, Act, ActSave
    <2>3. \/ UNCHANGED list
          \/ \E some : list' = [list EXCEPT ![v] = some]
      BY <1>2
      DEF Work, PlanEnds, Lookup, DeleteUser, SaveFindState, Check, FindChannelUserByUID,
          CreateAirdrop, Save, SaveChannel, Act, ActSave, Take, Skip
    <2>4. \/ UNCHANGED cur
          \/ \E c : cur' = [cur EXCEPT ![v] = c]
      <3>1. CASE FindChannelUserByUID(v)
        BY <3>1 DEF FindChannelUserByUID
      <3>2. CASE CreateAirdrop(v)
        BY <3>2 DEF CreateAirdrop, TInv, IInv, StepsOK
      <3>. QED
        BY <1>2, <3>1, <3>2
        DEF Work, PlanEnds, Lookup, DeleteUser, SaveFindState, Check, Save, SaveChannel, Act,
            ActSave, Take, Skip, NextCopy
    <2>. QED
      BY <1>0, <1>2, <2>1, <2>2, <2>3, <2>4 DEF PlanStays
  <1>3. ASSUME NEW v \in Workers, v # w, NEW p \in Plans, Call(v, p)
        PROVE  PlanStays(w)
    BY <1>0, <1>3 DEF Call, Goto, PlanStays
  <1>4. ASSUME NEW u \in Uids, RegisterChannelUser(u)
        PROVE  PlanStays(w)
    BY <1>4 DEF RegisterChannelUser, PlanStays, workerVars
  <1>. QED
    BY <1>1, <1>2, <1>3, <1>4 DEF Next

LEMMA LoginsStay ==
    ASSUME TInv, Next, NEW l \in Logins
    PROVE  \/ Login(l)
           \/ \E u \in Uids, tw \in TwitterIds : Callback(l, u, tw)
           \/ Crash
           \/ LoginStays(l)
  <1>0. DOMAIN pc = Workers \cup Logins /\ DOMAIN req = Logins
    BY DEF TInv, IInv, StepsOK
  <1>1. ASSUME NEW w \in Workers, Work(w) \/ \E p \in Plans : Call(w, p)
        PROVE  LoginStays(l)
    <2>1. l # w
      BY ProcsAssumption
    <2>2. UNCHANGED pc \/ \E to : pc' = [pc EXCEPT ![w] = to]
      BY <1>1
      DEF Work, PlanEnds, Lookup, DeleteUser, SaveFindState, Check, FindChannelUserByUID,
          CreateAirdrop, Save, SaveChannel, Act, ActSave, Take, Skip, NextCopy, Goto, Call
    <2>3. UNCHANGED req
      BY <1>1
      DEF Work, PlanEnds, Lookup, DeleteUser, SaveFindState, Check, FindChannelUserByUID,
          CreateAirdrop, Save, SaveChannel, Act, ActSave, Call
    <2>. QED
      BY <1>0, <2>1, <2>2, <2>3 DEF LoginStays
  <1>2. ASSUME NEW k \in Logins, k # l,
               Login(k) \/ \E u \in Uids, tw \in TwitterIds : Callback(k, u, tw)
        PROVE  LoginStays(l)
    <2>1. /\ \E to : pc' = [pc EXCEPT ![k] = to]
          /\ UNCHANGED req \/ \E r : req' = [req EXCEPT ![k] = r]
      BY <1>2
      DEF Login, FindByTwitterUserId, FindByUid, FindAirdropByUid, CreateUser, Callback,
          LoginEnds, LoginGoesOn, Goto
    <2>. QED
      BY <1>0, <1>2, <2>1 DEF LoginStays
  <1>3. ASSUME NEW u \in Uids, RegisterChannelUser(u)
        PROVE  LoginStays(l)
    BY <1>3 DEF RegisterChannelUser, LoginStays
  <1>. QED
    BY <1>1, <1>2, <1>3 DEF Next
-----------------------------------------------------------------------------
(* What a plan does with the copy at hand. *)

LEMMA FindChannelMoves ==
    ASSUME IInv, NEW w \in Workers, FindChannelUserByUID(w)
    PROVE  /\ pc[w] = "channel" /\ pc'[w] \in {"create", "save"}
           /\ cur'[w].id = cur[w].id /\ cur'[w].data = cur[w].data
  <1>1. cur[w] \in Current /\ w \in DOMAIN cur /\ w \in DOMAIN pc
    BY AtHand DEF FindChannelUserByUID, WithCopy, IInv, StepsOK
  <1>2. CASE UNCHANGED cur
    BY <1>1, <1>2 DEF FindChannelUserByUID, Goto
  <1>3. ASSUME NEW b, cur' = [cur EXCEPT ![w].doChannel = b]
        PROVE  cur'[w].id = cur[w].id /\ cur'[w].data = cur[w].data
    BY <1>1, <1>3 DEF Current
  <1>. QED
    BY <1>1, <1>2, <1>3 DEF FindChannelUserByUID, Goto

LEMMA CreateMoves ==
    ASSUME IInv, NEW w \in Workers, CreateAirdrop(w)
    PROVE  /\ pc[w] = "create" /\ pc'[w] \in {"save", "findState"}
           /\ cur'[w].id = cur[w].id /\ SameHolder(cur'[w].data, cur[w].data)
           /\ \/ /\ Works /\ Insert(cur[w].data.UID)
                 /\ pc'[w] = "save" /\ cur'[w].data = Granted(cur[w].data)
              \/ Fails /\ (Insert(cur[w].data.UID) \/ UNCHANGED outsideVars)
  <1>1. /\ cur[w] \in Current /\ cur[w].data \in UserTwitterAuth
        /\ w \in DOMAIN cur /\ w \in DOMAIN pc
    BY AtHand DEF CreateAirdrop, WithCopy, IInv, StepsOK
  <1>2. /\ pc[w] = "create"
        /\ \/ /\ Works /\ Insert(cur[w].data.UID) /\ Goto(w, "save")
              /\ cur' = [cur EXCEPT ![w].data = Granted(@)]
           \/ /\ Fails /\ (Insert(cur[w].data.UID) \/ UNCHANGED outsideVars)
              /\ \/ /\ cur' = [cur EXCEPT ![w].data.FindTwitterUserState = 3]
                    /\ Goto(w, "findState")
                 \/ /\ cur' = [cur EXCEPT ![w].data.ValidState = 5, ![w].doChannel = FALSE]
                    /\ Goto(w, "save")
    BY DEF CreateAirdrop
  <1>3. CASE cur' = [cur EXCEPT ![w].data = Granted(@)]
    <2>. DEFINE g == Granted(cur[w].data)
    <2>1. cur'[w] = [cur[w] EXCEPT !.data = g]
      BY <1>1, <1>3
    <2>2. SameHolder(g, cur[w].data)
      BY <1>1, GrantedFields
    <2>. HIDE DEF g
    <2>3. cur'[w].id = cur[w].id /\ cur'[w].data = g
      BY <1>1, <2>1 DEF Current
    <2>. QED
      BY <1>1, <1>2, <2>2, <2>3 DEF Goto, g
  <1>4. CASE cur' = [cur EXCEPT ![w].data.FindTwitterUserState = 3] /\ Goto(w, "findState")
    <2>. DEFINE g == [cur[w].data EXCEPT !.FindTwitterUserState = 3]
    <2>1. cur'[w] = [cur[w] EXCEPT !.data = g]
      BY <1>1, <1>4
    <2>2. SameHolder(g, cur[w].data)
      BY <1>1 DEF UserTwitterAuth, SameHolder
    <2>. HIDE DEF g
    <2>3. cur'[w].id = cur[w].id /\ cur'[w].data = g
      BY <1>1, <2>1 DEF Current
    <2>4. pc'[w] = "findState" /\ pc'[w] # "save"
      BY <1>1, <1>4 DEF Goto
    <2>. QED
      BY <1>1, <1>2, <2>2, <2>3, <2>4 DEF Goto
  <1>5. CASE cur' = [cur EXCEPT ![w].data.ValidState = 5, ![w].doChannel = FALSE]
             /\ Goto(w, "save")
    <2>. DEFINE g == [cur[w].data EXCEPT !.ValidState = 5]
    <2>1. cur'[w] = [cur[w] EXCEPT !.data = g, !.doChannel = FALSE]
      BY <1>1, <1>5
    <2>2. SameHolder(g, cur[w].data)
      BY <1>1 DEF UserTwitterAuth, SameHolder
    <2>. HIDE DEF g
    <2>3. cur'[w].id = cur[w].id /\ cur'[w].data = g
      BY <1>1, <2>1 DEF Current
    <2>4. pc'[w] = "save"
      BY <1>1, <1>5 DEF Goto
    <2>. QED
      BY <1>2, <1>3, <2>2, <2>3, <2>4
  <1>. QED
    BY <1>2, <1>3, <1>4, <1>5

\* The last step of a copy, or a step of the channel user.
LEMMA SaveMoves ==
    ASSUME IInv, NEW w \in Workers,
           DeleteUser(w) \/ SaveFindState(w) \/ Save(w) \/ SaveChannel(w) \/ ActSave(w)
    PROVE  /\ pc[w] \in WithCopy
           /\ \/ pc'[w] = "next"
              \/ pc[w] = "save" /\ pc'[w] = "saveChannel" /\ UNCHANGED cur
           /\ UNCHANGED list
  BY DEF DeleteUser, SaveFindState, Save, SaveChannel, ActSave, NextCopy, Goto, WithCopy,
         IInv, StepsOK

LEMMA CurSteps ==
    ASSUME TInv, Next, NEW w \in Workers, pc'[w] \in WithCopy
    PROVE  \/ /\ pc[w] \in WithCopy /\ cur'[w].id = cur[w].id
              /\ SameHolder(cur'[w].data, cur[w].data)
           \/ \E x \in list[w] : cur'[w].id = x.id /\ SameHolder(cur'[w].data, x.data)
  <1>0. IInv /\ DOMAIN pc = Workers \cup Logins
    BY DEF TInv, IInv, StepsOK
  <1>1. CASE PlanStays(w)
    BY <1>1 DEF PlanStays, SameHolder
  <1>2. ASSUME NEW p \in Plans, Call(w, p) PROVE FALSE
    BY <1>0, <1>2 DEF Call, Goto, WithCopy
  <1>3. CASE Crash
    BY <1>3 DEF Crash, WithCopy
  <1>4. CASE Lookup(w)
    BY <1>0, <1>4, LookupMoves DEF Took, Passed, Lookup, WithCopy
  <1>5. CASE Check(w)
    BY <1>0, <1>5, CheckMoves DEF Took, Passed, Check, WithCopy
  <1>6. CASE Act(w)
    BY <1>0, <1>6, ActMoves DEF Took, WithCopy
  <1>7. CASE FindChannelUserByUID(w)
    BY <1>0, <1>7, FindChannelMoves DEF SameHolder, WithCopy
  <1>8. CASE CreateAirdrop(w)
    BY <1>0, <1>8, CreateMoves DEF WithCopy
  <1>9. CASE DeleteUser(w) \/ SaveFindState(w) \/ Save(w) \/ SaveChannel(w) \/ ActSave(w)
    BY <1>0, <1>9, SaveMoves DEF SameHolder, WithCopy
  <1>10. CASE PlanEnds(w)
    BY <1>0, <1>10 DEF PlanEnds, Goto, WithCopy
  <1>. QED
    BY <1>1, <1>2, <1>3, <1>4, <1>5, <1>6, <1>7, <1>8, <1>9, <1>10, PlansStay DEF Work

LEMMA CopiesHeldNext ==
    ASSUME TInv, CopiesHeld, Next
    PROVE  CopiesHeld'
  <1>0. IInv /\ live \subseteq DOMAIN docs
    BY DEF TInv, IInv, DocsOK
  <1>1. ASSUME NEW x, NEW y, CopyOf(x), y.id = x.id, SameHolder(y.data, x.data)
        PROVE  CopyOf(y)'
    BY <1>0, <1>1, HoldersStay DEF CopyOf, SameHolder
  <1>2. ASSUME NEW w \in Workers, NEW x \in list'[w]
        PROVE  CopyOf(x)'
    <2>1. CASE x \in list[w]
      BY <1>1, <2>1 DEF CopiesHeld, SameHolder
    <2>2. ASSUME NEW p \in Plans, NEW some \in Lists(p), x \in some
          PROVE  CopyOf(x)'
      <3>1. x.id \in DOMAIN docs /\ x.data = docs[x.id]
        BY <1>0, <2>2, ListsAreLive DEF Wanted
      <3>. QED
        BY <1>1, <3>1 DEF CopyOf, SameHolder
    <2>. QED
      BY <1>0, <2>1, <2>2, ListSteps
  <1>3. ASSUME NEW w \in Workers, pc'[w] \in WithCopy
        PROVE  CopyOf(cur[w])'
    BY <1>1, <1>3, CurSteps DEF CopiesHeld
  <1>. QED
    BY <1>2, <1>3 DEF CopiesHeld
-----------------------------------------------------------------------------
(* Logins one after the other: one document each. *)

Holders(tw) == {d \in live : docs[d].TwitterUserId = tw}

\* The documents that other users have of the account of request r.
Others(r) == {d \in Holders(r.TwitterUserId) : docs[d].UID # r.UID}

OneEach == \A d, e \in live : docs[d].UID = docs[e].UID => d = e

\* A login that has not found a document of its user is right.
UserIsNew ==
    \A l \in Logins :
        pc[l] \in {"airdrop", "new"} => \A d \in live : docs[d].UID # req[l].UID

\* An account has a second user for each lookup that failed.
HoldersFew == \A tw \in TwitterIds : Cardinality(Holders(tw)) <= 1 + faults

\* A login that did not find another user's document misses as many as lookups failed.
OthersFew ==
    \A l \in Logins :
        pc[l] \in {"byUid", "airdrop", "new"} => Cardinality(Others(req[l])) <= faults

DInv == CopiesHeld /\ OneEach /\ UserIsNew /\ HoldersFew /\ OthersFew

HoldersFinite ==
    IInv => \A tw : /\ IsFiniteSet(Holders(tw)) /\ Cardinality(Holders(tw)) \in Nat
                    /\ \A S \in SUBSET Holders(tw) :
                          /\ IsFiniteSet(S) /\ Cardinality(S) \in Nat
                          /\ Cardinality(S) <= Cardinality(Holders(tw))

LEMMA HoldersCount == HoldersFinite
  <1>. SUFFICES ASSUME IInv, NEW tw
                PROVE  /\ IsFiniteSet(Holders(tw)) /\ Cardinality(Holders(tw)) \in Nat
                       /\ \A S \in SUBSET Holders(tw) :
                             /\ IsFiniteSet(S) /\ Cardinality(S) \in Nat
                             /\ Cardinality(S) <= Cardinality(Holders(tw))
    BY DEF HoldersFinite
  <1>1. IsFiniteSet(Holders(tw))
    BY Found DEF IInv, Holders
  <1>. QED
    BY <1>1, FS_Subset, FS_CardinalityType

LEMMA HoldersCountNext == HoldersFinite'
  BY HoldersCount, PTL

\* A login creates a document, or none is created.
Creates(l) ==
    /\ pc[l] = "new" /\ pc'[l] = "idle" /\ req[l] \in Request
    /\ live' = live \cup {Len(docs) + 1}
    /\ Len(docs) + 1 \notin live
    /\ docs' = Append(docs, NewDocument(req[l]))
    /\ docs'[Len(docs) + 1] = NewDocument(req[l])
    /\ \A d \in live : docs'[d] = docs[d]

\* A login that creates a document adds one: it has not found any.
LEMMA LoginCreates ==
    ASSUME TInv, UserIsNew, NEW l \in Logins, pc[l] = "new", LoginEnds(l),
           CreateUserTwitterAuth(NewDocument(req[l]))
    PROVE  Creates(l)
  <1>0. IInv /\ DocsOK /\ live \subseteq DOMAIN docs
    BY DEF TInv, IInv, DocsOK
  <1>1. pc'[l] = "idle" /\ req[l] \in Request
    BY <1>0 DEF IInv, StepsOK, WithLogin, LoginEnds, Goto
  <1>2. ~\E d \in live : /\ docs[d].UID = NewDocument(req[l]).UID
                         /\ docs[d].TwitterUserId = NewDocument(req[l]).TwitterUserId
    BY DEF UserIsNew, NewDocument
  <1>3. /\ docs' = Append(docs, NewDocument(req[l]))
        /\ live' = live \cup {Len(docs) + 1}
    BY <1>2 DEF CreateUserTwitterAuth
  <1>. DEFINE data == NewDocument(req[l])
  <1>4. data \in UserTwitterAuth
    BY <1>1 DEF NewDocument, Request, UserTwitterAuth, JobState
  <1>. HIDE DEF data
  <1>5. /\ docs' = Append(docs, data) /\ docs \in Seq(UserTwitterAuth)
    BY <1>0, <1>3 DEF DocsOK, data
  <1>6. /\ docs'[Len(docs) + 1] = data
        /\ \A d \in DOMAIN docs : docs'[d] = docs[d]
        /\ Len(docs) + 1 \notin DOMAIN docs
    BY <1>4, <1>5
  <1>. QED
    BY <1>0, <1>1, <1>3, <1>6 DEF Creates, data

LEMMA LiveMoves ==
    ASSUME TInv, CopiesHeld, UserIsNew, Next
    PROVE  \/ /\ live' \subseteq live
              /\ \A d \in live' : SameHolder(docs'[d], docs[d])
           \/ \E l \in Logins : Creates(l)
  <1>0. IInv /\ DocsOK /\ live \subseteq DOMAIN docs
    BY DEF TInv, IInv, DocsOK
  <1>1. CASE live' \subseteq live
    BY <1>0, <1>1, HoldersStay
  <1>2. ASSUME NEW l \in Logins, pc[l] = "new", LoginEnds(l),
               CreateUserTwitterAuth(NewDocument(req[l]))
        PROVE  Creates(l)
    BY <1>2, LoginCreates
  <1>3. \/ live' \subseteq live
        \/ \E l \in Logins : /\ pc[l] = "new" /\ LoginEnds(l)
                             /\ CreateUserTwitterAuth(NewDocument(req[l]))
    BY <1>0, DocMoves DEF authVars, DeleteUserTwitterAuthByID, Update
  <1>. QED
    BY <1>1, <1>2, <1>3

\* Failures are only added.
LEMMA FaultsGrow ==
    ASSUME TInv, Next
    PROVE  /\ faults \in Nat /\ crashes \in Nat /\ faults' \in Nat /\ crashes' \in Nat
           /\ faults' >= faults /\ crashes' >= crashes
           /\ Fails => faults' = faults + 1 /\ crashes' = crashes
           /\ Crash => crashes' = crashes + 1 /\ faults' = faults
  BY Counts DEF TInv, MInv, Works, Fails, Crash

LEMMA OneEachNext ==
    ASSUME TInv, DInv, Next
    PROVE  OneEach'
  <1>1. CASE live' \subseteq live /\ \A d \in live' : SameHolder(docs'[d], docs[d])
    BY <1>1 DEF DInv, OneEach, SameHolder
  <1>2. ASSUME NEW l \in Logins, Creates(l)
        PROVE  OneEach'
    <2>1. NewDocument(req[l]).UID = req[l].UID
      BY DEF NewDocument
    <2>2. \A d \in live : docs[d].UID # req[l].UID
      BY <1>2 DEF DInv, UserIsNew, Creates
    <2>3. PICK n : /\ live' = live \cup {n}
                   /\ docs'[n].UID = req[l].UID
                   /\ \A d \in live : docs'[d] = docs[d]
      BY <1>2, <2>1 DEF Creates
    <2>. QED
      BY <2>2, <2>3 DEF DInv, OneEach
  <1>. QED
    BY <1>1, <1>2, LiveMoves DEF DInv

\* The steps of a login.
LEMMA LoginMoves ==
    ASSUME OneLogin, TInv, DInv, Next, NEW l \in Logins,
           pc'[l] \in {"byUid", "airdrop", "new"}
    PROVE  /\ req'[l] = req[l] /\ req[l] \in Request
           /\ live' \subseteq live
           /\ \A d \in live' : SameHolder(docs'[d], docs[d])
           /\ \/ pc[l] = pc'[l]
              \/ FindByTwitterUserId(l) /\ pc'[l] = "byUid" /\ UNCHANGED authVars
              \/ FindByUid(l) /\ pc'[l] = "airdrop" /\ UNCHANGED authVars
              \/ FindAirdropByUid(l) /\ pc'[l] = "new" /\ UNCHANGED authVars
  <1>0. /\ IInv /\ live \subseteq DOMAIN docs
        /\ DOMAIN pc = Workers \cup Logins /\ DOMAIN req = Logins
    BY DEF TInv, IInv, StepsOK, DocsOK
  <1>1. \A k \in Logins : ~Creates(k)
    BY DEF OneLogin, Creates
  <1>2. live' \subseteq live /\ \A d \in live' : SameHolder(docs'[d], docs[d])
    BY <1>1, LiveMoves DEF DInv
  <1>3. CASE LoginStays(l)
    BY <1>0, <1>2, <1>3 DEF LoginStays, IInv, StepsOK, WithLogin
  <1>4. CASE Login(l)
    BY <1>0, <1>2, <1>4
    DEF Login, FindByTwitterUserId, FindByUid, FindAirdropByUid, CreateUser, LoginGoesOn,
        LoginEnds, Goto, IInv, StepsOK, WithLogin
  <1>5. ASSUME NEW u \in Uids, NEW tw \in TwitterIds, Callback(l, u, tw) PROVE FALSE
    BY <1>0, <1>5 DEF Callback, Goto
  <1>6. CASE Crash
    BY <1>6 DEF Crash
  <1>. QED
    BY <1>3, <1>4, <1>5, <1>6, LoginsStay

LEMMA UserIsNewNext ==
    ASSUME OneLogin, TInv, DInv, Next
    PROVE  UserIsNew'
  <1>. SUFFICES ASSUME NEW l \in Logins, pc'[l] \in {"airdrop", "new"}, NEW d \in live'
                PROVE  docs'[d].UID # req'[l].UID
    BY DEF UserIsNew
  <1>0. DocsOK
    BY DEF TInv, IInv
  <1>1. d \in live /\ docs'[d].UID = docs[d].UID /\ req'[l] = req[l]
    BY LoginMoves DEF SameHolder
  <1>2. CASE FindByUid(l) /\ pc'[l] = "airdrop"
    <2>. DEFINE mine == {e \in live : docs[e].UID = req[l].UID}
    <2>1. l \in DOMAIN pc
      BY DEF TInv, IInv, StepsOK
    <2>2. FindUserTwitterAuth(mine) = {}
      BY <1>2, <2>1 DEF FindByUid, LoginEnds, Goto
    <2>. HIDE DEF mine
    <2>3. mine \subseteq live
      BY DEF mine
    <2>4. mine = {}
      BY <1>0, <2>2, <2>3, Found
    <2>. QED
      BY <1>1, <2>4 DEF mine
  <1>. QED
    BY <1>1, <1>2, LoginMoves DEF DInv, UserIsNew, FindAirdropByUid

LEMMA HoldersFewNext ==
    ASSUME TInv, DInv, Next
    PROVE  HoldersFew'
  <1>. SUFFICES ASSUME NEW tw \in TwitterIds
                PROVE  Cardinality(Holders(tw))' <= 1 + faults'
    BY DEF HoldersFew
  <1>0. IInv /\ faults \in Nat /\ faults' \in Nat /\ faults' >= faults
    BY FaultsGrow DEF TInv
  <1>1. /\ Cardinality(Holders(tw)) <= 1 + faults
        /\ Cardinality(Holders(tw)) \in Nat /\ IsFiniteSet(Holders(tw))
    BY <1>0, HoldersCount DEF DInv, HoldersFew, HoldersFinite
  <1>2. CASE Holders(tw)' \subseteq Holders(tw)
    <2>1. Cardinality(Holders(tw)') \in Nat /\ Cardinality(Holders(tw)') <= Cardinality(Holders(tw))
      BY <1>0, <1>2, HoldersCount DEF HoldersFinite
    <2>. QED
      BY <1>0, <1>1, <2>1
  <1>3. CASE live' \subseteq live /\ \A d \in live' : SameHolder(docs'[d], docs[d])
    BY <1>2, <1>3 DEF Holders, SameHolder
  <1>4. ASSUME NEW l \in Logins, Creates(l)
        PROVE  Cardinality(Holders(tw))' <= 1 + faults'
    <2>. DEFINE n == Len(docs) + 1
    <2>1. NewDocument(req[l]).TwitterUserId = req[l].TwitterUserId
      BY DEF NewDocument
    <2>2. CASE tw # req[l].TwitterUserId
      BY <1>2, <1>4, <2>1, <2>2 DEF Creates, Holders
    <2>3. CASE tw = req[l].TwitterUserId
      <3>1. Others(req[l]) = Holders(tw)
        BY <1>4, <2>3 DEF Others, Holders, Creates, DInv, UserIsNew
      <3>2. Cardinality(Holders(tw)) <= faults
        BY <1>4, <3>1 DEF DInv, OthersFew, Creates
      <3>3. Holders(tw)' = Holders(tw) \cup {n}
        BY <1>4, <2>1, <2>3 DEF Creates, Holders
      <3>4. \/ Cardinality(Holders(tw)') = Cardinality(Holders(tw))
            \/ Cardinality(Holders(tw)') = Cardinality(Holders(tw)) + 1
        BY <1>1, <3>3, FS_AddElement
      <3>. QED
        BY <1>0, <1>1, <3>2, <3>4
    <2>. QED
      BY <2>2, <2>3
  <1>. QED
    BY <1>3, <1>4, LiveMoves DEF DInv

LEMMA OthersFewNext ==
    ASSUME OneLogin, TInv, DInv, Next
    PROVE  OthersFew'
  <1>. SUFFICES ASSUME NEW l \in Logins, pc'[l] \in {"byUid", "airdrop", "new"}
                PROVE  Cardinality(Others(req[l])') <= faults'
    BY DEF OthersFew
  <1>0. IInv /\ faults \in Nat /\ faults' \in Nat /\ faults' >= faults
    BY FaultsGrow DEF TInv
  <1>. DEFINE r == req[l]
              tw == r.TwitterUserId
  <1>1. /\ req'[l] = r /\ r \in Request
        /\ live' \subseteq live /\ \A d \in live' : SameHolder(docs'[d], docs[d])
    BY LoginMoves
  <1>2. tw \in TwitterIds
    BY <1>1 DEF Request
  <1>3. Others(req[l])' \subseteq Others(r) /\ Others(r) \subseteq Holders(tw)
    BY <1>1 DEF Others, Holders, SameHolder
  <1>. HIDE DEF r, tw
  <1>4. /\ IsFiniteSet(Holders(tw)) /\ Cardinality(Holders(tw)) \in Nat
        /\ Cardinality(Holders(tw)) <= 1 + faults
        /\ IsFiniteSet(Others(r)) /\ Cardinality(Others(r)) \in Nat
        /\ Cardinality(Others(r)) <= Cardinality(Holders(tw))
    BY <1>0, <1>2, <1>3, HoldersCount DEF HoldersFinite, DInv, HoldersFew
  <1>5. Cardinality(Others(req[l])') \in Nat /\ Cardinality(Others(req[l])') <= Cardinality(Others(r))
    BY <1>3, <1>4, FS_Subset, FS_CardinalityType
  <1>6. Cardinality(Others(r)) <= faults'
    <2>1. CASE pc[l] \in {"byUid", "airdrop", "new"}
      BY <1>0, <1>4, <2>1 DEF DInv, OthersFew, r
    <2>2. CASE FindByTwitterUserId(l) /\ pc'[l] = "byUid"
      <3>1. l \in DOMAIN pc
        BY DEF TInv, IInv, StepsOK
      <3>2. CASE Fails
        BY <1>0, <1>4, <3>2 DEF Fails
      <3>3. CASE \A d \in FindUserTwitterAuth(Holders(tw)) : docs[d].UID = r.UID
        <4>1. CASE Holders(tw) = {}
          BY <1>0, <1>3, <4>1, FS_EmptySet
        <4>2. CASE Holders(tw) # {}
          <5>0. Holders(tw) \subseteq live /\ DocsOK
            BY <1>0 DEF Holders, IInv
          <5>1. PICK d \in Holders(tw) : d \in FindUserTwitterAuth(Holders(tw))
            BY <4>2, <5>0, Found
          <5>2. Others(r) \subseteq Holders(tw) \ {d}
            BY <1>3, <3>3, <5>1 DEF Others
          <5>3. /\ IsFiniteSet(Holders(tw) \ {d})
                /\ Cardinality(Holders(tw) \ {d}) = Cardinality(Holders(tw)) - 1
            BY <1>4, <5>1, FS_RemoveElement
          <5>4. Cardinality(Others(r)) <= Cardinality(Holders(tw) \ {d})
            BY <5>2, <5>3, FS_Subset
          <5>. QED
            BY <1>0, <1>4, <5>3, <5>4
        <4>. QED
          BY <4>1, <4>2
      <3>. QED
        BY <2>2, <3>1, <3>2, <3>3 DEF FindByTwitterUserId, LoginEnds, Goto, Holders, r, tw
    <2>. QED
      BY <2>1, <2>2, LoginMoves DEF FindByUid, FindAirdropByUid
  <1>. QED
    BY <1>0, <1>4, <1>5, <1>6

\* What holds while logins come one after the other.
DocInv == TInv /\ DInv

LEMMA DInvInit == Init => DInv
  <1>. SUFFICES ASSUME Init PROVE DInv
    OBVIOUS
  <1>1. live = {} /\ faults = 0 /\ \A l \in Logins : pc[l] = "idle"
    BY DEF Init, AuthsInit
  <1>2. \A tw : Holders(tw) = {}
    BY <1>1 DEF Holders
  <1>3. CopiesHeld
    BY DEF Init, CopiesHeld, WithCopy
  <1>. QED
    BY <1>1, <1>2, <1>3, FS_EmptySet
    DEF DInv, OneEach, UserIsNew, HoldersFew, OthersFew, Others

LEMMA DInvNext ==
    ASSUME OneLogin
    PROVE  TInv /\ DInv /\ [Next]_vars => DInv'
  <1>. SUFFICES ASSUME TInv, DInv, [Next]_vars PROVE DInv'
    OBVIOUS
  <1>1. CASE UNCHANGED vars
    BY <1>1
    DEF vars, authVars, workerVars, DInv, CopiesHeld, CopyOf, OneEach, UserIsNew, HoldersFew,
        OthersFew, Others, Holders
  <1>2. CASE Next
    BY <1>2, CopiesHeldNext, OneEachNext, UserIsNewNext, HoldersFewNext, OthersFewNext DEF DInv
  <1>. QED
    BY <1>1, <1>2

LEMMA DocsHeld ==
    ASSUME OneLogin
    PROVE  Spec => []DocInv
  <1>1. TInv /\ DInv /\ [Next]_vars => DInv'
    BY DInvNext
  <1>. QED
    BY <1>1, DInvInit, PlansTyped, PTL DEF Spec, DocInv

\* While logins come one after the other, a user has one document, and an account as
\* many users as look-ups of the account failed, and one more (TwitterCallback).  Any
\* number of plans may run meanwhile.
THEOREM DocumentsAreSingle ==
    ASSUME OneLogin
    PROVE  Spec => []OneDocumentEach
  <1>1. DocInv => OneDocumentEach
    BY DEF DocInv, DInv, OneEach, HoldersFew, Holders, OneDocumentEach
  <1>. QED
    BY <1>1, DocsHeld, PTL
-----------------------------------------------------------------------------
(* Plans one after the other as well: copies are not stale. *)

\* The steps up to the last write to the document, and up to the one of the document
\* whose airdrop may have been created.
Writing == WithCopy \ {"saveChannel"}
Before == {"channel", "create", "save"}

ListsFresh ==
    \A w \in Workers : \A x \in list[w] :
        /\ x.id \in live /\ x.data = docs[x.id]
        /\ pc[w] \in Writing => x.id # cur[w].id
        /\ plan[w] = "lookup" => x.data.FindTwitterUserState = 1
        /\ plan[w] = "check" => x.data.ValidState = 4
        /\ plan[w] \in {"send", "reply"} => x.data.SendTweeState = 1

CurLive == \A w \in Workers : pc[w] \in Writing => cur[w].id \in live

NotClosed == \A w \in Workers : pc[w] \in Before => ~Closed(docs[cur[w].id])

\* User u gets no other airdrop: the document has it, or is about to, and no login is
\* going to create another.
Settled(u) ==
    /\ \A d \in live :
          docs[d].UID = u =>
              \/ Closed(docs[d])
              \/ \E w \in Workers : pc[w] = "save" /\ cur[w].id = d /\ Closed(cur[w].data)
    /\ \A l \in Logins : pc[l] = "new" => req[l].UID # u

RowsFew ==
    \A u \in Uids :
        /\ airdrops[u] <= 1 + faults + crashes
        /\ airdrops[u] > faults + crashes => Settled(u)

FreshInv == ListsFresh /\ CurLive /\ NotClosed

\* What a step of a plan writes.
LEMMA WorkWrites ==
    ASSUME IInv, CopiesHeld, CurLive, NEW w \in Workers, Work(w)
    PROVE  \/ UNCHANGED authVars
           \/ /\ DeleteUser(w) /\ pc[w] \in Writing
              /\ live' = live \ {cur[w].id} /\ docs' = docs
           \/ /\ SaveFindState(w) \/ Save(w) \/ ActSave(w)
              /\ pc[w] \in Writing /\ live' = live
              /\ \A e \in live : e # cur[w].id => docs'[e] = docs[e]
  <1>1. \/ UNCHANGED authVars
        \/ DeleteUser(w)
        \/ /\ SaveFindState(w) \/ Save(w) \/ ActSave(w)
           /\ pc[w] \in Writing
    BY DEF Work, PlanEnds, Lookup, Check, FindChannelUserByUID, CreateAirdrop, SaveChannel, Act,
           SaveFindState, Save, ActSave, Writing, WithCopy
  <1>2. CASE DeleteUser(w)
    BY <1>2 DEF DeleteUser, DeleteUserTwitterAuthByID, Writing, WithCopy, authVars
  <1>3. CASE /\ SaveFindState(w) \/ Save(w) \/ ActSave(w)
             /\ pc[w] \in Writing
    <2>1. pc[w] \in WithCopy
      BY <1>3 DEF Writing
    <2>2. \/ UNCHANGED authVars
          \/ UpdateUserTwitterAuthTwitterUser(cur[w])
          \/ UpdateUserTwitterAuthFindState(cur[w])
          \/ UpdateUserTwitterAuthFollow(cur[w])
          \/ UpdateUserTwitterAuthSendTweet(cur[w])
          \/ UpdateUserTwitterAuthLikeTweet(cur[w])
      BY <1>3 DEF SaveFindState, Save, ActSave
    <2>3. ASSUME NEW new, Update(cur[w].id, new)
          PROVE  live' = live /\ \A e \in live : e # cur[w].id => docs'[e] = docs[e]
      BY <2>3, UpdateMoves DEF IInv, DocsOK
    <2>. QED
      BY <1>3, <2>1, <2>2, <2>3, WriteMoves
  <1>. QED
    BY <1>1, <1>2, <1>3

\* While no plan works, a login creates a document, or nothing is written.
LEMMA RestWrites ==
    ASSUME TInv, UserIsNew, Next, \A v \in Workers : ~Work(v)
    PROVE  UNCHANGED authVars \/ \E l \in Logins : Creates(l)
  <1>1. ASSUME NEW l \in Logins, Login(l)
        PROVE  UNCHANGED authVars \/ Creates(l)
    <2>1. \/ UNCHANGED authVars
          \/ /\ pc[l] = "new" /\ LoginEnds(l)
             /\ CreateUserTwitterAuth(NewDocument(req[l]))
      BY <1>1 DEF Login, FindByTwitterUserId, FindByUid, FindAirdropByUid, CreateUser
    <2>. QED
      BY <2>1, LoginCreates
  <1>. QED
    BY <1>1 DEF Next, Callback, Call, RegisterChannelUser, Crash

\* For a plan that does not work, the documents it knows stay as they are.
LEMMA KnownStay ==
    ASSUME OnePlan, TInv, UserIsNew, Next, NEW w \in Workers, ~Work(w)
    PROVE  live \subseteq live' /\ \A d \in live : docs'[d] = docs[d]
  BY RestWrites DEF OnePlan, Creates, authVars

LEMMA ListsFreshNext ==
    ASSUME OnePlan, TInv, DInv, FreshInv, Next
    PROVE  ListsFresh'
  <1>. SUFFICES ASSUME NEW w \in Workers, NEW x \in list'[w]
                PROVE  /\ x.id \in live' /\ x.data = docs'[x.id]
                       /\ pc'[w] \in Writing => x.id # cur'[w].id
                       /\ plan'[w] = "lookup" => x.data.FindTwitterUserState = 1
                       /\ plan'[w] = "check" => x.data.ValidState = 4
                       /\ plan'[w] \in {"send", "reply"} => x.data.SendTweeState = 1
    BY DEF ListsFresh
  <1>. USE DEF FreshInv
  <1>0. /\ IInv /\ list \in [Workers -> SUBSET Copy] /\ DOMAIN plan = Workers
        /\ DOMAIN pc = Workers \cup Logins
    BY DEF TInv, MInv, IInv, ListsOK, StepsOK
  <1>1. CASE PlanStays(w) /\ ~Work(w)
    BY <1>1, KnownStay DEF PlanStays, ListsFresh, DInv
  <1>2. ASSUME NEW p \in Plans, Call(w, p), ~PlanStays(w)
        PROVE  /\ x.id \in Wanted(p) /\ x.data = docs[x.id]
               /\ pc'[w] = "next" /\ plan'[w] = p /\ UNCHANGED authVars
    <2>1. PICK some \in Lists(p) : list' = [list EXCEPT ![w] = some]
      BY <1>2 DEF Call, PlanStays
    <2>2. x \in some
      BY <1>0, <2>1
    <2>. QED
      BY <1>0, <1>2, <2>2, ListsAreLive DEF Call, Goto, PlanStays
  <1>3. ASSUME NEW p \in Plans, Call(w, p), ~PlanStays(w)
        PROVE  /\ x.id \in live' /\ x.data = docs'[x.id]
               /\ pc'[w] \notin Writing /\ plan'[w] = p
               /\ p = "lookup" => x.data.FindTwitterUserState = 1
               /\ p = "check" => x.data.ValidState = 4
               /\ p \in {"send", "reply"} => x.data.SendTweeState = 1
    BY <1>2, <1>3 DEF Wanted, Writing, WithCopy, authVars
  <1>4. CASE Crash
    BY <1>4 DEF Crash
  <1>5. CASE Lookup(w) \/ Check(w) \/ Act(w)
    <2>1. UNCHANGED <<authVars, plan>> /\ pc[w] = "next"
      BY <1>5 DEF Lookup, Check, Act
    <2>2. PICK y \in list[w] :
             /\ list' = [list EXCEPT ![w] = @ \ {y}]
             /\ UNCHANGED pc \/ cur'[w].id = y.id
      BY <1>0, <1>5, LookupMoves, CheckMoves, ActMoves DEF Took, Passed
    <2>3. x \in list[w] /\ x # y
      BY <1>0, <2>2
    <2>4. x \in Copy /\ y \in Copy
      BY <1>0, <2>2, <2>3
    <2>5. x.id # y.id
      BY <2>2, <2>3, <2>4 DEF ListsFresh, Copy
    <2>. QED
      BY <2>1, <2>2, <2>3, <2>5 DEF ListsFresh, Writing, WithCopy, authVars
  <1>6. CASE FindChannelUserByUID(w) \/ CreateAirdrop(w)
    <2>1. UNCHANGED <<authVars, plan, list>> /\ pc[w] \in Writing
      BY <1>6 DEF FindChannelUserByUID, CreateAirdrop, Writing, WithCopy
    <2>2. cur'[w].id = cur[w].id
      BY <1>0, <1>6, FindChannelMoves, CreateMoves
    <2>. QED
      BY <2>1, <2>2 DEF ListsFresh, authVars
  <1>7. CASE DeleteUser(w) \/ SaveFindState(w) \/ Save(w) \/ SaveChannel(w) \/ ActSave(w)
    <2>1. UNCHANGED plan /\ UNCHANGED list /\ pc'[w] \notin Writing
      BY <1>0, <1>7, SaveMoves
      DEF DeleteUser, SaveFindState, Save, SaveChannel, ActSave, Writing, WithCopy
    <2>2. Work(w)
      BY <1>7 DEF Work
    <2>3. x.id \in live' /\ docs'[x.id] = docs[x.id]
      BY <1>0, <2>1, <2>2, WorkWrites DEF ListsFresh, DInv, authVars
    <2>. QED
      BY <2>1, <2>3 DEF ListsFresh
  <1>8. CASE PlanEnds(w)
    BY <1>0, <1>8 DEF PlanEnds
  <1>. QED
    BY <1>1, <1>3, <1>4, <1>5, <1>6, <1>7, <1>8, PlansStay DEF Work

\* What a plan takes is live, and not closed.
LEMMA CurLiveNext ==
    ASSUME OnePlan, TInv, DInv, FreshInv, Next
    PROVE  CurLive' /\ NotClosed'
  <1>. SUFFICES ASSUME NEW w \in Workers, pc'[w] \in Writing
                PROVE  /\ cur'[w].id \in live'
                       /\ pc'[w] \in Before => ~Closed(docs'[cur'[w].id])
    BY DEF CurLive, NotClosed, Closed, Before, Writing, WithCopy
  <1>. USE DEF FreshInv
  <1>0. IInv /\ DOMAIN pc = Workers \cup Logins
    BY DEF TInv, IInv, StepsOK
  <1>1. CASE PlanStays(w) /\ ~Work(w)
    BY <1>1, KnownStay DEF PlanStays, CurLive, NotClosed, Closed, DInv
  <1>2. ASSUME NEW p \in Plans, Call(w, p), ~PlanStays(w)
        PROVE  FALSE
    BY <1>0, <1>2 DEF Call, Goto, Writing, WithCopy
  <1>3. CASE Crash
    BY <1>3 DEF Crash, Writing, WithCopy
  <1>4. CASE Lookup(w)
    <2>1. UNCHANGED authVars /\ pc[w] = "next"
      BY <1>4 DEF Lookup
    <2>2. PICK x \in list[w] : cur'[w].id = x.id /\ ~Done(x.data)
      BY <1>0, <1>4, <2>1, LookupMoves DEF Took, Passed, Writing, WithCopy
    <2>. QED
      BY <2>1, <2>2 DEF ListsFresh, Closed, Done, authVars
  <1>5. CASE Check(w)
    <2>1. UNCHANGED authVars /\ pc[w] = "next" /\ plan[w] = "check"
      BY <1>5 DEF Check
    <2>2. PICK x \in list[w] : cur'[w].id = x.id
      BY <1>0, <1>5, <2>1, CheckMoves DEF Took, Passed, Writing, WithCopy
    <2>. QED
      BY <2>1, <2>2 DEF ListsFresh, Closed, authVars
  <1>6. CASE Act(w)
    <2>1. UNCHANGED authVars
      BY <1>6 DEF Act
    <2>2. PICK x \in list[w] : cur'[w].id = x.id /\ pc'[w] = "actSave"
      BY <1>0, <1>6, ActMoves DEF Took
    <2>. QED
      BY <2>1, <2>2 DEF ListsFresh, authVars, Before
  <1>7. CASE FindChannelUserByUID(w) \/ CreateAirdrop(w)
    <2>1. UNCHANGED authVars /\ pc[w] \in Before /\ pc[w] \in Writing
      BY <1>7 DEF FindChannelUserByUID, CreateAirdrop, Before, Writing, WithCopy
    <2>2. cur'[w].id = cur[w].id
      BY <1>0, <1>7, FindChannelMoves, CreateMoves
    <2>. QED
      BY <2>1, <2>2 DEF CurLive, NotClosed, Closed, authVars
  <1>8. CASE DeleteUser(w) \/ SaveFindState(w) \/ Save(w) \/ SaveChannel(w) \/ ActSave(w)
    BY <1>0, <1>8, SaveMoves DEF Writing, WithCopy
  <1>9. CASE PlanEnds(w)
    BY <1>0, <1>9 DEF PlanEnds, Goto, Writing, WithCopy
  <1>. QED
    BY <1>1, <1>2, <1>3, <1>4, <1>5, <1>6, <1>7, <1>8, <1>9, PlansStay DEF Work

-----------------------------------------------------------------------------
(* One airdrop each. *)

\* A step inserts a row, or none.
LEMMA RowSteps ==
    ASSUME TInv, Next
    PROVE  \/ UNCHANGED airdrops
           \/ \E w \in Workers : /\ CreateAirdrop(w) /\ Insert(cur[w].data.UID)
                                 /\ Works \/ Fails
  <1>1. CASE \E l \in Logins : Login(l)
    BY <1>1
    DEF Login, FindByTwitterUserId, FindByUid, FindAirdropByUid, CreateUser, outsideVars
  <1>2. ASSUME NEW w \in Workers, Work(w), ~CreateAirdrop(w)
        PROVE  UNCHANGED airdrops
    BY <1>2
    DEF Work, PlanEnds, Lookup, DeleteUser, SaveFindState, Check, FindChannelUserByUID, Save,
        SaveChannel, UpdateCreateAirdrop, Act, ActSave, outsideVars
  <1>3. ASSUME NEW w \in Workers, CreateAirdrop(w)
        PROVE  \/ UNCHANGED airdrops
               \/ Insert(cur[w].data.UID) /\ (Works \/ Fails)
    BY <1>3 DEF CreateAirdrop, outsideVars
  <1>4. CASE \/ \E l \in Logins, u \in Uids, tw \in TwitterIds : Callback(l, u, tw)
             \/ \E w \in Workers, p \in Plans : Call(w, p)
             \/ \E u \in Uids : RegisterChannelUser(u)
             \/ Crash
    BY <1>4 DEF Callback, Call, RegisterChannelUser, Crash, outsideVars
  <1>. QED
    BY <1>1, <1>2, <1>3, <1>4 DEF Next

\* The copy at hand is of its user's document, which is live.
LEMMA CurDoc ==
    ASSUME IInv, CopiesHeld, CurLive, NEW w \in Workers, pc[w] \in Writing
    PROVE  /\ cur[w].id \in live /\ docs[cur[w].id].UID = cur[w].data.UID
           /\ docs[cur[w].id].TwitterUserId = cur[w].data.TwitterUserId
           /\ docs[cur[w].id] \in UserTwitterAuth /\ cur[w].data \in UserTwitterAuth
           /\ cur[w].data.UID \in Uids /\ cur[w].data.TwitterUserId \in TwitterIds
  <1>1. pc[w] \in WithCopy /\ cur[w].id \in live
    BY DEF Writing, CurLive
  <1>2. cur[w].data \in UserTwitterAuth /\ docs[cur[w].id] \in UserTwitterAuth
    BY <1>1, AtHand DEF IInv, DocsOK
  <1>. QED
    BY <1>1, <1>2 DEF CopiesHeld, CopyOf, SameHolder, UserTwitterAuth

\* A user whose airdrop is being created has none that counts.
LEMMA CreatesUnsettled ==
    ASSUME OnePlan, TInv, DInv, FreshInv, NEW w \in Workers, CreateAirdrop(w)
    PROVE  ~Settled(cur[w].data.UID)
  <1>1. pc[w] = "create" /\ pc[w] \in Before /\ pc[w] \in Writing
    BY DEF CreateAirdrop, Before, Writing, WithCopy
  <1>2. cur[w].id \in live /\ docs[cur[w].id].UID = cur[w].data.UID
    BY <1>1, CurDoc DEF TInv, DInv, FreshInv
  <1>3. ~Closed(docs[cur[w].id])
    BY <1>1 DEF FreshInv, NotClosed
  <1>4. \A v \in Workers : pc[v] # "save"
    BY <1>1 DEF OnePlan
  <1>. QED
    BY <1>2, <1>3, <1>4 DEF Settled

\* What the writes of a job leave alone.
LEMMA JobWrites ==
    ASSUME TInv, CopiesHeld, CurLive, NEW w \in Workers, SaveFindState(w) \/ ActSave(w)
    PROVE  LET c == cur[w].id
               old == docs[c]
               new == docs'[c]
           IN  /\ c \in live
               /\ new.IsAirdrop = old.IsAirdrop /\ new.ValidState = old.ValidState
               /\ \/ new.FindTwitterUserState = old.FindTwitterUserState
                  \/ /\ SaveFindState(w)
                     /\ new.FindTwitterUserState = cur[w].data.FindTwitterUserState
               /\ \/ new.SendTweeState = old.SendTweeState
                  \/ /\ ActSave(w) /\ plan[w] \in {"send", "reply"}
                     /\ old.SendTweeState = 1
                     /\ new.SendTweeState = cur[w].data.SendTweeState
               /\ ActSave(w) /\ plan[w] \in {"send", "reply"} /\ Works /\ old.SendTweeState = 1
                    => new.SendTweeState = cur[w].data.SendTweeState
  <1>. DEFINE c == cur[w].id
              old == docs[c]
              data == cur[w].data
  <1>0. IInv /\ (Fails => ~Works)
    BY DEF TInv, MInv, Fails, Works
  <1>1. pc[w] \in Writing
    BY DEF SaveFindState, ActSave, Writing, WithCopy
  <1>2. c \in live /\ c \in DOMAIN docs /\ old \in UserTwitterAuth
    BY <1>0, <1>1, CurDoc DEF IInv, DocsOK
  <1>3. ASSUME NEW new, Update(c, new)
        PROVE  docs'[c] = new
    BY <1>0, <1>2, <1>3, UpdateMoves
  <1>4. CASE UNCHANGED authVars /\ ~Works
    BY <1>2, <1>4 DEF authVars
  <1>5. CASE SaveFindState(w) /\ UpdateUserTwitterAuthFindState(cur[w])
    <2>1. docs'[c] = [old EXCEPT !.FindTwitterUserState = data.FindTwitterUserState]
      BY <1>3, <1>5 DEF UpdateUserTwitterAuthFindState
    <2>2. ~ActSave(w)
      BY <1>5 DEF SaveFindState, ActSave
    <2>. QED
      BY <1>2, <1>5, <2>1, <2>2 DEF UserTwitterAuth
  <1>6. CASE ActSave(w) /\ plan[w] \in {"send", "reply"} /\ UpdateUserTwitterAuthSendTweet(cur[w])
    <2>. DEFINE s == IF old.SendTweeState = 1 THEN data.SendTweeState ELSE old.SendTweeState
    <2>1. docs'[c] = [old EXCEPT !.SendTweeState = s]
      BY <1>2, <1>3, <1>6 DEF UpdateUserTwitterAuthSendTweet
    <2>. HIDE DEF s
    <2>2. /\ docs'[c].SendTweeState = s
          /\ docs'[c].IsAirdrop = old.IsAirdrop /\ docs'[c].ValidState = old.ValidState
          /\ docs'[c].FindTwitterUserState = old.FindTwitterUserState
      BY <1>2, <2>1 DEF UserTwitterAuth
    <2>. QED
      BY <1>2, <1>6, <2>2 DEF s
  <1>7. CASE ActSave(w) /\ plan[w] \notin {"send", "reply"} /\ UpdateUserTwitterAuthLikeTweet(cur[w])
    <2>. DEFINE s == IF old.LikeTweeState = 1 THEN data.LikeTweeState ELSE old.LikeTweeState
    <2>1. docs'[c] = [old EXCEPT !.LikeTweeState = s]
      BY <1>2, <1>3, <1>7 DEF UpdateUserTwitterAuthLikeTweet
    <2>. HIDE DEF s
    <2>. QED
      BY <1>2, <1>7, <2>1 DEF UserTwitterAuth
  <1>8. CASE ActSave(w) /\ plan[w] \notin {"send", "reply"} /\ UpdateUserTwitterAuthFollow(cur[w])
    <2>1. docs'[c] = [old EXCEPT !.FollowState = data.FollowState]
      BY <1>3, <1>8 DEF UpdateUserTwitterAuthFollow
    <2>. QED
      BY <1>2, <1>8, <2>1 DEF UserTwitterAuth
  <1>9. \/ UNCHANGED authVars /\ Fails
        \/ SaveFindState(w) /\ UpdateUserTwitterAuthFindState(cur[w])
        \/ ActSave(w) /\ plan[w] \in {"send", "reply"} /\ UpdateUserTwitterAuthSendTweet(cur[w])
        \/ ActSave(w) /\ plan[w] \notin {"send", "reply"} /\ UpdateUserTwitterAuthLikeTweet(cur[w])
        \/ ActSave(w) /\ plan[w] \notin {"send", "reply"} /\ UpdateUserTwitterAuthFollow(cur[w])
    BY DEF SaveFindState, ActSave
  <1>. QED
    BY <1>0, <1>4, <1>5, <1>6, <1>7, <1>8, <1>9

\* Save writes the copy, or its call fails.
LEMMA SaveWrites ==
    ASSUME IInv, CopiesHeld, CurLive, NEW w \in Workers, Save(w)
    PROVE  /\ pc[w] = "save" /\ cur[w].id \in live
           /\ docs'[cur[w].id] = cur[w].data \/ Fails
  <1>1. pc[w] = "save" /\ pc[w] \in Writing
    BY DEF Save, Writing, WithCopy
  <1>2. cur[w].id \in live /\ cur[w].id \in DOMAIN docs
    BY <1>1, CurDoc DEF IInv, DocsOK
  <1>3. Update(cur[w].id, cur[w].data) \/ Fails
    BY DEF Save, UpdateUserTwitterAuthTwitterUser
  <1>. QED
    BY <1>1, <1>2, <1>3, UpdateMoves

\* Who is settled stays settled while nothing fails.
LEMMA SettledStays ==
    ASSUME OneLogin, OnePlan, TInv, DInv, FreshInv, Next, ~Fails, ~Crash,
           NEW u \in Uids, airdrops[u] > 0, Settled(u)
    PROVE  Settled(u)'
  <1>. USE DEF FreshInv
  <1>0. IInv /\ CopiesHeld /\ UserIsNew
    BY DEF TInv, DInv
  <1>1. ASSUME NEW l \in Logins, pc'[l] = "new"
        PROVE  req'[l].UID # u
    <2>1. CASE pc[l] = "new"
      BY <1>1, <2>1, LoginMoves DEF Settled
    <2>2. CASE FindAirdropByUid(l)
      <3>1. airdrops[req[l].UID] > 0 => LoginEnds(l)
        BY <2>2 DEF FindAirdropByUid
      <3>2. ~LoginEnds(l)
        BY <1>0, <1>1 DEF LoginEnds, Goto, IInv, StepsOK
      <3>. QED
        BY <1>1, <3>1, <3>2, LoginMoves
    <2>. QED
      BY <1>1, <2>1, <2>2, LoginMoves
  <1>2. ASSUME NEW d \in live', docs'[d].UID = u
        PROVE  d \in live /\ docs[d].UID = u
    <2>1. CASE d \in live
      BY <1>0, <1>2, <2>1, HoldersStay DEF SameHolder, IInv, DocsOK
    <2>2. ASSUME NEW l \in Logins, Creates(l), d \notin live
          PROVE  FALSE
      <3>1. docs'[d].UID = req[l].UID /\ pc[l] = "new"
        BY <2>2 DEF Creates, NewDocument
      <3>. QED
        BY <1>2, <3>1 DEF Settled
    <2>. QED
      BY <1>0, <2>1, <2>2, LiveMoves
  <1>3. SUFFICES ASSUME NEW d \in live, d \in live', docs[d].UID = u
                 PROVE  \/ Closed(docs'[d])
                        \/ \E w \in Workers :
                              pc'[w] = "save" /\ cur'[w].id = d /\ Closed(cur'[w].data)
    BY <1>1, <1>2 DEF Settled, Closed
  <1>4. CASE \A w \in Workers : ~Work(w)
    <2>1. docs'[d] = docs[d]
      BY <1>0, <1>4, RestWrites DEF Creates, authVars
    <2>2. CASE Closed(docs[d])
      BY <2>1, <2>2
    <2>3. ASSUME NEW w \in Workers, pc[w] = "save", cur[w].id = d, Closed(cur[w].data)
          PROVE  pc'[w] = "save" /\ cur'[w].id = d /\ Closed(cur'[w].data)
      <3>1. PlanStays(w)
        BY <1>4, <2>3, PlansStay DEF Call
      <3>. QED
        BY <2>3, <3>1 DEF PlanStays
    <2>. QED
      BY <1>3, <2>2, <2>3 DEF Settled
  <1>5. ASSUME NEW w \in Workers, Work(w)
        PROVE  Closed(docs'[d])
    <2>1. \A v \in Workers : v = w
      BY DEF OnePlan
    <2>2. CASE Save(w)
      <3>1. CASE cur[w].id = d
        <4>1. ~Closed(docs[d])
          BY <2>2, <3>1 DEF NotClosed, Save, Before
        <4>2. Closed(cur[w].data)
          BY <1>3, <2>1, <3>1, <4>1 DEF Settled
        <4>. QED
          BY <1>0, <2>2, <3>1, <4>2, SaveWrites
      <3>2. CASE cur[w].id # d
        <4>1. Closed(docs[d])
          BY <1>3, <2>1, <3>2 DEF Settled
        <4>2. docs'[d] = docs[d]
          BY <1>0, <1>5, <3>2, WorkWrites DEF authVars
        <4>. QED
          BY <4>1, <4>2
      <3>. QED
        BY <3>1, <3>2
    <2>3. CASE ~Save(w)
      <3>1. Closed(docs[d])
        <4>1. CASE pc[w] = "save"
          BY <1>5, <2>3, <4>1
          DEF Work, PlanEnds, Lookup, DeleteUser, SaveFindState, Check, FindChannelUserByUID,
              CreateAirdrop, SaveChannel, Act, ActSave
        <4>. QED
          BY <1>3, <2>1, <4>1 DEF Settled
      <3>2. CASE docs'[d] = docs[d]
        BY <3>1, <3>2
      <3>3. CASE (SaveFindState(w) \/ ActSave(w)) /\ cur[w].id = d
        BY <1>0, <3>1, <3>3, JobWrites DEF Closed
      <3>. QED
        BY <1>0, <1>5, <2>3, <3>2, <3>3, WorkWrites DEF authVars
    <2>. QED
      BY <2>2, <2>3
  <1>. QED
    BY <1>4, <1>5

\* One more failure covers one more row.
LEMMA OneMore ==
    \A a, f1, c1, f2, c2 \in Nat :
        a <= 1 + f1 + c1 /\ f2 + c2 = f1 + c1 + 1 => a <= 1 + f2 + c2 /\ ~(a > f2 + c2)
  OBVIOUS

LEMMA RowsFewNext ==
    ASSUME OneLogin, OnePlan, TInv, DInv, FreshInv, RowsFew, Next
    PROVE  RowsFew'
  <1>. SUFFICES ASSUME NEW u \in Uids
                PROVE  /\ airdrops'[u] <= 1 + faults' + crashes'
                       /\ airdrops'[u] > faults' + crashes' => Settled(u)'
    BY DEF RowsFew
  <1>0. /\ airdrops \in [Uids -> Nat]
        /\ faults \in Nat /\ crashes \in Nat /\ faults' \in Nat /\ crashes' \in Nat
        /\ faults' >= faults /\ crashes' >= crashes
    BY FaultsGrow DEF TInv, IInv, OutsideOK
  <1>1. /\ airdrops[u] \in Nat
        /\ airdrops[u] <= 1 + faults + crashes
        /\ airdrops[u] > faults + crashes => Settled(u)
    BY <1>0 DEF RowsFew
  <1>4. Fails \/ Crash => faults' + crashes' = faults + crashes + 1
    BY FaultsGrow
  <1>5. airdrops[u] \in Nat /\ airdrops[u] <= 1 + faults + crashes
    BY <1>1
  <1>2. CASE airdrops'[u] = airdrops[u]
    <2>1. CASE Fails \/ Crash
      <3>0. faults' + crashes' = faults + crashes + 1
        BY <1>4, <2>1
      <3>1. /\ airdrops'[u] <= 1 + faults' + crashes'
            /\ ~(airdrops'[u] > faults' + crashes')
        BY <1>0, <1>5, <1>2, <3>0, OneMore
      <3>. QED
        BY <3>1
    <2>2. CASE ~Fails /\ ~Crash
      <3>1. airdrops[u] > faults + crashes => Settled(u)'
        BY <1>0, <1>1, <2>2, SettledStays
      <3>. QED
        BY <1>0, <1>1, <1>2, <3>1
    <2>. QED
      BY <2>1, <2>2
  <1>3. ASSUME NEW w \in Workers, CreateAirdrop(w), Insert(cur[w].data.UID),
               u = cur[w].data.UID
        PROVE  /\ airdrops'[u] <= 1 + faults' + crashes'
               /\ airdrops'[u] > faults' + crashes' => Settled(u)'
    <2>1. /\ airdrops'[u] = airdrops[u] + 1 /\ airdrops[u] <= faults + crashes
          /\ airdrops[u] \in Nat
      BY <1>0, <1>1, <1>3, CreatesUnsettled DEF Insert
    <2>2. CASE Fails
      <3>0. faults' + crashes' = faults + crashes + 1
        BY <1>4, <2>2
      <3>1. /\ airdrops'[u] <= 1 + faults' + crashes'
            /\ ~(airdrops'[u] > faults' + crashes')
        <4>1. airdrops'[u] \in Nat /\ airdrops'[u] <= 1 + faults + crashes
          BY <1>0, <2>1
        <4>. QED
          BY <1>0, <3>0, <4>1, OneMore
      <3>. QED
        BY <3>1
    <2>3. CASE ~Fails
      <3>1. Settled(u)'
        <4>0. IInv /\ CopiesHeld /\ UserIsNew /\ CurLive /\ DOMAIN pc = Workers \cup Logins
          BY DEF TInv, DInv, FreshInv, IInv, StepsOK
        <4>1. pc[w] = "create" /\ pc[w] \in Writing /\ UNCHANGED <<authVars, req>>
          BY <1>3 DEF CreateAirdrop, Writing, WithCopy
        <4>2. /\ cur[w].id \in live /\ docs[cur[w].id].UID = u
              /\ cur[w].data \in UserTwitterAuth
          BY <1>3, <4>0, <4>1, CurDoc
        <4>3. /\ pc'[w] = "save" /\ cur'[w].id = cur[w].id
              /\ cur'[w].data = Granted(cur[w].data)
          BY <1>3, <2>3, <4>0, CreateMoves
        <4>4. Closed(cur'[w].data)
          BY <4>2, <4>3, GrantedFields
        <4>5. ASSUME NEW d \in live', docs'[d].UID = u
              PROVE  d = cur[w].id
          BY <4>1, <4>2, <4>5 DEF DInv, OneEach, authVars
        <4>6. ASSUME NEW l \in Logins, pc'[l] = "new"
              PROVE  req'[l].UID # u
          <5>1. pc[l] = "new" /\ req[l] = req'[l]
            BY <1>3, <4>0, <4>1, <4>6, ProcsAssumption DEF CreateAirdrop, Goto
          <5>. QED
            BY <4>0, <4>2, <5>1 DEF UserIsNew
        <4>. QED
          BY <4>3, <4>4, <4>5, <4>6 DEF Settled, Closed
      <3>. QED
        BY <1>0, <2>1, <3>1
    <2>. QED
      BY <2>2, <2>3
  <1>. QED
    BY <1>0, <1>2, <1>3, RowSteps DEF Insert

\* What holds while plans come one after the other as well.
SerialInv == FreshInv /\ RowsFew

LEMMA SerialInit == Init => SerialInv
  <1>. SUFFICES ASSUME Init PROVE SerialInv
    OBVIOUS
  <1>1. /\ \A w \in Workers : pc[w] = "idle" /\ list[w] = {}
        /\ airdrops = [u \in Uids |-> 0] /\ faults = 0 /\ crashes = 0
    BY DEF Init
  <1>. QED
    BY <1>1
    DEF SerialInv, FreshInv, ListsFresh, CurLive, NotClosed, RowsFew, Writing, WithCopy, Before

LEMMA SerialNext ==
    ASSUME OneLogin, OnePlan
    PROVE  DocInv /\ SerialInv /\ [Next]_vars => SerialInv'
  <1>. SUFFICES ASSUME TInv, DInv, FreshInv, RowsFew, [Next]_vars PROVE SerialInv'
    BY DEF DocInv, SerialInv
  <1>1. CASE UNCHANGED vars
    BY <1>1
    DEF vars, authVars, outsideVars, workerVars, SerialInv, FreshInv, ListsFresh, CurLive,
        NotClosed, RowsFew, Settled, Closed
  <1>2. CASE Next
    BY <1>2, ListsFreshNext, CurLiveNext, RowsFewNext DEF SerialInv, FreshInv
  <1>. QED
    BY <1>1, <1>2

LEMMA SerialHolds ==
    ASSUME OneLogin, OnePlan
    PROVE  Spec => [](DocInv /\ SerialInv)
  <1>1. DocInv /\ SerialInv /\ [Next]_vars => SerialInv'
    BY SerialNext
  <1>. QED
    BY <1>1, SerialInit, DocsHeld, PTL DEF Spec

\* While plans come one after the other, and logins too, a user gets one airdrop, and
\* one more for each update that failed and each crash: the lookup and the check plan
\* create a second one only for a document that does not say yet that it has one.
THEOREM AirdropsAreSingle ==
    ASSUME OneLogin, OnePlan
    PROVE  Spec => []OneAirdropEach
  <1>1. SerialInv => OneAirdropEach
    BY DEF SerialInv, RowsFew, OneAirdropEach
  <1>. QED
    BY <1>1, SerialHolds, PTL

-----------------------------------------------------------------------------
(* A tweet that is pending was not sent, while nothing fails. *)

NothingFailed == faults = 0 /\ crashes = 0

\* A plan that saves the answer to its tweet.
Answering(d) ==
    \E w \in Workers :
        /\ pc[w] = "actSave" /\ cur[w].id = d
        /\ plan[w] \in {"send", "reply"} /\ cur[w].data.SendTweeState # 1

\* An account that posted has a document, no tweet is asked for before the look-up,
\* and a document that is looked up is not checked.
PostedOK ==
    /\ \A tw \in posted : Holders(tw) # {}
    /\ \A d \in live :
          /\ docs[d].FindTwitterUserState = 1 =>
                docs[d].SendTweeState = 0 /\ docs[d].ValidState # 4
          /\ docs[d].TwitterUserId \in posted => docs[d].SendTweeState # 0
          /\ docs[d].TwitterUserId \in posted /\ docs[d].SendTweeState = 1 => Answering(d)

\* What a plan is going to write to its document.
AnswersOK ==
    \A w \in Workers :
        /\ pc[w] \in Before =>
              /\ cur[w].data.FindTwitterUserState # 1
              /\ \/ docs[cur[w].id].SendTweeState = 0
                 \/ cur[w].data.SendTweeState = docs[cur[w].id].SendTweeState
        /\ pc[w] = "findState" => cur[w].data.FindTwitterUserState # 1
        /\ pc[w] = "delete" => docs[cur[w].id].FindTwitterUserState = 1
        /\ pc[w] = "actSave" /\ plan[w] \in {"send", "reply"} =>
              cur[w].data.SendTweeState \notin {0, 1}

SentInv == NothingFailed => PostedOK /\ AnswersOK

LEMMA AnswersNext ==
    ASSUME OnePlan, TInv, DInv, FreshInv, PostedOK, AnswersOK, Next, ~Fails, ~Crash
    PROVE  AnswersOK'
  <1>. SUFFICES ASSUME NEW w \in Workers,
                       pc'[w] \in Before \cup {"findState", "delete", "actSave"}
                PROVE  /\ pc'[w] \in Before =>
                             /\ cur'[w].data.FindTwitterUserState # 1
                             /\ \/ docs'[cur'[w].id].SendTweeState = 0
                                \/ cur'[w].data.SendTweeState = docs'[cur'[w].id].SendTweeState
                       /\ pc'[w] = "findState" => cur'[w].data.FindTwitterUserState # 1
                       /\ pc'[w] = "delete" => docs'[cur'[w].id].FindTwitterUserState = 1
                       /\ pc'[w] = "actSave" /\ plan'[w] \in {"send", "reply"} =>
                             cur'[w].data.SendTweeState \notin {0, 1}
    BY DEF AnswersOK
  <1>. USE DEF FreshInv
  <1>0. IInv /\ DOMAIN pc = Workers \cup Logins
    BY DEF TInv, IInv, StepsOK
  <1>1. CASE PlanStays(w) /\ ~Work(w)
    <2>1. pc[w] \in Writing
      BY <1>1 DEF PlanStays, Writing, WithCopy, Before
    <2>2. docs'[cur[w].id] = docs[cur[w].id]
      BY <1>1, <2>1, KnownStay DEF CurLive, DInv
    <2>. QED
      BY <1>1, <2>2 DEF PlanStays, AnswersOK
  <1>2. ASSUME NEW p \in Plans, Call(w, p), ~PlanStays(w)
        PROVE  FALSE
    BY <1>0, <1>2 DEF Call, Goto, Before
  <1>3. CASE Lookup(w)
    <2>1. UNCHANGED <<authVars, plan>> /\ pc[w] = "next" /\ plan[w] = "lookup"
      BY <1>3 DEF Lookup
    <2>2. PICK x \in list[w] :
             \/ Took(w, x, "channel") /\ cur'[w].data.FindTwitterUserState = 2
             \/ Took(w, x, "findState") /\ cur'[w].data.FindTwitterUserState = 3
             \/ Took(w, x, "delete")
      BY <1>0, <1>3, <2>1, LookupMoves DEF Passed, Before
    <2>3. /\ x.id \in live /\ docs[x.id].FindTwitterUserState = 1
          /\ docs[x.id].SendTweeState = 0
      BY <2>1 DEF ListsFresh, PostedOK
    <2>4. /\ cur'[w].id = x.id /\ docs'[x.id] = docs[x.id]
          /\ pc'[w] \in {"channel", "findState", "delete"}
      BY <2>1, <2>2 DEF Took, authVars
    <2>. QED
      BY <2>2, <2>3, <2>4 DEF Took, Before
  <1>4. CASE Check(w)
    <2>1. UNCHANGED <<authVars, plan>> /\ pc[w] = "next" /\ plan[w] = "check"
      BY <1>4 DEF Check
    <2>2. PICK x \in list[w] :
             /\ Took(w, x, "channel") \/ Took(w, x, "save")
             /\ cur'[w].data.FindTwitterUserState = x.data.FindTwitterUserState
             /\ cur'[w].data.SendTweeState = x.data.SendTweeState
      BY <1>0, <1>4, <2>1, CheckMoves DEF Passed, Before
    <2>3. x.data = docs[x.id] /\ x.data.FindTwitterUserState # 1
      BY <2>1 DEF ListsFresh, PostedOK
    <2>4. /\ cur'[w].id = x.id /\ docs'[x.id] = docs[x.id]
          /\ pc'[w] \in {"channel", "save"}
      BY <2>1, <2>2 DEF Took, authVars
    <2>. QED
      BY <2>2, <2>3, <2>4
  <1>5. CASE Act(w)
    <2>1. UNCHANGED plan
      BY <1>5 DEF Act
    <2>. QED
      BY <1>0, <1>5, <2>1, ActMoves DEF Took, Before
  <1>6. CASE FindChannelUserByUID(w)
    <2>1. UNCHANGED authVars
      BY <1>6 DEF FindChannelUserByUID
    <2>. QED
      BY <1>0, <1>6, <2>1, FindChannelMoves DEF AnswersOK, Before, authVars
  <1>7. CASE CreateAirdrop(w)
    <2>1. UNCHANGED authVars /\ pc[w] = "create" /\ cur[w].data \in UserTwitterAuth
      BY <1>0, <1>7, AtHand DEF CreateAirdrop, WithCopy
    <2>2. /\ pc'[w] = "save" /\ cur'[w].id = cur[w].id
          /\ cur'[w].data = Granted(cur[w].data)
      BY <1>0, <1>7, CreateMoves
    <2>3. docs'[cur'[w].id] = docs[cur[w].id]
      BY <2>1, <2>2 DEF authVars
    <2>4. /\ cur[w].data.FindTwitterUserState # 1
          /\ \/ docs[cur[w].id].SendTweeState = 0
             \/ cur[w].data.SendTweeState = docs[cur[w].id].SendTweeState
      BY <2>1 DEF AnswersOK, Before
    <2>. QED
      BY <2>1, <2>2, <2>3, <2>4, GrantedFields
  <1>8. CASE DeleteUser(w) \/ SaveFindState(w) \/ Save(w) \/ SaveChannel(w) \/ ActSave(w)
    BY <1>0, <1>8, SaveMoves DEF Before
  <1>9. CASE PlanEnds(w)
    BY <1>0, <1>9 DEF PlanEnds, Goto, Before
  <1>. QED
    BY <1>1, <1>2, <1>3, <1>4, <1>5, <1>6, <1>7, <1>8, <1>9, PlansStay DEF Work

\* No account gains a document or a post, and every document is as before, or is right.
LEMMA PostedKept ==
    ASSUME TInv, CopiesHeld, PostedOK, Next, posted' = posted, live' = live,
           \A e \in live :
              \/ docs'[e] = docs[e] /\ ~Answering(e)
              \/ /\ docs'[e].FindTwitterUserState = 1 =>
                       docs'[e].SendTweeState = 0 /\ docs'[e].ValidState # 4
                 /\ docs[e].TwitterUserId \in posted => docs'[e].SendTweeState \notin {0, 1}
    PROVE  PostedOK'
  <1>1. \A e \in live : docs'[e].TwitterUserId = docs[e].TwitterUserId
    BY HoldersStay DEF SameHolder, TInv, IInv, DocsOK
  <1>2. \A tw : Holders(tw)' = Holders(tw)
    BY <1>1 DEF Holders
  <1>. QED
    BY <1>1, <1>2 DEF PostedOK

\* While nothing failed, an account has one document.
LEMMA OneHolder ==
    ASSUME TInv, DInv, NothingFailed, NEW d \in live, NEW e \in live,
           docs[d].TwitterUserId = docs[e].TwitterUserId
    PROVE  d = e
  <1>. DEFINE tw == docs[d].TwitterUserId
  <1>0. docs[d] \in UserTwitterAuth
    BY DEF TInv, IInv, DocsOK
  <1>1. tw \in TwitterIds
    BY <1>0 DEF UserTwitterAuth
  <1>2. d \in Holders(tw) /\ e \in Holders(tw)
    BY DEF Holders
  <1>. HIDE DEF tw
  <1>3. /\ IsFiniteSet(Holders(tw)) /\ Cardinality(Holders(tw)) \in Nat
        /\ Cardinality(Holders(tw)) <= 1
    BY <1>1, HoldersCount DEF HoldersFinite, TInv, DInv, HoldersFew, NothingFailed
  <1>4. Cardinality(Holders(tw)) = 1
    BY <1>2, <1>3, FS_EmptySet
  <1>. QED
    BY <1>2, <1>3, <1>4, FS_Singleton

\* The steps of a plan.
LEMMA PostedWork ==
    ASSUME OnePlan, TInv, DInv, FreshInv, NothingFailed, PostedOK, AnswersOK, Next,
           Works, ~Fails, NEW w \in Workers, Work(w)
    PROVE  PostedOK'
  <1>. USE DEF FreshInv
  <1>. DEFINE c == cur[w].id
  <1>0. /\ IInv /\ DocsOK /\ CopiesHeld /\ DOMAIN pc = Workers \cup Logins
        /\ \A v \in Workers : v = w
    BY DEF TInv, DInv, IInv, StepsOK, OnePlan
  <1>1. ASSUME pc[w] # "actSave", NEW d PROVE ~Answering(d)
    BY <1>0, <1>1 DEF Answering
  <1>2. CASE UNCHANGED <<authVars, posted>> /\ pc[w] # "actSave"
    BY <1>0, <1>1, <1>2, PostedKept DEF authVars
  <1>3. CASE Act(w)
    <2>1. UNCHANGED <<authVars, plan>> /\ pc[w] = "next"
      BY <1>3 DEF Act
    <2>2. PICK x \in list[w] :
             /\ Took(w, x, "actSave")
             /\ IF plan[w] \in {"send", "reply"}
                THEN /\ cur'[w].data.SendTweeState \notin {0, 1}
                     /\ posted' \in {posted, posted \cup {x.data.TwitterUserId}}
                ELSE posted' = posted
      BY <1>0, <1>3, ActMoves
    <2>3. CASE posted' = posted
      BY <1>2, <2>1, <2>3
    <2>4. ASSUME plan[w] \in {"send", "reply"},
                 posted' = posted \cup {x.data.TwitterUserId}
          PROVE  PostedOK'
      <3>1. x.id \in live /\ x.data = docs[x.id] /\ docs[x.id].SendTweeState = 1
        BY <2>4 DEF ListsFresh
      <3>2. /\ pc'[w] = "actSave" /\ cur'[w].id = x.id /\ plan'[w] \in {"send", "reply"}
            /\ cur'[w].data.SendTweeState # 1
        BY <2>1, <2>2, <2>4 DEF Took
      <3>3. Answering(x.id)'
        BY <3>2 DEF Answering
      <3>4. \A tw \in posted' : Holders(tw) # {}
        BY <2>4, <3>1 DEF PostedOK, Holders
      <3>5. ASSUME NEW d \in live
            PROVE  /\ docs[d].TwitterUserId \in posted' => docs[d].SendTweeState # 0
                   /\ docs[d].TwitterUserId \in posted' /\ docs[d].SendTweeState = 1
                        => Answering(d)'
        <4>1. CASE docs[d].TwitterUserId = docs[x.id].TwitterUserId
          <5>1. d = x.id
            BY <3>1, <4>1, OneHolder
          <5>. QED
            BY <3>1, <3>3, <5>1
        <4>2. CASE docs[d].TwitterUserId # docs[x.id].TwitterUserId
          BY <1>1, <2>1, <2>4, <3>1, <4>2 DEF PostedOK
        <4>. QED
          BY <4>1, <4>2
      <3>. QED
        BY <2>1, <3>4, <3>5 DEF PostedOK, Holders, authVars
    <2>. QED
      BY <2>2, <2>3, <2>4
  <1>4. CASE DeleteUser(w)
    <2>1. /\ pc[w] = "delete" /\ pc[w] \in Writing /\ posted' = posted
      BY <1>4 DEF DeleteUser, Writing, WithCopy, outsideVars
    <2>2. c \in live /\ docs[c].SendTweeState = 0
      BY <1>0, <2>1, CurDoc DEF AnswersOK, PostedOK
    <2>3. docs' = docs /\ live' = live \ {c}
      BY <1>4 DEF DeleteUser, DeleteUserTwitterAuthByID
    <2>4. \A tw \in posted : c \notin Holders(tw)
      BY <2>2 DEF PostedOK, Holders
    <2>5. \A tw \in posted' : Holders(tw)' # {}
      BY <2>1, <2>3, <2>4 DEF PostedOK, Holders
    <2>. QED
      BY <1>1, <2>1, <2>3, <2>5 DEF PostedOK
  <1>5. CASE SaveFindState(w)
    <2>1. pc[w] = "findState" /\ pc[w] \in Writing /\ posted' = posted
      BY <1>5 DEF SaveFindState, Writing, WithCopy, outsideVars
    <2>2. ~ActSave(w)
      BY <2>1 DEF ActSave
    <2>3. /\ c \in live
          /\ docs'[c].SendTweeState = docs[c].SendTweeState
          /\ docs'[c].ValidState = docs[c].ValidState
          /\ \/ docs'[c].FindTwitterUserState = docs[c].FindTwitterUserState
             \/ docs'[c].FindTwitterUserState = cur[w].data.FindTwitterUserState
      BY <1>0, <1>5, <2>2, JobWrites
    <2>4. /\ docs'[c].FindTwitterUserState = 1 =>
                docs'[c].SendTweeState = 0 /\ docs'[c].ValidState # 4
          /\ docs[c].TwitterUserId \in posted => docs'[c].SendTweeState \notin {0, 1}
      BY <1>1, <2>1, <2>3 DEF PostedOK, AnswersOK
    <2>5. live' = live /\ \A e \in live : e # c => docs'[e] = docs[e]
      BY <1>0, <1>5, <2>1, WorkWrites DEF authVars, DeleteUser
    <2>. QED
      BY <1>0, <1>1, <2>1, <2>4, <2>5, PostedKept
  <1>6. CASE Save(w)
    <2>1. pc[w] = "save" /\ pc[w] \in Before /\ posted' = posted
      BY <1>6 DEF Save, Before, outsideVars
    <2>2. c \in live /\ docs'[c] = cur[w].data
      BY <1>0, <1>6, SaveWrites
    <2>3. /\ docs'[c].FindTwitterUserState # 1
          /\ docs[c].TwitterUserId \in posted => docs'[c].SendTweeState \notin {0, 1}
      BY <1>1, <2>1, <2>2 DEF PostedOK, AnswersOK
    <2>4. live' = live /\ \A e \in live : e # c => docs'[e] = docs[e]
      BY <1>0, <1>6, <2>1, WorkWrites DEF authVars, DeleteUser
    <2>. QED
      BY <1>0, <1>1, <2>1, <2>3, <2>4, PostedKept
  <1>7. CASE ActSave(w)
    <2>1. pc[w] = "actSave" /\ pc[w] \in Writing /\ posted' = posted
      BY <1>7 DEF ActSave, Writing, WithCopy, outsideVars
    <2>2. ~SaveFindState(w)
      BY <2>1 DEF SaveFindState
    <2>3. /\ c \in live
          /\ docs'[c].FindTwitterUserState = docs[c].FindTwitterUserState
          /\ docs'[c].ValidState = docs[c].ValidState
          /\ \/ docs'[c].SendTweeState = docs[c].SendTweeState
             \/ plan[w] \in {"send", "reply"} /\ docs[c].SendTweeState = 1
          /\ plan[w] \in {"send", "reply"} /\ docs[c].SendTweeState = 1 =>
                docs'[c].SendTweeState = cur[w].data.SendTweeState
      BY <1>0, <1>7, <2>2, JobWrites
    <2>4. plan[w] \in {"send", "reply"} => cur[w].data.SendTweeState \notin {0, 1}
      BY <2>1 DEF AnswersOK
    <2>5. plan[w] \notin {"send", "reply"} => ~Answering(c)
      BY <1>0 DEF Answering
    <2>6. /\ docs'[c].FindTwitterUserState = 1 =>
                docs'[c].SendTweeState = 0 /\ docs'[c].ValidState # 4
          /\ docs[c].TwitterUserId \in posted => docs'[c].SendTweeState \notin {0, 1}
      BY <2>3, <2>4, <2>5 DEF PostedOK
    <2>7. live' = live /\ \A e \in live : e # c => docs'[e] = docs[e]
      BY <1>0, <1>7, <2>1, WorkWrites DEF authVars, DeleteUser
    <2>8. \A e : e # c => ~Answering(e)
      BY <1>0 DEF Answering
    <2>. QED
      BY <1>0, <2>1, <2>6, <2>7, <2>8, PostedKept
  <1>8. CASE Lookup(w) \/ Check(w) \/ PlanEnds(w) \/ FindChannelUserByUID(w)
             \/ CreateAirdrop(w) \/ SaveChannel(w)
    <2>1. UNCHANGED <<authVars, posted>> /\ pc[w] # "actSave"
      BY <1>8
      DEF Lookup, Check, PlanEnds, FindChannelUserByUID, CreateAirdrop, Insert, SaveChannel,
          UpdateCreateAirdrop, outsideVars
    <2>. QED
      BY <1>2, <2>1
  <1>. QED
    BY <1>3, <1>4, <1>5, <1>6, <1>7, <1>8 DEF Work

\* The steps of a login, and all others.
LEMMA PostedRest ==
    ASSUME TInv, DInv, NothingFailed, PostedOK, Next, ~Crash, \A w \in Workers : ~Work(w)
    PROVE  PostedOK'
  <1>1. posted' = posted
    <2>1. CASE \E l \in Logins : Login(l)
      BY <2>1
      DEF Login, FindByTwitterUserId, FindByUid, FindAirdropByUid, CreateUser, outsideVars
    <2>. QED
      BY <2>1 DEF Next, Callback, Call, RegisterChannelUser, outsideVars
  <1>2. ASSUME NEW d, Answering(d) PROVE Answering(d)'
    <2>1. PICK w \in Workers : /\ pc[w] = "actSave" /\ cur[w].id = d
                               /\ plan[w] \in {"send", "reply"}
                               /\ cur[w].data.SendTweeState # 1
      BY <1>2 DEF Answering
    <2>2. PlanStays(w)
      BY <2>1, PlansStay DEF Call
    <2>. QED
      BY <2>1, <2>2 DEF Answering, PlanStays
  <1>3. CASE UNCHANGED authVars
    BY <1>1, <1>2, <1>3 DEF PostedOK, Holders, authVars
  <1>4. ASSUME NEW l \in Logins, Creates(l)
        PROVE  PostedOK'
    <2>. DEFINE r == req[l]
                n == Len(docs) + 1
                new == NewDocument(r)
    <2>0. IInv /\ r \in Request
      BY <1>4 DEF TInv, Creates
    <2>1. r.TwitterUserId \notin posted
      <3>1. Cardinality(Others(r)) <= 0
        BY <1>4 DEF DInv, OthersFew, Creates, NothingFailed
      <3>2. Others(r) \subseteq Holders(r.TwitterUserId)
        BY DEF Others
      <3>. HIDE DEF r
      <3>3. Others(r) = {}
        BY <2>0, <3>1, <3>2, HoldersCount, FS_EmptySet DEF HoldersFinite
      <3>4. \A d \in live : docs[d].UID # r.UID
        BY <1>4 DEF DInv, UserIsNew, Creates, r
      <3>5. Holders(r.TwitterUserId) = {}
        BY <3>3, <3>4 DEF Others, Holders
      <3>. QED
        BY <3>5 DEF PostedOK
    <2>2. /\ new.TwitterUserId = r.TwitterUserId /\ new.FindTwitterUserState = 1
          /\ new.SendTweeState = 0 /\ new.ValidState = 0
      BY DEF NewDocument
    <2>3. /\ live' = live \cup {n} /\ docs'[n] = new
          /\ \A d \in live : docs'[d] = docs[d]
      BY <1>4 DEF Creates
    <2>. HIDE DEF n, new, r
    <2>4. \A tw : Holders(tw) \subseteq Holders(tw)'
      BY <2>3 DEF Holders
    <2>5. \A d \in live' : d \in live \/ d = n
      BY <2>3
    <2>. QED
      BY <1>1, <1>2, <2>1, <2>2, <2>3, <2>4, <2>5 DEF PostedOK
  <1>. QED
    BY <1>3, <1>4, RestWrites DEF DInv

LEMMA SentNext ==
    ASSUME OneLogin, OnePlan
    PROVE  DocInv /\ SerialInv /\ SentInv /\ [Next]_vars => SentInv'
  <1>. SUFFICES ASSUME TInv, DInv, FreshInv, SentInv, [Next]_vars, NothingFailed'
                PROVE  PostedOK' /\ AnswersOK'
    BY DEF DocInv, SerialInv, SentInv
  <1>1. CASE UNCHANGED vars
    BY <1>1
    DEF vars, authVars, outsideVars, workerVars, SentInv, PostedOK, AnswersOK, Answering,
        Holders, NothingFailed
  <1>2. CASE Next
    <2>1. NothingFailed /\ ~Fails /\ ~Crash
      BY <1>2, FaultsGrow DEF NothingFailed
    <2>2. PostedOK /\ AnswersOK /\ Works
      BY <1>2, <2>1, Counts DEF SentInv
    <2>. QED
      BY <1>2, <2>1, <2>2, PostedWork, PostedRest, AnswersNext
  <1>. QED
    BY <1>1, <1>2

\* While plans come one after the other, and logins too, and nothing fails, a tweet
\* that is pending was not sent, but by the plan that is about to say so: an account
\* is tweeted for once.
THEOREM PendingTweetsUnsent ==
    ASSUME OneLogin, OnePlan
    PROVE  Spec => []PendingIsUnsent
  <1>1. Init => SentInv
    BY DEF Init, AuthsInit, SentInv, PostedOK, AnswersOK, Before
  <1>2. DocInv /\ SerialInv /\ SentInv /\ [Next]_vars => SentInv'
    BY SentNext
  <1>3. SentInv => PendingIsUnsent
    BY DEF SentInv, NothingFailed, PostedOK, Answering, PendingIsUnsent
  <1>. QED
    BY <1>1, <1>2, <1>3, SerialHolds, PTL DEF Spec

=============================================================================
