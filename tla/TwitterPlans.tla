---------------------------- MODULE TwitterPlans ----------------------------
(***************************************************************************)
(* The Twitter login (TwitterCallback of app/services/user_twitter) and    *)
(* the plans of plan.go: jobs that a scheduler outside the repository      *)
(* calls, and that look logged-in users up on Twitter, check, tweet, like, *)
(* reply and follow for them.  The lookup and the check plan create the    *)
(* rows of "airdrops" that the Twitter dispatcher pays, and validate the   *)
(* channel users that the channel dispatcher pays for.                     *)
(*                                                                         *)
(* A plan reads a list of documents, then handles one copy after the       *)
(* other: a call to Twitter, and writes to the database.  Nothing keeps    *)
(* two plans, or two calls of one plan, from running at the same time.     *)
(***************************************************************************)
EXTENDS TwitterAuths
LOCAL INSTANCE FiniteSetsExt

CONSTANTS
    Workers,     \* the goroutines that run plans
    Logins,      \* the goroutines that run TwitterCallback
    Plans,       \* the plans the scheduler calls
    ListNum,     \* the limit of a list (lookupUserNum, sendTweetNum, ...)
    MaxDocs,     \* bound: no login starts when so many documents were created
    MaxFaults,   \* bound: database calls that fail
    MaxCrashes   \* bound: crashes of the process

ASSUME PlansAssumption ==
    Plans \subseteq {"lookup", "check", "send", "reply", "like", "follow"}
ASSUME ProcsAssumption == Workers \cap Logins = {}
ASSUME LimitsAssumption ==
    ListNum \in Nat /\ MaxDocs \in Nat /\ MaxFaults \in Nat /\ MaxCrashes \in Nat

VARIABLES
    airdrops,   \* airdrops[u]: the rows of user u in "airdrops"
    chanValid,  \* chanValid[u]: the valid state of the channel user of u, if there is one
    posted,     \* the accounts in whose name Twitter has a retweet or reply
    pc,         \* pc[w], pc[l]: the next step of a plan or login
    plan,       \* plan[w]: the plan w runs
    list,       \* list[w]: the copies left in its loop
    cur,        \* cur[w]: the copy at hand, with what was computed for it
    req,        \* req[l]: the login l serves
    faults, crashes

outsideVars == <<airdrops, chanValid, posted>>
workerVars == <<plan, list, cur>>
vars == <<authVars, outsideVars, pc, workerVars, req, faults, crashes>>

NoRequest == [UID |-> 0, TwitterUserId |-> 0]

\* The copy at hand, as it has to become; do_channeluser; is an airdrop wanted?
Current == [id : Nat, data : UserTwitterAuth, doChannel : BOOLEAN, create : BOOLEAN]

NoCurrent == [id |-> 0, doChannel |-> FALSE, create |-> FALSE]

\* Every variable holds a value of its kind.
TypeOK ==
    /\ AuthsTypeOK
    /\ airdrops \in [Uids -> Nat]
    /\ chanValid \in [Uids -> {"none", "default", "success", "failed"}]
    /\ posted \subseteq TwitterIds
    /\ pc \in [Workers \cup Logins ->
                 {"idle", "next", "channel", "create", "save", "saveChannel", "findState",
                  "delete", "actSave", "byTwitter", "byUid", "airdrop", "new"}]
    /\ plan \in [Workers -> Plans \cup {"none"}]
    /\ list \in [Workers -> SUBSET [id : DOMAIN docs, data : UserTwitterAuth]]
    /\ \A w \in Workers : cur[w] = NoCurrent \/ cur[w] \in Current
    /\ req \in [Logins -> [UID : Uids, TwitterUserId : TwitterIds] \cup {NoRequest}]
    /\ faults \in Nat
    /\ crashes \in Nat

Init ==
    /\ AuthsInit
    /\ airdrops = [u \in Uids |-> 0]
    /\ chanValid = [u \in Uids |-> "none"]
    /\ posted = {}
    /\ pc = [p \in Workers \cup Logins |-> "idle"]
    /\ plan = [w \in Workers |-> "none"]
    /\ list = [w \in Workers |-> {}]
    /\ cur = [w \in Workers |-> NoCurrent]
    /\ req = [l \in Logins |-> NoRequest]
    /\ faults = 0 /\ crashes = 0

Goto(p, l) == pc' = [pc EXCEPT ![p] = l]

Works == UNCHANGED <<faults, crashes>>
Fails == faults < MaxFaults /\ faults' = faults + 1 /\ UNCHANGED crashes

-----------------------------------------------------------------------------
(* TwitterCallback. *)

\* Twitter confirms that user u holds the account tw.
Callback(l, u, tw) ==
    /\ pc[l] = "idle"
    /\ Len(docs) < MaxDocs
    /\ req' = [req EXCEPT ![l] = [UID |-> u, TwitterUserId |-> tw]]
    /\ Goto(l, "byTwitter")
    /\ UNCHANGED <<authVars, outsideVars, workerVars>>
    /\ Works

LoginEnds(l) == Goto(l, "idle") /\ req' = [req EXCEPT ![l] = NoRequest]

LoginGoesOn(l, to) == Goto(l, to) /\ UNCHANGED req

\* Mutant: the account is not looked for.
FindByTwitterUserId_Skipped(l) ==
    /\ pc[l] = "byTwitter"
    /\ UNCHANGED <<authVars, outsideVars, workerVars>>
    /\ Works /\ LoginGoesOn(l, "byUid")

\* The account is another user's: the login ends, by a redirect, or by a panic when
\* that user was not looked up yet; behind gRPC the panic is a Crash.  An error of
\* this call is not looked at.
FindByTwitterUserId(l) ==
    /\ pc[l] = "byTwitter"
    /\ UNCHANGED <<authVars, outsideVars, workerVars>>
    /\ LET found == FindUserTwitterAuth({d \in live : docs[d].TwitterUserId = req[l].TwitterUserId})
       IN  \/ /\ Works
              /\ IF \E d \in found : docs[d].UID # req[l].UID
                 THEN LoginEnds(l)
                 ELSE LoginGoesOn(l, "byUid")
           \/ Fails /\ LoginGoesOn(l, "byUid")

\* A user who has a document is done.
FindByUid(l) ==
    /\ pc[l] = "byUid"
    /\ UNCHANGED <<authVars, outsideVars, workerVars>>
    /\ \/ /\ Works
          /\ IF FindUserTwitterAuth({d \in live : docs[d].UID = req[l].UID}) # {}
             THEN LoginEnds(l)
             ELSE LoginGoesOn(l, "airdrop")
       \/ Fails /\ LoginEnds(l)

\* A user who has an airdrop already is not created.  An error counts as none.
FindAirdropByUid(l) ==
    /\ pc[l] = "airdrop"
    /\ UNCHANGED <<authVars, outsideVars, workerVars>>
    /\ \/ /\ Works
          /\ IF airdrops[req[l].UID] > 0 THEN LoginEnds(l) ELSE LoginGoesOn(l, "new")
       \/ Fails /\ LoginGoesOn(l, "new")

NewDocument(r) ==
    [ UID |-> r.UID, TwitterUserId |-> r.TwitterUserId,
      TwitterUser |-> FALSE, IsAirdrop |-> FALSE,
      FindTwitterUserState |-> 1, FollowState |-> 0, SendTweeState |-> 0,
      LikeTweeState |-> 0, ValidState |-> 0 ]

CreateUser(l) ==
    /\ pc[l] = "new"
    /\ UNCHANGED <<outsideVars, workerVars>>
    /\ LoginEnds(l)
    /\ \/ Works /\ CreateUserTwitterAuth(NewDocument(req[l]))
       \/ Fails /\ (CreateUserTwitterAuth(NewDocument(req[l])) \/ UNCHANGED authVars)

Login(l) == FindByTwitterUserId(l) \/ FindByUid(l) \/ FindAirdropByUid(l) \/ CreateUser(l)

-----------------------------------------------------------------------------
(* A plan reads its list, and loops over it. *)

\* The documents a plan asks for, and in which order it gets them.
Wanted(p) ==
    {d \in live :
        \/ p = "lookup" /\ docs[d].FindTwitterUserState = 1
        \/ p = "check" /\ docs[d].ValidState = 4
        \/ p \in {"send", "reply"} /\ docs[d].SendTweeState = 1
        \/ p = "like" /\ docs[d].LikeTweeState = 1
        \/ p = "follow" /\ docs[d].FollowState = 1}

Lists(p) ==
    CASE p = "lookup"                       -> {ListByID(Wanted(p), ListNum)}
      [] p \in {"check", "like"}            -> ListsByFollowers(Wanted(p), ListNum)
      [] p \in {"send", "reply", "follow"}  -> ListsOfSome(Wanted(p), ListNum)

Call(w, p) ==
    /\ pc[w] = "idle"
    /\ UNCHANGED <<authVars, outsideVars, cur, req>>
    /\ \/ /\ Works
          /\ plan' = [plan EXCEPT ![w] = p]
          /\ \E some \in Lists(p) : list' = [list EXCEPT ![w] = some]
          /\ Goto(w, "next")
       \/ /\ Fails /\ UNCHANGED <<plan, list, pc>>

PlanEnds(w) ==
    /\ pc[w] = "next"
    /\ list[w] = {}
    /\ Goto(w, "idle")
    /\ plan' = [plan EXCEPT ![w] = "none"]
    /\ UNCHANGED <<authVars, outsideVars, list, cur, req>>
    /\ Works

\* The loop takes copy x and goes on at "to" with the document as it has to be.
Take(w, x, to, data, create) ==
    /\ list' = [list EXCEPT ![w] = @ \ {x}]
    /\ cur' = [cur EXCEPT ![w] =
                 [id |-> x.id, data |-> data, doChannel |-> FALSE, create |-> create]]
    /\ Goto(w, to)

Skip(w, x) == list' = [list EXCEPT ![w] = @ \ {x}] /\ UNCHANGED <<cur, pc>>

First(copies) == {x \in copies : \A y \in copies : x.id <= y.id}

\* The next step of w after a step that is done with its copy.
NextCopy(w) == Goto(w, "next") /\ cur' = [cur EXCEPT ![w] = NoCurrent]

-----------------------------------------------------------------------------
(* The lookup plan, up to its first write. *)

\* Mutant: the find state is not written.
LookedUp_StillPending(data, answer) ==
    [data EXCEPT
       !.TwitterUser = TRUE, !.FollowState = 1,
       !.ValidState = IF answer = "doubtful" THEN 4 ELSE 3]

\* What the plan makes of a document when Twitter has answered.
LookedUp(data, answer) ==
    LET valid == answer \in {"valid", "doubtful"}
    IN  [data EXCEPT
           !.TwitterUser = TRUE, !.FollowState = 1, !.FindTwitterUserState = 2,
           !.ValidState = IF answer = "doubtful" THEN 4 ELSE 3,
           !.SendTweeState = IF valid THEN 1 ELSE @,
           !.LikeTweeState = IF valid THEN 1 ELSE @]

\* The plan passes over a document that has its airdrop, and does not write it.
Done(data) == data.IsAirdrop \/ data.ValidState = 2

\* Twitter gives a profile that is valid, invalid (no followers, or too young), or
\* doubtful (a number of followers that has to be checked); or an error.
Lookup(w) ==
    /\ pc[w] = "next" /\ plan[w] = "lookup"
    /\ UNCHANGED <<authVars, outsideVars, plan, req>>
    /\ Works
    /\ \E x \in First(list[w]) :
          IF Done(x.data) THEN Skip(w, x)
          ELSE \/ \E answer \in {"valid", "invalid", "doubtful"} :
                     Take(w, x, "channel", LookedUp(x.data, answer), answer = "valid")
               \/ Take(w, x, "findState", [x.data EXCEPT !.FindTwitterUserState = 3], FALSE)
               \/ Take(w, x, "delete", x.data, FALSE)

DeleteUser(w) ==
    /\ pc[w] = "delete"
    /\ UNCHANGED <<outsideVars, plan, list, req>>
    /\ NextCopy(w)
    /\ \/ Works /\ DeleteUserTwitterAuthByID(cur[w].id)
       \/ Fails /\ (DeleteUserTwitterAuthByID(cur[w].id) \/ UNCHANGED authVars)

SaveFindState(w) ==
    /\ pc[w] = "findState"
    /\ UNCHANGED <<outsideVars, plan, list, req>>
    /\ NextCopy(w)
    /\ \/ Works /\ UpdateUserTwitterAuthFindState(cur[w])
       \/ Fails /\ (UpdateUserTwitterAuthFindState(cur[w]) \/ UNCHANGED authVars)

-----------------------------------------------------------------------------
(* The check plan, up to its first write. *)

\* Mutant: the test for the profile is the wrong way round.
Check_Negated(w) ==
    /\ pc[w] = "next" /\ plan[w] = "check"
    /\ UNCHANGED <<authVars, outsideVars, plan, req>>
    /\ Works
    /\ \E x \in list[w] :
          IF x.data.TwitterUser THEN Skip(w, x) ELSE Take(w, x, "channel", x.data, TRUE)

\* The followers are sound, there are none, or an error; 429 has a state of its own.
\* The results of the check only enter the amount.
Check(w) ==
    /\ pc[w] = "next" /\ plan[w] = "check"
    /\ UNCHANGED <<authVars, outsideVars, plan, req>>
    /\ Works
    /\ \E x \in list[w] :
          IF ~x.data.TwitterUser THEN Skip(w, x)
          ELSE \/ Take(w, x, "channel", x.data, TRUE)
               \/ \E refused \in {3, 6, 7} :
                     Take(w, x, "save", [x.data EXCEPT !.ValidState = refused], FALSE)

-----------------------------------------------------------------------------
(* What the two have in common: the airdrop, the document, the channel user. *)

\* do_channeluser: there is a channel user, and it is not valid yet.
FindChannelUserByUID(w) ==
    /\ pc[w] = "channel"
    /\ UNCHANGED <<authVars, outsideVars, plan, list, req>>
    /\ Goto(w, IF cur[w].create THEN "create" ELSE "save")
    /\ \/ /\ Works
          /\ cur' = [cur EXCEPT ![w].doChannel =
                       chanValid[cur[w].data.UID] \in {"default", "failed"}]
       \/ Fails /\ UNCHANGED cur

\* Mutant: the document is not marked.
Granted_Unmarked(data) == [data EXCEPT !.SendTweeState = 1, !.LikeTweeState = 1]

\* The document of a user whose airdrop was created; the check plan only starts the
\* jobs that were not wanted yet.
Granted(data) ==
    [data EXCEPT
       !.IsAirdrop = TRUE, !.ValidState = 2,
       !.SendTweeState = IF @ = 0 THEN 1 ELSE @,
       !.LikeTweeState = IF @ = 0 THEN 1 ELSE @]

\* Mutant: the row is taken away.
Insert_Deletes(u) ==
    /\ airdrops' = [airdrops EXCEPT ![u] = @ - 1]
    /\ UNCHANGED <<chanValid, posted>>

Insert(u) ==
    /\ airdrops' = [airdrops EXCEPT ![u] = @ + 1]
    /\ UNCHANGED <<chanValid, posted>>

\* Mutant: the document is written before the row is inserted.
CreateAirdrop_AfterSave(w) ==
    /\ pc[w] = "create"
    /\ UNCHANGED <<plan, list, req>>
    /\ cur' = [cur EXCEPT ![w].data = Granted(@)]
    /\ Update(cur[w].id, Granted(cur[w].data))
    /\ \/ Works /\ Insert(cur[w].data.UID) /\ Goto(w, "save")
       \/ Fails /\ UNCHANGED outsideVars /\ Goto(w, "next")

\* createAirdrop.  When it fails the lookup plan stores the find state 3, and the
\* check plan the valid state 5.
CreateAirdrop(w) ==
    LET u == cur[w].data.UID
    IN  /\ pc[w] = "create"
        /\ UNCHANGED <<authVars, plan, list, req>>
        /\ \/ /\ Works
              /\ Insert(u)
              /\ cur' = [cur EXCEPT ![w].data = Granted(@)]
              /\ Goto(w, "save")
           \/ /\ Fails
              /\ Insert(u) \/ UNCHANGED outsideVars
              /\ IF plan[w] = "lookup"
                 THEN /\ cur' = [cur EXCEPT ![w].data.FindTwitterUserState = 3]
                      /\ Goto(w, "findState")
                 ELSE /\ cur' = [cur EXCEPT ![w].data.ValidState = 5,
                                            ![w].doChannel = FALSE]
                      /\ Goto(w, "save")

\* The update of the document.  When it fails, the lookup plan leaves the channel
\* user alone, and the check plan does not.
Save(w) ==
    LET goOn == IF cur[w].doChannel THEN Goto(w, "saveChannel") /\ UNCHANGED cur ELSE NextCopy(w)
    IN  /\ pc[w] = "save"
        /\ UNCHANGED <<outsideVars, plan, list, req>>
        /\ \/ Works /\ UpdateUserTwitterAuthTwitterUser(cur[w]) /\ goOn
           \/ /\ Fails
              /\ UpdateUserTwitterAuthTwitterUser(cur[w]) \/ UNCHANGED authVars
              /\ IF plan[w] = "lookup" THEN NextCopy(w) ELSE goOn

\* Mutant: the channel user is valid whatever became of the user.
UpdateCreateAirdrop_Always(u, data) ==
    /\ chanValid' = [chanValid EXCEPT ![u] = "success"]
    /\ UNCHANGED <<airdrops, posted>>

\* UpdateCreateAirdrop of the channel user: valid when the airdrop was created.
UpdateCreateAirdrop(u, data) ==
    /\ chanValid' = [chanValid EXCEPT ![u] = IF data.IsAirdrop THEN "success" ELSE "failed"]
    /\ UNCHANGED <<airdrops, posted>>

SaveChannel(w) ==
    LET write == UpdateCreateAirdrop(cur[w].data.UID, cur[w].data)
    IN  /\ pc[w] = "saveChannel"
        /\ UNCHANGED <<authVars, plan, list, req>>
        /\ NextCopy(w)
        /\ \/ Works /\ write
           \/ Fails /\ (write \/ UNCHANGED outsideVars)

-----------------------------------------------------------------------------
(* The send, reply, like and follow plans. *)

\* The answers of Twitter, and the state each stands for.
Answers(p) ==
    {[ok |-> TRUE, state |-> 2], [ok |-> FALSE, state |-> 3],
     [ok |-> FALSE, state |-> 4], [ok |-> FALSE, state |-> 5]}
        \cup IF p \in {"send", "like"} THEN {[ok |-> FALSE, state |-> 2]} ELSE {}

Answered(p, data, state) ==
    CASE p \in {"send", "reply"} -> [data EXCEPT !.SendTweeState = state]
      [] p = "like"              -> [data EXCEPT !.LikeTweeState = state]
      [] p = "follow"            -> [data EXCEPT !.FollowState = state]

\* The reply plan handles its list by _id.
Act(w) ==
    /\ pc[w] = "next" /\ plan[w] \in {"send", "reply", "like", "follow"}
    /\ UNCHANGED <<authVars, airdrops, chanValid, plan, req>>
    /\ Works
    /\ \E x \in IF plan[w] = "reply" THEN First(list[w]) ELSE list[w], a \in Answers(plan[w]) :
          /\ Take(w, x, "actSave", Answered(plan[w], x.data, a.state), FALSE)
          /\ posted' = IF a.ok /\ plan[w] \in {"send", "reply"}
                       THEN posted \cup {x.data.TwitterUserId} ELSE posted

ActSave(w) ==
    LET write ==
            \/ plan[w] \in {"send", "reply"} /\ UpdateUserTwitterAuthSendTweet(cur[w])
            \/ plan[w] = "like" /\ UpdateUserTwitterAuthLikeTweet(cur[w])
            \/ plan[w] = "follow" /\ UpdateUserTwitterAuthFollow(cur[w])
    IN  /\ pc[w] = "actSave"
        /\ UNCHANGED <<outsideVars, plan, list, req>>
        /\ NextCopy(w)
        /\ \/ Works /\ write
           \/ Fails /\ (write \/ UNCHANGED authVars)

Work(w) ==
    \/ PlanEnds(w) \/ Lookup(w) \/ DeleteUser(w) \/ SaveFindState(w) \/ Check(w)
    \/ FindChannelUserByUID(w) \/ CreateAirdrop(w) \/ Save(w) \/ SaveChannel(w)
    \/ Act(w) \/ ActSave(w)

-----------------------------------------------------------------------------

\* Another service inserts the channel user of u.
RegisterChannelUser(u) ==
    /\ chanValid[u] = "none"
    /\ chanValid' = [chanValid EXCEPT ![u] = "default"]
    /\ UNCHANGED <<authVars, airdrops, posted, pc, workerVars, req>>
    /\ Works

\* The process dies: the database and Twitter stay.
Crash ==
    /\ crashes < MaxCrashes
    /\ crashes' = crashes + 1
    /\ \E p \in Workers \cup Logins : pc[p] # "idle"
    /\ pc' = [p \in Workers \cup Logins |-> "idle"]
    /\ plan' = [w \in Workers |-> "none"]
    /\ list' = [w \in Workers |-> {}]
    /\ cur' = [w \in Workers |-> NoCurrent]
    /\ req' = [l \in Logins |-> NoRequest]
    /\ UNCHANGED <<authVars, outsideVars, faults>>

Next ==
    \/ \E l \in Logins, u \in Uids, tw \in TwitterIds : Callback(l, u, tw)
    \/ \E l \in Logins : Login(l)
    \/ \E w \in Workers, p \in Plans : Call(w, p)
    \/ \E w \in Workers : Work(w)
    \/ \E u \in Uids : RegisterChannelUser(u)
    \/ Crash

Spec == Init /\ [][Next]_vars

\* A plan that runs goes on, and the scheduler calls each plan again and again.
Fairness ==
    \A w \in Workers :
        /\ WF_vars(Work(w))
        /\ \A p \in Plans : SF_vars(Call(w, p))

FairSpec == Spec /\ Fairness

-----------------------------------------------------------------------------
(* What must be true, however plans and logins overlap and whatever fails. *)

\* A user is marked as having an airdrop only when the row is there: the row is
\* inserted first (runLookupTwitterUser, runCheckTwitterUser).
AirdropIsBacked ==
    \A d \in live : docs[d].IsAirdrop => airdrops[docs[d].UID] > 0

\* The owner of a channel is paid for a user only when that user has an airdrop.
ChannelUserIsBacked == \A u \in Uids : chanValid[u] = "success" => airdrops[u] > 0

(* What must be true while plans run one after the other, and logins too. *)

\* A user gets a second airdrop only when an update failed after the row was
\* inserted, or the process died between the two.
OneAirdropEach == \A u \in Uids : airdrops[u] <= 1 + faults + crashes

\* A user has one document, and a Twitter account one user, unless the lookup of
\* the account failed, which TwitterCallback does not notice.
OneDocumentEach ==
    /\ \A d, e \in live : docs[d].UID = docs[e].UID => d = e
    /\ \A tw \in TwitterIds :
          Cardinality({d \in live : docs[d].TwitterUserId = tw}) <= 1 + faults

\* "1 pending" means that the tweet is still to be sent, but for the plan that has
\* just sent it.
PendingIsUnsent ==
    faults = 0 /\ crashes = 0 =>
        \A d \in live :
            docs[d].SendTweeState = 1 /\ docs[d].TwitterUserId \in posted
                => \E w \in Workers : pc[w] = "actSave" /\ cur[w].id = d

\* Every user is looked up in the end, one way or the other: no document at the head
\* of the list holds up those behind it.
LookedUpInTheEnd ==
    \A d \in 1 .. MaxDocs :
        (d \in live /\ docs[d].FindTwitterUserState = 1)
            ~> ~(d \in live /\ docs[d].FindTwitterUserState = 1)

\* Every doubtful user is decided in the end.
CheckedInTheEnd ==
    \A d \in 1 .. MaxDocs :
        (d \in live /\ docs[d].ValidState = 4) ~> ~(d \in live /\ docs[d].ValidState = 4)

=============================================================================
