-------------------------- MODULE ChannelDispatch --------------------------
(***************************************************************************)
(* The channel airdrop dispatcher: app/services/channel_user.go, and the   *)
(* collection "channelusers" it works on (app/models/channeluser.go).      *)
(*                                                                         *)
(* It is the program of the Twitter dispatcher with package variables of   *)
(* its own, so its steps that do not look for a row are the steps of       *)
(* AirdropDispatch, over the channel users.  It finds rows by the track id *)
(* of the command, which is the _id of the row, and tests the state of     *)
(* what it found.                                                          *)
(***************************************************************************)
EXTENDS FaucetClient, FiniteSets

CONSTANTS
    ChannelUsers,   \* the _ids of the documents
    ChannelUID,     \* ChannelUID[r]: the owner of the channel of r, who is paid
    MaxAmount,      \* MaxAmount[r]: the largest amount a plan computes for r
    Plans,          \* the lookup and check plans, which may overlap
    Sessions, Threads, Budget, ListNum, MaxFaults, MaxCrashes   \* as in AirdropDispatch

ASSUME ChannelUsersAssumption == ChannelUsers \subseteq Nat \ {0}
ASSUME AmountAssumption == MaxAmount \in [ChannelUsers -> Nat]
ASSUME GoroutinesAssumption == Sessions \cap Threads = {}
ASSUME BudgetAssumption == Budget \in Nat

VARIABLES
    airdropState,         \* airdropState[r]: "absent", or a ChannelAirdropState
    validState, amount,   \* of each document, written together by the plans
    copied,               \* copied[p][r]: the amount of r as goroutine p read it
    doChannelUser,        \* doChannelUser[q]: the row plan q is going to write
    rewritten,            \* history: the rows a plan wrote although they were valid
    txID, channelAirdropCoin,
    totalAirdropNum, airdropStop, airdropDo,
    session, waitsOn, ctxDone, epoch, pc, todo, local, faults, crashes

P == INSTANCE AirdropDispatch WITH
        Airdrops <- ChannelUsers, Owner <- ChannelUID, Coin <- MaxAmount,
        status <- airdropState, airdropCoin <- channelAirdropCoin

rowVars == <<airdropState, txID, channelAirdropCoin>>
globals == <<totalAirdropNum, airdropStop, airdropDo>>
sessionVars == <<session, waitsOn, ctxDone, epoch>>
procVars == <<pc, todo, local>>
dispatcherVars == <<rowVars, clientVars, globals, sessionVars, procVars, faults, crashes>>
planVars == <<validState, amount, doChannelUser, rewritten>>
ownVars == <<planVars, copied>>
vars == <<dispatcherVars, ownVars>>

UserValidState == {"default", "success", "failed"}

\* Every variable holds a value of its kind; the commands pay existing rows.
TypeOK ==
    /\ P!TypeOK
    /\ validState \in [ChannelUsers -> UserValidState]
    /\ amount \in [ChannelUsers -> Nat]
    /\ copied \in [P!Procs -> [ChannelUsers -> Nat]]
    /\ doChannelUser \in [Plans -> ChannelUsers \cup {P!NoRow}]
    /\ rewritten \subseteq ChannelUsers

NothingCopied == [r \in ChannelUsers |-> 0]

Init ==
    /\ P!Init
    /\ validState = [r \in ChannelUsers |-> "default"]
    /\ amount = [r \in ChannelUsers |-> 0]
    /\ copied = [p \in P!Procs |-> NothingCopied]
    /\ doChannelUser = [q \in Plans |-> P!NoRow]
    /\ rewritten = {}

-----------------------------------------------------------------------------
(* The world around the dispatcher. *)

\* Another service inserts the document of a user who came through a channel.
Register(r) == P!Insert(r) /\ UNCHANGED ownVars

\* A plan reads the document of the user it looks up (FindChannelUserByUID), and
\* goes on to write it only if it is not valid yet.
FindChannelUserByUID(q, r) ==
    /\ doChannelUser[q] = P!NoRow
    /\ r \in P!Rows
    /\ validState[r] \in {"default", "failed"}
    /\ doChannelUser' = [doChannelUser EXCEPT ![q] = r]
    /\ UNCHANGED <<dispatcherVars, validState, amount, copied, rewritten>>

\* The state is not tested again: a plan that overlaps another may write a row
\* that the other made valid.
UpdateCreateAirdrop(r, valid, coin) ==
    /\ validState' = [validState EXCEPT ![r] = valid]
    /\ amount' = [amount EXCEPT ![r] = coin]
    /\ rewritten' = rewritten \cup {x \in {r} : validState[x] = "success"}

\* The plan writes what it computed, nothing for a user that is not valid; or a
\* call before the write fails, and it goes on to the next user.
PlanEnds(q) ==
    LET r == doChannelUser[q]
    IN  /\ r # P!NoRow
        /\ doChannelUser' = [doChannelUser EXCEPT ![q] = P!NoRow]
        /\ UNCHANGED <<dispatcherVars, copied>>
        /\ \/ \E coin \in 0..MaxAmount[r] : UpdateCreateAirdrop(r, "success", coin)
           \/ UpdateCreateAirdrop(r, "failed", 0)
           \/ UNCHANGED <<validState, amount, rewritten>>

\* What is left of the process when it is started again; the plans are gone too.
Down ==
    /\ P!Down
    /\ copied' = [p \in P!Procs |-> NothingCopied]
    /\ doChannelUser' = [q \in Plans |-> P!NoRow]
    /\ UNCHANGED <<validState, amount, rewritten>>

\* A crash of the process.  It is also what happens when a command fails and the
\* SDK gives no error: OnFailed calls err.Error() on nil.
Crash ==
    /\ crashes < MaxCrashes
    /\ crashes' = crashes + 1
    /\ \E s \in Sessions : session[s] # "idle"
    /\ Down
    /\ UNCHANGED faults

-----------------------------------------------------------------------------
(* The request and the feeder. *)

AirdropChannel(s) == P!AirdropTwitter(s) /\ UNCHANGED ownVars

\* AirdropChannel after its first statement.
Continue(s) == P!Proceed(s) /\ UNCHANGED ownVars

ClientGone(s) == P!ClientGone(s) /\ UNCHANGED ownVars

airdropToStop(p) == (P!StopClear(p) \/ P!StopSend(p)) /\ UNCHANGED ownVars

Rendezvous(p, s) == P!Rendezvous(p, s) /\ UNCHANGED ownVars

\* Mutant: the query does not ask for valid rows.
Waiting_Unvalidated == {r \in ChannelUsers : airdropState[r] = "default"}

\* getChannelAirdropList, getChannelAirdrop: the rows that wait to be paid.
Waiting == {r \in ChannelUsers : validState[r] = "success" /\ airdropState[r] = "default"}

\* Goroutine p reads the documents R; what it pays and credits is what it read.
Copy(p, R) ==
    /\ copied' = [copied EXCEPT ![p] =
                    [r \in ChannelUsers |-> IF r \in R THEN amount[r] ELSE 0]]
    /\ UNCHANGED planVars

getChannelAirdropList(s) ==
    /\ pc[s] = "list"
    /\ UNCHANGED <<rowVars, clientVars, globals, sessionVars, local>>
    /\ \/ /\ P!CallOk(local[s].ctx)
          /\ todo' = [todo EXCEPT
                        ![s] = {r \in Waiting :
                                  Cardinality({q \in Waiting : q < r}) < ListNum}]
          /\ Copy(s, todo'[s])
          /\ P!Goto(s, IF todo'[s] = {} THEN "clear" ELSE "next")
       \/ /\ P!CallFails(local[s].ctx)
          /\ P!Goto(s, "clear")
          /\ UNCHANGED <<todo, ownVars>>

airdropTx(s) ==
    \/ getChannelAirdropList(s)
    \/ (P!NextAirdrop(s) \/ P!FeederEnds(s)) /\ UNCHANGED ownVars

airdropTxOne(t) ==
    /\ pc[t] = "getOne"
    /\ UNCHANGED <<rowVars, clientVars, globals, sessionVars, todo>>
    /\ \/ /\ P!CallOk(local[t].ctx)
          /\ \E r \in P!Oldest(Waiting) :
                /\ local' = [local EXCEPT ![t].row = r]
                /\ Copy(t, {r})
                /\ P!Goto(t, "check")
       \/ /\ \/ Waiting = {} /\ P!CallOk(local[t].ctx)
             \/ P!CallFails(local[t].ctx)
          /\ P!Goto(t, "clear")
          /\ UNCHANGED <<local, ownVars>>

-----------------------------------------------------------------------------
(* airdropRun. *)

\* pendingAfter finds the row by _id; only a row that has a tx_id and is past
\* default is refused.
pendingAfterFind(p) ==
    /\ pc[p] = "pendingFind"
    /\ P!Keep(p)
    /\ UNCHANGED <<rowVars, clientVars, globals, sessionVars, ownVars>>
    /\ LET r == local[p].row
       IN  \/ /\ P!CallOk(local[p].ctx)
              /\ P!Goto(p, IF txID[r] # P!NoTx /\ airdropState[r] # "default"
                           THEN "clear" ELSE "pendingUpd")
           \/ /\ P!CallFails(local[p].ctx)
              /\ P!Goto(p, "clear")

airdropRun(p) ==
    \/ pendingAfterFind(p)
    \/ /\ \/ P!RunCheck(p) \/ P!Submit(p, copied[p][local[p].row])
          \/ P!RunLoad(p) \/ P!RunStore(p) \/ P!PendingUpdate(p)
       /\ UNCHANGED ownVars

-----------------------------------------------------------------------------
(* The callbacks. *)

NilObjectID == 0

\* Mutant: a track id that is not a row of the collection is taken for one.
TrackID_Lenient(c) ==
    IF cmds[c].to \in ChannelUsers THEN cmds[c].to ELSE CHOOSE r \in ChannelUsers : TRUE

\* The track id of a command is the _id of the row it pays.  A command of the
\* Twitter dispatcher has none.
TrackID(c) == IF cmds[c].to \in ChannelUsers THEN cmds[c].to ELSE NilObjectID

\* FindChannelUserByID with the test that follows it: goroutine t goes on to
\* "yes" with the row if it is one of rows, and otherwise does skip.
FindChannelUserByID(t, rows, yes, skip) ==
    /\ UNCHANGED <<rowVars, clientVars, globals, sessionVars, todo>>
    /\ \/ /\ P!CallOk(P!Background)
          /\ TrackID(local[t].cmd) \in rows
          /\ local' = [local EXCEPT ![t].row = TrackID(local[t].cmd)]
          /\ Copy(t, {TrackID(local[t].cmd)})
          /\ P!Goto(t, yes)
       \/ /\ \/ TrackID(local[t].cmd) \notin rows /\ P!CallOk(P!Background)
             \/ P!CallFails(P!Background)
          /\ skip
          /\ UNCHANGED ownVars

Pending == {r \in ChannelUsers : airdropState[r] = "pending"}

\* Mutant: a callback that finds nothing to settle does not ask for one more row.
GoOn_Returns(t) == P!Return(t)

GoOn(t) == P!Goto(t, "again") /\ UNCHANGED local

successAfterFind(t) ==
    /\ pc[t] = "successFind"
    /\ FindChannelUserByID(t, Pending, "successUpd", GoOn(t))

\* Mutant: the state is not tested.
failedAfterFind_AnyState(t) ==
    /\ pc[t] = "failedFind"
    /\ FindChannelUserByID(t, ChannelUsers, "failedUpd", GoOn(t))

failedAfterFind(t) ==
    /\ pc[t] = "failedFind"
    /\ FindChannelUserByID(t, Pending, "failedUpd", GoOn(t))

txGeneratedAfterFind(t) ==
    /\ pc[t] = "txFind"
    /\ FindChannelUserByID(t, {r \in Pending : txID[r] = P!NoTx}, "txUpd", P!Return(t))

\* Mutant: the rows are selected by the misesid of the channel.
UpdateTxID_OfOwner(r, tx) ==
    /\ txID' = [q \in ChannelUsers |-> IF q \in P!RowsOf(ChannelUID[r]) THEN tx ELSE txID[q]]
    /\ UNCHANGED <<airdropState, channelAirdropCoin>>

\* UpdateTxID does not write the state.
UpdateTxID(r, tx) ==
    /\ txID' = [txID EXCEPT ![r] = tx]
    /\ UNCHANGED <<airdropState, channelAirdropCoin>>

txGeneratedAfterUpdate(t) ==
    /\ pc[t] = "txUpd"
    /\ P!Return(t)
    /\ UNCHANGED <<clientVars, globals, sessionVars, todo, ownVars>>
    /\ \/ P!CallOk(P!Background) /\ UpdateTxID(local[t].row, local[t].cmd)
       \/ /\ P!CallFails(P!Background)
          /\ UpdateTxID(local[t].row, local[t].cmd) \/ UNCHANGED rowVars

\* UpdateStatusSuccess, UpdateStatusFailed, updateUserAirdrop, the test of airdropDo.
After(t) ==
    \/ successAfterFind(t) \/ failedAfterFind(t)
    \/ txGeneratedAfterFind(t) \/ txGeneratedAfterUpdate(t)
    \/ /\ \/ P!SuccessUpdate(t) \/ P!FailedUpdate(t)
          \/ P!ExtRead(t) \/ P!Credit(t, copied[t][local[t].row]) \/ P!Again(t)
       /\ UNCHANGED ownVars
    \/ airdropTxOne(t)

FaucetCallback(t, c) == P!Event(t, c) /\ UNCHANGED ownVars

-----------------------------------------------------------------------------

Runner(p) == airdropRun(p) \/ airdropToStop(p)

Next ==
    \/ \E r \in ChannelUsers : Register(r)
    \/ \E q \in Plans, r \in ChannelUsers : FindChannelUserByUID(q, r)
    \/ \E q \in Plans : PlanEnds(q)
    \/ \E s \in Sessions : AirdropChannel(s) \/ ClientGone(s) \/ airdropTx(s)
    \/ \E p \in P!Procs : Runner(p)
    \/ \E p \in P!Procs, s \in Sessions : Rendezvous(p, s)
    \/ \E t \in Threads : After(t)
    \/ \E t \in Threads, c \in DOMAIN cmds : FaucetCallback(t, c)
    \/ Crash

Spec == Init /\ [][Next]_vars

\* As for the Twitter dispatcher: goroutines that can go on do, and the SDK
\* reports the outcome of every command while a thread is free.
Fairness ==
    /\ \A s \in Sessions :
          /\ WF_vars(Continue(s))
          /\ WF_vars(airdropTx(s))
          /\ WF_vars(\E p \in P!Procs : Rendezvous(p, s))
    /\ \A p \in P!Procs : WF_vars(Runner(p))
    /\ \A t \in Threads :
          WF_vars(After(t)) /\ WF_vars(\E c \in DOMAIN cmds : FaucetCallback(t, c))

FairSpec == Spec /\ Fairness

-----------------------------------------------------------------------------
(* What must be true. *)

Payments(r, stage) == {c \in DOMAIN cmds : cmds[c].to = r /\ cmds[c].stage = stage}

Succeeded(u) == UNION {Payments(r, "succeeded") : r \in P!RowsOf(u)}

\* What the success of command c may add to a balance: the amount it paid; for a
\* row that overlapping plans rewrote, the largest amount a plan writes.
Worth(c) ==
    IF cmds[c].to \in rewritten THEN MaxAmount[cmds[c].to] ELSE cmds[c].amount

\* The units of money of the commands C, as many as they are worth together.
Units(C) == UNION {{c} \X (1..Worth(c)) : c \in C}

\* No two plans look up the user of one row at the same time.
PlansApart ==
    \A q1, q2 \in Plans :
        q1 # q2 /\ doChannelUser[q1] = doChannelUser[q2] => doChannelUser[q1] = P!NoRow

\* The units that the commands C paid.
PaidUnits(C) == UNION {{c} \X (1..cmds[c].amount) : c \in C}

\* A row is settled as its own payment was answered: the track id, unlike a
\* lookup by misesid, never settles the row of another payment (successAfter,
\* failedAfter).
SettledByOwnPayment ==
    \A r \in ChannelUsers :
        /\ airdropState[r] = "success" => Payments(r, "succeeded") # {}
        /\ airdropState[r] = "failed" => Payments(r, "failed") # {}

\* The owner of a channel is credited at most what was paid for each row, once for
\* each payment of this very row that succeeded, however callbacks, stale writes
\* and crashes interleave: although the amount is read when the row is listed and
\* again when its payment succeeded.  Only where a plan rewrote a row that an
\* overlapping plan had made valid may the second amount be another one, up to
\* the largest a plan writes (airdropRun, successAfter, UpdateCreateAirdrop).
CreditExact ==
    \A u \in P!Users : channelAirdropCoin[u] <= Cardinality(Units(Succeeded(u)))

\* As long as no two plans look up the user of one row at the same time, nobody is
\* credited more than what the payments of his rows that succeeded paid
\* (airdropRun, successAfter, updateUserAirdrop, UpdateCreateAirdrop).
PaidExact ==
    \A u \in P!Users : channelAirdropCoin[u] <= Cardinality(PaidUnits(Succeeded(u)))

\* The document of a row says what its owner was paid, for every payment of it,
\* unless overlapping plans rewrote the row (getChannelAirdropList, airdropRun,
\* UpdateCreateAirdrop).
PaidAsRecorded ==
    \A c \in DOMAIN cmds :
        cmds[c].to \notin rewritten => cmds[c].amount = amount[cmds[c].to]

\* The transaction id of a row is the one of a payment of this row that the SDK
\* has generated (txGeneratedAfter).
TxIDOfOwnPayment ==
    \A r \in ChannelUsers :
        txID[r] # P!NoTx => cmds[txID[r]].to = r /\ cmds[txID[r]].stage # "queued"

\* What is settled stays settled, except for a row that was submitted twice: an
\* outcome that arrives before the row is marked pending is dropped, so that
\* pendingAfter does not write over it (successAfter, failedAfter, pendingAfter).
SettledIsFinal ==
    [][\A r \in ChannelUsers :
         airdropState[r] \in {"success", "failed"} /\ airdropState'[r] # airdropState[r]
           => Cardinality({c \in DOMAIN cmds : cmds[c].to = r}) > 1]_vars

\* The request is answered in the end (airdropToStop is reached on every path).
SessionReturns == P!SessionReturns

=============================================================================
