---------------------------- MODULE Dispatchers ----------------------------
(***************************************************************************)
(* The Twitter and the channel dispatcher in one process.  Each has its    *)
(* own package variables, requests and goroutines, but they share the      *)
(* object airdropLib.AirdropClient: its queue of commands, the threads     *)
(* that report their outcomes, and its one listener.  The dispatcher that  *)
(* registered last is told the outcomes of both.                           *)
(***************************************************************************)
EXTENDS AirdropDispatch

CONSTANTS
    ChannelUsers, ChannelUID, MaxAmount, Plans,   \* as in ChannelDispatch
    ChSessions                                    \* the AirdropChannel requests

\* A command pays an airdrop or a channel user, and Owner names who is paid.
ASSUME KindsAssumption ==
    /\ Airdrops \cap ChannelUsers = {}
    /\ ChSessions \cap Procs = {}
    /\ \A r \in ChannelUsers : Owner[r] = ChannelUID[r]

\* As ChannelDispatch assumes.
ASSUME ChannelAssumption ==
    /\ ChannelUsers \subseteq Nat \ {0}
    /\ MaxAmount \in [ChannelUsers -> Nat]

AllUsers == {Owner[x] : x \in Airdrops \cup ChannelUsers}

\* The most that one payment to u may be worth, for each airdrop and channel user.
Amounts(u) ==
    {Coin[a] : a \in {b \in Airdrops : Owner[b] = u}}
        \cup {MaxAmount[r] : r \in {q \in ChannelUsers : Owner[q] = u}}

\* GetTwitterAirdropCoin bounds the amounts of the airdrops, and a channel user is
\* paid a tenth of one: a user has a largest amount.
ASSUME WorthAssumption ==
    \A u \in AllUsers : \E n \in Amounts(u) : \A m \in Amounts(u) : m <= n

VARIABLES   \* the channel dispatcher's; ch marks the ones that have a namesake
    airdropState, validState, amount, copied, doChannelUser, rewritten,
    chTxID, channelAirdropCoin,
    chTotalAirdropNum, chAirdropStop, chAirdropDo,
    chSession, chWaitsOn, chCtxDone, chEpoch, chPc, chTodo, chLocal

C == INSTANCE ChannelDispatch WITH
        Sessions <- ChSessions,
        txID <- chTxID,
        totalAirdropNum <- chTotalAirdropNum, airdropStop <- chAirdropStop,
        airdropDo <- chAirdropDo, session <- chSession, waitsOn <- chWaitsOn,
        ctxDone <- chCtxDone, epoch <- chEpoch, pc <- chPc, todo <- chTodo, local <- chLocal

twitterVars == <<collectionVars, globals, sessionVars, procVars>>

channelVars ==
    << airdropState, validState, amount, copied, doChannelUser, rewritten,
       chTxID, channelAirdropCoin,
       chTotalAirdropNum, chAirdropStop, chAirdropDo,
       chSession, chWaitsOn, chCtxDone, chEpoch, chPc, chTodo, chLocal >>

bothVars == <<twitterVars, channelVars, clientVars, envVars>>

BothInit == Init /\ C!Init

-----------------------------------------------------------------------------
(* The client calls the listener it has.  A thread runs one callback.      *)

TwitterEvent(t, c) ==
    /\ listener \in Sessions
    /\ chPc[t] = "idle"
    /\ \A u \in Threads : chLocal[u].cmd # c
    /\ Event(t, c)
    /\ UNCHANGED channelVars

ChannelEvent(t, c) ==
    /\ listener \in ChSessions
    /\ pc[t] = "idle"
    /\ \A u \in Threads : local[u].cmd # c
    /\ C!FaucetCallback(t, c)
    /\ UNCHANGED twitterVars

\* The process dies and is started again.
CrashBoth ==
    /\ crashes < MaxCrashes
    /\ crashes' = crashes + 1
    /\ \/ \E s \in Sessions : session[s] # "idle"
       \/ \E s \in ChSessions : chSession[s] # "idle"
    /\ Down
    /\ C!Down
    /\ UNCHANGED faults

-----------------------------------------------------------------------------

TwitterStep ==
    \/ \E a \in Airdrops : Insert(a)
    \/ \E s \in Sessions : Request(s) \/ Feeder(s)
    \/ \E p \in Procs : Runner(p)
    \/ \E p \in Procs, s \in Sessions : Rendezvous(p, s)
    \/ \E t \in Threads : After(t)

ChannelStep ==
    \/ \E r \in ChannelUsers : C!Register(r)
    \/ \E q \in Plans, r \in ChannelUsers : C!FindChannelUserByUID(q, r)
    \/ \E q \in Plans : C!PlanEnds(q)
    \/ \E s \in ChSessions : C!AirdropChannel(s) \/ C!ClientGone(s) \/ C!airdropTx(s)
    \/ \E p \in ChSessions \cup Threads : C!Runner(p)
    \/ \E p \in ChSessions \cup Threads, s \in ChSessions : C!Rendezvous(p, s)
    \/ \E t \in Threads : C!After(t)

BothNext ==
    \/ TwitterStep /\ UNCHANGED channelVars
    \/ ChannelStep /\ UNCHANGED twitterVars
    \/ \E t \in Threads, c \in DOMAIN cmds : TwitterEvent(t, c) \/ ChannelEvent(t, c)
    \/ CrashBoth

BothSpec == BothInit /\ [][BothNext]_bothVars

\* Goroutines that can go on do; the SDK reports every outcome in the end.
BothFairness ==
    /\ \A s \in Sessions :
          /\ WF_bothVars(Proceed(s) /\ UNCHANGED channelVars)
          /\ WF_bothVars(Feeder(s) /\ UNCHANGED channelVars)
          /\ WF_bothVars((\E p \in Procs : Rendezvous(p, s)) /\ UNCHANGED channelVars)
    /\ \A p \in Procs : WF_bothVars(Runner(p) /\ UNCHANGED channelVars)
    /\ \A s \in ChSessions :
          /\ WF_bothVars(C!Continue(s) /\ UNCHANGED twitterVars)
          /\ WF_bothVars(C!airdropTx(s) /\ UNCHANGED twitterVars)
          /\ WF_bothVars((\E p \in ChSessions \cup Threads : C!Rendezvous(p, s))
                            /\ UNCHANGED twitterVars)
    /\ \A p \in ChSessions \cup Threads : WF_bothVars(C!Runner(p) /\ UNCHANGED twitterVars)
    /\ \A t \in Threads :
          /\ WF_bothVars(After(t) /\ UNCHANGED channelVars)
          /\ WF_bothVars(C!After(t) /\ UNCHANGED twitterVars)
          /\ WF_bothVars(\E c \in DOMAIN cmds : TwitterEvent(t, c) \/ ChannelEvent(t, c))

BothFairSpec == BothSpec /\ BothFairness

-----------------------------------------------------------------------------
(* What must be true of the two together. *)

\* The callbacks of either dispatcher that settle a payment to u.
Settling(u) ==
    {t \in Threads :
        LET settles == {"successFind", "successUpd", "extRead", "extWrite"}
        IN  \/ pc[t] \in settles /\ Owner[cmds[local[t].cmd].to] = u
            \/ chPc[t] \in settles /\ Owner[cmds[chLocal[t].cmd].to] = u}

\* The two balances of UserExt.
Balance(u) ==
    (IF u \in Users THEN airdropCoin[u] ELSE 0)
        + (IF u \in C!P!Users THEN channelAirdropCoin[u] ELSE 0)

\* The most that one payment credits user u with.
Worth == [u \in AllUsers |-> Max(Amounts(u))]

SharedLedger ==
    INSTANCE FaucetLedger WITH
        Accounts <- AllUsers,
        paid <- [u \in AllUsers |-> Cardinality(Commands(u, "succeeded"))],
        owed <- [u \in AllUsers |-> Cardinality(Settling(u))],
        balance <- [u \in AllUsers |-> Balance(u)]

\* Although the last listener is told the outcomes of both dispatchers, and a
\* Twitter row may be settled by the payment of a channel row, no payment is
\* settled twice, and the two balances together move only when one is.
ImplementsSharedLedger == SharedLedger!LedgerSpec

\* A channel row is settled by its own payment only, whichever dispatcher
\* submitted the commands whose outcomes the channel listener is told.
ChannelSettledByOwnPayment == C!SettledByOwnPayment

\* The channel balance is backed by payments of channel rows alone, and by what
\* they paid unless overlapping plans rewrote the row.
ChannelCreditExact == C!CreditExact

\* A request waits for ever only when the other dispatcher took the listener: the
\* outcomes it waits for are then told to the other one.
TwitterReturns ==
    \A s \in Sessions :
        session[s] = "counted" ~> session[s] \in {"done", "killed"} \/ listener \in ChSessions

\* The same for the channel request.
ChannelReturns ==
    \A s \in ChSessions :
        chSession[s] = "counted"
            ~> chSession[s] \in {"done", "killed"} \/ listener \in Sessions

=============================================================================
