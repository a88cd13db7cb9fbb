-------------------------- MODULE AirdropDispatch --------------------------
(***************************************************************************)
(* The Twitter airdrop dispatcher: app/services/airdrop/airdrop.go.        *)
(*                                                                         *)
(* A request AirdropTwitter resets the package variables, registers the    *)
(* SDK listener, starts the goroutine airdropTx (the feeder) and waits on  *)
(* the channel airdropStop.  The feeder submits the first ListNum waiting  *)
(* rows; from then on every outcome the SDK reports submits one more row,  *)
(* until there is none, the budget is used up, or a call fails.            *)
(*                                                                         *)
(* Every access to a package variable and every database call is a step of *)
(* its own; nothing in the code is locked.                                 *)
(***************************************************************************)
EXTENDS AirdropCollection, FaucetClient, FiniteSetsExt

CONSTANTS
    Sessions,    \* the AirdropTwitter requests; s also names its feeder goroutine
    Threads,     \* the goroutines on which the SDK calls the listener
    Budget,      \* totalAirdropNum at the start of a session (20)
    ListNum,     \* getListNum (5)
    MaxFaults,   \* bound: requests given up by the caller, and calls that fail by themselves
    MaxCrashes   \* bound: crashes of the process

ASSUME ProcsAssumption == Sessions \cap Threads = {}
ASSUME BudgetAssumption == Budget \in Nat /\ ListNum \in Nat
ASSUME BoundsAssumption == MaxFaults \in Nat /\ MaxCrashes \in Nat

Procs == Sessions \cup Threads

NoChan == "nil channel"
Background == "background"
NoRow == 0

ASSUME BackgroundAssumption == Background \notin Sessions

VARIABLES
    totalAirdropNum, airdropStop, airdropDo,  \* the package variables
    session,     \* session[s]: where request s is
    waitsOn,     \* waitsOn[s]: the channel request s receives from
    ctxDone,     \* ctxDone[s]: the context of request s is cancelled
    epoch,       \* how many times airdropDo was set
    pc,          \* pc[p]: the next step of goroutine p
    todo,        \* todo[s]: the rows left in the range loop of feeder s
    local,       \* local[p]: the local variables of goroutine p
    faults, crashes

globals == <<totalAirdropNum, airdropStop, airdropDo>>
sessionVars == <<session, waitsOn, ctxDone, epoch>>
procVars == <<pc, todo, local>>
envVars == <<faults, crashes>>
vars == <<collectionVars, clientVars, globals, sessionVars, procVars, envVars>>

Labels ==
    { "idle", "list", "next", "end", "check", "submit", "load", "store",
      "pendingFind", "pendingUpd", "clear", "send", "sending", "txFind", "txUpd",
      "successFind", "successUpd", "extRead", "extWrite", "failedFind",
      "failedUpd", "again", "getOne" }

\* The request before its feeder runs, and while it can be given up.
Unstarted == {"idle", "counted", "opened", "armed"}
Running == {"counted", "opened", "armed", "started", "waiting"}
RequestAt == Unstarted \cup Running \cup {"done", "killed"}

Locals ==
    [ row  : Airdrops \cup {NoRow},                    \* the airdrop at hand
      num  : Int,                                      \* a value read, to be written back
      cmd  : Nat,                                      \* the command of the callback
      ctx  : Sessions \cup {Background, NoListener},   \* the context of the request
      chan : Sessions \cup {NoChan} ]                  \* the channel it sends on

NoLocals ==
    [row |-> NoRow, num |-> 0, cmd |-> 0, ctx |-> Background, chan |-> NoChan]

\* Every variable holds a value of its kind; the commands pay existing rows.
TypeOK ==
    /\ CollectionTypeOK
    /\ cmds \in Seq([to : Airdrops, amount : Nat, by : Procs, ep : Nat, stage : Stage])
    /\ listener \in Sessions \cup {NoListener}
    /\ totalAirdropNum \in Int
    /\ airdropStop \in Sessions \cup {NoChan}
    /\ airdropDo \in BOOLEAN
    /\ session \in [Sessions -> RequestAt]
    /\ waitsOn \in [Sessions -> Sessions \cup {NoChan}]
    /\ ctxDone \in [Sessions -> BOOLEAN]
    /\ epoch \in Nat
    /\ pc \in [Procs -> Labels]
    /\ todo \in [Sessions -> SUBSET Airdrops]
    /\ local \in [Procs -> Locals]
    /\ faults \in Nat
    /\ crashes \in Nat

Init ==
    /\ CollectionInit
    /\ ClientInit
    /\ totalAirdropNum = 0 /\ airdropStop = NoChan /\ airdropDo = FALSE
    /\ session = [s \in Sessions |-> "idle"]
    /\ waitsOn = [s \in Sessions |-> NoChan]
    /\ ctxDone = [s \in Sessions |-> FALSE]
    /\ epoch = 0
    /\ pc = [p \in Procs |-> "idle"]
    /\ todo = [s \in Sessions |-> {}]
    /\ local = [p \in Procs |-> NoLocals]
    /\ faults = 0 /\ crashes = 0

-----------------------------------------------------------------------------
(* Control flow and failing calls. *)

Goto(p, l) == pc' = [pc EXCEPT ![p] = l]

\* Goroutine p returns: the feeder ends, an SDK thread waits for the next event.
Return(p) ==
    /\ Goto(p, IF p \in Sessions THEN "end" ELSE "idle")
    /\ local' = [local EXCEPT ![p] = NoLocals]

Keep(p) == UNCHANGED <<todo, local>>

Cancelled(ctx) == ctx \in Sessions /\ ctxDone[ctx]

\* A call under context ctx succeeds only while the context is alive.
CallOk(ctx) == ~Cancelled(ctx) /\ UNCHANGED envVars

\* A call fails because its context is cancelled, or for reasons of its own.
CallFails(ctx) ==
    /\ UNCHANGED crashes
    /\ IF Cancelled(ctx) THEN UNCHANGED faults
                         ELSE faults < MaxFaults /\ faults' = faults + 1

-----------------------------------------------------------------------------
(* The world around the dispatcher. *)

\* The lookup plan inserts a row for a user (createAirdrop).
Insert(a) ==
    /\ CreateAirdrop(a)
    /\ UNCHANGED <<clientVars, globals, sessionVars, procVars, envVars>>

\* The caller of the request hangs up.
ClientGone(s) ==
    /\ session[s] \in Running
    /\ ~ctxDone[s]
    /\ faults < MaxFaults /\ faults' = faults + 1
    /\ ctxDone' = [ctxDone EXCEPT ![s] = TRUE]
    /\ UNCHANGED <<session, waitsOn, epoch, crashes>>
    /\ UNCHANGED <<collectionVars, clientVars, globals, procVars>>

\* What is left of the dispatcher when its process is started again.
Down ==
    /\ LoseUnfinished /\ listener' = NoListener
    /\ totalAirdropNum' = 0 /\ airdropStop' = NoChan /\ airdropDo' = FALSE
    /\ session' = [s \in Sessions |->
                     IF session[s] \in Running THEN "killed" ELSE session[s]]
    /\ waitsOn' = [s \in Sessions |-> NoChan]
    /\ ctxDone' = [s \in Sessions |-> session[s] # "idle"]
    /\ pc' = [p \in Procs |-> IF p \in Sessions /\ pc[p] # "idle" THEN "end" ELSE "idle"]
    /\ todo' = [s \in Sessions |-> {}]
    /\ local' = [p \in Procs |-> NoLocals]
    /\ UNCHANGED <<collectionVars, epoch>>

\* The process dies and is started again: only the database survives.
Crash ==
    /\ crashes < MaxCrashes
    /\ crashes' = crashes + 1
    /\ \E s \in Sessions : session[s] # "idle"
    /\ Down
    /\ UNCHANGED faults

-----------------------------------------------------------------------------
(* The request. *)

\* AirdropTwitter: three package variables are reset one after the other, ...
ResetBudget(s) ==
    /\ session[s] = "idle"
    /\ totalAirdropNum' = Budget
    /\ session' = [session EXCEPT ![s] = "counted"]
    /\ UNCHANGED <<airdropStop, airdropDo, waitsOn, ctxDone, epoch>>
    /\ UNCHANGED <<collectionVars, clientVars, procVars, envVars>>

ResetStop(s) ==
    /\ session[s] = "counted"
    /\ airdropStop' = s
    /\ session' = [session EXCEPT ![s] = "opened"]
    /\ UNCHANGED <<totalAirdropNum, airdropDo, waitsOn, ctxDone, epoch>>
    /\ UNCHANGED <<collectionVars, clientVars, procVars, envVars>>

ResetDo(s) ==
    /\ session[s] = "opened"
    /\ airdropDo' = TRUE
    /\ epoch' = epoch + 1
    /\ session' = [session EXCEPT ![s] = "armed"]
    /\ UNCHANGED <<totalAirdropNum, airdropStop, waitsOn, ctxDone>>
    /\ UNCHANGED <<collectionVars, clientVars, procVars, envVars>>

\* ... the listener is registered, and the feeder starts.
StartFeeder(s) ==
    /\ session[s] = "armed"
    /\ SetListener(s)
    /\ Goto(s, "list")
    /\ local' = [local EXCEPT ![s].ctx = s]
    /\ session' = [session EXCEPT ![s] = "started"]
    /\ UNCHANGED <<collectionVars, cmds, globals, waitsOn, ctxDone, epoch, todo, envVars>>

\* The select reads the package variable: the channel of the last session started.
AwaitStop(s) ==
    /\ session[s] = "started"
    /\ session' = [session EXCEPT ![s] = "waiting"]
    /\ waitsOn' = [waitsOn EXCEPT ![s] = airdropStop]
    /\ UNCHANGED <<ctxDone, epoch>>
    /\ UNCHANGED <<collectionVars, clientVars, globals, procVars, envVars>>

\* Mutant: airdropToStop without airdropDo = false.
StopClear_KeepsGoing(p) ==
    /\ pc[p] = "clear"
    /\ Goto(p, "send")
    /\ Keep(p)
    /\ UNCHANGED <<collectionVars, clientVars, globals, sessionVars, envVars>>

\* airdropToStop, first statement.
StopClear(p) ==
    /\ pc[p] = "clear"
    /\ airdropDo' = FALSE
    /\ Goto(p, "send")
    /\ Keep(p)
    /\ UNCHANGED <<collectionVars, clientVars, totalAirdropNum, airdropStop, sessionVars, envVars>>

\* airdropToStop, second statement: the channel is read, then the send blocks.
StopSend(p) ==
    /\ pc[p] = "send"
    /\ local' = [local EXCEPT ![p].chan = airdropStop]
    /\ Goto(p, "sending")
    /\ UNCHANGED <<collectionVars, clientVars, globals, sessionVars, todo, envVars>>

\* The unbuffered channel: sender and receiver meet, both go on; the request
\* returns, which cancels its context.
Rendezvous(p, s) ==
    /\ pc[p] = "sending"
    /\ session[s] = "waiting"
    /\ waitsOn[s] = local[p].chan
    /\ session' = [session EXCEPT ![s] = "done"]
    /\ waitsOn' = [waitsOn EXCEPT ![s] = NoChan]
    /\ ctxDone' = [ctxDone EXCEPT ![s] = TRUE]
    /\ Return(p)
    /\ UNCHANGED <<collectionVars, clientVars, globals, epoch, todo, envVars>>

-----------------------------------------------------------------------------
(* airdropTx: the feeder. *)

ListAirdrops(s) ==
    /\ pc[s] = "list"
    /\ UNCHANGED <<collectionVars, clientVars, globals, sessionVars, local>>
    /\ \/ /\ CallOk(local[s].ctx)
          /\ todo' = [todo EXCEPT ![s] = ListAirdrop(WaitingQuery, ListNum)]
          /\ Goto(s, IF todo'[s] = {} THEN "clear" ELSE "next")
       \/ /\ CallFails(local[s].ctx)
          /\ Goto(s, "clear")
          /\ UNCHANGED todo

\* The range loop takes the next row, in the order of the list.
NextAirdrop(s) ==
    /\ pc[s] = "next"
    /\ \E a \in Oldest(todo[s]) :
          /\ todo' = [todo EXCEPT ![s] = @ \ {a}]
          /\ local' = [local EXCEPT ![s].row = a]
          /\ Goto(s, "check")
    /\ UNCHANGED <<collectionVars, clientVars, globals, sessionVars, envVars>>

\* The range loop is over.
FeederEnds(s) ==
    /\ pc[s] = "next"
    /\ todo[s] = {}
    /\ Return(s)
    /\ UNCHANGED <<collectionVars, clientVars, globals, sessionVars, todo, envVars>>

-----------------------------------------------------------------------------
(* airdropRun, by the feeder or by a callback. *)

RunCheck(p) ==
    /\ pc[p] = "check"
    /\ Goto(p, IF totalAirdropNum <= 0 THEN "clear" ELSE "submit")
    /\ Keep(p)
    /\ UNCHANGED <<collectionVars, clientVars, globals, sessionVars, envVars>>

\* The row is paid an amount.  AirdropClient.RunAsync takes no context.
Submit(p, amount) ==
    /\ pc[p] = "submit"
    /\ Keep(p)
    /\ UNCHANGED <<collectionVars, listener, globals, sessionVars>>
    /\ \/ /\ CallOk(Background)
          /\ RunAsync(local[p].row, amount, p, epoch)
          /\ Goto(p, "load")
       \/ /\ CallFails(Background)
          /\ UNCHANGED cmds
          /\ Goto(p, "clear")

\* The coin of an airdrop never changes.
RunSubmit(p) == Submit(p, Coin[local[p].row])

\* totalAirdropNum-- is a load and a store.
RunLoad(p) ==
    /\ pc[p] = "load"
    /\ local' = [local EXCEPT ![p].num = totalAirdropNum]
    /\ Goto(p, "store")
    /\ UNCHANGED <<collectionVars, clientVars, globals, sessionVars, todo, envVars>>

\* Mutant: a row is counted again when it is marked.
RunStore_Twice(p) ==
    /\ pc[p] = "store"
    /\ totalAirdropNum' = local[p].num - 2
    /\ local' = [local EXCEPT ![p].num = 0]
    /\ Goto(p, "pendingFind")
    /\ UNCHANGED <<collectionVars, clientVars, airdropStop, airdropDo, sessionVars, todo, envVars>>

RunStore(p) ==
    /\ pc[p] = "store"
    /\ totalAirdropNum' = local[p].num - 1
    /\ local' = [local EXCEPT ![p].num = 0]
    /\ Goto(p, "pendingFind")
    /\ UNCHANGED <<collectionVars, clientVars, airdropStop, airdropDo, sessionVars, todo, envVars>>

\* pendingAfter reads the row again, if it is still default ...
PendingFind(p) ==
    /\ pc[p] = "pendingFind"
    /\ Keep(p)
    /\ UNCHANGED <<collectionVars, clientVars, globals, sessionVars>>
    /\ LET found == FindAirdrop(PendingAfterQuery(local[p].row))
       IN  \/ /\ CallOk(local[p].ctx)
              /\ Goto(p, IF found = {} THEN "clear" ELSE "pendingUpd")
           \/ /\ CallFails(local[p].ctx)
              /\ Goto(p, "clear")

\* Mutant: pendingAfter does not write.
PendingUpdate_Skipped(p) ==
    /\ pc[p] = "pendingUpd"
    /\ IF p \in Sessions THEN Goto(p, "next") /\ UNCHANGED local ELSE Return(p)
    /\ UNCHANGED <<collectionVars, clientVars, globals, sessionVars, todo, envVars>>

\* ... and marks it pending.  A write that fails may have been applied.
PendingUpdate(p) ==
    /\ pc[p] = "pendingUpd"
    /\ UNCHANGED <<clientVars, globals, sessionVars, todo>>
    /\ \/ /\ CallOk(local[p].ctx)
          /\ UpdateStatusPending(local[p].row)
          /\ IF p \in Sessions THEN Goto(p, "next") /\ UNCHANGED local ELSE Return(p)
       \/ /\ CallFails(local[p].ctx)
          /\ UpdateStatusPending(local[p].row) \/ UNCHANGED collectionVars
          /\ Goto(p, "clear")
          /\ UNCHANGED local

-----------------------------------------------------------------------------
(* The callbacks.  The SDK reports the events of one command in order and   *)
(* one at a time; cb.ctx is the context the listener was registered with.  *)

Callback(t, c, from, stage, entry) ==
    /\ pc[t] = "idle"
    /\ \A u \in Threads : local[u].cmd # c
    /\ Report(c, from, stage)
    /\ local' = [local EXCEPT ![t].cmd = c, ![t].ctx = listener]
    /\ Goto(t, entry)
    /\ UNCHANGED <<collectionVars, listener, globals, sessionVars, todo, envVars>>

\* Mutant: the user is credited when the transaction is generated.
OnTxGenerated_Credits(t, c) == Callback(t, c, {"queued"}, "generated", "successFind")

OnTxGenerated(t, c) == Callback(t, c, {"queued"}, "generated", "txFind")
OnSucceed(t, c)     == Callback(t, c, {"generated"}, "succeeded", "successFind")
OnFailed(t, c)      == Callback(t, c, Unfinished, "failed", "failedFind")

\* The user whose command the callback of thread t is about (cmd.MisesUID).
Payee(t) == Owner[cmds[local[t].cmd].to]

\* A Find of the After functions: on a row go on with it, otherwise skip to "no".
AfterFind(t, query, yes, no) ==
    /\ UNCHANGED <<collectionVars, clientVars, globals, sessionVars, todo>>
    /\ \/ /\ CallOk(Background)
          /\ \E a \in FindAirdrop(query) :
                local' = [local EXCEPT ![t].row = a] /\ Goto(t, yes)
       \/ /\ CallOk(Background)
          /\ FindAirdrop(query) = {}
          /\ UNCHANGED local /\ Goto(t, no)
       \/ /\ CallFails(Background)
          /\ UNCHANGED local /\ Goto(t, no)

\* Mutant: the tx_id of the row is not looked at.
TxFind_AnyTxID(t) ==
    /\ pc[t] = "txFind"
    /\ AfterFind(t, SubmittedQuery(Payee(t)), "txUpd", "idle")

\* txGeneratedAfter: find the pending row of the user; refuse one with a tx_id.
TxFind(t) ==
    /\ pc[t] = "txFind"
    /\ UNCHANGED <<collectionVars, clientVars, globals, sessionVars, todo>>
    /\ \/ /\ CallOk(Background)
          /\ \E a \in FindAirdrop(SubmittedQuery(Payee(t))) :
                /\ txID[a] = NoTx
                /\ local' = [local EXCEPT ![t].row = a]
                /\ Goto(t, "txUpd")
       \/ /\ CallOk(Background)
          /\ \A a \in FindAirdrop(SubmittedQuery(Payee(t))) : txID[a] # NoTx
          /\ Return(t)
       \/ CallFails(Background) /\ Return(t)

\* The transaction of command c gets the id c.
TxUpdate(t) ==
    /\ pc[t] = "txUpd"
    /\ Return(t)
    /\ UNCHANGED <<clientVars, globals, sessionVars, todo>>
    /\ \/ CallOk(Background) /\ UpdateTxID(local[t].row, local[t].cmd)
       \/ /\ CallFails(Background)
          /\ UpdateTxID(local[t].row, local[t].cmd) \/ UNCHANGED collectionVars

\* successAfter: the newest pending row of the user, success, then the balance.
SuccessFind(t) ==
    /\ pc[t] = "successFind"
    /\ AfterFind(t, SubmittedQuery(Payee(t)), "successUpd", "again")

SuccessUpdate(t) ==
    /\ pc[t] = "successUpd"
    /\ Keep(t)
    /\ UNCHANGED <<clientVars, globals, sessionVars>>
    /\ \/ /\ CallOk(Background)
          /\ UpdateStatus(local[t].row, "success")
          /\ Goto(t, "extRead")
       \/ /\ CallFails(Background)
          /\ UpdateStatus(local[t].row, "success") \/ UNCHANGED collectionVars
          /\ Goto(t, "again")

\* updateUserAirdrop: FindOrCreateUserExt, then UpdateAirdrop with the sum.
ExtRead(t) ==
    /\ pc[t] = "extRead"
    /\ UNCHANGED <<collectionVars, clientVars, globals, sessionVars, todo>>
    /\ \/ /\ CallOk(Background)
          /\ local' = [local EXCEPT ![t].num = airdropCoin[Owner[local[t].row]]]
          /\ Goto(t, "extWrite")
       \/ /\ CallFails(Background)
          /\ UNCHANGED local
          /\ Goto(t, "again")

\* Mutants: the amount is subtracted; it replaces the balance; a write that
\* reports an error is tried again.
Credit_Debits(t, amount) ==
    /\ pc[t] = "extWrite"
    /\ Goto(t, "again")
    /\ CallOk(Background)
    /\ UpdateAirdropCoin(Owner[local[t].row], local[t].num - amount)
    /\ UNCHANGED <<clientVars, globals, sessionVars, todo, local>>

Credit_Replaces(t, amount) ==
    /\ pc[t] = "extWrite"
    /\ Goto(t, "again")
    /\ CallOk(Background)
    /\ UpdateAirdropCoin(Owner[local[t].row], amount)
    /\ UNCHANGED <<clientVars, globals, sessionVars, todo, local>>

Credit_Retries(t, amount) ==
    /\ pc[t] = "extWrite"
    /\ UpdateAirdropCoin(Owner[local[t].row], local[t].num + amount)
    /\ UNCHANGED <<clientVars, globals, sessionVars, todo, local>>
    /\ \/ CallOk(Background) /\ Goto(t, "again")
       \/ CallFails(Background) /\ Goto(t, "extRead")

Credit(t, amount) ==
    /\ pc[t] = "extWrite"
    /\ local' = [local EXCEPT ![t].num = 0]
    /\ Goto(t, "again")
    /\ UNCHANGED <<clientVars, globals, sessionVars, todo>>
    /\ LET write == UpdateAirdropCoin(Owner[local[t].row], local[t].num + amount)
       IN  \/ CallOk(Background) /\ write
           \/ CallFails(Background) /\ (write \/ UNCHANGED collectionVars)

ExtWrite(t) == Credit(t, Coin[local[t].row])

\* failedAfter: the newest row of the user the query selects becomes failed.
FailedFind(t) ==
    /\ pc[t] = "failedFind"
    /\ AfterFind(t, FailedAfterQuery(Payee(t)), "failedUpd", "again")

FailedUpdate(t) ==
    /\ pc[t] = "failedUpd"
    /\ Keep(t)
    /\ Goto(t, "again")
    /\ UNCHANGED <<clientVars, globals, sessionVars>>
    /\ \/ CallOk(Background) /\ UpdateStatus(local[t].row, "failed")
       \/ /\ CallFails(Background)
          /\ UpdateStatus(local[t].row, "failed") \/ UNCHANGED collectionVars

\* The end of OnSucceed and OnFailed: if airdropDo, airdropTxOne.
Again(t) ==
    /\ pc[t] = "again"
    /\ IF airdropDo THEN Goto(t, "getOne") /\ UNCHANGED local ELSE Return(t)
    /\ UNCHANGED <<collectionVars, clientVars, globals, sessionVars, todo, envVars>>

\* Mutant: airdropTxOne returns without airdropToStop when no row waits.
GetOne_Silent(t) ==
    /\ pc[t] = "getOne"
    /\ UNCHANGED <<collectionVars, clientVars, globals, sessionVars, todo>>
    /\ \/ /\ CallOk(local[t].ctx)
          /\ \E a \in FindOldestAirdrop(WaitingQuery) :
                local' = [local EXCEPT ![t].row = a] /\ Goto(t, "check")
       \/ /\ CallOk(local[t].ctx)
          /\ FindOldestAirdrop(WaitingQuery) = {}
          /\ Return(t)
       \/ /\ CallFails(local[t].ctx)
          /\ UNCHANGED local /\ Goto(t, "clear")

\* airdropTxOne reads the oldest waiting row under the context of the request.
GetOne(t) ==
    /\ pc[t] = "getOne"
    /\ UNCHANGED <<collectionVars, clientVars, globals, sessionVars, todo>>
    /\ \/ /\ CallOk(local[t].ctx)
          /\ \E a \in FindOldestAirdrop(WaitingQuery) :
                local' = [local EXCEPT ![t].row = a] /\ Goto(t, "check")
       \/ /\ CallOk(local[t].ctx)
          /\ FindOldestAirdrop(WaitingQuery) = {}
          /\ UNCHANGED local /\ Goto(t, "clear")
       \/ /\ CallFails(local[t].ctx)
          /\ UNCHANGED local /\ Goto(t, "clear")

-----------------------------------------------------------------------------

\* AirdropTwitter after its first statement, and as a whole.
Proceed(s) == ResetStop(s) \/ ResetDo(s) \/ StartFeeder(s) \/ AwaitStop(s)

AirdropTwitter(s) == ResetBudget(s) \/ Proceed(s)

Request(s) == AirdropTwitter(s) \/ ClientGone(s)

Feeder(s) == ListAirdrops(s) \/ NextAirdrop(s) \/ FeederEnds(s)

Runner(p) ==
    \/ RunCheck(p) \/ RunSubmit(p) \/ RunLoad(p) \/ RunStore(p)
    \/ PendingFind(p) \/ PendingUpdate(p) \/ StopClear(p) \/ StopSend(p)

After(t) ==
    \/ TxFind(t) \/ TxUpdate(t) \/ SuccessFind(t) \/ SuccessUpdate(t)
    \/ ExtRead(t) \/ ExtWrite(t) \/ FailedFind(t) \/ FailedUpdate(t)
    \/ Again(t) \/ GetOne(t)

Event(t, c) == OnTxGenerated(t, c) \/ OnSucceed(t, c) \/ OnFailed(t, c)

Next ==
    \/ \E a \in Airdrops : Insert(a)
    \/ \E s \in Sessions : Request(s) \/ Feeder(s)
    \/ \E p \in Procs : Runner(p)
    \/ \E p \in Procs, s \in Sessions : Rendezvous(p, s)
    \/ \E t \in Threads : After(t)
    \/ \E t \in Threads, c \in DOMAIN cmds : Event(t, c)
    \/ Crash

Spec == Init /\ [][Next]_vars

\* The scheduler runs every goroutine that can go on, and the SDK reports the
\* outcome of every command while a thread is free to take it.
Fairness ==
    /\ \A s \in Sessions : WF_vars(Proceed(s)) /\ WF_vars(Feeder(s))
    /\ \A p \in Procs : WF_vars(Runner(p))
    /\ \A s \in Sessions : WF_vars(\E p \in Procs : Rendezvous(p, s))
    /\ \A t \in Threads : WF_vars(After(t))
    /\ \A t \in Threads : WF_vars(\E c \in DOMAIN cmds : Event(t, c))

FairSpec == Spec /\ Fairness

-----------------------------------------------------------------------------
(* What must be true. *)

Commands(u, stage) ==
    {c \in DOMAIN cmds : Owner[cmds[c].to] = u /\ cmds[c].stage = stage}

RowsOf(u) == {a \in Airdrops : Owner[a] = u}

\* The most that one payment credits user u with.
Largest(u) == Max({Coin[a] : a \in RowsOf(u)})

RowsIn(u, st) == {a \in RowsOf(u) : status[a] = st}

\* Within one session no goroutine submits the same row twice: a row that could
\* not be marked pending stops the dispatcher (airdropRun returns the error of
\* pendingAfter, and airdropToStop clears airdropDo).  The same row may be
\* submitted by two goroutines, and again in the next session.
RunnerNeverRepeats ==
    \A i, j \in DOMAIN cmds :
        /\ i < j
        /\ cmds[i].by = cmds[j].by
        /\ cmds[i].ep = cmds[j].ep
        => cmds[i].to # cmds[j].to

\* A user is credited only for payments that succeeded, once for each, however
\* callbacks, stale writes, crashes and repeated submissions interleave
\* (successAfter, updateUserAirdrop).  A payment may credit another row of the
\* same user, so the largest amount of the user's rows bounds each credit.
CreditBacked ==
    \A u \in Users :
        airdropCoin[u] <= Largest(u) * Cardinality(Commands(u, "succeeded"))

\* No more rows of a user are settled than commands of the user were answered:
\* one success row per success, one failed row per failure (successAfter,
\* failedAfter find their row by the misesid alone).
SettledBacked ==
    \A u \in Users :
        /\ Cardinality(RowsIn(u, "success")) <= Cardinality(Commands(u, "succeeded"))
        /\ Cardinality(RowsIn(u, "failed")) <= Cardinality(Commands(u, "failed"))

\* airdropRun tests totalAirdropNum and decrements it later, unlocked: the feeder
\* and one thread of callbacks pass the budget by at most one submission.  With
\* more threads stale stores take the counter further down, session after session.
BudgetUndershoot == totalAirdropNum >= -1

\* The amounts of the rows S, unit by unit.
Units(S) == UNION {{a} \X (1..Coin[a]) : a \in S}

\* While no call fails and one thread runs the callbacks, every row that became
\* success is credited by the time the callback that did it goes on.
SuccessIsCredited ==
    \A u \in Users :
        /\ faults = 0 /\ crashes = 0
        /\ \A t \in Threads : pc[t] \notin {"extRead", "extWrite"}
        => airdropCoin[u] >= Cardinality(Units(RowsIn(u, "success")))

\* A request that was answered leaves the dispatcher stopped: no callback that
\* ends later starts another row (airdropToStop clears airdropDo first).
ReturnedMeansStopped == \A s \in Sessions : session[s] = "done" => ~airdropDo

\* A row is pending or success only if a command for this very row was handed
\* to the client: no lookup by misesid ever settles a row that was not submitted
\* (pendingAfter, txGeneratedAfter, successAfter).  failedAfter does not have
\* this property.
SettledWasSubmitted ==
    \A a \in Airdrops :
        status[a] \in {"pending", "success"} => \E c \in DOMAIN cmds : cmds[c].to = a

\* With one callback thread the transaction id of a row is written once: a later
\* command of the same user never overwrites it (txGeneratedAfter).
TxIDWriteOnce == [][\A a \in Airdrops : txID[a] # NoTx => txID'[a] = txID[a]]_vars

\* The request is answered in the end: the feeder, or the callback of the last
\* command, finds nothing more to do and sends on airdropStop.
SessionReturns ==
    \A s \in Sessions : session[s] = "counted" ~> session[s] \in {"done", "killed"}

\* failedAfter asks for a row in Statuses {Default, Pending} and checks that it
\* got one: when it finds nothing, the user has no such row.
FailedCoversPending ==
    [][\A t \in Threads :
         pc[t] = "failedFind" /\ pc'[t] = "again" /\ faults' = faults
           => RowsIn(Payee(t), "default") \cup RowsIn(Payee(t), "pending") = {}]_vars

=============================================================================
