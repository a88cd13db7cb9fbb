------------------------ MODULE AirdropLedgerProofs ------------------------
(***************************************************************************)
(* The accounts of the Twitter dispatcher balance, for every value of the  *)
(* constants: CreditBacked, SettledBacked, and that AirdropDispatch        *)
(* implements FaucetLedger.                                                *)
(*                                                                         *)
(* The argument counts commands.  A command whose outcome was reported is  *)
(* settled once its callback has left successAfter, or failedAfter.  A     *)
(* command never becomes unsettled again, so what was credited or settled  *)
(* for it stays covered; and a callback that credits a balance, or settles *)
(* a row, adds its own command to the settled ones in that same step.      *)
(***************************************************************************)
EXTENDS AirdropLedger, AirdropDispatchProofs, UnitSums

-----------------------------------------------------------------------------
(* The inductive invariant. *)

\* The steps of a callback up to the credit, to the success of the row, and to
\* its failure.
CreditSteps == {"successFind", "successUpd", "extRead", "extWrite"}
SuccessSteps == {"successFind", "successUpd"}
FailSteps == {"failedFind", "failedUpd"}
OutcomeSteps == CreditSteps \cup FailSteps

CallbackAt(c, L) == \E t \in Threads : local[t].cmd = c /\ pc[t] \in L

\* The commands to u with that outcome, whose callback is past the steps L.
Past(u, stage, L) == {c \in Commands(u, stage) : ~CallbackAt(c, L)}

\* A command has one callback at a time, which runs because of its outcome.
OneCallback ==
    \A t, v \in Threads : local[t].cmd # 0 /\ local[t].cmd = local[v].cmd => t = v

OutcomeKnown ==
    \A t \in Threads :
        pc[t] \in OutcomeSteps =>
            /\ local[t].cmd \in DOMAIN cmds
            /\ cmds[local[t].cmd].stage =
                  IF pc[t] \in CreditSteps THEN "succeeded" ELSE "failed"

\* The row at hand is one of the user the command pays.
RowOfPayee ==
    \A t \in Threads :
        pc[t] \in {"successUpd", "extRead", "extWrite", "failedUpd"} =>
            Owner[local[t].row] = Payee(t)

CreditsPast ==
    \A u \in Users :
        airdropCoin[u] <= Largest(u) * Cardinality(Past(u, "succeeded", CreditSteps))

SumsPast ==
    \A t \in Threads :
        pc[t] = "extWrite" =>
            local[t].num <=
                Largest(Payee(t)) * Cardinality(Past(Payee(t), "succeeded", CreditSteps))

RowsPast(st, stage, L) ==
    \A u \in Users :
        /\ IsFiniteSet(RowsIn(u, st))
        /\ Cardinality(RowsIn(u, st)) <= Cardinality(Past(u, stage, L))

SettledPast ==
    /\ RowsPast("success", "succeeded", SuccessSteps)
    /\ RowsPast("failed", "failed", FailSteps)

CallbacksOK == OneCallback /\ OutcomeKnown /\ RowOfPayee

LInv == CallbacksOK /\ CreditsPast /\ SumsPast /\ SettledPast

-----------------------------------------------------------------------------
(* Lemmas about the data. *)

\* The amounts of a user's rows have a largest one.
LEMMA LargestType ==
    ASSUME NEW a \in Airdrops
    PROVE  Largest(Owner[a]) \in Nat /\ Coin[a] <= Largest(Owner[a])
  <1>. DEFINE S == {Coin[b] : b \in RowsOf(Owner[a])}
  <1>1. PICK b \in Airdrops :
          /\ Owner[b] = Owner[a]
          /\ \A c \in Airdrops : Owner[c] = Owner[a] => Coin[c] <= Coin[b]
    BY LargestAssumption
  <1>2. S \subseteq Nat /\ Coin[b] \in S /\ Coin[a] \in S
    BY <1>1, CoinAssumption DEF RowsOf
  <1>3. \A n \in S : Coin[b] >= n
    BY <1>1, CoinAssumption DEF RowsOf
  <1>4. Max(S) \in S /\ \A n \in S : Max(S) >= n
    BY <1>2, <1>3 DEF Max
  <1>. QED
    BY <1>2, <1>4 DEF Largest

\* The lookups of the callbacks return rows of the user they ask for.
LEMMA LookupOwner ==
    /\ \A u : \A a \in FindAirdrop(SubmittedQuery(u)) : a \in Rows /\ Owner[a] = u
    /\ \A u : \A a \in FindAirdrop(FailedAfterQuery(u)) : a \in Rows /\ Owner[a] = u
  <1>1. ASSUME NEW q, NEW u, q.Misesid = {u}, NEW doc, Matches(doc, q)
        PROVE  doc.misesid = u
    <2>. DEFINE clauses == BuildSearchParams(q)
    <2>1. /\ DOMAIN clauses = 1..5
          /\ clauses[1].key = "misesid" /\ clauses[1].in = {u}
          /\ \A j \in 2..5 : clauses[j].key # "misesid"
      BY <1>1 DEF BuildSearchParams
    <2>. HIDE DEF clauses
    <2>2. 1 \in Where(clauses)
      BY <2>1 DEF Where
    <2>. QED
      BY <1>1, <2>1, <2>2 DEF Matches, clauses
  <1>2. \A u : SubmittedQuery(u).Misesid = {u} /\ FailedAfterQuery(u).Misesid = {u}
    BY DEF SubmittedQuery, FailedAfterQuery, ZeroSearch
  <1>3. \A a : Document(a).misesid = Owner[a]
    BY DEF Document
  <1>4. ASSUME NEW q, NEW u, q.Misesid = {u}, NEW a \in FindAirdrop(q)
        PROVE  a \in Rows /\ Owner[a] = u
    BY <1>1, <1>3, <1>4 DEF FindAirdrop, Newest, Selected
  <1>. QED
    BY <1>2, <1>4

\* The commands are finitely many.
PastIsFinite ==
    cmds \in Seq(Command) =>
        \A u, stage, L :
            /\ IsFiniteSet(Commands(u, stage)) /\ IsFiniteSet(Past(u, stage, L))
            /\ Cardinality(Commands(u, stage)) \in Nat
            /\ Cardinality(Past(u, stage, L)) \in Nat
            /\ Cardinality(Past(u, stage, L)) <= Cardinality(Commands(u, stage))

LEMMA PastFinite == PastIsFinite
  <1>. SUFFICES ASSUME cmds \in Seq(Command), NEW u, NEW stage, NEW L
                PROVE  /\ IsFiniteSet(Commands(u, stage)) /\ IsFiniteSet(Past(u, stage, L))
                       /\ Cardinality(Commands(u, stage)) \in Nat
                       /\ Cardinality(Past(u, stage, L)) \in Nat
                       /\ Cardinality(Past(u, stage, L)) <= Cardinality(Commands(u, stage))
    BY DEF PastIsFinite
  <1>1. IsFiniteSet(DOMAIN cmds)
    <2>1. DOMAIN cmds = 1 .. Len(cmds) /\ Len(cmds) \in Nat
      OBVIOUS
    <2>. QED
      BY <2>1, FS_Interval
  <1>2. IsFiniteSet(Commands(u, stage))
    BY <1>1, FS_Subset DEF Commands
  <1>3. Past(u, stage, L) \in SUBSET Commands(u, stage)
    BY DEF Past
  <1>. QED
    BY <1>2, <1>3, FS_Subset, FS_CardinalityType

LEMMA PastFiniteNext == PastIsFinite'
  BY PastFinite, PTL

\* Multiples grow with the factor.
LEMMA Multiples ==
    ASSUME NEW w \in Nat, NEW m \in Nat, NEW n \in Nat, m <= n
    PROVE  w * m <= w * n /\ w * m \in Nat /\ w * (m + 1) = w * m + w
  OBVIOUS

-----------------------------------------------------------------------------
(* What a step can do to the callbacks and to the outcomes of commands. *)

SameCmd(t) == local'[t].cmd = local[t].cmd

ThreadStays(t) == pc'[t] = pc[t] /\ local'[t] = local[t]

\* Not in the steps of an outcome, before or after.
ThreadFree(t) ==
    /\ pc[t] \notin OutcomeSteps /\ pc'[t] \notin OutcomeSteps
    /\ SameCmd(t) \/ local'[t].cmd = 0

ThreadLeaves(t) ==
    /\ pc[t] \in OutcomeSteps /\ pc'[t] \notin OutcomeSteps
    /\ SameCmd(t)

ThreadGoesOn(t) ==
    /\ SameCmd(t)
    /\ \/ /\ \/ pc[t] = "successFind" /\ pc'[t] = "successUpd"
             \/ pc[t] = "failedFind" /\ pc'[t] = "failedUpd"
          /\ Owner[local'[t].row] = Payee(t)
       \/ /\ \/ pc[t] = "successUpd" /\ pc'[t] = "extRead"
             \/ /\ pc[t] = "extRead" /\ pc'[t] = "extWrite"
                /\ local'[t].num = airdropCoin[Owner[local[t].row]]
          /\ SameRow(t)

\* A callback starts with a command that no other callback has.
ThreadStarts(t) ==
    \E c \in DOMAIN cmds :
        /\ \A v \in Threads : local[v].cmd # c
        /\ cmds[c].stage \in Unfinished
        /\ local'[t].cmd = c
        /\ pc[t] \notin OutcomeSteps
        /\ \A v \in Threads \ {t} : ThreadStays(v)
        /\ \/ pc'[t] = "txFind" /\ cmds'[c].stage = "generated"
           \/ pc'[t] = "successFind" /\ cmds'[c].stage = "succeeded"
           \/ pc'[t] = "failedFind" /\ cmds'[c].stage = "failed"

ThreadMove(t) ==
    \/ ThreadStays(t) \/ ThreadFree(t) \/ ThreadLeaves(t) \/ ThreadGoesOn(t)
    \/ ThreadStarts(t)
    \/ pc'[t] = "idle" /\ local'[t].cmd = 0    \* a crash

\* A step of a runner moves one goroutine, and is none of an outcome.
LEMMA RunnerMove ==
    ASSUME ProcsOK, NEW p \in Procs, Runner(p) \/ (\E s \in Sessions : Rendezvous(p, s))
    PROVE  /\ \A q \in Procs \ {p} : pc'[q] = pc[q] /\ local'[q] = local[q]
           /\ pc[p] # "idle"
           /\ ThreadFree(p)
  <1>. USE DEF ThreadFree, SameCmd, OutcomeSteps, CreditSteps, FailSteps
  <1>1. CASE RunCheck(p)
    BY <1>1 DEF RunCheck, Keep, Goto, ProcsOK
  <1>2. CASE RunSubmit(p)
    BY <1>2 DEF RunSubmit, Submit, Keep, Goto, ProcsOK
  <1>3. CASE RunLoad(p)
    BY <1>3 DEF RunLoad, Goto, ProcsOK, Locals
  <1>4. CASE RunStore(p)
    BY <1>4 DEF RunStore, Goto, ProcsOK, Locals
  <1>5. CASE PendingFind(p)
    BY <1>5 DEF PendingFind, Keep, Goto, ProcsOK
  <1>6. CASE PendingUpdate(p)
    BY <1>6
    DEF PendingUpdate, Return, NoLocals, Goto, ProcsOK
  <1>7. CASE StopClear(p)
    BY <1>7 DEF StopClear, Keep, Goto, ProcsOK
  <1>8. CASE StopSend(p)
    BY <1>8 DEF StopSend, Goto, ProcsOK, Locals
  <1>9. CASE \E s \in Sessions : Rendezvous(p, s)
    BY <1>9
    DEF Rendezvous, Return, NoLocals, Goto, ProcsOK
  <1>. QED
    BY <1>1, <1>2, <1>3, <1>4, <1>5, <1>6, <1>7, <1>8, <1>9 DEF Runner

LEMMA RunnerThread ==
    ASSUME TInv, NEW p \in Procs, Runner(p) \/ (\E s \in Sessions : Rendezvous(p, s)),
           NEW t \in Threads
    PROVE  ThreadMove(t)
  <1>1. ProcsOK /\ t \in Procs
    BY TypeParts DEF TInv, Procs
  <1>. QED
    BY <1>1, RunnerMove DEF ThreadMove, ThreadStays

\* A thread that starts a callback.
LEMMA EventThread ==
    ASSUME TInv, NEW p \in Threads, NEW c \in DOMAIN cmds, Event(p, c), NEW t \in Threads
    PROVE  ThreadMove(t)
  <1>0. /\ ProcsOK /\ t \in Procs /\ p \in Procs
        /\ cmds \in Seq(Command)
    BY TypeParts DEF TInv, Procs, ClientOK
  <1>1. PICK from \in SUBSET Unfinished, stage \in {"generated", "succeeded", "failed"},
             entry \in {"txFind", "successFind", "failedFind"} :
          /\ Callback(p, c, from, stage, entry)
          /\ \/ entry = "txFind" /\ stage = "generated"
             \/ entry = "successFind" /\ stage = "succeeded"
             \/ entry = "failedFind" /\ stage = "failed"
    BY DEF Event, OnTxGenerated, OnSucceed, OnFailed, Unfinished
  <1>2. /\ \A v \in Threads : local[v].cmd # c
        /\ cmds[c].stage \in Unfinished
        /\ cmds'[c].stage = stage
    <2>1. cmds[c] \in Command
      BY <1>0
    <2>2. /\ \A v \in Threads : local[v].cmd # c
          /\ cmds[c].stage \in from
          /\ cmds' = [cmds EXCEPT ![c].stage = stage]
      BY <1>1 DEF Callback, Report
    <2>3. cmds'[c] = [cmds[c] EXCEPT !.stage = stage]
      BY <1>0, <2>2
    <2>. QED
      BY <1>1, <2>1, <2>2, <2>3 DEF Command
  <1>3. /\ \A q \in Procs \ {p} : pc'[q] = pc[q] /\ local'[q] = local[q]
        /\ pc[p] = "idle" /\ pc'[p] = entry
        /\ local'[p].cmd = c
    BY <1>0, <1>1 DEF Callback, Goto, ProcsOK, Locals
  <1>4. CASE t = p
    BY <1>1, <1>2, <1>3, <1>4
    DEF ThreadMove, ThreadStarts, ThreadStays, Procs, OutcomeSteps, CreditSteps, FailSteps
  <1>5. CASE t # p
    BY <1>0, <1>3, <1>5 DEF ThreadMove, ThreadStays
  <1>. QED
    BY <1>4, <1>5

\* A step of a callback moves one thread.
AfterMoved(p) ==
    /\ \A q \in Procs \ {p} : pc'[q] = pc[q]
    /\ \A q \in Procs \ {p} : local'[q] = local[q]
    /\ ThreadFree(p) \/ ThreadLeaves(p) \/ ThreadGoesOn(p)

LEMMA AfterMove ==
    ASSUME ProcsOK, NEW p \in Threads, After(p)
    PROVE  AfterMoved(p) /\ pc[p] # "idle"
  <1>. USE DEF OutcomeSteps, CreditSteps, FailSteps
  <1>0. p \in Procs /\ p \notin Sessions
    BY ProcsAssumption DEF Procs
  <1>2. ASSUME NEW l, Goto(p, l), l \notin OutcomeSteps,
               \/ UNCHANGED local
               \/ \E a : local' = [local EXCEPT ![p].row = a]
               \/ \E n : local' = [local EXCEPT ![p].num = n]
        PROVE  AfterMoved(p)
    <2>1. pc'[p] = l /\ \A q \in Procs \ {p} : pc'[q] = pc[q]
      BY <1>0, <1>2 DEF Goto, ProcsOK
    <2>2. SameCmd(p) /\ \A q \in Procs \ {p} : local'[q] = local[q]
      BY <1>0, <1>2 DEF ProcsOK, Locals, SameCmd
    <2>. QED
      BY <1>2, <2>1, <2>2 DEF AfterMoved, ThreadFree, ThreadLeaves
  <1>3. ASSUME Return(p), pc[p] \notin OutcomeSteps
        PROVE  AfterMoved(p)
    BY <1>0, <1>3 DEF Return, NoLocals, Goto, ProcsOK, ThreadFree, AfterMoved
  <1>4. ASSUME NEW l \in {"successUpd", "failedUpd"}, NEW a, Goto(p, l), Owner[a] = Payee(p),
               local' = [local EXCEPT ![p].row = a],
               pc[p] = IF l = "successUpd" THEN "successFind" ELSE "failedFind"
        PROVE  AfterMoved(p)
    BY <1>0, <1>4 DEF Goto, ProcsOK, Locals, SameCmd, ThreadGoesOn, AfterMoved
  <1>5. ASSUME NEW l \in {"extRead", "extWrite"}, Goto(p, l),
               IF l = "extRead"
               THEN pc[p] = "successUpd" /\ UNCHANGED local
               ELSE /\ pc[p] = "extRead"
                    /\ local' = [local EXCEPT ![p].num = airdropCoin[Owner[local[p].row]]]
        PROVE  AfterMoved(p)
    BY <1>0, <1>5 DEF Goto, ProcsOK, Locals, SameCmd, SameRow, ThreadGoesOn, AfterMoved
  <1>6. CASE TxFind(p) \/ TxUpdate(p)
    BY <1>2, <1>3, <1>6 DEF TxFind, TxUpdate
  <1>7. CASE SuccessFind(p)
    BY <1>2, <1>4, <1>7, LookupOwner DEF SuccessFind, AfterFind
  <1>8. CASE SuccessUpdate(p)
    BY <1>2, <1>5, <1>8 DEF SuccessUpdate, Keep
  <1>9. CASE ExtRead(p)
    BY <1>2, <1>5, <1>9 DEF ExtRead
  <1>10. CASE ExtWrite(p)
    BY <1>2, <1>10 DEF ExtWrite, Credit
  <1>11. CASE FailedFind(p)
    BY <1>2, <1>4, <1>11, LookupOwner DEF FailedFind, AfterFind
  <1>12. CASE FailedUpdate(p)
    BY <1>2, <1>12 DEF FailedUpdate, Keep
  <1>13. CASE Again(p)
    BY <1>2, <1>3, <1>13 DEF Again
  <1>14. CASE GetOne(p)
    BY <1>2, <1>14 DEF GetOne
  <1>15. pc[p] # "idle"
    BY DEF After, TxFind, TxUpdate, SuccessFind, SuccessUpdate, ExtRead, ExtWrite, Credit,
       FailedFind,
           FailedUpdate, Again, GetOne
  <1>. QED
    BY <1>6, <1>7, <1>8, <1>9, <1>10, <1>11, <1>12, <1>13, <1>14, <1>15 DEF After

LEMMA AfterThread ==
    ASSUME TInv, NEW p \in Threads, After(p), NEW t \in Threads
    PROVE  ThreadMove(t)
  <1>1. ProcsOK /\ t \in Procs
    BY TypeParts DEF TInv, Procs
  <1>. QED
    BY <1>1, AfterMove DEF AfterMoved, ThreadMove, ThreadStays

\* All steps together.
LEMMA CallbackMoves ==
    ASSUME TInv, Next, NEW t \in Threads
    PROVE  ThreadMove(t)
  <1>0. ProcsOK /\ t \in Procs /\ t \notin Sessions
    BY TypeParts, ProcsAssumption DEF TInv, Procs
  <1>1. ASSUME pc'[t] = pc[t], local'[t] = local[t] PROVE ThreadMove(t)
    BY <1>1 DEF ThreadMove, ThreadStays
  <1>2. CASE \E a \in Airdrops : Insert(a)
    BY <1>1, <1>2 DEF Insert, procVars
  <1>3. CASE \E s \in Sessions : Request(s)
    BY <1>0, <1>1, <1>3
    DEF Request, AirdropTwitter, Proceed, ResetBudget, ResetStop, ResetDo, StartFeeder,
        AwaitStop, ClientGone, Goto, procVars, ProcsOK
  <1>4. CASE \E s \in Sessions : Feeder(s)
    BY <1>0, <1>1, <1>4
    DEF Feeder, ListAirdrops, NextAirdrop, FeederEnds, Return, Goto, ProcsOK
  <1>5. CASE \E p \in Procs : Runner(p) \/ \E s \in Sessions : Rendezvous(p, s)
    BY <1>5, RunnerThread
  <1>6. CASE \E p \in Threads : After(p)
    BY <1>6, AfterThread
  <1>7. CASE \E p \in Threads, c \in DOMAIN cmds : Event(p, c)
    BY <1>7, EventThread
  <1>8. CASE Crash
    BY <1>0, <1>8 DEF Crash, Down, NoLocals, ThreadMove
  <1>. QED
    BY <1>2, <1>3, <1>4, <1>5, <1>6, <1>7, <1>8 DEF Next

\* What a step does to the stages: nothing, a new command, one report, or a crash.
LEMMA StageSteps ==
    ASSUME TInv, Next
    PROVE  \/ UNCHANGED cmds
           \/ \E p \in Procs : Submission(p)
           \/ \E t \in Threads, c \in DOMAIN cmds : Event(t, c)
           \/ Crash
  <1>1. CASE \E a \in Airdrops : Insert(a)
    BY <1>1 DEF Insert, clientVars
  <1>2. CASE \E s \in Sessions : Request(s) \/ Feeder(s)
    BY <1>2
    DEF Request, AirdropTwitter, Proceed, ResetBudget, ResetStop, ResetDo, StartFeeder,
        AwaitStop, ClientGone, Feeder, ListAirdrops, NextAirdrop, FeederEnds, clientVars
  <1>3. CASE \E p \in Procs : Runner(p)
    BY <1>3
    DEF Runner, RunCheck, RunSubmit, Submit, RunAsync, Submission, RunLoad, RunStore, PendingFind,
        PendingUpdate, StopClear, StopSend, clientVars
  <1>4. CASE \E p \in Procs, s \in Sessions : Rendezvous(p, s)
    BY <1>4 DEF Rendezvous, clientVars
  <1>5. CASE \E t \in Threads : After(t)
    BY <1>5
    DEF After, TxFind, TxUpdate, SuccessFind, SuccessUpdate, ExtRead, ExtWrite, Credit, FailedFind,
        FailedUpdate, Again, GetOne, AfterFind, clientVars
  <1>. QED
    BY <1>1, <1>2, <1>3, <1>4, <1>5 DEF Next

\* The outcome of a command is final, and a new command has none.
LEMMA OutcomesFinal ==
    ASSUME TInv, Next
    PROVE  /\ \A c \in DOMAIN cmds :
                 /\ c \in DOMAIN cmds' /\ cmds'[c].to = cmds[c].to
                 /\ cmds[c].stage \notin Unfinished => cmds'[c].stage = cmds[c].stage
           /\ \A c \in DOMAIN cmds' \ DOMAIN cmds : cmds'[c].stage \in Unfinished
  <1>0. cmds \in Seq(Command)
    BY TypeParts DEF TInv, ClientOK
  <1>1. \A c \in DOMAIN cmds : c \in DOMAIN cmds' /\ cmds'[c].to = cmds[c].to
    BY OneCommand
  <1>2. CASE UNCHANGED cmds
    BY <1>1, <1>2
  <1>3. ASSUME NEW p \in Procs, Submission(p)
        PROVE  /\ \A c \in DOMAIN cmds : cmds'[c] = cmds[c]
               /\ \A c \in DOMAIN cmds' \ DOMAIN cmds : cmds'[c].stage = "queued"
    <2>. DEFINE new == [ to |-> local[p].row, amount |-> Coin[local[p].row], by |-> p,
                         ep |-> epoch, stage |-> "queued" ]
    <2>1. cmds' = Append(cmds, new) /\ new.stage = "queued"
      BY <1>3 DEF Submission
    <2>. HIDE DEF new
    <2>. QED
      BY <1>0, <2>1
  <1>4. ASSUME NEW t \in Threads, NEW c \in DOMAIN cmds, Event(t, c)
        PROVE  /\ DOMAIN cmds' = DOMAIN cmds
               /\ cmds[c].stage \in Unfinished
               /\ \A d \in DOMAIN cmds : d # c => cmds'[d] = cmds[d]
    BY <1>0, <1>4
    DEF Event, OnTxGenerated, OnSucceed, OnFailed, Callback, Report, Unfinished
  <1>5. CASE Crash
    BY <1>0, <1>1, <1>5 DEF Crash, Down, LoseUnfinished
  <1>. QED
    BY <1>1, <1>2, <1>3, <1>4, <1>5, StageSteps DEF Unfinished

-----------------------------------------------------------------------------
(* The callbacks, and the commands that are past theirs. *)

LEMMA CallbacksNext ==
    ASSUME TInv, CallbacksOK, Next
    PROVE  CallbacksOK'
  <1>. USE DEF OutcomeSteps, CreditSteps, FailSteps
  <1>0. cmds \in Seq(Command) /\ ProcsOK /\ Threads \subseteq Procs
    BY TypeParts DEF TInv, ClientOK, Procs
  <1>1. OneCallback'
    <2>1. SUFFICES ASSUME NEW t \in Threads, NEW v \in Threads,
                          local'[t].cmd # 0, local'[t].cmd = local'[v].cmd
                   PROVE  t = v
      BY DEF OneCallback
    <2>2. CASE SameCmd(t) /\ SameCmd(v)
      BY <2>1, <2>2 DEF CallbacksOK, OneCallback, SameCmd
    <2>3. CASE ThreadStarts(t)
      BY <2>1, <2>3 DEF ThreadStarts, ThreadStays
    <2>4. CASE ThreadStarts(v)
      BY <2>1, <2>4 DEF ThreadStarts, ThreadStays
    <2>. QED
      BY <2>1, <2>2, <2>3, <2>4, CallbackMoves
      DEF ThreadMove, ThreadStays, ThreadFree, ThreadLeaves, ThreadGoesOn, SameCmd
  <1>2. OutcomeKnown'
    <2>1. SUFFICES ASSUME NEW t \in Threads, pc'[t] \in OutcomeSteps
                   PROVE  /\ local'[t].cmd \in DOMAIN cmds'
                          /\ cmds'[local'[t].cmd].stage =
                                IF pc'[t] \in CreditSteps THEN "succeeded" ELSE "failed"
      BY DEF OutcomeKnown
    <2>2. CASE ThreadStarts(t)
      BY <2>1, <2>2, OutcomesFinal DEF ThreadStarts
    <2>3. CASE ThreadStays(t) \/ ThreadGoesOn(t)
      <3>1. /\ SameCmd(t) /\ pc[t] \in OutcomeSteps
            /\ pc'[t] \in CreditSteps <=> pc[t] \in CreditSteps
        BY <2>1, <2>3 DEF ThreadStays, ThreadGoesOn, SameCmd
      <3>2. /\ local[t].cmd \in DOMAIN cmds
            /\ cmds[local[t].cmd].stage =
                  IF pc[t] \in CreditSteps THEN "succeeded" ELSE "failed"
        BY <3>1 DEF CallbacksOK, OutcomeKnown
      <3>. QED
        BY <3>1, <3>2, OutcomesFinal DEF SameCmd, Unfinished
    <2>. QED
      BY <2>1, <2>2, <2>3, CallbackMoves DEF ThreadMove, ThreadFree, ThreadLeaves
  <1>3. RowOfPayee'
    <2>1. SUFFICES ASSUME NEW t \in Threads,
                          pc'[t] \in {"successUpd", "extRead", "extWrite", "failedUpd"}
                   PROVE  Owner[local'[t].row] = Owner[cmds'[local'[t].cmd].to]
      BY DEF RowOfPayee, Payee
    <2>2. CASE ThreadStays(t) \/ ThreadGoesOn(t)
      <3>1. SameCmd(t) /\ pc[t] \in OutcomeSteps
        BY <2>1, <2>2 DEF ThreadStays, ThreadGoesOn, SameCmd
      <3>2. Owner[cmds'[local'[t].cmd].to] = Payee(t)
        BY <3>1, OutcomesFinal DEF CallbacksOK, OutcomeKnown, SameCmd, Payee
      <3>. QED
        BY <2>1, <2>2, <3>2 DEF ThreadStays, ThreadGoesOn, SameRow, CallbacksOK, RowOfPayee
    <2>. QED
      BY <2>1, <2>2, CallbackMoves DEF ThreadMove, ThreadFree, ThreadLeaves, ThreadStarts
  <1>. QED
    BY <1>1, <1>2, <1>3 DEF CallbacksOK

\* A command that is past its callback stays so.
LEMMA PastGrows ==
    ASSUME TInv, CallbacksOK, Next, NEW u, NEW stage \in {"succeeded", "failed"},
           NEW L \in {CreditSteps, SuccessSteps, FailSteps}
    PROVE  Past(u, stage, L) \subseteq Past(u, stage, L)'
  <1>1. SUFFICES ASSUME NEW c \in Past(u, stage, L)
                 PROVE  c \in Past(u, stage, L)'
    OBVIOUS
  <1>2. c \in DOMAIN cmds /\ Owner[cmds[c].to] = u /\ cmds[c].stage = stage
    BY <1>1 DEF Past, Commands
  <1>3. c \in Commands(u, stage)'
    BY <1>2, OutcomesFinal DEF Commands, Unfinished
  <1>4. ~CallbackAt(c, L)'
    <2>1. SUFFICES ASSUME NEW t \in Threads, local'[t].cmd = c, pc'[t] \in L
                   PROVE  FALSE
      BY DEF CallbackAt
    <2>2. ~(local[t].cmd = c /\ pc[t] \in L)
      BY <1>1 DEF Past, CallbackAt
    <2>3. ~ThreadStarts(t)
      BY <1>2, <2>1 DEF ThreadStarts, Unfinished
    <2>. QED
      BY <2>1, <2>2, <2>3, CallbackMoves
      DEF ThreadMove, ThreadStays, ThreadFree, ThreadLeaves, ThreadGoesOn, SameCmd,
          OutcomeSteps, CreditSteps, SuccessSteps, FailSteps
  <1>. QED
    BY <1>3, <1>4 DEF Past

\* A callback that leaves the steps L adds its command.
LEMMA PastAdds ==
    ASSUME TInv, CallbacksOK, Next, NEW stage \in {"succeeded", "failed"},
           NEW L \in {CreditSteps, SuccessSteps, FailSteps},
           NEW t \in Threads, pc[t] \in L, pc'[t] \notin L, SameCmd(t),
           L # FailSteps <=> stage = "succeeded",
           NEW u, Payee(t) = u
    PROVE  Cardinality(Past(u, stage, L))' >= Cardinality(Past(u, stage, L)) + 1
  <1>1. cmds \in Seq(Command) /\ cmds' \in Seq(Command)
    BY TypeParts, TInvNext DEF TInv, ClientOK
  <1>2. PICK c \in DOMAIN cmds :
          /\ local[t].cmd = c /\ c # 0
          /\ cmds[c].stage = stage /\ Owner[cmds[c].to] = u
    <2>1. L = FailSteps \/ L \subseteq CreditSteps
      BY DEF CreditSteps, SuccessSteps
    <2>2. CreditSteps \cap FailSteps = {}
      BY DEF CreditSteps, FailSteps
    <2>3. L = FailSteps <=> stage = "failed"
      OBVIOUS
    <2>4. local[t].cmd \in DOMAIN cmds /\ cmds[local[t].cmd].stage = stage
      BY <2>1, <2>2, <2>3 DEF CallbacksOK, OutcomeKnown, OutcomeSteps
    <2>. QED
      BY <1>1, <2>4 DEF Payee
  <1>3. c \notin Past(u, stage, L)
    BY <1>2 DEF Past, CallbackAt
  <1>4. c \in Past(u, stage, L)'
    <2>1. c \in Commands(u, stage)'
      BY <1>2, OutcomesFinal DEF Commands, Unfinished
    <2>2. SUFFICES ASSUME NEW v \in Threads, local'[v].cmd = c, pc'[v] \in L
                   PROVE  FALSE
      BY <2>1 DEF Past, CallbackAt
    <2>3. ~ThreadStarts(v)
      BY <1>2, <2>2 DEF ThreadStarts, Unfinished
    <2>4. local[v].cmd = c
      BY <2>2, <2>3, CallbackMoves
      DEF ThreadMove, ThreadStays, ThreadFree, ThreadLeaves, ThreadGoesOn, SameCmd,
          OutcomeSteps, CreditSteps, SuccessSteps, FailSteps
    <2>5. v = t
      BY <1>2, <2>4 DEF CallbacksOK, OneCallback
    <2>. QED
      BY <2>2, <2>5
  <1>. DEFINE A == Past(u, stage, L)
              B == Past(u, stage, L)'
  <1>5. /\ IsFiniteSet(A) /\ IsFiniteSet(B)
        /\ Cardinality(A) \in Nat /\ Cardinality(B) \in Nat
        /\ Cardinality(B) = Cardinality(Past(u, stage, L))'
    BY <1>1, PastFinite, PastFiniteNext DEF PastIsFinite
  <1>6. A \cup {c} \subseteq B /\ c \notin A
    BY <1>3, <1>4, PastGrows
  <1>. HIDE DEF A, B
  <1>7. Cardinality(A \cup {c}) = Cardinality(A) + 1
    BY <1>5, <1>6, FS_AddElement
  <1>8. Cardinality(A \cup {c}) <= Cardinality(B)
    BY <1>5, <1>6, FS_Subset
  <1>9. Cardinality(A) + 1 <= Cardinality(B)
    BY <1>5, <1>7, <1>8
  <1>. QED
    BY <1>5, <1>9 DEF A, B

\* The commands that are past their callback do not become fewer.
LEMMA PastCount ==
    ASSUME TInv, CallbacksOK, Next, NEW u, NEW stage \in {"succeeded", "failed"},
           NEW L \in {CreditSteps, SuccessSteps, FailSteps}
    PROVE  /\ Cardinality(Past(u, stage, L)) \in Nat
           /\ Cardinality(Past(u, stage, L))' \in Nat
           /\ Cardinality(Past(u, stage, L))' >= Cardinality(Past(u, stage, L))
  <1>1. cmds \in Seq(Command) /\ cmds' \in Seq(Command)
    BY TypeParts, TInvNext DEF TInv, ClientOK
  <1>. DEFINE A == Past(u, stage, L)
              B == Past(u, stage, L)'
  <1>2. /\ IsFiniteSet(B) /\ Cardinality(A) \in Nat /\ Cardinality(B) \in Nat
        /\ Cardinality(B) = Cardinality(Past(u, stage, L))'
    BY <1>1, PastFinite, PastFiniteNext DEF PastIsFinite
  <1>3. A \subseteq B
    BY PastGrows
  <1>. HIDE DEF A, B
  <1>4. Cardinality(A) <= Cardinality(B)
    BY <1>2, <1>3, FS_Subset
  <1>. QED
    BY <1>2, <1>4 DEF A, B

-----------------------------------------------------------------------------
(* The balances. *)

\* A balance moves only when a callback stores the sum it computed.
LEMMA CoinSteps ==
    ASSUME Next
    PROVE  \/ UNCHANGED airdropCoin
           \/ \E t \in Threads :
                 /\ ExtWrite(t)
                 /\ UpdateAirdropCoin(Owner[local[t].row], local[t].num + Coin[local[t].row])
  <1>1. CASE \E a \in Airdrops : Insert(a)
    BY <1>1 DEF Insert, CreateAirdrop
  <1>2. CASE \E s \in Sessions : Request(s) \/ Feeder(s)
    BY <1>2
    DEF Request, AirdropTwitter, Proceed, ResetBudget, ResetStop, ResetDo, StartFeeder,
        AwaitStop, ClientGone, Feeder, ListAirdrops, NextAirdrop, FeederEnds, collectionVars
  <1>3. CASE \E p \in Procs : Runner(p)
    BY <1>3
    DEF Runner, RunCheck, RunSubmit, Submit, RunLoad, RunStore, PendingFind, PendingUpdate,
        UpdateStatusPending, StopClear, StopSend, collectionVars
  <1>4. CASE \E p \in Procs, s \in Sessions : Rendezvous(p, s)
    BY <1>4 DEF Rendezvous, collectionVars
  <1>5. CASE \E t \in Threads : After(t)
    <2>1. PICK t \in Threads : After(t)
      BY <1>5
    <2>2. CASE ExtWrite(t)
      BY <2>2 DEF ExtWrite, Credit, collectionVars
    <2>3. CASE ~ExtWrite(t)
      BY <2>1, <2>3
      DEF After, TxFind, TxUpdate, UpdateTxID, SuccessFind, SuccessUpdate, UpdateStatus,
          ExtRead, FailedFind, FailedUpdate, Again, GetOne, AfterFind, collectionVars
    <2>. QED
      BY <2>2, <2>3
  <1>6. CASE \E t \in Threads, c \in DOMAIN cmds : Event(t, c)
    BY <1>6 DEF Event, OnTxGenerated, OnSucceed, OnFailed, Callback, collectionVars
  <1>7. CASE Crash
    BY <1>7 DEF Crash, Down, collectionVars
  <1>. QED
    BY <1>1, <1>2, <1>3, <1>4, <1>5, <1>6, <1>7 DEF Next

\* The user that a callback with an outcome pays.
LEMMA PayeeType ==
    ASSUME TInv, CallbacksOK, NEW t \in Threads, pc[t] \in OutcomeSteps
    PROVE  Payee(t) \in Users /\ Largest(Payee(t)) \in Nat
  <1>1. PICK c \in DOMAIN cmds : local[t].cmd = c
    BY DEF CallbacksOK, OutcomeKnown
  <1>2. cmds[c].to \in Airdrops
    <2>1. cmds \in Seq(Command)
      BY TypeParts DEF TInv, ClientOK
    <2>2. cmds[c] \in Command
      BY <2>1
    <2>. QED
      BY <2>2 DEF Command
  <1>. QED
    BY <1>1, <1>2, LargestType DEF Payee, Users

LEMMA CreditsNext ==
    ASSUME TInv, CallbacksOK, CreditsPast, SumsPast, Next
    PROVE  CreditsPast'
  <1>. USE DEF OutcomeSteps
  <1>0. airdropCoin \in [Users -> Nat] /\ ProcsOK /\ Threads \subseteq Procs
    BY TypeParts DEF TInv, DbOK, Procs
  <1>1. SUFFICES ASSUME NEW u \in Users
                 PROVE  airdropCoin'[u] <= Largest(u)
                                  * Cardinality(Past(u, "succeeded", CreditSteps))'
    BY DEF CreditsPast
  <1>2. /\ Largest(u) \in Nat
        /\ Cardinality(Past(u, "succeeded", CreditSteps)) \in Nat
        /\ Cardinality(Past(u, "succeeded", CreditSteps))' \in Nat
        /\ Cardinality(Past(u, "succeeded", CreditSteps))'
              >= Cardinality(Past(u, "succeeded", CreditSteps))
    BY PastCount, LargestType DEF Users
  <1>. DEFINE w == Largest(u)
              m == Cardinality(Past(u, "succeeded", CreditSteps))
              n == Cardinality(Past(u, "succeeded", CreditSteps))'
  <1>3. airdropCoin[u] <= w * m
    BY DEF CreditsPast
  <1>4. CASE airdropCoin'[u] = airdropCoin[u]
    <2>1. w \in Nat /\ m \in Nat /\ n \in Nat /\ m <= n /\ airdropCoin[u] \in Nat
      BY <1>0, <1>2
    <2>. HIDE DEF w, m, n
    <2>2. w * m <= w * n /\ w * m \in Nat /\ w * n \in Nat
      BY <2>1, Multiples
    <2>3. airdropCoin'[u] <= w * n
      BY <1>3, <1>4, <2>1, <2>2
    <2>. QED
      BY <2>3 DEF w, n
  <1>5. ASSUME NEW t \in Threads, ExtWrite(t),
               UpdateAirdropCoin(Owner[local[t].row], local[t].num + Coin[local[t].row]),
               airdropCoin'[u] # airdropCoin[u]
        PROVE  airdropCoin'[u] <= Largest(u)
                            * Cardinality(Past(u, "succeeded", CreditSteps))'
    <2>1. pc[t] = "extWrite" /\ pc'[t] = "again" /\ SameCmd(t)
      BY <1>0, <1>5 DEF ExtWrite, Credit, Goto, ProcsOK, Locals, SameCmd
    <2>2. /\ Owner[local[t].row] = u
          /\ airdropCoin'[u] = local[t].num + Coin[local[t].row]
      BY <1>0, <1>5 DEF UpdateAirdropCoin
    <2>3. Payee(t) = u
      BY <2>1, <2>2 DEF CallbacksOK, RowOfPayee
    <2>4. n >= m + 1
      <3>1. /\ pc[t] \in CreditSteps /\ pc'[t] \notin CreditSteps
            /\ CreditSteps # FailSteps
        BY <2>1 DEF CreditSteps, FailSteps
      <3>. QED
        BY <2>1, <2>3, <3>1, PastAdds
    <2>5. local[t].num \in Nat /\ local[t].row \in Airdrops
      BY <1>0, <2>1 DEF TInv, Held, SumHeld, RowHeld, RowLabels, Rows
    <2>6. Coin[local[t].row] \in Nat /\ Coin[local[t].row] <= w
      BY <2>2, <2>5, LargestType, CoinAssumption
    <2>7. local[t].num <= w * m
      BY <2>1, <2>3 DEF SumsPast
    <2>8. w \in Nat /\ m \in Nat /\ n \in Nat
      BY <1>2
    <2>. HIDE DEF w, m, n
    <2>9. /\ w * (m + 1) <= w * n /\ w * (m + 1) = w * m + w
          /\ w * m \in Nat /\ w * n \in Nat
      BY <2>4, <2>8, Multiples
    <2>10. airdropCoin'[u] <= w * n
      BY <2>2, <2>5, <2>6, <2>7, <2>8, <2>9
    <2>. QED
      BY <2>10 DEF w, n
  <1>. QED
    BY <1>4, <1>5, CoinSteps

LEMMA SumsNext ==
    ASSUME TInv, CallbacksOK, CreditsPast, SumsPast, Next
    PROVE  SumsPast'
  <1>1. SUFFICES ASSUME NEW t \in Threads, pc'[t] = "extWrite",
                        NEW u, u = Owner[cmds'[local'[t].cmd].to]
                 PROVE  local'[t].num <= Largest(u)
                                  * Cardinality(Past(u, "succeeded", CreditSteps))'
    BY DEF SumsPast, Payee
  <1>2. /\ SameCmd(t) /\ pc[t] \in CreditSteps
        /\ \/ pc[t] = "extWrite" /\ local'[t].num = local[t].num
           \/ pc[t] = "extRead" /\ local'[t].num = airdropCoin[Owner[local[t].row]]
    BY <1>1, CallbackMoves
    DEF ThreadMove, ThreadStays, ThreadFree, ThreadLeaves, ThreadGoesOn, ThreadStarts, SameCmd,
        OutcomeSteps, CreditSteps, FailSteps
  <1>3. Payee(t) = u
    BY <1>1, <1>2, OutcomesFinal DEF CallbacksOK, OutcomeKnown, OutcomeSteps, SameCmd, Payee
  <1>4. u \in Users /\ Largest(u) \in Nat
    BY <1>2, <1>3, PayeeType DEF OutcomeSteps
  <1>. DEFINE w == Largest(u)
              m == Cardinality(Past(u, "succeeded", CreditSteps))
              n == Cardinality(Past(u, "succeeded", CreditSteps))'
  <1>5. local'[t].num <= w * m
    <2>1. CASE pc[t] = "extWrite"
      BY <1>2, <1>3, <2>1 DEF SumsPast
    <2>2. CASE pc[t] = "extRead"
      <3>1. Owner[local[t].row] = u
        BY <1>3, <2>2 DEF CallbacksOK, RowOfPayee
      <3>. QED
        BY <1>2, <1>4, <2>2, <3>1 DEF CreditsPast
    <2>. QED
      BY <1>2, <2>1, <2>2
  <1>6. local'[t].num \in Nat
    BY <1>1, TInvNext DEF TInv, Held, SumHeld, Procs
  <1>7. w \in Nat /\ m \in Nat /\ n \in Nat /\ m <= n
    BY <1>4, PastCount
  <1>. HIDE DEF w, m, n
  <1>8. w * m <= w * n /\ w * m \in Nat /\ w * n \in Nat
    BY <1>7, Multiples
  <1>9. local'[t].num <= w * n
    BY <1>5, <1>6, <1>8
  <1>. QED
    BY <1>9 DEF w, n

-----------------------------------------------------------------------------
(* The rows. *)

\* A row is settled only by the callback that has it at hand, one at a time.
LEMMA SettleSteps ==
    ASSUME TInv, Next
    PROVE  \/ \A a \in Airdrops :
                 status'[a] \in {"success", "failed"} => status'[a] = status[a]
           \/ \E t \in Threads :
                 /\ \/ SuccessUpdate(t) /\ UpdateStatus(local[t].row, "success")
                    \/ FailedUpdate(t) /\ UpdateStatus(local[t].row, "failed")
  <1>0. status \in [Airdrops -> AirdropStatus \cup {"absent"}]
    BY TypeParts DEF TInv, DbOK
  <1>1. CASE \E a \in Airdrops : Insert(a)
    BY <1>0, <1>1 DEF Insert, CreateAirdrop
  <1>2. CASE \E s \in Sessions : Request(s) \/ Feeder(s)
    BY <1>2
    DEF Request, AirdropTwitter, Proceed, ResetBudget, ResetStop, ResetDo, StartFeeder,
        AwaitStop, ClientGone, Feeder, ListAirdrops, NextAirdrop, FeederEnds, collectionVars
  <1>3. CASE \E p \in Procs : Runner(p)
    BY <1>0, <1>3
    DEF Runner, RunCheck, RunSubmit, Submit, RunLoad, RunStore, PendingFind, PendingUpdate,
        UpdateStatusPending, StopClear, StopSend, collectionVars
  <1>4. CASE \E p \in Procs, s \in Sessions : Rendezvous(p, s)
    BY <1>4 DEF Rendezvous, collectionVars
  <1>5. CASE \E t \in Threads : After(t)
    <2>1. PICK t \in Threads : After(t)
      BY <1>5
    <2>2. CASE SuccessUpdate(t)
      BY <2>2 DEF SuccessUpdate, collectionVars
    <2>3. CASE FailedUpdate(t)
      BY <2>3 DEF FailedUpdate, collectionVars
    <2>4. CASE ~SuccessUpdate(t) /\ ~FailedUpdate(t)
      BY <1>0, <2>1, <2>4
      DEF After, TxFind, TxUpdate, UpdateTxID, SuccessFind, ExtRead, ExtWrite, Credit,
          UpdateAirdropCoin, FailedFind, Again, GetOne, AfterFind, collectionVars
    <2>. QED
      BY <2>2, <2>3, <2>4
  <1>6. CASE \E t \in Threads, c \in DOMAIN cmds : Event(t, c)
    BY <1>6 DEF Event, OnTxGenerated, OnSucceed, OnFailed, Callback, collectionVars
  <1>7. CASE Crash
    BY <1>7 DEF Crash, Down, collectionVars
  <1>. QED
    BY <1>1, <1>2, <1>3, <1>4, <1>5, <1>6, <1>7 DEF Next

\* No more rows of a status than commands past their callback, after a step that
\* gives no row this status, or gives it to the row at hand of a callback which then
\* leaves the steps L.
LEMMA RowsNext ==
    ASSUME TInv, CallbacksOK, Next,
           NEW st, NEW stage \in {"succeeded", "failed"},
           NEW L \in {SuccessSteps, FailSteps}, L = SuccessSteps <=> stage = "succeeded",
           RowsPast(st, stage, L),
           \/ \A a \in Airdrops : status'[a] = st => status[a] = st
           \/ \E t \in Threads :
                 /\ pc[t] \in L \cap {"successUpd", "failedUpd"}
                 /\ pc'[t] \notin L /\ SameCmd(t)
                 /\ \A a \in Airdrops \ {local[t].row} : status'[a] = st => status[a] = st
    PROVE  RowsPast(st, stage, L)'
  <1>1. SUFFICES ASSUME NEW u \in Users
                 PROVE  /\ IsFiniteSet(RowsIn(u, st))'
                        /\ Cardinality(RowsIn(u, st))' <= Cardinality(Past(u, stage, L))'
    BY DEF RowsPast
  <1>. DEFINE A == RowsIn(u, st)
              B == RowsIn(u, st)'
              m == Cardinality(Past(u, stage, L))
              n == Cardinality(Past(u, stage, L))'
  <1>2. IsFiniteSet(A) /\ Cardinality(A) <= m /\ Cardinality(A) \in Nat
    BY FS_CardinalityType DEF RowsPast
  <1>3. m \in Nat /\ n \in Nat /\ m <= n
    BY PastCount
  <1>4. CASE B \subseteq A
    <2>. HIDE DEF A, B, m, n
    <2>1. IsFiniteSet(B) /\ Cardinality(B) <= Cardinality(A) /\ Cardinality(B) \in Nat
      BY <1>2, <1>4, FS_Subset, FS_CardinalityType
    <2>2. Cardinality(B) <= n
      BY <1>2, <1>3, <2>1
    <2>. QED
      BY <2>1, <2>2 DEF B, n
  <1>5. ASSUME NEW r, B \subseteq A \cup {r}, n >= m + 1
        PROVE  /\ IsFiniteSet(RowsIn(u, st))'
               /\ Cardinality(RowsIn(u, st))' <= Cardinality(Past(u, stage, L))'
    <2>. HIDE DEF A, B, m, n
    <2>1. /\ IsFiniteSet(A \cup {r}) /\ Cardinality(A \cup {r}) <= Cardinality(A) + 1
          /\ Cardinality(A \cup {r}) \in Nat
      <3>1. /\ IsFiniteSet(A \cup {r})
            /\ Cardinality(A \cup {r}) =
                  IF r \in A THEN Cardinality(A) ELSE Cardinality(A) + 1
        BY <1>2, FS_AddElement
      <3>. QED
        BY <1>2, <3>1
    <2>2. /\ IsFiniteSet(B) /\ Cardinality(B) <= Cardinality(A \cup {r})
          /\ Cardinality(B) \in Nat
      BY <1>5, <2>1, FS_Subset, FS_CardinalityType
    <2>3. Cardinality(B) <= n
      BY <1>2, <1>3, <1>5, <2>1, <2>2
    <2>. QED
      BY <2>2, <2>3 DEF B, n
  <1>6. ASSUME NEW t \in Threads,
               pc[t] \in L \cap {"successUpd", "failedUpd"},
               pc'[t] \notin L, SameCmd(t),
               \A a \in Airdrops \ {local[t].row} : status'[a] = st => status[a] = st
        PROVE  B \subseteq A \/ (B \subseteq A \cup {local[t].row} /\ n >= m + 1)
    <2>1. B \subseteq A \cup {local[t].row}
      BY <1>6 DEF RowsIn, RowsOf
    <2>2. Owner[local[t].row] = Payee(t)
      BY <1>6 DEF CallbacksOK, RowOfPayee
    <2>3. CASE Payee(t) = u
      <3>1. L # FailSteps <=> stage = "succeeded"
        BY DEF SuccessSteps, FailSteps
      <3>2. n >= m + 1
        BY <1>6, <2>3, <3>1, PastAdds
      <3>. QED
        BY <2>1, <3>2
    <2>4. CASE Payee(t) # u
      BY <1>6, <2>2, <2>4 DEF RowsIn, RowsOf
    <2>. QED
      BY <2>3, <2>4
  <1>7. CASE \A a \in Airdrops : status'[a] = st => status[a] = st
    <2>1. B \subseteq A
      BY <1>7 DEF RowsIn, RowsOf
    <2>. QED
      BY <1>4, <2>1
  <1>. QED
    BY <1>4, <1>5, <1>6, <1>7

LEMMA SettledNext ==
    ASSUME TInv, CallbacksOK, SettledPast, Next
    PROVE  SettledPast'
  <1>0. /\ status \in [Airdrops -> AirdropStatus \cup {"absent"}]
        /\ ProcsOK /\ Threads \subseteq Procs
    BY TypeParts DEF TInv, DbOK, Procs
  <1>1. CASE \A a \in Airdrops :
               status'[a] \in {"success", "failed"} => status'[a] = status[a]
    <2>1. /\ \A a \in Airdrops : status'[a] = "success" => status[a] = "success"
          /\ \A a \in Airdrops : status'[a] = "failed" => status[a] = "failed"
      BY <1>1
    <2>2. SuccessSteps # FailSteps
      BY DEF SuccessSteps, FailSteps
    <2>3. RowsPast("success", "succeeded", SuccessSteps)'
      BY <2>1, RowsNext DEF SettledPast
    <2>4. RowsPast("failed", "failed", FailSteps)'
      BY <2>1, <2>2, RowsNext DEF SettledPast
    <2>. QED
      BY <2>3, <2>4 DEF SettledPast
  <1>2. ASSUME NEW t \in Threads, SuccessUpdate(t), UpdateStatus(local[t].row, "success")
        PROVE  SettledPast'
    <2>1. pc[t] = "successUpd" /\ pc'[t] \in {"extRead", "again"} /\ SameCmd(t)
      BY <1>0, <1>2 DEF SuccessUpdate, Keep, Goto, ProcsOK, SameCmd
    <2>2. status' = [status EXCEPT ![local[t].row] = "success"]
      BY <1>2 DEF UpdateStatus
    <2>3. /\ \A a \in Airdrops \ {local[t].row} : status'[a] = "success" => status[a] = "success"
          /\ \A a \in Airdrops : status'[a] = "failed" => status[a] = "failed"
      BY <1>0, <2>2
    <2>4. pc[t] \in SuccessSteps \cap {"successUpd", "failedUpd"} /\ pc'[t] \notin SuccessSteps
      BY <2>1 DEF SuccessSteps
    <2>5. SuccessSteps # FailSteps
      BY DEF SuccessSteps, FailSteps
    <2>6. RowsPast("success", "succeeded", SuccessSteps)'
      BY <2>1, <2>3, <2>4, RowsNext DEF SettledPast
    <2>7. RowsPast("failed", "failed", FailSteps)'
      BY <2>3, <2>5, RowsNext DEF SettledPast
    <2>. QED
      BY <2>6, <2>7 DEF SettledPast
  <1>3. ASSUME NEW t \in Threads, FailedUpdate(t), UpdateStatus(local[t].row, "failed")
        PROVE  SettledPast'
    <2>1. pc[t] = "failedUpd" /\ pc'[t] = "again" /\ SameCmd(t)
      BY <1>0, <1>3 DEF FailedUpdate, Keep, Goto, ProcsOK, SameCmd
    <2>2. status' = [status EXCEPT ![local[t].row] = "failed"]
      BY <1>3 DEF UpdateStatus
    <2>3. /\ \A a \in Airdrops \ {local[t].row} : status'[a] = "failed" => status[a] = "failed"
          /\ \A a \in Airdrops : status'[a] = "success" => status[a] = "success"
      BY <1>0, <2>2
    <2>4. pc[t] \in FailSteps \cap {"successUpd", "failedUpd"} /\ pc'[t] \notin FailSteps
      BY <2>1 DEF FailSteps
    <2>5. SuccessSteps # FailSteps
      BY DEF SuccessSteps, FailSteps
    <2>6. RowsPast("success", "succeeded", SuccessSteps)'
      BY <2>3, RowsNext DEF SettledPast
    <2>7. RowsPast("failed", "failed", FailSteps)'
      BY <2>1, <2>3, <2>4, <2>5, RowsNext DEF SettledPast
    <2>. QED
      BY <2>6, <2>7 DEF SettledPast
  <1>. QED
    BY <1>1, <1>2, <1>3, SettleSteps

-----------------------------------------------------------------------------
(* The invariant, and what it implies. *)

LEMMA LInvInit == Init => LInv
  <1>. SUFFICES ASSUME Init PROVE LInv
    OBVIOUS
  <1>1. /\ \A p \in Procs : pc[p] = "idle" /\ local[p].cmd = 0
        /\ cmds = << >> /\ cmds \in Seq(Command)
        /\ \A a \in Airdrops : status[a] = "absent"
        /\ \A u \in Users : airdropCoin[u] = 0
    BY DEF Init, CollectionInit, ClientInit, NoLocals
  <1>2. CallbacksOK
    BY <1>1 DEF CallbacksOK, OneCallback, OutcomeKnown, RowOfPayee, OutcomeSteps, CreditSteps,
                FailSteps, Procs
  <1>3. SumsPast
    BY <1>1 DEF SumsPast, Procs
  <1>4. \A u, stage, L : Past(u, stage, L) = {}
    BY <1>1 DEF Past, Commands
  <1>5. \A u : RowsIn(u, "success") = {} /\ RowsIn(u, "failed") = {}
    BY <1>1 DEF RowsIn, RowsOf
  <1>6. IsFiniteSet({}) /\ Cardinality({}) = 0
    BY FS_EmptySet
  <1>7. CreditsPast
    <2>. SUFFICES ASSUME NEW u \in Users
                  PROVE  airdropCoin[u] <= Largest(u) * Cardinality(Past(u, "succeeded", CreditSteps))
      BY DEF CreditsPast
    <2>1. Largest(u) \in Nat
      BY LargestType DEF Users
    <2>2. Cardinality(Past(u, "succeeded", CreditSteps)) = 0
      BY <1>4, <1>6
    <2>3. airdropCoin[u] = 0
      BY <1>1
    <2>4. \A w \in Nat : w * 0 = 0
      OBVIOUS
    <2>5. Largest(u) * Cardinality(Past(u, "succeeded", CreditSteps)) = 0
      BY <2>1, <2>2, <2>4
    <2>. QED
      BY <2>3, <2>5
  <1>8. SettledPast
    <2>1. \A st \in {"success", "failed"} : \A stage, L : RowsPast(st, stage, L)
      BY <1>4, <1>5, <1>6 DEF RowsPast
    <2>. QED
      BY <2>1 DEF SettledPast
  <1>. QED
    BY <1>2, <1>3, <1>7, <1>8 DEF LInv

LEMMA LInvNext == TInv /\ LInv /\ [Next]_vars => LInv'
  <1>. SUFFICES ASSUME TInv, LInv, [Next]_vars PROVE LInv'
    OBVIOUS
  <1>1. CASE Next
    BY <1>1, CallbacksNext, CreditsNext, SumsNext, SettledNext DEF LInv
  <1>2. CASE UNCHANGED vars
    <2>1. UNCHANGED <<cmds, pc, local, status, airdropCoin>>
      BY <1>2 DEF vars, collectionVars, clientVars, procVars
    <2>2. \A u, stage, L : Past(u, stage, L)' = Past(u, stage, L)
      BY <2>1 DEF Past, Commands, CallbackAt
    <2>3. \A u, st : RowsIn(u, st)' = RowsIn(u, st)
      BY <2>1 DEF RowsIn
    <2>4. CallbacksOK'
      BY <2>1 DEF LInv, CallbacksOK, OneCallback, OutcomeKnown, RowOfPayee, Payee
    <2>5. CreditsPast' /\ SumsPast'
      BY <2>1, <2>2 DEF LInv, CreditsPast, SumsPast, Payee
    <2>6. SettledPast'
      BY <2>2, <2>3 DEF LInv, SettledPast, RowsPast
    <2>. QED
      BY <2>4, <2>5, <2>6 DEF LInv
  <1>. QED
    BY <1>1, <1>2

LEMMA AccountsHold == Spec => [](TInv /\ LInv)
  BY TInvInit, TInvNext, LInvInit, LInvNext, PTL DEF Spec

\* No user is credited more than the payments that succeeded are worth, whatever
\* callbacks, stale sums, repeated submissions, failures and crashes interleave
\* (successAfter, updateUserAirdrop).
THEOREM CreditsBacked == Spec => []CreditBacked
  <1>1. TInv /\ LInv => CreditBacked
    <2>1. SUFFICES ASSUME TInv, LInv, NEW u \in Users
                   PROVE  airdropCoin[u] <= Largest(u) * Cardinality(Commands(u, "succeeded"))
      BY DEF CreditBacked
    <2>. DEFINE w == Largest(u)
                m == Cardinality(Past(u, "succeeded", CreditSteps))
                n == Cardinality(Commands(u, "succeeded"))
    <2>2. airdropCoin[u] <= w * m /\ airdropCoin[u] \in Nat
      BY <2>1, TypeParts DEF TInv, DbOK, LInv, CreditsPast
    <2>3. w \in Nat /\ m \in Nat /\ n \in Nat /\ m <= n
      BY <2>1, TypeParts, PastFinite, LargestType DEF TInv, ClientOK, PastIsFinite, Users
    <2>. HIDE DEF w, m, n
    <2>4. w * m <= w * n /\ w * m \in Nat /\ w * n \in Nat
      BY <2>3, Multiples
    <2>5. airdropCoin[u] <= w * n
      BY <2>2, <2>4
    <2>. QED
      BY <2>5 DEF w, n
  <1>. QED
    BY <1>1, AccountsHold, PTL

\* No more rows of a user are success, or failed, than payments to the user
\* succeeded, or failed, although successAfter and failedAfter find their row by the
\* misesid alone.
THEOREM RowsBacked == Spec => []SettledBacked
  <1>1. TInv /\ LInv => SettledBacked
    <2>1. SUFFICES ASSUME TInv, LInv, NEW u \in Users
                   PROVE  /\ Cardinality(RowsIn(u, "success"))
                                <= Cardinality(Commands(u, "succeeded"))
                          /\ Cardinality(RowsIn(u, "failed"))
                                <= Cardinality(Commands(u, "failed"))
      BY DEF SettledBacked
    <2>2. ASSUME NEW st, NEW stage, NEW L, RowsPast(st, stage, L)
          PROVE  Cardinality(RowsIn(u, st)) <= Cardinality(Commands(u, stage))
      <3>1. /\ Cardinality(RowsIn(u, st)) <= Cardinality(Past(u, stage, L))
            /\ Cardinality(RowsIn(u, st)) \in Nat
        BY <2>2, FS_CardinalityType DEF RowsPast
      <3>2. /\ Cardinality(Past(u, stage, L)) \in Nat
            /\ Cardinality(Commands(u, stage)) \in Nat
            /\ Cardinality(Past(u, stage, L)) <= Cardinality(Commands(u, stage))
        BY <2>1, TypeParts, PastFinite DEF TInv, ClientOK, PastIsFinite
      <3>. QED
        BY <3>1, <3>2
    <2>. QED
      BY <2>1, <2>2 DEF LInv, SettledPast
  <1>. QED
    BY <1>1, AccountsHold, PTL

-----------------------------------------------------------------------------
(* SuccessIsCredited, for one callback thread.                               *)

OneThread == \A t, v \in Threads : t = v

NothingFailed == faults = 0 /\ crashes = 0

\* The rows that callbacks have made success, and not credited yet.
Uncredited == {local[t].row : t \in {v \in Threads : pc[v] \in {"extRead", "extWrite"}}}

\* The success rows of u that are credited.
Credited(u) == RowsIn(u, "success") \ Uncredited

CoinsCover == \A u \in Users : airdropCoin[u] >= Cardinality(Units(Credited(u)))

\* With one thread the balance it has read is still the balance.
SumIsFresh ==
    \A t \in Threads : pc[t] = "extWrite" => local[t].num = airdropCoin[Owner[local[t].row]]

UInv == NothingFailed => CoinsCover /\ SumIsFresh

\* A call that fails under the background context, and a crash, are counted.
LEMMA FailuresCount ==
    ASSUME TInv, Next, NothingFailed'
    PROVE  NothingFailed /\ ~CallFails(Background) /\ ~Crash
  <1>0. faults \in Nat /\ crashes \in Nat
    BY TypeParts DEF TInv, EnvOK
  <1>1. ~CallFails(Background)
    BY <1>0, BackgroundAssumption DEF CallFails, Cancelled, NothingFailed
  <1>2. ~Crash
    BY <1>0 DEF Crash, NothingFailed
  <1>. SUFFICES NothingFailed
    BY <1>1, <1>2
  <1>3. /\ UNCHANGED envVars => NothingFailed
        /\ UNCHANGED crashes /\ (UNCHANGED faults \/ faults' = faults + 1) => NothingFailed
    BY <1>0 DEF NothingFailed, envVars
  <1>. HIDE DEF envVars
  <1>. USE <1>3 DEF CallOk, CallFails
  <1>4. CASE \E a \in Airdrops : Insert(a)
    BY <1>4 DEF Insert
  <1>5. CASE \E s \in Sessions : Request(s) \/ Feeder(s)
    BY <1>5
    DEF Request, AirdropTwitter, Proceed, ResetBudget, ResetStop, ResetDo, StartFeeder,
        AwaitStop, ClientGone, Feeder, ListAirdrops, NextAirdrop, FeederEnds
  <1>6. CASE \E p \in Procs : Runner(p)
    BY <1>6
    DEF Runner, RunCheck, RunSubmit, Submit, RunLoad, RunStore, PendingFind, PendingUpdate,
        StopClear, StopSend
  <1>7. CASE \E p \in Procs, s \in Sessions : Rendezvous(p, s)
    BY <1>7 DEF Rendezvous
  <1>8. CASE \E t \in Threads : After(t)
    BY <1>8
    DEF After, TxFind, TxUpdate, SuccessFind, SuccessUpdate, ExtRead, ExtWrite, Credit, FailedFind,
        FailedUpdate, Again, GetOne, AfterFind
  <1>9. CASE \E t \in Threads, c \in DOMAIN cmds : Event(t, c)
    BY <1>9 DEF Event, OnTxGenerated, OnSucceed, OnFailed, Callback
  <1>. QED
    BY <1>1, <1>2, <1>4, <1>5, <1>6, <1>7, <1>8, <1>9 DEF Next

\* Finite sets of rows have finitely many units; fewer rows have no more units, and
\* another row adds its amount.
LEMMA RowUnits ==
    ASSUME NEW S \in SUBSET Airdrops, IsFiniteSet(S)
    PROVE  /\ Cardinality(Units(S)) \in Nat
           /\ \A R \in SUBSET S : /\ Cardinality(Units(R)) \in Nat
                                  /\ Cardinality(Units(R)) <= Cardinality(Units(S))
           /\ \A r \in Airdrops \ S :
                 Cardinality(Units(S \cup {r})) = Cardinality(Units(S)) + Coin[r]
  <1>. DEFINE n(R) == [a \in R |-> Coin[a]]
              U(R) == UNION {{a} \X (1..n(R)[a]) : a \in R}
  <1>1. ASSUME NEW R \in SUBSET Airdrops PROVE U(R) = Units(R) /\ n(R) \in [R -> Nat]
    BY CoinAssumption DEF Units
  <1>. HIDE DEF n
  <1>2. /\ IsFiniteSet(U(S))
        /\ \A d, k : d \notin S /\ k \in Nat
              => Cardinality(U(S) \cup ({d} \X (1..k))) = Cardinality(U(S)) + k
    BY <1>1, SumOfUnits
  <1>. HIDE DEF U
  <1>3. /\ IsFiniteSet(Units(S))
        /\ \A d, k : d \notin S /\ k \in Nat
              => Cardinality(Units(S) \cup ({d} \X (1..k))) = Cardinality(Units(S)) + k
    BY <1>1, <1>2
  <1>4. ASSUME NEW R \in SUBSET S
        PROVE  /\ Cardinality(Units(R)) \in Nat
               /\ Cardinality(Units(R)) <= Cardinality(Units(S))
    <2>1. Units(R) \subseteq Units(S)
      BY DEF Units
    <2>. QED
      BY <1>3, <2>1, FS_Subset, FS_CardinalityType
  <1>5. ASSUME NEW r \in Airdrops \ S
        PROVE  Cardinality(Units(S \cup {r})) = Cardinality(Units(S)) + Coin[r]
    <2>1. Units(S \cup {r}) = Units(S) \cup ({r} \X (1..Coin[r]))
      BY DEF Units
    <2>. QED
      BY <1>3, <2>1, CoinAssumption
  <1>. QED
    BY <1>3, <1>4, <1>5, FS_CardinalityType

Crediting == {"extRead", "extWrite"}

\* A callback goes on to the balance only by its own calls.
LEMMA CreditingMoves ==
    ASSUME TInv, Next, ~Crash, NEW t \in Threads, pc[t] \in Crediting
    PROVE  pc'[t] = pc[t] \/ ExtRead(t) \/ ExtWrite(t)
  <1>. USE DEF Crediting
  <1>0. ProcsOK /\ Sessions \subseteq Procs /\ Threads \subseteq Procs
    BY TypeParts DEF TInv, Procs
  <1>1. ASSUME NEW p \in Procs, pc[p] \notin Crediting, NEW l, Goto(p, l)
        PROVE  pc'[t] = pc[t]
    BY <1>0, <1>1 DEF Goto, ProcsOK
  <1>2. ASSUME NEW p \in Procs, pc[p] \notin Crediting, Return(p)
        PROVE  pc'[t] = pc[t]
    BY <1>1, <1>2 DEF Return
  <1>3. CASE UNCHANGED pc
    BY <1>3
  <1>4. CASE \E s \in Sessions : Feeder(s)
    BY <1>0, <1>1, <1>2, <1>4 DEF Feeder, ListAirdrops, NextAirdrop, FeederEnds
  <1>5. ASSUME NEW s \in Sessions, Request(s) PROVE pc'[t] = pc[t]
    <2>1. CASE StartFeeder(s)
      BY <1>0, <2>1, ProcsAssumption DEF StartFeeder, Goto, ProcsOK
    <2>2. CASE ~StartFeeder(s)
      BY <1>5, <2>2 DEF Request, AirdropTwitter, Proceed, ResetBudget, ResetStop, ResetDo,
                        AwaitStop, ClientGone, procVars
    <2>. QED
      BY <2>1, <2>2
  <1>6. CASE \E p \in Procs : Runner(p)
    BY <1>1, <1>2, <1>6
    DEF Runner, RunCheck, RunSubmit, Submit, RunLoad, RunStore, PendingFind, PendingUpdate,
        StopClear, StopSend
  <1>7. CASE \E p \in Procs, s \in Sessions : Rendezvous(p, s)
    BY <1>2, <1>7 DEF Rendezvous
  <1>8. ASSUME NEW p \in Threads, After(p) PROVE pc'[t] = pc[t] \/ ExtRead(t) \/ ExtWrite(t)
    <2>1. CASE ExtRead(p) \/ ExtWrite(p)
      BY <1>0, <2>1 DEF ExtRead, ExtWrite, Credit, Goto, ProcsOK
    <2>2. CASE ~(ExtRead(p) \/ ExtWrite(p))
      BY <1>0, <1>1, <1>2, <1>8, <2>2
      DEF After, TxFind, TxUpdate, SuccessFind, SuccessUpdate, FailedFind, FailedUpdate,
          Again, GetOne, AfterFind
    <2>. QED
      BY <2>1, <2>2
  <1>9. CASE \E p \in Threads, c \in DOMAIN cmds : Event(p, c)
    BY <1>0, <1>1, <1>9 DEF Event, OnTxGenerated, OnSucceed, OnFailed, Callback
  <1>. QED
    BY <1>3, <1>4, <1>5, <1>6, <1>7, <1>8, <1>9 DEF Next, Insert, procVars

\* While nothing fails, a row leaves Uncredited only when it is credited, and
\* becomes success only when it enters Uncredited.
LEMMA UncreditedSteps ==
    ASSUME OneThread, TInv, Next, NothingFailed'
    PROVE  \/ /\ UNCHANGED airdropCoin
              /\ \A u \in Users : Credited(u)' \subseteq Credited(u)
           \/ \E t \in Threads :
                 /\ pc[t] = "extWrite" /\ pc'[t] = "again"
                 /\ UpdateAirdropCoin(Owner[local[t].row], local[t].num + Coin[local[t].row])
                 /\ Uncredited = {local[t].row}
  <1>. USE DEF Crediting
  <1>0. /\ ProcsOK /\ Threads \subseteq Procs
        /\ status \in [Airdrops -> AirdropStatus \cup {"absent"}]
        /\ ~CallFails(Background) /\ ~Crash
    BY TypeParts, FailuresCount DEF TInv, Procs, DbOK
  <1>1. CASE \E t \in Threads : ExtWrite(t)
    <2>1. PICK t \in Threads : ExtWrite(t)
      BY <1>1
    <2>2. pc[t] = "extWrite" /\ pc'[t] = "again"
      BY <1>0, <2>1 DEF ExtWrite, Credit, Goto, ProcsOK
    <2>3. UpdateAirdropCoin(Owner[local[t].row], local[t].num + Coin[local[t].row])
      BY <1>0, <2>1 DEF ExtWrite, Credit
    <2>4. Uncredited = {local[t].row}
      BY <2>2 DEF OneThread, Uncredited
    <2>. QED
      BY <2>2, <2>3, <2>4
  <1>2. CASE ~\E t \in Threads : ExtWrite(t)
    <2>1. UNCHANGED airdropCoin
      BY <1>2, CoinSteps
    <2>2. Uncredited \subseteq Uncredited'
      <3>1. ASSUME NEW t \in Threads, pc[t] \in Crediting
            PROVE  pc'[t] \in Crediting /\ local'[t].row = local[t].row
        <4>1. CASE ExtRead(t)
          BY <1>0, <4>1 DEF ExtRead, Goto, ProcsOK, Locals
        <4>2. CASE pc'[t] = pc[t]
          BY <3>1, <4>2, CallbackMoves
          DEF ThreadMove, ThreadStays, ThreadFree, ThreadLeaves, ThreadGoesOn, ThreadStarts,
              SameRow, OutcomeSteps, CreditSteps, FailSteps
        <4>. QED
          BY <1>0, <1>2, <3>1, <4>1, <4>2, CreditingMoves
      <3>. QED
        BY <3>1 DEF Uncredited
    <2>3. \A a \in Airdrops : status'[a] = "success" => status[a] = "success" \/ a \in Uncredited'
      <3>1. ASSUME NEW t \in Threads, SuccessUpdate(t), UpdateStatus(local[t].row, "success")
            PROVE  \A a \in Airdrops :
                      status'[a] = "success" => status[a] = "success" \/ a \in Uncredited'
        <4>1. pc'[t] = "extRead" /\ local'[t].row = local[t].row
          BY <1>0, <3>1 DEF SuccessUpdate, Keep, Goto, ProcsOK
        <4>2. local[t].row \in Uncredited'
          BY <4>1 DEF Uncredited
        <4>3. \A a \in Airdrops \ {local[t].row} : status'[a] = status[a]
          BY <1>0, <3>1 DEF UpdateStatus
        <4>. QED
          BY <4>2, <4>3
      <3>2. ASSUME NEW t \in Threads, UpdateStatus(local[t].row, "failed")
            PROVE  \A a \in Airdrops : status'[a] = "success" => status[a] = "success"
        BY <1>0, <3>2 DEF UpdateStatus
      <3>. QED
        BY <3>1, <3>2, SettleSteps
    <2>4. \A u \in Users : Credited(u)' \subseteq Credited(u)
      BY <2>2, <2>3 DEF Credited, RowsIn, RowsOf
    <2>. QED
      BY <2>1, <2>4
  <1>. QED
    BY <1>1, <1>2

LEMMA UInvNext ==
    ASSUME OneThread, TInv, LInv, UInv, Next
    PROVE  UInv'
  <1>. SUFFICES ASSUME NothingFailed'
                PROVE  CoinsCover' /\ SumIsFresh'
    BY DEF UInv
  <1>0. /\ CoinsCover /\ SumIsFresh /\ ~Crash
        /\ ProcsOK /\ Threads \subseteq Procs /\ airdropCoin \in [Users -> Nat]
    BY TypeParts, FailuresCount DEF UInv, TInv, DbOK, Procs
  <1>1. ASSUME NEW u \in Users
        PROVE  /\ Credited(u) \in SUBSET Airdrops /\ IsFiniteSet(Credited(u))
               /\ RowsIn(u, "success") \in SUBSET Airdrops /\ IsFiniteSet(RowsIn(u, "success"))
    <2>1. IsFiniteSet(RowsIn(u, "success"))
      BY DEF LInv, SettledPast, RowsPast
    <2>2. RowsIn(u, "success") \in SUBSET Airdrops
      BY DEF RowsIn, RowsOf
    <2>. QED
      BY <2>1, <2>2, FS_Subset DEF Credited
  <1>2. CASE UNCHANGED airdropCoin /\ \A u \in Users : Credited(u)' \subseteq Credited(u)
    <2>1. ASSUME NEW u \in Users PROVE airdropCoin'[u] >= Cardinality(Units(Credited(u)))'
      <3>1. /\ Cardinality(Units(Credited(u)')) \in Nat
            /\ Cardinality(Units(Credited(u))) \in Nat
            /\ Cardinality(Units(Credited(u)')) <= Cardinality(Units(Credited(u)))
        BY <1>1, <1>2, RowUnits
      <3>2. Cardinality(Units(Credited(u)))' = Cardinality(Units(Credited(u)'))
        BY DEF Units
      <3>3. airdropCoin'[u] = airdropCoin[u] /\ airdropCoin[u] \in Nat
        BY <1>0, <1>2
      <3>. QED
        BY <1>0, <3>1, <3>2, <3>3 DEF CoinsCover
    <2>2. ASSUME NEW t \in Threads, pc'[t] = "extWrite"
          PROVE  local'[t].num = airdropCoin'[Owner[local'[t].row]]
      <3>1. \/ ThreadStays(t)
            \/ SameRow(t) /\ local'[t].num = airdropCoin[Owner[local[t].row]]
        BY <2>2, CallbackMoves
        DEF ThreadMove, ThreadFree, ThreadLeaves, ThreadGoesOn, ThreadStarts, OutcomeSteps,
            CreditSteps
      <3>. QED
        BY <1>0, <1>2, <2>2, <3>1 DEF ThreadStays, SameRow, SumIsFresh
    <2>. QED
      BY <2>1, <2>2 DEF CoinsCover, SumIsFresh
  <1>3. ASSUME NEW t \in Threads, pc[t] = "extWrite", pc'[t] = "again",
               UpdateAirdropCoin(Owner[local[t].row], local[t].num + Coin[local[t].row]),
               Uncredited = {local[t].row}
        PROVE  CoinsCover' /\ SumIsFresh'
    <2>. DEFINE r == local[t].row
    <2>1. SumIsFresh'
      BY <1>3 DEF OneThread, SumIsFresh
    <2>2. r \in Airdrops /\ local[t].num = airdropCoin[Owner[r]]
      BY <1>0, <1>3 DEF TInv, Held, RowHeld, RowLabels, Rows, SumIsFresh
    <2>3. UNCHANGED status /\ airdropCoin' = [airdropCoin EXCEPT ![Owner[r]] = local[t].num + Coin[r]]
      BY <1>3 DEF UpdateAirdropCoin
    <2>. HIDE DEF r
    <2>4. ASSUME NEW u \in Users PROVE airdropCoin'[u] >= Cardinality(Units(Credited(u)))'
      <3>. DEFINE S == Credited(u)
      <3>1. /\ Credited(u)' \subseteq RowsIn(u, "success")
            /\ RowsIn(u, "success") \subseteq IF Owner[r] = u THEN S \cup {r} ELSE S
            /\ r \notin S
        BY <1>3, <2>3 DEF Credited, RowsIn, RowsOf, r
      <3>2. S \in SUBSET Airdrops /\ IsFiniteSet(S)
        BY <1>1
      <3>3. airdropCoin[u] >= Cardinality(Units(S)) /\ airdropCoin[u] \in Nat
        BY <1>0 DEF CoinsCover
      <3>4. Cardinality(Units(Credited(u)))' = Cardinality(Units(Credited(u)'))
        BY DEF Units
      <3>. HIDE DEF S
      <3>5. CASE Owner[r] = u
        <4>1. IsFiniteSet(S \cup {r}) /\ S \cup {r} \in SUBSET Airdrops
          BY <2>2, <3>2, FS_AddElement
        <4>2. /\ Cardinality(Units(Credited(u)')) \in Nat
              /\ Cardinality(Units(Credited(u)')) <= Cardinality(Units(S \cup {r}))
          BY <3>1, <3>5, <4>1, RowUnits
        <4>3. /\ Cardinality(Units(S \cup {r})) = Cardinality(Units(S)) + Coin[r]
              /\ Cardinality(Units(S)) \in Nat /\ Coin[r] \in Nat
          BY <2>2, <3>1, <3>2, RowUnits, CoinAssumption
        <4>4. airdropCoin'[u] = airdropCoin[u] + Coin[r]
          BY <1>0, <2>2, <2>3, <3>5
        <4>. QED
          BY <3>3, <3>4, <4>2, <4>3, <4>4
      <3>6. CASE Owner[r] # u
        <4>1. /\ Cardinality(Units(Credited(u)')) \in Nat
              /\ Cardinality(Units(S)) \in Nat
              /\ Cardinality(Units(Credited(u)')) <= Cardinality(Units(S))
          BY <3>1, <3>2, <3>6, RowUnits
        <4>2. airdropCoin'[u] = airdropCoin[u]
          BY <1>0, <2>3, <3>6
        <4>. QED
          BY <3>3, <3>4, <4>1, <4>2
      <3>. QED
        BY <3>5, <3>6
    <2>. QED
      BY <2>1, <2>4 DEF CoinsCover
  <1>. QED
    BY <1>2, <1>3, UncreditedSteps

\* While no call fails and one thread runs the callbacks, every user has been
\* credited for every row that is success, whenever no callback is between the row
\* and the balance.
THEOREM SuccessesCredited ==
    ASSUME OneThread
    PROVE  Spec => []SuccessIsCredited
  <1>1. Init => UInv
    <2>. SUFFICES ASSUME Init PROVE CoinsCover /\ SumIsFresh
      BY DEF UInv
    <2>1. \A u \in Users : Units(Credited(u)) = {} /\ airdropCoin[u] = 0
      BY DEF Init, CollectionInit, Credited, RowsIn, RowsOf, Units
    <2>2. Cardinality({}) = 0
      BY FS_EmptySet
    <2>3. CoinsCover
      BY <2>1, <2>2 DEF CoinsCover
    <2>4. SumIsFresh
      BY DEF Init, SumIsFresh, Procs
    <2>. QED
      BY <2>3, <2>4
  <1>2. TInv /\ LInv /\ UInv /\ [Next]_vars => UInv'
    <2>1. ASSUME UInv, UNCHANGED vars PROVE UInv'
      BY <2>1
      DEF vars, collectionVars, procVars, envVars, UInv, NothingFailed, CoinsCover, Units,
          Credited, Uncredited, RowsIn, SumIsFresh
    <2>. QED
      BY <2>1, UInvNext
  <1>3. UInv => SuccessIsCredited
    <2>. SUFFICES ASSUME UInv, NEW u \in Users, NothingFailed,
                         \A t \in Threads : pc[t] \notin {"extRead", "extWrite"}
                  PROVE  airdropCoin[u] >= Cardinality(Units(RowsIn(u, "success")))
      BY DEF SuccessIsCredited, NothingFailed
    <2>1. Credited(u) = RowsIn(u, "success")
      BY DEF Credited, Uncredited
    <2>. QED
      BY <2>1 DEF UInv, CoinsCover
  <1>. QED
    BY <1>1, <1>2, <1>3, AccountsHold, PTL DEF Spec

-----------------------------------------------------------------------------
(* AirdropDispatch implements FaucetLedger.  A success that is reported is a        *)
(* payment; the callback that leaves successAfter settles it, whether or not a      *)
(* balance was stored; a crash forgets the callbacks; every other step is a         *)
(* stutter.                                                                         *)

\* The commands to u that succeeded.
Succeeded(u) == Commands(u, "succeeded")

\* What is owed is what succeeded and is not past its callback.
LEMMA OwedIsNotPast ==
    /\ \A u : OwedCommands(u) = {c \in Succeeded(u) : CallbackAt(c, CreditSteps)}
    /\ \A u : Past(u, "succeeded", CreditSteps) = Succeeded(u) \ OwedCommands(u)
  BY DEF OwedCommands, CallbackAt, CreditSteps, Past, Succeeded

LEMMA OwedIsNotPastNext ==
    /\ \A u : OwedCommands(u)' = {c \in Succeeded(u)' : CallbackAt(c, CreditSteps)'}
    /\ \A u : Past(u, "succeeded", CreditSteps)' = Succeeded(u)' \ OwedCommands(u)'
  BY DEF OwedCommands, CallbackAt, CreditSteps, Past, Succeeded

\* Both are counted.
OwedIsFinite ==
    cmds \in Seq(Command) =>
        \A u : /\ IsFiniteSet(Succeeded(u)) /\ IsFiniteSet(OwedCommands(u))
               /\ Cardinality(Succeeded(u)) \in Nat
               /\ Cardinality(OwedCommands(u)) \in Nat
               /\ Cardinality(Past(u, "succeeded", CreditSteps)) =
                     Cardinality(Succeeded(u)) - Cardinality(OwedCommands(u))

LEMMA OwedFinite == OwedIsFinite
  <1>. SUFFICES ASSUME cmds \in Seq(Command), NEW u
                PROVE  /\ IsFiniteSet(Succeeded(u)) /\ IsFiniteSet(OwedCommands(u))
                       /\ Cardinality(Succeeded(u)) \in Nat
                       /\ Cardinality(OwedCommands(u)) \in Nat
                       /\ Cardinality(Past(u, "succeeded", CreditSteps)) =
                             Cardinality(Succeeded(u)) - Cardinality(OwedCommands(u))
    BY DEF OwedIsFinite
  <1>. DEFINE P == Succeeded(u)
              O == OwedCommands(u)
  <1>1. IsFiniteSet(P) /\ Cardinality(P) \in Nat
    BY PastFinite DEF PastIsFinite, Succeeded
  <1>2. O \subseteq P /\ Past(u, "succeeded", CreditSteps) = P \ O
    BY OwedIsNotPast
  <1>. HIDE DEF P, O
  <1>3. IsFiniteSet(O) /\ Cardinality(O) \in Nat /\ P \cap O = O
    BY <1>1, <1>2, FS_Subset, FS_CardinalityType
  <1>4. Cardinality(P \ O) = Cardinality(P) - Cardinality(P \cap O)
    BY <1>1, FS_Difference
  <1>. QED
    BY <1>1, <1>2, <1>3, <1>4 DEF P, O

LEMMA OwedFiniteNext == OwedIsFinite'
  BY OwedFinite, PTL

-----------------------------------------------------------------------------
(* The kinds of step. *)

\* A step other than a crash moves one goroutine.
LEMMA OneMoves ==
    ASSUME TInv, Next, ~Crash
    PROVE  \E p : \A t \in Threads \ {p} : ThreadStays(t)
  <1>0. ProcsOK /\ Threads \subseteq Procs
    BY TypeParts DEF TInv, Procs
  <1>1. ASSUME NEW p, \A q \in Procs \ {p} : pc'[q] = pc[q],
                      \A q \in Procs \ {p} : local'[q] = local[q]
        PROVE  \E r : \A t \in Threads \ {r} : ThreadStays(t)
    BY <1>0, <1>1 DEF ThreadStays
  <1>2. CASE \E a \in Airdrops : Insert(a)
    BY <1>1, <1>2 DEF Insert, procVars
  <1>3. CASE \E s \in Sessions : Request(s)
    BY <1>0, <1>1, <1>3
    DEF Request, AirdropTwitter, Proceed, ResetBudget, ResetStop, ResetDo, StartFeeder,
        AwaitStop, ClientGone, Goto, procVars, ProcsOK
  <1>4. CASE \E s \in Sessions : Feeder(s)
    BY <1>0, <1>1, <1>4
    DEF Feeder, ListAirdrops, NextAirdrop, FeederEnds, Return, Goto, ProcsOK
  <1>5. ASSUME NEW p \in Procs, Runner(p) \/ \E s \in Sessions : Rendezvous(p, s)
        PROVE  /\ \A q \in Procs \ {p} : pc'[q] = pc[q]
               /\ \A q \in Procs \ {p} : local'[q] = local[q]
    BY <1>0, <1>5, RunnerMove
  <1>6. ASSUME NEW p \in Threads, After(p)
        PROVE  /\ \A q \in Procs \ {p} : pc'[q] = pc[q]
               /\ \A q \in Procs \ {p} : local'[q] = local[q]
    BY <1>0, <1>6, AfterMove DEF AfterMoved
  <1>7. ASSUME NEW p \in Threads, NEW c \in DOMAIN cmds, Event(p, c)
        PROVE  /\ \A q \in Procs \ {p} : pc'[q] = pc[q]
               /\ \A q \in Procs \ {p} : local'[q] = local[q]
    BY <1>0, <1>7
    DEF Event, OnTxGenerated, OnSucceed, OnFailed, Callback, Goto, ProcsOK
  <1>. QED
    BY <1>1, <1>2, <1>3, <1>4, <1>5, <1>6, <1>7 DEF Next

Success == \E t \in Threads, c \in DOMAIN cmds : OnSucceed(t, c)

\* Without a report of success no payment succeeds.
LEMMA PaidStays ==
    ASSUME TInv, Next, ~Success
    PROVE  \A u : Succeeded(u)' = Succeeded(u)
  <1>0. cmds \in Seq(Command)
    BY TypeParts DEF TInv, ClientOK
  <1>1. ASSUME NEW c \in DOMAIN cmds', cmds'[c].stage = "succeeded"
        PROVE  c \in DOMAIN cmds /\ cmds[c].stage = "succeeded"
    <2>1. c \in DOMAIN cmds
      BY <1>1, OutcomesFinal DEF Unfinished
    <2>2. CASE UNCHANGED cmds
      BY <1>1, <2>2
    <2>3. CASE \E p \in Procs : Submission(p)
      BY <1>0, <1>1, <2>1, <2>3 DEF Submission
    <2>4. ASSUME NEW t \in Threads, NEW d \in DOMAIN cmds, Event(t, d)
          PROVE  cmds[c].stage = "succeeded"
      <3>1. PICK st \in {"generated", "failed"} : cmds' = [cmds EXCEPT ![d].stage = st]
        BY <2>4 DEF Event, Success, OnTxGenerated, OnFailed, Callback, Report
      <3>2. cmds[d] \in Command
        BY <1>0
      <3>. QED
        BY <1>0, <1>1, <2>1, <3>1, <3>2 DEF Command
    <2>5. CASE Crash
      <3>1. cmds[c] \in Command
        BY <1>0, <2>1
      <3>. QED
        BY <1>1, <2>1, <2>5, <3>1 DEF Crash, Down, LoseUnfinished, Command
    <2>. QED
      BY <2>1, <2>2, <2>3, <2>4, <2>5, StageSteps
  <1>2. ASSUME NEW u
        PROVE  Succeeded(u)' = Succeeded(u)
    BY <1>1, OutcomesFinal DEF Succeeded, Commands, Unfinished
  <1>. QED
    BY <1>2

ThreadSettles(t) == pc[t] \in CreditSteps /\ pc'[t] \notin CreditSteps

\* While no payment succeeds and no callback leaves successAfter, what is owed stays.
LEMMA OwedStays ==
    ASSUME TInv, CallbacksOK, Next, ~Success, \A t \in Threads : ~ThreadSettles(t)
    PROVE  \A u : OwedCommands(u)' = OwedCommands(u)
  <1>1. SUFFICES ASSUME NEW u, NEW c \in Succeeded(u)
                 PROVE  CallbackAt(c, CreditSteps)' <=> CallbackAt(c, CreditSteps)
    BY PaidStays, OwedIsNotPast, OwedIsNotPastNext
  <1>2. c \in DOMAIN cmds /\ cmds[c].stage = "succeeded"
    BY DEF Succeeded, Commands
  <1>3. SUFFICES ASSUME NEW t \in Threads
                 PROVE  local'[t].cmd = c /\ pc'[t] \in CreditSteps
                          <=> local[t].cmd = c /\ pc[t] \in CreditSteps
    BY DEF CallbackAt
  <1>4. pc[t] \in CreditSteps => pc'[t] \in CreditSteps
    BY DEF ThreadSettles
  <1>5. ThreadStarts(t) => local'[t].cmd # c \/ pc'[t] \notin CreditSteps
    BY <1>2 DEF ThreadStarts, Unfinished
  <1>. QED
    BY <1>4, <1>5, CallbackMoves
    DEF ThreadMove, ThreadStays, ThreadFree, ThreadLeaves, ThreadGoesOn, ThreadStarts, SameCmd,
        OutcomeSteps, CreditSteps, FailSteps

\* A callback that leaves successAfter settles its own payment, and no other.
LEMMA OwedSettles ==
    ASSUME TInv, CallbacksOK, Next, ~Crash, NEW t \in Threads, ThreadSettles(t)
    PROVE  /\ local[t].cmd \in OwedCommands(Payee(t))
           /\ \A u : Succeeded(u)' = Succeeded(u)
           /\ \A u : OwedCommands(u)' = OwedCommands(u) \ {local[t].cmd}
  <1>. DEFINE c == local[t].cmd
  <1>0. cmds \in Seq(Command)
    BY TypeParts DEF TInv, ClientOK
  <1>1. c \in DOMAIN cmds /\ cmds[c].stage = "succeeded" /\ c # 0
    BY <1>0 DEF ThreadSettles, CallbacksOK, OutcomeKnown, OutcomeSteps
  <1>2. c \in OwedCommands(Payee(t))
    BY <1>1, OwedIsNotPast DEF Succeeded, Commands, Payee, CallbackAt, ThreadSettles
  <1>3. \A v \in Threads \ {t} : ThreadStays(v)
    BY OneMoves DEF ThreadSettles, ThreadStays
  <1>4. ~Success
    <2>1. SUFFICES ASSUME NEW v \in Threads, NEW d \in DOMAIN cmds, OnSucceed(v, d)
                   PROVE  FALSE
      BY DEF Success
    <2>2. ProcsOK /\ v \in Procs /\ pc[v] = "idle" /\ pc'[v] = "successFind"
      BY <2>1, TypeParts DEF TInv, Procs, OnSucceed, Callback, Goto, ProcsOK
    <2>3. v # t
      BY <2>2 DEF ThreadSettles, CreditSteps
    <2>. QED
      BY <1>3, <2>2, <2>3 DEF ThreadStays
  <1>5. ASSUME NEW u PROVE OwedCommands(u)' = OwedCommands(u) \ {c}
    <2>1. SUFFICES ASSUME NEW d \in Succeeded(u)
                   PROVE  CallbackAt(d, CreditSteps)' <=> CallbackAt(d, CreditSteps) /\ d # c
      BY <1>4, PaidStays, OwedIsNotPast, OwedIsNotPastNext
    <2>2. CallbackAt(d, CreditSteps)' <=>
             \E v \in Threads \ {t} : local[v].cmd = d /\ pc[v] \in CreditSteps
      BY <1>3 DEF CallbackAt, ThreadStays, ThreadSettles
    <2>3. \A v \in Threads \ {t} : local[v].cmd # c
      BY <1>1 DEF CallbacksOK, OneCallback
    <2>. QED
      BY <2>2, <2>3 DEF CallbackAt
  <1>. QED
    BY <1>2, <1>4, <1>5, PaidStays

\* A report of success adds its command to what succeeded and to what is owed.
LEMMA OwedPays ==
    ASSUME TInv, CallbacksOK, Next, NEW t \in Threads, NEW c \in DOMAIN cmds, OnSucceed(t, c),
           NEW w, w = Owner[cmds[c].to]
    PROVE  /\ c \notin Succeeded(w) /\ c \notin OwedCommands(w)
           /\ Succeeded(w)' = Succeeded(w) \cup {c}
           /\ OwedCommands(w)' = OwedCommands(w) \cup {c}
           /\ \A u : u # w => /\ Succeeded(u)' = Succeeded(u)
                              /\ OwedCommands(u)' = OwedCommands(u)
           /\ UNCHANGED airdropCoin
  <1>0. /\ cmds \in Seq(Command) /\ cmds[c] \in Command
        /\ ProcsOK /\ t \in Procs /\ Threads \subseteq Procs
    BY TypeParts DEF TInv, ClientOK, Procs
  <1>1. /\ cmds[c].stage = "generated"
        /\ cmds' = [cmds EXCEPT ![c].stage = "succeeded"]
        /\ pc[t] = "idle" /\ UNCHANGED airdropCoin
    BY DEF OnSucceed, Callback, Report, collectionVars
  <1>2. /\ pc'[t] = "successFind" /\ local'[t].cmd = c
        /\ \A v \in Threads \ {t} : ThreadStays(v)
    BY <1>0 DEF OnSucceed, Callback, Goto, ProcsOK, Locals, ThreadStays
  <1>3. /\ DOMAIN cmds' = DOMAIN cmds
        /\ cmds'[c].stage = "succeeded" /\ cmds'[c].to = cmds[c].to
        /\ \A d \in DOMAIN cmds : d # c => cmds'[d] = cmds[d]
    BY <1>0, <1>1 DEF Command
  <1>4. \A u : /\ c \notin Succeeded(u)
               /\ Succeeded(u)' = Succeeded(u) \cup (IF u = w THEN {c} ELSE {})
    BY <1>1, <1>3 DEF Succeeded, Commands
  <1>5. \A d : CallbackAt(d, CreditSteps)' <=> CallbackAt(d, CreditSteps) \/ d = c
    <2>1. pc[t] \notin CreditSteps /\ pc'[t] \in CreditSteps
      BY <1>1, <1>2 DEF CreditSteps
    <2>. QED
      BY <1>2, <2>1 DEF CallbackAt, ThreadStays
  <1>6. \A u : OwedCommands(u)' = OwedCommands(u) \cup (IF u = w THEN {c} ELSE {})
    BY <1>4, <1>5, OwedIsNotPast, OwedIsNotPastNext
  <1>. QED
    BY <1>1, <1>4, <1>6, OwedIsNotPast

-----------------------------------------------------------------------------
(* The refinement. *)

Paid == [u \in Users |-> Cardinality(Succeeded(u))]
Owed == [u \in Users |-> Cardinality(OwedCommands(u))]

LEMMA LedgerStart == TInv /\ LInv /\ Init => Ledger!LedgerInit
  <1>. SUFFICES ASSUME TInv, LInv, Init PROVE Ledger!LedgerInit
    OBVIOUS
  <1>1. cmds = << >> /\ airdropCoin = [u \in Users |-> 0]
    BY DEF Init, CollectionInit, ClientInit
  <1>2. \A u : Commands(u, "succeeded") = {} /\ OwedCommands(u) = {}
    BY <1>1 DEF Commands, OwedCommands
  <1>3. Cardinality({}) = 0
    BY FS_EmptySet
  <1>. QED
    BY <1>1, <1>2, <1>3 DEF Ledger!LedgerInit

LEMMA LedgerStep ==
    TInv /\ LInv /\ (TInv /\ LInv)' /\ [Next]_vars => [Ledger!LedgerNext]_(Ledger!ledgerVars)
  <1>. SUFFICES ASSUME TInv, LInv, TInv', LInv', [Next]_vars
                PROVE  Ledger!LedgerNext \/ UNCHANGED <<Paid, Owed, airdropCoin>>
    BY DEF Ledger!ledgerVars, Paid, Owed, Succeeded
  <1>0. /\ CallbacksOK /\ cmds \in Seq(Command) /\ cmds' \in Seq(Command)
        /\ airdropCoin \in [Users -> Nat] /\ airdropCoin' \in [Users -> Nat]
    BY TypeParts DEF LInv, TInv, ClientOK, DbOK
  <1>1. CASE UNCHANGED vars
    BY <1>1
    DEF vars, collectionVars, clientVars, procVars, Paid, Owed, Succeeded, Commands, OwedCommands
  <1>2. ASSUME Next, NEW t \in Threads, NEW c \in DOMAIN cmds, OnSucceed(t, c)
        PROVE  \E u \in Users : Ledger!Pay(u)
    <2>1. cmds[c] \in Command
      BY <1>0
    <2>2. PICK u \in Users : u = Owner[cmds[c].to]
      BY <2>1 DEF Command, Users
    <2>3. /\ c \notin Succeeded(u) /\ c \notin OwedCommands(u)
          /\ Succeeded(u)' = Succeeded(u) \cup {c}
          /\ OwedCommands(u)' = OwedCommands(u) \cup {c}
          /\ \A v : v # u => /\ Succeeded(v)' = Succeeded(v)
                             /\ OwedCommands(v)' = OwedCommands(v)
          /\ UNCHANGED airdropCoin
      BY <1>0, <1>2, <2>2, OwedPays
    <2>4. /\ Cardinality(Succeeded(u) \cup {c}) = Cardinality(Succeeded(u)) + 1
          /\ Cardinality(OwedCommands(u) \cup {c}) = Cardinality(OwedCommands(u)) + 1
      <3>1. IsFiniteSet(Succeeded(u)) /\ IsFiniteSet(OwedCommands(u))
        BY <1>0, OwedFinite DEF OwedIsFinite
      <3>. QED
        BY <2>3, <3>1, FS_AddElement
    <2>5. Paid' = [Paid EXCEPT ![u] = @ + 1] /\ Owed' = [Owed EXCEPT ![u] = @ + 1]
      BY <2>3, <2>4 DEF Paid, Owed
    <2>. QED
      BY <2>3, <2>5 DEF Ledger!Pay, Paid, Owed, Succeeded
  <1>3. ASSUME Crash, ~Success
        PROVE  Ledger!Forget
    <2>1. \A u : Succeeded(u)' = Succeeded(u)
      BY <1>3, PaidStays DEF Next
    <2>2. \A t \in Threads : pc'[t] = "idle"
      BY <1>3, ProcsAssumption DEF Crash, Down, Procs
    <2>3. \A u : OwedCommands(u)' = {}
      BY <2>2 DEF OwedCommands
    <2>4. UNCHANGED airdropCoin
      BY <1>3 DEF Crash, Down, collectionVars
    <2>5. Owed' = [u \in Users |-> 0] /\ Paid' = Paid
      BY <2>1, <2>3, FS_EmptySet DEF Owed, Paid
    <2>. QED
      BY <2>4, <2>5 DEF Ledger!Forget, Owed, Paid, Succeeded
  <1>4. ASSUME Next, ~Crash, NEW t \in Threads, ThreadSettles(t)
        PROVE  \E u \in Users : Ledger!Settle(u)
    <2>1. PICK u \in Users : u = Payee(t)
      BY <1>0, <1>4, PayeeType DEF ThreadSettles, OutcomeSteps
    <2>. DEFINE c == local[t].cmd
                b == airdropCoin'[u]
    <2>2. /\ c \in OwedCommands(u)
          /\ \A v : Succeeded(v)' = Succeeded(v)
          /\ \A v : OwedCommands(v)' = OwedCommands(v) \ {c}
      BY <1>0, <1>4, <2>1, OwedSettles
    <2>3. \A v : v # u => OwedCommands(v)' = OwedCommands(v)
      BY <2>2 DEF OwedCommands, Commands
    <2>4. /\ Cardinality(OwedCommands(u)) \in Nat
          /\ Cardinality(OwedCommands(u) \ {c}) = Cardinality(OwedCommands(u)) - 1
          /\ Cardinality(OwedCommands(u) \ {c}) \in Nat
      <3>1. IsFiniteSet(OwedCommands(u)) /\ Cardinality(OwedCommands(u)) \in Nat
        BY <1>0, OwedFinite DEF OwedIsFinite
      <3>. QED
        BY <2>2, <3>1, FS_RemoveElement, FS_CardinalityType
    <2>5. Paid' = Paid /\ Owed' = [Owed EXCEPT ![u] = @ - 1] /\ Owed[u] > 0
      <3>1. Paid' = Paid
        BY <2>2 DEF Paid
      <3>2. Cardinality(OwedCommands(u))' = Cardinality(OwedCommands(u)) - 1
        BY <2>2, <2>4
      <3>3. Owed' = [Owed EXCEPT ![u] = @ - 1]
        BY <2>3, <3>2 DEF Owed
      <3>4. Owed[u] > 0
        BY <2>4 DEF Owed
      <3>. QED
        BY <3>1, <3>3, <3>4
    <2>6. airdropCoin' = [airdropCoin EXCEPT ![u] = b]
      <3>1. CASE UNCHANGED airdropCoin
        BY <1>0, <3>1
      <3>2. ASSUME NEW v \in Threads, ExtWrite(v),
                   UpdateAirdropCoin(Owner[local[v].row], local[v].num + Coin[local[v].row])
            PROVE  airdropCoin' = [airdropCoin EXCEPT ![u] = b]
        <4>1. pc[v] = "extWrite" /\ pc'[v] = "again"
          BY <3>2, TypeParts DEF TInv, ProcsOK, Procs, ExtWrite, Credit, Goto
        <4>2. v = t
          BY <1>4, <4>1, OneMoves DEF ThreadStays, ThreadSettles
        <4>3. Owner[local[v].row] = u
          BY <1>0, <2>1, <4>1, <4>2 DEF CallbacksOK, RowOfPayee
        <4>. QED
          BY <1>0, <3>2, <4>3 DEF UpdateAirdropCoin
      <3>. QED
        BY <1>4, <3>1, <3>2, CoinSteps
    <2>7. b \in 0 .. [v \in Users |-> Largest(v)][u] * (Paid[u] - Owed'[u])
      <3>1. /\ b \in Nat /\ Largest(u) \in Nat
            /\ b <= Largest(u) * Cardinality(Past(u, "succeeded", CreditSteps))'
        BY <1>0, LargestType DEF LInv, CreditsPast, Users
      <3>2. Cardinality(Past(u, "succeeded", CreditSteps))' =
               Cardinality(Succeeded(u))' - Cardinality(OwedCommands(u))'
        BY <1>0, OwedFiniteNext DEF OwedIsFinite
      <3>3. /\ Cardinality(Succeeded(u))' = Paid[u]
            /\ Cardinality(OwedCommands(u))' = Owed'[u]
        BY <2>5 DEF Paid, Owed
      <3>4. /\ Cardinality(Past(u, "succeeded", CreditSteps))' = Paid[u] - Owed'[u]
            /\ Cardinality(Past(u, "succeeded", CreditSteps))' \in Nat
        BY <1>0, <3>2, <3>3, PastFiniteNext DEF PastIsFinite
      <3>. DEFINE m == Cardinality(Past(u, "succeeded", CreditSteps))'
                  w == Largest(u)
      <3>5. w \in Nat /\ m \in Nat /\ b \in Nat /\ b <= w * m
        BY <3>1, <3>4
      <3>. HIDE DEF m, w, b
      <3>6. w * m \in Nat
        BY <3>5, Multiples
      <3>7. b \in 0 .. w * m
        BY <3>5, <3>6
      <3>. QED
        BY <3>4, <3>7 DEF m, w
    <2>. QED
      BY <2>5, <2>6, <2>7 DEF Ledger!Settle, Paid, Owed, Succeeded
  <1>5. ASSUME Next, ~Crash, ~Success, \A t \in Threads : ~ThreadSettles(t)
        PROVE  UNCHANGED <<Paid, Owed, airdropCoin>>
    <2>1. \A u : Succeeded(u)' = Succeeded(u) /\ OwedCommands(u)' = OwedCommands(u)
      BY <1>0, <1>5, PaidStays, OwedStays
    <2>2. ASSUME NEW t \in Threads, ExtWrite(t)
          PROVE  FALSE
      <3>1. pc[t] = "extWrite" /\ pc'[t] = "again"
        BY <2>2, TypeParts DEF TInv, ProcsOK, Procs, ExtWrite, Credit, Goto
      <3>. QED
        BY <1>5, <3>1 DEF ThreadSettles, CreditSteps
    <2>3. UNCHANGED airdropCoin
      BY <1>5, <2>2, CoinSteps
    <2>. QED
      BY <2>1, <2>3 DEF Paid, Owed
  <1>. QED
    BY <1>1, <1>2, <1>3, <1>4, <1>5 DEF Ledger!LedgerNext, Success

\* The Twitter dispatcher implements the ledger: a payment that succeeds is owed once,
\* each owed payment is settled at most once, and a balance moves only then
\* (OnSucceed, successAfter, updateUserAirdrop).
THEOREM LedgerRefined == Spec => ImplementsLedger
  <1>1. TInv /\ LInv /\ Init => Ledger!LedgerInit
    BY LedgerStart
  <1>2. TInv /\ LInv /\ (TInv /\ LInv)' /\ [Next]_vars
          => [Ledger!LedgerNext]_(Ledger!ledgerVars)
    BY LedgerStep
  <1>. QED
    BY <1>1, <1>2, AccountsHold, PTL DEF Spec, ImplementsLedger, Ledger!LedgerSpec

=============================================================================
