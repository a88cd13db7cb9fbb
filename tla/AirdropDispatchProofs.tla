----------------------- MODULE AirdropDispatchProofs -----------------------
(***************************************************************************)
(* Theorems about AirdropDispatch, for every value of its constants: what  *)
(* the clauses of a search select, the types, the safety invariants        *)
(* SettledWasSubmitted and RunnerNeverRepeats, and what one background     *)
(* goroutine and one request handler ensure besides.                       *)
(***************************************************************************)
EXTENDS AirdropDispatch, TLAPS

-----------------------------------------------------------------------------
(* What the clauses of an AirdropSearch select, for every search record. *)

\* A Status of zero or more decides alone which statuses are selected: the
\* clause made from Statuses is replaced by the one made from Status.
THEOREM StatusClauseWins ==
    ASSUME NEW p, NEW doc, p.Status # AnyStatus, Matches(doc, p)
    PROVE  doc.status = p.Status
  <1> DEFINE clauses == BuildSearchParams(p)
  <1>1. DOMAIN clauses = 1..5
    BY DEF BuildSearchParams
  <1>2. clauses[4].key = "status" /\ clauses[4].in = {p.Status}
    BY DEF BuildSearchParams
  <1>3. clauses[5].key = "tx_id"
    BY DEF BuildSearchParams
  <1>4. 4 \in Where(clauses)
    <2>1. \A j \in 1..5 : clauses[j].key = "status" => j <= 4
      BY <1>3
    <2>2. 4 \in DOMAIN clauses /\ clauses[4].in # {}
      BY <1>1, <1>2
    <2> QED
      BY <1>1, <1>2, <2>1, <2>2 DEF Where
  <1>5. doc[clauses[4].key] \in clauses[4].in
    BY <1>4 DEF Matches
  <1> QED
    BY <1>2, <1>5

\* The query of failedAfter, which lists default and pending, selects default only.
THEOREM FailedAfterSeesDefaultOnly ==
    ASSUME NEW misesid, NEW doc, Matches(doc, FailedAfterQuery(misesid))
    PROVE  doc.status = "default"
  <1>1. FailedAfterQuery(misesid).Status = "default"
    BY DEF FailedAfterQuery, ZeroSearch
  <1> QED
    BY <1>1, StatusClauseWins DEF AnyStatus

-----------------------------------------------------------------------------
(* Lemmas about the data. *)

Command == [to : Airdrops, amount : Nat, by : Procs, ep : Nat, stage : Stage]

\* The lookups return rows of the collection.
LEMMA FoundRows ==
    /\ \A q : FindAirdrop(q) \subseteq Airdrops
    /\ \A q : FindOldestAirdrop(q) \subseteq Airdrops
    /\ \A q, n : ListAirdrop(q, n) \subseteq Airdrops
    /\ \A S : Oldest(S) \subseteq S
  BY DEF FindAirdrop, FindOldestAirdrop, ListAirdrop, Newest, Oldest, Selected, Rows

\* Moving a command to another stage leaves a sequence of commands.
LEMMA StageType ==
    ASSUME NEW cs \in Seq(Command), NEW c \in DOMAIN cs, NEW st \in Stage
    PROVE  /\ [cs EXCEPT ![c].stage = st] \in Seq(Command)
           /\ c \in Nat
           /\ cs[c] \in Command
  <1>1. cs[c] \in Command /\ c \in Nat
    OBVIOUS
  <1>2. [cs[c] EXCEPT !.stage = st] \in Command
    BY <1>1 DEF Command
  <1> QED
    BY <1>1, <1>2

\* Losing the unfinished commands leaves a sequence of commands.
LEMMA LoseType ==
    ASSUME cmds \in Seq(Command), LoseUnfinished
    PROVE  cmds' \in Seq(Command)
  <1>1. \A c \in DOMAIN cmds : [cmds[c] EXCEPT !.stage = "lost"] \in Command
    BY StageType DEF Stage, Command
  <1>2. DOMAIN cmds' = 1..Len(cmds)
    BY DEF LoseUnfinished
  <1>3. \A c \in 1..Len(cmds) : cmds'[c] \in Command
    BY <1>1 DEF LoseUnfinished
  <1>4. cmds' = [c \in 1..Len(cmds) |-> cmds'[c]]
    BY DEF LoseUnfinished
  <1> QED
    BY <1>3, <1>4

\* The type of the variables an SDK thread or a feeder works with.
ProcsOK == pc \in [Procs -> Labels] /\ local \in [Procs -> Locals]

\* A goroutine that returns, and one that goes on.
LEMMA ReturnType ==
    ASSUME ProcsOK, NEW p \in Procs, Return(p)
    PROVE  ProcsOK'
  BY DEF ProcsOK, Return, Goto, Labels, Locals, NoLocals

LEMMA GotoType ==
    ASSUME ProcsOK, NEW p \in Procs, NEW l \in Labels, Goto(p, l)
    PROVE  pc' \in [Procs -> Labels]
  BY DEF ProcsOK, Goto

\* Assigning one local variable.
LEMMA LocalType ==
    ASSUME ProcsOK, NEW p \in Procs
    PROVE  /\ \A a \in Airdrops : [local EXCEPT ![p].row = a] \in [Procs -> Locals]
           /\ \A n \in Int : [local EXCEPT ![p].num = n] \in [Procs -> Locals]
           /\ \A s \in Sessions : [local EXCEPT ![p].ctx = s] \in [Procs -> Locals]
           /\ \A s \in Sessions \cup {NoChan} :
                 [local EXCEPT ![p].chan = s] \in [Procs -> Locals]
           /\ \A c \in Nat, s \in Sessions \cup {NoListener} :
                 [local EXCEPT ![p].cmd = c, ![p].ctx = s] \in [Procs -> Locals]
  BY DEF ProcsOK, Locals

-----------------------------------------------------------------------------
(* Type correctness: each action preserves TypeOK. *)

\* The parts of TypeOK, so that a step only speaks of what it changes.
DbOK == status \in [Airdrops -> AirdropStatus \cup {"absent"}]
        /\ txID \in [Airdrops -> Nat] /\ airdropCoin \in [Users -> Nat]
ClientOK == cmds \in Seq(Command) /\ listener \in Sessions \cup {NoListener}
GlobalsOK == /\ totalAirdropNum \in Int
             /\ airdropStop \in Sessions \cup {NoChan}
             /\ airdropDo \in BOOLEAN
SessionsOK == /\ session \in [Sessions -> RequestAt]
              /\ waitsOn \in [Sessions -> Sessions \cup {NoChan}]
              /\ ctxDone \in [Sessions -> BOOLEAN]
              /\ epoch \in Nat
TodoOK == todo \in [Sessions -> SUBSET Airdrops]
EnvOK == faults \in Nat /\ crashes \in Nat

LEMMA TypeParts ==
    /\ TypeOK <=> DbOK /\ ClientOK /\ GlobalsOK /\ SessionsOK /\ TodoOK /\ ProcsOK /\ EnvOK
    /\ TypeOK' <=> DbOK' /\ ClientOK' /\ GlobalsOK' /\ SessionsOK' /\ TodoOK' /\ ProcsOK' /\ EnvOK'
  BY DEF TypeOK, CollectionTypeOK, Command, DbOK, ClientOK, GlobalsOK, SessionsOK,
         TodoOK, ProcsOK, EnvOK

\* What a step leaves unchanged keeps its type.
LEMMA Kept ==
    /\ DbOK /\ UNCHANGED collectionVars => DbOK'
    /\ ClientOK /\ UNCHANGED clientVars => ClientOK'
    /\ GlobalsOK /\ UNCHANGED globals => GlobalsOK'
    /\ SessionsOK /\ UNCHANGED sessionVars => SessionsOK'
    /\ TodoOK /\ UNCHANGED todo => TodoOK'
    /\ ProcsOK /\ UNCHANGED <<pc, local>> => ProcsOK'
    /\ EnvOK /\ UNCHANGED envVars => EnvOK'
  BY DEF DbOK, ClientOK, GlobalsOK, SessionsOK, TodoOK, ProcsOK, EnvOK,
         collectionVars, clientVars, globals, sessionVars, envVars

\* A call, failed or not, keeps the type of the counters.
LEMMA CallType ==
    ASSUME EnvOK, NEW ctx, CallOk(ctx) \/ CallFails(ctx)
    PROVE  EnvOK'
  BY DEF EnvOK, CallOk, CallFails, envVars

\* The updates keep the type of the collection.
LEMMA UpdateType ==
    ASSUME DbOK
    PROVE  /\ \A a \in Airdrops, st \in AirdropStatus : UpdateStatus(a, st) => DbOK'
           /\ \A a \in Airdrops : UpdateStatusPending(a) => DbOK'
           /\ \A a \in Airdrops : CreateAirdrop(a) => DbOK'
           /\ \A a \in Airdrops, tx \in Nat : UpdateTxID(a, tx) => DbOK'
           /\ \A u \in Users, n \in Nat : UpdateAirdropCoin(u, n) => DbOK'
  BY DEF DbOK, UpdateStatus, UpdateStatusPending, CreateAirdrop, UpdateTxID,
         UpdateAirdropCoin, AirdropStatus

\* TypeOK is not inductive: the row at hand must be a row of the collection
\* where it is paid or updated, and the balance read must not be negative.
RowLabels ==
    { "check", "submit", "load", "store", "pendingFind", "pendingUpd", "txUpd",
      "successUpd", "extRead", "extWrite", "failedUpd" }

RowHeld == \A p \in Procs : pc[p] \in RowLabels => local[p].row \in Rows
SumHeld == \A p \in Procs : pc[p] = "extWrite" => local[p].num \in Nat
ListHeld == \A s \in Sessions : todo[s] \subseteq Rows
PaidHeld == \A c \in DOMAIN cmds : cmds[c].to \in Rows

\* What the variables of the dispatcher itself hold, whoever else uses the client.
OwnInv ==
    /\ DbOK /\ GlobalsOK /\ SessionsOK /\ TodoOK /\ ProcsOK
    /\ RowHeld /\ SumHeld /\ ListHeld

Held == RowHeld /\ SumHeld /\ ListHeld /\ PaidHeld

TInv == TypeOK /\ Held

LEMMA OwnParts ==
    /\ TInv <=> OwnInv /\ ClientOK /\ EnvOK /\ PaidHeld
    /\ TInv' <=> OwnInv' /\ ClientOK' /\ EnvOK' /\ PaidHeld'
  BY TypeParts DEF TInv, OwnInv, Held

\* No update takes a row out of the collection.
LEMMA RowsStay ==
    ASSUME DbOK
    PROVE  /\ \A a \in Airdrops, st \in AirdropStatus : UpdateStatus(a, st) => Rows \subseteq Rows'
           /\ \A a \in Airdrops : UpdateStatusPending(a) => Rows \subseteq Rows'
           /\ \A a \in Airdrops : CreateAirdrop(a) => Rows \subseteq Rows'
           /\ \A a \in Airdrops, tx \in Nat : UpdateTxID(a, tx) => Rows \subseteq Rows'
           /\ \A u, n : UpdateAirdropCoin(u, n) => Rows \subseteq Rows'
           /\ UNCHANGED collectionVars => Rows = Rows'
  BY DEF DbOK, Rows, UpdateStatus, UpdateStatusPending, CreateAirdrop, UpdateTxID,
         UpdateAirdropCoin, AirdropStatus, collectionVars

\* The lookups return rows that exist.
LEMMA FoundHeld ==
    /\ \A q : FindAirdrop(q) \subseteq Rows
    /\ \A q : FindOldestAirdrop(q) \subseteq Rows
    /\ \A q, n : ListAirdrop(q, n) \subseteq Rows
  BY DEF FindAirdrop, FindOldestAirdrop, ListAirdrop, Newest, Oldest, Selected

\* A step that keeps the rows and the lists, and moves one goroutine to a label
\* where nothing is required of its row.
LEMMA OwnFrame ==
    ASSUME OwnInv, DbOK', GlobalsOK', SessionsOK', Rows \subseteq Rows', UNCHANGED todo,
           NEW p \in Procs, NEW l \in Labels, Goto(p, l),
           local' \in [Procs -> Locals],
           \A q \in Procs \ {p} : local'[q] = local[q],
           l \in RowLabels => local'[p].row \in Rows',
           l = "extWrite" => local'[p].num \in Nat
    PROVE  OwnInv'
  <1>1. \A q \in Procs \ {p} : pc'[q] = pc[q]
    BY DEF Goto, OwnInv, ProcsOK
  <1>2. pc'[p] = l
    BY DEF Goto, OwnInv, ProcsOK
  <1>3. RowHeld'
    BY <1>1, <1>2 DEF OwnInv, RowHeld
  <1>4. SumHeld'
    BY <1>1, <1>2 DEF OwnInv, SumHeld
  <1>5. ListHeld' /\ TodoOK'
    BY Kept DEF OwnInv, ListHeld
  <1>6. ProcsOK'
    BY GotoType DEF OwnInv, ProcsOK
  <1> QED
    BY <1>3, <1>4, <1>5, <1>6 DEF OwnInv

\* A step that leaves the goroutines where they are.
LEMMA OwnStays ==
    ASSUME OwnInv, DbOK', GlobalsOK', SessionsOK', Rows \subseteq Rows', UNCHANGED procVars
    PROVE  OwnInv'
  BY Kept DEF OwnInv, procVars, RowHeld, SumHeld, ListHeld

LEMMA TInvInit == Init => TInv
  <1> SUFFICES ASSUME Init PROVE TInv
    OBVIOUS
  <1>1. cmds \in Seq(Command) /\ DOMAIN cmds = {}
    BY DEF Init, ClientInit
  <1>2. TypeOK
    <2>1. DbOK
      BY DEF Init, CollectionInit, DbOK, NoTx
    <2>2. ClientOK /\ EnvOK /\ TodoOK
      BY <1>1 DEF Init, ClientInit, ClientOK, EnvOK, TodoOK
    <2>5. GlobalsOK
      <3>1. totalAirdropNum \in Int /\ airdropStop \in Sessions \cup {NoChan}
        BY DEF Init
      <3>2. airdropDo \in BOOLEAN
        BY Zenon DEF Init
      <3> QED
        BY <3>1, <3>2 DEF GlobalsOK
    <2>3. SessionsOK
      BY DEF Init, SessionsOK, RequestAt, Unstarted
    <2>4. ProcsOK
      BY DEF Init, ProcsOK, Labels, Locals, NoLocals, NoRow
    <2> QED
      BY <2>1, <2>2, <2>3, <2>4, <2>5, TypeParts
  <1>3. Held
    BY <1>1 DEF Init, Held, RowHeld, SumHeld, ListHeld, PaidHeld, RowLabels
  <1> QED
    BY <1>2, <1>3 DEF TInv

\* The steps of the world and of the request.
LEMMA OwnWorld ==
    ASSUME OwnInv,
           \/ \E a \in Airdrops : Insert(a)
           \/ \E s \in Sessions : Request(s)
           \/ \E p \in Procs, s \in Sessions : Rendezvous(p, s)
    PROVE  OwnInv' /\ Rows \subseteq Rows'
  <1>0. DbOK /\ GlobalsOK /\ SessionsOK /\ ProcsOK
    BY DEF OwnInv
  <1>1. ASSUME NEW a \in Airdrops, Insert(a) PROVE OwnInv' /\ Rows \subseteq Rows'
    <2>1. Rows \subseteq Rows' /\ DbOK'
      BY <1>0, <1>1, RowsStay, UpdateType DEF Insert
    <2> QED
      BY <1>0, <1>1, <2>1, Kept, OwnStays DEF Insert
  <1>2. ASSUME NEW s \in Sessions, StartFeeder(s) PROVE OwnInv' /\ Rows \subseteq Rows'
    <2>1. UNCHANGED <<collectionVars, todo>> /\ Goto(s, "list") /\ s \in Procs
      BY <1>2 DEF StartFeeder, Procs
    <2>2. /\ local' \in [Procs -> Locals]
          /\ \A q \in Procs \ {s} : local'[q] = local[q]
      BY <1>0, <1>2, <2>1, LocalType DEF StartFeeder, ProcsOK
    <2>3. GlobalsOK' /\ SessionsOK'
      BY <1>0, <1>2 DEF StartFeeder, GlobalsOK, SessionsOK, RequestAt, Running, globals
    <2>4. DbOK' /\ Rows \subseteq Rows'
      BY <1>0, <2>1, Kept, RowsStay
    <2> QED
      BY <2>1, <2>2, <2>3, <2>4, OwnFrame DEF Labels, RowLabels
  <1>3. ASSUME NEW s \in Sessions, AwaitStop(s) \/ ClientGone(s)
        PROVE  OwnInv' /\ Rows \subseteq Rows'
    <2>1. SessionsOK'
      <3>1. CASE AwaitStop(s)
        BY <1>0, <3>1 DEF AwaitStop, SessionsOK, GlobalsOK, RequestAt, Running
      <3>2. CASE ClientGone(s)
        BY <1>0, <3>2 DEF ClientGone, SessionsOK
      <3> QED
        BY <1>3, <3>1, <3>2
    <2>2. UNCHANGED <<collectionVars, globals, procVars>>
      BY <1>3 DEF AwaitStop, ClientGone
    <2> QED
      BY <1>0, <2>1, <2>2, Kept, RowsStay, OwnStays
  <1>4. ASSUME NEW p \in Procs, NEW s \in Sessions, Rendezvous(p, s)
        PROVE  OwnInv' /\ Rows \subseteq Rows'
    <2>1. local' \in [Procs -> Locals]
      BY <1>0, <1>4, ReturnType DEF Rendezvous, ProcsOK
    <2>2. SessionsOK'
      BY <1>0, <1>4 DEF Rendezvous, SessionsOK, RequestAt
    <2>3. PICK l \in {"end", "idle"} : Goto(p, l)
      BY <1>4 DEF Rendezvous, Return
    <2>4. \A q \in Procs \ {p} : local'[q] = local[q]
      BY <1>0, <1>4 DEF Rendezvous, Return, ProcsOK
    <2>5. DbOK' /\ GlobalsOK' /\ Rows \subseteq Rows' /\ UNCHANGED todo
      BY <1>0, <1>4, Kept, RowsStay DEF Rendezvous
    <2> QED
      BY <2>1, <2>2, <2>3, <2>4, <2>5, OwnFrame DEF Labels, RowLabels
  <1>5. ASSUME NEW s \in Sessions, ResetBudget(s) \/ ResetStop(s) \/ ResetDo(s)
        PROVE  OwnInv' /\ Rows \subseteq Rows'
    <2>1. SessionsOK'
      BY <1>0, <1>5 DEF ResetBudget, ResetStop, ResetDo, SessionsOK, RequestAt, Running
    <2>2. totalAirdropNum' \in Int /\ airdropStop' \in Sessions \cup {NoChan}
      BY <1>0, <1>5, BudgetAssumption DEF ResetBudget, ResetStop, ResetDo, GlobalsOK
    <2>3. airdropDo' \in BOOLEAN
      BY <1>0, <1>5, Zenon DEF ResetBudget, ResetStop, ResetDo, GlobalsOK
    <2>4. UNCHANGED <<collectionVars, procVars>>
      BY <1>5 DEF ResetBudget, ResetStop, ResetDo
    <2>5. GlobalsOK'
      BY <2>2, <2>3 DEF GlobalsOK
    <2> QED
      BY <1>0, <2>1, <2>4, <2>5, Kept, RowsStay, OwnStays
  <1> QED
    BY <1>1, <1>2, <1>3, <1>4, <1>5 DEF Request, AirdropTwitter, Proceed

LEMMA OwnDown ==
    ASSUME OwnInv, Down
    PROVE  OwnInv' /\ Rows \subseteq Rows'
  <1>1. GlobalsOK'
    <2>1. totalAirdropNum' \in Int /\ airdropStop' \in Sessions \cup {NoChan}
      BY DEF Down
    <2>2. airdropDo' \in BOOLEAN
      BY Zenon DEF Down
    <2> QED
      BY <2>1, <2>2 DEF GlobalsOK
  <1>2. TodoOK' /\ SessionsOK'
    BY DEF OwnInv, Down, TodoOK, SessionsOK, RequestAt
  <1>3. ProcsOK'
    BY DEF Down, ProcsOK, Labels, Locals, NoLocals
  <1>4. DbOK' /\ Rows' = Rows
    BY Kept, RowsStay DEF OwnInv, Down
  <1>5. RowHeld' /\ SumHeld' /\ ListHeld'
    BY DEF Down, RowHeld, SumHeld, ListHeld, RowLabels, Procs
  <1> QED
    BY <1>1, <1>2, <1>3, <1>4, <1>5 DEF OwnInv

\* The frame of a step of goroutine p that touches neither sessions nor lists.
LEMMA ProcStep ==
    ASSUME OwnInv, DbOK', GlobalsOK', Rows \subseteq Rows',
           UNCHANGED <<sessionVars, todo>>,
           NEW p \in Procs, NEW l \in Labels, Goto(p, l),
           local' \in [Procs -> Locals],
           \A q \in Procs \ {p} : local'[q] = local[q],
           l \in RowLabels => local'[p].row \in Rows',
           l = "extWrite" => local'[p].num \in Nat
    PROVE  OwnInv' /\ Rows \subseteq Rows'
  <1>1. SessionsOK'
    BY Kept DEF OwnInv
  <1> QED
    BY <1>1, OwnFrame

LEMMA OwnFeeder ==
    ASSUME OwnInv, NEW s \in Sessions, Feeder(s)
    PROVE  OwnInv' /\ Rows \subseteq Rows'
  <1>0. s \in Procs /\ DbOK /\ GlobalsOK /\ SessionsOK /\ TodoOK /\ ProcsOK /\ ListHeld
    BY DEF Procs, OwnInv
  <1>1. CASE ListAirdrops(s)
    <2>2. todo' \in [Sessions -> SUBSET Airdrops] /\ \A r \in Sessions : todo'[r] \subseteq Rows
      <3>1. CASE UNCHANGED todo
        BY <1>0, <3>1 DEF TodoOK, ListHeld
      <3>2. CASE todo' = [todo EXCEPT ![s] = ListAirdrop(WaitingQuery, ListNum)]
        BY <1>0, <3>2, FoundRows, FoundHeld DEF TodoOK, ListHeld
      <3> QED
        BY <1>1, <3>1, <3>2 DEF ListAirdrops
    <2>3. PICK l \in {"clear", "next"} : Goto(s, l)
      BY <1>1 DEF ListAirdrops
    <2>4. ProcsOK'
      BY <1>0, <1>1, <2>3, GotoType DEF ListAirdrops, ProcsOK, Labels
    <2>5. DbOK' /\ GlobalsOK' /\ SessionsOK' /\ Rows' = Rows
      BY <1>0, <1>1, Kept, RowsStay DEF ListAirdrops
    <2>7. pc'[s] = l /\ \A q \in Procs \ {s} : pc'[q] = pc[q]
      BY <1>0, <2>3 DEF Goto, ProcsOK
    <2>8. RowHeld' /\ SumHeld'
      BY <1>1, <2>5, <2>7 DEF ListAirdrops, OwnInv, RowHeld, SumHeld, RowLabels
    <2>9. TodoOK' /\ ListHeld'
      BY <2>2, <2>5 DEF TodoOK, ListHeld
    <2> QED
      BY <2>4, <2>5, <2>8, <2>9 DEF OwnInv
  <1>2. CASE NextAirdrop(s)
    <2>1. PICK a \in Oldest(todo[s]) :
             /\ todo' = [todo EXCEPT ![s] = @ \ {a}]
             /\ local' = [local EXCEPT ![s].row = a]
             /\ Goto(s, "check")
      BY <1>2 DEF NextAirdrop
    <2>2. a \in Rows /\ a \in Airdrops
      BY <1>0, FoundRows DEF ListHeld, Rows
    <2>3. ProcsOK' /\ TodoOK'
      BY <1>0, <2>1, <2>2, GotoType, LocalType DEF ProcsOK, TodoOK, Labels
    <2>5. DbOK' /\ GlobalsOK' /\ SessionsOK' /\ Rows' = Rows
      BY <1>0, <1>2, Kept, RowsStay DEF NextAirdrop
    <2>6. /\ pc'[s] = "check" /\ local'[s].row = a
          /\ \A q \in Procs \ {s} : pc'[q] = pc[q] /\ local'[q] = local[q]
      BY <1>0, <2>1 DEF Goto, ProcsOK, Locals
    <2>7. RowHeld' /\ SumHeld'
      BY <2>2, <2>5, <2>6 DEF OwnInv, RowHeld, SumHeld
    <2>8. ListHeld'
      BY <1>0, <2>1, <2>5 DEF ListHeld, TodoOK
    <2> QED
      BY <2>3, <2>5, <2>7, <2>8 DEF OwnInv
  <1>3. CASE FeederEnds(s)
    <2>1. /\ local' \in [Procs -> Locals] /\ Goto(s, "end")
          /\ \A q \in Procs \ {s} : local'[q] = local[q]
      BY <1>0, <1>3, ReturnType DEF FeederEnds, Return, ProcsOK
    <2>2. DbOK' /\ GlobalsOK' /\ Rows \subseteq Rows'
      BY <1>0, <1>3, Kept, RowsStay DEF FeederEnds
    <2> QED
      BY <1>0, <1>3, <2>1, <2>2, ProcStep DEF FeederEnds, Labels, RowLabels
  <1> QED
    BY <1>1, <1>2, <1>3 DEF Feeder

LEMMA OwnRunner ==
    ASSUME OwnInv, NEW p \in Procs, Runner(p)
    PROVE  OwnInv' /\ Rows \subseteq Rows'
  <1>0. /\ DbOK /\ GlobalsOK /\ SessionsOK /\ TodoOK /\ ProcsOK
        /\ pc[p] \in RowLabels => local[p].row \in Rows
    BY DEF OwnInv, RowHeld
  <1>1. CASE RunCheck(p) \/ PendingFind(p) \/ RunSubmit(p)
    <2>1. PICK l \in {"clear", "submit", "pendingUpd", "load"} : Goto(p, l)
      BY <1>1 DEF RunCheck, PendingFind, RunSubmit, Submit
    <2>2. DbOK' /\ GlobalsOK' /\ Rows \subseteq Rows'
      BY <1>0, <1>1, Kept, RowsStay DEF RunCheck, PendingFind, RunSubmit, Submit
    <2>3. UNCHANGED <<sessionVars, todo, local>>
      BY <1>1 DEF RunCheck, PendingFind, RunSubmit, Submit, Keep
    <2>4. local[p].row \in Rows
      BY <1>0, <1>1 DEF RunCheck, PendingFind, RunSubmit, Submit, RowLabels
    <2> QED
      BY <1>0, <2>1, <2>2, <2>3, <2>4, ProcStep DEF ProcsOK, Labels
  <1>3. CASE RunLoad(p)
    <2>1. DbOK' /\ GlobalsOK' /\ Rows \subseteq Rows'
      BY <1>0, <1>3, Kept, RowsStay DEF RunLoad
    <2>2. local' \in [Procs -> Locals]
      BY <1>0, <1>3, LocalType DEF RunLoad, GlobalsOK
    <2>3. local'[p].row = local[p].row /\ \A q \in Procs \ {p} : local'[q] = local[q]
      BY <1>0, <1>3 DEF RunLoad, ProcsOK, Locals
    <2>4. local[p].row \in Rows
      BY <1>0, <1>3 DEF RunLoad, RowLabels
    <2> QED
      BY <1>3, <2>1, <2>2, <2>3, <2>4, ProcStep DEF RunLoad, Labels
  <1>4. CASE RunStore(p)
    <2>1. DbOK' /\ Rows \subseteq Rows'
      BY <1>0, <1>4, Kept, RowsStay DEF RunStore
    <2>2. GlobalsOK'
      BY <1>0, <1>4 DEF RunStore, GlobalsOK, ProcsOK, Locals
    <2>3. local' \in [Procs -> Locals]
      BY <1>0, <1>4, LocalType DEF RunStore
    <2>4. local'[p].row = local[p].row /\ \A q \in Procs \ {p} : local'[q] = local[q]
      BY <1>0, <1>4 DEF RunStore, ProcsOK, Locals
    <2>5. local[p].row \in Rows
      BY <1>0, <1>4 DEF RunStore, RowLabels
    <2> QED
      BY <1>4, <2>1, <2>2, <2>3, <2>4, <2>5, ProcStep DEF RunStore, Labels
  <1>5. CASE PendingUpdate(p)
    <2>1. local[p].row \in Rows /\ local[p].row \in Airdrops
      BY <1>0, <1>5 DEF PendingUpdate, RowLabels, Rows
    <2>2. DbOK' /\ Rows \subseteq Rows'
      BY <1>0, <1>5, <2>1, Kept, RowsStay, UpdateType DEF PendingUpdate
    <2>3. GlobalsOK'
      BY <1>0, <1>5, Kept DEF PendingUpdate
    <2>4. /\ local' \in [Procs -> Locals]
          /\ \A q \in Procs \ {p} : local'[q] = local[q]
      BY <1>0, <1>5, ReturnType DEF PendingUpdate, Return, ProcsOK
    <2>5. PICK l \in {"next", "end", "idle", "clear"} : Goto(p, l)
      BY <1>5 DEF PendingUpdate, Return
    <2> QED
      BY <1>5, <2>2, <2>3, <2>4, <2>5, ProcStep DEF PendingUpdate, Labels, RowLabels
  <1>6. CASE StopClear(p)
    <2>1. DbOK' /\ Rows \subseteq Rows'
      BY <1>0, <1>6, Kept, RowsStay DEF StopClear
    <2>2. airdropDo' \in BOOLEAN
      BY <1>6, Zenon DEF StopClear
    <2>3. GlobalsOK'
      BY <1>0, <1>6, <2>2 DEF StopClear, GlobalsOK
    <2> QED
      BY <1>0, <1>6, <2>1, <2>3, ProcStep DEF StopClear, Keep, Labels, RowLabels, ProcsOK
  <1>7. CASE StopSend(p)
    <2>1. DbOK' /\ GlobalsOK' /\ Rows \subseteq Rows'
      BY <1>0, <1>7, Kept, RowsStay DEF StopSend
    <2>2. local' \in [Procs -> Locals] /\ \A q \in Procs \ {p} : local'[q] = local[q]
      BY <1>0, <1>7, LocalType DEF StopSend, GlobalsOK, ProcsOK
    <2> QED
      BY <1>7, <2>1, <2>2, ProcStep DEF StopSend, Labels, RowLabels
  <1> QED
    BY <1>1, <1>3, <1>4, <1>5, <1>6, <1>7 DEF Runner

\* An event, of a listener of this dispatcher.
LEMMA OwnEvent ==
    ASSUME OwnInv, NEW t \in Threads, NEW c \in Nat, listener \in Sessions \cup {NoListener},
           Event(t, c)
    PROVE  OwnInv' /\ Rows \subseteq Rows'
  <1>0. DbOK /\ GlobalsOK /\ ProcsOK /\ t \in Procs
    BY DEF OwnInv, Procs
  <1>1. PICK from \in SUBSET Stage, stage \in Stage, entry \in {"txFind", "successFind", "failedFind"} :
           Callback(t, c, from, stage, entry)
    BY DEF Event, OnTxGenerated, OnSucceed, OnFailed, Stage, Unfinished
  <1>2. /\ local' \in [Procs -> Locals]
        /\ \A q \in Procs \ {t} : local'[q] = local[q]
    BY <1>0, <1>1, LocalType DEF Callback, ProcsOK
  <1>3. DbOK' /\ GlobalsOK' /\ Rows \subseteq Rows'
    BY <1>0, <1>1, Kept, RowsStay DEF Callback
  <1> QED
    BY <1>0, <1>1, <1>2, <1>3, ProcStep DEF Callback, Labels, RowLabels

\* A step of a callback: it keeps the globals and the sessions.
LEMMA AfterStep ==
    ASSUME OwnInv, DbOK', Rows \subseteq Rows',
           UNCHANGED <<globals, sessionVars, todo>>,
           NEW t \in Threads, NEW l \in Labels, Goto(t, l),
           local' \in [Procs -> Locals],
           \A q \in Procs \ {t} : local'[q] = local[q],
           l \in RowLabels => local'[t].row \in Rows',
           l = "extWrite" => local'[t].num \in Nat
    PROVE  OwnInv' /\ Rows \subseteq Rows'
  <1>1. GlobalsOK' /\ t \in Procs
    BY Kept DEF OwnInv, Procs
  <1> QED
    BY <1>1, ProcStep

\* A thread that takes a found row along.
LEMMA TakeRow ==
    ASSUME OwnInv, DbOK', Rows' = Rows,
           UNCHANGED <<globals, sessionVars, todo>>,
           NEW t \in Threads, NEW l \in Labels, l # "extWrite",
           NEW a \in Rows, local' = [local EXCEPT ![t].row = a], Goto(t, l)
    PROVE  OwnInv' /\ Rows \subseteq Rows'
  <1>1. t \in Procs /\ a \in Airdrops /\ ProcsOK
    BY DEF OwnInv, Procs, Rows
  <1>2. local' \in [Procs -> Locals]
    BY <1>1, LocalType
  <1>3. local'[t].row = a /\ \A q \in Procs \ {t} : local'[q] = local[q]
    BY <1>1 DEF ProcsOK, Locals
  <1> QED
    BY <1>2, <1>3, AfterStep

\* A thread that returns.
LEMMA ThreadReturns ==
    ASSUME ProcsOK, NEW t \in Threads, Return(t)
    PROVE  /\ Goto(t, "idle")
           /\ local' \in [Procs -> Locals]
           /\ \A q \in Procs \ {t} : local'[q] = local[q]
  <1>1. t \in Procs /\ t \notin Sessions
    BY ProcsAssumption DEF Procs
  <1>2. local' \in [Procs -> Locals]
    BY <1>1, ReturnType DEF ProcsOK
  <1> QED
    BY <1>1, <1>2 DEF Return, ProcsOK

LEMMA OwnAfterFind ==
    ASSUME OwnInv, NEW t \in Threads, NEW q, NEW yes \in Labels, NEW no \in Labels,
           AfterFind(t, q, yes, no), no \notin RowLabels, no # "extWrite", yes # "extWrite"
    PROVE  OwnInv' /\ Rows \subseteq Rows'
  <1>1. DbOK' /\ Rows' = Rows /\ ProcsOK
    BY Kept, RowsStay DEF AfterFind, OwnInv
  <1>2. UNCHANGED <<globals, sessionVars, todo>>
    BY DEF AfterFind
  <1>3. CASE \E a \in FindAirdrop(q) : local' = [local EXCEPT ![t].row = a] /\ Goto(t, yes)
    <2>1. PICK a \in Rows : local' = [local EXCEPT ![t].row = a] /\ Goto(t, yes)
      BY <1>3, FoundHeld
    <2> QED
      BY <1>1, <1>2, <2>1, TakeRow
  <1>4. CASE UNCHANGED local /\ Goto(t, no)
    BY <1>1, <1>2, <1>4, AfterStep DEF ProcsOK
  <1> QED
    BY <1>3, <1>4 DEF AfterFind

LEMMA OwnAfter ==
    ASSUME OwnInv, NEW t \in Threads, After(t)
    PROVE  OwnInv' /\ Rows \subseteq Rows'
  <1>0. /\ t \in Procs /\ DbOK /\ GlobalsOK /\ ProcsOK
        /\ pc[t] \in RowLabels => local[t].row \in Rows /\ local[t].row \in Airdrops
    BY DEF OwnInv, RowHeld, Procs, Rows
  <1>1. CASE TxFind(t)
    <2>1. DbOK' /\ Rows' = Rows
      BY <1>0, <1>1, Kept, RowsStay DEF TxFind
    <2>2. UNCHANGED <<globals, sessionVars, todo>>
      BY <1>1 DEF TxFind
    <2>3. CASE \E a \in FindAirdrop(SubmittedQuery(Payee(t))) :
                 local' = [local EXCEPT ![t].row = a] /\ Goto(t, "txUpd")
      <3>1. PICK a \in Rows : local' = [local EXCEPT ![t].row = a] /\ Goto(t, "txUpd")
        BY <2>3, FoundHeld
      <3> QED
        BY <2>1, <2>2, <3>1, TakeRow DEF Labels
    <2>4. CASE Return(t)
      BY <1>0, <2>1, <2>2, <2>4, ThreadReturns, AfterStep DEF Labels, RowLabels
    <2> QED
      BY <1>1, <2>3, <2>4 DEF TxFind
  <1>2. CASE TxUpdate(t)
    <2>1. local[t].row \in Airdrops /\ local[t].cmd \in Nat
      BY <1>0, <1>2 DEF TxUpdate, RowLabels, ProcsOK, Locals
    <2>2. DbOK' /\ Rows \subseteq Rows'
      BY <1>0, <1>2, <2>1, Kept, RowsStay, UpdateType DEF TxUpdate
    <2> QED
      BY <1>0, <1>2, <2>2, ThreadReturns, AfterStep DEF TxUpdate, Labels, RowLabels
  <1>3. CASE SuccessFind(t)
    BY <1>3, OwnAfterFind DEF SuccessFind, Labels, RowLabels
  <1>4. CASE SuccessUpdate(t) \/ FailedUpdate(t)
    <2>1. local[t].row \in Rows /\ local[t].row \in Airdrops
      BY <1>0, <1>4 DEF SuccessUpdate, FailedUpdate, RowLabels
    <2>2. DbOK' /\ Rows \subseteq Rows'
      BY <1>0, <1>4, <2>1, Kept, RowsStay, UpdateType
      DEF SuccessUpdate, FailedUpdate, AirdropStatus
    <2>4. PICK l \in {"extRead", "again"} : Goto(t, l)
      BY <1>4 DEF SuccessUpdate, FailedUpdate
    <2>5. UNCHANGED <<globals, sessionVars, todo, local>>
      BY <1>4 DEF SuccessUpdate, FailedUpdate, Keep
    <2> QED
      BY <1>0, <2>1, <2>2, <2>4, <2>5, AfterStep DEF ProcsOK, Labels
  <1>5. CASE ExtRead(t)
    <2>1. DbOK' /\ Rows' = Rows
      BY <1>0, <1>5, Kept, RowsStay DEF ExtRead
    <2>2. local[t].row \in Rows /\ local[t].row \in Airdrops
      BY <1>0, <1>5 DEF ExtRead, RowLabels
    <2>3. airdropCoin[Owner[local[t].row]] \in Nat
      BY <1>0, <2>2 DEF DbOK, Users
    <2>4. CASE /\ local' = [local EXCEPT ![t].num = airdropCoin[Owner[local[t].row]]]
               /\ Goto(t, "extWrite")
      <3>1. local' \in [Procs -> Locals]
        BY <1>0, <2>3, <2>4, LocalType
      <3>2. /\ local'[t].row = local[t].row /\ local'[t].num \in Nat
            /\ \A q \in Procs \ {t} : local'[q] = local[q]
        BY <1>0, <2>3, <2>4 DEF ProcsOK, Locals
      <3> QED
        BY <1>5, <2>1, <2>2, <2>4, <3>1, <3>2, AfterStep DEF ExtRead, Labels
    <2>5. CASE UNCHANGED local /\ Goto(t, "again")
      BY <1>0, <1>5, <2>1, <2>5, AfterStep DEF ExtRead, ProcsOK, Labels, RowLabels
    <2> QED
      BY <1>5, <2>4, <2>5 DEF ExtRead
  <1>6. CASE ExtWrite(t)
    <2>1. local[t].row \in Airdrops /\ Owner[local[t].row] \in Users
      BY <1>0, <1>6 DEF ExtWrite, Credit, RowLabels, Users
    <2>2. local[t].num + Coin[local[t].row] \in Nat
      BY <1>0, <1>6, <2>1, CoinAssumption DEF ExtWrite, Credit, OwnInv, SumHeld
    <2>3. DbOK' /\ Rows \subseteq Rows'
      BY <1>0, <1>6, <2>1, <2>2, Kept, RowsStay, UpdateType DEF ExtWrite, Credit
    <2>5. local' = [local EXCEPT ![t].num = 0]
      BY <1>6 DEF ExtWrite, Credit
    <2>6. local' \in [Procs -> Locals]
      BY <1>0, <2>5, LocalType
    <2>7. \A q \in Procs \ {t} : local'[q] = local[q]
      BY <1>0, <2>5 DEF ProcsOK
    <2> QED
      BY <1>6, <2>3, <2>6, <2>7, AfterStep DEF ExtWrite, Credit, Labels, RowLabels
  <1>7. CASE FailedFind(t)
    BY <1>7, OwnAfterFind DEF FailedFind, Labels, RowLabels
  <1>8. CASE Again(t)
    <2>1. DbOK' /\ Rows' = Rows
      BY <1>0, <1>8, Kept, RowsStay DEF Again
    <2>2. CASE Return(t)
      BY <1>0, <1>8, <2>1, <2>2, ThreadReturns, AfterStep DEF Again, Labels, RowLabels
    <2>3. CASE Goto(t, "getOne") /\ UNCHANGED local
      BY <1>0, <1>8, <2>1, <2>3, AfterStep DEF Again, ProcsOK, Labels, RowLabels
    <2> QED
      BY <1>8, <2>2, <2>3 DEF Again
  <1>9. CASE GetOne(t)
    <2>1. DbOK' /\ Rows' = Rows
      BY <1>0, <1>9, Kept, RowsStay DEF GetOne
    <2>2. UNCHANGED <<globals, sessionVars, todo>>
      BY <1>9 DEF GetOne
    <2>3. CASE \E a \in FindOldestAirdrop(WaitingQuery) :
                 local' = [local EXCEPT ![t].row = a] /\ Goto(t, "check")
      <3>1. PICK a \in Rows : local' = [local EXCEPT ![t].row = a] /\ Goto(t, "check")
        BY <2>3, FoundHeld
      <3> QED
        BY <2>1, <2>2, <3>1, TakeRow DEF Labels
    <2>4. CASE UNCHANGED local /\ Goto(t, "clear")
      BY <1>0, <2>1, <2>2, <2>4, AfterStep DEF ProcsOK, Labels, RowLabels
    <2> QED
      BY <1>9, <2>3, <2>4 DEF GetOne
  <1> QED
    BY <1>1, <1>2, <1>3, <1>4, <1>5, <1>6, <1>7, <1>8, <1>9 DEF After

LEMMA OwnNext ==
    ASSUME OwnInv, ClientOK, Next
    PROVE  OwnInv' /\ Rows \subseteq Rows'
  <1>1. listener \in Sessions \cup {NoListener} /\ DOMAIN cmds \subseteq Nat
    BY DEF ClientOK
  <1>2. Crash => Down
    BY DEF Crash
  <1> QED
    BY <1>1, <1>2, OwnWorld, OwnDown, OwnFeeder, OwnRunner, OwnAfter, OwnEvent DEF Next

\* The bounded counters.
LEMMA EnvNext ==
    ASSUME EnvOK, Next
    PROVE  EnvOK'
  <1>1. CASE \E a \in Airdrops : Insert(a)
    BY <1>1, Kept DEF Insert
  <1>2. CASE \E s \in Sessions : Request(s) \/ Feeder(s)
    BY <1>2, Kept, CallType
    DEF Request, AirdropTwitter, Proceed, ResetBudget, ResetStop, ResetDo, StartFeeder,
        AwaitStop, ClientGone, EnvOK, envVars, Feeder, ListAirdrops, NextAirdrop, FeederEnds
  <1>3. CASE \E p \in Procs : Runner(p)
    BY <1>3, Kept, CallType
    DEF Runner, RunCheck, RunSubmit, Submit, RunLoad, RunStore, PendingFind, PendingUpdate,
        StopClear,
        StopSend
  <1>4. CASE \E p \in Procs, s \in Sessions : Rendezvous(p, s)
    BY <1>4, Kept DEF Rendezvous
  <1>5. CASE \E t \in Threads : After(t)
    BY <1>5, Kept, CallType
    DEF After, TxFind, TxUpdate, SuccessFind, SuccessUpdate, ExtRead, ExtWrite, Credit, FailedFind,
        FailedUpdate, Again, GetOne, AfterFind
  <1>6. CASE \E t \in Threads, c \in DOMAIN cmds : Event(t, c)
    BY <1>6, Kept DEF Event, OnTxGenerated, OnSucceed, OnFailed, Callback
  <1>7. CASE Crash
    BY <1>7 DEF Crash, EnvOK
  <1> QED
    BY <1>1, <1>2, <1>3, <1>4, <1>5, <1>6, <1>7 DEF Next

\* What a step does to the client.
LEMMA ClientSteps ==
    ASSUME Next
    PROVE  \/ UNCHANGED clientVars
           \/ \E s \in Sessions : UNCHANGED cmds /\ SetListener(s)
           \/ \E p \in Procs : RunSubmit(p) /\ RunAsync(local[p].row, Coin[local[p].row], p, epoch)
           \/ \E t \in Threads, c \in DOMAIN cmds : Event(t, c)
           \/ Crash
  <1>1. CASE \E a \in Airdrops : Insert(a)
    BY <1>1 DEF Insert
  <1>2. CASE \E s \in Sessions : Request(s) \/ Feeder(s)
    BY <1>2
    DEF Request, AirdropTwitter, Proceed, ResetBudget, ResetStop, ResetDo, StartFeeder,
        AwaitStop, ClientGone, Feeder, ListAirdrops, NextAirdrop, FeederEnds
  <1>3. CASE \E p \in Procs : Runner(p)
    BY <1>3
    DEF Runner, RunCheck, RunSubmit, Submit, RunLoad, RunStore, PendingFind, PendingUpdate,
        StopClear, StopSend, clientVars
  <1>4. CASE \E p \in Procs, s \in Sessions : Rendezvous(p, s)
    BY <1>4 DEF Rendezvous
  <1>5. CASE \E t \in Threads : After(t)
    BY <1>5
    DEF After, TxFind, TxUpdate, SuccessFind, SuccessUpdate, ExtRead, ExtWrite, Credit, FailedFind,
        FailedUpdate, Again, GetOne, AfterFind
  <1> QED
    BY <1>1, <1>2, <1>3, <1>4, <1>5 DEF Next

LEMMA ClientNext ==
    ASSUME OwnInv, ClientOK, PaidHeld, Rows \subseteq Rows', Next
    PROVE  ClientOK' /\ PaidHeld'
  <1>0. cmds \in Seq(Command)
    BY DEF ClientOK
  <1>1. CASE UNCHANGED clientVars
    BY <1>1, Kept DEF clientVars, PaidHeld
  <1>2. ASSUME NEW s \in Sessions, UNCHANGED cmds, SetListener(s) PROVE ClientOK' /\ PaidHeld'
    BY <1>2 DEF SetListener, ClientOK, PaidHeld
  <1>3. ASSUME NEW p \in Procs, RunSubmit(p), RunAsync(local[p].row, Coin[local[p].row], p, epoch)
        PROVE  ClientOK' /\ PaidHeld'
    <2> DEFINE new == [ to |-> local[p].row, amount |-> Coin[local[p].row], by |-> p,
                        ep |-> epoch, stage |-> "queued" ]
    <2>1. local[p].row \in Rows /\ local[p].row \in Airdrops
      BY <1>3 DEF RunSubmit, Submit, OwnInv, RowHeld, RowLabels, Rows
    <2>2. new \in Command /\ new.to = local[p].row
      BY <2>1, CoinAssumption DEF Command, Stage, OwnInv, SessionsOK
    <2>3. cmds' = Append(cmds, new)
      BY <1>3 DEF RunAsync
    <2>4. /\ cmds' \in Seq(Command)
          /\ \A c \in DOMAIN cmds' : cmds'[c] = new \/ (c \in DOMAIN cmds /\ cmds'[c] = cmds[c])
      BY <1>0, <2>2, <2>3
    <2>5. UNCHANGED listener
      BY <1>3 DEF RunSubmit, Submit
    <2> HIDE DEF new
    <2> QED
      BY <2>1, <2>2, <2>4, <2>5 DEF ClientOK, PaidHeld
  <1>4. ASSUME NEW t \in Threads, NEW c \in DOMAIN cmds, Event(t, c)
        PROVE  ClientOK' /\ PaidHeld'
    <2>1. PICK from \in SUBSET Stage, stage \in Stage,
                entry \in {"txFind", "successFind", "failedFind"} :
             Callback(t, c, from, stage, entry)
      BY <1>4 DEF Event, OnTxGenerated, OnSucceed, OnFailed, Stage, Unfinished
    <2>2. cmds' \in Seq(Command) /\ UNCHANGED listener
      BY <1>0, <2>1, StageType DEF Callback, Report
    <2>3. DOMAIN cmds' = DOMAIN cmds /\ \A d \in DOMAIN cmds : cmds'[d].to = cmds[d].to
      BY <1>0, <2>1 DEF Callback, Report, Command
    <2> QED
      BY <2>2, <2>3 DEF ClientOK, PaidHeld
  <1>5. CASE Crash
    <2>1. ClientOK'
      BY <1>0, <1>5, LoseType DEF Crash, Down, ClientOK
    <2>2. \A c \in DOMAIN cmds' : c \in DOMAIN cmds /\ cmds'[c].to = cmds[c].to
      BY <1>5 DEF Crash, Down, LoseUnfinished
    <2> QED
      BY <2>1, <2>2 DEF PaidHeld
  <1> QED
    BY <1>1, <1>2, <1>3, <1>4, <1>5, ClientSteps

LEMMA TInvNext == TInv /\ [Next]_vars => TInv'
  <1> SUFFICES ASSUME TInv, [Next]_vars PROVE TInv'
    OBVIOUS
  <1>0. OwnInv /\ ClientOK /\ EnvOK /\ PaidHeld
    BY OwnParts
  <1>1. CASE UNCHANGED vars
    <2>1. OwnInv'
      BY <1>0, <1>1, Kept, RowsStay, OwnStays DEF OwnInv, vars
    <2>2. ClientOK' /\ EnvOK' /\ PaidHeld'
      BY <1>0, <1>1, Kept DEF vars, clientVars, collectionVars, PaidHeld, Rows
    <2> QED
      BY <2>1, <2>2, OwnParts
  <1>2. CASE Next
    BY <1>0, <1>2, OwnNext, EnvNext, ClientNext, OwnParts
  <1> QED
    BY <1>1, <1>2

\* Type correctness, with the rows held by the goroutines being real rows.
THEOREM TypeCorrect == Spec => []TypeOK
  <1>1. TInv => TypeOK
    BY DEF TInv
  <1> QED
    BY <1>1, TInvInit, TInvNext, PTL DEF Spec

-----------------------------------------------------------------------------
(* The inductive invariants. *)

HasCommand(a) == \E c \in DOMAIN cmds : cmds[c].to = a

\* Where a goroutine is about to settle its row.
SubmittedLabels == {"load", "store", "pendingFind", "pendingUpd", "txUpd", "successUpd"}

\* A row about to be settled has a command.
AboutSubmitted ==
    \A p \in Procs : pc[p] \in SubmittedLabels => HasCommand(local[p].row)

SInv == SettledWasSubmitted /\ AboutSubmitted

\* No command comes from a later session; a feeder that has not listed its rows
\* has submitted nothing.
CommandsDated == \A c \in DOMAIN cmds : cmds[c].ep <= epoch

FeederFresh ==
    \A s \in Sessions :
        /\ session[s] \in Unstarted => pc[s] = "idle"
        /\ pc[s] \in {"idle", "list"} => \A c \in DOMAIN cmds : cmds[c].by # s

\* The rows a feeder has still to submit are none of those it submitted.
FeederAhead ==
    \A s \in Sessions :
        /\ pc[s] \in {"check", "submit"} => local[s].row \notin todo[s]
        /\ \A c \in DOMAIN cmds :
             cmds[c].by = s =>
                /\ cmds[c].to \notin todo[s]
                /\ pc[s] \in {"check", "submit"} => cmds[c].to # local[s].row

\* A row a thread submitted in this session is not waiting any more, unless the
\* thread is at it, or is about to stop the dispatcher, or the dispatcher is
\* stopped.
Marking == {"load", "store", "pendingFind", "pendingUpd"}

RowDone(t, a) ==
    /\ pc[t] \in Marking => a = local[t].row \/ status[a] # "default"
    /\ pc[t] \in {"check", "submit"} => a # local[t].row
    /\ pc[t] \in {"check", "submit", "getOne"} => status[a] # "default"
    /\ pc[t] \notin Marking \cup {"check", "submit", "getOne", "clear"}
         => ~airdropDo \/ status[a] # "default"

ThreadDone ==
    \A t \in Threads : \A c \in DOMAIN cmds :
        cmds[c].by = t /\ cmds[c].ep = epoch => RowDone(t, cmds[c].to)

RInv == CommandsDated /\ FeederFresh /\ FeederAhead /\ ThreadDone /\ RunnerNeverRepeats

-----------------------------------------------------------------------------
(* What a step can do to the commands and to the status of a row. *)

\* The rows the lookups return have the status the query names.
LEMMA LookupStatus ==
    /\ \A a \in FindOldestAirdrop(WaitingQuery) : a \in Rows /\ status[a] = "default"
    /\ \A u : \A a \in FindAirdrop(SubmittedQuery(u)) : a \in Rows /\ status[a] = "pending"
  <1>1. WaitingQuery.Status = "default"
    BY DEF WaitingQuery, ZeroSearch
  <1>2. \A u : SubmittedQuery(u).Status = "pending"
    BY DEF SubmittedQuery, ZeroSearch
  <1>3. \A q, a : Matches(Document(a), q) /\ q.Status # AnyStatus => status[a] = q.Status
    BY StatusClauseWins DEF Document
  <1> QED
    BY <1>1, <1>2, <1>3
    DEF FindOldestAirdrop, FindAirdrop, Oldest, Newest, Selected, AnyStatus

\* Commands are kept; a new one is the submission of the goroutine at "submit".
Submission(p) ==
    LET new == [ to |-> local[p].row, amount |-> Coin[local[p].row], by |-> p,
                 ep |-> epoch, stage |-> "queued" ]
    IN  pc[p] = "submit" /\ cmds' = Append(cmds, new)

SameCommands ==
    /\ DOMAIN cmds' = DOMAIN cmds
    /\ \A c \in DOMAIN cmds : /\ cmds'[c].to = cmds[c].to
                              /\ cmds'[c].by = cmds[c].by
                              /\ cmds'[c].ep = cmds[c].ep

LEMMA CommandSteps ==
    ASSUME TInv, Next
    PROVE  SameCommands \/ \E p \in Procs : RunSubmit(p) /\ Submission(p)
  <1>0. cmds \in Seq(Command)
    BY TypeParts DEF TInv, ClientOK
  <1>1. ASSUME UNCHANGED cmds PROVE SameCommands
    BY <1>1 DEF SameCommands
  <1>2. CASE \E a \in Airdrops : Insert(a)
    BY <1>1, <1>2 DEF Insert, clientVars
  <1>3. CASE \E s \in Sessions : Request(s) \/ Feeder(s)
    BY <1>1, <1>3
    DEF Request, AirdropTwitter, Proceed, ResetBudget, ResetStop, ResetDo, StartFeeder,
        AwaitStop, ClientGone, Feeder, ListAirdrops, NextAirdrop, FeederEnds, clientVars
  <1>4. CASE \E p \in Procs : Runner(p)
    <2>1. PICK p \in Procs : Runner(p)
      BY <1>4
    <2>2. CASE RunSubmit(p)
      BY <1>1, <2>2 DEF RunSubmit, Submit, RunAsync, Submission
    <2>3. CASE ~RunSubmit(p)
      BY <1>1, <2>1, <2>3
      DEF Runner, RunCheck, RunLoad, RunStore, PendingFind, PendingUpdate, StopClear,
          StopSend, clientVars
    <2> QED
      BY <2>2, <2>3
  <1>5. CASE \E p \in Procs, s \in Sessions : Rendezvous(p, s)
    BY <1>1, <1>5 DEF Rendezvous, clientVars
  <1>6. CASE \E t \in Threads : After(t)
    BY <1>1, <1>6
    DEF After, TxFind, TxUpdate, SuccessFind, SuccessUpdate, ExtRead, ExtWrite, Credit, FailedFind,
        FailedUpdate, Again, GetOne, AfterFind, clientVars
  <1>7. CASE \E t \in Threads, c \in DOMAIN cmds : Event(t, c)
    <2>1. PICK c \in DOMAIN cmds, stage \in Stage : cmds' = [cmds EXCEPT ![c].stage = stage]
      BY <1>7 DEF Event, OnTxGenerated, OnSucceed, OnFailed, Callback, Report, Stage, Unfinished
    <2> QED
      BY <1>0, <2>1 DEF SameCommands, Command
  <1>8. CASE Crash
    <2>1. \A c \in DOMAIN cmds : cmds[c] \in Command
      BY <1>0
    <2> QED
      BY <1>8, <2>1 DEF Crash, Down, LoseUnfinished, SameCommands, Command
  <1> QED
    BY <1>2, <1>3, <1>4, <1>5, <1>6, <1>7, <1>8 DEF Next

\* The five ways in which the status of a row changes.
StatusStep(a) ==
    \/ status'[a] = status[a]
    \/ status[a] = "absent" /\ status'[a] = "default"
    \/ status'[a] = "failed"
    \/ \E p \in Procs : /\ pc[p] \in {"pendingUpd", "txUpd", "successUpd"}
                        /\ local[p].row = a
                        /\ status'[a] \in {"pending", "success"}

LEMMA StatusSteps ==
    ASSUME TInv, Next, NEW a \in Airdrops
    PROVE  StatusStep(a)
  <1>0. status \in [Airdrops -> AirdropStatus \cup {"absent"}] /\ Threads \subseteq Procs
    BY TypeParts DEF TInv, DbOK, Procs
  <1>1. ASSUME UNCHANGED status PROVE StatusStep(a)
    BY <1>1 DEF StatusStep
  <1>2. CASE \E b \in Airdrops : Insert(b)
    BY <1>0, <1>2 DEF Insert, CreateAirdrop, StatusStep
  <1>3. CASE \E s \in Sessions : Request(s) \/ Feeder(s)
    BY <1>1, <1>3
    DEF Request, AirdropTwitter, Proceed, ResetBudget, ResetStop, ResetDo, StartFeeder,
        AwaitStop, ClientGone, Feeder, ListAirdrops, NextAirdrop, FeederEnds, collectionVars
  <1>4. CASE \E p \in Procs : Runner(p)
    <2>1. PICK p \in Procs : Runner(p)
      BY <1>4
    <2>2. CASE PendingUpdate(p)
      BY <1>0, <1>1, <2>2 DEF PendingUpdate, UpdateStatusPending, collectionVars, StatusStep
    <2>3. CASE ~PendingUpdate(p)
      BY <1>1, <2>1, <2>3
      DEF Runner, RunCheck, RunSubmit, Submit, RunLoad, RunStore, PendingFind, StopClear, StopSend,
          collectionVars
    <2> QED
      BY <2>2, <2>3
  <1>5. CASE \E p \in Procs, s \in Sessions : Rendezvous(p, s)
    BY <1>1, <1>5 DEF Rendezvous, collectionVars
  <1>6. CASE \E t \in Threads : After(t)
    <2>1. PICK t \in Threads : After(t)
      BY <1>6
    <2>2. CASE TxUpdate(t)
      BY <1>0, <1>1, <2>2 DEF TxUpdate, UpdateTxID, collectionVars, StatusStep
    <2>3. CASE SuccessUpdate(t)
      BY <1>0, <1>1, <2>3 DEF SuccessUpdate, UpdateStatus, collectionVars, StatusStep
    <2>4. CASE FailedUpdate(t)
      BY <1>0, <1>1, <2>4 DEF FailedUpdate, UpdateStatus, collectionVars, StatusStep
    <2>5. CASE ~(TxUpdate(t) \/ SuccessUpdate(t) \/ FailedUpdate(t))
      BY <1>1, <2>1, <2>5
      DEF After, TxFind, SuccessFind, ExtRead, ExtWrite, Credit, UpdateAirdropCoin, FailedFind,
          Again, GetOne, AfterFind, collectionVars
    <2> QED
      BY <2>2, <2>3, <2>4, <2>5
  <1>7. CASE \E t \in Threads, c \in DOMAIN cmds : Event(t, c)
    BY <1>1, <1>7 DEF Event, OnTxGenerated, OnSucceed, OnFailed, Callback, collectionVars
  <1>8. CASE Crash
    BY <1>1, <1>8 DEF Crash, Down, collectionVars
  <1> QED
    BY <1>2, <1>3, <1>4, <1>5, <1>6, <1>7, <1>8 DEF Next

-----------------------------------------------------------------------------
(* How a goroutine moves from label to label. *)

\* Where nothing is known of the rows a thread has submitted but that they are
\* done, or the dispatcher is stopped.
Other == Labels \ (Marking \cup {"check", "submit", "getOne", "clear"})

SameRow(p) == local'[p].row = local[p].row

ProcMove(p) ==
    \/ pc'[p] = pc[p] /\ SameRow(p)
    \/ pc'[p] = "clear" /\ pc[p] # "idle"
    \/ pc[p] \in Marking /\ pc'[p] \in Marking /\ SameRow(p)
    \/ pc[p] = "submit" /\ pc'[p] = "load" /\ SameRow(p) /\ Submission(p)
    \/ pc[p] = "check" /\ pc'[p] = "submit" /\ SameRow(p)
    \/ p \in Threads /\ pc[p] = "getOne" /\ pc'[p] = "check" /\ status[local'[p].row] = "default"
    \/ p \in Threads /\ pc[p] = "again" /\ pc'[p] = "getOne" /\ airdropDo
    \/ /\ p \in Threads /\ pc[p] \in Other
       /\ pc'[p] \in {"txUpd", "successUpd"}
       /\ status[local'[p].row] = "pending"
       /\ pc'[p] = "txUpd" => txID[local'[p].row] = NoTx
    \/ /\ pc[p] = "pendingUpd" /\ pc'[p] \in Other \ {"list", "txUpd", "successUpd"}
       /\ p \in Sessions => pc'[p] # "idle"
       /\ status'[local[p].row] = "pending"
    \/ pc[p] = "clear" /\ pc'[p] = "send" /\ ~airdropDo'
    \/ /\ pc[p] \in Other /\ pc'[p] \in Other \ {"list", "txUpd", "successUpd"}
       /\ p \in Sessions => pc[p] # "idle" /\ pc'[p] # "idle"
    \/ /\ p \in Sessions /\ pc[p] = "next" /\ pc'[p] = "check"
       /\ local'[p].row \in todo[p] \ todo'[p]
    \/ p \in Sessions /\ StartFeeder(p)
    \/ Crash

\* All goroutines but one stay where they are.
LEMMA OthersStay ==
    ASSUME ProcsOK, NEW p \in Procs, NEW q \in Procs \ {p}, NEW l, Goto(p, l),
           local'[q] = local[q]
    PROVE  ProcMove(q)
  BY DEF ProcsOK, Goto, ProcMove, SameRow

LEMMA RunnerMoves ==
    ASSUME TInv, NEW p \in Procs, Runner(p), NEW q \in Procs
    PROVE  ProcMove(q)
  <1>0. ProcsOK /\ GlobalsOK
    BY TypeParts DEF TInv
  <1>1. CASE RunCheck(p)
    BY <1>0, <1>1 DEF RunCheck, Keep, Goto, ProcsOK, ProcMove, SameRow
  <1>2. CASE RunSubmit(p)
    BY <1>0, <1>2
    DEF RunSubmit, Submit, RunAsync, Submission, Keep, Goto, ProcsOK, ProcMove, SameRow
  <1>3. CASE RunLoad(p)
    BY <1>0, <1>3 DEF RunLoad, Goto, ProcsOK, Locals, ProcMove, SameRow, Marking
  <1>4. CASE RunStore(p)
    BY <1>0, <1>4 DEF RunStore, Goto, ProcsOK, Locals, ProcMove, SameRow, Marking
  <1>5. CASE PendingFind(p)
    BY <1>0, <1>5 DEF PendingFind, Keep, Goto, ProcsOK, ProcMove, SameRow, Marking
  <1>6. CASE PendingUpdate(p)
    <2>1. PICK l \in {"next", "end", "idle", "clear"} :
             /\ Goto(p, l)
             /\ \A r \in Procs \ {p} : local'[r] = local[r]
             /\ p \in Sessions => l # "idle"
             /\ l # "clear" => UpdateStatusPending(local[p].row)
      BY <1>0, <1>6 DEF PendingUpdate, Return, ProcsOK
    <2>2. local[p].row \in Airdrops
      BY <1>6 DEF PendingUpdate, TInv, Held, RowHeld, RowLabels, Rows
    <2>3. l # "clear" => status'[local[p].row] = "pending"
      BY <2>1, <2>2, TypeParts DEF UpdateStatusPending, TInv, DbOK
    <2>4. pc[p] = "pendingUpd" /\ pc'[p] = l
      BY <1>0, <1>6, <2>1 DEF PendingUpdate, Goto, ProcsOK
    <2>5. CASE q = p
      BY <2>1, <2>3, <2>4, <2>5 DEF ProcMove, Other, Labels, Marking
    <2>6. CASE q # p
      BY <1>0, <2>1, <2>6, OthersStay
    <2> QED
      BY <2>5, <2>6
  <1>7. CASE StopClear(p)
    BY <1>0, <1>7 DEF StopClear, Keep, Goto, ProcsOK, ProcMove, SameRow
  <1>8. CASE StopSend(p)
    BY <1>0, <1>8 DEF StopSend, Goto, ProcsOK, Locals, ProcMove, Other, Labels, Marking, SameRow
  <1> QED
    BY <1>1, <1>2, <1>3, <1>4, <1>5, <1>6, <1>7, <1>8 DEF Runner

LEMMA FeederMoves ==
    ASSUME TInv, NEW s \in Sessions, Feeder(s), NEW q \in Procs
    PROVE  ProcMove(q)
  <1>0. ProcsOK /\ TodoOK /\ s \in Procs
    BY TypeParts DEF TInv, Procs
  <1>1. CASE ListAirdrops(s)
    <2>1. PICK l \in {"clear", "next"} : Goto(s, l)
      BY <1>1 DEF ListAirdrops
    <2> QED
      BY <1>0, <1>1, <2>1
      DEF ListAirdrops, Goto, ProcsOK, ProcMove, Other, Labels, Marking, SameRow
  <1>2. CASE NextAirdrop(s)
    <2>1. PICK a \in Oldest(todo[s]) : /\ todo' = [todo EXCEPT ![s] = @ \ {a}]
                                       /\ local' = [local EXCEPT ![s].row = a]
                                       /\ Goto(s, "check")
      BY <1>2 DEF NextAirdrop
    <2>2. a \in todo[s] /\ pc[s] = "next"
      BY <1>2, FoundRows DEF NextAirdrop
    <2>3. a \notin todo'[s]
      BY <1>0, <2>1 DEF TodoOK
    <2> QED
      BY <1>0, <2>1, <2>2, <2>3 DEF Goto, ProcsOK, Locals, ProcMove, SameRow
  <1>3. CASE FeederEnds(s)
    BY <1>0, <1>3
    DEF FeederEnds, Return, Goto, ProcsOK, ProcMove, Other, Labels, Marking, SameRow
  <1> QED
    BY <1>1, <1>2, <1>3 DEF Feeder

LEMMA ThreadMoves ==
    ASSUME TInv, NEW t \in Threads, NEW q \in Procs,
           After(t) \/ \E c \in DOMAIN cmds : Event(t, c)
    PROVE  ProcMove(q)
  <1>0. ProcsOK /\ t \in Procs /\ t \notin Sessions
    BY TypeParts, ProcsAssumption DEF TInv, Procs
  <1>1. ASSUME Return(t), pc[t] \in Other PROVE ProcMove(q)
    BY <1>0, <1>1 DEF Return, Goto, ProcsOK, ProcMove, Other, Labels, Marking, SameRow
  <1>2. ASSUME NEW a, status[a] = "pending", NEW l \in {"txUpd", "successUpd"}, Goto(t, l),
               local' = [local EXCEPT ![t].row = a], pc[t] \in Other,
               l = "txUpd" => txID[a] = NoTx
        PROVE  ProcMove(q)
    BY <1>0, <1>2 DEF Goto, ProcsOK, Locals, ProcMove, SameRow
  <1>3. ASSUME NEW l \in {"extRead", "extWrite", "again", "failedUpd", "idle", "clear", "txFind",
                          "successFind", "failedFind"},
               Goto(t, l), IF l = "clear" THEN pc[t] # "idle" ELSE pc[t] \in Other,
               \A r \in Procs \ {t} : local'[r] = local[r]
        PROVE  ProcMove(q)
    <2>1. CASE q = t
      <3>1. pc'[t] = l
        BY <1>0, <1>3 DEF Goto, ProcsOK
      <3>2. CASE l = "clear"
        BY <1>3, <2>1, <3>1, <3>2 DEF ProcMove, Other, Labels
      <3>3. CASE l # "clear"
        BY <1>0, <1>3, <2>1, <3>1, <3>3 DEF ProcMove, Other, Labels, Marking
      <3> QED
        BY <3>2, <3>3
    <2>2. CASE q # t
      BY <1>0, <1>3, <2>2, OthersStay
    <2> QED
      BY <2>1, <2>2
  <1>4. CASE TxFind(t)
    <2>1. pc[t] \in Other
      BY <1>4 DEF TxFind, Other, Labels, Marking
    <2> QED
      BY <1>1, <1>2, <1>4, <2>1, LookupStatus DEF TxFind
  <1>5. CASE TxUpdate(t)
    BY <1>1, <1>5 DEF TxUpdate, Other, Labels, Marking
  <1>6. CASE SuccessFind(t)
    <2>1. pc[t] \in Other
      BY <1>6 DEF SuccessFind, Other, Labels, Marking
    <2>2. CASE \E a \in FindAirdrop(SubmittedQuery(Payee(t))) :
                 local' = [local EXCEPT ![t].row = a] /\ Goto(t, "successUpd")
      BY <1>2, <2>1, <2>2, LookupStatus
    <2>3. CASE UNCHANGED local /\ Goto(t, "again")
      BY <1>3, <2>1, <2>3
    <2> QED
      BY <1>6, <2>2, <2>3 DEF SuccessFind, AfterFind
  <1>7. CASE SuccessUpdate(t)
    BY <1>3, <1>7 DEF SuccessUpdate, Keep, Other, Labels, Marking
  <1>8. CASE ExtRead(t)
    <2>1. \A r \in Procs \ {t} : local'[r] = local[r]
      BY <1>0, <1>8 DEF ExtRead, ProcsOK
    <2> QED
      BY <1>3, <1>8, <2>1 DEF ExtRead, Other, Labels, Marking
  <1>9. CASE ExtWrite(t)
    <2>1. \A r \in Procs \ {t} : local'[r] = local[r]
      BY <1>0, <1>9 DEF ExtWrite, Credit, ProcsOK
    <2> QED
      BY <1>3, <1>9, <2>1 DEF ExtWrite, Credit, Other, Labels, Marking
  <1>10. CASE FailedFind(t)
    <2>1. pc[t] \in Other
      BY <1>10 DEF FailedFind, Other, Labels, Marking
    <2>2. \A r \in Procs \ {t} : local'[r] = local[r]
      BY <1>0, <1>10 DEF FailedFind, AfterFind, ProcsOK
    <2> QED
      BY <1>3, <1>10, <2>1, <2>2 DEF FailedFind, AfterFind
  <1>11. CASE FailedUpdate(t)
    BY <1>3, <1>11 DEF FailedUpdate, Keep, Other, Labels, Marking
  <1>12. CASE Again(t)
    <2>1. CASE Return(t)
      BY <1>1, <1>12, <2>1 DEF Again, Other, Labels, Marking
    <2>2. CASE airdropDo /\ Goto(t, "getOne") /\ UNCHANGED local
      BY <1>0, <1>12, <2>2 DEF Again, Goto, ProcsOK, ProcMove, SameRow
    <2> QED
      BY <1>12, <2>1, <2>2 DEF Again
  <1>13. CASE GetOne(t)
    <2>1. CASE \E a \in FindOldestAirdrop(WaitingQuery) :
                 local' = [local EXCEPT ![t].row = a] /\ Goto(t, "check")
      <3>1. PICK a : /\ status[a] = "default"
                     /\ local' = [local EXCEPT ![t].row = a] /\ Goto(t, "check")
        BY <2>1, LookupStatus
      <3> QED
        BY <1>0, <1>13, <3>1 DEF GetOne, Goto, ProcsOK, Locals, ProcMove, SameRow
    <2>2. CASE UNCHANGED local /\ Goto(t, "clear")
      BY <1>3, <1>13, <2>2 DEF GetOne
    <2> QED
      BY <1>13, <2>1, <2>2 DEF GetOne
  <1>14. CASE \E c \in DOMAIN cmds : Event(t, c)
    <2>1. PICK l \in {"txFind", "successFind", "failedFind"} :
             /\ pc[t] = "idle" /\ Goto(t, l)
             /\ \A r \in Procs \ {t} : local'[r] = local[r]
      BY <1>0, <1>14 DEF Event, OnTxGenerated, OnSucceed, OnFailed, Callback, ProcsOK
    <2> QED
      BY <1>3, <2>1 DEF Other, Labels, Marking
  <1> QED
    BY <1>4, <1>5, <1>6, <1>7, <1>8, <1>9, <1>10, <1>11, <1>12, <1>13, <1>14 DEF After

LEMMA Moves ==
    ASSUME TInv, Next, NEW q \in Procs
    PROVE  ProcMove(q)
  <1>0. ProcsOK
    BY TypeParts DEF TInv
  <1>1. ASSUME UNCHANGED <<pc, local>> PROVE ProcMove(q)
    BY <1>1 DEF ProcMove, SameRow
  <1>2. CASE \E a \in Airdrops : Insert(a)
    BY <1>1, <1>2 DEF Insert, procVars
  <1>3. CASE \E s \in Sessions : Request(s)
    <2>1. PICK s \in Sessions : Request(s)
      BY <1>3
    <2>2. CASE StartFeeder(s)
      BY <1>0, <2>2 DEF StartFeeder, Goto, ProcsOK, ProcMove, SameRow
    <2>3. CASE ResetBudget(s) \/ ResetStop(s) \/ ResetDo(s) \/ AwaitStop(s) \/ ClientGone(s)
      BY <1>1, <2>3 DEF ResetBudget, ResetStop, ResetDo, AwaitStop, ClientGone, procVars
    <2> QED
      BY <2>1, <2>2, <2>3 DEF Request, AirdropTwitter, Proceed
  <1>4. CASE \E s \in Sessions : Feeder(s)
    BY <1>4, FeederMoves
  <1>5. CASE \E p \in Procs : Runner(p)
    BY <1>5, RunnerMoves
  <1>6. CASE \E p \in Procs, s \in Sessions : Rendezvous(p, s)
    BY <1>0, <1>6
    DEF Rendezvous, Return, Goto, ProcsOK, ProcMove, Other, Labels, Marking, SameRow
  <1>7. CASE \E t \in Threads : After(t) \/ \E c \in DOMAIN cmds : Event(t, c)
    BY <1>7, ThreadMoves
  <1>8. CASE Crash
    BY <1>8 DEF ProcMove
  <1> QED
    BY <1>2, <1>3, <1>4, <1>5, <1>6, <1>7, <1>8 DEF Next

\* A session that starts is dated by a new epoch; no other step sets airdropDo.
LEMMA EpochSteps ==
    ASSUME TInv, Next
    PROVE  \/ epoch' = epoch /\ (airdropDo' => airdropDo)
           \/ epoch' = epoch + 1 /\ SameCommands
  <1>0. cmds \in Seq(Command)
    BY TypeParts DEF TInv, ClientOK
  <1>1. CASE \E s \in Sessions : ResetDo(s)
    BY <1>0, <1>1 DEF ResetDo, clientVars, SameCommands
  <1>2. CASE \E a \in Airdrops : Insert(a)
    BY <1>2 DEF Insert, sessionVars, globals
  <1>3. CASE \E s \in Sessions : \/ ResetBudget(s) \/ ResetStop(s) \/ StartFeeder(s)
                               \/ AwaitStop(s) \/ ClientGone(s) \/ Feeder(s)
    BY <1>3
    DEF ResetBudget, ResetStop, StartFeeder, AwaitStop, ClientGone, Feeder, ListAirdrops,
        NextAirdrop, FeederEnds, sessionVars, globals
  <1>4. CASE \E p \in Procs : Runner(p)
    BY <1>4 DEF Runner, RunCheck, RunSubmit, Submit, RunLoad, RunStore, PendingFind, PendingUpdate,
                StopClear, StopSend, sessionVars, globals
  <1>5. CASE \E p \in Procs, s \in Sessions : Rendezvous(p, s)
    BY <1>5 DEF Rendezvous, globals
  <1>6. CASE \E t \in Threads : After(t)
    BY <1>6
    DEF After, TxFind, TxUpdate, SuccessFind, SuccessUpdate, ExtRead, ExtWrite, Credit, FailedFind,
        FailedUpdate, Again, GetOne, AfterFind, sessionVars, globals
  <1>7. CASE \E t \in Threads, c \in DOMAIN cmds : Event(t, c)
    BY <1>7 DEF Event, OnTxGenerated, OnSucceed, OnFailed, Callback, sessionVars, globals
  <1>8. CASE Crash
    BY <1>8 DEF Crash, Down
  <1> QED
    BY <1>1, <1>2, <1>3, <1>4, <1>5, <1>6, <1>7, <1>8 DEF Next, Request, AirdropTwitter, Proceed

\* The commands after a step, one by one: the old ones, and perhaps one of p.
LEMMA OneCommand ==
    ASSUME TInv, Next
    PROVE  /\ \A c \in DOMAIN cmds :
                 /\ c \in DOMAIN cmds' /\ cmds'[c].to = cmds[c].to
                 /\ cmds'[c].by = cmds[c].by /\ cmds'[c].ep = cmds[c].ep
           /\ \A c \in DOMAIN cmds' \ DOMAIN cmds : \E p \in Procs :
                 /\ RunSubmit(p) /\ pc[p] = "submit" /\ pc'[p] = "load" /\ SameRow(p)
                 /\ cmds'[c].to = local[p].row /\ cmds'[c].by = p /\ cmds'[c].ep = epoch
                 /\ \A d \in DOMAIN cmds' : d # c => d \in DOMAIN cmds /\ d < c
  <1>0. cmds \in Seq(Command) /\ ProcsOK
    BY TypeParts DEF TInv, ClientOK
  <1>1. CASE SameCommands
    BY <1>1 DEF SameCommands
  <1>2. ASSUME NEW p \in Procs, RunSubmit(p), Submission(p)
        PROVE  \E new : /\ cmds' = Append(cmds, new)
                        /\ new.to = local[p].row /\ new.by = p /\ new.ep = epoch
                        /\ pc[p] = "submit" /\ pc'[p] = "load" /\ SameRow(p)
    <2> DEFINE new == [ to |-> local[p].row, amount |-> Coin[local[p].row], by |-> p,
                        ep |-> epoch, stage |-> "queued" ]
    <2>1. cmds' = Append(cmds, new) /\ pc[p] = "submit"
      BY <1>2 DEF Submission
    <2>2. cmds' # cmds
      <3>1. Len(Append(cmds, new)) = Len(cmds) + 1 /\ Len(cmds) \in Nat
        BY <1>0
      <3> QED
        BY <2>1, <3>1
    <2>3. pc'[p] = "load" /\ SameRow(p)
      BY <1>0, <1>2, <2>2 DEF RunSubmit, Submit, Keep, Goto, ProcsOK, SameRow
    <2> QED
      BY <2>1, <2>3
  <1>3. CASE \E p \in Procs : RunSubmit(p) /\ Submission(p)
    <2>0. PICK p \in Procs : RunSubmit(p) /\ Submission(p)
      BY <1>3
    <2> DEFINE new == [ to |-> local[p].row, amount |-> Coin[local[p].row], by |-> p,
                        ep |-> epoch, stage |-> "queued" ]
    <2>1. /\ RunSubmit(p) /\ cmds' = Append(cmds, new)
          /\ new.to = local[p].row /\ new.by = p /\ new.ep = epoch
          /\ pc[p] = "submit" /\ pc'[p] = "load" /\ SameRow(p)
      BY <1>2, <2>0 DEF Submission
    <2> HIDE DEF new
    <2>2. /\ DOMAIN cmds = 1..Len(cmds) /\ DOMAIN cmds' = 1..(Len(cmds) + 1) /\ Len(cmds) \in Nat
          /\ cmds'[Len(cmds) + 1] = new
          /\ \A c \in 1..Len(cmds) : cmds'[c] = cmds[c]
      BY <1>0, <2>1
    <2> QED
      BY <2>1, <2>2
  <1> QED
    BY <1>1, <1>3, CommandSteps

-----------------------------------------------------------------------------
(* SettledWasSubmitted. *)

LEMMA SInvNext ==
    ASSUME TInv, SInv, Next
    PROVE  SInv'
  <1> DEFINE HasNow(a) == \E c \in DOMAIN cmds' : cmds'[c].to = a
  <1>0. ProcsOK /\ \A a \in Airdrops : HasCommand(a) => HasNow(a)
    BY OneCommand, TypeParts DEF TInv, HasCommand
  <1>1. \A p \in Procs : pc[p] \in RowLabels => local[p].row \in Airdrops
    BY DEF TInv, Held, RowHeld, Rows
  <1>2. SettledWasSubmitted'
    <2> SUFFICES ASSUME NEW a \in Airdrops, status'[a] \in {"pending", "success"}
                 PROVE  HasNow(a)
      BY DEF SettledWasSubmitted, HasCommand
    <2>1. CASE status'[a] = status[a]
      BY <1>0, <2>1 DEF SInv, SettledWasSubmitted, HasCommand
    <2>2. CASE \E p \in Procs : /\ pc[p] \in {"pendingUpd", "txUpd", "successUpd"}
                                /\ local[p].row = a
      BY <1>0, <2>2 DEF SInv, AboutSubmitted, SubmittedLabels
    <2> QED
      BY <2>1, <2>2, StatusSteps DEF StatusStep
  <1>3. AboutSubmitted'
    <2> SUFFICES ASSUME NEW p \in Procs, pc'[p] \in SubmittedLabels
                 PROVE  HasNow(local'[p].row)
      BY DEF AboutSubmitted, HasCommand
    <2>1. ASSUME pc[p] \in SubmittedLabels, SameRow(p) PROVE HasNow(local'[p].row)
      BY <1>0, <1>1, <2>1 DEF SInv, AboutSubmitted, SubmittedLabels, RowLabels, SameRow
    <2>2. ASSUME pc[p] = "submit", SameRow(p), Submission(p) PROVE HasNow(local'[p].row)
      <3>1. cmds \in Seq(Command)
        BY TypeParts DEF TInv, ClientOK
      <3>2. cmds'[Len(cmds) + 1].to = local[p].row /\ Len(cmds) + 1 \in DOMAIN cmds'
        BY <2>2, <3>1 DEF Submission
      <3> QED
        BY <2>2, <3>2 DEF HasCommand, SameRow
    <2>3. ASSUME status[local'[p].row] = "pending", pc'[p] \in RowLabels
          PROVE  HasNow(local'[p].row)
      <3>1. local'[p].row \in Airdrops
        BY <2>3, TInvNext DEF TInv, Held, RowHeld, Rows
      <3> QED
        BY <1>0, <2>3, <3>1 DEF SInv, SettledWasSubmitted, HasCommand
    <2>4. CASE p \in Sessions /\ StartFeeder(p)
      BY <1>0, <2>4 DEF StartFeeder, Goto, ProcsOK, SubmittedLabels
    <2>5. CASE Crash
      BY <2>5 DEF Crash, Down, SubmittedLabels
    <2> QED
      BY <2>1, <2>2, <2>3, <2>4, <2>5, Moves
      DEF ProcMove, SubmittedLabels, RowLabels, Marking, Other
  <1> QED
    BY <1>2, <1>3 DEF SInv

\* A row is pending or success only if a command for this very row was handed to
\* the client: whatever the lookups by misesid return, whatever fails.
THEOREM SettledRowsWereSubmitted == Spec => []SettledWasSubmitted
  <1>1. Init => TInv /\ SInv
    BY TInvInit
    DEF Init, CollectionInit, SInv, SettledWasSubmitted, AboutSubmitted, SubmittedLabels
  <1>2. TInv /\ SInv /\ [Next]_vars => (TInv /\ SInv)'
    <2>1. ASSUME TInv, SInv, UNCHANGED vars PROVE SInv'
      BY <2>1 DEF vars, collectionVars, clientVars, procVars, SInv, SettledWasSubmitted,
                  AboutSubmitted, HasCommand
    <2> QED
      BY <2>1, SInvNext, TInvNext
  <1>3. SInv => SettledWasSubmitted
    BY DEF SInv
  <1> QED
    BY <1>1, <1>2, <1>3, PTL DEF Spec

-----------------------------------------------------------------------------
(* RunnerNeverRepeats. *)

\* A row that is not waiting any more never waits again.
LEMMA NeverWaitsAgain ==
    ASSUME TInv, Next, NEW a \in Rows, status[a] # "default"
    PROVE  status'[a] # "default"
  <1>1. a \in Airdrops /\ status[a] # "absent"
    BY DEF Rows
  <1> QED
    BY <1>1, StatusSteps DEF StatusStep

LEMMA ThreadDoneNext ==
    ASSUME TInv, RInv, Next
    PROVE  ThreadDone'
  <1> SUFFICES ASSUME NEW t \in Threads, NEW c \in DOMAIN cmds',
                      cmds'[c].by = t, cmds'[c].ep = epoch'
               PROVE  RowDone(t, cmds[c].to)'
    BY DEF ThreadDone
  <1> DEFINE a == cmds'[c].to
  <1>0. t \in Procs /\ t \notin Sessions /\ epoch \in Nat
    BY ProcsAssumption, TypeParts DEF Procs, TInv, SessionsOK
  <1>1. CASE c \notin DOMAIN cmds
    <2>1. pc'[t] = "load" /\ a = local'[t].row
      BY <1>1, OneCommand DEF SameRow
    <2> QED
      BY <2>1 DEF RowDone, Marking
  <1>2. CASE c \in DOMAIN cmds
    <2>1. a = cmds[c].to /\ cmds[c].by = t /\ cmds[c].ep = epoch' /\ a \in Rows
      BY <1>2, OneCommand DEF TInv, Held, PaidHeld
    <2>2. epoch' = epoch /\ (airdropDo' => airdropDo)
      BY <1>0, <1>2, <2>1, EpochSteps DEF RInv, CommandsDated
    <2>3. RowDone(t, a)
      BY <1>2, <2>1, <2>2 DEF RInv, ThreadDone
    <2>4. status[a] # "default" => status'[a] # "default"
      BY <2>1, NeverWaitsAgain
    <2>5. CASE pc'[t] = pc[t] /\ SameRow(t)
      BY <2>2, <2>3, <2>4, <2>5 DEF RowDone, SameRow
    <2>6. CASE pc'[t] = "clear"
      BY <2>6 DEF RowDone, Marking
    <2>7. CASE pc[t] \in Marking /\ pc'[t] \in Marking /\ SameRow(t)
      BY <2>3, <2>4, <2>7 DEF RowDone, Marking, SameRow
    <2>8. CASE Submission(t) /\ pc'[t] = "load" /\ SameRow(t)
      BY <2>3, <2>4, <2>8 DEF RowDone, Marking, SameRow, Submission
    <2>9. CASE pc[t] = "check" /\ pc'[t] = "submit" /\ SameRow(t)
      BY <2>3, <2>4, <2>9 DEF RowDone, Marking, SameRow
    <2>10. CASE pc[t] = "getOne" /\ pc'[t] = "check" /\ status[local'[t].row] = "default"
      BY <2>3, <2>4, <2>10 DEF RowDone, Marking
    <2>11. CASE pc[t] = "again" /\ pc'[t] = "getOne" /\ airdropDo
      BY <2>3, <2>4, <2>11 DEF RowDone, Marking
    <2>12. CASE pc[t] \in Other /\ pc'[t] \in Other
      BY <2>2, <2>3, <2>4, <2>12 DEF RowDone, Other, Marking
    <2>13. CASE /\ pc[t] = "pendingUpd" /\ pc'[t] \in Other
                /\ status'[local[t].row] = "pending"
      BY <2>3, <2>4, <2>13 DEF RowDone, Other, Marking
    <2>14. CASE pc'[t] = "send" /\ ~airdropDo'
      BY <2>14 DEF RowDone, Marking
    <2>15. CASE Crash
      BY <1>0, <2>15 DEF Crash, Down, RowDone, Marking
    <2> QED
      BY <1>0, <2>5, <2>6, <2>7, <2>8, <2>9, <2>10, <2>11, <2>12, <2>13, <2>14, <2>15, Moves
      DEF ProcMove, Other, Labels, Marking
  <1> QED
    BY <1>1, <1>2

\* The lists of the feeders shrink, but for the one that reads its list.
LEMMA TodoSteps ==
    ASSUME TInv, Next, NEW s \in Sessions
    PROVE  \/ todo'[s] \subseteq todo[s]
           \/ pc[s] = "list" /\ pc'[s] \in {"next", "clear"} /\ SameCommands
  <1>0. todo \in [Sessions -> SUBSET Airdrops] /\ ProcsOK
    BY TypeParts DEF TInv, TodoOK
  <1>1. CASE UNCHANGED todo
    BY <1>1
  <1>2. CASE \E r \in Sessions : ListAirdrops(r)
    <2>1. PICK r \in Sessions : ListAirdrops(r)
      BY <1>2
    <2>2. CASE r = s
      <3>1. SameCommands
        BY <2>1 DEF ListAirdrops, clientVars, SameCommands
      <3> QED
        BY <1>0, <2>1, <2>2, <3>1 DEF ListAirdrops, Goto, ProcsOK, Procs
    <2>3. CASE r # s
      BY <1>0, <2>1, <2>3 DEF ListAirdrops
    <2> QED
      BY <2>2, <2>3
  <1>3. CASE \E r \in Sessions : NextAirdrop(r)
    BY <1>0, <1>3 DEF NextAirdrop
  <1>4. CASE Crash
    BY <1>4 DEF Crash, Down
  <1>5. CASE ~(Crash \/ \E r \in Sessions : ListAirdrops(r) \/ NextAirdrop(r))
    <2>1. UNCHANGED todo
      BY <1>5
      DEF Next, Insert, procVars, Request, AirdropTwitter, Proceed, ResetBudget, ResetStop,
          ResetDo, StartFeeder, AwaitStop, ClientGone, Feeder,
          FeederEnds, Runner, RunCheck, RunSubmit, Submit, RunLoad, RunStore, PendingFind,
          PendingUpdate, StopClear, StopSend, Keep, Rendezvous, After, TxFind, TxUpdate,
          SuccessFind, SuccessUpdate, ExtRead, ExtWrite, Credit, FailedFind, FailedUpdate, Again,
          GetOne, AfterFind, Event, OnTxGenerated, OnSucceed, OnFailed, Callback
    <2> QED
      BY <2>1
  <1> QED
    BY <1>2, <1>3, <1>4, <1>5

\* A session whose feeder has started does not go back.
LEMMA SessionSteps ==
    ASSUME TInv, Next, NEW s \in Sessions, session'[s] \in Unstarted
    PROVE  session[s] \in Unstarted /\ ~StartFeeder(s)
  <1>0. session \in [Sessions -> RequestAt]
    BY TypeParts DEF TInv, SessionsOK
  <1>1. ~StartFeeder(s)
    BY <1>0 DEF StartFeeder, Unstarted
  <1>2. CASE UNCHANGED session
    BY <1>1, <1>2
  <1>3. CASE \E r \in Sessions : AirdropTwitter(r)
    BY <1>0, <1>1, <1>3
    DEF AirdropTwitter, Proceed, ResetBudget, ResetStop, ResetDo, StartFeeder, AwaitStop, Unstarted
  <1>4. CASE \E p \in Procs, r \in Sessions : Rendezvous(p, r)
    BY <1>0, <1>1, <1>4 DEF Rendezvous, Unstarted
  <1>5. CASE Crash
    BY <1>0, <1>1, <1>5 DEF Crash, Down, Unstarted
  <1>6. CASE ~(\/ Crash
               \/ \E r \in Sessions : AirdropTwitter(r)
               \/ \E p \in Procs, r \in Sessions : Rendezvous(p, r))
    <2>1. UNCHANGED session
      BY <1>6
      DEF Next, Insert, Request, ClientGone, Feeder, ListAirdrops, NextAirdrop, FeederEnds,
          Runner, RunCheck, RunSubmit, Submit, RunLoad, RunStore, PendingFind, PendingUpdate,
          StopClear, StopSend, After, TxFind, TxUpdate, SuccessFind, SuccessUpdate, ExtRead,
          ExtWrite, Credit, FailedFind, FailedUpdate, Again, GetOne, AfterFind, Event,
          OnTxGenerated, OnSucceed, OnFailed, Callback, sessionVars
    <2> QED
      BY <1>2, <2>1
  <1> QED
    BY <1>3, <1>4, <1>5, <1>6

LEMMA FeederFreshNext ==
    ASSUME TInv, RInv, Next
    PROVE  FeederFresh'
  <1> SUFFICES ASSUME NEW s \in Sessions
               PROVE  /\ session'[s] \in Unstarted => pc'[s] = "idle"
                      /\ pc'[s] \in {"idle", "list"} => \A c \in DOMAIN cmds' : cmds'[c].by # s
    BY DEF FeederFresh
  <1>0. s \in Procs /\ s \notin Threads /\ ProcsOK
    BY TypeParts, ProcsAssumption DEF Procs, TInv
  <1>1. ASSUME session'[s] \in Unstarted PROVE pc'[s] = "idle"
    <2>1. pc[s] = "idle" /\ ~StartFeeder(s)
      BY <1>1, SessionSteps DEF RInv, FeederFresh
    <2>2. CASE Crash
      BY <1>0, <2>1, <2>2 DEF Crash, Down
    <2> QED
      BY <1>0, <2>1, <2>2, Moves DEF ProcMove, Marking
  <1>2. ASSUME pc'[s] \in {"idle", "list"}, NEW c \in DOMAIN cmds' PROVE cmds'[c].by # s
    <2>1. pc[s] \in {"idle", "list"}
      <3>1. CASE StartFeeder(s)
        BY <3>1 DEF StartFeeder, RInv, FeederFresh, Unstarted
      <3>2. CASE Crash
        BY <1>0, <1>2, <3>2 DEF Crash, Down
      <3> QED
        BY <1>0, <1>2, <3>1, <3>2, Moves DEF ProcMove, Marking, Other
    <2>2. \A d \in DOMAIN cmds : cmds[d].by # s
      BY <2>1 DEF RInv, FeederFresh
    <2> QED
      BY <1>2, <2>1, <2>2, OneCommand
  <1> QED
    BY <1>1, <1>2

LEMMA FeederAheadNext ==
    ASSUME TInv, RInv, Next
    PROVE  FeederAhead'
  <1> SUFFICES ASSUME NEW s \in Sessions
               PROVE  /\ pc'[s] \in {"check", "submit"} => local'[s].row \notin todo'[s]
                      /\ \A c \in DOMAIN cmds' :
                           cmds'[c].by = s =>
                              /\ cmds'[c].to \notin todo'[s]
                              /\ pc'[s] \in {"check", "submit"} => cmds'[c].to # local'[s].row
    BY DEF FeederAhead
  <1>0. s \in Procs /\ s \notin Threads
    BY ProcsAssumption DEF Procs
  <1>1. ASSUME pc'[s] \in {"check", "submit"}
        PROVE  /\ local'[s].row \notin todo'[s]
               /\ \/ pc[s] \in {"check", "submit"} /\ SameRow(s)
                  \/ local'[s].row \in todo[s]
    <2>1. CASE pc[s] \in {"check", "submit"} /\ SameRow(s)
      BY <2>1, TodoSteps DEF RInv, FeederAhead, SameRow
    <2>2. CASE local'[s].row \in todo[s] \ todo'[s]
      BY <2>2
    <2>3. CASE StartFeeder(s) \/ Crash
      BY <1>0, <1>1, <2>3, TypeParts DEF StartFeeder, Crash, Down, Goto, TInv, ProcsOK
    <2> QED
      BY <1>0, <1>1, <2>1, <2>2, <2>3, Moves DEF ProcMove, Marking, Other
  <1>2. ASSUME NEW c \in DOMAIN cmds', cmds'[c].by = s
        PROVE  /\ cmds'[c].to \notin todo'[s]
               /\ pc'[s] \in {"check", "submit"} => cmds'[c].to # local'[s].row
    <2>1. CASE c \in DOMAIN cmds
      <3>1. cmds[c].by = s /\ cmds'[c].to = cmds[c].to
        BY <1>2, <2>1, OneCommand
      <3>2. /\ pc[s] # "list" /\ cmds[c].to \notin todo[s]
            /\ pc[s] \in {"check", "submit"} => cmds[c].to # local[s].row
        BY <2>1, <3>1 DEF RInv, FeederFresh, FeederAhead
      <3> QED
        BY <1>1, <3>1, <3>2, TodoSteps DEF SameRow
    <2>2. CASE c \notin DOMAIN cmds
      <3>1. pc[s] = "submit" /\ pc'[s] = "load" /\ cmds'[c].to = local[s].row
        BY <1>2, <2>2, OneCommand
      <3> QED
        BY <3>1, TodoSteps DEF RInv, FeederAhead
    <2> QED
      BY <2>1, <2>2
  <1> QED
    BY <1>1, <1>2

LEMMA NeverRepeatsNext ==
    ASSUME TInv, RInv, Next
    PROVE  CommandsDated' /\ RunnerNeverRepeats'
  <1>0. epoch \in Nat /\ cmds \in Seq(Command) /\ \A c \in DOMAIN cmds : cmds[c].ep \in Nat
    <2>1. epoch \in Nat /\ cmds \in Seq(Command)
      BY TypeParts DEF TInv, SessionsOK, ClientOK
    <2>2. \A c \in DOMAIN cmds : cmds[c] \in Command
      BY <2>1
    <2> QED
      BY <2>1, <2>2 DEF Command
  <1>1. CommandsDated'
    <2> SUFFICES ASSUME NEW c \in DOMAIN cmds' PROVE cmds'[c].ep <= epoch'
      BY DEF CommandsDated
    <2>1. epoch' \in Nat /\ epoch <= epoch'
      BY <1>0, EpochSteps
    <2>2. cmds'[c].ep \in Nat /\ cmds'[c].ep <= epoch
      BY <1>0, OneCommand DEF RInv, CommandsDated
    <2> QED
      BY <1>0, <2>1, <2>2
  <1>2. RunnerNeverRepeats'
    <2> SUFFICES ASSUME NEW i \in DOMAIN cmds', NEW j \in DOMAIN cmds', i < j,
                        cmds'[i].by = cmds'[j].by, cmds'[i].ep = cmds'[j].ep
                 PROVE  cmds'[i].to # cmds'[j].to
      BY DEF RunnerNeverRepeats
    <2>1. i \in DOMAIN cmds
      <3>1. j \in Nat /\ i \in Nat
        BY TInvNext, TypeParts DEF TInv, ClientOK
      <3>2. CASE i \notin DOMAIN cmds
        <4>1. j < i
          BY <3>2, OneCommand
        <4> QED
          BY <3>1, <4>1
      <3> QED
        BY <3>2
    <2>2. CASE j \in DOMAIN cmds
      BY <2>1, <2>2, OneCommand DEF RInv, RunnerNeverRepeats
    <2>3. CASE j \notin DOMAIN cmds
      <3>1. PICK p \in Procs : /\ pc[p] = "submit" /\ cmds'[j].to = local[p].row
                               /\ cmds'[j].by = p /\ cmds'[j].ep = epoch
        BY <2>3, OneCommand
      <3>2. cmds[i].by = p /\ cmds[i].ep = epoch /\ cmds'[i].to = cmds[i].to
        BY <2>1, <3>1, OneCommand
      <3>3. CASE p \in Sessions
        BY <2>1, <3>1, <3>2, <3>3 DEF RInv, FeederAhead
      <3>4. CASE p \in Threads
        BY <2>1, <3>1, <3>2, <3>4 DEF RInv, ThreadDone, RowDone
      <3> QED
        BY <3>3, <3>4 DEF Procs
    <2> QED
      BY <2>2, <2>3
  <1> QED
    BY <1>1, <1>2

\* Within one session no goroutine submits the same row twice, however many
\* goroutines, sessions, failing calls and crashes there are.
THEOREM RunnersNeverRepeat == Spec => []RunnerNeverRepeats
  <1>1. Init => TInv /\ RInv
    <2>1. ASSUME Init PROVE RInv
      <3>1. DOMAIN cmds = {}
        BY <2>1 DEF Init, ClientInit
      <3> QED
        BY <2>1, <3>1
        DEF Init, RInv, CommandsDated, FeederFresh, FeederAhead, ThreadDone,
            RunnerNeverRepeats, Procs, Unstarted
    <2> QED
      BY <2>1, TInvInit
  <1>2. TInv /\ RInv /\ [Next]_vars => (TInv /\ RInv)'
    <2>1. ASSUME TInv, RInv, UNCHANGED vars PROVE RInv'
      <3>1. /\ UNCHANGED <<status, cmds, airdropDo, session, epoch, pc, todo, local>>
        BY <2>1 DEF vars, collectionVars, clientVars, globals, sessionVars, procVars
      <3> QED
        BY <2>1, <3>1 DEF RInv, CommandsDated, FeederFresh, FeederAhead, ThreadDone, RowDone,
                          RunnerNeverRepeats
    <2>2. ASSUME TInv, RInv, Next PROVE RInv'
      BY <2>2, ThreadDoneNext, FeederFreshNext, FeederAheadNext, NeverRepeatsNext DEF RInv
    <2> QED
      BY <2>1, <2>2, TInvNext
  <1>3. RInv => RunnerNeverRepeats
    BY DEF RInv
  <1> QED
    BY <1>1, <1>2, <1>3, PTL DEF Spec

-----------------------------------------------------------------------------
(* TxIDWriteOnce, when the SDK has one callback thread. *)

\* The row that is about to get a transaction id has none.
TxFree == \A t \in Threads : pc[t] = "txUpd" => txID[local[t].row] = NoTx

LEMMA TxSteps ==
    ASSUME TInv, Next
    PROVE  (\E t \in Threads : TxUpdate(t)) \/ UNCHANGED txID
  BY
  DEF Next, Insert, CreateAirdrop, Request, AirdropTwitter, Proceed, ResetBudget, ResetStop,
      ResetDo, StartFeeder, AwaitStop, ClientGone, Feeder, ListAirdrops, NextAirdrop,
      FeederEnds, Runner, RunCheck, RunSubmit, Submit, RunLoad, RunStore, PendingFind,
      PendingUpdate, UpdateStatusPending, StopClear, StopSend, Rendezvous, After, TxFind,
      SuccessFind, SuccessUpdate, UpdateStatus, ExtRead, ExtWrite, Credit,
      UpdateAirdropCoin, FailedFind, FailedUpdate, Again, GetOne, AfterFind, Event,
      OnTxGenerated, OnSucceed, OnFailed, Callback, Crash, Down, collectionVars

\* With one callback thread, the transaction id of a row is written once.
THEOREM OneTxID ==
    ASSUME \A t, u \in Threads : t = u
    PROVE  Spec => TxIDWriteOnce
  <1>1. Init => TInv /\ TxFree
    BY TInvInit DEF Init, TxFree, Procs
  <1>2. ASSUME TInv, TxFree, Next
        PROVE  /\ TxFree'
               /\ \A a \in Airdrops : txID[a] # NoTx => txID'[a] = txID[a]
    <2>0. ProcsOK /\ DbOK
      BY <1>2, TypeParts DEF TInv
    <2>1. CASE \E t \in Threads : TxUpdate(t)
      <3>1. PICK t \in Threads : TxUpdate(t)
        BY <2>1
      <3>2. pc[t] = "txUpd" /\ pc'[t] = "idle"
        BY <2>0, <3>1, ThreadReturns DEF TxUpdate, Goto, ProcsOK, Procs
      <3>3. TxFree'
        BY <3>2 DEF TxFree
      <3>4. txID[local[t].row] = NoTx
        BY <1>2, <3>2 DEF TxFree
      <3> QED
        BY <2>0, <3>1, <3>3, <3>4 DEF TxUpdate, UpdateTxID, collectionVars, DbOK
    <2>2. CASE UNCHANGED txID
      <3>1. ASSUME NEW t \in Threads, pc'[t] = "txUpd" PROVE txID[local'[t].row] = NoTx
        <4>1. t \in Procs /\ t \notin Sessions
          BY ProcsAssumption DEF Procs
        <4>2. CASE pc[t] = "txUpd" /\ SameRow(t)
          BY <1>2, <4>2 DEF TxFree, SameRow
        <4>3. CASE Crash
          BY <3>1, <4>1, <4>3 DEF Crash, Down
        <4> QED
          BY <1>2, <3>1, <4>1, <4>2, <4>3, Moves DEF ProcMove, Marking
      <3> QED
        BY <2>2, <3>1 DEF TxFree
    <2> QED
      BY <1>2, <2>1, <2>2, TxSteps
  <1>3. TInv /\ TxFree /\ [Next]_vars => (TInv /\ TxFree)'
    <2>1. ASSUME TxFree, UNCHANGED vars PROVE TxFree'
      BY <2>1 DEF vars, collectionVars, procVars, TxFree
    <2> QED
      BY <1>2, <2>1, TInvNext
  <1>4. TInv /\ TxFree /\ [Next]_vars
          => [\A a \in Airdrops : txID[a] # NoTx => txID'[a] = txID[a]]_vars
    BY <1>2
  <1> QED
    BY <1>1, <1>3, <1>4, PTL DEF Spec, TxIDWriteOnce

-----------------------------------------------------------------------------
(* BudgetUndershoot, for one request and one callback thread.                *)

OneEach == (\A r, s \in Sessions : r = s) /\ (\A t, u \in Threads : t = u)

\* Between the test of the budget and the end of its decrement.
Deciding == {"submit", "load", "store"}

\* Before the first session has started its feeder nothing was submitted.
NothingYet ==
    (\A s \in Sessions : session[s] \in Unstarted)
        => DOMAIN cmds = {} /\ \A p \in Procs : pc[p] = "idle"

\* One goroutine that decides has seen a budget, unless it was used up since; two
\* that decide have both seen one.
BInv ==
    /\ NothingYet
    /\ totalAirdropNum >= -1
    /\ \A p \in Procs :
          /\ pc[p] \in Deciding => totalAirdropNum >= 0
          /\ pc[p] = "store" => local[p].num >= 0 /\ (local[p].num >= 1 \/ totalAirdropNum <= 0)
    /\ \A p, q \in Procs :
          p # q /\ pc[p] \in Deciding /\ pc[q] \in Deciding
            => totalAirdropNum >= 1 /\ (pc[p] = "store" => local[p].num >= 1)

\* A step that leaves the budget, and how its goroutines come to decide.
DecidingMove(q) ==
    \/ pc'[q] \notin Deciding
    \/ pc'[q] = pc[q] /\ local'[q].num = local[q].num
    \/ pc'[q] = "submit" /\ totalAirdropNum > 0
    \/ pc[q] = "submit" /\ pc'[q] = "load"
    \/ pc[q] = "load" /\ pc'[q] = "store" /\ local'[q].num = totalAirdropNum

BudgetRests ==
    totalAirdropNum' = totalAirdropNum /\ \A q \in Procs : DecidingMove(q)

\* One goroutine goes where it has not decided; the others stay.
LEMMA Undecided ==
    ASSUME ProcsOK, UNCHANGED totalAirdropNum, NEW p \in Procs, NEW l, l \notin Deciding,
           Goto(p, l), \A q \in Procs \ {p} : local'[q] = local[q]
    PROVE  BudgetRests
  BY DEF ProcsOK, Goto, BudgetRests, DecidingMove

LEMMA BudgetSteps ==
    ASSUME TInv, Next
    PROVE  \/ BudgetRests
           \/ \E p \in Procs : RunStore(p)
           \/ \E s \in Sessions : ResetBudget(s)
           \/ Crash
  <1>. USE DEF globals
  <1>0. ProcsOK /\ Sessions \subseteq Procs /\ Threads \subseteq Procs /\ totalAirdropNum \in Int
    BY TypeParts DEF TInv, Procs, GlobalsOK
  <1>1. ASSUME UNCHANGED <<pc, local, totalAirdropNum>> PROVE BudgetRests
    BY <1>1 DEF BudgetRests, DecidingMove
  <1>2. ASSUME NEW p \in Procs, NEW l, Goto(p, l), l \notin Deciding,
               UNCHANGED <<local, totalAirdropNum>>
        PROVE  BudgetRests
    BY <1>0, <1>2, Undecided
  <1>3. ASSUME NEW p \in Procs, Return(p), UNCHANGED totalAirdropNum PROVE BudgetRests
    <2>1. \A q \in Procs \ {p} : local'[q] = local[q]
      BY <1>0, <1>3 DEF Return, ProcsOK
    <2>. QED
      BY <1>0, <1>3, <2>1, Undecided DEF Return, Deciding
  <1>4. CASE \E a \in Airdrops : Insert(a)
    BY <1>1, <1>4 DEF Insert, procVars
  <1>5. ASSUME NEW s \in Sessions, Request(s) PROVE BudgetRests \/ ResetBudget(s)
    <2>1. CASE StartFeeder(s)
      <3>1. \A q \in Procs \ {s} : local'[q] = local[q]
        BY <1>0, <2>1 DEF StartFeeder, ProcsOK
      <3>. QED
        BY <1>0, <2>1, <3>1, Undecided DEF StartFeeder, Deciding
    <2>2. CASE ResetStop(s) \/ ResetDo(s) \/ AwaitStop(s) \/ ClientGone(s)
      BY <1>1, <2>2 DEF ResetStop, ResetDo, AwaitStop, ClientGone, procVars
    <2>. QED
      BY <1>5, <2>1, <2>2 DEF Request, AirdropTwitter, Proceed
  <1>6. ASSUME NEW s \in Sessions, Feeder(s) PROVE BudgetRests
    <2>1. CASE ListAirdrops(s)
      BY <1>0, <1>2, <2>1 DEF ListAirdrops, Deciding
    <2>2. CASE NextAirdrop(s)
      <3>1. PICK a : local' = [local EXCEPT ![s].row = a] /\ Goto(s, "check")
        BY <2>2 DEF NextAirdrop
      <3>2. \A q \in Procs \ {s} : local'[q] = local[q]
        BY <1>0, <3>1 DEF ProcsOK
      <3>. QED
        BY <1>0, <2>2, <3>1, <3>2, Undecided DEF NextAirdrop, Deciding
    <2>3. CASE FeederEnds(s)
      BY <1>0, <1>3, <2>3 DEF FeederEnds
    <2>. QED
      BY <1>6, <2>1, <2>2, <2>3 DEF Feeder
  <1>7. ASSUME NEW p \in Procs, Runner(p) PROVE BudgetRests \/ RunStore(p)
    <2>1. CASE RunCheck(p)
      BY <1>0, <2>1 DEF RunCheck, Keep, Goto, ProcsOK, BudgetRests, DecidingMove, Deciding
    <2>2. CASE RunSubmit(p)
      BY <1>0, <2>2 DEF RunSubmit, Submit, Keep, Goto, ProcsOK, BudgetRests, DecidingMove, Deciding
    <2>3. CASE RunLoad(p)
      BY <1>0, <2>3 DEF RunLoad, Goto, ProcsOK, Locals, BudgetRests, DecidingMove, Deciding
    <2>4. CASE PendingFind(p) \/ StopClear(p)
      BY <1>2, <2>4 DEF PendingFind, StopClear, Keep, Deciding
    <2>5. CASE PendingUpdate(p)
      BY <1>2, <1>3, <2>5 DEF PendingUpdate, Deciding
    <2>6. CASE StopSend(p)
      <3>1. \A q \in Procs \ {p} : local'[q] = local[q]
        BY <1>0, <2>6 DEF StopSend, ProcsOK
      <3>. QED
        BY <1>0, <2>6, <3>1, Undecided DEF StopSend, Deciding
    <2>. QED
      BY <1>7, <2>1, <2>2, <2>3, <2>4, <2>5, <2>6 DEF Runner
  <1>8. CASE \E p \in Procs, s \in Sessions : Rendezvous(p, s)
    BY <1>3, <1>8 DEF Rendezvous
  <1>9. ASSUME NEW t \in Threads, After(t) PROVE BudgetRests
    <2>1. UNCHANGED totalAirdropNum
      BY <1>9 DEF After, TxFind, TxUpdate, SuccessFind, SuccessUpdate, ExtRead, ExtWrite, Credit,
                  FailedFind, FailedUpdate, Again, GetOne, AfterFind
    <2>2. \E l : Goto(t, l) /\ l \notin Deciding
      BY <1>9 DEF After, TxFind, TxUpdate, SuccessFind, SuccessUpdate, ExtRead, ExtWrite, Credit,
                  FailedFind, FailedUpdate, Again, GetOne, AfterFind, Return, Deciding
    <2>3. \A q \in Procs \ {t} : local'[q] = local[q]
      BY <1>0, <1>9
      DEF After, TxFind, TxUpdate, SuccessFind, SuccessUpdate, ExtRead, ExtWrite, Credit,
          FailedFind,
          FailedUpdate, Again, GetOne, AfterFind, Return, Keep, ProcsOK
    <2>. QED
      BY <1>0, <2>1, <2>2, <2>3, Undecided
  <1>10. ASSUME NEW t \in Threads, NEW c \in DOMAIN cmds, Event(t, c) PROVE BudgetRests
    <2>1. PICK entry \in {"txFind", "successFind", "failedFind"} :
             /\ Goto(t, entry) /\ UNCHANGED totalAirdropNum
             /\ local' = [local EXCEPT ![t].cmd = c, ![t].ctx = listener]
      BY <1>10 DEF Event, OnTxGenerated, OnSucceed, OnFailed, Callback
    <2>2. \A q \in Procs \ {t} : local'[q] = local[q]
      BY <1>0, <2>1 DEF ProcsOK
    <2>. QED
      BY <1>0, <2>1, <2>2, Undecided DEF Deciding
  <1>. QED
    BY <1>4, <1>5, <1>6, <1>7, <1>8, <1>9, <1>10 DEF Next

LEMMA NothingYetNext ==
    ASSUME TInv, NothingYet, Next
    PROVE  NothingYet'
  <1>. SUFFICES ASSUME \A s \in Sessions : session'[s] \in Unstarted
                PROVE  DOMAIN cmds' = {} /\ \A p \in Procs : pc'[p] = "idle"
    BY DEF NothingYet
  <1>1. \A s \in Sessions : session[s] \in Unstarted /\ ~StartFeeder(s)
    BY SessionSteps
  <1>2. DOMAIN cmds = {} /\ \A p \in Procs : pc[p] = "idle"
    BY <1>1 DEF NothingYet
  <1>3. DOMAIN cmds' = {}
    BY <1>2, OneCommand
  <1>4. UNCHANGED pc \/ Crash
    <2>1. ~\E s \in Sessions : Feeder(s)
      BY <1>2 DEF Procs, Feeder, ListAirdrops, NextAirdrop, FeederEnds
    <2>2. ~\E p \in Procs : Runner(p) \/ \E s \in Sessions : Rendezvous(p, s)
      BY <1>2 DEF Runner, RunCheck, RunSubmit, Submit, RunLoad, RunStore, PendingFind,
                  PendingUpdate, StopClear, StopSend, Rendezvous
    <2>3. ~\E t \in Threads : After(t)
      BY <1>2
      DEF Procs, After, TxFind, TxUpdate, SuccessFind, SuccessUpdate, ExtRead, ExtWrite, Credit,
          FailedFind, FailedUpdate, Again, GetOne
    <2>. QED
      BY <1>1, <1>2, <2>1, <2>2, <2>3
      DEF Next, Insert, procVars, Request, AirdropTwitter, Proceed, ResetBudget, ResetStop,
          ResetDo, AwaitStop, ClientGone
  <1>. QED
    BY <1>2, <1>3, <1>4 DEF Crash, Down

LEMMA BInvNext ==
    ASSUME OneEach, TInv, BInv, Next
    PROVE  BInv'
  <1>. USE DEF Deciding
  <1>0. /\ totalAirdropNum \in Int /\ totalAirdropNum >= -1 /\ ProcsOK
        /\ \A p \in Procs : local[p].num \in Int
        /\ \A p, q, r \in Procs : p = q \/ q = r \/ p = r
    BY TypeParts DEF TInv, GlobalsOK, ProcsOK, Locals, BInv, OneEach, Procs
  <1>1. NothingYet'
    BY NothingYetNext DEF BInv
  <1>2. CASE BudgetRests
    BY <1>0, <1>1, <1>2 DEF BInv, BudgetRests, DecidingMove
  <1>3. ASSUME NEW p \in Procs, RunStore(p) PROVE BInv'
    <2>1. /\ pc[p] = "store" /\ pc'[p] = "pendingFind"
          /\ \A q \in Procs \ {p} : pc'[q] = pc[q] /\ local'[q] = local[q]
          /\ totalAirdropNum' = local[p].num - 1
      BY <1>0, <1>3 DEF RunStore, Goto, ProcsOK
    <2>. QED
      BY <1>0, <1>1, <2>1 DEF BInv
  <1>4. ASSUME NEW s \in Sessions, ResetBudget(s) PROVE BInv'
    <2>1. \A p \in Procs : pc[p] = "idle"
      BY <1>4 DEF ResetBudget, Unstarted, BInv, NothingYet, OneEach
    <2>. QED
      BY <1>1, <1>4, <2>1, BudgetAssumption DEF ResetBudget, procVars, BInv
  <1>5. CASE Crash
    BY <1>1, <1>5 DEF Crash, Down, BInv
  <1>. QED
    BY <1>2, <1>3, <1>4, <1>5, BudgetSteps

\* The feeder and the callback thread of one request together pass the budget by
\* at most one submission, whatever budget, rows, failing calls and crashes.
THEOREM BudgetBounded ==
    ASSUME OneEach
    PROVE  Spec => []BudgetUndershoot
  <1>1. Init => TInv /\ BInv
    <2>1. Init => BInv
      BY DEF Init, ClientInit, BInv, NothingYet, Deciding
    <2>. QED
      BY <2>1, TInvInit
  <1>2. TInv /\ BInv /\ [Next]_vars => (TInv /\ BInv)'
    <2>1. ASSUME BInv, UNCHANGED vars PROVE BInv'
      BY <2>1 DEF vars, clientVars, globals, sessionVars, procVars, BInv, NothingYet
    <2>. QED
      BY <2>1, BInvNext, TInvNext
  <1>3. BInv => BudgetUndershoot
    BY DEF BInv, BudgetUndershoot
  <1>. QED
    BY <1>1, <1>2, <1>3, PTL DEF Spec

-----------------------------------------------------------------------------
(* ReturnedMeansStopped, for one request.                                    *)

OneRequest == \A r, s \in Sessions : r = s

Sending == {"send", "sending"}

\* Whoever is about to answer the request has stopped the dispatcher.
AInv ==
    /\ NothingYet
    /\ \A p \in Procs : pc[p] \in Sending => ~airdropDo
    /\ ReturnedMeansStopped

\* A goroutine comes to send only through the first statement of airdropToStop.
LEMMA SendingSteps ==
    ASSUME TInv, Next, NEW q \in Procs, pc'[q] \in Sending
    PROVE  pc[q] \in Sending \/ ~airdropDo'
  <1>. USE DEF Sending
  <1>0. ProcsOK /\ Sessions \subseteq Procs /\ Threads \subseteq Procs
    BY TypeParts DEF TInv, Procs
  <1>1. ASSUME NEW p \in Procs, NEW l, l \notin Sending, Goto(p, l) PROVE pc[q] \in Sending
    BY <1>0, <1>1 DEF Goto, ProcsOK
  <1>2. ASSUME NEW p \in Procs, Return(p) PROVE pc[q] \in Sending
    BY <1>1, <1>2 DEF Return
  <1>3. CASE UNCHANGED pc
    BY <1>3
  <1>4. CASE \E s \in Sessions : Request(s) \/ Feeder(s)
    BY <1>0, <1>1, <1>2, <1>3, <1>4
    DEF Request, AirdropTwitter, Proceed, ResetBudget, ResetStop, ResetDo, StartFeeder,
        AwaitStop, ClientGone, Feeder, ListAirdrops, NextAirdrop, FeederEnds, procVars
  <1>5. ASSUME NEW p \in Procs, Runner(p) PROVE pc[q] \in Sending \/ ~airdropDo'
    <2>1. CASE StopClear(p)
      BY <2>1 DEF StopClear
    <2>2. CASE StopSend(p)
      BY <1>0, <2>2 DEF StopSend, Goto, ProcsOK
    <2>3. CASE ~(StopClear(p) \/ StopSend(p))
      BY <1>1, <1>2, <1>5, <2>3
      DEF Runner, RunCheck, RunSubmit, Submit, RunLoad, RunStore, PendingFind, PendingUpdate
    <2>. QED
      BY <2>1, <2>2, <2>3
  <1>6. CASE \E p \in Procs, s \in Sessions : Rendezvous(p, s)
    BY <1>2, <1>6 DEF Rendezvous
  <1>7. CASE \E t \in Threads : After(t)
    BY <1>0, <1>1, <1>2, <1>7
    DEF After, TxFind, TxUpdate, SuccessFind, SuccessUpdate, ExtRead, ExtWrite, Credit, FailedFind,
        FailedUpdate, Again, GetOne, AfterFind
  <1>8. CASE \E t \in Threads, c \in DOMAIN cmds : Event(t, c)
    BY <1>0, <1>1, <1>8 DEF Event, OnTxGenerated, OnSucceed, OnFailed, Callback
  <1>9. CASE Crash
    BY <1>0, <1>9 DEF Crash, Down
  <1>. QED
    BY <1>3, <1>4, <1>5, <1>6, <1>7, <1>8, <1>9 DEF Next, Insert, procVars

\* Only a request that starts sets airdropDo, and only a send answers a request.
LEMMA AnswerSteps ==
    ASSUME TInv, Next
    PROVE  /\ airdropDo' => airdropDo \/ \E s \in Sessions : ResetDo(s)
           /\ \A s \in Sessions :
                 session'[s] = "done" => session[s] = "done" \/ \E p \in Procs : pc[p] = "sending"
  <1>0. session \in [Sessions -> RequestAt]
    BY TypeParts DEF TInv, SessionsOK
  <1>1. CASE \E s \in Sessions : Request(s)
    BY <1>0, <1>1 DEF Request, AirdropTwitter, Proceed, ResetBudget, ResetStop, ResetDo,
                      StartFeeder, AwaitStop, ClientGone, globals
  <1>2. CASE \E p \in Procs, s \in Sessions : Rendezvous(p, s)
    BY <1>0, <1>2 DEF Rendezvous, globals
  <1>3. CASE Crash
    BY <1>0, <1>3 DEF Crash, Down
  <1>4. ASSUME UNCHANGED session, airdropDo' => airdropDo
        PROVE  /\ airdropDo' => airdropDo \/ \E s \in Sessions : ResetDo(s)
               /\ \A s \in Sessions :
                     session'[s] = "done" => session[s] = "done" \/ \E p \in Procs : pc[p] = "sending"
    BY <1>4
  <1>. USE DEF sessionVars, globals
  <1>5. CASE \E p \in Procs : Runner(p)
    BY <1>4, <1>5 DEF Runner, RunCheck, RunSubmit, Submit, RunLoad, RunStore, PendingFind,
                      PendingUpdate, StopClear, StopSend
  <1>6. CASE \E t \in Threads : After(t)
    BY <1>4, <1>6
    DEF After, TxFind, TxUpdate, SuccessFind, SuccessUpdate, ExtRead, ExtWrite, Credit, FailedFind,
        FailedUpdate, Again, GetOne, AfterFind
  <1>7. CASE \/ \E a \in Airdrops : Insert(a)
            \/ \E s \in Sessions : Feeder(s)
    BY <1>4, <1>7 DEF Insert, Feeder, ListAirdrops, NextAirdrop, FeederEnds
  <1>8. CASE \E t \in Threads, c \in DOMAIN cmds : Event(t, c)
    BY <1>4, <1>8 DEF Event, OnTxGenerated, OnSucceed, OnFailed, Callback
  <1>. QED
    BY <1>1, <1>2, <1>3, <1>5, <1>6, <1>7, <1>8 DEF Next

LEMMA AInvNext ==
    ASSUME OneRequest, TInv, AInv, Next
    PROVE  AInv'
  <1>1. NothingYet'
    BY NothingYetNext DEF AInv
  <1>2. CASE ~airdropDo'
    BY <1>1, <1>2 DEF AInv, ReturnedMeansStopped
  <1>3. CASE airdropDo' /\ airdropDo
    <2>1. \A p \in Procs : pc'[p] \notin Sending
      BY <1>3, SendingSteps DEF AInv
    <2>2. \A s \in Sessions : session'[s] # "done"
      BY <1>3, AnswerSteps DEF AInv, ReturnedMeansStopped, Sending
    <2>. QED
      BY <1>1, <2>1, <2>2 DEF AInv, ReturnedMeansStopped
  <1>4. ASSUME NEW s \in Sessions, ResetDo(s) PROVE AInv'
    <2>0. session \in [Sessions -> RequestAt]
      BY TypeParts DEF TInv, SessionsOK
    <2>1. \A p \in Procs : pc'[p] = "idle"
      BY <1>4 DEF ResetDo, procVars, AInv, NothingYet, OneRequest, Unstarted
    <2>2. \A r \in Sessions : session'[r] = "armed"
      BY <1>4, <2>0 DEF ResetDo, OneRequest
    <2>. QED
      BY <1>1, <2>1, <2>2 DEF AInv, Sending, ReturnedMeansStopped
  <1>. QED
    BY <1>2, <1>3, <1>4, AnswerSteps

\* When its only request is answered the dispatcher is stopped, so that no callback
\* that ends later starts another row.
THEOREM AnsweredIsStopped ==
    ASSUME OneRequest
    PROVE  Spec => []ReturnedMeansStopped
  <1>1. Init => TInv /\ AInv
    <2>1. Init => AInv
      BY DEF Init, ClientInit, AInv, NothingYet, Sending, ReturnedMeansStopped
    <2>. QED
      BY <2>1, TInvInit
  <1>2. TInv /\ AInv /\ [Next]_vars => (TInv /\ AInv)'
    <2>1. ASSUME AInv, UNCHANGED vars PROVE AInv'
      BY <2>1
      DEF vars, clientVars, globals, sessionVars, procVars, AInv, NothingYet, ReturnedMeansStopped
    <2>. QED
      BY <2>1, AInvNext, TInvNext
  <1>3. AInv => ReturnedMeansStopped
    BY DEF AInv
  <1>. QED
    BY <1>1, <1>2, <1>3, PTL DEF Spec

=============================================================================
