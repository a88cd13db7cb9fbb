----------------------- MODULE ChannelDispatchProofs -----------------------
(***************************************************************************)
(* Theorems about ChannelDispatch, for every value of its constants.       *)
(***************************************************************************)
EXTENDS ChannelDispatch, UnitSums

-----------------------------------------------------------------------------
(* Type correctness. *)

Command == [to : ChannelUsers, amount : Nat, by : P!Procs, ep : Nat, stage : Stage]

\* The parts of TypeOK, so that a step only speaks of what it changes.
RowsOK == /\ airdropState \in [ChannelUsers -> P!AirdropStatus \cup {"absent"}]
          /\ txID \in [ChannelUsers -> Nat]
          /\ channelAirdropCoin \in [P!Users -> Nat]
ClientOK == cmds \in Seq(Command) /\ listener \in Sessions \cup {NoListener}
GlobalsOK == /\ totalAirdropNum \in Int
             /\ airdropStop \in Sessions \cup {P!NoChan}
             /\ airdropDo \in BOOLEAN
SessionsOK == /\ session \in [Sessions -> P!RequestAt]
              /\ waitsOn \in [Sessions -> Sessions \cup {P!NoChan}]
              /\ ctxDone \in [Sessions -> BOOLEAN]
              /\ epoch \in Nat
TodoOK == todo \in [Sessions -> SUBSET P!Rows]
ProcsOK == pc \in [P!Procs -> P!Labels] /\ local \in [P!Procs -> P!Locals]
EnvOK == faults \in Nat /\ crashes \in Nat
OwnOK == /\ validState \in [ChannelUsers -> UserValidState]
         /\ amount \in [ChannelUsers -> Nat]
         /\ copied \in [P!Procs -> [ChannelUsers -> Nat]]
         /\ doChannelUser \in [Plans -> ChannelUsers \cup {P!NoRow}]
         /\ rewritten \subseteq ChannelUsers

\* The row at hand is a document wherever it is paid or updated, the balance read
\* is not negative, and the commands pay documents.
RowLabels ==
    { "check", "submit", "load", "store", "pendingFind", "pendingUpd", "txUpd",
      "successUpd", "extRead", "extWrite", "failedUpd" }

ProcHeld(p) ==
    /\ pc[p] \in RowLabels => local[p].row \in P!Rows
    /\ pc[p] = "extWrite" => local[p].num \in Nat

PaidHeld == \A c \in DOMAIN cmds : cmds[c].to \in P!Rows

TInv ==
    /\ RowsOK /\ ClientOK /\ GlobalsOK /\ SessionsOK /\ TodoOK /\ ProcsOK /\ EnvOK /\ OwnOK
    /\ \A p \in P!Procs : ProcHeld(p)
    /\ PaidHeld

LEMMA TInvTypes == TInv => TypeOK
  BY DEF TInv, TypeOK, P!TypeOK, P!CollectionTypeOK, RowsOK, ClientOK, GlobalsOK, SessionsOK,
         TodoOK, ProcsOK, EnvOK, OwnOK, Command, P!Rows, NoListener, P!NoListener, Stage, P!Stage

\* Goroutine p goes to label l with the local variables v.
Moved(p, l, v) == pc' = [pc EXCEPT ![p] = l] /\ local' = [local EXCEPT ![p] = v]

LEMMA MovedOthers ==
    ASSUME ProcsOK, NEW p \in P!Procs, NEW l, NEW v, Moved(p, l, v)
    PROVE  /\ pc'[p] = l /\ local'[p] = v
           /\ \A q \in P!Procs \ {p} : pc'[q] = pc[q] /\ local'[q] = local[q]
  BY DEF Moved, ProcsOK

\* The documents and what the commands pay stay; only goroutine p moved.
LEMMA MovedHeld ==
    ASSUME TInv, P!Rows \subseteq P!Rows', NEW p \in P!Procs,
           NEW l \in P!Labels, NEW v \in P!Locals, Moved(p, l, v),
           l \in RowLabels => v.row \in P!Rows',
           l = "extWrite" => v.num \in Nat
    PROVE  ProcsOK' /\ \A q \in P!Procs : ProcHeld(q)'
  <1>1. ProcsOK'
    BY DEF TInv, ProcsOK, Moved
  <1>2. ProcHeld(p)'
    BY MovedOthers DEF TInv, ProcHeld
  <1>3. ASSUME NEW q \in P!Procs \ {p} PROVE ProcHeld(q)'
    BY <1>3, MovedOthers DEF TInv, ProcHeld
  <1>. QED
    BY <1>1, <1>2, <1>3

\* What a step leaves unchanged keeps its type.
LEMMA Kept ==
    ASSUME TInv
    PROVE  /\ UNCHANGED rowVars => RowsOK' /\ P!Rows' = P!Rows
           /\ UNCHANGED <<cmds, listener>> => ClientOK'
           /\ UNCHANGED globals => GlobalsOK'
           /\ UNCHANGED sessionVars => SessionsOK'
           /\ UNCHANGED todo /\ P!Rows \subseteq P!Rows' => TodoOK'
           /\ UNCHANGED <<pc, local>> => ProcsOK'
           /\ UNCHANGED ownVars => OwnOK'
           /\ UNCHANGED cmds /\ P!Rows \subseteq P!Rows' => PaidHeld'
           /\ UNCHANGED <<pc, local>> /\ P!Rows \subseteq P!Rows' => \A p \in P!Procs : ProcHeld(p)'
  BY DEF TInv, RowsOK, ClientOK, GlobalsOK, SessionsOK, TodoOK, ProcsOK, OwnOK, PaidHeld,
         ProcHeld, rowVars, globals, sessionVars, planVars, ownVars, P!Rows

LEMMA CallType ==
    ASSUME TInv
    PROVE  /\ \A ctx : P!CallOk(ctx) \/ P!CallFails(ctx) => EnvOK'
           /\ UNCHANGED <<faults, crashes>> => EnvOK'
  BY DEF TInv, EnvOK, P!CallOk, P!CallFails, P!envVars

\* The frame of a step of goroutine p that touches neither commands nor lists.
LEMMA ProcStep ==
    ASSUME TInv, RowsOK', P!Rows \subseteq P!Rows', GlobalsOK', EnvOK', OwnOK',
           UNCHANGED <<cmds, listener>>, UNCHANGED <<sessionVars, todo>>,
           NEW p \in P!Procs, NEW l \in P!Labels, NEW v \in P!Locals, Moved(p, l, v),
           l \in RowLabels => v.row \in P!Rows',
           l = "extWrite" => v.num \in Nat
    PROVE  TInv'
  <1>1. ClientOK' /\ SessionsOK' /\ TodoOK' /\ PaidHeld'
    BY Kept
  <1>2. ProcsOK' /\ \A q \in P!Procs : ProcHeld(q)'
    BY MovedHeld
  <1>. QED
    BY <1>1, <1>2 DEF TInv

\* The ways a goroutine moves, as Moved.
LEMMA Moves ==
    ASSUME ProcsOK, NEW p \in P!Procs
    PROVE  /\ local[p] \in P!Locals
           /\ P!NoLocals \in P!Locals
           /\ \A l : P!Goto(p, l) /\ UNCHANGED local => Moved(p, l, local[p])
           /\ P!Return(p) => \E l \in {"end", "idle"} : Moved(p, l, P!NoLocals)
           /\ \A l, r : P!Goto(p, l) /\ local' = [local EXCEPT ![p].row = r]
                 => Moved(p, l, [local[p] EXCEPT !.row = r])
           /\ \A l, n : P!Goto(p, l) /\ local' = [local EXCEPT ![p].num = n]
                 => Moved(p, l, [local[p] EXCEPT !.num = n])
           /\ \A l, c : P!Goto(p, l) /\ local' = [local EXCEPT ![p].chan = c]
                 => Moved(p, l, [local[p] EXCEPT !.chan = c])
           /\ \A l, c : P!Goto(p, l) /\ local' = [local EXCEPT ![p].ctx = c]
                 => Moved(p, l, [local[p] EXCEPT !.ctx = c])
           /\ \A l, c, x : P!Goto(p, l) /\ local' = [local EXCEPT ![p].cmd = c, ![p].ctx = x]
                 => Moved(p, l, [local[p] EXCEPT !.cmd = c, !.ctx = x])
  <1>1. local[p] \in P!Locals /\ P!NoLocals \in P!Locals
    BY DEF ProcsOK, P!Locals, P!NoLocals, P!NoRow
  <1>2. P!Return(p) => \E l \in {"end", "idle"} : Moved(p, l, P!NoLocals)
    BY DEF P!Return, P!Goto, Moved
  <1>3. \A l : P!Goto(p, l) /\ UNCHANGED local => Moved(p, l, local[p])
    BY DEF P!Goto, Moved, ProcsOK
  <1>4. \A l, c, x : P!Goto(p, l) /\ local' = [local EXCEPT ![p].cmd = c, ![p].ctx = x]
                 => Moved(p, l, [local[p] EXCEPT !.cmd = c, !.ctx = x])
    BY DEF P!Goto, Moved, ProcsOK
  <1>. QED
    BY <1>1, <1>2, <1>3, <1>4 DEF P!Goto, Moved

\* The updates keep the type of the collection, and every document in it.
LEMMA Updates ==
    ASSUME TInv, NEW r \in ChannelUsers
    PROVE  /\ \A st \in P!AirdropStatus :
                 P!UpdateStatus(r, st) => RowsOK' /\ P!Rows \subseteq P!Rows'
           /\ P!UpdateStatusPending(r) => RowsOK' /\ P!Rows \subseteq P!Rows'
           /\ P!CreateAirdrop(r) => RowsOK' /\ P!Rows \subseteq P!Rows'
           /\ \A tx \in Nat : UpdateTxID(r, tx) => RowsOK' /\ P!Rows \subseteq P!Rows'
           /\ \A n \in Nat : P!UpdateAirdropCoin(ChannelUID[r], n)
                 => RowsOK' /\ P!Rows \subseteq P!Rows'
  BY DEF TInv, RowsOK, P!UpdateStatus, P!UpdateStatusPending, P!CreateAirdrop, UpdateTxID,
         P!UpdateAirdropCoin, P!AirdropStatus, P!Rows, P!Users

LEMMA TInvInit == Init => TInv
  <1>. SUFFICES ASSUME Init PROVE TInv
    OBVIOUS
  <1>. USE DEF Init, P!Init
  <1>1. cmds \in Seq(Command) /\ DOMAIN cmds = {} /\ ClientOK
    <2>1. cmds = << >> /\ listener = NoListener
      BY DEF P!ClientInit, NoListener, P!NoListener
    <2>. QED
      BY <2>1 DEF ClientOK
  <1>2. RowsOK
    BY DEF P!CollectionInit, RowsOK, P!NoTx
  <1>3. EnvOK /\ TodoOK /\ OwnOK
    BY DEF EnvOK, TodoOK, OwnOK, UserValidState, NothingCopied
  <1>4. GlobalsOK
    <2>1. airdropDo \in BOOLEAN
      BY Zenon
    <2>. QED
      BY <2>1 DEF GlobalsOK
  <1>5. SessionsOK
    BY DEF SessionsOK, P!RequestAt, P!Unstarted
  <1>6. ProcsOK /\ \A p \in P!Procs : ProcHeld(p)
    BY DEF ProcsOK, ProcHeld, P!Labels, P!Locals, P!NoLocals, P!NoRow, RowLabels
  <1>7. PaidHeld
    BY <1>1 DEF PaidHeld
  <1>. QED
    BY <1>1, <1>2, <1>3, <1>4, <1>5, <1>6, <1>7 DEF TInv

\* What a plan writes.
LEMMA PlanWrites ==
    ASSUME TInv, NEW q \in Plans, PlanEnds(q)
    PROVE  OwnOK' /\ UNCHANGED dispatcherVars
  <1>1. doChannelUser[q] \in ChannelUsers
    BY DEF PlanEnds, TInv, OwnOK
  <1>2. 0..MaxAmount[doChannelUser[q]] \subseteq Nat
    OBVIOUS
  <1>. QED
    BY <1>1, <1>2 DEF PlanEnds, UpdateCreateAirdrop, TInv, OwnOK, UserValidState

\* A goroutine that reads documents copies their amounts.
LEMMA CopyOK ==
    ASSUME TInv, NEW p \in P!Procs, NEW R, Copy(p, R)
    PROVE  OwnOK'
  BY DEF Copy, planVars, TInv, OwnOK

\* The steps of the world, of the process and of the request.
LEMMA TInvWorld ==
    ASSUME TInv,
           \/ \E r \in ChannelUsers : Register(r)
           \/ \E q \in Plans, r \in ChannelUsers : FindChannelUserByUID(q, r)
           \/ \E q \in Plans : PlanEnds(q)
           \/ \E s \in Sessions : ClientGone(s)
           \/ Crash
    PROVE  TInv'
  <1>1. ASSUME NEW r \in ChannelUsers, Register(r) PROVE TInv'
    BY <1>1, Updates, Kept, CallType
    DEF Register, P!Insert, TInv, P!clientVars, globals, P!globals, sessionVars, P!sessionVars,
        P!procVars, P!envVars
  <1>2. ASSUME OwnOK', UNCHANGED dispatcherVars PROVE TInv'
    BY <1>2, Kept, CallType DEF TInv, dispatcherVars, clientVars, procVars
  <1>5. ASSUME NEW q \in Plans, NEW r \in ChannelUsers, FindChannelUserByUID(q, r) PROVE TInv'
    BY <1>2, <1>5 DEF FindChannelUserByUID, TInv, OwnOK
  <1>6. ASSUME NEW q \in Plans, PlanEnds(q) PROVE TInv'
    BY <1>2, <1>6, PlanWrites
  <1>3. ASSUME NEW s \in Sessions, ClientGone(s) PROVE TInv'
    <2>1. SessionsOK' /\ EnvOK'
      BY <1>3 DEF ClientGone, P!ClientGone, TInv, SessionsOK, EnvOK
    <2>. QED
      BY <1>3, <2>1, Kept
      DEF ClientGone, P!ClientGone, TInv, P!collectionVars, rowVars, P!clientVars, globals,
          P!globals, P!procVars
  <1>4. ASSUME Crash PROVE TInv'
    <2>. USE <1>4 DEF Crash, Down, P!Down
    <2>1. RowsOK' /\ P!Rows' = P!Rows /\ OwnOK'
      BY Kept DEF P!collectionVars, rowVars, TInv, OwnOK, NothingCopied
    <2>2. cmds' \in Seq(Command) /\ PaidHeld'
      <3>1. /\ cmds \in Seq(Command)
            /\ cmds' = [c \in DOMAIN cmds |->
                          IF cmds[c].stage \in P!Unfinished
                          THEN [cmds[c] EXCEPT !.stage = "lost"] ELSE cmds[c]]
        BY DEF TInv, ClientOK, P!LoseUnfinished
      <3>2. /\ DOMAIN cmds = 1..Len(cmds)
            /\ \A c \in 1..Len(cmds) : cmds[c] \in Command
        BY <3>1
      <3>3. \A c \in 1..Len(cmds) : cmds'[c] \in Command /\ cmds'[c].to = cmds[c].to
        BY <3>1, <3>2 DEF Command, Stage
      <3>4. cmds' \in Seq(Command) /\ DOMAIN cmds' = 1..Len(cmds)
        BY <3>1, <3>2, <3>3
      <3>. QED
        BY <2>1, <3>2, <3>3, <3>4 DEF TInv, PaidHeld
    <2>3. ClientOK'
      BY <2>2 DEF ClientOK, NoListener, P!NoListener
    <2>4. GlobalsOK'
      <3>1. airdropDo' \in BOOLEAN
        BY Zenon
      <3>. QED
        BY <3>1 DEF GlobalsOK
    <2>5. SessionsOK'
      BY DEF TInv, SessionsOK, P!RequestAt, P!Running, P!Unstarted
    <2>6. TodoOK' /\ EnvOK'
      BY DEF TInv, TodoOK, EnvOK
    <2>7. ProcsOK' /\ \A p \in P!Procs : ProcHeld(p)'
      BY DEF TInv, ProcsOK, ProcHeld, P!Labels, P!Locals, P!NoLocals, P!NoRow, RowLabels
    <2>. QED
      BY <2>1, <2>2, <2>3, <2>4, <2>5, <2>6, <2>7 DEF TInv
  <1>. QED
    BY <1>1, <1>3, <1>4, <1>5, <1>6

LEMMA TInvRequest ==
    ASSUME TInv, NEW s \in Sessions, AirdropChannel(s)
    PROVE  TInv'
  <1>1. CASE P!ResetBudget(s) \/ P!ResetStop(s) \/ P!ResetDo(s)
    <2>. USE <1>1 DEF P!ResetBudget, P!ResetStop, P!ResetDo
    <2>1. SessionsOK'
      BY DEF TInv, SessionsOK, P!RequestAt, P!Running, P!Unstarted
    <2>2. totalAirdropNum' \in Int /\ airdropStop' \in Sessions \cup {P!NoChan}
      BY BudgetAssumption DEF TInv, GlobalsOK
    <2>3. airdropDo' \in BOOLEAN
      BY Zenon DEF TInv, GlobalsOK
    <2>4. GlobalsOK'
      BY <2>2, <2>3 DEF GlobalsOK
    <2>. QED
      BY <2>1, <2>4, Kept, CallType
      DEF AirdropChannel, TInv, P!collectionVars, rowVars, P!clientVars, P!procVars, P!envVars
  <1>2. CASE P!StartFeeder(s)
    <2>. USE <1>2 DEF P!StartFeeder
    <2>1. ClientOK'
      BY DEF TInv, ClientOK, P!SetListener
    <2>2. SessionsOK'
      BY DEF TInv, SessionsOK, P!RequestAt, P!Running
    <2>3. s \in P!Procs /\ ProcsOK
      BY DEF P!Procs, TInv
    <2>4. /\ Moved(s, "list", [local[s] EXCEPT !.ctx = s])
          /\ [local[s] EXCEPT !.ctx = s] \in P!Locals
      BY <2>3, Moves DEF P!Locals
    <2>5. ProcsOK' /\ \A q \in P!Procs : ProcHeld(q)'
      BY <2>3, <2>4, MovedHeld, Kept DEF P!Labels, RowLabels, P!collectionVars, rowVars
    <2>. QED
      BY <2>1, <2>2, <2>5, Kept, CallType
      DEF AirdropChannel, TInv, P!collectionVars, rowVars, P!globals, globals, P!envVars
  <1>3. CASE P!AwaitStop(s)
    <2>1. SessionsOK'
      BY <1>3 DEF P!AwaitStop, TInv, SessionsOK, GlobalsOK, P!RequestAt, P!Running
    <2>. QED
      BY <1>3, <2>1, Kept, CallType
      DEF P!AwaitStop, AirdropChannel, TInv, P!collectionVars, rowVars, P!clientVars,
          P!globals, globals, P!procVars, P!envVars
  <1>. QED
    BY <1>1, <1>2, <1>3 DEF AirdropChannel, P!AirdropTwitter, P!Proceed

LEMMA TInvRendezvous ==
    ASSUME TInv, NEW p \in P!Procs, NEW s \in Sessions, Rendezvous(p, s)
    PROVE  TInv'
  <1>. USE DEF Rendezvous, P!Rendezvous
  <1>1. SessionsOK'
    BY DEF TInv, SessionsOK, P!RequestAt
  <1>2. PICK l \in {"end", "idle"} : Moved(p, l, P!NoLocals)
    BY Moves DEF TInv
  <1>3. P!Rows' = P!Rows /\ P!NoLocals \in P!Locals
    BY Kept, Moves DEF TInv, P!collectionVars, rowVars
  <1>4. ProcsOK' /\ \A q \in P!Procs : ProcHeld(q)'
    BY <1>2, <1>3, MovedHeld DEF P!Labels, RowLabels
  <1>. QED
    BY <1>1, <1>4, Kept, CallType
    DEF TInv, P!collectionVars, rowVars, P!clientVars, P!globals, globals, P!envVars

\* A step of a goroutine that reads, or only decides where it goes on.
LEMMA TInvLookStep ==
    ASSUME TInv, UNCHANGED <<rowVars, cmds, listener, globals, sessionVars, todo>>,
           EnvOK', OwnOK', NEW p \in P!Procs, NEW l \in P!Labels, NEW v \in P!Locals, Moved(p, l, v),
           l \in RowLabels => v.row \in P!Rows,
           l = "extWrite" => v.num \in Nat
    PROVE  TInv'
  <1>1. RowsOK' /\ P!Rows' = P!Rows /\ GlobalsOK'
    BY Kept
  <1>. QED
    BY <1>1, ProcStep

\* What a goroutine holds at the step it takes.
LEMMA Holds ==
    ASSUME TInv, NEW p \in P!Procs
    PROVE  /\ local[p] \in P!Locals /\ local[p].cmd \in Nat
           /\ pc[p] \in RowLabels => local[p].row \in P!Rows /\ local[p].row \in ChannelUsers
           /\ pc[p] = "extWrite" => local[p].num \in Nat
           /\ \A r \in P!Rows : [local[p] EXCEPT !.row = r] \in P!Locals
           /\ \A n \in Int : [local[p] EXCEPT !.num = n] \in P!Locals
           /\ \A c \in Sessions \cup {P!NoChan} : [local[p] EXCEPT !.chan = c] \in P!Locals
           /\ \A c \in Nat, x \in Sessions \cup {NoListener} :
                 [local[p] EXCEPT !.cmd = c, !.ctx = x] \in P!Locals
  <1>1. local[p] \in P!Locals
    BY DEF TInv, ProcsOK
  <1>2. pc[p] \in RowLabels => local[p].row \in P!Rows /\ local[p].row \in ChannelUsers
    BY DEF TInv, ProcHeld, P!Rows
  <1>3. pc[p] = "extWrite" => local[p].num \in Nat
    BY DEF TInv, ProcHeld
  <1>. QED
    BY <1>1, <1>2, <1>3 DEF P!Locals, P!Rows, NoListener, P!NoListener

LEMMA TInvFeeder ==
    ASSUME TInv, NEW s \in Sessions, airdropTx(s)
    PROVE  TInv'
  <1>0. s \in P!Procs /\ ProcsOK
    BY DEF P!Procs, TInv
  <1>1. CASE getChannelAirdropList(s)
    <2>. USE <1>1 DEF getChannelAirdropList
    <2>1. RowsOK' /\ P!Rows' = P!Rows /\ ClientOK' /\ GlobalsOK' /\ SessionsOK' /\ OwnOK'
          /\ EnvOK' /\ PaidHeld'
      BY <1>0, Kept, CallType, CopyOK DEF clientVars
    <2>2. Waiting \subseteq P!Rows
      BY DEF Waiting, P!Rows
    <2>3. TodoOK'
      BY <2>1, <2>2 DEF TInv, TodoOK
    <2>4. PICK l \in {"clear", "next"} : Moved(s, l, local[s])
      BY <1>0, Moves
    <2>5. ProcsOK' /\ \A q \in P!Procs : ProcHeld(q)'
      BY <1>0, <2>1, <2>4, Holds, MovedHeld DEF P!Labels, RowLabels
    <2>. QED
      BY <2>1, <2>3, <2>5 DEF TInv
  <1>2. CASE P!NextAirdrop(s) /\ UNCHANGED ownVars
    <2>. USE <1>2 DEF P!NextAirdrop
    <2>1. RowsOK' /\ P!Rows' = P!Rows /\ ClientOK' /\ GlobalsOK' /\ SessionsOK' /\ OwnOK'
          /\ EnvOK' /\ PaidHeld'
      BY Kept, CallType
      DEF P!collectionVars, rowVars, P!clientVars, P!globals, globals, P!sessionVars,
          sessionVars, P!envVars
    <2>2. PICK r \in todo[s] :
             /\ todo' = [todo EXCEPT ![s] = @ \ {r}]
             /\ Moved(s, "check", [local[s] EXCEPT !.row = r])
      BY <1>0, Moves DEF P!Oldest
    <2>3. r \in P!Rows /\ TodoOK'
      BY <2>1, <2>2 DEF TInv, TodoOK
    <2>4. ProcsOK' /\ \A q \in P!Procs : ProcHeld(q)'
      <3>. DEFINE v == [local[s] EXCEPT !.row = r]
      <3>1. v.row = r /\ v \in P!Locals /\ Moved(s, "check", v)
        BY <1>0, <2>2, <2>3, Holds DEF P!Locals
      <3>2. "check" \in P!Labels
        BY DEF P!Labels
      <3>. HIDE DEF v
      <3>. QED
        BY <1>0, <2>1, <2>3, <3>1, <3>2, MovedHeld
    <2>. QED
      BY <2>1, <2>3, <2>4 DEF TInv
  <1>3. CASE P!FeederEnds(s) /\ UNCHANGED ownVars
    <2>1. PICK l \in {"end", "idle"} : Moved(s, l, P!NoLocals)
      BY <1>0, <1>3, Moves DEF P!FeederEnds
    <2>2. UNCHANGED <<rowVars, cmds, listener, globals, sessionVars, todo>>
          /\ OwnOK' /\ EnvOK'
      BY <1>3, Kept, CallType
      DEF P!FeederEnds, P!collectionVars, rowVars, P!clientVars, P!globals, globals,
          P!sessionVars, sessionVars, P!envVars
    <2>3. P!NoLocals \in P!Locals
      BY <1>0, Moves
    <2>. QED
      BY <1>0, <2>1, <2>2, <2>3, TInvLookStep DEF P!Labels, RowLabels
  <1>. QED
    BY <1>1, <1>2, <1>3 DEF airdropTx

LEMMA TInvRunner ==
    ASSUME TInv, NEW p \in P!Procs, Runner(p)
    PROVE  TInv'
  <1>. USE DEF P!Labels, RowLabels
  <1>. USE DEF P!collectionVars, rowVars, P!clientVars, clientVars, P!globals, globals,
               P!sessionVars, sessionVars, P!envVars, P!Keep
  <1>0. ProcsOK /\ GlobalsOK
    BY DEF TInv
  <1>1. CASE pendingAfterFind(p) \/ (P!RunCheck(p) /\ UNCHANGED ownVars)
    <2>1. PICK l \in {"clear", "submit", "pendingUpd"} : Moved(p, l, local[p])
      BY <1>0, <1>1, Moves DEF pendingAfterFind, P!RunCheck
    <2>2. pc[p] \in RowLabels /\ EnvOK'
          /\ OwnOK' /\ UNCHANGED <<rowVars, cmds, listener, globals, sessionVars, todo>>
      BY <1>1, Kept, CallType DEF pendingAfterFind, P!RunCheck
    <2>. QED
      BY <2>1, <2>2, Holds, TInvLookStep
  <1>2. CASE P!Submit(p, copied[p][local[p].row]) /\ UNCHANGED ownVars
    <2>. USE <1>2 DEF P!Submit
    <2>1. RowsOK' /\ P!Rows' = P!Rows /\ GlobalsOK' /\ SessionsOK' /\ OwnOK' /\ TodoOK' /\ EnvOK'
      BY Kept, CallType
    <2>2. PICK l \in {"clear", "load"} : Moved(p, l, local[p])
      BY <1>0, Moves
    <2>3. ProcsOK' /\ \A q \in P!Procs : ProcHeld(q)'
      BY <2>1, <2>2, Holds, MovedHeld
    <2>4. CASE UNCHANGED cmds
      BY <2>1, <2>3, <2>4, Kept DEF TInv
    <2>5. CASE P!RunAsync(local[p].row, copied[p][local[p].row], p, epoch)
      <3>. DEFINE a == copied[p][local[p].row]
                  new == [ to |-> local[p].row, amount |-> a, by |-> p, ep |-> epoch,
                           stage |-> "queued" ]
      <3>0. a \in Nat
        BY Holds DEF TInv, OwnOK
      <3>1. new \in Command /\ new.to \in P!Rows
        <4>. HIDE DEF a
        <4>. QED
          BY <3>0, Holds DEF Command, Stage, TInv, SessionsOK
      <3>2. cmds' = Append(cmds, new) /\ cmds \in Seq(Command)
        BY <2>5 DEF P!RunAsync, TInv, ClientOK
      <3>3. cmds' \in Seq(Command)
        BY <3>1, <3>2
      <3>4. \A c \in DOMAIN cmds' : cmds'[c] = new \/ (c \in DOMAIN cmds /\ cmds'[c] = cmds[c])
        BY <3>1, <3>2
      <3>. HIDE DEF new
      <3>5. PaidHeld' /\ ClientOK'
        BY <2>1, <3>1, <3>3, <3>4 DEF TInv, PaidHeld, ClientOK
      <3>. QED
        BY <2>1, <2>3, <3>5 DEF TInv
    <2>. QED
      BY <2>4, <2>5
  <1>3. CASE P!RunLoad(p) /\ UNCHANGED ownVars
    <2>1. Moved(p, "store", [local[p] EXCEPT !.num = totalAirdropNum])
      BY <1>0, <1>3, Moves DEF P!RunLoad
    <2>2. UNCHANGED <<rowVars, cmds, listener, globals, sessionVars, todo>>
          /\ OwnOK' /\ EnvOK'
      BY <1>3, Kept, CallType DEF P!RunLoad
    <2>3. /\ [local[p] EXCEPT !.num = totalAirdropNum] \in P!Locals
          /\ [local[p] EXCEPT !.num = totalAirdropNum].row \in P!Rows
      BY <1>0, <1>3, Holds DEF P!RunLoad, GlobalsOK, P!Locals
    <2>. QED
      BY <2>1, <2>2, <2>3, TInvLookStep
  <1>4. CASE P!RunStore(p) /\ UNCHANGED ownVars
    <2>1. Moved(p, "pendingFind", [local[p] EXCEPT !.num = 0])
      BY <1>0, <1>4, Moves DEF P!RunStore
    <2>2. RowsOK' /\ P!Rows \subseteq P!Rows' /\ EnvOK'
      BY <1>4, Kept, CallType DEF P!RunStore
    <2>5. local[p] \in P!Locals /\ local[p].row \in P!Rows /\ pc[p] = "store"
      BY <1>4, Holds DEF P!RunStore
    <2>6. local[p].num \in Int
      BY <2>5 DEF P!Locals
    <2>7. /\ totalAirdropNum' = local[p].num - 1
          /\ UNCHANGED <<airdropStop, airdropDo>>
      BY <1>4 DEF P!RunStore
    <2>3. GlobalsOK'
      BY <1>0, <2>6, <2>7 DEF GlobalsOK
    <2>4. /\ [local[p] EXCEPT !.num = 0] \in P!Locals
          /\ [local[p] EXCEPT !.num = 0].row \in P!Rows
      BY <2>5 DEF P!Locals
    <2>. QED
      BY <1>4, <2>1, <2>2, <2>3, <2>4, ProcStep, Kept DEF P!RunStore
  <1>5. CASE P!PendingUpdate(p) /\ UNCHANGED ownVars
    <2>1. RowsOK' /\ P!Rows \subseteq P!Rows' /\ EnvOK' /\ GlobalsOK'
      BY <1>5, Holds, Updates, Kept, CallType DEF P!PendingUpdate
    <2>2. PICK l \in {"next", "end", "idle", "clear"}, v \in P!Locals : Moved(p, l, v)
      BY <1>0, <1>5, Moves DEF P!PendingUpdate
    <2>. QED
      BY <1>5, <2>1, <2>2, ProcStep, Kept DEF P!PendingUpdate
  <1>6. CASE P!StopClear(p) /\ UNCHANGED ownVars
    <2>1. airdropDo' \in BOOLEAN
      BY <1>6, Zenon DEF P!StopClear
    <2>2. GlobalsOK'
      BY <1>6, <2>1 DEF TInv, GlobalsOK, P!StopClear
    <2>3. RowsOK' /\ P!Rows \subseteq P!Rows' /\ EnvOK'
      BY <1>6, Kept, CallType DEF P!StopClear
    <2>4. Moved(p, "send", local[p]) /\ local[p] \in P!Locals
      BY <1>0, <1>6, Moves DEF P!StopClear
    <2>. QED
      BY <1>6, <2>2, <2>3, <2>4, ProcStep, Kept DEF P!StopClear
  <1>7. CASE P!StopSend(p) /\ UNCHANGED ownVars
    <2>1. /\ Moved(p, "sending", [local[p] EXCEPT !.chan = airdropStop])
          /\ [local[p] EXCEPT !.chan = airdropStop] \in P!Locals
      BY <1>0, <1>7, Moves, Holds DEF P!StopSend, GlobalsOK
    <2>2. UNCHANGED <<rowVars, cmds, listener, globals, sessionVars, todo>>
          /\ OwnOK' /\ EnvOK'
      BY <1>7, Kept, CallType DEF P!StopSend
    <2>. QED
      BY <2>1, <2>2, TInvLookStep
  <1>. QED
    BY <1>1, <1>2, <1>3, <1>4, <1>5, <1>6, <1>7 DEF Runner, airdropRun, airdropToStop

LEMMA TInvEvent ==
    ASSUME TInv, NEW t \in Threads, NEW c \in DOMAIN cmds, FaucetCallback(t, c)
    PROVE  TInv'
  <1>0. t \in P!Procs /\ ProcsOK /\ cmds \in Seq(Command) /\ cmds[c] \in Command /\ c \in Nat
    BY DEF P!Procs, TInv, ClientOK
  <1>1. PICK from \in SUBSET Stage, stage \in Stage, entry \in {"txFind", "successFind", "failedFind"} :
           P!Callback(t, c, from, stage, entry)
    BY DEF FaucetCallback, P!Event, P!OnTxGenerated, P!OnSucceed, P!OnFailed, P!Unfinished, Stage
  <1>2. /\ cmds' \in Seq(Command) /\ DOMAIN cmds' = DOMAIN cmds
        /\ \A d \in DOMAIN cmds : cmds'[d].to = cmds[d].to
    <2>1. cmds' = [cmds EXCEPT ![c].stage = stage]
      BY <1>1 DEF P!Callback, P!Report
    <2>2. [cmds[c] EXCEPT !.stage = stage] \in Command
      BY <1>0 DEF Command
    <2>3. [cmds[c] EXCEPT !.stage = stage].to = cmds[c].to
      BY <1>0 DEF Command
    <2>. QED
      BY <1>0, <2>1, <2>2, <2>3
  <1>3. RowsOK' /\ P!Rows' = P!Rows /\ GlobalsOK' /\ SessionsOK' /\ OwnOK' /\ TodoOK' /\ EnvOK'
    BY <1>1, Kept, CallType
    DEF P!Callback, FaucetCallback, P!collectionVars, rowVars, P!globals, globals,
        P!sessionVars, sessionVars, P!envVars
  <1>4. ClientOK' /\ PaidHeld'
    BY <1>1, <1>2, <1>3 DEF TInv, PaidHeld, ClientOK, P!Callback
  <1>. DEFINE v == [local[t] EXCEPT !.cmd = c, !.ctx = listener]
  <1>5. Moved(t, entry, v) /\ v \in P!Locals /\ entry \in P!Labels /\ entry \notin RowLabels
    BY <1>0, <1>1, Moves, Holds DEF P!Callback, P!Labels, RowLabels, TInv, ClientOK
  <1>. HIDE DEF v
  <1>6. ProcsOK' /\ \A q \in P!Procs : ProcHeld(q)'
    BY <1>0, <1>3, <1>5, MovedHeld DEF RowLabels
  <1>. QED
    BY <1>3, <1>4, <1>6 DEF TInv

\* A callback that finds the document of its command, or skips.
LEMMA TInvFind ==
    ASSUME TInv, NEW t \in Threads, NEW rows \in SUBSET P!Rows,
           NEW yes \in {"successUpd", "failedUpd", "txUpd"}, NEW skip,
           FindChannelUserByID(t, rows, yes, skip), skip => GoOn(t) \/ P!Return(t)
    PROVE  TInv'
  <1>0. t \in P!Procs /\ ProcsOK /\ "again" \in P!Labels /\ "idle" \in P!Labels
        /\ "end" \in P!Labels /\ yes \in P!Labels
    BY DEF P!Procs, P!Labels, TInv
  <1>1. UNCHANGED <<rowVars, cmds, listener, globals, sessionVars, todo>>
          /\ OwnOK' /\ EnvOK'
    BY <1>0, Kept, CallType, CopyOK DEF FindChannelUserByID, clientVars
  <1>2. CASE skip
    <2>1. PICK l \in {"again", "idle", "end"}, v \in P!Locals : Moved(t, l, v)
      BY <1>0, <1>2, Moves DEF GoOn
    <2>. QED
      BY <1>0, <1>1, <2>1, TInvLookStep DEF RowLabels
  <1>3. CASE /\ TrackID(local[t].cmd) \in rows
             /\ local' = [local EXCEPT ![t].row = TrackID(local[t].cmd)]
             /\ P!Goto(t, yes)
    <2>. DEFINE v == [local[t] EXCEPT !.row = TrackID(local[t].cmd)]
    <2>1. Moved(t, yes, v) /\ v \in P!Locals
      BY <1>0, <1>3, Moves, Holds
    <2>2. v.row \in P!Rows
      BY <1>0, <1>3, Holds DEF P!Locals
    <2>. HIDE DEF v
    <2>. QED
      BY <1>0, <1>1, <2>1, <2>2, TInvLookStep
  <1>. QED
    BY <1>2, <1>3 DEF FindChannelUserByID

LEMMA TInvAfter ==
    ASSUME TInv, NEW t \in Threads, After(t)
    PROVE  TInv'
  <1>. USE DEF P!collectionVars, rowVars, P!clientVars, clientVars, P!globals, globals,
               P!sessionVars, sessionVars, P!envVars, P!Keep
  <1>0. t \in P!Procs /\ ProcsOK /\ RowsOK /\ GlobalsOK
    BY DEF P!Procs, TInv
  <1>9. Pending \subseteq P!Rows /\ Waiting \subseteq P!Rows
    BY DEF Pending, Waiting, P!Rows
  <1>1. CASE successAfterFind(t) \/ failedAfterFind(t) \/ txGeneratedAfterFind(t)
    BY <1>1, <1>9, TInvFind DEF successAfterFind, failedAfterFind, txGeneratedAfterFind
  <1>2. CASE txGeneratedAfterUpdate(t)
    <2>1. pc[t] \in RowLabels
      BY <1>2 DEF txGeneratedAfterUpdate, RowLabels
    <2>2. RowsOK' /\ P!Rows \subseteq P!Rows' /\ EnvOK' /\ GlobalsOK'
      BY <1>0, <1>2, <2>1, Holds, Updates, Kept, CallType DEF txGeneratedAfterUpdate
    <2>3. PICK l \in {"end", "idle"}, v \in P!Locals : Moved(t, l, v)
      BY <1>0, <1>2, Moves DEF txGeneratedAfterUpdate
    <2>. QED
      BY <1>0, <1>2, <2>2, <2>3, ProcStep, Kept DEF txGeneratedAfterUpdate, P!Labels, RowLabels
  <1>3. CASE (P!SuccessUpdate(t) \/ P!FailedUpdate(t)) /\ UNCHANGED ownVars
    <2>1. pc[t] \in RowLabels
      BY <1>3 DEF P!SuccessUpdate, P!FailedUpdate, RowLabels
    <2>2. RowsOK' /\ P!Rows \subseteq P!Rows' /\ EnvOK' /\ GlobalsOK'
      BY <1>0, <1>3, <2>1, Holds, Updates, Kept, CallType
      DEF P!SuccessUpdate, P!FailedUpdate, P!AirdropStatus
    <2>3. PICK l \in {"extRead", "again"} : Moved(t, l, local[t])
      BY <1>0, <1>3, Moves DEF P!SuccessUpdate, P!FailedUpdate
    <2>4. local[t] \in P!Locals /\ local[t].row \in P!Rows'
      BY <1>0, <2>1, <2>2, Holds
    <2>. QED
      BY <1>0, <1>3, <2>2, <2>3, <2>4, ProcStep, Kept DEF P!SuccessUpdate, P!FailedUpdate, P!Labels
  <1>4. CASE P!ExtRead(t) /\ UNCHANGED ownVars
    <2>1. UNCHANGED <<rowVars, cmds, listener, globals, sessionVars, todo>>
          /\ OwnOK' /\ EnvOK'
      BY <1>4, Kept, CallType DEF P!ExtRead
    <2>2. local[t].row \in P!Rows /\ local[t].row \in ChannelUsers
      BY <1>0, <1>4, Holds DEF P!ExtRead, RowLabels
    <2>3. CASE UNCHANGED local /\ P!Goto(t, "again")
      BY <1>0, <2>1, <2>3, Moves, TInvLookStep DEF P!Labels, RowLabels
    <2>4. CASE /\ local' = [local EXCEPT ![t].num = channelAirdropCoin[ChannelUID[local[t].row]]]
               /\ P!Goto(t, "extWrite")
      <3>. DEFINE n == channelAirdropCoin[ChannelUID[local[t].row]]
                  v == [local[t] EXCEPT !.num = n]
      <3>1. n \in Nat
        BY <1>0, <2>2 DEF RowsOK, P!Users
      <3>2. Moved(t, "extWrite", v)
        BY <1>0, <2>4, Moves
      <3>3. v \in P!Locals /\ v.row = local[t].row /\ v.num \in Nat
        <4>1. local[t] \in P!Locals
          BY <1>0, Holds
        <4>. HIDE DEF n
        <4>. QED
          BY <3>1, <4>1 DEF P!Locals
      <3>4. "extWrite" \in P!Labels
        BY DEF P!Labels
      <3>. HIDE DEF v
      <3>. QED
        BY <1>0, <2>1, <2>2, <3>2, <3>3, <3>4, TInvLookStep
    <2>. QED
      BY <1>4, <2>3, <2>4 DEF P!ExtRead
  <1>5. CASE P!Credit(t, copied[t][local[t].row]) /\ UNCHANGED ownVars
    <2>1. /\ local[t].row \in ChannelUsers
          /\ local[t].num \in Nat
      BY <1>0, <1>5, Holds DEF P!Credit, RowLabels
    <2>2. local[t].num + copied[t][local[t].row] \in Nat
      BY <1>0, <2>1 DEF TInv, OwnOK
    <2>3. RowsOK' /\ P!Rows \subseteq P!Rows' /\ EnvOK' /\ GlobalsOK'
      BY <1>5, <2>1, <2>2, Updates, Kept, CallType DEF P!Credit
    <2>4. Moved(t, "again", [local[t] EXCEPT !.num = 0])
      BY <1>0, <1>5, Moves DEF P!Credit
    <2>5. [local[t] EXCEPT !.num = 0] \in P!Locals
      <3>1. local[t] \in P!Locals
        BY <1>0, Holds
      <3>. QED
        BY <3>1 DEF P!Locals
    <2>. QED
      BY <1>0, <1>5, <2>3, <2>4, <2>5, ProcStep, Kept DEF P!Credit, P!Labels, RowLabels
  <1>6. CASE P!Again(t) /\ UNCHANGED ownVars
    <2>1. UNCHANGED <<rowVars, cmds, listener, globals, sessionVars, todo>>
          /\ OwnOK' /\ EnvOK'
      BY <1>6, Kept, CallType DEF P!Again
    <2>2. PICK l \in {"getOne", "end", "idle"}, v \in P!Locals : Moved(t, l, v)
      BY <1>0, <1>6, Moves DEF P!Again
    <2>. QED
      BY <1>0, <2>1, <2>2, TInvLookStep DEF P!Labels, RowLabels
  <1>7. CASE airdropTxOne(t)
    <2>1. UNCHANGED <<rowVars, cmds, listener, globals, sessionVars, todo>>
          /\ OwnOK' /\ EnvOK'
      BY <1>0, <1>7, Kept, CallType, CopyOK DEF airdropTxOne
    <2>2. CASE UNCHANGED local /\ P!Goto(t, "clear")
      BY <1>0, <2>1, <2>2, Moves, TInvLookStep DEF P!Labels, RowLabels
    <2>3. ASSUME NEW r \in P!Oldest(Waiting), local' = [local EXCEPT ![t].row = r],
                 P!Goto(t, "check")
          PROVE  TInv'
      <3>. DEFINE v == [local[t] EXCEPT !.row = r]
      <3>1. r \in P!Rows
        BY <1>9 DEF P!Oldest
      <3>2. Moved(t, "check", v) /\ v \in P!Locals /\ v.row = r
        BY <1>0, <2>3, <3>1, Moves, Holds DEF P!Locals
      <3>3. "check" \in P!Labels
        BY DEF P!Labels
      <3>. HIDE DEF v
      <3>. QED
        BY <1>0, <2>1, <3>1, <3>2, <3>3, TInvLookStep
    <2>. QED
      BY <1>7, <2>2, <2>3 DEF airdropTxOne
  <1>. QED
    BY <1>1, <1>2, <1>3, <1>4, <1>5, <1>6, <1>7 DEF After

LEMMA TInvNext == TInv /\ [Next]_vars => TInv'
  <1>. SUFFICES ASSUME TInv, [Next]_vars PROVE TInv'
    OBVIOUS
  <1>1. CASE UNCHANGED vars
    BY <1>1, Kept, CallType DEF TInv, vars, dispatcherVars, clientVars, procVars
  <1>2. CASE Next
    BY <1>2, TInvWorld, TInvRequest, TInvFeeder, TInvRunner, TInvRendezvous, TInvAfter, TInvEvent
    DEF Next
  <1>. QED
    BY <1>1, <1>2

\* Every variable holds a value of its kind, and every goroutine that pays or
\* updates a row has a document at hand.
THEOREM ChannelTypeCorrect == Spec => []TypeOK
  BY TInvInit, TInvNext, TInvTypes, PTL DEF Spec

-----------------------------------------------------------------------------
(* What a step does to the rows, the balances and the commands.  A callback *)
(* is tracked from the event that starts it to its last update.             *)

RunSteps == {"load", "store", "pendingFind", "pendingUpd"}
CreditSteps == {"successFind", "successUpd", "extRead", "extWrite"}
FailSteps == {"failedFind", "failedUpd"}
TxSteps == {"txFind", "txUpd"}
UpdateSteps == {"successUpd", "extRead", "extWrite", "failedUpd", "txUpd"}
Tracked == RunSteps \cup CreditSteps \cup FailSteps \cup TxSteps

Others(p) == \A q \in P!Procs \ {p} : pc'[q] = pc[q] /\ local'[q] = local[q]

Leaves(p) ==
    /\ Others(p)
    /\ pc'[p] \notin Tracked
    /\ local'[p].cmd \in {local[p].cmd, 0}

Rests == UNCHANGED <<pc, local, rowVars, cmds>>

Registers ==
    /\ \E r \in ChannelUsers :
          airdropState[r] = "absent" /\ airdropState' = [airdropState EXCEPT ![r] = "default"]
    /\ UNCHANGED <<pc, local, txID, channelAirdropCoin, cmds>>

Dies ==
    /\ \A p \in P!Procs : pc'[p] \notin Tracked /\ local'[p].cmd = 0
    /\ P!LoseUnfinished
    /\ UNCHANGED rowVars

Walks(p) ==
    /\ \/ Leaves(p)
       \/ /\ Others(p)
          /\ pc[p] \in RunSteps /\ pc'[p] \in RunSteps
          /\ local'[p].row = local[p].row
          /\ local'[p].cmd = local[p].cmd
    /\ UNCHANGED <<rowVars, cmds>>

Submits(p) ==
    /\ Others(p) /\ UNCHANGED local
    /\ pc[p] = "submit" /\ pc'[p] = "load"
    /\ P!RunAsync(local[p].row, copied[p][local[p].row], p, epoch)
    /\ UNCHANGED rowVars

Marks(p) ==
    /\ Leaves(p)
    /\ pc[p] = "pendingUpd"
    /\ P!UpdateStatusPending(local[p].row)
    /\ UNCHANGED cmds

\* The callbacks, by the stage the command is in.
Starts(t) ==
    \E c \in DOMAIN cmds, stage \in {"generated", "succeeded", "failed"} :
        /\ Others(t)
        /\ \A u \in Threads : local[u].cmd # c
        /\ cmds[c].stage \in Unfinished
        /\ cmds' = [cmds EXCEPT ![c].stage = stage]
        /\ local'[t].cmd = c
        /\ pc'[t] = CASE stage = "generated" -> "txFind"
                      [] stage = "succeeded" -> "successFind"
                      [] stage = "failed" -> "failedFind"
        /\ UNCHANGED rowVars

Takes(t) ==
    /\ Others(t)
    /\ \/ pc[t] = "txFind" /\ pc'[t] = "txUpd"
       \/ pc[t] = "successFind" /\ pc'[t] = "successUpd"
       \/ pc[t] = "failedFind" /\ pc'[t] = "failedUpd"
    /\ local'[t].cmd = local[t].cmd
    /\ local'[t].row = TrackID(local[t].cmd)
    /\ local'[t].row \in Pending
    /\ UNCHANGED <<rowVars, cmds>>

Settles(t) ==
    /\ Others(t) /\ UNCHANGED local
    /\ \/ /\ pc[t] = "successUpd" /\ pc'[t] \in {"extRead", "again"}
          /\ P!UpdateStatus(local[t].row, "success")
       \/ /\ pc[t] = "failedUpd" /\ pc'[t] = "again"
          /\ P!UpdateStatus(local[t].row, "failed")
    /\ UNCHANGED cmds

Reads(t) ==
    /\ Others(t)
    /\ pc[t] = "extRead" /\ pc'[t] = "extWrite"
    /\ local'[t].cmd = local[t].cmd /\ local'[t].row = local[t].row
    /\ local'[t].num = channelAirdropCoin[ChannelUID[local[t].row]]
    /\ UNCHANGED <<rowVars, cmds>>

Credits(t) ==
    /\ Leaves(t)
    /\ local'[t].cmd = local[t].cmd
    /\ pc[t] = "extWrite"
    /\ P!UpdateAirdropCoin(ChannelUID[local[t].row], local[t].num + copied[t][local[t].row])
    /\ UNCHANGED cmds

Identifies(t) ==
    /\ Leaves(t)
    /\ pc[t] = "txUpd"
    /\ UpdateTxID(local[t].row, local[t].cmd)
    /\ UNCHANGED cmds

OfRunner == \E p \in P!Procs : Walks(p) \/ Submits(p) \/ Marks(p)
OfCallback ==
    \E t \in Threads :
        Starts(t) \/ Takes(t) \/ Settles(t) \/ Reads(t) \/ Credits(t) \/ Identifies(t)

Effect == Rests \/ Registers \/ Dies \/ OfRunner \/ OfCallback

\* Where goroutine p is after it goes on, and what it holds.
LEMMA MovesTo ==
    ASSUME TInv, NEW p \in P!Procs
    PROVE  /\ \A l : P!Goto(p, l) /\ UNCHANGED local
                 => pc'[p] = l /\ Others(p) /\ local'[p].cmd = local[p].cmd
           /\ P!Return(p) => pc'[p] \in {"end", "idle"} /\ Others(p) /\ local'[p].cmd = 0
           /\ \A l, r : P!Goto(p, l) /\ local' = [local EXCEPT ![p].row = r]
                 => /\ pc'[p] = l /\ Others(p)
                    /\ local'[p].cmd = local[p].cmd /\ local'[p].row = r
           /\ \A l, n : P!Goto(p, l) /\ local' = [local EXCEPT ![p].num = n]
                 => /\ pc'[p] = l /\ Others(p)
                    /\ local'[p].cmd = local[p].cmd /\ local'[p].row = local[p].row
                    /\ local'[p].num = n
           /\ \A l, c : P!Goto(p, l) /\ local' = [local EXCEPT ![p].chan = c]
                 => pc'[p] = l /\ Others(p) /\ local'[p].cmd = local[p].cmd
           /\ \A l, c : P!Goto(p, l) /\ local' = [local EXCEPT ![p].ctx = c]
                 => pc'[p] = l /\ Others(p) /\ local'[p].cmd = local[p].cmd
           /\ \A l, c, x : P!Goto(p, l) /\ local' = [local EXCEPT ![p].cmd = c, ![p].ctx = x]
                 => pc'[p] = l /\ Others(p) /\ local'[p].cmd = c
  <1>. USE DEF TInv, ProcsOK, P!Goto, Others
  <1>1. P!Return(p) => pc'[p] \in {"end", "idle"} /\ Others(p) /\ local'[p].cmd = 0
    BY DEF P!Return, P!NoLocals
  <1>2. \A l, n : P!Goto(p, l) /\ local' = [local EXCEPT ![p].num = n]
          => /\ pc'[p] = l /\ Others(p)
             /\ local'[p].cmd = local[p].cmd /\ local'[p].row = local[p].row
             /\ local'[p].num = n
    BY DEF P!Locals
  <1>3. \A l, r : P!Goto(p, l) /\ local' = [local EXCEPT ![p].row = r]
          => /\ pc'[p] = l /\ Others(p)
             /\ local'[p].cmd = local[p].cmd /\ local'[p].row = r
    BY DEF P!Locals
  <1>4. \A l, c, x : P!Goto(p, l) /\ local' = [local EXCEPT ![p].cmd = c, ![p].ctx = x]
          => pc'[p] = l /\ Others(p) /\ local'[p].cmd = c
    BY DEF P!Locals
  <1>. QED
    BY <1>1, <1>2, <1>3, <1>4 DEF P!Locals

Untracked == { "idle", "list", "next", "end", "check", "submit", "clear", "send", "sending",
               "again", "getOne" }

\* A goroutine that reads, or only decides where it goes on.
LEMMA WalkStep ==
    ASSUME TInv, NEW p \in P!Procs, UNCHANGED <<rowVars, cmds>>,
           Others(p), local'[p].cmd \in {local[p].cmd, 0},
           pc'[p] \in Untracked
    PROVE  Effect
  BY DEF Effect, OfRunner, Walks, Leaves, Untracked, Tracked, RunSteps, CreditSteps, FailSteps,
         TxSteps

\* The steps of the world, of the request and of the feeder.
LEMMA WorldEffect ==
    ASSUME TInv,
           \/ \E r \in ChannelUsers : Register(r)
           \/ \E q \in Plans, r \in ChannelUsers : FindChannelUserByUID(q, r)
           \/ \E q \in Plans : PlanEnds(q)
           \/ \E s \in Sessions : AirdropChannel(s) \/ ClientGone(s) \/ airdropTx(s)
           \/ \E p \in P!Procs, s \in Sessions : Rendezvous(p, s)
           \/ Crash
    PROVE  Effect
  <1>. USE DEF P!collectionVars, rowVars, P!clientVars, clientVars, P!procVars, procVars
  <1>0. ProcsOK /\ Sessions \subseteq P!Procs
    BY DEF TInv, P!Procs
  <1>1. ASSUME NEW r \in ChannelUsers, Register(r) PROVE Effect
    BY <1>1 DEF Register, P!Insert, P!CreateAirdrop, Effect, Registers
  <1>2. CASE UNCHANGED dispatcherVars
    BY <1>2 DEF dispatcherVars, Effect, Rests
  <1>3. ASSUME NEW s \in Sessions, ClientGone(s) PROVE Effect
    BY <1>3 DEF ClientGone, P!ClientGone, Effect, Rests
  <1>4. ASSUME NEW s \in Sessions, AirdropChannel(s) PROVE Effect
    <2>1. CASE P!ResetBudget(s) \/ P!ResetStop(s) \/ P!ResetDo(s) \/ P!AwaitStop(s)
      BY <2>1 DEF P!ResetBudget, P!ResetStop, P!ResetDo, P!AwaitStop, Effect, Rests
    <2>2. CASE P!StartFeeder(s)
      <3>1. pc'[s] = "list" /\ Others(s) /\ local'[s].cmd = local[s].cmd
        BY <1>0, <2>2, MovesTo DEF P!StartFeeder
      <3>2. UNCHANGED <<rowVars, cmds>>
        BY <2>2 DEF P!StartFeeder
      <3>. QED
        BY <1>0, <3>1, <3>2, WalkStep DEF Untracked
    <2>. QED
      BY <1>4, <2>1, <2>2 DEF AirdropChannel, P!AirdropTwitter, P!Proceed
  <1>5. ASSUME NEW s \in Sessions, airdropTx(s) PROVE Effect
    <2>1. UNCHANGED <<rowVars, cmds>>
      BY <1>5 DEF airdropTx, getChannelAirdropList, P!NextAirdrop, P!FeederEnds
    <2>2. pc'[s] \in Untracked /\ Others(s) /\ local'[s].cmd \in {local[s].cmd, 0}
      <3>1. CASE getChannelAirdropList(s)
        BY <1>0, <3>1, MovesTo DEF getChannelAirdropList, Untracked
      <3>2. CASE P!NextAirdrop(s)
        <4>1. PICK r : P!Goto(s, "check") /\ local' = [local EXCEPT ![s].row = r]
          BY <3>2 DEF P!NextAirdrop
        <4>2. pc'[s] = "check" /\ Others(s) /\ local'[s].cmd = local[s].cmd
          BY <1>0, <4>1, MovesTo
        <4>. QED
          BY <4>2 DEF Untracked
      <3>3. CASE P!FeederEnds(s)
        BY <1>0, <3>3, MovesTo DEF P!FeederEnds, Untracked
      <3>. QED
        BY <1>5, <3>1, <3>2, <3>3 DEF airdropTx
    <2>. QED
      BY <1>0, <2>1, <2>2, WalkStep
  <1>6. ASSUME NEW p \in P!Procs, NEW s \in Sessions, Rendezvous(p, s) PROVE Effect
    <2>1. UNCHANGED <<rowVars, cmds>>
      BY <1>6 DEF Rendezvous, P!Rendezvous
    <2>. QED
      BY <1>6, <2>1, MovesTo, WalkStep DEF Rendezvous, P!Rendezvous, Untracked
  <1>7. ASSUME Crash PROVE Effect
    BY <1>7
    DEF Crash, Down, P!Down, P!NoLocals, Effect, Dies, Tracked, RunSteps, CreditSteps,
        FailSteps, TxSteps
  <1>. QED
    BY <1>1, <1>2, <1>3, <1>4, <1>5, <1>6, <1>7 DEF FindChannelUserByUID, PlanEnds

LEMMA RunnerEffect ==
    ASSUME TInv, NEW p \in P!Procs, Runner(p)
    PROVE  Effect
  <1>. USE DEF P!collectionVars, rowVars, P!clientVars, clientVars, P!Keep
  <1>0. ProcsOK
    BY DEF TInv
  <1>1. ASSUME UNCHANGED <<rowVars, cmds>>, Others(p), pc[p] \in RunSteps, pc'[p] \in RunSteps,
               local'[p].row = local[p].row, local'[p].cmd = local[p].cmd
        PROVE  Effect
    BY <1>1 DEF Effect, OfRunner, Walks
  <1>3. CASE P!RunCheck(p)
    BY <1>3, MovesTo, WalkStep DEF P!RunCheck, Untracked
  <1>4. CASE P!Submit(p, copied[p][local[p].row])
    <2>1. CASE UNCHANGED cmds /\ P!Goto(p, "clear")
      BY <1>4, <2>1, MovesTo, WalkStep DEF P!Submit, Untracked
    <2>2. CASE P!RunAsync(local[p].row, copied[p][local[p].row], p, epoch) /\ P!Goto(p, "load")
      <3>1. pc'[p] = "load" /\ Others(p)
        BY <1>4, <2>2, MovesTo DEF P!Submit
      <3>. QED
        BY <1>4, <2>2, <3>1 DEF P!Submit, Effect, OfRunner, Submits
    <2>. QED
      BY <1>4, <2>1, <2>2 DEF P!Submit
  <1>5. CASE P!RunLoad(p)
    BY <1>1, <1>5, MovesTo DEF P!RunLoad, RunSteps
  <1>6. CASE P!RunStore(p)
    BY <1>1, <1>6, MovesTo DEF P!RunStore, RunSteps
  <1>7. CASE pendingAfterFind(p)
    BY <1>1, <1>7, MovesTo, WalkStep DEF pendingAfterFind, RunSteps, Untracked
  <1>8. CASE P!PendingUpdate(p)
    <2>1. /\ pc'[p] \in {"next", "end", "idle", "clear"}
          /\ Others(p) /\ local'[p].cmd \in {local[p].cmd, 0}
      BY <1>8, MovesTo DEF P!PendingUpdate
    <2>2. CASE UNCHANGED rowVars
      BY <1>8, <2>1, <2>2, WalkStep DEF P!PendingUpdate, Untracked
    <2>3. CASE P!UpdateStatusPending(local[p].row)
      <3>1. Leaves(p)
        BY <2>1 DEF Leaves, Tracked, RunSteps, CreditSteps, FailSteps, TxSteps
      <3>. QED
        BY <1>8, <2>3, <3>1 DEF P!PendingUpdate, Effect, OfRunner, Marks
    <2>. QED
      BY <1>8, <2>2, <2>3 DEF P!PendingUpdate
  <1>9. CASE P!StopClear(p)
    BY <1>9, MovesTo, WalkStep DEF P!StopClear, Untracked
  <1>10. CASE P!StopSend(p)
    BY <1>10, MovesTo, WalkStep DEF P!StopSend, Untracked
  <1>. QED
    BY <1>3, <1>4, <1>5, <1>6, <1>7, <1>8, <1>9, <1>10 DEF Runner, airdropRun, airdropToStop

LEMMA EventEffect ==
    ASSUME TInv, NEW t \in Threads, NEW c \in DOMAIN cmds, FaucetCallback(t, c)
    PROVE  Effect
  <1>0. t \in P!Procs /\ ProcsOK
    BY DEF P!Procs, TInv
  <1>1. PICK from \in SUBSET Unfinished, stage \in {"generated", "succeeded", "failed"},
             entry \in {"txFind", "successFind", "failedFind"} :
          /\ P!Callback(t, c, from, stage, entry)
          /\ entry = CASE stage = "generated" -> "txFind"
                       [] stage = "succeeded" -> "successFind"
                       [] stage = "failed" -> "failedFind"
    BY DEF FaucetCallback, P!Event, P!OnTxGenerated, P!OnSucceed, P!OnFailed, Unfinished,
           P!Unfinished
  <1>3. pc'[t] = entry /\ local'[t].cmd = c /\ Others(t)
    BY <1>0, <1>1, MovesTo DEF P!Callback
  <1>4. /\ \A u \in Threads : local[u].cmd # c
        /\ cmds[c].stage \in Unfinished
        /\ cmds' = [cmds EXCEPT ![c].stage = stage]
        /\ UNCHANGED rowVars
    BY <1>1 DEF P!Callback, P!Report, P!collectionVars, rowVars
  <1>. QED
    BY <1>1, <1>3, <1>4 DEF Effect, OfCallback, Starts

LEMMA FindEffect ==
    ASSUME TInv, NEW t \in Threads, NEW rows \in SUBSET Pending,
           NEW yes, NEW skip,
           FindChannelUserByID(t, rows, yes, skip), skip => GoOn(t) \/ P!Return(t),
           \/ pc[t] = "txFind" /\ yes = "txUpd"
           \/ pc[t] = "successFind" /\ yes = "successUpd"
           \/ pc[t] = "failedFind" /\ yes = "failedUpd"
    PROVE  Effect
  <1>0. t \in P!Procs /\ ProcsOK
    BY DEF P!Procs, TInv
  <1>1. UNCHANGED <<rowVars, cmds>>
    BY DEF FindChannelUserByID, clientVars
  <1>2. CASE skip
    BY <1>0, <1>1, <1>2, MovesTo, WalkStep DEF GoOn, Untracked
  <1>3. CASE /\ TrackID(local[t].cmd) \in rows
             /\ local' = [local EXCEPT ![t].row = TrackID(local[t].cmd)]
             /\ P!Goto(t, yes)
    <2>2. /\ pc'[t] = yes /\ Others(t)
          /\ local'[t].cmd = local[t].cmd /\ local'[t].row = TrackID(local[t].cmd)
      BY <1>0, <1>3, MovesTo
    <2>. QED
      BY <1>1, <1>3, <2>2 DEF Effect, OfCallback, Takes
  <1>. QED
    BY <1>2, <1>3 DEF FindChannelUserByID

LEMMA AfterEffect ==
    ASSUME TInv, NEW t \in Threads, After(t)
    PROVE  Effect
  <1>. USE DEF P!collectionVars, rowVars, P!clientVars, clientVars, P!Keep
  <1>0. t \in P!Procs
    BY DEF P!Procs
  <1>1. ASSUME Others(t), pc'[t] \in {"again", "idle", "end"},
               local'[t].cmd \in {local[t].cmd, 0}
        PROVE  Leaves(t)
    BY <1>1 DEF Leaves, Tracked, RunSteps, CreditSteps, FailSteps, TxSteps
  <1>2. CASE successAfterFind(t) \/ failedAfterFind(t) \/ txGeneratedAfterFind(t)
    BY <1>2, FindEffect DEF successAfterFind, failedAfterFind, txGeneratedAfterFind
  <1>3. CASE txGeneratedAfterUpdate(t)
    <2>1. pc'[t] \in {"end", "idle"} /\ Others(t) /\ local'[t].cmd = 0
      BY <1>0, <1>3, MovesTo DEF txGeneratedAfterUpdate
    <2>2. CASE UNCHANGED rowVars
      BY <1>0, <1>3, <2>1, <2>2, WalkStep DEF txGeneratedAfterUpdate, Untracked
    <2>3. CASE UpdateTxID(local[t].row, local[t].cmd)
      BY <1>1, <1>3, <2>1, <2>3 DEF txGeneratedAfterUpdate, Effect, OfCallback, Identifies
    <2>. QED
      BY <1>3, <2>2, <2>3 DEF txGeneratedAfterUpdate
  <1>4. CASE P!SuccessUpdate(t) \/ P!FailedUpdate(t)
    <2>. USE <1>4 DEF P!SuccessUpdate, P!FailedUpdate
    <2>1. CASE UNCHANGED rowVars /\ P!Goto(t, "again")
      BY <1>0, <2>1, MovesTo, WalkStep DEF Untracked
    <2>2. \A l : P!Goto(t, l) => pc'[t] = l /\ Others(t)
      BY <1>0, MovesTo
    <2>3. CASE P!SuccessUpdate(t) /\ P!UpdateStatus(local[t].row, "success")
      BY <2>2, <2>3 DEF Effect, OfCallback, Settles
    <2>4. CASE P!FailedUpdate(t) /\ P!UpdateStatus(local[t].row, "failed")
      BY <2>2, <2>4 DEF Effect, OfCallback, Settles
    <2>. QED
      BY <2>1, <2>3, <2>4
  <1>5. CASE P!ExtRead(t)
    <2>1. CASE UNCHANGED local /\ P!Goto(t, "again")
      BY <1>0, <1>5, <2>1, MovesTo, WalkStep DEF P!ExtRead, Untracked
    <2>2. CASE /\ local' = [local EXCEPT ![t].num = channelAirdropCoin[ChannelUID[local[t].row]]]
               /\ P!Goto(t, "extWrite")
      <3>. DEFINE n == channelAirdropCoin[ChannelUID[local[t].row]]
      <3>1. /\ pc'[t] = "extWrite" /\ Others(t)
            /\ local'[t].cmd = local[t].cmd /\ local'[t].row = local[t].row
            /\ local'[t].num = n
        <4>. HIDE DEF n
        <4>. QED
          BY <1>0, <2>2, MovesTo DEF n
      <3>. QED
        BY <1>5, <3>1 DEF P!ExtRead, Effect, OfCallback, Reads
    <2>. QED
      BY <1>5, <2>1, <2>2 DEF P!ExtRead
  <1>6. CASE P!Credit(t, copied[t][local[t].row])
    <2>1. pc'[t] = "again" /\ Others(t) /\ local'[t].cmd = local[t].cmd
      BY <1>0, <1>6, MovesTo DEF P!Credit
    <2>2. CASE UNCHANGED rowVars
      BY <1>0, <1>6, <2>1, <2>2, WalkStep DEF P!Credit, Untracked
    <2>3. CASE P!UpdateAirdropCoin(ChannelUID[local[t].row], local[t].num + copied[t][local[t].row])
      BY <1>1, <1>6, <2>1, <2>3 DEF P!Credit, Effect, OfCallback, Credits
    <2>. QED
      BY <1>6, <2>2, <2>3 DEF P!Credit
  <1>7. CASE P!Again(t)
    BY <1>0, <1>7, MovesTo, WalkStep DEF P!Again, Untracked
  <1>8. CASE airdropTxOne(t)
    BY <1>0, <1>8, MovesTo, WalkStep DEF airdropTxOne, Untracked
  <1>. QED
    BY <1>2, <1>3, <1>4, <1>5, <1>6, <1>7, <1>8 DEF After

\* Every step of the specification has one of these effects.
LEMMA StepEffect == TInv /\ [Next]_vars => Effect
  <1>. SUFFICES ASSUME TInv, [Next]_vars PROVE Effect
    OBVIOUS
  <1>1. CASE UNCHANGED vars
    BY <1>1 DEF vars, dispatcherVars, clientVars, procVars, Effect, Rests
  <1>2. CASE Next
    BY <1>2, WorldEffect, RunnerEffect, EventEffect, AfterEffect DEF Next
  <1>. QED
    BY <1>1, <1>2

-----------------------------------------------------------------------------
(* A callback is about one command, which has the outcome it was called for, *)
(* and the row at hand is the one the command pays.                          *)

CallbackOK(t) ==
    /\ pc[t] \in CreditSteps \cup FailSteps \cup TxSteps => local[t].cmd \in DOMAIN cmds
    /\ pc[t] \in CreditSteps => cmds[local[t].cmd].stage = "succeeded"
    /\ pc[t] \in FailSteps => cmds[local[t].cmd].stage = "failed"
    /\ pc[t] \in TxSteps => cmds[local[t].cmd].stage # "queued"
    /\ pc[t] \in UpdateSteps => local[t].row = cmds[local[t].cmd].to

OneCallback ==
    \A t, u \in Threads : local[t].cmd # 0 /\ local[t].cmd = local[u].cmd => t = u

CallbackInv == OneCallback /\ \A t \in Threads : CallbackOK(t)

\* An outcome is final, and a command pays the same row for ever.
CmdKept(c) ==
    /\ c \in DOMAIN cmds'
    /\ cmds'[c].to = cmds[c].to /\ cmds'[c].amount = cmds[c].amount
    /\ cmds[c].stage \in {"succeeded", "failed"} => cmds'[c].stage = cmds[c].stage
    /\ cmds[c].stage # "queued" => cmds'[c].stage # "queued"

LEMMA CmdsKept ==
    ASSUME TInv, Effect, NEW c \in DOMAIN cmds
    PROVE  CmdKept(c)
  <1>0. cmds \in Seq(Command) /\ cmds[c] \in Command
    BY DEF TInv, ClientOK
  <1>1. CASE UNCHANGED cmds
    BY <1>1 DEF CmdKept
  <1>2. ASSUME NEW p \in P!Procs, Submits(p) PROVE CmdKept(c)
    <2>1. cmds' = Append(cmds, [ to |-> local[p].row, amount |-> copied[p][local[p].row], by |-> p,
                               ep |-> epoch, stage |-> "queued" ])
      BY <1>2 DEF Submits, P!RunAsync
    <2>2. c \in DOMAIN cmds' /\ cmds'[c] = cmds[c]
      BY <1>0, <2>1
    <2>. QED
      BY <2>2 DEF CmdKept
  <1>3. ASSUME NEW t \in Threads, Starts(t) PROVE CmdKept(c)
    <2>1. PICK d \in DOMAIN cmds, stage \in {"generated", "succeeded", "failed"} :
             cmds[d].stage \in Unfinished /\ cmds' = [cmds EXCEPT ![d].stage = stage]
      BY <1>3 DEF Starts
    <2>2. CASE c = d
      BY <1>0, <2>1, <2>2 DEF Command, CmdKept, Unfinished
    <2>3. CASE c # d
      BY <1>0, <2>1, <2>3 DEF CmdKept
    <2>. QED
      BY <2>2, <2>3
  <1>4. CASE Dies
    <2>1. cmds' = [d \in DOMAIN cmds |->
                     IF cmds[d].stage \in P!Unfinished
                     THEN [cmds[d] EXCEPT !.stage = "lost"] ELSE cmds[d]]
      BY <1>4 DEF Dies, P!LoseUnfinished
    <2>. QED
      BY <1>0, <2>1 DEF Command, CmdKept, P!Unfinished
  <1>. QED
    BY <1>1, <1>2, <1>3, <1>4
    DEF Effect, Rests, Registers, OfRunner, OfCallback, Walks, Marks, Takes, Settles, Reads,
        Credits, Identifies

\* A callback that does not move keeps what it is about.
LEMMA CallbackStays ==
    ASSUME TInv, Effect, NEW t \in Threads, CallbackOK(t), pc'[t] = pc[t], local'[t] = local[t]
    PROVE  CallbackOK(t)'
  <1>1. local[t].cmd \in DOMAIN cmds => CmdKept(local[t].cmd)
    BY CmdsKept
  <1>. QED
    BY <1>1 DEF CallbackOK, CmdKept, CreditSteps, FailSteps, TxSteps, UpdateSteps

\* The command of a callback changes only when the callback starts or ends.
LEMMA CallbackNext == TInv /\ CallbackInv /\ Effect => CallbackInv'
  <1>. SUFFICES ASSUME TInv, CallbackInv, Effect PROVE CallbackInv'
    OBVIOUS
  <1>. USE DEF CallbackInv
  <1>0. Threads \subseteq P!Procs
    BY DEF P!Procs
  <1>1. ASSUME NEW p \in P!Procs, Others(p), local'[p].cmd \in {local[p].cmd, 0}
        PROVE  OneCallback'
    BY <1>0, <1>1 DEF OneCallback, Others
  <1>2. ASSUME NEW p \in P!Procs, Others(p), p \in Threads => CallbackOK(p)'
        PROVE  \A t \in Threads : CallbackOK(t)'
    <2>1. ASSUME NEW t \in Threads, t # p PROVE CallbackOK(t)'
      BY <1>0, <1>2, <2>1, CallbackStays DEF Others
    <2>. QED
      BY <1>2, <2>1
  <1>. USE DEF CreditSteps, FailSteps, TxSteps, UpdateSteps
  <1>3. CASE Rests \/ Registers
    BY <1>3, CallbackStays DEF Rests, Registers, OneCallback
  <1>4. CASE Dies
    BY <1>0, <1>4 DEF Dies, OneCallback, CallbackOK, Tracked
  <1>5. ASSUME NEW p \in P!Procs, Leaves(p) PROVE CallbackInv'
    BY <1>1, <1>2, <1>5 DEF Leaves, CallbackOK, Tracked
  <1>6. ASSUME NEW p \in P!Procs, Walks(p) \/ Submits(p) \/ Marks(p) PROVE CallbackInv'
    <2>1. CASE ~Leaves(p)
      <3>1. Others(p) /\ local'[p].cmd = local[p].cmd /\ pc'[p] \in RunSteps
        BY <1>6, <2>1 DEF Walks, Submits, Marks, RunSteps
      <3>2. CallbackOK(p)'
        BY <3>1 DEF CallbackOK, RunSteps
      <3>. QED
        BY <1>1, <1>2, <3>1, <3>2
    <2>. QED
      BY <1>5, <2>1
  <1>7. ASSUME NEW t \in Threads, Starts(t) PROVE CallbackInv'
    <2>1. PICK c \in DOMAIN cmds, stage \in {"generated", "succeeded", "failed"} :
             /\ Others(t)
             /\ \A u \in Threads : local[u].cmd # c
             /\ cmds' = [cmds EXCEPT ![c].stage = stage]
             /\ local'[t].cmd = c
             /\ pc'[t] = CASE stage = "generated" -> "txFind"
                           [] stage = "succeeded" -> "successFind"
                           [] stage = "failed" -> "failedFind"
      BY <1>7 DEF Starts
    <2>2. c \in DOMAIN cmds' /\ cmds'[c].stage = stage
      <3>1. cmds \in Seq(Command) /\ cmds[c] \in Command
        BY DEF TInv, ClientOK
      <3>. QED
        BY <2>1, <3>1 DEF Command
    <2>3. CallbackOK(t)'
      BY <2>1, <2>2 DEF CallbackOK
    <2>4. OneCallback'
      BY <1>0, <2>1 DEF OneCallback, Others
    <2>. QED
      BY <1>0, <1>2, <2>1, <2>3, <2>4
  <1>8. ASSUME NEW t \in Threads, Takes(t) \/ Settles(t) \/ Reads(t) PROVE CallbackInv'
    <2>1. Others(t) /\ local'[t].cmd = local[t].cmd /\ UNCHANGED cmds
      BY <1>8 DEF Takes, Settles, Reads
    <2>2. CallbackOK(t)'
      <3>1. CASE Takes(t)
        <4>1. local[t].cmd \in DOMAIN cmds /\ local'[t].row = TrackID(local[t].cmd)
              /\ local'[t].row \in ChannelUsers
          BY <3>1 DEF Takes, CallbackOK, Pending
        <4>2. local'[t].row = cmds[local[t].cmd].to
          BY <4>1, ChannelUsersAssumption DEF TrackID, NilObjectID
        <4>. QED
          BY <2>1, <3>1, <4>1, <4>2 DEF Takes, CallbackOK
      <3>2. CASE Settles(t)
        BY <2>1, <3>2 DEF Settles, CallbackOK
      <3>3. CASE Reads(t)
        BY <2>1, <3>3 DEF Reads, CallbackOK
      <3>. QED
        BY <1>8, <3>1, <3>2, <3>3
    <2>. QED
      BY <1>0, <1>1, <1>2, <2>1, <2>2
  <1>9. ASSUME NEW t \in Threads, Credits(t) \/ Identifies(t) PROVE CallbackInv'
    BY <1>0, <1>5, <1>9 DEF Credits, Identifies
  <1>. QED
    BY <1>3, <1>4, <1>6, <1>7, <1>8, <1>9 DEF Effect, OfRunner, OfCallback

-----------------------------------------------------------------------------
(* The amount of a document is copied where the document is read, and paid   *)
(* and credited from the copy.  The copies agree with the document, and with *)
(* what was paid, as long as no plan writes a row that is already valid.     *)

\* Goroutine p is going to use the amount it copied of r.
HoldSteps == {"check", "submit", "successUpd", "extRead", "extWrite"}

Holding(p, r) ==
    \/ p \in Sessions /\ r \in todo[p]
    \/ pc[p] \in HoldSteps /\ local[p].row = r

AmountsBounded ==
    /\ \A r \in ChannelUsers : amount[r] <= MaxAmount[r]
    /\ \A p \in P!Procs, r \in ChannelUsers : copied[p][r] <= MaxAmount[r]
    /\ \A c \in DOMAIN cmds : cmds[c].amount <= MaxAmount[cmds[c].to]

CopiesFresh ==
    \A p \in P!Procs, r \in ChannelUsers \ rewritten :
        Holding(p, r) => validState[r] = "success" /\ copied[p][r] = amount[r]

PaidFresh ==
    \A c \in DOMAIN cmds :
        cmds[c].to \notin rewritten =>
            validState[cmds[c].to] = "success" /\ cmds[c].amount = amount[cmds[c].to]

AmountInv == AmountsBounded /\ CopiesFresh /\ PaidFresh

\* What a step does to the amounts: it copies documents, hands a copy to the
\* client, or lets every goroutine use fewer of its copies.
HeldBefore(p) == \A r \in ChannelUsers : Holding(p, r)' => Holding(p, r)

Copies(p) ==
    \E R \in SUBSET ChannelUsers :
        /\ Copy(p, R)
        /\ \A q \in P!Procs \ {p} : HeldBefore(q)
        /\ \A r \in ChannelUsers \ rewritten :
              Holding(p, r)' => r \in R /\ validState[r] = "success"
        /\ UNCHANGED cmds

Hands(p) ==
    /\ Submits(p)
    /\ Holding(p, local[p].row) /\ \A q \in P!Procs : HeldBefore(q)
    /\ UNCHANGED ownVars

Passes ==
    /\ \A p \in P!Procs : HeldBefore(p)
    /\ DOMAIN cmds' = DOMAIN cmds
    /\ UNCHANGED ownVars

AmountEffect ==
    \/ \E q \in Plans, r \in ChannelUsers : FindChannelUserByUID(q, r)
    \/ \E q \in Plans : PlanEnds(q)
    \/ \E p \in P!Procs : Copies(p) \/ Hands(p)
    \/ Passes
    \/ Down

\* A goroutine that takes no row in hand.
LEMMA OthersHold ==
    ASSUME NEW p \in P!Procs, Others(p), UNCHANGED todo
    PROVE  /\ \A q \in P!Procs \ {p} : HeldBefore(q)
           /\ \/ pc'[p] \notin HoldSteps
              \/ pc[p] \in HoldSteps /\ local'[p].row = local[p].row
              => HeldBefore(p)
  BY DEF Others, HeldBefore, Holding

LEMMA PassStep ==
    ASSUME NEW p \in P!Procs, Others(p), UNCHANGED <<todo, ownVars>>, DOMAIN cmds' = DOMAIN cmds,
           \/ pc'[p] \notin HoldSteps
           \/ pc[p] \in HoldSteps /\ local'[p].row = local[p].row
    PROVE  AmountEffect
  <1>1. \A q \in P!Procs : HeldBefore(q)
    BY OthersHold
  <1>. QED
    BY <1>1 DEF AmountEffect, Passes

\* A goroutine that moves on and reads no document.
LEMMA WorldAmounts ==
    ASSUME TInv,
           \/ \E r \in ChannelUsers : Register(r)
           \/ \E q \in Plans, r \in ChannelUsers : FindChannelUserByUID(q, r)
           \/ \E q \in Plans : PlanEnds(q)
           \/ \E s \in Sessions : AirdropChannel(s) \/ ClientGone(s)
           \/ \E p \in P!Procs, s \in Sessions : Rendezvous(p, s)
           \/ \E t \in Threads, c \in DOMAIN cmds : FaucetCallback(t, c)
           \/ Crash
    PROVE  AmountEffect
  <1>. USE DEF P!clientVars, P!procVars, HoldSteps
  <1>0. Sessions \subseteq P!Procs /\ Threads \subseteq P!Procs
    BY DEF P!Procs
  <1>1. ASSUME UNCHANGED <<pc, todo, local, cmds, ownVars>> PROVE AmountEffect
    BY <1>1 DEF AmountEffect, Passes, HeldBefore, Holding
  <1>2. ASSUME NEW r \in ChannelUsers, Register(r) PROVE AmountEffect
    BY <1>1, <1>2 DEF Register, P!Insert
  <1>3. ASSUME NEW s \in Sessions, ClientGone(s) PROVE AmountEffect
    BY <1>1, <1>3 DEF ClientGone, P!ClientGone
  <1>4. ASSUME NEW s \in Sessions, AirdropChannel(s) PROVE AmountEffect
    <2>1. CASE P!ResetBudget(s) \/ P!ResetStop(s) \/ P!ResetDo(s) \/ P!AwaitStop(s)
      BY <1>1, <1>4, <2>1
      DEF AirdropChannel, P!ResetBudget, P!ResetStop, P!ResetDo, P!AwaitStop
    <2>2. CASE P!StartFeeder(s)
      <3>1. pc'[s] = "list" /\ Others(s) /\ UNCHANGED <<todo, cmds>>
        BY <1>0, <2>2, MovesTo DEF P!StartFeeder
      <3>. QED
        BY <1>0, <1>4, <3>1, PassStep DEF AirdropChannel
    <2>. QED
      BY <1>4, <2>1, <2>2 DEF AirdropChannel, P!AirdropTwitter, P!Proceed
  <1>5. ASSUME NEW p \in P!Procs, NEW s \in Sessions, Rendezvous(p, s) PROVE AmountEffect
    BY <1>5, MovesTo, PassStep DEF Rendezvous, P!Rendezvous
  <1>6. ASSUME NEW t \in Threads, NEW c \in DOMAIN cmds, FaucetCallback(t, c) PROVE AmountEffect
    <2>1. PICK from \in SUBSET Stage, stage \in Stage,
               entry \in {"txFind", "successFind", "failedFind"} :
             P!Callback(t, c, from, stage, entry)
      BY <1>6
      DEF FaucetCallback, P!Event, P!OnTxGenerated, P!OnSucceed, P!OnFailed, P!Unfinished, Stage
    <2>2. pc'[t] = entry /\ Others(t)
      BY <1>0, <2>1, MovesTo DEF P!Callback
    <2>3. DOMAIN cmds' = DOMAIN cmds
      BY <2>1 DEF P!Callback, P!Report, TInv, ClientOK
    <2>. QED
      BY <1>0, <1>6, <2>1, <2>2, <2>3, PassStep DEF P!Callback, FaucetCallback
  <1>. QED
    BY <1>2, <1>3, <1>4, <1>5, <1>6 DEF AmountEffect, Crash

LEMMA FeederAmounts ==
    ASSUME TInv, NEW s \in Sessions, airdropTx(s)
    PROVE  AmountEffect
  <1>. USE DEF HoldSteps
  <1>0. s \in P!Procs /\ todo \in [Sessions -> SUBSET P!Rows]
    BY DEF P!Procs, TInv, TodoOK
  <1>1. CASE getChannelAirdropList(s)
    <2>. USE <1>1 DEF getChannelAirdropList
    <2>1. pc'[s] \in {"clear", "next"} /\ Others(s)
      BY <1>0, MovesTo
    <2>2. CASE UNCHANGED <<todo, ownVars>>
      BY <1>0, <2>1, <2>2, PassStep DEF clientVars
    <2>3. CASE todo' = [todo EXCEPT ![s] = {r \in Waiting :
                          Cardinality({q \in Waiting : q < r}) < ListNum}]
               /\ Copy(s, todo'[s])
      <3>1. todo'[s] \subseteq Waiting
        BY <1>0, <2>3
      <3>2. \A q \in P!Procs \ {s} : HeldBefore(q)
        BY <1>0, <2>1, <2>3 DEF Others, HeldBefore, Holding
      <3>3. \A r \in ChannelUsers : Holding(s, r)' => r \in todo'[s] /\ validState[r] = "success"
        BY <2>1, <3>1 DEF Holding, Waiting
      <3>4. todo'[s] \in SUBSET ChannelUsers
        BY <3>1 DEF Waiting
      <3>. QED
        BY <1>0, <2>3, <3>2, <3>3, <3>4 DEF AmountEffect, Copies, clientVars
    <2>. QED
      BY <2>2, <2>3
  <1>2. CASE P!NextAirdrop(s) /\ UNCHANGED ownVars
    <2>1. PICK r \in todo[s] : /\ todo' = [todo EXCEPT ![s] = @ \ {r}]
                               /\ local' = [local EXCEPT ![s].row = r]
                               /\ P!Goto(s, "check")
      BY <1>2 DEF P!NextAirdrop, P!Oldest
    <2>2. Others(s) /\ local'[s].row = r
      BY <1>0, <2>1, MovesTo
    <2>3. \A q \in P!Procs : HeldBefore(q)
      BY <1>0, <2>1, <2>2 DEF Others, HeldBefore, Holding
    <2>. QED
      BY <1>2, <2>3 DEF AmountEffect, Passes, P!NextAirdrop, P!clientVars
  <1>3. CASE P!FeederEnds(s) /\ UNCHANGED ownVars
    BY <1>0, <1>3, MovesTo, PassStep DEF P!FeederEnds, P!clientVars
  <1>. QED
    BY <1>1, <1>2, <1>3 DEF airdropTx

LEMMA RunnerAmounts ==
    ASSUME TInv, NEW p \in P!Procs, Runner(p)
    PROVE  AmountEffect
  <1>. USE DEF P!clientVars, clientVars, P!Keep, HoldSteps
  <1>1. CASE pendingAfterFind(p)
    BY <1>1, MovesTo, PassStep DEF pendingAfterFind
  <1>2. CASE P!RunCheck(p) /\ UNCHANGED ownVars
    BY <1>2, MovesTo, PassStep DEF P!RunCheck
  <1>3. CASE P!Submit(p, copied[p][local[p].row]) /\ UNCHANGED ownVars
    <2>1. CASE UNCHANGED cmds /\ P!Goto(p, "clear")
      BY <1>3, <2>1, MovesTo, PassStep DEF P!Submit
    <2>2. CASE P!RunAsync(local[p].row, copied[p][local[p].row], p, epoch) /\ P!Goto(p, "load")
      <3>1. pc[p] = "submit" /\ pc'[p] = "load" /\ Others(p) /\ UNCHANGED <<todo, local>>
        BY <1>3, <2>2, MovesTo DEF P!Submit
      <3>2. Submits(p)
        BY <1>3, <2>2, <3>1 DEF P!Submit, Submits, P!collectionVars, rowVars
      <3>3. Holding(p, local[p].row) /\ \A q \in P!Procs : HeldBefore(q)
        BY <3>1, OthersHold DEF Holding
      <3>. QED
        BY <1>3, <3>2, <3>3 DEF AmountEffect, Hands
    <2>. QED
      BY <1>3, <2>1, <2>2 DEF P!Submit
  <1>4. CASE (P!RunLoad(p) \/ P!RunStore(p) \/ P!PendingUpdate(p)) /\ UNCHANGED ownVars
    <2>1. pc'[p] \notin HoldSteps /\ Others(p)
      BY <1>4, MovesTo DEF P!RunLoad, P!RunStore, P!PendingUpdate
    <2>2. UNCHANGED <<todo, cmds>>
      BY <1>4 DEF P!RunLoad, P!RunStore, P!PendingUpdate
    <2>. QED
      BY <1>4, <2>1, <2>2, PassStep
  <1>5. CASE (P!StopClear(p) \/ P!StopSend(p)) /\ UNCHANGED ownVars
    <2>1. pc'[p] \in {"send", "sending"} /\ Others(p)
      BY <1>5, MovesTo DEF P!StopClear, P!StopSend
    <2>2. UNCHANGED <<todo, cmds>>
      BY <1>5 DEF P!StopClear, P!StopSend
    <2>. QED
      BY <1>5, <2>1, <2>2, PassStep
  <1>. QED
    BY <1>1, <1>2, <1>3, <1>4, <1>5 DEF Runner, airdropRun, airdropToStop

\* A callback that finds the document of its command copies it; the amount is
\* used only after successAfter, and the command has paid the row.
LEMMA FindAmounts ==
    ASSUME TInv, CallbackInv, PaidFresh, NEW t \in Threads, NEW rows \in SUBSET ChannelUsers,
           NEW yes, NEW skip, FindChannelUserByID(t, rows, yes, skip),
           skip => GoOn(t) \/ P!Return(t),
           pc[t] = "successFind" \/ yes \notin HoldSteps
    PROVE  AmountEffect
  <1>0. t \in P!Procs /\ t \notin Sessions
    BY GoroutinesAssumption DEF P!Procs
  <1>1. CASE skip /\ UNCHANGED ownVars
    BY <1>0, <1>1, MovesTo, PassStep DEF FindChannelUserByID, GoOn, clientVars, HoldSteps
  <1>2. CASE /\ TrackID(local[t].cmd) \in rows
             /\ local' = [local EXCEPT ![t].row = TrackID(local[t].cmd)]
             /\ Copy(t, {TrackID(local[t].cmd)})
             /\ P!Goto(t, yes)
    <2>. DEFINE r == TrackID(local[t].cmd)
    <2>1. pc'[t] = yes /\ Others(t) /\ local'[t].row = r
      <3>1. P!Goto(t, yes) /\ local' = [local EXCEPT ![t].row = r]
        BY <1>2
      <3>. HIDE DEF r
      <3>2. ASSUME NEW x, P!Goto(t, yes), local' = [local EXCEPT ![t].row = x]
            PROVE  pc'[t] = yes /\ Others(t) /\ local'[t].row = x
        BY <1>0, <3>2 DEF TInv, ProcsOK, P!Goto, Others, P!Locals
      <3>. QED
        BY <3>1, <3>2
    <2>2. r \in ChannelUsers /\ UNCHANGED <<todo, cmds>>
      BY <1>2 DEF FindChannelUserByID, clientVars
    <2>3. yes \in HoldSteps /\ r \notin rewritten => validState[r] = "success"
      <3>1. cmds[local[t].cmd].to = r
        BY <2>2, ChannelUsersAssumption DEF TrackID, NilObjectID
      <3>2. pc[t] = "successFind" => local[t].cmd \in DOMAIN cmds
        BY DEF CallbackInv, CallbackOK, CreditSteps
      <3>. QED
        BY <3>1, <3>2 DEF PaidFresh
    <2>4. \A x \in ChannelUsers \ rewritten :
             Holding(t, x)' => x \in {r} /\ validState[x] = "success"
      <3>. HIDE DEF r
      <3>. QED
        BY <1>0, <2>1, <2>3 DEF Holding
    <2>5. \A q \in P!Procs \ {t} : HeldBefore(q)
      BY <1>0, <2>1, <2>2, OthersHold
    <2>6. Copy(t, {r})
      BY <1>2
    <2>. HIDE DEF r
    <2>. QED
      BY <1>0, <2>2, <2>4, <2>5, <2>6 DEF AmountEffect, Copies
  <1>. QED
    BY <1>1, <1>2 DEF FindChannelUserByID

LEMMA AfterAmounts ==
    ASSUME TInv, CallbackInv, PaidFresh, NEW t \in Threads, After(t)
    PROVE  AmountEffect
  <1>. USE DEF P!clientVars, clientVars, P!Keep, HoldSteps
  <1>0. t \in P!Procs /\ t \notin Sessions
    BY GoroutinesAssumption DEF P!Procs
  <1>1. CASE successAfterFind(t) \/ failedAfterFind(t) \/ txGeneratedAfterFind(t)
    BY <1>1, FindAmounts DEF successAfterFind, failedAfterFind, txGeneratedAfterFind, Pending
  <1>2. CASE txGeneratedAfterUpdate(t)
    BY <1>0, <1>2, MovesTo, PassStep DEF txGeneratedAfterUpdate
  <1>3. CASE (P!SuccessUpdate(t) \/ P!FailedUpdate(t)) /\ UNCHANGED ownVars
    BY <1>0, <1>3, MovesTo, PassStep DEF P!SuccessUpdate, P!FailedUpdate
  <1>4. CASE P!ExtRead(t) /\ UNCHANGED ownVars
    <2>1. /\ pc[t] = "extRead" /\ pc'[t] \in {"extWrite", "again"}
          /\ Others(t) /\ UNCHANGED <<todo, cmds>>
          /\ pc'[t] = "extWrite" => local'[t].row = local[t].row
      <3>1. PICK n : \/ local' = [local EXCEPT ![t].num = n] /\ P!Goto(t, "extWrite")
                     \/ UNCHANGED local /\ P!Goto(t, "again")
        BY <1>4 DEF P!ExtRead
      <3>. QED
        BY <1>0, <1>4, <3>1, MovesTo DEF P!ExtRead
    <2>. QED
      BY <1>0, <1>4, <2>1, PassStep
  <1>5. CASE P!Credit(t, copied[t][local[t].row]) /\ UNCHANGED ownVars
    BY <1>0, <1>5, MovesTo, PassStep DEF P!Credit
  <1>6. CASE P!Again(t) /\ UNCHANGED ownVars
    BY <1>0, <1>6, MovesTo, PassStep DEF P!Again
  <1>7. CASE airdropTxOne(t)
    <2>1. CASE UNCHANGED <<local, ownVars>> /\ P!Goto(t, "clear")
      BY <1>0, <1>7, <2>1, MovesTo, PassStep DEF airdropTxOne
    <2>2. ASSUME NEW r \in P!Oldest(Waiting), local' = [local EXCEPT ![t].row = r],
                 Copy(t, {r}), P!Goto(t, "check")
          PROVE  AmountEffect
      <3>1. r \in ChannelUsers /\ validState[r] = "success"
        BY DEF P!Oldest, Waiting
      <3>2. Others(t) /\ local'[t].row = r /\ UNCHANGED <<todo, cmds>>
        BY <1>0, <1>7, <2>2, MovesTo DEF airdropTxOne
      <3>3. \A q \in P!Procs \ {t} : HeldBefore(q)
        BY <1>0, <3>2, OthersHold
      <3>4. \A x \in ChannelUsers \ rewritten :
               Holding(t, x)' => x \in {r} /\ validState[x] = "success"
        BY <1>0, <3>1, <3>2 DEF Holding
      <3>. QED
        BY <1>0, <2>2, <3>1, <3>2, <3>3, <3>4 DEF AmountEffect, Copies
    <2>. QED
      BY <1>7, <2>1, <2>2 DEF airdropTxOne
  <1>. QED
    BY <1>1, <1>2, <1>3, <1>4, <1>5, <1>6, <1>7 DEF After

LEMMA AmountStep == TInv /\ CallbackInv /\ PaidFresh /\ [Next]_vars => AmountEffect
  <1>. SUFFICES ASSUME TInv, CallbackInv, PaidFresh, [Next]_vars PROVE AmountEffect
    OBVIOUS
  <1>1. CASE UNCHANGED vars
    BY <1>1
    DEF vars, dispatcherVars, clientVars, procVars, AmountEffect, Passes, HeldBefore, Holding
  <1>2. CASE Next
    BY <1>2, WorldAmounts, FeederAmounts, RunnerAmounts, AfterAmounts DEF Next
  <1>. QED
    BY <1>1, <1>2

\* A row that is written although it is valid stays marked, and no amount is
\* larger than a plan writes.
LEMMA AmountNext ==
    ASSUME TInv, AmountInv, Effect, AmountEffect
    PROVE  AmountInv' /\ rewritten \subseteq rewritten'
  <1>. USE DEF AmountInv
  <1>0. /\ validState \in [ChannelUsers -> UserValidState]
        /\ amount \in [ChannelUsers -> Nat]
        /\ copied \in [P!Procs -> [ChannelUsers -> Nat]]
        /\ MaxAmount \in [ChannelUsers -> Nat]
        /\ cmds \in Seq(Command)
        /\ \A c \in DOMAIN cmds : cmds[c].to \in ChannelUsers
    BY AmountAssumption DEF TInv, OwnOK, ClientOK, PaidHeld, P!Rows
  <1>1. ASSUME UNCHANGED <<validState, amount, rewritten>>, DOMAIN cmds' = DOMAIN cmds
        PROVE  /\ PaidFresh'
               /\ \A c \in DOMAIN cmds' : cmds'[c].amount <= MaxAmount[cmds'[c].to]
               /\ \A r \in ChannelUsers : amount'[r] <= MaxAmount[r]
    BY <1>1, CmdsKept DEF CmdKept, PaidFresh, AmountsBounded
  <1>2. ASSUME UNCHANGED <<validState, amount, rewritten, copied>>,
               \A p \in P!Procs : HeldBefore(p)
        PROVE  /\ CopiesFresh'
               /\ \A p \in P!Procs, r \in ChannelUsers : copied'[p][r] <= MaxAmount[r]
    BY <1>2 DEF CopiesFresh, AmountsBounded, HeldBefore
  <1>3. CASE Passes
    BY <1>1, <1>2, <1>3 DEF Passes, ownVars, planVars, AmountsBounded
  <1>4. ASSUME NEW q \in Plans, NEW r \in ChannelUsers, FindChannelUserByUID(q, r)
        PROVE  AmountInv' /\ rewritten \subseteq rewritten'
    <2>1. /\ UNCHANGED <<validState, amount, rewritten, copied, cmds>>
          /\ \A p \in P!Procs : HeldBefore(p)
      BY <1>4
      DEF FindChannelUserByUID, dispatcherVars, clientVars, procVars, HeldBefore, Holding
    <2>. QED
      BY <1>1, <1>2, <2>1 DEF AmountsBounded
  <1>5. CASE Down
    <2>1. /\ UNCHANGED <<validState, amount, rewritten>> /\ DOMAIN cmds' = DOMAIN cmds
          /\ \A p \in P!Procs, x \in ChannelUsers : copied'[p][x] = 0
      BY <1>5 DEF Down, P!Down, P!LoseUnfinished, NothingCopied
    <2>2. \A p \in P!Procs, x \in ChannelUsers : ~Holding(p, x)'
      BY <1>5 DEF Down, P!Down, Holding, HoldSteps
    <2>3. \A x \in ChannelUsers : 0 <= MaxAmount[x]
      BY <1>0
    <2>. QED
      BY <1>1, <2>1, <2>2, <2>3 DEF AmountsBounded, CopiesFresh
  <1>6. ASSUME NEW p \in P!Procs, Copies(p)
        PROVE  AmountInv' /\ rewritten \subseteq rewritten'
    <2>1. PICK R \in SUBSET ChannelUsers :
             /\ copied' = [copied EXCEPT ![p] =
                             [r \in ChannelUsers |-> IF r \in R THEN amount[r] ELSE 0]]
             /\ UNCHANGED <<validState, amount, rewritten, cmds>>
             /\ \A q \in P!Procs \ {p} : HeldBefore(q)
             /\ \A r \in ChannelUsers \ rewritten :
                   Holding(p, r)' => r \in R /\ validState[r] = "success"
      BY <1>6 DEF Copies, Copy, planVars
    <2>2. /\ \A q \in P!Procs \ {p} : copied'[q] = copied[q]
          /\ \A r \in ChannelUsers : copied'[p][r] = IF r \in R THEN amount[r] ELSE 0
      BY <1>0, <2>1
    <2>3. \A q \in P!Procs, r \in ChannelUsers : copied'[q][r] <= MaxAmount[r]
      <3>1. ASSUME NEW q \in P!Procs \ {p}, NEW r \in ChannelUsers
            PROVE  copied'[q][r] <= MaxAmount[r]
        BY <2>2 DEF AmountsBounded
      <3>2. ASSUME NEW r \in ChannelUsers PROVE copied'[p][r] <= MaxAmount[r]
        <4>1. amount[r] <= MaxAmount[r] /\ 0 <= MaxAmount[r]
          BY <1>0 DEF AmountsBounded
        <4>. QED
          BY <2>2, <4>1
      <3>. QED
        BY <3>1, <3>2
    <2>4. CopiesFresh'
      BY <2>1, <2>2 DEF CopiesFresh, HeldBefore
    <2>. QED
      BY <1>1, <2>1, <2>3, <2>4 DEF AmountsBounded
  <1>7. ASSUME NEW p \in P!Procs, Hands(p)
        PROVE  AmountInv' /\ rewritten \subseteq rewritten'
    <2>. DEFINE r == local[p].row
                a == copied[p][r]
    <2>1. /\ UNCHANGED <<validState, amount, rewritten, copied>>
          /\ Holding(p, r) /\ \A q \in P!Procs : HeldBefore(q)
          /\ cmds' = Append(cmds, [ to |-> r, amount |-> a, by |-> p, ep |-> epoch,
                                    stage |-> "queued" ])
          /\ r \in ChannelUsers
      BY <1>7, Holds DEF Hands, Submits, P!RunAsync, ownVars, planVars, RowLabels
    <2>2. a <= MaxAmount[r] /\ (r \notin rewritten => validState[r] = "success" /\ a = amount[r])
      BY <2>1 DEF AmountsBounded, CopiesFresh
    <2>. HIDE DEF a, r
    <2>3. \A c \in DOMAIN cmds' :
             \/ c \in DOMAIN cmds /\ cmds'[c] = cmds[c]
             \/ cmds'[c].to = r /\ cmds'[c].amount = a
      BY <1>0, <2>1
    <2>4. PaidFresh' /\ \A c \in DOMAIN cmds' : cmds'[c].amount <= MaxAmount[cmds'[c].to]
      BY <2>1, <2>2, <2>3 DEF PaidFresh, AmountsBounded
    <2>. QED
      BY <1>2, <2>1, <2>4 DEF AmountsBounded
  <1>8. ASSUME NEW q \in Plans, PlanEnds(q)
        PROVE  AmountInv' /\ rewritten \subseteq rewritten'
    <2>1. /\ UNCHANGED <<cmds, copied>>
          /\ \A p \in P!Procs, x \in ChannelUsers : Holding(p, x)' <=> Holding(p, x)
      BY <1>8 DEF PlanEnds, dispatcherVars, clientVars, procVars, Holding
    <2>2. CASE UNCHANGED <<validState, amount, rewritten>>
      BY <1>1, <1>2, <2>1, <2>2 DEF AmountsBounded, HeldBefore
    <2>3. ASSUME NEW r \in ChannelUsers, NEW v, NEW coin \in Nat, coin <= MaxAmount[r],
                 UpdateCreateAirdrop(r, v, coin)
          PROVE  AmountInv' /\ rewritten \subseteq rewritten'
      <3>1. /\ \A x \in ChannelUsers \ {r} :
                  validState'[x] = validState[x] /\ amount'[x] = amount[x]
            /\ amount'[r] = coin
            /\ rewritten \subseteq rewritten'
            /\ r \notin rewritten' => validState[r] # "success" /\ r \notin rewritten
        BY <1>0, <2>3 DEF UpdateCreateAirdrop
      <3>2. AmountsBounded'
        BY <2>1, <2>3, <3>1 DEF AmountsBounded
      <3>3. CopiesFresh'
        BY <2>1, <3>1 DEF CopiesFresh
      <3>4. PaidFresh'
        BY <1>0, <2>1, <3>1 DEF PaidFresh
      <3>. QED
        BY <3>1, <3>2, <3>3, <3>4
    <2>4. doChannelUser[q] \in ChannelUsers
      BY <1>8 DEF PlanEnds, TInv, OwnOK
    <2>5. \A coin \in 0..MaxAmount[doChannelUser[q]] :
             coin \in Nat /\ coin <= MaxAmount[doChannelUser[q]]
      BY <1>0, <2>4
    <2>6. 0 \in 0..MaxAmount[doChannelUser[q]]
      BY <1>0, <2>4
    <2>. QED
      BY <1>8, <2>2, <2>3, <2>4, <2>5, <2>6 DEF PlanEnds
  <1>. QED
    BY <1>3, <1>4, <1>5, <1>6, <1>7, <1>8 DEF AmountEffect, Passes, Down, ownVars, planVars

LEMMA AmountInit == Init => AmountInv
  <1>. SUFFICES ASSUME Init PROVE AmountInv
    OBVIOUS
  <1>. USE DEF Init, P!Init
  <1>1. cmds = << >>
    BY DEF P!ClientInit
  <1>2. AmountsBounded
    BY <1>1, AmountAssumption DEF AmountsBounded, NothingCopied
  <1>3. CopiesFresh
    BY DEF CopiesFresh, Holding, HoldSteps
  <1>4. PaidFresh
    BY <1>1 DEF PaidFresh
  <1>. QED
    BY <1>2, <1>3, <1>4 DEF AmountInv

-----------------------------------------------------------------------------
(* Rows are settled, and get their transaction id, by their own payment. *)

\* TxIDOfOwnPayment, where the id is one of a command.
TxInv ==
    \A r \in ChannelUsers :
        txID[r] # P!NoTx =>
            /\ txID[r] \in DOMAIN cmds
            /\ cmds[txID[r]].to = r /\ cmds[txID[r]].stage # "queued"

LEMMA SettledNext ==
    TInv /\ CallbackInv /\ SettledByOwnPayment /\ Effect => SettledByOwnPayment'
  <1>. SUFFICES ASSUME TInv, CallbackInv, SettledByOwnPayment, Effect, NEW r \in ChannelUsers
                PROVE  /\ airdropState'[r] = "success" => Payments(r, "succeeded")' # {}
                       /\ airdropState'[r] = "failed" => Payments(r, "failed")' # {}
    BY DEF SettledByOwnPayment
  <1>0. airdropState \in [ChannelUsers -> P!AirdropStatus \cup {"absent"}]
    BY DEF TInv, RowsOK
  <1>1. \A stage \in {"succeeded", "failed"} :
           Payments(r, stage) # {} => Payments(r, stage)' # {}
    BY CmdsKept DEF Payments, CmdKept
  <1>2. CASE airdropState'[r] = airdropState[r]
    BY <1>1, <1>2 DEF SettledByOwnPayment
  <1>3. ASSUME NEW t \in Threads, Settles(t)
        PROVE  \/ airdropState'[r] = airdropState[r]
               \/ airdropState'[r] = "success" /\ Payments(r, "succeeded") # {}
               \/ airdropState'[r] = "failed" /\ Payments(r, "failed") # {}
    <2>1. /\ local[t].cmd \in DOMAIN cmds /\ local[t].row = cmds[local[t].cmd].to
          /\ \/ /\ airdropState' = [airdropState EXCEPT ![local[t].row] = "success"]
                /\ cmds[local[t].cmd].stage = "succeeded"
             \/ /\ airdropState' = [airdropState EXCEPT ![local[t].row] = "failed"]
                /\ cmds[local[t].cmd].stage = "failed"
      BY <1>3
      DEF Settles, P!UpdateStatus, CallbackInv, CallbackOK, CreditSteps, FailSteps, TxSteps,
          UpdateSteps
    <2>. QED
      BY <1>0, <2>1 DEF Payments
  <1>4. ASSUME NEW p \in P!Procs, Marks(p)
        PROVE  airdropState'[r] \in {airdropState[r], "pending"}
    BY <1>0, <1>4 DEF Marks, P!UpdateStatusPending
  <1>5. CASE Registers
    BY <1>0, <1>2, <1>5 DEF Registers
  <1>6. CASE UNCHANGED airdropState
    BY <1>2, <1>6
  <1>. QED
    BY <1>1, <1>2, <1>3, <1>4, <1>5, <1>6
    DEF Effect, Rests, Dies, OfRunner, OfCallback, Walks, Submits, Starts, Takes, Reads, Credits,
        Identifies, rowVars, P!UpdateAirdropCoin, UpdateTxID

LEMMA TxNext == TInv /\ CallbackInv /\ TxInv /\ Effect => TxInv'
  <1>. SUFFICES ASSUME TInv, CallbackInv, TxInv, Effect, NEW r \in ChannelUsers,
                       txID'[r] # P!NoTx
                PROVE  /\ txID'[r] \in DOMAIN cmds'
                       /\ cmds'[txID'[r]].to = r /\ cmds'[txID'[r]].stage # "queued"
    BY DEF TxInv, P!NoTx
  <1>0. txID \in [ChannelUsers -> Nat]
    BY DEF TInv, RowsOK
  <1>1. CASE txID'[r] = txID[r]
    BY <1>1, CmdsKept DEF TxInv, CmdKept
  <1>2. ASSUME NEW t \in Threads, Identifies(t)
        PROVE  \/ txID'[r] = txID[r]
               \/ /\ txID'[r] = local[t].cmd
                  /\ local[t].cmd \in DOMAIN cmds
                  /\ cmds[local[t].cmd].to = r
                  /\ cmds[local[t].cmd].stage # "queued"
                  /\ UNCHANGED cmds
    <2>1. /\ txID' = [txID EXCEPT ![local[t].row] = local[t].cmd]
          /\ local[t].cmd \in DOMAIN cmds /\ local[t].row = cmds[local[t].cmd].to
          /\ cmds[local[t].cmd].stage # "queued" /\ UNCHANGED cmds
      BY <1>2 DEF Identifies, UpdateTxID, CallbackInv, CallbackOK, TxSteps, UpdateSteps
    <2>. QED
      BY <1>0, <2>1
  <1>3. CASE UNCHANGED txID
    BY <1>1, <1>3
  <1>. QED
    BY <1>1, <1>2, <1>3
    DEF Effect, Rests, Registers, Dies, OfRunner, OfCallback, Walks, Submits, Marks, Starts, Takes,
        Settles, Reads, Credits, rowVars, P!UpdateAirdropCoin, P!UpdateStatus,
        P!UpdateStatusPending

LEMMA OutcomeInit == Init => CallbackInv /\ SettledByOwnPayment /\ TxInv
  <1>. SUFFICES ASSUME Init PROVE CallbackInv /\ SettledByOwnPayment /\ TxInv
    OBVIOUS
  <1>. USE DEF Init, P!Init
  <1>1. \A t \in Threads : pc[t] = "idle" /\ local[t].cmd = 0
    BY DEF P!Procs, P!NoLocals
  <1>2. CallbackInv
    BY <1>1
    DEF CallbackInv, OneCallback, CallbackOK, CreditSteps, FailSteps, TxSteps, UpdateSteps
  <1>3. SettledByOwnPayment /\ TxInv
    BY DEF SettledByOwnPayment, TxInv, P!CollectionInit
  <1>. QED
    BY <1>2, <1>3

OInv == TInv /\ CallbackInv /\ SettledByOwnPayment /\ TxInv /\ AmountInv

LEMMA OInvInit == Init => OInv
  BY TInvInit, OutcomeInit, AmountInit DEF OInv

LEMMA OInvNext == OInv /\ [Next]_vars => OInv'
  BY TInvNext, StepEffect, CallbackNext, SettledNext, TxNext, AmountStep, AmountNext
  DEF OInv, AmountInv

LEMMA OutcomesHold == Spec => []OInv
  BY OInvInit, OInvNext, PTL DEF Spec

\* A row is success or failed only as a payment of this very row was answered, in
\* whatever order callbacks, crashes and failing calls come.
THEOREM ChannelRowsSettled == Spec => []SettledByOwnPayment
  <1>1. OInv => SettledByOwnPayment
    BY DEF OInv
  <1>. QED
    BY <1>1, OutcomesHold, PTL

\* The tx_id of a row is the one of a payment of this row.
THEOREM ChannelTxIDs == Spec => []TxIDOfOwnPayment
  <1>1. OInv => TxIDOfOwnPayment
    BY DEF OInv, TxInv, TxIDOfOwnPayment
  <1>. QED
    BY <1>1, OutcomesHold, PTL

-----------------------------------------------------------------------------
(* What was credited is covered by the commands whose callback has left      *)
(* successAfter.  A callback that credits adds its own command to them.      *)

CallbackAt(c) == \E t \in Threads : local[t].cmd = c /\ pc[t] \in CreditSteps

Past(u) == {c \in Succeeded(u) : ~CallbackAt(c)}

CreditsPast ==
    \A u \in P!Users : channelAirdropCoin[u] <= Cardinality(Units(Past(u)))

SumsPast ==
    \A t \in Threads, u \in P!Users :
        pc[t] = "extWrite" /\ ChannelUID[local[t].row] = u =>
            local[t].num <= Cardinality(Units(Past(u)))

CreditInv == CreditsPast /\ SumsPast

\* Every command is worth a number of units.
WorthIsNat ==
    TInv => \A c \in DOMAIN cmds :
               Worth(c) \in Nat /\ cmds[c].to \in ChannelUsers /\ cmds[c].amount \in Nat

LEMMA WorthNat == WorthIsNat
  <1>1. TInv => \A c \in DOMAIN cmds : cmds[c] \in Command
    BY DEF TInv, ClientOK
  <1>. QED
    BY <1>1, AmountAssumption DEF Worth, Command, WorthIsNat

LEMMA WorthNatNext == WorthIsNat'
  BY WorthNat, PTL

\* What sets of commands are worth.
LEMMA UnitsOf ==
    ASSUME TInv, NEW C \in SUBSET DOMAIN cmds
    PROVE  /\ IsFiniteSet(Units(C)) /\ Cardinality(Units(C)) \in Nat
           /\ \A d \in DOMAIN cmds \ C :
                 Cardinality(Units(C \cup {d})) = Cardinality(Units(C)) + Worth(d)
  <1>. DEFINE n == [c \in C |-> Worth(c)]
              U == UNION {{c} \X (1..n[c]) : c \in C}
  <1>0. cmds \in Seq(Command)
    BY DEF TInv, ClientOK
  <1>1. \A c \in DOMAIN cmds : Worth(c) \in Nat
    BY WorthNat DEF WorthIsNat
  <1>2. IsFiniteSet(C)
    <2>1. DOMAIN cmds = 1..Len(cmds) /\ Len(cmds) \in Nat
      BY <1>0
    <2>2. IsFiniteSet(DOMAIN cmds)
      BY <2>1, FS_Interval
    <2>. HIDE DEF n, U
    <2>. QED
      BY <2>2, FS_Subset
  <1>3. n \in [C -> Nat]
    BY <1>1
  <1>4. Units(C) = U
    BY DEF Units
  <1>5. \A d \in DOMAIN cmds : Units(C \cup {d}) = U \cup ({d} \X (1..Worth(d)))
    BY DEF Units
  <1>6. /\ IsFiniteSet(U) /\ Cardinality(U) \in Nat
        /\ \A d, k : d \notin C /\ k \in Nat
              => Cardinality(U \cup ({d} \X (1..k))) = Cardinality(U) + k
    <2>. HIDE DEF n
    <2>. QED
      BY <1>2, <1>3, SumOfUnits
  <1>. HIDE DEF U
  <1>. QED
    BY <1>1, <1>4, <1>5, <1>6

UnitsFinite ==
    TInv => \A C \in SUBSET DOMAIN cmds :
               IsFiniteSet(Units(C)) /\ Cardinality(Units(C)) \in Nat

LEMMA AllUnitsFinite == UnitsFinite
  BY UnitsOf DEF UnitsFinite

LEMMA AllUnitsFiniteNext == UnitsFinite'
  BY AllUnitsFinite, PTL

\* No command is ever worth less.
LEMMA WorthGrows ==
    ASSUME TInv, AmountInv, Effect, TInv', rewritten \subseteq rewritten',
           NEW c \in DOMAIN cmds
    PROVE  1..Worth(c) \subseteq 1..Worth(c)'
  <1>1. /\ c \in DOMAIN cmds'
        /\ cmds'[c].to = cmds[c].to /\ cmds'[c].amount = cmds[c].amount
    BY CmdsKept DEF CmdKept
  <1>2. cmds[c].amount <= MaxAmount[cmds[c].to]
    BY DEF AmountInv, AmountsBounded
  <1>3. Worth(c) \in Nat /\ Worth(c)' \in Nat /\ cmds[c].amount \in Nat
        /\ MaxAmount[cmds[c].to] \in Nat
    BY <1>1, WorthNat, WorthNatNext, AmountAssumption DEF WorthIsNat
  <1>4. Worth(c) <= Worth(c)'
    BY <1>1, <1>2, <1>3 DEF Worth
  <1>. QED
    BY <1>3, <1>4

\* A command that is past its callback stays so, and its units stay paid.
LEMMA PastGrows ==
    ASSUME TInv, CallbackInv, AmountInv, Effect, TInv', rewritten \subseteq rewritten', NEW u
    PROVE  /\ Past(u) \subseteq Past(u)'
           /\ Cardinality(Units(Past(u))) \in Nat /\ Cardinality(Units(Past(u))') \in Nat
           /\ Cardinality(Units(Past(u))) <= Cardinality(Units(Past(u))')
  <1>0. Threads \subseteq P!Procs
    BY DEF P!Procs
  <1>1. \A c : c \in Past(u) <=>
             /\ c \in DOMAIN cmds /\ cmds[c].to \in P!RowsOf(u) /\ cmds[c].stage = "succeeded"
             /\ ~CallbackAt(c)
    BY DEF Past, Succeeded, Payments
  <1>2. \A c : c \in Past(u)' <=>
             /\ c \in DOMAIN cmds' /\ cmds'[c].to \in P!RowsOf(u) /\ cmds'[c].stage = "succeeded"
             /\ ~CallbackAt(c)'
    BY DEF Past, Succeeded, Payments, P!RowsOf
  <1>3. ASSUME NEW c \in DOMAIN cmds, cmds[c].stage = "succeeded", ~CallbackAt(c),
               NEW t \in Threads, local'[t].cmd = c, pc'[t] \in CreditSteps
        PROVE  FALSE
    <2>1. ~(local[t].cmd = c /\ pc[t] \in CreditSteps)
      BY <1>3 DEF CallbackAt
    <2>2. ~Rests /\ ~Registers
      BY <1>3, <2>1 DEF Rests, Registers
    <2>3. ~Dies
      BY <1>0, <1>3 DEF Dies, Tracked
    <2>4. ASSUME NEW p \in P!Procs, Others(p) PROVE t = p
      BY <1>0, <1>3, <2>1, <2>4 DEF Others
    <2>5. ~OfRunner
      BY <1>3, <2>4 DEF OfRunner, Walks, Submits, Marks, Leaves, Tracked, RunSteps, CreditSteps
    <2>6. ASSUME NEW v \in Threads, Starts(v) PROVE FALSE
      BY <1>0, <1>3, <2>4, <2>6 DEF Starts, Unfinished
    <2>7. ASSUME NEW v \in Threads, Takes(v) \/ Settles(v) \/ Reads(v) \/ Credits(v) \/ Identifies(v)
          PROVE  FALSE
      <3>1. t = v
        BY <1>0, <2>4, <2>7 DEF Takes, Settles, Reads, Credits, Identifies, Leaves
      <3>. QED
        BY <1>3, <2>1, <2>7, <3>1
        DEF Takes, Settles, Reads, Credits, Identifies, Leaves, Tracked, CreditSteps
    <2>. QED
      BY <2>2, <2>3, <2>5, <2>6, <2>7 DEF Effect, OfCallback
  <1>4. \A c \in Past(u) : c \in Past(u)'
    <2>1. SUFFICES ASSUME NEW c \in Past(u) PROVE c \in Past(u)'
      OBVIOUS
    <2>2. CmdKept(c)
      BY <1>1, CmdsKept
    <2>3. ~CallbackAt(c)'
      BY <1>1, <1>3 DEF CallbackAt
    <2>. QED
      BY <1>1, <1>2, <2>2, <2>3 DEF CmdKept
  <1>5. Units(Past(u)) \subseteq Units(Past(u))'
    <2>1. \A c \in Past(u) : 1..Worth(c) \subseteq 1..Worth(c)'
      BY <1>1, WorthGrows
    <2>. QED
      BY <1>4, <2>1 DEF Units
  <1>6. IsFiniteSet(Units(Past(u))) /\ Cardinality(Units(Past(u))) \in Nat
    BY <1>1, UnitsOf
  <1>7. IsFiniteSet(Units(Past(u))') /\ Cardinality(Units(Past(u))') \in Nat
    BY <1>2, AllUnitsFiniteNext DEF UnitsFinite
  <1>. QED
    BY <1>4, <1>5, <1>6, <1>7, FS_Subset

\* The callback that writes the balance adds the units of its own command.
LEMMA PastAdds ==
    ASSUME TInv, CallbackInv, AmountInv, Effect, TInv', rewritten \subseteq rewritten',
           NEW t \in Threads, Credits(t), NEW u, ChannelUID[local[t].row] = u
    PROVE  Cardinality(Units(Past(u))) + copied[t][local[t].row]
               <= Cardinality(Units(Past(u))')
  <1>. PICK c : c = local[t].cmd
    OBVIOUS
  <1>0. t \in P!Procs /\ cmds \in Seq(Command)
    BY DEF P!Procs, TInv, ClientOK
  <1>1. /\ pc[t] = "extWrite" /\ pc'[t] \notin CreditSteps /\ local'[t].cmd = c
        /\ Others(t) /\ UNCHANGED cmds
    BY DEF Credits, Leaves, Tracked
  <1>2. /\ c \in DOMAIN cmds /\ cmds[c].stage = "succeeded" /\ local[t].row = cmds[c].to
    BY <1>1 DEF CallbackInv, CallbackOK, CreditSteps, UpdateSteps
  <1>3. c # 0 /\ cmds[c].to \in ChannelUsers
    <2>1. DOMAIN cmds = 1..Len(cmds) /\ cmds[c] \in Command
      BY <1>0, <1>2
    <2>. QED
      BY <1>2, <2>1 DEF Command
  <1>4. c \notin Past(u)
    BY <1>1 DEF Past, CallbackAt, CreditSteps
  <1>5. c \in Past(u)'
    <2>1. c \in Succeeded(u)'
      BY <1>1, <1>2, <1>3 DEF Succeeded, Payments, P!RowsOf
    <2>2. ASSUME NEW v \in Threads, local'[v].cmd = c PROVE v = t
      <3>1. local[v].cmd = c
        BY <1>1, <2>2 DEF Others, P!Procs
      <3>. QED
        BY <1>3, <3>1 DEF CallbackInv, OneCallback
    <2>. QED
      BY <1>1, <2>1, <2>2 DEF Past, CallbackAt
  <1>6. Past(u) \subseteq DOMAIN cmds /\ Past(u)' \subseteq DOMAIN cmds'
    BY DEF Past, Succeeded, Payments
  <1>7. Cardinality(Units(Past(u) \cup {c})) = Cardinality(Units(Past(u))) + Worth(c)
    BY <1>2, <1>4, <1>6, UnitsOf
  <1>8. Units(Past(u) \cup {c}) \subseteq Units(Past(u))'
    <2>1. Past(u) \cup {c} \subseteq Past(u)'
      BY <1>5, PastGrows
    <2>2. \A d \in Past(u) \cup {c} : 1..Worth(d) \subseteq 1..Worth(d)'
      BY <1>2, <1>6, WorthGrows
    <2>. QED
      BY <2>1, <2>2 DEF Units
  <1>9. IsFiniteSet(Units(Past(u))')
    BY <1>6, AllUnitsFiniteNext DEF UnitsFinite
  <1>10. Cardinality(Units(Past(u) \cup {c})) <= Cardinality(Units(Past(u))')
    BY <1>8, <1>9, FS_Subset
  <1>11. copied[t][local[t].row] \in Nat /\ copied[t][local[t].row] <= Worth(c)
    <2>1. copied[t][cmds[c].to] \in Nat /\ copied[t][cmds[c].to] <= MaxAmount[cmds[c].to]
      BY <1>0, <1>3 DEF TInv, OwnOK, AmountInv, AmountsBounded
    <2>2. cmds[c].to \notin rewritten => copied[t][cmds[c].to] = cmds[c].amount
      BY <1>0, <1>1, <1>2, <1>3
      DEF AmountInv, CopiesFresh, PaidFresh, Holding, HoldSteps
    <2>3. cmds[c].amount \in Nat
      BY <1>2, WorthNat DEF WorthIsNat
    <2>. QED
      BY <1>2, <2>1, <2>2, <2>3 DEF Worth
  <1>12. Worth(c) \in Nat /\ Cardinality(Units(Past(u))) \in Nat
         /\ Cardinality(Units(Past(u))') \in Nat
    BY <1>2, WorthNat, PastGrows DEF WorthIsNat
  <1>. QED
    BY <1>7, <1>10, <1>11, <1>12

LEMMA CreditNext ==
    ASSUME TInv, CallbackInv, AmountInv, CreditInv, Effect, TInv', rewritten \subseteq rewritten'
    PROVE  CreditInv'
  <1>. DEFINE M(u) == Cardinality(Units(Past(u)))
              Mn(u) == Cardinality(Units(Past(u))')
  <1>0. /\ \A u : M(u) \in Nat /\ Mn(u) \in Nat /\ M(u) <= Mn(u)
        /\ Threads \subseteq P!Procs
        /\ channelAirdropCoin \in [P!Users -> Nat]
    BY PastGrows DEF P!Procs, TInv, RowsOK
  <1>3. /\ \A u \in P!Users : channelAirdropCoin[u] <= M(u)
        /\ \A t \in Threads, u \in P!Users :
              pc[t] = "extWrite" /\ ChannelUID[local[t].row] = u =>
                  local[t].num \in Nat /\ local[t].num <= M(u)
    BY <1>0 DEF CreditInv, CreditsPast, SumsPast, TInv, ProcHeld
  <1>4. \A u : \A t \in Threads :
           Credits(t) /\ ChannelUID[local[t].row] = u
               => M(u) + copied[t][local[t].row] <= Mn(u)
    BY PastAdds
  <1>. HIDE DEF M, Mn
  <1>1. \A u \in P!Users : channelAirdropCoin'[u] <= Mn(u)
    <2>1. CASE UNCHANGED channelAirdropCoin
      BY <1>0, <1>3, <2>1
    <2>2. ASSUME NEW t \in Threads, Credits(t), NEW u \in P!Users
          PROVE  channelAirdropCoin'[u] <= Mn(u)
      <3>. PICK w : w = ChannelUID[local[t].row]
        OBVIOUS
      <3>1. /\ channelAirdropCoin' =
                 [channelAirdropCoin EXCEPT ![w] = local[t].num + copied[t][local[t].row]]
            /\ pc[t] = "extWrite"
        BY <2>2 DEF Credits, P!UpdateAirdropCoin
      <3>2. copied[t][local[t].row] \in Nat
        BY <1>0, <3>1, Holds DEF RowLabels, TInv, OwnOK
      <3>3. w \in P!Users
        BY <1>0, <3>1, Holds DEF RowLabels, P!Users
      <3>6. local[t].num \in Nat /\ local[t].num <= M(w)
        BY <1>3, <3>1, <3>3
      <3>4. CASE u = w
        <4>1. channelAirdropCoin'[u] = local[t].num + copied[t][local[t].row]
          BY <1>0, <3>1, <3>4
        <4>2. M(w) + copied[t][local[t].row] <= Mn(w)
          BY <1>4, <2>2
        <4>. QED
          BY <1>0, <3>2, <3>4, <3>6, <4>1, <4>2
      <3>5. CASE u # w
        BY <1>0, <1>3, <3>1, <3>5
      <3>. QED
        BY <3>4, <3>5
    <2>. QED
      BY <2>1, <2>2
      DEF Effect, Rests, Registers, Dies, OfRunner, OfCallback, Walks, Submits, Marks, Starts,
          Takes, Settles, Reads, Identifies, rowVars, P!UpdateStatus, P!UpdateStatusPending,
          UpdateTxID
  <1>2. ASSUME NEW t \in Threads, pc'[t] = "extWrite",
               NEW u \in P!Users, ChannelUID[local'[t].row] = u
        PROVE  local'[t].num <= Mn(u)
    <2>1. CASE pc[t] = "extWrite" /\ local'[t] = local[t]
      BY <1>0, <1>2, <1>3, <2>1
    <2>2. CASE Reads(t)
      <3>1. /\ local'[t].num = channelAirdropCoin[ChannelUID[local[t].row]]
            /\ local'[t].row = local[t].row /\ pc[t] = "extRead"
        BY <2>2 DEF Reads
      <3>. QED
        BY <1>0, <1>2, <1>3, <3>1
    <2>3. ASSUME ~(pc[t] = "extWrite" /\ local'[t] = local[t]) PROVE Reads(t)
      <3>1. ~Rests /\ ~Registers /\ ~Dies
        BY <1>0, <1>2, <2>3 DEF Rests, Registers, Dies, Tracked, CreditSteps
      <3>2. ASSUME NEW p \in P!Procs, Others(p) PROVE t = p
        BY <1>0, <1>2, <2>3, <3>2 DEF Others
      <3>3. ~OfRunner
        BY <1>2, <3>2
        DEF OfRunner, Walks, Submits, Marks, Leaves, Tracked, RunSteps, CreditSteps
      <3>4. ASSUME NEW v \in Threads,
                   Starts(v) \/ Takes(v) \/ Settles(v) \/ Credits(v) \/ Identifies(v)
            PROVE  FALSE
        <4>1. t = v
          BY <1>0, <3>2, <3>4 DEF Starts, Takes, Settles, Credits, Identifies, Leaves
        <4>. QED
          BY <1>2, <3>4, <4>1
          DEF Starts, Takes, Settles, Credits, Identifies, Leaves, Tracked, CreditSteps
      <3>5. ASSUME NEW v \in Threads, Reads(v) PROVE t = v
        BY <1>0, <3>2, <3>5 DEF Reads
      <3>. QED
        BY <3>1, <3>3, <3>4, <3>5 DEF Effect, OfCallback
    <2>. QED
      BY <2>1, <2>2, <2>3
  <1>. QED
    BY <1>1, <1>2 DEF CreditInv, CreditsPast, SumsPast, Mn, P!Users

LEMMA CreditInit == Init => CreditInv
  <1>. SUFFICES ASSUME Init PROVE CreditInv
    OBVIOUS
  <1>1. TInv
    BY TInvInit
  <1>2. \A u : Cardinality(Units(Past(u))) \in Nat
    BY <1>1, UnitsOf DEF Past, Succeeded, Payments
  <1>3. \A u \in P!Users : channelAirdropCoin[u] = 0
    BY DEF Init, P!Init, P!CollectionInit
  <1>4. \A t \in Threads : pc[t] = "idle"
    BY DEF Init, P!Init, P!Procs
  <1>. QED
    BY <1>2, <1>3, <1>4 DEF CreditInv, CreditsPast, SumsPast

LEMMA CreditsHold == Spec => [](OInv /\ CreditInv)
  <1>1. Init => OInv /\ CreditInv
    BY OInvInit, CreditInit
  <1>2. OInv /\ CreditInv /\ [Next]_vars => (OInv /\ CreditInv)'
    BY OInvNext, StepEffect, CreditNext, AmountStep, AmountNext DEF OInv, AmountInv
  <1>. QED
    BY <1>1, <1>2, PTL DEF Spec

\* Nobody is credited more than the payments of the own rows that succeeded, though
\* the amount that is paid and the one that is credited are read at different times
\* and plans write it in between; a row that was rewritten while it was valid counts
\* for the largest amount a plan writes.
THEOREM ChannelCredits == Spec => []CreditExact
  <1>1. OInv /\ CreditInv => CreditExact
    <2>. SUFFICES ASSUME OInv, CreditInv, NEW u \in P!Users
                  PROVE  channelAirdropCoin[u] <= Cardinality(Units(Succeeded(u)))
      BY DEF CreditExact
    <2>1. Succeeded(u) \in SUBSET DOMAIN cmds /\ Past(u) \in SUBSET Succeeded(u)
      BY DEF Past, Succeeded, Payments
    <2>2. Units(Past(u)) \subseteq Units(Succeeded(u))
      BY <2>1 DEF Units
    <2>3. /\ IsFiniteSet(Units(Succeeded(u)))
          /\ Cardinality(Units(Succeeded(u))) \in Nat /\ Cardinality(Units(Past(u))) \in Nat
      BY <2>1, UnitsOf DEF OInv
    <2>4. Cardinality(Units(Past(u))) <= Cardinality(Units(Succeeded(u)))
      BY <2>2, <2>3, FS_Subset
    <2>5. channelAirdropCoin[u] \in Nat /\ channelAirdropCoin[u] <= Cardinality(Units(Past(u)))
      BY DEF OInv, TInv, RowsOK, CreditInv, CreditsPast
    <2>. QED
      BY <2>3, <2>4, <2>5
  <1>. QED
    BY <1>1, CreditsHold, PTL

\* Every payment paid what the document of its row says, unless a plan rewrote the
\* row while it was valid.
THEOREM ChannelPaidAsRecorded == Spec => []PaidAsRecorded
  <1>1. OInv => PaidAsRecorded
    BY DEF OInv, AmountInv, PaidFresh, PaidAsRecorded
  <1>. QED
    BY <1>1, OutcomesHold, PTL

\* Plans that do not look up one user together never write a row that is valid.
ApartInv ==
    /\ rewritten = {}
    /\ \A q \in Plans :
          doChannelUser[q] # P!NoRow => validState[doChannelUser[q]] # "success"

LEMMA ApartNext ==
    ASSUME TInv, PlansApart, ApartInv, AmountEffect
    PROVE  ApartInv'
  <1>. USE DEF ApartInv
  <1>0. doChannelUser \in [Plans -> ChannelUsers \cup {P!NoRow}]
        /\ validState \in [ChannelUsers -> UserValidState]
    BY DEF TInv, OwnOK
  <1>1. CASE UNCHANGED planVars
    BY <1>1 DEF planVars
  <1>2. ASSUME NEW q \in Plans, NEW r \in ChannelUsers, FindChannelUserByUID(q, r)
        PROVE  ApartInv'
    BY <1>0, <1>2 DEF FindChannelUserByUID
  <1>3. CASE Down
    BY <1>3 DEF Down
  <1>4. ASSUME NEW q \in Plans, PlanEnds(q) PROVE ApartInv'
    <2>. PICK r : r = doChannelUser[q]
      OBVIOUS
    <2>1. /\ r # P!NoRow /\ r \in ChannelUsers /\ validState[r] # "success"
          /\ doChannelUser' = [doChannelUser EXCEPT ![q] = P!NoRow]
          /\ \/ \E valid, coin : UpdateCreateAirdrop(r, valid, coin)
             \/ UNCHANGED <<validState, amount, rewritten>>
      BY <1>0, <1>4 DEF PlanEnds
    <2>2. rewritten' = {}
      BY <2>1 DEF UpdateCreateAirdrop
    <2>3. \A x \in ChannelUsers \ {r} : validState'[x] = validState[x]
      BY <1>0, <2>1 DEF UpdateCreateAirdrop
    <2>4. ASSUME NEW q2 \in Plans, doChannelUser'[q2] # P!NoRow
          PROVE  validState'[doChannelUser'[q2]] # "success"
      <3>1. q2 # q /\ doChannelUser'[q2] = doChannelUser[q2]
        BY <1>0, <2>1, <2>4
      <3>2. doChannelUser[q2] # r /\ doChannelUser[q2] \in ChannelUsers
        BY <1>0, <2>1, <2>4, <3>1 DEF PlansApart
      <3>. QED
        BY <2>3, <2>4, <3>1, <3>2
    <2>. QED
      BY <2>2, <2>4
  <1>. QED
    BY <1>1, <1>2, <1>3, <1>4 DEF AmountEffect, Copies, Copy, Hands, Passes, ownVars, planVars

LEMMA ApartHolds == Spec /\ []PlansApart => []ApartInv
  <1>1. Init => ApartInv
    BY DEF Init, ApartInv
  <1>2. OInv /\ PlansApart /\ ApartInv /\ [Next]_vars => ApartInv'
    BY AmountStep, ApartNext DEF OInv, AmountInv
  <1>. QED
    BY <1>1, <1>2, OutcomesHold, PTL DEF Spec

\* As long as the plans do not look up one user together, nobody is credited more
\* than what the payments of the own rows that succeeded really paid.
THEOREM ChannelCreditsPaid == Spec /\ []PlansApart => []PaidExact
  <1>1. CreditExact /\ ApartInv => PaidExact
    <2>1. ApartInv => \A C : Units(C) = PaidUnits(C)
      BY DEF ApartInv, Units, PaidUnits, Worth
    <2>. QED
      BY <2>1 DEF CreditExact, PaidExact
  <1>. QED
    BY <1>1, ChannelCredits, ApartHolds, PTL

-----------------------------------------------------------------------------
(* A row that is submitted once is settled once.                             *)

To(r) == {c \in DOMAIN cmds : cmds[c].to = r}

\* At most one command pays r.
Once(r) == \A c, d \in To(r) : c = d

RunsOn(p, r) == pc[p] \in RunSteps /\ local[p].row = r

SettlesRow(t, r) == pc[t] \in {"successUpd", "failedUpd"} /\ local[t].row = r

\* Before its command a row is as it was inserted; while the command waits for
\* pendingAfter the row is still default, so that only the one goroutine that
\* submitted it writes over the state; and a callback that settles it has it pending.
OnceOK(r) ==
    /\ To(r) = {} => airdropState[r] \in {"absent", "default"}
    /\ \A p \in P!Procs : RunsOn(p, r) => To(r) # {}
    /\ Once(r) =>
         /\ \A p \in P!Procs : RunsOn(p, r) => airdropState[r] \in {"absent", "default"}
         /\ \A p, q \in P!Procs : RunsOn(p, r) /\ RunsOn(q, r) => p = q
         /\ \A t \in Threads : SettlesRow(t, r) => airdropState[r] = "pending"

OnceInv == \A r \in ChannelUsers : OnceOK(r)

\* Only a submission of r adds to the commands that pay r.
SubmitsRow(p, r) == Submits(p) /\ local[p].row = r

LEMMA ToNext ==
    ASSUME TInv, Effect, NEW r \in ChannelUsers
    PROVE  /\ (\A p \in P!Procs : ~SubmitsRow(p, r)) => To(r)' = To(r)
           /\ \A p \in P!Procs :
                 SubmitsRow(p, r) => /\ To(r) \subseteq To(r)' /\ To(r)' # {}
                                     /\ To(r) = {} <=> Once(r)'
  <1>0. cmds \in Seq(Command)
    BY DEF TInv, ClientOK
  <1>1. ASSUME DOMAIN cmds' = DOMAIN cmds PROVE To(r)' = To(r)
    BY <1>1, CmdsKept DEF CmdKept, To
  <1>2. ASSUME NEW p \in P!Procs, Submits(p)
        PROVE  /\ ~SubmitsRow(p, r) => To(r)' = To(r)
               /\ SubmitsRow(p, r) => /\ To(r) \subseteq To(r)' /\ To(r)' # {}
                                      /\ To(r) = {} <=> Once(r)'
    <2>1. cmds' = Append(cmds, [ to |-> local[p].row, amount |-> copied[p][local[p].row], by |-> p,
                               ep |-> epoch, stage |-> "queued" ])
      BY <1>2 DEF Submits, P!RunAsync
    <2>2. /\ DOMAIN cmds' = DOMAIN cmds \cup {Len(cmds) + 1}
          /\ \A c \in DOMAIN cmds : cmds'[c] = cmds[c]
          /\ cmds'[Len(cmds) + 1].to = local[p].row
      BY <1>0, <2>1
    <2>3. CASE local[p].row = r
      <3>1. To(r)' = To(r) \cup {Len(cmds) + 1} /\ Len(cmds) + 1 \notin To(r)
        BY <1>0, <2>2, <2>3 DEF To
      <3>. QED
        BY <1>2, <2>3, <3>1 DEF Once, SubmitsRow
    <2>4. CASE local[p].row # r
      BY <2>2, <2>4 DEF To, SubmitsRow
    <2>. QED
      BY <2>3, <2>4
  <1>3. ASSUME NEW t \in Threads, Starts(t) PROVE DOMAIN cmds' = DOMAIN cmds
    BY <1>0, <1>3 DEF Starts
  <1>4. Dies => DOMAIN cmds' = DOMAIN cmds
    BY <1>0 DEF Dies, P!LoseUnfinished
  <1>5. DOMAIN cmds' = DOMAIN cmds \/ \E p \in P!Procs : Submits(p)
    BY <1>3, <1>4
    DEF Effect, Rests, Registers, OfRunner, OfCallback, Walks, Marks, Takes, Settles, Reads,
        Credits, Identifies
  <1>. QED
    BY <1>1, <1>2, <1>5 DEF SubmitsRow

\* A step that neither submits r nor writes its state, and starts no update of r
\* that was not under way or is of a pending row.
LEMMA OnceStays ==
    ASSUME NEW r \in ChannelUsers, OnceOK(r), To(r)' = To(r),
           airdropState'[r] = airdropState[r],
           \A p \in P!Procs : RunsOn(p, r)' => RunsOn(p, r),
           \A t \in Threads : SettlesRow(t, r)' => SettlesRow(t, r) \/ airdropState[r] = "pending"
    PROVE  OnceOK(r)'
  <1>1. Once(r)' => Once(r)
    BY DEF Once
  <1>2. To(r)' = {} => airdropState'[r] \in {"absent", "default"}
    BY DEF OnceOK
  <1>3. \A p \in P!Procs : RunsOn(p, r)' => To(r)' # {}
    BY DEF OnceOK
  <1>4. ASSUME Once(r)' PROVE \A p \in P!Procs : RunsOn(p, r)' => airdropState'[r] \in {"absent", "default"}
    BY <1>1, <1>4 DEF OnceOK
  <1>5. ASSUME Once(r)' PROVE \A p, q \in P!Procs : RunsOn(p, r)' /\ RunsOn(q, r)' => p = q
    BY <1>1, <1>5 DEF OnceOK
  <1>6. ASSUME Once(r)' PROVE \A t \in Threads : SettlesRow(t, r)' => airdropState'[r] = "pending"
    BY <1>1, <1>6 DEF OnceOK
  <1>. QED
    BY <1>2, <1>3, <1>4, <1>5, <1>6 DEF OnceOK

LEMMA OnceNext == TInv /\ CallbackInv /\ OnceInv /\ Effect => OnceInv'
  <1>. SUFFICES ASSUME TInv, CallbackInv, OnceInv, Effect, NEW r \in ChannelUsers
                PROVE  OnceOK(r)'
    BY DEF OnceInv
  <1>0. /\ OnceOK(r) /\ Threads \subseteq P!Procs
        /\ airdropState \in [ChannelUsers -> P!AirdropStatus \cup {"absent"}]
    BY DEF OnceInv, TInv, RowsOK, P!Procs
  <1>1. ASSUME NEW p \in P!Procs, Others(p), airdropState'[r] = airdropState[r],
               To(r)' = To(r), RunsOn(p, r)' => RunsOn(p, r),
               SettlesRow(p, r)' => airdropState[r] = "pending"
        PROVE  OnceOK(r)'
    <2>1. ASSUME NEW q \in P!Procs PROVE RunsOn(q, r)' => RunsOn(q, r)
      BY <1>1 DEF Others, RunsOn
    <2>2. ASSUME NEW t \in Threads
          PROVE  SettlesRow(t, r)' => SettlesRow(t, r) \/ airdropState[r] = "pending"
      BY <1>0, <1>1 DEF Others, SettlesRow
    <2>. QED
      BY <1>0, <1>1, <2>1, <2>2, OnceStays
  <1>2. ASSUME To(r)' = To(r), Rests \/ Registers PROVE OnceOK(r)'
    <2>1. CASE airdropState'[r] = airdropState[r]
      BY <1>0, <1>2, <2>1, OnceStays DEF Rests, Registers, RunsOn, SettlesRow
    <2>2. CASE airdropState[r] = "absent" /\ airdropState'[r] = "default" /\ UNCHANGED <<pc, local>>
      BY <1>0, <1>2, <2>2 DEF OnceOK, Once, RunsOn, SettlesRow
    <2>. QED
      BY <1>0, <1>2, <2>1, <2>2 DEF Rests, Registers, rowVars
  <1>3. ASSUME To(r)' = To(r), Dies PROVE OnceOK(r)'
    BY <1>0, <1>3, OnceStays
    DEF Dies, Tracked, RunSteps, CreditSteps, FailSteps, RunsOn, SettlesRow, rowVars
  <1>4. ASSUME To(r)' = To(r), NEW p \in P!Procs, Walks(p) PROVE OnceOK(r)'
    BY <1>1, <1>4
    DEF Walks, Leaves, Tracked, RunSteps, CreditSteps, FailSteps, RunsOn, SettlesRow, rowVars
  <1>5. ASSUME To(r)' = To(r), NEW t \in Threads, Starts(t) PROVE OnceOK(r)'
    <2>1. /\ Others(t) /\ UNCHANGED rowVars
          /\ pc'[t] \in {"txFind", "successFind", "failedFind"}
      BY <1>5 DEF Starts
    <2>. QED
      BY <1>0, <1>1, <1>5, <2>1 DEF RunSteps, RunsOn, SettlesRow, rowVars
  <1>6. ASSUME To(r)' = To(r), NEW t \in Threads, Takes(t) PROVE OnceOK(r)'
    BY <1>0, <1>1, <1>6 DEF Takes, Pending, RunSteps, RunsOn, SettlesRow, rowVars
  <1>7. ASSUME To(r)' = To(r), NEW t \in Threads, Reads(t) \/ Credits(t) \/ Identifies(t)
        PROVE  OnceOK(r)'
    BY <1>0, <1>1, <1>7
    DEF Reads, Credits, Identifies, Leaves, Tracked, RunSteps, CreditSteps, FailSteps, RunsOn,
        SettlesRow, rowVars, P!UpdateAirdropCoin, UpdateTxID
  <1>8. ASSUME NEW p \in P!Procs, SubmitsRow(p, r) PROVE OnceOK(r)'
    <2>0. To(r) \subseteq To(r)' /\ To(r)' # {} /\ (To(r) = {} <=> Once(r)')
      BY <1>8, ToNext
    <2>. USE <2>0 DEF SubmitsRow
    <2>1. airdropState'[r] = airdropState[r] /\ Others(p)
      BY <1>8 DEF Submits, rowVars
    <2>2. CASE To(r) = {}
      <3>1. \A q \in P!Procs : ~RunsOn(q, r)
        BY <1>0, <2>2 DEF OnceOK
      <3>2. \A q \in P!Procs : RunsOn(q, r)' => q = p
        BY <1>8, <2>1, <3>1 DEF Submits, Others, RunsOn
      <3>3. \A t \in Threads : ~SettlesRow(t, r)
        BY <2>2 DEF To, CallbackInv, CallbackOK, SettlesRow, CreditSteps, FailSteps, UpdateSteps
      <3>4. \A t \in Threads : ~SettlesRow(t, r)'
        BY <1>0, <1>8, <3>3 DEF Submits, Others, SettlesRow
      <3>5. airdropState'[r] \in {"absent", "default"}
        BY <1>0, <2>1, <2>2 DEF OnceOK
      <3>. QED
        BY <2>1, <3>2, <3>4, <3>5 DEF OnceOK
    <2>3. CASE To(r) # {}
      <3>1. ~Once(r)'
        BY <1>8, <2>3 DEF Once
      <3>. QED
        BY <2>1, <3>1 DEF OnceOK
    <2>. QED
      BY <2>2, <2>3
  <1>9. ASSUME To(r)' = To(r), NEW p \in P!Procs, Marks(p) PROVE OnceOK(r)'
    <2>1. RunsOn(p, local[p].row) /\ Leaves(p)
      BY <1>9 DEF Marks, RunsOn, RunSteps
    <2>2. CASE local[p].row # r
      BY <1>0, <1>1, <1>9, <2>1, <2>2
      DEF Marks, Leaves, Tracked, RunSteps, CreditSteps, FailSteps, RunsOn, SettlesRow,
          P!UpdateStatusPending
    <2>3. CASE local[p].row = r
      <3>1. airdropState'[r] = "pending" /\ To(r)' # {}
        BY <1>0, <1>9, <2>1, <2>3 DEF Marks, P!UpdateStatusPending, OnceOK
      <3>2. ~RunsOn(p, r)'
        BY <2>1 DEF Leaves, Tracked, RunsOn
      <3>3. ASSUME NEW q \in P!Procs, RunsOn(q, r)' PROVE RunsOn(q, r) /\ q # p
        BY <2>1, <3>2, <3>3 DEF Leaves, Others, RunsOn
      <3>4. Once(r)' => \A q \in P!Procs : ~RunsOn(q, r)'
        BY <1>0, <1>9, <2>1, <2>3, <3>3 DEF OnceOK, Once
      <3>. QED
        BY <3>1, <3>3, <3>4 DEF OnceOK
    <2>. QED
      BY <2>2, <2>3
  <1>10. ASSUME To(r)' = To(r), NEW t \in Threads, Settles(t) PROVE OnceOK(r)'
    <2>1. /\ SettlesRow(t, local[t].row) /\ Others(t) /\ UNCHANGED local
          /\ pc'[t] \in {"extRead", "again"}
      BY <1>10 DEF Settles, SettlesRow
    <2>2. ~SettlesRow(t, r)' /\ ~RunsOn(t, r)'
      BY <2>1 DEF SettlesRow, RunsOn, RunSteps
    <2>3. CASE local[t].row # r
      <3>1. airdropState'[r] = airdropState[r]
        BY <1>0, <1>10, <2>3 DEF Settles, P!UpdateStatus
      <3>. QED
        BY <1>0, <1>1, <1>10, <2>1, <2>2, <3>1
    <2>4. CASE local[t].row = r
      <3>1. local[t].cmd \in To(r)
        BY <2>1, <2>4
        DEF To, CallbackInv, CallbackOK, SettlesRow, CreditSteps, FailSteps, UpdateSteps
      <3>2. \A q \in P!Procs : RunsOn(q, r)' => RunsOn(q, r)
        BY <2>1, <2>2 DEF Others, RunsOn
      <3>3. Once(r) => \A q \in P!Procs : ~RunsOn(q, r)
        BY <1>0, <2>1, <2>4 DEF OnceOK
      <3>4. ASSUME Once(r), NEW u \in Threads PROVE ~SettlesRow(u, r)'
        <4>1. SettlesRow(u, r)' => u # t /\ SettlesRow(u, r)
          BY <1>0, <2>1, <2>2 DEF Others, SettlesRow
        <4>2. SettlesRow(u, r) => local[u].cmd \in To(r)
          BY DEF To, CallbackInv, CallbackOK, SettlesRow, CreditSteps, FailSteps, UpdateSteps
        <4>3. local[t].cmd \in To(r) /\ SettlesRow(u, r) => local[u].cmd = local[t].cmd
          BY <3>4, <4>2 DEF Once
        <4>4. local[t].cmd # 0
          BY <3>1 DEF To, TInv, ClientOK
        <4>. QED
          BY <3>1, <4>1, <4>3, <4>4 DEF CallbackInv, OneCallback
      <3>5. Once(r)' <=> Once(r)
        BY <1>10 DEF Once
      <3>. QED
        BY <1>0, <1>10, <3>1, <3>2, <3>3, <3>4, <3>5 DEF OnceOK
    <2>. QED
      BY <2>3, <2>4
  <1>11. ASSUME To(r)' = To(r), NEW p \in P!Procs, Submits(p), ~SubmitsRow(p, r)
         PROVE  OnceOK(r)'
    BY <1>1, <1>11 DEF Submits, SubmitsRow, RunsOn, SettlesRow, rowVars
  <1>12. CASE \A p \in P!Procs : ~SubmitsRow(p, r)
    <2>1. To(r)' = To(r)
      BY <1>12, ToNext
    <2>. QED
      BY <1>2, <1>3, <1>4, <1>5, <1>6, <1>7, <1>9, <1>10, <1>11, <1>12, <2>1
      DEF Effect, OfRunner, OfCallback
  <1>. QED
    BY <1>8, <1>12

LEMMA OnceInit == Init => OnceInv
  <1>. SUFFICES ASSUME Init, NEW r \in ChannelUsers PROVE OnceOK(r)
    BY DEF OnceInv
  <1>1. airdropState[r] \in {"absent", "default"}
    BY DEF Init, P!Init, P!CollectionInit
  <1>2. \A p \in P!Procs : pc[p] = "idle"
    BY DEF Init, P!Init
  <1>. QED
    BY <1>1, <1>2 DEF OnceOK, RunsOn, SettlesRow, RunSteps, P!Procs

LEMMA OnceHold == Spec => [](OInv /\ OnceInv)
  <1>1. Init => OInv /\ OnceInv
    BY OInvInit, OnceInit
  <1>2. OInv /\ OnceInv /\ [Next]_vars => (OInv /\ OnceInv)'
    BY OInvNext, StepEffect, OnceNext DEF OInv
  <1>. QED
    BY <1>1, <1>2, PTL DEF Spec

\* A settled row changes its state only if it was submitted more than once: of one
\* payment, one outcome settles the row, and pendingAfter is not still to come.
THEOREM ChannelSettledFinal == Spec => SettledIsFinal
  <1>1. ASSUME OInv, OnceInv, [Next]_vars, NEW r \in ChannelUsers,
               airdropState[r] \in {"success", "failed"}, airdropState'[r] # airdropState[r]
        PROVE  Cardinality({c \in DOMAIN cmds : cmds[c].to = r}) > 1
    <2>0. OnceOK(r) /\ TInv /\ CallbackInv /\ cmds \in Seq(Command)
      BY <1>1 DEF OnceInv, OInv, TInv, ClientOK
    <2>1. To(r) # {}
      BY <1>1, <2>0 DEF OnceOK
    <2>2. \A p \in P!Procs : Marks(p) => RunsOn(p, local[p].row)
      BY DEF Marks, RunsOn, RunSteps
    <2>3. \A t \in Threads : Settles(t) => SettlesRow(t, local[t].row)
      BY DEF Settles, SettlesRow
    <2>4. \/ \E p \in P!Procs : RunsOn(p, r)
          \/ \E t \in Threads : SettlesRow(t, r)
      <3>0. airdropState \in [ChannelUsers -> P!AirdropStatus \cup {"absent"}]
        BY <2>0 DEF TInv, RowsOK
      <3>1. \/ \E p \in P!Procs : Marks(p) /\ local[p].row = r
            \/ \E t \in Threads : Settles(t) /\ local[t].row = r
        <4>1. Effect
          BY <1>1, <2>0, StepEffect
        <4>2. ASSUME NEW p \in P!Procs, Marks(p) PROVE local[p].row = r
          BY <1>1, <3>0, <4>2 DEF Marks, P!UpdateStatusPending
        <4>3. ASSUME NEW t \in Threads, Settles(t) PROVE local[t].row = r
          BY <1>1, <3>0, <4>3 DEF Settles, P!UpdateStatus
        <4>4. ~Registers
          BY <1>1, <3>0 DEF Registers
        <4>. QED
          BY <1>1, <4>1, <4>2, <4>3, <4>4
          DEF Effect, Rests, Dies, OfRunner, OfCallback, Walks, Submits, Starts, Takes, Reads,
              Credits, Identifies, rowVars, P!UpdateAirdropCoin, UpdateTxID
      <3>. QED
        BY <2>2, <2>3, <3>1
    <2>5. ~Once(r)
      BY <1>1, <2>0, <2>4 DEF OnceOK
    <2>6. PICK c \in To(r), d \in To(r) : c # d
      BY <2>5 DEF Once
    <2>7. IsFiniteSet(To(r))
      <3>1. DOMAIN cmds = 1..Len(cmds) /\ Len(cmds) \in Nat
        BY <2>0
      <3>2. IsFiniteSet(DOMAIN cmds)
        BY <3>1, FS_Interval
      <3>3. To(r) \in SUBSET DOMAIN cmds
        BY DEF To
      <3>. QED
        BY <3>2, <3>3, FS_Subset
    <2>8. Cardinality({c, d}) = 2
      <3>1. IsFiniteSet({c}) /\ Cardinality({c}) = 1
        BY FS_Singleton
      <3>2. {c, d} = {c} \cup {d} /\ d \notin {c}
        BY <2>6
      <3>. QED
        BY <3>1, <3>2, FS_AddElement
    <2>9. Cardinality({c, d}) <= Cardinality(To(r)) /\ Cardinality(To(r)) \in Nat
      BY <2>6, <2>7, FS_Subset, FS_CardinalityType
    <2>. QED
      BY <2>8, <2>9 DEF To
  <1>2. OInv /\ OnceInv /\ [Next]_vars
          => [\A r \in ChannelUsers :
                airdropState[r] \in {"success", "failed"} /\ airdropState'[r] # airdropState[r]
                  => Cardinality({c \in DOMAIN cmds : cmds[c].to = r}) > 1]_vars
    BY <1>1
  <1>. QED
    BY <1>2, OnceHold, PTL DEF Spec, SettledIsFinal

=============================================================================
