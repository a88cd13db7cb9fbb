------------------------- MODULE DispatchersProofs -------------------------
(***************************************************************************)
(* Theorems about Dispatchers, for every value of its constants.           *)
(*                                                                         *)
(* What AirdropDispatchProofs and AirdropLedgerProofs prove of the steps   *)
(* of the Twitter dispatcher is used here.  The steps of the channel       *)
(* dispatcher are taken up again, over a client that is shared.            *)
(* With what the callbacks of both do to the balances, the two together    *)
(* are shown to implement FaucetLedger.                                    *)
(***************************************************************************)
EXTENDS Dispatchers, AirdropLedgerProofs

-----------------------------------------------------------------------------
(* What the variables of the channel dispatcher hold, whoever else uses the *)
(* client.                                                                 *)

ChRowsOK == /\ airdropState \in [ChannelUsers -> C!P!AirdropStatus \cup {"absent"}]
            /\ chTxID \in [ChannelUsers -> Nat]
            /\ channelAirdropCoin \in [C!P!Users -> Nat]
ChGlobalsOK == /\ chTotalAirdropNum \in Int
               /\ chAirdropStop \in ChSessions \cup {C!P!NoChan}
               /\ chEpoch \in Nat
ChTodoOK == chTodo \in [ChSessions -> SUBSET C!P!Rows]
ChProcsOK == chPc \in [C!P!Procs -> C!P!Labels] /\ chLocal \in [C!P!Procs -> C!P!Locals]

\* The row at hand is a document wherever it is paid or updated, and the balance
\* read is not negative.
ChProcHeld(p) ==
    /\ chPc[p] \in RowLabels => chLocal[p].row \in C!P!Rows
    /\ chPc[p] = "extWrite" => chLocal[p].num \in Nat

ChInv ==
    /\ ChRowsOK /\ ChGlobalsOK /\ ChTodoOK /\ ChProcsOK
    /\ \A p \in C!P!Procs : ChProcHeld(p)

\* The amounts of the documents and the copies of them are at most what a plan writes.
ChOwnOK ==
    /\ validState \in [ChannelUsers -> C!UserValidState]
    /\ amount \in [ChannelUsers -> Nat]
    /\ \A r \in ChannelUsers : amount[r] <= MaxAmount[r]
    /\ copied \in [C!P!Procs -> [ChannelUsers -> Nat]]
    /\ \A p \in C!P!Procs, r \in ChannelUsers : copied[p][r] <= MaxAmount[r]
    /\ doChannelUser \in [Plans -> ChannelUsers \cup {C!P!NoRow}]

\* Goroutine p goes to label l with the local variables v.
ChMoved(p, l, v) == chPc' = [chPc EXCEPT ![p] = l] /\ chLocal' = [chLocal EXCEPT ![p] = v]

LEMMA ChMovedOthers ==
    ASSUME ChProcsOK, NEW p \in C!P!Procs, NEW l, NEW v, ChMoved(p, l, v)
    PROVE  /\ chPc'[p] = l /\ chLocal'[p] = v
           /\ \A q \in C!P!Procs \ {p} : chPc'[q] = chPc[q] /\ chLocal'[q] = chLocal[q]
  BY DEF ChMoved, ChProcsOK

\* The frame of a step of goroutine p: the documents stay, only p moved.
LEMMA ChProcStep ==
    ASSUME ChInv, ChRowsOK', C!P!Rows \subseteq C!P!Rows', ChGlobalsOK', ChTodoOK',
           NEW p \in C!P!Procs, NEW l \in C!P!Labels, NEW v \in C!P!Locals, ChMoved(p, l, v),
           l \in RowLabels => v.row \in C!P!Rows',
           l = "extWrite" => v.num \in Nat
    PROVE  ChInv'
  <1>1. ChProcsOK'
    BY DEF ChInv, ChProcsOK, ChMoved
  <1>2. ChProcHeld(p)'
    BY ChMovedOthers DEF ChInv, ChProcHeld
  <1>3. ASSUME NEW q \in C!P!Procs \ {p} PROVE ChProcHeld(q)'
    BY <1>3, ChMovedOthers DEF ChInv, ChProcHeld
  <1>. QED
    BY <1>1, <1>2, <1>3 DEF ChInv

\* What a step leaves unchanged keeps its type.
LEMMA ChKept ==
    ASSUME ChInv
    PROVE  /\ UNCHANGED C!rowVars => ChRowsOK' /\ C!P!Rows' = C!P!Rows
           /\ UNCHANGED <<C!globals, chEpoch>> => ChGlobalsOK'
           /\ UNCHANGED chTodo /\ C!P!Rows \subseteq C!P!Rows' => ChTodoOK'
           /\ UNCHANGED <<chPc, chLocal>> => ChProcsOK'
           /\ UNCHANGED <<chPc, chLocal>> /\ C!P!Rows \subseteq C!P!Rows'
                 => \A p \in C!P!Procs : ChProcHeld(p)'
  BY DEF ChInv, ChRowsOK, ChGlobalsOK, ChTodoOK, ChProcsOK, ChProcHeld, C!rowVars, C!globals,
         C!P!Rows

\* A step that leaves the rows, the lists and the package variables alone.
ChLooks == UNCHANGED <<C!rowVars, C!globals, C!sessionVars, chTodo>>

LEMMA ChLookStep ==
    ASSUME ChInv, ChLooks,
           NEW p \in C!P!Procs, NEW l \in C!P!Labels, NEW v \in C!P!Locals, ChMoved(p, l, v),
           l \in RowLabels => v.row \in C!P!Rows,
           l = "extWrite" => v.num \in Nat
    PROVE  ChInv'
  <1>1. ChRowsOK' /\ C!P!Rows' = C!P!Rows /\ ChGlobalsOK' /\ ChTodoOK'
    BY ChKept DEF ChLooks, C!sessionVars
  <1>. QED
    BY <1>1, ChProcStep

\* The ways a goroutine moves, as ChMoved.
LEMMA ChMoves ==
    ASSUME ChProcsOK, NEW p \in C!P!Procs
    PROVE  /\ chLocal[p] \in C!P!Locals
           /\ C!P!NoLocals \in C!P!Locals
           /\ \A l : C!P!Goto(p, l) /\ UNCHANGED chLocal => ChMoved(p, l, chLocal[p])
           /\ C!P!Return(p) => \E l \in {"end", "idle"} : ChMoved(p, l, C!P!NoLocals)
           /\ \A l, r : C!P!Goto(p, l) /\ chLocal' = [chLocal EXCEPT ![p].row = r]
                 => ChMoved(p, l, [chLocal[p] EXCEPT !.row = r])
           /\ \A l, n : C!P!Goto(p, l) /\ chLocal' = [chLocal EXCEPT ![p].num = n]
                 => ChMoved(p, l, [chLocal[p] EXCEPT !.num = n])
           /\ \A l, c : C!P!Goto(p, l) /\ chLocal' = [chLocal EXCEPT ![p].chan = c]
                 => ChMoved(p, l, [chLocal[p] EXCEPT !.chan = c])
           /\ \A l, c : C!P!Goto(p, l) /\ chLocal' = [chLocal EXCEPT ![p].ctx = c]
                 => ChMoved(p, l, [chLocal[p] EXCEPT !.ctx = c])
           /\ \A l, c, x : C!P!Goto(p, l) /\ chLocal' = [chLocal EXCEPT ![p].cmd = c, ![p].ctx = x]
                 => ChMoved(p, l, [chLocal[p] EXCEPT !.cmd = c, !.ctx = x])
  <1>1. chLocal[p] \in C!P!Locals /\ C!P!NoLocals \in C!P!Locals
    BY DEF ChProcsOK, C!P!Locals, C!P!NoLocals, C!P!NoRow
  <1>2. C!P!Return(p) => \E l \in {"end", "idle"} : ChMoved(p, l, C!P!NoLocals)
    BY DEF C!P!Return, C!P!Goto, ChMoved
  <1>3. \A l : C!P!Goto(p, l) /\ UNCHANGED chLocal => ChMoved(p, l, chLocal[p])
    BY DEF C!P!Goto, ChMoved, ChProcsOK
  <1>4. \A l, c, x : C!P!Goto(p, l) /\ chLocal' = [chLocal EXCEPT ![p].cmd = c, ![p].ctx = x]
                 => ChMoved(p, l, [chLocal[p] EXCEPT !.cmd = c, !.ctx = x])
    BY DEF C!P!Goto, ChMoved, ChProcsOK
  <1>. QED
    BY <1>1, <1>2, <1>3, <1>4 DEF C!P!Goto, ChMoved

\* What a goroutine holds at the step it takes.
LEMMA ChHolds ==
    ASSUME ChInv, NEW p \in C!P!Procs
    PROVE  /\ chLocal[p] \in C!P!Locals /\ chLocal[p].cmd \in Nat
           /\ chPc[p] \in RowLabels
                 => chLocal[p].row \in C!P!Rows /\ chLocal[p].row \in ChannelUsers
           /\ chPc[p] = "extWrite" => chLocal[p].num \in Nat
           /\ \A r \in C!P!Rows : [chLocal[p] EXCEPT !.row = r] \in C!P!Locals
           /\ \A n \in Int : [chLocal[p] EXCEPT !.num = n] \in C!P!Locals
           /\ \A c \in ChSessions \cup {C!P!NoChan} : [chLocal[p] EXCEPT !.chan = c] \in C!P!Locals
           /\ \A c \in Nat, x \in ChSessions :
                 [chLocal[p] EXCEPT !.cmd = c, !.ctx = x] \in C!P!Locals
  <1>1. chLocal[p] \in C!P!Locals
    BY DEF ChInv, ChProcsOK
  <1>2. chPc[p] \in RowLabels => chLocal[p].row \in C!P!Rows /\ chLocal[p].row \in ChannelUsers
    BY DEF ChInv, ChProcHeld, C!P!Rows
  <1>3. chPc[p] = "extWrite" => chLocal[p].num \in Nat
    BY DEF ChInv, ChProcHeld
  <1>. QED
    BY <1>1, <1>2, <1>3 DEF C!P!Locals, C!P!Rows

\* The updates keep the type of the collection, and every document in it.
LEMMA ChUpdates ==
    ASSUME ChInv, NEW r \in ChannelUsers
    PROVE  /\ \A st \in C!P!AirdropStatus :
                 C!P!UpdateStatus(r, st) => ChRowsOK' /\ C!P!Rows \subseteq C!P!Rows'
           /\ C!P!UpdateStatusPending(r) => ChRowsOK' /\ C!P!Rows \subseteq C!P!Rows'
           /\ C!P!CreateAirdrop(r) => ChRowsOK' /\ C!P!Rows \subseteq C!P!Rows'
           /\ \A tx \in Nat : C!UpdateTxID(r, tx) => ChRowsOK' /\ C!P!Rows \subseteq C!P!Rows'
           /\ \A n \in Nat : C!P!UpdateAirdropCoin(ChannelUID[r], n)
                 => ChRowsOK' /\ C!P!Rows \subseteq C!P!Rows'
  BY DEF ChInv, ChRowsOK, C!P!UpdateStatus, C!P!UpdateStatusPending, C!P!CreateAirdrop,
         C!UpdateTxID, C!P!UpdateAirdropCoin, C!P!AirdropStatus, C!P!Rows, C!P!Users

LEMMA ChInvInit == C!Init => ChInv
  <1>. SUFFICES ASSUME C!Init PROVE ChInv
    OBVIOUS
  <1>. USE DEF C!Init, C!P!Init
  <1>1. ChRowsOK
    BY DEF C!P!CollectionInit, ChRowsOK, C!P!NoTx
  <1>2. ChGlobalsOK /\ ChTodoOK
    BY DEF ChGlobalsOK, ChTodoOK
  <1>3. ChProcsOK /\ \A p \in C!P!Procs : ChProcHeld(p)
    BY DEF ChProcsOK, ChProcHeld, C!P!Labels, C!P!Locals, C!P!NoLocals, C!P!NoRow, RowLabels
  <1>. QED
    BY <1>1, <1>2, <1>3 DEF ChInv

\* The steps of the world and of the process.
LEMMA ChWorld ==
    ASSUME ChInv,
           \/ \E r \in ChannelUsers : C!Register(r)
           \/ \E q \in Plans, r \in ChannelUsers : C!FindChannelUserByUID(q, r)
           \/ \E q \in Plans : C!PlanEnds(q)
           \/ \E s \in ChSessions : C!ClientGone(s)
           \/ C!Down
    PROVE  ChInv'
  <1>1. ASSUME NEW r \in ChannelUsers, C!Register(r) PROVE ChInv'
    BY <1>1, ChUpdates, ChKept
    DEF C!Register, C!P!Insert, ChInv, C!globals, C!P!globals, C!P!sessionVars, C!P!procVars
  <1>2. ASSUME UNCHANGED C!dispatcherVars PROVE ChInv'
    BY <1>2, ChKept DEF ChInv, C!dispatcherVars, C!sessionVars, C!procVars
  <1>3. ASSUME NEW s \in ChSessions, C!ClientGone(s) PROVE ChInv'
    BY <1>3, ChKept
    DEF C!ClientGone, C!P!ClientGone, ChInv, C!P!collectionVars, C!rowVars, C!globals,
        C!P!globals, C!P!procVars
  <1>5. ASSUME NEW q, C!PlanEnds(q) \/ \E r : C!FindChannelUserByUID(q, r)
        PROVE  UNCHANGED C!dispatcherVars
    BY <1>5 DEF C!PlanEnds, C!FindChannelUserByUID
  <1>4. ASSUME C!Down PROVE ChInv'
    <2>. USE <1>4 DEF C!Down, C!P!Down
    <2>1. ChRowsOK' /\ C!P!Rows' = C!P!Rows
      BY ChKept DEF C!P!collectionVars, C!rowVars
    <2>2. ChGlobalsOK' /\ ChTodoOK'
      BY DEF ChInv, ChGlobalsOK, ChTodoOK
    <2>3. ChProcsOK' /\ \A p \in C!P!Procs : ChProcHeld(p)'
      BY DEF ChInv, ChProcsOK, ChProcHeld, C!P!Labels, C!P!Locals, C!P!NoLocals, C!P!NoRow,
             RowLabels
    <2>. QED
      BY <2>1, <2>2, <2>3 DEF ChInv
  <1>. QED
    BY <1>1, <1>2, <1>3, <1>4, <1>5

LEMMA ChRequest ==
    ASSUME ChInv, NEW s \in ChSessions, C!AirdropChannel(s)
    PROVE  ChInv'
  <1>. USE DEF C!P!collectionVars, C!rowVars, C!P!globals, C!globals, C!P!procVars
  <1>1. CASE C!P!ResetBudget(s) \/ C!P!ResetStop(s) \/ C!P!ResetDo(s) \/ C!P!AwaitStop(s)
    <2>1. ChGlobalsOK'
      BY <1>1, BudgetAssumption
      DEF C!P!ResetBudget, C!P!ResetStop, C!P!ResetDo, C!P!AwaitStop, ChInv, ChGlobalsOK
    <2>2. UNCHANGED <<C!rowVars, chTodo, chPc, chLocal>>
      BY <1>1 DEF C!P!ResetBudget, C!P!ResetStop, C!P!ResetDo, C!P!AwaitStop
    <2>. QED
      BY <2>1, <2>2, ChKept DEF ChInv
  <1>2. CASE C!P!StartFeeder(s)
    <2>. USE <1>2 DEF C!P!StartFeeder
    <2>1. s \in C!P!Procs /\ ChProcsOK
      BY DEF C!P!Procs, ChInv
    <2>2. /\ ChMoved(s, "list", [chLocal[s] EXCEPT !.ctx = s])
          /\ [chLocal[s] EXCEPT !.ctx = s] \in C!P!Locals
      BY <2>1, ChMoves DEF C!P!Locals
    <2>3. ChRowsOK' /\ C!P!Rows' = C!P!Rows /\ ChGlobalsOK' /\ ChTodoOK'
      BY ChKept
    <2>. QED
      BY <2>1, <2>2, <2>3, ChProcStep DEF C!P!Labels, RowLabels
  <1>. QED
    BY <1>1, <1>2 DEF C!AirdropChannel, C!P!AirdropTwitter, C!P!Proceed

LEMMA ChRendezvous ==
    ASSUME ChInv, NEW p \in C!P!Procs, NEW s \in ChSessions, C!Rendezvous(p, s)
    PROVE  ChInv'
  <1>1. PICK l \in {"end", "idle"} : ChMoved(p, l, C!P!NoLocals)
    BY ChMoves DEF ChInv, C!Rendezvous, C!P!Rendezvous
  <1>2. ChRowsOK' /\ C!P!Rows' = C!P!Rows /\ ChGlobalsOK' /\ ChTodoOK' /\ C!P!NoLocals \in C!P!Locals
    BY ChKept, ChMoves
    DEF ChInv, C!Rendezvous, C!P!Rendezvous, C!P!collectionVars, C!rowVars, C!P!globals, C!globals
  <1>. QED
    BY <1>1, <1>2, ChProcStep DEF C!P!Labels, RowLabels

LEMMA ChFeeder ==
    ASSUME ChInv, NEW s \in ChSessions, C!airdropTx(s)
    PROVE  ChInv'
  <1>0. s \in C!P!Procs /\ ChProcsOK
    BY DEF C!P!Procs, ChInv
  <1>1. CASE C!getChannelAirdropList(s)
    <2>. USE <1>1 DEF C!getChannelAirdropList
    <2>1. ChRowsOK' /\ C!P!Rows' = C!P!Rows /\ ChGlobalsOK'
      BY ChKept DEF C!sessionVars
    <2>2. ChTodoOK'
      <3>1. C!Waiting \subseteq C!P!Rows
        BY DEF C!Waiting, C!P!Rows
      <3>. QED
        BY <2>1, <3>1 DEF ChInv, ChTodoOK
    <2>3. PICK l \in {"clear", "next"} : ChMoved(s, l, chLocal[s])
      BY <1>0, ChMoves
    <2>. QED
      BY <1>0, <2>1, <2>2, <2>3, ChHolds, ChProcStep DEF C!P!Labels, RowLabels
  <1>2. CASE C!P!NextAirdrop(s)
    <2>. USE <1>2 DEF C!P!NextAirdrop
    <2>1. ChRowsOK' /\ C!P!Rows' = C!P!Rows /\ ChGlobalsOK'
      BY ChKept DEF C!P!collectionVars, C!rowVars, C!P!globals, C!globals, C!P!sessionVars
    <2>2. PICK r \in chTodo[s] :
             /\ chTodo' = [chTodo EXCEPT ![s] = @ \ {r}]
             /\ ChMoved(s, "check", [chLocal[s] EXCEPT !.row = r])
      BY <1>0, ChMoves DEF C!P!Oldest
    <2>3. r \in C!P!Rows /\ ChTodoOK'
      BY <2>1, <2>2 DEF ChInv, ChTodoOK
    <2>. DEFINE v == [chLocal[s] EXCEPT !.row = r]
    <2>4. v.row = r /\ v \in C!P!Locals /\ ChMoved(s, "check", v) /\ "check" \in C!P!Labels
      BY <1>0, <2>2, <2>3, ChHolds DEF C!P!Locals, C!P!Labels
    <2>. HIDE DEF v
    <2>. QED
      BY <1>0, <2>1, <2>3, <2>4, ChProcStep
  <1>3. CASE C!P!FeederEnds(s)
    <2>1. PICK l \in {"end", "idle"} : ChMoved(s, l, C!P!NoLocals)
      BY <1>0, <1>3, ChMoves DEF C!P!FeederEnds
    <2>2. ChLooks /\ C!P!NoLocals \in C!P!Locals
      BY <1>0, <1>3, ChMoves
      DEF C!P!FeederEnds, ChLooks, C!P!collectionVars, C!rowVars, C!P!globals, C!globals,
          C!P!sessionVars, C!sessionVars
    <2>. QED
      BY <1>0, <2>1, <2>2, ChLookStep DEF C!P!Labels, RowLabels
  <1>. QED
    BY <1>1, <1>2, <1>3 DEF C!airdropTx

LEMMA ChRunner ==
    ASSUME ChInv, NEW p \in C!P!Procs, C!Runner(p)
    PROVE  ChInv'
  <1>. USE DEF C!P!Labels, RowLabels
  <1>. USE DEF C!P!collectionVars, C!rowVars, C!P!globals, C!globals, C!P!sessionVars,
               C!sessionVars, C!P!Keep, ChLooks
  <1>0. ChProcsOK /\ ChGlobalsOK
    BY DEF ChInv
  <1>1. CASE C!pendingAfterFind(p) \/ C!P!RunCheck(p)
    <2>1. PICK l \in {"clear", "submit", "pendingUpd"} : ChMoved(p, l, chLocal[p])
      BY <1>0, <1>1, ChMoves DEF C!pendingAfterFind, C!P!RunCheck
    <2>2. chPc[p] \in RowLabels /\ ChLooks
      BY <1>1 DEF C!pendingAfterFind, C!P!RunCheck
    <2>. QED
      BY <2>1, <2>2, ChHolds, ChLookStep
  <1>2. CASE C!P!Submit(p, copied[p][chLocal[p].row])
    <2>1. PICK l \in {"clear", "load"} : ChMoved(p, l, chLocal[p])
      BY <1>0, <1>2, ChMoves DEF C!P!Submit
    <2>2. chPc[p] \in RowLabels /\ ChLooks
      BY <1>2 DEF C!P!Submit
    <2>. QED
      BY <2>1, <2>2, ChHolds, ChLookStep
  <1>3. CASE C!P!RunLoad(p)
    <2>1. ChMoved(p, "store", [chLocal[p] EXCEPT !.num = chTotalAirdropNum]) /\ ChLooks
      BY <1>0, <1>3, ChMoves DEF C!P!RunLoad
    <2>2. /\ [chLocal[p] EXCEPT !.num = chTotalAirdropNum] \in C!P!Locals
          /\ [chLocal[p] EXCEPT !.num = chTotalAirdropNum].row \in C!P!Rows
      BY <1>0, <1>3, ChHolds DEF C!P!RunLoad, ChGlobalsOK, C!P!Locals
    <2>. QED
      BY <2>1, <2>2, ChLookStep
  <1>4. CASE C!P!RunStore(p)
    <2>1. ChMoved(p, "pendingFind", [chLocal[p] EXCEPT !.num = 0])
      BY <1>0, <1>4, ChMoves DEF C!P!RunStore
    <2>2. ChRowsOK' /\ C!P!Rows' = C!P!Rows /\ ChTodoOK'
      BY <1>4, ChKept DEF C!P!RunStore
    <2>3. chLocal[p] \in C!P!Locals /\ chLocal[p].row \in C!P!Rows
      BY <1>4, ChHolds DEF C!P!RunStore
    <2>4. chLocal[p].num \in Int
      BY <2>3 DEF C!P!Locals
    <2>5. ChGlobalsOK'
      <3>1. /\ chTotalAirdropNum' = chLocal[p].num - 1
            /\ UNCHANGED <<chAirdropStop, chEpoch>>
        BY <1>4 DEF C!P!RunStore
      <3>. QED
        BY <1>0, <2>4, <3>1 DEF ChGlobalsOK
    <2>6. /\ [chLocal[p] EXCEPT !.num = 0] \in C!P!Locals
          /\ [chLocal[p] EXCEPT !.num = 0].row \in C!P!Rows
      BY <2>3 DEF C!P!Locals
    <2>. QED
      BY <2>1, <2>2, <2>5, <2>6, ChProcStep
  <1>5. CASE C!P!PendingUpdate(p)
    <2>1. ChRowsOK' /\ C!P!Rows \subseteq C!P!Rows'
      BY <1>5, ChHolds, ChUpdates, ChKept DEF C!P!PendingUpdate
    <2>2. ChGlobalsOK' /\ ChTodoOK'
      BY <1>5, <2>1, ChKept DEF C!P!PendingUpdate
    <2>3. PICK l \in {"next", "end", "idle", "clear"}, v \in C!P!Locals : ChMoved(p, l, v)
      BY <1>0, <1>5, ChMoves DEF C!P!PendingUpdate
    <2>. QED
      BY <2>1, <2>2, <2>3, ChProcStep
  <1>6. CASE C!P!StopClear(p)
    <2>1. ChRowsOK' /\ C!P!Rows' = C!P!Rows /\ ChTodoOK'
      BY <1>6, ChKept DEF C!P!StopClear
    <2>2. ChGlobalsOK'
      BY <1>0, <1>6 DEF ChGlobalsOK, C!P!StopClear
    <2>3. ChMoved(p, "send", chLocal[p]) /\ chLocal[p] \in C!P!Locals
      BY <1>0, <1>6, ChMoves DEF C!P!StopClear
    <2>. QED
      BY <2>1, <2>2, <2>3, ChProcStep
  <1>7. CASE C!P!StopSend(p)
    <2>1. /\ ChMoved(p, "sending", [chLocal[p] EXCEPT !.chan = chAirdropStop])
          /\ [chLocal[p] EXCEPT !.chan = chAirdropStop] \in C!P!Locals
      BY <1>0, <1>7, ChMoves, ChHolds DEF C!P!StopSend, ChGlobalsOK
    <2>2. ChLooks
      BY <1>7 DEF C!P!StopSend
    <2>. QED
      BY <2>1, <2>2, ChLookStep
  <1>. QED
    BY <1>1, <1>2, <1>3, <1>4, <1>5, <1>6, <1>7 DEF C!Runner, C!airdropRun, C!airdropToStop

LEMMA ChEvent ==
    ASSUME ChInv, NEW t \in Threads, NEW c \in Nat, listener \in ChSessions,
           C!FaucetCallback(t, c)
    PROVE  ChInv'
  <1>0. t \in C!P!Procs /\ ChProcsOK
    BY DEF C!P!Procs, ChInv
  <1>1. PICK from \in SUBSET Stage, stage \in Stage, entry \in {"txFind", "successFind", "failedFind"} :
           C!P!Callback(t, c, from, stage, entry)
    BY DEF C!FaucetCallback, C!P!Event, C!P!OnTxGenerated, C!P!OnSucceed, C!P!OnFailed,
           C!P!Unfinished, Stage
  <1>2. ChLooks
    BY <1>1
    DEF C!P!Callback, ChLooks, C!P!collectionVars, C!rowVars, C!P!globals, C!globals,
        C!P!sessionVars, C!sessionVars
  <1>. DEFINE v == [chLocal[t] EXCEPT !.cmd = c, !.ctx = listener]
  <1>3. ChMoved(t, entry, v) /\ v \in C!P!Locals /\ entry \in C!P!Labels /\ entry \notin RowLabels
    BY <1>0, <1>1, ChMoves, ChHolds DEF C!P!Callback, C!P!Labels, RowLabels
  <1>. HIDE DEF v
  <1>. QED
    BY <1>0, <1>2, <1>3, ChLookStep DEF RowLabels

\* A callback that finds the document of its command, or skips.
LEMMA ChFind ==
    ASSUME ChInv, NEW t \in Threads, NEW rows \in SUBSET C!P!Rows,
           NEW yes \in {"successUpd", "failedUpd", "txUpd"}, NEW skip,
           C!FindChannelUserByID(t, rows, yes, skip), skip => C!GoOn(t) \/ C!P!Return(t)
    PROVE  ChInv'
  <1>0. t \in C!P!Procs /\ ChProcsOK /\ "again" \in C!P!Labels /\ "idle" \in C!P!Labels
        /\ "end" \in C!P!Labels /\ yes \in C!P!Labels
    BY DEF C!P!Procs, C!P!Labels, ChInv
  <1>1. ChLooks
    BY DEF C!FindChannelUserByID, ChLooks
  <1>2. CASE skip
    <2>1. PICK l \in {"again", "idle", "end"}, v \in C!P!Locals : ChMoved(t, l, v)
      BY <1>0, <1>2, ChMoves DEF C!GoOn
    <2>. QED
      BY <1>0, <1>1, <2>1, ChLookStep DEF RowLabels
  <1>3. CASE /\ C!TrackID(chLocal[t].cmd) \in rows
             /\ chLocal' = [chLocal EXCEPT ![t].row = C!TrackID(chLocal[t].cmd)]
             /\ C!P!Goto(t, yes)
    <2>. DEFINE v == [chLocal[t] EXCEPT !.row = C!TrackID(chLocal[t].cmd)]
    <2>1. ChMoved(t, yes, v) /\ v \in C!P!Locals
      BY <1>0, <1>3, ChMoves, ChHolds
    <2>2. v.row \in C!P!Rows
      BY <1>0, <1>3, ChHolds DEF C!P!Locals
    <2>. HIDE DEF v
    <2>. QED
      BY <1>0, <1>1, <2>1, <2>2, ChLookStep
  <1>. QED
    BY <1>2, <1>3 DEF C!FindChannelUserByID

LEMMA ChAfter ==
    ASSUME ChInv, ChOwnOK, NEW t \in Threads, C!After(t)
    PROVE  ChInv'
  <1>. USE DEF C!P!collectionVars, C!rowVars, C!P!globals, C!globals, C!P!sessionVars,
               C!sessionVars, C!P!Keep, ChLooks
  <1>0. t \in C!P!Procs /\ ChProcsOK /\ ChRowsOK
    BY DEF C!P!Procs, ChInv
  <1>1. C!Pending \subseteq C!P!Rows /\ C!Waiting \subseteq C!P!Rows
    BY DEF C!Pending, C!Waiting, C!P!Rows
  <1>2. CASE C!successAfterFind(t) \/ C!failedAfterFind(t) \/ C!txGeneratedAfterFind(t)
    <2>1. CASE C!successAfterFind(t)
      BY <1>1, <2>1, ChFind DEF C!successAfterFind
    <2>2. CASE C!failedAfterFind(t)
      BY <1>1, <2>2, ChFind DEF C!failedAfterFind
    <2>3. CASE C!txGeneratedAfterFind(t)
      BY <1>1, <2>3, ChFind DEF C!txGeneratedAfterFind
    <2>. QED
      BY <1>2, <2>1, <2>2, <2>3
  <1>3. CASE C!txGeneratedAfterUpdate(t)
    <2>1. ChRowsOK' /\ C!P!Rows \subseteq C!P!Rows'
      BY <1>0, <1>3, ChHolds, ChUpdates, ChKept DEF C!txGeneratedAfterUpdate, RowLabels
    <2>2. ChGlobalsOK' /\ ChTodoOK'
      BY <1>3, <2>1, ChKept DEF C!txGeneratedAfterUpdate
    <2>3. PICK l \in {"end", "idle"}, v \in C!P!Locals : ChMoved(t, l, v)
      BY <1>0, <1>3, ChMoves DEF C!txGeneratedAfterUpdate
    <2>. QED
      BY <1>0, <2>1, <2>2, <2>3, ChProcStep DEF C!P!Labels, RowLabels
  <1>4. CASE C!P!SuccessUpdate(t) \/ C!P!FailedUpdate(t)
    <2>1. chPc[t] \in RowLabels
      BY <1>4 DEF C!P!SuccessUpdate, C!P!FailedUpdate, RowLabels
    <2>2. ChRowsOK' /\ C!P!Rows \subseteq C!P!Rows'
      BY <1>0, <1>4, <2>1, ChHolds, ChUpdates, ChKept
      DEF C!P!SuccessUpdate, C!P!FailedUpdate, C!P!AirdropStatus
    <2>3. ChGlobalsOK' /\ ChTodoOK'
      BY <1>4, <2>2, ChKept DEF C!P!SuccessUpdate, C!P!FailedUpdate
    <2>4. PICK l \in {"extRead", "again"} : ChMoved(t, l, chLocal[t])
      BY <1>0, <1>4, ChMoves DEF C!P!SuccessUpdate, C!P!FailedUpdate
    <2>5. chLocal[t] \in C!P!Locals /\ chLocal[t].row \in C!P!Rows'
      BY <1>0, <2>1, <2>2, ChHolds
    <2>. QED
      BY <1>0, <2>2, <2>3, <2>4, <2>5, ChProcStep DEF C!P!Labels
  <1>5. CASE C!P!ExtRead(t)
    <2>1. ChLooks
      BY <1>5 DEF C!P!ExtRead
    <2>2. chLocal[t].row \in C!P!Rows /\ chLocal[t].row \in ChannelUsers
      BY <1>0, <1>5, ChHolds DEF C!P!ExtRead, RowLabels
    <2>3. CASE UNCHANGED chLocal /\ C!P!Goto(t, "again")
      BY <1>0, <2>1, <2>3, ChMoves, ChLookStep DEF C!P!Labels, RowLabels
    <2>4. CASE /\ chLocal' = [chLocal EXCEPT ![t].num = channelAirdropCoin[ChannelUID[chLocal[t].row]]]
               /\ C!P!Goto(t, "extWrite")
      <3>. DEFINE n == channelAirdropCoin[ChannelUID[chLocal[t].row]]
                  v == [chLocal[t] EXCEPT !.num = n]
      <3>1. n \in Nat
        BY <1>0, <2>2 DEF ChRowsOK, C!P!Users
      <3>2. ChMoved(t, "extWrite", v)
        BY <1>0, <2>4, ChMoves
      <3>3. v \in C!P!Locals /\ v.row = chLocal[t].row /\ v.num \in Nat
        <4>1. chLocal[t] \in C!P!Locals
          BY <1>0, ChHolds
        <4>. HIDE DEF n
        <4>. QED
          BY <3>1, <4>1 DEF C!P!Locals
      <3>4. "extWrite" \in C!P!Labels
        BY DEF C!P!Labels
      <3>. HIDE DEF v
      <3>. QED
        BY <1>0, <2>1, <2>2, <3>2, <3>3, <3>4, ChLookStep
    <2>. QED
      BY <1>5, <2>3, <2>4 DEF C!P!ExtRead
  <1>6. CASE C!P!Credit(t, copied[t][chLocal[t].row])
    <2>1. chLocal[t].row \in ChannelUsers /\ chLocal[t].num \in Nat
      BY <1>0, <1>6, ChHolds DEF C!P!Credit, RowLabels
    <2>2. chLocal[t].num + copied[t][chLocal[t].row] \in Nat
      <3>1. copied[t][chLocal[t].row] \in Nat
        BY <1>0, <2>1 DEF ChOwnOK
      <3>. QED
        BY <2>1, <3>1
    <2>3. ChRowsOK' /\ C!P!Rows \subseteq C!P!Rows'
      BY <1>6, <2>1, <2>2, ChUpdates, ChKept DEF C!P!Credit
    <2>4. ChGlobalsOK' /\ ChTodoOK'
      BY <1>6, <2>3, ChKept DEF C!P!Credit
    <2>5. ChMoved(t, "again", [chLocal[t] EXCEPT !.num = 0])
      BY <1>0, <1>6, ChMoves DEF C!P!Credit
    <2>6. [chLocal[t] EXCEPT !.num = 0] \in C!P!Locals
      <3>1. chLocal[t] \in C!P!Locals
        BY <1>0, ChHolds
      <3>. QED
        BY <3>1 DEF C!P!Locals
    <2>. QED
      BY <1>0, <2>3, <2>4, <2>5, <2>6, ChProcStep DEF C!P!Labels, RowLabels
  <1>7. CASE C!P!Again(t)
    <2>1. ChLooks
      BY <1>7 DEF C!P!Again
    <2>2. PICK l \in {"getOne", "end", "idle"}, v \in C!P!Locals : ChMoved(t, l, v)
      BY <1>0, <1>7, ChMoves DEF C!P!Again
    <2>. QED
      BY <1>0, <2>1, <2>2, ChLookStep DEF C!P!Labels, RowLabels
  <1>8. CASE C!airdropTxOne(t)
    <2>1. ChLooks
      BY <1>8 DEF C!airdropTxOne
    <2>2. CASE UNCHANGED chLocal /\ C!P!Goto(t, "clear")
      BY <1>0, <2>1, <2>2, ChMoves, ChLookStep DEF C!P!Labels, RowLabels
    <2>3. ASSUME NEW r \in C!P!Oldest(C!Waiting), chLocal' = [chLocal EXCEPT ![t].row = r],
                 C!P!Goto(t, "check")
          PROVE  ChInv'
      <3>. DEFINE v == [chLocal[t] EXCEPT !.row = r]
      <3>1. r \in C!P!Rows
        BY <1>1 DEF C!P!Oldest
      <3>2. ChMoved(t, "check", v) /\ v \in C!P!Locals /\ v.row = r
        BY <1>0, <2>3, <3>1, ChMoves, ChHolds DEF C!P!Locals
      <3>3. "check" \in C!P!Labels
        BY DEF C!P!Labels
      <3>. HIDE DEF v
      <3>. QED
        BY <1>0, <2>1, <3>1, <3>2, <3>3, ChLookStep
    <2>. QED
      BY <1>8, <2>2, <2>3 DEF C!airdropTxOne
  <1>. QED
    BY <1>2, <1>3, <1>4, <1>5, <1>6, <1>7, <1>8 DEF C!After


-----------------------------------------------------------------------------
(* The commands of the shared client. *)

BothCommand ==
    [ to : Airdrops \cup ChannelUsers, amount : Nat, by : Procs \cup ChSessions, ep : Nat,
      stage : Stage ]

CommandsOK == cmds \in Seq(BothCommand)

\* What a step of either dispatcher does to the commands.
ClientQueues == \E d \in BothCommand : d.stage = "queued" /\ cmds' = Append(cmds, d)

TwitterQueues ==
    \E d \in BothCommand : d.stage = "queued" /\ d.to \in Airdrops /\ cmds' = Append(cmds, d)

ClientReports ==
    \E c \in DOMAIN cmds, stage \in {"generated", "succeeded", "failed"} :
        cmds[c].stage \in Unfinished /\ cmds' = [cmds EXCEPT ![c].stage = stage]

ClientMoves == UNCHANGED cmds \/ ClientQueues \/ ClientReports \/ LoseUnfinished

\* An outcome is final, and a command pays the same row the same amount for ever.
CmdKept(c) ==
    /\ c \in DOMAIN cmds'
    /\ cmds'[c].to = cmds[c].to /\ cmds'[c].amount = cmds[c].amount
    /\ cmds[c].stage \in {"succeeded", "failed"} => cmds'[c].stage = cmds[c].stage

LEMMA ClientKept ==
    ASSUME CommandsOK, ClientMoves
    PROVE  CommandsOK' /\ \A c \in DOMAIN cmds : CmdKept(c)
  <1>0. cmds \in Seq(BothCommand) /\ \A c \in DOMAIN cmds : cmds[c] \in BothCommand
    BY DEF CommandsOK
  <1>1. CASE UNCHANGED cmds
    BY <1>1 DEF CommandsOK, CmdKept
  <1>2. ASSUME NEW d \in BothCommand, cmds' = Append(cmds, d)
        PROVE  CommandsOK' /\ \A c \in DOMAIN cmds : CmdKept(c)
    <2>1. cmds' \in Seq(BothCommand) /\ \A c \in DOMAIN cmds : c \in DOMAIN cmds' /\ cmds'[c] = cmds[c]
      BY <1>0, <1>2
    <2>. QED
      BY <2>1 DEF CommandsOK, CmdKept
  <1>3. ASSUME NEW d \in DOMAIN cmds, NEW stage \in {"generated", "succeeded", "failed"},
               cmds[d].stage \in Unfinished, cmds' = [cmds EXCEPT ![d].stage = stage]
        PROVE  CommandsOK' /\ \A c \in DOMAIN cmds : CmdKept(c)
    <2>1. [cmds[d] EXCEPT !.stage = stage] \in BothCommand
      BY <1>0 DEF BothCommand, Stage
    <2>2. cmds' \in Seq(BothCommand)
      BY <1>0, <1>3, <2>1
    <2>3. ASSUME NEW c \in DOMAIN cmds PROVE CmdKept(c)
      <3>1. CASE c = d
        BY <1>0, <1>3, <3>1 DEF BothCommand, CmdKept, Unfinished
      <3>2. CASE c # d
        BY <1>0, <1>3, <3>2 DEF CmdKept
      <3>. QED
        BY <3>1, <3>2
    <2>. QED
      BY <2>2, <2>3 DEF CommandsOK
  <1>4. CASE LoseUnfinished
    <2>1. cmds' = [c \in DOMAIN cmds |->
                     IF cmds[c].stage \in Unfinished
                     THEN [cmds[c] EXCEPT !.stage = "lost"] ELSE cmds[c]]
      BY <1>4 DEF LoseUnfinished
    <2>2. \A c \in DOMAIN cmds : CmdKept(c)
      BY <1>0, <2>1 DEF BothCommand, CmdKept, Unfinished
    <2>3. \A c \in DOMAIN cmds : cmds'[c] \in BothCommand
      BY <1>0, <2>1 DEF BothCommand, Stage
    <2>4. DOMAIN cmds' = 1..Len(cmds) /\ Len(cmds) \in Nat /\ DOMAIN cmds = 1..Len(cmds)
      BY <1>0, <2>1
    <2>5. cmds' = [c \in 1..Len(cmds) |-> cmds'[c]]
      BY <2>1, <2>4
    <2>6. cmds' \in Seq(BothCommand)
      BY <2>3, <2>4, <2>5
    <2>. QED
      BY <2>2, <2>6 DEF CommandsOK
  <1>. QED
    BY <1>1, <1>2, <1>3, <1>4 DEF ClientMoves, ClientQueues, ClientReports

\* The steps of the Twitter dispatcher: only airdropRun submits.
LEMMA TwitterClient ==
    ASSUME OwnInv, TwitterStep
    PROVE  UNCHANGED cmds \/ TwitterQueues
  <1>1. CASE \E a \in Airdrops : Insert(a)
    BY <1>1 DEF Insert, clientVars
  <1>2. CASE \E s \in Sessions : Request(s) \/ Feeder(s)
    BY <1>2
    DEF Request, AirdropTwitter, Proceed, ResetBudget, ResetStop, ResetDo, StartFeeder,
        AwaitStop, ClientGone, Feeder, ListAirdrops, NextAirdrop, FeederEnds, clientVars
  <1>3. ASSUME NEW p \in Procs, Runner(p) PROVE UNCHANGED cmds \/ TwitterQueues
    <2>1. CASE RunSubmit(p)
      <3>. DEFINE d == [ to |-> local[p].row, amount |-> Coin[local[p].row], by |-> p, ep |-> epoch,
                     stage |-> "queued" ]
      <3>1. UNCHANGED cmds \/ cmds' = Append(cmds, d)
        BY <2>1 DEF RunSubmit, Submit, RunAsync
      <3>2. local[p].row \in Airdrops /\ epoch \in Nat
        BY <2>1 DEF OwnInv, SessionsOK, RowHeld, RunSubmit, Submit, RowLabels, Rows
      <3>3. d \in BothCommand /\ d.stage = "queued" /\ d.to \in Airdrops
        <4>1. Coin[local[p].row] \in Nat
          BY <3>2, CoinAssumption
        <4>. QED
          BY <3>2, <4>1 DEF BothCommand, Stage
      <3>. QED
        BY <3>1, <3>3 DEF TwitterQueues
    <2>2. CASE ~RunSubmit(p)
      BY <1>3, <2>2
      DEF Runner, RunCheck, RunLoad, RunStore, PendingFind, PendingUpdate, StopClear,
          StopSend, clientVars
    <2>. QED
      BY <2>1, <2>2
  <1>4. CASE \E p \in Procs, s \in Sessions : Rendezvous(p, s)
    BY <1>4 DEF Rendezvous, clientVars
  <1>5. CASE \E t \in Threads : After(t)
    BY <1>5
    DEF After, TxFind, TxUpdate, SuccessFind, SuccessUpdate, ExtRead, ExtWrite, Credit, FailedFind,
        FailedUpdate, Again, GetOne, AfterFind, clientVars
  <1>. QED
    BY <1>1, <1>2, <1>3, <1>4, <1>5 DEF TwitterStep

\* What an event, told to the listener of either, does.
LEMMA EventStep ==
    ASSUME NEW t \in Threads, NEW c \in DOMAIN cmds
    PROVE  /\ TwitterEvent(t, c) => ClientReports
           /\ ChannelEvent(t, c) => ClientReports
  <1>1. ASSUME TwitterEvent(t, c) PROVE ClientReports
    BY <1>1
    DEF TwitterEvent, Event, OnTxGenerated, OnSucceed, OnFailed, Callback, Report, Unfinished,
        ClientReports
  <1>2. ASSUME ChannelEvent(t, c) PROVE ClientReports
    BY <1>2
    DEF ChannelEvent, C!FaucetCallback, C!P!Event, C!P!OnTxGenerated, C!P!OnSucceed, C!P!OnFailed,
        C!P!Callback, C!P!Report, C!P!Unfinished, Unfinished, ClientReports
  <1>. QED
    BY <1>1, <1>2

-----------------------------------------------------------------------------
(* What a step does to the rows and the balances of the channel dispatcher. *)
(* A callback is tracked from the report of an outcome to its last update.  *)

ChBooks == <<airdropState, channelAirdropCoin>>

ChUpdateSteps == {"successUpd", "extRead", "extWrite", "failedUpd"}

ChUntracked == C!P!Labels \ OutcomeSteps

ChOthers(p) == \A q \in C!P!Procs \ {p} : chPc'[q] = chPc[q] /\ chLocal'[q] = chLocal[q]

ChLeaves(p) ==
    /\ ChOthers(p)
    /\ p \in Threads => chPc[p] # "idle"
    /\ chPc'[p] \in ChUntracked
    /\ chLocal'[p].cmd \in {chLocal[p].cmd, 0}

ChRests == UNCHANGED <<chPc, chLocal, ChBooks>>

ChRegisters ==
    /\ \E r \in ChannelUsers :
          airdropState[r] = "absent" /\ airdropState' = [airdropState EXCEPT ![r] = "default"]
    /\ UNCHANGED <<chPc, chLocal, channelAirdropCoin>>

ChDies ==
    /\ \A p \in C!P!Procs : chPc'[p] \in ChUntracked /\ chLocal'[p].cmd = 0
    /\ UNCHANGED ChBooks

ChWalks(p) ==
    /\ ChLeaves(p)
    /\ chPc[p] \in OutcomeSteps => chLocal'[p].cmd = chLocal[p].cmd
    /\ UNCHANGED ChBooks

ChMarks(p) ==
    /\ ChLeaves(p)
    /\ chPc[p] = "pendingUpd"
    /\ airdropState' = [airdropState EXCEPT ![chLocal[p].row] = "pending"]
    /\ UNCHANGED channelAirdropCoin

\* Where the callback of an outcome starts.
Entry(stage) ==
    CASE stage = "generated" -> "txFind"
      [] stage = "succeeded" -> "successFind"
      [] stage = "failed" -> "failedFind"

\* The callbacks, by the stage the command is in.
ChStarts(t) ==
    \E c \in DOMAIN cmds, stage \in {"generated", "succeeded", "failed"} :
        /\ ChOthers(t)
        /\ \A u \in Threads : chLocal[u].cmd # c
        /\ chPc[t] = "idle"
        /\ cmds[c].stage \in Unfinished
        /\ cmds' = [cmds EXCEPT ![c].stage = stage]
        /\ chLocal'[t].cmd = c
        /\ chPc'[t] = Entry(stage)
        /\ UNCHANGED ChBooks

ChTakes(t) ==
    /\ ChOthers(t)
    /\ \/ chPc[t] = "successFind" /\ chPc'[t] = "successUpd"
       \/ chPc[t] = "failedFind" /\ chPc'[t] = "failedUpd"
    /\ chLocal'[t].cmd = chLocal[t].cmd
    /\ chLocal'[t].row = C!TrackID(chLocal[t].cmd)
    /\ chLocal'[t].row \in C!Pending
    /\ UNCHANGED ChBooks

ChSettles(t) ==
    /\ ChOthers(t) /\ UNCHANGED chLocal
    /\ \/ /\ chPc[t] = "successUpd" /\ chPc'[t] \in {"extRead", "again"}
          /\ airdropState' = [airdropState EXCEPT ![chLocal[t].row] = "success"]
       \/ /\ chPc[t] = "failedUpd" /\ chPc'[t] = "again"
          /\ airdropState' = [airdropState EXCEPT ![chLocal[t].row] = "failed"]
    /\ UNCHANGED channelAirdropCoin

ChReads(t) ==
    /\ ChOthers(t)
    /\ chPc[t] = "extRead" /\ chPc'[t] = "extWrite"
    /\ chLocal'[t].cmd = chLocal[t].cmd /\ chLocal'[t].row = chLocal[t].row
    /\ chLocal'[t].num = channelAirdropCoin[ChannelUID[chLocal[t].row]]
    /\ UNCHANGED ChBooks

ChCredits(t) ==
    /\ ChLeaves(t)
    /\ chLocal'[t].cmd = chLocal[t].cmd
    /\ chPc[t] = "extWrite"
    /\ channelAirdropCoin' =
          [channelAirdropCoin EXCEPT
             ![ChannelUID[chLocal[t].row]] = chLocal[t].num + copied[t][chLocal[t].row]]
    /\ UNCHANGED airdropState

ChOfCallback(t) ==
    ChStarts(t) \/ ChTakes(t) \/ ChSettles(t) \/ ChReads(t) \/ ChCredits(t)

ChEffect ==
    \/ ChRests \/ ChRegisters \/ ChDies
    \/ \E p \in C!P!Procs : ChWalks(p) \/ ChMarks(p)
    \/ \E t \in Threads : ChOfCallback(t)

\* All of it but the start of a callback and a crash.
ChGoes ==
    \/ ChRests \/ ChRegisters
    \/ \E p \in C!P!Procs : ChWalks(p) \/ ChMarks(p)
    \/ \E t \in Threads : ChTakes(t) \/ ChSettles(t) \/ ChReads(t) \/ ChCredits(t)

\* Where goroutine p is after it goes on, and what it holds.
LEMMA ChMovesTo ==
    ASSUME ChInv, NEW p \in C!P!Procs
    PROVE  /\ \A l : C!P!Goto(p, l) /\ UNCHANGED chLocal
                 => chPc'[p] = l /\ ChOthers(p) /\ chLocal'[p].cmd = chLocal[p].cmd
           /\ C!P!Return(p) => chPc'[p] \in {"end", "idle"} /\ ChOthers(p) /\ chLocal'[p].cmd = 0
           /\ \A l, r : C!P!Goto(p, l) /\ chLocal' = [chLocal EXCEPT ![p].row = r]
                 => /\ chPc'[p] = l /\ ChOthers(p)
                    /\ chLocal'[p].cmd = chLocal[p].cmd /\ chLocal'[p].row = r
           /\ \A l, n : C!P!Goto(p, l) /\ chLocal' = [chLocal EXCEPT ![p].num = n]
                 => /\ chPc'[p] = l /\ ChOthers(p)
                    /\ chLocal'[p].cmd = chLocal[p].cmd /\ chLocal'[p].row = chLocal[p].row
                    /\ chLocal'[p].num = n
           /\ \A l, c : C!P!Goto(p, l) /\ chLocal' = [chLocal EXCEPT ![p].chan = c]
                 => chPc'[p] = l /\ ChOthers(p) /\ chLocal'[p].cmd = chLocal[p].cmd
           /\ \A l, c : C!P!Goto(p, l) /\ chLocal' = [chLocal EXCEPT ![p].ctx = c]
                 => chPc'[p] = l /\ ChOthers(p) /\ chLocal'[p].cmd = chLocal[p].cmd
           /\ \A l, c, x : C!P!Goto(p, l) /\ chLocal' = [chLocal EXCEPT ![p].cmd = c, ![p].ctx = x]
                 => chPc'[p] = l /\ ChOthers(p) /\ chLocal'[p].cmd = c
  <1>. USE DEF ChInv, ChProcsOK, C!P!Goto, ChOthers
  <1>1. C!P!Return(p) => chPc'[p] \in {"end", "idle"} /\ ChOthers(p) /\ chLocal'[p].cmd = 0
    BY DEF C!P!Return, C!P!NoLocals
  <1>2. \A l, n : C!P!Goto(p, l) /\ chLocal' = [chLocal EXCEPT ![p].num = n]
          => /\ chPc'[p] = l /\ ChOthers(p)
             /\ chLocal'[p].cmd = chLocal[p].cmd /\ chLocal'[p].row = chLocal[p].row
             /\ chLocal'[p].num = n
    BY DEF C!P!Locals
  <1>3. \A l, r : C!P!Goto(p, l) /\ chLocal' = [chLocal EXCEPT ![p].row = r]
          => /\ chPc'[p] = l /\ ChOthers(p)
             /\ chLocal'[p].cmd = chLocal[p].cmd /\ chLocal'[p].row = r
    BY DEF C!P!Locals
  <1>4. \A l, c, x : C!P!Goto(p, l) /\ chLocal' = [chLocal EXCEPT ![p].cmd = c, ![p].ctx = x]
          => chPc'[p] = l /\ ChOthers(p) /\ chLocal'[p].cmd = c
    BY DEF C!P!Locals
  <1>. QED
    BY <1>1, <1>2, <1>3, <1>4 DEF C!P!Locals

\* The labels of an outcome, and the others.
LEMMA ChLabels ==
    /\ ChUntracked =
          { "idle", "list", "next", "end", "check", "submit", "load", "store",
            "pendingFind", "pendingUpd", "clear", "send", "sending", "txFind", "txUpd",
            "again", "getOne" }
    /\ OutcomeSteps = CreditSteps \cup FailSteps
    /\ CreditSteps = {"successFind", "successUpd", "extRead", "extWrite"}
    /\ FailSteps = {"failedFind", "failedUpd"}
    /\ ChUpdateSteps = {"successUpd", "extRead", "extWrite", "failedUpd"}
    /\ OutcomeSteps \cap ChUntracked = {}
  BY DEF ChUntracked, OutcomeSteps, CreditSteps, FailSteps, ChUpdateSteps, C!P!Labels

\* A goroutine that reads, or only decides where it goes on.
LEMMA ChWalkStep ==
    ASSUME ChInv, NEW p \in C!P!Procs, UNCHANGED ChBooks, p \in Threads => chPc[p] # "idle",
           ChOthers(p), chPc'[p] \in ChUntracked,
           \/ chLocal'[p].cmd = chLocal[p].cmd
           \/ chLocal'[p].cmd = 0 /\ chPc[p] \notin OutcomeSteps
    PROVE  ChGoes
  BY DEF ChGoes, ChWalks, ChLeaves

\* The steps of the world, of the request and of the feeder.
LEMMA ChWorldEffect ==
    ASSUME ChInv,
           \/ \E r \in ChannelUsers : C!Register(r)
           \/ \E q \in Plans, r \in ChannelUsers : C!FindChannelUserByUID(q, r)
           \/ \E q \in Plans : C!PlanEnds(q)
           \/ \E s \in ChSessions : C!AirdropChannel(s) \/ C!ClientGone(s) \/ C!airdropTx(s)
           \/ \E p \in C!P!Procs, s \in ChSessions : C!Rendezvous(p, s)
    PROVE  ChGoes /\ UNCHANGED cmds
  <1>. USE DEF C!P!collectionVars, C!rowVars, C!P!clientVars, C!clientVars, C!P!procVars, C!procVars,
               ChBooks
  <1>0. ChProcsOK /\ ChSessions \subseteq C!P!Procs /\ ChSessions \cap Threads = {}
    BY KindsAssumption DEF ChInv, C!P!Procs, Procs
  <1>1. ASSUME NEW r \in ChannelUsers, C!Register(r) PROVE ChGoes /\ UNCHANGED cmds
    BY <1>1 DEF C!Register, C!P!Insert, C!P!CreateAirdrop, ChGoes, ChRegisters
  <1>2. ASSUME NEW q, C!PlanEnds(q) \/ \E r : C!FindChannelUserByUID(q, r)
        PROVE  ChGoes /\ UNCHANGED cmds
    BY <1>2 DEF C!PlanEnds, C!FindChannelUserByUID, C!dispatcherVars, ChGoes, ChRests
  <1>3. ASSUME NEW s \in ChSessions, C!ClientGone(s) PROVE ChGoes /\ UNCHANGED cmds
    BY <1>3 DEF C!ClientGone, C!P!ClientGone, ChGoes, ChRests
  <1>4. ASSUME NEW s \in ChSessions, C!AirdropChannel(s) PROVE ChGoes /\ UNCHANGED cmds
    <2>1. CASE C!P!ResetBudget(s) \/ C!P!ResetStop(s) \/ C!P!ResetDo(s) \/ C!P!AwaitStop(s)
      BY <2>1 DEF C!P!ResetBudget, C!P!ResetStop, C!P!ResetDo, C!P!AwaitStop, ChGoes, ChRests
    <2>2. CASE C!P!StartFeeder(s)
      <3>1. chPc'[s] = "list" /\ ChOthers(s) /\ chLocal'[s].cmd = chLocal[s].cmd
        BY <1>0, <2>2, ChMovesTo DEF C!P!StartFeeder
      <3>2. UNCHANGED <<C!rowVars, cmds>>
        BY <2>2 DEF C!P!StartFeeder
      <3>. QED
        BY <1>0, <3>1, <3>2, ChWalkStep, ChLabels
    <2>. QED
      BY <1>4, <2>1, <2>2 DEF C!AirdropChannel, C!P!AirdropTwitter, C!P!Proceed
  <1>5. ASSUME NEW s \in ChSessions, C!airdropTx(s) PROVE ChGoes /\ UNCHANGED cmds
    <2>1. UNCHANGED <<C!rowVars, cmds>> /\ chPc[s] \in {"list", "next"}
      BY <1>5 DEF C!airdropTx, C!getChannelAirdropList, C!P!NextAirdrop, C!P!FeederEnds
    <2>2. /\ chPc'[s] \in {"clear", "next", "check", "end", "idle"} /\ ChOthers(s)
          /\ chLocal'[s].cmd \in {chLocal[s].cmd, 0}
      <3>1. CASE C!getChannelAirdropList(s)
        BY <1>0, <3>1, ChMovesTo DEF C!getChannelAirdropList
      <3>2. CASE C!P!NextAirdrop(s)
        <4>1. PICK r : C!P!Goto(s, "check") /\ chLocal' = [chLocal EXCEPT ![s].row = r]
          BY <3>2 DEF C!P!NextAirdrop
        <4>. QED
          BY <1>0, <4>1, ChMovesTo
      <3>3. CASE C!P!FeederEnds(s)
        BY <1>0, <3>3, ChMovesTo DEF C!P!FeederEnds
      <3>. QED
        BY <1>5, <3>1, <3>2, <3>3 DEF C!airdropTx
    <2>. QED
      BY <1>0, <2>1, <2>2, ChWalkStep, ChLabels
  <1>6. ASSUME NEW p \in C!P!Procs, NEW s \in ChSessions, C!Rendezvous(p, s)
        PROVE  ChGoes /\ UNCHANGED cmds
    <2>1. UNCHANGED <<C!rowVars, cmds>> /\ chPc[p] = "sending"
      BY <1>6 DEF C!Rendezvous, C!P!Rendezvous
    <2>2. chPc'[p] \in {"end", "idle"} /\ ChOthers(p) /\ chLocal'[p].cmd = 0
      BY <1>6, ChMovesTo DEF C!Rendezvous, C!P!Rendezvous
    <2>. QED
      BY <2>1, <2>2, ChWalkStep, ChLabels
  <1>. QED
    BY <1>1, <1>2, <1>3, <1>4, <1>5, <1>6

LEMMA ChDownEffect == C!Down => ChEffect
  BY ChLabels
  DEF C!Down, C!P!Down, C!P!NoLocals, C!P!collectionVars, ChBooks, ChEffect, ChDies

LEMMA ChRunnerEffect ==
    ASSUME ChInv, ChOwnOK, NEW p \in C!P!Procs, C!Runner(p)
    PROVE  ChGoes /\ (UNCHANGED cmds \/ ClientQueues)
  <1>. USE DEF C!P!collectionVars, C!rowVars, C!P!clientVars, C!clientVars, C!P!Keep, ChBooks
  <1>0. ChProcsOK
    BY DEF ChInv
  <1>1. CASE C!P!RunCheck(p)
    <2>1. UNCHANGED <<cmds, ChBooks>> /\ chPc[p] = "check"
      BY <1>1 DEF C!P!RunCheck
    <2>2. chPc'[p] \in {"clear", "submit"} /\ ChOthers(p) /\ chLocal'[p].cmd = chLocal[p].cmd
      BY <1>1, ChMovesTo DEF C!P!RunCheck
    <2>. QED
      BY <2>1, <2>2, ChWalkStep, ChLabels
  <1>2. CASE C!P!Submit(p, copied[p][chLocal[p].row])
    <2>. DEFINE d == [ to |-> chLocal[p].row, amount |-> copied[p][chLocal[p].row], by |-> p,
                       ep |-> chEpoch, stage |-> "queued" ]
    <2>1. /\ UNCHANGED ChBooks /\ chPc[p] = "submit"
          /\ UNCHANGED cmds \/ cmds' = Append(cmds, d)
      BY <1>2 DEF C!P!Submit, C!P!RunAsync
    <2>2. chPc'[p] \in {"clear", "load"} /\ ChOthers(p) /\ chLocal'[p].cmd = chLocal[p].cmd
      BY <1>2, ChMovesTo DEF C!P!Submit
    <2>3. d \in BothCommand /\ d.stage = "queued"
      <3>1. chLocal[p].row \in ChannelUsers /\ chEpoch \in Nat
        BY <2>1, ChHolds DEF RowLabels, ChInv, ChGlobalsOK
      <3>2. copied[p][chLocal[p].row] \in Nat
        BY <3>1 DEF ChOwnOK
      <3>. QED
        BY <3>1, <3>2 DEF BothCommand, Stage, C!P!Procs, Procs
    <2>4. UNCHANGED cmds \/ ClientQueues
      BY <2>1, <2>3 DEF ClientQueues
    <2>. QED
      BY <2>1, <2>2, <2>4, ChWalkStep, ChLabels
  <1>3. CASE C!P!RunLoad(p)
    <2>1. UNCHANGED <<cmds, ChBooks>> /\ chPc[p] = "load"
      BY <1>3 DEF C!P!RunLoad
    <2>2. chPc'[p] = "store" /\ ChOthers(p) /\ chLocal'[p].cmd = chLocal[p].cmd
      BY <1>3, ChMovesTo DEF C!P!RunLoad
    <2>. QED
      BY <2>1, <2>2, ChWalkStep, ChLabels
  <1>4. CASE C!P!RunStore(p)
    <2>1. UNCHANGED <<cmds, ChBooks>> /\ chPc[p] = "store"
      BY <1>4 DEF C!P!RunStore
    <2>2. chPc'[p] = "pendingFind" /\ ChOthers(p) /\ chLocal'[p].cmd = chLocal[p].cmd
      BY <1>4, ChMovesTo DEF C!P!RunStore
    <2>. QED
      BY <2>1, <2>2, ChWalkStep, ChLabels
  <1>5. CASE C!pendingAfterFind(p)
    <2>1. UNCHANGED <<cmds, ChBooks>> /\ chPc[p] = "pendingFind"
      BY <1>5 DEF C!pendingAfterFind
    <2>2. chPc'[p] \in {"clear", "pendingUpd"} /\ ChOthers(p) /\ chLocal'[p].cmd = chLocal[p].cmd
      BY <1>5, ChMovesTo DEF C!pendingAfterFind
    <2>. QED
      BY <2>1, <2>2, ChWalkStep, ChLabels
  <1>6. CASE C!P!PendingUpdate(p)
    <2>1. UNCHANGED cmds /\ chPc[p] = "pendingUpd"
      BY <1>6 DEF C!P!PendingUpdate
    <2>2. /\ chPc'[p] \in {"next", "end", "idle", "clear"}
          /\ ChOthers(p) /\ chLocal'[p].cmd \in {chLocal[p].cmd, 0}
      BY <1>6, ChMovesTo DEF C!P!PendingUpdate
    <2>3. CASE UNCHANGED C!rowVars
      BY <2>1, <2>2, <2>3, ChWalkStep, ChLabels
    <2>4. CASE C!P!UpdateStatusPending(chLocal[p].row)
      <3>1. ChMarks(p)
        BY <2>1, <2>2, <2>4, ChLabels DEF ChMarks, ChLeaves, C!P!UpdateStatusPending
      <3>. QED
        BY <2>1, <3>1 DEF ChGoes
    <2>. QED
      BY <1>6, <2>3, <2>4 DEF C!P!PendingUpdate
  <1>7. CASE C!P!StopClear(p)
    <2>1. UNCHANGED <<cmds, ChBooks>> /\ chPc[p] = "clear"
      BY <1>7 DEF C!P!StopClear
    <2>2. chPc'[p] = "send" /\ ChOthers(p) /\ chLocal'[p].cmd = chLocal[p].cmd
      BY <1>7, ChMovesTo DEF C!P!StopClear
    <2>. QED
      BY <2>1, <2>2, ChWalkStep, ChLabels
  <1>8. CASE C!P!StopSend(p)
    <2>1. UNCHANGED <<cmds, ChBooks>> /\ chPc[p] = "send"
      BY <1>8 DEF C!P!StopSend
    <2>2. chPc'[p] = "sending" /\ ChOthers(p) /\ chLocal'[p].cmd = chLocal[p].cmd
      BY <1>8, ChMovesTo DEF C!P!StopSend
    <2>. QED
      BY <2>1, <2>2, ChWalkStep, ChLabels
  <1>. QED
    BY <1>1, <1>2, <1>3, <1>4, <1>5, <1>6, <1>7, <1>8 DEF C!Runner, C!airdropRun, C!airdropToStop

LEMMA ChEventEffect ==
    ASSUME ChInv, NEW t \in Threads, NEW c \in DOMAIN cmds, C!FaucetCallback(t, c)
    PROVE  ChStarts(t)
  <1>0. t \in C!P!Procs /\ ChProcsOK
    BY DEF C!P!Procs, ChInv
  <1>1. PICK from \in SUBSET Unfinished, stage \in {"generated", "succeeded", "failed"},
             entry \in {"txFind", "successFind", "failedFind"} :
          /\ C!P!Callback(t, c, from, stage, entry)
          /\ entry = Entry(stage)
    BY DEF C!FaucetCallback, C!P!Event, C!P!OnTxGenerated, C!P!OnSucceed, C!P!OnFailed, Unfinished,
           C!P!Unfinished, Entry
  <1>2. chPc'[t] = entry /\ chLocal'[t].cmd = c /\ ChOthers(t)
    BY <1>0, <1>1, ChMovesTo DEF C!P!Callback
  <1>3. /\ \A u \in Threads : chLocal[u].cmd # c
        /\ chPc[t] = "idle"
        /\ cmds[c].stage \in Unfinished
        /\ cmds' = [cmds EXCEPT ![c].stage = stage]
        /\ UNCHANGED ChBooks
    BY <1>1 DEF C!P!Callback, C!P!Report, C!P!collectionVars, ChBooks
  <1>. QED
    BY <1>1, <1>2, <1>3 DEF ChStarts

LEMMA ChFindEffect ==
    ASSUME ChInv, NEW t \in Threads, NEW rows \in SUBSET C!Pending,
           NEW yes, NEW skip,
           C!FindChannelUserByID(t, rows, yes, skip),
           skip => C!GoOn(t) \/ (C!P!Return(t) /\ chPc[t] = "txFind"),
           \/ chPc[t] = "txFind" /\ yes = "txUpd"
           \/ chPc[t] = "successFind" /\ yes = "successUpd"
           \/ chPc[t] = "failedFind" /\ yes = "failedUpd"
    PROVE  ChGoes
  <1>0. t \in C!P!Procs /\ ChProcsOK
    BY DEF C!P!Procs, ChInv
  <1>1. UNCHANGED ChBooks
    BY DEF C!FindChannelUserByID, C!clientVars, C!rowVars, ChBooks
  <1>2. CASE skip
    <2>1. CASE C!GoOn(t)
      BY <1>0, <1>1, <2>1, ChMovesTo, ChWalkStep, ChLabels DEF C!GoOn
    <2>2. CASE C!P!Return(t) /\ chPc[t] = "txFind"
      BY <1>0, <1>1, <2>2, ChMovesTo, ChWalkStep, ChLabels
    <2>. QED
      BY <1>2, <2>1, <2>2
  <1>3. CASE /\ C!TrackID(chLocal[t].cmd) \in rows
             /\ chLocal' = [chLocal EXCEPT ![t].row = C!TrackID(chLocal[t].cmd)]
             /\ C!P!Goto(t, yes)
    <2>1. /\ chPc'[t] = yes /\ ChOthers(t)
          /\ chLocal'[t].cmd = chLocal[t].cmd /\ chLocal'[t].row = C!TrackID(chLocal[t].cmd)
      BY <1>0, <1>3, ChMovesTo
    <2>2. CASE yes = "txUpd"
      BY <1>0, <1>1, <2>1, <2>2, ChWalkStep, ChLabels
    <2>3. CASE yes # "txUpd"
      <3>1. ChTakes(t)
        BY <1>1, <1>3, <2>1, <2>3 DEF ChTakes
      <3>. QED
        BY <3>1 DEF ChGoes
    <2>. QED
      BY <2>2, <2>3
  <1>. QED
    BY <1>2, <1>3 DEF C!FindChannelUserByID

LEMMA ChAfterEffect ==
    ASSUME ChInv, NEW t \in Threads, C!After(t)
    PROVE  ChGoes /\ UNCHANGED cmds
  <1>. USE DEF C!P!collectionVars, C!rowVars, C!P!clientVars, C!clientVars, C!P!Keep, ChBooks
  <1>0. t \in C!P!Procs
    BY DEF C!P!Procs
  <1>1. UNCHANGED cmds
    BY DEF C!After, C!successAfterFind, C!failedAfterFind, C!txGeneratedAfterFind,
           C!FindChannelUserByID, C!txGeneratedAfterUpdate, C!P!SuccessUpdate, C!P!FailedUpdate,
           C!P!ExtRead, C!P!Credit, C!P!Again, C!airdropTxOne
  <1>2. CASE C!successAfterFind(t) \/ C!failedAfterFind(t) \/ C!txGeneratedAfterFind(t)
    BY <1>1, <1>2, ChFindEffect DEF C!successAfterFind, C!failedAfterFind, C!txGeneratedAfterFind
  <1>3. CASE C!txGeneratedAfterUpdate(t)
    <2>1. chPc[t] = "txUpd" /\ UNCHANGED ChBooks
      BY <1>3 DEF C!txGeneratedAfterUpdate, C!UpdateTxID
    <2>2. chPc'[t] \in {"end", "idle"} /\ ChOthers(t) /\ chLocal'[t].cmd = 0
      BY <1>0, <1>3, ChMovesTo DEF C!txGeneratedAfterUpdate
    <2>. QED
      BY <1>0, <1>1, <2>1, <2>2, ChWalkStep, ChLabels
  <1>4. CASE C!P!SuccessUpdate(t) \/ C!P!FailedUpdate(t)
    <2>. USE <1>4 DEF C!P!SuccessUpdate, C!P!FailedUpdate
    <2>1. CASE UNCHANGED C!rowVars /\ C!P!Goto(t, "again")
      BY <1>0, <1>1, <2>1, ChMovesTo, ChWalkStep, ChLabels
    <2>2. \A l : C!P!Goto(t, l) => chPc'[t] = l /\ ChOthers(t)
      BY <1>0, ChMovesTo
    <2>3. CASE C!P!SuccessUpdate(t) /\ C!P!UpdateStatus(chLocal[t].row, "success")
      <3>1. ChSettles(t)
        BY <2>2, <2>3 DEF ChSettles, C!P!UpdateStatus
      <3>. QED
        BY <1>1, <3>1 DEF ChGoes
    <2>4. CASE C!P!FailedUpdate(t) /\ C!P!UpdateStatus(chLocal[t].row, "failed")
      <3>1. ChSettles(t)
        BY <2>2, <2>4 DEF ChSettles, C!P!UpdateStatus
      <3>. QED
        BY <1>1, <3>1 DEF ChGoes
    <2>. QED
      BY <2>1, <2>3, <2>4
  <1>5. CASE C!P!ExtRead(t)
    <2>1. CASE UNCHANGED chLocal /\ C!P!Goto(t, "again")
      BY <1>0, <1>1, <1>5, <2>1, ChMovesTo, ChWalkStep, ChLabels DEF C!P!ExtRead
    <2>2. CASE /\ chLocal' = [chLocal EXCEPT ![t].num = channelAirdropCoin[ChannelUID[chLocal[t].row]]]
               /\ C!P!Goto(t, "extWrite")
      <3>. DEFINE n == channelAirdropCoin[ChannelUID[chLocal[t].row]]
      <3>1. /\ chPc'[t] = "extWrite" /\ ChOthers(t)
            /\ chLocal'[t].cmd = chLocal[t].cmd /\ chLocal'[t].row = chLocal[t].row
            /\ chLocal'[t].num = n
        <4>. HIDE DEF n
        <4>. QED
          BY <1>0, <2>2, ChMovesTo DEF n
      <3>. QED
        BY <1>1, <1>5, <3>1 DEF C!P!ExtRead, ChGoes, ChReads
    <2>. QED
      BY <1>5, <2>1, <2>2 DEF C!P!ExtRead
  <1>6. CASE C!P!Credit(t, copied[t][chLocal[t].row])
    <2>1. chPc'[t] = "again" /\ ChOthers(t) /\ chLocal'[t].cmd = chLocal[t].cmd
      BY <1>0, <1>6, ChMovesTo DEF C!P!Credit
    <2>2. CASE UNCHANGED C!rowVars
      BY <1>0, <1>1, <1>6, <2>1, <2>2, ChWalkStep, ChLabels DEF C!P!Credit
    <2>3. CASE C!P!UpdateAirdropCoin(ChannelUID[chLocal[t].row],
                                     chLocal[t].num + copied[t][chLocal[t].row])
      <3>1. ChCredits(t)
        BY <1>6, <2>1, <2>3, ChLabels DEF C!P!Credit, ChCredits, ChLeaves, C!P!UpdateAirdropCoin
      <3>. QED
        BY <1>1, <3>1 DEF ChGoes
    <2>. QED
      BY <1>6, <2>2, <2>3 DEF C!P!Credit
  <1>7. CASE C!P!Again(t)
    <2>1. /\ chPc[t] = "again" /\ UNCHANGED ChBooks
          /\ chPc'[t] \in {"getOne", "end", "idle"} /\ ChOthers(t)
          /\ chLocal'[t].cmd \in {chLocal[t].cmd, 0}
      BY <1>0, <1>7, ChMovesTo DEF C!P!Again
    <2>. QED
      BY <1>0, <1>1, <2>1, ChWalkStep, ChLabels
  <1>8. CASE C!airdropTxOne(t)
    <2>1. /\ chPc[t] = "getOne" /\ UNCHANGED ChBooks
          /\ chPc'[t] \in {"check", "clear"} /\ ChOthers(t)
          /\ chLocal'[t].cmd = chLocal[t].cmd
      <3>1. CASE UNCHANGED chLocal /\ C!P!Goto(t, "clear")
        BY <1>0, <1>8, <3>1, ChMovesTo DEF C!airdropTxOne
      <3>2. ASSUME NEW r, chLocal' = [chLocal EXCEPT ![t].row = r], C!P!Goto(t, "check")
            PROVE  /\ chPc'[t] = "check" /\ ChOthers(t)
                   /\ chLocal'[t].cmd = chLocal[t].cmd
        BY <1>0, <3>2, ChMovesTo
      <3>. QED
        BY <1>8, <3>1, <3>2 DEF C!airdropTxOne
    <2>. QED
      BY <1>0, <1>1, <2>1, ChWalkStep, ChLabels
  <1>. QED
    BY <1>2, <1>3, <1>4, <1>5, <1>6, <1>7, <1>8 DEF C!After

-----------------------------------------------------------------------------
(* The amounts: a step copies documents, is one of a plan, or leaves them. *)

ChOwnEffect ==
    \/ UNCHANGED C!ownVars
    \/ \E p \in C!P!Procs : \E R : C!Copy(p, R)
    \/ \E q \in Plans, r \in ChannelUsers : C!FindChannelUserByUID(q, r)
    \/ \E q \in Plans : C!PlanEnds(q)
    \/ C!Down

LEMMA ChOwnStep == ChOwnOK /\ ChOwnEffect => ChOwnOK'
  <1>. SUFFICES ASSUME ChOwnOK, ChOwnEffect PROVE ChOwnOK'
    OBVIOUS
  <1>. USE DEF ChOwnOK, C!ownVars, C!planVars
  <1>0. MaxAmount \in [ChannelUsers -> Nat]
    BY ChannelAssumption
  <1>1. CASE UNCHANGED C!ownVars
    BY <1>1
  <1>2. ASSUME NEW p \in C!P!Procs, NEW R, C!Copy(p, R) PROVE ChOwnOK'
    <2>1. UNCHANGED <<validState, amount, doChannelUser>>
      BY <1>2 DEF C!Copy
    <2>. DEFINE f == [r \in ChannelUsers |-> IF r \in R THEN amount[r] ELSE 0]
    <2>2. f \in [ChannelUsers -> Nat] /\ \A r \in ChannelUsers : f[r] <= MaxAmount[r]
      BY <1>0
    <2>3. copied' = [copied EXCEPT ![p] = f]
      BY <1>2 DEF C!Copy
    <2>. HIDE DEF f
    <2>. QED
      BY <2>1, <2>2, <2>3
  <1>3. ASSUME NEW q \in Plans, NEW r \in ChannelUsers, C!FindChannelUserByUID(q, r)
        PROVE  ChOwnOK'
    BY <1>3 DEF C!FindChannelUserByUID
  <1>4. ASSUME NEW q \in Plans, C!PlanEnds(q) PROVE ChOwnOK'
    <2>. DEFINE r == doChannelUser[q]
    <2>1. r \in ChannelUsers /\ UNCHANGED copied
          /\ doChannelUser' = [doChannelUser EXCEPT ![q] = C!P!NoRow]
      BY <1>4 DEF C!PlanEnds
    <2>2. CASE UNCHANGED <<validState, amount>>
      BY <2>1, <2>2
    <2>3. ASSUME NEW v \in C!UserValidState, NEW coin \in 0..MaxAmount[r],
                 C!UpdateCreateAirdrop(r, v, coin)
          PROVE  ChOwnOK'
      <3>1. /\ validState' = [validState EXCEPT ![r] = v]
            /\ amount' = [amount EXCEPT ![r] = coin]
        BY <2>3 DEF C!UpdateCreateAirdrop
      <3>2. coin \in Nat /\ coin <= MaxAmount[r]
        BY <1>0, <2>1
      <3>. HIDE DEF r
      <3>. QED
        BY <2>1, <3>1, <3>2
    <2>4. 0 \in 0..MaxAmount[r] /\ {"success", "failed"} \subseteq C!UserValidState
      BY <1>0, <2>1 DEF C!UserValidState
    <2>. QED
      BY <1>4, <2>2, <2>3, <2>4 DEF C!PlanEnds
  <1>5. CASE C!Down
    <2>1. \A r \in ChannelUsers : 0 <= MaxAmount[r]
      BY <1>0
    <2>. QED
      BY <1>5, <2>1 DEF C!Down, C!NothingCopied
  <1>. QED
    BY <1>1, <1>2, <1>3, <1>4, <1>5 DEF ChOwnEffect

LEMMA ChOwnInit == C!Init => ChOwnOK
  <1>1. \A r \in ChannelUsers : 0 <= MaxAmount[r]
    BY ChannelAssumption
  <1>. QED
    BY <1>1 DEF C!Init, ChOwnOK, C!UserValidState, C!NothingCopied

LEMMA ChannelOwn == ChannelStep => ChOwnEffect
  <1>. SUFFICES ASSUME ChannelStep PROVE ChOwnEffect
    OBVIOUS
  <1>0. ChSessions \subseteq C!P!Procs /\ Threads \subseteq C!P!Procs
    BY DEF C!P!Procs
  <1>1. CASE \E r \in ChannelUsers : C!Register(r)
    BY <1>1 DEF C!Register, ChOwnEffect
  <1>2. ASSUME NEW s \in ChSessions, C!AirdropChannel(s) \/ C!ClientGone(s) \/ C!airdropTx(s)
        PROVE  ChOwnEffect
    BY <1>0, <1>2
    DEF C!AirdropChannel, C!ClientGone, C!airdropTx, C!getChannelAirdropList, ChOwnEffect
  <1>3. ASSUME NEW p \in ChSessions \cup Threads,
               C!Runner(p) \/ \E s \in ChSessions : C!Rendezvous(p, s)
        PROVE  ChOwnEffect
    BY <1>3
    DEF C!Runner, C!airdropRun, C!airdropToStop, C!pendingAfterFind, C!Rendezvous, ChOwnEffect
  <1>4. ASSUME NEW t \in Threads, C!After(t) PROVE ChOwnEffect
    BY <1>0, <1>4
    DEF C!After, C!successAfterFind, C!failedAfterFind, C!txGeneratedAfterFind,
        C!FindChannelUserByID, C!txGeneratedAfterUpdate, C!airdropTxOne, ChOwnEffect
  <1>. QED
    BY <1>1, <1>2, <1>3, <1>4 DEF ChannelStep, ChOwnEffect

-----------------------------------------------------------------------------
(* Both dispatchers together. *)

BothInv == OwnInv /\ ChInv /\ ChOwnOK /\ CommandsOK

\* Every step keeps the types, and is one that the lemmas above describe.
BothStep == BothInv' /\ ChEffect /\ ClientMoves

\* What the steps of the one dispatcher leave to the other.
LEMMA OtherKept ==
    ASSUME BothInv
    PROVE  /\ UNCHANGED channelVars => ChInv' /\ ChEffect /\ UNCHANGED C!ownVars
           /\ UNCHANGED twitterVars => OwnInv'
  <1>1. ASSUME UNCHANGED channelVars PROVE ChInv' /\ ChEffect /\ UNCHANGED C!ownVars
    <2>1. UNCHANGED <<C!rowVars, C!globals, C!sessionVars, C!procVars>>
      BY <1>1 DEF channelVars, C!rowVars, C!globals, C!sessionVars, C!procVars
    <2>2. UNCHANGED <<chPc, chTodo, chLocal, chEpoch, ChBooks, C!ownVars>>
      BY <1>1 DEF channelVars, ChBooks, C!ownVars, C!planVars
    <2>. QED
      BY <2>1, <2>2, ChKept DEF BothInv, ChInv, ChEffect, ChRests
  <1>2. ASSUME UNCHANGED twitterVars PROVE OwnInv'
    <2>1. UNCHANGED <<collectionVars, globals, sessionVars, procVars>>
      BY <1>2 DEF twitterVars
    <2>2. DbOK' /\ GlobalsOK' /\ SessionsOK' /\ Rows' = Rows
      BY <2>1, Kept, RowsStay DEF BothInv, OwnInv
    <2>. QED
      BY <2>1, <2>2, OwnStays DEF BothInv
  <1>. QED
    BY <1>1, <1>2

LEMMA TwitterKept ==
    ASSUME BothInv, TwitterStep
    PROVE  OwnInv' /\ (UNCHANGED cmds \/ TwitterQueues)
  <1>0. OwnInv
    BY DEF BothInv
  <1>1. ASSUME NEW a \in Airdrops, Insert(a) PROVE OwnInv'
    BY <1>0, <1>1, OwnWorld
  <1>2. ASSUME NEW s \in Sessions, Request(s) \/ Feeder(s) PROVE OwnInv'
    BY <1>0, <1>2, OwnWorld, OwnFeeder
  <1>3. ASSUME NEW p \in Procs, Runner(p) PROVE OwnInv'
    BY <1>0, <1>3, OwnRunner
  <1>4. ASSUME NEW p \in Procs, NEW s \in Sessions, Rendezvous(p, s) PROVE OwnInv'
    BY <1>0, <1>4, OwnWorld
  <1>5. ASSUME NEW t \in Threads, After(t) PROVE OwnInv'
    BY <1>0, <1>5, OwnAfter
  <1>6. OwnInv'
    BY <1>1, <1>2, <1>3, <1>4, <1>5 DEF TwitterStep
  <1>. QED
    BY <1>0, <1>6, TwitterClient

LEMMA ChannelKept ==
    ASSUME BothInv, ChannelStep
    PROVE  ChInv' /\ ChGoes /\ (UNCHANGED cmds \/ ClientQueues)
  <1>0. ChInv /\ ChOwnOK /\ ChSessions \cup Threads = C!P!Procs
    BY DEF BothInv, C!P!Procs
  <1>1. CASE \/ \E r \in ChannelUsers : C!Register(r)
             \/ \E q \in Plans, r \in ChannelUsers : C!FindChannelUserByUID(q, r)
             \/ \E q \in Plans : C!PlanEnds(q)
             \/ \E s \in ChSessions : C!AirdropChannel(s) \/ C!ClientGone(s) \/ C!airdropTx(s)
             \/ \E p \in C!P!Procs, s \in ChSessions : C!Rendezvous(p, s)
    <2>1. ChGoes /\ UNCHANGED cmds
      BY <1>0, <1>1, ChWorldEffect
    <2>2. ChInv'
      BY <1>0, <1>1, ChWorld, ChRequest, ChFeeder, ChRendezvous
    <2>. QED
      BY <2>1, <2>2
  <1>2. ASSUME NEW p \in C!P!Procs, C!Runner(p)
        PROVE  ChInv' /\ ChGoes /\ (UNCHANGED cmds \/ ClientQueues)
    BY <1>0, <1>2, ChRunner, ChRunnerEffect
  <1>3. ASSUME NEW t \in Threads, C!After(t)
        PROVE  ChInv' /\ ChGoes /\ (UNCHANGED cmds \/ ClientQueues)
    BY <1>0, <1>3, ChAfter, ChAfterEffect
  <1>. QED
    BY <1>0, <1>1, <1>2, <1>3 DEF ChannelStep

LEMMA EventKept ==
    ASSUME BothInv, NEW t \in Threads, NEW c \in DOMAIN cmds,
           TwitterEvent(t, c) \/ ChannelEvent(t, c)
    PROVE  OwnInv' /\ ChInv' /\ ChEffect /\ UNCHANGED C!ownVars /\ ClientReports
  <1>0. OwnInv /\ ChInv /\ c \in Nat
    BY DEF BothInv, CommandsOK
  <1>1. CASE TwitterEvent(t, c)
    <2>1. OwnInv'
      BY <1>0, <1>1, OwnEvent DEF TwitterEvent
    <2>. QED
      BY <1>1, <2>1, OtherKept, EventStep DEF TwitterEvent
  <1>2. CASE ChannelEvent(t, c)
    <2>1. ChInv' /\ ChEffect /\ UNCHANGED C!ownVars
      BY <1>0, <1>2, ChEvent, ChEventEffect
      DEF ChannelEvent, C!FaucetCallback, ChEffect, ChOfCallback
    <2>. QED
      BY <1>2, <2>1, OtherKept, EventStep DEF ChannelEvent
  <1>. QED
    BY <1>1, <1>2

LEMMA BothNextStep ==
    ASSUME BothInv, [BothNext]_bothVars
    PROVE  BothStep
  <1>0. OwnInv /\ ChInv /\ ChOwnOK /\ CommandsOK
    BY DEF BothInv
  <1>1. OwnInv' /\ ChInv' /\ ChEffect /\ ChOwnEffect /\ ClientMoves
    <2>1. CASE UNCHANGED bothVars
      BY <2>1, OtherKept DEF bothVars, clientVars, ClientMoves, ChOwnEffect
    <2>2. CASE TwitterStep /\ UNCHANGED channelVars
      BY <2>2, OtherKept, TwitterKept DEF ClientMoves, TwitterQueues, ClientQueues, ChOwnEffect
    <2>3. CASE ChannelStep /\ UNCHANGED twitterVars
      BY <2>3, OtherKept, ChannelKept, ChannelOwn DEF ClientMoves, ChGoes, ChEffect, ChOfCallback
    <2>4. CASE \E t \in Threads, c \in DOMAIN cmds : TwitterEvent(t, c) \/ ChannelEvent(t, c)
      BY <2>4, EventKept DEF ClientMoves, ChOwnEffect
    <2>5. CASE CrashBoth
      <3>1. Down /\ C!Down /\ LoseUnfinished
        BY <2>5 DEF CrashBoth, Down
      <3>. QED
        BY <1>0, <3>1, OwnDown, ChWorld, ChDownEffect DEF ClientMoves, ChOwnEffect
    <2>. QED
      BY <2>1, <2>2, <2>3, <2>4, <2>5 DEF BothNext
  <1>. QED
    BY <1>0, <1>1, ChOwnStep, ClientKept DEF BothStep, BothInv

LEMMA BothInvInit == BothInit => BothInv
  <1>1. BothInit => OwnInv /\ ChInv /\ ChOwnOK
    BY TInvInit, OwnParts, ChInvInit, ChOwnInit DEF BothInit
  <1>2. BothInit => CommandsOK
    BY DEF BothInit, Init, ClientInit, CommandsOK
  <1>. QED
    BY <1>1, <1>2 DEF BothInv

-----------------------------------------------------------------------------
(* A callback of the channel dispatcher is about one command, which has the  *)
(* outcome it was called for, and the row at hand is the one the command     *)
(* pays.                                                                     *)

ChOneCallback ==
    \A t, u \in Threads : chLocal[t].cmd # 0 /\ chLocal[t].cmd = chLocal[u].cmd => t = u

ChOutcomeKnown(t) ==
    chPc[t] \in OutcomeSteps =>
        /\ chLocal[t].cmd \in DOMAIN cmds
        /\ cmds[chLocal[t].cmd].stage =
              IF chPc[t] \in CreditSteps THEN "succeeded" ELSE "failed"
        /\ chPc[t] \in ChUpdateSteps => chLocal[t].row = cmds[chLocal[t].cmd].to

ChCallbackInv == ChOneCallback /\ \A t \in Threads : ChOutcomeKnown(t)

LEMMA ChCallbackInit == BothInit => ChCallbackInv
  <1>. SUFFICES ASSUME BothInit PROVE ChCallbackInv
    OBVIOUS
  <1>1. \A t \in Threads : chPc[t] = "idle" /\ chLocal[t].cmd = 0
    BY DEF BothInit, C!Init, C!P!Init, C!P!Procs, C!P!NoLocals
  <1>. QED
    BY <1>1, ChLabels DEF ChCallbackInv, ChOneCallback, ChOutcomeKnown

\* A callback that does not move keeps what it is about.
LEMMA ChCallbackStays ==
    ASSUME BothInv, BothStep, NEW t \in Threads, ChOutcomeKnown(t),
           chPc'[t] = chPc[t], chLocal'[t] = chLocal[t]
    PROVE  ChOutcomeKnown(t)'
  <1>1. chLocal[t].cmd \in DOMAIN cmds => CmdKept(chLocal[t].cmd)
    BY ClientKept DEF BothInv, BothStep
  <1>. QED
    BY <1>1 DEF ChOutcomeKnown, CmdKept

\* The command of a callback changes only when the callback starts or ends.
LEMMA ChCallbackNext == BothInv /\ ChCallbackInv /\ BothStep => ChCallbackInv'
  <1>. SUFFICES ASSUME BothInv, ChCallbackInv, BothStep PROVE ChCallbackInv'
    OBVIOUS
  <1>. USE DEF ChCallbackInv
  <1>0. /\ Threads \subseteq C!P!Procs
        /\ \A c \in DOMAIN cmds : CmdKept(c)
    BY ClientKept DEF C!P!Procs, BothInv, BothStep
  <1>1. ASSUME NEW p \in C!P!Procs, ChOthers(p), chLocal'[p].cmd \in {chLocal[p].cmd, 0}
        PROVE  ChOneCallback'
    BY <1>0, <1>1 DEF ChOneCallback, ChOthers
  <1>2. ASSUME NEW p \in C!P!Procs, ChOthers(p), p \in Threads => ChOutcomeKnown(p)'
        PROVE  \A t \in Threads : ChOutcomeKnown(t)'
    <2>1. ASSUME NEW t \in Threads, t # p PROVE ChOutcomeKnown(t)'
      BY <1>0, <1>2, <2>1, ChCallbackStays DEF ChOthers
    <2>. QED
      BY <1>2, <2>1
  <1>3. CASE ChRests \/ ChRegisters
    BY <1>3, ChCallbackStays DEF ChRests, ChRegisters, ChOneCallback
  <1>4. CASE ChDies
    BY <1>0, <1>4, ChLabels DEF ChDies, ChOneCallback, ChOutcomeKnown
  <1>5. ASSUME NEW p \in C!P!Procs, ChLeaves(p) PROVE ChCallbackInv'
    <2>1. ChOutcomeKnown(p)'
      BY <1>5, ChLabels DEF ChLeaves, ChOutcomeKnown
    <2>. QED
      BY <1>1, <1>2, <1>5, <2>1 DEF ChLeaves
  <1>6. ASSUME NEW t \in Threads, ChStarts(t) PROVE ChCallbackInv'
    <2>1. PICK c \in DOMAIN cmds, stage \in {"generated", "succeeded", "failed"} :
             /\ ChOthers(t)
             /\ \A u \in Threads : chLocal[u].cmd # c
             /\ cmds' = [cmds EXCEPT ![c].stage = stage]
             /\ chLocal'[t].cmd = c
             /\ chPc'[t] = Entry(stage)
      BY <1>6 DEF ChStarts
    <2>2. c \in DOMAIN cmds' /\ cmds'[c].stage = stage
      <3>1. cmds \in Seq(BothCommand) /\ cmds[c] \in BothCommand
        BY DEF BothInv, CommandsOK
      <3>. QED
        BY <2>1, <3>1 DEF BothCommand
    <2>3. ChOutcomeKnown(t)'
      BY <2>1, <2>2, ChLabels DEF ChOutcomeKnown, Entry
    <2>4. ChOneCallback'
      BY <1>0, <2>1 DEF ChOneCallback, ChOthers
    <2>. QED
      BY <1>0, <1>2, <2>1, <2>3, <2>4
  <1>7. ASSUME NEW t \in Threads, ChTakes(t) \/ ChSettles(t) \/ ChReads(t) PROVE ChCallbackInv'
    <2>1. ChOthers(t) /\ chLocal'[t].cmd = chLocal[t].cmd
      BY <1>7 DEF ChTakes, ChSettles, ChReads
    <2>2. chLocal[t].cmd \in DOMAIN cmds => CmdKept(chLocal[t].cmd)
      BY <1>0
    <2>3. ChOutcomeKnown(t)'
      <3>1. CASE ChTakes(t)
        <4>1. chLocal[t].cmd \in DOMAIN cmds /\ chLocal'[t].row = C!TrackID(chLocal[t].cmd)
              /\ chLocal'[t].row \in ChannelUsers
          BY <3>1, ChLabels DEF ChTakes, ChOutcomeKnown, C!Pending
        <4>2. chLocal'[t].row = cmds[chLocal[t].cmd].to
          BY <4>1, ChannelAssumption DEF C!TrackID, C!NilObjectID
        <4>. QED
          BY <2>1, <2>2, <3>1, <4>1, <4>2, ChLabels DEF ChTakes, ChOutcomeKnown, CmdKept
      <3>2. CASE ChSettles(t)
        BY <2>1, <2>2, <3>2, ChLabels DEF ChSettles, ChOutcomeKnown, CmdKept
      <3>3. CASE ChReads(t)
        BY <2>1, <2>2, <3>3, ChLabels DEF ChReads, ChOutcomeKnown, CmdKept
      <3>. QED
        BY <1>7, <3>1, <3>2, <3>3
    <2>. QED
      BY <1>0, <1>1, <1>2, <2>1, <2>3
  <1>. QED
    BY <1>0, <1>3, <1>4, <1>5, <1>6, <1>7
    DEF BothStep, ChEffect, ChOfCallback, ChWalks, ChMarks, ChCredits

-----------------------------------------------------------------------------
(* The amount of a document is copied where the document is read, and paid   *)
(* and credited from the copy, as ChannelDispatchProofs says.  The Twitter   *)
(* dispatcher pays no channel row.                                           *)

\* Goroutine p is going to use the amount it copied of r.
ChHoldSteps == {"check", "submit", "successUpd", "extRead", "extWrite"}

ChHolding(p, r) ==
    \/ p \in ChSessions /\ r \in chTodo[p]
    \/ chPc[p] \in ChHoldSteps /\ chLocal[p].row = r

ChCopiesFresh ==
    \A p \in C!P!Procs, r \in ChannelUsers \ rewritten :
        ChHolding(p, r) => validState[r] = "success" /\ copied[p][r] = amount[r]

ChPaidFresh ==
    \A c \in DOMAIN cmds :
        cmds[c].to \in ChannelUsers \ rewritten =>
            validState[cmds[c].to] = "success" /\ cmds[c].amount = amount[cmds[c].to]

ChPaidBounded ==
    \A c \in DOMAIN cmds :
        cmds[c].to \in ChannelUsers => cmds[c].amount <= MaxAmount[cmds[c].to]

ChAmountInv == ChCopiesFresh /\ ChPaidFresh /\ ChPaidBounded

\* What a step does to the amounts: it hands a copy to the client, or adds no
\* payment of a channel row.
ChHeldBefore(p) == \A r \in ChannelUsers : ChHolding(p, r)' => ChHolding(p, r)

ChHands(p) ==
    /\ chPc[p] = "submit"
    /\ cmds' = Append(cmds, [ to |-> chLocal[p].row, amount |-> copied[p][chLocal[p].row],
                              by |-> p, ep |-> chEpoch, stage |-> "queued" ])
    /\ \A q \in C!P!Procs : ChHeldBefore(q)
    /\ UNCHANGED C!ownVars

ChCopies(p) ==
    \E R \in SUBSET ChannelUsers :
        /\ C!Copy(p, R)
        /\ \A q \in C!P!Procs \ {p} : ChHeldBefore(q)
        /\ \A r \in ChannelUsers \ rewritten :
              ChHolding(p, r)' => r \in R /\ validState[r] = "success"

ChPasses == (\A p \in C!P!Procs : ChHeldBefore(p)) /\ UNCHANGED C!ownVars

ChPlans ==
    /\ \/ \E q \in Plans, r \in ChannelUsers : C!FindChannelUserByUID(q, r)
       \/ \E q \in Plans : C!PlanEnds(q)
    /\ UNCHANGED <<chPc, chTodo, chLocal>>

ChUses == ChPasses \/ ChPlans \/ C!Down \/ \E p \in C!P!Procs : ChCopies(p)

ChPaysKept ==
    \A c \in DOMAIN cmds' :
        cmds'[c].to \in ChannelUsers =>
            c \in DOMAIN cmds /\ cmds'[c].to = cmds[c].to /\ cmds'[c].amount = cmds[c].amount

ChAmountEffect == (ChUses /\ ChPaysKept) \/ \E p \in C!P!Procs : ChHands(p)

\* Only the channel dispatcher submits payments of channel rows.
LEMMA ChPays ==
    ASSUME CommandsOK, UNCHANGED cmds \/ TwitterQueues \/ ClientReports \/ LoseUnfinished
    PROVE  ChPaysKept
  <1>0. cmds \in Seq(BothCommand) /\ \A c \in DOMAIN cmds : cmds[c] \in BothCommand
    BY DEF CommandsOK
  <1>1. CASE UNCHANGED cmds
    BY <1>1 DEF ChPaysKept
  <1>2. ASSUME NEW d \in BothCommand, d.to \in Airdrops, cmds' = Append(cmds, d)
        PROVE  ChPaysKept
    <2>1. \A c \in DOMAIN cmds' : (c \in DOMAIN cmds /\ cmds'[c] = cmds[c]) \/ cmds'[c] = d
      BY <1>0, <1>2
    <2>. QED
      BY <1>2, <2>1, KindsAssumption DEF ChPaysKept
  <1>3. CASE ClientReports \/ LoseUnfinished
    <2>1. DOMAIN cmds' = DOMAIN cmds
      BY <1>0, <1>3 DEF ClientReports, LoseUnfinished
    <2>2. \A c \in DOMAIN cmds : CmdKept(c)
      BY <1>3, ClientKept DEF ClientMoves
    <2>. QED
      BY <2>1, <2>2 DEF ChPaysKept, CmdKept
  <1>. QED
    BY <1>1, <1>2, <1>3 DEF TwitterQueues

\* A goroutine that takes no row in hand.
LEMMA ChOthersHold ==
    ASSUME NEW p \in C!P!Procs, ChOthers(p), UNCHANGED chTodo
    PROVE  /\ \A q \in C!P!Procs \ {p} : ChHeldBefore(q)
           /\ \/ chPc'[p] \notin ChHoldSteps
              \/ chPc[p] \in ChHoldSteps /\ chLocal'[p].row = chLocal[p].row
              => ChHeldBefore(p)
  BY DEF ChOthers, ChHeldBefore, ChHolding

LEMMA ChPassStep ==
    ASSUME NEW p \in C!P!Procs, ChOthers(p), UNCHANGED <<chTodo, C!ownVars>>,
           \/ chPc'[p] \notin ChHoldSteps
           \/ chPc[p] \in ChHoldSteps /\ chLocal'[p].row = chLocal[p].row
    PROVE  ChUses
  <1>1. \A q \in C!P!Procs : ChHeldBefore(q)
    BY ChOthersHold
  <1>. QED
    BY <1>1 DEF ChUses, ChPasses

\* A goroutine that stands still, or moves on and reads no document.
LEMMA ChStillUses ==
    ASSUME UNCHANGED <<chPc, chTodo, chLocal, C!ownVars>>
    PROVE  ChUses
  BY DEF ChUses, ChPasses, ChHeldBefore, ChHolding

LEMMA ChWorldUses ==
    ASSUME ChInv,
           \/ \E r \in ChannelUsers : C!Register(r)
           \/ \E q \in Plans, r \in ChannelUsers : C!FindChannelUserByUID(q, r)
           \/ \E q \in Plans : C!PlanEnds(q)
           \/ \E s \in ChSessions : C!AirdropChannel(s) \/ C!ClientGone(s)
           \/ \E p \in C!P!Procs, s \in ChSessions : C!Rendezvous(p, s)
           \/ \E t \in Threads, c \in DOMAIN cmds : C!FaucetCallback(t, c)
    PROVE  ChUses
  <1>. USE DEF C!P!procVars, ChHoldSteps
  <1>0. ChSessions \subseteq C!P!Procs /\ Threads \subseteq C!P!Procs
    BY DEF C!P!Procs
  <1>1. CASE \/ \E q \in Plans, r \in ChannelUsers : C!FindChannelUserByUID(q, r)
             \/ \E q \in Plans : C!PlanEnds(q)
    BY <1>1
    DEF ChUses, ChPlans, C!FindChannelUserByUID, C!PlanEnds, C!dispatcherVars, C!procVars
  <1>2. ASSUME NEW r \in ChannelUsers, C!Register(r) PROVE ChUses
    BY <1>2, ChStillUses DEF C!Register, C!P!Insert
  <1>3. ASSUME NEW s \in ChSessions, C!ClientGone(s) PROVE ChUses
    BY <1>3, ChStillUses DEF C!ClientGone, C!P!ClientGone
  <1>4. ASSUME NEW s \in ChSessions, C!AirdropChannel(s) PROVE ChUses
    <2>1. CASE C!P!ResetBudget(s) \/ C!P!ResetStop(s) \/ C!P!ResetDo(s) \/ C!P!AwaitStop(s)
      BY <1>4, <2>1, ChStillUses
      DEF C!AirdropChannel, C!P!ResetBudget, C!P!ResetStop, C!P!ResetDo, C!P!AwaitStop
    <2>2. CASE C!P!StartFeeder(s)
      <3>1. chPc'[s] = "list" /\ ChOthers(s) /\ UNCHANGED chTodo
        BY <1>0, <2>2, ChMovesTo DEF C!P!StartFeeder
      <3>. QED
        BY <1>0, <1>4, <3>1, ChPassStep DEF C!AirdropChannel
    <2>. QED
      BY <1>4, <2>1, <2>2 DEF C!AirdropChannel, C!P!AirdropTwitter, C!P!Proceed
  <1>5. ASSUME NEW p \in C!P!Procs, NEW s \in ChSessions, C!Rendezvous(p, s) PROVE ChUses
    <2>1. chPc'[p] \in {"end", "idle"} /\ ChOthers(p)
      BY <1>5, ChMovesTo DEF C!Rendezvous, C!P!Rendezvous
    <2>. QED
      BY <1>5, <2>1, ChPassStep DEF C!Rendezvous, C!P!Rendezvous
  <1>6. ASSUME NEW t \in Threads, NEW c \in DOMAIN cmds, C!FaucetCallback(t, c) PROVE ChUses
    <2>1. PICK from \in SUBSET Stage, stage \in Stage,
               entry \in {"txFind", "successFind", "failedFind"} :
             C!P!Callback(t, c, from, stage, entry)
      BY <1>6
      DEF C!FaucetCallback, C!P!Event, C!P!OnTxGenerated, C!P!OnSucceed, C!P!OnFailed,
          C!P!Unfinished, Stage
    <2>2. chPc'[t] = entry /\ ChOthers(t)
      BY <1>0, <2>1, ChMovesTo DEF C!P!Callback
    <2>. QED
      BY <1>0, <1>6, <2>1, <2>2, ChPassStep DEF C!P!Callback, C!FaucetCallback
  <1>. QED
    BY <1>1, <1>2, <1>3, <1>4, <1>5, <1>6

LEMMA ChFeederUses ==
    ASSUME ChInv, NEW s \in ChSessions, C!airdropTx(s)
    PROVE  ChUses
  <1>. USE DEF ChHoldSteps
  <1>0. s \in C!P!Procs /\ chTodo \in [ChSessions -> SUBSET C!P!Rows]
    BY DEF C!P!Procs, ChInv, ChTodoOK
  <1>1. CASE C!getChannelAirdropList(s)
    <2>. USE <1>1 DEF C!getChannelAirdropList
    <2>1. chPc'[s] \in {"clear", "next"} /\ ChOthers(s)
      BY <1>0, ChMovesTo
    <2>2. CASE UNCHANGED <<chTodo, C!ownVars>>
      BY <1>0, <2>1, <2>2, ChPassStep
    <2>3. CASE chTodo' = [chTodo EXCEPT ![s] = {r \in C!Waiting :
                            C!Cardinality({q \in C!Waiting : q < r}) < ListNum}]
               /\ C!Copy(s, chTodo'[s])
      <3>1. chTodo'[s] \subseteq C!Waiting
        BY <1>0, <2>3
      <3>2. \A q \in C!P!Procs \ {s} : ChHeldBefore(q)
        BY <1>0, <2>1, <2>3 DEF ChOthers, ChHeldBefore, ChHolding
      <3>3. \A r \in ChannelUsers :
               ChHolding(s, r)' => r \in chTodo'[s] /\ validState[r] = "success"
        BY <2>1, <3>1 DEF ChHolding, C!Waiting
      <3>4. chTodo'[s] \in SUBSET ChannelUsers
        BY <3>1 DEF C!Waiting
      <3>. QED
        BY <1>0, <2>3, <3>2, <3>3, <3>4 DEF ChUses, ChCopies
    <2>. QED
      BY <2>2, <2>3
  <1>2. CASE C!P!NextAirdrop(s) /\ UNCHANGED C!ownVars
    <2>1. PICK r \in chTodo[s] : /\ chTodo' = [chTodo EXCEPT ![s] = @ \ {r}]
                                 /\ chLocal' = [chLocal EXCEPT ![s].row = r]
                                 /\ C!P!Goto(s, "check")
      BY <1>2 DEF C!P!NextAirdrop, C!P!Oldest
    <2>2. ChOthers(s) /\ chLocal'[s].row = r
      BY <1>0, <2>1, ChMovesTo
    <2>3. \A q \in C!P!Procs : ChHeldBefore(q)
      BY <1>0, <2>1, <2>2 DEF ChOthers, ChHeldBefore, ChHolding
    <2>. QED
      BY <1>2, <2>3 DEF ChUses, ChPasses
  <1>3. CASE C!P!FeederEnds(s) /\ UNCHANGED C!ownVars
    <2>1. chPc'[s] \in {"end", "idle"} /\ ChOthers(s) /\ UNCHANGED chTodo
      BY <1>0, <1>3, ChMovesTo DEF C!P!FeederEnds
    <2>. QED
      BY <1>0, <1>3, <2>1, ChPassStep
  <1>. QED
    BY <1>1, <1>2, <1>3 DEF C!airdropTx

LEMMA ChRunnerUses ==
    ASSUME ChInv, NEW p \in C!P!Procs, C!Runner(p)
    PROVE  (ChUses /\ UNCHANGED cmds) \/ ChHands(p)
  <1>. USE DEF C!P!clientVars, C!clientVars, C!P!Keep, ChHoldSteps
  <1>1. CASE C!pendingAfterFind(p)
    <2>1. chPc'[p] \in {"clear", "pendingUpd"} /\ ChOthers(p)
      BY <1>1, ChMovesTo DEF C!pendingAfterFind
    <2>. QED
      BY <1>1, <2>1, ChPassStep DEF C!pendingAfterFind
  <1>2. CASE C!P!RunCheck(p) /\ UNCHANGED C!ownVars
    <2>1. chPc[p] = "check" /\ chPc'[p] \in {"clear", "submit"} /\ ChOthers(p)
      BY <1>2, ChMovesTo DEF C!P!RunCheck
    <2>. QED
      BY <1>2, <2>1, ChPassStep DEF C!P!RunCheck
  <1>3. CASE C!P!Submit(p, copied[p][chLocal[p].row]) /\ UNCHANGED C!ownVars
    <2>1. chPc[p] = "submit" /\ UNCHANGED <<chTodo, chLocal>> /\ ChOthers(p)
      BY <1>3, ChMovesTo DEF C!P!Submit
    <2>2. CASE UNCHANGED cmds
      BY <1>3, <2>1, <2>2, ChPassStep
    <2>3. CASE C!P!RunAsync(chLocal[p].row, copied[p][chLocal[p].row], p, chEpoch)
      <3>1. \A q \in C!P!Procs : ChHeldBefore(q)
        BY <2>1, ChOthersHold
      <3>. QED
        BY <1>3, <2>1, <2>3, <3>1 DEF ChHands, C!P!RunAsync
    <2>. QED
      BY <1>3, <2>2, <2>3 DEF C!P!Submit
  <1>4. CASE (C!P!RunLoad(p) \/ C!P!RunStore(p) \/ C!P!PendingUpdate(p)) /\ UNCHANGED C!ownVars
    <2>1. chPc'[p] \notin ChHoldSteps /\ ChOthers(p)
      <3>1. CASE C!P!RunLoad(p)
        BY <3>1, ChMovesTo DEF C!P!RunLoad
      <3>2. CASE C!P!RunStore(p)
        BY <3>2, ChMovesTo DEF C!P!RunStore
      <3>3. CASE C!P!PendingUpdate(p)
        BY <3>3, ChMovesTo DEF C!P!PendingUpdate
      <3>. QED
        BY <1>4, <3>1, <3>2, <3>3
    <2>2. UNCHANGED <<chTodo, cmds>>
      BY <1>4 DEF C!P!RunLoad, C!P!RunStore, C!P!PendingUpdate
    <2>. QED
      BY <1>4, <2>1, <2>2, ChPassStep
  <1>5. CASE (C!P!StopClear(p) \/ C!P!StopSend(p)) /\ UNCHANGED C!ownVars
    <2>1. chPc'[p] \in {"send", "sending"} /\ ChOthers(p)
      BY <1>5, ChMovesTo DEF C!P!StopClear, C!P!StopSend
    <2>2. UNCHANGED <<chTodo, cmds>>
      BY <1>5 DEF C!P!StopClear, C!P!StopSend
    <2>. QED
      BY <1>5, <2>1, <2>2, ChPassStep
  <1>. QED
    BY <1>1, <1>2, <1>3, <1>4, <1>5 DEF C!Runner, C!airdropRun, C!airdropToStop

\* A callback that finds the document of its command copies it; the amount is
\* used only after successAfter, and the command has paid the row.
LEMMA ChFindUses ==
    ASSUME ChInv, ChCallbackInv, ChPaidFresh, NEW t \in Threads,
           NEW rows \in SUBSET ChannelUsers,
           NEW yes, NEW skip, C!FindChannelUserByID(t, rows, yes, skip),
           skip => C!GoOn(t) \/ C!P!Return(t),
           chPc[t] = "successFind" \/ yes \notin ChHoldSteps
    PROVE  ChUses
  <1>0. t \in C!P!Procs /\ t \notin ChSessions
    BY KindsAssumption DEF C!P!Procs, Procs
  <1>1. CASE skip /\ UNCHANGED C!ownVars
    <2>1. chPc'[t] \in {"again", "end", "idle"} /\ ChOthers(t)
      BY <1>0, <1>1, ChMovesTo DEF C!GoOn
    <2>. QED
      BY <1>0, <1>1, <2>1, ChPassStep DEF C!FindChannelUserByID, ChHoldSteps
  <1>2. CASE /\ C!TrackID(chLocal[t].cmd) \in rows
             /\ chLocal' = [chLocal EXCEPT ![t].row = C!TrackID(chLocal[t].cmd)]
             /\ C!Copy(t, {C!TrackID(chLocal[t].cmd)})
             /\ C!P!Goto(t, yes)
    <2>. DEFINE r == C!TrackID(chLocal[t].cmd)
    <2>1. chPc'[t] = yes /\ ChOthers(t) /\ chLocal'[t].row = r
      <3>1. C!P!Goto(t, yes) /\ chLocal' = [chLocal EXCEPT ![t].row = r]
        BY <1>2
      <3>. HIDE DEF r
      <3>2. ASSUME NEW x, C!P!Goto(t, yes), chLocal' = [chLocal EXCEPT ![t].row = x]
            PROVE  chPc'[t] = yes /\ ChOthers(t) /\ chLocal'[t].row = x
        BY <1>0, <3>2 DEF ChInv, ChProcsOK, C!P!Goto, ChOthers, C!P!Locals
      <3>. QED
        BY <3>1, <3>2
    <2>2. r \in ChannelUsers /\ UNCHANGED chTodo
      BY <1>2 DEF C!FindChannelUserByID
    <2>3. yes \in ChHoldSteps /\ r \notin rewritten => validState[r] = "success"
      <3>1. cmds[chLocal[t].cmd].to = r
        BY <2>2, ChannelAssumption DEF C!TrackID, C!NilObjectID
      <3>2. chPc[t] = "successFind" => chLocal[t].cmd \in DOMAIN cmds
        BY ChLabels DEF ChCallbackInv, ChOutcomeKnown
      <3>. HIDE DEF r
      <3>. QED
        BY <2>2, <3>1, <3>2 DEF ChPaidFresh
    <2>4. \A x \in ChannelUsers \ rewritten :
             ChHolding(t, x)' => x \in {r} /\ validState[x] = "success"
      <3>. HIDE DEF r
      <3>. QED
        BY <1>0, <2>1, <2>3 DEF ChHolding
    <2>5. \A q \in C!P!Procs \ {t} : ChHeldBefore(q)
      BY <1>0, <2>1, <2>2, ChOthersHold
    <2>6. C!Copy(t, {r})
      BY <1>2
    <2>. HIDE DEF r
    <2>. QED
      BY <1>0, <2>2, <2>4, <2>5, <2>6 DEF ChUses, ChCopies
  <1>. QED
    BY <1>1, <1>2 DEF C!FindChannelUserByID

LEMMA ChAfterUses ==
    ASSUME ChInv, ChCallbackInv, ChPaidFresh, NEW t \in Threads, C!After(t)
    PROVE  ChUses
  <1>. USE DEF ChHoldSteps
  <1>0. t \in C!P!Procs /\ t \notin ChSessions
    BY KindsAssumption DEF C!P!Procs, Procs
  <1>1. C!Pending \subseteq ChannelUsers
    BY DEF C!Pending
  <1>2. CASE C!successAfterFind(t)
    BY <1>1, <1>2, ChFindUses DEF C!successAfterFind
  <1>3. CASE C!failedAfterFind(t)
    BY <1>1, <1>3, ChFindUses DEF C!failedAfterFind
  <1>4. CASE C!txGeneratedAfterFind(t)
    BY <1>1, <1>4, ChFindUses DEF C!txGeneratedAfterFind
  <1>5. CASE C!txGeneratedAfterUpdate(t)
    <2>1. chPc'[t] \in {"end", "idle"} /\ ChOthers(t)
      BY <1>0, <1>5, ChMovesTo DEF C!txGeneratedAfterUpdate
    <2>. QED
      BY <1>0, <1>5, <2>1, ChPassStep DEF C!txGeneratedAfterUpdate
  <1>6. CASE (C!P!SuccessUpdate(t) \/ C!P!FailedUpdate(t)) /\ UNCHANGED C!ownVars
    <2>1. /\ ChOthers(t) /\ UNCHANGED <<chTodo, chLocal>>
          /\ chPc'[t] = "again" \/ (chPc[t] = "successUpd" /\ chPc'[t] = "extRead")
      BY <1>0, <1>6, ChMovesTo DEF C!P!SuccessUpdate, C!P!FailedUpdate, C!P!Keep
    <2>. QED
      BY <1>0, <1>6, <2>1, ChPassStep
  <1>7. CASE C!P!ExtRead(t) /\ UNCHANGED C!ownVars
    <2>1. /\ chPc[t] = "extRead" /\ chPc'[t] \in {"extWrite", "again"}
          /\ ChOthers(t) /\ UNCHANGED chTodo
          /\ chPc'[t] = "extWrite" => chLocal'[t].row = chLocal[t].row
      <3>1. PICK n : \/ chLocal' = [chLocal EXCEPT ![t].num = n] /\ C!P!Goto(t, "extWrite")
                     \/ UNCHANGED chLocal /\ C!P!Goto(t, "again")
        BY <1>7 DEF C!P!ExtRead
      <3>. QED
        BY <1>0, <1>7, <3>1, ChMovesTo DEF C!P!ExtRead
    <2>. QED
      BY <1>0, <1>7, <2>1, ChPassStep
  <1>8. CASE C!P!Credit(t, copied[t][chLocal[t].row]) /\ UNCHANGED C!ownVars
    <2>1. chPc'[t] = "again" /\ ChOthers(t) /\ UNCHANGED chTodo
      BY <1>0, <1>8, ChMovesTo DEF C!P!Credit, C!P!Keep
    <2>. QED
      BY <1>0, <1>8, <2>1, ChPassStep
  <1>9. CASE C!P!Again(t) /\ UNCHANGED C!ownVars
    <2>1. chPc'[t] \in {"getOne", "end", "idle"} /\ ChOthers(t) /\ UNCHANGED chTodo
      BY <1>0, <1>9, ChMovesTo DEF C!P!Again, C!P!Keep
    <2>. QED
      BY <1>0, <1>9, <2>1, ChPassStep
  <1>10. CASE C!airdropTxOne(t)
    <2>1. CASE UNCHANGED <<chLocal, C!ownVars>> /\ C!P!Goto(t, "clear")
      <3>1. chPc'[t] = "clear" /\ ChOthers(t)
        BY <1>0, <2>1, ChMovesTo
      <3>. QED
        BY <1>0, <1>10, <2>1, <3>1, ChPassStep DEF C!airdropTxOne
    <2>2. ASSUME NEW r \in C!P!Oldest(C!Waiting), chLocal' = [chLocal EXCEPT ![t].row = r],
                 C!Copy(t, {r}), C!P!Goto(t, "check")
          PROVE  ChUses
      <3>1. r \in ChannelUsers /\ validState[r] = "success"
        BY DEF C!P!Oldest, C!Waiting
      <3>2. ChOthers(t) /\ chLocal'[t].row = r
        <4>. HIDE DEF ChHoldSteps
        <4>1. chLocal' = [chLocal EXCEPT ![t].row = r] /\ C!P!Goto(t, "check")
          BY <2>2
        <4>. QED
          BY <1>0, <4>1 DEF ChInv, ChProcsOK, C!P!Goto, ChOthers, C!P!Locals
      <3>3. UNCHANGED chTodo
        BY <1>10 DEF C!airdropTxOne
      <3>4. \A q \in C!P!Procs \ {t} : ChHeldBefore(q)
        BY <1>0, <3>2, <3>3, ChOthersHold
      <3>5. \A x \in ChannelUsers \ rewritten :
               ChHolding(t, x)' => x \in {r} /\ validState[x] = "success"
        BY <1>0, <3>1, <3>2 DEF ChHolding
      <3>. QED
        BY <1>0, <2>2, <3>1, <3>4, <3>5 DEF ChUses, ChCopies
    <2>. QED
      BY <1>10, <2>1, <2>2 DEF C!airdropTxOne
  <1>. QED
    BY <1>2, <1>3, <1>4, <1>5, <1>6, <1>7, <1>8, <1>9, <1>10 DEF C!After

LEMMA ChAmountStep ==
    ASSUME BothInv, ChCallbackInv, ChPaidFresh, [BothNext]_bothVars
    PROVE  ChAmountEffect
  <1>0. OwnInv /\ ChInv /\ ChOwnOK /\ CommandsOK /\ ChSessions \cup Threads = C!P!Procs
    BY DEF BothInv, C!P!Procs
  <1>1. UNCHANGED channelVars => ChUses
    BY ChStillUses, OtherKept DEF channelVars
  <1>2. CASE UNCHANGED bothVars
    BY <1>0, <1>1, <1>2, ChPays DEF bothVars, clientVars, ChAmountEffect
  <1>3. CASE TwitterStep /\ UNCHANGED channelVars
    BY <1>0, <1>1, <1>3, TwitterClient, ChPays DEF ChAmountEffect
  <1>4. CASE ChannelStep
    <2>1. CASE \/ \E r \in ChannelUsers : C!Register(r)
               \/ \E q \in Plans, r \in ChannelUsers : C!FindChannelUserByUID(q, r)
               \/ \E q \in Plans : C!PlanEnds(q)
               \/ \E s \in ChSessions : C!AirdropChannel(s) \/ C!ClientGone(s) \/ C!airdropTx(s)
               \/ \E p \in C!P!Procs, s \in ChSessions : C!Rendezvous(p, s)
      <3>1. UNCHANGED cmds
        BY <1>0, <2>1, ChWorldEffect
      <3>2. ChUses
        BY <1>0, <2>1, ChWorldUses, ChFeederUses
      <3>. QED
        BY <1>0, <3>1, <3>2, ChPays DEF ChAmountEffect
    <2>2. ASSUME NEW p \in C!P!Procs, C!Runner(p) PROVE ChAmountEffect
      BY <1>0, <2>2, ChRunnerUses, ChPays DEF ChAmountEffect
    <2>3. ASSUME NEW t \in Threads, C!After(t) PROVE ChAmountEffect
      BY <1>0, <2>3, ChAfterUses, ChAfterEffect, ChPays DEF ChAmountEffect
    <2>. QED
      BY <1>0, <1>4, <2>1, <2>2, <2>3 DEF ChannelStep
  <1>5. ASSUME NEW t \in Threads, NEW c \in DOMAIN cmds, TwitterEvent(t, c) \/ ChannelEvent(t, c)
        PROVE  ChAmountEffect
    <2>1. ClientReports
      BY <1>5, EventStep
    <2>2. ChUses
      BY <1>0, <1>1, <1>5, ChWorldUses DEF TwitterEvent, ChannelEvent
    <2>. QED
      BY <1>0, <2>1, <2>2, ChPays DEF ChAmountEffect
  <1>6. CASE CrashBoth
    <2>1. C!Down /\ LoseUnfinished
      BY <1>6 DEF CrashBoth, Down
    <2>. QED
      BY <1>0, <2>1, ChPays DEF ChAmountEffect, ChUses
  <1>. QED
    BY <1>2, <1>3, <1>4, <1>5, <1>6 DEF BothNext

\* A row that is written although it is valid stays marked.
LEMMA ChAmountNext ==
    ASSUME BothInv, ChAmountInv, ChAmountEffect
    PROVE  ChAmountInv' /\ rewritten \subseteq rewritten'
  <1>. USE DEF ChAmountInv
  <1>0. /\ validState \in [ChannelUsers -> C!UserValidState]
        /\ amount \in [ChannelUsers -> Nat]
        /\ copied \in [C!P!Procs -> [ChannelUsers -> Nat]]
        /\ cmds \in Seq(BothCommand)
        /\ ChInv /\ ChOwnOK
    BY DEF BothInv, ChOwnOK, CommandsOK
  <1>1. ChPaysKept => ChPaidBounded'
    BY DEF ChPaysKept, ChPaidBounded
  <1>2. ChPaysKept /\ UNCHANGED <<validState, amount, rewritten>> => ChPaidFresh'
    BY DEF ChPaysKept, ChPaidFresh
  <1>3. (\A p \in C!P!Procs : ChHeldBefore(p)) /\ UNCHANGED <<validState, amount, rewritten, copied>>
           => ChCopiesFresh'
    BY DEF ChCopiesFresh, ChHeldBefore
  <1>4. CASE ChPasses /\ ChPaysKept
    BY <1>1, <1>2, <1>3, <1>4 DEF ChPasses, C!ownVars, C!planVars
  <1>5. CASE C!Down /\ ChPaysKept
    <2>1. \A p \in C!P!Procs, x \in ChannelUsers : ~ChHolding(p, x)'
      BY <1>5 DEF C!Down, C!P!Down, ChHolding, ChHoldSteps
    <2>. QED
      BY <1>1, <1>2, <1>5, <2>1 DEF C!Down, ChCopiesFresh
  <1>6. ASSUME NEW p \in C!P!Procs, ChCopies(p), ChPaysKept
        PROVE  ChAmountInv' /\ rewritten \subseteq rewritten'
    <2>1. PICK R \in SUBSET ChannelUsers :
             /\ copied' = [copied EXCEPT ![p] =
                             [r \in ChannelUsers |-> IF r \in R THEN amount[r] ELSE 0]]
             /\ UNCHANGED <<validState, amount, rewritten>>
             /\ \A q \in C!P!Procs \ {p} : ChHeldBefore(q)
             /\ \A r \in ChannelUsers \ rewritten :
                   ChHolding(p, r)' => r \in R /\ validState[r] = "success"
      BY <1>6 DEF ChCopies, C!Copy, C!planVars
    <2>2. /\ \A q \in C!P!Procs \ {p} : copied'[q] = copied[q]
          /\ \A r \in ChannelUsers : copied'[p][r] = IF r \in R THEN amount[r] ELSE 0
      BY <1>0, <2>1
    <2>3. ChCopiesFresh'
      BY <2>1, <2>2 DEF ChCopiesFresh, ChHeldBefore
    <2>. QED
      BY <1>1, <1>2, <1>6, <2>1, <2>3
  <1>7. ASSUME NEW p \in C!P!Procs, ChHands(p)
        PROVE  ChAmountInv' /\ rewritten \subseteq rewritten'
    <2>. DEFINE r == chLocal[p].row
                a == copied[p][r]
    <2>1. /\ UNCHANGED <<validState, amount, rewritten, copied>>
          /\ \A q \in C!P!Procs : ChHeldBefore(q)
          /\ cmds' = Append(cmds, [ to |-> r, amount |-> a, by |-> p, ep |-> chEpoch,
                                    stage |-> "queued" ])
      BY <1>7 DEF ChHands, C!ownVars, C!planVars
    <2>2. r \in ChannelUsers /\ ChHolding(p, r)
      BY <1>0, <1>7, ChHolds DEF ChHands, RowLabels, ChHolding, ChHoldSteps
    <2>3. a <= MaxAmount[r] /\ (r \notin rewritten => validState[r] = "success" /\ a = amount[r])
      BY <1>0, <2>2 DEF ChOwnOK, ChCopiesFresh
    <2>. HIDE DEF a, r
    <2>4. \A c \in DOMAIN cmds' :
             \/ c \in DOMAIN cmds /\ cmds'[c] = cmds[c]
             \/ cmds'[c].to = r /\ cmds'[c].amount = a
      BY <1>0, <2>1
    <2>5. ChPaidFresh' /\ ChPaidBounded'
      BY <2>1, <2>3, <2>4 DEF ChPaidFresh, ChPaidBounded
    <2>. QED
      BY <1>3, <2>1, <2>5
  <1>8. CASE ChPlans /\ ChPaysKept
    <2>1. UNCHANGED copied /\ \A p \in C!P!Procs, x \in ChannelUsers : ChHolding(p, x)' <=> ChHolding(p, x)
      BY <1>8 DEF ChPlans, C!FindChannelUserByUID, C!PlanEnds, ChHolding
    <2>2. CASE UNCHANGED <<validState, amount, rewritten>>
      BY <1>1, <1>2, <1>3, <1>8, <2>1, <2>2 DEF ChHeldBefore
    <2>3. ASSUME NEW r \in ChannelUsers, NEW v, NEW coin, C!UpdateCreateAirdrop(r, v, coin)
          PROVE  ChAmountInv' /\ rewritten \subseteq rewritten'
      <3>1. /\ \A x \in ChannelUsers \ {r} :
                  validState'[x] = validState[x] /\ amount'[x] = amount[x]
            /\ rewritten \subseteq rewritten'
            /\ r \notin rewritten' => validState[r] # "success" /\ r \notin rewritten
        BY <1>0, <2>3 DEF C!UpdateCreateAirdrop
      <3>2. ChCopiesFresh'
        BY <2>1, <3>1 DEF ChCopiesFresh
      <3>3. ChPaidFresh'
        BY <1>8, <3>1 DEF ChPaidFresh, ChPaysKept
      <3>. QED
        BY <1>1, <1>8, <3>1, <3>2, <3>3
    <2>4. \A q \in Plans : C!PlanEnds(q) => doChannelUser[q] \in ChannelUsers
      BY <1>0 DEF C!PlanEnds, ChOwnOK
    <2>. QED
      BY <1>8, <2>2, <2>3, <2>4 DEF ChPlans, C!PlanEnds, C!FindChannelUserByUID
  <1>. QED
    BY <1>4, <1>5, <1>6, <1>7, <1>8 DEF ChAmountEffect, ChUses

LEMMA ChAmountInit == BothInit => ChAmountInv
  <1>. SUFFICES ASSUME BothInit PROVE ChAmountInv
    OBVIOUS
  <1>1. cmds = << >>
    BY DEF BothInit, Init, ClientInit
  <1>2. \A p \in C!P!Procs, r \in ChannelUsers : ~ChHolding(p, r)
    BY DEF BothInit, C!Init, C!P!Init, ChHolding, ChHoldSteps
  <1>. QED
    BY <1>1, <1>2 DEF ChAmountInv, ChCopiesFresh, ChPaidFresh, ChPaidBounded

-----------------------------------------------------------------------------
(* Rows are settled by their own payment. *)

LEMMA ChSettledNext ==
    BothInv /\ ChCallbackInv /\ ChannelSettledByOwnPayment /\ BothStep
        => ChannelSettledByOwnPayment'
  <1>. USE DEF ChannelSettledByOwnPayment
  <1>. SUFFICES ASSUME BothInv, ChCallbackInv, C!SettledByOwnPayment, BothStep, NEW r \in ChannelUsers
                PROVE  /\ airdropState'[r] = "success" => C!Payments(r, "succeeded")' # {}
                       /\ airdropState'[r] = "failed" => C!Payments(r, "failed")' # {}
    BY DEF C!SettledByOwnPayment
  <1>0. airdropState \in [ChannelUsers -> C!P!AirdropStatus \cup {"absent"}]
    BY DEF BothInv, ChInv, ChRowsOK
  <1>1. \A stage \in {"succeeded", "failed"} :
           C!Payments(r, stage) # {} => C!Payments(r, stage)' # {}
    BY ClientKept DEF BothInv, BothStep, C!Payments, CmdKept
  <1>2. CASE airdropState'[r] = airdropState[r]
    BY <1>1, <1>2 DEF C!SettledByOwnPayment
  <1>3. ASSUME NEW t \in Threads, ChSettles(t)
        PROVE  \/ airdropState'[r] = airdropState[r]
               \/ airdropState'[r] = "success" /\ C!Payments(r, "succeeded") # {}
               \/ airdropState'[r] = "failed" /\ C!Payments(r, "failed") # {}
    <2>1. /\ chLocal[t].cmd \in DOMAIN cmds /\ chLocal[t].row = cmds[chLocal[t].cmd].to
          /\ \/ /\ airdropState' = [airdropState EXCEPT ![chLocal[t].row] = "success"]
                /\ cmds[chLocal[t].cmd].stage = "succeeded"
             \/ /\ airdropState' = [airdropState EXCEPT ![chLocal[t].row] = "failed"]
                /\ cmds[chLocal[t].cmd].stage = "failed"
      BY <1>3, ChLabels DEF ChSettles, ChCallbackInv, ChOutcomeKnown
    <2>. QED
      BY <1>0, <2>1 DEF C!Payments
  <1>4. ASSUME NEW p \in C!P!Procs, ChMarks(p)
        PROVE  airdropState'[r] \in {airdropState[r], "pending"}
    BY <1>0, <1>4 DEF ChMarks
  <1>5. CASE ChRegisters
    BY <1>0, <1>2, <1>5 DEF ChRegisters
  <1>6. CASE UNCHANGED airdropState
    BY <1>2, <1>6
  <1>. QED
    BY <1>1, <1>2, <1>3, <1>4, <1>5, <1>6
    DEF BothStep, ChEffect, ChRests, ChDies, ChOfCallback, ChWalks, ChStarts, ChTakes, ChReads,
        ChCredits, ChBooks

\* Types, callbacks and settled rows, for every run.
ChSettledInv == BothInv /\ ChCallbackInv /\ ChannelSettledByOwnPayment

LEMMA ChSettledInit == BothInit => ChSettledInv
  <1>1. BothInit => ChannelSettledByOwnPayment
    BY DEF BothInit, C!Init, C!P!Init, C!P!CollectionInit, ChannelSettledByOwnPayment,
           C!SettledByOwnPayment
  <1>. QED
    BY <1>1, BothInvInit, ChCallbackInit DEF ChSettledInv

LEMMA ChSettledStep == ChSettledInv /\ [BothNext]_bothVars => ChSettledInv' /\ BothStep
  BY BothNextStep, ChCallbackNext, ChSettledNext DEF ChSettledInv, BothStep

\* A channel row is success or failed only as a payment of this very row was answered,
\* also while the Twitter dispatcher submits commands to the same client and is
\* told the outcomes of channel rows (successAfter, failedAfter).
THEOREM ChannelRowsSettled == BothSpec => []ChannelSettledByOwnPayment
  <1>1. ChSettledInv => ChannelSettledByOwnPayment
    BY DEF ChSettledInv
  <1>2. ChSettledInv /\ [BothNext]_bothVars => ChSettledInv'
    BY ChSettledStep
  <1>. QED
    BY <1>1, <1>2, ChSettledInit, PTL DEF BothSpec

-----------------------------------------------------------------------------
(* What was credited is covered by the payments of channel rows whose        *)
(* callback has left successAfter, or that the Twitter dispatcher was told.  *)
(* A callback that credits adds its own command to them.                     *)

ChCallbackAt(c) == \E t \in Threads : chLocal[t].cmd = c /\ chPc[t] \in CreditSteps

ChPast(u) == {c \in C!Succeeded(u) : ~ChCallbackAt(c)}

ChCreditsPast ==
    \A u \in C!P!Users : channelAirdropCoin[u] <= Cardinality(C!Units(ChPast(u)))

ChSumsPast ==
    \A t \in Threads, u \in C!P!Users :
        chPc[t] = "extWrite" /\ ChannelUID[chLocal[t].row] = u =>
            chLocal[t].num <= Cardinality(C!Units(ChPast(u)))

ChCreditInv == ChCreditsPast /\ ChSumsPast

\* What ChannelDispatch calls the number of elements is what this module calls so.
LEMMA ChSameCardinality ==
    ASSUME NEW S
    PROVE  C!Cardinality(S) = Cardinality(S)
  BY DEF C!Cardinality, Cardinality

\* The commands that pay channel rows.
ChPayments == {c \in DOMAIN cmds : cmds[c].to \in ChannelUsers}

\* What they are worth is a number of units.
ChWorthIsNat ==
    BothInv => \A c \in ChPayments :
                 C!Worth(c) \in Nat /\ cmds[c].amount \in Nat /\ MaxAmount[cmds[c].to] \in Nat

LEMMA ChWorthNat == ChWorthIsNat
  <1>1. BothInv => \A c \in DOMAIN cmds : cmds[c] \in BothCommand
    BY DEF BothInv, CommandsOK
  <1>. QED
    BY <1>1, ChannelAssumption DEF ChWorthIsNat, ChPayments, C!Worth, BothCommand

LEMMA ChWorthNatNext == ChWorthIsNat'
  BY ChWorthNat, PTL

\* What sets of them are worth.
LEMMA ChUnitsOf ==
    ASSUME BothInv, NEW S \in SUBSET ChPayments
    PROVE  /\ IsFiniteSet(C!Units(S)) /\ Cardinality(C!Units(S)) \in Nat
           /\ \A d \in ChPayments \ S :
                 Cardinality(C!Units(S \cup {d})) = Cardinality(C!Units(S)) + C!Worth(d)
  <1>. DEFINE n == [c \in S |-> C!Worth(c)]
              U == UNION {{c} \X (1..n[c]) : c \in S}
  <1>0. cmds \in Seq(BothCommand)
    BY DEF BothInv, CommandsOK
  <1>1. \A c \in ChPayments : C!Worth(c) \in Nat
    BY ChWorthNat DEF ChWorthIsNat
  <1>2. IsFiniteSet(S)
    <2>1. DOMAIN cmds = 1..Len(cmds) /\ Len(cmds) \in Nat
      BY <1>0
    <2>2. IsFiniteSet(DOMAIN cmds)
      BY <2>1, FS_Interval
    <2>3. S \in SUBSET DOMAIN cmds
      BY DEF ChPayments
    <2>. HIDE DEF n, U
    <2>. QED
      BY <2>2, <2>3, FS_Subset
  <1>3. n \in [S -> Nat]
    BY <1>1
  <1>4. C!Units(S) = U
    BY DEF C!Units
  <1>5. \A d : C!Units(S \cup {d}) = U \cup ({d} \X (1..C!Worth(d)))
    BY DEF C!Units
  <1>6. /\ IsFiniteSet(U) /\ Cardinality(U) \in Nat
        /\ \A d, k : d \notin S /\ k \in Nat
              => Cardinality(U \cup ({d} \X (1..k))) = Cardinality(U) + k
    <2>. HIDE DEF n
    <2>. QED
      BY <1>2, <1>3, SumOfUnits
  <1>. HIDE DEF U
  <1>. QED
    BY <1>1, <1>4, <1>5, <1>6

ChUnitsFinite ==
    BothInv => \A S \in SUBSET ChPayments :
                 IsFiniteSet(C!Units(S)) /\ Cardinality(C!Units(S)) \in Nat

LEMMA ChAllUnitsFinite == ChUnitsFinite
  BY ChUnitsOf DEF ChUnitsFinite

LEMMA ChAllUnitsFiniteNext == ChUnitsFinite'
  BY ChAllUnitsFinite, PTL

\* The commands past their callback, element by element, now and in the next state.
LEMMA ChPastIs ==
    ASSUME NEW u
    PROVE  /\ \A c : c \in ChPast(u) <=>
                 /\ c \in DOMAIN cmds /\ cmds[c].to \in C!P!RowsOf(u)
                 /\ cmds[c].stage = "succeeded" /\ ~ChCallbackAt(c)
           /\ \A c : c \in ChPast(u)' <=>
                 /\ c \in DOMAIN cmds' /\ cmds'[c].to \in C!P!RowsOf(u)
                 /\ cmds'[c].stage = "succeeded" /\ ~ChCallbackAt(c)'
           /\ ChPast(u) \subseteq ChPayments /\ ChPast(u)' \subseteq ChPayments'
  BY DEF ChPast, C!Succeeded, C!Payments, C!P!RowsOf, ChPayments

\* No callback starts for a command that has its outcome already.
LEMMA ChNeverAgain ==
    ASSUME BothStep, NEW c \in DOMAIN cmds, cmds[c].stage = "succeeded", ~ChCallbackAt(c)
    PROVE  ~ChCallbackAt(c)'
  <1>. SUFFICES ASSUME NEW t \in Threads, chLocal'[t].cmd = c, chPc'[t] \in CreditSteps
                PROVE  FALSE
    BY DEF ChCallbackAt
  <1>0. Threads \subseteq C!P!Procs /\ ~(chLocal[t].cmd = c /\ chPc[t] \in CreditSteps)
    BY DEF C!P!Procs, ChCallbackAt
  <1>1. ~ChRests /\ ~ChRegisters
    BY <1>0 DEF ChRests, ChRegisters
  <1>2. ~ChDies
    BY <1>0, ChLabels DEF ChDies
  <1>3. ASSUME NEW p \in C!P!Procs, ChOthers(p) PROVE t = p
    BY <1>0, <1>3 DEF ChOthers
  <1>4. ASSUME NEW p \in C!P!Procs, ChLeaves(p) PROVE FALSE
    BY <1>3, <1>4, ChLabels DEF ChLeaves
  <1>5. ASSUME NEW v \in Threads, ChStarts(v) PROVE FALSE
    BY <1>0, <1>3, <1>5, ChLabels DEF ChStarts, Unfinished, Entry
  <1>6. ASSUME NEW v \in Threads, ChTakes(v) \/ ChSettles(v) \/ ChReads(v) PROVE FALSE
    <2>1. t = v
      BY <1>0, <1>3, <1>6 DEF ChTakes, ChSettles, ChReads
    <2>. QED
      BY <1>0, <1>6, <2>1, ChLabels DEF ChTakes, ChSettles, ChReads
  <1>. QED
    BY <1>0, <1>1, <1>2, <1>4, <1>5, <1>6
    DEF BothStep, ChEffect, ChOfCallback, ChWalks, ChMarks, ChCredits

\* No command is ever worth less.
LEMMA ChWorthGrows ==
    ASSUME BothInv, ChAmountInv, BothStep, rewritten \subseteq rewritten', NEW c \in ChPayments
    PROVE  c \in ChPayments' /\ 1..C!Worth(c) \subseteq 1..C!Worth(c)'
  <1>1. /\ c \in DOMAIN cmds' /\ c \in ChPayments'
        /\ cmds'[c].to = cmds[c].to /\ cmds'[c].amount = cmds[c].amount
    BY ClientKept DEF BothInv, BothStep, ChPayments, CmdKept
  <1>2. cmds[c].amount <= MaxAmount[cmds[c].to]
    BY DEF ChAmountInv, ChPaidBounded, ChPayments
  <1>3. /\ C!Worth(c) \in Nat /\ C!Worth(c)' \in Nat
        /\ cmds[c].amount \in Nat /\ MaxAmount[cmds[c].to] \in Nat
    BY <1>1, ChWorthNat, ChWorthNatNext DEF ChWorthIsNat, BothStep
  <1>4. C!Worth(c) <= C!Worth(c)'
    BY <1>1, <1>2, <1>3 DEF C!Worth
  <1>. QED
    BY <1>1, <1>3, <1>4

\* A command that is past its callback stays so, and its units stay paid.
LEMMA ChPastGrows ==
    ASSUME BothInv, ChAmountInv, BothStep, rewritten \subseteq rewritten', NEW u
    PROVE  /\ ChPast(u) \subseteq ChPast(u)'
           /\ Cardinality(C!Units(ChPast(u))) \in Nat /\ Cardinality(C!Units(ChPast(u))') \in Nat
           /\ Cardinality(C!Units(ChPast(u))) <= Cardinality(C!Units(ChPast(u))')
  <1>0. \A c \in DOMAIN cmds : CmdKept(c)
    BY ClientKept DEF BothInv, BothStep
  <1>1. \A c \in ChPast(u) : c \in ChPast(u)'
    BY <1>0, ChPastIs, ChNeverAgain DEF CmdKept
  <1>2. C!Units(ChPast(u)) \subseteq C!Units(ChPast(u))'
    <2>1. \A c \in ChPast(u) : 1..C!Worth(c) \subseteq 1..C!Worth(c)'
      BY ChPastIs, ChWorthGrows
    <2>. QED
      BY <1>1, <2>1 DEF C!Units
  <1>3. IsFiniteSet(C!Units(ChPast(u))) /\ Cardinality(C!Units(ChPast(u))) \in Nat
    BY ChPastIs, ChUnitsOf
  <1>4. IsFiniteSet(C!Units(ChPast(u))') /\ Cardinality(C!Units(ChPast(u))') \in Nat
    BY ChPastIs, ChAllUnitsFiniteNext DEF ChUnitsFinite, BothStep
  <1>. QED
    BY <1>1, <1>2, <1>3, <1>4, FS_Subset

\* The callback that writes the balance adds the units of its own command.
LEMMA ChPastAdds ==
    ASSUME BothInv, ChCallbackInv, ChAmountInv, BothStep, rewritten \subseteq rewritten',
           NEW t \in Threads, ChCredits(t), NEW u, ChannelUID[chLocal[t].row] = u
    PROVE  Cardinality(C!Units(ChPast(u))) + copied[t][chLocal[t].row]
               <= Cardinality(C!Units(ChPast(u))')
  <1>. PICK c : c = chLocal[t].cmd
    OBVIOUS
  <1>0. /\ t \in C!P!Procs /\ cmds \in Seq(BothCommand)
        /\ \A d \in DOMAIN cmds : CmdKept(d)
    BY ClientKept DEF C!P!Procs, BothInv, BothStep, CommandsOK
  <1>1. /\ chPc[t] = "extWrite" /\ chPc'[t] \notin CreditSteps /\ chLocal'[t].cmd = c
        /\ ChOthers(t)
    BY ChLabels DEF ChCredits, ChLeaves
  <1>2. /\ c \in DOMAIN cmds /\ cmds[c].stage = "succeeded" /\ chLocal[t].row = cmds[c].to
        /\ CmdKept(c)
    BY <1>0, <1>1, ChLabels DEF ChCallbackInv, ChOutcomeKnown
  <1>3. c # 0 /\ cmds[c].to \in ChannelUsers
    <2>1. c \in 1..Len(cmds)
      BY <1>0, <1>2
    <2>2. chLocal[t].row \in ChannelUsers
      BY <1>0, <1>1, ChHolds DEF BothInv, RowLabels
    <2>. QED
      BY <1>2, <2>1, <2>2
  <1>4. c \notin ChPast(u) /\ c \in ChPayments
    BY <1>1, <1>2, <1>3, ChLabels DEF ChPast, ChCallbackAt, ChPayments
  <1>5. c \in ChPast(u)'
    <2>1. ASSUME NEW v \in Threads, chLocal'[v].cmd = c PROVE v = t
      <3>1. chLocal[v].cmd = c
        BY <1>1, <2>1 DEF ChOthers, C!P!Procs
      <3>. QED
        BY <1>3, <3>1 DEF ChCallbackInv, ChOneCallback
    <2>2. ~ChCallbackAt(c)'
      BY <1>1, <2>1 DEF ChCallbackAt
    <2>3. cmds[c].to \in C!P!RowsOf(u)
      BY <1>2, <1>3 DEF C!P!RowsOf
    <2>. QED
      BY <1>2, <2>2, <2>3, ChPastIs DEF CmdKept
  <1>6. Cardinality(C!Units(ChPast(u) \cup {c})) = Cardinality(C!Units(ChPast(u))) + C!Worth(c)
    BY <1>4, ChPastIs, ChUnitsOf
  <1>7. C!Units(ChPast(u) \cup {c}) \subseteq C!Units(ChPast(u))'
    <2>1. ChPast(u) \cup {c} \subseteq ChPast(u)'
      BY <1>5, ChPastGrows
    <2>2. \A d \in ChPast(u) \cup {c} : 1..C!Worth(d) \subseteq 1..C!Worth(d)'
      BY <1>4, ChPastIs, ChWorthGrows
    <2>. QED
      BY <2>1, <2>2 DEF C!Units
  <1>8. IsFiniteSet(C!Units(ChPast(u))')
    BY ChPastIs, ChAllUnitsFiniteNext DEF ChUnitsFinite, BothStep
  <1>9. Cardinality(C!Units(ChPast(u) \cup {c})) <= Cardinality(C!Units(ChPast(u))')
    BY <1>7, <1>8, FS_Subset
  <1>10. copied[t][chLocal[t].row] \in Nat /\ copied[t][chLocal[t].row] <= C!Worth(c)
    <2>. DEFINE r == cmds[c].to
    <2>1. copied[t][r] \in Nat /\ copied[t][r] <= MaxAmount[r]
      BY <1>0, <1>3 DEF BothInv, ChOwnOK
    <2>2. r \notin rewritten => copied[t][r] = cmds[c].amount
      <3>1. ChHolding(t, r)
        BY <1>1, <1>2 DEF ChHolding, ChHoldSteps
      <3>. QED
        BY <1>0, <1>2, <1>3, <3>1 DEF ChAmountInv, ChCopiesFresh, ChPaidFresh
    <2>3. cmds[c].amount \in Nat
      BY <1>4, ChWorthNat DEF ChWorthIsNat
    <2>. QED
      BY <1>2, <2>1, <2>2, <2>3 DEF C!Worth
  <1>11. /\ C!Worth(c) \in Nat /\ Cardinality(C!Units(ChPast(u))) \in Nat
         /\ Cardinality(C!Units(ChPast(u))') \in Nat
    BY <1>4, ChWorthNat, ChPastGrows DEF ChWorthIsNat
  <1>. QED
    BY <1>6, <1>9, <1>10, <1>11

LEMMA ChCreditNext ==
    ASSUME BothInv, ChCallbackInv, ChAmountInv, ChCreditInv, BothStep,
           rewritten \subseteq rewritten'
    PROVE  ChCreditInv'
  <1>. DEFINE M(u) == Cardinality(C!Units(ChPast(u)))
              Mn(u) == Cardinality(C!Units(ChPast(u))')
  <1>0. /\ \A u : M(u) \in Nat /\ Mn(u) \in Nat /\ M(u) <= Mn(u)
        /\ Threads \subseteq C!P!Procs
        /\ channelAirdropCoin \in [C!P!Users -> Nat]
    BY ChPastGrows DEF C!P!Procs, BothInv, ChInv, ChRowsOK
  <1>1. /\ \A u \in C!P!Users : channelAirdropCoin[u] <= M(u)
        /\ \A t \in Threads, u \in C!P!Users :
              chPc[t] = "extWrite" /\ ChannelUID[chLocal[t].row] = u =>
                  chLocal[t].num \in Nat /\ chLocal[t].num <= M(u)
    BY <1>0, ChHolds DEF ChCreditInv, ChCreditsPast, ChSumsPast, BothInv
  <1>2. \A u : \A t \in Threads :
           ChCredits(t) /\ ChannelUID[chLocal[t].row] = u
              => M(u) + copied[t][chLocal[t].row] <= Mn(u)
    BY ChPastAdds
  <1>. HIDE DEF M, Mn
  <1>3. \A u \in C!P!Users : channelAirdropCoin'[u] <= Mn(u)
    <2>1. CASE UNCHANGED channelAirdropCoin
      BY <1>0, <1>1, <2>1
    <2>2. ASSUME NEW t \in Threads, ChCredits(t), NEW u \in C!P!Users
          PROVE  channelAirdropCoin'[u] <= Mn(u)
      <3>. PICK w : w = ChannelUID[chLocal[t].row]
        OBVIOUS
      <3>1. /\ channelAirdropCoin' =
                 [channelAirdropCoin EXCEPT ![w] = chLocal[t].num + copied[t][chLocal[t].row]]
            /\ chPc[t] = "extWrite"
        BY <2>2 DEF ChCredits
      <3>2. chLocal[t].row \in ChannelUsers
        BY <1>0, <3>1, ChHolds DEF BothInv, RowLabels
      <3>3. copied[t][chLocal[t].row] \in Nat /\ w \in C!P!Users
        BY <1>0, <3>2 DEF C!P!Users, BothInv, ChOwnOK
      <3>4. chLocal[t].num \in Nat /\ chLocal[t].num <= M(w)
        BY <1>1, <3>1, <3>3
      <3>5. CASE u = w
        <4>1. channelAirdropCoin'[u] = chLocal[t].num + copied[t][chLocal[t].row]
          BY <1>0, <3>1, <3>5
        <4>2. M(w) + copied[t][chLocal[t].row] <= Mn(w)
          BY <1>2, <2>2
        <4>. QED
          BY <1>0, <3>3, <3>4, <3>5, <4>1, <4>2
      <3>6. CASE u # w
        BY <1>0, <1>1, <3>1, <3>6
      <3>. QED
        BY <3>5, <3>6
    <2>. QED
      BY <2>1, <2>2
      DEF BothStep, ChEffect, ChRests, ChRegisters, ChDies, ChOfCallback, ChWalks, ChMarks,
          ChStarts, ChTakes, ChSettles, ChReads, ChBooks
  <1>4. ASSUME NEW t \in Threads, chPc'[t] = "extWrite",
               NEW u \in C!P!Users, ChannelUID[chLocal'[t].row] = u
        PROVE  chLocal'[t].num <= Mn(u)
    <2>1. CASE chPc[t] = "extWrite" /\ chLocal'[t] = chLocal[t]
      BY <1>0, <1>1, <1>4, <2>1
    <2>2. CASE ChReads(t)
      <3>1. /\ chLocal'[t].num = channelAirdropCoin[ChannelUID[chLocal[t].row]]
            /\ chLocal'[t].row = chLocal[t].row
        BY <2>2 DEF ChReads
      <3>. QED
        BY <1>0, <1>1, <1>4, <3>1
    <2>3. (chPc[t] = "extWrite" /\ chLocal'[t] = chLocal[t]) \/ ChReads(t)
      BY <1>0, <1>4, ChLabels
      DEF BothStep, ChEffect, ChRests, ChRegisters, ChDies, ChOfCallback, ChWalks, ChMarks,
          ChStarts, Entry, ChTakes, ChSettles, ChReads, ChCredits, ChLeaves, ChOthers
    <2>. QED
      BY <2>1, <2>2, <2>3
  <1>. QED
    BY <1>3, <1>4 DEF ChCreditInv, ChCreditsPast, ChSumsPast, Mn, C!P!Users

LEMMA ChCreditInit == BothInit => ChCreditInv
  <1>. SUFFICES ASSUME BothInit PROVE ChCreditInv
    OBVIOUS
  <1>1. BothInv
    BY BothInvInit
  <1>2. \A u : Cardinality(C!Units(ChPast(u))) \in Nat
    BY <1>1, ChPastIs, ChUnitsOf
  <1>3. \A u \in C!P!Users : channelAirdropCoin[u] = 0
    BY DEF BothInit, C!Init, C!P!Init, C!P!CollectionInit
  <1>4. \A t \in Threads : chPc[t] = "idle"
    BY DEF BothInit, C!Init, C!P!Init, C!P!Procs
  <1>. QED
    BY <1>2, <1>3, <1>4 DEF ChCreditInv, ChCreditsPast, ChSumsPast

\* Nobody's channel balance is more than the payments of the own channel rows that
\* succeeded, whichever dispatcher was told of them: a callback credits the
\* row its track id names, and a command of the Twitter dispatcher names none.
\* The amount is read once to pay it and once to credit it, and plans write it
\* in between; a row that was rewritten while it was valid counts for the largest
\* amount a plan writes (airdropRun, successAfter, UpdateCreateAirdrop).
THEOREM ChannelCreditsBacked == BothSpec => []ChannelCreditExact
  <1>1. ChSettledInv /\ ChCreditInv => ChannelCreditExact
    <2>. SUFFICES ASSUME BothInv, ChCreditInv, NEW u \in C!P!Users
                  PROVE  channelAirdropCoin[u] <= Cardinality(C!Units(C!Succeeded(u)))
      BY ChSameCardinality DEF ChSettledInv, ChannelCreditExact, C!CreditExact
    <2>1. C!Succeeded(u) \in SUBSET ChPayments /\ ChPast(u) \in SUBSET C!Succeeded(u)
      <3>1. \A c \in C!Succeeded(u) : c \in ChPayments
        BY DEF C!Succeeded, C!Payments, C!P!RowsOf, ChPayments
      <3>. QED
        BY <3>1 DEF ChPast
    <2>2. C!Units(ChPast(u)) \subseteq C!Units(C!Succeeded(u))
      BY <2>1 DEF C!Units
    <2>3. /\ IsFiniteSet(C!Units(C!Succeeded(u)))
          /\ Cardinality(C!Units(C!Succeeded(u))) \in Nat
      BY <2>1, ChUnitsOf
    <2>4. /\ Cardinality(C!Units(ChPast(u))) \in Nat
          /\ Cardinality(C!Units(ChPast(u))) <= Cardinality(C!Units(C!Succeeded(u)))
      BY <2>2, <2>3, FS_Subset, FS_CardinalityType
    <2>5. channelAirdropCoin[u] \in Nat /\ channelAirdropCoin[u] <= Cardinality(C!Units(ChPast(u)))
      BY DEF BothInv, ChInv, ChRowsOK, ChCreditInv, ChCreditsPast
    <2>. QED
      BY <2>3, <2>4, <2>5
  <1>2. BothInit => ChSettledInv /\ ChAmountInv /\ ChCreditInv
    BY ChSettledInit, ChAmountInit, ChCreditInit
  <1>3. ChSettledInv /\ ChAmountInv /\ ChCreditInv /\ [BothNext]_bothVars
           => (ChSettledInv /\ ChAmountInv /\ ChCreditInv)'
    <2>. SUFFICES ASSUME ChSettledInv, ChAmountInv, ChCreditInv, [BothNext]_bothVars
                  PROVE  (ChSettledInv /\ ChAmountInv /\ ChCreditInv)'
      OBVIOUS
    <2>1. ChSettledInv' /\ BothStep
      BY ChSettledStep
    <2>2. ChAmountInv' /\ rewritten \subseteq rewritten'
      BY ChAmountStep, ChAmountNext DEF ChSettledInv, ChAmountInv
    <2>. QED
      BY <2>1, <2>2, ChCreditNext DEF ChSettledInv
  <1>. QED
    BY <1>1, <1>2, <1>3, PTL DEF BothSpec

-----------------------------------------------------------------------------
(* What a step does to the callbacks of both, and to the two balances.  The  *)
(* callbacks of the Twitter dispatcher move as AirdropLedgerProofs says.     *)

TwOthers(t) == \A v \in Threads \ {t} : ThreadStays(v)

TwRests ==
    /\ \A t \in Threads : ThreadStays(t) \/ (ThreadFree(t) /\ pc[t] # "idle")
    /\ UNCHANGED airdropCoin

TwGoesOn(t) == TwOthers(t) /\ ThreadGoesOn(t) /\ UNCHANGED airdropCoin

TwCredits(t) ==
    /\ pc[t] = "extWrite"
    /\ airdropCoin' =
          [airdropCoin EXCEPT ![Owner[local[t].row]] = local[t].num + Coin[local[t].row]]

TwEnds(t) == TwOthers(t) /\ ThreadLeaves(t) /\ (UNCHANGED airdropCoin \/ TwCredits(t))

TwGoes == TwRests \/ \E t \in Threads : TwGoesOn(t) \/ TwEnds(t)

\* A step of the Twitter dispatcher that starts no callback.
LEMMA TwitterGoes ==
    ASSUME OwnInv, TwitterStep
    PROVE  TwGoes
  <1>0. ProcsOK /\ Threads \subseteq Procs /\ Sessions \cap Threads = {}
    BY ProcsAssumption DEF OwnInv, Procs
  <1>1. UNCHANGED airdropCoin \/ \E t \in Threads : TwCredits(t) /\ pc'[t] = "again"
    <2>1. Next
      BY DEF TwitterStep, Next
    <2>2. \A t \in Threads : ExtWrite(t) => pc[t] = "extWrite" /\ pc'[t] = "again"
      BY <1>0 DEF ExtWrite, Credit, Goto, ProcsOK
    <2>. QED
      BY <2>1, <2>2, CoinSteps DEF UpdateAirdropCoin, TwCredits
  <1>2. ASSUME \A t \in Threads : ThreadStays(t) \/ (ThreadFree(t) /\ pc[t] # "idle")
        PROVE  TwGoes
    <2>1. ASSUME NEW t \in Threads, pc[t] = "extWrite", pc'[t] = "again" PROVE FALSE
      BY <1>2, <2>1 DEF ThreadStays, ThreadFree, OutcomeSteps, CreditSteps
    <2>. QED
      BY <1>1, <1>2, <2>1 DEF TwGoes, TwRests, TwCredits
  <1>3. CASE \E a \in Airdrops : Insert(a)
    BY <1>2, <1>3 DEF Insert, procVars, ThreadStays
  <1>4. CASE \E s \in Sessions : Request(s)
    BY <1>0, <1>2, <1>4
    DEF Request, AirdropTwitter, Proceed, ResetBudget, ResetStop, ResetDo, StartFeeder,
        AwaitStop, ClientGone, Goto, procVars, ProcsOK, ThreadStays
  <1>5. CASE \E s \in Sessions : Feeder(s)
    BY <1>0, <1>2, <1>5
    DEF Feeder, ListAirdrops, NextAirdrop, FeederEnds, Return, Goto, ProcsOK, ThreadStays
  <1>6. ASSUME NEW p \in Procs, Runner(p) \/ \E s \in Sessions : Rendezvous(p, s)
        PROVE  TwGoes
    BY <1>0, <1>2, <1>6, RunnerMove DEF ThreadStays
  <1>7. ASSUME NEW t \in Threads, After(t)
        PROVE  TwGoes
    <2>1. /\ TwOthers(t) /\ pc[t] # "idle"
          /\ ThreadFree(t) \/ ThreadLeaves(t) \/ ThreadGoesOn(t)
      BY <1>0, <1>7, AfterMove DEF AfterMoved, TwOthers, ThreadStays
    <2>2. CASE ThreadFree(t)
      BY <1>2, <2>1, <2>2 DEF TwOthers
    <2>3. \A v \in Threads : pc[v] = "extWrite" /\ pc'[v] = "again" => v = t
      BY <2>1 DEF TwOthers, ThreadStays
    <2>4. CASE ThreadLeaves(t)
      BY <1>1, <2>1, <2>3, <2>4 DEF TwGoes, TwEnds, TwCredits
    <2>5. CASE ThreadGoesOn(t)
      <3>1. pc'[t] # "again"
        BY <2>5 DEF ThreadGoesOn
      <3>. QED
        BY <1>1, <2>1, <2>3, <2>5, <3>1 DEF TwGoes, TwGoesOn, TwCredits
    <2>. QED
      BY <2>1, <2>2, <2>4, <2>5
  <1>. QED
    BY <1>3, <1>4, <1>5, <1>6, <1>7 DEF TwitterStep

ChStays(t) == chPc'[t] = chPc[t] /\ chLocal'[t] = chLocal[t]

\* The outcome of command c is told to thread t, which runs a callback of one of them.
BothStarts(t, c, stage) ==
    /\ pc[t] = "idle" /\ chPc[t] = "idle"
    /\ cmds[c].stage \in Unfinished
    /\ cmds' = [cmds EXCEPT ![c].stage = stage]
    /\ UNCHANGED <<airdropCoin, channelAirdropCoin>>
    /\ \A v \in Threads \ {t} : ThreadStays(v) /\ ChStays(v)
    /\ \/ ThreadStays(t) /\ chLocal'[t].cmd = c /\ chPc'[t] = Entry(stage)
       \/ ChStays(t) /\ local'[t].cmd = c /\ pc'[t] = Entry(stage)

BothDie ==
    /\ \A t \in Threads : pc'[t] = "idle" /\ chPc'[t] = "idle"
    /\ LoseUnfinished
    /\ UNCHANGED <<airdropCoin, channelAirdropCoin>>

Submits == UNCHANGED cmds \/ ClientQueues

\* The four kinds of step.
LEMMA BothMoves ==
    ASSUME BothInv, [BothNext]_bothVars
    PROVE  \/ TwGoes /\ ChRests /\ Submits
           \/ ChGoes /\ UNCHANGED <<pc, local, airdropCoin>> /\ Submits
           \/ \E t \in Threads, c \in DOMAIN cmds, stage \in {"generated", "succeeded", "failed"} :
                 BothStarts(t, c, stage)
           \/ BothDie
  <1>. USE DEF Submits
  <1>0. /\ OwnInv /\ ChInv /\ ProcsOK /\ Threads \subseteq Procs
        /\ Threads \subseteq C!P!Procs
    BY DEF BothInv, OwnInv, Procs, C!P!Procs
  <1>1. UNCHANGED channelVars => ChRests /\ UNCHANGED <<chPc, chLocal, channelAirdropCoin>>
    BY DEF channelVars, ChRests, ChBooks
  <1>2. UNCHANGED twitterVars => UNCHANGED <<pc, local, airdropCoin>>
    BY DEF twitterVars, procVars, collectionVars
  <1>3. CASE UNCHANGED bothVars
    <2>1. UNCHANGED <<pc, local, airdropCoin, cmds>> /\ UNCHANGED channelVars
      BY <1>2, <1>3 DEF bothVars, clientVars
    <2>. QED
      BY <1>1, <2>1 DEF TwGoes, TwRests, ThreadStays
  <1>4. CASE TwitterStep /\ UNCHANGED channelVars
    BY <1>0, <1>1, <1>4, TwitterGoes, TwitterClient DEF TwitterQueues, ClientQueues
  <1>5. CASE ChannelStep /\ UNCHANGED twitterVars
    BY <1>2, <1>5, ChannelKept
  <1>6. ASSUME NEW t \in Threads, NEW c \in DOMAIN cmds, TwitterEvent(t, c)
        PROVE  \E stage \in {"generated", "succeeded", "failed"} : BothStarts(t, c, stage)
    <2>1. PICK from \in SUBSET Unfinished, stage \in {"generated", "succeeded", "failed"},
               entry \in {"txFind", "successFind", "failedFind"} :
             Callback(t, c, from, stage, entry) /\ entry = Entry(stage)
      BY <1>6
      DEF TwitterEvent, Event, OnTxGenerated, OnSucceed, OnFailed, Unfinished, Entry
    <2>2. /\ \A v \in Threads \ {t} : ThreadStays(v)
          /\ pc[t] = "idle" /\ pc'[t] = Entry(stage)
          /\ local'[t].cmd = c
      BY <1>0, <2>1 DEF Callback, Goto, ProcsOK, Locals, ThreadStays
    <2>3. /\ cmds[c].stage \in Unfinished
          /\ cmds' = [cmds EXCEPT ![c].stage = stage]
          /\ UNCHANGED airdropCoin
      BY <2>1 DEF Callback, Report, collectionVars
    <2>4. chPc[t] = "idle" /\ UNCHANGED channelAirdropCoin /\ \A v \in Threads : ChStays(v)
      BY <1>1, <1>6 DEF TwitterEvent, ChStays
    <2>. QED
      BY <2>2, <2>3, <2>4 DEF BothStarts
  <1>7. ASSUME NEW t \in Threads, NEW c \in DOMAIN cmds, ChannelEvent(t, c)
        PROVE  \E d \in DOMAIN cmds, stage \in {"generated", "succeeded", "failed"} :
                  BothStarts(t, d, stage)
    <2>1. ChStarts(t) /\ pc[t] = "idle" /\ UNCHANGED <<pc, local, airdropCoin>>
      BY <1>0, <1>2, <1>7, ChEventEffect DEF ChannelEvent
    <2>2. PICK d \in DOMAIN cmds, stage \in {"generated", "succeeded", "failed"} :
             /\ ChOthers(t)
             /\ chPc[t] = "idle"
             /\ cmds[d].stage \in Unfinished
             /\ cmds' = [cmds EXCEPT ![d].stage = stage]
             /\ chLocal'[t].cmd = d
             /\ chPc'[t] = Entry(stage)
             /\ UNCHANGED ChBooks
      BY <2>1 DEF ChStarts
    <2>3. (\A v \in Threads \ {t} : ChStays(v)) /\ UNCHANGED channelAirdropCoin
      BY <1>0, <2>2 DEF ChOthers, ChStays, ChBooks
    <2>. QED
      BY <2>1, <2>2, <2>3 DEF BothStarts, ThreadStays
  <1>8. CASE CrashBoth
    <2>1. Down /\ C!Down /\ LoseUnfinished
      BY <1>8 DEF CrashBoth, Down
    <2>2. \A t \in Threads : pc'[t] = "idle" /\ chPc'[t] = "idle"
      <3>1. Sessions \cap Threads = {} /\ ChSessions \cap Threads = {}
        BY ProcsAssumption, KindsAssumption DEF Procs
      <3>. QED
        BY <1>0, <2>1, <3>1 DEF Down, C!Down, C!P!Down
    <2>. QED
      BY <2>1, <2>2 DEF BothDie, Down, C!Down, C!P!Down, collectionVars, C!P!collectionVars
  <1>. QED
    BY <1>3, <1>4, <1>5, <1>6, <1>7, <1>8 DEF BothNext

-----------------------------------------------------------------------------
(* Whom a callback pays.  A thread runs a callback of one dispatcher at a    *)
(* time.                                                                     *)

ChPayee(t) == Owner[cmds[chLocal[t].cmd].to]

TwOutcomeKnown(t) ==
    pc[t] \in OutcomeSteps =>
        /\ local[t].cmd \in DOMAIN cmds
        /\ pc[t] \in ChUpdateSteps => Owner[local[t].row] = Payee(t)

OneSide(t) == pc[t] = "idle" \/ chPc[t] = "idle"

PayeeInv ==
    /\ BothInv /\ ChCallbackInv
    /\ \A t \in Threads : TwOutcomeKnown(t) /\ OneSide(t)

LEMMA PayeeInit == BothInit => PayeeInv
  <1>. SUFFICES ASSUME BothInit PROVE PayeeInv
    OBVIOUS
  <1>1. \A t \in Threads : pc[t] = "idle"
    BY DEF BothInit, Init, Procs
  <1>2. \A t \in Threads : TwOutcomeKnown(t) /\ OneSide(t)
    BY <1>1, ChLabels DEF TwOutcomeKnown, OneSide
  <1>. QED
    BY <1>2, BothInvInit, ChCallbackInit DEF PayeeInv

\* While a callback keeps its command it keeps whom it pays.
LEMMA SamePayee ==
    ASSUME PayeeInv, BothStep, NEW t \in Threads
    PROVE  /\ pc[t] \in OutcomeSteps /\ SameCmd(t) =>
                 Payee(t)' = Payee(t) /\ local'[t].cmd \in DOMAIN cmds'
           /\ chPc[t] \in OutcomeSteps /\ chLocal'[t].cmd = chLocal[t].cmd =>
                 ChPayee(t)' = ChPayee(t)
  <1>1. \A c \in DOMAIN cmds : CmdKept(c)
    BY ClientKept DEF PayeeInv, BothInv, BothStep
  <1>2. TwOutcomeKnown(t) /\ ChOutcomeKnown(t)
    BY DEF PayeeInv, ChCallbackInv
  <1>. QED
    BY <1>1, <1>2 DEF TwOutcomeKnown, ChOutcomeKnown, SameCmd, Payee, ChPayee, CmdKept

LEMMA PayeeStays ==
    ASSUME PayeeInv, BothStep, NEW t \in Threads
    PROVE  /\ ThreadStays(t) \/ ThreadGoesOn(t) => TwOutcomeKnown(t)'
           /\ pc'[t] \notin OutcomeSteps => TwOutcomeKnown(t)'
  <1>1. TwOutcomeKnown(t)
    BY DEF PayeeInv
  <1>2. ASSUME ThreadStays(t) PROVE TwOutcomeKnown(t)'
    BY <1>1, <1>2, SamePayee DEF ThreadStays, SameCmd, TwOutcomeKnown
  <1>3. ASSUME ThreadGoesOn(t) PROVE TwOutcomeKnown(t)'
    <2>1. pc[t] \in OutcomeSteps /\ SameCmd(t)
      BY <1>3, ChLabels DEF ThreadGoesOn
    <2>2. local'[t].cmd \in DOMAIN cmds' /\ Payee(t)' = Payee(t)
      BY <2>1, SamePayee
    <2>3. Owner[local'[t].row] = Payee(t)
      BY <1>1, <1>3, <2>1, ChLabels DEF ThreadGoesOn, TwOutcomeKnown, SameRow
    <2>. QED
      BY <2>2, <2>3 DEF TwOutcomeKnown
  <1>4. pc'[t] \notin OutcomeSteps => TwOutcomeKnown(t)'
    BY DEF TwOutcomeKnown
  <1>. QED
    BY <1>2, <1>3, <1>4

LEMMA PayeeNext == PayeeInv /\ [BothNext]_bothVars => PayeeInv' /\ BothStep
  <1>. SUFFICES ASSUME PayeeInv, [BothNext]_bothVars PROVE PayeeInv' /\ BothStep
    OBVIOUS
  <1>1. BothStep /\ BothInv' /\ ChCallbackInv'
    BY BothNextStep, ChCallbackNext DEF PayeeInv, BothStep
  <1>2. SUFFICES ASSUME NEW t \in Threads
                 PROVE  TwOutcomeKnown(t)' /\ OneSide(t)'
    BY <1>1 DEF PayeeInv
  <1>3. t \in C!P!Procs /\ OneSide(t)
    BY DEF C!P!Procs, PayeeInv
  <1>4. CASE TwGoes /\ ChRests
    <2>1. ThreadStays(t) \/ (pc[t] # "idle" /\ (ThreadGoesOn(t) \/ pc'[t] \notin OutcomeSteps))
      BY <1>4, ChLabels
      DEF TwGoes, TwRests, TwGoesOn, TwEnds, TwOthers, ThreadFree, ThreadLeaves, ThreadGoesOn
    <2>2. TwOutcomeKnown(t)'
      BY <1>1, <2>1, PayeeStays
    <2>3. OneSide(t)'
      BY <1>3, <1>4, <2>1 DEF OneSide, ChRests, ThreadStays
    <2>. QED
      BY <2>2, <2>3
  <1>5. CASE ChGoes /\ UNCHANGED <<pc, local>>
    <2>1. TwOutcomeKnown(t)'
      BY <1>1, <1>5, PayeeStays DEF ThreadStays
    <2>2. chPc[t] = "idle" => chPc'[t] = "idle"
      BY <1>3, <1>5
      DEF ChGoes, ChRests, ChRegisters, ChWalks, ChMarks, ChTakes, ChSettles, ChReads,
          ChCredits, ChLeaves, ChOthers
    <2>3. OneSide(t)'
      BY <1>3, <1>5, <2>2 DEF OneSide
    <2>. QED
      BY <2>1, <2>3
  <1>6. ASSUME NEW v \in Threads, NEW c \in DOMAIN cmds,
               NEW stage \in {"generated", "succeeded", "failed"}, BothStarts(v, c, stage)
        PROVE  TwOutcomeKnown(t)' /\ OneSide(t)'
    <2>1. CASE t # v
      BY <1>1, <1>3, <1>6, <2>1, PayeeStays DEF BothStarts, ThreadStays, ChStays, OneSide
    <2>2. CASE t = v /\ ThreadStays(t)
      BY <1>1, <1>6, <2>2, PayeeStays DEF BothStarts, ThreadStays, OneSide
    <2>3. CASE t = v /\ ChStays(t) /\ local'[t].cmd = c /\ pc'[t] = Entry(stage)
      <3>1. c \in DOMAIN cmds'
        BY <1>6 DEF BothStarts
      <3>2. pc'[t] \notin ChUpdateSteps
        BY <2>3, ChLabels DEF Entry
      <3>. QED
        BY <1>6, <2>3, <3>1, <3>2 DEF BothStarts, ChStays, OneSide, TwOutcomeKnown
    <2>. QED
      BY <1>6, <2>1, <2>2, <2>3 DEF BothStarts
  <1>7. CASE BothDie
    BY <1>7, ChLabels DEF BothDie, TwOutcomeKnown, OneSide
  <1>. QED
    BY <1>4, <1>5, <1>6, <1>7, BothMoves DEF PayeeInv

-----------------------------------------------------------------------------
(* What is credited, in multiples of the most one payment is worth.  A sum   *)
(* that is read and not yet written is covered like the balance itself.      *)

TwCovered(u, n) ==
    /\ u \in Users => airdropCoin[u] <= Worth[u] * n
    /\ \A t \in Threads : pc[t] = "extWrite" /\ Payee(t) = u => local[t].num <= Worth[u] * n

ChCovered(u, n) ==
    /\ u \in C!P!Users => channelAirdropCoin[u] <= Worth[u] * n
    /\ \A t \in Threads : chPc[t] = "extWrite" /\ ChPayee(t) = u => chLocal[t].num <= Worth[u] * n

TwKeeps(u) == \A n \in Nat : TwCovered(u, n) => TwCovered(u, n)'
TwGains(u) == \A n \in Nat : TwCovered(u, n) => \E m \in {n, n + 1} : TwCovered(u, m)'
ChKeeps(u) == \A n \in Nat : ChCovered(u, n) => ChCovered(u, n)'
ChGains(u) == \A n \in Nat : ChCovered(u, n) => \E m \in {n, n + 1} : ChCovered(u, m)'

LEMMA KeepsGains == \A u : (TwKeeps(u) => TwGains(u)) /\ (ChKeeps(u) => ChGains(u))
  BY DEF TwKeeps, TwGains, TwCovered, ChKeeps, ChGains, ChCovered, C!P!Users

\* The largest amount of a user exists, and bounds the others.
LEMMA WorthType ==
    /\ \A u \in AllUsers : Worth[u] \in Nat
    /\ \A a \in Airdrops :
          Owner[a] \in AllUsers /\ Coin[a] \in Nat /\ Coin[a] <= Worth[Owner[a]]
    /\ \A r \in ChannelUsers :
          /\ Owner[r] \in AllUsers /\ Owner[r] = ChannelUID[r]
          /\ MaxAmount[r] \in Nat /\ MaxAmount[r] <= Worth[Owner[r]]
  <1>1. ASSUME NEW u \in AllUsers
        PROVE  Worth[u] \in Nat /\ \A m \in Amounts(u) : m <= Worth[u]
    <2>1. Amounts(u) \subseteq Nat
      BY CoinAssumption, ChannelAssumption DEF Amounts
    <2>2. PICK n \in Amounts(u) : \A m \in Amounts(u) : m <= n
      BY <1>1, WorthAssumption
    <2>3. Max(Amounts(u)) \in Amounts(u) /\ \A m \in Amounts(u) : Max(Amounts(u)) >= m
      BY <2>1, <2>2 DEF Max
    <2>4. Worth[u] = Max(Amounts(u))
      BY <1>1 DEF Worth
    <2>. QED
      BY <2>1, <2>3, <2>4
  <1>2. ASSUME NEW a \in Airdrops
        PROVE  Owner[a] \in AllUsers /\ Coin[a] \in Nat /\ Coin[a] \in Amounts(Owner[a])
    BY CoinAssumption DEF AllUsers, Amounts
  <1>3. ASSUME NEW r \in ChannelUsers
        PROVE  /\ Owner[r] \in AllUsers /\ Owner[r] = ChannelUID[r]
               /\ MaxAmount[r] \in Nat /\ MaxAmount[r] \in Amounts(Owner[r])
    BY KindsAssumption, ChannelAssumption DEF AllUsers, Amounts
  <1>. QED
    BY <1>1, <1>2, <1>3

\* Where no balance is written, a sum is read from a balance that is covered.
LEMMA TwKeepsCover ==
    ASSUME NEW u, u \in Users => airdropCoin'[u] = airdropCoin[u],
           \A t \in Threads :
              pc'[t] = "extWrite" /\ Payee(t)' = u =>
                 \/ pc[t] = "extWrite" /\ Payee(t) = u /\ local'[t].num = local[t].num
                 \/ u \in Users /\ local'[t].num = airdropCoin[u]
    PROVE  TwKeeps(u)
  BY DEF TwKeeps, TwCovered

LEMMA ChKeepsCover ==
    ASSUME NEW u, u \in C!P!Users => channelAirdropCoin'[u] = channelAirdropCoin[u],
           \A t \in Threads :
              chPc'[t] = "extWrite" /\ ChPayee(t)' = u =>
                 \/ chPc[t] = "extWrite" /\ ChPayee(t) = u /\ chLocal'[t].num = chLocal[t].num
                 \/ u \in C!P!Users /\ chLocal'[t].num = channelAirdropCoin[u]
    PROVE  ChKeeps(u)
  BY DEF ChKeeps, ChCovered, C!P!Users

-----------------------------------------------------------------------------
(* A step of either dispatcher settles at most one payment.                  *)

TwOwes(t, u) == pc[t] \in CreditSteps /\ Payee(t) = u
ChOwes(t, u) == chPc[t] \in CreditSteps /\ ChPayee(t) = u

TwUndisturbed(t) == \A u : TwOwes(t, u)' <=> TwOwes(t, u)
ChUndisturbed(t) == \A u : ChOwes(t, u)' <=> ChOwes(t, u)

TwQuiet ==
    /\ \A t \in Threads : TwUndisturbed(t)
    /\ UNCHANGED airdropCoin
    /\ \A u \in AllUsers : TwKeeps(u)

TwSettlesOwn(t) ==
    /\ pc[t] \in CreditSteps
    /\ \A v \in Threads \ {t} : TwUndisturbed(v)
    /\ \A u : ~TwOwes(t, u)'
    /\ \A u \in AllUsers \ {Payee(t)} : TwKeeps(u) /\ (u \in Users => airdropCoin'[u] = airdropCoin[u])
    /\ TwGains(Payee(t))

ChQuiet ==
    /\ \A t \in Threads : ChUndisturbed(t)
    /\ UNCHANGED channelAirdropCoin
    /\ \A u \in AllUsers : ChKeeps(u)

ChSettlesOwn(t) ==
    /\ chPc[t] \in CreditSteps
    /\ \A v \in Threads \ {t} : ChUndisturbed(v)
    /\ \A u : ~ChOwes(t, u)'
    /\ \A u \in AllUsers \ {ChPayee(t)} :
          ChKeeps(u) /\ (u \in C!P!Users => channelAirdropCoin'[u] = channelAirdropCoin[u])
    /\ ChGains(ChPayee(t))

\* A callback that stays, or goes on, settles nothing.
LEMMA TwUndisturbs ==
    ASSUME PayeeInv, BothStep, NEW t \in Threads,
           \/ ThreadStays(t) \/ ThreadGoesOn(t) \/ ThreadFree(t)
           \/ pc[t] \notin CreditSteps /\ pc'[t] \notin CreditSteps
    PROVE  TwUndisturbed(t)
  <1>1. CASE ThreadStays(t) \/ ThreadGoesOn(t)
    <2>1. pc[t] \in CreditSteps <=> pc'[t] \in CreditSteps
      BY <1>1, ChLabels DEF ThreadStays, ThreadGoesOn
    <2>2. pc[t] \in CreditSteps => Payee(t)' = Payee(t)
      BY <1>1, SamePayee, ChLabels DEF ThreadStays, ThreadGoesOn, SameCmd
    <2>. QED
      BY <2>1, <2>2 DEF TwUndisturbed, TwOwes
  <1>2. CASE pc[t] \notin CreditSteps /\ pc'[t] \notin CreditSteps
    BY <1>2 DEF TwUndisturbed, TwOwes
  <1>. QED
    BY <1>1, <1>2, ChLabels DEF ThreadFree

LEMMA ChUndisturbs ==
    ASSUME PayeeInv, BothStep, NEW t \in Threads,
           \/ /\ chPc[t] \in CreditSteps <=> chPc'[t] \in CreditSteps
              /\ chLocal'[t].cmd = chLocal[t].cmd
           \/ chPc[t] \notin CreditSteps /\ chPc'[t] \notin CreditSteps
    PROVE  ChUndisturbed(t)
  <1>1. chPc[t] \in CreditSteps /\ chLocal'[t].cmd = chLocal[t].cmd => ChPayee(t)' = ChPayee(t)
    BY SamePayee, ChLabels
  <1>. QED
    BY <1>1 DEF ChUndisturbed, ChOwes

\* The row at hand is a row of whom the callback pays.
LEMMA TwRowOf ==
    ASSUME PayeeInv, NEW t \in Threads, pc[t] \in {"extRead", "extWrite"}
    PROVE  /\ local[t].row \in Airdrops /\ Owner[local[t].row] = Payee(t)
           /\ Payee(t) \in Users /\ Payee(t) \in AllUsers
  <1>1. local[t].row \in Airdrops
    BY DEF PayeeInv, BothInv, OwnInv, RowHeld, RowLabels, Procs, Rows
  <1>2. Owner[local[t].row] = Payee(t)
    BY ChLabels DEF PayeeInv, TwOutcomeKnown
  <1>. QED
    BY <1>1, <1>2, WorthType DEF Users

LEMMA ChRowOf ==
    ASSUME PayeeInv, NEW t \in Threads, chPc[t] \in {"extRead", "extWrite"}
    PROVE  /\ chLocal[t].row \in ChannelUsers /\ ChannelUID[chLocal[t].row] = ChPayee(t)
           /\ Owner[chLocal[t].row] = ChPayee(t)
           /\ ChPayee(t) \in C!P!Users /\ ChPayee(t) \in AllUsers
  <1>1. chLocal[t].row \in ChannelUsers
    BY ChHolds DEF PayeeInv, BothInv, RowLabels, C!P!Procs
  <1>2. chLocal[t].row = cmds[chLocal[t].cmd].to
    BY ChLabels DEF PayeeInv, ChCallbackInv, ChOutcomeKnown
  <1>. QED
    BY <1>1, <1>2, WorthType DEF C!P!Users, ChPayee

LEMMA TwEffect ==
    ASSUME PayeeInv, BothStep, TwGoes
    PROVE  TwQuiet \/ \E t \in Threads : TwSettlesOwn(t)
  <1>1. ASSUME NEW t \in Threads, ThreadStays(t) \/ ThreadGoesOn(t) \/ pc'[t] # "extWrite",
               NEW u, pc'[t] = "extWrite", Payee(t)' = u
        PROVE  \/ pc[t] = "extWrite" /\ Payee(t) = u /\ local'[t].num = local[t].num
               \/ u \in Users /\ local'[t].num = airdropCoin[u]
    <2>1. CASE ThreadStays(t)
      BY <1>1, <2>1, SamePayee, ChLabels DEF ThreadStays, SameCmd
    <2>2. CASE ThreadGoesOn(t)
      <3>1. pc[t] = "extRead" /\ local'[t].num = airdropCoin[Owner[local[t].row]] /\ SameCmd(t)
        BY <1>1, <2>2 DEF ThreadGoesOn
      <3>2. Payee(t) = u
        BY <1>1, <3>1, SamePayee, ChLabels
      <3>. QED
        BY <3>1, <3>2, TwRowOf
    <2>. QED
      BY <1>1, <2>1, <2>2
  <1>2. CASE /\ UNCHANGED airdropCoin
             /\ \A t \in Threads : ThreadStays(t) \/ ThreadGoesOn(t) \/ ThreadFree(t)
    <2>1. \A t \in Threads : ThreadFree(t) => pc'[t] # "extWrite"
      BY ChLabels DEF ThreadFree
    <2>2. \A u : TwKeeps(u)
      BY <1>1, <1>2, <2>1, TwKeepsCover
    <2>3. \A t \in Threads : TwUndisturbed(t)
      BY <1>2, TwUndisturbs
    <2>. QED
      BY <1>2, <2>2, <2>3 DEF TwQuiet
  <1>3. ASSUME NEW t \in Threads, TwEnds(t)
        PROVE  TwQuiet \/ TwSettlesOwn(t)
    <2>1. /\ pc[t] \in OutcomeSteps /\ pc'[t] \notin OutcomeSteps /\ SameCmd(t)
          /\ \A v \in Threads \ {t} : ThreadStays(v)
          /\ UNCHANGED airdropCoin \/ TwCredits(t)
      BY <1>3 DEF TwEnds, TwOthers, ThreadLeaves
    <2>2. \A v \in Threads \ {t} : TwUndisturbed(v)
      BY <2>1, TwUndisturbs
    <2>3. ASSUME NEW u, u \in Users => airdropCoin'[u] = airdropCoin[u]
          PROVE  TwKeeps(u)
      <3>1. pc'[t] # "extWrite"
        BY <2>1, ChLabels
      <3>. QED
        BY <1>1, <2>1, <2>3, <3>1, TwKeepsCover
    <2>4. CASE pc[t] \notin CreditSteps
      <3>1. TwUndisturbed(t) /\ UNCHANGED airdropCoin
        BY <2>1, <2>4, TwUndisturbs, ChLabels DEF TwCredits
      <3>. QED
        BY <2>2, <2>3, <3>1 DEF TwQuiet
    <2>5. CASE pc[t] \in CreditSteps /\ UNCHANGED airdropCoin
      <3>1. \A u : ~TwOwes(t, u)'
        BY <2>1, ChLabels DEF TwOwes
      <3>2. \A u : TwKeeps(u)
        BY <2>3, <2>5
      <3>3. TwGains(Payee(t))
        BY <3>2, KeepsGains
      <3>. QED
        BY <2>2, <2>5, <3>1, <3>2, <3>3 DEF TwSettlesOwn
    <2>6. CASE pc[t] \in CreditSteps /\ TwCredits(t)
      <3>. PICK w : w = Payee(t)
        OBVIOUS
      <3>1. /\ pc[t] = "extWrite" /\ local[t].row \in Airdrops
            /\ w \in Users /\ w \in AllUsers /\ Owner[local[t].row] = w
            /\ airdropCoin' = [airdropCoin EXCEPT ![w] = local[t].num + Coin[local[t].row]]
        BY <2>6, TwRowOf DEF TwCredits
      <3>2. \A u : ~TwOwes(t, u)'
        BY <2>1, ChLabels DEF TwOwes
      <3>3. airdropCoin \in [Users -> Nat] /\ local[t].num \in Nat
        BY <3>1 DEF PayeeInv, BothInv, OwnInv, DbOK, SumHeld, Procs
      <3>4. \A u \in AllUsers \ {w} :
               TwKeeps(u) /\ (u \in Users => airdropCoin'[u] = airdropCoin[u])
        BY <2>3, <3>1, <3>3
      <3>5. ASSUME NEW n \in Nat, TwCovered(w, n)
            PROVE  TwCovered(w, n + 1)'
        <4>1. /\ Worth[w] \in Nat /\ Coin[local[t].row] \in Nat
              /\ Coin[local[t].row] <= Worth[w]
          BY <3>1, WorthType
        <4>2. Worth[w] * n \in Nat /\ Worth[w] * (n + 1) = Worth[w] * n + Worth[w]
          BY <4>1, Multiples
        <4>3. local[t].num <= Worth[w] * n
          BY <3>1, <3>5 DEF TwCovered
        <4>4. airdropCoin'[w] = local[t].num + Coin[local[t].row]
          BY <3>1, <3>3
        <4>5. airdropCoin'[w] <= Worth[w] * (n + 1)
          <5>. PICK x : x = Worth[w] * n
            OBVIOUS
          <5>. QED
            BY <3>3, <4>1, <4>2, <4>3, <4>4
        <4>6. ASSUME NEW v \in Threads, pc'[v] = "extWrite", Payee(v)' = w
              PROVE  local'[v].num <= Worth[w] * (n + 1)
          <5>1. v # t /\ ThreadStays(v)
            BY <2>1, <4>6, ChLabels
          <5>2. pc[v] = "extWrite" /\ Payee(v) = w /\ local'[v].num = local[v].num
            BY <4>6, <5>1, SamePayee, ChLabels DEF ThreadStays, SameCmd
          <5>3. local[v].num \in Nat /\ local[v].num <= Worth[w] * n
            BY <3>5, <5>2 DEF TwCovered, PayeeInv, BothInv, OwnInv, SumHeld, Procs
          <5>. PICK x : x = Worth[w] * n
            OBVIOUS
          <5>. QED
            BY <4>1, <4>2, <5>2, <5>3
        <4>. QED
          BY <4>5, <4>6 DEF TwCovered, Users
      <3>6. TwGains(w)
        BY <3>5 DEF TwGains
      <3>. QED
        BY <2>2, <2>6, <3>2, <3>4, <3>6 DEF TwSettlesOwn
    <2>. QED
      BY <2>1, <2>4, <2>5, <2>6
  <1>4. ASSUME NEW t \in Threads, TwGoesOn(t)
        PROVE  TwQuiet \/ \E v \in Threads : TwSettlesOwn(v)
    BY <1>2, <1>4 DEF TwGoesOn, TwOthers
  <1>. QED
    BY <1>2, <1>3, <1>4 DEF TwGoes, TwRests

LEMMA ChGoesEffect ==
    ASSUME PayeeInv, BothStep, ChGoes
    PROVE  ChQuiet \/ \E t \in Threads : ChSettlesOwn(t)
  <1>0. Threads \subseteq C!P!Procs
    BY DEF C!P!Procs
  \* Thread t has a sum now that it had before, or that it read.
  <1>1. ASSUME NEW t \in Threads, chLocal'[t].cmd = chLocal[t].cmd,
               ChReads(t) \/ (chPc[t] = "extWrite" /\ chLocal'[t] = chLocal[t]),
               NEW u, ChPayee(t)' = u
        PROVE  \/ chPc[t] = "extWrite" /\ ChPayee(t) = u /\ chLocal'[t].num = chLocal[t].num
               \/ u \in C!P!Users /\ chLocal'[t].num = channelAirdropCoin[u]
    <2>1. chPc[t] \in {"extRead", "extWrite"}
      BY <1>1 DEF ChReads
    <2>2. ChPayee(t) = u
      BY <1>1, <2>1, SamePayee, ChLabels
    <2>3. CASE ChReads(t)
      BY <2>1, <2>2, <2>3, ChRowOf DEF ChReads
    <2>. QED
      BY <1>1, <2>2, <2>3
  \* Goroutine p moves, and no balance is written.
  <1>2. ASSUME NEW p \in C!P!Procs, ChOthers(p),
               p \in Threads /\ chPc'[p] = "extWrite" => ChReads(p),
               NEW u, u \in C!P!Users => channelAirdropCoin'[u] = channelAirdropCoin[u]
        PROVE  ChKeeps(u)
    <2>1. ASSUME NEW t \in Threads, chPc'[t] = "extWrite", ChPayee(t)' = u
          PROVE  \/ chPc[t] = "extWrite" /\ ChPayee(t) = u /\ chLocal'[t].num = chLocal[t].num
                 \/ u \in C!P!Users /\ chLocal'[t].num = channelAirdropCoin[u]
      <3>1. CASE t = p
        BY <1>1, <1>2, <2>1, <3>1 DEF ChReads
      <3>2. CASE t # p
        BY <1>0, <1>1, <1>2, <2>1, <3>2 DEF ChOthers
      <3>. QED
        BY <3>1, <3>2
    <2>. QED
      BY <1>2, <2>1, ChKeepsCover
  <1>3. ASSUME NEW p \in C!P!Procs, ChOthers(p)
        PROVE  \A v \in Threads \ {p} : ChUndisturbed(v)
    BY <1>0, <1>3, ChUndisturbs DEF ChOthers
  <1>4. CASE UNCHANGED <<chPc, chLocal, channelAirdropCoin>>
    <2>1. \A t \in Threads : ChUndisturbed(t)
      BY <1>4, ChUndisturbs
    <2>2. \A u : ChKeeps(u)
      BY <1>1, <1>4, ChKeepsCover
    <2>. QED
      BY <1>4, <2>1, <2>2 DEF ChQuiet
  \* A goroutine that is in no step of an outcome, or stays in those it is in.
  <1>5. ASSUME NEW p \in C!P!Procs, ChOthers(p), UNCHANGED channelAirdropCoin,
               p \in Threads /\ chPc'[p] = "extWrite" => ChReads(p),
               p \in Threads => ChUndisturbed(p)
        PROVE  ChQuiet
    <2>1. \A t \in Threads : ChUndisturbed(t)
      BY <1>3, <1>5
    <2>2. \A u : ChKeeps(u)
      BY <1>2, <1>5
    <2>. QED
      BY <1>5, <2>1, <2>2 DEF ChQuiet
  \* A callback that leaves successAfter, and may have written the balance of its user.
  <1>6. ASSUME NEW t \in Threads, ChOthers(t), chPc[t] \in CreditSteps, chPc'[t] \notin CreditSteps,
               \A u \in C!P!Users \ {ChPayee(t)} : channelAirdropCoin'[u] = channelAirdropCoin[u],
               ChGains(ChPayee(t))
        PROVE  ChSettlesOwn(t)
    <2>1. \A u : ~ChOwes(t, u)'
      BY <1>6 DEF ChOwes
    <2>2. \A u \in AllUsers \ {ChPayee(t)} : ChKeeps(u)
      BY <1>0, <1>2, <1>6, ChLabels
    <2>. QED
      BY <1>0, <1>3, <1>6, <2>1, <2>2 DEF ChSettlesOwn
  <1>7. ASSUME NEW t \in Threads, ChOthers(t), chPc[t] \in CreditSteps, chPc'[t] \notin CreditSteps,
               UNCHANGED channelAirdropCoin
        PROVE  ChSettlesOwn(t)
    <2>1. ChKeeps(ChPayee(t))
      BY <1>0, <1>2, <1>7, ChLabels
    <2>. QED
      BY <1>6, <1>7, <2>1, KeepsGains
  <1>8. ASSUME NEW p \in C!P!Procs, ChWalks(p) \/ ChMarks(p)
        PROVE  ChQuiet \/ (p \in Threads /\ ChSettlesOwn(p))
    <2>1. /\ ChOthers(p) /\ UNCHANGED channelAirdropCoin
          /\ chPc'[p] \notin CreditSteps /\ chPc'[p] # "extWrite"
      BY <1>8, ChLabels DEF ChWalks, ChMarks, ChLeaves, ChBooks
    <2>2. CASE p \in Threads /\ chPc[p] \in CreditSteps
      BY <1>7, <2>1, <2>2
    <2>3. CASE ~(p \in Threads /\ chPc[p] \in CreditSteps)
      BY <1>5, <2>1, <2>3, ChUndisturbs
    <2>. QED
      BY <2>2, <2>3
  <1>9. ASSUME NEW t \in Threads, ChTakes(t) \/ ChReads(t)
        PROVE  ChQuiet
    <2>1. /\ ChOthers(t) /\ UNCHANGED channelAirdropCoin
          /\ chPc[t] \in CreditSteps <=> chPc'[t] \in CreditSteps
          /\ chLocal'[t].cmd = chLocal[t].cmd
          /\ chPc'[t] = "extWrite" => ChReads(t)
      BY <1>9, ChLabels DEF ChTakes, ChReads, ChBooks
    <2>. QED
      BY <1>0, <1>5, <2>1, ChUndisturbs
  <1>10. ASSUME NEW t \in Threads, ChSettles(t)
         PROVE  ChQuiet \/ ChSettlesOwn(t)
    <2>1. /\ ChOthers(t) /\ UNCHANGED <<chLocal, channelAirdropCoin>>
          /\ chPc'[t] # "extWrite"
          /\ \/ chPc[t] \in CreditSteps <=> chPc'[t] \in CreditSteps
             \/ chPc[t] \in CreditSteps /\ chPc'[t] \notin CreditSteps
      BY <1>10, ChLabels DEF ChSettles
    <2>. QED
      BY <1>0, <1>5, <1>7, <2>1, ChUndisturbs
  <1>11. ASSUME NEW t \in Threads, ChCredits(t)
         PROVE  ChSettlesOwn(t)
    <2>. PICK w : w = ChPayee(t)
      OBVIOUS
    <2>1. /\ ChOthers(t) /\ chPc[t] = "extWrite" /\ chPc'[t] \notin CreditSteps
          /\ chPc'[t] # "extWrite"
      BY <1>11, ChLabels DEF ChCredits, ChLeaves
    <2>2. /\ chLocal[t].row \in ChannelUsers /\ w \in C!P!Users /\ w \in AllUsers
          /\ Owner[chLocal[t].row] = w
          /\ channelAirdropCoin' =
                [channelAirdropCoin EXCEPT ![w] = chLocal[t].num + copied[t][chLocal[t].row]]
      BY <1>11, <2>1, ChRowOf DEF ChCredits
    <2>3. channelAirdropCoin \in [C!P!Users -> Nat] /\ chLocal[t].num \in Nat
      BY <1>0, <2>1, ChHolds DEF PayeeInv, BothInv, ChInv, ChRowsOK
    <2>4. \A u \in C!P!Users \ {w} : channelAirdropCoin'[u] = channelAirdropCoin[u]
      BY <2>2, <2>3
    <2>5. ASSUME NEW n \in Nat, ChCovered(w, n)
          PROVE  ChCovered(w, n + 1)'
      <3>1. /\ Worth[w] \in Nat /\ copied[t][chLocal[t].row] \in Nat
            /\ copied[t][chLocal[t].row] <= Worth[w]
        <4>1. /\ Worth[w] \in Nat /\ MaxAmount[chLocal[t].row] \in Nat
              /\ MaxAmount[chLocal[t].row] <= Worth[w]
          BY <2>2, WorthType
        <4>2. /\ copied[t][chLocal[t].row] \in Nat
              /\ copied[t][chLocal[t].row] <= MaxAmount[chLocal[t].row]
          BY <1>0, <2>2 DEF PayeeInv, BothInv, ChOwnOK
        <4>. QED
          BY <4>1, <4>2
      <3>2. Worth[w] * n \in Nat /\ Worth[w] * (n + 1) = Worth[w] * n + Worth[w]
        BY <3>1, Multiples
      <3>3. chLocal[t].num <= Worth[w] * n
        BY <2>1, <2>5 DEF ChCovered
      <3>4. channelAirdropCoin'[w] = chLocal[t].num + copied[t][chLocal[t].row]
        BY <2>2, <2>3
      <3>. PICK x : x = Worth[w] * n
        OBVIOUS
      <3>5. channelAirdropCoin'[w] <= Worth[w] * (n + 1)
        BY <2>3, <3>1, <3>2, <3>3, <3>4
      <3>6. ASSUME NEW v \in Threads, chPc'[v] = "extWrite", ChPayee(v)' = w
            PROVE  chLocal'[v].num <= Worth[w] * (n + 1)
        <4>1. chPc[v] = "extWrite" /\ chLocal'[v] = chLocal[v]
          BY <1>0, <2>1, <3>6 DEF ChOthers
        <4>2. ChPayee(v) = w
          BY <3>6, <4>1, SamePayee, ChLabels
        <4>3. chLocal[v].num \in Nat /\ chLocal[v].num <= Worth[w] * n
          BY <1>0, <2>5, <4>1, <4>2, ChHolds DEF ChCovered, PayeeInv, BothInv
        <4>. QED
          BY <3>1, <3>2, <4>1, <4>3
      <3>. QED
        BY <3>5, <3>6 DEF ChCovered, C!P!Users
    <2>6. ChGains(w)
      BY <2>5 DEF ChGains
    <2>. QED
      BY <1>0, <1>6, <2>1, <2>4, <2>6, ChLabels
  <1>. QED
    BY <1>4, <1>8, <1>9, <1>10, <1>11 DEF ChGoes, ChRests, ChRegisters, ChBooks

-----------------------------------------------------------------------------
(* The accounts of both.  A payment to u that succeeded is settled, or is    *)
(* being settled, and what the two dispatchers credited is covered by the    *)
(* payments that each of them settled.                                       *)

Owes(t, u) == TwOwes(t, u) \/ ChOwes(t, u)
Undisturbed(t) == \A u : Owes(t, u)' <=> Owes(t, u)

SettlingIs == \A u : Settling(u) = {t \in Threads : Owes(t, u)}

LEMMA SettlingOwes == SettlingIs
  BY DEF SettlingIs, Settling, Owes, TwOwes, ChOwes, CreditSteps, ChPayee, Payee

LEMMA SettlingOwesNext == SettlingIs'
  BY SettlingOwes, PTL

SuccessesFinite ==
    CommandsOK => \A u : /\ IsFiniteSet(Commands(u, "succeeded"))
                         /\ Cardinality(Commands(u, "succeeded")) \in Nat

LEMMA SuccessesAreFinite == SuccessesFinite
  <1>. SUFFICES ASSUME CommandsOK, NEW u PROVE IsFiniteSet(Commands(u, "succeeded"))
    BY FS_CardinalityType DEF SuccessesFinite
  <1>1. DOMAIN cmds = 1..Len(cmds) /\ Len(cmds) \in Nat
    BY DEF CommandsOK
  <1>2. IsFiniteSet(DOMAIN cmds)
    BY <1>1, FS_Interval
  <1>3. Commands(u, "succeeded") \in SUBSET DOMAIN cmds
    BY DEF Commands
  <1>. QED
    BY <1>2, <1>3, FS_Subset

LEMMA SuccessesAreFiniteNext == SuccessesFinite'
  BY SuccessesAreFinite, PTL

Covered(u, a, b) == TwCovered(u, a) /\ ChCovered(u, b)

BooksBalance(u) ==
    \E a, b \in Nat :
        /\ Covered(u, a, b)
        /\ a + b + Cardinality(Settling(u)) <= Cardinality(Commands(u, "succeeded"))

BooksInv == \A u \in AllUsers : IsFiniteSet(Settling(u)) /\ BooksBalance(u)

SuccessesStay == \A u : Commands(u, "succeeded")' = Commands(u, "succeeded")
Keeps(u) == TwKeeps(u) /\ ChKeeps(u)
Gains(u) == (TwGains(u) /\ ChKeeps(u)) \/ (TwKeeps(u) /\ ChGains(u))
BalanceStays(u) == Balance(u)' = Balance(u)

\* What a step does to the accounts.
Quiet ==
    /\ \A t \in Threads : Undisturbed(t)
    /\ SuccessesStay
    /\ \A u \in AllUsers : Keeps(u) /\ BalanceStays(u)

Settlement(t, w) ==
    /\ w \in AllUsers
    /\ \A v \in Threads \ {t} : Undisturbed(v)
    /\ \A u : (Owes(t, u) <=> u = w) /\ ~Owes(t, u)'
    /\ SuccessesStay
    /\ \A u \in AllUsers \ {w} : Keeps(u) /\ BalanceStays(u)
    /\ Gains(w)

Payment(t, c, w) ==
    /\ w \in AllUsers
    /\ \A v \in Threads \ {t} : Undisturbed(v)
    /\ \A u : ~Owes(t, u) /\ (Owes(t, u)' <=> u = w)
    /\ c \notin Commands(w, "succeeded")
    /\ Commands(w, "succeeded")' = Commands(w, "succeeded") \cup {c}
    /\ \A u \in AllUsers \ {w} : Commands(u, "succeeded")' = Commands(u, "succeeded")
    /\ \A u \in AllUsers : Keeps(u) /\ BalanceStays(u)

Loss ==
    /\ \A t \in Threads : \A u : ~Owes(t, u)'
    /\ SuccessesStay
    /\ \A u \in AllUsers : Keeps(u) /\ BalanceStays(u)

AccountStep ==
    \/ Quiet \/ Loss
    \/ \E t \in Threads, w \in AllUsers : Settlement(t, w)
    \/ \E t \in Threads, c \in DOMAIN cmds, w \in AllUsers : Payment(t, c, w)

\* A command pays one of the users.
LEMMA CommandPays ==
    ASSUME BothInv, NEW c \in DOMAIN cmds
    PROVE  Owner[cmds[c].to] \in AllUsers
  <1>1. cmds[c] \in BothCommand
    BY DEF BothInv, CommandsOK
  <1>. QED
    BY <1>1 DEF BothCommand, AllUsers

\* Submitted and lost commands succeeded neither before nor after.
LEMMA NoSuccess ==
    ASSUME CommandsOK, Submits \/ LoseUnfinished
    PROVE  SuccessesStay
  <1>1. cmds \in Seq(BothCommand) /\ \A c \in DOMAIN cmds : cmds[c] \in BothCommand
    BY DEF CommandsOK
  <1>2. CASE UNCHANGED cmds
    BY <1>2 DEF SuccessesStay, Commands
  <1>3. ASSUME NEW d \in BothCommand, d.stage = "queued", cmds' = Append(cmds, d)
        PROVE  SuccessesStay
    <2>1. /\ \A c \in DOMAIN cmds : c \in DOMAIN cmds' /\ cmds'[c] = cmds[c]
          /\ \A c \in DOMAIN cmds' \ DOMAIN cmds : cmds'[c] = d
      BY <1>1, <1>3
    <2>. QED
      BY <1>3, <2>1 DEF SuccessesStay, Commands
  <1>4. CASE LoseUnfinished
    <2>1. /\ DOMAIN cmds' = DOMAIN cmds
          /\ \A c \in DOMAIN cmds :
                /\ cmds'[c].to = cmds[c].to
                /\ cmds'[c].stage = "succeeded" <=> cmds[c].stage = "succeeded"
      BY <1>1, <1>4 DEF LoseUnfinished, Unfinished, BothCommand
    <2>. QED
      BY <2>1 DEF SuccessesStay, Commands
  <1>. QED
    BY <1>2, <1>3, <1>4 DEF Submits, ClientQueues

\* A report adds its command to what succeeded, or to nothing.
LEMMA OneSuccess ==
    ASSUME BothInv, NEW c \in DOMAIN cmds, NEW stage, cmds[c].stage \in Unfinished,
           cmds' = [cmds EXCEPT ![c].stage = stage]
    PROVE  /\ DOMAIN cmds' = DOMAIN cmds /\ cmds'[c].to = cmds[c].to
           /\ \A d \in DOMAIN cmds : cmds'[d].to = cmds[d].to
           /\ stage # "succeeded" => SuccessesStay
           /\ stage = "succeeded" =>
                 \A u : /\ c \notin Commands(u, "succeeded")
                        /\ Commands(u, "succeeded")' =
                              Commands(u, "succeeded")
                                 \cup (IF u = Owner[cmds[c].to] THEN {c} ELSE {})
  <1>1. /\ DOMAIN cmds' = DOMAIN cmds
        /\ cmds'[c].to = cmds[c].to /\ cmds'[c].stage = stage
        /\ \A d \in DOMAIN cmds : d # c => cmds'[d] = cmds[d]
    <2>1. cmds \in Seq(BothCommand) /\ cmds[c] \in BothCommand
      BY DEF BothInv, CommandsOK
    <2>. QED
      BY <2>1 DEF BothCommand
  <1>. QED
    BY <1>1 DEF SuccessesStay, Commands, Unfinished

\* A thread that settles its own payment moves.
LEMMA SettlesOwnMoves ==
    ASSUME NEW t \in Threads
    PROVE  /\ TwSettlesOwn(t) => pc'[t] # pc[t]
           /\ ChSettlesOwn(t) => chPc'[t] # chPc[t]
  BY DEF TwSettlesOwn, TwOwes, ChSettlesOwn, ChOwes

LEMMA AccountMoves ==
    ASSUME PayeeInv, BothStep, [BothNext]_bothVars
    PROVE  AccountStep
  <1>. USE DEF AccountStep
  <1>0. /\ BothInv /\ CommandsOK
        /\ \A u : UNCHANGED <<airdropCoin, channelAirdropCoin>> => BalanceStays(u)
    BY DEF PayeeInv, BothInv, BalanceStays, Balance, C!P!Users, Users
  \* The one side is quiet, the other is not.
  <1>1. ASSUME TwQuiet, ChQuiet, Submits PROVE Quiet
    <2>1. SuccessesStay
      BY <1>0, <1>1, NoSuccess
    <2>. QED
      BY <1>0, <1>1, <2>1
      DEF Quiet, TwQuiet, ChQuiet, Undisturbed, TwUndisturbed, ChUndisturbed, Owes, Keeps
  <1>2. ASSUME NEW t \in Threads, TwSettlesOwn(t), ChQuiet, UNCHANGED chPc, Submits
        PROVE  Settlement(t, Payee(t))
    <2>1. SuccessesStay
      BY <1>0, <1>2, NoSuccess
    <2>2. Payee(t) \in AllUsers
      BY <1>2, <1>0, CommandPays, ChLabels DEF TwSettlesOwn, PayeeInv, TwOutcomeKnown, Payee
    <2>3. \A u : ~ChOwes(t, u) /\ ~ChOwes(t, u)'
      BY <1>2, ChLabels DEF ChOwes, TwSettlesOwn, PayeeInv, OneSide
    <2>4. \A u : Owes(t, u) <=> u = Payee(t)
      BY <1>2, <2>3 DEF Owes, TwOwes, TwSettlesOwn
    <2>5. \A u : ~Owes(t, u)'
      BY <1>2, <2>3 DEF Owes, TwSettlesOwn
    <2>6. \A v \in Threads \ {t} : Undisturbed(v)
      BY <1>2 DEF TwSettlesOwn, ChQuiet, Undisturbed, TwUndisturbed, ChUndisturbed, Owes
    <2>7. \A u \in AllUsers \ {Payee(t)} : Keeps(u) /\ BalanceStays(u)
      BY <1>2 DEF TwSettlesOwn, ChQuiet, Keeps, BalanceStays, Balance, Users
    <2>8. Gains(Payee(t))
      BY <1>2, <2>2 DEF TwSettlesOwn, ChQuiet, Gains
    <2>. QED
      BY <2>1, <2>2, <2>4, <2>5, <2>6, <2>7, <2>8 DEF Settlement
  <1>3. ASSUME NEW t \in Threads, ChSettlesOwn(t), TwQuiet, UNCHANGED pc, Submits
        PROVE  Settlement(t, ChPayee(t))
    <2>1. SuccessesStay
      BY <1>0, <1>3, NoSuccess
    <2>2. ChPayee(t) \in AllUsers
      BY <1>3, <1>0, CommandPays, ChLabels
      DEF ChSettlesOwn, PayeeInv, ChCallbackInv, ChOutcomeKnown, ChPayee
    <2>3. \A u : ~TwOwes(t, u) /\ ~TwOwes(t, u)'
      BY <1>3, ChLabels DEF TwOwes, ChSettlesOwn, PayeeInv, OneSide
    <2>4. \A u : Owes(t, u) <=> u = ChPayee(t)
      BY <1>3, <2>3 DEF Owes, ChOwes, ChSettlesOwn
    <2>5. \A u : ~Owes(t, u)'
      BY <1>3, <2>3 DEF Owes, ChSettlesOwn
    <2>6. \A v \in Threads \ {t} : Undisturbed(v)
      BY <1>3 DEF ChSettlesOwn, TwQuiet, Undisturbed, TwUndisturbed, ChUndisturbed, Owes
    <2>7. \A u \in AllUsers \ {ChPayee(t)} : Keeps(u) /\ BalanceStays(u)
      BY <1>3 DEF ChSettlesOwn, TwQuiet, Keeps, BalanceStays, Balance, C!P!Users
    <2>8. Gains(ChPayee(t))
      BY <1>3, <2>2 DEF ChSettlesOwn, TwQuiet, Gains
    <2>. QED
      BY <2>1, <2>2, <2>4, <2>5, <2>6, <2>7, <2>8 DEF Settlement
  <1>4. CASE TwGoes /\ ChRests /\ Submits
    <2>1. ChQuiet
      <3>1. UNCHANGED <<chPc, chLocal, channelAirdropCoin>>
        BY <1>4 DEF ChRests, ChBooks
      <3>2. ChGoes /\ \A t \in Threads : ~ChSettlesOwn(t)
        BY <1>4, <3>1, SettlesOwnMoves DEF ChGoes
      <3>. QED
        BY <3>2, ChGoesEffect
    <2>. QED
      BY <1>1, <1>2, <1>4, <2>1, TwEffect DEF Settlement, ChRests
  <1>5. CASE ChGoes /\ UNCHANGED <<pc, local, airdropCoin>> /\ Submits
    <2>1. TwQuiet
      <3>1. TwGoes /\ \A t \in Threads : ~TwSettlesOwn(t)
        BY <1>5, SettlesOwnMoves DEF TwGoes, TwRests, ThreadStays
      <3>. QED
        BY <3>1, TwEffect
    <2>. QED
      BY <1>1, <1>3, <1>5, <2>1, ChGoesEffect DEF Settlement
  <1>6. ASSUME NEW t \in Threads, NEW c \in DOMAIN cmds,
               NEW stage \in {"generated", "succeeded", "failed"}, BothStarts(t, c, stage)
        PROVE  AccountStep
    <2>. PICK w : w = Owner[cmds[c].to]
      OBVIOUS
    <2>1. /\ pc[t] = "idle" /\ chPc[t] = "idle"
          /\ cmds[c].stage \in Unfinished
          /\ cmds' = [cmds EXCEPT ![c].stage = stage]
          /\ UNCHANGED <<airdropCoin, channelAirdropCoin>>
          /\ \A v \in Threads \ {t} : ThreadStays(v) /\ ChStays(v)
          /\ \/ pc'[t] = "idle" /\ chLocal'[t].cmd = c /\ chPc'[t] = Entry(stage)
             \/ chPc'[t] = "idle" /\ local'[t].cmd = c /\ pc'[t] = Entry(stage)
      BY <1>6 DEF BothStarts, ThreadStays, ChStays
    <2>2. w \in AllUsers /\ cmds'[c].to = cmds[c].to
      BY <1>0, <2>1, CommandPays, OneSuccess
    <2>3. \A v \in Threads \ {t} : Undisturbed(v)
      <3>1. \A v \in Threads \ {t} : TwUndisturbed(v)
        BY <2>1, TwUndisturbs
      <3>2. \A v \in Threads \ {t} : ChUndisturbed(v)
        BY <2>1, ChUndisturbs DEF ChStays
      <3>. QED
        BY <3>1, <3>2 DEF Undisturbed, TwUndisturbed, ChUndisturbed, Owes
    <2>4. \A u : Keeps(u)
      <3>1. pc'[t] # "extWrite" /\ chPc'[t] # "extWrite"
        BY <2>1 DEF Entry
      <3>2. \A u : TwKeeps(u)
        BY <2>1, <3>1, TwKeepsCover, SamePayee, ChLabels DEF ThreadStays, SameCmd
      <3>3. \A u : ChKeeps(u)
        BY <2>1, <3>1, ChKeepsCover, SamePayee, ChLabels DEF ChStays
      <3>. QED
        BY <3>2, <3>3 DEF Keeps
    <2>5. \A u : ~Owes(t, u)
      BY <2>1, ChLabels DEF Owes, TwOwes, ChOwes
    <2>6. CASE stage = "succeeded"
      <3>1. \A u : Owes(t, u)' <=> u = w
        BY <2>1, <2>2, <2>6, ChLabels DEF Owes, TwOwes, ChOwes, Payee, ChPayee, Entry
      <3>2. \A u : /\ c \notin Commands(u, "succeeded")
                   /\ Commands(u, "succeeded")' =
                         Commands(u, "succeeded") \cup (IF u = w THEN {c} ELSE {})
        BY <1>0, <2>1, <2>6, OneSuccess
      <3>3. Payment(t, c, w)
        BY <1>0, <2>1, <2>2, <2>3, <2>4, <2>5, <3>1, <3>2 DEF Payment
      <3>. QED
        BY <2>2, <3>3
    <2>7. CASE stage # "succeeded"
      <3>1. \A u : ~Owes(t, u)'
        BY <2>1, <2>7, ChLabels DEF Owes, TwOwes, ChOwes, Entry
      <3>2. SuccessesStay
        BY <1>0, <2>1, <2>7, OneSuccess
      <3>3. Quiet
        BY <1>0, <2>1, <2>3, <2>4, <2>5, <3>1, <3>2 DEF Quiet, Undisturbed
      <3>. QED
        BY <3>3
    <2>. QED
      BY <2>6, <2>7
  <1>7. CASE BothDie
    <2>1. \A t \in Threads : pc'[t] = "idle" /\ chPc'[t] = "idle"
      BY <1>7 DEF BothDie
    <2>2. \A t \in Threads : \A u : ~Owes(t, u)'
      BY <2>1, ChLabels DEF Owes, TwOwes, ChOwes
    <2>3. \A u : Keeps(u)
      BY <1>7, <2>1, TwKeepsCover, ChKeepsCover DEF Keeps, BothDie
    <2>4. Loss
      BY <1>0, <1>7, <2>2, <2>3, NoSuccess DEF Loss, BothDie
    <2>. QED
      BY <2>4
  <1>. QED
    BY <1>0, <1>4, <1>5, <1>6, <1>7, BothMoves

LEMMA BooksInit == BothInit => BooksInv
  <1>. SUFFICES ASSUME BothInit, NEW u \in AllUsers
                PROVE  IsFiniteSet(Settling(u)) /\ BooksBalance(u)
    BY DEF BooksInv
  <1>1. \A t \in Threads : pc[t] = "idle" /\ chPc[t] = "idle"
    BY DEF BothInit, Init, C!Init, C!P!Init, Procs, C!P!Procs
  <1>2. Settling(u) = {} /\ cmds = << >>
    BY <1>1 DEF Settling, BothInit, Init, ClientInit
  <1>3. Commands(u, "succeeded") = {}
    BY <1>2 DEF Commands
  <1>4. Worth[u] \in Nat /\ Worth[u] * 0 = 0
    BY WorthType
  <1>5. Covered(u, 0, 0)
    BY <1>1, <1>4
    DEF Covered, TwCovered, ChCovered, BothInit, Init, CollectionInit, C!Init, C!P!Init,
        C!P!CollectionInit
  <1>. QED
    BY <1>2, <1>3, <1>5, FS_EmptySet DEF BooksBalance

\* The payments in progress, by what the step does.
LEMMA SettlingMoves ==
    /\ Quiet => \A u : Settling(u)' = Settling(u)
    /\ Loss => \A u : Settling(u)' = {}
    /\ \A t \in Threads, w \in AllUsers : Settlement(t, w) =>
          /\ t \in Settling(w) /\ Settling(w)' = Settling(w) \ {t}
          /\ \A u : u # w => Settling(u)' = Settling(u)
    /\ \A t \in Threads, c \in DOMAIN cmds, w \in AllUsers : Payment(t, c, w) =>
          /\ t \notin Settling(w) /\ Settling(w)' = Settling(w) \cup {t}
          /\ \A u : u # w => Settling(u)' = Settling(u)
  <1>0. /\ \A u : Settling(u) = {v \in Threads : Owes(v, u)}
        /\ \A u : Settling(u)' = {v \in Threads : Owes(v, u)'}
    BY SettlingOwes, SettlingOwesNext DEF SettlingIs
  <1>1. Quiet => \A u : Settling(u)' = Settling(u)
    BY <1>0 DEF Quiet, Undisturbed
  <1>2. Loss => \A u : Settling(u)' = {}
    BY <1>0 DEF Loss
  <1>3. ASSUME NEW t \in Threads, NEW w \in AllUsers, Settlement(t, w)
        PROVE  /\ t \in Settling(w) /\ Settling(w)' = Settling(w) \ {t}
               /\ \A u : u # w => Settling(u)' = Settling(u)
    BY <1>0, <1>3 DEF Settlement, Undisturbed
  <1>4. ASSUME NEW t \in Threads, NEW c \in DOMAIN cmds, NEW w \in AllUsers, Payment(t, c, w)
        PROVE  /\ t \notin Settling(w) /\ Settling(w)' = Settling(w) \cup {t}
               /\ \A u : u # w => Settling(u)' = Settling(u)
    BY <1>0, <1>4 DEF Payment, Undisturbed
  <1>. QED
    BY <1>1, <1>2, <1>3, <1>4

\* How many there are, and how many succeeded.
LEMMA Counts ==
    ASSUME CommandsOK, CommandsOK', NEW u, IsFiniteSet(Settling(u))
    PROVE  /\ Cardinality(Settling(u)) \in Nat
           /\ Cardinality(Commands(u, "succeeded")) \in Nat
           /\ Cardinality({}) = 0
           /\ \A t \in Settling(u) :
                 /\ IsFiniteSet(Settling(u) \ {t})
                 /\ Cardinality(Settling(u) \ {t}) = Cardinality(Settling(u)) - 1
           /\ \A t : t \notin Settling(u) =>
                 /\ IsFiniteSet(Settling(u) \cup {t})
                 /\ Cardinality(Settling(u) \cup {t}) = Cardinality(Settling(u)) + 1
           /\ \A c : c \notin Commands(u, "succeeded") =>
                 Cardinality(Commands(u, "succeeded") \cup {c})
                    = Cardinality(Commands(u, "succeeded")) + 1
  <1>1. IsFiniteSet(Commands(u, "succeeded")) /\ Cardinality(Commands(u, "succeeded")) \in Nat
    BY SuccessesAreFinite DEF SuccessesFinite
  <1>2. \A c : c \notin Commands(u, "succeeded") =>
           Cardinality(Commands(u, "succeeded") \cup {c})
              = Cardinality(Commands(u, "succeeded")) + 1
    BY <1>1, FS_AddElement
  <1>3. \A t : t \notin Settling(u) =>
           /\ IsFiniteSet(Settling(u) \cup {t})
           /\ Cardinality(Settling(u) \cup {t}) = Cardinality(Settling(u)) + 1
    BY FS_AddElement
  <1>4. \A t \in Settling(u) :
           /\ IsFiniteSet(Settling(u) \ {t})
           /\ Cardinality(Settling(u) \ {t}) = Cardinality(Settling(u)) - 1
    BY FS_RemoveElement
  <1>5. Cardinality(Settling(u)) \in Nat
    BY FS_CardinalityType
  <1>. QED
    BY <1>1, <1>2, <1>3, <1>4, <1>5, FS_EmptySet

LEMMA BooksNext ==
    ASSUME PayeeInv, BothStep, BooksInv, AccountStep
    PROVE  BooksInv'
  <1>. SUFFICES ASSUME NEW u \in AllUsers
                PROVE  IsFiniteSet(Settling(u))' /\ BooksBalance(u)'
    BY DEF BooksInv
  <1>. DEFINE k == Cardinality(Settling(u))
              n == Cardinality(Commands(u, "succeeded"))
              kn == Cardinality(Settling(u)')
              nn == Cardinality(Commands(u, "succeeded")')
  <1>0. CommandsOK /\ CommandsOK' /\ IsFiniteSet(Settling(u))
    BY DEF PayeeInv, BothInv, BothStep, BooksInv
  <1>1. k \in Nat /\ n \in Nat
    BY <1>0, Counts
  <1>2. PICK a \in Nat, b \in Nat : Covered(u, a, b) /\ a + b + k <= n
    BY DEF BooksInv, BooksBalance
  <1>3. ASSUME NEW i \in Nat, NEW j \in Nat, Covered(u, i, j)', IsFiniteSet(Settling(u)'),
               i + j + kn <= nn
        PROVE  IsFiniteSet(Settling(u))' /\ BooksBalance(u)'
    BY <1>3 DEF BooksBalance
  <1>4. Keeps(u) => Covered(u, a, b)'
    BY <1>2 DEF Keeps, TwKeeps, ChKeeps, Covered
  <1>5. Gains(u) => \E i, j \in Nat : Covered(u, i, j)' /\ i + j <= a + b + 1
    <2>1. CASE TwGains(u) /\ ChKeeps(u)
      <3>1. PICK m \in {a, a + 1} : TwCovered(u, m)'
        BY <1>2, <2>1 DEF TwGains, Covered
      <3>2. ChCovered(u, b)'
        BY <1>2, <2>1 DEF ChKeeps, Covered
      <3>3. m \in Nat /\ m + b <= a + b + 1
        BY <3>1
      <3>. QED
        BY <3>1, <3>2, <3>3 DEF Covered
    <2>2. CASE TwKeeps(u) /\ ChGains(u)
      <3>1. PICK m \in {b, b + 1} : ChCovered(u, m)'
        BY <1>2, <2>2 DEF ChGains, Covered
      <3>2. TwCovered(u, a)'
        BY <1>2, <2>2 DEF TwKeeps, Covered
      <3>3. m \in Nat /\ a + m <= a + b + 1
        BY <3>1
      <3>. QED
        BY <3>1, <3>2, <3>3 DEF Covered
    <2>. QED
      BY <2>1, <2>2 DEF Gains
  <1>. HIDE DEF k, n, kn, nn
  <1>6. CASE Quiet
    <2>1. kn = k /\ nn = n /\ IsFiniteSet(Settling(u)') /\ Keeps(u)
      BY <1>0, <1>6, SettlingMoves DEF Quiet, SuccessesStay, k, n, kn, nn
    <2>. QED
      BY <1>2, <1>3, <1>4, <2>1
  <1>7. CASE Loss
    <2>1. kn = 0 /\ nn = n /\ IsFiniteSet(Settling(u)') /\ Keeps(u)
      BY <1>7, SettlingMoves, FS_EmptySet DEF Loss, SuccessesStay, n, kn, nn
    <2>2. a + b + kn <= nn
      BY <1>1, <1>2, <2>1
    <2>. QED
      BY <1>3, <1>4, <2>1, <2>2
  <1>8. ASSUME NEW t \in Threads, NEW w \in AllUsers, Settlement(t, w)
        PROVE  IsFiniteSet(Settling(u))' /\ BooksBalance(u)'
    <2>1. nn = n
      BY <1>8 DEF Settlement, SuccessesStay, n, nn
    <2>2. CASE u = w
      <3>1. kn = k - 1 /\ IsFiniteSet(Settling(u)')
        BY <1>0, <1>8, <2>2, SettlingMoves, Counts DEF k, kn
      <3>2. PICK i \in Nat, j \in Nat : Covered(u, i, j)' /\ i + j <= a + b + 1
        BY <1>5, <1>8, <2>2 DEF Settlement
      <3>3. i + j + kn <= nn
        BY <1>1, <1>2, <2>1, <3>1, <3>2
      <3>. QED
        BY <1>3, <3>1, <3>2, <3>3
    <2>3. CASE u # w
      <3>1. kn = k /\ IsFiniteSet(Settling(u)') /\ Keeps(u)
        BY <1>0, <1>8, <2>3, SettlingMoves DEF k, kn, Settlement
      <3>. QED
        BY <1>2, <1>3, <1>4, <2>1, <3>1
    <2>. QED
      BY <2>2, <2>3
  <1>9. ASSUME NEW t \in Threads, NEW c \in DOMAIN cmds, NEW w \in AllUsers, Payment(t, c, w)
        PROVE  IsFiniteSet(Settling(u))' /\ BooksBalance(u)'
    <2>1. Keeps(u)
      BY <1>9 DEF Payment
    <2>2. CASE u = w
      <3>1. kn = k + 1 /\ IsFiniteSet(Settling(u)')
        BY <1>0, <1>9, <2>2, SettlingMoves, Counts DEF k, kn
      <3>2. nn = n + 1
        BY <1>0, <1>9, <2>2, Counts DEF n, nn, Payment
      <3>3. a + b + kn <= nn
        BY <1>1, <1>2, <3>1, <3>2
      <3>. QED
        BY <1>3, <1>4, <2>1, <3>1, <3>3
    <2>3. CASE u # w
      <3>1. kn = k /\ nn = n /\ IsFiniteSet(Settling(u)')
        BY <1>0, <1>9, <2>3, SettlingMoves DEF k, kn, n, nn, Payment
      <3>. QED
        BY <1>2, <1>3, <1>4, <2>1, <3>1
    <2>. QED
      BY <2>2, <2>3
  <1>. QED
    BY <1>6, <1>7, <1>8, <1>9 DEF AccountStep

-----------------------------------------------------------------------------
(* The refinement. *)

BothPaid == [u \in AllUsers |-> Cardinality(Commands(u, "succeeded"))]
BothOwed == [u \in AllUsers |-> Cardinality(Settling(u))]
BothBalance == [u \in AllUsers |-> Balance(u)]

\* The two balances together are covered by the payments that were settled.
BalanceIsCovered ==
    PayeeInv /\ BooksInv =>
        \A u \in AllUsers :
            /\ Cardinality(Commands(u, "succeeded")) - Cardinality(Settling(u)) \in Nat
            /\ Balance(u) \in
                  0 .. Worth[u] * (Cardinality(Commands(u, "succeeded")) - Cardinality(Settling(u)))

LEMMA BalanceCovered == BalanceIsCovered
  <1>. SUFFICES ASSUME PayeeInv, BooksInv, NEW u \in AllUsers
                PROVE  /\ Cardinality(Commands(u, "succeeded")) - Cardinality(Settling(u)) \in Nat
                       /\ Balance(u) \in 0 .. Worth[u] *
                             (Cardinality(Commands(u, "succeeded")) - Cardinality(Settling(u)))
    BY DEF BalanceIsCovered
  <1>. DEFINE k == Cardinality(Settling(u))
              n == Cardinality(Commands(u, "succeeded"))
              w == Worth[u]
  <1>1. k \in Nat /\ n \in Nat /\ w \in Nat
    BY SuccessesAreFinite, FS_CardinalityType, WorthType
    DEF SuccessesFinite, BooksInv, PayeeInv, BothInv
  <1>2. PICK a \in Nat, b \in Nat : TwCovered(u, a) /\ ChCovered(u, b) /\ a + b + k <= n
    BY DEF BooksInv, BooksBalance, Covered
  <1>3. /\ u \in Users => airdropCoin[u] \in Nat /\ airdropCoin[u] <= w * a
        /\ u \in C!P!Users => channelAirdropCoin[u] \in Nat /\ channelAirdropCoin[u] <= w * b
    BY <1>2 DEF TwCovered, ChCovered, PayeeInv, BothInv, OwnInv, DbOK, ChInv, ChRowsOK
  <1>. HIDE DEF k, n, w
  <1>4. n - k \in Nat /\ a + b \in Nat /\ a + b <= n - k
    BY <1>1, <1>2
  <1>5. w * a \in Nat /\ w * b \in Nat /\ w * (a + b) = w * a + w * b
    BY <1>1
  <1>6. w * (a + b) <= w * (n - k) /\ w * (n - k) \in Nat
    BY <1>1, <1>4, Multiples
  <1>7. Balance(u) \in Nat /\ Balance(u) <= w * a + w * b
    <2>. PICK x \in Nat, y \in Nat : x = w * a /\ y = w * b
      BY <1>5
    <2>. QED
      BY <1>3 DEF Balance
  <1>8. Balance(u) \in 0 .. w * (n - k)
    <2>. PICK x \in Nat : x = w * (n - k)
      BY <1>6
    <2>. PICK y : y = w * (a + b)
      OBVIOUS
    <2>. QED
      BY <1>5, <1>6, <1>7
  <1>. QED
    BY <1>4, <1>8 DEF k, n, w

LEMMA BalanceCoveredNext == BalanceIsCovered'
  BY BalanceCovered, PTL

LEMMA SharedStart == BothInit => SharedLedger!LedgerInit
  <1>. SUFFICES ASSUME BothInit PROVE SharedLedger!LedgerInit
    OBVIOUS
  <1>1. \A t \in Threads : pc[t] = "idle" /\ chPc[t] = "idle"
    BY DEF BothInit, Init, C!Init, C!P!Init, Procs, C!P!Procs
  <1>2. cmds = << >>
    BY DEF BothInit, Init, ClientInit
  <1>3. \A u : Settling(u) = {} /\ Commands(u, "succeeded") = {}
    BY <1>1, <1>2 DEF Settling, Commands
  <1>4. \A u : Balance(u) = 0
    BY DEF Balance, BothInit, Init, CollectionInit, C!Init, C!P!Init, C!P!CollectionInit
  <1>. QED
    BY <1>3, <1>4, FS_EmptySet DEF SharedLedger!LedgerInit

LEMMA SharedStep ==
    ASSUME PayeeInv, BothStep, BooksInv, PayeeInv', BooksInv', AccountStep
    PROVE  [SharedLedger!LedgerNext]_(SharedLedger!ledgerVars)
  <1>. SUFFICES SharedLedger!LedgerNext \/ UNCHANGED <<BothPaid, BothOwed, BothBalance>>
    BY DEF SharedLedger!ledgerVars, BothPaid, BothOwed, BothBalance
  <1>0. /\ CommandsOK /\ CommandsOK'
        /\ \A u \in AllUsers : IsFiniteSet(Settling(u))
    BY DEF PayeeInv, BothInv, BothStep, BooksInv
  <1>1. CASE Quiet
    <2>1. \A u \in AllUsers : /\ Settling(u)' = Settling(u)
                              /\ Commands(u, "succeeded")' = Commands(u, "succeeded")
                              /\ Balance(u)' = Balance(u)
      BY <1>1, SettlingMoves DEF Quiet, SuccessesStay, BalanceStays
    <2>. QED
      BY <2>1 DEF BothPaid, BothOwed, BothBalance
  <1>2. CASE Loss
    <2>1. \A u \in AllUsers : /\ Settling(u)' = {}
                              /\ Commands(u, "succeeded")' = Commands(u, "succeeded")
                              /\ Balance(u)' = Balance(u)
      BY <1>2, SettlingMoves DEF Loss, SuccessesStay, BalanceStays
    <2>2. BothOwed' = [u \in AllUsers |-> 0] /\ UNCHANGED <<BothPaid, BothBalance>>
      BY <2>1, FS_EmptySet DEF BothPaid, BothOwed, BothBalance
    <2>3. SharedLedger!Forget
      BY <2>2 DEF SharedLedger!Forget, BothPaid, BothOwed, BothBalance
    <2>. QED
      BY <2>3 DEF SharedLedger!LedgerNext
  <1>3. ASSUME NEW t \in Threads, NEW c \in DOMAIN cmds, NEW w \in AllUsers, Payment(t, c, w)
        PROVE  SharedLedger!Pay(w)
    <2>1. /\ t \notin Settling(w) /\ Settling(w)' = Settling(w) \cup {t}
          /\ \A u \in AllUsers \ {w} : Settling(u)' = Settling(u)
      BY <1>3, SettlingMoves
    <2>2. /\ c \notin Commands(w, "succeeded")
          /\ Commands(w, "succeeded")' = Commands(w, "succeeded") \cup {c}
          /\ \A u \in AllUsers \ {w} : Commands(u, "succeeded")' = Commands(u, "succeeded")
          /\ \A u \in AllUsers : Balance(u)' = Balance(u)
      BY <1>3 DEF Payment, BalanceStays
    <2>3. BothOwed' = [BothOwed EXCEPT ![w] = @ + 1]
      <3>1. Cardinality(Settling(w))' = Cardinality(Settling(w)) + 1
        BY <1>0, <2>1, Counts
      <3>. QED
        BY <2>1, <3>1 DEF BothOwed
    <2>4. BothPaid' = [BothPaid EXCEPT ![w] = @ + 1]
      <3>1. Cardinality(Commands(w, "succeeded"))' = Cardinality(Commands(w, "succeeded")) + 1
        BY <1>0, <2>2, Counts
      <3>. QED
        BY <2>2, <3>1 DEF BothPaid
    <2>5. UNCHANGED BothBalance
      BY <2>2 DEF BothBalance
    <2>. QED
      BY <2>3, <2>4, <2>5 DEF SharedLedger!Pay, BothPaid, BothOwed, BothBalance
  <1>4. ASSUME NEW t \in Threads, NEW w \in AllUsers, Settlement(t, w)
        PROVE  SharedLedger!Settle(w)
    <2>1. /\ t \in Settling(w) /\ Settling(w)' = Settling(w) \ {t}
          /\ \A u \in AllUsers \ {w} : Settling(u)' = Settling(u)
      BY <1>4, SettlingMoves
    <2>2. /\ \A u \in AllUsers : Commands(u, "succeeded")' = Commands(u, "succeeded")
          /\ \A u \in AllUsers \ {w} : Balance(u)' = Balance(u)
      BY <1>4 DEF Settlement, SuccessesStay, BalanceStays
    <2>3. /\ Cardinality(Settling(w)) \in Nat
          /\ Cardinality(Settling(w))' = Cardinality(Settling(w)) - 1
          /\ Cardinality(Settling(w))' \in Nat
      BY <1>0, <2>1, Counts, FS_CardinalityType
    <2>4. BothOwed' = [BothOwed EXCEPT ![w] = @ - 1] /\ BothOwed[w] > 0
      <3>1. BothOwed' = [BothOwed EXCEPT ![w] = @ - 1]
        BY <2>1, <2>3 DEF BothOwed
      <3>2. BothOwed[w] > 0
        BY <2>3 DEF BothOwed
      <3>. QED
        BY <3>1, <3>2
    <2>5. UNCHANGED BothPaid
      BY <2>2 DEF BothPaid
    <2>6. BothBalance' = [BothBalance EXCEPT ![w] = Balance(w)']
      BY <2>2 DEF BothBalance
    <2>7. Balance(w)' \in 0 .. Worth[w] * (BothPaid[w] - BothOwed'[w])
      <3>1. Balance(w)' \in
               0 .. Worth[w] * (Cardinality(Commands(w, "succeeded"))' - Cardinality(Settling(w))')
        BY BalanceCoveredNext DEF BalanceIsCovered
      <3>2. /\ BothPaid[w] = Cardinality(Commands(w, "succeeded"))'
            /\ BothOwed'[w] = Cardinality(Settling(w))'
        BY <2>2 DEF BothPaid, BothOwed
      <3>. QED
        BY <3>1, <3>2
    <2>. QED
      BY <2>4, <2>5, <2>6, <2>7 DEF SharedLedger!Settle, BothPaid, BothOwed, BothBalance
  <1>. QED
    BY <1>1, <1>2, <1>3, <1>4 DEF AccountStep, SharedLedger!LedgerNext

\* The two dispatchers together implement the ledger of one faucet: whichever of them is
\* told, a payment that succeeds is owed once and settled at most once, and the sum of
\* the two balances of a user moves only then, to no more than what the settled
\* payments are worth (OnSucceed, successAfter and updateUserAirdrop of both).
THEOREM SharedLedgerRefined == BothSpec => ImplementsSharedLedger
  <1>1. BothInit => PayeeInv /\ BooksInv /\ SharedLedger!LedgerInit
    BY PayeeInit, BooksInit, SharedStart
  <1>2. PayeeInv /\ BooksInv /\ [BothNext]_bothVars => PayeeInv' /\ BooksInv' /\ BothStep /\ AccountStep
    BY PayeeNext, AccountMoves, BooksNext
  <1>3. PayeeInv /\ BooksInv /\ (PayeeInv /\ BooksInv)' /\ [BothNext]_bothVars
          => [SharedLedger!LedgerNext]_(SharedLedger!ledgerVars)
    BY <1>2, SharedStep
  <1>. QED
    BY <1>1, <1>2, <1>3, PTL DEF BothSpec, ImplementsSharedLedger, SharedLedger!LedgerSpec
=============================================================================
