------------------------- MODULE MCAirdropDispatch -------------------------
(***************************************************************************)
(* Instances of AirdropDispatch for TLC.  User u1 owns rows 1 and 3, so    *)
(* that a lookup by misesid can meet the wrong row; u2 owns row 2.         *)
(***************************************************************************)
EXTENDS AirdropLedger, TLC

CONSTANTS
    u1, u2,
    MaxCommands   \* bound: a state with more commands is checked, but not extended

MCOwner == [a \in Airdrops |-> IF a = 2 THEN u2 ELSE u1]
MCCoin == [a \in Airdrops |-> IF a = 3 THEN 2 ELSE 1]

\* Rows are inserted in the order of their _id, as by one process at a time.
InsertedInOrder ==
    \A a, b \in Airdrops : a < b /\ b \in Rows => a \in Rows

\* Every row is there before the first session sets airdropDo.
InsertedFirst == epoch > 0 => Rows = Airdrops

\* Requests, and threads, are interchangeable.
Interchangeable == Permutations(Sessions) \cup Permutations(Threads)

\* Cuts the endless resubmission of a row by session after session.
CommandBound == Len(cmds) <= MaxCommands

=============================================================================
