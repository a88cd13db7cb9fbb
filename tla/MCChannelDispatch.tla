------------------------- MODULE MCChannelDispatch -------------------------
(***************************************************************************)
(* Instances of ChannelDispatch for TLC.  Rows 1 and 3 came through the    *)
(* channel of u1, row 2 through the channel of u2.                         *)
(***************************************************************************)
EXTENDS ChannelDispatch, TLC

CONSTANTS
    u1, u2,
    MaxCommands   \* bound: a state with more commands is checked, but not extended

MCChannelUID == [r \in ChannelUsers |-> IF r = 2 THEN u2 ELSE u1]
MCMaxAmount == [r \in ChannelUsers |-> IF r = 1 THEN 2 ELSE 1]

\* A row that a plan rewrote although it was valid is not looked up again.
RewrittenOnce == \A q \in Plans : doChannelUser[q] \notin rewritten

\* Every document is there and valid, with its largest amount, before the first
\* session sets airdropDo.
ValidFirst ==
    epoch > 0 =>
        \A r \in ChannelUsers : validState[r] = "success" /\ amount[r] = MaxAmount[r]

Interchangeable ==
    Permutations(Sessions) \cup Permutations(Threads) \cup Permutations(Plans)

CommandBound == Len(cmds) <= MaxCommands

=============================================================================
