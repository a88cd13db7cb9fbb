--------------------------- MODULE MCDispatchers ---------------------------
(***************************************************************************)
(* Instances of Dispatchers for TLC: airdrop 1 and channel user 2 are paid *)
(* to the same user.                                                       *)
(***************************************************************************)
EXTENDS Dispatchers, TLC

CONSTANTS
    u1,
    MaxCommands   \* bound: a state with more commands is checked, but not extended

MCOwner == [x \in Airdrops \cup ChannelUsers |-> u1]
MCCoin == [a \in Airdrops |-> 1]
MCChannelUID == [r \in ChannelUsers |-> u1]
MCMaxAmount == [r \in ChannelUsers |-> 2]

\* Every row is there, and every channel user is valid with its largest amount,
\* before the first request.
RowsFirst ==
    \/ \E s \in Sessions : session[s] # "idle"
    \/ \E s \in ChSessions : chSession[s] # "idle"
    =>
        /\ Rows = Airdrops
        /\ \A r \in ChannelUsers : validState[r] = "success" /\ amount[r] = MaxAmount[r]

CommandBound == Len(cmds) <= MaxCommands

=============================================================================
