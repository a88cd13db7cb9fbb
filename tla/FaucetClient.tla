---------------------------- MODULE FaucetClient ----------------------------
(***************************************************************************)
(* The payment client of lib/airdrop/airdrop.go and the mises SDK behind   *)
(* it, as the service uses them.  The client is one object of the process: *)
(* RunAsync queues a faucet command and returns; later the SDK tells the   *)
(* listener that the transaction was generated, and that it succeeded or   *)
(* failed.  The SDK keeps its queue in memory, so a crash of the process   *)
(* loses the outcome of every command that has none yet.                   *)
(***************************************************************************)
EXTENDS Integers, Sequences

VARIABLES
    cmds,       \* the commands in the order of RunAsync
    listener    \* the context the registered listener was made with

NoListener == "no listener"

clientVars == <<cmds, listener>>

Stage == {"queued", "generated", "succeeded", "failed", "lost"}

Unfinished == {"queued", "generated"}

ClientInit ==
    /\ cmds = << >>
    /\ listener = NoListener

\* One listener for the whole client: the last call wins.
SetListener(ctx) == listener' = ctx

\* The command pays row "to" the amount the caller names; "by" and "ep" record who
\* submitted it and during which session of the dispatcher.  No code reads these two.
RunAsync(to, amount, by, ep) ==
    cmds' = Append(cmds, [ to |-> to, amount |-> amount, by |-> by, ep |-> ep,
                           stage |-> "queued" ])

\* The SDK moves command c on before it calls the listener.
Report(c, from, stage) ==
    /\ cmds[c].stage \in from
    /\ cmds' = [cmds EXCEPT ![c].stage = stage]

LoseUnfinished ==
    cmds' = [c \in DOMAIN cmds |->
                IF cmds[c].stage \in Unfinished
                THEN [cmds[c] EXCEPT !.stage = "lost"]
                ELSE cmds[c]]

=============================================================================
