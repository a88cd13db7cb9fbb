--------------------------- MODULE AirdropLedger ---------------------------
(***************************************************************************)
(* The Twitter dispatcher implements the ledger.                           *)
(***************************************************************************)
EXTENDS AirdropDispatch

\* The successful payments to u whose callback has not left successAfter.
OwedCommands(u) ==
    {c \in Commands(u, "succeeded") :
        \E t \in Threads : /\ local[t].cmd = c
                           /\ pc[t] \in {"successFind", "successUpd", "extRead", "extWrite"}}

Ledger ==
    INSTANCE FaucetLedger WITH
        Accounts <- Users,
        Worth <- [u \in Users |-> Largest(u)],
        paid <- [u \in Users |-> Cardinality(Commands(u, "succeeded"))],
        owed <- [u \in Users |-> Cardinality(OwedCommands(u))],
        balance <- airdropCoin

\* Whatever rows the lookups by misesid meet, and however callbacks, sessions
\* and crashes interleave, a successful payment is settled at most once, and a
\* balance moves only when one is (OnSucceed, successAfter, updateUserAirdrop).
ImplementsLedger == Ledger!LedgerSpec

=============================================================================
