---------------------------- MODULE FaucetLedger ----------------------------
(***************************************************************************)
(* What the dispatchers promise the owner of a faucet: the ledger of       *)
(* app/services/airdrop and app/services/channel_user with rows, lookups,  *)
(* goroutines and the client left out.  A payment that succeeds is owed to *)
(* its user once; each owed payment is settled at most once; a balance     *)
(* moves only when an owed payment of its user is settled, and is never    *)
(* more than what the settled payments are worth.                          *)
(***************************************************************************)
EXTENDS Integers

CONSTANTS
    Accounts,   \* the users that may be paid
    Worth       \* Worth[u]: the most that one payment credits user u with, a natural number

VARIABLES
    paid,      \* paid[u]: the payments to u that succeeded
    owed,      \* owed[u]: those of them that are being settled
    balance    \* balance[u]: what u was credited with

ledgerVars == <<paid, owed, balance>>

LedgerInit ==
    /\ paid = [u \in Accounts |-> 0]
    /\ owed = [u \in Accounts |-> 0]
    /\ balance = [u \in Accounts |-> 0]

Pay(u) ==
    /\ paid' = [paid EXCEPT ![u] = @ + 1]
    /\ owed' = [owed EXCEPT ![u] = @ + 1]
    /\ UNCHANGED balance

\* A credit, an overwritten balance, or nothing when a call fails.
Settle(u) ==
    /\ owed[u] > 0
    /\ owed' = [owed EXCEPT ![u] = @ - 1]
    /\ \E b \in 0 .. Worth[u] * (paid[u] - owed'[u]) : balance' = [balance EXCEPT ![u] = b]
    /\ UNCHANGED paid

\* A crash forgets what is owed.
Forget ==
    /\ owed' = [u \in Accounts |-> 0]
    /\ UNCHANGED <<paid, balance>>

LedgerNext == Forget \/ \E u \in Accounts : Pay(u) \/ Settle(u)

LedgerSpec == LedgerInit /\ [][LedgerNext]_ledgerVars

=============================================================================
