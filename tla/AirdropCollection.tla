------------------------- MODULE AirdropCollection -------------------------
(***************************************************************************)
(* The "airdrops" collection (app/models/airdrop.go) and the user_ext      *)
(* balance.  Each operator is one database call: every call is atomic, and *)
(* between two calls of a handler anything may happen.                     *)
(*                                                                         *)
(* Every update is by _id and unconditional: it does not look at the row   *)
(* it overwrites.                                                          *)
(***************************************************************************)
EXTENDS AirdropSearch, FiniteSets

CONSTANTS
    Airdrops,   \* the _ids a row may get, in insertion order
    Owner,      \* Owner[a]: the misesid (and the uid) of row a
    Coin        \* Coin[a]: the amount of row a

ASSUME AirdropsAssumption == Airdrops \subseteq Nat \ {0}
ASSUME CoinAssumption == Coin \in [Airdrops -> Nat \ {0}]

\* GetTwitterAirdropCoin bounds the amounts, so one row of a user has the largest.
ASSUME LargestAssumption ==
    \A a \in Airdrops : \E b \in Airdrops :
        /\ Owner[b] = Owner[a]
        /\ \A c \in Airdrops : Owner[c] = Owner[a] => Coin[c] <= Coin[b]

Users == {Owner[a] : a \in Airdrops}

VARIABLES
    status,       \* status[a]: "absent" before the insert, then an AirdropStatus
    txID,         \* txID[a]: the tx_id of row a, NoTx for ""
    airdropCoin   \* airdropCoin[u]: UserExt.AirdropCoin of user u

collectionVars == <<status, txID, airdropCoin>>

CollectionTypeOK ==
    /\ status \in [Airdrops -> AirdropStatus \cup {"absent"}]
    /\ txID \in [Airdrops -> Nat]
    /\ airdropCoin \in [Users -> Nat]

CollectionInit ==
    /\ status = [a \in Airdrops |-> "absent"]
    /\ txID = [a \in Airdrops |-> NoTx]
    /\ airdropCoin = [u \in Users |-> 0]

Rows == {a \in Airdrops : status[a] # "absent"}

Document(a) ==
    [misesid |-> Owner[a], status |-> status[a], _id |-> a, tx_id |-> txID[a]]

Selected(p) == {a \in Rows : Matches(Document(a), p)}

\* Get with the sort the dispatcher asks for (_id ascending) and with the
\* default sort (_id descending).  The empty set is mongo.ErrNoDocuments.
Oldest(S) == {a \in S : \A b \in S : a <= b}
Newest(S) == {a \in S : \A b \in S : b <= a}

\* Find with sort _id ascending and Limit(n).
ListAirdrop(p, n) ==
    {a \in Selected(p) : Cardinality({b \in Selected(p) : b < a}) < n}

\* FindAirdrop with the default sort.
FindAirdrop(p) == Newest(Selected(p))

\* FindAirdrop with SortKey "_id" and SortAsc.
FindOldestAirdrop(p) == Oldest(Selected(p))

CreateAirdrop(a) ==
    /\ status[a] = "absent"
    /\ status' = [status EXCEPT ![a] = "default"]
    /\ UNCHANGED <<txID, airdropCoin>>

\* UpdateTxID writes the status as well.
UpdateTxID(a, tx) ==
    /\ txID' = [txID EXCEPT ![a] = tx]
    /\ status' = [status EXCEPT ![a] = "pending"]
    /\ UNCHANGED airdropCoin

UpdateStatusPending(a) ==
    /\ status' = [status EXCEPT ![a] = "pending"]
    /\ UNCHANGED <<txID, airdropCoin>>

\* Mutant: the update selects by misesid, not by _id.
UpdateStatus_OfOwner(a, st) ==
    /\ status' = [b \in Airdrops |->
                    IF b \in Rows /\ Owner[b] = Owner[a] THEN st ELSE status[b]]
    /\ UNCHANGED <<txID, airdropCoin>>

UpdateStatus(a, st) ==
    /\ status' = [status EXCEPT ![a] = st]
    /\ UNCHANGED <<txID, airdropCoin>>

\* UserExt.UpdateAirdrop stores the balance computed from an earlier read.
UpdateAirdropCoin(u, coin) ==
    /\ airdropCoin' = [airdropCoin EXCEPT ![u] = coin]
    /\ UNCHANGED <<status, txID>>

=============================================================================
