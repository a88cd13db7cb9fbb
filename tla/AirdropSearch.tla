--------------------------- MODULE AirdropSearch ---------------------------
(***************************************************************************)
(* How an AirdropSearch record becomes a MongoDB filter                    *)
(* (app/models/search/airdrop_search.go) and how lib/db/odm merges the     *)
(* clauses (odm.DB.Where).  Pure operators; no state.                      *)
(*                                                                         *)
(* A clause restricts one key of the document to a set of values.  The     *)
(* empty set stands for "clause not given".                                *)
(***************************************************************************)
EXTENDS Integers, Sequences

\* enum.AirdropStatus, in the order of its iota.
AirdropStatus == {"default", "pending", "success", "failed"}

\* A Status below zero: the only value for which the Status clause is left out.
AnyStatus == "any"

\* tx_id: 0 is the empty string, any other number a transaction id.
NoTx == 0

\* The Go zero value of AirdropSearch.  Status is an int32, so its zero value
\* is AirdropDefault, and not "no restriction".
ZeroSearch ==
    [ Misesid  |-> {},
      Statuses |-> {},
      ID       |-> {},
      Status   |-> "default",
      NotTxID  |-> FALSE ]

\* The clauses in the order in which BuildSearchParams hands them to Where.
\* All rows are of type "twitter", so the type clause selects everything; UID,
\* UIDs and TxID are never set by the dispatcher.
BuildSearchParams(p) ==
    << [key |-> "misesid", in |-> p.Misesid],
       [key |-> "status",  in |-> p.Statuses],
       [key |-> "_id",     in |-> p.ID],
       [key |-> "status",  in |-> IF p.Status = AnyStatus THEN {} ELSE {p.Status}],
       [key |-> "tx_id",   in |-> IF p.NotTxID THEN {NoTx} ELSE {}] >>

\* odm.DB.Where keeps the conditions in a map: of the clauses given for a key,
\* the last one replaces the others.
Where(clauses) ==
    LET given == {i \in DOMAIN clauses : clauses[i].in # {}}
    IN  {i \in given : \A j \in given : clauses[j].key = clauses[i].key => j <= i}

\* A document is selected when it satisfies every clause that is left.
Matches(doc, p) ==
    LET clauses == BuildSearchParams(p)
    IN  \A i \in Where(clauses) : doc[clauses[i].key] \in clauses[i].in

\* getAirdropList and getAirdrop: the rows that wait to be paid.
WaitingQuery == [ZeroSearch EXCEPT !.NotTxID = TRUE, !.Status = "default"]

\* pendingAfter: the row of this id, while it is still default.
PendingAfterQuery(id) == [ZeroSearch EXCEPT !.ID = {id}, !.Status = "default"]

\* Mutant: the status is forgotten, and so is default.
SubmittedQuery_NoStatus(misesid) == [ZeroSearch EXCEPT !.Misesid = {misesid}]

\* successAfter and txGeneratedAfter: the pending rows of a misesid.
SubmittedQuery(misesid) ==
    [ZeroSearch EXCEPT !.Misesid = {misesid}, !.Status = "pending"]

\* failedAfter: Statuses is given, Status is left at its zero value.
FailedAfterQuery(misesid) ==
    [ZeroSearch EXCEPT !.Misesid = {misesid}, !.Statuses = {"default", "pending"}]

=============================================================================
