----------------------------- MODULE Pagination -----------------------------
(***************************************************************************)
(* The paginators of lib/pagination over a collection that grows while a   *)
(* client walks through its pages.  PageChannelUser uses the traditional   *)
(* one, which answers with page numbers; the quick one answers with the    *)
(* _id that the next page begins with.  Either makes two database calls    *)
(* for a page, and rows may be inserted between them.  Both share one      *)
(* session of odm, which keeps the filter, the sort, the limit and the     *)
(* skip from one call to the next.                                         *)
(*                                                                         *)
(* The collection belongs to the module that instantiates this one, which  *)
(* says how its rows come about.                                           *)
(***************************************************************************)
EXTENDS Integers, FiniteSets, Sequences

CONSTANTS
    Walkers,    \* the clients, each walking once
    MaxRows,    \* bound: the rows of the collection that the filter selects
    PageSizes   \* the page sizes clients ask for

VARIABLES
    rows,    \* the number of rows, which have the _ids 1 .. rows
    at,      \* at[w]: the next call of the request of w
    page,    \* page[w]: the request of w
    answer,  \* answer[w]: what the request has got so far
    start,   \* start[w]: the rows there were when the walk began
    seen     \* seen[w]: the _ids w was given

pageVars == <<at, page, answer, start, seen>>

NoID == 0

Kinds == {"traditional", "quick"}

Init ==
    /\ at = [w \in Walkers |-> "idle"]
    /\ page = [w \in Walkers |-> << >>]
    /\ answer = [w \in Walkers |-> << >>]
    /\ start = [w \in Walkers |-> 0]
    /\ seen = [w \in Walkers |-> {}]

-----------------------------------------------------------------------------
(* odm. *)

Newer(selected, i) == {j \in selected : j > i}

\* Find with a sort by _id, descending: the selected rows, skip of them passed over.
Find(selected, skip, limit) ==
    {i \in selected : Cardinality(Newer(selected, i)) \in skip .. skip + limit - 1}

-----------------------------------------------------------------------------
(* NewTraditionalPaginator and TraditionalPaginator.Paginate.              *)

PageNum(n) == IF n <= 0 THEN 1 ELSE n

PageSize(n) == IF n <= 2 \/ n > 200 THEN 50 ELSE n

\* Mutant: pages are numbered from 0.
Offset_FromZero(p) == p.num * p.size

Offset(p) == (p.num - 1) * p.size

\* Mutant: one page more, also when the last one is full.
TotalPages_NoRemainder(count, size) == count \div size + 1

TotalPages(count, size) ==
    count \div size + IF count % size > 0 THEN 1 ELSE 0

Goto(w, step) == at' = [at EXCEPT ![w] = step]

Count(w) ==
    /\ at[w] = "count"
    /\ answer' = [answer EXCEPT
                    ![w] = [records |-> rows, pages |-> TotalPages(rows, page[w].size)]]
    /\ Goto(w, "find")
    /\ UNCHANGED <<rows, page, start, seen>>

\* The client is given the rows of found.
Given(w, found) == seen' = [seen EXCEPT ![w] = @ \cup found]

Paginate(w) ==
    /\ at[w] = "find"
    /\ LET found == Find(1 .. rows, Offset(page[w]), page[w].size)
       IN  /\ Given(w, found)
           /\ answer' = [answer EXCEPT
                           ![w] = [records |-> @.records, pages |-> @.pages, rows |-> found]]
    /\ Goto(w, "answered")
    /\ UNCHANGED <<rows, page, start>>

-----------------------------------------------------------------------------
(* QuickPaginator.Paginate, descending.                                    *)

QuickLimit(n) == IF n = 0 THEN 50 ELSE n

\* The filter stays in the session for both calls.
NotAfter(next) == {i \in 1 .. rows : next = NoID \/ i <= next}

QuickPaginate(w) ==
    /\ at[w] = "quickFind"
    /\ answer' = [answer EXCEPT
                    ![w] = [rows |-> Find(NotAfter(page[w].next), 0, page[w].size)]]
    /\ Goto(w, "quickNext")
    /\ UNCHANGED <<rows, page, start, seen>>

\* Mutant: the second call does not skip.
NextItem_Unskipped(p) == Find(NotAfter(p.next), 0, 1)

\* The limit of the first call is replaced, and the skip added.
NextItem(p) == Find(NotAfter(p.next), p.size, 1)

QuickNext(w) ==
    /\ at[w] = "quickNext"
    /\ LET items == NextItem(page[w])
       IN  answer' = [answer EXCEPT
                        ![w] = [rows |-> @.rows,
                                next |-> IF items = {} THEN NoID
                                         ELSE CHOOSE i \in items : TRUE]]
    /\ Given(w, answer[w].rows)
    /\ Goto(w, "quickAnswered")
    /\ UNCHANGED <<rows, page, start>>

-----------------------------------------------------------------------------
(* The clients, which are not part of the repository: one walks the page   *)
(* numbers until a page is not full, or the _ids until there is no next.   *)

Begin(w, kind, num, size) ==
    /\ at[w] = "idle"
    /\ start' = [start EXCEPT ![w] = rows]
    /\ IF kind = "traditional"
       THEN /\ Goto(w, "count")
            /\ page' = [page EXCEPT ![w] = [num |-> PageNum(num), size |-> PageSize(size)]]
       ELSE /\ Goto(w, "quickFind")
            /\ page' = [page EXCEPT ![w] = [next |-> NoID, size |-> QuickLimit(size)]]
    /\ UNCHANGED <<rows, answer, seen>>

NextPage(w) ==
    /\ at[w] = "answered"
    /\ IF Cardinality(answer[w].rows) = page[w].size
       THEN /\ Goto(w, "count")
            /\ page' = [page EXCEPT ![w].num = @ + 1]
       ELSE Goto(w, "done") /\ UNCHANGED page
    /\ UNCHANGED <<rows, answer, start, seen>>

NextQuickPage(w) ==
    /\ at[w] = "quickAnswered"
    /\ IF answer[w].next # NoID
       THEN /\ Goto(w, "quickFind")
            /\ page' = [page EXCEPT ![w].next = answer[w].next]
       ELSE Goto(w, "quickDone") /\ UNCHANGED page
    /\ UNCHANGED <<rows, answer, start, seen>>

\* The call a request begins with.
FirstCall(w) ==
    CASE at[w] \in {"count", "find"}          -> "count"
      [] at[w] \in {"quickFind", "quickNext"} -> "quickFind"
      [] OTHER                                -> at[w]

\* The requests of W fail, or die with the process: their clients ask again.
Retry(W) ==
    /\ at' = [w \in Walkers |-> IF w \in W THEN FirstCall(w) ELSE at[w]]
    /\ UNCHANGED <<rows, page, answer, start, seen>>

Walk(w) ==
    \/ Count(w) \/ Paginate(w) \/ NextPage(w)
    \/ QuickPaginate(w) \/ QuickNext(w) \/ NextQuickPage(w)

-----------------------------------------------------------------------------

\* Every variable holds a value of its kind; a walk shows rows that exist.
PagesTypeOK ==
    /\ rows \in 0 .. MaxRows
    /\ \A w \in Walkers :
          /\ at[w] \in {"idle", "count", "find", "answered", "done",
                        "quickFind", "quickNext", "quickAnswered", "quickDone"}
          /\ at[w] # "idle" => page[w].size > 0
          /\ start[w] <= rows
          /\ seen[w] \subseteq 1 .. rows

\* A walk shows every row there was when it began, although inserts push rows from
\* one page to the next between two requests and between two calls of one.
WalkIsComplete ==
    \A w \in Walkers :
        at[w] \in {"done", "quickDone"} => 1 .. start[w] \subseteq seen[w]

\* An answer whose page number is below the total it gives has a full page, and one
\* whose page number is the total has rows, although the total was counted earlier.
TotalsAgree ==
    \A w \in Walkers :
        at[w] = "answered" =>
            LET n == Cardinality(answer[w].rows)
            IN  /\ page[w].num < answer[w].pages => n = page[w].size
                /\ page[w].num = answer[w].pages => n > 0
                /\ page[w].num > answer[w].pages => n <= rows - answer[w].records

\* Every walk comes to an end, also when rows are inserted meanwhile (finitely many:
\* a traditional walk could follow a collection that grows for ever) and requests are
\* repeated (finitely often).
WalkEnds ==
    \A w \in Walkers : (at[w] # "idle") ~> (at[w] \in {"done", "quickDone"})

=============================================================================
