--------------------------- MODULE MCChannelPage ---------------------------
(***************************************************************************)
(* An instance of ChannelPage for TLC: two owners, of whom u1 is looked    *)
(* at; page sizes that stand for the default, 0 for both paginators and 2  *)
(* for the traditional one, and a size that makes several pages.           *)
(***************************************************************************)
EXTENDS ChannelPage

CONSTANTS u1, u2

MCPageSizes == {0, 2, 3}

\* ChannelInfo and the walk only meet in the rows: neither runs during the other, and
\* the other owner has one user at most, and none when somebody walks.
Apart ==
    IF \E w \in Walkers : walkAt[w] # "idle"
    THEN UsersOf(u2) = 0 /\ \A q \in Requests : at[q] = "idle"
    ELSE UsersOf(u2) <= 1

=============================================================================
