---------------------------- MODULE ChannelPage ----------------------------
(***************************************************************************)
(* What the owner of a channel sees: the link and the total of ChannelInfo *)
(* (Channels), and the list of PageChannelUser, page by page (Pagination). *)
(* Both read "channelusers", which grows meanwhile: ChannelInfo counts by  *)
(* channel_id, PageChannelUser selects by channel_misesid.  So the rows of *)
(* the walk are the users of all channels of one owner.                    *)
(***************************************************************************)
EXTENDS Channels

CONSTANTS
    Walkers,     \* the clients that walk through the pages
    Viewed,      \* the owner whose pages they walk through
    PageSizes    \* the page sizes they ask for

ASSUME PagesAssumption == Viewed \in ChannelOwners /\ PageSizes \subseteq Nat

VARIABLES walkAt, page, listed, start, seen

walkVars == <<walkAt, page, listed, start, seen>>
vars == <<channelVars, walkVars>>

\* PageChannelUser: the rows with the channel_misesid of the owner.
Pages ==
    INSTANCE Pagination
        WITH rows <- UsersOf(Viewed), MaxRows <- MaxUsers, at <- walkAt, answer <- listed

Init == ChannelsInit /\ Pages!Init

InfoStep == ChannelsNext /\ UNCHANGED walkVars

Begin(w) ==
    /\ UNCHANGED channelVars
    /\ \E kind \in Pages!Kinds, num \in 0 .. 1, size \in PageSizes :
          Pages!Begin(w, kind, num, size)

Walk(w) == UNCHANGED channelVars /\ Pages!Walk(w)

\* A database call of a page fails.
PageFails(w) ==
    /\ walkAt[w] \in {"count", "find", "quickFind", "quickNext"}
    /\ UNCHANGED <<owner, through, at, for, channel, total>>
    /\ Fails
    /\ Pages!Retry({w})

\* The process dies with the requests of both kinds.
ProcessDies == Crash /\ Pages!Retry(Walkers)

Next ==
    \/ InfoStep
    \/ \E w \in Walkers : Begin(w) \/ Walk(w) \/ PageFails(w)
    \/ ProcessDies

Spec == Init /\ [][Next]_vars

\* A client that walks goes on, and its requests are answered.
FairSpec == Spec /\ \A w \in Walkers : WF_vars(Walk(w))

-----------------------------------------------------------------------------

\* Every variable holds a value of its kind; a walk shows rows that exist.
TypeOK == ChannelsTypeOK /\ Pages!PagesTypeOK

\* The properties of the pages, of the collection as it grows here.
WalkIsComplete == Pages!WalkIsComplete
TotalsAgree == Pages!TotalsAgree
WalkEnds == Pages!WalkEnds

=============================================================================
