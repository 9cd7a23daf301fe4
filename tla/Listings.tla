------------------------------ MODULE Listings ------------------------------
(***************************************************************************)
(* The two paged listings, read while the rows change between pages.       *)
(*                                                                         *)
(* The feed of published events (getPublishedEvents, GetAllPublished and   *)
(* internal/cursor) is paged by keyset: a page continues after the key     *)
(* <<starts_at, id>> of the last row of the page before.  The cursor       *)
(* carries that key to the client and back without loss: RFC3339Nano holds *)
(* every instant that a TIMESTAMPTZ column can.                            *)
(*                                                                         *)
(* The purchases of a user (listPurchases, ListByUser, CountByUser) are    *)
(* paged by OFFSET, newest first.  A purchase is the place of its          *)
(* created_at, which is the start of its transaction: purchases may        *)
(* become visible in another order.                                        *)
(*                                                                         *)
(* The client is external.  It reads the feed until there is no next       *)
(* cursor, or the history until it has asked for `total' rows; the two     *)
(* share no rows, so that a behaviour is about one of them.                *)
(***************************************************************************)
EXTENDS Naturals, FiniteSets

CONSTANTS
    Events,        \* ids of events, in their order
    Starts,        \* values of starts_at
    Limit,         \* rows per page
    Purchases,     \* the user's purchases by created_at
    Nothing

ASSUME ListingAssumption ==
    /\ Events \subseteq Nat /\ IsFiniteSet(Events)
    /\ Starts \subseteq Nat
    /\ Limit \in Nat \ {0}
    /\ Purchases \subseteq Nat /\ IsFiniteSet(Purchases)
    /\ Nothing \notin Starts \X Events

VARIABLES
    reading,   \* "feed" or "history"
    events,    \* status and start of each event
    cursor,    \* the key the next page of the feed continues after
    shown,     \* how often the feed has shown each event
    feed,      \* "new", "reading", "done" or "failed"
    steady,    \* history: on sale, at the same time, since the feed was opened
    moved,     \* history: rescheduled since the feed was opened
    purchases, \* the purchases that are visible
    page,      \* the page of the history the client asks for next
    listed,    \* the purchases the client has been shown
    opening,   \* history: the purchases there were when page 1 was read
    history    \* "list", "count" or "done"

feedVars == <<reading, events, cursor, shown, feed, steady, moved>>
historyVars == <<reading, purchases, page, listed, opening, history>>
vars == <<reading, events, cursor, shown, feed, steady, moved, purchases, page, listed, opening, history>>

Init ==
    /\ reading \in {"feed", "history"}
    /\ IF reading = "feed"
       THEN /\ events \in [Events -> [status : {"draft", "published"}, start : Starts]]
            /\ purchases = {}
       ELSE /\ \E start \in Starts : events = [e \in Events |-> [status |-> "draft", start |-> start]]
            /\ purchases \in SUBSET Purchases
    /\ cursor = Nothing
    /\ shown = [e \in Events |-> 0]
    /\ feed = "new"
    /\ steady = {} /\ moved = {}
    /\ page = 1
    /\ listed = {} /\ opening = {}
    /\ history = "list"

-----------------------------------------------------------------------------
(* The feed.                                                               *)

Key(e) == <<events[e].start, e>>

\* SQL's comparison of rows: (starts_at, id) > ($1, $2).
After(k, c) == k[1] > c[1] \/ (k[1] = c[1] /\ k[2] > c[2])

Matching ==
    {e \in Events : events[e].status = "published" /\ (cursor = Nothing \/ After(Key(e), cursor))}

\* The n first rows of a set in the order of their keys.
First(rows, n) ==
    {e \in rows : Cardinality({d \in rows : After(Key(e), Key(d))}) < n}

Last(rows) == CHOOSE e \in rows : \A d \in rows \ {e} : After(Key(e), Key(d))

NextCursor_extra(fetched) == Key(Last(fetched))     \* the row that is not shown
NextCursor(fetched) == Key(Last(First(fetched, Limit)))

\* A page as the query and the handler make it.  At this commit the store
\* answers no page with a row (FeedFails): these are the pages that are
\* answered once its rows are collected, and the empty ones.
ReadFeed ==
    LET fetched == First(Matching, Limit + 1)
        more == Cardinality(fetched) = Limit + 1
    IN  /\ feed \in {"new", "reading"}
        /\ shown' = [e \in Events |->
                        IF e \in First(fetched, Limit) THEN shown[e] + 1 ELSE shown[e]]
        /\ cursor' = IF more THEN NextCursor(fetched) ELSE cursor
        /\ feed' = IF more THEN "reading" ELSE "done"
        /\ steady' = IF feed = "new" THEN {e \in Events : events[e].status = "published"} ELSE steady
        /\ UNCHANGED <<events, moved, historyVars>>

\* GetAllPublished collects rows of fifteen columns with pgx.RowToAddrOf,
\* which has one destination: a row is an error, and the handler answers 500.
FeedFails ==
    /\ feed \in {"new", "reading"}
    /\ Matching # {}
    /\ feed' = "failed"
    /\ UNCHANGED <<events, cursor, shown, steady, moved, historyVars>>

\* What organizers, sales, refunds and the sweep do to a row.
SetStatus(e, from, to) ==
    /\ events[e].status \in from
    /\ events' = [events EXCEPT ![e].status = to]
    /\ steady' = steady \ {e}
    /\ UNCHANGED <<cursor, shown, feed, moved, historyVars>>

Publish(e) == SetStatus(e, {"draft"}, "published")
SellOut(e) == SetStatus(e, {"published"}, "sold_out")
Reopen_available(e) == SetStatus(e, {"sold_out"}, "available")     \* a tier's status
Reopen(e) == SetStatus(e, {"sold_out"}, "published")
CancelOrEnd(e) == SetStatus(e, {"published", "sold_out"}, "over")

Reschedule(e, start) ==
    /\ events[e].status # "over"
    /\ start # events[e].start
    /\ events' = [events EXCEPT ![e].start = start]
    /\ steady' = steady \ {e}
    /\ moved' = IF feed = "reading" THEN moved \cup {e} ELSE moved
    /\ UNCHANGED <<cursor, shown, feed, historyVars>>

-----------------------------------------------------------------------------
(* The purchase history.                                                   *)

Offset_page == page * Limit     \* pages counted from 0
Offset == (page - 1) * Limit

\* ORDER BY created_at DESC LIMIT Limit OFFSET Offset
Page ==
    LET newer(p) == Cardinality({q \in purchases : q > p})
    IN  {p \in purchases : Offset <= newer(p) /\ newer(p) < Offset + Limit}

ListByUser ==
    /\ history = "list"
    /\ listed' = listed \cup Page
    /\ opening' = IF page = 1 THEN purchases ELSE opening
    /\ history' = "count"
    /\ UNCHANGED <<purchases, page, feedVars>>

\* The total is counted by a statement of its own; the client goes on while
\* it has not asked for that many rows.
CountByUser ==
    /\ history = "count"
    /\ IF page * Limit < Cardinality(purchases)
       THEN history' = "list" /\ page' = page + 1
       ELSE history' = "done" /\ UNCHANGED page
    /\ UNCHANGED <<purchases, listed, opening, feedVars>>

Buy(p) ==
    /\ p \notin purchases
    /\ purchases' = purchases \cup {p}
    /\ UNCHANGED <<page, listed, opening, history, feedVars>>

-----------------------------------------------------------------------------
Next ==
    \/ /\ reading = "feed"
       /\ \/ ReadFeed \/ FeedFails
          \/ \E e \in Events : Publish(e) \/ SellOut(e) \/ Reopen(e) \/ CancelOrEnd(e)
          \/ \E e \in Events, start \in Starts : Reschedule(e, start)
    \/ /\ reading = "history"
       /\ ListByUser \/ CountByUser \/ \E p \in Purchases : Buy(p)

Spec == Init /\ [][Next]_vars

-----------------------------------------------------------------------------
(* Properties.                                                             *)

\* Every variable keeps its type.
TypeOK ==
    /\ reading \in {"feed", "history"}
    /\ events \in [Events -> [status : {"draft", "published", "sold_out", "over"}, start : Starts]]
    /\ cursor \in (Starts \X Events) \cup {Nothing}
    /\ shown \in [Events -> Nat]
    /\ feed \in {"new", "reading", "done", "failed"}
    /\ steady \subseteq Events /\ moved \subseteq Events
    /\ purchases \subseteq Purchases /\ listed \subseteq Purchases /\ opening \subseteq Purchases
    /\ page \in Nat \ {0}
    /\ history \in {"list", "count", "done"}

\* Whatever is published, sold out, reopened, cancelled or moved between two
\* pages of the feed: if all of them are answered, an event that was on sale
\* the whole time is shown, and no event is shown twice unless it was given
\* another start meanwhile.
FeedIsExact ==
    /\ feed = "done" => \A e \in steady : shown[e] = 1
    /\ \A e \in Events : shown[e] <= 1 \/ e \in moved

\* A client that pages through the history until it has asked for the total
\* has seen every purchase there was when it began, however many are added
\* before, between and behind them.
HistoryMissesNone == history = "done" => opening \subseteq listed

-----------------------------------------------------------------------------
(* Why: between two pages, what is on sale the whole time has been shown,  *)
(* or lies behind the cursor; ...                                          *)

FeedInv ==
    /\ FeedIsExact
    /\ feed = "new" => moved = {} /\ cursor = Nothing /\ \A e \in Events : shown[e] = 0
    /\ feed = "reading" =>
           /\ cursor # Nothing
           /\ \A e \in Events \ moved :
                  shown[e] = 0 \/ (shown[e] = 1 /\ ~After(Key(e), cursor))
           /\ \A e \in steady :
                  /\ events[e].status = "published" /\ e \notin moved
                  /\ After(Key(e), cursor) \/ shown[e] = 1

\* ... and a purchase can only move back in the history: what was there at
\* first and has not been listed lies on a page still to be asked for.
HistoryInv ==
    LET newer(p) == Cardinality({q \in purchases : q > p})
    IN  /\ opening \subseteq purchases
        /\ history = "list" =>
               /\ page = 1 => opening = {}
               /\ \A p \in opening \ listed : newer(p) >= Offset
        /\ history = "count" => \A p \in opening \ listed : newer(p) >= page * Limit
        /\ HistoryMissesNone

\* Inductive.
ListInv == TypeOK /\ FeedInv /\ HistoryInv

-----------------------------------------------------------------------------
(* What PLAN.md says and the code does not keep                            *)

\* A page of published events is answered with the events.
FeedAnswers == feed # "failed"
=============================================================================
