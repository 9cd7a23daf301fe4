------------------------------ MODULE EventAdmin ------------------------------
(***************************************************************************)
(* An organizer's requests about one event: publish, update, cancel and    *)
(* delete it, add and delete tiers (cmd/server/events.go and tiers.go).    *)
(* Each reads the event in requireEventOrganizer, decides on what it read, *)
(* and writes with one statement; between the two, buyers, the periodic    *)
(* job and the organizer's other requests go on.                           *)
(*                                                                         *)
(* "published" stands for published and sold_out, which none of these      *)
(* handlers tells apart; "gone" for a row that has been deleted.           *)
(***************************************************************************)
EXTENDS Integers, FiniteSets, FiniteSetsExt

CONSTANTS
    Requests,       \* requests of the organizer under way
    Tiers,          \* ids of ticket_tiers
    Purchases,      \* purchases, of one ticket each
    TierOf,         \* purchases.tier_id
    Quantities,     \* quantities and capacities an organizer asks for
    Terms,          \* values of the material fields (place, dates, cancellation)
    MaxStamp        \* bound on the confirmed material changes

Stamps == 1 .. MaxStamp
Caps   == {{}} \cup {{q} : q \in Quantities}

ASSUME AdminAssumption ==
    /\ TierOf \in [Purchases -> Tiers]
    /\ IsFiniteSet(Tiers) /\ IsFiniteSet(Purchases)
    /\ Quantities \subseteq Nat \ {0}
    /\ MaxStamp \in Nat
    /\ Terms # {}

VARIABLES
    event,          \* the row of events
    size,           \* ticket_tiers.quantity, 0 where there is no row
    purchase,       \* purchases.status; "none" is no row yet, "asking" a sale
                    \* under way, "gone" a row that has been deleted
    request,        \* what a request has read and will write
    clock,          \* stamps handed out by time.Now() in updateEvent
    notices,        \* NotifyBuyersUpdated tasks in Redis, by their stamp
    overtaken       \* history: requests under way whose organizer's other
                    \* request has changed the event or its tiers since

rowVars == <<event, size, purchase>>
restVars == <<notices, overtaken>>
vars == <<rowVars, request, clock, restVars>>

EventRow == [status : {"draft", "published", "cancelled", "ended", "gone"},
             capacity : Caps, terms : Terms, changedAt : {{}} \cup {{n} : n \in Stamps}]

Idle == [step |-> "idle"]

-------------------------------------------------------------------------------
(* Helpers *)

Confirmed == {p \in Purchases : purchase[p] = "confirmed"}
Bought(status) == status \in {"confirmed", "cancelled"}
SoldOf(t) == Cardinality({p \in Confirmed : TierOf[p] = t})
Inventory == MapThenSumSet(LAMBDA t : size[t], Tiers)

(* ListConfirmedBuyersByEvent collects rows of nine columns with           *)
(* pgx.RowToAddrOf, which has one destination: any row is an error, and    *)
(* only the result without rows is returned.                               *)
CollectFails(rows) == rows # {}

ListedBuyers == IF CollectFails(Confirmed) THEN {} ELSE Confirmed

(* A transaction of Create under way holds the row of its tier. *)
TierFree(t) == \A p \in Purchases : TierOf[p] = t => purchase[p] # "asking"

Fits(cap, n) == \A limit \in cap : n <= limit

Continue(r, rec) == request' = [request EXCEPT ![r] = rec]
Answer(r) == Continue(r, Idle)

(* requireEventOrganizer: the rest of the request works on this row. *)
Begin(r, statuses, rec) ==
    /\ request[r] = Idle
    /\ event.status \in statuses
    /\ Continue(r, rec)
    /\ overtaken' = overtaken \ {r}
    /\ UNCHANGED <<rowVars, clock, notices>>

(* What the other requests under way have read is no longer so.            *)
Overtake(r) == overtaken' = {s \in Requests \ {r} : request[s] # Idle}

(* The write finds no row to change, or fails.  The handler logs event.ID, *)
(* where event is by now the nil that the store returned.                  *)
Conflict(r) ==
    /\ Answer(r)
    /\ UNCHANGED <<rowVars, restVars>>

-------------------------------------------------------------------------------
(* publishEvent *)

(* publishing does not ask for a tier *)
EnoughTiers_orNone == Cardinality({t \in Tiers : size[t] > 0}) >= 0

EnoughTiers == Cardinality({t \in Tiers : size[t] > 0}) > 0

PublishBegin(r) == Begin(r, {"draft"}, [step |-> "publish_count"])

PublishCount(r) ==
    /\ request[r].step = "publish_count"
    /\ IF EnoughTiers THEN Continue(r, [step |-> "publish"]) ELSE Answer(r)
    /\ UNCHANGED <<rowVars, clock, restVars>>

MayPublish == event.status = "draft"

PublishWrite(r) ==
    /\ request[r].step = "publish"
    /\ \/ /\ MayPublish
          /\ event' = [event EXCEPT !.status = "published"]
          /\ Answer(r)
          /\ Overtake(r)
          /\ UNCHANGED <<size, purchase, notices>>
       \/ Conflict(r)
    /\ UNCHANGED clock

-------------------------------------------------------------------------------
(* cancelEvent *)

CancelBegin(r) == Begin(r, {"draft", "published"}, [step |-> "cancel"])

(* UPDATE ... WHERE status IN (...), without its condition *)
MayCancelEvent_any == event.status # "gone"

MayCancelEvent == event.status \in {"draft", "published"}

CancelWrite(r) ==
    /\ request[r].step = "cancel"
    /\ \/ /\ MayCancelEvent
          /\ event' = [event EXCEPT !.status = "cancelled"]
          /\ Continue(r, [step |-> "buyers"])
          /\ Overtake(r)
          /\ UNCHANGED <<size, purchase, notices>>
       \/ Conflict(r)
    /\ UNCHANGED clock

(* An error is logged, and the handler goes on with no buyers.             *)
ListBuyers(r) ==
    /\ request[r].step = "buyers"
    /\ Continue(r, [step |-> "void", buyers |-> ListedBuyers])
    /\ UNCHANGED <<rowVars, clock, restVars>>

(* An error is logged, and the handler goes on.                            *)
VoidPurchases(r) ==
    /\ request[r].step = "void"
    /\ \/ purchase' = [p \in Purchases |-> IF p \in Confirmed THEN "cancelled" ELSE purchase[p]]
       \/ UNCHANGED purchase
    /\ Continue(r, [request[r] EXCEPT !.step = "task"])
    /\ UNCHANGED <<event, size, clock, restVars>>

(* The NotifyBuyersCancelled task names request[r].buyers: the worker asks *)
(* nobody else, and mails them.  An error is logged.                       *)
EnqueueCancelled(r) ==
    /\ request[r].step = "task"
    /\ Answer(r)
    /\ UNCHANGED <<rowVars, clock, restVars>>

-------------------------------------------------------------------------------
(* deleteEvent; the rows below the event go with it (ON DELETE CASCADE) *)

(* purchases stay behind without their tier *)
Cascade_none(group) == purchase

Cascade(group) ==
    [p \in Purchases |->
        IF TierOf[p] \in group /\ Bought(purchase[p]) THEN "gone" ELSE purchase[p]]

DeleteBegin(r) == Begin(r, {"draft"}, [step |-> "delete"])

DeleteWrite(r) ==
    /\ request[r].step = "delete"
    /\ \A t \in Tiers : TierFree(t)
    /\ event' = [event EXCEPT !.status = "gone"]
    /\ size' = [t \in Tiers |-> 0]
    /\ purchase' = Cascade(Tiers)
    /\ Answer(r)
    /\ Overtake(r)
    /\ UNCHANGED <<clock, notices>>

-------------------------------------------------------------------------------
(* createTier and deleteTier *)

(* the new tier alone is held against the capacity *)
RoomFor_alone(q) == Fits(event.capacity, q)

RoomFor(q) == Fits(event.capacity, Inventory + q)

TierBegin(r, t, q) ==
    /\ size[t] = 0
    /\ \A s \in Requests : request[s].step = "insert_tier" => request[s].tier # t
    /\ RoomFor(q)
    /\ Begin(r, {"draft"}, [step |-> "insert_tier", tier |-> t, quantity |-> q])

(* The foreign key refuses a tier of an event that is gone. *)
TierInsert(r) ==
    /\ request[r].step = "insert_tier"
    /\ IF event.status = "gone"
       THEN UNCHANGED size
       ELSE size' = [size EXCEPT ![request[r].tier] = request[r].quantity]
    /\ Answer(r)
    /\ Overtake(r)
    /\ UNCHANGED <<event, purchase, clock, notices>>

(* deleteTier does not ask for a draft *)
TiersOpen_always == {"draft", "published"}

TiersOpen == {"draft"}

TierDeleteBegin(r, t) == Begin(r, TiersOpen, [step |-> "delete_tier", tier |-> t])

TierDelete(r) ==
    LET t == request[r].tier
    IN  /\ request[r].step = "delete_tier"
        /\ TierFree(t)
        /\ size' = [size EXCEPT ![t] = 0]
        /\ purchase' = Cascade({t})
        /\ Answer(r)
        /\ Overtake(r)
        /\ UNCHANGED <<event, clock, notices>>

-------------------------------------------------------------------------------
(* updateEvent: the payload names some fields, the statement writes all *)

UpdateBegin(r) ==
    Begin(r, {"draft", "published", "cancelled", "ended"},
          [step |-> "payload", seen |-> event])

Refused(seen, material, confirm) ==
    \/ seen.status \in {"cancelled", "ended"}
    \/ seen.status = "published" /\ material /\ ~confirm

(* the stamp is left as it was *)
Stamp_kept(seen, material) == seen.changedAt

(* A confirmed material change is stamped with the clock.                  *)
Stamp(seen, material) ==
    IF seen.status = "published" /\ material THEN {clock + 1} ELSE seen.changedAt

(* The new capacity is held against the tickets sold when it is asked for. *)
UpdateDecide(r, cap, terms, material, confirm) ==
    LET seen == request[r].seen
        new  == [capacity |-> IF cap = {} THEN seen.capacity ELSE cap,
                 terms |-> IF material THEN terms ELSE seen.terms,
                 changedAt |-> Stamp(seen, material)]
        stamped == new.changedAt # seen.changedAt
    IN  /\ IF Refused(seen, material, confirm) \/ ~Fits(cap, Cardinality(Confirmed))
           THEN Answer(r) /\ UNCHANGED clock
           ELSE /\ stamped => clock < MaxStamp
                /\ Continue(r, [step |-> "update", new |-> new, material |-> material])
                /\ clock' = IF stamped THEN clock + 1 ELSE clock
        /\ UNCHANGED <<rowVars, restVars>>

UpdatePayload(r) ==
    /\ request[r].step = "payload"
    /\ \E cap \in Caps, terms \in Terms, material, confirm \in BOOLEAN :
          UpdateDecide(r, cap, terms, material, confirm)

(* NULLIF for COALESCE: a stamp that is passed back unchanged is lost *)
Coalesce_nullif(new, old) == IF new = old THEN {} ELSE new

Coalesce(new, old) == IF new = {} THEN old ELSE new

(* The stamp is the one that the statement returns.                        *)
Notifies(material, stamps) == material /\ stamps # {}

(* UPDATE ... WHERE id: whatever became of the row's status.  An event     *)
(* that is gone is an error (RequestFail).                                 *)
UpdateWrite(r) ==
    LET req    == request[r]
        stamps == Coalesce(req.new.changedAt, event.changedAt)
    IN  /\ req.step = "update"
        /\ event.status # "gone"
        /\ event' = [event EXCEPT !.capacity = req.new.capacity,
                                  !.terms = req.new.terms,
                                  !.changedAt = stamps]
        /\ IF Notifies(req.material, stamps)
           THEN Continue(r, [step |-> "notice", stamps |-> stamps])
           ELSE Answer(r)
        /\ Overtake(r)
        /\ UNCHANGED <<size, purchase, clock, notices>>

(* An error is logged, and the handler answers that all is well.           *)
EnqueueUpdated(r) ==
    /\ request[r].step = "notice"
    /\ \/ notices' = notices \cup request[r].stamps
       \/ UNCHANGED notices
    /\ Answer(r)
    /\ UNCHANGED <<rowVars, clock, overtaken>>

(* The worker mails ListedBuyers, those who hold a ticket by now.  A task  *)
(* whose query fails, or whose worker stops, is run again from the start,  *)
(* which changes nothing here, and in the end given up.                    *)
HandleNotifyBuyersUpdated(s) ==
    /\ s \in notices
    /\ notices' = notices \ {s}
    /\ UNCHANGED <<rowVars, request, clock, overtaken>>

-------------------------------------------------------------------------------
(* What goes on meanwhile: a query fails, buyers buy and cancel, the sweep *)

RequestFail(r) ==
    /\ request[r].step \notin {"idle", "publish", "cancel", "buyers", "void", "task", "notice"}
    /\ Answer(r)
    /\ UNCHANGED <<rowVars, clock, restVars>>

Others == <<event, size, request, clock, restVars>>

(* Create locks the tier, reads the event and sells... *)
BuyBegin(p) ==
    /\ event.status = "published"
    /\ purchase[p] = "none"
    /\ TierFree(TierOf[p])
    /\ SoldOf(TierOf[p]) < size[TierOf[p]]
    /\ purchase' = [purchase EXCEPT ![p] = "asking"]
    /\ UNCHANGED Others

(* ... and commits or rolls back, whatever became of the event. *)
BuyEnd(p) ==
    /\ purchase[p] = "asking"
    /\ \E status \in {"confirmed", "none"} : purchase' = [purchase EXCEPT ![p] = status]
    /\ UNCHANGED Others

Refund(p) ==
    /\ event.status \in {"published", "cancelled"}
    /\ purchase[p] = "confirmed"
    /\ purchase' = [purchase EXCEPT ![p] = "cancelled"]
    /\ UNCHANGED Others

EndExpired ==
    /\ event.status = "published"
    /\ event' = [event EXCEPT !.status = "ended"]
    /\ UNCHANGED <<size, purchase, request, clock, restVars>>

-------------------------------------------------------------------------------
(* createEvent *)
Init ==
    /\ \E cap \in Caps, terms \in Terms :
          event = [status |-> "draft", capacity |-> cap, terms |-> terms, changedAt |-> {}]
    /\ size = [t \in Tiers |-> 0]
    /\ purchase = [p \in Purchases |-> "none"]
    /\ request = [r \in Requests |-> Idle]
    /\ clock = 0
    /\ notices = {}
    /\ overtaken = {}

Publish(r) == PublishBegin(r) \/ PublishCount(r) \/ PublishWrite(r)

Cancel(r) ==
    \/ CancelBegin(r)
    \/ CancelWrite(r)
    \/ ListBuyers(r)
    \/ VoidPurchases(r)
    \/ EnqueueCancelled(r)

EditTiers(r) ==
    \/ \E t \in Tiers, q \in Quantities : TierBegin(r, t, q)
    \/ TierInsert(r)
    \/ \E t \in Tiers : TierDeleteBegin(r, t)
    \/ TierDelete(r)

Update(r) == UpdateBegin(r) \/ UpdatePayload(r) \/ UpdateWrite(r) \/ EnqueueUpdated(r)

Next ==
    \/ \E r \in Requests : \/ Publish(r) \/ Cancel(r) \/ EditTiers(r) \/ Update(r)
                           \/ DeleteBegin(r) \/ DeleteWrite(r) \/ RequestFail(r)
    \/ \E p \in Purchases : BuyBegin(p) \/ BuyEnd(p) \/ Refund(p)
    \/ \E s \in Stamps : HandleNotifyBuyersUpdated(s)
    \/ EndExpired

Spec == Init /\ [][Next]_vars

-------------------------------------------------------------------------------
(* Safety *)

Changed == [capacity : Caps, terms : Terms, changedAt : {{}} \cup {{n} : n \in Stamps}]

RequestRecord ==
    [step : {"idle", "publish_count", "publish", "cancel", "buyers", "delete"}]
    \cup [step : {"void", "task"}, buyers : SUBSET Purchases]
    \cup [step : {"insert_tier"}, tier : Tiers, quantity : Quantities]
    \cup [step : {"delete_tier"}, tier : Tiers]
    \cup [step : {"payload"}, seen : EventRow]
    \cup [step : {"update"}, new : Changed, material : BOOLEAN]
    \cup [step : {"notice"}, stamps : SUBSET Stamps]

(* Every row has its type, and a row that is gone has nothing below it.    *)
TypeOK ==
    /\ event \in EventRow
    /\ request \in [Requests -> RequestRecord]
    /\ size \in [Tiers -> {0} \cup Quantities]
    /\ purchase \in [Purchases -> {"none", "asking", "confirmed", "cancelled", "gone"}]
    /\ clock \in 0 .. MaxStamp
    /\ notices \subseteq Stamps
    /\ overtaken \subseteq Requests
    /\ event.status = "gone" => \A t \in Tiers : size[t] = 0
    /\ \A p \in Purchases : purchase[p] \notin {"none", "gone"} => size[TierOf[p]] > 0

StatusArrows ==
    {<<"draft", "published">>, <<"draft", "cancelled">>, <<"published", "cancelled">>,
     <<"published", "ended">>}

(* An event that is not deleted leaves draft once, by being published or   *)
(* cancelled, and ends as cancelled or ended: no late write takes it back. *)
AdminLifeCycle ==
    [][event'.status \notin {event.status, "gone"} =>
           <<event.status, event'.status>> \in StatusArrows]_vars

(* What the checks of the handlers achieve however requests overlap, and   *)
(* whatever buyers and the sweep do, until a request acts on what another  *)
(* has changed since:                                                      *)
Timely == \A r \in overtaken : request'[r] = request[r]

OnSaleHasTiers == event.status = "published" => \E t \in Tiers : size[t] > 0

(* An event on sale has a tier to sell: no timely request leaves one       *)
(* without.                                                                *)
PublishedHasTiers == [][Timely /\ OnSaleHasTiers => OnSaleHasTiers']_vars

(* The stamps that a request carries are past.                             *)
CarriesPast(q) ==
    /\ q.step = "payload" => \A s \in q.seen.changedAt : s <= clock
    /\ q.step = "update" => \A s \in q.new.changedAt : s <= clock

(* What a request that is not overtaken has read still holds, but for the  *)
(* end of the event.                                                       *)
ReadStillHolds(q) ==
    /\ q.step \in {"publish_count", "publish", "delete", "insert_tier", "delete_tier"} =>
           event.status = "draft"
    /\ q.step = "publish" => \E t \in Tiers : size[t] > 0
    /\ q.step = "payload" =>
           /\ q.seen.terms = event.terms /\ q.seen.changedAt = event.changedAt
           /\ event.status = "published" => q.seen.status = "published"
    /\ q.step = "update" =>
           /\ event.status = "published" /\ q.new.terms # event.terms =>
                 q.new.changedAt \notin {{}, event.changedAt}
           /\ \A s \in event.changedAt, n \in q.new.changedAt : n >= s

(* Inductive.                                                              *)
AdminInv ==
    /\ TypeOK
    /\ event.status = "draft" => \A p \in Purchases : purchase[p] = "none"
    /\ \A s \in event.changedAt : s <= clock
    /\ \A r \in Requests : CarriesPast(request[r])
    /\ \A r \in Requests \ overtaken : ReadStillHolds(request[r])

(* Inductive together with AdminInv: the room that createTier has found    *)
(* for a tier is there until it inserts the tier.                          *)
RoomHeld ==
    \A r \in Requests \ overtaken : request[r].step = "insert_tier" =>
        /\ size[request[r].tier] = 0
        /\ Fits(event.capacity, Inventory + request[r].quantity)

(* No purchase vanishes with a tier or an event that is deleted.           *)
PurchasesSurvive ==
    [][Timely => \A p \in Purchases : Bought(purchase[p]) => Bought(purchase'[p])]_vars

(* The tiers of an event on sale are neither added to nor deleted.         *)
TiersAreFrozen ==
    [][Timely /\ event.status = "published" =>
           \A t \in Tiers : size[t] > 0 <=> size'[t] > 0]_vars

(* Adding tiers does not overfill the event: only a change of the capacity *)
(* takes it below the tiers.                                               *)
TiersRespectCapacity ==
    [][/\ Timely
       /\ event'.capacity = event.capacity
       /\ Fits(event.capacity, Inventory)
       => Fits(event.capacity, Inventory')]_vars

(* Who changes the terms of an event on sale opens the grace window: the   *)
(* change comes with a new stamp.                                          *)
ChangesAreStamped ==
    [][Timely /\ event.status = "published" /\ event'.terms # event.terms =>
           event'.changedAt # event.changedAt]_vars

(* The stamp of the last material change is never lost or set back.        *)
StampsAdvance ==
    [][Timely => \A s \in event.changedAt : \E n \in event'.changedAt : n >= s]_vars

-------------------------------------------------------------------------------
(* What PLAN.md and the comments say and the code does not keep            *)

(* Only drafts are deleted, and only their tiers: no row of a purchase     *)
(* vanishes, however requests overlap.                                     *)
NoPurchaseIsDeleted ==
    [][\A p \in Purchases : Bought(purchase[p]) => Bought(purchase'[p])]_vars

(* The tiers of an event fit its capacity.                                 *)
InventoryFits == Fits(event.capacity, Inventory)

(* An event that is cancelled or over is not changed any more.             *)
OverIsFrozen ==
    [][event.status \in {"cancelled", "ended"} =>
           event'.terms = event.terms /\ event'.capacity = event.capacity]_vars

(* A transition that is no longer allowed is answered with an error.  The  *)
(* store returns a nil event then, and the error path reads its id.        *)
ConflictsAreAnswered ==
    [][\A r \in Requests :
          request[r].step \in {"publish", "cancel"} /\ request'[r] # request[r] =>
              event'.status # event.status]_vars

(* The buyers whose purchases the cancellation of the event flips are      *)
(* named in the task that mails them.                                      *)
VoidedBuyersAreTold ==
    [][\A r \in Requests :
          request[r].step = "void" /\ request'[r] # request[r] =>
              Confirmed \ Confirmed' \subseteq request[r].buyers]_vars

(* The task of a material change finds those who hold a ticket when it is  *)
(* done.                                                                   *)
NoticesFindBuyers ==
    [][notices' \subseteq notices /\ notices' # notices => ListedBuyers = Confirmed]_vars

===============================================================================
