------------------------------ MODULE Purchasing ------------------------------
(***************************************************************************)
(* Selling, refunding, voiding and scanning tickets: the transactions of   *)
(* internal/store/purchases.go and tickets.go and the handlers that run    *)
(* them, over committed rows of PostgreSQL at READ COMMITTED.              *)
(*                                                                         *)
(* A connection of the pool runs one handler at a time, one SQL statement  *)
(* per step.  A row lock lasts until the transaction ends, so what a       *)
(* connection has locked is a function of the step it has reached; what it *)
(* has written becomes visible to the others in its commit step, and       *)
(* because the rows it writes are locked from the write to the commit, the *)
(* commit may compute the new values from the committed ones.              *)
(***************************************************************************)
EXTENDS CancellationPolicy, FiniteSets

CONSTANTS
    Conns,          \* connections of pgxpool, one handler call each
    Events, Tiers,
    Purchases,      \* purchase ids: each call of createPurchase mints one
    Tickets,        \* ticket ids, minted with the purchase
    EventOf,        \* ticket_tiers.event_id
    TierOf,         \* purchases.tier_id
    TicketsOf,      \* the tickets minted for a purchase, one per unit
    Capacity,       \* ticket_tiers.quantity when the sale opens
    Rules,          \* the event's rules, EventRules above
    MaxNow,         \* bound on the clock
    Nothing         \* what a connection works on when it is idle

Times == 0 .. MaxNow

ASSUME RowsAssumption ==
    /\ EventOf \in [Tiers -> Events]
    /\ TierOf \in [Purchases -> Tiers]
    /\ TicketsOf \in [Purchases -> SUBSET Tickets]
    /\ \A p \in Purchases : TicketsOf[p] # {}
    /\ \A p, q \in Purchases : p # q => TicketsOf[p] \cap TicketsOf[q] = {}
    /\ \A k \in Tickets : \E p \in Purchases : k \in TicketsOf[p]
    /\ Capacity \in [Tiers -> Nat \ {0}]
    /\ Rules \in [Events -> EventRules]
    /\ IsFiniteSet(Tickets)
    /\ MaxNow \in Nat

VARIABLES
    now,            \* the clock, in hours
    eventStatus,    \* events.status
    quantity,       \* ticket_tiers.quantity
    remaining,      \* ticket_tiers.remaining
    tierStatus,     \* ticket_tiers.status
    purchase,       \* purchases.status, "none" before the row is committed
    ticket,         \* tickets.status, "none" before the row is committed
    admitted,       \* how often the door let a ticket in (committed check-ins)
    promotions,     \* NotifyNextWaiting tasks enqueued for a tier
    pc,             \* the step a connection has reached
    work,           \* the purchase, event or ticket it works on
    wasSoldOut,     \* the local of that name in PurchasesStore.Cancel
    todo,           \* rows a multi-row UPDATE has still to visit, by purchase
    flipped,        \* purchases CancelByEvent has flipped, not committed yet
    voided          \* purchases whose tickets CancelByEvent has flipped

saleVars  == <<quantity, remaining, tierStatus>>
rowVars   == <<eventStatus, saleVars, purchase, ticket, admitted, promotions>>
localVars == <<wasSoldOut, todo, flipped, voided>>
connVars  == <<pc, work, localVars>>
vars      == <<now, rowVars, connVars>>

-------------------------------------------------------------------------------
(* Tiers, events and quantities of a purchase *)

Quantity(p) == Cardinality(TicketsOf[p])
EventOfPurchase(p) == EventOf[TierOf[p]]
TiersOf(e) == {t \in Tiers : EventOf[t] = e}
PurchasesOf(e) == {p \in Purchases : EventOfPurchase(p) = e}

OnSale == {"published", "sold_out"}

(* Steps of the handlers.  buy: createPurchase; can: cancelPurchase;       *)
(* void: CancelByEvent in cancelEvent; scan: checkIn.  A step named after  *)
(* a row waits for that row, a step named commit_flip has also flipped the *)
(* event's row.                                                            *)
BuyLocked  == {"buy_rules", "buy_stock", "buy_event", "buy_commit", "buy_commit_flip"}
CanRestored == {"can_event", "can_commit", "can_commit_flip"}
CanFlipped == CanRestored \cup {"can_tier"}
CanLocked  == CanFlipped \cup {"can_rules", "can_tickets"}
Buying     == BuyLocked \cup {"buy_tier"}
Cancelling == CanLocked \cup {"can_purchase"}
Voiding    == {"void_begin", "void_purchases", "void_tickets"}
Steps      == Buying \cup Cancelling \cup Voiding \cup {"idle", "enqueue", "scan"}
InTransaction == Buying \cup Cancelling \cup Voiding \cup {"scan"}

(* Row locks, as a function of the step *)

HoldsTier(c, t) ==
    pc[c] \in BuyLocked \cup CanRestored /\ TierOf[work[c]] = t

HoldsPurchase(c, p) ==
    \/ pc[c] \in CanLocked /\ work[c] = p
    \/ pc[c] \in Voiding /\ p \in flipped[c]

(* the scanner reads its ticket without FOR UPDATE *)
HoldsTicket_unlockedScan(c, k) ==
    \/ pc[c] \in CanFlipped /\ k \in TicketsOf[work[c]]
    \/ pc[c] \in Voiding /\ \E p \in voided[c] : k \in TicketsOf[p]

HoldsTicket(c, k) ==
    \/ pc[c] \in CanFlipped /\ k \in TicketsOf[work[c]]
    \/ pc[c] \in Voiding /\ \E p \in voided[c] : k \in TicketsOf[p]
    \/ pc[c] = "scan" /\ work[c] = k

(* Cancel reads its rules FOR UPDATE, and so locks the event before the tier *)
HoldsEvent_lockedRules(c, e) ==
    /\ pc[c] \in {"can_tickets", "can_tier", "buy_commit_flip", "can_commit_flip"}
    /\ EventOfPurchase(work[c]) = e

HoldsEvent(c, e) ==
    pc[c] \in {"buy_commit_flip", "can_commit_flip"} /\ EventOfPurchase(work[c]) = e

TierFree(t) == \A c \in Conns : ~HoldsTier(c, t)
PurchaseFree(p) == \A c \in Conns : ~HoldsPurchase(c, p)
TicketFree(k) == \A c \in Conns : ~HoldsTicket(c, k)
TicketsFree(p) == \A k \in TicketsOf[p] : TicketFree(k)
EventFree(e) == \A c \in Conns : ~HoldsEvent(c, e)

(* Control of a connection *)

Goto(c, s) == pc' = [pc EXCEPT ![c] = s]

Start(c, s, w) ==
    /\ pc[c] = "idle"
    /\ Goto(c, s)
    /\ work' = [work EXCEPT ![c] = w]
    /\ UNCHANGED localVars

Step(c, from, to) ==
    /\ pc[c] = from
    /\ Goto(c, to)
    /\ UNCHANGED work

Finish(c) ==
    /\ Goto(c, "idle")
    /\ work' = [work EXCEPT ![c] = Nothing]
    /\ wasSoldOut' = [wasSoldOut EXCEPT ![c] = FALSE]
    /\ todo' = [todo EXCEPT ![c] = {}]
    /\ flipped' = [flipped EXCEPT ![c] = {}]
    /\ voided' = [voided EXCEPT ![c] = {}]

(* A handler returns an error before it wrote anything, or rolls back. *)
Reject(c, from) == pc[c] = from /\ Finish(c) /\ UNCHANGED <<now, rowVars>>

-------------------------------------------------------------------------------
(* createPurchase and PurchasesStore.Create *)

BuyBegin(c, p) ==
    /\ purchase[p] = "none"
    /\ \A d \in Conns : ~(pc[d] \in Buying /\ work[d] = p)
    /\ eventStatus[EventOfPurchase(p)] = "published"
    /\ Start(c, "buy_tier", p)
    /\ UNCHANGED <<now, rowVars>>

BuyLockTier(c) ==
    /\ Step(c, "buy_tier", "buy_rules")
    /\ TierFree(TierOf[work[c]])
    /\ UNCHANGED <<now, rowVars, localVars>>

(* the refusals without the comparison with remaining *)
MayBuy_anyQuantity(p) ==
    LET t == TierOf[p]
        e == EventOf[t]
    IN  /\ eventStatus[e] = "published"
        /\ Quantity(p) <= Rules[e].maxPer
        /\ tierStatus[t] = "available"

(* The three refusals of the switch. *)
MayBuy(p) ==
    LET t == TierOf[p]
        e == EventOf[t]
    IN  /\ eventStatus[e] = "published"
        /\ Quantity(p) <= Rules[e].maxPer
        /\ tierStatus[t] = "available"
        /\ remaining[t] >= Quantity(p)

BuyLoadRules(c) ==
    \/ /\ Step(c, "buy_rules", "buy_stock")
       /\ MayBuy(work[c])
       /\ UNCHANGED <<now, rowVars, localVars>>
    \/ /\ Reject(c, "buy_rules")
       /\ ~MayBuy(work[c])

(* the stock is counted before the decrement *)
AnyStockLeft_beforeSale(p) ==
    \E t \in TiersOf(EventOfPurchase(p)) : remaining[t] > 0

(* anyStockLeft: the transaction sees its own decrement, and only what is  *)
(* committed of the other tiers.                                           *)
AnyStockLeft(p) ==
    \E t \in TiersOf(EventOfPurchase(p)) :
        remaining[t] > (IF t = TierOf[p] THEN Quantity(p) ELSE 0)

BuyCheckStock(c) ==
    /\ pc[c] = "buy_stock"
    /\ Goto(c, IF AnyStockLeft(work[c]) THEN "buy_commit" ELSE "buy_event")
    /\ UNCHANGED work
    /\ UNCHANGED <<now, rowVars, localVars>>

(* UPDATE events ... WHERE status = 'published': a row that does not match *)
(* as committed is skipped, a locked row that does is waited for.          *)
SellsOut(e) == eventStatus[e] = "published"

BuyFlipEvent(c) ==
    LET e == EventOfPurchase(work[c])
    IN  /\ \/ /\ Step(c, "buy_event", "buy_commit_flip")
              /\ SellsOut(e)
              /\ EventFree(e)
           \/ /\ Step(c, "buy_event", "buy_commit")
              /\ ~SellsOut(e)
        /\ UNCHANGED <<now, rowVars, localVars>>

(* the CASE of decrementTier left out *)
TierStatusAfterSale_available(left) == "available"

TierStatusAfterSale(left) == IF left = 0 THEN "sold_out" ELSE "available"

SellTier(t, n) ==
    /\ remaining' = [remaining EXCEPT ![t] = @ - n]
    /\ tierStatus' = [tierStatus EXCEPT ![t] = TierStatusAfterSale(remaining[t] - n)]
    /\ UNCHANGED quantity

(* flipTickets leaves the tickets alone that were used *)
SetTickets_keepUsed(S, s) ==
    ticket' = [k \in Tickets |-> IF ticket[k] # "used" /\ \E p \in S : k \in TicketsOf[p]
                                 THEN s ELSE ticket[k]]

SetTickets(S, s) ==
    ticket' = [k \in Tickets |-> IF \E p \in S : k \in TicketsOf[p] THEN s ELSE ticket[k]]

BuyCommit(c) ==
    LET p == work[c]
    IN  /\ pc[c] \in {"buy_commit", "buy_commit_flip"}
        /\ SellTier(TierOf[p], Quantity(p))
        /\ purchase' = [purchase EXCEPT ![p] = "confirmed"]
        /\ SetTickets({p}, "unused")
        /\ eventStatus' = IF pc[c] = "buy_commit_flip"
                          THEN [eventStatus EXCEPT ![EventOfPurchase(p)] = "sold_out"]
                          ELSE eventStatus
        /\ Finish(c)
        /\ UNCHANGED <<now, admitted, promotions>>

-------------------------------------------------------------------------------
(* cancelPurchase and PurchasesStore.Cancel *)

CancelBegin(c, p) ==
    /\ purchase[p] # "none"
    /\ Start(c, "can_purchase", p)
    /\ UNCHANGED <<now, rowVars>>

(* no ErrAlreadyCancelled *)
MayRefund_always(p) == purchase[p] # "none"

MayRefund(p) == purchase[p] = "confirmed"

CancelLockPurchase(c) ==
    /\ pc[c] = "can_purchase"
    /\ PurchaseFree(work[c])
    /\ \/ /\ MayRefund(work[c])
          /\ Step(c, "can_purchase", "can_rules")
          /\ UNCHANGED <<now, rowVars, localVars>>
       \/ /\ ~MayRefund(work[c])
          /\ Reject(c, "can_purchase")

(* The tier and the event are read without a lock; the clock is read once. *)
CancelLoadRules(c) ==
    LET t == TierOf[work[c]]
        r == Rules[EventOf[t]]
    IN  \/ /\ Step(c, "can_rules", "can_tickets")
           /\ MayCancel(now, r)
           /\ wasSoldOut' = [wasSoldOut EXCEPT ![c] = tierStatus[t] = "sold_out"]
           /\ UNCHANGED <<now, rowVars, todo, flipped, voided>>
        \/ /\ Reject(c, "can_rules")
           /\ ~MayCancel(now, r)

CancelFlipTickets(c) ==
    /\ Step(c, "can_tickets", "can_tier")
    /\ TicketsFree(work[c])
    /\ UNCHANGED <<now, rowVars, localVars>>

(* no CHECK on the table *)
FitsTier_unchecked(t, n) == TRUE

(* CHECK (remaining >= 0 AND remaining <= quantity): a refund that does    *)
(* not fit is rolled back.  It always fits unless an edit (TierEdits) has  *)
(* shrunk the tier behind the refund's back.                               *)
FitsTier(t, n) == remaining[t] + n <= quantity[t]

CancelRestoreTier(c) ==
    LET p == work[c]
    IN  /\ pc[c] = "can_tier"
        /\ TierFree(TierOf[p])
        /\ \/ /\ FitsTier(TierOf[p], Quantity(p))
              /\ Step(c, "can_tier", "can_event")
              /\ UNCHANGED <<now, rowVars, localVars>>
           \/ /\ ~FitsTier(TierOf[p], Quantity(p))
              /\ Reject(c, "can_tier")

(* flipEventStatus without AND status = 'sold_out' *)
Reopens_always(e) == eventStatus[e] # "published"

Reopens(e) == eventStatus[e] = "sold_out"

CancelFlipEvent(c) ==
    LET e == EventOfPurchase(work[c])
    IN  /\ \/ /\ Step(c, "can_event", "can_commit_flip")
              /\ Reopens(e)
              /\ EventFree(e)
           \/ /\ Step(c, "can_event", "can_commit")
              /\ ~Reopens(e)
        /\ UNCHANGED <<now, rowVars, localVars>>

(* only the status is restored *)
RestockTier_statusOnly(t, n) ==
    /\ tierStatus' = [tierStatus EXCEPT ![t] = "available"]
    /\ UNCHANGED <<quantity, remaining>>

RestockTier(t, n) ==
    /\ remaining' = [remaining EXCEPT ![t] = @ + n]
    /\ tierStatus' = [tierStatus EXCEPT ![t] = "available"]
    /\ UNCHANGED quantity

CancelCommit(c) ==
    LET p == work[c]
    IN  /\ pc[c] \in {"can_commit", "can_commit_flip"}
        /\ RestockTier(TierOf[p], Quantity(p))
        /\ purchase' = [purchase EXCEPT ![p] = "cancelled"]
        /\ SetTickets({p}, "cancelled")
        /\ eventStatus' = IF pc[c] = "can_commit_flip"
                          THEN [eventStatus EXCEPT ![EventOfPurchase(p)] = "published"]
                          ELSE eventStatus
        /\ IF wasSoldOut[c]
           THEN Goto(c, "enqueue") /\ UNCHANGED <<work, localVars>>
           ELSE Finish(c)
        /\ UNCHANGED <<now, admitted, promotions>>

(* The handler enqueues NotifyWaitlistEntry; a failure is only logged. *)
Enqueue(c) ==
    /\ pc[c] = "enqueue"
    /\ \/ promotions' = [promotions EXCEPT ![TierOf[work[c]]] = @ + 1]
       \/ UNCHANGED promotions
    /\ Finish(c)
    /\ UNCHANGED <<now, eventStatus, saleVars, purchase, ticket, admitted>>

-------------------------------------------------------------------------------
(* cancelEvent: EventsStore.Cancel, then PurchasesStore.CancelByEvent *)

CancelEvent(c, e) ==
    /\ eventStatus[e] \in OnSale
    /\ EventFree(e)
    /\ eventStatus' = [eventStatus EXCEPT ![e] = "cancelled"]
    /\ Start(c, "void_begin", e)
    /\ UNCHANGED <<now, saleVars, purchase, ticket, admitted, promotions>>

(* The statement's snapshot decides which purchases it visits. *)
VoidBegin(c) ==
    /\ Step(c, "void_begin", "void_purchases")
    /\ todo' = [todo EXCEPT ![c] = {p \in PurchasesOf(work[c]) : purchase[p] = "confirmed"}]
    /\ UNCHANGED <<now, rowVars, wasSoldOut, flipped, voided>>

(* A locked row is waited for and its status read again. *)
VoidPurchase(c, p) ==
    /\ pc[c] = "void_purchases"
    /\ p \in todo[c]
    /\ PurchaseFree(p)
    /\ todo' = [todo EXCEPT ![c] = @ \ {p}]
    /\ flipped' = [flipped EXCEPT ![c] = IF purchase[p] = "confirmed" THEN @ \cup {p} ELSE @]
    /\ UNCHANGED <<now, rowVars, pc, work, wasSoldOut, voided>>

(* flipTickets selects unused tickets only *)
HasLiveTicket_unused(p) == \E k \in TicketsOf[p] : ticket[k] = "unused"

(* tickets of the purchase that the WHERE of flipTickets selects *)
HasLiveTicket(p) == \E k \in TicketsOf[p] : ticket[k] \in {"unused", "used"}

(* The second statement has its own snapshot: every purchase of the event. *)
VoidBeginTickets(c) ==
    /\ todo[c] = {}
    /\ Step(c, "void_purchases", "void_tickets")
    /\ todo' = [todo EXCEPT ![c] = {p \in PurchasesOf(work[c]) : HasLiveTicket(p)}]
    /\ UNCHANGED <<now, rowVars, wasSoldOut, flipped, voided>>

VoidTickets(c, p) ==
    /\ pc[c] = "void_tickets"
    /\ p \in todo[c]
    /\ TicketsFree(p)
    /\ todo' = [todo EXCEPT ![c] = @ \ {p}]
    /\ voided' = [voided EXCEPT ![c] = @ \cup {p}]
    /\ UNCHANGED <<now, rowVars, pc, work, wasSoldOut, flipped>>

VoidCommit(c) ==
    /\ pc[c] = "void_tickets"
    /\ todo[c] = {}
    /\ purchase' = [p \in Purchases |-> IF p \in flipped[c] THEN "cancelled" ELSE purchase[p]]
    /\ SetTickets(voided[c], "cancelled")
    /\ Finish(c)
    /\ UNCHANGED <<now, eventStatus, saleVars, admitted, promotions>>

-------------------------------------------------------------------------------
(* TicketsStore.CheckIn, the periodic job and the environment *)

(* no ErrTicketCancelled *)
MayEnter_cancelled(k) == ticket[k] \in {"unused", "cancelled"}

(* The door is the one of the ticket's event; the refusals write nothing. *)
MayEnter(k) == ticket[k] = "unused"

CheckInLock(c, k) ==
    /\ TicketFree(k)
    /\ MayEnter(k)
    /\ Start(c, "scan", k)
    /\ UNCHANGED <<now, rowVars>>

CheckInCommit(c) ==
    /\ pc[c] = "scan"
    /\ ticket' = [ticket EXCEPT ![work[c]] = "used"]
    /\ admitted' = [admitted EXCEPT ![work[c]] = @ + 1]
    /\ Finish(c)
    /\ UNCHANGED <<now, eventStatus, saleVars, purchase, promotions>>

(* EventsStore.EndAllExpired *)
EndExpired(e) ==
    /\ eventStatus[e] \in OnSale
    /\ now > Rules[e].endsAt
    /\ EventFree(e)
    /\ eventStatus' = [eventStatus EXCEPT ![e] = "ended"]
    /\ UNCHANGED <<now, saleVars, purchase, ticket, admitted, promotions, connVars>>

(* The 5 second timeout, a lost connection, a crash: nothing is written. *)
Abort(c) ==
    /\ pc[c] \in InTransaction
    /\ Finish(c)
    /\ UNCHANGED <<now, rowVars>>

Tick ==
    /\ now < MaxNow
    /\ now' = now + 1
    /\ UNCHANGED <<rowVars, connVars>>

-------------------------------------------------------------------------------
Init ==
    /\ now = 0
    /\ eventStatus = [e \in Events |-> "published"]
    /\ quantity = Capacity
    /\ remaining = Capacity
    /\ tierStatus = [t \in Tiers |-> "available"]
    /\ purchase = [p \in Purchases |-> "none"]
    /\ ticket = [k \in Tickets |-> "none"]
    /\ admitted = [k \in Tickets |-> 0]
    /\ promotions = [t \in Tiers |-> 0]
    /\ pc = [c \in Conns |-> "idle"]
    /\ work = [c \in Conns |-> Nothing]
    /\ wasSoldOut = [c \in Conns |-> FALSE]
    /\ todo = [c \in Conns |-> {}]
    /\ flipped = [c \in Conns |-> {}]
    /\ voided = [c \in Conns |-> {}]

Buy(c) ==
    \/ \E p \in Purchases : BuyBegin(c, p)
    \/ BuyLockTier(c)
    \/ BuyLoadRules(c)
    \/ BuyCheckStock(c)
    \/ BuyFlipEvent(c)
    \/ BuyCommit(c)

Cancel(c) ==
    \/ \E p \in Purchases : CancelBegin(c, p)
    \/ CancelLockPurchase(c)
    \/ CancelLoadRules(c)
    \/ CancelFlipTickets(c)
    \/ CancelRestoreTier(c)
    \/ CancelFlipEvent(c)
    \/ CancelCommit(c)
    \/ Enqueue(c)

Void(c) ==
    \/ \E e \in Events : CancelEvent(c, e)
    \/ VoidBegin(c)
    \/ \E p \in Purchases : VoidPurchase(c, p)
    \/ VoidBeginTickets(c)
    \/ \E p \in Purchases : VoidTickets(c, p)
    \/ VoidCommit(c)

CheckIn(c) ==
    \/ \E k \in Tickets : CheckInLock(c, k)
    \/ CheckInCommit(c)

Next ==
    \/ \E c \in Conns : Buy(c) \/ Cancel(c) \/ Void(c) \/ CheckIn(c) \/ Abort(c)
    \/ \E e \in Events : EndExpired(e)
    \/ Tick

Spec == Init /\ [][Next]_vars

-------------------------------------------------------------------------------
(* Safety *)

LiveTickets(t) ==
    {k \in Tickets : /\ ticket[k] \in {"unused", "used"}
                     /\ \E p \in Purchases : TierOf[p] = t /\ k \in TicketsOf[p]}

SoldTickets(t) ==
    {k \in Tickets : \E p \in Purchases :
                         TierOf[p] = t /\ purchase[p] = "confirmed" /\ k \in TicketsOf[p]}

(* Every variable has its type: rows hold values of their columns' enums,  *)
(* and a connection works on what its step works on.                       *)
TypeOK ==
    /\ now \in Times
    /\ eventStatus \in [Events -> {"published", "sold_out", "cancelled", "ended"}]
    /\ quantity \in [Tiers -> Nat \ {0}]
    /\ remaining \in [Tiers -> Nat]
    /\ tierStatus \in [Tiers -> {"available", "sold_out"}]
    /\ purchase \in [Purchases -> {"none", "confirmed", "cancelled"}]
    /\ ticket \in [Tickets -> {"none", "unused", "used", "cancelled"}]
    /\ admitted \in [Tickets -> Nat]
    /\ promotions \in [Tiers -> Nat]
    /\ pc \in [Conns -> Steps]
    /\ work \in [Conns -> Purchases \cup Events \cup Tickets \cup {Nothing}]
    /\ wasSoldOut \in [Conns -> BOOLEAN]
    /\ todo \in [Conns -> SUBSET Purchases]
    /\ flipped \in [Conns -> SUBSET Purchases]
    /\ voided \in [Conns -> SUBSET Purchases]
    /\ \A c \in Conns :
          /\ pc[c] \in Buying \cup Cancelling \cup {"enqueue"} => work[c] \in Purchases
          /\ pc[c] \in Voiding => work[c] \in Events
          /\ pc[c] = "scan" => work[c] \in Tickets

(* What a tier has left and what it has sold make up its capacity, as long *)
(* as its event is not cancelled: CancelByEvent restores no inventory, so  *)
(* from then on the sum may only be smaller.                               *)
Conservation ==
    \A t \in Tiers :
        LET held == remaining[t] + Cardinality(SoldTickets(t))
        IN  /\ held <= quantity[t]
            /\ eventStatus[EventOf[t]] # "cancelled" => held = quantity[t]

(* No more tickets of a tier are valid than the tier has places.           *)
NoOversell == \A t \in Tiers : Cardinality(LiveTickets(t)) <= quantity[t]

(* A tier says sold_out exactly when nothing is left of it.                *)
TierStatusAgrees ==
    \A t \in Tiers : tierStatus[t] = "sold_out" <=> remaining[t] = 0

(* A cancelled purchase has no valid ticket, whether its buyer cancelled   *)
(* it or its event was cancelled, and whoever scanned meanwhile.           *)
RefundedIsWhole ==
    \A p \in Purchases : \A k \in TicketsOf[p] :
        /\ purchase[p] = "cancelled" => ticket[k] = "cancelled"
        /\ purchase[p] = "none" => ticket[k] = "none"

(* An event with one tier is sold_out exactly when that tier is.           *)
SoleTierEventStatus ==
    \A t \in Tiers :
        LET e == EventOf[t]
        IN  TiersOf(e) = {t} =>
                /\ eventStatus[e] = "published" => remaining[t] > 0
                /\ eventStatus[e] = "sold_out" => remaining[t] = 0

(* No ticket lets two people in, however many scanners read it.            *)
AdmittedOnce == \A k \in Tickets : admitted[k] <= 1

(* Connection c waits for a row that d has locked.                         *)
WaitsFor(c, d) ==
    \/ pc[c] \in {"buy_tier", "can_tier"} /\ HoldsTier(d, TierOf[work[c]])
    \/ pc[c] = "can_purchase" /\ HoldsPurchase(d, work[c])
    \/ pc[c] = "can_tickets" /\ \E k \in TicketsOf[work[c]] : HoldsTicket(d, k)
    \/ /\ \/ pc[c] = "buy_event" /\ SellsOut(EventOfPurchase(work[c]))
          \/ pc[c] = "can_event" /\ Reopens(EventOfPurchase(work[c]))
       /\ HoldsEvent(d, EventOfPurchase(work[c]))
    \/ pc[c] = "void_purchases" /\ \E p \in todo[c] : HoldsPurchase(d, p)
    \/ pc[c] = "void_tickets" /\ \E p \in todo[c] : \E k \in TicketsOf[p] : HoldsTicket(d, k)

(* No transactions wait for each other in a circle: rows are locked in the *)
(* order purchase, tickets, tier, event.                                   *)
NoWaitCycle ==
    ~ \E S \in SUBSET Conns : S # {} /\ \A c \in S : \E d \in S : WaitsFor(c, d)

-------------------------------------------------------------------------------
(* The inductive invariant: what a transaction in flight may count on.     *)

(* A row has one owner. *)
LockInv ==
    \A c, d \in Conns : c # d =>
        /\ \A t \in Tiers : ~(HoldsTier(c, t) /\ HoldsTier(d, t))
        /\ \A p \in Purchases : ~(HoldsPurchase(c, p) /\ HoldsPurchase(d, p))
        /\ \A k \in Tickets : ~(HoldsTicket(c, k) /\ HoldsTicket(d, k))
        /\ \A e \in Events : ~(HoldsEvent(c, e) /\ HoldsEvent(d, e))

(* What Create has checked under the tier's lock still holds. *)
BuyInv ==
    \A c \in Conns :
        /\ pc[c] \in Buying => purchase[work[c]] = "none"
        /\ pc[c] \in BuyLocked \ {"buy_rules"} =>
              remaining[TierOf[work[c]]] >= Quantity(work[c])
        /\ pc[c] = "buy_commit_flip" => eventStatus[EventOfPurchase(work[c])] = "published"
        /\ \A d \in Conns :
              pc[c] \in Buying /\ pc[d] \in Buying /\ work[c] = work[d] => c = d

(* What Cancel has checked under the purchase's lock still holds. *)
CancelInv ==
    \A c \in Conns :
        /\ pc[c] \in CanLocked => purchase[work[c]] = "confirmed"
        /\ pc[c] = "can_commit_flip" => eventStatus[EventOfPurchase(work[c])] = "sold_out"

(* CancelByEvent works on a cancelled event, owns what it flips and leaves *)
(* no valid ticket behind for a purchase it has flipped.                   *)
VoidInv ==
    \A c \in Conns :
        /\ pc[c] \in Voiding => eventStatus[work[c]] = "cancelled"
        /\ \A p \in todo[c] \cup flipped[c] \cup voided[c] : EventOfPurchase(p) = work[c]
        /\ \A p \in flipped[c] : purchase[p] = "confirmed"
        /\ \A p \in todo[c] \cup voided[c] : purchase[p] # "none"
        /\ pc[c] \notin {"void_purchases", "void_tickets"} => todo[c] = {} /\ flipped[c] = {}
        /\ pc[c] = "void_purchases" => todo[c] \cap flipped[c] = {}
        /\ pc[c] # "void_tickets" => voided[c] = {}
        /\ todo[c] \cap voided[c] = {}
        /\ pc[c] = "void_tickets" =>
              \A p \in flipped[c] : \/ p \in todo[c] \cup voided[c]
                                    \/ \A k \in TicketsOf[p] : ticket[k] = "cancelled"
        /\ \A d \in Conns :
              pc[c] \in Voiding /\ pc[d] \in Voiding /\ work[c] = work[d] => c = d

(* Tickets follow their purchase, and a scanner's ticket is unused. *)
TicketInv ==
    /\ RefundedIsWhole
    /\ \A p \in Purchases : \A k \in TicketsOf[p] :
           purchase[p] = "confirmed" => ticket[k] # "none"
    /\ \A c \in Conns : pc[c] = "scan" => ticket[work[c]] = "unused"
    /\ \A k \in Tickets :
           admitted[k] <= 1 /\ (admitted[k] = 1 => ticket[k] \in {"used", "cancelled"})

(* A sale of an event's only tier knows what it will leave, and a refund   *)
(* what it found, of a status that nobody takes back meanwhile: whoever    *)
(* sells the event out or reopens it holds the tier.                       *)
KnowsStatus(c) ==
    LET t == TierOf[work[c]]
        e == EventOf[t]
    IN  pc[c] \in Buying \cup Cancelling /\ TiersOf(e) = {t} =>
            /\ pc[c] \in {"buy_event", "buy_commit_flip"} => remaining[t] = Quantity(work[c])
            /\ pc[c] = "buy_commit" =>
                   remaining[t] > Quantity(work[c]) \/ eventStatus[e] \notin OnSale
            /\ pc[c] = "can_commit" => eventStatus[e] # "sold_out"

SoleTierInv == SoleTierEventStatus /\ \A c \in Conns : KnowsStatus(c)

(* What holds even while tiers are edited (TierEdits)...                   *)
CoreInv ==
    /\ TypeOK
    /\ LockInv
    /\ BuyInv
    /\ CancelInv
    /\ VoidInv
    /\ TicketInv

(* ... and what the sale alone keeps as well.                              *)
IInv == CoreInv /\ Conservation /\ SoleTierInv

-------------------------------------------------------------------------------
(* What a step may never do *)

EventArrows ==
    {<<"published", "sold_out">>, <<"sold_out", "published">>}
        \cup (OnSale \X {"cancelled", "ended"})

(* An event's status moves along the arrows of its life cycle only: a      *)
(* transaction that was under way when the event was cancelled or ended    *)
(* never reopens it.                                                       *)
EventLifeCycle ==
    [][\A e \in Events : eventStatus'[e] # eventStatus[e] =>
           <<eventStatus[e], eventStatus'[e]>> \in EventArrows]_vars

(* A cancelled ticket stays cancelled and a used one is never unused again.*)
TicketLifeCycle ==
    [][\A k \in Tickets :
           /\ ticket[k] = "cancelled" => ticket'[k] = "cancelled"
           /\ ticket[k] = "used" => ticket'[k] \in {"used", "cancelled"}]_vars

-------------------------------------------------------------------------------
(* The abstract specification, seen through the committed rows *)

Box == INSTANCE BoxOffice WITH
           Places   <- [p \in Purchases |-> Quantity(p)],
           stock    <- remaining,
           standing <- {p \in Purchases : purchase[p] = "confirmed"},
           closed   <- {p \in Purchases : purchase[p] = "cancelled"},
           inside   <- {k \in Tickets : admitted[k] > 0}

(* Handlers that interleave statement by statement look, row by committed  *)
(* row, like the single steps of the box office.                           *)
ImplementsBoxOffice == Box!BoxSpec

-------------------------------------------------------------------------------
(* Liveness *)

(* A handler that has begun goes on: goroutines are scheduled, and         *)
(* PostgreSQL grants a row lock in the order of its requests.              *)
Progress(c) ==
    /\ pc[c] # "idle"
    /\ Buy(c) \/ Cancel(c) \/ Void(c) \/ CheckIn(c)

FairSpec == Spec /\ \A c \in Conns : SF_vars(Progress(c))

(* Every handler returns, without the help of the timeout.                 *)
HandlersReturn == \A c \in Conns : pc[c] # "idle" ~> pc[c] = "idle"

-------------------------------------------------------------------------------
(* What PLAN.md and the comments say and the code does not keep *)

(* An event on sale has stock while it says published...                   *)
PublishedHasStock ==
    \A e \in Events : eventStatus[e] = "published" =>
        \E t \in TiersOf(e) : remaining[t] > 0

(* ... and none when it says sold_out.                                     *)
SoldOutHasNone ==
    \A e \in Events : eventStatus[e] = "sold_out" =>
        \A t \in TiersOf(e) : remaining[t] = 0

(* Cancelling an event cancels every purchase of it.                       *)
CancelledEventIsVoid ==
    \A e \in Events :
        eventStatus[e] = "cancelled" /\ (\A c \in Conns : pc[c] = "idle") =>
            \A p \in PurchasesOf(e) : purchase[p] # "confirmed"

(* Tickets are sold only while the event is published.                     *)
SalesWhilePublished ==
    [][\A p \in Purchases : purchase[p] = "none" /\ purchase'[p] = "confirmed" =>
           eventStatus[EventOfPurchase(p)] = "published"]_vars

(* The tickets of a confirmed purchase are valid.                          *)
ConfirmedHasTickets ==
    \A p \in Purchases : purchase[p] = "confirmed" =>
        \A k \in TicketsOf[p] : ticket[k] # "cancelled"

(* A tier that has sold out and has stock again wakes its waitlist.        *)
RestockPromotes ==
    [][\A t \in Tiers : tierStatus[t] = "sold_out" /\ tierStatus'[t] = "available" =>
           \E c \in Conns : pc'[c] = "enqueue" /\ TierOf[work[c]] = t]_vars

===============================================================================
