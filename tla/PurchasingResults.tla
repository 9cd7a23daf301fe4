--------------------------- MODULE PurchasingResults ---------------------------
(***************************************************************************)
(* What follows from the inductive invariant of Purchasing_proofs: the     *)
(* safety properties of the sale, what its steps may never do, freedom     *)
(* from deadlock, and the refinement of BoxOffice.                         *)
(***************************************************************************)
EXTENDS Purchasing_proofs

(* Only seven actions write a row that a client can see.                   *)
LEMMA Writers ==
  ASSUME [Next]_vars
  PROVE  \/ \E c \in Conns : BuyCommit(c)
         \/ \E c \in Conns : CancelCommit(c)
         \/ \E c \in Conns : VoidCommit(c)
         \/ \E c \in Conns : CheckInCommit(c)
         \/ \E c \in Conns, e \in Events : CancelEvent(c, e)
         \/ \E e \in Events : EndExpired(e)
         \/ UNCHANGED <<eventStatus, quantity, remaining, tierStatus, purchase, ticket, admitted>>
<1> USE DEF rowVars, saleVars
<1>1. ASSUME NEW c \in Conns, Buy(c), ~BuyCommit(c)
      PROVE  UNCHANGED <<eventStatus, quantity, remaining, tierStatus, purchase, ticket, admitted>>
  BY <1>1 DEF Buy, BuyBegin, BuyLockTier, BuyLoadRules, BuyCheckStock, BuyFlipEvent, Reject
<1>2. ASSUME NEW c \in Conns, Cancel(c), ~CancelCommit(c)
      PROVE  UNCHANGED <<eventStatus, quantity, remaining, tierStatus, purchase, ticket, admitted>>
  BY <1>2 DEF Cancel, CancelBegin, CancelLockPurchase, CancelLoadRules, CancelFlipTickets,
              CancelRestoreTier, CancelFlipEvent, Enqueue, Reject
<1>3. ASSUME NEW c \in Conns, Void(c), ~VoidCommit(c), \A e \in Events : ~CancelEvent(c, e)
      PROVE  UNCHANGED <<eventStatus, quantity, remaining, tierStatus, purchase, ticket, admitted>>
  BY <1>3 DEF Void, VoidBegin, VoidPurchase, VoidBeginTickets, VoidTickets
<1>4. ASSUME NEW c \in Conns, CheckIn(c), ~CheckInCommit(c)
      PROVE  UNCHANGED <<eventStatus, quantity, remaining, tierStatus, purchase, ticket, admitted>>
  BY <1>4 DEF CheckIn, CheckInLock
<1>5. ASSUME NEW c \in Conns, Abort(c)
      PROVE  UNCHANGED <<eventStatus, quantity, remaining, tierStatus, purchase, ticket, admitted>>
  BY <1>5 DEF Abort
<1>6. CASE Tick \/ UNCHANGED vars
  BY <1>6 DEF Tick, vars
<1> QED BY <1>1, <1>2, <1>3, <1>4, <1>5, <1>6 DEF Next

-------------------------------------------------------------------------------
(* Invariants *)

(* What does not depend on who writes the tiers' rows.                     *)
LEMMA CoreInvariant == Spec => []CoreInv
<1>1. IInv => CoreInv
  BY DEF IInv
<1> QED BY <1>1, InductiveInvariant, PTL

(* Every row holds a value of its columns' types, and every connection     *)
(* works on a row of the kind its step of the handler needs.               *)
THEOREM TypeCorrect == Spec => []TypeOK
BY CoreInvariant, PTL DEF CoreInv

(* The books of a tier balance: createPurchase's decrement and Cancel's    *)
(* restock undo each other, whatever runs between their statements.        *)
THEOREM BooksBalance == Spec => []Conservation
BY InductiveInvariant, PTL DEF IInv

(* No buyer's, canceller's or organizer's handler leaves a cancelled       *)
(* purchase with a ticket that still opens the door.                       *)
THEOREM RefundsAreWhole == Spec => []RefundedIsWhole
<1>1. CoreInv => RefundedIsWhole
  BY DEF CoreInv, TicketInv
<1> QED BY <1>1, CoreInvariant, PTL

(* The FOR UPDATE in CheckIn lets a ticket in once, however many doors     *)
(* scan it at the same time.                                               *)
THEOREM OneAdmission == Spec => []AdmittedOnce
<1>1. CoreInv => AdmittedOnce
  BY DEF CoreInv, TicketInv, AdmittedOnce
<1> QED BY <1>1, CoreInvariant, PTL

(* A valid ticket belongs to a confirmed purchase, so the tickets that     *)
(* open the door are among those the books count as sold.                  *)
LEMMA LiveAreSold ==
  ASSUME CoreInv, NEW t \in Tiers
  PROVE  LiveTickets(t) \in SUBSET SoldTickets(t)
<1> SUFFICES ASSUME NEW k \in LiveTickets(t) PROVE k \in SoldTickets(t)
  OBVIOUS
<1>1. k \in Tickets /\ ticket[k] \in {"unused", "used"}
  BY DEF LiveTickets
<1>2. PICK p \in Purchases : TierOf[p] = t /\ k \in TicketsOf[p]
  BY DEF LiveTickets
<1>3. purchase[p] = "confirmed"
  <2>1. purchase[p] \in {"none", "confirmed", "cancelled"}
    BY DEF CoreInv, TypeOK
  <2>2. purchase[p] = "cancelled" => ticket[k] = "cancelled"
    BY <1>2 DEF CoreInv, TicketInv, RefundedIsWhole
  <2>3. purchase[p] = "none" => ticket[k] = "none"
    BY <1>2 DEF CoreInv, TicketInv, RefundedIsWhole
  <2> QED BY <1>1, <2>1, <2>2, <2>3
<1> QED BY <1>1, <1>2, <1>3 DEF SoldTickets

(* PLAN.md's "no overselling": the tier's lock in Create holds for any     *)
(* number of buyers, tiers and tickets, as long as nobody edits the tier.  *)
THEOREM NeverOversold == Spec => []NoOversell
<1>1. IInv => NoOversell
  <2> SUFFICES ASSUME IInv, NEW t \in Tiers
               PROVE  Cardinality(LiveTickets(t)) <= quantity[t]
    BY DEF NoOversell
  <2>1. IsFiniteSet(SoldTickets(t)) /\ Cardinality(SoldTickets(t)) \in Nat
    BY SoldFinite
  <2>2. /\ Cardinality(LiveTickets(t)) <= Cardinality(SoldTickets(t))
        /\ Cardinality(LiveTickets(t)) \in Nat
    BY <2>1, LiveAreSold, FS_Subset, FS_CardinalityType DEF IInv
  <2>3. remaining[t] + Cardinality(SoldTickets(t)) <= quantity[t]
    BY DEF IInv, Conservation
  <2>4. remaining[t] \in Nat /\ quantity[t] \in Nat
    BY DEF IInv, CoreInv, TypeOK
  <2> QED BY <2>1, <2>2, <2>3, <2>4
<1> QED BY <1>1, InductiveInvariant, PTL

(* decrementTier and restoreTier keep status and remaining of a tier in    *)
(* step.                                                                   *)
LEMMA TierStatusStep ==
  ASSUME CoreInv, TierStatusAgrees, [Next]_vars
  PROVE  TierStatusAgrees'
<1> USE RowsAssumption
<1>1. CASE \E c \in Conns : BuyCommit(c)
  <2>1. PICK c \in Conns : BuyCommit(c)
    BY <1>1
  <2>2. PICK p \in Purchases : p = work[c]
    BY <2>1 DEF BuyCommit, CoreInv, TypeOK, Buying, BuyLocked
  <2>3. remaining[TierOf[p]] >= Quantity(p) /\ Quantity(p) \in Nat
    BY <2>1, <2>2, QuantityNat DEF BuyCommit, CoreInv, BuyInv, BuyLocked
  <2>4. /\ remaining' = [remaining EXCEPT ![TierOf[p]] = @ - Quantity(p)]
        /\ tierStatus' = [tierStatus EXCEPT ![TierOf[p]] =
                              IF remaining[TierOf[p]] - Quantity(p) = 0 THEN "sold_out" ELSE "available"]
    BY <2>1, <2>2 DEF BuyCommit, SellTier, TierStatusAfterSale
  <2> QED BY <2>3, <2>4 DEF CoreInv, TypeOK, TierStatusAgrees
<1>2. CASE \E c \in Conns : CancelCommit(c)
  <2>1. PICK c \in Conns : CancelCommit(c)
    BY <1>2
  <2>2. PICK p \in Purchases : p = work[c]
    BY <2>1 DEF CancelCommit, CoreInv, TypeOK, Cancelling, CanLocked, CanFlipped, CanRestored
  <2>3. /\ remaining' = [remaining EXCEPT ![TierOf[p]] = @ + Quantity(p)]
        /\ tierStatus' = [tierStatus EXCEPT ![TierOf[p]] = "available"]
    BY <2>1, <2>2 DEF CancelCommit, RestockTier
  <2>4. Quantity(p) \in Nat \ {0}
    BY QuantityPositive
  <2> QED BY <2>3, <2>4 DEF CoreInv, TypeOK, TierStatusAgrees
<1>3. CASE UNCHANGED <<remaining, tierStatus>>
  BY <1>3 DEF TierStatusAgrees
<1>4. \/ \E c \in Conns : BuyCommit(c) \/ CancelCommit(c)
      \/ UNCHANGED <<remaining, tierStatus>>
  BY Writers DEF VoidCommit, CheckInCommit, CancelEvent, EndExpired, saleVars
<1> QED BY <1>1, <1>2, <1>3, <1>4

(* A tier says sold_out exactly when it has no place left.                 *)
THEOREM TierStatusIsRight == Spec => []TierStatusAgrees
<1>1. Init => TierStatusAgrees
  BY RowsAssumption DEF Init, TierStatusAgrees
<1>2. CoreInv /\ TierStatusAgrees /\ [Next]_vars => TierStatusAgrees'
  BY TierStatusStep
<1> QED BY <1>1, <1>2, CoreInvariant, PTL DEF Spec

(* The status of an event with one tier follows that tier: sellOutEvent    *)
(* and flipEventStatus run under the tier's lock, so that no sale or       *)
(* refund acts on a count of the stock that another one has changed.       *)
THEOREM SoleTierDecides == Spec => []SoleTierEventStatus
<1>1. IInv => SoleTierEventStatus
  BY DEF IInv, SoleTierInv
<1> QED BY <1>1, InductiveInvariant, PTL

-------------------------------------------------------------------------------
(* What a step may never do *)

(* A ticket is scanned or cancelled once and for all: the purchase path    *)
(* mints it, refunds and voids only cancel, and the door's row lock keeps  *)
(* a scan from waking a ticket that was cancelled meanwhile.               *)
THEOREM TicketsOnlyAge == Spec => TicketLifeCycle
<1> DEFINE Ages == \A k \in Tickets :
                      /\ ticket[k] = "cancelled" => ticket'[k] = "cancelled"
                      /\ ticket[k] = "used" => ticket'[k] \in {"used", "cancelled"}
<1>1. ASSUME CoreInv, [Next]_vars
      PROVE  Ages
  <2> USE <1>1, RowsAssumption
  <2>1. CASE \E c \in Conns : BuyCommit(c)
    <3>1. PICK c \in Conns : BuyCommit(c)
      BY <2>1
    <3>2. PICK p \in Purchases : p = work[c]
      BY <3>1 DEF BuyCommit, CoreInv, TypeOK, Buying, BuyLocked
    <3>3. \A k \in TicketsOf[p] : ticket[k] = "none"
      BY <3>1, <3>2 DEF BuyCommit, CoreInv, BuyInv, TicketInv, RefundedIsWhole, Buying, BuyLocked
    <3>4. ticket' = [k \in Tickets |-> IF k \in TicketsOf[p] THEN "unused" ELSE ticket[k]]
      BY <3>1, <3>2 DEF BuyCommit, SetTickets
    <3> QED BY <3>3, <3>4
  <2>2. CASE \E c \in Conns : CancelCommit(c) \/ VoidCommit(c)
    <3>1. PICK S \in {S \in SUBSET Purchases : SetTickets(S, "cancelled")} : TRUE
      <4>1. PICK c \in Conns : CancelCommit(c) \/ VoidCommit(c)
        BY <2>2
      <4>2. CASE CancelCommit(c)
        <5>1. work[c] \in Purchases /\ SetTickets({work[c]}, "cancelled")
          BY <4>2 DEF CancelCommit, CoreInv, TypeOK, Cancelling, CanLocked, CanFlipped, CanRestored
        <5> QED BY <5>1
      <4>3. CASE VoidCommit(c)
        BY <4>3 DEF VoidCommit, CoreInv, TypeOK
      <4> QED BY <4>1, <4>2, <4>3
    <3>2. ticket' = [k \in Tickets |-> IF \E p \in S : k \in TicketsOf[p]
                                       THEN "cancelled" ELSE ticket[k]]
      BY <3>1 DEF SetTickets
    <3> QED BY <3>2
  <2>3. CASE \E c \in Conns : CheckInCommit(c)
    <3>1. PICK c \in Conns : CheckInCommit(c)
      BY <2>3
    <3>2. ticket[work[c]] = "unused" /\ ticket' = [ticket EXCEPT ![work[c]] = "used"]
      BY <3>1 DEF CheckInCommit, CoreInv, TicketInv
    <3> QED BY <3>2 DEF CoreInv, TypeOK
  <2>4. CASE UNCHANGED ticket
    BY <2>4
  <2>5. \/ \E c \in Conns : BuyCommit(c) \/ CancelCommit(c) \/ VoidCommit(c) \/ CheckInCommit(c)
        \/ UNCHANGED ticket
    BY Writers DEF CancelEvent, EndExpired
  <2> QED BY <2>1, <2>2, <2>3, <2>4, <2>5
<1>2. CoreInv /\ [Next]_vars => Ages
  BY <1>1
<1>3. QED BY <1>2, CoreInvariant, PTL DEF Spec, TicketLifeCycle

(* Which step writes an event's status, and from what to what: a flip      *)
(* holds the row, and whoever cancels or ends the event waits for it.      *)
LEMMA EventStep ==
  ASSUME CoreInv, [Next]_vars
  PROVE  \A e \in Events : eventStatus'[e] # eventStatus[e] =>
             <<eventStatus[e], eventStatus'[e]>> \in EventArrows
<1> USE RowsAssumption DEF EventArrows, OnSale
<1>1. CASE \E c \in Conns : BuyCommit(c)
  <2>1. PICK c \in Conns : BuyCommit(c)
    BY <1>1
  <2>2. PICK e \in Events : e = EventOfPurchase(work[c])
    BY <2>1 DEF BuyCommit, CoreInv, TypeOK, Buying, BuyLocked, EventOfPurchase
  <2>3. pc[c] = "buy_commit_flip" => eventStatus[e] = "published"
    BY <2>2 DEF CoreInv, BuyInv
  <2>4. \/ pc[c] = "buy_commit_flip" /\ eventStatus' = [eventStatus EXCEPT ![e] = "sold_out"]
        \/ eventStatus' = eventStatus
    BY <2>1, <2>2 DEF BuyCommit
  <2> QED BY <2>3, <2>4 DEF CoreInv, TypeOK
<1>2. CASE \E c \in Conns : CancelCommit(c)
  <2>1. PICK c \in Conns : CancelCommit(c)
    BY <1>2
  <2>2. PICK e \in Events : e = EventOfPurchase(work[c])
    BY <2>1 DEF CancelCommit, CoreInv, TypeOK, Cancelling, CanLocked, CanFlipped, CanRestored,
                EventOfPurchase
  <2>3. pc[c] = "can_commit_flip" => eventStatus[e] = "sold_out"
    BY <2>2 DEF CoreInv, CancelInv
  <2>4. \/ pc[c] = "can_commit_flip" /\ eventStatus' = [eventStatus EXCEPT ![e] = "published"]
        \/ eventStatus' = eventStatus
    BY <2>1, <2>2 DEF CancelCommit
  <2> QED BY <2>3, <2>4 DEF CoreInv, TypeOK
<1>3. CASE \E c \in Conns, e \in Events : CancelEvent(c, e)
  BY <1>3 DEF CancelEvent, CoreInv, TypeOK
<1>4. CASE \E e \in Events : EndExpired(e)
  BY <1>4 DEF EndExpired, CoreInv, TypeOK
<1>5. CASE UNCHANGED eventStatus
  BY <1>5
<1> QED BY <1>1, <1>2, <1>3, <1>4, <1>5, Writers DEF VoidCommit, CheckInCommit

(* No transaction that was under way when the event was cancelled or ended *)
(* writes its status afterwards.                                           *)
THEOREM EventsOnlyAdvance == Spec => EventLifeCycle
<1> DEFINE Advances == \A e \in Events : eventStatus'[e] # eventStatus[e] =>
                          <<eventStatus[e], eventStatus'[e]>> \in EventArrows
<1>1. CoreInv /\ [Next]_vars => Advances
  BY EventStep
<1> QED BY <1>1, CoreInvariant, PTL DEF Spec, EventLifeCycle

-------------------------------------------------------------------------------
(* Freedom from deadlock *)

(* Whoever keeps an event's row locked only has its COMMIT left.           *)
LEMMA EventNotAwaited ==
  ASSUME NEW c \in Conns, NEW d \in Conns, WaitsFor(c, d),
         pc[c] \in {"buy_event", "can_event"}
  PROVE  \A b \in Conns : ~WaitsFor(d, b)
BY DEF WaitsFor, HoldsEvent

(* Whoever keeps a tier locked waits for an event at most.                 *)
LEMMA TierAwaited ==
  ASSUME NEW c \in Conns, NEW d \in Conns, NEW b \in Conns, WaitsFor(c, d), WaitsFor(d, b),
         pc[c] \in {"buy_tier", "can_tier"}
  PROVE  pc[d] \in {"buy_event", "can_event"}
BY DEF WaitsFor, HoldsTier, BuyLocked, CanRestored

(* Whoever keeps a ticket locked waits for a tier or an event, or is       *)
(* CancelByEvent in its second statement, which waits for tickets: of its  *)
(* own event, and no other CancelByEvent runs for that event.              *)
LEMMA TicketAwaited ==
  ASSUME CoreInv, NEW c \in Conns, NEW d \in Conns, NEW b \in Conns,
         WaitsFor(c, d), WaitsFor(d, b),
         pc[c] \in {"can_tickets", "void_tickets"}
  PROVE  \/ pc[d] \in {"can_tier", "buy_event", "can_event"}
         \/ pc[c] = "can_tickets" /\ pc[d] = "void_tickets"
<1> USE RowsAssumption
<1>1. PICK k \in Tickets : /\ HoldsTicket(d, k)
                           /\ \/ pc[c] = "can_tickets" /\ k \in TicketsOf[work[c]]
                              \/ pc[c] = "void_tickets" /\ \E p \in todo[c] : k \in TicketsOf[p]
  BY DEF WaitsFor, CoreInv, TypeOK, Cancelling, CanLocked
<1>2. CASE pc[d] \in CanFlipped \cup {"scan"}
  BY <1>2 DEF WaitsFor, CanFlipped, CanRestored
<1>3. CASE pc[d] \in Voiding /\ \E p \in voided[d] : k \in TicketsOf[p]
  <2>1. pc[d] = "void_tickets"
    BY <1>3 DEF CoreInv, VoidInv
  <2>2. CASE pc[c] = "void_tickets"
    <3>1. PICK p \in todo[c] : k \in TicketsOf[p]
      BY <1>1, <2>2
    <3>2. PICK q \in voided[d] : k \in TicketsOf[q]
      BY <1>3
    <3>3. p \in Purchases /\ q \in Purchases
      BY DEF CoreInv, TypeOK
    <3>4. p = q
      BY <3>1, <3>2, <3>3
    <3>5. work[c] = EventOfPurchase(p) /\ work[d] = EventOfPurchase(p)
      BY <3>4 DEF CoreInv, VoidInv
    <3>6. c = d
      BY <2>1, <2>2, <3>5 DEF CoreInv, VoidInv, Voiding
    <3>7. todo[c] \cap voided[c] = {}
      BY DEF CoreInv, VoidInv
    <3> QED BY <3>4, <3>6, <3>7
  <2> QED BY <2>1, <2>2
<1> QED BY <1>1, <1>2, <1>3 DEF HoldsTicket

(* Whoever keeps a purchase locked waits for tickets, a tier or an event,  *)
(* or is CancelByEvent in its first statement.                             *)
LEMMA PurchaseAwaited ==
  ASSUME CoreInv, NEW c \in Conns, NEW d \in Conns, NEW b \in Conns,
         WaitsFor(c, d), WaitsFor(d, b),
         pc[c] \in {"can_purchase", "void_purchases"}
  PROVE  \/ pc[d] \in {"can_tickets", "void_tickets", "can_tier", "buy_event", "can_event"}
         \/ pc[c] = "can_purchase" /\ pc[d] = "void_purchases"
<1> USE RowsAssumption
<1>1. PICK p \in Purchases : /\ HoldsPurchase(d, p)
                             /\ pc[c] = "void_purchases" => p \in todo[c]
  BY DEF WaitsFor, CoreInv, TypeOK, Cancelling
<1>2. CASE pc[d] \in CanLocked
  BY <1>2 DEF WaitsFor, CanLocked, CanFlipped, CanRestored
<1>3. CASE pc[d] \in Voiding /\ p \in flipped[d]
  <2>1. pc[d] \in {"void_purchases", "void_tickets"}
    BY <1>3 DEF CoreInv, VoidInv
  <2>2. CASE pc[c] = "void_purchases" /\ pc[d] = "void_purchases"
    <3>1. work[c] = EventOfPurchase(p) /\ work[d] = EventOfPurchase(p)
      BY <1>1, <1>3, <2>2 DEF CoreInv, VoidInv
    <3>2. c = d
      BY <2>2, <3>1 DEF CoreInv, VoidInv, Voiding
    <3>3. todo[c] \cap flipped[c] = {}
      BY <2>2 DEF CoreInv, VoidInv
    <3> QED BY <1>1, <1>3, <2>2, <3>2, <3>3
  <2> QED BY <2>1, <2>2
<1> QED BY <1>1, <1>2, <1>3 DEF HoldsPurchase

(* Rows are locked in the order purchase, tickets, tier, event, so that    *)
(* whoever is last in that order waits for nobody.                         *)
LEMMA NobodyWaitsInACircle ==
  ASSUME CoreInv
  PROVE  NoWaitCycle
<1> SUFFICES ASSUME NEW S \in SUBSET Conns, S # {},
                    \A c \in S : \E d \in S : WaitsFor(c, d)
             PROVE  FALSE
  BY DEF NoWaitCycle
<1>1. \A c \in S : pc[c] \in {"buy_tier", "can_tier", "can_purchase", "can_tickets",
                             "buy_event", "can_event", "void_purchases", "void_tickets"}
  BY DEF WaitsFor
<1>2. ASSUME NEW c \in S
      PROVE  pc[c] \notin {"buy_event", "can_event"}
  <2>1. PICK d \in S : WaitsFor(c, d)
    OBVIOUS
  <2>2. PICK b \in S : WaitsFor(d, b)
    OBVIOUS
  <2> QED BY <2>1, <2>2, EventNotAwaited
<1>3. ASSUME NEW c \in S
      PROVE  pc[c] \notin {"buy_tier", "can_tier"}
  <2>1. PICK d \in S : WaitsFor(c, d)
    OBVIOUS
  <2>2. PICK b \in S : WaitsFor(d, b)
    OBVIOUS
  <2> QED BY <2>1, <2>2, <1>2, TierAwaited
<1>4. ASSUME NEW c \in S
      PROVE  pc[c] # "void_tickets"
  <2>1. PICK d \in S : WaitsFor(c, d)
    OBVIOUS
  <2>2. PICK b \in S : WaitsFor(d, b)
    OBVIOUS
  <2> QED BY <2>1, <2>2, <1>2, <1>3, TicketAwaited
<1>5. ASSUME NEW c \in S
      PROVE  pc[c] # "can_tickets"
  <2>1. PICK d \in S : WaitsFor(c, d)
    OBVIOUS
  <2>2. PICK b \in S : WaitsFor(d, b)
    OBVIOUS
  <2> QED BY <2>1, <2>2, <1>2, <1>3, <1>4, TicketAwaited
<1>6. ASSUME NEW c \in S
      PROVE  pc[c] # "void_purchases"
  <2>1. PICK d \in S : WaitsFor(c, d)
    OBVIOUS
  <2>2. PICK b \in S : WaitsFor(d, b)
    OBVIOUS
  <2> QED BY <2>1, <2>2, <1>2, <1>3, <1>4, <1>5, PurchaseAwaited
<1>7. ASSUME NEW c \in S
      PROVE  pc[c] # "can_purchase"
  <2>1. PICK d \in S : WaitsFor(c, d)
    OBVIOUS
  <2>2. PICK b \in S : WaitsFor(d, b)
    OBVIOUS
  <2> QED BY <2>1, <2>2, <1>2, <1>3, <1>4, <1>5, <1>6, PurchaseAwaited
<1> QED BY <1>1, <1>2, <1>3, <1>4, <1>5, <1>6, <1>7

(* However many handlers run, some transaction of any group can go on.     *)
THEOREM NoDeadlock == Spec => []NoWaitCycle
<1>1. CoreInv => NoWaitCycle
  BY NobodyWaitsInACircle
<1> QED BY <1>1, CoreInvariant, PTL

-------------------------------------------------------------------------------
(* Purchasing implements BoxOffice *)

(* The sale opens as the box office does.                                  *)
LEMMA OpensAsBoxOffice == Init => Box!BoxInit
<1> SUFFICES ASSUME Init PROVE Box!BoxInit
  OBVIOUS
<1>1. {p \in Purchases : purchase[p] = "confirmed"} = {}
  BY DEF Init
<1>2. {p \in Purchases : purchase[p] = "cancelled"} = {}
  BY DEF Init
<1>3. {k \in Tickets : admitted[k] > 0} = {}
  BY DEF Init
<1> QED BY <1>1, <1>2, <1>3 DEF Init, Box!BoxInit

(* createPurchase's commit is a sale of places that are there.             *)
LEMMA BuyIsSell ==
  ASSUME CoreInv, NEW c \in Conns, BuyCommit(c)
  PROVE  \E p \in Purchases : Box!Sell(p)
<1>1. PICK p \in Purchases : p = work[c]
  BY DEF BuyCommit, CoreInv, TypeOK, Buying, BuyLocked
<1>2. purchase[p] = "none" /\ remaining[TierOf[p]] >= Quantity(p)
  BY <1>1 DEF BuyCommit, CoreInv, BuyInv, Buying, BuyLocked
<1>3. /\ remaining' = [remaining EXCEPT ![TierOf[p]] = @ - Quantity(p)]
      /\ purchase' = [purchase EXCEPT ![p] = "confirmed"]
      /\ UNCHANGED admitted
  BY <1>1 DEF BuyCommit, SellTier
<1>4. \A q \in Purchases : purchase'[q] = IF q = p THEN "confirmed" ELSE purchase[q]
  BY <1>3 DEF CoreInv, TypeOK
<1>5. {q \in Purchases : purchase'[q] = "confirmed"}
         = {q \in Purchases : purchase[q] = "confirmed"} \cup {p}
  BY <1>4
<1>6. {q \in Purchases : purchase'[q] = "cancelled"} = {q \in Purchases : purchase[q] = "cancelled"}
  BY <1>2, <1>4
<1>7. p \notin {q \in Purchases : purchase[q] = "confirmed"} \cup {q \in Purchases : purchase[q] = "cancelled"}
  BY <1>2
<1>8. {k \in Tickets : admitted'[k] > 0} = {k \in Tickets : admitted[k] > 0}
  BY <1>3
<1>9. Box!Sell(p)
  BY <1>2, <1>3, <1>5, <1>6, <1>7, <1>8 DEF Box!Sell
<1> QED BY <1>9

(* Cancel's commit is a refund of a purchase that stands.                  *)
LEMMA CancelIsRefund ==
  ASSUME CoreInv, NEW c \in Conns, CancelCommit(c)
  PROVE  \E p \in Purchases : Box!Refund(p)
<1>1. PICK p \in Purchases : p = work[c]
  BY DEF CancelCommit, CoreInv, TypeOK, Cancelling, CanLocked, CanFlipped, CanRestored
<1>2. purchase[p] = "confirmed"
  BY <1>1 DEF CancelCommit, CoreInv, CancelInv, CanLocked, CanFlipped, CanRestored
<1>3. /\ remaining' = [remaining EXCEPT ![TierOf[p]] = @ + Quantity(p)]
      /\ purchase' = [purchase EXCEPT ![p] = "cancelled"]
      /\ UNCHANGED admitted
  BY <1>1 DEF CancelCommit, RestockTier
<1>4. \A q \in Purchases : purchase'[q] = IF q = p THEN "cancelled" ELSE purchase[q]
  BY <1>3 DEF CoreInv, TypeOK
<1>5. {q \in Purchases : purchase'[q] = "confirmed"}
         = {q \in Purchases : purchase[q] = "confirmed"} \ {p}
  BY <1>4
<1>6. {q \in Purchases : purchase'[q] = "cancelled"}
         = {q \in Purchases : purchase[q] = "cancelled"} \cup {p}
  BY <1>4
<1>7. p \in {q \in Purchases : purchase[q] = "confirmed"}
  BY <1>2
<1>8. {k \in Tickets : admitted'[k] > 0} = {k \in Tickets : admitted[k] > 0}
  BY <1>3
<1>9. Box!Refund(p)
  BY <1>3, <1>5, <1>6, <1>7, <1>8 DEF Box!Refund
<1> QED BY <1>9

(* CancelByEvent's commit voids standing purchases, or none.               *)
LEMMA VoidIsVoidAll ==
  ASSUME CoreInv, NEW c \in Conns, VoidCommit(c)
  PROVE  (\E S \in SUBSET Purchases : Box!VoidAll(S)) \/ UNCHANGED <<remaining, purchase, admitted>>
<1>1. PICK F \in SUBSET Purchases : F = flipped[c]
  BY DEF CoreInv, TypeOK
<1>2. \A p \in F : purchase[p] = "confirmed"
  BY <1>1 DEF CoreInv, VoidInv
<1>3. /\ purchase' = [p \in Purchases |-> IF p \in F THEN "cancelled" ELSE purchase[p]]
      /\ UNCHANGED <<remaining, admitted>>
  BY <1>1 DEF VoidCommit, saleVars
<1>4. CASE F = {}
  BY <1>3, <1>4 DEF CoreInv, TypeOK
<1>5. CASE F # {}
  <2>1. {q \in Purchases : purchase'[q] = "confirmed"}
           = {q \in Purchases : purchase[q] = "confirmed"} \ F
    BY <1>3
  <2>2. {q \in Purchases : purchase'[q] = "cancelled"}
           = {q \in Purchases : purchase[q] = "cancelled"} \cup F
    BY <1>3
  <2>3. F \subseteq {q \in Purchases : purchase[q] = "confirmed"}
    BY <1>2
  <2>4. {k \in Tickets : admitted'[k] > 0} = {k \in Tickets : admitted[k] > 0}
    BY <1>3
  <2>5. Box!VoidAll(F)
    BY <1>3, <1>5, <2>1, <2>2, <2>3, <2>4 DEF Box!VoidAll
  <2> QED BY <2>5
<1> QED BY <1>4, <1>5

(* CheckIn's commit admits a ticket of a purchase that stands.             *)
LEMMA CheckInIsAdmit ==
  ASSUME CoreInv, NEW c \in Conns, CheckInCommit(c)
  PROVE  \E k \in Tickets : Box!Admit(k)
<1>1. PICK k \in Tickets : k = work[c]
  BY DEF CheckInCommit, CoreInv, TypeOK
<1>2. ticket[k] = "unused" /\ admitted[k] \in Nat /\ admitted[k] <= 1
  BY <1>1 DEF CheckInCommit, CoreInv, TypeOK, TicketInv
<1>3. admitted[k] = 0
  <2>1. admitted[k] # 1
    BY <1>2 DEF CoreInv, TicketInv
  <2> QED BY <1>2, <2>1
<1>4. PICK p \in Purchases : k \in TicketsOf[p]
  BY RowsAssumption
<1>5. purchase[p] = "confirmed"
  <2>1. purchase[p] \in {"none", "confirmed", "cancelled"}
    BY DEF CoreInv, TypeOK
  <2> QED BY <1>2, <1>4, <2>1 DEF CoreInv, TicketInv, RefundedIsWhole
<1>6. admitted' = [admitted EXCEPT ![k] = 1] /\ UNCHANGED <<remaining, purchase>>
  BY <1>1, <1>3 DEF CheckInCommit, saleVars, CoreInv, TypeOK
<1>7. {j \in Tickets : admitted'[j] > 0} = {j \in Tickets : admitted[j] > 0} \cup {k}
  BY <1>6 DEF CoreInv, TypeOK
<1>8. k \notin {j \in Tickets : admitted[j] > 0}
  BY <1>3
<1>9. \E q \in {q \in Purchases : purchase[q] = "confirmed"} : k \in TicketsOf[q]
  BY <1>4, <1>5
<1>10. Box!Admit(k)
  BY <1>6, <1>7, <1>8, <1>9 DEF Box!Admit
<1> QED BY <1>10

(* Seen through its committed rows, the interleaved handlers sell, refund, *)
(* void and admit in single steps, each only when the box office would.    *)
THEOREM ImplementsTheBoxOffice == Spec => ImplementsBoxOffice
<1>1. Init => Box!BoxInit
  BY OpensAsBoxOffice
<1>2. CoreInv /\ [Next]_vars => [Box!BoxNext]_(Box!boxVars)
  <2> SUFFICES ASSUME CoreInv, [Next]_vars
               PROVE  Box!BoxNext \/ UNCHANGED Box!boxVars
    OBVIOUS
  <2>1. CASE UNCHANGED <<remaining, purchase, admitted>>
    BY <2>1 DEF Box!boxVars
  <2>2. CASE \E c \in Conns : BuyCommit(c) \/ CancelCommit(c) \/ VoidCommit(c) \/ CheckInCommit(c)
    BY <2>1, <2>2, BuyIsSell, CancelIsRefund, VoidIsVoidAll, CheckInIsAdmit DEF Box!BoxNext
  <2> QED BY <2>1, <2>2, Writers DEF CancelEvent, EndExpired, saleVars
<1> QED BY <1>1, <1>2, CoreInvariant, PTL DEF Spec, ImplementsBoxOffice, Box!BoxSpec

===============================================================================
