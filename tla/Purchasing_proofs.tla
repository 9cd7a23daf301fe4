--------------------------- MODULE Purchasing_proofs ---------------------------
(***************************************************************************)
(* CoreInv is an inductive invariant of Purchasing, and so is IInv, which  *)
(* adds the books.  QuitStep covers the returns without a commit; each     *)
(* other action has a lemma of its own, and in it a step per conjunct.     *)
(***************************************************************************)
EXTENDS Purchasing, FiniteSetTheorems, TLAPS

(* The tickets of a purchase are finitely many, and Quantity counts them.  *)
LEMMA QuantityNat ==
  ASSUME NEW p \in Purchases
  PROVE  IsFiniteSet(TicketsOf[p]) /\ Quantity(p) \in Nat
BY RowsAssumption, FS_Subset, FS_CardinalityType DEF Quantity

(* A purchase names at least one ticket: createPurchase validates gte=1.   *)
LEMMA QuantityPositive ==
  ASSUME NEW p \in Purchases
  PROVE  Quantity(p) \in Nat \ {0}
<1>1. IsFiniteSet(TicketsOf[p]) /\ Quantity(p) \in Nat
  BY QuantityNat
<1>2. TicketsOf[p] # {}
  BY RowsAssumption
<1> QED BY <1>1, <1>2, FS_EmptySet DEF Quantity

(* The tickets a tier has sold are finitely many.                          *)
LEMMA SoldFinite ==
  ASSUME NEW t \in Tiers
  PROVE  IsFiniteSet(SoldTickets(t)) /\ Cardinality(SoldTickets(t)) \in Nat
<1>1. SoldTickets(t) \in SUBSET Tickets
  BY DEF SoldTickets
<1> QED BY <1>1, RowsAssumption, FS_Subset, FS_CardinalityType

(* Two finite sets that do not meet have the sum of their sizes together.  *)
LEMMA CardinalityDisjoint ==
  ASSUME NEW S, NEW T, IsFiniteSet(S), IsFiniteSet(T), S \cap T = {}
  PROVE  Cardinality(S \cup T) = Cardinality(S) + Cardinality(T)
<1>1. Cardinality(S \cup T) = Cardinality(S) + Cardinality(T) - Cardinality(S \cap T)
  BY FS_Union
<1>2. Cardinality(S \cap T) = 0
  BY FS_EmptySet
<1>3. Cardinality(S) \in Nat /\ Cardinality(T) \in Nat
  BY FS_CardinalityType
<1> QED BY <1>1, <1>2, <1>3

(* A step that writes neither purchases nor tiers nor events leaves the    *)
(* books alone.                                                            *)
LEMMA ConservationKept ==
  ASSUME Conservation, UNCHANGED <<eventStatus, quantity, remaining, purchase>>
  PROVE  Conservation'
<1>1. ASSUME NEW t \in Tiers PROVE SoldTickets(t)' = SoldTickets(t)
  BY DEF SoldTickets
<1> QED BY <1>1 DEF Conservation

(* Reject, Abort and every other return without a commit: the locks go, no *)
(* row has changed.                                                        *)
LEMMA QuitStep ==
  ASSUME CoreInv, NEW c \in Conns, Finish(c), UNCHANGED <<now, rowVars>>
  PROVE  CoreInv' /\ (Conservation => Conservation')
<1> USE RowsAssumption DEF CoreInv, Finish, Goto, rowVars, saleVars, Buying, BuyLocked, CanRestored, CanFlipped, CanLocked, Cancelling, Voiding, Steps
<1>1. TypeOK'
  BY SMTT(20) DEF TypeOK
<1>2. LockInv'
  BY SMTT(20) DEF LockInv, TypeOK, HoldsTier, HoldsPurchase, HoldsTicket, HoldsEvent
<1>3. BuyInv'
  BY SMTT(20) DEF BuyInv, TypeOK, LockInv, HoldsTier, HoldsEvent
<1>4. CancelInv'
  BY SMTT(20) DEF CancelInv, TypeOK
<1>5. VoidInv'
  BY SMTT(20) DEF VoidInv, TypeOK
<1>6. TicketInv'
  BY SMTT(20) DEF TicketInv, RefundedIsWhole, TypeOK
<1>7. Conservation => Conservation'
  BY ConservationKept DEF rowVars, saleVars
<1> QED BY <1>1, <1>2, <1>3, <1>4, <1>5, <1>6, <1>7 DEF CoreInv

(* createPurchase mints a new id: no other handler works on that purchase. *)
LEMMA BuyBeginStep ==
  ASSUME CoreInv, NEW c \in Conns, NEW p \in Purchases, BuyBegin(c, p)
  PROVE  CoreInv' /\ (Conservation => Conservation')
<1> USE RowsAssumption DEF CoreInv, BuyBegin, Step, Goto, rowVars, saleVars, localVars, Buying, BuyLocked, CanRestored, CanFlipped, CanLocked, Cancelling, Voiding, Steps, Start
<1>1. TypeOK'
  BY SMTT(20) DEF TypeOK
<1>2. LockInv'
  BY SMTT(20) DEF LockInv, TypeOK, HoldsTier, HoldsPurchase, HoldsTicket, HoldsEvent
<1>3. BuyInv'
  BY SMTT(20) DEF BuyInv, TypeOK, LockInv, HoldsTier, HoldsEvent
<1>4. CancelInv'
  BY SMTT(20) DEF CancelInv, TypeOK
<1>5. VoidInv'
  BY SMTT(20) DEF VoidInv, TypeOK
<1>6. TicketInv'
  BY SMTT(20) DEF TicketInv, RefundedIsWhole, TypeOK
<1>7. Conservation => Conservation'
  BY ConservationKept DEF rowVars, saleVars
<1> QED BY <1>1, <1>2, <1>3, <1>4, <1>5, <1>6, <1>7 DEF CoreInv

(* SELECT ... FOR UPDATE of the tier is granted only when nobody holds it. *)
LEMMA BuyLockTierStep ==
  ASSUME CoreInv, NEW c \in Conns, BuyLockTier(c)
  PROVE  CoreInv' /\ (Conservation => Conservation')
<1> USE RowsAssumption DEF CoreInv, BuyLockTier, Step, Goto, rowVars, saleVars, localVars, Buying, BuyLocked, CanRestored, CanFlipped, CanLocked, Cancelling, Voiding, Steps
<1>1. TypeOK'
  BY SMTT(20) DEF TypeOK
<1>2. LockInv'
  BY SMTT(20) DEF LockInv, TypeOK, HoldsTier, HoldsPurchase, HoldsTicket, HoldsEvent, TierFree
<1>3. BuyInv'
  BY SMTT(20) DEF BuyInv, TypeOK, LockInv, HoldsTier, HoldsEvent
<1>4. CancelInv'
  BY SMTT(20) DEF CancelInv, TypeOK
<1>5. VoidInv'
  BY SMTT(20) DEF VoidInv, TypeOK
<1>6. TicketInv'
  BY SMTT(20) DEF TicketInv, RefundedIsWhole, TypeOK
<1>7. Conservation => Conservation'
  BY ConservationKept DEF rowVars, saleVars
<1> QED BY <1>1, <1>2, <1>3, <1>4, <1>5, <1>6, <1>7 DEF CoreInv

(* What the switch of refusals lets through has enough places, under the   *)
(* tier's lock.                                                            *)
LEMMA BuyLoadRulesStep ==
  ASSUME CoreInv, NEW c \in Conns, BuyLoadRules(c)
  PROVE  CoreInv' /\ (Conservation => Conservation')
<1>1. CASE Reject(c, "buy_rules")
  BY <1>1, QuitStep DEF Reject
<1>2. CASE MayBuy(work[c]) /\ Step(c, "buy_rules", "buy_stock") /\ UNCHANGED <<now, rowVars, localVars>>
  <2> USE <1>2, RowsAssumption DEF CoreInv, Step, Goto, rowVars, saleVars, localVars, Buying, BuyLocked, CanRestored, CanFlipped, CanLocked, Cancelling, Voiding, Steps
  <2>1. TypeOK'
    BY SMTT(20) DEF TypeOK
  <2>2. LockInv'
    BY SMTT(20) DEF LockInv, TypeOK, HoldsTier, HoldsPurchase, HoldsTicket, HoldsEvent
  <2>3. BuyInv'
    BY SMTT(20) DEF BuyInv, TypeOK, LockInv, HoldsTier, HoldsEvent, MayBuy
  <2>4. CancelInv'
    BY SMTT(20) DEF CancelInv, TypeOK
  <2>5. VoidInv'
    BY SMTT(20) DEF VoidInv, TypeOK
  <2>6. TicketInv'
    BY SMTT(20) DEF TicketInv, RefundedIsWhole, TypeOK
  <2>7. Conservation => Conservation'
    BY ConservationKept DEF rowVars, saleVars
  <2> QED BY   <2>1,   <2>2,   <2>3,   <2>4,   <2>5,   <2>6,   <2>7 DEF CoreInv
<1> QED BY <1>1, <1>2 DEF BuyLoadRules

(* anyStockLeft only chooses the next statement.                           *)
LEMMA BuyCheckStockStep ==
  ASSUME CoreInv, NEW c \in Conns, BuyCheckStock(c)
  PROVE  CoreInv' /\ (Conservation => Conservation')
<1> USE RowsAssumption DEF CoreInv, BuyCheckStock, Step, Goto, rowVars, saleVars, localVars, Buying, BuyLocked, CanRestored, CanFlipped, CanLocked, Cancelling, Voiding, Steps
<1>1. TypeOK'
  BY SMTT(20) DEF TypeOK
<1>2. LockInv'
  BY SMTT(20) DEF LockInv, TypeOK, HoldsTier, HoldsPurchase, HoldsTicket, HoldsEvent
<1>3. BuyInv'
  BY SMTT(20) DEF BuyInv, TypeOK, LockInv, HoldsTier, HoldsEvent
<1>4. CancelInv'
  BY SMTT(20) DEF CancelInv, TypeOK
<1>5. VoidInv'
  BY SMTT(20) DEF VoidInv, TypeOK
<1>6. TicketInv'
  BY SMTT(20) DEF TicketInv, RefundedIsWhole, TypeOK
<1>7. Conservation => Conservation'
  BY ConservationKept DEF rowVars, saleVars
<1> QED BY <1>1, <1>2, <1>3, <1>4, <1>5, <1>6, <1>7 DEF CoreInv

(* sellOutEvent locks a published event, or skips it.                      *)
LEMMA BuyFlipEventStep ==
  ASSUME CoreInv, NEW c \in Conns, BuyFlipEvent(c)
  PROVE  CoreInv' /\ (Conservation => Conservation')
<1> DEFINE e == EventOfPurchase(work[c])
<1>1. CASE ~SellsOut(e) /\ Step(c, "buy_event", "buy_commit") /\ UNCHANGED <<now, rowVars, localVars>>
  <2> USE <1>1, RowsAssumption DEF CoreInv, Step, Goto, rowVars, saleVars, localVars, Buying, BuyLocked, CanRestored, CanFlipped, CanLocked, Cancelling, Voiding, Steps
  <2>1. TypeOK'
    BY SMTT(20) DEF TypeOK
  <2>2. LockInv'
    BY SMTT(20) DEF LockInv, TypeOK, HoldsTier, HoldsPurchase, HoldsTicket, HoldsEvent
  <2>3. BuyInv'
    BY SMTT(20) DEF BuyInv, TypeOK, LockInv, HoldsTier, HoldsEvent
  <2>4. CancelInv'
    BY SMTT(20) DEF CancelInv, TypeOK
  <2>5. VoidInv'
    BY SMTT(20) DEF VoidInv, TypeOK
  <2>6. TicketInv'
    BY SMTT(20) DEF TicketInv, RefundedIsWhole, TypeOK
  <2>7. Conservation => Conservation'
    BY ConservationKept DEF rowVars, saleVars
  <2> QED BY   <2>1,   <2>2,   <2>3,   <2>4,   <2>5,   <2>6,   <2>7 DEF CoreInv
<1>2. CASE SellsOut(e) /\ EventFree(e) /\ Step(c, "buy_event", "buy_commit_flip") /\ UNCHANGED <<now, rowVars, localVars>>
  <2> USE <1>2, RowsAssumption DEF CoreInv, Step, Goto, rowVars, saleVars, localVars, Buying, BuyLocked, CanRestored, CanFlipped, CanLocked, Cancelling, Voiding, Steps
  <2>1. TypeOK'
    BY SMTT(20) DEF TypeOK
  <2>2. LockInv'
    BY SMTT(20) DEF LockInv, TypeOK, HoldsTier, HoldsPurchase, HoldsTicket, HoldsEvent, EventFree
  <2>3. BuyInv'
    BY SMTT(20) DEF BuyInv, TypeOK, LockInv, HoldsTier, HoldsEvent, SellsOut
  <2>4. CancelInv'
    BY SMTT(20) DEF CancelInv, TypeOK, SellsOut
  <2>5. VoidInv'
    BY SMTT(20) DEF VoidInv, TypeOK
  <2>6. TicketInv'
    BY SMTT(20) DEF TicketInv, RefundedIsWhole, TypeOK
  <2>7. Conservation => Conservation'
    BY ConservationKept DEF rowVars, saleVars
  <2> QED BY   <2>1,   <2>2,   <2>3,   <2>4,   <2>5,   <2>6,   <2>7 DEF CoreInv
<1> QED BY <1>1, <1>2 DEF BuyFlipEvent

(* A cancel request holds nothing before its first SELECT.                 *)
LEMMA CancelBeginStep ==
  ASSUME CoreInv, NEW c \in Conns, NEW p \in Purchases, CancelBegin(c, p)
  PROVE  CoreInv' /\ (Conservation => Conservation')
<1> USE RowsAssumption DEF CoreInv, CancelBegin, Step, Goto, rowVars, saleVars, localVars, Buying, BuyLocked, CanRestored, CanFlipped, CanLocked, Cancelling, Voiding, Steps, Start
<1>1. TypeOK'
  BY SMTT(20) DEF TypeOK
<1>2. LockInv'
  BY SMTT(20) DEF LockInv, TypeOK, HoldsTier, HoldsPurchase, HoldsTicket, HoldsEvent
<1>3. BuyInv'
  BY SMTT(20) DEF BuyInv, TypeOK, LockInv, HoldsTier, HoldsEvent
<1>4. CancelInv'
  BY SMTT(20) DEF CancelInv, TypeOK
<1>5. VoidInv'
  BY SMTT(20) DEF VoidInv, TypeOK
<1>6. TicketInv'
  BY SMTT(20) DEF TicketInv, RefundedIsWhole, TypeOK
<1>7. Conservation => Conservation'
  BY ConservationKept DEF rowVars, saleVars
<1> QED BY <1>1, <1>2, <1>3, <1>4, <1>5, <1>6, <1>7 DEF CoreInv

(* The status check of Cancel runs under the purchase's lock.              *)
LEMMA CancelLockPurchaseStep ==
  ASSUME CoreInv, NEW c \in Conns, CancelLockPurchase(c)
  PROVE  CoreInv' /\ (Conservation => Conservation')
<1>1. CASE Reject(c, "can_purchase")
  BY <1>1, QuitStep DEF Reject
<1>2. CASE /\ PurchaseFree(work[c])
           /\ MayRefund(work[c])
           /\ Step(c, "can_purchase", "can_rules")
           /\ UNCHANGED <<now, rowVars, localVars>>
  <2> USE <1>2, RowsAssumption DEF CoreInv, Step, Goto, rowVars, saleVars, localVars, Buying, BuyLocked, CanRestored, CanFlipped, CanLocked, Cancelling, Voiding, Steps
  <2>1. TypeOK'
    BY SMTT(20) DEF TypeOK
  <2>2. LockInv'
    BY SMTT(20) DEF LockInv, TypeOK, HoldsTier, HoldsPurchase, HoldsTicket, HoldsEvent, PurchaseFree
  <2>3. BuyInv'
    BY SMTT(20) DEF BuyInv, TypeOK, LockInv, HoldsTier, HoldsEvent
  <2>4. CancelInv'
    BY SMTT(20) DEF CancelInv, TypeOK, MayRefund
  <2>5. VoidInv'
    BY SMTT(20) DEF VoidInv, TypeOK
  <2>6. TicketInv'
    BY SMTT(20) DEF TicketInv, RefundedIsWhole, TypeOK
  <2>7. Conservation => Conservation'
    BY ConservationKept DEF rowVars, saleVars
  <2> QED BY   <2>1,   <2>2,   <2>3,   <2>4,   <2>5,   <2>6,   <2>7 DEF CoreInv
<1> QED BY <1>1, <1>2 DEF CancelLockPurchase

(* Reading the tier's status and the policy changes a local of Cancel      *)
(* only.                                                                   *)
LEMMA CancelLoadRulesStep ==
  ASSUME CoreInv, NEW c \in Conns, CancelLoadRules(c)
  PROVE  CoreInv' /\ (Conservation => Conservation')
<1>1. CASE Reject(c, "can_rules")
  BY <1>1, QuitStep DEF Reject
<1>2. CASE /\ Step(c, "can_rules", "can_tickets")
           /\ wasSoldOut' = [wasSoldOut EXCEPT ![c] = tierStatus[TierOf[work[c]]] = "sold_out"]
           /\ UNCHANGED <<now, rowVars, todo, flipped, voided>>
  <2> USE <1>2, RowsAssumption DEF CoreInv, Step, Goto, rowVars, saleVars, localVars, Buying, BuyLocked, CanRestored, CanFlipped, CanLocked, Cancelling, Voiding, Steps
  <2>1. TypeOK'
    BY SMTT(20) DEF TypeOK
  <2>2. LockInv'
    BY SMTT(20) DEF LockInv, TypeOK, HoldsTier, HoldsPurchase, HoldsTicket, HoldsEvent
  <2>3. BuyInv'
    BY SMTT(20) DEF BuyInv, TypeOK, LockInv, HoldsTier, HoldsEvent
  <2>4. CancelInv'
    BY SMTT(20) DEF CancelInv, TypeOK
  <2>5. VoidInv'
    BY SMTT(20) DEF VoidInv, TypeOK
  <2>6. TicketInv'
    BY SMTT(20) DEF TicketInv, RefundedIsWhole, TypeOK
  <2>7. Conservation => Conservation'
    BY ConservationKept DEF rowVars, saleVars
  <2> QED BY   <2>1,   <2>2,   <2>3,   <2>4,   <2>5,   <2>6,   <2>7 DEF CoreInv
<1> QED BY <1>1, <1>2 DEF CancelLoadRules

(* Cancel locks all tickets of its purchase.                               *)
LEMMA CancelFlipTicketsStep ==
  ASSUME CoreInv, NEW c \in Conns, CancelFlipTickets(c)
  PROVE  CoreInv' /\ (Conservation => Conservation')
<1> USE RowsAssumption DEF CoreInv, CancelFlipTickets, Step, Goto, rowVars, saleVars, localVars, Buying, BuyLocked, CanRestored, CanFlipped, CanLocked, Cancelling, Voiding, Steps
<1>1. TypeOK'
  BY SMTT(20) DEF TypeOK
<1>2. LockInv'
  BY SMTT(20) DEF LockInv, TypeOK, HoldsTier, HoldsPurchase, HoldsTicket, HoldsEvent, TicketsFree, TicketFree
<1>3. BuyInv'
  BY SMTT(20) DEF BuyInv, TypeOK, LockInv, HoldsTier, HoldsEvent
<1>4. CancelInv'
  BY SMTT(20) DEF CancelInv, TypeOK
<1>5. VoidInv'
  BY SMTT(20) DEF VoidInv, TypeOK
<1>6. TicketInv'
  BY SMTT(20) DEF TicketInv, RefundedIsWhole, TypeOK
<1>7. Conservation => Conservation'
  BY ConservationKept DEF rowVars, saleVars
<1> QED BY <1>1, <1>2, <1>3, <1>4, <1>5, <1>6, <1>7 DEF CoreInv

(* Cancel waits for the tier, or is rolled back by the table's CHECK.      *)
LEMMA CancelRestoreTierStep ==
  ASSUME CoreInv, NEW c \in Conns, CancelRestoreTier(c)
  PROVE  CoreInv' /\ (Conservation => Conservation')
<1>1. CASE Reject(c, "can_tier")
  BY <1>1, QuitStep DEF Reject
<1>2. CASE /\ TierFree(TierOf[work[c]])
           /\ Step(c, "can_tier", "can_event")
           /\ UNCHANGED <<now, rowVars, localVars>>
  <2> USE <1>2, RowsAssumption DEF CoreInv, Step, Goto, rowVars, saleVars, localVars, Buying, BuyLocked, CanRestored, CanFlipped, CanLocked, Cancelling, Voiding, Steps
  <2>1. TypeOK'
    BY SMTT(20) DEF TypeOK
  <2>2. LockInv'
    BY SMTT(20) DEF LockInv, TypeOK, HoldsTier, HoldsPurchase, HoldsTicket, HoldsEvent, TierFree
  <2>3. BuyInv'
    BY SMTT(20) DEF BuyInv, TypeOK, LockInv, HoldsTier, HoldsEvent
  <2>4. CancelInv'
    BY SMTT(20) DEF CancelInv, TypeOK
  <2>5. VoidInv'
    BY SMTT(20) DEF VoidInv, TypeOK
  <2>6. TicketInv'
    BY SMTT(20) DEF TicketInv, RefundedIsWhole, TypeOK
  <2>7. Conservation => Conservation'
    BY ConservationKept DEF rowVars, saleVars
  <2> QED BY   <2>1,   <2>2,   <2>3,   <2>4,   <2>5,   <2>6,   <2>7 DEF CoreInv
<1> QED BY <1>1, <1>2 DEF CancelRestoreTier

(* flipEventStatus locks a sold_out event, or skips it.                    *)
LEMMA CancelFlipEventStep ==
  ASSUME CoreInv, NEW c \in Conns, CancelFlipEvent(c)
  PROVE  CoreInv' /\ (Conservation => Conservation')
<1> DEFINE e == EventOfPurchase(work[c])
<1>1. CASE ~Reopens(e) /\ Step(c, "can_event", "can_commit") /\ UNCHANGED <<now, rowVars, localVars>>
  <2> USE <1>1, RowsAssumption DEF CoreInv, Step, Goto, rowVars, saleVars, localVars, Buying, BuyLocked, CanRestored, CanFlipped, CanLocked, Cancelling, Voiding, Steps
  <2>1. TypeOK'
    BY SMTT(20) DEF TypeOK
  <2>2. LockInv'
    BY SMTT(20) DEF LockInv, TypeOK, HoldsTier, HoldsPurchase, HoldsTicket, HoldsEvent
  <2>3. BuyInv'
    BY SMTT(20) DEF BuyInv, TypeOK, LockInv, HoldsTier, HoldsEvent
  <2>4. CancelInv'
    BY SMTT(20) DEF CancelInv, TypeOK
  <2>5. VoidInv'
    BY SMTT(20) DEF VoidInv, TypeOK
  <2>6. TicketInv'
    BY SMTT(20) DEF TicketInv, RefundedIsWhole, TypeOK
  <2>7. Conservation => Conservation'
    BY ConservationKept DEF rowVars, saleVars
  <2> QED BY   <2>1,   <2>2,   <2>3,   <2>4,   <2>5,   <2>6,   <2>7 DEF CoreInv
<1>2. CASE Reopens(e) /\ EventFree(e) /\ Step(c, "can_event", "can_commit_flip") /\ UNCHANGED <<now, rowVars, localVars>>
  <2> USE <1>2, RowsAssumption DEF CoreInv, Step, Goto, rowVars, saleVars, localVars, Buying, BuyLocked, CanRestored, CanFlipped, CanLocked, Cancelling, Voiding, Steps
  <2>1. TypeOK'
    BY SMTT(20) DEF TypeOK
  <2>2. LockInv'
    BY SMTT(20) DEF LockInv, TypeOK, HoldsTier, HoldsPurchase, HoldsTicket, HoldsEvent, EventFree
  <2>3. BuyInv'
    BY SMTT(20) DEF BuyInv, TypeOK, LockInv, HoldsTier, HoldsEvent, Reopens
  <2>4. CancelInv'
    BY SMTT(20) DEF CancelInv, TypeOK, Reopens
  <2>5. VoidInv'
    BY SMTT(20) DEF VoidInv, TypeOK
  <2>6. TicketInv'
    BY SMTT(20) DEF TicketInv, RefundedIsWhole, TypeOK
  <2>7. Conservation => Conservation'
    BY ConservationKept DEF rowVars, saleVars
  <2> QED BY   <2>1,   <2>2,   <2>3,   <2>4,   <2>5,   <2>6,   <2>7 DEF CoreInv
<1> QED BY <1>1, <1>2 DEF CancelFlipEvent

(* Enqueueing the waitlist task touches no row.                            *)
LEMMA EnqueueStep ==
  ASSUME CoreInv, NEW c \in Conns, Enqueue(c)
  PROVE  CoreInv' /\ (Conservation => Conservation')
<1> USE RowsAssumption DEF CoreInv, Enqueue, Step, Goto, rowVars, saleVars, localVars, Buying, BuyLocked, CanRestored, CanFlipped, CanLocked, Cancelling, Voiding, Steps, Finish
<1>1. TypeOK'
  <2>1. work[c] \in Purchases /\ TierOf[work[c]] \in Tiers
    BY DEF TypeOK
  <2>2. promotions \in [Tiers -> Nat]
    BY DEF TypeOK
  <2>3. \/ promotions' = [promotions EXCEPT ![TierOf[work[c]]] = @ + 1]
        \/ promotions' = promotions
    OBVIOUS
  <2>4. promotions' \in [Tiers -> Nat]
    BY ONLY <2>1, <2>2, <2>3
  <2> QED BY <2>1, <2>4, SMTT(20) DEF TypeOK
<1>2. LockInv'
  BY SMTT(20) DEF LockInv, TypeOK, HoldsTier, HoldsPurchase, HoldsTicket, HoldsEvent
<1>3. BuyInv'
  BY SMTT(20) DEF BuyInv, TypeOK, LockInv, HoldsTier, HoldsEvent
<1>4. CancelInv'
  BY SMTT(20) DEF CancelInv, TypeOK
<1>5. VoidInv'
  BY SMTT(20) DEF VoidInv, TypeOK
<1>6. TicketInv'
  BY SMTT(20) DEF TicketInv, RefundedIsWhole, TypeOK
<1>7. Conservation => Conservation'
  BY ConservationKept DEF rowVars, saleVars
<1> QED BY <1>1, <1>2, <1>3, <1>4, <1>5, <1>6, <1>7 DEF CoreInv

(* The organizer's cancel stops every flip of the event: it waits for the  *)
(* row, and nobody flips a cancelled one.                                  *)
LEMMA CancelEventStep ==
  ASSUME CoreInv, NEW c \in Conns, NEW e \in Events, CancelEvent(c, e)
  PROVE  CoreInv' /\ (Conservation => Conservation')
<1> USE RowsAssumption DEF CoreInv, CancelEvent, Step, Goto, rowVars, saleVars, localVars, Buying, BuyLocked, CanRestored, CanFlipped, CanLocked, Cancelling, Voiding, Steps, Start, OnSale
<1>1. TypeOK'
  BY SMTT(20) DEF TypeOK
<1>2. LockInv'
  BY SMTT(20) DEF LockInv, TypeOK, HoldsTier, HoldsPurchase, HoldsTicket, HoldsEvent, VoidInv
<1>3. BuyInv'
  BY SMTT(20) DEF BuyInv, TypeOK, LockInv, HoldsTier, HoldsEvent, EventFree
<1>4. CancelInv'
  BY SMTT(20) DEF CancelInv, TypeOK, EventFree, HoldsEvent, EventOfPurchase
<1>5. VoidInv'
  BY SMTT(20) DEF VoidInv, TypeOK
<1>6. TicketInv'
  BY SMTT(20) DEF TicketInv, RefundedIsWhole, TypeOK
<1>7. Conservation => Conservation'
  BY SMTT(20), SoldFinite DEF Conservation, SoldTickets, TypeOK, OnSale
<1> QED BY <1>1, <1>2, <1>3, <1>4, <1>5, <1>6, <1>7 DEF CoreInv

(* The snapshot of CancelByEvent's first statement holds confirmed         *)
(* purchases of its event.                                                 *)
LEMMA VoidBeginStep ==
  ASSUME CoreInv, NEW c \in Conns, VoidBegin(c)
  PROVE  CoreInv' /\ (Conservation => Conservation')
<1> USE RowsAssumption DEF CoreInv, VoidBegin, Step, Goto, rowVars, saleVars, localVars, Buying, BuyLocked, CanRestored, CanFlipped, CanLocked, Cancelling, Voiding, Steps
<1>1. TypeOK'
  BY SMTT(20) DEF TypeOK, PurchasesOf
<1>2. LockInv'
  BY SMTT(20) DEF LockInv, TypeOK, HoldsTier, HoldsPurchase, HoldsTicket, HoldsEvent
<1>3. BuyInv'
  BY SMTT(20) DEF BuyInv, TypeOK, LockInv, HoldsTier, HoldsEvent
<1>4. CancelInv'
  BY SMTT(20) DEF CancelInv, TypeOK
<1>5. VoidInv'
  BY SMTT(20) DEF VoidInv, TypeOK, PurchasesOf
<1>6. TicketInv'
  BY SMTT(20) DEF TicketInv, RefundedIsWhole, TypeOK
<1>7. Conservation => Conservation'
  BY ConservationKept DEF rowVars, saleVars
<1> QED BY <1>1, <1>2, <1>3, <1>4, <1>5, <1>6, <1>7 DEF CoreInv

(* CancelByEvent flips a purchase it has waited for only when that is      *)
(* still confirmed.                                                        *)
LEMMA VoidPurchaseStep ==
  ASSUME CoreInv, NEW c \in Conns, NEW p \in Purchases, VoidPurchase(c, p)
  PROVE  CoreInv' /\ (Conservation => Conservation')
<1> USE RowsAssumption DEF CoreInv, VoidPurchase, Step, Goto, rowVars, saleVars, localVars, Buying, BuyLocked, CanRestored, CanFlipped, CanLocked, Cancelling, Voiding, Steps
<1>1. TypeOK'
  BY SMTT(20) DEF TypeOK
<1>2. LockInv'
  BY SMTT(20) DEF LockInv, TypeOK, HoldsTier, HoldsPurchase, HoldsTicket, HoldsEvent, PurchaseFree
<1>3. BuyInv'
  BY SMTT(20) DEF BuyInv, TypeOK, LockInv, HoldsTier, HoldsEvent
<1>4. CancelInv'
  BY SMTT(20) DEF CancelInv, TypeOK
<1>5. VoidInv'
  BY SMTT(20) DEF VoidInv, TypeOK
<1>6. TicketInv'
  BY SMTT(20) DEF TicketInv, RefundedIsWhole, TypeOK
<1>7. Conservation => Conservation'
  BY ConservationKept DEF rowVars, saleVars
<1> QED BY <1>1, <1>2, <1>3, <1>4, <1>5, <1>6, <1>7 DEF CoreInv

(* The second statement's snapshot has every flipped purchase that still   *)
(* has a valid ticket.                                                     *)
LEMMA VoidBeginTicketsStep ==
  ASSUME CoreInv, NEW c \in Conns, VoidBeginTickets(c)
  PROVE  CoreInv' /\ (Conservation => Conservation')
<1> USE RowsAssumption DEF CoreInv, VoidBeginTickets, Step, Goto, rowVars, saleVars, localVars, Buying, BuyLocked, CanRestored, CanFlipped, CanLocked, Cancelling, Voiding, Steps
<1>1. TypeOK'
  BY SMTT(20) DEF TypeOK, PurchasesOf
<1>2. LockInv'
  BY SMTT(20) DEF LockInv, TypeOK, HoldsTier, HoldsPurchase, HoldsTicket, HoldsEvent
<1>3. BuyInv'
  BY SMTT(20) DEF BuyInv, TypeOK, LockInv, HoldsTier, HoldsEvent
<1>4. CancelInv'
  BY SMTT(20) DEF CancelInv, TypeOK
<1>5. VoidInv'
  <2>1. todo' = [todo EXCEPT ![c] = {p \in Purchases : EventOfPurchase(p) = work[c] /\ HasLiveTicket(p)}]
    BY DEF PurchasesOf
  <2>2. ASSUME NEW p \in flipped[c]
        PROVE  p \in Purchases /\ (HasLiveTicket(p) \/ \A k \in TicketsOf[p] : ticket[k] = "cancelled")
    BY <2>2, SMTT(20) DEF HasLiveTicket, TicketInv, RefundedIsWhole, VoidInv, TypeOK
  <2>3. \A p \in Purchases : HasLiveTicket(p) => purchase[p] # "none"
    BY SMTT(20) DEF HasLiveTicket, TicketInv, RefundedIsWhole, TypeOK
  <2> QED BY <2>1, <2>2, <2>3, SMTT(20) DEF VoidInv, TypeOK
<1>6. TicketInv'
  BY SMTT(20) DEF TicketInv, RefundedIsWhole, TypeOK
<1>7. Conservation => Conservation'
  BY ConservationKept DEF rowVars, saleVars
<1> QED BY <1>1, <1>2, <1>3, <1>4, <1>5, <1>6, <1>7 DEF CoreInv

(* CancelByEvent locks the tickets of one purchase of its snapshot after   *)
(* the other.                                                              *)
LEMMA VoidTicketsStep ==
  ASSUME CoreInv, NEW c \in Conns, NEW p \in Purchases, VoidTickets(c, p)
  PROVE  CoreInv' /\ (Conservation => Conservation')
<1> USE RowsAssumption DEF CoreInv, VoidTickets, Step, Goto, rowVars, saleVars, localVars, Buying, BuyLocked, CanRestored, CanFlipped, CanLocked, Cancelling, Voiding, Steps
<1>1. TypeOK'
  BY SMTT(20) DEF TypeOK
<1>2. LockInv'
  BY SMTT(20) DEF LockInv, TypeOK, HoldsTier, HoldsPurchase, HoldsTicket, HoldsEvent, TicketFree, TicketsFree
<1>3. BuyInv'
  BY SMTT(20) DEF BuyInv, TypeOK, LockInv, HoldsTier, HoldsEvent
<1>4. CancelInv'
  BY SMTT(20) DEF CancelInv, TypeOK
<1>5. VoidInv'
  BY SMTT(20) DEF VoidInv, TypeOK
<1>6. TicketInv'
  BY SMTT(20) DEF TicketInv, RefundedIsWhole, TypeOK
<1>7. Conservation => Conservation'
  BY ConservationKept DEF rowVars, saleVars
<1> QED BY <1>1, <1>2, <1>3, <1>4, <1>5, <1>6, <1>7 DEF CoreInv

(* CheckIn locks a ticket that is unused and that nobody holds.            *)
LEMMA CheckInLockStep ==
  ASSUME CoreInv, NEW c \in Conns, NEW k \in Tickets, CheckInLock(c, k)
  PROVE  CoreInv' /\ (Conservation => Conservation')
<1> USE RowsAssumption DEF CoreInv, CheckInLock, Step, Goto, rowVars, saleVars, localVars, Buying, BuyLocked, CanRestored, CanFlipped, CanLocked, Cancelling, Voiding, Steps, Start
<1>1. TypeOK'
  BY SMTT(20) DEF TypeOK
<1>2. LockInv'
  <2> SUFFICES ASSUME NEW a \in Conns, NEW b \in Conns, a # b
               PROVE  /\ \A t \in Tiers : ~(HoldsTier(a, t)' /\ HoldsTier(b, t)')
                      /\ \A p \in Purchases : ~(HoldsPurchase(a, p)' /\ HoldsPurchase(b, p)')
                      /\ \A j \in Tickets : ~(HoldsTicket(a, j)' /\ HoldsTicket(b, j)')
                      /\ \A e \in Events : ~(HoldsEvent(a, e)' /\ HoldsEvent(b, e)')
    BY DEF LockInv
  <2>1. \A t \in Tiers : ~(HoldsTier(a, t)' /\ HoldsTier(b, t)')
    BY SMTT(20) DEF LockInv, TypeOK, HoldsTier
  <2>2. \A p \in Purchases : ~(HoldsPurchase(a, p)' /\ HoldsPurchase(b, p)')
    BY SMTT(20) DEF LockInv, TypeOK, HoldsPurchase
  <2>3. \A j \in Tickets : ~(HoldsTicket(a, j)' /\ HoldsTicket(b, j)')
    BY SMTT(20) DEF LockInv, TypeOK, HoldsTicket, TicketFree
  <2>4. \A e \in Events : ~(HoldsEvent(a, e)' /\ HoldsEvent(b, e)')
    BY SMTT(20) DEF LockInv, TypeOK, HoldsEvent
  <2> QED BY <2>1, <2>2, <2>3, <2>4
<1>3. BuyInv'
  BY SMTT(20) DEF BuyInv, TypeOK, LockInv, HoldsTier, HoldsEvent
<1>4. CancelInv'
  BY SMTT(20) DEF CancelInv, TypeOK
<1>5. VoidInv'
  BY SMTT(20) DEF VoidInv, TypeOK
<1>6. TicketInv'
  BY SMTT(20) DEF TicketInv, RefundedIsWhole, TypeOK, MayEnter
<1>7. Conservation => Conservation'
  BY ConservationKept DEF rowVars, saleVars
<1> QED BY <1>1, <1>2, <1>3, <1>4, <1>5, <1>6, <1>7 DEF CoreInv

(* The sale: what leaves remaining arrives in the tickets sold, and        *)
(* whoever else is buying from the tier has not been granted its lock.     *)
LEMMA BuyCommitStep ==
  ASSUME CoreInv, NEW c \in Conns, BuyCommit(c)
  PROVE  CoreInv' /\ (Conservation => Conservation')
<1> USE RowsAssumption
<1>a. pc[c] \in BuyLocked \ {"buy_rules"} /\ pc[c] \in Buying
  BY DEF BuyCommit, Buying, BuyLocked
<1>b. PICK p \in Purchases : p = work[c]
  BY <1>a DEF CoreInv, TypeOK
<1> DEFINE t == TierOf[p]
           e == EventOf[t]
<1>1. /\ p = work[c] /\ t \in Tiers /\ e \in Events
      /\ pc[c] \in BuyLocked \ {"buy_rules"} /\ pc[c] \in Buying
      /\ purchase[p] = "none"
      /\ remaining[t] >= Quantity(p)
  BY <1>a, <1>b DEF CoreInv, BuyInv
<1>0. Quantity(p) \in Nat /\ Cardinality(SoldTickets(t)) \in Nat
  BY <1>1, QuantityNat, SoldFinite
<1>2. /\ pc' = [pc EXCEPT ![c] = "idle"]
      /\ work' = [work EXCEPT ![c] = Nothing]
      /\ wasSoldOut' = [wasSoldOut EXCEPT ![c] = FALSE]
      /\ todo' = [todo EXCEPT ![c] = {}]
      /\ flipped' = [flipped EXCEPT ![c] = {}]
      /\ voided' = [voided EXCEPT ![c] = {}]
      /\ UNCHANGED <<now, quantity, admitted, promotions>>
  BY DEF BuyCommit, Finish, Goto, SellTier
<1>3. /\ remaining' = [remaining EXCEPT ![t] = @ - Quantity(p)]
      /\ purchase' = [purchase EXCEPT ![p] = "confirmed"]
      /\ ticket' = [k \in Tickets |-> IF k \in TicketsOf[p] THEN "unused" ELSE ticket[k]]
  BY <1>1 DEF BuyCommit, SellTier, SetTickets
<1>4. eventStatus' = IF pc[c] = "buy_commit_flip" THEN [eventStatus EXCEPT ![e] = "sold_out"] ELSE eventStatus
  BY <1>1 DEF BuyCommit, EventOfPurchase
<1>5. tierStatus' = [tierStatus EXCEPT ![t] = TierStatusAfterSale(remaining[t] - Quantity(p))]
  BY <1>1 DEF BuyCommit, SellTier
<1>6. ASSUME NEW d \in Conns, d # c
      PROVE  /\ pc[d] \in BuyLocked \cup CanRestored => TierOf[work[d]] # t
             /\ pc[d] \in Buying => work[d] # p
             /\ pc[d] \in {"buy_commit_flip", "can_commit_flip"} /\ pc[c] = "buy_commit_flip"
                   => EventOfPurchase(work[d]) # e
  BY <1>1, <1>6, SMTT(20) DEF CoreInv, LockInv, BuyInv, HoldsTier, HoldsEvent, EventOfPurchase
<1>7. \A k \in TicketsOf[p] : k \in Tickets /\ ticket[k] = "none"
  BY <1>1 DEF CoreInv, TicketInv, RefundedIsWhole
<1>8. \A f \in Events : eventStatus[f] = "cancelled" => eventStatus'[f] = "cancelled"
  BY <1>1, <1>4, SMTT(20) DEF CoreInv, TypeOK, BuyInv, EventOfPurchase
<1>9. \A q \in Purchases \ {p} : \A k \in TicketsOf[q] : ticket'[k] = ticket[k]
  BY <1>1, <1>3
<1>11. TypeOK'
  <2>1. tierStatus' \in [Tiers -> {"available", "sold_out"}]
    BY <1>1, <1>5 DEF CoreInv, TypeOK, TierStatusAfterSale
  <2>2. remaining' \in [Tiers -> Nat]
    BY <1>0, <1>1, <1>3 DEF CoreInv, TypeOK
  <2> QED BY <1>1, <1>2, <1>3, <1>4, <2>1, <2>2, SMTT(20) DEF CoreInv, TypeOK, Buying, BuyLocked, CanRestored, CanFlipped, CanLocked, Cancelling, Voiding, Steps
<1>12. LockInv'
  BY <1>1, <1>2, SMTT(20) DEF CoreInv, LockInv, TypeOK, HoldsTier, HoldsPurchase, HoldsTicket, HoldsEvent, Buying, BuyLocked, CanRestored, CanFlipped, CanLocked, Cancelling, Voiding, Steps
<1>13. BuyInv'
  <2> SUFFICES ASSUME NEW d \in Conns
               PROVE  /\ (pc[d] \in Buying => purchase[work[d]] = "none")'
                      /\ (pc[d] \in BuyLocked \ {"buy_rules"} =>
                             remaining[TierOf[work[d]]] >= Quantity(work[d]))'
                      /\ (pc[d] = "buy_commit_flip" =>
                             eventStatus[EventOfPurchase(work[d])] = "published")'
                      /\ \A b \in Conns :
                             pc'[d] \in Buying /\ pc'[b] \in Buying /\ work'[d] = work'[b] => d = b
    BY DEF BuyInv
  <2>1. CASE d = c
    BY <2>1, <1>1, <1>2, SMTT(20) DEF CoreInv, TypeOK, Buying, BuyLocked
  <2>2. CASE d # c
    <3>1. pc'[d] = pc[d] /\ work'[d] = work[d]
      BY <2>2, <1>2 DEF CoreInv, TypeOK
    <3>2. (pc[d] \in Buying => purchase[work[d]] = "none")'
      BY <2>2, <1>1, <1>3, <1>6, <3>1, SMTT(20) DEF CoreInv, TypeOK, BuyInv
    <3>3. (pc[d] \in BuyLocked \ {"buy_rules"} => remaining[TierOf[work[d]]] >= Quantity(work[d]))'
      BY <2>2, <1>1, <1>3, <1>6, <3>1, SMTT(20) DEF CoreInv, TypeOK, BuyInv, Buying, BuyLocked, Quantity
    <3>4. (pc[d] = "buy_commit_flip" => eventStatus[EventOfPurchase(work[d])] = "published")'
      <4>1. CASE pc[c] = "buy_commit_flip"
        <5>1. ASSUME pc[d] = "buy_commit_flip"
              PROVE  /\ EventOfPurchase(work[d]) \in Events \ {e}
                     /\ eventStatus[EventOfPurchase(work[d])] = "published"
          BY <2>2, <1>6, <4>1, <5>1 DEF CoreInv, TypeOK, BuyInv, Buying, BuyLocked, EventOfPurchase
        <5> QED BY <4>1, <5>1, <1>1, <1>4, <3>1 DEF CoreInv, TypeOK, EventOfPurchase
      <4>2. CASE pc[c] # "buy_commit_flip"
        BY <2>2, <1>4, <3>1, <4>2 DEF CoreInv, BuyInv, EventOfPurchase
      <4> QED BY <4>1, <4>2
    <3>5. \A b \in Conns : pc'[d] \in Buying /\ pc'[b] \in Buying /\ work'[d] = work'[b] => d = b
      BY <2>2, <1>2, <3>1, SMTT(20) DEF CoreInv, TypeOK, BuyInv, Buying, BuyLocked
    <3> QED BY <3>2, <3>3, <3>4, <3>5
  <2> QED BY <2>1, <2>2
<1>14. CancelInv'
  BY <1>1, <1>2, <1>3, <1>4, <1>6, SMTT(20) DEF CoreInv, CancelInv, TypeOK, Buying, BuyLocked, CanRestored, CanFlipped, CanLocked, Cancelling, Voiding, Steps, EventOfPurchase
<1>15. VoidInv'
  <2>1. \A d \in Conns : \A q \in flipped[d] : q # p /\ q \in Purchases
    BY <1>1 DEF CoreInv, VoidInv, TypeOK
  <2> QED BY <1>1, <1>2, <1>3, <1>8, <1>9, <2>1, SMTT(20) DEF CoreInv, VoidInv, TypeOK, Voiding
<1>16. TicketInv'
  <2>1. \A d \in Conns : pc'[d] = "scan" => ticket'[work'[d]] = "unused"
    BY <1>1, <1>2, <1>3, <1>7, SMTT(20) DEF CoreInv, TicketInv, TypeOK
  <2>2. \A k \in Tickets : admitted'[k] <= 1 /\ (admitted'[k] = 1 => ticket'[k] \in {"used", "cancelled"})
    BY <1>2, <1>3, <1>7, SMTT(20) DEF CoreInv, TicketInv, TypeOK
  <2>3. \A q \in Purchases : \A k \in TicketsOf[q] :
           /\ purchase'[q] = "cancelled" => ticket'[k] = "cancelled"
           /\ purchase'[q] = "none" => ticket'[k] = "none"
           /\ purchase'[q] = "confirmed" => ticket'[k] # "none"
    BY <1>1, <1>3, <1>7, <1>9, SMTT(20) DEF CoreInv, TicketInv, RefundedIsWhole, TypeOK
  <2> QED BY <2>1, <2>2, <2>3 DEF TicketInv, RefundedIsWhole
<1>17. Conservation => Conservation'
  <2>0. \A q \in Purchases : purchase'[q] = "confirmed" <=> q = p \/ purchase[q] = "confirmed"
    BY <1>1, <1>3 DEF CoreInv, TypeOK
  <2>1. SoldTickets(t)' = SoldTickets(t) \cup TicketsOf[p]
    BY <1>1, <2>0, SMTT(20) DEF SoldTickets
  <2>2. SoldTickets(t) \cap TicketsOf[p] = {}
    BY <1>1, SMTT(20) DEF SoldTickets
  <2>3. Cardinality(SoldTickets(t)') = Cardinality(SoldTickets(t)) + Quantity(p)
    BY <1>1, <2>1, <2>2, SoldFinite, QuantityNat, CardinalityDisjoint DEF Quantity
  <2>4. ASSUME NEW u \in Tiers, u # t
        PROVE  SoldTickets(u)' = SoldTickets(u)
    BY <1>1, <1>3, <2>4, SMTT(20) DEF SoldTickets, CoreInv, TypeOK
  <2>5. ASSUME NEW u \in Tiers
        PROVE  remaining'[u] + Cardinality(SoldTickets(u)') = remaining[u] + Cardinality(SoldTickets(u))
    <3>1. CASE u = t
      BY <3>1, <1>0, <1>1, <1>3, <2>3 DEF CoreInv, TypeOK
    <3>2. CASE u # t
      BY <3>2, <1>3, <2>4 DEF CoreInv, TypeOK
    <3> QED BY <3>1, <3>2
  <2> QED BY <1>2, <1>8, <2>5 DEF CoreInv, Conservation
<1> QED BY <1>11, <1>12, <1>13, <1>14, <1>15, <1>16, <1>17 DEF CoreInv

(* The refund: what leaves the tickets sold comes back to remaining, and   *)
(* no other handler counts on the purchase or its tickets.                 *)
LEMMA CancelCommitStep ==
  ASSUME CoreInv, NEW c \in Conns, CancelCommit(c)
  PROVE  CoreInv' /\ (Conservation => Conservation')
<1> USE RowsAssumption
<1>a. pc[c] \in CanRestored /\ pc[c] \in CanFlipped /\ pc[c] \in CanLocked
  BY DEF CancelCommit, CanRestored, CanFlipped, CanLocked
<1>b. PICK p \in Purchases : p = work[c]
  BY <1>a DEF CoreInv, TypeOK, Cancelling
<1> DEFINE t == TierOf[p]
           e == EventOf[t]
<1>0. Quantity(p) \in Nat /\ Cardinality(SoldTickets(t)) \in Nat
  BY QuantityNat, SoldFinite
<1>1. /\ p = work[c] /\ t \in Tiers /\ e \in Events
      /\ purchase[p] = "confirmed"
      /\ pc[c] = "can_commit_flip" => eventStatus[e] = "sold_out"
      /\ todo[c] = {} /\ flipped[c] = {} /\ voided[c] = {}
  BY <1>a, <1>b DEF CoreInv, CancelInv, VoidInv, EventOfPurchase, Buying, BuyLocked, CanRestored, CanFlipped, CanLocked, Cancelling, Voiding, Steps
<1>2. /\ pc' \in [Conns -> Steps] /\ pc'[c] \in {"idle", "enqueue"}
      /\ \A d \in Conns \ {c} : pc'[d] = pc[d] /\ work'[d] = work[d]
      /\ work' \in [Conns -> Purchases \cup Events \cup Tickets \cup {Nothing}]
      /\ pc'[c] = "enqueue" => work'[c] \in Purchases
      /\ wasSoldOut' \in [Conns -> BOOLEAN]
      /\ UNCHANGED <<todo, flipped, voided>>
      /\ UNCHANGED <<now, quantity, admitted, promotions>>
  <2>1. UNCHANGED <<now, quantity, admitted, promotions>>
    BY DEF CancelCommit, RestockTier
  <2>2. /\ pc \in [Conns -> Steps] /\ "idle" \in Steps /\ "enqueue" \in Steps
        /\ work \in [Conns -> Purchases \cup Events \cup Tickets \cup {Nothing}]
        /\ wasSoldOut \in [Conns -> BOOLEAN]
        /\ todo \in [Conns -> SUBSET Purchases]
        /\ flipped \in [Conns -> SUBSET Purchases]
        /\ voided \in [Conns -> SUBSET Purchases]
    BY DEF CoreInv, TypeOK, Steps
  <2>3. CASE wasSoldOut[c]
    <3>1. pc' = [pc EXCEPT ![c] = "enqueue"] /\ UNCHANGED <<work, wasSoldOut, todo, flipped, voided>>
      BY <2>3 DEF CancelCommit, Goto, localVars
    <3> QED BY ONLY <3>1, <2>1, <2>2, <1>1, c \in Conns
  <2>4. CASE ~wasSoldOut[c]
    <3>1. /\ pc' = [pc EXCEPT ![c] = "idle"]
          /\ work' = [work EXCEPT ![c] = Nothing]
          /\ wasSoldOut' = [wasSoldOut EXCEPT ![c] = FALSE]
          /\ todo' = [todo EXCEPT ![c] = {}]
          /\ flipped' = [flipped EXCEPT ![c] = {}]
          /\ voided' = [voided EXCEPT ![c] = {}]
      BY <2>4 DEF CancelCommit, Finish, Goto
    <3>2. todo' = todo /\ flipped' = flipped /\ voided' = voided
      BY ONLY <3>1, <2>2, <1>1, c \in Conns
    <3> QED BY ONLY <3>1, <3>2, <2>1, <2>2, c \in Conns
  <2> QED BY <2>3, <2>4
<1>3. /\ remaining' = [remaining EXCEPT ![t] = @ + Quantity(p)]
      /\ tierStatus' = [tierStatus EXCEPT ![t] = "available"]
      /\ purchase' = [purchase EXCEPT ![p] = "cancelled"]
      /\ ticket' = [k \in Tickets |-> IF k \in TicketsOf[p] THEN "cancelled" ELSE ticket[k]]
  BY <1>1 DEF CancelCommit, RestockTier, SetTickets
<1>4. eventStatus' = IF pc[c] = "can_commit_flip" THEN [eventStatus EXCEPT ![e] = "published"] ELSE eventStatus
  BY <1>1 DEF CancelCommit, EventOfPurchase
<1>6. ASSUME NEW d \in Conns, d # c
      PROVE  /\ pc[d] \in CanLocked => work[d] # p
             /\ pc[d] \in Buying => work[d] # p
             /\ pc[d] = "scan" => work[d] \notin TicketsOf[p]
             /\ p \notin flipped[d]
             /\ pc[d] = "can_commit_flip" /\ pc[c] = "can_commit_flip" => EventOfPurchase(work[d]) # e
  <2>1. pc[d] \in CanLocked => work[d] # p
    BY <1>a, <1>1, <1>6 DEF CoreInv, LockInv, HoldsPurchase
  <2>2. pc[d] \in Buying => work[d] # p
    BY <1>1 DEF CoreInv, BuyInv
  <2>3. pc[d] = "scan" => work[d] \notin TicketsOf[p]
    BY <1>a, <1>1, <1>6 DEF CoreInv, LockInv, HoldsTicket
  <2>4. p \notin flipped[d]
    BY <1>a, <1>1, <1>6 DEF CoreInv, LockInv, HoldsPurchase, VoidInv, Voiding
  <2>5. pc[d] = "can_commit_flip" /\ pc[c] = "can_commit_flip" => EventOfPurchase(work[d]) # e
    BY <1>1, <1>6 DEF CoreInv, LockInv, HoldsEvent, EventOfPurchase
  <2> QED BY <2>1, <2>2, <2>3, <2>4, <2>5
<1>8. \A f \in Events : eventStatus[f] = "cancelled" <=> eventStatus'[f] = "cancelled"
  BY <1>1, <1>4 DEF CoreInv, TypeOK
<1>9. \A q \in Purchases \ {p} : \A k \in TicketsOf[q] : ticket'[k] = ticket[k]
  BY <1>1, <1>3
<1>11. TypeOK'
  <2>1. remaining' \in [Tiers -> Nat]
    BY <1>0, <1>1, <1>3 DEF CoreInv, TypeOK
  <2>2. \A d \in Conns :
           /\ pc'[d] \in Buying \cup Cancelling \cup {"enqueue"} => work'[d] \in Purchases
           /\ pc'[d] \in Voiding => work'[d] \in Events
           /\ pc'[d] = "scan" => work'[d] \in Tickets
    <3> TAKE d \in Conns
    <3>1. CASE d = c
      BY <3>1, <1>2 DEF Buying, BuyLocked, CanRestored, CanFlipped, CanLocked, Cancelling, Voiding
    <3>2. CASE d # c
      BY <3>2, <1>2 DEF CoreInv, TypeOK
    <3> QED BY <3>1, <3>2
  <2>3. /\ eventStatus' \in [Events -> {"published", "sold_out", "cancelled", "ended"}]
        /\ tierStatus' \in [Tiers -> {"available", "sold_out"}]
        /\ purchase' \in [Purchases -> {"none", "confirmed", "cancelled"}]
        /\ ticket' \in [Tickets -> {"none", "unused", "used", "cancelled"}]
    BY <1>1, <1>3, <1>4 DEF CoreInv, TypeOK
  <2> QED BY <1>2, <2>1, <2>2, <2>3 DEF CoreInv, TypeOK
<1>12. LockInv'
  <2>1. \A d \in Conns :
           /\ \A u \in Tiers : HoldsTier(d, u)' => HoldsTier(d, u)
           /\ \A q \in Purchases : HoldsPurchase(d, q)' => HoldsPurchase(d, q)
           /\ \A k \in Tickets : HoldsTicket(d, k)' => HoldsTicket(d, k)
           /\ \A f \in Events : HoldsEvent(d, f)' => HoldsEvent(d, f)
    <3> TAKE d \in Conns
    <3>1. CASE d = c
      BY <3>1, <1>1, <1>2 DEF HoldsTier, HoldsPurchase, HoldsTicket, HoldsEvent, BuyLocked, CanRestored, CanFlipped, CanLocked, Voiding
    <3>2. CASE d # c
      BY <3>2, <1>2 DEF HoldsTier, HoldsPurchase, HoldsTicket, HoldsEvent, EventOfPurchase
    <3> QED BY <3>1, <3>2
  <2> QED BY <2>1 DEF CoreInv, LockInv
<1>13. BuyInv'
  <2>1. \A u \in Tiers : remaining'[u] >= remaining[u]
    BY <1>0, <1>1, <1>3 DEF CoreInv, TypeOK
  <2>2. \A q \in Purchases : Quantity(q) \in Nat /\ (purchase[q] = "none" => purchase'[q] = "none")
    BY <1>1, <1>3, QuantityNat DEF CoreInv, TypeOK
  <2>3. \A f \in Events : eventStatus[f] = "published" => eventStatus'[f] = "published"
    BY <1>1, <1>4 DEF CoreInv, TypeOK
  <2>4. remaining \in [Tiers -> Nat] /\ remaining' \in [Tiers -> Nat]
    BY <1>11 DEF CoreInv, TypeOK
  <2>5. pc'[c] \notin Buying
    BY <1>2 DEF Buying, BuyLocked
  <2>6. ASSUME NEW d \in Conns, pc'[d] \in Buying
        PROVE  /\ d # c /\ pc'[d] = pc[d] /\ work'[d] = work[d]
               /\ work[d] \in Purchases /\ TierOf[work[d]] \in Tiers
               /\ EventOfPurchase(work[d]) \in Events
    BY <2>5, <2>6, <1>2 DEF CoreInv, TypeOK, EventOfPurchase
  <2>7. ASSUME NEW d \in Conns
        PROVE  /\ pc'[d] \in Buying => purchase'[work'[d]] = "none"
               /\ pc'[d] \in BuyLocked \ {"buy_rules"} =>
                     remaining'[TierOf[work'[d]]] >= Quantity(work'[d])
               /\ pc'[d] = "buy_commit_flip" =>
                     eventStatus'[EventOfPurchase(work'[d])] = "published"
    <3>1. CASE pc'[d] \in Buying
      <4>1. pc[d] \in BuyLocked \ {"buy_rules"} => remaining[TierOf[work[d]]] >= Quantity(work[d])
        BY DEF CoreInv, BuyInv
      <4>2. pc[d] \in BuyLocked \ {"buy_rules"} =>
               remaining'[TierOf[work[d]]] >= Quantity(work[d])
        BY <3>1, <4>1, <2>1, <2>2, <2>4, <2>6
      <4>3. pc[d] = "buy_commit_flip" => eventStatus'[EventOfPurchase(work[d])] = "published"
        BY <3>1, <2>3, <2>6 DEF CoreInv, BuyInv
      <4>4. purchase'[work[d]] = "none"
        BY <3>1, <2>2, <2>6 DEF CoreInv, BuyInv
      <4> QED BY <3>1, <2>6, <4>2, <4>3, <4>4
    <3>2. CASE pc'[d] \notin Buying
      BY <3>2 DEF Buying, BuyLocked
    <3> QED BY <3>1, <3>2
  <2>8. ASSUME NEW d \in Conns, NEW b \in Conns,
               pc'[d] \in Buying, pc'[b] \in Buying, work'[d] = work'[b]
        PROVE  d = b
    BY <2>6, <2>8 DEF CoreInv, BuyInv
  <2> QED BY <2>7, <2>8 DEF BuyInv, Quantity, EventOfPurchase
<1>14. CancelInv'
  <2> SUFFICES ASSUME NEW d \in Conns
               PROVE  /\ pc'[d] \in CanLocked => purchase'[work'[d]] = "confirmed"
                      /\ pc'[d] = "can_commit_flip" =>
                             eventStatus'[EventOfPurchase(work'[d])] = "sold_out"
    BY DEF CancelInv, EventOfPurchase
  <2>1. CASE d = c
    BY <2>1, <1>2 DEF Buying, BuyLocked, CanRestored, CanFlipped, CanLocked, Cancelling, Voiding, Steps
  <2>2. CASE d # c
    <3>1. pc'[d] = pc[d] /\ work'[d] = work[d]
      BY <2>2, <1>2 DEF CoreInv, TypeOK
    <3>2. pc[d] \in CanLocked => purchase'[work[d]] = "confirmed"
      BY <2>2, <1>3, <1>6 DEF CoreInv, TypeOK, CancelInv
    <3>3. pc[d] = "can_commit_flip" => eventStatus'[EventOfPurchase(work[d])] = "sold_out"
      <4>1. CASE pc[c] = "can_commit_flip"
        BY <2>2, <1>1, <1>4, <1>6, <4>1 DEF CoreInv, TypeOK, CancelInv, EventOfPurchase
      <4>2. CASE pc[c] # "can_commit_flip"
        BY <1>4, <4>2 DEF CoreInv, CancelInv
      <4> QED BY <4>1, <4>2
    <3> QED BY <3>1, <3>2, <3>3
  <2> QED BY <2>1, <2>2
<1>15. VoidInv'
  <2>1. \A d \in Conns : p \notin flipped[d]
    BY <1>1, <1>6
  <2>2. \A q \in Purchases :
           /\ purchase[q] # "none" => purchase'[q] # "none"
           /\ q # p => purchase'[q] = purchase[q]
    BY <1>1, <1>3 DEF CoreInv, TypeOK
  <2>3. \A d \in Conns : pc'[d] \in Voiding => pc'[d] = pc[d] /\ work'[d] = work[d]
    BY <1>2 DEF Voiding
  <2>4. todo[c] = {} /\ flipped[c] = {} /\ voided[c] = {} /\ pc[c] \notin Voiding
    BY <1>1, <1>a DEF CanRestored, Voiding
  <2>5. ASSUME NEW d \in Conns
        PROVE  /\ pc'[d] \in Voiding => eventStatus'[work'[d]] = "cancelled"
               /\ \A q \in todo[d] \cup flipped[d] \cup voided[d] : EventOfPurchase(q) = work'[d]
               /\ pc'[d] \notin {"void_purchases", "void_tickets"} => todo[d] = {} /\ flipped[d] = {}
               /\ pc'[d] # "void_tickets" => voided[d] = {}
    BY <1>2, <1>8, <2>3, <2>4 DEF CoreInv, VoidInv, TypeOK, Voiding
  <2>6. ASSUME NEW d \in Conns
        PROVE  /\ \A q \in flipped[d] : purchase'[q] = "confirmed"
               /\ \A q \in todo[d] \cup voided[d] : purchase'[q] # "none"
    <3>1. /\ todo[d] \in SUBSET Purchases /\ voided[d] \in SUBSET Purchases
          /\ flipped[d] \in SUBSET Purchases
      BY DEF CoreInv, TypeOK
    <3>4. \A q \in flipped[d] : purchase[q] = "confirmed"
      BY DEF CoreInv, VoidInv
    <3>5. \A q \in todo[d] \cup voided[d] : purchase[q] # "none"
      BY DEF CoreInv, VoidInv
    <3>2. \A q \in flipped[d] : purchase'[q] = "confirmed"
      BY <3>1, <3>4, <2>1, <2>2
    <3>3. \A q \in todo[d] \cup voided[d] : purchase'[q] # "none"
      BY <3>1, <3>5, <2>2
    <3> QED BY <3>2, <3>3
  <2>7. ASSUME NEW d \in Conns, pc'[d] = "void_tickets"
        PROVE  \A q \in flipped[d] : \/ q \in todo[d] \cup voided[d]
                                     \/ \A k \in TicketsOf[q] : ticket'[k] = "cancelled"
    <3>1. pc[d] = "void_tickets" /\ flipped[d] \in SUBSET (Purchases \ {p})
      BY <2>7, <2>1, <2>3 DEF Voiding, CoreInv, TypeOK
    <3> QED BY <3>1, <1>9 DEF CoreInv, VoidInv
  <2>8. ASSUME NEW d \in Conns
        PROVE  /\ pc'[d] = "void_purchases" => todo[d] \cap flipped[d] = {}
               /\ todo[d] \cap voided[d] = {}
               /\ \A b \in Conns :
                     pc'[d] \in Voiding /\ pc'[b] \in Voiding /\ work'[d] = work'[b] => d = b
    BY <2>3 DEF CoreInv, VoidInv, Voiding
  <2> QED BY <1>2, <2>5, <2>6, <2>7, <2>8 DEF VoidInv, EventOfPurchase
<1>16. TicketInv'
  <2>1. \A d \in Conns : pc'[d] = "scan" => ticket'[work'[d]] = "unused"
    <3> TAKE d \in Conns
    <3>1. CASE d = c
      BY <3>1, <1>2
    <3>2. CASE d # c /\ pc[d] = "scan"
      <4>1. work[d] \in Tickets /\ work[d] \notin TicketsOf[p] /\ ticket[work[d]] = "unused"
        BY <3>2, <1>6 DEF CoreInv, TicketInv, TypeOK
      <4> QED BY <3>2, <4>1, <1>2, <1>3
    <3> QED BY <3>1, <3>2, <1>2
  <2>2. \A k \in Tickets : admitted'[k] <= 1 /\ (admitted'[k] = 1 => ticket'[k] \in {"used", "cancelled"})
    BY <1>2, <1>3, SMTT(20) DEF CoreInv, TicketInv, TypeOK
  <2>3. \A q \in Purchases : \A k \in TicketsOf[q] :
           /\ purchase'[q] = "cancelled" => ticket'[k] = "cancelled"
           /\ purchase'[q] = "none" => ticket'[k] = "none"
           /\ purchase'[q] = "confirmed" => ticket'[k] # "none"
    BY <1>1, <1>3, <1>9, SMTT(20) DEF CoreInv, TicketInv, RefundedIsWhole, TypeOK
  <2> QED BY <2>1, <2>2, <2>3 DEF TicketInv, RefundedIsWhole
<1>17. Conservation => Conservation'
  <2>1. \A q \in Purchases : purchase'[q] = "confirmed" <=> q # p /\ purchase[q] = "confirmed"
    BY <1>1, <1>3 DEF CoreInv, TypeOK
  <2>2. /\ SoldTickets(t) = SoldTickets(t)' \cup TicketsOf[p]
        /\ SoldTickets(t)' \cap TicketsOf[p] = {}
        /\ SoldTickets(t)' \in SUBSET Tickets
    BY <1>1, <2>1, SMTT(20) DEF SoldTickets
  <2>3. IsFiniteSet(SoldTickets(t)') /\ Cardinality(SoldTickets(t)') \in Nat
    BY <2>2, FS_Subset, FS_CardinalityType
  <2>4. Cardinality(SoldTickets(t)) = Cardinality(SoldTickets(t)') + Quantity(p)
    BY <2>2, <2>3, QuantityNat, CardinalityDisjoint DEF Quantity
  <2>5. ASSUME NEW u \in Tiers, u # t
        PROVE  SoldTickets(u)' = SoldTickets(u)
    BY <1>1, <2>1, <2>5, SMTT(20) DEF SoldTickets
  <2>6. ASSUME NEW u \in Tiers
        PROVE  remaining'[u] + Cardinality(SoldTickets(u)') = remaining[u] + Cardinality(SoldTickets(u))
    <3>1. CASE u = t
      BY <3>1, <1>0, <1>1, <1>3, <2>3, <2>4 DEF CoreInv, TypeOK
    <3>2. CASE u # t
      BY <3>2, <1>3, <2>5 DEF CoreInv, TypeOK
    <3> QED BY <3>1, <3>2
  <2> QED BY <1>2, <1>8, <2>6 DEF CoreInv, Conservation
<1> QED BY <1>11, <1>12, <1>13, <1>14, <1>15, <1>16, <1>17 DEF CoreInv

(* The organizer's void: purchases of a cancelled event go without         *)
(* restock, and none keeps a valid ticket.                                 *)
LEMMA VoidCommitStep ==
  ASSUME CoreInv, NEW c \in Conns, VoidCommit(c)
  PROVE  CoreInv' /\ (Conservation => Conservation')
<1> USE RowsAssumption
<1>1. /\ pc[c] = "void_tickets" /\ todo[c] = {}
      /\ work[c] \in Events /\ eventStatus[work[c]] = "cancelled"
      /\ flipped[c] \in SUBSET Purchases /\ voided[c] \in SUBSET Purchases
      /\ \A p \in flipped[c] : purchase[p] = "confirmed" /\ EventOfPurchase(p) = work[c]
      /\ \A p \in voided[c] : purchase[p] # "none"
  BY DEF VoidCommit, CoreInv, TypeOK, VoidInv, Voiding
<1>2. /\ pc' = [pc EXCEPT ![c] = "idle"]
      /\ work' = [work EXCEPT ![c] = Nothing]
      /\ wasSoldOut' = [wasSoldOut EXCEPT ![c] = FALSE]
      /\ todo' = [todo EXCEPT ![c] = {}]
      /\ flipped' = [flipped EXCEPT ![c] = {}]
      /\ voided' = [voided EXCEPT ![c] = {}]
      /\ UNCHANGED <<now, eventStatus, quantity, remaining, tierStatus, admitted, promotions>>
  BY DEF VoidCommit, Finish, Goto, saleVars
<1>3. /\ purchase' = [p \in Purchases |-> IF p \in flipped[c] THEN "cancelled" ELSE purchase[p]]
      /\ ticket' = [k \in Tickets |-> IF \E p \in voided[c] : k \in TicketsOf[p]
                                      THEN "cancelled" ELSE ticket[k]]
  BY DEF VoidCommit, SetTickets
<1>4. \A k \in Tickets : ticket[k] = "cancelled" => ticket'[k] = "cancelled"
  BY <1>3
<1>5. \A p \in flipped[c] : \A k \in TicketsOf[p] : ticket'[k] = "cancelled"
  <2>1. \A p \in flipped[c] : p \in voided[c] \/ \A k \in TicketsOf[p] : ticket[k] = "cancelled"
    BY <1>1 DEF CoreInv, VoidInv
  <2>2. \A p \in flipped[c] : \A k \in TicketsOf[p] : k \in Tickets
    BY <1>1
  <2> QED BY <2>1, <2>2, <1>3, <1>4
<1>6. ASSUME NEW d \in Conns, d # c
      PROVE  /\ pc[d] \in CanLocked => work[d] \notin flipped[c]
             /\ flipped[d] \cap flipped[c] = {}
             /\ pc[d] = "scan" => \A p \in voided[c] : work[d] \notin TicketsOf[p]
  <2>1. pc[d] \in CanLocked => work[d] \notin flipped[c]
    BY <1>1, <1>6 DEF CoreInv, LockInv, HoldsPurchase, Voiding
  <2>2. flipped[d] \cap flipped[c] = {}
    BY <1>1, <1>6 DEF CoreInv, LockInv, HoldsPurchase, Voiding, VoidInv
  <2>3. pc[d] = "scan" => \A p \in voided[c] : work[d] \notin TicketsOf[p]
    BY <1>1, <1>6 DEF CoreInv, LockInv, HoldsTicket, Voiding, TypeOK
  <2> QED BY <2>1, <2>2, <2>3
<1>11. TypeOK'
  BY <1>1, <1>2, <1>3, SMTT(20) DEF CoreInv, TypeOK, Buying, BuyLocked, CanRestored, CanFlipped, CanLocked, Cancelling, Voiding, Steps
<1>12. LockInv'
  BY <1>1, <1>2, SMTT(20) DEF CoreInv, LockInv, TypeOK, HoldsTier, HoldsPurchase, HoldsTicket, HoldsEvent, Buying, BuyLocked, CanRestored, CanFlipped, CanLocked, Cancelling, Voiding, Steps
<1>13. BuyInv'
  BY <1>1, <1>2, <1>3, SMTT(20) DEF CoreInv, BuyInv, TypeOK, Buying, BuyLocked, Quantity, EventOfPurchase
<1>14. CancelInv'
  BY <1>2, <1>3, <1>6, SMTT(20) DEF CoreInv, CancelInv, TypeOK, Buying, BuyLocked, CanRestored, CanFlipped, CanLocked, Cancelling, Voiding, Steps, EventOfPurchase
<1>15. VoidInv'
  <2>1. \A q \in Purchases : purchase[q] # "none" => purchase'[q] # "none"
    BY <1>3
  <2>2. \A d \in Conns \ {c} : \A q \in flipped[d] : purchase'[q] = purchase[q]
    BY <1>3, <1>6 DEF CoreInv, TypeOK
  <2> QED BY <1>1, <1>2, <1>4, <2>1, <2>2, SMTT(20) DEF CoreInv, VoidInv, TypeOK, Voiding, EventOfPurchase
<1>16. TicketInv'
  <2>1. \A d \in Conns : pc'[d] = "scan" => ticket'[work'[d]] = "unused"
    BY <1>2, <1>3, <1>6, SMTT(20) DEF CoreInv, TicketInv, TypeOK
  <2>2. \A k \in Tickets : admitted'[k] <= 1 /\ (admitted'[k] = 1 => ticket'[k] \in {"used", "cancelled"})
    BY <1>2, <1>3, SMTT(20) DEF CoreInv, TicketInv, TypeOK
  <2>3. \A q \in Purchases : \A k \in TicketsOf[q] :
           /\ purchase'[q] = "cancelled" => ticket'[k] = "cancelled"
           /\ purchase'[q] = "none" => ticket'[k] = "none"
           /\ purchase'[q] = "confirmed" => ticket'[k] # "none"
    <3> SUFFICES ASSUME NEW q \in Purchases, NEW k \in TicketsOf[q]
                 PROVE  /\ purchase'[q] = "cancelled" => ticket'[k] = "cancelled"
                        /\ purchase'[q] = "none" => ticket'[k] = "none"
                        /\ purchase'[q] = "confirmed" => ticket'[k] # "none"
      OBVIOUS
    <3>0. k \in Tickets
      OBVIOUS
    <3>1. CASE q \in flipped[c]
      BY <3>1, <1>3, <1>5
    <3>2. CASE q \notin flipped[c]
      <4>1. purchase'[q] = purchase[q]
        BY <3>2, <1>3
      <4>2. purchase[q] = "none" => ~ \E p \in voided[c] : k \in TicketsOf[p]
        BY <1>1
      <4>3. purchase[q] = "none" => ticket'[k] = "none"
        BY <3>0, <4>2, <1>3 DEF CoreInv, TicketInv, RefundedIsWhole
      <4>4. purchase[q] = "cancelled" => ticket'[k] = "cancelled"
        BY <3>0, <1>4 DEF CoreInv, TicketInv, RefundedIsWhole
      <4>5. purchase[q] = "confirmed" => ticket'[k] # "none"
        BY <3>0, <1>3 DEF CoreInv, TicketInv
      <4> QED BY <4>1, <4>3, <4>4, <4>5
    <3> QED BY <3>1, <3>2
  <2> QED BY <2>1, <2>2, <2>3 DEF TicketInv, RefundedIsWhole
<1>17. Conservation => Conservation'
  <2> SUFFICES ASSUME Conservation, NEW u \in Tiers
               PROVE  /\ remaining'[u] + Cardinality(SoldTickets(u)') <= quantity'[u]
                      /\ eventStatus'[EventOf[u]] # "cancelled" =>
                            remaining'[u] + Cardinality(SoldTickets(u)') = quantity'[u]
    BY DEF Conservation
  <2>1. SoldTickets(u)' \in SUBSET SoldTickets(u)
    BY <1>3 DEF SoldTickets
  <2>2. /\ Cardinality(SoldTickets(u)) \in Nat /\ Cardinality(SoldTickets(u)') \in Nat
        /\ Cardinality(SoldTickets(u)') <= Cardinality(SoldTickets(u))
    BY <2>1, SoldFinite, FS_Subset, FS_CardinalityType
  <2>3. EventOf[u] # work[c] => SoldTickets(u)' = SoldTickets(u)
    BY <1>1, <1>3 DEF SoldTickets, EventOfPurchase
  <2>4. remaining[u] \in Nat /\ quantity[u] \in Nat
    BY DEF CoreInv, TypeOK
  <2> QED BY <1>1, <1>2, <2>2, <2>3, <2>4 DEF CoreInv, Conservation
<1> QED BY <1>11, <1>12, <1>13, <1>14, <1>15, <1>16, <1>17 DEF CoreInv

(* The scan: only this door holds the ticket, and it was not let in        *)
(* before.                                                                 *)
LEMMA CheckInCommitStep ==
  ASSUME CoreInv, NEW c \in Conns, CheckInCommit(c)
  PROVE  CoreInv' /\ (Conservation => Conservation')
<1> USE RowsAssumption
<1>a. pc[c] = "scan"
  BY DEF CheckInCommit
<1>b. PICK k \in Tickets : k = work[c]
  BY <1>a DEF CoreInv, TypeOK
<1>1. ticket[k] = "unused" /\ admitted[k] = 0
  <2>1. ticket[k] = "unused"
    BY <1>a, <1>b DEF CoreInv, TicketInv
  <2>2. admitted[k] \in Nat /\ admitted[k] <= 1
    BY DEF CoreInv, TypeOK, TicketInv
  <2>3. admitted[k] # 1
    BY <2>1 DEF CoreInv, TicketInv
  <2> QED BY <2>1, <2>2, <2>3
<1>2. /\ pc' = [pc EXCEPT ![c] = "idle"]
      /\ work' = [work EXCEPT ![c] = Nothing]
      /\ wasSoldOut' = [wasSoldOut EXCEPT ![c] = FALSE]
      /\ todo' = [todo EXCEPT ![c] = {}]
      /\ flipped' = [flipped EXCEPT ![c] = {}]
      /\ voided' = [voided EXCEPT ![c] = {}]
      /\ UNCHANGED <<now, eventStatus, quantity, remaining, tierStatus, purchase, promotions>>
  BY DEF CheckInCommit, Finish, Goto, saleVars
<1>3. /\ ticket' = [ticket EXCEPT ![k] = "used"]
      /\ admitted' = [admitted EXCEPT ![k] = 1]
  BY <1>b, <1>1 DEF CheckInCommit, CoreInv, TypeOK
<1>4. \A j \in Tickets : ticket[j] = "cancelled" => ticket'[j] = "cancelled"
  BY <1>1, <1>3 DEF CoreInv, TypeOK
<1>5. ASSUME NEW d \in Conns, d # c
      PROVE  pc[d] = "scan" => work[d] # k
  BY <1>a, <1>b, <1>5 DEF CoreInv, LockInv, HoldsTicket
<1>11. TypeOK'
  BY <1>2, <1>3, SMTT(20) DEF CoreInv, TypeOK, Buying, BuyLocked, CanRestored, CanFlipped, CanLocked, Cancelling, Voiding, Steps
<1>12. LockInv'
  BY <1>a, <1>2, SMTT(20) DEF CoreInv, LockInv, TypeOK, HoldsTier, HoldsPurchase, HoldsTicket, HoldsEvent, Buying, BuyLocked, CanRestored, CanFlipped, CanLocked, Cancelling, Voiding, Steps
<1>13. BuyInv'
  BY <1>a, <1>2, SMTT(20) DEF CoreInv, BuyInv, TypeOK, Buying, BuyLocked, Quantity, EventOfPurchase
<1>14. CancelInv'
  BY <1>2, SMTT(20) DEF CoreInv, CancelInv, TypeOK, Buying, BuyLocked, CanRestored, CanFlipped, CanLocked, Cancelling, Voiding, Steps, EventOfPurchase
<1>15. VoidInv'
  BY <1>a, <1>2, <1>4, SMTT(20) DEF CoreInv, VoidInv, TypeOK, Voiding, EventOfPurchase
<1>16. TicketInv'
  <2>1. \A d \in Conns : pc'[d] = "scan" => ticket'[work'[d]] = "unused"
    BY <1>2, <1>3, <1>5, SMTT(20) DEF CoreInv, TicketInv, TypeOK
  <2>2. \A j \in Tickets : admitted'[j] <= 1 /\ (admitted'[j] = 1 => ticket'[j] \in {"used", "cancelled"})
    BY <1>1, <1>3, SMTT(20) DEF CoreInv, TicketInv, TypeOK
  <2>3. \A q \in Purchases : \A j \in TicketsOf[q] :
           /\ purchase'[q] = "cancelled" => ticket'[j] = "cancelled"
           /\ purchase'[q] = "none" => ticket'[j] = "none"
           /\ purchase'[q] = "confirmed" => ticket'[j] # "none"
    BY <1>1, <1>2, <1>3, SMTT(20) DEF CoreInv, TicketInv, RefundedIsWhole, TypeOK
  <2> QED BY <2>1, <2>2, <2>3 DEF TicketInv, RefundedIsWhole
<1>17. Conservation => Conservation'
  BY <1>2, ConservationKept DEF CoreInv
<1> QED BY <1>11, <1>12, <1>13, <1>14, <1>15, <1>16, <1>17 DEF CoreInv

(* The periodic job waits for an event that a purchase or a refund is      *)
(* flipping.                                                               *)
LEMMA EndExpiredStep ==
  ASSUME CoreInv, NEW e \in Events, EndExpired(e)
  PROVE  CoreInv' /\ (Conservation => Conservation')
<1> USE RowsAssumption DEF CoreInv, EndExpired, saleVars, connVars, localVars, Buying, BuyLocked, CanRestored, CanFlipped, CanLocked, Cancelling, Voiding, Steps, OnSale
<1>1. TypeOK'
  BY SMTT(20) DEF TypeOK
<1>2. LockInv'
  BY SMTT(20) DEF LockInv, HoldsTier, HoldsPurchase, HoldsTicket, HoldsEvent
<1>3. BuyInv'
  BY SMTT(20) DEF BuyInv, TypeOK, EventFree, HoldsEvent, EventOfPurchase, Quantity
<1>4. CancelInv'
  BY SMTT(20) DEF CancelInv, TypeOK, EventFree, HoldsEvent, EventOfPurchase
<1>5. VoidInv'
  BY SMTT(20) DEF VoidInv, TypeOK
<1>6. TicketInv'
  BY SMTT(20) DEF TicketInv, RefundedIsWhole
<1>7. Conservation => Conservation'
  <2> SUFFICES ASSUME Conservation PROVE Conservation'
    OBVIOUS
  <2>1. ASSUME NEW t \in Tiers PROVE SoldTickets(t)' = SoldTickets(t)
    BY DEF SoldTickets
  <2>2. \A f \in Events : eventStatus'[f] # "cancelled" => eventStatus[f] # "cancelled"
    BY DEF TypeOK
  <2> QED BY ONLY <2>1, <2>2, RowsAssumption, EndExpired(e), Conservation DEF Conservation, EndExpired, saleVars
<1> QED BY <1>1, <1>2, <1>3, <1>4, <1>5, <1>6, <1>7

(* Time passes without touching a row or a handler.                        *)
LEMMA ClockStep ==
  ASSUME CoreInv, Tick \/ UNCHANGED vars
  PROVE  CoreInv' /\ (Conservation => Conservation')
<1>1. now' \in Times
  BY RowsAssumption DEF CoreInv, TypeOK, Tick, Times, vars
<1>2. UNCHANGED <<rowVars, connVars>>
  BY DEF Tick, vars
<1> USE <1>2 DEF CoreInv, rowVars, saleVars, connVars, localVars
<1>3. TypeOK'
  BY <1>1 DEF TypeOK
<1>4. LockInv'
  BY DEF LockInv, HoldsTier, HoldsPurchase, HoldsTicket, HoldsEvent, Buying, BuyLocked, CanRestored, CanFlipped, CanLocked, Cancelling, Voiding, Steps
<1>5. BuyInv' /\ CancelInv' /\ VoidInv' /\ TicketInv'
  BY DEF BuyInv, CancelInv, VoidInv, TicketInv, RefundedIsWhole
<1>6. Conservation => Conservation'
  BY ConservationKept
<1> QED BY <1>3, <1>4, <1>5, <1>6

(* The sale opens with every place of every tier left and no purchase      *)
(* made.                                                                   *)
LEMMA InitIInv == Init => IInv
<1> SUFFICES ASSUME Init PROVE IInv
  OBVIOUS
<1> USE RowsAssumption DEF Init
<1>1. TypeOK
  BY DEF TypeOK, Times, Buying, BuyLocked, CanRestored, CanFlipped, CanLocked, Cancelling, Voiding, Steps
<1>2. LockInv
  BY DEF LockInv, HoldsTier, HoldsPurchase, HoldsTicket, HoldsEvent, Buying, BuyLocked, CanRestored, CanFlipped, CanLocked, Cancelling, Voiding, Steps
<1>3. BuyInv /\ CancelInv /\ VoidInv
  BY DEF BuyInv, CancelInv, VoidInv, Buying, BuyLocked, CanRestored, CanFlipped, CanLocked, Cancelling, Voiding, Steps
<1>4. TicketInv
  BY DEF TicketInv, RefundedIsWhole
<1>5. Conservation
  <2>1. ASSUME NEW t \in Tiers
        PROVE  Cardinality(SoldTickets(t)) = 0
    <3>1. SoldTickets(t) = {}
      BY DEF SoldTickets
    <3> QED BY <3>1, FS_EmptySet
  <2> QED BY <2>1 DEF Conservation
<1>6. SoleTierInv
  BY DEF SoleTierInv, SoleTierEventStatus, KnowsStatus, Buying, BuyLocked, CanRestored, CanFlipped, CanLocked, Cancelling
<1> QED BY <1>1, <1>2, <1>3, <1>4, <1>5, <1>6 DEF IInv, CoreInv

(* Every statement of every handler, the periodic job and the clock keep   *)
(* the invariant: one lemma per action.                                    *)
LEMMA CoreStep ==
  ASSUME CoreInv, [Next]_vars
  PROVE  CoreInv' /\ (Conservation => Conservation')
<1> DEFINE Kept == CoreInv' /\ (Conservation => Conservation')
<1>1. ASSUME NEW c \in Conns, Buy(c) PROVE Kept
  BY <1>1, BuyBeginStep, BuyLockTierStep, BuyLoadRulesStep, BuyCheckStockStep,
     BuyFlipEventStep, BuyCommitStep DEF Buy
<1>2. ASSUME NEW c \in Conns, Cancel(c) PROVE Kept
  BY <1>2, CancelBeginStep, CancelLockPurchaseStep, CancelLoadRulesStep, CancelFlipTicketsStep,
     CancelRestoreTierStep, CancelFlipEventStep, CancelCommitStep, EnqueueStep DEF Cancel
<1>3. ASSUME NEW c \in Conns, Void(c) PROVE Kept
  BY <1>3, CancelEventStep, VoidBeginStep, VoidPurchaseStep, VoidBeginTicketsStep,
     VoidTicketsStep, VoidCommitStep DEF Void
<1>4. ASSUME NEW c \in Conns, CheckIn(c) PROVE Kept
  BY <1>4, CheckInLockStep, CheckInCommitStep DEF CheckIn
<1>5. ASSUME NEW c \in Conns, Abort(c) PROVE Kept
  BY <1>5, QuitStep DEF Abort
<1>6. ASSUME NEW e \in Events, EndExpired(e) PROVE Kept
  BY <1>6, EndExpiredStep
<1>7. CASE Tick \/ UNCHANGED vars
  BY <1>7, ClockStep
<1> QED BY <1>1, <1>2, <1>3, <1>4, <1>5, <1>6, <1>7 DEF Next

-------------------------------------------------------------------------------
(* The status of an event with one tier *)

(* A handler that does not pass through the last steps of a sale or a      *)
(* refund, and writes no row.                                              *)
LEMMA SoleTierQuiet ==
  ASSUME SoleTierInv, UNCHANGED <<eventStatus, remaining>>,
         \A c \in Conns :
            pc'[c] \in {"buy_event", "buy_commit", "buy_commit_flip", "can_commit"} =>
                pc'[c] = pc[c] /\ work'[c] = work[c]
  PROVE  SoleTierInv'
<1>1. SoleTierEventStatus'
  BY DEF SoleTierInv, SoleTierEventStatus
<1>2. ASSUME NEW c \in Conns PROVE KnowsStatus(c)'
  BY DEF SoleTierInv, KnowsStatus
<1> QED BY <1>1, <1>2 DEF SoleTierInv

(* A commit of a sale or a refund writes its tier and its event: nobody    *)
(* else is at the end of a sale or a refund of that tier.                  *)
LEMMA SoleTierWrite ==
  ASSUME CoreInv, SoleTierInv, NEW c \in Conns, NEW t \in Tiers, HoldsTier(c, t),
         \A d \in Conns \ {c} : pc'[d] = pc[d] /\ work'[d] = work[d],
         pc'[c] \in {"idle", "enqueue"},
         \A u \in Tiers \ {t} : remaining'[u] = remaining[u],
         \A e \in Events \ {EventOf[t]} : eventStatus'[e] = eventStatus[e],
         TiersOf(EventOf[t]) = {t} =>
            /\ eventStatus'[EventOf[t]] = "published" => remaining'[t] > 0
            /\ eventStatus'[EventOf[t]] = "sold_out" => remaining'[t] = 0
  PROVE  SoleTierInv'
<1> USE RowsAssumption
<1>1. ASSUME NEW u \in Tiers, TiersOf(EventOf[u]) = {u}, u # t
      PROVE  /\ EventOf[u] \in Events \ {EventOf[t]}
             /\ remaining'[u] = remaining[u] /\ eventStatus'[EventOf[u]] = eventStatus[EventOf[u]]
  BY <1>1 DEF TiersOf
<1>2. SoleTierEventStatus'
  BY <1>1 DEF SoleTierInv, SoleTierEventStatus
<1>3. ASSUME NEW d \in Conns PROVE KnowsStatus(d)'
  <2>1. CASE d = c
    BY <2>1 DEF KnowsStatus, Buying, BuyLocked, CanRestored, CanFlipped, CanLocked, Cancelling
  <2>2. CASE d # c
    <3> SUFFICES ASSUME pc[d] \in {"buy_event", "buy_commit", "buy_commit_flip", "can_commit"},
                        TiersOf(EventOf[TierOf[work[d]]]) = {TierOf[work[d]]}
                 PROVE  KnowsStatus(d)'
      BY <2>2 DEF KnowsStatus
    <3>1. pc[d] \in BuyLocked \cup CanRestored
      BY DEF BuyLocked, CanRestored
    <3>2. TierOf[work[d]] \in Tiers
      BY <3>1 DEF CoreInv, TypeOK, Buying, CanFlipped, CanLocked, Cancelling
    <3>3. TierOf[work[d]] # t
      BY <2>2, <3>1, <3>2 DEF CoreInv, LockInv, HoldsTier
    <3>4. KnowsStatus(d)
      BY DEF SoleTierInv
    <3> QED BY <2>2, <3>2, <3>3, <3>4, <1>1 DEF KnowsStatus
  <2> QED BY <2>1, <2>2
<1> QED BY <1>2, <1>3 DEF SoleTierInv

(* anyStockLeft of a sole tier compares what is left with what is bought.  *)
LEMMA SoleTierCheckStock ==
  ASSUME CoreInv, SoleTierInv, NEW c \in Conns, BuyCheckStock(c)
  PROVE  SoleTierInv'
<1> USE RowsAssumption
<1>1. PICK p \in Purchases : p = work[c]
  BY DEF BuyCheckStock, CoreInv, TypeOK, Buying, BuyLocked
<1>2. /\ pc[c] = "buy_stock" /\ pc' = [pc EXCEPT ![c] = IF AnyStockLeft(p) THEN "buy_commit" ELSE "buy_event"]
      /\ UNCHANGED <<eventStatus, remaining, work>>
  BY <1>1 DEF BuyCheckStock, Goto, rowVars, saleVars
<1>3. remaining[TierOf[p]] >= Quantity(p) /\ remaining[TierOf[p]] \in Nat /\ Quantity(p) \in Nat
  BY <1>1, <1>2, QuantityNat DEF CoreInv, BuyInv, BuyLocked, TypeOK
<1>4. SoleTierEventStatus'
  BY <1>2 DEF SoleTierInv, SoleTierEventStatus
<1>5. ASSUME NEW d \in Conns PROVE KnowsStatus(d)'
  <2>1. CASE d = c
    <3>1. TiersOf(EventOf[TierOf[p]]) = {TierOf[p]} =>
             (AnyStockLeft(p) <=> remaining[TierOf[p]] > Quantity(p))
      BY DEF AnyStockLeft, EventOfPurchase
    <3>2. pc'[c] = IF AnyStockLeft(p) THEN "buy_commit" ELSE "buy_event"
      BY <1>2 DEF CoreInv, TypeOK
    <3> QED BY <2>1, <3>1, <3>2, <1>1, <1>2, <1>3 DEF KnowsStatus
  <2>2. CASE d # c
    <3>1. pc'[d] = pc[d]
      BY <2>2, <1>2 DEF CoreInv, TypeOK
    <3> QED BY <3>1, <1>2 DEF SoleTierInv, KnowsStatus
  <2> QED BY <2>1, <2>2
<1> QED BY <1>4, <1>5 DEF SoleTierInv

(* The last sale of a sole tier finds its event published, or over: it     *)
(* cannot be sold out while there is something left.                       *)
LEMMA SoleTierSellsOut ==
  ASSUME CoreInv, SoleTierInv, NEW c \in Conns, BuyFlipEvent(c)
  PROVE  SoleTierInv'
<1> USE RowsAssumption
<1>1. PICK p \in Purchases : p = work[c]
  BY DEF BuyFlipEvent, Step, CoreInv, TypeOK, Buying, BuyLocked
<1> DEFINE t == TierOf[p]
           e == EventOf[t]
<1>2. /\ pc[c] = "buy_event" /\ UNCHANGED <<eventStatus, remaining, work>>
      /\ \/ pc' = [pc EXCEPT ![c] = "buy_commit_flip"]
         \/ pc' = [pc EXCEPT ![c] = "buy_commit"] /\ eventStatus[e] # "published"
  BY <1>1 DEF BuyFlipEvent, Step, Goto, rowVars, saleVars, SellsOut, EventOfPurchase
<1>3. t \in Tiers /\ e \in Events /\ remaining[t] \in Nat /\ Quantity(p) \in Nat \ {0}
  BY QuantityPositive DEF CoreInv, TypeOK
<1>4. TiersOf(e) = {t} => remaining[t] = Quantity(p)
  BY <1>1, <1>2 DEF SoleTierInv, KnowsStatus, Buying, BuyLocked
<1>5. TiersOf(e) = {t} => eventStatus[e] # "sold_out"
  BY <1>3, <1>4 DEF SoleTierInv, SoleTierEventStatus
<1>6. SoleTierEventStatus'
  BY <1>2 DEF SoleTierInv, SoleTierEventStatus
<1>7. ASSUME NEW d \in Conns PROVE KnowsStatus(d)'
  <2>1. CASE d = c
    <3>1. \/ pc'[c] = "buy_commit_flip"
          \/ pc'[c] = "buy_commit" /\ eventStatus[e] # "published"
      BY <1>2 DEF CoreInv, TypeOK
    <3> QED BY <2>1, <3>1, <1>1, <1>2, <1>4, <1>5 DEF KnowsStatus, OnSale
  <2>2. CASE d # c
    <3>1. pc'[d] = pc[d]
      BY <2>2, <1>2 DEF CoreInv, TypeOK
    <3> QED BY <3>1, <1>2 DEF SoleTierInv, KnowsStatus
  <2> QED BY <2>1, <2>2
<1> QED BY <1>6, <1>7 DEF SoleTierInv

(* A refund that does not reopen the event found it not sold out.          *)
LEMMA SoleTierReopens ==
  ASSUME CoreInv, SoleTierInv, NEW c \in Conns, CancelFlipEvent(c)
  PROVE  SoleTierInv'
<1>1. /\ UNCHANGED <<eventStatus, remaining, work>>
      /\ \/ pc' = [pc EXCEPT ![c] = "can_commit_flip"]
         \/ /\ pc' = [pc EXCEPT ![c] = "can_commit"]
            /\ eventStatus[EventOf[TierOf[work[c]]]] # "sold_out"
  BY DEF CancelFlipEvent, Step, Goto, rowVars, saleVars, Reopens, EventOfPurchase
<1>2. SoleTierEventStatus'
  BY <1>1 DEF SoleTierInv, SoleTierEventStatus
<1>3. ASSUME NEW d \in Conns PROVE KnowsStatus(d)'
  <2>1. CASE d = c
    <3>1. \/ pc'[c] = "can_commit_flip"
          \/ pc'[c] = "can_commit" /\ eventStatus[EventOf[TierOf[work[c]]]] # "sold_out"
      BY <1>1 DEF CoreInv, TypeOK
    <3> QED BY <2>1, <3>1, <1>1 DEF KnowsStatus
  <2>2. CASE d # c
    <3>1. pc'[d] = pc[d]
      BY <2>2, <1>1 DEF CoreInv, TypeOK
    <3> QED BY <3>1, <1>1 DEF SoleTierInv, KnowsStatus
  <2> QED BY <2>1, <2>2
<1> QED BY <1>2, <1>3 DEF SoleTierInv

(* The sale's commit leaves nothing of a sole tier exactly when it sells   *)
(* the event out, unless the event is over.                                *)
LEMMA SoleTierSale ==
  ASSUME CoreInv, SoleTierInv, NEW c \in Conns, BuyCommit(c)
  PROVE  SoleTierInv'
<1> USE RowsAssumption
<1>1. PICK p \in Purchases : p = work[c]
  BY DEF BuyCommit, CoreInv, TypeOK, Buying, BuyLocked
<1> PICK t \in Tiers, e \in Events : t = TierOf[p] /\ e = EventOf[t]
  OBVIOUS
<1>2. /\ pc[c] \in {"buy_commit", "buy_commit_flip"} /\ pc' = [pc EXCEPT ![c] = "idle"]
      /\ work' = [work EXCEPT ![c] = Nothing]
      /\ remaining' = [remaining EXCEPT ![t] = @ - Quantity(p)]
      /\ eventStatus' = IF pc[c] = "buy_commit_flip"
                        THEN [eventStatus EXCEPT ![e] = "sold_out"] ELSE eventStatus
  BY <1>1 DEF BuyCommit, Finish, Goto, SellTier, EventOfPurchase
<1>3. remaining[t] \in Nat /\ Quantity(p) \in Nat \ {0} /\ remaining[t] >= Quantity(p)
  BY <1>1, <1>2, QuantityPositive DEF CoreInv, TypeOK, BuyInv, BuyLocked
<1>4. HoldsTier(c, t)
  BY <1>1, <1>2 DEF HoldsTier, BuyLocked
<1>5. remaining'[t] = remaining[t] - Quantity(p) /\ \A u \in Tiers \ {t} : remaining'[u] = remaining[u]
  BY <1>2 DEF CoreInv, TypeOK
<1>6. /\ pc'[c] = "idle" /\ \A d \in Conns \ {c} : pc'[d] = pc[d] /\ work'[d] = work[d]
      /\ \A f \in Events \ {e} : eventStatus'[f] = eventStatus[f]
  BY <1>2 DEF CoreInv, TypeOK
<1>7. ASSUME TiersOf(e) = {t}
      PROVE  /\ eventStatus'[e] = "published" => remaining'[t] > 0
             /\ eventStatus'[e] = "sold_out" => remaining'[t] = 0
  <2>1. KnowsStatus(c) /\ (eventStatus[e] = "sold_out" => remaining[t] = 0)
    BY <1>7 DEF SoleTierInv, SoleTierEventStatus
  <2>2. CASE pc[c] = "buy_commit_flip"
    <3>1. remaining[t] = Quantity(p)
      BY <1>1, <1>7, <2>1, <2>2 DEF KnowsStatus, Buying, BuyLocked
    <3>2. eventStatus'[e] = "sold_out"
      BY <2>2, <1>2 DEF CoreInv, TypeOK
    <3> QED BY <3>1, <3>2, <1>3, <1>5
  <2>3. CASE pc[c] = "buy_commit"
    <3>1. remaining[t] > Quantity(p) \/ eventStatus[e] \notin OnSale
      BY <1>1, <1>7, <2>1, <2>3 DEF KnowsStatus, Buying, BuyLocked
    <3>2. eventStatus'[e] = eventStatus[e]
      BY <2>3, <1>2
    <3> QED BY <3>1, <3>2, <2>1, <1>3, <1>5 DEF OnSale
  <2> QED BY <1>2, <2>2, <2>3
<1> QED BY <1>4, <1>5, <1>6, <1>7, SoleTierWrite

(* The refund's commit gives something back to a sole tier, and its event  *)
(* is not left sold out.                                                   *)
LEMMA SoleTierRefund ==
  ASSUME CoreInv, SoleTierInv, NEW c \in Conns, CancelCommit(c)
  PROVE  SoleTierInv'
<1> USE RowsAssumption
<1>1. PICK p \in Purchases : p = work[c]
  BY DEF CancelCommit, CoreInv, TypeOK, Cancelling, CanLocked, CanFlipped, CanRestored
<1> PICK t \in Tiers, e \in Events : t = TierOf[p] /\ e = EventOf[t]
  OBVIOUS
<1>2. /\ pc[c] \in {"can_commit", "can_commit_flip"}
      /\ remaining' = [remaining EXCEPT ![t] = @ + Quantity(p)]
      /\ eventStatus' = IF pc[c] = "can_commit_flip"
                        THEN [eventStatus EXCEPT ![e] = "published"] ELSE eventStatus
  BY <1>1 DEF CancelCommit, RestockTier, EventOfPurchase
<1>3. /\ pc'[c] \in {"idle", "enqueue"}
      /\ \A d \in Conns \ {c} : pc'[d] = pc[d] /\ work'[d] = work[d]
  BY DEF CancelCommit, Finish, Goto, CoreInv, TypeOK
<1>4. remaining[t] \in Nat /\ Quantity(p) \in Nat \ {0}
  BY QuantityPositive DEF CoreInv, TypeOK
<1>5. HoldsTier(c, t)
  BY <1>1, <1>2 DEF HoldsTier, CanRestored
<1>6. remaining'[t] = remaining[t] + Quantity(p) /\ \A u \in Tiers \ {t} : remaining'[u] = remaining[u]
  BY <1>2 DEF CoreInv, TypeOK
<1>7. /\ eventStatus'[e] = IF pc[c] = "can_commit_flip" THEN "published" ELSE eventStatus[e]
      /\ \A f \in Events \ {e} : eventStatus'[f] = eventStatus[f]
  BY <1>2 DEF CoreInv, TypeOK
<1>8. TiersOf(e) = {t} => eventStatus'[e] # "sold_out"
  BY <1>1, <1>2, <1>7 DEF SoleTierInv, KnowsStatus, Cancelling, CanLocked, CanFlipped, CanRestored
<1>9. remaining'[t] > 0
  BY <1>4, <1>6
<1> QED BY <1>3, <1>5, <1>6, <1>7, <1>8, <1>9, SoleTierWrite

(* An event that is cancelled or ends is off sale, whatever is left of it. *)
LEMMA SoleTierOver ==
  ASSUME CoreInv, SoleTierInv, NEW e \in Events, NEW s \in {"cancelled", "ended"},
         eventStatus' = [eventStatus EXCEPT ![e] = s], UNCHANGED remaining,
         \A c \in Conns : pc'[c] \in Buying \cup Cancelling => pc'[c] = pc[c] /\ work'[c] = work[c]
  PROVE  SoleTierInv'
<1>1. \A f \in Events : eventStatus'[f] \in {eventStatus[f], s}
  BY DEF CoreInv, TypeOK
<1>2. SoleTierEventStatus'
  BY <1>1, RowsAssumption DEF SoleTierInv, SoleTierEventStatus
<1>3. ASSUME NEW c \in Conns PROVE KnowsStatus(c)'
  <2> SUFFICES ASSUME pc'[c] \in Buying \cup Cancelling
               PROVE  KnowsStatus(c)'
    BY DEF KnowsStatus
  <2>1. work[c] \in Purchases /\ pc'[c] = pc[c] /\ work'[c] = work[c]
    BY DEF CoreInv, TypeOK
  <2>2. EventOf[TierOf[work[c]]] \in Events
    BY <2>1, RowsAssumption
  <2>3. KnowsStatus(c)
    BY DEF SoleTierInv
  <2> QED BY <1>1, <2>1, <2>2, <2>3 DEF KnowsStatus, OnSale
<1> QED BY <1>2, <1>3 DEF SoleTierInv

(* Every step keeps the status of an event in step with its only tier.     *)
LEMMA SoleTierStep ==
  ASSUME CoreInv, SoleTierInv, [Next]_vars
  PROVE  SoleTierInv'
<1> USE DEF rowVars, saleVars
<1>0. pc \in [Conns -> Steps] /\ work \in [Conns -> Purchases \cup Events \cup Tickets \cup {Nothing}]
  BY DEF CoreInv, TypeOK
<1>1. ASSUME NEW c \in Conns, Finish(c), UNCHANGED <<eventStatus, remaining>>
      PROVE  SoleTierInv'
  BY <1>0, <1>1, SoleTierQuiet DEF Finish, Goto
<1>2. ASSUME NEW c \in Conns, Buy(c) PROVE SoleTierInv'
  <2>1. CASE (\E p \in Purchases : BuyBegin(c, p)) \/ BuyLockTier(c)
    BY <2>1, <1>0, SoleTierQuiet DEF BuyBegin, BuyLockTier, Start, Step, Goto
  <2>2. CASE BuyLoadRules(c)
    <3>1. CASE Reject(c, "buy_rules")
      BY <3>1, <1>1 DEF Reject
    <3>2. CASE Step(c, "buy_rules", "buy_stock") /\ UNCHANGED <<eventStatus, remaining>>
      BY <3>2, <1>0, SoleTierQuiet DEF Step, Goto
    <3> QED BY <2>2, <3>1, <3>2 DEF BuyLoadRules
  <2> QED BY <1>2, <2>1, <2>2, SoleTierCheckStock, SoleTierSellsOut, SoleTierSale DEF Buy
<1>3. ASSUME NEW c \in Conns, Cancel(c) PROVE SoleTierInv'
  <2>1. CASE (\E p \in Purchases : CancelBegin(c, p)) \/ CancelFlipTickets(c)
    BY <2>1, <1>0, SoleTierQuiet DEF CancelBegin, CancelFlipTickets, Start, Step, Goto
  <2>2. CASE CancelLockPurchase(c) \/ CancelLoadRules(c) \/ CancelRestoreTier(c)
    <3>1. CASE \E from \in {"can_purchase", "can_rules", "can_tier"} : Reject(c, from)
      BY <3>1, <1>1 DEF Reject
    <3>2. CASE /\ \E from \in Steps, to \in {"can_rules", "can_tickets", "can_event"} : Step(c, from, to)
               /\ UNCHANGED <<eventStatus, remaining>>
      BY <3>2, <1>0, SoleTierQuiet DEF Step, Goto
    <3> QED BY <2>2, <3>1, <3>2 DEF CancelLockPurchase, CancelLoadRules, CancelRestoreTier,
                                   Steps, Cancelling, CanLocked, CanFlipped
  <2>3. CASE Enqueue(c)
    BY <2>3, <1>1 DEF Enqueue
  <2> QED BY <1>3, <2>1, <2>2, <2>3, SoleTierReopens, SoleTierRefund DEF Cancel
<1>4. ASSUME NEW c \in Conns, Void(c) PROVE SoleTierInv'
  <2>1. CASE \E e \in Events : CancelEvent(c, e)
    <3>1. PICK e \in Events : CancelEvent(c, e)
      BY <2>1
    <3>2. pc' = [pc EXCEPT ![c] = "void_begin"] /\ work' = [work EXCEPT ![c] = e]
      BY <3>1 DEF CancelEvent, Start, Goto
    <3>3. \A d \in Conns : pc'[d] \in Buying \cup Cancelling => pc'[d] = pc[d] /\ work'[d] = work[d]
      BY <1>0, <3>2 DEF Buying, BuyLocked, CanRestored, CanFlipped, CanLocked, Cancelling
    <3>4. eventStatus' = [eventStatus EXCEPT ![e] = "cancelled"] /\ UNCHANGED remaining
      BY <3>1 DEF CancelEvent
    <3> QED BY <3>3, <3>4, SoleTierOver
  <2>2. CASE VoidBegin(c) \/ VoidBeginTickets(c)
    BY <2>2, <1>0, SoleTierQuiet DEF VoidBegin, VoidBeginTickets, Step, Goto
  <2>3. CASE \E p \in Purchases : VoidPurchase(c, p) \/ VoidTickets(c, p)
    BY <2>3, SoleTierQuiet DEF VoidPurchase, VoidTickets
  <2>4. CASE VoidCommit(c)
    BY <2>4, <1>1 DEF VoidCommit
  <2> QED BY <1>4, <2>1, <2>2, <2>3, <2>4 DEF Void
<1>5. ASSUME NEW c \in Conns, CheckIn(c) \/ Abort(c) PROVE SoleTierInv'
  <2>1. CASE \E k \in Tickets : CheckInLock(c, k)
    BY <2>1, <1>0, SoleTierQuiet DEF CheckInLock, Start, Goto
  <2>2. CASE CheckInCommit(c) \/ Abort(c)
    BY <2>2, <1>1 DEF CheckInCommit, Abort
  <2> QED BY <1>5, <2>1, <2>2 DEF CheckIn
<1>6. ASSUME NEW e \in Events, EndExpired(e) PROVE SoleTierInv'
  BY <1>6, SoleTierOver DEF EndExpired, connVars
<1>7. CASE Tick \/ UNCHANGED vars
  BY <1>7, SoleTierQuiet DEF Tick, vars, connVars
<1> QED BY <1>2, <1>3, <1>4, <1>5, <1>6, <1>7 DEF Next

(* What a transaction in flight counts on (IInv) holds in every reachable  *)
(* state, for any number of connections, events, tiers, purchases and      *)
(* tickets.                                                                *)
THEOREM InductiveInvariant == Spec => []IInv
<1>1. IInv /\ [Next]_vars => IInv'
  BY CoreStep, SoleTierStep DEF IInv
<1> QED BY <1>1, InitIInv, PTL DEF Spec
===============================================================================
