---------------------------- MODULE TierEdits_proofs ----------------------------
(***************************************************************************)
(* EditInv is an inductive invariant of TierEdits: what the handlers of    *)
(* Purchasing count on survives every edit, because an edit waits for the  *)
(* tier's row; the books survive the edits that overwrite nothing.         *)
(***************************************************************************)
EXTENDS TierEdits, PurchasingResults

-------------------------------------------------------------------------------
(* Steps of the sale *)

(* A connection that has restored its tier had done so before, or has just *)
(* passed the table's CHECK while no row changed.                          *)
LEMMA RestoredBefore ==
  ASSUME CoreInv, [Next]_vars, NEW c \in Conns, pc'[c] \in CanRestored
  PROVE  /\ work'[c] = work[c] /\ work[c] \in Purchases
         /\ \/ pc[c] \in CanRestored /\ ~CancelCommit(c)
            \/ FitsTier(TierOf[work[c]], Quantity(work[c])) /\ UNCHANGED saleVars
<1> USE DEF rowVars
<1> DEFINE Past == /\ work'[c] = work[c]
                   /\ \/ pc[c] \in CanRestored /\ ~CancelCommit(c)
                      \/ FitsTier(TierOf[work[c]], Quantity(work[c])) /\ UNCHANGED saleVars
<1>1. /\ pc \in [Conns -> Steps]
      /\ work \in [Conns -> Purchases \cup Events \cup Tickets \cup {Nothing}]
  BY DEF CoreInv, TypeOK
<1>2. ASSUME NEW a \in Conns, NEW s \in Steps \ CanRestored, Goto(a, s),
             work' = work \/ \E w : work' = [work EXCEPT ![a] = w]
      PROVE  Past
  <2>1. a # c
    BY <1>1, <1>2 DEF Goto
  <2>2. pc'[c] = pc[c] /\ work'[c] = work[c]
    BY <1>1, <1>2, <2>1 DEF Goto
  <2>3. ~CancelCommit(c)
    BY <1>1, <1>2, <2>1 DEF CancelCommit, Finish, Goto, CanRestored
  <2> QED BY <2>2, <2>3
<1>3. ASSUME NEW a \in Conns, Buy(a) PROVE Past
  <2>1. \E s \in {"idle", "buy_tier", "buy_rules", "buy_stock", "buy_event", "buy_commit",
                  "buy_commit_flip"} : Goto(a, s)
    BY <1>3 DEF Buy, BuyBegin, BuyLockTier, BuyLoadRules, BuyCheckStock, BuyFlipEvent, BuyCommit,
                Start, Step, Finish, Reject
  <2>2. work' = work \/ \E w : work' = [work EXCEPT ![a] = w]
    BY <1>3 DEF Buy, BuyBegin, BuyLockTier, BuyLoadRules, BuyCheckStock, BuyFlipEvent, BuyCommit,
                Start, Step, Finish, Reject
  <2> QED BY <2>1, <2>2, <1>2 DEF Steps, Buying, BuyLocked, CanRestored
<1>4. ASSUME UNCHANGED <<pc, work>> PROVE Past
  BY <1>1, <1>4 DEF CancelCommit, Finish, Goto, CanRestored
<1>5. ASSUME NEW a \in Conns, CancelRestoreTier(a), ~Reject(a, "can_tier") PROVE Past
  <2>1. /\ FitsTier(TierOf[work[a]], Quantity(work[a])) /\ UNCHANGED <<saleVars, work>>
        /\ pc' = [pc EXCEPT ![a] = "can_event"]
    BY <1>5 DEF CancelRestoreTier, Step, Goto
  <2>2. a # c => pc'[c] = pc[c] /\ ~CancelCommit(c)
    BY <1>1, <2>1 DEF CancelCommit, Finish, Goto, CanRestored
  <2> QED BY <2>1, <2>2
<1>6. ASSUME NEW a \in Conns, CancelFlipEvent(a) PROVE Past
  <2>1. /\ UNCHANGED work /\ pc[a] = "can_event"
        /\ pc' = [pc EXCEPT ![a] = "can_commit_flip"] \/ pc' = [pc EXCEPT ![a] = "can_commit"]
    BY <1>6 DEF CancelFlipEvent, Step, Goto
  <2>2. pc[c] \in CanRestored /\ ~CancelCommit(c)
    BY <1>1, <2>1 DEF CancelCommit, Finish, Goto, CanRestored
  <2> QED BY <2>1, <2>2
<1>7. ASSUME NEW a \in Conns, Cancel(a), ~CancelFlipEvent(a),
             ~CancelRestoreTier(a) \/ Reject(a, "can_tier")
      PROVE  Past
  <2>1. \E s \in {"idle", "can_purchase", "can_rules", "can_tickets", "can_tier", "enqueue"} : Goto(a, s)
    BY <1>7 DEF Cancel, CancelBegin, CancelLockPurchase, CancelLoadRules, CancelFlipTickets,
                CancelCommit, Enqueue, Start, Step, Finish, Reject
  <2>2. work' = work \/ \E w : work' = [work EXCEPT ![a] = w]
    BY <1>7 DEF Cancel, CancelBegin, CancelLockPurchase, CancelLoadRules, CancelFlipTickets,
                CancelCommit, Enqueue, Start, Step, Finish, Reject
  <2> QED BY <2>1, <2>2, <1>2 DEF Steps, Cancelling, CanLocked, CanFlipped, CanRestored
<1>8. ASSUME NEW a \in Conns, Void(a) PROVE Past
  <2>1. CASE \E p \in Purchases : VoidPurchase(a, p) \/ VoidTickets(a, p)
    BY <2>1, <1>4 DEF VoidPurchase, VoidTickets
  <2>2. CASE (\E e \in Events : CancelEvent(a, e)) \/ VoidBegin(a) \/ VoidBeginTickets(a) \/ VoidCommit(a)
    <3>1. \E s \in {"idle", "void_begin", "void_purchases", "void_tickets"} : Goto(a, s)
      BY <2>2 DEF CancelEvent, VoidBegin, VoidBeginTickets, VoidCommit, Start, Step, Finish
    <3>2. work' = work \/ \E w : work' = [work EXCEPT ![a] = w]
      BY <2>2 DEF CancelEvent, VoidBegin, VoidBeginTickets, VoidCommit, Start, Step, Finish
    <3> QED BY <3>1, <3>2, <1>2 DEF Steps, Voiding, CanRestored
  <2> QED BY <1>8, <2>1, <2>2 DEF Void
<1>9. ASSUME NEW a \in Conns, CheckIn(a) \/ Abort(a) PROVE Past
  <2>1. \E s \in {"idle", "scan"} : Goto(a, s)
    BY <1>9 DEF CheckIn, CheckInLock, CheckInCommit, Abort, Start, Finish
  <2>2. \E w : work' = [work EXCEPT ![a] = w]
    BY <1>9 DEF CheckIn, CheckInLock, CheckInCommit, Abort, Start, Finish
  <2> QED BY <2>1, <2>2, <1>2 DEF Steps, CanRestored
<1>10. ASSUME (\E e \in Events : EndExpired(e)) \/ Tick \/ UNCHANGED vars PROVE Past
  BY <1>4, <1>10 DEF EndExpired, Tick, vars, connVars
<1>11. Past
  BY <1>3, <1>5, <1>6, <1>7, <1>8, <1>9, <1>10 DEF Next
<1>12. work'[c] \in Purchases
  BY CoreStep DEF CoreInv, TypeOK, Cancelling, CanLocked, CanFlipped
<1> QED BY <1>11, <1>12

(* A sale takes from its tier what is there, and a refund gives back what  *)
(* fits: it holds the tier since the CHECK.                                *)
LEMMA FitStep ==
  ASSUME CoreInv, RemainingFits, RefundFits, [Next]_vars
  PROVE  RemainingFits' /\ RefundFits'
<1> USE RowsAssumption
<1>0. /\ quantity' = quantity /\ remaining \in [Tiers -> Nat] /\ remaining' \in [Tiers -> Nat]
      /\ quantity \in [Tiers -> Nat \ {0}]
  <2>1. quantity' = quantity
    BY Writers DEF BuyCommit, SellTier, CancelCommit, RestockTier, VoidCommit, CheckInCommit,
                   CancelEvent, EndExpired, saleVars
  <2> QED BY <2>1, CoreStep DEF CoreInv, TypeOK
<1>1. CASE \E a \in Conns : CancelCommit(a)
  <2>1. PICK a \in Conns : CancelCommit(a)
    BY <1>1
  <2>2. PICK p \in Purchases : p = work[a]
    BY <2>1 DEF CancelCommit, CoreInv, TypeOK, Cancelling, CanLocked, CanFlipped, CanRestored
  <2>3. pc[a] \in CanRestored /\ remaining' = [remaining EXCEPT ![TierOf[p]] = @ + Quantity(p)]
    BY <2>1, <2>2 DEF CancelCommit, RestockTier, CanRestored
  <2>4. remaining[TierOf[p]] + Quantity(p) <= quantity[TierOf[p]]
    BY <2>2, <2>3 DEF RefundFits, FitsTier
  <2>5. RemainingFits'
    BY <1>0, <2>3, <2>4 DEF RemainingFits
  <2>6. RefundFits'
    <3> SUFFICES ASSUME NEW c \in Conns, pc'[c] \in CanRestored
                 PROVE  FitsTier(TierOf[work[c]], Quantity(work[c]))'
      BY DEF RefundFits
    <3>1. PICK q \in Purchases : q = work[c] /\ work'[c] = q
      BY RestoredBefore
    <3>2. CASE pc[c] \in CanRestored /\ ~CancelCommit(c)
      <4>1. TierOf[q] # TierOf[p]
        BY <2>1, <2>2, <2>3, <3>1, <3>2 DEF CoreInv, LockInv, HoldsTier
      <4>2. remaining[TierOf[q]] + Quantity(q) <= quantity[TierOf[q]]
        BY <3>1, <3>2 DEF RefundFits, FitsTier
      <4>3. remaining'[TierOf[q]] + Quantity(q) <= quantity'[TierOf[q]]
        BY <1>0, <2>3, <4>1, <4>2
      <4> QED BY <3>1, <4>3 DEF FitsTier, Quantity
    <3>3. CASE FitsTier(TierOf[work[c]], Quantity(work[c])) /\ UNCHANGED saleVars
      BY <3>1, <3>3 DEF FitsTier, Quantity, saleVars
    <3> QED BY <3>2, <3>3, RestoredBefore
  <2> QED BY <2>5, <2>6
<1>2. CASE \A t \in Tiers : remaining'[t] <= remaining[t]
  <2>1. RemainingFits'
    BY <1>0, <1>2 DEF RemainingFits
  <2>2. RefundFits'
    <3> SUFFICES ASSUME NEW c \in Conns, pc'[c] \in CanRestored
                 PROVE  FitsTier(TierOf[work[c]], Quantity(work[c]))'
      BY DEF RefundFits
    <3>1. PICK q \in Purchases : q = work[c] /\ work'[c] = q
      BY RestoredBefore
    <3>2. FitsTier(TierOf[q], Quantity(q))
      BY <3>1, RestoredBefore DEF RefundFits
    <3>3. remaining'[TierOf[q]] + Quantity(q) <= quantity'[TierOf[q]]
      BY <1>0, <1>2, <3>2, QuantityNat DEF FitsTier
    <3> QED BY <3>1, <3>3 DEF FitsTier, Quantity
  <2> QED BY <2>1, <2>2
<1>3. (\E a \in Conns : BuyCommit(a)) => \A t \in Tiers : remaining'[t] <= remaining[t]
  <2> SUFFICES ASSUME NEW a \in Conns, BuyCommit(a)
               PROVE  \A t \in Tiers : remaining'[t] <= remaining[t]
    OBVIOUS
  <2>1. PICK p \in Purchases : p = work[a]
    BY DEF BuyCommit, CoreInv, TypeOK, Buying, BuyLocked
  <2>2. remaining' = [remaining EXCEPT ![TierOf[p]] = @ - Quantity(p)] /\ Quantity(p) \in Nat
    BY <2>1, QuantityNat DEF BuyCommit, SellTier
  <2> QED BY <1>0, <2>2
<1>4. UNCHANGED remaining => \A t \in Tiers : remaining'[t] <= remaining[t]
  BY <1>0
<1> QED BY <1>1, <1>2, <1>3, <1>4, Writers DEF VoidCommit, CheckInCommit, CancelEvent, EndExpired, saleVars

-------------------------------------------------------------------------------
(* Steps of the edits *)

(* A step of the sale leaves the requests alone.                           *)
LEMMA SaleStep ==
  ASSUME EditInv, [Next]_vars, UNCHANGED editVars
  PROVE  EditInv'
<1>1. CoreInv' /\ RemainingFits' /\ RefundFits'
  BY CoreStep, FitStep DEF EditInv
<1>2. ConservationUnlessOverwritten'
  BY CoreStep, TierStatusStep DEF EditInv, ConservationUnlessOverwritten, editVars
<1>3. /\ edit' \in [Editors -> EditRecord] /\ overwrote' \in BOOLEAN
      /\ \A d \in Editors : EditOK(edit'[d])
  BY DEF EditInv, editVars
<1> QED BY <1>1, <1>2, <1>3 DEF EditInv

(* What EditInv says of a request survives a step of that request, if its  *)
(* new record is as it should be.                                          *)
LEMMA RequestStep ==
  ASSUME EditInv, NEW d \in Editors, NEW w \in EditRecord, EditOK(w), SetEdit(d, w)
  PROVE  edit' \in [Editors -> EditRecord] /\ \A b \in Editors : EditOK(edit'[b])
<1>1. edit' = [edit EXCEPT ![d] = w] /\ edit \in [Editors -> EditRecord]
  BY DEF EditInv, SetEdit
<1>2. \A b \in Editors : edit'[b] = w \/ edit'[b] = edit[b]
  BY <1>1
<1> QED BY <1>1, <1>2 DEF EditInv

(* A request that only reads or decides.                                   *)
LEMMA ReadStep ==
  ASSUME EditInv, NEW d \in Editors, NEW w \in EditRecord, EditOK(w), SetEdit(d, w),
         UNCHANGED <<vars, overwrote>>
  PROVE  EditInv'
<1>1. CoreInv' /\ RemainingFits' /\ RefundFits'
  BY CoreStep, FitStep DEF EditInv
<1>2. ConservationUnlessOverwritten'
  BY CoreStep, TierStatusStep DEF EditInv, ConservationUnlessOverwritten
<1>3. /\ edit' \in [Editors -> EditRecord] /\ overwrote' \in BOOLEAN
      /\ \A b \in Editors : EditOK(edit'[b])
  BY RequestStep DEF EditInv
<1> QED BY <1>1, <1>2, <1>3 DEF EditInv

(* A request that has ended or not begun.                                  *)
LEMMA IdleIsOK == IdleEdit \in EditRecord /\ EditOK(IdleEdit) /\ NoRow \in RowRecord
BY DEF IdleEdit, EditRecord, NoRow, RowRecord, EditOK

(* The row of a tier, as GetByID returns it.                               *)
LEMMA RowIsOK ==
  ASSUME EditInv, NEW t \in Tiers
  PROVE  /\ Row(t) \in RowRecord /\ Row(t).quantity > 0 /\ Row(t).remaining <= Row(t).quantity
         /\ Row(t).quantity = quantity[t] /\ Row(t).remaining = remaining[t]
         /\ Row(t).status = tierStatus[t]
BY DEF EditInv, CoreInv, TypeOK, Row, RowRecord, RemainingFits

(* requireEventOrganizer reads the event.                                  *)
LEMMA EditBeginStep ==
  ASSUME EditInv, NEW d \in Editors, NEW t \in Tiers, EditBegin(d, t)
  PROVE  EditInv'
<1> DEFINE w == [IdleEdit EXCEPT !.step = "tier", !.tier = t,
                 !.eventSoldOut = eventStatus[EventOf[t]] = "sold_out"]
<1>1. w \in EditRecord /\ EditOK(w)
  BY IdleIsOK DEF IdleEdit, EditRecord, EditOK
<1>2. SetEdit(d, w) /\ UNCHANGED <<vars, overwrote>>
  BY DEF EditBegin
<1> HIDE DEF w
<1> QED BY <1>1, <1>2, ReadStep

(* The handler reads the tier.                                             *)
LEMMA EditReadTierStep ==
  ASSUME EditInv, NEW d \in Editors, EditReadTier(d)
  PROVE  EditInv'
<1> PICK v \in EditRecord : v = edit[d] /\ EditOK(v)
  BY DEF EditInv
<1> PICK t \in Tiers : t = v.tier
  BY DEF EditReadTier, EditOK
<1> PICK row \in RowRecord : row = Row(t) /\ row.quantity > 0 /\ row.remaining <= row.quantity
  BY RowIsOK
<1> DEFINE w == [v EXCEPT !.step = "payload", !.row = row]
<1>1. w \in EditRecord /\ EditOK(w)
  BY DEF EditRecord, EditOK
<1>2. SetEdit(d, w) /\ UNCHANGED <<vars, overwrote>>
  BY DEF EditReadTier
<1> HIDE DEF w
<1> QED BY <1>1, <1>2, ReadStep

(* A resized row keeps the places sold, and is sold out if nothing is left.*)
LEMMA ResizedIsOK ==
  ASSUME NEW row \in RowRecord, row.remaining <= row.quantity,
         NEW q \in Nat \ {0}, q >= Sold(row)
  PROVE  /\ Resized(row, q) \in RowRecord
         /\ Resized(row, q).quantity = q /\ Resized(row, q).remaining <= q
         /\ Sold(Resized(row, q)) = Sold(row) /\ StatusFits(Resized(row, q))
BY DEF RowRecord, Sold, Resized, StatusFits

(* The handler decides what to write, or refuses.                          *)
LEMMA EditDecideStep ==
  ASSUME EditInv, NEW d \in Editors, EditDecide(d)
  PROVE  EditInv'
<1> PICK v \in EditRecord : v = edit[d] /\ EditOK(v)
  BY DEF EditInv
<1>0. v.step = "payload" /\ v.row \in RowRecord /\ v.row.quantity > 0
      /\ v.row.remaining <= v.row.quantity /\ UNCHANGED <<vars, overwrote>>
  BY DEF EditDecide, EditOK, EditRecord
<1>1. ASSUME NEW new \in RowRecord, SetEdit(d, [v EXCEPT !.step = "write", !.new = new]),
             new.quantity > 0, new.remaining <= new.quantity, Sold(new) = Sold(v.row),
             StatusFits(v.row) => StatusFits(new)
      PROVE  EditInv'
  <2> DEFINE w == [v EXCEPT !.step = "write", !.new = new]
  <2>1. w \in EditRecord /\ EditOK(w)
    BY <1>0, <1>1 DEF EditRecord, EditOK
  <2>2. SetEdit(d, w)
    BY <1>1
  <2> HIDE DEF w
  <2> QED BY <1>0, <2>1, <2>2, ReadStep
<1>2. CASE SetEdit(d, [v EXCEPT !.step = "write", !.new = v.row])
  BY <1>0, <1>1, <1>2
<1>3. CASE \E q \in 1 .. MaxQuantity :
              MayResize(d, q) /\ SetEdit(d, [v EXCEPT !.step = "write", !.new = Resized(v.row, q)])
  <2>1. PICK q \in 1 .. MaxQuantity :
              MayResize(d, q) /\ SetEdit(d, [v EXCEPT !.step = "write", !.new = Resized(v.row, q)])
    BY <1>3
  <2>2. q \in Nat \ {0} /\ q >= Sold(v.row)
    BY <2>1, EditAssumption DEF MayResize
  <2>3. PICK new \in RowRecord : /\ new = Resized(v.row, q)
                                 /\ new.quantity = q /\ new.remaining <= q
                                 /\ Sold(new) = Sold(v.row) /\ StatusFits(new)
    BY <1>0, <2>2, ResizedIsOK
  <2>4. SetEdit(d, [v EXCEPT !.step = "write", !.new = new])
    BY <2>1, <2>3
  <2>5. new.quantity > 0 /\ new.remaining <= new.quantity
    BY <2>2, <2>3
  <2> QED BY <1>1, <2>3, <2>4, <2>5
<1>4. CASE SetEdit(d, IdleEdit)
  BY <1>0, <1>4, IdleIsOK, ReadStep
<1> QED BY <1>2, <1>3, <1>4 DEF EditDecide

(* A query fails, or the server stops.                                     *)
LEMMA EditFailStep ==
  ASSUME EditInv, NEW d \in Editors, EditFail(d)
  PROVE  EditInv'
BY IdleIsOK, ReadStep DEF EditFail

(* Update waits for the tier, so that nobody who holds it finds another    *)
(* row; what it writes has as many places sold as what it read.            *)
LEMMA EditWriteStep ==
  ASSUME EditInv, NEW d \in Editors, EditWrite(d)
  PROVE  EditInv'
<1> USE RowsAssumption
<1> PICK v \in EditRecord : v = edit[d] /\ EditOK(v)
  BY DEF EditInv
<1> PICK t \in Tiers : t = v.tier
  BY DEF EditWrite, EditOK
<1> PICK new \in RowRecord : new = v.new
  BY DEF EditRecord
<1>1. /\ v.step = "write" /\ TierFree(t)
      /\ quantity' = [quantity EXCEPT ![t] = new.quantity]
      /\ remaining' = [remaining EXCEPT ![t] = new.remaining]
      /\ tierStatus' = [tierStatus EXCEPT ![t] = new.status]
      /\ overwrote' = (overwrote \/ Row(t) # v.row)
      /\ UNCHANGED <<now, eventStatus, purchase, ticket, admitted, promotions, connVars>>
  BY DEF EditWrite, WriteTier
<1>2. /\ new.quantity > 0 /\ new.remaining <= new.quantity /\ Sold(new) = Sold(v.row)
      /\ StatusFits(v.row) => StatusFits(new)
      /\ new.quantity \in Nat /\ new.remaining \in Nat /\ new.status \in {"available", "sold_out"}
  BY <1>1 DEF EditOK, RowRecord
<1>3. /\ CoreInv /\ RemainingFits /\ RefundFits /\ TypeOK /\ LockInv /\ BuyInv /\ CancelInv
      /\ VoidInv /\ TicketInv
  BY DEF EditInv, CoreInv
<1>4. /\ quantity' \in [Tiers -> Nat \ {0}] /\ remaining' \in [Tiers -> Nat]
      /\ tierStatus' \in [Tiers -> {"available", "sold_out"}]
      /\ remaining \in [Tiers -> Nat] /\ quantity \in [Tiers -> Nat \ {0}]
      /\ tierStatus \in [Tiers -> {"available", "sold_out"}]
  BY <1>1, <1>2, <1>3 DEF TypeOK
<1>5. ASSUME NEW u \in Tiers, u # t
      PROVE  quantity'[u] = quantity[u] /\ remaining'[u] = remaining[u] /\ tierStatus'[u] = tierStatus[u]
  BY <1>1, <1>4, <1>5
<1>6. quantity'[t] = new.quantity /\ remaining'[t] = new.remaining /\ tierStatus'[t] = new.status
  BY <1>1, <1>4
<1>7. ASSUME NEW c \in Conns, pc[c] \in BuyLocked \cup CanRestored
      PROVE  work[c] \in Purchases /\ TierOf[work[c]] \in Tiers \ {t}
  BY <1>1, <1>3, <1>7 DEF TierFree, HoldsTier, TypeOK, Buying, Cancelling, CanLocked, CanFlipped
<1> USE DEF connVars, localVars
<1>11. TypeOK'
  BY <1>1, <1>3, <1>4 DEF TypeOK
<1>12. LockInv'
  BY <1>1, <1>3 DEF LockInv, HoldsTier, HoldsPurchase, HoldsTicket, HoldsEvent
<1>13. BuyInv'
  BY <1>1, <1>3, <1>5, <1>7 DEF BuyInv, Quantity
<1>14. CancelInv' /\ VoidInv' /\ TicketInv'
  BY <1>1, <1>3 DEF CancelInv, VoidInv, TicketInv, RefundedIsWhole
<1>15. RemainingFits'
  <2>1. \A u \in Tiers : remaining[u] <= quantity[u]
    BY <1>3 DEF RemainingFits
  <2>2. \A u \in Tiers : remaining'[u] <= quantity'[u]
    BY <1>2, <1>5, <1>6, <2>1
  <2> QED BY <1>4, <2>2 DEF RemainingFits
<1>16. RefundFits'
  BY <1>1, <1>3, <1>5, <1>7 DEF RefundFits, FitsTier, Quantity
<1>17. ConservationUnlessOverwritten'
  <2> SUFFICES ASSUME ~overwrote'
               PROVE  Conservation' /\ TierStatusAgrees'
    BY DEF ConservationUnlessOverwritten
  <2>1. Conservation /\ TierStatusAgrees /\ v.row = Row(t)
    BY <1>1 DEF EditInv, ConservationUnlessOverwritten
  <2>2. v.row.quantity = quantity[t] /\ v.row.remaining = remaining[t] /\ v.row.status = tierStatus[t]
    BY <2>1, RowIsOK
  <2>3. new.quantity - new.remaining = quantity[t] - remaining[t]
    BY <1>2, <2>2 DEF Sold
  <2>4. StatusFits(new)
    BY <1>2, <2>1, <2>2 DEF StatusFits, TierStatusAgrees
  <2>5. TierStatusAgrees'
    BY <1>5, <1>6, <2>1, <2>4 DEF TierStatusAgrees, StatusFits
  <2>6. ASSUME NEW u \in Tiers
        PROVE  /\ SoldTickets(u)' = SoldTickets(u) /\ Cardinality(SoldTickets(u)) \in Nat
               /\ quantity'[u] - remaining'[u] = quantity[u] - remaining[u]
    BY <1>1, <1>5, <1>6, <2>3, SoldFinite DEF SoldTickets
  <2>7. Conservation'
    BY <1>1, <1>4, <2>1, <2>6 DEF Conservation
  <2> QED BY <2>5, <2>7
<1>18. edit' \in [Editors -> EditRecord] /\ \A b \in Editors : EditOK(edit'[b])
  <2>1. PICK w \in EditRecord : SetEdit(d, w) /\ EditOK(w)
    <3>1. CASE SetEdit(d, IdleEdit)
      BY <3>1, IdleIsOK
    <3>2. CASE SetEdit(d, [IdleEdit EXCEPT !.step = "event", !.tier = t])
      <4> DEFINE w == [IdleEdit EXCEPT !.step = "event", !.tier = t]
      <4>1. w \in EditRecord /\ EditOK(w)
        BY IdleIsOK DEF IdleEdit, EditRecord, EditOK
      <4>2. SetEdit(d, w)
        BY <3>2
      <4> HIDE DEF w
      <4> QED BY <4>1, <4>2
    <3>3. SetEdit(d, IF v.eventSoldOut /\ new.remaining > 0
                     THEN [IdleEdit EXCEPT !.step = "event", !.tier = t] ELSE IdleEdit)
      BY DEF EditWrite
    <3> QED BY <3>1, <3>2, <3>3
  <2> QED BY <2>1, RequestStep
<1>19. overwrote' \in BOOLEAN
  BY <1>1 DEF EditInv
<1> QED BY <1>11, <1>12, <1>13, <1>14, <1>15, <1>16, <1>17, <1>18, <1>19 DEF EditInv, CoreInv

(* SetStatus matches a sold_out event, and waits for whoever flips it.     *)
LEMMA EditReopenStep ==
  ASSUME EditInv, NEW d \in Editors, EditReopen(d)
  PROVE  EditInv'
<1> USE RowsAssumption
<1>1. PICK e \in Events : e = EventOf[edit[d].tier]
  BY DEF EditReopen, EditInv, EditOK
<1>2. /\ \/ /\ eventStatus[e] = "sold_out" /\ EventFree(e)
            /\ eventStatus' = [eventStatus EXCEPT ![e] = "published"]
         \/ UNCHANGED eventStatus
      /\ SetEdit(d, IdleEdit)
      /\ UNCHANGED <<now, quantity, remaining, tierStatus, purchase, ticket, admitted, promotions,
                     connVars, overwrote>>
  BY <1>1 DEF EditReopen, StatusMatches, saleVars
<1>3. /\ CoreInv /\ RemainingFits /\ RefundFits /\ TypeOK /\ LockInv /\ BuyInv /\ CancelInv
      /\ VoidInv /\ TicketInv
  BY DEF EditInv, CoreInv
<1>4. eventStatus' \in [Events -> {"published", "sold_out", "cancelled", "ended"}]
  <2>1. eventStatus \in [Events -> {"published", "sold_out", "cancelled", "ended"}]
    BY <1>3 DEF TypeOK
  <2>2. eventStatus' = eventStatus \/ eventStatus' = [eventStatus EXCEPT ![e] = "published"]
    BY <1>2
  <2> QED BY <2>1, <2>2
<1>5. ASSUME NEW f \in Events
      PROVE  /\ eventStatus'[f] = "cancelled" <=> eventStatus[f] = "cancelled"
             /\ eventStatus[f] = "published" => eventStatus'[f] = "published"
             /\ ~EventFree(f) => eventStatus'[f] = eventStatus[f]
  BY <1>2, <1>3 DEF TypeOK
<1>6. ASSUME NEW c \in Conns, pc[c] \in {"buy_commit_flip", "can_commit_flip"}
      PROVE  EventOfPurchase(work[c]) \in Events /\ ~EventFree(EventOfPurchase(work[c]))
  BY <1>3, <1>6 DEF TypeOK, Buying, BuyLocked, Cancelling, CanLocked, CanFlipped, CanRestored,
                    EventFree, HoldsEvent, EventOfPurchase
<1> USE DEF connVars, localVars
<1>11. TypeOK'
  BY <1>2, <1>3, <1>4 DEF TypeOK
<1>12. LockInv'
  BY <1>2, <1>3 DEF LockInv, HoldsTier, HoldsPurchase, HoldsTicket, HoldsEvent
<1>13. BuyInv'
  BY <1>2, <1>3, <1>5, <1>6 DEF BuyInv, Quantity, EventOfPurchase
<1>14. CancelInv'
  BY <1>2, <1>3, <1>5, <1>6 DEF CancelInv, EventOfPurchase
<1>15. VoidInv'
  BY <1>2, <1>3, <1>5 DEF VoidInv, TypeOK, EventOfPurchase
<1>16. TicketInv' /\ RemainingFits' /\ RefundFits'
  BY <1>2, <1>3 DEF TicketInv, RefundedIsWhole, RemainingFits, RefundFits, FitsTier, Quantity
<1>17. ConservationUnlessOverwritten'
  <2>1. \A u \in Tiers : SoldTickets(u)' = SoldTickets(u)
    BY <1>2 DEF SoldTickets
  <2>2. Conservation => Conservation'
    BY <1>2, <1>5, <2>1 DEF Conservation
  <2>3. TierStatusAgrees => TierStatusAgrees'
    BY <1>2 DEF TierStatusAgrees
  <2> QED BY <1>2, <2>2, <2>3 DEF EditInv, ConservationUnlessOverwritten
<1>18. edit' \in [Editors -> EditRecord] /\ \A b \in Editors : EditOK(edit'[b])
  BY <1>2, IdleIsOK, RequestStep
<1>19. overwrote' \in BOOLEAN
  BY <1>2 DEF EditInv
<1> QED BY <1>11, <1>12, <1>13, <1>14, <1>15, <1>16, <1>17, <1>18, <1>19 DEF EditInv, CoreInv

-------------------------------------------------------------------------------
(* Results *)

(* Nothing of a tier is sold and no request is under way at first.         *)
LEMMA InitEditInv == EditInit => EditInv
<1> SUFFICES ASSUME EditInit PROVE EditInv
  OBVIOUS
<1>1. CoreInv /\ Conservation
  BY InitIInv DEF EditInit, IInv
<1>2. RemainingFits /\ RefundFits /\ TierStatusAgrees
  BY RowsAssumption DEF EditInit, Init, RemainingFits, RefundFits, TierStatusAgrees,
                        CanRestored
<1>3. /\ edit \in [Editors -> EditRecord] /\ overwrote \in BOOLEAN
      /\ \A d \in Editors : EditOK(edit[d])
  BY IdleIsOK DEF EditInit
<1> QED BY <1>1, <1>2, <1>3 DEF EditInv, ConservationUnlessOverwritten

(* Every step of the sale and of an edit keeps EditInv.                    *)
LEMMA EditInvStep ==
  ASSUME EditInv, [EditNext]_allVars
  PROVE  EditInv'
<1>1. CASE [Next]_vars /\ UNCHANGED editVars
  BY <1>1, SaleStep
<1>2. CASE \E d \in Editors : Edit(d)
  BY <1>2, EditBeginStep, EditReadTierStep, EditDecideStep, EditWriteStep, EditReopenStep,
     EditFailStep DEF Edit
<1> QED BY <1>1, <1>2 DEF EditNext, allVars

(* What handlers and edits count on holds in every reachable state, for    *)
(* any number of connections, editors, tiers and tickets, and any quantity *)
(* an organizer asks for.                                                  *)
THEOREM EditsInvariant == EditSpec => []EditInv
<1>1. EditInv /\ [EditNext]_allVars => EditInv'
  BY EditInvStep
<1> QED BY <1>1, InitEditInv, PTL DEF EditSpec

(* The CHECK of ticket_tiers is never violated by a sale or an edit, and a *)
(* refund that would violate it is rolled back: nobody reads a row with    *)
(* more left than it holds.                                                *)
THEOREM RowsFit == EditSpec => []RemainingFits
<1>1. EditInv => RemainingFits
  BY DEF EditInv
<1> QED BY <1>1, EditsInvariant, PTL

(* updateTier and the sales keep the books of a tier together, as long as  *)
(* Update replaces no row that it has not read.                            *)
THEOREM EditsKeepTheBooks == EditSpec => []ConservationUnlessOverwritten
<1>1. EditInv => ConservationUnlessOverwritten
  BY DEF EditInv
<1> QED BY <1>1, EditsInvariant, PTL

(* What edits leave alone, however stale they are and whatever they        *)
(* overwrite: the tickets of refunds, the door, and freedom from deadlock. *)
(* updateTier holds no row between its statements.                         *)
THEOREM EditsSpareTheTickets == EditSpec => [](RefundedIsWhole /\ AdmittedOnce /\ NoWaitCycle)
<1>1. EditInv => RefundedIsWhole /\ AdmittedOnce
  BY DEF EditInv, CoreInv, TicketInv, AdmittedOnce
<1>2. EditInv => NoWaitCycle
  BY NobodyWaitsInACircle DEF EditInv
<1> QED BY <1>1, <1>2, EditsInvariant, PTL

(* No edit, however stale, takes an event off the arrows of its life       *)
(* cycle: SetStatus writes a sold_out event only.                          *)
THEOREM EditsOnlyReopen == EditSpec => EditsKeepLifeCycle
<1> DEFINE Advances == \A e \in Events : eventStatus'[e] # eventStatus[e] =>
                          <<eventStatus[e], eventStatus'[e]>> \in EventArrows
<1>1. ASSUME EditInv, [EditNext]_allVars PROVE Advances
  <2>1. CASE [Next]_vars
    BY <1>1, <2>1, EventStep DEF EditInv
  <2>2. CASE \E d \in Editors : EditReopen(d)
    BY <1>1, <2>2 DEF EditReopen, StatusMatches, EventArrows, EditInv, CoreInv, TypeOK
  <2>3. CASE UNCHANGED eventStatus
    BY <2>3
  <2> QED BY <1>1, <2>1, <2>2, <2>3 DEF EditNext, allVars, Edit, EditBegin, EditReadTier, EditDecide,
                                        EditWrite, EditFail, vars, rowVars
<1>2. EditInv /\ [EditNext]_allVars => Advances
  BY <1>1
<1> QED BY <1>2, EditsInvariant, PTL DEF EditSpec, EditsKeepLifeCycle

===============================================================================
