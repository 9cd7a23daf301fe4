------------------------------- MODULE TierEdits -------------------------------
(***************************************************************************)
(* Purchasing while the organizer edits tiers: updateTier reads the event  *)
(* (in requireEventOrganizer), the tier and the sum of all tiers one query *)
(* after the other, and writes quantity, remaining and status back with    *)
(* TiersStore.Update, a statement that takes no account of what became of  *)
(* the row in between.                                                     *)
(***************************************************************************)
EXTENDS Purchasing, FiniteSetsExt

CONSTANTS
    Editors,        \* requests to PATCH .../tiers/{tierId}
    MaxQuantity,    \* bound on the quantity an organizer asks for
    EventCapacity   \* events.capacity as a set: {} is NULL, {n} is n

ASSUME EditAssumption ==
    /\ MaxQuantity \in Nat \ {0}
    /\ EventCapacity \in [Events -> SUBSET Nat]

VARIABLES
    edit,           \* what a request has read and will write
    overwrote       \* history: a write replaced a row it had not read

editVars == <<edit, overwrote>>
allVars  == <<vars, editVars>>

NoRow == [quantity |-> 0, remaining |-> 0, status |-> "sold_out"]

IdleEdit == [step |-> "idle", tier |-> Nothing, eventSoldOut |-> FALSE,
             row |-> NoRow, new |-> NoRow]

Row(t) == [quantity |-> quantity[t], remaining |-> remaining[t], status |-> tierStatus[t]]

SetEdit(d, r) == edit' = [edit EXCEPT ![d] = r]

(* requireEventOrganizer loads the event; a frozen one is refused. *)
EditBegin(d, t) ==
    /\ edit[d] = IdleEdit
    /\ eventStatus[EventOf[t]] \in OnSale
    /\ SetEdit(d, [IdleEdit EXCEPT !.step = "tier", !.tier = t,
                   !.eventSoldOut = eventStatus[EventOf[t]] = "sold_out"])
    /\ UNCHANGED <<vars, overwrote>>

EditReadTier(d) ==
    /\ edit[d].step = "tier"
    /\ SetEdit(d, [edit[d] EXCEPT !.step = "payload", !.row = Row(edit[d].tier)])
    /\ UNCHANGED <<vars, overwrote>>

Total(e) == MapThenSumSet(LAMBDA t : quantity[t], TiersOf(e))

Sold(row) == row.quantity - row.remaining

(* sold is forgotten: everything the tier has is on sale again *)
Resized_unsold(row, q) ==
    [quantity |-> q, remaining |-> q,
     status |-> IF q > 0 THEN "available" ELSE "sold_out"]

Resized(row, q) ==
    [quantity |-> q, remaining |-> q - Sold(row),
     status |-> IF q - Sold(row) > 0 THEN "available" ELSE "sold_out"]

MayResize(d, q) ==
    LET row == edit[d].row
        e == EventOf[edit[d].tier]
    IN  /\ q >= Sold(row)
        /\ \A cap \in EventCapacity[e] : Total(e) - row.quantity + q <= cap

(* The payload names a quantity, or only a name and a price; in both cases *)
(* the whole row is written.  A refused resize ends the request.           *)
EditDecide(d) ==
    /\ edit[d].step = "payload"
    /\ \/ SetEdit(d, [edit[d] EXCEPT !.step = "write", !.new = edit[d].row])
       \/ \E q \in 1 .. MaxQuantity :
             SetEdit(d, IF MayResize(d, q)
                        THEN [edit[d] EXCEPT !.step = "write", !.new = Resized(edit[d].row, q)]
                        ELSE IdleEdit)
    /\ UNCHANGED <<vars, overwrote>>

WriteTier(t, row) ==
    /\ quantity' = [quantity EXCEPT ![t] = row.quantity]
    /\ remaining' = [remaining EXCEPT ![t] = row.remaining]
    /\ tierStatus' = [tierStatus EXCEPT ![t] = row.status]

(* Update waits for a buyer's lock and then writes what it came with. *)
EditWrite(d) ==
    LET t == edit[d].tier
    IN  /\ edit[d].step = "write"
        /\ TierFree(t)
        /\ WriteTier(t, edit[d].new)
        /\ overwrote' = (overwrote \/ Row(t) # edit[d].row)
        /\ SetEdit(d, IF edit[d].eventSoldOut /\ edit[d].new.remaining > 0
                      THEN [IdleEdit EXCEPT !.step = "event", !.tier = t]
                      ELSE IdleEdit)
        /\ UNCHANGED <<now, eventStatus, purchase, ticket, admitted, promotions, connVars>>

(* SetStatus without AND status = $2 *)
StatusMatches_always(e) == eventStatus[e] # "published"

StatusMatches(e) == eventStatus[e] = "sold_out"

(* SetStatus(event, sold_out, published) *)
EditReopen(d) ==
    LET e == EventOf[edit[d].tier]
    IN  /\ edit[d].step = "event"
        /\ \/ /\ StatusMatches(e)
              /\ EventFree(e)
              /\ eventStatus' = [eventStatus EXCEPT ![e] = "published"]
           \/ /\ ~StatusMatches(e)
              /\ UNCHANGED eventStatus
        /\ SetEdit(d, IdleEdit)
        /\ UNCHANGED <<now, saleVars, purchase, ticket, admitted, promotions,
                       connVars, overwrote>>

(* A query fails or the server stops: what was written stays written. *)
EditFail(d) ==
    /\ edit[d] # IdleEdit
    /\ SetEdit(d, IdleEdit)
    /\ UNCHANGED <<vars, overwrote>>

EditInit ==
    /\ Init
    /\ edit = [d \in Editors |-> IdleEdit]
    /\ overwrote = FALSE

Edit(d) ==
    \/ \E t \in Tiers : EditBegin(d, t)
    \/ EditReadTier(d)
    \/ EditDecide(d)
    \/ EditWrite(d)
    \/ EditReopen(d)
    \/ EditFail(d)

EditNext ==
    \/ Next /\ UNCHANGED editVars
    \/ \E d \in Editors : Edit(d)

EditSpec == EditInit /\ [][EditNext]_allVars

-------------------------------------------------------------------------------
(* A tier never has more left than it holds, whoever wrote the row last:   *)
(* the CHECK of the table refuses a refund that an edit has made too big.  *)
RemainingFits == \A t \in Tiers : remaining[t] \in 0 .. quantity[t]

(* As long as no edit replaced a row that a sale, a refund or another edit *)
(* had changed since it was read, edits keep the books of the tier.        *)
ConservationUnlessOverwritten == ~overwrote => Conservation /\ TierStatusAgrees

(* A single tier that sells out, by a sale or by an edit, sells out its     *)
(* event, and stock that comes back reopens it.                            *)
EventFollowsTier == ~overwrote => SoleTierEventStatus

-------------------------------------------------------------------------------
(* The inductive invariant *)

RowRecord == [quantity : Nat, remaining : Nat, status : {"available", "sold_out"}]

EditRecord ==
    [step : {"idle", "tier", "payload", "write", "event"}, tier : Tiers \cup {Nothing},
     eventSoldOut : BOOLEAN, row : RowRecord, new : RowRecord]

StatusFits(row) == row.status = "sold_out" <=> row.remaining = 0

(* What a request writes counts as many places sold as the row it read,    *)
(* and agrees with itself as well as that row did.                         *)
EditOK(w) ==
    /\ w.step # "idle" => w.tier \in Tiers
    /\ w.row.remaining <= w.row.quantity
    /\ w.step = "payload" => w.row.quantity > 0
    /\ w.step = "write" =>
           /\ w.new.quantity > 0
           /\ w.new.remaining <= w.new.quantity
           /\ Sold(w.new) = Sold(w.row)
           /\ StatusFits(w.row) => StatusFits(w.new)

(* A refund that has passed the table's CHECK still passes it: edits wait  *)
(* for the tier.                                                           *)
RefundFits ==
    \A c \in Conns : pc[c] \in CanRestored => FitsTier(TierOf[work[c]], Quantity(work[c]))

(* Inductive: what the handlers of the sale and the edits count on.        *)
EditInv ==
    /\ CoreInv
    /\ edit \in [Editors -> EditRecord] /\ overwrote \in BOOLEAN
    /\ \A d \in Editors : EditOK(edit[d])
    /\ RemainingFits
    /\ RefundFits
    /\ ConservationUnlessOverwritten

-------------------------------------------------------------------------------
(* Edits move the event along its life cycle only, however late their last *)
(* statement runs.                                                         *)
EditsKeepLifeCycle ==
    [][\A e \in Events : eventStatus'[e] # eventStatus[e] =>
           <<eventStatus[e], eventStatus'[e]>> \in EventArrows]_allVars

===============================================================================
