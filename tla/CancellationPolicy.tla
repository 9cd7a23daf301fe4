-------------------------- MODULE CancellationPolicy --------------------------
(***************************************************************************)
(* The cancellation policy of a purchase (PurchasesStore.Cancel): a pure   *)
(* function of the wall clock and of the five event columns it reads.      *)
(* Times are hours counted from an arbitrary origin.                       *)
(***************************************************************************)
EXTENDS Integers

CONSTANT GracePeriod        \* materialChangeGracePeriod, 72 in the code

ASSUME GraceAssumption == GracePeriod \in Nat

(* The event's sale and cancellation rules, the columns of a row of events *)
(* that the purchase path reads.  material_changed_at is a pointer in the  *)
(* code: {} is nil and {s} the stamp s.                                    *)
EventRules == [startsAt    : Int,
               endsAt      : Int,
               allowed     : BOOLEAN,
               hoursBefore : Nat,
               changedAt   : SUBSET Int,
               maxPer      : Nat \ {0}]

Started(now, r) == now >= r.startsAt

WindowClosed(now, r) == now > r.startsAt - r.hoursBefore

GraceOpen(now, r) == \E s \in r.changedAt : now < s + GracePeriod

(* The switch of policy checks and the window test after it. *)
MayCancel(now, r) ==
    /\ ~Started(now, r)
    /\ r.allowed
    /\ WindowClosed(now, r) => GraceOpen(now, r)

===============================================================================
