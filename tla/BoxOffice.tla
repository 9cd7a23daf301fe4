------------------------------- MODULE BoxOffice -------------------------------
(***************************************************************************)
(* What the sale promises to whoever looks at committed rows only: selling,*)
(* refunding, voiding and admitting are single steps, a tier never gives   *)
(* out places it does not have, a purchase is refunded or voided once, and *)
(* only a ticket of a purchase that still stands opens the door.           *)
(* Purchasing implements this specification.                               *)
(***************************************************************************)
EXTENDS Integers

CONSTANTS
    Tiers, Purchases, Tickets,
    TierOf, TicketsOf,
    Places,         \* how many places a purchase takes
    Capacity

VARIABLES
    stock,          \* places left in a tier
    standing,       \* purchases that are confirmed
    closed,         \* purchases refunded or voided
    inside          \* tickets that have opened the door

boxVars == <<stock, standing, closed, inside>>

BoxInit ==
    /\ stock = Capacity
    /\ standing = {}
    /\ closed = {}
    /\ inside = {}

Sell(p) ==
    /\ p \notin standing \cup closed
    /\ stock[TierOf[p]] >= Places[p]
    /\ stock' = [stock EXCEPT ![TierOf[p]] = @ - Places[p]]
    /\ standing' = standing \cup {p}
    /\ UNCHANGED <<closed, inside>>

Refund(p) ==
    /\ p \in standing
    /\ stock' = [stock EXCEPT ![TierOf[p]] = @ + Places[p]]
    /\ standing' = standing \ {p}
    /\ closed' = closed \cup {p}
    /\ UNCHANGED inside

(* A cancelled event keeps its places. *)
VoidAll(S) ==
    /\ S # {}
    /\ S \subseteq standing
    /\ standing' = standing \ S
    /\ closed' = closed \cup S
    /\ UNCHANGED <<stock, inside>>

Admit(k) ==
    /\ \E p \in standing : k \in TicketsOf[p]
    /\ k \notin inside
    /\ inside' = inside \cup {k}
    /\ UNCHANGED <<stock, standing, closed>>

BoxNext ==
    \/ \E p \in Purchases : Sell(p) \/ Refund(p)
    \/ \E S \in SUBSET Purchases : VoidAll(S)
    \/ \E k \in Tickets : Admit(k)

BoxSpec == BoxInit /\ [][BoxNext]_boxVars

===============================================================================
