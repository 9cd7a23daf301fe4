----------------------------- MODULE MCPurchasing -----------------------------
(***************************************************************************)
(* Small instances of Purchasing for TLC.  Sole*: one event with one tier  *)
(* of two places, bought singly and in a pair.  Two*: one event with two   *)
(* tiers.                                                                  *)
(***************************************************************************)
EXTENDS Purchasing, TLC

ConnSymmetry == Permutations(Conns)

OneEvent == {"event"}
MCRules(now0) == [startsAt |-> 1, endsAt |-> 2, allowed |-> TRUE,
                  hoursBefore |-> 1, changedAt |-> now0, maxPer |-> 2]

(* Cancellation is open at 0 only, and at 0 only by the grace window when  *)
(* hoursBefore exceeds startsAt.                                           *)
SoleRules == "event" :> MCRules({})
GraceRules == "event" :> [MCRules({0}) EXCEPT !.hoursBefore = 2]

SoleTiers == {"floor"}
SoleEventOf == "floor" :> "event"
SoleCapacity == "floor" :> 2
SolePurchases == {"pair", "one", "other"}
SoleTickets == {"k1", "k2", "k3", "k4"}
SoleTierOf == [p \in SolePurchases |-> "floor"]
SoleTicketsOf == "pair" :> {"k1", "k2"} @@ "one" :> {"k3"} @@ "other" :> {"k4"}

TwoTiers == {"floor", "balcony"}
TwoEventOf == [t \in TwoTiers |-> "event"]
UnevenCapacity == "floor" :> 2 @@ "balcony" :> 1
TwoPurchases == {"f1", "f2", "b1"}
TwoTickets == {"k1", "k2", "k3"}
TwoTierOf == "f1" :> "floor" @@ "f2" :> "floor" @@ "b1" :> "balcony"
TwoTicketsOf == "f1" :> {"k1"} @@ "f2" :> {"k2"} @@ "b1" :> {"k3"}

===============================================================================
