------------------------------ MODULE MCTierEdits ------------------------------
(***************************************************************************)
(* TierEdits on one event with one tier of one place, two single tickets   *)
(* and one request that edits the tier.                                    *)
(***************************************************************************)
EXTENDS TierEdits, TLC

Symmetry == Permutations(Conns)

OneEvent == {"event"}
OneTier == {"floor"}
TwoPurchases == {"one", "other"}
TwoTickets == {"k1", "k2"}
TierEventOf == "floor" :> "event"
PurchaseTierOf == [p \in TwoPurchases |-> "floor"]
PurchaseTickets == "one" :> {"k1"} @@ "other" :> {"k2"}
OnePlace == "floor" :> 1
OpenRules == "event" :> [startsAt |-> 1, endsAt |-> 2, allowed |-> TRUE,
                         hoursBefore |-> 1, changedAt |-> {}, maxPer |-> 2]
NoCapacity == "event" :> {}
Capacity2 == "event" :> {2}

===============================================================================
