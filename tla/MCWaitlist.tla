------------------------------ MODULE MCWaitlist ------------------------------
(***************************************************************************)
(* Waitlist on one tier of one place that somebody outside the list buys   *)
(* and gives back, and that a second buyer may then buy and give back too. *)
(***************************************************************************)
EXTENDS Waitlist, TLC

OneTier == {"floor"}
OnePurchase == {"first"}
FirstTierOf == [p \in OnePurchase |-> "floor"]
FirstPlaces == [p \in OnePurchase |-> 1]
FirstTickets == [p \in OnePurchase |-> {}]
FirstBuyerOf == [p \in OnePurchase |-> "outsider"]
OnePlace == [t \in OneTier |-> 1]

(* The place is sold and given back twice, so that two promotions overlap. *)
TwoPurchases == {"first", "second"}
PairTierOf == [p \in TwoPurchases |-> "floor"]
PairPlaces == [p \in TwoPurchases |-> 1]
PairTickets == [p \in TwoPurchases |-> {}]
PairBuyerOf == "first" :> "outsider" @@ "second" :> "ann"
Named == {"ann", "bob"}

WaitSymmetry == Permutations(Users) \cup Permutations(Tasks) \cup Permutations(Requests)
TaskSymmetry == Permutations(Tasks) \cup Permutations(Requests)

===============================================================================
