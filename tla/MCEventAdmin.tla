----------------------------- MODULE MCEventAdmin -----------------------------
(***************************************************************************)
(* EventAdmin on an event of up to two tiers, with a purchase of each.     *)
(***************************************************************************)
EXTENDS EventAdmin, TLC

CONSTANTS floor, balcony, first, second

TwoTiers == {floor, balcony}

OneOfEach == {first, second}
EachTierOf == first :> floor @@ second :> balcony

(* The requests may be named in any order, and so may the terms, and the   *)
(* tiers together with their purchases: no action orders them.             *)
OtherWayRound ==
    floor :> balcony @@ balcony :> floor @@ first :> second @@ second :> first

AdminSymmetry == Permutations(Requests) \cup Permutations(Terms) \cup {OtherWayRound}

===============================================================================
