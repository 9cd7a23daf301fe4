---- MODULE MCAccounts ----
(* Instances of Accounts. *)
EXTENDS Accounts, TLC

CONSTANTS e1, g1, r1, r2

OneGoogleEmail == g1 :> e1
RequestSymmetry == Permutations(Requests)
====
