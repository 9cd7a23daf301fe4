---- MODULE MCListings ----
(* The instance of Listings that TLC checks. *)
EXTENDS Listings
====
