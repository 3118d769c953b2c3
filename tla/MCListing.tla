------------------------------ MODULE MCListing ------------------------------
(* Page sizes on both sides of every condition of pageSize. *)
EXTENDS Listing

MCSizes == {-1, 1, 2, 9}
=============================================================================
