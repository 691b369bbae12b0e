------------------------------ MODULE MCVendor ------------------------------
(* Model-checking instance of Vendor: one path of each kind. *)
EXTENDS Vendor
=============================================================================
