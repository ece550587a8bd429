----------------------------- MODULE MCListing -----------------------------
(* The runs of Listing: every list of resource groups within the bounds.     *)
EXTENDS Listing
=============================================================================
