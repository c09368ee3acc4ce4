--------------------------- MODULE MCSupplierReview ---------------------------
(* One required field; two links, two calls. *)
EXTENDS SupplierReview, TLC

MCField == {"trade_name"}

Symmetry == Permutations(Call) \cup Permutations(Link)
=============================================================================
