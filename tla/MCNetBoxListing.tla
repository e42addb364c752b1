--------------------------- MODULE MCNetBoxListing ---------------------------
(***************************************************************************)
(* A small instance of NetBoxListing for TLC.                              *)
(***************************************************************************)
EXTENDS NetBoxListing, TLC

CONSTANTS a, b, c

Alike == Permutations(Items)

=============================================================================
