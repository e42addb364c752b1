---------------------------- MODULE MCSyncEngine ----------------------------
(***************************************************************************)
(* Constants of SyncEngine for TLC: a few sites and devices, and distinct  *)
(* names of the devices.                                                   *)
(***************************************************************************)
EXTENDS SyncEngine, TLC

\* Distinct names.
OwnNames == [d \in Devices |-> d]

\* External IDs of one type are interchangeable, and so are attributes.
Symmetry == Permutations(Sites) \cup Permutations(Devices)
              \cup Permutations(Attrs)

=============================================================================
