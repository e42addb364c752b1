---------------------------- MODULE Containment ----------------------------
(***************************************************************************)
(* Overlapping address ranges within one Kentik Custom Dimension           *)
(* (internal/sync/ipgroup_dimension.go).  A candidate is an IP group       *)
(* together with its range and tenant.                                     *)
(***************************************************************************)
EXTENDS Naturals

CONSTANTS
    Candidates,     \* IP groups as filterMostSpecific compares them
    Addresses,      \* Addresses[c]: the addresses in the range of c
    Bits,           \* Bits[c]: the length of its prefix
    Key             \* Key[c]: the rank of its tieKey

(***************************************************************************)
(* Ranges are prefixes, so one of two that overlap contains the other; and *)
(* tieKey ends in the external ID, so no two candidates have the same.     *)
(***************************************************************************)
ASSUME ContainmentAssumption ==
    /\ Bits \in [Candidates -> 0..128]
    /\ Key \in [Candidates -> Nat]
    /\ \A a, b \in Candidates :
        /\ a # b => Key[a] # Key[b]
        /\ Addresses[a] \cap Addresses[b] # {} /\ Bits[a] >= Bits[b]
             => Addresses[a] \subseteq Addresses[b]

Overlap(a, b) == Addresses[a] \cap Addresses[b] # {}

(***************************************************************************)
(* Of two overlapping candidates the longer prefix wins, and of two equally*)
(* long ones the lower key.                                                *)
(***************************************************************************)
Wins(a, b) ==
    \/ Bits[a] > Bits[b]
    \/ Bits[a] = Bits[b] /\ Key[a] < Key[b]

Beats(a, b) == Overlap(a, b) /\ Wins(a, b)

(***************************************************************************)
(* What filterMostSpecific is for: the candidates that no other one beats. *)
(***************************************************************************)
MostSpecific(C) == {c \in C : \A d \in C : ~Beats(d, c)}

=============================================================================
