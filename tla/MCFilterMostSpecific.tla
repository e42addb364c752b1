------------------------ MODULE MCFilterMostSpecific ------------------------
(***************************************************************************)
(* Constants of FilterMostSpecific for TLC: prefixes of a tree of four     *)
(* addresses, two of them twice, under different tenants.                  *)
(***************************************************************************)
EXTENDS FilterMostSpecific, SequencesExt

SomePrefixes == {"all", "low", "low2", "high", "first", "first2", "last"}

PrefixAddresses ==
    [all |-> 0..3, low |-> 0..1, low2 |-> 0..1, high |-> 2..3,
     first |-> {0}, first2 |-> {0}, last |-> {3}]

PrefixBits ==
    [all |-> 0, low |-> 1, low2 |-> 1, high |-> 1,
     first |-> 2, first2 |-> 2, last |-> 2]

PrefixKeys ==
    [all |-> 4, low |-> 2, low2 |-> 1, high |-> 3,
     first |-> 5, first2 |-> 6, last |-> 0]

AllLists == BoundedSeq(SomePrefixes, 4)

\* Lists without repetition, as a fetch returns them from a quiet NetBox.
DistinctLists ==
    {s \in AllLists : \A m, n \in DOMAIN s : s[m] = s[n] => m = n}

=============================================================================
