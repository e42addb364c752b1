--------------------------- MODULE MCIPGroupSync ---------------------------
(***************************************************************************)
(* Constants of IPGroupSync for TLC: ranges within a space of two          *)
(* addresses, and tenants routed to two dimensions.                        *)
(***************************************************************************)
EXTENDS IPGroupSync, TLC

Wide == "10.0.0.0/31"
Low  == "10.0.0.0/32"
Span == "10.0.0.1-10.0.0.1"     \* an IP range, no prefix

MCAddressesOf == (Wide :> {0, 1}) @@ (Low :> {0}) @@ (Span :> {1})
MCBitsOf      == (Wide :> 31) @@ (Low :> 32) @@ (Span :> 0)

AllCidrs == {Wide, Low, Span}
Nested   == {Wide, Low}
MCSpans  == {Span}
NoSpans  == {}

Red == [tenant |-> "red", vrf |-> Unset]
Sky == [tenant |-> "red", vrf |-> "sky"]
Tan == [tenant |-> "tan", vrf |-> "sky"]

OneTenant  == {Red}
TwoTenants == {Red, Sky}
AllTenants == {Red, Sky, Tan}

MCDefaultDims == [src |-> "d1", dst |-> "d1"]

\* Red goes to the default d1 and Sky to d2; the sides of Tan are apart.
MCRoutes ==
    {[tenant |-> "red", vrf |-> "sky", src |-> "d2",  dst |-> "d2"],
     [tenant |-> "red", vrf |-> Unset, src |-> "d1",  dst |-> Unset],
     [tenant |-> "tan", vrf |-> Unset, src |-> Unset, dst |-> "d2"]}

\* The order of the concatenations tenant, VRF, CIDR, external ID and side.
TenantRank == Red :> 0 @@ Sky :> 1 @@ Tan :> 2
SideRank   == "" :> 0 @@ "dst" :> 1 @@ "src" :> 2
CidrRank   == Wide :> 0 @@ Low :> 1 @@ Span :> 2

MCKeyOf ==
    [c \in CandidateSet |->
        ((TenantRank[c.tenant] * 3 + CidrRank[c.cidr]) * 4 + c.half[1]) * 3
          + SideRank[c.half[2]]]

=============================================================================
