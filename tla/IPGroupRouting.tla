--------------------------- MODULE IPGroupRouting ---------------------------
(***************************************************************************)
(* Which Custom Dimensions the IP groups of a tenant and VRF go to         *)
(* (IPGroupDestinations in internal/sync/ipgroup_dimension.go): one for    *)
(* each traffic side, overridden by the routes of the configuration.       *)
(***************************************************************************)

CONSTANTS
    Tenants,        \* pairs of a tenant and a VRF, either of which may be unset
    Routes,         \* kentik.ip_group_dimensions
    DefaultDims,    \* DefaultDims.src and .dst
    Unset           \* the empty string

\* config.go refuses a second route with the same tenant and VRF.
ASSUME RoutingAssumption ==
    \A q, r \in Routes :
        /\ r.tenant # Unset
        /\ r.src # Unset \/ r.dst # Unset
        /\ q.tenant = r.tenant /\ q.vrf = r.vrf => q = r

\* The route of the tenant in its VRF or, failing that, of the tenant.
RoutesFor(t) ==
    LET own == {r \in Routes : r.tenant = t.tenant}
        scoped == {r \in own : r.vrf # Unset /\ r.vrf = t.vrf}
    IN  IF scoped # {} THEN scoped ELSE {r \in own : r.vrf = Unset}

\* A route that leaves a side unset leaves it to the default.
ResolveSide(t, side) ==
    IF \E r \in RoutesFor(t) : r[side] # Unset
      THEN (CHOOSE r \in RoutesFor(t) : r[side] # Unset)[side]
      ELSE DefaultDims[side]

RouteOf == [t \in Tenants |->
               [src |-> ResolveSide(t, "src"), dst |-> ResolveSide(t, "dst")]]

=============================================================================
