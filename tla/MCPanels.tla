------------------------------ MODULE MCPanels ------------------------------
(* An instance of Panels for TLC: a T0 with a VRF, two T1s. *)
EXTENDS Panels

CONSTANTS tenant, shared, t0, vrf, seg, pol, cert

MCT1s == {tenant, shared}
MCGateways == {t0, vrf}
MCScopes == {{}, {shared, vrf}}
MCAlarmStates ==
    {[type |-> "certificate expired", selfSigned |-> selfSigned, severity |-> "CRITICAL"] :
        selfSigned \in BOOLEAN}

\* At first both gateways go by their own names and nothing has failed.
MCInit ==
    /\ Init
    /\ gw = [g \in Gateways |-> g]
    /\ t1 = [t \in T1s |-> IF t = tenant THEN vrf ELSE t0]
    /\ segment = [s \in Segments |-> tenant]
    /\ scope = [p \in Policies |-> {shared, vrf}]

MCSpec == MCInit /\ [][Next]_vars
=============================================================================
