SPECIFICATION MCSpec
CONSTANTS
    tenant = tenant shared = shared
    t0 = t0 vrf = vrf
    seg = seg pol = pol cert = cert
    T1s <- MCT1s
    Gateways <- MCGateways
    Vrfs = {vrf}
    Aliases = {renamed}
    Segments = {seg}
    Policies = {pol}
    Alarms = {cert}
    Scopes <- MCScopes
    AlarmStates <- MCAlarmStates
    Absent = Absent
    NoPath = NoPath
    Dash = Dash
    Window = 2
    MaxChanges = 2
    MaxFaults = 2
INVARIANTS
    TypeOK
    NothingStale
    FaultsUnseen
