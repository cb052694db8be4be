------------------------------- MODULE Panels -------------------------------
(***************************************************************************)
(* What the slow passes store of the NSX inventory and what the panels     *)
(* show of it: the alarms of Worker.Collect, the aggregates of             *)
(* CapacityCollector.Collect (T1s per VRF and per T0, site totals,         *)
(* segments, gateway policies, NAT rules), the points they become in       *)
(* internal/influxdb/points.go, and both writes.                           *)
(*                                                                         *)
(* Every section lists the inventory at a time of its own and joins what   *)
(* it lists, by path, with the T0 and T1 listings of the pass.  The        *)
(* inventory may change between any two steps and any call may fail.       *)
(*                                                                         *)
(* Abstractions.  A point is its series (measurement and tags) and one     *)
(* count.  A gateway or T1 stands for its path, its last path segment and, *)
(* unless a gateway is renamed, its display name; display names are taken  *)
(* to be unique.  A policy has one rule and a T1 one NAT rule.  Every      *)
(* optional section is on.  Limits, LB credits, usage and groups, which    *)
(* are joined with nothing, are left out.  A panel takes the last point of *)
(* every series (external); an age is the number of passes begun since the *)
(* pass that stored the point.                                             *)
(***************************************************************************)
EXTENDS Naturals, FiniteSets

CONSTANTS
    T1s, Gateways,  \* the T1s, and the T0s and VRFs, that may ever exist
    Vrfs,           \* the gateways that are VRFs
    Aliases,        \* other display names of gateways
    Segments, Policies, Alarms,
    Scopes,         \* the scopes a policy may have
    AlarmStates,    \* the types, summaries and vendor severities of an alarm
    Absent,         \* does not exist
    NoPath,         \* attached to nothing
    Dash,           \* the tag value "-" of an empty name or id
    Window,         \* passes the time range of a panel covers
    MaxChanges,     \* bound on the number of inventory changes
    MaxFaults       \* bound on the number of failed calls

Names == Gateways \cup Aliases
Places == T1s \cup Gateways

ASSUME PlacesAssumption ==
    /\ Vrfs \subseteq Gateways /\ Scopes \subseteq SUBSET Places
    /\ T1s \cap Names = {} /\ Aliases \cap Gateways = {}
    /\ {Absent, NoPath, Dash} \cap (T1s \cup Names) = {}
ASSUME FiniteAssumption ==
    /\ IsFiniteSet(T1s) /\ IsFiniteSet(Gateways)
    /\ IsFiniteSet(Segments) /\ IsFiniteSet(Policies)
ASSUME WindowAssumption == Window \in Nat \ {0}
ASSUME BoundsAssumption == MaxChanges \in Nat /\ MaxFaults \in Nat

VARIABLES
    gw,        \* NSX inventory: T0 or VRF -> display name or Absent
    t1,        \* NSX inventory: T1 -> gateway, NoPath or Absent
    segment,   \* NSX inventory: segment -> T1, gateway, NoPath or Absent
    scope,     \* NSX inventory: policy -> set of gateways and T1s
    alarm,     \* NSX inventory: alarm -> its state or Absent
    pc,        \* the section the pass has reached
    seenGw,    \* the T0 listing of the pass
    seenT1,    \* the T1 listing of the pass
    points,    \* the points of the pass for the default bucket
    capPoints, \* the points of the pass for the capacity bucket
    store,     \* both buckets: series -> count and age of its last point
    clean,     \* history: ages of the finished passes without a fault
    flawless,  \* history: no call of this pass has failed yet
    calm,      \* history: passes finished since the inventory changed
    changes, faults

inventory == <<gw, t1, segment, scope, alarm>>
listings == <<seenGw, seenT1>>
batch == <<points, capPoints>>
history == <<clean, flawless, calm>>
vars == <<inventory, pc, listings, batch, store, history, changes, faults>>

NoPoints == [series \in {} |-> 0]
\* The points of f and those of g; f's where both have the series.
Merge(f, g) == [series \in DOMAIN f \cup DOMAIN g |-> IF series \in DOMAIN f THEN f[series] ELSE g[series]]
Exists(map) == {x \in DOMAIN map : map[x] # Absent}

-----------------------------------------------------------------------------
(* The NSX inventory: nothing that something hangs from is deleted. *)

UsedPlaces ==
    {t1[t] : t \in T1s} \cup {segment[s] : s \in Segments} \cup UNION {scope[p] : p \in Policies}

Sound ==
    /\ UsedPlaces \subseteq Exists(gw) \cup Exists(t1) \cup {NoPath, Absent}
    /\ \A g \in Exists(gw), h \in Gateways : gw[g] \in {h, gw[h]} => g = h

Init ==
    /\ gw \in [Gateways -> Names \cup {Absent}]
    /\ t1 \in [T1s -> Gateways \cup {NoPath, Absent}]
    /\ segment \in [Segments -> Places \cup {NoPath, Absent}]
    /\ scope \in [Policies -> Scopes]
    /\ alarm \in [Alarms -> AlarmStates \cup {Absent}]
    /\ Sound
    /\ pc = "alarms"
    /\ seenGw = [g \in Gateways |-> Absent]
    /\ seenT1 = [t \in T1s |-> Absent]
    /\ points = NoPoints /\ capPoints = NoPoints /\ store = NoPoints
    /\ clean = {} /\ flawless = TRUE /\ calm = 0
    /\ changes = 0 /\ faults = 0

ChangeInventory ==
    /\ changes < MaxChanges /\ changes' = changes + 1
    /\ calm' = 0
    /\ \/ \E g \in Gateways, n \in Names \cup {Absent} :
            gw' = [gw EXCEPT ![g] = n] /\ UNCHANGED <<t1, segment, scope, alarm>>
       \/ \E t \in T1s, g \in Gateways \cup {NoPath, Absent} :
            t1' = [t1 EXCEPT ![t] = g] /\ UNCHANGED <<gw, segment, scope, alarm>>
       \/ \E s \in Segments, p \in Places \cup {NoPath, Absent} :
            segment' = [segment EXCEPT ![s] = p] /\ UNCHANGED <<gw, t1, scope, alarm>>
       \/ \E p \in Policies, places \in Scopes :
            scope' = [scope EXCEPT ![p] = places] /\ UNCHANGED <<gw, t1, segment, alarm>>
       \/ \E a \in Alarms, state \in AlarmStates \cup {Absent} :
            alarm' = [alarm EXCEPT ![a] = state] /\ UNCHANGED <<gw, t1, segment, scope>>
    /\ Sound'
    /\ UNCHANGED <<pc, listings, batch, store, clean, flawless, faults>>

-----------------------------------------------------------------------------
(* The points, from a T0 listing gws and a T1 listing ts. *)

\* One point per series, with the number of items that belong to it.
CountBy(items, Series(_)) ==
    [key \in {Series(i) : i \in items} |-> Cardinality({i \in items : Series(i) = key})]

\* What follows the last slash of a path, and "-" where a tag would be empty.
LastPathSegment(path) == IF path = NoPath THEN Dash ELSE path

\* The unique id of what was found in a listing.
Uuid(x) == <<"uuid", x>>

IsListed(place, listing) == place \in Exists(listing)
Kind(g) == IF g \in Vrfs THEN "vrf" ELSE "t0"

\* The parent of a T1; a gateway that was not listed counts as a T0.
ParentSeries(path, gws) ==
    IF IsListed(path, gws)
    THEN <<IF path \in Vrfs THEN "t1_per_vrf" ELSE "t1_per_t0", gws[path], Uuid(path)>>
    ELSE <<"t1_per_t0", LastPathSegment(path), Dash>>

\* Mutant of T1Points: a T1 whose gateway was not listed is left out.
T1PointsWithoutOrphans(gws, ts) ==
    CountBy({t \in Exists(ts) : IsListed(ts[t], gws)}, LAMBDA t : ParentSeries(ts[t], gws))

T1Points(gws, ts) == CountBy(Exists(ts), LAMBDA t : ParentSeries(ts[t], gws))

SiteT1Totals(gws, ts) ==
    LET total == Cardinality(Exists(ts))
        onVrf == Cardinality({t \in Exists(ts) : IsListed(ts[t], gws) /\ ts[t] \in Vrfs})
    IN  [series \in {"t1_totals"} \X {"total", "on_vrf", "on_t0"} |->
            CASE series[2] = "total" -> total
              [] series[2] = "on_vrf" -> onVrf
              [] series[2] = "on_t0" -> total - onVrf]

\* Kind, name and id of what a segment or a scope is attached to.
ClassifyConnectivityPath(path, gws, ts) ==
    IF path = NoPath THEN <<"overlay", Dash, Dash>>
    ELSE IF path \in T1s
    THEN <<"t1", path, IF IsListed(path, ts) THEN Uuid(path) ELSE path>>
    ELSE IF IsListed(path, gws) THEN <<Kind(path), gws[path], Uuid(path)>>
    ELSE <<"t0", path, path>>

SegmentPoints(gws, ts) ==
    CountBy(Exists(segment), LAMBDA s : <<"segments", ClassifyConnectivityPath(segment[s], gws, ts)>>)

\* A policy counts once for every place of its scope.
Scoped == {entry \in Policies \X Places : entry[2] \in scope[entry[1]]}

PolicyPoints(gws, ts) ==
    CountBy(Scoped, LAMBDA entry : <<"fw", ClassifyConnectivityPath(entry[2], gws, ts)>>)

\* Unlike for ParentSeries, a gateway that was not listed has no name.
NATSeries(t, gws, ts) ==
    IF IsListed(ts[t], gws) THEN <<"nat", t, Kind(ts[t]), gws[ts[t]]>> ELSE <<"nat", t, "t0", Dash>>

NATPoints(answered, gws, ts) == CountBy(answered, LAMBDA t : NATSeries(t, gws, ts))

\* The severity the NOC wants: expired certificates by their summary, a table
\* for some event types, and the vendor's severity for the rest.
OperationalSeverity(a) ==
    IF a.type = "certificate expired" THEN (IF a.selfSigned THEN "WARNING" ELSE a.severity)
    ELSE IF a.type \in {"edge nic link status down", "heavy volume of alarms"} THEN "WARNING"
    ELSE IF a.type \in {"management channel to transport node down long", "failure domain down",
                        "management channel to manager node down long"} THEN "CRITICAL"
    ELSE IF a.type \in {"password expired", "edge disk usage very high", "application crashed",
                        "service router limit per edge exceeded", "maximum capacity",
                        "rules limit per edge exceeded"} THEN "HIGH"
    ELSE a.severity

SeverityNum(severity) ==
    CASE severity = "CRITICAL" -> 4
      [] severity = "HIGH" -> 3
      [] severity \in {"WARNING", "MEDIUM"} -> 2
      [] severity = "LOW" -> 1
      [] OTHER -> 0

\* The series of an alarm carries both severities and the summary.
AlarmPoints ==
    [series \in {<<"alarm", a, OperationalSeverity(alarm[a]), alarm[a]>> : a \in Exists(alarm)} |->
        SeverityNum(series[3])]

-----------------------------------------------------------------------------
(* The sections of a pass. *)

Section(from, to) == pc = from /\ pc' = to

Keep == UNCHANGED <<inventory, store, history, changes, faults>>

\* A call fails: what it was for is skipped.
Fault ==
    /\ faults < MaxFaults /\ faults' = faults + 1
    /\ flawless' = FALSE
    /\ UNCHANGED <<inventory, clean, calm, changes>>

\* A pass begins: every stored point is one pass older, and what leaves the
\* time range of the panels is forgotten.
Aged ==
    [series \in {s \in DOMAIN store : store[s].age + 1 < Window} |->
        [store[series] EXCEPT !.age = @ + 1]]

BeginPass ==
    /\ Section("alarms", "t0s")
    /\ store' = Aged
    /\ clean' = {a + 1 : a \in {b \in clean : b + 1 < Window}}
    /\ UNCHANGED <<inventory, listings, capPoints, calm, changes>>

ListAlarms ==
    /\ BeginPass
    /\ points' = AlarmPoints
    /\ UNCHANGED <<flawless, faults>>

AlarmsFail ==
    /\ BeginPass
    /\ faults < MaxFaults /\ faults' = faults + 1
    /\ flawless' = FALSE
    /\ UNCHANGED points

ListTier0s ==
    /\ Section("t0s", "t1s")
    /\ seenGw' = gw
    /\ UNCHANGED <<seenT1, batch>> /\ Keep

\* The T1 listing and what is counted from it and the T0 listing.
ListTier1s ==
    /\ Section("t1s", "segments")
    /\ seenT1' = t1
    /\ points' = Merge(points, SiteT1Totals(seenGw, t1))
    /\ capPoints' = Merge(capPoints, T1Points(seenGw, t1))
    /\ UNCHANGED seenGw /\ Keep

\* Mutant of InventoryFails: a failed T0 listing is taken for an empty one.
InventoryFailsOpen ==
    /\ \/ Section("t0s", "t1s") \/ Section("t1s", "capacity")
    /\ Fault /\ UNCHANGED <<listings, batch, store>>

\* Without either listing nothing can be placed: the capacity pass is over.
InventoryFails ==
    /\ Section("t0s", "capacity") \/ Section("t1s", "capacity")
    /\ Fault /\ UNCHANGED <<listings, batch, store>>

\* Mutant of ListSegments: looked up in the T0s alone.
ListSegmentsOfTier0s ==
    /\ Section("segments", "policies")
    /\ capPoints' = Merge(capPoints, SegmentPoints(seenGw, NoPoints))
    /\ UNCHANGED <<listings, points>> /\ Keep

ListSegments ==
    /\ Section("segments", "policies")
    /\ capPoints' = Merge(capPoints, SegmentPoints(seenGw, seenT1))
    /\ UNCHANGED <<listings, points>> /\ Keep

ListPolicies ==
    /\ Section("policies", "nat")
    /\ capPoints' = Merge(capPoints, PolicyPoints(seenGw, seenT1))
    /\ UNCHANGED <<listings, points>> /\ Keep

SectionFails ==
    /\ Section("segments", "policies") \/ Section("policies", "nat")
    /\ Fault /\ UNCHANGED <<listings, batch, store>>

CountNAT(answered) ==
    /\ Section("nat", "capacity")
    /\ capPoints' = Merge(capPoints, NATPoints(answered, seenGw, seenT1))
    /\ UNCHANGED <<listings, points>>

\* One request per T1; the one for a T1 that is gone by then is refused.
FetchNATPerT1 ==
    /\ CountNAT(Exists(seenT1) \cap Exists(t1))
    /\ Keep

\* The request of one T1 fails; the others are counted.
NATFails ==
    /\ \E t \in Exists(seenT1) \cap Exists(t1) : CountNAT((Exists(seenT1) \cap Exists(t1)) \ {t})
    /\ Fault /\ UNCHANGED store

Stored(written) ==
    Merge([series \in DOMAIN written |-> [count |-> written[series], age |-> 0]], store)

WriteCapacityPoints ==
    /\ Section("capacity", "default")
    /\ store' = Stored(capPoints)
    /\ capPoints' = NoPoints
    /\ UNCHANGED <<inventory, listings, points, history, changes, faults>>

CapacityWriteFails ==
    /\ Section("capacity", "default")
    /\ capPoints' = NoPoints
    /\ Fault /\ UNCHANGED <<listings, points, store>>

CalmLimit == Window + 1

EndPass ==
    /\ Section("default", "alarms")
    /\ seenGw' = [g \in Gateways |-> Absent] /\ seenT1' = [t \in T1s |-> Absent]
    /\ flawless' = TRUE
    /\ calm' = IF calm < CalmLimit THEN calm + 1 ELSE calm
    /\ UNCHANGED <<inventory, capPoints, changes>>

\* Mutant of WritePoints: the points stay for the next pass.
WritePointsKept ==
    /\ EndPass
    /\ store' = Stored(points)
    /\ clean' = IF flawless THEN clean \cup {0} ELSE clean
    /\ UNCHANGED <<points, faults>>

WritePoints ==
    /\ EndPass
    /\ store' = Stored(points)
    /\ points' = NoPoints
    /\ clean' = IF flawless THEN clean \cup {0} ELSE clean
    /\ UNCHANGED faults

WriteFails ==
    /\ EndPass
    /\ points' = NoPoints
    /\ faults < MaxFaults /\ faults' = faults + 1
    /\ UNCHANGED <<store, clean>>

Next ==
    \/ ChangeInventory
    \/ ListAlarms \/ ListTier0s \/ ListTier1s \/ ListSegments \/ ListPolicies \/ FetchNATPerT1
    \/ WriteCapacityPoints \/ WritePoints
    \/ AlarmsFail \/ InventoryFails \/ SectionFails \/ NATFails
    \/ CapacityWriteFails \/ WriteFails

Spec == Init /\ [][Next]_vars

-----------------------------------------------------------------------------
(* Properties. *)

\* What panels should show, told from the inventory alone: each gateway under
\* its present name, each thing where it hangs, each alarm as the NOC ranks it.
NameOf(place) ==
    IF place = NoPath THEN Dash ELSE IF place \in T1s THEN place ELSE gw[place]
IdOf(place) == IF place = NoPath THEN Dash ELSE Uuid(place)
KindOf(place) ==
    CASE place = NoPath -> "overlay" [] place \in T1s -> "t1"
      [] place \in Vrfs -> "vrf" [] OTHER -> "t0"
Label(place) == <<KindOf(place), NameOf(place), IdOf(place)>>

Parents == {t1[t] : t \in Exists(t1)}
Attached == {segment[s] : s \in Exists(segment)}
InScope == UNION {scope[p] : p \in Policies}
OnVrf == Cardinality({t \in T1s : t1[t] \in Vrfs})

ExpectedT1s ==
    [series \in {<<IF g \in Vrfs THEN "t1_per_vrf" ELSE "t1_per_t0", NameOf(g), IdOf(g)>> : g \in Parents} |->
        Cardinality({t \in Exists(t1) : NameOf(t1[t]) = series[2]})]
ExpectedTotals ==
    [series \in {"t1_totals"} \X {"total", "on_vrf", "on_t0"} |->
        CASE series[2] = "total" -> Cardinality(Exists(t1))
          [] series[2] = "on_vrf" -> OnVrf
          [] series[2] = "on_t0" -> Cardinality(Exists(t1)) - OnVrf]
ExpectedSegments ==
    [series \in {<<"segments", Label(place)>> : place \in Attached} |->
        Cardinality({s \in Exists(segment) : Label(segment[s]) = series[2]})]
ExpectedPolicies ==
    [series \in {<<"fw", Label(place)>> : place \in InScope} |->
        Cardinality({p \in Policies : \E place \in scope[p] : Label(place) = series[2]})]
ExpectedNAT ==
    [series \in {<<"nat", t, IF t1[t] \in Vrfs THEN "vrf" ELSE "t0", NameOf(t1[t])>> : t \in Exists(t1)} |-> 1]

Expected ==
    Merge(ExpectedT1s, Merge(ExpectedTotals, Merge(ExpectedSegments,
        Merge(ExpectedPolicies, Merge(ExpectedNAT, AlarmPoints)))))

Shown == [series \in DOMAIN store |-> store[series].count]

\* Every variable holds a value of its type, no point outlives the time range
\* and no pass inherits a point of the one before.
TypeOK ==
    /\ gw \in [Gateways -> Names \cup {Absent}]
    /\ t1 \in [T1s -> Gateways \cup {NoPath, Absent}]
    /\ segment \in [Segments -> Places \cup {NoPath, Absent}]
    /\ scope \in [Policies -> Scopes]
    /\ alarm \in [Alarms -> AlarmStates \cup {Absent}]
    /\ pc \in {"alarms", "t0s", "t1s", "segments", "policies", "nat", "capacity", "default"}
    /\ seenGw \in [Gateways -> Names \cup {Absent}]
    /\ seenT1 \in [T1s -> Gateways \cup {NoPath, Absent}]
    /\ \A series \in DOMAIN points : points[series] \in Nat
    /\ \A series \in DOMAIN capPoints : capPoints[series] \in Nat
    /\ pc = "alarms" => points = NoPoints
    /\ pc \in {"default", "alarms"} => capPoints = NoPoints
    /\ \A series \in DOMAIN store : store[series] \in [count : Nat, age : 0..Window - 1]
    /\ clean \subseteq 0..Window - 1 /\ flawless \in BOOLEAN
    /\ calm \in 0..CalmLimit
    /\ changes \in 0..MaxChanges /\ faults \in 0..MaxFaults

\* The inventory has not changed since before the oldest pass of the window.
Settled == calm >= CalmLimit \/ (calm = Window /\ pc # "alarms")

\* Once the inventory has been left alone for a window, no panel shows anything
\* that is not so: no old name, no place or parent of a half-seen listing, no
\* count of a vanished gateway, no superseded severity; and no failed call
\* makes a panel show something else, it can only make it show less.
NothingStale ==
    Settled => \A series \in DOMAIN Shown :
                  series \in DOMAIN Expected /\ Shown[series] = Expected[series]

\* And nothing is missing, as long as one pass of the window went through: a
\* failed call, section, listing or write of the others is not seen at all.
FaultsUnseen ==
    Settled /\ clean # {} => \A series \in DOMAIN Expected :
                  series \in DOMAIN Shown /\ Shown[series] = Expected[series]
=============================================================================
