---------------------------- MODULE PanelsProofs ----------------------------
(***************************************************************************)
(* Proofs about Panels, for every inventory, window and bound: the type    *)
(* invariant, and what the panels show once the inventory has been left    *)
(* alone for a window (nothing that is not so, and all of it if one pass   *)
(* went through).                                                          *)
(***************************************************************************)
EXTENDS Panels, FiniteSetTheorems, TLAPS

-----------------------------------------------------------------------------
(* The inductive invariant.  A pass or a stored point is trusted from the  *)
(* moment nothing has changed since the pass began, long before the panels *)
(* are settled: only so is it preserved by the steps in between.           *)

\* Every point of f is a point of g.
Part(f, g) == \A series \in DOMAIN f : series \in DOMAIN g /\ f[series] = g[series]

\* The pass that stored a point of this age has begun after the last change,
\* when the present pass has come that far and that many have been finished.
After(section, passes, age) == IF section = "alarms" THEN age + 1 < passes ELSE age < passes
Current(age) == After(pc, calm, age)

\* A pass that has begun after the last change has listed and collected what
\* there is.
PassInv ==
    pc # "alarms" /\ calm >= 1 =>
        /\ Part(points, Expected) /\ Part(capPoints, Expected)
        /\ pc \in {"t1s", "segments", "policies", "nat"} => seenGw = gw
        /\ pc \in {"segments", "policies", "nat"} => seenT1 = t1

\* And what it stored is what there is.
StoreInv ==
    \A series \in DOMAIN store : Current(store[series].age) =>
        series \in DOMAIN Expected /\ store[series].count = Expected[series]

\* A series stored by one of the last age + 1 passes.
StoredSince(age, series) == series \in DOMAIN store /\ store[series].age <= age

\* What the capacity write is to store.
CapacitySeries ==
    DOMAIN ExpectedT1s \cup DOMAIN ExpectedSegments
        \cup DOMAIN ExpectedPolicies \cup DOMAIN ExpectedNAT

\* As long as no call has failed, all that its sections have dealt with is there.
FlawlessInv ==
    pc # "alarms" /\ calm >= 1 /\ flawless =>
        /\ DOMAIN AlarmPoints \subseteq DOMAIN points
        /\ pc \notin {"t0s", "t1s"} => DOMAIN ExpectedTotals \subseteq DOMAIN points
        /\ pc \in {"segments", "policies", "nat", "capacity"} => DOMAIN ExpectedT1s \subseteq DOMAIN capPoints
        /\ pc \in {"policies", "nat", "capacity"} => DOMAIN ExpectedSegments \subseteq DOMAIN capPoints
        /\ pc \in {"nat", "capacity"} => DOMAIN ExpectedPolicies \subseteq DOMAIN capPoints
        /\ pc = "capacity" => DOMAIN ExpectedNAT \subseteq DOMAIN capPoints
        /\ pc = "default" => \A series \in CapacitySeries : StoredSince(0, series)

\* A pass without a fault, begun after the last change, stored everything.
CleanInv ==
    \A age \in clean : Current(age) => \A series \in DOMAIN Expected : StoredSince(age, series)

PanelsInv == TypeOK /\ Sound /\ PassInv /\ StoreInv /\ FlawlessInv /\ CleanInv

-----------------------------------------------------------------------------
(* Points put together.                                                    *)

LEMMA MergeDomain ==
    ASSUME NEW f, NEW g
    PROVE  \A x : x \in DOMAIN Merge(f, g) <=> x \in DOMAIN f \/ x \in DOMAIN g
    BY DEF Merge

LEMMA MergePart ==
    ASSUME NEW f, NEW g, NEW e, Part(f, e), Part(g, e) PROVE Part(Merge(f, g), e)
    BY DEF Merge, Part

\* Two batches of counts make a batch of counts.
LEMMA MergeCounts ==
    ASSUME NEW f, NEW g, NEW S,
           \A x \in DOMAIN f : f[x] \in S, \A x \in DOMAIN g : g[x] \in S
    PROVE  \A x \in DOMAIN Merge(f, g) : Merge(f, g)[x] \in S
    BY DEF Merge

LEMMA NoPart == ASSUME NEW e PROVE Part(NoPoints, e)
    BY DEF Part, NoPoints

\* The points of a part are points of the whole.
LEMMA PartOfPart == ASSUME NEW f, NEW g, NEW e, Part(f, g), Part(g, e) PROVE Part(f, e)
    BY DEF Part

-----------------------------------------------------------------------------
(* The inventory a listing is joined with.                                 *)

\* Whatever something hangs from exists, and goes by a name of its own.
LEMMA ParentExists ==
    ASSUME TypeOK, Sound, NEW t \in Exists(t1)
    PROVE  t \in T1s /\ (t1[t] = NoPath \/ t1[t] \in Exists(gw))
    <1>1. t \in T1s /\ t1[t] # Absent /\ t1[t] \in UsedPlaces
        BY DEF Exists, TypeOK, UsedPlaces
    <1>2. t1[t] \notin Exists(t1)
        BY <1>1, PlacesAssumption DEF TypeOK, Names, Exists
    <1>3. QED BY <1>1, <1>2 DEF Sound

LEMMA AttachedExists ==
    ASSUME TypeOK, Sound, NEW s \in Exists(segment)
    PROVE  /\ s \in Segments
           /\ segment[s] = NoPath \/ segment[s] \in Exists(gw) \/ segment[s] \in Exists(t1)
    BY DEF Exists, TypeOK, UsedPlaces, Sound

LEMMA InScopeExists ==
    ASSUME TypeOK, Sound, NEW p \in Policies, NEW place \in scope[p]
    PROVE  place \in Places /\ (place \in Exists(gw) \/ place \in Exists(t1))
    <1>1. place \in Places /\ place \in UsedPlaces
        BY PlacesAssumption DEF TypeOK, UsedPlaces
    <1>2. place \notin {NoPath, Absent}
        BY <1>1, PlacesAssumption DEF Places, Names
    <1>3. QED BY <1>1, <1>2 DEF Sound

LEMMA ListedTypes ==
    TypeOK => /\ Exists(gw) \subseteq Gateways /\ Exists(t1) \subseteq T1s
              /\ \A g \in Exists(gw) : gw[g] \in Names
    BY DEF TypeOK, Exists

LEMMA UuidInjective == ASSUME NEW x, NEW y, Uuid(x) = Uuid(y) PROVE x = y
    BY DEF Uuid

\* The places are told apart by their ids.
LEMMA PlaceById == ASSUME NEW x \in Places, NEW y \in Places, IdOf(x) = IdOf(y) PROVE x = y
    BY UuidInjective, PlacesAssumption DEF IdOf, Places, Names

-----------------------------------------------------------------------------
(* What a pass counts from an up-to-date listing is what the panels should *)
(* show.                                                                   *)

LEMMA ParentLabel ==
    ASSUME TypeOK, Sound, NEW t \in Exists(t1)
    PROVE  ParentSeries(t1[t], gw) =
               <<IF t1[t] \in Vrfs THEN "t1_per_vrf" ELSE "t1_per_t0", NameOf(t1[t]), IdOf(t1[t])>>
    <1>1. CASE t1[t] = NoPath
        BY <1>1, PlacesAssumption, ListedTypes DEF ParentSeries, NameOf, IdOf, IsListed, LastPathSegment, Names
    <1>2. CASE t1[t] \in Exists(gw)
        BY <1>2, PlacesAssumption, ListedTypes DEF ParentSeries, NameOf, IdOf, IsListed, Names
    <1>3. QED BY <1>1, <1>2, ParentExists

\* Two parents with one name are one.
LEMMA ParentName ==
    ASSUME TypeOK, Sound, NEW t \in Exists(t1), NEW u \in Exists(t1), NameOf(t1[t]) = NameOf(t1[u])
    PROVE  t1[t] = t1[u]
    <1>1. \A v \in Exists(t1) : t1[v] \notin T1s
        BY PlacesAssumption DEF TypeOK, Exists, Names
    <1>2. \A v \in Exists(t1) : t1[v] # NoPath => t1[v] \in Exists(gw) /\ NameOf(t1[v]) = gw[t1[v]]
        BY ParentExists, <1>1 DEF NameOf
    <1>3. \A v \in Exists(t1) : t1[v] = NoPath => NameOf(t1[v]) = Dash
        BY DEF NameOf
    <1>4. \A g \in Exists(gw) : gw[g] # Dash
        BY ListedTypes, PlacesAssumption
    <1>5. \A g, h \in Exists(gw) : gw[g] = gw[h] => g = h
        BY ListedTypes DEF Sound
    <1>6. QED BY <1>2, <1>3, <1>4, <1>5

LEMMA T1sCounted == ASSUME TypeOK, Sound PROVE T1Points(gw, t1) = ExpectedT1s
    <1> DEFINE series(t) ==
            <<IF t1[t] \in Vrfs THEN "t1_per_vrf" ELSE "t1_per_t0", NameOf(t1[t]), IdOf(t1[t])>>
               members(key) == {t \in Exists(t1) : ParentSeries(t1[t], gw) = key}
    <1>1. \A t \in Exists(t1) : ParentSeries(t1[t], gw) = series(t)
        BY ParentLabel
    <1>2. T1Points(gw, t1) = [key \in {series(t) : t \in Exists(t1)} |-> Cardinality(members(key))]
        <2>1. {ParentSeries(t1[t], gw) : t \in Exists(t1)} = {series(t) : t \in Exists(t1)}
            BY <1>1
        <2>2. QED BY <2>1 DEF T1Points, CountBy
    <1>3. ASSUME NEW u \in Exists(t1)
          PROVE  members(series(u)) = {t \in Exists(t1) : NameOf(t1[t]) = series(u)[2]}
        <2>1. \A t \in Exists(t1) : ParentSeries(t1[t], gw) = series(u) <=> NameOf(t1[t]) = NameOf(t1[u])
            BY <1>1, ParentName
        <2>2. QED BY <2>1
    <1>4. {series(t) : t \in Exists(t1)} =
              {<<IF g \in Vrfs THEN "t1_per_vrf" ELSE "t1_per_t0", NameOf(g), IdOf(g)>> : g \in Parents}
        BY DEF Parents
    <1>5. ExpectedT1s = [key \in {series(t) : t \in Exists(t1)} |->
              Cardinality({t \in Exists(t1) : NameOf(t1[t]) = key[2]})]
        BY <1>4 DEF ExpectedT1s
    <1>6. \A key \in {series(t) : t \in Exists(t1)} :
              members(key) = {t \in Exists(t1) : NameOf(t1[t]) = key[2]}
        BY <1>3
    <1> HIDE DEF series, members
    <1>7. QED BY <1>2, <1>5, <1>6

LEMMA TotalsCounted == ASSUME TypeOK, Sound PROVE SiteT1Totals(gw, t1) = ExpectedTotals
    <1>1. {t \in Exists(t1) : IsListed(t1[t], gw) /\ t1[t] \in Vrfs} = {t \in T1s : t1[t] \in Vrfs}
        BY ParentExists, PlacesAssumption DEF IsListed, Names, Exists, TypeOK
    <1>2. Cardinality({t \in Exists(t1) : IsListed(t1[t], gw) /\ t1[t] \in Vrfs}) = OnVrf
        BY <1>1 DEF OnVrf
    <1> DEFINE totals(onVrf) ==
            [series \in {"t1_totals"} \X {"total", "on_vrf", "on_t0"} |->
                CASE series[2] = "total" -> Cardinality(Exists(t1))
                  [] series[2] = "on_vrf" -> onVrf
                  [] series[2] = "on_t0" -> Cardinality(Exists(t1)) - onVrf]
    <1>3. SiteT1Totals(gw, t1) = totals(Cardinality({t \in Exists(t1) : IsListed(t1[t], gw) /\ t1[t] \in Vrfs}))
        BY DEF SiteT1Totals
    <1>4. ExpectedTotals = totals(OnVrf)
        BY DEF ExpectedTotals
    <1>5. ASSUME NEW n, NEW k, n = k PROVE totals(n) = totals(k)
        BY <1>5
    <1> HIDE DEF totals
    <1>6. QED BY <1>2, <1>3, <1>4, <1>5

LEMMA Classified ==
    ASSUME TypeOK, Sound, NEW place, place = NoPath \/ place \in Exists(gw) \/ place \in Exists(t1)
    PROVE  ClassifyConnectivityPath(place, gw, t1) = Label(place)
    <1>1. CASE place = NoPath
        <2>1. place \notin T1s /\ place \notin Vrfs
            BY <1>1, PlacesAssumption DEF Names
        <2>2. KindOf(place) = "overlay" /\ NameOf(place) = Dash /\ IdOf(place) = Dash
            BY <1>1, <2>1 DEF KindOf, NameOf, IdOf
        <2>3. ClassifyConnectivityPath(place, gw, t1) = <<"overlay", Dash, Dash>>
            BY <1>1 DEF ClassifyConnectivityPath
        <2>4. QED BY <2>2, <2>3 DEF Label
    <1>2. CASE place \in Exists(t1)
        BY <1>2, PlacesAssumption, ListedTypes
        DEF ClassifyConnectivityPath, IsListed, Label, NameOf, IdOf, KindOf, Names
    <1>3. CASE place \in Exists(gw)
        BY <1>3, PlacesAssumption, ListedTypes
        DEF ClassifyConnectivityPath, IsListed, Kind, Label, NameOf, IdOf, KindOf, Names
    <1>4. QED BY <1>1, <1>2, <1>3

LEMMA SegmentsCounted ==
    ASSUME TypeOK, Sound
    PROVE  SegmentPoints(gw, t1) = ExpectedSegments
    <1> DEFINE series(s) == <<"segments", ClassifyConnectivityPath(segment[s], gw, t1)>>
               label(s) == <<"segments", Label(segment[s])>>
    <1>1. \A s \in Exists(segment) : series(s) = label(s)
        BY AttachedExists, Classified
    <1>2. {series(s) : s \in Exists(segment)} = {label(s) : s \in Exists(segment)}
        BY <1>1
    <1>3. {label(s) : s \in Exists(segment)} = {<<"segments", Label(place)>> : place \in Attached}
        BY DEF Attached
    <1>4. \A key \in {label(s) : s \in Exists(segment)} :
              {s \in Exists(segment) : series(s) = key} = {s \in Exists(segment) : Label(segment[s]) = key[2]}
        BY <1>1
    <1>5. SegmentPoints(gw, t1) =
              [key \in {series(s) : s \in Exists(segment)} |->
                  Cardinality({s \in Exists(segment) : series(s) = key})]
        BY DEF SegmentPoints, CountBy
    <1> HIDE DEF series, label
    <1>6. QED BY <1>2, <1>3, <1>4, <1>5 DEF ExpectedSegments

\* A policy has one entry in its scope for every place.
LEMMA PolicyEntries ==
    ASSUME TypeOK, Sound, NEW place \in Places
    PROVE  Cardinality({entry \in Scoped : Label(entry[2]) = Label(place)}) =
               Cardinality({p \in Policies : \E q \in scope[p] : Label(q) = Label(place)})
    <1> DEFINE entries == {entry \in Scoped : Label(entry[2]) = Label(place)}
               policies == {p \in Policies : \E q \in scope[p] : Label(q) = Label(place)}
               entryOf == [p \in policies |-> <<p, place>>]
    <1>1. \A q \in Places : Label(q) = Label(place) => q = place
        BY PlaceById DEF Label
    <1>2. policies = {p \in Policies : place \in scope[p]}
        BY <1>1, InScopeExists
    <1>3. entries = {<<p, place>> : p \in policies}
        BY <1>1, <1>2 DEF Scoped
    <1>4. entryOf \in Bijection(policies, entries)
        BY <1>3 DEF Bijection, Injection, Surjection, IsInjective
    <1>5. IsFiniteSet(policies)
        BY FiniteAssumption, FS_Subset
    <1>6. Cardinality(entries) = Cardinality(policies)
        BY <1>4, <1>5, FS_Bijection DEF ExistsBijection
    <1>7. QED BY <1>6

LEMMA PoliciesCounted ==
    ASSUME TypeOK, Sound
    PROVE  PolicyPoints(gw, t1) = ExpectedPolicies
    <1> DEFINE series(entry) == <<"fw", ClassifyConnectivityPath(entry[2], gw, t1)>>
               label(entry) == <<"fw", Label(entry[2])>>
               policies(key) == Cardinality({p \in Policies : \E place \in scope[p] : Label(place) = key[2]})
    <1>1. \A entry \in Scoped : entry[2] \in Places /\ series(entry) = label(entry)
        BY InScopeExists, Classified DEF Scoped
    <1>2. {series(entry) : entry \in Scoped} = {label(entry) : entry \in Scoped}
        BY <1>1
    <1>3. \A place \in InScope : \E entry \in Scoped : entry[2] = place
        <2> TAKE place \in InScope
        <2>1. PICK p \in Policies : place \in scope[p]
            BY DEF InScope
        <2>2. place \in Places /\ <<p, place>> \in Scoped
            BY <2>1, InScopeExists DEF Scoped
        <2>3. QED BY <2>2
    <1>10. \A entry \in Scoped : entry[2] \in InScope
        BY DEF Scoped, InScope
    <1>4. {label(entry) : entry \in Scoped} = {<<"fw", Label(place)>> : place \in InScope}
        BY <1>3, <1>10
    <1>5. ASSUME NEW other \in Scoped
          PROVE  Cardinality({entry \in Scoped : series(entry) = label(other)}) = policies(label(other))
        <2>1. {entry \in Scoped : series(entry) = label(other)} =
                  {entry \in Scoped : Label(entry[2]) = Label(other[2])}
            BY <1>1
        <2>2. QED BY <1>1, <2>1, PolicyEntries
    <1>6. PolicyPoints(gw, t1) =
              [key \in {series(entry) : entry \in Scoped} |->
                  Cardinality({entry \in Scoped : series(entry) = key})]
        BY DEF PolicyPoints, CountBy
    <1>7. ExpectedPolicies = [key \in {label(entry) : entry \in Scoped} |-> policies(key)]
        BY <1>4 DEF ExpectedPolicies
    <1>8. \A key \in {label(entry) : entry \in Scoped} :
              Cardinality({entry \in Scoped : series(entry) = key}) = policies(key)
        BY <1>5
    <1> HIDE DEF series, label, policies
    <1>9. QED BY <1>2, <1>6, <1>7, <1>8

LEMMA NATLabel ==
    ASSUME TypeOK, Sound, NEW t \in Exists(t1)
    PROVE  NATSeries(t, gw, t1) =
               <<"nat", t, IF t1[t] \in Vrfs THEN "vrf" ELSE "t0", NameOf(t1[t])>>
    <1>1. CASE t1[t] = NoPath
        BY <1>1, PlacesAssumption, ListedTypes DEF NATSeries, NameOf, IsListed, Names
    <1>2. CASE t1[t] \in Exists(gw)
        BY <1>2, PlacesAssumption, ListedTypes DEF NATSeries, NameOf, IsListed, Kind, Names
    <1>3. QED BY <1>1, <1>2, ParentExists

\* Each T1 that answered has one rule, under a series of its own.
LEMMA NATCounted ==
    ASSUME TypeOK, Sound, NEW answered \in SUBSET Exists(t1)
    PROVE  /\ Part(NATPoints(answered, gw, t1), ExpectedNAT)
           /\ answered = Exists(t1) => DOMAIN ExpectedNAT \subseteq DOMAIN NATPoints(answered, gw, t1)
    <1> DEFINE label(t) == <<"nat", t, IF t1[t] \in Vrfs THEN "vrf" ELSE "t0", NameOf(t1[t])>>
               nat == NATPoints(answered, gw, t1)
    <1>1. \A t \in answered : NATSeries(t, gw, t1) = label(t)
        BY NATLabel
    <1>2. nat = [key \in {NATSeries(t, gw, t1) : t \in answered} |->
                    Cardinality({t \in answered : NATSeries(t, gw, t1) = key})]
        BY DEF NATPoints, CountBy
    <1>3. DOMAIN nat = {label(t) : t \in answered}
        BY <1>1, <1>2
    <1>4. ASSUME NEW u \in answered PROVE nat[label(u)] = 1
        <2>1. {t \in answered : NATSeries(t, gw, t1) = label(u)} = {u}
            BY <1>1
        <2>2. nat[label(u)] = Cardinality({t \in answered : NATSeries(t, gw, t1) = label(u)})
            BY <1>1, <1>2
        <2>3. QED BY <2>1, <2>2, FS_Singleton
    <1>5. DOMAIN ExpectedNAT = {label(t) : t \in Exists(t1)} /\ \A t \in Exists(t1) : ExpectedNAT[label(t)] = 1
        BY DEF ExpectedNAT
    <1> HIDE DEF label, nat
    <1>6. Part(nat, ExpectedNAT)
        BY <1>3, <1>4, <1>5 DEF Part
    <1>7. answered = Exists(t1) => DOMAIN ExpectedNAT \subseteq DOMAIN nat
        BY <1>3, <1>5
    <1>8. QED BY <1>6, <1>7 DEF nat

-----------------------------------------------------------------------------
(* The parts of what panels should show.                                   *)

\* The series of each part are of a kind of their own.
LEMMA Kinds ==
    /\ \A x \in DOMAIN ExpectedT1s : x[1] \in {"t1_per_vrf", "t1_per_t0"}
    /\ \A x \in DOMAIN ExpectedTotals : x[1] = "t1_totals"
    /\ \A x \in DOMAIN ExpectedSegments : x[1] = "segments"
    /\ \A x \in DOMAIN ExpectedPolicies : x[1] = "fw"
    /\ \A x \in DOMAIN ExpectedNAT : x[1] = "nat"
    /\ \A x \in DOMAIN AlarmPoints : x[1] = "alarm"
    BY DEF ExpectedT1s, ExpectedTotals, ExpectedSegments, ExpectedPolicies, ExpectedNAT, AlarmPoints

LEMMA ExpectedSeries ==
    DOMAIN Expected = CapacitySeries \cup DOMAIN ExpectedTotals \cup DOMAIN AlarmPoints
    BY DEF Merge, Expected, CapacitySeries

LEMMA Parts ==
    /\ Part(ExpectedT1s, Expected) /\ Part(ExpectedTotals, Expected)
    /\ Part(ExpectedSegments, Expected) /\ Part(ExpectedPolicies, Expected)
    /\ Part(ExpectedNAT, Expected) /\ Part(AlarmPoints, Expected)
    <1> DEFINE nat == Merge(ExpectedNAT, AlarmPoints)
               policies == Merge(ExpectedPolicies, nat)
               segments == Merge(ExpectedSegments, policies)
               totals == Merge(ExpectedTotals, segments)
    <1>1. Expected = Merge(ExpectedT1s, totals)
        BY DEF Expected
    <1>2. ASSUME NEW f, NEW g, \A x \in DOMAIN f : x \notin DOMAIN g
          PROVE  Part(f, Merge(f, g)) /\ Part(g, Merge(f, g))
        BY <1>2 DEF Merge, Part
    <1>3. \A x \in DOMAIN nat : x[1] \in {"nat", "alarm"}
        BY Kinds DEF Merge
    <1>4. \A x \in DOMAIN policies : x[1] \in {"fw", "nat", "alarm"}
        BY <1>3, Kinds DEF Merge
    <1>5. \A x \in DOMAIN segments : x[1] \in {"segments", "fw", "nat", "alarm"}
        BY <1>4, Kinds DEF Merge
    <1>6. \A x \in DOMAIN totals : x[1] \in {"t1_totals", "segments", "fw", "nat", "alarm"}
        BY <1>5, Kinds DEF Merge
    <1>7. Part(ExpectedT1s, Expected) /\ Part(totals, Expected)
        BY <1>1, <1>2, <1>6, Kinds
    <1>8. Part(ExpectedTotals, totals) /\ Part(segments, totals)
        BY <1>2, <1>5, Kinds
    <1>9. Part(ExpectedSegments, segments) /\ Part(policies, segments)
        BY <1>2, <1>4, Kinds
    <1>10. Part(ExpectedPolicies, policies) /\ Part(nat, policies)
        BY <1>2, <1>3, Kinds
    <1>11. Part(ExpectedNAT, nat) /\ Part(AlarmPoints, nat)
        BY <1>2, Kinds
    <1> HIDE DEF nat, policies, segments, totals
    <1>12. Part(segments, Expected)
        BY <1>7, <1>8, PartOfPart
    <1>13. Part(policies, Expected)
        BY <1>9, <1>12, PartOfPart
    <1>14. Part(nat, Expected)
        BY <1>10, <1>13, PartOfPart
    <1>15. QED BY <1>7, <1>8, <1>9, <1>10, <1>11, <1>12, <1>13, <1>14, PartOfPart

-----------------------------------------------------------------------------
(* Types.                                                                  *)

\* Only finite numbers of things are counted.
LEMMA T1Counts ==
    ASSUME NEW gws, NEW ts \in [T1s -> Gateways \cup {NoPath, Absent}]
    PROVE  /\ \A x \in DOMAIN T1Points(gws, ts) : T1Points(gws, ts)[x] \in Nat
           /\ \A x \in DOMAIN SiteT1Totals(gws, ts) : SiteT1Totals(gws, ts)[x] \in Nat
    <1> DEFINE onVrf == {t \in Exists(ts) : IsListed(ts[t], gws) /\ ts[t] \in Vrfs}
               of(key) == {t \in Exists(ts) : ParentSeries(ts[t], gws) = key}
    <1>1. Exists(ts) \subseteq T1s /\ IsFiniteSet(Exists(ts))
        BY FiniteAssumption, FS_Subset DEF Exists
    <1>2. \A key : IsFiniteSet(of(key)) /\ Cardinality(of(key)) \in Nat
        BY <1>1, FS_Subset, FS_CardinalityType
    <1>3. /\ Cardinality(Exists(ts)) \in Nat /\ Cardinality(onVrf) \in Nat
          /\ Cardinality(onVrf) <= Cardinality(Exists(ts))
        BY <1>1, FS_Subset, FS_CardinalityType
    <1>4. T1Points(gws, ts) =
              [key \in {ParentSeries(ts[t], gws) : t \in Exists(ts)} |-> Cardinality(of(key))]
        BY DEF T1Points, CountBy
    <1>5. SiteT1Totals(gws, ts) = [series \in {"t1_totals"} \X {"total", "on_vrf", "on_t0"} |->
              CASE series[2] = "total" -> Cardinality(Exists(ts))
                [] series[2] = "on_vrf" -> Cardinality(onVrf)
                [] series[2] = "on_t0" -> Cardinality(Exists(ts)) - Cardinality(onVrf)]
        BY DEF SiteT1Totals
    <1> HIDE DEF onVrf, of
    <1>6. Cardinality(Exists(ts)) - Cardinality(onVrf) \in Nat
        BY <1>3
    <1>7. QED BY <1>2, <1>3, <1>4, <1>5, <1>6

LEMMA SegmentCounts ==
    ASSUME TypeOK, NEW gws, NEW ts
    PROVE  \A x \in DOMAIN SegmentPoints(gws, ts) : SegmentPoints(gws, ts)[x] \in Nat
    <1> DEFINE of(key) == {s \in Exists(segment) : <<"segments", ClassifyConnectivityPath(segment[s], gws, ts)>> = key}
    <1>1. IsFiniteSet(Exists(segment))
        BY FiniteAssumption, FS_Subset DEF Exists, TypeOK
    <1>2. \A key : Cardinality(of(key)) \in Nat
        BY <1>1, FS_Subset, FS_CardinalityType
    <1>3. QED BY <1>2 DEF SegmentPoints, CountBy

LEMMA PolicyCounts ==
    ASSUME TypeOK, NEW gws, NEW ts
    PROVE  \A x \in DOMAIN PolicyPoints(gws, ts) : PolicyPoints(gws, ts)[x] \in Nat
    <1> DEFINE of(key) == {entry \in Scoped : <<"fw", ClassifyConnectivityPath(entry[2], gws, ts)>> = key}
    <1>1. IsFiniteSet(Scoped)
        <2>1. IsFiniteSet(Policies \X Places)
            BY FiniteAssumption, FS_Union, FS_Product DEF Places
        <2>2. QED BY <2>1, FS_Subset DEF Scoped
    <1>2. \A key : Cardinality(of(key)) \in Nat
        BY <1>1, FS_Subset, FS_CardinalityType
    <1>3. QED BY <1>2 DEF PolicyPoints, CountBy

LEMMA NATCounts ==
    ASSUME TypeOK, NEW gws, NEW ts, NEW answered \in SUBSET T1s
    PROVE  \A x \in DOMAIN NATPoints(answered, gws, ts) : NATPoints(answered, gws, ts)[x] \in Nat
    <1> DEFINE of(key) == {t \in answered : NATSeries(t, gws, ts) = key}
    <1>1. IsFiniteSet(answered)
        BY FiniteAssumption, FS_Subset
    <1>2. \A key : Cardinality(of(key)) \in Nat
        BY <1>1, FS_Subset, FS_CardinalityType
    <1>3. QED BY <1>2 DEF NATPoints, CountBy

LEMMA AlarmCounts == \A x \in DOMAIN AlarmPoints : AlarmPoints[x] \in Nat
    <1>1. \A severity : SeverityNum(severity) \in Nat
        BY DEF SeverityNum
    <1>2. QED BY <1>1 DEF AlarmPoints

-----------------------------------------------------------------------------
(* What a write stores and what is left when a pass begins.                *)

LEMMA StoredPoints ==
    ASSUME NEW written
    PROVE  /\ \A x : x \in DOMAIN Stored(written) <=> x \in DOMAIN written \/ x \in DOMAIN store
           /\ \A x \in DOMAIN written : /\ Stored(written)[x] = [count |-> written[x], age |-> 0]
                                        /\ Stored(written)[x].count = written[x]
                                        /\ Stored(written)[x].age = 0
           /\ \A x \in DOMAIN store \ DOMAIN written : Stored(written)[x] = store[x]
    BY DEF Stored, Merge

LEMMA AgedPoints ==
    ASSUME TypeOK
    PROVE  /\ \A x : x \in DOMAIN Aged <=> x \in DOMAIN store /\ store[x].age + 1 < Window
           /\ \A x \in DOMAIN Aged : /\ Aged[x] = [count |-> store[x].count, age |-> store[x].age + 1]
    <1>1. \A x \in DOMAIN store : store[x] \in [count : Nat, age : 0..Window - 1]
        BY DEF TypeOK
    <1>2. QED BY <1>1 DEF Aged

LEMMA StoredTypes ==
    ASSUME TypeOK, NEW written, \A x \in DOMAIN written : written[x] \in Nat
    PROVE  \A x \in DOMAIN Stored(written) : Stored(written)[x] \in [count : Nat, age : 0..Window - 1]
    <1>1. 0 \in 0..Window - 1
        BY WindowAssumption
    <1>2. \A x \in DOMAIN store : store[x] \in [count : Nat, age : 0..Window - 1]
        BY DEF TypeOK
    <1>3. \A x \in DOMAIN written : Stored(written)[x] \in [count : Nat, age : 0..Window - 1]
        <2> TAKE x \in DOMAIN written
        <2>1. Stored(written)[x] = [count |-> written[x], age |-> 0]
            BY StoredPoints
        <2>2. QED BY <1>1, <2>1
    <1>4. \A x \in DOMAIN Stored(written) : x \notin DOMAIN written => x \in DOMAIN store
        BY DEF Stored, Merge
    <1>5. \A x \in DOMAIN Stored(written) : x \notin DOMAIN written => Stored(written)[x] = store[x]
        BY <1>4, StoredPoints
    <1>6. QED BY <1>2, <1>3, <1>4, <1>5

LEMMA AgedTypes ==
    ASSUME TypeOK
    PROVE  \A x \in DOMAIN Aged : Aged[x] \in [count : Nat, age : 0..Window - 1]
    <1>1. \A x \in DOMAIN store : store[x].count \in Nat /\ store[x].age \in Nat
        BY WindowAssumption DEF TypeOK
    <1>2. QED BY <1>1, AgedPoints, WindowAssumption

-----------------------------------------------------------------------------
LEMMA InitType == Init => TypeOK
    BY BoundsAssumption, WindowAssumption DEF Init, TypeOK, NoPoints, CalmLimit

LEMMA BeginPassType == TypeOK /\ BeginPass /\ (\A x \in DOMAIN points' : points'[x] \in Nat)
                              /\ flawless' \in BOOLEAN /\ faults' \in 0..MaxFaults => TypeOK'
    <1> SUFFICES ASSUME TypeOK, BeginPass, \A x \in DOMAIN points' : points'[x] \in Nat,
                        flawless' \in BOOLEAN, faults' \in 0..MaxFaults
                 PROVE  TypeOK'
        OBVIOUS
    <1>1. pc = "alarms" /\ pc' = "t0s" /\ UNCHANGED <<inventory, listings, capPoints, calm, changes>>
        BY DEF BeginPass, Section
    <1>2. store' = Aged /\ \A x \in DOMAIN store' : store'[x] \in [count : Nat, age : 0..Window - 1]
        BY AgedTypes DEF BeginPass
    <1>3. clean' \subseteq 0..Window - 1
        BY WindowAssumption DEF BeginPass, TypeOK
    <1>4. UNCHANGED <<gw, t1, segment, scope, alarm, seenGw, seenT1, capPoints, calm, changes>>
        BY <1>1 DEF inventory, listings
    <1>5. QED BY <1>1, <1>2, <1>3, <1>4 DEF TypeOK, CalmLimit

\* What every step of a section keeps.
LEMMA SectionType ==
    ASSUME TypeOK, pc # "alarms", pc' \in {"t1s", "segments", "policies", "nat", "capacity", "default"},
           UNCHANGED <<inventory, clean, calm, changes>>,
           seenGw' \in {seenGw, gw}, seenT1' \in {seenT1, t1},
           \A x \in DOMAIN points' : points'[x] \in Nat,
           \A x \in DOMAIN capPoints' : capPoints'[x] \in Nat, pc' = "default" => capPoints' = NoPoints,
           \A x \in DOMAIN store' : store'[x] \in [count : Nat, age : 0..Window - 1],
           flawless' \in BOOLEAN, faults' \in 0..MaxFaults
    PROVE  TypeOK'
    BY DEF TypeOK, inventory, CalmLimit

LEMMA EndPassType ==
    ASSUME TypeOK, EndPass, points' = NoPoints,
           \A x \in DOMAIN store' : store'[x] \in [count : Nat, age : 0..Window - 1],
           clean' \subseteq 0..Window - 1, faults' \in 0..MaxFaults
    PROVE  TypeOK'
    <1>1. calm' \in 0..CalmLimit
        BY WindowAssumption DEF EndPass, TypeOK, CalmLimit
    <1>2. QED BY <1>1 DEF TypeOK, EndPass, Section, inventory, NoPoints, CalmLimit

\* A failed call is counted, and the pass is no longer flawless.
LEMMA FaultType ==
    ASSUME TypeOK, Fault
    PROVE  /\ flawless' = FALSE /\ faults' \in 0..MaxFaults
           /\ UNCHANGED <<gw, t1, segment, scope, alarm, clean, calm, changes>>
    BY BoundsAssumption DEF Fault, TypeOK, inventory

LEMMA NextType == TypeOK /\ [Next]_vars => TypeOK'
    <1> SUFFICES ASSUME TypeOK, [Next]_vars PROVE TypeOK'
        OBVIOUS
    <1>1. CASE ChangeInventory
        <2>1. changes' \in 0..MaxChanges /\ calm' \in 0..CalmLimit
            BY <1>1, BoundsAssumption, WindowAssumption DEF ChangeInventory, TypeOK, CalmLimit
        <2>2. /\ gw' \in [Gateways -> Names \cup {Absent}]
              /\ t1' \in [T1s -> Gateways \cup {NoPath, Absent}]
              /\ segment' \in [Segments -> Places \cup {NoPath, Absent}]
              /\ scope' \in [Policies -> Scopes]
              /\ alarm' \in [Alarms -> AlarmStates \cup {Absent}]
            BY <1>1 DEF ChangeInventory, TypeOK
        <2>3. UNCHANGED <<pc, seenGw, seenT1, points, capPoints, store, clean, flawless, faults>>
            BY <1>1 DEF ChangeInventory, listings, batch
        <2>4. QED BY <2>1, <2>2, <2>3 DEF TypeOK, CalmLimit
    <1>2. CASE ListAlarms
        <2>1. points' = AlarmPoints /\ flawless' = flawless /\ faults' = faults
            BY <1>2 DEF ListAlarms
        <2>2. QED BY <1>2, <2>1, AlarmCounts, BeginPassType DEF ListAlarms, TypeOK
    <1>3. CASE AlarmsFail
        <2>1. faults' \in 0..MaxFaults
            BY <1>3, BoundsAssumption DEF AlarmsFail, TypeOK
        <2>2. QED BY <1>3, <2>1, BeginPassType DEF AlarmsFail, TypeOK
    <1>4. CASE ListTier0s
        BY <1>4, SectionType DEF ListTier0s, Section, Keep, batch, inventory, history, TypeOK
    <1>5. CASE ListTier1s
        <2>1. /\ points' = Merge(points, SiteT1Totals(seenGw, t1))
              /\ capPoints' = Merge(capPoints, T1Points(seenGw, t1))
            BY <1>5 DEF ListTier1s
        <2>2. /\ \A x \in DOMAIN points' : points'[x] \in Nat
              /\ \A x \in DOMAIN capPoints' : capPoints'[x] \in Nat
            BY <2>1, T1Counts, MergeCounts DEF TypeOK
        <2>3. QED BY <1>5, <2>2, SectionType DEF ListTier1s, Section, Keep, inventory, history, TypeOK
    <1>6. CASE ListSegments
        <2>1. \A x \in DOMAIN capPoints' : capPoints'[x] \in Nat
            BY <1>6, SegmentCounts, MergeCounts DEF ListSegments, TypeOK
        <2>2. QED BY <1>6, <2>1, SectionType DEF ListSegments, Section, Keep, inventory, listings, history, TypeOK
    <1>7. CASE ListPolicies
        <2>1. \A x \in DOMAIN capPoints' : capPoints'[x] \in Nat
            BY <1>7, PolicyCounts, MergeCounts DEF ListPolicies, TypeOK
        <2>2. QED BY <1>7, <2>1, SectionType DEF ListPolicies, Section, Keep, inventory, listings, history, TypeOK
    <1>8. ASSUME NEW answered \in SUBSET T1s, CountNAT(answered)
          PROVE  \A x \in DOMAIN capPoints' : capPoints'[x] \in Nat
        BY <1>8, NATCounts, MergeCounts DEF CountNAT, TypeOK
    <1>9. CASE FetchNATPerT1
        <2>1. \A x \in DOMAIN capPoints' : capPoints'[x] \in Nat
            BY <1>8, <1>9 DEF FetchNATPerT1, Exists, TypeOK
        <2>2. QED BY <1>9, <2>1, SectionType
                  DEF FetchNATPerT1, CountNAT, Section, Keep, inventory, listings, history, TypeOK
    <1>10. CASE NATFails
        <2>1. \A x \in DOMAIN capPoints' : capPoints'[x] \in Nat
            BY <1>8, <1>10 DEF NATFails, Exists, TypeOK
        <2>2. QED BY <1>10, <2>1, SectionType, FaultType
                  DEF NATFails, CountNAT, Section, inventory, listings, TypeOK
    <1>11. CASE InventoryFails
        BY <1>11, SectionType, FaultType DEF InventoryFails, Section, inventory, listings, batch, TypeOK
    <1>12. CASE SectionFails
        BY <1>12, SectionType, FaultType DEF SectionFails, Section, inventory, listings, batch, TypeOK
    <1>13. CASE WriteCapacityPoints
        <2>1. \A x \in DOMAIN store' : store'[x] \in [count : Nat, age : 0..Window - 1]
            BY <1>13, StoredTypes DEF WriteCapacityPoints, TypeOK
        <2>2. QED BY <1>13, <2>1, SectionType
                  DEF WriteCapacityPoints, Section, inventory, listings, history, NoPoints, TypeOK
    <1>14. CASE CapacityWriteFails
        BY <1>14, SectionType, FaultType DEF CapacityWriteFails, Section, inventory, listings, NoPoints, TypeOK
    <1>15. CASE WritePoints
        <2>1. \A x \in DOMAIN store' : store'[x] \in [count : Nat, age : 0..Window - 1]
            BY <1>15, StoredTypes DEF WritePoints, TypeOK
        <2>2. clean' \subseteq 0..Window - 1
            BY <1>15, WindowAssumption DEF WritePoints, TypeOK
        <2>3. QED BY <1>15, <2>1, <2>2, EndPassType DEF WritePoints, TypeOK
    <1>16. CASE WriteFails
        <2>1. faults' \in 0..MaxFaults
            BY <1>16, BoundsAssumption DEF WriteFails, TypeOK
        <2>2. QED BY <1>16, <2>1, EndPassType DEF WriteFails, TypeOK
    <1>17. CASE UNCHANGED vars
        BY <1>17 DEF vars, TypeOK, inventory, listings, batch, history, CalmLimit
    <1>18. QED BY <1>1, <1>2, <1>3, <1>4, <1>5, <1>6, <1>7, <1>9, <1>10, <1>11, <1>12, <1>13, <1>14,
                   <1>15, <1>16, <1>17 DEF Next

\* Nothing that something hangs from is deleted.
LEMMA NextSound == Sound /\ [Next]_vars => Sound'
    <1> SUFFICES ASSUME Sound, [Next]_vars, ~ChangeInventory PROVE Sound'
        BY DEF ChangeInventory
    <1>1. UNCHANGED <<gw, t1, segment, scope>>
        BY DEF Next, vars, inventory, Keep, Fault, BeginPass, EndPass, ListAlarms, AlarmsFail, ListTier0s,
               ListTier1s, ListSegments, ListPolicies, FetchNATPerT1, NATFails, InventoryFails,
               SectionFails, WriteCapacityPoints, CapacityWriteFails, WritePoints, WriteFails
    <1>2. QED BY <1>1 DEF Sound, UsedPlaces, Exists

\* Every variable holds a value of its type, no point outlives the time range
\* and no pass inherits a point of the one before, whatever the inventory does
\* and whichever calls fail.
THEOREM TypeCorrect == Spec => []TypeOK
    <1>1. QED BY InitType, NextType, PTL DEF Spec

-----------------------------------------------------------------------------
(* What panels should show changes with the inventory alone.               *)

LEMMA SameExpected ==
    ASSUME UNCHANGED inventory
    PROVE  /\ UNCHANGED <<gw, t1, segment, scope, alarm>>
           /\ Expected' = Expected /\ CapacitySeries' = CapacitySeries
           /\ AlarmPoints' = AlarmPoints
           /\ ExpectedT1s' = ExpectedT1s /\ ExpectedTotals' = ExpectedTotals
           /\ ExpectedSegments' = ExpectedSegments /\ ExpectedPolicies' = ExpectedPolicies
           /\ ExpectedNAT' = ExpectedNAT
    <1>1. UNCHANGED <<gw, t1, segment, scope, alarm>>
        BY DEF inventory
    <1>2. AlarmPoints' = AlarmPoints
        BY <1>1 DEF AlarmPoints, Exists
    <1>3. ExpectedT1s' = ExpectedT1s
        BY <1>1 DEF ExpectedT1s, Parents, NameOf, IdOf, Exists
    <1>4. ExpectedTotals' = ExpectedTotals
        BY <1>1 DEF ExpectedTotals, OnVrf, Exists
    <1>5. ExpectedSegments' = ExpectedSegments
        BY <1>1 DEF ExpectedSegments, Attached, Label, KindOf, NameOf, IdOf, Exists
    <1>6. ExpectedPolicies' = ExpectedPolicies
        BY <1>1 DEF ExpectedPolicies, InScope, Label, KindOf, NameOf, IdOf
    <1>7. ExpectedNAT' = ExpectedNAT
        BY <1>1 DEF ExpectedNAT, NameOf, Exists
    <1>8. Expected' = Expected /\ CapacitySeries' = CapacitySeries
        BY <1>2, <1>3, <1>4, <1>5, <1>6, <1>7 DEF Expected, CapacitySeries, Merge
    <1>9. QED BY <1>1, <1>2, <1>3, <1>4, <1>5, <1>6, <1>7, <1>8

\* Every step but a change of the inventory leaves it alone.
LEMMA NoChange ==
    ASSUME Next, ~ChangeInventory PROVE UNCHANGED inventory
    BY DEF Next, Keep, Fault, BeginPass, EndPass, ListAlarms, AlarmsFail, ListTier0s,
           ListTier1s, ListSegments, ListPolicies, FetchNATPerT1, NATFails, InventoryFails,
           SectionFails, WriteCapacityPoints, CapacityWriteFails, WritePoints, WriteFails

\* The steps of a section leave the age of the passes as it is.
LEMMA SameAges ==
    ASSUME UNCHANGED calm, pc # "alarms", pc' # "alarms", NEW age
    PROVE  After(pc', calm', age) <=> Current(age)
    BY DEF Current, After

LEMMA BeginPassAges ==
    ASSUME BeginPass, NEW age
    PROVE  After(pc', calm', age + 1) <=> Current(age)
    BY DEF BeginPass, Section, Current, After

LEMMA EndPassAges ==
    ASSUME TypeOK, EndPass, NEW age \in 0..Window - 1, After(pc', calm', age)
    PROVE  Current(age) /\ calm >= 1
    <1>1. /\ pc = "default" /\ pc' = "alarms" /\ calm \in Nat /\ age \in Nat /\ age <= Window - 1
          /\ calm' = IF calm < CalmLimit THEN calm + 1 ELSE calm
        BY WindowAssumption DEF EndPass, Section, TypeOK, CalmLimit
    <1>2. age + 1 < calm'
        BY <1>1 DEF After
    <1>3. age < calm
        BY <1>1, <1>2, WindowAssumption DEF CalmLimit
    <1>4. QED BY <1>1, <1>3 DEF Current, After

LEMMA CalmAgain == ASSUME ChangeInventory PROVE ~(calm' >= 1)
    BY DEF ChangeInventory

\* No pass has begun after the change of a moment ago.
LEMMA NoneCurrent ==
    ASSUME ChangeInventory, NEW age \in Nat PROVE ~After(pc', calm', age)
    BY DEF ChangeInventory, After

LEMMA AgeTypes ==
    ASSUME TypeOK
    PROVE  /\ \A x \in DOMAIN store : store[x].age \in 0..Window - 1 /\ store[x].age \in Nat
           /\ \A age \in clean : age \in 0..Window - 1 /\ age \in Nat
    <1>1. \A x \in DOMAIN store : store[x].age \in 0..Window - 1
        BY DEF TypeOK
    <1>2. \A age \in clean : age \in 0..Window - 1
        BY DEF TypeOK
    <1>3. QED BY <1>1, <1>2, WindowAssumption

\* A write does not make a series older.
LEMMA StillStored ==
    ASSUME NEW written, store' = Stored(written), NEW age \in Nat, NEW series,
           StoredSince(age, series) \/ series \in DOMAIN written
    PROVE  StoredSince(age, series)'
    <1>1. CASE series \in DOMAIN written
        <2>1. series \in DOMAIN store' /\ store'[series].age = 0
            BY <1>1, StoredPoints
        <2>2. QED BY <2>1 DEF StoredSince
    <1>2. CASE series \in DOMAIN store \ DOMAIN written
        <2>1. series \in DOMAIN store' /\ store'[series] = store[series]
            BY <1>2, StoredPoints
        <2>2. QED BY <1>2, <2>1 DEF StoredSince
    <1>3. QED BY <1>1, <1>2 DEF StoredSince

\* Storing what there is keeps the store right.
LEMMA StillRight ==
    ASSUME NEW written, NEW expected, Part(written, expected), NEW series \in DOMAIN Stored(written),
           series \notin DOMAIN written =>
               series \in DOMAIN expected /\ store[series].count = expected[series]
    PROVE  series \in DOMAIN expected /\ Stored(written)[series].count = expected[series]
    <1>1. CASE series \in DOMAIN written
        BY <1>1, StoredPoints DEF Part
    <1>2. CASE series \notin DOMAIN written
        <2>1. Stored(written)[series] = store[series]
            BY <1>2 DEF Stored, Merge
        <2>2. QED BY <1>2, <2>1
    <1>3. QED BY <1>1, <1>2

-----------------------------------------------------------------------------
LEMMA InitInv == Init => PanelsInv
    <1> SUFFICES ASSUME Init PROVE PanelsInv
        OBVIOUS
    <1>1. TypeOK /\ Sound
        BY InitType DEF Init
    <1>2. pc = "alarms" /\ DOMAIN store = {} /\ clean = {}
        BY DEF Init, NoPoints
    <1>3. QED BY <1>1, <1>2 DEF PanelsInv, PassInv, StoreInv, FlawlessInv, CleanInv

\* A pass lists and collects what there is, as long as nothing changes.
LEMMA NextPass == PanelsInv /\ Next => PassInv'
    <1> SUFFICES ASSUME PanelsInv, Next, pc' # "alarms", calm' >= 1
                 PROVE  /\ Part(points', Expected') /\ Part(capPoints', Expected')
                        /\ pc' \in {"t1s", "segments", "policies", "nat"} => seenGw' = gw'
                        /\ pc' \in {"segments", "policies", "nat"} => seenT1' = t1'
        BY DEF PassInv, Part
    <1>1. TypeOK /\ Sound /\ calm \in Nat
        BY WindowAssumption DEF PanelsInv, TypeOK, CalmLimit
    <1>2. ~ChangeInventory
        BY CalmAgain
    <1>3. UNCHANGED <<gw, t1, segment, scope, alarm>> /\ Expected' = Expected
        BY <1>2, NoChange, SameExpected
    <1> DEFINE passed ==
            /\ Part(points, Expected) /\ Part(capPoints, Expected)
            /\ pc \in {"t1s", "segments", "policies", "nat"} => seenGw = gw
            /\ pc \in {"segments", "policies", "nat"} => seenT1 = t1
    <1>4. ASSUME pc # "alarms", calm' = calm PROVE passed
        BY <1>4 DEF PanelsInv, PassInv
    <1>5. CASE ListAlarms \/ AlarmsFail
        <2>1. pc = "alarms" /\ pc' = "t0s" /\ capPoints' = NoPoints
            BY <1>1, <1>5 DEF ListAlarms, AlarmsFail, BeginPass, Section, TypeOK
        <2>2. points' = AlarmPoints \/ points' = NoPoints
            BY <1>1, <1>5, <2>1 DEF ListAlarms, AlarmsFail, TypeOK
        <2>3. QED BY <1>3, <2>1, <2>2, Parts, NoPart
    <1>6. CASE ListTier0s
        <2>1. pc = "t0s" /\ pc' = "t1s" /\ seenGw' = gw /\ calm' = calm
              /\ points' = points /\ capPoints' = capPoints
            BY <1>6 DEF ListTier0s, Section, Keep, history, batch
        <2>2. QED BY <1>3, <1>4, <2>1
    <1>7. CASE ListTier1s
        <2>1. pc = "t1s" /\ pc' = "segments" /\ seenT1' = t1 /\ calm' = calm /\ seenGw' = seenGw
              /\ points' = Merge(points, SiteT1Totals(seenGw, t1))
              /\ capPoints' = Merge(capPoints, T1Points(seenGw, t1))
            BY <1>7 DEF ListTier1s, Section, Keep, history
        <2>2. passed /\ seenGw = gw
            BY <1>4, <2>1
        <2>3. points' = Merge(points, ExpectedTotals) /\ capPoints' = Merge(capPoints, ExpectedT1s)
            BY <1>1, <2>1, <2>2, TotalsCounted, T1sCounted
        <2>4. QED BY <1>3, <2>1, <2>2, <2>3, Parts, MergePart
    <1>8. CASE ListSegments
        <2>1. pc = "segments" /\ pc' = "policies" /\ calm' = calm /\ UNCHANGED <<seenGw, seenT1, points>>
              /\ capPoints' = Merge(capPoints, SegmentPoints(seenGw, seenT1))
            BY <1>8 DEF ListSegments, Section, Keep, history, listings
        <2>2. passed /\ seenGw = gw /\ seenT1 = t1
            BY <1>4, <2>1
        <2>3. capPoints' = Merge(capPoints, ExpectedSegments)
            BY <1>1, <2>1, <2>2, SegmentsCounted
        <2>4. QED BY <1>3, <2>1, <2>2, <2>3, Parts, MergePart
    <1>9. CASE ListPolicies
        <2>1. pc = "policies" /\ pc' = "nat" /\ calm' = calm /\ UNCHANGED <<seenGw, seenT1, points>>
              /\ capPoints' = Merge(capPoints, PolicyPoints(seenGw, seenT1))
            BY <1>9 DEF ListPolicies, Section, Keep, history, listings
        <2>2. passed /\ seenGw = gw /\ seenT1 = t1
            BY <1>4, <2>1
        <2>3. capPoints' = Merge(capPoints, ExpectedPolicies)
            BY <1>1, <2>1, <2>2, PoliciesCounted
        <2>4. QED BY <1>3, <2>1, <2>2, <2>3, Parts, MergePart
    <1>10. ASSUME NEW answered \in SUBSET Exists(seenT1), CountNAT(answered), calm' = calm
           PROVE  Part(points', Expected') /\ Part(capPoints', Expected') /\ pc' = "capacity"
        <2>1. pc = "nat" /\ pc' = "capacity" /\ points' = points
              /\ capPoints' = Merge(capPoints, NATPoints(answered, seenGw, seenT1))
            BY <1>10 DEF CountNAT, Section, listings
        <2>2. passed /\ seenGw = gw /\ seenT1 = t1
            BY <1>4, <1>10, <2>1
        <2>3. Part(NATPoints(answered, gw, t1), Expected)
            BY <1>1, <1>10, <2>2, NATCounted, Parts, PartOfPart
        <2>4. QED BY <1>3, <2>1, <2>2, <2>3, MergePart
    <1>11. CASE FetchNATPerT1
        BY <1>10, <1>11 DEF FetchNATPerT1, Keep, history
    <1>12. CASE NATFails
        BY <1>10, <1>12 DEF NATFails, Fault
    <1>13. CASE InventoryFails
        <2>1. pc # "alarms" /\ pc' = "capacity" /\ calm' = calm /\ UNCHANGED <<points, capPoints>>
            BY <1>13 DEF InventoryFails, Section, Fault, batch
        <2>2. QED BY <1>3, <1>4, <2>1
    <1>14. CASE SectionFails
        <2>1. /\ pc \in {"segments", "policies"} /\ pc' \in {"policies", "nat"} /\ calm' = calm
              /\ UNCHANGED <<points, capPoints, seenGw, seenT1>>
            BY <1>14 DEF SectionFails, Section, Fault, batch, listings
        <2>2. QED BY <1>3, <1>4, <2>1
    <1>15. CASE WriteCapacityPoints \/ CapacityWriteFails
        <2>1. /\ pc = "capacity" /\ pc' = "default" /\ calm' = calm
              /\ points' = points /\ capPoints' = NoPoints
            BY <1>15 DEF WriteCapacityPoints, CapacityWriteFails, Section, Fault, history
        <2>2. QED BY <1>3, <1>4, <2>1, NoPart
    <1>16. CASE WritePoints \/ WriteFails
        BY <1>16 DEF WritePoints, WriteFails, EndPass, Section
    <1>17. QED BY <1>2, <1>5, <1>6, <1>7, <1>8, <1>9, <1>11, <1>12, <1>13, <1>14, <1>15, <1>16 DEF Next

\* What the buckets hold of the passes since the last change is what there is.
LEMMA NextStore == PanelsInv /\ Next => StoreInv'
    <1> SUFFICES ASSUME PanelsInv, Next, NEW series \in DOMAIN store',
                        After(pc', calm', store'[series].age)
                 PROVE  series \in DOMAIN Expected' /\ store'[series].count = Expected'[series]
        BY DEF StoreInv, Current
    <1> DEFINE Right(s) == s \in DOMAIN Expected /\ store[s].count = Expected[s]
    <1>1. TypeOK /\ calm \in Nat /\ store'[series].age \in 0..Window - 1 /\ store'[series].age \in Nat
        <2>1. TypeOK /\ TypeOK'
            BY NextType DEF PanelsInv
        <2>2. store'[series] \in [count : Nat, age : 0..Window - 1] /\ calm \in 0..CalmLimit
            BY <2>1 DEF TypeOK
        <2>3. QED BY <2>1, <2>2, WindowAssumption DEF CalmLimit
    <1>2. \A s \in DOMAIN store : Current(store[s].age) => Right(s)
        BY DEF PanelsInv, StoreInv
    <1>3. ~ChangeInventory
        BY <1>1, NoneCurrent
    <1>4. Expected' = Expected
        BY <1>3, NoChange, SameExpected
    <1> HIDE DEF Right
    <1>5. CASE ListAlarms \/ AlarmsFail
        <2>1. BeginPass /\ store' = Aged
            BY <1>5 DEF ListAlarms, AlarmsFail, BeginPass
        <2>2. /\ series \in DOMAIN store /\ store'[series].age = store[series].age + 1
              /\ store'[series].count = store[series].count
            BY <1>1, <2>1, AgedPoints
        <2>3. Current(store[series].age)
            BY <2>1, <2>2, BeginPassAges
        <2>4. QED BY <1>2, <1>4, <2>2, <2>3 DEF Right
    <1>6. ASSUME NEW written, store' = Stored(written), Part(written, Expected), Current(store'[series].age)
          PROVE  series \in DOMAIN Expected' /\ store'[series].count = Expected'[series]
        <2>1. ASSUME series \notin DOMAIN written
              PROVE  series \in DOMAIN Expected /\ store[series].count = Expected[series]
            <3>1. series \in DOMAIN store /\ store'[series] = store[series]
                BY <1>6, <2>1, StoredPoints
            <3>2. QED BY <1>2, <1>6, <3>1 DEF Right
        <2>2. series \in DOMAIN Expected /\ Stored(written)[series].count = Expected[series]
            BY <1>6, <2>1, StillRight
        <2>3. QED BY <1>4, <1>6, <2>2
    <1>7. CASE WriteCapacityPoints
        <2>1. pc = "capacity" /\ pc' = "default" /\ calm' = calm /\ store' = Stored(capPoints)
            BY <1>7 DEF WriteCapacityPoints, Section, history
        <2>2. Current(store'[series].age)
            BY <2>1, SameAges
        <2>3. calm >= 1
            BY <1>1, <2>1, <2>2 DEF Current, After
        <2>4. Part(capPoints, Expected)
            BY <2>1, <2>3 DEF PanelsInv, PassInv
        <2>5. QED BY <1>6, <2>1, <2>2, <2>4
    <1>8. CASE WritePoints
        <2>1. EndPass /\ pc = "default" /\ store' = Stored(points)
            BY <1>8 DEF WritePoints, EndPass, Section
        <2>2. Current(store'[series].age) /\ calm >= 1
            BY <1>1, <2>1, EndPassAges
        <2>3. Part(points, Expected)
            BY <2>1, <2>2 DEF PanelsInv, PassInv
        <2>4. QED BY <1>6, <2>1, <2>2, <2>3
    <1>9. CASE WriteFails
        <2>1. EndPass /\ store' = store
            BY <1>9 DEF WriteFails
        <2>2. Current(store[series].age)
            BY <1>1, <2>1, EndPassAges
        <2>3. QED BY <1>2, <1>4, <2>1, <2>2 DEF Right
    <1>10. CASE ListTier0s \/ ListTier1s \/ ListSegments \/ ListPolicies \/ FetchNATPerT1 \/ NATFails
               \/ InventoryFails \/ SectionFails \/ CapacityWriteFails
        <2>1. pc # "alarms" /\ pc' # "alarms" /\ calm' = calm /\ store' = store
            BY <1>10 DEF ListTier0s, ListTier1s, ListSegments, ListPolicies, FetchNATPerT1, NATFails, CountNAT,
                   InventoryFails, SectionFails, CapacityWriteFails, Section, Keep, Fault, history
        <2>2. Current(store[series].age)
            BY <2>1, SameAges
        <2>3. QED BY <1>2, <1>4, <2>1, <2>2 DEF Right
    <1>11. QED BY <1>3, <1>5, <1>7, <1>8, <1>9, <1>10 DEF Next

\* A flawless pass collects all there is, section by section.
LEMMA NextFlawless == PanelsInv /\ Next => FlawlessInv'
    <1> DEFINE Dealt(section, default, capacity) ==
            /\ DOMAIN AlarmPoints \subseteq DOMAIN default
            /\ section \notin {"t0s", "t1s"} => DOMAIN ExpectedTotals \subseteq DOMAIN default
            /\ section \in {"segments", "policies", "nat", "capacity"} =>
                   DOMAIN ExpectedT1s \subseteq DOMAIN capacity
            /\ section \in {"policies", "nat", "capacity"} => DOMAIN ExpectedSegments \subseteq DOMAIN capacity
            /\ section \in {"nat", "capacity"} => DOMAIN ExpectedPolicies \subseteq DOMAIN capacity
            /\ section = "capacity" => DOMAIN ExpectedNAT \subseteq DOMAIN capacity
    <1> SUFFICES ASSUME PanelsInv, Next, pc' # "alarms", calm' >= 1, flawless'
                 PROVE  FlawlessInv'
        <2> HIDE DEF Dealt
        <2> QED BY DEF FlawlessInv
    <1>1. TypeOK /\ Sound
        BY DEF PanelsInv
    <1>2. ~ChangeInventory
        BY CalmAgain
    <1>3. /\ UNCHANGED <<gw, t1, segment, scope, alarm>>
          /\ AlarmPoints' = AlarmPoints /\ CapacitySeries' = CapacitySeries
          /\ ExpectedT1s' = ExpectedT1s /\ ExpectedTotals' = ExpectedTotals
          /\ ExpectedSegments' = ExpectedSegments /\ ExpectedPolicies' = ExpectedPolicies
          /\ ExpectedNAT' = ExpectedNAT
        BY <1>2, NoChange, SameExpected
    <1>4. ASSUME pc # "alarms", calm' = calm, flawless' = flawless
          PROVE  /\ Dealt(pc, points, capPoints)
                 /\ pc \in {"t1s", "segments", "policies", "nat"} => seenGw = gw
                 /\ pc \in {"segments", "policies", "nat"} => seenT1 = t1
        BY <1>4 DEF PanelsInv, FlawlessInv, PassInv
    <1>5. ASSUME pc' # "default", Dealt(pc', points', capPoints') PROVE FlawlessInv'
        BY <1>3, <1>5 DEF FlawlessInv
    <1>6. CASE ListAlarms
        <2>1. pc' = "t0s" /\ points' = AlarmPoints
            BY <1>6 DEF ListAlarms, BeginPass, Section
        <2>2. QED BY <1>5, <2>1
    <1>7. CASE ListTier0s
        <2>1. pc = "t0s" /\ pc' = "t1s" /\ calm' = calm /\ flawless' = flawless
              /\ points' = points /\ capPoints' = capPoints
            BY <1>7 DEF ListTier0s, Section, Keep, history, batch
        <2>2. QED BY <1>4, <1>5, <2>1
    <1>8. CASE ListTier1s
        <2>1. pc = "t1s" /\ pc' = "segments" /\ calm' = calm /\ flawless' = flawless
              /\ points' = Merge(points, SiteT1Totals(seenGw, t1))
              /\ capPoints' = Merge(capPoints, T1Points(seenGw, t1))
            BY <1>8 DEF ListTier1s, Section, Keep, history
        <2>2. Dealt(pc, points, capPoints) /\ seenGw = gw
            BY <1>4, <2>1
        <2>3. points' = Merge(points, ExpectedTotals) /\ capPoints' = Merge(capPoints, ExpectedT1s)
            BY <1>1, <2>1, <2>2, TotalsCounted, T1sCounted
        <2>4. QED BY <1>5, <2>1, <2>2, <2>3, MergeDomain
    <1>9. CASE ListSegments
        <2>1. pc = "segments" /\ pc' = "policies" /\ calm' = calm /\ flawless' = flawless
              /\ points' = points /\ capPoints' = Merge(capPoints, SegmentPoints(seenGw, seenT1))
            BY <1>9 DEF ListSegments, Section, Keep, history
        <2>2. Dealt(pc, points, capPoints) /\ seenGw = gw /\ seenT1 = t1
            BY <1>4, <2>1
        <2>3. capPoints' = Merge(capPoints, ExpectedSegments)
            BY <1>1, <2>1, <2>2, SegmentsCounted
        <2>4. QED BY <1>5, <2>1, <2>2, <2>3, MergeDomain
    <1>10. CASE ListPolicies
        <2>1. pc = "policies" /\ pc' = "nat" /\ calm' = calm /\ flawless' = flawless
              /\ points' = points /\ capPoints' = Merge(capPoints, PolicyPoints(seenGw, seenT1))
            BY <1>10 DEF ListPolicies, Section, Keep, history
        <2>2. Dealt(pc, points, capPoints) /\ seenGw = gw /\ seenT1 = t1
            BY <1>4, <2>1
        <2>3. capPoints' = Merge(capPoints, ExpectedPolicies)
            BY <1>1, <2>1, <2>2, PoliciesCounted
        <2>4. QED BY <1>5, <2>1, <2>2, <2>3, MergeDomain
    <1>11. CASE FetchNATPerT1
        <2>1. pc = "nat" /\ pc' = "capacity" /\ calm' = calm /\ flawless' = flawless /\ points' = points
              /\ capPoints' = Merge(capPoints, NATPoints(Exists(seenT1) \cap Exists(t1), seenGw, seenT1))
            BY <1>11 DEF FetchNATPerT1, CountNAT, Section, Keep, history
        <2>2. Dealt(pc, points, capPoints) /\ seenGw = gw /\ seenT1 = t1
            BY <1>4, <2>1
        <2>3. capPoints' = Merge(capPoints, NATPoints(Exists(t1), gw, t1))
            BY <2>1, <2>2
        <2>4. DOMAIN ExpectedNAT \subseteq DOMAIN NATPoints(Exists(t1), gw, t1)
            BY <1>1, NATCounted
        <2>5. DOMAIN ExpectedNAT \subseteq DOMAIN capPoints' /\ DOMAIN capPoints \subseteq DOMAIN capPoints'
            BY <2>3, <2>4, MergeDomain
        <2>6. Dealt("capacity", points, capPoints')
            BY <2>1, <2>2, <2>5
        <2>7. QED BY <1>5, <2>1, <2>6
    <1>12. CASE WriteCapacityPoints
        <2>1. /\ pc = "capacity" /\ pc' = "default" /\ calm' = calm /\ flawless' = flawless
              /\ points' = points /\ store' = Stored(capPoints)
            BY <1>12 DEF WriteCapacityPoints, Section, history
        <2>2. Dealt(pc, points, capPoints)
            BY <1>4, <2>1
        <2>3. \A series \in CapacitySeries : StoredSince(0, series)'
            BY <2>1, <2>2, StillStored DEF CapacitySeries
        <2>4. QED BY <1>3, <2>1, <2>2, <2>3 DEF FlawlessInv
    <1>13. CASE AlarmsFail \/ InventoryFails \/ SectionFails \/ NATFails \/ CapacityWriteFails
        BY <1>13 DEF AlarmsFail, InventoryFails, SectionFails, NATFails, CapacityWriteFails, Fault
    <1>14. CASE WritePoints \/ WriteFails
        BY <1>14 DEF WritePoints, WriteFails, EndPass, Section
    <1>15. QED BY <1>2, <1>6, <1>7, <1>8, <1>9, <1>10, <1>11, <1>12, <1>13, <1>14 DEF Next

\* What a pass without a fault has stored is not forgotten before the pass is.
LEMMA NextClean == PanelsInv /\ Next => CleanInv'
    <1> SUFFICES ASSUME PanelsInv, Next, NEW age \in clean', After(pc', calm', age),
                        NEW series \in DOMAIN Expected'
                 PROVE  StoredSince(age, series)'
        BY DEF CleanInv, Current
    <1>1. TypeOK /\ calm \in Nat /\ age \in 0..Window - 1 /\ age \in Nat
        <2>1. TypeOK /\ TypeOK'
            BY NextType DEF PanelsInv
        <2>2. clean' \subseteq 0..Window - 1 /\ calm \in 0..CalmLimit
            BY <2>1 DEF TypeOK
        <2>3. QED BY <2>1, <2>2, WindowAssumption DEF CalmLimit
    <1>2. ~ChangeInventory
        BY <1>1, NoneCurrent
    <1>3. series \in DOMAIN Expected
        BY <1>2, NoChange, SameExpected
    <1>4. ASSUME NEW a \in clean, Current(a) PROVE StoredSince(a, series)
        BY <1>3, <1>4 DEF PanelsInv, CleanInv
    <1>5. CASE ListAlarms \/ AlarmsFail
        <2>1. BeginPass /\ store' = Aged /\ clean' = {a + 1 : a \in {b \in clean : b + 1 < Window}}
            BY <1>5 DEF ListAlarms, AlarmsFail, BeginPass
        <2>2. PICK a \in clean : age = a + 1 /\ a + 1 < Window
            BY <2>1
        <2>3. Current(a)
            BY <2>1, <2>2, BeginPassAges
        <2>4. series \in DOMAIN store /\ store[series].age <= a
            BY <1>4, <2>3 DEF StoredSince
        <2>5. store[series].age \in Nat /\ a \in Nat
            BY <1>1, <2>4, AgeTypes
        <2>6. series \in DOMAIN Aged /\ Aged[series].age = store[series].age + 1
            BY <1>1, <2>2, <2>4, <2>5, AgedPoints, WindowAssumption
        <2>7. QED BY <2>1, <2>2, <2>4, <2>5, <2>6 DEF StoredSince
    <1>6. CASE WriteCapacityPoints
        <2>1. /\ pc # "alarms" /\ pc' # "alarms" /\ calm' = calm /\ clean' = clean
              /\ store' = Stored(capPoints)
            BY <1>6 DEF WriteCapacityPoints, Section, history
        <2>2. StoredSince(age, series)
            BY <1>4, <2>1, SameAges
        <2>3. QED BY <1>1, <2>1, <2>2, StillStored
    <1>7. CASE WritePoints
        <2>1. /\ EndPass /\ pc = "default" /\ store' = Stored(points)
              /\ clean' = IF flawless THEN clean \cup {0} ELSE clean
            BY <1>7 DEF WritePoints, EndPass, Section
        <2>2. Current(age) /\ calm >= 1
            BY <1>1, <2>1, EndPassAges
        <2>3. CASE age \in clean
            BY <1>1, <1>4, <2>1, <2>2, <2>3, StillStored
        <2>4. CASE age = 0 /\ flawless
            <3>1. /\ DOMAIN AlarmPoints \subseteq DOMAIN points
                  /\ DOMAIN ExpectedTotals \subseteq DOMAIN points
                  /\ \A s \in CapacitySeries : StoredSince(0, s)
                BY <2>1, <2>2, <2>4 DEF PanelsInv, FlawlessInv
            <3>2. StoredSince(0, series) \/ series \in DOMAIN points
                BY <1>3, <3>1, ExpectedSeries
            <3>3. QED BY <2>1, <2>4, <3>2, StillStored
        <2>5. QED BY <2>1, <2>3, <2>4
    <1>8. CASE WriteFails
        <2>1. EndPass /\ store' = store /\ clean' = clean
            BY <1>8 DEF WriteFails
        <2>2. StoredSince(age, series)
            BY <1>1, <1>4, <2>1, EndPassAges
        <2>3. QED BY <2>1, <2>2 DEF StoredSince
    <1>9. CASE ListTier0s \/ ListTier1s \/ ListSegments \/ ListPolicies \/ FetchNATPerT1 \/ NATFails
               \/ InventoryFails \/ SectionFails \/ CapacityWriteFails
        <2>1. pc # "alarms" /\ pc' # "alarms" /\ calm' = calm /\ store' = store /\ clean' = clean
            BY <1>9 DEF ListTier0s, ListTier1s, ListSegments, ListPolicies, FetchNATPerT1, NATFails, CountNAT,
                   InventoryFails, SectionFails, CapacityWriteFails, Section, Keep, Fault, history
        <2>2. StoredSince(age, series)
            BY <1>4, <2>1, SameAges
        <2>3. QED BY <2>1, <2>2 DEF StoredSince
    <1>10. QED BY <1>2, <1>5, <1>6, <1>7, <1>8, <1>9 DEF Next

-----------------------------------------------------------------------------
LEMMA NextInv == PanelsInv /\ [Next]_vars => PanelsInv'
    <1> SUFFICES ASSUME PanelsInv, [Next]_vars PROVE PanelsInv'
        OBVIOUS
    <1>1. TypeOK' /\ Sound'
        BY NextType, NextSound DEF PanelsInv
    <1>2. CASE Next
        BY <1>1, <1>2, NextPass, NextStore, NextFlawless, NextClean DEF PanelsInv
    <1>3. CASE UNCHANGED vars
        <2>1. /\ Expected' = Expected /\ CapacitySeries' = CapacitySeries
              /\ AlarmPoints' = AlarmPoints
              /\ ExpectedT1s' = ExpectedT1s /\ ExpectedTotals' = ExpectedTotals
              /\ ExpectedSegments' = ExpectedSegments /\ ExpectedPolicies' = ExpectedPolicies
              /\ ExpectedNAT' = ExpectedNAT
            BY <1>3, SameExpected DEF vars
        <2>2. UNCHANGED <<gw, t1, pc, seenGw, seenT1, points, capPoints, store, clean, flawless, calm>>
            BY <1>3 DEF vars, inventory, listings, batch, history
        <2>3. PassInv'
            BY <2>1, <2>2 DEF PanelsInv, PassInv, Part
        <2>4. StoreInv'
            BY <2>1, <2>2 DEF PanelsInv, StoreInv, Current, After
        <2>5. FlawlessInv'
            BY <2>1, <2>2 DEF PanelsInv, FlawlessInv, StoredSince
        <2>6. CleanInv'
            BY <2>1, <2>2 DEF PanelsInv, CleanInv, Current, After, StoredSince
        <2>7. QED BY <1>1, <2>3, <2>4, <2>5, <2>6 DEF PanelsInv
    <1>4. QED BY <1>2, <1>3

THEOREM Invariance == Spec => []PanelsInv
    <1>1. QED BY InitInv, NextInv, PTL DEF Spec

\* Once the inventory has been left alone for a window, every pass of it has
\* begun after the last change.
LEMMA SettledAges ==
    ASSUME TypeOK, Settled, NEW age \in 0..Window - 1 PROVE Current(age)
    <1>1. age \in Nat /\ age <= Window - 1 /\ Window \in Nat /\ calm \in Nat
        BY WindowAssumption DEF TypeOK, CalmLimit
    <1>2. QED BY <1>1 DEF Settled, CalmLimit, Current, After

LEMMA NothingStaleHolds == PanelsInv => NothingStale
    <1> SUFFICES ASSUME PanelsInv, Settled, NEW series \in DOMAIN store
                 PROVE  series \in DOMAIN Expected /\ store[series].count = Expected[series]
        BY DEF NothingStale, Shown
    <1>1. Current(store[series].age)
        BY AgeTypes, SettledAges DEF PanelsInv
    <1>2. QED BY <1>1 DEF PanelsInv, StoreInv

LEMMA FaultsUnseenHolds == PanelsInv => FaultsUnseen
    <1> SUFFICES ASSUME PanelsInv, Settled, clean # {}, NEW series \in DOMAIN Expected
                 PROVE  series \in DOMAIN store /\ store[series].count = Expected[series]
        BY DEF FaultsUnseen, Shown
    <1>1. PICK age \in clean : Current(age)
        BY AgeTypes, SettledAges DEF PanelsInv
    <1>2. series \in DOMAIN store
        BY <1>1 DEF PanelsInv, CleanInv, StoredSince
    <1>3. Current(store[series].age)
        BY <1>2, AgeTypes, SettledAges DEF PanelsInv
    <1>4. QED BY <1>2, <1>3 DEF PanelsInv, StoreInv

\* Once the inventory has been left alone for a window, no panel shows anything
\* that is not so, whichever calls have failed and in whatever order gateways
\* were renamed, removed and replaced before.
THEOREM ShowsNothingStale == Spec => []NothingStale
    <1>1. QED BY Invariance, NothingStaleHolds, PTL

\* And one pass of the window without a fault is enough for everything to show.
THEOREM ShowsEverything == Spec => []FaultsUnseen
    <1>1. QED BY Invariance, FaultsUnseenHolds, PTL
=============================================================================
