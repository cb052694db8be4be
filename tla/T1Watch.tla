------------------------------- MODULE T1Watch -------------------------------
(***************************************************************************)
(* The T1 lifecycle watcher of one NSX site: one slow-path pass of         *)
(* CapacityCollector.Collect (internal/collector/capacity.go) through the  *)
(* t1watch package, up to the write of the event points that closes        *)
(* Worker.Collect.                                                         *)
(*                                                                         *)
(* A pass lists the T0s, the T1s and the legacy routers in three separate  *)
(* calls, loads the snapshot file, diffs it with the live view, saves the  *)
(* snapshot, posts to Slack and, at the very end, writes the event points. *)
(* The inventory may change between any two of these steps, every call may *)
(* fail, and the process may die anywhere and be restarted by systemd.     *)
(*                                                                         *)
(* Abstractions.  A T1 is its unique id; its live view keeps the parent's  *)
(* display name, the parent kind and the edge cluster, the fields Detect   *)
(* treats differently.  A parent's policy id is its display name, the NSX  *)
(* default, so a parent that is not in the T0 listing gets the same name.  *)
(* Event payloads, counts, limits and timestamps are left out.             *)
(***************************************************************************)
EXTENDS Naturals, FiniteSets

CONSTANTS
    T1s,            \* unique ids of the T1 gateways that may ever exist
    Parents,        \* T0s and VRFs a T1 can hang from
    Vrfs,           \* the parents that are VRFs
    Clusters,       \* edge clusters
    NoCluster,      \* the empty edge cluster id of a T1 the router list lacks
    Absent,         \* no entry: the T1 is not in the map
    SlackEnabled,   \* t1_watch.enabled with a token and a channel
    Faults,         \* kinds of faults that may happen
    MaxFaults,      \* bound on the number of faults
    MaxChanges      \* bound on the number of inventory changes

Kinds == {"created", "deleted"}
Channels == {"slack", "influx"}
FaultKinds == {"list", "load", "save", "post", "write", "crash"}

Gateways == [parent : Parents, cluster : Clusters]
Views == [parent : Parents, kind : {"vrf", "t0"}, cluster : Clusters \cup {NoCluster}]

ASSUME VrfsAssumption == Vrfs \subseteq Parents
ASSUME AbsentAssumption ==
    Absent \notin Gateways \cup Views /\ \A ids \in SUBSET T1s : Absent # ids
ASSUME FaultsAssumption == Faults \subseteq FaultKinds
ASSUME BoundsAssumption == MaxFaults \in Nat /\ MaxChanges \in Nat
ASSUME SlackAssumption == SlackEnabled \in BOOLEAN

VARIABLES
    nsx,        \* NSX inventory: T1 -> gateway or Absent
    t0s,        \* NSX inventory: the parents that exist
    fileExists, \* the snapshot file exists
    file,       \* its "known" map: T1 -> view or Absent
    pc,         \* where the pass stands
    seenT0s,    \* the T0 listing of this pass
    live,       \* the live T1 view of this pass
    snap,       \* the in-memory snapshot Detect has updated
    outbox,     \* per channel, the detected events not delivered yet
    reports,    \* history: deliveries per channel, kind and T1
    happened,   \* history: real creations and deletions per T1
    recorded,   \* history: how often a saved snapshot flipped a T1
    saveFails,  \* history: failed saves
    lost,       \* history: how often an event was dropped on a channel
    faults,     \* faults so far
    changes     \* inventory changes so far

nsxVars == <<nsx, t0s, happened, changes>>
diskVars == <<fileExists, file>>
passVars == <<seenT0s, live, snap, outbox>>
historyVars == <<reports, recorded, saveFails, lost>>
vars == <<nsxVars, diskVars, pc, passVars, historyVars, faults>>

Nothing == [t \in T1s |-> Absent]
NoEvents == [ch \in Channels |-> {}]
Present(map, t) == map[t] # Absent

Init ==
    /\ nsx \in [T1s -> Gateways \cup {Absent}]
    /\ t0s = {nsx[t].parent : t \in {u \in T1s : Present(nsx, u)}}
    /\ fileExists = FALSE
    /\ file = Nothing
    /\ pc = "idle"
    /\ seenT0s = {}
    /\ live = Nothing
    /\ snap = Nothing
    /\ outbox = NoEvents
    /\ reports = [d \in Channels \X Kinds \X T1s |-> 0]
    /\ happened = [e \in Kinds \X T1s |-> 0]
    /\ recorded = [e \in Kinds \X T1s |-> 0]
    /\ saveFails = 0
    /\ lost = [d \in Channels \X Kinds \X T1s |-> 0]
    /\ faults = 0
    /\ changes = 0

-----------------------------------------------------------------------------
(* The NSX inventory, changed by its own operators at any moment. *)

Changing == changes < MaxChanges /\ changes' = changes + 1

CreateT0(p) ==
    /\ Changing
    /\ p \notin t0s
    /\ t0s' = t0s \cup {p}
    /\ UNCHANGED <<nsx, happened>>

CreateT1(t, g) ==
    /\ Changing
    /\ ~Present(nsx, t) /\ g.parent \in t0s
    /\ nsx' = [nsx EXCEPT ![t] = g]
    /\ happened' = [happened EXCEPT ![<<"created", t>>] = @ + 1]
    /\ UNCHANGED t0s

DeleteT1(t) ==
    /\ Changing
    /\ Present(nsx, t)
    /\ nsx' = [nsx EXCEPT ![t] = Absent]
    /\ happened' = [happened EXCEPT ![<<"deleted", t>>] = @ + 1]
    /\ UNCHANGED t0s

MoveT1(t, g) ==
    /\ Changing
    /\ Present(nsx, t) /\ g # nsx[t] /\ g.parent \in t0s
    /\ nsx' = [nsx EXCEPT ![t] = g]
    /\ UNCHANGED <<t0s, happened>>

InventoryChange ==
    /\ \/ \E p \in Parents : CreateT0(p)
       \/ \E t \in T1s : \E g \in Gateways : CreateT1(t, g) \/ MoveT1(t, g)
       \/ \E t \in T1s : DeleteT1(t)
    /\ UNCHANGED <<diskVars, pc, passVars, historyVars, faults>>

-----------------------------------------------------------------------------
(* Listing: three calls, each a snapshot of the inventory at its own time. *)

ListTier0s ==
    /\ pc = "idle"
    /\ pc' = "tier1s"
    /\ seenT0s' = t0s
    /\ UNCHANGED <<nsxVars, diskVars, live, snap, outbox, historyVars, faults>>

\* A parent missing from the T0 listing is taken for a plain T0.
ParentKind(p) == IF p \in seenT0s \cap Vrfs THEN "vrf" ELSE "t0"

ListTier1s ==
    /\ pc = "tier1s"
    /\ pc' = "routers"
    /\ live' = [t \in T1s |->
                  IF Present(nsx, t)
                  THEN [parent |-> nsx[t].parent, kind |-> ParentKind(nsx[t].parent),
                        cluster |-> NoCluster]
                  ELSE Absent]
    /\ UNCHANGED <<nsxVars, diskVars, seenT0s, snap, outbox, historyVars, faults>>

ListRouters ==
    /\ pc = "routers"
    /\ pc' = "load"
    /\ live' = [t \in T1s |->
                  IF Present(live, t) /\ Present(nsx, t)
                  THEN [live[t] EXCEPT !.cluster = nsx[t].cluster]
                  ELSE live[t]]
    /\ UNCHANGED <<nsxVars, diskVars, seenT0s, snap, outbox, historyVars, faults>>

-----------------------------------------------------------------------------
(* The diff: t1watch.Detect on the loaded snapshot. *)

\* Mutant of SameEntry: a refresh that forgets the edge cluster.
SameParent(v, w) == v.parent = w.parent

\* The fields Detect compares; a view that differs only in the parent kind
\* is not refreshed.
SameEntry(v, w) == v.parent = w.parent /\ v.cluster = w.cluster

\* Mutant of Refresh: a created T1 is reported but not added.
RefreshKnown(known) ==
    [t \in T1s |-> IF Present(known, t) THEN live[t] ELSE Absent]

\* Mutant of Refresh: a deleted T1 stays in the snapshot.
RefreshKeeping(known) == [t \in T1s |-> IF Present(live, t) THEN live[t] ELSE known[t]]

Refresh(known) ==
    [t \in T1s |-> IF /\ Present(live, t) /\ Present(known, t)
                      /\ SameEntry(live[t], known[t])
                   THEN known[t]
                   ELSE live[t]]

Reflects(kind, map, t) == Present(map, t) <=> kind = "created"

\* Mutant of Events: only creations.
Creations(known, baselined) ==
    {e \in Kinds \X T1s : /\ baselined /\ e[1] = "created"
                          /\ Present(live, e[2]) /\ ~Present(known, e[2])}

Events(known, baselined) ==
    {e \in Kinds \X T1s : /\ baselined
                          /\ Reflects(e[1], live, e[2])
                          /\ ~Reflects(e[1], known, e[2])}

\* Deleted events are never posted: main leaves EmitDeleted false.
Addressee(ch, kind) == ch = "influx" \/ (SlackEnabled /\ kind = "created")

Addressed(events) == [ch \in Channels |-> {e \in events : Addressee(ch, e[1])}]

Detect(known, baselined) ==
    /\ pc = "load"
    /\ pc' = "save"
    /\ snap' = Refresh(known)
    /\ outbox' = Addressed(Events(known, baselined))
    /\ UNCHANGED <<nsxVars, diskVars, seenT0s, live, reports, recorded, saveFails>>

\* Mutant of LoadAndDetect: the first run is diffed like any other.
DetectUnbaselined == Detect(file, TRUE) /\ UNCHANGED <<lost, faults>>

LoadAndDetect == Detect(file, fileExists) /\ UNCHANGED <<lost, faults>>

-----------------------------------------------------------------------------
(* Save, post, write. *)

Flipped(e) == fileExists /\ Reflects(e[1], snap, e[2]) /\ ~Reflects(e[1], file, e[2])

SaveSnapshot ==
    /\ pc = "save"
    /\ pc' = "post"
    /\ fileExists' = TRUE
    /\ file' = snap
    /\ recorded' = [e \in Kinds \X T1s |-> IF Flipped(e) THEN recorded[e] + 1 ELSE recorded[e]]
    /\ UNCHANGED <<nsxVars, passVars, reports, saveFails, lost, faults>>

Unposted(e) == [outbox EXCEPT !["slack"] = @ \ {e}]

Post(e) ==
    /\ pc = "post" /\ e \in outbox["slack"]
    /\ outbox' = Unposted(e)
    /\ reports' = [reports EXCEPT ![<<"slack", e[1], e[2]>>] = @ + 1]
    /\ UNCHANGED <<nsxVars, diskVars, pc, seenT0s, live, snap, recorded, saveFails, lost, faults>>

\* Mutant of EndPass: the events outlive the pass.
EndPassWithEvents ==
    /\ pc' = "idle"
    /\ seenT0s' = {} /\ live' = Nothing /\ snap' = Nothing
    /\ UNCHANGED outbox

\* The pass is over: everything held in memory for it is dropped.
EndPass ==
    /\ pc' = "idle"
    /\ seenT0s' = {} /\ live' = Nothing /\ snap' = Nothing
    /\ outbox' = NoEvents

WritePoints ==
    /\ pc = "post" /\ outbox["slack"] = {}
    /\ EndPass
    /\ reports' = [d \in Channels \X Kinds \X T1s |->
                     IF d[1] = "influx" /\ <<d[2], d[3]>> \in outbox["influx"]
                     THEN reports[d] + 1 ELSE reports[d]]
    /\ UNCHANGED <<nsxVars, diskVars, recorded, saveFails, lost, faults>>

-----------------------------------------------------------------------------
(* Faults. *)

Fault(kind) == kind \in Faults /\ faults < MaxFaults /\ faults' = faults + 1

\* The given events, a set per channel, will never be delivered there.
Losing(dropped) ==
    lost' = [d \in Channels \X Kinds \X T1s |->
               IF <<d[2], d[3]>> \in dropped[d[1]] THEN lost[d] + 1 ELSE lost[d]]

Only(ch, events) == [NoEvents EXCEPT ![ch] = events]

\* A failed T0 or T1 listing ends the pass before the detector runs.
ListFails ==
    /\ Fault("list")
    /\ pc \in {"idle", "tier1s"}
    /\ EndPass
    /\ UNCHANGED <<nsxVars, diskVars, historyVars>>

\* A failed router listing leaves every edge cluster empty.
RoutersFail ==
    /\ Fault("list")
    /\ pc = "routers"
    /\ pc' = "load"
    /\ UNCHANGED <<nsxVars, diskVars, passVars, historyVars>>

\* An unreadable snapshot counts as no snapshot: empty and not baselined, so
\* what has changed since the last save is detected by no pass.
LoadFails ==
    /\ Fault("load")
    /\ fileExists
    /\ Losing(Addressed(Events(file, TRUE)))
    /\ Detect(Nothing, FALSE)

SaveFails ==
    /\ Fault("save")
    /\ pc = "save"
    /\ pc' = "post"
    /\ saveFails' = saveFails + 1
    /\ UNCHANGED <<nsxVars, diskVars, passVars, reports, recorded, lost>>

\* Mutant of PostFails: the first failed post ends the loop over the events.
PostFailsReturns(e) ==
    /\ Fault("post")
    /\ pc = "post" /\ e \in outbox["slack"]
    /\ outbox' = [outbox EXCEPT !["slack"] = {}]
    /\ Losing(Only("slack", {e}))
    /\ UNCHANGED <<nsxVars, diskVars, pc, seenT0s, live, snap, reports, recorded, saveFails>>

\* The other events of the pass are posted all the same.
PostFails(e) ==
    /\ Fault("post")
    /\ pc = "post" /\ e \in outbox["slack"]
    /\ outbox' = Unposted(e)
    /\ Losing(Only("slack", {e}))
    /\ UNCHANGED <<nsxVars, diskVars, pc, seenT0s, live, snap, reports, recorded, saveFails>>

WriteFails ==
    /\ Fault("write")
    /\ pc = "post" /\ outbox["slack"] = {}
    /\ EndPass
    /\ Losing(Only("influx", outbox["influx"]))
    /\ UNCHANGED <<nsxVars, diskVars, reports, recorded, saveFails>>

\* Only the file survives the process.  Before the save, what it dropped will
\* be detected again.
Crash ==
    /\ Fault("crash")
    /\ pc # "idle"
    /\ EndPass
    /\ Losing(IF pc = "post" THEN outbox ELSE NoEvents)
    /\ UNCHANGED <<nsxVars, diskVars, reports, recorded, saveFails>>

FaultStep ==
    \/ ListFails \/ RoutersFail \/ LoadFails \/ SaveFails
    \/ \E e \in Kinds \X T1s : PostFails(e)
    \/ WriteFails \/ Crash

-----------------------------------------------------------------------------
PassStep ==
    \/ ListTier0s \/ ListTier1s \/ ListRouters
    \/ LoadAndDetect \/ SaveSnapshot
    \/ \E e \in Kinds \X T1s : Post(e)
    \/ WritePoints

Next == InventoryChange \/ PassStep \/ FaultStep

Spec == Init /\ [][Next]_vars

\* The scheduler starts a pass every slow interval and every call returns
\* (each has a timeout), so the pass itself never stops for ever.
FairSpec == Spec /\ WF_vars(PassStep)

-----------------------------------------------------------------------------
(* Properties. *)

\* Every variable holds a value of its type, and what a pass keeps in memory
\* is empty between passes.
TypeOK ==
    /\ nsx \in [T1s -> Gateways \cup {Absent}]
    /\ t0s \subseteq Parents
    /\ fileExists \in BOOLEAN
    /\ file \in [T1s -> Views \cup {Absent}]
    /\ pc \in {"idle", "tier1s", "routers", "load", "save", "post"}
    /\ seenT0s \subseteq Parents
    /\ live \in [T1s -> Views \cup {Absent}]
    /\ snap \in [T1s -> Views \cup {Absent}]
    /\ outbox \in [Channels -> SUBSET (Kinds \X T1s)]
    /\ reports \in [Channels \X Kinds \X T1s -> Nat]
    /\ happened \in [Kinds \X T1s -> Nat]
    /\ recorded \in [Kinds \X T1s -> Nat]
    /\ lost \in [Channels \X Kinds \X T1s -> Nat]
    /\ saveFails \in Nat /\ faults \in Nat /\ changes \in Nat
    /\ pc = "idle" => outbox = NoEvents

\* A creation or deletion is reported on a channel at most once, plus once per
\* save that failed: the diff runs on a snapshot that SaveSnapshot has moved
\* past every change it reported, whatever crashed or failed in between.
AtMostOncePerChange ==
    \A ch \in Channels, k \in Kinds, t \in T1s :
        reports[<<ch, k, t>>] <= happened[<<k, t>>] + saveFails

\* A change that never happened is never reported: a first run, a crash in
\* mid-pass, an unreadable snapshot or a stale listing never floods the
\* channels with T1s that were there all along.
NoPhantomReport ==
    \A ch \in Channels, k \in Kinds, t \in T1s :
        happened[<<k, t>>] = 0 => reports[<<ch, k, t>>] = 0

\* Every creation or deletion the snapshot file has recorded reaches each of
\* its channels, except where the very event was dropped: its own post failed,
\* the write that held it failed, a crash came after the save that recorded it,
\* or the snapshot it had to be compared with was unreadable.  A failed listing
\* or save, or a failed post of another T1, never loses an event.
LossesAccounted ==
    pc = "idle" =>
        \A ch \in Channels, k \in Kinds, t \in T1s :
            Addressee(ch, k) =>
                recorded[<<k, t>>] <= reports[<<ch, k, t>>] + lost[<<ch, k, t>>]

PresentIn(map) == {t \in T1s : Present(map, t)}

\* The journal the watcher keeps: the view is held from the T1 listing to the
\* save, what is known is the file, what is owed is the outbox after the save.
Journal == INSTANCE T1Journal WITH
    Nobody <- Absent,
    Addressee <- Addressee,
    exists <- PresentIn(nsx),
    view <- IF pc \in {"routers", "load", "save"} THEN PresentIn(live) ELSE Absent,
    known <- IF fileExists THEN PresentIn(file) ELSE Absent,
    owed <- IF pc = "post" THEN outbox ELSE NoEvents,
    told <- reports

\* Every pass tells each channel exactly the differences between the saved
\* snapshot and the T1 listing, each at most once, and no new diff is taken
\* while some are owed: the three listings, the save, the posts, the write,
\* the faults and the restarts amount to the journal of T1Journal.
KeepsJournal == Journal!Spec

\* Once the inventory and the faults are quiet, the file settles on the real
\* inventory: the same T1s, with their current parent and edge cluster.
SnapshotConverges ==
    <>[](/\ fileExists
         /\ \A t \in T1s :
              /\ Present(file, t) <=> Present(nsx, t)
              /\ Present(file, t) => /\ file[t].parent = nsx[t].parent
                                     /\ file[t].cluster = nsx[t].cluster)
=============================================================================
