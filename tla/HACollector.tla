----------------------------- MODULE HACollector -----------------------------
(***************************************************************************)
(* The HA collector for one T0 edge cluster of one site: HACollector.      *)
(* CollectHA (internal/collector/ha.go) with refreshWatchlist,             *)
(* bumpMissCounts and the inventory file.                                  *)
(*                                                                         *)
(* A cycle lists the routers, loads the watchlist from the file and        *)
(* refreshes it, fetches the HA status of every watched T1 in parallel,    *)
(* diffs the answers with the ones of the previous cycle (kept in memory)  *)
(* and saves the watchlist.  T1s move between edge nodes, leave and join   *)
(* the cluster at any moment; every call may fail; a restart keeps only    *)
(* the file and may come with another watch mode.                          *)
(*                                                                         *)
(* Abstractions.  Clusters are handled independently, so one is enough;    *)
(* OtherT0s says whether the site has another one.  A T1 is its id and its *)
(* name (names are distinct and stable).  The order of the watchlist only  *)
(* decides what a smaller size would trim, so with a fixed size it is a    *)
(* set; an absent inventory entry is an empty one.  The state points are   *)
(* left out; the summary point and the write of all points are in HAFeed.  *)
(***************************************************************************)
EXTENDS Integers, FiniteSets

CONSTANTS
    T1s,        \* T1 gateways that may ever be on the cluster
    Nodes,      \* edge nodes, numbered in the order of their ids
    Size,       \* ha_watch.size
    Modes,      \* the ha_watch.mode values a (re)start may find
    T1Names,    \* ha_watch.t1_names
    Rank,       \* the place of each name in t1_names
    Broken,     \* listed T1s whose status call always fails
    OtherT0s,   \* the site has T0s on other edge clusters
    Faults,     \* kinds of faults that may happen
    MaxFaults,  \* bound on the number of faults
    MaxMoves    \* bound on the changes made in NSX one T1 at a time

NoNode == 0     \* no ACTIVE node: the empty transport node id
Gone == -1      \* the T1 is not on the cluster
Unseen == -2    \* no answer for the T1 in this cycle
MissThreshold == 2

\* "write" is the one of HAFeed.
FaultKinds == {"list", "load", "save", "fetch", "noactive", "outage", "crash", "write"}

ASSUME T1sAssumption == IsFiniteSet(T1s) /\ T1Names \subseteq T1s /\ Broken \subseteq T1s
ASSUME RankAssumption == Rank \in [T1Names -> Nat] /\ \A m, n \in T1Names : Rank[m] = Rank[n] => m = n
ASSUME NodesAssumption == Nodes \subseteq Nat \ {0}
ASSUME SizeAssumption == Size \in Nat \ {0}
ASSUME ModesAssumption == Modes # {} /\ Modes \subseteq {"auto", "pinned", "hybrid"}
ASSUME FaultsAssumption == Faults \subseteq FaultKinds /\ OtherT0s \in BOOLEAN
ASSUME BoundsAssumption == MaxFaults \in Nat /\ MaxMoves \in Nat

VARIABLES
    active,     \* NSX: T1 -> its ACTIVE node, NoNode or Gone
    t0,         \* NSX: the T0 of the cluster exists
    mode,       \* ha_watch.mode of the running process
    modesUsed,  \* history: the modes of all processes so far
    file,       \* the saved watchlist
    prev,       \* prevActive: T1 -> node of the last answer, NoNode if none
    pc,         \* "idle" or "fetch"
    ci,         \* the watchlist of this cycle
    listed,     \* the T1s of the cluster in this cycle's listing
    seen,       \* answers of this cycle: T1 -> node, NoNode or Unseen
    missed,     \* T1s whose status call failed in this cycle
    event,      \* the change event of the last finished cycle, or NoEvent
    moved,      \* history: T1s that moved since the process started
    absentRun,  \* history: refreshes in a row that kept a T1 not listed
    missedLast, \* history: T1s not listed or without an answer in the last
                \* saved cycle
    unsaved,    \* history: cycles whose watchlist was never saved
    faults,     \* faults so far
    moves       \* NSX changes so far

nsxVars == <<active, t0, moved, moves>>
cycleVars == <<ci, listed, seen, missed>>
vars == <<nsxVars, mode, modesUsed, file, prev, pc, cycleVars, event, absentRun, missedLast, unsaved, faults>>

Watchlists == [watch : SUBSET T1s, pinned : SUBSET T1s, miss : [T1s -> Nat]]
EmptyWatchlist == [watch |-> {}, pinned |-> {}, miss |-> [t \in T1s |-> 0]]
NoEvent == [changed |-> {}, observed |-> 0, from |-> NoNode, to |-> NoNode]

OnCluster == {t \in T1s : active[t] # Gone}

Init ==
    /\ active \in [T1s -> Nodes \cup {Gone}]
    /\ t0 = TRUE
    /\ mode \in Modes
    /\ modesUsed = {mode}
    /\ file = EmptyWatchlist
    /\ prev = [t \in T1s |-> NoNode]
    /\ pc = "idle"
    /\ ci = EmptyWatchlist
    /\ listed = {}
    /\ seen = [t \in T1s |-> Unseen]
    /\ missed = {}
    /\ event = NoEvent
    /\ moved = {}
    /\ absentRun = [t \in T1s |-> 0]
    /\ missedLast = {}
    /\ unsaved = 0
    /\ faults = 0
    /\ moves = 0

-----------------------------------------------------------------------------
(* NSX. *)

\* A T1 moves to another node, loses its ACTIVE node, leaves or joins.
MoveT1(t, n) ==
    /\ moves < MaxMoves /\ moves' = moves + 1
    /\ n # active[t]
    /\ active' = [active EXCEPT ![t] = n]
    /\ moved' = moved \cup {t}
    /\ UNCHANGED t0

ToggleT0 ==
    /\ moves < MaxMoves /\ moves' = moves + 1
    /\ t0' = ~t0
    /\ UNCHANGED <<active, moved>>

UnchangedCollector == UNCHANGED <<mode, modesUsed, file, prev, pc, cycleVars, event, absentRun, missedLast, unsaved, faults>>

NSXMove ==
    /\ \/ \E t \in T1s : \E n \in Nodes \cup {NoNode, Gone} : MoveT1(t, n)
       \/ ToggleT0
    /\ UnchangedCollector

-----------------------------------------------------------------------------
(* refreshWatchlist *)

\* Mutant of Kept: one miss too many before the substitution.
KeptOneMore(w, lst) ==
    {t \in w.watch : t \in lst \/ (t \notin w.pinned /\ w.miss[t] + 1 <= MissThreshold)}

\* A listed T1 stays; a missing one stays for one more cycle unless pinned.
Kept(w, lst) ==
    {t \in w.watch : t \in lst \/ (t \notin w.pinned /\ w.miss[t] + 1 < MissThreshold)}

\* Mutant of MissAfter: being listed does not end a run of misses.
MissAfterNoReset(w, lst) ==
    [t \in T1s |->
        IF t \notin w.watch \/ t \in w.pinned \/ t \in lst THEN w.miss[t]
        ELSE IF w.miss[t] + 1 >= MissThreshold THEN 0
        ELSE w.miss[t] + 1]

MissAfter(w, lst) ==
    [t \in T1s |->
        IF t \notin w.watch \/ (t \in w.pinned /\ t \notin lst) THEN w.miss[t]
        ELSE IF t \in lst \/ w.miss[t] + 1 >= MissThreshold THEN 0
        ELSE w.miss[t] + 1]

\* Mutant of Room: off by one.
RoomForOneLess(kept) == Size - 1 - Cardinality(kept)

Room(kept) == Size - Cardinality(kept)

\* The names to pin, in the order of t1_names, as far as there is room.
Pins(kept, lst) ==
    LET wanted == IF mode = "auto" THEN {} ELSE (T1Names \cap lst) \ kept
    IN  {t \in wanted : Cardinality({u \in wanted : Rank[u] < Rank[t]}) < Room(kept)}

\* Mutant of Picks: fills the list up in every mode.
PicksAnyMode(kept, lst) ==
    LET candidates == lst \ kept
    IN  {P \in SUBSET candidates :
            Cardinality(P) = IF Cardinality(candidates) < Room(kept)
                             THEN Cardinality(candidates) ELSE Room(kept)}

\* The random picks that fill the list up, shuffled: any subset of the right size.
Picks(kept, lst) ==
    LET candidates == lst \ kept
        free == Room(kept)
        wanted == IF Cardinality(candidates) < free THEN Cardinality(candidates) ELSE free
    IN  IF mode = "pinned" THEN {{}}
        ELSE {P \in SUBSET candidates : Cardinality(P) = wanted}

Refresh(w, lst) ==
    LET kept == Kept(w, lst)
        pins == Pins(kept, lst)
    IN  {[watch |-> kept \cup pins \cup P,
          pinned |-> (w.pinned \cap kept) \cup pins,
          miss |-> MissAfter(w, lst)] : P \in Picks(kept \cup pins, lst)}

-----------------------------------------------------------------------------
(* The cycle. *)

\* List the routers, load the inventory and refresh the watchlist.
ListAndRefresh(loaded) ==
    /\ pc = "idle" /\ t0
    /\ pc' = "fetch"
    /\ listed' = OnCluster
    /\ ci' \in Refresh(loaded, OnCluster)
    /\ seen' = [t \in T1s |-> Unseen]
    /\ missed' = {}
    /\ event' = NoEvent
    /\ absentRun' = [t \in T1s |-> IF t \in ci'.watch \ OnCluster THEN absentRun[t] + 1 ELSE 0]
    /\ UNCHANGED <<nsxVars, mode, modesUsed, file, prev, missedLast, unsaved>>

StartCycle == ListAndRefresh(file) /\ UNCHANGED faults

\* No T0 on the cluster: its inventory entry goes with the other clusters'
\* save; on a site without any T0 the cycle ends before the load.  What the
\* process remembers of the T1s stays.
DropCluster ==
    /\ pc = "idle" /\ ~t0
    /\ file' = IF OtherT0s THEN EmptyWatchlist ELSE file
    /\ event' = NoEvent
    /\ absentRun' = IF OtherT0s THEN [t \in T1s |-> 0] ELSE absentRun
    /\ UNCHANGED <<nsxVars, mode, modesUsed, prev, pc, cycleVars, missedLast, unsaved, faults>>

Waiting(t) == pc = "fetch" /\ t \in ci.watch /\ seen[t] = Unseen /\ t \notin missed

Answer(t, n) ==
    /\ Waiting(t) /\ t \notin Broken
    /\ seen' = [seen EXCEPT ![t] = n]
    /\ UNCHANGED <<nsxVars, mode, modesUsed, file, prev, pc, ci, listed, missed, event, absentRun, missedLast, unsaved>>

\* A T1 that lost its service router answers with no node at all.
Fetch(t) == Answer(t, IF active[t] = Gone THEN NoNode ELSE active[t]) /\ UNCHANGED faults

Miss(t) ==
    /\ Waiting(t)
    /\ missed' = missed \cup {t}
    /\ UNCHANGED <<nsxVars, mode, modesUsed, file, prev, pc, ci, listed, seen, event, absentRun, missedLast, unsaved>>

\* The T1 is gone, or its status call fails every time.
NotFound(t) == Miss(t) /\ t \notin OnCluster \ Broken /\ UNCHANGED faults

Answered == {t \in T1s : seen[t] # Unseen}

\* mostFrequent: the node most T1s report, the first in order on a tie.
Votes(n) == Cardinality({t \in T1s : seen[t] = n})
Consensus ==
    IF \A n \in Nodes : Votes(n) = 0 THEN NoNode
    ELSE CHOOSE n \in Nodes : \A m \in Nodes :
            Votes(n) > Votes(m) \/ (Votes(n) = Votes(m) /\ n <= m)

\* Mutant of Changed: the first answer of a T1 counts as a change.
ChangedFromNothing == {t \in Answered : seen[t] # NoNode /\ seen[t] # prev[t]}

Changed == {t \in Answered : prev[t] # NoNode /\ seen[t] # NoNode /\ seen[t] # prev[t]}

Threshold == IF Cardinality(Answered) < 3 THEN 1 ELSE (Cardinality(Answered) + 1) \div 2

Majority == Answered # {} /\ Cardinality(Changed) >= Threshold

\* from_active and to_active are those of whichever changed T1 the map
\* iteration comes to last.
ChangeEvents ==
    IF Majority
    THEN {[changed |-> Changed, observed |-> Cardinality(Answered),
           from |-> prev[t], to |-> seen[t]] : t \in Changed}
    ELSE {NoEvent}

\* Mutant of NewPrev: an outage wipes the baseline.
NewPrevOfAnswers ==
    [t \in T1s |-> IF t \notin Answered THEN NoNode
                   ELSE IF seen[t] = NoNode THEN prev[t] ELSE seen[t]]

\* Mutant of NewPrev: T1s without an answer are not skipped.
NewPrevUnfiltered ==
    IF Answered = {} THEN prev
    ELSE [t \in T1s |-> IF seen[t] = NoNode THEN prev[t] ELSE seen[t]]

\* A T1 that did not answer loses its baseline, unless nobody answered.
NewPrev ==
    IF Answered = {} THEN prev
    ELSE [t \in T1s |-> IF t \notin Answered THEN NoNode
                        ELSE IF seen[t] = NoNode THEN prev[t] ELSE seen[t]]

Bumped == [ci EXCEPT !.miss = [t \in T1s |-> IF t \in missed THEN @[t] + 1 ELSE @[t]]]

EndCycle ==
    /\ pc' = "idle"
    /\ ci' = EmptyWatchlist /\ listed' = {}
    /\ seen' = [t \in T1s |-> Unseen] /\ missed' = {}

Evaluate ==
    /\ pc = "fetch" /\ \A t \in T1s : ~Waiting(t)
    /\ event' \in ChangeEvents
    /\ prev' = NewPrev
    /\ EndCycle
    /\ UNCHANGED <<nsxVars, mode, modesUsed, absentRun>>

Save ==
    /\ Evaluate
    /\ file' = Bumped
    /\ missedLast' = (T1s \ listed) \cup missed
    /\ UNCHANGED <<unsaved, faults>>

-----------------------------------------------------------------------------
(* Faults. *)

Fault(kind) == kind \in Faults /\ faults < MaxFaults /\ faults' = faults + 1

\* An unreadable inventory is started afresh.
LoadFails == Fault("load") /\ ListAndRefresh(EmptyWatchlist)

SaveFails ==
    /\ Fault("save")
    /\ Evaluate
    /\ unsaved' = unsaved + 1
    /\ UNCHANGED <<file, missedLast>>

ListFails ==
    /\ Fault("list")
    /\ pc = "idle"
    /\ event' = NoEvent
    /\ UNCHANGED <<nsxVars, mode, modesUsed, file, prev, pc, cycleVars, absentRun, missedLast, unsaved>>

FetchFails(t) == Fault("fetch") /\ Miss(t)

\* Every node of the T1 is in transition: none is ACTIVE.
NoActive(t) == Fault("noactive") /\ Answer(t, NoNode)

\* The manager stops answering for the whole fetch.
Outage ==
    /\ Fault("outage")
    /\ pc = "fetch" /\ Answered = {}
    /\ missed' = ci.watch
    /\ UNCHANGED <<nsxVars, mode, modesUsed, file, prev, pc, ci, listed, seen, event, absentRun, missedLast, unsaved>>

\* The process restarts, perhaps with another mode; only the file survives.
Crash(m) ==
    /\ Fault("crash")
    /\ mode' = m
    /\ modesUsed' = modesUsed \cup {m}
    /\ prev' = [t \in T1s |-> NoNode]
    /\ moved' = {}
    /\ event' = NoEvent
    /\ unsaved' = IF pc = "fetch" THEN unsaved + 1 ELSE unsaved
    /\ EndCycle
    /\ UNCHANGED <<active, t0, moves, file, absentRun, missedLast>>

FaultStep ==
    \/ LoadFails \/ SaveFails \/ ListFails \/ Outage
    \/ \E t \in T1s : FetchFails(t) \/ NoActive(t)
    \/ \E m \in Modes : Crash(m)

-----------------------------------------------------------------------------
CycleStep == StartCycle \/ DropCluster \/ (\E t \in T1s : Fetch(t) \/ NotFound(t)) \/ Save

Next == NSXMove \/ CycleStep \/ FaultStep

Spec == Init /\ [][Next]_vars
FairSpec == Spec /\ WF_vars(CycleStep)
-----------------------------------------------------------------------------
(* Properties. *)

\* Every variable holds a value of its type; only a T1 of the watchlist is
\* pinned, answers or is missed, and a cycle's data is empty between cycles.
TypeOK ==
    /\ active \in [T1s -> Nodes \cup {NoNode, Gone}]
    /\ t0 \in BOOLEAN
    /\ mode \in Modes /\ modesUsed \subseteq Modes
    /\ file \in Watchlists /\ file.pinned \subseteq file.watch
    /\ ci \in Watchlists /\ ci.pinned \subseteq ci.watch
    /\ prev \in [T1s -> Nodes \cup {NoNode}]
    /\ pc \in {"idle", "fetch"}
    /\ listed \subseteq T1s
    /\ seen \in [T1s -> Nodes \cup {NoNode, Unseen}]
    /\ missed \subseteq ci.watch /\ Answered \subseteq ci.watch
    /\ event.changed \subseteq T1s /\ event.observed \in Nat
    /\ event.from \in Nodes \cup {NoNode} /\ event.to \in Nodes \cup {NoNode}
    /\ moved \subseteq T1s
    /\ absentRun \in [T1s -> Nat]
    /\ missedLast \subseteq T1s
    /\ unsaved \in Nat /\ faults \in Nat /\ moves \in Nat
    /\ pc = "idle" => ci = EmptyWatchlist

\* The watchlist never outgrows ha_watch.size, in memory or on disk, and after
\* a refresh in auto or hybrid mode it is full unless every listed T1 is on
\* it: healing never leaves a slot empty.
WatchlistFilled ==
    /\ Cardinality(file.watch) <= Size /\ Cardinality(ci.watch) <= Size
    /\ pc = "fetch" /\ mode # "pinned" =>
          Cardinality(ci.watch) = Size \/ listed \subseteq ci.watch

\* A T1 that left the cluster is substituted at the second refresh that does
\* not list it; each cycle whose save failed or never came gives it one more.
HealedInTime == pc = "fetch" => \A t \in ci.watch : absentRun[t] <= 1 + unsaved

\* A T1 that is not pinned is only substituted after two misses in a row: the
\* last saved cycle did not list it or got no answer from it, and this one does
\* not list it, whatever older misses, failed saves and restarts its count has
\* been through.  Only as long as the watch mode never changed: a name dropped
\* as pinned keeps its count, and may come back as a random pick.
SubstitutedAfterTwo ==
    [][StartCycle /\ modesUsed = {mode} =>
         (file.watch \ ci'.watch) \ file.pinned \subseteq missedLast \ listed']_vars

\* A change event only counts T1s that changed node since the process started:
\* restarts, failed calls, transitions without an ACTIVE node, substitutions
\* and a T0 that comes and goes never make a failover up.
NoFalseFailover == event.changed \subseteq moved

\* A site that has only ever run in pinned mode watches exactly the names of
\* t1_names that are on the cluster, when they fit: they come and go with the
\* listing, whatever fails.
PinnedExact ==
    pc = "fetch" /\ modesUsed = {"pinned"} /\ Cardinality(T1Names) <= Size =>
        ci.watch = T1Names \cap listed

\* In pinned and hybrid mode a named T1 that left the cluster and came back
\* for good is watched again: t1_names is looked through on every cycle.
PinnedComesBack ==
    "auto" \notin Modes /\ Cardinality(T1Names) <= Size =>
        \A t \in T1Names :
            <>(t \in file.pinned) /\ <>[](t0 /\ t \in OnCluster) => []<>(t \in ci.watch)

\* A watched T1 whose status call keeps failing is eventually substituted.
BrokenSubstituted == \A t \in Broken : [](t \in ci.watch => <>(t \notin file.watch))
=============================================================================
