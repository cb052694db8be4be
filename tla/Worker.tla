-------------------------------- MODULE Worker --------------------------------
(***************************************************************************)
(* One worker on the clock: the sections of Worker.Collect with their      *)
(* cadence gates and their failures, those of CapacityCollector.Collect    *)
(* among them, the two writes at its end (internal/collector/worker.go,    *)
(* capacity.go, internal/influxdb/writer.go), the scheduler's rounds that  *)
(* run it (scheduler.go), and the checkmk check that reads the HA change   *)
(* events (scripts/checkmk-nsx-ha.sh).                                     *)
(*                                                                         *)
(* Every point of a cycle carries the time the cycle began and is stored   *)
(* when the cycle ends.  A reader follows the points of one kind, its      *)
(* panel, chosen once and for all; the ages below are those of that kind.  *)
(* Of the change events, which the check must meet one by one, the reader  *)
(* may follow any.                                                         *)
(*                                                                         *)
(* Abstractions.  A section is one call; a loop over items (the managers   *)
(* of the cluster, the alarms, the interfaces of a node, the T1s' NAT      *)
(* rules) stands for the item the panel shows, except the loop over        *)
(* transport nodes.  The T1 watcher is module T1Watch, and its event       *)
(* points are left out here.  Ages are in ticks and stop at a value no     *)
(* comparison tells from a greater one.                                    *)
(***************************************************************************)
EXTENDS Naturals

CONSTANTS
    Nodes,          \* transport nodes
    EdgeNodes,      \* those of an edge type
    Extras,         \* the capacity.collect_... sections that are switched on
    Interval,       \* intervals.default: pause between two rounds
    SlowInterval,   \* intervals.slow
    HAInterval,     \* intervals.ha
    MaxCycle,       \* no Collect of this worker takes longer
    MaxRound,       \* no round, which waits for the slowest worker, does
    Window,         \* how far back the HA check looks
    CheckPeriod     \* how often checkmk runs it

ASSUME ConstantsAssumption ==
    /\ EdgeNodes \subseteq Nodes
    /\ Extras \subseteq {"segments", "policies", "groups", "nat"}
    /\ {Interval, SlowInterval, HAInterval, Window, CheckPeriod} \subseteq Nat \ {0}
    /\ MaxCycle \in Nat /\ MaxRound \in Nat /\ MaxCycle <= MaxRound

\* The HA change event, as opposed to the kinds written in every cycle that
\* their gate lets through.
Change == <<"change">>
CapacityKinds ==
    {<<"usage">>, <<"lbCredits">>, <<"perGateway">>, <<"services">>} \cup {<<e>> : e \in Extras}
SlowKinds == CapacityKinds \cup {<<"alarms">>, <<"siteTotals">>}
FastKinds ==
    {<<"cluster">>, <<"managers">>, <<"routers">>}
    \cup ({"status"} \X Nodes) \cup ({"uplink"} \X EdgeNodes)
Kinds == {Change, <<"ha">>} \cup SlowKinds \cup FastKinds

\* The longest time between two starts of Collect.
Period == MaxRound + Interval

\* How old the newest stored point of a kind may get if nothing fails: it is
\* replaced at the end of a cycle, and its gate may have missed the cycle
\* before by one tick.
Bound(k) ==
    Period + MaxCycle +
        CASE k \in SlowKinds -> SlowInterval - 1
          [] k = <<"ha">> -> HAInterval - 1
          [] OTHER -> 0

\* No comparison tells ages from Old on apart.
Old == Period + MaxCycle + SlowInterval + HAInterval + Window + 1

VARIABLES
    pc,         \* where the worker stands: a section, or between cycles
    timer,      \* ticks since the round began, or since the pause did
    slowAge,    \* ticks since lastSlow, Old when it is zero
    haAge,      \* ticks since lastHA, Old when it is zero
    runSlow,    \* this cycle's slow gate
    todo,       \* transport nodes the loop has yet to visit
    visiting,   \* the edge node whose interfaces are being read, if any
    held,       \* the batches of this cycle hold a point of the panel's kind
    checkTimer, \* ticks since the last HA check
    panel,      \* the kind the reader follows
    shownAge,   \* age of its newest stored point, or of the event it follows
    calm,       \* ticks since anything that point depends on failed
    unseen,     \* the reader follows a change event no check has met yet
    storedAge,  \* history: the age at which that event was stored
    checkFailed \* history: a check has failed since

vars == <<pc, timer, slowAge, haAge, runSlow, todo, visiting, held, checkTimer,
          panel, shownAge, calm, unseen, storedAge, checkFailed>>
gateVars == <<slowAge, haAge, runSlow>>
loopVars == <<todo, visiting>>
eventVars == <<unseen, storedAge, checkFailed>>
readerVars == <<checkTimer, panel, shownAge, eventVars>>

Cap(age) == IF age > Old THEN Old ELSE age

Sections == {"ha", "cluster", "managers", "nodes", "each", "ifaces", "stats", "routers",
             "alarms", "usage", "lbCredits", "tier0s", "tier1s", "segments", "policies",
             "groups", "nat", "services", "writeCapacity", "write"}
SlowSections == {"alarms", "usage", "lbCredits", "tier0s", "tier1s", "segments", "policies",
                 "groups", "nat", "services"}

Init ==
    /\ pc = "sleep"
    /\ timer = Interval
    /\ slowAge = Old /\ haAge = Old
    /\ runSlow = FALSE
    /\ todo = {} /\ visiting = {}
    /\ held = FALSE
    /\ checkTimer = 0
    /\ panel \in Kinds
    /\ shownAge = Old
    /\ calm = 0
    /\ unseen = FALSE /\ storedAge = 0 /\ checkFailed = FALSE

-----------------------------------------------------------------------------
(* Calls and what depends on them. *)

\* The kinds that need the inventory of gateways.
InventoryKinds == {<<"perGateway">>, <<"siteTotals">>} \cup {<<e>> : e \in Extras}

\* The calls a point of kind k cannot do without.
Chain(k) ==
    {k, IF k \in CapacityKinds THEN <<"writeCapacity">> ELSE <<"write">>}
    \cup (IF k = Change THEN {<<"ha">>} ELSE {})
    \cup (IF k = <<"managers">> THEN {<<"cluster">>} ELSE {})
    \cup (IF k[1] \in {"status", "uplink"} THEN {<<"nodes">>} ELSE {})
    \cup (IF k[1] = "uplink" THEN {<<"status", k[2]>>} ELSE {})
    \cup (IF k \in InventoryKinds THEN {<<"tier0s">>, <<"tier1s">>} ELSE {})

\* A call delivers points of the given kinds, or fails.
DeliversAll(kinds) == held' = (held \/ panel \in kinds) /\ UNCHANGED calm
Delivers(k) == DeliversAll({k})
Fails(call) == calm' = (IF call \in Chain(panel) THEN 0 ELSE calm) /\ UNCHANGED held

\* The usual section: one call, one kind of point, the next section either way.
Section(at, next) ==
    /\ pc = at
    /\ pc' = next
    /\ Delivers(<<at>>) \/ Fails(<<at>>)
    /\ UNCHANGED <<timer, gateVars, loopVars, readerVars>>

-----------------------------------------------------------------------------
(* The sections of Collect, in order. *)

\* Mutant of StartCycle: lastSlow is set in every cycle, not only in slow ones.
StartCycleAlwaysStamped ==
    /\ pc = "sleep" /\ timer = Interval
    /\ timer' = 0
    /\ runSlow' = (slowAge >= SlowInterval)
    /\ slowAge' = 0
    /\ pc' = IF haAge >= HAInterval THEN "ha" ELSE "cluster"
    /\ held' = FALSE
    /\ UNCHANGED <<haAge, loopVars, calm, readerVars>>

\* The timer has fired.  lastSlow is set before the slow path runs, and
\* whatever becomes of it.
StartCycle ==
    /\ pc = "sleep" /\ timer = Interval
    /\ timer' = 0
    /\ runSlow' = (slowAge >= SlowInterval)
    /\ slowAge' = IF runSlow' THEN 0 ELSE slowAge
    /\ pc' = IF haAge >= HAInterval THEN "ha" ELSE "cluster"
    /\ held' = FALSE
    /\ UNCHANGED <<haAge, loopVars, calm, readerVars>>

\* CollectHA; lastHA is set to the time the cycle began, also when it fails.
\* A change event comes with some of the answers.
CollectHA ==
    /\ pc = "ha"
    /\ pc' = "cluster"
    /\ haAge' = Cap(timer)
    /\ \/ Delivers(<<"ha">>)
       \/ DeliversAll({<<"ha">>, Change})
       \/ Fails(<<"ha">>)
    /\ UNCHANGED <<timer, slowAge, runSlow, loopVars, readerVars>>

\* Without a cluster status there is no list of managers to go through.
ClusterStatus ==
    /\ pc = "cluster"
    /\ \/ pc' = "managers" /\ Delivers(<<"cluster">>)
       \/ pc' = "nodes" /\ Fails(<<"cluster">>)
    /\ UNCHANGED <<timer, gateVars, loopVars, readerVars>>

Managers == Section("managers", "nodes")

TransportNodes ==
    /\ pc = "nodes"
    /\ \/ pc' = "each" /\ todo' = Nodes /\ UNCHANGED <<held, calm>>
       \/ pc' = "routers" /\ UNCHANGED todo /\ Fails(<<"nodes">>)
    /\ UNCHANGED <<timer, gateVars, visiting, readerVars>>

\* Mutant of NodeStatus: a failed status ends the loop.
NodeStatusBreaks(n) ==
    /\ pc = "each" /\ n \in todo
    /\ \/ /\ Delivers(<<"status", n>>)
          /\ todo' = todo \ {n}
          /\ IF n \in EdgeNodes THEN pc' = "ifaces" /\ visiting' = {n}
                                ELSE UNCHANGED <<pc, visiting>>
       \/ Fails(<<"status", n>>) /\ todo' = {} /\ UNCHANGED <<pc, visiting>>
    /\ UNCHANGED <<timer, gateVars, readerVars>>

\* One turn of the loop: a node whose status fails is left out of this cycle.
NodeStatus(n) ==
    /\ pc = "each" /\ n \in todo
    /\ todo' = todo \ {n}
    /\ \/ /\ Delivers(<<"status", n>>)
          /\ IF n \in EdgeNodes THEN pc' = "ifaces" /\ visiting' = {n}
                                ELSE UNCHANGED <<pc, visiting>>
       \/ Fails(<<"status", n>>) /\ UNCHANGED <<pc, visiting>>
    /\ UNCHANGED <<timer, gateVars, readerVars>>

NodeInterfaces(n) ==
    /\ pc = "ifaces" /\ visiting = {n}
    /\ \/ pc' = "stats" /\ UNCHANGED <<held, calm, visiting>>
       \/ pc' = "each" /\ visiting' = {} /\ Fails(<<"uplink", n>>)
    /\ UNCHANGED <<timer, gateVars, todo, readerVars>>

InterfaceStats(n) ==
    /\ pc = "stats" /\ visiting = {n}
    /\ pc' = "each"
    /\ visiting' = {}
    /\ Delivers(<<"uplink", n>>) \/ Fails(<<"uplink", n>>)
    /\ UNCHANGED <<timer, gateVars, todo, readerVars>>

NodesDone ==
    /\ pc = "each" /\ todo = {}
    /\ pc' = "routers"
    /\ UNCHANGED <<timer, gateVars, loopVars, held, calm, readerVars>>

\* Mutant of LogicalRouters: the slow sections run in every cycle.
LogicalRoutersUngated == Section("routers", "alarms")

LogicalRouters == Section("routers", IF runSlow THEN "alarms" ELSE "writeCapacity")

Alarms == Section("alarms", "usage")
CapacityUsage == Section("usage", "lbCredits")
NSServices == Section("services", "writeCapacity")

-----------------------------------------------------------------------------
(* The sections of CapacityCollector.Collect, between usage and services. *)

LBCredits == Section("lbCredits", "tier0s")

\* Without the Tier-0s, and then without the Tier-1s, it returns what it has.
Tier0s ==
    /\ pc = "tier0s"
    /\ \/ pc' = "tier1s" /\ UNCHANGED <<held, calm>>
       \/ pc' = "services" /\ Fails(<<"tier0s">>)
    /\ UNCHANGED <<timer, gateVars, loopVars, readerVars>>

\* The counts per VRF, per T0 and of the site follow from the two listings.
Tier1s ==
    /\ pc = "tier1s"
    /\ \/ pc' = "segments" /\ DeliversAll({<<"perGateway">>, <<"siteTotals">>})
       \/ pc' = "services" /\ Fails(<<"tier1s">>)
    /\ UNCHANGED <<timer, gateVars, loopVars, readerVars>>

\* A section behind a switch of the configuration.
Optional(at, next) ==
    \/ at \in Extras /\ Section(at, next)
    \/ /\ at \notin Extras /\ pc = at
       /\ pc' = next
       /\ UNCHANGED <<timer, gateVars, loopVars, held, calm, readerVars>>

Segments == Optional("segments", "policies")
GatewayPolicies == Optional("policies", "groups")
Groups == Optional("groups", "nat")
NATPerT1 == Optional("nat", "services")

CapacityCollect ==
    LBCredits \/ Tier0s \/ Tier1s \/ Segments \/ GatewayPolicies \/ Groups \/ NATPerT1

-----------------------------------------------------------------------------
(* The two writes. *)

\* A batch reaches InfluxDB: its points are as old as the cycle.  A reader of
\* change events takes up the new one, or stays with one no check has met.
Stores ==
    /\ held' = FALSE
    /\ \/ /\ shownAge' = IF held THEN Cap(timer) ELSE shownAge
          /\ IF held /\ panel = Change
             THEN unseen' = TRUE /\ storedAge' = Cap(timer) /\ checkFailed' = FALSE
             ELSE UNCHANGED eventVars
       \/ panel = Change /\ unseen /\ UNCHANGED <<shownAge, eventVars>>

\* Mutant of WriteCapacity: a failed capacity write ends the cycle.
WriteCapacityReturns ==
    /\ pc = "writeCapacity"
    /\ \/ /\ pc' = "write"
          /\ IF panel \in CapacityKinds THEN Stores ELSE UNCHANGED <<held, shownAge, eventVars>>
          /\ UNCHANGED calm
       \/ /\ runSlow
          /\ pc' = "wait"
          /\ Fails(<<"writeCapacity">>)
          /\ UNCHANGED <<shownAge, eventVars>>
    /\ UNCHANGED <<timer, gateVars, loopVars, checkTimer, panel>>

\* Without slow sections the batch is empty, and nothing is called.
WriteCapacity ==
    /\ pc = "writeCapacity"
    /\ pc' = "write"
    /\ \/ /\ IF panel \in CapacityKinds THEN Stores ELSE UNCHANGED <<held, shownAge, eventVars>>
          /\ UNCHANGED calm
       \/ runSlow /\ Fails(<<"writeCapacity">>) /\ UNCHANGED <<shownAge, eventVars>>
    /\ UNCHANGED <<timer, gateVars, loopVars, checkTimer, panel>>

Write ==
    /\ pc = "write"
    /\ pc' = "wait"
    /\ \/ /\ IF panel \notin CapacityKinds THEN Stores ELSE UNCHANGED <<held, shownAge, eventVars>>
          /\ UNCHANGED calm
       \/ Fails(<<"write">>) /\ UNCHANGED <<shownAge, eventVars>>
    /\ UNCHANGED <<timer, gateVars, loopVars, checkTimer, panel>>

Collect ==
    \/ CollectHA \/ ClusterStatus \/ Managers \/ TransportNodes \/ NodesDone
    \/ \E n \in Nodes : NodeStatus(n) \/ NodeInterfaces(n) \/ InterfaceStats(n)
    \/ LogicalRouters \/ Alarms \/ CapacityUsage \/ CapacityCollect \/ NSServices
    \/ WriteCapacity \/ Write

-----------------------------------------------------------------------------
(* The scheduler, the process, the clock and the check. *)

\* The slowest worker of the round is done: a fresh timer is armed.
EndRound ==
    /\ pc = "wait"
    /\ pc' = "sleep"
    /\ timer' = 0
    /\ UNCHANGED <<gateVars, loopVars, held, calm, readerVars>>

Stop ==
    /\ pc # "down"
    /\ pc' = "down"
    /\ timer' = Interval
    /\ slowAge' = Old /\ haAge' = Old
    /\ runSlow' = FALSE /\ todo' = {} /\ visiting' = {} /\ held' = FALSE
    /\ calm' = 0
    /\ UNCHANGED readerVars

\* The first round runs at once.
Restart ==
    /\ pc = "down"
    /\ pc' = "sleep"
    /\ calm' = 0
    /\ UNCHANGED <<timer, gateVars, loopVars, held, readerVars>>

\* How long a stage may last.
Limit ==
    CASE pc \in Sections -> MaxCycle
      [] pc = "wait" -> MaxRound
      [] OTHER -> Interval

Tick ==
    /\ pc # "down" => timer < Limit
    /\ checkTimer < CheckPeriod
    /\ timer' = IF pc = "down" THEN timer ELSE timer + 1
    /\ slowAge' = Cap(slowAge + 1)
    /\ haAge' = Cap(haAge + 1)
    /\ shownAge' = Cap(shownAge + 1)
    /\ calm' = IF pc = "down" THEN 0 ELSE Cap(calm + 1)
    /\ checkTimer' = checkTimer + 1
    /\ UNCHANGED <<pc, runSlow, loopVars, held, panel, eventVars>>

CheckIsDue == checkTimer = CheckPeriod /\ checkTimer' = 0

\* Mutant of Check: a window no longer than half the period between checks.
CheckShortWindow ==
    /\ CheckIsDue
    /\ IF 2 * shownAge <= CheckPeriod
       THEN unseen' = FALSE /\ storedAge' = 0 /\ checkFailed' = FALSE
       ELSE UNCHANGED eventVars
    /\ UNCHANGED <<pc, timer, gateVars, loopVars, held, calm, panel, shownAge>>

\* The check raises CRIT if a change event lies in the window.
Check ==
    /\ CheckIsDue
    /\ IF shownAge <= Window
       THEN unseen' = FALSE /\ storedAge' = 0 /\ checkFailed' = FALSE
       ELSE UNCHANGED eventVars
    /\ UNCHANGED <<pc, timer, gateVars, loopVars, held, calm, panel, shownAge>>

\* An error or a timeout of curl is discarded, and the empty answer is taken
\* for no event.
CheckFails ==
    /\ CheckIsDue
    /\ checkFailed' = unseen
    /\ UNCHANGED <<pc, timer, gateVars, loopVars, held, calm, panel, shownAge, unseen, storedAge>>

-----------------------------------------------------------------------------
Next == StartCycle \/ Collect \/ EndRound \/ Stop \/ Restart \/ Tick \/ Check \/ CheckFails

Spec == Init /\ [][Next]_vars

-----------------------------------------------------------------------------
(* Properties. *)

\* Every variable holds a value of its type, the worker is in a slow section
\* only behind the slow gate, and it reads the interfaces of one edge node.
TypeOK ==
    /\ pc \in Sections \cup {"wait", "sleep", "down"}
    /\ timer \in Nat /\ checkTimer \in 0..CheckPeriod
    /\ slowAge \in 0..Old /\ haAge \in 0..Old /\ shownAge \in 0..Old /\ calm \in 0..Old
    /\ runSlow \in BOOLEAN /\ held \in BOOLEAN
    /\ unseen \in BOOLEAN /\ storedAge \in 0..Old /\ checkFailed \in BOOLEAN
    /\ todo \subseteq Nodes /\ visiting \subseteq Nodes
    /\ panel \in Kinds
    /\ pc \in SlowSections => runSlow
    /\ IF pc \in {"ifaces", "stats"} THEN \E n \in EdgeNodes : visiting = {n} ELSE visiting = {}

\* A panel is never staler than its cadence allows unless something its own
\* points depend on failed: the failure of another section, of another node or
\* of the other bucket costs it nothing, nor does a gate that just missed a
\* round or a round prolonged by another site (worker.go:90-316, capacity.go:74-362).
Fresh ==
    panel # Change /\ calm > Bound(panel) => shownAge <= Bound(panel)

\* A change event that was stored leaves the window unseen only for one of two
\* reasons: a check failed in the meantime (checkmk-nsx-ha.sh:51-59), or the
\* cycle that found it, whose start it is stamped with, took so long that the
\* next check could come too late for it (worker.go:305-309, config.go:185).
\* Neither a later event nor a restart, a failed section or a long round does it.
ChangeAlerted ==
    unseen /\ shownAge > Window => checkFailed \/ storedAge + CheckPeriod > Window
=============================================================================
