----------------------------- MODULE WorkerProofs -----------------------------
(***************************************************************************)
(* Theorems about Worker, for any nodes, intervals, cycle lengths and      *)
(* switches.                                                               *)
(***************************************************************************)
EXTENDS Worker, TLAPS

Places == Sections \cup {"wait", "sleep", "down"}

LEMMA OldNat == Old \in Nat
  BY ConstantsAssumption, SMT DEF Old, Period

\* Ages stay below the cap, and capping makes nothing older.
LEMMA CapType ==
    ASSUME NEW age \in Nat
    PROVE  Cap(age) \in 0..Old /\ Cap(age) <= age
  BY OldNat DEF Cap

\* What a call does is well typed.
LEMMA CallType ==
    ASSUME TypeOK, NEW kinds, NEW call,
           DeliversAll(kinds) \/ Fails(call)
    PROVE  held' \in BOOLEAN /\ calm' \in 0..Old
  <1>1. CASE DeliversAll(kinds)
    <2>1. held' = (held \/ panel \in kinds) /\ calm' = calm
      BY <1>1 DEF DeliversAll
    <2>2. held' \in BOOLEAN
      BY <2>1, ZenonT(20)
    <2>. QED
      BY <2>1, <2>2 DEF TypeOK
  <1>2. CASE Fails(call)
    <2>1. held' = held /\ calm' = (IF call \in Chain(panel) THEN 0 ELSE calm)
      BY <1>2 DEF Fails
    <2>. QED
      BY <2>1, OldNat DEF TypeOK
  <1>. QED
    BY <1>1, <1>2

\* A usual section leads to a well-typed state.
LEMMA SectionType ==
    ASSUME TypeOK, NEW at \in Sections \ {"ifaces", "stats"}, NEW next \in Places \ {"ifaces", "stats"},
           Section(at, next), next \in SlowSections => runSlow
    PROVE  TypeOK'
  <1>1. held' \in BOOLEAN /\ calm' \in 0..Old
    BY CallType DEF Section, Delivers
  <1>2. /\ pc = at /\ pc' = next
        /\ UNCHANGED <<timer, slowAge, haAge, runSlow, todo, visiting>>
        /\ UNCHANGED <<checkTimer, panel, shownAge, unseen, storedAge, checkFailed>>
    BY DEF Section, gateVars, loopVars, readerVars, eventVars
  <1>3. visiting' = {}
    BY <1>2 DEF TypeOK
  <1>. QED
    BY <1>1, <1>2, <1>3 DEF TypeOK, Places

-----------------------------------------------------------------------------
(* Type correctness. *)

LEMMA InitType == Init => TypeOK
  <1>1. Old \in 0..Old /\ 0 \in 0..Old /\ 0 \in 0..CheckPeriod /\ Interval \in Nat
    BY OldNat, ConstantsAssumption
  <1>. QED
    BY <1>1 DEF Init, TypeOK, SlowSections

\* Steps of the transport-node loop.
LEMMA LoopType ==
    ASSUME TypeOK, NEW n \in Nodes,
           NodeStatus(n) \/ NodeInterfaces(n) \/ InterfaceStats(n)
    PROVE  TypeOK'
  <1>1. CASE NodeStatus(n)
    <2>1. /\ UNCHANGED <<timer, slowAge, haAge, runSlow>>
          /\ UNCHANGED <<checkTimer, panel, shownAge, unseen, storedAge, checkFailed>>
          /\ todo' = todo \ {n}
      BY <1>1 DEF NodeStatus, gateVars, readerVars, eventVars
    <2>2. held' \in BOOLEAN /\ calm' \in 0..Old
      BY <1>1, CallType DEF NodeStatus, Delivers
    <2>3. \/ pc' = "ifaces" /\ visiting' = {n} /\ n \in EdgeNodes
          \/ pc' = "each" /\ visiting' = {}
      BY <1>1 DEF NodeStatus, TypeOK
    <2>. QED
      BY <2>1, <2>2, <2>3 DEF TypeOK, Sections, SlowSections
  <1>2. CASE NodeInterfaces(n)
    <2>1. /\ UNCHANGED <<timer, slowAge, haAge, runSlow, todo>>
          /\ UNCHANGED <<checkTimer, panel, shownAge, unseen, storedAge, checkFailed>>
      BY <1>2 DEF NodeInterfaces, gateVars, readerVars, eventVars
    <2>2. held' \in BOOLEAN /\ calm' \in 0..Old
      BY <1>2, CallType DEF NodeInterfaces, TypeOK
    <2>3. \/ pc' = "stats" /\ visiting' = visiting /\ pc = "ifaces"
          \/ pc' = "each" /\ visiting' = {}
      BY <1>2 DEF NodeInterfaces
    <2>. QED
      BY <2>1, <2>2, <2>3 DEF TypeOK, Sections, SlowSections
  <1>3. CASE InterfaceStats(n)
    <2>1. /\ UNCHANGED <<timer, slowAge, haAge, runSlow, todo>>
          /\ UNCHANGED <<checkTimer, panel, shownAge, unseen, storedAge, checkFailed>>
          /\ pc' = "each" /\ visiting' = {}
      BY <1>3 DEF InterfaceStats, gateVars, readerVars, eventVars
    <2>2. held' \in BOOLEAN /\ calm' \in 0..Old
      BY <1>3, CallType DEF InterfaceStats, Delivers
    <2>. QED
      BY <2>1, <2>2 DEF TypeOK, Sections, SlowSections
  <1>. QED
    BY <1>1, <1>2, <1>3

\* Sections behind a switch.
LEMMA OptionalType ==
    ASSUME TypeOK, NEW at \in SlowSections, NEW next \in SlowSections, Optional(at, next)
    PROVE  TypeOK'
  <1>1. CASE Section(at, next)
    <2>1. runSlow
      BY <1>1 DEF Section, TypeOK
    <2>. QED
      BY <1>1, <2>1, SectionType DEF SlowSections, Sections, Places
  <1>2. CASE /\ pc = at /\ pc' = next
             /\ UNCHANGED <<timer, gateVars, loopVars, held, calm, readerVars>>
    BY <1>2 DEF TypeOK, SlowSections, Sections, gateVars, loopVars, readerVars, eventVars
  <1>. QED
    BY <1>1, <1>2 DEF Optional

LEMMA CapacityType ==
    ASSUME TypeOK, CapacityCollect
    PROVE  TypeOK'
  <1>1. CASE LBCredits
    <2>1. pc = "lbCredits" /\ runSlow
      BY <1>1 DEF LBCredits, Section, TypeOK, SlowSections
    <2>. QED
      BY <1>1, <2>1, SectionType DEF LBCredits, Sections, Places
  <1>2. CASE Tier0s \/ Tier1s
    <2>1. /\ UNCHANGED <<timer, slowAge, haAge, runSlow, todo, visiting>>
          /\ UNCHANGED <<checkTimer, panel, shownAge, unseen, storedAge, checkFailed>>
      BY <1>2 DEF Tier0s, Tier1s, gateVars, loopVars, readerVars, eventVars
    <2>2. held' \in BOOLEAN /\ calm' \in 0..Old
      BY <1>2, CallType DEF Tier0s, Tier1s, TypeOK
    <2>3. pc \in {"tier0s", "tier1s"} /\ pc' \in {"tier1s", "segments", "services"}
      BY <1>2 DEF Tier0s, Tier1s
    <2>. QED
      BY <2>1, <2>2, <2>3 DEF TypeOK, Sections, SlowSections
  <1>3. CASE Segments \/ GatewayPolicies \/ Groups \/ NATPerT1
    BY <1>3, OptionalType DEF Segments, GatewayPolicies, Groups, NATPerT1, SlowSections
  <1>. QED
    BY <1>1, <1>2, <1>3 DEF CapacityCollect

\* The two writes.
LEMMA WriteType ==
    ASSUME TypeOK, WriteCapacity \/ Write
    PROVE  TypeOK'
  <1>1. /\ UNCHANGED <<timer, slowAge, haAge, runSlow, todo, visiting>>
        /\ UNCHANGED <<checkTimer, panel>>
        /\ pc \in {"writeCapacity", "write"} /\ pc' \in {"write", "wait"}
    BY DEF WriteCapacity, Write, gateVars, loopVars
  <1>2. /\ held' \in BOOLEAN /\ shownAge' \in 0..Old /\ calm' \in 0..Old
        /\ unseen' \in BOOLEAN /\ storedAge' \in 0..Old /\ checkFailed' \in BOOLEAN
    <2>1. CASE Stores /\ calm' = calm
      BY <2>1, CapType DEF Stores, TypeOK, eventVars
    <2>2. CASE UNCHANGED <<held, shownAge, eventVars, calm>>
      BY <2>2 DEF TypeOK, eventVars
    <2>3. CASE \E call : Fails(call) /\ UNCHANGED <<shownAge, eventVars>>
      BY <2>3, CallType DEF TypeOK, eventVars
    <2>4. ASSUME UNCHANGED calm, NEW p,
                 IF p THEN Stores ELSE UNCHANGED <<held, shownAge, eventVars>>
          PROVE  (Stores /\ calm' = calm) \/ UNCHANGED <<held, shownAge, eventVars, calm>>
      BY <2>4
    <2>5. CASE WriteCapacity
      BY <2>1, <2>2, <2>3, <2>4, <2>5 DEF WriteCapacity
    <2>6. CASE Write
      BY <2>1, <2>2, <2>3, <2>4, <2>6 DEF Write
    <2>. QED
      BY <2>5, <2>6
  <1>. QED
    BY <1>1, <1>2 DEF TypeOK, Sections, SlowSections

\* Starting a cycle, the HA section and the sections every cycle has.
LEMMA CommonType ==
    ASSUME TypeOK,
           \/ StartCycle \/ CollectHA \/ ClusterStatus \/ Managers \/ TransportNodes
           \/ NodesDone \/ LogicalRouters \/ Alarms \/ CapacityUsage \/ NSServices
    PROVE  TypeOK'
  <1>1. CASE StartCycle
    <2>1. /\ UNCHANGED <<haAge, todo, visiting, calm>>
          /\ UNCHANGED <<checkTimer, panel, shownAge, unseen, storedAge, checkFailed>>
          /\ pc = "sleep" /\ timer' = 0 /\ held' = FALSE /\ pc' \in {"ha", "cluster"}
      BY <1>1 DEF StartCycle, loopVars, readerVars, eventVars
    <2>2. runSlow' \in BOOLEAN /\ slowAge' \in 0..Old
      BY <1>1, OldNat DEF StartCycle, TypeOK
    <2>. QED
      BY <2>1, <2>2 DEF TypeOK, Sections, SlowSections
  <1>2. CASE CollectHA
    <2>1. /\ UNCHANGED <<timer, slowAge, runSlow, todo, visiting>>
          /\ UNCHANGED <<checkTimer, panel, shownAge, unseen, storedAge, checkFailed>>
          /\ pc = "ha" /\ pc' = "cluster" /\ haAge' = Cap(timer)
      BY <1>2 DEF CollectHA, loopVars, readerVars, eventVars
    <2>2. held' \in BOOLEAN /\ calm' \in 0..Old
      BY <1>2, CallType DEF CollectHA, Delivers
    <2>3. haAge' \in 0..Old
      BY <2>1, CapType DEF TypeOK
    <2>. QED
      BY <2>1, <2>2, <2>3 DEF TypeOK, Sections, SlowSections
  <1>3. CASE ClusterStatus
    <2>1. /\ UNCHANGED <<timer, slowAge, haAge, runSlow, todo, visiting>>
          /\ UNCHANGED <<checkTimer, panel, shownAge, unseen, storedAge, checkFailed>>
          /\ pc = "cluster" /\ pc' \in {"managers", "nodes"}
      BY <1>3 DEF ClusterStatus, gateVars, loopVars, readerVars, eventVars
    <2>2. held' \in BOOLEAN /\ calm' \in 0..Old
      BY <1>3, CallType DEF ClusterStatus, Delivers
    <2>. QED
      BY <2>1, <2>2 DEF TypeOK, Sections, SlowSections
  <1>4. CASE TransportNodes
    <2>1. /\ UNCHANGED <<timer, slowAge, haAge, runSlow, visiting>>
          /\ UNCHANGED <<checkTimer, panel, shownAge, unseen, storedAge, checkFailed>>
          /\ pc = "nodes" /\ pc' \in {"each", "routers"} /\ todo' \subseteq Nodes
      BY <1>4 DEF TransportNodes, gateVars, readerVars, eventVars, TypeOK
    <2>2. held' \in BOOLEAN /\ calm' \in 0..Old
      BY <1>4, CallType DEF TransportNodes, TypeOK
    <2>. QED
      BY <2>1, <2>2 DEF TypeOK, Sections, SlowSections
  <1>5. CASE NodesDone
    BY <1>5 DEF NodesDone, TypeOK, gateVars, loopVars, readerVars, eventVars, Sections, SlowSections
  <1>6. CASE Managers \/ LogicalRouters
    BY <1>6, SectionType DEF Managers, LogicalRouters, Sections, SlowSections, Places
  <1>7. CASE Alarms \/ CapacityUsage \/ NSServices
    <2>1. runSlow
      BY <1>7 DEF Alarms, CapacityUsage, NSServices, Section, TypeOK, SlowSections
    <2>. QED
      BY <1>7, <2>1, SectionType DEF Alarms, CapacityUsage, NSServices, Sections, Places
  <1>. QED
    BY <1>1, <1>2, <1>3, <1>4, <1>5, <1>6, <1>7

\* The scheduler, the process, the clock and the check.
LEMMA AroundType ==
    ASSUME TypeOK, EndRound \/ Stop \/ Restart \/ Tick \/ Check \/ CheckFails
    PROVE  TypeOK'
  <1>1. CASE EndRound
    BY <1>1 DEF EndRound, TypeOK, gateVars, loopVars, readerVars, eventVars, Sections, SlowSections
  <1>2. CASE Stop
    <2>1. Interval \in Nat /\ Old \in 0..Old /\ 0 \in 0..Old
      BY OldNat, ConstantsAssumption
    <2>2. /\ pc' = "down" /\ timer' = Interval /\ slowAge' = Old /\ haAge' = Old
          /\ runSlow' = FALSE /\ todo' = {} /\ visiting' = {} /\ held' = FALSE /\ calm' = 0
          /\ UNCHANGED <<checkTimer, panel, shownAge, unseen, storedAge, checkFailed>>
      BY <1>2 DEF Stop, readerVars, eventVars
    <2>. QED
      BY <2>1, <2>2 DEF TypeOK, SlowSections
  <1>3. CASE Restart
    BY <1>3, OldNat DEF Restart, TypeOK, gateVars, loopVars, readerVars, eventVars, Sections, SlowSections
  <1>4. CASE Tick
    <2>1. UNCHANGED <<pc, runSlow, todo, visiting, held, panel, unseen, storedAge, checkFailed>>
      BY <1>4 DEF Tick, loopVars, eventVars
    <2>2. /\ slowAge' \in 0..Old /\ haAge' \in 0..Old /\ shownAge' \in 0..Old
          /\ calm' \in 0..Old
      <3>1. slowAge + 1 \in Nat /\ haAge + 1 \in Nat /\ shownAge + 1 \in Nat /\ calm + 1 \in Nat
        BY DEF TypeOK
      <3>. QED
        BY <1>4, <3>1, CapType, OldNat DEF Tick
    <2>3. timer' \in Nat /\ checkTimer' \in 0..CheckPeriod
      BY <1>4, ConstantsAssumption DEF Tick, TypeOK
    <2>. QED
      BY <2>1, <2>2, <2>3 DEF TypeOK
  <1>5. CASE Check \/ CheckFails
    <2>1. /\ UNCHANGED <<pc, timer, slowAge, haAge, runSlow, todo, visiting, held, calm, panel, shownAge>>
          /\ checkTimer' = 0
      BY <1>5 DEF Check, CheckFails, CheckIsDue, gateVars, loopVars
    <2>2. unseen' \in BOOLEAN /\ storedAge' \in 0..Old /\ checkFailed' \in BOOLEAN
      <3>1. CASE Check
        <4>1. \/ unseen' = FALSE /\ storedAge' = 0 /\ checkFailed' = FALSE
              \/ unseen' = unseen /\ storedAge' = storedAge /\ checkFailed' = checkFailed
          BY <3>1 DEF Check, eventVars
        <4>2. 0 \in 0..Old
          BY OldNat
        <4>. QED
          BY <4>1, <4>2, Zenon DEF TypeOK
      <3>2. CASE CheckFails
        BY <3>2 DEF CheckFails, TypeOK
      <3>. QED
        BY <1>5, <3>1, <3>2
    <2>3. checkTimer' \in 0..CheckPeriod
      BY <2>1, ConstantsAssumption
    <2>. QED
      BY <2>1, <2>2, <2>3 DEF TypeOK
  <1>. QED
    BY <1>1, <1>2, <1>3, <1>4, <1>5

LEMMA StepType == TypeOK /\ [Next]_vars => TypeOK'
  <1>. SUFFICES ASSUME TypeOK, [Next]_vars PROVE TypeOK'
    OBVIOUS
  <1>1. CASE UNCHANGED vars
    BY <1>1 DEF TypeOK, vars
  <1>2. CASE Next
    BY <1>2, CommonType, LoopType, CapacityType, WriteType, AroundType DEF Next, Collect
  <1>. QED
    BY <1>1, <1>2

\* The worker is always well typed, in a slow section only behind the slow
\* gate, and on the interfaces of one edge node at a time.
THEOREM TypeCorrect == Spec => []TypeOK
  BY InitType, StepType, PTL DEF Spec

-----------------------------------------------------------------------------
(* The HA check and the change events. *)

\* An event no check has met is no older than when it was stored and the last
\* check together, unless a check failed or came too late for it.
AlertInv ==
    unseen =>
        /\ panel = Change
        /\ \/ checkFailed
           \/ storedAge + CheckPeriod > Window
           \/ shownAge <= storedAge + checkTimer

\* Sections neither take time nor touch the store.
LEMMA SectionsAlert ==
    ASSUME TypeOK, AlertInv,
           \/ CollectHA \/ ClusterStatus \/ Managers \/ TransportNodes \/ NodesDone
           \/ \E n \in Nodes : NodeStatus(n) \/ NodeInterfaces(n) \/ InterfaceStats(n)
           \/ LogicalRouters \/ Alarms \/ CapacityUsage \/ CapacityCollect \/ NSServices
    PROVE  AlertInv'
  <1>1. UNCHANGED <<checkTimer, panel, shownAge, unseen, storedAge, checkFailed>>
    <2>1. CASE \/ CollectHA \/ ClusterStatus \/ TransportNodes \/ NodesDone
      BY <2>1 DEF CollectHA, ClusterStatus, TransportNodes, NodesDone, readerVars, eventVars, Sections
    <2>2. CASE \E n \in Nodes : NodeStatus(n) \/ NodeInterfaces(n) \/ InterfaceStats(n)
      BY <2>2 DEF NodeStatus, NodeInterfaces, InterfaceStats, readerVars, eventVars, Sections
    <2>3. CASE Tier0s \/ Tier1s
      BY <2>3 DEF Tier0s, Tier1s, readerVars, eventVars, Sections
    <2>4. ASSUME NEW at \in Sections, NEW next, Section(at, next) \/ Optional(at, next)
          PROVE  UNCHANGED <<checkTimer, panel, shownAge, unseen, storedAge, checkFailed>>
      BY <2>4 DEF Section, Optional, readerVars, eventVars
    <2>5. CASE Managers \/ LogicalRouters \/ Alarms \/ CapacityUsage \/ NSServices \/ LBCredits
      BY <2>4, <2>5
         DEF Managers, LogicalRouters, Alarms, CapacityUsage, NSServices, LBCredits, Sections
    <2>6. CASE Segments \/ GatewayPolicies \/ Groups \/ NATPerT1
      BY <2>4, <2>6 DEF Segments, GatewayPolicies, Groups, NATPerT1, Sections
    <2>. QED
      BY <2>1, <2>2, <2>3, <2>5, <2>6 DEF CapacityCollect
  <1>. QED
    BY <1>1 DEF AlertInv

\* An event is stored at the age of its cycle, and the next check is due.
LEMMA WriteAlert ==
    ASSUME TypeOK, AlertInv, WriteCapacity \/ Write
    PROVE  AlertInv'
  <1>1. UNCHANGED <<timer, checkTimer, panel>> /\ checkTimer \in Nat
    BY DEF WriteCapacity, Write, TypeOK
  <1>2. \/ held /\ panel = Change /\ shownAge' = Cap(timer) /\ storedAge' = Cap(timer)
        \/ panel # Change /\ unseen' = unseen
        \/ UNCHANGED <<shownAge, unseen, storedAge, checkFailed>>
    <2>1. CASE Stores
      BY <2>1 DEF Stores, eventVars
    <2>2. CASE shownAge' = shownAge /\ eventVars' = eventVars
      BY <2>2 DEF eventVars
    <2>3. Stores \/ (shownAge' = shownAge /\ eventVars' = eventVars)
      BY DEF WriteCapacity, Write
    <2>. QED
      BY <2>1, <2>2, <2>3
  <1>3. Cap(timer) \in Nat
    BY CapType DEF TypeOK
  <1>4. CASE held /\ panel = Change /\ shownAge' = Cap(timer) /\ storedAge' = Cap(timer)
    <2>1. shownAge' <= storedAge' + checkTimer'
      BY <1>1, <1>3, <1>4
    <2>. QED
      BY <1>1, <1>4, <2>1 DEF AlertInv
  <1>5. CASE panel # Change /\ unseen' = unseen
    BY <1>5 DEF AlertInv
  <1>6. CASE UNCHANGED <<shownAge, unseen, storedAge, checkFailed>>
    BY <1>1, <1>6 DEF AlertInv
  <1>. QED
    BY <1>2, <1>4, <1>5, <1>6

\* The check meets what is in the window; nothing else takes an event away.
LEMMA AroundAlert ==
    ASSUME TypeOK, AlertInv,
           StartCycle \/ EndRound \/ Stop \/ Restart \/ Tick \/ Check \/ CheckFails
    PROVE  AlertInv'
  <1>1. CASE StartCycle \/ EndRound \/ Stop \/ Restart
    <2>1. UNCHANGED <<checkTimer, panel, shownAge, unseen, storedAge, checkFailed>>
      BY <1>1 DEF StartCycle, EndRound, Stop, Restart, readerVars, eventVars
    <2>. QED
      BY <2>1 DEF AlertInv
  <1>2. CASE Tick
    <2>1. /\ UNCHANGED <<panel, unseen, storedAge, checkFailed>>
          /\ checkTimer' = checkTimer + 1 /\ shownAge' = Cap(shownAge + 1)
      BY <1>2 DEF Tick, eventVars
    <2>2. shownAge' \in Nat /\ shownAge' <= shownAge + 1
      BY <2>1, CapType, OldNat DEF TypeOK
    <2>. QED
      BY <2>1, <2>2 DEF AlertInv, TypeOK
  <1>3. CASE Check
    <2>1. /\ UNCHANGED <<panel, shownAge>> /\ checkTimer = CheckPeriod
          /\ IF shownAge <= Window THEN unseen' = FALSE ELSE eventVars' = eventVars
      BY <1>3 DEF Check, CheckIsDue
    <2>2. CASE shownAge <= Window
      BY <2>1, <2>2 DEF AlertInv
    <2>3. CASE ~(shownAge <= Window)
      <3>1. UNCHANGED <<unseen, storedAge, checkFailed>>
        BY <2>1, <2>3 DEF eventVars
      <3>. QED
        BY <2>1, <2>3, <3>1, OldNat, ConstantsAssumption DEF AlertInv, TypeOK
    <2>. QED
      BY <2>2, <2>3
  <1>4. CASE CheckFails
    BY <1>4 DEF CheckFails, AlertInv
  <1>. QED
    BY <1>1, <1>2, <1>3, <1>4

\* For any intervals and cycle lengths, whatever fails and whenever the process
\* restarts, a stored change event leaves the window unseen only if a check
\* failed or the cycle that found it left too little of the window.
THEOREM Alerted == Spec => []ChangeAlerted
  <1>1. Init => AlertInv
    BY DEF Init, AlertInv
  <1>2. TypeOK /\ AlertInv /\ [Next]_vars => AlertInv'
    <2>. SUFFICES ASSUME TypeOK, AlertInv, [Next]_vars PROVE AlertInv'
      OBVIOUS
    <2>1. CASE UNCHANGED vars
      BY <2>1 DEF AlertInv, vars
    <2>2. CASE Next
      BY <2>2, SectionsAlert, WriteAlert, AroundAlert DEF Next, Collect
    <2>. QED
      BY <2>1, <2>2
  <1>3. TypeOK /\ AlertInv => ChangeAlerted
    BY ConstantsAssumption DEF TypeOK, AlertInv, ChangeAlerted
  <1>. QED
    BY <1>1, <1>2, <1>3, TypeCorrect, PTL DEF Spec

-----------------------------------------------------------------------------
(* No panel is staler than its cadence allows: the inductive invariant of  *)
(* Fresh.                                                                  *)

\* How much later than the next cycle a gate may let the panel's kind through.
Slack ==
    IF panel \in SlowKinds THEN SlowInterval - 1 ELSE IF panel = <<"ha">> THEN HAInterval - 1 ELSE 0

\* The most that passed since the last cycle began, and since the last cycle
\* that the panel's gate let through did.
Elapsed == IF pc = "sleep" THEN MaxRound + timer ELSE timer
GateAge ==
    IF panel \in SlowKinds THEN slowAge ELSE IF panel = <<"ha">> THEN haAge ELSE Elapsed

\* If nothing failed for longer than age, what is shown is no older than that.
NoOlder(age) == calm > age => shownAge <= age

\* The order of the sections, and the section that delivers a kind.
Pos(name) ==
    CASE name = "ha" -> 1
      [] name = "cluster" -> 2
      [] name = "managers" -> 3
      [] name \in {"nodes", "status", "uplink"} -> 4
      [] name \in {"each", "ifaces", "stats"} -> 5
      [] name = "routers" -> 6
      [] name = "alarms" -> 7
      [] name = "usage" -> 8
      [] name = "lbCredits" -> 9
      [] name = "tier0s" -> 10
      [] name \in {"tier1s", "perGateway", "siteTotals"} -> 11
      [] name = "segments" -> 12
      [] name = "policies" -> 13
      [] name = "groups" -> 14
      [] name = "nat" -> 15
      [] name = "services" -> 16
      [] name = "writeCapacity" -> 17
      [] name = "write" -> 18

\* The panel's kind is yet to be collected in this cycle.
Ahead ==
    \/ Pos(pc) <= Pos(panel[1])
    \/ /\ pc \in {"each", "ifaces", "stats"}
       /\ \/ panel[1] \in {"status", "uplink"} /\ panel[2] \in todo
          \/ panel[1] = "uplink" /\ visiting = {panel[2]}

\* A cycle that the panel's gate let through, up to the write: what is shown
\* is that of the cycle before, and unless something failed since this one
\* began, a new point is on its way.
Pending ==
    /\ NoOlder(timer + Slack + Period)
    /\ calm > timer => Ahead \/ held
    /\ panel \in SlowKinds => runSlow /\ slowAge = timer
    /\ panel \in CapacityKinds => pc # "write"
    /\ panel = <<"ha">> => pc = "ha" \/ haAge = timer

\* A cycle that the gate did not let through, or one after the write.
Quiet ==
    /\ panel \in SlowKinds \cup {<<"ha">>}
    /\ panel \in SlowKinds => ~runSlow \/ (panel \in CapacityKinds /\ pc = "write")
    /\ panel = <<"ha">> => pc # "ha"
    /\ held => panel \in CapacityKinds /\ pc = "write"
    /\ NoOlder(GateAge)
    /\ GateAge <= Slack + timer

\* Between the writes of two cycles, unless the process has just started.
Idle ==
    /\ NoOlder(GateAge)
    /\ GateAge <= Slack + Elapsed

JustStarted == pc = "sleep" /\ timer = Interval /\ calm = 0

FreshInv ==
    /\ pc # "down" => timer <= Limit
    /\ pc = "down" => timer = Interval /\ calm = 0
    /\ pc \in Sections => Pending \/ Quiet
    /\ pc \in {"sleep", "wait"} => JustStarted \/ Idle

Guarded == panel # Change => FreshInv

-----------------------------------------------------------------------------
(* Constants, kinds and the order of the sections. *)

\* The constants are numbers, and no bound reaches the cap.
LEMMA Numbers ==
    /\ {Interval, SlowInterval, HAInterval, MaxCycle, MaxRound, Period, Slack, Old} \subseteq Nat
    /\ MaxCycle <= MaxRound /\ Period = MaxRound + Interval
    /\ Interval > 0 /\ SlowInterval > 0 /\ HAInterval > 0
    /\ Slack + Period + MaxCycle < Old
    /\ Slack = 0 \/ Slack = SlowInterval - 1 \/ Slack = HAInterval - 1
  BY ConstantsAssumption, SMT DEF Old, Period, Slack

CapacityNames == {"usage", "lbCredits", "perGateway", "services", "segments", "policies", "groups", "nat"}
SlowNames == CapacityNames \cup {"alarms", "siteTotals"}
InventoryNames == {"perGateway", "siteTotals", "segments", "policies", "groups", "nat"}
LoopNames == {"status", "uplink"}
Names == SlowNames \cup LoopNames \cup {"change", "ha", "cluster", "managers", "routers"}

\* A kind is told by its name, and by the node for those of the loop.
LEMMA KindNames ==
    ASSUME NEW k \in Kinds
    PROVE  /\ k[1] \in Names
           /\ k[1] \notin LoopNames => k = <<k[1]>>
           /\ k \in SlowKinds <=> k[1] \in SlowNames
           /\ k \in CapacityKinds <=> k[1] \in CapacityNames
           /\ k[1] \in InventoryNames => k \in InventoryKinds
           /\ k = <<"ha">> <=> k[1] = "ha"
           /\ k[1] \in LoopNames => k = <<k[1], k[2]>> /\ k[2] \in Nodes
           /\ k[1] = "uplink" => k[2] \in EdgeNodes
           /\ k[1] \in {"segments", "policies", "groups", "nat"} => k[1] \in Extras
  <1>1. Extras \subseteq {"segments", "policies", "groups", "nat"} /\ EdgeNodes \subseteq Nodes
    BY ConstantsAssumption
  <1>2. CASE \E s \in Names \ LoopNames : k = <<s>>
    <2>1. PICK s \in Names \ LoopNames : k = <<s>>
      BY <1>2
    <2>2. k[1] = s
      BY <2>1
    <2>3. ~ \E n \in Nodes : k = <<"status", n>> \/ k = <<"uplink", n>>
      BY <2>1
    <2>. QED
      BY <1>1, <2>1, <2>2, <2>3
         DEF Kinds, SlowKinds, CapacityKinds, FastKinds, InventoryKinds, Change,
             Names, SlowNames, CapacityNames, InventoryNames, LoopNames
  <1>3. CASE k \in {"status"} \X Nodes \/ k \in {"uplink"} \X EdgeNodes
    <2>1. PICK n \in Nodes : k = <<"status", n>> \/ (k = <<"uplink", n>> /\ n \in EdgeNodes)
      BY <1>1, <1>3
    <2>2. k[1] \in LoopNames /\ k[2] = n
      BY <2>1 DEF LoopNames
    <2>3. \A s : k # <<s>>
      BY <2>1
    <2>. QED
      BY <1>1, <2>1, <2>2, <2>3
         DEF SlowKinds, CapacityKinds, Names, SlowNames, CapacityNames, InventoryNames, LoopNames
  <1>4. k \in {"status"} \X Nodes \/ k \in {"uplink"} \X EdgeNodes \/ \E s \in Names \ LoopNames : k = <<s>>
    BY <1>1 DEF Kinds, SlowKinds, CapacityKinds, FastKinds, Change,
             Names, SlowNames, CapacityNames, LoopNames
  <1>. QED
    BY <1>2, <1>3, <1>4

\* The order, and the only section at the place of a kind that has one.
LEMMA Order ==
    /\ Pos("ha") = 1 /\ Pos("cluster") = 2 /\ Pos("managers") = 3 /\ Pos("nodes") = 4
    /\ Pos("status") = 4 /\ Pos("uplink") = 4
    /\ Pos("each") = 5 /\ Pos("ifaces") = 5 /\ Pos("stats") = 5 /\ Pos("routers") = 6
    /\ Pos("alarms") = 7 /\ Pos("usage") = 8 /\ Pos("lbCredits") = 9 /\ Pos("tier0s") = 10
    /\ Pos("tier1s") = 11 /\ Pos("perGateway") = 11 /\ Pos("siteTotals") = 11
    /\ Pos("segments") = 12 /\ Pos("policies") = 13 /\ Pos("groups") = 14 /\ Pos("nat") = 15
    /\ Pos("services") = 16 /\ Pos("writeCapacity") = 17 /\ Pos("write") = 18
  BY DEF Pos

\* What was not older than an age a while ago, or before a failure, is not.
LEMMA Looser ==
    ASSUME TypeOK, NEW a \in Nat, NEW b \in Nat, a <= b, NoOlder(a)
    PROVE  NoOlder(b)
  BY DEF NoOlder, TypeOK

\* How long each stage may last.
LEMMA LimitOf ==
    /\ pc \in Sections => Limit = MaxCycle
    /\ pc = "wait" => Limit = MaxRound
    /\ pc \in {"sleep", "down"} => Limit = Interval
  BY DEF Limit, Sections

-----------------------------------------------------------------------------
(* The sections. *)

\* What a section has to see to: the points of the panel are collected or a
\* failure is noted, and nothing is collected behind a closed gate.
LEMMA Collected ==
    ASSUME TypeOK, FreshInv, panel \in Kinds,
           pc \in Sections, pc' \in Sections \ {"ha", "write"}, pc # "write",
           UNCHANGED <<timer, slowAge, runSlow, panel, shownAge>>,
           haAge' = IF pc = "ha" THEN timer ELSE haAge,
           calm' \in {calm, 0}, held' \in BOOLEAN, held => held',
           Pending /\ Ahead => Ahead' \/ held' \/ calm' = 0,
           panel \in SlowKinds /\ ~runSlow => held' = held,
           panel = <<"ha">> /\ pc # "ha" => held' = held
    PROVE  FreshInv'
  <1>1. pc' \notin {"sleep", "wait", "down"}
    BY DEF Sections
  <1>2. timer' <= Limit' 
    <2>1. Limit = MaxCycle /\ Limit' = MaxCycle
      BY LimitOf DEF Limit, Sections
    <2>. QED
      BY <1>1, <2>1 DEF FreshInv, Sections
  <1>3. Slack' = Slack
    BY DEF Slack
  <1>4. \A a \in Nat : NoOlder(a) => (calm' > a => shownAge' <= a)
    BY DEF NoOlder, TypeOK
  <1>5. ASSUME Pending PROVE Pending'
    <2>1. timer + Slack + Period \in Nat /\ timer \in Nat
      BY Numbers DEF TypeOK
    <2>2. NoOlder(timer + Slack + Period)'
      BY <1>3, <1>4, <1>5, <2>1 DEF Pending, NoOlder
    <2>3. calm' > timer' => Ahead' \/ held'
      BY <1>5, <2>1 DEF Pending
    <2>. QED
      BY <1>5, <2>2, <2>3 DEF Pending
  <1>6. ASSUME Quiet PROVE Quiet'
    <2>1. GateAge' = GateAge /\ GateAge \in Nat
      <3>1. panel \in SlowKinds \/ (panel = <<"ha">> /\ pc # "ha")
        BY <1>6 DEF Quiet
      <3>2. CASE panel \in SlowKinds
        <4>1. GateAge = slowAge /\ GateAge' = slowAge'
          BY <3>2 DEF GateAge
        <4>. QED
          BY <4>1 DEF TypeOK
      <3>3. CASE panel \notin SlowKinds /\ panel = <<"ha">> /\ pc # "ha"
        <4>1. GateAge = haAge /\ GateAge' = haAge'
          BY <3>3 DEF GateAge
        <4>. QED
          BY <3>3, <4>1 DEF TypeOK
      <3>. QED
        BY <3>1, <3>2, <3>3
    <2>2. NoOlder(GateAge)'
      BY <1>4, <1>6, <2>1 DEF Quiet, NoOlder
    <2>3. ~held /\ (panel \in SlowKinds => ~runSlow)
      BY <1>6 DEF Quiet
    <2>. QED
      BY <1>3, <1>6, <2>1, <2>2, <2>3 DEF Quiet
  <1>. QED
    BY <1>1, <1>2, <1>5, <1>6 DEF FreshInv

\* What the calls of a section leave behind.
LEMMA Call ==
    ASSUME TypeOK, NEW kinds, NEW call, DeliversAll(kinds) \/ Fails(call)
    PROVE  /\ calm' \in {calm, 0} /\ held' \in BOOLEAN /\ (held => held')
           /\ panel \in kinds /\ call \in Chain(panel) => held' \/ calm' = 0
           /\ panel \notin kinds => held' = held
  <1>1. CASE DeliversAll(kinds)
    <2>1. held' = (held \/ panel \in kinds) /\ calm' = calm
      BY <1>1 DEF DeliversAll
    <2>2. held' \in BOOLEAN /\ (held => held') /\ (panel \in kinds => held')
      BY <2>1, ZenonT(20)
    <2>3. panel \notin kinds => held' = held
      <3>1. panel \notin kinds => (held' <=> held)
        BY <2>1, ZenonT(20)
      <3>. QED
        BY <2>2, <3>1 DEF TypeOK
    <2>. QED
      BY <2>1, <2>2, <2>3
  <1>2. CASE Fails(call)
    <2>1. held' = held /\ calm' = (IF call \in Chain(panel) THEN 0 ELSE calm)
      BY <1>2 DEF Fails
    <2>. QED
      BY <2>1 DEF TypeOK
  <1>. QED
    BY <1>1, <1>2

\* Points of the panel's kind are held once they were delivered.
LEMMA Delivered ==
    ASSUME NEW kinds, panel \in kinds, DeliversAll(kinds)
    PROVE  held'
  BY Zenon DEF DeliversAll

\* Sections of one call, outside the loop.
SimpleNames == {"managers", "routers"} \cup (SlowNames \ {"perGateway", "siteTotals"})

\* Each is alone at its place.
LEMMA Alone ==
    ASSUME NEW at \in SimpleNames, NEW name \in Names \ {"change"}
    PROVE  /\ Pos(at) \in Nat /\ Pos(name) \in Nat
           /\ Pos(at) = Pos(name) => name = at
  BY Order DEF SimpleNames, Names, SlowNames, CapacityNames, LoopNames

\* What a section leaves alone.
Framed ==
    /\ UNCHANGED <<timer, slowAge, runSlow, panel, shownAge>>
    /\ haAge' = IF pc = "ha" THEN timer ELSE haAge

\* A usual section delivers its kind or notes a failure.
LEMMA SectionFresh ==
    ASSUME TypeOK, FreshInv, panel # Change,
           NEW at \in SimpleNames, NEW next \in Sections \ {"ha", "write"}, Section(at, next),
           \/ Pos(next) = Pos(at) + 1
           \/ at = "routers" /\ next = "writeCapacity" /\ ~runSlow
    PROVE  FreshInv'
  <1>1. pc = at /\ pc' = next /\ (DeliversAll({<<at>>}) \/ Fails(<<at>>))
    BY DEF Section, Delivers
  <1>2. Framed
    BY <1>1 DEF Framed, Section, gateVars, readerVars, eventVars, SimpleNames, SlowNames, CapacityNames
  <1>3. at \in Sections /\ at \notin {"ha", "each", "ifaces", "stats", "write"} /\ at \in Names \ LoopNames
    BY DEF SimpleNames, SlowNames, CapacityNames, Sections, Names, LoopNames
  <1>4. panel \in Kinds
    BY DEF TypeOK
  <1>5. /\ calm' \in {calm, 0} /\ held' \in BOOLEAN /\ (held => held')
        /\ panel = <<at>> => held' \/ calm' = 0
        /\ panel # <<at>> => held' = held
    <2>1. <<at>> \in Chain(<<at>>)
      BY DEF Chain
    <2>. QED
      BY <1>1, <2>1, Call
  <1>6. panel[1] = at <=> panel = <<at>>
    <2>1. panel[1] = at => panel = <<at>>
      BY <1>3, <1>4, KindNames
    <2>2. panel = <<at>> => panel[1] = at
      OBVIOUS
    <2>. QED
      BY <2>1, <2>2
  <1>7. ASSUME Pending, Ahead PROVE Ahead' \/ held' \/ calm' = 0
    <2>1. Pos(at) <= Pos(panel[1])
      BY <1>1, <1>3, <1>7 DEF Ahead
    <2>2. panel[1] \in Names \ {"change"}
      BY <1>4, KindNames DEF Change, LoopNames
    <2>3. panel' = panel
      BY <1>2 DEF Framed
    <2>4. CASE Pos(next) <= Pos(panel[1])
      <3>1. Ahead'
        BY <1>1, <2>3, <2>4 DEF Ahead
      <3>. QED
        BY <3>1
    <2>5. CASE Pos(next) = Pos(at) + 1 /\ ~ (Pos(next) <= Pos(panel[1]))
      <3>1. panel[1] = at
        BY <2>1, <2>2, <2>5, Alone
      <3>. QED
        BY <1>5, <1>6, <3>1
    <2>6. CASE at = "routers" /\ next = "writeCapacity" /\ ~runSlow
      <3>1. panel \notin SlowKinds
        BY <1>7, <2>6 DEF Pending
      <3>2. panel[1] \notin SlowNames
        BY <1>4, <3>1, KindNames
      <3>3. panel[1] = at
        BY <2>1, <2>2, <2>6, <3>2, Order DEF Names, LoopNames
      <3>. QED
        BY <1>5, <1>6, <3>3
    <2>. QED
      BY <2>4, <2>5, <2>6
  <1>8. ASSUME panel \in SlowKinds, ~runSlow PROVE held' = held
    <2>1. at \notin SlowSections
      BY <1>1, <1>8 DEF TypeOK
    <2>2. at \in {"managers", "routers"}
      BY <2>1 DEF SimpleNames, SlowNames, CapacityNames, SlowSections
    <2>3. panel[1] \in SlowNames
      BY <1>4, <1>8, KindNames
    <2>4. panel[1] # at
      BY <2>2, <2>3 DEF SlowNames, CapacityNames
    <2>. QED
      BY <1>5, <1>6, <2>4
  <1>9. ASSUME panel = <<"ha">> PROVE held' = held
    <2>1. panel[1] = "ha"
      BY <1>9
    <2>. QED
      BY <1>3, <1>5, <1>6, <2>1
  <1>10. pc \in Sections /\ pc # "write" /\ pc' \in Sections \ {"ha", "write"}
    BY <1>1, <1>3
  <1>11. Pending /\ Ahead => Ahead' \/ held' \/ calm' = 0
    BY <1>7
  <1>12. /\ panel \in SlowKinds /\ ~runSlow => held' = held
         /\ panel = <<"ha">> /\ pc # "ha" => held' = held
    BY <1>8, <1>9
  <1>. QED
    BY <1>2, <1>4, <1>5, <1>10, <1>11, <1>12, Collected DEF Framed

\* What Collected asks of the sections that are not of the usual kind.
LEMMA PanelName ==
    ASSUME TypeOK, panel # Change
    PROVE  /\ panel \in Kinds /\ panel[1] \in Names \ {"change"}
           /\ Pos(panel[1]) \in Nat
           /\ panel[1] \notin LoopNames => panel = <<panel[1]>>
           /\ panel[1] \in LoopNames => panel = <<panel[1], panel[2]>> /\ panel[2] \in Nodes
  <1>1. panel \in Kinds
    BY DEF TypeOK
  <1>2. panel[1] \in Names \ {"change"}
    BY <1>1, KindNames DEF Change, LoopNames
  <1>3. Pos(panel[1]) \in Nat
    BY <1>2, Order DEF Names, SlowNames, CapacityNames, LoopNames
  <1>. QED
    BY <1>1, <1>2, <1>3, KindNames

\* The HA section stamps its gate, and delivers the answers or notes a failure.
LEMMA HAFresh ==
    ASSUME TypeOK, FreshInv, panel # Change, CollectHA
    PROVE  FreshInv'
  <1>1. /\ pc = "ha" /\ pc' = "cluster" /\ haAge' = Cap(timer)
        /\ UNCHANGED <<timer, slowAge, runSlow, panel, shownAge>>
    BY DEF CollectHA, readerVars, eventVars
  <1>2. PICK kinds \in {{<<"ha">>}, {<<"ha">>, Change}} : DeliversAll(kinds) \/ Fails(<<"ha">>)
    BY DEF CollectHA, Delivers
  <1>3. /\ calm' \in {calm, 0} /\ held' \in BOOLEAN /\ (held => held')
        /\ panel = <<"ha">> => held' \/ calm' = 0
        /\ panel # <<"ha">> => held' = held
    <2>1. <<"ha">> \in Chain(<<"ha">>)
      BY DEF Chain
    <2>2. panel \in kinds <=> panel = <<"ha">>
      BY <1>2
    <2>. QED
      BY <1>2, <2>1, <2>2, Call
  <1>4. haAge' = timer
    <2>1. timer <= MaxCycle
      BY <1>1, LimitOf DEF FreshInv, Sections
    <2>. QED
      BY <1>1, <2>1, Numbers DEF Cap, TypeOK
  <1>5. pc \in Sections /\ pc # "write" /\ pc' \in Sections \ {"ha", "write"}
    BY <1>1 DEF Sections
  <1>6. Ahead => Ahead' \/ held' \/ calm' = 0
    <2>1. CASE Pos("cluster") <= Pos(panel[1])
      <3>1. Ahead'
        BY <1>1, <2>1 DEF Ahead
      <3>. QED
        BY <3>1
    <2>2. CASE ~ (Pos("cluster") <= Pos(panel[1]))
      <3>1. panel[1] = "ha"
        BY <2>2, PanelName, Order DEF Names, SlowNames, CapacityNames, LoopNames
      <3>2. panel = <<"ha">>
        BY <3>1, PanelName DEF LoopNames
      <3>. QED
        BY <1>3, <3>2
    <2>. QED
      BY <2>1, <2>2
  <1>7. panel \in SlowKinds => panel # <<"ha">>
    BY KindNames DEF SlowNames, CapacityNames, Kinds
  <1>. QED
    BY <1>1, <1>3, <1>4, <1>5, <1>6, <1>7, PanelName, Collected

\* The sections that the others hang from, and the loop over the nodes.
LEMMA FastFresh ==
    ASSUME TypeOK, FreshInv, panel # Change, NEW kinds, NEW call,
           pc \in {"cluster", "nodes", "each", "ifaces", "stats"}, pc' \in Sections \ {"ha", "write"},
           UNCHANGED <<timer, slowAge, haAge, runSlow, panel, shownAge>>,
           DeliversAll(kinds) \/ Fails(call) \/ UNCHANGED <<held, calm>>,
           kinds \cap (SlowKinds \cup {<<"ha">>}) = {},
           Ahead => Ahead' \/ held' \/ calm' = 0
    PROVE  FreshInv'
  <1>1. calm' \in {calm, 0} /\ held' \in BOOLEAN /\ (held => held')
    BY Call DEF TypeOK
  <1>2. panel \in SlowKinds \cup {<<"ha">>} => held' = held
    <2>1. panel \in SlowKinds \cup {<<"ha">>} => panel \notin kinds
      OBVIOUS
    <2>. QED
      BY <2>1, Call
  <1>3. pc \in Sections /\ pc \notin {"ha", "write"}
    BY DEF Sections
  <1>. QED
    BY <1>1, <1>2, <1>3, PanelName, Collected

\* A kind is on the way as long as its section, or a later one, is ahead.
LEMMA StillAhead ==
    ASSUME panel' = panel, Pos(pc') <= Pos(panel[1])
    PROVE  Ahead'
  BY DEF Ahead

\* The cluster status and the node listing: a failure is one of what hangs from them.
LEMMA ListingFresh ==
    ASSUME TypeOK, FreshInv, panel # Change, ClusterStatus \/ TransportNodes
    PROVE  FreshInv'
  <1>1. CASE ClusterStatus
    <2>1. /\ UNCHANGED <<timer, slowAge, haAge, runSlow, panel, shownAge>>
          /\ pc = "cluster" /\ pc' \in {"managers", "nodes"}
          /\ \/ pc' = "managers" /\ DeliversAll({<<"cluster">>})
             \/ pc' = "nodes" /\ Fails(<<"cluster">>)
      BY <1>1 DEF ClusterStatus, gateVars, readerVars, eventVars, Delivers
    <2>2. {<<"cluster">>} \cap (SlowKinds \cup {<<"ha">>}) = {}
      BY KindNames DEF Kinds, FastKinds, SlowNames, CapacityNames
    <2>3. ASSUME Ahead PROVE Ahead' \/ held' \/ calm' = 0
      <3>1. Pos(panel[1]) >= 2
        BY <2>1, <2>3, Order DEF Ahead
      <3>2. CASE panel = <<"cluster">> \/ panel = <<"managers">>
        <4>1. <<"cluster">> \in Chain(panel)
          BY <3>2 DEF Chain
        <4>2. Fails(<<"cluster">>) => calm' = 0
          BY <4>1 DEF Fails
        <4>3. DeliversAll({<<"cluster">>}) /\ panel = <<"cluster">> => held'
          BY Delivered
        <4>4. panel = <<"managers">> => Pos("managers") <= Pos(panel[1])
          BY Order
        <4>5. panel = <<"managers">> /\ pc' = "managers" => Ahead'
          BY <2>1, <4>4, StillAhead
        <4>. QED
          BY <2>1, <3>2, <4>2, <4>3, <4>5
      <3>3. CASE panel # <<"cluster">> /\ panel # <<"managers">>
        <4>1. panel[1] \notin {"cluster", "managers"}
          BY <3>3, PanelName DEF LoopNames
        <4>2. Pos(panel[1]) >= 4
          BY <3>1, <4>1, PanelName, Order DEF Names, SlowNames, CapacityNames, LoopNames
        <4>3. Pos(pc') <= Pos(panel[1])
          BY <2>1, <4>2, PanelName, Order
        <4>. QED
          BY <2>1, <4>3, StillAhead
      <3>. QED
        BY <3>2, <3>3
    <2>4. pc' \in Sections \ {"ha", "write"}
      BY <2>1 DEF Sections
    <2>. QED
      BY <2>1, <2>2, <2>3, <2>4, FastFresh
  <1>2. CASE TransportNodes
    <2>1. /\ UNCHANGED <<timer, slowAge, haAge, runSlow, panel, shownAge>>
          /\ pc = "nodes" /\ pc' \in {"each", "routers"}
          /\ \/ pc' = "each" /\ todo' = Nodes /\ UNCHANGED <<held, calm>>
             \/ pc' = "routers" /\ Fails(<<"nodes">>)
      BY <1>2 DEF TransportNodes, gateVars, readerVars, eventVars
    <2>2. ASSUME Ahead PROVE Ahead' \/ held' \/ calm' = 0
      <3>1. Pos(panel[1]) >= 4
        BY <2>1, <2>2, Order DEF Ahead
      <3>2. CASE panel[1] \in LoopNames
        <4>1. <<"nodes">> \in Chain(panel) /\ panel[2] \in Nodes
          BY <3>2, PanelName DEF Chain, LoopNames
        <4>2. Fails(<<"nodes">>) => calm' = 0
          BY <4>1 DEF Fails
        <4>3. pc' = "each" /\ todo' = Nodes => Ahead'
          BY <2>1, <3>2, <4>1 DEF Ahead, LoopNames
        <4>. QED
          BY <2>1, <4>2, <4>3
      <3>3. CASE panel[1] \notin LoopNames
        <4>1. Pos(panel[1]) >= 6
          BY <3>1, <3>3, PanelName, Order DEF Names, SlowNames, CapacityNames, LoopNames
        <4>2. Pos(pc') <= Pos(panel[1])
          BY <2>1, <4>1, PanelName, Order
        <4>. QED
          BY <2>1, <4>2, StillAhead
      <3>. QED
        BY <3>2, <3>3
    <2>3. pc' \in Sections \ {"ha", "write"}
      BY <2>1 DEF Sections
    <2>4. DeliversAll({}) \/ Fails(<<"nodes">>) \/ UNCHANGED <<held, calm>>
      BY <2>1
    <2>5. {} \cap (SlowKinds \cup {<<"ha">>}) = {}
      OBVIOUS
    <2>. QED
      BY <2>1, <2>2, <2>3, <2>4, <2>5, FastFresh
  <1>. QED
    BY <1>1, <1>2

\* A turn of the loop: a node that is done has delivered, or failed.
LEMMA LoopFresh ==
    ASSUME TypeOK, FreshInv, panel # Change, NEW n \in Nodes,
           NodeStatus(n) \/ NodeInterfaces(n) \/ InterfaceStats(n)
    PROVE  FreshInv'
  <1>1. /\ UNCHANGED <<timer, slowAge, haAge, runSlow, panel, shownAge>>
        /\ pc \in {"each", "ifaces", "stats"} /\ pc' \in {"each", "ifaces", "stats"}
        /\ pc' \in Sections \ {"ha", "write"}
    BY DEF NodeStatus, NodeInterfaces, InterfaceStats, gateVars, readerVars, eventVars, Sections
  <1>2. ASSUME NEW name \in LoopNames, NEW m
        PROVE  {<<name, m>>} \cap (SlowKinds \cup {<<"ha">>}) = {}
    <2>1. \A k \in SlowKinds \cup {<<"ha">>} : k = <<k[1]>>
      BY KindNames DEF Kinds, SlowNames, CapacityNames, LoopNames
    <2>. QED
      BY <2>1
  <1>3. ASSUME Ahead, Pos(pc) <= Pos(panel[1]) PROVE Ahead'
    <2>1. Pos(pc') <= Pos(panel[1])
      BY <1>1, <1>3, Order
    <2>. QED
      BY <1>1, <2>1, StillAhead
  <1>4. ASSUME Ahead, ~ (Pos(pc) <= Pos(panel[1]))
        PROVE  /\ panel[1] \in LoopNames
               /\ panel[2] \in todo \/ (panel[1] = "uplink" /\ visiting = {panel[2]})
    BY <1>4 DEF Ahead, LoopNames
  <1>5. ASSUME panel[1] \in LoopNames
        PROVE  /\ panel[2] \in todo' => Ahead'
               /\ panel[1] = "uplink" /\ visiting' = {panel[2]} => Ahead'
    BY <1>1, <1>5 DEF Ahead, LoopNames
  <1>6. CASE NodeStatus(n)
    <2>1. /\ pc = "each" /\ todo' = todo \ {n}
          /\ \/ /\ DeliversAll({<<"status", n>>})
                /\ n \in EdgeNodes => visiting' = {n}
             \/ Fails(<<"status", n>>)
      BY <1>6 DEF NodeStatus, Delivers
    <2>2. visiting = {}
      BY <2>1 DEF TypeOK
    <2>3. ASSUME panel[1] \in LoopNames, panel[2] = n PROVE Ahead' \/ held' \/ calm' = 0
      <3>1. panel = <<panel[1], n>>
        BY <2>3, PanelName
      <3>2. <<"status", n>> \in Chain(panel)
        BY <2>3, <3>1 DEF Chain, LoopNames
      <3>3. Fails(<<"status", n>>) => calm' = 0
        BY <3>2 DEF Fails
      <3>4. DeliversAll({<<"status", n>>}) /\ panel[1] = "status" => held'
        BY <3>1, Delivered
      <3>5. panel[1] = "uplink" => n \in EdgeNodes
        BY <2>3, PanelName, KindNames
      <3>6. panel[1] = "uplink" /\ visiting' = {n} => Ahead'
        BY <1>5, <2>3
      <3>. QED
        BY <2>1, <2>3, <3>3, <3>4, <3>5, <3>6 DEF LoopNames
    <2>4. Ahead => Ahead' \/ held' \/ calm' = 0
      <3>1. ASSUME Ahead, ~ (Pos(pc) <= Pos(panel[1])) PROVE Ahead' \/ held' \/ calm' = 0
        <4>1. panel[1] \in LoopNames /\ panel[2] \in todo
          BY <1>4, <2>2, <3>1
        <4>2. panel[2] = n \/ panel[2] \in todo'
          BY <2>1, <4>1
        <4>. QED
          BY <1>5, <2>3, <4>1, <4>2
      <3>. QED
        BY <1>3, <3>1
    <2>5. DeliversAll({<<"status", n>>}) \/ Fails(<<"status", n>>)
      BY <2>1
    <2>6. {<<"status", n>>} \cap (SlowKinds \cup {<<"ha">>}) = {}
      BY <1>2 DEF LoopNames
    <2>. QED
      BY <1>1, <2>1, <2>4, <2>5, <2>6, FastFresh
  <1>7. CASE NodeInterfaces(n) \/ InterfaceStats(n)
    <2>1. /\ visiting = {n} /\ todo' = todo
          /\ \/ visiting' = {n} /\ UNCHANGED <<held, calm>>
             \/ DeliversAll({<<"uplink", n>>}) \/ Fails(<<"uplink", n>>)
      BY <1>7 DEF NodeInterfaces, InterfaceStats, Delivers
    <2>2. ASSUME panel[1] = "uplink", panel[2] = n PROVE Ahead' \/ held' \/ calm' = 0
      <3>1. panel = <<"uplink", n>>
        BY <2>2, PanelName DEF LoopNames
      <3>2. <<"uplink", n>> \in Chain(panel)
        BY <3>1 DEF Chain
      <3>3. Fails(<<"uplink", n>>) => calm' = 0
        BY <3>2 DEF Fails
      <3>4. DeliversAll({<<"uplink", n>>}) => held'
        BY <3>1, Delivered
      <3>5. visiting' = {n} => Ahead'
        BY <1>5, <2>2 DEF LoopNames
      <3>. QED
        BY <2>1, <3>3, <3>4, <3>5
    <2>3. Ahead => Ahead' \/ held' \/ calm' = 0
      <3>1. ASSUME Ahead, ~ (Pos(pc) <= Pos(panel[1])) PROVE Ahead' \/ held' \/ calm' = 0
        <4>1. CASE panel[2] \in todo
          BY <1>4, <1>5, <2>1, <3>1, <4>1
        <4>2. CASE panel[1] = "uplink" /\ visiting = {panel[2]}
          <5>1. panel[2] = n
            BY <2>1, <4>2
          <5>. QED
            BY <2>2, <4>2, <5>1
        <4>. QED
          BY <1>4, <3>1, <4>1, <4>2
      <3>. QED
        BY <1>3, <3>1
    <2>4. {<<"uplink", n>>} \cap (SlowKinds \cup {<<"ha">>}) = {}
      BY <1>2 DEF LoopNames
    <2>5. DeliversAll({<<"uplink", n>>}) \/ Fails(<<"uplink", n>>) \/ UNCHANGED <<held, calm>>
      BY <2>1
    <2>. QED
      BY <1>1, <2>3, <2>4, <2>5, FastFresh
  <1>. QED
    BY <1>6, <1>7

\* The loop ends when no node is to do, so no kind of the loop is ahead.
LEMMA NodesDoneFresh ==
    ASSUME TypeOK, FreshInv, panel # Change, NodesDone
    PROVE  FreshInv'
  <1>1. /\ UNCHANGED <<timer, slowAge, haAge, runSlow, panel, shownAge, held, calm>>
        /\ pc = "each" /\ pc' = "routers" /\ todo = {} /\ visiting = {}
        /\ pc' \in Sections \ {"ha", "write"}
    BY DEF NodesDone, gateVars, readerVars, eventVars, loopVars, Sections, TypeOK
  <1>2. Ahead => Ahead'
    <2>1. ASSUME Ahead PROVE Pos(pc') <= Pos(panel[1])
      <3>1. Pos(panel[1]) >= 5
        BY <1>1, <2>1, Order DEF Ahead
      <3>. QED
        BY <1>1, <3>1, PanelName, Order DEF Names, SlowNames, CapacityNames, LoopNames
    <2>. QED
      BY <1>1, <2>1, StillAhead
  <1>. QED
    BY <1>1, <1>2, FastFresh

\* The sections of the slow path.
LEMMA SlowFresh ==
    ASSUME TypeOK, FreshInv, panel # Change, NEW kinds, NEW call,
           pc \in SlowSections, pc' \in Sections \ {"ha", "write"},
           UNCHANGED <<timer, slowAge, haAge, runSlow, panel, shownAge>>,
           DeliversAll(kinds) \/ Fails(call) \/ UNCHANGED <<held, calm>>, <<"ha">> \notin kinds,
           Ahead => Ahead' \/ held' \/ calm' = 0
    PROVE  FreshInv'
  <1>1. calm' \in {calm, 0} /\ held' \in BOOLEAN /\ (held => held')
    BY Call DEF TypeOK
  <1>2. panel = <<"ha">> => held' = held
    BY Call
  <1>3. runSlow
    BY DEF TypeOK
  <1>4. pc \in Sections /\ pc \notin {"ha", "write"}
    BY DEF Sections, SlowSections
  <1>. QED
    BY <1>1, <1>2, <1>3, <1>4, PanelName, Collected

\* The two listings of gateways: a failure is one of all that needs the inventory.
LEMMA ListingsFresh ==
    ASSUME TypeOK, FreshInv, panel # Change, Tier0s \/ Tier1s
    PROVE  FreshInv'
  <1>1. /\ UNCHANGED <<timer, slowAge, haAge, runSlow, panel, shownAge>>
        /\ pc \in SlowSections /\ pc' \in Sections \ {"ha", "write"}
        /\ pc \in {"tier0s", "tier1s"} /\ pc' \in {"tier1s", "segments", "services"}
    BY DEF Tier0s, Tier1s, gateVars, readerVars, eventVars, SlowSections, Sections
  <1>. DEFINE kinds == {<<"perGateway">>, <<"siteTotals">>}
  <1>2. \/ pc = "tier0s" /\ pc' = "tier1s" /\ UNCHANGED <<held, calm>>
        \/ pc = "tier0s" /\ pc' = "services" /\ Fails(<<"tier0s">>)
        \/ pc = "tier1s" /\ pc' = "segments" /\ DeliversAll(kinds)
        \/ pc = "tier1s" /\ pc' = "services" /\ Fails(<<"tier1s">>)
    BY DEF Tier0s, Tier1s
  <1>3. ASSUME Ahead PROVE Ahead' \/ held' \/ calm' = 0
    <2>1. Pos(panel[1]) >= 10 /\ (pc = "tier1s" => Pos(panel[1]) >= 11)
      BY <1>1, <1>3, PanelName, Order DEF Ahead
    <2>2. CASE Pos(pc') <= Pos(panel[1])
      BY <1>1, <2>2, StillAhead
    <2>3. CASE ~ (Pos(pc') <= Pos(panel[1]))
      <3>1. panel[1] \in InventoryNames
        BY <1>2, <2>1, <2>3, PanelName, Order
           DEF Names, SlowNames, CapacityNames, LoopNames, InventoryNames
      <3>2. {<<"tier0s">>, <<"tier1s">>} \subseteq Chain(panel)
        BY <3>1, PanelName, KindNames DEF Chain
      <3>3. Fails(<<"tier0s">>) \/ Fails(<<"tier1s">>) => calm' = 0
        BY <3>2 DEF Fails
      <3>4. pc = "tier0s" => pc' = "services"
        BY <1>2, <2>1, <2>3, <3>1, Order DEF InventoryNames
      <3>5. pc = "tier1s" /\ pc' = "segments" => panel \in kinds
        <4>1. pc = "tier1s" /\ pc' = "segments" => panel[1] \in {"perGateway", "siteTotals"}
          BY <2>1, <2>3, <3>1, Order DEF InventoryNames
        <4>. QED
          BY <4>1, PanelName DEF LoopNames
      <3>6. pc = "tier1s" /\ pc' = "segments" => held'
        BY <1>2, <3>5, Delivered
      <3>. QED
        BY <1>2, <3>3, <3>4, <3>6
    <2>. QED
      BY <2>2, <2>3
  <1>4. DeliversAll(kinds) \/ (\E call : Fails(call)) \/ UNCHANGED <<held, calm>>
    BY <1>2
  <1>5. <<"ha">> \notin kinds
    OBVIOUS
  <1>. HIDE DEF kinds
  <1>. QED
    BY <1>1, <1>3, <1>4, <1>5, SlowFresh

\* A section behind a switch that is off is nobody's.
LEMMA OptionalFresh ==
    ASSUME TypeOK, FreshInv, panel # Change,
           NEW at \in {"segments", "policies", "groups", "nat"}, NEW next \in Sections \ {"ha", "write"},
           Optional(at, next), Pos(next) = Pos(at) + 1
    PROVE  FreshInv'
  <1>0. at \in SimpleNames /\ at \in SlowSections /\ at \notin LoopNames
    BY DEF SimpleNames, SlowNames, CapacityNames, SlowSections, LoopNames
  <1>1. CASE Section(at, next)
    BY <1>0, <1>1, SectionFresh
  <1>2. CASE at \notin Extras /\ ~ Section(at, next)
    <2>1. /\ UNCHANGED <<timer, slowAge, haAge, runSlow, panel, shownAge, held, calm>>
          /\ pc = at /\ pc' = next
      BY <1>2 DEF Optional, gateVars, readerVars, eventVars
    <2>2. ASSUME Ahead PROVE Ahead'
      <3>1. Pos(at) <= Pos(panel[1])
        BY <1>0, <2>1, <2>2 DEF Ahead, SlowSections
      <3>2. panel[1] # at
        <4>1. panel[1] = at => panel[1] \in Extras
          BY PanelName, KindNames
        <4>. QED
          BY <1>2, <4>1
      <3>3. Pos(pc') <= Pos(panel[1])
        BY <1>0, <2>1, <3>1, <3>2, PanelName, Alone
      <3>. QED
        BY <2>1, <3>3, StillAhead
    <2>3. DeliversAll({}) \/ Fails(<<at>>) \/ UNCHANGED <<held, calm>>
      BY <2>1
    <2>4. <<"ha">> \notin {}
      OBVIOUS
    <2>. QED
      BY <1>0, <2>1, <2>2, <2>3, <2>4, SlowFresh
  <1>. QED
    BY <1>1, <1>2 DEF Optional

\* Every section of the capacity collector.
LEMMA CapacityFresh ==
    ASSUME TypeOK, FreshInv, panel # Change, CapacityCollect
    PROVE  FreshInv'
  <1>1. CASE LBCredits
    BY <1>1, SectionFresh, Order DEF LBCredits, SimpleNames, SlowNames, CapacityNames, Sections
  <1>2. CASE Segments \/ GatewayPolicies \/ Groups \/ NATPerT1
    BY <1>2, OptionalFresh, Order DEF Segments, GatewayPolicies, Groups, NATPerT1, Sections
  <1>3. CASE Tier0s \/ Tier1s
    BY <1>3, ListingsFresh
  <1>. QED
    BY <1>1, <1>2, <1>3 DEF CapacityCollect

\* The usual sections of the worker; without slow path no slow kind is expected.
LEMMA UsualFresh ==
    ASSUME TypeOK, FreshInv, panel # Change,
           Managers \/ LogicalRouters \/ Alarms \/ CapacityUsage \/ NSServices
    PROVE  FreshInv'
  <1>1. {"managers", "routers", "alarms", "usage", "services"} \subseteq SimpleNames
    BY DEF SimpleNames, SlowNames, CapacityNames
  <1>2. {"nodes", "alarms", "usage", "lbCredits", "writeCapacity"} \subseteq Sections \ {"ha", "write"}
    BY DEF Sections
  <1>3. CASE Managers
    BY <1>1, <1>2, <1>3, SectionFresh, Order DEF Managers
  <1>4. CASE LogicalRouters /\ runSlow
    BY <1>1, <1>2, <1>4, SectionFresh, Order DEF LogicalRouters
  <1>5. CASE LogicalRouters /\ ~runSlow
    BY <1>1, <1>2, <1>5, SectionFresh, Order DEF LogicalRouters
  <1>6. CASE Alarms
    BY <1>1, <1>2, <1>6, SectionFresh, Order DEF Alarms
  <1>7. CASE CapacityUsage
    BY <1>1, <1>2, <1>7, SectionFresh, Order DEF CapacityUsage
  <1>8. CASE NSServices
    BY <1>1, <1>2, <1>8, SectionFresh, Order DEF NSServices
  <1>. QED
    BY <1>3, <1>4, <1>5, <1>6, <1>7, <1>8

-----------------------------------------------------------------------------
(* The writes. *)

\* At a write nothing is ahead any more.
LEMMA NothingAhead ==
    ASSUME TypeOK, panel # Change, pc \in {"writeCapacity", "write"}
    PROVE  ~Ahead
  <1>1. Pos(panel[1]) <= 16
    BY PanelName, Order DEF Names, SlowNames, CapacityNames, LoopNames
  <1>. QED
    BY <1>1, PanelName, Order DEF Ahead

\* The gate of the panel's kind, after a cycle it let through.
LEMMA PendingAge ==
    ASSUME TypeOK, Pending, pc \in Sections, pc # "ha"
    PROVE  GateAge = timer
  <1>1. CASE panel \in SlowKinds
    BY <1>1 DEF Pending, GateAge
  <1>2. CASE panel \notin SlowKinds /\ panel = <<"ha">>
    BY <1>2 DEF Pending, GateAge
  <1>3. CASE panel \notin SlowKinds /\ panel # <<"ha">>
    BY <1>3 DEF GateAge, Elapsed, Sections
  <1>. QED
    BY <1>1, <1>2, <1>3

\* And of a closed gate.
LEMMA QuietAge ==
    ASSUME TypeOK, Quiet
    PROVE  GateAge = (IF panel \in SlowKinds THEN slowAge ELSE haAge) /\ GateAge \in Nat
  <1>1. GateAge = IF panel \in SlowKinds THEN slowAge ELSE haAge
    BY DEF Quiet, GateAge
  <1>. QED
    BY <1>1 DEF TypeOK

\* What a write does to the panel: a new point, nothing, or a failure.
StoresPanel == held' = FALSE /\ calm' = calm /\ shownAge' = IF held THEN Cap(timer) ELSE shownAge
NoStoreFails == UNCHANGED <<held, shownAge>> /\ calm' \in {calm, 0}

\* A point held is no older than the cycle, and one was held unless something
\* failed since it began.
LEMMA StoreFresh ==
    ASSUME TypeOK, Pending, ~Ahead, StoresPanel
    PROVE  calm' > timer => shownAge' <= timer
  <1>1. timer \in Nat
    BY DEF TypeOK
  <1>2. ASSUME calm' > timer PROVE shownAge' <= timer
    <2>1. held
      BY <1>2 DEF Pending, StoresPanel
    <2>2. shownAge' = Cap(timer)
      BY <2>1 DEF StoresPanel
    <2>. QED
      BY <1>1, <2>2, CapType
  <1>. QED
    BY <1>2

\* The capacity write: its kinds are stored or their failure is noted.
LEMMA WriteCapacityFresh ==
    ASSUME TypeOK, FreshInv, panel # Change, WriteCapacity
    PROVE  FreshInv'
  <1>1. /\ UNCHANGED <<timer, slowAge, haAge, runSlow, panel>>
        /\ pc = "writeCapacity" /\ pc' = "write"
    BY DEF WriteCapacity, gateVars
  <1>2. IF panel \in CapacityKinds
        THEN StoresPanel \/ (runSlow /\ calm' = 0 /\ UNCHANGED <<held, shownAge>>)
        ELSE NoStoreFails
    <2>1. CASE UNCHANGED calm /\ (IF panel \in CapacityKinds THEN Stores ELSE UNCHANGED <<held, shownAge, eventVars>>)
      BY <2>1 DEF Stores, StoresPanel, NoStoreFails
    <2>2. CASE runSlow /\ Fails(<<"writeCapacity">>) /\ UNCHANGED shownAge
      <3>1. panel \in CapacityKinds => <<"writeCapacity">> \in Chain(panel)
        BY DEF Chain
      <3>. QED
        BY <2>2, <3>1 DEF Fails, NoStoreFails
    <2>3. \/ UNCHANGED calm /\ (IF panel \in CapacityKinds THEN Stores ELSE UNCHANGED <<held, shownAge, eventVars>>)
          \/ runSlow /\ Fails(<<"writeCapacity">>) /\ UNCHANGED shownAge
      BY DEF WriteCapacity
    <2>. QED
      BY <2>1, <2>2, <2>3
  <1>3. ~Ahead /\ timer \in Nat /\ calm \in Nat /\ panel \in Kinds
    BY <1>1, NothingAhead DEF TypeOK
  <1>4. Slack' = Slack
    BY <1>1 DEF Slack
  <1>5. timer' <= Limit'
    <2>1. Limit = MaxCycle /\ Limit' = MaxCycle
      BY <1>1, LimitOf DEF Limit, Sections
    <2>. QED
      BY <1>1, <2>1 DEF FreshInv
  <1>6. panel \in CapacityKinds => panel \in SlowKinds
    BY DEF SlowKinds
  <1>7. panel \in SlowKinds => panel # <<"ha">>
    BY <1>3, KindNames DEF SlowNames, CapacityNames
  <1>8. GateAge' = IF panel \in SlowKinds THEN slowAge ELSE IF panel = <<"ha">> THEN haAge ELSE timer
    BY <1>1 DEF GateAge, Elapsed
  <1>9. CASE panel \in CapacityKinds
    <2>1. Quiet'
      <3>1. CASE Pending
        <4>1. GateAge' = timer
          BY <1>6, <1>8, <1>9, <3>1 DEF Pending
        <4>2. NoOlder(GateAge)'
          <5>1. calm' > timer => shownAge' <= timer
            <6>1. CASE StoresPanel
              BY <1>3, <3>1, <6>1, StoreFresh
            <6>2. CASE calm' = 0
              BY <1>3, <6>2
            <6>. QED
              BY <1>2, <1>9, <6>1, <6>2
          <5>. QED
            BY <4>1, <5>1 DEF NoOlder
        <4>3. timer <= Slack + timer
          BY <1>3, Numbers
        <4>. QED
          BY <1>1, <1>4, <1>6, <1>7, <1>9, <4>1, <4>2, <4>3 DEF Quiet
      <3>2. CASE Quiet
        <4>1. ~runSlow /\ ~held
          BY <1>1, <1>6, <1>9, <3>2 DEF Quiet
        <4>2. UNCHANGED <<calm, shownAge>>
          BY <1>2, <1>9, <4>1 DEF StoresPanel
        <4>3. GateAge' = GateAge
          BY <1>6, <1>8, <1>9, <3>2, QuietAge
        <4>. QED
          BY <1>1, <1>4, <1>6, <1>7, <1>9, <3>2, <4>2, <4>3 DEF Quiet, NoOlder
      <3>. QED
        BY <1>1, <3>1, <3>2 DEF FreshInv, Sections
    <2>. QED
      BY <1>1, <1>5, <2>1 DEF FreshInv
  <1>10. CASE panel \notin CapacityKinds
    <2>1. ASSUME NEW a \in Nat, NoOlder(a) PROVE calm' > a => shownAge' <= a
      BY <1>2, <1>10, <2>1 DEF NoStoreFails, NoOlder
    <2>2. ASSUME Pending PROVE Pending'
      <3>1. timer + Slack + Period \in Nat
        BY <1>3, Numbers
      <3>2. NoOlder(timer + Slack + Period)'
        BY <1>1, <1>4, <2>1, <2>2, <3>1 DEF Pending, NoOlder
      <3>3. calm' > timer => held'
        BY <1>2, <1>3, <1>10, <2>2 DEF Pending, NoStoreFails
      <3>. QED
        BY <1>1, <1>10, <2>2, <3>2, <3>3 DEF Pending
    <2>3. ASSUME Quiet PROVE Quiet'
      <3>1. GateAge' = GateAge /\ GateAge \in Nat
        BY <1>8, <2>3, QuietAge DEF Quiet
      <3>2. NoOlder(GateAge)'
        BY <2>1, <2>3, <3>1 DEF Quiet, NoOlder
      <3>3. ~held'
        BY <1>2, <1>10, <2>3 DEF Quiet, NoStoreFails
      <3>. QED
        BY <1>1, <1>4, <1>10, <2>3, <3>1, <3>2, <3>3 DEF Quiet
    <2>. QED
      BY <1>1, <1>5, <2>2, <2>3 DEF FreshInv, Sections
  <1>. QED
    BY <1>9, <1>10

\* The last write: the other kinds are stored or their failure is noted.
LEMMA WriteFresh ==
    ASSUME TypeOK, FreshInv, panel # Change, Write
    PROVE  FreshInv'
  <1>1. /\ UNCHANGED <<timer, slowAge, haAge, runSlow, panel>>
        /\ pc = "write" /\ pc' = "wait"
    BY DEF Write, gateVars
  <1>2. IF panel \notin CapacityKinds
        THEN StoresPanel \/ (calm' = 0 /\ UNCHANGED shownAge)
        ELSE shownAge' = shownAge /\ calm' \in {calm, 0}
    <2>1. CASE UNCHANGED calm /\ (IF panel \notin CapacityKinds THEN Stores ELSE UNCHANGED <<held, shownAge, eventVars>>)
      BY <2>1 DEF Stores, StoresPanel
    <2>2. CASE Fails(<<"write">>) /\ UNCHANGED shownAge
      <3>1. panel \notin CapacityKinds => <<"write">> \in Chain(panel)
        BY DEF Chain
      <3>. QED
        BY <2>2, <3>1 DEF Fails
    <2>3. \/ UNCHANGED calm /\ (IF panel \notin CapacityKinds THEN Stores ELSE UNCHANGED <<held, shownAge, eventVars>>)
          \/ Fails(<<"write">>) /\ UNCHANGED shownAge
      BY DEF Write
    <2>. QED
      BY <2>1, <2>2, <2>3
  <1>3. ~Ahead /\ timer \in Nat /\ calm \in Nat /\ shownAge \in Nat
    BY <1>1, NothingAhead DEF TypeOK
  <1>4. Slack' = Slack /\ Slack \in Nat /\ Elapsed' = timer
    BY <1>1, Numbers DEF Slack, Elapsed
  <1>5. timer' <= Limit'
    <2>1. Limit = MaxCycle /\ Limit' = MaxRound
      BY <1>1, LimitOf DEF Limit, Sections
    <2>. QED
      BY <1>1, <1>3, <2>1, Numbers DEF FreshInv
  <1>6. GateAge' = GateAge
    BY <1>1, <1>4 DEF GateAge, Elapsed
  <1>7. Idle'
    <2>1. CASE Pending
      <3>1. GateAge = timer /\ panel \notin CapacityKinds
        BY <1>1, <2>1, PendingAge DEF Pending, Sections
      <3>2. calm' > timer => shownAge' <= timer
        <4>1. CASE StoresPanel
          BY <1>3, <2>1, <4>1, StoreFresh
        <4>2. CASE calm' = 0
          BY <1>3, <4>2
        <4>. QED
          BY <1>2, <3>1, <4>1, <4>2
      <3>3. NoOlder(GateAge)'
        BY <1>6, <3>1, <3>2 DEF NoOlder
      <3>4. timer <= Slack + timer
        BY <1>3, <1>4
      <3>. QED
        BY <1>4, <1>6, <3>1, <3>3, <3>4 DEF Idle
    <2>2. CASE Quiet
      <3>1. GateAge \in Nat
        BY <2>2, QuietAge
      <3>2. panel \notin CapacityKinds => ~held
        BY <2>2 DEF Quiet
      <3>3. shownAge' = shownAge /\ calm' \in {calm, 0}
        BY <1>2, <3>2 DEF StoresPanel
      <3>4. NoOlder(GateAge)'
        BY <1>3, <1>6, <2>2, <3>1, <3>3 DEF Quiet, NoOlder
      <3>. QED
        BY <1>4, <1>6, <2>2, <3>4 DEF Quiet, Idle
    <2>. QED
      BY <1>1, <2>1, <2>2 DEF FreshInv, Sections
  <1>. QED
    BY <1>1, <1>5, <1>7 DEF FreshInv, Sections

-----------------------------------------------------------------------------
(* The scheduler, the process, the clock and the check. *)

\* Ages are natural numbers.
LEMMA GateAgeType == TypeOK => GateAge \in Nat /\ Elapsed \in Nat
  BY Numbers DEF GateAge, Elapsed, TypeOK

\* A cycle begins: the panel's gate lets it through, or is young enough.
LEMMA StartFresh ==
    ASSUME TypeOK, FreshInv, panel # Change, StartCycle
    PROVE  FreshInv'
  <1>1. /\ pc = "sleep" /\ timer = Interval /\ timer' = 0 /\ held' = FALSE
        /\ runSlow' = (slowAge >= SlowInterval)
        /\ slowAge' = (IF runSlow' THEN 0 ELSE slowAge)
        /\ pc' = (IF haAge >= HAInterval THEN "ha" ELSE "cluster")
        /\ UNCHANGED <<haAge, calm, panel, shownAge>>
    BY DEF StartCycle, readerVars, eventVars
  <1>2. /\ slowAge \in Nat /\ haAge \in Nat /\ calm \in Nat /\ GateAge \in Nat
        /\ Slack' = Slack /\ Slack \in Nat /\ Period \in Nat /\ panel \in Kinds
    BY <1>1, GateAgeType, Numbers DEF Slack, TypeOK
  <1>3. calm > GateAge => shownAge <= GateAge
    <2>1. JustStarted => calm = 0
      BY DEF JustStarted
    <2>2. Idle => (calm > GateAge => shownAge <= GateAge)
      BY DEF Idle, NoOlder
    <2>3. JustStarted \/ Idle
      BY <1>1 DEF FreshInv
    <2>. QED
      BY <1>2, <2>1, <2>2, <2>3
  <1>4. calm > Slack + Period => shownAge <= Slack + Period
    <2>1. CASE JustStarted
      BY <1>2, <2>1 DEF JustStarted
    <2>2. CASE Idle
      <3>1. GateAge <= Slack + Period
        BY <1>1, <2>2, Numbers DEF Idle, Elapsed
      <3>2. shownAge \in Nat
        BY DEF TypeOK
      <3>. QED
        BY <1>2, <1>3, <3>1, <3>2
    <2>. QED
      BY <1>1, <2>1, <2>2 DEF FreshInv
  <1>5. pc' \in Sections /\ pc' \in {"ha", "cluster"} /\ Limit' = MaxCycle
    <2>1. pc' \in Sections /\ pc' \in {"ha", "cluster"}
      BY <1>1 DEF Sections
    <2>. QED
      BY <2>1 DEF Limit
  <1>6. NoOlder(timer + Slack + Period)'
    <2>1. 0 + Slack + Period = Slack + Period
      BY <1>2
    <2>. QED
      BY <1>1, <1>2, <1>4, <2>1 DEF NoOlder
  <1>7. CASE panel \in SlowKinds
    <2>1. panel # <<"ha">> /\ Pos(panel[1]) >= 7
      BY <1>2, <1>7, KindNames, Order DEF SlowNames, CapacityNames
    <2>2. Ahead'
      BY <1>1, <1>5, <2>1, StillAhead, PanelName, Order
    <2>3. CASE slowAge >= SlowInterval
      <3>1. Pending'
        BY <1>1, <1>5, <1>6, <2>1, <2>2, <2>3 DEF Pending
      <3>. QED
        BY <1>1, <1>5, <3>1, Numbers DEF FreshInv, Sections
    <2>4. CASE ~ (slowAge >= SlowInterval)
      <3>1. ~runSlow' /\ slowAge' = slowAge
        BY <1>1, <2>4
      <3>2. GateAge' = slowAge /\ GateAge = slowAge
        BY <1>1, <1>7, <3>1 DEF GateAge
      <3>3. Slack = SlowInterval - 1
        BY <1>7 DEF Slack
      <3>4. slowAge <= Slack + 0
        BY <1>2, <2>4, <3>3, Numbers
      <3>5. Quiet'
        BY <1>1, <1>2, <1>3, <1>7, <2>1, <3>1, <3>2, <3>4 DEF Quiet, NoOlder
      <3>. QED
        BY <1>1, <1>5, <3>5, Numbers DEF FreshInv, Sections
    <2>. QED
      BY <2>3, <2>4
  <1>8. CASE panel = <<"ha">> /\ panel \notin SlowKinds
    <2>1. CASE haAge >= HAInterval
      <3>1. pc' = "ha"
        BY <1>1, <2>1
      <3>2. Pos(pc') <= Pos(panel[1])
        BY <1>8, <3>1, Order
      <3>3. Ahead'
        BY <1>1, <3>2, StillAhead
      <3>4. panel \notin CapacityKinds
        BY <1>8 DEF SlowKinds
      <3>5. Pending'
        BY <1>1, <1>6, <1>8, <3>1, <3>3, <3>4 DEF Pending
      <3>. QED
        BY <1>1, <1>5, <3>5, Numbers DEF FreshInv, Sections
    <2>2. CASE ~ (haAge >= HAInterval)
      <3>1. pc' = "cluster"
        BY <1>1, <2>2
      <3>2. GateAge' = haAge /\ GateAge = haAge
        BY <1>1, <1>8 DEF GateAge
      <3>3. Slack = HAInterval - 1
        BY <1>8 DEF Slack
      <3>4. haAge <= Slack + 0
        BY <1>2, <2>2, <3>3, Numbers
      <3>5. Quiet'
        BY <1>1, <1>2, <1>3, <1>8, <3>1, <3>2, <3>4 DEF Quiet, NoOlder
      <3>. QED
        BY <1>1, <1>5, <3>5, Numbers DEF FreshInv, Sections
    <2>. QED
      BY <2>1, <2>2
  <1>9. CASE panel # <<"ha">> /\ panel \notin SlowKinds
    <2>1. panel[1] # "ha"
      BY <1>9, PanelName DEF LoopNames
    <2>2. Pos(panel[1]) >= 2
      BY <2>1, PanelName, Order DEF Names, SlowNames, CapacityNames, LoopNames
    <2>3. Pos(pc') <= Pos(panel[1])
      BY <1>5, <2>2, PanelName, Order
    <2>4. Ahead'
      BY <1>1, <2>3, StillAhead
    <2>5. panel \notin CapacityKinds
      BY <1>9 DEF SlowKinds
    <2>6. Pending'
      BY <1>1, <1>6, <1>9, <2>4, <2>5 DEF Pending
    <2>. QED
      BY <1>1, <1>5, <2>6, Numbers DEF FreshInv, Sections
  <1>. QED
    BY <1>7, <1>8, <1>9

\* The end of a round costs a kind of every cycle the rest of the longest round.
LEMMA EndRoundFresh ==
    ASSUME TypeOK, FreshInv, panel # Change, EndRound
    PROVE  FreshInv'
  <1>1. /\ pc = "wait" /\ pc' = "sleep" /\ timer' = 0
        /\ UNCHANGED <<slowAge, haAge, runSlow, held, calm, panel, shownAge>>
    BY DEF EndRound, gateVars, readerVars, eventVars
  <1>2. Elapsed = timer /\ Elapsed' = MaxRound /\ timer <= MaxRound /\ timer \in Nat
    BY <1>1, LimitOf, Numbers DEF Elapsed, FreshInv, TypeOK
  <1>3. /\ Slack' = Slack /\ Slack \in Nat /\ GateAge \in Nat /\ calm \in Nat /\ shownAge \in Nat
        /\ MaxRound \in Nat
    BY <1>1, GateAgeType, Numbers DEF Slack, TypeOK
  <1>4. Idle
    BY <1>1 DEF FreshInv, JustStarted
  <1>5. Idle'
    <2>1. CASE panel \in SlowKinds \/ panel = <<"ha">>
      <3>1. GateAge' = GateAge
        BY <1>1, <2>1 DEF GateAge
      <3>2. GateAge <= Slack + MaxRound
        BY <1>2, <1>3, <1>4 DEF Idle
      <3>. QED
        BY <1>1, <1>2, <1>3, <1>4, <3>1, <3>2 DEF Idle, NoOlder
    <2>2. CASE panel \notin SlowKinds /\ panel # <<"ha">>
      <3>1. GateAge = timer /\ GateAge' = MaxRound
        BY <1>1, <1>2, <2>2 DEF GateAge
      <3>2. calm > MaxRound => shownAge <= MaxRound
        BY <1>2, <1>3, <1>4, <3>1 DEF Idle, NoOlder
      <3>. QED
        BY <1>1, <1>2, <1>3, <3>1, <3>2 DEF Idle, NoOlder
    <2>. QED
      BY <2>1, <2>2
  <1>6. timer' <= Limit'
    <2>1. Limit' = Interval
      BY <1>1 DEF Limit, Sections
    <2>. QED
      BY <1>1, <2>1, Numbers
  <1>. QED
    BY <1>1, <1>5, <1>6 DEF FreshInv, Sections

\* A restart counts as a failure of everything; the check touches no point.
LEMMA ProcessFresh ==
    ASSUME TypeOK, FreshInv, panel # Change, Stop \/ Restart \/ Check \/ CheckFails \/ UNCHANGED vars
    PROVE  FreshInv'
  <1>1. CASE Stop
    BY <1>1 DEF Stop, FreshInv, Sections
  <1>2. CASE Restart
    <2>1. pc = "down" /\ pc' = "sleep" /\ calm' = 0 /\ timer' = timer /\ timer = Interval
      BY <1>2 DEF Restart, FreshInv
    <2>2. Limit' = Interval
      BY <2>1 DEF Limit, Sections
    <2>. QED
      BY <2>1, <2>2, Numbers DEF FreshInv, JustStarted, Sections
  <1>3. CASE Check \/ CheckFails \/ UNCHANGED vars
    <2>1. UNCHANGED <<pc, timer, slowAge, haAge, runSlow, todo, visiting, held, calm, panel, shownAge>>
      BY <1>3 DEF Check, CheckFails, vars, gateVars, loopVars
    <2>. QED
      BY <2>1 DEF FreshInv, JustStarted, Idle, Pending, Quiet, NoOlder, GateAge, Elapsed, Slack, Ahead, Limit
  <1>. QED
    BY <1>1, <1>2, <1>3

\* Everything gets older by one tick, up to the cap, which no bound reaches.
LEMMA TickFresh ==
    ASSUME TypeOK, FreshInv, panel # Change, Tick
    PROVE  FreshInv'
  <1>1. /\ UNCHANGED <<pc, runSlow, todo, visiting, held, panel>>
        /\ slowAge' = Cap(slowAge + 1) /\ haAge' = Cap(haAge + 1) /\ shownAge' = Cap(shownAge + 1)
        /\ pc # "down" => timer < Limit /\ timer' = timer + 1 /\ calm' = Cap(calm + 1)
        /\ pc = "down" => timer' = timer /\ calm' = 0
    BY DEF Tick, loopVars
  <1>2. /\ {timer, slowAge, haAge, calm, shownAge, GateAge, Elapsed, Slack, Period, Old} \subseteq Nat
        /\ Slack' = Slack /\ Limit' = Limit
    BY <1>1, GateAgeType, Numbers DEF Slack, Limit, TypeOK
  <1>3. shownAge' <= shownAge + 1 /\ shownAge' \in Nat
    BY <1>1, <1>2, CapType
  <1>4. \A a \in Nat : a < Old => Cap(a) = a
    BY <1>2 DEF Cap
  <1>5. ASSUME pc # "down", NEW a \in Nat, NoOlder(a)
        PROVE  calm' > a + 1 => shownAge' <= a + 1
    <2>1. calm' <= calm + 1 /\ calm' \in Nat
      BY <1>1, <1>2, <1>5, CapType
    <2>. QED
      BY <1>2, <1>3, <1>5, <2>1 DEF NoOlder
  <1>6. CASE pc = "down"
    BY <1>1, <1>6 DEF FreshInv, Sections
  <1>7. CASE pc \in Sections
    <2>1. /\ pc \notin {"down", "sleep", "wait"} /\ timer' = timer + 1
          /\ timer < MaxCycle /\ Limit = MaxCycle
      BY <1>1, <1>7, LimitOf DEF Sections
    <2>2. timer + 1 + Slack < Old /\ timer + 1 < Old
      BY <1>2, <2>1, Numbers
    <2>3. ASSUME Pending PROVE Pending'
      <3>1. NoOlder(timer + Slack + Period)'
        <4>1. timer + Slack + Period \in Nat /\ timer' + Slack' + Period = timer + Slack + Period + 1
          BY <1>2, <2>1
        <4>2. calm' > timer + Slack + Period + 1 => shownAge' <= timer + Slack + Period + 1
          BY <1>5, <2>1, <2>3, <4>1 DEF Pending
        <4>. QED
          BY <4>1, <4>2 DEF NoOlder
      <3>2. calm' > timer' => Ahead' \/ held'
        <4>1. calm' > timer' => calm > timer
          BY <1>1, <1>2, <2>1, CapType
        <4>2. Ahead => Ahead'
          BY <1>1 DEF Ahead
        <4>. QED
          BY <1>1, <2>3, <4>1, <4>2 DEF Pending
      <3>3. panel \in SlowKinds => slowAge' = timer'
        BY <1>1, <1>2, <1>4, <2>1, <2>2, <2>3 DEF Pending
      <3>4. panel = <<"ha">> => pc = "ha" \/ haAge' = timer'
        BY <1>1, <1>2, <1>4, <2>1, <2>2, <2>3 DEF Pending
      <3>. QED
        BY <1>1, <2>3, <3>1, <3>2, <3>3, <3>4 DEF Pending
    <2>4. ASSUME Quiet PROVE Quiet'
      <3>1. GateAge + 1 < Old /\ GateAge <= Slack + timer
        BY <1>2, <2>2, <2>4 DEF Quiet
      <3>2. GateAge' = GateAge + 1
        <4>1. CASE panel \in SlowKinds
          <5>1. GateAge = slowAge /\ GateAge' = slowAge'
            BY <1>1, <4>1 DEF GateAge
          <5>. QED
            BY <1>1, <1>2, <1>4, <3>1, <5>1
        <4>2. CASE panel \notin SlowKinds
          <5>1. GateAge = haAge /\ GateAge' = haAge'
            BY <1>1, <2>4, <4>2 DEF Quiet, GateAge
          <5>. QED
            BY <1>1, <1>2, <1>4, <3>1, <5>1
        <4>. QED
          BY <4>1, <4>2
      <3>3. NoOlder(GateAge)'
        <4>1. calm' > GateAge + 1 => shownAge' <= GateAge + 1
          BY <1>2, <1>5, <2>1, <2>4 DEF Quiet
        <4>. QED
          BY <3>2, <4>1 DEF NoOlder
      <3>4. GateAge' <= Slack' + timer'
        BY <1>2, <2>1, <3>1, <3>2
      <3>. QED
        BY <1>1, <2>4, <3>3, <3>4 DEF Quiet
    <2>5. timer' <= Limit'
      BY <1>2, <2>1, Numbers
    <2>6. Pending' \/ Quiet'
      BY <1>7, <2>3, <2>4 DEF FreshInv
    <2>. QED
      BY <1>1, <2>1, <2>5, <2>6 DEF FreshInv
  <1>8. CASE pc \in {"sleep", "wait"}
    <2>1. pc # "down" /\ pc \notin Sections /\ timer' = timer + 1 /\ timer < Limit
      BY <1>1, <1>8 DEF Sections
    <2>2. Limit \in Nat /\ Elapsed' = Elapsed + 1 /\ Elapsed + 1 <= Period
          /\ (pc = "sleep" => Limit = Interval)
      <3>1. CASE pc = "sleep"
        <4>1. Limit = Interval /\ Elapsed = MaxRound + timer /\ Elapsed' = MaxRound + timer'
          BY <1>1, <3>1, LimitOf DEF Elapsed
        <4>. QED
          BY <1>2, <2>1, <4>1, Numbers
      <3>2. CASE pc = "wait"
        <4>1. Limit = MaxRound /\ Elapsed = timer /\ Elapsed' = timer'
          BY <1>1, <3>2, LimitOf DEF Elapsed
        <4>. QED
          BY <1>2, <2>1, <3>2, <4>1, Numbers
      <3>. QED
        BY <1>8, <3>1, <3>2
    <2>3. Idle
      <3>1. ~JustStarted
        BY <1>2, <2>1, <2>2 DEF JustStarted
      <3>. QED
        BY <1>8, <3>1 DEF FreshInv
    <2>4. GateAge + 1 < Old /\ GateAge <= Slack + Elapsed
      BY <1>2, <2>2, <2>3, Numbers DEF Idle
    <2>5. GateAge' = GateAge + 1
      <3>1. CASE panel \in SlowKinds
        <4>1. GateAge = slowAge /\ GateAge' = slowAge'
          BY <1>1, <3>1 DEF GateAge
        <4>. QED
          BY <1>1, <1>2, <1>4, <2>4, <4>1
      <3>2. CASE panel \notin SlowKinds /\ panel = <<"ha">>
        <4>1. GateAge = haAge /\ GateAge' = haAge'
          BY <1>1, <3>2 DEF GateAge
        <4>. QED
          BY <1>1, <1>2, <1>4, <2>4, <4>1
      <3>3. CASE panel \notin SlowKinds /\ panel # <<"ha">>
        <4>1. GateAge = Elapsed /\ GateAge' = Elapsed'
          BY <1>1, <3>3 DEF GateAge
        <4>. QED
          BY <2>2, <4>1
      <3>. QED
        BY <3>1, <3>2, <3>3
    <2>6. calm' > GateAge + 1 => shownAge' <= GateAge + 1
      BY <1>2, <1>5, <2>1, <2>3 DEF Idle
    <2>7. GateAge' <= Slack' + Elapsed'
      BY <1>2, <2>2, <2>4, <2>5
    <2>8. Idle'
      BY <2>5, <2>6, <2>7 DEF Idle, NoOlder
    <2>9. timer' <= Limit'
      BY <1>2, <2>1, <2>2
    <2>. QED
      BY <1>1, <2>1, <2>8, <2>9 DEF FreshInv
  <1>. QED
    BY <1>6, <1>7, <1>8 DEF TypeOK

-----------------------------------------------------------------------------
(* The theorem. *)

\* The first cycle has nothing to keep fresh.
LEMMA FreshStart == Init => Guarded
  <1>. SUFFICES ASSUME Init PROVE FreshInv
    BY DEF Guarded
  <1>1. pc = "sleep" /\ timer = Interval /\ calm = 0
    BY DEF Init
  <1>. QED
    BY <1>1, LimitOf, Numbers DEF FreshInv, JustStarted, Sections

\* Every step keeps the invariant.
LEMMA FreshStep == TypeOK /\ Guarded /\ [Next]_vars => Guarded'
  <1>. SUFFICES ASSUME TypeOK, Guarded, [Next]_vars, panel' # Change PROVE FreshInv'
    BY DEF Guarded
  <1>1. panel' = panel
    <2>1. CASE Next /\ ~Collect
      BY <2>1 DEF Next, StartCycle, EndRound, Stop, Restart, Tick, Check, CheckFails, readerVars, eventVars
    <2>2. CASE CollectHA \/ ClusterStatus \/ TransportNodes \/ NodesDone \/ WriteCapacity \/ Write
      BY <2>2 DEF CollectHA, ClusterStatus, TransportNodes, NodesDone, WriteCapacity, Write, readerVars, eventVars
    <2>3. CASE \E n \in Nodes : NodeStatus(n) \/ NodeInterfaces(n) \/ InterfaceStats(n)
      BY <2>3 DEF NodeStatus, NodeInterfaces, InterfaceStats, readerVars, eventVars
    <2>4. CASE Managers \/ LogicalRouters \/ Alarms \/ CapacityUsage \/ NSServices
      BY <2>4 DEF Managers, LogicalRouters, Alarms, CapacityUsage, NSServices, Section, readerVars, eventVars
    <2>5. CASE CapacityCollect
      BY <2>5 DEF CapacityCollect, LBCredits, Tier0s, Tier1s, Segments, GatewayPolicies, Groups,
                  NATPerT1, Optional, Section, readerVars, eventVars
    <2>6. CASE UNCHANGED vars
      BY <2>6 DEF vars, readerVars, eventVars
    <2>. QED
      BY <2>1, <2>2, <2>3, <2>4, <2>5, <2>6 DEF Next, Collect
  <1>2. panel # Change /\ FreshInv
    BY <1>1 DEF Guarded
  <1>3. CASE StartCycle \/ EndRound \/ Tick
    BY <1>2, <1>3, StartFresh, EndRoundFresh, TickFresh
  <1>4. CASE Stop \/ Restart \/ Check \/ CheckFails \/ UNCHANGED vars
    BY <1>2, <1>4, ProcessFresh
  <1>5. CASE Collect
    BY <1>2, <1>5, HAFresh, ListingFresh, LoopFresh, NodesDoneFresh, UsualFresh, CapacityFresh,
       WriteCapacityFresh, WriteFresh DEF Collect
  <1>. QED
    BY <1>3, <1>4, <1>5 DEF Next

\* Whatever other section, node or bucket fails, and however the rounds and
\* gates fall, a panel whose own calls have not failed for as long as its
\* cadence allows is no staler than that.
THEOREM KeptFresh == Spec => []Fresh
  <1>1. TypeOK /\ Guarded => Fresh
    <2>. SUFFICES ASSUME TypeOK, FreshInv, panel # Change, calm > Bound(panel)
                  PROVE  shownAge <= Bound(panel)
      BY DEF Fresh, Guarded
    <2>1. Bound(panel) = Period + MaxCycle + Slack
      <3>1. panel \in SlowKinds => panel # <<"ha">>
        BY PanelName, KindNames DEF SlowNames, CapacityNames
      <3>. QED
        BY <3>1 DEF Bound, Slack
    <2>2. /\ {calm, shownAge, timer, GateAge, Slack, Period, MaxCycle, MaxRound, Interval} \subseteq Nat
          /\ Period = MaxRound + Interval /\ MaxCycle <= MaxRound
      BY GateAgeType, Numbers DEF TypeOK
    <2>3. CASE pc = "down"
      BY <2>1, <2>2, <2>3 DEF FreshInv
    <2>4. CASE pc \in Sections
      <3>1. timer <= MaxCycle
        BY <2>4, LimitOf DEF FreshInv, Sections
      <3>2. CASE Pending
        BY <2>1, <2>2, <3>1, <3>2 DEF Pending, NoOlder
      <3>3. CASE Quiet
        BY <2>1, <2>2, <3>1, <3>3 DEF Quiet, NoOlder
      <3>. QED
        BY <2>4, <3>2, <3>3 DEF FreshInv
    <2>5. CASE pc \in {"sleep", "wait"}
      <3>1. Elapsed <= Period
        BY <2>2, <2>5, LimitOf DEF FreshInv, Elapsed
      <3>2. CASE JustStarted
        BY <2>1, <2>2, <3>2 DEF JustStarted
      <3>3. CASE Idle
        BY <2>1, <2>2, <3>1, <3>3, GateAgeType DEF Idle, NoOlder
      <3>. QED
        BY <2>5, <3>2, <3>3 DEF FreshInv
    <2>. QED
      BY <2>3, <2>4, <2>5 DEF TypeOK
  <1>. QED
    BY <1>1, FreshStart, FreshStep, TypeCorrect, PTL DEF Spec
=============================================================================
