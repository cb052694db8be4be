-------------------------- MODULE HACollectorProofs --------------------------
(***************************************************************************)
(* Proofs about HACollector, for any T1s, edge nodes, watchlist size,      *)
(* modes and names and any number of moves and faults: type correctness,   *)
(* the size and healing of the watchlist, that no failover is made up and, *)
(* when a cycle gets all its answers or none, that none goes untold.       *)
(***************************************************************************)
EXTENDS HAFeed, FiniteSetTheorems, TLAPS

-----------------------------------------------------------------------------
(* Numbers and finite sets. *)

\* A set of naturals that is not empty has a least element.
LEMMA LeastNatural ==
    ASSUME NEW S \in SUBSET Nat, S # {}
    PROVE  \E m \in S : \A k \in S : m <= k
  <1>1. PICK m \in S : \A k \in S : ~ (<<k, m>> \in OpToRel(<, Nat))
    BY NatLessThanWellFounded, WFMin
  <1>2. \A k \in S : ~ (k < m)
    <2>. SUFFICES ASSUME NEW k \in S, k < m PROVE FALSE
      OBVIOUS
    <2>1. <<k, m>> \in Nat \X Nat /\ <<k, m>>[1] < <<k, m>>[2]
      OBVIOUS
    <2>2. <<k, m>> \in OpToRel(<, Nat)
      BY <2>1, Zenon DEF OpToRel
    <2>. QED
      BY <1>1, <2>2
  <1>. QED
    BY <1>2

\* Every set of T1s is finite, and no larger than the set of all of them.
LEMMA T1sFinite ==
    ASSUME NEW S \in SUBSET T1s
    PROVE  /\ IsFiniteSet(S) /\ Cardinality(S) \in Nat
           /\ Cardinality(S) <= Cardinality(T1s) /\ Cardinality(T1s) \in Nat
  BY T1sAssumption, FS_Subset, FS_CardinalityType

\* When there are votes, a node wins them.
LEMMA MostVotes ==
    ASSUME NEW o \in Nodes, Votes(o) # 0
    PROVE  \E n \in Nodes : \A m \in Nodes :
              Votes(n) > Votes(m) \/ (Votes(n) = Votes(m) /\ n <= m)
  <1>1. \A n \in Nodes : Votes(n) \in Nat /\ Votes(n) <= Cardinality(T1s)
    BY T1sFinite DEF Votes
  <1>2. Cardinality(T1s) \in Nat /\ Nodes \subseteq Nat
    BY T1sFinite, NodesAssumption
  <1>. DEFINE Lacking(n) == Cardinality(T1s) - Votes(n)
  <1>3. PICK f \in Nodes : \A m \in Nodes : Votes(m) <= Votes(f)
    <2>. DEFINE S == {Lacking(n) : n \in Nodes}
    <2>1. S \in SUBSET Nat /\ S # {}
      BY <1>1, <1>2
    <2>2. PICK l \in S : \A k \in S : l <= k
      BY <2>1, LeastNatural
    <2>3. PICK f \in Nodes : l = Lacking(f)
      BY <2>2
    <2>4. ASSUME NEW m \in Nodes PROVE Votes(m) <= Votes(f)
      <3>1. Lacking(f) <= Lacking(m)
        BY <2>2, <2>3
      <3>. QED
        BY <3>1, <1>1, <1>2
    <2>. QED
      BY <2>4
  <1>4. PICK n \in Nodes : /\ Votes(n) = Votes(f)
                           /\ \A m \in Nodes : Votes(m) = Votes(f) => n <= m
    <2>. DEFINE S == {n \in Nodes : Votes(n) = Votes(f)}
    <2>1. S \in SUBSET Nat /\ S # {}
      BY <1>2
    <2>2. PICK n \in S : \A k \in S : n <= k
      BY <2>1, LeastNatural
    <2>. QED
      BY <2>2
  <1>5. ASSUME NEW m \in Nodes
        PROVE  Votes(n) > Votes(m) \/ (Votes(n) = Votes(m) /\ n <= m)
    BY <1>1, <1>3, <1>4
  <1>. QED
    BY <1>5

\* mostFrequent answers with no node when there is no vote, or else with one
\* that no other outvotes.
LEMMA ConsensusWins ==
    \/ Consensus = NoNode
    \/ Consensus \in Nodes /\ \A m \in Nodes : /\ Votes(m) \in Nat
                                               /\ Votes(Consensus) >= Votes(m)
                                               /\ Votes(Consensus) # 0
  <1>. SUFFICES ASSUME NEW o \in Nodes, Votes(o) # 0
                PROVE  Consensus \in Nodes /\ \A m \in Nodes :
                          /\ Votes(m) \in Nat /\ Votes(Consensus) >= Votes(m)
                          /\ Votes(Consensus) # 0
    BY DEF Consensus
  <1>. DEFINE Best(n) == \A m \in Nodes :
                 Votes(n) > Votes(m) \/ (Votes(n) = Votes(m) /\ n <= m)
  <1>1. Consensus = CHOOSE n \in Nodes : Best(n)
    BY DEF Consensus
  <1>2. \E n \in Nodes : Best(n)
    BY MostVotes
  <1>3. Consensus \in Nodes /\ Best(Consensus)
    <2>. HIDE DEF Best
    <2>. QED
      BY <1>1, <1>2
  <1>4. \A m \in Nodes : Votes(m) \in Nat
    BY T1sFinite DEF Votes
  <1>. QED
    BY <1>3, <1>4

\* mostFrequent answers with an edge node, or with none.
LEMMA ConsensusType == Consensus \in Nodes \cup {NoNode}
  BY ConsensusWins

-----------------------------------------------------------------------------
(* The refresh. *)

\* refreshWatchlist keeps what Kept says, adds listed T1s only and leaves a
\* well-formed watchlist.
LEMMA RefreshResult ==
    ASSUME NEW w \in Watchlists, w.pinned \subseteq w.watch,
           NEW lst \in SUBSET T1s, NEW r \in Refresh(w, lst)
    PROVE  /\ r \in Watchlists /\ r.pinned \subseteq r.watch
           /\ Kept(w, lst) \subseteq r.watch
           /\ r.watch \subseteq Kept(w, lst) \cup lst
           /\ r.miss = MissAfter(w, lst)
  <1>. DEFINE kept == Kept(w, lst)
              pins == Pins(kept, lst)
  <1>1. PICK P \in Picks(kept \cup pins, lst) :
           r = [watch |-> kept \cup pins \cup P,
                pinned |-> (w.pinned \cap kept) \cup pins,
                miss |-> MissAfter(w, lst)]
    BY DEF Refresh
  <1>2. kept \subseteq w.watch /\ w.watch \subseteq T1s /\ w.miss \in [T1s -> Nat]
    BY DEF Kept, Watchlists
  <1>3. pins \subseteq lst
    BY DEF Pins
  <1>4. P \subseteq lst
    BY DEF Picks
  <1>5. MissAfter(w, lst) \in [T1s -> Nat]
    BY <1>2 DEF MissAfter
  <1>. HIDE DEF kept, pins
  <1>6. r.watch = kept \cup pins \cup P /\ r.miss = MissAfter(w, lst)
    BY <1>1
  <1>7. r \in Watchlists /\ r.pinned \subseteq r.watch
    BY <1>1, <1>2, <1>3, <1>4, <1>5 DEF Watchlists
  <1>. QED
    BY <1>3, <1>4, <1>6, <1>7 DEF kept

-----------------------------------------------------------------------------
(* Type correctness. *)

\* An empty watchlist is one.
LEMMA EmptyWatchlistType == EmptyWatchlist \in Watchlists /\ EmptyWatchlist.pinned \subseteq EmptyWatchlist.watch
  BY DEF EmptyWatchlist, Watchlists

\* What a cycle leaves behind has the right type, saved or not.
LEMMA EvaluateType ==
    ASSUME TypeOK, Evaluate
    PROVE  /\ prev' \in [T1s -> Nodes \cup {NoNode}]
           /\ event'.changed \subseteq T1s /\ event'.observed \in Nat
           /\ event'.from \in Nodes \cup {NoNode} /\ event'.to \in Nodes \cup {NoNode}
           /\ Bumped \in Watchlists /\ Bumped.pinned \subseteq Bumped.watch
  <1>1. prev' \in [T1s -> Nodes \cup {NoNode}]
    BY DEF TypeOK, Evaluate, NewPrev, Answered
  <1>2. /\ event'.changed \subseteq T1s /\ event'.observed \in Nat
        /\ event'.from \in Nodes \cup {NoNode} /\ event'.to \in Nodes \cup {NoNode}
    <2>1. CASE event' = NoEvent
      BY <2>1 DEF NoEvent
    <2>2. ASSUME NEW t \in Changed,
                 event' = [changed |-> Changed, observed |-> Cardinality(Answered),
                           from |-> prev[t], to |-> seen[t]]
          PROVE  /\ event'.changed \subseteq T1s /\ event'.observed \in Nat
                 /\ event'.from \in Nodes \cup {NoNode} /\ event'.to \in Nodes \cup {NoNode}
      <3>1. Answered \subseteq T1s /\ Changed \subseteq T1s
        BY DEF Answered, Changed
      <3>2. Cardinality(Answered) \in Nat
        BY <3>1, T1sFinite
      <3>3. prev[t] \in Nodes \cup {NoNode} /\ seen[t] \in Nodes \cup {NoNode}
        BY <3>1 DEF TypeOK, Changed, Answered
      <3>. QED
        BY <2>2, <3>1, <3>2, <3>3
    <2>. QED
      BY <2>1, <2>2 DEF Evaluate, ChangeEvents
  <1>3. Bumped \in Watchlists /\ Bumped.pinned \subseteq Bumped.watch
    BY DEF TypeOK, Bumped, Watchlists
  <1>. QED
    BY <1>1, <1>2, <1>3

\* A refresh of any watchlist starts a well-typed cycle.
LEMMA ListType ==
    ASSUME TypeOK, NEW w \in Watchlists, w.pinned \subseteq w.watch,
           ListAndRefresh(w), faults' \in Nat
    PROVE  TypeOK'
  <1>1. OnCluster \in SUBSET T1s
    BY DEF OnCluster
  <1>2. ci' \in Watchlists /\ ci'.pinned \subseteq ci'.watch
    BY <1>1, RefreshResult DEF ListAndRefresh
  <1>3. absentRun' \in [T1s -> Nat]
    BY DEF TypeOK, ListAndRefresh
  <1>4. event' = NoEvent /\ NoEvent.changed = {} /\ NoEvent.observed = 0
        /\ NoEvent.from = NoNode /\ NoEvent.to = NoNode
    BY DEF ListAndRefresh, NoEvent
  <1>5. seen' \in [T1s -> Nodes \cup {NoNode, Unseen}] /\ Answered' = {} /\ missed' = {}
    BY DEF ListAndRefresh, Answered
  <1>6. pc' = "fetch" /\ listed' \subseteq T1s
    BY <1>1 DEF ListAndRefresh
  <1>. QED
    BY <1>2, <1>3, <1>4, <1>5, <1>6 DEF TypeOK, ListAndRefresh, nsxVars

\* The end of a cycle is well typed, whatever becomes of the file.
LEMMA EndCycleType ==
    ASSUME TypeOK, EndCycle,
           active' \in [T1s -> Nodes \cup {NoNode, Gone}], t0' \in BOOLEAN,
           mode' \in Modes, modesUsed' \subseteq Modes,
           file' \in Watchlists, file'.pinned \subseteq file'.watch,
           prev' \in [T1s -> Nodes \cup {NoNode}],
           event'.changed \subseteq T1s, event'.observed \in Nat,
           event'.from \in Nodes \cup {NoNode}, event'.to \in Nodes \cup {NoNode},
           moved' \subseteq T1s, absentRun' \in [T1s -> Nat], missedLast' \subseteq T1s,
           unsaved' \in Nat, faults' \in Nat, moves' \in Nat
    PROVE  TypeOK'
  <1>1. seen' \in [T1s -> Nodes \cup {NoNode, Unseen}] /\ Answered' = {} /\ missed' = {}
    BY DEF EndCycle, Answered
  <1>. QED
    BY <1>1, EmptyWatchlistType DEF TypeOK, EndCycle

\* The initial states are well typed.
LEMMA TypeInit == Init => TypeOK
  <1>. SUFFICES ASSUME Init PROVE TypeOK
    OBVIOUS
  <1>1. /\ active \in [T1s -> Nodes \cup {NoNode, Gone}]
        /\ prev \in [T1s -> Nodes \cup {NoNode}]
        /\ seen \in [T1s -> Nodes \cup {NoNode, Unseen}]
        /\ absentRun \in [T1s -> Nat]
    BY DEF Init
  <1>2. Answered = {} /\ missed = {}
    BY DEF Init, Answered
  <1>. QED
    BY <1>1, <1>2, EmptyWatchlistType DEF Init, TypeOK, NoEvent

\* Every step keeps the types.
LEMMA TypeStep == TypeOK /\ [Next]_vars => TypeOK'
  <1>. SUFFICES ASSUME TypeOK, [Next]_vars PROVE TypeOK'
    OBVIOUS
  <1>1. CASE NSXMove
    <2>1. UnchangedCollector /\ Answered' = Answered
      BY <1>1 DEF NSXMove, UnchangedCollector, cycleVars, Answered
    <2>2. ASSUME NEW t \in T1s, NEW n \in Nodes \cup {NoNode, Gone}, MoveT1(t, n)
          PROVE  TypeOK'
      BY <2>1, <2>2 DEF TypeOK, MoveT1, UnchangedCollector, cycleVars
    <2>3. CASE ToggleT0
      BY <2>1, <2>3 DEF TypeOK, ToggleT0, UnchangedCollector, cycleVars
    <2>. QED
      BY <1>1, <2>2, <2>3 DEF NSXMove
  <1>2. CASE StartCycle
    <2>1. file \in Watchlists /\ file.pinned \subseteq file.watch /\ faults' \in Nat
      BY <1>2 DEF TypeOK, StartCycle
    <2>. QED
      BY <1>2, <2>1, ListType DEF StartCycle
  <1>3. CASE DropCluster
    <2>1. /\ file' \in Watchlists /\ file'.pinned \subseteq file'.watch
          /\ absentRun' \in [T1s -> Nat]
      BY <1>3, EmptyWatchlistType DEF TypeOK, DropCluster
    <2>2. Answered' = Answered
      BY <1>3 DEF DropCluster, cycleVars, Answered
    <2>. QED
      BY <1>3, <2>1, <2>2 DEF TypeOK, DropCluster, nsxVars, cycleVars, NoEvent
  <1>4. ASSUME NEW t \in T1s, NEW n \in Nodes \cup {NoNode}, Answer(t, n), faults' \in Nat
        PROVE  TypeOK'
    <2>1. seen' \in [T1s -> Nodes \cup {NoNode, Unseen}] /\ Answered' \subseteq Answered \cup {t}
      BY <1>4 DEF TypeOK, Answer, Answered
    <2>2. t \in ci.watch
      BY <1>4 DEF Answer, Waiting
    <2>. QED
      BY <1>4, <2>1, <2>2 DEF TypeOK, Answer, nsxVars
  <1>5. ASSUME NEW t \in T1s, Miss(t), faults' \in Nat PROVE TypeOK'
    <2>1. t \in ci.watch /\ Answered' = Answered
      BY <1>5 DEF Miss, Waiting, Answered
    <2>. QED
      BY <1>5, <2>1 DEF TypeOK, Miss, nsxVars
  <1>6. ASSUME NEW t \in T1s, Fetch(t) \/ NotFound(t) \/ FetchFails(t) \/ NoActive(t)
        PROVE  TypeOK'
    <2>1. faults' \in Nat
      BY <1>6 DEF TypeOK, Fetch, NotFound, FetchFails, NoActive, Fault
    <2>2. CASE Fetch(t)
      <3>. DEFINE n == IF active[t] = Gone THEN NoNode ELSE active[t]
      <3>1. n \in Nodes \cup {NoNode}
        BY DEF TypeOK
      <3>2. Answer(t, n)
        BY <2>2 DEF Fetch
      <3>. HIDE DEF n
      <3>. QED
        BY <1>4, <2>1, <3>1, <3>2
    <2>3. CASE NoActive(t)
      BY <1>4, <2>1, <2>3 DEF NoActive
    <2>4. CASE NotFound(t) \/ FetchFails(t)
      BY <1>5, <2>1, <2>4 DEF NotFound, FetchFails
    <2>. QED
      BY <1>6, <2>2, <2>3, <2>4
  <1>7. CASE Save \/ SaveFails
    <2>1. Evaluate /\ EndCycle
      BY <1>7 DEF Save, SaveFails, Evaluate
    <2>2. /\ file' \in Watchlists /\ file'.pinned \subseteq file'.watch
          /\ unsaved' \in Nat /\ faults' \in Nat /\ missedLast' \subseteq T1s
      BY <1>7, <2>1, EvaluateType DEF TypeOK, Save, SaveFails, Fault, Watchlists
    <2>3. UNCHANGED <<nsxVars, mode, modesUsed, absentRun>>
      BY <2>1 DEF Evaluate
    <2>4. /\ active' \in [T1s -> Nodes \cup {NoNode, Gone}] /\ t0' \in BOOLEAN
          /\ mode' \in Modes /\ modesUsed' \subseteq Modes /\ moved' \subseteq T1s
          /\ absentRun' \in [T1s -> Nat] /\ moves' \in Nat
      BY <2>3 DEF TypeOK, nsxVars
    <2>. QED
      BY <2>1, <2>2, <2>4, EvaluateType, EndCycleType
  <1>8. CASE LoadFails
    BY <1>8, EmptyWatchlistType, ListType DEF TypeOK, LoadFails, Fault
  <1>9. CASE ListFails
    <2>1. Answered' = Answered
      BY <1>9 DEF ListFails, cycleVars, Answered
    <2>. QED
      BY <1>9, <2>1 DEF TypeOK, ListFails, Fault, nsxVars, cycleVars, NoEvent
  <1>10. CASE Outage
    <2>1. Answered' = Answered /\ missed' = ci.watch /\ ci' = ci
      BY <1>10 DEF Outage, Answered
    <2>. QED
      BY <1>10, <2>1 DEF TypeOK, Outage, Fault, nsxVars
  <1>11. ASSUME NEW m \in Modes, Crash(m) PROVE TypeOK'
    <2>1. /\ EndCycle /\ mode' = m /\ modesUsed' = modesUsed \cup {m}
          /\ prev' = [t \in T1s |-> NoNode] /\ moved' = {}
          /\ event' = NoEvent /\ UNCHANGED <<active, t0, moves, file, absentRun, missedLast>>
      BY <1>11 DEF Crash
    <2>2. faults' \in Nat /\ unsaved' \in Nat
      BY <1>11 DEF TypeOK, Crash, Fault
    <2>3. /\ event'.changed = {} /\ event'.observed = 0
          /\ event'.from = NoNode /\ event'.to = NoNode
      BY <2>1 DEF NoEvent
    <2>4. prev' \in [T1s -> Nodes \cup {NoNode}] /\ modesUsed' \subseteq Modes
      BY <2>1 DEF TypeOK
    <2>. QED
      BY <2>1, <2>2, <2>3, <2>4, EndCycleType DEF TypeOK
  <1>12. CASE UNCHANGED vars
    <2>1. Answered' = Answered
      BY <1>12 DEF vars, cycleVars, Answered
    <2>. QED
      BY <1>12, <2>1 DEF TypeOK, vars, nsxVars, cycleVars
  <1>. QED
    BY <1>1, <1>2, <1>3, <1>6, <1>7, <1>8, <1>9, <1>10, <1>11, <1>12
    DEF Next, CycleStep, FaultStep

\* HACollector is type correct; in particular only watched T1s are pinned,
\* answer or are missed, and nothing of a cycle survives it.
THEOREM TypeCorrect == Spec => []TypeOK
  BY TypeInit, TypeStep, PTL DEF Spec

-----------------------------------------------------------------------------
(* No failover is made up. *)

\* What the process remembers of a T1 that has not moved since it started is
\* where the T1 is, or nothing.
MemoryInv ==
    /\ \A t \in T1s \ moved : /\ prev[t] \in {NoNode, active[t]}
                              /\ seen[t] \in {Unseen, NoNode, active[t]}
    /\ NoFalseFailover

\* Every step keeps that memory.
LEMMA MemoryStep == TypeOK /\ MemoryInv /\ [Next]_vars => MemoryInv'
  <1>. SUFFICES ASSUME TypeOK, MemoryInv, [Next]_vars PROVE MemoryInv'
    OBVIOUS
  <1>. USE DEF MemoryInv, NoFalseFailover
  <1>1. CASE NSXMove
    <2>1. UNCHANGED <<prev, seen, event>>
      BY <1>1 DEF NSXMove, UnchangedCollector, cycleVars
    <2>2. moved \subseteq moved' /\ \A t \in T1s \ moved' : active'[t] = active[t]
      BY <1>1 DEF NSXMove, MoveT1, ToggleT0, TypeOK
    <2>. QED
      BY <2>1, <2>2
  <1>2. CASE StartCycle \/ LoadFails
    BY <1>2 DEF StartCycle, LoadFails, ListAndRefresh, nsxVars, NoEvent
  <1>3. CASE DropCluster \/ ListFails
    BY <1>3 DEF DropCluster, ListFails, nsxVars, cycleVars, NoEvent
  <1>4. ASSUME NEW t \in T1s, Fetch(t) \/ NoActive(t) PROVE MemoryInv'
    <2>1. /\ UNCHANGED <<active, moved, prev, event>>
          /\ \A u \in T1s : seen'[u] = seen[u] \/ seen'[u] \in {NoNode, active[u]}
      BY <1>4 DEF Fetch, NoActive, Answer, nsxVars, TypeOK
    <2>. QED
      BY <2>1
  <1>5. ASSUME NEW t \in T1s, NotFound(t) \/ FetchFails(t) PROVE MemoryInv'
    BY <1>5 DEF NotFound, FetchFails, Miss, nsxVars
  <1>6. CASE Save \/ SaveFails
    <2>1. /\ UNCHANGED <<active, moved>> /\ seen' = [t \in T1s |-> Unseen] /\ prev' = NewPrev
          /\ event' \in ChangeEvents
      BY <1>6 DEF Save, SaveFails, Evaluate, EndCycle, nsxVars
    <2>2. Changed \subseteq moved
      BY DEF Changed, Answered, TypeOK
    <2>3. event'.changed \subseteq moved
      <3>1. CASE event' = NoEvent
        <4>1. NoEvent.changed = {}
          BY DEF NoEvent
        <4>. QED
          BY <3>1, <4>1
      <3>2. ASSUME NEW t \in Changed,
                   event' = [changed |-> Changed, observed |-> Cardinality(Answered),
                             from |-> prev[t], to |-> seen[t]]
            PROVE  event'.changed \subseteq moved
        <4>1. event'.changed = Changed
          BY <3>2
        <4>. QED
          BY <2>2, <4>1
      <3>. QED
        BY <2>1, <3>1, <3>2 DEF ChangeEvents
    <2>4. \A t \in T1s \ moved : prev'[t] \in {NoNode, active[t]}
      BY <2>1 DEF NewPrev, Answered, TypeOK
    <2>. QED
      BY <2>1, <2>3, <2>4
  <1>7. CASE Outage
    BY <1>7 DEF Outage, nsxVars
  <1>8. ASSUME NEW m \in Modes, Crash(m) PROVE MemoryInv'
    BY <1>8 DEF Crash, EndCycle, NoEvent
  <1>9. CASE UNCHANGED vars
    BY <1>9 DEF vars, nsxVars, cycleVars
  <1>. QED
    BY <1>1, <1>2, <1>3, <1>4, <1>5, <1>6, <1>7, <1>8, <1>9 DEF Next, CycleStep, FaultStep

\* A change event only names T1s that moved since the process started, whatever
\* failed, restarted, left, joined or was substituted.
THEOREM Faithful == Spec => []NoFalseFailover
  <1>1. Init => MemoryInv
    BY DEF Init, MemoryInv, NoFalseFailover, NoEvent
  <1>2. MemoryInv => NoFalseFailover
    BY DEF MemoryInv
  <1>. QED
    BY <1>1, <1>2, MemoryStep, TypeCorrect, PTL DEF Spec

-----------------------------------------------------------------------------
(* Substitution of the T1s that left. *)

\* The miss count of a watched T1, on disk and in memory, keeps up with the
\* refreshes that did not list it, but for the cycles that were never saved.
HealInv ==
    /\ pc = "idle" => \A t \in file.watch : absentRun[t] <= file.miss[t] + unsaved
    /\ pc = "fetch" =>
          /\ \A t \in file.watch : absentRun[t] <= file.miss[t] + unsaved + 1
          /\ \A t \in ci.watch : /\ absentRun[t] <= ci.miss[t] + unsaved
                                 /\ absentRun[t] <= 1 + unsaved

\* A refresh keeps a T1 that is not listed only at its first miss, and counts it.
LEMMA KeptAbsent ==
    ASSUME NEW w \in Watchlists, w.pinned \subseteq w.watch,
           NEW lst \in SUBSET T1s, NEW r \in Refresh(w, lst), NEW t \in r.watch \ lst
    PROVE  t \in w.watch /\ w.miss[t] = 0 /\ r.miss[t] = 1
  <1>1. t \in Kept(w, lst) /\ r.miss = MissAfter(w, lst)
    BY RefreshResult
  <1>2. /\ t \in w.watch /\ t \notin w.pinned /\ w.miss[t] + 1 < 2 /\ t \in T1s
        /\ w.miss[t] \in Nat
    BY <1>1 DEF Kept, MissThreshold, Watchlists
  <1>. QED
    BY <1>1, <1>2 DEF MissAfter, MissThreshold

\* Every step keeps the miss counts up.
LEMMA HealStep == TypeOK /\ HealInv /\ [Next]_vars => HealInv'
  <1>. SUFFICES ASSUME TypeOK, HealInv, [Next]_vars PROVE HealInv'
    OBVIOUS
  <1>0. /\ \A t \in T1s : absentRun[t] \in Nat /\ file.miss[t] \in Nat /\ ci.miss[t] \in Nat
        /\ unsaved \in Nat /\ file.watch \subseteq T1s /\ ci.watch \subseteq T1s
    BY DEF TypeOK, Watchlists
  <1>1. CASE NSXMove \/ UNCHANGED vars
    BY <1>1 DEF HealInv, NSXMove, UnchangedCollector, vars, cycleVars
  <1>2. ASSUME NEW w \in Watchlists, w.pinned \subseteq w.watch, ListAndRefresh(w),
               w = file \/ w = EmptyWatchlist
        PROVE  HealInv'
    <2>1. /\ pc = "idle" /\ pc' = "fetch" /\ UNCHANGED <<file, unsaved>>
          /\ ci' \in Refresh(w, OnCluster) /\ OnCluster \in SUBSET T1s
          /\ absentRun' = [t \in T1s |-> IF t \in ci'.watch \ OnCluster
                                         THEN absentRun[t] + 1 ELSE 0]
      BY <1>2 DEF ListAndRefresh, OnCluster
    <2>2. ci' \in Watchlists
      BY <1>2, <2>1, RefreshResult
    <2>3. \A t \in file.watch : absentRun'[t] <= file.miss[t] + unsaved + 1
      BY <1>0, <2>1 DEF HealInv
    <2>4. ASSUME NEW t \in ci'.watch
          PROVE  absentRun'[t] <= ci'.miss[t] + unsaved /\ absentRun'[t] <= 1 + unsaved
      <3>1. t \in T1s /\ ci'.miss[t] \in Nat
        BY <2>2 DEF Watchlists
      <3>2. CASE t \in OnCluster
        BY <1>0, <2>1, <3>1, <3>2
      <3>3. CASE t \notin OnCluster
        <4>1. t \in w.watch /\ w.miss[t] = 0 /\ ci'.miss[t] = 1
          BY <1>2, <2>1, <3>3, KeptAbsent
        <4>2. w = file
          BY <1>2, <4>1 DEF EmptyWatchlist
        <4>. QED
          BY <1>0, <2>1, <3>1, <3>3, <4>1, <4>2 DEF HealInv
      <3>. QED
        BY <3>2, <3>3
    <2>. QED
      BY <2>1, <2>3, <2>4 DEF HealInv
  <1>3. CASE StartCycle \/ LoadFails
    <2>1. file \in Watchlists /\ file.pinned \subseteq file.watch
      BY DEF TypeOK
    <2>. QED
      BY <1>2, <1>3, <2>1, EmptyWatchlistType DEF StartCycle, LoadFails
  <1>4. CASE DropCluster
    BY <1>0, <1>4 DEF HealInv, DropCluster, EmptyWatchlist
  <1>5. CASE ListFails \/ Outage
    BY <1>5 DEF HealInv, ListFails, Outage, cycleVars
  <1>6. ASSUME NEW t \in T1s, Fetch(t) \/ NoActive(t) \/ NotFound(t) \/ FetchFails(t)
        PROVE  HealInv'
    BY <1>6 DEF HealInv, Fetch, NoActive, Answer, NotFound, FetchFails, Miss
  <1>7. CASE Save
    <2>1. /\ pc = "fetch" /\ pc' = "idle" /\ file' = Bumped /\ UNCHANGED <<absentRun, unsaved>>
      BY <1>7 DEF Save, Evaluate, EndCycle
    <2>2. Bumped.watch = ci.watch /\ \A t \in ci.watch : Bumped.miss[t] \in Nat /\ Bumped.miss[t] >= ci.miss[t]
      BY <1>0 DEF Bumped, TypeOK, Watchlists
    <2>. QED
      BY <1>0, <2>1, <2>2 DEF HealInv
  <1>8. CASE SaveFails
    <2>1. /\ pc = "fetch" /\ pc' = "idle" /\ unsaved' = unsaved + 1 /\ UNCHANGED <<absentRun, file>>
      BY <1>8 DEF SaveFails, Evaluate, EndCycle
    <2>. QED
      BY <1>0, <2>1 DEF HealInv
  <1>9. ASSUME NEW m \in Modes, Crash(m) PROVE HealInv'
    <2>1. /\ pc' = "idle" /\ UNCHANGED <<absentRun, file>>
          /\ unsaved' = IF pc = "fetch" THEN unsaved + 1 ELSE unsaved
          /\ pc \in {"idle", "fetch"}
      BY <1>9 DEF Crash, EndCycle, TypeOK
    <2>. QED
      BY <1>0, <2>1 DEF HealInv
  <1>. QED
    BY <1>1, <1>3, <1>4, <1>5, <1>6, <1>7, <1>8, <1>9 DEF Next, CycleStep, FaultStep

\* A T1 that left is off the watchlist at the second refresh that misses it,
\* or one refresh later for each cycle whose watchlist was never saved.
THEOREM Healed == Spec => []HealedInTime
  <1>1. Init => HealInv
    BY DEF Init, HealInv, EmptyWatchlist
  <1>2. HealInv => HealedInTime
    BY DEF HealInv, HealedInTime
  <1>. QED
    BY <1>1, <1>2, HealStep, TypeCorrect, PTL DEF Spec

-----------------------------------------------------------------------------
(* The size of the watchlist. *)

\* Two disjoint sets of T1s are together as large as both.
LEMMA DisjointSize ==
    ASSUME NEW S \in SUBSET T1s, NEW T \in SUBSET T1s, S \cap T = {}
    PROVE  Cardinality(S \cup T) = Cardinality(S) + Cardinality(T)
  <1>1. /\ IsFiniteSet(S) /\ IsFiniteSet(T)
        /\ Cardinality(S) \in Nat /\ Cardinality(T) \in Nat
    BY T1sFinite
  <1>2. Cardinality(S \cup T) = Cardinality(S) + Cardinality(T) - Cardinality(S \cap T)
    BY <1>1, FS_Union
  <1>3. Cardinality(S \cap T) = 0
    BY FS_EmptySet
  <1>. QED
    BY <1>1, <1>2, <1>3

\* The names pinned are as many as there is room for, and all of them if that
\* is enough.
LEMMA PinsFit ==
    ASSUME NEW kept \in SUBSET T1s, NEW lst \in SUBSET T1s, Room(kept) \in Nat
    PROVE  /\ Pins(kept, lst) \subseteq lst \ kept
           /\ Cardinality(Pins(kept, lst)) <= Room(kept)
           /\ mode # "auto" /\ Cardinality((T1Names \cap lst) \ kept) <= Room(kept) =>
                 Pins(kept, lst) = (T1Names \cap lst) \ kept
  <1>. DEFINE wanted == IF mode = "auto" THEN {} ELSE (T1Names \cap lst) \ kept
              Before(t) == {u \in wanted : Rank[u] < Rank[t]}
              pins == {t \in wanted : Cardinality(Before(t)) < Room(kept)}
  <1>1. Pins(kept, lst) = pins
    BY DEF Pins
  <1>2. wanted \in SUBSET T1s /\ wanted \subseteq T1Names /\ wanted \subseteq lst \ kept
    OBVIOUS
  <1>3. \A t \in wanted : Rank[t] \in Nat /\ \A u \in wanted : Rank[t] = Rank[u] => t = u
    BY <1>2, RankAssumption
  <1>4. (mode # "auto") => wanted = (T1Names \cap lst) \ kept
    OBVIOUS
  <1>. HIDE DEF wanted
  <1>5. \A t \in wanted : /\ Before(t) \in SUBSET T1s /\ t \notin Before(t)
                          /\ Cardinality(Before(t)) \in Nat
                          /\ Cardinality(Before(t)) <= Cardinality(T1s)
    BY <1>2, <1>3, T1sFinite
  <1>6. Cardinality(T1s) \in Nat
    BY T1sFinite
  <1>7. Cardinality(pins) <= Room(kept)
    <2>1. CASE pins = {}
      <3>1. Cardinality(pins) = 0
        BY <2>1, FS_EmptySet, Zenon
      <3>. HIDE DEF pins
      <3>. QED
        BY <3>1
    <2>2. CASE pins # {}
      <3>. DEFINE Rest(t) == Cardinality(T1s) - Cardinality(Before(t))
                  R == {Rest(t) : t \in pins}
      <3>1. R \in SUBSET Nat /\ R # {}
        <4>1. \A t \in pins : Rest(t) \in Nat
          <5>. SUFFICES ASSUME NEW t \in pins PROVE Rest(t) \in Nat
            OBVIOUS
          <5>1. Cardinality(Before(t)) \in Nat /\ Cardinality(Before(t)) <= Cardinality(T1s)
            BY <1>5
          <5>. HIDE DEF Before, pins
          <5>. QED
            BY <1>6, <5>1
        <4>. HIDE DEF Rest, pins
        <4>. QED
          BY <2>2, <4>1
      <3>2. PICK l \in R : \A k \in R : l <= k
        BY <3>1, LeastNatural
      <3>3. PICK t \in pins : l = Rest(t)
        BY <3>2
      <3>4. \A u \in pins : Cardinality(Before(u)) <= Cardinality(Before(t))
        <4>. SUFFICES ASSUME NEW u \in pins
                      PROVE  Cardinality(Before(u)) <= Cardinality(Before(t))
          OBVIOUS
        <4>1. Rest(t) <= Rest(u)
          BY <3>2, <3>3
        <4>2. /\ Cardinality(Before(u)) \in Nat /\ Cardinality(Before(t)) \in Nat
          BY <1>5
        <4>. QED
          BY <1>6, <4>1, <4>2
      <3>5. pins \subseteq Before(t) \cup {t}
        <4>. SUFFICES ASSUME NEW u \in pins, u \notin Before(t), u # t PROVE FALSE
          OBVIOUS
        <4>1. u \in wanted /\ t \in wanted /\ Rank[u] > Rank[t]
          BY <1>3
        <4>2. Before(t) \cup {t} \in SUBSET Before(u)
          BY <1>3, <4>1
        <4>3. /\ IsFiniteSet(Before(u)) /\ IsFiniteSet(Before(t))
          BY <1>5, <4>1, T1sFinite
        <4>4. Cardinality(Before(t) \cup {t}) = Cardinality(Before(t)) + 1
          BY <1>5, <4>1, <4>3, FS_AddElement
        <4>5. Cardinality(Before(t)) + 1 <= Cardinality(Before(u))
          BY <4>2, <4>3, <4>4, FS_Subset
        <4>. HIDE DEF Before, pins
        <4>. QED
          BY <1>5, <3>4, <4>1, <4>5
      <3>6. t \in wanted /\ Cardinality(Before(t)) < Room(kept)
        OBVIOUS
      <3>7. IsFiniteSet(Before(t)) /\ Cardinality(Before(t) \cup {t}) = Cardinality(Before(t)) + 1
            /\ IsFiniteSet(Before(t) \cup {t})
        BY <1>5, <3>6, T1sFinite, FS_AddElement
      <3>8. Cardinality(pins) <= Cardinality(Before(t)) + 1
        BY <3>5, <3>7, FS_Subset
      <3>9. Cardinality(pins) \in Nat /\ Cardinality(Before(t)) \in Nat
        BY <1>2, <1>5, <3>6, T1sFinite
      <3>. QED
        BY <3>6, <3>8, <3>9
    <2>. QED
      BY <2>1, <2>2
  <1>8. ASSUME Cardinality(wanted) <= Room(kept) PROVE pins = wanted
    <2>. SUFFICES ASSUME NEW t \in wanted PROVE Cardinality(Before(t)) < Room(kept)
      OBVIOUS
    <2>1. IsFiniteSet(wanted) /\ Cardinality(wanted) \in Nat
      BY <1>2, T1sFinite
    <2>2. Before(t) \in SUBSET wanted /\ Before(t) # wanted
      BY <1>5
    <2>3. Cardinality(Before(t)) <= Cardinality(wanted) /\ Cardinality(Before(t)) # Cardinality(wanted)
      BY <2>1, <2>2, FS_Subset
    <2>. HIDE DEF Before
    <2>. QED
      BY <1>5, <1>8, <2>1, <2>3
  <1>9. pins \subseteq wanted
    OBVIOUS
  <1>. HIDE DEF pins
  <1>. QED
    BY <1>1, <1>2, <1>4, <1>7, <1>8, <1>9

\* The names pinned fill the list up, unless they are all the names there are.
LEMMA PinsFill ==
    ASSUME NEW kept \in SUBSET T1s, NEW lst \in SUBSET T1s, Room(kept) \in Nat, mode # "auto",
           Pins(kept, lst) # (T1Names \cap lst) \ kept
    PROVE  Cardinality(Pins(kept, lst)) = Room(kept)
  <1>. DEFINE wanted == (T1Names \cap lst) \ kept
              Before(t) == {u \in wanted : Rank[u] < Rank[t]}
              pins == {t \in wanted : Cardinality(Before(t)) < Room(kept)}
  <1>1. Pins(kept, lst) = pins
    BY DEF Pins
  <1>2. \A t \in wanted : Rank[t] \in Nat
    BY RankAssumption
  <1>3. PICK t \in wanted \ pins : \A u \in wanted \ pins : Rank[t] <= Rank[u]
    <2>. DEFINE R == {Rank[t] : t \in wanted \ pins}
    <2>1. R \in SUBSET Nat /\ R # {}
      BY <1>1, <1>2
    <2>. HIDE DEF pins
    <2>2. PICK l \in R : \A k \in R : l <= k
      BY <2>1, LeastNatural
    <2>. QED
      BY <2>2
  <1>4. Before(t) \in SUBSET pins
    BY <1>2, <1>3
  <1>5. /\ IsFiniteSet(pins) /\ Cardinality(pins) \in Nat
        /\ Cardinality(Before(t)) \in Nat
    BY T1sFinite
  <1>6. Cardinality(Before(t)) <= Cardinality(pins)
    BY <1>4, <1>5, FS_Subset
  <1>7. ~ (Cardinality(Before(t)) < Room(kept))
    BY <1>3
  <1>8. Cardinality(Pins(kept, lst)) <= Room(kept)
    BY PinsFit
  <1>. HIDE DEF pins, Before
  <1>. QED
    BY <1>1, <1>5, <1>6, <1>7, <1>8

\* refreshWatchlist never outgrows the size, and in auto and hybrid mode it
\* leaves a slot free only when every listed T1 is watched.
LEMMA RefreshFills ==
    ASSUME NEW w \in Watchlists, w.pinned \subseteq w.watch, Cardinality(w.watch) <= Size,
           NEW lst \in SUBSET T1s, NEW r \in Refresh(w, lst)
    PROVE  /\ Cardinality(r.watch) <= Size
           /\ mode # "pinned" => Cardinality(r.watch) = Size \/ lst \subseteq r.watch
  <1>. DEFINE kept == Kept(w, lst)
              base == kept \cup Pins(kept, lst)
              spare == lst \ base
  <1>0. PICK P \in Picks(base, lst) :
           r = [watch |-> base \cup P,
                pinned |-> (w.pinned \cap kept) \cup Pins(kept, lst),
                miss |-> MissAfter(w, lst)]
    BY DEF Refresh
  <1>1. P \in Picks(base, lst) /\ r.watch = base \cup P
    BY <1>0
  <1>2. kept \in SUBSET w.watch /\ w.watch \in SUBSET T1s
    BY DEF Kept, Watchlists
  <1>3. Size \in Nat /\ Cardinality(w.watch) \in Nat /\ IsFiniteSet(w.watch)
    BY <1>2, SizeAssumption, T1sFinite
  <1>4. kept \in SUBSET T1s /\ Cardinality(kept) \in Nat /\ Cardinality(kept) <= Cardinality(w.watch)
    BY <1>2, <1>3, T1sFinite, FS_Subset
  <1>. HIDE DEF kept
  <1>5. Room(kept) \in Nat /\ Room(kept) = Size - Cardinality(kept)
    BY <1>3, <1>4 DEF Room
  <1>6. Pins(kept, lst) \subseteq lst \ kept /\ Cardinality(Pins(kept, lst)) <= Room(kept)
    BY <1>4, <1>5, PinsFit
  <1>7. Pins(kept, lst) \in SUBSET T1s /\ Cardinality(Pins(kept, lst)) \in Nat
    BY <1>6, T1sFinite
  <1>8. Cardinality(base) = Cardinality(kept) + Cardinality(Pins(kept, lst)) /\ base \in SUBSET T1s
    BY <1>4, <1>6, <1>7, DisjointSize
  <1>. HIDE DEF base
  <1>9. Cardinality(base) \in Nat /\ Cardinality(base) <= Size /\ Room(base) = Size - Cardinality(base)
    BY <1>3, <1>4, <1>5, <1>6, <1>7, <1>8 DEF Room
  <1>10. spare \in SUBSET T1s /\ Cardinality(spare) \in Nat /\ IsFiniteSet(spare)
    BY T1sFinite
  <1>11. CASE mode = "pinned"
    <2>1. P = {}
      BY <1>1, <1>11 DEF Picks
    <2>. QED
      BY <1>1, <1>9, <1>11, <2>1
  <1>12. CASE mode # "pinned"
    <2>1. /\ P \in SUBSET spare
          /\ Cardinality(P) = IF Cardinality(spare) < Room(base) THEN Cardinality(spare) ELSE Room(base)
      BY <1>1, <1>12 DEF Picks
    <2>2. Cardinality(base \cup P) = Cardinality(base) + Cardinality(P)
      BY <1>8, <1>10, <2>1, DisjointSize
    <2>3. CASE Cardinality(spare) < Room(base)
      <3>1. P = spare
        BY <1>10, <2>1, <2>3, FS_Subset
      <3>2. lst \subseteq base \cup P
        BY <3>1
      <3>3. Cardinality(P) < Room(base) /\ Cardinality(P) \in Nat
        BY <1>10, <2>3, <3>1
      <3>4. Cardinality(base \cup P) <= Size
        BY <1>3, <1>9, <2>2, <3>3
      <3>. QED
        BY <1>1, <3>2, <3>4
    <2>4. CASE ~ (Cardinality(spare) < Room(base))
      <3>1. Cardinality(base \cup P) = Size
        BY <1>3, <1>9, <2>1, <2>2, <2>4
      <3>. QED
        BY <1>1, <1>3, <3>1
    <2>. QED
      BY <2>3, <2>4
  <1>. QED
    BY <1>11, <1>12

\* The empty watchlist has no T1, and fits.
LEMMA EmptyFits == EmptyWatchlist.watch = {} /\ Cardinality({}) <= Size
  BY FS_EmptySet, SizeAssumption DEF EmptyWatchlist

\* No step outgrows the size or leaves a slot free.
LEMMA FillStep == TypeOK /\ WatchlistFilled /\ [Next]_vars => WatchlistFilled'
  <1>. SUFFICES ASSUME TypeOK, WatchlistFilled, [Next]_vars PROVE WatchlistFilled'
    OBVIOUS
  <1>1. ASSUME UNCHANGED <<file, pc, ci, mode, listed>> PROVE WatchlistFilled'
    BY <1>1 DEF WatchlistFilled
  <1>2. ASSUME NEW w \in Watchlists, w.pinned \subseteq w.watch, Cardinality(w.watch) <= Size,
               ListAndRefresh(w)
        PROVE  WatchlistFilled'
    <2>1. /\ UNCHANGED <<file, mode>> /\ listed' = OnCluster /\ OnCluster \in SUBSET T1s
          /\ ci' \in Refresh(w, OnCluster)
      BY <1>2 DEF ListAndRefresh, OnCluster
    <2>2. /\ Cardinality(ci'.watch) <= Size
          /\ mode # "pinned" => Cardinality(ci'.watch) = Size \/ OnCluster \subseteq ci'.watch
      BY <1>2, <2>1, RefreshFills
    <2>. QED
      BY <2>1, <2>2 DEF WatchlistFilled
  <1>3. CASE StartCycle \/ LoadFails
    <2>1. file \in Watchlists /\ file.pinned \subseteq file.watch /\ Cardinality(file.watch) <= Size
      BY DEF TypeOK, WatchlistFilled
    <2>2. EmptyWatchlist \in Watchlists /\ EmptyWatchlist.pinned \subseteq EmptyWatchlist.watch
          /\ Cardinality(EmptyWatchlist.watch) <= Size
      BY EmptyWatchlistType, EmptyFits
    <2>. QED
      BY <1>2, <1>3, <2>1, <2>2 DEF StartCycle, LoadFails
  <1>4. ASSUME pc' = "idle", file' \in {file, Bumped, EmptyWatchlist}, ci' \in {ci, EmptyWatchlist}
        PROVE  WatchlistFilled'
    <2>1. Bumped.watch = ci.watch
      BY DEF Bumped, TypeOK, Watchlists
    <2>2. Cardinality(file'.watch) <= Size /\ Cardinality(ci'.watch) <= Size
      BY <1>4, <2>1, EmptyFits DEF WatchlistFilled
    <2>. QED
      BY <1>4, <2>2 DEF WatchlistFilled
  <1>5. CASE NSXMove \/ ListFails \/ Outage \/ UNCHANGED vars
    BY <1>1, <1>5 DEF NSXMove, UnchangedCollector, ListFails, Outage, vars, cycleVars
  <1>6. ASSUME NEW t \in T1s, Fetch(t) \/ NoActive(t) \/ NotFound(t) \/ FetchFails(t)
        PROVE  WatchlistFilled'
    BY <1>1, <1>6 DEF Fetch, NoActive, Answer, NotFound, FetchFails, Miss
  <1>7. CASE DropCluster
    BY <1>4, <1>7 DEF DropCluster, cycleVars
  <1>8. CASE Save \/ SaveFails
    BY <1>4, <1>8 DEF Save, SaveFails, Evaluate, EndCycle
  <1>9. ASSUME NEW m \in Modes, Crash(m) PROVE WatchlistFilled'
    BY <1>4, <1>9 DEF Crash, EndCycle
  <1>. QED
    BY <1>3, <1>5, <1>6, <1>7, <1>8, <1>9 DEF Next, CycleStep, FaultStep

\* Whatever fails, leaves or restarts in whatever mode, the watchlist keeps to
\* its size and healing leaves no slot empty.
THEOREM Filled == Spec => []WatchlistFilled
  <1>1. Init => WatchlistFilled
    BY EmptyFits DEF Init, WatchlistFilled
  <1>. QED
    BY <1>1, FillStep, TypeCorrect, PTL DEF Spec

-----------------------------------------------------------------------------
(* Two misses in a row. *)

\* Only names are pinned and, where the mode never changed, only a name has a
\* count without being watched: it was pinned when it left.
Counted(w) ==
    /\ w.pinned \subseteq T1Names /\ (mode = "auto" => w.pinned = {})
    /\ \A t \in T1s \ w.watch : w.miss[t] > 0 => t \in T1Names /\ mode # "auto"

\* A watched T1 that is not pinned has a count only if it was missed in the
\* last saved cycle, or is not listed in this one.
MissInv ==
    /\ mode \in modesUsed
    /\ modesUsed = {mode} =>
          /\ Counted(file)
          /\ \A t \in file.watch \ file.pinned : file.miss[t] > 0 => t \in missedLast
          /\ pc = "fetch" =>
                /\ Counted(ci)
                /\ \A t \in ci.watch \ ci.pinned : ci.miss[t] > 0 => t \notin listed

\* The random picks leave the listed names to t1_names.
LEMMA PicksNoNames ==
    ASSUME NEW kept \in SUBSET T1s, Room(kept) \in Nat, NEW lst \in SUBSET T1s,
           NEW P \in Picks(kept \cup Pins(kept, lst), lst), mode # "auto"
    PROVE  P \cap T1Names = {}
  <1>. DEFINE pins == Pins(kept, lst)
              base == kept \cup pins
              spare == lst \ base
  <1>1. pins \subseteq lst \ kept /\ pins \in SUBSET T1s
    BY PinsFit
  <1>2. Cardinality(base) = Cardinality(kept) + Cardinality(pins) /\ base \in SUBSET T1s
        /\ Cardinality(kept) \in Nat /\ Cardinality(pins) \in Nat
    BY <1>1, DisjointSize, T1sFinite
  <1>3. P = {} \/ (P \in SUBSET spare /\ Cardinality(P) <= Room(base))
    <2>1. Cardinality(spare) \in Nat
      BY T1sFinite
    <2>2. Room(base) \in Int
      BY <1>2, SizeAssumption DEF Room
    <2>. QED
      BY <2>1, <2>2 DEF Picks
  <1>4. CASE pins = (T1Names \cap lst) \ kept
    BY <1>3, <1>4
  <1>5. CASE pins # (T1Names \cap lst) \ kept
    <2>1. Cardinality(pins) = Room(kept)
      BY <1>5, PinsFill
    <2>2. Room(base) = 0
      BY <1>2, <2>1, SizeAssumption DEF Room
    <2>3. P = {}
      <3>1. CASE P \in SUBSET spare /\ Cardinality(P) <= 0
        <4>1. IsFiniteSet(P) /\ Cardinality(P) \in Nat
          BY <3>1, T1sFinite
        <4>. QED
          BY <3>1, <4>1, FS_EmptySet
      <3>. QED
        BY <1>3, <2>2, <3>1
    <2>. QED
      BY <2>3
  <1>. QED
    BY <1>4, <1>5

\* What a refresh does to the counts.
LEMMA RefreshCounts ==
    ASSUME NEW w \in Watchlists, w.pinned \subseteq w.watch, Cardinality(w.watch) <= Size,
           Counted(w), mode \in {"auto", "pinned", "hybrid"},
           NEW lst \in SUBSET T1s, NEW r \in Refresh(w, lst)
    PROVE  /\ Counted(r)
           /\ \A t \in r.watch \ r.pinned : r.miss[t] > 0 => t \notin lst
           /\ \A t \in (w.watch \ r.watch) \ w.pinned : t \notin lst /\ w.miss[t] > 0
  <1>. DEFINE kept == Kept(w, lst)
              pins == Pins(kept, lst)
  <1>1. PICK P \in Picks(kept \cup pins, lst) :
           r = [watch |-> kept \cup pins \cup P,
                pinned |-> (w.pinned \cap kept) \cup pins,
                miss |-> MissAfter(w, lst)]
    BY DEF Refresh
  <1>2. /\ w.watch \in SUBSET T1s /\ \A t \in T1s : w.miss[t] \in Nat
        /\ kept \in SUBSET w.watch /\ w.watch \cap lst \subseteq kept
    BY DEF Kept, Watchlists
  <1>3. \A t \in w.watch \ kept : t \notin lst /\ (t \in w.pinned \/ w.miss[t] + 1 >= MissThreshold)
    BY <1>2 DEF Kept, MissThreshold
  <1>4. pins \subseteq lst \ kept /\ pins \subseteq T1Names /\ (mode = "auto" => pins = {})
    BY DEF Pins
  <1>5. P \subseteq lst \ (kept \cup pins)
    BY DEF Picks
  <1>6. Room(kept) \in Nat
    <2>1. IsFiniteSet(w.watch) /\ Cardinality(w.watch) \in Nat /\ Cardinality(kept) \in Nat
      BY <1>2, T1sFinite
    <2>2. Cardinality(kept) <= Cardinality(w.watch)
      BY <1>2, <2>1, FS_Subset
    <2>. QED
      BY <2>1, <2>2, SizeAssumption DEF Room
  <1>7. mode # "auto" => P \cap T1Names = {}
    BY <1>2, <1>6, PicksNoNames
  <1>. HIDE DEF kept, pins
  <1>8. /\ r.watch = kept \cup pins \cup P /\ r.pinned = (w.pinned \cap kept) \cup pins
        /\ \A t \in T1s : r.miss[t] = MissAfter(w, lst)[t]
    BY <1>1
  <1>9. \A t \in T1s \ w.watch : r.miss[t] = w.miss[t]
    BY <1>8 DEF MissAfter
  <1>10. ASSUME NEW t \in r.watch \ r.pinned, r.miss[t] > 0 PROVE t \notin lst
    <2>1. CASE t \in kept
      <3>1. t \in T1s /\ t \in w.watch /\ t \notin w.pinned
        BY <1>2, <1>8, <1>10, <2>1
      <3>. QED
        BY <1>8, <1>10, <3>1 DEF MissAfter
    <2>2. CASE t \in P
      <3>1. t \in T1s \ w.watch
        BY <1>2, <1>5, <2>2
      <3>2. t \in T1Names /\ mode # "auto"
        BY <1>9, <1>10, <3>1 DEF Counted
      <3>. QED
        BY <1>7, <2>2, <3>2
    <2>. QED
      BY <1>8, <1>10, <2>1, <2>2
  <1>11. ASSUME NEW t \in T1s \ r.watch, r.miss[t] > 0 PROVE t \in T1Names /\ mode # "auto"
    <2>1. CASE t \notin w.watch
      BY <1>9, <1>11, <2>1 DEF Counted
    <2>2. CASE t \in w.watch
      <3>1. t \in w.watch \ kept
        BY <1>8, <1>11, <2>2
      <3>2. t \in w.pinned
        BY <1>3, <1>8, <1>11, <3>1 DEF MissAfter
      <3>. QED
        BY <3>2 DEF Counted
    <2>. QED
      BY <2>1, <2>2
  <1>12. r.pinned \subseteq T1Names /\ (mode = "auto" => r.pinned = {})
    BY <1>4, <1>8 DEF Counted
  <1>13. ASSUME NEW t \in (w.watch \ r.watch) \ w.pinned PROVE t \notin lst /\ w.miss[t] > 0
    <2>1. t \in w.watch \ kept /\ t \in T1s
      BY <1>2, <1>8
    <2>. QED
      BY <1>2, <1>3, <2>1 DEF MissThreshold
  <1>. QED
    BY <1>10, <1>11, <1>12, <1>13 DEF Counted

\* Every step keeps the counts honest.
LEMMA MissStep == TypeOK /\ WatchlistFilled /\ MissInv /\ [Next]_vars => MissInv'
  <1>. SUFFICES ASSUME TypeOK, WatchlistFilled, MissInv, [Next]_vars PROVE MissInv'
    OBVIOUS
  <1>0. /\ mode \in {"auto", "pinned", "hybrid"}
        /\ file \in Watchlists /\ file.pinned \subseteq file.watch /\ Cardinality(file.watch) <= Size
        /\ ci \in Watchlists /\ missed \subseteq ci.watch
    BY ModesAssumption DEF TypeOK, WatchlistFilled
  <1>1. ASSUME UNCHANGED <<file, missedLast, pc, ci, mode, modesUsed, listed>> PROVE MissInv'
    BY <1>1 DEF MissInv, Counted
  <1>2. /\ EmptyWatchlist \in Watchlists /\ EmptyWatchlist.pinned \subseteq EmptyWatchlist.watch
        /\ Cardinality(EmptyWatchlist.watch) <= Size
        /\ EmptyWatchlist.watch = {} /\ EmptyWatchlist.pinned = {}
        /\ \A t \in T1s : EmptyWatchlist.miss[t] = 0
    BY EmptyWatchlistType, EmptyFits DEF EmptyWatchlist
  <1>3. ASSUME NEW w \in Watchlists, w.pinned \subseteq w.watch, Cardinality(w.watch) <= Size,
               modesUsed = {mode} => Counted(w), ListAndRefresh(w)
        PROVE  MissInv'
    <2>1. /\ UNCHANGED <<file, missedLast, mode, modesUsed>>
          /\ listed' = OnCluster /\ OnCluster \in SUBSET T1s /\ ci' \in Refresh(w, OnCluster)
      BY <1>3 DEF ListAndRefresh, OnCluster
    <2>2. modesUsed = {mode} =>
            Counted(ci') /\ \A t \in ci'.watch \ ci'.pinned : ci'.miss[t] > 0 => t \notin OnCluster
      BY <1>0, <1>3, <2>1, RefreshCounts
    <2>. QED
      BY <2>1, <2>2 DEF MissInv, Counted
  <1>4. CASE StartCycle \/ LoadFails
    <2>1. modesUsed = {mode} => Counted(file) /\ Counted(EmptyWatchlist)
      BY <1>2 DEF MissInv, Counted
    <2>. QED
      BY <1>0, <1>2, <1>3, <1>4, <2>1 DEF StartCycle, LoadFails
  <1>5. CASE DropCluster
    <2>1. /\ UNCHANGED <<missedLast, mode, modesUsed>> /\ pc' # "fetch"
          /\ file' = file \/ file' = EmptyWatchlist
      BY <1>5 DEF DropCluster
    <2>. QED
      BY <1>2, <2>1 DEF MissInv, Counted
  <1>6. CASE NSXMove \/ ListFails \/ Outage \/ UNCHANGED vars
    BY <1>1, <1>6 DEF NSXMove, UnchangedCollector, ListFails, Outage, vars, cycleVars
  <1>7. ASSUME NEW t \in T1s, Fetch(t) \/ NoActive(t) \/ NotFound(t) \/ FetchFails(t)
        PROVE  MissInv'
    BY <1>1, <1>7 DEF Fetch, NoActive, Answer, NotFound, FetchFails, Miss
  <1>8. CASE Save
    <2>1. /\ pc = "fetch" /\ pc' = "idle" /\ file' = Bumped /\ missedLast' = (T1s \ listed) \cup missed
          /\ UNCHANGED <<mode, modesUsed>>
      BY <1>8 DEF Save, Evaluate, EndCycle
    <2>2. /\ Bumped.watch = ci.watch /\ Bumped.pinned = ci.pinned /\ ci.watch \in SUBSET T1s
          /\ \A t \in T1s : Bumped.miss[t] = IF t \in missed THEN ci.miss[t] + 1 ELSE ci.miss[t]
      BY <1>0 DEF Bumped, Watchlists
    <2>3. ASSUME modesUsed = {mode}
          PROVE  Counted(Bumped) /\ \A t \in ci.watch \ ci.pinned :
                                       Bumped.miss[t] > 0 => t \in missedLast'
      <3>1. Counted(ci) /\ \A t \in ci.watch \ ci.pinned : ci.miss[t] > 0 => t \notin listed
        BY <2>1, <2>3 DEF MissInv
      <3>2. \A t \in T1s \ ci.watch : Bumped.miss[t] = ci.miss[t]
        BY <1>0, <2>2
      <3>3. Counted(Bumped)
        BY <2>2, <3>1, <3>2 DEF Counted
      <3>. QED
        BY <2>1, <2>2, <3>1, <3>3
    <2>. QED
      BY <2>1, <2>2, <2>3 DEF MissInv, Counted
  <1>9. CASE SaveFails
    BY <1>9 DEF SaveFails, Evaluate, EndCycle, MissInv, Counted
  <1>10. ASSUME NEW m \in Modes, Crash(m) PROVE MissInv'
    <2>1. /\ pc' = "idle" /\ UNCHANGED <<file, missedLast>>
          /\ mode' = m /\ modesUsed' = modesUsed \cup {m}
      BY <1>10 DEF Crash, EndCycle
    <2>2. modesUsed' = {mode'} => modesUsed = {mode} /\ mode = m
      BY <2>1 DEF MissInv
    <2>. QED
      BY <2>1, <2>2 DEF MissInv, Counted
  <1>. QED
    BY <1>4, <1>5, <1>6, <1>7, <1>8, <1>9, <1>10 DEF Next, CycleStep, FaultStep

\* Where the watch mode never changed, a T1 that is not pinned is substituted
\* only at its second miss in a row, whatever fails or restarts.
THEOREM TwoMisses == Spec => SubstitutedAfterTwo
  <1>1. Init => MissInv
    BY DEF Init, MissInv, Counted, EmptyWatchlist
  <1>2. TypeOK /\ WatchlistFilled /\ MissInv /\ StartCycle /\ modesUsed = {mode} =>
           (file.watch \ ci'.watch) \ file.pinned \subseteq missedLast \ listed'
    <2>. SUFFICES ASSUME TypeOK, WatchlistFilled, MissInv, StartCycle, modesUsed = {mode},
                         NEW t \in (file.watch \ ci'.watch) \ file.pinned
                  PROVE  t \in missedLast \ listed'
      OBVIOUS
    <2>1. /\ ci' \in Refresh(file, OnCluster) /\ listed' = OnCluster /\ OnCluster \in SUBSET T1s
      BY DEF StartCycle, ListAndRefresh, OnCluster
    <2>2. /\ file \in Watchlists /\ file.pinned \subseteq file.watch /\ Cardinality(file.watch) <= Size
          /\ mode \in {"auto", "pinned", "hybrid"} /\ Counted(file)
      BY ModesAssumption DEF TypeOK, WatchlistFilled, MissInv
    <2>3. t \notin OnCluster /\ file.miss[t] > 0
      BY <2>1, <2>2, RefreshCounts
    <2>. QED
      BY <2>1, <2>3 DEF MissInv
  <1>. QED
    BY <1>1, <1>2, MissStep, TypeCorrect, Filled, PTL DEF Spec, SubstitutedAfterTwo

-----------------------------------------------------------------------------
(* Pinned sites. *)

\* A process that only ever ran in pinned mode has only ever watched names,
\* all of them pinned.
PinnedInv ==
    /\ mode \in modesUsed
    /\ modesUsed = {"pinned"} => \A w \in {file, ci} : w.watch = w.pinned /\ w.watch \subseteq T1Names
    /\ PinnedExact

\* In pinned mode a refresh of pinned names watches just the listed names.
LEMMA RefreshPinned ==
    ASSUME NEW w \in Watchlists, w.watch = w.pinned, w.watch \subseteq T1Names, mode = "pinned",
           NEW lst \in SUBSET T1s, NEW r \in Refresh(w, lst)
    PROVE  /\ r.watch = r.pinned /\ r.watch \subseteq T1Names
           /\ Cardinality(T1Names) <= Size => r.watch = T1Names \cap lst
  <1>. DEFINE kept == Kept(w, lst)
              wanted == (T1Names \cap lst) \ kept
  <1>1. kept = w.watch \cap lst /\ kept \subseteq T1Names /\ w.pinned \cap kept = kept
    BY DEF Kept
  <1>2. PICK P \in Picks(kept \cup Pins(kept, lst), lst) :
           r = [watch |-> kept \cup Pins(kept, lst) \cup P,
                pinned |-> (w.pinned \cap kept) \cup Pins(kept, lst),
                miss |-> MissAfter(w, lst)]
    BY DEF Refresh
  <1>3. P = {}
    BY <1>2 DEF Picks
  <1>4. Pins(kept, lst) \subseteq wanted
    BY DEF Pins
  <1>. HIDE DEF kept
  <1>5. r.watch = kept \cup Pins(kept, lst) /\ r.pinned = kept \cup Pins(kept, lst)
    BY <1>1, <1>2, <1>3
  <1>6. ASSUME Cardinality(T1Names) <= Size PROVE Pins(kept, lst) = wanted
    <2>1. kept \in SUBSET T1s /\ wanted \in SUBSET T1s /\ kept \cap wanted = {}
          /\ kept \cup wanted \in SUBSET T1Names /\ T1Names \in SUBSET T1s
      BY <1>1, T1sAssumption
    <2>2. Cardinality(kept \cup wanted) = Cardinality(kept) + Cardinality(wanted)
      BY <2>1, DisjointSize
    <2>3. IsFiniteSet(T1Names) /\ Cardinality(T1Names) \in Nat /\ Cardinality(kept) \in Nat
          /\ Cardinality(wanted) \in Nat
      BY <2>1, T1sFinite
    <2>4. Cardinality(kept) + Cardinality(wanted) <= Cardinality(T1Names)
      BY <2>1, <2>2, <2>3, FS_Subset
    <2>5. Room(kept) \in Nat /\ Cardinality(wanted) <= Room(kept)
      BY <1>6, <2>3, <2>4, SizeAssumption DEF Room
    <2>. QED
      BY <2>1, <2>5, PinsFit
  <1>. QED
    BY <1>1, <1>4, <1>5, <1>6

\* Every step keeps a pinned site pinned.
LEMMA PinnedStep == TypeOK /\ PinnedInv /\ [Next]_vars => PinnedInv'
  <1>. SUFFICES ASSUME TypeOK, PinnedInv, [Next]_vars PROVE PinnedInv'
    OBVIOUS
  <1>. USE DEF PinnedInv, PinnedExact
  <1>0. EmptyWatchlist.watch = {} /\ EmptyWatchlist.pinned = {}
    BY DEF EmptyWatchlist
  <1>1. ASSUME UNCHANGED <<file, pc, ci, mode, modesUsed, listed>> PROVE PinnedInv'
    BY <1>1
  <1>2. ASSUME NEW w \in Watchlists, ListAndRefresh(w), w = file \/ w = EmptyWatchlist
        PROVE  PinnedInv'
    <2>1. /\ UNCHANGED <<file, mode, modesUsed>> /\ listed' = OnCluster /\ OnCluster \in SUBSET T1s
          /\ ci' \in Refresh(w, OnCluster)
      BY <1>2 DEF ListAndRefresh, OnCluster
    <2>2. ASSUME modesUsed = {"pinned"}
          PROVE  /\ ci'.watch = ci'.pinned /\ ci'.watch \subseteq T1Names
                 /\ Cardinality(T1Names) <= Size => ci'.watch = T1Names \cap OnCluster
      <3>1. mode = "pinned" /\ w.watch = w.pinned /\ w.watch \subseteq T1Names
        BY <1>0, <1>2, <2>2
      <3>. QED
        BY <1>2, <2>1, <3>1, RefreshPinned
    <2>. QED
      BY <2>1, <2>2
  <1>3. CASE StartCycle \/ LoadFails
    <2>1. file \in Watchlists /\ EmptyWatchlist \in Watchlists
      BY EmptyWatchlistType DEF TypeOK
    <2>. QED
      BY <1>2, <1>3, <2>1 DEF StartCycle, LoadFails
  <1>4. ASSUME pc' = "idle", file' \in {file, Bumped, EmptyWatchlist}, ci' \in {ci, EmptyWatchlist},
               NEW m, mode' = m, modesUsed' = modesUsed \cup {m}
        PROVE  PinnedInv'
    <2>1. Bumped.watch = ci.watch /\ Bumped.pinned = ci.pinned
      BY DEF Bumped, TypeOK, Watchlists
    <2>2. modesUsed' = {"pinned"} => modesUsed = {"pinned"}
      BY <1>4
    <2>. QED
      BY <1>0, <1>4, <2>1, <2>2
  <1>5. CASE NSXMove \/ ListFails \/ Outage \/ UNCHANGED vars
    BY <1>1, <1>5 DEF NSXMove, UnchangedCollector, ListFails, Outage, vars, cycleVars
  <1>6. ASSUME NEW t \in T1s, Fetch(t) \/ NoActive(t) \/ NotFound(t) \/ FetchFails(t)
        PROVE  PinnedInv'
    BY <1>1, <1>6 DEF Fetch, NoActive, Answer, NotFound, FetchFails, Miss
  <1>7. CASE DropCluster \/ Save \/ SaveFails
    <2>1. /\ pc' = "idle" /\ file' \in {file, Bumped, EmptyWatchlist} /\ ci' \in {ci, EmptyWatchlist}
          /\ mode' = mode /\ modesUsed' = modesUsed \cup {mode}
      BY <1>7 DEF DropCluster, Save, SaveFails, Evaluate, EndCycle, cycleVars
    <2>. QED
      BY <1>4, <2>1
  <1>8. ASSUME NEW m \in Modes, Crash(m) PROVE PinnedInv'
    BY <1>4, <1>8 DEF Crash, EndCycle
  <1>. QED
    BY <1>3, <1>5, <1>6, <1>7, <1>8 DEF Next, CycleStep, FaultStep

\* A site that has only run in pinned mode watches just the names on the
\* cluster, when they fit, whatever fails.
THEOREM Exact == Spec => []PinnedExact
  <1>1. Init => PinnedInv
    BY DEF Init, PinnedInv, PinnedExact, EmptyWatchlist
  <1>2. PinnedInv => PinnedExact
    BY DEF PinnedInv
  <1>. QED
    BY <1>1, <1>2, PinnedStep, TypeCorrect, PTL DEF Spec

-----------------------------------------------------------------------------
(* Failovers of a whole cluster and what the readers learn of them. *)

\* A failover leaves the collector as it is.
LEMMA FailoverType ==
    ASSUME TypeOK, NEW n \in Nodes, Failover(n)
    PROVE  TypeOK'
  <1>1. UNCHANGED <<mode, modesUsed, file, prev, pc, ci, listed, seen, missed, event,
                    absentRun, missedLast, unsaved, faults, t0, moves>>
    BY DEF Failover, UnchangedCollector, cycleVars
  <1>2. active' \in [T1s -> Nodes \cup {NoNode, Gone}] /\ moved' \subseteq T1s
    BY DEF Failover
  <1>. QED
    BY <1>1, <1>2 DEF TypeOK, Answered

\* The collector's own steps are those of HACollector.
LEMMA FeedIsCollector ==
    ASSUME CollectStep \/ FinishCycle \/ Die
    PROVE  Next
  BY DEF CollectStep, FinishCycle, Die, Next, CycleStep, FaultStep

\* Every step keeps the types of the feed.
LEMMA FeedTypeStep == FeedTypeOK /\ [FeedNext]_feedVars => FeedTypeOK'
  <1>. SUFFICES ASSUME FeedTypeOK, [FeedNext]_feedVars PROVE FeedTypeOK'
    OBVIOUS
  <1>. USE DEF FeedTypeOK
  <1>1. ASSUME NEW n \in Nodes, Failover(n) PROVE FeedTypeOK'
    BY <1>1, FailoverType DEF Failover, pointVars, readerVars
  <1>2. CASE CollectStep
    <2>1. TypeOK'
      BY <1>2, FeedIsCollector, TypeStep
    <2>. QED
      BY <1>2, <2>1 DEF CollectStep, pointVars, readerVars
  <1>3. CASE FinishCycle
    <2>1. TypeOK'
      BY <1>3, FeedIsCollector, TypeStep
    <2>2. known' \in [T1s -> Nodes \cup {NoNode}]
      BY <1>3 DEF FinishCycle
    <2>3. lapse' \in BOOLEAN /\ unwritten' \in BOOLEAN /\ summary' \in Nodes \cup {NoNode}
          /\ told' = told
      BY <1>3, ConsensusType DEF FinishCycle
    <2>. QED
      BY <2>1, <2>2, <2>3
  <1>4. CASE Write \/ WriteFails
    <2>1. TypeOK'
      <3>1. UNCHANGED <<nsxVars, mode, modesUsed, file, prev, pc, cycleVars, event,
                        absentRun, missedLast, unsaved>> /\ faults' \in Nat
        BY <1>4 DEF Write, WriteFails, Fault, vars, TypeOK
      <3>2. Answered' = Answered
        BY <3>1 DEF Answered, cycleVars
      <3>. QED
        BY <3>1, <3>2 DEF TypeOK, nsxVars, cycleVars
    <2>2. Written \in Nodes \cup {NoNode}
      BY DEF Written, TypeOK
    <2>. QED
      BY <1>4, <2>1, <2>2 DEF Write, WriteFails, PointsGone
  <1>5. CASE Die
    <2>1. TypeOK'
      BY <1>5, FeedIsCollector, TypeStep
    <2>. QED
      BY <1>5, <2>1 DEF Die, PointsGone
  <1>6. CASE UNCHANGED feedVars
    <2>1. TypeOK'
      BY <1>6, TypeStep DEF feedVars
    <2>. QED
      BY <1>6, <2>1 DEF feedVars, pointVars, readerVars
  <1>. QED
    BY <1>1, <1>2, <1>3, <1>4, <1>5, <1>6 DEF FeedNext, WorkStep

\* The feed is type correct.
THEOREM FeedTypeCorrect == FeedSpec => []FeedTypeOK
  <1>1. FeedInit => FeedTypeOK
    BY TypeInit DEF FeedInit, FeedTypeOK
  <1>. QED
    BY <1>1, FeedTypeStep, PTL DEF FeedSpec

-----------------------------------------------------------------------------
(* A belief of the reader is good as long as the collector will replace it   *)
(* once it has seen the T1s where they are.                                  *)

\* The majority of k answers that makes a change event.
MajorityOf(k) == IF k < 3 THEN 1 ELSE (k + 1) \div 2

LastSeen(v) == {t \in T1s : known[t] = v}

\* The reader is right.
Done(v, n) == v = n /\ \A t \in T1s : seen[t] \in {Unseen, NoNode, n}

\* The collector remembers nothing it could compare an answer with.
Blank == \A t \in T1s : prev[t] = NoNode

\* No answer from after the failover to n has been compared yet.
Ahead(v, n) ==
    /\ v # n
    /\ \A t \in T1s : prev[t] \in {NoNode, v} /\ seen[t] \in {Unseen, NoNode, v, n}

\* The failover came in the middle of a cycle and most of the T1s that can be
\* compared are still to be seen changing.
Half(v, n) ==
    /\ v # n
    /\ \A t \in T1s : /\ prev[t] \in {NoNode, v} \/ (prev[t] = n /\ known[t] = n)
                      /\ seen[t] \in {Unseen, NoNode, n}
    /\ Cardinality(LastSeen(v)) >= MajorityOf(Cardinality(Compared))

Follows(v, n) == Done(v, n) \/ Blank \/ Ahead(v, n) \/ Half(v, n)

\* The collector knows of two nodes at most, the present one and the last.
Memory(n) ==
    \/ \A t \in T1s : seen[t] \in {Unseen, NoNode, n}
    \/ \E q \in Nodes : \A t \in T1s : /\ prev[t] \in {NoNode, q}
                                       /\ seen[t] \in {Unseen, NoNode, q, n}

\* The reader may believe v, or come to when the points are written.
Pending == unwritten /\ event # NoEvent
Credible(v) ==
    \/ v = told /\ ~lapse /\ ~Pending
    \/ v = event.to /\ Pending
    \/ v = summary

Beliefs(n) == \A v \in Nodes : Credible(v) => Follows(v, n)

FollowInv ==
    \E n \in Nodes :
        /\ active = [t \in T1s |-> n]
        /\ Memory(n)
        /\ \A t \in T1s : known[t] \in {NoNode, prev[t]}
        /\ unwritten => pc = "idle"
        /\ Beliefs(n)

\* When fewer than a majority changed, the others are a majority.
LEMMA OneIsMajority ==
    ASSUME NEW W \in SUBSET T1s, W # {}, NEW A \in SUBSET W,
           Cardinality(A) < MajorityOf(Cardinality(W))
    PROVE  Cardinality(W \ A) >= MajorityOf(Cardinality(W))
  <1>1. /\ Cardinality(W) \in Nat /\ Cardinality(A) \in Nat /\ Cardinality(W \ A) \in Nat
        /\ IsFiniteSet(W)
    BY T1sFinite
  <1>2. Cardinality(W) # 0
    BY <1>1, FS_EmptySet
  <1>3. Cardinality(W) = Cardinality(A) + Cardinality(W \ A)
    <2>1. W = A \cup (W \ A)
      OBVIOUS
    <2>. QED
      BY <2>1, DisjointSize
  <1>. DEFINE k == Cardinality(W)
              a == Cardinality(A)
              b == Cardinality(W \ A)
  <1>. HIDE DEF k, a, b
  <1>4. k \in Nat /\ k # 0 /\ a \in Nat /\ b \in Nat /\ k = a + b
    BY <1>1, <1>2, <1>3 DEF k, a, b
  <1>5. a < MajorityOf(k)
    BY DEF a, k
  <1>6. b >= MajorityOf(k)
    <2>1. CASE k < 3
      BY <1>4, <1>5, <2>1 DEF MajorityOf
    <2>2. CASE ~ (k < 3)
      BY <1>4, <1>5, <2>2 DEF MajorityOf
    <2>. QED
      BY <2>1, <2>2
  <1>. QED
    BY <1>6 DEF b, k

\* A majority of a watchlist is never nobody.
LEMMA MajorityPositive ==
    ASSUME NEW W \in SUBSET T1s
    PROVE  MajorityOf(Cardinality(W)) \in Nat \ {0}
  <1>1. Cardinality(W) \in Nat
    BY T1sFinite
  <1>. QED
    BY <1>1 DEF MajorityOf

\* A node is none of the marks for no node.
LEMMA NodeIsNode == ASSUME NEW n \in Nodes PROVE n # NoNode /\ n # Unseen /\ n # Gone
  BY NodesAssumption DEF NoNode, Unseen, Gone

\* Where the reader's belief is good and nothing the collector remembers is
\* out of date, the belief is right or the collector remembers nothing.
LEMMA UpToDateDone ==
    ASSUME NEW n \in Nodes, NEW v, Follows(v, n), v # NoNode,
           \A t \in T1s : prev[t] \in {NoNode, n}, \A t \in T1s : known[t] \in {NoNode, prev[t]}
    PROVE  Blank \/ v = n
  <1>1. CASE Ahead(v, n)
    BY <1>1 DEF Ahead, Blank
  <1>2. ~ Half(v, n)
    <2>. SUFFICES ASSUME Half(v, n) PROVE FALSE
      OBVIOUS
    <2>1. LastSeen(v) = {}
      BY DEF Half, LastSeen
    <2>2. Cardinality(LastSeen(v)) = 0
      BY <2>1, FS_EmptySet
    <2>3. MajorityOf(Cardinality(Compared)) \in Nat \ {0}
      BY MajorityPositive DEF Compared
    <2>. QED
      BY <2>2, <2>3 DEF Half
  <1>. QED
    BY <1>1, <1>2 DEF Follows, Done

\* A failover leaves good beliefs good: they are now the old node, or nothing
\* is remembered.
LEMMA FollowsFailover ==
    ASSUME NEW n \in Nodes, NEW m \in Nodes \ {n}, NEW v, v # NoNode, Follows(v, n),
           \A t \in T1s : prev[t] \in {NoNode, n} /\ seen[t] \in {Unseen, NoNode, n},
           \A t \in T1s : known[t] \in {NoNode, prev[t]},
           UNCHANGED <<prev, seen, known>>
    PROVE  Follows(v, m)'
  <1>1. CASE Blank
    BY <1>1 DEF Follows, Blank
  <1>2. CASE v = n
    BY <1>2 DEF Follows, Ahead
  <1>. QED
    BY <1>1, <1>2, UpToDateDone

\* Answers of the present node, and a new cycle, leave good beliefs good.
LEMMA FollowsAnswers ==
    ASSUME NEW n, NEW v, Follows(v, n), UNCHANGED <<prev, known>>,
           \A t \in T1s : seen'[t] \in {seen[t], Unseen, NoNode, n}
    PROVE  Follows(v, n)'
  BY DEF Follows, Done, Blank, Ahead, Half, LastSeen, Compared

\* What the end of a cycle leaves behind.
LEMMA EvaluateMemory ==
    ASSUME TypeOK, Evaluate, NEW n \in Nodes, Memory(n),
           \A t \in T1s : known[t] \in {NoNode, prev[t]},
           known' = IF Answered = {} THEN known
                    ELSE [t \in T1s |-> IF seen[t] \in Nodes THEN seen[t] ELSE NoNode]
    PROVE  /\ \A t \in T1s : seen'[t] = Unseen
           /\ Answered = {} => UNCHANGED <<prev, known>> /\ event' = NoEvent
           /\ \A t \in T1s : known'[t] \in {NoNode, prev'[t]}
           /\ event' # NoEvent => event'.to = n /\ Majority
           /\ Majority => event' # NoEvent
           /\ \A t \in Changed : seen[t] = n
           /\ Answered # {} => \A t \in T1s :
                 prev'[t] = IF seen[t] \in Nodes THEN seen[t]
                            ELSE IF seen[t] = NoNode THEN prev[t] ELSE NoNode
  <1>. USE NodeIsNode
  <1>1. \A t \in T1s : seen'[t] = Unseen
    BY DEF Evaluate, EndCycle
  <1>2. prev' = NewPrev /\ event' \in ChangeEvents
    BY DEF Evaluate
  <1>3. \A t \in T1s : seen[t] \in Nodes \cup {NoNode, Unseen} /\ prev[t] \in Nodes \cup {NoNode}
    BY DEF TypeOK
  <1>4. Answered # {} => \A t \in T1s :
           prev'[t] = IF seen[t] \in Nodes THEN seen[t]
                      ELSE IF seen[t] = NoNode THEN prev[t] ELSE NoNode
    <2>. SUFFICES ASSUME Answered # {}, NEW t \in T1s
                  PROVE  prev'[t] = IF seen[t] \in Nodes THEN seen[t]
                                    ELSE IF seen[t] = NoNode THEN prev[t] ELSE NoNode
      OBVIOUS
    <2>1. prev'[t] = IF t \notin Answered THEN NoNode
                     ELSE IF seen[t] = NoNode THEN prev[t] ELSE seen[t]
      BY <1>2 DEF NewPrev
    <2>2. t \in Answered <=> seen[t] # Unseen
      BY DEF Answered
    <2>. QED
      BY <1>3, <2>1, <2>2 DEF NoNode, Unseen
  <1>5. Answered = {} => prev' = prev /\ event' = NoEvent
    BY <1>2 DEF NewPrev, ChangeEvents, Majority
  <1>6. \A t \in T1s : known'[t] \in {NoNode, prev'[t]}
    BY <1>4, <1>5
  <1>7. \A t \in Changed : seen[t] = n
    <2>. SUFFICES ASSUME NEW t \in Changed PROVE seen[t] = n
      OBVIOUS
    <2>1. /\ t \in T1s /\ prev[t] # NoNode /\ seen[t] # NoNode /\ seen[t] # prev[t]
          /\ seen[t] # Unseen
      BY DEF Changed, Answered
    <2>. QED
      BY <2>1 DEF Memory
  <1>8. ASSUME event' # NoEvent PROVE event'.to = n /\ Majority
    BY <1>2, <1>7, <1>8 DEF ChangeEvents
  <1>9. ASSUME Majority PROVE event' # NoEvent
    <2>1. /\ Changed \in SUBSET T1s /\ Cardinality(Changed) >= Threshold
          /\ Cardinality(Answered) \in Nat
      BY <1>9, T1sFinite DEF Majority, Changed, Answered
    <2>2. Cardinality(Changed) # 0
      BY <2>1, MajorityPositive, T1sFinite DEF Threshold
    <2>3. Changed # {}
      BY <2>2, FS_EmptySet
    <2>4. \E t \in Changed : event'.changed = Changed
      BY <1>2, <1>9 DEF ChangeEvents
    <2>. QED
      BY <2>3, <2>4 DEF NoEvent
  <1>. QED
    BY <1>1, <1>2, <1>4, <1>5, <1>6, <1>7, <1>8, <1>9

\* The summary's node is a good belief: it is the present one, or most of the
\* T1s that can be compared were seen on it.
LEMMA SummaryFollows ==
    ASSUME TypeOK, Evaluate, NEW n \in Nodes, Memory(n),
           \A t \in T1s : known[t] \in {NoNode, prev[t]},
           known' = IF Answered = {} THEN known
                    ELSE [t \in T1s |-> IF seen[t] \in Nodes THEN seen[t] ELSE NoNode],
           NEW s, s = Consensus, s # NoNode
    PROVE  Follows(s, n)'
  <1>0. NoNode \notin Nodes /\ Unseen \notin Nodes /\ NoNode # Unseen
    BY NodeIsNode DEF NoNode, Unseen
  <1>1. s \in Nodes /\ \A m \in Nodes : Votes(m) \in Nat /\ Votes(s) >= Votes(m) /\ Votes(s) # 0
    BY ConsensusWins
  <1>. USE NodeIsNode
  <1>2. PICK u \in T1s : seen[u] = s
    <2>1. {t \in T1s : seen[t] = s} # {}
      BY <1>1, FS_EmptySet DEF Votes
    <2>. QED
      BY <2>1
  <1>3. Answered # {}
    BY <1>1, <1>2 DEF Answered
  <1>4. \A t \in T1s : seen'[t] = Unseen
    BY EvaluateMemory
  <1>5. \A t \in T1s : prev'[t] = IF seen[t] \in Nodes THEN seen[t]
                                  ELSE IF seen[t] = NoNode THEN prev[t] ELSE NoNode
    BY <1>3, EvaluateMemory
  <1>6. \A t \in T1s : known'[t] = IF seen[t] \in Nodes THEN seen[t] ELSE NoNode
    BY <1>3
  <1>7. CASE s = n
    <2>1. Done(s, n)'
      BY <1>4, <1>7 DEF Done
    <2>. QED
      BY <2>1 DEF Follows
  <1>8. CASE s # n
    <2>1. \A t \in T1s : prev[t] \in {NoNode, s} /\ seen[t] \in {Unseen, NoNode, s, n}
      BY <1>1, <1>2, <1>8 DEF Memory
    <2>2. \A t \in T1s : prev'[t] \in {NoNode, s} \/ (prev'[t] = n /\ known'[t] = n)
      BY <1>0, <1>1, <1>5, <1>6, <2>1
    <2>. DEFINE On(m) == {t \in T1s : seen[t] = m}
    <2>3. LastSeen(s)' = On(s) /\ Compared' = On(s) \cup On(n) /\ On(s) \cap On(n) = {}
      BY <1>0, <1>1, <1>6, <1>8, <2>1 DEF LastSeen, Compared
    <2>4. Cardinality(On(s)) = Votes(s) /\ Cardinality(On(n)) = Votes(n)
      BY DEF Votes
    <2>5. Cardinality(Compared') = Votes(s) + Votes(n)
      <3>1. On(s) \in SUBSET T1s /\ On(n) \in SUBSET T1s
        OBVIOUS
      <3>. HIDE DEF On
      <3>. QED
        BY <2>3, <2>4, <3>1, DisjointSize
    <2>6. Votes(s) >= MajorityOf(Votes(s) + Votes(n))
      BY <1>1 DEF MajorityOf
    <2>7. Cardinality(LastSeen(s))' >= MajorityOf(Cardinality(Compared'))
      BY <2>3, <2>4, <2>5, <2>6
    <2>8. Half(s, n)'
      BY <1>4, <1>8, <2>2, <2>7 DEF Half
    <2>. QED
      BY <2>8 DEF Follows
  <1>. QED
    BY <1>7, <1>8

\* A good belief stays good over a cycle that tells nothing, unless the cycle
\* could not compare its answers and some contradict the belief.
LEMMA UntoldFollows ==
    ASSUME TypeOK, Evaluate, NEW n \in Nodes, Memory(n), told \in Nodes, Follows(told, n),
           \A t \in T1s : known[t] \in {NoNode, prev[t]},
           known' = IF Answered = {} THEN known
                    ELSE [t \in T1s |-> IF seen[t] \in Nodes THEN seen[t] ELSE NoNode],
           event' = NoEvent, ~ (Answered # {} /\ Blind /\ Elsewhere), told' = told
    PROVE  Follows(told, n)'
  <1>. DEFINE v == told
  <1>. USE NodeIsNode
  <1>0. NoNode \notin Nodes /\ Unseen \notin Nodes /\ NoNode # Unseen
    BY DEF NoNode, Unseen
  <1>1. \A t \in T1s : seen'[t] = Unseen
    BY EvaluateMemory
  <1>2. \A t \in T1s : seen[t] \in Nodes \cup {NoNode, Unseen} /\ prev[t] \in Nodes \cup {NoNode}
    BY DEF TypeOK
  <1>3. CASE Answered = {}
    <2>1. UNCHANGED <<prev, known>>
      BY <1>3, EvaluateMemory
    <2>2. \A t \in T1s : seen'[t] \in {seen[t], Unseen, NoNode, n}
      BY <1>1
    <2>3. Follows(v, n)'
      BY <2>1, <2>2 DEF Follows, Done, Blank, Ahead, Half, LastSeen, Compared
    <2>. QED
      BY <2>3
  <1>4. CASE v = n
    <2>1. Done(told, n)'
      BY <1>1, <1>4 DEF Done
    <2>. QED
      BY <2>1 DEF Follows
  <1>5. CASE Answered # {} /\ v # n
    <2>1. \A t \in T1s : prev'[t] = IF seen[t] \in Nodes THEN seen[t]
                                    ELSE IF seen[t] = NoNode THEN prev[t] ELSE NoNode
      BY <1>5, EvaluateMemory
    <2>2. \A t \in T1s : known'[t] = IF seen[t] \in Nodes THEN seen[t] ELSE NoNode
      BY <1>5
    <2>3. Blank \/ Ahead(v, n) \/ Half(v, n)
      BY <1>5 DEF Follows, Done
    <2>4. CASE Blind
      <3>1. \A t \in T1s : known[t] \in {NoNode, v} /\ seen[t] \in {Unseen, NoNode, v}
        BY <1>5, <2>4 DEF Elsewhere
      <3>2. \A t \in T1s : prev[t] \in {NoNode, v}
        BY <1>5, <2>3, <3>1 DEF Blank, Ahead, Half
      <3>3. Ahead(told, n)'
        BY <1>1, <1>5, <2>1, <3>1, <3>2 DEF Ahead
      <3>. QED
        BY <3>3 DEF Follows
    <2>5. CASE ~ Blind
      <3>. DEFINE W == ci.watch
      <3>1. /\ W = Compared /\ \A t \in W : seen[t] \in Nodes
            /\ W \in SUBSET T1s
        BY <2>5 DEF Blind, Compared
      <3>2. Answered = W
        BY <3>1 DEF TypeOK, Answered
      <3>3. \A t \in T1s \ W : seen[t] = Unseen
        BY <3>2 DEF Answered
      <3>4. \A t \in W : known[t] = prev[t] /\ prev[t] # NoNode
        BY <3>1 DEF Compared
      <3>5. Changed = {t \in W : seen[t] # prev[t]}
        BY <3>1, <3>2, <3>4 DEF Changed
      <3>6. Cardinality(Changed) < MajorityOf(Cardinality(W))
        <4>1. ~ Majority
          BY EvaluateMemory
        <4>2. Changed \in SUBSET T1s /\ Answered \in SUBSET T1s
          BY DEF Changed, Answered
        <4>3. Threshold = MajorityOf(Cardinality(W))
          BY <3>2 DEF Threshold, MajorityOf
        <4>4. Cardinality(Changed) \in Nat /\ MajorityOf(Cardinality(W)) \in Nat
          BY <3>1, <4>2, T1sFinite, MajorityPositive
        <4>. QED
          BY <1>5, <4>1, <4>3, <4>4 DEF Majority
      <3>7. W # {}
        BY <1>5, <3>2
      <3>8. ~ Blank
        BY <3>1, <3>4, <3>7 DEF Blank
      <3>9. CASE Ahead(v, n)
        <4>1. \A t \in W : prev[t] = v /\ seen[t] \in {v, n}
          BY <3>1, <3>4, <3>9 DEF Ahead
        <4>2. LastSeen(v)' = W \ Changed /\ Compared' = W
          BY <1>5, <2>2, <3>1, <3>3, <3>5, <4>1 DEF LastSeen, Compared
        <4>3. Changed \in SUBSET W
          BY <3>5
        <4>4. Cardinality(W \ Changed) >= MajorityOf(Cardinality(W))
          BY <3>1, <3>6, <3>7, <4>3, OneIsMajority
        <4>5. \A t \in T1s : prev'[t] \in {NoNode, v} \/ (prev'[t] = n /\ known'[t] = n)
          BY <1>0, <2>1, <2>2, <3>1, <3>3, <4>1
        <4>6. Half(told, n)'
          BY <1>1, <1>5, <4>2, <4>4, <4>5 DEF Half
        <4>. QED
          BY <4>6 DEF Follows
      <3>10. CASE Half(v, n)
        <4>1. \A t \in W : seen[t] = n /\ prev[t] \in {v, n}
          BY <3>1, <3>4, <3>10 DEF Half
        <4>2. Changed = LastSeen(v)
          BY <1>5, <3>1, <3>4, <3>5, <4>1 DEF LastSeen, Compared
        <4>3. Cardinality(Changed) >= MajorityOf(Cardinality(W))
          BY <3>1, <3>10, <4>2 DEF Half
        <4>4. Cardinality(Changed) \in Nat /\ MajorityOf(Cardinality(W)) \in Nat
          BY <3>1, <3>5, T1sFinite, MajorityPositive
        <4>. QED
          BY <3>6, <4>3, <4>4
      <3>. QED
        BY <2>3, <3>8, <3>9, <3>10
    <2>. QED
      BY <2>4, <2>5
  <1>. QED
    BY <1>3, <1>4, <1>5


\* A failover keeps memory and beliefs good.
LEMMA FailoverFollows ==
    ASSUME FollowInv, NEW m \in Nodes, Failover(m)
    PROVE  FollowInv'
  <1>1. PICK n \in Nodes :
           /\ active = [t \in T1s |-> n]
           /\ \A t \in T1s : known[t] \in {NoNode, prev[t]}
           /\ unwritten => pc = "idle"
           /\ Beliefs(n)
    BY DEF FollowInv
  <1>2. /\ active' = [t \in T1s |-> m] /\ m \in Nodes \ {n}
        /\ UNCHANGED <<prev, seen, known, pc, event, unwritten, summary, told, lapse>>
    BY <1>1 DEF Failover, UnchangedCollector, cycleVars, pointVars, readerVars
  <1>3. \A t \in T1s : prev[t] \in {NoNode, n} /\ seen[t] \in {Unseen, NoNode, n}
    BY <1>1 DEF Failover, UpToDate
  <1>4. Beliefs(m)'
    <2>. SUFFICES ASSUME NEW v \in Nodes, Credible(v)' PROVE Follows(v, m)'
      BY DEF Beliefs
    <2>1. Credible(v)
      BY <1>2 DEF Credible, Pending
    <2>2. Follows(v, n) /\ v # NoNode
      BY <1>1, <2>1, NodeIsNode DEF Beliefs
    <2>. QED
      BY <1>1, <1>2, <1>3, <2>2, FollowsFailover
  <1>5. Memory(m)'
    BY <1>2, <1>3 DEF Memory
  <1>. QED
    BY <1>1, <1>2, <1>4, <1>5 DEF FollowInv

\* Every step keeps memory and beliefs good.
LEMMA FollowStep == FeedTypeOK /\ FollowInv /\ [FeedNext]_feedVars => FollowInv'
  <1>. SUFFICES ASSUME FeedTypeOK, FollowInv, [FeedNext]_feedVars PROVE FollowInv'
    OBVIOUS
  <1>0. PICK n \in Nodes :
           /\ active = [t \in T1s |-> n]
           /\ Memory(n)
           /\ \A t \in T1s : known[t] \in {NoNode, prev[t]}
           /\ unwritten => pc = "idle"
           /\ Beliefs(n)
    BY DEF FollowInv
  <1>. TypeOK /\ n # NoNode /\ n # Unseen /\ n # Gone
    BY NodeIsNode DEF FeedTypeOK
  <1>1. ASSUME NEW m \in Nodes, Failover(m) PROVE FollowInv'
    BY <1>1, FailoverFollows
  <1>2. ASSUME UNCHANGED <<active, prev, known, told, lapse, summary>>,
               UNCHANGED unwritten, ~unwritten \/ UNCHANGED <<pc, event>>,
               \A t \in T1s : seen'[t] \in {seen[t], Unseen, NoNode, n}
        PROVE  FollowInv'
    <2>1. Memory(n)'
      BY <1>0, <1>2 DEF Memory
    <2>2. Beliefs(n)'
      <3>. SUFFICES ASSUME NEW v \in Nodes, Credible(v)' PROVE Follows(v, n)'
        BY DEF Beliefs
      <3>1. Credible(v)
        BY <1>2 DEF Credible, Pending
      <3>2. Follows(v, n)
        BY <1>0, <3>1 DEF Beliefs
      <3>. QED
        BY <1>2, <3>2, FollowsAnswers
    <2>. QED
      BY <1>0, <1>2, <2>1, <2>2 DEF FollowInv
  <1>3. CASE CollectStep
    <2>1. /\ ~unwritten /\ UNCHANGED <<active, prev, known, told, lapse, summary, unwritten>>
      BY <1>3 DEF CollectStep, StartCycle, LoadFails, ListAndRefresh, ListFails, Outage,
           Fetch, NoActive, Answer, NotFound, FetchFails, Miss, nsxVars, pointVars, readerVars
    <2>2. \A t \in T1s : seen'[t] \in {seen[t], Unseen, NoNode, n}
      <3>1. CASE StartCycle \/ LoadFails
        BY <3>1 DEF StartCycle, LoadFails, ListAndRefresh
      <3>2. CASE ListFails \/ Outage
        BY <3>2 DEF ListFails, Outage, cycleVars
      <3>3. ASSUME NEW u \in T1s, Fetch(u) \/ NoActive(u)
            PROVE  \A t \in T1s : seen'[t] \in {seen[t], Unseen, NoNode, n}
        <4>1. \E a \in {NoNode, n} : seen' = [seen EXCEPT ![u] = a]
          BY <1>0, <3>3 DEF Fetch, NoActive, Answer
        <4>. QED
          BY <4>1 DEF TypeOK
      <3>4. ASSUME NEW u \in T1s, NotFound(u) \/ FetchFails(u)
            PROVE  \A t \in T1s : seen'[t] \in {seen[t], Unseen, NoNode, n}
        BY <3>4 DEF NotFound, FetchFails, Miss
      <3>. QED
        BY <1>3, <3>1, <3>2, <3>3, <3>4 DEF CollectStep
    <2>. QED
      BY <1>2, <2>1, <2>2
  <1>4. CASE FinishCycle
    <2>1. /\ Evaluate /\ pc = "fetch" /\ ~unwritten /\ active' = active
          /\ summary' = Consensus /\ told' = told /\ unwritten' = TRUE
          /\ known' = IF Answered = {} THEN known
                      ELSE [t \in T1s |-> IF seen[t] \in Nodes THEN seen[t] ELSE NoNode]
          /\ lapse' = (lapse \/ (Answered # {} /\ Blind /\ Elsewhere))
      BY <1>0, <1>4 DEF FinishCycle, Save, SaveFails, Evaluate, nsxVars
    <2>2. /\ \A t \in T1s : seen'[t] = Unseen
          /\ \A t \in T1s : known'[t] \in {NoNode, prev'[t]}
          /\ event' # NoEvent => event'.to = n
      BY <1>0, <2>1, EvaluateMemory
    <2>3. Memory(n)'
      BY <2>2 DEF Memory
    <2>4. Beliefs(n)'
      <3>. SUFFICES ASSUME NEW v \in Nodes, Credible(v)' PROVE Follows(v, n)'
        BY DEF Beliefs
      <3>1. CASE v = told /\ ~lapse' /\ event' = NoEvent
        <4>1. ~lapse /\ ~ (Answered # {} /\ Blind /\ Elsewhere)
          BY <2>1, <3>1
        <4>2. Credible(v)
          BY <2>1, <3>1, <4>1 DEF Credible, Pending
        <4>3. Follows(told, n)
          BY <1>0, <3>1, <4>2 DEF Beliefs
        <4>4. Follows(told, n)'
          BY <1>0, <2>1, <3>1, <4>1, <4>3, UntoldFollows
        <4>. QED
          BY <2>1, <3>1, <4>4 DEF Follows, Done, Ahead, Half, LastSeen
      <3>2. CASE v = n
        BY <2>2, <3>2 DEF Follows, Done
      <3>3. CASE v = Consensus
        BY <1>0, <2>1, <3>3, NodeIsNode, SummaryFollows
      <3>. QED
        BY <2>1, <2>2, <3>1, <3>2, <3>3 DEF Credible, Pending
    <2>5. pc' = "idle"
      BY <2>1 DEF Evaluate, EndCycle
    <2>. QED
      BY <1>0, <2>1, <2>2, <2>3, <2>4, <2>5 DEF FollowInv
  <1>5. CASE Write \/ WriteFails
    <2>1. /\ UNCHANGED <<active, prev, known, seen, pc, event>>
          /\ unwritten /\ ~unwritten' /\ summary' = NoNode
      BY <1>5 DEF Write, WriteFails, PointsGone, vars, nsxVars, cycleVars
    <2>2. Memory(n)'
      BY <1>0, <2>1 DEF Memory
    <2>3. Beliefs(n)'
      <3>. SUFFICES ASSUME NEW v \in Nodes, Credible(v)' PROVE Follows(v, n)'
        BY DEF Beliefs
      <3>1. v # NoNode
        BY NodeIsNode
      <3>2. v = told' /\ ~lapse'
        BY <2>1, <3>1 DEF Credible, Pending
      <3>3. CASE Write
        <4>1. v = Written /\ (lapse => Confirmed)
          BY <3>2, <3>3 DEF Write
        <4>. QED
          <5>1. Credible(v)
            BY <2>1, <3>1, <4>1 DEF Written, Confirmed, Credible, Pending
          <5>2. Follows(v, n)
            BY <1>0, <5>1 DEF Beliefs
          <5>. QED
            BY <2>1, <5>2, FollowsAnswers
      <3>4. CASE WriteFails
        <4>1. v = told /\ ~lapse /\ event = NoEvent
          BY <3>2, <3>4 DEF WriteFails
        <4>2. Follows(v, n)
          BY <1>0, <4>1 DEF Beliefs, Credible, Pending
        <4>. QED
          BY <2>1, <4>2, FollowsAnswers
      <3>. QED
        BY <1>5, <3>3, <3>4
    <2>. QED
      BY <1>0, <2>1, <2>2, <2>3 DEF FollowInv
  <1>6. CASE Die
    <2>1. /\ active' = active /\ prev' = [t \in T1s |-> NoNode] /\ seen' = [t \in T1s |-> Unseen]
          /\ known' = [t \in T1s |-> NoNode] /\ ~unwritten'
      BY <1>6 DEF Die, Crash, EndCycle, PointsGone
    <2>2. Memory(n)' /\ Beliefs(n)'
      BY <2>1 DEF Memory, Beliefs, Follows, Blank
    <2>. QED
      BY <1>0, <2>1, <2>2 DEF FollowInv
  <1>7. CASE UNCHANGED feedVars
    <2>1. UNCHANGED <<active, prev, known, seen, pc, event, told, lapse, summary, unwritten>>
      BY <1>7 DEF feedVars, vars, nsxVars, cycleVars, pointVars, readerVars
    <2>. QED
      BY <1>2, <2>1
  <1>. QED
    BY <1>1, <1>3, <1>4, <1>5, <1>6, <1>7 DEF FeedNext, WorkStep

\* Whatever fails, no failover that the collector has seen the end of goes
\* untold, but for events lost and cycles that could not compare.
THEOREM Followed == FeedSpec => []SeenIsTold
  <1>1. FeedInit => FollowInv
    <2>. SUFFICES ASSUME FeedInit PROVE FollowInv
      OBVIOUS
    <2>1. /\ \A t \in T1s : prev[t] = NoNode /\ seen[t] = Unseen /\ known[t] = NoNode
          /\ ~unwritten
      BY DEF FeedInit, Init
    <2>2. PICK n \in Nodes : active = [t \in T1s |-> n]
      BY DEF FeedInit
    <2>3. Memory(n) /\ Beliefs(n)
      BY <2>1 DEF Memory, Beliefs, Follows, Blank
    <2>. QED
      BY <2>1, <2>2, <2>3 DEF FollowInv
  <1>2. FeedTypeOK /\ FollowInv => SeenIsTold
    <2>. SUFFICES ASSUME FeedTypeOK, FollowInv, told # NoNode, ~unwritten, ~lapse,
                         \A t \in T1s : prev[t] \in {NoNode, active[t]},
                         \E t \in T1s : prev[t] # NoNode
                  PROVE  \A t \in T1s : active[t] = told
      BY DEF SeenIsTold
    <2>1. PICK n \in Nodes :
             /\ active = [t \in T1s |-> n]
             /\ \A t \in T1s : known[t] \in {NoNode, prev[t]}
             /\ Beliefs(n)
      BY DEF FollowInv
    <2>2. told \in Nodes
      BY DEF FeedTypeOK
    <2>3. Follows(told, n)
      BY <2>1, <2>2 DEF Beliefs, Credible, Pending
    <2>4. Blank \/ told = n
      BY <2>1, <2>3, UpToDateDone
    <2>. QED
      BY <2>1, <2>4 DEF Blank
  <1>. QED
    BY <1>1, <1>2, FollowStep, FeedTypeCorrect, PTL DEF FeedSpec
=============================================================================
