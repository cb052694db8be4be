-------------------------------- MODULE HAFeed --------------------------------
(***************************************************************************)
(* What the store's readers learn from the HA collector: CollectHA         *)
(* (internal/collector/ha.go, module HACollector) only returns its points; *)
(* the worker writes them at the end of its round (Worker.Collect,         *)
(* internal/collector/worker.go), drops them when the write fails, and     *)
(* starts no other cycle before that.  The process may die in between: the *)
(* baseline of the next diff has moved on, the points are gone.            *)
(*                                                                         *)
(* NSX only makes whole-cluster failovers here: every T1 is on the cluster *)
(* and ACTIVE on the same node.  A reader starts from the first summary    *)
(* point stored and then follows the change events; it outlives every      *)
(* restart of the collector.                                               *)
(***************************************************************************)
EXTENDS HACollector

VARIABLES
    unwritten,  \* a finished cycle's points still wait for the write
    summary,    \* the ACTIVE node of its summary point, or NoNode
    told,       \* the ACTIVE node the reader believes in, or NoNode
    known,      \* history: the answers of the last cycle that had any, since
                \* the process started: T1 -> node, NoNode if none
    lapse       \* history: the reader may have been left behind by a cycle
                \* that could not tell (see Blind) or whose event was lost

pointVars == <<unwritten, summary>>
readerVars == <<told, lapse>>
feedVars == <<vars, pointVars, readerVars, known>>

FeedInit ==
    /\ Init
    /\ \E n \in Nodes : active = [t \in T1s |-> n]
    /\ unwritten = FALSE
    /\ summary = NoNode
    /\ told = NoNode
    /\ known = [t \in T1s |-> NoNode]
    /\ lapse = FALSE

-----------------------------------------------------------------------------
(* NSX. *)

\* Nothing the collector remembers or has fetched is from before the last
\* failover: failovers are more than a cycle apart.
UpToDate ==
    \A t \in T1s : /\ prev[t] \in {NoNode, active[t]}
                   /\ seen[t] \in {Unseen, NoNode, active[t]}

\* The ACTIVE node fails: every T1 comes up on another one.
Failover(n) ==
    /\ UpToDate
    /\ \E t \in T1s : active[t] # n
    /\ active' = [t \in T1s |-> n]
    /\ moved' = T1s
    /\ UNCHANGED <<t0, moves, pointVars, readerVars, known>>
    /\ UnchangedCollector

-----------------------------------------------------------------------------
(* The cycle and the write. *)

\* The worker is past the write of the last cycle.
CollectStep ==
    /\ ~unwritten
    /\ \/ StartCycle \/ LoadFails \/ ListFails \/ Outage
       \/ \E t \in T1s : Fetch(t) \/ NotFound(t) \/ FetchFails(t) \/ NoActive(t)
    /\ UNCHANGED <<pointVars, readerVars, known>>

Compared == {t \in T1s : known[t] # NoNode}

\* The cycle cannot compare the whole watchlist with the last one: a T1 did
\* not answer, answered without an ACTIVE node, was substituted or has no
\* answer to be compared with, the first cycle after a restart included.
Blind == ci.watch # Compared \/ \E t \in ci.watch : seen[t] \notin Nodes

\* An answer of this cycle or of the last one that the reader would not expect.
Elsewhere ==
    \E t \in T1s : known[t] \notin {NoNode, told} \/ seen[t] \notin {Unseen, NoNode, told}

\* The diff is made and the baseline replaced; the points are handed over.
FinishCycle ==
    /\ Save \/ SaveFails
    /\ unwritten' = TRUE
    /\ summary' = Consensus
    /\ known' = IF Answered = {} THEN known
                ELSE [t \in T1s |-> IF seen[t] \in Nodes THEN seen[t] ELSE NoNode]
    /\ lapse' = (lapse \/ (Answered # {} /\ Blind /\ Elsewhere))
    /\ UNCHANGED told

\* Mutant of Written: from_active taken for to_active.
WrittenFrom ==
    IF event # NoEvent THEN event.from ELSE IF told = NoNode THEN summary ELSE told

\* What the reader believes once the points are stored.
Written ==
    IF event # NoEvent THEN event.to ELSE IF told = NoNode THEN summary ELSE told

\* The points stored leave no doubt about it.
Confirmed == event # NoEvent \/ (summary # NoNode /\ summary = Written)

PointsGone == unwritten' = FALSE /\ summary' = NoNode

Write ==
    /\ unwritten
    /\ told' = Written
    /\ lapse' = (lapse /\ ~Confirmed)
    /\ PointsGone
    /\ UNCHANGED <<vars, known>>

\* The worker logs the error and forgets the points.
WriteFails ==
    /\ Fault("write")
    /\ unwritten
    /\ lapse' = (lapse \/ event # NoEvent)
    /\ PointsGone
    /\ UNCHANGED <<nsxVars, mode, modesUsed, file, prev, pc, cycleVars, event, absentRun, missedLast, unsaved, told, known>>

\* The process dies: points not yet written are gone with the baseline.
Die ==
    /\ \E m \in Modes : Crash(m)
    /\ lapse' = (lapse \/ (unwritten /\ event # NoEvent))
    /\ known' = [t \in T1s |-> NoNode]
    /\ PointsGone
    /\ UNCHANGED told

-----------------------------------------------------------------------------
\* A step of the worker's goroutine, well or not.
WorkStep == CollectStep \/ FinishCycle \/ Write

FeedNext == (\E n \in Nodes : Failover(n)) \/ WorkStep \/ WriteFails \/ Die

FeedSpec == FeedInit /\ [][FeedNext]_feedVars /\ WF_feedVars(WorkStep)
-----------------------------------------------------------------------------
(* Properties. *)

\* Every variable of the feed holds a value of its type.
FeedTypeOK ==
    /\ TypeOK
    /\ unwritten \in BOOLEAN /\ lapse \in BOOLEAN
    /\ summary \in Nodes \cup {NoNode} /\ told \in Nodes \cup {NoNode}
    /\ known \in [T1s -> Nodes \cup {NoNode}]

\* Once nothing the collector remembers is out of date and no points wait for
\* the write, whoever follows the change events believes in the node the cluster
\* is ACTIVE on, over any outages, partial answers, failed writes and restarts.
\* Not bound by it are the readers left behind: by an event that was lost in the
\* write or in a restart, or by a cycle whose answers contradict them and that
\* had not the whole watchlist to compare, until an event or a summary that
\* agrees with them is stored.
SeenIsTold ==
    /\ told # NoNode /\ ~unwritten /\ ~lapse
    /\ \A t \in T1s : prev[t] \in {NoNode, active[t]}
    /\ \E t \in T1s : prev[t] # NoNode
    => \A t \in T1s : active[t] = told

\* Whoever follows the change events learns of every failover of the cluster,
\* unless they are left behind or the next failover comes first.
FailoverTold ==
    \A n \in Nodes :
        (told # NoNode /\ ~lapse /\ \A t \in T1s : active[t] = n)
            ~> (told = n \/ lapse \/ \E t \in T1s : active[t] # n)
=============================================================================
