--------------------------- MODULE SchedulerProofs ---------------------------
(***************************************************************************)
(* Proofs about Scheduler, for any number of workers.                      *)
(***************************************************************************)
EXTENDS Scheduler, FiniteSetTheorems, TLAPS

\* Every state of the process is well typed.
THEOREM TypeCorrect == Spec => []TypeOK
  <1>1. Init => TypeOK
    <2>1. Init => running \in [Workers -> BOOLEAN] /\ ctxDone \in BOOLEAN
      BY DEF Init
    <2>2. Init => pc \in {"start", "await", "arm", "sleep", "fired", "exited"} /\ pc # "exited"
      BY DEF Init
    <2>3. Init => /\ sent \in Nat /\ awaited \in Nat /\ lateRounds \in Nat
                  /\ overlaps \subseteq Workers /\ cut \subseteq Workers
      BY DEF Init
    <2>. QED
      BY <2>1, <2>2, <2>3 DEF TypeOK
  <1>2. TypeOK /\ [Next]_vars => TypeOK'
    <2>. SUFFICES ASSUME TypeOK, [Next]_vars PROVE TypeOK'
      OBVIOUS
    <2>. USE DEF TypeOK, historyVars, Busy
    <2>0. Cardinality(Workers) \in Nat
      BY WorkersAssumption, FS_CardinalityType
    <2>1. CASE StartRound
      BY <2>0, <2>1 DEF StartRound
    <2>2. CASE Receive \/ RoundOver \/ AbandonRound \/ ArmTimer \/ TimerFires
      BY <2>2 DEF Receive, RoundOver, AbandonRound, ArmTimer, TimerFires
    <2>3. CASE Exit
      BY <2>3 DEF Exit
    <2>4. CASE Signal
      BY <2>4 DEF Signal
    <2>5. ASSUME NEW w \in Workers, Finish(w) PROVE TypeOK'
      BY <2>5 DEF Finish
    <2>6. CASE UNCHANGED vars
      BY <2>6 DEF vars
    <2>. QED
      BY <2>1, <2>2, <2>3, <2>4, <2>5, <2>6 DEF Next, MainStep
  <1>. QED
    BY <1>1, <1>2, PTL DEF Spec

-----------------------------------------------------------------------------
(* Rounds. *)

\* When a Collect returns there is one goroutine less in flight.
LEMMA OneLess ==
    ASSUME TypeOK, NEW w \in Workers, running[w], running' = [running EXCEPT ![w] = FALSE]
    PROVE  /\ Cardinality(Busy) \in Nat
           /\ Busy' \subseteq Busy
           /\ Cardinality(Busy') = Cardinality(Busy) - 1
  <1>1. IsFiniteSet(Busy)
    BY WorkersAssumption, FS_Subset DEF Busy
  <1>2. Busy' = Busy \ {w}
    BY DEF Busy, TypeOK
  <1>3. w \in Busy
    BY DEF Busy
  <1>. QED
    BY <1>1, <1>2, <1>3, FS_RemoveElement, FS_CardinalityType

\* Nobody is in Collect when a round starts: a round that is over has drained
\* its goroutines, and one that was abandoned is followed by no other.
RoundInv ==
    /\ RoundAccounted
    /\ NoOverlap
    /\ pc \in {"start", "sleep", "fired"} => Busy = {}
    /\ pc = "arm" => ctxDone \/ Busy = {}

\* Every step keeps that.
LEMMA RoundStep == TypeOK /\ RoundInv /\ [Next]_vars => RoundInv'
  <1>. SUFFICES ASSUME TypeOK, RoundInv, [Next]_vars PROVE RoundInv'
    OBVIOUS
  <1>. USE DEF RoundInv, RoundAccounted, NoOverlap, historyVars
  <1>0. IsFiniteSet(Busy) /\ Cardinality(Busy) \in Nat
    BY WorkersAssumption, FS_Subset, FS_CardinalityType DEF Busy
  <1>1. CASE StartRound
    <2>1. Busy' = Workers /\ Busy = {}
      BY <1>1 DEF StartRound, Busy
    <2>2. Cardinality(Workers) \in Nat
      BY WorkersAssumption, FS_CardinalityType
    <2>. QED
      BY <1>1, <2>1, <2>2 DEF StartRound
  <1>2. CASE Receive
    <2>1. Busy' = Busy
      BY <1>2 DEF Receive, Busy
    <2>. QED
      BY <1>0, <1>2, <2>1 DEF Receive, TypeOK
  <1>3. CASE RoundOver
    <2>1. Busy' = Busy
      BY <1>3 DEF RoundOver, Busy
    <2>2. Cardinality(Busy) = 0
      BY <1>0, <1>3 DEF RoundOver, TypeOK
    <2>3. Busy = {}
      BY <1>0, <2>2, FS_EmptySet
    <2>. QED
      BY <1>3, <2>1, <2>3 DEF RoundOver
  <1>4. CASE AbandonRound \/ ArmTimer \/ TimerFires \/ Signal
    <2>1. Busy' = Busy
      BY <1>4 DEF AbandonRound, ArmTimer, TimerFires, Signal, Busy
    <2>. QED
      BY <1>4, <2>1 DEF AbandonRound, ArmTimer, TimerFires, Signal
  <1>5. CASE Exit
    BY <1>5 DEF Exit
  <1>6. ASSUME NEW w \in Workers, Finish(w) PROVE RoundInv'
    <2>1. Busy' \subseteq Busy /\ Cardinality(Busy') = Cardinality(Busy) - 1
      BY <1>6, OneLess DEF Finish
    <2>. QED
      BY <1>0, <1>6, <2>1 DEF Finish, TypeOK
  <1>7. CASE UNCHANGED vars
    <2>1. Busy' = Busy
      BY <1>7 DEF vars, Busy
    <2>. QED
      BY <1>7, <2>1 DEF vars
  <1>. QED
    BY <1>1, <1>2, <1>3, <1>4, <1>5, <1>6, <1>7 DEF Next, MainStep

\* The rounds keep their inventory of goroutines.
THEOREM RoundsDrain == Spec => []RoundInv
  <1>1. Init => RoundInv
    BY DEF Init, RoundInv, RoundAccounted, NoOverlap, Busy
  <1>. QED
    BY <1>1, RoundStep, TypeCorrect, PTL DEF Spec

\* However many managers there are and whenever the signal comes, a Collect is
\* never started while one of the same worker is in flight.
THEOREM Exclusive == Spec => []NoOverlap
  <1>1. RoundInv => NoOverlap
    BY DEF RoundInv
  <1>. QED
    BY <1>1, RoundsDrain, PTL

\* runAll never waits for a message that nobody will send.
THEOREM Accounted == Spec => []RoundAccounted
  <1>1. RoundInv => RoundAccounted
    BY DEF RoundInv
  <1>. QED
    BY <1>1, RoundsDrain, PTL

-----------------------------------------------------------------------------
(* Shutdown. *)

\* A round may only start late from a timer that had fired: after it, the loop
\* finds the context cancelled.
LateInv ==
    /\ AtMostOneLateRound
    /\ ~ctxDone => lateRounds = 0
    /\ pc \in {"start", "sleep", "fired"} => lateRounds = 0

\* At most one round is started after the cancellation of the context.
THEOREM OneLateRound == Spec => []AtMostOneLateRound
  <1>. USE DEF LateInv, AtMostOneLateRound
  <1>1. Init => LateInv
    BY DEF Init
  <1>2. TypeOK /\ LateInv /\ [Next]_vars => LateInv'
    BY DEF Next, MainStep, StartRound, Receive, RoundOver, AbandonRound, ArmTimer, TimerFires,
           Exit, Signal, Finish, vars, historyVars, TypeOK
  <1>3. LateInv => AtMostOneLateRound
    OBVIOUS
  <1>. QED
    BY <1>1, <1>2, <1>3, TypeCorrect, PTL DEF Spec
=============================================================================
