--------------------------- MODULE EvaluatorProofs ---------------------------
(***************************************************************************)
(* Proofs about Evaluator, for any number of sites, interfaces and faults. *)
(***************************************************************************)
EXTENDS Evaluator, TLAPS

\* Every state of the evaluator is well typed; no query outlives its timeout.
THEOREM TypeCorrect == Spec => []TypeOK
  <1>. USE SeesAssumption, TimesAssumption, FaultsAssumption DEF Horizon
  <1>1. Init => TypeOK
    BY DEF Init, TypeOK
  <1>2. TypeOK /\ [Next]_vars => TypeOK'
    <2>. SUFFICES ASSUME TypeOK, [Next]_vars PROVE TypeOK'
      OBVIOUS
    <2>. USE DEF TypeOK, callVars
    <2>1. CASE Tick
      <3>1. \A a \in 0 .. Horizon : Older(a) \in 0 .. Horizon
        BY DEF Older
      <3>2. age' \in [Interfaces -> 0 .. Horizon] /\ quiet' \in [Interfaces -> 0 .. Horizon]
        BY <2>1, <3>1 DEF Tick
      <3>3. since' \in [Workers -> 0 .. QueryLimit]
        BY <2>1 DEF Tick
      <3>. QED
        BY <2>1, <3>2, <3>3 DEF Tick
    <2>2. ASSUME NEW k \in Interfaces, LoadSwings(k) PROVE TypeOK'
      BY <2>2 DEF LoadSwings
    <2>3. ASSUME NEW w \in Workers, WorkerStep(w) PROVE TypeOK'
      BY <2>3 DEF WorkerStep, BeginCycle, Evaluate, BelowThreshold, Decide, Overtaken, Posted, Return
    <2>4. ASSUME NEW w \in Workers,
                 (\E k \in Interfaces : NoRate(w, k)) \/ QueryFails(w) \/ PostFails(w)
          PROVE  TypeOK'
      BY <2>4 DEF NoRate, QueryFails, PostFails, Fault, Return
    <2>5. CASE UNCHANGED vars
      BY <2>5 DEF vars
    <2>. QED
      BY <2>1, <2>2, <2>3, <2>4, <2>5 DEF Next, FaultStep
  <1>. QED
    BY <1>1, <1>2, PTL DEF Spec

-----------------------------------------------------------------------------
(* The spacing of the alerts. *)

\* The stamp of a key is at most one query older than the last alert on it.
StampInv == \A k \in Interfaces : age[k] <= quiet[k] + QueryLimit

\* Every step keeps the stamps that fresh.
LEMMA StampStep == TypeOK /\ StampInv /\ [Next]_vars => StampInv'
  <1>. USE TimesAssumption DEF Horizon, TypeOK, callVars
  <1>. SUFFICES ASSUME TypeOK, StampInv, [Next]_vars PROVE StampInv'
    OBVIOUS
  <1>1. CASE Tick
    <2>. SUFFICES ASSUME NEW k \in Interfaces PROVE age'[k] <= quiet'[k] + QueryLimit
      BY DEF StampInv
    <2>1. age'[k] = Older(age[k]) /\ quiet'[k] = Older(quiet[k])
      BY <1>1 DEF Tick
    <2>2. age[k] <= quiet[k] + QueryLimit
      BY DEF StampInv
    <2>. QED
      BY <2>1, <2>2 DEF Older
  <1>2. ASSUME NEW w \in Workers, Decide(w) PROVE StampInv'
    BY <1>2 DEF Decide, StampInv
  <1>3. CASE UNCHANGED <<age, quiet>>
    BY <1>3 DEF StampInv
  <1>4. ASSUME NEW w \in Workers, WorkerStep(w), ~Decide(w) PROVE UNCHANGED <<age, quiet>>
    BY <1>4 DEF WorkerStep, BeginCycle, Evaluate, BelowThreshold, Overtaken, Posted, Return
  <1>5. ASSUME NEW w \in Workers,
               (\E k \in Interfaces : NoRate(w, k)) \/ QueryFails(w) \/ PostFails(w)
        PROVE  UNCHANGED <<age, quiet>>
    BY <1>5 DEF NoRate, QueryFails, PostFails, Return
  <1>6. ASSUME NEW k \in Interfaces, LoadSwings(k) PROVE UNCHANGED <<age, quiet>>
    BY <1>6 DEF LoadSwings
  <1>. QED
    BY <1>1, <1>2, <1>3, <1>4, <1>5, <1>6 DEF Next, FaultStep, vars

\* However many sites share an interface name and however their queries
\* interleave, two alerts on it are a cooldown apart, less one query.
THEOREM Spaced == Spec => AlertsSpaced
  <1>1. Init => StampInv
    BY TimesAssumption DEF Init, StampInv, Horizon
  <1>2. TypeOK /\ StampInv /\ [Next]_vars
          => [\A w \in Workers : Decide(w) => quiet[key[w]] >= Cooldown - QueryLimit]_vars
    <2>. SUFFICES ASSUME TypeOK, StampInv, NEW w \in Workers, Decide(w)
                  PROVE  quiet[key[w]] >= Cooldown - QueryLimit
      OBVIOUS
    <2>1. key[w] \in Interfaces /\ since[w] \in Nat
      BY DEF TypeOK
    <2>2. age[key[w]] >= Cooldown + since[w]
      BY DEF Decide, CanAlert
    <2>3. age[key[w]] <= quiet[key[w]] + QueryLimit
      BY <2>1 DEF StampInv
    <2>4. age[key[w]] \in Nat /\ quiet[key[w]] \in Nat
      BY <2>1, TimesAssumption DEF TypeOK, Horizon
    <2>. QED
      BY <2>1, <2>2, <2>3, <2>4, TimesAssumption
  <1>. QED
    BY <1>1, <1>2, StampStep, TypeCorrect, PTL DEF Spec, AlertsSpaced
=============================================================================
