------------------------- MODULE RateCalculatorProofs -------------------------
(***************************************************************************)
(* Proofs about RateCalculator, for any width, rate limit and timing that  *)
(* satisfy its assumptions.                                                *)
(***************************************************************************)
EXTENDS RateCalculator, TLAPS

\* A register that gains less than its width wraps at most once.
LEMMA OneWrap ==
    ASSUME NEW n \in Nat, n < 2 * Width, Width > 0
    PROVE  n % Width = IF n < Width THEN n ELSE n - Width
  BY RangeAssumption

\* The bounds of the constants, spelled out.
LEMMA Bounds ==
    /\ Width \in Nat /\ Width > 0 /\ MaxBehind < Width
    /\ MaxRate * MaxElapsed \in Nat /\ 2 * (MaxRate * MaxElapsed) < Width
  <1>1. MaxRate * MaxElapsed \in Nat
    BY RangeAssumption
  <1>2. 2 * (MaxRate * MaxElapsed) = 2 * MaxRate * MaxElapsed
    BY RangeAssumption
  <1>. QED
    BY <1>1, <1>2, RangeAssumption, WidthAssumption

\* A change of a reading that decodes is a natural number.
LEMMA DeltaType ==
    ASSUME TypeOK, NEW d \in Dirs, NEW v \in Nat
    PROVE  Delta(d, v) \in Nat
  <1>1. prev[d] \in Nat /\ 2 * prev[d] < Width
    BY DEF TypeOK, Decodes
  <1>. QED
    BY <1>1, Bounds DEF Delta

\* What Calculate returns and keeps is well typed.
LEMMA CalculateType ==
    ASSUME TypeOK, NEW values \in [Dirs -> Nat], \A d \in Dirs : Decodes(values[d]),
           Calculate(values)
    PROVE  /\ known' \in BOOLEAN /\ elapsed' \in 0 .. MaxElapsed
           /\ prev' \in [Dirs -> Nat] /\ \A d \in Dirs : Decodes(prev'[d])
           /\ rate'.delta \in [Dirs -> Nat] /\ rate'.elapsed \in 0 .. MaxElapsed
           /\ rate' # NoRate => rate'.elapsed >= MinElapsed
  <1>1. known' \in BOOLEAN /\ prev' = values /\ elapsed' \in 0 .. MaxElapsed
    BY RangeAssumption DEF Calculate
  <1>2. CASE rate' = NoRate
    <2>1. rate'.delta \in [Dirs -> Nat] /\ rate'.elapsed \in 0 .. MaxElapsed
      BY <1>2, RangeAssumption DEF NoRate
    <2>. QED
      BY <1>1, <1>2, <2>1
  <1>3. CASE /\ ~TooShort
             /\ rate' = [delta |-> [d \in Dirs |-> Delta(d, values[d])], elapsed |-> elapsed]
    <2>1. rate'.delta \in [Dirs -> Nat]
      BY <1>3, DeltaType
    <2>2. rate'.elapsed \in 0 .. MaxElapsed /\ rate'.elapsed >= MinElapsed
      BY <1>3, RangeAssumption DEF TooShort, TypeOK
    <2>. QED
      BY <1>1, <2>1, <2>2
  <1>. QED
    BY <1>2, <1>3 DEF Calculate, Rate

\* Every step keeps the types.
LEMMA TypeStep == TypeOK /\ [Next]_vars => TypeOK'
  <1>. SUFFICES ASSUME TypeOK, [Next]_vars PROVE TypeOK'
    OBVIOUS
  <1>1. ASSUME NEW bytes \in [Dirs -> 0 .. LineRate], Carry(bytes) PROVE TypeOK'
    <2>1. \A n \in Nat : n % Width \in 0 .. Width - 1
      BY Bounds
    <2>2. \A d \in Dirs : counter[d] + bytes[d] \in Nat /\ behind[d] + bytes[d] \in Nat
      BY Bounds, RangeAssumption DEF TypeOK
    <2>3. \A d \in Dirs : (counter[d] + bytes[d]) % Width \in 0 .. Width - 1
      BY <2>1, <2>2
    <2>4. counter' = [d \in Dirs |-> (counter[d] + bytes[d]) % Width]
      BY <1>1 DEF Carry
    <2>5. behind' \in [Dirs -> Nat]
      BY <1>1, <2>2 DEF Carry
    <2>6. counter' \in [Dirs -> 0 .. Width - 1]
      BY <2>3, <2>4
    <2>7. elapsed' \in 0 .. MaxElapsed
      BY <1>1, RangeAssumption DEF Carry, TypeOK
    <2>. QED
      BY <1>1, <2>7, <2>5, <2>6 DEF Carry, TypeOK, Decodes
  <1>2. CASE Restart
    BY <1>2, Bounds DEF Restart, TypeOK, Decodes
  <1>3. CASE Poll
    <2>1. counter \in [Dirs -> Nat]
      BY Bounds DEF TypeOK
    <2>. QED
      BY <1>3, <2>1, CalculateType DEF Poll, TypeOK
  <1>4. CASE PollCached
    BY <1>4, CalculateType DEF PollCached, TypeOK
  <1>5. CASE UNCHANGED vars
    BY <1>5 DEF vars, TypeOK, Decodes
  <1>. QED
    BY <1>1, <1>2, <1>3, <1>4, <1>5 DEF Next

\* Every state is well typed; only readings that decode are kept.
THEOREM TypeCorrect == Spec => []TypeOK
  <1>1. ASSUME Init PROVE TypeOK
    <2>1. counter \in [Dirs -> 0 .. Width - 1] /\ behind \in [Dirs -> Nat]
      BY <1>1, Bounds DEF Init
    <2>2. prev \in [Dirs -> Nat] /\ \A d \in Dirs : Decodes(prev[d])
      BY <1>1, Bounds DEF Init, Decodes
    <2>3. rate = NoRate /\ rate.delta \in [Dirs -> Nat] /\ rate.elapsed \in 0 .. MaxElapsed
      BY <1>1, RangeAssumption DEF Init, NoRate
    <2>4. known \in BOOLEAN /\ stale \in BOOLEAN /\ restarted \in BOOLEAN
      BY <1>1 DEF Init
    <2>5. elapsed \in 0 .. MaxElapsed
      BY <1>1, RangeAssumption DEF Init
    <2>. QED
      BY <2>1, <2>2, <2>3, <2>4, <2>5 DEF TypeOK
  <1>. QED
    BY <1>1, TypeStep, PTL DEF Spec

-----------------------------------------------------------------------------
(* Where the register stands relative to the previous reading. *)

\* Unless the edge node restarted, the register is ahead of the previous
\* reading by the bytes carried since then, modulo its width; after a restart
\* it shows no more than these.
RegisterInv ==
    \A d \in Dirs :
        /\ behind[d] <= MaxBehind
        /\ restarted => counter[d] <= behind[d]
        /\ ~restarted => counter[d] = IF prev[d] + behind[d] < Width
                                      THEN prev[d] + behind[d]
                                      ELSE prev[d] + behind[d] - Width

\* Every step keeps it there.
LEMMA RegisterStep == TypeOK /\ RegisterInv /\ [Next]_vars => RegisterInv'
  <1>. SUFFICES ASSUME TypeOK, RegisterInv, [Next]_vars, NEW d \in Dirs
                PROVE  /\ behind'[d] <= MaxBehind
                       /\ restarted' => counter'[d] <= behind'[d]
                       /\ ~restarted' => counter'[d] = IF prev'[d] + behind'[d] < Width
                                                       THEN prev'[d] + behind'[d]
                                                       ELSE prev'[d] + behind'[d] - Width
    BY DEF RegisterInv
  <1>0. /\ counter[d] \in Nat /\ counter[d] < Width /\ behind[d] \in Nat
        /\ prev[d] \in Nat /\ 2 * prev[d] < Width
        /\ Width \in Nat /\ MaxBehind \in Nat /\ MaxBehind < Width
    BY Bounds, RangeAssumption DEF TypeOK, Decodes
  <1>1. ASSUME NEW bytes \in [Dirs -> 0 .. LineRate], Carry(bytes)
        PROVE  /\ behind'[d] <= MaxBehind
               /\ restarted' => counter'[d] <= behind'[d]
               /\ ~restarted' => counter'[d] = IF prev'[d] + behind'[d] < Width
                                               THEN prev'[d] + behind'[d]
                                               ELSE prev'[d] + behind'[d] - Width
    <2>1. bytes[d] \in Nat
      BY RangeAssumption
    <2>2. /\ behind'[d] = behind[d] + bytes[d] /\ behind'[d] <= MaxBehind
          /\ counter'[d] = (counter[d] + bytes[d]) % Width
          /\ UNCHANGED <<prev, restarted>>
      BY <1>1 DEF Carry, TypeOK
    <2>3. counter'[d] = IF counter[d] + bytes[d] < Width THEN counter[d] + bytes[d]
                        ELSE counter[d] + bytes[d] - Width
      BY <1>0, <2>1, <2>2, OneWrap
    <2>. QED
      BY <1>0, <2>1, <2>2, <2>3 DEF RegisterInv
  <1>2. CASE Restart
    BY <1>0, <1>2 DEF Restart, RegisterInv
  <1>3. CASE Poll
    <2>1. behind'[d] = 0 /\ ~restarted' /\ counter'[d] = prev'[d]
      BY <1>3 DEF Poll, Calculate
    <2>2. counter'[d] \in Nat /\ counter'[d] < Width
      BY <1>0, <1>3 DEF Poll
    <2>. QED
      BY <1>0, <2>1, <2>2
  <1>4. CASE PollCached
    BY <1>4 DEF PollCached, Calculate, RegisterInv
  <1>5. CASE UNCHANGED vars
    BY <1>5 DEF vars, RegisterInv
  <1>. QED
    BY <1>1, <1>2, <1>3, <1>4, <1>5 DEF Next

\* The register stays there.
LEMMA Register == Spec => []RegisterInv
  <1>1. Init => RegisterInv
    BY Bounds, RangeAssumption DEF Init, RegisterInv
  <1>. QED
    BY <1>1, RegisterStep, TypeCorrect, PTL DEF Spec

\* A reading below the previous one is never turned into a rate: taken for a
\* wrap, it is beyond the sanity limit.
LEMMA BackwardsDiscarded ==
    ASSUME TypeOK, NEW d \in Dirs, counter[d] < prev[d], Decodes(counter[d])
    PROVE  ~Sane(counter)
  <1>1. /\ counter[d] \in Nat /\ prev[d] \in Nat /\ 2 * prev[d] < Width
        /\ elapsed \in Nat /\ elapsed <= MaxElapsed
    BY RangeAssumption DEF TypeOK, Decodes
  <1>2. MaxRate * elapsed <= MaxRate * MaxElapsed /\ MaxRate * elapsed \in Nat
    BY <1>1, RangeAssumption
  <1>3. 2 * Delta(d, counter[d]) >= Width
    BY <1>1, Bounds DEF Delta
  <1>. QED
    BY <1>1, <1>2, <1>3, Bounds, DeltaType DEF Sane

\* A poll reports bytes that were carried since the last fresh reading.
LEMMA TruthfulPoll ==
    ASSUME TypeOK, RegisterInv, Poll, NEW d \in Dirs
    PROVE  /\ rate'.delta[d] <= behind[d]
           /\ rate' # NoRate /\ ~restarted => rate'.delta[d] = behind[d]
  <1>0. /\ counter[d] \in Nat /\ counter[d] < Width /\ behind[d] \in Nat
        /\ prev[d] \in Nat /\ 2 * prev[d] < Width
    BY Bounds DEF TypeOK, Decodes
  <1>1. CASE rate' = NoRate
    BY <1>0, <1>1 DEF NoRate
  <1>2. CASE /\ Sane(counter)
             /\ rate' = [delta |-> [e \in Dirs |-> Delta(e, counter[e])], elapsed |-> elapsed]
    <2>1. counter[d] >= prev[d]
      BY <1>0, <1>2, BackwardsDiscarded DEF Poll
    <2>2. rate'.delta[d] = counter[d] - prev[d]
      BY <1>2, <2>1 DEF Delta
    <2>. QED
      BY <1>0, <2>1, <2>2, Bounds, RangeAssumption DEF RegisterInv
  <1>. QED
    BY <1>1, <1>2 DEF Poll, Calculate, Rate

\* Whatever the counter, its readings and the polls do, a rate counts bytes
\* that were carried since the last fresh reading: all of them, unless the edge
\* node restarted.
THEOREM Truthful == Spec => RateTruthful
  <1>1. TypeOK /\ RegisterInv /\ Poll
          => \A d \in Dirs : /\ rate'.delta[d] <= behind[d]
                             /\ rate' # NoRate /\ ~restarted => rate'.delta[d] = behind[d]
    BY TruthfulPoll
  <1>. QED
    BY <1>1, Register, TypeCorrect, PTL DEF Spec, RateTruthful

-----------------------------------------------------------------------------
(* Spikes. *)

\* After a fresh reading the interface cannot have carried more than its line
\* rate allows in the time since.
LineInv == ~stale => \A d \in Dirs : behind[d] <= LineRate * elapsed

\* Only right after a cached reading does a rate exceed the line rate.
THEOREM SpikesExplained == Spec => SpikesOnlyAfterStale
  <1>1. Init => LineInv
    BY RangeAssumption DEF Init, LineInv
  <1>2. TypeOK /\ LineInv /\ [Next]_vars => LineInv'
    <2>. SUFFICES ASSUME TypeOK, LineInv, [Next]_vars, ~stale', NEW d \in Dirs
                  PROVE  behind'[d] <= LineRate * elapsed'
      BY DEF LineInv
    <2>1. ASSUME NEW bytes \in [Dirs -> 0 .. LineRate], Carry(bytes)
          PROVE  behind'[d] <= LineRate * elapsed'
      <3>1. behind[d] \in Nat /\ elapsed \in Nat /\ bytes[d] \in Nat /\ bytes[d] <= LineRate
        BY RangeAssumption DEF TypeOK
      <3>2. behind'[d] = behind[d] + bytes[d] /\ elapsed' = elapsed + 1 /\ ~stale
        BY <2>1 DEF Carry
      <3>3. behind[d] <= LineRate * elapsed
        BY <3>2 DEF LineInv
      <3>4. LineRate * (elapsed + 1) = LineRate * elapsed + LineRate
        BY <3>1, RangeAssumption
      <3>5. LineRate * elapsed \in Nat
        BY <3>1, RangeAssumption
      <3>. QED
        BY <3>1, <3>2, <3>3, <3>4, <3>5, RangeAssumption
    <2>2. CASE Restart
      BY <2>2 DEF Restart, LineInv
    <2>3. CASE Poll
      BY <2>3, RangeAssumption DEF Poll, Calculate
    <2>4. CASE PollCached
      BY <2>4 DEF PollCached
    <2>5. CASE UNCHANGED vars
      BY <2>5 DEF vars, LineInv
    <2>. QED
      BY <2>1, <2>2, <2>3, <2>4, <2>5 DEF Next
  <1>3. TypeOK /\ RegisterInv /\ LineInv /\ Poll /\ ~stale
          => \A d \in Dirs : rate'.delta[d] <= LineRate * elapsed
    <2>. SUFFICES ASSUME TypeOK, RegisterInv, LineInv, Poll, ~stale, NEW d \in Dirs
                  PROVE  rate'.delta[d] <= LineRate * elapsed
      OBVIOUS
    <2>1. rate'.delta[d] <= behind[d]
      BY TruthfulPoll
    <2>2. behind[d] <= LineRate * elapsed
      BY DEF LineInv
    <2>3. behind[d] \in Nat /\ LineRate * elapsed \in Nat
      BY RangeAssumption DEF TypeOK
    <2>4. TypeOK'
      BY TypeStep DEF Next
    <2>5. rate'.delta[d] \in Nat
      BY <2>4 DEF TypeOK
    <2>. QED
      BY <2>1, <2>2, <2>3, <2>5
  <1>. QED
    BY <1>1, <1>2, <1>3, Register, TypeCorrect, PTL DEF Spec, SpikesOnlyAfterStale
=============================================================================
