---------------------------- MODULE RateCalculator ----------------------------
(***************************************************************************)
(* The rates of one uplink interface: RateCalculator.Calculate and         *)
(* counterRate (internal/collector/rate.go), with the counter of the edge  *)
(* node, the manager's cache in front of it and the polls of the worker.   *)
(*                                                                         *)
(* The counter is a Width-valued register that grows with the traffic and  *)
(* restarts from zero with its edge node.  A poll may fail, may be         *)
(* answered with the value of the one before, and fails to decode when     *)
(* the value is beyond the signed half of the range (the field of the      *)
(* JSON model is an int64).  Polls come at any distance.                   *)
(*                                                                         *)
(* Abstractions.  Interfaces have separate state, so one is enough.  A     *)
(* rate is kept as the bytes and the time it is the quotient of, so that   *)
(* no comparison rounds.  Utilization, a capped quotient of the rate and   *)
(* the link speed, is left out.                                            *)
(***************************************************************************)
EXTENDS Integers

CONSTANTS
    Width,      \* number of values of a counter (2^64)
    MinElapsed, \* shortest time a rate is computed over (10 s)
    StaleAfter, \* longest time two equal readings are believed (30 s)
    MaxRate,    \* sanity limit on the bytes per tick (100 Gbps)
    LineRate,   \* bytes per tick the interface can carry
    SpeedKnown, \* the link speed is known
    MaxElapsed, \* bound on the time between two readings
    MaxBehind   \* bound on the bytes carried since the last fresh reading

Dirs == {"rx", "tx"}
NoRate == [delta |-> [d \in Dirs |-> 0], elapsed |-> 0]

ASSUME RangeAssumption == /\ Width \in Nat /\ MinElapsed \in Nat \ {0} /\ StaleAfter \in Nat
                          /\ MaxRate \in Nat /\ LineRate \in Nat /\ MaxElapsed \in Nat
                          /\ MaxBehind \in Nat /\ SpeedKnown \in BOOLEAN
\* At the sanity limit half the range of a counter outlasts any gap between
\* polls (23 years for 64 bits), and no run of cached readings outlasts it all.
ASSUME WidthAssumption == 2 * MaxRate * MaxElapsed < Width /\ MaxBehind < Width

VARIABLES
    counter,    \* the registers of the edge node
    known,      \* the calculator has a previous reading
    prev,       \* its values
    elapsed,    \* ticks since it was taken
    rate,       \* the result of the last poll, or NoRate
    stale,      \* history: that reading was served from the cache
    behind,     \* history: bytes carried since the last fresh reading
    restarted   \* history: the edge node restarted since then

vars == <<counter, known, prev, elapsed, rate, stale, behind, restarted>>

Init ==
    /\ counter = [d \in Dirs |-> 0]
    /\ known = FALSE
    /\ prev = [d \in Dirs |-> 0]
    /\ elapsed = 0
    /\ rate = NoRate
    /\ stale = FALSE
    /\ behind = [d \in Dirs |-> 0]
    /\ restarted = FALSE

-----------------------------------------------------------------------------
(* The edge node. *)

\* One tick of traffic.
Carry(bytes) ==
    /\ elapsed < MaxElapsed
    /\ \A d \in Dirs : behind[d] + bytes[d] <= MaxBehind
    /\ elapsed' = elapsed + 1
    /\ counter' = [d \in Dirs |-> (counter[d] + bytes[d]) % Width]
    /\ behind' = [d \in Dirs |-> behind[d] + bytes[d]]
    /\ UNCHANGED <<known, prev, rate, stale, restarted>>

\* The edge node restarts and counts from zero.
Restart ==
    /\ \E d \in Dirs : counter[d] # 0
    /\ counter' = [d \in Dirs |-> 0]
    /\ restarted' = TRUE
    /\ UNCHANGED <<known, prev, elapsed, rate, stale, behind>>

-----------------------------------------------------------------------------
(* Calculate. *)

\* The counter went backwards: taken for a wrap.
Delta(d, value) ==
    IF value >= prev[d] THEN value - prev[d] ELSE (Width - 1 - prev[d]) + value + 1

TooShort == elapsed < MinElapsed

Stale(values) ==
    (\A d \in Dirs : Delta(d, values[d]) = 0) /\ elapsed > StaleAfter /\ SpeedKnown

\* Mutant of Sane: only the received bytes are looked at.
SaneRx(values) == Delta("rx", values["rx"]) <= MaxRate * elapsed

Sane(values) == \A d \in Dirs : Delta(d, values[d]) <= MaxRate * elapsed

Rate(values) ==
    IF ~known \/ TooShort \/ Stale(values) \/ ~Sane(values) THEN NoRate
    ELSE [delta |-> [d \in Dirs |-> Delta(d, values[d])], elapsed |-> elapsed]

\* Mutant of Calculate: of a discarded reading only the time is kept.
CalculateKeepingValue(values) ==
    /\ rate' = Rate(values)
    /\ known' = TRUE
    /\ prev' = IF known /\ rate' = NoRate THEN prev ELSE values
    /\ elapsed' = 0

\* The reading becomes the previous one whether or not a rate comes out.
Calculate(values) ==
    /\ rate' = Rate(values)
    /\ known' = TRUE
    /\ prev' = values
    /\ elapsed' = 0

Decodes(value) == 2 * value < Width

\* Mutant of Poll: the fields decode over the whole range.
PollUnsigned ==
    /\ Calculate(counter)
    /\ stale' = FALSE
    /\ behind' = [d \in Dirs |-> 0]
    /\ restarted' = FALSE
    /\ UNCHANGED counter

Poll ==
    /\ \A d \in Dirs : Decodes(counter[d])
    /\ Calculate(counter)
    /\ stale' = FALSE
    /\ behind' = [d \in Dirs |-> 0]
    /\ restarted' = FALSE
    /\ UNCHANGED counter

\* The manager answers with what it answered before.
PollCached ==
    /\ known
    /\ Calculate(prev)
    /\ stale' = TRUE
    /\ UNCHANGED <<counter, behind, restarted>>

-----------------------------------------------------------------------------
Next ==
    \/ \E bytes \in [Dirs -> 0 .. LineRate] : Carry(bytes)
    \/ Restart \/ Poll \/ PollCached

Spec == Init /\ [][Next]_vars

-----------------------------------------------------------------------------
(* Properties. *)

\* Every variable holds a value of its type; a previous reading decodes, and a
\* rate comes from a gap long enough to divide by.
TypeOK ==
    /\ counter \in [Dirs -> 0 .. Width - 1]
    /\ known \in BOOLEAN /\ stale \in BOOLEAN /\ restarted \in BOOLEAN
    /\ prev \in [Dirs -> Nat] /\ \A d \in Dirs : Decodes(prev[d])
    /\ elapsed \in 0 .. MaxElapsed
    /\ rate.delta \in [Dirs -> Nat] /\ rate.elapsed \in 0 .. MaxElapsed
    /\ rate # NoRate => rate.elapsed >= MinElapsed
    /\ behind \in [Dirs -> Nat]

\* No traffic is made up: the bytes of a rate were all carried since the last
\* fresh reading, whatever the counter did in between (wrap, restart from
\* zero, cached or undecodable readings), and they are all of them unless the
\* edge node restarted.
RateTruthful ==
    [][Poll => \A d \in Dirs :
          /\ rate'.delta[d] <= behind[d]
          /\ rate' # NoRate /\ ~restarted => rate'.delta[d] = behind[d]]_vars

\* Only right after a cached reading can a rate exceed what the interface can
\* carry.
SpikesOnlyAfterStale ==
    [][Poll /\ ~stale => \A d \in Dirs : rate'.delta[d] <= LineRate * elapsed]_vars
=============================================================================
