------------------------------ MODULE Evaluator ------------------------------
(***************************************************************************)
(* The bandwidth alert evaluator: Evaluator.Evaluate and canAlert          *)
(* (internal/alerting/evaluator.go), called by the worker goroutines of    *)
(* all sites for every uplink interface of their edge nodes.               *)
(*                                                                         *)
(* A call reads the clock, checks the cooldown under the lock, asks        *)
(* InfluxDB for the averages without it, checks again under the lock and   *)
(* stamps the cooldown with the time it read at first, then posts.         *)
(*                                                                         *)
(* Abstractions.  The cooldown map is keyed by node and interface name,    *)
(* without the site, so workers may share an entry.  Times are ages: the   *)
(* ticks since the stamp of an entry, since the clock reading of a call.   *)
(* Ages stop at Horizon, from where on no comparison tells them apart, and *)
(* an absent entry is an old one.  The message and its screenshot, which   *)
(* is uploaded by a goroutine nobody waits for, are left out.              *)
(***************************************************************************)
EXTENDS Naturals

CONSTANTS
    Workers,    \* one per site
    Interfaces, \* keys: node name and interface id
    Sees,       \* worker -> the keys its site reports
    Cooldown,   \* ticks of the cooldown (3 min)
    QueryLimit, \* ticks of the query timeout (10 s)
    Faults,     \* kinds of faults that may happen
    MaxFaults,  \* bound on the number of faults
    MaxSwings   \* bound on the changes of load

FaultKinds == {"rate", "query", "post"}
Horizon == Cooldown + QueryLimit

ASSUME SeesAssumption == Interfaces # {} /\ Sees \in [Workers -> SUBSET Interfaces]
ASSUME TimesAssumption == Cooldown \in Nat /\ QueryLimit \in Nat /\ QueryLimit < Cooldown
ASSUME FaultsAssumption == Faults \subseteq FaultKinds /\ MaxFaults \in Nat /\ MaxSwings \in Nat

VARIABLES
    saturated,  \* keys whose averages are over the threshold
    age,        \* cooldown map: ticks since the stamp of the key
    pc,         \* where each worker stands
    todo,       \* the keys its cycle has yet to evaluate
    key,        \* the key it evaluates; meaningless when idle
    since,      \* ticks since the call read the clock
    quiet,      \* history: ticks since an alert on the key was decided
    faults,     \* faults so far
    swings      \* changes of load so far

callVars == <<pc, todo, key, since>>
vars == <<saturated, age, callVars, quiet, faults, swings>>

Init ==
    /\ saturated \in SUBSET Interfaces
    /\ age = [k \in Interfaces |-> Horizon]
    /\ pc = [w \in Workers |-> "idle"]
    /\ todo = [w \in Workers |-> {}]
    /\ key = [w \in Workers |-> CHOOSE k \in Interfaces : TRUE]
    /\ since = [w \in Workers |-> 0]
    /\ quiet = [k \in Interfaces |-> Horizon]
    /\ faults = 0
    /\ swings = 0

-----------------------------------------------------------------------------
(* Time and load. *)

\* Mutant of Older: ages that never stop.
OlderForEver(a) == a + 1

Older(a) == IF a < Horizon THEN a + 1 ELSE a

\* A query never outlives its timeout.
Tick ==
    /\ \A w \in Workers : pc[w] = "query" => since[w] < QueryLimit
    /\ age' = [k \in Interfaces |-> Older(age[k])]
    /\ quiet' = [k \in Interfaces |-> Older(quiet[k])]
    /\ since' = [w \in Workers |-> IF pc[w] = "query" THEN since[w] + 1 ELSE 0]
    /\ UNCHANGED <<saturated, pc, todo, key, faults, swings>>

LoadSwings(k) ==
    /\ swings < MaxSwings /\ swings' = swings + 1
    /\ saturated' = IF k \in saturated THEN saturated \ {k} ELSE saturated \cup {k}
    /\ UNCHANGED <<age, callVars, quiet, faults>>

-----------------------------------------------------------------------------
(* One worker's calls. *)

CanAlert(k, elapsed) == age[k] >= Cooldown + elapsed

BeginCycle(w) ==
    /\ pc[w] = "idle" /\ todo[w] = {}
    /\ todo' = [todo EXCEPT ![w] = Sees[w]]
    /\ UNCHANGED <<saturated, age, pc, key, since, quiet, faults, swings>>

\* Mutant of Evaluate: a suppressed call renews the cooldown.
EvaluateSliding(w, k) ==
    /\ pc[w] = "idle" /\ k \in todo[w]
    /\ todo' = [todo EXCEPT ![w] = @ \ {k}]
    /\ IF CanAlert(k, 0)
       THEN /\ pc' = [pc EXCEPT ![w] = "query"]
            /\ key' = [key EXCEPT ![w] = k]
            /\ UNCHANGED age
       ELSE /\ age' = [age EXCEPT ![k] = 0]
            /\ UNCHANGED <<pc, key>>
    /\ UNCHANGED <<saturated, since, quiet, faults, swings>>

\* Read the clock and check the cooldown before the query.
Evaluate(w, k) ==
    /\ pc[w] = "idle" /\ k \in todo[w]
    /\ todo' = [todo EXCEPT ![w] = @ \ {k}]
    /\ IF CanAlert(k, 0)
       THEN /\ pc' = [pc EXCEPT ![w] = "query"]
            /\ key' = [key EXCEPT ![w] = k]
       ELSE UNCHANGED <<pc, key>>
    /\ UNCHANGED <<saturated, age, since, quiet, faults, swings>>

Return(w) ==
    /\ pc' = [pc EXCEPT ![w] = "idle"]
    /\ since' = [since EXCEPT ![w] = 0]
    /\ UNCHANGED <<saturated, todo, key, swings>>

\* The averages are below the threshold.
BelowThreshold(w) ==
    /\ pc[w] = "query" /\ key[w] \notin saturated
    /\ Return(w)
    /\ UNCHANGED <<age, quiet, faults>>

\* Mutant of Decide: no second look at the cooldown.
DecideUnchecked(w) ==
    /\ pc[w] = "query" /\ key[w] \in saturated
    /\ pc' = [pc EXCEPT ![w] = "post"]
    /\ since' = [since EXCEPT ![w] = 0]
    /\ age' = [age EXCEPT ![key[w]] = since[w]]
    /\ quiet' = [quiet EXCEPT ![key[w]] = 0]
    /\ UNCHANGED <<saturated, todo, key, faults, swings>>

\* Over the threshold and still out of the cooldown: stamp it, then post.
Decide(w) ==
    /\ pc[w] = "query" /\ key[w] \in saturated
    /\ CanAlert(key[w], since[w])
    /\ pc' = [pc EXCEPT ![w] = "post"]
    /\ since' = [since EXCEPT ![w] = 0]
    /\ age' = [age EXCEPT ![key[w]] = since[w]]
    /\ quiet' = [quiet EXCEPT ![key[w]] = 0]
    /\ UNCHANGED <<saturated, todo, key, faults, swings>>

\* Another worker has alerted on the key during the query.
Overtaken(w) ==
    /\ pc[w] = "query" /\ key[w] \in saturated
    /\ ~CanAlert(key[w], since[w])
    /\ Return(w)
    /\ UNCHANGED <<age, quiet, faults>>

Posted(w) ==
    /\ pc[w] = "post"
    /\ Return(w)
    /\ UNCHANGED <<age, quiet, faults>>

-----------------------------------------------------------------------------
(* Faults. *)

Fault(kind) == kind \in Faults /\ faults < MaxFaults /\ faults' = faults + 1

\* No rate was computed for the interface: Evaluate is not called.
NoRate(w, k) ==
    /\ Fault("rate")
    /\ pc[w] = "idle" /\ k \in todo[w]
    /\ todo' = [todo EXCEPT ![w] = @ \ {k}]
    /\ UNCHANGED <<saturated, age, pc, key, since, quiet, swings>>

QueryFails(w) == Fault("query") /\ pc[w] = "query" /\ Return(w) /\ UNCHANGED <<age, quiet>>

\* The stamp stays.
PostFails(w) == Fault("post") /\ pc[w] = "post" /\ Return(w) /\ UNCHANGED <<age, quiet>>

-----------------------------------------------------------------------------
WorkerStep(w) ==
    \/ BeginCycle(w)
    \/ \E k \in Interfaces : Evaluate(w, k)
    \/ BelowThreshold(w) \/ Decide(w) \/ Overtaken(w) \/ Posted(w)

FaultStep ==
    \E w \in Workers : (\E k \in Interfaces : NoRate(w, k)) \/ QueryFails(w) \/ PostFails(w)

Next ==
    \/ Tick
    \/ \E k \in Interfaces : LoadSwings(k)
    \/ \E w \in Workers : WorkerStep(w)
    \/ FaultStep

Spec == Init /\ [][Next]_vars

\* Time passes, and rounds of collection follow one another without end.
FairSpec == Spec /\ WF_vars(Tick) /\ \A w \in Workers : WF_vars(WorkerStep(w))

-----------------------------------------------------------------------------
(* Properties. *)

\* Every variable holds a value of its type, and a query is never older than
\* its timeout.
TypeOK ==
    /\ saturated \subseteq Interfaces
    /\ age \in [Interfaces -> 0 .. Horizon] /\ quiet \in [Interfaces -> 0 .. Horizon]
    /\ pc \in [Workers -> {"idle", "query", "post"}]
    /\ todo \in [Workers -> SUBSET Interfaces]
    /\ key \in [Workers -> Interfaces]
    /\ since \in [Workers -> 0 .. QueryLimit]
    /\ faults \in Nat /\ swings \in Nat

\* However the calls of the workers interleave, two alerts on one interface
\* are decided at least a cooldown apart, less the time of one query: the
\* stamp is the time read before the query.
AlertsSpaced ==
    [][\A w \in Workers : Decide(w) => quiet[key[w]] >= Cooldown - QueryLimit]_vars

\* An interface that stays saturated is alerted on again and again: neither a
\* failed query or post nor the suppressed calls silence it for good.
SaturationAlerted ==
    \A k \in Interfaces :
        <>[](k \in saturated) /\ (\E w \in Workers : k \in Sees[w]) =>
            []<><<\E w \in Workers : Posted(w) /\ key[w] = k>>_vars
=============================================================================
