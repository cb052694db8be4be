------------------------------ MODULE Scheduler ------------------------------
(***************************************************************************)
(* The process around the workers: main's signal handler and context,      *)
(* Scheduler.Start and runAll (internal/collector/scheduler.go, cmd/       *)
(* main.go).                                                               *)
(*                                                                         *)
(* runAll starts one goroutine per worker, each running Worker.Collect and *)
(* then sending on a buffered channel, and receives one message per worker *)
(* unless the context is cancelled first.  Rounds are separated by a fresh *)
(* timer.  When Start returns, main returns and the process exits with     *)
(* whatever goroutines are still in flight.                                *)
(*                                                                         *)
(* Abstractions.  A Collect is one span from its start to its send, and    *)
(* durations are left to the interleaving.                                 *)
(***************************************************************************)
EXTENDS Naturals, FiniteSets

CONSTANT Workers    \* one per NSX manager

ASSUME WorkersAssumption == IsFiniteSet(Workers) /\ Workers # {}

VARIABLES
    pc,         \* the main goroutine: where Start stands
    ctxDone,    \* the context is cancelled
    running,    \* whether a goroutine of the worker is in Collect
    sent,       \* messages in the done channel of the round
    awaited,    \* messages runAll still waits for
    overlaps,   \* history: workers whose Collect was started twice at once
    lateRounds, \* history: rounds started after the cancellation
    cut         \* history: workers whose Collect the exit cut short

vars == <<pc, ctxDone, running, sent, awaited, overlaps, lateRounds, cut>>
historyVars == <<overlaps, lateRounds, cut>>

Busy == {w \in Workers : running[w]}

Init ==
    /\ pc = "start"
    /\ ctxDone = FALSE
    /\ running = [w \in Workers |-> FALSE]
    /\ sent = 0
    /\ awaited = 0
    /\ overlaps = {}
    /\ lateRounds = 0
    /\ cut = {}

-----------------------------------------------------------------------------
(* The main goroutine. *)

\* Mutant of StartRound: awaits one message too many.
StartRoundOffByOne ==
    /\ pc \in {"start", "fired"}
    /\ pc' = "await"
    /\ running' = [w \in Workers |-> TRUE]
    /\ sent' = 0
    /\ awaited' = Cardinality(Workers) + 1
    /\ overlaps' = overlaps \cup Busy
    /\ lateRounds' = IF ctxDone THEN lateRounds + 1 ELSE lateRounds
    /\ UNCHANGED <<ctxDone, cut>>

\* runAll: start every worker.  It runs at once at start-up, then whenever
\* the timer has woken the loop, whatever happened to the context since.
StartRound ==
    /\ pc \in {"start", "fired"}
    /\ pc' = "await"
    /\ running' = [w \in Workers |-> TRUE]
    /\ sent' = 0
    /\ awaited' = Cardinality(Workers)
    /\ overlaps' = overlaps \cup Busy
    /\ lateRounds' = IF ctxDone THEN lateRounds + 1 ELSE lateRounds
    /\ UNCHANGED <<ctxDone, cut>>

Receive ==
    /\ pc = "await" /\ awaited > 0 /\ sent > 0
    /\ awaited' = awaited - 1
    /\ sent' = sent - 1
    /\ UNCHANGED <<pc, ctxDone, running, historyVars>>

RoundOver ==
    /\ pc = "await" /\ awaited = 0
    /\ pc' = "arm"
    /\ UNCHANGED <<ctxDone, running, sent, awaited, historyVars>>

\* Mutant of AbandonRound: a round is given up on without a cancellation.
AbandonAnyRound ==
    /\ pc = "await" /\ awaited > 0
    /\ pc' = "arm"
    /\ UNCHANGED <<ctxDone, running, sent, awaited, historyVars>>

\* Mutant of AbandonRound: shutdown waits for the workers.
AbandonDrainedRound ==
    /\ pc = "await" /\ awaited > 0 /\ ctxDone /\ Busy = {}
    /\ pc' = "arm"
    /\ UNCHANGED <<ctxDone, running, sent, awaited, historyVars>>

\* select takes either ready case, so a message may still be received first.
AbandonRound ==
    /\ pc = "await" /\ awaited > 0 /\ ctxDone
    /\ pc' = "arm"
    /\ UNCHANGED <<ctxDone, running, sent, awaited, historyVars>>

\* Mutant of ArmTimer: a plain sleep that the context cannot interrupt.
ArmDeafTimer ==
    /\ pc = "arm"
    /\ pc' = "fired"
    /\ UNCHANGED <<ctxDone, running, sent, awaited, historyVars>>

\* The timer has just been armed: only the context can be ready.
ArmTimer ==
    /\ pc = "arm" /\ ~ctxDone
    /\ pc' = "sleep"
    /\ UNCHANGED <<ctxDone, running, sent, awaited, historyVars>>

\* The first of the two events to come wakes the sleeping loop for good.
TimerFires ==
    /\ pc = "sleep" /\ ~ctxDone
    /\ pc' = "fired"
    /\ UNCHANGED <<ctxDone, running, sent, awaited, historyVars>>

\* Mutant of Exit: the goroutines outlive main.
ExitLeavingGoroutines ==
    /\ pc \in {"arm", "sleep"} /\ ctxDone
    /\ pc' = "exited"
    /\ cut' = Busy
    /\ UNCHANGED <<ctxDone, running, sent, awaited, overlaps, lateRounds>>

\* Start returns, main returns, the process is gone.
Exit ==
    /\ pc \in {"arm", "sleep"} /\ ctxDone
    /\ pc' = "exited"
    /\ running' = [w \in Workers |-> FALSE]
    /\ cut' = Busy
    /\ UNCHANGED <<ctxDone, sent, awaited, overlaps, lateRounds>>

MainStep ==
    StartRound \/ Receive \/ RoundOver \/ AbandonRound \/ ArmTimer \/ TimerFires \/ Exit

-----------------------------------------------------------------------------
(* The signal handler goroutine. *)

Signal ==
    /\ pc # "exited" /\ ~ctxDone
    /\ ctxDone' = TRUE
    /\ UNCHANGED <<pc, running, sent, awaited, historyVars>>

-----------------------------------------------------------------------------
(* The worker goroutines. *)

\* Mutant of Finish: the send is not deferred and a panic skips it.
FinishSilently(w) ==
    /\ running[w]
    /\ running' = [running EXCEPT ![w] = FALSE]
    /\ UNCHANGED <<pc, ctxDone, sent, awaited, overlaps, lateRounds, cut>>

\* Collect returns and the deferred send goes out.
Finish(w) ==
    /\ running[w]
    /\ sent < Cardinality(Workers)
    /\ running' = [running EXCEPT ![w] = FALSE]
    /\ sent' = sent + 1
    /\ UNCHANGED <<pc, ctxDone, awaited, overlaps, lateRounds, cut>>

-----------------------------------------------------------------------------
Next == MainStep \/ Signal \/ \E w \in Workers : Finish(w)

Spec == Init /\ [][Next]_vars

\* The main goroutine is never blocked for ever by the runtime; nothing is
\* assumed of the workers, which may hang in a call.
FairSpec == Spec /\ WF_vars(MainStep)

-----------------------------------------------------------------------------
(* Properties. *)

\* Every variable holds a value of its type, and an exited process runs nothing.
TypeOK ==
    /\ pc \in {"start", "await", "arm", "sleep", "fired", "exited"}
    /\ ctxDone \in BOOLEAN
    /\ running \in [Workers -> BOOLEAN]
    /\ sent \in Nat /\ awaited \in Nat /\ lateRounds \in Nat
    /\ overlaps \subseteq Workers /\ cut \subseteq Workers
    /\ pc = "exited" => ctxDone /\ Busy = {}

\* Collect of one worker never runs twice at once, although the worker, its HA
\* baseline and its state files have no lock against it and runAll gives up
\* waiting when the context is cancelled.
NoOverlap == overlaps = {}

\* While runAll waits, the messages it still expects are the ones in the
\* channel and the ones of the goroutines in flight: it neither waits for a
\* message nobody sends nor leaves while a goroutine runs.
RoundAccounted == pc = "await" => awaited = sent + Cardinality(Busy)

\* After the shutdown signal at most one more round starts: the one whose
\* timer had already woken the loop.
AtMostOneLateRound == lateRounds <= 1

\* Main returns after the signal even if workers hang.
ShutdownReturns == ctxDone ~> (pc = "exited")

\* Until the shutdown signal, every worker is run over and over, provided that
\* no Collect hangs (the NSX, InfluxDB and Slack clients all have timeouts).
EveryWorkerRuns ==
    (\A w \in Workers : []<>~running[w]) => \A w \in Workers : <>ctxDone \/ []<>running[w]

\* Shutdown waits for the goroutines to drain, as the README says.
ShutdownDrains == cut = {}
=============================================================================
