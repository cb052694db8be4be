------------------------------ MODULE NATFetch ------------------------------
(***************************************************************************)
(* Reading the NAT rule count of every Tier-1 of a site: the paged listing *)
(* of internal/nsx/api.go, the request with its retries of                 *)
(* internal/nsx/client.go (doGet) and the paced goroutine pool of          *)
(* internal/collector/capacity.go (fetchNATPerT1).                         *)
(*                                                                         *)
(* There is one caller of doGet per listed T1, its goroutine, and before   *)
(* them the listing, caller 0.  A request is answered, throttled (429) or  *)
(* refused (any other status, a transport error, the client timeout, a     *)
(* cancelled context); a throttled caller waits, keeps its slot and asks   *)
(* again.  The inventory may change and the context may be cancelled       *)
(* between any two steps.                                                  *)
(*                                                                         *)
(* Time passes in ticks, and only when no step of the program is ready.    *)
(* The T1s are listed and served in the order of their ids; NSX's cursor   *)
(* names the last id served (external).  The count itself is left out.     *)
(***************************************************************************)
EXTENDS Integers, FiniteSets

CONSTANTS
    T1s,          \* ids of the T1s that may ever exist, above 0
    PageSize,     \* page_size of a listing, the most NSX serves in one page
    Parallel,     \* capacity.nat_per_t1_parallel
    Pace,         \* capacity.nat_per_t1_pace_ms, in ticks
    MaxAttempts,  \* requests of one doGet
    Backoff,      \* first wait after a 429 without Retry-After, in ticks
    RetryAfters,  \* waits a 429 may ask for; 0: no or no valid header
    Timeout,      \* client timeout of one request, in ticks
    MaxChanges    \* bound on the number of inventory changes

ASSUME T1sAssumption == T1s \subseteq Nat \ {0} /\ IsFiniteSet(T1s)
ASSUME PoolAssumption == PageSize \in Nat \ {0} /\ Parallel \in Nat \ {0} /\ Pace \in Nat
ASSUME RetryAssumption ==
    /\ MaxAttempts \in Nat \ {0} /\ Backoff \in Nat \ {0} /\ Timeout \in Nat \ {0}
    /\ RetryAfters \subseteq Nat
ASSUME BoundsAssumption == MaxChanges \in Nat

Lister == 0
Callers == {Lister} \cup T1s

VARIABLES
    nsx,        \* NSX inventory: the T1s that exist
    changes,    \* inventory changes so far
    ctxDone,    \* the context is cancelled
    pc,         \* where the fetch stands
    cursor,     \* cursor of the next page; 0 is ""
    listed,     \* the T1s of the pages so far
    calls,      \* each caller's doGet: state, attempt, backoff, wait left, age
    todo,       \* listed T1s the loop has not reached
    pace,       \* ticks before the loop goes on
    sem,        \* slots taken
    wg,         \* the WaitGroup's counter
    out,        \* T1s whose result is in the output
    errors,     \* T1s counted as errors
    always,     \* history: T1s that existed all through the listing
    ever,       \* history: T1s that existed at some time of the listing
    lateness    \* history: ticks the cancelled fetch went on

nsxVars == <<nsx, changes, always, ever>>
listVars == <<cursor, listed>>
loopVars == <<todo, pace>>
poolVars == <<sem, wg, out, errors>>
vars == <<nsxVars, ctxDone, pc, listVars, calls, loopVars, poolVars, lateness>>

Idle(st) == [st |-> st, attempt |-> 0, backoff |-> 0, wait |-> 0, age |-> 0]
Request(attempt, backoff) ==
    [st |-> "sent", attempt |-> attempt, backoff |-> backoff, wait |-> 0, age |-> 0]
FirstRequest == Request(1, Backoff)

In(c, st) == calls[c].st = st

Init ==
    /\ nsx \in SUBSET T1s
    /\ changes = 0
    /\ ctxDone = FALSE
    /\ pc = "list"
    /\ cursor = 0 /\ listed = {}
    /\ calls = [c \in Callers |-> IF c = Lister THEN FirstRequest ELSE Idle("unused")]
    /\ todo = {} /\ pace = 0
    /\ sem = 0 /\ wg = 0 /\ out = {} /\ errors = {}
    /\ always = nsx /\ ever = nsx
    /\ lateness = 0

-----------------------------------------------------------------------------
(* The world around the fetch. *)

Running == pc \in {"list", "spawn", "drain"}

ChangeInventory(t) ==
    /\ changes < MaxChanges /\ Running
    /\ changes' = changes + 1
    /\ nsx' = IF t \in nsx THEN nsx \ {t} ELSE nsx \cup {t}
    /\ always' = IF pc = "list" THEN always \ {t} ELSE always
    /\ ever' = IF pc = "list" THEN ever \cup {t} ELSE ever
    /\ UNCHANGED <<ctxDone, pc, listVars, calls, loopVars, poolVars, lateness>>

Cancel ==
    /\ ~ctxDone /\ Running
    /\ ctxDone' = TRUE
    /\ UNCHANGED <<nsxVars, pc, listVars, calls, loopVars, poolVars, lateness>>

-----------------------------------------------------------------------------
(* doGet, the same for every caller. *)

Close(c, st) == calls' = [calls EXCEPT ![c] = Idle(st)]

\* Mutant of Finish: an error keeps its slot.
FinishKeepingSlot(t, st) ==
    /\ Close(t, st)
    /\ sem' = IF st = "ok" THEN sem - 1 ELSE sem
    /\ wg' = wg - 1
    /\ out' = IF st = "ok" THEN out \cup {t} ELSE out
    /\ errors' = IF st = "err" THEN errors \cup {t} ELSE errors
    /\ UNCHANGED <<pc, listVars>>

\* A goroutine is over: its result or its error is recorded, the slot is given
\* back and the WaitGroup told.
Finish(t, st) ==
    /\ Close(t, st)
    /\ sem' = sem - 1
    /\ wg' = wg - 1
    /\ out' = IF st = "ok" THEN out \cup {t} ELSE out
    /\ errors' = IF st = "err" THEN errors \cup {t} ELSE errors
    /\ UNCHANGED <<pc, listVars>>

\* A failed page fails the listing: the pages before it are thrown away.
FailListing ==
    /\ Close(Lister, "err")
    /\ pc' = "failed"
    /\ listed' = {}
    /\ UNCHANGED <<cursor, poolVars>>

Fail(c) ==
    \/ c = Lister /\ FailListing
    \/ c # Lister /\ Finish(c, "err")

\* The seconds of Retry-After, or the backoff, which doubles at every attempt.
WaitAfter(backoff, asked) == IF asked > 0 THEN asked ELSE backoff

Throttled(c, asked) ==
    /\ In(c, "sent") /\ ~ctxDone
    /\ calls[c].attempt < MaxAttempts
    /\ calls' = [calls EXCEPT ![c] = [@ EXCEPT !.st = "waiting", !.age = 0,
                                               !.wait = WaitAfter(calls[c].backoff, asked)]]
    /\ UNCHANGED <<nsxVars, ctxDone, pc, listVars, loopVars, poolVars, lateness>>

Refused(c) ==
    /\ In(c, "sent")
    /\ Fail(c)
    /\ UNCHANGED <<nsxVars, ctxDone, loopVars, lateness>>

\* Mutant of WaitOver: a sleep that does not watch the context.
WaitSleptOut(c) == In(c, "waiting") /\ calls[c].wait = 0

WaitOver(c) == In(c, "waiting") /\ (calls[c].wait = 0 \/ ctxDone)

\* The select after a 429: when both channels are ready either may be taken.
LeaveWait(c) ==
    /\ WaitOver(c)
    /\ \/ /\ calls[c].wait = 0
          /\ calls' = [calls EXCEPT ![c] = Request(@.attempt + 1, 2 * @.backoff)]
          /\ UNCHANGED <<pc, listVars, poolVars>>
       \/ ctxDone /\ Fail(c)
    /\ UNCHANGED <<nsxVars, ctxDone, loopVars, lateness>>

-----------------------------------------------------------------------------
(* The paged listing. *)

Remaining == {t \in nsx : t > cursor}

\* A page NSX may serve: the first of what remains, at least one if any does.
Pages ==
    {page \in SUBSET Remaining :
        /\ Cardinality(page) <= PageSize
        /\ page = {} => Remaining = {}
        /\ \A t \in page, u \in Remaining : u <= t => u \in page}

\* The cursor NSX may send with it: the last id served, or "" when nothing is
\* left; an empty page may still come with a cursor.
NextCursors(page) ==
    {t \in page : \A u \in page : u <= t}
    \cup (IF page = Remaining THEN {0} ELSE {})
    \cup (IF page = {} THEN {cursor} ELSE {})

\* Mutant of PageAnswered: the last page is dropped.
PageAnsweredButLast(page, nextCursor) ==
    /\ In(Lister, "sent") /\ ~ctxDone
    /\ listed' = IF nextCursor = 0 THEN listed ELSE listed \cup page
    /\ IF nextCursor = 0 \/ page = {}
       THEN /\ pc' = "spawn" /\ todo' = listed' /\ cursor' = 0
            /\ Close(Lister, "ok")
       ELSE /\ cursor' = nextCursor
            /\ calls' = [calls EXCEPT ![Lister] = FirstRequest]
            /\ UNCHANGED <<pc, todo>>
    /\ UNCHANGED <<nsxVars, ctxDone, pace, poolVars, lateness>>

PageAnswered(page, nextCursor) ==
    /\ In(Lister, "sent") /\ ~ctxDone
    /\ listed' = listed \cup page
    /\ IF nextCursor = 0 \/ page = {}
       THEN /\ pc' = "spawn" /\ todo' = listed' /\ cursor' = 0
            /\ Close(Lister, "ok")
       ELSE /\ cursor' = nextCursor
            /\ calls' = [calls EXCEPT ![Lister] = FirstRequest]
            /\ UNCHANGED <<pc, todo>>
    /\ UNCHANGED <<nsxVars, ctxDone, pace, poolVars, lateness>>

-----------------------------------------------------------------------------
(* The pool: the loop, its goroutines and the final wait. *)

\* One turn of the loop: the first T1 at once, each other one Pace later.
Start(t) ==
    /\ pc = "spawn" /\ pace = 0
    /\ t \in todo /\ \A u \in todo : t <= u
    /\ todo' = todo \ {t}
    /\ pace' = IF todo' = {} THEN 0 ELSE Pace
    /\ wg' = wg + 1
    /\ calls' = [calls EXCEPT ![t] = Idle("queued")]
    /\ UNCHANGED <<nsxVars, ctxDone, pc, listVars, sem, out, errors, lateness>>

\* Mutant of EndLoop: the early return does not wait for the goroutines.
EndLoopAtOnce ==
    /\ pc = "spawn"
    /\ todo = {} \/ (ctxDone /\ Pace > 0 /\ todo # listed)
    /\ pc' = IF todo = {} THEN "drain" ELSE "done"
    /\ pace' = 0
    /\ UNCHANGED <<nsxVars, ctxDone, listVars, calls, todo, poolVars, lateness>>

\* The loop is over, or the context is done while it paces itself.
EndLoop ==
    /\ pc = "spawn"
    /\ todo = {} \/ (ctxDone /\ Pace > 0 /\ todo # listed)
    /\ pc' = "drain"
    /\ pace' = 0
    /\ UNCHANGED <<nsxVars, ctxDone, listVars, calls, todo, poolVars, lateness>>

\* Mutant of Acquire: no slot is needed.
AcquireAtOnce(t) ==
    /\ t # Lister /\ In(t, "queued")
    /\ sem' = sem + 1
    /\ calls' = [calls EXCEPT ![t] = FirstRequest]
    /\ UNCHANGED <<nsxVars, ctxDone, pc, listVars, loopVars, wg, out, errors, lateness>>

Acquire(t) ==
    /\ t # Lister /\ In(t, "queued") /\ sem < Parallel
    /\ sem' = sem + 1
    /\ calls' = [calls EXCEPT ![t] = FirstRequest]
    /\ UNCHANGED <<nsxVars, ctxDone, pc, listVars, loopVars, wg, out, errors, lateness>>

CountAnswered(t) ==
    /\ t # Lister /\ In(t, "sent") /\ ~ctxDone
    /\ t \in nsx
    /\ Finish(t, "ok")
    /\ UNCHANGED <<nsxVars, ctxDone, loopVars, lateness>>

Return ==
    /\ pc = "drain" /\ wg = 0
    /\ pc' = "done"
    /\ UNCHANGED <<nsxVars, ctxDone, listVars, calls, loopVars, poolVars, lateness>>

-----------------------------------------------------------------------------
(* Time. *)

\* Something the program or, after a cancellation, its HTTP client does at once.
Ready ==
    \/ pc = "spawn" /\ (pace = 0 \/ todo = {} \/ (ctxDone /\ todo # listed))
    \/ pc = "drain" /\ wg = 0
    \/ \E c \in Callers : \/ In(c, "queued") /\ sem < Parallel
                          \/ WaitOver(c)
                          \/ In(c, "sent") /\ (ctxDone \/ calls[c].age = Timeout)

Less(n) == IF n > 0 THEN n - 1 ELSE 0

Tick ==
    /\ Running /\ ~Ready
    /\ calls' = [c \in Callers |->
                   [calls[c] EXCEPT !.wait = Less(@), !.age = IF In(c, "sent") THEN @ + 1 ELSE @]]
    /\ pace' = Less(pace)
    /\ lateness' = IF ctxDone THEN lateness + 1 ELSE lateness
    /\ UNCHANGED <<nsxVars, ctxDone, pc, listVars, todo, poolVars>>

-----------------------------------------------------------------------------
Step ==
    \/ \E c \in Callers : \/ \E asked \in RetryAfters : Throttled(c, asked)
                          \/ Refused(c) \/ LeaveWait(c)
    \/ \E page \in Pages : \E nextCursor \in NextCursors(page) : PageAnswered(page, nextCursor)
    \/ \E t \in T1s : Start(t) \/ Acquire(t) \/ CountAnswered(t)
    \/ EndLoop \/ Return
    \/ Tick

Next == (\E t \in T1s : ChangeInventory(t)) \/ Cancel \/ Step

Spec == Init /\ [][Next]_vars

\* Goroutines are scheduled, every request is answered or times out, and the
\* clock goes on.
FairSpec == Spec /\ WF_vars(Step)

-----------------------------------------------------------------------------
(* Properties. *)

Holding == {t \in T1s : In(t, "sent") \/ In(t, "waiting")}
Started == {t \in T1s : ~In(t, "unused")}

\* Every variable holds a value of its type.
TypeOK ==
    /\ nsx \subseteq T1s /\ changes \in Nat
    /\ ctxDone \in BOOLEAN
    /\ pc \in {"list", "spawn", "drain", "done", "failed"}
    /\ cursor \in Callers /\ listed \subseteq T1s
    /\ calls \in [Callers -> [st : {"unused", "queued", "sent", "waiting", "ok", "err"},
                              attempt : 0..MaxAttempts, backoff : Nat, wait : Nat, age : 0..Timeout]]
    /\ todo \subseteq listed /\ pace \in 0..Pace
    /\ sem \in 0..Parallel /\ wg \in Nat
    /\ out \subseteq T1s /\ errors \subseteq T1s
    /\ always \subseteq T1s /\ ever \subseteq T1s
    /\ lateness \in Nat

\* Never are more requests on their way to the manager, or being retried, than
\* the configured parallelism: whatever is throttled, refused or cancelled.
InFlightBounded == Cardinality(Holding) <= Parallel

\* When the fetch returns, every T1 it started is a result or a counted error,
\* never both; and it started every listed T1 unless it was cancelled.
EveryT1Accounted ==
    pc = "done" => /\ Started = out \cup errors /\ out \cap errors = {}
                   /\ ~ctxDone => Started = listed

\* Nothing goes on behind the caller's back: once the fetch has returned, also
\* by its early return, no goroutine asks, waits or appends to the output.
QuietAfterReturn == [][pc = "done" => UNCHANGED <<calls, poolVars>>]_vars

\* A listing that ends holds every T1 that existed all the time it took and
\* none that never existed, whatever pages were retried and whatever came and
\* went; otherwise the T1 watcher would tell of deletions that never happened.
ListingFaithful ==
    pc \in {"spawn", "drain", "done"} => always \subseteq listed /\ listed \subseteq ever

\* A cancelled fetch returns at once: no wait for Retry-After, for the pace of
\* the loop or for a slot outlives the context.
CancelPrompt == lateness = 0

\* The fetch ends: no slot is lost, no goroutine waits for ever, no listing
\* goes round in circles, whatever the manager answers.
FetchReturns == <>(pc \in {"done", "failed"})
=============================================================================
