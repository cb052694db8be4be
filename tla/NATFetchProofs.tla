--------------------------- MODULE NATFetchProofs ---------------------------
(***************************************************************************)
(* Theorems about NATFetch, for any T1s, page size, parallelism, pace,     *)
(* retries and timeout: type correctness, the bound on the requests under  *)
(* way, the accounting of every T1, the faithfulness of the paged listing, *)
(* the promptness of a cancellation and the quiet after the return.        *)
(*                                                                         *)
(* The slots taken and the WaitGroup's counter are the cardinalities of    *)
(* the sets of goroutines that hold a slot and that are not over; every    *)
(* step adds one goroutine to each set, takes one away or leaves it alone. *)
(***************************************************************************)
EXTENDS NATFetch, FiniteSetTheorems, TLAPS

States == {"unused", "queued", "sent", "waiting", "ok", "err"}

\* What a caller may look like: one that waits has an attempt left.
Call ==
    {call \in [st : States, attempt : 0..MaxAttempts, backoff : Nat, wait : Nat, age : 0..Timeout] :
        call.st = "waiting" => call.attempt < MaxAttempts}

Live == {t \in T1s : calls[t].st \in {"queued", "sent", "waiting"}}

\* The pool counts what it has started.
PoolInv ==
    /\ sem = Cardinality(Holding) /\ wg = Cardinality(Live)
    /\ out = {t \in T1s : In(t, "ok")} /\ errors = {t \in T1s : In(t, "err")}

\* Where the fetch stands, and what that says of the callers.
StageInv ==
    /\ pc = "list" <=> calls[Lister].st \in {"sent", "waiting"}
    /\ calls[Lister].st # "queued"
    /\ pc \in {"list", "failed"} => Started = {} /\ todo = {}
    /\ pc \in {"spawn", "drain", "done"} => Started = listed \ todo
    /\ pc \in {"drain", "done"} => todo = {} \/ ctxDone
    /\ pc # "spawn" => pace = 0
    /\ pace > 0 => todo # listed
    /\ pc = "done" => Live = {}

\* While the listing lasts: what was there all along and is behind the cursor
\* has been listed.
ListInv ==
    /\ pc = "list" =>
          /\ always \subseteq nsx /\ nsx \subseteq ever /\ listed \subseteq ever
          /\ \A t \in always : t <= cursor => t \in listed
    /\ ListingFaithful

-----------------------------------------------------------------------------
(* Data. *)

LEMMA CallersFacts == /\ T1s \subseteq Callers /\ Lister \in Callers /\ Lister \notin T1s
                      /\ \A c \in Callers : c \in Nat
  BY T1sAssumption DEF Callers, Lister

LEMMA CallFacts ==
    /\ Idle("unused") \in Call /\ Idle("queued") \in Call
    /\ Idle("ok") \in Call /\ Idle("err") \in Call
    /\ FirstRequest \in Call
    /\ \A attempt \in 1..MaxAttempts, backoff \in Nat : Request(attempt, backoff) \in Call
  BY PoolAssumption, RetryAssumption DEF Idle, Request, FirstRequest, Call, States

LEMMA SetsFinite == IsFiniteSet(Holding) /\ IsFiniteSet(Live)
  BY T1sAssumption, FS_Subset DEF Holding, Live

\* A caller that changes its state changes the sets by itself only.
LEMMA MoveCaller ==
    ASSUME calls \in [Callers -> Call], NEW c \in Callers, NEW call \in Call,
           calls' = [calls EXCEPT ![c] = call]
    PROVE  /\ calls' \in [Callers -> Call] /\ calls'[c] = call
           /\ \A d \in Callers \ {c} : calls'[d] = calls[d]
           /\ c \in T1s /\ call.st \in {"sent", "waiting"} => Holding' = Holding \cup {c}
           /\ c \notin T1s => UNCHANGED <<Holding, Live, Started>>
           /\ c \in T1s /\ call.st \in {"queued", "ok", "err", "unused"} => Holding' = Holding \ {c}
           /\ c \in T1s /\ call.st \in {"queued", "sent", "waiting"} => Live' = Live \cup {c}
           /\ c \in T1s /\ call.st \in {"ok", "err", "unused"} => Live' = Live \ {c}
           /\ c \in T1s /\ call.st # "unused" => Started' = Started \cup {c}
  <1>1. calls' \in [Callers -> Call] /\ calls'[c] = call /\ \A d \in Callers \ {c} : calls'[d] = calls[d]
    OBVIOUS
  <1>. QED
    BY <1>1, CallersFacts DEF Holding, Live, Started, In

-----------------------------------------------------------------------------
(* One goroutine's end. *)

LEMMA FinishStep ==
    ASSUME TypeOK, calls \in [Callers -> Call], PoolInv, NEW t \in T1s, NEW st \in {"ok", "err"}, Finish(t, st),
           t \in Holding
    PROVE  /\ calls' \in [Callers -> Call] /\ PoolInv'
           /\ sem' \in 0..Parallel /\ wg' \in Nat /\ out' \subseteq T1s /\ errors' \subseteq T1s
           /\ calls'[t].st = st /\ \A d \in Callers \ {t} : calls'[d] = calls[d]
           /\ Started' = Started /\ UNCHANGED <<pc, cursor, listed>>
  <1>1. Idle(st) \in Call /\ Idle(st).st = st /\ t \in Callers
    BY CallFacts, CallersFacts DEF Idle
  <1>2. calls' = [calls EXCEPT ![t] = Idle(st)] /\ calls \in [Callers -> Call]
    BY DEF Finish, Close
  <1>3. /\ calls' \in [Callers -> Call] /\ calls'[t] = Idle(st)
        /\ \A d \in Callers \ {t} : calls'[d] = calls[d]
        /\ Holding' = Holding \ {t} /\ Live' = Live \ {t} /\ Started' = Started \cup {t}
    BY <1>1, <1>2, MoveCaller
  <1>4. t \in Live /\ t \in Started
    BY DEF Holding, Live, Started, In
  <1>5. /\ Cardinality(Holding \ {t}) = Cardinality(Holding) - 1
        /\ Cardinality(Live \ {t}) = Cardinality(Live) - 1
        /\ Cardinality(Holding \ {t}) \in Nat /\ Cardinality(Live \ {t}) \in Nat
    BY <1>4, SetsFinite, FS_RemoveElement, FS_CardinalityType
  <1>6. sem' = Cardinality(Holding') /\ wg' = Cardinality(Live')
    BY <1>3, <1>5 DEF Finish, PoolInv
  <1>7. /\ calls'[t].st = st /\ calls[t].st \notin {"ok", "err"}
        /\ \A u \in T1s \ {t} : calls'[u].st = calls[u].st
    BY <1>1, <1>3, CallersFacts DEF In, Holding
  <1>8. /\ out' = {u \in T1s : calls'[u].st = "ok"}
        /\ errors' = {u \in T1s : calls'[u].st = "err"}
    <2>1. /\ out = {u \in T1s : calls[u].st = "ok"} /\ errors = {u \in T1s : calls[u].st = "err"}
      BY DEF PoolInv, In
    <2>2. CASE st = "ok"
      BY <1>7, <2>1, <2>2 DEF Finish
    <2>3. CASE st = "err"
      BY <1>7, <2>1, <2>3 DEF Finish
    <2>. QED
      BY <2>2, <2>3
  <1>9. PoolInv' /\ sem' \in 0..Parallel /\ wg' \in Nat
    <2>1. PoolInv'
      BY <1>6, <1>8 DEF PoolInv, In
    <2>2. sem' = sem - 1 /\ sem \in 0..Parallel /\ Parallel \in Nat
      BY PoolAssumption DEF Finish, TypeOK
    <2>3. sem' \in Nat /\ wg' \in Nat
      BY <1>3, <1>5, <1>6
    <2>. QED
      BY <2>1, <2>2, <2>3
  <1>10. Started' = Started /\ UNCHANGED <<pc, cursor, listed>>
    BY <1>3, <1>4 DEF Finish, listVars
  <1>11. out' \subseteq T1s /\ errors' \subseteq T1s
    BY <1>8
  <1>. QED
    BY <1>3, <1>7, <1>9, <1>10, <1>11

-----------------------------------------------------------------------------
(* The inductive invariant, step by step. *)

CallsInv == calls \in [Callers -> Call]

Inv == TypeOK /\ CallsInv /\ PoolInv /\ StageInv /\ ListInv /\ lateness = 0

\* A caller fails: the listing with all its pages, or one goroutine.
LEMMA FailStep ==
    ASSUME Inv, NEW c \in Callers, calls[c].st \in {"sent", "waiting"}, Fail(c),
           UNCHANGED <<nsxVars, ctxDone, loopVars, lateness>>
    PROVE  Inv'
  <1>0. calls \in [Callers -> Call]
    BY DEF Inv, CallsInv
  <1>1. CASE c = Lister /\ FailListing
    <2>1. calls' = [calls EXCEPT ![Lister] = Idle("err")] /\ Idle("err") \in Call
      BY <1>1, CallFacts DEF FailListing, Close
    <2>2. /\ calls' \in [Callers -> Call] /\ calls'[Lister] = Idle("err")
          /\ \A d \in Callers \ {Lister} : calls'[d] = calls[d]
          /\ UNCHANGED <<Holding, Live, Started>>
      BY <1>0, <2>1, CallersFacts, MoveCaller
    <2>3. \A t \in T1s : calls'[t] = calls[t]
      BY <2>2, CallersFacts
    <2>4. pc = "list" /\ pc' = "failed" /\ listed' = {} /\ cursor' = cursor /\ UNCHANGED <<sem, wg, out, errors>>
      BY <1>1 DEF FailListing, Inv, CallsInv, StageInv, poolVars
    <2>5. UNCHANGED <<nsx, changes, always, ever, ctxDone, todo, pace, lateness>>
      BY DEF nsxVars, loopVars
    <2>6. Started = {} /\ todo = {}
      BY <2>4, CallersFacts DEF Inv, CallsInv, StageInv, TypeOK
    <2>7. PoolInv'
      <3>1. \A t \in T1s : In(t, "ok")' = In(t, "ok") /\ In(t, "err")' = In(t, "err")
        BY <2>3 DEF In
      <3>. QED
        BY <2>2, <2>4, <3>1 DEF Inv, CallsInv, PoolInv
    <2>8. TypeOK'
      BY <2>2, <2>4, <2>5, <2>6 DEF Inv, CallsInv, TypeOK, Call, States
    <2>9. StageInv'
      BY <2>2, <2>4, <2>5, <2>6 DEF Inv, CallsInv, StageInv, Idle
    <2>10. ListInv'
      BY <2>4 DEF ListInv, ListingFaithful
    <2>. QED
      BY <2>2, <2>5, <2>7, <2>8, <2>9, <2>10 DEF Inv, CallsInv
  <1>2. CASE c # Lister /\ Finish(c, "err")
    <2>1. c \in T1s /\ c \in Holding
      BY <1>2 DEF Callers, Holding, In
    <2>2. /\ calls' \in [Callers -> Call] /\ PoolInv'
          /\ sem' \in 0..Parallel /\ wg' \in Nat /\ out' \subseteq T1s /\ errors' \subseteq T1s
          /\ calls'[c].st = "err" /\ \A d \in Callers \ {c} : calls'[d] = calls[d]
          /\ Started' = Started /\ UNCHANGED <<pc, cursor, listed>>
      BY <1>2, <2>1, FinishStep DEF Inv, CallsInv
    <2>3. UNCHANGED <<nsx, changes, always, ever, ctxDone, todo, pace, lateness>>
      BY DEF nsxVars, loopVars
    <2>4. calls'[Lister] = calls[Lister]
      BY <1>2, <2>2, CallersFacts
    <2>5. Live' \subseteq Live
      BY <2>2, CallersFacts DEF Live
    <2>. QED
      BY <2>2, <2>3, <2>4, <2>5 DEF Inv, CallsInv, TypeOK, StageInv, ListInv, ListingFaithful, Call, States
  <1>. QED
    BY <1>1, <1>2 DEF Fail

\* A caller asks again or waits.
LEMMA RetryStep ==
    ASSUME Inv, NEW c \in Callers, calls[c].st \in {"sent", "waiting"},
           NEW call \in Call, call.st \in {"sent", "waiting"},
           calls' = [calls EXCEPT ![c] = call],
           UNCHANGED <<nsxVars, ctxDone, pc, listVars, loopVars, poolVars, lateness>>
    PROVE  Inv'
  <1>1. calls \in [Callers -> Call]
    BY DEF Inv, CallsInv
  <1>2. calls' \in [Callers -> Call] /\ calls'[c] = call /\ \A d \in Callers \ {c} : calls'[d] = calls[d]
    BY <1>1
  <1>3. UNCHANGED <<Holding, Live, Started>>
    BY <1>2, CallersFacts DEF Holding, Live, Started, In
  <1>4. UNCHANGED <<nsx, changes, always, ever, ctxDone, pc, cursor, listed, todo, pace, sem, wg, out, errors, lateness>>
    BY DEF nsxVars, listVars, loopVars, poolVars
  <1>5. \A t \in T1s : (calls'[t].st = "ok" <=> calls[t].st = "ok") /\ (calls'[t].st = "err" <=> calls[t].st = "err")
    BY <1>2, CallersFacts
  <1>6. PoolInv'
    BY <1>3, <1>4, <1>5 DEF Inv, CallsInv, PoolInv, In
  <1>7. StageInv'
    BY <1>2, <1>3, <1>4, CallersFacts DEF Inv, CallsInv, StageInv
  <1>. QED
    BY <1>2, <1>4, <1>6, <1>7 DEF Inv, CallsInv, TypeOK, ListInv, ListingFaithful, Call, States

LEMMA PageStep ==
    ASSUME Inv, NEW page \in Pages, NEW nextCursor \in NextCursors(page), PageAnswered(page, nextCursor)
    PROVE  Inv'
  <1>0. calls \in [Callers -> Call] /\ pc = "list" /\ calls[Lister].st = "sent"
    BY DEF Inv, CallsInv, TypeOK, StageInv, PageAnswered, In, Call, States
  <1>1. /\ UNCHANGED <<nsx, changes, always, ever, ctxDone, pace, sem, wg, out, errors, lateness>>
        /\ listed' = listed \cup page
    BY DEF PageAnswered, nsxVars, poolVars
  <1>2. PICK call \in Call : calls' = [calls EXCEPT ![Lister] = call] /\
           \/ call.st = "ok" /\ (nextCursor = 0 \/ page = {})
           \/ call.st = "sent" /\ ~(nextCursor = 0 \/ page = {})
    BY CallFacts DEF PageAnswered, Close, Idle, FirstRequest, Request
  <1>3. /\ calls' \in [Callers -> Call] /\ calls'[Lister] = call
        /\ \A t \in T1s : calls'[t] = calls[t]
        /\ UNCHANGED <<Holding, Live, Started>>
    BY <1>0, <1>2, CallersFacts, MoveCaller
  <1>4. PoolInv'
    BY <1>1, <1>3 DEF Inv, CallsInv, PoolInv, In
  <1>5. page \subseteq nsx /\ nsx \subseteq T1s /\ nextCursor \in Callers
    BY CallersFacts DEF Pages, Remaining, NextCursors, Inv, CallsInv, TypeOK, Lister
  <1>6. \A t \in always : t <= cursor => t \in listed
    BY <1>0 DEF Inv, CallsInv, ListInv
  <1>7. ASSUME NEW t \in always, \/ nextCursor = 0 \/ page = {}
                                 \/ t <= nextCursor
        PROVE  t \in listed'
    <2>1. t \in nsx /\ t \in Nat /\ cursor \in Nat
      BY <1>0, CallersFacts DEF Inv, CallsInv, ListInv, TypeOK
    <2>2. CASE t <= cursor
      BY <1>1, <1>6, <2>2
    <2>3. CASE t > cursor
      <3>1. t \in Remaining
        BY <2>1, <2>3 DEF Remaining
      <3>2. page # {}
        BY <3>1 DEF Pages
      <3>3. CASE page = Remaining
        BY <1>1, <3>1, <3>3
      <3>4. CASE page # Remaining
        <4>1. nextCursor \in page
          BY <3>2, <3>4 DEF NextCursors
        <4>2. nextCursor # 0
          BY <1>5, <4>1, T1sAssumption
        <4>. QED
          BY <1>1, <1>7, <3>1, <3>2, <4>1, <4>2 DEF Pages
      <3>. QED
        BY <3>3, <3>4
    <2>. QED
      BY <2>1, <2>2, <2>3
  <1>8. CASE nextCursor = 0 \/ page = {}
    <2>1. pc' = "spawn" /\ todo' = listed' /\ cursor' = 0 /\ call.st = "ok"
      BY <1>2, <1>8 DEF PageAnswered
    <2>2. Started = {} /\ pace = 0
      BY <1>0 DEF Inv, CallsInv, StageInv
    <2>3. StageInv'
      BY <1>1, <1>3, <2>1, <2>2 DEF StageInv
    <2>4. ListInv'
      BY <1>0, <1>1, <1>5, <1>7, <1>8, <2>1 DEF Inv, CallsInv, ListInv, ListingFaithful
    <2>5. TypeOK'
      BY <1>1, <1>3, <1>5, <2>1, CallersFacts DEF Inv, CallsInv, TypeOK, Call, States, Lister
    <2>. QED
      BY <1>1, <1>3, <1>4, <2>3, <2>4, <2>5 DEF Inv, CallsInv
  <1>9. CASE ~(nextCursor = 0 \/ page = {})
    <2>1. cursor' = nextCursor /\ pc' = pc /\ todo' = todo /\ call.st = "sent"
      BY <1>2, <1>9 DEF PageAnswered
    <2>2. StageInv'
      BY <1>0, <1>1, <1>3, <2>1 DEF Inv, CallsInv, StageInv
    <2>3. ListInv'
      BY <1>0, <1>1, <1>5, <1>7, <2>1 DEF Inv, CallsInv, ListInv, ListingFaithful
    <2>. QED
      BY <1>1, <1>3, <1>4, <1>5, <2>1, <2>2, <2>3, CallersFacts DEF Inv, CallsInv, TypeOK, Call, States
  <1>. QED
    BY <1>8, <1>9

LEMMA StartStep ==
    ASSUME Inv, NEW t \in T1s, Start(t)
    PROVE  Inv'
  <1>1. /\ calls \in [Callers -> Call] /\ calls' = [calls EXCEPT ![t] = Idle("queued")]
        /\ Idle("queued") \in Call /\ Idle("queued").st = "queued"
        /\ pc = "spawn" /\ t \in todo /\ todo' = todo \ {t} /\ wg' = wg + 1
    BY CallFacts DEF Inv, CallsInv, TypeOK, Start, Call, States, Idle
  <1>2. UNCHANGED <<nsx, changes, always, ever, ctxDone, pc, cursor, listed, sem, out, errors, lateness>>
    BY DEF Start, nsxVars, listVars
  <1>3. Started = listed \ todo /\ t \notin Started /\ calls[t].st = "unused"
    BY <1>1 DEF Inv, CallsInv, StageInv, Started, In
  <1>4. /\ calls' \in [Callers -> Call] /\ calls'[t].st = "queued"
        /\ \A d \in Callers \ {t} : calls'[d] = calls[d]
        /\ Holding' = Holding \ {t} /\ Live' = Live \cup {t} /\ Started' = Started \cup {t}
    BY <1>1, CallersFacts, MoveCaller
  <1>5. t \notin Holding /\ t \notin Live
    BY <1>3 DEF Holding, Live, In
  <1>6. wg' = Cardinality(Live') /\ sem' = Cardinality(Holding') /\ wg' \in Nat
    <2>1. Holding' = Holding
      BY <1>4, <1>5
    <2>2. Cardinality(Live \cup {t}) = Cardinality(Live) + 1
      BY <1>5, SetsFinite, FS_AddElement
    <2>3. Cardinality(Live) \in Nat
      BY SetsFinite, FS_CardinalityType
    <2>4. wg = Cardinality(Live) /\ sem = Cardinality(Holding)
      BY DEF Inv, PoolInv
    <2>5. wg' = Cardinality(Live')
      BY <1>1, <1>4, <2>2, <2>4
    <2>. QED
      BY <1>1, <1>2, <2>1, <2>3, <2>4, <2>5
  <1>7. PoolInv'
    <2>1. \A u \in T1s : In(u, "ok")' = In(u, "ok") /\ In(u, "err")' = In(u, "err")
      BY <1>3, <1>4, CallersFacts DEF In
    <2>. QED
      BY <1>2, <1>6, <2>1 DEF Inv, CallsInv, PoolInv
  <1>8. t \in listed /\ pace' \in 0..Pace
    BY <1>1, PoolAssumption DEF Inv, CallsInv, TypeOK, Start
  <1>9. calls'[Lister] = calls[Lister]
    BY <1>4, CallersFacts
  <1>10. StageInv'
    BY <1>1, <1>2, <1>3, <1>4, <1>8, <1>9 DEF Inv, CallsInv, StageInv
  <1>11. TypeOK'
    BY <1>1, <1>2, <1>4, <1>6, <1>8 DEF Inv, CallsInv, TypeOK, Call, States
  <1>. QED
    BY <1>1, <1>2, <1>7, <1>10, <1>11 DEF Inv, CallsInv, ListInv, ListingFaithful

LEMMA AcquireStep ==
    ASSUME Inv, NEW t \in T1s, Acquire(t)
    PROVE  Inv'
  <1>1. /\ calls \in [Callers -> Call] /\ calls' = [calls EXCEPT ![t] = FirstRequest]
        /\ FirstRequest \in Call /\ FirstRequest.st = "sent"
        /\ calls[t].st = "queued" /\ sem < Parallel /\ sem' = sem + 1
    BY CallFacts DEF Inv, CallsInv, TypeOK, Acquire, Call, States, FirstRequest, Request, In
  <1>2. UNCHANGED <<nsx, changes, always, ever, ctxDone, pc, cursor, listed, todo, pace, wg, out, errors, lateness>>
    BY DEF Acquire, nsxVars, listVars, loopVars
  <1>3. t \notin Holding /\ t \in Live /\ t \in Started
    BY <1>1 DEF Holding, Live, Started, In
  <1>4. /\ calls' \in [Callers -> Call] /\ calls'[t].st = "sent"
        /\ \A d \in Callers \ {t} : calls'[d] = calls[d]
        /\ Holding' = Holding \cup {t} /\ Live' = Live \cup {t} /\ Started' = Started \cup {t}
    BY <1>1, CallersFacts, MoveCaller
  <1>5. Live' = Live /\ Started' = Started
    BY <1>3, <1>4
  <1>6. sem' = Cardinality(Holding')
    BY <1>1, <1>3, <1>4, SetsFinite, FS_AddElement DEF Inv, CallsInv, PoolInv
  <1>7. PoolInv'
    <2>1. \A u \in T1s : In(u, "ok")' = In(u, "ok") /\ In(u, "err")' = In(u, "err")
      BY <1>1, <1>4, CallersFacts DEF In
    <2>. QED
      BY <1>2, <1>5, <1>6, <2>1 DEF Inv, CallsInv, PoolInv
  <1>8. calls'[Lister] = calls[Lister]
    BY <1>4, CallersFacts
  <1>9. sem' \in 0..Parallel
    BY <1>1, PoolAssumption DEF Inv, CallsInv, TypeOK
  <1>10. TypeOK'
    BY <1>2, <1>4, <1>9 DEF Inv, CallsInv, TypeOK, Call, States
  <1>. QED
    BY <1>2, <1>4, <1>5, <1>7, <1>8, <1>10 DEF Inv, CallsInv, StageInv, ListInv, ListingFaithful

LEMMA CountStep ==
    ASSUME Inv, NEW t \in T1s, CountAnswered(t)
    PROVE  Inv'
  <1>1. t \in Holding /\ Finish(t, "ok")
    BY DEF CountAnswered, Holding
  <1>2. /\ calls' \in [Callers -> Call] /\ PoolInv'
        /\ sem' \in 0..Parallel /\ wg' \in Nat /\ out' \subseteq T1s /\ errors' \subseteq T1s
        /\ calls'[t].st = "ok" /\ \A d \in Callers \ {t} : calls'[d] = calls[d]
        /\ Started' = Started /\ UNCHANGED <<pc, cursor, listed>>
    BY <1>1, FinishStep DEF Inv, CallsInv
  <1>3. UNCHANGED <<nsx, changes, always, ever, ctxDone, todo, pace, lateness>>
    BY DEF CountAnswered, nsxVars, loopVars
  <1>4. calls'[Lister] = calls[Lister]
    BY <1>2, CallersFacts
  <1>5. Live' \subseteq Live
    BY <1>2, CallersFacts DEF Live
  <1>. QED
    BY <1>2, <1>3, <1>4, <1>5 DEF Inv, CallsInv, TypeOK, StageInv, ListInv, ListingFaithful, Call, States

\* The loop ends, the wait ends, the world moves on.
LEMMA PlainSteps ==
    ASSUME Inv, \/ EndLoop \/ Return \/ Cancel \/ UNCHANGED vars
                \/ \E t \in T1s : ChangeInventory(t)
    PROVE  Inv'
  <1>1. UNCHANGED <<calls, cursor, listed, todo, sem, wg, out, errors, lateness>>
    BY DEF EndLoop, Return, Cancel, ChangeInventory, vars, listVars, loopVars, poolVars
  <1>2. UNCHANGED <<Holding, Live, Started>> /\ PoolInv'
    <2>1. \A u \in T1s : \A st \in States : In(u, st)' = In(u, st)
      BY <1>1 DEF In
    <2>. QED
      BY <1>1, <2>1 DEF Inv, CallsInv, PoolInv, Holding, Live, Started, In, States
  <1>3. CASE EndLoop
    BY <1>1, <1>2, <1>3, PoolAssumption DEF EndLoop, Inv, CallsInv, TypeOK, StageInv, ListInv, ListingFaithful, nsxVars
  <1>4. CASE Return
    <2>1. Live = {}
      BY <1>4, SetsFinite, FS_EmptySet DEF Return, Inv, CallsInv, PoolInv
    <2>. QED
      BY <1>1, <1>2, <1>4, <2>1 DEF Return, Inv, CallsInv, TypeOK, StageInv, ListInv, ListingFaithful, nsxVars, loopVars
  <1>5. CASE Cancel
    BY <1>1, <1>2, <1>5 DEF Cancel, Inv, CallsInv, TypeOK, StageInv, ListInv, ListingFaithful, nsxVars, loopVars
  <1>6. CASE UNCHANGED vars
    BY <1>1, <1>2, <1>6 DEF vars, Inv, CallsInv, TypeOK, StageInv, ListInv, ListingFaithful, nsxVars, loopVars
  <1>7. ASSUME NEW t \in T1s, ChangeInventory(t) PROVE Inv'
    <2>1. UNCHANGED <<ctxDone, pc, pace>>
      BY <1>7 DEF ChangeInventory, loopVars
    <2>2. /\ nsx' \subseteq T1s /\ changes' \in Nat /\ always' \subseteq T1s /\ ever' \subseteq T1s
          /\ pc = "list" => always' \subseteq always /\ always' \subseteq nsx'
                            /\ nsx' \subseteq ever' /\ ever \subseteq ever'
          /\ pc # "list" => UNCHANGED <<always, ever>>
      BY <1>7 DEF ChangeInventory, Inv, CallsInv, TypeOK, ListInv
    <2>3. ListInv'
      BY <1>1, <2>1, <2>2 DEF Inv, CallsInv, ListInv, ListingFaithful
    <2>4. TypeOK' /\ StageInv'
      BY <1>1, <1>2, <2>1, <2>2 DEF Inv, CallsInv, TypeOK, StageInv
    <2>. QED
      BY <1>1, <1>2, <2>3, <2>4 DEF Inv, CallsInv
  <1>. QED
    BY <1>3, <1>4, <1>5, <1>6, <1>7

\* Once the context is done there is always something to do at once.
LEMMA CancelledReady == Inv /\ Running /\ ctxDone => Ready
  <1>. SUFFICES ASSUME Inv, Running, ctxDone PROVE Ready
    OBVIOUS
  <1>1. ASSUME NEW c \in Callers, calls[c].st \in {"sent", "waiting"} PROVE Ready
    BY <1>1 DEF Ready, WaitOver, In
  <1>2. CASE pc = "list"
    BY <1>1, <1>2, CallersFacts DEF Inv, CallsInv, StageInv
  <1>3. CASE pc = "spawn"
    BY <1>3, PoolAssumption DEF Inv, CallsInv, StageInv, TypeOK, Ready
  <1>4. CASE pc = "drain"
    <2>1. CASE Live = {}
      BY <1>4, <2>1, FS_EmptySet DEF Inv, CallsInv, PoolInv, Ready
    <2>2. CASE Live # {} /\ Holding # {}
      BY <1>1, <2>2, CallersFacts DEF Holding, In
    <2>3. CASE Live # {} /\ Holding = {}
      <3>1. sem = 0 /\ Parallel > 0
        BY <2>3, FS_EmptySet, PoolAssumption DEF Inv, CallsInv, PoolInv
      <3>2. PICK t \in T1s : calls[t].st = "queued"
        BY <2>3 DEF Live, Holding, In
      <3>. QED
        BY <3>1, <3>2, CallersFacts DEF Ready, In
    <2>. QED
      BY <2>1, <2>2, <2>3
  <1>. QED
    BY <1>2, <1>3, <1>4 DEF Running

LEMMA TickStep ==
    ASSUME Inv, Tick
    PROVE  Inv'
  <1>1. UNCHANGED <<nsx, changes, always, ever, ctxDone, pc, cursor, listed, todo, sem, wg, out, errors>>
    BY DEF Tick, nsxVars, listVars, poolVars
  <1>2. \A c \in Callers : calls'[c].st = calls[c].st
    BY DEF Tick, Inv, CallsInv, TypeOK
  <1>3. calls' \in [Callers -> Call]
    <2>. SUFFICES ASSUME NEW c \in Callers
                  PROVE  [calls[c] EXCEPT !.wait = Less(@), !.age = IF In(c, "sent") THEN @ + 1 ELSE @] \in Call
      BY DEF Tick
    <2>1. calls[c] \in Call
      BY DEF Inv, CallsInv
    <2>2. Less(calls[c].wait) \in Nat
      BY <2>1 DEF Less, Call
    <2>3. In(c, "sent") => calls[c].age + 1 \in 0..Timeout
      <3>1. In(c, "sent") => calls[c].age # Timeout
        BY DEF Tick, Ready
      <3>. QED
        BY <2>1, <3>1, RetryAssumption DEF Call
    <2>4. ASSUME NEW wait \in Nat, NEW age \in 0..Timeout
          PROVE  [calls[c] EXCEPT !.wait = wait, !.age = age] \in Call
      BY <2>1 DEF Call
    <2>. QED
      BY <2>1, <2>2, <2>3, <2>4 DEF Call
  <1>4. pace' \in 0..Pace /\ (pace = 0 => pace' = 0) /\ (pace' > 0 => pace > 0)
    <2>1. pace \in 0..Pace /\ pace' = Less(pace) /\ Pace \in Nat
      BY PoolAssumption DEF Tick, Inv, TypeOK
    <2>. QED
      BY <2>1 DEF Less
  <1>5. lateness' = 0
    BY CancelledReady DEF Tick, Inv, CallsInv
  <1>6. UNCHANGED <<Holding, Live, Started>> /\ PoolInv'
    <2>1. \A u \in T1s : \A st \in States : In(u, st)' = In(u, st)
      BY <1>2, CallersFacts DEF In
    <2>. QED
      BY <1>1, <2>1 DEF Inv, CallsInv, PoolInv, Holding, Live, Started, In, States
  <1>7. StageInv'
    BY <1>1, <1>2, <1>4, <1>6, CallersFacts DEF Inv, CallsInv, StageInv
  <1>8. TypeOK'
    BY <1>1, <1>3, <1>4, <1>5 DEF Inv, CallsInv, TypeOK, Call, States
  <1>. QED
    BY <1>1, <1>3, <1>5, <1>6, <1>7, <1>8 DEF Inv, CallsInv, ListInv, ListingFaithful

LEMMA InitInv == Init => Inv
  <1>. SUFFICES ASSUME Init PROVE Inv
    OBVIOUS
  <1>1. /\ \A t \in T1s : calls[t] = Idle("unused")
        /\ calls[Lister] = FirstRequest /\ calls \in [Callers -> Call]
    BY CallFacts, CallersFacts DEF Init
  <1>2. /\ \A t \in T1s : calls[t].st = "unused"
        /\ calls[Lister].st = "sent"
    BY <1>1 DEF Idle, FirstRequest, Request
  <1>3. Holding = {} /\ Live = {} /\ Started = {}
    BY <1>2 DEF Holding, Live, Started, In
  <1>4. PoolInv
    BY <1>2, <1>3, FS_EmptySet DEF Init, PoolInv, In
  <1>5. TypeOK
    <2>1. cursor \in Callers /\ pace \in 0..Pace /\ sem \in 0..Parallel
      BY CallersFacts, PoolAssumption DEF Init, Lister
    <2>2. Call \subseteq [st : States, attempt : 0..MaxAttempts, backoff : Nat, wait : Nat, age : 0..Timeout]
      BY DEF Call
    <2>3. calls \in [Callers -> [st : States, attempt : 0..MaxAttempts, backoff : Nat, wait : Nat, age : 0..Timeout]]
      BY <1>1, <2>2
    <2>. QED
      BY <2>1, <2>3 DEF Init, TypeOK, States
  <1>7. CallsInv /\ lateness = 0
    BY <1>1 DEF Init, CallsInv
  <1>8. StageInv
    BY <1>2, <1>3 DEF Init, StageInv
  <1>6. ListInv
    BY T1sAssumption DEF Init, ListInv, ListingFaithful
  <1>. QED
    BY <1>4, <1>5, <1>6, <1>7, <1>8 DEF Inv

LEMMA NextInv == Inv /\ [Next]_vars => Inv'
  <1>. SUFFICES ASSUME Inv, [Next]_vars PROVE Inv'
    OBVIOUS
  <1>1. ASSUME NEW c \in Callers, NEW asked \in RetryAfters, Throttled(c, asked) PROVE Inv'
    <2>1. calls[c] \in Call /\ calls[c].st = "sent" /\ WaitAfter(calls[c].backoff, asked) \in Nat
      BY <1>1, RetryAssumption DEF Inv, CallsInv, TypeOK, Call, States, Throttled, In, WaitAfter
    <2>. DEFINE call == [calls[c] EXCEPT !.st = "waiting", !.age = 0, !.wait = WaitAfter(calls[c].backoff, asked)]
    <2>2. call \in Call /\ call.st = "waiting"
      <3>1. calls[c].attempt < MaxAttempts
        BY <1>1 DEF Throttled
      <3>2. \A wait \in Nat : [calls[c] EXCEPT !.st = "waiting", !.age = 0, !.wait = wait] \in Call
        <4>. SUFFICES ASSUME NEW wait \in Nat
                      PROVE  [calls[c] EXCEPT !.st = "waiting", !.age = 0, !.wait = wait] \in Call
          OBVIOUS
        <4>1. 0 \in 0..Timeout /\ "waiting" \in States
          BY RetryAssumption DEF States
        <4>2. calls[c] \in [st : States, attempt : 0..MaxAttempts, backoff : Nat, wait : Nat, age : 0..Timeout]
          BY <2>1 DEF Call
        <4>. QED
          BY <3>1, <4>1, <4>2 DEF Call
      <3>. QED
        BY <2>1, <3>2 DEF Call
    <2>3. calls' = [calls EXCEPT ![c] = call]
      BY <1>1 DEF Throttled
    <2>. QED
      BY <1>1, <2>1, <2>2, <2>3, RetryStep DEF Throttled
  <1>2. ASSUME NEW c \in Callers, Refused(c) PROVE Inv'
    BY <1>2, FailStep DEF Refused, In
  <1>3. ASSUME NEW c \in Callers, LeaveWait(c) PROVE Inv'
    <2>1. calls[c].st = "waiting"
      BY <1>3 DEF LeaveWait, WaitOver, In
    <2>2. CASE Fail(c)
      BY <1>3, <2>1, <2>2, FailStep DEF LeaveWait
    <2>3. CASE ~Fail(c)
      <3>. DEFINE call == Request(calls[c].attempt + 1, 2 * calls[c].backoff)
      <3>1. calls' = [calls EXCEPT ![c] = call] /\ UNCHANGED <<pc, listVars, poolVars>>
        BY <1>3, <2>3 DEF LeaveWait
      <3>2. call \in Call /\ call.st = "sent"
        <4>1. calls[c].attempt + 1 \in 1..MaxAttempts
          BY <2>1, RetryAssumption DEF Inv, CallsInv, Call
        <4>2. 2 * calls[c].backoff \in Nat
          BY DEF Inv, CallsInv, Call
        <4>. QED
          BY <4>1, <4>2, CallFacts DEF Request
      <3>. QED
        BY <1>3, <2>1, <3>1, <3>2, RetryStep DEF LeaveWait
    <2>. QED
      BY <2>2, <2>3
  <1>. QED
    BY <1>1, <1>2, <1>3, PageStep, StartStep, AcquireStep, CountStep, PlainSteps, TickStep DEF Next, Step

-----------------------------------------------------------------------------
(* Theorems. *)

LEMMA Invariance == Spec => []Inv
  BY InitInv, NextInv, PTL DEF Spec

\* Every state of the fetch is well typed; no more slots are taken than there are.
THEOREM TypeCorrect == Spec => []TypeOK
  BY Invariance, PTL DEF Inv, CallsInv

\* For any number of T1s, whatever is throttled, refused or cancelled, no more
\* goroutines ask the manager at once than the configured parallelism.
THEOREM InFlight == Spec => []InFlightBounded
  <1>1. Inv => InFlightBounded
    BY PoolAssumption DEF Inv, CallsInv, PoolInv, TypeOK, InFlightBounded
  <1>. QED
    BY <1>1, Invariance, PTL

\* Every T1 the fetch started is a result or a counted error when it returns.
THEOREM Accounted == Spec => []EveryT1Accounted
  <1>1. Inv => EveryT1Accounted
    <2>. SUFFICES ASSUME Inv, pc = "done"
                  PROVE  /\ Started = out \cup errors /\ out \cap errors = {}
                         /\ ~ctxDone => Started = listed
      BY DEF EveryT1Accounted
    <2>1. \A t \in T1s : calls[t].st \in States /\ calls[t].st \notin {"queued", "sent", "waiting"}
      BY CallersFacts DEF Inv, CallsInv, TypeOK, StageInv, Live, States
    <2>2. Started = out \cup errors
      BY <2>1 DEF Inv, CallsInv, PoolInv, Started, In, States
    <2>. QED
      BY <2>2 DEF Inv, CallsInv, PoolInv, StageInv, In
  <1>. QED
    BY <1>1, Invariance, PTL

\* A paged listing that ends holds every T1 that was there all along and none
\* that never was, for any page size and any changes between the pages.
THEOREM Faithful == Spec => []ListingFaithful
  BY Invariance, PTL DEF Inv, CallsInv, ListInv

\* A cancelled fetch never lets the clock go on.
THEOREM Prompt == Spec => []CancelPrompt
  BY Invariance, PTL DEF Inv, CallsInv, CancelPrompt

\* After the return no goroutine asks, waits or appends.
THEOREM Quiet == Spec => QuietAfterReturn
  <1>1. Inv /\ [Next]_vars => (pc = "done" => UNCHANGED <<calls, poolVars>>)
    <2>. SUFFICES ASSUME Inv, Next, pc = "done" PROVE UNCHANGED <<calls, poolVars>>
      BY DEF vars
    <2>1. \A c \in Callers : calls[c].st \notin {"queued", "sent", "waiting"}
      BY CallersFacts DEF Inv, CallsInv, StageInv, Live, Callers
    <2>. QED
      BY <2>1, CallersFacts DEF Next, Step, Throttled, Refused, Fail, LeaveWait, WaitOver, PageAnswered, Start,
         Acquire, CountAnswered, EndLoop, Return, Tick, Running, ChangeInventory, Cancel, In
  <1>. QED
    BY <1>1, Invariance, PTL DEF Spec, QuietAfterReturn
=============================================================================
