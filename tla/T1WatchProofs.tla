---------------------------- MODULE T1WatchProofs ----------------------------
(***************************************************************************)
(* Proofs about T1Watch, for any set of T1s, parents and clusters and any  *)
(* number of changes and faults: type correctness, no more than one report *)
(* per change and failed save, no report of what never happened, no loss   *)
(* that is not counted, and that the watcher implements T1Journal.         *)
(*                                                                         *)
(* Both safety arguments follow one (channel, kind, T1) at a time.  A kind *)
(* is "reflected" by a map when the map has the T1 (created) or lacks it   *)
(* (deleted), so the two kinds are symmetric and share each proof.         *)
(***************************************************************************)
EXTENDS T1Watch, TLAPS

Listed == pc \in {"routers", "load", "save"}
One(b) == IF b THEN 1 ELSE 0
Pending(ch, k, t) == pc = "post" /\ <<k, t>> \in outbox[ch]

\* What Detect leaves in memory until the save.
PassInv ==
    pc = "save" =>
        /\ \A t \in T1s : Present(snap, t) <=> Present(live, t)
        /\ \A ch \in Channels, k \in Kinds, t \in T1s :
              <<k, t>> \in outbox[ch] =>
                  fileExists /\ Reflects(k, live, t) /\ ~Reflects(k, file, t)

\* The reports of one change that are made, under way or still to come, given
\* what the file and the live view of the pass say of the T1.
Accounted(ch, k, t) ==
    LET made == reports[<<ch, k, t>>]
        due == happened[<<k, t>>] + saveFails
    IN  /\ made + One(Pending(ch, k, t)) <= due
        /\ ~fileExists => made + One(Pending(ch, k, t)) = 0
        /\ fileExists /\ ~Reflects(k, file, t)
              => made + One(Pending(ch, k, t)) + One(Reflects(k, nsx, t)) <= due
        /\ Listed /\ ~Reflects(k, live, t)
              => made + One(Reflects(k, nsx, t)) <= due
        /\ Listed /\ fileExists /\ Reflects(k, live, t) /\ ~Reflects(k, file, t)
              => made + 1 <= due

CountInv == \A ch \in Channels, k \in Kinds, t \in T1s : Accounted(ch, k, t)

\* As long as a change has not happened, whoever does not reflect it is right.
Untouched(ch, k, t) ==
    happened[<<k, t>>] = 0 =>
        /\ reports[<<ch, k, t>>] = 0 /\ ~Pending(ch, k, t)
        /\ fileExists /\ ~Reflects(k, file, t) => ~Reflects(k, nsx, t)
        /\ Listed /\ ~Reflects(k, live, t) => ~Reflects(k, nsx, t)
        /\ Listed /\ fileExists /\ ~Reflects(k, file, t) => ~Reflects(k, live, t)

PhantomInv == \A ch \in Channels, k \in Kinds, t \in T1s : Untouched(ch, k, t)
-----------------------------------------------------------------------------
(* Type correctness. *)

\* A gateway or a live view is never taken for a missing entry.
LEMMA Entries ==
    /\ \A g \in Gateways : g # Absent
    /\ \A v \in Views : v # Absent
  BY AbsentAssumption

\* Dropping what a pass holds in memory keeps the types.
LEMMA EndPassType ==
    ASSUME TypeOK, EndPass,
           UNCHANGED <<nsxVars, diskVars, recorded, saveFails>>,
           reports' \in [Channels \X Kinds \X T1s -> Nat],
           lost' \in [Channels \X Kinds \X T1s -> Nat], faults' \in Nat
    PROVE  TypeOK'
  BY DEF TypeOK, EndPass, nsxVars, diskVars, Nothing, NoEvents

\* The counts of lost events stay counts.
LEMMA LosingType ==
    ASSUME TypeOK, NEW dropped, Losing(dropped)
    PROVE  lost' \in [Channels \X Kinds \X T1s -> Nat]
  BY DEF TypeOK, Losing

\* What is dropped is counted once, on the channels it was dropped on.
LEMMA LosingStep ==
    ASSUME TypeOK, NEW dropped, Losing(dropped),
           NEW ch \in Channels, NEW k \in Kinds, NEW t \in T1s
    PROVE  /\ lost[<<ch, k, t>>] \in Nat
           /\ lost'[<<ch, k, t>>] = lost[<<ch, k, t>>] + One(<<k, t>> \in dropped[ch])
  <1>1. lost[<<ch, k, t>>] \in Nat
    BY DEF TypeOK
  <1>2. lost'[<<ch, k, t>>] = IF <<k, t>> \in dropped[ch]
                              THEN lost[<<ch, k, t>>] + 1 ELSE lost[<<ch, k, t>>]
    BY DEF Losing
  <1>. QED
    BY <1>1, <1>2 DEF One

LEMMA OnlyOne ==
    \A c \in Channels, ch \in Channels : \A events :
        Only(c, events)[ch] = IF ch = c THEN events ELSE {}
  BY DEF Only, NoEvents

\* Detect keeps the types whatever snapshot it is given.
LEMMA DetectType ==
    ASSUME TypeOK, NEW known \in [T1s -> Views \cup {Absent}], NEW baselined \in BOOLEAN,
           Detect(known, baselined), lost' \in [Channels \X Kinds \X T1s -> Nat], faults' \in Nat
    PROVE  TypeOK'
  <1>1. snap' \in [T1s -> Views \cup {Absent}]
    BY DEF TypeOK, Detect, Refresh
  <1>2. outbox' \in [Channels -> SUBSET (Kinds \X T1s)]
    BY DEF Detect, Addressed, Events
  <1>. QED
    BY <1>1, <1>2 DEF TypeOK, Detect, nsxVars, diskVars

\* T1Watch is type correct: every variable keeps its type and nothing detected
\* is left over between passes.
THEOREM TypeCorrect == Spec => []TypeOK
  <1>1. Init => TypeOK
    <2>. SUFFICES ASSUME Init PROVE TypeOK
      OBVIOUS
    <2>1. \A t \in T1s : Present(nsx, t) => nsx[t] \in Gateways
      BY DEF Init, Present
    <2>2. t0s \subseteq Parents
      BY <2>1 DEF Init, Gateways
    <2>3. /\ file \in [T1s -> Views \cup {Absent}]
          /\ live \in [T1s -> Views \cup {Absent}]
          /\ snap \in [T1s -> Views \cup {Absent}]
          /\ outbox \in [Channels -> SUBSET (Kinds \X T1s)]
      BY DEF Init, Nothing, NoEvents
    <2>4. /\ reports \in [Channels \X Kinds \X T1s -> Nat]
          /\ happened \in [Kinds \X T1s -> Nat]
          /\ recorded \in [Kinds \X T1s -> Nat]
          /\ lost \in [Channels \X Kinds \X T1s -> Nat]
      BY DEF Init
    <2>. QED
      BY <2>2, <2>3, <2>4 DEF Init, TypeOK
  <1>2. TypeOK /\ [Next]_vars => TypeOK'
    <2>. SUFFICES ASSUME TypeOK, [Next]_vars PROVE TypeOK'
      OBVIOUS
    <2>1. CASE InventoryChange
      <3>1. ASSUME NEW p \in Parents, CreateT0(p) PROVE TypeOK'
        BY <2>1, <3>1 DEF InventoryChange, TypeOK, CreateT0, Changing, diskVars, passVars, historyVars
      <3>2. ASSUME NEW t \in T1s, DeleteT1(t) PROVE TypeOK'
        BY <2>1, <3>2 DEF InventoryChange, TypeOK, DeleteT1, Changing, Kinds, diskVars, passVars, historyVars
      <3>3. ASSUME NEW t \in T1s, NEW g \in Gateways, CreateT1(t, g) PROVE TypeOK'
        BY <2>1, <3>3 DEF InventoryChange, TypeOK, CreateT1, Changing, Kinds, diskVars, passVars, historyVars
      <3>4. ASSUME NEW t \in T1s, NEW g \in Gateways, MoveT1(t, g) PROVE TypeOK'
        BY <2>1, <3>4 DEF InventoryChange, TypeOK, MoveT1, Changing, diskVars, passVars, historyVars
      <3>. QED
        BY <2>1, <3>1, <3>2, <3>3, <3>4 DEF InventoryChange
    <2>2. CASE ListTier0s
      BY <2>2 DEF TypeOK, ListTier0s, nsxVars, diskVars, historyVars
    <2>3. CASE ListTier1s
      <3>1. live' \in [T1s -> Views \cup {Absent}]
        BY <2>3, Entries DEF TypeOK, ListTier1s, Views, Gateways, Present, ParentKind
      <3>. QED
        BY <2>3, <3>1 DEF TypeOK, ListTier1s, nsxVars, diskVars, historyVars
    <2>4. CASE ListRouters
      <3>1. live' \in [T1s -> Views \cup {Absent}]
        BY <2>4, Entries DEF TypeOK, ListRouters, Views, Gateways, Present
      <3>. QED
        BY <2>4, <3>1 DEF TypeOK, ListRouters, nsxVars, diskVars, historyVars
    <2>5. CASE LoadAndDetect
      BY <2>5, DetectType DEF TypeOK, LoadAndDetect
    <2>6. CASE SaveSnapshot
      BY <2>6 DEF TypeOK, SaveSnapshot, nsxVars, passVars
    <2>7. ASSUME NEW e \in Kinds \X T1s, Post(e) PROVE TypeOK'
      <3>1. outbox' \in [Channels -> SUBSET (Kinds \X T1s)]
        BY <2>7 DEF TypeOK, Post, Unposted
      <3>2. reports' \in [Channels \X Kinds \X T1s -> Nat]
        BY <2>7 DEF TypeOK, Post, Channels
      <3>. QED
        BY <2>7, <3>1, <3>2 DEF TypeOK, Post, nsxVars, diskVars
    <2>8. CASE WritePoints
      BY <2>8, EndPassType DEF TypeOK, WritePoints
    <2>9. CASE ListFails \/ WriteFails \/ Crash
      <3>1. lost' \in [Channels \X Kinds \X T1s -> Nat]
        <4>1. CASE ListFails
          BY <4>1 DEF TypeOK, ListFails, historyVars
        <4>2. CASE WriteFails
          BY <4>2, LosingType DEF WriteFails
        <4>3. CASE Crash
          BY <4>3, LosingType DEF Crash
        <4>. QED
          BY <2>9, <4>1, <4>2, <4>3
      <3>. QED
        BY <2>9, <3>1, EndPassType DEF TypeOK, ListFails, WriteFails, Crash, Fault, historyVars
    <2>10. CASE RoutersFail
      BY <2>10 DEF TypeOK, RoutersFail, Fault, nsxVars, diskVars, passVars, historyVars
    <2>11. CASE LoadFails
      <3>1. Nothing \in [T1s -> Views \cup {Absent}] /\ faults' \in Nat
        BY <2>11 DEF TypeOK, LoadFails, Fault, Nothing
      <3>2. lost' \in [Channels \X Kinds \X T1s -> Nat]
        BY <2>11, LosingType DEF LoadFails
      <3>. QED
        BY <2>11, <3>1, <3>2, DetectType DEF LoadFails
    <2>12. CASE SaveFails
      BY <2>12 DEF TypeOK, SaveFails, Fault, nsxVars, diskVars, passVars
    <2>13. ASSUME NEW e \in Kinds \X T1s, PostFails(e) PROVE TypeOK'
      <3>1. outbox' \in [Channels -> SUBSET (Kinds \X T1s)]
        BY <2>13 DEF TypeOK, PostFails, Unposted
      <3>2. lost' \in [Channels \X Kinds \X T1s -> Nat]
        BY <2>13, LosingType DEF PostFails
      <3>. QED
        BY <2>13, <3>1, <3>2 DEF TypeOK, PostFails, Fault, nsxVars, diskVars
    <2>14. CASE UNCHANGED vars
      BY <2>14 DEF TypeOK, vars, nsxVars, diskVars, passVars, historyVars
    <2>. QED
      BY <2>1, <2>2, <2>3, <2>4, <2>5, <2>6, <2>7, <2>8, <2>9, <2>10, <2>11, <2>12, <2>13, <2>14
      DEF Next, PassStep, FaultStep
  <1>. QED
    BY <1>1, <1>2, PTL DEF Spec
-----------------------------------------------------------------------------
(* What each step does to the presence of one T1. *)

\* Only a real creation or deletion makes the inventory reflect it anew.
LEMMA InventoryStep ==
    ASSUME TypeOK, InventoryChange, NEW k \in Kinds, NEW t \in T1s
    PROVE  /\ happened'[<<k, t>>] \in Nat /\ happened'[<<k, t>>] >= happened[<<k, t>>]
           /\ Reflects(k, nsx', t) /\ ~Reflects(k, nsx, t)
                 => happened'[<<k, t>>] = happened[<<k, t>>] + 1
  <1>. DEFINE Goal == /\ happened'[<<k, t>>] \in Nat /\ happened'[<<k, t>>] >= happened[<<k, t>>]
                      /\ Reflects(k, nsx', t) /\ ~Reflects(k, nsx, t)
                            => happened'[<<k, t>>] = happened[<<k, t>>] + 1
  <1>1. ASSUME NEW p \in Parents, CreateT0(p) PROVE Goal
    BY <1>1 DEF CreateT0, TypeOK
  <1>2. ASSUME NEW u \in T1s, NEW g \in Gateways, MoveT1(u, g) PROVE Goal
    <2>1. happened' = happened /\ (Present(nsx', t) <=> Present(nsx, t))
      BY <1>2, Entries DEF MoveT1, TypeOK, Present
    <2>. QED
      BY <2>1 DEF Reflects, TypeOK
  <1>3. ASSUME NEW u \in T1s, NEW g \in Gateways, CreateT1(u, g) PROVE Goal
    <2>1. /\ happened' = [happened EXCEPT ![<<"created", u>>] = @ + 1]
          /\ t # u => (Present(nsx', t) <=> Present(nsx, t))
          /\ Present(nsx', u)
      BY <1>3, Entries DEF CreateT1, TypeOK, Present
    <2>2. CASE t = u /\ k = "created"
      BY <2>1, <2>2 DEF TypeOK, Kinds
    <2>3. CASE t # u \/ k # "created"
      <3>1. happened'[<<k, t>>] = happened[<<k, t>>]
        BY <2>1, <2>3 DEF TypeOK, Kinds
      <3>2. Reflects(k, nsx', t) => Reflects(k, nsx, t)
        BY <2>1, <2>3 DEF Reflects, Kinds
      <3>. QED
        BY <3>1, <3>2 DEF TypeOK
    <2>. QED
      BY <2>2, <2>3
  <1>4. ASSUME NEW u \in T1s, DeleteT1(u) PROVE Goal
    <2>1. /\ happened' = [happened EXCEPT ![<<"deleted", u>>] = @ + 1]
          /\ t # u => (Present(nsx', t) <=> Present(nsx, t))
          /\ ~Present(nsx', u)
      BY <1>4 DEF DeleteT1, TypeOK, Present
    <2>2. CASE t = u /\ k = "deleted"
      BY <2>1, <2>2 DEF TypeOK, Kinds
    <2>3. CASE t # u \/ k # "deleted"
      <3>1. happened'[<<k, t>>] = happened[<<k, t>>]
        BY <2>1, <2>3 DEF TypeOK, Kinds
      <3>2. Reflects(k, nsx', t) => Reflects(k, nsx, t)
        BY <2>1, <2>3 DEF Reflects, Kinds
      <3>. QED
        BY <3>1, <3>2 DEF TypeOK
    <2>. QED
      BY <2>2, <2>3
  <1>. QED
    BY <1>1, <1>2, <1>3, <1>4 DEF InventoryChange

\* The T1 listing shows the inventory of its moment; the router listing adds
\* no T1 and removes none.
LEMMA ListingStep ==
    ASSUME TypeOK, NEW t \in T1s
    PROVE  /\ ListTier1s => (Present(live', t) <=> Present(nsx, t))
           /\ ListRouters => (Present(live', t) <=> Present(live, t))
  <1>1. ListTier1s /\ Present(nsx, t) => live'[t] \in Views
    BY DEF TypeOK, ListTier1s, Present, ParentKind, Views, Gateways
  <1>2. ListRouters /\ Present(live, t) => live'[t] \in Views
    BY DEF TypeOK, ListRouters, Present, Views, Gateways
  <1>. QED
    BY <1>1, <1>2, Entries DEF TypeOK, ListTier1s, ListRouters, Present

\* Detect leaves the live T1s in the snapshot, and puts in the outbox only
\* what the live view reflects and the loaded snapshot did not.
LEMMA DetectStep ==
    ASSUME TypeOK, NEW known, NEW baselined, Detect(known, baselined),
           NEW ch \in Channels, NEW k \in Kinds, NEW t \in T1s
    PROVE  /\ Present(snap', t) <=> Present(live, t)
           /\ <<k, t>> \in outbox'[ch] =>
                 baselined /\ Reflects(k, live, t) /\ ~Reflects(k, known, t)
  <1>1. Present(snap', t) <=> Present(live, t)
    BY DEF TypeOK, Detect, Refresh, Present
  <1>2. <<k, t>> \in outbox'[ch] => <<k, t>> \in Events(known, baselined)
    BY DEF Detect, Addressed
  <1>. QED
    BY <1>1, <1>2 DEF Events

\* Between Detect and the save, what Detect left in memory stays put.
LEMMA PassStepInv == TypeOK /\ PassInv /\ [Next]_vars => PassInv'
  <1>. SUFFICES ASSUME TypeOK, PassInv, [Next]_vars PROVE PassInv'
    OBVIOUS
  <1>1. CASE InventoryChange
    BY <1>1 DEF PassInv, InventoryChange, Present, Reflects, diskVars, passVars
  <1>2. ASSUME NEW known, NEW baselined, Detect(known, baselined),
               baselined => fileExists /\ known = file
        PROVE  PassInv'
    <2>1. ASSUME NEW ch \in Channels, NEW k \in Kinds, NEW t \in T1s
          PROVE  /\ Present(snap', t) <=> Present(live, t)
                 /\ <<k, t>> \in outbox'[ch] =>
                       baselined /\ Reflects(k, live, t) /\ ~Reflects(k, known, t)
      BY <1>2, DetectStep
    <2>2. UNCHANGED <<live, file, fileExists>>
      BY <1>2 DEF Detect, diskVars
    <2>. QED
      BY <1>2, <2>1, <2>2 DEF PassInv, Present, Reflects, Channels, Kinds
  <1>3. CASE LoadAndDetect \/ LoadFails
    BY <1>2, <1>3 DEF LoadAndDetect, LoadFails
  <1>4. CASE UNCHANGED vars
    BY <1>4 DEF PassInv, Present, Reflects, vars, diskVars, passVars
  <1>5. CASE ListTier0s \/ ListTier1s \/ ListRouters \/ SaveSnapshot \/ WritePoints
    BY <1>5 DEF PassInv, ListTier0s, ListTier1s, ListRouters, SaveSnapshot, WritePoints, EndPass
  <1>6. CASE (\E e \in Kinds \X T1s : Post(e)) \/ (\E e \in Kinds \X T1s : PostFails(e))
    BY <1>6 DEF PassInv, Post, PostFails
  <1>7. CASE ListFails \/ RoutersFail \/ SaveFails \/ WriteFails \/ Crash
    BY <1>7 DEF PassInv, ListFails, RoutersFail, SaveFails, WriteFails, Crash, EndPass
  <1>. QED
    BY <1>1, <1>2, <1>3, <1>4, <1>5, <1>6, <1>7 DEF Next, PassStep, FaultStep

-----------------------------------------------------------------------------
(* At most one report per change and failed save. *)

\* Every step keeps the account of one change on one channel.
LEMMA CountStep ==
    ASSUME TypeOK, PassInv, NEW ch \in Channels, NEW k \in Kinds, NEW t \in T1s,
           Accounted(ch, k, t), [Next]_vars
    PROVE  Accounted(ch, k, t)'
  <1>. DEFINE made == reports[<<ch, k, t>>]
              due == happened[<<k, t>>] + saveFails
  <1>0. made \in Nat /\ due \in Nat /\ saveFails \in Nat
    BY DEF TypeOK
  <1>1. CASE InventoryChange
    <2>1. UNCHANGED <<made, saveFails, fileExists, file, pc, live, outbox>>
      BY <1>1 DEF InventoryChange, diskVars, passVars, historyVars
    <2>. QED
      BY <1>0, <1>1, <2>1, InventoryStep DEF Accounted, Pending, One, Listed, Reflects, Present, TypeOK
  <1>2. CASE ListTier0s
    BY <1>0, <1>2 DEF Accounted, Pending, One, Listed, Reflects, Present,
       ListTier0s, nsxVars, diskVars, historyVars
  <1>3. CASE ListTier1s
    <2>1. Reflects(k, live', t) <=> Reflects(k, nsx, t)
      BY <1>3, ListingStep DEF Reflects
    <2>. QED
      BY <1>0, <1>3, <2>1 DEF Accounted, Pending, One, Listed, Reflects, Present,
         ListTier1s, nsxVars, diskVars, historyVars
  <1>4. CASE ListRouters
    <2>1. Reflects(k, live', t) <=> Reflects(k, live, t)
      BY <1>4, ListingStep DEF Reflects
    <2>. QED
      BY <1>0, <1>4, <2>1 DEF Accounted, Pending, One, Listed, Reflects, Present,
         ListRouters, nsxVars, diskVars, historyVars
  <1>5. CASE LoadAndDetect \/ LoadFails
    <2>1. /\ pc = "load" /\ pc' = "save"
          /\ UNCHANGED <<nsxVars, diskVars, live, reports, recorded, saveFails>>
      BY <1>5 DEF LoadAndDetect, LoadFails, Detect
    <2>. QED
      BY <1>0, <2>1 DEF Accounted, Pending, One, Listed, Reflects, Present, nsxVars, diskVars
  <1>6. CASE SaveSnapshot
    <2>1. Reflects(k, file', t) <=> Reflects(k, live, t)
      BY <1>6 DEF PassInv, SaveSnapshot, Reflects
    <2>2. /\ pc = "save" /\ pc' = "post" /\ fileExists'
          /\ UNCHANGED <<made, due, nsx, live, outbox>>
      BY <1>6 DEF SaveSnapshot, nsxVars, passVars
    <2>3. <<k, t>> \in outbox[ch] =>
             fileExists /\ Reflects(k, live, t) /\ ~Reflects(k, file, t)
      BY <2>2 DEF PassInv
    <2>. QED
      BY <1>0, <2>1, <2>2, <2>3 DEF Accounted, Pending, One, Listed, Reflects, Present
  <1>7. CASE SaveFails
    <2>1. /\ pc = "save" /\ pc' = "post" /\ saveFails' = saveFails + 1
          /\ UNCHANGED <<made, happened, nsx, file, fileExists, live, outbox>>
      BY <1>7 DEF SaveFails, nsxVars, diskVars, passVars
    <2>2. <<k, t>> \in outbox[ch] =>
             fileExists /\ Reflects(k, live, t) /\ ~Reflects(k, file, t)
      BY <2>1 DEF PassInv
    <2>. QED
      BY <1>0, <2>1, <2>2 DEF Accounted, Pending, One, Listed, Reflects, Present, TypeOK
  <1>8. ASSUME NEW e \in Kinds \X T1s, Post(e) PROVE Accounted(ch, k, t)'
    <2>1. /\ pc = "post" /\ pc' = "post" /\ e \in outbox["slack"]
          /\ UNCHANGED <<nsx, due, fileExists, file>>
      BY <1>8 DEF Post, nsxVars, diskVars
    <2>2. CASE ch = "slack" /\ e = <<k, t>>
      <3>1. made' = made + 1 /\ <<k, t>> \notin outbox'[ch]
        BY <1>8, <2>2 DEF Post, Unposted, TypeOK, Channels
      <3>. QED
        BY <1>0, <2>1, <2>2, <3>1 DEF Accounted, Pending, One, Listed, Reflects, Present
    <2>3. CASE ~(ch = "slack" /\ e = <<k, t>>)
      <3>1. made' = made /\ (<<k, t>> \in outbox'[ch] <=> <<k, t>> \in outbox[ch])
        BY <1>8, <2>3 DEF Post, Unposted, TypeOK, Channels
      <3>. QED
        BY <1>0, <2>1, <3>1 DEF Accounted, Pending, One, Listed, Reflects, Present
    <2>. QED
      BY <2>2, <2>3
  <1>9. CASE WritePoints
    <2>1. /\ pc = "post" /\ pc' = "idle"
          /\ UNCHANGED <<nsx, due, fileExists, file>>
      BY <1>9 DEF WritePoints, EndPass, nsxVars, diskVars
    <2>2. made' = made \/ (made' = made + 1 /\ Pending(ch, k, t))
      BY <1>9, <2>1 DEF WritePoints, Pending, TypeOK
    <2>. QED
      BY <1>0, <2>1, <2>2 DEF Accounted, Pending, One, Listed, Reflects, Present
  <1>10. ASSUME NEW e \in Kinds \X T1s, PostFails(e) PROVE Accounted(ch, k, t)'
    <2>1. /\ pc = "post" /\ pc' = "post"
          /\ UNCHANGED <<nsx, made, due, fileExists, file>>
      BY <1>10 DEF PostFails, nsxVars, diskVars, historyVars
    <2>2. <<k, t>> \in outbox'[ch] => <<k, t>> \in outbox[ch]
      BY <1>10 DEF PostFails, Unposted, TypeOK
    <2>. QED
      BY <1>0, <2>1, <2>2 DEF Accounted, Pending, One, Listed, Reflects, Present
  <1>11. CASE ListFails \/ WriteFails \/ Crash
    BY <1>0, <1>11 DEF Accounted, Pending, One, Listed, Reflects, Present,
       ListFails, WriteFails, Crash, EndPass, nsxVars, diskVars, historyVars
  <1>12. CASE RoutersFail
    BY <1>0, <1>12 DEF Accounted, Pending, One, Listed, Reflects, Present,
       RoutersFail, nsxVars, diskVars, passVars, historyVars
  <1>13. CASE UNCHANGED vars
    BY <1>13 DEF Accounted, Pending, One, Listed, Reflects, Present, vars,
       nsxVars, diskVars, passVars, historyVars
  <1>. QED
    BY <1>1, <1>2, <1>3, <1>4, <1>5, <1>6, <1>7, <1>8, <1>9, <1>10, <1>11, <1>12, <1>13
    DEF Next, PassStep, FaultStep

\* A change is reported on a channel at most once, plus once per failed save,
\* however listings, crashes, restarts and failed calls interleave.
THEOREM AtMostOnce == Spec => []AtMostOncePerChange
  <1>1. Init => PassInv /\ CountInv
    BY DEF Init, PassInv, CountInv, Accounted, Pending, One, Listed, Reflects, Present, Nothing
  <1>2. TypeOK /\ PassInv /\ CountInv /\ [Next]_vars => PassInv' /\ CountInv'
    <2>. SUFFICES ASSUME TypeOK, PassInv, CountInv, [Next]_vars PROVE CountInv'
      BY PassStepInv
    <2>. QED
      BY CountStep DEF CountInv
  <1>3. TypeOK /\ CountInv => AtMostOncePerChange
    <2>. SUFFICES ASSUME TypeOK, CountInv,
                         NEW ch \in Channels, NEW k \in Kinds, NEW t \in T1s
                  PROVE  reports[<<ch, k, t>>] <= happened[<<k, t>>] + saveFails
      BY DEF AtMostOncePerChange
    <2>1. /\ reports[<<ch, k, t>>] \in Nat /\ happened[<<k, t>>] \in Nat /\ saveFails \in Nat
          /\ Accounted(ch, k, t)
      BY DEF CountInv, TypeOK
    <2>. QED
      BY <2>1 DEF Accounted, One
  <1>. QED
    BY <1>1, <1>2, <1>3, TypeCorrect, PTL DEF Spec

-----------------------------------------------------------------------------
(* Nothing is reported that did not happen. *)

\* Every step keeps the view of a T1 whose change has not happened.
LEMMA UntouchedStep ==
    ASSUME TypeOK, PassInv, NEW ch \in Channels, NEW k \in Kinds, NEW t \in T1s,
           Untouched(ch, k, t), [Next]_vars
    PROVE  Untouched(ch, k, t)'
  <1>. DEFINE made == reports[<<ch, k, t>>]
              never == happened[<<k, t>>] = 0
  <1>1. CASE InventoryChange
    <2>1. UNCHANGED <<made, fileExists, file, pc, live, outbox>>
      BY <1>1 DEF InventoryChange, diskVars, passVars, historyVars
    <2>2. never' => never /\ (Reflects(k, nsx', t) => Reflects(k, nsx, t))
      BY <1>1, InventoryStep DEF TypeOK
    <2>. QED
      BY <2>1, <2>2 DEF Untouched, Pending, Listed, Reflects, Present
  <1>2. CASE ListTier0s
    BY <1>2 DEF Untouched, Pending, Listed, Reflects, Present,
       ListTier0s, nsxVars, diskVars, historyVars
  <1>3. CASE ListTier1s
    <2>1. Reflects(k, live', t) <=> Reflects(k, nsx, t)
      BY <1>3, ListingStep DEF Reflects
    <2>. QED
      BY <1>3, <2>1 DEF Untouched, Pending, Listed, Reflects, Present,
         ListTier1s, nsxVars, diskVars, historyVars
  <1>4. CASE ListRouters
    <2>1. Reflects(k, live', t) <=> Reflects(k, live, t)
      BY <1>4, ListingStep DEF Reflects
    <2>. QED
      BY <1>4, <2>1 DEF Untouched, Pending, Listed, Reflects, Present,
         ListRouters, nsxVars, diskVars, historyVars
  <1>5. CASE LoadAndDetect \/ LoadFails
    <2>1. /\ pc = "load" /\ pc' = "save"
          /\ UNCHANGED <<nsxVars, diskVars, live, reports, recorded, saveFails>>
      BY <1>5 DEF LoadAndDetect, LoadFails, Detect
    <2>. QED
      BY <2>1 DEF Untouched, Pending, Listed, Reflects, Present, nsxVars, diskVars
  <1>6. CASE SaveSnapshot \/ SaveFails
    <2>1. /\ pc = "save" /\ pc' = "post"
          /\ UNCHANGED <<made, never, nsx, live, outbox>>
      BY <1>6 DEF SaveSnapshot, SaveFails, nsxVars, passVars
    <2>2. <<k, t>> \in outbox[ch] =>
             fileExists /\ Reflects(k, live, t) /\ ~Reflects(k, file, t)
      BY <2>1 DEF PassInv
    <2>3. \/ UNCHANGED <<file, fileExists>>
          \/ Reflects(k, file', t) <=> Reflects(k, live, t)
      BY <1>6 DEF PassInv, SaveSnapshot, SaveFails, Reflects, diskVars
    <2>. QED
      BY <2>1, <2>2, <2>3 DEF Untouched, Pending, Listed, Reflects, Present
  <1>7. ASSUME NEW e \in Kinds \X T1s, Post(e) PROVE Untouched(ch, k, t)'
    <2>1. /\ pc = "post" /\ pc' = "post"
          /\ UNCHANGED <<nsx, never, fileExists, file>>
          /\ <<k, t>> \in outbox'[ch] => <<k, t>> \in outbox[ch]
      BY <1>7 DEF Post, Unposted, TypeOK, nsxVars, diskVars
    <2>2. made' = made \/ <<k, t>> \in outbox[ch]
      <3>1. /\ reports \in [Channels \X Kinds \X T1s -> Nat]
            /\ reports' = [reports EXCEPT ![<<"slack", e[1], e[2]>>] = @ + 1]
            /\ e \in outbox["slack"]
        BY <1>7 DEF Post, TypeOK
      <3>2. CASE <<ch, k, t>> = <<"slack", e[1], e[2]>>
        BY <1>7, <3>1, <3>2
      <3>. QED
        BY <3>1, <3>2
    <2>. QED
      BY <2>1, <2>2 DEF Untouched, Pending, Listed, Reflects, Present
  <1>8. CASE WritePoints
    <2>1. /\ pc = "post" /\ pc' = "idle"
          /\ UNCHANGED <<nsx, never, fileExists, file>>
      BY <1>8 DEF WritePoints, EndPass, nsxVars, diskVars
    <2>2. made' = made \/ Pending(ch, k, t)
      BY <1>8, <2>1 DEF WritePoints, Pending, TypeOK
    <2>. QED
      BY <2>1, <2>2 DEF Untouched, Pending, Listed, Reflects, Present
  <1>9. ASSUME NEW e \in Kinds \X T1s, PostFails(e) PROVE Untouched(ch, k, t)'
    <2>1. /\ pc = "post" /\ pc' = "post"
          /\ UNCHANGED <<nsx, made, never, fileExists, file>>
          /\ <<k, t>> \in outbox'[ch] => <<k, t>> \in outbox[ch]
      BY <1>9 DEF PostFails, Unposted, TypeOK, nsxVars, diskVars, historyVars
    <2>. QED
      BY <2>1 DEF Untouched, Pending, Listed, Reflects, Present
  <1>10. CASE ListFails \/ WriteFails \/ Crash
    BY <1>10 DEF Untouched, Pending, Listed, Reflects, Present,
       ListFails, WriteFails, Crash, EndPass, nsxVars, diskVars, historyVars
  <1>11. CASE RoutersFail
    BY <1>11 DEF Untouched, Pending, Listed, Reflects, Present,
       RoutersFail, nsxVars, diskVars, passVars, historyVars
  <1>12. CASE UNCHANGED vars
    BY <1>12 DEF Untouched, Pending, Listed, Reflects, Present, vars,
       nsxVars, diskVars, passVars, historyVars
  <1>. QED
    BY <1>1, <1>2, <1>3, <1>4, <1>5, <1>6, <1>7, <1>8, <1>9, <1>10, <1>11, <1>12
    DEF Next, PassStep, FaultStep

\* A T1 that was never created (or never deleted) since the watcher started is
\* never reported as created (or deleted), whatever fails.
THEOREM NoPhantom == Spec => []NoPhantomReport
  <1>1. Init => PassInv /\ PhantomInv
    BY DEF Init, PassInv, PhantomInv, Untouched, Pending, Listed, Reflects, Present, Nothing
  <1>2. TypeOK /\ PassInv /\ PhantomInv /\ [Next]_vars => PassInv' /\ PhantomInv'
    <2>. SUFFICES ASSUME TypeOK, PassInv, PhantomInv, [Next]_vars PROVE PhantomInv'
      BY PassStepInv
    <2>. QED
      BY UntouchedStep DEF PhantomInv
  <1>3. PhantomInv => NoPhantomReport
    BY DEF PhantomInv, Untouched, NoPhantomReport
  <1>. QED
    BY <1>1, <1>2, <1>3, TypeCorrect, PTL DEF Spec

-----------------------------------------------------------------------------
(* What the snapshot records is delivered or counted as lost. *)

\* The recorded changes that are delivered, lost or still in the outbox; before
\* the save, the change it is about to record counts as recorded.
Settled(ch, k, t) ==
    LET answered == reports[<<ch, k, t>>] + lost[<<ch, k, t>>]
        held == One(<<k, t>> \in outbox[ch])
    IN  Addressee(ch, k) =>
          /\ pc \notin {"save", "post"} => recorded[<<k, t>>] <= answered
          /\ pc = "post" => recorded[<<k, t>>] <= answered + held
          /\ pc = "save" => recorded[<<k, t>>] + One(Flipped(<<k, t>>)) <= answered + held

SettledInv == \A ch \in Channels, k \in Kinds, t \in T1s : Settled(ch, k, t)

\* Detect puts in the outbox of its addressees whatever the save will record,
\* unless the snapshot could not be read, and then the loss is counted.
LEMMA DetectSettled ==
    ASSUME TypeOK, NEW ch \in Channels, NEW k \in Kinds, NEW t \in T1s,
           Settled(ch, k, t), LoadAndDetect \/ LoadFails
    PROVE  Settled(ch, k, t)'
  <1>1. Addressee(ch, k)' <=> Addressee(ch, k)
    BY DEF Addressee
  <1>2. /\ pc = "load" /\ pc' = "save"
        /\ UNCHANGED <<file, fileExists, live, reports, recorded>>
    BY DEF LoadAndDetect, LoadFails, Detect, nsxVars, diskVars
  <1>3. Present(snap', t) <=> Present(live, t)
    BY DetectStep DEF LoadAndDetect, LoadFails
  <1>4. CASE LoadAndDetect
    <2>1. Addressee(ch, k) /\ Flipped(<<k, t>>)' => <<k, t>> \in outbox'[ch]
      BY <1>2, <1>3, <1>4
      DEF LoadAndDetect, Detect, Addressed, Events, Addressee, Flipped, Reflects, Present, Channels
    <2>2. lost' = lost
      BY <1>4 DEF LoadAndDetect
    <2>. QED
      BY <1>1, <1>2, <2>1, <2>2 DEF Settled, One, TypeOK
  <1>5. CASE LoadFails
    <2>1. Addressee(ch, k) /\ Flipped(<<k, t>>)'
             => <<k, t>> \in Addressed(Events(file, TRUE))[ch]
      BY <1>2, <1>3 DEF Addressed, Events, Flipped, Reflects, Present
    <2>2. /\ lost[<<ch, k, t>>] \in Nat
          /\ lost'[<<ch, k, t>>] \in Nat /\ lost'[<<ch, k, t>>] >= lost[<<ch, k, t>>]
          /\ Addressee(ch, k) /\ Flipped(<<k, t>>)' => lost'[<<ch, k, t>>] = lost[<<ch, k, t>>] + 1
      <3>. DEFINE undetected == Addressed(Events(file, TRUE))
      <3>1. Losing(undetected)
        BY <1>5 DEF LoadFails
      <3>2. /\ lost[<<ch, k, t>>] \in Nat
            /\ lost'[<<ch, k, t>>] = lost[<<ch, k, t>>] + One(<<k, t>> \in undetected[ch])
        <4>. HIDE DEF undetected
        <4>. QED
          BY <3>1, LosingStep
      <3>. QED
        <4>. HIDE DEF undetected
        <4>1. <<k, t>> \in undetected[ch] => lost'[<<ch, k, t>>] = lost[<<ch, k, t>>] + 1
          BY <3>2 DEF One
        <4>2. lost'[<<ch, k, t>>] \in Nat /\ lost'[<<ch, k, t>>] >= lost[<<ch, k, t>>]
          BY <3>2 DEF One
        <4>3. Addressee(ch, k) /\ Flipped(<<k, t>>)' => <<k, t>> \in undetected[ch]
          BY <2>1 DEF undetected
        <4>. QED
          BY <3>2, <4>1, <4>2, <4>3
    <2>3. reports[<<ch, k, t>>] \in Nat /\ recorded[<<k, t>>] \in Nat
      BY DEF TypeOK
    <2>. QED
      BY <1>1, <1>2, <2>1, <2>2, <2>3 DEF Settled, One
  <1>. QED
    BY <1>4, <1>5

\* Every step keeps the account of what the snapshot records.
LEMMA SettledStep ==
    ASSUME TypeOK, NEW ch \in Channels, NEW k \in Kinds, NEW t \in T1s,
           PassInv, Settled(ch, k, t), [Next]_vars
    PROVE  Settled(ch, k, t)'
  <1>. DEFINE made == reports[<<ch, k, t>>]
              gone == lost[<<ch, k, t>>]
              held == <<k, t>> \in outbox[ch]
  <1>0. /\ made \in Nat /\ gone \in Nat /\ recorded[<<k, t>>] \in Nat
        /\ Addressee(ch, k)' <=> Addressee(ch, k)
    BY DEF TypeOK, Addressee
  <1>1. CASE InventoryChange \/ UNCHANGED vars
    BY <1>0, <1>1 DEF Settled, Flipped, Reflects, Present, InventoryChange, vars, diskVars,
       passVars, historyVars
  <1>2. CASE ListTier0s \/ ListTier1s \/ ListRouters \/ ListFails \/ RoutersFail
    <2>1. /\ pc \notin {"save", "post"} /\ pc' \notin {"save", "post"}
          /\ UNCHANGED <<reports, recorded, lost>>
      BY <1>2 DEF ListTier0s, ListTier1s, ListRouters, ListFails, RoutersFail, EndPass, historyVars
    <2>. QED
      BY <1>0, <2>1 DEF Settled
  <1>3. CASE LoadAndDetect \/ LoadFails
    BY <1>3, DetectSettled
  <1>4. CASE SaveSnapshot
    <2>1. /\ pc = "save" /\ pc' = "post" /\ UNCHANGED <<reports, lost, outbox>>
          /\ recorded'[<<k, t>>] = recorded[<<k, t>>] + One(Flipped(<<k, t>>))
      BY <1>0, <1>4 DEF SaveSnapshot, passVars, One
    <2>. QED
      BY <1>0, <2>1 DEF Settled
  <1>5. CASE SaveFails
    <2>1. pc = "save" /\ pc' = "post" /\ UNCHANGED <<reports, lost, recorded, outbox>>
      BY <1>5 DEF SaveFails, passVars
    <2>. QED
      BY <1>0, <2>1 DEF Settled, One
  <1>6. ASSUME NEW e \in Kinds \X T1s, Post(e) \/ PostFails(e) PROVE Settled(ch, k, t)'
    <2>1. pc = "post" /\ pc' = "post" /\ recorded' = recorded
      BY <1>6 DEF Post, PostFails
    <2>2. CASE ch = "slack" /\ e = <<k, t>>
      <3>1. CASE Post(e)
        BY <1>0, <2>1, <2>2, <3>1 DEF Post, TypeOK, Settled, One
      <3>2. CASE PostFails(e)
        <4>1. gone' = gone + 1 /\ made' = made
          BY <2>2, <3>2, LosingStep, OnlyOne DEF PostFails, Channels, One
        <4>. QED
          BY <1>0, <2>1, <2>2, <3>2, <4>1 DEF PostFails, Settled, One
      <3>. QED
        BY <1>6, <3>1, <3>2
    <2>3. CASE ~(ch = "slack" /\ e = <<k, t>>)
      <3>1. gone' = gone
        <4>1. CASE Post(e)
          BY <4>1 DEF Post
        <4>2. CASE PostFails(e)
          <5>1. ~(<<k, t>> \in Only("slack", {e})[ch])
            BY <2>3, OnlyOne DEF Channels
          <5>. QED
            BY <1>0, <4>2, <5>1, LosingStep DEF PostFails, One
        <4>. QED
          BY <1>6, <4>1, <4>2
      <3>2. made' = made
        BY <1>6, <2>3 DEF Post, PostFails, TypeOK, Channels
      <3>3. held' <=> held
        BY <1>6, <2>3 DEF Post, PostFails, Unposted, TypeOK, Channels
      <3>. QED
        BY <1>0, <2>1, <3>1, <3>2, <3>3 DEF Settled, One
    <2>. QED
      BY <2>2, <2>3
  <1>7. CASE WritePoints
    <2>1. pc = "post" /\ pc' = "idle" /\ UNCHANGED <<recorded, lost>> /\ outbox["slack"] = {}
      BY <1>7 DEF WritePoints, EndPass
    <2>2. made' = made + One(held)
      BY <1>0, <1>7, <2>1 DEF WritePoints, One, Channels
    <2>. QED
      BY <1>0, <2>1, <2>2 DEF Settled, One
  <1>8. CASE WriteFails
    <2>1. pc = "post" /\ pc' = "idle" /\ UNCHANGED <<recorded, reports>> /\ outbox["slack"] = {}
      BY <1>8 DEF WriteFails, EndPass
    <2>2. gone' = gone + One(held)
      BY <1>8, <2>1, LosingStep, OnlyOne DEF WriteFails, One, Channels
    <2>. QED
      BY <1>0, <2>1, <2>2 DEF Settled, One
  <1>9. CASE Crash
    <2>1. pc' = "idle" /\ UNCHANGED <<reports, recorded>>
      BY <1>9 DEF Crash, EndPass
    <2>2. /\ gone' \in Nat /\ gone' >= gone
          /\ pc = "post" => gone' = gone + One(held)
      BY <1>0, <1>9, LosingStep DEF Crash, One
    <2>3. pc = "save" /\ held => Flipped(<<k, t>>)
      BY DEF PassInv, Flipped, Reflects
    <2>. QED
      BY <1>0, <2>1, <2>2, <2>3 DEF Settled, One
  <1>. QED
    BY <1>1, <1>2, <1>3, <1>4, <1>5, <1>6, <1>7, <1>8, <1>9 DEF Next, PassStep, FaultStep

\* Every change the snapshot records is delivered to each of its channels, except
\* where that very event was dropped: listings and saves that fail, and failed
\* posts of other T1s, lose nothing.
THEOREM LossesCounted == Spec => []LossesAccounted
  <1>1. Init => PassInv /\ SettledInv
    BY DEF Init, PassInv, SettledInv, Settled, Addressee, One
  <1>2. TypeOK /\ PassInv /\ SettledInv /\ [Next]_vars => PassInv' /\ SettledInv'
    BY PassStepInv, SettledStep DEF SettledInv
  <1>3. TypeOK /\ SettledInv => LossesAccounted
    <2>. SUFFICES ASSUME TypeOK, SettledInv, pc = "idle", NEW k \in Kinds, NEW t \in T1s,
                         NEW ch \in Channels, Addressee(ch, k)
                  PROVE  recorded[<<k, t>>] <= reports[<<ch, k, t>>] + lost[<<ch, k, t>>]
      BY DEF LossesAccounted
    <2>. QED
      BY DEF SettledInv, Settled
  <1>. QED
    BY <1>1, <1>2, <1>3, TypeCorrect, PTL DEF Spec

-----------------------------------------------------------------------------
(* The watcher keeps the journal of T1Journal. *)

\* The view of the inventory the file holds, as the journal knows it.
FileView == IF fileExists THEN PresentIn(file) ELSE Absent

\* What the journal will owe after the save.
Due == Addressed(Journal!Differences(FileView, PresentIn(live)))

\* Between Detect and the save, the snapshot shows the T1s of the listing and
\* the outbox holds what the journal will owe, or nothing.
JournalInv ==
    pc = "save" => PresentIn(snap) = PresentIn(live) /\ outbox \in {Due, NoEvents}

\* A set of T1s is never taken for no view.
LEMMA SetsAreViews == \A map : PresentIn(map) # Absent
  BY AbsentAssumption DEF PresentIn

\* The outbox is shared out as the journal shares what it owes.
LEMMA SharesAgree == \A events \in SUBSET (Kinds \X T1s) : Addressed(events) = Journal!Share(events)
  BY DEF Addressed, Journal!Share

\* Detect finds the differences between the file and the listing.
LEMMA EventsAreDifferences ==
    ASSUME TypeOK
    PROVE  Events(file, fileExists) = Journal!Differences(FileView, PresentIn(live))
  BY SetsAreViews
  DEF Events, FileView, Journal!Differences, Journal!Changes, Journal!Reflected, Reflects, Present, PresentIn

\* Detect leaves the T1s of the listing in the snapshot, and in the outbox the
\* differences or, when the snapshot could not be read, nothing.
LEMMA DetectJournal ==
    ASSUME TypeOK, LoadAndDetect \/ LoadFails
    PROVE  /\ PresentIn(snap') = PresentIn(live)
           /\ outbox' \in {Due, NoEvents}
  <1>1. PICK known, baselined :
           /\ Detect(known, baselined)
           /\ (known = file /\ baselined = fileExists) \/ baselined = FALSE
    BY DEF LoadAndDetect, LoadFails
  <1>2. PresentIn(snap') = PresentIn(live)
    BY <1>1, DetectStep DEF PresentIn, Present, Channels, Kinds
  <1>3. CASE baselined = FALSE
    <2>1. Events(known, baselined) = {}
      BY <1>3 DEF Events
    <2>. QED
      BY <1>1, <1>2, <2>1 DEF Detect, Addressed, NoEvents
  <1>4. CASE known = file /\ baselined = fileExists
    BY <1>1, <1>2, <1>4, EventsAreDifferences DEF Detect, Due
  <1>. QED
    BY <1>1, <1>3, <1>4

\* No other step touches what Detect has left for the save.
LEMMA JournalStepInv == TypeOK /\ JournalInv /\ [Next]_vars => JournalInv'
  <1>. SUFFICES ASSUME TypeOK, JournalInv, [Next]_vars PROVE JournalInv'
    OBVIOUS
  <1>. USE DEF JournalInv, FileView, Due, Addressed, Journal!Differences, Journal!Changes,
           Journal!Reflected, PresentIn, Present, NoEvents
  <1>1. CASE InventoryChange \/ UNCHANGED vars
    BY <1>1 DEF InventoryChange, vars, diskVars, passVars
  <1>2. CASE LoadAndDetect \/ LoadFails
    <2>1. UNCHANGED <<live, file, fileExists>>
      BY <1>2 DEF LoadAndDetect, LoadFails, Detect, diskVars
    <2>. QED
      BY <1>2, <2>1, DetectJournal
  <1>3. CASE ListTier0s \/ ListTier1s \/ ListRouters \/ SaveSnapshot \/ WritePoints
    BY <1>3 DEF ListTier0s, ListTier1s, ListRouters, SaveSnapshot, WritePoints, EndPass
  <1>4. CASE (\E e \in Kinds \X T1s : Post(e)) \/ (\E e \in Kinds \X T1s : PostFails(e))
    BY <1>4 DEF Post, PostFails
  <1>5. CASE ListFails \/ RoutersFail \/ SaveFails \/ WriteFails \/ Crash
    BY <1>5 DEF ListFails, RoutersFail, SaveFails, WriteFails, Crash, EndPass
  <1>. QED
    BY <1>1, <1>2, <1>3, <1>4, <1>5 DEF Next, PassStep, FaultStep

\* Every step of the watcher is a step of the journal, or none.
LEMMA JournalStep ==
    ASSUME TypeOK, JournalInv, [Next]_vars
    PROVE  [Journal!Next]_(Journal!vars)
  <1>. DEFINE view == IF pc \in {"routers", "load", "save"} THEN PresentIn(live) ELSE Absent
              owed == IF pc = "post" THEN outbox ELSE NoEvents
              still == UNCHANGED <<reports, PresentIn(nsx)>>
  <1>0. Journal!vars = <<PresentIn(nsx), view, FileView, owed, reports>>
    BY DEF Journal!vars, FileView
  <1>1. CASE InventoryChange
    <2>1. UNCHANGED <<pc, live, fileExists, file, outbox, reports>>
      BY <1>1 DEF InventoryChange, diskVars, passVars, historyVars
    <2>2. UNCHANGED <<view, FileView, owed>>
      BY <2>1 DEF FileView, PresentIn, Present, NoEvents
    <2>3. ASSUME NEW p \in Parents, CreateT0(p) PROVE PresentIn(nsx') = PresentIn(nsx)
      BY <2>3 DEF CreateT0
    <2>4. ASSUME NEW t \in T1s, NEW g \in Gateways, MoveT1(t, g) PROVE PresentIn(nsx') = PresentIn(nsx)
      BY <2>4, Entries DEF MoveT1, PresentIn, Present, TypeOK
    <2>5. ASSUME NEW t \in T1s, NEW g \in Gateways, CreateT1(t, g)
          PROVE  t \notin PresentIn(nsx) /\ PresentIn(nsx') = PresentIn(nsx) \cup {t}
      BY <2>5, Entries DEF CreateT1, PresentIn, Present, TypeOK
    <2>6. ASSUME NEW t \in T1s, DeleteT1(t)
          PROVE  t \in PresentIn(nsx) /\ PresentIn(nsx') = PresentIn(nsx) \ {t}
      BY <2>6 DEF DeleteT1, PresentIn, Present, TypeOK
    <2>7. \/ PresentIn(nsx') = PresentIn(nsx)
          \/ \E t \in T1s : Journal!Change(t)
      BY <1>1, <2>1, <2>2, <2>3, <2>4, <2>5, <2>6 DEF InventoryChange, Journal!Change, FileView
    <2>. QED
      BY <1>0, <2>1, <2>2, <2>7 DEF Journal!Next, Journal!vars, FileView
  <1>2. CASE UNCHANGED vars
    BY <1>0, <1>2 DEF vars, nsxVars, diskVars, passVars, historyVars, Journal!vars, FileView,
       PresentIn, Present, NoEvents
  <1>3. CASE ListTier0s \/ ListRouters \/ RoutersFail \/ LoadAndDetect \/ LoadFails
    <2>1. UNCHANGED <<nsx, reports, file, fileExists>>
      BY <1>3 DEF ListTier0s, ListRouters, RoutersFail, LoadAndDetect, LoadFails, Detect,
         nsxVars, diskVars, passVars, historyVars
    <2>2. \/ pc = "idle" /\ pc' = "tier1s"
          \/ pc \in {"routers", "load"} /\ pc' \in {"load", "save"}
      BY <1>3 DEF ListTier0s, ListRouters, RoutersFail, LoadAndDetect, LoadFails, Detect
    <2>3. PresentIn(live') = PresentIn(live)
      <3>1. CASE ListRouters
        BY <3>1, ListingStep DEF PresentIn
      <3>2. CASE ~ListRouters
        <4>1. live' = live
          BY <1>3, <3>2 DEF ListTier0s, RoutersFail, LoadAndDetect, LoadFails, Detect, passVars
        <4>. QED
          BY <4>1 DEF PresentIn, Present
      <3>. QED
        BY <3>1, <3>2
    <2>. QED
      BY <1>0, <2>1, <2>2, <2>3 DEF Journal!vars, FileView, PresentIn, Present, NoEvents
  <1>4. CASE ListTier1s
    <2>1. pc = "tier1s" /\ pc' = "routers" /\ UNCHANGED <<nsx, reports, file, fileExists>>
      BY <1>4 DEF ListTier1s, nsxVars, diskVars, historyVars
    <2>2. PresentIn(live') = PresentIn(nsx)
      BY <1>4, ListingStep DEF PresentIn
    <2>3. Journal!Look
      BY <2>1, <2>2 DEF Journal!Look, Journal!NothingOwed, NoEvents, FileView, PresentIn, Present
    <2>. QED
      BY <2>3 DEF Journal!Next
  <1>5. CASE SaveSnapshot \/ SaveFails
    <2>1. /\ pc = "save" /\ pc' = "post" /\ UNCHANGED <<nsx, reports, outbox, live>>
          /\ \/ fileExists' = TRUE /\ file' = snap
             \/ UNCHANGED <<file, fileExists>>
      BY <1>5 DEF SaveSnapshot, SaveFails, nsxVars, passVars, diskVars
    <2>2. FileView' = PresentIn(live) \/ FileView' = FileView
      BY <2>1 DEF JournalInv, FileView, PresentIn, Present
    <2>3. outbox \in {Journal!Share(Journal!Differences(FileView, PresentIn(live))), NoEvents}
      BY <2>1, SharesAgree DEF JournalInv, Due, Journal!Differences, Journal!Changes
    <2>4. PresentIn(live) # Absent
      BY SetsAreViews
    <2>5. Journal!Commit \/ Journal!Miss
      BY <2>1, <2>2, <2>3, <2>4 DEF Journal!Commit, Journal!Miss, Journal!NothingOwed, NoEvents,
         FileView, PresentIn, Present
    <2>. QED
      BY <2>5 DEF Journal!Next
  <1>6. ASSUME NEW e \in Kinds \X T1s, Post(e) \/ PostFails(e)
        PROVE  Journal!Next
    <2>1. /\ pc = "post" /\ pc' = "post" /\ e \in outbox["slack"]
          /\ outbox' = [outbox EXCEPT !["slack"] = @ \ {e}]
          /\ UNCHANGED <<nsx, file, fileExists>>
      BY <1>6 DEF Post, PostFails, Unposted, nsxVars, diskVars
    <2>2. CASE Post(e)
      <3>1. reports' = [d \in Channels \X Kinds \X T1s |->
                          IF d[1] = "slack" /\ <<d[2], d[3]>> \in {e} THEN reports[d] + 1 ELSE reports[d]]
        <4>1. reports' = [reports EXCEPT ![<<"slack", e[1], e[2]>>] = @ + 1]
          BY <2>2 DEF Post
        <4>2. \A d \in Channels \X Kinds \X T1s :
                 d = <<"slack", e[1], e[2]>> <=> d[1] = "slack" /\ <<d[2], d[3]>> \in {e}
          OBVIOUS
        <4>. QED
          BY <4>1, <4>2 DEF TypeOK
      <3>2. Journal!Tell("slack", {e})
        BY <2>1, <3>1 DEF Journal!Tell, FileView, PresentIn, Present
      <3>. QED
        BY <2>1, <3>2 DEF Journal!Next, Channels
    <2>3. CASE PostFails(e)
      <3>1. Journal!Drop("slack", {e})
        BY <2>1, <2>3 DEF PostFails, Journal!Drop, FileView, PresentIn, Present
      <3>. QED
        BY <2>1, <3>1 DEF Journal!Next, Channels
    <2>. QED
      BY <1>6, <2>2, <2>3
  <1>7. CASE WritePoints
    <2>1. /\ pc = "post" /\ pc' = "idle" /\ outbox["slack"] = {}
          /\ UNCHANGED <<nsx, file, fileExists>>
      BY <1>7 DEF WritePoints, EndPass, nsxVars, diskVars
    <2>2. NoEvents = [outbox EXCEPT !["influx"] = @ \ outbox["influx"]]
      BY <2>1 DEF NoEvents, TypeOK, Channels
    <2>3. Journal!Tell("influx", outbox["influx"])
      BY <1>7, <2>1, <2>2 DEF WritePoints, Journal!Tell, FileView, PresentIn, Present, NoEvents
    <2>. QED
      BY <2>1, <2>3 DEF Journal!Next, Channels
  <1>8. CASE ListFails \/ WriteFails \/ Crash
    <2>1. pc' = "idle" /\ UNCHANGED <<nsx, reports, file, fileExists>>
      BY <1>8 DEF ListFails, WriteFails, Crash, EndPass, nsxVars, diskVars, historyVars
    <2>2. Journal!GiveUp
      BY <2>1 DEF Journal!GiveUp, Journal!NothingOwed, NoEvents, FileView, PresentIn, Present
    <2>. QED
      BY <2>2 DEF Journal!Next
  <1>. QED
    BY <1>1, <1>2, <1>3, <1>4, <1>5, <1>6, <1>7, <1>8 DEF Next, PassStep, FaultStep

\* T1Watch implements T1Journal: whatever crashes, fails or changes during a
\* pass, each channel is told differences between saved views and listings,
\* each at most once, and never while those of an earlier pass are still owed.
THEOREM JournalKept == Spec => KeepsJournal
  <1>1. Init => JournalInv /\ Journal!Init
    BY DEF Init, JournalInv, Journal!Init, Journal!NothingOwed, NoEvents, PresentIn
  <1>2. TypeOK /\ JournalInv /\ [Next]_vars => JournalInv' /\ [Journal!Next]_(Journal!vars)
    BY JournalStepInv, JournalStep
  <1>. QED
    BY <1>1, <1>2, TypeCorrect, PTL DEF Spec, KeepsJournal, Journal!Spec
=============================================================================
