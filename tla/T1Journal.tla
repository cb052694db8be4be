------------------------------ MODULE T1Journal ------------------------------
(***************************************************************************)
(* What the T1 lifecycle watcher promises, with none of its steps: it      *)
(* looks at the inventory now and then, remembers the last view it has     *)
(* committed to, and owes each channel exactly the differences between one *)
(* committed view and the next.  A difference owed is told at most once;   *)
(* a failure may drop what is owed or leave the view uncommitted, and only *)
(* then is a difference told again, or never.                              *)
(***************************************************************************)
EXTENDS Naturals

CONSTANTS
    T1s,            \* unique ids of the T1 gateways
    Kinds,          \* "created" and "deleted"
    Channels,       \* where differences are told
    Nobody,         \* no view
    Addressee(_, _) \* whether a channel is told the differences of a kind

VARIABLES
    exists, \* the T1s that exist
    view,   \* the T1s seen by a look not committed yet, or Nobody
    known,  \* the T1s of the last committed view, or Nobody
    owed,   \* per channel, the differences still to be told
    told    \* per channel, kind and T1, how often it was told

vars == <<exists, view, known, owed, told>>

Changes == Kinds \X T1s
NothingOwed == [ch \in Channels |-> {}]

Reflected(kind, set, t) == t \in set <=> kind = "created"

\* The changes that lead from one view to the other; a first view has none.
Differences(from, to) ==
    {e \in Changes : from # Nobody /\ Reflected(e[1], to, e[2]) /\ ~Reflected(e[1], from, e[2])}

\* What each channel is owed for them.
Share(changes) == [ch \in Channels |-> {e \in changes : Addressee(ch, e[1])}]

Init ==
    /\ exists \in SUBSET T1s
    /\ view = Nobody /\ known = Nobody
    /\ owed = NothingOwed
    /\ told = [d \in Channels \X Kinds \X T1s |-> 0]

\* A T1 comes or goes.
Change(t) ==
    /\ exists' = IF t \in exists THEN exists \ {t} ELSE exists \cup {t}
    /\ UNCHANGED <<view, known, owed, told>>

\* A look starts only when the channels are owed nothing.
Look ==
    /\ view = Nobody /\ owed = NothingOwed
    /\ view' = exists
    /\ UNCHANGED <<exists, known, owed, told>>

\* The view is committed and its differences are owed, all or none of them:
\* none when what was known could not be read.
Commit ==
    /\ view # Nobody
    /\ known' = view
    /\ view' = Nobody
    /\ owed' \in {Share(Differences(known, view)), NothingOwed}
    /\ UNCHANGED <<exists, told>>

\* The view could not be committed, its differences are owed all the same.
Miss ==
    /\ view # Nobody
    /\ view' = Nobody
    /\ owed' \in {Share(Differences(known, view)), NothingOwed}
    /\ UNCHANGED <<exists, known, told>>

\* A channel is told some of what it is owed.
Tell(ch, changes) ==
    /\ owed' = [owed EXCEPT ![ch] = @ \ changes]
    /\ told' = [d \in Channels \X Kinds \X T1s |->
                  IF d[1] = ch /\ <<d[2], d[3]>> \in changes THEN told[d] + 1 ELSE told[d]]
    /\ UNCHANGED <<exists, view, known>>

\* A failure drops some of what a channel is owed.
Drop(ch, changes) ==
    /\ owed' = [owed EXCEPT ![ch] = @ \ changes]
    /\ UNCHANGED <<exists, view, known, told>>

\* The look, or all that is owed, is given up.
GiveUp ==
    /\ view' = Nobody
    /\ owed' = NothingOwed
    /\ UNCHANGED <<exists, known, told>>

Next ==
    \/ \E t \in T1s : Change(t)
    \/ Look \/ Commit \/ Miss \/ GiveUp
    \/ \E ch \in Channels : \E changes \in SUBSET owed[ch] : Tell(ch, changes) \/ Drop(ch, changes)

Spec == Init /\ [][Next]_vars
=============================================================================
