------------------------------- MODULE MCHAFeed -------------------------------
(* Instances of HAFeed for TLC. *)
EXTENDS HAFeed, TLC

RankById == [t \in T1Names |-> t]
=============================================================================
