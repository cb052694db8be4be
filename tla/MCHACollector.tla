---------------------------- MODULE MCHACollector ----------------------------
(* Instances of HACollector for TLC: three T1s, numbered in t1_names order. *)
EXTENDS HACollector, TLC

RankById == [t \in T1Names |-> t]
=============================================================================
