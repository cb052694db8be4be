----------------------------- MODULE MCEvaluator -----------------------------
(* Two sites that share an interface key, for TLC. *)
EXTENDS Evaluator, TLC

CONSTANTS w1, w2, shared, own

SharedKey == (w1 :> {shared}) @@ (w2 :> {shared, own})
=============================================================================
