------------------------------ MODULE MCWorker ------------------------------
(* Constant sets for the checks of Worker. *)
EXTENDS Worker
CONSTANTS host, edge
=============================================================================
