-------------------------- MODULE MCMutationQueue --------------------------
(* MutationQueue on small instances: four executions on two files, from two *)
(* runs that share the process-wide queue.                                  *)
EXTENDS MutationQueue, TLC

CONSTANTS t1, t2, t3, t4, f, g, r1, r2

MCKeyOf == (t1 :> f) @@ (t2 :> f) @@ (t3 :> f) @@ (t4 :> g)
MCRunOf == (t1 :> r1) @@ (t2 :> r2) @@ (t3 :> r1) @@ (t4 :> r2)
=============================================================================
