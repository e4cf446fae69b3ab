---------------------------- MODULE MCParallel ----------------------------
(* A call with two VMs and a call with one, on a pool of one or two        *)
(* threads.                                                                *)
EXTENDS Parallel, TLC
CONSTANTS c1, c2, v1, v2, v3, w1, w2
MCVmsOf == (c1 :> {v1, v2}) @@ (c2 :> {v3})
=============================================================================
