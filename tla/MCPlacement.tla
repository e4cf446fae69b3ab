----------------------------- MODULE MCPlacement -----------------------------
(* Placement with an AI of two VMs and a VM of its own, on a pool of two   *)
(* VMCs and one VMC outside of it.                                         *)
EXTENDS Placement
CONSTANTS a1, v1, v2, w1

MCVM == {v1, v2, w1}
MCHome == [v \in MCVM |-> IF v = w1 THEN NoAI ELSE a1]
MCMethods == {{"roundrobin"}, {"roundrobin", "colocate"}, {"colocate"}}
MCRoundRobin == {{"roundrobin"}}
==============================================================================
