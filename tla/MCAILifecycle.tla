---------------------------- MODULE MCAILifecycle ----------------------------
(* AILifecycle with an AI of two VMs and an AI of one, both submitted by   *)
(* one AIDRS.                                                              *)
EXTENDS AILifecycle
CONSTANTS a1, a2, r1, v1, v2, w1

MCAI == {a1, a2}
MCVM == {v1, v2, w1}
MCHome == [v \in MCVM |-> IF v = w1 THEN a2 ELSE a1]
MCSubmitter == [a \in MCAI |-> r1]
MCByHand == [a \in MCAI |-> NoAidrs]
==============================================================================
