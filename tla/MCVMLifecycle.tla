--------------------------- MODULE MCVMLifecycle ---------------------------
(* VMLifecycle on small sets of VMs, detaches and VMCs.                    *)
EXTENDS VMLifecycle, TLC
CONSTANTS v1, v2, v3, d1, d2, m1, m2, MCVmcLimit

MCVM2 == {v1, v2}
MCVM3 == {v1, v2, v3}
MCDetach1 == {d1}
MCDetach2 == {d1, d2}
MCVMC1 == {m1}
MCVMC2 == {m1, m2}

\* The first VMC is tight, the second has room for all.
MCVmcMax == [m \in VMC |-> IF m = m1 THEN MCVmcLimit ELSE Cardinality(VM)]

Symmetry2 == Permutations(MCVM2) \cup Permutations(MCDetach2)
Symmetry3 == Permutations(MCVM3) \cup Permutations(MCDetach2)
============================================================================
