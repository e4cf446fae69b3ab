------------------------------ MODULE SlotPool ------------------------------
(***************************************************************************)
(* What the admission control of CloudBench promises about one kind of     *)
(* object (its "RESERVATIONS" counter and the limit <type>_max_reservations*)
(* of lib/operations/base_operations.py): a new object takes a slot only   *)
(* while fewer than Max are taken, and only a detach that failed takes its *)
(* slot back without asking.  VMLifecycle is shown to implement it.        *)
(***************************************************************************)
EXTENDS FiniteSets, Integers

CONSTANTS Object,   \* the objects that may ask for a slot
          Max       \* the limit

VARIABLES taken,    \* the objects that have a slot
          given     \* the objects whose detach gave the slot up and may still fail

SlotPoolInit == taken = {} /\ given = {}

\* admission_control(..., "attach") succeeds.
Take(o) == /\ o \notin taken \cup given
           /\ Cardinality(taken) < Max
           /\ taken' = taken \cup {o}
           /\ UNCHANGED given

\* admission_control(..., "rollbackattach"): the object never arrived.
Drop(o) == /\ o \in taken
           /\ taken' = taken \ {o}
           /\ UNCHANGED given

\* admission_control(..., "detach").
GiveUp(o) == /\ o \in taken
             /\ taken' = taken \ {o}
             /\ given' = given \cup {o}

\* admission_control(..., "rollbackdetach"): whatever the limit says.
Retake(o) == /\ o \in given
             /\ taken' = taken \cup {o}
             /\ given' = given \ {o}

\* The detach succeeded.
Leave(o) == /\ o \in given
            /\ given' = given \ {o}
            /\ UNCHANGED taken

SlotPoolNext == \E o \in Object : Take(o) \/ Drop(o) \/ GiveUp(o) \/ Retake(o) \/ Leave(o)

SlotPoolSpec == SlotPoolInit /\ [][SlotPoolNext]_<<taken, given>>
=============================================================================
