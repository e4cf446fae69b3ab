-------------------------- MODULE AILifecycle_proofs --------------------------
(***************************************************************************)
(* AIs and their VMs: the counters of the admission control add up, an     *)
(* attached AI has all its VMs, and no VM outlives its AI, for any number  *)
(* of AIs, VMs and AIDRS, any limits, and any interleaving.                *)
(***************************************************************************)
EXTENDS AILifecycle, FiniteSetTheorems, TLAPS

\* TypeOK, without what follows from AidrsCountsAddUp.
Typed == /\ ai_reservations \in Int
         /\ nr_ais \in [Aidrs -> Int]
         /\ daemons \subseteq Aidrs
         /\ ais \subseteq AI /\ vms \subseteq VM /\ pending \subseteq AI
         /\ taken \subseteq VM /\ given \subseteq VM
         /\ att \in [AI -> AttachPC] /\ status \in [AI -> Status]
         /\ det \in [AI -> DetachPC] /\ dstatus \in [AI -> DetachStatus]
         /\ vm \in [VM -> VmPC]

\* Where an ai-attach is before its VMs are attached, once they all are, and while it is
\* rolled back after they are detached.
Before == {"idle", "pre_attach_ai", "reserve", "over_limit", "check_aidrs",
           "reserve_on_aidrs", "over_max_ais", "check_vms"}

Made == {"admission", "over_again", "aidefine", "post_attach_ai"}

Undone == {"rollback", "rollback_on_aidrs", "destroy_object", "aidrs_gone"}

\* How an ai-attach fared, where it is, and whether its object exists.
AttachShape(a) ==
    /\ status[a] = "ok" => att[a] \in Before \cup {"attach_vms"} \cup Made \cup {"unpend", "over"}
    /\ status[a] \in {"exhausted", "leaked"}
           => att[a] \in {"destroy_vm_list", "detach_vms", "unpend", "over", "vms_left"}
    /\ status[a] = "early"
           => att[a] \in {"early_rollback", "early_rollback_on_aidrs", "destroy_vm_list",
                          "detach_vms", "unpend", "over", "vms_left"}
    /\ status[a] \in {"late", "refused_again"}
           => att[a] \in {"destroy_vm_list", "detach_vms", "unpend", "over", "vms_left"} \cup Undone
    /\ att[a] = "aidrs_gone" => ~HasAidrs(a)
    /\ a \in ais => \/ status[a] = "ok" /\ att[a] \in {"post_attach_ai", "unpend", "over"}
                    \/ /\ status[a] = "late"
                       /\ att[a] \in {"destroy_vm_list", "detach_vms", "vms_left"} \cup Undone

\* An ai-detach works on an AI that is attached, or that a failed ai-attach left behind.
DetachShape(a) ==
    /\ dstatus[a] = "ok" => det[a] \notin {"rollback", "rollback_on_aidrs", "aidrs_gone"}
    /\ dstatus[a] = "unaccounted" => det[a] \in {"unpend", "over"}
    /\ dstatus[a] \in {"failed", "still_listed"}
           => det[a] \in {"rollback", "rollback_on_aidrs", "unpend", "over", "aidrs_gone"}
    /\ det[a] # "idle" => \/ status[a] = "ok" /\ att[a] = "over"
                          \/ status[a] = "late" /\ att[a] \in {"vms_left", "aidrs_gone"}
    /\ det[a] = "post_detach_ai" \/ Departed(a) \/ dstatus[a] = "still_listed" => a \notin ais

\* The ai-detach did not touch the VMs yet.
Untouched(a) == det[a] \in {"idle", "release", "check_aidrs", "release_on_aidrs", "pre_detach_ai"}

\* All of its VMs are gone.
Cleared(a) == \/ status[a] # "ok" /\ att[a] \in {"unpend", "over"} \cup Undone
              \/ det[a] \in {"destroy_object", "post_detach_ai"}
              \/ Departed(a)
              \/ dstatus[a] = "still_listed"

\* The object of an attached AI is destroyed after its VMs.
Present(a) ==
    status[a] = "ok" /\ att[a] \in {"post_attach_ai", "unpend", "over"} /\ a \notin ais => Cleared(a)

\* Where a VM is, given where the operations on its AI are.
VmShape(v) ==
    LET a == home[v] IN
    /\ v \in vms <=> vm[v] \in {"attached", "to_detach", "detaching", "kept"}
    /\ att[a] \in Before => vm[v] = "none"
    /\ vm[v] \in {"to_attach", "attaching"} => att[a] = "attach_vms"
    /\ vm[v] \in {"to_detach", "detaching"} => att[a] = "detach_vms" \/ det[a] = "detach_vms"
    /\ att[a] = "attach_vms" => vm[v] \in {"to_attach", "attaching", "attached", "failed", "removed"}
    /\ att[a] = "detach_vms" \/ det[a] = "detach_vms" => vm[v] # "attached"
    /\ status[a] = "ok" /\ att[a] \in Made \cup {"unpend", "over"} /\ Untouched(a)
           => vm[v] \in {"attached", "removed"}
    /\ Cleared(a) => vm[v] \in {"none", "failed", "gone", "removed"}

Shape == /\ Typed
         /\ \A a \in AI : AttachShape(a) /\ DetachShape(a) /\ Present(a)
         /\ \A v \in VM : VmShape(v)

-----------------------------------------------------------------------------
(* The shape of the states *)

\* One step of an ai-attach keeps the shape.
LEMMA AttachKeepsShape ==
  ASSUME Shape, NEW a \in AI, objattach(a)
  PROVE  Shape'
<1> USE AIAssumption
    DEF Shape, Typed, AttachShape, DetachShape, Present, VmShape, Untouched, Cleared, Departed,
        Before, Made, Undone, AttachPC, DetachPC, Status, DetachStatus, VmPC, Ended, counters,
        slots, attvars, detvars, Count, CountOn, VMsOf, Submitted, HasAidrs, Goto, Fail, DGoto,
        DFail, VmGoto
<1>1. CASE Begin(a)
  BY <1>1 DEF Begin
<1>2. CASE PreAttach(a)
  BY <1>2 DEF PreAttach
<1>3. CASE Reserve(a)
  BY <1>3 DEF Reserve
<1>4. CASE UndoReserve(a)
  BY <1>4 DEF UndoReserve
<1>5. CASE CheckAidrs(a)
  BY <1>5 DEF CheckAidrs
<1>6. CASE ReserveOnAidrs(a)
  BY <1>6 DEF ReserveOnAidrs
<1>7. CASE UndoOnAidrs(a)
  BY <1>7 DEF UndoOnAidrs
<1>8. CASE CheckVms(a)
  BY <1>8 DEF CheckVms
<1>9. CASE JoinAttach(a)
  BY <1>9 DEF JoinAttach, Joined
<1>10. CASE EarlyRollback(a)
  BY <1>10 DEF EarlyRollback
<1>11. CASE EarlyRollbackOnAidrs(a)
  BY <1>11 DEF EarlyRollbackOnAidrs
<1>12. CASE Admission(a)
  BY <1>12 DEF Admission
<1>13. CASE UndoAdmission(a)
  BY <1>13 DEF UndoAdmission
<1>14. CASE CreateObject(a)
  BY <1>14 DEF CreateObject
<1>15. CASE PostAttach(a)
  BY <1>15 DEF PostAttach
<1>16. CASE AttachDestroyVms(a)
  BY <1>16 DEF AttachDestroyVms, ListVms, Listed
<1>17. CASE AttachJoinDetach(a)
  BY <1>17 DEF AttachJoinDetach, Joined, DetachFailed
<1>18. CASE Rollback(a)
  BY <1>18 DEF Rollback
<1>19. CASE RollbackOnAidrs(a)
  BY <1>19 DEF RollbackOnAidrs
<1>20. CASE AttachDestroyObject(a)
  BY <1>20 DEF AttachDestroyObject
<1>21. CASE AttachUnpend(a)
  BY <1>21 DEF AttachUnpend
<1> QED
  BY <1>1, <1>2, <1>3, <1>4, <1>5, <1>6, <1>7, <1>8, <1>9, <1>10, <1>11, <1>12, <1>13,
     <1>14, <1>15, <1>16, <1>17, <1>18, <1>19, <1>20, <1>21 DEF objattach, attach_rest

\* One step of an ai-detach keeps the shape.
LEMMA DetachKeepsShape ==
  ASSUME Shape, NEW a \in AI, objdetach(a)
  PROVE  Shape'
<1> USE AIAssumption
    DEF Shape, Typed, AttachShape, DetachShape, Present, VmShape, Untouched, Cleared, Departed,
        Before, Made, Undone, AttachPC, DetachPC, Status, DetachStatus, VmPC, Ended, counters,
        slots, attvars, detvars, Count, CountOn, VMsOf, Submitted, HasAidrs, Goto, Fail, DGoto,
        DFail, VmGoto
<1>1. CASE DetachBegin(a)
  BY <1>1 DEF DetachBegin
<1>2. CASE Release(a)
  BY <1>2 DEF Release
<1>3. CASE ReleaseCheck(a)
  BY <1>3 DEF ReleaseCheck
<1>4. CASE ReleaseOnAidrs(a)
  BY <1>4 DEF ReleaseOnAidrs
<1>5. CASE PreDetach(a)
  BY <1>5 DEF PreDetach, ListVms, Listed
<1>6. CASE DetachJoin(a)
  <2>1. Typed'
    BY <1>6 DEF DetachJoin
  <2>2. \A b \in AI : AttachShape(b)' /\ DetachShape(b)' /\ Present(b)'
    BY <1>6 DEF DetachJoin, Joined, DetachFailed
  <2>3. \A v \in VM : VmShape(v)'
    BY <1>6 DEF DetachJoin, Joined, DetachFailed
  <2> QED
    BY <2>1, <2>2, <2>3
<1>7. CASE DetachDestroyObject(a)
  BY <1>7 DEF DetachDestroyObject
<1>8. CASE PostDetach(a)
  BY <1>8 DEF PostDetach
<1>9. CASE RollbackRelease(a)
  BY <1>9 DEF RollbackRelease
<1>10. CASE RollbackReleaseOnAidrs(a)
  BY <1>10 DEF RollbackReleaseOnAidrs
<1>11. CASE DetachUnpend(a)
  BY <1>11 DEF DetachUnpend
<1> QED
  BY <1>1, <1>2, <1>3, <1>4, <1>5, <1>6, <1>7, <1>8, <1>9, <1>10, <1>11 DEF objdetach,
     detach_rest

\* One step of a thread that attaches or detaches a VM keeps the shape.
LEMMA VmKeepsShape ==
  ASSUME Shape, NEW v \in VM, vm_thread(v)
  PROVE  Shape'
<1> USE AIAssumption
    DEF Shape, Typed, AttachShape, DetachShape, Present, VmShape, Untouched, Cleared, Departed,
        Before, Made, Undone, AttachPC, DetachPC, Status, DetachStatus, VmPC, Ended, counters,
        slots, attvars, detvars, Count, CountOn, VMsOf, Submitted, HasAidrs, Goto, Fail, DGoto,
        DFail, VmGoto
<1>1. CASE ReserveVm(v)
  BY <1>1 DEF ReserveVm, Slots!Take
<1>2. CASE AttachVm(v)
  BY <1>2 DEF AttachVm, Slots!Drop
<1>3. CASE ReleaseVm(v)
  BY <1>3 DEF ReleaseVm, Slots!GiveUp
<1>4. CASE DetachVm(v)
  BY <1>4 DEF DetachVm, Slots!Leave, Slots!Retake
<1> QED
  BY <1>1, <1>2, <1>3, <1>4 DEF vm_thread

\* A VM that is detached by hand keeps the shape.
LEMMA HandKeepsShape ==
  ASSUME Shape, NEW v \in VM, DetachByHand(v)
  PROVE  Shape'
BY AIAssumption
   DEF DetachByHand, Slots!Drop, VmGoto, Shape, Typed, AttachShape, DetachShape, Present,
       VmShape, Untouched, Cleared, Departed, HasAidrs, Before, Made, Undone, AttachPC, DetachPC,
       VmPC, counters, attvars, detvars

\* The destruction of an AIDRS keeps the shape.
LEMMA AidrsKeepsShape ==
  ASSUME Shape, NEW r \in Aidrs, DestroyAidrs(r)
  PROVE  Shape'
BY DEF DestroyAidrs, Shape, Typed, AttachShape, DetachShape, Present, VmShape, Untouched, Cleared,
   Departed, HasAidrs, counters, slots, attvars, detvars

\* The shape is kept by every behaviour of the specification.
THEOREM ShapeHolds == Spec => []Shape
<1>1. Init => Shape
  BY AIAssumption DEF Init, Slots!SlotPoolInit, Shape, Typed, AttachShape, DetachShape, Present,
     VmShape, Untouched, Cleared, Departed, Before, Made, Undone, AttachPC, DetachPC, Status,
     DetachStatus, VmPC
<1>2. Shape /\ [Next]_vars => Shape'
  <2> SUFFICES ASSUME Shape, [Next]_vars PROVE Shape'
    OBVIOUS
  <2>1. CASE UNCHANGED vars
    BY <2>1 DEF vars, counters, slots, attvars, detvars, Shape, Typed, AttachShape, DetachShape,
       Present, VmShape, Untouched, Cleared, Departed, HasAidrs
  <2> QED
    BY <2>1, AttachKeepsShape, DetachKeepsShape, VmKeepsShape, HandKeepsShape, AidrsKeepsShape
       DEF Next
<1> QED
  BY <1>1, <1>2, PTL DEF Spec

\* A VM does not outlive its AI (the finally block of objattach, and pre_detach_ai).
THEOREM NoOrphans == Spec => []NoOrphanVm
<1>1. Shape => NoOrphanVm
  BY AIAssumption DEF Shape, Typed, NoOrphanVm, AttachShape, Present, VmShape, Cleared, Before,
     Made, Undone, Status
<1> QED
  BY <1>1, ShapeHolds, PTL

\* An attached AI has all of its VMs (pre_attach_ai waits for all of them, and fails when one
\* of them fails).
THEOREM AlwaysWhole == Spec => []AttachedIsWhole
<1>1. Shape => AttachedIsWhole
  BY AIAssumption DEF Shape, Typed, AttachedIsWhole, AttachShape, VmShape, Untouched, VMsOf,
     Made, Undone
<1> QED
  BY <1>1, ShapeHolds, PTL

\* The VMs of an AI are there as long as it is, and no longer.
THEOREM VmsFollow == Spec => []VmsFollowTheirAI
BY NoOrphans, AlwaysWhole, PTL DEF VmsFollowTheirAI

-----------------------------------------------------------------------------
(* The counter RESERVATIONS *)

CountedSet == {a \in AI : Counted(a)}
OverdrawnSet == {a \in AI : Overdrawn(a)}
UncountedSet == {a \in AI : Uncounted(a)}

\* What one element more or less does to a cardinality.
LEMMA OneMore == ASSUME NEW S, IsFiniteSet(S), NEW x, x \notin S
                 PROVE  Cardinality(S \cup {x}) = Cardinality(S) + 1
BY FS_AddElement, FS_CardinalityType

\* One taken out of a finite set.
LEMMA OneLess == ASSUME NEW S, IsFiniteSet(S), NEW x, x \in S
                 PROVE  Cardinality(S \ {x}) = Cardinality(S) - 1
BY FS_RemoveElement, FS_CardinalityType

\* Sets of AIs are finite.
LEMMA FiniteAIs == ASSUME NEW S, S \subseteq AI
                   PROVE  IsFiniteSet(S) /\ Cardinality(S) \in Nat
BY AIAssumption, FS_Subset, FS_CardinalityType

\* What a step of an ai-attach may do to the counter, and to who has a share in it.
LEMMA AttachShare ==
  ASSUME Shape, NEW a \in AI, objattach(a)
  PROVE  /\ UncountedSet' = UncountedSet
         /\ \/ /\ ai_reservations' = ai_reservations
               /\ CountedSet' = CountedSet /\ OverdrawnSet' = OverdrawnSet
            \/ /\ ai_reservations' = ai_reservations + 1
               /\ a \notin CountedSet /\ CountedSet' = CountedSet \cup {a}
               /\ OverdrawnSet' = OverdrawnSet
            \/ /\ ai_reservations' = ai_reservations - 1
               /\ a \in CountedSet /\ CountedSet' = CountedSet \ {a}
               /\ OverdrawnSet' = OverdrawnSet
            \/ /\ ai_reservations' = ai_reservations - 1
               /\ a \notin OverdrawnSet /\ OverdrawnSet' = OverdrawnSet \cup {a}
               /\ CountedSet' = CountedSet
<1> USE DEF Shape, Typed, AttachShape, Before, Made, Undone, Creating, BeforeRollback, Counted,
        Overdrawn, Uncounted, Attached, Departed, CountedSet, OverdrawnSet, UncountedSet,
        counters, detvars, Count, Goto, Fail, Submitted, Status
<1>1. CASE Begin(a)
  BY <1>1 DEF Begin
<1>2. CASE PreAttach(a)
  BY <1>2 DEF PreAttach
<1>3. CASE Reserve(a)
  BY <1>3 DEF Reserve
<1>4. CASE UndoReserve(a)
  BY <1>4 DEF UndoReserve
<1>5. CASE CheckAidrs(a)
  BY <1>5 DEF CheckAidrs
<1>6. CASE ReserveOnAidrs(a)
  BY <1>6 DEF ReserveOnAidrs
<1>7. CASE UndoOnAidrs(a)
  BY <1>7 DEF UndoOnAidrs
<1>8. CASE CheckVms(a)
  BY <1>8 DEF CheckVms
<1>9. CASE JoinAttach(a)
  BY <1>9 DEF JoinAttach
<1>10. CASE EarlyRollback(a)
  BY <1>10 DEF EarlyRollback
<1>11. CASE EarlyRollbackOnAidrs(a)
  BY <1>11 DEF EarlyRollbackOnAidrs
<1>12. CASE Admission(a)
  BY <1>12 DEF Admission
<1>13. CASE UndoAdmission(a)
  BY <1>13 DEF UndoAdmission
<1>14. CASE CreateObject(a)
  BY <1>14 DEF CreateObject
<1>15. CASE PostAttach(a)
  BY <1>15 DEF PostAttach
<1>16. CASE AttachDestroyVms(a)
  BY <1>16 DEF AttachDestroyVms
<1>17. CASE AttachJoinDetach(a)
  BY <1>17 DEF AttachJoinDetach
<1>18. CASE Rollback(a)
  BY <1>18 DEF Rollback
<1>19. CASE RollbackOnAidrs(a)
  BY <1>19 DEF RollbackOnAidrs
<1>20. CASE AttachDestroyObject(a)
  BY <1>20 DEF AttachDestroyObject
<1>21. CASE AttachUnpend(a)
  BY <1>21 DEF AttachUnpend
<1> QED
  BY <1>1, <1>2, <1>3, <1>4, <1>5, <1>6, <1>7, <1>8, <1>9, <1>10, <1>11, <1>12, <1>13,
     <1>14, <1>15, <1>16, <1>17, <1>18, <1>19, <1>20, <1>21 DEF objattach, attach_rest

\* The same of a step of an ai-detach.
LEMMA DetachShare ==
  ASSUME Shape, NEW a \in AI, objdetach(a)
  PROVE  /\ CountedSet' = CountedSet /\ OverdrawnSet' = OverdrawnSet
         /\ \/ ai_reservations' = ai_reservations /\ UncountedSet' = UncountedSet
            \/ /\ ai_reservations' = ai_reservations - 1
               /\ a \notin UncountedSet /\ UncountedSet' = UncountedSet \cup {a}
            \/ /\ ai_reservations' = ai_reservations + 1
               /\ a \in UncountedSet /\ UncountedSet' = UncountedSet \ {a}
<1> USE DEF Shape, Typed, DetachShape, Counted, Overdrawn, Uncounted, Attached, Departed,
        CountedSet, OverdrawnSet, UncountedSet, counters, attvars, Count, DGoto, DFail, Submitted,
        DetachStatus
<1>1. CASE DetachBegin(a)
  BY <1>1 DEF DetachBegin
<1>2. CASE Release(a)
  BY <1>2 DEF Release
<1>3. CASE ReleaseCheck(a)
  BY <1>3 DEF ReleaseCheck
<1>4. CASE ReleaseOnAidrs(a)
  BY <1>4 DEF ReleaseOnAidrs
<1>5. CASE PreDetach(a)
  BY <1>5 DEF PreDetach
<1>6. CASE DetachJoin(a)
  BY <1>6 DEF DetachJoin
<1>7. CASE DetachDestroyObject(a)
  BY <1>7 DEF DetachDestroyObject
<1>8. CASE PostDetach(a)
  BY <1>8 DEF PostDetach
<1>9. CASE RollbackRelease(a)
  BY <1>9 DEF RollbackRelease
<1>10. CASE RollbackReleaseOnAidrs(a)
  BY <1>10 DEF RollbackReleaseOnAidrs
<1>11. CASE DetachUnpend(a)
  BY <1>11 DEF DetachUnpend
<1> QED
  BY <1>1, <1>2, <1>3, <1>4, <1>5, <1>6, <1>7, <1>8, <1>9, <1>10, <1>11 DEF objdetach,
     detach_rest

\* The threads of the VMs and the destruction of an AIDRS have no share in the counter.
LEMMA OthersShare ==
  ASSUME \/ \E v \in VM : vm_thread(v) \/ DetachByHand(v)
         \/ \E r \in Aidrs : DestroyAidrs(r)
         \/ UNCHANGED vars
  PROVE  UNCHANGED <<counters, attvars, detvars, CountedSet, OverdrawnSet, UncountedSet>>
<1>1. UNCHANGED <<counters, attvars, detvars>>
  BY DEF vm_thread, ReserveVm, AttachVm, ReleaseVm, DetachVm, DetachByHand, DestroyAidrs, vars
<1> QED
  BY <1>1 DEF attvars, detvars, CountedSet, OverdrawnSet, UncountedSet, Counted, Overdrawn,
     Uncounted, Attached, Departed

\* Every step leaves the counter what its shares make it.
LEMMA ReservationsKept ==
  ASSUME Shape, ReservationsAddUp, [Next]_vars
  PROVE  ReservationsAddUp'
<1>1. /\ IsFiniteSet(CountedSet) /\ Cardinality(CountedSet) \in Nat
      /\ IsFiniteSet(OverdrawnSet) /\ Cardinality(OverdrawnSet) \in Nat
      /\ IsFiniteSet(UncountedSet) /\ Cardinality(UncountedSet) \in Nat
  <2>1. CountedSet \subseteq AI /\ OverdrawnSet \subseteq AI /\ UncountedSet \subseteq AI
    BY DEF CountedSet, OverdrawnSet, UncountedSet
  <2> QED
    BY <2>1, FiniteAIs
<1>2. ai_reservations = Cardinality(CountedSet) - Cardinality(OverdrawnSet)
                          - Cardinality(UncountedSet)
  BY DEF ReservationsAddUp, CountedSet, OverdrawnSet, UncountedSet
<1>3. SUFFICES ai_reservations' = Cardinality(CountedSet') - Cardinality(OverdrawnSet')
                                    - Cardinality(UncountedSet')
  BY DEF ReservationsAddUp, CountedSet, OverdrawnSet, UncountedSet
<1>4. CASE \E a \in AI : objattach(a)
  <2> PICK a \in AI : objattach(a)
    BY <1>4
  <2>1. UncountedSet' = UncountedSet
    BY AttachShare
  <2>2. /\ a \notin CountedSet => Cardinality(CountedSet \cup {a}) = Cardinality(CountedSet) + 1
        /\ a \in CountedSet => Cardinality(CountedSet \ {a}) = Cardinality(CountedSet) - 1
        /\ a \notin OverdrawnSet
             => Cardinality(OverdrawnSet \cup {a}) = Cardinality(OverdrawnSet) + 1
    BY <1>1, OneMore, OneLess
  <2>3. CASE /\ ai_reservations' = ai_reservations
             /\ CountedSet' = CountedSet /\ OverdrawnSet' = OverdrawnSet
    BY <1>2, <2>1, <2>3
  <2>4. CASE /\ ai_reservations' = ai_reservations + 1
             /\ a \notin CountedSet /\ CountedSet' = CountedSet \cup {a}
             /\ OverdrawnSet' = OverdrawnSet
    BY <1>1, <1>2, <2>1, <2>2, <2>4
  <2>5. CASE /\ ai_reservations' = ai_reservations - 1
             /\ a \in CountedSet /\ CountedSet' = CountedSet \ {a}
             /\ OverdrawnSet' = OverdrawnSet
    BY <1>1, <1>2, <2>1, <2>2, <2>5
  <2>6. CASE /\ ai_reservations' = ai_reservations - 1
             /\ a \notin OverdrawnSet /\ OverdrawnSet' = OverdrawnSet \cup {a}
             /\ CountedSet' = CountedSet
    BY <1>1, <1>2, <2>1, <2>2, <2>6
  <2> QED
    BY <2>3, <2>4, <2>5, <2>6, AttachShare
<1>5. CASE \E a \in AI : objdetach(a)
  <2> PICK a \in AI : objdetach(a)
    BY <1>5
  <2>1. CountedSet' = CountedSet /\ OverdrawnSet' = OverdrawnSet
    BY DetachShare
  <2>2. /\ a \notin UncountedSet
             => Cardinality(UncountedSet \cup {a}) = Cardinality(UncountedSet) + 1
        /\ a \in UncountedSet => Cardinality(UncountedSet \ {a}) = Cardinality(UncountedSet) - 1
    BY <1>1, OneMore, OneLess
  <2>3. CASE ai_reservations' = ai_reservations /\ UncountedSet' = UncountedSet
    BY <1>2, <2>1, <2>3
  <2>4. CASE /\ ai_reservations' = ai_reservations - 1
             /\ a \notin UncountedSet /\ UncountedSet' = UncountedSet \cup {a}
    BY <1>1, <1>2, <2>1, <2>2, <2>4
  <2>5. CASE /\ ai_reservations' = ai_reservations + 1
             /\ a \in UncountedSet /\ UncountedSet' = UncountedSet \ {a}
    BY <1>1, <1>2, <2>1, <2>2, <2>5
  <2> QED
    BY <2>3, <2>4, <2>5, DetachShare
<1>6. CASE \/ \E v \in VM : vm_thread(v) \/ DetachByHand(v)
           \/ \E r \in Aidrs : DestroyAidrs(r)
           \/ UNCHANGED vars
  BY <1>2, <1>6, OthersShare DEF counters
<1> QED
  BY <1>4, <1>5, <1>6 DEF Next

\* The counter starts right.
LEMMA ReservationsStart == Init => ReservationsAddUp
<1> SUFFICES ASSUME Init PROVE ReservationsAddUp
  OBVIOUS
<1>1. CountedSet = {} /\ OverdrawnSet = {} /\ UncountedSet = {}
  BY DEF Init, CountedSet, OverdrawnSet, UncountedSet, Counted, Overdrawn, Uncounted, Attached,
     Departed, Creating, BeforeRollback
<1>2. ai_reservations = 0 /\ Cardinality({}) = 0
  BY FS_EmptySet DEF Init
<1>3. ai_reservations = Cardinality(CountedSet) - Cardinality(OverdrawnSet)
                          - Cardinality(UncountedSet)
  BY <1>1, <1>2
<1> QED
  BY <1>3 DEF ReservationsAddUp, CountedSet, OverdrawnSet, UncountedSet

\* RESERVATIONS of AIs is at any time the sum of what the operations did to it.
THEOREM ReservationsAlwaysAddUp == Spec => []ReservationsAddUp
<1>1. Shape /\ ReservationsAddUp /\ [Next]_vars => ReservationsAddUp'
  BY ReservationsKept
<1> QED
  BY <1>1, ReservationsStart, ShapeHolds, PTL DEF Spec

-----------------------------------------------------------------------------
(* The counter nr_ais of each AIDRS, and its limit *)

OnSet(r) == {a \in SubmittedBy(r) : CountedOn(a)}
OffSet(r) == {a \in SubmittedBy(r) : UncountedOn(a)}

\* The AIs that found a place below max_ais, and those whose ai-detach was begun.
AdmittedSet(r) == {a \in SubmittedBy(r) : CountedOn(a) /\ att[a] # "over_max_ais"}
EndingSet(r) == {a \in SubmittedBy(r) : det[a] # "idle"}

\* No more AIs are admitted than max_ais and one for each ai-detach: inductive, because an AI is
\* admitted by the value that its own HINCRBY returned.
AdmittedWithinMax(r) == Cardinality(AdmittedSet(r)) <= MaxAis + Cardinality(EndingSet(r))

CountsRight(r) == nr_ais[r] = Cardinality(OnSet(r)) - Cardinality(OffSet(r))

\* What a step of an ai-attach may do to nr_ais, and to who has a share in it.
LEMMA AttachShareOn ==
  ASSUME Shape, NEW a \in AI, objattach(a), NEW r \in daemons
  PROVE  /\ OffSet(r)' = OffSet(r) /\ EndingSet(r)' = EndingSet(r)
         /\ \/ /\ nr_ais'[r] = nr_ais[r]
               /\ OnSet(r)' = OnSet(r) /\ AdmittedSet(r)' = AdmittedSet(r)
            \/ /\ nr_ais'[r] = nr_ais[r] + 1
               /\ a \notin OnSet(r) /\ OnSet(r)' = OnSet(r) \cup {a}
               /\ \/ AdmittedSet(r)' = AdmittedSet(r)
                  \/ nr_ais[r] + 1 <= MaxAis /\ AdmittedSet(r)' = AdmittedSet(r) \cup {a}
            \/ /\ nr_ais'[r] = nr_ais[r] - 1
               /\ a \in OnSet(r) /\ OnSet(r)' = OnSet(r) \ {a}
               /\ AdmittedSet(r)' \subseteq AdmittedSet(r)
<1> USE AIAssumption
    DEF Shape, Typed, AttachShape, Before, Made, Undone, Creating, BeforeRollback, CountedOn,
        UncountedOn, Attached, Departed, SubmittedBy, OnSet, OffSet, AdmittedSet, EndingSet,
        counters, detvars, CountOn, Goto, Fail, Submitted, HasAidrs, Status
<1>1. CASE Begin(a)
  BY <1>1 DEF Begin
<1>2. CASE PreAttach(a)
  BY <1>2 DEF PreAttach
<1>3. CASE Reserve(a)
  BY <1>3 DEF Reserve
<1>4. CASE UndoReserve(a)
  BY <1>4 DEF UndoReserve
<1>5. CASE CheckAidrs(a)
  BY <1>5 DEF CheckAidrs
<1>6. CASE ReserveOnAidrs(a)
  BY <1>6 DEF ReserveOnAidrs, WithinMaxAis
<1>7. CASE UndoOnAidrs(a)
  BY <1>7 DEF UndoOnAidrs
<1>8. CASE CheckVms(a)
  BY <1>8 DEF CheckVms
<1>9. CASE JoinAttach(a)
  BY <1>9 DEF JoinAttach
<1>10. CASE EarlyRollback(a)
  BY <1>10 DEF EarlyRollback
<1>11. CASE EarlyRollbackOnAidrs(a)
  BY <1>11 DEF EarlyRollbackOnAidrs
<1>12. CASE Admission(a)
  BY <1>12 DEF Admission
<1>13. CASE UndoAdmission(a)
  BY <1>13 DEF UndoAdmission
<1>14. CASE CreateObject(a)
  BY <1>14 DEF CreateObject
<1>15. CASE PostAttach(a)
  BY <1>15 DEF PostAttach
<1>16. CASE AttachDestroyVms(a)
  BY <1>16 DEF AttachDestroyVms
<1>17. CASE AttachJoinDetach(a)
  BY <1>17 DEF AttachJoinDetach
<1>18. CASE Rollback(a)
  BY <1>18 DEF Rollback
<1>19. CASE RollbackOnAidrs(a)
  BY <1>19 DEF RollbackOnAidrs
<1>20. CASE AttachDestroyObject(a)
  BY <1>20 DEF AttachDestroyObject
<1>21. CASE AttachUnpend(a)
  BY <1>21 DEF AttachUnpend
<1> QED
  BY <1>1, <1>2, <1>3, <1>4, <1>5, <1>6, <1>7, <1>8, <1>9, <1>10, <1>11, <1>12, <1>13,
     <1>14, <1>15, <1>16, <1>17, <1>18, <1>19, <1>20, <1>21 DEF objattach, attach_rest

\* The same of a step of an ai-detach.
LEMMA DetachShareOn ==
  ASSUME Shape, NEW a \in AI, objdetach(a), NEW r \in daemons
  PROVE  /\ OnSet(r)' = OnSet(r) /\ AdmittedSet(r)' = AdmittedSet(r)
         /\ EndingSet(r) \subseteq EndingSet(r)'
         /\ \/ nr_ais'[r] = nr_ais[r] /\ OffSet(r)' = OffSet(r)
            \/ /\ nr_ais'[r] = nr_ais[r] - 1
               /\ a \notin OffSet(r) /\ OffSet(r)' = OffSet(r) \cup {a}
            \/ /\ nr_ais'[r] = nr_ais[r] + 1
               /\ a \in OffSet(r) /\ OffSet(r)' = OffSet(r) \ {a}
<1> USE AIAssumption
    DEF Shape, Typed, DetachShape, CountedOn, UncountedOn, Attached, Departed, SubmittedBy, OnSet,
        OffSet, AdmittedSet, EndingSet, counters, attvars, CountOn, DGoto, DFail, Submitted,
        HasAidrs, DetachStatus
<1>1. CASE DetachBegin(a)
  BY <1>1 DEF DetachBegin
<1>2. CASE Release(a)
  BY <1>2 DEF Release
<1>3. CASE ReleaseCheck(a)
  BY <1>3 DEF ReleaseCheck
<1>4. CASE ReleaseOnAidrs(a)
  BY <1>4 DEF ReleaseOnAidrs
<1>5. CASE PreDetach(a)
  BY <1>5 DEF PreDetach
<1>6. CASE DetachJoin(a)
  BY <1>6 DEF DetachJoin
<1>7. CASE DetachDestroyObject(a)
  BY <1>7 DEF DetachDestroyObject
<1>8. CASE PostDetach(a)
  BY <1>8 DEF PostDetach
<1>9. CASE RollbackRelease(a)
  BY <1>9 DEF RollbackRelease
<1>10. CASE RollbackReleaseOnAidrs(a)
  BY <1>10 DEF RollbackReleaseOnAidrs
<1>11. CASE DetachUnpend(a)
  BY <1>11 DEF DetachUnpend
<1> QED
  BY <1>1, <1>2, <1>3, <1>4, <1>5, <1>6, <1>7, <1>8, <1>9, <1>10, <1>11 DEF objdetach,
     detach_rest

\* The threads of the VMs and the destruction of an AIDRS have no share in nr_ais.
LEMMA OthersShareOn ==
  ASSUME NEW r, \/ \E v \in VM : vm_thread(v) \/ DetachByHand(v)
                \/ \E q \in Aidrs : DestroyAidrs(q)
                \/ UNCHANGED vars
  PROVE  UNCHANGED <<nr_ais, OnSet(r), OffSet(r), AdmittedSet(r), EndingSet(r)>>
<1>1. UNCHANGED <<counters, attvars, detvars>>
  BY OthersShare
<1> QED
  BY <1>1 DEF counters, attvars, detvars, OnSet, OffSet, AdmittedSet, EndingSet, SubmittedBy,
     CountedOn, UncountedOn, Attached, Departed

\* An AI that is detached has its place: its ai-attach did not give it back.
LEMMA OffIsOn ==
  ASSUME Shape, NEW r \in daemons
  PROVE  /\ OffSet(r) \subseteq OnSet(r) /\ OffSet(r) \subseteq EndingSet(r)
         /\ AdmittedSet(r) \subseteq OnSet(r)
BY DEF Shape, Typed, AttachShape, DetachShape, OffSet, OnSet, EndingSet, AdmittedSet, SubmittedBy,
   CountedOn, UncountedOn, Attached, Departed, HasAidrs, BeforeRollback

\* The sets are finite, and what one element does to their cardinality.
LEMMA FiniteOn ==
  ASSUME NEW r, NEW S \in {OnSet(r), OffSet(r), AdmittedSet(r), EndingSet(r)}
  PROVE  /\ IsFiniteSet(S) /\ Cardinality(S) \in Nat
         /\ \A a : a \notin S => Cardinality(S \cup {a}) = Cardinality(S) + 1
         /\ \A a : a \in S => Cardinality(S \ {a}) = Cardinality(S) - 1
<1>1. S \subseteq AI
  BY DEF OnSet, OffSet, AdmittedSet, EndingSet, SubmittedBy
<1> QED
  BY <1>1, FiniteAIs, OneMore, OneLess

\* Every step leaves nr_ais what its shares make it, and the admitted AIs within max_ais.
LEMMA OnKept ==
  ASSUME Shape, NEW r \in daemons, CountsRight(r), AdmittedWithinMax(r), [Next]_vars
  PROVE  CountsRight(r)' /\ AdmittedWithinMax(r)'
<1> DEFINE on == Cardinality(OnSet(r))
           off == Cardinality(OffSet(r))
           adm == Cardinality(AdmittedSet(r))
           ending == Cardinality(EndingSet(r))
<1>1. on \in Nat /\ off \in Nat /\ adm \in Nat /\ ending \in Nat /\ MaxAis \in Nat
  BY FiniteOn, AIAssumption
<1>2. adm <= on /\ off <= ending
  <2>1. /\ OffSet(r) \subseteq EndingSet(r) /\ AdmittedSet(r) \subseteq OnSet(r)
        /\ IsFiniteSet(EndingSet(r)) /\ IsFiniteSet(OnSet(r))
    BY OffIsOn, FiniteOn
  <2> QED
    BY <2>1, FS_Subset
<1>3. nr_ais[r] = on - off /\ adm <= MaxAis + ending
  BY DEF CountsRight, AdmittedWithinMax
<1>4. SUFFICES /\ nr_ais'[r] = Cardinality(OnSet(r)') - Cardinality(OffSet(r)')
               /\ Cardinality(AdmittedSet(r)') <= MaxAis + Cardinality(EndingSet(r)')
  BY DEF CountsRight, AdmittedWithinMax
<1>5. CASE \E a \in AI : objattach(a)
  <2> PICK a \in AI : objattach(a)
    BY <1>5
  <2>1. OffSet(r)' = OffSet(r) /\ EndingSet(r)' = EndingSet(r)
    BY AttachShareOn
  <2>2. CASE /\ nr_ais'[r] = nr_ais[r]
             /\ OnSet(r)' = OnSet(r) /\ AdmittedSet(r)' = AdmittedSet(r)
    BY <1>3, <2>1, <2>2
  <2>3. CASE /\ nr_ais'[r] = nr_ais[r] + 1
             /\ a \notin OnSet(r) /\ OnSet(r)' = OnSet(r) \cup {a}
             /\ \/ AdmittedSet(r)' = AdmittedSet(r)
                \/ nr_ais[r] + 1 <= MaxAis /\ AdmittedSet(r)' = AdmittedSet(r) \cup {a}
    <3>1. Cardinality(OnSet(r)') = on + 1
      BY <2>3, FiniteOn
    <3>2. CASE AdmittedSet(r)' = AdmittedSet(r)
      BY <1>1, <1>3, <2>1, <2>3, <3>1, <3>2
    <3>3. CASE nr_ais[r] + 1 <= MaxAis /\ AdmittedSet(r)' = AdmittedSet(r) \cup {a}
      <4>1. Cardinality(AdmittedSet(r)') = adm + 1
        BY <2>3, <3>3, OffIsOn, FiniteOn
      <4>2. adm + 1 <= MaxAis + ending
        BY <1>1, <1>2, <1>3, <3>3
      <4> QED
        BY <1>1, <1>3, <2>1, <2>3, <3>1, <4>1, <4>2
    <3> QED
      BY <2>3, <3>2, <3>3
  <2>4. CASE /\ nr_ais'[r] = nr_ais[r] - 1
             /\ a \in OnSet(r) /\ OnSet(r)' = OnSet(r) \ {a}
             /\ AdmittedSet(r)' \subseteq AdmittedSet(r)
    <3>1. Cardinality(OnSet(r)') = on - 1
      BY <2>4, FiniteOn
    <3>2. Cardinality(AdmittedSet(r)') \in Nat /\ Cardinality(AdmittedSet(r)') <= adm
      BY <2>4, FiniteOn, FS_Subset, FS_CardinalityType
    <3> QED
      BY <1>1, <1>3, <2>1, <2>4, <3>1, <3>2
  <2> QED
    BY <2>2, <2>3, <2>4, AttachShareOn
<1>6. CASE \E a \in AI : objdetach(a)
  <2> PICK a \in AI : objdetach(a)
    BY <1>6
  <2>1. OnSet(r)' = OnSet(r) /\ AdmittedSet(r)' = AdmittedSet(r)
    BY DetachShareOn
  <2>2. Cardinality(EndingSet(r)') \in Nat /\ ending <= Cardinality(EndingSet(r)')
    <3>1. EndingSet(r)' \subseteq AI /\ EndingSet(r) \subseteq EndingSet(r)'
      BY DetachShareOn DEF EndingSet, SubmittedBy
    <3> QED
      BY <3>1, FiniteAIs, FS_Subset
  <2>3. Cardinality(AdmittedSet(r)') <= MaxAis + Cardinality(EndingSet(r)')
    BY <1>1, <1>3, <2>1, <2>2
  <2>4. CASE nr_ais'[r] = nr_ais[r] /\ OffSet(r)' = OffSet(r)
    BY <1>3, <2>1, <2>3, <2>4
  <2>5. CASE /\ nr_ais'[r] = nr_ais[r] - 1
             /\ a \notin OffSet(r) /\ OffSet(r)' = OffSet(r) \cup {a}
    <3>1. Cardinality(OffSet(r)') = off + 1
      BY <2>5, FiniteOn
    <3> QED
      BY <1>1, <1>3, <2>1, <2>3, <2>5, <3>1
  <2>6. CASE /\ nr_ais'[r] = nr_ais[r] + 1
             /\ a \in OffSet(r) /\ OffSet(r)' = OffSet(r) \ {a}
    <3>1. Cardinality(OffSet(r)') = off - 1
      BY <2>6, FiniteOn
    <3> QED
      BY <1>1, <1>3, <2>1, <2>3, <2>6, <3>1
  <2> QED
    BY <2>4, <2>5, <2>6, DetachShareOn
<1>7. CASE \/ \E v \in VM : vm_thread(v) \/ DetachByHand(v)
           \/ \E q \in Aidrs : DestroyAidrs(q)
           \/ UNCHANGED vars
  BY <1>3, <1>7, OthersShareOn
<1> QED
  BY <1>5, <1>6, <1>7 DEF Next

\* The AIDRS that are there are among those that were, and nr_ais of the others stays.
LEMMA AidrsGoAway ==
  ASSUME Shape, [Next]_vars
  PROVE  /\ daemons' \subseteq daemons
         /\ \A r \in Aidrs \ daemons : nr_ais'[r] = nr_ais[r]
         /\ daemons' # daemons => nr_ais' = nr_ais
<1> USE DEF Shape, Typed, counters, HasAidrs, CountOn
<1>1. CASE \E a \in AI : objattach(a)
  BY <1>1 DEF objattach, attach_rest, Begin, PreAttach, Reserve, UndoReserve, CheckAidrs,
     ReserveOnAidrs, UndoOnAidrs, CheckVms, JoinAttach, EarlyRollback, EarlyRollbackOnAidrs,
     Admission, UndoAdmission, CreateObject, PostAttach, AttachDestroyVms, AttachJoinDetach,
     Rollback, RollbackOnAidrs, AttachDestroyObject, AttachUnpend
<1>2. CASE \E a \in AI : objdetach(a)
  BY <1>2 DEF objdetach, detach_rest, DetachBegin, Release, ReleaseCheck, ReleaseOnAidrs,
     PreDetach, DetachJoin, DetachDestroyObject, PostDetach, RollbackRelease,
     RollbackReleaseOnAidrs, DetachUnpend
<1>3. CASE \E v \in VM : vm_thread(v) \/ DetachByHand(v)
  BY <1>3 DEF vm_thread, ReserveVm, AttachVm, ReleaseVm, DetachVm, DetachByHand
<1>4. CASE (\E r \in Aidrs : DestroyAidrs(r)) \/ UNCHANGED vars
  BY <1>4 DEF DestroyAidrs, vars
<1> QED
  BY <1>1, <1>2, <1>3, <1>4 DEF Next

\* What is inductive, given the shape of the states; and what follows from it.
OnInv == \A r \in daemons : CountsRight(r) /\ AdmittedWithinMax(r)

NeverNegative == \A r \in daemons : nr_ais[r] \in Nat

NaturalCounts == nr_ais \in [Aidrs -> Nat]

\* nr_ais is never negative: who decremented it had incremented it before.
LEMMA DecrementsFollow == Shape /\ OnInv => NeverNegative
<1> SUFFICES ASSUME Shape, OnInv, NEW r \in daemons
             PROVE  nr_ais[r] \in Nat
  BY DEF NeverNegative
<1>1. /\ OffSet(r) \subseteq OnSet(r) /\ IsFiniteSet(OnSet(r))
      /\ Cardinality(OnSet(r)) \in Nat /\ Cardinality(OffSet(r)) \in Nat
  BY OffIsOn, FiniteOn
<1>2. Cardinality(OffSet(r)) <= Cardinality(OnSet(r))
  BY <1>1, FS_Subset
<1> QED
  BY <1>1, <1>2 DEF OnInv, CountsRight

\* The invariant holds at first.
LEMMA OnStart == Init => OnInv
<1> SUFFICES ASSUME Init, NEW r \in Aidrs
             PROVE  CountsRight(r) /\ AdmittedWithinMax(r)
  BY DEF OnInv, Init
<1>1. OnSet(r) = {} /\ OffSet(r) = {} /\ AdmittedSet(r) = {} /\ EndingSet(r) = {}
  BY AIAssumption DEF Init, OnSet, OffSet, AdmittedSet, EndingSet, SubmittedBy, CountedOn,
     UncountedOn, Attached, Departed, Creating, BeforeRollback
<1>2. Cardinality({}) = 0 /\ nr_ais[r] = 0 /\ MaxAis \in Nat
  BY FS_EmptySet, AIAssumption DEF Init
<1> QED
  BY <1>1, <1>2 DEF CountsRight, AdmittedWithinMax

\* The invariant is kept by every behaviour.
THEOREM OnHolds == Spec => []OnInv
<1>1. Shape /\ OnInv /\ [Next]_vars => OnInv'
  BY AidrsGoAway, OnKept DEF OnInv
<1> QED
  BY <1>1, OnStart, ShapeHolds, PTL DEF Spec

\* nr_ais of an AIDRS that is gone keeps its last value, which was natural too.
THEOREM AlwaysNatural == Spec => []NaturalCounts
<1>1. Init => NaturalCounts
  BY DEF Init, NaturalCounts
<1>2. Shape' /\ Shape /\ NaturalCounts /\ NeverNegative' /\ [Next]_vars => NaturalCounts'
  BY AidrsGoAway DEF NaturalCounts, NeverNegative, Shape, Typed
<1> QED
  BY <1>1, <1>2, DecrementsFollow, OnHolds, ShapeHolds, PTL DEF Spec

\* The values of the variables stay in their ranges; nr_ais is never negative.
THEOREM TypeCorrect == Spec => []TypeOK
<1>1. Shape /\ NaturalCounts => TypeOK
  BY DEF Shape, Typed, NaturalCounts, TypeOK
<1> QED
  BY <1>1, ShapeHolds, AlwaysNatural, PTL

\* nr_ais of an AIDRS that is there is at any time the sum of what the operations did to it.
THEOREM AidrsCountsAlwaysAddUp == Spec => []AidrsCountsAddUp
<1>1. OnInv => AidrsCountsAddUp
  BY DEF OnInv, CountsRight, OnSet, OffSet, AidrsCountsAddUp
<1> QED
  BY <1>1, OnHolds, PTL

\* The limit max_ais: at any time at most max_ais AIs are attached for an AIDRS, and one for each
\* ai-detach that was begun and did not succeed.
THEOREM MaxAisAlwaysRespected == Spec => []MaxAisRespected
<1>1. Shape /\ OnInv => MaxAisRespected
  <2> SUFFICES ASSUME Shape, OnInv, NEW r \in daemons
               PROVE  Cardinality({a \in SubmittedBy(r) \cap ais : status[a] = "ok"})
                        <= MaxAis + Cardinality({a \in SubmittedBy(r) : det[a] # "idle" /\ ~Departed(a)})
    BY DEF MaxAisRespected
  <2> DEFINE here == {a \in SubmittedBy(r) \cap ais : status[a] = "ok"}
             leaving == {a \in SubmittedBy(r) : det[a] # "idle" /\ ~Departed(a)}
             gone == {a \in SubmittedBy(r) : Departed(a)}
  <2>1. here \subseteq AI /\ leaving \subseteq AI /\ gone \subseteq AI
    BY DEF SubmittedBy
  <2>2. /\ here \cup gone \subseteq AdmittedSet(r) /\ here \cap gone = {}
        /\ EndingSet(r) = leaving \cup gone /\ leaving \cap gone = {}
    BY DEF Shape, Typed, AttachShape, DetachShape, AdmittedSet, EndingSet, SubmittedBy, CountedOn,
       Attached, Departed, HasAidrs, BeforeRollback, Creating
  <2> HIDE DEF here, leaving, gone
  <2>3. /\ IsFiniteSet(here) /\ IsFiniteSet(leaving) /\ IsFiniteSet(gone)
        /\ Cardinality(here) \in Nat /\ Cardinality(leaving) \in Nat /\ Cardinality(gone) \in Nat
        /\ IsFiniteSet(AdmittedSet(r)) /\ Cardinality(AdmittedSet(r)) \in Nat
    BY <2>1, FiniteAIs, FiniteOn
  <2>4. /\ Cardinality(here \cup gone) = Cardinality(here) + Cardinality(gone)
        /\ Cardinality(leaving \cup gone) = Cardinality(leaving) + Cardinality(gone)
    <3>1. Cardinality(here \cap gone) = 0 /\ Cardinality(leaving \cap gone) = 0
      BY <2>2, FS_EmptySet
    <3>2. Cardinality(here \cup gone)
            = Cardinality(here) + Cardinality(gone) - Cardinality(here \cap gone)
      BY <2>3, FS_Union
    <3>3. Cardinality(leaving \cup gone)
            = Cardinality(leaving) + Cardinality(gone) - Cardinality(leaving \cap gone)
      BY <2>3, FS_Union
    <3> QED
      BY <2>3, <3>1, <3>2, <3>3
  <2>5. Cardinality(here \cup gone) <= Cardinality(AdmittedSet(r))
    BY <2>2, <2>3, FS_Subset
  <2>6. Cardinality(AdmittedSet(r)) <= MaxAis + Cardinality(EndingSet(r)) /\ MaxAis \in Nat
    BY AIAssumption DEF OnInv, AdmittedWithinMax
  <2>7. Cardinality(here) <= MaxAis + Cardinality(leaving)
    BY <2>2, <2>3, <2>4, <2>5, <2>6
  <2> QED
    BY <2>7 DEF here, leaving
<1> QED
  BY <1>1, ShapeHolds, OnHolds, PTL
==============================================================================
