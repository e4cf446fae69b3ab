-------------------------- MODULE VMLifecycle_proofs --------------------------
(***************************************************************************)
(* The counters of the admission control of VMs, for any number of VMs,    *)
(* detaches and VMCs, any limits, and any overlap of the operations.       *)
(***************************************************************************)
EXTENDS VMLifecycle, FiniteSetTheorems, TLAPS

\* Where a vm-attach is after it raised.
Undoing == {"rollback_reserve", "rollback_on_vmc", "rollback_instance", "deschedule",
            "rollback_object", "stuck"}

\* How the place of an operation, what it found and what it decided go together.
AttachShape(v) ==
    /\ status[v] # "ok" => att[v] \in Undoing \cup {"unpend", "over"}
    /\ status[v] \in {"exhausted", "vmc_exhausted"}
           => att[v] \notin {"rollback_reserve", "rollback_on_vmc", "rollback_instance"}
    /\ att[v] \in Undoing => status[v] # "ok"
    /\ att[v] \in {"idle", "pre_attach_vm"} => vmc[v] = None
    /\ att[v] \notin {"idle", "pre_attach_vm", "unpend", "over"} \/ Arrived(v) \/ v \in objects
           => vmc[v] # None
    /\ att[v] \notin Undoing \cup {"unpend", "over"} => tries[v] > 0

DetachShape(d) ==
    /\ dstatus[d] # "ok"
           => det[d] \in {"rollback_release", "rollback_on_vmc", "unpend", "over"}
    /\ det[d] \in {"rollback_release", "rollback_on_vmc"} => dstatus[d] # "ok"
    /\ det[d] = "idle" => target[d] = None
    /\ det[d] # "idle" => target[d] \in VM /\ vmc[target[d]] # None

Shape == TypeOK /\ (\A v \in VM : AttachShape(v)) /\ (\A d \in Detach : DetachShape(d))

-----------------------------------------------------------------------------
(* The shape of the states *)

\* One step of a vm-attach keeps the shape.
LEMMA AttachKeepsShape ==
  ASSUME Shape, NEW v \in VM, objattach(v)
  PROVE  Shape'
<1> USE VMAssumption DEF Shape, TypeOK, AttachShape, DetachShape, Arrived, Undoing, AttachPC,
        DetachPC, Status, DetachStatus, counters, attvars, detvars, Count, CountOn,
        CountScheduled, Report, Goto, Fail, DGoto, DFail
<1>1. CASE Begin(v)
  BY <1>1 DEF Begin
<1>2. CASE PreAttach(v)
  BY <1>2 DEF PreAttach
<1>3. CASE Reserve(v)
  BY <1>3 DEF Reserve
<1>4. CASE UndoReserve(v)
  BY <1>4 DEF UndoReserve
<1>5. CASE ReserveOnVmc(v)
  BY <1>5 DEF ReserveOnVmc
<1>6. CASE VmCreate(v)
  BY <1>6 DEF VmCreate, Create
<1>7. CASE CreateObject(v)
  BY <1>7 DEF CreateObject
<1>8. CASE PostAttach(v)
  BY <1>8 DEF PostAttach
<1>9. CASE RecreateDestroy(v)
  BY <1>9 DEF RecreateDestroy
<1>10. CASE RecreateCreate(v)
  BY <1>10 DEF RecreateCreate, Create
<1>11. CASE RecreateObject(v)
  BY <1>11 DEF RecreateObject, TriesLeft, NextTries
<1>12. CASE RollbackReserve(v)
  BY <1>12 DEF RollbackReserve
<1>13. CASE RollbackOnVmc(v)
  BY <1>13 DEF RollbackOnVmc
<1>14. CASE RollbackInstance(v)
  BY <1>14 DEF RollbackInstance
<1>15. CASE AttachDeschedule(v)
  BY <1>15 DEF AttachDeschedule
<1>16. CASE RollbackObject(v)
  BY <1>16 DEF RollbackObject
<1>17. CASE AttachUnpend(v)
  BY <1>17 DEF AttachUnpend
<1> QED
  BY <1>1, <1>2, <1>3, <1>4, <1>5, <1>6, <1>7, <1>8, <1>9, <1>10, <1>11, <1>12, <1>13, <1>14,
     <1>15, <1>16, <1>17 DEF objattach

\* One step of a vm-detach keeps the shape.
LEMMA DetachKeepsShape ==
  ASSUME Shape, NEW d \in Detach, objdetach(d)
  PROVE  Shape'
<1> USE VMAssumption DEF Shape, TypeOK, AttachShape, DetachShape, Arrived, Undoing, AttachPC,
        DetachPC, Status, DetachStatus, counters, attvars, detvars, Count, CountOn,
        CountScheduled, Report, Goto, Fail, DGoto, DFail
<1>1. CASE DetachBegin(d)
  BY <1>1 DEF DetachBegin, Busy
<1>2. CASE Release(d)
  BY <1>2 DEF Release
<1>3. CASE ReleaseOnVmc(d)
  BY <1>3 DEF ReleaseOnVmc
<1>4. CASE VmDestroy(d)
  BY <1>4 DEF VmDestroy
<1>5. CASE DestroyObject(d)
  BY <1>5 DEF DestroyObject
<1>6. CASE DetachDeschedule(d)
  BY <1>6 DEF DetachDeschedule
<1>7. CASE RollbackRelease(d)
  BY <1>7 DEF RollbackRelease
<1>8. CASE RollbackReleaseOnVmc(d)
  BY <1>8 DEF RollbackReleaseOnVmc
<1>9. CASE DetachUnpend(d)
  BY <1>9 DEF DetachUnpend
<1> QED
  BY <1>1, <1>2, <1>3, <1>4, <1>5, <1>6, <1>7, <1>8, <1>9 DEF objdetach, detach_rest

\* The shape is kept by every behaviour of the specification.
THEOREM ShapeHolds == Spec => []Shape
<1>1. Init => Shape
  BY VMAssumption DEF Init, Shape, TypeOK, AttachPC, DetachPC, Status, DetachStatus,
     AttachShape, DetachShape, Arrived, Undoing
<1>2. Shape /\ [Next]_vars => Shape'
  <2> SUFFICES ASSUME Shape, [Next]_vars PROVE Shape'
    OBVIOUS
  <2>1. CASE UNCHANGED vars
    BY <2>1 DEF vars, counters, attvars, detvars, Shape, TypeOK, AttachShape, DetachShape,
       Arrived
  <2> QED
    BY <2>1, AttachKeepsShape, DetachKeepsShape DEF Next
<1> QED
  BY <1>1, <1>2, PTL DEF Spec

\* The values of the variables stay in their ranges (objattach and objdetach).
THEOREM TypeCorrect == Spec => []TypeOK
<1>1. Shape => TypeOK
  BY DEF Shape
<1> QED
  BY <1>1, ShapeHolds, PTL

-----------------------------------------------------------------------------
(* The counters *)

CountedSet == {v \in VM : Counted(v)}
UncountedSet == {d \in Detach : Uncounted(d)}
CountedOnSet(m) == {v \in VM : CountedOn(v, m)}
UncountedOnSet(m) == {d \in Detach : UncountedOn(d, m)}
ScheduledSet(m) == {v \in VM : Scheduled(v, m)}
DescheduledSet(m) == {d \in Detach : Descheduled(d, m)}

\* What one element more or less does to a cardinality.
LEMMA OneMore == ASSUME NEW S, IsFiniteSet(S), NEW x, x \notin S
                 PROVE  Cardinality(S \cup {x}) = Cardinality(S) + 1
BY FS_AddElement, FS_CardinalityType

\* One taken out of a finite set.
LEMMA OneLess == ASSUME NEW S, IsFiniteSet(S), NEW x, x \in S
                 PROVE  Cardinality(S \ {x}) = Cardinality(S) - 1
BY FS_RemoveElement, FS_CardinalityType

\* The sets that are counted are finite.
LEMMA Finite ==
  /\ IsFiniteSet(CountedSet) /\ IsFiniteSet(OverLimit) /\ IsFiniteSet(UncountedSet)
  /\ \A m \in VMC : /\ IsFiniteSet(CountedOnSet(m)) /\ IsFiniteSet(UncountedOnSet(m))
                     /\ IsFiniteSet(ScheduledSet(m)) /\ IsFiniteSet(DescheduledSet(m))
<1>1. \A S : S \subseteq VM \/ S \subseteq Detach => IsFiniteSet(S)
  BY VMAssumption, FS_Subset
<1>2. CountedSet \subseteq VM /\ OverLimit \subseteq VM /\ UncountedSet \subseteq Detach
  BY DEF CountedSet, OverLimit, UncountedSet
<1>3. \A m \in VMC : /\ CountedOnSet(m) \subseteq VM /\ ScheduledSet(m) \subseteq VM
                     /\ UncountedOnSet(m) \subseteq Detach
                     /\ DescheduledSet(m) \subseteq Detach
  BY DEF CountedOnSet, ScheduledSet, UncountedOnSet, DescheduledSet
<1> QED
  BY <1>1, <1>2, <1>3

\* A vm-attach leaves the vm-detaches alone.
LEMMA AttachLeavesDetach ==
  ASSUME Shape, NEW v \in VM, objattach(v)
  PROVE  /\ UncountedSet' = UncountedSet
         /\ \A m \in VMC : /\ UncountedOnSet(m)' = UncountedOnSet(m)
                            /\ DescheduledSet(m)' = DescheduledSet(m)
<1>1. UNCHANGED detvars
  BY DEF objattach, Begin, PreAttach, Reserve, UndoReserve, ReserveOnVmc, VmCreate,
     CreateObject, PostAttach, RecreateDestroy, RecreateCreate, RecreateObject,
     RollbackReserve, RollbackOnVmc, RollbackInstance, AttachDeschedule, RollbackObject,
     AttachUnpend
<1>2. \A w \in VM : vmc[w] # None => vmc'[w] = vmc[w]
  BY DEF Shape, TypeOK, AttachShape, objattach, Begin, PreAttach, Reserve, UndoReserve,
     ReserveOnVmc, VmCreate, CreateObject, PostAttach, RecreateDestroy, RecreateCreate,
     RecreateObject, RollbackReserve, RollbackOnVmc, RollbackInstance, AttachDeschedule,
     RollbackObject, AttachUnpend, attvars
<1>3. \A d \in Detach : target[d] # None => vmc'[target[d]] = vmc[target[d]]
  BY <1>2 DEF Shape, DetachShape
<1> QED
  BY <1>1, <1>3 DEF UncountedSet, UncountedOnSet, DescheduledSet, Uncounted, UncountedOn,
     Descheduled, Departed, detvars

\* A vm-detach leaves the vm-attaches alone.
LEMMA DetachLeavesAttach ==
  ASSUME NEW d \in Detach, objdetach(d)
  PROVE  /\ UNCHANGED attvars
         /\ CountedSet' = CountedSet
         /\ OverLimit' = OverLimit
         /\ \A m \in VMC : /\ CountedOnSet(m)' = CountedOnSet(m)
                            /\ ScheduledSet(m)' = ScheduledSet(m)
<1>1. UNCHANGED attvars
  BY DEF objdetach, detach_rest, DetachBegin, Release, ReleaseOnVmc, VmDestroy, DestroyObject,
     DetachDeschedule, RollbackRelease, RollbackReleaseOnVmc, DetachUnpend
<1> QED
  BY <1>1 DEF CountedSet, OverLimit, CountedOnSet, ScheduledSet, Counted, CountedOn, Scheduled,
     Arrived, attvars

\* RESERVATIONS is incremented by Reserve, and decremented by UndoReserve and RollbackReserve.
LEMMA AttachKeepsReservations ==
  ASSUME Shape, ReservationsAddUp, NEW v \in VM, objattach(v)
  PROVE  ReservationsAddUp'
<1>1. UncountedSet' = UncountedSet
  BY AttachLeavesDetach
<1>2. /\ IsFiniteSet(CountedSet) /\ IsFiniteSet(OverLimit) /\ IsFiniteSet(UncountedSet)
      /\ Cardinality(CountedSet) \in Nat /\ Cardinality(OverLimit) \in Nat
      /\ Cardinality(UncountedSet) \in Nat
  BY Finite, FS_CardinalityType
<1>3. reservations = Cardinality(CountedSet) + Cardinality(OverLimit)
                       - Cardinality(UncountedSet)
  BY DEF ReservationsAddUp, CountedSet, UncountedSet
<1>4. SUFFICES reservations' = Cardinality(CountedSet') + Cardinality(OverLimit')
                                 - Cardinality(UncountedSet')
  BY DEF ReservationsAddUp, CountedSet, UncountedSet
<1>5. CASE Reserve(v)
  <2>1. /\ v \notin CountedSet /\ v \notin OverLimit
        /\ reservations' = reservations + 1
        /\ \/ CountedSet' = CountedSet \cup {v} /\ OverLimit' = OverLimit
           \/ CountedSet' = CountedSet /\ OverLimit' = OverLimit \cup {v}
    BY <1>5 DEF Reserve, Shape, TypeOK, AttachShape, Undoing, Counted, Arrived, CountedSet, OverLimit,
       Working, Count, Goto
  <2>2. /\ Cardinality(CountedSet \cup {v}) = Cardinality(CountedSet) + 1
        /\ Cardinality(OverLimit \cup {v}) = Cardinality(OverLimit) + 1
    BY <1>2, <2>1, OneMore
  <2>3. CASE CountedSet' = CountedSet \cup {v} /\ OverLimit' = OverLimit
    BY <1>1, <1>2, <1>3, <2>1, <2>2, <2>3
  <2>4. CASE CountedSet' = CountedSet /\ OverLimit' = OverLimit \cup {v}
    BY <1>1, <1>2, <1>3, <2>1, <2>2, <2>4
  <2> QED
    BY <2>1, <2>3, <2>4
<1>6. CASE UndoReserve(v)
  <2>1. /\ v \in OverLimit
        /\ reservations' = reservations - 1
        /\ CountedSet' = CountedSet /\ OverLimit' = OverLimit \ {v}
    BY <1>6 DEF UndoReserve, Shape, TypeOK, AttachShape, Undoing, Counted, Arrived,
       CountedSet, OverLimit, Working, Count, Goto, Fail
  <2>2. Cardinality(OverLimit \ {v}) = Cardinality(OverLimit) - 1
    BY <1>2, <2>1, OneLess
  <2> QED
    BY <1>1, <1>2, <1>3, <2>1, <2>2
<1>7. CASE RollbackReserve(v)
  <2>1. /\ v \in CountedSet
        /\ reservations' = reservations - 1
        /\ CountedSet' = CountedSet \ {v} /\ OverLimit' = OverLimit
    BY <1>7 DEF RollbackReserve, Shape, TypeOK, AttachShape, Undoing, Counted, Arrived,
       CountedSet, OverLimit, Working, Count, Goto
  <2>2. Cardinality(CountedSet \ {v}) = Cardinality(CountedSet) - 1
    BY <1>2, <2>1, OneLess
  <2> QED
    BY <1>1, <1>2, <1>3, <2>1, <2>2
<1>8. CASE \/ Begin(v) \/ PreAttach(v) \/ ReserveOnVmc(v) \/ VmCreate(v) \/ CreateObject(v)
           \/ PostAttach(v) \/ RecreateDestroy(v) \/ RecreateCreate(v) \/ RecreateObject(v)
           \/ RollbackOnVmc(v) \/ RollbackInstance(v) \/ AttachDeschedule(v)
           \/ RollbackObject(v) \/ AttachUnpend(v)
  <2>1. reservations' = reservations /\ CountedSet' = CountedSet /\ OverLimit' = OverLimit
    BY <1>8 DEF Begin, PreAttach, ReserveOnVmc, VmCreate, Create, CreateObject, PostAttach,
       RecreateDestroy, RecreateCreate, RecreateObject, TriesLeft, RollbackOnVmc, RollbackInstance,
       AttachDeschedule, RollbackObject, AttachUnpend, Shape, TypeOK, AttachShape, Undoing,
       Counted, Arrived, CountedSet, OverLimit, Working, counters, Goto, Fail
  <2> QED
    BY <1>1, <1>3, <2>1
<1> QED
  BY <1>5, <1>6, <1>7, <1>8 DEF objattach

\* nr_vms is incremented by ReserveOnVmc and decremented by RollbackOnVmc; scheduled_vms is
\* incremented by PreAttach and decremented by AttachDeschedule.
LEMMA AttachKeepsVmcCounters ==
  ASSUME Shape, VmcCountersAddUp, NEW v \in VM, objattach(v), NEW m \in VMC
  PROVE  /\ nr_vms'[m] = Cardinality(CountedOnSet(m)') - Cardinality(UncountedOnSet(m)')
         /\ scheduled_vms'[m] = Cardinality(ScheduledSet(m)') - Cardinality(DescheduledSet(m)')
<1>1. UncountedOnSet(m)' = UncountedOnSet(m) /\ DescheduledSet(m)' = DescheduledSet(m)
  BY AttachLeavesDetach
<1>2. /\ IsFiniteSet(CountedOnSet(m)) /\ Cardinality(CountedOnSet(m)) \in Nat
      /\ IsFiniteSet(ScheduledSet(m)) /\ Cardinality(ScheduledSet(m)) \in Nat
      /\ Cardinality(UncountedOnSet(m)) \in Nat /\ Cardinality(DescheduledSet(m)) \in Nat
  BY Finite, FS_CardinalityType
<1>3. /\ nr_vms[m] = Cardinality(CountedOnSet(m)) - Cardinality(UncountedOnSet(m))
      /\ scheduled_vms[m] = Cardinality(ScheduledSet(m)) - Cardinality(DescheduledSet(m))
  BY DEF VmcCountersAddUp, CountedOnSet, UncountedOnSet, ScheduledSet, DescheduledSet
<1>4. /\ \/ nr_vms'[m] = nr_vms[m] /\ CountedOnSet(m)' = CountedOnSet(m)
         \/ /\ nr_vms'[m] = nr_vms[m] + 1
            /\ v \notin CountedOnSet(m) /\ CountedOnSet(m)' = CountedOnSet(m) \cup {v}
         \/ /\ nr_vms'[m] = nr_vms[m] - 1
            /\ v \in CountedOnSet(m) /\ CountedOnSet(m)' = CountedOnSet(m) \ {v}
      /\ \/ scheduled_vms'[m] = scheduled_vms[m] /\ ScheduledSet(m)' = ScheduledSet(m)
         \/ /\ scheduled_vms'[m] = scheduled_vms[m] + 1
            /\ v \notin ScheduledSet(m) /\ ScheduledSet(m)' = ScheduledSet(m) \cup {v}
         \/ /\ scheduled_vms'[m] = scheduled_vms[m] - 1
            /\ v \in ScheduledSet(m) /\ ScheduledSet(m)' = ScheduledSet(m) \ {v}
  <2> USE VMAssumption
      DEF Shape, TypeOK, AttachShape, Undoing, CountedOn, Scheduled, Arrived, CountedOnSet,
          ScheduledSet, Working, counters, attvars, Count, CountOn, CountScheduled, Goto, Fail
  <2>1. CASE PreAttach(v)
    BY <2>1 DEF PreAttach
  <2>2. CASE ReserveOnVmc(v)
    BY <2>2 DEF ReserveOnVmc
  <2>3. CASE RollbackOnVmc(v)
    BY <2>3 DEF RollbackOnVmc
  <2>4. CASE AttachDeschedule(v)
    BY <2>4 DEF AttachDeschedule
  <2>5. CASE \/ Begin(v) \/ Reserve(v) \/ UndoReserve(v) \/ VmCreate(v) \/ CreateObject(v)
             \/ PostAttach(v) \/ RecreateDestroy(v) \/ RecreateCreate(v) \/ RecreateObject(v)
             \/ RollbackReserve(v) \/ RollbackInstance(v) \/ RollbackObject(v)
             \/ AttachUnpend(v)
    BY <2>5 DEF Begin, Reserve, UndoReserve, VmCreate, Create, CreateObject, PostAttach,
       RecreateDestroy, RecreateCreate, RecreateObject, RollbackReserve, RollbackInstance,
       RollbackObject, AttachUnpend
  <2> QED
    BY <2>1, <2>2, <2>3, <2>4, <2>5 DEF objattach
<1>5. /\ v \notin CountedOnSet(m)
           => Cardinality(CountedOnSet(m) \cup {v}) = Cardinality(CountedOnSet(m)) + 1
      /\ v \in CountedOnSet(m)
           => Cardinality(CountedOnSet(m) \ {v}) = Cardinality(CountedOnSet(m)) - 1
      /\ v \notin ScheduledSet(m)
           => Cardinality(ScheduledSet(m) \cup {v}) = Cardinality(ScheduledSet(m)) + 1
      /\ v \in ScheduledSet(m)
           => Cardinality(ScheduledSet(m) \ {v}) = Cardinality(ScheduledSet(m)) - 1
  BY <1>2, OneMore, OneLess
<1>6. nr_vms'[m] = Cardinality(CountedOnSet(m)') - Cardinality(UncountedOnSet(m)')
  <2>1. CASE CountedOnSet(m)' = CountedOnSet(m) /\ nr_vms'[m] = nr_vms[m]
    BY <1>1, <1>3, <2>1
  <2>2. CASE /\ v \notin CountedOnSet(m) /\ CountedOnSet(m)' = CountedOnSet(m) \cup {v}
             /\ nr_vms'[m] = nr_vms[m] + 1
    BY <1>1, <1>2, <1>3, <1>5, <2>2
  <2>3. CASE /\ v \in CountedOnSet(m) /\ CountedOnSet(m)' = CountedOnSet(m) \ {v}
             /\ nr_vms'[m] = nr_vms[m] - 1
    BY <1>1, <1>2, <1>3, <1>5, <2>3
  <2> QED
    BY <1>4, <2>1, <2>2, <2>3
<1>7. scheduled_vms'[m] = Cardinality(ScheduledSet(m)') - Cardinality(DescheduledSet(m)')
  <2>1. CASE ScheduledSet(m)' = ScheduledSet(m) /\ scheduled_vms'[m] = scheduled_vms[m]
    BY <1>1, <1>3, <2>1
  <2>2. CASE /\ v \notin ScheduledSet(m) /\ ScheduledSet(m)' = ScheduledSet(m) \cup {v}
             /\ scheduled_vms'[m] = scheduled_vms[m] + 1
    BY <1>1, <1>2, <1>3, <1>5, <2>2
  <2>3. CASE /\ v \in ScheduledSet(m) /\ ScheduledSet(m)' = ScheduledSet(m) \ {v}
             /\ scheduled_vms'[m] = scheduled_vms[m] - 1
    BY <1>1, <1>2, <1>3, <1>5, <2>3
  <2> QED
    BY <1>4, <2>1, <2>2, <2>3
<1> QED
  BY <1>6, <1>7

\* RESERVATIONS is decremented by Release and incremented by RollbackRelease.
LEMMA DetachKeepsReservations ==
  ASSUME Shape, ReservationsAddUp, NEW d \in Detach, objdetach(d)
  PROVE  ReservationsAddUp'
<1>1. CountedSet' = CountedSet /\ OverLimit' = OverLimit
  BY DetachLeavesAttach
<1>2. /\ IsFiniteSet(UncountedSet) /\ Cardinality(CountedSet) \in Nat
      /\ Cardinality(OverLimit) \in Nat /\ Cardinality(UncountedSet) \in Nat
  BY Finite, FS_CardinalityType
<1>3. reservations = Cardinality(CountedSet) + Cardinality(OverLimit)
                       - Cardinality(UncountedSet)
  BY DEF ReservationsAddUp, CountedSet, UncountedSet
<1>4. SUFFICES reservations' = Cardinality(CountedSet') + Cardinality(OverLimit')
                                 - Cardinality(UncountedSet')
  BY DEF ReservationsAddUp, CountedSet, UncountedSet
<1> USE DEF Shape, TypeOK, DetachShape, Uncounted, Departed, UncountedSet, counters, detvars,
        Count, DGoto, DFail
<1>5. CASE Release(d)
  <2>1. /\ reservations' = reservations - 1
        /\ d \notin UncountedSet /\ UncountedSet' = UncountedSet \cup {d}
    BY <1>5 DEF Release
  <2> HIDE DEF UncountedSet
  <2>2. Cardinality(UncountedSet \cup {d}) = Cardinality(UncountedSet) + 1
    BY <1>2, <2>1, OneMore
  <2> QED
    BY <1>1, <1>2, <1>3, <2>1, <2>2
<1>6. CASE RollbackRelease(d)
  <2>1. /\ reservations' = reservations + 1
        /\ d \in UncountedSet /\ UncountedSet' = UncountedSet \ {d}
    BY <1>6 DEF RollbackRelease
  <2> HIDE DEF UncountedSet
  <2>2. Cardinality(UncountedSet \ {d}) = Cardinality(UncountedSet) - 1
    BY <1>2, <2>1, OneLess
  <2> QED
    BY <1>1, <1>2, <1>3, <2>1, <2>2
<1>7. CASE \/ DetachBegin(d) \/ ReleaseOnVmc(d) \/ VmDestroy(d) \/ DestroyObject(d)
           \/ DetachDeschedule(d) \/ RollbackReleaseOnVmc(d) \/ DetachUnpend(d)
  <2>1. reservations' = reservations /\ UncountedSet' = UncountedSet
    BY <1>7 DEF DetachBegin, ReleaseOnVmc, VmDestroy, DestroyObject, DetachDeschedule,
       RollbackReleaseOnVmc, DetachUnpend
  <2> QED
    BY <1>1, <1>3, <2>1
<1> QED
  BY <1>5, <1>6, <1>7 DEF objdetach, detach_rest

\* nr_vms is decremented by ReleaseOnVmc and incremented by RollbackReleaseOnVmc;
\* scheduled_vms is decremented by DetachDeschedule.
LEMMA DetachKeepsVmcCounters ==
  ASSUME Shape, VmcCountersAddUp, NEW d \in Detach, objdetach(d), NEW m \in VMC
  PROVE  /\ nr_vms'[m] = Cardinality(CountedOnSet(m)') - Cardinality(UncountedOnSet(m)')
         /\ scheduled_vms'[m] = Cardinality(ScheduledSet(m)') - Cardinality(DescheduledSet(m)')
<1>1. CountedOnSet(m)' = CountedOnSet(m) /\ ScheduledSet(m)' = ScheduledSet(m)
  BY DetachLeavesAttach
<1>2. /\ IsFiniteSet(UncountedOnSet(m)) /\ Cardinality(UncountedOnSet(m)) \in Nat
      /\ IsFiniteSet(DescheduledSet(m)) /\ Cardinality(DescheduledSet(m)) \in Nat
      /\ Cardinality(CountedOnSet(m)) \in Nat /\ Cardinality(ScheduledSet(m)) \in Nat
  BY Finite, FS_CardinalityType
<1>3. /\ nr_vms[m] = Cardinality(CountedOnSet(m)) - Cardinality(UncountedOnSet(m))
      /\ scheduled_vms[m] = Cardinality(ScheduledSet(m)) - Cardinality(DescheduledSet(m))
  BY DEF VmcCountersAddUp, CountedOnSet, UncountedOnSet, ScheduledSet, DescheduledSet
<1>4. /\ \/ nr_vms'[m] = nr_vms[m] /\ UncountedOnSet(m)' = UncountedOnSet(m)
         \/ /\ nr_vms'[m] = nr_vms[m] - 1
            /\ d \notin UncountedOnSet(m) /\ UncountedOnSet(m)' = UncountedOnSet(m) \cup {d}
         \/ /\ nr_vms'[m] = nr_vms[m] + 1
            /\ d \in UncountedOnSet(m) /\ UncountedOnSet(m)' = UncountedOnSet(m) \ {d}
      /\ \/ scheduled_vms'[m] = scheduled_vms[m] /\ DescheduledSet(m)' = DescheduledSet(m)
         \/ /\ scheduled_vms'[m] = scheduled_vms[m] - 1
            /\ d \notin DescheduledSet(m) /\ DescheduledSet(m)' = DescheduledSet(m) \cup {d}
  <2> USE VMAssumption
      DEF Shape, TypeOK, DetachShape, UncountedOn, Descheduled, Departed, UncountedOnSet,
          DescheduledSet, counters, attvars, detvars, Count, CountOn, CountScheduled, DGoto, DFail
  <2>1. CASE ReleaseOnVmc(d)
    BY <2>1 DEF ReleaseOnVmc
  <2>2. CASE RollbackReleaseOnVmc(d)
    BY <2>2 DEF RollbackReleaseOnVmc
  <2>3. CASE DetachDeschedule(d)
    BY <2>3 DEF DetachDeschedule
  <2>4. CASE \/ DetachBegin(d) \/ Release(d) \/ VmDestroy(d) \/ DestroyObject(d)
             \/ RollbackRelease(d) \/ DetachUnpend(d)
    BY <2>4 DEF DetachBegin, Release, VmDestroy, DestroyObject, RollbackRelease, DetachUnpend
  <2> QED
    BY <2>1, <2>2, <2>3, <2>4 DEF objdetach, detach_rest
<1>5. /\ d \notin UncountedOnSet(m)
           => Cardinality(UncountedOnSet(m) \cup {d}) = Cardinality(UncountedOnSet(m)) + 1
      /\ d \in UncountedOnSet(m)
           => Cardinality(UncountedOnSet(m) \ {d}) = Cardinality(UncountedOnSet(m)) - 1
      /\ d \notin DescheduledSet(m)
           => Cardinality(DescheduledSet(m) \cup {d}) = Cardinality(DescheduledSet(m)) + 1
  BY <1>2, OneMore, OneLess
<1>6. nr_vms'[m] = Cardinality(CountedOnSet(m)') - Cardinality(UncountedOnSet(m)')
  <2>1. CASE UncountedOnSet(m)' = UncountedOnSet(m) /\ nr_vms'[m] = nr_vms[m]
    BY <1>1, <1>3, <2>1
  <2>2. CASE /\ d \notin UncountedOnSet(m) /\ UncountedOnSet(m)' = UncountedOnSet(m) \cup {d}
             /\ nr_vms'[m] = nr_vms[m] - 1
    BY <1>1, <1>2, <1>3, <1>5, <2>2
  <2>3. CASE /\ d \in UncountedOnSet(m) /\ UncountedOnSet(m)' = UncountedOnSet(m) \ {d}
             /\ nr_vms'[m] = nr_vms[m] + 1
    BY <1>1, <1>2, <1>3, <1>5, <2>3
  <2> QED
    BY <1>4, <2>1, <2>2, <2>3
<1>7. scheduled_vms'[m] = Cardinality(ScheduledSet(m)') - Cardinality(DescheduledSet(m)')
  <2>1. CASE DescheduledSet(m)' = DescheduledSet(m) /\ scheduled_vms'[m] = scheduled_vms[m]
    BY <1>1, <1>3, <2>1
  <2>2. CASE /\ d \notin DescheduledSet(m) /\ DescheduledSet(m)' = DescheduledSet(m) \cup {d}
             /\ scheduled_vms'[m] = scheduled_vms[m] - 1
    BY <1>1, <1>2, <1>3, <1>5, <2>2
  <2> QED
    BY <1>4, <2>1, <2>2
<1> QED
  BY <1>6, <1>7

\* The counters start right and every step keeps them right.
LEMMA CountsInductive ==
  /\ Init => ReservationsAddUp /\ VmcCountersAddUp
  /\ Shape /\ ReservationsAddUp /\ VmcCountersAddUp /\ [Next]_vars
       => ReservationsAddUp' /\ VmcCountersAddUp'
<1>1. ASSUME Init PROVE ReservationsAddUp /\ VmcCountersAddUp
  <2> USE <1>1, VMAssumption DEF Init, Arrived, Departed
  <2>1. Cardinality({}) = 0
    BY FS_EmptySet
  <2>2. ReservationsAddUp
    <3>1. CountedSet = {} /\ OverLimit = {} /\ UncountedSet = {}
      BY DEF CountedSet, Counted, Working, OverLimit, UncountedSet, Uncounted
    <3>2. Cardinality(CountedSet) + Cardinality(OverLimit) - Cardinality(UncountedSet) = 0
      BY <2>1, <3>1
    <3> QED
      BY <3>2 DEF ReservationsAddUp, CountedSet, UncountedSet
  <2>3. ASSUME NEW m \in VMC
        PROVE  /\ nr_vms[m] = Cardinality(CountedOnSet(m)) - Cardinality(UncountedOnSet(m))
               /\ scheduled_vms[m] = Cardinality(ScheduledSet(m)) - Cardinality(DescheduledSet(m))
    <3>1. /\ CountedOnSet(m) = {} /\ UncountedOnSet(m) = {}
          /\ ScheduledSet(m) = {} /\ DescheduledSet(m) = {}
      BY <2>3 DEF CountedOnSet, CountedOn, UncountedOnSet, UncountedOn, ScheduledSet, Scheduled,
         DescheduledSet, Descheduled
    <3> QED
      BY <2>1, <2>3, <3>1
  <2> QED
    BY <2>2, <2>3
    DEF VmcCountersAddUp, CountedOnSet, UncountedOnSet, ScheduledSet, DescheduledSet
<1>2. ASSUME Shape, ReservationsAddUp, VmcCountersAddUp, [Next]_vars
      PROVE  ReservationsAddUp' /\ VmcCountersAddUp'
  <2>1. ASSUME NEW v \in VM, objattach(v) PROVE ReservationsAddUp' /\ VmcCountersAddUp'
    BY <1>2, <2>1, AttachKeepsReservations, AttachKeepsVmcCounters
    DEF VmcCountersAddUp, CountedOnSet, UncountedOnSet, ScheduledSet, DescheduledSet
  <2>2. ASSUME NEW d \in Detach, objdetach(d) PROVE ReservationsAddUp' /\ VmcCountersAddUp'
    BY <1>2, <2>2, DetachKeepsReservations, DetachKeepsVmcCounters
    DEF VmcCountersAddUp, CountedOnSet, UncountedOnSet, ScheduledSet, DescheduledSet
  <2>3. CASE UNCHANGED vars
    <3>1. /\ \A v \in VM : Counted(v)' <=> Counted(v)
          /\ \A d \in Detach : Uncounted(d)' <=> Uncounted(d)
          /\ OverLimit' = OverLimit
      BY <2>3 DEF vars, attvars, detvars, Counted, Working, OverLimit, Uncounted, Arrived, Departed
    <3>2. ReservationsAddUp'
      <4>1. /\ {v \in VM : Counted(v)}' = {v \in VM : Counted(v)}
            /\ {d \in Detach : Uncounted(d)}' = {d \in Detach : Uncounted(d)}
        BY <3>1
      <4>2. reservations' = reservations
        BY <2>3 DEF vars, counters
      <4> QED
        BY <1>2, <3>1, <4>1, <4>2 DEF ReservationsAddUp
    <3>3. VmcCountersAddUp'
      BY <1>2, <2>3 DEF vars, counters, attvars, detvars, VmcCountersAddUp, CountedOn,
         UncountedOn, Scheduled, Descheduled, Arrived, Departed
    <3> QED
      BY <3>2, <3>3
  <2> QED
    BY <1>2, <2>1, <2>2, <2>3 DEF Next
<1> QED
  BY <1>1, <1>2

\* The counter RESERVATIONS is at any time the number of vm-attaches that hold a reservation
\* less that of the vm-detaches that gave one up, however the operations interleave.
THEOREM ReservationsAlwaysAddUp == Spec => []ReservationsAddUp
<1> QED
  BY CountsInductive, ShapeHolds, PTL DEF Spec

\* The same of the counters nr_vms and scheduled_vms of each VMC.
THEOREM VmcCountersAlwaysAddUp == Spec => []VmcCountersAddUp
<1> QED
  BY CountsInductive, ShapeHolds, PTL DEF Spec
==============================================================================
