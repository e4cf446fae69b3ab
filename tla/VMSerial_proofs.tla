--------------------------- MODULE VMSerial_proofs ---------------------------
(***************************************************************************)
(* VMs that are attached and detached by one operation at a time, with a   *)
(* placement lock that is always had: the admission control implements a   *)
(* pool of slots, for any number of VMs and detaches and any limits.       *)
(***************************************************************************)
EXTENDS VMLifecycle_proofs

\* The vm-detach is at work.
Active(d) == det[d] \notin {"idle", "over"}

\* The vm-detach destroyed the object.
Gone(d) == det[d] = "deschedule" \/ dstatus[d] \in {"locked_out", "still_listed"} \/ Departed(d)

\* A vm-detach works on a VM that arrived; it finds the object and removes it.
DetachAlone(d) ==
    /\ det[d] # "idle" => att[target[d]] = "over" /\ status[target[d]] = "ok"
    /\ Active(d) /\ ~Gone(d) => target[d] \in objects
    /\ Gone(d) => target[d] \notin objects
    /\ Gone(d) \/ det[d] = "destroy_object" => target[d] \notin instances

\* Two vm-detaches at work, or two that destroyed the object, are about two VMs.
DetachesApart(d, e) ==
    d # e /\ target[d] = target[e] => ~(Active(d) /\ Active(e)) /\ ~(Gone(d) /\ Gone(e))

\* What a vm-attach made.
AttachAlone(v) ==
    /\ att[v] # "stuck"
    /\ status[v] # "ok" /\ att[v] \in {"unpend", "over"} => v \notin objects
    /\ v \in objects => "created_object" \in done[v]
    /\ att[v] \in {"idle", "pre_attach_vm", "reserve", "over_limit", "reserve_on_vmc", "vmcreate",
                  "create_object", "recreate_destroy", "recreate_create", "recreate_object"}
           => v \notin objects
    /\ att[v] = "post_attach_vm" \/ (att[v] = "unpend" /\ status[v] = "ok") => v \in objects
    /\ v \in instances => att[v] \notin {"idle", "pre_attach_vm", "reserve", "over_limit",
                                         "reserve_on_vmc"}
    /\ v \in instances /\ status[v] = "ok" /\ att[v] = "over" => v \in objects

Alone == /\ \A v \in VM : AttachAlone(v)
         /\ \A d \in Detach : DetachAlone(d)
         /\ \A d, e \in Detach : DetachesApart(d, e)

\* A vm-attach at work keeps to itself.
LEMMA AttachKeepsAlone ==
  ASSUME ~LockFails, Shape, Alone, NEW v \in VM, objattach(v)
  PROVE  Alone'
<1>1. UNCHANGED detvars
  BY DEF objattach, Begin, PreAttach, Reserve, UndoReserve, ReserveOnVmc, VmCreate, Create,
     CreateObject, PostAttach, RecreateDestroy, RecreateCreate, RecreateObject,
     RollbackReserve, RollbackOnVmc, RollbackInstance, AttachDeschedule, RollbackObject,
     AttachUnpend
<1>2. /\ att[v] # "over"
      /\ \A w \in VM \ {v} : /\ att'[w] = att[w] /\ status'[w] = status[w] /\ done'[w] = done[w]
                             /\ w \in objects' <=> w \in objects
                             /\ w \in instances' <=> w \in instances
  BY DEF objattach, Begin, PreAttach, Reserve, UndoReserve, ReserveOnVmc, VmCreate, Create,
     CreateObject, PostAttach, RecreateDestroy, RecreateCreate, RecreateObject,
     RollbackReserve, RollbackOnVmc, RollbackInstance, AttachDeschedule, RollbackObject,
     AttachUnpend, Goto, Fail, attvars, Shape, TypeOK
<1>3. \A d \in Detach : Gone(d) => det[d] # "idle"
  BY DEF Gone, Departed, Shape, DetachShape
<1>4. \A d \in Detach : det[d] # "idle" => target[d] \in VM \ {v}
  BY <1>2 DEF Alone, DetachAlone, Shape, DetachShape
<1>5. ASSUME NEW d \in Detach PROVE DetachAlone(d)'
  BY <1>1, <1>2, <1>3, <1>4 DEF Alone, DetachAlone, Active, Gone, Departed, detvars
<1>6. ASSUME NEW d \in Detach, NEW e \in Detach PROVE DetachesApart(d, e)'
  BY <1>1 DEF Alone, DetachesApart, Active, Gone, Departed, detvars
<1>7. AttachAlone(v)'
  <2> USE DEF Alone, AttachAlone, Shape, TypeOK, AttachShape, Undoing, Goto, Fail, attvars
  <2>1. CASE Begin(v) \/ PreAttach(v) \/ Reserve(v) \/ UndoReserve(v) \/ ReserveOnVmc(v)
    BY <2>1 DEF Begin, PreAttach, Reserve, UndoReserve, ReserveOnVmc
  <2>2. CASE VmCreate(v) \/ CreateObject(v)
    BY <2>2 DEF VmCreate, Create, CreateObject
  <2>3. CASE PostAttach(v)
    BY <2>3 DEF PostAttach
  <2>4. CASE RecreateDestroy(v) \/ RecreateCreate(v) \/ RecreateObject(v)
    BY <2>4 DEF RecreateDestroy, RecreateCreate, Create, RecreateObject
  <2>5. CASE RollbackReserve(v) \/ RollbackOnVmc(v) \/ RollbackInstance(v)
    BY <2>5 DEF RollbackReserve, RollbackOnVmc, RollbackInstance
  <2>6. CASE AttachDeschedule(v) \/ RollbackObject(v) \/ AttachUnpend(v)
    BY <2>6 DEF AttachDeschedule, RollbackObject, AttachUnpend
  <2> QED
    BY <2>1, <2>2, <2>3, <2>4, <2>5, <2>6 DEF objattach
<1>8. ASSUME NEW w \in VM \ {v} PROVE AttachAlone(w)'
  BY <1>2 DEF Alone, AttachAlone
<1> QED
  BY <1>5, <1>6, <1>7, <1>8 DEF Alone

\* So does a vm-detach that begins only when no other operation is at work on its VM.
LEMMA DetachKeepsAlone ==
  ASSUME ~Overlap, Shape, Alone, NEW d \in Detach, objdetach(d)
  PROVE  Alone'
<1>1. UNCHANGED attvars /\ instances' \subseteq instances
  BY DetachLeavesAttach
  DEF objdetach, detach_rest, DetachBegin, Release, ReleaseOnVmc, VmDestroy, DestroyObject,
     DetachDeschedule, RollbackRelease, RollbackReleaseOnVmc, DetachUnpend
<1>2. \A e \in Detach \ {d} : det'[e] = det[e] /\ target'[e] = target[e] /\ dstatus'[e] = dstatus[e]
  BY DEF objdetach, detach_rest, DetachBegin, Release, ReleaseOnVmc, VmDestroy, DestroyObject,
     DetachDeschedule, RollbackRelease, RollbackReleaseOnVmc, DetachUnpend, DGoto, DFail,
     detvars, Shape, TypeOK
<1>3. CASE DetachBegin(d)
  <2>1. PICK v \in objects : ~Busy(v) /\ target' = [target EXCEPT ![d] = v]
    BY <1>3 DEF DetachBegin
  <2>2. /\ v \in VM /\ att[v] = "over" /\ status[v] = "ok"
        /\ \A e \in Detach : target[e] = v => ~Active(e) /\ ~Gone(e)
    <3>1. v \in VM /\ vmc[v] # None
      BY <2>1 DEF Shape, TypeOK, AttachShape
    <3>2. att[v] = "over" /\ status[v] = "ok"
      BY <2>1, <3>1 DEF Busy, Shape, TypeOK, AttachShape, Alone, AttachAlone, Status
    <3>3. \A e \in Detach : target[e] = v => ~Active(e)
      BY <2>1 DEF Busy, Active
    <3>4. \A e \in Detach : target[e] = v => ~Gone(e)
      BY <2>1 DEF Alone, DetachAlone
    <3> QED
      BY <3>1, <3>2, <3>3, <3>4
  <2>3. /\ det'[d] = "release" /\ target'[d] = v /\ dstatus'[d] = "ok" /\ det[d] = "idle"
        /\ objects' = objects /\ instances' = instances
    BY <1>3, <2>1 DEF DetachBegin, DGoto, Shape, TypeOK, DetachShape, DetachStatus
  <2>4. ASSUME NEW e \in Detach PROVE DetachAlone(e)'
    BY <1>1, <1>2, <2>1, <2>2, <2>3 DEF Alone, DetachAlone, Active, Gone, Departed, attvars
  <2>5. ASSUME NEW e \in Detach, NEW f \in Detach PROVE DetachesApart(e, f)'
    BY <1>2, <2>2, <2>3 DEF Alone, DetachesApart, Active, Gone, Departed
  <2>6. ASSUME NEW w \in VM PROVE AttachAlone(w)'
    BY <1>1, <2>3 DEF Alone, AttachAlone, attvars
  <2> QED
    BY <2>4, <2>5, <2>6 DEF Alone
<1>4. CASE DestroyObject(d)
  <2>1. /\ det[d] = "destroy_object" /\ det'[d] = "deschedule" /\ target'[d] = target[d]
        /\ dstatus'[d] = dstatus[d] /\ dstatus[d] = "ok" /\ target[d] \in VM
        /\ objects' = objects \ {target[d]} /\ instances' = instances
    BY <1>4 DEF DestroyObject, DGoto, Shape, TypeOK, DetachShape
  <2>2. /\ target[d] \in objects /\ target[d] \notin instances
        /\ att[target[d]] = "over" /\ status[target[d]] = "ok"
    BY <2>1 DEF Alone, DetachAlone, Active, Gone, Departed
  <2>3. \A e \in Detach \ {d} : target[e] = target[d] => ~Active(e) /\ ~Gone(e)
    BY <2>1, <2>2 DEF Alone, DetachAlone, DetachesApart, Active
  <2>4. ASSUME NEW e \in Detach PROVE DetachAlone(e)'
    BY <1>1, <1>2, <2>1, <2>2, <2>3 DEF Alone, DetachAlone, Active, Gone, Departed, attvars
  <2>5. ASSUME NEW e \in Detach, NEW f \in Detach PROVE DetachesApart(e, f)'
    BY <1>2, <2>1, <2>3 DEF Alone, DetachesApart, Active, Gone, Departed
  <2>6. ASSUME NEW w \in VM PROVE AttachAlone(w)'
    BY <1>1, <2>1, <2>2 DEF Alone, AttachAlone, attvars
  <2> QED
    BY <2>4, <2>5, <2>6 DEF Alone
<1>5. CASE \/ Release(d) \/ ReleaseOnVmc(d) \/ VmDestroy(d) \/ DetachDeschedule(d)
           \/ RollbackRelease(d) \/ RollbackReleaseOnVmc(d) \/ DetachUnpend(d)
  <2>1. /\ Active(d) /\ target' = target /\ objects' = objects
        /\ Gone(d)' <=> Gone(d)
        /\ \/ instances' = instances /\ det'[d] # "destroy_object"
           \/ instances' = instances \ {target[d]} /\ det[d] = "vmdestroy"
        /\ det'[d] # "idle"
    BY <1>5 DEF Release, ReleaseOnVmc, VmDestroy, DetachDeschedule, RollbackRelease,
       RollbackReleaseOnVmc, DetachUnpend, DGoto, DFail, Active, Gone, Departed, Shape, TypeOK,
       DetachShape
  <2>2. ASSUME NEW e \in Detach \ {d} PROVE (Active(e)' <=> Active(e)) /\ (Gone(e)' <=> Gone(e))
    BY <1>2 DEF Active, Gone, Departed
  <2>3. ASSUME NEW e \in Detach PROVE DetachAlone(e)'
    BY <1>1, <1>2, <2>1, <2>2 DEF Alone, DetachAlone, Active, attvars
  <2>4. ASSUME NEW e \in Detach, NEW f \in Detach PROVE DetachesApart(e, f)'
    BY <2>1, <2>2 DEF Alone, DetachesApart
  <2>5. ASSUME NEW w \in VM PROVE AttachAlone(w)'
    BY <1>1, <2>1 DEF Alone, AttachAlone, attvars
  <2> QED
    BY <2>3, <2>4, <2>5 DEF Alone
<1> QED
  BY <1>3, <1>4, <1>5 DEF objdetach, detach_rest

\* Operations on one VM stay apart in every behaviour.
LEMMA AloneHolds == ASSUME ~Overlap, ~LockFails PROVE Spec => []Alone
<1>1. Init => Alone
  BY DEF Init, Alone, AttachAlone, DetachAlone, DetachesApart, Active, Gone, Departed
<1>2. Shape /\ Alone /\ [Next]_vars => Alone'
  <2> SUFFICES ASSUME Shape, Alone, [Next]_vars PROVE Alone'
    OBVIOUS
  <2>1. CASE UNCHANGED vars
    BY <2>1 DEF vars, attvars, detvars, Alone, AttachAlone, DetachAlone, DetachesApart, Active,
       Gone, Departed
  <2> QED
    BY <2>1, AttachKeepsAlone, DetachKeepsAlone DEF Next
<1> QED
  BY <1>1, <1>2, ShapeHolds, PTL DEF Spec

\* An instance of a VM that arrived is never left without its object.
THEOREM NoOrphans == ASSUME ~Overlap, ~LockFails PROVE Spec => []NoOrphanInstance
<1>1. Shape /\ Alone => NoOrphanInstance
  BY DEF Shape, TypeOK, Alone, AttachAlone, NoOrphanInstance
<1> QED
  BY <1>1, AloneHolds, ShapeHolds, PTL

-----------------------------------------------------------------------------
(* The slots *)

\* A vm-detach at work that gave its slot up.
Holding(d) == Uncounted(d) /\ ~Departed(d)

\* What belongs to one VM has one owner.
Owners ==
    /\ taken = {v \in VM : Counted(v) /\ \A d \in Detach : Uncounted(d) => target[d] # v}
    /\ given = {v \in VM : \E d \in Detach : Holding(d) /\ target[d] = v}
    /\ \A d, e \in Detach : Uncounted(d) /\ Uncounted(e) /\ target[d] = target[e] => d = e
    /\ \A d \in Detach : det[d] # "idle" => target[d] \in VM /\ Counted(target[d])
    /\ \A d \in Detach : det[d] = "release" \/ det[d] = "rollback_on_vmc"
          => \A e \in Detach : Uncounted(e) => target[e] # target[d]

\* The slots belong to VMs that arrive or have arrived, and a vm-detach gives up one.
LEMMA SlotFacts == Shape /\ Alone => Owners
<1> SUFFICES ASSUME Shape, Alone PROVE Owners
  OBVIOUS
<1>1. \A d \in Detach : Uncounted(d) => det[d] # "idle" /\ (Active(d) \/ Gone(d))
  BY DEF Uncounted, Departed, Active, Gone
<1>2. \A d \in Detach : det[d] # "idle" => target[d] \in VM /\ Counted(target[d])
  BY DEF Shape, DetachShape, Alone, DetachAlone, Counted, Arrived
<1>3. \A d, e \in Detach : Uncounted(d) /\ Uncounted(e) /\ target[d] = target[e] => d = e
  BY <1>1 DEF Alone, DetachAlone, DetachesApart, Active, Gone, Departed, Uncounted
<1>4. taken = {v \in VM : Counted(v) /\ \A d \in Detach : Uncounted(d) => target[d] # v}
  BY DEF taken
<1>5. given = {v \in VM : \E d \in Detach : Holding(d) /\ target[d] = v}
  BY <1>1, <1>2 DEF given, Holding
<1>6. ASSUME NEW d \in Detach, det[d] = "release" \/ det[d] = "rollback_on_vmc",
             NEW e \in Detach, Uncounted(e), target[e] = target[d]
      PROVE  FALSE
  <2>1. Active(d) /\ ~Uncounted(d)
    BY <1>6 DEF Active, Uncounted, Departed
  <2>2. d # e
    BY <1>6, <2>1
  <2>3. ~Active(e) /\ Gone(e)
    BY <1>1, <1>6, <2>1, <2>2 DEF Alone, DetachesApart
  <2>4. ~Gone(d) /\ target[d] \notin objects
    BY <1>6, <2>2, <2>3 DEF Alone, DetachesApart, DetachAlone
  <2> QED
    BY <2>1, <2>4 DEF Alone, DetachAlone
<1> QED
  BY <1>2, <1>3, <1>4, <1>5, <1>6 DEF Owners

\* The reservations are the slots taken, plus those that are about to be returned.
SlotsAddUp == reservations = Cardinality(taken) + Cardinality(OverLimit)

\* The slots are finitely many.
LEMMA FiniteSlots ==
  ASSUME Shape, Alone
  PROVE  /\ taken \subseteq VM /\ given \subseteq VM
         /\ IsFiniteSet(taken) /\ IsFiniteSet(given) /\ IsFiniteSet(OverLimit)
         /\ Cardinality(taken) \in Nat /\ Cardinality(given) \in Nat
         /\ Cardinality(OverLimit) \in Nat
<1>1. taken \subseteq VM /\ given \subseteq VM /\ OverLimit \subseteq VM
  BY SlotFacts DEF Owners, OverLimit
<1>2. IsFiniteSet(taken) /\ IsFiniteSet(given) /\ IsFiniteSet(OverLimit)
  BY <1>1, VMAssumption, FS_Subset
<1> QED
  BY <1>1, <1>2, FS_CardinalityType

\* What a step does to the slots: as in SlotPool, with the count it goes with.
TakeStep(v) == /\ v \notin taken \cup given
               /\ taken' = taken \cup {v} /\ given' = given
               /\ OverLimit' = OverLimit
               /\ reservations + 1 <= VmMax /\ reservations' = reservations + 1
DropStep(v) == /\ v \in taken
               /\ taken' = taken \ {v} /\ given' = given
               /\ OverLimit' = OverLimit /\ reservations' = reservations - 1
GiveUpStep(v) == /\ v \in taken
                 /\ taken' = taken \ {v} /\ given' = given \cup {v}
                 /\ OverLimit' = OverLimit /\ reservations' = reservations - 1
RetakeStep(v) == /\ v \in given /\ v \notin taken
                 /\ taken' = taken \cup {v} /\ given' = given \ {v}
                 /\ OverLimit' = OverLimit /\ reservations' = reservations + 1
LeaveStep(v) == /\ v \in given
                /\ taken' = taken /\ given' = given \ {v}
                /\ OverLimit' = OverLimit /\ reservations' = reservations
IdleStep == /\ taken' = taken /\ given' = given
            /\ \/ OverLimit' = OverLimit /\ reservations' = reservations
               \/ \E v \in VM \ OverLimit :
                     OverLimit' = OverLimit \cup {v} /\ reservations' = reservations + 1
               \/ \E v \in OverLimit :
                     OverLimit' = OverLimit \ {v} /\ reservations' = reservations - 1

SlotStep == \/ IdleStep
            \/ \E v \in VM : \/ TakeStep(v) \/ DropStep(v) \/ GiveUpStep(v) \/ RetakeStep(v)
                             \/ LeaveStep(v)

\* Reserve takes a slot or will return it, RollbackReserve drops one.
LEMMA AttachSlots ==
  ASSUME ~LockFails, Shape, Alone, Shape', Alone', NEW v \in VM, objattach(v)
  PROVE  SlotStep
<1>1. Owners /\ Owners'
  BY SlotFacts, PTL
<1>2. UNCHANGED detvars
  BY DEF objattach, Begin, PreAttach, Reserve, UndoReserve, ReserveOnVmc, VmCreate, Create,
     CreateObject, PostAttach, RecreateDestroy, RecreateCreate, RecreateObject,
     RollbackReserve, RollbackOnVmc, RollbackInstance, AttachDeschedule, RollbackObject,
     AttachUnpend
<1>3. /\ att[v] # "over" /\ att[v] \in AttachPC /\ status[v] \in Status
      /\ \A d \in Detach : Uncounted(d) => target[d] # v
  <2>1. att[v] # "over"
    BY DEF objattach, Begin, PreAttach, Reserve, UndoReserve, ReserveOnVmc, VmCreate,
       CreateObject, PostAttach, RecreateDestroy, RecreateCreate, RecreateObject,
       RollbackReserve, RollbackOnVmc, RollbackInstance, AttachDeschedule, RollbackObject,
       AttachUnpend
  <2> QED
    BY <2>1 DEF Shape, TypeOK, Alone, DetachAlone, Uncounted, Departed
<1>4. \A d \in Detach : (Uncounted(d)' <=> Uncounted(d)) /\ (Holding(d)' <=> Holding(d))
  BY <1>2 DEF Holding, Uncounted, Departed, detvars
<1>5. given' = given
  BY <1>1, <1>2, <1>4 DEF Owners, detvars
<1>6. CASE Reserve(v)
  <2>1. /\ ~Counted(v) /\ v \notin OverLimit /\ reservations' = reservations + 1
        /\ \A w \in VM \ {v} : (Counted(w)' <=> Counted(w)) /\ (w \in OverLimit' <=> w \in OverLimit)
        /\ \/ reservations + 1 <= VmMax /\ Counted(v)' /\ v \notin OverLimit'
           \/ ~Counted(v)' /\ v \in OverLimit'
    BY <1>6 DEF Reserve, Admitted, Count, Goto, Shape, TypeOK, AttachShape, Undoing, Counted,
       Arrived, Working, OverLimit
  <2>2. v \notin taken /\ v \notin given
    BY <1>1, <1>3, <2>1 DEF Owners, Holding
  <2>3. OverLimit \subseteq VM /\ OverLimit' \subseteq VM
    BY DEF OverLimit
  <2>4. CASE reservations + 1 <= VmMax /\ Counted(v)' /\ v \notin OverLimit'
    <3>1. taken' = taken \cup {v}
      BY <1>1, <1>2, <1>3, <1>4, <2>1, <2>4 DEF Owners, detvars
    <3>2. OverLimit' = OverLimit
      BY <2>1, <2>3, <2>4
    <3> QED
      BY <1>5, <2>1, <2>2, <2>4, <3>1, <3>2 DEF SlotStep, TakeStep
  <2>5. CASE ~Counted(v)' /\ v \in OverLimit'
    <3>1. taken' = taken
      BY <1>1, <1>2, <1>4, <2>1, <2>5 DEF Owners, detvars
    <3>2. OverLimit' = OverLimit \cup {v}
      BY <2>1, <2>3, <2>5
    <3> QED
      BY <1>5, <2>1, <3>1, <3>2 DEF SlotStep, IdleStep
  <2> QED
    BY <2>1, <2>4, <2>5
<1>7. CASE UndoReserve(v)
  <2>1. /\ v \in OverLimit /\ OverLimit' = OverLimit \ {v} /\ reservations' = reservations - 1
        /\ \A w \in VM : Counted(w)' <=> Counted(w)
    BY <1>7 DEF UndoReserve, Count, Goto, Fail, Shape, TypeOK, AttachShape, Undoing, Counted,
       Arrived, Working, OverLimit
  <2>2. taken' = taken
    BY <1>1, <1>2, <1>4, <2>1 DEF Owners, detvars
  <2> QED
    BY <1>5, <2>1, <2>2 DEF SlotStep, IdleStep
<1>8. CASE RollbackReserve(v)
  <2>1. /\ Counted(v) /\ ~Counted(v)' /\ reservations' = reservations - 1
        /\ \A w \in VM \ {v} : Counted(w)' <=> Counted(w)
        /\ OverLimit' = OverLimit
    BY <1>8 DEF RollbackReserve, Count, Goto, Shape, TypeOK, AttachShape, Undoing, Counted,
       Arrived, Working, OverLimit
  <2>2. v \in taken /\ taken' = taken \ {v}
    BY <1>1, <1>2, <1>3, <1>4, <2>1 DEF Owners, detvars
  <2> QED
    BY <1>5, <2>1, <2>2 DEF SlotStep, DropStep
<1>9. CASE \/ Begin(v) \/ PreAttach(v) \/ ReserveOnVmc(v) \/ VmCreate(v) \/ CreateObject(v)
           \/ PostAttach(v) \/ RecreateDestroy(v) \/ RecreateCreate(v) \/ RecreateObject(v)
           \/ RollbackOnVmc(v) \/ RollbackInstance(v) \/ AttachDeschedule(v)
           \/ RollbackObject(v) \/ AttachUnpend(v)
  <2>1. /\ reservations' = reservations /\ OverLimit' = OverLimit
        /\ \A w \in VM : Counted(w)' <=> Counted(w)
    BY <1>9 DEF Begin, PreAttach, ReserveOnVmc, VmCreate, Create, CreateObject, PostAttach,
       RecreateDestroy, RecreateCreate, RecreateObject, RollbackOnVmc, RollbackInstance,
       AttachDeschedule, RollbackObject, AttachUnpend, Shape, TypeOK, AttachShape, Undoing,
       Counted, Arrived, OverLimit, Working, counters, Goto, Fail
  <2>2. taken' = taken
    BY <1>1, <1>2, <1>4, <2>1 DEF Owners, detvars
  <2> QED
    BY <1>5, <2>1, <2>2 DEF SlotStep, IdleStep
<1> QED
  BY <1>6, <1>7, <1>8, <1>9 DEF objattach

\* Release gives a slot up, RollbackRelease retakes it, DetachDeschedule may leave for good.
LEMMA DetachSlots ==
  ASSUME Shape, Alone, Shape', Alone', NEW d \in Detach, objdetach(d)
  PROVE  SlotStep
<1>1. Owners /\ Owners'
  BY SlotFacts, PTL
<1>2. UNCHANGED attvars /\ OverLimit' = OverLimit
  BY DetachLeavesAttach
<1>3. \A v \in VM : Counted(v)' <=> Counted(v)
  BY <1>2 DEF attvars, Counted, Arrived
<1>4. \A e \in Detach \ {d} : /\ Uncounted(e)' <=> Uncounted(e)
                              /\ Holding(e)' <=> Holding(e)
                              /\ target'[e] = target[e]
  <2>1. \A e \in Detach \ {d} : /\ det'[e] = det[e] /\ target'[e] = target[e]
                                /\ dstatus'[e] = dstatus[e]
    BY DEF objdetach, detach_rest, DetachBegin, Release, ReleaseOnVmc, VmDestroy, DestroyObject,
       DetachDeschedule, RollbackRelease, RollbackReleaseOnVmc, DetachUnpend, DGoto, DFail,
       detvars, Shape, TypeOK
  <2> QED
    BY <2>1 DEF Uncounted, Holding, Departed
<1>5. CASE Release(d)
  <2>1. /\ ~Uncounted(d) /\ ~Holding(d) /\ Uncounted(d)' /\ Holding(d)' /\ target' = target
        /\ det[d] = "release" /\ reservations' = reservations - 1
    BY <1>5 DEF Release, DGoto, Count, Uncounted, Holding, Departed, Shape, TypeOK
  <2>2. /\ target[d] \in VM /\ Counted(target[d])
        /\ \A e \in Detach : Uncounted(e) => target[e] # target[d]
    BY <1>1, <2>1 DEF Owners
  <2>3. target[d] \in taken /\ taken' = taken \ {target[d]}
    BY <1>1, <1>3, <1>4, <2>1, <2>2 DEF Owners
  <2>4. given' = given \cup {target[d]}
    BY <1>1, <1>4, <2>1, <2>2 DEF Owners
  <2> QED
    BY <1>2, <2>1, <2>2, <2>3, <2>4 DEF SlotStep, GiveUpStep
<1>6. CASE RollbackRelease(d)
  <2>1. /\ Uncounted(d) /\ Holding(d) /\ ~Uncounted(d)' /\ ~Holding(d)' /\ target' = target
        /\ det[d] = "rollback_release" /\ reservations' = reservations + 1
    BY <1>6 DEF RollbackRelease, DGoto, Count, Uncounted, Holding, Departed, Shape, TypeOK
  <2>2. /\ target[d] \in VM /\ Counted(target[d])
        /\ \A e \in Detach \ {d} : Uncounted(e) => target[e] # target[d]
    BY <1>1, <2>1 DEF Owners
  <2>3. target[d] \notin taken /\ taken' = taken \cup {target[d]}
    BY <1>1, <1>3, <1>4, <2>1, <2>2 DEF Owners
  <2>4. target[d] \in given /\ given' = given \ {target[d]}
    BY <1>1, <1>4, <2>1, <2>2 DEF Owners, Holding
  <2> QED
    BY <1>2, <2>1, <2>2, <2>3, <2>4 DEF SlotStep, RetakeStep
<1>7. CASE DetachDeschedule(d)
  <2>1. /\ Uncounted(d) /\ Holding(d) /\ Uncounted(d)' /\ target' = target
        /\ det[d] = "deschedule" /\ reservations' = reservations
    BY <1>7 DEF DetachDeschedule, DGoto, DFail, Uncounted, Holding, Departed, Shape, TypeOK,
       DetachShape
  <2>2. /\ target[d] \in VM
        /\ \A e \in Detach \ {d} : Uncounted(e) => target[e] # target[d]
    BY <1>1, <2>1 DEF Owners
  <2>3. taken' = taken
    BY <1>1, <1>3, <1>4, <2>1 DEF Owners
  <2>4. CASE Holding(d)'
    <3>1. given' = given
      BY <1>1, <1>4, <2>1, <2>4 DEF Owners
    <3> QED
      BY <1>2, <2>1, <2>3, <3>1 DEF SlotStep, IdleStep
  <2>5. CASE ~Holding(d)'
    <3>1. target[d] \in given /\ given' = given \ {target[d]}
      BY <1>1, <1>4, <2>1, <2>2, <2>5 DEF Owners, Holding
    <3> QED
      BY <1>2, <2>1, <2>2, <2>3, <3>1 DEF SlotStep, LeaveStep
  <2> QED
    BY <2>4, <2>5
<1>8. CASE \/ DetachBegin(d) \/ ReleaseOnVmc(d) \/ VmDestroy(d) \/ DestroyObject(d)
           \/ RollbackReleaseOnVmc(d) \/ DetachUnpend(d)
  <2>1. /\ Uncounted(d)' <=> Uncounted(d)
        /\ Holding(d)' <=> Holding(d)
        /\ Uncounted(d) => target'[d] = target[d]
        /\ reservations' = reservations
    BY <1>8 DEF DetachBegin, ReleaseOnVmc, VmDestroy, DestroyObject, RollbackReleaseOnVmc,
       DetachUnpend, DGoto, DFail, Uncounted, Holding, Departed, counters, Shape, TypeOK,
       DetachShape
  <2>2. taken' = taken /\ given' = given
    BY <1>1, <1>3, <1>4, <2>1 DEF Owners, Holding
  <2> QED
    BY <1>2, <2>1, <2>2 DEF SlotStep, IdleStep
<1> QED
  BY <1>5, <1>6, <1>7, <1>8 DEF objdetach, detach_rest

\* One step keeps the count of the slots.
LEMMA SlotStepCounts ==
  ASSUME Shape, Alone, SlotsAddUp, SlotStep
  PROVE  SlotsAddUp'
<1>1. /\ IsFiniteSet(taken) /\ IsFiniteSet(OverLimit)
      /\ Cardinality(taken) \in Nat /\ Cardinality(OverLimit) \in Nat
  BY FiniteSlots
<1>2. /\ reservations = Cardinality(taken) + Cardinality(OverLimit)
      /\ SlotsAddUp' <=> reservations' = Cardinality(taken') + Cardinality(OverLimit')
  BY DEF SlotsAddUp
<1>3. CASE IdleStep
  <2>1. CASE OverLimit' = OverLimit /\ reservations' = reservations
    BY <1>3, <2>1 DEF IdleStep, SlotsAddUp
  <2>2. ASSUME NEW v \in VM \ OverLimit, OverLimit' = OverLimit \cup {v},
               reservations' = reservations + 1
        PROVE  SlotsAddUp'
    <3>1. Cardinality(OverLimit') = Cardinality(OverLimit) + 1
      BY <1>1, <2>2, OneMore
    <3>2. Cardinality(taken') = Cardinality(taken)
      BY <1>3 DEF IdleStep
    <3> QED
      BY <1>1, <1>2, <2>2, <3>1, <3>2
  <2>3. ASSUME NEW v \in OverLimit, OverLimit' = OverLimit \ {v},
               reservations' = reservations - 1
        PROVE  SlotsAddUp'
    <3>1. Cardinality(OverLimit') = Cardinality(OverLimit) - 1
      BY <1>1, <2>3, OneLess
    <3>2. Cardinality(taken') = Cardinality(taken)
      BY <1>3 DEF IdleStep
    <3> QED
      BY <1>1, <1>2, <2>3, <3>1, <3>2
  <2> QED
    BY <1>3, <2>1, <2>2, <2>3 DEF IdleStep
<1>4. ASSUME NEW v \in VM, TakeStep(v) \/ RetakeStep(v) PROVE SlotsAddUp'
  <2>1. /\ v \notin taken /\ taken' = taken \cup {v} /\ OverLimit' = OverLimit
        /\ reservations' = reservations + 1
    BY <1>4 DEF TakeStep, RetakeStep
  <2>2. Cardinality(taken') = Cardinality(taken) + 1
    BY <1>1, <2>1, OneMore
  <2>3. Cardinality(OverLimit') = Cardinality(OverLimit)
    BY <2>1
  <2> QED
    BY <1>1, <1>2, <2>1, <2>2, <2>3
<1>5. ASSUME NEW v \in VM, DropStep(v) \/ GiveUpStep(v) PROVE SlotsAddUp'
  <2>1. /\ v \in taken /\ taken' = taken \ {v} /\ OverLimit' = OverLimit
        /\ reservations' = reservations - 1
    BY <1>5 DEF DropStep, GiveUpStep
  <2>2. Cardinality(taken') = Cardinality(taken) - 1
    BY <1>1, <2>1, OneLess
  <2>3. Cardinality(OverLimit') = Cardinality(OverLimit)
    BY <2>1
  <2> QED
    BY <1>1, <1>2, <2>1, <2>2, <2>3
<1>6. ASSUME NEW v \in VM, LeaveStep(v) PROVE SlotsAddUp'
  BY <1>6 DEF LeaveStep, SlotsAddUp
<1> QED
  BY <1>3, <1>4, <1>5, <1>6 DEF SlotStep

\* Every step is a step of the slots.
LEMMA NextIsSlotStep ==
  ASSUME ~LockFails, Shape, Alone, Shape', Alone', [Next]_vars
  PROVE  SlotStep
<1>1. CASE UNCHANGED vars
  BY <1>1 DEF vars, counters, attvars, detvars, SlotStep, IdleStep, taken, given, OverLimit,
     Counted, Uncounted, Arrived, Departed
<1> QED
  BY <1>1, AttachSlots, DetachSlots DEF Next

\* The reservations are the slots taken, in every behaviour.
THEOREM SlotsAlwaysAddUp == ASSUME ~Overlap, ~LockFails PROVE Spec => []SlotsAddUp
<1>1. Init => SlotsAddUp
  <2> SUFFICES ASSUME Init PROVE SlotsAddUp
    OBVIOUS
  <2>1. taken = {} /\ OverLimit = {}
    BY DEF Init, taken, OverLimit, Counted, Working, Arrived
  <2> QED
    BY <2>1, FS_EmptySet DEF Init, SlotsAddUp
<1>2. Shape /\ Alone /\ Shape' /\ Alone' /\ SlotsAddUp /\ [Next]_vars => SlotsAddUp'
  BY NextIsSlotStep, SlotStepCounts
<1> QED
  BY <1>1, <1>2, ShapeHolds, AloneHolds, PTL DEF Spec

\* The admission control of VMs hands out at most vm_max_reservations slots, and only a
\* vm-detach that fails takes one back without asking.
THEOREM PoolRefinement == ASSUME ~Overlap, ~LockFails PROVE Spec => ImplementsSlotPool
<1>1. Init => Pool!SlotPoolInit
  BY DEF Init, Pool!SlotPoolInit, taken, given, Counted, Working, Arrived, Uncounted, Departed
<1>2. Shape /\ Alone /\ Shape' /\ Alone' /\ SlotsAddUp /\ [Next]_vars
        => [Pool!SlotPoolNext]_<<taken, given>>
  <2> SUFFICES ASSUME Shape, Alone, Shape', Alone', SlotsAddUp, [Next]_vars
               PROVE  [Pool!SlotPoolNext]_<<taken, given>>
    OBVIOUS
  <2>1. SlotStep
    BY NextIsSlotStep
  <2>2. CASE IdleStep
    BY <2>2 DEF IdleStep
  <2>3. ASSUME NEW v \in VM, TakeStep(v) PROVE Pool!Take(v)
    <3>1. Cardinality(taken) \in Nat /\ Cardinality(OverLimit) \in Nat
      BY FiniteSlots
    <3>2. /\ reservations = Cardinality(taken) + Cardinality(OverLimit)
          /\ reservations + 1 <= VmMax /\ VmMax \in Int /\ reservations \in Int
      BY <2>3, VMAssumption DEF TakeStep, SlotsAddUp, Shape, TypeOK
    <3>3. Cardinality(taken) < VmMax
      BY <3>1, <3>2
    <3>4. Pool!Cardinality(taken) = Cardinality(taken)
      BY DEF Pool!Cardinality, Cardinality
    <3> QED
      BY <2>3, <3>3, <3>4 DEF TakeStep, Pool!Take
  <2>4. ASSUME NEW v \in VM, DropStep(v) PROVE Pool!Drop(v)
    BY <2>4 DEF DropStep, Pool!Drop
  <2>5. ASSUME NEW v \in VM, GiveUpStep(v) PROVE Pool!GiveUp(v)
    BY <2>5 DEF GiveUpStep, Pool!GiveUp
  <2>6. ASSUME NEW v \in VM, RetakeStep(v) PROVE Pool!Retake(v)
    BY <2>6 DEF RetakeStep, Pool!Retake
  <2>7. ASSUME NEW v \in VM, LeaveStep(v) PROVE Pool!Leave(v)
    BY <2>7 DEF LeaveStep, Pool!Leave
  <2> QED
    BY <2>1, <2>2, <2>3, <2>4, <2>5, <2>6, <2>7 DEF SlotStep, Pool!SlotPoolNext
<1> QED
  BY <1>1, <1>2, ShapeHolds, AloneHolds, SlotsAlwaysAddUp, PTL
  DEF Spec, ImplementsSlotPool, Pool!SlotPoolSpec

-----------------------------------------------------------------------------
(* The PENDING list *)

\* While a VM has one operation at a time, a vm-attach in progress has the VM for itself, and
\* so has a vm-detach.
LEMMA OneBusy ==
  ASSUME Alone
  PROVE  /\ \A v \in VM : att[v] # "over" => \A d \in Detach : Active(d) => target[d] # v
         /\ \A d, e \in Detach : Active(d) /\ Active(e) /\ target[d] = target[e] => d = e
BY DEF Alone, DetachAlone, DetachesApart, Active

\* A vm-attach puts its VM into the PENDING list when it begins and takes it out at its end.
LEMMA AttachKeepsPending ==
  ASSUME ~LockFails, Shape, Alone, Alone', PendingIsInProgress, NEW v \in VM, objattach(v)
  PROVE  PendingIsInProgress'
<1>1. /\ UNCHANGED detvars
      /\ \A w \in VM \ {v} : att'[w] = att[w]
  BY DEF objattach, Begin, PreAttach, Reserve, UndoReserve, ReserveOnVmc, VmCreate, Create,
     CreateObject, PostAttach, RecreateDestroy, RecreateCreate, RecreateObject,
     RollbackReserve, RollbackOnVmc, RollbackInstance, AttachDeschedule, RollbackObject,
     AttachUnpend, Goto, Fail, Shape, TypeOK
<1>2. \A w \in VM \ {v} : Busy(w)' <=> Busy(w)
  BY <1>1 DEF Busy, detvars
<1>3. att[v] # "over" /\ att[v] # "stuck" /\ att'[v] # "stuck" /\ att'[v] # "idle"
  <2>1. att[v] # "over" /\ att'[v] # "idle"
    BY DEF objattach, Begin, PreAttach, Reserve, UndoReserve, ReserveOnVmc, VmCreate, Create,
       CreateObject, PostAttach, RecreateDestroy, RecreateCreate, RecreateObject,
       RollbackReserve, RollbackOnVmc, RollbackInstance, AttachDeschedule, RollbackObject,
       AttachUnpend, Goto, Fail, Shape, TypeOK
  <2> QED
    BY <2>1 DEF Alone, AttachAlone
<1>4. \A d \in Detach : Active(d) => target[d] # v
  BY <1>3, OneBusy
<1>5. /\ Busy(v) <=> att[v] # "idle"
      /\ Busy(v)' <=> att'[v] # "over"
  BY <1>1, <1>3, <1>4 DEF Busy, Active, detvars
<1>6. CASE Begin(v)
  <2>1. pending' = pending \cup {v} /\ att'[v] = "pre_attach_vm"
    BY <1>6 DEF Begin, Goto, Shape, TypeOK
  <2> QED
    BY <1>2, <1>5, <2>1 DEF PendingIsInProgress
<1>7. CASE AttachUnpend(v)
  <2>1. pending' = pending \ {v} /\ att'[v] = "over"
    BY <1>7 DEF AttachUnpend, Goto, Shape, TypeOK
  <2> QED
    BY <1>2, <1>5, <2>1 DEF PendingIsInProgress
<1>8. CASE ~Begin(v) /\ ~AttachUnpend(v)
  <2>1. pending' = pending /\ att[v] # "idle" /\ att'[v] # "over"
    BY <1>8 DEF objattach, PreAttach, Reserve, UndoReserve, ReserveOnVmc, VmCreate, Create,
       CreateObject, PostAttach, RecreateDestroy, RecreateCreate, RecreateObject,
       RollbackReserve, RollbackOnVmc, RollbackInstance, AttachDeschedule, RollbackObject,
       Goto, Fail, Shape, TypeOK
  <2> QED
    BY <1>2, <1>5, <2>1 DEF PendingIsInProgress
<1> QED
  BY <1>6, <1>7, <1>8

\* So does a vm-detach.
LEMMA DetachKeepsPending ==
  ASSUME ~Overlap, Shape, Shape', Alone, Alone', PendingIsInProgress, NEW d \in Detach, objdetach(d)
  PROVE  PendingIsInProgress'
<1>1. /\ UNCHANGED att
      /\ \A e \in Detach \ {d} : det'[e] = det[e] /\ target'[e] = target[e]
  BY DEF objdetach, detach_rest, DetachBegin, Release, ReleaseOnVmc, VmDestroy, DestroyObject,
     DetachDeschedule, RollbackRelease, RollbackReleaseOnVmc, DetachUnpend, DGoto, DFail,
     attvars, detvars, Shape, TypeOK
<1>2. \A v \in VM : Busy(v) <=> \/ att[v] \notin {"idle", "over", "stuck"}
                                \/ \E e \in Detach : target[e] = v /\ Active(e)
  BY DEF Busy, Active
<1>3. \A v \in VM : Busy(v)' <=> \/ att[v] \notin {"idle", "over", "stuck"}
                                 \/ \E e \in Detach : target'[e] = v /\ Active(e)'
  BY <1>1 DEF Busy, Active
<1>4. \A e \in Detach \ {d} : Active(e)' <=> Active(e)
  BY <1>1 DEF Active
<1>5. CASE DetachBegin(d)
  <2>1. ~Active(d) /\ Active(d)' /\ target'[d] \in VM /\ pending' = pending \cup {target'[d]}
    BY <1>5 DEF DetachBegin, DGoto, Active, Shape, TypeOK
  <2>2. \A v \in VM : Busy(v)' <=> Busy(v) \/ v = target'[d]
    BY <1>1, <1>2, <1>3, <1>4, <2>1
  <2> QED
    BY <2>1, <2>2 DEF PendingIsInProgress
<1>6. CASE DetachUnpend(d)
  <2>1. Active(d) /\ ~Active(d)' /\ target' = target /\ pending' = pending \ {target[d]}
    BY <1>6 DEF DetachUnpend, DGoto, Active, Shape, TypeOK
  <2>2. att[target[d]] = "over" /\ \A e \in Detach \ {d} : Active(e) => target[e] # target[d]
    BY <2>1, OneBusy DEF Alone, DetachAlone, Active
  <2>3. \A v \in VM : Busy(v)' <=> Busy(v) /\ v # target[d]
    BY <1>2, <1>3, <1>4, <2>1, <2>2
  <2> QED
    BY <2>1, <2>3 DEF PendingIsInProgress
<1>7. CASE ~DetachBegin(d) /\ ~DetachUnpend(d)
  <2>1. Active(d) /\ Active(d)' /\ target' = target /\ pending' = pending
    BY <1>7 DEF objdetach, detach_rest, Release, ReleaseOnVmc, VmDestroy, DestroyObject,
       DetachDeschedule, RollbackRelease, RollbackReleaseOnVmc, DGoto, DFail, Active, Shape,
       TypeOK
  <2>2. \A v \in VM : Busy(v)' <=> Busy(v)
    BY <1>2, <1>3, <1>4, <2>1
  <2> QED
    BY <2>1, <2>2 DEF PendingIsInProgress
<1> QED
  BY <1>5, <1>6, <1>7

\* The PENDING list holds exactly the VMs an operation is at work on, when operations on one
\* VM do not overlap and the placement lock is had.
THEOREM PendingAlwaysInProgress ==
  ASSUME ~Overlap, ~LockFails PROVE Spec => []PendingIsInProgress
<1>1. Init => PendingIsInProgress
  BY DEF Init, PendingIsInProgress, Busy
<1>2. Shape /\ Shape' /\ Alone /\ Alone' /\ PendingIsInProgress /\ [Next]_vars => PendingIsInProgress'
  <2> SUFFICES ASSUME Shape, Shape', Alone, Alone', PendingIsInProgress, [Next]_vars
               PROVE  PendingIsInProgress'
    OBVIOUS
  <2>1. CASE UNCHANGED vars
    BY <2>1 DEF vars, attvars, detvars, PendingIsInProgress, Busy
  <2> QED
    BY <2>1, AttachKeepsPending, DetachKeepsPending DEF Next
<1> QED
  BY <1>1, <1>2, ShapeHolds, AloneHolds, PTL DEF Spec

-----------------------------------------------------------------------------
(* The limit *)

\* The vm-detach failed and took its slot back.
Retaken(d) == dstatus[d] # "ok" /\ det[d] # "rollback_release"

RetakenSet == {d \in Detach : Retaken(d)}

\* More slots than the limit are taken only by the vm-detaches that failed.
SlotLimit == Cardinality(taken) <= VmMax + Cardinality(RetakenSet)

\* Finitely many VMs take a slot again.
LEMMA FiniteRetaken ==
  /\ IsFiniteSet(RetakenSet) /\ Cardinality(RetakenSet) \in Nat
  /\ IsFiniteSet(RetakenSet') /\ Cardinality(RetakenSet') \in Nat
<1>1. RetakenSet \subseteq Detach /\ RetakenSet' \subseteq Detach
  BY DEF RetakenSet
<1> QED
  BY <1>1, VMAssumption, FS_Subset, FS_CardinalityType

\* A slot is taken back by one vm-detach, which is then one more that failed; no other step
\* takes one back, and none forgets a vm-detach that failed.
LEMMA RetakenStep ==
  ASSUME Shape, [Next]_vars
  PROVE  \/ RetakenSet' = RetakenSet /\ \A v \in VM : ~RetakeStep(v)
         \/ \E d \in Detach \ RetakenSet : RetakenSet' = RetakenSet \cup {d}
<1>1. CASE UNCHANGED detvars
  <2>1. given' = given
    BY <1>1 DEF given, Uncounted, Departed, detvars
  <2>2. RetakenSet' = RetakenSet
    BY <1>1 DEF RetakenSet, Retaken, detvars
  <2> QED
    BY <2>1, <2>2 DEF RetakeStep
<1>2. ASSUME NEW d \in Detach, objdetach(d), RollbackRelease(d)
      PROVE  d \notin RetakenSet /\ RetakenSet' = RetakenSet \cup {d}
  BY <1>2 DEF RollbackRelease, DGoto, RetakenSet, Retaken, Shape, TypeOK, DetachShape
<1>3. ASSUME NEW d \in Detach, objdetach(d), ~RollbackRelease(d)
      PROVE  RetakenSet' = RetakenSet /\ \A v \in VM : ~RetakeStep(v)
  <2>1. reservations' \in {reservations, reservations - 1}
    BY <1>3 DEF objdetach, detach_rest, DetachBegin, Release, ReleaseOnVmc, VmDestroy,
       DestroyObject, DetachDeschedule, RollbackReleaseOnVmc, DetachUnpend, counters, Count
  <2>2. reservations \in Int
    BY DEF Shape, TypeOK
  <2>3. \A e \in Detach : Retaken(e)' <=> Retaken(e)
    BY <1>3 DEF objdetach, detach_rest, DetachBegin, Release, ReleaseOnVmc, VmDestroy,
       DestroyObject, DetachDeschedule, RollbackReleaseOnVmc, DetachUnpend, DGoto, DFail,
       Retaken, Shape, TypeOK, DetachShape
  <2> QED
    BY <2>1, <2>2, <2>3 DEF RetakeStep, RetakenSet
<1>4. ASSUME NEW v \in VM, objattach(v) PROVE UNCHANGED detvars
  BY <1>4 DEF objattach, Begin, PreAttach, Reserve, UndoReserve, ReserveOnVmc, VmCreate, Create,
     CreateObject, PostAttach, RecreateDestroy, RecreateCreate, RecreateObject,
     RollbackReserve, RollbackOnVmc, RollbackInstance, AttachDeschedule, RollbackObject,
     AttachUnpend
<1> QED
  BY <1>1, <1>2, <1>3, <1>4 DEF Next, vars

\* Admission looks at the limit before it takes a slot.
LEMMA SlotLimitStep ==
  ASSUME ~LockFails, Shape, Alone, Shape', Alone', SlotsAddUp, SlotLimit, [Next]_vars
  PROVE  SlotLimit'
<1>1. SlotStep
  BY NextIsSlotStep
<1>2. /\ IsFiniteSet(taken) /\ Cardinality(taken) \in Nat /\ Cardinality(OverLimit) \in Nat
      /\ VmMax \in Nat
  BY FiniteSlots, VMAssumption
<1>3. Cardinality(RetakenSet) \in Nat /\ Cardinality(RetakenSet') \in Nat
  BY FiniteRetaken
<1>4. Cardinality(RetakenSet') >= Cardinality(RetakenSet)
  BY <1>3, RetakenStep, FiniteRetaken, OneMore
<1>5. CASE taken' = taken
  BY <1>2, <1>3, <1>4, <1>5 DEF SlotLimit
<1>6. ASSUME NEW v \in VM, TakeStep(v) PROVE SlotLimit'
  <2>1. Cardinality(taken') = Cardinality(taken) + 1
    BY <1>2, <1>6, OneMore DEF TakeStep
  <2>2. reservations + 1 <= VmMax /\ reservations = Cardinality(taken) + Cardinality(OverLimit)
    BY <1>6 DEF TakeStep, SlotsAddUp
  <2> QED
    BY <1>2, <1>3, <2>1, <2>2 DEF SlotLimit
<1>7. ASSUME NEW v \in VM, DropStep(v) \/ GiveUpStep(v) PROVE SlotLimit'
  <2>1. Cardinality(taken') = Cardinality(taken) - 1
    BY <1>2, <1>7, OneLess DEF DropStep, GiveUpStep
  <2> QED
    BY <1>2, <1>3, <1>4, <2>1 DEF SlotLimit
<1>8. ASSUME NEW v \in VM, RetakeStep(v) PROVE SlotLimit'
  <2>1. Cardinality(taken') = Cardinality(taken) + 1
    BY <1>2, <1>8, OneMore DEF RetakeStep
  <2>2. PICK d \in Detach \ RetakenSet : RetakenSet' = RetakenSet \cup {d}
    BY <1>8, RetakenStep
  <2>3. Cardinality(RetakenSet') = Cardinality(RetakenSet) + 1
    BY <2>2, FiniteRetaken, OneMore
  <2> QED
    BY <1>2, <1>3, <2>1, <2>3 DEF SlotLimit
<1> QED
  BY <1>1, <1>5, <1>6, <1>7, <1>8 DEF SlotStep, IdleStep, LeaveStep

\* An instance of a VM that did not fail stands on a slot that is taken, or on one that a
\* vm-detach at work gave up.
LEMMA InstancesHaveSlots ==
  ASSUME Shape, Alone
  PROVE  {v \in instances : status[v] = "ok"} \subseteq taken \cup given
<1> SUFFICES ASSUME NEW v \in instances, status[v] = "ok" PROVE v \in taken \cup given
  OBVIOUS
<1>1. v \in VM /\ att[v] \in AttachPC
  BY DEF Shape, TypeOK
<1>2. Counted(v)
  BY <1>1 DEF Alone, AttachAlone, Shape, AttachShape, Undoing, AttachPC, Counted, Working, Arrived
<1>3. \A d \in Detach : Uncounted(d) /\ target[d] = v => Holding(d)
  BY DEF Alone, DetachAlone, Gone, Holding
<1> QED
  BY <1>1, <1>2, <1>3, SlotFacts DEF Owners

\* There are no more slots given up than vm-detaches that hold one.
LEMMA GivenBound ==
  ASSUME Shape
  PROVE  Cardinality(given) <= Cardinality({d \in Detach : Holding(d)})
<1> DEFINE H == {d \in Detach : Holding(d)}
           f == [d \in H |-> target[d]]
<1>1. given = {target[d] : d \in H}
  BY DEF given, Holding
<1>2. f \in Surjection(H, given)
  BY <1>1 DEF Surjection
<1>3. IsFiniteSet(H)
  BY VMAssumption, FS_Subset
<1> HIDE DEF f, H
<1>4. Cardinality(given) <= Cardinality(H)
  BY <1>2, <1>3, FS_Surjection
<1> QED
  BY <1>4 DEF H

\* The slots taken and the slots given up bound the instances.
LEMMA LimitFromSlots ==
  ASSUME Shape, Alone, SlotLimit
  PROVE  LimitRespected
<1> DEFINE I == {v \in instances : status[v] = "ok"}
           H == {d \in Detach : Holding(d)}
           D == {d \in Detach : det[d] # "idle" /\ ~Departed(d)}
<1>1. H \subseteq Detach /\ D \subseteq Detach /\ RetakenSet \subseteq Detach
  BY DEF RetakenSet
<1>2. H \cup RetakenSet \subseteq D /\ H \cap RetakenSet = {}
  BY DEF Holding, Uncounted, Departed, RetakenSet, Retaken, Shape, DetachShape
<1>3. I \subseteq taken \cup given
  BY InstancesHaveSlots
<1>4. /\ IsFiniteSet(taken) /\ IsFiniteSet(given)
      /\ Cardinality(taken) \in Nat /\ Cardinality(given) \in Nat
  BY FiniteSlots
<1>5. Cardinality(given) <= Cardinality(H)
  BY GivenBound
<1> HIDE DEF I, H, D
<1>6. /\ IsFiniteSet(H) /\ IsFiniteSet(D) /\ IsFiniteSet(RetakenSet)
      /\ Cardinality(H) \in Nat /\ Cardinality(D) \in Nat /\ Cardinality(RetakenSet) \in Nat
  BY <1>1, VMAssumption, FS_Subset, FS_CardinalityType
<1>7. Cardinality(H) + Cardinality(RetakenSet) <= Cardinality(D)
  <2>1. /\ IsFiniteSet(H \cup RetakenSet)
        /\ Cardinality(H \cup RetakenSet)
             = Cardinality(H) + Cardinality(RetakenSet) - Cardinality(H \cap RetakenSet)
    BY <1>6, FS_Union
  <2>2. Cardinality(H \cap RetakenSet) = 0
    BY <1>2, FS_EmptySet
  <2>3. Cardinality(H \cup RetakenSet) <= Cardinality(D)
    BY <1>2, <1>6, FS_Subset
  <2> QED
    BY <1>6, <2>1, <2>2, <2>3
<1>8. Cardinality(I) \in Nat /\ Cardinality(I) <= Cardinality(taken) + Cardinality(given)
  <2>1. /\ IsFiniteSet(taken \cup given)
        /\ Cardinality(taken \cup given)
             = Cardinality(taken) + Cardinality(given) - Cardinality(taken \cap given)
    BY <1>4, FS_Union
  <2>2. Cardinality(taken \cap given) \in Nat
    BY <1>4, FS_Intersection, FS_CardinalityType
  <2>3. IsFiniteSet(I) /\ Cardinality(I) <= Cardinality(taken \cup given)
    BY <1>3, <2>1, FS_Subset
  <2>4. Cardinality(I) \in Nat
    BY <2>3, FS_CardinalityType
  <2> QED
    BY <1>4, <2>1, <2>2, <2>3, <2>4
<1>9. Cardinality(I) <= VmMax + Cardinality(D)
  BY <1>4, <1>5, <1>6, <1>7, <1>8, VMAssumption DEF SlotLimit
<1> QED
  BY <1>9 DEF LimitRespected, I, D

\* The cloud never runs more instances of VMs that are arriving or have arrived than
\* vm_max_reservations, plus one for each vm-detach at work and each that failed: for any
\* number of VMs and detaches and any limit.
THEOREM LimitAlwaysRespected == ASSUME ~Overlap, ~LockFails PROVE Spec => []LimitRespected
<1>1. Init => SlotLimit
  <2> SUFFICES ASSUME Init PROVE SlotLimit
    OBVIOUS
  <2>1. taken = {}
    BY DEF Init, taken, Counted, Working, Arrived
  <2>2. Cardinality(taken) = 0
    BY <2>1, FS_EmptySet
  <2> QED
    BY <2>2, FiniteRetaken, VMAssumption DEF SlotLimit
<1>2. Shape /\ Alone /\ Shape' /\ Alone' /\ SlotsAddUp /\ SlotLimit /\ [Next]_vars => SlotLimit'
  BY SlotLimitStep
<1>3. Shape /\ Alone /\ SlotLimit => LimitRespected
  BY LimitFromSlots
<1> QED
  BY <1>1, <1>2, <1>3, ShapeHolds, AloneHolds, SlotsAlwaysAddUp, PTL DEF Spec
==============================================================================
