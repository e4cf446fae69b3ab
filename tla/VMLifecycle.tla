----------------------------- MODULE VMLifecycle -----------------------------
(***************************************************************************)
(* The life of the VMs of one experiment: objattach and objdetach of       *)
(* lib/operations/active_operations.py for the type VM, with the admission *)
(* control of base_operations.py that they call.                           *)
(*                                                                         *)
(* Every vm-attach and every vm-detach runs in a process or thread of its  *)
(* own; they share the object store (atomic counters, the list of objects, *)
(* the PENDING list) and the cloud.  One action is one call that changes   *)
(* shared state, so two operations interleave as finely as in the code.    *)
(* A vm-attach draws a fresh uuid, so a VM stands for the call and for the *)
(* object it makes.                                                        *)
(***************************************************************************)
EXTENDS Integers, FiniteSets

CONSTANTS VM,          \* the vm-attach calls, and the objects they make
          Detach,      \* the vm-detach calls
          VMC,         \* the Virtual Machine Containers they may be placed on
          None,        \* no VM, no VMC
          VmMax,       \* vm_max_reservations of the admission control limits
          VmcMax,      \* max_vm_reservations of each VMC
          Recreate,    \* recreate_attempts
          Overlap,     \* whether a VM may be detached while it is being attached or detached
          LockFails    \* whether acquire_lock may run out of patience in "deschedule"

ASSUME VMAssumption == /\ IsFiniteSet(VM) /\ IsFiniteSet(Detach) /\ IsFiniteSet(VMC)
                       /\ None \notin VM \cup VMC
                       /\ VmMax \in Nat
                       /\ VmcMax \in [VMC -> Nat]
                       /\ Recreate \in Nat \ {0}
                       /\ Overlap \in BOOLEAN /\ LockFails \in BOOLEAN

VARIABLES reservations,   \* the counter RESERVATIONS of VMs
          nr_vms,         \* nr_vms of each VMC
          scheduled_vms,  \* scheduled_vms of each VMC
          reported,       \* the counters ARRIVED, DEPARTED and FAILED
          objects,        \* the list of VM objects
          pending,        \* the PENDING list of VMs
          instances,      \* the instances the cloud runs
          att,            \* where each vm-attach is
          vmc,            \* the VMC chosen for each VM
          done,           \* _vmcreate and _created_object of each vm-attach
          tries,          \* _max_recreate_tries of each vm-attach
          status,         \* how each vm-attach fared
          det,            \* where each vm-detach is
          target,         \* the VM each vm-detach is about
          dstatus         \* how each vm-detach fared

counters == <<reservations, nr_vms, scheduled_vms>>
attvars == <<att, vmc, done, tries, status>>
detvars == <<det, target, dstatus>>
vars == <<counters, reported, objects, pending, instances, attvars, detvars>>

AttachPC == {"idle", "pre_attach_vm", "reserve", "over_limit", "reserve_on_vmc", "vmcreate",
             "create_object", "post_attach_vm", "recreate_destroy", "recreate_create",
             "recreate_object", "rollback_reserve", "rollback_on_vmc", "rollback_instance",
             "deschedule", "rollback_object", "unpend", "over", "stuck"}

Status == {"ok", "exhausted", "vmc_exhausted", "failed"}

DetachPC == {"idle", "release", "release_on_vmc", "vmdestroy", "destroy_object",
             "deschedule", "rollback_release", "rollback_on_vmc", "unpend", "over"}

DetachStatus == {"ok", "refused", "locked_out", "still_listed"}

TypeOK == /\ reservations \in Int
          /\ nr_vms \in [VMC -> Int]
          /\ scheduled_vms \in [VMC -> Int]
          /\ reported \in [{"ARRIVED", "DEPARTED", "FAILED"} -> Nat]
          /\ objects \subseteq VM
          /\ pending \subseteq VM
          /\ instances \subseteq VM
          /\ att \in [VM -> AttachPC]
          /\ vmc \in [VM -> VMC \cup {None}]
          /\ done \in [VM -> SUBSET {"vmcreate", "created_object"}]
          /\ tries \in [VM -> 0..Recreate]
          /\ status \in [VM -> Status]
          /\ det \in [Detach -> DetachPC]
          /\ target \in [Detach -> VM \cup {None}]
          /\ dstatus \in [Detach -> DetachStatus]

Init == /\ reservations = 0
        /\ nr_vms = [m \in VMC |-> 0]
        /\ scheduled_vms = [m \in VMC |-> 0]
        /\ reported = [k \in {"ARRIVED", "DEPARTED", "FAILED"} |-> 0]
        /\ objects = {}
        /\ pending = {}
        /\ instances = {}
        /\ att = [v \in VM |-> "idle"]
        /\ vmc = [v \in VM |-> None]
        /\ done = [v \in VM |-> {}]
        /\ tries = [v \in VM |-> Recreate]
        /\ status = [v \in VM |-> "ok"]
        /\ det = [d \in Detach |-> "idle"]
        /\ target = [d \in Detach |-> None]
        /\ dstatus = [d \in Detach |-> "ok"]

\* update_counter and update_object_attribute(..., counter = True): one INCR or HINCRBY.
Count(n) == reservations' = reservations + n

CountOn(m, n) == nr_vms' = [nr_vms EXCEPT ![m] = @ + n]

CountScheduled(m, n) == scheduled_vms' = [scheduled_vms EXCEPT ![m] = @ + n]

Report(k) == reported' = [reported EXCEPT ![k] = @ + 1]

\* A vm-attach goes on.
Goto(v, label) == att' = [att EXCEPT ![v] = label]

\* A vm-attach raises: the finally block counts it and starts to undo it at label.
Fail(v, why, label) == /\ status' = [status EXCEPT ![v] = why]
                       /\ Goto(v, label)
                       /\ Report("FAILED")

-----------------------------------------------------------------------------
(* objattach *)

Begin(v) ==
    /\ att[v] = "idle"
    /\ pending' = pending \cup {v}
    /\ Goto(v, "pre_attach_vm")
    /\ UNCHANGED <<counters, reported, objects, instances, vmc, done, tries, status, detvars>>

\* pre_attach_vm chooses a VMC and ends with admission_control(..., "schedule"); how
\* it chooses is Placement's business.  It may raise before.
PreAttach(v) ==
    /\ att[v] = "pre_attach_vm"
    /\ \/ \E m \in VMC : /\ vmc' = [vmc EXCEPT ![v] = m]
                         /\ CountScheduled(m, 1)
                         /\ Goto(v, "reserve")
                         /\ UNCHANGED <<status, reported>>
       \/ Fail(v, "failed", "unpend") /\ UNCHANGED <<vmc, scheduled_vms>>
    /\ UNCHANGED <<reservations, nr_vms, objects, pending, instances, done, tries, detvars>>

\* Mutant: the limit is compared with the value before the increment.
AdmittedOneMore == reservations <= VmMax

\* admission_control(..., "attach"): INCR, then compare the value it returned.
Admitted == reservations + 1 <= VmMax

Reserve(v) ==
    /\ att[v] = "reserve"
    /\ Count(1)
    /\ Goto(v, IF Admitted THEN "reserve_on_vmc" ELSE "over_limit")
    /\ UNCHANGED <<nr_vms, scheduled_vms, reported, objects, pending, instances, vmc, done,
                   tries, status, detvars>>

\* Mutant: no DECR.
UndoReserveNot(v) ==
    /\ att[v] = "over_limit"
    /\ Fail(v, "exhausted", "deschedule")
    /\ UNCHANGED <<counters, objects, pending, instances, vmc, done, tries, detvars>>

\* Too many: DECR, and raise.  _admission_control is still False.
UndoReserve(v) ==
    /\ att[v] = "over_limit"
    /\ Count(-1)
    /\ Fail(v, "exhausted", "deschedule")
    /\ UNCHANGED <<nr_vms, scheduled_vms, objects, pending, instances, vmc, done, tries, detvars>>

\* HINCRBY of nr_vms.  Too many on this VMC: raise and undo nothing.
ReserveOnVmc(v) ==
    /\ att[v] = "reserve_on_vmc"
    /\ CountOn(vmc[v], 1)
    /\ \/ /\ nr_vms[vmc[v]] + 1 <= VmcMax[vmc[v]]
          /\ Goto(v, "vmcreate")
          /\ UNCHANGED <<status, reported>>
       \/ /\ nr_vms[vmc[v]] + 1 > VmcMax[vmc[v]]
          /\ Fail(v, "vmc_exhausted", "deschedule")
    /\ UNCHANGED <<reservations, scheduled_vms, objects, pending, instances, vmc, done, tries, detvars>>

\* vmcreate.  A driver that fails has raised, after destroying what it made, unless
\* leave_instance_on_failure or the cloud says otherwise.
Create(v, next) ==
    \/ /\ instances' = instances \cup {v}
       /\ Goto(v, next)
       /\ UNCHANGED <<status, reported>>
    \/ /\ instances' \in {instances, instances \cup {v}}
       /\ Fail(v, "failed", "rollback_reserve")

VmCreate(v) ==
    /\ att[v] = "vmcreate"
    /\ Create(v, "create_object")
    /\ done' = IF att'[v] = "create_object" THEN [done EXCEPT ![v] = {"vmcreate"}] ELSE done
    /\ UNCHANGED <<counters, objects, pending, vmc, tries, detvars>>

\* create_object, after steps that may raise (a host that was not discovered).
CreateObject(v) ==
    /\ att[v] = "create_object"
    /\ \/ /\ objects' = objects \cup {v}
          /\ done' = [done EXCEPT ![v] = @ \cup {"created_object"}]
          /\ Goto(v, "post_attach_vm")
          /\ UNCHANGED <<status, reported>>
       \/ Fail(v, "failed", "rollback_reserve") /\ UNCHANGED <<objects, done>>
    /\ UNCHANGED <<counters, pending, instances, vmc, tries, detvars>>

\* post_attach_vm succeeds, raises (an abort or a failure), or returns 90001 because
\* the instance does not authenticate: then the object is destroyed to start afresh.
PostAttach(v) ==
    /\ att[v] = "post_attach_vm"
    /\ \/ Goto(v, "unpend") /\ Report("ARRIVED") /\ UNCHANGED <<objects, status>>
       \/ Fail(v, "failed", "rollback_reserve") /\ UNCHANGED objects
       \/ /\ Goto(v, "recreate_destroy")
          /\ objects' = objects \ {v}
          /\ UNCHANGED <<status, reported>>
    /\ UNCHANGED <<counters, pending, instances, vmc, done, tries, detvars>>

\* vmdestroy_repeat: its status is not looked at.
RecreateDestroy(v) ==
    /\ att[v] = "recreate_destroy"
    /\ instances' \in {instances, instances \ {v}}
    /\ done' = [done EXCEPT ![v] = @ \ {"created_object"}]
    /\ Goto(v, "recreate_create")
    /\ UNCHANGED <<counters, reported, objects, pending, vmc, tries, status, detvars>>

RecreateCreate(v) ==
    /\ att[v] = "recreate_create"
    /\ Create(v, "recreate_object")
    /\ UNCHANGED <<counters, objects, pending, vmc, done, tries, detvars>>

TriesLeft(v) == tries[v] > 1

\* Mutant: the tries are not counted.
SameTries(v) == tries[v]

NextTries(v) == tries[v] - 1

\* create_object once more.  With no try left, pending_decide_abortion raises.
RecreateObject(v) ==
    /\ att[v] = "recreate_object"
    /\ objects' = objects \cup {v}
    /\ done' = [done EXCEPT ![v] = @ \cup {"created_object"}]
    /\ tries' = [tries EXCEPT ![v] = NextTries(v)]
    /\ \/ TriesLeft(v) /\ Goto(v, "post_attach_vm") /\ UNCHANGED <<status, reported>>
       \/ ~TriesLeft(v) /\ Fail(v, "failed", "rollback_reserve")
    /\ UNCHANGED <<counters, pending, instances, vmc, detvars>>

-----------------------------------------------------------------------------
(* The finally block of an objattach that failed *)

\* admission_control(..., "rollbackattach"): DECR, then HINCRBY.
RollbackReserve(v) ==
    /\ att[v] = "rollback_reserve"
    /\ Count(-1)
    /\ Goto(v, "rollback_on_vmc")
    /\ UNCHANGED <<nr_vms, scheduled_vms, reported, objects, pending, instances, vmc, done,
                   tries, status, detvars>>

\* Mutant: nr_vms is not decremented.
RollbackOnVmcNot(v) ==
    /\ att[v] = "rollback_on_vmc"
    /\ Goto(v, IF "vmcreate" \in done[v] THEN "rollback_instance" ELSE "deschedule")
    /\ UNCHANGED <<counters, reported, objects, pending, instances, vmc, done, tries, status,
                   detvars>>

RollbackOnVmc(v) ==
    /\ att[v] = "rollback_on_vmc"
    /\ CountOn(vmc[v], -1)
    /\ Goto(v, IF "vmcreate" \in done[v] THEN "rollback_instance" ELSE "deschedule")
    /\ UNCHANGED <<reservations, scheduled_vms, reported, objects, pending, instances, vmc,
                   done, tries, status, detvars>>

\* vmdestroy_repeat: its status is not looked at.
RollbackInstance(v) ==
    /\ att[v] = "rollback_instance"
    /\ instances' \in {instances, instances \ {v}}
    /\ Goto(v, "deschedule")
    /\ UNCHANGED <<counters, reported, objects, pending, vmc, done, tries, status, detvars>>

\* admission_control(..., "deschedule"), under the placement lock.  When the lock cannot
\* be had it raises out of the finally block, and nothing after it runs.
AttachDeschedule(v) ==
    /\ att[v] = "deschedule"
    /\ \/ /\ CountScheduled(vmc[v], -1)
          /\ Goto(v, IF "created_object" \in done[v] THEN "rollback_object" ELSE "unpend")
       \/ LockFails /\ Goto(v, "stuck") /\ UNCHANGED scheduled_vms
    /\ UNCHANGED <<reservations, nr_vms, reported, objects, pending, instances, vmc, done,
                   tries, status, detvars>>

RollbackObject(v) ==
    /\ att[v] = "rollback_object"
    /\ objects' = objects \ {v}
    /\ Goto(v, "unpend")
    /\ UNCHANGED <<counters, reported, pending, instances, vmc, done, tries, status, detvars>>

\* Mutant: only a vm-attach that succeeded leaves the PENDING list.
AttachUnpendOnSuccess(v) ==
    /\ att[v] = "unpend"
    /\ pending' = IF status[v] = "ok" THEN pending \ {v} ELSE pending
    /\ Goto(v, "over")
    /\ UNCHANGED <<counters, reported, objects, instances, vmc, done, tries, status, detvars>>

\* Success or failure, the VM leaves the PENDING list.
AttachUnpend(v) ==
    /\ att[v] = "unpend"
    /\ pending' = pending \ {v}
    /\ Goto(v, "over")
    /\ UNCHANGED <<counters, reported, objects, instances, vmc, done, tries, status, detvars>>

objattach(v) == \/ Begin(v) \/ PreAttach(v) \/ Reserve(v) \/ UndoReserve(v) \/ ReserveOnVmc(v)
                \/ VmCreate(v) \/ CreateObject(v) \/ PostAttach(v) \/ RecreateDestroy(v)
                \/ RecreateCreate(v) \/ RecreateObject(v) \/ RollbackReserve(v)
                \/ RollbackOnVmc(v) \/ RollbackInstance(v) \/ AttachDeschedule(v)
                \/ RollbackObject(v) \/ AttachUnpend(v)

-----------------------------------------------------------------------------
(* objdetach *)

DGoto(d, label) == det' = [det EXCEPT ![d] = label]

DFail(d, why) == /\ dstatus' = [dstatus EXCEPT ![d] = why]
                 /\ DGoto(d, "rollback_release")
                 /\ Report("FAILED")

Busy(v) == \/ att[v] \notin {"idle", "over", "stuck"}
           \/ \E d \in Detach : target[d] = v /\ det[d] \notin {"idle", "over"}

\* initialize_object finds the VM in the list of objects; nothing checks that no other
\* operation is at work on it.
DetachBegin(d) ==
    /\ det[d] = "idle"
    /\ \E v \in objects : /\ Overlap \/ ~Busy(v)
                          /\ target' = [target EXCEPT ![d] = v]
                          /\ pending' = pending \cup {v}
    /\ DGoto(d, "release")
    /\ UNCHANGED <<counters, reported, objects, instances, attvars, dstatus>>

\* admission_control(..., "detach"): DECR, then HINCRBY.
Release(d) ==
    /\ det[d] = "release"
    /\ Count(-1)
    /\ DGoto(d, "release_on_vmc")
    /\ UNCHANGED <<nr_vms, scheduled_vms, reported, objects, pending, instances, attvars,
                   target, dstatus>>

ReleaseOnVmc(d) ==
    /\ det[d] = "release_on_vmc"
    /\ CountOn(vmc[target[d]], -1)
    /\ DGoto(d, "vmdestroy")
    /\ UNCHANGED <<reservations, scheduled_vms, reported, objects, pending, instances, attvars,
                   target, dstatus>>

\* Mutant: the status of vmdestroy_repeat is not looked at.
VmDestroyAnyway(d) ==
    /\ det[d] = "vmdestroy"
    /\ instances' \in {instances, instances \ {target[d]}}
    /\ DGoto(d, "destroy_object")
    /\ UNCHANGED <<counters, reported, objects, pending, attvars, target, dstatus>>

\* pre_detach_vm may refuse (the VM is part of an AI), vmdestroy_repeat may give up.
VmDestroy(d) ==
    /\ det[d] = "vmdestroy"
    /\ \/ /\ instances' = instances \ {target[d]}
          /\ DGoto(d, "destroy_object")
          /\ UNCHANGED <<dstatus, reported>>
       \/ DFail(d, "refused") /\ UNCHANGED instances
    /\ UNCHANGED <<counters, objects, pending, attvars, target>>

DestroyObject(d) ==
    /\ det[d] = "destroy_object"
    /\ objects' = objects \ {target[d]}
    /\ DGoto(d, "deschedule")
    /\ UNCHANGED <<counters, reported, pending, instances, attvars, target, dstatus>>

\* post_detach_vm: admission_control(..., "deschedule") under the placement lock, then the
\* VM leaves the list of those under migration or capture.  Both may raise: that list is a
\* sorted set, and it is treated as a set.
DetachDeschedule(d) ==
    /\ det[d] = "deschedule"
    /\ \/ /\ CountScheduled(vmc[target[d]], -1)
          /\ \/ DGoto(d, "unpend") /\ Report("DEPARTED") /\ UNCHANGED dstatus
             \/ DFail(d, "still_listed")
       \/ LockFails /\ DFail(d, "locked_out") /\ UNCHANGED scheduled_vms
    /\ UNCHANGED <<reservations, nr_vms, objects, pending, instances, attvars, target>>

\* Mutant: RESERVATIONS is not incremented.
RollbackReleaseNot(d) ==
    /\ det[d] = "rollback_release"
    /\ DGoto(d, "rollback_on_vmc")
    /\ UNCHANGED <<counters, reported, objects, pending, instances, attvars, target, dstatus>>

\* admission_control(..., "rollbackdetach"): INCR without a look at the limit, even when
\* the object is already gone.
RollbackRelease(d) ==
    /\ det[d] = "rollback_release"
    /\ Count(1)
    /\ DGoto(d, "rollback_on_vmc")
    /\ UNCHANGED <<nr_vms, scheduled_vms, reported, objects, pending, instances, attvars,
                   target, dstatus>>

RollbackReleaseOnVmc(d) ==
    /\ det[d] = "rollback_on_vmc"
    /\ CountOn(vmc[target[d]], 1)
    /\ DGoto(d, "unpend")
    /\ UNCHANGED <<reservations, scheduled_vms, reported, objects, pending, instances, attvars,
                   target, dstatus>>

DetachUnpend(d) ==
    /\ det[d] = "unpend"
    /\ pending' = pending \ {target[d]}
    /\ DGoto(d, "over")
    /\ UNCHANGED <<counters, reported, objects, instances, attvars, target, dstatus>>

\* Everything after the admission of a vm-detach: it runs to its end once begun.
detach_rest(d) == \/ Release(d) \/ ReleaseOnVmc(d) \/ VmDestroy(d) \/ DestroyObject(d)
                  \/ DetachDeschedule(d) \/ RollbackRelease(d) \/ RollbackReleaseOnVmc(d)
                  \/ DetachUnpend(d)

objdetach(d) == DetachBegin(d) \/ detach_rest(d)

\* No call is left to make or to go on.
Finished == /\ \A v \in VM : att[v] \in {"over", "stuck"}
            /\ \A d \in Detach : det[d] \in {"idle", "over"}

Next == \/ \E v \in VM : objattach(v)
        \/ \E d \in Detach : objdetach(d)
        \/ Finished /\ UNCHANGED vars

Spec == Init /\ [][Next]_vars

\* An operation that was begun runs in a thread or process of its own and does not stop.
Fairness == /\ \A v \in VM : WF_vars(objattach(v))
            /\ \A d \in Detach : WF_vars(detach_rest(d))

FairSpec == Spec /\ Fairness

-----------------------------------------------------------------------------
(* Which operation has a share in which counter *)

Arrived(v) == status[v] = "ok" /\ att[v] \in {"unpend", "over"}

Departed(d) == dstatus[d] = "ok" /\ det[d] \in {"unpend", "over"}

Working == {"vmcreate", "create_object", "post_attach_vm", "recreate_destroy",
            "recreate_create", "recreate_object", "rollback_reserve"}

Counted(v) == \/ att[v] \in Working \cup {"reserve_on_vmc"}
              \/ status[v] = "vmc_exhausted"
              \/ Arrived(v)

Uncounted(d) == \/ det[d] \in {"release_on_vmc", "vmdestroy", "destroy_object",
                                "deschedule", "rollback_release"}
                \/ Departed(d)

CountedOn(v, m) == /\ vmc[v] = m
                   /\ \/ att[v] \in Working \cup {"rollback_on_vmc"}
                      \/ status[v] = "vmc_exhausted"
                      \/ Arrived(v)

UncountedOn(d, m) == /\ target[d] # None
                     /\ vmc[target[d]] = m
                     /\ \/ det[d] \in {"vmdestroy", "destroy_object", "deschedule",
                                       "rollback_release", "rollback_on_vmc"}
                        \/ Departed(d)

Scheduled(v, m) == /\ vmc[v] = m
                   /\ ~(status[v] # "ok" /\ att[v] \in {"rollback_object", "unpend", "over"})

Descheduled(d, m) == /\ target[d] # None
                     /\ vmc[target[d]] = m
                     /\ Departed(d) \/ dstatus[d] = "still_listed"

OverLimit == {v \in VM : att[v] = "over_limit"}

-----------------------------------------------------------------------------
(* Properties *)

\* The counter RESERVATIONS is what the operations of admission_control made it, however
\* they interleave: no increment or decrement is lost or done twice by one operation.
ReservationsAddUp ==
    reservations = Cardinality({v \in VM : Counted(v)}) + Cardinality(OverLimit)
                     - Cardinality({d \in Detach : Uncounted(d)})

\* So are the counters nr_vms and scheduled_vms of every VMC.
VmcCountersAddUp ==
    \A m \in VMC :
        /\ nr_vms[m] = Cardinality({v \in VM : CountedOn(v, m)})
                         - Cardinality({d \in Detach : UncountedOn(d, m)})
        /\ scheduled_vms[m] = Cardinality({v \in VM : Scheduled(v, m)})
                                - Cardinality({d \in Detach : Descheduled(d, m)})

\* While a VM is attached and detached by one operation at a time, an instance of a VM that
\* arrived is never left in the cloud without its object (objdetach destroys the object
\* only once vmdestroy_repeat succeeded).
NoOrphanInstance ==
    \A v \in instances : status[v] = "ok" /\ att[v] = "over" => v \in objects

\* While a VM is attached and detached by one operation at a time, the PENDING list
\* holds exactly the VMs an operation is at work on.
PendingIsInProgress == pending = {v \in VM : Busy(v)}

\* The cloud never runs more instances of VMs that are arriving or have arrived than
\* vm_max_reservations, plus one for each vm-detach at work and each that failed.
LimitRespected ==
    Cardinality({v \in instances : status[v] = "ok"})
        <= VmMax + Cardinality({d \in Detach : det[d] # "idle" /\ ~Departed(d)})

\* Every vm-attach that was called returns, whatever the cloud answers and however often
\* the VM is recreated; so does every vm-detach.
EveryCallReturns ==
    /\ \A v \in VM : att[v] = "pre_attach_vm" ~> att[v] \in {"over", "stuck"}
    /\ \A d \in Detach : det[d] = "release" ~> det[d] = "over"

\* "Now all actions executed during the object's attachment will be rolled back."
\* (active_operations.py:2217): once every vm-attach is over, and before any vm-detach,
\* the reservations are those of the VMs that arrived.  The code breaks it: see the run
\* vm_rollback.
RollbackIsComplete ==
    (\A v \in VM : att[v] \in {"idle", "over"}) /\ (\A d \in Detach : det[d] = "idle")
        => reservations = Cardinality(objects)

-----------------------------------------------------------------------------
(* The implementation of SlotPool, while operations on one VM do not overlap *)

given == {target[d] : d \in {e \in Detach : Uncounted(e) /\ ~Departed(e)}}

taken == {v \in VM : Counted(v)} \ {target[d] : d \in {e \in Detach : Uncounted(e)}}

Pool == INSTANCE SlotPool WITH Object <- VM, Max <- VmMax

\* The admission control of VMs hands out at most vm_max_reservations slots, and only a
\* vm-detach that fails takes one back without asking.
ImplementsSlotPool == Pool!SlotPoolSpec
==============================================================================
