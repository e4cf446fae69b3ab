----------------------------- MODULE AILifecycle -----------------------------
(***************************************************************************)
(* The life of the AIs (virtual applications) of one experiment: objattach *)
(* and objdetach of lib/operations/active_operations.py for the type AI,   *)
(* with pre_attach_ai, the speculative admission control, the VMs that are *)
(* attached and detached in parallel, and the AIDRS that submit AIs.       *)
(*                                                                         *)
(* The VMs of an AI take their slots at the level of SlotPool, which       *)
(* VMLifecycle implements: a vm-attach arrives, or fails and leaves        *)
(* nothing but (VMC-wide limit) its reservation.  An AI is attached and    *)
(* detached by one operation at a time, and detached once.  The attach     *)
(* of an AI draws a fresh uuid, so an AI stands for the call as well.      *)
(***************************************************************************)
EXTENDS Integers, FiniteSets

CONSTANTS AI,        \* the ai-attach calls, and the objects they make
          VM,        \* the VMs
          home,      \* the AI of each VM
          Aidrs,     \* the AIDRS
          NoAidrs,   \* the submitter of an AI attached by hand
          submitter, \* the AIDRS of each AI
          AiMax,     \* ai_max_reservations of the admission control limits
          VmMax,     \* vm_max_reservations
          MaxAis     \* max_ais of each AIDRS

ASSUME AIAssumption == /\ IsFiniteSet(AI) /\ IsFiniteSet(VM)
                       /\ NoAidrs \notin Aidrs
                       /\ home \in [VM -> AI]
                       /\ submitter \in [AI -> Aidrs \cup {NoAidrs}]
                       /\ AiMax \in Nat /\ VmMax \in Nat /\ MaxAis \in Nat

VARIABLES ai_reservations,  \* the counter RESERVATIONS of AIs
          nr_ais,           \* nr_ais of each AIDRS
          daemons,          \* the AIDRS objects
          ais,              \* the AI objects
          vms,              \* the VM objects
          pending,          \* the PENDING list of AIs
          taken, given,     \* the slots of VMs, see SlotPool
          att,              \* where each ai-attach is
          status,           \* how each ai-attach fared
          det,              \* where each ai-detach is
          dstatus,          \* how each ai-detach fared
          vm                \* where each VM is

counters == <<ai_reservations, nr_ais>>
slots == <<taken, given>>
attvars == <<att, status>>
detvars == <<det, dstatus>>
vars == <<counters, daemons, ais, vms, pending, slots, attvars, detvars, vm>>

Slots == INSTANCE SlotPool WITH Object <- VM, Max <- VmMax

AttachPC == {"idle", "pre_attach_ai", "reserve", "over_limit", "check_aidrs",
             "reserve_on_aidrs", "over_max_ais", "check_vms", "attach_vms",
             "early_rollback", "early_rollback_on_aidrs", "admission", "over_again",
             "aidefine", "post_attach_ai", "destroy_vm_list", "detach_vms", "rollback",
             "rollback_on_aidrs", "destroy_object", "unpend", "over", "vms_left", "aidrs_gone"}

\* exhausted: refused, and undone.  leaked: refused, and not undone.  early: failed before
\* pre_attach_ai was over.  refused_again: refused after it.  late: any failure after it.
Status == {"ok", "exhausted", "leaked", "early", "refused_again", "late"}

\* Where an operation is when it returned, or raised out of its finally block.
Ended == {"over", "vms_left", "aidrs_gone"}

DetachPC == {"idle", "release", "check_aidrs", "release_on_aidrs", "pre_detach_ai",
             "detach_vms", "destroy_object", "post_detach_ai", "rollback",
             "rollback_on_aidrs", "unpend", "over", "aidrs_gone"}

\* unaccounted: admission_control(..., "detach") raised half way.
DetachStatus == {"ok", "unaccounted", "failed", "still_listed"}

\* kept, lost: the vm-detach failed, with or without the object still there.  removed: it was
\* detached by hand.
VmPC == {"none", "to_attach", "attaching", "attached", "failed",
         "to_detach", "detaching", "gone", "kept", "lost", "removed"}

TypeOK == /\ ai_reservations \in Int
          /\ nr_ais \in [Aidrs -> Nat]
          /\ daemons \subseteq Aidrs
          /\ ais \subseteq AI
          /\ vms \subseteq VM
          /\ pending \subseteq AI
          /\ taken \subseteq VM /\ given \subseteq VM
          /\ att \in [AI -> AttachPC]
          /\ status \in [AI -> Status]
          /\ det \in [AI -> DetachPC]
          /\ dstatus \in [AI -> DetachStatus]
          /\ vm \in [VM -> VmPC]

Init == /\ ai_reservations = 0
        /\ nr_ais = [r \in Aidrs |-> 0]
        /\ daemons = Aidrs
        /\ ais = {} /\ vms = {} /\ pending = {}
        /\ Slots!SlotPoolInit
        /\ att = [a \in AI |-> "idle"]
        /\ status = [a \in AI |-> "ok"]
        /\ det = [a \in AI |-> "idle"]
        /\ dstatus = [a \in AI |-> "ok"]
        /\ vm = [v \in VM |-> "none"]

Count(n) == ai_reservations' = ai_reservations + n

CountOn(r, n) == nr_ais' = [nr_ais EXCEPT ![r] = @ + n]

VMsOf(a) == {v \in VM : home[v] = a}

Submitted(a) == submitter[a] # NoAidrs

\* The AI was submitted by an AIDRS that is still there.
HasAidrs(a) == submitter[a] \in daemons

Goto(a, label) == att' = [att EXCEPT ![a] = label]

\* An ai-attach raises, and goes on at label.
Fail(a, why, label) == status' = [status EXCEPT ![a] = why] /\ Goto(a, label)

-----------------------------------------------------------------------------
(* pre_attach_ai and speculative_admission_control *)

Begin(a) ==
    /\ att[a] = "idle"
    /\ pending' = pending \cup {a}
    /\ Goto(a, "pre_attach_ai")
    /\ UNCHANGED <<counters, daemons, ais, vms, slots, status, detvars, vm>>

\* Without VMC or template, or when create_vm_list_for_ai fails, it raises.
PreAttach(a) ==
    /\ att[a] = "pre_attach_ai"
    /\ \/ Goto(a, "reserve") /\ UNCHANGED status
       \/ Fail(a, "exhausted", "destroy_vm_list")
    /\ UNCHANGED <<counters, daemons, ais, vms, pending, slots, detvars, vm>>

\* INCR, then compare the value it returned.
Reserve(a) ==
    /\ att[a] = "reserve"
    /\ Count(1)
    /\ Goto(a, IF ai_reservations + 1 > AiMax THEN "over_limit" ELSE "check_aidrs")
    /\ UNCHANGED <<nr_ais, daemons, ais, vms, pending, slots, status, detvars, vm>>

UndoReserve(a) ==
    /\ att[a] = "over_limit"
    /\ Count(-1)
    /\ Fail(a, "exhausted", "destroy_vm_list")
    /\ UNCHANGED <<nr_ais, daemons, ais, vms, pending, slots, detvars, vm>>

\* object_exists of the AIDRS.
CheckAidrs(a) ==
    /\ att[a] = "check_aidrs"
    /\ Goto(a, IF HasAidrs(a) THEN "reserve_on_aidrs" ELSE "check_vms")
    /\ UNCHANGED <<counters, daemons, ais, vms, pending, slots, status, detvars, vm>>

WithinMaxAis(a) == nr_ais[submitter[a]] + 1 <= MaxAis

\* HINCRBY of nr_ais.  update_object_attribute raises when the AIDRS went away meanwhile.
ReserveOnAidrs(a) ==
    /\ att[a] = "reserve_on_aidrs"
    /\ \/ /\ HasAidrs(a)
          /\ CountOn(submitter[a], 1)
          /\ Goto(a, IF WithinMaxAis(a) THEN "check_vms" ELSE "over_max_ais")
          /\ UNCHANGED status
       \/ ~HasAidrs(a) /\ Fail(a, "leaked", "destroy_vm_list") /\ UNCHANGED nr_ais
    /\ UNCHANGED <<ai_reservations, daemons, ais, vms, pending, slots, detvars, vm>>

UndoOnAidrs(a) ==
    /\ att[a] = "over_max_ais"
    /\ \/ HasAidrs(a) /\ CountOn(submitter[a], -1) /\ Goto(a, "over_limit") /\ UNCHANGED status
       \/ ~HasAidrs(a) /\ Fail(a, "leaked", "destroy_vm_list") /\ UNCHANGED nr_ais
    /\ UNCHANGED <<ai_reservations, daemons, ais, vms, pending, slots, detvars, vm>>

\* Are there reservations left for all of its VMs?  If not: raise and undo nothing.
CheckVms(a) ==
    /\ att[a] = "check_vms"
    /\ \/ /\ Cardinality(VMsOf(a)) + Cardinality(taken) <= VmMax
          /\ vm' = [v \in VM |-> IF home[v] = a THEN "to_attach" ELSE vm[v]]
          /\ Goto(a, "attach_vms")
          /\ UNCHANGED status
       \/ /\ Cardinality(VMsOf(a)) + Cardinality(taken) > VmMax
          /\ Fail(a, "leaked", "destroy_vm_list")
          /\ UNCHANGED vm
    /\ UNCHANGED <<counters, daemons, ais, vms, pending, slots, detvars>>

-----------------------------------------------------------------------------
(* The VMs, attached and detached by the threads of parallel_obj_operation *)

VmGoto(v, label) == vm' = [vm EXCEPT ![v] = label]

\* admission_control(..., "attach") of the VM, or a failure before it.
ReserveVm(v) ==
    /\ vm[v] = "to_attach"
    /\ \/ Slots!Take(v) /\ VmGoto(v, "attaching")
       \/ VmGoto(v, "failed") /\ UNCHANGED slots
    /\ UNCHANGED <<counters, daemons, ais, vms, pending, attvars, detvars>>

\* The rest of its objattach.  Beyond the limit of its VMC it fails and keeps its slot.
AttachVm(v) ==
    /\ vm[v] = "attaching"
    /\ \/ vms' = vms \cup {v} /\ VmGoto(v, "attached") /\ UNCHANGED slots
       \/ Slots!Drop(v) /\ VmGoto(v, "failed") /\ UNCHANGED vms
       \/ VmGoto(v, "failed") /\ UNCHANGED <<vms, slots>>
    /\ UNCHANGED <<counters, daemons, ais, pending, attvars, detvars>>

\* admission_control(..., "detach") of the VM; its objdetach may also fail before it.
ReleaseVm(v) ==
    /\ vm[v] = "to_detach"
    /\ \/ Slots!GiveUp(v) /\ VmGoto(v, "detaching")
       \/ VmGoto(v, "kept") /\ UNCHANGED slots
    /\ UNCHANGED <<counters, daemons, ais, vms, pending, attvars, detvars>>

\* The rest of its objdetach.
DetachVm(v) ==
    /\ vm[v] = "detaching"
    /\ \/ Slots!Leave(v) /\ vms' = vms \ {v} /\ VmGoto(v, "gone")
       \/ Slots!Retake(v) /\ VmGoto(v, "kept") /\ UNCHANGED vms
       \/ Slots!Retake(v) /\ vms' = vms \ {v} /\ VmGoto(v, "lost")
    /\ UNCHANGED <<counters, daemons, ais, pending, attvars, detvars>>

vm_thread(v) == ReserveVm(v) \/ AttachVm(v) \/ ReleaseVm(v) \/ DetachVm(v)

\* A vm-detach of a user, which pre_detach_vm refuses once there is an AI object.  It is one
\* step, from the look at the AI to the end (a failed one changes nothing).
DetachByHand(v) ==
    /\ vm[v] = "attached" /\ home[v] \notin ais
    /\ Slots!Drop(v) /\ vms' = vms \ {v} /\ VmGoto(v, "removed")
    /\ UNCHANGED <<counters, daemons, ais, pending, attvars, detvars>>


\* Mutant: wait_completion waits until the queue is empty.
JoinedQueue(a) == \A v \in VMsOf(a) : vm[v] \notin {"to_attach", "to_detach"}

\* Mutant: wait_completion waits for as many results as there are VMs that succeed.
JoinedResults(a) ==
    \A v \in VMsOf(a) : vm[v] \notin {"to_attach", "attaching", "to_detach", "detaching", "failed"}

\* wait_completion: every task is done.
Joined(a) == \A v \in VMsOf(a) : vm[v] \notin {"to_attach", "attaching", "to_detach", "detaching"}

\* parallel_obj_operation("attach") is over.  It fails also when a VM is gone again.
JoinAttach(a) ==
    /\ att[a] = "attach_vms"
    /\ Joined(a)
    /\ \/ (\A v \in VMsOf(a) : vm[v] = "attached") /\ Goto(a, "admission") /\ UNCHANGED status
       \/ (\E v \in VMsOf(a) : vm[v] \in {"failed", "removed"}) /\ Fail(a, "early", "early_rollback")
    /\ UNCHANGED <<counters, daemons, ais, vms, pending, slots, detvars, vm>>

\* destroy_vm_list_for_ai lists the VMs that have an object; a lost one is not looked at again.
Listed(v) == IF v \in vms THEN "to_detach" ELSE IF vm[v] = "lost" THEN "gone" ELSE vm[v]

ListVms(a) == vm' = [v \in VM |-> IF home[v] = a THEN Listed(v) ELSE vm[v]]

\* parallel_obj_operation("detach") raises.
DetachFailed(a) == \E v \in VMsOf(a) : vm[v] \in {"kept", "lost"}

-----------------------------------------------------------------------------
(* The rest of objattach *)

\* The finally block of pre_attach_ai: admission_control(..., "rollbackattach"), which is
\* DECR and HINCRBY.  Whether HINCRBY raises or not, pre_attach_ai raises.
EarlyRollback(a) ==
    /\ att[a] = "early_rollback"
    /\ Count(-1)
    /\ Goto(a, IF Submitted(a) THEN "early_rollback_on_aidrs" ELSE "destroy_vm_list")
    /\ UNCHANGED <<nr_ais, daemons, ais, vms, pending, slots, status, detvars, vm>>

\* Mutant: nr_ais is not decremented.
EarlyRollbackOnAidrsNot(a) ==
    /\ att[a] = "early_rollback_on_aidrs"
    /\ Goto(a, "destroy_vm_list")
    /\ UNCHANGED <<counters, daemons, ais, vms, pending, slots, status, detvars, vm>>

EarlyRollbackOnAidrs(a) ==
    /\ att[a] = "early_rollback_on_aidrs"
    /\ \/ HasAidrs(a) /\ CountOn(submitter[a], -1)
       \/ ~HasAidrs(a) /\ UNCHANGED nr_ais
    /\ Goto(a, "destroy_vm_list")
    /\ UNCHANGED <<ai_reservations, daemons, ais, vms, pending, slots, status, detvars, vm>>

\* admission_control(..., "attach") only reads the counter.
Admission(a) ==
    /\ att[a] = "admission"
    /\ Goto(a, IF ai_reservations > AiMax THEN "over_again" ELSE "aidefine")
    /\ UNCHANGED <<counters, daemons, ais, vms, pending, slots, status, detvars, vm>>

\* Too many: DECR, and raise.  _pre_attach is True, so "rollbackattach" follows.
UndoAdmission(a) ==
    /\ att[a] = "over_again"
    /\ Count(-1)
    /\ Fail(a, "refused_again", "destroy_vm_list")
    /\ UNCHANGED <<nr_ais, daemons, ais, vms, pending, slots, detvars, vm>>

\* aidefine and assign_roles, which may fail, and create_object.
CreateObject(a) ==
    /\ att[a] = "aidefine"
    /\ \/ ais' = ais \cup {a} /\ Goto(a, "post_attach_ai") /\ UNCHANGED status
       \/ Fail(a, "late", "destroy_vm_list") /\ UNCHANGED ais
    /\ UNCHANGED <<counters, daemons, vms, pending, slots, detvars, vm>>

\* The applications on the VMs are configured and started.
PostAttach(a) ==
    /\ att[a] = "post_attach_ai"
    /\ \/ Goto(a, "unpend") /\ UNCHANGED status
       \/ Fail(a, "late", "destroy_vm_list")
    /\ UNCHANGED <<counters, daemons, ais, vms, pending, slots, detvars, vm>>

\* The finally block of a failed objattach: destroy_vm_list_for_ai.
AttachDestroyVms(a) ==
    /\ att[a] = "destroy_vm_list"
    /\ ListVms(a)
    /\ Goto(a, "detach_vms")
    /\ UNCHANGED <<counters, daemons, ais, vms, pending, slots, status, detvars>>

\* parallel_obj_operation("detach") is over.  When it raises, it raises out of the finally
\* block, and nothing after it runs.
AttachJoinDetach(a) ==
    /\ att[a] = "detach_vms"
    /\ Joined(a)
    /\ Goto(a, IF DetachFailed(a) THEN "vms_left"
               ELSE IF status[a] \in {"late", "refused_again"} THEN "rollback" ELSE "unpend")
    /\ UNCHANGED <<counters, daemons, ais, vms, pending, slots, status, detvars, vm>>

\* admission_control(..., "rollbackattach"): DECR, then HINCRBY.
Rollback(a) ==
    /\ att[a] = "rollback"
    /\ Count(-1)
    /\ Goto(a, IF Submitted(a) THEN "rollback_on_aidrs" ELSE "destroy_object")
    /\ UNCHANGED <<nr_ais, daemons, ais, vms, pending, slots, status, detvars, vm>>

\* Without its AIDRS it raises out of the finally block.
RollbackOnAidrs(a) ==
    /\ att[a] = "rollback_on_aidrs"
    /\ \/ HasAidrs(a) /\ CountOn(submitter[a], -1) /\ Goto(a, "destroy_object")
       \/ ~HasAidrs(a) /\ Goto(a, "aidrs_gone") /\ UNCHANGED nr_ais
    /\ UNCHANGED <<ai_reservations, daemons, ais, vms, pending, slots, status, detvars, vm>>

\* destroy_object, if it was created.
AttachDestroyObject(a) ==
    /\ att[a] = "destroy_object"
    /\ ais' = ais \ {a}
    /\ Goto(a, "unpend")
    /\ UNCHANGED <<counters, daemons, vms, pending, slots, status, detvars, vm>>

AttachUnpend(a) ==
    /\ att[a] = "unpend"
    /\ pending' = pending \ {a}
    /\ Goto(a, "over")
    /\ UNCHANGED <<counters, daemons, ais, vms, slots, status, detvars, vm>>

\* An ai-attach once begun.
attach_rest(a) == \/ PreAttach(a) \/ Reserve(a) \/ UndoReserve(a) \/ CheckAidrs(a)
                  \/ ReserveOnAidrs(a) \/ UndoOnAidrs(a) \/ CheckVms(a) \/ JoinAttach(a)
                  \/ EarlyRollback(a) \/ EarlyRollbackOnAidrs(a) \/ Admission(a)
                  \/ UndoAdmission(a) \/ CreateObject(a) \/ PostAttach(a)
                  \/ AttachDestroyVms(a) \/ AttachJoinDetach(a) \/ Rollback(a)
                  \/ RollbackOnAidrs(a) \/ AttachDestroyObject(a) \/ AttachUnpend(a)

objattach(a) == Begin(a) \/ attach_rest(a)

-----------------------------------------------------------------------------
(* objdetach *)

DGoto(a, label) == det' = [det EXCEPT ![a] = label]

DFail(a, why, label) == dstatus' = [dstatus EXCEPT ![a] = why] /\ DGoto(a, label)

DetachBegin(a) ==
    /\ det[a] = "idle"
    /\ a \in ais /\ att[a] \in Ended
    /\ pending' = pending \cup {a}
    /\ DGoto(a, "release")
    /\ UNCHANGED <<counters, daemons, ais, vms, slots, attvars, dstatus, vm>>

\* admission_control(..., "detach"): DECR, object_exists, HINCRBY.  When it raises,
\* _admission_control is still False, and nothing is undone.
Release(a) ==
    /\ det[a] = "release"
    /\ Count(-1)
    /\ DGoto(a, "check_aidrs")
    /\ UNCHANGED <<nr_ais, daemons, ais, vms, pending, slots, attvars, dstatus, vm>>

ReleaseCheck(a) ==
    /\ det[a] = "check_aidrs"
    /\ DGoto(a, IF HasAidrs(a) THEN "release_on_aidrs" ELSE "pre_detach_ai")
    /\ UNCHANGED <<counters, daemons, ais, vms, pending, slots, attvars, dstatus, vm>>

ReleaseOnAidrs(a) ==
    /\ det[a] = "release_on_aidrs"
    /\ \/ HasAidrs(a) /\ CountOn(submitter[a], -1) /\ DGoto(a, "pre_detach_ai") /\ UNCHANGED dstatus
       \/ ~HasAidrs(a) /\ DFail(a, "unaccounted", "unpend") /\ UNCHANGED nr_ais
    /\ UNCHANGED <<ai_reservations, daemons, ais, vms, pending, slots, attvars, vm>>

\* pre_detach_ai refuses an AI of an AIDRS that is still there, unless force_detach is set.
PreDetach(a) ==
    /\ det[a] = "pre_detach_ai"
    /\ \/ ListVms(a) /\ DGoto(a, "detach_vms") /\ UNCHANGED dstatus
       \/ HasAidrs(a) /\ DFail(a, "failed", "rollback") /\ UNCHANGED vm
    /\ UNCHANGED <<counters, daemons, ais, vms, pending, slots, attvars>>

DetachJoin(a) ==
    /\ det[a] = "detach_vms"
    /\ Joined(a)
    /\ \/ ~DetachFailed(a) /\ DGoto(a, "destroy_object") /\ UNCHANGED dstatus
       \/ DetachFailed(a) /\ DFail(a, "failed", "rollback")
    /\ UNCHANGED <<counters, daemons, ais, vms, pending, slots, attvars, vm>>

DetachDestroyObject(a) ==
    /\ det[a] = "destroy_object"
    /\ ais' = ais \ {a}
    /\ DGoto(a, "post_detach_ai")
    /\ UNCHANGED <<counters, daemons, vms, pending, slots, attvars, dstatus, vm>>

\* post_detach_ai takes the AI from the list of those that are captured or saved, and
\* that may raise.
PostDetach(a) ==
    /\ det[a] = "post_detach_ai"
    /\ \/ DGoto(a, "unpend") /\ UNCHANGED dstatus
       \/ DFail(a, "still_listed", "rollback")
    /\ UNCHANGED <<counters, daemons, ais, vms, pending, slots, attvars, vm>>

\* admission_control(..., "rollbackdetach"): INCR, then HINCRBY, even when the object is
\* already gone.  Without its AIDRS it raises out of the finally block.
RollbackRelease(a) ==
    /\ det[a] = "rollback"
    /\ Count(1)
    /\ DGoto(a, IF Submitted(a) THEN "rollback_on_aidrs" ELSE "unpend")
    /\ UNCHANGED <<nr_ais, daemons, ais, vms, pending, slots, attvars, dstatus, vm>>

RollbackReleaseOnAidrs(a) ==
    /\ det[a] = "rollback_on_aidrs"
    /\ \/ HasAidrs(a) /\ CountOn(submitter[a], 1) /\ DGoto(a, "unpend")
       \/ ~HasAidrs(a) /\ DGoto(a, "aidrs_gone") /\ UNCHANGED nr_ais
    /\ UNCHANGED <<ai_reservations, daemons, ais, vms, pending, slots, attvars, dstatus, vm>>

DetachUnpend(a) ==
    /\ det[a] = "unpend"
    /\ pending' = pending \ {a}
    /\ DGoto(a, "over")
    /\ UNCHANGED <<counters, daemons, ais, vms, slots, attvars, dstatus, vm>>

\* An ai-detach once begun.
detach_rest(a) == \/ Release(a) \/ ReleaseCheck(a) \/ ReleaseOnAidrs(a) \/ PreDetach(a)
                  \/ DetachJoin(a) \/ DetachDestroyObject(a) \/ PostDetach(a)
                  \/ RollbackRelease(a) \/ RollbackReleaseOnAidrs(a) \/ DetachUnpend(a)

objdetach(a) == DetachBegin(a) \/ detach_rest(a)

\* The destroy_object of an aidrs-detach: nr_ais goes away with the object, and the AIs stay.
DestroyAidrs(r) ==
    /\ r \in daemons
    /\ daemons' = daemons \ {r}
    /\ UNCHANGED <<counters, ais, vms, pending, slots, attvars, detvars, vm>>

Finished == \A a \in AI : att[a] \in Ended /\ det[a] \in {"idle"} \cup Ended

Next == \/ \E a \in AI : objattach(a) \/ objdetach(a)
        \/ \E v \in VM : vm_thread(v) \/ DetachByHand(v)
        \/ \E r \in Aidrs : DestroyAidrs(r)
        \/ Finished /\ UNCHANGED vars

Spec == Init /\ [][Next]_vars

\* An operation that was begun, and a thread that has a task, go on.
Fairness == /\ \A a \in AI : WF_vars(attach_rest(a)) /\ WF_vars(detach_rest(a))
            /\ \A v \in VM : WF_vars(vm_thread(v))

FairSpec == Spec /\ Fairness

-----------------------------------------------------------------------------
(* Which operation has a share in which counter *)

Attached(a) == status[a] = "ok" /\ att[a] \in {"unpend", "over"}

Departed(a) == dstatus[a] = "ok" /\ det[a] \in {"unpend", "over"}

Creating == {"over_max_ais", "check_vms", "attach_vms", "early_rollback", "admission",
             "over_again", "aidefine", "post_attach_ai"}

BeforeRollback == {"destroy_vm_list", "detach_vms", "rollback", "vms_left"}

\* The ai-attach incremented RESERVATIONS, and has not decremented it.
Counted(a) == \/ att[a] \in Creating \cup {"over_limit", "check_aidrs", "reserve_on_aidrs"}
              \/ status[a] = "leaked"
              \/ status[a] = "late" /\ att[a] \in BeforeRollback
              \/ Attached(a)

\* The ai-attach decremented RESERVATIONS twice.
Overdrawn(a) == /\ status[a] = "refused_again"
                /\ att[a] \in {"rollback_on_aidrs", "destroy_object", "unpend", "over", "aidrs_gone"}

\* The ai-detach decremented RESERVATIONS, and has not incremented it.
Uncounted(a) == \/ det[a] \in {"check_aidrs", "release_on_aidrs", "pre_detach_ai", "detach_vms",
                               "destroy_object", "post_detach_ai", "rollback"}
                \/ dstatus[a] = "unaccounted"
                \/ Departed(a)

CountedOn(a) == \/ att[a] \in Creating \cup {"early_rollback_on_aidrs"}
                \/ status[a] = "leaked"
                \/ /\ status[a] \in {"late", "refused_again"}
                   /\ att[a] \in BeforeRollback \cup {"rollback_on_aidrs"}
                \/ Attached(a)

UncountedOn(a) == \/ det[a] \in {"pre_detach_ai", "detach_vms", "destroy_object",
                                 "post_detach_ai", "rollback", "rollback_on_aidrs"}
                  \/ Departed(a)

SubmittedBy(r) == {a \in AI : submitter[a] = r}

-----------------------------------------------------------------------------
(* Properties *)

\* The counter RESERVATIONS of AIs is what the operations made it, however they interleave
\* and wherever they fail: every ai-attach and every ai-detach accounts for what it did
\* once, but for an AI that was refused again after its VMs were created.
ReservationsAddUp ==
    ai_reservations = Cardinality({a \in AI : Counted(a)}) - Cardinality({a \in AI : Overdrawn(a)})
                        - Cardinality({a \in AI : Uncounted(a)})

\* As long as an AIDRS is there, its nr_ais counts the AIs it submitted that hold a place,
\* although attaches and detaches change it in separate steps.
AidrsCountsAddUp ==
    \A r \in daemons : nr_ais[r] = Cardinality({a \in SubmittedBy(r) : CountedOn(a)})
                                     - Cardinality({a \in SubmittedBy(r) : UncountedOn(a)})

\* An AIDRS never has more AIs arriving or attached than max_ais, plus one for each ai-detach
\* at work and each that failed, while it is there.
MaxAisRespected ==
    \A r \in daemons :
        Cardinality({a \in SubmittedBy(r) \cap ais : status[a] = "ok"})
            <= MaxAis + Cardinality({a \in SubmittedBy(r) : det[a] # "idle" /\ ~Departed(a)})

\* A VM does not outlive the AI it belongs to: not a failed ai-attach that returned, and not an
\* ai-detach that succeeded, whatever the order in which the threads finish.
NoOrphanVm ==
    \A v \in vms : \/ home[v] \in ais
                   \/ att[home[v]] \notin {"over", "aidrs_gone"}

\* An AI that is an object has all of its VMs until its ai-attach fails or its ai-detach
\* starts to destroy them, but for those that were detached by hand before it was one.
AttachedIsWhole ==
    \A a \in ais :
        status[a] = "ok" /\ det[a] \in {"idle", "release", "check_aidrs", "release_on_aidrs", "pre_detach_ai"}
            => {v \in VMsOf(a) : vm[v] # "removed"} \subseteq vms

\* The VMs of an AI are there as long as it is, and no longer: the two above.
VmsFollowTheirAI == NoOrphanVm /\ AttachedIsWhole

\* Every ai-attach and every ai-detach ends, whatever its VMs do.
EveryCallReturns ==
    \A a \in AI : /\ att[a] = "pre_attach_ai" ~> att[a] \in Ended
                  /\ det[a] = "release" ~> det[a] \in Ended

\* "Since AIs have to wait for the VMs to be created, the reservation is already taken during
\* the "pre-attach AI" phase." (base_operations.py:1678): an attached AI has one of the
\* reservations.  The code breaks it: see the run ai_twice.
ReservationsCoverAIs ==
    ai_reservations >= Cardinality({a \in ais : status[a] = "ok" /\ det[a] = "idle"})
==============================================================================
