---------------------------- MODULE CloudDriver ----------------------------
(***************************************************************************)
(* One VM on a cloud, from the attachment of its VMC to the cleanup there. *)
(*                                                                         *)
(* cldattach tests the VMC (at = "untested"), and whenever it is attached, *)
(* vmcregister registers it (at = "unregistered"), tested or not.  Then    *)
(* objattach calls the driver's vmcreate; what vmcreate made is undone by  *)
(* vmdestroy, in up to three places: the driver's own except clause,       *)
(* common_messages, and the rollback of objattach.  objdetach calls        *)
(* vmdestroy, and vmcregister and vmcunregister delete what carries the    *)
(* names of this experiment.  In between the VM may change its run state   *)
(* and be captured in an image.  Drivers.tla says what each of these       *)
(* programs does; here they run, any call may fail, an answer may be lost  *)
(* after the call took effect, the cloud deletes an instance some time     *)
(* after it accepted the deletion, and the client process may die.         *)
(***************************************************************************)
EXTENDS VmcDrivers, Integers

CONSTANTS
    Names,              \* the drivers to run
    MaxFaults,          \* bound: calls that fail
    RecreateAttempts    \* recreate_attempts

ASSUME NamesAssumption == Names \subseteq DriverNames
ASSUME BoundsAssumption == MaxFaults \in Nat /\ RecreateAttempts \in Nat

VARIABLES
    drv, leave,     \* the driver, leave_instance_on_failure
    at,             \* what is being done with the VMC or the VM
    todo,           \* the instructions of the running program still to run
    broken,         \* it left through its except clause (_status # 0)
    found,          \* what its last lookup said
    slipped,        \* a call failed, or a wait timed out, in it
    tries,          \* vmdestroy_repeat: calls left, -1 for no limit
    things,         \* what exists in the cloud
    going,          \* an instance whose deletion the cloud has accepted
    named,          \* what carries the name of the VM
    power,          \* whether the instance runs
    held,           \* what the VM holds of its (simulated) host
    ids,            \* the VM's attributes: the things whose id is known
    answered,       \* the creation of the instance was answered (_reservation)
    cstat,          \* instance_creation_status # 0
    made,           \* objattach: _vmcreate
    recreates,      \* objattach: _max_recreate_tries
    state,          \* the state of the VM in the store
    target,         \* vmrunstate: _target_state
    faults

cloud   == << things, going, named, power, held >>
store   == << state, target >>
vm      == << ids, answered, cstat, made, recreates, store >>
program == << todo, broken, found, slipped >>
vars    == << drv, leave, at, program, tries, cloud, vm, faults >>

(* detach_attempts: the default is 1; the templates of these clouds say -1. *)
detach_attempts(d) == IF d \in {"ec2", "gce", "lc", "sim"} THEN -1 ELSE 1

Capacity == {"cores", "memory"}

Init ==
    /\ drv \in Names /\ leave \in BOOLEAN
    /\ \/ at = "untested" /\ \E missing \in {{}} \cup {{x} : x \in Supplies} :
                              things = Supplies \ missing
       \/ at = "unregistered" /\ things = {"volume of another"}
    /\ todo = << >>
    /\ broken = FALSE /\ found = FALSE /\ slipped = FALSE /\ tries = 1
    /\ going = {} /\ named = things /\ power = "on" /\ held = [r \in Capacity |-> 0]
    /\ ids = {} /\ answered = FALSE /\ cstat = FALSE /\ made = FALSE
    /\ recreates = RecreateAttempts
    /\ state = "attached" /\ target = "attached"
    /\ faults = 0

(* --------------------------- one instruction --------------------------- *)

Present == things \cup going
Seen(r, by) == r \in Present /\ r \in IF by = "name" THEN named ELSE ids

Applies(i) ==
    /\ "found" \in i.when => found
    /\ "known" \in i.when => i.on \in ids
    /\ "missed" \in i.when => i.on \notin ids
    /\ "base image" \in i.when => "base image" \in ids
    /\ "on" \in i.when => power = "on"

(* What the code itself takes for an error.                                *)
Refused(i) ==
    \/ i.do = "running" /\ "instance" \in things /\ Seen("instance", i.by)
    \/ i.do = "impossible"
    \/ i.do = "need id" /\ i.on \notin ids
    \/ i.do = "need found" /\ ~found
    \/ i.do = "drop or raise" /\ ~Seen(i.on, i.by)

Makes == {"make", "make named", "make bare"}
Drops == {"drop", "drop or raise"}

Making(i) ==
    /\ i.do \in Makes
    /\ things' = things \cup {i.on} /\ going' = going \ {i.on}
    /\ named' = IF i.do = "make bare" THEN named \ {i.on} ELSE named \cup {i.on}
    /\ power' = IF i.on = "instance" THEN "on" ELSE power
    /\ UNCHANGED held
Tagging(i) ==
    /\ i.do = "tag"
    /\ named' = named \cup {i.on}
    /\ UNCHANGED << things, going, power, held >>
Dropping(i) ==
    /\ i.do \in Drops /\ Seen(i.on, i.by)
    /\ things' = things \ {i.on}
    /\ going' = going \cup ({i.on} \cap {"instance"})
    /\ UNCHANGED << named, power, held >>
Accounting(i) ==
    /\ i.do \in {"take", "give"}
    /\ held' = [held EXCEPT ![i.on] = IF i.do = "take" THEN @ + 1 ELSE @ - 1]
    /\ UNCHANGED << things, going, named, power >>
Powering(i) ==
    /\ i.do = "turn" /\ Seen("instance", i.by)
    /\ power' = i.on
    /\ UNCHANGED << things, going, named, held >>
Looking(i) ==
    /\ i.do \in Drops => ~Seen(i.on, i.by)
    /\ i.do = "turn" => ~Seen("instance", i.by)
    /\ i.do \notin Makes \cup {"tag", "take", "give"}
    /\ UNCHANGED cloud
Effect(i) == \/ Making(i) \/ Tagging(i) \/ Dropping(i) \/ Powering(i)
             \/ Accounting(i) \/ Looking(i)

Current == {todo[k] : k \in {1} \cap DOMAIN todo}     \* the instruction that is next
Proceed == todo' = Tail(todo) /\ UNCHANGED broken
Leave   == todo' = << >> /\ broken' = TRUE

(* Its condition does not hold.                                            *)
StepOver ==
    \E i \in Current :
    /\ ~Applies(i)
    /\ Proceed
    /\ UNCHANGED << drv, leave, at, found, slipped, tries, cloud, vm, faults >>

Step ==
    \E i \in Current :
    /\ Applies(i) /\ ~Refused(i)
    /\ i.do = "await" => "instance" \notin Present
    /\ Effect(i)
    /\ Proceed
    /\ found' = IF i.do = "find" THEN Seen(i.on, i.by) ELSE found
    /\ ids' = IF i.do \in {"make", "learn"} \/ (i.do = "check" /\ i.on \in things)
              THEN ids \cup {i.on}
              ELSE IF i.do \in {"make named", "make bare", "forget"} THEN ids \ {i.on}
              ELSE ids
    /\ answered' = (answered \/ (i.do \in Makes /\ i.on = "instance"))
    /\ UNCHANGED << drv, leave, at, slipped, tries, cstat, made, recreates, store, faults >>

Refuse ==
    \E i \in Current :
    /\ Applies(i) /\ Refused(i)
    /\ Leave
    /\ UNCHANGED << drv, leave, at, found, slipped, tries, cloud, vm, faults >>

(* The error of instruction i: it leaves the program or is swallowed.      *)
Fail(i) ==
    /\ \/ "raise" \in i.err /\ Leave
       \/ "skip" \in i.err /\ Proceed
    /\ slipped' = TRUE

(* A call fails, before or after it took effect.                           *)
Fault ==
    /\ faults < MaxFaults
    /\ \E i \in Current :
        /\ Applies(i) /\ i.do # "await"
        /\ Fail(i)
        /\ Effect(i) \/ UNCHANGED cloud
        /\ found' = (found /\ i.do # "find")
        /\ ids' = IF i.do \in Makes THEN ids \ {i.on} ELSE ids
    /\ faults' = faults + 1
    /\ UNCHANGED << drv, leave, at, tries, answered, cstat, made, recreates, store >>

(* The tries of a waiting loop are used up.                                *)
TimeOut ==
    \E i \in Current :
    /\ Applies(i) /\ i.do = "await" /\ "instance" \in Present
    /\ Fail(i)
    /\ UNCHANGED << drv, leave, at, found, tries, cloud, vm, faults >>

(* The cloud ends a deletion that it accepted.                             *)
Vanish ==
    /\ going # {}
    /\ going' = {}
    /\ UNCHANGED << drv, leave, at, program, tries, things, named, power, held, vm,
                    faults >>

(* --------------------- the operations on the VM ------------------------ *)

Start(phase, prog) ==
    /\ at' = phase /\ todo' = prog
    /\ broken' = FALSE /\ found' = FALSE /\ slipped' = FALSE
Rest(phase) == at' = phase /\ UNCHANGED program

Ended(phase) == at = phase /\ todo = << >>

StartCreate == Start("creating", vmcreate(drv)) /\ answered' = FALSE
StartDestroy(phase, failed) ==
    Start(phase, vmdestroy(drv, failed)) /\ tries' = detach_attempts(drv)

(* cldattach's test of a VMC; one that is refused ends the attachment of   *)
(* the cloud.                                                              *)
Test ==
    /\ at = "untested"
    /\ \E prog \in test_vmc_connection(drv) : Start("testing", prog)
    /\ UNCHANGED << drv, leave, tries, cloud, vm, faults >>
Tested ==
    /\ Ended("testing")
    /\ Rest(IF broken THEN "refused" ELSE "tested")
    /\ UNCHANGED << drv, leave, tries, cloud, vm, faults >>

(* objattach of a VMC: it is undone when the registration fails.           *)
Register ==
    /\ at = "unregistered"
    /\ \E discover \in BOOLEAN : Start("registering", vmcregister(drv, discover))
    /\ UNCHANGED << drv, leave, tries, cloud, vm, faults >>
Registered ==
    /\ Ended("registering")
    /\ Rest(IF broken THEN "not registered" ELSE "new")
    /\ UNCHANGED << drv, leave, tries, cloud, vm, faults >>

(* objattach                                                               *)
Attach ==
    /\ at = "new"
    /\ StartCreate
    /\ UNCHANGED << drv, leave, tries, cloud, ids, cstat, made, recreates, store, faults >>

Created ==
    /\ Ended("creating") /\ ~broken
    /\ Rest("up")
    /\ cstat' = FALSE /\ made' = TRUE
    /\ UNCHANGED << drv, leave, tries, cloud, ids, answered, recreates, store, faults >>

(* The exception of vmcreate is in objattach.                              *)
Raised ==
    \/ made /\ StartDestroy("rolling back", cstat')
    \/ ~made /\ Rest(IF leave THEN "left" ELSE "failed") /\ UNCHANGED tries

(* common_messages, when the creation failed.                              *)
CommonUndo ==
    /\ cstat' = (drv # "csk")
    /\ \/ drv # "csk" /\ ~leave /\ StartDestroy("undoing", TRUE)
       \/ (drv = "csk" \/ leave) /\ Raised
    /\ UNCHANGED << drv, leave, cloud, ids, answered, made, recreates, store, faults >>

(* The drivers that call vmdestroy in the finally clause of vmcreate.      *)
OwnUndo == \/ drv \in {"ec2", "gce", "lc", "as"} /\ answered
           \/ drv = "csk"

CreateFailed ==
    /\ Ended("creating") /\ broken
    /\ \/ /\ OwnUndo
          /\ Start("own undo", vmdestroy(drv, FALSE))
          /\ tries' = IF drv = "csk" THEN 1 ELSE detach_attempts(drv)
          /\ UNCHANGED << drv, leave, cloud, vm, faults >>
       \/ ~OwnUndo /\ CommonUndo

(* vmdestroy_repeat                                                        *)
Destroying == {"own undo", "undoing", "rolling back", "destroying", "detaching"}
DestroyAgain ==
    /\ at \in Destroying /\ todo = << >> /\ broken /\ tries # 1
    /\ Start(at, vmdestroy(drv, cstat))
    /\ tries' = IF tries = -1 THEN -1 ELSE tries - 1
    /\ UNCHANGED << drv, leave, cloud, vm, faults >>
Destroyed(phase) == Ended(phase) /\ (~broken \/ tries = 1)

AfterOwnUndo == Destroyed("own undo") /\ CommonUndo
AfterUndo ==
    /\ Destroyed("undoing")
    /\ UNCHANGED << drv, leave, cloud, vm, faults >>
    /\ Raised
AfterRollback ==
    /\ Destroyed("rolling back")
    /\ Rest("failed")
    /\ UNCHANGED << drv, leave, tries, cloud, vm, faults >>

(* post_attach_vm failed: the VM is created again, or the attach fails.    *)
(* After the last try pending_decide_abortion raises.                      *)
Recreate ==
    /\ at = "up" /\ recreates > 0
    /\ StartDestroy("destroying", cstat)
    /\ recreates' = recreates - 1
    /\ UNCHANGED << drv, leave, cloud, ids, answered, cstat, made, store, faults >>
CreateAgain ==
    /\ Destroyed("destroying")
    /\ StartCreate
    /\ UNCHANGED << drv, leave, tries, cloud, ids, cstat, made, recreates, store, faults >>
AttachFailed ==
    /\ at = "up"
    /\ StartDestroy("rolling back", cstat)
    /\ UNCHANGED << drv, leave, cloud, vm, faults >>
Attached ==
    /\ at = "up" /\ (recreates > 0 \/ RecreateAttempts = 0)
    /\ Rest("attached")
    /\ UNCHANGED << drv, leave, tries, cloud, vm, faults >>

(* objdetach                                                               *)
Detach ==
    /\ at = "attached"
    /\ StartDestroy("detaching", cstat)
    /\ UNCHANGED << drv, leave, cloud, vm, faults >>
Detached ==
    /\ Destroyed("detaching")
    /\ Rest(IF broken THEN "attached" ELSE "gone")
    /\ UNCHANGED << drv, leave, tries, cloud, vm, faults >>

(* objects' vmrunstate.  A request for the present state returns at once,  *)
(* as does one to fail or suspend a VM that is not attached.               *)
RunState ==
    /\ at = "attached"
    /\ \E ts \in {"save", "suspend", "fail", "attached"} \ {state} :
        /\ ts \in {"suspend", "fail"} => state = "attached"
        /\ target' = ts
        /\ Start("changing state", vmrunstate(drv, ts, state))
    /\ UNCHANGED << drv, leave, tries, cloud, ids, answered, cstat, made, recreates,
                    state, faults >>
RunStateChanged ==
    /\ Ended("changing state")
    /\ state' = IF broken THEN state ELSE target
    /\ Rest("attached")
    /\ UNCHANGED << drv, leave, tries, cloud, ids, answered, cstat, made, recreates,
                    target, faults >>

(* objects' vmcapture: the VM is detached once the image is made.  A       *)
(* capture that failed leaves the VM in its state "capture".               *)
Capture ==
    /\ at = "attached" /\ state = "attached"
    /\ state' = "capture"
    /\ Start("capturing", vmcapture(drv))
    /\ UNCHANGED << drv, leave, tries, cloud, ids, answered, cstat, made, recreates,
                    target, faults >>
(* Mutant: the VM is detached whether the capture succeeded or not.        *)
CapturedAnyway ==
    /\ Ended("capturing")
    /\ StartDestroy("detaching", cstat)
    /\ UNCHANGED << drv, leave, cloud, vm, faults >>
Captured ==
    /\ Ended("capturing")
    /\ \/ ~broken /\ StartDestroy("detaching", cstat)
       \/ broken /\ Rest("attached") /\ UNCHANGED tries
    /\ UNCHANGED << drv, leave, cloud, vm, faults >>

(* objects' imgdelete                                                      *)
DeleteImage ==
    /\ at = "gone" /\ state = "capture"
    /\ Start("deleting image", imgdelete(drv))
    /\ UNCHANGED << drv, leave, tries, cloud, vm, faults >>
ImageDeleted ==
    /\ Ended("deleting image")
    /\ Rest("image deleted")
    /\ UNCHANGED << drv, leave, tries, cloud, vm, faults >>

(* The client dies or its store is lost, the attributes of the VM with it. *)
Crash ==
    /\ at \in Destroying \cup {"creating", "up", "attached", "changing state", "capturing"}
    /\ at' = "crashed" /\ todo' = << >> /\ ids' = {}
    /\ UNCHANGED << drv, leave, broken, found, slipped, tries, cloud, answered,
                    cstat, made, recreates, store, faults >>

(* vmcunregister or a later vmcregister of the VMC: the first may run in a *)
(* process that has no connection to it.                                   *)
Cleanup ==
    /\ at \in {"failed", "left", "gone", "crashed"}
    /\ \/ Start("cleaning", vmcunregister(drv, TRUE))
       \/ Start("cleaning", vmcregister(drv, FALSE))
       \/ Start("cleaning blindly", vmcunregister(drv, FALSE))
    /\ UNCHANGED << drv, leave, tries, cloud, vm, faults >>
Cleaned ==
    /\ \/ Ended("cleaning") /\ Rest("cleaned")
       \/ Ended("cleaning blindly") /\ Rest("unregistered blindly")
    /\ UNCHANGED << drv, leave, tries, cloud, vm, faults >>

Program == StepOver \/ Step \/ Refuse \/ TimeOut
Following ==
    \/ Created \/ CreateFailed \/ AfterOwnUndo \/ AfterUndo \/ AfterRollback
    \/ Tested \/ Registered \/ DestroyAgain \/ CreateAgain \/ Detached \/ RunStateChanged \/ Captured
    \/ ImageDeleted \/ Cleaned
PostAttach == Recreate \/ AttachFailed \/ Attached

Next ==
    \/ Program \/ Fault \/ Vanish
    \/ Test \/ Register \/ Attach \/ PostAttach \/ Following
    \/ Detach \/ RunState \/ Capture \/ DeleteImage \/ Crash \/ Cleanup

Spec == Init /\ [][Next]_vars

(* The client goes on with what it has begun, and a cloud that accepted a  *)
(* deletion performs it.                                                   *)
FairSpec == Spec /\ WF_vars(Program) /\ WF_vars(Following) /\ WF_vars(PostAttach)
                 /\ WF_vars(Vanish)

(* ------------------------------ properties ----------------------------- *)

Busy    == Destroying \cup {"creating", "changing state", "capturing", "deleting image",
                            "cleaning", "cleaning blindly", "testing", "registering"}
Resting == {"untested", "tested", "refused", "unregistered", "not registered", "new", "up",
            "attached", "failed", "left", "gone", "crashed", "image deleted", "cleaned",
            "unregistered blindly"}

(* What the VM still has of the cloud, its images apart.                   *)
Leftover == (things \ {"volume of another", "image", "image name"})
            \cup {r \in Capacity : held[r] > 0}

(* What each driver is known to leave behind: the things that its          *)
(* vmdestroy does not look for, or not where vmcreate left them.           *)
LeftByUndo(d) ==
    CASE d = "osk" -> {"address", "volume"}
      [] d = "ec2" -> {"instance", "volume"}
      [] d = "pdm" -> {"volume"}
      [] d = "pcm" -> {"ports"}
      [] d = "plm" -> {"boot volume", "volume"}
      [] d = "slr" -> {"instance"}
      [] d = "ntnx" -> {"instance"}
      [] d = "kub" -> {"controller", "service"}
      [] d = "lc"  -> {"volume"}
      [] d = "as"  -> {"address", "nic"}
      [] OTHER     -> {}
LeftByDetach(d) ==
    CASE d = "osk" -> {"address"}
      [] d = "pcm" -> {"ports"}
      [] d = "kub" -> {"controller", "service"}
      [] d = "as"  -> {"address", "nic"}
      [] OTHER     -> {}
LeftByCleanup(d) ==
    CASE d = "osk" -> {"address"}
      [] d = "ec2" -> {"instance", "volume"}
      [] d = "gce" -> {"instance"}
      [] d = "as"  -> {"nic"}
      [] d = "sim" -> Capacity
      [] OTHER     -> {}

(* What the test of each driver takes for granted.                         *)
NotTested(d) ==
    CASE d = "osk" -> {}
      [] d = "ec2" -> {"network"}
      [] d \in {"pdm", "pcm", "plm"} -> {"key", "security group"}
      [] d \in {"gce", "slr", "lc", "as"} -> {"network", "security group"}
      [] d \in {"csk", "ntnx", "kub", "nop", "sim"} -> {"network", "key", "security group"}

(* A VMC that passed the test of cldattach has what its VMs need, what     *)
(* NotTested lists apart: it was there, or the test has supplied it.       *)
TestMeansSupplied ==
    at = "tested" /\ ~slipped =>
        {"network", "key", "security group"} \ NotTested(drv) \subseteq things

(* An attach that failed leaves nothing in the cloud, when every call of   *)
(* the last vmdestroy was answered: whatever vmcreate had made before the  *)
(* call that failed is undone by the driver, common_messages and           *)
(* objattach together, what LeftByUndo lists apart.                        *)
UndoneIsGone ==
    at = "failed" /\ ~leave /\ ~slipped => Leftover \subseteq LeftByUndo(drv)

(* A VM that objdetach has removed from the store has nothing left in the  *)
(* cloud, what LeftByDetach lists apart: once its attributes are gone, no  *)
(* later operation could still find it.                                    *)
DetachedIsGone ==
    at = "gone" /\ ~slipped => Leftover \subseteq LeftByDetach(drv)

(* vmccleanup finds by their names what a crash, an undo or a detach left, *)
(* what LeftByCleanup lists apart, and takes nothing of another            *)
(* experiment, except on CloudStack.                                       *)
CleanedIsClean ==
    at = "cleaned" /\ ~broken /\ ~slipped =>
        /\ Leftover \subseteq LeftByCleanup(drv)
        /\ drv # "csk" => "volume of another" \in things

(* A detach fails only because a call failed or a wait timed out: what an  *)
(* earlier detach or capture has removed already is no reason, except for  *)
(* the drivers that ask for it (Libvirt volumes, Nutanix instance).        *)
DetachFailsForAReason ==
    [][Detached /\ broken => slipped \/ drv \in {"plm", "ntnx"}]_vars

(* After a successful vmrunstate the instance, if it still exists, is      *)
(* stopped when the store says fail or save, and runs when it was brought  *)
(* back from there; kub, ntnx, nop and sim change the store only.          *)
(* (Brought back from a failed capture it stays stopped, although the      *)
(* store says attached.)                                                   *)
RunStateTold ==
    [][RunStateChanged /\ ~broken /\ ~slipped /\ "instance" \in things
         /\ drv \notin {"kub", "ntnx", "nop", "sim"} =>
            /\ state' \in {"fail", "save"} => power = "off"
            /\ state \in {"fail", "save"} /\ state' = "attached" => power = "on"]_vars

(* objects' vmcapture gives up the instance only once there is an image of *)
(* it, whichever call fails; Google's deletes the instance first, and      *)
(* OpenStack's does not look whether the image became active.              *)
CaptureKeepsOne ==
    [][at = "capturing" /\ drv \notin {"gce", "osk"} =>
         /\ "instance" \in things => "instance" \in things'
         /\ at' = "detaching" => "image" \in things]_vars

(* The rollback of a creation on libcloud that got no token: vmdestroy     *)
(* fails before its first call, and DETACH_ATTEMPTS is -1, so that         *)
(* vmdestroy_repeat tries for ever.                                        *)
UndoneWithoutCredentials ==
    drv = "lc" /\ at = "undoing" /\ "credentials_list" \notin ids

(* Every operation on a VM ends, with or without an error, except for that *)
(* one rollback.                                                           *)
EveryOperationEnds == at \in Busy ~> at \in Resting \/ UndoneWithoutCredentials
=============================================================================
