------------------------------ MODULE Commands ------------------------------
(***************************************************************************)
(* The commands of the active operations that are not the life of a VM or  *)
(* of an AI (VMLifecycle, AILifecycle): the attachment and detachment of   *)
(* the cloud and of its VMCs, the cleanup of a VMC, the migration, the     *)
(* resizing and the changes of state of a VM and of an AI.                 *)
(*                                                                         *)
(* A command is a program of the instructions of Objects and of these:     *)
(*   cloud op     call the driver, which may refuse                        *)
(*   mark f       note how far the command is (a local variable)           *)
(*   when t       go on with then, if the test t of the local variables    *)
(*                holds, with else if not                                  *)
(*   raise        raise an exception: what follows up to the next finally  *)
(*                is skipped                                               *)
(*   finally     what follows runs in any case                             *)
(*   begin, end  around a command inside a command, which has its own      *)
(*               local variables                                           *)
(*   get         read the attributes of the object into the command's own  *)
(*   each T       for every object of the type that is listed              *)
(*   fork C, join run the commands C in threads, wait for them             *)
(***************************************************************************)
EXTENDS Objects, Integers, FiniteSets

CONSTANTS
    HostsOf,            \* the hosts that a driver discovers on each VMC, a sequence
    Limits              \* the limits on RESERVATIONS, by type, and on nr_vms

Mark(f)         == << [do |-> "mark", on |-> f] >>
When(t, th, el) == << [do |-> "when", on |-> t, then |-> th, else |-> el] >>
Raise           == << [do |-> "raise"] >>
Finally         == << [do |-> "finally"] >>
Begin           == << [do |-> "begin"] >>
End             == << [do |-> "end"] >>
Get             == << [do |-> "get"] >>
CloudCall(op, o) == << [do |-> "cloud", op |-> op, on |-> o] >>
Each(type, prog) == << [do |-> "each", on |-> type, then |-> prog] >>
Fork(C)         == << [do |-> "fork", kids |-> C] >>
Join            == << [do |-> "join"] >>

Hosts == UNION {{HostsOf[n][k] : k \in DOMAIN HostsOf[n]} : n \in DOMAIN HostsOf}
(* For every host in the attribute hosts; prog is a function of the host.  *)
ForHosts(prog)  == << [do |-> "hosts", for |-> prog] >>

(* --------------------------- initialize_object ------------------------- *)

known_cloud == Need(Cloud, {}) \o whole_object("time")

get_cloud_parameters      == copy_cloud
update_cloud_attribute(v) == get_cloud_parameters \o update_cloud(v)

(* attach: only the name of a VMC is checked.                              *)
initialize_attach(name) ==
    known_cloud \o whole_object(Cloud)
    \o object_exists(name) \o When("found", Raise, << >>)
    \o whole_object("defaults")
(* The others get a name that is new.                                      *)
initialize_unnamed == known_cloud \o whole_object(Cloud) \o whole_object("defaults")
(* detach, migrate, ...: the object is looked up by name, twice, and its   *)
(* attributes become the attributes of the command.                        *)
initialize_other(name) ==
    known_cloud \o whole_object(Cloud)
    \o object_exists(name) \o When("found", << >>, Raise)
    \o object_exists(name) \o When("found", << >>, Raise)
    \o Get

(* migrate also reads its destination, which must not be where the VM is.  *)
initialize_migrate(name, host) ==
    initialize_other(name)
    \o Need("its vmc", Whole) \o Need("its host", Whole)
    \o When(host, Raise, << >>)
    \o object_exists(host) \o When("found", << >>, Raise)
    \o << [do |-> "get destination"] >>
    \o Need("destination vmc", Whole)

(* --------------------------- admission_control ------------------------- *)

limits == whole_object("defaults")
(* The counters of AIs are in AILifecycle; their admission only reads here.*)
(* Mutant: the refused VMC keeps its reservation.                          *)
admission_attachKeep(type) ==
    limits \o IF type = "AI" THEN << >> ELSE
    update_counter(type, "RESERVATIONS", 1) \o When("over limit", Raise, << >>)
admission_attach(type) ==
    limits \o IF type = "AI" THEN << >> ELSE
    update_counter(type, "RESERVATIONS", 1)
    \o When("over limit", update_counter(type, "RESERVATIONS", -1) \o Raise, << >>)
admission_rollbackattach(type) ==
    limits \o IF type = "AI" THEN << >> ELSE update_counter(type, "RESERVATIONS", -1)
admission_detach(type) ==
    limits \o (IF type = "AI" THEN << >> ELSE update_counter(type, "RESERVATIONS", -1))
    \o IF type = "VM" THEN increment_attribute("its vmc", "nr_vms", -1) ELSE << >>
admission_rollbackdetach(type) ==
    limits \o (IF type = "AI" THEN << >> ELSE update_counter(type, "RESERVATIONS", 1))
    \o IF type = "VM" THEN increment_attribute("its vmc", "nr_vms", 1) ELSE << >>
admission_deschedule == limits \o increment_attribute("its vmc", "scheduled_vms", -1)
(* A VMC without room refuses after the VM was counted there.              *)
admission_migrate ==
    limits \o increment_attribute("destination vmc", "nr_vms", 1)
    \o whole_object("destination vmc") \o When("over limit", Raise, << >>)
admission_rollbackmigrate == limits \o increment_attribute("destination vmc", "nr_vms", -1)
admission_migratefinish   == limits \o increment_attribute("its vmc", "nr_vms", -1)

(* ----------------------------- cldattach -------------------------------- *)

Counters == << << "VMC", "RESERVATIONS" >>, << "VM", "RESERVATIONS" >> >>

(* The tests of the VMCs (CloudDriver) stop nothing.                       *)
cldattach ==
    If(Cloud, "list", get_cloud_parameters \o whole_object("time"), initialize_object_store(Counters))
    \o Finally

(* ----------------------------- objattach -------------------------------- *)

(* The record of a finished command.                                       *)
track == signal_api_refresh

(* Mutant: the entry in the list is forgotten.                             *)
not_pendingStatus(o) == pending_object_remove(o)
pending(o)     == add_to_list(o, "pending") \o pending_object_set(o)
not_pending(o) == pending_object_remove(o) \o remove_from_list(o, "pending")

pre_attach_vmc == whole_object("defaults")

(* Mutant: hosts are taken for granted.                                    *)
post_attach_vmcNoHosts(p, name) == << >>
post_attach_vmc(p, name) ==
    ForHosts([h \in Hosts |-> create_object("HOST", h, h, p)])

(* objattach, for the types other than VM; register, unregister and post   *)
(* are what is done for the type.                                          *)
objattach(type, o, name, first, pre, register, unregister, post) ==
    first
    \o add_to_list(o, "pending") \o pending_object_attrs(o) \o pending_object_set(o)
    \o Mark("pending")
    \o pre
    \o admission_attach(type) \o Mark("admitted")
    \o register \o Mark("registered")
    \o create_object(type, o, name, "none") \o Mark("created")
    \o post
    \o Finally
    \o When("failed",
            update_counter(type, "FAILED", 1)
            \o When("admitted", admission_rollbackattach(type), << >>)
            \o When("registered", unregister, << >>)
            \o When("created", destroy_object(type, o, name), << >>),
            update_counter(type, "ARRIVED", 1))
    \o track
    \o When("pending", not_pending(o), << >>)
(* The new VMC has the uuid of the process p.                              *)
vmcattach(p, name) ==
    objattach("VMC", p, name, initialize_attach(name), pre_attach_vmc,
              CloudCall("vmcregister", name), CloudCall("vmcunregister", name),
              post_attach_vmc(p, name))

(* ----------------------------- objdetach -------------------------------- *)

post_detach_vmc == ForHosts([h \in Hosts |-> get_object(h) \o destroy_object("HOST", h, h)])

(* Mutant: a VMC is detached with its VMs.                                 *)
pre_detach_vmcAnyway(force) == << >>
(* nr_vms is what it was when the command began.                           *)
pre_detach_vmc(force) == IF force THEN << >> ELSE When("has vms", Raise, << >>)

pre_detach_vm(force) ==
    IF force THEN << >>
    ELSE When("has ai", If("its ai", "list", Raise, << >>), << >>)

(* Mutant: the list of those that undergo something is not looked at.      *)
leave_undergoingNot(captured) == << >>
(* The object leaves the list of those that undergo what its state tells.  *)
(* What migrates or is captured is in a sorted set, from which only the    *)
(* command that captures can remove it.                                    *)
leave_undergoing(captured) ==
    LET left     == remove_from_list("it", "undergoing its state")
        wrong(s) == signal_api_refresh \o If("it", "undergoing " \o s, Raise, << >>)
    IN  When("attached", << >>,
             IF captured THEN When("capture", left, signal_api_refresh)
             ELSE When("migrate", wrong("migrate"), When("capture", wrong("capture"), left)))
post_detach_vm(captured) == admission_deschedule \o leave_undergoing(captured)

(* An AI of an AIDRS that is there is detached by force only.  It is out   *)
(* of the view of its AIDRS before its VMs are gone.                       *)
pre_detach_ai(force) ==
    (IF force THEN << >> ELSE When("has aidrs", If("its aidrs", "list", Raise, << >>), << >>))
    \o Drop("it", {"by aidrs"}) \o CloudCall("detach its VMs", "it")
post_detach_ai(captured) == leave_undergoing(captured)

(* objdetach, with what is done for the type.                              *)
objdetach(type, name, pre, undo, post) ==
    initialize_other(name)
    \o pending("it") \o Mark("pending")
    \o get_object_state("it")
    \o admission_detach(type) \o Mark("admitted")
    \o pre \o undo
    \o destroy_object(type, "it", name)
    \o post
    \o Finally
    \o When("failed",
            update_counter(type, "FAILED", 1)
            \o When("admitted", admission_rollbackdetach(type), << >>),
            update_counter(type, "DEPARTED", 1))
    \o When("known", track, << >>)
    \o When("pending", not_pending("it"), << >>)
vmcdetach(name, force) ==
    objdetach("VMC", name, pre_detach_vmc(force), CloudCall("vmcunregister", "its name"),
              post_detach_vmc)
vmdetach(name, force) ==
    objdetach("VM", name, pre_detach_vm(force), CloudCall("vmdestroy", "it"), post_detach_vm(FALSE))
vmdetach_captured(name) ==
    objdetach("VM", name, << >>, CloudCall("vmdestroy", "it"), post_detach_vm(TRUE))
aidetach(name, force, captured) ==
    objdetach("AI", name, pre_detach_ai(force), << >>, post_detach_ai(captured))

(* ----------------------------- clddetach -------------------------------- *)

(* Each object is detached as by a command of its own, whose outcome is    *)
(* ignored.  The wait for commands in the background has an end, and may   *)
(* end before they do.                                                     *)
clddetach ==
    get_cloud_parameters \o signal_api_refresh
    \o Each("VM", Get \o Begin \o vmdetach("its name", TRUE) \o End)
    \o Each("VMC", Get \o Begin \o vmcdetach("its name", TRUE) \o End)
    \o clean_object_store(Counters)
    \o Finally

vmccleanup(name) ==
    known_cloud \o whole_object(Cloud) \o whole_object("defaults")
    \o CloudCall("vmccleanup", name)
    \o Finally

(* The VMCs are attached in parallel, each by a process of its own.        *)
vmcattachall(children) ==
    known_cloud \o whole_object("defaults") \o get_cloud_parameters
    \o When("all attached", << >>,
            Fork(children) \o Join \o When("one failed", Raise, << >>)
            \o update_cloud_attribute("true"))
    \o Finally

(* What is listed is detached in parallel, here one object o by the        *)
(* command child; that a detachment failed is not looked at.               *)
objdetachall(type, o, child) ==
    whole_object("defaults")
    \o If(o, "list", get_object_state(o) \o whole_object(o) \o Fork({child}) \o Join, << >>)
    \o (IF type = "VMC" THEN get_cloud_parameters \o update_cloud_attribute("false")
        ELSE << >>)
    \o Finally

(* ------------------------ operations on a VM ---------------------------- *)

undergo(o, s) == add_to_list(o, "undergoing " \o s) \o set_object_state(o, s)

(* Whatever happens, the state is "attached" in the end.  The list that    *)
(* the VM is taken from is not the one that it was added to.               *)
migrate(name, host) ==
    initialize_migrate(name, host)
    \o update_object_attribute("it", "choices", "none")
    \o get_object_state("it")
    \o When("attached",
            Mark("pending") \o undergo("it", "migrate") \o pending("it")
            \o admission_migrate \o Mark("admitted")
            \o CloudCall("vmmigrate", "it")
            \o admission_migratefinish
            \o update_object_views("it", remove_from_view("it"))
            \o update_object_attribute("it", "host", "destination")
            \o update_object_attribute("it", "vmc", "destination vmc")
            \o update_object_views("it", add_to_view("it"))
            \o update_object_attribute("it", "mgt", "none"),
            Raise)
    \o Finally
    \o When("failed", When("admitted", admission_rollbackmigrate, << >>), << >>)
    \o When("pending",
            signal_api_refresh \o set_object_state("it", "attached") \o not_pending("it"), << >>)
    \o track

(* A VM of an AI takes the AI with it.  When the driver has resized the VM *)
(* vmresize reads an attribute that no driver sets, and raises.            *)
vmresize(name) ==
    initialize_other(name)
    \o When("has ai",
            whole_object("its ai") \o get_object_state("its ai")
            \o When("attached", undergo("its ai", "resize") \o undergo("it", "resize"), Raise),
            get_object_state("it") \o When("attached", undergo("it", "resize"), Raise))
    \o CloudCall("vmresize", "it")
    \o update_object_attribute("it", "mgt", "none") \o Raise
    \o Finally

(* The AI of the VM is detached first, and the VM last; whether either     *)
(* could be detached is not looked at.  Only a capture that went through   *)
(* is no longer counted as at work.                                        *)
vmcapture(name, ai_name, vmcrs) ==
    initialize_other(name)
    \o (IF vmcrs = "none" THEN << >>
        ELSE increment_attribute(vmcrs, "simultaneous", 1) \o increment_attribute(vmcrs, "total", 1))
    \o When("has ai",
            whole_object("its ai") \o get_object_state("its ai")
            \o When("attached",
                    undergo("its ai", "capture") \o undergo("it", "capture") \o Mark("captured")
                    \o Begin \o aidetach(ai_name, FALSE, TRUE) \o End, << >>),
            get_object_state("it")
            \o When("attached", undergo("it", "capture") \o Mark("captured"), << >>))
    \o When("captured",
            CloudCall("vmcapture", "it") \o update_object_attribute("it", "mgt", "none")
            \o Begin \o vmdetach_captured("its name") \o End
            \o (IF vmcrs = "none" THEN << >> ELSE increment_attribute(vmcrs, "simultaneous", -1)),
            << >>)
    \o Finally

vmrunstate(name, target) ==
    initialize_other(name)
    \o pending("it") \o Mark("pending")
    \o get_object_state("it")
    \o When(target, << >>,
            (IF target \in {"fail", "suspend"} THEN When("attached", << >>, Raise) ELSE << >>)
            \o CloudCall("vmrunstate", "it")
            \o set_object_state("it", target)
            \o (IF target = "attached"
                THEN remove_from_list("it", "undergoing save")
                     \o remove_from_list("it", "undergoing suspend")
                     \o remove_from_list("it", "undergoing fail")
                ELSE add_to_list("it", "undergoing " \o target))
            \o update_object_attribute("it", "mgt", "none"))
    \o Finally \o track \o When("pending", not_pending("it"), << >>)

(* The VMs that are not in the target state already change theirs, in      *)
(* parallel; only attached VMs fail or are saved.  Where none does, the    *)
(* AI changes its state all the same: state_changed_vms is a number, and   *)
(* airunstate_actual compares it with "0", which it never equals.  The     *)
(* states that the VMs should have are read once more.                     *)
runstate_list_for_ai(vm, child, target) ==
    get_object_state(vm)
    \o When(target, << >>,
            LET change == Fork({child}) \o Mark("changes")
            IN  IF target \in {"fail", "save"} THEN When("attached", change, << >>) ELSE change)
airunstate_actual(vm, child, target) ==
    runstate_list_for_ai(vm, child, target)
    \o When("changes",
            Join \o When("one failed", Raise,
                         get_object_state(vm)
                         \o When(target, << >>,
                                 IF target \in {"fail", "suspend"}
                                 THEN When("suspend", << >>, When("fail", << >>, Raise))
                                 ELSE Raise)),
            << >>)
    \o set_object_state("it", target)

(* The entry in PENDING is removed only on success.                        *)
airunstate(name, vm, child, target) ==
    initialize_other(name)
    \o pending("it") \o Mark("pending")
    \o airunstate_actual(vm, child, target)
    \o Finally \o track
    \o When("failed", << >>, When("pending", not_pending("it"), << >>))
=============================================================================
