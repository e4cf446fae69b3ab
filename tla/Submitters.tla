----------------------------- MODULE Submitters -----------------------------
(***************************************************************************)
(* The daemons that submit work on their own: aidsubmit and aidremove, of  *)
(* an AIDRS (they attach AIs, and detach those whose lifetime is over),    *)
(* vmcrsubmit, of a VMCRS (it captures VMs), and that of a FIRS, which     *)
(* does nothing; with the commands that attach and detach their object,    *)
(* and with the processes (cbact) in which the daemons run the commands    *)
(* that they start.                                                        *)
(*                                                                         *)
(* D stands for an AIDRS, a VMCRS or a FIRS: their attachments and         *)
(* detachments differ in the daemons that they start, and in pre_attach    *)
(* and pre_detach.  An AI is an object like any other here; its VMs and    *)
(* its counters are those of AILifecycle.  Instructions:                   *)
(*                                                                         *)
(*   repeat P     run P for ever; leave goes on after it                   *)
(*   spawn C D    start one of the processes C that has not been started,  *)
(*                for D, and go on with then, a function of the process;   *)
(*                when there is none left, go on without (a bound)         *)
(*   list e, unlist e   an entry of running_processes                      *)
(*   running op   add up the entries of running_processes with op          *)
(*   full, perhaps full   the AIDRS is overloaded, may be overloaded       *)
(*   any T        raise, unless an object of the type is listed            *)
(***************************************************************************)
EXTENDS Commands

Repeat(prog)        == << [do |-> "repeat", then |-> prog] >>
Leave               == << [do |-> "leave"] >>
Spawn(kids, d, prog) == << [do |-> "spawn", kids |-> kids, of |-> d, for |-> prog] >>
Full                == << [do |-> "full"] >>
PerhapsFull         == << [do |-> "perhaps full"] >>
CountRunning(op)    == << [do |-> "running", op |-> op] >>
NeedAny(type)       == << [do |-> "any", on |-> type] >>

(* --------------------------- running_processes ------------------------- *)

(* An exception is reported, and not raised.                               *)
update_process_list(change, type, o, op) ==
    Begin \o signal_api_refresh
    \o << [do |-> change, entry |-> << type, o, op >>] >> \o Finally \o End

(* The process of a command that runs in the background.  The entry that   *)
(* it removes is that of its own type, object and operation.               *)
cbact(type, o, op, prog) ==
    whole_object("defaults") \o whole_object("query")
    \o prog
    \o Finally \o update_process_list("unlist", type, o, op)

(* Whoever starts a process puts it into the list after it has started it. *)
start(kids, d, type, objs, op) ==
    Spawn(kids, d, [k \in kids |-> update_process_list("list", type, objs[k], op)])

(* Mutant: only what is being detached is counted.                         *)
get_object_countDetach == CountRunning("detach") \o CountRunning("detach")
get_object_count == CountRunning("attach") \o CountRunning("detach")

(* An AIDRS that has its ai_max_reservations or max_ais (AILifecycle), or  *)
(* whose daemons run daemon_parallelism commands, is overloaded, and so is *)
(* one of which that cannot be told.                                       *)
get_aidrs_params ==
    Begin \o PerhapsFull \o limits \o get_object_count
    \o Finally \o When("failed", Full, << >>) \o End

(* ------------------------------ daemons --------------------------------- *)

(* Mutant: the state is not looked at.                                     *)
submits_nowAlways(prog) == prog
submits_now(prog) == When("none", << >>, When("stopped", << >>, prog))

submit_round(D, kids, ais) ==
    get_object_state(D) \o whole_object(D) \o get_aidrs_params
    \o When("over limit", << >>, submits_now(start(kids, D, "AI", ais, "attach")))

(* Mutant: whatever goes wrong is tried again.                             *)
aidsubmitStubborn(D, kids, ais) ==
    Repeat(Begin \o submit_round(D, kids, ais) \o Finally \o End)
aidsubmit(D, kids, ais) ==
    Repeat(submit_round(D, kids, ais) \o get_object_state(D) \o When("none", Leave, << >>))

(* Mutant: the AI is given another state, so that nobody detaches it twice.*)
overdueOnce(D, ai, kids) ==
    get_object_state(ai)
    \o When("none", Raise,
            When("attached", set_object_state(ai, "leaving")
                             \o start(kids, D, "AI", [k \in kids |-> ai], "detach"), << >>))
(* An AI without a state is an error in the message about it.              *)
overdue(D, ai, kids) ==
    get_object_state(ai)
    \o When("none", Raise,
            When("attached", start(kids, D, "AI", [k \in kids |-> ai], "detach"), << >>))

aidremove(D, ai, kids) ==
    Repeat(whole_object(D)
           \o If(ai, "by aidrs", overdue(D, ai, kids), << >>)
           \o get_object_state(D) \o When("none", Leave, << >>))

(* The entry is that of the AI; the one that is removed is that of the VM. *)
vmcrsubmit(D, ai, kids) ==
    Repeat(get_object_state(D) \o whole_object(D) \o PerhapsFull
           \o When("over limit", << >>,
                   submits_now(If(ai, "views", get_object(ai) \o
                       start(kids, D, "AI", [k \in kids |-> ai], "capture"), << >>)))
           \o get_object_state(D) \o When("none", Leave, << >>))

(* Its loop never runs, and cbact does not know it.                        *)
firsubmit == << >>

daemon(D, role, ai, kids, ais) ==
    CASE role = "submit"  -> cbact("AIDRS", D, "submit", aidsubmit(D, kids, ais))
      [] role = "remove"  -> cbact("AIDRS", D, "remove", aidremove(D, ai, kids))
      [] role = "capture" -> cbact("VMCRS", D, "submit", vmcrsubmit(D, ai, kids))
      [] role = "fault"   -> cbact("FIR", D, "submit", firsubmit \o Raise)

(* ---------------------- attachment and detachment ---------------------- *)

pre_attach_aidrs == NeedAny("VMC") \o whole_object("defaults")
pre_attach_vmcrs == whole_object("defaults")
pre_attach_firs  == whole_object("defaults")

post_attach_aidrs(D, submitter, remover) ==
    start({submitter}, D, "AIDRS", [k \in {submitter} |-> D], "submit")
    \o start({remover}, D, "AIDRS", [k \in {remover} |-> D], "remove")
post_attach_vmcrs(D, submitter) ==
    start({submitter}, D, "VMCRS", [k \in {submitter} |-> D], "submit")
post_attach_firs(D, submitter) ==
    start({submitter}, D, "FIRS", [k \in {submitter} |-> D], "submit")

aidrsattach(D, name, c) ==
    objattach("AIDRS", D, name, initialize_unnamed, pre_attach_aidrs, << >>, << >>,
              post_attach_aidrs(D, c.child, c.remover))
vmcrsattach(D, name, c) ==
    objattach("AIDRS", D, name, initialize_unnamed, pre_attach_vmcrs, << >>, << >>,
              post_attach_vmcrs(D, c.child))
firsattach(D, name, c) ==
    objattach("AIDRS", D, name, initialize_unnamed, pre_attach_firs, << >>, << >>,
              post_attach_firs(D, c.child))

pre_detach_aidrs == set_object_state("it", "stopped")

aidrsdetach(name) == objdetach("AIDRS", name, pre_detach_aidrs, << >>, << >>)
vmcrsdetach(name) == objdetach("AIDRS", name, << >>, << >>, << >>)

(* Any object by its name, whatever has become of it since it was found.   *)
alter_state(name, v) ==
    known_cloud \o whole_object("query") \o object_exists(name)
    \o When("found", get_object_state("seen") \o set_object_state("seen", v), << >>)
    \o Finally

(* --------------------- what the daemons start --------------------------- *)

(* An AI whose application is not known is refused at once.                *)
aiattach(o, name, known) ==
    cbact("AI", o, "attach",
          objattach("AI", o, name, initialize_unnamed \o IF known THEN << >> ELSE Raise,
                    CloudCall("aidefine", o), << >>, << >>, << >>))
aidetach_daemon(o, name) == cbact("AI", o, "detach", aidetach(name, TRUE, FALSE))
vmcapture_daemon(o, name, ai_name, D) ==
    cbact("VM", o, "capture", vmcapture(name, ai_name, D))
=============================================================================
