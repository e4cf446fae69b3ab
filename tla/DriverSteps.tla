---------------------------- MODULE DriverSteps ----------------------------
(***************************************************************************)
(* The steps that the programs of Drivers.tla and VmcDrivers.tla consist   *)
(* of.  An instruction is a record:                                        *)
(*   do    what it does, on which thing;                                   *)
(*   by    how the thing is found: the VM's "name" or the "uuid" that the  *)
(*         cloud gave;                                                     *)
(*   err   what becomes of a failed call: "raise" leaves the operation     *)
(*         through its except clause, "skip" is swallowed and the next     *)
(*         instruction runs.  Both when the code counts errors per VM      *)
(*         (api_error_counter) and raises past a limit, or swallows some   *)
(*         kinds of exception only;                                        *)
(*   when  the conditions under which it runs: "found" (the last lookup    *)
(*         saw the thing), "known" (the thing's id is in the VM's          *)
(*         attributes), "on" (the instance is running).                    *)
(***************************************************************************)
EXTENDS Sequences

(* ---------------------------- instructions ---------------------------- *)

Instr(do, on, by, err) ==
    [do |-> do, on |-> on, by |-> by, err |-> err, when |-> {}]

Call(what)       == Instr("call", what, "name", {"raise"})
Make(r)          == Instr("make", r, "name", {"raise"})
MakeNamed(r)     == Instr("make named", r, "name", {"raise"})  \* its id is learnt later
MakeBare(r)      == Instr("make bare", r, "name", {"raise"})   \* named and learnt later
Tag(r)           == Instr("tag", r, "name", {"raise"})
Learn(r)         == Instr("learn", r, "name", {})
Forget(r)        == Instr("forget", r, "name", {})
Find(by, err)    == Instr("find", "instance", by, err)
Running(by, err) == Instr("running", "instance", by, err)      \* status 187 if it is
Drop(r, by, err) == Instr("drop", r, by, err)
DropOrRaise(r)   == Instr("drop or raise", r, "name", {"raise"})  \* an absent one is an error
Await(err)       == Instr("await", "instance", "name", err)    \* until the instance is gone
Insist(r)        == Instr("need id", r, "uuid", {})
NeedId           == Insist("instance")
NeedFound        == Instr("need found", "instance", "name", {})
FindThe(r, err)  == Instr("find", r, "name", err)
Turn(power, err) == Instr("turn", power, "name", err)           \* the instance on or off
Impossible       == Instr("impossible", "instance", "name", {})  \* always an exception
Take(r)          == Instr("take", r, "name", {"raise"})
Give(r)          == Instr("give", r, "name", {"raise"})

Stop   == {"raise"}
Skip   == {"skip"}
Either == {"raise", "skip"}

Under(condition, i) == [i EXCEPT !.when = @ \cup {condition}]
If(condition, prog) == [k \in DOMAIN prog |-> Under(condition, prog[k])]
IfFound(prog) == If("found", prog)
IfKnown(prog) == If("known", prog)
IfOn(prog)    == If("on", prog)

(* Mutant: only fail stops the instance.                                   *)
TurningFailOnly(target, current, err) ==
    IF target = "fail" THEN << Turn("off", err) >>
    ELSE IF target = "attached" /\ current \in {"fail", "save"} THEN << Turn("on", err) >>
    ELSE << >>

(* What every vmrunstate makes of a target and of the current state: fail  *)
(* and save stop the instance, the way back starts it, suspend is unknown  *)
(* to all of them.                                                         *)
Turning(target, current, err) ==
    IF target \in {"fail", "save"} THEN << Turn("off", err) >>
    ELSE IF target = "attached" /\ current \in {"fail", "save"} THEN << Turn("on", err) >>
    ELSE << >>

(* A question that is asked again until the answer is right: an error is   *)
(* one more try, or the last.                                              *)
Poll(what) == Instr("call", what, "name", Either)
(* One whose errors are never more than one more try.                      *)
Ask(what)  == Instr("call", what, "name", Skip)

(* wait_for_instance_ready, wait_for_instance_boot, force_failure:         *)
(* shared_functions.py; each may time out, be aborted or fail.  is_vm_ready*)
(* is what the driver asks in each round.                                  *)
wait_for_instance_ready(is_vm_ready) == is_vm_ready \o << Call("ready") >>
wait_for_instance_boot  == Call("boot")
ReadyAndBoot(is_vm_ready) ==
    wait_for_instance_ready(is_vm_ready) \o << wait_for_instance_boot >>
=============================================================================
