# CloudBench (cbtool) in TLA+

This directory is a verification project for CloudBench, kept beside its code. It
contains TLA+ modules translated from the Python sources, TLC configurations that check
them on small instances, and proofs, checked by TLAPS, that hold for every value of the
constants. Paths are relative to the root of the repository; `A`, `B`, `R`, `T`
and `S` abbreviate

    A  src/lib/operations/active_operations.py
    B  src/lib/operations/base_operations.py
    R  src/lib/stores/redis_datastore_adapter.py
    T  src/lib/auxiliary/thread_pool.py
    S  src/lib/clouds/shared_functions.py

`PROJECT.json` relates every definition to the lines it translates, every property to the
run that checks it and to a mutation of the code it detects, and lists the hazards of the
code, the divergences found and the theorems.

## 1. The system

CloudBench runs experiments on clouds. A user, through the command line, the XML-RPC API
or the GUI, attaches and detaches *objects*: VMC (a Virtual Machine Container, a host or
region of a cloud), VM, AI (a virtual application, a group of VMs), AIDRS, VMCRS and FIRS
(daemons which submit AIs, captures and faults). Every command may run in a process of its
own, one command may start a pool of threads, and daemons start commands. All of them
share one Redis server, the *object store*, and the cloud. Nothing else coordinates them.
Single Redis commands are atomic, and the code makes nothing atomic across two commands
except with an advisory lock.

    cli / API / GUI / daemons                       processes, threads
            |
    active operations (objattach, objdetach, ...)  --- thread pool
            |            |               |
       admission     placement      cloud drivers --- the cloud
        control     (turns, locks)
            \            |
             object store (Redis): objects, lists, views, counters, locks, channels
                         |
             the scripts inside the VMs (barrier, status)

### Inventory

| Component | Source | State | Operations | What is hard | What makes it correct |
|---|---|---|---|---|---|
| Advisory lock | R:1863-1992 | one key per lock, with a time to live | `acquire_lock`, `release_lock` | three round trips to take it, two to free it; it expires; owners die; waiters are impatient and unfair | one owner at a time, nobody's lock is taken from him, waiting ends, an orphaned key goes away |
| Objects, lists, views, tags, counters | R:250-1860 | a hash per object, lists and sorted sets, counters | `create_object`, `destroy_object`, `get_object`, `add_to_list`, `update_counter`, `update_object_attribute` | an object is many keys written one after the other; readers in between; check-then-act on existence and names | who finds a name finds all of its object; object, list, views and tags agree when nothing is in progress; counters count what there is |
| Cloud and VMC attach and detach | A:59-1100, 2353-2400, 2992-3030, 3574-3700 | the cloud's attributes, VMC and HOST objects, `all_vmcs_attached` | `cldattach`, `clddetach`, `vmcattach`, `vmcdetach`, `vmcattachall`, `objdetachall`, `vmccleanup` | no lock between two commands on one name; the cloud detached under running commands; failures between the steps of `create_object` | nothing half there when the commands are over, a detached cloud leaves nothing |
| Publish/subscribe, barrier | R:1575-1795, src/scripts/common/cb_subscribe.py, B | channels, a counter per barrier | `publish_message`, `subscribe`, barrier | a message is lost on who is not subscribed yet; last arrival opens for all | everyone leaves the barrier, nobody before all arrived |
| VM attach and detach | A:1902-2350, 3195-3354 | objects, PENDING list, counters, instances in the cloud | `objattach`, `objdetach` with `pre_*` and `post_*` | failure of any step and its rollback; overlap of two operations on one VM; retries of VMs which do not answer | counters equal what was done; no instance without object; PENDING is exact; limits hold; calls return |
| Admission control | B:1640-1935 | RESERVATIONS per type, `nr_vms`, `scheduled_vms`, `nr_ais` | attach, schedule, deschedule, detach, rollback*, migrate* | increment, compare, decrement are separate; each branch undoes a different part | the limit is never exceeded, each slot is returned exactly once |
| AI attach and detach | A:1528-1694, 2725-2806, 3066-3115, 3441-3480; B:1935-2034, 2963-3036 | the AI's counters, its list of VMs | `pre_attach_ai`, speculative admission, `aidetach`, `airesize` | its VMs are attached in parallel and any of them may fail; reservations are taken before and again counted after | an attached AI is whole, a failed one leaves nothing, its reservation is returned once |
| VMC choice | A:1170-1525 | `placement_leader`, `first_vmc`, `scheduled_vms`, two locks | part of `pre_attach_vm` | turns taken by polling, from a bounded pool of threads; counts read one by one | the order is deterministic, every turn comes, counts are exact, VMCs fill evenly, co-location holds |
| Thread pool, parallel operations | T:24-86, A:5055-5208 | a bounded queue, results | `add_task`, `wait_completion`, `abort`, `parallel_obj_operation` | pools are shared by key; results are copied and reset in two steps; abort waits for a thread which may never have had a task | success is told only of what is so; a caller with a pool for itself gets its own results; calls end |
| Submission daemons | A:5367-5760, src/cbact | AIDRS, VMCRS, FIRS objects and their processes | `aidsubmit`, `aidremove`, the daemon loops | a daemon outlives, or is removed during, its submissions | not more AIs at once than `daemon_parallelism`; removal ends the daemon, nothing else does; what is overdue goes |
| Port allocation | B:3787-3868 | one list and one key per use | `auto_allocate_port`, `auto_free_port` | check-then-act under a lock; two different key names | two users never share a port, freed ports come back |
| Staging | B, A | a staging list and channel | `pause_vm`, `pause_app`, `continue_vm`, `continue_app` | subscribe and publish race | a paused attach goes on once continued, or after its time |
| Migration, capture, resize, run state | A:3700-4300 | lists of VMs under an operation | `migrate`, `vmcapture`, `vmresize`, `vmrunstate` | the VM may depart, or its VMC, meanwhile; two list names | the list and the state agree; the VM is where the store says |
| Simulated cloud | src/lib/clouds/sim_cloud_ops.py | host capacities in the store | `vm_placement`, `vmcreate`, `vmdestroy` | capacity is read, chosen and written under a lock, and given back by every way out | what a VM took of its host it gives back once |
| Cloud drivers | src/lib/clouds/, S | the cloud: instances, volumes, addresses, ports, images; the ids in the VM's attributes | `test_vmc_connection`, `vmcregister`, `vmcunregister`, `vmcreate`, `vmdestroy`, `vmrunstate`, `vmcapture`, `imgdelete` | any call fails, or took effect and its answer is lost; deletions take time; tries and undoing nested three deep; the client dies | what is undone, detached or cleaned up is gone; a retry does not stumble over what is gone; operations end |
| Passive operations, metric stores, UI, configuration, remote execution, tools | see PROJECT.json | none of an experiment | | | outside of this project, see section 7 |

## 2. The modules

    Mutex        <-- implemented by --  StoreLock      <-- StoreLock_proofs
      ^ used by                                            MCStoreLock
    Placement                                          <-- Placement_proofs, MCPlacement
                                                           PlacementTurns_proofs
      | PreAttach of VMLifecycle abstracts it
    VMLifecycle  -- implements -->      SlotPool       <-- VMLifecycle_proofs
                                           ^ used by       VMSerial_proofs, MCVMLifecycle
                                        AILifecycle    <-- AILifecycle_proofs, MCAILifecycle
    Parallel  (the threads that AILifecycle joins)     <-- Parallel_proofs, MCParallel

    Objects <- Commands <- Submitters <- Console       <-- MCConsole
    (programs of the object store, of commands, of daemons; Console runs them)

    DriverSteps <- Drivers <- VmcDrivers <- CloudDriver   (programs of 14 drivers; the last runs them)
                                                       <-- CloudDriver_proofs

There are two kinds of module. The first six systems above are written action by action,
one per step of the code, with parameters for any number of processes, and are all
proved about. Where the code is long, straight and repetitive (34 commands and
daemons, 14 drivers with some nine operations each), it is written as *programs*: constant
sequences of instructions, one per call that changes shared state or can fail, in the order
of the code, and one module (`Console`, `CloudDriver`) has an action per kind of instruction
and says what an exception, a refusal, a lost answer or a death does at each of them.

`Mutex` and `SlotPool` are the abstract specifications: what a lock and what an admission
control promise. `StoreLock` is shown to implement the first, `VMLifecycle` the second,
both by TLC and by proof. `Placement` uses the locks through `INSTANCE Mutex`, which the
refinement of `StoreLock` justifies (while critical sections are shorter than the time to
live, see section 5). `AILifecycle` uses the slots of VMs through `INSTANCE SlotPool`,
which the refinement of `VMLifecycle` justifies: it sees of a vm-attach that it takes a
slot, and then arrives or fails. Of the thread pool it sees that a join returns when every
thread is done, which `Parallel` looks into. `Console` composes the commands and the daemons
on one object store, and sees of a driver that it does what it was asked, or refuses;
`CloudDriver` looks into that.

In all modules one action is one call that changes shared state, so that operations
interleave at every point where they do in the code. Names are those of the code: an
action or a label carries the name of the function or transaction it models, a variable
that of the attribute or list.

### StoreLock

A `Caller` is one call of `acquire_lock` and its `release_lock`; the random lock string is
the caller. `key` and `ttl` are the Redis key. `acquire_lock` is `FirstTry` (SETNX),
`Retry` (SETNX after a sleep, then the clock: whose patience is used up raises whatever
SETNX said), `Verify` (GET) and `SetExpire` (EXPIRE, on whoever's key it is by then).
`release_lock` is `CheckOwner` (GET) and `Delete`. `Crash` ends a caller between any two
round trips. `Tick` is time: it expires the key and ages waiters and holders.

### VMLifecycle

A `VM` is one `vm-attach` and its object (each call draws a fresh uuid), a `Detach` one
`vm-detach`. The variables are the counter RESERVATIONS (`reservations`), `nr_vms` and
`scheduled_vms` of each VMC, the lists of objects and of PENDING VMs, the counters
ARRIVED, DEPARTED and FAILED (`reported`), the instances of the cloud, and the local state
of each operation: where it is (`att`, `det`), the VMC, which flags are set (`done`, for
`_vmcreate` and `_created_object`), tries left, and how it fared.

`objattach` is `Begin`, `PreAttach` (ends with "schedule"), `Reserve` / `UndoReserve` /
`ReserveOnVmc` ("attach"), `VmCreate`, `CreateObject`, `PostAttach`, the loop `Recreate*`
for VMs which do not authenticate, and the finally block: `RollbackReserve`,
`RollbackOnVmc` ("rollbackattach"), `RollbackInstance`, `AttachDeschedule`,
`RollbackObject`, `AttachUnpend`. `objdetach` is `DetachBegin`, `Release`, `ReleaseOnVmc`
("detach"), `VmDestroy`, `DestroyObject`, `DetachDeschedule`, and after a failure
`RollbackRelease`, `RollbackReleaseOnVmc`, `DetachUnpend`. What the code does on failure
depends on flags; the label that `Fail` is given is where those flags lead, e.g. a VM over
the limit goes straight to "deschedule" because `_admission_control` is still False.

### Placement

The part of `pre_attach_vm` that chooses a VMC. The VMs of an AI are numbered (`Enlist`,
which is `create_vm_list_for_ai` or `airesize`), queued to a pool of `attach_parallelism`
workers (`WorkerTakes`), and then, if the method is round robin, take turns: `Lock`,
`ReadLeader`, then `BackOff` (release, sleep, again) or `AdvanceLeader`. Whoever has its
turn, and every VM without an AI, scans the VMCs of the pool (`ScanVmc`; a VMC without
count gets a 0 in another round trip, `ResetCount`), chooses (`Choose`: the first VMC left
once the highest are removed), may be co-located (`ColocateLock`, then `Colocate` reads
`first_vmc` of its AI and `SetFirst` writes it if there was none), increments the count
(`Schedule`) and releases what it holds. `FinishAttach` is the rest of
`objattach`, which succeeds or leads to "deschedule" (`DescheduleLock`, `Deschedule`,
`DescheduleUnlock`). `Shrink` is `airesize` with a negative quantity. The three values the
scan keeps per VM (next VMC, highest count, first VMC not highest) stand for the
dictionary and list of the code.

### AILifecycle

An `AI` is one `ai-attach` and its object, and the one `ai-detach` that may follow it.
Shared state is the counter RESERVATIONS of AIs, `nr_ais` of every AIDRS, the lists of
AIDRS, AI and VM objects, the PENDING list and the slots of VMs (`taken`, `given`). `att`,
`status`, `det`, `dstatus` say where each operation is and how it fared, `vm` where the
thread of each VM is.

`objattach` is `Begin`, `PreAttach`, then the speculative admission control: `Reserve`
(INCR and compare) or `UndoReserve`, `CheckAidrs` (`object_exists`), `ReserveOnAidrs`
(HINCRBY and compare) or `UndoOnAidrs`, `CheckVms` (are there reservations left for its
VMs? otherwise it raises and undoes nothing). `parallel_obj_operation` gives every VM a
thread: `ReserveVm`, `AttachVm`, and on the way back `ReleaseVm`, `DetachVm`. `JoinAttach`
is the return of `wait_completion`. If a VM failed, the finally block of `pre_attach_ai`
undoes the counters (`EarlyRollback`, `EarlyRollbackOnAidrs`); else `Admission` reads the
counter again, `CreateObject` and `PostAttach` follow. The finally block of `objattach` is
`AttachDestroyVms` (lists the VMs that have an object, starts the threads),
`AttachJoinDetach`, `Rollback`, `RollbackOnAidrs`, `AttachDestroyObject`, `AttachUnpend`.
`objdetach` is `Release`, `ReleaseCheck`, `ReleaseOnAidrs`, `PreDetach`, `DetachJoin`,
`DetachDestroyObject`, `PostDetach`, and after a failure `RollbackRelease`,
`RollbackReleaseOnAidrs`; `DetachUnpend` ends both. `DestroyAidrs` is the `destroy_object`
of an `aidrs-detach`, at any time. `DetachByHand` is a user's `vm-detach` of a VM whose AI is no
object yet (`pre_detach_vm` refuses it later): the AI goes on without that VM.

`status` names the ways to fail that the finally block tells apart: *exhausted* (refused,
undone), *leaked* (refused, or its AIDRS vanished, and not undone), *early* (a VM failed
inside `pre_attach_ai`), *refused_again* (by `Admission`), *late*. An operation that
raises out of its finally block ends in `vms_left` (a VM could not be detached: neither
the counters nor the object nor the PENDING entry are touched) or `aidrs_gone` (HINCRBY
found no AIDRS: the object and the PENDING entry stay).

The model takes the defaults `leave_instance_on_failure = false`, `vm_creation` and
`vm_destruction` *explicit*. The existence test inside `update_object_attribute` and the
HINCRBY that follows it are one step. What is kept of a VM is what the AI sees: the
increments of RESERVATIONS that VMs over the limit take back at once are left out of the
number `CheckVms` compares.

### Parallel

A `Caller` is one call of `parallel_obj_operation`, with the VMs it is to attach, detach or
change (`VmsOf`); `Threads` are those of the pool, which the callers of one kind of operation
and one parallelism share when one process serves them (the API service). `AddTask` is
`Queue.put`, `Poll`, `Copy` and `Reset` are `wait_completion`, `Judge` and `Check` what is
made of the results and of the objects, `Abort` and `Aborted` the way out by an interrupt.
A worker `Take`s a task (and looks the list of results up), may be `Pause`d by staging until
`Continue` or its time, and succeeds, fails or raises. `runstateall` is `vmrunstateall`,
which asks for as many threads as it may have and not for as many as it has VMs. The copy
of the results is one step, and so is the look at the `aborted` flags of the workers.

### Objects, Commands, Submitters, Console

`Objects` has the functions of the object store that change objects, each as the sequence of
its round trips. An object is nothing but the *pieces* under its key: its entry in the list
of its type, the hash with some or all attributes, the views, the state, the tag and the
pointer of its name, PENDING entries and hashes. `signal_api_refresh` (read all attributes of
the cloud, write all back) is part of every change of a list, as in the code.

`Commands` has `cldattach`, `clddetach`, `vmcattach`, `vmcdetach`, `vmcattachall`,
`objdetachall`, `vmccleanup`, `vmdetach`, `aidetach`, `migrate`, `vmresize`, `vmcapture`,
`vmrunstate` and `airunstate`, with the initialisation, the admission control and the
`pre_*` and `post_*` of each. `airunstate` always sets the state of its AI: it compares the
number of VMs to change with the string "0" (A:4629), so the branch for none is never taken.
`Submitters` has the daemons `aidsubmit`, `aidremove`,
`vmcrsubmit` and `firsubmit`, the attachment and detachment of AIDRS, VMCRS and FIRS,
`alter_state`, and `cbact`, in which the daemons run what they start: it lists itself in
`running_processes` and unlists itself at its end.

`Console` runs such programs in processes. `Start` begins one; `Read`, `Carry`,
`WriteAttribute`, `PutState`, `PointTo`, `CountOn`, `Paste` and `ListProcess` are one round
trip each; `CloudDoes` and `CloudRefuses` call the driver; `EachOf` lists the objects of a
type; `ForkOff`, `SpawnOne` and `JoinAll` start and await other processes; `Die` ends a
process anywhere. An exception (`Thrown`) skips what follows up to the next `finally` of the
command, or of the command that runs it. `Settle` does what follows on local variables only.
`scen` is the scenario: what there is, who runs what, and how many faults there may be.

`with` remembers which processes ran at the same time. The properties are stated for every
scenario, overlapping ones included, and are about all objects but those that one command
made or took away while another was at the very same one (`Contested`); of what the code
does when certain two commands meet, each property names the pair (`Met`) that breaks it,
and holds for all others. So two `migrate` of one VM, a `migrate` beside a `vmdetach`, a
`vmcdetach` beside a `vmcattach` of another VMC, or a `clddetach` beside a `vmrunstate` are
checked with the pairs at work together.

One reduction: reads of the attributes of the cloud and of the GLOBAL objects, and the
writing back of what was read, are no step of their own in scenarios in which nobody changes
them (`Unseen`). Such a step reads a constant or writes the value that is there; it cannot
be told from no step.

Submitters is untimed: the time between two submissions, lifetimes and the 20 s that
`pre_detach_aidrs` sleeps are any time. The AIs of the daemons have the keys of an object, and their counters
are those of `AILifecycle`: `PerhapsFull` is any answer to whether `max_ais` is reached.

### DriverSteps, Drivers, VmcDrivers, CloudDriver

`Drivers` has what 14 drivers do for a VM: `vmcreate`, `vmdestroy`, `vmccleanup`,
`vmcapture`, `vmrunstate` and `imgdelete`, and the helpers they call; a definition is named
`<driver>_<function>`. `VmcDrivers` has `test_vmc_connection`, `vmcregister` and
`vmcunregister`. `DriverSteps` has the kinds of instruction. The drivers are osk
(OpenStack), ec2, gce, pdm (Docker), pcm (LXD), plm (Libvirt), slr (SoftLayer), csk
(CloudStack), ntnx (Nutanix), kub (Kubernetes), lc (libcloud: DigitalOcean, Linode,
OpenStack), as (Azure), nop (no cloud) and sim (simulated).

`CloudDriver` runs them for one VM. `things` are the instance, volumes, addresses and so on
that exist, `going` those the cloud is deleting, `ids` those the VM's attributes know, `named`
those that carry its name. `Test` / `Tested`, `Register` / `Registered`, `Attach`, `Created`,
`CreateFailed`, `AfterOwnUndo`, `AfterUndo`, `AfterRollback` (three places undo a failed
creation), `Recreate` / `CreateAgain` (a VM which does not authenticate), `AttachFailed`,
`Attached`, `Detach`, `DestroyAgain` (`vmdestroy_repeat`), `Detached`, `RunState`, `Capture`,
`DeleteImage`, `Cleanup` are the active operations around the driver; `Step`, `StepOver`,
`Refuse`, `TimeOut` one instruction; `Fault` is a call that fails, with or without having
taken effect; `Vanish` the cloud that deletes what it has accepted to delete; `Crash` the end
of the client, which loses the attributes of the VM.

What the drivers are known to leave behind is in four tables, and the properties say that it
is nothing else: `LeftByUndo` (after a failed creation), `LeftByDetach`, `LeftByCleanup`
and `NotTested` (what the test of a VMC takes for granted). Each entry is something that
the driver's code does not look for, or not where it left it (section 6).

## 3. The runs

| Run | Instance and bounds | What it shows |
|---|---|---|
| `lock` | 3 callers, time to live 3, stay at most 2, callers die | the lock implements `Mutex`: it is exclusive and not stolen; waiting ends |
| `lock_orphan` | the same without deaths | expected violation, see section 6 |
| `vm_overlap` | 2 vm-attach and 2 vm-detach on one VMC, global limit 1 and VMC limit 1, any overlap, locks that fail | the counters account for every step of every operation |
| `vm_serial` | the same on 2 VMCs, limits 1 (one VMC has room), 2 tries to create, one operation per VM at a time | instances keep their objects, PENDING is exact, the limit holds, `SlotPool` is implemented, calls return |
| `vm_rollback` | the same, global limit 2 | expected violation |
| `placement` | an AI of 2 VMs and a single VM, 2 VMCs in the pool and 1 outside, 1 and 2 workers, three sets of methods, locks that fail, airesize once | turns in order and each comes; counts exact; round robin even; co-location holds |
| `placement_turn` | round robin, 2 workers, no failures | expected violation |
| `ai` | an AI of 2 VMs and one of 1, one AIDRS that may be detached, limits of 1 AI, 2 VM slots, 1 AI per AIDRS | `nr_ais` accounts for every step; no VM outlives its AI, and an AI has its VMs, but for those detached by hand before it was an object; calls end |
| `ai_twice` | the same AIs attached by hand, 3 VM slots | expected violation |
| `parallel` | a call with 2 VMs and one with 1, alone or together on 1 or 2 threads, 4 kinds of operation, staging | success is true, a call alone gets its results, calls return |
| `commands` | 38 scenarios of 1 to 4 processes; 2 VMCs with a host each and one without, one VM, two AIs, one AIDRS or VMCRS; limits 1 and 2; `daemon_parallelism` 1, 2 commands started by a daemon; 0 or 1 refusals or deaths | names lead to whole objects; when all is over nothing is half there, counters are exact and PENDING is empty, but for what two commands took away from each other; a detached cloud is clean; daemons keep within bounds, stop in time, last, and detach what is overdue |
| `drivers` | 14 drivers, one VM each, `leave_instance_on_failure` on and off, each thing a VMC needs there or missing, 1 failing call, 2 recreations, crashes | what is undone, detached or cleaned is gone but for the tables; retries, run states, captures; operations end, but for one rollback of libcloud |

The bounds are those that make the cases happen. Three callers are an owner, one which was
its predecessor or is dead, and one waiting; the time to live exceeds the longest stay by
one tick. Limits are below the number of objects that ask, so that refusals happen next to
successes; with two attaches and two detaches each can meet the rollback of the other, and
two detaches can meet on one VM. One VMC is tight and the other is not, so the refusal by
a VMC happens with and without that by the global limit. An AI of two VMs has one that
succeeds and one that fails; a second AI competes for the limit. With one worker a later
VM can block an earlier one, with two it can wait beside it; two VMCs in the pool can be
unequal, and one outside it can be named. In `parallel` a caller has more VMs than there are
threads, and fewer. In `commands` every pair of commands that may meet on one VMC or VM in
some way is a scenario, where the two run at the same time, one after the other, or fail; one
fault is enough for each failure path to run beside an undisturbed command, and two children
let a daemon start one too many, and a second one after the first has died. In
`drivers` one failing call reaches every failure path of every driver, with the undoing
without failure after it, and a second attempt after a failed first (with 2 failing calls and
one recreation, the VM's part of the model was run once as well: 1.8 million states, no error).
Every action of every module fires in a passing run.

The counters of the code are unbounded but no model counts beyond the number of
operations, except time, which is cut at the time to live, the patience and the stay
(`Timout`, `MaxHold`). The other bounds are constants: `Recreate`, `MaxShrink`, `MaxFaults`,
`RecreateAttempts`, the `faults` and `children` of a scenario.

Symmetry is used in `vm_overlap` only, where the VMs and the detaches are interchangeable
and only invariants are checked. `CHECK_DEADLOCK` is on where all operations of the system
end only together: there a state in which every operation is over has an explicit stuttering
step (`Finished`), so a deadlock is an operation that can neither go on nor end. It is off
in `parallel`, `commands` and `drivers`, where the processes just end and nobody is obliged to
begin anything, and where the code does hang in one place (`abort`, which `EveryCallReturns`
of `Parallel` names); that nothing else stops half way is what `EveryCallReturns`,
`DaemonsLast`, `OverdueGoes` and `EveryOperationEnds` say.

For every property of a passing run `PROJECT.json` names a mutation of one definition, of
the kind a change of the code could introduce, and the run finds the property violated
under it.

## 4. Fairness

No scheduler of CloudBench delays a thread for ever, and neither does Redis: a process
that is alive and not waiting goes on. This is weak fairness on the steps of each
operation once it was begun. Nothing obliges a user to begin one, so `Begin`,
`DetachBegin`, `DetachByHand`, `Enlist`, `Shrink` and `DestroyAidrs` have no fairness of their own (in
`VMLifecycle` the weak fairness on `objattach` includes `Begin`, but the property is about
calls that began). A `Crash` is never forced. Which way a failing call goes is a choice
inside a step, and no fairness is put on it: `EveryCallReturns` holds when everything fails
for ever, too.

In `Parallel` the threads of callers and workers run; no user is obliged to continue a
paused VM (which goes on after `update_attempts` times `update_frequency`), to interrupt or
to call. In `CloudDriver` the client goes on with the program it runs (`Program`), with what
follows its end (`Following`, `PostAttach`), and a cloud that accepted a deletion performs it
some time (`Vanish`); nothing obliges a user to detach, to capture or to clean up, nor
anything to fail or to crash. In `Console` each process that can take a step takes one; the
formula `Fair(p)` is weak fairness of `Start(p) \/ Instructions(p)`, with "enabled" written
as the condition on the state that it is. Deaths and refusals have no fairness.

`Placement` has strong fairness on taking a lock. A lock there is polled (SETNX and sleep
of a second) by several threads and is free again and again, because those who only look
whether it is their turn release it and sleep before they try anew; weak fairness would let
one thread lose every race, which no bound of the code excludes but sleeping does in
practice. `EveryTurnComes` depends on it and says so; no safety property does.

## 5. What is proved

The proofs hold for every value of the constants that satisfies the assumptions of each
module (finite sets of operations, limits that are natural numbers, distinct markers).

| Module | Proved | Under |
|---|---|---|
| `StoreLock_proofs` | `TypeOK` | |
| | `MutualExclusion`, `NoStolenLock`, `ImplementsMutex` | `MaxHold < Timout`: no one stays in a critical section, from EXPIRE to DELETE, as long as the time to live |
| `VMLifecycle_proofs` | `TypeOK`, `ReservationsAddUp`, `VmcCountersAddUp` | nothing: any overlap |
| `VMSerial_proofs` | `NoOrphanInstance`, `PendingIsInProgress`, `LimitRespected`, the sum of the slots, `ImplementsSlotPool` | `~Overlap` (one operation per VM at a time) and `~LockFails` (the placement lock is had) |
| `Placement_proofs` | `TypeOK` | |
| | `Balanced` | `Outside`: VMCs that VMs are sent to by name are not in the pool |
| `PlacementTurns_proofs` | `CountsExact`, `PlacedInOrder`, `StayTogether`, `NeverBusiest` | `Outside` |
| `AILifecycle_proofs` | `TypeOK`, `ReservationsAddUp`, `AidrsCountsAddUp`, `MaxAisRespected`, `NoOrphanVm`, `AttachedIsWhole`, `VmsFollowTheirAI` (both) | nothing beyond section 2 |
| `Parallel_proofs` | `TypeOK`, `OwnResults`, `SuccessIsTrue` | nothing: any number of callers, VMs and threads |
| `CloudDriver_proofs` | `TestMeansSupplied`, `DetachedIsGone`, `UndoneIsGone`, `CleanedIsClean`, `DetachFailsForAReason`, `CaptureKeepsOne`, `RunStateTold` | nothing: any number of failing calls and of recreations, for each of the 14 drivers |

What is proved need not be run as well: `TypeOK` of these modules, `MutualExclusion`,
`NoStolenLock`, `MaxAisRespected` and the `ReservationsAddUp` of AIs were
checked by TLC while the proofs were written and are in no configuration now.

The assumption on stays is justified by the defaults: the time to live is 240 s, and the
critical sections are a few Redis commands; a placement lock held through a slow scan of
many VMCs is where a deployment should look.

The arguments, each an inductive invariant:

- `LockInv`: a caller past its SETNX owns the key, and one that is inside owns it with
  exactly the rest of its lease left. Exclusion alone is not inductive: without the lease,
  expiry could take the key from an owner that is still inside.
- `Shape` of `VMLifecycle`: how the label, the failure and the VMC of an operation go
  together. The counters add up because each step moves its operation in or out of at most
  one of the sets that are counted, by one, when it increments or decrements; that the
  operation was not already in the set is what `Shape` is needed for.
- `Alone` of `VMSerial`: two detaches at work are about different VMs, and what a VM has
  left (object, instance) follows from where its one operation is. From it each slot taken
  has one owner, and every step of `admission_control` is a step of `SlotPool` or a stutter.
- `Typed`, `OneOwner`, `ShapeWhileQuiet` of `Placement`: one VM has the placement lock, the
  counts do not change while it scans, the scan remembers the maximum and the first VMC
  below it, and before the scan the counts are a step function. Then adding one to the
  first VMC below the maximum, or to the first of all, keeps the step function.
- `Shape` of `AILifecycle`: the failures that are possible at each label, what the threads
  of the VMs can be doing at each label of the AI, and when all VMs are gone (`Cleared`).
  `NoOrphanVm` and `AttachedIsWhole` follow from it. For `nr_ais`, `CountsRight` is
  inductive as in `VMLifecycle`, as long as the AIDRS exists; it is never negative because
  an AI is released only if its attach had been counted. `MaxAisRespected` is not
  inductive, because `nr_ais` exceeds the limit while an AI that was refused has not yet
  decremented it, and because failed detaches increment it unasked. `AdmittedWithinMax`
  is: AIs that were let in are at most `max_ais` plus the detaches begun, since an AI is let
  in by the value its own HINCRBY returned, and that value counts at least those let in less
  those released.
- `PoolInv`, `OwnInv` and `LookInv` of `Parallel`: while one call alone uses its pool, each
  of its VMs is in exactly one place (still to add, in the queue, with a thread, among the
  results, or among those whose task raised: `Parted`), no task appends to a list that was
  replaced, and nothing is left in the queue or with a thread once `wait_completion` found
  none unfinished; this is `OwnResults`. `LookInv` says that a good result is of an object
  that is as it should be, that a call has looked at all but those still on its list, and
  which successes come without such a look; this is `SuccessIsTrue`.

- `SlotLimit` of `VMSerial`, which is `AdmittedWithinMax` again: VMs that were let in are at
  most `VmMax` plus the detaches at work or failed, because an attach is let in by the value
  that its own HINCRBY returned, and that value counts at least those let in. A VM created
  again took its slot before (`Retaken`). `PENDING` is exact because an operation puts its
  VM there in its first step and takes it out in its last, and no other operation works on
  that VM (`Alone`); with overlap it is false, as the code's own comment on it expects.
- `Looping`, `Exact` of `PlacementTurns`: the loop that gives a new VMC its 0 reads and
  writes in two round trips, but nobody else has the lock, so what it read as missing is
  still missing. `Turns`: a VM past its turn has advanced the leader beyond its number, and
  numbers of an AI are distinct. `FirstIsShared`: `first_vmc` of an AI is set once, by a VM
  which goes there; `OneColocates`, that one VM at a time is between reading and writing it,
  and that it is still missing when it is written. `Choosing`, `Found`: while a VM scans, the largest count and the first
  VMC below it among those scanned are what it remembers; the counts do not move until its
  own `scheduled_vms` is written, so the decision is still right when it takes effect.
- `CloudDriver_proofs` proves about programs as data. Each of the 14 drivers' programs is
  sorted once by what its instructions may be (`Permits`, `Fits`: one that builds, removes,
  switches, captures, cleans, tests), by lemmas on concatenation and on conditions, so that no
  later proof opens a program without need. Every step is one of three kinds (`StepsAre`):
  `Run` (the next instruction, by its effect or its failure), `Move` (a new program, or the
  end of one) and `Vanish`. The invariant says what holds now *or is still ahead in `todo`*;
  none of the seven properties is inductive, for they speak of the end of a program and say
  nothing of its middle. Its parts, by what they are for:
  - what exists: `Own` and `Named`, that nothing exists beyond what the driver makes and all of
    it but on EC2 carries the VM's name; `Tagged`, that on EC2 a tag which gives the instance
    that name is ahead or was written; `KnowsIds`, that an id that the store needs is known or
    will be learnt unless the program leaves (`Teaches`); `Keyed`, that a VM of
    libcloud or Azure without credentials has nothing in the cloud, and that its creation has not
    got past the token that brings them: its `vmdestroy` fails, and leaves nothing behind;
  - `DetachedIsGone`: `Clearing`, that what a detach owes the cloud is gone or a deletion
    that will find it is ahead (`CanDrop`), or a call has slipped; `Spared`, that nothing but
    CloudStack's programs deletes the volume of another experiment; `Placing`, that a creation
    takes of a simulated host only what it knows it took, and takes it once; `Holding`, that
    what was taken is given back once;
  - `UndoneIsGone`: `Undone`, the same for the undo of a creation that failed, which may have
    ended at any instruction, so what the driver remembers says nothing (`Stranger`) and only
    what the undo finds by itself is sure to go (`Sure`); its programs raise at their end or
    not at all (`RaisesLast`), so even an undo that fails has first deleted it;
  - `CleanedIsClean`: `Cleaning`, the same for the cleanup of a VMC, by names alone (`Swept`);
  - `DetachFailsForAReason`: `Reasons`, that a detach which left through its except clause
    slipped;
  - `CaptureKeepsOne`: `Imaging`, that the image exists or the program has not come to it and
    has not touched the instance;
  - `RunStateTold`: `Telling`, that an instance that exists is in the state it is wanted in, or
    the instruction that turns it, or says it cannot, is ahead; if that one is for an instance
    that was found only, it was found or the lookup is ahead too (`WillTurn`);
  - `TestMeansSupplied`: `Testing`, that each thing a test needs is there, or is not known
    and an instruction that insists on it or supplies it comes before any that takes it for
    granted (`SeesTo`).

Only model-checked are:

- the liveness properties (`WaitIsBounded`, `EveryCallReturns`, `EveryTurnComes`,
  `DaemonsLast`, `OverdueGoes`, `EveryOperationEnds`), which are beyond the provers;
- everything about `Console`. Its interpreter of programs is recursive (`Settle`, `Handler`,
  `Left`, the only RECURSIVE operators; no module with proofs reaches them), and its
  properties are about scenarios, the sets of commands that the run names: with arbitrary
  sets of commands at once most of them are false, for the reasons in section 6.

With these exceptions, each property of a run that passes is stated by a theorem.

## 6. Where the code and its comments disagree

Each is the counterexample of a run, with the lines in `PROJECT.json`.

- `lock_orphan`: R:1921 says the key is deleted after its time to live; it has one only
  after a third round trip, and a waiter whose patience ends in the round in which its SETNX
  succeeds raises before it. The same happens to a process that dies in between.
- `vm_rollback`: A:2217 says that everything is rolled back; a VM refused by
  `max_vm_reservations` of its VMC keeps its reservation and its place on the VMC.
- `placement_turn`: A:1300 says that only the decisions are serialized; a VM sent by name
  takes no turn and all later VMs of its AI poll for ever, in threads of the pool. After
  `airesize` with a negative quantity the next VM is numbered below the leader, with the
  same effect.
- `ai_twice`: B:1678 says that the reservation was taken before; an AI that then fails the
  second look at the counter returns it in `admission_control` and again in the rollback.
  The counter is below the number of AIs from then on, and may become negative.

What the models show besides, without a comment that says otherwise, is in the properties as
an exception or in a table, each with its reason there. So the properties say exactly how
far the code goes wrong, and would find it going further.

*Admission, AIs.* An AI refused for want of reservations for its VMs keeps its own
reservation and its place in `nr_ais` (*leaked*); an `ai-detach` whose AIDRS vanishes between
the test and the HINCRBY is never taken off RESERVATIONS again, and one that fails after it
is off both; a failure while detaching VMs leaves an AI in PENDING for good.

*Parallel operations.* A detach that finds its object still there sets a status (A:5137)
that is set back to 0 at the end, because only `_rollback` is looked at (A:5166); so success
of a detach is true only of a call that has its pool for itself and no task that raised. Two callers of
one pool take each other's results. `vmrunstateall` reports success for the VMs beyond its
parallelism, which it never handled. `abort` waits for ever for a thread that had no task,
or whose last task raised.

*Commands.* Two `vmcattach` of one name may both succeed, or leave a VMC that is listed with
nothing else, or one without its name. Two `vmcdetach` of one VMC both succeed, and
RESERVATIONS is decremented twice. A `vmdetach` after a forced `vmcdetach` always fails and
loses a reservation. A `vmcdetach` of the destination during a `migrate` leaves the VM on a
VMC that is gone. `migrate` over `vmdetach` leaves a state and a hash without an object, and
over a suspension it sets the state to attached. A migration that a full VMC refuses leaves
`nr_vms` one too high there (B:1738). The hash `PENDING:<uuid>` of an attachment and the
entry in `VMS_UNDERGOING_MIGRATE` are never removed, and survive `clddetach`. `vmresize`
raises a KeyError after the driver has resized (A:4280), and the VM stays in the state
*resize*. A failed `airunstate` leaves its AI in PENDING. `signal_api_refresh` (R:464) undoes
a change of `all_vmcs_attached` made in between, makes the hash of a cloud again that
`clddetach` has deleted, and raises, in finally blocks too, when the cloud is gone; the
PENDING entry then stays. A second `cldattach` sets counters to zero. A `vmcapture` counts
the capture on its VMCRS before it looks at the state of the VM, and its VMCRS may be
detached between its test and its increment, which leaves a hash with one attribute.

*Daemons.* The entry of a command in `running_processes` is written by who starts it and
removed by itself; one that ends first leaves an entry that counts against
`daemon_parallelism` for ever. Until `pre_detach_ai` has removed an AI from the view of its
AIDRS, `aidremove` may start a second `ai-detach` of it; both share one entry, and the
counters are decremented twice. An `ai-detach` that fails after that is not tried again. `aidremove` dies of
a TypeError on an AI without a state (A:5541), and `vmcrsubmit` when the AI it chose is gone.
In `vmcrsubmit` the overload by `nr_simultaneous` is overwritten by that of `nr_total`
(A:5600), and its entry for a capture is never removed. `cbact` does not know the submitter of
a FIRS, which fails at once.

*Drivers.* The `vmdestroy` of libcloud, and its except clause, read `credentials_list`
(src/lib/clouds/libcloud_common.py:1488), which `vmcreate` sets only once it has a token: after a
creation that got none every try of the rollback fails, and with `DETACH_ATTEMPTS` = -1
`vmdestroy_repeat` (S:1764), which is to try "aggressively before returning", never returns;
`EveryOperationEnds` holds with this one exception (`UndoneWithoutCredentials`). OpenStack loses the floating address and the volume of a VM whose creation fails
between making and recording them; EC2, SoftLayer and Nutanix an instance whose id
never reached the attributes of the VM; Azure never deletes the address (`post_vmdelete_process`),
Kubernetes leaves controller and service, LXD the port mappings. CloudStack's cleanup
deletes everybody's volumes in the state Allocated, and its `test_vmc_connection` takes two
arguments fewer than `cldattach` passes. Google's capture deletes the instance before it
makes the image, and OpenStack's does not look whether the image became active; `migrate` of
OpenStack reports a timeout as success (src/lib/clouds/osk_cloud_ops.py:1799). The simulated
cloud gives the capacity of a VM whose recreation fails back twice, and its `migrate` always
raises (src/lib/clouds/sim_cloud_ops.py:1284). `leave_instance_on_failure` is read by
`common_messages` (S:1972), but EC2, Google, CloudStack and libcloud undo in their own except
clauses first. The loops `_curr_tries > _max_tries` of the cleanups are never left by that test.
Libvirt and SoftLayer call functions that are not there when a run state changes.
Hosts are discovered (`discover_hosts`) only from VMs of OpenStack, Docker, LXD, Libvirt and
the simulated cloud; the others read an attribute that `vmcregister` never sets. A failed
capture leaves the VM in the state *capture*, and maybe stopped. A cleanup of Docker or LXD
in a process without a connection cleans nothing and succeeds.

## 7. What is not modelled, and why

- Single Redis commands are atomic and do not fail in the middle of an operation, except
  that a caller of the lock or a process of `Console` may die. A process killed inside
  `objattach` leaves whatever it had done; there is no recovery in the code to model.
- In `VMLifecycle` a VMC is not detached while VMs are on it (`Console` does so). Cloud calls
  return; `detach_attempts` is finite in `VMLifecycle` (in `CloudDriver` some drivers retry
  for ever, as their templates say).
- Placement is abstracted in `VMLifecycle` (any VMC may be chosen); VMs without a placement
  order ("drivers") and failures between placement and admission other than the lock are
  not in `Placement`. There VMs sent by name stay out of the pool: in the code one that does
  not may have its count overwritten by the 0 that is written for a new VMC (A:1337).
- In `AILifecycle` a `vm-detach` by hand is one step: it does not overlap another operation on
  that VM (`VMLifecycle` does that), it is not the forced one that works on a VM of an AI that
  is an object, and it does not fail half way. An AI is detached once
  and not while it is attached, and AIs are neither paused nor saved. `airesize` is modelled
  where it numbers VMs (`Placement`) only.
- FINISHEDTRACKING and FAILEDTRACKING records, metrics, messages and the states shown to
  users: no decision depends on them.
- In the drivers: attributes of things (sizes, flavours, addresses as values), `vmcount`,
  resizing and migration inside a cloud, zsk (Python 2 only) and the creation of clusters
  by dok8s. A thing is there or not, known or not, named or not, on or off.
- Port allocation and the barrier inside the guests, metric stores, the text of the command
  line, API and GUI, configuration, dependency installation, ssh and subprocess handling, the
  PLM server, and the tools: I/O, parsing and formatting, or sequential; `PROJECT.json` lists
  each with its reason.

## 8. Plan

Done: `Mutex`, `StoreLock`, `SlotPool`, `VMLifecycle`, `Placement`, `AILifecycle`, `Parallel`,
`Objects`, `Commands`, `Submitters`, `Console`, `DriverSteps`, `Drivers`, `VmcDrivers`,
`CloudDriver`. What could come next, in this order:

1. Proofs: that `AILifecycle` uses the slots as `SlotPool` allows, with the leaks of section 6
   as exceptions; `Console` with its interpreter as a recursive function over programs, and for
   each property the condition on commands under which it holds for any number of them.
2. `Ports`, `Barrier`: the list of ports with its two key names under its lock, and the
   barrier of `cb_subscribe.py` with its counter and channel. Questions: two users of one
   port, a message before the subscription.
3. The lock around `vm_placement` of the simulated cloud, two VMs on one host.
