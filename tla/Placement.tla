------------------------------ MODULE Placement ------------------------------
(***************************************************************************)
(* The choice of a Virtual Machine Container (VMC) for each VM: the part   *)
(* of pre_attach_vm (lib/operations/active_operations.py) between the name *)
(* of a pool and admission_control(..., "schedule"), with the "deschedule" *)
(* of rollbacks and detaches, and airesize as far as it numbers VMs.       *)
(*                                                                         *)
(* The VMs of an AI are numbered (placement_order), attached by the        *)
(* threads of a pool of attach_parallelism workers, and take turns under   *)
(* the lock vmc_placement.  The locks are used at the level of Mutex,      *)
(* which StoreLock implements.  The VMCs of the pool are 1..PoolSize in    *)
(* the order of their names.                                               *)
(***************************************************************************)
EXTENDS Integers, FiniteSets

CONSTANTS VM,          \* the VMs
          AI,          \* the AIs
          NoAI,        \* the home of a VM that is attached on its own
          home,        \* the AI of each VM
          PoolSize,    \* the number of VMCs in the pool
          Explicit,    \* the VMCs a VM may be sent to by name, or by the name of a host
          Workers,     \* the values of attach_parallelism
          Methods,     \* the values of placement_method: {} is a random choice
          LockFails,   \* whether acquire_lock may run out of patience
          MaxShrink    \* the VMs airesize may remove, at most

Pool == 1..PoolSize
VMC == Pool \cup Explicit

ASSUME PlacementAssumption == /\ IsFiniteSet(VM) /\ NoAI \notin AI
                              /\ home \in [VM -> AI \cup {NoAI}]
                              /\ PoolSize \in Nat \ {0} /\ Explicit \subseteq Nat \ {0}
                              /\ Workers \subseteq Nat \ {0}
                              /\ Methods \subseteq SUBSET {"roundrobin", "colocate"}
                              /\ LockFails \in BOOLEAN
                              /\ MaxShrink \in Nat

VARIABLES method,         \* placement_method, in vmc_defaults
          workers,        \* attach_parallelism
          inside,         \* who holds the lock vmc_placement
          colocating,     \* who holds the lock vmc_colocate
          leader,         \* placement_leader of each AI; a missing one is 0
          first_vmc,      \* first_vmc of each AI, and of "none"; 0 when missing
          scheduled_vms,  \* scheduled_vms of each VMC, or Missing
          vms_nr,         \* vms_nr of each AI
          order,          \* placement_order of each VM, once it has one
          pc,             \* where each VM is
          vmc,            \* the VMC of each VM; 0 before it is chosen
          scan            \* what the loop over the VMCs has found so far

store == <<leader, first_vmc, scheduled_vms, vms_nr>>
locks == <<inside, colocating>>
settings == <<method, workers>>
vars == <<settings, locks, store, order, pc, vmc, scan>>

Missing == -1
Unnumbered == -1

Placing == INSTANCE Mutex WITH Caller <- VM
Colocating == INSTANCE Mutex WITH Caller <- VM, inside <- colocating

PC == {"idle", "queued", "lock", "turn", "back_off", "advance", "scan", "reset_count",
       "choose", "colocate_lock", "colocate", "set_first", "schedule", "unlock", "unlock_colocate",
       "placed", "attached", "give_up", "gave_up", "failed",
       "deschedule_lock", "deschedule", "deschedule_unlock", "gone", "stuck"}

Scan == [next : 1..(PoolSize + 1), top : Int, pick : 0..PoolSize]

NewScan == [next |-> 1, top |-> Missing, pick |-> 0]

TypeOK == /\ method \in Methods /\ workers \in Workers
          /\ inside \subseteq VM /\ colocating \subseteq VM
          /\ leader \in [AI -> Nat]
          /\ first_vmc \in [AI \cup {NoAI} -> {0} \cup VMC]
          /\ scheduled_vms \in [VMC -> Int]
          /\ vms_nr \in [AI -> Nat]
          /\ order \in [VM -> Nat \cup {Unnumbered}]
          /\ pc \in [VM -> PC]
          /\ vmc \in [VM -> {0} \cup VMC]
          /\ scan \in [VM -> Scan]

Init == /\ method \in Methods /\ workers \in Workers
        /\ inside = {} /\ colocating = {}
        /\ leader = [a \in AI |-> 0]
        /\ first_vmc = [a \in AI \cup {NoAI} |-> 0]
        /\ scheduled_vms = [m \in VMC |-> Missing]
        /\ vms_nr = [a \in AI |-> 0]
        /\ order = [v \in VM |-> Unnumbered]
        /\ pc = [v \in VM |-> "idle"]
        /\ vmc = [v \in VM |-> 0]
        /\ scan = [v \in VM |-> NewScan]

Goto(v, label) == pc' = [pc EXCEPT ![v] = label]

\* HINCRBY takes a missing field for 0.
CountAt(m) == IF scheduled_vms[m] = Missing THEN 0 ELSE scheduled_vms[m]

CountScheduled(m, n) == scheduled_vms' = [scheduled_vms EXCEPT ![m] = CountAt(m) + n]

\* The VMs of the same AI with a smaller placement_order.
Earlier(v) == {w \in VM : home[w] = home[v] /\ order[w] # Unnumbered /\ order[w] < order[v]}

OfAI(a) == {v \in VM : home[v] = a}

-----------------------------------------------------------------------------
(* The VMs of an AI: create_vm_list_for_ai, airesize and the thread pool *)

\* create_vm_list_for_ai numbers the VMs from 0, airesize from vms_nr.
Enlist(v) ==
    /\ pc[v] = "idle" /\ home[v] \in AI
    /\ order' = [order EXCEPT ![v] = vms_nr[home[v]]]
    /\ vms_nr' = [vms_nr EXCEPT ![home[v]] = @ + 1]
    /\ Goto(v, "queued")
    /\ UNCHANGED <<settings, locks, leader, first_vmc, scheduled_vms, vmc, scan>>

InWorker(v) == /\ order[v] # Unnumbered
               /\ pc[v] \notin {"queued", "attached", "gave_up", "failed", "gone", "stuck"}

\* Mutant: the queue is not first in, first out.
WorkerTakesAny(v) == Cardinality({w \in VM : InWorker(w)}) < workers

\* The queue of the thread pool is first in, first out.
WorkerTakes(v) == /\ Cardinality({w \in VM : InWorker(w)}) < workers
                  /\ \A w \in Earlier(v) : pc[w] # "queued"

\* A VM without an AI is attached by a command of its own.
Starts(v) == \/ pc[v] = "idle" /\ home[v] = NoAI
             \/ pc[v] = "queued" /\ WorkerTakes(v)

\* airesize took this VM out of its AI.
Removed(v) == home[v] \in AI /\ order[v] = Unnumbered /\ pc[v] # "idle"

\* airesize with a negative quantity: the AI is attached, one of its VMs is detached,
\* and the next VM will be numbered one less.
Shrink(a) ==
    /\ vms_nr[a] > 1
    /\ \A v \in OfAI(a) : pc[v] \in {"idle", "attached", "gone"}
    /\ Cardinality({v \in OfAI(a) : Removed(v)}) < MaxShrink
    /\ \E v \in OfAI(a) : /\ pc[v] = "attached"
                          /\ order' = [order EXCEPT ![v] = Unnumbered]
                          /\ Goto(v, "deschedule_lock")
    /\ vms_nr' = [vms_nr EXCEPT ![a] = @ - 1]
    /\ UNCHANGED <<settings, locks, leader, first_vmc, scheduled_vms, vmc, scan>>

-----------------------------------------------------------------------------
(* pre_attach_vm *)

\* A VMC or a host given by name is taken as it is, without lock or turn; it may also
\* fail to exist, and so may the pool.
Begin(v) ==
    /\ Starts(v)
    /\ \/ \E m \in Explicit : vmc' = [vmc EXCEPT ![v] = m] /\ Goto(v, "schedule")
       \/ /\ Goto(v, IF "roundrobin" \in method THEN "lock" ELSE "choose")
          /\ UNCHANGED vmc
       \/ Goto(v, "failed") /\ UNCHANGED vmc
    /\ UNCHANGED <<settings, locks, store, order, scan>>

\* acquire_lock of vmc_placement: with the lock, or out of patience.
Lock(v) ==
    /\ pc[v] = "lock"
    /\ \/ Placing!Acquire(v) /\ Goto(v, IF home[v] \in AI THEN "turn" ELSE "scan")
       \/ LockFails /\ Goto(v, "failed") /\ UNCHANGED inside
    /\ UNCHANGED <<settings, colocating, store, order, vmc, scan>>

\* Mutant: any VM whose turn is not over yet may go.
MyTurnOrLater(v) == leader[home[v]] <= order[v]

MyTurn(v) == leader[home[v]] = order[v]

\* Read placement_leader.
ReadLeader(v) ==
    /\ pc[v] = "turn"
    /\ Goto(v, IF MyTurn(v) THEN "advance" ELSE "back_off")
    /\ UNCHANGED <<settings, locks, store, order, vmc, scan>>

\* Not my turn: release the lock, sleep, and start again.
BackOff(v) ==
    /\ pc[v] = "back_off"
    /\ Placing!Release(v)
    /\ Goto(v, "lock")
    /\ UNCHANGED <<settings, colocating, store, order, vmc, scan>>

\* My turn: the next VM of this AI comes next.
AdvanceLeader(v) ==
    /\ pc[v] = "advance"
    /\ leader' = [leader EXCEPT ![home[v]] = @ + 1]
    /\ Goto(v, "scan")
    /\ UNCHANGED <<settings, locks, first_vmc, scheduled_vms, vms_nr, order, vmc, scan>>

\* Mutant: only a count that is strictly higher is a highest one.
IsHighestStrictly(s, count) == s.top = Missing \/ count > s.top

\* Is this VMC appended to _highest_vmcs?
IsHighest(s, count) == s.top = Missing \/ count >= s.top

\* The VMC s.next is looked at and its count is not Missing.
Seen(s, count) ==
    [next |-> s.next + 1,
     top  |-> IF IsHighest(s, count) THEN count ELSE s.top,
     pick |-> IF s.pick = 0 /\ ~IsHighest(s, count) THEN s.next ELSE s.pick]

\* It is Missing: the VMC stays a candidate.
SeenMissing(s) ==
    [next |-> s.next + 1, top |-> s.top, pick |-> IF s.pick = 0 THEN s.next ELSE s.pick]

\* The loop has looked at every VMC of the pool.
Scanned(s) == s.next > PoolSize

\* Read the attributes of the next VMC of the pool.
ScanVmc(v) ==
    /\ pc[v] = "scan"
    /\ LET s == scan[v] IN
         \/ Scanned(s) /\ Goto(v, "choose") /\ UNCHANGED scan
         \/ /\ ~Scanned(s) /\ scheduled_vms[s.next] = Missing
            /\ Goto(v, "reset_count") /\ UNCHANGED scan
         \/ /\ ~Scanned(s) /\ scheduled_vms[s.next] # Missing
            /\ scan' = [scan EXCEPT ![v] = Seen(s, scheduled_vms[s.next])]
            /\ UNCHANGED pc
    /\ UNCHANGED <<settings, locks, store, order, vmc>>

\* It had no scheduled_vms: write 0.
ResetCount(v) ==
    /\ pc[v] = "reset_count"
    /\ scheduled_vms' = [scheduled_vms EXCEPT ![scan[v].next] = 0]
    /\ scan' = [scan EXCEPT ![v] = SeenMissing(@)]
    /\ Goto(v, "scan")
    /\ UNCHANGED <<settings, locks, leader, first_vmc, vms_nr, order, vmc>>

\* Mutant: the removal stops at the last VMC of the pool.
CandidatesLast(v) == IF "roundrobin" \notin method THEN Pool
                     ELSE IF scan[v].pick = 0 THEN {PoolSize} ELSE {scan[v].pick}

\* Without the highest ones, the first VMC that is left; the removal stops at the last
\* one, which is the first of the pool.
Candidates(v) == IF "roundrobin" \notin method THEN Pool
                 ELSE IF scan[v].pick = 0 THEN {1} ELSE {scan[v].pick}

Choose(v) ==
    /\ pc[v] = "choose"
    /\ \E m \in Candidates(v) : vmc' = [vmc EXCEPT ![v] = m]
    /\ scan' = [scan EXCEPT ![v] = NewScan]
    /\ Goto(v, IF "colocate" \in method THEN "colocate_lock" ELSE "schedule")
    /\ UNCHANGED <<settings, locks, store, order>>

\* Mutant: the entry is read and written without the lock.
ColocateUnlocked(v) ==
    /\ pc[v] = "colocate_lock"
    /\ Goto(v, "colocate")
    /\ UNCHANGED <<settings, locks, store, order, vmc, scan>>

ColocateLock(v) ==
    /\ pc[v] = "colocate_lock"
    /\ \/ Colocating!Acquire(v) /\ Goto(v, "colocate") /\ UNCHANGED vmc
       \/ /\ LockFails /\ UNCHANGED colocating
          /\ vmc' = [vmc EXCEPT ![v] = 0]
          /\ Goto(v, IF v \in inside THEN "give_up" ELSE "failed")
    /\ UNCHANGED <<settings, inside, store, order, scan>>

\* Read first_vmc: the VM follows the first VM of its AI, or is the first one.  All the
\* VMs without an AI share one entry.
Colocate(v) ==
    /\ pc[v] = "colocate"
    /\ LET first == first_vmc[home[v]] IN
         \/ first = 0 /\ Goto(v, "set_first") /\ UNCHANGED vmc
         \/ first # 0 /\ vmc' = [vmc EXCEPT ![v] = first] /\ Goto(v, "schedule")
    /\ UNCHANGED <<settings, locks, store, order, scan>>

\* The first VM of the AI leaves its VMC for the others to share.
SetFirst(v) ==
    /\ pc[v] = "set_first"
    /\ first_vmc' = [first_vmc EXCEPT ![home[v]] = vmc[v]]
    /\ Goto(v, "schedule")
    /\ UNCHANGED <<settings, locks, leader, scheduled_vms, vms_nr, order, vmc, scan>>

\* The locks the VM still has are released one after the other.
AfterLocks(v) == IF v \in inside THEN "unlock"
                 ELSE IF v \in colocating THEN "unlock_colocate" ELSE "placed"

\* admission_control(..., "schedule").
Schedule(v) ==
    /\ pc[v] = "schedule"
    /\ CountScheduled(vmc[v], 1)
    /\ Goto(v, AfterLocks(v))
    /\ UNCHANGED <<settings, locks, leader, first_vmc, vms_nr, order, vmc, scan>>

Unlock(v) ==
    /\ pc[v] = "unlock"
    /\ Placing!Release(v)
    /\ Goto(v, IF v \in colocating THEN "unlock_colocate" ELSE "placed")
    /\ UNCHANGED <<settings, colocating, store, order, vmc, scan>>

UnlockColocate(v) ==
    /\ pc[v] = "unlock_colocate"
    /\ Colocating!Release(v)
    /\ Goto(v, "placed")
    /\ UNCHANGED <<settings, inside, store, order, vmc, scan>>

\* The finally block of a pre_attach_vm that could not have vmc_colocate.
GiveUp(v) ==
    /\ pc[v] = "give_up"
    /\ Placing!Release(v)
    /\ Goto(v, "gave_up")
    /\ UNCHANGED <<settings, colocating, store, order, vmc, scan>>

pre_attach_vm(v) == \/ Begin(v) \/ Lock(v) \/ ReadLeader(v) \/ BackOff(v) \/ AdvanceLeader(v)
                    \/ ScanVmc(v) \/ ResetCount(v) \/ Choose(v) \/ ColocateLock(v)
                    \/ Colocate(v) \/ SetFirst(v) \/ Schedule(v) \/ Unlock(v)
                    \/ UnlockColocate(v) \/ GiveUp(v)

-----------------------------------------------------------------------------
(* After pre_attach_vm *)

\* The rest of objattach, which succeeds or rolls back.
FinishAttach(v) ==
    /\ pc[v] = "placed"
    /\ \/ Goto(v, "attached")
       \/ Goto(v, "deschedule_lock")
    /\ UNCHANGED <<settings, locks, store, order, vmc, scan>>

\* admission_control(..., "deschedule").
DescheduleLock(v) ==
    /\ pc[v] = "deschedule_lock"
    /\ \/ Placing!Acquire(v) /\ Goto(v, "deschedule")
       \/ LockFails /\ Goto(v, "stuck") /\ UNCHANGED inside
    /\ UNCHANGED <<settings, colocating, store, order, vmc, scan>>

\* Mutant: the count of the first VMC is decremented, not that of the VM's.
DescheduleFirst(v) ==
    /\ pc[v] = "deschedule"
    /\ CountScheduled(1, -1)
    /\ Goto(v, "deschedule_unlock")
    /\ UNCHANGED <<settings, locks, leader, first_vmc, vms_nr, order, vmc, scan>>

Deschedule(v) ==
    /\ pc[v] = "deschedule"
    /\ CountScheduled(vmc[v], -1)
    /\ Goto(v, "deschedule_unlock")
    /\ UNCHANGED <<settings, locks, leader, first_vmc, vms_nr, order, vmc, scan>>

DescheduleUnlock(v) ==
    /\ pc[v] = "deschedule_unlock"
    /\ Placing!Release(v)
    /\ Goto(v, "gone")
    /\ UNCHANGED <<settings, colocating, store, order, vmc, scan>>

deschedule(v) == DescheduleLock(v) \/ Deschedule(v) \/ DescheduleUnlock(v)

Finished == \A v \in VM : \/ pc[v] \in {"attached", "gave_up", "failed", "gone", "stuck"}
                          \/ pc[v] = "queued" /\ ~WorkerTakes(v)

Next == \/ \E v \in VM : \/ Enlist(v) \/ pre_attach_vm(v) \/ FinishAttach(v) \/ deschedule(v)
        \/ \E a \in AI : Shrink(a)
        \/ Finished /\ UNCHANGED vars

Spec == Init /\ [][Next]_vars

\* Every thread goes on.  A lock is free again and again for whoever polls it: those who
\* wait for their turn sleep between two attempts, and those who place leave.
Fairness ==
    \A v \in VM : /\ WF_vars(pre_attach_vm(v) \/ FinishAttach(v) \/ deschedule(v))
                  /\ SF_vars(Lock(v) \/ ColocateLock(v) \/ DescheduleLock(v))

FairSpec == Spec /\ Fairness

-----------------------------------------------------------------------------
(* Properties *)

\* The VM has announced a turn, or chosen without one.
Waiting(v) == pc[v] \in {"lock", "turn", "back_off"} /\ home[v] \in AI

PastTurn(v) == pc[v] \notin {"idle", "queued", "lock", "turn", "back_off", "advance", "failed"}

Resized(a) == \E v \in OfAI(a) : Removed(v)

Leaving == {"deschedule_lock", "deschedule", "deschedule_unlock", "gone", "stuck"}

HasCount(v) == pc[v] \in {"unlock", "unlock_colocate", "placed", "attached",
                          "deschedule_lock", "deschedule", "stuck"}

\* The VM was sent to its VMC by name.  (Told apart by Explicit and Pool being disjoint.)
ByName(v) == vmc[v] \in Explicit /\ vmc[v] \notin Pool

\* Comment of pre_attach_vm: the turns make the placement of an AI repeatable.  A VM takes
\* its turn only after every earlier VM of its AI took one, whatever the threads do.  (An
\* AI that airesize made smaller numbers VMs anew.)
PlacedInOrder ==
    "roundrobin" \in method =>
        \A v \in VM : PastTurn(v) /\ ~ByName(v) /\ home[v] \in AI /\ ~Resized(home[v])
                          => \A w \in Earlier(v) : PastTurn(w)

\* scheduled_vms is the number of VMs sent to the VMC and not taken back, although the
\* loop that gives a new VMC its 0 reads and writes in two round trips.  It needs VMs
\* sent by name to stay out of the pool: they take no lock.
CountsExact ==
    \A m \in VMC : CountAt(m) = Cardinality({v \in VM : vmc[v] = m /\ HasCount(v)})

\* Round robin never adds a VM to a VMC with the highest count, unless all counts are equal:
\* the count that the decision was based on is still the count when it takes effect.
NeverBusiest ==
    [][\A v \in VM :
          /\ method = {"roundrobin"}
          /\ pc[v] = "schedule" /\ pc'[v] # "schedule" /\ vmc[v] \in Pool
          => \/ \E m \in Pool : CountAt(m) > CountAt(vmc[v])
             \/ \A m \in Pool : CountAt(m) = CountAt(vmc[v])]_vars

\* While no VM has left, round robin fills the VMCs evenly, the first ones first, whatever
\* the order in which AIs and single VMs arrive.
Balanced ==
    method = {"roundrobin"} /\ (\A v \in VM : pc[v] \notin Leaving)
        => \A m, n \in Pool : m < n => CountAt(m) - CountAt(n) \in {0, 1}

\* Co-location: the VMs of an AI that were not sent elsewhere by name share one VMC,
\* although first_vmc is read and written in two round trips to the store.
StayTogether ==
    "colocate" \in method =>
        \A v, w \in VM : /\ home[v] = home[w]
                         /\ HasCount(v) /\ HasCount(w)
                         /\ vmc[v] \in Pool /\ vmc[w] \in Pool
                         => vmc[v] = vmc[w]

\* A VM whose turn has not come gets its turn, or acquire_lock gives up, unless an earlier
\* VM of its AI failed before its turn, or was sent to a VMC by name and took none, or
\* airesize numbered the VM anew.  The bounded thread pool does not block it.
EveryTurnComes ==
    \A v \in VM :
        Waiting(v) ~> \/ ~Waiting(v)
                      \/ \E w \in Earlier(v) : pc[w] = "failed" \/ ByName(w)
                      \/ Resized(home[v])

\* "Force serializing of the placement decision (but not the attachment)"
\* (active_operations.py:1300): a VM waits only for decisions, so once the VMC of every
\* earlier VM of its AI is chosen its own turn comes.  The code breaks it: see the run
\* placement_turn.
WaitsForDecisionsOnly ==
    \A v \in VM :
        Waiting(v) /\ (\A w \in Earlier(v) : vmc[w] # 0) ~> ~Waiting(v)
==============================================================================
