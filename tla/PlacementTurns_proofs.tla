------------------------- MODULE PlacementTurns_proofs -------------------------
(***************************************************************************)
(* What the placement lock and the turns keep, for any number of AIs, VMs  *)
(* and VMCs, any sizes of the thread pools and locks that may fail: exact  *)
(* counts, placement in order, co-location and a choice that is never the  *)
(* busiest VMC.  VMs sent to a VMC by name stay out of the pool (Outside). *)
(***************************************************************************)
EXTENDS Placement_proofs, FiniteSetTheorems

\* Only round robin takes turns and loops over the pool, and while a VM is about to write a
\* first 0 the count is still missing.
Looping ==
    /\ \A v \in VM : pc[v] \in {"lock", "turn", "back_off", "advance", "scan", "reset_count"}
                       => "roundrobin" \in method
    /\ \A v \in VM : pc[v] = "reset_count" => scheduled_vms[scan[v].next] = Missing

\* A VM in the loop or at its end took its turn.
TookTurn(v) == \/ pc[v] \in {"scan", "reset_count", "choose", "colocate_lock", "colocate", "set_first"}
               \/ PastTurn(v) /\ ~ByName(v)

\* The turns of an AI: its VMs have numbers of their own below vms_nr, and a VM took its turn
\* if and only if the leader is beyond its number.
TurnsOf(a) ==
    /\ leader[a] <= vms_nr[a]
    /\ \A v \in OfAI(a) : order[v] < vms_nr[a]
    /\ \A v, w \in OfAI(a) : order[v] = order[w] /\ order[v] # Unnumbered => v = w
    /\ \A v \in OfAI(a) : pc[v] = "advance" => leader[a] = order[v]
    /\ \A v \in OfAI(a) : TookTurn(v) => order[v] < leader[a]
    /\ \A v \in OfAI(a) : order[v] # Unnumbered /\ order[v] < leader[a] => PastTurn(v)

Turns == "roundrobin" \in method =>
             /\ \A v \in VM : pc[v] = "idle" => order[v] = Unnumbered
             /\ \A a \in AI : ~Resized(a) => TurnsOf(a)

\* A VM that is or was counted in the pool is where the first one of its AI is.
FirstIsShared ==
    "colocate" \in method =>
        \A v \in VM : (pc[v] = "schedule" \/ HasCount(v)) /\ vmc[v] \in Pool
                          => vmc[v] = first_vmc[home[v]]

\* One VM at a time has the lock vmc_colocate, and the one that is about to write first_vmc
\* knows that there is none.
OneColocates ==
    /\ \A v, w \in colocating : v = w
    /\ \A v \in VM : pc[v] \in {"colocate", "set_first"} => v \in colocating
    /\ \A v \in VM : pc[v] = "set_first" => first_vmc[home[v]] = 0

\* No VMC of the pool has fewer VMs, or some has more.
NotBusiest(k) == \/ \E m \in Pool : CountAt(m) > CountAt(k)
                 \/ \A m \in Pool : CountAt(m) = CountAt(k)

\* What the loop has found is true of the VMCs it has looked at, whoever left meanwhile.
Found(v) ==
    /\ pc[v] = "choose" => scan[v].next > PoolSize
    /\ scan[v].pick = 0 =>
         \/ scan[v].next = 1 /\ scan[v].top = Missing
         \/ /\ scan[v].next > 1
            /\ \A n \in Pool : n < scan[v].next => CountAt(1) <= CountAt(n) /\ CountAt(n) <= scan[v].top
            /\ \E n \in Pool : CountAt(n) = scan[v].top
    /\ scan[v].pick # 0 => \/ CountAt(scan[v].pick) = 0
                           \/ \E m \in Pool : CountAt(m) > CountAt(scan[v].pick)

Choosing ==
    RoundRobin =>
        /\ \A v \in VM : pc[v] \notin {"colocate_lock", "colocate", "set_first"}
        /\ \A v \in VM : IF Scanning(v) THEN Found(v) ELSE scan[v] = NewScan
        /\ \A v \in VM : pc[v] = "schedule" /\ vmc[v] \in Pool => NotBusiest(vmc[v])

-----------------------------------------------------------------------------
(* One step *)

\* The step of airesize that takes this VM out of its AI.
ShrinkBy(v) == /\ home[v] \in AI /\ Shrink(home[v]) /\ pc[v] = "attached"
               /\ Goto(v, "deschedule_lock")
               /\ order' = [order EXCEPT ![v] = Unnumbered]

Acts(v) == Enlist(v) \/ pre_attach_vm(v) \/ FinishAttach(v) \/ deschedule(v) \/ ShrinkBy(v)

\* Nothing moves but v.
Alone(v) == /\ settings' = settings
            /\ \A w \in VM \ {v} : /\ pc'[w] = pc[w] /\ vmc'[w] = vmc[w]
                                   /\ scan'[w] = scan[w] /\ order'[w] = order[w]

\* A step moves one VM, if any.
LEMMA OneActs == Typed /\ [Next]_vars => UNCHANGED vars \/ \E v \in VM : Acts(v) /\ Alone(v)
<1> SUFFICES ASSUME Typed, [Next]_vars, ~UNCHANGED vars PROVE \E v \in VM : Acts(v) /\ Alone(v)
  OBVIOUS
<1> USE DEF Alone, Typed, TypeOK, settings, Goto
<1>1. ASSUME NEW v \in VM, Enlist(v) PROVE Alone(v)
  BY <1>1 DEF Enlist
<1>2. ASSUME NEW v \in VM, Begin(v) \/ Lock(v) \/ ReadLeader(v) \/ BackOff(v) \/ AdvanceLeader(v)
      PROVE  Alone(v)
  BY <1>2 DEF Begin, Lock, ReadLeader, BackOff, AdvanceLeader
<1>3. ASSUME NEW v \in VM, ScanVmc(v) \/ ResetCount(v) \/ Choose(v) PROVE Alone(v)
  BY <1>3 DEF ScanVmc, ResetCount, Choose
<1>4. ASSUME NEW v \in VM, ColocateLock(v) \/ Colocate(v) \/ SetFirst(v) \/ Schedule(v) \/ Unlock(v)
                             \/ UnlockColocate(v) \/ GiveUp(v)
      PROVE  Alone(v)
  BY <1>4 DEF ColocateLock, Colocate, SetFirst, Schedule, Unlock, UnlockColocate, GiveUp
<1>5. ASSUME NEW v \in VM, FinishAttach(v) \/ deschedule(v) PROVE Alone(v)
  BY <1>5 DEF FinishAttach, deschedule, DescheduleLock, Deschedule, DescheduleUnlock
<1>6. ASSUME NEW a \in AI, Shrink(a) PROVE \E v \in VM : ShrinkBy(v) /\ Alone(v)
  <2>1. PICK v \in OfAI(a) : /\ pc[v] = "attached"
                             /\ order' = [order EXCEPT ![v] = Unnumbered]
                             /\ Goto(v, "deschedule_lock")
    BY <1>6 DEF Shrink
  <2>2. v \in VM /\ home[v] = a
    BY DEF OfAI
  <2>3. ShrinkBy(v)
    BY <1>6, <2>1, <2>2 DEF ShrinkBy
  <2>4. Alone(v)
    BY <1>6, <2>1, <2>2 DEF Shrink
  <2> QED
    BY <2>2, <2>3, <2>4
<1> QED
  BY <1>1, <1>2, <1>3, <1>4, <1>5, <1>6 DEF Next, Acts, pre_attach_vm

\* The owner of the lock has the counts of the pool for itself.
LEMMA OnlyOwnerCounts ==
  ASSUME Outside, Typed, OneOwner, Looping, NEW v \in VM, Acts(v), NEW m \in Pool,
         "roundrobin" \in method, scheduled_vms'[m] # scheduled_vms[m]
  PROVE  Owner(v)
<1>1. m \in VMC
  BY DEF VMC
<1>2. CASE Schedule(v)
  <2>1. vmc[v] = m
    BY <1>1, <1>2 DEF Schedule, CountScheduled, Typed, TypeOK
  <2> QED
    BY <1>2, <2>1 DEF Schedule, Owner
<1>3. CASE Deschedule(v) \/ ResetCount(v)
  BY <1>3 DEF Deschedule, ResetCount, Owner
<1>4. CASE ~Schedule(v) /\ ~Deschedule(v) /\ ~ResetCount(v)
  BY <1>4 DEF Acts, pre_attach_vm, deschedule, Enlist, Begin, Lock, ReadLeader, BackOff,
     AdvanceLeader, ScanVmc, Choose, ColocateLock, Colocate, SetFirst, Unlock, UnlockColocate, GiveUp,
     FinishAttach, DescheduleLock, DescheduleUnlock, ShrinkBy, Shrink, store
<1> QED
  BY <1>2, <1>3, <1>4

\* Round robin alone loops, and nobody else gives a VMC its first count meanwhile.
LEMMA LoopingStep ==
  ASSUME Outside, Typed, OneOwner, Looping, [Next]_vars
  PROVE  Looping'
<1>1. CASE UNCHANGED vars
  BY <1>1 DEF vars, settings, store, Looping
<1>2. ASSUME NEW v \in VM, Acts(v), Alone(v) PROVE Looping'
  <2>1. pc'[v] \in {"lock", "turn", "back_off", "advance", "scan", "reset_count"}
           => "roundrobin" \in method
    BY <1>2 DEF Acts, pre_attach_vm, deschedule, Enlist, Begin, Lock, ReadLeader, BackOff,
       AdvanceLeader, ScanVmc, ResetCount, Choose, ColocateLock, Colocate, SetFirst, Schedule, AfterLocks,
       Unlock, UnlockColocate, GiveUp, FinishAttach, DescheduleLock, Deschedule,
       DescheduleUnlock, ShrinkBy, Goto, Looping, Typed, TypeOK
  <2>2. pc'[v] = "reset_count" => scheduled_vms'[scan'[v].next] = Missing
    <3>1. CASE ScanVmc(v)
      BY <3>1 DEF ScanVmc, Goto, store, Typed, TypeOK
    <3>2. CASE ~ScanVmc(v)
      BY <1>2, <3>2 DEF Acts, pre_attach_vm, deschedule, Enlist, Begin, Lock, ReadLeader,
         BackOff, AdvanceLeader, ResetCount, Choose, ColocateLock, Colocate, SetFirst, Schedule,
         AfterLocks, Unlock, UnlockColocate, GiveUp, FinishAttach, DescheduleLock, Deschedule,
         DescheduleUnlock, ShrinkBy, Goto, Typed, TypeOK
    <3> QED
      BY <3>1, <3>2
  <2>3. ASSUME NEW w \in VM \ {v}, pc[w] = "reset_count"
        PROVE  scheduled_vms'[scan[w].next] = scheduled_vms[scan[w].next]
    <3>1. scan[w].next \in Pool /\ "roundrobin" \in method
      BY <2>3 DEF Typed, ResetInPool, Looping
    <3>2. ~Owner(v)
      BY <2>3 DEF OneOwner, Owner
    <3> QED
      BY <1>2, <3>1, <3>2, OnlyOwnerCounts
  <2> QED
    BY <1>2, <2>1, <2>2, <2>3 DEF Looping, Alone, settings
<1> QED
  BY <1>1, <1>2, OneActs

-----------------------------------------------------------------------------
(* The counts *)

\* The VMs that have a count at a VMC.
CountedAt(m) == {v \in VM : vmc[v] = m /\ HasCount(v)}

\* They are finitely many, so no count is negative.
LEMMA FiniteCounts ==
  ASSUME CountsExact
  PROVE  \A m \in VMC : /\ IsFiniteSet(CountedAt(m)) /\ CountAt(m) = Cardinality(CountedAt(m))
                        /\ CountAt(m) \in Nat
<1> SUFFICES ASSUME NEW m \in VMC
             PROVE  /\ IsFiniteSet(CountedAt(m)) /\ CountAt(m) = Cardinality(CountedAt(m))
                    /\ CountAt(m) \in Nat
  OBVIOUS
<1>1. CountedAt(m) \subseteq VM
  BY DEF CountedAt
<1>2. IsFiniteSet(CountedAt(m)) /\ Cardinality(CountedAt(m)) \in Nat
  BY <1>1, PlacementAssumption, FS_Subset, FS_CardinalityType
<1>3. CountAt(m) = Cardinality(CountedAt(m))
  BY DEF CountsExact, CountedAt
<1> QED
  BY <1>2, <1>3

\* The schedule of a VM counts it, where it was not counted.
LEMMA ScheduleCounts ==
  ASSUME Typed, CountsExact, NEW v \in VM, Schedule(v), Alone(v), NEW m \in VMC
  PROVE  CountAt(m)' = Cardinality(CountedAt(m)')
<1>1. CountAt(m) \in Nat /\ IsFiniteSet(CountedAt(m)) /\ CountAt(m) = Cardinality(CountedAt(m))
  BY FiniteCounts
<1>2. /\ v \notin CountedAt(m) /\ HasCount(v)'
      /\ \A w \in VM \ {v} : HasCount(w)' <=> HasCount(w)
      /\ vmc' = vmc
  BY DEF Schedule, AfterLocks, Goto, HasCount, CountedAt, Alone, Typed, TypeOK
<1>3. CASE m = vmc[v]
  <2>1. scheduled_vms'[m] = CountAt(m) + 1
    BY <1>3 DEF Schedule, CountScheduled, Typed, TypeOK
  <2>2. CountAt(m)' = CountAt(m) + 1
    BY <1>1, <2>1 DEF CountAt, Missing
  <2>3. CountedAt(m)' = CountedAt(m) \cup {v}
    BY <1>2, <1>3 DEF CountedAt
  <2>4. Cardinality(CountedAt(m)') = Cardinality(CountedAt(m)) + 1
    BY <1>1, <1>2, <2>3, FS_AddElement
  <2> QED
    BY <1>1, <2>2, <2>4
<1>4. CASE m # vmc[v]
  <2>1. scheduled_vms'[m] = scheduled_vms[m]
    BY <1>4 DEF Schedule, CountScheduled, Typed, TypeOK
  <2>2. CountedAt(m)' = CountedAt(m)
    BY <1>2, <1>4 DEF CountedAt
  <2> QED
    BY <1>1, <2>1, <2>2 DEF CountAt
<1> QED
  BY <1>3, <1>4

\* Its deschedule takes it back, where it was counted.
LEMMA DescheduleCounts ==
  ASSUME Typed, CountsExact, NEW v \in VM, Deschedule(v), Alone(v), NEW m \in VMC
  PROVE  CountAt(m)' = Cardinality(CountedAt(m)')
<1>1. CountAt(m) \in Nat /\ IsFiniteSet(CountedAt(m)) /\ CountAt(m) = Cardinality(CountedAt(m))
  BY FiniteCounts
<1>2. /\ HasCount(v) /\ ~HasCount(v)'
      /\ \A w \in VM \ {v} : HasCount(w)' <=> HasCount(w)
      /\ vmc' = vmc
  BY DEF Deschedule, Goto, HasCount, Alone, Typed, TypeOK
<1>3. CASE m = vmc[v]
  <2>1. v \in CountedAt(m) /\ CountedAt(m)' = CountedAt(m) \ {v}
    BY <1>2, <1>3 DEF CountedAt
  <2>2. Cardinality(CountedAt(m)') = Cardinality(CountedAt(m)) - 1 /\ Cardinality(CountedAt(m)') \in Nat
    BY <1>1, <2>1, FS_RemoveElement, FS_CardinalityType
  <2>3. scheduled_vms'[m] = CountAt(m) - 1
    BY <1>1, <1>3 DEF Deschedule, CountScheduled, Typed, TypeOK
  <2>4. CountAt(m)' = CountAt(m) - 1
    BY <1>1, <2>2, <2>3 DEF CountAt, Missing
  <2> QED
    BY <1>1, <2>2, <2>4
<1>4. CASE m # vmc[v]
  <2>1. scheduled_vms'[m] = scheduled_vms[m]
    BY <1>4 DEF Deschedule, CountScheduled, Typed, TypeOK
  <2>2. CountedAt(m)' = CountedAt(m)
    BY <1>2, <1>4 DEF CountedAt
  <2> QED
    BY <1>1, <2>1, <2>2 DEF CountAt
<1> QED
  BY <1>3, <1>4

\* No other step counts, not even the one that writes a first 0.
LEMMA OthersKeepCounts ==
  ASSUME Typed, Looping, NEW v \in VM, Acts(v), Alone(v), ~Schedule(v), ~Deschedule(v),
         NEW m \in VMC
  PROVE  /\ CountAt(m)' = CountAt(m)
         /\ CountedAt(m)' = CountedAt(m)
<1>1. CountAt(m)' = CountAt(m)
  <2>1. CASE ResetCount(v)
    BY <2>1 DEF ResetCount, Looping, CountAt, Missing, Typed, TypeOK
  <2>2. CASE ~ResetCount(v)
    BY <2>2 DEF Acts, pre_attach_vm, deschedule, Enlist, Begin, Lock, ReadLeader, BackOff,
       AdvanceLeader, ScanVmc, Choose, ColocateLock, Colocate, SetFirst, Unlock, UnlockColocate, GiveUp,
       FinishAttach, DescheduleLock, DescheduleUnlock, ShrinkBy, Shrink, store, CountAt
  <2> QED
    BY <2>1, <2>2
<1>2. /\ HasCount(v)' <=> HasCount(v)
      /\ HasCount(v) => vmc'[v] = vmc[v]
  BY DEF Acts, pre_attach_vm, deschedule, Enlist, Starts, Begin, Lock, ReadLeader, BackOff,
     AdvanceLeader, ScanVmc, ResetCount, Choose, ColocateLock, Colocate, SetFirst, Unlock, UnlockColocate,
     GiveUp, FinishAttach, DescheduleLock, DescheduleUnlock, ShrinkBy, Shrink, Goto, HasCount,
     Typed, TypeOK
<1>3. \A w \in VM \ {v} : (HasCount(w)' <=> HasCount(w)) /\ vmc'[w] = vmc[w]
  BY DEF Alone, HasCount
<1> QED
  BY <1>1, <1>2, <1>3 DEF CountedAt

\* Every step keeps the counts exact.
LEMMA CountsStep ==
  ASSUME Typed, Looping, CountsExact, [Next]_vars
  PROVE  CountsExact'
<1>1. CASE UNCHANGED vars
  BY <1>1 DEF vars, store, CountsExact, CountAt, HasCount
<1>2. ASSUME NEW v \in VM, Acts(v), Alone(v), NEW m \in VMC
      PROVE  CountAt(m)' = Cardinality(CountedAt(m)')
  <2>1. CASE ~Schedule(v) /\ ~Deschedule(v)
    BY <1>2, <2>1, OthersKeepCounts, FiniteCounts
  <2> QED
    BY <1>2, <2>1, ScheduleCounts, DescheduleCounts
<1> QED
  BY <1>1, <1>2, OneActs DEF CountsExact, CountedAt

\* What the lock vmc_placement keeps.
Exact == Typed /\ OneOwner /\ Looping /\ CountsExact

\* So they always are.
LEMMA ExactHolds == ASSUME Outside PROVE Spec => []Exact
<1>1. Init => Exact
  <2> SUFFICES ASSUME Init PROVE Looping /\ CountsExact
    BY TypeInit, OwnerInit DEF Exact
  <2>1. Looping
    BY DEF Init, Looping
  <2>2. \A m \in VMC : CountAt(m) = 0 /\ {v \in VM : vmc[v] = m /\ HasCount(v)} = {}
    BY DEF Init, CountAt, HasCount
  <2> QED
    BY <2>1, <2>2, FS_EmptySet DEF CountsExact
<1>2. Exact /\ [Next]_vars => Exact'
  BY TypeNext, OwnerNext, LoopingStep, CountsStep DEF Exact, Typed
<1> QED
  BY <1>1, <1>2, PTL DEF Spec

\* scheduled_vms is the number of VMs sent to the VMC and not taken back, for any number of
\* VMs, VMCs and AIs, when no VM is sent to a VMC of the pool by name.
THEOREM CountsAlwaysExact == ASSUME Outside PROVE Spec => []CountsExact
<1>1. Exact => CountsExact
  BY DEF Exact
<1> QED
  BY <1>1, ExactHolds, PTL

-----------------------------------------------------------------------------
(* Co-location *)

\* Only the VM that wrote it changes first_vmc.
LEMMA FirstWritten ==
  ASSUME Typed, NEW v \in VM, Acts(v), ~SetFirst(v)
  PROVE  first_vmc' = first_vmc
BY DEF Acts, pre_attach_vm, deschedule, Enlist, Begin, Lock, ReadLeader, BackOff,
   AdvanceLeader, ScanVmc, ResetCount, Choose, ColocateLock, Colocate, Schedule, Unlock,
   UnlockColocate, GiveUp, FinishAttach, DescheduleLock, Deschedule, DescheduleUnlock,
   ShrinkBy, Shrink, store

\* The lock keeps the reading and the writing of first_vmc together.
LEMMA ColocatesStep ==
  ASSUME Typed, OneColocates, [Next]_vars
  PROVE  OneColocates'
<1>1. CASE UNCHANGED vars
  BY <1>1 DEF vars, locks, store, OneColocates
<1>2. ASSUME NEW v \in VM, Acts(v), Alone(v) PROVE OneColocates'
  <2>1. /\ \A w, x \in colocating' : w = x
        /\ colocating \ {v} \subseteq colocating'
        /\ pc'[v] \in {"colocate", "set_first"} => v \in colocating'
        /\ pc'[v] = "set_first" => first_vmc'[home[v]] = 0
    <3>1. CASE ColocateLock(v)
      BY <3>1 DEF ColocateLock, Colocating!Acquire, OneColocates, Goto, Typed, TypeOK
    <3>2. CASE Colocate(v)
      BY <3>2 DEF Colocate, locks, store, OneColocates, Goto, Typed, TypeOK
    <3>3. CASE SetFirst(v)
      BY <3>3 DEF SetFirst, locks, OneColocates, Goto, Typed, TypeOK
    <3>4. CASE UnlockColocate(v)
      BY <3>4 DEF UnlockColocate, Colocating!Release, OneColocates, Goto, Typed, TypeOK
    <3>5. CASE ~ColocateLock(v) /\ ~Colocate(v) /\ ~SetFirst(v) /\ ~UnlockColocate(v)
      <4>1. colocating' = colocating /\ pc'[v] \notin {"colocate", "set_first"}
        BY <1>2, <3>5 DEF Acts, pre_attach_vm, deschedule, Enlist, Begin, Lock, ReadLeader,
           BackOff, AdvanceLeader, ScanVmc, ResetCount, Choose, Schedule, AfterLocks, Unlock,
           GiveUp, FinishAttach, DescheduleLock, Deschedule, DescheduleUnlock, ShrinkBy, Shrink,
           locks, Goto, OneColocates, Typed, TypeOK
      <4> QED
        BY <4>1 DEF OneColocates
    <3> QED
      BY <3>1, <3>2, <3>3, <3>4, <3>5
  <2>2. ASSUME NEW w \in VM \ {v}, pc'[w] = "set_first" PROVE first_vmc'[home[w]] = 0
    <3>1. pc[w] = "set_first" /\ ~SetFirst(v)
      BY <1>2, <2>2 DEF Alone, OneColocates, SetFirst
    <3> QED
      BY <1>2, <3>1, FirstWritten DEF OneColocates
  <2> QED
    BY <1>2, <2>1, <2>2 DEF OneColocates, Alone
<1> QED
  BY <1>1, <1>2, OneActs

\* first_vmc is written once, and every VM that does not go by name takes it over.
LEMMA SharedStep ==
  ASSUME Outside, Typed, OneColocates, FirstIsShared, [Next]_vars
  PROVE  FirstIsShared'
<1> SUFFICES ASSUME "colocate" \in method', NEW v \in VM,
                    (pc[v] = "schedule" \/ HasCount(v))', vmc'[v] \in Pool
             PROVE  vmc'[v] = first_vmc'[home[v]]
  BY DEF FirstIsShared
<1>1. CASE UNCHANGED vars
  BY <1>1 DEF vars, settings, store, FirstIsShared, HasCount
<1>2. ASSUME NEW w \in VM, Acts(w), Alone(w) PROVE vmc'[v] = first_vmc'[home[v]]
  <2>1. "colocate" \in method
    BY <1>2 DEF Alone, settings
  <2>2. \A a \in AI \cup {NoAI} : first_vmc[a] # 0 => first_vmc'[a] = first_vmc[a]
    <3>1. CASE SetFirst(w)
      BY <3>1 DEF SetFirst, OneColocates, Typed, TypeOK
    <3> QED
      BY <1>2, <3>1, FirstWritten
  <2>3. home[v] \in AI \cup {NoAI} /\ 0 \notin Pool
    BY PlacementAssumption DEF Pool
  <2>4. CASE (pc[v] = "schedule" \/ HasCount(v)) /\ vmc'[v] = vmc[v]
    <3>1. vmc[v] = first_vmc[home[v]]
      BY <2>1, <2>4 DEF FirstIsShared
    <3> QED
      BY <2>2, <2>3, <2>4, <3>1
  <2>5. CASE ~((pc[v] = "schedule" \/ HasCount(v)) /\ vmc'[v] = vmc[v])
    <3>1. v = w
      BY <1>2, <2>5 DEF Alone, HasCount
    <3>2. CASE Colocate(v)
      BY <2>3, <3>2 DEF Colocate, Goto, HasCount, store, Typed, TypeOK
    <3>3. CASE SetFirst(v)
      BY <2>3, <3>3 DEF SetFirst, Typed, TypeOK
    <3>4. CASE ~Colocate(v) /\ ~SetFirst(v)
      BY <1>2, <2>1, <2>5, <3>1, <3>4 DEF Outside, Acts, pre_attach_vm, deschedule, Enlist,
         Begin, Lock, ReadLeader, BackOff, AdvanceLeader, ScanVmc, ResetCount, Choose,
         ColocateLock, Schedule, AfterLocks, Unlock, UnlockColocate, GiveUp, FinishAttach,
         DescheduleLock, Deschedule, DescheduleUnlock, ShrinkBy, Shrink, Goto, HasCount, Typed,
         TypeOK
    <3> QED
      BY <3>2, <3>3, <3>4
  <2> QED
    BY <2>4, <2>5
<1> QED
  BY <1>1, <1>2, OneActs

\* The VMs of an AI that were not sent elsewhere by name share one VMC, however their threads
\* interleave and whichever lock fails.
THEOREM AlwaysTogether == ASSUME Outside PROVE Spec => []StayTogether
<1>1. Init => Typed /\ OneColocates /\ FirstIsShared
  BY TypeInit DEF Init, OneColocates, FirstIsShared, HasCount
<1>2. Typed /\ OneColocates /\ FirstIsShared /\ [Next]_vars
        => Typed' /\ OneColocates' /\ FirstIsShared'
  BY TypeNext, ColocatesStep, SharedStep
<1>3. FirstIsShared => StayTogether
  BY DEF FirstIsShared, StayTogether
<1> QED
  BY <1>1, <1>2, <1>3, PTL DEF Spec

-----------------------------------------------------------------------------
(* The turns *)

\* An AI that was made smaller stays so, and only a VM that is enlisted gets a number.
LEMMA NumbersStay ==
  ASSUME Typed, NEW v \in VM, Acts(v), Alone(v)
  PROVE  /\ pc'[v] # "idle"
         /\ \/ order'[v] = order[v]
            \/ Enlist(v)
            \/ ShrinkBy(v)
         /\ \A a \in AI : Resized(a) => Resized(a)'
<1>1. /\ pc'[v] # "idle"
      /\ \/ order'[v] = order[v]
         \/ Enlist(v)
         \/ ShrinkBy(v)
  BY DEF Acts, pre_attach_vm, deschedule, Enlist, Begin, Lock, ReadLeader, BackOff, AdvanceLeader,
     ScanVmc, ResetCount, Choose, ColocateLock, Colocate, SetFirst, Schedule, AfterLocks, Unlock,
     UnlockColocate, GiveUp, FinishAttach, DescheduleLock, Deschedule, DescheduleUnlock,
     ShrinkBy, Goto, Typed, TypeOK
<1>2. Removed(v) => Removed(v)'
  BY <1>1 DEF Removed, Enlist, ShrinkBy, Typed, TypeOK
<1>3. \A w \in VM \ {v} : Removed(w) => Removed(w)'
  BY DEF Removed, Alone
<1> QED
  BY <1>1, <1>2, <1>3 DEF Resized, OfAI

\* A VM other than those enlisted or in turn moves no number and no turn, does not take a turn
\* and does not lose the one it took.
LEMMA TurnKept ==
  ASSUME Outside, Typed, OneOwner, Looping, "roundrobin" \in method, NEW v \in VM, Acts(v),
         Alone(v), ~Enlist(v), ~ReadLeader(v), ~AdvanceLeader(v), ~ShrinkBy(v), home[v] \in AI
  PROVE  /\ leader' = leader /\ vms_nr' = vms_nr
         /\ pc'[v] # "advance"
         /\ TookTurn(v)' => TookTurn(v)
         /\ PastTurn(v) => PastTurn(v)'
<1>1. leader' = leader /\ vms_nr' = vms_nr /\ pc'[v] # "advance"
  BY DEF Acts, pre_attach_vm, deschedule, Begin, Lock, BackOff, ScanVmc, ResetCount, Choose,
     ColocateLock, Colocate, SetFirst, Schedule, AfterLocks, Unlock, UnlockColocate, GiveUp, FinishAttach,
     DescheduleLock, Deschedule, DescheduleUnlock, Goto, store, Typed, TypeOK
<1>2. PastTurn(v) => PastTurn(v)'
  BY DEF Acts, pre_attach_vm, deschedule, Begin, Starts, Lock, BackOff, ScanVmc, ResetCount,
     Choose, ColocateLock, Colocate, SetFirst, Schedule, AfterLocks, Unlock, UnlockColocate, GiveUp,
     FinishAttach, DescheduleLock, Deschedule, DescheduleUnlock, Goto, PastTurn, OneOwner, Owner,
     Typed, TypeOK
<1>3. TookTurn(v)' => TookTurn(v)
  <2>1. CASE Begin(v)
    BY <2>1 DEF Begin, Goto, TookTurn, PastTurn, ByName, Outside, Typed, TypeOK
  <2>2. CASE Lock(v) \/ BackOff(v)
    BY <2>2 DEF Lock, BackOff, Goto, TookTurn, PastTurn, Typed, TypeOK
  <2>3. CASE ScanVmc(v) \/ ResetCount(v) \/ Choose(v) \/ ColocateLock(v) \/ Colocate(v) \/ SetFirst(v)
    BY <2>3 DEF ScanVmc, ResetCount, Choose, ColocateLock, Colocate, SetFirst, TookTurn
  <2>4. CASE Schedule(v) \/ Unlock(v) \/ UnlockColocate(v) \/ GiveUp(v) \/ FinishAttach(v)
             \/ deschedule(v)
    <3>1. PastTurn(v) /\ vmc' = vmc /\ pc'[v] \notin {"scan", "reset_count", "choose",
                                                      "colocate_lock", "colocate", "set_first"}
      BY <2>4 DEF Schedule, AfterLocks, Unlock, UnlockColocate, GiveUp, FinishAttach, deschedule,
         DescheduleLock, Deschedule, DescheduleUnlock, Goto, PastTurn, Typed, TypeOK
    <3> QED
      BY <3>1 DEF TookTurn, ByName
  <2> QED
    BY <2>1, <2>2, <2>3, <2>4 DEF Acts, pre_attach_vm
<1> QED
  BY <1>1, <1>2, <1>3

\* The steps that number a VM and take a turn keep the turns of its AI, and every other step
\* too.
LEMMA TurnsOfStep ==
  ASSUME Outside, Typed, OneOwner, Looping, Turns, "roundrobin" \in method, NEW v \in VM, Acts(v),
         Alone(v), NEW a \in AI, ~Resized(a)'
  PROVE  TurnsOf(a)'
<1>1. ~Resized(a) /\ TurnsOf(a)
  BY NumbersStay DEF Turns
<1>2. /\ leader[a] \in Nat /\ vms_nr[a] \in Nat
      /\ \A w \in OfAI(a) : w \in VM /\ home[w] = a /\ order[w] \in Int
      /\ Unnumbered \in Int
  BY DEF Typed, TypeOK, OfAI, Unnumbered
<1>3. \A w \in VM \ {v} : /\ order'[w] = order[w] /\ pc'[w] = pc[w]
                          /\ (TookTurn(w)' <=> TookTurn(w)) /\ (PastTurn(w)' <=> PastTurn(w))
  BY DEF Alone, TookTurn, PastTurn, ByName
<1>4. CASE v \notin OfAI(a)
  <2>1. home[v] # a
    BY <1>4 DEF OfAI
  <2>2. leader'[a] = leader[a] /\ vms_nr'[a] = vms_nr[a]
    BY <2>1 DEF Acts, pre_attach_vm, deschedule, Enlist, Begin, Lock, ReadLeader, BackOff,
       AdvanceLeader, ScanVmc, ResetCount, Choose, ColocateLock, Colocate, SetFirst, Schedule, Unlock,
       UnlockColocate, GiveUp, FinishAttach, DescheduleLock, Deschedule, DescheduleUnlock,
       ShrinkBy, Shrink, store, Typed, TypeOK
  <2> QED
    BY <1>1, <1>2, <1>3, <1>4, <2>2 DEF TurnsOf, OfAI
<1>5. CASE v \in OfAI(a)
  <2>1. home[v] = a
    BY <1>5 DEF OfAI
  <2>2. ~ShrinkBy(v)
    BY <1>5, <2>1 DEF ShrinkBy, Goto, Resized, Removed, OfAI, Typed, TypeOK
  <2>3. CASE Enlist(v)
    <3>1. /\ order[v] = Unnumbered /\ order'[v] = vms_nr[a] /\ vms_nr'[a] = vms_nr[a] + 1
          /\ leader' = leader /\ pc'[v] = "queued"
      BY <2>1, <2>3 DEF Enlist, Turns, Goto, Typed, TypeOK
    <3>2. ~TookTurn(v)'
      BY <3>1 DEF TookTurn, PastTurn
    <3> QED
      BY <1>1, <1>2, <1>3, <1>5, <3>1, <3>2 DEF TurnsOf, OfAI
  <2>4. CASE ReadLeader(v)
    <3>1. /\ order' = order /\ vms_nr' = vms_nr /\ leader' = leader
          /\ pc'[v] = "advance" => leader[a] = order[v]
          /\ pc'[v] \in {"advance", "back_off"} /\ pc[v] = "turn"
      BY <2>1, <2>4 DEF ReadLeader, MyTurn, Goto, store, Typed, TypeOK
    <3>2. ~TookTurn(v)' /\ ~PastTurn(v)
      BY <3>1 DEF TookTurn, PastTurn
    <3> QED
      BY <1>1, <1>2, <1>3, <1>5, <3>1, <3>2 DEF TurnsOf, OfAI
  <2>5. CASE AdvanceLeader(v)
    <3>1. /\ order' = order /\ vms_nr' = vms_nr /\ leader'[a] = leader[a] + 1
          /\ pc'[v] = "scan" /\ leader[a] = order[v]
      BY <1>1, <1>5, <2>1, <2>5 DEF AdvanceLeader, Goto, TurnsOf, Typed, TypeOK
    <3>2. PastTurn(v)'
      BY <3>1 DEF PastTurn
    <3>3. \A w \in VM \ {v} : pc'[w] # "advance"
      BY <1>3, <2>5 DEF AdvanceLeader, OneOwner, Owner
    <3>4. leader'[a] <= vms_nr'[a] /\ order[v] # Unnumbered
      BY <1>1, <1>2, <1>5, <3>1 DEF TurnsOf, Unnumbered
    <3>5. \A w \in OfAI(a) : TookTurn(w)' => order'[w] < leader'[a]
      BY <1>1, <1>2, <1>3, <3>1 DEF TurnsOf
    <3>6. \A w \in OfAI(a) : order'[w] # Unnumbered /\ order'[w] < leader'[a] => PastTurn(w)'
      <4> SUFFICES ASSUME NEW w \in OfAI(a), w # v, order[w] # Unnumbered, order[w] < leader[a] + 1
                   PROVE  PastTurn(w)
        BY <1>2, <1>3, <3>1, <3>2
      <4>1. order[w] # order[v]
        BY <1>1, <1>5 DEF TurnsOf
      <4>2. order[w] < leader[a]
        BY <1>2, <3>1, <4>1
      <4> QED
        BY <1>1, <4>2 DEF TurnsOf
    <3> QED
      BY <1>1, <3>1, <3>3, <3>4, <3>5, <3>6 DEF TurnsOf, OfAI
  <2>6. CASE ~Enlist(v) /\ ~ReadLeader(v) /\ ~AdvanceLeader(v)
    <3>1. order'[v] = order[v]
      BY <2>2, <2>6, NumbersStay
    <3>2. /\ leader' = leader /\ vms_nr' = vms_nr
          /\ pc'[v] # "advance"
          /\ TookTurn(v)' => TookTurn(v)
          /\ PastTurn(v) => PastTurn(v)'
      BY <2>1, <2>2, <2>6, TurnKept
    <3> QED
      BY <1>1, <1>2, <1>3, <1>5, <3>1, <3>2 DEF TurnsOf, OfAI
  <2> QED
    BY <2>3, <2>4, <2>5, <2>6
<1> QED
  BY <1>4, <1>5

\* Every step keeps the turns.
LEMMA TurnsStep ==
  ASSUME Outside, Typed, OneOwner, Looping, Turns, [Next]_vars
  PROVE  Turns'
<1>1. CASE UNCHANGED vars
  BY <1>1 DEF vars, settings, store, Turns, TurnsOf, OfAI, TookTurn, PastTurn, ByName, Resized,
     Removed
<1>2. ASSUME NEW v \in VM, Acts(v), Alone(v), "roundrobin" \in method'
      PROVE  /\ \A w \in VM : pc'[w] = "idle" => order'[w] = Unnumbered
             /\ \A a \in AI : ~Resized(a)' => TurnsOf(a)'
  <2>1. "roundrobin" \in method
    BY <1>2 DEF Alone, settings
  <2>2. \A w \in VM : pc'[w] = "idle" => order'[w] = Unnumbered
    BY <1>2, <2>1, NumbersStay DEF Turns, Alone
  <2> QED
    BY <1>2, <2>1, <2>2, TurnsOfStep
<1> QED
  BY <1>1, <1>2, OneActs DEF Turns

\* A VM takes its turn only after every earlier VM of its AI took one, whatever the threads and
\* the locks do, until airesize makes the AI smaller.
THEOREM AlwaysInOrder == ASSUME Outside PROVE Spec => []PlacedInOrder
<1>1. Init => Turns
  BY DEF Init, Turns, TurnsOf, TookTurn, PastTurn, OfAI, Unnumbered
<1>2. Exact /\ Turns /\ [Next]_vars => Turns'
  BY TurnsStep DEF Exact
<1>3. Typed /\ Turns => PlacedInOrder
  <2> SUFFICES ASSUME Typed, Turns, "roundrobin" \in method,
                      NEW v \in VM, PastTurn(v), ~ByName(v), home[v] \in AI, ~Resized(home[v]),
                      NEW w \in Earlier(v)
               PROVE  PastTurn(w)
    BY DEF PlacedInOrder
  <2>1. /\ w \in OfAI(home[v]) /\ v \in OfAI(home[v]) /\ TurnsOf(home[v])
        /\ order[w] # Unnumbered /\ order[w] < order[v]
    BY DEF Earlier, OfAI, Turns
  <2>2. order[v] < leader[home[v]]
    BY <2>1 DEF TurnsOf, TookTurn
  <2>3. order[w] \in Int /\ order[v] \in Int /\ leader[home[v]] \in Int
    BY <2>1 DEF OfAI, Typed, TypeOK, Unnumbered
  <2>4. order[w] < leader[home[v]]
    BY <2>1, <2>2, <2>3
  <2> QED
    BY <2>1, <2>4 DEF TurnsOf
<1>4. Exact => Typed
  BY DEF Exact
<1> QED
  BY <1>1, <1>2, <1>3, <1>4, ExactHolds, PTL DEF Spec

-----------------------------------------------------------------------------
(* The choice *)

\* What is known of one VM.
ChoiceOf(v) == /\ pc[v] \notin {"colocate_lock", "colocate", "set_first"}
               /\ Scanning(v) => Found(v)
               /\ ~Scanning(v) => scan[v] = NewScan
               /\ pc[v] = "schedule" /\ vmc[v] \in Pool => NotBusiest(vmc[v])

\* The invariant, VM by VM.
LEMMA ChoosingOf == Choosing <=> (RoundRobin => \A v \in VM : ChoiceOf(v))
BY DEF Choosing, ChoiceOf

\* What a VM knows depends on itself and on the counts of the pool.
LEMMA ChoiceKept ==
  ASSUME Typed, NEW v \in VM, ChoiceOf(v),
         pc'[v] = pc[v], vmc'[v] = vmc[v], scan'[v] = scan[v],
         Scanning(v) \/ (pc[v] = "schedule" /\ vmc[v] \in Pool)
             => \A m \in Pool : CountAt(m)' = CountAt(m)
  PROVE  ChoiceOf(v)'
<1>1. 1 \in Pool /\ scan[v] \in Scan /\ (scan[v].pick # 0 => scan[v].pick \in Pool)
  BY PlacementAssumption DEF Pool, Typed, TypeOK, Scan
<1>2. Scanning(v)' <=> Scanning(v)
  BY DEF Scanning
<1>3. CASE Scanning(v)
  <2>1. Found(v) /\ \A m \in Pool : CountAt(m)' = CountAt(m)
    BY <1>3 DEF ChoiceOf
  <2>2. Found(v)'
    BY <1>1, <2>1 DEF Found
  <2> QED
    BY <1>2, <1>3, <2>2 DEF ChoiceOf, Scanning
<1>4. CASE pc[v] = "schedule" /\ vmc[v] \in Pool
  <2>1. NotBusiest(vmc[v]) /\ \A m \in Pool : CountAt(m)' = CountAt(m)
    BY <1>4 DEF ChoiceOf
  <2>2. NotBusiest(vmc[v])'
    BY <1>4, <2>1 DEF NotBusiest
  <2> QED
    BY <1>2, <1>4, <2>2 DEF ChoiceOf, Scanning
<1>5. CASE ~Scanning(v) /\ ~(pc[v] = "schedule" /\ vmc[v] \in Pool)
  BY <1>2, <1>5 DEF ChoiceOf
<1> QED
  BY <1>3, <1>4, <1>5

\* The loop looks at one more VMC, whose count is its own to read.
LEMMA FoundScan ==
  ASSUME Exact, RoundRobin, NEW v \in VM, ChoiceOf(v), ScanVmc(v), Acts(v), Alone(v)
  PROVE  ChoiceOf(v)'
<1> USE PlacementAssumption
<1>1. /\ scan[v] \in Scan /\ pc[v] = "scan" /\ Found(v)
      /\ \A m \in Pool : CountAt(m)' = CountAt(m) /\ CountAt(m) \in Nat /\ m \in Int /\ m >= 1
      /\ 1 \in Pool
  BY FiniteCounts
  DEF Exact, Typed, TypeOK, ScanVmc, ChoiceOf, Scanning, store, CountAt, VMC, Pool
<1> DEFINE s == scan[v]
<1>2. /\ s.next \in 1..(PoolSize + 1) /\ s.top \in Int /\ s.pick \in 0..PoolSize
      /\ s.pick # 0 => s.pick \in Pool
      /\ ~Scanned(s) => s.next \in Pool
  BY <1>1 DEF Scan, Scanned, Pool
<1>3. CASE Scanned(s) /\ Goto(v, "choose") /\ UNCHANGED scan
  <2>1. s.next > PoolSize /\ pc'[v] = "choose" /\ scan'[v] = s
    BY <1>3 DEF Scanned, Goto, Exact, Typed, TypeOK
  <2>2. Found(v)'
    BY <1>1, <1>2, <2>1 DEF Found
  <2> QED
    BY <2>1, <2>2 DEF ChoiceOf, Scanning
<1>4. CASE ~Scanned(s) /\ Goto(v, "reset_count") /\ UNCHANGED scan
  <2>1. pc'[v] = "reset_count" /\ scan'[v] = s
    BY <1>4 DEF Goto, Exact, Typed, TypeOK
  <2>2. Found(v)'
    BY <1>1, <1>2, <2>1 DEF Found
  <2> QED
    BY <2>1, <2>2 DEF ChoiceOf, Scanning
<1>5. CASE /\ ~Scanned(s) /\ scheduled_vms[s.next] # Missing
           /\ scan' = [scan EXCEPT ![v] = Seen(s, scheduled_vms[s.next])]
           /\ UNCHANGED pc
  <2> DEFINE c == CountAt(s.next)
  <2>1. s.next \in Pool /\ c = scheduled_vms[s.next] /\ c \in Nat
    BY <1>1, <1>2, <1>5 DEF CountAt
  <2>2. pc'[v] = "scan" /\ scan'[v] = Seen(s, c)
    BY <1>1, <1>5, <2>1 DEF Exact, Typed, TypeOK
  <2>3. CASE s.pick # 0
    <3>1. scan'[v].pick = s.pick
      BY <2>2, <2>3 DEF Seen
    <3>2. Found(v)'
      BY <1>1, <1>2, <2>2, <2>3, <3>1 DEF Found
    <3> QED
      BY <2>2, <3>2 DEF ChoiceOf, Scanning
  <2>4. CASE s.pick = 0 /\ IsHighest(s, c)
    <3>1. scan'[v] = [next |-> s.next + 1, top |-> c, pick |-> 0]
      BY <2>2, <2>4 DEF Seen
    <3>2. \A n \in Pool : n < s.next + 1 => CountAt(1) <= CountAt(n) /\ CountAt(n) <= c
      <4>1. CASE s.next = 1
        BY <1>1, <4>1
      <4>2. CASE s.next > 1
        <5>1. /\ \A n \in Pool : n < s.next => CountAt(1) <= CountAt(n) /\ CountAt(n) <= s.top
              /\ \E n \in Pool : CountAt(n) = s.top
          BY <1>1, <2>4, <4>2 DEF Found
        <5>2. s.top # Missing
          BY <1>1, <5>1 DEF Missing
        <5>3. s.top <= c
          BY <2>1, <1>2, <2>4, <5>2 DEF IsHighest
        <5>4. CountAt(1) <= s.top
          BY <1>1, <1>2, <4>2, <5>1
        <5> QED
          BY <1>1, <1>2, <2>1, <5>1, <5>3, <5>4
      <4> QED
        BY <1>2, <4>1, <4>2
    <3>3. \E n \in Pool : CountAt(n) = c
      BY <2>1
    <3>4. Found(v)'
      BY <1>1, <1>2, <2>1, <2>2, <3>1, <3>2, <3>3 DEF Found
    <3> QED
      BY <2>2, <3>4 DEF ChoiceOf, Scanning
  <2>5. CASE s.pick = 0 /\ ~IsHighest(s, c)
    <3>1. scan'[v].pick = s.next /\ s.top # Missing /\ c < s.top
      BY <1>2, <2>1, <2>2, <2>5 DEF Seen, IsHighest
    <3>2. \E n \in Pool : CountAt(n) = s.top
      BY <1>1, <2>5, <3>1 DEF Found
    <3>3. \E m \in Pool : CountAt(m) > c
      BY <1>1, <2>1, <3>1, <3>2
    <3>4. Found(v)'
      BY <1>1, <2>1, <2>2, <3>1, <3>3 DEF Found
    <3> QED
      BY <2>2, <3>4 DEF ChoiceOf, Scanning
  <2> QED
    BY <2>3, <2>4, <2>5
<1> QED
  BY <1>3, <1>4, <1>5 DEF ScanVmc

\* A VMC that gets its first 0 has the lowest count there is.
LEMMA FoundReset ==
  ASSUME Exact, RoundRobin, NEW v \in VM, ChoiceOf(v), ResetCount(v), Acts(v), Alone(v)
  PROVE  ChoiceOf(v)'
<1>1. /\ scan[v] \in Scan /\ pc[v] = "reset_count" /\ Found(v) /\ scan[v].next \in Pool
      /\ CountAt(scan[v].next) = 0
      /\ scan[v].pick # 0 => scan[v].pick \in Pool
  BY DEF Exact, Typed, TypeOK, ResetInPool, Looping, ResetCount, ChoiceOf, Scanning, CountAt,
     Scan, Pool
<1>2. \A m \in Pool : CountAt(m)' = CountAt(m)
  BY OthersKeepCounts DEF Exact, ResetCount, Schedule, Deschedule, VMC
<1>3. pc'[v] = "scan" /\ scan'[v] = SeenMissing(scan[v])
  BY DEF ResetCount, Goto, Exact, Typed, TypeOK
<1>4. scan[v].next # 0
  BY <1>1 DEF Pool
<1>5. Found(v)'
  BY <1>1, <1>2, <1>3, <1>4 DEF Found, SeenMissing
<1> QED
  BY <1>3, <1>5 DEF ChoiceOf, Scanning

\* At its end the loop has found a VMC that is not the busiest.
LEMMA FoundChoose ==
  ASSUME Exact, RoundRobin, NEW v \in VM, ChoiceOf(v), Choose(v)
  PROVE  ChoiceOf(v)'
<1> USE PlacementAssumption
<1>1. /\ scan[v] \in Scan /\ pc[v] = "choose" /\ Found(v) /\ scan[v].next > PoolSize
      /\ \A m \in Pool : CountAt(m)' = CountAt(m) /\ CountAt(m) \in Nat
      /\ 1 \in Pool
      /\ scan[v].pick # 0 => scan[v].pick \in Pool
  BY FiniteCounts
  DEF Exact, Typed, TypeOK, Choose, ChoiceOf, Scanning, store, CountAt, VMC, Pool, Found, Scan
<1>2. pc'[v] = "schedule" /\ scan'[v] = NewScan
      /\ vmc'[v] = IF scan[v].pick = 0 THEN 1 ELSE scan[v].pick
  BY DEF Choose, Candidates, Goto, RoundRobin, Exact, Typed, TypeOK
<1>3. CASE scan[v].pick = 0
  <2>1. \A n \in Pool : CountAt(1) <= CountAt(n)
    BY <1>1, <1>3 DEF Found, Pool, Scan
  <2>2. NotBusiest(1)
    BY <1>1, <2>1 DEF NotBusiest
  <2>3. NotBusiest(1)'
    BY <1>1, <2>2 DEF NotBusiest
  <2> QED
    BY <1>2, <1>3, <2>3 DEF ChoiceOf, Scanning
<1>4. CASE scan[v].pick # 0
  <2>1. NotBusiest(scan[v].pick)
    BY <1>1, <1>4 DEF Found, NotBusiest
  <2>2. vmc'[v] = scan[v].pick /\ scan[v].pick \in Pool
    BY <1>1, <1>2, <1>4
  <2>3. NotBusiest(vmc[v])'
    BY <1>1, <2>1, <2>2 DEF NotBusiest
  <2> QED
    BY <1>2, <2>3 DEF ChoiceOf, Scanning
<1> QED
  BY <1>3, <1>4

\* Outside the loop a VM enters it with nothing found yet, or goes on.
LEMMA ChoiceElsewhere ==
  ASSUME Outside, Exact, RoundRobin, NEW v \in VM, ChoiceOf(v), Acts(v), Alone(v),
         ~ScanVmc(v), ~ResetCount(v), ~Choose(v)
  PROVE  ChoiceOf(v)'
<1>1. /\ ~Scanning(v) /\ scan'[v] = scan[v] /\ scan[v] = NewScan
      /\ pc'[v] \notin {"colocate_lock", "colocate", "set_first", "choose", "reset_count"}
      /\ pc'[v] = "schedule" => vmc'[v] \notin Pool
  BY DEF Acts, pre_attach_vm, deschedule, Enlist, Begin, Starts, Lock, ReadLeader, BackOff,
     AdvanceLeader, ColocateLock, Colocate, SetFirst, Schedule, AfterLocks, Unlock, UnlockColocate, GiveUp,
     FinishAttach, DescheduleLock, Deschedule, DescheduleUnlock, ShrinkBy, Shrink, Goto,
     ChoiceOf, Scanning, RoundRobin, Outside, Exact, Typed, TypeOK
<1>2. pc'[v] = "scan" => Found(v)'
  BY <1>1 DEF Found, NewScan
<1> QED
  BY <1>1, <1>2 DEF ChoiceOf, Scanning

\* Every step keeps it.
LEMMA ChoosingStep ==
  ASSUME Outside, Exact, Choosing, [Next]_vars
  PROVE  Choosing'
<1>1. CASE UNCHANGED vars
  BY <1>1 DEF vars, settings, store, Choosing, RoundRobin, Scanning, Found, NotBusiest, CountAt
<1>2. ASSUME NEW v \in VM, Acts(v), Alone(v), RoundRobin', NEW w \in VM PROVE ChoiceOf(w)'
  <2>1. RoundRobin /\ ChoiceOf(v) /\ ChoiceOf(w) /\ "roundrobin" \in method
    BY <1>2, ChoosingOf DEF Alone, settings, RoundRobin
  <2>2. CASE w = v
    BY <1>2, <2>1, <2>2, FoundScan, FoundReset, FoundChoose, ChoiceElsewhere
  <2>3. CASE w # v
    <3>1. ASSUME Scanning(w) \/ (pc[w] = "schedule" /\ vmc[w] \in Pool), NEW m \in Pool
          PROVE  CountAt(m)' = CountAt(m)
      <4>1. ~Owner(v)
        BY <2>1, <2>3, <3>1 DEF Exact, OneOwner, Owner, Scanning
      <4>2. scheduled_vms'[m] = scheduled_vms[m]
        BY <1>2, <2>1, <4>1, OnlyOwnerCounts DEF Exact
      <4> QED
        BY <4>2 DEF CountAt
    <3>2. pc'[w] = pc[w] /\ vmc'[w] = vmc[w] /\ scan'[w] = scan[w]
      BY <1>2, <2>3 DEF Alone
    <3> QED
      BY <2>1, <3>1, <3>2, ChoiceKept DEF Exact
  <2> QED
    BY <2>2, <2>3
<1>3. (RoundRobin' => \A w \in VM : ChoiceOf(w)') => Choosing'
  BY DEF Choosing, ChoiceOf
<1> QED
  BY <1>1, <1>2, <1>3, OneActs DEF Exact

\* Round robin never adds a VM to a VMC with the highest count, unless all counts are equal:
\* the count that the decision was based on is still the count when it takes effect, for any
\* number of VMs and VMCs and whoever leaves meanwhile.
THEOREM NeverTheBusiest == ASSUME Outside PROVE Spec => NeverBusiest
<1>1. Init => Choosing
  BY DEF Init, Choosing, Scanning
<1>2. Exact /\ Choosing /\ [Next]_vars => Choosing'
  BY ChoosingStep
<1>3. Choosing /\ [Next]_vars
        => [\A v \in VM :
               /\ method = {"roundrobin"}
               /\ pc[v] = "schedule" /\ pc'[v] # "schedule" /\ vmc[v] \in Pool
               => \/ \E m \in Pool : CountAt(m) > CountAt(vmc[v])
                  \/ \A m \in Pool : CountAt(m) = CountAt(vmc[v])]_vars
  BY DEF Choosing, NotBusiest, RoundRobin
<1> QED
  BY <1>1, <1>2, <1>3, ExactHolds, PTL DEF Spec, NeverBusiest

==============================================================================
