-------------------------- MODULE Placement_proofs --------------------------
(* Type correctness of Placement and the balance of round robin, for any   *)
(* number of AIs, VMs and VMCs.                                            *)
EXTENDS Placement, TLAPS

\* A VM about to write a 0 is at a VMC of the pool.
ResetInPool == \A v \in VM : pc[v] = "reset_count" => scan[v].next \in Pool

Typed == TypeOK /\ ResetInPool

\* It holds at first.
LEMMA TypeInit == Init => Typed
  <1>1. ASSUME Init PROVE Typed
    <2>1. NewScan \in Scan
      BY PlacementAssumption DEF NewScan, Missing, Scan
    <2>2. TypeOK BY <1>1, <2>1, PlacementAssumption DEF Init, TypeOK, PC, Missing, Unnumbered, VMC, Pool
    <2> QED BY <1>1, <2>2 DEF Init, Typed, ResetInPool
  <1> QED BY <1>1

\* A step that moves one VM, to any place but reset_count.
LEMMA Moves ==
  ASSUME Typed, NEW v \in VM, NEW label \in PC \ {"reset_count"}, Goto(v, label),
         \A w \in VM \ {v} : scan'[w] = scan[w]
  PROVE  pc' \in [VM -> PC] /\ ResetInPool'
  BY DEF Typed, TypeOK, ResetInPool, Goto

\* The steps of the two locks.
LEMMA LockTypes ==
  ASSUME TypeOK, NEW v \in VM
  PROVE  /\ Placing!Acquire(v) \/ Placing!Release(v) => inside' \subseteq VM
         /\ Colocating!Acquire(v) \/ Colocating!Release(v) => colocating' \subseteq VM
  BY DEF TypeOK, Placing!Acquire, Placing!Release, Colocating!Acquire, Colocating!Release

\* The steps that count.
LEMMA CountTypes ==
  ASSUME TypeOK, NEW m, NEW n \in Int, CountScheduled(m, n)
  PROVE  scheduled_vms' \in [VMC -> Int]
  <1>1. m \in VMC => CountAt(m) + n \in Int BY DEF TypeOK, CountAt
  <1> DEFINE c == CountAt(m) + n
  <1>2. scheduled_vms' = [scheduled_vms EXCEPT ![m] = c] BY DEF CountScheduled
  <1>3. m \in VMC => c \in Int BY <1>1
  <1> HIDE DEF c
  <1> QED BY <1>2, <1>3 DEF TypeOK

\* Every step keeps it.
LEMMA TypeNext == Typed /\ [Next]_vars => Typed'
  <1> SUFFICES ASSUME Typed, [Next]_vars PROVE Typed'
    OBVIOUS
  <1> USE PlacementAssumption DEF Typed
  <1>1. ASSUME NEW v \in VM, Enlist(v) PROVE Typed'
    <2>1. \E label \in {"queued"} : Goto(v, label)
      BY <1>1 DEF Enlist
    <2>2. \A w \in VM \ {v} : scan'[w] = scan[w]
      BY <1>1 DEF Enlist, TypeOK
    <2>3. pc' \in [VM -> PC] /\ ResetInPool' BY <2>1, <2>2, Moves DEF PC
    <2>4. vms_nr[home[v]] \in Nat BY <1>1 DEF Enlist, TypeOK
    <2>5. order' \in [VM -> Nat \cup {Unnumbered}] BY <1>1, <2>4 DEF Enlist, TypeOK
    <2>6. vms_nr' \in [AI -> Nat] BY <1>1, <2>4 DEF Enlist, TypeOK
    <2> QED BY <1>1, <2>3, <2>5, <2>6 DEF TypeOK, Enlist, settings, locks
  <1>2. ASSUME NEW v \in VM, Begin(v) PROVE Typed'
    <2>1. \E label \in {"schedule", "lock", "choose", "failed"} : Goto(v, label)
      BY <1>2 DEF Begin
    <2>2. \A w \in VM \ {v} : scan'[w] = scan[w]
      BY <1>2 DEF Begin, TypeOK
    <2>3. pc' \in [VM -> PC] /\ ResetInPool' BY <2>1, <2>2, Moves DEF PC
    <2>4. vmc' \in [VM -> {0} \cup VMC] BY <1>2 DEF Begin, TypeOK, VMC
    <2> QED BY <1>2, <2>3, <2>4 DEF TypeOK, Begin, settings, locks, store
  <1>3. ASSUME NEW v \in VM, Lock(v) PROVE Typed'
    <2>1. \E label \in {"turn", "scan", "failed"} : Goto(v, label)
      BY <1>3 DEF Lock
    <2>2. \A w \in VM \ {v} : scan'[w] = scan[w]
      BY <1>3 DEF Lock, TypeOK
    <2>3. pc' \in [VM -> PC] /\ ResetInPool' BY <2>1, <2>2, Moves DEF PC
    <2>4. inside' \subseteq VM BY <1>3, LockTypes DEF Lock, TypeOK
    <2> QED BY <1>3, <2>3, <2>4 DEF TypeOK, Lock, settings, store
  <1>4. ASSUME NEW v \in VM, ReadLeader(v) PROVE Typed'
    <2>1. \E label \in {"advance", "back_off"} : Goto(v, label)
      BY <1>4 DEF ReadLeader
    <2>2. \A w \in VM \ {v} : scan'[w] = scan[w]
      BY <1>4 DEF ReadLeader, TypeOK
    <2>3. pc' \in [VM -> PC] /\ ResetInPool' BY <2>1, <2>2, Moves DEF PC
    <2> QED BY <1>4, <2>3 DEF TypeOK, ReadLeader, settings, locks, store
  <1>5. ASSUME NEW v \in VM, BackOff(v) PROVE Typed'
    <2>1. \E label \in {"lock"} : Goto(v, label)
      BY <1>5 DEF BackOff
    <2>2. \A w \in VM \ {v} : scan'[w] = scan[w]
      BY <1>5 DEF BackOff, TypeOK
    <2>3. pc' \in [VM -> PC] /\ ResetInPool' BY <2>1, <2>2, Moves DEF PC
    <2>4. inside' \subseteq VM BY <1>5, LockTypes DEF BackOff, TypeOK
    <2> QED BY <1>5, <2>3, <2>4 DEF TypeOK, BackOff, settings, store
  <1>6. ASSUME NEW v \in VM, AdvanceLeader(v) PROVE Typed'
    <2>1. \E label \in {"scan"} : Goto(v, label)
      BY <1>6 DEF AdvanceLeader
    <2>2. \A w \in VM \ {v} : scan'[w] = scan[w]
      BY <1>6 DEF AdvanceLeader, TypeOK
    <2>3. pc' \in [VM -> PC] /\ ResetInPool' BY <2>1, <2>2, Moves DEF PC
    <2>4. home[v] \in AI => leader[home[v]] + 1 \in Nat BY DEF TypeOK
    <2> DEFINE n == leader[home[v]] + 1
    <2>5. home[v] \in AI => n \in Nat BY <2>4
    <2>6. leader' = [leader EXCEPT ![home[v]] = n] BY <1>6 DEF AdvanceLeader
    <2> HIDE DEF n
    <2>7. leader' \in [AI -> Nat] BY <2>5, <2>6 DEF TypeOK
    <2> QED BY <1>6, <2>3, <2>7 DEF TypeOK, AdvanceLeader, settings, locks
  <1>7. ASSUME NEW v \in VM, ScanVmc(v) PROVE Typed'
    <2>1. pc' \in [VM -> PC] BY <1>7 DEF ScanVmc, Goto, TypeOK, PC
    <2>2. scan[v] \in Scan BY DEF TypeOK
    <2>3. ~Scanned(scan[v]) => scan[v].next \in Pool BY <2>2 DEF Scanned, Scan, Pool
    <2>4. CASE UNCHANGED scan
      <3>1. ResetInPool' BY <1>7, <2>3, <2>4 DEF ScanVmc, ResetInPool, Goto, TypeOK
      <3> QED BY <1>7, <2>1, <2>4, <3>1 DEF TypeOK, ScanVmc, settings, locks, store
    <2>5. CASE /\ ~Scanned(scan[v])
               /\ scan' = [scan EXCEPT ![v] = Seen(scan[v], scheduled_vms[scan[v].next])]
               /\ UNCHANGED pc
      <3>1. scheduled_vms[scan[v].next] \in Int BY <2>3, <2>5 DEF TypeOK, VMC
      <3>2. Seen(scan[v], scheduled_vms[scan[v].next]) \in Scan
        BY <2>2, <2>3, <2>5, <3>1 DEF Seen, Scan, Pool
      <3>3. scan' \in [VM -> Scan] BY <2>5, <3>2 DEF TypeOK
      <3>4. ResetInPool' BY <1>7, <2>5 DEF ScanVmc, ResetInPool, TypeOK
      <3> QED BY <1>7, <2>1, <3>3, <3>4 DEF TypeOK, ScanVmc, settings, locks, store
    <2> QED BY <1>7, <2>4, <2>5 DEF ScanVmc
  <1>8. ASSUME NEW v \in VM, ResetCount(v) PROVE Typed'
    <2>1. \E label \in {"scan"} : Goto(v, label)
      BY <1>8 DEF ResetCount
    <2>2. \A w \in VM \ {v} : scan'[w] = scan[w]
      BY <1>8 DEF ResetCount, TypeOK
    <2>3. pc' \in [VM -> PC] /\ ResetInPool' BY <2>1, <2>2, Moves DEF PC
    <2>4. scan[v] \in Scan /\ scan[v].next \in Pool
      BY <1>8 DEF TypeOK, ResetInPool, ResetCount
    <2>5. SeenMissing(scan[v]) \in Scan BY <2>4 DEF SeenMissing, Scan, Pool
    <2>6. scan' \in [VM -> Scan] BY <1>8, <2>5 DEF ResetCount, TypeOK
    <2>7. scheduled_vms' \in [VMC -> Int]
      <3>1. scan[v].next \in VMC BY <2>4 DEF VMC
      <3> DEFINE m == scan[v].next  z == 0
      <3>2. m \in VMC /\ z \in Int BY <3>1
      <3>3. scheduled_vms' = [scheduled_vms EXCEPT ![m] = z] BY <1>8 DEF ResetCount
      <3> HIDE DEF m, z
      <3> QED BY <3>2, <3>3 DEF TypeOK
    <2> QED BY <1>8, <2>3, <2>6, <2>7 DEF TypeOK, ResetCount, settings, locks
  <1>9. ASSUME NEW v \in VM, Choose(v) PROVE Typed'
    <2>1. \E label \in {"colocate_lock", "schedule"} : Goto(v, label)
      BY <1>9 DEF Choose
    <2>2. \A w \in VM \ {v} : scan'[w] = scan[w]
      BY <1>9 DEF Choose, TypeOK
    <2>3. pc' \in [VM -> PC] /\ ResetInPool' BY <2>1, <2>2, Moves DEF PC
    <2>4. Candidates(v) \subseteq VMC BY DEF Candidates, TypeOK, Scan, VMC, Pool
    <2>5. vmc' \in [VM -> {0} \cup VMC] BY <1>9, <2>4 DEF Choose, TypeOK
    <2>6. NewScan \in Scan BY DEF NewScan, Missing, Scan
    <2>7. scan' \in [VM -> Scan] BY <1>9, <2>6 DEF Choose, TypeOK
    <2> QED BY <1>9, <2>3, <2>5, <2>7 DEF TypeOK, Choose, settings, locks, store
  <1>10. ASSUME NEW v \in VM, ColocateLock(v) PROVE Typed'
    <2>1. \E label \in {"colocate", "give_up", "failed"} : Goto(v, label)
      BY <1>10 DEF ColocateLock
    <2>2. \A w \in VM \ {v} : scan'[w] = scan[w]
      BY <1>10 DEF ColocateLock, TypeOK
    <2>3. pc' \in [VM -> PC] /\ ResetInPool' BY <2>1, <2>2, Moves DEF PC
    <2>4. colocating' \subseteq VM BY <1>10, LockTypes DEF ColocateLock, TypeOK
    <2>5. vmc' \in [VM -> {0} \cup VMC] BY <1>10 DEF ColocateLock, TypeOK
    <2> QED BY <1>10, <2>3, <2>4, <2>5 DEF TypeOK, ColocateLock, settings, store
  <1>11. ASSUME NEW v \in VM, Colocate(v) PROVE Typed'
    <2>1. \E label \in {"schedule", "set_first"} : Goto(v, label)
      BY <1>11 DEF Colocate
    <2>2. \A w \in VM \ {v} : scan'[w] = scan[w]
      BY <1>11 DEF Colocate, TypeOK
    <2>3. pc' \in [VM -> PC] /\ ResetInPool' BY <2>1, <2>2, Moves DEF PC
    <2>4. first_vmc[home[v]] # 0 => first_vmc[home[v]] \in VMC BY DEF TypeOK
    <2>5. vmc' \in [VM -> {0} \cup VMC] BY <1>11, <2>4 DEF Colocate, TypeOK
    <2> QED BY <1>11, <2>3, <2>5 DEF TypeOK, Colocate, settings, locks, store
  <1>22. ASSUME NEW v \in VM, SetFirst(v) PROVE Typed'
    <2>1. \E label \in {"schedule"} : Goto(v, label)
      BY <1>22 DEF SetFirst
    <2>2. \A w \in VM \ {v} : scan'[w] = scan[w]
      BY <1>22 DEF SetFirst, TypeOK
    <2>3. pc' \in [VM -> PC] /\ ResetInPool' BY <2>1, <2>2, Moves DEF PC
    <2>4. first_vmc' \in [AI \cup {NoAI} -> {0} \cup VMC] BY <1>22 DEF SetFirst, TypeOK
    <2> QED BY <1>22, <2>3, <2>4 DEF TypeOK, SetFirst, settings, locks
  <1>12. ASSUME NEW v \in VM, Schedule(v) PROVE Typed'
    <2>1. \E label \in {"unlock", "unlock_colocate", "placed"} : Goto(v, label)
      BY <1>12 DEF Schedule, AfterLocks
    <2>2. \A w \in VM \ {v} : scan'[w] = scan[w]
      BY <1>12 DEF Schedule, TypeOK
    <2>3. pc' \in [VM -> PC] /\ ResetInPool' BY <2>1, <2>2, Moves DEF PC
    <2>4. scheduled_vms' \in [VMC -> Int] BY <1>12, CountTypes DEF Schedule
    <2> QED BY <1>12, <2>3, <2>4 DEF TypeOK, Schedule, settings, locks
  <1>13. ASSUME NEW v \in VM, Unlock(v) PROVE Typed'
    <2>1. \E label \in {"unlock_colocate", "placed"} : Goto(v, label)
      BY <1>13 DEF Unlock
    <2>2. \A w \in VM \ {v} : scan'[w] = scan[w]
      BY <1>13 DEF Unlock, TypeOK
    <2>3. pc' \in [VM -> PC] /\ ResetInPool' BY <2>1, <2>2, Moves DEF PC
    <2>4. inside' \subseteq VM BY <1>13, LockTypes DEF Unlock, TypeOK
    <2> QED BY <1>13, <2>3, <2>4 DEF TypeOK, Unlock, settings, store
  <1>14. ASSUME NEW v \in VM, UnlockColocate(v) PROVE Typed'
    <2>1. \E label \in {"placed"} : Goto(v, label)
      BY <1>14 DEF UnlockColocate
    <2>2. \A w \in VM \ {v} : scan'[w] = scan[w]
      BY <1>14 DEF UnlockColocate, TypeOK
    <2>3. pc' \in [VM -> PC] /\ ResetInPool' BY <2>1, <2>2, Moves DEF PC
    <2>4. colocating' \subseteq VM BY <1>14, LockTypes DEF UnlockColocate
    <2> QED BY <1>14, <2>3, <2>4 DEF TypeOK, UnlockColocate, settings, store
  <1>15. ASSUME NEW v \in VM, GiveUp(v) PROVE Typed'
    <2>1. \E label \in {"gave_up"} : Goto(v, label)
      BY <1>15 DEF GiveUp
    <2>2. \A w \in VM \ {v} : scan'[w] = scan[w]
      BY <1>15 DEF GiveUp, TypeOK
    <2>3. pc' \in [VM -> PC] /\ ResetInPool' BY <2>1, <2>2, Moves DEF PC
    <2>4. inside' \subseteq VM BY <1>15, LockTypes DEF GiveUp, TypeOK
    <2> QED BY <1>15, <2>3, <2>4 DEF TypeOK, GiveUp, settings, store
  <1>16. ASSUME NEW v \in VM, FinishAttach(v) PROVE Typed'
    <2>1. \E label \in {"attached", "deschedule_lock"} : Goto(v, label)
      BY <1>16 DEF FinishAttach
    <2>2. \A w \in VM \ {v} : scan'[w] = scan[w]
      BY <1>16 DEF FinishAttach, TypeOK
    <2>3. pc' \in [VM -> PC] /\ ResetInPool' BY <2>1, <2>2, Moves DEF PC
    <2> QED BY <1>16, <2>3 DEF TypeOK, FinishAttach, settings, locks, store
  <1>17. ASSUME NEW v \in VM, DescheduleLock(v) PROVE Typed'
    <2>1. \E label \in {"deschedule", "stuck"} : Goto(v, label)
      BY <1>17 DEF DescheduleLock
    <2>2. \A w \in VM \ {v} : scan'[w] = scan[w]
      BY <1>17 DEF DescheduleLock, TypeOK
    <2>3. pc' \in [VM -> PC] /\ ResetInPool' BY <2>1, <2>2, Moves DEF PC
    <2>4. inside' \subseteq VM BY <1>17, LockTypes DEF DescheduleLock, TypeOK
    <2> QED BY <1>17, <2>3, <2>4 DEF TypeOK, DescheduleLock, settings, store
  <1>18. ASSUME NEW v \in VM, Deschedule(v) PROVE Typed'
    <2>1. \E label \in {"deschedule_unlock"} : Goto(v, label)
      BY <1>18 DEF Deschedule
    <2>2. \A w \in VM \ {v} : scan'[w] = scan[w]
      BY <1>18 DEF Deschedule, TypeOK
    <2>3. pc' \in [VM -> PC] /\ ResetInPool' BY <2>1, <2>2, Moves DEF PC
    <2>4. scheduled_vms' \in [VMC -> Int] BY <1>18, CountTypes DEF Deschedule
    <2> QED BY <1>18, <2>3, <2>4 DEF TypeOK, Deschedule, settings, locks
  <1>19. ASSUME NEW v \in VM, DescheduleUnlock(v) PROVE Typed'
    <2>1. \E label \in {"gone"} : Goto(v, label)
      BY <1>19 DEF DescheduleUnlock
    <2>2. \A w \in VM \ {v} : scan'[w] = scan[w]
      BY <1>19 DEF DescheduleUnlock, TypeOK
    <2>3. pc' \in [VM -> PC] /\ ResetInPool' BY <2>1, <2>2, Moves DEF PC
    <2>4. inside' \subseteq VM BY <1>19, LockTypes DEF DescheduleUnlock, TypeOK
    <2> QED BY <1>19, <2>3, <2>4 DEF TypeOK, DescheduleUnlock, settings, store
  <1>20. ASSUME NEW a \in AI, Shrink(a) PROVE Typed'
    <2>1. PICK v \in OfAI(a) : order' = [order EXCEPT ![v] = Unnumbered] /\ Goto(v, "deschedule_lock")
      BY <1>20 DEF Shrink
    <2>2. v \in VM BY DEF OfAI
    <2>3. pc' \in [VM -> PC] /\ ResetInPool'
      BY <1>20, <2>1, <2>2, Moves DEF Shrink, PC
    <2>4. vms_nr' \in [AI -> Nat] BY <1>20 DEF Shrink, TypeOK
    <2>5. order' \in [VM -> Nat \cup {Unnumbered}] BY <2>1, <2>2 DEF TypeOK
    <2> QED BY <1>20, <2>3, <2>4, <2>5 DEF TypeOK, Shrink, settings, locks
  <1>21. CASE UNCHANGED vars
    BY <1>21 DEF vars, settings, locks, store, TypeOK, ResetInPool
  <1> QED
    BY <1>1, <1>2, <1>3, <1>4, <1>5, <1>6, <1>7, <1>8, <1>9, <1>10, <1>11, <1>12, <1>13,
       <1>14, <1>15, <1>16, <1>17, <1>18, <1>19, <1>20, <1>21, <1>22
    DEF Next, pre_attach_vm, deschedule

\* The variables of Placement keep their types.
THEOREM TypeCorrect == Spec => []TypeOK
  <1>1. Spec => []Typed BY TypeInit, TypeNext, PTL DEF Spec
  <1>2. Typed => TypeOK BY DEF Typed
  <1> QED BY <1>1, <1>2, PTL
-----------------------------------------------------------------------------
(* Balance *)

\* VMs sent to a VMC by name stay out of the pool.
Outside == Explicit \cap Pool = {}

\* The places where a VM owns the lock vmc_placement.
Owner(v) == \/ pc[v] \in {"turn", "back_off", "advance", "scan", "reset_count", "unlock",
                          "give_up", "deschedule", "deschedule_unlock"}
            \/ "roundrobin" \in method /\ pc[v] \in {"choose", "colocate_lock", "colocate", "set_first"}
            \/ "roundrobin" \in method /\ pc[v] = "schedule" /\ vmc[v] \in Pool

OneOwner == /\ \A v, w \in inside : v = w
            /\ \A v \in VM : Owner(v) => v \in inside

\* It holds at first.
LEMMA OwnerInit == Init => OneOwner
  BY DEF Init, OneOwner, Owner

\* A step that moves one VM and leaves the lock alone, takes it or gives it back.
LEMMA OwnerMoves ==
  ASSUME TypeOK, OneOwner, NEW v \in VM, NEW label \in PC, Goto(v, label),
         method' = method, \A w \in VM \ {v} : vmc'[w] = vmc[w],
         \/ inside' = inside /\ (Owner(v)' => v \in inside)
         \/ Placing!Acquire(v)
         \/ Placing!Release(v) /\ ~Owner(v)'
  PROVE  OneOwner'
  <1>1. \A w \in VM \ {v} : Owner(w)' => Owner(w)
    BY DEF TypeOK, Goto, Owner
  <1>2. CASE inside' = inside /\ (Owner(v)' => v \in inside)
    BY <1>1, <1>2 DEF OneOwner
  <1>3. CASE Placing!Acquire(v)
    BY <1>1, <1>3 DEF OneOwner, Placing!Acquire
  <1>4. CASE Placing!Release(v) /\ ~Owner(v)'
    BY <1>1, <1>4 DEF OneOwner, Placing!Release
  <1> QED BY <1>2, <1>3, <1>4

\* Every step keeps it.
LEMMA OwnerNext == Outside /\ TypeOK /\ OneOwner /\ [Next]_vars => OneOwner'
  <1> SUFFICES ASSUME Outside, TypeOK, OneOwner, [Next]_vars PROVE OneOwner'
    OBVIOUS
  <1>1. ASSUME NEW v \in VM, Enlist(v) PROVE OneOwner'
    <2>1. \E label \in {"queued"} : Goto(v, label)
      BY <1>1 DEF Enlist
    <2>2. method' = method /\ \A w \in VM \ {v} : vmc'[w] = vmc[w]
      BY <1>1 DEF Enlist, settings, TypeOK
    <2>3. inside' = inside /\ (Owner(v)' => v \in inside)
      BY <1>1, <2>1, <2>2 DEF Enlist, locks, Goto, Owner, TypeOK
    <2> QED BY <2>1, <2>2, <2>3, OwnerMoves DEF PC
  <1>2. ASSUME NEW v \in VM, Begin(v) PROVE OneOwner'
    <2>1. \E label \in {"schedule", "lock", "choose", "failed"} : Goto(v, label)
      BY <1>2 DEF Begin
    <2>2. method' = method /\ \A w \in VM \ {v} : vmc'[w] = vmc[w]
      BY <1>2 DEF Begin, settings, TypeOK
    <2>3. inside' = inside /\ (Owner(v)' => v \in inside)
      BY <1>2, <2>1, <2>2 DEF Begin, locks, Goto, Owner, Outside, settings, TypeOK
    <2> QED BY <2>1, <2>2, <2>3, OwnerMoves DEF PC
  <1>3. ASSUME NEW v \in VM, Lock(v) PROVE OneOwner'
    <2>1. \E label \in {"turn", "scan", "failed"} : Goto(v, label)
      BY <1>3 DEF Lock
    <2>2. method' = method /\ \A w \in VM \ {v} : vmc'[w] = vmc[w]
      BY <1>3 DEF Lock, settings, TypeOK
    <2>3. \/ Placing!Acquire(v)
          \/ inside' = inside /\ (Owner(v)' => v \in inside)
      BY <1>3, <2>1, <2>2 DEF Lock, Goto, Owner, TypeOK
    <2> QED BY <2>1, <2>2, <2>3, OwnerMoves DEF PC
  <1>4. ASSUME NEW v \in VM, ReadLeader(v) PROVE OneOwner'
    <2>1. \E label \in {"advance", "back_off"} : Goto(v, label)
      BY <1>4 DEF ReadLeader
    <2>2. method' = method /\ \A w \in VM \ {v} : vmc'[w] = vmc[w]
      BY <1>4 DEF ReadLeader, settings, TypeOK
    <2>3. inside' = inside /\ (Owner(v)' => v \in inside)
      BY <1>4, <2>1, <2>2 DEF ReadLeader, locks, Goto, Owner, OneOwner, TypeOK
    <2> QED BY <2>1, <2>2, <2>3, OwnerMoves DEF PC
  <1>5. ASSUME NEW v \in VM, BackOff(v) PROVE OneOwner'
    <2>1. \E label \in {"lock"} : Goto(v, label)
      BY <1>5 DEF BackOff
    <2>2. method' = method /\ \A w \in VM \ {v} : vmc'[w] = vmc[w]
      BY <1>5 DEF BackOff, settings, TypeOK
    <2>3. Placing!Release(v) /\ ~Owner(v)'
      BY <1>5, <2>1, <2>2 DEF BackOff, Goto, Owner, TypeOK
    <2> QED BY <2>1, <2>2, <2>3, OwnerMoves DEF PC
  <1>6. ASSUME NEW v \in VM, AdvanceLeader(v) PROVE OneOwner'
    <2>1. \E label \in {"scan"} : Goto(v, label)
      BY <1>6 DEF AdvanceLeader
    <2>2. method' = method /\ \A w \in VM \ {v} : vmc'[w] = vmc[w]
      BY <1>6 DEF AdvanceLeader, settings, TypeOK
    <2>3. inside' = inside /\ (Owner(v)' => v \in inside)
      BY <1>6, <2>1, <2>2 DEF AdvanceLeader, locks, Goto, Owner, OneOwner, TypeOK
    <2> QED BY <2>1, <2>2, <2>3, OwnerMoves DEF PC
  <1>7. ASSUME NEW v \in VM, ScanVmc(v) PROVE OneOwner'
    <2>1. \E label \in {"choose", "reset_count", "scan"} : Goto(v, label)
      <3>1. UNCHANGED pc => Goto(v, "scan") BY <1>7 DEF ScanVmc, Goto, TypeOK
      <3> QED BY <1>7, <3>1 DEF ScanVmc
    <2>2. method' = method /\ \A w \in VM \ {v} : vmc'[w] = vmc[w]
      BY <1>7 DEF ScanVmc, settings, TypeOK
    <2>3. inside' = inside /\ (Owner(v)' => v \in inside)
      BY <1>7, <2>1, <2>2 DEF ScanVmc, locks, Goto, Owner, OneOwner, TypeOK
    <2> QED BY <2>1, <2>2, <2>3, OwnerMoves DEF PC
  <1>8. ASSUME NEW v \in VM, ResetCount(v) PROVE OneOwner'
    <2>1. \E label \in {"scan"} : Goto(v, label)
      BY <1>8 DEF ResetCount
    <2>2. method' = method /\ \A w \in VM \ {v} : vmc'[w] = vmc[w]
      BY <1>8 DEF ResetCount, settings, TypeOK
    <2>3. inside' = inside /\ (Owner(v)' => v \in inside)
      BY <1>8, <2>1, <2>2 DEF ResetCount, locks, Goto, Owner, OneOwner, TypeOK
    <2> QED BY <2>1, <2>2, <2>3, OwnerMoves DEF PC
  <1>9. ASSUME NEW v \in VM, Choose(v) PROVE OneOwner'
    <2>1. \E label \in {"colocate_lock", "schedule"} : Goto(v, label)
      BY <1>9 DEF Choose
    <2>2. method' = method /\ \A w \in VM \ {v} : vmc'[w] = vmc[w]
      BY <1>9 DEF Choose, settings, TypeOK
    <2>3. inside' = inside /\ (Owner(v)' => v \in inside)
      BY <1>9, <2>1, <2>2 DEF Choose, locks, Goto, Owner, OneOwner, settings, TypeOK
    <2> QED BY <2>1, <2>2, <2>3, OwnerMoves DEF PC
  <1>10. ASSUME NEW v \in VM, ColocateLock(v) PROVE OneOwner'
    <2>1. \E label \in {"colocate", "give_up", "failed"} : Goto(v, label)
      BY <1>10 DEF ColocateLock
    <2>2. method' = method /\ \A w \in VM \ {v} : vmc'[w] = vmc[w]
      BY <1>10 DEF ColocateLock, settings, TypeOK
    <2>3. inside' = inside /\ (Owner(v)' => v \in inside)
      BY <1>10, <2>1, <2>2 DEF ColocateLock, Goto, Owner, OneOwner, settings, TypeOK
    <2> QED BY <2>1, <2>2, <2>3, OwnerMoves DEF PC
  <1>11. ASSUME NEW v \in VM, Colocate(v) PROVE OneOwner'
    <2>1. \E label \in {"schedule", "set_first"} : Goto(v, label)
      BY <1>11 DEF Colocate
    <2>2. method' = method /\ \A w \in VM \ {v} : vmc'[w] = vmc[w]
      BY <1>11 DEF Colocate, settings, TypeOK
    <2>3. inside' = inside /\ (Owner(v)' => v \in inside)
      BY <1>11, <2>1, <2>2 DEF Colocate, locks, Goto, Owner, OneOwner, settings, TypeOK
    <2> QED BY <2>1, <2>2, <2>3, OwnerMoves DEF PC
  <1>22. ASSUME NEW v \in VM, SetFirst(v) PROVE OneOwner'
    <2>1. \E label \in {"schedule"} : Goto(v, label)
      BY <1>22 DEF SetFirst
    <2>2. method' = method /\ \A w \in VM \ {v} : vmc'[w] = vmc[w]
      BY <1>22 DEF SetFirst, settings, TypeOK
    <2>3. inside' = inside /\ (Owner(v)' => v \in inside)
      BY <1>22, <2>1, <2>2 DEF SetFirst, locks, Goto, Owner, OneOwner, settings, TypeOK
    <2> QED BY <2>1, <2>2, <2>3, OwnerMoves DEF PC
  <1>12. ASSUME NEW v \in VM, Schedule(v) PROVE OneOwner'
    <2>1. \E label \in {"unlock", "unlock_colocate", "placed"} : Goto(v, label)
      BY <1>12 DEF Schedule, AfterLocks
    <2>2. method' = method /\ \A w \in VM \ {v} : vmc'[w] = vmc[w]
      BY <1>12 DEF Schedule, settings, TypeOK
    <2>3. inside' = inside /\ (Owner(v)' => v \in inside)
      BY <1>12, <2>1, <2>2 DEF Schedule, AfterLocks, locks, Goto, Owner, OneOwner, TypeOK
    <2> QED BY <2>1, <2>2, <2>3, OwnerMoves DEF PC
  <1>13. ASSUME NEW v \in VM, Unlock(v) PROVE OneOwner'
    <2>1. \E label \in {"unlock_colocate", "placed"} : Goto(v, label)
      BY <1>13 DEF Unlock
    <2>2. method' = method /\ \A w \in VM \ {v} : vmc'[w] = vmc[w]
      BY <1>13 DEF Unlock, settings, TypeOK
    <2>3. Placing!Release(v) /\ ~Owner(v)'
      BY <1>13, <2>1, <2>2 DEF Unlock, Goto, Owner, TypeOK
    <2> QED BY <2>1, <2>2, <2>3, OwnerMoves DEF PC
  <1>14. ASSUME NEW v \in VM, UnlockColocate(v) PROVE OneOwner'
    <2>1. \E label \in {"placed"} : Goto(v, label)
      BY <1>14 DEF UnlockColocate
    <2>2. method' = method /\ \A w \in VM \ {v} : vmc'[w] = vmc[w]
      BY <1>14 DEF UnlockColocate, settings, TypeOK
    <2>3. inside' = inside /\ (Owner(v)' => v \in inside)
      BY <1>14, <2>1, <2>2 DEF UnlockColocate, Goto, Owner, TypeOK
    <2> QED BY <2>1, <2>2, <2>3, OwnerMoves DEF PC
  <1>15. ASSUME NEW v \in VM, GiveUp(v) PROVE OneOwner'
    <2>1. \E label \in {"gave_up"} : Goto(v, label)
      BY <1>15 DEF GiveUp
    <2>2. method' = method /\ \A w \in VM \ {v} : vmc'[w] = vmc[w]
      BY <1>15 DEF GiveUp, settings, TypeOK
    <2>3. Placing!Release(v) /\ ~Owner(v)'
      BY <1>15, <2>1, <2>2 DEF GiveUp, Goto, Owner, TypeOK
    <2> QED BY <2>1, <2>2, <2>3, OwnerMoves DEF PC
  <1>16. ASSUME NEW v \in VM, FinishAttach(v) PROVE OneOwner'
    <2>1. \E label \in {"attached", "deschedule_lock"} : Goto(v, label)
      BY <1>16 DEF FinishAttach
    <2>2. method' = method /\ \A w \in VM \ {v} : vmc'[w] = vmc[w]
      BY <1>16 DEF FinishAttach, settings, TypeOK
    <2>3. inside' = inside /\ (Owner(v)' => v \in inside)
      BY <1>16, <2>1, <2>2 DEF FinishAttach, locks, Goto, Owner, TypeOK
    <2> QED BY <2>1, <2>2, <2>3, OwnerMoves DEF PC
  <1>17. ASSUME NEW v \in VM, DescheduleLock(v) PROVE OneOwner'
    <2>1. \E label \in {"deschedule", "stuck"} : Goto(v, label)
      BY <1>17 DEF DescheduleLock
    <2>2. method' = method /\ \A w \in VM \ {v} : vmc'[w] = vmc[w]
      BY <1>17 DEF DescheduleLock, settings, TypeOK
    <2>3. \/ Placing!Acquire(v)
          \/ inside' = inside /\ (Owner(v)' => v \in inside)
      BY <1>17, <2>1, <2>2 DEF DescheduleLock, Goto, Owner, TypeOK
    <2> QED BY <2>1, <2>2, <2>3, OwnerMoves DEF PC
  <1>18. ASSUME NEW v \in VM, Deschedule(v) PROVE OneOwner'
    <2>1. \E label \in {"deschedule_unlock"} : Goto(v, label)
      BY <1>18 DEF Deschedule
    <2>2. method' = method /\ \A w \in VM \ {v} : vmc'[w] = vmc[w]
      BY <1>18 DEF Deschedule, settings, TypeOK
    <2>3. inside' = inside /\ (Owner(v)' => v \in inside)
      BY <1>18, <2>1, <2>2 DEF Deschedule, locks, Goto, Owner, OneOwner, TypeOK
    <2> QED BY <2>1, <2>2, <2>3, OwnerMoves DEF PC
  <1>19. ASSUME NEW v \in VM, DescheduleUnlock(v) PROVE OneOwner'
    <2>1. \E label \in {"gone"} : Goto(v, label)
      BY <1>19 DEF DescheduleUnlock
    <2>2. method' = method /\ \A w \in VM \ {v} : vmc'[w] = vmc[w]
      BY <1>19 DEF DescheduleUnlock, settings, TypeOK
    <2>3. Placing!Release(v) /\ ~Owner(v)'
      BY <1>19, <2>1, <2>2 DEF DescheduleUnlock, Goto, Owner, TypeOK
    <2> QED BY <2>1, <2>2, <2>3, OwnerMoves DEF PC
  <1>20. ASSUME NEW a \in AI, Shrink(a) PROVE OneOwner'
    <2>1. PICK v \in OfAI(a) : Goto(v, "deschedule_lock") BY <1>20 DEF Shrink
    <2>2. v \in VM BY DEF OfAI
    <2>3. inside' = inside /\ ~Owner(v)'
      BY <1>20, <2>1, <2>2 DEF Shrink, locks, Goto, Owner, TypeOK
    <2> QED BY <1>20, <2>1, <2>2, <2>3, OwnerMoves DEF Shrink, settings, PC
  <1>21. CASE UNCHANGED vars
    BY <1>21 DEF vars, settings, locks, OneOwner, Owner
  <1> QED
    BY <1>1, <1>2, <1>3, <1>4, <1>5, <1>6, <1>7, <1>8, <1>9, <1>10, <1>11, <1>12, <1>13,
       <1>14, <1>15, <1>16, <1>17, <1>18, <1>19, <1>20, <1>21, <1>22
    DEF Next, pre_attach_vm, deschedule

RoundRobin == method = {"roundrobin"}

\* Before any VM left the counts only grow.
Quiet == \A v \in VM : pc[v] \notin Leaving

Scanning(v) == pc[v] \in {"scan", "reset_count", "choose"}

\* What round robin keeps: the counts fall by at most one along the pool.
Steps == \A m, n \in Pool : m < n => CountAt(m) - CountAt(n) \in {0, 1}

\* m is where the step is: adding a VM there keeps the shape.
AtStep(m) == /\ m \in Pool
             /\ \A n \in Pool : n < m => CountAt(n) = CountAt(m) + 1
             /\ \A n \in Pool : m <= n => CountAt(n) = CountAt(m)

\* A VMC without a count is new, and the first loop over the pool reaches them in order.
NewOnes ==
    \A m \in Pool : scheduled_vms[m] = Missing =>
        /\ \A n \in Pool : CountAt(n) = 0
        /\ \/ \A n \in Pool : scheduled_vms[n] = Missing
           \/ \E v \in VM : /\ pc[v] \in {"scan", "reset_count"}
                            /\ scan[v].pick = 1
                            /\ \A n \in Pool : scheduled_vms[n] = Missing <=> scan[v].next <= n

\* What the loop has found is true of the VMCs it has looked at.
LoopIsRight(v) ==
    /\ pc[v] = "reset_count" => scheduled_vms[scan[v].next] = Missing
    /\ pc[v] = "choose" => scan[v].next > PoolSize /\ \A n \in Pool : scheduled_vms[n] # Missing
    /\ scan[v].next > 1 => scheduled_vms[1] # Missing
    /\ scan[v].pick = 0 =>
         \/ scan[v].next = 1 /\ scan[v].top = Missing
         \/ /\ scan[v].next > 1 /\ scan[v].top # Missing
            /\ \A n \in Pool : n < scan[v].next => scheduled_vms[n] = scan[v].top
    /\ scan[v].pick # 0 => scan[v].pick < scan[v].next /\ AtStep(scan[v].pick)

Shape == /\ Steps
         /\ NewOnes
         /\ \A v \in VM : Scanning(v) => LoopIsRight(v)
         /\ \A v \in VM : ~Scanning(v) => scan[v] = NewScan
         /\ \A v \in VM : pc[v] = "schedule" /\ vmc[v] \in Pool =>
               AtStep(vmc[v]) /\ \A n \in Pool : scheduled_vms[n] # Missing
         /\ \A v \in VM : pc[v] \notin {"colocate_lock", "colocate", "set_first"}
         /\ \A m \in Pool : scheduled_vms[m] # Missing => scheduled_vms[m] >= 0

ShapeWhileQuiet == RoundRobin /\ Quiet => Shape

\* It holds at first.
LEMMA ShapeInit == Init => ShapeWhileQuiet
  BY DEF Init, ShapeWhileQuiet, Shape, Steps, NewOnes, CountAt, Missing, Scanning, VMC, Pool

\* Only one VM loops over the pool or is about to count.
LEMMA OneScans ==
  ASSUME OneOwner, RoundRobin, NEW v \in VM, NEW w \in VM,
         Scanning(v) \/ (pc[v] = "schedule" /\ vmc[v] \in Pool),
         Scanning(w) \/ (pc[w] = "schedule" /\ vmc[w] \in Pool)
  PROVE  v = w
  BY DEF OneOwner, Owner, RoundRobin, Scanning

\* If all VMs are in the pool's quiet places after a step, they were before.
LEMMA QuietBefore ==
  ASSUME TypeOK, Quiet', NEW v \in VM, NEW label \in PC, Goto(v, label), pc[v] \notin Leaving
  PROVE  Quiet
  BY DEF TypeOK, Quiet, Goto, Leaving

\* A step of a VM outside the loop that counts nothing in the pool.
LEMMA ShapeMoves ==
  ASSUME Typed, Shape, NEW v \in VM, NEW label \in PC, Goto(v, label), ~Scanning(v),
         label \notin {"reset_count", "choose", "colocate_lock", "colocate", "set_first"},
         scan' = scan, \A m \in Pool : scheduled_vms'[m] = scheduled_vms[m],
         \A w \in VM \ {v} : vmc'[w] = vmc[w],
         label = "schedule" => vmc'[v] \notin Pool
  PROVE  Shape'
  <1>1. /\ pc'[v] = label
        /\ \A w \in VM \ {v} : pc'[w] = pc[w]
    BY DEF Typed, TypeOK, Goto
  <1>2. \A m \in Pool : CountAt(m)' = CountAt(m) BY DEF CountAt
  <1>3. Steps' BY <1>2 DEF Shape, Steps
  <1>4. NewOnes'
    <2> SUFFICES ASSUME NEW m \in Pool, scheduled_vms[m] = Missing
                 PROVE  /\ \A n \in Pool : CountAt(n) = 0
                        /\ \/ \A n \in Pool : scheduled_vms[n] = Missing
                           \/ \E w \in VM : /\ pc'[w] \in {"scan", "reset_count"}
                                            /\ scan[w].pick = 1
                                            /\ \A n \in Pool : scheduled_vms[n] = Missing
                                                                 <=> scan[w].next <= n
      BY <1>2 DEF NewOnes
    <2>1. CASE \A n \in Pool : scheduled_vms[n] = Missing BY <2>1 DEF Shape, NewOnes
    <2>2. CASE \E w \in VM : /\ pc[w] \in {"scan", "reset_count"}
                             /\ scan[w].pick = 1
                             /\ \A n \in Pool : scheduled_vms[n] = Missing <=> scan[w].next <= n
      BY <1>1, <2>2 DEF Shape, NewOnes, Scanning
    <2> QED BY <2>1, <2>2 DEF Shape, NewOnes
  <1>5. \A m \in Pool : AtStep(m) => AtStep(m)' BY <1>2 DEF AtStep
  <1>6. ASSUME NEW w \in VM, Scanning(w)' PROVE LoopIsRight(w)'
    <2>1. CASE w = v
      <3>1. label = "scan" BY <1>1, <1>6, <2>1 DEF Scanning
      <3>2. scan[v] = NewScan BY DEF Shape
      <3> QED BY <1>1, <2>1, <3>1, <3>2 DEF LoopIsRight, NewScan
    <2>2. CASE w # v
      <3>1. LoopIsRight(w) BY <1>1, <1>6, <2>2 DEF Shape, Scanning
      <3>2. scan[w] \in Scan BY DEF Typed, TypeOK
      <3>3. 1 \in Pool /\ \A n \in Pool : n \in Int BY PlacementAssumption DEF Pool
      <3>4. pc[w] = "reset_count" => scan[w].next \in Pool BY DEF Typed, ResetInPool
      <3>5. pc'[w] = pc[w] BY <1>1, <2>2
      <3>6. scan[w].pick # 0 => scan[w].pick < scan[w].next /\ AtStep(scan[w].pick)'
        BY <3>1, <1>5 DEF LoopIsRight, AtStep
      <3> QED BY <3>1, <3>3, <3>4, <3>5, <3>6 DEF LoopIsRight
    <2> QED BY <2>1, <2>2
  <1>7. \A w \in VM : ~Scanning(w)' => scan'[w] = NewScan
    BY <1>1 DEF Shape, Scanning
  <1>8. ASSUME NEW w \in VM, pc'[w] = "schedule", vmc'[w] \in Pool
        PROVE  AtStep(vmc[w])' /\ \A n \in Pool : scheduled_vms'[n] # Missing
    <2>1. w # v BY <1>1, <1>8
    <2>2. pc[w] = "schedule" /\ vmc'[w] = vmc[w] BY <1>1, <1>8, <2>1
    <2>3. AtStep(vmc[w]) /\ \A n \in Pool : scheduled_vms[n] # Missing
      BY <1>8, <2>2 DEF Shape
    <2> QED BY <1>2, <1>8, <2>2, <2>3 DEF AtStep
  <1>9. \A w \in VM : pc'[w] \notin {"colocate_lock", "colocate", "set_first"} BY <1>1 DEF Shape
  <1>10. \A m \in Pool : scheduled_vms'[m] # Missing => scheduled_vms'[m] >= 0 BY DEF Shape
  <1> QED BY <1>3, <1>4, <1>6, <1>7, <1>8, <1>9, <1>10 DEF Shape

\* The step that looks at one more VMC.
LEMMA ShapeScan ==
  ASSUME Typed, OneOwner, RoundRobin, Shape, NEW v \in VM, ScanVmc(v)
  PROVE  Shape'
  <1> USE PlacementAssumption
  <1>1. /\ scheduled_vms' = scheduled_vms /\ vmc' = vmc
        /\ \A m : CountAt(m)' = CountAt(m)
        /\ \A m \in Pool : AtStep(m) => AtStep(m)'
    BY DEF ScanVmc, store, CountAt, AtStep
  <1>2. /\ scan[v] \in Scan /\ pc[v] = "scan" /\ LoopIsRight(v)
        /\ ~Scanned(scan[v]) => scan[v].next \in Pool
    BY DEF Typed, TypeOK, ScanVmc, Scanned, Scan, Pool, Shape, Scanning
  <1>3. 1 \in Pool /\ \A n \in Pool : n \in Int BY DEF Pool
  <1>4. \A w \in VM : Scanning(w) \/ (pc[w] = "schedule" /\ vmc[w] \in Pool) => w = v
    BY <1>2, OneScans DEF Scanning
  <1>5. /\ \A w \in VM \ {v} : pc'[w] = pc[w] /\ scan'[w] = scan[w]
        /\ pc'[v] \in {"scan", "reset_count", "choose"}
    BY DEF ScanVmc, Goto, Typed, TypeOK
  <1>6. /\ Steps'
        /\ \A w \in VM : ~Scanning(w)' => scan'[w] = NewScan
        /\ \A w \in VM : ~(pc'[w] = "schedule" /\ vmc'[w] \in Pool)
        /\ \A w \in VM : pc'[w] \notin {"colocate_lock", "colocate", "set_first"}
        /\ \A m \in Pool : scheduled_vms'[m] # Missing => scheduled_vms'[m] >= 0
    BY <1>1, <1>4, <1>5 DEF Shape, Steps, Scanning
  <1>7. ASSUME NewOnes', LoopIsRight(v)' PROVE Shape'
    BY <1>4, <1>5, <1>6, <1>7 DEF Shape, Scanning
  <1>8. CASE Scanned(scan[v]) /\ Goto(v, "choose") /\ UNCHANGED scan
    <2>1. scan[v].next > PoolSize /\ scan[v].next > 1 BY <1>2, <1>8 DEF Scanned, Scan
    <2>2. \A m \in Pool : scheduled_vms[m] # Missing
      <3> SUFFICES ASSUME NEW m \in Pool, scheduled_vms[m] = Missing PROVE FALSE
        OBVIOUS
      <3>1. scheduled_vms[1] # Missing BY <1>2, <2>1 DEF LoopIsRight
      <3>2. PICK w \in VM : /\ pc[w] \in {"scan", "reset_count"}
                            /\ scheduled_vms[m] = Missing <=> scan[w].next <= m
        BY <1>3, <3>1 DEF Shape, NewOnes
      <3>3. w = v BY <1>4, <3>2 DEF Scanning
      <3> QED BY <2>1, <3>2, <3>3, <1>2 DEF Pool, Scan
    <2>3. NewOnes' BY <1>1, <2>2 DEF NewOnes
    <2>4. pc'[v] = "choose" BY <1>8 DEF Goto, Typed, TypeOK
    <2>5. LoopIsRight(v)'
      BY <1>1, <1>2, <1>3, <1>8, <2>1, <2>2, <2>4 DEF LoopIsRight, AtStep
    <2> QED BY <1>7, <2>3, <2>5
  <1>9. CASE /\ ~Scanned(scan[v]) /\ scheduled_vms[scan[v].next] = Missing
             /\ Goto(v, "reset_count") /\ UNCHANGED scan
    <2>1. pc'[v] = "reset_count" BY <1>9 DEF Goto, Typed, TypeOK
    <2>2. NewOnes' BY <1>1, <1>2, <1>5, <1>9, <2>1 DEF Shape, NewOnes
    <2>3. LoopIsRight(v)'
      BY <1>1, <1>2, <1>3, <1>9, <2>1 DEF LoopIsRight, AtStep
    <2> QED BY <1>7, <2>2, <2>3
  <1>10. CASE /\ ~Scanned(scan[v]) /\ scheduled_vms[scan[v].next] # Missing
              /\ scan' = [scan EXCEPT ![v] = Seen(scan[v], scheduled_vms[scan[v].next])]
              /\ UNCHANGED pc
    <2> DEFINE s == scan[v]  c == scheduled_vms[s.next]
    <2>1. s.next \in Pool /\ c \in Int /\ c # Missing
      BY <1>2, <1>10 DEF Typed, TypeOK, VMC
    <2>2. scan'[v] = Seen(s, c) BY <1>10 DEF Typed, TypeOK
    <2>3. \A m \in Pool : scheduled_vms[m] # Missing
      <3> SUFFICES ASSUME NEW m \in Pool, scheduled_vms[m] = Missing PROVE FALSE
        OBVIOUS
      <3>1. PICK w \in VM : /\ pc[w] \in {"scan", "reset_count"}
                            /\ scheduled_vms[s.next] = Missing <=> scan[w].next <= s.next
        BY <2>1 DEF Shape, NewOnes
      <3>2. w = v BY <1>4, <3>1 DEF Scanning
      <3> QED BY <2>1, <3>1, <3>2, <1>2 DEF Scan
    <2>4. NewOnes' BY <1>1, <2>3 DEF NewOnes
    <2>5. \A m \in Pool : CountAt(m) = scheduled_vms[m] /\ scheduled_vms[m] \in Int
      BY <2>3 DEF CountAt, Typed, TypeOK, VMC
    <2>6. CASE s.pick # 0
      <3>1. scan'[v].pick = s.pick /\ scan'[v].next = s.next + 1
        BY <2>2, <2>6 DEF Seen
      <3>2. s.pick < s.next /\ AtStep(s.pick) BY <1>2, <2>6 DEF LoopIsRight
      <3>3. s.pick \in Pool BY <3>2 DEF AtStep
      <3> QED BY <1>1, <1>2, <1>3, <1>7, <1>10, <2>3, <2>4, <2>6, <3>1, <3>2, <3>3
              DEF LoopIsRight, Scan
    <2>7. CASE s.pick = 0 /\ s.next = 1
      <3>1. s.top = Missing BY <1>2, <2>7 DEF LoopIsRight
      <3>2. scan'[v] = [next |-> 2, top |-> c, pick |-> 0]
        BY <2>2, <2>7, <3>1 DEF Seen, IsHighest
      <3>3. \A n \in Pool : n < 2 => scheduled_vms[n] = c BY <2>7 DEF Pool
      <3> QED BY <1>1, <1>2, <1>3, <1>7, <1>10, <2>1, <2>3, <2>4, <3>2, <3>3 DEF LoopIsRight
    <2>8. CASE s.pick = 0 /\ s.next # 1
      <3>1. /\ s.next > 1 /\ s.top # Missing
            /\ \A n \in Pool : n < s.next => scheduled_vms[n] = s.top
        BY <1>2, <2>8 DEF LoopIsRight
      <3>2. s.top = scheduled_vms[1] /\ s.top - c \in {0, 1}
        BY <1>3, <2>1, <2>5, <3>1 DEF Shape, Steps
      <3>3. CASE c >= s.top
        <4>1. c = s.top BY <2>1, <2>5, <1>3, <3>2, <3>3
        <4>2. scan'[v] = [next |-> s.next + 1, top |-> c, pick |-> 0]
          BY <2>2, <2>8, <3>3 DEF Seen, IsHighest
        <4>3. \A n \in Pool : n < s.next + 1 => scheduled_vms[n] = c
          BY <1>3, <2>1, <3>1, <4>1
        <4> QED BY <1>1, <1>2, <1>3, <1>7, <1>10, <2>1, <2>3, <2>4, <3>1, <4>2, <4>3 DEF LoopIsRight
      <3>4. CASE ~(c >= s.top)
        <4>1. c + 1 = s.top BY <2>1, <2>5, <1>3, <3>2, <3>4
        <4>2. scan'[v] = [next |-> s.next + 1, top |-> s.top, pick |-> s.next]
          BY <2>2, <2>8, <3>1, <3>4 DEF Seen, IsHighest
        <4>3. AtStep(s.next)
          <5>1. \A n \in Pool : n < s.next => CountAt(n) = CountAt(s.next) + 1
            BY <2>1, <2>5, <3>1, <4>1
          <5>2. ASSUME NEW n \in Pool, s.next < n PROVE CountAt(n) = c
            <6>1. CountAt(s.next) - CountAt(n) \in {0, 1} BY <2>1, <5>2 DEF Shape, Steps
            <6>2. CountAt(1) - CountAt(n) \in {0, 1}
              BY <1>3, <2>1, <3>1, <5>2 DEF Shape, Steps
            <6> QED BY <1>3, <2>1, <2>5, <3>2, <4>1, <6>1, <6>2
          <5> QED BY <1>3, <2>1, <2>5, <5>1, <5>2 DEF AtStep
        <4>4. s.next # 0 /\ s.next < s.next + 1 BY <2>1 DEF Pool
        <4> QED BY <1>1, <1>2, <1>3, <1>7, <1>10, <2>1, <2>3, <2>4, <3>1, <4>2, <4>3, <4>4 DEF LoopIsRight
      <3> QED BY <3>3, <3>4
    <2> QED BY <2>6, <2>7, <2>8
  <1> QED BY <1>8, <1>9, <1>10 DEF ScanVmc

\* The step that gives a new VMC its first count.
LEMMA ShapeReset ==
  ASSUME Typed, OneOwner, RoundRobin, Shape, NEW v \in VM, ResetCount(v)
  PROVE  Shape'
  <1> USE PlacementAssumption
  <1>1. /\ scan[v] \in Scan /\ pc[v] = "reset_count" /\ LoopIsRight(v)
        /\ scan[v].next \in Pool /\ scheduled_vms[scan[v].next] = Missing
    BY DEF Typed, TypeOK, ResetInPool, ResetCount, Shape, Scanning, LoopIsRight
  <1>2. /\ scheduled_vms'[scan[v].next] = 0
        /\ \A m \in Pool : m # scan[v].next => scheduled_vms'[m] = scheduled_vms[m]
    BY <1>1 DEF ResetCount, Typed, TypeOK, VMC
  <1>3. \A m \in Pool : CountAt(m)' = CountAt(m) BY <1>1, <1>2 DEF CountAt, Missing
  <1>4. \A n \in Pool : CountAt(n) = 0 BY <1>1 DEF Shape, NewOnes
  <1>5. 1 \in Pool /\ \A n \in Pool : n \in Int /\ n >= 1 BY DEF Pool
  <1>6. \A w \in VM : Scanning(w) \/ (pc[w] = "schedule" /\ vmc[w] \in Pool) => w = v
    BY <1>1, OneScans DEF Scanning
  <1>7. /\ \A w \in VM \ {v} : pc'[w] = pc[w] /\ scan'[w] = scan[w]
        /\ pc'[v] = "scan" /\ scan'[v] = SeenMissing(scan[v]) /\ vmc' = vmc
    BY DEF ResetCount, Goto, Typed, TypeOK
  <1>8. scan'[v].next = scan[v].next + 1 /\ scan'[v].pick = 1
    <2>1. CASE \A n \in Pool : scheduled_vms[n] = Missing
      <3>1. ~(scan[v].next > 1) BY <1>1, <1>5, <2>1 DEF LoopIsRight
      <3>2. scan[v].next = 1 BY <1>1, <1>5, <3>1
      <3>3. scan[v].pick = 0 BY <1>1, <1>5, <3>2 DEF LoopIsRight, AtStep
      <3> QED BY <1>7, <3>2, <3>3 DEF SeenMissing
    <2>2. CASE \E w \in VM : /\ pc[w] \in {"scan", "reset_count"}
                             /\ scan[w].pick = 1
      <3>1. scan[v].pick = 1 BY <1>6, <2>2 DEF Scanning
      <3> QED BY <1>7, <3>1 DEF SeenMissing
    <2> QED BY <1>1, <2>1, <2>2 DEF Shape, NewOnes
  <1>9. \A n \in Pool : scheduled_vms'[n] = Missing <=> scan[v].next + 1 <= n
    <2>1. \A n \in Pool : scheduled_vms[n] = Missing <=> scan[v].next <= n
      <3>1. CASE \A n \in Pool : scheduled_vms[n] = Missing
        <4>1. ~(scan[v].next > 1) BY <1>1, <1>5, <3>1 DEF LoopIsRight
        <4>2. scan[v].next = 1 BY <1>1, <1>5, <4>1
        <4> QED BY <1>5, <3>1, <4>2
      <3>2. CASE \E w \in VM : /\ pc[w] \in {"scan", "reset_count"}
                               /\ \A n \in Pool : scheduled_vms[n] = Missing <=> scan[w].next <= n
        BY <1>6, <3>2 DEF Scanning
      <3> QED BY <1>1, <3>1, <3>2 DEF Shape, NewOnes
    <2> QED BY <1>1, <1>2, <1>5, <2>1 DEF Missing
  <1>10. NewOnes' BY <1>3, <1>4, <1>7, <1>8, <1>9 DEF NewOnes
  <1>11. AtStep(1)' BY <1>3, <1>4, <1>5 DEF AtStep
  <1>12. LoopIsRight(v)'
    <2>1. scheduled_vms'[1] # Missing BY <1>1, <1>5, <1>8, <1>9
    <2> QED BY <1>1, <1>5, <1>7, <1>8, <1>11, <2>1 DEF LoopIsRight
  <1>13. Steps' BY <1>3 DEF Shape, Steps
  <1>14. \A m \in Pool : scheduled_vms'[m] # Missing => scheduled_vms'[m] >= 0
    BY <1>2 DEF Shape
  <1> QED BY <1>6, <1>7, <1>10, <1>12, <1>13, <1>14 DEF Shape, Scanning

\* The choice is where the step is.
LEMMA ShapeChoose ==
  ASSUME Typed, OneOwner, RoundRobin, Shape, NEW v \in VM, Choose(v)
  PROVE  Shape'
  <1> USE PlacementAssumption
  <1>1. scan[v] \in Scan /\ pc[v] = "choose" /\ LoopIsRight(v)
    BY DEF Typed, TypeOK, Choose, Shape, Scanning
  <1>2. 1 \in Pool /\ \A n \in Pool : n \in Int /\ n >= 1 /\ n <= PoolSize BY DEF Pool
  <1>3. /\ scan[v].next > PoolSize /\ \A n \in Pool : scheduled_vms[n] # Missing
        /\ \A n \in Pool : CountAt(n) = scheduled_vms[n]
    BY <1>1 DEF LoopIsRight, CountAt
  <1>4. AtStep(vmc'[v])
    <2>1. CASE scan[v].pick = 0
      <3>1. \A n \in Pool : n < scan[v].next => scheduled_vms[n] = scan[v].top
        BY <1>1, <1>2, <1>3, <2>1 DEF LoopIsRight
      <3>2. \A n \in Pool : scheduled_vms[n] = scan[v].top BY <1>1, <1>2, <1>3, <3>1 DEF Scan
      <3>3. vmc'[v] = 1 BY <2>1 DEF Choose, Candidates, RoundRobin, Typed, TypeOK
      <3> QED BY <1>2, <1>3, <3>2, <3>3 DEF AtStep
    <2>2. CASE scan[v].pick # 0
      <3>1. vmc'[v] = scan[v].pick BY <2>2 DEF Choose, Candidates, RoundRobin, Typed, TypeOK
      <3> QED BY <1>1, <2>2, <3>1 DEF LoopIsRight
    <2> QED BY <2>1, <2>2
  <1>5. /\ scheduled_vms' = scheduled_vms
        /\ \A m : CountAt(m)' = CountAt(m)
    BY DEF Choose, store, CountAt
  <1>6. \A w \in VM : Scanning(w) \/ (pc[w] = "schedule" /\ vmc[w] \in Pool) => w = v
    BY <1>1, OneScans DEF Scanning
  <1>7. /\ \A w \in VM \ {v} : pc'[w] = pc[w] /\ scan'[w] = scan[w] /\ vmc'[w] = vmc[w]
        /\ pc'[v] = "schedule" /\ scan'[v] = NewScan
    BY DEF Choose, Goto, Typed, TypeOK, RoundRobin
  <1>8. NewOnes' BY <1>3, <1>5 DEF NewOnes
  <1>9. AtStep(vmc[v])' /\ \A n \in Pool : scheduled_vms'[n] # Missing
    BY <1>3, <1>4, <1>5 DEF AtStep
  <1>10. Steps' BY <1>5 DEF Shape, Steps
  <1>11. \A m \in Pool : scheduled_vms'[m] # Missing => scheduled_vms'[m] >= 0
    BY <1>5 DEF Shape
  <1> QED BY <1>6, <1>7, <1>8, <1>9, <1>10, <1>11 DEF Shape, Scanning

\* Counting one more VM at the step moves the step by one.
LEMMA ShapeSchedule ==
  ASSUME Typed, OneOwner, RoundRobin, Shape, NEW v \in VM, Schedule(v), vmc[v] \in Pool
  PROVE  Shape'
  <1> USE PlacementAssumption
  <1>1. /\ pc[v] = "schedule" /\ AtStep(vmc[v])
        /\ \A n \in Pool : scheduled_vms[n] # Missing
    BY DEF Schedule, Shape
  <1>2. \A n \in Pool : n \in Int /\ CountAt(n) = scheduled_vms[n] /\ CountAt(n) >= 0 /\ CountAt(n) \in Int
    BY <1>1 DEF CountAt, Shape, Pool, Typed, TypeOK, VMC
  <1>3. /\ scheduled_vms'[vmc[v]] = CountAt(vmc[v]) + 1
        /\ \A n \in Pool : n # vmc[v] => scheduled_vms'[n] = scheduled_vms[n]
    BY DEF Schedule, CountScheduled, Typed, TypeOK, VMC
  <1>4. \A n \in Pool : scheduled_vms'[n] # Missing /\ scheduled_vms'[n] >= 0
    BY <1>1, <1>2, <1>3 DEF Missing
  <1>5. /\ CountAt(vmc[v])' = CountAt(vmc[v]) + 1
        /\ \A n \in Pool : n # vmc[v] => CountAt(n)' = CountAt(n)
    <2>1. vmc' = vmc BY DEF Schedule
    <2> QED BY <1>2, <1>3, <1>4, <2>1 DEF CountAt
  <1>6. Steps'
    <2> SUFFICES ASSUME NEW m \in Pool, NEW n \in Pool, m < n
                 PROVE  CountAt(m)' - CountAt(n)' \in {0, 1}
      BY DEF Steps
    <2>1. CASE m = vmc[v]
      <3>1. n # vmc[v] BY <1>2, <2>1
      <3>2. CountAt(n) = CountAt(m) BY <1>1, <1>2, <2>1 DEF AtStep
      <3>3. CountAt(n)' = CountAt(n) BY <1>5, <3>1
      <3>4. CountAt(m)' = CountAt(m) + 1
        <4>1. vmc' = vmc BY DEF Schedule
        <4> QED BY <1>5, <2>1, <4>1
      <3> QED BY <1>2, <3>2, <3>3, <3>4
    <2>2. CASE n = vmc[v]
      <3>1. m # vmc[v] BY <1>2, <2>2
      <3>2. CountAt(m) = CountAt(n) + 1 BY <1>1, <2>2 DEF AtStep
      <3>3. CountAt(m)' = CountAt(m) BY <1>5, <3>1
      <3>4. CountAt(n)' = CountAt(n) + 1
        <4>1. vmc' = vmc BY DEF Schedule
        <4> QED BY <1>5, <2>2, <4>1
      <3> QED BY <1>2, <3>2, <3>3, <3>4
    <2>3. CASE m # vmc[v] /\ n # vmc[v]
      <3>1. CountAt(m)' = CountAt(m) /\ CountAt(n)' = CountAt(n) BY <1>5, <2>3
      <3>2. CountAt(m) - CountAt(n) \in {0, 1} BY DEF Shape, Steps
      <3> QED BY <3>1, <3>2
    <2> QED BY <2>1, <2>2, <2>3
  <1>7. NewOnes' BY <1>4 DEF NewOnes
  <1>8. \A w \in VM : Scanning(w) \/ (pc[w] = "schedule" /\ vmc[w] \in Pool) => w = v
    BY <1>1, OneScans
  <1>9. /\ \A w \in VM \ {v} : pc'[w] = pc[w]
        /\ pc'[v] \in {"unlock", "unlock_colocate", "placed"}
        /\ scan' = scan /\ vmc' = vmc
    BY DEF Schedule, AfterLocks, Goto, Typed, TypeOK
  <1>10. ~Scanning(v) BY <1>1 DEF Scanning
  <1> QED BY <1>4, <1>6, <1>7, <1>8, <1>9, <1>10 DEF Shape, Scanning

\* Every step keeps it.
LEMMA ShapeNext ==
  Outside /\ Typed /\ OneOwner /\ ShapeWhileQuiet /\ [Next]_vars => ShapeWhileQuiet'
  <1> SUFFICES ASSUME Outside, Typed, OneOwner, ShapeWhileQuiet, [Next]_vars, RoundRobin', Quiet'
               PROVE  Shape'
    BY DEF ShapeWhileQuiet
  <1> USE PlacementAssumption
  <1>0. RoundRobin
    BY DEF RoundRobin, Next, vars, settings, pre_attach_vm, deschedule, Shrink, Enlist, Begin,
           Lock, ReadLeader, BackOff, AdvanceLeader, ScanVmc, ResetCount, Choose, ColocateLock,
           Colocate, SetFirst, Schedule, Unlock, UnlockColocate, GiveUp, FinishAttach, DescheduleLock,
           Deschedule, DescheduleUnlock
  <1>1. ASSUME NEW v \in VM, Enlist(v) PROVE Shape'
    <2>1. PICK label \in {"queued"} : Goto(v, label)
      BY <1>1, <1>0 DEF Enlist, RoundRobin
    <2>2. Shape
      BY <1>0, <1>1, <2>1, QuietBefore DEF ShapeWhileQuiet, Enlist, Leaving, PC, Typed
    <2>3. /\ ~Scanning(v) /\ scan' = scan
          /\ \A m \in Pool : scheduled_vms'[m] = scheduled_vms[m]
          /\ \A w \in VM \ {v} : vmc'[w] = vmc[w]
          /\ label = "schedule" => vmc'[v] \notin Pool
      BY <1>1, <2>1 DEF Enlist, Scanning, store, Outside, Goto, Typed, TypeOK
    <2> QED BY <2>1, <2>2, <2>3, ShapeMoves DEF PC
  <1>2. ASSUME NEW v \in VM, Begin(v) PROVE Shape'
    <2>1. PICK label \in {"schedule", "lock", "failed"} : Goto(v, label)
      BY <1>2, <1>0 DEF Begin, RoundRobin
    <2>2. Shape
      BY <1>0, <1>2, <2>1, QuietBefore DEF ShapeWhileQuiet, Begin, Leaving, PC, Typed, Starts
    <2>3. /\ ~Scanning(v) /\ scan' = scan
          /\ \A m \in Pool : scheduled_vms'[m] = scheduled_vms[m]
          /\ \A w \in VM \ {v} : vmc'[w] = vmc[w]
          /\ label = "schedule" => vmc'[v] \notin Pool
      BY <1>2, <2>1 DEF Begin, Scanning, store, Outside, Goto, Typed, TypeOK, Starts
    <2> QED BY <2>1, <2>2, <2>3, ShapeMoves DEF PC
  <1>3. ASSUME NEW v \in VM, Lock(v) PROVE Shape'
    <2>1. PICK label \in {"turn", "scan", "failed"} : Goto(v, label)
      BY <1>3, <1>0 DEF Lock, RoundRobin
    <2>2. Shape
      BY <1>0, <1>3, <2>1, QuietBefore DEF ShapeWhileQuiet, Lock, Leaving, PC, Typed
    <2>3. /\ ~Scanning(v) /\ scan' = scan
          /\ \A m \in Pool : scheduled_vms'[m] = scheduled_vms[m]
          /\ \A w \in VM \ {v} : vmc'[w] = vmc[w]
          /\ label = "schedule" => vmc'[v] \notin Pool
      BY <1>3, <2>1 DEF Lock, Scanning, store, Outside, Goto, Typed, TypeOK
    <2> QED BY <2>1, <2>2, <2>3, ShapeMoves DEF PC
  <1>4. ASSUME NEW v \in VM, ReadLeader(v) PROVE Shape'
    <2>1. PICK label \in {"advance", "back_off"} : Goto(v, label)
      BY <1>4, <1>0 DEF ReadLeader, RoundRobin
    <2>2. Shape
      BY <1>0, <1>4, <2>1, QuietBefore DEF ShapeWhileQuiet, ReadLeader, Leaving, PC, Typed
    <2>3. /\ ~Scanning(v) /\ scan' = scan
          /\ \A m \in Pool : scheduled_vms'[m] = scheduled_vms[m]
          /\ \A w \in VM \ {v} : vmc'[w] = vmc[w]
          /\ label = "schedule" => vmc'[v] \notin Pool
      BY <1>4, <2>1 DEF ReadLeader, Scanning, store, Outside, Goto, Typed, TypeOK
    <2> QED BY <2>1, <2>2, <2>3, ShapeMoves DEF PC
  <1>5. ASSUME NEW v \in VM, BackOff(v) PROVE Shape'
    <2>1. PICK label \in {"lock"} : Goto(v, label)
      BY <1>5, <1>0 DEF BackOff, RoundRobin
    <2>2. Shape
      BY <1>0, <1>5, <2>1, QuietBefore DEF ShapeWhileQuiet, BackOff, Leaving, PC, Typed
    <2>3. /\ ~Scanning(v) /\ scan' = scan
          /\ \A m \in Pool : scheduled_vms'[m] = scheduled_vms[m]
          /\ \A w \in VM \ {v} : vmc'[w] = vmc[w]
          /\ label = "schedule" => vmc'[v] \notin Pool
      BY <1>5, <2>1 DEF BackOff, Scanning, store, Outside, Goto, Typed, TypeOK
    <2> QED BY <2>1, <2>2, <2>3, ShapeMoves DEF PC
  <1>6. ASSUME NEW v \in VM, AdvanceLeader(v) PROVE Shape'
    <2>1. PICK label \in {"scan"} : Goto(v, label)
      BY <1>6, <1>0 DEF AdvanceLeader, RoundRobin
    <2>2. Shape
      BY <1>0, <1>6, <2>1, QuietBefore DEF ShapeWhileQuiet, AdvanceLeader, Leaving, PC, Typed
    <2>3. /\ ~Scanning(v) /\ scan' = scan
          /\ \A m \in Pool : scheduled_vms'[m] = scheduled_vms[m]
          /\ \A w \in VM \ {v} : vmc'[w] = vmc[w]
          /\ label = "schedule" => vmc'[v] \notin Pool
      BY <1>6, <2>1 DEF AdvanceLeader, Scanning, store, Outside, Goto, Typed, TypeOK
    <2> QED BY <2>1, <2>2, <2>3, ShapeMoves DEF PC
  <1>7. ASSUME NEW v \in VM, ScanVmc(v) PROVE Shape'
    <2>1. PICK label \in {"choose", "reset_count", "scan"} : Goto(v, label)
      <3>1. UNCHANGED pc => Goto(v, "scan") BY <1>7 DEF ScanVmc, Goto, Typed, TypeOK
      <3> QED BY <1>7, <3>1 DEF ScanVmc
    <2>2. Shape
      BY <1>0, <1>7, <2>1, QuietBefore DEF ShapeWhileQuiet, ScanVmc, Leaving, PC, Typed
    <2> QED BY <1>0, <1>7, <2>2, ShapeScan
  <1>8. ASSUME NEW v \in VM, ResetCount(v) PROVE Shape'
    <2>1. PICK label \in {"scan"} : Goto(v, label) BY <1>8 DEF ResetCount
    <2>2. Shape
      BY <1>0, <1>8, <2>1, QuietBefore DEF ShapeWhileQuiet, ResetCount, Leaving, PC, Typed
    <2> QED BY <1>0, <1>8, <2>2, ShapeReset
  <1>9. ASSUME NEW v \in VM, Choose(v) PROVE Shape'
    <2>1. PICK label \in {"colocate_lock", "schedule"} : Goto(v, label) BY <1>9 DEF Choose
    <2>2. Shape
      BY <1>0, <1>9, <2>1, QuietBefore DEF ShapeWhileQuiet, Choose, Leaving, PC, Typed
    <2> QED BY <1>0, <1>9, <2>2, ShapeChoose
  <1>10. ASSUME NEW v \in VM, ColocateLock(v) \/ Colocate(v) \/ SetFirst(v) PROVE FALSE
    <2>1. PICK label \in {"colocate", "give_up", "failed", "set_first", "schedule"} : Goto(v, label)
      BY <1>10 DEF ColocateLock, Colocate, SetFirst
    <2>2. Shape
      BY <1>0, <1>10, <2>1, QuietBefore
      DEF ShapeWhileQuiet, ColocateLock, Colocate, SetFirst, Leaving, PC, Typed
    <2> QED BY <1>10, <2>2 DEF Shape, ColocateLock, Colocate, SetFirst
  <1>12. ASSUME NEW v \in VM, Schedule(v) PROVE Shape'
    <2>1. PICK label \in {"unlock", "unlock_colocate", "placed"} : Goto(v, label)
      BY <1>12 DEF Schedule, AfterLocks
    <2>2. Shape
      BY <1>0, <1>12, <2>1, QuietBefore DEF ShapeWhileQuiet, Schedule, Leaving, PC, Typed
    <2>3. CASE vmc[v] \in Pool BY <1>0, <1>12, <2>2, <2>3, ShapeSchedule
    <2>4. CASE vmc[v] \notin Pool
      <3>1. /\ ~Scanning(v) /\ scan' = scan
            /\ \A m \in Pool : scheduled_vms'[m] = scheduled_vms[m]
            /\ \A w \in VM \ {v} : vmc'[w] = vmc[w]
        BY <1>12, <2>4 DEF Schedule, Scanning, CountScheduled, Typed, TypeOK, VMC
      <3> QED BY <2>1, <2>2, <3>1, ShapeMoves DEF PC
    <2> QED BY <2>3, <2>4
  <1>13. ASSUME NEW v \in VM, Unlock(v) PROVE Shape'
    <2>1. PICK label \in {"unlock_colocate", "placed"} : Goto(v, label)
      BY <1>13, <1>0 DEF Unlock, RoundRobin
    <2>2. Shape
      BY <1>0, <1>13, <2>1, QuietBefore DEF ShapeWhileQuiet, Unlock, Leaving, PC, Typed
    <2>3. /\ ~Scanning(v) /\ scan' = scan
          /\ \A m \in Pool : scheduled_vms'[m] = scheduled_vms[m]
          /\ \A w \in VM \ {v} : vmc'[w] = vmc[w]
          /\ label = "schedule" => vmc'[v] \notin Pool
      BY <1>13, <2>1 DEF Unlock, Scanning, store, Outside, Goto, Typed, TypeOK
    <2> QED BY <2>1, <2>2, <2>3, ShapeMoves DEF PC
  <1>14. ASSUME NEW v \in VM, UnlockColocate(v) PROVE Shape'
    <2>1. PICK label \in {"placed"} : Goto(v, label)
      BY <1>14, <1>0 DEF UnlockColocate, RoundRobin
    <2>2. Shape
      BY <1>0, <1>14, <2>1, QuietBefore DEF ShapeWhileQuiet, UnlockColocate, Leaving, PC, Typed
    <2>3. /\ ~Scanning(v) /\ scan' = scan
          /\ \A m \in Pool : scheduled_vms'[m] = scheduled_vms[m]
          /\ \A w \in VM \ {v} : vmc'[w] = vmc[w]
          /\ label = "schedule" => vmc'[v] \notin Pool
      BY <1>14, <2>1 DEF UnlockColocate, Scanning, store, Outside, Goto, Typed, TypeOK
    <2> QED BY <2>1, <2>2, <2>3, ShapeMoves DEF PC
  <1>15. ASSUME NEW v \in VM, GiveUp(v) PROVE Shape'
    <2>1. PICK label \in {"gave_up"} : Goto(v, label)
      BY <1>15, <1>0 DEF GiveUp, RoundRobin
    <2>2. Shape
      BY <1>0, <1>15, <2>1, QuietBefore DEF ShapeWhileQuiet, GiveUp, Leaving, PC, Typed
    <2>3. /\ ~Scanning(v) /\ scan' = scan
          /\ \A m \in Pool : scheduled_vms'[m] = scheduled_vms[m]
          /\ \A w \in VM \ {v} : vmc'[w] = vmc[w]
          /\ label = "schedule" => vmc'[v] \notin Pool
      BY <1>15, <2>1 DEF GiveUp, Scanning, store, Outside, Goto, Typed, TypeOK
    <2> QED BY <2>1, <2>2, <2>3, ShapeMoves DEF PC
  <1>16. ASSUME NEW v \in VM, FinishAttach(v) PROVE Shape'
    <2>1. Goto(v, "attached")
      BY <1>16 DEF FinishAttach, Goto, Quiet, Leaving, Typed, TypeOK
    <2>2. Shape
      BY <1>0, <1>16, <2>1, QuietBefore DEF ShapeWhileQuiet, FinishAttach, Leaving, PC, Typed
    <2>3. ~Scanning(v) /\ scan' = scan /\ scheduled_vms' = scheduled_vms /\ vmc' = vmc
      BY <1>16 DEF FinishAttach, Scanning, store
    <2> QED BY <2>1, <2>2, <2>3, ShapeMoves DEF PC
  <1>17. ASSUME NEW v \in VM, DescheduleLock(v) PROVE FALSE
    BY <1>17 DEF DescheduleLock, Goto, Quiet, Leaving, Typed, TypeOK
  <1>18. ASSUME NEW v \in VM, Deschedule(v) PROVE FALSE
    BY <1>18 DEF Deschedule, Goto, Quiet, Leaving, Typed, TypeOK
  <1>19. ASSUME NEW v \in VM, DescheduleUnlock(v) PROVE FALSE
    BY <1>19 DEF DescheduleUnlock, Goto, Quiet, Leaving, Typed, TypeOK
  <1>20. ASSUME NEW a \in AI, Shrink(a) PROVE FALSE
    <2>1. PICK v \in OfAI(a) : Goto(v, "deschedule_lock") BY <1>20 DEF Shrink
    <2> QED BY <2>1 DEF OfAI, Goto, Quiet, Leaving, Typed, TypeOK
  <1>21. CASE UNCHANGED vars
    <2>1. Shape
      BY <1>0, <1>21 DEF vars, ShapeWhileQuiet, Quiet
    <2> QED BY <1>21, <2>1
            DEF vars, store, Shape, Steps, NewOnes, CountAt, Scanning, LoopIsRight, AtStep
  <1> QED
    BY <1>1, <1>2, <1>3, <1>4, <1>5, <1>6, <1>7, <1>8, <1>9, <1>10, <1>12, <1>13,
       <1>14, <1>15, <1>16, <1>17, <1>18, <1>19, <1>20, <1>21
    DEF Next, pre_attach_vm, deschedule

Invariant == Typed /\ OneOwner /\ ShapeWhileQuiet

\* So it always holds.
LEMMA Invariance == Outside /\ Spec => []Invariant
  <1>1. Init => Invariant BY TypeInit, OwnerInit, ShapeInit DEF Invariant
  <1>2. Outside /\ Invariant /\ [Next]_vars => Invariant'
    BY TypeNext, OwnerNext, ShapeNext DEF Invariant, Typed
  <1>3. CASE Outside
    <2>1. Invariant /\ [Next]_vars => Invariant' BY <1>2, <1>3
    <2> QED BY <1>1, <2>1, PTL DEF Spec
  <1>4. CASE ~Outside BY <1>4
  <1> QED BY <1>3, <1>4

\* While no VM has left, round robin fills the VMCs evenly, the first ones first, when no VM
\* is sent to a VMC of the pool by name.
THEOREM AlwaysBalanced == Outside /\ Spec => []Balanced
  <1>1. Invariant => Balanced
    BY DEF Invariant, ShapeWhileQuiet, Shape, Steps, RoundRobin, Quiet, Balanced
  <1> QED BY <1>1, Invariance, PTL
==============================================================================
