-------------------------- MODULE Parallel_proofs --------------------------
(***************************************************************************)
(* Safety of parallel_obj_operation for any number of calls, VMs and       *)
(* threads.                                                                *)
(***************************************************************************)
EXTENDS Parallel, FiniteSetTheorems, TLAPS

\* Only the threads of the pool have tasks, and a call that is adding tasks has some left.
PoolInv ==
    /\ \A w \in Threads \ workers : job[w] = None
    /\ \A c \in Callers : at[c] = "adding" => todo[c] # {}
    /\ \A c \in Callers : todo[c] \subseteq VmsOf[c]
    /\ \A c \in Callers : at[c] = "idle" => todo[c] = VmsOf[c]

\* The VM that a caller adds next is one of those left.
LEMMA FirstIsLeft ==
  ASSUME NEW c \in Callers, todo[c] # {}
  PROVE  First(c) \in todo[c]
BY DEF First

\* What AppendResult adds is a result.
LEMMA AppendedIsResult ==
  ASSUME TypeOK, NEW w \in Threads, job[w] \in VMs, NEW ok \in BOOLEAN, AppendResult(w, ok)
  PROVE  results' \subseteq Result
<1>1. [vm |-> job[w], ok |-> ok] \in Result
  BY DEF Result
<1> QED
  BY <1>1 DEF AppendResult, TypeOK

\* The values of the variables stay in their ranges, and the invariant of the pool.
LEMMA TypeStep ==
  ASSUME TypeOK, PoolInv, [Next]_vars
  PROVE  TypeOK' /\ PoolInv'
<1> USE VmsAssumption, NoneAssumption DEF TypeOK, PoolInv, Operations, Result, Labels
<1> USE DEF choices, calls, pool, objects
<1>1. ASSUME NEW c \in Callers, Begin(c) PROVE TypeOK' /\ PoolInv'
  <2>1. CASE Goto(c, "adding") /\ UNCHANGED reported
    BY <1>1, <2>1 DEF Begin, Goto
  <2>2. CASE Return(c, "success")
    BY <1>1, <2>2 DEF Begin, Goto, Return
  <2> QED
    BY <1>1, <2>1, <2>2 DEF Begin
<1>2. ASSUME NEW c \in Callers, AddTask(c) PROVE TypeOK' /\ PoolInv'
  <2>1. First(c) \in todo[c]
    BY <1>2, FirstIsLeft DEF AddTask
  <2>2. Cardinality(workers) \in Nat
    BY ThreadsAssumption, FS_Subset, FS_CardinalityType
  <2>3. First(c) \in VMs
    BY <2>1
  <2>4. queue' \in Seq(VMs) /\ Len(queue') = Len(queue) + 1
    BY <1>2, <2>3 DEF AddTask
  <2>5. Len(queue') <= Cardinality(workers')
    BY <1>2, <2>2, <2>4 DEF AddTask
  <2>6. /\ at' \in [Callers -> Labels]
        /\ todo' \in [Callers -> SUBSET VMs]
    BY <1>2 DEF AddTask, Goto
  <2>7. TypeOK'
    BY <1>2, <2>4, <2>5, <2>6 DEF AddTask
  <2>8. PoolInv'
    BY <1>2 DEF AddTask, Goto
  <2> QED
    BY <2>7, <2>8
<1>3. ASSUME NEW c \in Callers, Poll(c) PROVE TypeOK' /\ PoolInv'
  BY <1>3 DEF Poll, Goto
<1>4. ASSUME NEW c \in Callers, Copy(c) PROVE TypeOK' /\ PoolInv'
  BY <1>4 DEF Copy, Goto
<1>5. ASSUME NEW c \in Callers, Reset(c) PROVE TypeOK' /\ PoolInv'
  BY <1>5 DEF Reset, Goto
<1>6. ASSUME NEW c \in Callers, Judge(c) PROVE TypeOK' /\ PoolInv'
  <2>1. CASE Return(c, "failure") /\ UNCHANGED todo
    BY <1>6, <2>1 DEF Judge, Goto, Return
  <2>2. CASE /\ Goto(c, "checking") /\ todo' = [todo EXCEPT ![c] = VmsOf[c]]
             /\ UNCHANGED reported
    BY <1>6, <2>2 DEF Judge, Goto
  <2> QED
    BY <1>6, <2>1, <2>2 DEF Judge
<1>7. ASSUME NEW c \in Callers, Check(c) PROVE TypeOK' /\ PoolInv'
  <2>1. CASE /\ todo' = [todo EXCEPT ![c] = @ \ {First(c)}]
             /\ UNCHANGED << at, reported >>
    <3>1. todo' \in [Callers -> SUBSET VMs]
      BY <2>1
    <3>2. TypeOK'
      BY <1>7, <2>1, <3>1 DEF Check
    <3> QED
      BY <1>7, <2>1, <3>2 DEF Check
  <2>2. CASE Return(c, "success") /\ UNCHANGED todo
    BY <1>7, <2>2 DEF Check, Goto, Return
  <2>3. CASE Return(c, Verdict) /\ UNCHANGED todo
    <3>1. Verdict \in {"success", "failure"}
      BY DEF Verdict
    <3> QED
      BY <1>7, <2>3, <3>1 DEF Check, Goto, Return
  <2> QED
    BY <1>7, <2>1, <2>2, <2>3 DEF Check
<1>8. ASSUME NEW c \in Callers, Abort(c) PROVE TypeOK' /\ PoolInv'
  BY <1>8 DEF Abort, Goto
<1>9. ASSUME NEW c \in Callers, Aborted(c) PROVE TypeOK' /\ PoolInv'
  BY <1>9 DEF Aborted, Goto, Return
<1>10. ASSUME NEW w \in Threads, Take(w) PROVE TypeOK' /\ PoolInv'
  <2>1. Head(queue) \in VMs /\ Tail(queue) \in Seq(VMs) /\ Len(Tail(queue)) = Len(queue) - 1
    BY <1>10 DEF Take
  <2>2. Cardinality(workers) \in Nat
    BY ThreadsAssumption, FS_Subset, FS_CardinalityType
  <2>3. Len(queue') <= Cardinality(workers')
    BY <1>10, <2>1, <2>2 DEF Take
  <2>4. paused' \subseteq {job'[x] : x \in workers'} \ {None}
    BY <1>10, <2>1 DEF Take
  <2> QED
    BY <1>10, <2>1, <2>3, <2>4 DEF Take
<1>11. ASSUME NEW w \in Threads, Pause(w) PROVE TypeOK' /\ PoolInv'
  BY <1>11 DEF Pause, Going
<1>12. ASSUME NEW w \in Threads, PauseEnds(w) PROVE TypeOK' /\ PoolInv'
  <2>1. job[w] \in VMs
    BY <1>12 DEF PauseEnds
  <2>2. results' \subseteq Result
    BY <1>12, <2>1, AppendedIsResult DEF PauseEnds, Finish
  <2>3. paused' \subseteq {job'[x] : x \in workers'} \ {None}
    BY <1>12, <2>1 DEF PauseEnds, Finish
  <2> QED
    BY <1>12, <2>1, <2>2, <2>3 DEF PauseEnds, Finish
<1>13. ASSUME NEW w \in Threads, Succeed(w) PROVE TypeOK' /\ PoolInv'
  <2>1. job[w] \in VMs
    BY <1>13 DEF Succeed, Going
  <2>2. results' \subseteq Result
    BY <1>13, <2>1, AppendedIsResult DEF Succeed, Finish
  <2>3. paused' \subseteq {job'[x] : x \in workers'} \ {None}
    BY <1>13, <2>1 DEF Succeed, Going, Finish
  <2> QED
    BY <1>13, <2>1, <2>2, <2>3 DEF Succeed, Finish
<1>14. ASSUME NEW w \in Threads, FailTask(w) PROVE TypeOK' /\ PoolInv'
  <2>1. job[w] \in VMs
    BY <1>14 DEF FailTask, Going
  <2>2. results' \subseteq Result
    BY <1>14, <2>1, AppendedIsResult DEF FailTask, Finish
  <2>3. paused' \subseteq {job'[x] : x \in workers'} \ {None}
    BY <1>14, <2>1 DEF FailTask, Going, Finish
  <2> QED
    BY <1>14, <2>1, <2>2, <2>3 DEF FailTask, Finish
<1>15. ASSUME NEW w \in Threads, RaiseTask(w) PROVE TypeOK' /\ PoolInv'
  <2>1. job[w] \in VMs
    BY <1>15 DEF RaiseTask, Going
  <2>2. paused' \subseteq {job'[x] : x \in workers'} \ {None}
    BY <1>15, <2>1 DEF RaiseTask, Going, Break
  <2> QED
    BY <1>15, <2>1, <2>2 DEF RaiseTask, Break
<1>16. ASSUME NEW v \in VMs, Continue(v) PROVE TypeOK' /\ PoolInv'
  BY <1>16 DEF Continue
<1>17. CASE UNCHANGED vars
  BY <1>17 DEF vars
<1> QED
  BY <1>1, <1>2, <1>3, <1>4, <1>5, <1>6, <1>7, <1>8, <1>9, <1>10, <1>11, <1>12, <1>13,
     <1>14, <1>15, <1>16, <1>17
  DEF Next, call, worker

\* They hold at first.
LEMMA TypeInit ==
  ASSUME Init
  PROVE  TypeOK /\ PoolInv
<1> USE VmsAssumption, NoneAssumption DEF Init, TypeOK, PoolInv, Operations, Result, Labels
<1>1. staged \subseteq VMs
  OBVIOUS
<1>2. Cardinality(workers) \in Nat
  BY ThreadsAssumption, FS_Subset, FS_CardinalityType
<1> QED
  BY <1>1, <1>2

\* So they always hold.
LEMMA PoolInvariant == Spec => [](TypeOK /\ PoolInv)
BY TypeInit, TypeStep, PTL DEF Spec

\* The values of the variables stay in their ranges, a paused VM has a thread, and the
\* queue of a pool is no longer than its threads are many (ThreadPool.add_task).
THEOREM TypeCorrect == Spec => []TypeOK
BY PoolInvariant, PTL

(***************************************************************************)
(* A call that has the pool for itself.                                    *)
(***************************************************************************)
Named(S) == {r.vm : r \in S}
Empty == queue = << >> /\ \A w \in Threads : job[w] = None
Seen(c) == todo[c] \cup raised \cup Named(results)

\* Each VM of the call is in exactly one place: still to add, in the queue, with a thread,
\* among the results, or among those whose task raised.
Parted(c) ==
    /\ \A i, j \in 1..Len(queue) : queue[i] = queue[j] => i = j
    /\ \A w, x \in Threads : job[w] = job[x] /\ job[w] # None => w = x
    /\ \A i \in 1..Len(queue), w \in Threads : queue[i] # job[w]
    /\ \A i \in 1..Len(queue) : queue[i] \in VmsOf[c] \ Seen(c)
    /\ \A w \in Threads : job[w] # None => job[w] \in VmsOf[c] \ Seen(c)
    /\ raised \subseteq VmsOf[c] /\ Named(results) \subseteq VmsOf[c]
    /\ todo[c] \cap raised = {} /\ todo[c] \cap Named(results) = {}
    /\ raised \cap Named(results) = {}
    /\ \A v \in VmsOf[c] : \/ v \in Seen(c)
                           \/ \E i \in 1..Len(queue) : queue[i] = v
                           \/ \E w \in Threads : job[w] = v

OwnInv ==
    \A c \in Callers : active = {c} =>
        /\ \A d \in Callers : d # c => at[d] = "idle"
        /\ \A w \in Threads : ~stale[w]
        /\ at[c] \in {"idle", "adding", "waiting", "copying", "resetting"} => Parted(c)
        /\ at[c] \in {"idle", "copying", "resetting", "judging", "checking"} => Empty
        /\ at[c] \in {"waiting", "copying", "resetting"} => todo[c] = {}
        /\ at[c] \in {"resetting", "judging", "checking"} => Named(got[c]) = VmsOf[c] \ raised

\* A result more adds its VM to those named.
LEMMA NamedAdd ==
  ASSUME NEW S, NEW v, NEW ok
  PROVE  Named(S \cup {[vm |-> v, ok |-> ok]}) = Named(S) \cup {v}
<1> DEFINE r == [vm |-> v, ok |-> ok]
<1>1. r.vm = v
  OBVIOUS
<1> HIDE DEF r
<1>2. Named(S \cup {r}) = Named(S) \cup {r.vm}
  BY DEF Named
<1> QED
  BY <1>1, <1>2 DEF r

\* The parts stay disjoint when a VM is queued.
LEMMA PartedAdd ==
  ASSUME TypeOK, PoolInv, NEW c \in Callers, Parted(c), AddTask(c)
  PROVE  Parted(c)'
<1> USE DEF TypeOK, PoolInv
<1>1. First(c) \in todo[c] /\ First(c) \in VMs
  BY FirstIsLeft DEF AddTask
<1> DEFINE f == First(c)
<1>2. /\ queue' = Append(queue, f) /\ todo' = [todo EXCEPT ![c] = @ \ {f}]
      /\ UNCHANGED << job, raised, results >>
  BY DEF AddTask, pool, objects
<1>3. f \in todo[c] /\ f \in VMs
  BY <1>1
<1> HIDE DEF f
<1>4. /\ Len(queue') = Len(queue) + 1
      /\ queue'[Len(queue) + 1] = f
      /\ \A i \in 1..Len(queue) : queue'[i] = queue[i]
  BY <1>2, <1>3
<1>5. Named(results)' = Named(results)
  BY <1>2 DEF Named
<1>6. todo'[c] = todo[c] \ {f}
  BY <1>2
<1>7. Seen(c)' = Seen(c) \ {f}
  BY <1>2, <1>3, <1>5, <1>6 DEF Seen, Parted
<1>8. f \in Seen(c)
  BY <1>3 DEF Seen
<1>9. Len(queue) \in Nat
  OBVIOUS
<1>10. f # None
  BY <1>3, NoneAssumption
<1>11. \A i, j \in 1..Len(queue') : queue'[i] = queue'[j] => i = j
  BY <1>4, <1>8, <1>9 DEF Parted
<1>12. \A i \in 1..Len(queue'), w \in Threads : queue'[i] # job'[w]
  BY <1>2, <1>4, <1>8, <1>9, <1>10 DEF Parted
<1>13. \A i \in 1..Len(queue') : queue'[i] \in VmsOf[c] \ Seen(c)'
  BY <1>3, <1>4, <1>7, <1>9 DEF Parted
<1>14. \A v \in VmsOf[c] : \/ v \in Seen(c)'
                           \/ \E i \in 1..Len(queue') : queue'[i] = v
                           \/ \E w \in Threads : job'[w] = v
  <2> SUFFICES ASSUME NEW v \in VmsOf[c], v \notin Seen(c)'
               PROVE  \/ \E i \in 1..Len(queue') : queue'[i] = v
                      \/ \E w \in Threads : job'[w] = v
    OBVIOUS
  <2>1. CASE v = f
    <3>1. Len(queue) + 1 \in 1..Len(queue')
      BY <1>4, <1>9
    <3> QED
      BY <1>4, <2>1, <3>1
  <2>2. CASE v # f
    BY <1>2, <1>4, <1>7, <1>9, <2>2 DEF Parted
  <2> QED
    BY <2>1, <2>2
<1>15. /\ \A w, x \in Threads : job'[w] = job'[x] /\ job'[w] # None => w = x
       /\ \A w \in Threads : job'[w] # None => job'[w] \in VmsOf[c] \ Seen(c)'
  BY <1>2, <1>7 DEF Parted
<1>16. /\ raised' \subseteq VmsOf[c] /\ Named(results)' \subseteq VmsOf[c]
       /\ todo'[c] \cap raised' = {} /\ todo'[c] \cap Named(results)' = {}
       /\ raised' \cap Named(results)' = {}
  BY <1>2, <1>5, <1>6 DEF Parted
<1> QED
  BY <1>11, <1>12, <1>13, <1>14, <1>15, <1>16 DEF Parted

\* They stay disjoint when a thread takes a VM.
LEMMA PartedTake ==
  ASSUME TypeOK, NEW c \in Callers, Parted(c), NEW w \in Threads, Take(w)
  PROVE  Parted(c)'
<1> USE DEF TypeOK
<1>1. /\ queue # << >> /\ job[w] = None
      /\ job' = [job EXCEPT ![w] = Head(queue)] /\ queue' = Tail(queue)
      /\ UNCHANGED << todo, raised, results >>
  BY DEF Take, calls, objects
<1>2. /\ Len(queue') = Len(queue) - 1 /\ Len(queue) \in Nat /\ Len(queue) > 0
      /\ \A i \in 1..Len(queue') : queue'[i] = queue[i + 1]
      /\ job'[w] = queue[1]
      /\ \A x \in Threads : x # w => job'[x] = job[x]
  BY <1>1
<1>3. Seen(c)' = Seen(c) /\ Named(results)' = Named(results)
  BY <1>1 DEF Seen, Named
<1>4. \A i, j \in 1..Len(queue') : queue'[i] = queue'[j] => i = j
  BY <1>2 DEF Parted
<1>5. \A y, x \in Threads : job'[y] = job'[x] /\ job'[y] # None => y = x
  BY <1>2 DEF Parted
<1>6. \A i \in 1..Len(queue'), x \in Threads : queue'[i] # job'[x]
  BY <1>2 DEF Parted
<1>7. \A i \in 1..Len(queue') : queue'[i] \in VmsOf[c] \ Seen(c)
  BY <1>2 DEF Parted
<1>8. \A x \in Threads : job'[x] # None => job'[x] \in VmsOf[c] \ Seen(c)
  BY <1>2 DEF Parted
<1>9. \A v \in VmsOf[c] : \/ v \in Seen(c)
                          \/ \E i \in 1..Len(queue') : queue'[i] = v
                          \/ \E x \in Threads : job'[x] = v
  <2> SUFFICES ASSUME NEW v \in VmsOf[c], v \notin Seen(c)
               PROVE  \/ \E i \in 1..Len(queue') : queue'[i] = v
                      \/ \E x \in Threads : job'[x] = v
    OBVIOUS
  <2>1. CASE \E x \in Threads : job[x] = v
    <3>1. PICK x \in Threads : job[x] = v
      BY <2>1
    <3>2. v # None
      BY NoneAssumption, VmsAssumption
    <3> QED
      BY <1>1, <1>2, <3>1, <3>2
  <2>2. CASE \E i \in 1..Len(queue) : queue[i] = v
    <3>1. PICK i \in 1..Len(queue) : queue[i] = v
      BY <2>2
    <3>2. CASE i = 1
      BY <1>2, <3>1, <3>2
    <3>3. CASE i # 1
      <4>1. i - 1 \in 1..Len(queue') /\ queue'[i - 1] = v
        BY <1>2, <3>1, <3>3
      <4> QED
        BY <4>1
    <3> QED
      BY <3>2, <3>3
  <2> QED
    BY <2>1, <2>2 DEF Parted
<1>10. /\ raised' \subseteq VmsOf[c] /\ Named(results)' \subseteq VmsOf[c]
       /\ todo'[c] \cap raised' = {} /\ todo'[c] \cap Named(results)' = {}
       /\ raised' \cap Named(results)' = {}
  BY <1>1, <1>3 DEF Parted
<1>11. /\ \A i \in 1..Len(queue') : queue'[i] \in VmsOf[c] \ Seen(c)'
       /\ \A x \in Threads : job'[x] # None => job'[x] \in VmsOf[c] \ Seen(c)'
       /\ \A v \in VmsOf[c] : \/ v \in Seen(c)'
                              \/ \E i \in 1..Len(queue') : queue'[i] = v
                              \/ \E x \in Threads : job'[x] = v
  BY <1>3, <1>7, <1>8, <1>9
<1> HIDE DEF TypeOK
<1> QED
  BY <1>4, <1>5, <1>6, <1>10, <1>11, Zenon DEF Parted

\* A task that ends goes from its thread to the results or to those that raised.
LEMMA PartedEnd ==
  ASSUME TypeOK, TypeOK', NEW c \in Callers, Parted(c), NEW w \in Threads, job[w] # None,
         job' = [job EXCEPT ![w] = None], UNCHANGED << queue, todo >>,
         \/ raised' = raised /\ Named(results)' = Named(results) \cup {job[w]}
         \/ raised' = raised \cup {job[w]} /\ Named(results)' = Named(results)
  PROVE  Parted(c)'
<1> USE DEF TypeOK
<1>1. Seen(c)' = Seen(c) \cup {job[w]}
  BY DEF Seen
<1>2. job'[w] = None /\ \A x \in Threads : x # w => job'[x] = job[x]
  OBVIOUS
<1>3. job[w] \in VmsOf[c] /\ job[w] \notin Seen(c)
  BY DEF Parted
<1>4. job[w] \notin todo[c] /\ job[w] \notin raised /\ job[w] \notin Named(results)
  BY <1>3 DEF Seen
<1>5. \A i \in 1..Len(queue) : queue[i] # None
  BY NoneAssumption
<1>6. \A y, x \in Threads : job'[y] = job'[x] /\ job'[y] # None => y = x
  BY <1>2 DEF Parted
<1>7. \A i \in 1..Len(queue), x \in Threads : queue[i] # job'[x]
  BY <1>2, <1>5 DEF Parted
<1>8. \A i \in 1..Len(queue) : queue[i] \in VmsOf[c] \ Seen(c)'
  BY <1>1 DEF Parted
<1>9. \A x \in Threads : job'[x] # None => job'[x] \in VmsOf[c] \ Seen(c)'
  BY <1>1, <1>2 DEF Parted
<1>10. \A v \in VmsOf[c] : \/ v \in Seen(c)'
                           \/ \E i \in 1..Len(queue) : queue[i] = v
                           \/ \E x \in Threads : job'[x] = v
  BY <1>1, <1>2 DEF Parted
<1>11. /\ raised' \subseteq VmsOf[c] /\ Named(results)' \subseteq VmsOf[c]
       /\ todo[c] \cap raised' = {} /\ todo[c] \cap Named(results)' = {}
       /\ raised' \cap Named(results)' = {}
  BY <1>3, <1>4 DEF Parted
<1>12. /\ \A i, j \in 1..Len(queue) : queue[i] = queue[j] => i = j
  BY DEF Parted
<1> QED
  BY <1>6, <1>7, <1>8, <1>9, <1>10, <1>11, <1>12 DEF Parted

\* When no task is unfinished, no queue and no thread has one.
LEMMA NothingUnfinished ==
  ASSUME TypeOK, PoolInv, Unfinished = 0
  PROVE  Empty
<1> DEFINE busy == {w \in workers : job[w] # None}
<1>1. IsFiniteSet(busy)
  BY ThreadsAssumption, FS_Subset DEF TypeOK
<1>2. Cardinality(busy) \in Nat /\ (Cardinality(busy) = 0 => busy = {})
  BY <1>1, FS_CardinalityType, FS_EmptySet
<1>3. Len(queue) \in Nat
  BY DEF TypeOK
<1>4. Len(queue) + Cardinality(busy) = 0
  BY DEF Unfinished
<1> HIDE DEF busy
<1>5. Len(queue) = 0 /\ Cardinality(busy) = 0
  BY <1>2, <1>3, <1>4
<1>6. queue = << >>
  BY <1>5 DEF TypeOK
<1>7. \A w \in workers : job[w] = None
  BY <1>2, <1>5 DEF busy
<1> QED
  BY <1>6, <1>7 DEF Empty, PoolInv

\* What holds of a call that has the pool for itself is kept by every step.
LEMMA OwnStep ==
  ASSUME TypeOK, PoolInv, TypeOK', OwnInv, [Next]_vars
  PROVE  OwnInv'
<1> SUFFICES ASSUME NEW c \in Callers, active' = {c}
             PROVE  /\ \A d \in Callers : d # c => at'[d] = "idle"
                    /\ \A w \in Threads : ~stale'[w]
                    /\ at'[c] \in {"idle", "adding", "waiting", "copying", "resetting"}
                           => Parted(c)'
                    /\ at'[c] \in {"idle", "copying", "resetting", "judging", "checking"}
                           => Empty'
                    /\ at'[c] \in {"waiting", "copying", "resetting"} => todo'[c] = {}
                    /\ at'[c] \in {"resetting", "judging", "checking"} =>
                           Named(got[c])' = VmsOf[c] \ raised'
  BY DEF OwnInv
<1> DEFINE own == /\ \A d \in Callers : d # c => at[d] = "idle"
                  /\ \A w \in Threads : ~stale[w]
                  /\ at[c] \in {"idle", "adding", "waiting", "copying", "resetting"}
                         => Parted(c)
                  /\ at[c] \in {"idle", "copying", "resetting", "judging", "checking"}
                         => Empty
                  /\ at[c] \in {"waiting", "copying", "resetting"} => todo[c] = {}
                  /\ at[c] \in {"resetting", "judging", "checking"} =>
                         Named(got[c]) = VmsOf[c] \ raised
<1>0. active = {c}
  BY DEF Next, vars, choices, calls, pool, objects, call, worker, Begin, AddTask, Poll, Copy,
         Reset, Judge, Check, Abort, Aborted, Take, Pause, PauseEnds, Succeed, FailTask,
         RaiseTask, Continue, Finish, Break
<1> USE <1>0
<1>own. own
  BY DEF OwnInv
<1> HIDE DEF own
<1> USE DEF TypeOK, choices, calls, pool, objects
<1>same. ASSUME UNCHANGED << todo, queue, results, job, raised >>
         PROVE  Parted(c)' <=> Parted(c)
  <2>1. Seen(c)' = Seen(c) /\ Named(results)' = Named(results)
    BY <1>same DEF Seen, Named
  <2> QED
    BY <1>same, <2>1 DEF Parted
<1>1. ASSUME NEW d \in Callers, Begin(d) PROVE own'
  <2>1. d = c /\ at[c] = "idle"
    BY <1>1 DEF Begin
  <2>2. at'[c] \in {"adding", "returned"} /\ \A e \in Callers : e # c => at'[e] = at[e]
    BY <1>1, <2>1 DEF Begin, Goto, Return
  <2>3. UNCHANGED << todo, got, queue, results, job, stale, raised >>
    BY <1>1 DEF Begin
  <2> QED
    BY <1>own, <1>same, <2>1, <2>2, <2>3 DEF own
<1>2. ASSUME NEW d \in Callers, AddTask(d) PROVE own'
  <2>1. d = c /\ at[c] = "adding"
    BY <1>2, <1>own DEF AddTask, own
  <2>2. Parted(c)'
    BY <1>2, <1>own, <2>1, PartedAdd DEF own
  <2>3. /\ at'[c] = IF todo[c] = {First(c)} THEN "waiting" ELSE "adding"
        /\ todo'[c] = todo[c] \ {First(c)}
        /\ \A e \in Callers : e # c => at'[e] = at[e]
        /\ UNCHANGED << stale >>
    BY <1>2, <2>1 DEF AddTask, Goto
  <2> QED
    BY <1>own, <2>1, <2>2, <2>3 DEF own
<1>3. ASSUME NEW d \in Callers, Poll(d) PROVE own'
  <2>1. d = c /\ at[c] = "waiting" /\ Unfinished = 0
    BY <1>3, <1>own DEF Poll, own
  <2>2. Empty
    BY <2>1, NothingUnfinished
  <2>3. /\ UNCHANGED << todo, got, queue, results, job, stale, raised >>
        /\ at'[c] = "copying" /\ \A e \in Callers : e # c => at'[e] = at[e]
    BY <1>3, <2>1 DEF Poll, Goto
  <2>4. Empty'
    BY <2>2, <2>3 DEF Empty
  <2> QED
    BY <1>own, <1>same, <2>1, <2>3, <2>4 DEF own
<1>4. ASSUME NEW d \in Callers, Copy(d) PROVE own'
  <2>1. d = c /\ at[c] = "copying"
    BY <1>4, <1>own DEF Copy, own
  <2>2. /\ UNCHANGED << todo, queue, results, job, stale, raised >>
        /\ at'[c] = "resetting" /\ \A e \in Callers : e # c => at'[e] = at[e]
        /\ got'[c] = results
    BY <1>4, <2>1 DEF Copy, Goto
  <2>3. Parted(c) /\ Empty /\ todo[c] = {}
    BY <1>own, <2>1 DEF own
  <2>4. VmsOf[c] \subseteq raised \cup Named(results)
    BY <2>3, NoneAssumption, VmsAssumption DEF Parted, Empty, Seen
  <2>5. Named(results) = VmsOf[c] \ raised
    BY <2>3, <2>4 DEF Parted
  <2>6. Named(got[c])' = VmsOf[c] \ raised'
    BY <2>2, <2>5 DEF Named
  <2>7. Empty'
    BY <2>2, <2>3 DEF Empty
  <2> QED
    BY <1>own, <1>same, <2>2, <2>3, <2>6, <2>7 DEF own
<1>5. ASSUME NEW d \in Callers, Reset(d) PROVE own'
  <2>1. d = c /\ at[c] = "resetting"
    BY <1>5, <1>own DEF Reset, own
  <2>2. /\ UNCHANGED << todo, got, queue, job, raised >>
        /\ at'[c] = "judging" /\ \A e \in Callers : e # c => at'[e] = at[e]
        /\ stale' = [w \in Threads |-> stale[w] \/ job[w] # None]
    BY <1>5, <2>1 DEF Reset, Goto
  <2>3. Empty /\ Named(got[c]) = VmsOf[c] \ raised
    BY <1>own, <2>1 DEF own
  <2>4. \A w \in Threads : ~stale'[w]
    BY <1>own, <2>2, <2>3 DEF own, Empty
  <2>5. Empty' /\ Named(got[c])' = VmsOf[c] \ raised'
    BY <2>2, <2>3 DEF Empty, Named
  <2> QED
    BY <1>own, <2>2, <2>4, <2>5 DEF own
<1>6. ASSUME NEW d \in Callers, Judge(d) PROVE own'
  <2>1. d = c /\ at[c] = "judging"
    BY <1>6, <1>own DEF Judge, own
  <2>2. /\ UNCHANGED << got, queue, job, stale, raised >>
        /\ at'[c] \in {"returned", "checking"} /\ \A e \in Callers : e # c => at'[e] = at[e]
    BY <1>6, <2>1 DEF Judge, Goto, Return
  <2>3. Empty /\ Named(got[c]) = VmsOf[c] \ raised
    BY <1>own, <2>1 DEF own
  <2>4. Empty' /\ Named(got[c])' = VmsOf[c] \ raised'
    BY <2>2, <2>3 DEF Empty, Named
  <2> QED
    BY <1>own, <2>2, <2>4 DEF own
<1>7. ASSUME NEW d \in Callers, Check(d) PROVE own'
  <2>1. d = c /\ at[c] = "checking"
    BY <1>7, <1>own DEF Check, own
  <2>2. /\ UNCHANGED << got, queue, job, stale, raised >>
        /\ at'[c] \in {"returned", "checking"} /\ \A e \in Callers : e # c => at'[e] = at[e]
    BY <1>7, <2>1 DEF Check, Goto, Return
  <2>3. Empty /\ Named(got[c]) = VmsOf[c] \ raised
    BY <1>own, <2>1 DEF own
  <2>4. Empty' /\ Named(got[c])' = VmsOf[c] \ raised'
    BY <2>2, <2>3 DEF Empty, Named
  <2> QED
    BY <1>own, <2>2, <2>4 DEF own
<1>8. ASSUME NEW d \in Callers, Abort(d) \/ Aborted(d) PROVE own'
  <2>1. d = c
    BY <1>8, <1>own DEF Abort, Aborted, own
  <2>2. /\ UNCHANGED << stale >>
        /\ at'[c] \in {"returned", "aborting"} /\ \A e \in Callers : e # c => at'[e] = at[e]
    BY <1>8, <2>1 DEF Abort, Aborted, Goto, Return
  <2> QED
    BY <1>own, <2>2 DEF own
<1>busy. ASSUME NEW w \in Threads, job[w] # None
         PROVE  at[c] \notin {"idle", "copying", "resetting", "judging", "checking"}
  BY <1>own, <1>busy DEF own, Empty
<1>9. ASSUME NEW w \in Threads, Take(w) PROVE own'
  <2>1. queue # << >> /\ UNCHANGED << at, todo >> /\ \A x \in Threads : ~stale'[x]
    BY <1>9, <1>own DEF Take, own
  <2>2. at[c] \notin {"idle", "copying", "resetting", "judging", "checking"}
    BY <1>own, <2>1 DEF own, Empty
  <2>3. Parted(c) => Parted(c)'
    BY <1>9, PartedTake
  <2> QED
    BY <1>own, <2>1, <2>2, <2>3 DEF own
<1>end. ASSUME NEW w \in Threads, job[w] # None,
               job' = [job EXCEPT ![w] = None], UNCHANGED << at, todo, queue, stale >>,
               \/ raised' = raised /\ Named(results)' = Named(results) \cup {job[w]}
               \/ raised' = raised \cup {job[w]} /\ Named(results)' = Named(results)
        PROVE  own'
  <2>1. at[c] \notin {"idle", "copying", "resetting", "judging", "checking"}
    BY <1>end, <1>busy
  <2>2. Parted(c) => Parted(c)'
    BY <1>end, PartedEnd
  <2> QED
    BY <1>own, <1>end, <2>1, <2>2 DEF own
<1>fin. ASSUME NEW w \in Threads, NEW ok \in BOOLEAN, job[w] # None, Finish(w, ok)
        PROVE  Named(results)' = Named(results) \cup {job[w]}
  <2>1. results' = results \cup {[vm |-> job[w], ok |-> ok]}
    BY <1>fin, <1>own DEF Finish, AppendResult, own
  <2> QED
    BY <2>1, NamedAdd
<1>10. ASSUME NEW w \in Threads, PauseEnds(w) PROVE own'
  <2>1. job[w] # None
    BY <1>10 DEF PauseEnds
  <2>2. Finish(w, FALSE)
    BY <1>10 DEF PauseEnds
  <2> QED
    BY <1>10, <1>end, <1>fin, <2>1, <2>2 DEF PauseEnds, Finish
<1>11. ASSUME NEW w \in Threads, Succeed(w) PROVE own'
  <2>1. job[w] # None /\ Finish(w, TRUE)
    BY <1>11 DEF Succeed, Going
  <2> QED
    BY <1>11, <1>end, <1>fin, <2>1 DEF Succeed, Finish
<1>12. ASSUME NEW w \in Threads, FailTask(w) PROVE own'
  <2>1. job[w] # None /\ Finish(w, FALSE)
    BY <1>12 DEF FailTask, Going
  <2> QED
    BY <1>12, <1>end, <1>fin, <2>1 DEF FailTask, Finish
<1>13. ASSUME NEW w \in Threads, RaiseTask(w) PROVE own'
  <2>1. job[w] # None
    BY <1>13 DEF RaiseTask, Going
  <2>2. Named(results)' = Named(results)
    BY <1>13 DEF RaiseTask, Break, Named
  <2> QED
    BY <1>13, <1>end, <2>1, <2>2 DEF RaiseTask, Break
<1>14. ASSUME UNCHANGED << calls, queue, results, job, stale, raised >> PROVE own'
  <2>1. Named(got[c])' = Named(got[c]) /\ Empty' = Empty
    BY <1>14 DEF Named, Empty
  <2> QED
    BY <1>14, <1>own, <1>same, <2>1 DEF own
<1>15. ASSUME NEW w \in Threads, Pause(w) PROVE own'
  BY <1>14, <1>15 DEF Pause
<1>16. ASSUME NEW v \in VMs, Continue(v) PROVE own'
  BY <1>14, <1>16 DEF Continue
<1>17. ASSUME UNCHANGED vars PROVE own'
  <2>1. UNCHANGED << calls, queue, results, job, stale, raised >>
    BY <1>17 DEF vars
  <2> QED
    BY <1>14, <2>1
<1>18. ASSUME NEW d \in Callers, Begin(d) \/ call(d) \/ Abort(d) PROVE own'
  BY <1>1, <1>2, <1>3, <1>4, <1>5, <1>6, <1>7, <1>8, <1>18 DEF call
<1>19. ASSUME NEW w \in Threads, worker(w) PROVE own'
  BY <1>9, <1>10, <1>11, <1>12, <1>13, <1>15, <1>19 DEF worker
<1>20. own'
  BY <1>16, <1>17, <1>18, <1>19 DEF Next
<1> QED
  BY <1>20 DEF own

\* It holds at first.
LEMMA OwnInit ==
  ASSUME Init
  PROVE  OwnInv
<1> SUFFICES ASSUME NEW c \in Callers PROVE Parted(c) /\ Empty
  BY DEF Init, OwnInv
<1>1. /\ queue = << >> /\ results = {} /\ raised = {} /\ todo = VmsOf
      /\ \A w \in Threads : job[w] = None
  BY DEF Init
<1>2. Named(results) = {} /\ Seen(c) = VmsOf[c]
  BY <1>1 DEF Named, Seen
<1> QED
  BY <1>1, <1>2 DEF Parted, Empty

\* So it always holds.
LEMMA OwnInvariant == Spec => [](TypeOK /\ PoolInv /\ OwnInv)
BY TypeInit, TypeStep, OwnInit, OwnStep, PTL DEF Spec

\* The invariant is stronger than the property.
LEMMA OwnInvImpliesOwnResults == OwnInv => OwnResults
BY DEF OwnInv, OwnResults, Named

\* A call that has the pool for itself gets the results of all its tasks, those that
\* raised apart, and of no others (ThreadPool.wait_completion, Worker.run).
THEOREM ResultsAreOwn == Spec => []OwnResults
BY OwnInvariant, OwnInvImpliesOwnResults, PTL

(***************************************************************************)
(* A call looks for itself before it reports success.                      *)
(***************************************************************************)
Unsure(c) == TooMany(c) \/ (op = "detach" /\ (active # {c} \/ raised # {}))

\* A good result is of an object that is as it should be; an object that was looked at is
\* so too; and the only successes without are those of vmrunstateall, and of a detach
\* that shares its pool or has a task that raised.
LookInv ==
    /\ \A r \in results : r.ok => r.vm \in done
    /\ \A c \in Callers : \A r \in got[c] : r.ok => r.vm \in done
    /\ \A c \in Callers : at[c] = "checking" => /\ \A r \in got[c] : r.ok
                                                /\ VmsOf[c] \ todo[c] \subseteq done
    /\ \A c \in Callers : reported[c] = "success" => VmsOf[c] \subseteq done \/ Unsure(c)

\* An unsure caller stays unsure, and what was done stays done.
LEMMA UnsureKept ==
  ASSUME [Next]_vars
  PROVE  /\ \A c \in Callers : Unsure(c) => Unsure(c)'
         /\ done \subseteq done'
<1>1. UNCHANGED choices /\ raised \subseteq raised' /\ done \subseteq done'
  BY DEF Next, vars, calls, pool, objects, call, worker, Begin, AddTask, Poll, Copy, Reset,
         Judge, Check, Abort, Aborted, Take, Pause, PauseEnds, Succeed, FailTask, RaiseTask,
         Continue, Finish, Break
<1> QED
  BY <1>1 DEF Unsure, TooMany, choices

\* Every step keeps LookInv.
LEMMA LookStep ==
  ASSUME TypeOK, PoolInv, OwnInv, LookInv, [Next]_vars
  PROVE  LookInv'
<1> USE DEF TypeOK, choices, calls, pool, objects
<1>0. /\ done \subseteq done'
      /\ \A c \in Callers : Unsure(c) => Unsure(c)'
  BY UnsureKept
<1>calls. ASSUME UNCHANGED << at, todo, got, reported, results >> PROVE LookInv'
  BY <1>0, <1>calls DEF LookInv
<1>1. ASSUME NEW c \in Callers, Begin(c) PROVE LookInv'
  <2>1. CASE Goto(c, "adding") /\ UNCHANGED reported
    BY <1>0, <1>1, <2>1 DEF Begin, Goto, LookInv
  <2>2. CASE TooMany(c) /\ Return(c, "success")
    BY <1>0, <1>1, <2>2 DEF Begin, Goto, Return, LookInv, Unsure
  <2> QED
    BY <1>1, <2>1, <2>2 DEF Begin
<1>2. ASSUME NEW c \in Callers, AddTask(c) PROVE LookInv'
  BY <1>0, <1>2 DEF AddTask, Goto, LookInv
<1>3. ASSUME NEW c \in Callers, Poll(c) PROVE LookInv'
  BY <1>0, <1>3 DEF Poll, Goto, LookInv
<1>4. ASSUME NEW c \in Callers, Copy(c) PROVE LookInv'
  BY <1>0, <1>4 DEF Copy, Goto, LookInv
<1>5. ASSUME NEW c \in Callers, Reset(c) PROVE LookInv'
  BY <1>0, <1>5 DEF Reset, Goto, LookInv
<1>6. ASSUME NEW c \in Callers, Judge(c) PROVE LookInv'
  <2>1. CASE Return(c, "failure") /\ UNCHANGED todo
    BY <1>0, <1>6, <2>1 DEF Judge, Goto, Return, LookInv
  <2>2. CASE /\ \A r \in got[c] : r.ok
             /\ Goto(c, "checking") /\ todo' = [todo EXCEPT ![c] = VmsOf[c]]
             /\ UNCHANGED reported
    BY <1>0, <1>6, <2>2 DEF Judge, Goto, LookInv
  <2> QED
    BY <1>6, <2>1, <2>2 DEF Judge
<1>7. ASSUME NEW c \in Callers, Check(c) PROVE LookInv'
  <2>1. CASE todo[c] = {} /\ Return(c, "success") /\ UNCHANGED todo
    <3>1. VmsOf[c] \subseteq done
      BY <1>7, <2>1 DEF Check, LookInv
    <3> QED
      BY <1>0, <1>7, <2>1, <3>1 DEF Check, Goto, Return, LookInv
  <2>2. CASE /\ First(c) \in done
             /\ todo' = [todo EXCEPT ![c] = @ \ {First(c)}]
             /\ UNCHANGED << at, reported >>
    <3> DEFINE f == First(c)
    <3>1. f \in done /\ todo' = [todo EXCEPT ![c] = @ \ {f}]
      BY <2>2
    <3> HIDE DEF f
    <3>2. \A d \in Callers : at'[d] = "checking" => VmsOf[d] \ todo'[d] \subseteq done
      BY <2>2, <3>1 DEF LookInv
    <3> QED
      BY <1>0, <1>7, <2>2, <3>2 DEF Check, LookInv
  <2>3. CASE Return(c, Verdict) /\ UNCHANGED todo
    <3>1. Verdict = "success" => VmsOf[c] \subseteq done \/ Unsure(c)
      <4> SUFFICES ASSUME op = "detach", active = {c}, raised = {}
                   PROVE  VmsOf[c] \subseteq done
        BY DEF Verdict, Unsure
      <4>1. Named(got[c]) = VmsOf[c] \ raised
        BY <1>7 DEF Check, OwnInv
      <4>2. \A r \in got[c] : r.vm \in done
        BY <1>7 DEF Check, LookInv
      <4> QED
        BY <4>1, <4>2 DEF Named
    <3>2. Verdict \in {"success", "failure"}
      BY DEF Verdict
    <3> QED
      BY <1>0, <1>7, <2>3, <3>1, <3>2 DEF Check, Goto, Return, LookInv
  <2> QED
    BY <1>7, <2>1, <2>2, <2>3 DEF Check
<1>8. ASSUME NEW c \in Callers, Abort(c) PROVE LookInv'
  BY <1>0, <1>8 DEF Abort, Goto, LookInv
<1>9. ASSUME NEW c \in Callers, Aborted(c) PROVE LookInv'
  BY <1>0, <1>9 DEF Aborted, Goto, Return, LookInv
<1>fin. ASSUME NEW w \in Threads, NEW ok \in BOOLEAN, ok => job[w] \in done', Finish(w, ok)
        PROVE  LookInv'
  <2> DEFINE r == [vm |-> job[w], ok |-> ok]
  <2>1. r.vm = job[w] /\ r.ok = ok
    OBVIOUS
  <2>2. results' \subseteq results \cup {r} /\ UNCHANGED << at, todo, got, reported >>
    BY <1>fin DEF Finish, AppendResult
  <2> HIDE DEF r
  <2>3. \A q \in results' : q.ok => q.vm \in done'
    BY <1>0, <1>fin, <2>1, <2>2 DEF LookInv
  <2> QED
    BY <1>0, <2>2, <2>3 DEF LookInv
<1>10. ASSUME NEW w \in Threads, worker(w) PROVE LookInv'
  <2>1. CASE Take(w)
    BY <1>calls, <2>1 DEF Take
  <2>2. CASE Pause(w)
    BY <1>calls, <2>2 DEF Pause
  <2>3. CASE PauseEnds(w)
    BY <1>fin, <2>3 DEF PauseEnds
  <2>4. CASE Succeed(w)
    BY <1>fin, <2>4 DEF Succeed
  <2>5. CASE FailTask(w)
    BY <1>fin, <2>5 DEF FailTask
  <2>6. CASE RaiseTask(w)
    BY <1>calls, <2>6 DEF RaiseTask, Break
  <2> QED
    BY <1>10, <2>1, <2>2, <2>3, <2>4, <2>5, <2>6 DEF worker
<1>11. ASSUME NEW v \in VMs, Continue(v) PROVE LookInv'
  BY <1>calls, <1>11 DEF Continue
<1>12. CASE UNCHANGED vars
  <2>1. UNCHANGED << at, todo, got, reported, results >>
    BY <1>12 DEF vars
  <2> QED
    BY <1>calls, <2>1
<1>13. ASSUME NEW c \in Callers, Begin(c) \/ call(c) \/ Abort(c) PROVE LookInv'
  BY <1>1, <1>2, <1>3, <1>4, <1>5, <1>6, <1>7, <1>8, <1>9, <1>13 DEF call
<1> QED
  BY <1>10, <1>11, <1>12, <1>13 DEF Next

\* It holds at first.
LEMMA LookInit == Init => LookInv
BY DEF Init, LookInv

\* The invariant is stronger than the property.
LEMMA LookInvImpliesSuccessIsTrue == LookInv => SuccessIsTrue
BY DEF LookInv, SuccessIsTrue, Unsure

\* A call reports success only if every object is as the operation wants it, but for
\* vmrunstateall and for a detach that shares its pool or has a task that raised
\* (the look at every object at the end of parallel_obj_operation).
THEOREM SuccessHolds == Spec => []SuccessIsTrue
<1>1. TypeOK /\ PoolInv /\ OwnInv /\ LookInv /\ [Next]_vars => LookInv'
  BY LookStep
<1> QED
  BY <1>1, OwnInvariant, LookInit, LookInvImpliesSuccessIsTrue, PTL DEF Spec
=============================================================================
