--------------------------- MODULE StoreLock_proofs ---------------------------
(***************************************************************************)
(* Safety of the store lock for any number of callers, any time to live    *)
(* and any bound on the critical sections below it, crashes included.      *)
(***************************************************************************)
EXTENDS StoreLock, TLAPS

\* What holds between the key and the callers as long as every critical section is
\* shorter than the time to live: a caller past its SETNX owns the key, a caller inside
\* owns it with exactly the rest of its lease left.
LockInv ==
    /\ TypeOK
    /\ \A c \in Caller :
        /\ pc[c] \in {"idle", "sleep", "verify", "expire"} => held[c] = 0
        /\ pc[c] \in {"verify", "expire"} => key = c /\ ttl = 0
        /\ Inside(c) => key = c /\ ttl = Timout - held[c]

\* The values of the variables stay in their ranges (acquire_lock, release_lock).
THEOREM TypeCorrect == Spec => []TypeOK
<1> USE LockAssumption DEF TypeOK, PC
<1>1. Init => TypeOK
  BY DEF Init
<1>2. TypeOK /\ [Next]_vars => TypeOK'
  <2> SUFFICES ASSUME TypeOK, [Next]_vars PROVE TypeOK'
    OBVIOUS
  <2>1. CASE Tick
    BY <2>1 DEF Tick, Patient, Inside
  <2>2. ASSUME NEW c \in Caller, FirstTry(c) PROVE TypeOK'
    BY <2>2 DEF FirstTry, SetNX, Goto
  <2>3. ASSUME NEW c \in Caller, Retry(c) PROVE TypeOK'
    BY <2>3 DEF Retry, SetNX, Goto, AfterRetry
  <2>4. ASSUME NEW c \in Caller, Verify(c) PROVE TypeOK'
    BY <2>4 DEF Verify, Goto
  <2>5. ASSUME NEW c \in Caller, SetExpire(c) PROVE TypeOK'
    BY <2>5 DEF SetExpire, Goto
  <2>6. ASSUME NEW c \in Caller, CheckOwner(c) PROVE TypeOK'
    BY <2>6 DEF CheckOwner, Goto
  <2>7. ASSUME NEW c \in Caller, Delete(c) PROVE TypeOK'
    BY <2>7 DEF Delete, Goto
  <2>8. ASSUME NEW c \in Caller, Crash(c) PROVE TypeOK'
    BY <2>8 DEF Crash, Goto
  <2>9. CASE UNCHANGED vars
    BY <2>9 DEF vars
  <2> QED
    BY <2>1, <2>2, <2>3, <2>4, <2>5, <2>6, <2>7, <2>8, <2>9
    DEF Next, acquire_lock, release_lock
<1> QED
  BY <1>1, <1>2, PTL DEF Spec

\* One step keeps the lock invariant when critical sections are shorter than the lease.
LEMMA LockInvStep ==
  ASSUME MaxHold < Timout, LockInv, TypeOK', [Next]_vars
  PROVE  LockInv'
<1> USE LockAssumption DEF LockInv, TypeOK, Inside
<1>1. CASE Tick
  BY <1>1 DEF Tick, Patient
<1>2. ASSUME NEW c \in Caller, FirstTry(c) PROVE LockInv'
  BY <1>2 DEF FirstTry, SetNX, Goto
<1>3. ASSUME NEW c \in Caller, Retry(c) PROVE LockInv'
  BY <1>3 DEF Retry, SetNX, Goto, AfterRetry
<1>4. ASSUME NEW c \in Caller, Verify(c) PROVE LockInv'
  BY <1>4 DEF Verify, Goto
<1>5. ASSUME NEW c \in Caller, SetExpire(c) PROVE LockInv'
  BY <1>5 DEF SetExpire, Goto
<1>6. ASSUME NEW c \in Caller, CheckOwner(c) PROVE LockInv'
  BY <1>6 DEF CheckOwner, Goto
<1>7. ASSUME NEW c \in Caller, Delete(c) PROVE LockInv'
  BY <1>7 DEF Delete, Goto
<1>8. ASSUME NEW c \in Caller, Crash(c) PROVE LockInv'
  BY <1>8 DEF Crash, Goto
<1>9. CASE UNCHANGED vars
  BY <1>9 DEF vars
<1> QED
  BY <1>1, <1>2, <1>3, <1>4, <1>5, <1>6, <1>7, <1>8, <1>9
  DEF Next, acquire_lock, release_lock

\* The lock invariant holds throughout (acquire_lock and release_lock under the
\* assumption on critical sections).
THEOREM LockInvariant == ASSUME MaxHold < Timout PROVE Spec => []LockInv
<1>1. Init => LockInv
  BY LockAssumption DEF Init, LockInv, TypeOK, PC, Inside
<1>2. LockInv /\ TypeOK' /\ [Next]_vars => LockInv'
  BY LockInvStep
<1> QED
  BY <1>1, <1>2, TypeCorrect, PTL DEF Spec

\* Two callers told they own the lock are never inside together.
THEOREM Exclusive == ASSUME MaxHold < Timout PROVE Spec => []MutualExclusion
<1>1. LockInv => MutualExclusion
  BY DEF LockInv, MutualExclusion
<1> QED
  BY <1>1, LockInvariant, PTL

\* A live owner loses the lock only by its own DELETE.
THEOREM NotStolen == ASSUME MaxHold < Timout PROVE Spec => NoStolenLock
<1> DEFINE Kept == \A c \in Caller :
                      key = c /\ pc[c] \in {"verify", "expire", "held", "delete"} /\ key' # c
                          => pc[c] = "delete" /\ pc'[c] = "done"
<1>1. LockInv /\ [Next]_vars => [Kept]_vars
  <2> SUFFICES ASSUME LockInv, [Next]_vars PROVE [Kept]_vars
    OBVIOUS
  <2> USE LockAssumption DEF LockInv, TypeOK, Inside
  <2>1. CASE Tick
    BY <2>1 DEF Tick
  <2>2. ASSUME NEW c \in Caller, FirstTry(c) PROVE Kept
    BY <2>2 DEF FirstTry, SetNX, Goto
  <2>3. ASSUME NEW c \in Caller, Retry(c) PROVE Kept
    BY <2>3 DEF Retry, SetNX, Goto, AfterRetry
  <2>4. ASSUME NEW c \in Caller, Verify(c) \/ SetExpire(c) \/ CheckOwner(c) \/ Crash(c)
        PROVE Kept
    BY <2>4 DEF Verify, SetExpire, CheckOwner, Crash
  <2>5. ASSUME NEW c \in Caller, Delete(c) PROVE Kept
    BY <2>5 DEF Delete, Goto
  <2> QED
    BY <2>1, <2>2, <2>3, <2>4, <2>5 DEF Next, acquire_lock, release_lock
<1> QED
  BY <1>1, LockInvariant, PTL DEF Spec, NoStolenLock

\* acquire_lock and release_lock implement one critical section at a time.
THEOREM Refinement == ASSUME MaxHold < Timout PROVE Spec => ImplementsMutex
<1> USE LockAssumption
<1>1. Init => Abstract!MutexInit
  BY DEF Init, Abstract!MutexInit, inside, Inside
<1>2. LockInv /\ LockInv' /\ [Next]_vars => [Abstract!MutexNext]_inside
  <2> SUFFICES ASSUME LockInv, LockInv', [Next]_vars PROVE [Abstract!MutexNext]_inside
    OBVIOUS
  <2> USE DEF LockInv, TypeOK, Inside, inside
  <2>1. CASE Tick
    BY <2>1 DEF Tick
  <2>2. ASSUME NEW c \in Caller, FirstTry(c) PROVE inside' = inside
    BY <2>2 DEF FirstTry, SetNX, Goto
  <2>3. ASSUME NEW c \in Caller, Retry(c) PROVE inside' = inside
    BY <2>3 DEF Retry, SetNX, Goto, AfterRetry
  <2>4. ASSUME NEW c \in Caller, Verify(c) PROVE inside' = inside
    BY <2>4 DEF Verify, Goto
  <2>5. ASSUME NEW c \in Caller, SetExpire(c) PROVE Abstract!Acquire(c)
    BY <2>5 DEF SetExpire, Goto, Abstract!Acquire
  <2>6. ASSUME NEW c \in Caller, CheckOwner(c) PROVE inside' = inside
    BY <2>6 DEF CheckOwner, Goto
  <2>7. ASSUME NEW c \in Caller, Delete(c) PROVE Abstract!Release(c)
    BY <2>7 DEF Delete, Goto, Abstract!Release
  <2>8. ASSUME NEW c \in Caller, Crash(c)
        PROVE Abstract!Release(c) \/ inside' = inside
    BY <2>8 DEF Crash, Goto, Abstract!Release
  <2>9. CASE UNCHANGED vars
    BY <2>9 DEF vars
  <2> QED
    BY <2>1, <2>2, <2>3, <2>4, <2>5, <2>6, <2>7, <2>8, <2>9
    DEF Next, acquire_lock, release_lock, Abstract!MutexNext
<1> QED
  BY <1>1, <1>2, LockInvariant, PTL DEF Spec, ImplementsMutex, Abstract!MutexSpec
==============================================================================
