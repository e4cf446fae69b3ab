-------------------------------- MODULE Mutex --------------------------------
(***************************************************************************)
(* What CloudBench's store lock promises to the code that brackets a       *)
(* critical section with acquire_lock and release_lock: a caller enters    *)
(* only when nobody is inside, and leaves on its own.  StoreLock is shown  *)
(* to implement this specification; Placement is built on it.              *)
(***************************************************************************)
CONSTANT Caller     \* the callers of acquire_lock

VARIABLE inside     \* the callers inside the critical section

MutexInit == inside = {}

\* acquire_lock returns to caller c.
Acquire(c) == inside = {} /\ inside' = {c}

\* Caller c reaches the end of release_lock, or dies inside.
Release(c) == c \in inside /\ inside' = inside \ {c}

MutexNext == \E c \in Caller : Acquire(c) \/ Release(c)

MutexSpec == MutexInit /\ [][MutexNext]_inside
==============================================================================
