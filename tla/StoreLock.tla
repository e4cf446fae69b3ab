------------------------------ MODULE StoreLock ------------------------------
(***************************************************************************)
(* The advisory lock of the object store (acquire_lock and release_lock of *)
(* lib/stores/redis_datastore_adapter.py).  A lock is one Redis key: it is *)
(* taken with SETNX, read back, and given a time to live in a third round  *)
(* trip; it is freed by reading it and, in a second round trip, deleting   *)
(* it.  Every one of these round trips is an action of its own.            *)
(*                                                                         *)
(* A Caller is one call of acquire_lock (and the release_lock that goes    *)
(* with it): each call draws a lock string of its own and reads the clock  *)
(* when it starts, so a process that locks twice is two Callers.  The lock *)
(* string is the Caller.  Time is counted in ticks.                        *)
(***************************************************************************)
EXTENDS Integers

CONSTANTS Caller,    \* the calls of acquire_lock on one lock key
          Nobody,    \* the value of a missing key
          Timout,    \* self.timout: both the time to live and the patience of a waiter
          MaxHold,   \* ticks a caller stays between EXPIRE and DELETE, at most
          MayCrash   \* whether the process of a caller may die

ASSUME LockAssumption == /\ Nobody \notin Caller
                         /\ Timout \in Nat \ {0}
                         /\ MaxHold \in Nat
                         /\ MayCrash \in BOOLEAN

VARIABLES key,      \* the lock string stored under the lock key, or Nobody
          ttl,      \* ticks before the key expires; 0 when it never will
          pc,       \* where each caller is
          waited,   \* ticks since the caller's _start_execution, up to Timout + 1
          held      \* ticks since the caller's EXPIRE

vars == <<key, ttl, pc, waited, held>>

PC == {"idle", "sleep", "verify", "expire", "held", "delete", "done", "failed", "crashed"}

\* The caller has been told it owns the lock and has not yet given it back.
Inside(c) == pc[c] \in {"held", "delete"}

TypeOK == /\ key \in Caller \cup {Nobody}
          /\ ttl \in 0..Timout
          /\ pc \in [Caller -> PC]
          /\ waited \in [Caller -> 0..(Timout + 1)]
          /\ held \in [Caller -> 0..MaxHold]

Init == /\ key = Nobody
        /\ ttl = 0
        /\ pc = [c \in Caller |-> "idle"]
        /\ waited = [c \in Caller |-> 0]
        /\ held = [c \in Caller |-> 0]

Goto(c, label) == pc' = [pc EXCEPT ![c] = label]

\* SETNX writes a key that is missing, and gives it no time to live.
SetNX(c) == key = Nobody /\ key' = c /\ ttl' = 0

-----------------------------------------------------------------------------
(* acquire_lock *)

\* The first SETNX.
FirstTry(c) ==
    /\ pc[c] = "idle"
    /\ \/ SetNX(c) /\ Goto(c, "verify")
       \/ key # Nobody /\ Goto(c, "sleep") /\ UNCHANGED <<key, ttl>>
    /\ UNCHANGED <<waited, held>>

\* SETNX once more after a sleep.  The clock is read after it: a caller whose time
\* is up raises whatever SETNX answered.
Patient(c) == waited[c] <= Timout

AfterRetry(c) == IF Patient(c) THEN "verify" ELSE "failed"

\* Mutant: the clock is only read when SETNX succeeds.
RetryForever(c) == /\ pc[c] = "sleep"
                   /\ SetNX(c)
                   /\ Goto(c, AfterRetry(c))
                   /\ UNCHANGED <<waited, held>>

Retry(c) ==
    /\ pc[c] = "sleep"
    /\ \/ SetNX(c) /\ Goto(c, AfterRetry(c))
       \/ key # Nobody /\ ~Patient(c) /\ Goto(c, "failed") /\ UNCHANGED <<key, ttl>>
    /\ UNCHANGED <<waited, held>>

\* GET: is the string stored there ours?
Verify(c) ==
    /\ pc[c] = "verify"
    /\ Goto(c, IF key = c THEN "expire" ELSE "failed")
    /\ UNCHANGED <<key, ttl, waited, held>>

\* Mutant: a time to live in the wrong unit.
SetExpireShort(c) == /\ pc[c] = "expire"
                     /\ ttl' = IF key = Nobody THEN 0 ELSE 1
                     /\ Goto(c, "held")
                     /\ UNCHANGED <<key, waited, held>>

\* EXPIRE acts on the key, whoever owns it by now.
SetExpire(c) ==
    /\ pc[c] = "expire"
    /\ ttl' = IF key = Nobody THEN 0 ELSE Timout
    /\ Goto(c, "held")
    /\ UNCHANGED <<key, waited, held>>

-----------------------------------------------------------------------------
(* release_lock *)

\* GET: nothing there is success, another's string is an error.
CheckOwner(c) ==
    /\ pc[c] = "held"
    /\ \/ key = Nobody /\ Goto(c, "done")
       \/ key = c /\ Goto(c, "delete")
       \/ key \notin {c, Nobody} /\ Goto(c, "failed")
    /\ UNCHANGED <<key, ttl, waited, held>>

\* DELETE acts on the key, whoever owns it by now.
Delete(c) ==
    /\ pc[c] = "delete"
    /\ key' = Nobody
    /\ ttl' = 0
    /\ Goto(c, "done")
    /\ UNCHANGED <<waited, held>>

-----------------------------------------------------------------------------
(* The environment *)

\* The process dies between two round trips, or its connection to Redis fails and the
\* call raises: either way nothing more comes from this caller.
Crash(c) ==
    /\ MayCrash
    /\ pc[c] \in {"sleep", "verify", "expire", "held", "delete"}
    /\ Goto(c, "crashed")
    /\ UNCHANGED <<key, ttl, waited, held>>

\* Time passes: Redis deletes a key whose time to live has run out.  The guard is the
\* assumption on critical sections that MaxHold stands for.
Tick ==
    /\ \A c \in Caller : Inside(c) => held[c] < MaxHold
    /\ ttl' = IF ttl = 0 THEN 0 ELSE ttl - 1
    /\ key' = IF ttl = 1 THEN Nobody ELSE key
    /\ waited' = [c \in Caller |->
                    IF pc[c] = "sleep" /\ Patient(c) THEN waited[c] + 1 ELSE waited[c]]
    /\ held' = [c \in Caller |-> IF Inside(c) THEN held[c] + 1 ELSE held[c]]
    /\ UNCHANGED pc

acquire_lock(c) == FirstTry(c) \/ Retry(c) \/ Verify(c) \/ SetExpire(c)

release_lock(c) == CheckOwner(c) \/ Delete(c)

Next == \/ Tick
        \/ \E c \in Caller : acquire_lock(c) \/ release_lock(c) \/ Crash(c)

Spec == Init /\ [][Next]_vars

\* Redis and the clock never stop, and a process that is not dead goes on.
Fairness == /\ WF_vars(Tick)
            /\ \A c \in Caller : WF_vars(acquire_lock(c) \/ release_lock(c))

FairSpec == Spec /\ Fairness

-----------------------------------------------------------------------------
(* Properties *)

\* Two callers that were both told they own the lock are never inside together:
\* what every user of acquire_lock (placement, port allocation, the simulated
\* hosts, the barrier) relies on.  It needs MaxHold < Timout.
MutualExclusion == \A c, d \in Caller : Inside(c) /\ Inside(d) => c = d

\* The lock of a caller that has it, and is alive, goes away only because that
\* caller deleted it: neither the time to live, nor the DELETE of a caller whose
\* GET is older, takes it.  It needs MaxHold < Timout.
NoStolenLock ==
    [][\A c \in Caller :
          key = c /\ pc[c] \in {"verify", "expire", "held", "delete"} /\ key' # c
              => pc[c] = "delete" /\ pc'[c] = "done"]_vars

\* acquire_lock returns: with the lock, or with an error once its patience is used
\* up, even when the lock was orphaned and will never be freed.
WaitIsBounded == \A c \in Caller : pc[c] = "sleep" ~> pc[c] # "sleep"

\* "The KEY will be deleted automatically after the tout has expired"
\* (redis_datastore_adapter.py:1921): a stored lock is on its way to an EXPIRE of
\* its owner or has a time to live.  The code breaks it: see the run lock_orphan.
LockAlwaysExpires == key # Nobody => ttl > 0 \/ pc[key] \in {"verify", "expire"}

-----------------------------------------------------------------------------
(* The implementation of Mutex: a caller is inside from its EXPIRE on.     *)

inside == {c \in Caller : Inside(c)}

Abstract == INSTANCE Mutex

\* The lock hands out one critical section at a time.  It needs MaxHold < Timout.
ImplementsMutex == Abstract!MutexSpec
==============================================================================
