----------------------------- MODULE Parallel -----------------------------
(***************************************************************************)
(* parallel_obj_operation and the thread pool it uses.                     *)
(*                                                                         *)
(* ai-attach, ai-detach, airunstate, vmrunstateall and others carry out    *)
(* one operation on several VMs in the threads of a pool.  A pool belongs  *)
(* to a kind of operation and a number of threads, not to a caller: the    *)
(* API service has one ActiveObjectOperations and a thread per request, so *)
(* the requests share its pools, the queue of tasks and the list of        *)
(* results included.                                                       *)
(*                                                                         *)
(* A VM that is attached may be staged: its thread then waits for a        *)
(* message, and holds its place in the pool meanwhile.                     *)
(***************************************************************************)
EXTENDS Naturals, Sequences, FiniteSets

CONSTANTS
    Callers,        \* calls of parallel_obj_operation
    VMs, VmsOf,     \* the keys of "parallel_operations" of each call
    Threads,        \* the threads a pool may have
    None

ASSUME VmsAssumption ==
    /\ VmsOf \in [Callers -> (SUBSET VMs) \ {{}}]
    /\ \A c, d \in Callers : c # d => VmsOf[c] \cap VmsOf[d] = {}
ASSUME NoneAssumption == None \notin VMs
ASSUME ThreadsAssumption == IsFiniteSet(Threads)

VARIABLES
    op,         \* operation_type, or "runstateall" for the one of vmrunstateall
    active,     \* the calls that share the pool
    workers,    \* the threads of the pool
    staged,     \* the VMs that are to pause
    at,         \* where each call is
    todo,       \* the objects left in its loop
    got,        \* what wait_completion returned to it
    reported,   \* what it returned
    queue,      \* Queue.queue
    results,    \* ThreadPool.results
    job,        \* the task of each worker
    stale,      \* its task will append to a list that is not results any more
    aborted,    \* Worker.aborted
    paused,     \* the VMs subscribed to the channel and waiting
    told,       \* the VMs that were told to continue
    done,       \* the objects as the operation wants them: there, gone, in the state
    raised      \* the VMs whose task raised

pool    == << queue, results, job, stale, aborted >>
calls   == << at, todo, got, reported >>
objects == << paused, told, done, raised >>
choices == << op, active, workers, staged >>
vars    == << choices, calls, pool, objects >>

Operations == {"attach", "detach", "runstate", "runstateall"}
Result     == [vm : VMs, ok : BOOLEAN]

(* The parallelism is no more than the number of VMs (create_vm_list_for_ai,  *)
(* runstate_list_for_ai), except that vmrunstateall does not look for more    *)
(* VMs than it may handle at once.                                            *)
TooMany(c) == op = "runstateall" /\ Cardinality(VmsOf[c]) > Cardinality(workers)

Init ==
    /\ op \in Operations
    /\ active \in SUBSET Callers /\ workers \in SUBSET Threads
    /\ active # {} /\ workers # {}
    /\ op # "runstateall" =>
           \A c \in active : Cardinality(workers) <= Cardinality(VmsOf[c])
    /\ \E s \in SUBSET active :        \* staging is an attribute of the AI
           staged = IF op = "attach" THEN UNION {VmsOf[c] : c \in s} ELSE {}
    /\ at = [c \in Callers |-> "idle"] /\ todo = VmsOf
    /\ got = [c \in Callers |-> {}]
    /\ reported = [c \in Callers |-> "nothing"]
    /\ queue = << >> /\ results = {}
    /\ job = [w \in Threads |-> None]
    /\ stale = [w \in Threads |-> FALSE] /\ aborted = [w \in Threads |-> FALSE]
    /\ paused = {} /\ told = {} /\ done = {} /\ raised = {}

(* ------------------------------ the pool ------------------------------- *)

Goto(c, label) == at' = [at EXCEPT ![c] = label]
Return(c, what) == Goto(c, "returned") /\ reported' = [reported EXCEPT ![c] = what]

(* The keys of a dictionary come in a fixed order.                         *)
First(c) == CHOOSE v \in todo[c] : TRUE

(* Queue.put on a queue of num_threads places                              *)
AddTask(c) ==
    /\ at[c] = "adding" /\ Len(queue) < Cardinality(workers)
    /\ queue' = Append(queue, First(c))
    /\ todo' = [todo EXCEPT ![c] = @ \ {First(c)}]
    /\ Goto(c, IF todo[c] = {First(c)} THEN "waiting" ELSE "adding")
    /\ UNCHANGED << choices, got, reported, results, job, stale, aborted, objects >>

(* Worker.run: the list to append to is looked up before the task is run.  *)
Take(w) ==
    /\ w \in workers /\ job[w] = None /\ queue # << >>
    /\ job' = [job EXCEPT ![w] = Head(queue)]
    /\ queue' = Tail(queue)
    /\ stale' = [stale EXCEPT ![w] = FALSE]
    /\ aborted' = [aborted EXCEPT ![w] = FALSE]
    /\ UNCHANGED << choices, calls, results, objects >>

AppendResult(w, ok) ==
    results' = IF stale[w] THEN results ELSE results \cup {[vm |-> job[w], ok |-> ok]}

(* The task returns: its result is appended, task_done is called.          *)
Finish(w, ok) ==
    /\ AppendResult(w, ok)
    /\ aborted' = [aborted EXCEPT ![w] = TRUE]
    /\ job' = [job EXCEPT ![w] = None]
    /\ UNCHANGED << choices, calls, queue, stale >>

(* The task raises: no result, but task_done.                              *)
Break(w) ==
    /\ job' = [job EXCEPT ![w] = None]
    /\ raised' = raised \cup {job[w]}
    /\ UNCHANGED << choices, calls, queue, results, stale, aborted >>

(* Mutant: tasks that a thread has taken are not counted.                  *)
UnfinishedQueued == Len(queue)

(* Queue.unfinished_tasks                                                  *)
Unfinished == Len(queue) + Cardinality({w \in workers : job[w] # None})

(* ThreadPool.wait_completion: poll, copy, reset.                          *)
Poll(c) ==
    /\ at[c] = "waiting" /\ Unfinished = 0
    /\ Goto(c, "copying")
    /\ UNCHANGED << choices, todo, got, reported, pool, objects >>
Copy(c) ==
    /\ at[c] = "copying"
    /\ got' = [got EXCEPT ![c] = results]
    /\ Goto(c, "resetting")
    /\ UNCHANGED << choices, todo, reported, pool, objects >>
Reset(c) ==
    /\ at[c] = "resetting"
    /\ results' = {}
    /\ stale' = [w \in Threads |-> stale[w] \/ job[w] # None]
    /\ Goto(c, "judging")
    /\ UNCHANGED << choices, todo, got, reported, queue, job, aborted, objects >>

(* ------------------------------ the tasks ------------------------------ *)

Going(w) == w \in workers /\ job[w] # None /\ job[w] \notin paused
MustPause(w) == job[w] \in staged \ told

(* take_action_if_requested: subscribe, say so, listen.                    *)
Pause(w) ==
    /\ Going(w) /\ MustPause(w)
    /\ paused' = paused \cup {job[w]}
    /\ UNCHANGED << choices, calls, pool, told, done, raised >>

(* continue_vm: a message to one who has subscribed; others never see it.  *)
Continue(v) ==
    /\ v \in paused
    /\ paused' = paused \ {v} /\ told' = told \cup {v}
    /\ UNCHANGED << choices, calls, pool, done, raised >>

(* Mutant: the socket of a subscriber has no time limit.                   *)
PauseNeverEnds(w) == FALSE /\ UNCHANGED vars

(* The socket of a subscriber times out.                                   *)
PauseEnds(w) ==
    /\ w \in workers /\ job[w] \in paused
    /\ paused' = paused \ {job[w]}
    /\ Finish(w, FALSE)
    /\ UNCHANGED << told, done, raised >>

Succeed(w) ==
    /\ Going(w) /\ ~MustPause(w)
    /\ done' = done \cup {job[w]}
    /\ Finish(w, TRUE)
    /\ UNCHANGED << paused, told, raised >>

FailTask(w) ==
    /\ Going(w)
    /\ Finish(w, FALSE)
    /\ UNCHANGED << paused, told, done >>
    /\ UNCHANGED raised

(* objattach raises in its finally block, sometimes with the object left.  *)
RaiseTask(w) ==
    /\ Going(w)
    /\ \/ done' = done
       \/ ~MustPause(w) /\ done' = done \cup {job[w]}
    /\ Break(w)
    /\ UNCHANGED << paused, told >>

(* ---------------------- parallel_obj_operation ------------------------- *)

(* vmrunstateall calls it only if the VMs are not too many.                *)
Begin(c) ==
    /\ c \in active /\ at[c] = "idle"
    /\ \/ ~TooMany(c) /\ Goto(c, "adding") /\ UNCHANGED reported
       \/ TooMany(c) /\ Return(c, "success")
    /\ UNCHANGED << choices, todo, got, pool, objects >>

Judge(c) ==
    /\ at[c] = "judging"
    /\ \/ (\E r \in got[c] : ~r.ok) /\ Return(c, "failure") /\ UNCHANGED todo
       \/ /\ \A r \in got[c] : r.ok
          /\ Goto(c, "checking") /\ todo' = [todo EXCEPT ![c] = VmsOf[c]]
          /\ UNCHANGED reported
    /\ UNCHANGED << choices, got, pool, objects >>

(* Mutant: an object that is not as it should be is taken for a detached   *)
(* one.                                                                    *)
VerdictMild == "success"

(* What an object that is not as it should be makes of the call: _status   *)
(* is 18, 20, 21 or 22 with a rollback, or 19 without, which becomes 0.    *)
Verdict == IF op = "detach" THEN "success" ELSE "failure"

(* One round trip per object.                                              *)
Check(c) ==
    /\ at[c] = "checking"
    /\ \/ todo[c] = {} /\ Return(c, "success") /\ UNCHANGED todo
       \/ /\ todo[c] # {} /\ First(c) \in done
          /\ todo' = [todo EXCEPT ![c] = @ \ {First(c)}]
          /\ UNCHANGED << at, reported >>
       \/ /\ todo[c] # {} /\ First(c) \notin done
          /\ Return(c, Verdict) /\ UNCHANGED todo
    /\ UNCHANGED << choices, got, pool, objects >>

(* The store does not answer, or the user of a command line, who shares    *)
(* the pool with nobody, interrupts.                                       *)
Abort(c) ==
    /\ \/ at[c] = "checking"
       \/ at[c] \in {"adding", "waiting"} /\ active = {c}
    /\ Goto(c, "aborting")
    /\ UNCHANGED << choices, todo, got, reported, pool, objects >>

(* ThreadPool.abort ends when every worker has ended its last task well.   *)
(* The flag that it raises first makes a task fail at its next look, as it *)
(* may fail in any case.                                                   *)
Aborted(c) ==
    /\ at[c] = "aborting" /\ \A w \in workers : aborted[w]
    /\ Return(c, "failure")
    /\ UNCHANGED << choices, todo, got, pool, objects >>

(* ----------------------------------------------------------------------- *)

call(c) == AddTask(c) \/ Poll(c) \/ Copy(c) \/ Reset(c) \/ Judge(c) \/ Check(c) \/ Aborted(c)
worker(w) == Take(w) \/ Pause(w) \/ PauseEnds(w) \/ Succeed(w) \/ FailTask(w) \/ RaiseTask(w)

Next ==
    \/ \E c \in Callers : Begin(c) \/ call(c) \/ Abort(c)
    \/ \E w \in Threads : worker(w)
    \/ \E v \in VMs : Continue(v)

Spec == Init /\ [][Next]_vars

(* Threads run, and a pause ends by itself after update_attempts times     *)
(* update_frequency seconds.  No user is obliged to continue, to interrupt *)
(* or to call.                                                             *)
Fairness ==
    /\ \A c \in Callers : WF_vars(call(c))
    /\ \A w \in Threads : WF_vars(worker(w))
FairSpec == Spec /\ Fairness

(* ------------------------------ properties ----------------------------- *)

Labels == {"idle", "adding", "waiting", "copying", "resetting", "judging", "checking",
           "aborting", "returned"}

(* Every variable has a value of its type; a paused VM has a thread, and   *)
(* the queue of a pool is no longer than its threads are many.             *)
TypeOK ==
    /\ op \in Operations /\ active \subseteq Callers /\ workers \subseteq Threads
    /\ staged \subseteq VMs
    /\ at \in [Callers -> Labels] /\ todo \in [Callers -> SUBSET VMs]
    /\ got \in [Callers -> SUBSET Result]
    /\ reported \in [Callers -> {"nothing", "success", "failure"}]
    /\ queue \in Seq(VMs) /\ Len(queue) <= Cardinality(workers)
    /\ results \subseteq Result
    /\ job \in [Threads -> VMs \cup {None}]
    /\ stale \in [Threads -> BOOLEAN] /\ aborted \in [Threads -> BOOLEAN]
    /\ paused \subseteq {job[w] : w \in workers} \ {None}
    /\ told \subseteq VMs /\ done \subseteq VMs /\ raised \subseteq VMs

(* A call reports success only if every object is as the operation wants   *)
(* it, whoever took the results of its tasks: it looks for itself.  For a  *)
(* detach the look changes nothing, so it takes a pool of its own and      *)
(* tasks that do not raise; and vmrunstateall reports what it did not do.  *)
SuccessIsTrue ==
    \A c \in Callers :
        /\ reported[c] = "success"
        /\ ~TooMany(c)
        /\ op = "detach" => active = {c} /\ raised = {}
        => VmsOf[c] \subseteq done

(* A call that has the pool for itself gets the results of all its tasks,  *)
(* those that raised apart, and of no others.                              *)
OwnResults ==
    \A c \in Callers :
        active = {c} /\ at[c] \in {"resetting", "judging", "checking"} =>
            {r.vm : r \in got[c]} = VmsOf[c] \ raised

(* Every call returns, though its tasks wait in a queue behind those of    *)
(* others and behind VMs that are paused; or it waits in abort for a       *)
(* thread that never had a task, or whose last one raised.                 *)
EveryCallReturns ==
    \A c \in Callers :
        at[c] = "adding" ~> \/ at[c] = "returned"
                            \/ [](at[c] = "aborting" /\ \E w \in workers : ~aborted[w])
=============================================================================
