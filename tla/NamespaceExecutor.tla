------------------------- MODULE NamespaceExecutor --------------------------
(***************************************************************************)
(* The executor of a network namespace (netlab/src/runtime/executor.rs):   *)
(* blocking jobs go to worker threads, each with a queue of its own, and   *)
(* async tasks to one runtime thread. A caller holds a HostTask for each,  *)
(* a oneshot channel that yields the result or the error that the sender   *)
(* is gone.                                                                *)
(*                                                                         *)
(* The worker is chosen under the mutex of the worker list, but the        *)
(* workers' pending counters are atomics that the worker threads decrement *)
(* without the mutex: each load and each update is a step of its own.      *)
(***************************************************************************)
EXTENDS Integers, Sequences, FiniteSets

CONSTANTS
    Jobs,        \* blocking jobs
    Tasks,       \* async tasks
    Workloads,   \* the jobs called, and which of them spawns which: inner is one of these
    None,
    MaxWorkers   \* MAX_BLOCKING_WORKERS, 512 in the code

ASSUME WorkersAssumption == MaxWorkers \in Nat \ {0}
ASSUME WorkloadsAssumption ==
    \A w \in Workloads : DOMAIN w \subseteq Jobs /\ \A j \in DOMAIN w : w[j] \in DOMAIN w \cup {None}

\* A caller looks for an idle worker, starts a new one or takes the one with
\* the least pending jobs; then it counts the job and sends it.
Stages == {"idle", "least", "count", "send"}
Call == [job : Jobs, stage : Stages, at : Nat, best : Nat, least : Int]

ASSUME NoneAssumption == None \notin Jobs \cup Tasks \cup Call
ASSUME DisjointAssumption == Jobs \cap Tasks = {}

VARIABLES
    inner,     \* the job that a job spawns and waits for, or None; never changes
    workers,   \* the worker list, in order of creation
    call,      \* the spawn_blocking call that holds the mutex, or None
    result,    \* what each HostTask yields: "none", "waiting", "value", "error", "refused"
    jobs,      \* queue of the runtime thread
    running,   \* async tasks the runtime has taken over
    dropping   \* the drop of the executor: "no", "async", "blocking", "done"

vars == <<inner, workers, call, result, jobs, running, dropping>>

Worker == [queue : Seq(Jobs), job : Jobs \cup {None}, pending : Nat,
           thread : {"recv", "run", "count", "exited"}, open : BOOLEAN]

NewWorker == [queue |-> <<>>, job |-> None, pending |-> 0, thread |-> "recv", open |-> TRUE]

Init ==
    /\ inner \in Workloads
    /\ workers = <<>>
    /\ call = None
    /\ result = [t \in Jobs \cup Tasks |-> "none"]
    /\ jobs = <<>>
    /\ running = {}
    /\ dropping = "no"

Resolved(t) == result[t] \in {"value", "error", "refused"}
-----------------------------------------------------------------------------
(* BlockingNamespaceExecutor::spawn.                                       *)

\* The job whose body is about to spawn j, if there is one.
Outer(j) == {o \in DOMAIN inner : inner[o] = j}

MayBegin(j) ==
    \/ Outer(j) = {}
    \/ \E w \in DOMAIN workers : workers[w].thread = "run" /\ workers[w].job \in Outer(j)

\* The caller takes the mutex.
Begin(j) ==
    /\ j \in DOMAIN inner
    /\ dropping = "no"
    /\ call = None
    /\ result[j] = "none"
    /\ MayBegin(j)
    /\ call' = [job |-> j, stage |-> "idle", at |-> 1, best |-> 1, least |-> 0]
    /\ result' = [result EXCEPT ![j] = "waiting"]
    /\ UNCHANGED <<inner, workers, jobs, running, dropping>>

InStage(stage) == call # None /\ call.stage = stage

Choose(w) == call' = [call EXCEPT !.stage = "count", !.best = w]

\* is_idle of the next worker in the list.
LookIdle ==
    /\ InStage("idle")
    /\ call.at <= Len(workers)
    /\ IF workers[call.at].pending = 0
       THEN Choose(call.at)
       ELSE call' = [call EXCEPT !.at = @ + 1]
    /\ UNCHANGED <<inner, workers, result, jobs, running, dropping>>

\* Mutant: no more than one worker is ever started.
RoomForOne == Len(workers) < 1

RoomForWorker == Len(workers) < MaxWorkers

\* Nobody is idle and there is room: a worker is started, whose thread enters
\* the namespace before the caller goes on.
StartWorker ==
    /\ InStage("idle")
    /\ call.at > Len(workers)
    /\ RoomForWorker
    /\ workers' = Append(workers, NewWorker)
    /\ Choose(Len(workers) + 1)
    /\ UNCHANGED <<inner, result, jobs, running, dropping>>

\* The new thread cannot enter the namespace: spawn returns the error.
StartFails ==
    /\ InStage("idle")
    /\ call.at > Len(workers)
    /\ RoomForWorker
    /\ result' = [result EXCEPT ![call.job] = "refused"]
    /\ call' = None
    /\ UNCHANGED <<inner, workers, jobs, running, dropping>>

\* Nobody is idle and there is no room.
BeginLeast ==
    /\ InStage("idle")
    /\ call.at > Len(workers)
    /\ ~RoomForWorker
    /\ call' = [call EXCEPT !.stage = "least", !.at = 2, !.best = 1, !.least = workers[1].pending]
    /\ UNCHANGED <<inner, workers, result, jobs, running, dropping>>

\* min_by_key: the first of the least.
LookLeast ==
    /\ InStage("least")
    /\ IF call.at > Len(workers) THEN Choose(call.best)
       ELSE call' = [call EXCEPT !.at = @ + 1,
                                 !.best = IF workers[call.at].pending < call.least THEN call.at ELSE @,
                                 !.least = IF workers[call.at].pending < @
                                           THEN workers[call.at].pending ELSE @]
    /\ UNCHANGED <<inner, workers, result, jobs, running, dropping>>

Counted(worker) == [worker EXCEPT !.pending = @ + 1]
Sent(worker) == [worker EXCEPT !.queue = Append(@, call.job)]

\* Mutant: the job is sent before it is counted.
SendThenCount(stage, worker) == IF stage = "count" THEN Sent(worker) ELSE Counted(worker)

\* BlockingNamespaceWorker::spawn counts the job, then sends it.
CountThenSend(stage, worker) == IF stage = "count" THEN Counted(worker) ELSE Sent(worker)

Count ==
    /\ InStage("count")
    /\ workers' = [workers EXCEPT ![call.best] = CountThenSend("count", @)]
    /\ call' = [call EXCEPT !.stage = "send"]
    /\ UNCHANGED <<inner, result, jobs, running, dropping>>

Send ==
    /\ InStage("send")
    /\ workers' = [workers EXCEPT ![call.best] = CountThenSend("send", @)]
    /\ call' = None
    /\ UNCHANGED <<inner, result, jobs, running, dropping>>
-----------------------------------------------------------------------------
(* The thread of worker w.                                                 *)

\* recv yields the jobs that were sent, also after the sender is gone.
Recv(w) ==
    /\ workers[w].thread = "recv"
    /\ workers[w].queue # <<>>
    /\ workers' = [workers EXCEPT ![w].thread = "run", ![w].job = Head(workers[w].queue),
                                  ![w].queue = Tail(@)]
    /\ UNCHANGED <<inner, call, result, jobs, running, dropping>>

\* The body of the job ends once the job it waits for has its result; it
\* returns, or it panics and drops the sender of its result.
Run(w) ==
    /\ workers[w].thread = "run"
    /\ inner[workers[w].job] # None => Resolved(inner[workers[w].job])
    /\ \E outcome \in {"value", "error"} :
        result' = [result EXCEPT ![workers[w].job] = outcome]
    /\ workers' = [workers EXCEPT ![w].thread = "count", ![w].job = None]
    /\ UNCHANGED <<inner, call, jobs, running, dropping>>

\* Mutant: the thread dies of a panic.
CountDown(w) ==
    workers' = [workers EXCEPT ![w].thread = "exited", ![w].pending = @ - 1]

\* fetch_sub, whether the job panicked or not.
Uncount(w) ==
    workers' = [workers EXCEPT ![w].thread = "recv", ![w].pending = @ - 1]

Finish(w) ==
    /\ workers[w].thread = "count"
    /\ Uncount(w)
    /\ UNCHANGED <<inner, call, result, jobs, running, dropping>>

\* recv fails: the sender is gone and the queue is empty.
Exit(w) ==
    /\ workers[w].thread = "recv"
    /\ workers[w].queue = <<>>
    /\ ~workers[w].open
    /\ workers' = [workers EXCEPT ![w].thread = "exited"]
    /\ UNCHANGED <<inner, call, result, jobs, running, dropping>>

WorkerStep(w) == Recv(w) \/ Run(w) \/ Finish(w) \/ Exit(w)
-----------------------------------------------------------------------------
(* AsyncNamespaceExecutor.                                                 *)

SpawnTask(t) ==
    /\ dropping = "no"
    /\ result[t] = "none"
    /\ result' = [result EXCEPT ![t] = "waiting"]
    /\ jobs' = Append(jobs, t)
    /\ UNCHANGED <<inner, workers, call, running, dropping>>

\* The runtime thread takes a job and hands the task to the runtime.
StartTask ==
    /\ jobs # <<>>
    /\ jobs' = Tail(jobs)
    /\ running' = running \cup {Head(jobs)}
    /\ UNCHANGED <<inner, workers, call, result, dropping>>

\* A task ends, or panics.
EndTask(t) ==
    /\ t \in running
    /\ running' = running \ {t}
    /\ \E outcome \in {"value", "error"} : result' = [result EXCEPT ![t] = outcome]
    /\ UNCHANGED <<inner, workers, call, jobs, dropping>>
-----------------------------------------------------------------------------
(* Drop of the executor, when nobody can call it any more: no call runs and *)
(* no job is left that still has to spawn another.                         *)

\* The sender of the runtime thread's queue goes first.
Drop ==
    /\ dropping = "no"
    /\ call = None
    /\ \A j \in DOMAIN inner :
        result[j] = "waiting" /\ inner[j] # None => result[inner[j]] # "none"
    /\ dropping' = "async"
    /\ UNCHANGED <<inner, workers, call, result, jobs, running>>

\* Mutant: the tasks of the runtime are left behind.
Abandon == UNCHANGED result

\* The runtime drops the tasks that have not ended, and with them the senders
\* of their results.
Cancel == result' = [t \in Jobs \cup Tasks |-> IF t \in running THEN "error" ELSE result[t]]

\* The runtime thread has emptied its queue and ends; drop joins it.
StopRuntime ==
    /\ dropping = "async"
    /\ jobs = <<>>
    /\ Cancel
    /\ running' = {}
    /\ dropping' = "blocking"
    /\ UNCHANGED <<inner, workers, call, jobs>>

\* The workers are dropped in the order of the list, each joined before the
\* next one's sender goes.
Close(w) ==
    /\ dropping = "blocking"
    /\ workers[w].open
    /\ \A v \in 1 .. w - 1 : workers[v].thread = "exited"
    /\ workers' = [workers EXCEPT ![w].open = FALSE]
    /\ UNCHANGED <<inner, call, result, jobs, running, dropping>>

Dropped ==
    /\ dropping = "blocking"
    /\ \A w \in DOMAIN workers : workers[w].thread = "exited"
    /\ dropping' = "done"
    /\ UNCHANGED <<inner, workers, call, result, jobs, running>>

CallStep == LookIdle \/ StartWorker \/ StartFails \/ BeginLeast \/ LookLeast \/ Count \/ Send

DropStep == StopRuntime \/ Dropped \/ \E w \in DOMAIN workers : Close(w)

Next ==
    \/ \E j \in Jobs : Begin(j)
    \/ \E t \in Tasks : SpawnTask(t) \/ EndTask(t)
    \/ CallStep \/ StartTask \/ Drop \/ DropStep
    \/ \E w \in DOMAIN workers : WorkerStep(w)

\* The caller that holds the mutex, every thread, the body of every job (which
\* makes the call it contains) and a drop that has begun go on. A task need
\* not end and nobody is obliged to call or to drop.
Fairness ==
    /\ WF_vars(CallStep)
    /\ WF_vars(StartTask)
    /\ WF_vars(DropStep)
    /\ \A w \in 1 .. MaxWorkers : WF_vars(w \in DOMAIN workers /\ WorkerStep(w))
    /\ \A j \in Jobs : WF_vars(Outer(j) # {} /\ Begin(j))

Spec == Init /\ [][Next]_vars

FairSpec == Spec /\ Fairness
-----------------------------------------------------------------------------
Sum(worker) ==
    Len(worker.queue) + (IF worker.thread \in {"run", "count"} THEN 1 ELSE 0)

\* A pending counter is the number of jobs in the queue or on the thread, one
\* more while a caller has counted its job and not sent it yet: it never goes
\* below zero, and a worker with the counter at zero has nothing to do
\* (executor.rs:286, 317, 335).
PendingCounts ==
    \A w \in DOMAIN workers :
        /\ workers[w] \in Worker
        /\ workers[w].pending =
            Sum(workers[w]) + (IF InStage("send") /\ call.best = w THEN 1 ELSE 0)

\* A job waits behind another only when no further worker may be started,
\* although the counters change while they are read (executor.rs:228-240).
QueuesOnlyWhenFull ==
    \A w \in DOMAIN workers : Sum(workers[w]) > 1 => Len(workers) = MaxWorkers

\* Every blocking job that was accepted yields its result, after panics of
\* other jobs and when jobs spawn jobs and wait for them
\* (executor.rs:284-291).
JobsResolve == \A j \in Jobs : result[j] = "waiting" ~> Resolved(j)

\* When the drop returns, no HostTask is left without its result: what was
\* queued has run, and what had not ended yields an error
\* (executor.rs:91-96, 187-199, 339-346).
DropResolves == dropping = "done" => \A t \in Jobs \cup Tasks : result[t] # "waiting"

\* A drop that has begun ends, and when it returns no HostTask is left without
\* its result: the jobs that were queued have run and the tasks that had not
\* ended yield an error (executor.rs:91-96, 187-199, 339-346).
DropEnds ==
    dropping = "async" ~>
        dropping = "done" /\ \A t \in Jobs \cup Tasks : result[t] # "waiting"
=============================================================================
