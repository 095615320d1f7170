----------------------- MODULE NamespaceExecutorProofs ------------------------
(***************************************************************************)
(* Proofs about the blocking executor of a namespace, for any number of    *)
(* jobs, of jobs that spawn jobs, and of workers: the pending counters are *)
(* true although they are read and written by steps of their own, and a    *)
(* job waits behind another only when no further worker may be started.    *)
(*                                                                         *)
(* The invariant says what the caller that holds the mutex has found: the  *)
(* worker it has chosen exists, and it looks for the least loaded one only *)
(* when the list is full.  A worker it found idle stays idle until the job *)
(* is sent, because only the holder of the mutex gives it another.         *)
(***************************************************************************)
EXTENDS NamespaceExecutor, TLAPS

ExecutorTypeOK ==
    /\ inner \in Workloads
    /\ workers \in Seq(Worker)
    /\ call \in Call \cup {None}
    /\ jobs \in Seq(Tasks)

Chosen(w) == call # None /\ call.stage \in {"count", "send"} /\ call.best = w

\* The job that is about to be sent to a worker counts as one of its own.
Load(w) == Sum(workers[w]) + (IF Chosen(w) THEN 1 ELSE 0)

ExecutorInv ==
    /\ ExecutorTypeOK
    /\ PendingCounts
    /\ Len(workers) <= MaxWorkers
    /\ Len(workers) < MaxWorkers => \A w \in DOMAIN workers : Load(w) <= 1
    /\ call # None =>
         /\ call.at >= 1
         /\ call.stage = "least" => Len(workers) = MaxWorkers /\ call.best \in DOMAIN workers
         /\ call.stage \in {"count", "send"} => call.best \in DOMAIN workers
-----------------------------------------------------------------------------
\* A sequence with one element replaced.
LEMMA Replaced ==
    ASSUME NEW S, NEW s \in Seq(S), NEW w \in DOMAIN s, NEW e \in S
    PROVE  LET t == [s EXCEPT ![w] = e] IN
             /\ t \in Seq(S) /\ Len(t) = Len(s) /\ DOMAIN t = DOMAIN s
             /\ t[w] = e /\ \A v \in DOMAIN s : v # w => t[v] = s[v]
OBVIOUS

\* A sequence with one element more.
LEMMA Added ==
    ASSUME NEW S, NEW s \in Seq(S), NEW e \in S
    PROVE  LET t == Append(s, e) IN
             /\ t \in Seq(S) /\ Len(t) = Len(s) + 1 /\ DOMAIN t = DOMAIN s \cup {Len(s) + 1}
             /\ t[Len(s) + 1] = e /\ \A v \in DOMAIN s : t[v] = s[v]
OBVIOUS

LEMMA SumType == ASSUME NEW x \in Worker PROVE Sum(x) \in Nat
BY DEF Sum, Worker

LEMMA InitExecutor == Init => ExecutorInv
<1> SUFFICES ASSUME Init PROVE ExecutorInv
  OBVIOUS
<1>1. Len(workers) = 0 /\ DOMAIN workers = {} /\ workers \in Seq(Worker) /\ jobs \in Seq(Tasks)
  BY DEF Init
<1> QED BY <1>1, WorkersAssumption DEF Init, ExecutorInv, ExecutorTypeOK, PendingCounts

\* A step of a thread, or of the drop, that changes one worker: its counter
\* goes with what it has to do, which does not grow.
LEMMA WorkerChanges ==
    ASSUME ExecutorInv, NEW w \in DOMAIN workers, NEW e \in Worker,
           workers' = [workers EXCEPT ![w] = e], UNCHANGED <<inner, call, jobs>>,
           e.pending - Sum(e) = workers[w].pending - Sum(workers[w]),
           Sum(e) <= Sum(workers[w])
    PROVE  ExecutorInv'
<1>1. /\ workers' \in Seq(Worker) /\ Len(workers') = Len(workers)
      /\ DOMAIN workers' = DOMAIN workers
      /\ workers'[w] = e /\ \A v \in DOMAIN workers : v # w => workers'[v] = workers[v]
  BY Replaced DEF ExecutorInv, ExecutorTypeOK
<1>2. \A v \in DOMAIN workers : /\ workers[v] \in Worker /\ workers[v].pending \in Nat
                                /\ Sum(workers[v]) \in Nat /\ Chosen(v)' = Chosen(v)
  BY SumType DEF ExecutorInv, PendingCounts, Worker, Chosen
<1>3. e.pending \in Nat /\ Sum(e) \in Nat
  BY SumType DEF Worker
<1>4. PendingCounts'
  BY <1>1, <1>2, <1>3 DEF ExecutorInv, PendingCounts, InStage
<1>5. \A v \in DOMAIN workers : Load(v)' <= Load(v) /\ Load(v) \in Nat /\ Load(v)' \in Nat
  BY <1>1, <1>2, <1>3 DEF Load
<1>6. ExecutorTypeOK'
  BY <1>1 DEF ExecutorInv, ExecutorTypeOK
<1> QED BY <1>1, <1>4, <1>5, <1>6 DEF ExecutorInv

LEMMA ThreadSteps ==
    ASSUME ExecutorInv, NEW w \in DOMAIN workers,
           WorkerStep(w) \/ Close(w)
    PROVE  ExecutorInv'
<1> DEFINE x == workers[w]
<1>1. /\ x \in Worker /\ x.queue \in Seq(Jobs) /\ x.pending \in Nat /\ x.job \in Jobs \cup {None}
      /\ x.pending >= Sum(x)
      /\ workers \in Seq(Worker)
  <2>1. x \in Worker /\ Sum(x) \in Nat /\ workers \in Seq(Worker)
    BY SumType DEF ExecutorInv, ExecutorTypeOK, PendingCounts
  <2>2. x.pending = Sum(x) + (IF InStage("send") /\ call.best = w THEN 1 ELSE 0)
    BY DEF ExecutorInv, PendingCounts
  <2> QED BY <2>1, <2>2 DEF Worker
<1> HIDE DEF x
<1>2. CASE Recv(w)
  <2> DEFINE e == [x EXCEPT !.thread = "run", !.job = Head(x.queue), !.queue = Tail(@)]
  <2>1. /\ x.thread = "recv" /\ x.queue # <<>>
        /\ workers' = [workers EXCEPT ![w] = e] /\ UNCHANGED <<inner, call, jobs>>
    BY <1>2 DEF Recv, x
  <2>2. /\ Head(x.queue) \in Jobs /\ Tail(x.queue) \in Seq(Jobs)
        /\ Len(Tail(x.queue)) = Len(x.queue) - 1 /\ Len(x.queue) \in Nat
    BY <1>1, <2>1
  <2>3. e \in Worker /\ e.pending = x.pending /\ Sum(e) = Sum(x)
    <3>1. /\ e \in Worker /\ e.pending = x.pending /\ e.thread = "run"
          /\ e.queue = Tail(x.queue)
      BY <1>1, <2>2 DEF Worker
    <3>2. Sum(x) = Len(x.queue) /\ Sum(e) = Len(x.queue) - 1 + 1
      BY <2>1, <2>2, <3>1 DEF Sum
    <3> QED BY <2>2, <3>1, <3>2
  <2> HIDE DEF e
  <2>4. e.pending - Sum(e) = x.pending - Sum(x) /\ Sum(e) <= Sum(x)
    BY <1>1, <2>3, SumType
  <2> QED BY <2>1, <2>3, <2>4, WorkerChanges DEF x
<1>3. CASE Run(w)
  <2> DEFINE e == [x EXCEPT !.thread = "count", !.job = None]
  <2>1. /\ x.thread = "run"
        /\ workers' = [workers EXCEPT ![w] = e] /\ UNCHANGED <<inner, call, jobs>>
    BY <1>3 DEF Run, x
  <2>2. e \in Worker /\ e.pending = x.pending /\ Sum(e) = Sum(x)
    BY <1>1, <2>1 DEF Worker, Sum
  <2> HIDE DEF e
  <2>3. e.pending - Sum(e) = x.pending - Sum(x) /\ Sum(e) <= Sum(x)
    BY <1>1, <2>2, SumType
  <2> QED BY <2>1, <2>2, <2>3, WorkerChanges DEF x
<1>4. CASE Finish(w)
  <2> DEFINE e == [x EXCEPT !.thread = "recv", !.pending = @ - 1]
  <2>1. /\ x.thread = "count"
        /\ workers' = [workers EXCEPT ![w] = e] /\ UNCHANGED <<inner, call, jobs>>
    BY <1>4 DEF Finish, Uncount, x
  <2>2. Sum(x) = Len(x.queue) + 1 /\ Len(x.queue) \in Nat
    BY <1>1, <2>1 DEF Sum
  <2>3. e \in Worker /\ e.pending = x.pending - 1 /\ Sum(e) = Len(x.queue)
    <3>1. x.pending - 1 \in Nat
      BY <1>1, <2>2
    <3>2. /\ e \in Worker /\ e.pending = x.pending - 1 /\ e.thread = "recv"
          /\ e.queue = x.queue
      BY <1>1, <3>1 DEF Worker
    <3> QED BY <2>2, <3>2 DEF Sum
  <2> HIDE DEF e
  <2>4. e.pending - Sum(e) = x.pending - Sum(x) /\ Sum(e) <= Sum(x)
    BY <1>1, <2>2, <2>3
  <2> QED BY <2>1, <2>3, <2>4, WorkerChanges DEF x
<1>5. CASE Exit(w)
  <2> DEFINE e == [x EXCEPT !.thread = "exited"]
  <2>1. /\ x.thread = "recv"
        /\ workers' = [workers EXCEPT ![w] = e] /\ UNCHANGED <<inner, call, jobs>>
    BY <1>5 DEF Exit, x
  <2>2. e \in Worker /\ e.pending = x.pending /\ Sum(e) = Sum(x)
    BY <1>1, <2>1 DEF Worker, Sum
  <2> HIDE DEF e
  <2>3. e.pending - Sum(e) = x.pending - Sum(x) /\ Sum(e) <= Sum(x)
    BY <1>1, <2>2, SumType
  <2> QED BY <2>1, <2>2, <2>3, WorkerChanges DEF x
<1>6. CASE Close(w)
  <2> DEFINE e == [x EXCEPT !.open = FALSE]
  <2>1. workers' = [workers EXCEPT ![w] = e] /\ UNCHANGED <<inner, call, jobs>>
    BY <1>6 DEF Close, x
  <2>2. e \in Worker /\ e.pending = x.pending /\ Sum(e) = Sum(x)
    BY <1>1, <2>1 DEF Worker, Sum
  <2> HIDE DEF e
  <2>3. e.pending - Sum(e) = x.pending - Sum(x) /\ Sum(e) <= Sum(x)
    BY <1>1, <2>2, SumType
  <2> QED BY <2>1, <2>2, <2>3, WorkerChanges DEF x
<1> QED BY <1>2, <1>3, <1>4, <1>5, <1>6 DEF WorkerStep

\* A step of the caller that changes no worker: the list is as it was, so all
\* depends on what the caller holds then.
LEMMA CallerLooks ==
    ASSUME ExecutorInv, UNCHANGED <<inner, workers>>, jobs' \in Seq(Tasks),
           call' \in Call \cup {None},
           call' # None =>
             /\ call'.at >= 1
             /\ call'.stage \in {"idle", "least", "count"}
             /\ call'.stage = "least" => Len(workers) = MaxWorkers /\ call'.best \in DOMAIN workers
             /\ call'.stage = "count" =>
                  /\ call'.best \in DOMAIN workers
                  /\ workers[call'.best].pending = 0 \/ Len(workers) = MaxWorkers,
           ~InStage("send")
    PROVE  ExecutorInv'
<1>1. \A w \in DOMAIN workers : /\ workers[w] \in Worker /\ workers[w].pending = Sum(workers[w])
                                /\ Sum(workers[w]) \in Nat
  BY SumType DEF ExecutorInv, PendingCounts
<1>2. PendingCounts'
  BY <1>1 DEF PendingCounts, InStage
<1>3. ASSUME Len(workers) < MaxWorkers, NEW w \in DOMAIN workers PROVE Load(w)' <= 1
  <2>1. Sum(workers[w]) <= Load(w) /\ Load(w) <= 1 /\ Load(w) \in Nat
    BY <1>1, <1>3 DEF ExecutorInv, Load
  <2>2. Chosen(w)' => Sum(workers[w]) = 0
    BY <1>1, <1>3, WorkersAssumption DEF Chosen, ExecutorInv, ExecutorTypeOK
  <2> QED BY <1>1, <2>1, <2>2 DEF Load
<1>4. ExecutorTypeOK'
  BY DEF ExecutorInv, ExecutorTypeOK
<1> QED BY <1>2, <1>3, <1>4 DEF ExecutorInv

LEMMA LookSteps ==
    ASSUME ExecutorInv, LookIdle \/ BeginLeast \/ LookLeast \/ StartFails
    PROVE  ExecutorInv'
<1>1. /\ call \in Call /\ call # None /\ call.at \in Nat /\ call.at >= 1 /\ call.best \in Nat
      /\ call.least \in Int /\ ~InStage("send") /\ UNCHANGED <<inner, workers, jobs>>
      /\ jobs \in Seq(Tasks)
  BY DEF ExecutorInv, ExecutorTypeOK, Call, LookIdle, BeginLeast, LookLeast, StartFails, InStage
<1>2. /\ Len(workers) \in Nat /\ DOMAIN workers = 1 .. Len(workers)
      /\ Len(workers) <= MaxWorkers /\ MaxWorkers \in Nat /\ MaxWorkers >= 1
      /\ \A w \in DOMAIN workers : workers[w].pending \in Nat
  BY WorkersAssumption DEF ExecutorInv, ExecutorTypeOK, PendingCounts, Worker
<1>3. CASE LookIdle
  <2>1. CASE call.at <= Len(workers) /\ workers[call.at].pending = 0
    <3>1. call' = [call EXCEPT !.stage = "count", !.best = call.at]
      BY <1>3, <2>1 DEF LookIdle, Choose
    <3>2. /\ call' \in Call /\ call'.stage = "count" /\ call'.best = call.at
          /\ call'.at = call.at
      BY <1>1, <3>1 DEF Call, Stages
    <3>3. call.at \in DOMAIN workers
      BY <1>1, <1>2, <2>1
    <3> QED BY <1>1, <2>1, <3>2, <3>3, CallerLooks
  <2>2. CASE ~(call.at <= Len(workers) /\ workers[call.at].pending = 0)
    <3>1. call' = [call EXCEPT !.at = @ + 1] /\ call.stage = "idle"
      BY <1>3, <2>2 DEF LookIdle, InStage
    <3>2. call' \in Call /\ call'.stage = "idle" /\ call'.at = call.at + 1
      BY <1>1, <3>1 DEF Call, Stages
    <3> QED BY <1>1, <1>2, <3>2, CallerLooks
  <2> QED BY <2>1, <2>2
<1>4. CASE BeginLeast
  <2>1. Len(workers) = MaxWorkers
    BY <1>2, <1>4 DEF BeginLeast, RoomForWorker
  <2>2. call' = [call EXCEPT !.stage = "least", !.at = 2, !.best = 1, !.least = workers[1].pending]
    BY <1>4 DEF BeginLeast
  <2>3. call' \in Call /\ call'.stage = "least" /\ call'.at = 2 /\ call'.best = 1
    <3>1. workers[1].pending \in Int /\ 1 \in DOMAIN workers
      BY <1>2, <2>1
    <3> QED BY <1>1, <2>2, <3>1 DEF Call, Stages
  <2> QED BY <1>1, <1>2, <2>1, <2>3, CallerLooks
<1>5. CASE LookLeast
  <2>1. Len(workers) = MaxWorkers /\ call.best \in DOMAIN workers /\ call.stage = "least"
    BY <1>5 DEF ExecutorInv, LookLeast, InStage
  <2>2. CASE call.at > Len(workers)
    <3>1. call' = [call EXCEPT !.stage = "count", !.best = call.best]
      BY <1>5, <2>2 DEF LookLeast, Choose
    <3>2. /\ call' \in Call /\ call'.stage = "count" /\ call'.best = call.best
          /\ call'.at = call.at
      BY <1>1, <3>1 DEF Call, Stages
    <3> QED BY <1>1, <2>1, <3>2, CallerLooks
  <2>3. CASE ~(call.at > Len(workers))
    <3>1. call.at \in DOMAIN workers /\ workers[call.at].pending \in Nat
      BY <1>1, <1>2, <2>3
    <3>2. PICK best \in {call.at, call.best}, least \in {workers[call.at].pending, call.least} :
            call' = [call EXCEPT !.at = @ + 1, !.best = best, !.least = least]
      BY <1>5, <2>3 DEF LookLeast
    <3>3. best \in DOMAIN workers /\ least \in Int
      BY <1>1, <2>1, <3>1
    <3>4. /\ call' \in Call /\ call'.stage = "least" /\ call'.best = best
          /\ call'.at = call.at + 1
      <4>1. best \in Nat /\ call.at + 1 \in Nat
        BY <1>1, <1>2, <3>3
      <4> QED BY <1>1, <2>1, <3>2, <3>3, <4>1 DEF Call
    <3> QED BY <1>1, <2>1, <3>3, <3>4, CallerLooks
  <2> QED BY <2>2, <2>3
<1>6. CASE StartFails
  BY <1>1, <1>6, CallerLooks DEF StartFails
<1> QED BY <1>3, <1>4, <1>5, <1>6

LEMMA StartWorkerStep ==
    ASSUME ExecutorInv, StartWorker
    PROVE  ExecutorInv'
<1> DEFINE n == Len(workers)
<1>1. /\ call \in Call /\ call # None /\ call.at >= 1 /\ call.stage = "idle"
      /\ UNCHANGED <<inner, jobs>> /\ workers \in Seq(Worker) /\ n \in Nat
      /\ DOMAIN workers = 1 .. n /\ n < MaxWorkers /\ MaxWorkers \in Nat
      /\ workers' = Append(workers, NewWorker)
      /\ call' = [call EXCEPT !.stage = "count", !.best = n + 1]
  BY WorkersAssumption
  DEF ExecutorInv, ExecutorTypeOK, StartWorker, RoomForWorker, InStage, Choose
<1>2. NewWorker \in Worker /\ NewWorker.pending = 0 /\ Sum(NewWorker) = 0
  BY DEF NewWorker, Worker, Sum
<1>3. /\ workers' \in Seq(Worker) /\ Len(workers') = n + 1 /\ DOMAIN workers' = 1 .. n + 1
      /\ workers'[n + 1] = NewWorker /\ \A w \in 1 .. n : workers'[w] = workers[w]
  BY <1>1, <1>2, Added
<1>4. call' \in Call /\ call'.stage = "count" /\ call'.best = n + 1 /\ call'.at = call.at
  <2>1. n + 1 \in Nat
    BY <1>1
  <2> HIDE DEF n
  <2> QED BY <1>1, <2>1 DEF Call, Stages
<1>5. \A w \in 1 .. n : /\ workers[w] \in Worker /\ workers[w].pending = Sum(workers[w])
                        /\ Sum(workers[w]) \in Nat /\ Sum(workers[w]) <= 1
  <2>1. \A w \in 1 .. n : Sum(workers[w]) \in Nat /\ Load(w) <= 1 /\ ~Chosen(w)
    BY <1>1, SumType DEF ExecutorInv, Chosen
  <2> QED BY <1>1, <2>1 DEF ExecutorInv, PendingCounts, InStage, Load
<1>6. call' # None
  BY <1>4, NoneAssumption
<1> HIDE DEF n
<1>7. PendingCounts'
  BY <1>1, <1>2, <1>3, <1>4, <1>5 DEF PendingCounts, InStage
<1>8. \A w \in DOMAIN workers' : Load(w)' <= 1
  BY <1>1, <1>2, <1>3, <1>4, <1>5 DEF Load, Chosen
<1>9. ExecutorTypeOK'
  BY <1>1, <1>3, <1>4 DEF ExecutorInv, ExecutorTypeOK
<1> QED BY <1>1, <1>3, <1>4, <1>7, <1>8, <1>9 DEF ExecutorInv

LEMMA GiveSteps ==
    ASSUME ExecutorInv, Count \/ Send
    PROVE  ExecutorInv'
<1> DEFINE w == call.best
           x == workers[w]
<1>1. /\ call \in Call /\ call # None /\ call.at >= 1 /\ call.job \in Jobs
      /\ w \in DOMAIN workers /\ workers \in Seq(Worker) /\ UNCHANGED <<inner, jobs>>
      /\ InStage("count") \/ InStage("send")
  BY DEF ExecutorInv, ExecutorTypeOK, Call, Count, Send, InStage
<1>2. \A v \in DOMAIN workers : /\ workers[v] \in Worker /\ Sum(workers[v]) \in Nat
                                /\ v # w => workers[v].pending = Sum(workers[v])
                                /\ v # w => ~Chosen(v)
  BY SumType DEF ExecutorInv, PendingCounts, Chosen
<1>3. /\ x \in Worker /\ x.pending \in Nat /\ x.queue \in Seq(Jobs)
      /\ x.pending = Sum(x) + (IF InStage("send") THEN 1 ELSE 0)
      /\ Load(w) = Sum(x) + 1
  BY <1>1, <1>2 DEF ExecutorInv, PendingCounts, Worker, Load, Chosen, InStage
<1>4. CASE Count
  <2> DEFINE e == [x EXCEPT !.pending = @ + 1]
  <2>1. /\ workers' = [workers EXCEPT ![w] = e] /\ call' = [call EXCEPT !.stage = "send"]
        /\ InStage("count")
    BY <1>4 DEF Count, CountThenSend, Counted
  <2>2. e \in Worker /\ e.pending = x.pending + 1 /\ Sum(e) = Sum(x)
    <3> HIDE DEF x
    <3>1. x.pending + 1 \in Nat
      BY <1>3
    <3>2. /\ e \in Worker /\ e.pending = x.pending + 1 /\ e.thread = x.thread
          /\ e.queue = x.queue
      BY <1>3, <3>1 DEF Worker
    <3> QED BY <3>2 DEF Sum
  <2> HIDE DEF e
  <2>3. /\ workers' \in Seq(Worker) /\ Len(workers') = Len(workers)
        /\ DOMAIN workers' = DOMAIN workers
        /\ workers'[w] = e /\ \A v \in DOMAIN workers : v # w => workers'[v] = workers[v]
    BY <1>1, <2>1, <2>2, Replaced
  <2>4. call' \in Call /\ call'.stage = "send" /\ call'.best = w /\ call'.at = call.at
    BY <1>1, <2>1 DEF Call, Stages
  <2>5. call' # None
    BY <2>4, NoneAssumption
  <2> HIDE DEF w, x
  <2>6. PendingCounts'
    BY <1>2, <1>3, <2>1, <2>2, <2>3, <2>4, <2>5 DEF PendingCounts, InStage, x
  <2>7. \A v \in DOMAIN workers : Load(v)' = Load(v)
    BY <1>1, <1>2, <1>3, <2>2, <2>3, <2>4, <2>5 DEF Load, Chosen, x
  <2>8. ExecutorTypeOK'
    BY <1>1, <2>3, <2>4 DEF ExecutorInv, ExecutorTypeOK
  <2> QED BY <1>1, <2>3, <2>4, <2>6, <2>7, <2>8 DEF ExecutorInv
<1>5. CASE Send
  <2> DEFINE e == [x EXCEPT !.queue = Append(@, call.job)]
  <2>1. /\ workers' = [workers EXCEPT ![w] = e] /\ call' = None /\ InStage("send")
    BY <1>5 DEF Send, CountThenSend, Sent, InStage
  <2>2. Append(x.queue, call.job) \in Seq(Jobs) /\ Len(Append(x.queue, call.job)) = Len(x.queue) + 1
    BY <1>1, <1>3
  <2> HIDE DEF e
  <2>3. e \in Worker /\ e.pending = x.pending /\ Sum(e) = Sum(x) + 1
    <3> HIDE DEF x
    <3> DEFINE q == Append(x.queue, call.job)
    <3>1. Len(x.queue) \in Nat /\ Len(q) = Len(x.queue) + 1 /\ q \in Seq(Jobs)
      BY <1>3, <2>2
    <3> HIDE DEF q
    <3>2. e = [x EXCEPT !.queue = q]
      BY DEF e, q
    <3>3. /\ e \in Worker /\ e.pending = x.pending /\ e.thread = x.thread /\ e.queue = q
      BY <1>3, <3>1, <3>2 DEF Worker
    <3>4. CASE x.thread \in {"run", "count"}
      BY <3>1, <3>3, <3>4 DEF Sum
    <3>5. CASE x.thread \notin {"run", "count"}
      BY <3>1, <3>3, <3>5 DEF Sum
    <3> QED BY <3>4, <3>5
  <2>4. /\ workers' \in Seq(Worker) /\ Len(workers') = Len(workers)
        /\ DOMAIN workers' = DOMAIN workers
        /\ workers'[w] = e /\ \A v \in DOMAIN workers : v # w => workers'[v] = workers[v]
    BY <1>1, <2>1, <2>3, Replaced
  <2> HIDE DEF w, x
  <2>5. PendingCounts'
    BY <1>2, <1>3, <2>1, <2>3, <2>4 DEF PendingCounts, InStage, x
  <2>6. \A v \in DOMAIN workers : Load(v)' = Load(v)
    BY <1>1, <1>2, <1>3, <2>1, <2>3, <2>4 DEF Load, Chosen, x
  <2>7. ExecutorTypeOK'
    BY <1>1, <2>1, <2>4 DEF ExecutorInv, ExecutorTypeOK
  <2> QED BY <2>1, <2>4, <2>5, <2>6, <2>7 DEF ExecutorInv
<1> QED BY <1>4, <1>5

LEMMA NextExecutor == ExecutorInv /\ [Next]_vars => ExecutorInv'
<1> SUFFICES ASSUME ExecutorInv, [Next]_vars PROVE ExecutorInv'
  OBVIOUS
<1>1. CASE UNCHANGED <<inner, workers, call>> /\ jobs' \in Seq(Tasks)
  BY <1>1 DEF ExecutorInv, ExecutorTypeOK, PendingCounts, InStage, Load, Chosen
<1>2. ASSUME NEW j \in Jobs, Begin(j) PROVE ExecutorInv'
  <2>1. /\ call = None /\ UNCHANGED <<inner, workers, jobs>> /\ jobs \in Seq(Tasks)
        /\ call' = [job |-> j, stage |-> "idle", at |-> 1, best |-> 1, least |-> 0]
    BY <1>2 DEF Begin, ExecutorInv, ExecutorTypeOK
  <2>2. call' \in Call /\ call'.at = 1 /\ call'.stage = "idle" /\ ~InStage("send")
    BY <2>1 DEF Call, Stages, InStage
  <2> QED BY <2>1, <2>2, CallerLooks
<1>3. ASSUME NEW t \in Tasks, SpawnTask(t) PROVE ExecutorInv'
  BY <1>1, <1>3 DEF SpawnTask, ExecutorInv, ExecutorTypeOK
<1>4. CASE StartTask
  BY <1>1, <1>4 DEF StartTask, ExecutorInv, ExecutorTypeOK
<1>5. CASE \/ \E t \in Tasks : EndTask(t)
           \/ Drop \/ StopRuntime \/ Dropped
           \/ UNCHANGED vars
  BY <1>1, <1>5 DEF EndTask, Drop, StopRuntime, Dropped, vars, ExecutorInv, ExecutorTypeOK
<1>6. CASE DropStep \/ \E w \in DOMAIN workers : WorkerStep(w)
  BY <1>5, <1>6, ThreadSteps DEF DropStep
<1>7. CASE CallStep
  BY <1>7, LookSteps, StartWorkerStep, GiveSteps DEF CallStep
<1> QED BY <1>2, <1>3, <1>4, <1>5, <1>6, <1>7 DEF Next

\* A pending counter is the number of jobs a worker has, one more while a
\* caller has counted a job and not sent it yet, whatever the threads do
\* meanwhile (executor.rs:286, 317, 335).
THEOREM CountersAreTrue == Spec => []PendingCounts
<1>1. ExecutorInv => PendingCounts
  BY DEF ExecutorInv
<1> QED BY <1>1, InitExecutor, NextExecutor, PTL DEF Spec

\* A job waits behind another only when no further worker may be started,
\* although the counters change while a caller reads them
\* (executor.rs:228-240).
THEOREM JobsQueueOnlyWhenFull == Spec => []QueuesOnlyWhenFull
<1>1. ExecutorInv => QueuesOnlyWhenFull
  <2> SUFFICES ASSUME ExecutorInv, NEW w \in DOMAIN workers, Sum(workers[w]) > 1
               PROVE  Len(workers) = MaxWorkers
    BY DEF QueuesOnlyWhenFull
  <2>1. Sum(workers[w]) \in Nat
    BY SumType DEF ExecutorInv, PendingCounts
  <2>2. ~(Load(w) <= 1)
    BY <2>1 DEF Load
  <2>3. Len(workers) \in Nat /\ MaxWorkers \in Nat
    BY WorkersAssumption DEF ExecutorInv, ExecutorTypeOK
  <2> QED BY <2>2, <2>3 DEF ExecutorInv
<1> QED BY <1>1, InitExecutor, NextExecutor, PTL DEF Spec
-----------------------------------------------------------------------------
(* Nothing is forgotten.                                                   *)

\* A worker has the job on its thread or in its queue.
WorkerHas(worker, t) ==
    \/ worker.thread = "run" /\ worker.job = t
    \/ \E i \in DOMAIN worker.queue : worker.queue[i] = t

OnWorkers(t) == \E w \in DOMAIN workers : WorkerHas(workers[w], t)

\* Whoever is to resolve a task: its caller, a worker or the runtime.
Held(t) ==
    \/ call # None /\ call.job = t
    \/ OnWorkers(t)
    \/ t \in running
    \/ \E i \in DOMAIN jobs : jobs[i] = t

\* How far the drop has got is known from what it leaves behind.
DropInv ==
    /\ dropping \in {"no", "async", "blocking", "done"}
    /\ dropping # "no" => call = None
    /\ dropping \in {"blocking", "done"} => jobs = <<>> /\ running = {}
    /\ \A w \in DOMAIN workers :
         /\ ~workers[w].open => dropping \in {"blocking", "done"}
         /\ workers[w].thread = "exited" => ~workers[w].open /\ workers[w].queue = <<>>
    /\ dropping = "done" => \A w \in DOMAIN workers : workers[w].thread = "exited"

WaitingHeld == \A t \in Jobs \cup Tasks : result[t] = "waiting" => Held(t)

KeptInv ==
    /\ ExecutorInv /\ DropInv /\ WaitingHeld
    /\ result = [t \in Jobs \cup Tasks |-> result[t]]

\* A thread goes on with what its worker has, and what it ends is resolved.
LEMMA ThreadKeeps ==
    ASSUME KeptInv, NEW w \in DOMAIN workers, WorkerStep(w) \/ Close(w)
    PROVE  KeptInv'
<1> DEFINE x == workers[w]
           e == workers'[w]
<1>0. /\ ExecutorInv /\ DropInv /\ WaitingHeld /\ ExecutorInv'
      /\ result = [t \in Jobs \cup Tasks |-> result[t]]
  BY ThreadSteps DEF KeptInv
<1>1. /\ workers \in Seq(Worker) /\ x \in Worker /\ x.queue \in Seq(Jobs)
      /\ UNCHANGED <<call, jobs, running, dropping>>
  <2>1. workers \in Seq(Worker) /\ x \in Worker
    BY <1>0 DEF ExecutorInv, ExecutorTypeOK
  <2>2. UNCHANGED <<call, jobs, running, dropping>>
    BY DEF WorkerStep, Recv, Run, Finish, Exit, Close
  <2> QED BY <2>1, <2>2 DEF Worker
<1>2. /\ workers' = [workers EXCEPT ![w] = e]
      /\ x.thread # "exited"
      /\ ~e.open => dropping \in {"blocking", "done"}
      /\ e.thread = "exited" => ~e.open /\ e.queue = <<>>
  <2>1. CASE Recv(w)
    BY <1>0, <1>1, <2>1 DEF Recv, Worker, DropInv
  <2>2. CASE Run(w)
    BY <1>0, <1>1, <2>2 DEF Run, Worker, DropInv
  <2>3. CASE Finish(w)
    BY <1>0, <1>1, <2>3 DEF Finish, Uncount, Worker, DropInv
  <2>4. CASE Exit(w)
    BY <1>0, <1>1, <2>4 DEF Exit, Worker, DropInv
  <2>5. CASE Close(w)
    <3>1. x.open /\ dropping = "blocking" /\ workers' = [workers EXCEPT ![w].open = FALSE]
      BY <2>5 DEF Close
    <3>2. x.thread # "exited"
      BY <1>0, <3>1 DEF DropInv
    <3> QED BY <1>1, <3>1, <3>2 DEF Worker
  <2> QED BY <2>1, <2>2, <2>3, <2>4, <2>5 DEF WorkerStep
<1>3. \A t : WorkerHas(x, t) => WorkerHas(e, t) \/ result'[t] # "waiting" \/ t \notin Jobs \cup Tasks
  <2> SUFFICES ASSUME NEW t \in Jobs \cup Tasks, WorkerHas(x, t)
               PROVE  WorkerHas(e, t) \/ result'[t] # "waiting"
    OBVIOUS
  <2>1. CASE Recv(w)
    <3>1. /\ e.thread = "run" /\ e.job = Head(x.queue) /\ e.queue = Tail(x.queue)
          /\ x.queue # <<>> /\ x.thread = "recv"
      BY <1>1, <2>1 DEF Recv, Worker
    <3>2. PICK i \in DOMAIN x.queue : x.queue[i] = t
      BY <3>1 DEF WorkerHas
    <3>3. CASE i = 1
      BY <1>1, <3>1, <3>2, <3>3 DEF WorkerHas
    <3>4. CASE i # 1
      <4> HIDE DEF x, e
      <4>1. i - 1 \in DOMAIN Tail(x.queue) /\ Tail(x.queue)[i - 1] = t
        BY <1>1, <3>1, <3>2, <3>4
      <4> QED BY <3>1, <4>1 DEF WorkerHas
    <3> QED BY <3>3, <3>4
  <2>2. CASE Run(w)
    <3>1. /\ e.queue = x.queue
          /\ \E outcome \in {"value", "error"} : result' = [result EXCEPT ![x.job] = outcome]
      BY <1>1, <2>2 DEF Run, Worker
    <3>2. x.job = t => result'[t] # "waiting"
      BY <1>0, <3>1
    <3> QED BY <3>1, <3>2 DEF WorkerHas
  <2>3. CASE Finish(w)
    BY <1>1, <2>3 DEF Finish, Uncount, Worker, WorkerHas
  <2>4. CASE Exit(w)
    BY <1>1, <2>4 DEF Exit, Worker, WorkerHas
  <2>5. CASE Close(w)
    BY <1>1, <2>5 DEF Close, Worker, WorkerHas
  <2> QED BY <2>1, <2>2, <2>3, <2>4, <2>5 DEF WorkerStep
<1>4. /\ result' = [t \in Jobs \cup Tasks |-> result'[t]]
      /\ \A t \in Jobs \cup Tasks : result'[t] = "waiting" => result[t] = "waiting"
  <2>1. UNCHANGED result \/ \E outcome \in {"value", "error"} : result' = [result EXCEPT ![x.job] = outcome]
    BY DEF WorkerStep, Recv, Run, Finish, Exit, Close
  <2> QED BY <1>0, <2>1
<1>5. \A v \in DOMAIN workers : v # w => workers'[v] = workers[v]
  BY <1>1, <1>2
<1>6. DOMAIN workers' = DOMAIN workers
  BY <1>1, <1>2
<1>7. WaitingHeld'
  <2> SUFFICES ASSUME NEW t \in Jobs \cup Tasks, result'[t] = "waiting" PROVE Held(t)'
    BY DEF WaitingHeld
  <2>1. Held(t)
    BY <1>0, <1>4 DEF WaitingHeld
  <2>2. OnWorkers(t) => OnWorkers(t)'
    <3> HIDE DEF x, e
    <3> SUFFICES ASSUME NEW v \in DOMAIN workers, WorkerHas(workers[v], t)
                 PROVE  WorkerHas(workers'[v], t)
      BY <1>6 DEF OnWorkers
    <3>1. CASE v = w
      BY <1>3, <3>1 DEF x, e
    <3>2. CASE v # w
      BY <1>5, <3>2
    <3> QED BY <3>1, <3>2
  <2> QED BY <1>1, <2>1, <2>2 DEF Held
<1>8. DropInv'
  <2> HIDE DEF x, e
  <2>1. dropping # "done"
    BY <1>0, <1>2 DEF DropInv, x
  <2>2. \A v \in DOMAIN workers' :
          /\ ~workers'[v].open => dropping \in {"blocking", "done"}
          /\ workers'[v].thread = "exited" => ~workers'[v].open /\ workers'[v].queue = <<>>
    BY <1>0, <1>2, <1>5, <1>6 DEF DropInv, e
  <2> QED BY <1>0, <1>1, <2>1, <2>2 DEF DropInv
<1> QED BY <1>0, <1>4, <1>7, <1>8 DEF KeptInv

\* A caller lets go of its job when it has sent it, or answered the error.
LEMMA CallerKeeps ==
    ASSUME KeptInv, CallStep \/ \E j \in Jobs : Begin(j)
    PROVE  KeptInv'
<1>0. /\ ExecutorInv /\ DropInv /\ WaitingHeld /\ ExecutorInv'
      /\ result = [t \in Jobs \cup Tasks |-> result[t]]
      /\ UNCHANGED <<jobs, running, dropping>> /\ workers \in Seq(Worker)
  <2>1. [Next]_vars
    BY DEF Next
  <2>2. UNCHANGED <<jobs, running, dropping>>
    BY DEF CallStep, Begin, LookIdle, StartWorker, StartFails, BeginLeast, LookLeast, Count, Send
  <2> QED BY <2>1, <2>2, NextExecutor DEF KeptInv, ExecutorInv, ExecutorTypeOK
<1>1. dropping = "no"
  BY <1>0 DEF DropInv, Begin, CallStep, LookIdle, StartWorker, StartFails, BeginLeast,
              LookLeast, Count, Send, InStage
<1>2. \A w \in DOMAIN workers : workers[w].open /\ workers[w].thread # "exited"
  BY <1>0, <1>1 DEF DropInv
<1>3. ASSUME UNCHANGED <<workers, result>>, call # None, call' # None, call'.job = call.job
      PROVE  KeptInv'
  BY <1>0, <1>1, <1>3 DEF KeptInv, WaitingHeld, Held, OnWorkers, DropInv
<1>4. CASE LookIdle \/ BeginLeast \/ LookLeast
  <2>1. /\ UNCHANGED <<workers, result>> /\ call # None /\ call \in Call /\ call.at \in Nat
        /\ call.best \in Nat /\ call.least \in Int
        /\ \A w \in DOMAIN workers : workers[w].pending \in Nat
        /\ Len(workers) \in Nat /\ DOMAIN workers = 1 .. Len(workers)
        /\ MaxWorkers \in Nat /\ MaxWorkers >= 1
    BY <1>0, <1>4, WorkersAssumption
    DEF ExecutorInv, ExecutorTypeOK, PendingCounts, Worker, Call, LookIdle, BeginLeast, LookLeast,
        InStage
  <2>2. CASE LookIdle
    <3>1. \/ call' = [call EXCEPT !.stage = "count", !.best = call.at]
          \/ call' = [call EXCEPT !.at = @ + 1]
      BY <2>2 DEF LookIdle, Choose
    <3>1a. call.at + 1 \in Nat
      BY <2>1
    <3>2. call' \in Call /\ call'.job = call.job
      <4>1. CASE call' = [call EXCEPT !.stage = "count", !.best = call.at]
        BY <2>1, <4>1 DEF Call, Stages
      <4>2. CASE call' = [call EXCEPT !.at = @ + 1]
        BY <2>1, <3>1a, <4>2 DEF Call
      <4> QED BY <3>1, <4>1, <4>2
    <3> QED BY <1>3, <2>1, <3>2, NoneAssumption
  <2>3. CASE BeginLeast
    <3>1. workers[1].pending \in Int
      BY <2>1, <2>3, <1>0 DEF BeginLeast, RoomForWorker
    <3>2. call' = [call EXCEPT !.stage = "least", !.at = 2, !.best = 1, !.least = workers[1].pending]
      BY <2>3 DEF BeginLeast
    <3>3. call' \in Call /\ call'.job = call.job
      BY <2>1, <3>1, <3>2 DEF Call, Stages
    <3> QED BY <1>3, <2>1, <3>3, NoneAssumption
  <2>4. CASE LookLeast
    <3>1. CASE call.at > Len(workers)
      <4>1. call' = [call EXCEPT !.stage = "count", !.best = call.best]
        BY <2>4, <3>1 DEF LookLeast, Choose
      <4>2. call' \in Call /\ call'.job = call.job
        BY <2>1, <4>1 DEF Call, Stages
      <4> QED BY <1>3, <2>1, <4>2, NoneAssumption
    <3>2. CASE ~(call.at > Len(workers))
      <4>1. PICK best \in {call.at, call.best}, least \in {workers[call.at].pending, call.least} :
              call' = [call EXCEPT !.at = @ + 1, !.best = best, !.least = least]
        BY <2>4, <3>2 DEF LookLeast
      <4>2. call.at \in DOMAIN workers
        BY <1>0, <2>1, <2>4, <3>2 DEF ExecutorInv
      <4>3. best \in Nat /\ least \in Int /\ call.at + 1 \in Nat
        BY <2>1, <4>2
      <4>4. call' \in Call /\ call'.job = call.job
        BY <2>1, <4>1, <4>3 DEF Call
      <4> QED BY <1>3, <2>1, <4>4, NoneAssumption
    <3> QED BY <3>1, <3>2
  <2> QED BY <1>4, <2>2, <2>3, <2>4
<1>5. CASE StartWorker
  <2> DEFINE n == Len(workers)
  <2>1. /\ call \in Call /\ call # None /\ n \in Nat /\ DOMAIN workers = 1 .. n
        /\ workers' = Append(workers, NewWorker) /\ UNCHANGED result
        /\ call' = [call EXCEPT !.stage = "count", !.best = n + 1]
    BY <1>0, <1>5 DEF ExecutorInv, ExecutorTypeOK, StartWorker, InStage, Choose
  <2>2. NewWorker \in Worker /\ NewWorker.open /\ NewWorker.thread = "recv"
    BY DEF NewWorker, Worker
  <2>3. /\ DOMAIN workers' = 1 .. n + 1 /\ workers'[n + 1] = NewWorker
        /\ \A w \in 1 .. n : workers'[w] = workers[w]
    BY <1>0, <2>1, <2>2, Added
  <2> HIDE DEF n
  <2>4. call' \in Call /\ call'.job = call.job
    <3>1. n + 1 \in Nat
      BY <2>1
    <3> QED BY <2>1, <3>1 DEF Call, Stages
  <2>5. \A t : OnWorkers(t) => OnWorkers(t)'
    BY <2>1, <2>3 DEF OnWorkers
  <2>6. WaitingHeld'
    BY <1>0, <2>1, <2>4, <2>5, NoneAssumption DEF WaitingHeld, Held
  <2>7. DropInv'
    BY <1>0, <1>1, <2>1, <2>2, <2>3 DEF DropInv
  <2> QED BY <1>0, <2>1, <2>6, <2>7 DEF KeptInv
<1>6. CASE StartFails
  <2>1. /\ result' = [result EXCEPT ![call.job] = "refused"] /\ call' = None
        /\ UNCHANGED workers
    BY <1>6 DEF StartFails
  <2>2. /\ result' = [t \in Jobs \cup Tasks |-> result'[t]]
        /\ \A t \in Jobs \cup Tasks : result'[t] = "waiting" => result[t] = "waiting" /\ t # call.job
    BY <1>0, <2>1
  <2>3. WaitingHeld'
    BY <1>0, <2>1, <2>2 DEF WaitingHeld, Held, OnWorkers
  <2> QED BY <1>0, <1>1, <2>1, <2>2, <2>3 DEF KeptInv, DropInv
<1>7. CASE Count \/ Send
  <2> DEFINE w == call.best
             x == workers[w]
             e == workers'[w]
  <2>1. /\ call \in Call /\ call # None /\ w \in DOMAIN workers /\ x \in Worker
        /\ x.queue \in Seq(Jobs) /\ call.job \in Jobs /\ UNCHANGED result
    BY <1>0, <1>7 DEF ExecutorInv, ExecutorTypeOK, PendingCounts, Count, Send, InStage, Call, Worker
  <2>2. /\ workers' = [workers EXCEPT ![w] = e]
        /\ e.open = x.open /\ e.thread = x.thread /\ e.job = x.job
        /\ Count => e.queue = x.queue /\ call' \in Call /\ call'.job = call.job
        /\ Send => e.queue = Append(x.queue, call.job) /\ call' = None
    <3>1. CASE Count
      <4>1. /\ workers' = [workers EXCEPT ![w] = [x EXCEPT !.pending = @ + 1]]
            /\ call' = [call EXCEPT !.stage = "send"] /\ InStage("count")
        BY <3>1 DEF Count, CountThenSend, Counted
      <4>2. ~Send
        BY <4>1 DEF Send, InStage
      <4>3. call' \in Call /\ call'.job = call.job
        BY <2>1, <4>1 DEF Call, Stages
      <4>4. e = [x EXCEPT !.pending = @ + 1]
        BY <1>0, <2>1, <4>1
      <4> QED BY <1>0, <2>1, <4>1, <4>2, <4>3, <4>4 DEF Worker
    <3>2. CASE Send
      <4>1. /\ workers' = [workers EXCEPT ![w] = [x EXCEPT !.queue = Append(@, call.job)]]
            /\ call' = None /\ InStage("send")
        BY <3>2 DEF Send, CountThenSend, Sent
      <4>2. ~Count
        BY <4>1 DEF Count, InStage
      <4>3. e = [x EXCEPT !.queue = Append(@, call.job)]
        BY <1>0, <2>1, <4>1
      <4> HIDE DEF w
      <4> QED BY <2>1, <4>1, <4>2, <4>3 DEF Worker
    <3> QED BY <1>7, <3>1, <3>2
  <2>3. /\ DOMAIN workers' = DOMAIN workers
        /\ \A v \in DOMAIN workers : v # w => workers'[v] = workers[v]
    BY <1>0, <2>1, <2>2
  <2> HIDE DEF w, x, e
  <2>4. /\ \A t : WorkerHas(x, t) => WorkerHas(e, t)
        /\ Send => WorkerHas(e, call.job)
    <3>1. CASE Count
      BY <2>2, <3>1 DEF WorkerHas, Count, Send, InStage
    <3>2. CASE Send
      <4>1. /\ e.queue = Append(x.queue, call.job) /\ Len(x.queue) \in Nat
            /\ DOMAIN x.queue = 1 .. Len(x.queue)
            /\ DOMAIN e.queue = 1 .. Len(x.queue) + 1
            /\ e.queue[Len(x.queue) + 1] = call.job
            /\ \A i \in 1 .. Len(x.queue) : e.queue[i] = x.queue[i]
        BY <2>1, <2>2, <3>2
      <4> QED BY <2>2, <4>1 DEF WorkerHas
    <3> QED BY <1>7, <3>1, <3>2
  <2>5. /\ \A t : OnWorkers(t) => OnWorkers(t)'
        /\ Send => \A t : t = call.job => OnWorkers(t)'
    <3>1. ASSUME NEW t, NEW v \in DOMAIN workers, WorkerHas(workers[v], t)
          PROVE  WorkerHas(workers'[v], t)
      <4>1. CASE v = w
        BY <2>4, <3>1, <4>1 DEF x, e
      <4>2. CASE v # w
        BY <2>3, <3>1, <4>2
      <4> QED BY <4>1, <4>2
    <3>2. Send => WorkerHas(workers'[w], call.job)
      BY <2>4 DEF e
    <3>3. ASSUME NEW t, OnWorkers(t) PROVE OnWorkers(t)'
      <4>1. PICK v \in DOMAIN workers : WorkerHas(workers[v], t)
        BY <3>3 DEF OnWorkers
      <4> QED BY <2>3, <3>1, <4>1 DEF OnWorkers
    <3>4. ASSUME Send, NEW t, t = call.job PROVE OnWorkers(t)'
      BY <2>1, <2>3, <3>2, <3>4 DEF OnWorkers
    <3> HIDE DEF OnWorkers
    <3> QED BY <3>3, <3>4
  <2>6. WaitingHeld'
    <3> SUFFICES ASSUME NEW t \in Jobs \cup Tasks, result[t] = "waiting" PROVE Held(t)'
      BY <2>1 DEF WaitingHeld
    <3>1. Held(t)
      BY <1>0 DEF WaitingHeld
    <3>2. call.job = t => OnWorkers(t)' \/ (call' # None /\ call'.job = t)
      BY <1>7, <2>2, <2>5, NoneAssumption
    <3> QED BY <1>0, <2>5, <3>1, <3>2 DEF Held
  <2>7. DropInv'
    <3>1. \A v \in DOMAIN workers' : workers'[v].open /\ workers'[v].thread # "exited"
      BY <1>2, <2>1, <2>2, <2>3 DEF x, e
    <3> QED BY <1>0, <1>1, <3>1 DEF DropInv
  <2> QED BY <1>0, <2>1, <2>6, <2>7 DEF KeptInv
<1>8. ASSUME NEW j \in Jobs, Begin(j) PROVE KeptInv'
  <2>1. /\ call = None /\ UNCHANGED workers
        /\ call' = [job |-> j, stage |-> "idle", at |-> 1, best |-> 1, least |-> 0]
        /\ result' = [result EXCEPT ![j] = "waiting"]
    BY <1>8 DEF Begin
  <2>2. call' \in Call /\ call'.job = j
    BY <2>1 DEF Call, Stages
  <2>3. WaitingHeld'
    BY <1>0, <2>1, <2>2, NoneAssumption DEF WaitingHeld, Held, OnWorkers
  <2> QED BY <1>0, <1>1, <2>1, <2>3 DEF KeptInv, DropInv
<1> QED BY <1>4, <1>5, <1>6, <1>7, <1>8 DEF CallStep

LEMMA NextKept == KeptInv /\ [Next]_vars => KeptInv'
<1> SUFFICES ASSUME KeptInv, [Next]_vars PROVE KeptInv'
  OBVIOUS
<1>0. /\ ExecutorInv /\ DropInv /\ WaitingHeld /\ ExecutorInv'
      /\ result = [t \in Jobs \cup Tasks |-> result[t]] /\ jobs \in Seq(Tasks)
  BY NextExecutor DEF KeptInv, ExecutorInv, ExecutorTypeOK
<1>1. CASE UNCHANGED vars
  BY <1>0, <1>1 DEF vars, KeptInv, WaitingHeld, Held, OnWorkers, DropInv
<1>2. ASSUME NEW t \in Tasks, SpawnTask(t) PROVE KeptInv'
  <2>1. /\ dropping = "no" /\ result' = [result EXCEPT ![t] = "waiting"]
        /\ jobs' = Append(jobs, t) /\ UNCHANGED <<workers, call, running, dropping>>
    BY <1>2 DEF SpawnTask
  <2>2. /\ \E i \in DOMAIN jobs' : jobs'[i] = t
        /\ \A u : (\E i \in DOMAIN jobs : jobs[i] = u) => \E i \in DOMAIN jobs' : jobs'[i] = u
    BY <1>0, <2>1
  <2>3. WaitingHeld'
    BY <1>0, <2>1, <2>2 DEF WaitingHeld, Held, OnWorkers
  <2> QED BY <1>0, <2>1, <2>3 DEF KeptInv, DropInv
<1>3. ASSUME NEW t \in Tasks, EndTask(t) PROVE KeptInv'
  <2>1. /\ t \in running /\ running' = running \ {t} /\ UNCHANGED <<workers, call, jobs, dropping>>
        /\ \E outcome \in {"value", "error"} : result' = [result EXCEPT ![t] = outcome]
    BY <1>3 DEF EndTask
  <2>2. /\ result' = [u \in Jobs \cup Tasks |-> result'[u]]
        /\ \A u \in Jobs \cup Tasks : result'[u] = "waiting" => result[u] = "waiting" /\ u # t
    BY <1>0, <2>1
  <2>3. WaitingHeld'
    BY <1>0, <2>1, <2>2 DEF WaitingHeld, Held, OnWorkers
  <2> QED BY <1>0, <2>1, <2>2, <2>3 DEF KeptInv, DropInv
<1>4. CASE StartTask
  <2>1. /\ jobs # <<>> /\ jobs' = Tail(jobs) /\ running' = running \cup {Head(jobs)}
        /\ UNCHANGED <<workers, call, result, dropping>>
    BY <1>4 DEF StartTask
  <2>2. \A u : (\E i \in DOMAIN jobs : jobs[i] = u) =>
          u = Head(jobs) \/ \E i \in DOMAIN jobs' : jobs'[i] = u
    <3> SUFFICES ASSUME NEW i \in DOMAIN jobs
                 PROVE  jobs[i] = Head(jobs) \/ \E k \in DOMAIN jobs' : jobs'[k] = jobs[i]
      OBVIOUS
    <3>1. i # 1 => i - 1 \in DOMAIN Tail(jobs) /\ Tail(jobs)[i - 1] = jobs[i]
      BY <1>0, <2>1
    <3> QED BY <1>0, <2>1, <3>1
  <2>3. WaitingHeld'
    BY <1>0, <2>1, <2>2 DEF WaitingHeld, Held, OnWorkers
  <2> QED BY <1>0, <2>1, <2>3 DEF KeptInv, DropInv
<1>5. CASE Drop
  BY <1>0, <1>5 DEF Drop, KeptInv, WaitingHeld, Held, OnWorkers, DropInv
<1>6. CASE StopRuntime
  <2>1. /\ dropping = "async" /\ dropping' = "blocking" /\ jobs = <<>> /\ running' = {}
        /\ result' = [t \in Jobs \cup Tasks |-> IF t \in running THEN "error" ELSE result[t]]
        /\ UNCHANGED <<workers, call, jobs>>
    BY <1>6 DEF StopRuntime, Cancel
  <2>2. WaitingHeld'
    BY <1>0, <2>1 DEF WaitingHeld, Held, OnWorkers
  <2> QED BY <1>0, <2>1, <2>2 DEF KeptInv, DropInv
<1>7. CASE Dropped
  BY <1>0, <1>7 DEF Dropped, KeptInv, WaitingHeld, Held, OnWorkers, DropInv
<1>8. CASE \E w \in DOMAIN workers : WorkerStep(w) \/ Close(w)
  BY <1>8, ThreadKeeps
<1>9. CASE CallStep \/ \E j \in Jobs : Begin(j)
  BY <1>9, CallerKeeps
<1> QED BY <1>1, <1>2, <1>3, <1>4, <1>5, <1>6, <1>7, <1>8, <1>9 DEF Next, DropStep

\* When the drop of the executor returns, no HostTask is left without its
\* result, whatever was queued, ran, panicked or never ended when it began
\* (executor.rs:91-96, 187-199, 339-346).
THEOREM DropAlwaysResolves == Spec => []DropResolves
<1>1. Init => KeptInv
  <2> SUFFICES ASSUME Init PROVE KeptInv
    OBVIOUS
  <2> QED BY InitExecutor DEF Init, KeptInv, WaitingHeld, DropInv
<1>2. ASSUME KeptInv PROVE DropResolves
  <2> SUFFICES ASSUME dropping = "done", NEW t \in Jobs \cup Tasks, result[t] = "waiting"
               PROVE  FALSE
    BY DEF DropResolves
  <2>1. Held(t) /\ DropInv /\ ExecutorInv
    BY <1>2 DEF KeptInv, WaitingHeld
  <2>2. /\ call = None /\ running = {} /\ jobs = <<>>
        /\ \A w \in DOMAIN workers : workers[w].thread = "exited" /\ workers[w].queue = <<>>
    BY <2>1 DEF DropInv
  <2> QED BY <2>1, <2>2 DEF Held, OnWorkers, WorkerHas
<1> QED BY <1>1, <1>2, NextKept, PTL DEF Spec

\* A task that waits for its result is never forgotten: its caller, a worker or
\* the runtime has it (executor.rs:284-291, 187-199).
THEOREM WaitingAlwaysHeld == Spec => []WaitingHeld
<1>1. Init => KeptInv
  <2> SUFFICES ASSUME Init PROVE KeptInv
    OBVIOUS
  <2> QED BY InitExecutor DEF Init, KeptInv, WaitingHeld, DropInv
<1>2. KeptInv => WaitingHeld
  BY DEF KeptInv
<1> QED BY <1>1, <1>2, NextKept, PTL DEF Spec
=============================================================================
