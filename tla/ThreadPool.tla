----------------------------- MODULE ThreadPool -----------------------------
(***************************************************************************)
(* A thread pool between init() and the end of release(): the queue, the   *)
(* normal threads, the temporary ones and the three counters, from         *)
(* TaskThreadPool.cpp and ParamTemplateThreadPool.h, which differ in what  *)
(* they run and in the two calls the second one adds.  A step is what runs *)
(* under _mutex.  Threads of one kind are alike, so they are counted: those*)
(* blocked on _condition, those awake and on their way to the queue, those *)
(* that run a task, and those whose task returned but which have not       *)
(* lowered _busyThreadCount yet.                                           *)
(***************************************************************************)
EXTENDS Integers, Sequences

CONSTANTS
    Tasks,          \* tasks callers give the pool, each once
    InitArg,        \* initCount, perAppendCount, perfectCount, maxCount and
    AppendCount,    \* maxQueueLength as init() is given them
    PerfectArg,
    MaxArg,
    MaxQueueLength

ASSUME ArgumentsAssumption ==
    {InitArg, AppendCount, PerfectArg, MaxArg, MaxQueueLength} \subseteq Nat

\* A pool that starts with no thread and never appends one runs nothing.
ASSUME ThreadsAssumption == InitArg + AppendCount > 0

Kinds == {"normal", "temp"}

\* ReviseDataRelation
InitCount == InitArg
MaxCount == IF MaxArg > 0 /\ MaxArg < InitArg THEN InitArg ELSE MaxArg
PerfectCount ==
    LET capped == IF MaxCount > 0 /\ PerfectArg > MaxCount THEN MaxCount ELSE PerfectArg
    IN  IF capped < InitCount THEN InitCount ELSE capped

VARIABLES
    phase,      \* open, then release() joins, drains and has released
    queue,      \* _taskQueue
    task,       \* what became of each task
    normal,     \* _normalThreadCount
    temp,       \* _tempThreadCount
    busy,       \* _busyThreadCount
    waiting,    \* threads of each kind blocked on _condition
    awake,      \* threads about to look at the queue
    working,    \* threads that run a task
    ending      \* threads whose task returned

counters == <<normal, temp, busy>>
threads == <<waiting, awake, working, ending>>
vars == <<phase, queue, task, counters, threads>>

None == [k \in Kinds |-> 0]

Init ==
    /\ phase = "open"
    /\ queue = <<>>
    /\ task = [t \in Tasks |-> "new"]
    /\ normal = InitCount /\ temp = 0 /\ busy = 0
    /\ awake = [None EXCEPT !["normal"] = InitCount]
    /\ waiting = None /\ working = None /\ ending = None

willExit == phase # "open"

More(count, k) == [count EXCEPT ![k] = @ + 1]
Less(count, k) == [count EXCEPT ![k] = @ - 1]

-----------------------------------------------------------------------------
(* wakeUp, forceWakeUp, priorWakeUp *)

\* Mutant: the hard limit is looked at after the thread is made.
MayAddTempAtMax == MaxCount = 0 \/ temp + normal <= MaxCount
MayAddTemp == MaxCount = 0 \/ temp + normal < MaxCount

\* append(): how many threads of each kind it starts.
NewNormal ==
    IF AppendCount = 0 \/ normal >= PerfectCount THEN 0
    ELSE IF PerfectCount - normal >= AppendCount THEN AppendCount
    ELSE PerfectCount - normal

NewTemp ==
    IF AppendCount > 0 /\ normal >= PerfectCount /\ MayAddTemp THEN 1 ELSE 0

\* Mutant: the task that was just queued is not counted.
NeedsThreadsLate(length) == busy + length - 1 > normal + temp
NeedsThreads(length) == busy + length > normal + temp

\* notify_one wakes a waiting thread, if there is one.
Notified ==
    {s \in [Kinds -> {0, 1}] :
        /\ \A k \in Kinds : s[k] <= waiting[k]
        /\ s["normal"] + s["temp"] = IF waiting = None THEN 0 ELSE 1}

\* Mutants: a thread is notified for the first task of a queue only, or never.
NotifyFirstOnly(newQueue) == IF Len(newQueue) = 1 THEN Notified ELSE {None}
NotifyNever(newQueue) == {None}
Notify(newQueue) == Notified

\* A task joined the queue: append if threads are short, and notify.
Queued(newQueue) ==
    LET added == [k \in Kinds |-> IF ~NeedsThreads(Len(newQueue)) THEN 0
                                  ELSE IF k = "normal" THEN NewNormal ELSE NewTemp]
    IN  /\ queue' = newQueue
        /\ normal' = normal + added["normal"]
        /\ temp' = temp + added["temp"]
        /\ \E s \in Notify(newQueue) :
              /\ waiting' = [k \in Kinds |-> waiting[k] - s[k]]
              /\ awake' = [k \in Kinds |-> awake[k] + added[k] + s[k]]

Accept(t, newQueue) ==
    /\ task[t] = "new"
    /\ ~willExit
    /\ Queued(newQueue)
    /\ task' = [task EXCEPT ![t] = "queued"]
    /\ UNCHANGED <<phase, busy, working, ending>>

QueueFull == MaxQueueLength > 0 /\ MaxQueueLength <= Len(queue)

WakeUp(t) == ~QueueFull /\ Accept(t, Append(queue, t))
ForceWakeUp(t) == Accept(t, Append(queue, t))
PriorWakeUp(t) == Accept(t, <<t>> \o queue)

Refuse(t) ==
    /\ task[t] = "new"
    /\ willExit \/ QueueFull
    /\ task' = [task EXCEPT ![t] = "refused"]
    /\ UNCHANGED <<phase, queue, counters, threads>>

-----------------------------------------------------------------------------
(* process and temporaryProcess *)

TakeTask(k) ==
    /\ awake[k] > 0 /\ queue # <<>>
    /\ queue' = Tail(queue)
    /\ task' = [task EXCEPT ![Head(queue)] = "running"]
    /\ awake' = Less(awake, k)
    /\ working' = More(working, k)
    /\ busy' = busy + 1
    /\ UNCHANGED <<phase, normal, temp, waiting, ending>>

\* run() returned or threw.
EndTask(k, t) ==
    /\ working[k] > 0 /\ task[t] = "running"
    /\ task' = [task EXCEPT ![t] = "done"]
    /\ working' = Less(working, k)
    /\ ending' = More(ending, k)
    /\ UNCHANGED <<phase, queue, counters, waiting, awake>>

\* Mutant: the counter is lowered by the handler of an exception and once more
\* behind it.
NotBusyTwice(k) ==
    /\ ending[k] > 0
    /\ ending' = Less(ending, k)
    /\ awake' = More(awake, k)
    /\ busy' = busy - 2
    /\ UNCHANGED <<phase, queue, task, normal, temp, waiting, working>>

NotBusy(k) ==
    /\ ending[k] > 0
    /\ ending' = Less(ending, k)
    /\ awake' = More(awake, k)
    /\ busy' = busy - 1
    /\ UNCHANGED <<phase, queue, task, normal, temp, waiting, working>>

Wait(k) ==
    /\ awake[k] > 0 /\ queue = <<>> /\ ~willExit
    /\ awake' = Less(awake, k)
    /\ waiting' = More(waiting, k)
    /\ UNCHANGED <<phase, queue, task, counters, working, ending>>

\* wait_for ends by itself; how much of its latency a temporary thread has
\* left is not counted.
TimeOut ==
    /\ waiting["temp"] > 0
    /\ waiting' = Less(waiting, "temp")
    /\ awake' = More(awake, "temp")
    /\ UNCHANGED <<phase, queue, task, counters, working, ending>>

MayLeave(k) == queue = <<>> /\ (willExit \/ k = "temp")

Exit(k) ==
    /\ awake[k] > 0 /\ MayLeave(k)
    /\ awake' = Less(awake, k)
    /\ normal' = IF k = "normal" THEN normal - 1 ELSE normal
    /\ temp' = IF k = "temp" THEN temp - 1 ELSE temp
    /\ UNCHANGED <<phase, queue, task, busy, waiting, working, ending>>

-----------------------------------------------------------------------------
(* release *)

\* Mutant: only one thread is notified.
WokenOne(k) == IF k = "normal" /\ waiting[k] > 0 THEN 1 ELSE 0
Woken(k) == waiting[k]

ReleaseBegin ==
    /\ phase = "open"
    /\ phase' = "joining"
    /\ waiting' = [k \in Kinds |-> waiting[k] - Woken(k)]
    /\ awake' = [k \in Kinds |-> awake[k] + Woken(k)]
    /\ UNCHANGED <<queue, task, counters, working, ending>>

Joined ==
    /\ phase = "joining" /\ normal = 0
    /\ phase' = "draining"
    /\ UNCHANGED <<queue, task, counters, threads>>

\* Mutant: the temporary threads are not waited for.
TempsGoneAssumed == TRUE
TempsGone == temp = 0

ReleaseEnd ==
    /\ phase = "draining" /\ TempsGone
    /\ phase' = "released"
    /\ UNCHANGED <<queue, task, counters, threads>>

ThreadStep(k) == TakeTask(k) \/ NotBusy(k) \/ Wait(k) \/ Exit(k)

Next ==
    \/ \E t \in Tasks : WakeUp(t) \/ ForceWakeUp(t) \/ PriorWakeUp(t) \/ Refuse(t)
    \/ \E k \in Kinds : ThreadStep(k) \/ \E t \in Tasks : EndTask(k, t)
    \/ TimeOut
    \/ ReleaseBegin \/ Joined \/ ReleaseEnd

Spec == Init /\ [][Next]_vars

-----------------------------------------------------------------------------
(* Properties *)

TypeOK ==
    /\ phase \in {"open", "joining", "draining", "released"}
    /\ queue \in Seq(Tasks)
    /\ task \in [Tasks -> {"new", "refused", "queued", "running", "done"}]
    /\ normal \in Nat /\ temp \in Nat /\ busy \in Nat
    /\ waiting \in [Kinds -> Nat] /\ awake \in [Kinds -> Nat]
    /\ working \in [Kinds -> Nat] /\ ending \in [Kinds -> Nat]

AtCap == AppendCount = 0 \/ (normal >= PerfectCount /\ ~MayAddTemp)

\* wakeUp decides from the counters, which threads change in sections of their
\* own, whether to append.  Even so more tasks wait than threads are free only
\* when the pool may not grow: no task sits behind a long one for nothing.
GrowsOnDemand == Len(queue) > normal + temp - busy => AtCap

\* Each wakeUp notifies one thread; another, just done with its task, may take
\* what the notified one was woken for, and a temporary one may time out at
\* that moment.  Yet no thread sleeps while tasks are left for it: as many
\* threads as tasks are on their way to the queue.
NoLostWakeup ==
    waiting # None => Len(queue) <= awake["normal"] + awake["temp"]

\* maxCount bounds the threads, and temporary ones appear only beyond
\* perfectCount resident ones (TaskThreadPool.md: maxCount, perfectCount).
MaxRespected ==
    /\ MaxCount > 0 => normal + temp <= MaxCount
    /\ temp > 0 /\ phase = "open" => normal >= PerfectCount

\* When release() returns, and the pool may be destroyed, no thread of it is
\* left and no task it accepted is queued or running, however the tasks, the
\* temporary threads' time-outs and the release overlapped.
ReleasedClean ==
    phase = "released" =>
        /\ normal = 0 /\ temp = 0 /\ queue = <<>>
        /\ \A t \in Tasks : task[t] \notin {"queued", "running"}

-----------------------------------------------------------------------------
(* Threads run, every task's run() ends, and release(), once called, goes  *)
(* on.  A waiting thread is not expected to wake by itself.                *)

Fairness ==
    /\ \A k \in Kinds : WF_vars(TakeTask(k)) /\ WF_vars(NotBusy(k)) /\ WF_vars(Exit(k))
    /\ \A t \in Tasks : WF_vars(\E k \in Kinds : EndTask(k, t))
    /\ WF_vars(Joined) /\ WF_vars(ReleaseEnd)

FairSpec == Spec /\ Fairness

\* Every task wakeUp accepted runs, also one accepted just before a release.
TasksRun == \A t \in Tasks : (task[t] = "queued") ~> (task[t] = "done")

\* release() returns: every thread learns of it, whatever it was doing.
ReleaseEnds == (phase = "joining") ~> (phase = "released")
=============================================================================
