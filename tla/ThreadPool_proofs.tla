------------------------- MODULE ThreadPool_proofs -------------------------
(***************************************************************************)
(* Proofs about the thread pool, for any counts given to init() and any    *)
(* set of tasks: no wake-up is lost, the pool grows when it should, keeps  *)
(* to its limits, and leaves nothing behind when release() returns.        *)
(***************************************************************************)
EXTENDS ThreadPool, FiniteSetTheorems, TLAPS

(* The three counters are the numbers of threads.                          *)
Counts ==
    /\ normal = waiting["normal"] + awake["normal"] + working["normal"] + ending["normal"]
    /\ temp = waiting["temp"] + awake["temp"] + working["temp"] + ending["temp"]
    /\ busy = working["normal"] + working["temp"] + ending["normal"] + ending["temp"]

(* A pool in use has its first threads, and one for a queued task.         *)
Staffed ==
    /\ normal <= PerfectCount
    /\ phase = "open" => normal >= InitCount
    /\ Len(queue) > 0 => normal + temp > 0

(* What each part of release() has waited for stays true.                  *)
Leaving ==
    /\ phase # "open" => waiting["normal"] = 0 /\ waiting["temp"] = 0
    /\ phase \in {"draining", "released"} => normal = 0
    /\ phase = "released" => temp = 0

(* The queue holds exactly the queued tasks, each once, and every running  *)
(* task has a thread.                                                      *)
InOrder ==
    /\ \A i \in 1 .. Len(queue) : task[queue[i]] = "queued"
    /\ \A i, j \in 1 .. Len(queue) : queue[i] = queue[j] => i = j
    /\ \A t \in Tasks : task[t] = "queued" => \E i \in 1 .. Len(queue) : queue[i] = t

RunningTasks(state) == {t \in Tasks : state[t] = "running"}

Carried ==
    /\ IsFiniteSet(RunningTasks(task))
    /\ Cardinality(RunningTasks(task)) = working["normal"] + working["temp"]

Pool == TypeOK /\ Counts /\ Staffed /\ Leaving
Promises == GrowsOnDemand /\ NoLostWakeup /\ MaxRespected

IInv == Pool /\ Promises /\ InOrder /\ Carried

-----------------------------------------------------------------------------
(* The constants.                                                          *)

LEMMA Arguments ==
    /\ InitCount \in Nat /\ AppendCount \in Nat /\ PerfectCount \in Nat /\ MaxCount \in Nat
    /\ InitCount <= PerfectCount
    /\ MaxCount > 0 => PerfectCount <= MaxCount
    /\ InitCount + AppendCount > 0
  BY ArgumentsAssumption, ThreadsAssumption DEF InitCount, PerfectCount, MaxCount

LEMMA NoneCounted ==
    ASSUME NEW count \in [Kinds -> Nat]
    PROVE  count = None <=> count["normal"] = 0 /\ count["temp"] = 0
  BY DEF None, Kinds

-----------------------------------------------------------------------------
(* What wakeUp, forceWakeUp and priorWakeUp do to the counts: dn and dt    *)
(* threads are added, and one waiting thread of either kind is notified.   *)

LEMMA AcceptCounts ==
    ASSUME TypeOK, NEW t \in Tasks, NEW newQueue, Accept(t, newQueue)
    PROVE  \E dn \in Nat, dt \in Nat, sn \in Nat, st \in Nat :
              /\ dn = IF NeedsThreads(Len(newQueue)) THEN NewNormal ELSE 0
              /\ dt = IF NeedsThreads(Len(newQueue)) THEN NewTemp ELSE 0
              /\ normal' = normal + dn /\ temp' = temp + dt
              /\ waiting' \in [Kinds -> Nat] /\ awake' \in [Kinds -> Nat]
              /\ waiting'["normal"] = waiting["normal"] - sn
              /\ waiting'["temp"] = waiting["temp"] - st
              /\ awake'["normal"] = awake["normal"] + dn + sn
              /\ awake'["temp"] = awake["temp"] + dt + st
              /\ sn + st = IF waiting["normal"] = 0 /\ waiting["temp"] = 0 THEN 0 ELSE 1
<1> DEFINE need  == NeedsThreads(Len(newQueue))
           added == [k \in Kinds |-> IF ~need THEN 0
                                     ELSE IF k = "normal" THEN NewNormal ELSE NewTemp]
<1>1. NewNormal \in Nat /\ NewTemp \in Nat
  BY Arguments DEF NewNormal, NewTemp, TypeOK
<1>2. PICK s \in Notify(newQueue) :
         /\ normal' = normal + added["normal"] /\ temp' = temp + added["temp"]
         /\ waiting' = [k \in Kinds |-> waiting[k] - s[k]]
         /\ awake' = [k \in Kinds |-> awake[k] + added[k] + s[k]]
  BY DEF Accept, Queued
<1>3. /\ s \in [Kinds -> {0, 1}] /\ \A k \in Kinds : s[k] <= waiting[k]
      /\ s["normal"] + s["temp"] = IF waiting = None THEN 0 ELSE 1
  BY DEF Notify, Notified
<1>4. added \in [Kinds -> Nat]
  BY <1>1
<1>5. waiting' \in [Kinds -> Nat] /\ awake' \in [Kinds -> Nat]
  <2> HIDE DEF added
  <2>1. ASSUME NEW k \in Kinds
        PROVE  waiting[k] - s[k] \in Nat /\ awake[k] + added[k] + s[k] \in Nat
    <3>1. waiting[k] \in Nat /\ awake[k] \in Nat
      BY DEF TypeOK
    <3>2. s[k] \in {0, 1} /\ s[k] <= waiting[k] /\ added[k] \in Nat
      BY <1>3, <1>4
    <3> QED
      BY <3>1, <3>2
  <2> QED
    BY <1>2, <2>1
<1>6. "normal" \in Kinds /\ "temp" \in Kinds /\ "normal" # "temp"
  BY DEF Kinds
<1>7. waiting = None <=> waiting["normal"] = 0 /\ waiting["temp"] = 0
  BY NoneCounted DEF TypeOK
<1>8. /\ added["normal"] = IF need THEN NewNormal ELSE 0
      /\ added["temp"] = IF need THEN NewTemp ELSE 0
  BY <1>6
<1>9. /\ added["normal"] \in Nat /\ added["temp"] \in Nat
      /\ s["normal"] \in Nat /\ s["temp"] \in Nat
  BY <1>3, <1>4, <1>6
<1>10. /\ waiting'["normal"] = waiting["normal"] - s["normal"]
       /\ waiting'["temp"] = waiting["temp"] - s["temp"]
       /\ awake'["normal"] = awake["normal"] + added["normal"] + s["normal"]
       /\ awake'["temp"] = awake["temp"] + added["temp"] + s["temp"]
  BY <1>2, <1>6
<1> HIDE DEF added, need
<1> QED
  BY <1>2, <1>3, <1>5, <1>7, <1>8, <1>9, <1>10 DEF need

Longer(newQueue) == newQueue \in Seq(Tasks) /\ Len(newQueue) = Len(queue) + 1

LEMMA OneMore ==
    ASSUME NEW q \in Nat, NEW n \in Nat, NEW m \in Nat, NEW b \in Nat, NEW k \in Nat,
           NEW l \in Nat, q <= n + m - b, k + l >= n + m + 1
    PROVE  q + 1 <= k + l - b
  OBVIOUS

LEMMA AcceptPool ==
    ASSUME Pool, Promises, NEW t \in Tasks, NEW newQueue, Longer(newQueue),
           Accept(t, newQueue)
    PROVE  Pool' /\ Promises'
<1> USE Arguments
<1> DEFINE need == NeedsThreads(Len(newQueue))
<1>1. PICK dn \in Nat, dt \in Nat, sn \in Nat, st \in Nat :
         /\ dn = IF need THEN NewNormal ELSE 0
         /\ dt = IF need THEN NewTemp ELSE 0
         /\ normal' = normal + dn /\ temp' = temp + dt
         /\ waiting' \in [Kinds -> Nat] /\ awake' \in [Kinds -> Nat]
         /\ waiting'["normal"] = waiting["normal"] - sn
         /\ waiting'["temp"] = waiting["temp"] - st
         /\ awake'["normal"] = awake["normal"] + dn + sn
         /\ awake'["temp"] = awake["temp"] + dt + st
         /\ sn + st = IF waiting["normal"] = 0 /\ waiting["temp"] = 0 THEN 0 ELSE 1
  BY AcceptCounts DEF Pool
<1>2. /\ phase = "open" /\ UNCHANGED <<phase, busy, working, ending>>
      /\ queue' = newQueue /\ queue' \in Seq(Tasks) /\ Len(queue') = Len(queue) + 1
      /\ Len(newQueue) = Len(queue) + 1
      /\ task' = [task EXCEPT ![t] = "queued"]
  BY DEF Accept, Queued, willExit, Longer
<1>3. /\ normal \in Nat /\ temp \in Nat /\ busy \in Nat /\ Len(queue) \in Nat
      /\ \A k \in Kinds : /\ waiting[k] \in Nat /\ awake[k] \in Nat
                          /\ working[k] \in Nat /\ ending[k] \in Nat
  BY DEF Pool, TypeOK
<1>4. "normal" \in Kinds /\ "temp" \in Kinds
  BY DEF Kinds
(* What append() adds, and when.                                           *)
<1>5. need <=> busy + Len(queue) + 1 > normal + temp
  BY <1>2, <1>3 DEF NeedsThreads
<1>6. /\ dn > 0 => normal + dn <= PerfectCount /\ normal < PerfectCount /\ dt = 0
      /\ dt > 0 => dt = 1 /\ normal >= PerfectCount /\ MayAddTemp
      /\ need /\ ~AtCap => dn + dt >= 1
      /\ ~need => dn = 0 /\ dt = 0
  <2> HIDE DEF need
  <2> QED BY <1>1, <1>3 DEF NewNormal, NewTemp, AtCap
<1> HIDE DEF need
<1>71. /\ waiting["normal"] \in Nat /\ awake["normal"] \in Nat
      /\ working["normal"] \in Nat /\ ending["normal"] \in Nat
      /\ waiting["temp"] \in Nat /\ awake["temp"] \in Nat
      /\ working["temp"] \in Nat /\ ending["temp"] \in Nat
  BY <1>3, <1>4
<1>72. /\ normal' = normal + dn /\ temp' = temp + dt
      /\ waiting'["normal"] = waiting["normal"] - sn
      /\ waiting'["temp"] = waiting["temp"] - st
      /\ awake'["normal"] = awake["normal"] + dn + sn
      /\ awake'["temp"] = awake["temp"] + dt + st
  BY <1>1
<1>7. TypeOK'
  <2>1. normal' \in Nat /\ temp' \in Nat
    BY <1>1, <1>3
  <2>2. task' \in [Tasks -> {"new", "refused", "queued", "running", "done"}]
    BY <1>2 DEF Pool, TypeOK
  <2>3. phase' = phase /\ busy' = busy /\ working' = working /\ ending' = ending
    BY <1>2
  <2> QED
    BY <2>1, <2>2, <2>3, <1>1, <1>2 DEF Pool, TypeOK
<1>8. Counts'
  <2>1. /\ busy' = busy
        /\ working'["normal"] = working["normal"] /\ ending'["normal"] = ending["normal"]
        /\ working'["temp"] = working["temp"] /\ ending'["temp"] = ending["temp"]
    BY <1>2
  <2>2. /\ normal = waiting["normal"] + awake["normal"] + working["normal"] + ending["normal"]
        /\ temp = waiting["temp"] + awake["temp"] + working["temp"] + ending["temp"]
        /\ busy = working["normal"] + working["temp"] + ending["normal"] + ending["temp"]
    BY DEF Pool, Counts
  <2>3. normal' = waiting'["normal"] + awake'["normal"] + working'["normal"] + ending'["normal"]
    BY <2>1, <2>2, <1>71, <1>72
  <2>4. temp' = waiting'["temp"] + awake'["temp"] + working'["temp"] + ending'["temp"]
    BY <2>1, <2>2, <1>71, <1>72
  <2> QED
    BY <2>1, <2>2, <2>3, <2>4 DEF Counts
<1>9. normal >= InitCount
  BY <1>2 DEF Pool, Staffed
<1>10. normal' + temp' > 0
  <2>1. CASE normal + temp > 0
    BY <2>1, <1>1, <1>3
  <2>2. CASE normal + temp = 0
    <3>1. normal = 0 /\ temp = 0 /\ InitCount = 0 /\ AppendCount > 0
      BY <2>2, <1>3, <1>9
    <3>2. need
      BY <3>1, <1>3, <1>5
    <3>3. ~AtCap
      BY <3>1 DEF AtCap, MayAddTemp
    <3> QED
      BY <3>2, <3>3, <1>1, <1>3, <1>6
  <2> QED
    BY <2>1, <2>2, <1>3
<1>11. Staffed'
  <2>1. normal' <= PerfectCount
    BY <1>1, <1>3, <1>6 DEF Pool, Staffed
  <2>2. normal' >= InitCount
    BY <1>1, <1>3, <1>9
  <2> QED
    BY <2>1, <2>2, <1>10 DEF Staffed, InitCount, PerfectCount, MaxCount
<1>12. Leaving'
  BY <1>2 DEF Leaving
<1>13. GrowsOnDemand'
  <2>1. CASE ~need
    BY <2>1, <1>1, <1>2, <1>3, <1>5, <1>6 DEF GrowsOnDemand
  <2>2. CASE need /\ AtCap
    <3>1. dn = 0 /\ dt = 0
      BY <2>2, <1>1, <1>3 DEF AtCap, NewNormal, NewTemp
    <3>2. normal' = normal /\ temp' = temp
      BY <3>1, <1>1, <1>3
    <3> QED
      BY <2>2, <3>2 DEF GrowsOnDemand, AtCap, MayAddTemp, PerfectCount, InitCount, MaxCount
  <2>3. CASE need /\ ~AtCap
    <3>1. Len(queue) <= normal + temp - busy
      BY <2>3, <1>3 DEF Promises, GrowsOnDemand
    <3>2. normal' + temp' >= normal + temp + 1
      BY <2>3, <1>1, <1>3, <1>6
    <3>3. normal' \in Nat /\ temp' \in Nat
      BY <1>1, <1>3
    <3>4. Len(queue) + 1 <= normal' + temp' - busy
      BY <3>1, <3>2, <3>3, <1>3, OneMore
    <3>5. Len(queue') <= normal' + temp' - busy'
      BY <3>4, <1>2
    <3> QED
      BY <3>3, <3>5, <1>2, <1>3 DEF GrowsOnDemand
  <2> QED
    BY <2>1, <2>2, <2>3
<1>14. NoLostWakeup'
  <2>1. CASE waiting["normal"] = 0 /\ waiting["temp"] = 0
    <3>1. waiting'["normal"] = 0 /\ waiting'["temp"] = 0
      BY <2>1, <1>1
    <3> QED
      BY <3>1, <1>1, NoneCounted DEF NoLostWakeup, None
  <2>2. CASE ~(waiting["normal"] = 0 /\ waiting["temp"] = 0)
    <3>1. sn + st = 1
      BY <2>2, <1>1
    <3>2. Len(queue) <= awake["normal"] + awake["temp"]
      BY <2>2, NoneCounted DEF Pool, TypeOK, Promises, NoLostWakeup
    <3>3. Len(queue') <= awake'["normal"] + awake'["temp"]
      <4>1. awake'["normal"] + awake'["temp"]
              = awake["normal"] + awake["temp"] + dn + dt + (sn + st)
        BY <1>71, <1>72
      <4>2. awake'["normal"] + awake'["temp"] = awake["normal"] + awake["temp"] + dn + dt + 1
        BY <3>1, <4>1
      <4> QED
        BY <3>2, <4>2, <1>2, <1>3, <1>4
    <3> QED
      BY <3>3 DEF NoLostWakeup
  <2> QED
    BY <2>1, <2>2
<1>15. MaxRespected'
  <2>1. temp > 0 => normal >= PerfectCount
    BY <1>2 DEF Promises, MaxRespected
  <2>2. temp' > 0 => normal' >= PerfectCount
    BY <2>1, <1>1, <1>3, <1>6
  <2>3. ASSUME MaxCount > 0
        PROVE  normal' + temp' <= MaxCount
    <3>1. normal + temp <= MaxCount
      BY <2>3 DEF Promises, MaxRespected
    <3>2. CASE dn > 0
      BY <3>2, <2>1, <2>3, <1>1, <1>3, <1>6
    <3>3. CASE dt > 0
      BY <3>3, <2>3, <1>1, <1>3, <1>6 DEF MayAddTemp
    <3>4. CASE dn = 0 /\ dt = 0
      BY <3>1, <3>4, <1>1, <1>3
    <3> QED
      BY <3>2, <3>3, <3>4, <1>1
  <2> QED
    BY <2>2, <2>3 DEF MaxRespected, PerfectCount, InitCount, MaxCount
<1> QED
  BY <1>7, <1>8, <1>11, <1>12, <1>13, <1>14, <1>15 DEF Pool, Promises

-----------------------------------------------------------------------------
(* The steps of threads and of release().                                  *)

NormalOne(k) == IF k = "normal" THEN 1 ELSE 0
TempOne(k)   == IF k = "normal" THEN 0 ELSE 1

LEMMA One ==
    ASSUME NEW k
    PROVE  NormalOne(k) \in Nat /\ TempOne(k) \in Nat /\ NormalOne(k) + TempOne(k) = 1
  BY DEF NormalOne, TempOne

LEMMA Moved ==
    ASSUME NEW count \in [Kinds -> Nat], NEW k \in Kinds
    PROVE  /\ k = "normal" \/ k = "temp"
           /\ count["normal"] \in Nat /\ count["temp"] \in Nat
           /\ More(count, k) \in [Kinds -> Nat]
           /\ count[k] > 0 => Less(count, k) \in [Kinds -> Nat]
           /\ More(count, k)["normal"] = count["normal"] + NormalOne(k)
           /\ More(count, k)["temp"] = count["temp"] + TempOne(k)
           /\ Less(count, k)["normal"] = count["normal"] - NormalOne(k)
           /\ Less(count, k)["temp"] = count["temp"] - TempOne(k)
  BY DEF More, Less, Kinds, NormalOne, TempOne

LEMMA NaturalCounts ==
    ASSUME TypeOK
    PROVE  /\ normal \in Nat /\ temp \in Nat /\ busy \in Nat
           /\ waiting["normal"] \in Nat /\ awake["normal"] \in Nat
           /\ working["normal"] \in Nat /\ ending["normal"] \in Nat
           /\ waiting["temp"] \in Nat /\ awake["temp"] \in Nat
           /\ working["temp"] \in Nat /\ ending["temp"] \in Nat
  BY DEF TypeOK, Kinds

LEMMA QueueLength ==
    ASSUME TypeOK
    PROVE  /\ Len(queue) \in Nat
           /\ queue = <<>> <=> Len(queue) = 0
  BY DEF TypeOK

(* Threads change state and the queue may lose its head: enough for the    *)
(* promises if the work left is still covered.                             *)
LEMMA PromisesKept ==
    ASSUME Pool, Promises, TypeOK',
           UNCHANGED normal, UNCHANGED temp,
           Len(queue') + busy' <= Len(queue) + busy,
           phase' = "open" => phase = "open",
           waiting' # None =>
               \/ Len(queue') = 0
               \/ /\ waiting # None
                  /\ Len(queue') - Len(queue)
                        <= (awake'["normal"] + awake'["temp"])
                           - (awake["normal"] + awake["temp"])
    PROVE  Promises'
<1> USE Arguments
<1>1. TypeOK
  BY DEF Pool
<1>2. /\ Len(queue) \in Nat /\ busy \in Nat /\ normal \in Nat /\ temp \in Nat
      /\ awake["normal"] \in Nat /\ awake["temp"] \in Nat
  BY <1>1, NaturalCounts, QueueLength
<1>3. /\ Len(queue') \in Nat /\ busy' \in Nat
      /\ awake'["normal"] \in Nat /\ awake'["temp"] \in Nat
  BY DEF TypeOK, Kinds
<1>4. GrowsOnDemand'
  <2> SUFFICES ASSUME Len(queue') > normal' + temp' - busy'
               PROVE  AtCap'
    BY DEF GrowsOnDemand
  <2>1. Len(queue) > normal + temp - busy
    BY <1>2, <1>3
  <2>2. AtCap
    BY <2>1 DEF Promises, GrowsOnDemand
  <2> QED
    BY <2>2 DEF AtCap, MayAddTemp, PerfectCount, InitCount, MaxCount
<1>5. NoLostWakeup'
  <2> SUFFICES ASSUME waiting' # None
               PROVE  Len(queue') <= awake'["normal"] + awake'["temp"]
    BY DEF NoLostWakeup
  <2>1. CASE Len(queue') = 0
    BY <2>1, <1>3
  <2>2. CASE /\ waiting # None
             /\ Len(queue') - Len(queue)
                   <= (awake'["normal"] + awake'["temp"])
                      - (awake["normal"] + awake["temp"])
    <3>1. Len(queue) <= awake["normal"] + awake["temp"]
      BY <2>2 DEF Promises, NoLostWakeup
    <3> QED
      BY <3>1, <2>2, <1>2, <1>3
  <2> QED
    BY <2>1, <2>2
<1>6. MaxRespected'
  BY DEF Promises, MaxRespected, PerfectCount, InitCount, MaxCount
<1> QED
  BY <1>4, <1>5, <1>6 DEF Promises

LEMMA TakeTaskPool ==
    ASSUME Pool, Promises, NEW k \in Kinds, TakeTask(k)
    PROVE  Pool' /\ Promises'
<1> USE Arguments
<1>1. TypeOK
  BY DEF Pool
<1>2. /\ queue # <<>> /\ queue' = Tail(queue) /\ busy' = busy + 1
      /\ awake[k] > 0 /\ awake' = Less(awake, k) /\ working' = More(working, k)
      /\ task' = [task EXCEPT ![Head(queue)] = "running"]
      /\ phase' = phase /\ normal' = normal /\ temp' = temp
      /\ waiting' = waiting /\ ending' = ending
  BY DEF TakeTask
<1>3. queue' \in Seq(Tasks) /\ Len(queue') = Len(queue) - 1
  BY <1>1, <1>2 DEF TypeOK
<1>4. awake \in [Kinds -> Nat] /\ working \in [Kinds -> Nat]
  BY <1>1 DEF TypeOK
<1>5. /\ awake' \in [Kinds -> Nat] /\ working' \in [Kinds -> Nat]
      /\ awake'["normal"] = awake["normal"] - NormalOne(k)
      /\ awake'["temp"] = awake["temp"] - TempOne(k)
      /\ working'["normal"] = working["normal"] + NormalOne(k)
      /\ working'["temp"] = working["temp"] + TempOne(k)
  BY <1>2, <1>4, Moved
<1>6. TypeOK'
  <2>1. busy' \in Nat
    BY <1>1, <1>2, NaturalCounts
  <2>2. task' \in [Tasks -> {"new", "refused", "queued", "running", "done"}]
    BY <1>1, <1>2 DEF TypeOK
  <2> QED
    BY <2>1, <2>2, <1>1, <1>2, <1>3, <1>5 DEF TypeOK
<1>7. Counts'
  <2>1. Counts
    BY DEF Pool
  <2>2. /\ busy' = busy + 1 /\ normal' = normal /\ temp' = temp
        /\ waiting' = waiting /\ ending' = ending
    BY <1>2
  <2>3. /\ NormalOne(k) \in Nat /\ TempOne(k) \in Nat /\ NormalOne(k) + TempOne(k) = 1
        /\ working["normal"] \in Nat /\ working["temp"] \in Nat
        /\ ending["normal"] \in Nat /\ ending["temp"] \in Nat
    BY <1>1, NaturalCounts, One
  <2>4. busy' = working'["normal"] + working'["temp"] + ending'["normal"] + ending'["temp"]
    <3>1. working'["normal"] + working'["temp"] = working["normal"] + working["temp"] + 1
      BY <2>3, <1>5
    <3> QED
      BY <3>1, <2>1, <2>2, <2>3 DEF Counts
  <2>5. /\ normal' = waiting'["normal"] + awake'["normal"] + working'["normal"] + ending'["normal"]
        /\ temp' = waiting'["temp"] + awake'["temp"] + working'["temp"] + ending'["temp"]
    BY <2>1, <2>2, <2>3, <1>1, <1>5, NaturalCounts DEF Counts
  <2> QED
    BY <2>4, <2>5 DEF Counts
<1>8. Staffed'
  BY <1>1, <1>2, <1>3, NaturalCounts, QueueLength DEF Pool, Staffed, PerfectCount, InitCount, MaxCount
<1>9. Leaving'
  BY <1>2 DEF Pool, Leaving
<1>10. Promises'
  <2>1. Len(queue') + busy' <= Len(queue) + busy
    BY <1>1, <1>2, <1>3, NaturalCounts, QueueLength
  <2>2. Len(queue') - Len(queue)
          <= (awake'["normal"] + awake'["temp"]) - (awake["normal"] + awake["temp"])
    <3>1. awake'["normal"] + awake'["temp"] = (awake["normal"] + awake["temp"]) - 1
      BY <1>1, <1>5, NaturalCounts, One
    <3> QED
      BY <3>1, <1>1, <1>3, NaturalCounts, QueueLength
  <2> QED
    BY <2>1, <2>2, <1>2, <1>6, PromisesKept
<1> QED
  BY <1>6, <1>7, <1>8, <1>9, <1>10 DEF Pool

LEMMA NotBusyPool ==
    ASSUME Pool, Promises, NEW k \in Kinds, NotBusy(k)
    PROVE  Pool' /\ Promises'
<1> USE Arguments
<1>1. TypeOK
  BY DEF Pool
<1>2. /\ ending[k] > 0 /\ ending' = Less(ending, k) /\ awake' = More(awake, k)
      /\ busy' = busy - 1
      /\ phase' = phase /\ queue' = queue /\ task' = task
      /\ normal' = normal /\ temp' = temp /\ waiting' = waiting /\ working' = working
  BY DEF NotBusy
<1>3. awake \in [Kinds -> Nat] /\ ending \in [Kinds -> Nat]
  BY <1>1 DEF TypeOK
<1>4. /\ awake' \in [Kinds -> Nat] /\ ending' \in [Kinds -> Nat]
      /\ awake'["normal"] = awake["normal"] + NormalOne(k)
      /\ awake'["temp"] = awake["temp"] + TempOne(k)
      /\ ending'["normal"] = ending["normal"] - NormalOne(k)
      /\ ending'["temp"] = ending["temp"] - TempOne(k)
  BY <1>2, <1>3, Moved
<1>5. Counts'
  <2>1. Counts
    BY DEF Pool
  <2> QED
    BY <2>1, <1>1, <1>2, <1>4, NaturalCounts, One DEF Counts
<1>6. busy' \in Nat
  <2>1. ending'["normal"] \in Nat /\ ending'["temp"] \in Nat
    BY <1>4 DEF Kinds
  <2> QED
    <3>1. /\ busy' = working["normal"] + working["temp"] + ending'["normal"] + ending'["temp"]
      BY <1>2, <1>5 DEF Counts
    <3> QED
      BY <3>1, <2>1, <1>1, NaturalCounts
<1>7. TypeOK'
  BY <1>1, <1>2, <1>4, <1>6 DEF TypeOK
<1>8. Staffed' /\ Leaving'
  BY <1>2 DEF Pool, Staffed, Leaving, PerfectCount, InitCount, MaxCount
<1>9. Promises'
  <2>1. Len(queue') + busy' <= Len(queue) + busy
    BY <1>1, <1>2, NaturalCounts
  <2>2. Len(queue') - Len(queue)
          <= (awake'["normal"] + awake'["temp"]) - (awake["normal"] + awake["temp"])
    <3>1. awake'["normal"] + awake'["temp"] = (awake["normal"] + awake["temp"]) + 1
      BY <1>1, <1>4, NaturalCounts, One
    <3> QED
      BY <3>1, <1>1, <1>2, NaturalCounts, QueueLength
  <2> QED
    BY <2>1, <2>2, <1>2, <1>7, PromisesKept
<1> QED
  BY <1>5, <1>7, <1>8, <1>9 DEF Pool

LEMMA WaitPool ==
    ASSUME Pool, Promises, NEW k \in Kinds, Wait(k)
    PROVE  Pool' /\ Promises'
<1> USE Arguments
<1>1. TypeOK
  BY DEF Pool
<1>2. /\ awake[k] > 0 /\ awake' = Less(awake, k) /\ waiting' = More(waiting, k)
      /\ phase = "open" /\ phase' = phase /\ busy' = busy
      /\ normal' = normal /\ temp' = temp /\ working' = working /\ ending' = ending
  BY DEF Wait, willExit, counters
<1>3. queue = <<>> /\ queue' = queue /\ task' = task
  BY DEF Wait
<1>4. awake \in [Kinds -> Nat] /\ waiting \in [Kinds -> Nat]
  BY <1>1 DEF TypeOK
<1>5. /\ awake' \in [Kinds -> Nat] /\ waiting' \in [Kinds -> Nat]
      /\ awake'["normal"] = awake["normal"] - NormalOne(k)
      /\ awake'["temp"] = awake["temp"] - TempOne(k)
      /\ waiting'["normal"] = waiting["normal"] + NormalOne(k)
      /\ waiting'["temp"] = waiting["temp"] + TempOne(k)
  BY <1>2, <1>4, Moved
<1>6. TypeOK'
  BY <1>1, <1>2, <1>3, <1>5 DEF TypeOK
<1>7. Counts'
  <2>1. Counts
    BY DEF Pool
  <2> QED
    BY <2>1, <1>1, <1>2, <1>5, NaturalCounts, One DEF Counts
<1>8. Staffed' /\ Leaving'
  BY <1>2, <1>3 DEF Pool, Staffed, Leaving, PerfectCount, InitCount, MaxCount
<1>9. Promises'
  <2>1. Len(queue') = 0
    BY <1>1, <1>3, QueueLength
  <2>2. Len(queue') + busy' <= Len(queue) + busy
    BY <1>1, <1>2, <1>3, NaturalCounts, QueueLength
  <2> QED
    BY <2>1, <2>2, <1>2, <1>6, PromisesKept
<1> QED
  BY <1>6, <1>7, <1>8, <1>9 DEF Pool

LEMMA TimeOutPool ==
    ASSUME Pool, Promises, TimeOut
    PROVE  Pool' /\ Promises'
<1> USE Arguments
<1>1. TypeOK /\ "temp" \in Kinds
  BY DEF Pool, Kinds
<1>2. /\ waiting["temp"] > 0
      /\ waiting' = Less(waiting, "temp") /\ awake' = More(awake, "temp")
      /\ phase' = phase /\ queue' = queue /\ task' = task /\ busy' = busy
      /\ normal' = normal /\ temp' = temp /\ working' = working /\ ending' = ending
  BY DEF TimeOut, counters
<1>3. awake \in [Kinds -> Nat] /\ waiting \in [Kinds -> Nat]
  BY <1>1 DEF TypeOK
<1>4. NormalOne("temp") = 0 /\ TempOne("temp") = 1
  BY DEF NormalOne, TempOne
<1>5. /\ awake' \in [Kinds -> Nat] /\ waiting' \in [Kinds -> Nat]
      /\ awake'["normal"] = awake["normal"] /\ awake'["temp"] = awake["temp"] + 1
      /\ waiting'["normal"] = waiting["normal"] /\ waiting'["temp"] = waiting["temp"] - 1
  BY <1>1, <1>2, <1>3, <1>4, Moved
<1>6. TypeOK'
  BY <1>1, <1>2, <1>5 DEF TypeOK
<1>7. Counts'
  <2>1. Counts
    BY DEF Pool
  <2> QED
    BY <2>1, <1>1, <1>2, <1>5, NaturalCounts DEF Counts
<1>8. Staffed'
  BY <1>2 DEF Pool, Staffed, PerfectCount, InitCount, MaxCount
<1>9. Leaving'
  BY <1>2, <1>5, <1>1, NaturalCounts DEF Pool, Leaving
<1>10. Promises'
  <2>1. waiting # None
    BY <1>2, <1>3, NoneCounted
  <2>2. Len(queue') + busy' <= Len(queue) + busy
    BY <1>1, <1>2, NaturalCounts, QueueLength
  <2>3. Len(queue') - Len(queue)
          <= (awake'["normal"] + awake'["temp"]) - (awake["normal"] + awake["temp"])
    <3>1. awake'["normal"] + awake'["temp"] = (awake["normal"] + awake["temp"]) + 1
      BY <1>1, <1>5, NaturalCounts
    <3> QED
      BY <3>1, <1>1, <1>2, NaturalCounts, QueueLength
  <2> QED
    BY <2>1, <2>2, <2>3, <1>2, <1>6, PromisesKept
<1> QED
  BY <1>6, <1>7, <1>8, <1>9, <1>10 DEF Pool

(* Arithmetic the provers want stated for numbers.                         *)
LEMMA NotAbove ==
    ASSUME NEW n \in Nat, NEW m \in Nat, NEW b \in Nat, b <= n + m
    PROVE  ~(0 > n + m - b)
  OBVIOUS

LEMMA FewerThreads ==
    ASSUME NEW n \in Nat, NEW m \in Nat, NEW n1 \in Nat, NEW m1 \in Nat, NEW limit \in Nat,
           n1 + m1 <= n + m, limit > 0 => n + m <= limit
    PROVE  limit > 0 => n1 + m1 <= limit
  OBVIOUS

(* A thread that leaves takes nothing from anybody: the queue is empty.    *)
LEMMA ExitPool ==
    ASSUME Pool, Promises, NEW k \in Kinds, Exit(k)
    PROVE  Pool' /\ Promises'
<1> USE Arguments
<1>1. TypeOK
  BY DEF Pool
<1>2. /\ awake[k] > 0 /\ awake' = Less(awake, k)
      /\ normal' = IF k = "normal" THEN normal - 1 ELSE normal
      /\ temp' = IF k = "temp" THEN temp - 1 ELSE temp
      /\ phase' = phase /\ busy' = busy
      /\ waiting' = waiting /\ working' = working /\ ending' = ending
      /\ phase = "open" => k = "temp"
  BY DEF Exit, MayLeave, willExit
<1>3. queue = <<>> /\ queue' = queue /\ task' = task
  BY DEF Exit, MayLeave
<1>4. awake \in [Kinds -> Nat]
  BY <1>1 DEF TypeOK
<1>5. /\ awake' \in [Kinds -> Nat]
      /\ awake'["normal"] = awake["normal"] - NormalOne(k)
      /\ awake'["temp"] = awake["temp"] - TempOne(k)
  BY <1>2, <1>4, Moved
<1>6. normal' = normal - NormalOne(k) /\ temp' = temp - TempOne(k)
  BY <1>1, <1>2, NaturalCounts DEF Kinds, NormalOne, TempOne
<1>7. Counts'
  <2>1. Counts
    BY DEF Pool
  <2> QED
    BY <2>1, <1>1, <1>2, <1>5, <1>6, NaturalCounts, One DEF Counts
<1>8. awake'["normal"] \in Nat /\ awake'["temp"] \in Nat
  BY <1>5 DEF Kinds
<1>9. normal' \in Nat /\ temp' \in Nat
  BY <1>1, <1>2, <1>7, <1>8, NaturalCounts DEF Counts
<1>10. TypeOK'
  BY <1>1, <1>2, <1>3, <1>5, <1>9 DEF TypeOK
<1>11. normal' <= normal /\ temp' <= temp
  BY <1>1, <1>6, One, NaturalCounts
<1>12. Len(queue) = 0 /\ Len(queue') = 0
  BY <1>1, <1>3, QueueLength
<1>13. phase = "open" => normal' = normal
  BY <1>2
<1>14. Staffed'
  <2>1. normal' <= PerfectCount
    BY <1>1, <1>9, <1>11, NaturalCounts DEF Pool, Staffed
  <2>2. phase' = "open" => normal' >= InitCount
    BY <1>2, <1>13 DEF Pool, Staffed
  <2> QED
    BY <2>1, <2>2, <1>12 DEF Staffed, InitCount, PerfectCount, MaxCount
<1>15. Leaving'
  BY <1>1, <1>2, <1>9, <1>11, NaturalCounts DEF Pool, Leaving
<1>16. Promises'
  <2>1. GrowsOnDemand'
    <3>1. busy' <= normal' + temp'
      <4>1. /\ waiting["normal"] \in Nat /\ waiting["temp"] \in Nat
            /\ working["normal"] \in Nat /\ working["temp"] \in Nat
            /\ ending["normal"] \in Nat /\ ending["temp"] \in Nat
        BY <1>1, NaturalCounts
      <4>2. waiting' = waiting /\ working' = working /\ ending' = ending
        BY <1>2
      <4> QED
        BY <4>1, <4>2, <1>7, <1>8 DEF Counts
    <3>2. busy' \in Nat
      BY <1>10 DEF TypeOK
    <3>3. ~(0 > normal' + temp' - busy')
      BY <3>1, <3>2, <1>9, NotAbove
    <3> QED
      BY <3>3, <1>12 DEF GrowsOnDemand
  <2>2. NoLostWakeup'
    <3>1. 0 <= awake'["normal"] + awake'["temp"]
      BY <1>8
    <3> QED
      BY <3>1, <1>12 DEF NoLostWakeup
  <2>3. MaxRespected'
    <3>1. MaxCount > 0 => normal' + temp' <= MaxCount
      <4>1. normal' + temp' <= normal + temp
        BY <1>1, <1>9, <1>11, NaturalCounts
      <4>2. MaxCount > 0 => normal + temp <= MaxCount
        BY DEF Promises, MaxRespected
      <4>3. normal \in Nat /\ temp \in Nat /\ MaxCount \in Nat
        BY <1>1, NaturalCounts
      <4> QED
        BY <4>1, <4>2, <4>3, <1>9, FewerThreads
    <3>2. temp' > 0 /\ phase' = "open" => normal' >= PerfectCount
      BY <1>1, <1>2, <1>9, <1>11, <1>13, NaturalCounts DEF Promises, MaxRespected
    <3> QED
      BY <3>1, <3>2 DEF MaxRespected, PerfectCount, InitCount, MaxCount
  <2> QED
    BY <2>1, <2>2, <2>3 DEF Promises
<1> QED
  BY <1>7, <1>10, <1>14, <1>15, <1>16 DEF Pool

LEMMA ReleaseBeginPool ==
    ASSUME Pool, Promises, ReleaseBegin
    PROVE  Pool' /\ Promises'
<1> USE Arguments
<1>1. TypeOK /\ "normal" \in Kinds /\ "temp" \in Kinds
  BY DEF Pool, Kinds
<1>2. /\ phase' = "joining" /\ queue' = queue /\ task' = task /\ busy' = busy
      /\ normal' = normal /\ temp' = temp /\ working' = working /\ ending' = ending
      /\ waiting' = [k \in Kinds |-> waiting[k] - waiting[k]]
      /\ awake' = [k \in Kinds |-> awake[k] + waiting[k]]
  BY DEF ReleaseBegin, Woken, counters
<1>3. waiting' \in [Kinds -> Nat] /\ awake' \in [Kinds -> Nat]
  <2>1. ASSUME NEW k \in Kinds
        PROVE  waiting[k] - waiting[k] \in Nat /\ awake[k] + waiting[k] \in Nat
    <3>1. waiting[k] \in Nat /\ awake[k] \in Nat
      BY <1>1 DEF TypeOK
    <3> QED
      BY <3>1
  <2> QED
    BY <1>2, <2>1
<1>4. /\ waiting'["normal"] = 0 /\ waiting'["temp"] = 0
      /\ awake'["normal"] = awake["normal"] + waiting["normal"]
      /\ awake'["temp"] = awake["temp"] + waiting["temp"]
  BY <1>1, <1>2, NaturalCounts
<1>5. TypeOK'
  BY <1>1, <1>2, <1>3 DEF TypeOK
<1>6. Counts'
  <2>1. Counts
    BY DEF Pool
  <2> QED
    BY <2>1, <1>1, <1>2, <1>4, NaturalCounts DEF Counts
<1>7. Staffed'
  BY <1>2 DEF Pool, Staffed, PerfectCount, InitCount, MaxCount
<1>8. Leaving'
  BY <1>2, <1>4 DEF Leaving
<1>9. Promises'
  <2>1. waiting' = None
    BY <1>3, <1>4, NoneCounted
  <2>2. Len(queue') + busy' <= Len(queue) + busy
    BY <1>1, <1>2, NaturalCounts, QueueLength
  <2> QED
    BY <2>1, <2>2, <1>2, <1>5, PromisesKept
<1> QED
  BY <1>5, <1>6, <1>7, <1>8, <1>9 DEF Pool

(* Steps that move no thread.                                              *)
LEMMA StillPool ==
    ASSUME Pool, Promises,
           task' \in [Tasks -> {"new", "refused", "queued", "running", "done"}],
           UNCHANGED <<queue, counters, threads>>,
           \/ UNCHANGED phase
           \/ phase' = "draining" /\ phase = "joining" /\ normal = 0
           \/ phase' = "released" /\ phase = "draining" /\ temp = 0
    PROVE  Pool' /\ Promises'
<1> USE Arguments
<1>1. /\ queue' = queue /\ normal' = normal /\ temp' = temp /\ busy' = busy
      /\ waiting' = waiting /\ awake' = awake /\ working' = working /\ ending' = ending
  BY DEF counters, threads
<1>2. TypeOK'
  BY <1>1 DEF Pool, TypeOK
<1>3. Counts' /\ Staffed'
  BY <1>1 DEF Pool, Counts, Staffed, PerfectCount, InitCount, MaxCount
<1>4. Leaving'
  BY <1>1 DEF Pool, Leaving
<1>5. Promises'
  BY <1>1 DEF Promises, GrowsOnDemand, NoLostWakeup, MaxRespected, AtCap, MayAddTemp,
              None, PerfectCount, InitCount, MaxCount
<1> QED
  BY <1>2, <1>3, <1>4, <1>5 DEF Pool

LEMMA EndTaskPool ==
    ASSUME Pool, Promises, NEW k \in Kinds, NEW t \in Tasks, EndTask(k, t)
    PROVE  Pool' /\ Promises'
<1> USE Arguments
<1>1. TypeOK
  BY DEF Pool
<1>2. /\ working[k] > 0 /\ working' = Less(working, k) /\ ending' = More(ending, k)
      /\ task' = [task EXCEPT ![t] = "done"]
      /\ phase' = phase /\ queue' = queue /\ busy' = busy
      /\ normal' = normal /\ temp' = temp /\ waiting' = waiting /\ awake' = awake
  BY DEF EndTask, counters
<1>3. working \in [Kinds -> Nat] /\ ending \in [Kinds -> Nat]
  BY <1>1 DEF TypeOK
<1>4. /\ working' \in [Kinds -> Nat] /\ ending' \in [Kinds -> Nat]
      /\ working'["normal"] = working["normal"] - NormalOne(k)
      /\ working'["temp"] = working["temp"] - TempOne(k)
      /\ ending'["normal"] = ending["normal"] + NormalOne(k)
      /\ ending'["temp"] = ending["temp"] + TempOne(k)
  BY <1>2, <1>3, Moved
<1>5. task' \in [Tasks -> {"new", "refused", "queued", "running", "done"}]
  BY <1>1, <1>2 DEF TypeOK
<1>6. TypeOK'
  BY <1>1, <1>2, <1>4, <1>5 DEF TypeOK
<1>7. Counts'
  <2>1. Counts
    BY DEF Pool
  <2>2. /\ busy' = busy /\ normal' = normal /\ temp' = temp
        /\ waiting' = waiting /\ awake' = awake
    BY <1>2
  <2> QED
    BY <2>1, <2>2, <1>1, <1>4, NaturalCounts, One DEF Counts
<1>8. Staffed' /\ Leaving'
  BY <1>2 DEF Pool, Staffed, Leaving, PerfectCount, InitCount, MaxCount
<1>9. Promises'
  BY <1>2 DEF Promises, GrowsOnDemand, NoLostWakeup, MaxRespected, AtCap, MayAddTemp,
              None, PerfectCount, InitCount, MaxCount
<1> QED
  BY <1>6, <1>7, <1>8, <1>9 DEF Pool

-----------------------------------------------------------------------------
(* The tasks: a queue that got t at its place p.                           *)

Inserted(newQueue, t, p) ==
    /\ newQueue \in Seq(Tasks) /\ Len(newQueue) = Len(queue) + 1
    /\ p \in 1 .. Len(newQueue) /\ newQueue[p] = t
    /\ \A i \in 1 .. Len(newQueue) :
          /\ i < p => i \in 1 .. Len(queue) /\ newQueue[i] = queue[i]
          /\ i > p => i - 1 \in 1 .. Len(queue) /\ newQueue[i] = queue[i - 1]

LEMMA AppendInserts ==
    ASSUME TypeOK, NEW t \in Tasks
    PROVE  Inserted(Append(queue, t), t, Len(queue) + 1)
  BY DEF TypeOK, Inserted

LEMMA PrependInserts ==
    ASSUME TypeOK, NEW t \in Tasks
    PROVE  Inserted(<<t>> \o queue, t, 1)
  BY DEF TypeOK, Inserted

LEMMA AcceptOrder ==
    ASSUME TypeOK, InOrder, NEW t \in Tasks, NEW newQueue, NEW p,
           task[t] = "new", Inserted(newQueue, t, p),
           queue' = newQueue, task' = [task EXCEPT ![t] = "queued"]
    PROVE  InOrder'
<1>1. /\ newQueue \in Seq(Tasks) /\ Len(newQueue) = Len(queue) + 1
      /\ p \in 1 .. Len(newQueue) /\ newQueue[p] = t
      /\ Len(queue) \in Nat
  BY DEF Inserted, TypeOK
<1>2. ASSUME NEW i \in 1 .. Len(newQueue), i # p
      PROVE  \E j \in 1 .. Len(queue) :
                /\ newQueue[i] = queue[j]
                /\ j = IF i < p THEN i ELSE i - 1
  BY <1>1, <1>2 DEF Inserted
<1>3. \A j \in 1 .. Len(queue) : queue[j] \in Tasks /\ queue[j] # t
  BY DEF TypeOK, InOrder
<1>4. ASSUME NEW i \in 1 .. Len(queue')
      PROVE  task'[queue'[i]] = "queued"
  <2>1. CASE i = p
    BY <2>1, <1>1 DEF TypeOK
  <2>2. CASE i # p
    BY <2>2, <1>2, <1>3 DEF TypeOK, InOrder
  <2> QED
    BY <2>1, <2>2
<1>5. ASSUME NEW i \in 1 .. Len(queue'), NEW k \in 1 .. Len(queue'), queue'[i] = queue'[k]
      PROVE  i = k
  <2>1. CASE i = p \/ k = p
    BY <2>1, <1>1, <1>2, <1>3, <1>5
  <2>2. CASE i # p /\ k # p
    <3>1. PICK a \in 1 .. Len(queue) : newQueue[i] = queue[a] /\ a = IF i < p THEN i ELSE i - 1
      BY <2>2, <1>2
    <3>2. PICK b \in 1 .. Len(queue) : newQueue[k] = queue[b] /\ b = IF k < p THEN k ELSE k - 1
      BY <2>2, <1>2
    <3>3. a = b
      BY <3>1, <3>2, <1>5 DEF InOrder
    <3> QED
      BY <3>1, <3>2, <3>3, <2>2, <1>1
  <2> QED
    BY <2>1, <2>2
<1>6. ASSUME NEW u \in Tasks, task'[u] = "queued"
      PROVE  \E i \in 1 .. Len(queue') : queue'[i] = u
  <2>1. CASE u = t
    BY <2>1, <1>1
  <2>2. CASE u # t
    <3>1. PICK j \in 1 .. Len(queue) : queue[j] = u
      BY <2>2, <1>6 DEF TypeOK, InOrder
    <3>2. CASE j < p
      <4>1. j \in 1 .. Len(newQueue)
        BY <1>1
      <4> QED
        BY <3>1, <3>2, <4>1 DEF Inserted
    <3>3. CASE j >= p
      <4>1. j + 1 \in 1 .. Len(newQueue) /\ j + 1 > p /\ (j + 1) - 1 = j
        BY <3>3, <1>1
      <4> QED
        BY <3>1, <4>1 DEF Inserted
    <3> QED
      BY <3>2, <3>3, <1>1
  <2> QED
    BY <2>1, <2>2
<1> QED
  BY <1>4, <1>5, <1>6 DEF InOrder

LEMMA TakeOrder ==
    ASSUME TypeOK, InOrder, queue # <<>>,
           queue' = Tail(queue), task' = [task EXCEPT ![Head(queue)] = "running"]
    PROVE  InOrder'
<1>1. /\ Len(queue) \in Nat /\ Len(queue) > 0 /\ Len(queue') = Len(queue) - 1
      /\ Head(queue) = queue[1]
      /\ \A i \in 1 .. Len(queue') : queue'[i] = queue[i + 1]
  BY DEF TypeOK
<1>2. \A i \in 1 .. Len(queue') : i + 1 \in 1 .. Len(queue) /\ i + 1 # 1
  BY <1>1
<1>3. \A j \in 1 .. Len(queue) : queue[j] \in Tasks
  BY DEF TypeOK
<1>4. 1 \in 1 .. Len(queue)
  BY <1>1
<1>5. ASSUME NEW i \in 1 .. Len(queue')
      PROVE  task'[queue'[i]] = "queued"
  <2>1. /\ queue'[i] = queue[i + 1] /\ i + 1 \in 1 .. Len(queue) /\ i + 1 # 1
        /\ queue[i + 1] \in Tasks
    BY <1>1, <1>2, <1>3
  <2>2. queue[i + 1] # queue[1] /\ task[queue[i + 1]] = "queued"
    BY <2>1, <1>4 DEF InOrder
  <2> QED
    BY <2>1, <2>2, <1>1 DEF TypeOK
<1>6. ASSUME NEW i \in 1 .. Len(queue'), NEW k \in 1 .. Len(queue'), queue'[i] = queue'[k]
      PROVE  i = k
  <2>1. i + 1 = k + 1
    BY <1>1, <1>2, <1>6 DEF InOrder
  <2> QED
    BY <2>1, <1>1
<1>7. ASSUME NEW u \in Tasks, task'[u] = "queued"
      PROVE  \E i \in 1 .. Len(queue') : queue'[i] = u
  <2>1. u # queue[1] /\ task[u] = "queued"
    BY <1>1, <1>3, <1>4, <1>7 DEF TypeOK
  <2>2. PICK j \in 1 .. Len(queue) : queue[j] = u
    BY <2>1 DEF InOrder
  <2>3. j # 1
    BY <2>1, <2>2
  <2>4. j - 1 \in 1 .. Len(queue') /\ (j - 1) + 1 = j
    BY <2>3, <1>1
  <2> QED
    BY <2>2, <2>4, <1>1
<1> QED
  BY <1>5, <1>6, <1>7 DEF InOrder

LEMMA SameOrder ==
    ASSUME InOrder, TypeOK, queue' = queue,
           \A t \in Tasks : task'[t] = "queued" <=> task[t] = "queued"
    PROVE  InOrder'
<1>1. \A i \in 1 .. Len(queue) : queue[i] \in Tasks
  BY DEF TypeOK
<1> QED
  BY <1>1 DEF InOrder

LEMMA SameCarried ==
    ASSUME Carried, working' = working,
           \A t \in Tasks : task'[t] = "running" <=> task[t] = "running"
    PROVE  Carried'
<1>1. RunningTasks(task') = RunningTasks(task)
  BY DEF RunningTasks
<1> QED
  BY <1>1 DEF Carried

LEMMA TakeCarried ==
    ASSUME TypeOK, InOrder, Carried, NEW k \in Kinds, TakeTask(k)
    PROVE  Carried'
<1>1. /\ queue # <<>> /\ task' = [task EXCEPT ![Head(queue)] = "running"]
      /\ working' = More(working, k)
  BY DEF TakeTask
<1>2. /\ Head(queue) \in Tasks /\ task[Head(queue)] = "queued"
  <2>1. 1 \in 1 .. Len(queue) /\ Head(queue) = queue[1] /\ queue[1] \in Tasks
    BY <1>1 DEF TypeOK
  <2> QED
    BY <2>1 DEF InOrder
<1>3. /\ RunningTasks(task') = RunningTasks(task) \cup {Head(queue)}
      /\ Head(queue) \notin RunningTasks(task)
  BY <1>1, <1>2 DEF RunningTasks, TypeOK
<1>4. /\ IsFiniteSet(RunningTasks(task'))
      /\ Cardinality(RunningTasks(task')) = Cardinality(RunningTasks(task)) + 1
  BY <1>3, FS_AddElement DEF Carried
<1>5. /\ working'["normal"] = working["normal"] + NormalOne(k)
      /\ working'["temp"] = working["temp"] + TempOne(k)
      /\ working["normal"] \in Nat /\ working["temp"] \in Nat
  BY <1>1, Moved DEF TypeOK
<1> QED
  BY <1>4, <1>5, One DEF Carried

LEMMA EndCarried ==
    ASSUME TypeOK, Carried, NEW k \in Kinds, NEW t \in Tasks, EndTask(k, t)
    PROVE  Carried'
<1>1. /\ task[t] = "running" /\ task' = [task EXCEPT ![t] = "done"]
      /\ working' = Less(working, k)
  BY DEF EndTask
<1>2. RunningTasks(task') = RunningTasks(task) \ {t} /\ t \in RunningTasks(task)
  BY <1>1 DEF RunningTasks, TypeOK
<1>3. /\ IsFiniteSet(RunningTasks(task'))
      /\ Cardinality(RunningTasks(task')) = Cardinality(RunningTasks(task)) - 1
  BY <1>2, FS_RemoveElement DEF Carried
<1>4. /\ working'["normal"] = working["normal"] - NormalOne(k)
      /\ working'["temp"] = working["temp"] - TempOne(k)
      /\ working["normal"] \in Nat /\ working["temp"] \in Nat
  BY <1>1, Moved DEF TypeOK
<1> QED
  BY <1>3, <1>4, One DEF Carried

-----------------------------------------------------------------------------
(* The invariant is inductive.                                             *)

LEMMA InitInv ==
    ASSUME Init
    PROVE  IInv
<1> USE Arguments
<1>1. /\ None \in [Kinds -> Nat] /\ None["normal"] = 0 /\ None["temp"] = 0
  BY DEF None, Kinds
<1>2. /\ awake \in [Kinds -> Nat] /\ awake["normal"] = InitCount /\ awake["temp"] = 0
  BY <1>1 DEF Init, Kinds
<1>3. /\ phase = "open" /\ queue = <<>> /\ normal = InitCount /\ temp = 0 /\ busy = 0
      /\ waiting = None /\ working = None /\ ending = None
      /\ task = [t \in Tasks |-> "new"]
  BY DEF Init
<1>4. queue \in Seq(Tasks) /\ Len(queue) = 0
  BY <1>3
<1>5. TypeOK
  BY <1>1, <1>2, <1>3, <1>4 DEF TypeOK
<1>6. Counts
  BY <1>1, <1>2, <1>3 DEF Counts
<1>7. Staffed /\ Leaving
  BY <1>3, <1>4 DEF Staffed, Leaving
<1>8. Promises
  <2>1. GrowsOnDemand
    BY <1>3, <1>4 DEF GrowsOnDemand
  <2>2. NoLostWakeup
    BY <1>3 DEF NoLostWakeup
  <2>3. MaxRespected
    BY <1>3 DEF MaxRespected
  <2> QED
    BY <2>1, <2>2, <2>3 DEF Promises
<1>9. InOrder
  BY <1>3, <1>4 DEF InOrder
<1>10. Carried
  <2>1. RunningTasks(task) = {}
    BY <1>3 DEF RunningTasks
  <2> QED
    BY <2>1, <1>1, <1>3, FS_EmptySet DEF Carried
<1> QED
  BY <1>5, <1>6, <1>7, <1>8, <1>9, <1>10 DEF IInv, Pool

LEMMA AcceptInv ==
    ASSUME IInv, NEW t \in Tasks, NEW newQueue, NEW p, Inserted(newQueue, t, p),
           Accept(t, newQueue)
    PROVE  IInv'
<1>1. TypeOK
  BY DEF IInv, Pool
<1>2. Pool' /\ Promises'
  BY AcceptPool DEF IInv, Longer, Inserted
<1>3. /\ task[t] = "new" /\ task' = [task EXCEPT ![t] = "queued"]
      /\ queue' = newQueue /\ working' = working
  BY DEF Accept, Queued
<1>4. InOrder'
  BY <1>1, <1>3, AcceptOrder DEF IInv
<1>5. Carried'
  <2>1. \A u \in Tasks : task'[u] = "running" <=> task[u] = "running"
    BY <1>1, <1>3 DEF TypeOK
  <2> QED
    BY <2>1, <1>3, SameCarried DEF IInv
<1> QED
  BY <1>2, <1>4, <1>5 DEF IInv

LEMMA NextInv ==
    ASSUME IInv, [Next]_vars
    PROVE  IInv'
<1>1. TypeOK
  BY DEF IInv, Pool
<1>2. ASSUME Pool', Promises', queue' = queue, task' = task, working' = working
      PROVE  IInv'
  BY <1>1, <1>2, SameOrder, SameCarried DEF IInv
<1>3. ASSUME NEW t \in Tasks, WakeUp(t) \/ ForceWakeUp(t) \/ PriorWakeUp(t)
      PROVE  IInv'
  BY <1>1, <1>3, AppendInserts, PrependInserts, AcceptInv DEF WakeUp, ForceWakeUp, PriorWakeUp
<1>4. ASSUME NEW t \in Tasks, Refuse(t)
      PROVE  IInv'
  <2>1. /\ task[t] = "new" /\ task' = [task EXCEPT ![t] = "refused"]
        /\ UNCHANGED phase /\ UNCHANGED <<queue, counters, threads>>
    BY <1>4 DEF Refuse
  <2>2. task' \in [Tasks -> {"new", "refused", "queued", "running", "done"}]
    BY <2>1, <1>1 DEF TypeOK
  <2>3. Pool' /\ Promises'
    BY <2>1, <2>2, StillPool DEF IInv
  <2>4. \A u \in Tasks : /\ task'[u] = "queued" <=> task[u] = "queued"
                         /\ task'[u] = "running" <=> task[u] = "running"
    BY <2>1, <1>1 DEF TypeOK
  <2> QED
    BY <2>1, <2>3, <2>4, <1>1, SameOrder, SameCarried DEF IInv, threads
<1>5. ASSUME NEW k \in Kinds, TakeTask(k)
      PROVE  IInv'
  <2>1. queue # <<>> /\ queue' = Tail(queue) /\ task' = [task EXCEPT ![Head(queue)] = "running"]
    BY <1>5 DEF TakeTask
  <2> QED
    BY <2>1, <1>1, <1>5, TakeTaskPool, TakeOrder, TakeCarried DEF IInv
<1>6. ASSUME NEW k \in Kinds, NEW t \in Tasks, EndTask(k, t)
      PROVE  IInv'
  <2>1. queue' = queue /\ \A u \in Tasks : task'[u] = "queued" <=> task[u] = "queued"
    BY <1>1, <1>6 DEF EndTask, TypeOK
  <2> QED
    BY <2>1, <1>1, <1>6, EndTaskPool, SameOrder, EndCarried DEF IInv
<1>7. ASSUME NEW k \in Kinds, NotBusy(k)
      PROVE  IInv'
  BY <1>2, <1>7, NotBusyPool DEF IInv, NotBusy
<1>8. ASSUME NEW k \in Kinds, Wait(k)
      PROVE  IInv'
  BY <1>2, <1>8, WaitPool DEF IInv, Wait
<1>9. ASSUME NEW k \in Kinds, Exit(k)
      PROVE  IInv'
  BY <1>2, <1>9, ExitPool DEF IInv, Exit
<1>10. CASE TimeOut
  BY <1>2, <1>10, TimeOutPool DEF IInv, TimeOut
<1>11. CASE ReleaseBegin
  BY <1>2, <1>11, ReleaseBeginPool DEF IInv, ReleaseBegin
<1>12. CASE Joined \/ ReleaseEnd \/ UNCHANGED vars
  <2>1. /\ queue' = queue /\ task' = task /\ UNCHANGED <<queue, counters, threads>>
        /\ \/ UNCHANGED phase
           \/ phase' = "draining" /\ phase = "joining" /\ normal = 0
           \/ phase' = "released" /\ phase = "draining" /\ temp = 0
    BY <1>12 DEF Joined, ReleaseEnd, TempsGone, vars
  <2>2. working' = working
    BY <2>1 DEF threads
  <2> QED
    BY <2>1, <2>2, <1>1, <1>2, StillPool DEF IInv, TypeOK
<1> QED
  BY <1>3, <1>4, <1>5, <1>6, <1>7, <1>8, <1>9, <1>10, <1>11, <1>12 DEF Next, ThreadStep

LEMMA Invariant == Spec => []IInv
<1>1. Init => IInv
  BY InitInv
<1>2. IInv /\ [Next]_vars => IInv'
  BY NextInv
<1> QED
  BY <1>1, <1>2, PTL DEF Spec

-----------------------------------------------------------------------------
(* The counters never go below zero, and the queue and the tasks are what  *)
(* they should be.                                                         *)
THEOREM TypeCorrect == Spec => []TypeOK
<1>1. IInv => TypeOK
  BY DEF IInv, Pool
<1> QED
  BY <1>1, Invariant, PTL

(* wakeUp starts threads whenever more tasks wait than threads are free,   *)
(* unless the pool is at its limit, although the counters it looks at are  *)
(* changed by the threads in sections of their own.                        *)
THEOREM AlwaysGrows == Spec => []GrowsOnDemand
<1>1. IInv => GrowsOnDemand
  BY DEF IInv, Promises
<1> QED
  BY <1>1, Invariant, PTL

(* One notify_one per task is enough: no thread sleeps while more tasks    *)
(* are queued than threads are on their way to them.                       *)
THEOREM WakeupsSuffice == Spec => []NoLostWakeup
<1>1. IInv => NoLostWakeup
  BY DEF IInv, Promises
<1> QED
  BY <1>1, Invariant, PTL

(* The pool keeps to maxCount and uses temporary threads beyond            *)
(* perfectCount resident ones only.                                        *)
THEOREM LimitsKept == Spec => []MaxRespected
<1>1. IInv => MaxRespected
  BY DEF IInv, Promises
<1> QED
  BY <1>1, Invariant, PTL

LEMMA NoneOfFour ==
    ASSUME NEW a \in Nat, NEW b \in Nat, NEW c \in Nat, NEW d \in Nat, 0 = a + b + c + d
    PROVE  c = 0
  OBVIOUS

(* A released pool has no thread, no queued task and no running one.       *)
THEOREM NothingLeft == Spec => []ReleasedClean
<1>1. ASSUME IInv, phase = "released"
      PROVE  /\ normal = 0 /\ temp = 0 /\ queue = <<>>
             /\ \A t \in Tasks : task[t] \notin {"queued", "running"}
  <2>1. TypeOK
    BY <1>1 DEF IInv, Pool
  <2>2. normal = 0 /\ temp = 0
    BY <1>1 DEF IInv, Pool, Leaving
  <2>3. Len(queue) = 0
    BY <1>1, <2>1, <2>2, QueueLength DEF IInv, Pool, Staffed
  <2>4. queue = <<>>
    BY <2>1, <2>3, QueueLength
  <2>5. working["normal"] = 0 /\ working["temp"] = 0
    <3>1. /\ 0 = waiting["normal"] + awake["normal"] + working["normal"] + ending["normal"]
          /\ 0 = waiting["temp"] + awake["temp"] + working["temp"] + ending["temp"]
      BY <1>1, <2>2 DEF IInv, Pool, Counts
    <3>2. /\ waiting["normal"] \in Nat /\ awake["normal"] \in Nat
          /\ working["normal"] \in Nat /\ ending["normal"] \in Nat
          /\ waiting["temp"] \in Nat /\ awake["temp"] \in Nat
          /\ working["temp"] \in Nat /\ ending["temp"] \in Nat
      BY <2>1, NaturalCounts
    <3> QED
      BY <3>1, <3>2, NoneOfFour
  <2>6. RunningTasks(task) = {}
    BY <1>1, <2>5, FS_EmptySet DEF IInv, Carried
  <2>7. \A t \in Tasks : task[t] # "running"
    BY <2>6 DEF RunningTasks
  <2>8. \A t \in Tasks : task[t] # "queued"
    <3>1. ASSUME NEW t \in Tasks, task[t] = "queued"
          PROVE  FALSE
      <4>1. PICK i \in 1 .. Len(queue) : queue[i] = t
        BY <1>1, <3>1 DEF IInv, InOrder
      <4> QED
        BY <4>1, <2>3
    <3> QED
      BY <3>1
  <2> QED
    BY <2>2, <2>4, <2>7, <2>8
<1>2. IInv => ReleasedClean
  BY <1>1 DEF ReleasedClean
<1> QED
  BY <1>2, Invariant, PTL
=============================================================================
