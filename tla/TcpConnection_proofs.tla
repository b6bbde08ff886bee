------------------------ MODULE TcpConnection_proofs ------------------------
(***************************************************************************)
(* Proofs about a connection: it is closed once, and deleted only when no  *)
(* thread uses it; its packages leave whole and in order, all of them      *)
(* encrypted or none; and its state keeps its types.                       *)
(***************************************************************************)
EXTENDS TcpConnection, FiniteSetTheorems, TLAPS

(* Where a sender holds the ConnectionMap's lock, and where an I/O thread  *)
(* runs with a reference.                                                  *)
Sending == {"send", "wrote", "again", "sent", "wait", "modify"}
Running == {"send", "wrote", "again", "sent", "run", "runEnd", "read", "readEnd",
            "deliver", "check", "append", "modify", "close"}

BusyIn(places) == {w \in Workers : places[w] # "idle"}

Placed ==
    /\ pc \in [Threads -> Sending \cup Running \cup {"idle", "exit"}]
    /\ \A s \in Senders : pc[s] \in Sending \cup {"idle", "exit"}
    /\ \A w \in Workers : pc[w] \in Running \cup {"idle", "exit"}
    /\ pc[Loop] \in {"idle", "exit"}
    /\ lock \in Senders \cup {Nobody}
    /\ inMap \in BOOLEAN /\ connecting \in BOOLEAN /\ joined \in BOOLEAN
    /\ closing \in {"open", "posted", "reclaim", "released"}

(* The reference count is that of the queued runs and the running threads. *)
Counted == tasks \in Nat /\ refCount = tasks + Cardinality(BusyIn(pc))

Locking ==
    /\ \A s \in Senders : pc[s] \in Sending <=> lock = s
    /\ lock # Nobody => inMap

ClosedByOne ==
    /\ inMap => closing = "open"
    /\ \A t \in Threads : pc[t] = "exit" => ~inMap /\ closing = "open"
    /\ \A t, u \in Threads : pc[t] = "exit" /\ pc[u] = "exit" => t = u

(* Before it joined epoll no event of the connection is under way.         *)
NotJoined ==
    connecting => /\ inMap /\ ~joined /\ armed = {} /\ event = {}
                  /\ tasks = 0 /\ BusyIn(pc) = {}

IInv ==
    /\ Placed /\ Counted /\ Locking /\ ClosedByOne /\ NotJoined
    /\ closing = "released" => refCount = 0

-----------------------------------------------------------------------------
(* How a step of one thread changes the set of busy I/O threads.           *)

LEMMA BusyFinite ==
    ASSUME NEW places
    PROVE  /\ IsFiniteSet(BusyIn(places))
           /\ Cardinality(BusyIn(places)) \in Nat
<1>1. BusyIn(places) \subseteq Workers
  BY DEF BusyIn
<1>2. IsFiniteSet(BusyIn(places))
  BY <1>1, ThreadsAssumption, FS_Subset
<1> QED
  BY <1>2, FS_CardinalityType

LEMMA BusySame ==
    ASSUME NEW S, NEW places \in [Threads -> S], NEW t \in Threads, NEW place,
           t \notin Workers \/ (places[t] # "idle" /\ place # "idle")
    PROVE  BusyIn([places EXCEPT ![t] = place]) = BusyIn(places)
  BY ThreadsAssumption DEF BusyIn, Threads

LEMMA BusyMore ==
    ASSUME NEW S, NEW places \in [Threads -> S], NEW w \in Workers, NEW place,
           places[w] = "idle", place # "idle"
    PROVE  Cardinality(BusyIn([places EXCEPT ![w] = place]))
             = Cardinality(BusyIn(places)) + 1
<1>1. BusyIn([places EXCEPT ![w] = place]) = BusyIn(places) \cup {w}
  BY DEF BusyIn, Threads
<1>2. w \notin BusyIn(places)
  BY DEF BusyIn
<1> QED
  BY <1>1, <1>2, BusyFinite, FS_AddElement

LEMMA BusyLess ==
    ASSUME NEW S, NEW places \in [Threads -> S], NEW w \in Workers,
           places[w] # "idle"
    PROVE  /\ Cardinality(BusyIn([places EXCEPT ![w] = "idle"]))
                = Cardinality(BusyIn(places)) - 1
           /\ Cardinality(BusyIn(places)) > 0
<1>1. BusyIn([places EXCEPT ![w] = "idle"]) = BusyIn(places) \ {w}
  BY DEF BusyIn, Threads
<1>2. w \in BusyIn(places)
  BY DEF BusyIn
<1>3. Cardinality(BusyIn(places) \ {w}) = Cardinality(BusyIn(places)) - 1
  BY <1>2, BusyFinite, FS_RemoveElement
<1>4. Cardinality(BusyIn(places) \ {w}) \in Nat
  BY <1>1, BusyFinite
<1> DEFINE before == Cardinality(BusyIn(places))
           after  == Cardinality(BusyIn(places) \ {w})
<1>5. before \in Nat /\ after \in Nat
  BY <1>4, BusyFinite
<1>6. after = before - 1
  BY <1>3
<1>7. before > 0
  BY <1>5, <1>6
<1> QED
  BY <1>1, <1>6, <1>7

-----------------------------------------------------------------------------
(* Most steps move a thread from one place to another within its call.     *)

LEMMA StayStep ==
    ASSUME IInv, UNCHANGED <<mapVars, closing, pc>>
    PROVE  IInv'
  BY DEF IInv, Placed, Counted, Locking, ClosedByOne, NotJoined, BusyIn, mapVars

LEMMA SendingStep ==
    ASSUME IInv, NEW s \in Senders, pc[s] \in Sending,
           NEW place \in Sending, Goto(s, place), UNCHANGED <<mapVars, closing>>
    PROVE  IInv'
<1>1. s \in Threads /\ s \notin Workers /\ s # Loop
  BY ThreadsAssumption DEF Threads
<1>2. BusyIn(pc') = BusyIn(pc)
  BY <1>1, BusySame, ThreadsAssumption DEF IInv, Placed, Goto
<1>3. pc' = [pc EXCEPT ![s] = place] /\ DOMAIN pc = Threads
  BY DEF Goto, IInv, Placed
<1>4. \A t \in Threads : pc'[t] = IF t = s THEN place ELSE pc[t]
  BY <1>3
<1>5. place \notin {"idle", "exit"} /\ pc[s] # "exit"
  BY DEF Sending
<1>6. Placed'
  BY <1>1, <1>3, <1>4, ThreadsAssumption DEF IInv, Placed, mapVars, Threads
<1>7. Locking'
  BY <1>1, <1>4 DEF IInv, Locking, mapVars, Threads
<1>8. ClosedByOne'
  BY <1>1, <1>4, <1>5 DEF IInv, ClosedByOne, mapVars
<1> QED
  BY <1>2, <1>6, <1>7, <1>8 DEF IInv, Counted, NotJoined, mapVars

LEMMA RunningStep ==
    ASSUME IInv, NEW w \in Workers, pc[w] \in Running,
           NEW place \in Running, Goto(w, place), UNCHANGED <<mapVars, closing>>
    PROVE  IInv'
<1>1. w \in Threads /\ w \notin Senders /\ w # Loop
  BY ThreadsAssumption DEF Threads
<1>2. place \notin {"idle", "exit"} /\ pc[w] \notin {"idle", "exit"}
  BY DEF Running
<1>3. BusyIn(pc') = BusyIn(pc)
  BY <1>2, <1>1, BusySame DEF IInv, Placed, Goto
<1>4. pc' = [pc EXCEPT ![w] = place] /\ DOMAIN pc = Threads
  BY DEF Goto, IInv, Placed
<1>5. \A t \in Threads : pc'[t] = IF t = w THEN place ELSE pc[t]
  BY <1>4
<1>6. Placed'
  BY <1>1, <1>4, <1>5, ThreadsAssumption DEF IInv, Placed, mapVars, Threads
<1>7. Locking'
  BY <1>1, <1>5 DEF IInv, Locking, mapVars, Threads
<1>8. ClosedByOne'
  BY <1>2, <1>1, <1>5 DEF IInv, ClosedByOne, mapVars
<1> QED
  BY <1>3, <1>6, <1>7, <1>8 DEF IInv, Counted, NotJoined, mapVars

LEMMA SendInside ==
    ASSUME NEW t \in Senders \cup Workers, RealSend(t)
    PROVE  /\ UNCHANGED <<mapVars, closing>>
           /\ pc[t] \in Sending \cap Running
           /\ \/ UNCHANGED pc
              \/ \E place \in (Sending \cap Running)
                               \cup {IF t \in Senders THEN "wait" ELSE "runEnd"} :
                     Goto(t, place)
<1>1. CASE NextBuffer(t)
  BY <1>1 DEF NextBuffer, ReturnToken, endVars, Sending, Running
<1>2. CASE Write(t)
  BY <1>2 DEF Write, endVars, Sending, Running
<1>3. CASE Advance(t)
  BY <1>3 DEF Advance, endVars, Sending, Running
<1>4. CASE WriteRefused(t)
  BY <1>4 DEF WriteRefused, endVars, Sending, Running
<1>5. CASE StopSending(t)
  BY <1>5 DEF StopSending, ReturnToken, endVars, Sending, Running
<1>6. CASE AfterSend(t)
  <2>1. Goto(t, IF t \in Senders THEN "wait" ELSE "runEnd")
    BY <1>6 DEF AfterSend
  <2>2. UNCHANGED <<mapVars, closing>> /\ pc[t] = "sent"
    BY <1>6 DEF AfterSend, endVars
  <2> QED
    BY <2>1, <2>2 DEF Sending, Running
<1> QED
  BY <1>1, <1>2, <1>3, <1>4, <1>5, <1>6 DEF RealSend

LEMMA SenderSends ==
    ASSUME IInv, NEW s \in Senders, RealSend(s) \/ SenderWait(s)
    PROVE  IInv'
<1>1. CASE RealSend(s)
  <2>1. UNCHANGED <<mapVars, closing>> /\ pc[s] \in Sending
    BY <1>1, SendInside
  <2>2. UNCHANGED pc \/ \E place \in Sending : Goto(s, place)
    BY <1>1, SendInside DEF Sending
  <2> QED
    BY <2>1, <2>2, StayStep, SendingStep
<1>2. CASE SenderWait(s)
  <2>1. UNCHANGED <<mapVars, closing>> /\ pc[s] = "wait" /\ Goto(s, "modify")
    BY <1>2 DEF SenderWait, endVars
  <2> QED
    BY <2>1, SendingStep DEF Sending
<1> QED
  BY <1>1, <1>2

LEMMA WorkerSends ==
    ASSUME IInv, NEW w \in Workers, RealSend(w)
    PROVE  IInv'
<1>1. UNCHANGED <<mapVars, closing>> /\ pc[w] \in Running
  BY SendInside
<1>2. w \notin Senders
  BY ThreadsAssumption
<1>3. UNCHANGED pc \/ \E place \in Running : Goto(w, place)
  BY <1>2, SendInside DEF Running
<1> QED
  BY <1>1, <1>3, StayStep, RunningStep

(* The part of run and read in which a worker neither begins nor ends.     *)
RunInside(w) ==
    \/ RunRequireClose(w) \/ RunSend(w) \/ RunReadOnly(w) \/ RunSent(w)
    \/ ReadQuest(w) \/ DeliverPing(w) \/ DeliverKey(w) \/ DeliverQuest(w)
    \/ CheckAppend(w) \/ AppendAnswer(w) \/ AfterRead(w)

LEMMA WorkerRuns ==
    ASSUME IInv, NEW w \in Workers, RunInside(w)
    PROVE  IInv'
<1> DEFINE Moves == /\ UNCHANGED <<mapVars, closing>>
                    /\ pc[w] \in Running
                    /\ \E place \in Running : Goto(w, place)
<1>1. RunRequireClose(w) => Moves
  BY DEF RunRequireClose, CloseRun, endVars, Running
<1>2. RunSend(w) => Moves
  BY DEF RunSend, TakeToken, endVars, Running
<1>3. RunReadOnly(w) => Moves
  BY DEF RunReadOnly, ReadOrRearm, StartRead, Rearm, endVars, Running
<1>4. RunSent(w) => Moves
  BY DEF RunSent, CloseRun, ReadOrRearm, StartRead, Rearm, endVars, Running
<1>5. ReadQuest(w) => Moves
  BY DEF ReadQuest, EndRead, endVars, Running
<1>6. DeliverPing(w) => Moves
  BY DEF DeliverPing, Answer, endVars, Running
<1>7. DeliverKey(w) => Moves
  BY DEF DeliverKey, Answer, EndRead, endVars, Running
<1>8. DeliverQuest(w) => Moves
  BY DEF DeliverQuest, Delivered, Answer, Running
<1>9. CheckAppend(w) => Moves
  BY DEF CheckAppend, Delivered, endVars, Running
<1>10. AppendAnswer(w) => Moves
  BY DEF AppendAnswer, Delivered, endVars, Running
<1>11. AfterRead(w) => Moves
  BY DEF AfterRead, TakeToken, CloseRun, Rearm, endVars, Running
<1>12. Moves
  BY <1>1, <1>2, <1>3, <1>4, <1>5, <1>6, <1>7, <1>8, <1>9, <1>10, <1>11 DEF RunInside
<1> QED
  BY <1>12, RunningStep

-----------------------------------------------------------------------------
(* Beginning and ending a call, closing, and the epoll thread.             *)

LEMMA StartRunStep ==
    ASSUME IInv, NEW w \in Workers, StartRun(w)
    PROVE  IInv'
<1>1. w \in Threads /\ w \notin Senders /\ w # Loop
  BY ThreadsAssumption DEF Threads
<1>2. pc[w] = "idle" /\ pc' = [pc EXCEPT ![w] = "run"]
  BY DEF StartRun, Goto
<1>3. Cardinality(BusyIn(pc')) = Cardinality(BusyIn(pc)) + 1
  BY <1>2, BusyMore DEF IInv, Placed
<1>4. \A t \in Threads : pc'[t] = IF t = w THEN "run" ELSE pc[t]
  BY <1>2 DEF IInv, Placed
<1>5. tasks > 0 /\ tasks' = tasks - 1 /\ refCount' = refCount
  BY DEF StartRun
<1>6. Counted'
  <2>1. Cardinality(BusyIn(pc)) \in Nat
    BY BusyFinite
  <2> QED
    BY <1>3, <1>5, <2>1 DEF IInv, Counted
<1>7. Placed'
  BY <1>1, <1>2, <1>4 DEF IInv, Placed, StartRun, endVars, Threads, Running
<1>8. Locking'
  BY <1>1, <1>4 DEF IInv, Locking, StartRun, Threads
<1>9. ClosedByOne'
  BY <1>1, <1>4 DEF IInv, ClosedByOne, StartRun, endVars
<1>10. ~connecting
  BY <1>5 DEF IInv, NotJoined
<1> QED
  BY <1>5, <1>6, <1>7, <1>8, <1>9, <1>10 DEF IInv, NotJoined, StartRun, endVars

(* A worker gives its reference back and is idle again.                    *)
LEMMA FinishStep ==
    ASSUME IInv, NEW w \in Workers, pc[w] # "idle", Finish(w),
           refCount' = refCount - 1,
           joined' \in BOOLEAN,
           UNCHANGED <<lock, inMap, connecting, event, tasks>>,
           \/ UNCHANGED closing
           \/ pc[w] = "exit" /\ closing' = "posted"
    PROVE  Placed' /\ Counted' /\ Locking' /\ ClosedByOne' /\ ~connecting
           /\ closing # "released"
<1>1. w \in Threads /\ w \notin Senders /\ w # Loop
  BY ThreadsAssumption DEF Threads
<1>2. pc' = [pc EXCEPT ![w] = "idle"]
  BY DEF Finish, Goto
<1>3. /\ Cardinality(BusyIn(pc')) = Cardinality(BusyIn(pc)) - 1
      /\ Cardinality(BusyIn(pc)) > 0
  BY <1>2, BusyLess DEF IInv, Placed
<1>4. \A t \in Threads : pc'[t] = IF t = w THEN "idle" ELSE pc[t]
  BY <1>2 DEF IInv, Placed
<1>5. Cardinality(BusyIn(pc)) \in Nat
  BY BusyFinite
<1>6. Counted' /\ closing # "released"
  BY <1>3, <1>5 DEF IInv, Counted
<1>7. Placed'
  BY <1>1, <1>2, <1>4 DEF IInv, Placed, Threads
<1>8. Locking'
  BY <1>1, <1>4 DEF IInv, Locking, Threads
<1>9. ClosedByOne'
  BY <1>1, <1>4 DEF IInv, ClosedByOne
<1>10. ~connecting
  BY <1>1, <1>3 DEF IInv, NotJoined, BusyIn
<1> QED
  BY <1>6, <1>7, <1>8, <1>9, <1>10

(* A step that takes the connection from the map, with t to close it.      *)
LEMMA ExitStep ==
    ASSUME IInv, NEW t \in Threads, Goto(t, "exit"), Taken, ~connecting,
           IF t \in Workers THEN pc[t] # "idle" ELSE pc[t] = "idle",
           UNCHANGED <<lock, connecting, joined, refCount, tasks, closing>>
    PROVE  IInv'
<1>1. pc' = [pc EXCEPT ![t] = "exit"]
  BY DEF Goto
<1>2. BusyIn(pc') = BusyIn(pc)
  BY <1>1, BusySame DEF IInv, Placed
<1>3. \A u \in Threads : pc'[u] = IF u = t THEN "exit" ELSE pc[u]
  BY <1>1 DEF IInv, Placed
<1>4. Placed'
  BY <1>1, <1>3 DEF IInv, Placed, Taken, Threads
<1>5. Locking'
  BY <1>3, ThreadsAssumption DEF IInv, Locking, Taken, Threads, Sending
<1>6. ClosedByOne'
  BY <1>3 DEF IInv, ClosedByOne, Taken
<1> QED
  BY <1>2, <1>4, <1>5, <1>6 DEF IInv, Counted, NotJoined

LEMMA RunCloseStep ==
    ASSUME IInv, NEW w \in Workers, RunClose(w)
    PROVE  IInv'
<1>1. w \in Threads /\ pc[w] = "close"
  BY DEF RunClose, Threads
<1>2. CASE Taken /\ Goto(w, "exit") /\ UNCHANGED <<refCount, call>>
  <2>1. ~connecting
    BY <1>1 DEF IInv, NotJoined, BusyIn
  <2> QED
    BY <1>1, <1>2, <2>1, ExitStep DEF RunClose, endVars
<1>3. CASE NotMine(w)
  <2>1. Placed' /\ Counted' /\ Locking' /\ ClosedByOne' /\ ~connecting
        /\ closing # "released"
    BY <1>1, <1>3, FinishStep DEF RunClose, NotMine, endVars, IInv, Placed
  <2> QED
    BY <2>1 DEF IInv, NotJoined, RunClose, endVars
<1> QED
  BY <1>2, <1>3 DEF RunClose

LEMMA RunDoneStep ==
    ASSUME IInv, NEW w \in Workers, RunDone(w)
    PROVE  IInv'
<1>1. pc[w] = "modify" /\ UNCHANGED <<lock, inMap, connecting, joined, event, tasks, closing>>
  BY DEF RunDone, endVars
<1>2. CASE joined
  <2>1. Placed' /\ Counted' /\ Locking' /\ ClosedByOne' /\ ~connecting
        /\ closing # "released"
    BY <1>1, <1>2, FinishStep DEF RunDone, IInv, Placed
  <2> QED
    BY <1>1, <2>1 DEF IInv, NotJoined
<1>3. CASE ~joined
  <2>1. UNCHANGED <<mapVars, closing>> /\ Goto(w, "close")
    BY <1>1, <1>3 DEF RunDone, Modify, CloseRun, mapVars
  <2> QED
    BY <1>1, <2>1, RunningStep DEF Running
<1> QED
  BY <1>2, <1>3 DEF IInv, Placed

LEMMA ExitEpollStep ==
    ASSUME IInv, NEW t \in Threads, ExitEpoll(t)
    PROVE  IInv'
<1>1. /\ pc[t] = "exit" /\ Finish(t) /\ closing' = "posted" /\ joined' = FALSE
      /\ refCount' = IF t \in Workers THEN refCount - 1 ELSE refCount
      /\ UNCHANGED <<lock, inMap, connecting, event, tasks>>
  BY DEF ExitEpoll, ReferencesWithout
<1>2. ~inMap
  BY <1>1 DEF IInv, ClosedByOne
<1>3. ~connecting
  BY <1>2 DEF IInv, NotJoined
<1>4. CASE t \in Workers
  <2>1. Placed' /\ Counted' /\ Locking' /\ ClosedByOne'
    BY <1>1, <1>4, FinishStep
  <2> QED
    BY <1>1, <1>3, <2>1 DEF IInv, NotJoined
<1>5. CASE t \notin Workers
  <2>1. pc' = [pc EXCEPT ![t] = "idle"]
    BY <1>1 DEF Finish, Goto
  <2>2. BusyIn(pc') = BusyIn(pc)
    BY <1>5, <2>1, BusySame DEF IInv, Placed
  <2>3. \A u \in Threads : pc'[u] = IF u = t THEN "idle" ELSE pc[u]
    BY <2>1 DEF IInv, Placed
  <2>4. Placed'
    BY <1>1, <1>5, <2>1, <2>3 DEF IInv, Placed, Threads
  <2>5. Locking'
    BY <1>1, <2>3 DEF IInv, Locking, Threads, Sending
  <2>6. ClosedByOne'
    BY <1>1, <1>2, <2>3 DEF IInv, ClosedByOne
  <2> QED
    BY <1>1, <1>3, <1>5, <2>2, <2>4, <2>5, <2>6 DEF IInv, Counted, NotJoined
<1> QED
  BY <1>4, <1>5

(* A sender takes the lock, or gives it back.                              *)
LEMMA LockStep ==
    ASSUME IInv, NEW s \in Senders, Locked(s),
           NEW place \in Sending, Goto(s, place), UNCHANGED closing
    PROVE  IInv'
<1>1. s \in Threads /\ s \notin Workers /\ s # Loop /\ s # Nobody
  BY ThreadsAssumption DEF Threads
<1>2. pc[s] = "idle" /\ lock = Nobody /\ inMap /\ lock' = s
      /\ UNCHANGED <<inMap, connecting, joined, armed, event, refCount, tasks>>
  BY DEF Locked
<1>3. pc' = [pc EXCEPT ![s] = place]
  BY DEF Goto
<1>4. BusyIn(pc') = BusyIn(pc)
  BY <1>1, <1>3, BusySame DEF IInv, Placed
<1>5. \A t \in Threads : pc'[t] = IF t = s THEN place ELSE pc[t]
  BY <1>3 DEF IInv, Placed
<1>6. Placed'
  BY <1>1, <1>2, <1>3, <1>5 DEF IInv, Placed, Threads
<1>7. Locking'
  BY <1>1, <1>2, <1>5, ThreadsAssumption DEF IInv, Locking, Threads
<1>8. place # "exit"
  BY DEF Sending
<1>9. ClosedByOne'
  BY <1>1, <1>2, <1>5, <1>8 DEF IInv, ClosedByOne
<1> QED
  BY <1>2, <1>4, <1>6, <1>7, <1>9 DEF IInv, Counted, NotJoined

LEMMA SenderDoneStep ==
    ASSUME IInv, NEW s \in Senders, SenderDone(s)
    PROVE  IInv'
<1>1. s \in Threads /\ s \notin Workers /\ s # Loop /\ s # Nobody
  BY ThreadsAssumption DEF Threads
<1>2. /\ pc[s] \in Sending /\ lock' = Nobody /\ pc' = [pc EXCEPT ![s] = "idle"]
      /\ UNCHANGED <<inMap, connecting, joined, event, refCount, tasks, closing>>
      /\ ~joined => UNCHANGED armed
  BY DEF SenderDone, Finish, Goto, Modify, Sending, endVars
<1>3. lock = s
  BY <1>2 DEF IInv, Locking
<1>4. BusyIn(pc') = BusyIn(pc)
  BY <1>1, <1>2, BusySame DEF IInv, Placed
<1>5. \A t \in Threads : pc'[t] = IF t = s THEN "idle" ELSE pc[t]
  BY <1>2 DEF IInv, Placed
<1>6. Placed'
  BY <1>1, <1>2, <1>5 DEF IInv, Placed, Threads
<1>7. Locking'
  BY <1>2, <1>3, <1>5, ThreadsAssumption DEF IInv, Locking, Threads, Sending
<1>8. ClosedByOne'
  BY <1>2, <1>5 DEF IInv, ClosedByOne
<1> QED
  BY <1>2, <1>4, <1>6, <1>7, <1>8 DEF IInv, Counted, NotJoined

LEMMA SendStep ==
    ASSUME IInv, NEW s \in Senders, Send(s) \/ CloseAfterSent(s)
    PROVE  IInv'
<1>1. Locked(s) /\ UNCHANGED closing /\ Goto(s, IF token THEN "send" ELSE "sent")
  BY DEF Send, CloseAfterSent, TakeToken
<1> QED
  BY <1>1, LockStep DEF Sending

LEMMA CloseConnectionStep ==
    ASSUME "early" \notin Closes, IInv, NEW s \in Senders, CloseConnection(s)
    PROVE  IInv'
<1>1. s \in Threads /\ s \notin Workers
  BY ThreadsAssumption DEF Threads
<1> QED
  BY <1>1, ExitStep DEF CloseConnection, endVars

LEMMA IdleTimeoutStep ==
    ASSUME "early" \notin Closes, IInv, IdleTimeout
    PROVE  IInv'
  BY DEF IdleTimeout, Taken, IInv, Placed, Counted, Locking, ClosedByOne, NotJoined,
         BusyIn

LEMMA ReclaimStep ==
    ASSUME IInv, CloseEvent \/ Reclaim
    PROVE  IInv'
<1>1. UNCHANGED <<lock, inMap, connecting, event, refCount, tasks, pc>>
  BY DEF CloseEvent, Reclaim, mapVars
<1>2. closing \notin {"open", "released"} /\ closing' \in {"reclaim", "released"}
      /\ (closing' = "released" => refCount = 0)
  BY DEF CloseEvent, Reclaim, Unreferenced
<1>3. ~inMap
  BY <1>2 DEF IInv, ClosedByOne
<1>4. joined' \in BOOLEAN
  BY DEF CloseEvent, Reclaim, mapVars, IInv, Placed
<1>5. \A t \in Threads : pc[t] # "exit"
  BY <1>2 DEF IInv, ClosedByOne
<1> QED
  BY <1>1, <1>2, <1>3, <1>4, <1>5
  DEF IInv, Placed, Counted, Locking, ClosedByOne, NotJoined, BusyIn

LEMMA EpollStep ==
    ASSUME IInv, JoinEpoll \/ EpollWait \/ SignConnection
    PROVE  IInv'
<1>1. CASE JoinEpoll
  BY <1>1 DEF JoinEpoll, IInv, Placed, Counted, Locking, ClosedByOne, NotJoined, BusyIn,
              endVars
<1>2. CASE EpollWait
  BY <1>2 DEF EpollWait, Ready, IInv, Placed, Counted, Locking, ClosedByOne, NotJoined,
              BusyIn, endVars
<1>3. CASE SignConnection
  <2>1. /\ event # {} /\ event' = {}
        /\ UNCHANGED <<lock, inMap, connecting, joined, armed, pc, closing>>
    BY <1>3 DEF SignConnection, endVars
  <2>2. IF inMap THEN refCount' = refCount + 1 /\ tasks' = tasks + 1
        ELSE UNCHANGED <<refCount, tasks>>
    BY <1>3 DEF SignConnection
  <2>3. Counted'
    BY <2>1, <2>2, BusyFinite DEF IInv, Counted, BusyIn
  <2>4. Placed' /\ Locking' /\ ClosedByOne' /\ ~connecting
    BY <2>1 DEF IInv, Placed, Locking, ClosedByOne, NotJoined
  <2> QED
    BY <2>1, <2>2, <2>3, <2>4 DEF IInv, NotJoined, ClosedByOne
<1> QED
  BY <1>1, <1>2, <1>3

LEMMA ProcessCloseStep ==
    ASSUME IInv, ProcessClose
    PROVE  IInv'
<1>1. ~connecting
  BY DEF ProcessClose, IInv, NotJoined
<1>2. Loop \in Threads /\ Loop \notin Workers
  BY ThreadsAssumption DEF Threads
<1>3. CASE inMap
  <2>1. Taken /\ Goto(Loop, "exit")
    BY <1>3 DEF ProcessClose, Taken
  <2>2. pc[Loop] = "idle"
    BY <1>2, <1>3 DEF IInv, Placed, ClosedByOne
  <2> QED
    BY <1>1, <1>2, <2>1, <2>2, ExitStep DEF ProcessClose, endVars
<1>4. CASE ~inMap
  BY <1>1, <1>4 DEF ProcessClose, IInv, Placed, Counted, Locking, ClosedByOne, NotJoined,
                    BusyIn, endVars
<1> QED
  BY <1>3, <1>4 DEF IInv, Placed

LEMMA PeerStep ==
    ASSUME IInv,
           (\E quest \in Kinds : PeerSend(quest)) \/ PeerRead \/ PeerReset
    PROVE  IInv'
<1>1. UNCHANGED <<mapVars, closing, pc>>
  BY DEF PeerSend, PeerRead, PeerReset, endVars
<1> QED
  BY <1>1, StayStep

-----------------------------------------------------------------------------
LEMMA InitInv == Init => IInv
<1>1. ASSUME Init PROVE IInv
  <2>1. BusyIn(pc) = {}
    BY <1>1 DEF Init, BusyIn, Threads
  <2>2. Counted
    BY <1>1, <2>1, FS_EmptySet DEF Init, Counted
  <2> QED
    BY <1>1, <2>1, <2>2, ThreadsAssumption
    DEF Init, IInv, Placed, Locking, ClosedByOne, NotJoined, Threads, Sending
<1> QED
  BY <1>1

LEMMA NextInv ==
    ASSUME "early" \notin Closes, IInv, [Next]_vars
    PROVE  IInv'
<1>1. ASSUME NEW s \in Senders, Sender(s) PROVE IInv'
  <2>1. s \in Threads
    BY DEF Threads
  <2> QED
    BY <1>1, <2>1, SenderSends, SenderDoneStep, ExitEpollStep DEF Sender
<1>2. ASSUME NEW s \in Senders, Send(s) \/ CloseAfterSent(s) \/ CloseConnection(s)
      PROVE  IInv'
  BY <1>2, SendStep, CloseConnectionStep
<1>3. ASSUME NEW w \in Workers, Worker(w) PROVE IInv'
  <2>1. w \in Threads
    BY DEF Threads
  <2> QED
    BY <1>3, <2>1, WorkerSends, StartRunStep, WorkerRuns, RunDoneStep, RunCloseStep,
       ExitEpollStep DEF Worker, RunInside
<1>4. ASSUME EpollThread PROVE IInv'
  BY <1>4, EpollStep, ProcessCloseStep, ExitEpollStep DEF EpollThread, Threads
<1>5. ASSUME UNCHANGED vars PROVE IInv'
  BY <1>5, StayStep DEF vars, endVars
<1> QED
  BY <1>1, <1>2, <1>3, <1>4, <1>5, IdleTimeoutStep, ReclaimStep, EpollStep, PeerStep
  DEF Next

(* The reference count is right, the lock has one holder, and one thread   *)
(* closes: everything that follows from IInv.                              *)
THEOREM ClosingInvariant ==
    ASSUME "early" \notin Closes
    PROVE  Spec => []IInv
<1>1. IInv /\ [Next]_vars => IInv'
  BY NextInv
<1> QED
  BY <1>1, InitInv, PTL DEF Spec

(* Unless closeConnection() or the idle timeout strikes while connected()  *)
(* is still running, a deleted connection is used by nobody: no queued run, *)
(* no I/O thread in run, no sender under the lock.                         *)
THEOREM NeverUsedAfterRelease ==
    ASSUME "early" \notin Closes
    PROVE  Spec => []NoUseAfterRelease
<1>1. ASSUME IInv PROVE NoUseAfterRelease
  <2>1. SUFFICES ASSUME closing = "released"
                 PROVE  /\ tasks = 0
                        /\ \A t \in Threads : pc[t] = "idle"
                        /\ ~connecting
    BY DEF NoUseAfterRelease
  <2>2. ~inMap /\ (\A t \in Threads : pc[t] # "exit")
    BY <1>1, <2>1 DEF IInv, ClosedByOne
  <2>3. tasks = 0 /\ Cardinality(BusyIn(pc)) = 0
    BY <1>1, <2>1, BusyFinite DEF IInv, Counted
  <2>4. BusyIn(pc) = {}
    BY <2>3, BusyFinite, FS_EmptySet
  <2>5. lock = Nobody /\ \A s \in Senders : pc[s] \notin Sending
    BY <1>1, <2>2, ThreadsAssumption DEF IInv, Locking, Placed, Threads
  <2> QED
    BY <1>1, <2>2, <2>3, <2>4, <2>5 DEF IInv, NotJoined, Placed, BusyIn, Threads
<1> QED
  BY <1>1, ClosingInvariant, PTL

(* Of all threads that find a reason to close, one does.                   *)
THEOREM ClosedByOneThread ==
    ASSUME "early" \notin Closes
    PROVE  Spec => []ClosedOnce
<1>1. ASSUME IInv PROVE ClosedOnce
  <2> DEFINE closers == {t \in Threads : pc[t] = "exit"}
  <2>1. \A t, u \in closers : t = u
    BY <1>1 DEF IInv, ClosedByOne
  <2>2. Cardinality(closers) <= 1
    <3>1. CASE closers = {}
      BY <3>1, FS_EmptySet
    <3>2. CASE closers # {}
      <4>1. PICK t \in closers : TRUE
        BY <3>2
      <4>2. closers = {t}
        BY <2>1, <4>1
      <4> QED
        BY <4>2, FS_Singleton
    <3> QED
      BY <3>1, <3>2
  <2> QED
    BY <1>1, <2>2 DEF IInv, ClosedByOne, ClosedOnce
<1> QED
  BY <1>1, ClosingInvariant, PTL

-----------------------------------------------------------------------------
(* The send buffer: packages leave whole and in order, and all of a        *)
(* connection is encrypted or nothing.                                     *)

Places == {"idle", "send", "wrote", "again", "sent", "wait", "modify", "run", "read",
           "deliver", "check", "append", "readEnd", "runEnd", "close", "exit"}

(* Where a thread has the send token.                                      *)
Holding == {"send", "wrote", "again"}

(* What the proofs are about.                                              *)
stream == <<queue, curr, token, sentBytes, encrypted, pushed, wire, unread, broken>>

Typed ==
    /\ pc \in [Threads -> Places]
    /\ queue \in Seq(Nat) /\ pushed \in Nat /\ Len(queue) <= pushed
    /\ curr \in Buffers \cup {Nobody} /\ wire \in Seq(Buffers)
    /\ token \in BOOLEAN /\ encrypted \in BOOLEAN /\ broken \in BOOLEAN
    /\ sentBytes \in Nat /\ unread \in Nat

OneHolder ==
    /\ token => \A t \in Threads : pc[t] \notin Holding
    /\ \A t, u \in Threads : pc[t] \in Holding /\ pc[u] \in Holding => t = u

(* Packages are numbered as they are queued; those before the queue were   *)
(* sent, but for the rest of the current one.  After write() and before    *)
(* _offset is set, one unit more was sent.                                 *)
Left == pushed - Len(queue)

Wrote == IF \E t \in Threads : pc[t] = "wrote" THEN 1 ELSE 0

Position ==
    /\ \A i \in 1..Len(queue) : queue[i] = Left + i
    /\ curr = Nobody => Wrote = 0 /\ Len(wire) = Left * PackageLen
    /\ curr # Nobody => /\ curr.pkg = Left /\ curr.offset < PackageLen
                        /\ Len(wire) = (Left - 1) * PackageLen + curr.offset + Wrote

(* A package that is left over while the token is free was begun, or can   *)
(* never be sent: encryption cannot start in the middle of it.             *)
Ciphered ==
    /\ EncryptedAsAgreed
    /\ curr # Nobody => curr.enc = encrypted \/ broken
    /\ sentBytes <= Len(wire) /\ (token => sentBytes = Len(wire))
    /\ unread <= Len(wire)
    /\ token /\ curr # Nobody /\ ~broken => Len(wire) > 0
    /\ (\E t \in Threads : pc[t] = "again") /\ ~broken => Len(wire) > 0

SInv == Typed /\ OneHolder /\ Position /\ InQueueOrder /\ Ciphered

-----------------------------------------------------------------------------
LEMMA PlacesAfter ==
    ASSUME Typed, NEW t \in Threads, NEW place \in Places, Goto(t, place)
    PROVE  /\ pc' \in [Threads -> Places]
           /\ \A u \in Threads : pc'[u] = IF u = t THEN place ELSE pc[u]
  BY DEF Typed, Goto

(* Steps that leave the stream alone, of threads without the token.        *)
LEMMA QuietStep ==
    ASSUME SInv, UNCHANGED stream,
           \/ UNCHANGED pc
           \/ \E t \in Threads, place \in Places \ Holding :
                 pc[t] \notin Holding /\ Goto(t, place)
    PROVE  SInv'
<1>1. pc' \in [Threads -> Places]
  BY PlacesAfter DEF SInv, Typed
<1>2. \A u \in Threads : pc'[u] = pc[u] \/ (pc[u] \notin Holding /\ pc'[u] \notin Holding)
  BY PlacesAfter DEF SInv
<1>3. \A u \in Threads : /\ pc'[u] \in Holding <=> pc[u] \in Holding
                         /\ pc'[u] = "wrote" <=> pc[u] = "wrote"
                         /\ pc'[u] = "again" <=> pc[u] = "again"
  BY <1>2 DEF Holding
<1>4. UNCHANGED <<queue, curr, token, sentBytes, encrypted, pushed, wire, unread, broken>>
  BY DEF stream
<1>5. Typed'
  BY <1>1, <1>4 DEF SInv, Typed
<1>6. OneHolder'
  BY <1>3, <1>4 DEF SInv, OneHolder
<1>7. Wrote' = Wrote
  BY <1>3 DEF Wrote
<1>8. Position'
  BY <1>4, <1>7 DEF SInv, Position, Left
<1>9. InQueueOrder' /\ Ciphered'
  BY <1>3, <1>4 DEF SInv, InQueueOrder, Ciphered, EncryptedAsAgreed
<1> QED
  BY <1>5, <1>6, <1>8, <1>9 DEF SInv

(* A package is queued.                                                    *)
LEMMA QueueStep ==
    ASSUME SInv, Queue, UNCHANGED <<curr, wire>>, Wrote' = Wrote
    PROVE  Position' /\ queue' \in Seq(Nat) /\ pushed' \in Nat /\ Len(queue') <= pushed'
<1>1. queue' = Append(queue, pushed + 1) /\ pushed' = pushed + 1
  BY DEF Queue
<1>2. queue' \in Seq(Nat) /\ Len(queue') = Len(queue) + 1 /\ pushed' \in Nat
      /\ Len(queue') <= pushed'
  BY <1>1 DEF SInv, Typed
<1>3. Left' = Left
  BY <1>1, <1>2 DEF Left, SInv, Typed
<1>4. ASSUME NEW i \in 1..Len(queue') PROVE queue'[i] = Left' + i
  BY <1>1, <1>2, <1>3 DEF SInv, Typed, Position, Left
<1> QED
  BY <1>2, <1>3, <1>4 DEF SInv, Position

(* A thread asks for the token, perhaps with a package of its own.         *)
LEMMA TakeTokenStep ==
    ASSUME SInv, NEW t \in Threads, NEW rec, TakeToken(t, rec), pc[t] \notin Holding,
           Queue \/ UNCHANGED <<queue, pushed>>,
           UNCHANGED <<curr, sentBytes, encrypted, wire, unread, broken>>
    PROVE  SInv'
<1>1. token' = FALSE /\ Goto(t, IF token THEN "send" ELSE "sent")
  BY DEF TakeToken
<1>2. /\ pc' \in [Threads -> Places]
      /\ \A u \in Threads :
            pc'[u] = IF u = t THEN (IF token THEN "send" ELSE "sent") ELSE pc[u]
  BY <1>1, PlacesAfter DEF SInv, Places
<1>3. OneHolder'
  BY <1>1, <1>2 DEF SInv, OneHolder, Holding
<1>4. \A u \in Threads : /\ pc'[u] = "wrote" <=> pc[u] = "wrote"
                         /\ pc'[u] = "again" <=> pc[u] = "again"
  BY <1>2 DEF Holding
<1>5. Wrote' = Wrote
  BY <1>4 DEF Wrote
<1>6. Position' /\ queue' \in Seq(Nat) /\ pushed' \in Nat /\ Len(queue') <= pushed'
  <2>1. CASE Queue
    BY <1>5, <2>1, QueueStep
  <2>2. CASE UNCHANGED <<queue, pushed>>
    BY <1>5, <2>2 DEF SInv, Typed, Position, Left
  <2> QED
    BY <2>1, <2>2
<1>7. Typed'
  BY <1>1, <1>2, <1>6 DEF SInv, Typed
<1>8. InQueueOrder' /\ Ciphered'
  BY <1>1, <1>4 DEF SInv, InQueueOrder, Ciphered, EncryptedAsAgreed
<1> QED
  BY <1>3, <1>6, <1>7, <1>8 DEF SInv

(* The holder takes the next package, or gives the token back.             *)
LEMMA ReturnTokenStep ==
    ASSUME SInv, NEW t \in Threads, pc[t] \in {"send", "again"}, ReturnToken(t),
           pc[t] = "again" \/ curr = Nobody,
           UNCHANGED <<queue, curr, encrypted, pushed, wire, unread, broken>>
    PROVE  SInv'
<1>1. token' = TRUE /\ sentBytes' = Len(wire) /\ Goto(t, "sent")
  BY DEF ReturnToken
<1>2. /\ pc' \in [Threads -> Places]
      /\ \A u \in Threads : pc'[u] = IF u = t THEN "sent" ELSE pc[u]
  BY <1>1, PlacesAfter DEF SInv, Places
<1>3. \A u \in Threads : u # t => pc[u] \notin Holding
  BY DEF SInv, OneHolder, Holding
<1>4. OneHolder'
  BY <1>1, <1>2, <1>3 DEF OneHolder, Holding
<1>5. \A u \in Threads : pc'[u] \notin {"wrote", "again"} /\ pc[u] # "wrote"
  BY <1>2, <1>3 DEF Holding
<1>6. Wrote' = Wrote
  BY <1>5 DEF Wrote
<1>7. Typed'
  BY <1>1, <1>2 DEF SInv, Typed
<1>8. Position' /\ InQueueOrder'
  BY <1>6 DEF SInv, Position, InQueueOrder, Left
<1>9. Ciphered'
  <2>1. curr' # Nobody /\ ~broken' => Len(wire') > 0
    BY DEF SInv, Ciphered
  <2> QED
    BY <1>1, <1>5, <2>1 DEF SInv, Ciphered, EncryptedAsAgreed, Typed
<1> QED
  BY <1>4, <1>7, <1>8, <1>9 DEF SInv

LEMMA NextBufferStep ==
    ASSUME SInv, NEW t \in Threads, NextBuffer(t)
    PROVE  SInv'
<1>1. pc[t] = "send" /\ curr = Nobody
      /\ UNCHANGED <<encrypted, pushed, wire, unread, broken>>
  BY DEF NextBuffer, netVars
<1>2. CASE queue = <<>> /\ ReturnToken(t) /\ UNCHANGED <<queue, curr>>
  BY <1>1, <1>2, ReturnTokenStep
<1>3. CASE /\ queue # <<>>
           /\ curr' = [pkg |-> Head(queue), offset |-> 0, enc |-> encrypted]
           /\ queue' = Tail(queue)
           /\ UNCHANGED <<token, sentBytes, pc>>
  <2>1. queue' \in Seq(Nat) /\ Len(queue') = Len(queue) - 1
        /\ \A i \in 1..Len(queue') : queue'[i] = queue[i + 1]
    BY <1>3 DEF SInv, Typed
  <2>2. Left' = Left + 1 /\ Left \in Nat
    BY <1>1, <2>1 DEF SInv, Typed, Left
  <2>3. Head(queue) = Left + 1
    <3>1. Len(queue) > 0
      BY <1>3 DEF SInv, Typed
    <3> QED
      BY <3>1 DEF SInv, Typed, Position
  <2>4. curr' \in Buffers /\ curr' # Nobody
    BY <1>3, <2>2, <2>3, NobodyAssumption DEF SInv, Typed, Buffers
  <2>5. Typed' /\ OneHolder'
    BY <1>1, <1>3, <2>1, <2>4 DEF SInv, Typed, OneHolder
  <2>6. Wrote = 0 /\ Wrote' = 0
    BY <1>1, <1>3 DEF SInv, Position, Wrote
  <2>7. Len(wire) = Left * PackageLen
    BY <1>1 DEF SInv, Position
  <2>8. /\ \A i \in 1..Len(queue') : queue'[i] = Left' + i
        /\ curr'.pkg = Left' /\ curr'.offset = 0
    BY <1>3, <2>1, <2>2, <2>3 DEF SInv, Typed, Position
  <2>9. Left' - 1 = Left /\ Left \in Nat /\ 0 < PackageLen
    BY <2>2, BoundsAssumption
  <2>10. Position'
    BY <1>1, <2>4, <2>6, <2>7, <2>8, <2>9 DEF Position, SInv, Typed
  <2>11. Ciphered'
    <3>1. ~token
      BY <1>1 DEF SInv, OneHolder, Holding
    <3> QED
      BY <1>1, <1>3, <3>1 DEF SInv, Ciphered, EncryptedAsAgreed
  <2> QED
    BY <1>1, <2>5, <2>10, <2>11 DEF SInv, InQueueOrder
<1> QED
  BY <1>2, <1>3 DEF NextBuffer

LEMMA WriteStep ==
    ASSUME SInv, NEW t \in Threads, Write(t)
    PROVE  SInv'
<1>1. /\ pc[t] = "send" /\ curr # Nobody /\ ~broken
      /\ wire' = Append(wire, [curr EXCEPT !.offset = @ + 1])
      /\ unread' = unread + 1 /\ Goto(t, "wrote")
      /\ UNCHANGED <<queue, curr, token, sentBytes, encrypted, pushed, broken>>
  BY DEF Write, sendVars
<1>2. /\ pc' \in [Threads -> Places]
      /\ \A u \in Threads : pc'[u] = IF u = t THEN "wrote" ELSE pc[u]
  BY <1>1, PlacesAfter DEF SInv, Places
<1>3. \A u \in Threads : u # t => pc[u] \notin Holding
  BY <1>1 DEF SInv, OneHolder, Holding
<1>4. OneHolder' /\ ~token
  BY <1>1, <1>2, <1>3 DEF SInv, OneHolder, Holding
<1>5. Wrote = 0 /\ Wrote' = 1
  BY <1>1, <1>2, <1>3 DEF Wrote, Holding
<1>6. curr \in Buffers
  BY <1>1 DEF SInv, Typed
<1> DEFINE sent == [curr EXCEPT !.offset = @ + 1]
<1>7. /\ sent \in Buffers /\ sent.pkg = curr.pkg /\ sent.enc = curr.enc
      /\ sent.offset = curr.offset + 1
  BY <1>6 DEF Buffers
<1>8. /\ wire' \in Seq(Buffers) /\ Len(wire') = Len(wire) + 1
      /\ \A i \in 1..Len(wire') : wire'[i] = IF i = Len(wire) + 1 THEN sent ELSE wire[i]
      /\ DOMAIN wire' = 1..Len(wire') /\ DOMAIN wire = 1..Len(wire)
  BY <1>1, <1>7 DEF SInv, Typed
<1>9. Typed'
  BY <1>1, <1>2, <1>8 DEF SInv, Typed
<1>10. Position'
  <2> DEFINE before == (Left - 1) * PackageLen
  <2>1. /\ Len(wire) = before + curr.offset + 0 /\ curr.pkg = Left
        /\ curr.offset < PackageLen
        /\ \A i \in 1..Len(queue) : queue[i] = Left + i
    BY <1>1, <1>5 DEF SInv, Position
  <2>2. before \in Int /\ curr.offset \in Int
    BY <1>6, BoundsAssumption DEF SInv, Typed, Left, Buffers
  <2>3. Len(wire') = before + curr.offset + 1
    BY <1>8, <2>1, <2>2
  <2>4. Left' = Left
    BY <1>1 DEF Left
  <2> QED
    BY <1>1, <1>5, <2>1, <2>3, <2>4 DEF Position
<1>11. InQueueOrder'
  <2>1. /\ curr.offset \in Nat /\ curr.offset < PackageLen
        /\ Len(wire) = (curr.pkg - 1) * PackageLen + curr.offset
    <3> DEFINE before == (curr.pkg - 1) * PackageLen
    <3>1. Len(wire) = before + curr.offset + 0 /\ curr.offset < PackageLen
      BY <1>1, <1>5 DEF SInv, Position
    <3>2. before \in Int /\ curr.offset \in Nat
      BY <1>6, BoundsAssumption DEF Buffers
    <3> QED
      BY <3>1, <3>2
  <2>2. sent.offset \in 1..PackageLen
        /\ Len(wire) + 1 = (sent.pkg - 1) * PackageLen + sent.offset
    <3> DEFINE before == (curr.pkg - 1) * PackageLen
    <3>1. before \in Int
      BY <1>6, BoundsAssumption DEF Buffers
    <3>2. before + curr.offset + 1 = before + sent.offset
      BY <1>7, <2>1, <3>1
    <3>3. Len(wire) + 1 = before + sent.offset
      BY <2>1, <3>2
    <3>4. sent.offset \in 1..PackageLen
      BY <1>7, <2>1, BoundsAssumption
    <3> QED
      BY <1>7, <3>3, <3>4
  <2>3. SUFFICES ASSUME NEW i \in 1..Len(wire')
                 PROVE  /\ wire'[i].offset \in 1..PackageLen
                        /\ i = (wire'[i].pkg - 1) * PackageLen + wire'[i].offset
    BY <1>8 DEF InQueueOrder
  <2>4. CASE i = Len(wire) + 1
    BY <1>8, <2>2, <2>4
  <2>5. CASE i # Len(wire) + 1
    <3>1. i \in DOMAIN wire /\ wire'[i] = wire[i]
      BY <1>8, <2>5 DEF SInv, Typed
    <3> QED
      BY <3>1 DEF SInv, InQueueOrder
  <2> QED
    BY <2>4, <2>5
<1>12. Ciphered'
  <2>1. \A i \in DOMAIN wire' : wire'[i].enc = encrypted'
    BY <1>1, <1>7, <1>8 DEF SInv, Ciphered, EncryptedAsAgreed
  <2>2. Len(wire) \in Nat
    BY DEF SInv, Typed
  <2> QED
    BY <1>1, <1>4, <1>8, <2>1, <2>2 DEF SInv, Typed, Ciphered, EncryptedAsAgreed
<1> QED
  BY <1>4, <1>9, <1>10, <1>11, <1>12 DEF SInv

LEMMA AdvanceStep ==
    ASSUME SInv, NEW t \in Threads, Advance(t)
    PROVE  SInv'
<1>1. /\ pc[t] = "wrote" /\ Goto(t, "send")
      /\ UNCHANGED <<queue, token, sentBytes, encrypted, pushed, wire, unread, broken>>
      /\ curr' = IF curr.offset + 1 = PackageLen THEN Nobody
                 ELSE [curr EXCEPT !.offset = @ + 1]
  BY DEF Advance, netVars
<1>2. /\ pc' \in [Threads -> Places]
      /\ \A u \in Threads : pc'[u] = IF u = t THEN "send" ELSE pc[u]
  BY <1>1, PlacesAfter DEF SInv, Places
<1>3. \A u \in Threads : u # t => pc[u] \notin Holding
  BY <1>1 DEF SInv, OneHolder, Holding
<1>4. OneHolder' /\ ~token
  BY <1>1, <1>2, <1>3 DEF SInv, OneHolder, Holding
<1>5. Wrote = 1 /\ Wrote' = 0
  BY <1>1, <1>2, <1>3 DEF Wrote, Holding
<1>6. curr \in Buffers /\ curr # Nobody
  BY <1>5 DEF SInv, Typed, Position
<1> DEFINE before == (Left - 1) * PackageLen
<1>7. /\ Len(wire) = before + curr.offset + 1 /\ curr.pkg = Left
      /\ curr.offset < PackageLen
      /\ \A i \in 1..Len(queue) : queue[i] = Left + i
  BY <1>5, <1>6 DEF SInv, Position
<1>8. before \in Int /\ curr.offset \in Nat /\ Left \in Nat
      /\ Left * PackageLen = before + PackageLen
  BY <1>6, BoundsAssumption DEF SInv, Typed, Left, Buffers
<1>9. Left' = Left
  BY <1>1 DEF Left
<1>10. CASE curr.offset + 1 = PackageLen
  <2>1. curr' = Nobody
    BY <1>1, <1>10
  <2>2. Len(wire) = Left * PackageLen
    BY <1>7, <1>8, <1>10
  <2>3. Typed'
    BY <1>1, <1>2, <2>1 DEF SInv, Typed
  <2>4. Position'
    BY <1>1, <1>5, <1>7, <1>9, <2>1, <2>2 DEF Position
  <2>5. Ciphered'
    BY <1>1, <1>2, <1>3, <1>4, <2>1 DEF SInv, Ciphered, EncryptedAsAgreed, Holding
  <2> QED
    BY <1>1, <1>4, <2>3, <2>4, <2>5 DEF SInv, InQueueOrder
<1>11. CASE curr.offset + 1 # PackageLen
  <2>1. /\ curr' \in Buffers /\ curr' # Nobody /\ curr'.pkg = curr.pkg
        /\ curr'.enc = curr.enc /\ curr'.offset = curr.offset + 1
    BY <1>1, <1>6, <1>11, NobodyAssumption DEF Buffers
  <2>2. curr'.offset < PackageLen /\ Len(wire) = before + curr'.offset + 0
    BY <1>7, <1>8, <1>11, <2>1, BoundsAssumption
  <2>3. Typed'
    BY <1>1, <1>2, <2>1 DEF SInv, Typed
  <2>4. Position'
    BY <1>1, <1>5, <1>7, <1>9, <2>1, <2>2 DEF Position
  <2>5. Ciphered'
    BY <1>1, <1>2, <1>3, <1>4, <1>6, <2>1
    DEF SInv, Ciphered, EncryptedAsAgreed, Holding
  <2> QED
    BY <1>1, <1>4, <2>3, <2>4, <2>5 DEF SInv, InQueueOrder
<1> QED
  BY <1>10, <1>11

LEMMA WriteRefusedStep ==
    ASSUME SInv, NEW t \in Threads, WriteRefused(t)
    PROVE  SInv'
<1>1. /\ pc[t] = "send" /\ Goto(t, "again") /\ UNCHANGED stream
      /\ broken \/ unread = SocketRoom
  BY DEF WriteRefused, stream, sendVars, netVars
<1>2. /\ pc' \in [Threads -> Places]
      /\ \A u \in Threads : pc'[u] = IF u = t THEN "again" ELSE pc[u]
  BY <1>1, PlacesAfter DEF SInv, Places
<1>3. OneHolder' /\ ~token
  BY <1>1, <1>2 DEF SInv, OneHolder, Holding, stream
<1>4. Wrote' = Wrote
  BY <1>1, <1>2 DEF Wrote
<1>5. Typed' /\ Position' /\ InQueueOrder'
  BY <1>1, <1>2, <1>4 DEF SInv, Typed, Position, Left, InQueueOrder, stream
<1>6. broken \/ Len(wire) > 0
  BY <1>1, BoundsAssumption DEF SInv, Ciphered, Typed
<1>7. Ciphered'
  BY <1>1, <1>3, <1>6 DEF SInv, Ciphered, EncryptedAsAgreed, stream
<1> QED
  BY <1>3, <1>5, <1>7 DEF SInv

LEMMA RealSendStep ==
    ASSUME SInv, NEW t \in Threads, RealSend(t)
    PROVE  SInv'
<1>1. ASSUME StopSending(t) PROVE SInv'
  BY <1>1, ReturnTokenStep DEF StopSending, netVars
<1>2. ASSUME AfterSend(t) PROVE SInv'
  <2>1. UNCHANGED stream /\ pc[t] = "sent"
        /\ Goto(t, IF t \in Senders THEN "wait" ELSE "runEnd")
    BY <1>2 DEF AfterSend, stream, sendVars, netVars
  <2> QED
    BY <2>1, QuietStep DEF Places, Holding
<1> QED
  BY <1>1, <1>2, NextBufferStep, WriteStep, AdvanceStep, WriteRefusedStep DEF RealSend

(* The steps of senders and workers around it.                             *)
LEMMA SenderStep ==
    ASSUME SInv, NEW s \in Senders,
           Sender(s) \/ Send(s) \/ CloseAfterSent(s) \/ CloseConnection(s)
    PROVE  SInv'
<1>a. s \in Threads
  BY DEF Threads
<1> DEFINE Quiet == /\ UNCHANGED stream
                    /\ pc[s] \notin Holding
                    /\ \E place \in Places \ Holding : Goto(s, place)
<1>1. SenderWait(s) => Quiet
  BY DEF SenderWait, stream, sendVars, netVars, Places, Holding
<1>2. SenderDone(s) => Quiet
  BY DEF SenderDone, Finish, stream, sendVars, netVars, Places, Holding
<1>3. ExitEpoll(s) => Quiet
  BY DEF ExitEpoll, Finish, stream, sendVars, netVars, Places, Holding
<1>4. CloseConnection(s) => Quiet
  BY DEF CloseConnection, stream, sendVars, netVars, Places, Holding
<1>5. ASSUME Send(s) PROVE SInv'
  <2>1. /\ pc[s] = "idle" /\ TakeToken(s, NoCall)
        /\ Queue \/ UNCHANGED <<queue, pushed>>
        /\ UNCHANGED <<curr, sentBytes, encrypted, wire, unread, broken>>
    BY <1>5 DEF Send, Locked, netVars
  <2> QED
    BY <1>a, <2>1, TakeTokenStep DEF Holding
<1>6. ASSUME CloseAfterSent(s) PROVE SInv'
  <2>1. /\ pc[s] = "idle" /\ TakeToken(s, NoCall)
        /\ UNCHANGED <<queue, pushed, curr, sentBytes, encrypted, wire, unread, broken>>
    BY <1>6 DEF CloseAfterSent, Locked, netVars
  <2> QED
    BY <1>a, <2>1, TakeTokenStep DEF Holding
<1>7. Quiet => SInv'
  BY <1>a, QuietStep
<1> QED
  BY <1>a, <1>1, <1>2, <1>3, <1>4, <1>5, <1>6, <1>7, RealSendStep DEF Sender

LEMMA AppendStep ==
    ASSUME SInv, NEW w \in Workers, AppendAnswer(w)
    PROVE  SInv'
<1>1. w \in Threads
  BY DEF Threads
<1>2. pc[w] = "append" /\ Queue
      /\ UNCHANGED <<curr, token, sentBytes, encrypted, wire, unread, broken>>
      /\ \E place \in {"read", "readEnd"} : Goto(w, place)
  BY DEF AppendAnswer, Delivered, netVars
<1>3. PICK place \in {"read", "readEnd"} : Goto(w, place)
  BY <1>2
<1>4. /\ pc' \in [Threads -> Places]
      /\ \A u \in Threads : pc'[u] = IF u = w THEN place ELSE pc[u]
  BY <1>1, <1>3, PlacesAfter DEF SInv, Places
<1>5. \A u \in Threads : /\ pc'[u] \in Holding <=> pc[u] \in Holding
                         /\ pc'[u] = "wrote" <=> pc[u] = "wrote"
                         /\ pc'[u] = "again" <=> pc[u] = "again"
  BY <1>2, <1>4 DEF Holding
<1>6. Wrote' = Wrote
  BY <1>5 DEF Wrote
<1>7. Position' /\ queue' \in Seq(Nat) /\ pushed' \in Nat /\ Len(queue') <= pushed'
  BY <1>2, <1>6, QueueStep
<1>8. Typed'
  BY <1>2, <1>4, <1>7 DEF SInv, Typed
<1>9. OneHolder' /\ InQueueOrder' /\ Ciphered'
  BY <1>2, <1>5 DEF SInv, OneHolder, InQueueOrder, Ciphered, EncryptedAsAgreed
<1> QED
  BY <1>7, <1>8, <1>9 DEF SInv

(* Encryption starts while nothing was sent and nothing is half sent.      *)
LEMMA DeliverKeyStep ==
    ASSUME SInv, NEW w \in Workers, DeliverKey(w)
    PROVE  SInv'
<1>1. w \in Threads
  BY DEF Threads
<1>2. pc[w] = "deliver" /\ encrypted' = (encrypted \/ MayEncrypt)
      /\ UNCHANGED <<queue, curr, token, sentBytes, pushed, wire, unread, broken>>
      /\ \E place \in {"check", "readEnd"} : Goto(w, place)
  BY DEF DeliverKey, Answer, EndRead, netVars
<1>3. PICK place \in {"check", "readEnd"} : Goto(w, place)
  BY <1>2
<1>4. /\ pc' \in [Threads -> Places]
      /\ \A u \in Threads : pc'[u] = IF u = w THEN place ELSE pc[u]
  BY <1>1, <1>3, PlacesAfter DEF SInv, Places
<1>5. \A u \in Threads : /\ pc'[u] \in Holding <=> pc[u] \in Holding
                         /\ pc'[u] = "wrote" <=> pc[u] = "wrote"
                         /\ pc'[u] = "again" <=> pc[u] = "again"
  BY <1>2, <1>4 DEF Holding
<1>6. Wrote' = Wrote
  BY <1>5 DEF Wrote
<1>7. Typed'
  BY <1>2, <1>4 DEF SInv, Typed, MayEncrypt
<1>8. OneHolder' /\ Position' /\ InQueueOrder'
  BY <1>2, <1>5, <1>6 DEF SInv, OneHolder, Position, InQueueOrder, Left
<1>9. Ciphered'
  <2>1. CASE MayEncrypt
    <3>1. Len(wire) = 0 /\ (curr # Nobody => broken)
      BY <2>1 DEF SInv, Ciphered, MayEncrypt
    <3>2. DOMAIN wire' = {}
      BY <1>2, <3>1 DEF SInv, Typed
    <3> QED
      BY <1>2, <1>5, <3>1, <3>2 DEF SInv, Ciphered, EncryptedAsAgreed
  <2>2. CASE ~MayEncrypt
    <3>1. encrypted' = encrypted
      BY <1>2, <2>2 DEF SInv, Typed
    <3> QED
      BY <1>2, <1>5, <3>1 DEF SInv, Ciphered, EncryptedAsAgreed
  <2> QED
    BY <2>1, <2>2
<1> QED
  BY <1>7, <1>8, <1>9 DEF SInv

LEMMA WorkerStep ==
    ASSUME SInv, NEW w \in Workers, Worker(w)
    PROVE  SInv'
<1>1. w \in Threads
  BY DEF Threads
<1> DEFINE Quiet == /\ UNCHANGED stream
                    /\ pc[w] \notin Holding
                    /\ \E place \in Places \ Holding : Goto(w, place)
<1>2. StartRun(w) \/ RunRequireClose(w) => Quiet
  BY DEF StartRun, RunRequireClose, CloseRun, stream, sendVars, netVars, Places, Holding
<1>3. RunReadOnly(w) => Quiet
  BY DEF RunReadOnly, ReadOrRearm, StartRead, Rearm, stream, sendVars, netVars, Places,
         Holding
<1>4. RunSent(w) => Quiet
  BY DEF RunSent, CloseRun, ReadOrRearm, StartRead, Rearm, stream, sendVars, netVars,
         Places, Holding
<1>5. ReadQuest(w) => Quiet
  BY DEF ReadQuest, EndRead, stream, sendVars, Places, Holding
<1>6. DeliverPing(w) \/ DeliverQuest(w) \/ CheckAppend(w) => Quiet
  BY DEF DeliverPing, DeliverQuest, CheckAppend, Delivered, Answer, stream, sendVars,
         netVars, Places, Holding
<1>7. RunDone(w) => Quiet
  BY DEF RunDone, Finish, CloseRun, stream, sendVars, netVars, Places, Holding
<1>8. RunClose(w) => Quiet
  BY DEF RunClose, NotMine, Finish, stream, sendVars, netVars, Places, Holding
<1>9. ExitEpoll(w) => Quiet
  BY DEF ExitEpoll, Finish, stream, sendVars, netVars, Places, Holding
<1>10. Quiet => SInv'
  BY <1>1, QuietStep
<1>11. ASSUME RunSend(w) PROVE SInv'
  <2>1. /\ pc[w] = "run" /\ TakeToken(w, call[w])
        /\ UNCHANGED <<queue, pushed, curr, sentBytes, encrypted, wire, unread, broken>>
    BY <1>11 DEF RunSend, netVars
  <2> QED
    BY <1>1, <2>1, TakeTokenStep DEF Holding
<1>12. ASSUME AfterRead(w) PROVE SInv'
  <2>1. /\ pc[w] = "readEnd"
        /\ UNCHANGED <<queue, pushed, curr, sentBytes, encrypted, wire, unread, broken>>
        /\ \/ TakeToken(w, [call[w] EXCEPT !.late = TRUE])
           \/ UNCHANGED token /\ \E place \in {"close", "modify"} : Goto(w, place)
    BY <1>12 DEF AfterRead, CloseRun, Rearm, netVars
  <2>2. CASE TakeToken(w, [call[w] EXCEPT !.late = TRUE])
    BY <1>1, <2>1, <2>2, TakeTokenStep DEF Holding
  <2>3. CASE UNCHANGED token /\ \E place \in {"close", "modify"} : Goto(w, place)
    <3>1. Quiet
      BY <2>1, <2>3 DEF stream, Places, Holding
    <3> QED
      BY <1>10, <3>1
  <2> QED
    BY <2>1, <2>2, <2>3
<1> QED
  BY <1>1, <1>2, <1>3, <1>4, <1>5, <1>6, <1>7, <1>8, <1>9, <1>10, <1>11, <1>12,
     RealSendStep, DeliverKeyStep, AppendStep DEF Worker

LEMMA OtherStep ==
    ASSUME SInv,
           \/ EpollThread \/ IdleTimeout \/ CloseEvent \/ Reclaim \/ JoinEpoll
           \/ \E quest \in Kinds : PeerSend(quest)
    PROVE  SInv'
<1>1. Loop \in Threads
  BY DEF Threads
<1>2. UNCHANGED stream
  BY DEF EpollThread, EpollWait, ProcessClose, SignConnection, ExitEpoll, IdleTimeout,
         CloseEvent, Reclaim, JoinEpoll, PeerSend, stream, sendVars, netVars
<1>3. UNCHANGED pc \/ \E place \in Places \ Holding :
                        pc[Loop] \notin Holding /\ Goto(Loop, place)
  <2>1. CASE ProcessClose
    BY <2>1 DEF ProcessClose, Places, Holding
  <2>2. CASE ExitEpoll(Loop)
    BY <2>2 DEF ExitEpoll, Finish, Places, Holding
  <2>3. CASE ~ProcessClose /\ ~ExitEpoll(Loop)
    BY <2>3 DEF EpollThread, EpollWait, SignConnection, IdleTimeout, CloseEvent, Reclaim,
                JoinEpoll, PeerSend
  <2> QED
    BY <2>1, <2>2, <2>3
<1> QED
  BY <1>1, <1>2, <1>3, QuietStep

LEMMA PeerStream ==
    ASSUME SInv, PeerRead \/ PeerReset
    PROVE  SInv'
<1>1. UNCHANGED <<queue, curr, token, sentBytes, encrypted, pushed, wire, pc>>
  BY DEF PeerRead, PeerReset, sendVars
<1>2. unread \in Nat /\ broken \in BOOLEAN
  BY DEF SInv, Typed
<1>3. unread' \in Nat /\ unread' <= unread /\ broken' \in BOOLEAN /\ (broken => broken')
  <2>1. CASE PeerRead
    BY <1>2, <2>1 DEF PeerRead
  <2>2. CASE PeerReset
    BY <1>2, <2>2 DEF PeerReset, netVars
  <2> QED
    BY <2>1, <2>2
<1>4. Wrote' = Wrote /\ Left' = Left
  BY <1>1 DEF Wrote, Left
<1>5. Typed' /\ OneHolder' /\ Position' /\ InQueueOrder'
  BY <1>1, <1>3, <1>4 DEF SInv, Typed, OneHolder, Position, InQueueOrder
<1>6. Ciphered'
  BY <1>1, <1>3 DEF SInv, Typed, Ciphered, EncryptedAsAgreed
<1> QED
  BY <1>5, <1>6 DEF SInv

-----------------------------------------------------------------------------
LEMMA InitStream == Init => SInv
<1>1. ASSUME Init PROVE SInv
  <2>1. /\ \A t \in Threads : pc[t] = "idle"
        /\ pc \in [Threads -> Places]
    BY <1>1 DEF Init, Places
  <2>2. Wrote = 0
    BY <2>1 DEF Wrote
  <2>3. /\ queue = <<>> /\ wire = <<>> /\ curr = Nobody /\ pushed = 0
        /\ sentBytes = 0 /\ token = TRUE /\ encrypted = FALSE
        /\ unread = 0 /\ broken = FALSE
    BY <1>1 DEF Init
  <2>4. /\ queue \in Seq(Nat) /\ wire \in Seq(Buffers) /\ DOMAIN wire = {}
        /\ Len(queue) = 0 /\ Len(wire) = 0
    <3>1. queue \in Seq(Nat) /\ Len(queue) = 0
      BY <2>3
    <3>2. wire \in Seq(Buffers) /\ Len(wire) = 0
      BY <2>3
    <3>3. DOMAIN wire = 1..0
      BY <3>2
    <3>4. 1..0 = {}
      OBVIOUS
    <3> QED
      BY <3>1, <3>2, <3>3, <3>4
  <2>5. Typed
    <3>1. Len(queue) <= pushed /\ pushed \in Nat
      BY <2>3, <2>4
    <3>2. sentBytes \in Nat /\ unread \in Nat
      BY <2>3
    <3>3. token \in BOOLEAN /\ encrypted \in BOOLEAN /\ broken \in BOOLEAN
      BY <2>3
    <3>4. curr \in Buffers \cup {Nobody}
      BY <2>3
    <3> QED
      BY <2>1, <2>4, <3>1, <3>2, <3>3, <3>4 DEF Typed
  <2>6. OneHolder
    <3>1. \A t \in Threads : pc[t] \notin Holding
      BY <2>1 DEF Holding
    <3> QED
      BY <3>1 DEF OneHolder
  <2>7. Left = 0 /\ PackageLen \in Nat
    <3>1. pushed = 0 /\ Len(queue) = 0
      BY <2>3, <2>4
    <3>2. pushed - Len(queue) = 0
      BY <3>1
    <3>3. PackageLen \in Nat
      BY BoundsAssumption
    <3> QED
      BY <3>2, <3>3 DEF Left
  <2>8. InQueueOrder
    BY <2>4 DEF InQueueOrder
  <2>9. Ciphered
    BY <2>1, <2>3, <2>4 DEF Ciphered, EncryptedAsAgreed
  <2>10. Position
    BY <2>2, <2>3, <2>4, <2>7 DEF Position
  <2> QED
    BY <2>5, <2>6, <2>8, <2>9, <2>10 DEF SInv
<1> QED
  BY <1>1

LEMMA NextStream ==
    ASSUME SInv, [Next]_vars
    PROVE  SInv'
<1>1. ASSUME UNCHANGED vars PROVE SInv'
  BY <1>1, QuietStep DEF vars, stream, sendVars, netVars
<1> QED
  BY <1>1, SenderStep, WorkerStep, OtherStep, PeerStream DEF Next

THEOREM StreamInvariant == Spec => []SInv
<1>1. SInv /\ [Next]_vars => SInv'
  BY NextStream
<1> QED
  BY <1>1, InitStream, PTL DEF Spec

(* Any number of threads, any lengths, full sockets and errors at any      *)
(* place: what write() took is packages 1, 2, 3, ... each whole and once.  *)
THEOREM SentInOrder == Spec => []InQueueOrder
<1>1. SInv => InQueueOrder
  BY DEF SInv
<1> QED
  BY <1>1, StreamInvariant, PTL

(* Nothing is sent plain on a connection that is encrypted, and nothing    *)
(* encrypted on one that is not, whenever the key exchange comes.          *)
THEOREM EncryptedWholly == Spec => []EncryptedAsAgreed
<1>1. SInv => EncryptedAsAgreed
  BY DEF SInv, Ciphered
<1> QED
  BY <1>1, StreamInvariant, PTL

-----------------------------------------------------------------------------
(* The types.  The reference count is a number because it counts (Counted  *)
(* above), the package being sent is one where write() needs it because    *)
(* one thread has the token (SInv above).                                  *)

SendTyped ==
    /\ queue \in Seq(Nat \ {0}) /\ curr \in Buffers \cup {Nobody}
    /\ token \in BOOLEAN /\ sentBytes \in Nat /\ stopAppend \in BOOLEAN
    /\ encrypted \in BOOLEAN /\ pushed \in Nat

FlagTyped ==
    /\ disposable \in BOOLEAN /\ requireClose \in BOOLEAN
    /\ needSend \in BOOLEAN /\ needRecv \in BOOLEAN
    /\ recvToken \in BOOLEAN /\ received \in Nat

MapTyped ==
    /\ lock \in Threads \cup {Nobody}
    /\ inMap \in BOOLEAN /\ connecting \in BOOLEAN /\ joined \in BOOLEAN
    /\ armed \subseteq {"IN", "OUT", "HUP"} /\ event \subseteq {"IN", "OUT", "HUP"}

NetTyped ==
    /\ wire \in Seq(Buffers) /\ unread \in 0..SocketRoom
    /\ incoming \in Seq(Kinds) /\ arrived \in Nat /\ broken \in BOOLEAN

EndTyped ==
    /\ jobs \in Nat /\ pushes \in Nat /\ due \in Nat
    /\ closing \in {"open", "posted", "reclaim", "released"}
    /\ closedBy \in Closers

CallTyped == pc \in [Threads -> Places] /\ call \in [Threads -> Calls]

KInv ==
    /\ SendTyped /\ FlagTyped /\ MapTyped /\ NetTyped /\ EndTyped /\ CallTyped
    /\ Counted

LEMMA KInvTypes == ASSUME KInv PROVE TypeOK
<1>1. refCount \in Nat /\ tasks \in Nat
  BY BusyFinite DEF KInv, Counted
<1> QED
  BY <1>1 DEF KInv, SendTyped, FlagTyped, MapTyped, NetTyped, EndTyped, CallTyped, Places,
     TypeOK

LEMMA NoCallType == NoCall \in Calls
  BY DEF NoCall, Calls, Closers

(* A thread's local variables, one set anew.                               *)
LEMMA CallFields ==
    ASSUME NEW c \in Calls, NEW b \in BOOLEAN
    PROVE  /\ [c EXCEPT !.need = b] \in Calls /\ [c EXCEPT !.err = b] \in Calls
           /\ [c EXCEPT !.actual = token, !.need = FALSE] \in Calls \/ token \notin BOOLEAN
           /\ [c EXCEPT !.late = b] \in Calls
           /\ [c EXCEPT !.more = b, !.quest = "none"] \in Calls
           /\ \A quest \in Kinds : [c EXCEPT !.quest = quest] \in Calls
           /\ \A by \in Closers : [c EXCEPT !.by = by] \in Calls
           /\ \A want \in SUBSET {"IN", "OUT", "HUP"} : [c EXCEPT !.want = want] \in Calls
  BY DEF Calls

(* A step of one thread that neither begins nor ends a run.                *)
LEMMA MoveTyped ==
    ASSUME KInv, NEW t \in Threads, NEW place \in Places,
           t \notin Workers \/ (pc[t] # "idle" /\ place # "idle"), Goto(t, place),
           UNCHANGED call \/ \E rec \in Calls : Local(t, rec), UNCHANGED <<refCount, tasks>>
    PROVE  CallTyped' /\ Counted'
<1>1. pc' = [pc EXCEPT ![t] = place] /\ pc \in [Threads -> Places]
  BY DEF Goto, KInv, CallTyped
<1>2. BusyIn(pc') = BusyIn(pc)
  BY <1>1, BusySame
<1>3. call' \in [Threads -> Calls]
  BY DEF Local, KInv, CallTyped
<1> QED
  BY <1>1, <1>2, <1>3 DEF CallTyped, KInv, Counted

(* The end of a run gives its reference back.                              *)
LEMMA RunOverTyped ==
    ASSUME KInv, NEW w \in Workers, pc[w] # "idle", Finish(w),
           refCount' = refCount - 1, UNCHANGED tasks
    PROVE  CallTyped' /\ Counted'
<1>1. pc' = [pc EXCEPT ![w] = "idle"] /\ pc \in [Threads -> Places]
  BY DEF Finish, Goto, KInv, CallTyped
<1>2. Cardinality(BusyIn(pc')) = Cardinality(BusyIn(pc)) - 1
  BY <1>1, BusyLess
<1>3. CallTyped'
  BY <1>1, NoCallType DEF Finish, Local, KInv, CallTyped, Places
<1> QED
  BY <1>2, <1>3, BusyFinite DEF KInv, Counted

LEMMA SteadyTyped ==
    ASSUME KInv, UNCHANGED <<pc, call, refCount, tasks>> PROVE CallTyped' /\ Counted'
  BY DEF KInv, CallTyped, Counted, BusyIn

(* Asking for the token.                                                   *)
LEMMA TakeTokenTyped ==
    ASSUME KInv, NEW t \in Threads, NEW rec \in Calls, TakeToken(t, rec),
           t \in Workers => pc[t] # "idle", UNCHANGED <<refCount, tasks>>
    PROVE  CallTyped' /\ Counted' /\ token' \in BOOLEAN
<1>1. [rec EXCEPT !.actual = token, !.need = FALSE] \in Calls
  BY CallFields DEF KInv, SendTyped
<1>2. Goto(t, IF token THEN "send" ELSE "sent") /\ token' = FALSE
  BY DEF TakeToken
<1>3. (IF token THEN "send" ELSE "sent") \in Places \ {"idle"}
  BY DEF Places
<1> QED
  BY <1>1, <1>2, <1>3, MoveTyped DEF TakeToken

LEMMA RealSendTyped ==
    ASSUME KInv, SInv, NEW t \in Threads, RealSend(t)
    PROVE  KInv'
<1>1. pc[t] \in {"send", "wrote", "again", "sent"} /\ call[t] \in Calls
  BY DEF RealSend, NextBuffer, Write, Advance, WriteRefused, StopSending, AfterSend, KInv,
     CallTyped
<1>2. pc[t] # "idle" /\ wire \in Seq(Buffers) /\ Len(wire) \in Nat
  BY <1>1 DEF KInv, NetTyped
<1>3. CASE NextBuffer(t)
  <2>1. Goto(t, "sent") \/ UNCHANGED pc
    BY <1>3 DEF NextBuffer, ReturnToken
  <2>2. UNCHANGED <<stopAppend, encrypted, pushed, flagVars, mapVars, netVars, endVars, call>>
    BY <1>3 DEF NextBuffer
  <2>3. CallTyped' /\ Counted'
    BY <1>2, <2>1, <2>2, MoveTyped, SteadyTyped DEF mapVars, Places
  <2>4. queue' \in Seq(Nat \ {0}) /\ curr' \in Buffers \cup {Nobody}
    <3>1. CASE queue # <<>> /\ queue' = Tail(queue)
               /\ curr' = [pkg |-> Head(queue), offset |-> 0, enc |-> encrypted]
      <4>1. Head(queue) \in Nat \ {0} /\ Tail(queue) \in Seq(Nat \ {0})
        BY <3>1 DEF KInv, SendTyped
      <4> QED
        BY <3>1, <4>1 DEF KInv, SendTyped, Buffers
    <3>2. CASE UNCHANGED <<queue, curr>>
      BY <3>2 DEF KInv, SendTyped
    <3> QED
      BY <1>3, <3>1, <3>2 DEF NextBuffer
  <2>5. token' \in BOOLEAN /\ sentBytes' \in Nat
    BY <1>2, <1>3 DEF NextBuffer, ReturnToken, KInv, SendTyped
  <2> QED
    BY <2>2, <2>3, <2>4, <2>5 DEF KInv, SendTyped, FlagTyped, MapTyped, NetTyped, EndTyped,
       flagVars, mapVars, netVars, endVars
<1>4. CASE Write(t)
  <2>1. /\ curr \in Buffers /\ wire' = Append(wire, [curr EXCEPT !.offset = @ + 1])
        /\ unread < SocketRoom /\ unread' = unread + 1 /\ Goto(t, "wrote")
        /\ UNCHANGED <<incoming, arrived, broken, sendVars, flagVars, mapVars, endVars, call>>
    BY <1>4 DEF Write, KInv, SendTyped
  <2>2. CallTyped' /\ Counted'
    BY <1>2, <2>1, MoveTyped DEF mapVars, Places
  <2>3. [curr EXCEPT !.offset = @ + 1] \in Buffers
    BY <2>1 DEF Buffers
  <2>4. wire' \in Seq(Buffers) /\ unread' \in 0..SocketRoom
    BY <2>1, <2>3, BoundsAssumption DEF KInv, NetTyped
  <2> QED
    BY <2>1, <2>2, <2>4 DEF KInv, SendTyped, FlagTyped, MapTyped, NetTyped, EndTyped,
       sendVars, flagVars, mapVars, endVars
<1>5. CASE Advance(t)
  <2>1. /\ curr' = IF curr.offset + 1 = PackageLen THEN Nobody
                   ELSE [curr EXCEPT !.offset = @ + 1]
        /\ Goto(t, "send") /\ pc[t] = "wrote"
        /\ UNCHANGED <<queue, token, sentBytes, stopAppend, encrypted, pushed,
                       flagVars, mapVars, netVars, endVars, call>>
    BY <1>5 DEF Advance
  <2>2. CallTyped' /\ Counted'
    BY <1>2, <2>1, MoveTyped DEF mapVars, Places
  <2>3. curr \in Buffers
    BY <2>1 DEF SInv, Position, Wrote, KInv, SendTyped
  <2>4. curr' \in Buffers \cup {Nobody}
    BY <2>1, <2>3 DEF Buffers
  <2> QED
    BY <2>1, <2>2, <2>4 DEF KInv, SendTyped, FlagTyped, MapTyped, NetTyped, EndTyped,
       flagVars, mapVars, netVars, endVars
<1>6. CASE WriteRefused(t)
  <2>1. Goto(t, "again") /\ UNCHANGED <<sendVars, flagVars, mapVars, netVars, endVars>>
    BY <1>6 DEF WriteRefused
  <2>2. \E rec \in Calls : Local(t, rec)
    BY <1>1, <1>6, CallFields DEF WriteRefused
  <2>3. CallTyped' /\ Counted'
    BY <1>2, <2>1, <2>2, MoveTyped DEF mapVars, Places
  <2> QED
    BY <2>1, <2>3 DEF KInv, SendTyped, FlagTyped, MapTyped, NetTyped, EndTyped,
       sendVars, flagVars, mapVars, netVars, endVars
<1>7. CASE StopSending(t)
  <2>1. /\ Goto(t, "sent") /\ token' = TRUE /\ sentBytes' = Len(wire)
        /\ UNCHANGED <<queue, curr, stopAppend, encrypted, pushed,
                       flagVars, mapVars, netVars, endVars, call>>
    BY <1>7 DEF StopSending, ReturnToken
  <2>2. CallTyped' /\ Counted'
    BY <1>2, <2>1, MoveTyped DEF mapVars, Places
  <2> QED
    BY <1>2, <2>1, <2>2 DEF KInv, SendTyped, FlagTyped, MapTyped, NetTyped, EndTyped,
       flagVars, mapVars, netVars, endVars
<1>8. CASE AfterSend(t)
  <2>1. /\ Goto(t, IF t \in Senders THEN "wait" ELSE "runEnd")
        /\ UNCHANGED <<sendVars, disposable, needSend, needRecv, recvToken, received,
                       mapVars, netVars, endVars>>
    BY <1>8 DEF AfterSend
  <2>2. PICK b \in BOOLEAN : /\ requireClose' = (requireClose \/ b)
                             /\ Local(t, [call[t] EXCEPT !.need = @ \/ b])
    <3> DEFINE b == disposable /\ call[t].actual /\ ~call[t].err /\ ~call[t].need
    <3>1. /\ requireClose' = (requireClose \/ b)
          /\ Local(t, [call[t] EXCEPT !.need = @ \/ b])
      BY <1>8 DEF AfterSend
    <3>2. b \in BOOLEAN
      OBVIOUS
    <3> HIDE DEF b
    <3> QED
      BY <3>1, <3>2
  <2>3. \E rec \in Calls : Local(t, rec)
    <3> DEFINE need == call[t].need \/ b
    <3>1. [call[t] EXCEPT !.need = @ \/ b] = [call[t] EXCEPT !.need = need]
      BY <1>1 DEF Calls
    <3>2. need \in BOOLEAN
      OBVIOUS
    <3> HIDE DEF need
    <3> QED
      BY <1>1, <2>2, <3>1, <3>2, CallFields
  <2>4. CallTyped' /\ Counted'
    BY <1>2, <2>1, <2>3, MoveTyped DEF mapVars, Places
  <2> QED
    BY <2>1, <2>2, <2>4 DEF KInv, SendTyped, FlagTyped, MapTyped, NetTyped, EndTyped,
       sendVars, mapVars, netVars, endVars
<1> QED
  BY <1>3, <1>4, <1>5, <1>6, <1>7, <1>8 DEF RealSend

LEMMA QueueTyped ==
    ASSUME KInv, Queue PROVE queue' \in Seq(Nat \ {0}) /\ pushed' \in Nat
<1>1. pushed + 1 \in Nat \ {0} /\ queue \in Seq(Nat \ {0})
  BY DEF KInv, SendTyped
<1> QED
  BY <1>1 DEF Queue

(* The threads that send or close.                                         *)
LEMMA SenderTyped ==
    ASSUME KInv, SInv, NEW s \in Senders,
           Sender(s) \/ Send(s) \/ CloseAfterSent(s) \/ CloseConnection(s), ~ExitEpoll(s)
    PROVE  KInv'
<1>1. s \in Threads /\ s \notin Workers /\ call[s] \in Calls /\ NoCall \in Calls
  BY ThreadsAssumption, NoCallType DEF Threads, KInv, CallTyped
<1>2. CASE RealSend(s)
  BY <1>1, <1>2, RealSendTyped
<1>3. CASE SenderWait(s)
  <2>1. /\ Local(s, [call[s] EXCEPT !.want = WaitFor(TRUE)]) /\ Goto(s, "modify")
        /\ UNCHANGED <<sendVars, flagVars, mapVars, netVars, endVars>>
    BY <1>3 DEF SenderWait
  <2>2. WaitFor(TRUE) \in SUBSET {"IN", "OUT", "HUP"}
    BY DEF WaitFor
  <2>3. \E rec \in Calls : Local(s, rec)
    BY <1>1, <2>1, <2>2, CallFields
  <2>4. CallTyped' /\ Counted'
    BY <1>1, <2>1, <2>3, MoveTyped DEF mapVars, Places
  <2> QED
    BY <2>1, <2>4 DEF KInv, SendTyped, FlagTyped, MapTyped, NetTyped, EndTyped,
       sendVars, flagVars, mapVars, netVars, endVars
<1>4. CASE SenderDone(s)
  <2>1. /\ armed' = armed \/ armed' = call[s].want
        /\ lock' = Nobody /\ Goto(s, "idle") /\ Local(s, NoCall)
        /\ UNCHANGED <<inMap, connecting, joined, event, refCount, tasks,
                       sendVars, flagVars, netVars, endVars>>
    BY <1>4 DEF SenderDone, Modify, Finish
  <2>2. armed' \subseteq {"IN", "OUT", "HUP"}
    BY <1>1, <2>1 DEF Calls, KInv, MapTyped
  <2>3. CallTyped' /\ Counted'
    BY <1>1, <2>1, MoveTyped DEF Places
  <2> QED
    BY <2>1, <2>2, <2>3 DEF KInv, SendTyped, FlagTyped, MapTyped, NetTyped, EndTyped,
       sendVars, flagVars, netVars, endVars
<1>5. CASE Send(s) \/ CloseAfterSent(s)
  <2>1. /\ TakeToken(s, NoCall) /\ lock' = s
        /\ UNCHANGED <<inMap, connecting, joined, armed, event, refCount, tasks>>
        /\ UNCHANGED <<curr, sentBytes, encrypted, requireClose, needSend,
                       needRecv, recvToken, received, netVars, closing, closedBy>>
    BY <1>5 DEF Send, CloseAfterSent, Locked, flagVars
  <2>2. CallTyped' /\ Counted' /\ token' \in BOOLEAN
    BY <1>1, <2>1, TakeTokenTyped
  <2>3. queue' \in Seq(Nat \ {0}) /\ pushed' \in Nat
    <3>1. Queue \/ UNCHANGED <<queue, pushed>>
      BY <1>5 DEF Send, CloseAfterSent
    <3> QED
      BY <3>1, QueueTyped DEF KInv, SendTyped
  <2>4. /\ jobs' \in Nat /\ pushes' \in Nat /\ due' \in Nat
        /\ disposable' \in BOOLEAN /\ stopAppend' \in BOOLEAN
    <3>1. CASE Send(s)
      BY <3>1 DEF Send, KInv, SendTyped, FlagTyped, EndTyped, flagVars
    <3>2. CASE CloseAfterSent(s)
      BY <3>2 DEF CloseAfterSent, KInv, SendTyped, FlagTyped, EndTyped, flagVars
    <3> QED
      BY <1>5, <3>1, <3>2
  <2> QED
    BY <1>1, <2>1, <2>2, <2>3, <2>4 DEF KInv, SendTyped, FlagTyped, MapTyped, NetTyped,
       EndTyped, netVars
<1>6. CASE CloseConnection(s)
  <2>1. /\ Goto(s, "exit") /\ Local(s, [NoCall EXCEPT !.by = "call"]) /\ inMap' = FALSE
        /\ UNCHANGED <<lock, connecting, joined, armed, event, refCount, tasks,
                       sendVars, flagVars, netVars, endVars>>
    BY <1>6 DEF CloseConnection, Taken
  <2>2. \E rec \in Calls : Local(s, rec)
    BY <1>1, <2>1, CallFields DEF Closers
  <2>3. CallTyped' /\ Counted'
    BY <1>1, <2>1, <2>2, MoveTyped DEF Places
  <2>4. MapTyped'
    BY <2>1 DEF KInv, MapTyped
  <2> QED
    BY <2>1, <2>3, <2>4 DEF KInv, SendTyped, FlagTyped, MapTyped, NetTyped, EndTyped,
       sendVars, flagVars, netVars, endVars
<1> QED
  BY <1>2, <1>3, <1>4, <1>5, <1>6 DEF Sender

(* Of a run, what leads elsewhere in the run, changes the flags it has     *)
(* reached and leaves the rest alone.                                      *)
LEMMA RunMoves ==
    ASSUME KInv, NEW w \in Workers, pc[w] # "idle",
           \E place \in Places \ {"idle"} : Goto(w, place),
           UNCHANGED call \/ \E rec \in Calls : Local(w, rec), FlagTyped',
           UNCHANGED <<sendVars, mapVars, netVars, endVars>>
    PROVE  KInv'
<1>1. w \in Threads
  BY DEF Threads
<1>2. CallTyped' /\ Counted'
  BY <1>1, MoveTyped DEF mapVars
<1> QED
  BY <1>2 DEF KInv, SendTyped, MapTyped, NetTyped, EndTyped, sendVars, mapVars, netVars,
     endVars

LEMMA WorkerHas ==
    ASSUME KInv, NEW w \in Workers
    PROVE  /\ w \in Threads /\ call[w] \in Calls
           /\ \A by \in Closers : [call[w] EXCEPT !.by = by] \in Calls
           /\ \A b \in BOOLEAN : [call[w] EXCEPT !.err = b] \in Calls
           /\ \A b \in BOOLEAN : [call[w] EXCEPT !.late = b] \in Calls
           /\ [call[w] EXCEPT !.want = WaitFor(call[w].need)] \in Calls
           /\ \A quest \in Kinds : [call[w] EXCEPT !.quest = quest] \in Calls
           /\ [call[w] EXCEPT !.more = @ \/ BuiltIn(call[w].quest), !.quest = "none"] \in Calls
<1>1. w \in Threads /\ call[w] \in Calls
  BY DEF Threads, KInv, CallTyped
<1>2. WaitFor(call[w].need) \in SUBSET {"IN", "OUT", "HUP"}
  BY DEF WaitFor
<1> DEFINE more == call[w].more \/ BuiltIn(call[w].quest)
<1>3. more \in BOOLEAN
  OBVIOUS
<1>4. [call[w] EXCEPT !.more = @ \/ BuiltIn(call[w].quest), !.quest = "none"]
        = [call[w] EXCEPT !.more = more, !.quest = "none"]
  BY <1>1 DEF Calls
<1> HIDE DEF more
<1> QED
  BY <1>1, <1>2, <1>3, <1>4, CallFields

(* Waiting for the next event, or reading.                                 *)
LEMMA ReadOrRearmTyped ==
    ASSUME KInv, NEW w \in Workers, Rearm(w) \/ StartRead(w)
    PROVE  /\ \E place \in Places \ {"idle"} : Goto(w, place)
           /\ UNCHANGED call \/ \E rec \in Calls : Local(w, rec)
           /\ recvToken' \in BOOLEAN
<1>1. CASE Rearm(w)
  BY <1>1, WorkerHas DEF Rearm, Places, KInv, FlagTyped
<1>2. CASE StartRead(w)
  BY <1>2 DEF StartRead, Places
<1> QED
  BY <1>1, <1>2

LEMMA CloseRunTyped ==
    ASSUME KInv, NEW w \in Workers, NEW by \in Closers, CloseRun(w, by)
    PROVE  /\ \E place \in Places \ {"idle"} : Goto(w, place)
           /\ \E rec \in Calls : Local(w, rec)
  BY WorkerHas DEF CloseRun, Places

(* What follows an answer.                                                 *)
LEMMA DeliveredTyped ==
    ASSUME KInv, NEW w \in Workers, NEW dispose, Delivered(w, dispose) \/ Answer(w)
    PROVE  /\ \E place \in Places \ {"idle"} : Goto(w, place)
           /\ UNCHANGED call \/ \E rec \in Calls : Local(w, rec)
           /\ recvToken' \in BOOLEAN
<1>1. CASE Answer(w)
  BY <1>1 DEF Answer, Places, KInv, FlagTyped
<1>2. CASE Delivered(w, dispose)
  BY <1>2, WorkerHas DEF Delivered, Places, KInv, FlagTyped
<1> QED
  BY <1>1, <1>2

LEMMA RunTyped ==
    ASSUME KInv, NEW w \in Workers,
           RunRequireClose(w) \/ RunReadOnly(w) \/ RunSent(w) \/ DeliverPing(w) \/ CheckAppend(w)
    PROVE  KInv'
<1>1. /\ pc[w] # "idle" /\ UNCHANGED <<sendVars, mapVars, netVars, endVars>>
      /\ UNCHANGED <<disposable, requireClose, needRecv, received>>
      /\ needSend' \in BOOLEAN
  BY DEF RunRequireClose, RunReadOnly, RunSent, DeliverPing, CheckAppend, flagVars, KInv,
     FlagTyped
<1>2. /\ \E place \in Places \ {"idle"} : Goto(w, place)
      /\ UNCHANGED call \/ \E rec \in Calls : Local(w, rec)
      /\ recvToken' \in BOOLEAN
  <2>1. \/ \E by \in Closers : CloseRun(w, by) /\ UNCHANGED recvToken
        \/ Rearm(w) \/ StartRead(w)
        \/ Delivered(w, disposable) \/ Answer(w)
        \/ Goto(w, "append") /\ UNCHANGED <<call, recvToken>>
    <3>1. CASE RunRequireClose(w)
      BY <3>1 DEF RunRequireClose, Closers, flagVars
    <3>2. CASE RunReadOnly(w)
      BY <3>2 DEF RunReadOnly, ReadOrRearm
    <3>3. CASE RunSent(w)
      BY <3>3 DEF RunSent, ReadOrRearm, Closers
    <3>4. CASE DeliverPing(w) \/ CheckAppend(w)
      BY <3>4 DEF DeliverPing, CheckAppend
    <3> QED
      BY <3>1, <3>2, <3>3, <3>4
  <2>2. CASE \E by \in Closers : CloseRun(w, by) /\ UNCHANGED recvToken
    BY <2>2, CloseRunTyped DEF KInv, FlagTyped
  <2>3. CASE Rearm(w) \/ StartRead(w)
    BY <2>3, ReadOrRearmTyped
  <2>4. CASE Delivered(w, disposable) \/ Answer(w)
    BY <2>4, DeliveredTyped
  <2>5. CASE Goto(w, "append") /\ UNCHANGED <<call, recvToken>>
    BY <2>5 DEF Places, KInv, FlagTyped
  <2> QED
    BY <2>1, <2>2, <2>3, <2>4, <2>5
<1>3. FlagTyped'
  BY <1>1, <1>2 DEF KInv, FlagTyped
<1> QED
  BY <1>1, <1>2, <1>3, RunMoves

LEMMA ReadQuestTyped ==
    ASSUME KInv, NEW w \in Workers, ReadQuest(w)
    PROVE  KInv'
<1>1. /\ pc[w] # "idle" /\ w \in Threads
      /\ UNCHANGED <<wire, unread, arrived, broken, sendVars, disposable, requireClose,
                     needSend, needRecv, mapVars, endVars>>
  BY DEF ReadQuest, Threads
<1>2. CASE incoming = <<>> /\ EndRead(w, broken) /\ UNCHANGED <<incoming, received>>
  <2>1. Goto(w, "readEnd") /\ recvToken' = TRUE /\ \E rec \in Calls : Local(w, rec)
    BY <1>2, WorkerHas DEF EndRead, KInv, NetTyped
  <2>2. CallTyped' /\ Counted'
    BY <1>1, <2>1, MoveTyped DEF mapVars, Places
  <2> QED
    BY <1>1, <1>2, <2>1, <2>2 DEF KInv, SendTyped, FlagTyped, MapTyped, NetTyped, EndTyped,
       sendVars, mapVars, endVars
<1>3. CASE incoming # <<>> /\ incoming' = Tail(incoming) /\ UNCHANGED recvToken
  <2>1. Head(incoming) \in Kinds /\ incoming' \in Seq(Kinds)
    BY <1>3 DEF KInv, NetTyped
  <2>2. /\ Goto(w, "readEnd") \/ Goto(w, "deliver")
        /\ received' \in Nat
        /\ \E rec \in Calls : Local(w, rec)
    <3>1. CASE Head(incoming) = "bad"
      BY <1>3, <3>1, WorkerHas DEF ReadQuest, KInv, FlagTyped
    <3>2. CASE Head(incoming) # "bad"
      <4>1. /\ Goto(w, "deliver") /\ received' = received + 1
            /\ Local(w, [call[w] EXCEPT !.quest = Head(incoming)])
        BY <1>3, <3>2 DEF ReadQuest
      <4>2. [call[w] EXCEPT !.quest = Head(incoming)] \in Calls
        BY <2>1, WorkerHas
      <4> QED
        BY <4>1, <4>2 DEF KInv, FlagTyped
    <3> QED
      BY <3>1, <3>2
  <2>3. CallTyped' /\ Counted'
    BY <1>1, <2>2, MoveTyped DEF mapVars, Places
  <2> QED
    BY <1>1, <1>3, <2>1, <2>2, <2>3 DEF KInv, SendTyped, FlagTyped, MapTyped, NetTyped,
       EndTyped, sendVars, mapVars, endVars
<1> QED
  BY <1>2, <1>3 DEF ReadQuest

LEMMA DeliverTyped ==
    ASSUME KInv, NEW w \in Workers, DeliverKey(w) \/ DeliverQuest(w) \/ AppendAnswer(w)
    PROVE  KInv'
<1>1. /\ pc[w] # "idle" /\ w \in Threads
      /\ UNCHANGED <<curr, token, sentBytes, stopAppend, requireClose, needSend, needRecv,
                     received, mapVars, netVars, pushes, due, closing, closedBy>>
  BY DEF DeliverKey, DeliverQuest, AppendAnswer, Threads, sendVars, endVars
<1>2. /\ \E place \in Places \ {"idle"} : Goto(w, place)
      /\ UNCHANGED call \/ \E rec \in Calls : Local(w, rec)
      /\ recvToken' \in BOOLEAN
  <2>1. CASE DeliverKey(w)
    <3>1. CASE EndRead(w, TRUE)
      BY <3>1, WorkerHas DEF EndRead, Places
    <3>2. CASE Answer(w)
      BY <3>2, DeliveredTyped
    <3> QED
      BY <2>1, <3>1, <3>2 DEF DeliverKey
  <2>2. CASE DeliverQuest(w)
    <3>1. Delivered(w, disposable') \/ Answer(w)
      BY <2>2 DEF DeliverQuest
    <3> QED
      BY <3>1, DeliveredTyped
  <2>3. CASE AppendAnswer(w)
    BY <2>3, DeliveredTyped DEF AppendAnswer
  <2> QED
    BY <2>1, <2>2, <2>3
<1>3. queue' \in Seq(Nat \ {0}) /\ pushed' \in Nat
  <2>1. Queue \/ UNCHANGED <<queue, pushed>>
    BY DEF DeliverKey, DeliverQuest, AppendAnswer, sendVars
  <2> QED
    BY <2>1, QueueTyped DEF KInv, SendTyped
<1>4. encrypted' \in BOOLEAN
  <2>1. UNCHANGED encrypted \/ encrypted' = (encrypted \/ MayEncrypt)
    BY DEF DeliverKey, DeliverQuest, AppendAnswer, sendVars
  <2> QED
    BY <2>1 DEF KInv, SendTyped
<1>5. disposable' \in BOOLEAN
  <2>1. \/ UNCHANGED disposable
        \/ disposable' = (disposable \/ (call[w].quest = "http" /\ CloseAfterAnswered))
    BY DEF DeliverKey, DeliverQuest, AppendAnswer
  <2> QED
    BY <2>1 DEF KInv, FlagTyped
<1>6. jobs' \in Nat
  <2>1. UNCHANGED jobs \/ jobs' = jobs + 1
    BY DEF DeliverKey, DeliverQuest, AppendAnswer, endVars
  <2> QED
    BY <2>1 DEF KInv, EndTyped
<1>7. CallTyped' /\ Counted'
  BY <1>1, <1>2, MoveTyped DEF mapVars
<1> QED
  BY <1>1, <1>2, <1>3, <1>4, <1>5, <1>6, <1>7 DEF KInv, SendTyped, FlagTyped, MapTyped,
     NetTyped, EndTyped, mapVars, netVars

LEMMA SendDataTyped ==
    ASSUME KInv, NEW w \in Workers, RunSend(w) \/ AfterRead(w)
    PROVE  KInv'
<1>1. /\ pc[w] # "idle" /\ w \in Threads
      /\ UNCHANGED <<queue, curr, sentBytes, stopAppend, encrypted, pushed, disposable,
                     requireClose, needSend, recvToken, received, mapVars, netVars, endVars>>
      /\ needRecv' \in BOOLEAN
  BY DEF RunSend, AfterRead, Threads, flagVars, Rearm, KInv, FlagTyped
<1>2. CallTyped' /\ Counted' /\ token' \in BOOLEAN
  <2>1. \/ \E rec \in Calls : TakeToken(w, rec)
        \/ \E by \in Closers : CloseRun(w, by) /\ UNCHANGED token
        \/ Rearm(w) /\ UNCHANGED token
    <3>1. CASE RunSend(w)
      BY <3>1, WorkerHas DEF RunSend
    <3>2. CASE AfterRead(w)
      BY <3>2, WorkerHas DEF AfterRead, Closers
    <3> QED
      BY <3>1, <3>2
  <2>2. CASE \E rec \in Calls : TakeToken(w, rec)
    BY <1>1, <2>2, TakeTokenTyped DEF mapVars
  <2>3. CASE \E by \in Closers : CloseRun(w, by) /\ UNCHANGED token
    BY <1>1, <2>3, CloseRunTyped, MoveTyped DEF mapVars, KInv, SendTyped
  <2>4. CASE Rearm(w) /\ UNCHANGED token
    BY <1>1, <2>4, ReadOrRearmTyped, MoveTyped DEF mapVars, KInv, SendTyped
  <2> QED
    BY <2>1, <2>2, <2>3, <2>4
<1> QED
  BY <1>1, <1>2 DEF KInv, SendTyped, FlagTyped, MapTyped, NetTyped, EndTyped, mapVars,
     netVars, endVars

LEMMA StartRunTyped ==
    ASSUME KInv, NEW w \in Workers, StartRun(w)
    PROVE  KInv'
<1>1. /\ pc[w] = "idle" /\ tasks > 0 /\ tasks' = tasks - 1 /\ refCount' = refCount
      /\ pc' = [pc EXCEPT ![w] = "run"] /\ pc \in [Threads -> Places]
      /\ UNCHANGED <<lock, inMap, connecting, joined, armed, event,
                     sendVars, flagVars, netVars, endVars, call>>
  BY DEF StartRun, Goto, KInv, CallTyped
<1>2. Cardinality(BusyIn(pc')) = Cardinality(BusyIn(pc)) + 1
  BY <1>1, BusyMore
<1>3. Counted'
  BY <1>1, <1>2, BusyFinite DEF KInv, Counted
<1>4. CallTyped'
  BY <1>1 DEF KInv, CallTyped, Places
<1> QED
  BY <1>1, <1>3, <1>4 DEF KInv, SendTyped, FlagTyped, MapTyped, NetTyped, EndTyped,
     sendVars, flagVars, netVars, endVars

(* Giving up the reference, or closing.                                    *)
LEMMA RunEndTyped ==
    ASSUME KInv, NEW w \in Workers, RunDone(w) \/ RunClose(w)
    PROVE  KInv'
<1>1. /\ pc[w] # "idle" /\ w \in Threads
      /\ armed' = armed \/ armed' = call[w].want
      /\ inMap' \in BOOLEAN
      /\ UNCHANGED <<lock, connecting, joined, event, tasks,
                     sendVars, flagVars, netVars, endVars>>
  BY DEF RunDone, RunClose, Modify, Threads, Taken, NotMine, KInv, MapTyped
<1>2. armed' \subseteq {"IN", "OUT", "HUP"}
  <2>1. call[w].want \subseteq {"IN", "OUT", "HUP"}
    BY WorkerHas DEF Calls
  <2> QED
    BY <1>1, <2>1 DEF KInv, MapTyped
<1>3. CallTyped' /\ Counted'
  <2>1. \/ Finish(w) /\ refCount' = refCount - 1
        \/ CloseRun(w, "error") /\ UNCHANGED refCount
        \/ Goto(w, "exit") /\ UNCHANGED <<refCount, call>>
    BY DEF RunDone, RunClose, NotMine
  <2>2. CASE Finish(w) /\ refCount' = refCount - 1
    BY <1>1, <2>2, RunOverTyped
  <2>3. CASE CloseRun(w, "error") /\ UNCHANGED refCount
    <3>1. "error" \in Closers
      BY DEF Closers
    <3> QED
      BY <1>1, <2>3, <3>1, CloseRunTyped, MoveTyped
  <2>4. CASE Goto(w, "exit") /\ UNCHANGED <<refCount, call>>
    BY <1>1, <2>4, MoveTyped DEF Places
  <2> QED
    BY <2>1, <2>2, <2>3, <2>4
<1> QED
  BY <1>1, <1>2, <1>3 DEF KInv, SendTyped, FlagTyped, MapTyped, NetTyped, EndTyped,
     sendVars, flagVars, netVars, endVars

LEMMA ExitEpollTyped ==
    ASSUME KInv, NEW t \in Threads, ExitEpoll(t)
    PROVE  KInv'
<1>1. /\ pc[t] = "exit" /\ joined' = FALSE /\ armed' = IF joined THEN {} ELSE armed
      /\ refCount' = IF t \in Workers THEN refCount - 1 ELSE refCount
      /\ closing' = "posted" /\ closedBy' = call[t].by /\ Finish(t)
      /\ UNCHANGED <<lock, inMap, connecting, event, tasks,
                     sendVars, flagVars, netVars, jobs, pushes, due>>
  BY DEF ExitEpoll, ReferencesWithout
<1>2. call[t].by \in Closers
  BY DEF KInv, CallTyped, Calls
<1>3. CallTyped' /\ Counted'
  <2>1. CASE t \in Workers
    BY <1>1, <2>1, RunOverTyped
  <2>2. CASE t \notin Workers
    BY <1>1, <2>2, MoveTyped, NoCallType DEF Finish, Places
  <2> QED
    BY <2>1, <2>2
<1>4. MapTyped'
  BY <1>1 DEF KInv, MapTyped
<1>5. EndTyped'
  BY <1>1, <1>2 DEF KInv, EndTyped
<1> QED
  BY <1>1, <1>3, <1>4, <1>5 DEF KInv, SendTyped, FlagTyped, NetTyped, sendVars, flagVars,
     netVars

LEMMA WorkerTyped ==
    ASSUME KInv, SInv, NEW w \in Workers, Worker(w)
    PROVE  KInv'
<1>1. w \in Threads
  BY DEF Threads
<1> QED
  BY <1>1, RealSendTyped, RunTyped, ReadQuestTyped, DeliverTyped, SendDataTyped,
     StartRunTyped, RunEndTyped, ExitEpollTyped DEF Worker

(* The epoll thread, the connection map's other users, and the peer.       *)
LEMMA EpollTyped ==
    ASSUME KInv, EpollWait \/ ProcessClose \/ SignConnection \/ JoinEpoll
    PROVE  KInv'
<1>1. CASE EpollWait \/ JoinEpoll
  <2>1. UNCHANGED <<pc, call, refCount, tasks, lock, inMap, sendVars, flagVars, netVars,
                    endVars>>
    BY <1>1 DEF EpollWait, JoinEpoll
  <2>2. MapTyped'
    BY <1>1, <2>1 DEF EpollWait, JoinEpoll, Ready, KInv, MapTyped
  <2> QED
    BY <2>1, <2>2, SteadyTyped DEF KInv, SendTyped, FlagTyped, NetTyped, EndTyped, sendVars,
       flagVars, netVars, endVars
<1>2. CASE ProcessClose
  <2>1. /\ event' = {} /\ inMap' = FALSE
        /\ UNCHANGED <<lock, connecting, joined, armed, refCount, tasks,
                       sendVars, flagVars, netVars, endVars>>
    BY <1>2 DEF ProcessClose
  <2>2. CallTyped' /\ Counted'
    <3>1. CASE inMap
      <4>1. Loop \in Threads /\ Loop \notin Workers /\ [NoCall EXCEPT !.by = "peer"] \in Calls
        BY ThreadsAssumption, NoCallType, CallFields DEF Threads, Closers
      <4> QED
        BY <1>2, <2>1, <3>1, <4>1, MoveTyped DEF ProcessClose, Places
    <3>2. CASE ~inMap
      BY <1>2, <2>1, <3>2, SteadyTyped DEF ProcessClose
    <3> QED
      BY <3>1, <3>2
  <2>3. MapTyped'
    BY <2>1 DEF KInv, MapTyped
  <2> QED
    BY <2>1, <2>2, <2>3 DEF KInv, SendTyped, FlagTyped, NetTyped, EndTyped, sendVars,
       flagVars, netVars, endVars
<1>3. CASE SignConnection
  <2>1. /\ event' = {}
        /\ UNCHANGED <<lock, inMap, connecting, joined, armed, pc, call, sendVars,
                       disposable, requireClose, recvToken, received, netVars, endVars>>
    BY <1>3 DEF SignConnection
  <2>2. needRecv' \in BOOLEAN /\ needSend' \in BOOLEAN
    <3>1. \/ UNCHANGED <<needRecv, needSend>>
          \/ /\ needRecv' = (needRecv \/ "IN" \in event)
             /\ needSend' = (needSend \/ "OUT" \in event)
      BY <1>3 DEF SignConnection
    <3> QED
      BY <3>1 DEF KInv, FlagTyped
  <2>3. CallTyped' /\ Counted'
    <3>1. \/ UNCHANGED <<refCount, tasks>>
          \/ refCount' = refCount + 1 /\ tasks' = tasks + 1
      BY <1>3 DEF SignConnection
    <3>2. BusyIn(pc') = BusyIn(pc) /\ CallTyped'
      BY <2>1 DEF KInv, CallTyped
    <3> QED
      BY <3>1, <3>2, BusyFinite DEF KInv, Counted
  <2> QED
    BY <2>1, <2>2, <2>3 DEF KInv, SendTyped, FlagTyped, MapTyped, NetTyped, EndTyped,
       sendVars, netVars, endVars
<1> QED
  BY <1>1, <1>2, <1>3

LEMMA OtherTyped ==
    ASSUME KInv, \/ IdleTimeout \/ CloseEvent \/ Reclaim
                 \/ (\E quest \in Kinds : PeerSend(quest)) \/ PeerRead \/ PeerReset
    PROVE  KInv'
<1>1. /\ UNCHANGED <<pc, call, refCount, tasks>> /\ UNCHANGED <<sendVars, flagVars>>
  BY DEF IdleTimeout, CloseEvent, Reclaim, PeerSend, PeerRead, PeerReset, mapVars
<1>2. CASE IdleTimeout \/ CloseEvent \/ Reclaim
  <2>1. MapTyped' /\ EndTyped' /\ UNCHANGED netVars
    BY <1>2 DEF IdleTimeout, Taken, CloseEvent, Reclaim, mapVars, KInv, MapTyped, EndTyped,
       Closers
  <2> QED
    BY <1>1, <2>1, SteadyTyped DEF KInv, SendTyped, FlagTyped, NetTyped, sendVars, flagVars,
       netVars
<1>3. CASE (\E quest \in Kinds : PeerSend(quest)) \/ PeerRead \/ PeerReset
  <2>1. NetTyped'
    <3>1. CASE \E quest \in Kinds : PeerSend(quest)
      BY <3>1 DEF PeerSend, KInv, NetTyped
    <3>2. CASE PeerRead
      BY <3>2, BoundsAssumption DEF PeerRead, KInv, NetTyped
    <3>3. CASE PeerReset
      BY <3>3 DEF PeerReset, KInv, NetTyped
    <3> QED
      BY <1>3, <3>1, <3>2, <3>3
  <2>2. UNCHANGED <<mapVars, endVars>>
    BY <1>3 DEF PeerSend, PeerRead, PeerReset
  <2> QED
    BY <1>1, <2>1, <2>2, SteadyTyped DEF KInv, SendTyped, FlagTyped, MapTyped, EndTyped,
       sendVars, flagVars, mapVars, endVars
<1> QED
  BY <1>2, <1>3

LEMMA InitTyped == Init => KInv
<1>1. ASSUME Init PROVE KInv
  <2>1. BusyIn(pc) = {}
    BY <1>1 DEF Init, BusyIn, Threads
  <2>2. Counted
    BY <1>1, <2>1, FS_EmptySet DEF Init, Counted
  <2>3. CallTyped
    BY <1>1, NoCallType DEF Init, CallTyped, Places
  <2>4. SendTyped /\ FlagTyped /\ NetTyped
    <3>1. queue \in Seq(Nat \ {0}) /\ wire \in Seq(Buffers) /\ incoming \in Seq(Kinds)
      BY <1>1 DEF Init
    <3>2. unread \in 0..SocketRoom
      BY <1>1, BoundsAssumption DEF Init
    <3> QED
      BY <1>1, <3>1, <3>2 DEF Init, SendTyped, FlagTyped, NetTyped
  <2>5. MapTyped /\ EndTyped
    BY <1>1 DEF Init, MapTyped, EndTyped, Closers
  <2> QED
    BY <2>2, <2>3, <2>4, <2>5 DEF KInv
<1> QED
  BY <1>1

LEMMA NextTyped == ASSUME KInv, SInv, [Next]_vars PROVE KInv'
<1>1. ASSUME NEW s \in Senders,
             Sender(s) \/ Send(s) \/ CloseAfterSent(s) \/ CloseConnection(s)
      PROVE  KInv'
  <2>1. s \in Threads
    BY DEF Threads
  <2> QED
    BY <1>1, <2>1, SenderTyped, ExitEpollTyped
<1>2. ASSUME EpollThread PROVE KInv'
  BY <1>2, EpollTyped, ExitEpollTyped DEF EpollThread, Threads
<1>3. ASSUME UNCHANGED vars PROVE KInv'
  <2>1. UNCHANGED <<sendVars, flagVars, mapVars, netVars, endVars, pc, call>>
    BY <1>3 DEF vars
  <2> QED
    BY <2>1, SteadyTyped DEF KInv, SendTyped, FlagTyped, MapTyped, NetTyped, EndTyped,
       sendVars, flagVars, mapVars, netVars, endVars
<1> QED
  BY <1>1, <1>2, <1>3, WorkerTyped, EpollTyped, OtherTyped DEF Next

(* The connection's state keeps its types, however it is closed: above all *)
(* the reference count never falls below zero, the peer never has more     *)
(* unread than the socket holds, and what is written is always part of a   *)
(* package (IOWorker.h's _refCount, SendBuffer's _currBuffer).             *)
THEOREM ConnectionTyped == Spec => []TypeOK
<1>1. KInv /\ SInv /\ [Next]_vars => KInv'
  BY NextTyped
<1>2. KInv => TypeOK
  BY KInvTypes
<1> QED
  BY <1>1, <1>2, InitTyped, StreamInvariant, PTL DEF Spec
=============================================================================
