--------------------------- MODULE TcpConnection ---------------------------
(***************************************************************************)
(* One connection of the TCP server: the send buffer and its token, the    *)
(* one-shot epoll registration, TCPServerIOWorker::run in the I/O threads, *)
(* the threads that send through the ConnectionMap, closing, and the       *)
(* reference count that keeps the connection from being deleted too early. *)
(* A package is the number of its place in the order of queueing; it is    *)
(* PackageLen units long, and write() takes one unit after the other.      *)
(***************************************************************************)
EXTENDS Integers, Sequences, FiniteSets

CONSTANTS
    Senders,              \* threads that send answers and server pushes, or close
    Workers,              \* threads of the GlobalIOPool
    Loop,                 \* the server's epoll thread
    Nobody,               \* neither a thread nor a package
    PackageLen,
    SocketRoom,           \* units the socket's send buffer holds
    Kinds,                \* the kinds of quests that arrive
    MaxArrivals,          \* bound: quests that arrive
    MaxPushes,            \* bound: packages sent that answer no quest
    CloseAfterAnswered,   \* Config::_server_http_close_after_answered
    PoolMayFill,          \* the pool for quests may be at its limit
    MayBreak,             \* the peer may reset the connection
    Closes                \* how it may be closed: "now", "afterSent", "idle"; "early"

Threads == Senders \cup Workers \cup {Loop}

ASSUME ThreadsAssumption ==
    /\ IsFiniteSet(Workers)
    /\ Senders \cap Workers = {} /\ Loop \notin Senders \cup Workers
    /\ Nobody \notin Threads

ASSUME BoundsAssumption ==
    /\ PackageLen \in Nat \ {0} /\ SocketRoom \in Nat \ {0}
    /\ MaxArrivals \in Nat /\ MaxPushes \in Nat
    /\ Kinds \subseteq {"ping", "key", "user", "http", "bad"}
    /\ CloseAfterAnswered \in BOOLEAN /\ PoolMayFill \in BOOLEAN
    /\ MayBreak \in BOOLEAN /\ Closes \subseteq {"now", "afterSent", "idle", "early"}

VARIABLES
    lock,           \* who holds ConnectionMap::_mutex
    inMap,          \* the connection is in the ConnectionMap
    connecting,     \* connected() has not returned: not in epoll yet
    joined,         \* the socket is in epoll (_joined)
    armed,          \* what the one-shot registration waits for; {}: spent
    event,          \* the event the epoll thread is about to process
    refCount, tasks, \* _refCount, and the I/O pool's queued runs
    queue, curr,    \* _outQueue; _currBuffer with _offset
    token,          \* _sendToken
    sentBytes, stopAppend, encrypted,
    disposable, requireClose, needSend, needRecv,
    recvToken, received,     \* RecvBuffer::_token, _receivedPackage
    pc, call,       \* where each thread is, and its local variables
    wire, unread,   \* what write() took, and how much of it the peer has not read
    incoming, arrived, broken,
    jobs, pushes,   \* quests to answer; pushes made
    pushed,         \* packages queued so far
    due,            \* of them, those closeAfterSent must wait for
    closing, closedBy

sendVars == <<queue, curr, token, sentBytes, stopAppend, encrypted, pushed>>
flagVars == <<disposable, requireClose, needSend, needRecv, recvToken, received>>
mapVars  == <<lock, inMap, connecting, joined, armed, event, refCount, tasks>>
netVars  == <<wire, unread, incoming, arrived, broken>>
endVars  == <<jobs, pushes, due, closing, closedBy>>
vars     == <<sendVars, flagVars, mapVars, netVars, endVars, pc, call>>

(* Who took the connection from the map: the epoll thread, an I/O thread   *)
(* because all was sent or because of an error, or closeConnection() and   *)
(* the idle timeout.                                                       *)
Closers == {"none", "peer", "sent", "error", "call"}

NoCall == [need |-> FALSE, actual |-> FALSE, err |-> FALSE, more |-> FALSE,
           late |-> FALSE, quest |-> "none", want |-> {}, by |-> "none"]

Calls == [need : BOOLEAN, actual : BOOLEAN, err : BOOLEAN, more : BOOLEAN,
          late : BOOLEAN, quest : Kinds \cup {"none"},
          want : SUBSET {"IN", "OUT", "HUP"}, by : Closers]

Buffers == [pkg : Nat \ {0}, offset : Nat, enc : BOOLEAN]

ASSUME NobodyAssumption == Nobody \notin Buffers

TypeOK ==
    /\ lock \in Threads \cup {Nobody}
    /\ inMap \in BOOLEAN /\ connecting \in BOOLEAN /\ joined \in BOOLEAN
    /\ armed \subseteq {"IN", "OUT", "HUP"} /\ event \subseteq {"IN", "OUT", "HUP"}
    /\ refCount \in Nat /\ tasks \in Nat
    /\ queue \in Seq(Nat \ {0}) /\ curr \in Buffers \cup {Nobody}
    /\ token \in BOOLEAN /\ sentBytes \in Nat /\ stopAppend \in BOOLEAN
    /\ encrypted \in BOOLEAN /\ pushed \in Nat
    /\ disposable \in BOOLEAN /\ requireClose \in BOOLEAN
    /\ needSend \in BOOLEAN /\ needRecv \in BOOLEAN
    /\ recvToken \in BOOLEAN /\ received \in Nat
    /\ pc \in [Threads -> {"idle", "send", "wrote", "again", "sent", "wait", "modify",
                           "run", "read", "deliver", "check", "append", "readEnd",
                           "runEnd", "close", "exit"}]
    /\ call \in [Threads -> Calls]
    /\ wire \in Seq(Buffers) /\ unread \in 0..SocketRoom
    /\ incoming \in Seq(Kinds) /\ arrived \in Nat /\ broken \in BOOLEAN
    /\ jobs \in Nat /\ pushes \in Nat /\ due \in Nat
    /\ closing \in {"open", "posted", "reclaim", "released"}
    /\ closedBy \in Closers

Init ==
    /\ lock = Nobody /\ inMap = TRUE /\ connecting = TRUE /\ joined = FALSE
    /\ armed = {} /\ event = {} /\ refCount = 0 /\ tasks = 0
    /\ queue = <<>> /\ curr = Nobody /\ token = TRUE /\ sentBytes = 0
    /\ stopAppend = FALSE /\ encrypted = FALSE /\ pushed = 0
    /\ disposable = FALSE /\ requireClose = FALSE
    /\ needSend = FALSE /\ needRecv = FALSE /\ recvToken = TRUE /\ received = 0
    /\ pc = [t \in Threads |-> "idle"] /\ call = [t \in Threads |-> NoCall]
    /\ wire = <<>> /\ unread = 0 /\ incoming = <<>> /\ arrived = 0 /\ broken = FALSE
    /\ jobs = 0 /\ pushes = 0 /\ due = 0 /\ closing = "open" /\ closedBy = "none"

Goto(t, place) == pc' = [pc EXCEPT ![t] = place]
Local(t, rec)  == call' = [call EXCEPT ![t] = rec]
Finish(t)      == Goto(t, "idle") /\ Local(t, NoCall)

-----------------------------------------------------------------------------
(* SendBuffer.  send() queues a package and takes the token if it is free; *)
(* realSend() keeps it until the queue is empty, the socket is full, or    *)
(* write() fails.                                                          *)

Queue == queue' = Append(queue, pushed + 1) /\ pushed' = pushed + 1

(* Mutant: another thread's token is taken.                                *)
TakeTokenAnyway(t, rec) ==
    /\ token' = FALSE
    /\ Goto(t, "send")
    /\ Local(t, [rec EXCEPT !.actual = TRUE, !.need = FALSE])

TakeToken(t, rec) ==
    /\ token' = FALSE
    /\ Goto(t, IF token THEN "send" ELSE "sent")
    /\ Local(t, [rec EXCEPT !.actual = token, !.need = FALSE])

ReturnToken(t) ==
    /\ token' = TRUE
    /\ sentBytes' = Len(wire)
    /\ Goto(t, "sent")

NextBuffer(t) ==
    /\ pc[t] = "send" /\ curr = Nobody
    /\ \/ /\ queue = <<>>
          /\ ReturnToken(t)
          /\ UNCHANGED <<queue, curr>>
       \/ /\ queue # <<>>
          /\ curr' = [pkg |-> Head(queue), offset |-> 0, enc |-> encrypted]
          /\ queue' = Tail(queue)
          /\ UNCHANGED <<token, sentBytes, pc>>
    /\ UNCHANGED <<stopAppend, encrypted, pushed, flagVars, mapVars, netVars,
                   endVars, call>>

(* write(), and then the bookkeeping: only the token keeps others away.    *)
Write(t) ==
    /\ pc[t] = "send" /\ curr # Nobody /\ ~broken /\ unread < SocketRoom
    /\ wire' = Append(wire, [curr EXCEPT !.offset = @ + 1])
    /\ unread' = unread + 1
    /\ Goto(t, "wrote")
    /\ UNCHANGED <<incoming, arrived, broken, sendVars, flagVars, mapVars, endVars, call>>

Advance(t) ==
    /\ pc[t] = "wrote"
    /\ curr' = IF curr.offset + 1 = PackageLen THEN Nobody
               ELSE [curr EXCEPT !.offset = @ + 1]
    /\ Goto(t, "send")
    /\ UNCHANGED <<queue, token, sentBytes, stopAppend, encrypted, pushed,
                   flagVars, mapVars, netVars, endVars, call>>

WriteRefused(t) ==
    /\ pc[t] = "send" /\ curr # Nobody
    /\ \/ broken /\ Local(t, [call[t] EXCEPT !.err = TRUE])
       \/ unread = SocketRoom /\ Local(t, [call[t] EXCEPT !.need = TRUE])
    /\ Goto(t, "again")
    /\ UNCHANGED <<sendVars, flagVars, mapVars, netVars, endVars>>

StopSending(t) ==
    /\ pc[t] = "again"
    /\ ReturnToken(t)
    /\ UNCHANGED <<queue, curr, stopAppend, encrypted, pushed,
                   flagVars, mapVars, netVars, endVars, call>>

(* TCPServerConnection::send, after SendBuffer::send returned: whoever     *)
(* sent the last of a disposable connection has it closed by the I/O       *)
(* thread that gets the next event.                                        *)
AfterSend(t) ==
    /\ pc[t] = "sent"
    /\ LET last == disposable /\ call[t].actual /\ ~call[t].err /\ ~call[t].need
       IN  /\ requireClose' = (requireClose \/ last)
           /\ Local(t, [call[t] EXCEPT !.need = @ \/ last])
    /\ Goto(t, IF t \in Senders THEN "wait" ELSE "runEnd")
    /\ UNCHANGED <<sendVars, disposable, needSend, needRecv, recvToken, received,
                   mapVars, netVars, endVars>>

-----------------------------------------------------------------------------
(* Threads that send through the ConnectionMap hold its lock throughout.   *)

Locked(s) ==
    /\ pc[s] = "idle" /\ lock = Nobody
    /\ inMap
    /\ lock' = s
    /\ UNCHANGED <<inMap, connecting, joined, armed, event, refCount, tasks>>

Send(s) ==
    /\ Locked(s)
    /\ \/ jobs > 0 /\ jobs' = jobs - 1 /\ UNCHANGED pushes
       \/ pushes < MaxPushes /\ pushes' = pushes + 1 /\ UNCHANGED jobs
    /\ IF stopAppend THEN UNCHANGED <<queue, pushed>> ELSE Queue
    /\ TakeToken(s, NoCall)
    /\ UNCHANGED <<curr, sentBytes, stopAppend, encrypted, flagVars, netVars,
                   due, closing, closedBy>>

CloseAfterSent(s) ==
    /\ "afterSent" \in Closes /\ ~stopAppend      \* bound: once
    /\ Locked(s)
    /\ disposable' = TRUE /\ stopAppend' = TRUE /\ due' = pushed
    /\ TakeToken(s, NoCall)
    /\ UNCHANGED <<queue, curr, sentBytes, encrypted, pushed, requireClose, needSend,
                   needRecv, recvToken, received, netVars,
                   jobs, pushes, closing, closedBy>>

(* waitForAllEvents and waitForRecvEvent choose the events ...             *)
WaitFor(need) ==
    {"HUP"} \cup (IF need THEN {"OUT"} ELSE {})
            \cup (IF disposable THEN {} ELSE {"IN"})

(* ... and EPOLL_CTL_MOD arms the registration with them.                  *)
Modify(t) == armed' = IF joined THEN call[t].want ELSE armed

SenderWait(s) ==
    /\ s \in Senders /\ pc[s] = "wait" /\ call[s].need
    /\ Local(s, [call[s] EXCEPT !.want = WaitFor(TRUE)])
    /\ Goto(s, "modify")
    /\ UNCHANGED <<sendVars, flagVars, mapVars, netVars, endVars>>

SenderDone(s) ==
    /\ s \in Senders
    /\ \/ pc[s] = "wait" /\ ~call[s].need /\ UNCHANGED armed
       \/ pc[s] = "modify" /\ Modify(s)
    /\ lock' = Nobody
    /\ Finish(s)
    /\ UNCHANGED <<inMap, connecting, joined, event, refCount, tasks,
                   sendVars, flagVars, netVars, endVars>>

-----------------------------------------------------------------------------
(* TCPServerIOWorker::run.  call.late: the sendData after read, for        *)
(* additionalSend (call.more); call.need and call.err are needWaitSendEvent *)
(* and fdInvalid.                                                          *)

StartRun(w) ==
    /\ pc[w] = "idle" /\ tasks > 0
    /\ tasks' = tasks - 1
    /\ Goto(w, "run")
    /\ UNCHANGED <<lock, inMap, connecting, joined, armed, event, refCount,
                   sendVars, flagVars, netVars, endVars, call>>

CloseRun(w, by) == Goto(w, "close") /\ Local(w, [call[w] EXCEPT !.by = by])

RunRequireClose(w) ==
    /\ pc[w] = "run" /\ requireClose
    /\ CloseRun(w, "sent")
    /\ UNCHANGED <<sendVars, flagVars, mapVars, netVars, endVars>>

RunSend(w) ==
    /\ pc[w] = "run" /\ ~requireClose /\ needSend
    /\ TakeToken(w, call[w])
    /\ UNCHANGED <<queue, curr, sentBytes, stopAppend, encrypted, pushed,
                   flagVars, mapVars, netVars, endVars>>

Rearm(w) ==
    /\ Goto(w, "modify")
    /\ Local(w, [call[w] EXCEPT !.want = WaitFor(call[w].need)])
    /\ UNCHANGED recvToken

(* getToken(): if another thread is reading, this one does not.            *)
StartRead(w) ==
    /\ recvToken' = FALSE
    /\ Goto(w, IF recvToken THEN "read" ELSE "readEnd")
    /\ UNCHANGED call

ReadOrRearm(w) == IF needRecv THEN StartRead(w) ELSE Rearm(w)

RunReadOnly(w) ==
    /\ pc[w] = "run" /\ ~requireClose /\ ~needSend
    /\ ReadOrRearm(w)
    /\ UNCHANGED <<sendVars, disposable, requireClose, needSend, needRecv, received,
                   mapVars, netVars, endVars>>

(* The end of sendData, and what run goes on with.                         *)
RunSent(w) ==
    /\ pc[w] = "runEnd"
    /\ needSend' = FALSE
    /\ LET done == disposable /\ ~call[w].need /\ ~call[w].err
           shut == call[w].late /\ requireClose
       IN  CASE done \/ shut -> CloseRun(w, "sent") /\ UNCHANGED recvToken
             [] ~done /\ ~shut /\ call[w].err -> CloseRun(w, "error") /\ UNCHANGED recvToken
             [] OTHER -> IF call[w].late THEN Rearm(w) ELSE ReadOrRearm(w)
    /\ UNCHANGED <<sendVars, disposable, requireClose, needRecv, received,
                   mapVars, netVars, endVars>>

-----------------------------------------------------------------------------
(* TCPServerIOWorker::read: quests are read until the socket is empty and  *)
(* answered here ("ping", "key") or handed to the pool.                    *)

(* Mutant: the receive token is not returned.                              *)
EndReadKeepsToken(w, err) ==
    /\ Goto(w, "readEnd")
    /\ Local(w, [call[w] EXCEPT !.err = err])
    /\ UNCHANGED recvToken

EndRead(w, err) ==
    /\ recvToken' = TRUE
    /\ Goto(w, "readEnd")
    /\ Local(w, [call[w] EXCEPT !.err = err])

ReadQuest(w) ==
    /\ pc[w] = "read"
    /\ \/ /\ incoming = <<>>
          /\ EndRead(w, broken)
          /\ UNCHANGED <<incoming, received>>
       \/ /\ incoming # <<>>
          /\ incoming' = Tail(incoming)
          /\ IF Head(incoming) = "bad"       \* fetch fails: the token is kept
               THEN /\ Goto(w, "readEnd")
                    /\ Local(w, [call[w] EXCEPT !.err = TRUE])
                    /\ UNCHANGED received
               ELSE /\ Goto(w, "deliver")
                    /\ Local(w, [call[w] EXCEPT !.quest = Head(incoming)])
                    /\ received' = received + 1
          /\ UNCHANGED recvToken
    /\ UNCHANGED <<wire, unread, arrived, broken, sendVars, disposable, requireClose,
                   needSend, needRecv, mapVars, endVars>>

BuiltIn(quest) == quest \in {"ping", "key"}

(* What read does after a quest was delivered.                             *)
Delivered(w, dispose) ==
    LET rec == [call[w] EXCEPT !.more = @ \/ BuiltIn(call[w].quest), !.quest = "none"]
    IN  IF call[w].quest = "http" /\ dispose
          THEN recvToken' = TRUE /\ Goto(w, "readEnd") /\ Local(w, rec)
          ELSE Goto(w, "read") /\ Local(w, rec) /\ UNCHANGED recvToken

Answer(w) == Goto(w, "check") /\ UNCHANGED <<call, recvToken>>

DeliverPing(w) ==
    /\ pc[w] = "deliver" /\ call[w].quest = "ping"
    /\ Answer(w)
    /\ UNCHANGED <<sendVars, disposable, requireClose, needSend, needRecv, received,
                   mapVars, netVars, endVars>>

(* entryEncryptMode: only with the first quest, and before anything of the *)
(* connection was sent or is being sent.                                   *)
(* Mutant: the token is not looked at.                                     *)
MayEncryptWhileSending == received <= 1 /\ ~encrypted /\ sentBytes = 0

MayEncrypt == received <= 1 /\ ~encrypted /\ sentBytes = 0 /\ token

DeliverKey(w) ==
    /\ pc[w] = "deliver" /\ call[w].quest = "key"
    /\ encrypted' = (encrypted \/ MayEncrypt)
    /\ IF MayEncrypt THEN Answer(w) ELSE EndRead(w, TRUE)
    /\ UNCHANGED <<queue, curr, token, sentBytes, stopAppend, pushed,
                   disposable, requireClose, needSend, needRecv, received,
                   mapVars, netVars, endVars>>

DeliverQuest(w) ==
    /\ pc[w] = "deliver" /\ call[w].quest \in {"user", "http"}
    /\ disposable' = (disposable \/ (call[w].quest = "http" /\ CloseAfterAnswered))
    /\ \/ jobs' = jobs + 1 /\ Delivered(w, disposable')
       \/ PoolMayFill /\ Answer(w) /\ UNCHANGED jobs
    /\ UNCHANGED <<sendVars, requireClose, needSend, needRecv, received,
                   mapVars, netVars, pushes, due, closing, closedBy>>

(* appendData: _stopAppendData is read before the mutex is taken.          *)
CheckAppend(w) ==
    /\ pc[w] = "check"
    /\ IF stopAppend THEN Delivered(w, disposable)
       ELSE Goto(w, "append") /\ UNCHANGED <<call, recvToken>>
    /\ UNCHANGED <<sendVars, disposable, requireClose, needSend, needRecv, received,
                   mapVars, netVars, endVars>>

AppendAnswer(w) ==
    /\ pc[w] = "append"
    /\ Queue
    /\ Delivered(w, disposable)
    /\ UNCHANGED <<curr, token, sentBytes, stopAppend, encrypted, disposable,
                   requireClose, needSend, needRecv, received, mapVars, netVars, endVars>>

(* Back in run.                                                            *)
AfterRead(w) ==
    /\ pc[w] = "readEnd"
    /\ needRecv' = FALSE
    /\ LET send == call[w].more /\ ~call[w].err /\ ~call[w].need
       IN  CASE send -> /\ TakeToken(w, [call[w] EXCEPT !.late = TRUE])
                        /\ UNCHANGED recvToken
             [] ~send /\ requireClose ->
                    CloseRun(w, "sent") /\ UNCHANGED <<token, recvToken>>
             [] ~send /\ ~requireClose /\ call[w].err ->
                    CloseRun(w, "error") /\ UNCHANGED <<token, recvToken>>
             [] OTHER -> Rearm(w) /\ UNCHANGED token
    /\ UNCHANGED <<queue, curr, sentBytes, stopAppend, encrypted, pushed, disposable,
                   requireClose, needSend, received, mapVars, netVars, endVars>>

RunDone(w) ==
    /\ w \in Workers /\ pc[w] = "modify"
    /\ Modify(w)
    /\ IF joined THEN refCount' = refCount - 1 /\ Finish(w)
       ELSE CloseRun(w, "error") /\ UNCHANGED refCount
    /\ UNCHANGED <<lock, inMap, connecting, joined, event, tasks,
                   sendVars, flagVars, netVars, endVars>>

-----------------------------------------------------------------------------
(* Closing.  Whoever takes the connection out of the map closes it.        *)

(* Mutant: a connection that is gone is taken again.                       *)
TakenTwice == lock = Nobody /\ inMap' = FALSE

Taken == lock = Nobody /\ inMap /\ inMap' = FALSE

(* Mutant: a run that finds the connection closed keeps its reference.     *)
NotMineKept(w) ==
    /\ lock = Nobody /\ ~inMap
    /\ Finish(w)
    /\ UNCHANGED <<refCount, inMap>>

(* Another thread closed it: the run only gives its reference back.        *)
NotMine(w) ==
    /\ lock = Nobody /\ ~inMap
    /\ refCount' = refCount - 1
    /\ Finish(w)
    /\ UNCHANGED inMap

RunClose(w) ==
    /\ pc[w] = "close"
    /\ \/ Taken /\ Goto(w, "exit") /\ UNCHANGED <<refCount, call>>
       \/ NotMine(w)
    /\ UNCHANGED <<lock, connecting, joined, armed, event, tasks,
                   sendVars, flagVars, netVars, endVars>>

CloseConnection(s) ==
    /\ "now" \in Closes /\ (connecting => "early" \in Closes)
    /\ pc[s] = "idle" /\ Taken
    /\ Goto(s, "exit") /\ Local(s, [NoCall EXCEPT !.by = "call"])
    /\ UNCHANGED <<lock, connecting, joined, armed, event, refCount, tasks,
                   sendVars, flagVars, netVars, endVars>>

(* Mutant: a thread without a reference gives one back.                    *)
ReferencesLess(t) == refCount - 1

ReferencesWithout(t) == IF t \in Workers THEN refCount - 1 ELSE refCount

ExitEpoll(t) ==
    /\ pc[t] = "exit"
    /\ joined' = FALSE /\ armed' = IF joined THEN {} ELSE armed
    /\ refCount' = ReferencesWithout(t)
    /\ closing' = "posted" /\ closedBy' = call[t].by
    /\ Finish(t)
    /\ UNCHANGED <<lock, inMap, connecting, event, tasks,
                   sendVars, flagVars, netVars, jobs, pushes, due>>

(* The timeout check does not take the socket out of epoll.                *)
IdleTimeout ==
    /\ "idle" \in Closes /\ (connecting => "early" \in Closes)
    /\ Taken
    /\ closing' = "posted" /\ closedBy' = "call"
    /\ UNCHANGED <<lock, connecting, joined, armed, event, refCount, tasks, pc, call,
                   sendVars, flagVars, netVars, jobs, pushes, due>>

(* connectionWillClose, then the reclaimer gets it ...                     *)
CloseEvent ==
    /\ closing = "posted"
    /\ closing' = "reclaim"
    /\ UNCHANGED <<sendVars, flagVars, mapVars, netVars, jobs, pushes, due, closedBy,
                   pc, call>>

(* Mutant: only the queued runs count.                                     *)
NotQueued == tasks = 0

Unreferenced == refCount = 0

(* ... and deletes it, which closes the socket.                            *)
Reclaim ==
    /\ closing = "reclaim" /\ Unreferenced
    /\ closing' = "released"
    /\ joined' = FALSE /\ armed' = {}
    /\ UNCHANGED <<lock, inMap, connecting, event, refCount, tasks,
                   sendVars, flagVars, netVars, jobs, pushes, due, closedBy, pc, call>>

-----------------------------------------------------------------------------
(* The connected event, the epoll thread, and the peer.                    *)

JoinEpoll ==
    /\ connecting
    /\ connecting' = FALSE /\ joined' = TRUE /\ armed' = {"IN", "HUP"}
    /\ UNCHANGED <<lock, inMap, event, refCount, tasks, pc, call,
                   sendVars, flagVars, netVars, endVars>>

Ready ==
    armed \cap ((IF incoming # <<>> THEN {"IN"} ELSE {})
                \cup (IF unread < SocketRoom THEN {"OUT"} ELSE {})
                \cup (IF broken THEN {"HUP"} ELSE {}))

EpollWait ==
    /\ pc[Loop] = "idle" /\ event = {} /\ Ready # {}
    /\ event' = Ready /\ armed' = {}
    /\ UNCHANGED <<lock, inMap, connecting, joined, refCount, tasks, pc, call,
                   sendVars, flagVars, netVars, endVars>>

ProcessClose ==
    /\ pc[Loop] = "idle" /\ "HUP" \in event /\ lock = Nobody
    /\ event' = {} /\ inMap' = FALSE
    /\ IF inMap
         THEN Goto(Loop, "exit") /\ Local(Loop, [NoCall EXCEPT !.by = "peer"])
         ELSE UNCHANGED <<pc, call>>
    /\ UNCHANGED <<lock, connecting, joined, armed, refCount, tasks,
                   sendVars, flagVars, netVars, endVars>>

SignConnection ==
    /\ pc[Loop] = "idle" /\ event # {} /\ "HUP" \notin event /\ lock = Nobody
    /\ event' = {}
    /\ IF inMap
         THEN /\ needRecv' = (needRecv \/ "IN" \in event)
              /\ needSend' = (needSend \/ "OUT" \in event)
              /\ refCount' = refCount + 1 /\ tasks' = tasks + 1
         ELSE UNCHANGED <<needRecv, needSend, refCount, tasks>>
    /\ UNCHANGED <<lock, inMap, connecting, joined, armed, pc, call, sendVars,
                   disposable, requireClose, recvToken, received, netVars, endVars>>

PeerSend(quest) ==
    /\ arrived < MaxArrivals /\ ~broken /\ closing # "released"
    /\ incoming' = Append(incoming, quest) /\ arrived' = arrived + 1
    /\ UNCHANGED <<wire, unread, broken, sendVars, flagVars, mapVars, endVars, pc, call>>

PeerRead ==
    /\ unread > 0 /\ ~broken
    /\ unread' = unread - 1
    /\ UNCHANGED <<wire, incoming, arrived, broken, sendVars, flagVars, mapVars,
                   endVars, pc, call>>

PeerReset ==
    /\ MayBreak /\ ~broken /\ closing # "released"
    /\ broken' = TRUE
    /\ UNCHANGED <<wire, unread, incoming, arrived, sendVars, flagVars, mapVars,
                   endVars, pc, call>>

-----------------------------------------------------------------------------
RealSend(t) ==
    \/ NextBuffer(t) \/ Write(t) \/ Advance(t)
    \/ WriteRefused(t) \/ StopSending(t) \/ AfterSend(t)

Sender(s) ==
    RealSend(s) \/ SenderWait(s) \/ SenderDone(s) \/ ExitEpoll(s)

Worker(w) ==
    \/ RealSend(w) \/ StartRun(w) \/ RunRequireClose(w) \/ RunSend(w)
    \/ RunReadOnly(w) \/ RunSent(w) \/ ReadQuest(w) \/ DeliverPing(w)
    \/ DeliverKey(w) \/ DeliverQuest(w) \/ CheckAppend(w) \/ AppendAnswer(w)
    \/ AfterRead(w) \/ RunDone(w) \/ RunClose(w) \/ ExitEpoll(w)

EpollThread == EpollWait \/ ProcessClose \/ SignConnection \/ ExitEpoll(Loop)

Next ==
    \/ \E s \in Senders : Sender(s) \/ Send(s) \/ CloseAfterSent(s) \/ CloseConnection(s)
    \/ \E w \in Workers : Worker(w)
    \/ EpollThread \/ IdleTimeout \/ CloseEvent \/ Reclaim \/ JoinEpoll
    \/ \E quest \in Kinds : PeerSend(quest)
    \/ PeerRead \/ PeerReset

Spec == Init /\ [][Next]_vars

-----------------------------------------------------------------------------
(* Packages leave whole, once, and in the order of queueing, whichever     *)
(* threads write them: the send token (SendBuffer::send, realSend).        *)
InQueueOrder ==
    \A i \in DOMAIN wire :
        /\ wire[i].offset \in 1..PackageLen
        /\ i = (wire[i].pkg - 1) * PackageLen + wire[i].offset

(* Once the key exchange was accepted, nothing plain is or was sent, not   *)
(* even a package queued before it (SendBuffer::entryEncryptMode).         *)
EncryptedAsAgreed == \A i \in DOMAIN wire : wire[i].enc = encrypted

(* The I/O threads and queued runs that still use the connection keep the  *)
(* reclaimer from deleting it, and so does the sender that holds the lock. *)
NoUseAfterRelease ==
    closing = "released" =>
        /\ tasks = 0
        /\ \A t \in Threads : pc[t] = "idle"
        /\ ~connecting

(* Of all threads that find a reason to close the connection one does: the *)
(* one that takes it from the map; its event is posted once.               *)
ClosedOnce ==
    LET closers == {t \in Threads : pc[t] = "exit"}
    IN  /\ (inMap \/ closing # "open") => closers = {}
        /\ inMap => closing = "open"
        /\ Cardinality(closers) <= 1

(* closeConnectionAfterSent closes the connection after the data queued    *)
(* before it was sent: no I/O thread closes it sooner for that reason.     *)
ClosedAfterSent ==
    closedBy = "sent" => Len(wire) >= due * PackageLen
=============================================================================
