----------------------------- MODULE ClientCall -----------------------------
(***************************************************************************)
(* One TCPClient: user threads that connect, close, reconnect and send     *)
(* quests, the engine's epoll loop, the I/O threads, the timeout thread    *)
(* and the reclaimer, from ClientInterface.cpp, TCPClient.cpp,             *)
(* ClientEngine.epoll.cpp, ClientIOWorker.cpp, PartitionedConnectionMap    *)
(* and ConnectionReclaimer.h.  A step is what runs under one lock          *)
(* (Client::_mutex or a ConnectionMap's _mutex) or one system call.        *)
(*                                                                         *)
(* Connections are numbered in the order their sockets were opened.  A     *)
(* ConnectionInfo is told by its identity, as the code compares pointers:  *)
(* c is the info of connection c, -c the blank one that replaced it and 0  *)
(* the one the client was made with.  _connected equals "_connStatus is    *)
(* Connected" whenever _mutex is free, so status stands for both.          *)
(***************************************************************************)
EXTENDS Integers, FiniteSets

CONSTANTS
    Users,           \* threads that call the client's operations
    IOThreads,       \* threads of GlobalIOPool
    Loop,            \* ClientEngine::loopThread
    Timer,           \* ClientEngine::timeoutCheckThread
    Quests,          \* quests the users may send, each once
    SyncQuests,      \* those sent with the blocking sendQuest
    Fds,             \* descriptors the kernel may hand out
    MaxConns,        \* bound: sockets opened in a behaviour
    AutoReconnect,   \* _autoReconnect
    Encrypted        \* _eccCurve is set: connect exchanges keys

Conns == 1 .. MaxConns
Infos == -MaxConns .. MaxConns
KeyOf(c) == c                       \* the "*key" quest of connection c
Asks == Quests \cup Conns
Threads == Users \cup IOThreads \cup {Loop, Timer}

ASSUME ConnsAssumption == MaxConns \in Nat
ASSUME FlagsAssumption == {AutoReconnect, Encrypted} \subseteq BOOLEAN
ASSUME QuestsAssumption ==
    /\ SyncQuests \subseteq Quests
    /\ Quests \cap Conns = {}
    /\ Quests \cap {"none", "connect", "close", "reconnect"} = {}
\* TCPClient::connect takes the descriptor 0 for a failure.
ASSUME FdsAssumption == 0 \notin Fds
ASSUME ThreadsAssumption ==
    /\ Users \cap IOThreads = {}
    /\ Loop \notin Users \cup IOThreads
    /\ Timer \notin Users \cup IOThreads
    /\ Loop # Timer
    /\ IsFiniteSet(IOThreads)

VARIABLES
    status,     \* Client::_connStatus and _connected
    info,       \* Client::_connectionInfo
    pc,         \* where each thread is
    op,         \* the operation a user thread is in, or the quest it sends
    curr,       \* currConnInfo in a user thread's connect()
    conn,       \* the connection (info) a thread works on
    back,       \* where a thread goes when it has closed a connection
    made,       \* how many sockets were opened
    fd,         \* the descriptor of each connection
    slot,       \* ConnectionMap: the connection of each descriptor
    epoll,      \* each connection's registration: out, armed or fired
    event,      \* the event the loop fetched and has not processed
    hungup,     \* the peer closed the connection
    sent,       \* quests written to the connection's socket
    inbox,      \* answers that reached the connection's socket
    callbacks,  \* BasicConnection::_callbackMap
    refs,       \* BasicConnection::_refCount
    jobs,       \* runs of the connection queued in the I/O pool
    reading,    \* the answer an I/O thread decoded
    expired,    \* the callbacks the timeout thread extracted
    bin,        \* the connection's ClientCloseTask: none, waiting or dropped
    result,     \* what became of each quest
    served,     \* the quests the peer has answered
    mistaken    \* history: the loop took an event for one about a connection
                \* that joinEpoll had not finished with

clientVars == <<status, info>>
threadVars == <<pc, op, curr, conn, back>>
socketVars == <<made, fd, hungup, inbox, served>>
engineVars == <<slot, epoll, event, refs, jobs>>
workVars == <<callbacks, sent, reading, expired, result>>
vars == <<clientVars, threadVars, socketVars, engineVars, workVars, bin>>

NoEvent == [fd |-> 0, kind |-> "none"]

Init ==
    /\ status = "NoConnected" /\ info = 0
    /\ pc = [t \in Threads |-> "idle"]
    /\ op = [u \in Users |-> "none"]
    /\ curr = [u \in Users |-> 0]
    /\ conn = [t \in Threads |-> 0]
    /\ back = [t \in Threads |-> "idle"]
    /\ made = 0
    /\ fd = [c \in Conns |-> 0]
    /\ hungup = [c \in Conns |-> FALSE]
    /\ inbox = [c \in Conns |-> {}]
    /\ served = {}
    /\ slot = [f \in Fds |-> 0]
    /\ epoll = [c \in Conns |-> "out"]
    /\ event = NoEvent
    /\ refs = [c \in Conns |-> 0]
    /\ jobs = [c \in Conns |-> 0]
    /\ callbacks = [c \in Conns |-> {}]
    /\ sent = [c \in Conns |-> {}]
    /\ reading = [w \in IOThreads |-> 0]
    /\ expired = {}
    /\ result = [q \in Asks |-> "idle"]
    /\ bin = [c \in Conns |-> "none"]
    /\ mistaken = FALSE

-----------------------------------------------------------------------------
\* The object of connection c exists, and so does its socket: it is deleted
\* with the last reference to its close task.
Alive(c) == c \in 1 .. made /\ bin[c] # "dropped"

Delete(c) ==
    /\ bin' = [bin EXCEPT ![c] = "dropped"]
    /\ fd' = [fd EXCEPT ![c] = 0]
    /\ hungup' = [hungup EXCEPT ![c] = FALSE]
    /\ inbox' = [inbox EXCEPT ![c] = {}]
    /\ callbacks' = [callbacks EXCEPT ![c] = {}]
    /\ sent' = [sent EXCEPT ![c] = {}]

Mapped(c) == c \in Conns /\ \E f \in Fds : fd[c] = f /\ slot[f] = c
Goto(t, place) == pc' = [pc EXCEPT ![t] = place]
Free(f) == \A c \in Conns : fd[c] # f
Take(f) == slot' = [slot EXCEPT ![f] = 0]
Answered(S, outcome) ==
    result' = [q \in Asks |-> IF q \in S THEN outcome ELSE result[q]]

Sending(u) == op[u] \in Quests
EndCall(u) == Goto(u, "idle") /\ op' = [op EXCEPT ![u] = "none"]

\* What a thread does after close() or a successful connect().
AfterClose(u) == IF op[u] = "close" THEN "return" ELSE "connect"
AfterConnect(u) == IF Sending(u) THEN "copy" ELSE "return"

-----------------------------------------------------------------------------
(* The operations of a user thread *)

Begin(u, operation, place) ==
    /\ pc[u] = "idle"
    /\ op' = [op EXCEPT ![u] = operation]
    /\ Goto(u, place)

Return(u) ==
    /\ pc[u] = "return"
    /\ EndCall(u)
    /\ UNCHANGED <<clientVars, curr, conn, back, socketVars, engineVars, workVars, bin>>

\* connect, close and reconnect first read _connected without the lock; one
\* that returns at once is left out, and a reconnect that finds nothing to
\* close is a connect.
CallConnect(u) ==
    /\ status # "Connected"
    /\ Begin(u, "connect", "connect")
    /\ UNCHANGED <<clientVars, curr, conn, back, socketVars, engineVars, workVars, bin>>

CallClose(u) ==
    /\ status = "Connected"
    /\ \E operation \in {"close", "reconnect"} : Begin(u, operation, "close")
    /\ UNCHANGED <<clientVars, curr, conn, back, socketVars, engineVars, workVars, bin>>

\* sendQuest, too, reads _connected without the lock: a client that is not
\* connected refuses the quest or reconnects first.
CallSend(u, q) ==
    /\ result[q] = "idle"
    /\ status = "Connected" \/ AutoReconnect
    /\ Begin(u, q, IF status = "Connected" THEN "copy" ELSE "enterClose")
    /\ result' = [result EXCEPT ![q] = "calling"]
    /\ UNCHANGED <<clientVars, curr, conn, back, socketVars, engineVars,
                   sent, callbacks, reading, expired, bin>>

RefuseSend(u, q) ==
    /\ pc[u] = "idle"
    /\ result[q] = "idle"
    /\ status # "Connected" /\ ~AutoReconnect
    /\ result' = [result EXCEPT ![q] = "refused"]
    /\ UNCHANGED <<clientVars, threadVars, socketVars, engineVars,
                   sent, callbacks, reading, expired, bin>>

\* The close() of the reconnect in sendQuest reads _connected again: it may
\* find, and close, the connection another sender has just made.
EnterClose(u) ==
    /\ pc[u] = "enterClose"
    /\ Goto(u, IF status = "Connected" THEN "close" ELSE "connect")
    /\ UNCHANGED <<clientVars, op, curr, conn, back, socketVars, engineVars, workVars, bin>>

CloseNothing(u) ==
    /\ pc[u] = "close" /\ status = "NoConnected"
    /\ Goto(u, AfterClose(u))
    /\ UNCHANGED <<clientVars, op, curr, conn, back, socketVars, engineVars, workVars, bin>>

CloseSwap(u) ==
    /\ pc[u] = "close" /\ status = "Connected"
    /\ conn' = [conn EXCEPT ![u] = info]
    /\ back' = [back EXCEPT ![u] = AfterClose(u)]
    /\ info' = -info
    /\ status' = "NoConnected"
    /\ Goto(u, "take")
    /\ UNCHANGED <<op, curr, socketVars, engineVars, workVars, bin>>

\* takeConnection(info): by descriptor and token.
TakeByInfo(u) ==
    /\ pc[u] = "take"
    /\ IF Mapped(conn[u])
       THEN /\ Take(fd[conn[u]])
            /\ Goto(u, "clear")
            /\ UNCHANGED <<conn, back>>
       ELSE /\ conn' = [conn EXCEPT ![u] = 0]
            /\ back' = [back EXCEPT ![u] = "idle"]
            /\ Goto(u, back[u])
            /\ UNCHANGED slot
    /\ UNCHANGED <<clientVars, op, curr, socketVars,
                   epoll, event, refs, jobs, workVars, bin>>

-----------------------------------------------------------------------------
(* TCPClient::connect *)

ConnectDone(u) ==
    /\ pc[u] = "connect" /\ status = "Connected"
    /\ Goto(u, AfterConnect(u))
    /\ UNCHANGED <<clientVars, op, curr, conn, back, socketVars, engineVars, workVars, bin>>

\* Mutant: no wait while another thread is connecting.
ConnectBeginAnyway(u) ==
    /\ pc[u] = "connect" /\ status # "Connected"
    /\ curr' = [curr EXCEPT ![u] = info]
    /\ status' = "Connecting"
    /\ Goto(u, "socket")
    /\ UNCHANGED <<info, op, conn, back, socketVars, engineVars, workVars, bin>>

ConnectBegin(u) ==
    /\ pc[u] = "connect" /\ status = "NoConnected"
    /\ curr' = [curr EXCEPT ![u] = info]
    /\ status' = "Connecting"
    /\ Goto(u, "socket")
    /\ UNCHANGED <<info, op, conn, back, socketVars, engineVars, workVars, bin>>

SocketConnect(u) ==
    /\ pc[u] = "socket"
    /\ made < MaxConns
    /\ \E f \in Fds :
          /\ Free(f)
          /\ fd' = [fd EXCEPT ![made + 1] = f]
    /\ made' = made + 1
    /\ conn' = [conn EXCEPT ![u] = made + 1]
    /\ Goto(u, "join")
    /\ UNCHANGED <<clientVars, op, curr, back, hungup, inbox, served,
                   engineVars, workVars, bin>>

SocketFails(u) ==
    /\ pc[u] = "socket"
    /\ Goto(u, "guard")
    /\ UNCHANGED <<clientVars, op, curr, conn, back, socketVars, engineVars, workVars, bin>>

\* perpareConnection without keys or SSL context: the connection is deleted.
PrepareFails(u) ==
    /\ pc[u] = "join" /\ Encrypted
    /\ Delete(conn[u])
    /\ conn' = [conn EXCEPT ![u] = 0]
    /\ Goto(u, "guard")
    /\ UNCHANGED <<clientVars, op, curr, back, made, served, engineVars,
                   reading, expired, result>>

\* joinEpoll: the result of the map's insert, which replaces nothing, is ignored.
JoinMap(u) ==
    /\ pc[u] = "join"
    /\ slot' = [slot EXCEPT ![fd[conn[u]]] = IF @ = 0 THEN conn[u] ELSE @]
    /\ Goto(u, "epollAdd")
    /\ UNCHANGED <<clientVars, op, curr, conn, back, socketVars,
                   epoll, event, refs, jobs, workVars, bin>>

EpollAdd(u) ==
    /\ pc[u] = "epollAdd"
    /\ epoll' = [epoll EXCEPT ![conn[u]] = "armed"]
    /\ Goto(u, IF Encrypted THEN "keySend" ELSE "install")
    /\ UNCHANGED <<clientVars, op, curr, conn, back, socketVars,
                   slot, event, refs, jobs, workVars, bin>>

\* Mutant: the connection stays in the map.
EpollAddFailsKept(u) ==
    /\ pc[u] = "epollAdd"
    /\ back' = [back EXCEPT ![u] = "guard"]
    /\ Goto(u, "reset")
    /\ UNCHANGED <<clientVars, op, curr, conn, socketVars, engineVars, workVars, bin>>

EpollAddFails(u) ==
    /\ pc[u] = "epollAdd"
    /\ Take(fd[conn[u]])
    /\ back' = [back EXCEPT ![u] = "guard"]
    /\ Goto(u, "reset")
    /\ UNCHANGED <<clientVars, op, curr, conn, socketVars,
                   epoll, event, refs, jobs, workVars, bin>>

\* Mutant: the connection is not looked up.
FoundAnyway(c) == c \in Conns
\* ConnectionMap::sendQuest finds the connection by descriptor and token ...
Found(c) == Mapped(c)

\* ... puts the callback in its map, and sends.  A full socket re-arms it.
Register(c, q) ==
    /\ callbacks' = [callbacks EXCEPT ![c] = @ \cup {q}]
    /\ sent' = [sent EXCEPT ![c] = @ \cup {q}]
    /\ result' = [result EXCEPT ![q] = "pending"]
    /\ epoll' \in {epoll, [epoll EXCEPT ![c] = IF @ = "fired" THEN "armed" ELSE @]}

KeySend(u) ==
    /\ pc[u] = "keySend"
    /\ LET c == conn[u] IN
       IF Found(c)
       THEN Register(c, KeyOf(c)) /\ Goto(u, "keyWait") /\ UNCHANGED back
       ELSE /\ back' = [back EXCEPT ![u] = "guard"]
            /\ Goto(u, "take")
            /\ result' = [result EXCEPT ![KeyOf(c)] = "refused"]
            /\ UNCHANGED <<callbacks, sent, epoll>>
    /\ UNCHANGED <<clientVars, op, curr, conn, socketVars,
                   slot, event, refs, jobs, reading, expired, bin>>

KeyAgreed(u) ==
    /\ pc[u] = "keyWait" /\ result[KeyOf(conn[u])] = "answer"
    /\ Goto(u, "install")
    /\ UNCHANGED <<clientVars, op, curr, conn, back, socketVars, engineVars, workVars, bin>>

\* No answer, or an answer that is an error.
KeyRefused(u) ==
    /\ pc[u] = "keyWait" /\ result[KeyOf(conn[u])] # "pending"
    /\ back' = [back EXCEPT ![u] = "guard"]
    /\ Goto(u, "take")
    /\ UNCHANGED <<clientVars, op, curr, conn, socketVars, engineVars, workVars, bin>>

\* The end of connect().  The branch the code calls impossible is "dupled".
Install(u) ==
    /\ pc[u] = "install"
    /\ IF info = curr[u]
       THEN /\ info' = conn[u]
            /\ status' = "Connected"
            /\ conn' = [conn EXCEPT ![u] = 0]
            /\ curr' = [curr EXCEPT ![u] = 0]
            /\ Goto(u, AfterConnect(u))
       ELSE Goto(u, "dupled") /\ UNCHANGED <<clientVars, conn, curr>>
    /\ UNCHANGED <<op, back, socketVars, engineVars, workVars, bin>>

\* Mutant: the status stays.
ReopenedNever(u) == status
Reopened(u) == IF info = curr[u] THEN "NoConnected" ELSE status

\* errorGuard: connect() failed, and a quest that needed it is refused.
Guard(u) ==
    /\ pc[u] = "guard"
    /\ status' = Reopened(u)
    /\ result' = IF Sending(u) THEN [result EXCEPT ![op[u]] = "refused"] ELSE result
    /\ curr' = [curr EXCEPT ![u] = 0]
    /\ EndCall(u)
    /\ UNCHANGED <<info, conn, back, socketVars, engineVars,
                   sent, callbacks, reading, expired, bin>>

-----------------------------------------------------------------------------
(* Client::sendQuest once connected *)

CopyInfo(u) ==
    /\ pc[u] = "copy"
    /\ conn' = [conn EXCEPT ![u] = info]
    /\ Goto(u, "send")
    /\ UNCHANGED <<clientVars, op, curr, back, socketVars, engineVars, workVars, bin>>

SendQuest(u) ==
    /\ pc[u] = "send"
    /\ LET c == conn[u] q == op[u] IN
       IF Found(c)
       THEN Register(c, q) /\ Goto(u, IF q \in SyncQuests THEN "wait" ELSE "return")
       ELSE /\ result' = [result EXCEPT ![q] = "refused"]
            /\ Goto(u, "return")
            /\ UNCHANGED <<callbacks, sent, epoll>>
    /\ conn' = [conn EXCEPT ![u] = 0]
    /\ UNCHANGED <<clientVars, op, curr, back, socketVars,
                   slot, event, refs, jobs, reading, expired, bin>>

TakeAnswer(u) ==
    /\ pc[u] = "wait" /\ result[op[u]] # "pending"
    /\ Goto(u, "return")
    /\ UNCHANGED <<clientVars, op, curr, conn, back, socketVars, engineVars, workVars, bin>>

-----------------------------------------------------------------------------
(* Closing a connection the thread took out of the map *)

\* Mutant: blocking calls are left waiting.
UnansweredButSynced(c) == callbacks[c] \ (SyncQuests \cup Conns)
Unanswered(c) == callbacks[c]

\* exitEpoll and clearConnectionQuestCallbacks: the callbacks that were still
\* there are settled; the map itself is left as it is, as in the code.
Clear(t) ==
    /\ pc[t] = "clear"
    /\ epoll' = [epoll EXCEPT ![conn[t]] = "out"]
    /\ Answered(Unanswered(conn[t]), "closed")
    /\ Goto(t, "reset")
    /\ UNCHANGED <<clientVars, op, curr, conn, back, socketVars,
                   slot, event, refs, jobs, sent, callbacks, reading, expired, bin>>

\* onErrorOrCloseEvent: forget the connection ...
Reset(t) ==
    /\ pc[t] = "reset"
    /\ IF info = conn[t]
       THEN info' = -info /\ status' = "NoConnected"
       ELSE UNCHANGED clientVars
    /\ Goto(t, "reclaim")
    /\ UNCHANGED <<op, curr, conn, back, socketVars, engineVars, workVars, bin>>

\* ... and only then give its close task to the reclaimer.
Reclaim(t) ==
    /\ pc[t] = "reclaim"
    /\ bin' = [bin EXCEPT ![conn[t]] = "waiting"]
    /\ conn' = [conn EXCEPT ![t] = 0]
    /\ back' = [back EXCEPT ![t] = "idle"]
    /\ Goto(t, back[t])
    /\ UNCHANGED <<clientVars, op, curr, socketVars, engineVars, workVars>>

\* Mutant: the reference count is not looked at.
ReleasableAlways(c) == TRUE
Releasable(c) == refs[c] = 0

\* reclaimer_thread drops what is releaseable; the callback pool, when it is
\* to run the task too, may keep it longer.
DropConnection(c) ==
    /\ bin[c] = "waiting" /\ Releasable(c)
    /\ Delete(c)
    /\ UNCHANGED <<clientVars, threadVars, made, served, engineVars,
                   reading, expired, result>>

-----------------------------------------------------------------------------
(* ClientEngine::loopThread *)

\* epoll_wait: a closed peer is told as HUP or RDHUP whatever else there is.
Fetch(c) ==
    /\ pc[Loop] = "idle"
    /\ epoll[c] = "armed"
    /\ hungup[c] \/ inbox[c] # {}
    /\ event' = [fd |-> fd[c], kind |-> IF hungup[c] THEN "hup" ELSE "in"]
    /\ epoll' = [epoll EXCEPT ![c] = "fired"]
    /\ Goto(Loop, "event")
    /\ UNCHANGED <<clientVars, op, curr, conn, back, socketVars,
                   slot, refs, jobs, workVars, bin>>

\* processEvent, HUP: whatever connection the descriptor names now is closed,
\* the one the event was about or a later one that has its descriptor.
ProcessHup ==
    /\ pc[Loop] = "event" /\ event.kind = "hup"
    /\ conn' = [conn EXCEPT ![Loop] = slot[event.fd]]
    /\ Take(event.fd)
    /\ event' = NoEvent
    /\ Goto(Loop, IF slot[event.fd] = 0 THEN "idle" ELSE "clear")
    /\ UNCHANGED <<clientVars, op, curr, back, socketVars,
                   epoll, refs, jobs, workVars, bin>>

\* processEvent, IN: signConnection, then the I/O pool.
ProcessIn ==
    /\ pc[Loop] = "event" /\ event.kind = "in"
    /\ LET c == slot[event.fd] IN
       IF c = 0
       THEN UNCHANGED <<refs, jobs>>
       ELSE /\ refs' = [refs EXCEPT ![c] = @ + 1]
            /\ jobs' = [jobs EXCEPT ![c] = @ + 1]
    /\ event' = NoEvent
    /\ Goto(Loop, "idle")
    /\ UNCHANGED <<clientVars, op, curr, conn, back, socketVars,
                   slot, epoll, workVars, bin>>

-----------------------------------------------------------------------------
(* TCPClientIOWorker::run *)

\* RecvBuffer::getToken: a thread that finds it taken reads nothing.
TokenTaken(c) == \E x \in IOThreads : conn[x] = c /\ pc[x] \in {"read", "fill"}

Run(w, c) ==
    /\ pc[w] = "idle" /\ jobs[c] > 0
    /\ jobs' = [jobs EXCEPT ![c] = @ - 1]
    /\ conn' = [conn EXCEPT ![w] = c]
    /\ Goto(w, IF TokenTaken(c) THEN "rearm" ELSE "read")
    /\ UNCHANGED <<clientVars, op, curr, back, socketVars,
                   slot, epoll, event, refs, workVars, bin>>

\* Mutant: the callback is found and left in the map.
FindCallback(c, q) == UNCHANGED callbacks
TakeCallback(c, q) == callbacks' = [callbacks EXCEPT ![c] = @ \ {q}]

\* An answer is read and decoded; dealAnswer takes its callback, by descriptor
\* and sequence number, or finds none.
Read(w) ==
    /\ pc[w] = "read"
    /\ \E q \in inbox[conn[w]] :
          /\ inbox' = [inbox EXCEPT ![conn[w]] = @ \ {q}]
          /\ LET c == slot[fd[conn[w]]] IN
             IF c # 0 /\ q \in callbacks[c]
             THEN /\ TakeCallback(c, q)
                  /\ reading' = [reading EXCEPT ![w] = q]
                  /\ Goto(w, "fill")
             ELSE UNCHANGED <<callbacks, reading, pc>>
    /\ UNCHANGED <<clientVars, op, curr, conn, back, made, fd, hungup, served,
                   engineVars, sent, expired, result, bin>>

\* The socket is read empty, or the peer's end is found.
ReadEnds(w) ==
    /\ pc[w] = "read" /\ inbox[conn[w]] = {}
    /\ Goto(w, IF hungup[conn[w]] THEN "drop" ELSE "rearm")
    /\ UNCHANGED <<clientVars, op, curr, conn, back, socketVars, engineVars, workVars, bin>>

Fill(w) ==
    /\ pc[w] = "fill"
    /\ result' = [result EXCEPT ![reading[w]] = "answer"]
    /\ reading' = [reading EXCEPT ![w] = 0]
    /\ Goto(w, "read")
    /\ UNCHANGED <<clientVars, op, curr, conn, back, socketVars, engineVars,
                   sent, callbacks, expired, bin>>

\* Mutants: the count is lowered twice, or not at all.
UnrefTwice(c) == refs' = [refs EXCEPT ![c] = @ - 2]
UnrefNever(c) == UNCHANGED refs
Unref(c) == refs' = [refs EXCEPT ![c] = @ - 1]

\* waitForRecvEvent succeeds: the run ends.
Rearm(w) ==
    /\ pc[w] = "rearm" /\ epoll[conn[w]] # "out"
    /\ epoll' = [epoll EXCEPT ![conn[w]] = "armed"]
    /\ Unref(conn[w])
    /\ conn' = [conn EXCEPT ![w] = 0]
    /\ Goto(w, "idle")
    /\ UNCHANGED <<clientVars, op, curr, back, socketVars,
                   slot, event, jobs, workVars, bin>>

RearmFails(w) ==
    /\ pc[w] = "rearm" /\ epoll[conn[w]] = "out"
    /\ Goto(w, "drop")
    /\ UNCHANGED <<clientVars, op, curr, conn, back, socketVars, engineVars, workVars, bin>>

\* Mutant: what takeConnection returned is not compared with NULL.
LostRaceNever(c) == FALSE
LostRace(c) == slot[fd[c]] = 0

\* closeConnection: taken by descriptor, and closed without a look at what
\* the map returned.
Drop(w) ==
    /\ pc[w] = "drop"
    /\ Unref(conn[w])
    /\ Take(fd[conn[w]])
    /\ IF LostRace(conn[w])
       THEN Goto(w, "idle") /\ conn' = [conn EXCEPT ![w] = 0]
       ELSE Goto(w, "clear") /\ UNCHANGED conn
    /\ UNCHANGED <<clientVars, op, curr, back, socketVars,
                   epoll, event, jobs, workVars, bin>>

-----------------------------------------------------------------------------
(* ClientEngine::timeoutCheckThread *)

\* extractTimeoutedCallback: of a connection in the map, those whose time passed.
Expire(c, S) ==
    /\ pc[Timer] \in {"idle", "expire"}
    /\ Mapped(c)
    /\ S # {}
    /\ callbacks' = [callbacks EXCEPT ![c] = @ \ S]
    /\ expired' = expired \cup S
    /\ Goto(Timer, "expire")
    /\ UNCHANGED <<clientVars, op, curr, conn, back, socketVars, engineVars,
                   sent, reading, result, bin>>

ExpireFill ==
    /\ pc[Timer] = "expire"
    /\ Answered(expired, "timeout")
    /\ expired' = {}
    /\ Goto(Timer, "idle")
    /\ UNCHANGED <<clientVars, op, curr, conn, back, socketVars, engineVars,
                   sent, callbacks, reading, bin>>

\* TCPClientKeepAlive: a connection from which nothing came for too long, so
\* one that joinEpoll finished with.
KeepAliveLost(c) ==
    /\ pc[Timer] = "idle"
    /\ Mapped(c) /\ epoll[c] # "out"
    /\ Take(fd[c])
    /\ conn' = [conn EXCEPT ![Timer] = c]
    /\ Goto(Timer, "clear")
    /\ UNCHANGED <<clientVars, op, curr, back, socketVars,
                   epoll, event, refs, jobs, workVars, bin>>

\* ... and one that needs a ping: it is counted, the lock is released and
\* taken again to send, whether or not the map still has the connection.  The
\* ping's own callback, and that it may fill the socket, are left out.
PingPick(c) ==
    /\ pc[Timer] = "idle"
    /\ Mapped(c) /\ epoll[c] # "out"
    /\ refs' = [refs EXCEPT ![c] = @ + 1]
    /\ conn' = [conn EXCEPT ![Timer] = c]
    /\ Goto(Timer, "ping")
    /\ UNCHANGED <<clientVars, op, curr, back, socketVars,
                   slot, epoll, event, jobs, workVars, bin>>

PingSend ==
    /\ pc[Timer] = "ping"
    /\ Unref(conn[Timer])
    /\ conn' = [conn EXCEPT ![Timer] = 0]
    /\ Goto(Timer, "idle")
    /\ UNCHANGED <<clientVars, op, curr, back, socketVars,
                   slot, epoll, event, jobs, workVars, bin>>

-----------------------------------------------------------------------------
(* The peer *)

PeerAnswers(c, q) ==
    /\ Alive(c) /\ ~hungup[c]
    /\ q \in sent[c] \ served
    /\ inbox' = [inbox EXCEPT ![c] = @ \cup {q}]
    /\ served' = served \cup {q}
    /\ UNCHANGED <<clientVars, threadVars, made, fd, hungup, engineVars, workVars, bin>>

PeerCloses(c) ==
    /\ Alive(c) /\ ~hungup[c]
    /\ hungup' = [hungup EXCEPT ![c] = TRUE]
    /\ UNCHANGED <<clientVars, threadVars, made, fd, inbox, served, engineVars, workVars, bin>>

-----------------------------------------------------------------------------
UserStep(u) ==
    \/ EnterClose(u) \/ CloseNothing(u) \/ CloseSwap(u) \/ TakeByInfo(u)
    \/ ConnectDone(u) \/ ConnectBegin(u) \/ SocketConnect(u) \/ SocketFails(u)
    \/ PrepareFails(u) \/ JoinMap(u) \/ EpollAdd(u) \/ EpollAddFails(u)
    \/ KeySend(u) \/ KeyAgreed(u) \/ KeyRefused(u) \/ Install(u) \/ Guard(u)
    \/ CopyInfo(u) \/ SendQuest(u) \/ TakeAnswer(u) \/ Return(u)

UserCall(u) ==
    \/ CallConnect(u) \/ CallClose(u)
    \/ \E q \in Quests : CallSend(u, q) \/ RefuseSend(u, q)

CloseStep(t) == Clear(t) \/ Reset(t) \/ Reclaim(t)

LoopStep == (\E c \in Conns : Fetch(c)) \/ ProcessHup \/ ProcessIn

WorkerStep(w) ==
    \/ Read(w) \/ ReadEnds(w) \/ Fill(w)
    \/ Rearm(w) \/ RearmFails(w) \/ Drop(w)

TimerStep ==
    \/ \E c \in Conns : \E S \in SUBSET callbacks[c] : Expire(c, S)
    \/ ExpireFill \/ PingSend
    \/ \E c \in Conns : KeepAliveLost(c) \/ PingPick(c)

PeerStep ==
    \E c \in Conns : PeerCloses(c) \/ \E q \in Asks : PeerAnswers(c, q)

Step ==
    \/ \E u \in Users : UserCall(u) \/ UserStep(u)
    \/ \E t \in Threads : CloseStep(t)
    \/ \E c \in Conns : DropConnection(c)
    \/ LoopStep
    \/ \E w \in IOThreads : WorkerStep(w) \/ \E c \in Conns : Run(w, c)
    \/ TimerStep
    \/ PeerStep

\* The history variable.  Connection c was closed, deleted and its descriptor
\* given to a new one while an event about c waited for the loop.  Nothing but
\* the map and the connecting thread knows the new one before EPOLL_CTL_ADD,
\* but processEvent, which asks the map, finds it.
Mistake ==
    /\ pc[Loop] = "event" /\ pc'[Loop] # "event"
    /\ \E u \in Users : pc[u] = "epollAdd" /\ conn[u] = slot[event.fd]

Next == Step /\ mistaken' = (mistaken \/ Mistake)

Spec == Init /\ [][Next]_<<vars, mistaken>>

-----------------------------------------------------------------------------
(* Properties *)

(* Where each kind of thread may stand between two steps.                  *)
Closing == {"clear", "reset", "reclaim"}
ConnectPlaces == {"socket", "join", "epollAdd", "keySend", "keyWait", "install", "guard"}
UserPlaces == {"idle", "enterClose", "close", "take", "connect", "copy", "send",
               "wait", "return", "dupled"} \cup ConnectPlaces \cup Closing
WorkPlaces == {"idle", "read", "fill", "rearm", "drop"} \cup Closing
LoopPlaces == {"idle", "event"} \cup Closing
TimerPlaces == {"idle", "expire", "ping"} \cup Closing
Places == UserPlaces \cup WorkPlaces \cup LoopPlaces \cup TimerPlaces

TypeOK ==
    /\ status \in {"NoConnected", "Connecting", "Connected"}
    /\ info \in Infos
    /\ pc \in [Threads -> Places]
    /\ op \in [Users -> {"none", "connect", "close", "reconnect"} \cup Quests]
    /\ curr \in [Users -> Infos]
    /\ conn \in [Threads -> Infos]
    /\ back \in [Threads -> {"idle", "return", "connect", "guard"}]
    /\ made \in 0 .. MaxConns
    /\ fd \in [Conns -> Fds \cup {0}]
    /\ slot \in [Fds -> 0 .. MaxConns]
    /\ epoll \in [Conns -> {"out", "armed", "fired"}]
    /\ event \in [fd : Fds \cup {0}, kind : {"none", "in", "hup"}]
    /\ hungup \in [Conns -> BOOLEAN]
    /\ inbox \in [Conns -> SUBSET Asks]
    /\ sent \in [Conns -> SUBSET Asks]
    /\ callbacks \in [Conns -> SUBSET Asks]
    /\ refs \in [Conns -> Nat]
    /\ jobs \in [Conns -> Nat]
    /\ reading \in [IOThreads -> Asks \cup {0}]
    /\ expired \in SUBSET Asks
    /\ bin \in [Conns -> {"none", "waiting", "dropped"}]
    /\ result \in [Asks -> {"idle", "calling", "pending", "refused",
                            "answer", "timeout", "closed"}]
    /\ served \in SUBSET Asks
    /\ mistaken \in BOOLEAN

\* The branch of connect() whose log says "is impossible touched": a connect
\* never finds, after its socket calls and the key exchange, that another
\* close, connect or lost connection replaced _connectionInfo under it.
NeverDupled == \A u \in Users : pc[u] # "dupled"

Registered(q) ==
    \/ \E c \in Conns : /\ q \in callbacks[c]
                         /\ \/ Mapped(c)
                            \/ \E t \in Threads : pc[t] = "clear" /\ conn[t] = c
    \/ \E w \in IOThreads : pc[w] = "fill" /\ reading[w] = q
    \/ q \in expired

\* A callback whose quest is unsettled is always where somebody will find it:
\* in the map of a connection the engine still knows, or of one that is being
\* cleared, or in the hands of the thread that took it.  A quest that is sent
\* while the connection is being closed would otherwise never be called back.
NoOrphan == \A q \in Asks : result[q] = "pending" => Registered(q)

\* The peer's hang-up, an I/O thread's error, a lost keep-alive and a user's
\* close or failed key exchange may all fall on one connection: only one of
\* them closes it, so its callbacks are called and it is deleted once.  The one
\* way to two of them is an event taken for that of a joining connection.
TakenOnce == ~mistaken =>
    \A t \in Threads : pc[t] \in Closing =>
        /\ ~Mapped(conn[t]) /\ bin[conn[t]] = "none"
        /\ \A x \in Threads : conn[x] = conn[t] /\ pc[x] \in Closing => x = t

Holding == Closing \cup {"join", "epollAdd", "read", "fill", "rearm", "drop", "ping"}

\* No thread works on, and the map does not name, a connection the reclaimer
\* deleted; nor is one deleted whose run still waits in the I/O pool.  Again the
\* one way to it is an event taken for that of a joining connection.
NoUseAfterDelete == ~mistaken =>
    /\ \A t \in Threads : pc[t] \in Holding => Alive(conn[t])
    /\ \A c \in Conns : c \in {slot[f] : f \in Fds} \/ jobs[c] > 0 => Alive(c)

\* A connection that joins finds its descriptor free in the map, whose insert
\* would otherwise keep the old connection and say nothing (joinEpoll ignores
\* what it returns); and an I/O thread that closes its connection by
\* descriptor takes no other connection out.
DescriptorIsOwn ==
    /\ \A u \in Users : pc[u] = "join" => slot[fd[conn[u]]] = 0
    /\ \A w \in IOThreads : pc[w] \in Holding =>
          slot[fd[conn[w]]] \in {0, conn[w]}

\* What the client promises of every quest: it is refused, or called back
\* exactly once, with an answer only if the peer gave one.
Service == INSTANCE QuestService WITH
    Quests <- Asks,
    result <- [q \in Asks |-> IF result[q] = "calling" THEN "idle" ELSE result[q]]

ImplementsService == Service!Spec
=============================================================================
