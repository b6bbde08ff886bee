------------------------- MODULE ClientCall_proofs -------------------------
(***************************************************************************)
(* Proofs about the life of a client's connections: a connect is never     *)
(* overtaken, a connection is closed by one thread, and it is deleted only *)
(* when no thread, queued run or map entry names it.                       *)
(***************************************************************************)
EXTENDS ClientCall, FiniteSetTheorems, TLAPS

(* Where an I/O thread or the timeout thread has a counted reference.      *)
Counting == {"read", "fill", "rearm", "drop", "ping"}
Counters == IOThreads \cup {Timer}
Holders(c) == {t \in Counters : pc[t] \in Counting /\ conn[t] = c}

lifeVars == <<info, pc, conn, made, fd, slot, epoll, event, refs, jobs, bin>>

Typed ==
    /\ pc \in [Threads -> Places]
    /\ \A u \in Users : pc[u] \in UserPlaces
    /\ \A w \in IOThreads : pc[w] \in WorkPlaces
    /\ pc[Loop] \in LoopPlaces /\ pc[Timer] \in TimerPlaces
    /\ conn \in [Threads -> Infos]
    /\ info \in Infos
    /\ made \in 0 .. MaxConns
    /\ fd \in [Conns -> Fds \cup {0}]
    /\ slot \in [Fds -> 0 .. MaxConns]
    /\ epoll \in [Conns -> {"out", "armed", "fired"}]
    /\ event \in [fd : Fds \cup {0}, kind : {"none", "in", "hup"}]
    /\ refs \in [Conns -> Int]
    /\ jobs \in [Conns -> Nat]
    /\ bin \in [Conns -> {"none", "waiting", "dropped"}]
    /\ pc[Loop] = "event" => event.fd \in Fds

(* Open sockets have descriptors of their own.                             *)
Sockets ==
    /\ \A c \in Conns : fd[c] \in Fds <=> c <= made /\ bin[c] # "dropped"
    /\ \A c, d \in Conns : fd[c] = fd[d] /\ fd[c] \in Fds => c = d

(* Nothing is known of a connection before its socket is opened.           *)
Fresh ==
    /\ \A c \in Conns : c > made =>
          epoll[c] = "out" /\ refs[c] = 0 /\ jobs[c] = 0 /\ bin[c] = "none"
    /\ \A t \in Threads : conn[t] <= made
    /\ info <= made

InMap == \A f \in Fds : slot[f] # 0 => fd[slot[f]] = f /\ bin[slot[f]] = "none"

(* A thread that closes has the connection for itself, out of the map.     *)
Closers ==
    /\ \A t \in Threads : pc[t] \in Closing =>
          /\ conn[t] \in Conns
          /\ \A f \in Fds : slot[f] # conn[t]
          /\ bin[conn[t]] = "none"
          /\ pc[t] # "clear" => epoll[conn[t]] = "out"
    /\ \A t, x \in Threads :
          pc[t] \in Closing /\ pc[x] \in Closing /\ conn[t] = conn[x] => t = x

Binned ==
    \A c \in Conns :
        /\ bin[c] # "none" => epoll[c] = "out"
        /\ bin[c] = "dropped" => refs[c] = 0

(* Until EPOLL_CTL_ADD only the connecting thread knows the connection:    *)
(* nothing but the map names it.  (An event may name its descriptor.)      *)
Joining == {"join", "epollAdd"}

Unseen(u) ==
    /\ conn[u] \in Conns
    /\ bin[conn[u]] = "none" /\ epoll[conn[u]] = "out"
    /\ refs[conn[u]] = 0 /\ jobs[conn[u]] = 0
    /\ info # conn[u]
    /\ \A x \in Threads : conn[x] = conn[u] => x = u
    /\ pc[u] = "join" => \A f \in Fds : slot[f] # conn[u]

Joiners == \A u \in Users : pc[u] \in Joining => Unseen(u)

(* _refCount is the number of queued runs and of threads with a reference. *)
Counted ==
    /\ \A t \in Counters : pc[t] \in Counting => conn[t] \in Conns
    /\ \A c \in Conns : refs[c] = jobs[c] + Cardinality(Holders(c))

Life == Typed /\ Sockets /\ Fresh /\ InMap /\ Closers /\ Binned /\ Joiners /\ Counted

-----------------------------------------------------------------------------
LEMMA HoldersFinite ==
    ASSUME NEW c
    PROVE  IsFiniteSet(Holders(c)) /\ Cardinality(Holders(c)) \in Nat
<1>1. IsFiniteSet(Counters)
  BY ThreadsAssumption, FS_AddElement DEF Counters
<1>2. Holders(c) \subseteq Counters
  BY DEF Holders
<1>3. IsFiniteSet(Holders(c))
  BY <1>1, <1>2, FS_Subset
<1> QED
  BY <1>3, FS_CardinalityType

(* Counted survives a step that changes nobody's references.               *)
LEMMA HoldersSame ==
    ASSUME Counted, UNCHANGED <<refs, jobs>>,
           \A t \in Counters : /\ pc'[t] \in Counting <=> pc[t] \in Counting
                               /\ pc[t] \in Counting => conn'[t] = conn[t]
    PROVE  Counted'
<1>1. ASSUME NEW c PROVE Holders(c)' = Holders(c)
  BY DEF Holders
<1> QED
  BY <1>1 DEF Counted

LEMMA LifeSame ==
    ASSUME Life, UNCHANGED lifeVars
    PROVE  Life'
<1>1. Counted'
  BY HoldersSame DEF Life, lifeVars
<1>2. Typed' /\ Sockets' /\ Fresh' /\ InMap' /\ Closers' /\ Binned'
  BY DEF Life, Typed, Sockets, Fresh, InMap, Closers, Binned, lifeVars
<1>3. Joiners'
  BY DEF Life, Joiners, Unseen, lifeVars
<1> QED
  BY <1>1, <1>2, <1>3 DEF Life

(* Most steps of a user move it from one place to another and leave the    *)
(* connections alone.                                                      *)
Apart == UserPlaces \ (Joining \cup Closing)

LEMMA UserMove ==
    ASSUME Life, NEW u \in Users, pc[u] \in Apart,
           NEW p \in Apart, pc' = [pc EXCEPT ![u] = p],
           NEW x \in {conn[u], 0, info}, conn' = [conn EXCEPT ![u] = x],
           info' \in {info, conn[u]} \/ info' \in -MaxConns .. -1,
           epoll' \in [Conns -> {"out", "armed", "fired"}],
           \A c \in Conns : epoll'[c] = "out" <=> epoll[c] = "out",
           UNCHANGED <<made, fd, slot, event, refs, jobs, bin>>
    PROVE  Life'
<1> USE ConnsAssumption, ThreadsAssumption
<1>1. u \in Threads /\ u \notin Counters /\ u # Loop
  BY DEF Threads, Counters
<1>2. /\ \A t \in Threads : t # u => pc'[t] = pc[t] /\ conn'[t] = conn[t]
      /\ pc'[u] = p /\ conn'[u] = x
  BY <1>1 DEF Life, Typed
<1>3. x \in Infos /\ x <= made /\ info' \in Infos /\ info' <= made
  BY <1>1 DEF Life, Typed, Fresh, Infos
<1>4. Typed'
  BY <1>1, <1>2, <1>3 DEF Life, Typed, Apart, Places, Joining
<1>5. Sockets' /\ Fresh' /\ InMap' /\ Binned'
  BY <1>1, <1>2, <1>3 DEF Life, Typed, Sockets, Fresh, InMap, Binned
<1>6. Closers'
  BY <1>1, <1>2 DEF Life, Typed, Closers, Apart
<1>7. Joiners'
  <2> SUFFICES ASSUME NEW v \in Users, pc'[v] \in Joining
               PROVE  Unseen(v)'
    BY DEF Joiners
  <2>1. v # u /\ pc'[v] = pc[v] /\ conn'[v] = conn[v] /\ v \in Threads
    BY <1>2 DEF Apart, Threads
  <2>2. conn[u] # conn[v] /\ info # conn[v] /\ conn[v] \in Conns
    BY <1>1, <2>1 DEF Life, Joiners, Unseen
  <2>3. info' # conn[v] /\ x # conn[v]
    BY <2>2 DEF Conns
  <2> QED
    BY <1>2, <2>1, <2>2, <2>3 DEF Life, Joiners, Unseen
<1>8. Counted'
  BY <1>1, <1>2, HoldersSame DEF Life, Counters, Threads
<1> QED
  BY <1>4, <1>5, <1>6, <1>7, <1>8 DEF Life

LEMMA UserStay ==
    ASSUME Life, NEW u \in Users, pc[u] \in Apart, NEW p \in Apart, Goto(u, p),
           UNCHANGED <<info, conn, made, fd, slot, epoll, event, refs, jobs, bin>>
    PROVE  Life'
<1>1. u \in Threads
  BY DEF Threads
<1>2. conn' = [conn EXCEPT ![u] = conn[u]]
  BY <1>1 DEF Life, Typed
<1>3. epoll' \in [Conns -> {"out", "armed", "fired"}]
  BY DEF Life, Typed
<1> QED
  BY <1>2, <1>3, UserMove DEF Goto

LEMMA CallStep ==
    ASSUME Life, NEW u \in Users, UserCall(u)
    PROVE  Life'
<1>1. CASE CallConnect(u)
  BY <1>1, UserStay DEF CallConnect, Begin, Goto, Apart, UserPlaces, ConnectPlaces,
     Joining, Closing, clientVars, socketVars, engineVars
<1>2. CASE CallClose(u)
  BY <1>2, UserStay DEF CallClose, Begin, Goto, Apart, UserPlaces, ConnectPlaces,
     Joining, Closing, clientVars, socketVars, engineVars
<1>3. ASSUME NEW q \in Quests, CallSend(u, q) PROVE Life'
  BY <1>3, UserStay DEF CallSend, Begin, Goto, Apart, UserPlaces, ConnectPlaces,
     Joining, Closing, clientVars, socketVars, engineVars
<1>4. ASSUME NEW q \in Quests, RefuseSend(u, q) PROVE Life'
  BY <1>4, LifeSame DEF RefuseSend, lifeVars, clientVars, socketVars, engineVars, threadVars
<1> QED
  BY <1>1, <1>2, <1>3, <1>4 DEF UserCall

(* The steps of a user that leave the connections alone.                   *)
LEMMA QuietStep ==
    ASSUME Life, NEW u \in Users,
           \/ EnterClose(u) \/ CloseNothing(u) \/ ConnectDone(u) \/ ConnectBegin(u)
           \/ SocketFails(u) \/ KeyAgreed(u) \/ KeyRefused(u) \/ Guard(u)
           \/ TakeAnswer(u) \/ Return(u)
    PROVE  Life'
<1> USE DEF Goto, Apart, UserPlaces, ConnectPlaces, Joining, Closing, clientVars,
            socketVars, engineVars
<1>1. CASE EnterClose(u)
  BY <1>1, UserStay DEF EnterClose
<1>2. CASE CloseNothing(u)
  BY <1>2, UserStay DEF CloseNothing, AfterClose
<1>3. CASE ConnectDone(u)
  BY <1>3, UserStay DEF ConnectDone, AfterConnect
<1>4. CASE ConnectBegin(u)
  BY <1>4, UserStay DEF ConnectBegin
<1>5. CASE SocketFails(u)
  BY <1>5, UserStay DEF SocketFails
<1>6. CASE KeyAgreed(u)
  BY <1>6, UserStay DEF KeyAgreed
<1>7. CASE KeyRefused(u)
  BY <1>7, UserStay DEF KeyRefused
<1>8. CASE Guard(u)
  BY <1>8, UserStay DEF Guard, EndCall
<1>9. CASE TakeAnswer(u)
  BY <1>9, UserStay DEF TakeAnswer
<1>10. CASE Return(u)
  BY <1>10, UserStay DEF Return, EndCall
<1> QED
  BY <1>1, <1>2, <1>3, <1>4, <1>5, <1>6, <1>7, <1>8, <1>9, <1>10

LEMMA RegisterArms ==
    ASSUME Typed, NEW c, NEW q, Register(c, q)
    PROVE  /\ epoll' \in [Conns -> {"out", "armed", "fired"}]
           /\ \A d \in Conns : epoll'[d] = "out" <=> epoll[d] = "out"
  BY DEF Typed, Register

LEMMA SendStep ==
    ASSUME Life, NEW u \in Users, KeySend(u) \/ CopyInfo(u) \/ SendQuest(u)
    PROVE  Life'
<1> USE DEF Goto, Apart, UserPlaces, ConnectPlaces, Joining, Closing, clientVars,
            socketVars, engineVars
<1>1. u \in Threads
  BY DEF Threads
<1>2. /\ conn = [conn EXCEPT ![u] = conn[u]]
      /\ epoll \in [Conns -> {"out", "armed", "fired"}]
  BY <1>1 DEF Life, Typed
<1>3. CASE KeySend(u)
  <2>1. CASE Found(conn[u])
    BY <1>2, <1>3, <2>1, RegisterArms, UserMove DEF KeySend, Life
  <2>2. CASE ~Found(conn[u])
    BY <1>3, <2>2, UserStay DEF KeySend
  <2> QED
    BY <2>1, <2>2
<1>4. CASE CopyInfo(u)
  BY <1>2, <1>4, UserMove DEF CopyInfo
<1>5. CASE SendQuest(u)
  <2>1. CASE Found(conn[u])
    BY <1>2, <1>5, <2>1, RegisterArms, UserMove DEF SendQuest, Life
  <2>2. CASE ~Found(conn[u])
    BY <1>2, <1>5, <2>2, UserMove DEF SendQuest
  <2> QED
    BY <2>1, <2>2
<1> QED
  BY <1>3, <1>4, <1>5

(* A thread takes a connection that no user is joining out of the map.     *)
LEMMA TakesOut ==
    ASSUME Life, NEW t \in Threads, pc[t] \notin Joining \cup Closing,
           NEW f \in Fds, slot[f] # 0,
           \A u \in Users : pc[u] \in Joining => slot[f] # conn[u],
           slot' = [slot EXCEPT ![f] = 0],
           pc' = [pc EXCEPT ![t] = "clear"],
           conn' = [conn EXCEPT ![t] = slot[f]],
           event' = event \/ (t = Loop /\ event' = NoEvent),
           refs' \in [Conns -> Int],
           \A c \in Conns : refs[c] = 0 => refs'[c] = 0,
           Counted',
           UNCHANGED <<info, made, fd, epoll, jobs, bin>>
    PROVE  Life'
<1> USE ConnsAssumption, ThreadsAssumption, FdsAssumption
<1> DEFINE c == slot[f]
<1>1. /\ c \in Conns /\ c <= made /\ fd[c] = f /\ bin[c] = "none"
      /\ \A g \in Fds : slot[g] = c => g = f
  BY DEF Life, Typed, InMap, Sockets, Conns
<1>2. /\ \A x \in Threads : x # t => pc'[x] = pc[x] /\ conn'[x] = conn[x]
      /\ pc'[t] = "clear" /\ conn'[t] = c
  BY DEF Life, Typed
<1>3. /\ \A g \in Fds : g # f => slot'[g] = slot[g]
      /\ slot'[f] = 0
  BY DEF Life, Typed
<1> HIDE DEF c
<1>4. Typed'
  <2>1. "clear" \in UserPlaces \cap WorkPlaces \cap LoopPlaces \cap TimerPlaces \cap Places
    BY DEF Places, UserPlaces, WorkPlaces, LoopPlaces, TimerPlaces, Closing
  <2>2. /\ pc' \in [Threads -> Places]
        /\ \A u \in Users : pc'[u] \in UserPlaces
        /\ \A w \in IOThreads : pc'[w] \in WorkPlaces
        /\ pc'[Loop] \in LoopPlaces /\ pc'[Timer] \in TimerPlaces
    BY <1>2, <2>1 DEF Life, Typed, Threads
  <2>3. c \in Infos /\ 0 \in 0 .. MaxConns
    BY <1>1 DEF Infos, Conns
  <2>4. conn' \in [Threads -> Infos]
    BY <2>3 DEF Life, Typed, c
  <2>5. slot' \in [Fds -> 0 .. MaxConns]
    BY <2>3 DEF Life, Typed
  <2>6. event' \in [fd : Fds \cup {0}, kind : {"none", "in", "hup"}]
    BY DEF Life, Typed, NoEvent
  <2>7. pc'[Loop] = "event" => event'.fd \in Fds
    BY <1>2 DEF Life, Typed, Threads
  <2> QED
    BY <2>2, <2>4, <2>5, <2>6, <2>7 DEF Life, Typed
<1>5. Sockets' /\ Fresh' /\ Binned'
  BY <1>1, <1>2 DEF Life, Sockets, Fresh, Binned
<1>6. InMap'
  BY <1>3 DEF Life, InMap
<1>7. Closers'
  <2>1. ASSUME NEW x \in Threads, pc[x] \in Closing
        PROVE  conn[x] # c /\ x # t
    BY <2>1 DEF Life, Closers, c
  <2>2. ASSUME NEW x \in Threads, pc'[x] \in Closing
        PROVE  /\ conn'[x] \in Conns
               /\ \A g \in Fds : slot'[g] # conn'[x]
               /\ bin'[conn'[x]] = "none"
               /\ pc'[x] # "clear" => epoll'[conn'[x]] = "out"
    <3>1. CASE x = t
      BY <1>1, <1>2, <1>3, <3>1 DEF c, Conns
    <3>2. CASE x # t
      <4>1. pc[x] \in Closing /\ pc'[x] = pc[x] /\ conn'[x] = conn[x]
        BY <1>2, <2>2, <3>2
      <4> QED
        BY <1>3, <4>1 DEF Life, Closers, Conns
    <3> QED
      BY <3>1, <3>2
  <2>3. ASSUME NEW x \in Threads, NEW y \in Threads, pc'[x] \in Closing,
               pc'[y] \in Closing, conn'[x] = conn'[y]
        PROVE  x = y
    BY <1>2, <2>1, <2>3 DEF Life, Closers
  <2> QED
    BY <2>2, <2>3 DEF Closers
<1>8. Joiners'
  <2> SUFFICES ASSUME NEW v \in Users, pc'[v] \in Joining
               PROVE  Unseen(v)'
    BY DEF Joiners
  <2>1. v \in Threads /\ v # t /\ pc'[v] = pc[v] /\ conn'[v] = conn[v]
    BY <1>2 DEF Joining, Threads
  <2>2. Unseen(v) /\ conn[v] # c
    BY <2>1 DEF Life, Joiners, c
  <2>3. pc[v] = "join" => \A g \in Fds : slot'[g] # conn[v]
    BY <1>3, <2>2 DEF Unseen, Conns
  <2> QED
    BY <1>2, <2>1, <2>2, <2>3 DEF Unseen
<1> QED
  BY <1>4, <1>5, <1>6, <1>7, <1>8 DEF Life

-----------------------------------------------------------------------------
(* The steps of connect().                                                 *)

LEMMA SocketStep ==
    ASSUME Life, NEW u \in Users, SocketConnect(u)
    PROVE  Life'
<1> USE ConnsAssumption, ThreadsAssumption, FdsAssumption
<1> DEFINE c == made + 1
<1>1. PICK f \in Fds : Free(f) /\ fd' = [fd EXCEPT ![c] = f]
  BY DEF SocketConnect
<1>2. /\ pc[u] = "socket" /\ pc' = [pc EXCEPT ![u] = "join"]
      /\ conn' = [conn EXCEPT ![u] = c] /\ made' = c
      /\ UNCHANGED <<info, slot, epoll, event, refs, jobs, bin>>
  BY DEF SocketConnect, Goto, clientVars, engineVars
<1>3. c \in Conns /\ c > made /\ made \in Nat
  BY DEF SocketConnect, Life, Typed, Conns
<1>4. /\ epoll[c] = "out" /\ refs[c] = 0 /\ jobs[c] = 0 /\ bin[c] = "none"
      /\ fd[c] \notin Fds
      /\ \A t \in Threads : conn[t] # c
      /\ \A g \in Fds : slot[g] # c
      /\ info # c
  BY <1>3 DEF Life, Typed, Fresh, Sockets, InMap, Infos
<1>5. u \in Threads /\ u \notin Counters /\ u # Loop
  BY DEF Threads, Counters
<1>6. /\ \A x \in Threads : x # u => pc'[x] = pc[x] /\ conn'[x] = conn[x]
      /\ pc'[u] = "join" /\ conn'[u] = c
  BY <1>2, <1>5 DEF Life, Typed
<1>7. /\ \A d \in Conns : d # c => fd'[d] = fd[d]
      /\ fd'[c] = f
      /\ \A d \in Conns : fd[d] # f
  BY <1>1, <1>3 DEF Life, Typed, Free
<1>8. \A d \in Conns : d <= c <=> d <= made \/ d = c
  BY <1>3 DEF Conns
<1>9. \A x \in Infos : x <= made => x <= c
  BY <1>3 DEF Infos
<1> HIDE DEF c
<1>10. Typed'
  <2>1. "join" \in UserPlaces \cap Places
    BY DEF Places, UserPlaces, ConnectPlaces
  <2>2. /\ pc' \in [Threads -> Places]
        /\ \A v \in Users : pc'[v] \in UserPlaces
        /\ \A w \in IOThreads : pc'[w] \in WorkPlaces
        /\ pc'[Loop] \in LoopPlaces /\ pc'[Timer] \in TimerPlaces
    BY <1>2, <1>5, <1>6, <2>1 DEF Life, Typed, Threads
  <2>3. c \in Infos /\ c \in 0 .. MaxConns
    BY <1>3 DEF Infos, Conns
  <2>6. conn' \in [Threads -> Infos] /\ made' \in 0 .. MaxConns
    BY <1>2, <2>3 DEF Life, Typed
  <2>4. fd' \in [Conns -> Fds \cup {0}]
    BY <1>1 DEF Life, Typed
  <2>5. pc'[Loop] = "event" => event'.fd \in Fds
    BY <1>2, <1>5, <1>6 DEF Life, Typed, Threads
  <2> QED
    BY <1>2, <2>2, <2>4, <2>5, <2>6 DEF Life, Typed
<1>11. Sockets'
  BY <1>2, <1>3, <1>4, <1>7, <1>8 DEF Life, Sockets
<1>12. Fresh'
  <2>1. \A d \in Conns : d > c => d > made
    BY <1>3 DEF c, Conns
  <2>2. \A x \in Threads : conn'[x] <= made'
    BY <1>2, <1>3, <1>6, <1>9 DEF Life, Typed, Fresh, c
  <2>3. info' <= made'
    BY <1>2, <1>9 DEF Life, Typed, Fresh
  <2> QED
    BY <1>2, <2>1, <2>2, <2>3 DEF Life, Fresh
<1>13. InMap' /\ Binned'
  BY <1>2, <1>4, <1>7 DEF Life, Typed, InMap, Binned, Conns
<1>14. Closers'
  BY <1>2, <1>6 DEF Life, Closers, Closing
<1>15. Joiners'
  <2>1. Unseen(u)'
    BY <1>1, <1>2, <1>3, <1>4, <1>6, <1>7 DEF Unseen
  <2>2. ASSUME NEW v \in Users, v # u, pc'[v] \in Joining PROVE Unseen(v)'
    <3>1. v \in Threads /\ pc'[v] = pc[v] /\ conn'[v] = conn[v]
      BY <1>6, <2>2 DEF Threads
    <3>2. Unseen(v) /\ conn[v] # c
      BY <1>4, <2>2, <3>1 DEF Life, Joiners
    <3> QED
      BY <1>2, <1>6, <1>7, <3>1, <3>2 DEF Unseen
  <2> QED
    BY <2>1, <2>2 DEF Joiners
<1>16. Counted'
  BY <1>2, <1>5, <1>6, HoldersSame DEF Life, Counters, Threads
<1> QED
  BY <1>10, <1>11, <1>12, <1>13, <1>14, <1>15, <1>16 DEF Life

LEMMA PrepareStep ==
    ASSUME Life, NEW u \in Users, PrepareFails(u)
    PROVE  Life'
<1> USE ConnsAssumption, ThreadsAssumption, FdsAssumption
<1> DEFINE c == conn[u]
<1>1. /\ pc[u] = "join" /\ pc' = [pc EXCEPT ![u] = "guard"]
      /\ conn' = [conn EXCEPT ![u] = 0]
      /\ bin' = [bin EXCEPT ![c] = "dropped"] /\ fd' = [fd EXCEPT ![c] = 0]
      /\ UNCHANGED <<info, made, slot, epoll, event, refs, jobs>>
  BY DEF PrepareFails, Delete, Goto, clientVars, engineVars
<1>2. u \in Threads /\ u \notin Counters /\ u # Loop
  BY DEF Threads, Counters
<1>3. /\ c \in Conns /\ c <= made /\ bin[c] = "none" /\ epoll[c] = "out"
      /\ refs[c] = 0 /\ jobs[c] = 0
      /\ \A x \in Threads : conn[x] = c => x = u
      /\ \A f \in Fds : slot[f] # c
  BY <1>1, <1>2 DEF Life, Fresh, Joiners, Unseen, Joining
<1> HIDE DEF c
<1>4. /\ \A x \in Threads : x # u => pc'[x] = pc[x] /\ conn'[x] = conn[x]
      /\ pc'[u] = "guard" /\ conn'[u] = 0
  BY <1>1, <1>2 DEF Life, Typed
<1>5. /\ \A d \in Conns : d # c => fd'[d] = fd[d] /\ bin'[d] = bin[d]
      /\ fd'[c] = 0 /\ bin'[c] = "dropped"
  BY <1>1, <1>3 DEF Life, Typed
<1>6. Typed'
  <2>1. "guard" \in UserPlaces \cap Places /\ 0 \in Infos
    BY DEF Places, UserPlaces, ConnectPlaces, Infos
  <2>2. /\ pc' \in [Threads -> Places]
        /\ \A v \in Users : pc'[v] \in UserPlaces
        /\ \A w \in IOThreads : pc'[w] \in WorkPlaces
        /\ pc'[Loop] \in LoopPlaces /\ pc'[Timer] \in TimerPlaces
    BY <1>1, <1>2, <1>4, <2>1 DEF Life, Typed, Threads
  <2>3. conn' \in [Threads -> Infos]
    BY <1>1, <2>1 DEF Life, Typed
  <2>4. fd' \in [Conns -> Fds \cup {0}] /\ bin' \in [Conns -> {"none", "waiting", "dropped"}]
    BY <1>1 DEF Life, Typed
  <2>5. pc'[Loop] = "event" => event'.fd \in Fds
    BY <1>1, <1>2, <1>4 DEF Life, Typed, Threads
  <2> QED
    BY <1>1, <2>2, <2>3, <2>4, <2>5 DEF Life, Typed
<1>7. Sockets'
  BY <1>1, <1>3, <1>5 DEF Life, Sockets
<1>8. Fresh'
  BY <1>1, <1>3, <1>4, <1>5 DEF Life, Typed, Fresh, Conns
<1>9. InMap' /\ Binned'
  BY <1>1, <1>3, <1>5 DEF Life, Typed, InMap, Binned, Conns
<1>10. Closers'
  BY <1>1, <1>3, <1>4, <1>5 DEF Life, Closers, Closing
<1>11. Joiners'
  <2> SUFFICES ASSUME NEW v \in Users, pc'[v] \in Joining
               PROVE  Unseen(v)'
    BY DEF Joiners
  <2>1. v \in Threads /\ v # u /\ pc'[v] = pc[v] /\ conn'[v] = conn[v]
    BY <1>4 DEF Joining, Threads
  <2>2. Unseen(v) /\ conn[v] # c
    BY <1>3, <2>1 DEF Life, Joiners
  <2>3. conn'[u] # conn[v]
    BY <1>4, <2>2 DEF Unseen, Conns
  <2> QED
    BY <1>1, <1>2, <1>4, <1>5, <2>1, <2>2, <2>3 DEF Unseen
<1>12. Counted'
  BY <1>1, <1>2, <1>4, HoldersSame DEF Life, Counters, Threads
<1> QED
  BY <1>6, <1>7, <1>8, <1>9, <1>10, <1>11, <1>12 DEF Life

(* A user moves, with its connection in hand.                              *)
LEMMA JoinStep ==
    ASSUME Life, NEW u \in Users, JoinMap(u)
    PROVE  Life'
<1> USE ConnsAssumption, ThreadsAssumption, FdsAssumption
<1> DEFINE c == conn[u]
           f == fd[c]
<1>1. /\ pc[u] = "join" /\ pc' = [pc EXCEPT ![u] = "epollAdd"]
      /\ slot' = [slot EXCEPT ![f] = IF @ = 0 THEN c ELSE @]
      /\ UNCHANGED <<info, conn, made, fd, epoll, event, refs, jobs, bin>>
  BY DEF JoinMap, Goto, clientVars, socketVars
<1>2. u \in Threads /\ u \notin Counters /\ u # Loop
  BY DEF Threads, Counters
<1>3. c \in Conns /\ c <= made /\ bin[c] = "none" /\ f \in Fds /\ Unseen(u)
  BY <1>1, <1>2 DEF Life, Fresh, Joiners, Unseen, Joining, Sockets
<1>4. /\ \A x \in Threads : x # u => pc'[x] = pc[x]
      /\ pc'[u] = "epollAdd"
  BY <1>1, <1>2 DEF Life, Typed
<1>5. /\ \A g \in Fds : g # f => slot'[g] = slot[g]
      /\ slot'[f] \in {slot[f], c}
  BY <1>1, <1>3 DEF Life, Typed
<1>6. c \in 0 .. MaxConns /\ slot[f] \in 0 .. MaxConns
  BY <1>3 DEF Life, Typed, Conns
<1> HIDE DEF c, f
<1>7. Typed'
  <2>1. "epollAdd" \in UserPlaces \cap Places
    BY DEF Places, UserPlaces, ConnectPlaces
  <2>2. /\ pc' \in [Threads -> Places]
        /\ \A v \in Users : pc'[v] \in UserPlaces
        /\ \A w \in IOThreads : pc'[w] \in WorkPlaces
        /\ pc'[Loop] \in LoopPlaces /\ pc'[Timer] \in TimerPlaces
    BY <1>1, <1>2, <1>4, <2>1 DEF Life, Typed, Threads
  <2>3. slot' \in [Fds -> 0 .. MaxConns]
    BY <1>1, <1>3, <1>6 DEF Life, Typed
  <2>4. pc'[Loop] = "event" => event'.fd \in Fds
    BY <1>1, <1>2, <1>4 DEF Life, Typed, Threads
  <2> QED
    BY <1>1, <2>2, <2>3, <2>4 DEF Life, Typed
<1>8. Sockets' /\ Fresh' /\ Binned'
  BY <1>1 DEF Life, Sockets, Fresh, Binned
<1>9. InMap'
  BY <1>1, <1>3, <1>5 DEF Life, InMap, f
<1>10. Closers'
  <2>1. ASSUME NEW x \in Threads, pc'[x] \in Closing
        PROVE  x # u /\ pc[x] \in Closing /\ conn[x] # c
    BY <1>2, <1>3, <1>4, <2>1 DEF Unseen, Closing, c
  <2>2. ASSUME NEW x \in Threads, pc'[x] \in Closing
        PROVE  /\ conn'[x] \in Conns
               /\ \A g \in Fds : slot'[g] # conn'[x]
               /\ bin'[conn'[x]] = "none"
               /\ pc'[x] # "clear" => epoll'[conn'[x]] = "out"
    BY <1>1, <1>4, <1>5, <2>1, <2>2 DEF Life, Closers
  <2>3. ASSUME NEW x \in Threads, NEW y \in Threads, pc'[x] \in Closing,
               pc'[y] \in Closing, conn'[x] = conn'[y]
        PROVE  x = y
    BY <1>1, <2>1, <2>3 DEF Life, Closers
  <2> QED
    BY <2>2, <2>3 DEF Closers
<1>11. Joiners'
  <2> SUFFICES ASSUME NEW v \in Users, pc'[v] \in Joining
               PROVE  Unseen(v)'
    BY DEF Joiners
  <2>1. CASE v = u
    BY <1>1, <1>3, <1>4, <2>1 DEF Unseen
  <2>2. CASE v # u
    <3>1. v \in Threads /\ pc'[v] = pc[v]
      BY <1>4, <2>2 DEF Threads
    <3>2. Unseen(v) /\ conn[v] # c
      BY <1>2, <2>2, <3>1 DEF Life, Joiners, Unseen, c
    <3> QED
      BY <1>1, <1>5, <3>1, <3>2 DEF Unseen
  <2> QED
    BY <2>1, <2>2
<1>12. Counted'
  BY <1>1, <1>2, <1>4, HoldersSame DEF Life, Counters, Threads
<1> QED
  BY <1>7, <1>8, <1>9, <1>10, <1>11, <1>12 DEF Life

LEMMA AddStep ==
    ASSUME Life, NEW u \in Users, EpollAdd(u)
    PROVE  Life'
<1> USE ConnsAssumption, ThreadsAssumption, FdsAssumption
<1> DEFINE c == conn[u]
           p == IF Encrypted THEN "keySend" ELSE "install"
<1>1. /\ pc[u] = "epollAdd" /\ pc' = [pc EXCEPT ![u] = p]
      /\ epoll' = [epoll EXCEPT ![c] = "armed"]
      /\ UNCHANGED <<info, conn, made, fd, slot, event, refs, jobs, bin>>
  BY DEF EpollAdd, Goto, clientVars, socketVars
<1>2. u \in Threads /\ u \notin Counters /\ u # Loop
  BY DEF Threads, Counters
<1>3. c \in Conns /\ c <= made /\ bin[c] = "none" /\ Unseen(u)
  BY <1>1, <1>2 DEF Life, Fresh, Joiners, Unseen, Joining
<1>4. p \in UserPlaces \cap Places /\ p \notin Joining \cup Closing
  BY DEF Places, UserPlaces, ConnectPlaces, Joining, Closing
<1> HIDE DEF c, p
<1>5. /\ \A x \in Threads : x # u => pc'[x] = pc[x]
      /\ pc'[u] = p
  BY <1>1, <1>2 DEF Life, Typed
<1>6. /\ \A d \in Conns : d # c => epoll'[d] = epoll[d]
      /\ epoll'[c] = "armed"
  BY <1>1, <1>3 DEF Life, Typed
<1>7. Typed'
  <2>2. /\ pc' \in [Threads -> Places]
        /\ \A v \in Users : pc'[v] \in UserPlaces
        /\ \A w \in IOThreads : pc'[w] \in WorkPlaces
        /\ pc'[Loop] \in LoopPlaces /\ pc'[Timer] \in TimerPlaces
    BY <1>1, <1>2, <1>4, <1>5 DEF Life, Typed, Threads
  <2>3. epoll' \in [Conns -> {"out", "armed", "fired"}]
    BY <1>1 DEF Life, Typed
  <2>4. pc'[Loop] = "event" => event'.fd \in Fds
    BY <1>1, <1>2, <1>5 DEF Life, Typed, Threads
  <2> QED
    BY <1>1, <2>2, <2>3, <2>4 DEF Life, Typed
<1>8. Sockets' /\ InMap'
  BY <1>1 DEF Life, Sockets, InMap
<1>9. Fresh' /\ Binned'
  BY <1>1, <1>3, <1>6 DEF Life, Typed, Fresh, Binned, Conns
<1>10. Closers'
  <2>1. ASSUME NEW x \in Threads, pc'[x] \in Closing
        PROVE  x # u /\ pc[x] \in Closing /\ conn[x] # c
    BY <1>2, <1>3, <1>4, <1>5, <2>1 DEF Unseen, c
  <2> QED
    BY <1>1, <1>5, <1>6, <2>1 DEF Life, Closers
<1>11. Joiners'
  <2> SUFFICES ASSUME NEW v \in Users, pc'[v] \in Joining
               PROVE  Unseen(v)'
    BY DEF Joiners
  <2>1. v # u /\ v \in Threads /\ pc'[v] = pc[v]
    BY <1>4, <1>5 DEF Threads
  <2>2. Unseen(v) /\ conn[v] # c
    BY <1>2, <2>1 DEF Life, Joiners, Unseen, c
  <2> QED
    BY <1>1, <1>6, <2>1, <2>2 DEF Unseen
<1>12. Counted'
  BY <1>1, <1>2, <1>5, HoldersSame DEF Life, Counters, Threads
<1> QED
  BY <1>7, <1>8, <1>9, <1>10, <1>11, <1>12 DEF Life

LEMMA AddFailsStep ==
    ASSUME Life, NEW u \in Users, EpollAddFails(u)
    PROVE  Life'
<1> USE ConnsAssumption, ThreadsAssumption, FdsAssumption
<1> DEFINE c == conn[u]
           f == fd[c]
<1>1. /\ pc[u] = "epollAdd" /\ pc' = [pc EXCEPT ![u] = "reset"]
      /\ slot' = [slot EXCEPT ![f] = 0]
      /\ UNCHANGED <<info, conn, made, fd, epoll, event, refs, jobs, bin>>
  BY DEF EpollAddFails, Goto, Take, clientVars, socketVars
<1>2. u \in Threads /\ u \notin Counters /\ u # Loop
  BY DEF Threads, Counters
<1>3. /\ c \in Conns /\ c <= made /\ bin[c] = "none" /\ f \in Fds /\ Unseen(u)
      /\ epoll[c] = "out"
  BY <1>1, <1>2 DEF Life, Fresh, Joiners, Unseen, Joining, Sockets
<1>4. /\ \A x \in Threads : x # u => pc'[x] = pc[x]
      /\ pc'[u] = "reset"
  BY <1>1, <1>2 DEF Life, Typed
<1>5. /\ \A g \in Fds : g # f => slot'[g] = slot[g]
      /\ slot'[f] = 0
  BY <1>1, <1>3 DEF Life, Typed
<1>6. \A g \in Fds : slot[g] = c => g = f
  BY <1>3 DEF Life, InMap, Conns, f
<1> HIDE DEF c, f
<1>7. Typed'
  <2>1. "reset" \in UserPlaces \cap Places
    BY DEF Places, UserPlaces, Closing
  <2>2. /\ pc' \in [Threads -> Places]
        /\ \A v \in Users : pc'[v] \in UserPlaces
        /\ \A w \in IOThreads : pc'[w] \in WorkPlaces
        /\ pc'[Loop] \in LoopPlaces /\ pc'[Timer] \in TimerPlaces
    BY <1>1, <1>2, <1>4, <2>1 DEF Life, Typed, Threads
  <2>3. slot' \in [Fds -> 0 .. MaxConns]
    <3>1. 0 \in 0 .. MaxConns
      OBVIOUS
    <3> QED
      BY <1>1, <3>1 DEF Life, Typed
  <2>4. pc'[Loop] = "event" => event'.fd \in Fds
    BY <1>1, <1>2, <1>4 DEF Life, Typed, Threads
  <2> QED
    BY <1>1, <2>2, <2>3, <2>4 DEF Life, Typed
<1>8. Sockets' /\ Fresh' /\ Binned'
  BY <1>1 DEF Life, Sockets, Fresh, Binned
<1>9. InMap'
  BY <1>1, <1>5 DEF Life, InMap
<1>10. Closers'
  <2>1. ASSUME NEW x \in Threads, x # u, pc'[x] \in Closing
        PROVE  pc[x] \in Closing /\ conn[x] # c /\ conn[x] \in Conns
    BY <1>2, <1>3, <1>4, <2>1 DEF Life, Closers, Unseen, c
  <2>2. ASSUME NEW x \in Threads, pc'[x] \in Closing
        PROVE  /\ conn'[x] \in Conns
               /\ \A g \in Fds : slot'[g] # conn'[x]
               /\ bin'[conn'[x]] = "none"
               /\ pc'[x] # "clear" => epoll'[conn'[x]] = "out"
    <3>1. CASE x = u
      <4>1. conn'[x] = c
        BY <1>1, <3>1 DEF c
      <4>2. \A g \in Fds : slot'[g] # c
        BY <1>3, <1>5, <1>6 DEF Conns
      <4> QED
        BY <1>1, <1>3, <4>1, <4>2
    <3>2. CASE x # u
      <4>1. pc[x] \in Closing /\ conn[x] \in Conns /\ pc'[x] = pc[x]
        BY <1>4, <2>1, <2>2, <3>2
      <4>2. \A g \in Fds : slot'[g] # conn[x]
        BY <1>5, <4>1 DEF Life, Closers, Conns
      <4> QED
        BY <1>1, <4>1, <4>2 DEF Life, Closers
    <3> QED
      BY <3>1, <3>2
  <2>3. ASSUME NEW x \in Threads, NEW y \in Threads, pc'[x] \in Closing,
               pc'[y] \in Closing, conn'[x] = conn'[y]
        PROVE  x = y
    BY <1>1, <2>1, <2>3 DEF Life, Closers, c
  <2> QED
    BY <2>2, <2>3 DEF Closers
<1>11. Joiners'
  <2> SUFFICES ASSUME NEW v \in Users, pc'[v] \in Joining
               PROVE  Unseen(v)'
    BY DEF Joiners
  <2>1. v # u /\ v \in Threads /\ pc'[v] = pc[v]
    BY <1>4 DEF Threads, Joining
  <2>2. Unseen(v)
    BY <2>1 DEF Life, Joiners
  <2>3. pc[v] = "join" => \A g \in Fds : slot'[g] # conn[v]
    BY <1>5, <2>2 DEF Unseen, Conns
  <2> QED
    BY <1>1, <2>1, <2>2, <2>3 DEF Unseen
<1>12. Counted'
  BY <1>1, <1>2, <1>4, HoldersSame DEF Life, Counters, Threads
<1> QED
  BY <1>7, <1>8, <1>9, <1>10, <1>11, <1>12 DEF Life

LEMMA InstallStep ==
    ASSUME Life, NEW u \in Users, Install(u)
    PROVE  Life'
<1> USE DEF Goto, Apart, UserPlaces, ConnectPlaces, Joining, Closing, clientVars,
            socketVars, engineVars
<1>1. u \in Threads
  BY DEF Threads
<1>2. epoll \in [Conns -> {"out", "armed", "fired"}]
  BY DEF Life, Typed
<1>3. CASE info = curr[u]
  BY <1>1, <1>2, <1>3, UserMove DEF Install, AfterConnect
<1>4. CASE info # curr[u]
  BY <1>1, <1>2, <1>4, UserStay DEF Install
<1> QED
  BY <1>3, <1>4

LEMMA SwapStep ==
    ASSUME Life, NEW u \in Users, info \in Conns, CloseSwap(u)
    PROVE  Life'
<1> USE DEF Goto, Apart, UserPlaces, ConnectPlaces, Joining, Closing, clientVars,
            socketVars, engineVars
<1>1. info' \in -MaxConns .. -1
  BY ConnsAssumption DEF CloseSwap, Conns
<1>2. epoll \in [Conns -> {"out", "armed", "fired"}]
  BY DEF Life, Typed
<1> QED
  BY <1>1, <1>2, UserMove DEF CloseSwap

-----------------------------------------------------------------------------
(* Closing a connection.                                                   *)

LEMMA TakeStep ==
    ASSUME Life, NEW u \in Users, back[u] \in {"idle", "return", "connect", "guard"},
           TakeByInfo(u)
    PROVE  Life'
<1> USE ThreadsAssumption
<1>1. u \in Threads /\ u \notin Counters /\ pc[u] = "take"
  BY DEF Threads, Counters, TakeByInfo
<1>2. CASE Mapped(conn[u])
  <2>1. PICK f \in Fds : fd[conn[u]] = f /\ slot[f] = conn[u]
    BY <1>2 DEF Mapped
  <2>2. slot[f] # 0
    BY <1>2, <2>1, ConnsAssumption DEF Mapped, Conns
  <2>3. \A v \in Users : pc[v] \in Joining => slot[f] # conn[v]
    BY <1>1, <2>1 DEF Life, Joiners, Unseen, Joining
  <2>4. /\ slot' = [slot EXCEPT ![f] = 0] /\ pc' = [pc EXCEPT ![u] = "clear"]
        /\ UNCHANGED <<info, conn, made, fd, epoll, event, refs, jobs, bin>>
    BY <1>2, <2>1 DEF TakeByInfo, Take, Goto, clientVars, socketVars
  <2>5. conn' = [conn EXCEPT ![u] = slot[f]]
    BY <1>1, <2>1, <2>4 DEF Life, Typed
  <2>6. Counted'
    BY <1>1, <2>4, HoldersSame DEF Life, Typed, Counters, Threads
  <2>7. refs' \in [Conns -> Int] /\ \A d \in Conns : refs[d] = 0 => refs'[d] = 0
    BY <2>4 DEF Life, Typed
  <2> QED
    BY <1>1, <2>2, <2>3, <2>4, <2>5, <2>6, <2>7, TakesOut DEF Joining, Closing
<1>3. CASE ~Mapped(conn[u])
  <2>1. epoll \in [Conns -> {"out", "armed", "fired"}]
    BY DEF Life, Typed
  <2> QED
    BY <1>1, <1>3, <2>1, UserMove DEF TakeByInfo, Goto, Apart, UserPlaces, ConnectPlaces,
       Joining, Closing, clientVars, socketVars
<1> QED
  BY <1>2, <1>3

LEMMA ClearStep ==
    ASSUME Life, NEW t \in Threads, Clear(t)
    PROVE  Life'
<1> USE ConnsAssumption, ThreadsAssumption
<1> DEFINE c == conn[t]
<1>1. /\ pc[t] = "clear" /\ pc' = [pc EXCEPT ![t] = "reset"]
      /\ epoll' = [epoll EXCEPT ![c] = "out"]
      /\ UNCHANGED <<info, conn, made, fd, slot, event, refs, jobs, bin>>
  BY DEF Clear, Goto, clientVars, socketVars
<1>2. c \in Conns
  BY <1>1 DEF Life, Closers, Closing
<1> HIDE DEF c
<1>3. /\ \A x \in Threads : x # t => pc'[x] = pc[x]
      /\ pc'[t] = "reset"
  BY <1>1 DEF Life, Typed
<1>4. /\ \A d \in Conns : epoll'[d] \in {epoll[d], "out"}
      /\ epoll'[c] = "out"
  BY <1>1, <1>2 DEF Life, Typed
<1>5. Typed'
  <2>1. "reset" \in UserPlaces \cap WorkPlaces \cap LoopPlaces \cap TimerPlaces \cap Places
    BY DEF Places, UserPlaces, WorkPlaces, LoopPlaces, TimerPlaces, Closing
  <2>2. /\ pc' \in [Threads -> Places]
        /\ \A u \in Users : pc'[u] \in UserPlaces
        /\ \A w \in IOThreads : pc'[w] \in WorkPlaces
        /\ pc'[Loop] \in LoopPlaces /\ pc'[Timer] \in TimerPlaces
    BY <1>1, <1>3, <2>1 DEF Life, Typed, Threads
  <2>3. epoll' \in [Conns -> {"out", "armed", "fired"}]
    BY <1>1 DEF Life, Typed
  <2>4. pc'[Loop] = "event" => event'.fd \in Fds
    BY <1>1, <1>3 DEF Life, Typed, Threads
  <2> QED
    BY <1>1, <2>2, <2>3, <2>4 DEF Life, Typed
<1>6. Sockets' /\ Fresh' /\ InMap' /\ Binned'
  BY <1>1, <1>4 DEF Life, Sockets, Fresh, InMap, Binned
<1>7. Closers'
  <2>1. ASSUME NEW x \in Threads, pc'[x] \in Closing PROVE pc[x] \in Closing
    BY <1>1, <1>3, <2>1 DEF Closing
  <2> QED
    BY <1>1, <1>3, <1>4, <2>1 DEF Life, Closers, c
<1>8. Joiners'
  <2> SUFFICES ASSUME NEW v \in Users, pc'[v] \in Joining
               PROVE  Unseen(v)'
    BY DEF Joiners
  <2>1. v # t /\ v \in Threads /\ pc'[v] = pc[v]
    BY <1>3 DEF Threads, Joining
  <2>2. Unseen(v)
    BY <2>1 DEF Life, Joiners
  <2> QED
    BY <1>1, <1>4, <2>1, <2>2 DEF Unseen
<1>9. Counted'
  BY <1>1, <1>3, HoldersSame DEF Life, Counters, Threads, Counting
<1> QED
  BY <1>5, <1>6, <1>7, <1>8, <1>9 DEF Life

LEMMA ResetStep ==
    ASSUME Life, NEW t \in Threads, Reset(t)
    PROVE  Life'
<1> USE ConnsAssumption, ThreadsAssumption
<1> DEFINE c == conn[t]
<1>1. /\ pc[t] = "reset" /\ pc' = [pc EXCEPT ![t] = "reclaim"]
      /\ info' = info \/ (info = c /\ info' = -info)
      /\ UNCHANGED <<conn, made, fd, slot, epoll, event, refs, jobs, bin>>
  BY DEF Reset, Goto, clientVars, socketVars, engineVars
<1>2. c \in Conns
  BY <1>1 DEF Life, Closers, Closing
<1> HIDE DEF c
<1>3. info' = info \/ info' \in -MaxConns .. -1
  BY <1>1, <1>2 DEF Conns
<1>4. /\ \A x \in Threads : x # t => pc'[x] = pc[x]
      /\ pc'[t] = "reclaim"
  BY <1>1 DEF Life, Typed
<1>5. Typed'
  <2>1. "reclaim" \in UserPlaces \cap WorkPlaces \cap LoopPlaces \cap TimerPlaces \cap Places
    BY DEF Places, UserPlaces, WorkPlaces, LoopPlaces, TimerPlaces, Closing
  <2>2. /\ pc' \in [Threads -> Places]
        /\ \A u \in Users : pc'[u] \in UserPlaces
        /\ \A w \in IOThreads : pc'[w] \in WorkPlaces
        /\ pc'[Loop] \in LoopPlaces /\ pc'[Timer] \in TimerPlaces
    BY <1>1, <1>4, <2>1 DEF Life, Typed, Threads
  <2>3. info' \in Infos
    BY <1>3 DEF Life, Typed, Infos
  <2>4. pc'[Loop] = "event" => event'.fd \in Fds
    BY <1>1, <1>4 DEF Life, Typed, Threads
  <2> QED
    BY <1>1, <2>2, <2>3, <2>4 DEF Life, Typed
<1>6. Sockets' /\ InMap' /\ Binned'
  BY <1>1 DEF Life, Sockets, InMap, Binned
<1>7. Fresh'
  <2>1. info' <= made
    BY <1>3 DEF Life, Typed, Fresh
  <2> QED
    BY <1>1, <2>1 DEF Life, Fresh
<1>8. Closers'
  <2>1. ASSUME NEW x \in Threads, pc'[x] \in Closing
        PROVE  pc[x] \in Closing /\ (pc'[x] # "clear" => pc[x] # "clear")
    BY <1>1, <1>4, <2>1 DEF Closing
  <2> QED
    BY <1>1, <2>1 DEF Life, Closers
<1>9. Joiners'
  <2> SUFFICES ASSUME NEW v \in Users, pc'[v] \in Joining
               PROVE  Unseen(v)'
    BY DEF Joiners
  <2>1. v # t /\ v \in Threads /\ pc'[v] = pc[v]
    BY <1>4 DEF Threads, Joining
  <2>2. Unseen(v)
    BY <2>1 DEF Life, Joiners
  <2>3. info' # conn[v]
    BY <1>3, <2>2 DEF Unseen, Conns
  <2> QED
    BY <1>1, <2>1, <2>2, <2>3 DEF Unseen
<1>10. Counted'
  BY <1>1, <1>4, HoldersSame DEF Life, Counters, Threads, Counting
<1> QED
  BY <1>5, <1>6, <1>7, <1>8, <1>9, <1>10 DEF Life

(* A closing thread goes back to where it was called from.                 *)
Backs ==
    /\ \A t \in Threads : back[t] \in {"idle", "return", "connect", "guard"}
    /\ \A t \in Threads \ Users : back[t] = "idle"

LEMMA ReclaimStep ==
    ASSUME Life, Backs, NEW t \in Threads, Reclaim(t)
    PROVE  Life'
<1> USE ConnsAssumption, ThreadsAssumption
<1> DEFINE c == conn[t]
           p == back[t]
<1>1. /\ pc[t] = "reclaim" /\ pc' = [pc EXCEPT ![t] = p]
      /\ bin' = [bin EXCEPT ![c] = "waiting"] /\ conn' = [conn EXCEPT ![t] = 0]
      /\ UNCHANGED <<info, made, fd, slot, epoll, event, refs, jobs>>
  BY DEF Reclaim, Goto, clientVars, socketVars, engineVars
<1>2. /\ c \in Conns /\ bin[c] = "none" /\ epoll[c] = "out"
      /\ \A f \in Fds : slot[f] # c
      /\ \A x \in Threads : pc[x] \in Closing /\ conn[x] = c => x = t
  BY <1>1 DEF Life, Closers, Closing
<1>3. /\ p \notin Joining \cup Closing \cup Counting \cup {"event"}
      /\ p \in Places
      /\ t \in Users => p \in UserPlaces
      /\ t \notin Users => p \in WorkPlaces \cap LoopPlaces \cap TimerPlaces
  BY DEF Backs, Joining, Closing, Counting, Places, UserPlaces, WorkPlaces, LoopPlaces,
     TimerPlaces, ConnectPlaces
<1> HIDE DEF c, p
<1>4. /\ \A x \in Threads : x # t => pc'[x] = pc[x] /\ conn'[x] = conn[x]
      /\ pc'[t] = p /\ conn'[t] = 0
  BY <1>1 DEF Life, Typed
<1>5. /\ \A d \in Conns : d # c => bin'[d] = bin[d]
      /\ bin'[c] = "waiting"
  BY <1>1, <1>2 DEF Life, Typed
<1>6. Typed'
  <2>2. /\ pc' \in [Threads -> Places]
        /\ \A u \in Users : pc'[u] \in UserPlaces
        /\ \A w \in IOThreads : pc'[w] \in WorkPlaces
        /\ pc'[Loop] \in LoopPlaces /\ pc'[Timer] \in TimerPlaces
    BY <1>1, <1>3, <1>4 DEF Life, Typed, Threads
  <2>1. 0 \in Infos
    BY DEF Infos
  <2>3. conn' \in [Threads -> Infos] /\ bin' \in [Conns -> {"none", "waiting", "dropped"}]
    BY <1>1, <2>1 DEF Life, Typed
  <2>4. pc'[Loop] = "event" => event'.fd \in Fds
    BY <1>1, <1>3, <1>4 DEF Life, Typed, Threads
  <2> QED
    BY <1>1, <2>2, <2>3, <2>4 DEF Life, Typed
<1>7. Sockets' /\ InMap' /\ Binned'
  BY <1>1, <1>2, <1>5 DEF Life, Typed, Sockets, InMap, Binned, Conns
<1>8. Fresh'
  <2>1. c <= made
    BY <1>2 DEF Life, Fresh, c
  <2> QED
    BY <1>1, <1>2, <1>4, <1>5, <2>1 DEF Life, Typed, Fresh, Conns
<1>9. Closers'
  <2>1. ASSUME NEW x \in Threads, pc'[x] \in Closing
        PROVE  x # t /\ pc[x] \in Closing /\ conn[x] # c
    BY <1>2, <1>3, <1>4, <2>1
  <2> QED
    BY <1>1, <1>4, <1>5, <2>1 DEF Life, Closers
<1>10. Joiners'
  <2> SUFFICES ASSUME NEW v \in Users, pc'[v] \in Joining
               PROVE  Unseen(v)'
    BY DEF Joiners
  <2>1. v # t /\ v \in Threads /\ pc'[v] = pc[v] /\ conn'[v] = conn[v]
    BY <1>3, <1>4 DEF Threads
  <2>2. Unseen(v) /\ conn[v] # c /\ conn[v] # 0
    BY <2>1 DEF Life, Joiners, Unseen, c, Conns
  <2> QED
    BY <1>1, <1>4, <1>5, <2>1, <2>2 DEF Unseen
<1>11. Counted'
  BY <1>1, <1>3, <1>4, HoldersSame DEF Life, Counters, Threads, Counting, Closing
<1> QED
  BY <1>6, <1>7, <1>8, <1>9, <1>10, <1>11 DEF Life

LEMMA DropStep ==
    ASSUME Life, NEW c \in Conns, DropConnection(c)
    PROVE  Life'
<1> USE ConnsAssumption, ThreadsAssumption, FdsAssumption
<1>1. /\ bin[c] = "waiting" /\ refs[c] = 0
      /\ bin' = [bin EXCEPT ![c] = "dropped"] /\ fd' = [fd EXCEPT ![c] = 0]
      /\ UNCHANGED <<info, pc, conn, made, slot, epoll, event, refs, jobs>>
  BY DEF DropConnection, Delete, Releasable, clientVars, threadVars, engineVars
<1>2. c <= made /\ epoll[c] = "out" /\ \A f \in Fds : slot[f] # c
  BY <1>1 DEF Life, Typed, Fresh, Binned, InMap, Conns
<1>3. /\ \A d \in Conns : d # c => fd'[d] = fd[d] /\ bin'[d] = bin[d]
      /\ fd'[c] = 0 /\ bin'[c] = "dropped"
  BY <1>1 DEF Life, Typed
<1>4. Typed'
  <2>1. fd' \in [Conns -> Fds \cup {0}] /\ bin' \in [Conns -> {"none", "waiting", "dropped"}]
    BY <1>1 DEF Life, Typed
  <2> QED
    BY <1>1, <2>1 DEF Life, Typed
<1>5. Sockets'
  BY <1>1, <1>2, <1>3 DEF Life, Sockets
<1>6. Fresh'
  BY <1>1, <1>2, <1>3 DEF Life, Typed, Fresh, Conns
<1>7. InMap' /\ Binned'
  BY <1>1, <1>2, <1>3 DEF Life, Typed, InMap, Binned, Conns
<1>8. Closers'
  <2>1. ASSUME NEW x \in Threads, pc[x] \in Closing PROVE conn[x] # c
    BY <1>1, <2>1 DEF Life, Closers
  <2> QED
    BY <1>1, <1>3, <2>1 DEF Life, Closers
<1>9. Joiners'
  <2> SUFFICES ASSUME NEW v \in Users, pc[v] \in Joining
               PROVE  Unseen(v)'
    BY <1>1 DEF Joiners
  <2>1. Unseen(v) /\ conn[v] # c
    BY <1>1 DEF Life, Joiners, Unseen
  <2> QED
    BY <1>1, <1>3, <2>1 DEF Unseen
<1>10. Counted'
  BY <1>1, HoldersSame DEF Life
<1> QED
  BY <1>4, <1>5, <1>6, <1>7, <1>8, <1>9, <1>10 DEF Life

-----------------------------------------------------------------------------
(* References.                                                             *)

LEMMA Removed ==
    ASSUME NEW r \in Int, NEW j \in Nat, NEW n \in Nat, n >= 1, r = j + n
    PROVE  r > 0 /\ r - 1 = j + (n - 1) /\ r - 1 \in Int
  OBVIOUS

LEMMA Added ==
    ASSUME NEW r \in Int, NEW j \in Nat, NEW n \in Nat, r = j + n
    PROVE  /\ r + 1 = j + (n + 1) /\ r + 1 \in Int
           /\ r + 1 = (j + 1) + n
           /\ j > 0 => r = (j - 1) + (n + 1)
  OBVIOUS

(* A thread gives its reference back.                                      *)
LEMMA Released ==
    ASSUME Life, NEW t \in Counters, pc[t] \in Counting, Unref(conn[t]), jobs' = jobs,
           pc'[t] \notin Counting,
           \A x \in Counters : x # t => pc'[x] = pc[x] /\ conn'[x] = conn[x]
    PROVE  /\ Counted' /\ refs' \in [Conns -> Int]
           /\ conn[t] \in Conns /\ refs[conn[t]] > 0
           /\ \A d \in Conns : d # conn[t] => refs'[d] = refs[d]
<1>0. PICK c : c = conn[t]
  OBVIOUS
<1> DEFINE H == Holders(c)
<1>1. c \in Conns
  BY <1>0 DEF Life, Counted
<1>2. IsFiniteSet(H) /\ Cardinality(H) \in Nat
  BY HoldersFinite
<1>3. t \in H
  BY <1>0 DEF Holders
<1>4. Cardinality(H \ {t}) = Cardinality(H) - 1
  BY <1>2, <1>3, FS_RemoveElement
<1>5. Holders(c)' = H \ {t}
  BY DEF Holders
<1>6. \A d \in Conns : d # c => Holders(d)' = Holders(d)
  BY <1>0 DEF Holders
<1>7. Cardinality(H) # 0
  BY <1>2, <1>3, FS_EmptySet
<1>8. refs[c] \in Int /\ jobs[c] \in Nat /\ refs[c] = jobs[c] + Cardinality(H)
  BY <1>1 DEF Life, Typed, Counted
<1>9. refs' = [refs EXCEPT ![c] = refs[c] - 1] /\ refs \in [Conns -> Int]
  BY <1>0 DEF Unref, Life, Typed
<1> HIDE DEF H
<1>10. Cardinality(H) >= 1
  BY <1>2, <1>7
<1>11. refs[c] > 0 /\ refs[c] - 1 = jobs[c] + (Cardinality(H) - 1) /\ refs[c] - 1 \in Int
  BY <1>2, <1>8, <1>10, Removed
<1>12. refs'[c] = jobs[c] + Cardinality(H \ {t})
  BY <1>1, <1>4, <1>9, <1>11
<1>13. \A d \in Conns : d # c => refs'[d] = refs[d]
  BY <1>9
<1>14. Counted'
  <2>1. ASSUME NEW x \in Counters, pc'[x] \in Counting PROVE conn'[x] \in Conns
    BY <2>1 DEF Life, Counted
  <2>2. ASSUME NEW d \in Conns
        PROVE  refs'[d] = jobs'[d] + Cardinality(Holders(d)')
    <3>1. CASE d = c
      BY <1>5, <1>12, <3>1
    <3>2. CASE d # c
      BY <1>6, <1>13, <3>2 DEF Life, Counted
    <3> QED
      BY <3>1, <3>2
  <2> QED
    BY <2>1, <2>2 DEF Counted
<1> QED
  BY <1>0, <1>1, <1>9, <1>11, <1>13, <1>14

(* A thread gets a reference: a new one, or that of a run it takes.        *)
LEMMA Obtained ==
    ASSUME Life, NEW t \in Counters, pc[t] \notin Counting, NEW c \in Conns,
           \/ /\ refs' = [refs EXCEPT ![c] = @ + 1] /\ jobs' = jobs
           \/ /\ jobs[c] > 0
              /\ jobs' = [jobs EXCEPT ![c] = @ - 1] /\ refs' = refs,
           pc'[t] \in Counting, conn'[t] = c,
           \A x \in Counters : x # t => pc'[x] = pc[x] /\ conn'[x] = conn[x]
    PROVE  /\ Counted' /\ refs' \in [Conns -> Int] /\ jobs' \in [Conns -> Nat]
           /\ \A d \in Conns : d # c => refs'[d] = refs[d] /\ jobs'[d] = jobs[d]
<1> DEFINE H == Holders(c)
<1>1. IsFiniteSet(H) /\ Cardinality(H) \in Nat
  BY HoldersFinite
<1>2. t \notin H
  BY DEF Holders
<1>3. Cardinality(H \cup {t}) = Cardinality(H) + 1
  BY <1>1, <1>2, FS_AddElement
<1>4. Holders(c)' = H \cup {t}
  BY DEF Holders
<1>5. \A d \in Conns : d # c => Holders(d)' = Holders(d)
  BY DEF Holders
<1>6. refs[c] \in Int /\ jobs[c] \in Nat /\ refs[c] = jobs[c] + Cardinality(H)
  BY DEF Life, Typed, Counted
<1>7. refs \in [Conns -> Int] /\ jobs \in [Conns -> Nat]
  BY DEF Life, Typed
<1> HIDE DEF H
<1>8. /\ refs[c] + 1 = jobs[c] + (Cardinality(H) + 1) /\ refs[c] + 1 \in Int
      /\ jobs[c] > 0 => refs[c] = (jobs[c] - 1) + (Cardinality(H) + 1)
  BY <1>1, <1>6, Added
<1>9. /\ \A d \in Conns : d # c => refs'[d] = refs[d] /\ jobs'[d] = jobs[d]
      /\ \/ refs'[c] = refs[c] + 1 /\ jobs'[c] = jobs[c]
         \/ jobs[c] > 0 /\ refs'[c] = refs[c] /\ jobs'[c] = jobs[c] - 1
  BY <1>7
<1>10. refs'[c] = jobs'[c] + (Cardinality(H) + 1)
  BY <1>8, <1>9
<1>11. refs' \in [Conns -> Int] /\ jobs' \in [Conns -> Nat]
  BY <1>6, <1>7, <1>8
<1>12. Counted'
  <2>1. ASSUME NEW x \in Counters, pc'[x] \in Counting PROVE conn'[x] \in Conns
    BY <2>1 DEF Life, Counted
  <2>2. refs'[c] = jobs'[c] + Cardinality(Holders(c)')
    BY <1>3, <1>4, <1>10
  <2>3. ASSUME NEW d \in Conns, d # c
        PROVE  refs'[d] = jobs'[d] + Cardinality(Holders(d)')
    BY <1>5, <1>9, <2>3 DEF Life, Counted
  <2> QED
    BY <2>1, <2>2, <2>3 DEF Counted
<1> QED
  BY <1>9, <1>11, <1>12

(* Who has a counted reference has it to a connection that exists.         *)
LEMMA Held ==
    ASSUME Life, NEW c \in Conns, refs[c] # 0
    PROVE  c <= made /\ bin[c] # "dropped" /\ fd[c] \in Fds
<1>1. c <= made /\ bin[c] # "dropped"
  BY ConnsAssumption DEF Life, Typed, Fresh, Binned, Conns
<1> QED
  BY <1>1 DEF Life, Sockets

LEMMA HeldByThread ==
    ASSUME Life, NEW t \in Counters, pc[t] \in Counting
    PROVE  /\ conn[t] \in Conns /\ refs[conn[t]] # 0
           /\ conn[t] <= made /\ bin[conn[t]] # "dropped" /\ fd[conn[t]] \in Fds
<1> DEFINE c == conn[t]
           H == Holders(c)
<1>1. c \in Conns
  BY DEF Life, Counted
<1>2. IsFiniteSet(H) /\ Cardinality(H) \in Nat /\ t \in H
  BY HoldersFinite DEF Holders
<1>3. Cardinality(H) # 0
  BY <1>2, FS_EmptySet
<1>4. refs[c] \in Int /\ jobs[c] \in Nat /\ refs[c] = jobs[c] + Cardinality(H)
  BY <1>1 DEF Life, Typed, Counted
<1> HIDE DEF c, H
<1>5. refs[c] # 0
  BY <1>2, <1>3, <1>4, Removed
<1> QED
  BY <1>1, <1>5, Held DEF c

LEMMA HeldByRun ==
    ASSUME Life, NEW c \in Conns, jobs[c] > 0
    PROVE  refs[c] # 0
<1> DEFINE n == Cardinality(Holders(c))
<1>1. n \in Nat
  BY HoldersFinite
<1>2. refs[c] \in Int /\ jobs[c] \in Nat /\ refs[c] = jobs[c] + n
  BY DEF Life, Typed, Counted
<1> HIDE DEF n
<1> QED
  BY <1>1, <1>2

-----------------------------------------------------------------------------
(* The engine's threads.                                                   *)

JoinedBy(c) == \E v \in Users : pc[v] \in Joining /\ conn[v] = c

(* A thread of the engine moves to p, with connection x, and closes        *)
(* nothing.                                                                *)
Moves(t, p, x) ==
    /\ t \in Threads \ Users /\ pc[t] \notin Closing
    /\ p \in Places \ Closing /\ pc' = [pc EXCEPT ![t] = p]
    /\ t \in IOThreads => p \in WorkPlaces
    /\ t = Loop => p \in LoopPlaces
    /\ t = Timer => p \in TimerPlaces
    /\ x \in Infos /\ x <= made /\ ~JoinedBy(x) /\ conn' = [conn EXCEPT ![t] = x]
    /\ event' \in [fd : Fds \cup {0}, kind : {"none", "in", "hup"}]
    /\ pc'[Loop] = "event" => event'.fd \in Fds
    /\ epoll' \in [Conns -> {"out", "armed", "fired"}]
    /\ \A d \in Conns : epoll'[d] = "out" <=> epoll[d] = "out"
    /\ refs' \in [Conns -> Int] /\ jobs' \in [Conns -> Nat]
    /\ \A d \in Conns :
          \/ refs'[d] = refs[d] /\ jobs'[d] = jobs[d]
          \/ d <= made /\ bin[d] # "dropped" /\ ~JoinedBy(d)
    /\ Counted'
    /\ UNCHANGED <<info, made, fd, slot, bin>>

LEMMA EngineMove ==
    ASSUME Life, NEW t, NEW p, NEW x, Moves(t, p, x)
    PROVE  Life'
<1> USE DEF Moves
<1> USE ConnsAssumption, ThreadsAssumption, FdsAssumption
<1>1. /\ \A y \in Threads : y # t => pc'[y] = pc[y] /\ conn'[y] = conn[y]
      /\ pc'[t] = p /\ conn'[t] = x
  BY DEF Life, Typed
<1>2. Typed'
  <2>1. /\ pc' \in [Threads -> Places]
        /\ \A u \in Users : pc'[u] \in UserPlaces
        /\ \A w \in IOThreads : pc'[w] \in WorkPlaces
        /\ pc'[Loop] \in LoopPlaces /\ pc'[Timer] \in TimerPlaces
    BY <1>1 DEF Life, Typed, Threads
  <2>2. conn' \in [Threads -> Infos]
    BY DEF Life, Typed
  <2> QED
    BY <2>1, <2>2 DEF Life, Typed
<1>3. Sockets' /\ InMap'
  BY DEF Life, Sockets, InMap
<1>4. Fresh'
  <2>1. \A d \in Conns : d > made => ~(d <= made)
    BY DEF Life, Typed, Conns
  <2>2. \A y \in Threads : conn'[y] <= made
    BY <1>1 DEF Life, Fresh
  <2> QED
    BY <2>1, <2>2 DEF Life, Fresh
<1>5. Binned'
  BY DEF Life, Binned
<1>6. Closers'
  <2>1. ASSUME NEW y \in Threads, pc'[y] \in Closing
        PROVE  y # t /\ pc'[y] = pc[y] /\ conn'[y] = conn[y]
    BY <1>1, <2>1
  <2> QED
    BY <2>1 DEF Life, Closers
<1>7. Joiners'
  <2> SUFFICES ASSUME NEW v \in Users, pc'[v] \in Joining
               PROVE  Unseen(v)'
    BY DEF Joiners
  <2>1. v # t /\ v \in Threads /\ pc'[v] = pc[v] /\ conn'[v] = conn[v]
    BY <1>1 DEF Threads
  <2>2. Unseen(v) /\ JoinedBy(conn[v])
    BY <2>1 DEF Life, Joiners, JoinedBy
  <2>3. refs'[conn[v]] = 0 /\ jobs'[conn[v]] = 0
    BY <2>2 DEF Unseen
  <2>4. \A y \in Threads : conn'[y] = conn[v] => y = v
    BY <1>1, <2>2 DEF Unseen
  <2> QED
    BY <2>1, <2>2, <2>3, <2>4 DEF Unseen
<1> QED
  BY <1>2, <1>3, <1>4, <1>5, <1>6, <1>7 DEF Life

(* What a joining thread's connection is not.                              *)
LEMMA NotJoined ==
    ASSUME Life
    PROVE  /\ ~JoinedBy(0)
           /\ \A c \in Conns : \/ refs[c] # 0 \/ jobs[c] # 0 \/ epoll[c] # "out"
                               => ~JoinedBy(c)
           /\ \A t \in Threads \ Users : ~JoinedBy(conn[t])
           /\ \A u \in Users : pc[u] \notin Joining => ~JoinedBy(conn[u])
  BY ConnsAssumption, ThreadsAssumption DEF Life, Joiners, Unseen, JoinedBy, Conns, Threads

LEMMA SameEngine ==
    ASSUME Life
    PROVE  /\ event \in [fd : Fds \cup {0}, kind : {"none", "in", "hup"}]
           /\ NoEvent \in [fd : Fds \cup {0}, kind : {"none", "in", "hup"}]
           /\ NoEvent.fd \notin Fds
           /\ epoll \in [Conns -> {"out", "armed", "fired"}]
           /\ refs \in [Conns -> Int] /\ jobs \in [Conns -> Nat]
           /\ pc[Loop] = "event" => event.fd \in Fds
           /\ \A t \in Threads : /\ conn[t] \in Infos /\ conn[t] <= made
                                  /\ conn = [conn EXCEPT ![t] = conn[t]]
                                  /\ pc = [pc EXCEPT ![t] = pc[t]]
           /\ 0 \in Infos /\ 0 <= made
  BY ConnsAssumption, FdsAssumption DEF Life, Typed, Fresh, NoEvent, Infos

LEMMA Who ==
    /\ Loop \in Threads \ Users /\ Loop \notin Counters
    /\ Timer \in Threads \ Users /\ Timer \in Counters /\ Timer # Loop
    /\ \A w \in IOThreads : w \in Threads \ Users /\ w \in Counters /\ w # Loop /\ w # Timer
    /\ Counters \subseteq Threads
  BY ThreadsAssumption DEF Threads, Counters

LEMMA FetchStep ==
    ASSUME Life, NEW c \in Conns, Fetch(c)
    PROVE  Life'
<1> USE Who
<1>1. /\ pc[Loop] = "idle" /\ pc' = [pc EXCEPT ![Loop] = "event"]
      /\ epoll[c] = "armed" /\ epoll' = [epoll EXCEPT ![c] = "fired"]
      /\ event' = [fd |-> fd[c], kind |-> IF hungup[c] THEN "hup" ELSE "in"]
      /\ UNCHANGED <<info, conn, made, fd, slot, refs, jobs, bin>>
  BY DEF Fetch, Goto, clientVars, socketVars
<1>2. fd[c] \in Fds
  BY <1>1, ConnsAssumption DEF Life, Typed, Sockets, Fresh, Binned, Conns
<1>3. /\ event' \in [fd : Fds \cup {0}, kind : {"none", "in", "hup"}]
      /\ event'.fd = fd[c]
  BY <1>1, <1>2
<1>4. /\ epoll' \in [Conns -> {"out", "armed", "fired"}]
      /\ \A d \in Conns : epoll'[d] = "out" <=> epoll[d] = "out"
  BY <1>1 DEF Life, Typed
<1>5. Counted'
  BY <1>1, HoldersSame DEF Life, Typed
<1>6. "event" \in Places \ Closing /\ "event" \in LoopPlaces /\ "idle" \notin Closing
  BY DEF Places, LoopPlaces, Closing
<1>7. /\ conn[Loop] \in Infos /\ conn[Loop] <= made /\ ~JoinedBy(conn[Loop])
      /\ conn' = [conn EXCEPT ![Loop] = conn[Loop]]
  BY <1>1, SameEngine, NotJoined
<1>8. refs' \in [Conns -> Int] /\ jobs' \in [Conns -> Nat]
  BY <1>1, SameEngine
<1>9. Moves(Loop, "event", conn[Loop])
  BY <1>1, <1>2, <1>3, <1>4, <1>5, <1>6, <1>7, <1>8, SameEngine DEF Moves
<1> QED
  BY <1>9, EngineMove

(* The loop takes no joining connection for that of the event, unless this *)
(* is the mistake.                                                         *)
LEMMA ProcessStep ==
    ASSUME Life, ProcessHup \/ ProcessIn, ~Mistake
    PROVE  Life'
<1> USE Who
<1> DEFINE f == event.fd
           c == slot[f]
<1>1. /\ pc[Loop] = "event" /\ f \in Fds /\ c \in 0 .. MaxConns
      /\ event' = NoEvent
      /\ UNCHANGED <<info, made, fd, epoll, bin>>
  BY DEF Life, Typed, ProcessHup, ProcessIn, clientVars, socketVars
<1>2. c # 0 => c \in Conns /\ fd[c] = f /\ bin[c] = "none" /\ c <= made
  BY <1>1, ConnsAssumption DEF Life, InMap, Sockets, Conns
<1>3. ~JoinedBy(c)
  <2>1. c = 0 => ~JoinedBy(c)
    BY NotJoined
  <2>2. pc'[Loop] # "event"
    BY DEF Life, Typed, ProcessHup, ProcessIn, Goto
  <2>3. \A v \in Users : pc[v] = "epollAdd" => conn[v] # c
    BY <1>1, <2>2 DEF Mistake
  <2>4. \A v \in Users : pc[v] = "join" => conn[v] # c
    BY <1>1 DEF Life, Joiners, Joining, Unseen
  <2> QED
    BY <2>1, <2>3, <2>4 DEF JoinedBy, Joining
<1>4. "idle" \in Places \ Closing /\ "idle" \in LoopPlaces /\ "event" \notin Closing
      /\ "idle" \notin Counting /\ "event" \notin Joining
  BY DEF Places, LoopPlaces, Closing, Counting, Joining
<1>5. CASE ProcessHup /\ c = 0
  <2>1. /\ pc' = [pc EXCEPT ![Loop] = "idle"] /\ conn' = [conn EXCEPT ![Loop] = 0]
        /\ slot' = [slot EXCEPT ![f] = 0] /\ UNCHANGED <<refs, jobs>>
    BY <1>5 DEF ProcessHup, Goto, Take
  <2>2. slot' = slot
    BY <1>1, <1>5, <2>1 DEF Life, Typed
  <2>3. Counted'
    BY <2>1, HoldersSame DEF Life, Typed
  <2>4. pc'[Loop] = "idle"
    BY <2>1 DEF Life, Typed
  <2>5. Moves(Loop, "idle", 0)
    BY <1>1, <1>4, <2>1, <2>2, <2>3, <2>4, SameEngine, NotJoined DEF Moves
  <2> QED
    BY <2>5, EngineMove
<1>6. CASE ProcessHup /\ c # 0
  <2>1. /\ pc' = [pc EXCEPT ![Loop] = "clear"] /\ conn' = [conn EXCEPT ![Loop] = c]
        /\ slot' = [slot EXCEPT ![f] = 0] /\ UNCHANGED <<refs, jobs>>
    BY <1>6 DEF ProcessHup, Goto, Take
  <2>2. Counted'
    BY <2>1, HoldersSame DEF Life, Typed
  <2>3. \A u \in Users : pc[u] \in Joining => c # conn[u]
    BY <1>3 DEF JoinedBy
  <2>4. refs' \in [Conns -> Int] /\ \A d \in Conns : refs[d] = 0 => refs'[d] = 0
    BY <2>1 DEF Life, Typed
  <2> QED
    BY <1>1, <1>4, <1>6, <2>1, <2>2, <2>3, <2>4, TakesOut
<1>7. CASE ProcessIn /\ c = 0
  <2>1. pc' = [pc EXCEPT ![Loop] = "idle"] /\ UNCHANGED <<refs, jobs, conn, slot>>
    BY <1>7 DEF ProcessIn, Goto
  <2>2. Counted'
    BY <2>1, HoldersSame DEF Life, Typed
  <2>3. pc'[Loop] = "idle"
    BY <2>1 DEF Life, Typed
  <2>4. Moves(Loop, "idle", conn[Loop])
    BY <1>1, <1>4, <2>1, <2>2, <2>3, SameEngine, NotJoined DEF Moves
  <2> QED
    BY <2>4, EngineMove
<1>8. CASE ProcessIn /\ c # 0
  <2>1. /\ pc' = [pc EXCEPT ![Loop] = "idle"] /\ UNCHANGED <<conn, slot>>
        /\ refs' = [refs EXCEPT ![c] = @ + 1] /\ jobs' = [jobs EXCEPT ![c] = @ + 1]
    BY <1>8 DEF ProcessIn, Goto
  <2>2. /\ refs' \in [Conns -> Int] /\ jobs' \in [Conns -> Nat]
        /\ \A d \in Conns : d # c => refs'[d] = refs[d] /\ jobs'[d] = jobs[d]
        /\ refs'[c] = refs[c] + 1 /\ jobs'[c] = jobs[c] + 1
    BY <1>2, <1>8, <2>1 DEF Life, Typed
  <2>3. \A x \in Counters : pc'[x] = pc[x]
    BY <2>1 DEF Life, Typed
  <2>4. \A d \in Conns : Holders(d)' = Holders(d)
    BY <2>1, <2>3 DEF Holders
  <2>5. Cardinality(Holders(c)) \in Nat /\ refs[c] \in Int /\ jobs[c] \in Nat
        /\ refs[c] = jobs[c] + Cardinality(Holders(c))
    BY <1>2, <1>8, HoldersFinite DEF Life, Typed, Counted
  <2>6. refs[c] + 1 = (jobs[c] + 1) + Cardinality(Holders(c))
    BY <2>5, Added
  <2>7. ASSUME NEW d \in Conns
        PROVE  refs'[d] = jobs'[d] + Cardinality(Holders(d)')
    <3>1. CASE d = c
      BY <2>2, <2>4, <2>6, <3>1
    <3>2. CASE d # c
      BY <2>2, <2>4, <3>2 DEF Life, Counted
    <3> QED
      BY <3>1, <3>2
  <2>8. Counted'
    BY <2>1, <2>3, <2>7 DEF Life, Counted
  <2>9. c <= made /\ bin[c] # "dropped"
    BY <1>2, <1>8
  <2> HIDE DEF c, f
  <2>10. \A d \in Conns :
             \/ refs'[d] = refs[d] /\ jobs'[d] = jobs[d]
             \/ d <= made /\ bin[d] # "dropped" /\ ~JoinedBy(d)
    BY <1>3, <2>2, <2>9
  <2>11. pc'[Loop] = "idle"
    BY <2>1 DEF Life, Typed
  <2>12. Moves(Loop, "idle", conn[Loop])
    BY <1>1, <1>4, <2>1, <2>2, <2>8, <2>10, <2>11, SameEngine, NotJoined DEF Moves
  <2> QED
    BY <2>12, EngineMove
<1> QED
  BY <1>5, <1>6, <1>7, <1>8

WorkerPlaces == {"read", "fill", "rearm", "drop"}

LEMMA WorkerMove ==
    ASSUME Life, NEW w \in IOThreads, pc[w] \in WorkerPlaces,
           NEW p \in WorkerPlaces, pc' = [pc EXCEPT ![w] = p],
           UNCHANGED <<info, conn, made, fd, slot, epoll, event, refs, jobs, bin>>
    PROVE  Life'
<1> USE Who
<1>1. /\ \A x \in WorkerPlaces : x \in Places \ Closing /\ x \in WorkPlaces /\ x \in Counting
      /\ "event" \notin WorkerPlaces
  BY DEF WorkerPlaces, Places, WorkPlaces, Closing, Counting
<1>2. Counted'
  BY <1>1, HoldersSame DEF Life, Typed
<1>3. pc'[Loop] = "event" => event'.fd \in Fds
  BY DEF Life, Typed
<1>4. Moves(w, p, conn[w])
  BY <1>1, <1>2, <1>3, SameEngine, NotJoined DEF Moves
<1> QED
  BY <1>4, EngineMove

LEMMA WorkStep ==
    ASSUME Life, NEW w \in IOThreads, Read(w) \/ ReadEnds(w) \/ Fill(w) \/ RearmFails(w)
    PROVE  Life'
<1> USE Who DEF WorkerPlaces, Goto, clientVars, socketVars, engineVars
<1>1. CASE Read(w)
  <2>1. pc' = [pc EXCEPT ![w] = "fill"] \/ pc' = pc
    BY <1>1 DEF Read
  <2>2. pc' = pc => pc' = [pc EXCEPT ![w] = "read"]
    BY <1>1, SameEngine DEF Read
  <2> QED
    BY <1>1, <2>1, <2>2, WorkerMove DEF Read
<1>2. CASE ReadEnds(w)
  BY <1>2, WorkerMove DEF ReadEnds
<1>3. CASE Fill(w)
  BY <1>3, WorkerMove DEF Fill
<1>4. CASE RearmFails(w)
  BY <1>4, WorkerMove DEF RearmFails
<1> QED
  BY <1>1, <1>2, <1>3, <1>4

LEMMA RunStep ==
    ASSUME Life, NEW w \in IOThreads, NEW c \in Conns, Run(w, c)
    PROVE  Life'
<1> USE Who
<1> DEFINE p == IF TokenTaken(c) THEN "rearm" ELSE "read"
<1>1. /\ pc[w] = "idle" /\ jobs[c] > 0 /\ jobs' = [jobs EXCEPT ![c] = @ - 1]
      /\ conn' = [conn EXCEPT ![w] = c] /\ pc' = [pc EXCEPT ![w] = p]
      /\ UNCHANGED <<info, made, fd, slot, epoll, event, refs, bin>>
  BY DEF Run, Goto, clientVars, socketVars
<1>2. /\ p \in Places \ Closing /\ p \in WorkPlaces /\ p \in Counting
      /\ "idle" \notin Closing \cup Counting
  BY DEF Places, WorkPlaces, Closing, Counting
<1> HIDE DEF p
<1>3. /\ pc'[w] = p /\ conn'[w] = c
      /\ \A x \in Threads : x # w => pc'[x] = pc[x] /\ conn'[x] = conn[x]
  BY <1>1 DEF Life, Typed
<1>4. refs[c] # 0 /\ c <= made /\ bin[c] # "dropped"
  BY <1>1, HeldByRun, Held
<1>5. /\ Counted' /\ jobs' \in [Conns -> Nat]
      /\ \A d \in Conns : d # c => jobs'[d] = jobs[d]
  BY <1>1, <1>2, <1>3, Obtained
<1>6. ~JoinedBy(c) /\ c \in Infos
  BY <1>4, NotJoined, ConnsAssumption DEF Conns, Infos
<1>7. pc'[Loop] = "event" => event'.fd \in Fds
  BY <1>1, <1>3 DEF Life, Typed
<1>8. \A d \in Conns :
          \/ refs'[d] = refs[d] /\ jobs'[d] = jobs[d]
          \/ d <= made /\ bin[d] # "dropped" /\ ~JoinedBy(d)
  BY <1>1, <1>4, <1>5, <1>6
<1>9. Moves(w, p, c)
  BY <1>1, <1>2, <1>4, <1>5, <1>6, <1>7, <1>8, SameEngine, NotJoined DEF Moves
<1> QED
  BY <1>9, EngineMove

LEMMA RearmStep ==
    ASSUME Life, NEW w \in IOThreads, Rearm(w)
    PROVE  Life'
<1> USE Who
<1> DEFINE c == conn[w]
<1>1. /\ pc[w] = "rearm" /\ epoll[c] # "out" /\ epoll' = [epoll EXCEPT ![c] = "armed"]
      /\ Unref(c) /\ conn' = [conn EXCEPT ![w] = 0] /\ pc' = [pc EXCEPT ![w] = "idle"]
      /\ UNCHANGED <<info, made, fd, slot, event, jobs, bin>>
  BY DEF Rearm, Goto, clientVars, socketVars
<1>2. /\ "idle" \in Places \ Closing /\ "idle" \in WorkPlaces /\ "idle" \notin Counting
      /\ "rearm" \in Counting /\ "rearm" \notin Closing
  BY DEF Places, WorkPlaces, Closing, Counting
<1>3. /\ pc'[w] = "idle"
      /\ \A x \in Threads : x # w => pc'[x] = pc[x] /\ conn'[x] = conn[x]
  BY <1>1 DEF Life, Typed
<1>4. /\ Counted' /\ refs' \in [Conns -> Int]
      /\ \A d \in Conns : d # c => refs'[d] = refs[d]
  BY <1>1, <1>2, <1>3, Released
<1>5. c \in Conns /\ c <= made /\ bin[c] # "dropped" /\ ~JoinedBy(c)
  BY <1>1, <1>2, HeldByThread, NotJoined
<1>6. /\ epoll' \in [Conns -> {"out", "armed", "fired"}]
      /\ \A d \in Conns : epoll'[d] = "out" <=> epoll[d] = "out"
  BY <1>1, <1>5 DEF Life, Typed
<1> HIDE DEF c
<1>7. pc'[Loop] = "event" => event'.fd \in Fds
  BY <1>1, <1>3 DEF Life, Typed
<1>8. \A d \in Conns :
          \/ refs'[d] = refs[d] /\ jobs'[d] = jobs[d]
          \/ d <= made /\ bin[d] # "dropped" /\ ~JoinedBy(d)
  BY <1>1, <1>4, <1>5
<1>9. Moves(w, "idle", 0)
  BY <1>1, <1>2, <1>4, <1>6, <1>7, <1>8, SameEngine, NotJoined DEF Moves
<1> QED
  BY <1>9, EngineMove

LEMMA WorkerDrops ==
    ASSUME Life, NEW w \in IOThreads, Drop(w)
    PROVE  Life'
<1> USE Who
<1> DEFINE c == conn[w]
           f == fd[c]
<1>1. /\ pc[w] = "drop" /\ Unref(c) /\ slot' = [slot EXCEPT ![f] = 0]
      /\ UNCHANGED <<info, made, fd, epoll, event, jobs, bin>>
  BY DEF Drop, Take, clientVars, socketVars
<1>2. /\ "idle" \in Places \ Closing /\ "idle" \in WorkPlaces /\ "idle" \notin Counting
      /\ "drop" \in Counting /\ "drop" \notin Closing \cup Joining /\ "clear" \notin Counting
  BY DEF Places, WorkPlaces, Closing, Counting, Joining
<1>3. /\ c \in Conns /\ c <= made /\ bin[c] # "dropped" /\ f \in Fds /\ ~JoinedBy(c)
  BY <1>1, <1>2, HeldByThread, NotJoined
<1>4. CASE slot[f] = 0
  <2>1. pc' = [pc EXCEPT ![w] = "idle"] /\ conn' = [conn EXCEPT ![w] = 0]
    BY <1>4 DEF Drop, LostRace, Goto
  <2>2. slot' = slot
    BY <1>1, <1>4 DEF Life, Typed
  <2>3. /\ pc'[w] = "idle"
        /\ \A x \in Threads : x # w => pc'[x] = pc[x] /\ conn'[x] = conn[x]
    BY <2>1 DEF Life, Typed
  <2>4. /\ Counted' /\ refs' \in [Conns -> Int]
        /\ \A d \in Conns : d # c => refs'[d] = refs[d]
    BY <1>1, <1>2, <2>3, Released
  <2> HIDE DEF c, f
  <2>5. pc'[Loop] = "event" => event'.fd \in Fds
    BY <1>1, <2>3 DEF Life, Typed
  <2>6. \A d \in Conns :
            \/ refs'[d] = refs[d] /\ jobs'[d] = jobs[d]
            \/ d <= made /\ bin[d] # "dropped" /\ ~JoinedBy(d)
    BY <1>1, <1>3, <2>4
  <2>7. Moves(w, "idle", 0)
    BY <1>1, <1>2, <2>1, <2>2, <2>4, <2>5, <2>6, SameEngine, NotJoined DEF Moves
  <2> QED
    BY <2>7, EngineMove
<1>5. CASE slot[f] # 0
  <2>1. pc' = [pc EXCEPT ![w] = "clear"] /\ conn' = conn
    BY <1>5 DEF Drop, LostRace, Goto
  <2>2. slot[f] = c
    BY <1>3, <1>5, ConnsAssumption DEF Life, Typed, InMap, Sockets, Conns
  <2>3. /\ pc'[w] = "clear"
        /\ \A x \in Threads : x # w => pc'[x] = pc[x] /\ conn'[x] = conn[x]
    BY <2>1 DEF Life, Typed
  <2>4. /\ Counted' /\ refs' \in [Conns -> Int] /\ refs[c] > 0
        /\ \A d \in Conns : d # c => refs'[d] = refs[d]
    BY <1>1, <1>2, <2>3, Released
  <2>5. \A d \in Conns : refs[d] = 0 => refs'[d] = 0
    BY <2>4
  <2>6. conn' = [conn EXCEPT ![w] = slot[f]]
    BY <2>1, <2>2, SameEngine
  <2>7. \A u \in Users : pc[u] \in Joining => slot[f] # conn[u]
    BY <1>3, <2>2 DEF JoinedBy
  <2> QED
    BY <1>1, <1>2, <1>3, <1>5, <2>1, <2>4, <2>5, <2>6, <2>7, TakesOut
<1> QED
  BY <1>4, <1>5

LEMMA KeepAliveStep ==
    ASSUME Life, NEW c \in Conns, KeepAliveLost(c)
    PROVE  Life'
<1> USE Who
<1>1. PICK f \in Fds : fd[c] = f /\ slot[f] = c
  BY DEF KeepAliveLost, Mapped
<1>2. /\ pc[Timer] = "idle" /\ epoll[c] # "out" /\ slot' = [slot EXCEPT ![f] = 0]
      /\ conn' = [conn EXCEPT ![Timer] = slot[f]] /\ pc' = [pc EXCEPT ![Timer] = "clear"]
      /\ UNCHANGED <<info, made, fd, epoll, event, refs, jobs, bin>>
  BY <1>1 DEF KeepAliveLost, Take, Goto, clientVars, socketVars
<1>3. slot[f] # 0 /\ "idle" \notin Joining \cup Closing \cup Counting /\ "clear" \notin Counting
  BY <1>1, ConnsAssumption DEF Joining, Closing, Counting, Conns
<1>4. \A u \in Users : pc[u] \in Joining => slot[f] # conn[u]
  BY <1>1, <1>2, NotJoined DEF JoinedBy
<1>5. Counted'
  <2>1. \A t \in Counters : /\ pc'[t] \in Counting <=> pc[t] \in Counting
                            /\ pc[t] \in Counting => conn'[t] = conn[t]
    BY <1>2, <1>3 DEF Life, Typed
  <2> QED
    BY <1>2, <2>1, HoldersSame DEF Life
<1>6. refs' \in [Conns -> Int] /\ \A d \in Conns : refs[d] = 0 => refs'[d] = 0
  BY <1>2, SameEngine
<1> QED
  BY <1>2, <1>3, <1>4, <1>5, <1>6, TakesOut

LEMMA PingStep ==
    ASSUME Life
    PROVE  /\ \A c \in Conns : PingPick(c) => Life'
           /\ PingSend => Life'
<1> USE Who
<1>1. /\ {"idle", "ping"} \subseteq (Places \cap TimerPlaces) \ Closing
      /\ "idle" \notin Counting /\ "ping" \in Counting
  BY DEF Places, TimerPlaces, Closing, Counting
<1>2. ASSUME NEW c \in Conns, PingPick(c) PROVE Life'
  <2>1. /\ pc[Timer] = "idle" /\ epoll[c] # "out" /\ refs' = [refs EXCEPT ![c] = @ + 1]
        /\ conn' = [conn EXCEPT ![Timer] = c] /\ pc' = [pc EXCEPT ![Timer] = "ping"]
        /\ UNCHANGED <<info, made, fd, slot, epoll, event, jobs, bin>>
    BY <1>2 DEF PingPick, Goto, clientVars, socketVars
  <2>2. /\ pc'[Timer] = "ping" /\ conn'[Timer] = c
        /\ \A x \in Threads : x # Timer => pc'[x] = pc[x] /\ conn'[x] = conn[x]
    BY <2>1 DEF Life, Typed
  <2>3. /\ Counted' /\ refs' \in [Conns -> Int]
        /\ \A d \in Conns : d # c => refs'[d] = refs[d]
    BY <1>1, <2>1, <2>2, Obtained
  <2>4. c <= made /\ bin[c] # "dropped" /\ ~JoinedBy(c) /\ c \in Infos
    <3>1. c <= made
      BY <2>1, ConnsAssumption DEF Life, Typed, Fresh, Conns
    <3>2. bin[c] # "dropped"
      BY <2>1 DEF Life, Binned
    <3>3. c \in Infos
      BY ConnsAssumption DEF Conns, Infos
    <3> QED
      BY <2>1, <3>1, <3>2, <3>3, NotJoined
  <2>5. pc'[Loop] = "event" => event'.fd \in Fds
    BY <2>1, <2>2 DEF Life, Typed
  <2>6. \A d \in Conns :
            \/ refs'[d] = refs[d] /\ jobs'[d] = jobs[d]
            \/ d <= made /\ bin[d] # "dropped" /\ ~JoinedBy(d)
    BY <2>1, <2>3, <2>4
  <2>7. Moves(Timer, "ping", c)
    BY <1>1, <2>1, <2>3, <2>4, <2>5, <2>6, SameEngine, NotJoined DEF Moves
  <2> QED
    BY <2>7, EngineMove
<1>3. ASSUME PingSend PROVE Life'
  <2> DEFINE c == conn[Timer]
  <2>1. /\ pc[Timer] = "ping" /\ Unref(c)
        /\ conn' = [conn EXCEPT ![Timer] = 0] /\ pc' = [pc EXCEPT ![Timer] = "idle"]
        /\ UNCHANGED <<info, made, fd, slot, epoll, event, jobs, bin>>
    BY <1>3 DEF PingSend, Goto, clientVars, socketVars
  <2>2. /\ pc'[Timer] = "idle"
        /\ \A x \in Threads : x # Timer => pc'[x] = pc[x] /\ conn'[x] = conn[x]
    BY <2>1 DEF Life, Typed
  <2>3. /\ Counted' /\ refs' \in [Conns -> Int]
        /\ \A d \in Conns : d # c => refs'[d] = refs[d]
    BY <1>1, <2>1, <2>2, Released
  <2>4. c \in Conns /\ c <= made /\ bin[c] # "dropped" /\ ~JoinedBy(c)
    BY <1>1, <2>1, HeldByThread, NotJoined
  <2> HIDE DEF c
  <2>5. pc'[Loop] = "event" => event'.fd \in Fds
    BY <2>1, <2>2 DEF Life, Typed
  <2>6. \A d \in Conns :
            \/ refs'[d] = refs[d] /\ jobs'[d] = jobs[d]
            \/ d <= made /\ bin[d] # "dropped" /\ ~JoinedBy(d)
    BY <2>1, <2>3, <2>4
  <2>7. Moves(Timer, "idle", 0)
    BY <1>1, <2>1, <2>3, <2>5, <2>6, SameEngine, NotJoined DEF Moves
  <2> QED
    BY <2>7, EngineMove
<1> QED
  BY <1>2, <1>3

LEMMA ExpireStep ==
    ASSUME Life
    PROVE  /\ \A c \in Conns : \A S \in SUBSET callbacks[c] : Expire(c, S) => Life'
           /\ ExpireFill => Life'
<1> USE Who
<1>1. ASSUME pc[Timer] \in {"idle", "expire"}, NEW p \in {"idle", "expire"}, Goto(Timer, p),
             UNCHANGED <<info, conn, made, fd, slot, epoll, event, refs, jobs, bin>>
      PROVE  Life'
  <2>1. /\ {"idle", "expire"} \subseteq (Places \cap TimerPlaces) \ Closing
        /\ {"idle", "expire"} \cap Counting = {}
    BY DEF Places, TimerPlaces, Closing, Counting
  <2>2. /\ pc'[Timer] = p
        /\ \A x \in Threads : x # Timer => pc'[x] = pc[x]
    BY <1>1 DEF Life, Typed, Goto
  <2>3. Counted'
    BY <1>1, <2>1, <2>2, HoldersSame DEF Life
  <2>4. pc'[Loop] = "event" => event'.fd \in Fds
    BY <1>1, <2>2 DEF Life, Typed
  <2>5. Moves(Timer, p, conn[Timer])
    BY <1>1, <2>1, <2>3, <2>4, SameEngine, NotJoined DEF Moves, Goto
  <2> QED
    BY <2>5, EngineMove
<1>2. ASSUME NEW c \in Conns, NEW S \in SUBSET callbacks[c], Expire(c, S) PROVE Life'
  BY <1>1, <1>2 DEF Expire, clientVars, socketVars, engineVars
<1>3. ASSUME ExpireFill PROVE Life'
  BY <1>1, <1>3 DEF ExpireFill, clientVars, socketVars, engineVars
<1> QED
  BY <1>2, <1>3

LEMMA PeerSame ==
    ASSUME Life, PeerStep
    PROVE  Life'
  BY LifeSame DEF PeerStep, PeerAnswers, PeerCloses, lifeVars, clientVars, threadVars, engineVars

-----------------------------------------------------------------------------
(* One user connects at a time, and nobody replaces the info meanwhile.    *)

InConnect(u) ==
    pc[u] \in ConnectPlaces \/ (pc[u] \in {"take"} \cup Closing /\ back[u] = "guard")

Connecting ==
    /\ \A u \in Users : InConnect(u) => status = "Connecting" /\ info = curr[u]
    /\ \A u, v \in Users : InConnect(u) /\ InConnect(v) => u = v
    /\ \A u \in Users : pc[u] \in {"keySend", "keyWait", "install"} => conn[u] \in Conns
    /\ \A u \in Users : pc[u] # "dupled"
    /\ status = "Connected" => info \in Conns
    /\ status # "Connected" => info <= 0

Shaped ==
    /\ back \in [Threads -> {"idle", "return", "connect", "guard"}]
    /\ curr \in [Users -> Infos]

Control == Backs /\ Connecting /\ Shaped

(* A step that does not touch the client's status, and lets nobody new     *)
(* into connect().                                                         *)
LEMMA ControlKept ==
    ASSUME Control, UNCHANGED <<status, info, curr>>, Backs', back' \in [Threads -> {"idle", "return", "connect", "guard"}],
           \A v \in Users : InConnect(v)' => InConnect(v),
           \A v \in Users : pc'[v] # "dupled",
           \A v \in Users : pc'[v] \in {"keySend", "keyWait", "install"} => conn'[v] \in Conns
    PROVE  Control'
  BY DEF Control, Connecting, Shaped

(* The steps of threads other than users, and of users that keep back.     *)
LEMMA OthersMove ==
    ASSUME Life, Control, UNCHANGED <<status, info, curr, back>>, NEW t \in Threads \ Users,
           NEW p, pc' = [pc EXCEPT ![t] = p] \/ pc' = pc,
           NEW x, conn' = [conn EXCEPT ![t] = x] \/ conn' = conn
    PROVE  Control'
<1>1. \A v \in Users : pc'[v] = pc[v] /\ conn'[v] = conn[v]
  BY DEF Life, Typed, Threads
<1>2. \A v \in Users : InConnect(v)' => InConnect(v)
  BY <1>1 DEF InConnect
<1> QED
  BY <1>1, <1>2, ControlKept DEF Control, Backs, Connecting, Shaped

(* A user moves to p, with b to go back to and connection x.               *)
Goes(u, p, b, x) ==
    /\ UNCHANGED <<status, info, curr>>
    /\ p \in UserPlaces \ {"dupled"} /\ pc' = [pc EXCEPT ![u] = p]
    /\ b \in {"idle", "return", "connect", "guard"} /\ back' = [back EXCEPT ![u] = b]
    /\ x \in Infos /\ conn' = [conn EXCEPT ![u] = x]
    /\ p \in {"keySend", "keyWait", "install"} => x \in Conns
    /\ \/ InConnect(u)
       \/ p \notin ConnectPlaces /\ (p \in {"take"} \cup Closing => b # "guard")

LEMMA UserGoes ==
    ASSUME Life, Control, NEW u \in Users, NEW p, NEW b, NEW x, Goes(u, p, b, x)
    PROVE  Control'
<1> USE DEF Goes
<1> USE ThreadsAssumption
<1>1. u \in Threads
  BY DEF Threads
<1>2. /\ \A v \in Users : v # u => pc'[v] = pc[v] /\ conn'[v] = conn[v] /\ back'[v] = back[v]
      /\ pc'[u] = p /\ conn'[u] = x /\ back'[u] = b
  BY <1>1 DEF Life, Typed, Control, Shaped, Threads
<1>3. \A v \in Users : InConnect(v)' => InConnect(v)
  BY <1>2 DEF InConnect
<1>4. back' \in [Threads -> {"idle", "return", "connect", "guard"}]
  BY DEF Control, Shaped
<1>5. Backs'
  BY <1>1, <1>4 DEF Control, Shaped, Backs
<1> QED
  BY <1>2, <1>3, <1>4, <1>5, ControlKept DEF Control, Connecting

LEMMA SameUser ==
    ASSUME Life, Control, NEW u \in Users
    PROVE  /\ u \in Threads /\ conn[u] \in Infos /\ 0 \in Infos /\ info \in Infos
           /\ pc = [pc EXCEPT ![u] = pc[u]]
           /\ conn = [conn EXCEPT ![u] = conn[u]]
           /\ back = [back EXCEPT ![u] = back[u]]
           /\ back[u] \in {"idle", "return", "connect", "guard"}
  BY ConnsAssumption DEF Life, Typed, Control, Shaped, Infos, Threads

LEMMA CallControl ==
    ASSUME Life, Control, NEW u \in Users, UserCall(u)
    PROVE  Control'
<1> USE SameUser DEF Begin, Goto, UserPlaces, ConnectPlaces, Closing, clientVars, Goes
<1>1. CASE CallConnect(u)
  <2>1. Goes(u, "connect", back[u], conn[u])
    BY <1>1 DEF CallConnect
  <2> QED
    BY <2>1, UserGoes
<1>2. CASE CallClose(u)
  <2>1. Goes(u, "close", back[u], conn[u])
    BY <1>2 DEF CallClose
  <2> QED
    BY <2>1, UserGoes
<1>3. ASSUME NEW q \in Quests, CallSend(u, q) PROVE Control'
  <2>1. Goes(u, IF status = "Connected" THEN "copy" ELSE "enterClose", back[u], conn[u])
    BY <1>3 DEF CallSend
  <2> QED
    BY <2>1, UserGoes
<1>4. ASSUME NEW q \in Quests, RefuseSend(u, q) PROVE Control'
  BY <1>4 DEF RefuseSend, threadVars, Control, Connecting, InConnect, Backs, Shaped
<1> QED
  BY <1>1, <1>2, <1>3, <1>4 DEF UserCall

(* Steps of a user that is not in connect(), or stays there.               *)
LEMMA QuietControl ==
    ASSUME Life, Control, NEW u \in Users,
           \/ EnterClose(u) \/ CloseNothing(u) \/ ConnectDone(u) \/ SocketFails(u)
           \/ PrepareFails(u) \/ JoinMap(u) \/ EpollAddFails(u)
           \/ KeyAgreed(u) \/ KeyRefused(u)
           \/ CopyInfo(u) \/ SendQuest(u) \/ TakeAnswer(u) \/ Return(u)
    PROVE  Control'
<1> USE SameUser DEF Goto, UserPlaces, ConnectPlaces, Closing, clientVars, Goes
<1>1. CASE EnterClose(u)
  <2>1. Goes(u, IF status = "Connected" THEN "close" ELSE "connect", back[u], conn[u])
    BY <1>1 DEF EnterClose
  <2> QED
    BY <2>1, UserGoes
<1>2. CASE CloseNothing(u)
  <2>1. Goes(u, AfterClose(u), back[u], conn[u])
    BY <1>2 DEF CloseNothing, AfterClose
  <2> QED
    BY <2>1, UserGoes
<1>3. CASE ConnectDone(u)
  <2>1. Goes(u, AfterConnect(u), back[u], conn[u])
    BY <1>3 DEF ConnectDone, AfterConnect
  <2> QED
    BY <2>1, UserGoes
<1>4. CASE SocketFails(u)
  <2>1. Goes(u, "guard", back[u], conn[u])
    BY <1>4 DEF SocketFails, InConnect
  <2> QED
    BY <2>1, UserGoes
<1>5. CASE PrepareFails(u)
  <2>1. Goes(u, "guard", back[u], 0)
    BY <1>5 DEF PrepareFails, InConnect
  <2> QED
    BY <2>1, UserGoes
<1>6. CASE JoinMap(u)
  <2>1. Goes(u, "epollAdd", back[u], conn[u])
    BY <1>6 DEF JoinMap, InConnect
  <2> QED
    BY <2>1, UserGoes
<1>7. CASE EpollAddFails(u)
  <2>1. Goes(u, "reset", "guard", conn[u])
    BY <1>7 DEF EpollAddFails, InConnect
  <2> QED
    BY <2>1, UserGoes
<1>8. CASE KeyAgreed(u)
  <2>1. conn[u] \in Conns
    BY <1>8 DEF KeyAgreed, Control, Connecting
  <2>2. Goes(u, "install", back[u], conn[u])
    BY <1>8, <2>1 DEF KeyAgreed, InConnect
  <2> QED
    BY <2>2, UserGoes
<1>9. CASE KeyRefused(u)
  <2>1. Goes(u, "take", "guard", conn[u])
    BY <1>9 DEF KeyRefused, InConnect
  <2> QED
    BY <2>1, UserGoes
<1>10. CASE CopyInfo(u)
  <2>1. Goes(u, "send", back[u], info)
    BY <1>10 DEF CopyInfo
  <2> QED
    BY <2>1, UserGoes
<1>11. CASE SendQuest(u)
  <2>1. PICK p \in {"wait", "return"} : Goto(u, p)
    BY <1>11 DEF SendQuest
  <2>2. Goes(u, p, back[u], 0)
    BY <1>11, <2>1 DEF SendQuest
  <2> QED
    BY <2>2, UserGoes
<1>12. CASE TakeAnswer(u)
  <2>1. Goes(u, "return", back[u], conn[u])
    BY <1>12 DEF TakeAnswer
  <2> QED
    BY <2>1, UserGoes
<1>13. CASE Return(u)
  <2>1. Goes(u, "idle", back[u], conn[u])
    BY <1>13 DEF Return, EndCall
  <2> QED
    BY <2>1, UserGoes
<1> QED
  BY <1>1, <1>2, <1>3, <1>4, <1>5, <1>6, <1>7, <1>8, <1>9, <1>10, <1>11, <1>12, <1>13

LEMMA ConnectControl ==
    ASSUME Life, Control, NEW u \in Users,
           SocketConnect(u) \/ EpollAdd(u) \/ KeySend(u) \/ TakeByInfo(u)
    PROVE  Control'
<1> USE SameUser DEF Goto, UserPlaces, ConnectPlaces, Closing, clientVars, Goes
<1>1. CASE SocketConnect(u)
  <2>1. made + 1 \in Infos
    BY <1>1, ConnsAssumption DEF SocketConnect, Life, Typed, Infos
  <2>2. Goes(u, "join", back[u], made + 1)
    BY <1>1, <2>1 DEF SocketConnect, InConnect
  <2> QED
    BY <2>2, UserGoes
<1>2. CASE EpollAdd(u)
  <2>1. conn[u] \in Conns
    BY <1>2 DEF EpollAdd, Life, Joiners, Unseen, Joining
  <2>2. Goes(u, IF Encrypted THEN "keySend" ELSE "install", back[u], conn[u])
    BY <1>2, <2>1 DEF EpollAdd, InConnect
  <2> QED
    BY <2>2, UserGoes
<1>3. CASE KeySend(u)
  <2>1. conn[u] \in Conns
    BY <1>3 DEF KeySend, Control, Connecting
  <2>2. CASE Found(conn[u])
    <3>1. Goes(u, "keyWait", back[u], conn[u])
      BY <1>3, <2>1, <2>2 DEF KeySend, InConnect
    <3> QED
      BY <3>1, UserGoes
  <2>3. CASE ~Found(conn[u])
    <3>1. Goes(u, "take", "guard", conn[u])
      BY <1>3, <2>1, <2>3 DEF KeySend, InConnect
    <3> QED
      BY <3>1, UserGoes
  <2> QED
    BY <2>2, <2>3
<1>4. CASE TakeByInfo(u)
  <2>1. CASE Mapped(conn[u])
    <3>1. pc[u] = "take" /\ Goto(u, "clear") /\ UNCHANGED <<status, info, curr, conn, back>>
      BY <1>4, <2>1 DEF TakeByInfo
    <3>2. InConnect(u) \/ back[u] # "guard"
      BY <3>1 DEF InConnect
    <3>3. Goes(u, "clear", back[u], conn[u])
      BY <3>1, <3>2
    <3> QED
      BY <3>3, UserGoes
  <2>2. CASE ~Mapped(conn[u])
    <3>1. /\ pc[u] = "take" /\ Goto(u, back[u])
          /\ conn' = [conn EXCEPT ![u] = 0] /\ back' = [back EXCEPT ![u] = "idle"]
          /\ UNCHANGED <<status, info, curr>>
      BY <1>4, <2>2 DEF TakeByInfo
    <3>2. InConnect(u) \/ back[u] # "guard"
      BY <3>1 DEF InConnect
    <3>3. Goes(u, back[u], "idle", 0)
      BY <3>1, <3>2
    <3> QED
      BY <3>3, UserGoes
  <2> QED
    BY <2>1, <2>2
<1> QED
  BY <1>1, <1>2, <1>3, <1>4

(* Steps that replace the info or the status.                              *)
LEMMA StatusControl ==
    ASSUME Life, Control, NEW u \in Users, CloseSwap(u) \/ ConnectBegin(u) \/ Install(u) \/ Guard(u)
    PROVE  Control'
<1> USE ConnsAssumption, ThreadsAssumption, SameUser
<1>0. /\ pc \in [Threads -> Places] /\ conn \in [Threads -> Infos]
      /\ back \in [Threads -> {"idle", "return", "connect", "guard"}]
      /\ curr \in [Users -> Infos]
  BY DEF Life, Typed, Control, Shaped
<1>1. CASE CloseSwap(u)
  <2>1. /\ pc[u] = "close" /\ status = "Connected" /\ status' = "NoConnected"
        /\ pc' = [pc EXCEPT ![u] = "take"] /\ info' = -info /\ UNCHANGED curr
        /\ back' = [back EXCEPT ![u] = AfterClose(u)] /\ conn' = [conn EXCEPT ![u] = info]
    BY <1>1 DEF CloseSwap, Goto
  <2>2. info \in Conns /\ \A v \in Users : ~InConnect(v)
    BY <2>1 DEF Control, Connecting
  <2>3. AfterClose(u) \in {"return", "connect"}
    BY DEF AfterClose
  <2>4. /\ \A v \in Users : v # u => pc'[v] = pc[v] /\ back'[v] = back[v]
        /\ pc'[u] = "take" /\ back'[u] \in {"return", "connect"}
        /\ \A t \in Threads \ Users : back'[t] = back[t]
    BY <1>0, <2>1, <2>3 DEF Threads
  <2>5. \A v \in Users : ~InConnect(v)' /\ pc'[v] # "dupled"
    BY <2>2, <2>4 DEF InConnect, ConnectPlaces, Closing, Control, Connecting
  <2>6. \A v \in Users : pc'[v] \notin {"keySend", "keyWait", "install"}
    BY <2>5 DEF InConnect, ConnectPlaces
  <2>7. info' <= 0
    BY <2>1, <2>2 DEF Conns
  <2>8. Connecting'
    BY <2>1, <2>5, <2>6, <2>7 DEF Connecting
  <2>9. Shaped'
    BY <1>0, <2>1, <2>3 DEF Shaped
  <2>10. Backs'
    BY <2>4 DEF Control, Backs, Threads
  <2> QED
    BY <2>8, <2>9, <2>10 DEF Control
<1>2. CASE ConnectBegin(u)
  <2>1. /\ pc[u] = "connect" /\ status = "NoConnected" /\ status' = "Connecting"
        /\ pc' = [pc EXCEPT ![u] = "socket"] /\ UNCHANGED <<info, conn, back>>
        /\ curr' = [curr EXCEPT ![u] = info]
    BY <1>2 DEF ConnectBegin, Goto
  <2>2. info <= 0 /\ \A v \in Users : ~InConnect(v)
    BY <2>1 DEF Control, Connecting
  <2>3. /\ \A v \in Users : v # u => pc'[v] = pc[v]
        /\ pc'[u] = "socket" /\ curr'[u] = info
    BY <1>0, <2>1
  <2>4. \A v \in Users : InConnect(v)' => v = u
    BY <2>1, <2>2, <2>3 DEF InConnect
  <2>5. \A v \in Users : pc'[v] \notin {"dupled", "keySend", "keyWait", "install"}
    BY <2>2, <2>3 DEF InConnect, ConnectPlaces, Control, Connecting
  <2>6. Connecting'
    BY <2>1, <2>2, <2>3, <2>4, <2>5 DEF Connecting
  <2>7. Shaped' /\ Backs'
    BY <1>0, <2>1 DEF Shaped, Control, Backs
  <2> QED
    BY <2>6, <2>7 DEF Control
<1>3. CASE Install(u)
  <2>1. pc[u] = "install" /\ UNCHANGED back
    BY <1>3 DEF Install
  <2>2. /\ info = curr[u] /\ conn[u] \in Conns
        /\ \A v \in Users : InConnect(v) => v = u
    BY <2>1 DEF Control, Connecting, InConnect, ConnectPlaces
  <2>3. /\ info' = conn[u] /\ status' = "Connected" /\ conn' = [conn EXCEPT ![u] = 0]
        /\ curr' = [curr EXCEPT ![u] = 0] /\ pc' = [pc EXCEPT ![u] = AfterConnect(u)]
    BY <1>3, <2>2 DEF Install, Goto
  <2>4. AfterConnect(u) \in {"copy", "return"}
    BY DEF AfterConnect
  <2>5. /\ \A v \in Users : v # u => pc'[v] = pc[v]
        /\ pc'[u] \in {"copy", "return"}
    BY <1>0, <2>3, <2>4
  <2>6. \A v \in Users : ~InConnect(v)'
    BY <2>1, <2>2, <2>5 DEF InConnect, ConnectPlaces, Closing
  <2>7. \A v \in Users : pc'[v] \notin {"keySend", "keyWait", "install"}
    BY <2>6 DEF InConnect, ConnectPlaces
  <2>8. \A v \in Users : pc'[v] # "dupled"
    BY <2>5 DEF Control, Connecting
  <2>9. Connecting'
    BY <2>2, <2>3, <2>6, <2>7, <2>8 DEF Connecting
  <2>10. Shaped' /\ Backs'
    BY <1>0, <2>1, <2>3 DEF Shaped, Control, Backs
  <2> QED
    BY <2>9, <2>10 DEF Control
<1>4. CASE Guard(u)
  <2>1. /\ pc[u] = "guard" /\ UNCHANGED <<info, conn, back>> /\ status' = Reopened(u)
        /\ pc' = [pc EXCEPT ![u] = "idle"] /\ curr' = [curr EXCEPT ![u] = 0]
    BY <1>4 DEF Guard, EndCall, Goto
  <2>2. /\ info = curr[u] /\ status = "Connecting" /\ info <= 0
        /\ \A v \in Users : InConnect(v) => v = u
    BY <2>1 DEF Control, Connecting, InConnect, ConnectPlaces
  <2>3. status' = "NoConnected"
    BY <2>1, <2>2 DEF Reopened
  <2>4. /\ \A v \in Users : v # u => pc'[v] = pc[v]
        /\ pc'[u] = "idle"
    BY <1>0, <2>1
  <2>5. \A v \in Users : ~InConnect(v)'
    BY <2>1, <2>2, <2>4 DEF InConnect, ConnectPlaces, Closing
  <2>6. \A v \in Users : pc'[v] \notin {"keySend", "keyWait", "install"}
    BY <2>5 DEF InConnect, ConnectPlaces
  <2>7. \A v \in Users : pc'[v] # "dupled"
    BY <2>4 DEF Control, Connecting
  <2>8. Connecting'
    BY <2>1, <2>2, <2>3, <2>5, <2>6, <2>7 DEF Connecting
  <2>9. Shaped' /\ Backs'
    BY <1>0, <2>1 DEF Shaped, Control, Backs
  <2> QED
    BY <2>8, <2>9 DEF Control
<1> QED
  BY <1>1, <1>2, <1>3, <1>4

(* A thread of any kind closes a connection.                               *)
LEMMA CloseControl ==
    ASSUME Life, Control, NEW t \in Threads, CloseStep(t)
    PROVE  Control'
<1> USE ConnsAssumption, ThreadsAssumption
<1>0. /\ pc \in [Threads -> Places] /\ conn \in [Threads -> Infos]
      /\ back \in [Threads -> {"idle", "return", "connect", "guard"}]
      /\ Users \subseteq Threads
  BY DEF Life, Typed, Control, Shaped, Threads
<1>1. CASE Clear(t)
  <2>1. /\ pc[t] = "clear" /\ pc' = [pc EXCEPT ![t] = "reset"]
        /\ UNCHANGED <<status, info, curr, conn, back>>
    BY <1>1 DEF Clear, Goto, clientVars
  <2>2. \A v \in Users : InConnect(v)' => InConnect(v)
    BY <1>0, <2>1 DEF InConnect, ConnectPlaces, Closing
  <2>3. \A v \in Users : pc'[v] \in {"dupled", "keySend", "keyWait", "install"} => pc'[v] = pc[v]
    BY <1>0, <2>1
  <2> QED
    BY <1>0, <2>1, <2>2, <2>3, ControlKept DEF Control, Connecting, Backs
<1>2. CASE Reset(t)
  <2>1. /\ pc[t] = "reset" /\ pc' = [pc EXCEPT ![t] = "reclaim"]
        /\ UNCHANGED <<curr, conn, back>>
    BY <1>2 DEF Reset, Goto
  <2>2. \A v \in Users : InConnect(v)' => InConnect(v)
    BY <1>0, <2>1 DEF InConnect, ConnectPlaces, Closing
  <2>3. \A v \in Users : pc'[v] \in {"dupled", "keySend", "keyWait", "install"} => pc'[v] = pc[v]
    BY <1>0, <2>1
  <2>4. CASE info # conn[t]
    <3>1. UNCHANGED <<status, info>>
      BY <1>2, <2>4 DEF Reset, clientVars
    <3> QED
      BY <1>0, <2>1, <2>2, <2>3, <3>1, ControlKept DEF Control, Connecting, Backs
  <2>5. CASE info = conn[t]
    <3>1. info \in Conns /\ info' = -info /\ status' = "NoConnected"
      BY <1>2, <2>1, <2>5 DEF Reset, Life, Closers, Closing
    <3>2. ~(info <= 0) /\ info' <= 0
      BY <3>1 DEF Conns
    <3>3. \A v \in Users : ~InConnect(v)
      BY <3>2 DEF Control, Connecting
    <3>4. \A v \in Users : pc[v] \notin {"dupled", "keySend", "keyWait", "install"}
      BY <3>3 DEF Control, Connecting, InConnect, ConnectPlaces
    <3>5. Connecting'
      BY <2>2, <2>3, <3>1, <3>2, <3>3, <3>4 DEF Connecting
    <3>6. Shaped' /\ Backs'
      BY <1>0, <2>1 DEF Shaped, Control, Backs
    <3> QED
      BY <3>5, <3>6 DEF Control
  <2> QED
    BY <2>4, <2>5
<1>3. CASE Reclaim(t)
  <2>1. /\ pc[t] = "reclaim" /\ pc' = [pc EXCEPT ![t] = back[t]]
        /\ back' = [back EXCEPT ![t] = "idle"] /\ conn' = [conn EXCEPT ![t] = 0]
        /\ UNCHANGED <<status, info, curr>>
    BY <1>3 DEF Reclaim, Goto, clientVars
  <2>2. back[t] \in {"idle", "return", "connect", "guard"}
    BY <1>0
  <2>3. /\ \A v \in Threads : v # t => pc'[v] = pc[v] /\ back'[v] = back[v] /\ conn'[v] = conn[v]
        /\ pc'[t] = back[t] /\ back'[t] = "idle"
    BY <1>0, <2>1
  <2>4. \A v \in Users : InConnect(v)' => InConnect(v)
    <3> SUFFICES ASSUME NEW v \in Users, InConnect(v)'
                 PROVE  InConnect(v)
      OBVIOUS
    <3>1. CASE v = t
      BY <2>1, <2>2, <2>3, <3>1 DEF InConnect, ConnectPlaces, Closing
    <3>2. CASE v # t
      BY <1>0, <2>3, <3>2 DEF InConnect
    <3> QED
      BY <3>1, <3>2
  <2>5. \A v \in Users : pc'[v] \in {"dupled", "keySend", "keyWait", "install"}
                         => v # t /\ pc'[v] = pc[v] /\ conn'[v] = conn[v]
    BY <1>0, <2>2, <2>3
  <2>6. Backs' /\ back' \in [Threads -> {"idle", "return", "connect", "guard"}]
    BY <1>0, <2>1 DEF Control, Backs
  <2> QED
    BY <2>1, <2>4, <2>5, <2>6, ControlKept DEF Control, Connecting
<1> QED
  BY <1>1, <1>2, <1>3 DEF CloseStep

(* The engine's threads and the peer leave the users' part alone.          *)
LEMMA EngineControl ==
    ASSUME Life, Control,
           \/ LoopStep \/ TimerStep \/ PeerStep
           \/ \E c \in Conns : DropConnection(c)
           \/ \E w \in IOThreads : WorkerStep(w) \/ \E c \in Conns : Run(w, c)
    PROVE  Control'
<1> USE Who, OthersMove DEF Goto, clientVars, threadVars, socketVars, engineVars
<1>1. CASE LoopStep
  <2>1. ASSUME NEW c \in Conns, Fetch(c) PROVE Control'
    BY <2>1 DEF Fetch
  <2>2. CASE ProcessHup
    BY <2>2 DEF ProcessHup
  <2>3. CASE ProcessIn
    BY <2>3 DEF ProcessIn
  <2> QED
    BY <1>1, <2>1, <2>2, <2>3 DEF LoopStep
<1>2. CASE TimerStep
  <2>1. ASSUME NEW c \in Conns, NEW S \in SUBSET callbacks[c], Expire(c, S) PROVE Control'
    BY <2>1 DEF Expire
  <2>2. CASE ExpireFill
    BY <2>2 DEF ExpireFill
  <2>3. CASE PingSend
    BY <2>3 DEF PingSend
  <2>4. ASSUME NEW c \in Conns, KeepAliveLost(c) PROVE Control'
    BY <2>4 DEF KeepAliveLost
  <2>5. ASSUME NEW c \in Conns, PingPick(c) PROVE Control'
    BY <2>5 DEF PingPick
  <2> QED
    BY <1>2, <2>1, <2>2, <2>3, <2>4, <2>5 DEF TimerStep
<1>3. CASE PeerStep
  BY <1>3 DEF PeerStep, PeerCloses, PeerAnswers
<1>4. ASSUME NEW c \in Conns, DropConnection(c) PROVE Control'
  BY <1>4 DEF DropConnection
<1>5. ASSUME NEW w \in IOThreads, WorkerStep(w) PROVE Control'
  <2>1. CASE Read(w)
    BY <2>1 DEF Read
  <2>2. CASE ReadEnds(w) \/ Fill(w) \/ RearmFails(w)
    BY <2>2 DEF ReadEnds, Fill, RearmFails
  <2>3. CASE Rearm(w)
    BY <2>3 DEF Rearm
  <2>4. CASE Drop(w)
    BY <2>4 DEF Drop
  <2> QED
    BY <1>5, <2>1, <2>2, <2>3, <2>4 DEF WorkerStep
<1>6. ASSUME NEW w \in IOThreads, NEW c \in Conns, Run(w, c) PROVE Control'
  BY <1>6 DEF Run
<1> QED
  BY <1>1, <1>2, <1>3, <1>4, <1>5, <1>6

-----------------------------------------------------------------------------
(* The inductive invariant.                                                *)
IInv == Life /\ Control

LEMMA InitInv ==
    ASSUME Init
    PROVE  IInv
<1> USE ConnsAssumption, ThreadsAssumption, FdsAssumption DEF Init
<1>1. /\ \A t \in Threads : pc[t] = "idle" /\ conn[t] = 0
      /\ \A f \in Fds : slot[f] = 0
  OBVIOUS
<1>2. "idle" \in UserPlaces \cap WorkPlaces \cap LoopPlaces \cap TimerPlaces \cap Places
  BY DEF UserPlaces, WorkPlaces, LoopPlaces, TimerPlaces, Places
<1>3. 0 \in Infos /\ 0 \in 0 .. MaxConns /\ Users \cup Counters \subseteq Threads
  BY DEF Infos, Threads, Counters
<1>4. Typed
  <2>1. /\ pc \in [Threads -> Places]
        /\ \A u \in Users : pc[u] \in UserPlaces
        /\ \A w \in IOThreads : pc[w] \in WorkPlaces
        /\ pc[Loop] \in LoopPlaces /\ pc[Timer] \in TimerPlaces
        /\ pc[Loop] # "event"
    BY <1>1, <1>2 DEF Threads
  <2>2. conn \in [Threads -> Infos] /\ info \in Infos /\ made \in 0 .. MaxConns
    BY <1>3
  <2>3. fd \in [Conns -> Fds \cup {0}] /\ slot \in [Fds -> 0 .. MaxConns]
    BY <1>3
  <2>4. /\ event \in [fd : Fds \cup {0}, kind : {"none", "in", "hup"}]
        /\ epoll \in [Conns -> {"out", "armed", "fired"}]
        /\ bin \in [Conns -> {"none", "waiting", "dropped"}]
        /\ refs \in [Conns -> Int] /\ jobs \in [Conns -> Nat]
    BY DEF NoEvent
  <2> QED
    BY <2>1, <2>2, <2>3, <2>4 DEF Typed
<1>5. Sockets /\ Fresh /\ InMap /\ Binned
  BY DEF Sockets, Fresh, InMap, Binned, Conns
<1>6. Closers /\ Joiners
  BY <1>1, <1>3 DEF Closers, Joiners, Closing, Joining
<1>7. Counted
  <2>1. \A c \in Conns : Holders(c) = {}
    BY <1>1, <1>3 DEF Holders, Counting
  <2>2. Cardinality({}) = 0
    BY FS_EmptySet
  <2>3. \A c \in Conns : refs[c] = 0 /\ jobs[c] = 0 /\ Cardinality(Holders(c)) = 0
    BY <2>1, <2>2
  <2> QED
    BY <1>1, <1>3, <2>3 DEF Counted, Counting
<1>8. Control
  BY <1>1, <1>3 DEF Control, Backs, Connecting, Shaped, InConnect, ConnectPlaces, Closing
<1> QED
  BY <1>4, <1>5, <1>6, <1>7, <1>8 DEF IInv, Life

LEMMA UserInv ==
    ASSUME IInv, NEW u \in Users, UserCall(u) \/ UserStep(u)
    PROVE  IInv'
<1> USE DEF IInv
<1>1. back[u] \in {"idle", "return", "connect", "guard"}
  BY SameUser
<1>2. CASE UserCall(u)
  BY <1>2, CallStep, CallControl
<1>3. CASE \/ EnterClose(u) \/ CloseNothing(u) \/ ConnectDone(u) \/ SocketFails(u)
           \/ KeyAgreed(u) \/ KeyRefused(u) \/ TakeAnswer(u) \/ Return(u)
  BY <1>3, QuietStep, QuietControl
<1>4. CASE ConnectBegin(u) \/ Guard(u)
  BY <1>4, QuietStep, StatusControl
<1>5. CASE CloseSwap(u)
  <2>1. info \in Conns
    BY <1>5 DEF CloseSwap, Control, Connecting
  <2> QED
    BY <1>5, <2>1, SwapStep, StatusControl
<1>6. CASE Install(u)
  BY <1>6, InstallStep, StatusControl
<1>7. CASE CopyInfo(u) \/ SendQuest(u)
  BY <1>7, SendStep, QuietControl
<1>8. CASE KeySend(u)
  BY <1>8, SendStep, ConnectControl
<1>9. CASE TakeByInfo(u)
  BY <1>1, <1>9, TakeStep, ConnectControl
<1>10. CASE SocketConnect(u)
  BY <1>10, SocketStep, ConnectControl
<1>11. CASE EpollAdd(u)
  BY <1>11, AddStep, ConnectControl
<1>12. CASE PrepareFails(u)
  BY <1>12, PrepareStep, QuietControl
<1>13. CASE JoinMap(u)
  BY <1>13, JoinStep, QuietControl
<1>14. CASE EpollAddFails(u)
  BY <1>14, AddFailsStep, QuietControl
<1> QED
  BY <1>2, <1>3, <1>4, <1>5, <1>6, <1>7, <1>8, <1>9, <1>10, <1>11, <1>12, <1>13, <1>14
     DEF UserStep

LEMMA CloseInv ==
    ASSUME IInv, NEW t \in Threads, CloseStep(t)
    PROVE  IInv'
<1>1. Control'
  BY CloseControl DEF IInv
<1>2. Backs
  BY DEF IInv, Control
<1>3. Life'
  BY <1>2, ClearStep, ResetStep, ReclaimStep DEF IInv, CloseStep
<1> QED
  BY <1>1, <1>3 DEF IInv

LEMMA EngineInv ==
    ASSUME IInv, ~Mistake,
           \/ LoopStep \/ TimerStep \/ PeerStep
           \/ \E c \in Conns : DropConnection(c)
           \/ \E w \in IOThreads : WorkerStep(w) \/ \E c \in Conns : Run(w, c)
    PROVE  IInv'
<1>1. Control'
  BY EngineControl DEF IInv
<1> SUFFICES Life'
  BY <1>1 DEF IInv
<1>2. CASE LoopStep
  BY <1>2, FetchStep, ProcessStep DEF IInv, LoopStep
<1>3. CASE TimerStep
  BY <1>3, ExpireStep, KeepAliveStep, PingStep DEF IInv, TimerStep
<1>4. CASE PeerStep
  BY <1>4, PeerSame DEF IInv
<1>5. CASE \E c \in Conns : DropConnection(c)
  BY <1>5, DropStep DEF IInv
<1>6. CASE \E w \in IOThreads : WorkerStep(w)
  BY <1>6, WorkStep, RearmStep, WorkerDrops DEF IInv, WorkerStep
<1>7. CASE \E w \in IOThreads : \E c \in Conns : Run(w, c)
  BY <1>7, RunStep DEF IInv
<1> QED
  BY <1>2, <1>3, <1>4, <1>5, <1>6, <1>7

LEMMA StepInv ==
    ASSUME IInv, Step, ~Mistake
    PROVE  IInv'
<1>1. CASE \E u \in Users : UserCall(u) \/ UserStep(u)
  BY <1>1, UserInv
<1>2. CASE \E t \in Threads : CloseStep(t)
  BY <1>2, CloseInv
<1>3. CASE \/ LoopStep \/ TimerStep \/ PeerStep
           \/ \E c \in Conns : DropConnection(c)
           \/ \E w \in IOThreads : WorkerStep(w) \/ \E c \in Conns : Run(w, c)
  BY <1>3, EngineInv
<1> QED
  BY <1>1, <1>2, <1>3 DEF Step

LEMMA SameInv ==
    ASSUME IInv, UNCHANGED vars
    PROVE  IInv'
<1>1. Life'
  BY LifeSame DEF IInv, lifeVars, vars, clientVars, threadVars, socketVars, engineVars
<1>2. Control'
  BY DEF IInv, Control, Backs, Connecting, Shaped, InConnect, vars, clientVars, threadVars
<1> QED
  BY <1>1, <1>2 DEF IInv

LEMMA MistakenTyped ==
    ASSUME mistaken \in BOOLEAN, [Next]_<<vars, mistaken>>
    PROVE  mistaken' \in BOOLEAN
  BY DEF Next

(* A step after which nothing was mistaken was not mistaken.               *)
LEMMA Unmistaken ==
    ASSUME mistaken \in BOOLEAN, [Next]_<<vars, mistaken>>, mistaken' = FALSE
    PROVE  /\ mistaken = FALSE
           /\ UNCHANGED vars \/ (Step /\ ~Mistake)
<1>1. CASE UNCHANGED <<vars, mistaken>>
  BY <1>1
<1>2. CASE Step /\ mistaken' = (mistaken \/ Mistake)
  <2>1. ~(mistaken \/ Mistake)
    BY <1>2
  <2> QED
    BY <1>2, <2>1
<1> QED
  BY <1>1, <1>2 DEF Next

LEMMA Invariant == Spec => [](mistaken \in BOOLEAN /\ (~mistaken => IInv))
<1> DEFINE Safe == mistaken \in BOOLEAN /\ (~mistaken => IInv)
<1>1. Init => Safe
  BY InitInv DEF Init
<1>2. Safe /\ [Next]_<<vars, mistaken>> => Safe'
  <2> SUFFICES ASSUME Safe, [Next]_<<vars, mistaken>> PROVE Safe'
    OBVIOUS
  <2>1. mistaken' \in BOOLEAN
    BY MistakenTyped
  <2>2. ASSUME ~mistaken' PROVE IInv'
    <3>0. mistaken' = FALSE
      BY <2>1, <2>2
    <3>1. mistaken = FALSE /\ (UNCHANGED vars \/ (Step /\ ~Mistake))
      BY <3>0, Unmistaken
    <3>2. IInv
      BY <3>1
    <3> QED
      BY <3>1, <3>2, StepInv, SameInv
  <2> QED
    BY <2>1, <2>2
<1> QED
  BY <1>1, <1>2, PTL DEF Spec

-----------------------------------------------------------------------------
(* The properties.                                                         *)

LEMMA NeverDupledHolds ==
    ASSUME IInv
    PROVE  NeverDupled
  BY DEF IInv, Control, Connecting, NeverDupled

LEMMA TakenOnceHolds ==
    ASSUME IInv
    PROVE  TakenOnce
<1> SUFFICES ASSUME NEW t \in Threads, pc[t] \in Closing
             PROVE  /\ ~Mapped(conn[t]) /\ bin[conn[t]] = "none"
                    /\ \A x \in Threads : conn[x] = conn[t] /\ pc[x] \in Closing => x = t
  BY DEF TakenOnce
<1> QED
  BY DEF IInv, Life, Closers, Mapped

(* An open connection has a descriptor, and the map gives that descriptor  *)
(* to no other connection.                                                 *)
LEMMA OwnSlot ==
    ASSUME IInv, NEW c \in Conns, c <= made, bin[c] # "dropped"
    PROVE  fd[c] \in Fds /\ slot[fd[c]] \in {0, c}
<1> USE ConnsAssumption
<1>1. fd[c] \in Fds
  BY DEF IInv, Life, Sockets
<1>2. ASSUME slot[fd[c]] # 0 PROVE slot[fd[c]] = c
  <2> DEFINE d == slot[fd[c]]
  <2>1. d \in Conns /\ fd[d] = fd[c]
    BY <1>1, <1>2 DEF IInv, Life, Typed, InMap, Conns
  <2> QED
    BY <1>1, <2>1 DEF IInv, Life, Sockets
<1> QED
  BY <1>1, <1>2

(* A thread that works on a connection holds one that is open.             *)
LEMMA HoldingOpen ==
    ASSUME IInv, NEW t \in Threads, pc[t] \in Holding
    PROVE  conn[t] \in Conns /\ conn[t] <= made /\ bin[conn[t]] # "dropped"
<1>1. CASE pc[t] \in Closing
  BY <1>1 DEF IInv, Life, Closers, Fresh
<1>2. CASE pc[t] \in Joining
  <2>1. t \in Users
    BY <1>2, ThreadsAssumption DEF IInv, Life, Typed, Threads, Joining, WorkPlaces,
       LoopPlaces, TimerPlaces, Closing
  <2> QED
    BY <1>2, <2>1 DEF IInv, Life, Joiners, Unseen, Fresh
<1>3. CASE pc[t] \in Counting
  <2>1. t \in Counters
    BY <1>3, ThreadsAssumption DEF IInv, Life, Typed, Threads, Counters, Counting,
       UserPlaces, ConnectPlaces, LoopPlaces, Closing
  <2> QED
    BY <1>3, <2>1, HeldByThread DEF IInv
<1> QED
  BY <1>1, <1>2, <1>3 DEF Holding, Joining, Counting

LEMMA NoUseAfterDeleteHolds ==
    ASSUME IInv
    PROVE  NoUseAfterDelete
<1> USE ConnsAssumption
<1>1. ASSUME NEW c \in Conns, c <= made, bin[c] # "dropped"
      PROVE  Alive(c)
  BY <1>1 DEF Alive, Conns, IInv, Life, Typed
<1>2. \A t \in Threads : pc[t] \in Holding => Alive(conn[t])
  BY <1>1, HoldingOpen
<1>3. ASSUME NEW c \in Conns, NEW f \in Fds, slot[f] = c
      PROVE  Alive(c)
  <2>1. fd[c] = f /\ c # 0
    BY <1>3 DEF IInv, Life, InMap, Conns
  <2> QED
    BY <1>1, <2>1 DEF IInv, Life, Sockets
<1>4. ASSUME NEW c \in Conns, jobs[c] > 0
      PROVE  Alive(c)
  BY <1>1, <1>4, HeldByRun, Held DEF IInv
<1> QED
  BY <1>2, <1>3, <1>4 DEF NoUseAfterDelete

LEMMA DescriptorIsOwnHolds ==
    ASSUME IInv
    PROVE  DescriptorIsOwn
<1> USE ConnsAssumption
<1>1. ASSUME NEW u \in Users, pc[u] = "join"
      PROVE  slot[fd[conn[u]]] = 0
  <2>1. Unseen(u) /\ u \in Threads /\ pc[u] \in Holding
    BY <1>1 DEF IInv, Life, Joiners, Joining, Threads, Holding
  <2>2. fd[conn[u]] \in Fds /\ slot[fd[conn[u]]] \in {0, conn[u]}
    BY <2>1, HoldingOpen, OwnSlot
  <2> QED
    BY <1>1, <2>1, <2>2 DEF Unseen
<1>2. ASSUME NEW w \in IOThreads, pc[w] \in Holding
      PROVE  slot[fd[conn[w]]] \in {0, conn[w]}
  BY <1>2, HoldingOpen, OwnSlot DEF Threads
<1> QED
  BY <1>1, <1>2 DEF DescriptorIsOwn

(* Whatever the users, the engine and the peer do, the branch of connect() *)
(* that its log calls impossible is: nobody replaces _connectionInfo while *)
(* a connect runs.  (Behind a mistaken event, when connect() may work on a *)
(* deleted connection, nothing is said.)                                   *)
THEOREM ClientNeverDupled == Spec => [](~mistaken => NeverDupled)
<1>1. (mistaken \in BOOLEAN /\ (~mistaken => IInv)) => (~mistaken => NeverDupled)
  BY NeverDupledHolds
<1> QED
  BY <1>1, Invariant, PTL

(* A connection that a hang-up, an I/O error, a lost keep-alive, a user's  *)
(* close and a failed key exchange all want closed is closed by one thread,*)
(* which has it for itself, and once; the only way to two of them is that  *)
(* the loop takes a stale event for one of a connection that is between    *)
(* the map's insert and EPOLL_CTL_ADD.                                     *)
THEOREM ClientTakenOnce == Spec => []TakenOnce
<1>1. (mistaken \in BOOLEAN /\ (~mistaken => IInv)) => TakenOnce
  BY TakenOnceHolds DEF TakenOnce
<1> QED
  BY <1>1, Invariant, PTL

(* A connection is deleted only when no thread works on it, no run of it   *)
(* waits in the I/O pool and the map does not name it; with the same one   *)
(* exception.                                                              *)
THEOREM ClientNoUseAfterDelete == Spec => []NoUseAfterDelete
<1>1. (mistaken \in BOOLEAN /\ (~mistaken => IInv)) => NoUseAfterDelete
  BY NoUseAfterDeleteHolds DEF NoUseAfterDelete
<1> QED
  BY <1>1, Invariant, PTL

(* A joining connection finds its descriptor free in the map, so that the  *)
(* insert joinEpoll does not check succeeds; and an I/O thread that closes *)
(* by descriptor takes out its own connection or none.                     *)
THEOREM ClientDescriptorIsOwn == Spec => [](~mistaken => DescriptorIsOwn)
<1>1. (mistaken \in BOOLEAN /\ (~mistaken => IInv)) => (~mistaken => DescriptorIsOwn)
  BY DescriptorIsOwnHolds
<1> QED
  BY <1>1, Invariant, PTL
=============================================================================
