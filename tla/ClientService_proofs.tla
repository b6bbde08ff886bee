----------------------- MODULE ClientService_proofs -----------------------
(***************************************************************************)
(* Proofs about a client's quests: no callback is lost, and each quest is  *)
(* refused or settled once, as QuestService says.                          *)
(***************************************************************************)
EXTENDS ClientCall_proofs

(* A callback in the map of such a connection will be found.               *)
Live(c) == Mapped(c) \/ \E t \in Threads : pc[t] = "clear" /\ conn[t] = c

Data ==
    /\ status \in {"NoConnected", "Connecting", "Connected"}
    /\ op \in [Users -> {"none", "connect", "close", "reconnect"} \cup Quests]
    /\ hungup \in [Conns -> BOOLEAN]
    /\ inbox \in [Conns -> SUBSET Asks]
    /\ sent \in [Conns -> SUBSET Asks]
    /\ callbacks \in [Conns -> SUBSET Asks]
    /\ reading \in [IOThreads -> Asks \cup {0}]
    /\ expired \in SUBSET Asks
    /\ served \in SUBSET Asks
    /\ result \in [Asks -> {"idle", "calling", "pending", "refused",
                            "answer", "timeout", "closed"}]

(* A callback is in one place, and there its quest is unsettled, but for   *)
(* those left in the map of a connection that was cleared.                 *)
Kept ==
    \A c \in Conns : \A q \in callbacks[c] :
        /\ result[q] \notin {"idle", "calling"}
        /\ Live(c) => result[q] = "pending"
        /\ \A d \in Conns : q \in callbacks[d] => d = c

Reads ==
    \A w \in IOThreads : pc[w] = "fill" =>
        /\ reading[w] \in served /\ result[reading[w]] = "pending"
        /\ reading[w] \notin expired
        /\ \A c \in Conns : reading[w] \notin callbacks[c]
        /\ \A x \in IOThreads : pc[x] = "fill" /\ reading[x] = reading[w] => x = w

Expiring ==
    /\ \A q \in expired : result[q] = "pending" /\ \A c \in Conns : q \notin callbacks[c]
    /\ expired # {} => pc[Timer] = "expire"

(* The peer answers what it was sent, and answers come from the peer.      *)
Told ==
    /\ \A c \in Conns : inbox[c] \subseteq served
    /\ \A c \in Conns : \A q \in sent[c] :
          result[q] \in {"pending", "answer", "timeout", "closed"}
    /\ \A q \in Asks : result[q] = "answer" => q \in served

Books == Kept /\ Reads /\ Expiring /\ Told /\ NoOrphan

(* Nothing was asked of a connection before it could be found.             *)
Silent ==
    /\ \A c \in Conns : c > made => callbacks[c] = {} /\ result[c] = "idle"
    /\ \A u \in Users : pc[u] \in Joining => callbacks[conn[u]] = {}
    /\ \A u \in Users : pc[u] \in Joining \cup {"keySend"} => result[conn[u]] = "idle"
    /\ \A c \in Conns : result[c] # "calling"

(* A call has its quest for itself until it is sent or refused.            *)
Asking ==
    /\ \A u \in Users : op[u] \in Quests =>
          /\ result[op[u]] # "idle"
          /\ pc[u] \notin {"wait", "return"} => result[op[u]] = "calling"
          /\ \A v \in Users : op[v] = op[u] => v = u
    /\ \A u \in Users : pc[u] \in {"copy", "send", "wait"} => op[u] \in Quests
    /\ \A u \in Users : pc[u] = "idle" => op[u] = "none"
    /\ \A u \in Users : pc[u] \in {"take"} \cup Closing => back[u] # "idle"
-----------------------------------------------------------------------------
(* Steps that leave the books alone.                                       *)
SameFills == \A w \in IOThreads : pc'[w] = "fill" <=> pc[w] = "fill"
SameLive == \A c \in Conns : callbacks[c] # {} => (Live(c)' <=> Live(c))

Frame ==
    /\ SameFills /\ SameLive
    /\ pc[Timer] = "expire" => pc'[Timer] = "expire"

bookVars == <<result, callbacks, sent, reading, expired, inbox, served>>
Leaves == Frame /\ UNCHANGED bookVars

LEMMA RegisteredIs ==
    ASSUME NEW q
    PROVE  Registered(q) <=> \/ \E c \in Conns : q \in callbacks[c] /\ Live(c)
                             \/ \E w \in IOThreads : pc[w] = "fill" /\ reading[w] = q
                             \/ q \in expired
  BY DEF Registered, Live

LEMMA LeavesBooks ==
    ASSUME Data, Books, Leaves
    PROVE  Books'
<1> USE DEF Leaves, Frame, SameFills, SameLive, bookVars
<1>1. Kept'
  BY DEF Books, Kept
<1>2. Reads' /\ Expiring' /\ Told'
  BY DEF Books, Reads, Expiring, Told
<1>3. NoOrphan'
  <2> SUFFICES ASSUME NEW q \in Asks, result'[q] = "pending"
               PROVE  Registered(q)'
    BY DEF NoOrphan
  <2>1. Registered(q)
    BY DEF Books, NoOrphan
  <2>2. CASE \E c \in Conns : q \in callbacks[c] /\ Live(c)
    <3>1. PICK c \in Conns : q \in callbacks[c] /\ Live(c)
      BY <2>2
    <3>2. q \in callbacks'[c] /\ Live(c)'
      BY <3>1
    <3> QED
      BY <3>2 DEF Registered, Live
  <2>3. CASE \E w \in IOThreads : pc[w] = "fill" /\ reading[w] = q
    BY <2>3 DEF Registered
  <2>4. CASE q \in expired
    BY <2>4 DEF Registered
  <2> QED
    BY <2>1, <2>2, <2>3, <2>4, RegisteredIs
<1> QED
  BY <1>1, <1>2, <1>3 DEF Books

(* Who is live after a step of one thread.                                 *)
LEMMA LiveSame ==
    ASSUME Life, NEW t \in Threads, NEW p, pc' = [pc EXCEPT ![t] = p],
           pc[t] # "clear", p # "clear",
           NEW x, conn' = [conn EXCEPT ![t] = x],
           UNCHANGED <<fd, slot>>
    PROVE  SameLive
<1>1. \A y \in Threads : pc'[y] = "clear" <=> pc[y] = "clear"
  BY DEF Life, Typed
<1>2. \A y \in Threads : pc[y] = "clear" => conn'[y] = conn[y]
  BY DEF Life, Typed
<1> QED
  BY <1>1, <1>2 DEF SameLive, Live, Mapped

(* A connection leaves the map to be cleared.                              *)
LEMMA LiveTaken ==
    ASSUME Life, NEW t \in Threads, pc[t] # "clear", NEW f \in Fds, slot[f] # 0,
           slot' = [slot EXCEPT ![f] = 0], UNCHANGED fd,
           pc' = [pc EXCEPT ![t] = "clear"], conn' = [conn EXCEPT ![t] = slot[f]]
    PROVE  SameLive
<1> USE ConnsAssumption
<1>1. slot[f] \in Conns /\ fd[slot[f]] = f
  BY DEF Life, Typed, InMap, Conns
<1>2. /\ \A y \in Threads : y # t => pc'[y] = pc[y] /\ conn'[y] = conn[y]
      /\ pc'[t] = "clear" /\ conn'[t] = slot[f]
  BY DEF Life, Typed
<1>3. /\ \A g \in Fds : g # f => slot'[g] = slot[g]
      /\ slot'[f] = 0
  BY DEF Life, Typed
<1>4. ASSUME NEW c \in Conns PROVE Live(c)' <=> Live(c)
  <2>1. CASE c = slot[f]
    BY <1>1, <1>2, <2>1 DEF Live, Mapped
  <2>2. CASE c # slot[f]
    <3>1. Mapped(c)' <=> Mapped(c)
      BY <1>3, <2>2 DEF Mapped, Conns
    <3>2. (\E y \in Threads : pc[y] = "clear" /\ conn[y] = c)'
          <=> \E y \in Threads : pc[y] = "clear" /\ conn[y] = c
      BY <1>2, <2>2
    <3> QED
      BY <3>1, <3>2 DEF Live
  <2> QED
    BY <2>1, <2>2
<1> QED
  BY <1>4 DEF SameLive

(* The frame of a step of one thread that neither begins nor ends clearing,*)
(* filling or expiring.                                                    *)
Plain == Places \ {"clear", "fill", "expire"}

LEMMA PlainFrame ==
    ASSUME Life, NEW t \in Threads, NEW p, pc' = [pc EXCEPT ![t] = p],
           pc[t] \in Plain, p \in Plain \cup {"clear"},
           SameLive
    PROVE  Frame
<1>1. SameFills
  BY DEF Life, Typed, Plain, SameFills, Threads
<1>2. pc[Timer] = "expire" => pc'[Timer] = "expire"
  BY DEF Life, Typed, Plain, Threads
<1> QED
  BY <1>1, <1>2 DEF Frame

-----------------------------------------------------------------------------
(* The steps of a user that ask nothing.                                   *)
SInv == Data /\ Books /\ Silent /\ Asking

(* User u moves to p in the operation o, with b to go back to and          *)
(* connection x.                                                           *)
Strolls(u, o, p, b, x) ==
    /\ pc[u] \in Plain /\ p \in Plain \cup {"clear"} /\ pc' = [pc EXCEPT ![u] = p]
    /\ o \in {"none", "connect", "close", "reconnect"} \cup Quests
    /\ op' = [op EXCEPT ![u] = o]
    /\ back' = [back EXCEPT ![u] = b] /\ conn' = [conn EXCEPT ![u] = x]
    /\ status' \in {"NoConnected", "Connecting", "Connected"}
    /\ made' \in {made, made + 1} /\ UNCHANGED <<hungup, bookVars>>
    /\ o \in Quests => o = op[u] /\ (p \notin {"wait", "return"} => pc[u] \notin {"wait", "return"})
    /\ p \in {"copy", "send", "wait"} => o \in Quests
    /\ p = "idle" => o = "none"
    /\ p \in {"take"} \cup Closing => b # "idle"
    /\ p \in Joining => callbacks[x] = {}
    /\ p \in Joining \cup {"keySend"} => result[x] = "idle"

LEMMA StrollsKeeps ==
    ASSUME IInv, SInv, NEW u \in Users, NEW o, NEW p, NEW b, NEW x, Strolls(u, o, p, b, x)
    PROVE  Data' /\ Silent' /\ Asking'
<1> USE ConnsAssumption DEF Strolls, bookVars
<1>1. u \in Threads /\ Users \subseteq Threads
  BY DEF Threads
<1>2. /\ \A v \in Users : v # u => pc'[v] = pc[v] /\ conn'[v] = conn[v] /\ back'[v] = back[v]
                                   /\ op'[v] = op[v]
      /\ pc'[u] = p /\ conn'[u] = x /\ back'[u] = b /\ op'[u] = o
  BY <1>1 DEF IInv, Life, Typed, Control, Shaped, SInv, Data
<1>3. Data'
  BY DEF SInv, Data
<1>4. Silent'
  <2>1. \A c \in Conns : c > made' => c > made
    BY DEF Conns, IInv, Life, Typed
  <2> QED
    BY <1>2, <2>1 DEF SInv, Silent
<1>5. Asking'
  BY <1>2 DEF SInv, Asking
<1> QED
  BY <1>3, <1>4, <1>5

LEMMA StrollsLive ==
    ASSUME IInv, SInv, NEW u \in Users, NEW o, NEW p, NEW b, NEW x, Strolls(u, o, p, b, x),
           SameLive
    PROVE  SInv'
<1>1. u \in Threads
  BY DEF Threads
<1>2. Frame
  BY <1>1, PlainFrame DEF IInv, Strolls
<1>3. Books'
  BY <1>2, LeavesBooks DEF Leaves, SInv, Strolls
<1> QED
  BY <1>3, StrollsKeeps DEF SInv

LEMMA StrollsStill ==
    ASSUME IInv, SInv, NEW u \in Users, NEW o, NEW p, NEW b, NEW x, Strolls(u, o, p, b, x),
           p # "clear", UNCHANGED <<fd, slot>>
    PROVE  SInv'
<1>1. u \in Threads
  BY DEF Threads
<1>2. SameLive
  BY <1>1, LiveSame DEF IInv, Strolls, Plain
<1> QED
  BY <1>2, StrollsLive

LEMMA SameCall ==
    ASSUME IInv, SInv, NEW u \in Users
    PROVE  /\ u \in Threads
           /\ op = [op EXCEPT ![u] = op[u]]
           /\ pc = [pc EXCEPT ![u] = pc[u]]
           /\ conn = [conn EXCEPT ![u] = conn[u]]
           /\ back = [back EXCEPT ![u] = back[u]]
           /\ op[u] \in {"none", "connect", "close", "reconnect"} \cup Quests
           /\ status \in {"NoConnected", "Connecting", "Connected"}
           /\ {"none", "connect", "close", "reconnect"} \cap Quests = {}
  BY QuestsAssumption DEF IInv, Life, Typed, Control, Shaped, SInv, Data, Threads

LEMMA IdleSteps ==
    ASSUME IInv, SInv, NEW u \in Users,
           \/ CallConnect(u) \/ CallClose(u) \/ EnterClose(u) \/ CloseNothing(u)
           \/ ConnectDone(u) \/ ConnectBegin(u) \/ SocketFails(u) \/ KeyAgreed(u) \/ KeyRefused(u)
           \/ CopyInfo(u) \/ TakeAnswer(u) \/ Return(u)
    PROVE  SInv'
<1> USE SameCall DEF Begin, Goto, EndCall, Plain, Places, UserPlaces, ConnectPlaces, Closing, Joining,
        clientVars, socketVars, engineVars, workVars
<1>1. CASE CallConnect(u)
  <2>1. Strolls(u, "connect", "connect", back[u], conn[u])
    BY <1>1 DEF CallConnect, Strolls, bookVars
  <2> QED
    BY <1>1, <2>1, StrollsStill DEF CallConnect
<1>2. CASE CallClose(u)
  <2>1. PICK o \in {"close", "reconnect"} : Begin(u, o, "close")
    BY <1>2 DEF CallClose
  <2>2. Strolls(u, o, "close", back[u], conn[u])
    BY <1>2, <2>1 DEF CallClose, Strolls, bookVars
  <2> QED
    BY <1>2, <2>2, StrollsStill DEF CallClose
<1>3. CASE EnterClose(u)
  <2>1. PICK p \in {"close", "connect"} : Goto(u, p)
    BY <1>3 DEF EnterClose
  <2>2. Strolls(u, op[u], p, back[u], conn[u])
    BY <1>3, <2>1 DEF EnterClose, Strolls, bookVars
  <2> QED
    BY <1>3, <2>2, StrollsStill DEF EnterClose
<1>4. CASE CloseNothing(u)
  <2>1. Strolls(u, op[u], AfterClose(u), back[u], conn[u])
    BY <1>4 DEF CloseNothing, AfterClose, Strolls, bookVars
  <2> QED
    BY <1>4, <2>1, StrollsStill DEF CloseNothing, AfterClose
<1>5. CASE ConnectDone(u)
  <2>1. Strolls(u, op[u], AfterConnect(u), back[u], conn[u])
    BY <1>5 DEF ConnectDone, AfterConnect, Sending, Strolls, bookVars
  <2> QED
    BY <1>5, <2>1, StrollsStill DEF ConnectDone, AfterConnect
<1>6. CASE ConnectBegin(u)
  <2>1. Strolls(u, op[u], "socket", back[u], conn[u])
    BY <1>6 DEF ConnectBegin, Strolls, bookVars
  <2> QED
    BY <1>6, <2>1, StrollsStill DEF ConnectBegin
<1>7. CASE SocketFails(u)
  <2>1. Strolls(u, op[u], "guard", back[u], conn[u])
    BY <1>7 DEF SocketFails, Strolls, bookVars
  <2> QED
    BY <1>7, <2>1, StrollsStill DEF SocketFails
<1>8. CASE KeyAgreed(u)
  <2>1. Strolls(u, op[u], "install", back[u], conn[u])
    BY <1>8 DEF KeyAgreed, Strolls, bookVars
  <2> QED
    BY <1>8, <2>1, StrollsStill DEF KeyAgreed
<1>9. CASE KeyRefused(u)
  <2>1. Strolls(u, op[u], "take", "guard", conn[u])
    BY <1>9 DEF KeyRefused, Strolls, bookVars
  <2> QED
    BY <1>9, <2>1, StrollsStill DEF KeyRefused
<1>10. CASE CopyInfo(u)
  <2>1. op[u] \in Quests
    BY <1>10 DEF CopyInfo, SInv, Asking
  <2>2. Strolls(u, op[u], "send", back[u], info)
    BY <1>10, <2>1 DEF CopyInfo, Strolls, bookVars
  <2> QED
    BY <1>10, <2>2, StrollsStill DEF CopyInfo
<1>11. CASE TakeAnswer(u)
  <2>1. Strolls(u, op[u], "return", back[u], conn[u])
    BY <1>11 DEF TakeAnswer, Strolls, bookVars
  <2> QED
    BY <1>11, <2>1, StrollsStill DEF TakeAnswer
<1>12. CASE Return(u)
  <2>1. Strolls(u, "none", "idle", back[u], conn[u])
    BY <1>12 DEF Return, Strolls, bookVars
  <2> QED
    BY <1>12, <2>1, StrollsStill DEF Return
<1> QED
  BY <1>1, <1>2, <1>3, <1>4, <1>5, <1>6, <1>7, <1>8, <1>9, <1>10, <1>11, <1>12

(* The map's entry of a connection without callbacks changes.              *)
LEMMA LiveEntry ==
    ASSUME Life, NEW t \in Threads, NEW p, pc' = [pc EXCEPT ![t] = p],
           pc[t] # "clear", p # "clear",
           NEW x, conn' = [conn EXCEPT ![t] = x],
           NEW d, callbacks[d] = {}, UNCHANGED fd,
           \A f \in Fds : slot'[f] = slot[f] \/ {slot[f], slot'[f]} \subseteq {0, d}
    PROVE  SameLive
<1> USE ConnsAssumption
<1>1. \A y \in Threads : pc'[y] = "clear" <=> pc[y] = "clear"
  BY DEF Life, Typed
<1>2. \A y \in Threads : pc[y] = "clear" => conn'[y] = conn[y]
  BY DEF Life, Typed
<1>3. ASSUME NEW c \in Conns, callbacks[c] # {} PROVE Mapped(c)' <=> Mapped(c)
  <2>1. c # d /\ c # 0
    BY <1>3 DEF Conns
  <2>2. \A f \in Fds : slot'[f] = c <=> slot[f] = c
    BY <2>1
  <2> QED
    BY <2>2 DEF Mapped
<1> QED
  BY <1>1, <1>2, <1>3 DEF SameLive, Live

LEMMA SwapInv ==
    ASSUME IInv, SInv, NEW u \in Users, CloseSwap(u)
    PROVE  SInv'
<1> USE SameCall DEF Goto, Plain, Places, UserPlaces, ConnectPlaces, Closing, Joining,
        socketVars, engineVars, workVars
<1>1. AfterClose(u) \in {"return", "connect"}
  BY DEF AfterClose
<1>2. Strolls(u, op[u], "take", AfterClose(u), info)
  BY <1>1 DEF CloseSwap, Strolls, bookVars
<1> QED
  BY <1>2, StrollsStill DEF CloseSwap

LEMMA InstallInv ==
    ASSUME IInv, SInv, NEW u \in Users, Install(u)
    PROVE  SInv'
<1> USE SameCall DEF Goto, Plain, Places, UserPlaces, ConnectPlaces, Closing, Joining,
        socketVars, engineVars, workVars
<1>1. pc[u] = "install" /\ info = curr[u]
  BY DEF Install, IInv, Control, Connecting, InConnect
<1>2. AfterConnect(u) \in {"copy", "return"} /\ (AfterConnect(u) = "copy" => op[u] \in Quests)
  BY DEF AfterConnect, Sending
<1>3. Strolls(u, op[u], AfterConnect(u), back[u], 0)
  BY <1>1, <1>2 DEF Install, Strolls, bookVars
<1> QED
  BY <1>2, <1>3, StrollsStill DEF Install

LEMMA TakeInv ==
    ASSUME IInv, SInv, NEW u \in Users, TakeByInfo(u)
    PROVE  SInv'
<1> USE SameCall DEF Goto, Plain, Places, UserPlaces, ConnectPlaces, Closing, Joining,
        clientVars, socketVars, workVars
<1>1. pc[u] = "take" /\ back[u] \in {"return", "connect", "guard"}
  BY DEF TakeByInfo, SInv, Asking, IInv, Control, Shaped
<1>2. CASE Mapped(conn[u])
  <2>1. PICK f \in Fds : fd[conn[u]] = f /\ slot[f] = conn[u] /\ conn[u] \in Conns
    BY <1>2 DEF Mapped
  <2>2. slot[f] # 0
    BY <2>1, ConnsAssumption DEF Conns
  <2>3. /\ slot' = [slot EXCEPT ![f] = 0] /\ pc' = [pc EXCEPT ![u] = "clear"]
        /\ UNCHANGED <<fd, conn, back, op, status, made, hungup>> /\ UNCHANGED bookVars
    BY <1>2, <2>1 DEF TakeByInfo, Take, bookVars
  <2>4. conn' = [conn EXCEPT ![u] = slot[f]]
    BY <2>1, <2>3
  <2>5. SameLive
    BY <1>1, <2>2, <2>3, <2>4, LiveTaken DEF IInv
  <2>6. Strolls(u, op[u], "clear", back[u], conn[u])
    BY <1>1, <2>3 DEF Strolls
  <2> QED
    BY <2>5, <2>6, StrollsLive
<1>3. CASE ~Mapped(conn[u])
  <2>1. Strolls(u, op[u], back[u], "idle", 0)
    BY <1>1, <1>3 DEF TakeByInfo, Strolls, bookVars
  <2>2. UNCHANGED <<fd, slot>>
    BY <1>3 DEF TakeByInfo
  <2> QED
    BY <1>1, <2>1, <2>2, StrollsStill
<1> QED
  BY <1>2, <1>3

LEMMA SocketInv ==
    ASSUME IInv, SInv, NEW u \in Users, SocketConnect(u)
    PROVE  SInv'
<1> USE SameCall, ConnsAssumption DEF Plain, Places, UserPlaces, ConnectPlaces, Closing, Joining
<1> DEFINE d == made + 1
<1>1. PICK f \in Fds : fd' = [fd EXCEPT ![d] = f]
  BY DEF SocketConnect
<1>2. /\ pc[u] = "socket" /\ pc' = [pc EXCEPT ![u] = "join"] /\ conn' = [conn EXCEPT ![u] = d]
      /\ made < MaxConns /\ made' = made + 1
      /\ UNCHANGED <<slot, back, op, status, hungup>> /\ UNCHANGED bookVars
  BY DEF SocketConnect, Goto, clientVars, engineVars, workVars, bookVars
<1>3. d \in Conns /\ d > made
  BY <1>2 DEF Conns, IInv, Life, Typed
<1>4. callbacks[d] = {} /\ result[d] = "idle"
  BY <1>3 DEF SInv, Silent
<1>5. Strolls(u, op[u], "join", back[u], d)
  BY <1>2, <1>4 DEF Strolls
<1>6. SameLive
  <2>1. \A y \in Threads : (pc'[y] = "clear" <=> pc[y] = "clear")
                           /\ (pc[y] = "clear" => conn'[y] = conn[y])
    BY <1>2 DEF IInv, Life, Typed
  <2>2. ASSUME NEW c \in Conns, callbacks[c] # {} PROVE Mapped(c)' <=> Mapped(c)
    <3>1. c # d
      BY <1>4, <2>2
    <3>2. fd'[c] = fd[c] /\ UNCHANGED slot
      BY <1>1, <1>2, <3>1 DEF IInv, Life, Typed
    <3> QED
      BY <3>2 DEF Mapped
  <2> QED
    BY <2>1, <2>2 DEF SameLive, Live
<1> QED
  BY <1>5, <1>6, StrollsLive

LEMMA JoinInv ==
    ASSUME IInv, SInv, NEW u \in Users, JoinMap(u) \/ EpollAdd(u) \/ EpollAddFails(u)
    PROVE  SInv'
<1> USE SameCall DEF Goto, Plain, Places, UserPlaces, ConnectPlaces, Closing, Joining,
        clientVars, socketVars, workVars
<1> DEFINE d == conn[u]
<1>1. pc[u] \in Joining /\ pc[u] \in Holding
  BY DEF JoinMap, EpollAdd, EpollAddFails, Holding
<1>2. callbacks[d] = {} /\ result[d] = "idle"
  BY <1>1 DEF SInv, Silent
<1>3. fd[d] \in Fds /\ slot[fd[d]] \in {0, d} /\ slot \in [Fds -> 0 .. MaxConns]
  BY <1>1, HoldingOpen, OwnSlot DEF IInv, Life, Typed
<1>4. CASE JoinMap(u)
  <2>1. Strolls(u, op[u], "epollAdd", back[u], d)
    BY <1>2, <1>4 DEF JoinMap, Strolls, bookVars
  <2>2. \A f \in Fds : slot'[f] = slot[f] \/ {slot[f], slot'[f]} \subseteq {0, d}
    BY <1>3, <1>4 DEF JoinMap
  <2>3. pc[u] # "clear" /\ UNCHANGED fd
    BY <1>4 DEF JoinMap
  <2>4. SameLive
    BY <1>2, <2>1, <2>2, <2>3, LiveEntry DEF IInv, Strolls
  <2> QED
    BY <2>1, <2>4, StrollsLive
<1>5. CASE EpollAdd(u)
  <2>1. PICK p \in {"keySend", "install"} : Goto(u, p)
    BY <1>5 DEF EpollAdd
  <2>2. Strolls(u, op[u], p, back[u], d)
    BY <1>2, <1>5, <2>1 DEF EpollAdd, Strolls, bookVars
  <2> QED
    BY <1>5, <2>2, StrollsStill DEF EpollAdd
<1>6. CASE EpollAddFails(u)
  <2>1. Strolls(u, op[u], "reset", "guard", d)
    BY <1>2, <1>6 DEF EpollAddFails, Strolls, bookVars
  <2>2. \A f \in Fds : slot'[f] = slot[f] \/ {slot[f], slot'[f]} \subseteq {0, d}
    BY <1>3, <1>6 DEF EpollAddFails, Take
  <2>3. pc[u] # "clear" /\ UNCHANGED fd
    BY <1>6 DEF EpollAddFails
  <2>4. SameLive
    BY <1>2, <2>1, <2>2, <2>3, LiveEntry DEF IInv, Strolls
  <2> QED
    BY <2>1, <2>4, StrollsLive
<1> QED
  BY <1>4, <1>5, <1>6

-----------------------------------------------------------------------------
(* A connection is deleted: nobody waits for what its map still held.      *)
LEMMA DeleteBooks ==
    ASSUME IInv, SInv, NEW d \in Conns, Delete(d), ~Live(d) \/ callbacks[d] = {},
           UNCHANGED <<result, reading, expired, served>>, SameFills,
           pc[Timer] = "expire" => pc'[Timer] = "expire",
           \A c \in Conns : c # d => (Live(c)' <=> Live(c))
    PROVE  Books'
<1>1. /\ \A c \in Conns : c # d => callbacks'[c] = callbacks[c] /\ sent'[c] = sent[c]
                                    /\ inbox'[c] = inbox[c]
      /\ callbacks'[d] = {} /\ sent'[d] = {} /\ inbox'[d] = {}
  BY DEF Delete, SInv, Data
<1>2. Kept'
  BY <1>1 DEF SInv, Books, Kept
<1>3. Reads' /\ Expiring'
  BY <1>1 DEF SInv, Books, Reads, Expiring, SameFills
<1>4. Told'
  BY <1>1 DEF SInv, Books, Told
<1>5. NoOrphan'
  <2> SUFFICES ASSUME NEW q \in Asks, result'[q] = "pending"
               PROVE  Registered(q)'
    BY DEF NoOrphan
  <2>1. Registered(q)
    BY DEF SInv, Books, NoOrphan
  <2>2. CASE \E c \in Conns : q \in callbacks[c] /\ Live(c)
    <3>1. PICK c \in Conns : q \in callbacks[c] /\ Live(c)
      BY <2>2
    <3>2. c # d
      BY <3>1
    <3>3. q \in callbacks'[c] /\ Live(c)'
      BY <1>1, <3>1, <3>2
    <3> QED
      BY <3>3 DEF Registered, Live
  <2>3. CASE \E w \in IOThreads : pc[w] = "fill" /\ reading[w] = q
    BY <2>3 DEF Registered, SameFills
  <2>4. CASE q \in expired
    BY <2>4 DEF Registered
  <2> QED
    BY <2>1, <2>2, <2>3, <2>4, RegisteredIs
<1> QED
  BY <1>2, <1>3, <1>4, <1>5 DEF Books

LEMMA DeleteData ==
    ASSUME Data, NEW d \in Conns, Delete(d), UNCHANGED <<status, op, reading, expired, served, result>>
    PROVE  Data'
  BY DEF Data, Delete

LEMMA PrepareInv ==
    ASSUME IInv, SInv, NEW u \in Users, PrepareFails(u)
    PROVE  SInv'
<1> DEFINE d == conn[u]
<1>1. pc[u] = "join" /\ u \in Threads /\ Users \subseteq Threads /\ d \in Conns
  BY DEF PrepareFails, IInv, Life, Joiners, Joining, Unseen, Threads
<1>2. /\ pc' = [pc EXCEPT ![u] = "guard"] /\ conn' = [conn EXCEPT ![u] = 0] /\ Delete(d)
      /\ UNCHANGED <<status, op, back, made, slot, reading, expired, served, result>>
  BY DEF PrepareFails, Goto, clientVars, engineVars
<1>3. callbacks[d] = {}
  BY <1>1 DEF SInv, Silent, Joining
<1>4. /\ \A v \in Threads : v # u => pc'[v] = pc[v] /\ conn'[v] = conn[v]
      /\ pc'[u] = "guard" /\ conn'[u] = 0
  BY <1>1, <1>2 DEF IInv, Life, Typed
<1>5. /\ \A c \in Conns : c # d => fd'[c] = fd[c] /\ callbacks'[c] = callbacks[c]
      /\ callbacks'[d] = {}
  BY <1>1, <1>2 DEF Delete, IInv, Life, Typed, SInv, Data
<1>6. \A c \in Conns : c # d => (Live(c)' <=> Live(c))
  <2> SUFFICES ASSUME NEW c \in Conns, c # d PROVE Live(c)' <=> Live(c)
    OBVIOUS
  <2>1. Mapped(c)' <=> Mapped(c)
    BY <1>2, <1>5 DEF Mapped
  <2>2. \A y \in Threads : pc'[y] = "clear" /\ conn'[y] = c <=> pc[y] = "clear" /\ conn[y] = c
    BY <1>1, <1>4
  <2> QED
    BY <2>1, <2>2 DEF Live
<1>7. SameFills /\ (pc[Timer] = "expire" => pc'[Timer] = "expire")
  BY <1>1, <1>4 DEF SameFills, Threads
<1>8. Books'
  BY <1>1, <1>2, <1>3, <1>6, <1>7, DeleteBooks
<1>9. Data'
  BY <1>1, <1>2, DeleteData DEF SInv
<1>10. Silent'
  <2>1. \A c \in Conns : callbacks[c] = {} => callbacks'[c] = {}
    BY <1>5
  <2>2. \A v \in Users : pc[v] \in Joining => conn[v] \in Conns
    BY DEF IInv, Life, Joiners, Unseen
  <2>3. \A v \in Users : pc'[v] \in Joining \cup {"keySend"} =>
           pc'[v] = pc[v] /\ conn'[v] = conn[v]
    BY <1>1, <1>4 DEF Joining
  <2> QED
    BY <1>2, <2>1, <2>2, <2>3 DEF SInv, Silent
<1>11. Asking'
  BY <1>1, <1>2, <1>4 DEF SInv, Asking, Closing
<1> QED
  BY <1>8, <1>9, <1>10, <1>11 DEF SInv

LEMMA DropInv ==
    ASSUME IInv, SInv, NEW d \in Conns, DropConnection(d)
    PROVE  SInv'
<1>1. /\ bin[d] = "waiting" /\ Delete(d)
      /\ UNCHANGED <<status, op, pc, conn, back, made, slot, reading, expired, served, result>>
  BY DEF DropConnection, clientVars, threadVars, engineVars
<1>2. ~Live(d)
  BY <1>1, ConnsAssumption DEF Live, Mapped, IInv, Life, InMap, Closers, Closing, Conns
<1>3. /\ \A c \in Conns : c # d => fd'[c] = fd[c] /\ callbacks'[c] = callbacks[c]
      /\ callbacks'[d] = {}
  BY <1>1 DEF Delete, IInv, Life, Typed, SInv, Data
<1>4. \A c \in Conns : c # d => (Live(c)' <=> Live(c))
  BY <1>1, <1>3 DEF Live, Mapped
<1>5. Books'
  BY <1>1, <1>2, <1>4, DeleteBooks DEF SameFills
<1>6. Data'
  BY <1>1, DeleteData DEF SInv
<1>7. Silent'
  <2>1. \A c \in Conns : callbacks[c] = {} => callbacks'[c] = {}
    BY <1>3
  <2>2. \A u \in Users : pc[u] \in Joining => conn[u] \in Conns
    BY DEF IInv, Life, Joiners, Unseen
  <2> QED
    BY <1>1, <2>1, <2>2 DEF SInv, Silent
<1>8. Asking'
  BY <1>1 DEF SInv, Asking
<1> QED
  BY <1>5, <1>6, <1>7, <1>8 DEF SInv

-----------------------------------------------------------------------------
(* The steps of the other threads, and of whoever closes.                  *)
UsersStand ==
    \A v \in Users :
        /\ conn'[v] = conn[v] /\ back'[v] = back[v]
        /\ pc'[v] = pc[v] \/ {pc[v], pc'[v]} \subseteq Closing

Settles ==
    \A q \in Asks : \/ result'[q] = result[q]
                    \/ result[q] = "pending" /\ result'[q] \in {"answer", "timeout", "closed"}

LEMMA StandingKeeps ==
    ASSUME IInv, SInv, UsersStand, Settles, UNCHANGED <<op, made>>,
           \A c \in Conns : callbacks'[c] \subseteq callbacks[c]
    PROVE  Silent' /\ Asking'
<1>1. \A v \in Users : pc[v] \in Joining \cup {"keySend"} => conn[v] \in Conns
  BY DEF IInv, Life, Joiners, Unseen, Control, Connecting
<1>2. \A v \in Users : pc'[v] \in Joining \cup {"keySend"} => pc'[v] = pc[v]
  BY DEF UsersStand, Joining, Closing
<1>3. Silent'
  BY <1>1, <1>2 DEF SInv, Silent, UsersStand, Settles, Asks
<1>4. ASSUME NEW u \in Users, op'[u] \in Quests
      PROVE  /\ result'[op'[u]] # "idle"
             /\ pc'[u] \notin {"wait", "return"} => result'[op'[u]] = "calling"
             /\ \A v \in Users : op'[v] = op'[u] => v = u
  <2>1. op[u] \in Quests /\ op[u] \in Asks
    BY <1>4 DEF Asks
  <2>2. pc'[u] \notin {"wait", "return"} => pc[u] \notin {"wait", "return"}
    BY DEF UsersStand, Closing
  <2> QED
    BY <2>1, <2>2 DEF SInv, Asking, Settles
<1>5. Asking'
  <2>1. \A v \in Users : pc'[v] \in {"copy", "send", "wait", "idle"} => pc'[v] = pc[v]
    BY DEF UsersStand, Closing
  <2>2. \A v \in Users : pc'[v] \in {"take"} \cup Closing => pc[v] \in {"take"} \cup Closing
    BY DEF UsersStand
  <2> QED
    BY <1>4, <2>1, <2>2 DEF SInv, Asking, UsersStand
<1> QED
  BY <1>3, <1>5

(* A thread of the engine moves to p with connection x.                    *)
Turns(t, p, x) ==
    /\ t \in Threads \ Users
    /\ pc[t] \in Plain /\ p \in Plain \cup {"clear"} /\ pc' = [pc EXCEPT ![t] = p]
    /\ conn' = [conn EXCEPT ![t] = x]
    /\ back' = back \/ back' = [back EXCEPT ![t] = "idle"]
    /\ status' \in {"NoConnected", "Connecting", "Connected"}
    /\ UNCHANGED <<op, made, hungup, bookVars>>

LEMMA TurnsLive ==
    ASSUME IInv, SInv, NEW t, NEW p, NEW x, Turns(t, p, x), SameLive
    PROVE  SInv'
<1> USE DEF Turns, bookVars
<1>1. UsersStand
  BY DEF UsersStand, IInv, Life, Typed, Control, Shaped, Threads
<1>2. Settles
  BY DEF Settles
<1>3. Silent' /\ Asking'
  BY <1>1, <1>2, StandingKeeps
<1>4. Data'
  BY DEF SInv, Data
<1>5. Frame
  BY PlainFrame DEF IInv
<1>6. Books'
  BY <1>5, LeavesBooks DEF Leaves, SInv
<1> QED
  BY <1>3, <1>4, <1>6 DEF SInv

LEMMA TurnsStill ==
    ASSUME IInv, SInv, NEW t, NEW p, NEW x, Turns(t, p, x), p # "clear", UNCHANGED <<fd, slot>>
    PROVE  SInv'
<1>1. SameLive
  BY LiveSame DEF IInv, Turns, Plain
<1> QED
  BY <1>1, TurnsLive

LEMMA SameThread ==
    ASSUME IInv, SInv, NEW t \in Threads
    PROVE  /\ pc = [pc EXCEPT ![t] = pc[t]]
           /\ conn = [conn EXCEPT ![t] = conn[t]]
           /\ status \in {"NoConnected", "Connecting", "Connected"}
  BY DEF IInv, Life, Typed, SInv, Data

LEMMA CloseInvs ==
    ASSUME IInv, SInv, NEW t \in Threads, Reset(t) \/ Reclaim(t)
    PROVE  SInv'
<1> USE SameThread DEF Goto, Plain, Places, UserPlaces, ConnectPlaces, Closing, Joining,
        clientVars, socketVars, engineVars, workVars
<1>1. CASE Reset(t)
  <2>1. CASE t \in Users
    <3>1. back[t] # "idle"
      BY <1>1, <2>1 DEF Reset, SInv, Asking
    <3>2. Strolls(t, op[t], "reclaim", back[t], conn[t])
      BY <1>1, <2>1, <3>1, SameCall DEF Reset, Strolls, bookVars
    <3> QED
      BY <1>1, <2>1, <3>2, StrollsStill DEF Reset
  <2>2. CASE t \notin Users
    <3>1. Turns(t, "reclaim", conn[t])
      BY <1>1, <2>2 DEF Reset, Turns, bookVars
    <3> QED
      BY <1>1, <3>1, TurnsStill DEF Reset
  <2> QED
    BY <2>1, <2>2
<1>2. CASE Reclaim(t)
  <2>1. CASE t \in Users
    <3>1. back[t] \in {"return", "connect", "guard"}
      BY <1>2, <2>1, SameCall DEF Reclaim, SInv, Asking, IInv, Control, Shaped
    <3>2. Strolls(t, op[t], back[t], "idle", 0)
      BY <1>2, <2>1, <3>1, SameCall DEF Reclaim, Strolls, bookVars
    <3> QED
      BY <1>2, <2>1, <3>1, <3>2, StrollsStill DEF Reclaim
  <2>2. CASE t \notin Users
    <3>1. back[t] = "idle"
      BY <2>2 DEF IInv, Control, Backs
    <3>2. Turns(t, "idle", 0)
      BY <1>2, <2>2, <3>1 DEF Reclaim, Turns, bookVars
    <3> QED
      BY <1>2, <3>2, TurnsStill DEF Reclaim
  <2> QED
    BY <2>1, <2>2
<1> QED
  BY <1>1, <1>2

LEMMA EngineQuiet ==
    ASSUME IInv, SInv, NEW w, NEW c,
           \/ Fetch(c) \/ ProcessIn \/ PingPick(c) \/ PingSend
           \/ w \in IOThreads /\ (Run(w, c) \/ ReadEnds(w) \/ Rearm(w) \/ RearmFails(w))
    PROVE  SInv'
<1> USE SameThread, Who DEF Goto, Plain, Places, UserPlaces, WorkPlaces, LoopPlaces, TimerPlaces,
        clientVars, socketVars, engineVars, workVars
<1>1. CASE Fetch(c)
  <2>1. Turns(Loop, "event", conn[Loop])
    BY <1>1 DEF Fetch, Turns, bookVars
  <2> QED
    BY <1>1, <2>1, TurnsStill DEF Fetch
<1>2. CASE ProcessIn
  <2>1. Turns(Loop, "idle", conn[Loop])
    BY <1>2 DEF ProcessIn, Turns, bookVars
  <2> QED
    BY <1>2, <2>1, TurnsStill DEF ProcessIn
<1>3. CASE w \in IOThreads /\ Run(w, c)
  <2>1. PICK p \in {"rearm", "read"} : Goto(w, p)
    BY <1>3 DEF Run
  <2>2. Turns(w, p, c)
    BY <1>3, <2>1 DEF Run, Turns, bookVars
  <2> QED
    BY <1>3, <2>2, TurnsStill DEF Run
<1>4. CASE w \in IOThreads /\ ReadEnds(w)
  <2>1. PICK p \in {"rearm", "drop"} : Goto(w, p)
    BY <1>4 DEF ReadEnds
  <2>2. Turns(w, p, conn[w])
    BY <1>4, <2>1 DEF ReadEnds, Turns, bookVars
  <2> QED
    BY <1>4, <2>2, TurnsStill DEF ReadEnds
<1>5. CASE w \in IOThreads /\ Rearm(w)
  <2>1. Turns(w, "idle", 0)
    BY <1>5 DEF Rearm, Turns, bookVars
  <2> QED
    BY <1>5, <2>1, TurnsStill DEF Rearm
<1>6. CASE w \in IOThreads /\ RearmFails(w)
  <2>1. Turns(w, "drop", conn[w])
    BY <1>6 DEF RearmFails, Turns, bookVars
  <2> QED
    BY <1>6, <2>1, TurnsStill DEF RearmFails
<1>7. CASE PingPick(c)
  <2>1. Turns(Timer, "ping", c)
    BY <1>7 DEF PingPick, Turns, bookVars
  <2> QED
    BY <1>7, <2>1, TurnsStill DEF PingPick
<1>8. CASE PingSend
  <2>1. Turns(Timer, "idle", 0)
    BY <1>8 DEF PingSend, Turns, bookVars
  <2> QED
    BY <1>8, <2>1, TurnsStill DEF PingSend
<1> QED
  BY <1>1, <1>2, <1>3, <1>4, <1>5, <1>6, <1>7, <1>8

(* The loop, an I/O thread or the timeout thread takes a connection out.   *)
LEMMA TurnsTaken ==
    ASSUME IInv, SInv, NEW t, NEW f \in Fds, slot[f] # 0, Turns(t, "clear", slot[f]),
           slot' = [slot EXCEPT ![f] = 0], UNCHANGED fd
    PROVE  SInv'
<1>1. SameLive
  BY LiveTaken DEF IInv, Turns, Plain
<1> QED
  BY <1>1, TurnsLive

LEMMA TakesInvs ==
    ASSUME IInv, SInv, NEW w, NEW c,
           ProcessHup \/ KeepAliveLost(c) \/ (w \in IOThreads /\ Drop(w))
    PROVE  SInv'
<1> USE SameThread, Who DEF Goto, Plain, Places, UserPlaces, WorkPlaces, LoopPlaces, TimerPlaces,
        Closing, clientVars, socketVars, workVars
<1>1. CASE ProcessHup
  <2> DEFINE f == event.fd
  <2>1. f \in Fds /\ slot \in [Fds -> 0 .. MaxConns]
    BY <1>1 DEF ProcessHup, IInv, Life, Typed
  <2>2. slot' = [slot EXCEPT ![f] = 0] /\ UNCHANGED fd
    BY <1>1 DEF ProcessHup, Take
  <2>3. CASE slot[f] = 0
    <3>1. Turns(Loop, "idle", 0)
      BY <1>1, <2>3 DEF ProcessHup, Turns, bookVars
    <3>2. UNCHANGED slot
      BY <2>1, <2>2, <2>3
    <3> QED
      BY <2>2, <3>1, <3>2, TurnsStill
  <2>4. CASE slot[f] # 0
    <3>1. Turns(Loop, "clear", slot[f])
      BY <1>1, <2>4 DEF ProcessHup, Turns, bookVars
    <3> QED
      BY <2>1, <2>2, <2>4, <3>1, TurnsTaken
  <2> QED
    BY <2>3, <2>4
<1>2. CASE KeepAliveLost(c)
  <2>1. PICK f \in Fds : fd[c] = f /\ slot[f] = c
    BY <1>2 DEF KeepAliveLost, Mapped
  <2>2. slot[f] # 0 /\ slot' = [slot EXCEPT ![f] = 0] /\ UNCHANGED fd
    BY <1>2, <2>1, ConnsAssumption DEF KeepAliveLost, Take, Mapped, Conns
  <2>3. Turns(Timer, "clear", slot[f])
    BY <1>2, <2>1 DEF KeepAliveLost, Turns, bookVars
  <2> QED
    BY <2>2, <2>3, TurnsTaken
<1>3. CASE w \in IOThreads /\ Drop(w)
  <2> DEFINE f == fd[conn[w]]
  <2>1. pc[w] = "drop" /\ w \in Threads /\ pc[w] \in Holding
    BY <1>3 DEF Drop, Holding
  <2>2. f \in Fds /\ slot[f] \in {0, conn[w]} /\ slot \in [Fds -> 0 .. MaxConns]
    BY <2>1, HoldingOpen, OwnSlot DEF IInv, Life, Typed
  <2>3. slot' = [slot EXCEPT ![f] = 0] /\ UNCHANGED fd
    BY <1>3 DEF Drop, Take
  <2>4. CASE slot[f] = 0
    <3>1. Turns(w, "idle", 0)
      BY <1>3, <2>4 DEF Drop, LostRace, Turns, bookVars
    <3>2. UNCHANGED slot
      BY <2>2, <2>3, <2>4
    <3> QED
      BY <2>3, <3>1, <3>2, TurnsStill
  <2>5. CASE slot[f] # 0
    <3>1. Turns(w, "clear", conn[w])
      BY <1>3, <2>5 DEF Drop, LostRace, Turns, bookVars
    <3> QED
      BY <2>2, <2>3, <2>5, <3>1, TurnsTaken
  <2> QED
    BY <2>4, <2>5
<1> QED
  BY <1>1, <1>2, <1>3

(* The peer answers or closes.                                             *)
LEMMA PeerInv ==
    ASSUME IInv, SInv, PeerStep
    PROVE  SInv'
<1> USE DEF clientVars, threadVars, engineVars, workVars
<1>1. /\ UNCHANGED <<status, op, pc, conn, back, made, slot, fd, bin>>
      /\ UNCHANGED <<sent, callbacks, reading, expired, result>>
      /\ served \subseteq served'
  BY DEF PeerStep, PeerAnswers, PeerCloses
<1>2. Data' /\ \A c \in Conns : inbox'[c] \subseteq served'
  <2>1. ASSUME NEW c \in Conns, PeerCloses(c)
        PROVE  Data' /\ \A d \in Conns : inbox'[d] \subseteq served'
    BY <2>1 DEF PeerCloses, SInv, Data, Books, Told
  <2>2. ASSUME NEW c \in Conns, NEW q \in Asks, PeerAnswers(c, q)
        PROVE  Data' /\ \A d \in Conns : inbox'[d] \subseteq served'
    BY <2>2 DEF PeerAnswers, SInv, Data, Books, Told
  <2> QED
    BY <2>1, <2>2 DEF PeerStep
<1>3. Kept' /\ Expiring' /\ NoOrphan'
  BY <1>1 DEF SInv, Books, Kept, Expiring, NoOrphan, Registered, Live, Mapped
<1>4. Reads' /\ Told'
  BY <1>1, <1>2 DEF SInv, Books, Reads, Told
<1>5. Silent' /\ Asking'
  BY <1>1 DEF SInv, Silent, Asking
<1> QED
  BY <1>2, <1>3, <1>4, <1>5 DEF SInv, Books

-----------------------------------------------------------------------------
(* Quests are asked, sent and refused.                                     *)
LEMMA Unregistered ==
    ASSUME SInv, NEW q \in Asks, result[q] \in {"idle", "calling"}
    PROVE  /\ \A c \in Conns : q \notin callbacks[c] /\ q \notin sent[c]
           /\ q \notin expired
           /\ \A w \in IOThreads : pc[w] = "fill" => reading[w] # q
  BY DEF SInv, Books, Kept, Reads, Expiring, Told

LEMMA AskedBooks ==
    ASSUME SInv, Frame, NEW q \in Asks, result[q] \in {"idle", "calling"},
           NEW r \in {"calling", "refused"}, result' = [result EXCEPT ![q] = r],
           UNCHANGED <<callbacks, sent, reading, expired, inbox, served>>
    PROVE  Books'
<1> USE DEF Frame, SameFills, SameLive
<1>1. /\ \A k \in Asks : k # q => result'[k] = result[k]
      /\ result'[q] = r
      /\ \A c \in Conns : callbacks[c] \subseteq Asks /\ sent[c] \subseteq Asks
      /\ expired \subseteq Asks
  BY DEF SInv, Data
<1>2. /\ \A c \in Conns : q \notin callbacks[c] /\ q \notin sent[c]
      /\ q \notin expired
      /\ \A w \in IOThreads : pc[w] = "fill" => reading[w] # q
  BY Unregistered
<1>3. Kept'
  <2> SUFFICES ASSUME NEW c \in Conns, NEW k \in callbacks[c]
               PROVE  /\ result'[k] \notin {"idle", "calling"}
                      /\ Live(c)' => result'[k] = "pending"
                      /\ \A d \in Conns : k \in callbacks[d] => d = c
    BY DEF Kept
  <2>1. k \in Asks /\ k # q /\ callbacks[c] # {}
    BY <1>1, <1>2
  <2> QED
    BY <1>1, <2>1 DEF SInv, Books, Kept
<1>4. Reads'
  <2> SUFFICES ASSUME NEW w \in IOThreads, pc[w] = "fill"
               PROVE  /\ reading[w] \in served /\ result'[reading[w]] = "pending"
                      /\ reading[w] \notin expired
                      /\ \A c \in Conns : reading[w] \notin callbacks[c]
                      /\ \A x \in IOThreads : pc[x] = "fill" /\ reading[x] = reading[w] => x = w
    BY DEF Reads
  <2>1. reading[w] \in served /\ served \subseteq Asks
    BY DEF SInv, Books, Reads, Data
  <2> QED
    BY <1>1, <1>2, <2>1 DEF SInv, Books, Reads
<1>5. Expiring'
  BY <1>1, <1>2 DEF SInv, Books, Expiring
<1>6. Told'
  BY <1>1, <1>2 DEF SInv, Books, Told
<1>7. NoOrphan'
  <2> SUFFICES ASSUME NEW k \in Asks, result'[k] = "pending"
               PROVE  Registered(k)'
    BY DEF NoOrphan
  <2>1. k # q /\ Registered(k)
    BY <1>1 DEF SInv, Books, NoOrphan
  <2>2. CASE \E c \in Conns : k \in callbacks[c] /\ Live(c)
    <3>1. PICK c \in Conns : k \in callbacks'[c] /\ Live(c)'
      BY <2>2
    <3> QED
      BY <3>1 DEF Registered, Live
  <2>3. CASE \E w \in IOThreads : pc[w] = "fill" /\ reading[w] = k
    BY <2>3 DEF Registered
  <2>4. CASE k \in expired
    BY <2>4 DEF Registered
  <2> QED
    BY <2>1, <2>2, <2>3, <2>4, RegisteredIs
<1> QED
  BY <1>3, <1>4, <1>5, <1>6, <1>7 DEF Books

LEMMA RegisterBooks ==
    ASSUME SInv, Frame, NEW c \in Conns, NEW q \in Asks, result[q] \in {"idle", "calling"},
           Register(c, q), Live(c), \A d \in Conns : Live(d)' <=> Live(d),
           UNCHANGED <<reading, expired, inbox, served>>
    PROVE  Books'
<1> USE DEF Frame, SameFills
<1>1. /\ \A k \in Asks : k # q => result'[k] = result[k]
      /\ result'[q] = "pending"
      /\ \A d \in Conns : callbacks[d] \subseteq Asks /\ sent[d] \subseteq Asks
      /\ expired \subseteq Asks /\ served \subseteq Asks
      /\ \A d \in Conns : d # c => callbacks'[d] = callbacks[d] /\ sent'[d] = sent[d]
      /\ callbacks'[c] = callbacks[c] \cup {q} /\ sent'[c] = sent[c] \cup {q}
  BY DEF SInv, Data, Register
<1>2. /\ \A d \in Conns : q \notin callbacks[d] /\ q \notin sent[d]
      /\ q \notin expired
      /\ \A w \in IOThreads : pc[w] = "fill" => reading[w] # q
  BY Unregistered
<1>3. Kept'
  <2> SUFFICES ASSUME NEW d \in Conns, NEW k \in callbacks'[d]
               PROVE  /\ result'[k] \notin {"idle", "calling"}
                      /\ Live(d)' => result'[k] = "pending"
                      /\ \A e \in Conns : k \in callbacks'[e] => e = d
    BY DEF Kept
  <2>1. CASE k = q
    BY <1>1, <1>2, <2>1
  <2>2. CASE k # q
    <3>1. k \in callbacks[d] /\ result'[k] = result[k]
      BY <1>1, <2>2
    <3>2. \A e \in Conns : k \in callbacks'[e] => k \in callbacks[e]
      BY <1>1, <2>2
    <3> QED
      BY <3>1, <3>2 DEF SInv, Books, Kept
  <2> QED
    BY <2>1, <2>2
<1>4. Reads'
  <2> SUFFICES ASSUME NEW w \in IOThreads, pc[w] = "fill"
               PROVE  /\ reading[w] \in served /\ result'[reading[w]] = "pending"
                      /\ reading[w] \notin expired
                      /\ \A d \in Conns : reading[w] \notin callbacks'[d]
                      /\ \A x \in IOThreads : pc[x] = "fill" /\ reading[x] = reading[w] => x = w
    BY DEF Reads
  <2>1. reading[w] \in served /\ reading[w] # q /\ reading[w] \in Asks
    BY <1>1, <1>2 DEF SInv, Books, Reads
  <2>2. \A d \in Conns : reading[w] \in callbacks'[d] => reading[w] \in callbacks[d]
    BY <1>1, <2>1
  <2> QED
    BY <1>1, <2>1, <2>2 DEF SInv, Books, Reads
<1>5. Expiring'
  <2>1. \A k \in expired : \A d \in Conns : k \in callbacks'[d] => k \in callbacks[d]
    BY <1>1, <1>2
  <2> QED
    BY <1>1, <1>2, <2>1 DEF SInv, Books, Expiring
<1>6. Told'
  <2>1. \A d \in Conns : \A k \in sent'[d] : k = q \/ (k \in sent[d] /\ result'[k] = result[k])
    BY <1>1
  <2> QED
    BY <1>1, <2>1 DEF SInv, Books, Told
<1>7. NoOrphan'
  <2> SUFFICES ASSUME NEW k \in Asks, result'[k] = "pending"
               PROVE  Registered(k)'
    BY DEF NoOrphan
  <2>1. CASE k = q
    BY <1>1, <2>1 DEF Registered, Live
  <2>2. CASE k # q
    <3>1. Registered(k)
      BY <1>1, <2>2 DEF SInv, Books, NoOrphan
    <3>2. CASE \E d \in Conns : k \in callbacks[d] /\ Live(d)
      <4>1. PICK d \in Conns : k \in callbacks[d] /\ Live(d)
        BY <3>2
      <4>2. k \in callbacks'[d] /\ Live(d)'
        BY <1>1, <4>1
      <4> QED
        BY <4>2 DEF Registered, Live
    <3>3. CASE \E w \in IOThreads : pc[w] = "fill" /\ reading[w] = k
      BY <3>3 DEF Registered
    <3>4. CASE k \in expired
      BY <3>4 DEF Registered
    <3> QED
      BY <3>1, <3>2, <3>3, <3>4, RegisteredIs
  <2> QED
    BY <2>1, <2>2
<1> QED
  BY <1>3, <1>4, <1>5, <1>6, <1>7 DEF Books

(* User u moves to p in the operation o, with connection x, and the result *)
(* of q, until now its own, becomes r.                                     *)
Asked(u, o, p, b, x, q, r) ==
    /\ pc[u] \in Plain /\ p \in Plain \ (Joining \cup {"keySend"}) /\ pc' = [pc EXCEPT ![u] = p]
    /\ o \in {"none", "connect", "close", "reconnect"} \cup Quests
    /\ op' = [op EXCEPT ![u] = o]
    /\ back' = [back EXCEPT ![u] = b] /\ conn' = [conn EXCEPT ![u] = x]
    /\ p \notin Closing /\ (p = "take" => b # "idle")
    /\ p \in {"copy", "send", "wait"} => o \in Quests
    /\ p = "idle" => o = "none"
    /\ result[q] \in {"idle", "calling"}
    /\ r \in {"calling", "pending", "refused"} /\ (r = "calling" => q \in Quests)
    /\ result' = [result EXCEPT ![q] = r]
    /\ status' \in {"NoConnected", "Connecting", "Connected"}
    /\ UNCHANGED <<made, hungup, fd, slot>>
    /\ \/ q \in Quests /\ (\A v \in Users : v # u => op[v] # q) /\ o \in {"none", q}
          /\ (o = q => p \in {"wait", "return"} \/ r = "calling")
       \/ /\ q \in Conns /\ q = conn[u] /\ pc[u] = "keySend" /\ o = op[u]
          /\ p \notin {"wait", "return"}

LEMMA AskedKeeps ==
    ASSUME IInv, SInv, NEW u \in Users, NEW o, NEW p, NEW b, NEW x, NEW q \in Asks, NEW r,
           Asked(u, o, p, b, x, q, r),
           \A c \in Conns : callbacks'[c] = callbacks[c] \/ c = conn[u]
    PROVE  Silent' /\ Asking'
<1> USE ConnsAssumption, QuestsAssumption DEF Asked
<1>1. u \in Threads /\ Users \subseteq Threads
  BY DEF Threads
<1>2. /\ \A v \in Users : v # u => pc'[v] = pc[v] /\ conn'[v] = conn[v] /\ back'[v] = back[v]
                                   /\ op'[v] = op[v]
      /\ pc'[u] = p /\ conn'[u] = x /\ back'[u] = b /\ op'[u] = o
  BY <1>1 DEF IInv, Life, Typed, Control, Shaped, SInv, Data
<1>3. /\ \A k \in Asks : k # q => result'[k] = result[k]
      /\ result'[q] = r
  BY DEF SInv, Data
<1>4. conn[u] <= made
  BY <1>1 DEF IInv, Life, Fresh
<1>5. \A v \in Users : v # u /\ pc[v] \in Joining =>
         conn[v] # conn[u] /\ conn[v] \in Conns
  BY <1>1 DEF IInv, Life, Joiners, Unseen
<1>6. \A v \in Users : v # u /\ pc[v] \in Joining \cup {"keySend"} =>
         conn[v] # q /\ conn[v] \in Asks
  <2> SUFFICES ASSUME NEW v \in Users, v # u, pc[v] \in Joining \cup {"keySend"}
               PROVE  conn[v] # q /\ conn[v] \in Asks
    OBVIOUS
  <2>1. conn[v] \in Conns /\ InConnect(v)
    BY <1>5 DEF IInv, Control, Connecting, InConnect, ConnectPlaces, Joining
  <2>2. CASE q \in Quests
    BY <2>1, <2>2 DEF Asks
  <2>3. CASE pc[u] = "keySend"
    BY <2>1, <2>3 DEF IInv, Control, Connecting, InConnect, ConnectPlaces
  <2> QED
    BY <2>1, <2>2, <2>3
<1>7. Silent'
  <2>1. ASSUME NEW c \in Conns, c > made'
        PROVE  callbacks'[c] = {} /\ result'[c] = "idle"
    <3>1. c # conn[u] /\ c \in Asks
      BY <1>4, <2>1 DEF Conns, Asks, IInv, Life, Typed
    <3>2. c # q
      BY <3>1
    <3> QED
      BY <1>3, <2>1, <3>1, <3>2 DEF SInv, Silent
  <2>2. ASSUME NEW v \in Users, pc'[v] \in Joining
        PROVE  callbacks'[conn'[v]] = {}
    BY <1>2, <1>5, <2>2 DEF SInv, Silent
  <2>3. ASSUME NEW v \in Users, pc'[v] \in Joining \cup {"keySend"}
        PROVE  result'[conn'[v]] = "idle"
    BY <1>2, <1>3, <1>6, <2>3 DEF SInv, Silent
  <2>4. \A c \in Conns : result'[c] # "calling"
    BY <1>3 DEF SInv, Silent, Asks
  <2> QED
    BY <2>1, <2>2, <2>3, <2>4 DEF Silent
<1>8. Asking'
  <2>1. ASSUME NEW v \in Users, op'[v] \in Quests
        PROVE  /\ result'[op'[v]] # "idle"
               /\ pc'[v] \notin {"wait", "return"} => result'[op'[v]] = "calling"
               /\ \A y \in Users : op'[y] = op'[v] => y = v
    <3>1. op'[v] \in Asks
      BY <2>1 DEF Asks
    <3>2. CASE v # u
      <4>1. op'[v] = op[v] /\ op[v] # q
        BY <1>2, <2>1, <3>2
      <4>2. op[v] # o \/ o \notin Quests
        BY <2>1, <3>2, <4>1 DEF SInv, Asking
      <4> QED
        BY <1>2, <1>3, <2>1, <3>1, <3>2, <4>1, <4>2 DEF SInv, Asking
    <3>3. CASE v = u /\ o = q
      BY <1>2, <1>3, <2>1, <3>3 DEF SInv, Asking
    <3>4. CASE v = u /\ o # q
      <4>1. o = op[u] /\ pc[u] = "keySend" /\ op[u] \in Quests
        BY <1>2, <2>1, <3>4
      <4> QED
        BY <1>2, <1>3, <2>1, <3>1, <3>4, <4>1 DEF SInv, Asking
    <3> QED
      BY <3>2, <3>3, <3>4
  <2>2. ASSUME NEW v \in Users
        PROVE  /\ pc'[v] \in {"copy", "send", "wait"} => op'[v] \in Quests
               /\ pc'[v] = "idle" => op'[v] = "none"
               /\ pc'[v] \in {"take"} \cup Closing => back'[v] # "idle"
    BY <1>2 DEF SInv, Asking
  <2> QED
    BY <2>1, <2>2 DEF Asking
<1> QED
  BY <1>7, <1>8

LEMMA AskedFrame ==
    ASSUME IInv, SInv, NEW u \in Users, NEW o, NEW p, NEW b, NEW x, NEW q \in Asks, NEW r,
           Asked(u, o, p, b, x, q, r)
    PROVE  Frame /\ \A d \in Conns : Live(d)' <=> Live(d)
<1>1. u \in Threads /\ p # "clear" /\ pc[u] # "clear"
  BY DEF Threads, Asked, Plain
<1>2. \A y \in Threads : (pc'[y] = "clear" <=> pc[y] = "clear")
                         /\ (pc[y] = "clear" => conn'[y] = conn[y])
  BY <1>1 DEF Asked, IInv, Life, Typed
<1>3. \A d \in Conns : Live(d)' <=> Live(d)
  BY <1>2 DEF Live, Mapped, Asked
<1>4. SameLive
  BY <1>3 DEF SameLive
<1> QED
  BY <1>1, <1>3, <1>4, PlainFrame DEF IInv, Asked

LEMMA AskedInv ==
    ASSUME IInv, SInv, NEW u \in Users, NEW o, NEW p, NEW b, NEW x, NEW q \in Asks, NEW r,
           Asked(u, o, p, b, x, q, r), r # "pending",
           UNCHANGED <<callbacks, sent, reading, expired, inbox, served>>
    PROVE  SInv'
<1>1. Silent' /\ Asking'
  BY AskedKeeps
<1>2. Books'
  BY AskedFrame, AskedBooks DEF Asked
<1>3. Data'
  BY DEF SInv, Data, Asked
<1> QED
  BY <1>1, <1>2, <1>3 DEF SInv

LEMMA SentInv ==
    ASSUME IInv, SInv, NEW u \in Users, NEW o, NEW p, NEW b, NEW x, NEW q \in Asks,
           Asked(u, o, p, b, x, q, "pending"),
           Mapped(conn[u]), Register(conn[u], q),
           UNCHANGED <<reading, expired, inbox, served>>
    PROVE  SInv'
<1> DEFINE c == conn[u]
<1>1. c \in Conns /\ Live(c)
  BY DEF Mapped, Live
<1>2. \A d \in Conns : callbacks'[d] = callbacks[d] \/ d = c
  BY <1>1 DEF Register, SInv, Data
<1>3. Silent' /\ Asking'
  BY <1>2, AskedKeeps
<1>4. Books'
  BY <1>1, AskedFrame, RegisterBooks DEF Asked
<1>5. Data'
  BY <1>1 DEF SInv, Data, Asked, Register
<1> QED
  BY <1>3, <1>4, <1>5 DEF SInv

LEMMA CallSendInv ==
    ASSUME IInv, SInv, NEW u \in Users, NEW q \in Quests, CallSend(u, q)
    PROVE  SInv'
<1> USE SameCall DEF Plain, Places, UserPlaces, ConnectPlaces, Closing, Joining,
        clientVars, socketVars, engineVars
<1>1. q \in Asks /\ \A v \in Users : op[v] # q
  BY DEF Asks, CallSend, SInv, Asking
<1>2. PICK p \in {"copy", "enterClose"} : Begin(u, q, p)
  BY DEF CallSend
<1>3. Asked(u, q, p, back[u], conn[u], q, "calling")
  BY <1>1, <1>2 DEF CallSend, Begin, Goto, Asked
<1> QED
  BY <1>1, <1>3, AskedInv DEF CallSend

LEMMA RefuseSendInv ==
    ASSUME IInv, SInv, NEW u \in Users, NEW q \in Quests, RefuseSend(u, q)
    PROVE  SInv'
<1> USE SameCall DEF Plain, Places, UserPlaces, ConnectPlaces, Closing, Joining,
        clientVars, threadVars, socketVars, engineVars
<1>1. q \in Asks /\ (\A v \in Users : op[v] # q) /\ op[u] = "none"
  BY DEF Asks, RefuseSend, SInv, Asking
<1>2. Asked(u, "none", "idle", back[u], conn[u], q, "refused")
  BY <1>1 DEF RefuseSend, Asked
<1> QED
  BY <1>1, <1>2, AskedInv DEF RefuseSend

LEMMA GuardInv ==
    ASSUME IInv, SInv, NEW u \in Users, Guard(u)
    PROVE  SInv'
<1> USE SameCall DEF Plain, Places, UserPlaces, ConnectPlaces, Closing, Joining, EndCall, Goto,
        clientVars, socketVars, engineVars
<1>1. status' \in {"NoConnected", "Connecting", "Connected"}
  BY DEF Guard, Reopened
<1>2. CASE Sending(u)
  <2>1. op[u] \in Asks /\ (\A v \in Users : v # u => op[v] # op[u]) /\ result[op[u]] = "calling"
    BY <1>2 DEF Asks, Sending, Guard, SInv, Asking
  <2>2. Asked(u, "none", "idle", back[u], conn[u], op[u], "refused")
    BY <1>1, <1>2, <2>1 DEF Guard, Asked, Sending
  <2> QED
    BY <2>1, <2>2, AskedInv DEF Guard
<1>3. CASE ~Sending(u)
  <2>1. Strolls(u, "none", "idle", back[u], conn[u])
    BY <1>1, <1>3 DEF Guard, Strolls, bookVars
  <2> QED
    BY <2>1, StrollsStill DEF Guard
<1> QED
  BY <1>2, <1>3

LEMMA KeySendInv ==
    ASSUME IInv, SInv, NEW u \in Users, KeySend(u)
    PROVE  SInv'
<1> USE SameCall DEF Plain, Places, UserPlaces, ConnectPlaces, Closing, Joining, Goto,
        clientVars, socketVars, KeyOf
<1> DEFINE c == conn[u]
<1>1. pc[u] = "keySend" /\ c \in Conns /\ c \in Asks /\ result[c] = "idle"
  BY DEF KeySend, SInv, Silent, IInv, Control, Connecting, Asks
<1>2. CASE Found(c)
  <2>1. Register(c, c) /\ Mapped(c)
    BY <1>2 DEF KeySend, Found
  <2>2. result' = [result EXCEPT ![c] = "pending"]
    BY <2>1 DEF Register
  <2>3. Asked(u, op[u], "keyWait", back[u], c, c, "pending")
    BY <1>1, <1>2, <2>2 DEF KeySend, Asked
  <2> QED
    BY <1>1, <2>1, <2>3, SentInv DEF KeySend
<1>3. CASE ~Found(c)
  <2>1. Asked(u, op[u], "take", "guard", c, c, "refused")
    BY <1>1, <1>3 DEF KeySend, Asked
  <2> QED
    BY <1>1, <1>3, <2>1, AskedInv DEF KeySend
<1> QED
  BY <1>2, <1>3

LEMMA SendQuestInv ==
    ASSUME IInv, SInv, NEW u \in Users, SendQuest(u)
    PROVE  SInv'
<1> USE SameCall DEF Plain, Places, UserPlaces, ConnectPlaces, Closing, Joining, Goto,
        clientVars, socketVars
<1> DEFINE q == op[u]
<1>1. /\ pc[u] = "send" /\ q \in Quests /\ q \in Asks /\ result[q] = "calling"
      /\ \A v \in Users : v # u => op[v] # q
  BY DEF SendQuest, SInv, Asking, Asks
<1>2. CASE Found(conn[u])
  <2>1. Register(conn[u], q) /\ Mapped(conn[u])
    BY <1>2 DEF SendQuest, Found
  <2>2. PICK p \in {"wait", "return"} : Goto(u, p)
    BY <1>2 DEF SendQuest
  <2>3. result' = [result EXCEPT ![q] = "pending"]
    BY <2>1 DEF Register
  <2>4. Asked(u, q, p, back[u], 0, q, "pending")
    BY <1>1, <2>2, <2>3 DEF SendQuest, Asked
  <2> QED
    BY <1>1, <2>1, <2>4, SentInv DEF SendQuest
<1>3. CASE ~Found(conn[u])
  <2>1. Asked(u, q, "return", back[u], 0, q, "refused")
    BY <1>1, <1>3 DEF SendQuest, Asked
  <2> QED
    BY <1>1, <1>3, <2>1, AskedInv DEF SendQuest
<1> QED
  BY <1>2, <1>3

-----------------------------------------------------------------------------
(* Quests are settled.                                                     *)
LEMMA ClearInv ==
    ASSUME IInv, SInv, NEW t \in Threads, Clear(t)
    PROVE  SInv'
<1> DEFINE c == conn[t]
           S == callbacks[c]
<1>1. /\ pc[t] = "clear" /\ pc' = [pc EXCEPT ![t] = "reset"]
      /\ result' = [q \in Asks |-> IF q \in S THEN "closed" ELSE result[q]]
      /\ UNCHANGED <<status, op, conn, back, made, fd, slot, hungup, inbox, served,
                     sent, callbacks, reading, expired>>
  BY DEF Clear, Answered, Unanswered, Goto, clientVars, socketVars
<1>2. /\ c \in Conns /\ \A f \in Fds : slot[f] # c
      /\ \A x \in Threads : pc[x] = "clear" /\ conn[x] = c => x = t
  BY <1>1 DEF IInv, Life, Closers, Closing
<1>3. /\ \A y \in Threads : y # t => pc'[y] = pc[y]
      /\ pc'[t] = "reset"
  BY <1>1 DEF IInv, Life, Typed
<1>4. \A d \in Conns : d = c => Live(d) /\ ~Live(d)'
  BY <1>1, <1>2, <1>3 DEF Live, Mapped
<1>5. \A d \in Conns : d # c => (Live(d)' <=> Live(d))
  BY <1>1, <1>3 DEF Live, Mapped
<1>6. /\ \A d \in Conns : callbacks[d] \subseteq Asks /\ sent[d] \subseteq Asks
      /\ served \subseteq Asks /\ expired \subseteq Asks
  BY DEF SInv, Data
<1>7. \A q \in S : result[q] = "pending"
  BY <1>2, <1>4 DEF SInv, Books, Kept
<1>8. \A d \in Conns : d # c => \A q \in callbacks[d] : q \notin S
  BY <1>2 DEF SInv, Books, Kept
<1>9. \A q \in Asks : /\ q \in S => result'[q] = "closed"
                      /\ q \notin S => result'[q] = result[q]
  BY <1>1
<1>10. Settles
  BY <1>7, <1>9 DEF Settles
<1> HIDE DEF S, c
<1>11. Kept'
  <2> SUFFICES ASSUME NEW d \in Conns, NEW q \in callbacks[d]
               PROVE  /\ result'[q] \notin {"idle", "calling"}
                      /\ Live(d)' => result'[q] = "pending"
                      /\ \A e \in Conns : q \in callbacks[e] => e = d
    BY <1>1 DEF Kept
  <2>1. q \in Asks
    BY <1>6
  <2>2. CASE d = c
    BY <1>4, <1>9, <2>1, <2>2 DEF SInv, Books, Kept, S
  <2>3. CASE d # c
    BY <1>5, <1>8, <1>9, <2>1, <2>3 DEF SInv, Books, Kept
  <2> QED
    BY <2>2, <2>3
<1>12. Reads'
  <2> SUFFICES ASSUME NEW w \in IOThreads, pc'[w] = "fill"
               PROVE  /\ reading[w] \in served /\ result'[reading[w]] = "pending"
                      /\ reading[w] \notin expired
                      /\ \A d \in Conns : reading[w] \notin callbacks[d]
                      /\ \A x \in IOThreads : pc'[x] = "fill" /\ reading[x] = reading[w] => x = w
    BY <1>1 DEF Reads
  <2>1. pc[w] = "fill" /\ \A x \in IOThreads : pc'[x] = "fill" => pc[x] = "fill"
    BY <1>3 DEF Threads
  <2>2. reading[w] \in Asks /\ reading[w] \notin S
    BY <1>2, <1>6, <2>1 DEF SInv, Books, Reads, S
  <2> QED
    BY <1>9, <2>1, <2>2 DEF SInv, Books, Reads
<1>13. Expiring'
  <2>1. \A q \in expired : q \in Asks /\ q \notin S
    BY <1>2, <1>6 DEF SInv, Books, Expiring, S
  <2>2. expired # {} => pc'[Timer] = "expire"
    BY <1>1, <1>3 DEF SInv, Books, Expiring, Threads
  <2> QED
    BY <1>1, <1>9, <2>1, <2>2 DEF SInv, Books, Expiring
<1>14. Told'
  BY <1>1, <1>6, <1>9 DEF SInv, Books, Told
<1>15. NoOrphan'
  <2> SUFFICES ASSUME NEW q \in Asks, result'[q] = "pending"
               PROVE  Registered(q)'
    BY DEF NoOrphan
  <2>1. q \notin S /\ Registered(q)
    BY <1>9 DEF SInv, Books, NoOrphan
  <2>2. CASE \E d \in Conns : q \in callbacks[d] /\ Live(d)
    <3>1. PICK d \in Conns : q \in callbacks[d] /\ Live(d)
      BY <2>2
    <3>2. q \in callbacks'[d] /\ Live(d)'
      BY <1>1, <1>5, <2>1, <3>1 DEF S
    <3> QED
      BY <3>2 DEF Registered, Live
  <2>3. CASE \E w \in IOThreads : pc[w] = "fill" /\ reading[w] = q
    <3>1. \A w \in IOThreads : pc[w] = "fill" => pc'[w] = "fill"
      BY <1>1, <1>3 DEF Threads
    <3> QED
      BY <1>1, <2>3, <3>1 DEF Registered
  <2>4. CASE q \in expired
    BY <1>1, <2>4 DEF Registered
  <2> QED
    BY <2>1, <2>2, <2>3, <2>4, RegisteredIs
<1>16. UsersStand
  BY <1>1, <1>3 DEF UsersStand, Closing, Threads
<1>17. Silent' /\ Asking'
  BY <1>1, <1>10, <1>16, StandingKeeps
<1>18. Data'
  BY <1>1 DEF SInv, Data
<1> QED
  BY <1>11, <1>12, <1>13, <1>14, <1>15, <1>17, <1>18 DEF SInv, Books

LEMMA FillInv ==
    ASSUME IInv, SInv, NEW w \in IOThreads, Fill(w)
    PROVE  SInv'
<1> USE Who
<1> DEFINE q == reading[w]
<1>1. /\ pc[w] = "fill" /\ pc' = [pc EXCEPT ![w] = "read"]
      /\ result' = [result EXCEPT ![q] = "answer"] /\ reading' = [reading EXCEPT ![w] = 0]
      /\ UNCHANGED <<status, op, conn, back, made, fd, slot, hungup, inbox, served,
                     sent, callbacks, expired>>
  BY DEF Fill, Goto, clientVars, socketVars, engineVars
<1>2. /\ q \in Asks /\ q \in served /\ result[q] = "pending" /\ q \notin expired
      /\ \A d \in Conns : q \notin callbacks[d]
  BY <1>1 DEF SInv, Books, Reads, Data
<1>3. /\ \A y \in Threads : y # w => pc'[y] = pc[y]
      /\ pc'[w] = "read"
      /\ \A x \in IOThreads : x # w => reading'[x] = reading[x]
  BY <1>1 DEF IInv, Life, Typed, SInv, Data
<1>4. /\ \A k \in Asks : k # q => result'[k] = result[k]
      /\ result'[q] = "answer"
  BY <1>1, <1>2 DEF SInv, Data
<1>5. \A d \in Conns : Live(d)' <=> Live(d)
  BY <1>1, <1>3 DEF Live, Mapped
<1>6. /\ \A d \in Conns : callbacks[d] \subseteq Asks /\ sent[d] \subseteq Asks
      /\ served \subseteq Asks /\ expired \subseteq Asks
  BY DEF SInv, Data
<1>7. \A x \in IOThreads : pc'[x] = "fill" =>
         x # w /\ pc[x] = "fill" /\ reading'[x] = reading[x] /\ reading[x] # q
  BY <1>1, <1>3 DEF SInv, Books, Reads
<1>8. Settles
  BY <1>2, <1>4 DEF Settles
<1> HIDE DEF q
<1>9. Kept'
  BY <1>1, <1>2, <1>4, <1>5, <1>6 DEF SInv, Books, Kept
<1>10. Reads'
  BY <1>1, <1>4, <1>6, <1>7 DEF SInv, Books, Reads
<1>11. Expiring'
  BY <1>1, <1>2, <1>3, <1>4, <1>6 DEF SInv, Books, Expiring
<1>12. Told'
  BY <1>1, <1>2, <1>4, <1>6 DEF SInv, Books, Told
<1>13. NoOrphan'
  <2> SUFFICES ASSUME NEW k \in Asks, result'[k] = "pending"
               PROVE  Registered(k)'
    BY DEF NoOrphan
  <2>1. k # q /\ Registered(k)
    BY <1>4 DEF SInv, Books, NoOrphan
  <2>2. CASE \E d \in Conns : k \in callbacks[d] /\ Live(d)
    <3>1. PICK d \in Conns : k \in callbacks'[d] /\ Live(d)'
      BY <1>1, <1>5, <2>2
    <3> QED
      BY <3>1 DEF Registered, Live
  <2>3. CASE \E x \in IOThreads : pc[x] = "fill" /\ reading[x] = k
    <3>1. PICK x \in IOThreads : pc[x] = "fill" /\ reading[x] = k
      BY <2>3
    <3>2. x # w
      BY <2>1, <3>1 DEF q
    <3>3. pc'[x] = "fill" /\ reading'[x] = k
      BY <1>3, <3>1, <3>2
    <3> QED
      BY <3>3 DEF Registered
  <2>4. CASE k \in expired
    BY <1>1, <2>4 DEF Registered
  <2> QED
    BY <2>1, <2>2, <2>3, <2>4, RegisteredIs
<1>14. UsersStand
  BY <1>1, <1>3 DEF UsersStand, Threads
<1>15. Silent' /\ Asking'
  BY <1>1, <1>8, <1>14, StandingKeeps
<1>16. Data'
  BY <1>1 DEF SInv, Data
<1> QED
  BY <1>9, <1>10, <1>11, <1>12, <1>13, <1>15, <1>16 DEF SInv, Books

LEMMA ExpireFillInv ==
    ASSUME IInv, SInv, ExpireFill
    PROVE  SInv'
<1> USE Who
<1>1. /\ pc[Timer] = "expire" /\ pc' = [pc EXCEPT ![Timer] = "idle"]
      /\ result' = [q \in Asks |-> IF q \in expired THEN "timeout" ELSE result[q]]
      /\ expired' = {}
      /\ UNCHANGED <<status, op, conn, back, made, fd, slot, hungup, inbox, served,
                     sent, callbacks, reading>>
  BY DEF ExpireFill, Answered, Goto, clientVars, socketVars, engineVars
<1>2. /\ \A q \in expired : result[q] = "pending" /\ \A d \in Conns : q \notin callbacks[d]
      /\ \A w \in IOThreads : pc[w] = "fill" => reading[w] \notin expired
  BY DEF SInv, Books, Expiring, Reads
<1>3. /\ \A y \in Threads : y # Timer => pc'[y] = pc[y]
      /\ pc'[Timer] = "idle"
  BY <1>1 DEF IInv, Life, Typed
<1>4. \A q \in Asks : /\ q \in expired => result'[q] = "timeout"
                      /\ q \notin expired => result'[q] = result[q]
  BY <1>1
<1>5. \A d \in Conns : Live(d)' <=> Live(d)
  BY <1>1, <1>3 DEF Live, Mapped
<1>6. /\ \A d \in Conns : callbacks[d] \subseteq Asks /\ sent[d] \subseteq Asks
      /\ served \subseteq Asks
  BY DEF SInv, Data
<1>7. Settles
  BY <1>2, <1>4 DEF Settles
<1>8. SameFills
  BY <1>3 DEF SameFills
<1>9. Kept'
  BY <1>1, <1>2, <1>4, <1>5, <1>6 DEF SInv, Books, Kept
<1>10. Reads'
  BY <1>1, <1>2, <1>4, <1>6, <1>8 DEF SInv, Books, Reads, SameFills
<1>11. Expiring'
  BY <1>1 DEF Expiring
<1>12. Told'
  BY <1>1, <1>4, <1>6 DEF SInv, Books, Told
<1>13. NoOrphan'
  <2> SUFFICES ASSUME NEW k \in Asks, result'[k] = "pending"
               PROVE  Registered(k)'
    BY DEF NoOrphan
  <2>1. k \notin expired /\ Registered(k)
    BY <1>4 DEF SInv, Books, NoOrphan
  <2>2. CASE \E d \in Conns : k \in callbacks[d] /\ Live(d)
    <3>1. PICK d \in Conns : k \in callbacks'[d] /\ Live(d)'
      BY <1>1, <1>5, <2>2
    <3> QED
      BY <3>1 DEF Registered, Live
  <2>3. CASE \E x \in IOThreads : pc[x] = "fill" /\ reading[x] = k
    BY <1>1, <1>8, <2>3 DEF Registered, SameFills
  <2> QED
    BY <2>1, <2>2, <2>3, RegisteredIs
<1>14. UsersStand
  BY <1>1, <1>3 DEF UsersStand, Threads
<1>15. Silent' /\ Asking'
  BY <1>1, <1>7, <1>14, StandingKeeps
<1>16. Data'
  BY <1>1 DEF SInv, Data
<1> QED
  BY <1>9, <1>10, <1>11, <1>12, <1>13, <1>15, <1>16 DEF SInv, Books

-----------------------------------------------------------------------------
(* Callbacks are taken from their map.                                     *)
LEMMA ReadInv ==
    ASSUME IInv, SInv, NEW w \in IOThreads, Read(w)
    PROVE  SInv'
<1> USE Who, ConnsAssumption
<1> DEFINE c == slot[fd[conn[w]]]
<1>1. /\ pc[w] = "read" /\ pc[w] \in Holding
      /\ UNCHANGED <<status, op, conn, back, made, fd, slot, hungup, served,
                     sent, expired, result>>
  BY DEF Read, Holding, clientVars, engineVars
<1>2. PICK q \in inbox[conn[w]] :
         /\ inbox' = [inbox EXCEPT ![conn[w]] = @ \ {q}]
         /\ IF c # 0 /\ q \in callbacks[c]
            THEN /\ TakeCallback(c, q)
                 /\ reading' = [reading EXCEPT ![w] = q]
                 /\ Goto(w, "fill")
            ELSE UNCHANGED <<callbacks, reading, pc>>
  BY DEF Read
<1>3. conn[w] \in Conns /\ fd[conn[w]] \in Fds /\ c \in {0, conn[w]}
  BY <1>1, HoldingOpen, OwnSlot
<1>4. /\ \A d \in Conns : callbacks[d] \subseteq Asks /\ inbox'[d] \subseteq inbox[d]
      /\ q \in served /\ served \subseteq Asks
  BY <1>2, <1>3 DEF SInv, Data, Books, Told
<1>5. UsersStand /\ \A d \in Conns : Live(d)' <=> Live(d)
  <2>1. \A y \in Threads : y # w => pc'[y] = pc[y]
    BY <1>2 DEF Goto, IInv, Life, Typed
  <2>2. pc'[w] # "clear"
    BY <1>1, <1>2 DEF Goto, IInv, Life, Typed
  <2> QED
    BY <1>1, <2>1, <2>2 DEF UsersStand, Live, Mapped, Threads
<1>6. Settles
  BY <1>1 DEF Settles
<1>7. \A d \in Conns : callbacks'[d] \subseteq callbacks[d]
  BY <1>2 DEF TakeCallback, SInv, Data
<1>8. Silent' /\ Asking'
  BY <1>1, <1>5, <1>6, <1>7, StandingKeeps
<1>9. Told'
  BY <1>1, <1>4 DEF SInv, Books, Told
<1>10. Kept'
  BY <1>1, <1>5, <1>7 DEF SInv, Books, Kept
<1>11. CASE c # 0 /\ q \in callbacks[c]
  <2>1. c = conn[w] /\ callbacks' = [callbacks EXCEPT ![c] = @ \ {q}]
    BY <1>2, <1>3, <1>11 DEF TakeCallback
  <2>2. Mapped(c)
    BY <1>3, <1>11 DEF Mapped
  <2>3. /\ result[q] = "pending"
        /\ \A d \in Conns : q \notin callbacks'[d]
        /\ q \notin expired
        /\ \A x \in IOThreads : pc[x] = "fill" => reading[x] # q
    <3>1. c \in Conns /\ Live(c)
      BY <1>3, <2>1, <2>2 DEF Live
    <3>2. result[q] = "pending" /\ \A d \in Conns : q \in callbacks[d] => d = c
      BY <1>11, <3>1 DEF SInv, Books, Kept
    <3>3. \A d \in Conns : q \notin callbacks'[d]
      BY <2>1, <3>1, <3>2 DEF SInv, Data
    <3>4. q \notin expired
      BY <1>11, <3>1 DEF SInv, Books, Expiring
    <3>5. \A x \in IOThreads : pc[x] = "fill" => reading[x] # q
      BY <1>11, <3>1 DEF SInv, Books, Reads
    <3> QED
      BY <3>2, <3>3, <3>4, <3>5
  <2>4. /\ \A y \in Threads : y # w => pc'[y] = pc[y]
        /\ pc'[w] = "fill" /\ reading'[w] = q
        /\ \A x \in IOThreads : x # w => reading'[x] = reading[x]
    BY <1>2, <1>11 DEF Goto, IInv, Life, Typed, SInv, Data
  <2>5. Reads'
    <3> SUFFICES ASSUME NEW x \in IOThreads, pc'[x] = "fill"
                 PROVE  /\ reading'[x] \in served /\ result[reading'[x]] = "pending"
                        /\ reading'[x] \notin expired
                        /\ \A d \in Conns : reading'[x] \notin callbacks'[d]
                        /\ \A y \in IOThreads : pc'[y] = "fill" /\ reading'[y] = reading'[x] => y = x
      BY <1>1 DEF Reads
    <3>1. CASE x = w
      <4>1. \A y \in IOThreads : y # w /\ pc'[y] = "fill" => reading'[y] # q
        BY <2>3, <2>4
      <4> QED
        BY <1>4, <2>3, <2>4, <3>1, <4>1
    <3>2. CASE x # w
      <4>1. pc[x] = "fill" /\ reading'[x] = reading[x] /\ reading[x] # q
        BY <2>3, <2>4, <3>2
      <4>2. \A y \in IOThreads : pc'[y] = "fill" /\ reading'[y] = reading[x] => y = x
        BY <2>4, <4>1 DEF SInv, Books, Reads
      <4> QED
        BY <1>7, <4>1, <4>2 DEF SInv, Books, Reads
    <3> QED
      BY <3>1, <3>2
  <2>6. Expiring'
    BY <1>1, <1>7, <2>4 DEF SInv, Books, Expiring
  <2>7. NoOrphan'
    <3> SUFFICES ASSUME NEW k \in Asks, result[k] = "pending"
                 PROVE  Registered(k)'
      BY <1>1 DEF NoOrphan
    <3>1. Registered(k)
      BY DEF SInv, Books, NoOrphan
    <3>2. CASE k = q
      BY <2>4, <3>2 DEF Registered
    <3>3. CASE k # q /\ \E d \in Conns : k \in callbacks[d] /\ Live(d)
      <4>1. PICK d \in Conns : k \in callbacks[d] /\ Live(d)
        BY <3>3
      <4>2. k \in callbacks'[d] /\ Live(d)'
        BY <1>5, <2>1, <3>3, <4>1 DEF SInv, Data
      <4> QED
        BY <4>2 DEF Registered, Live
    <3>4. CASE \E x \in IOThreads : pc[x] = "fill" /\ reading[x] = k
      <4>1. PICK x \in IOThreads : pc[x] = "fill" /\ reading[x] = k
        BY <3>4
      <4>2. pc'[x] = "fill" /\ reading'[x] = k
        BY <1>1, <2>4, <4>1
      <4> QED
        BY <4>2 DEF Registered
    <3>5. CASE k \in expired
      BY <1>1, <3>5 DEF Registered
    <3> QED
      BY <3>1, <3>2, <3>3, <3>4, <3>5, RegisteredIs
  <2>8. Data'
    <3>1. q \in Asks
      BY <1>4
    <3> QED
      BY <1>1, <1>2, <1>3, <2>1, <3>1, <1>11 DEF SInv, Data
  <2> QED
    BY <1>8, <1>9, <1>10, <2>5, <2>6, <2>7, <2>8 DEF SInv, Books
<1>12. CASE ~(c # 0 /\ q \in callbacks[c])
  <2>1. UNCHANGED <<callbacks, reading, pc>>
    BY <1>2, <1>12
  <2>2. Reads' /\ Expiring'
    BY <1>1, <2>1 DEF SInv, Books, Reads, Expiring
  <2>3. NoOrphan'
    BY <1>1, <2>1 DEF SInv, Books, NoOrphan, Registered, Mapped
  <2>4. Data'
    BY <1>1, <1>2, <1>3, <2>1 DEF SInv, Data
  <2> QED
    BY <1>8, <1>9, <1>10, <2>2, <2>3, <2>4 DEF SInv, Books
<1> QED
  BY <1>11, <1>12

LEMMA ExpireInv ==
    ASSUME IInv, SInv, NEW c \in Conns, NEW S \in SUBSET callbacks[c], Expire(c, S)
    PROVE  SInv'
<1> USE Who
<1>1. /\ pc[Timer] \in {"idle", "expire"} /\ pc' = [pc EXCEPT ![Timer] = "expire"]
      /\ callbacks' = [callbacks EXCEPT ![c] = @ \ S] /\ expired' = expired \cup S
      /\ UNCHANGED <<status, op, conn, back, made, fd, slot, hungup, inbox, served,
                     sent, reading, result>>
  BY DEF Expire, Goto, clientVars, socketVars, engineVars
<1>2. Live(c) /\ S \subseteq Asks
  BY DEF Expire, Live, SInv, Data
<1>3. \A k \in S : /\ result[k] = "pending"
                   /\ \A d \in Conns : k \in callbacks[d] => d = c
                   /\ \A w \in IOThreads : pc[w] = "fill" => reading[w] # k
  BY <1>2 DEF SInv, Books, Kept, Reads
<1>4. /\ \A y \in Threads : y # Timer => pc'[y] = pc[y]
      /\ pc'[Timer] = "expire"
  BY <1>1 DEF IInv, Life, Typed
<1>5. /\ \A d \in Conns : d # c => callbacks'[d] = callbacks[d]
      /\ callbacks'[c] = callbacks[c] \ S
  BY <1>1 DEF SInv, Data
<1>6. \A d \in Conns : Live(d)' <=> Live(d)
  BY <1>1, <1>4 DEF Live, Mapped
<1>7. SameFills /\ UsersStand /\ Settles
  BY <1>1, <1>4 DEF SameFills, UsersStand, Settles, Threads
<1>8. \A d \in Conns : callbacks'[d] \subseteq callbacks[d]
  BY <1>5
<1>9. Kept'
  BY <1>1, <1>6, <1>8 DEF SInv, Books, Kept
<1>10. Reads'
  BY <1>1, <1>3, <1>7, <1>8 DEF SInv, Books, Reads, SameFills
<1>11. Expiring'
  <2>1. \A k \in S : \A d \in Conns : k \notin callbacks'[d]
    BY <1>3, <1>5
  <2> QED
    BY <1>1, <1>3, <1>4, <1>8, <2>1 DEF SInv, Books, Expiring
<1>12. Told'
  BY <1>1 DEF SInv, Books, Told
<1>13. NoOrphan'
  <2> SUFFICES ASSUME NEW k \in Asks, result[k] = "pending"
               PROVE  Registered(k)'
    BY <1>1 DEF NoOrphan
  <2>1. Registered(k)
    BY DEF SInv, Books, NoOrphan
  <2>2. CASE k \in S \/ k \in expired
    BY <1>1, <2>2 DEF Registered
  <2>3. CASE k \notin S /\ \E d \in Conns : k \in callbacks[d] /\ Live(d)
    <3>1. PICK d \in Conns : k \in callbacks[d] /\ Live(d)
      BY <2>3
    <3>2. k \in callbacks'[d] /\ Live(d)'
      BY <1>5, <1>6, <2>3, <3>1
    <3> QED
      BY <3>2 DEF Registered, Live
  <2>4. CASE \E x \in IOThreads : pc[x] = "fill" /\ reading[x] = k
    BY <1>1, <1>7, <2>4 DEF Registered, SameFills
  <2> QED
    BY <2>1, <2>2, <2>3, <2>4, RegisteredIs
<1>14. Silent' /\ Asking'
  BY <1>1, <1>7, <1>8, StandingKeeps
<1>15. Data'
  BY <1>1, <1>2 DEF SInv, Data
<1> QED
  BY <1>9, <1>10, <1>11, <1>12, <1>13, <1>14, <1>15 DEF SInv, Books

-----------------------------------------------------------------------------
(* The inductive invariant.                                                *)
LEMMA InitService ==
    ASSUME Init
    PROVE  SInv
<1> USE DEF Init
<1>1. Data
  BY DEF Data
<1>2. Kept /\ Reads /\ Expiring /\ Told /\ NoOrphan
  BY DEF Kept, Reads, Expiring, Told, NoOrphan, Threads
<1>3. Silent
  BY DEF Silent, Joining, Threads, Asks, Conns
<1>4. Asking
  BY QuestsAssumption DEF Asking, Closing, Threads
<1> QED
  BY <1>1, <1>2, <1>3, <1>4 DEF SInv, Books

LEMMA StepService ==
    ASSUME IInv, SInv, Step \/ UNCHANGED vars
    PROVE  SInv'
<1>1. CASE UNCHANGED vars
  <2> USE <1>1 DEF vars, clientVars, threadVars, socketVars, engineVars, workVars
  <2>1. Data' /\ Silent' /\ Asking'
    BY DEF SInv, Data, Silent, Asking
  <2>2. Kept' /\ Reads' /\ Expiring' /\ Told' /\ NoOrphan'
    BY DEF SInv, Books, Kept, Reads, Expiring, Told, NoOrphan, Registered, Live, Mapped
  <2> QED
    BY <2>1, <2>2 DEF SInv, Books
<1>2. ASSUME NEW u \in Users, UserCall(u) PROVE SInv'
  BY <1>2, IdleSteps, CallSendInv, RefuseSendInv DEF UserCall
<1>3. ASSUME NEW u \in Users, UserStep(u) PROVE SInv'
  <2>1. CASE \/ EnterClose(u) \/ CloseNothing(u) \/ ConnectDone(u) \/ ConnectBegin(u)
             \/ SocketFails(u) \/ KeyAgreed(u) \/ KeyRefused(u) \/ CopyInfo(u) \/ TakeAnswer(u)
             \/ Return(u)
    BY <2>1, IdleSteps
  <2>2. CASE CloseSwap(u) \/ TakeByInfo(u) \/ SocketConnect(u) \/ Install(u)
    BY <2>2, SwapInv, TakeInv, SocketInv, InstallInv
  <2>3. CASE PrepareFails(u) \/ JoinMap(u) \/ EpollAdd(u) \/ EpollAddFails(u)
    BY <2>3, PrepareInv, JoinInv
  <2>4. CASE KeySend(u) \/ Guard(u) \/ SendQuest(u)
    BY <2>4, KeySendInv, GuardInv, SendQuestInv
  <2> QED
    BY <1>3, <2>1, <2>2, <2>3, <2>4 DEF UserStep
<1>4. ASSUME NEW t \in Threads, CloseStep(t) PROVE SInv'
  BY <1>4, ClearInv, CloseInvs DEF CloseStep
<1>5. ASSUME NEW c \in Conns, DropConnection(c) PROVE SInv'
  BY <1>5, DropInv
<1>6. CASE LoopStep
  BY <1>6, EngineQuiet, TakesInvs DEF LoopStep
<1>7. ASSUME NEW w \in IOThreads, WorkerStep(w) \/ \E c \in Conns : Run(w, c) PROVE SInv'
  BY <1>7, EngineQuiet, TakesInvs, ReadInv, FillInv DEF WorkerStep
<1>8. CASE TimerStep
  BY <1>8, EngineQuiet, TakesInvs, ExpireInv, ExpireFillInv DEF TimerStep
<1>9. CASE PeerStep
  BY <1>9, PeerInv
<1> QED
  BY <1>1, <1>2, <1>3, <1>4, <1>5, <1>6, <1>7, <1>8, <1>9 DEF Step

LEMMA ServiceInvariant == Spec => [](mistaken \in BOOLEAN /\ (~mistaken => IInv /\ SInv))
<1> DEFINE Safe == mistaken \in BOOLEAN /\ (~mistaken => IInv /\ SInv)
<1>1. Init => Safe
  BY InitInv, InitService DEF Init
<1>2. Safe /\ [Next]_<<vars, mistaken>> => Safe'
  <2> SUFFICES ASSUME Safe, [Next]_<<vars, mistaken>> PROVE Safe'
    OBVIOUS
  <2>1. mistaken' \in BOOLEAN
    BY MistakenTyped
  <2>2. ASSUME ~mistaken' PROVE IInv' /\ SInv'
    <3>0. mistaken' = FALSE
      BY <2>1, <2>2
    <3>1. mistaken = FALSE /\ (UNCHANGED vars \/ (Step /\ ~Mistake))
      BY <3>0, Unmistaken
    <3>2. IInv /\ SInv
      BY <3>1
    <3> QED
      BY <3>1, <3>2, StepInv, SameInv, StepService
  <2> QED
    BY <2>1, <2>2
<1> QED
  BY <1>1, <1>2, PTL DEF Spec

(* Every variable keeps its type; a reference count is never negative.     *)
THEOREM ClientTypeCorrect == Spec => [](~mistaken => TypeOK)
<1>1. (mistaken \in BOOLEAN /\ (~mistaken => IInv /\ SInv)) => (~mistaken => TypeOK)
  <2> SUFFICES ASSUME mistaken \in BOOLEAN, IInv, SInv PROVE TypeOK
    OBVIOUS
  <2>1. pc \in [Threads -> Places]
    BY DEF IInv, Life, Typed
  <2>2. refs \in [Conns -> Nat]
    <3>1. ASSUME NEW c \in Conns PROVE refs[c] \in Nat
      <4> DEFINE n == Cardinality(Holders(c))
      <4>1. n \in Nat
        BY HoldersFinite
      <4>2. jobs[c] \in Nat /\ refs[c] = jobs[c] + n
        BY DEF IInv, Life, Typed, Counted
      <4> HIDE DEF n
      <4> QED
        BY <4>1, <4>2
    <3> QED
      BY <3>1 DEF IInv, Life, Typed
  <2> QED
    BY <2>1, <2>2 DEF TypeOK, IInv, Life, Typed, Control, Shaped, SInv, Data
<1> QED
  BY <1>1, ServiceInvariant, PTL

(* The callback of an unsettled quest is always where a thread will find   *)
(* it: in the map of a connection the engine knows or is about to clear,   *)
(* or taken by the thread that settles it.                                 *)
THEOREM ClientNoOrphan == Spec => [](~mistaken => NoOrphan)
<1>1. (mistaken \in BOOLEAN /\ (~mistaken => IInv /\ SInv)) => (~mistaken => NoOrphan)
  BY DEF SInv, Books
<1> QED
  BY <1>1, ServiceInvariant, PTL

-----------------------------------------------------------------------------
(* The client implements QuestService.                                     *)
Outcomes == {"idle", "calling", "pending", "refused", "answer", "timeout", "closed"}

LEMMA RefuseRefines ==
    ASSUME result \in [Asks -> Outcomes], NEW q \in Asks, result[q] \in {"idle", "calling"},
           result' = [result EXCEPT ![q] = "refused"], UNCHANGED served
    PROVE  Service!Refuse(q)
  BY DEF Service!Refuse

LEMMA AcceptRefines ==
    ASSUME result \in [Asks -> Outcomes], NEW q \in Asks, result[q] \in {"idle", "calling"},
           result' = [result EXCEPT ![q] = "pending"], UNCHANGED served
    PROVE  Service!Accept(q)
  BY DEF Service!Accept

LEMMA CallRefines ==
    ASSUME result \in [Asks -> Outcomes], NEW q \in Asks, result[q] \in {"idle", "calling"},
           result' = [result EXCEPT ![q] = "calling"], UNCHANGED served
    PROVE  UNCHANGED Service!svars
  BY DEF Service!svars

LEMMA SettleRefines ==
    ASSUME result \in [Asks -> Outcomes], NEW S \in SUBSET Asks,
           \A q \in S : result[q] = "pending",
           NEW outcome \in {"answer", "timeout", "closed"},
           outcome = "answer" => S \subseteq served,
           result' = [q \in Asks |-> IF q \in S THEN outcome ELSE result[q]], UNCHANGED served
    PROVE  Service!Settle(S) \/ UNCHANGED Service!svars
<1>1. CASE S = {}
  BY <1>1 DEF Service!svars
<1>2. CASE S # {}
  BY <1>2 DEF Service!Settle, Service!Settled
<1> QED
  BY <1>1, <1>2

LEMMA ServeRefines ==
    ASSUME result \in [Asks -> Outcomes], NEW q \in Asks,
           result[q] \in {"pending", "timeout", "closed"},
           served' = served \cup {q}, UNCHANGED result
    PROVE  Service!Serve(q)
  BY DEF Service!Serve

(* A step of the client is one of the service's, or none.                  *)
ServiceStep == [Service!Next]_Service!svars

LEMMA UserRefines ==
    ASSUME IInv, SInv, NEW u \in Users, UserCall(u) \/ UserStep(u)
    PROVE  ServiceStep
<1> USE DEF workVars, socketVars
<1>0. result \in [Asks -> Outcomes] /\ Quests \subseteq Asks /\ Conns \subseteq Asks
  BY DEF SInv, Data, Outcomes, Asks
<1>1. ASSUME UNCHANGED <<result, served>> PROVE ServiceStep
  BY <1>1 DEF ServiceStep, Service!svars
<1>2. ASSUME NEW q \in Asks, Service!Accept(q) \/ Service!Refuse(q) PROVE ServiceStep
  BY <1>2 DEF ServiceStep, Service!Next
<1>3. CASE UserCall(u)
  <2>1. CASE CallConnect(u) \/ CallClose(u)
    BY <1>1, <2>1 DEF CallConnect, CallClose
  <2>2. ASSUME NEW q \in Quests, CallSend(u, q) PROVE ServiceStep
    BY <1>0, <2>2, CallRefines DEF CallSend, ServiceStep
  <2>3. ASSUME NEW q \in Quests, RefuseSend(u, q) PROVE ServiceStep
    BY <1>0, <1>2, <2>3, RefuseRefines DEF RefuseSend
  <2> QED
    BY <1>3, <2>1, <2>2, <2>3 DEF UserCall
<1>4. CASE \/ EnterClose(u) \/ CloseNothing(u) \/ CloseSwap(u) \/ TakeByInfo(u) \/ ConnectDone(u)
           \/ ConnectBegin(u) \/ SocketConnect(u) \/ SocketFails(u) \/ PrepareFails(u)
  BY <1>1, <1>4 DEF EnterClose, CloseNothing, CloseSwap, TakeByInfo, ConnectDone, ConnectBegin,
     SocketConnect, SocketFails, PrepareFails
<1>5. CASE \/ JoinMap(u) \/ EpollAdd(u) \/ EpollAddFails(u) \/ KeyAgreed(u) \/ KeyRefused(u)
           \/ Install(u) \/ CopyInfo(u) \/ TakeAnswer(u) \/ Return(u)
  BY <1>1, <1>5 DEF JoinMap, EpollAdd, EpollAddFails, KeyAgreed, KeyRefused, Install, CopyInfo,
     TakeAnswer, Return
<1>6. CASE Guard(u)
  <2>1. CASE Sending(u)
    <3>1. op[u] \in Asks /\ result[op[u]] = "calling"
      BY <1>0, <1>6, <2>1 DEF Sending, Guard, SInv, Asking
    <3>2. PICK q \in Asks : q = op[u]
      BY <3>1
    <3>3. result[q] = "calling" /\ result' = [result EXCEPT ![q] = "refused"] /\ UNCHANGED served
      BY <1>6, <2>1, <3>1, <3>2 DEF Guard
    <3>4. Service!Refuse(q)
      BY <1>0, <3>3, RefuseRefines
    <3> QED
      BY <1>2, <3>4
  <2>2. CASE ~Sending(u)
    BY <1>1, <1>6, <2>2 DEF Guard
  <2> QED
    BY <2>1, <2>2
<1>7. CASE KeySend(u)
  <2>0. conn[u] \in Asks /\ result[conn[u]] = "idle"
    BY <1>0, <1>7 DEF KeySend, SInv, Silent, IInv, Control, Connecting
  <2>1. PICK c \in Asks : c = conn[u] /\ result[c] = "idle"
    BY <2>0
  <2>2. \/ result' = [result EXCEPT ![c] = "pending"]
        \/ result' = [result EXCEPT ![c] = "refused"]
    BY <1>7, <2>1 DEF KeySend, Register, KeyOf
  <2>3. UNCHANGED served
    BY <1>7 DEF KeySend
  <2>4. Service!Accept(c) \/ Service!Refuse(c)
    BY <1>0, <2>1, <2>2, <2>3, AcceptRefines, RefuseRefines
  <2> QED
    BY <1>2, <2>1, <2>4
<1>8. CASE SendQuest(u)
  <2>0. op[u] \in Asks /\ result[op[u]] = "calling"
    BY <1>0, <1>8 DEF SendQuest, SInv, Asking
  <2>1. PICK q \in Asks : q = op[u] /\ result[q] = "calling"
    BY <2>0
  <2>2. \/ result' = [result EXCEPT ![q] = "pending"]
        \/ result' = [result EXCEPT ![q] = "refused"]
    BY <1>8, <2>1 DEF SendQuest, Register
  <2>3. UNCHANGED served
    BY <1>8 DEF SendQuest
  <2>4. Service!Accept(q) \/ Service!Refuse(q)
    BY <1>0, <2>1, <2>2, <2>3, AcceptRefines, RefuseRefines
  <2> QED
    BY <1>2, <2>1, <2>4
<1> QED
  BY <1>3, <1>4, <1>5, <1>6, <1>7, <1>8 DEF UserStep

LEMMA OtherRefines ==
    ASSUME IInv, SInv,
           \/ \E t \in Threads : CloseStep(t)
           \/ \E c \in Conns : DropConnection(c)
           \/ LoopStep \/ TimerStep \/ PeerStep
           \/ \E w \in IOThreads : WorkerStep(w) \/ \E c \in Conns : Run(w, c)
    PROVE  ServiceStep
<1> USE DEF workVars, socketVars
<1>0. result \in [Asks -> Outcomes]
  BY DEF SInv, Data, Outcomes
<1>1. ASSUME UNCHANGED <<result, served>> PROVE ServiceStep
  BY <1>1 DEF ServiceStep, Service!svars
<1>2. ASSUME NEW S \in SUBSET Asks, Service!Settle(S) \/ UNCHANGED Service!svars PROVE ServiceStep
  BY <1>2 DEF ServiceStep, Service!Next
<1>3. ASSUME NEW t \in Threads, CloseStep(t) PROVE ServiceStep
  <2>1. CASE Clear(t)
    <3>1. conn[t] \in Conns /\ Live(conn[t])
      BY <2>1 DEF Clear, Live, IInv, Life, Closers, Closing
    <3>2. /\ callbacks[conn[t]] \in SUBSET Asks
          /\ \A q \in callbacks[conn[t]] : result[q] = "pending"
      BY <3>1 DEF SInv, Data, Books, Kept
    <3>0. PICK S \in SUBSET Asks : S = callbacks[conn[t]]
      BY <3>2
    <3>3. result' = [q \in Asks |-> IF q \in S THEN "closed" ELSE result[q]] /\ UNCHANGED served
      BY <2>1, <3>0 DEF Clear, Answered, Unanswered
    <3>4. Service!Settle(S) \/ UNCHANGED Service!svars
      BY <1>0, <3>0, <3>2, <3>3, SettleRefines
    <3> QED
      BY <1>2, <3>4
  <2>2. CASE Reset(t) \/ Reclaim(t)
    BY <1>1, <2>2 DEF Reset, Reclaim
  <2> QED
    BY <1>3, <2>1, <2>2 DEF CloseStep
<1>4. ASSUME NEW c \in Conns, DropConnection(c) PROVE ServiceStep
  BY <1>1, <1>4 DEF DropConnection
<1>5. CASE LoopStep
  BY <1>1, <1>5 DEF LoopStep, Fetch, ProcessHup, ProcessIn
<1>6. CASE TimerStep
  <2>1. CASE ExpireFill
    <3>1. PICK S \in SUBSET Asks : S = expired
      BY DEF SInv, Data
    <3>2. \A q \in S : result[q] = "pending"
      BY <3>1 DEF SInv, Books, Expiring
    <3>3. result' = [q \in Asks |-> IF q \in S THEN "timeout" ELSE result[q]] /\ UNCHANGED served
      BY <2>1, <3>1 DEF ExpireFill, Answered
    <3>4. Service!Settle(S) \/ UNCHANGED Service!svars
      BY <1>0, <3>2, <3>3, SettleRefines
    <3> QED
      BY <1>2, <3>4
  <2>2. ASSUME NEW c \in Conns, NEW S \in SUBSET callbacks[c], Expire(c, S) PROVE ServiceStep
    BY <1>1, <2>2 DEF Expire
  <2>3. CASE PingSend
    BY <1>1, <2>3 DEF PingSend
  <2>4. ASSUME NEW c \in Conns, KeepAliveLost(c) \/ PingPick(c) PROVE ServiceStep
    BY <1>1, <2>4 DEF KeepAliveLost, PingPick
  <2> QED
    BY <1>6, <2>1, <2>2, <2>3, <2>4 DEF TimerStep
<1>7. CASE PeerStep
  <2>1. ASSUME NEW c \in Conns, PeerCloses(c) PROVE ServiceStep
    BY <1>1, <2>1 DEF PeerCloses
  <2>2. ASSUME NEW c \in Conns, NEW q \in Asks, PeerAnswers(c, q) PROVE ServiceStep
    <3>1. q \in sent[c] /\ q \notin served /\ served' = served \cup {q} /\ UNCHANGED result
      BY <2>2 DEF PeerAnswers
    <3>2. result[q] \in {"pending", "timeout", "closed"}
      BY <3>1 DEF SInv, Books, Told
    <3>3. Service!Serve(q)
      BY <1>0, <3>1, <3>2, ServeRefines
    <3> QED
      BY <3>3 DEF ServiceStep, Service!Next
  <2> QED
    BY <1>7, <2>1, <2>2 DEF PeerStep
<1>8. ASSUME NEW w \in IOThreads, WorkerStep(w) \/ \E c \in Conns : Run(w, c) PROVE ServiceStep
  <2>1. CASE Fill(w)
    <3>0. {reading[w]} \in SUBSET Asks /\ reading[w] \in served /\ result[reading[w]] = "pending"
      BY <2>1 DEF Fill, SInv, Books, Reads, Data
    <3>1. PICK S \in SUBSET Asks : S = {reading[w]}
      BY <3>0
    <3>2. result' = [q \in Asks |-> IF q \in S THEN "answer" ELSE result[q]] /\ UNCHANGED served
      BY <1>0, <2>1, <3>0, <3>1 DEF Fill
    <3>3. (\A q \in S : result[q] = "pending") /\ S \subseteq served
      BY <3>0, <3>1
    <3>4. Service!Settle(S) \/ UNCHANGED Service!svars
      BY <1>0, <3>2, <3>3, SettleRefines
    <3> QED
      BY <1>2, <3>4
  <2>2. CASE Read(w) \/ ReadEnds(w) \/ Rearm(w) \/ RearmFails(w) \/ Drop(w)
    BY <1>1, <2>2 DEF Read, ReadEnds, Rearm, RearmFails, Drop
  <2>3. ASSUME NEW c \in Conns, Run(w, c) PROVE ServiceStep
    BY <1>1, <2>3 DEF Run
  <2> QED
    BY <1>8, <2>1, <2>2, <2>3 DEF WorkerStep
<1> QED
  BY <1>3, <1>4, <1>5, <1>6, <1>7, <1>8

LEMMA StepRefines ==
    ASSUME IInv, SInv, [Next]_<<vars, mistaken>>
    PROVE  [Service!Next]_Service!svars
<1>1. CASE UNCHANGED vars
  BY <1>1 DEF vars, socketVars, workVars, Service!svars
<1>2. CASE Step
  BY <1>2, UserRefines, OtherRefines DEF Step, ServiceStep
<1> QED
  BY <1>1, <1>2 DEF Next

(* Whatever the threads, the peer and the timeouts do, each quest is       *)
(* refused or, once accepted, settled at most once, and with an answer     *)
(* only if the peer gave one: the client implements QuestService, as long  *)
(* as no event was taken for one of a joining connection.                  *)
THEOREM ClientImplementsService == Spec /\ []~mistaken => ImplementsService
<1>1. Init => Service!Init
  BY DEF Init, Service!Init
<1>2. /\ mistaken \in BOOLEAN /\ (~mistaken => IInv /\ SInv)
      /\ [Next]_<<vars, mistaken>> /\ ~mistaken
      => [Service!Next]_Service!svars
  BY StepRefines
<1> QED
  BY <1>1, <1>2, ServiceInvariant, PTL DEF Spec, ImplementsService, Service!Spec

=============================================================================
