---------------------------- MODULE UdpArqLive ----------------------------
(***************************************************************************)
(* The ARQ engine under a fair network and running threads: what must      *)
(* happen in the end.                                                      *)
(***************************************************************************)
EXTENDS UdpArq

(* A datagram that tells p something: a reliable package p has not taken   *)
(* in, or a confirmation of one that p still resends.                      *)
Known(p)     == ReceivedSeqs(p) \cup Seqs(cache[p])
Tells(p, d) ==
    \E i \in DOMAIN d :
        \/ d[i].rel /\ d[i].seq \notin Known(p)
        \/ \E g \in unconf[p] :
              g.seq \in d[i].acks \/ \E una \in d[i].una : ~Ahead(g.seq, una)

Drains(p) ==
    (SendUrgent(p) \/ SendCommon(p) \/ SendNothing(p)) /\ taken'[p] > taken[p]

Resends(p, s) ==
    \E L \in ResendLists(p, unconf[p], MaxAssembled) :
        (\E i \in DOMAIN L : L[i].seq = s) /\ ResendList(p, L)

(* The threads.  An I/O worker that took a datagram parses it, and gives   *)
(* the token back when the socket runs empty, as it does again and again   *)
(* unless datagrams come faster than they are parsed; feedback that is due *)
(* is sent when the interval is over; realSend loops until the queue is    *)
(* empty or flow control stops it; the _sentQueue is rotated, so each      *)
(* unconfirmed package has its turn.                                       *)
ThreadFairness(p) ==
    /\ WF_vars(Parse(p))
    /\ WF_vars(Finish(p))
    /\ SF_vars(ReturnRecvToken(p))
    /\ WF_vars(SendUrgent(p))
    /\ SF_vars(Drains(p))

SessionSeqs(p) == {s \in SeqNum : Sub(s, BaseSeq[p]) < MaxPackages}

ResendFairness(p) == \A s \in SessionSeqs(p) : WF_vars(Resends(p, s))

(* The network loses datagrams, but neither all of them nor all that tell  *)
(* something.                                                              *)
NetworkFairness(p) ==
    /\ SF_vars(Receive(p))
    /\ SF_vars(Receive(p) /\ Tells(p, rx'[p]))

Fairness ==
    \A p \in Peer : ThreadFairness(p) /\ ResendFairness(p) /\ NetworkFairness(p)

LiveSpec == Spec /\ Fairness

(* A reliable unit that is pushed arrives, or its deadline passes first.   *)
EventuallyDelivered ==
    \A p \in Peer : \A u \in Reliable(p) :
        pushed[p] >= u ~> delivered[Other(p)][u] > 0 \/ u \in expired[p]

(* Resending ends: once a peer has nothing new to send every package of    *)
(* it gets confirmed, the empty ones left by cancelled data included.      *)
EventuallyConfirmed ==
    \A p \in Peer : <>[](unconf[p] = {} /\ taken[p] = pushed[p])
=============================================================================
