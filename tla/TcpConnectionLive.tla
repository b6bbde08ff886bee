------------------------- MODULE TcpConnectionLive -------------------------
(***************************************************************************)
(* TcpConnection under fairness.  Threads that run go on running and       *)
(* mutexes are handed on: every thread finishes what it began.  Whether a  *)
(* thread begins to send or to close, and whether the peer sends or breaks, *)
(* is up to them; it does read what it is sent.                            *)
(***************************************************************************)
EXTENDS TcpConnection

Fairness ==
    /\ \A s \in Senders : WF_vars(Sender(s))
    /\ \A w \in Workers : WF_vars(Worker(w))
    /\ WF_vars(EpollThread)
    /\ WF_vars(JoinEpoll) /\ WF_vars(CloseEvent) /\ WF_vars(Reclaim)
    /\ WF_vars(PeerRead)

FairSpec == Spec /\ Fairness

(* Data that arrived is read, though several I/O threads and senders re-arm *)
(* the one registration and a run that does not get the receive token      *)
(* clears _needRecv; unless the connection closes or will not read any more.*)
EventuallyRead == incoming # <<>> ~> (incoming = <<>> \/ ~inMap \/ disposable)

(* A connection that left the map is deleted: every run that found it gives *)
(* its reference back, also those that lose the race to close it.          *)
EventuallyReleased == ~inMap ~> closing = "released"

(* With closeAfterAnswered the connection closes after the answer was sent. *)
EventuallyClosed ==
    (disposable /\ jobs = 0 /\ pushed > 0 /\ Len(wire) = pushed * PackageLen) ~> ~inMap
=============================================================================
