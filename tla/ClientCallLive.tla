--------------------------- MODULE ClientCallLive ---------------------------
(***************************************************************************)
(* Liveness of ClientCall.  Threads run: a started call, a loop iteration, *)
(* a pool run and the reclaimer's round go on.  The timeout thread visits  *)
(* the connections again and again and time passes: if callbacks are in    *)
(* known connections' maps again and again, those of one whose deadlines   *)
(* have all passed are extracted.  Nothing is asked of the peer: it may    *)
(* answer nothing and close nothing.                                       *)
(***************************************************************************)
EXTENDS ClientCall

TimesOut == \E c \in Conns : Expire(c, callbacks[c])

Fairness ==
    /\ \A u \in Users : WF_vars(UserStep(u))
    /\ \A t \in Threads : WF_vars(CloseStep(t))
    /\ \A c \in Conns : WF_vars(DropConnection(c))
    /\ WF_vars(LoopStep)
    /\ \A w \in IOThreads : WF_vars(WorkerStep(w))
    /\ \A c \in Conns : WF_vars(\E w \in IOThreads : Run(w, c))
    /\ WF_vars(ExpireFill \/ PingSend)
    /\ SF_vars(TimesOut)

LiveSpec == Spec /\ Fairness

\* Every quest the client accepted is called back (or its blocking call
\* returns), whoever closes its connection while it is sent, answered or timed
\* out, and though the peer may never answer.
QuestsSettle == \A q \in Asks : (result[q] = "pending") ~> (result[q] \in Service!Settled)

\* connect() ends, with a connection or without: no other connect and no
\* close, which wait while _connStatus is Connecting, waits for ever.
ConnectingEnds == (status = "Connecting") ~> (status # "Connecting")

\* A connection somebody took out of the map is deleted, and its descriptor
\* closed, in the end: each run, ping and event that holds it lets it go.
ClosedConnectionsDeleted ==
    \A c \in Conns :
        (\E t \in Threads : conn[t] = c /\ pc[t] \in Closing) ~> (bin[c] = "dropped")
=============================================================================
