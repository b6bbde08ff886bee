---------------------------- MODULE MCClientCall ----------------------------
(***************************************************************************)
(* Instances of ClientCall for TLC.                                        *)
(***************************************************************************)
EXTENDS ClientCallLive, TLC

Symmetry == Permutations(Users)

(* A reduction.  The end of a call, a blocked caller that learns what      *)
(* became of its quest, the hand-over of a close task to the reclaimer and *)
(* filling in a result whose callback was taken out read and write nothing *)
(* that another thread's step reads, but for enabling one: such a step is  *)
(* taken before any other.                                                 *)
Settled(q) == result[q] \notin {"idle", "calling", "pending"}

Local(t) ==
    \/ pc[t] \in {"return", "reclaim", "fill", "expire"}
    \/ pc[t] = "wait" /\ Settled(op[t])
    \/ pc[t] = "keyWait" /\ Settled(KeyOf(conn[t]))

LocalFirst ==
    LET L == {t \in Threads : Local(t)}
    IN  L = {} \/ \E t \in L : pc'[t] # pc[t]

(* Another.  Up to the lock of connect() or close() a call changes nothing, *)
(* and if it finds the client connected, or not connected, already it      *)
(* changes nothing at all: a call that does something might as well begin  *)
(* when it gets the lock.                                                  *)
Calling(u) == \/ pc[u] = "connect" /\ op[u] = "connect"
              \/ pc[u] = "close" /\ op[u] \in {"close", "reconnect"}

Prompt ==
    LET C == {u \in Users : Calling(u)}
    IN  /\ C = {} \/ \E u \in C : pc'[u] # pc[u]
        /\ \A u \in Users :
              op[u] = "none" /\ op'[u] = "connect" => status = "NoConnected"

(* Behind a mistaken event a thread may work on a deleted connection, which*)
(* is undefined: behaviours are followed up to it.                         *)
Defined == ~mistaken
=============================================================================
