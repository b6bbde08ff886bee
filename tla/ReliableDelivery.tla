-------------------------- MODULE ReliableDelivery --------------------------
(***************************************************************************)
(* What the reliable UDP connection promises to its users: a reliable unit *)
(* is handed over at most once, and in order by a peer that parses in      *)
(* order.  A unit may be skipped only after its deadline.                  *)
(***************************************************************************)
EXTENDS Naturals

CONSTANTS Peer, MaxUnits, Discardable, Expirable, Ordered

VARIABLES
    pushed,     \* units a peer was given to send, numbered from 1
    expired,    \* units whose deadline has passed
    delivered   \* delivered[q][u]: copies of unit u handed over at q

Sender(q)   == CHOOSE p \in Peer : p # q
Numbers     == UNION {1 .. MaxUnits[p] : p \in Peer}
Reliably(p) == (1 .. MaxUnits[p]) \ Discardable[p]

Init ==
    /\ pushed = [p \in Peer |-> 0]
    /\ expired = [p \in Peer |-> {}]
    /\ delivered = [q \in Peer |-> [u \in Numbers |-> 0]]

Accept(p) ==
    /\ pushed[p] < MaxUnits[p]
    /\ pushed' = [pushed EXCEPT ![p] = @ + 1]
    /\ UNCHANGED <<expired, delivered>>

PassDeadline(p) ==
    /\ \E u \in Expirable[p] \cap 1 .. pushed[p] :
           expired' = [expired EXCEPT ![p] = @ \cup {u}]
    /\ UNCHANGED <<pushed, delivered>>

(* Copies are counted up to two.                                           *)
UpTo2(n) == IF n > 2 THEN 2 ELSE n

(* Some units arrive at q together.                                        *)
HandOver(q) ==
    LET p       == Sender(q)
        Have(D) == D \cup {u \in Reliably(p) : delivered[q][u] > 0}
    IN  /\ \E D \in SUBSET (1 .. pushed[p]) :
              /\ \A u \in D \cap Reliably(p) : delivered[q][u] = 0
              /\ Ordered =>
                    \A v \in D, u \in Reliably(p) :
                        u < v => u \in Have(D) \cup expired[p] \/ v \in Discardable[p]
              /\ \E n \in [D -> 1 .. 2] :
                    /\ \A u \in D \cap Reliably(p) : n[u] = 1
                    /\ delivered' = [delivered EXCEPT ![q] =
                          [u \in Numbers |-> IF u \in D THEN UpTo2(@[u] + n[u]) ELSE @[u]]]
        /\ UNCHANGED <<pushed, expired>>

Next == \E p \in Peer : Accept(p) \/ PassDeadline(p) \/ HandOver(p)

Spec == Init /\ [][Next]_<<pushed, expired, delivered>>
=============================================================================
