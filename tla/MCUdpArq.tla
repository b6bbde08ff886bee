----------------------------- MODULE MCUdpArq -----------------------------
(***************************************************************************)
(* Instances of UdpArq for TLC: A is the client, B the server.             *)
(***************************************************************************)
EXTENDS UdpArq, TLC

CONSTANTS A, B, UnitsA, UnitsB, BaseA, BaseB, ExpirableA, DiscardableA,
          RawB, CapA, CapB

MCPeer        == {A, B}
MCBaseSeq     == (A :> BaseA) @@ (B :> BaseB)
MCMaxUnits    == (A :> UnitsA) @@ (B :> UnitsB)
MCDiscardable == (A :> DiscardableA) @@ (B :> {})
MCExpirable   == (A :> ExpirableA) @@ (B :> {})
MCRawStart    == (A :> FALSE) @@ (B :> RawB)
MCNetCap      == (A :> CapA) @@ (B :> CapB)

(* A reduction.  From Receive to the end of the datagram the parser works  *)
(* on state no other action reads or writes, so its steps commute with     *)
(* those of the other threads: once it started it runs to that end.        *)
Busy(p) == parsing[p] # "idle"

MCNext ==
    \/ \E p \in Peer : Busy(p) /\ (Parse(p) \/ Finish(p))
    \/ (\A p \in Peer : ~Busy(p)) /\ Next

MCSpec == Init /\ [][MCNext]_vars

(* Another, for safety only.  A datagram that is lost is no different from *)
(* one that stays on its way, never to be received, until a full channel   *)
(* drops it for the next one: nothing looks at net but Receive, which may  *)
(* always wait.                                                            *)
KeptNext == MCNext /\ \A p \in Peer : net[p] # {} => net'[p] # {}

KeptSpec == Init /\ [][KeptNext]_vars
=============================================================================
