-------------------------- MODULE MCTcpConnection --------------------------
(***************************************************************************)
(* Instances of TcpConnection for TLC.                                     *)
(***************************************************************************)
EXTENDS TcpConnection, TLC

Symmetry == Permutations(Senders) \cup Permutations(Workers)
=============================================================================
