------------------------ MODULE MCTcpConnectionLive ------------------------
(***************************************************************************)
(* Instances of TcpConnectionLive for TLC.                                 *)
(***************************************************************************)
EXTENDS TcpConnectionLive
=============================================================================
