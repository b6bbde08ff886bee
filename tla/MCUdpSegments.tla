--------------------------- MODULE MCUdpSegments ---------------------------
(***************************************************************************)
(* An instance of UdpSegments for TLC.                                     *)
(***************************************************************************)
EXTENDS UdpSegments

MCSize == <<7, 2, 8, 1>>
=============================================================================
