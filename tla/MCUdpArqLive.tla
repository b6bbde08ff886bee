--------------------------- MODULE MCUdpArqLive ---------------------------
EXTENDS MCUdpArq, UdpArqLive

MCLiveSpec == MCSpec /\ Fairness
=============================================================================
