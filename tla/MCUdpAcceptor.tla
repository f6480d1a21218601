---------------------------- MODULE MCUdpAcceptor ----------------------------
(***************************************************************************)
(* Small instances of UdpAcceptor: two peers.                              *)
(***************************************************************************)
EXTENDS UdpAcceptor

CONSTANTS e1, e2

TwoPeers == {e1, e2}

=============================================================================
