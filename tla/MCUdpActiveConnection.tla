----------------------- MODULE MCUdpActiveConnection -----------------------
(***************************************************************************)
(* Small instances of UdpActiveConnection.                                 *)
(***************************************************************************)
EXTENDS UdpActiveConnection

Either == BOOLEAN

=============================================================================
