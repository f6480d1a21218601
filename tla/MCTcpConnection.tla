-------------------------- MODULE MCTcpConnection --------------------------
(***************************************************************************)
(* Small instances of TcpConnection: the ways and the kinds of sessions    *)
(* that the configurations put together.                                   *)
(***************************************************************************)
EXTENDS TcpConnection

EveryWay == AllWays
Accepted == {"accept"}
Outgoing == {"async", "sync"}
Async    == {"async"}

Never  == {FALSE}
Always == {TRUE}

=============================================================================
