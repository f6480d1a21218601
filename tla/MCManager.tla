----------------------------- MODULE MCManager -----------------------------
(***************************************************************************)
(* Small instances of Manager: what init is called with.                   *)
(***************************************************************************)
EXTENDS Manager

With(threads, valid, array, any, server, client) ==
    [thread_count |-> threads, host_valid |-> valid, port_array |-> array,
     port_any_valid |-> any, server_certificate |-> server,
     client_certificate |-> client]

TwoPorts  == With(2, TRUE, <<7, 8>>, FALSE, "none", "none")
OneOfSome == With(2, TRUE, <<0, 7, 8>>, TRUE, "partial", "none")
BadHost   == With(1, FALSE, <<7, 8>>, TRUE, "none", "partial")
NoPort    == With(1, TRUE, <<>>, FALSE, "none", "good")
NoThread  == With(0, TRUE, <<7>>, FALSE, "unreadable", "none")
BadFile   == With(2, TRUE, <<7>>, FALSE, "good", "unreadable")
TlsPort   == With(2, TRUE, <<7>>, FALSE, "good", "good")

AnyArguments ==
    {TwoPorts, OneOfSome, TlsPort, BadHost, NoPort, NoThread, BadFile}

BothKinds == {"tcp", "udp"}

=============================================================================
