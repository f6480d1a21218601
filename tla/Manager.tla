------------------------------- MODULE Manager -------------------------------
(***************************************************************************)
(* A TcpManager or a UdpManager from init to exit: the facade's pointer,   *)
(* TcpManagerImpl or UdpManagerImpl with its listeners, and IOServicePool  *)
(* with its threads.                                                       *)
(*                                                                         *)
(* The user's thread goes through init and exit step by step (call) while  *)
(* the pool's threads already run, or still run, handlers: a listener      *)
(* accepts as soon as it is open, and exit joins nobody.  Of the           *)
(* connections only their introduction is modelled here; TcpConnection and *)
(* UdpAcceptor have the rest.  Once something that was deleted is used,    *)
(* `undefined' is set and nothing moves any more.                          *)
(***************************************************************************)
EXTENDS Naturals, Sequences, FiniteSets, SequencesExt

CONSTANTS
    Kinds,          \* which managers: "tcp", "udp"
    Arguments,      \* what init may be called with
    Peers,          \* those who connect to a listener, or send to it
    MaxThreads,     \* the most threads init is asked for
    MaxInits,       \* calls of init
    MaxConnects,    \* calls of create_connection
    MaxErrors       \* accepts that end in an error

ASSUME KindsAssumption == Kinds \subseteq {"tcp", "udp"}
ASSUME BoundsAssumption ==
    /\ MaxThreads \in Nat
    /\ MaxInits \in Nat
    /\ MaxConnects \in Nat
    /\ MaxErrors \in Nat

\* A port of 0 is invalid, and host_valid is FALSE if make_address throws.  A
\* good certificate enables TLS; a partial one lacks what it would need, the
\* file or, for the server, the key.
Certificates == {"none", "good", "partial", "unreadable"}

ASSUME ArgumentsAssumption ==
    Arguments \subseteq [thread_count : 0..MaxThreads, host_valid : BOOLEAN,
                         port_array : Seq(Nat), port_any_valid : BOOLEAN,
                         server_certificate : Certificates,
                         client_certificate : Certificates]

VARIABLES
    kind,
    m_manager_impl,     \* the facade's pointer is set
    args,               \* what the last init was called with
    call,               \* where the user's thread is, and at which index
    result,             \* of the last init
    m_io_contexts,      \* how many there are
    m_works,            \* work guards keep idle threads in run
    stopped,            \* the contexts that were stopped
    thread,             \* where each pool thread is, and its handler
    queue,              \* the handlers of each context
    handshakes,         \* how many are under way on each context, and with whom
    m_service,          \* m_tcp_service or m_udp_service is set
    m_ports,            \* m_tcp_ports or m_udp_ports
    m_acceptors,        \* the listeners
    peer,               \* how far each peer is, and with which listener
    undefined,          \* something that was deleted has been used
    inits, connects, errors     \* counters

managerVars == <<m_manager_impl, m_service, m_ports, args, result>>
poolVars    == <<m_io_contexts, m_works, stopped, handshakes>>
counters    == <<inits, connects, errors>>

vars == <<kind, call, managerVars, poolVars, thread, queue, m_acceptors, peer,
          undefined, counters>>

-----------------------------------------------------------------------------
Threads == 1..MaxThreads
NoOne == "nobody"           \* the other side of a connection we make
None == 0                   \* no accept is outstanding

At(step, index) == [at |-> step, index |-> index]
Idle == At("none", 0)

\* Handlers carry what their lambdas capture.  A session is known by its
\* context and, once it is accepted, by its peer.
Handler(op, a, context, p, ok) ==
    [op |-> op, acceptor |-> a, context |-> context, peer |-> p, ok |-> ok]
Start(context, p) == Handler("start", 0, context, p, TRUE)
Nothing == Handler("none", 0, 0, NoOne, TRUE)

Thread(step, job) == [at |-> step, job |-> job]
Absent == Thread("none", Nothing)
Waits  == Thread("run", Nothing)
Inside(t) == thread[t].at \in {"run", "handler", "callback"}

\* accept is the context of the session that async_accept will fill, or, for
\* a UdpAcceptor, its own context while its receive is outstanding.
Acceptor(port, context, accept) ==
    [port |-> port, context |-> context, accept |-> accept, open |-> TRUE]

Away == [at |-> "away", door |-> 0]
NoHandshake == [p \in Peers \cup {NoOne} |-> 0]

Init ==
    /\ kind \in Kinds
    /\ m_manager_impl = FALSE /\ m_service = FALSE /\ m_ports = <<>>
    /\ args \in Arguments /\ result = "none" /\ call = Idle
    /\ m_io_contexts = 0 /\ m_works = FALSE /\ stopped = {}
    /\ thread = [t \in Threads |-> Absent]
    /\ queue = [t \in Threads |-> <<>>]
    /\ handshakes = [t \in Threads |-> NoHandshake]
    /\ m_acceptors = <<>>
    /\ peer = [p \in Peers |-> Away]
    /\ undefined = FALSE
    /\ inits = 0 /\ connects = 0 /\ errors = 0

\* Slip: the index is not reduced to the contexts there are.
get_any == 1..MaxThreads

\* IOServicePool::get.  m_next_io_context is incremented by several threads
\* without a lock, so that any context may be the next.
get == 1..m_io_contexts

Post(context, h) == queue' = [queue EXCEPT ![context] = Append(@, h)]

-----------------------------------------------------------------------------
(* TcpManager::init, UdpManager::init.                                     *)

\* Only a TcpManager has certificates.  It ignores what set_server_certificate
\* and set_client_certificate return, so that a partial one does not count;
\* one that cannot be loaded throws, through init and out of it.
CertificateThrows(a) ==
    kind = "tcp" /\ "unreadable" \in {a.server_certificate, a.client_certificate}

init ==
    /\ call = Idle /\ ~m_manager_impl /\ inits < MaxInits
    /\ inits' = inits + 1
    /\ args' \in Arguments
    /\ m_manager_impl' = TRUE
    /\ call' = IF args'.thread_count = 0 THEN At("failed", 0)
               ELSE IF CertificateThrows(args') THEN Idle ELSE At("pool", 1)
    /\ result' = IF call' = Idle THEN "exception" ELSE "none"
    /\ UNCHANGED <<kind, m_service, m_ports, poolVars, thread, queue,
                   m_acceptors, peer, undefined, connects, errors>>

\* The facade has an implementation: after an init, also one that threw.
init_again ==
    /\ call = Idle /\ m_manager_impl /\ inits < MaxInits
    /\ inits' = inits + 1
    /\ result' = "false"
    /\ UNCHANGED <<kind, call, m_manager_impl, m_service, m_ports, args,
                   poolVars, thread, queue, m_acceptors, peer, undefined,
                   connects, errors>>

\* IOServicePool::init makes a context with its work guard and a thread that
\* runs it, at once.  After the last one the manager looks at its ports.
create_thread ==
    /\ call.at = "pool"
    /\ m_io_contexts' = m_io_contexts + 1
    /\ m_works' = TRUE
    /\ thread' = [thread EXCEPT ![call.index] = Waits]
    /\ IF call.index < args.thread_count
       THEN /\ call' = At("pool", call.index + 1)
            /\ UNCHANGED <<m_service, m_ports, result>>
       ELSE /\ m_service' = TRUE
            /\ m_ports' = <<>>
            /\ IF args.port_array = <<>>
               THEN call' = Idle /\ result' = "true"
               ELSE call' = At("ports", 1) /\ UNCHANGED result
    /\ UNCHANGED <<kind, m_manager_impl, args, stopped, handshakes, queue,
                   m_acceptors, peer, undefined, counters>>

\* create_thread throws and nothing catches it: init is left half way.
ThreadThrows ==
    /\ call.at = "pool"
    /\ m_io_contexts' = m_io_contexts + 1
    /\ m_works' = TRUE
    /\ call' = Idle
    /\ result' = "exception"
    /\ UNCHANGED <<kind, m_manager_impl, m_service, m_ports, args, stopped,
                   handshakes, thread, queue, m_acceptors, peer, undefined,
                   counters>>

ThisPort == args.port_array[call.index]
LastPort == call.index = Len(args.port_array)

\* With port_any_valid the first port that opens is the last one tried.
Enough == args.port_any_valid \/ LastPort

\* Slip: the whole array is told although only one port was opened.
assign_ports == args.port_array

Told == IF args.port_any_valid THEN <<ThisPort>> ELSE args.port_array

\* Slip: a listener that is added moves those that are already there.
MoveAndAdd(a) ==
    Append([i \in 1..Len(m_acceptors) |-> [m_acceptors[i] EXCEPT !.open = FALSE]], a)

push_back(a) == Append(m_acceptors, a)

\* The listener is open and has its first accept (start_accept, or
\* UdpAcceptor::start), which may complete before init returns.
PortOpens ==
    /\ call.at = "ports"
    /\ ThisPort # 0 /\ args.host_valid
    /\ \E context, session \in get :
          m_acceptors' = push_back(Acceptor(ThisPort, context,
                             IF kind = "tcp" THEN session ELSE context))
    /\ IF Enough
       THEN m_ports' = Told /\ call' = Idle /\ result' = "true"
       ELSE call' = At("ports", call.index + 1) /\ UNCHANGED <<m_ports, result>>
    /\ UNCHANGED <<kind, m_manager_impl, m_service, args, poolVars, thread,
                   queue, peer, undefined, counters>>

\* The port is 0, or the constructor of the listener fails.
PortFails ==
    /\ call.at = "ports"
    /\ ThisPort = 0 \/ args.host_valid \/ kind = "tcp"
    /\ call' = IF args.port_any_valid /\ ~LastPort
               THEN At("ports", call.index + 1) ELSE At("failed", 0)
    /\ UNCHANGED <<kind, managerVars, poolVars, thread, queue, m_acceptors,
                   peer, undefined, counters>>

\* UdpManagerImpl::init lets the exception of make_address through.
PortThrows ==
    /\ call.at = "ports"
    /\ ThisPort # 0 /\ ~args.host_valid /\ kind = "udp"
    /\ call' = Idle
    /\ result' = "exception"
    /\ UNCHANGED <<kind, m_manager_impl, m_service, m_ports, args, poolVars,
                   thread, queue, m_acceptors, peer, undefined, counters>>

-----------------------------------------------------------------------------
(* The end of a manager.                                                   *)

\* The accepts on a context that ~acceptor cancels: the handler of each is
\* posted, with an error.
Cancelled(t) ==
    {Handler("accept", a, m_acceptors[a].accept, NoOne, FALSE) :
        a \in {b \in 1..Len(m_acceptors) :
                 m_acceptors[b].accept # None /\ m_acceptors[b].context = t}}

\* m_acceptors.clear destroys the listeners in an order that it does not
\* promise.  Those who knocked are turned away.
CloseAcceptors ==
    /\ m_acceptors' = [a \in 1..Len(m_acceptors) |->
                          [m_acceptors[a] EXCEPT !.open = FALSE, !.accept = None]]
    /\ \E aborts \in [Threads -> UNION {SetToSeqs(Cancelled(t)) : t \in Threads}] :
          /\ \A t \in Threads : aborts[t] \in SetToSeqs(Cancelled(t))
          /\ queue' = [t \in Threads |-> queue[t] \o aborts[t]]
    /\ peer' = [p \in Peers |-> IF peer[p].at = "knocking" THEN Away ELSE peer[p]]

\* init returned false and the facade deletes the implementation without its
\* exit: the members go in the reverse of their order, listeners before pool.
destroy_impl ==
    /\ call.at = "failed"
    /\ call' = At("destroy", 0)
    /\ m_works' = FALSE
    /\ IF kind = "tcp" THEN CloseAcceptors
                       ELSE UNCHANGED <<m_acceptors, queue, peer>>
    /\ UNCHANGED <<kind, managerVars, m_io_contexts, stopped, handshakes, thread,
                   undefined, counters>>

\* TcpManager::exit, UdpManager::exit and, first of all, m_works.clear.
exit ==
    /\ call = Idle /\ m_manager_impl
    /\ call' = IF m_io_contexts = 0 THEN At("clear", 0) ELSE At("stop", 1)
    /\ m_works' = FALSE
    /\ UNCHANGED <<kind, managerVars, m_io_contexts, stopped, handshakes, thread,
                   queue, m_acceptors, peer, undefined, counters>>

\* IOServicePool::exit stops the contexts one by one, and joins no thread.
stop ==
    /\ call.at = "stop"
    /\ stopped' = stopped \cup {call.index}
    /\ call' = IF call.index < m_io_contexts THEN At("stop", call.index + 1)
                                             ELSE At("clear", 0)
    /\ UNCHANGED <<kind, managerVars, m_io_contexts, m_works, handshakes, thread,
                   queue, m_acceptors, peer, undefined, counters>>

clear ==
    /\ call.at = "clear"
    /\ call' = At("destroy", 0)
    /\ m_service' = FALSE
    /\ m_ports' = <<>>
    /\ IF kind = "tcp" THEN CloseAcceptors
                       ELSE UNCHANGED <<m_acceptors, queue, peer>>
    /\ UNCHANGED <<kind, m_manager_impl, args, result, poolVars, thread,
                   undefined, counters>>

\* The contexts are deleted, with the handlers, the handshakes, the sessions and
\* the UdpAcceptors that only their queues and operations kept.  A thread that
\* has not left its context by now loses it under its feet.
DeletePool ==
    IF \E t \in Threads : Inside(t)
    THEN undefined' = TRUE
         /\ UNCHANGED <<m_io_contexts, stopped, thread, queue, handshakes,
                        m_acceptors, peer>>
    ELSE /\ m_io_contexts' = 0 /\ stopped' = {}
         /\ thread' = [t \in Threads |-> Absent]
         /\ queue' = [t \in Threads |-> <<>>]
         /\ handshakes' = [t \in Threads |-> NoHandshake]
         /\ m_acceptors' = <<>>
         /\ peer' = [p \in Peers |-> Away]
         /\ UNCHANGED undefined

checked_delete ==
    /\ call.at = "destroy"
    /\ DeletePool
    /\ m_manager_impl' = FALSE /\ m_service' = FALSE /\ m_ports' = <<>>
    /\ call' = Idle
    /\ result' = IF result = "none" THEN "false" ELSE result
    /\ UNCHANGED <<kind, args, m_works, counters>>

-----------------------------------------------------------------------------
(* The threads of the pool.                                                *)

Goes(t, step) == thread' = [thread EXCEPT ![t].at = step]
Job(t) == thread[t].job

\* A context that was not stopped gives its thread the next handler.
take(t) ==
    /\ thread[t].at = "run" /\ t \notin stopped /\ queue[t] # <<>>
    /\ thread' = [thread EXCEPT ![t] = Thread("handler", Head(queue[t]))]
    /\ queue' = [queue EXCEPT ![t] = Tail(@)]
    /\ UNCHANGED <<kind, call, managerVars, poolVars, m_acceptors, peer,
                   undefined, counters>>

\* An operation keeps run from returning, as a work guard does.
HasWork(t) ==
    \/ m_works \/ queue[t] # <<>> \/ handshakes[t] # NoHandshake
    \/ \E a \in 1..Len(m_acceptors) :
          m_acceptors[a].accept # None /\ m_acceptors[a].context = t

\* run returns, and the thread ends.
leave(t) ==
    /\ thread[t].at = "run"
    /\ t \in stopped \/ ~HasWork(t)
    /\ Goes(t, "left")
    /\ UNCHANGED <<kind, call, managerVars, poolVars, queue, m_acceptors, peer,
                   undefined, counters>>

\* Slip: a failed accept is not followed by another.
accept_if_good(a, h) ==
    IF h.ok THEN \E session \in get :
                     m_acceptors' = [m_acceptors EXCEPT ![a].accept = session]
            ELSE UNCHANGED m_acceptors

\* A new session, on some context, for the next peer.
start_accept(a, h) ==
    \E session \in get : m_acceptors' = [m_acceptors EXCEPT ![a].accept = session]

\* TcpManagerImpl::handle_accept accepts again before all else.  A failed
\* session is closed, which does nothing as it never ran; a good one starts
\* on the thread of its own context.
handle_accept(t) ==
    /\ thread[t].at = "handler" /\ Job(t).op = "accept"
    /\ LET h == Job(t) IN
       IF ~m_acceptors[h.acceptor].open
       THEN undefined' = TRUE /\ UNCHANGED <<thread, queue, m_acceptors, peer>>
       ELSE /\ start_accept(h.acceptor, h)
            /\ IF h.ok THEN Post(h.context, Start(h.context, h.peer))
                       ELSE UNCHANGED queue
            /\ thread' = [thread EXCEPT ![t] = Waits]
            /\ UNCHANGED <<peer, undefined>>
    /\ UNCHANGED <<kind, call, managerVars, poolVars, counters>>

\* How far the peer of a session has come; those that we connect to do not
\* knock.
Meets(p, how) == IF p \in Peers THEN peer' = [peer EXCEPT ![p].at = how]
                                ELSE UNCHANGED peer

\* With a certificate that counts, for those who are accepted the server's and
\* for those we connect to the client's, sessions are SslSessions.
m_use_ssl(h) ==
    /\ kind = "tcp"
    /\ "good" = IF h.peer \in Peers THEN args.server_certificate
                                   ELSE args.client_certificate

\* TcpConnection::start of an SslSession: async_handshake begins, and the
\* session calls nobody before it ends.
handshake(t) ==
    /\ thread[t].at = "handler" /\ Job(t).op = "start" /\ m_use_ssl(Job(t))
    /\ thread' = [thread EXCEPT ![t] = Waits]
    /\ handshakes' = [handshakes EXCEPT ![t][Job(t).peer] = @ + 1]
    /\ Meets(Job(t).peer, "handshaking")
    /\ UNCHANGED <<kind, call, managerVars, m_io_contexts, m_works, stopped, queue,
                   m_acceptors, undefined, counters>>

\* Slip: the end of a handshake is not looked at, and introduces nobody.
only_plain(h) == h.op \in {"recv", "start"} /\ ~m_use_ssl(h)

Introduces(h) ==
    \/ h.op = "recv"
    \/ h.op = "start" /\ ~m_use_ssl(h)
    \/ h.op = "handshake" /\ h.ok

\* handle_handshake with an error calls nobody, and the session is gone.
HandshakeFailed(t) ==
    /\ thread[t].at = "handler" /\ Job(t).op = "handshake" /\ ~Introduces(Job(t))
    /\ thread' = [thread EXCEPT ![t] = Waits]
    /\ UNCHANGED <<kind, call, managerVars, poolVars, queue, m_acceptors, peer,
                   undefined, counters>>

\* on_accept or on_connect is called: by TcpConnection::start of a plain
\* session, by handle_handshake, or by UdpAcceptor::handle_recv for a new peer.
introduce(t) ==
    /\ thread[t].at = "handler" /\ Introduces(Job(t))
    /\ Goes(t, "callback")
    /\ Meets(Job(t).peer, "met")
    /\ UNCHANGED <<kind, call, managerVars, poolVars, queue, m_acceptors,
                   undefined, counters>>

\* The callback returns, and UdpAcceptor::handle_recv receives again.
Return(t) ==
    /\ thread[t].at = "callback"
    /\ thread' = [thread EXCEPT ![t] = Waits]
    /\ IF Job(t).op = "recv"
       THEN m_acceptors' = [m_acceptors EXCEPT ![Job(t).acceptor].accept = t]
       ELSE UNCHANGED m_acceptors
    /\ UNCHANGED <<kind, call, managerVars, poolVars, queue, peer, undefined,
                   counters>>

\* create_connection, by the user's thread or in a callback, while there is
\* an implementation: another session that will start on some context.  If
\* there is none, get takes the remainder of a division by zero.
create_connection ==
    /\ connects < MaxConnects
    /\ call = Idle \/ \E t \in Threads : thread[t].at = "callback"
    /\ m_manager_impl
    /\ connects' = connects + 1
    /\ IF m_io_contexts = 0
       THEN undefined' = TRUE /\ UNCHANGED queue
       ELSE /\ \E context \in get : Post(context, Start(context, NoOne))
            /\ UNCHANGED undefined
    /\ UNCHANGED <<kind, call, managerVars, poolVars, thread, m_acceptors,
                   peer, inits, errors>>

-----------------------------------------------------------------------------
(* The network and the kernel.                                             *)

\* Those who were met may come again.
Knock(p) ==
    /\ peer[p].at \in {"away", "met"}
    /\ \E a \in 1..Len(m_acceptors) :
          /\ m_acceptors[a].open
          /\ peer' = [peer EXCEPT ![p] = [at |-> "knocking", door |-> a]]
    /\ UNCHANGED <<kind, call, managerVars, poolVars, thread, queue,
                   m_acceptors, undefined, counters>>

\* The accept, or the receive, of a listener completes.
Completes(a, h) ==
    /\ m_acceptors' = [m_acceptors EXCEPT ![a].accept = None]
    /\ Post(m_acceptors[a].context, h)

AcceptCompletes(a, p) ==
    /\ m_acceptors[a].accept # None
    /\ peer[p] = [at |-> "knocking", door |-> a]
    /\ peer' = [peer EXCEPT ![p].at = "accepted"]
    /\ Completes(a, Handler(IF kind = "tcp" THEN "accept" ELSE "recv",
                            a, m_acceptors[a].accept, p, TRUE))
    /\ UNCHANGED <<kind, call, managerVars, poolVars, thread, undefined,
                   counters>>

\* The TLS of both sides comes to an end, or the peer goes away or is refused,
\* and may come again; or nothing of this, ever, with a peer that is silent.
HandshakeEnds(t, p) ==
    /\ handshakes[t][p] > 0
    /\ handshakes' = [handshakes EXCEPT ![t][p] = @ - 1]
    /\ \E ok \in BOOLEAN :
          /\ Post(t, Handler("handshake", 0, t, p, ok))
          /\ Meets(p, IF ok THEN "secured" ELSE "away")
    /\ UNCHANGED <<kind, call, managerVars, m_io_contexts, m_works, stopped, thread,
                   m_acceptors, undefined, counters>>

\* Descriptors or memory are short for a while, or the peer went away.
AcceptFails(a) ==
    /\ kind = "tcp" /\ errors < MaxErrors
    /\ m_acceptors[a].accept # None
    /\ errors' = errors + 1
    /\ Completes(a, Handler("accept", a, m_acceptors[a].accept, NoOne, FALSE))
    /\ UNCHANGED <<kind, call, managerVars, poolVars, thread, peer, undefined,
                   inits, connects>>

-----------------------------------------------------------------------------
UserThread ==
    \/ init \/ init_again \/ create_thread \/ ThreadThrows
    \/ PortOpens \/ PortFails \/ PortThrows \/ destroy_impl
    \/ exit \/ stop \/ clear \/ checked_delete

PoolThread(t) ==
    \/ take(t) \/ leave(t) \/ handle_accept(t) \/ handshake(t)
    \/ HandshakeFailed(t) \/ introduce(t) \/ Return(t)

AnyAccept(p) == \E a \in 1..Len(m_acceptors) : AcceptCompletes(a, p)

Next ==
    /\ ~undefined
    /\ \/ UserThread \/ create_connection
       \/ \E t \in Threads : PoolThread(t)
       \/ \E p \in Peers : Knock(p) \/ AnyAccept(p)
       \/ \E t \in Threads, p \in Peers \cup {NoOne} : HandshakeEnds(t, p)
       \/ \E a \in 1..Len(m_acceptors) : AcceptFails(a)

\* The threads run, callbacks return, and the kernel, which keeps those who
\* knock in a queue, comes to each of them if accepts go on.  The user need
\* not call anything, and no peer need go on with its handshake.
Fairness ==
    /\ \A t \in Threads : WF_vars(~undefined /\ PoolThread(t))
    /\ \A p \in Peers : SF_vars(~undefined /\ AnyAccept(p))

Spec == Init /\ [][Next]_vars /\ Fairness

-----------------------------------------------------------------------------
Handlers ==
    [op : {"none", "accept", "recv", "start", "handshake"}, acceptor : Nat, context : Nat,
     peer : Peers \cup {NoOne}, ok : BOOLEAN]

\* The type of every variable; handlers and sessions are on contexts that
\* exist.
TypeOK ==
    /\ kind \in Kinds
    /\ m_manager_impl \in BOOLEAN /\ m_service \in BOOLEAN /\ m_works \in BOOLEAN
    /\ args \in Arguments /\ m_ports \in Seq(Nat)
    /\ call \in [at : {"none", "pool", "ports", "failed", "stop", "clear", "destroy"},
                 index : Nat]
    /\ result \in {"none", "true", "false", "exception"}
    /\ m_io_contexts \in 0..MaxThreads /\ stopped \subseteq 1..m_io_contexts
    /\ thread \in [Threads -> [at : {"none", "run", "handler", "callback", "left"},
                               job : Handlers]]
    /\ queue \in [Threads -> Seq(Handlers)]
    /\ handshakes \in [Threads -> [Peers \cup {NoOne} -> Nat]]
    /\ \A t \in Threads \ 1..m_io_contexts :
          queue[t] = <<>> /\ ~Inside(t) /\ handshakes[t] = NoHandshake
    /\ m_acceptors \in Seq([port : Nat \ {0}, context : 1..m_io_contexts,
                            accept : 0..m_io_contexts, open : BOOLEAN])
    /\ peer \in [Peers -> [at : {"away", "knocking", "accepted", "handshaking",
                                  "secured", "met"},
                           door : 0..Len(m_acceptors)]]
    /\ undefined \in BOOLEAN
    /\ inits \in 0..MaxInits /\ connects \in 0..MaxConnects /\ errors \in 0..MaxErrors

\* Whichever ports open and wherever init ends, between two calls get_ports
\* tells the ports of the listeners there are, no more and no fewer: none is
\* left after a failed init or an exit.
PortsTold ==
    call = Idle /\ ~undefined =>
        m_ports = [a \in 1..Len(m_acceptors) |-> m_acceptors[a].port]

\* Where the accept of a listener is when it is not outstanding.
Waiting(a) ==
    UNION {{t} \X {i \in 1..Len(queue[t]) : queue[t][i].acceptor = a} : t \in Threads}
InHand(a) == {t \in Threads : Job(t).acceptor = a}

\* An open listener has one accept, or one receive: outstanding, or completed,
\* or in the hands of a thread that will start the next.  Without one it is
\* deaf, and with two a peer would be lost between the sessions.
AcceptArmed ==
    \A a \in 1..Len(m_acceptors) :
        m_acceptors[a].open =>
            Cardinality(Waiting(a)) + Cardinality(InHand(a))
                = IF m_acceptors[a].accept = None THEN 1 ELSE 0

\* What handlers refer to is there for as long as the manager is: while init
\* adds listeners, while threads accept and while exit stops the contexts.
\* Only when the implementation is being deleted may a thread be late; if
\* none is, no thread is left and no callback can come.  A context that is
\* asked for exists, unless a certificate could not be loaded.
SafeWhileServing ==
    /\ undefined =>
          \/ call.at = "destroy" \/ ~m_manager_impl
          \/ "unreadable" \in {args.server_certificate, args.client_certificate}
    /\ ~m_manager_impl /\ ~undefined =>
          \A t \in Threads : ~Inside(t) /\ queue[t] = <<>> /\ handshakes[t] = NoHandshake

-----------------------------------------------------------------------------
Ending ==
    \/ call.at \in {"failed", "stop", "clear", "destroy"}
    \/ ~m_manager_impl \/ undefined

\* A peer who knocks at a listener of plain TCP or of UDP is introduced to the
\* user, whatever became of the accepts before, unless the manager comes to its
\* end.  At a TLS listener he comes to his handshake, which nobody ends for him;
\* if it ends well he is introduced.
Accepted ==
    \A p \in Peers :
        /\ peer[p].at = "knocking" ~>
              \/ peer[p].at = "met"
              \/ peer[p].at = "handshaking" /\ args.server_certificate = "good"
              \/ Ending
        /\ peer[p].at = "secured" ~> peer[p].at = "met" \/ Ending

=============================================================================
