----------------------------- MODULE ManagerProofs -----------------------------
(***************************************************************************)
(* Proofs about a manager, for any number of threads, listeners, peers and *)
(* calls of init, and whatever init is called with: the types, that the    *)
(* ports told are those of the listeners, that each listener has one       *)
(* accept, and that what handlers use is there for as long as the manager  *)
(* is.                                                                     *)
(***************************************************************************)
EXTENDS Manager, QueueLemmas

-----------------------------------------------------------------------------
(* The inductive invariant.                                                *)

\* What a handler refers to is there, among n listeners and c contexts.
HandlerOK(h, n, c) ==
    /\ h.acceptor <= n
    /\ h.op = "accept" => h.context \in 1..c
    /\ h.op \in {"accept", "recv"} <=> h.acceptor # 0
QueueOK(q, n, c) == \A i \in 1..Len(q) : HandlerOK(q[i], n, c)

\* A thread that is in no handler has none in its hands, and callbacks are
\* made by the handlers that introduce.
ThreadOK(w) ==
    /\ w.at \in {"none", "run", "left"} => w.job = Nothing
    /\ w.at = "callback" => w.job.op \in {"start", "recv", "handshake"}

Sane ==
    \A t \in Threads :
        /\ ThreadOK(thread[t])
        /\ HandlerOK(Job(t), Len(m_acceptors), m_io_contexts)
        /\ QueueOK(queue[t], Len(m_acceptors), m_io_contexts)

\* No handler of listener a is on thread t, and exactly one is.
Free(q, a) == \A i \in 1..Len(q) : q[i].acceptor # a
Once(q, a) ==
    \E i \in 1..Len(q) :
        q[i].acceptor = a /\ \A j \in 1..Len(q) : q[j].acceptor = a => j = i
Apart(t, a) == Free(queue[t], a) /\ Job(t).acceptor # a
OneAt(t, a) ==
    \/ Free(queue[t], a) /\ Job(t).acceptor = a
    \/ Once(queue[t], a) /\ Job(t).acceptor # a

\* An open listener has its handler on the thread of its own context, unless
\* its accept is outstanding, and none anywhere else.
ArmedAt(t, a) ==
    IF m_acceptors[a].context = t /\ m_acceptors[a].accept = None
    THEN OneAt(t, a) ELSE Apart(t, a)
Armed ==
    \A a \in 1..Len(m_acceptors) :
        m_acceptors[a].open => \A t \in Threads : ArmedAt(t, a)

\* Nothing is left of a manager without an implementation.
Gone ==
    /\ m_io_contexts = 0 /\ stopped = {} /\ m_acceptors = <<>> /\ m_ports = <<>>
    /\ \A t \in Threads :
          thread[t] = Absent /\ queue[t] = <<>> /\ handshakes[t] = NoHandshake

\* The ports of these listeners.
Doors(acceptors) == [a \in 1..Len(acceptors) |-> acceptors[a].port]

\* The ports are tried one by one: without port_any_valid each of those before
\* has its listener, and with it none has.
Trying ==
    /\ call.index \in 1..Len(args.port_array) /\ m_io_contexts # 0 /\ m_ports = <<>>
    /\ IF args.port_any_valid \/ ~args.host_valid THEN m_acceptors = <<>>
       ELSE /\ Len(m_acceptors) = call.index - 1
            /\ \A a \in 1..Len(m_acceptors) : m_acceptors[a].port = args.port_array[a]

\* init threw, before there was any context.
Unreadable == "unreadable" \in {args.server_certificate, args.client_certificate}

\* How far init or exit has come.
Stages ==
    /\ call.at # "none" => m_manager_impl
    /\ ~m_manager_impl => Gone
    /\ call.at = "none" => m_ports = Doors(m_acceptors)
    /\ call.at = "none" /\ m_manager_impl /\ m_io_contexts = 0
          => Unreadable
    /\ call.at = "pool" =>
          /\ call.index \in 1..args.thread_count /\ m_io_contexts = call.index - 1
          /\ m_acceptors = <<>> /\ m_ports = <<>>
    /\ call.at = "ports" => Trying
    /\ call.at = "stop" => call.index \in 1..m_io_contexts
    /\ call.at # "destroy" => \A a \in 1..Len(m_acceptors) : m_acceptors[a].open

\* What may be used too late.
Late ==
    undefined => call.at = "destroy" \/ ~m_manager_impl \/ Unreadable

IInv == TypeOK /\ Sane /\ Armed /\ (~undefined => Stages) /\ Late

-----------------------------------------------------------------------------
(* Types.                                                                  *)

Calls == {"none", "pool", "ports", "failed", "stop", "clear", "destroy"}

CallTyped ==
    /\ kind \in Kinds
    /\ m_manager_impl \in BOOLEAN /\ m_service \in BOOLEAN /\ m_works \in BOOLEAN
    /\ args \in Arguments /\ m_ports \in Seq(Nat)
    /\ call \in [at : Calls, index : Nat]
    /\ result \in {"none", "true", "false", "exception"}
    /\ undefined \in BOOLEAN
    /\ inits \in 0..MaxInits /\ connects \in 0..MaxConnects /\ errors \in 0..MaxErrors

ThreadPlaces == {"none", "run", "handler", "callback", "left"}

PoolTyped ==
    /\ m_io_contexts \in 0..MaxThreads /\ stopped \subseteq 1..m_io_contexts
    /\ thread \in [Threads -> [at : ThreadPlaces, job : Handlers]]
    /\ \A t \in Threads \ 1..m_io_contexts : ~Inside(t)

QueueTyped ==
    /\ queue \in [Threads -> Seq(Handlers)]
    /\ \A t \in Threads \ 1..m_io_contexts : queue[t] = <<>>

HandshakesTyped ==
    /\ handshakes \in [Threads -> [Peers \cup {NoOne} -> Nat]]
    /\ \A t \in Threads \ 1..m_io_contexts : handshakes[t] = NoHandshake

Doorways == [port : Nat \ {0}, context : 1..m_io_contexts,
             accept : 0..m_io_contexts, open : BOOLEAN]

PeerPlaces == {"away", "knocking", "accepted", "handshaking", "secured", "met"}

DoorsTyped ==
    /\ m_acceptors \in Seq(Doorways)
    /\ peer \in [Peers -> [at : PeerPlaces, door : 0..Len(m_acceptors)]]

LEMMA TypeParts ==
    TypeOK <=> CallTyped /\ PoolTyped /\ QueueTyped /\ HandshakesTyped /\ DoorsTyped
BY DEF TypeOK, CallTyped, PoolTyped, QueueTyped, HandshakesTyped, DoorsTyped, Doorways, Calls,
       ThreadPlaces, PeerPlaces

\* What init is called with.
LEMMA ArgsType ==
    ASSUME CallTyped
    PROVE  /\ args.port_array \in Seq(Nat) /\ args.thread_count \in 0..MaxThreads
           /\ args.host_valid \in BOOLEAN /\ args.port_any_valid \in BOOLEAN
BY ArgumentsAssumption DEF CallTyped

\* Handlers, and the places of threads.
LEMMA HandlerType ==
    ASSUME NEW op \in {"none", "accept", "recv", "start", "handshake"}, NEW a \in Nat, NEW c \in Nat,
           NEW p \in Peers \cup {NoOne}, NEW ok \in BOOLEAN
    PROVE  /\ Handler(op, a, c, p, ok) \in Handlers
           /\ Handler(op, a, c, p, ok).op = op /\ Handler(op, a, c, p, ok).acceptor = a
           /\ Handler(op, a, c, p, ok).context = c
BY DEF Handler, Handlers

LEMMA NothingType ==
    /\ Nothing \in Handlers /\ Nothing.acceptor = 0 /\ Nothing.op = "none"
    /\ Waits \in [at : ThreadPlaces, job : Handlers]
    /\ Absent \in [at : ThreadPlaces, job : Handlers]
    /\ Waits.job = Nothing /\ Absent.job = Nothing /\ Waits.at = "run" /\ Absent.at = "none"
BY DEF Nothing, Handler, Handlers, Waits, Absent, Thread, ThreadPlaces

\* Where the user's thread may be.
LEMMA AtType ==
    ASSUME NEW step \in Calls, NEW i \in Nat
    PROVE  /\ At(step, i) \in [at : Calls, index : Nat]
           /\ At(step, i).at = step /\ At(step, i).index = i
BY DEF At

LEMMA CallStep ==
    ASSUME TypeOK, ~undefined, Stages, Next
    PROVE  CallTyped'
<1>1. CallTyped /\ BoundsAssumption
  BY TypeParts, BoundsAssumption
<1>2. /\ args.port_array \in Seq(Nat) /\ args.thread_count \in 0..MaxThreads
  BY <1>1, ArgsType
<1> USE DEF CallTyped, Calls, BoundsAssumption, At, Idle, counters, managerVars, poolVars
<1>15. \A step \in Calls : \A i \in Nat : At(step, i) \in [at : Calls, index : Nat]
  BY AtType
<1>3. CASE init
  <2>1. inits' \in 0..MaxInits
    BY <1>1, <1>3 DEF init
  <2>2. call' \in [at : Calls, index : Nat]
    BY <1>1, <1>3 DEF init
  <2>3. result' \in {"none", "true", "false", "exception"} /\ args' \in Arguments
    BY <1>3 DEF init
  <2> QED
    BY <1>1, <1>3, <2>1, <2>2, <2>3 DEF init
<1>16. CASE init_again
  <2>1. inits' \in 0..MaxInits
    BY <1>1, <1>16 DEF init_again
  <2> QED
    BY <1>1, <1>16, <2>1 DEF init_again
<1>18. CASE exit
  BY <1>1, <1>18 DEF exit
<1>17. CASE create_thread
  <2>1. <<>> \in Seq(Nat)
    OBVIOUS
  <2>2. call.index \in Nat
    BY <1>1
  <2>3. call' \in [at : Calls, index : Nat]
    BY <1>1, <1>15, <1>17, <2>2 DEF create_thread
  <2>4. /\ m_ports' \in Seq(Nat) /\ result' \in {"none", "true", "false", "exception"}
        /\ m_service' \in BOOLEAN
    BY <1>1, <1>17, <2>1 DEF create_thread
  <2> QED
    BY <1>1, <1>17, <2>3, <2>4 DEF create_thread
<1>4. CASE ThreadThrows
  BY <1>1, <1>4 DEF ThreadThrows
<1>5. CASE PortOpens
  <2>1. ThisPort \in Nat /\ Told \in Seq(Nat)
    BY <1>2, <1>5 DEF PortOpens, ThisPort, Told, Stages, Trying
  <2> QED
    BY <1>1, <2>1, <1>5 DEF PortOpens
<1>6. CASE PortFails \/ PortThrows
  BY <1>1, <1>6 DEF PortFails, PortThrows
<1>7. CASE destroy_impl
  BY <1>1, <1>7 DEF destroy_impl
<1>8. CASE stop
  BY <1>1, <1>8 DEF stop
<1>9. CASE clear
  <2>1. <<>> \in Seq(Nat)
    OBVIOUS
  <2> QED
    BY <1>1, <1>9, <2>1 DEF clear
<1>10. CASE checked_delete
  <2>1. <<>> \in Seq(Nat)
    OBVIOUS
  <2>2. undefined' \in BOOLEAN
    BY <1>1, <1>10 DEF checked_delete, DeletePool
  <2> QED
    BY <1>1, <1>10, <2>1, <2>2 DEF checked_delete
<1>11. CASE create_connection
  <2>1. connects' \in 0..MaxConnects
    BY <1>1, <1>11 DEF create_connection
  <2>2. undefined' \in BOOLEAN
    BY <1>1, <1>11 DEF create_connection
  <2> QED
    BY <1>1, <1>11, <2>1, <2>2 DEF create_connection
<1>12. CASE \E t \in Threads : PoolThread(t)
  <2>1. PICK t \in Threads : PoolThread(t)
    BY <1>12
  <2> QED
    BY <1>1, <2>1 DEF PoolThread, take, leave, handle_accept, handshake, HandshakeFailed,
         introduce, Return
<1>19. CASE \E t \in Threads, p \in Peers \cup {NoOne} : HandshakeEnds(t, p)
  BY <1>1, <1>19 DEF HandshakeEnds
<1>13. CASE \E p \in Peers : Knock(p) \/ AnyAccept(p)
  BY <1>1, <1>13 DEF Knock, AnyAccept, AcceptCompletes
<1>14. CASE \E a \in 1..Len(m_acceptors) : AcceptFails(a)
  BY <1>1, <1>14 DEF AcceptFails
<1> QED
  BY <1>3, <1>4, <1>5, <1>6, <1>7, <1>8, <1>9, <1>10, <1>11, <1>12, <1>13, <1>14, <1>16, <1>17, <1>18,
     <1>19 DEF Next, UserThread

\* A listener: its parts, and what an accept that begins or ends, and the
\* closing, leave of it.
LEMMA DoorAt ==
    ASSUME DoorsTyped, NEW a \in 1..Len(m_acceptors)
    PROVE  /\ m_acceptors[a] \in Doorways /\ m_acceptors[a].port \in Nat \ {0}
           /\ m_acceptors[a].context \in 1..m_io_contexts
           /\ m_acceptors[a].accept \in 0..m_io_contexts /\ m_acceptors[a].open \in BOOLEAN
<1>1. m_acceptors[a] \in Doorways
  BY DEF DoorsTyped
<1> QED
  BY <1>1 DEF Doorways

LEMMA DoorChange ==
    ASSUME NEW d \in Doorways, NEW s \in 0..m_io_contexts
    PROVE  /\ [d EXCEPT !.accept = s] \in Doorways
           /\ [d EXCEPT !.accept = s].accept = s /\ [d EXCEPT !.accept = s].port = d.port
           /\ [d EXCEPT !.accept = s].context = d.context
           /\ [d EXCEPT !.accept = s].open = d.open
BY DEF Doorways

LEMMA DoorClosed ==
    ASSUME NEW d \in Doorways, m_io_contexts \in Nat
    PROVE  /\ [d EXCEPT !.open = FALSE, !.accept = None] \in Doorways
           /\ [d EXCEPT !.open = FALSE, !.accept = None].open = FALSE
<1> DEFINE e == [d EXCEPT !.open = FALSE]
<1>1. e \in Doorways /\ e.open = FALSE
  BY DEF Doorways
<1>2. [e EXCEPT !.accept = None] \in Doorways /\ [e EXCEPT !.accept = None].open = FALSE
  <2>1. 0 \in 0..m_io_contexts
    OBVIOUS
  <2> HIDE DEF e
  <2> QED
    BY <1>1, <2>1, DoorChange DEF None
<1>3. [d EXCEPT !.open = FALSE, !.accept = None] = [e EXCEPT !.accept = None]
  OBVIOUS
<1> QED
  BY <1>2, <1>3

\* A handler is posted: where, and that it is typed.
LEMMA Posted ==
    ASSUME PoolTyped, QueueTyped, NEW c \in 1..m_io_contexts, NEW h \in Handlers, Post(c, h)
    PROVE  /\ c \in Threads /\ queue' \in [Threads -> Seq(Handlers)]
           /\ queue'[c] = Append(queue[c], h)
           /\ \A t \in Threads : t # c => queue'[t] = queue[t]
<1>1. c \in Threads
  BY BoundsAssumption DEF PoolTyped, Threads, BoundsAssumption
<1>2. Append(queue[c], h) \in Seq(Handlers)
  BY <1>1, AppendType DEF QueueTyped
<1> QED
  BY <1>1, <1>2 DEF Post, QueueTyped

\* The accepts that are cancelled: on contexts that there are, and of listeners
\* that there are.
LEMMA CancelledType ==
    ASSUME PoolTyped, DoorsTyped, NEW t
    PROVE  /\ \A h \in Cancelled(t) :
                 /\ h \in Handlers /\ h.op = "accept" /\ h.context \in 1..m_io_contexts
                 /\ h.acceptor \in 1..Len(m_acceptors)
           /\ t \notin 1..m_io_contexts => Cancelled(t) = {}
           /\ IsFiniteSet(Cancelled(t))
<1> DEFINE A == {b \in 1..Len(m_acceptors) :
                   m_acceptors[b].accept # None /\ m_acceptors[b].context = t}
           f == [a \in A |-> Handler("accept", a, m_acceptors[a].accept, NoOne, FALSE)]
<1>1. Len(m_acceptors) \in Nat /\ m_io_contexts \in Nat
  BY BoundsAssumption DEF PoolTyped, DoorsTyped, BoundsAssumption
<1>2. ASSUME NEW a \in 1..Len(m_acceptors)
      PROVE  /\ m_acceptors[a].accept \in 0..m_io_contexts
             /\ m_acceptors[a].context \in 1..m_io_contexts
  BY DoorAt
<1>3. ASSUME NEW h \in Cancelled(t)
      PROVE  /\ h \in Handlers /\ h.op = "accept" /\ h.context \in 1..m_io_contexts
             /\ h.acceptor \in 1..Len(m_acceptors)
  <2>1. PICK a \in A : h = Handler("accept", a, m_acceptors[a].accept, NoOne, FALSE)
    BY DEF Cancelled
  <2>2. m_acceptors[a].accept \in 1..m_io_contexts /\ a \in Nat /\ a \in 1..Len(m_acceptors)
    BY <1>1, <1>2 DEF None
  <2> QED
    <3>1. /\ "accept" \in {"none", "accept", "recv", "start", "handshake"} /\ FALSE \in BOOLEAN
          /\ NoOne \in Peers \cup {NoOne} /\ m_acceptors[a].accept \in Nat
      BY <1>1, <2>2
    <3>2. /\ Handler("accept", a, m_acceptors[a].accept, NoOne, FALSE) \in Handlers
          /\ Handler("accept", a, m_acceptors[a].accept, NoOne, FALSE).op = "accept"
          /\ Handler("accept", a, m_acceptors[a].accept, NoOne, FALSE).acceptor = a
          /\ Handler("accept", a, m_acceptors[a].accept, NoOne, FALSE).context
                = m_acceptors[a].accept
      BY <2>2, <3>1 DEF Handler, Handlers
    <3> QED
      BY <2>1, <2>2, <3>2
<1>4. ASSUME t \notin 1..m_io_contexts PROVE Cancelled(t) = {}
  <2>1. A = {}
    BY <1>2, <1>4
  <2> QED
    BY <2>1 DEF Cancelled
<1>5. IsFiniteSet(Cancelled(t))
  <2>1. IsFiniteSet(1..Len(m_acceptors))
    BY <1>1, FS_Interval
  <2>2. IsFiniteSet(A)
    BY <2>1, FS_Subset
  <2>3. f \in Surjection(A, Cancelled(t))
    BY DEF Surjection, Cancelled
  <2> QED
    BY <2>2, <2>3, FS_Surjection DEF ExistsSurjection
<1> QED
  BY <1>3, <1>4, <1>5

\* The listeners are closed: what the queues and the listeners then hold.
LEMMA Closed ==
    ASSUME PoolTyped, QueueTyped, DoorsTyped, CloseAcceptors
    PROVE  /\ queue' \in [Threads -> Seq(Handlers)]
           /\ \A t \in Threads \ 1..m_io_contexts : queue'[t] = <<>>
           /\ \A t \in Threads : \A i \in 1..Len(queue'[t]) :
                 \/ i \in 1..Len(queue[t]) /\ queue'[t][i] = queue[t][i]
                 \/ /\ queue'[t][i].op = "accept"
                    /\ queue'[t][i].context \in 1..m_io_contexts
                    /\ queue'[t][i].acceptor \in 1..Len(m_acceptors)
           /\ m_acceptors' \in Seq(Doorways) /\ Len(m_acceptors') = Len(m_acceptors)
           /\ \A a \in 1..Len(m_acceptors) : ~m_acceptors'[a].open
<1>1. PICK aborts \in [Threads -> UNION {SetToSeqs(Cancelled(t)) : t \in Threads}] :
         /\ \A t \in Threads : aborts[t] \in SetToSeqs(Cancelled(t))
         /\ queue' = [t \in Threads |-> queue[t] \o aborts[t]]
  BY DEF CloseAcceptors
<1>2. ASSUME NEW t \in Threads
      PROVE  /\ aborts[t] \in Seq(Cancelled(t)) /\ aborts[t] \in Seq(Handlers)
             /\ Cancelled(t) = {} => aborts[t] = <<>>
  <2>1. Cardinality(Cancelled(t)) \in Nat /\ (Cancelled(t) = {} => Cardinality(Cancelled(t)) = 0)
    BY CancelledType, FS_CardinalityType, FS_EmptySet
  <2>2. aborts[t] \in [1..Cardinality(Cancelled(t)) -> Cancelled(t)]
    BY <1>1 DEF SetToSeqs
  <2>3. Cancelled(t) \subseteq Handlers
    BY CancelledType
  <2>4. aborts[t] \in Seq(Cancelled(t)) /\ Len(aborts[t]) = Cardinality(Cancelled(t))
    BY <2>1, <2>2
  <2> QED
    BY <2>1, <2>3, <2>4
<1>3. ASSUME NEW t \in Threads
      PROVE  queue'[t] \in Seq(Handlers) /\ queue'[t] = queue[t] \o aborts[t]
  <2>1. queue[t] \in Seq(Handlers)
    BY DEF QueueTyped
  <2> QED
    BY <1>1, <1>2, <2>1
<1>4. ASSUME NEW t \in Threads \ 1..m_io_contexts PROVE queue'[t] = <<>>
  <2>1. queue[t] = <<>> /\ aborts[t] = <<>>
    BY <1>2, CancelledType DEF QueueTyped
  <2> QED
    BY <1>3, <2>1
<1>5. ASSUME NEW t \in Threads, NEW i \in 1..Len(queue'[t])
      PROVE  \/ i \in 1..Len(queue[t]) /\ queue'[t][i] = queue[t][i]
             \/ queue'[t][i] \in Cancelled(t)
  <2>1. queue[t] \in Seq(Handlers) /\ aborts[t] \in Seq(Cancelled(t))
    BY <1>2 DEF QueueTyped
  <2>2. /\ Len(queue[t] \o aborts[t]) = Len(queue[t]) + Len(aborts[t])
        /\ \A j \in 1..Len(queue[t]) : (queue[t] \o aborts[t])[j] = queue[t][j]
        /\ \A j \in Len(queue[t]) + 1..Len(queue[t]) + Len(aborts[t]) :
              (queue[t] \o aborts[t])[j] = aborts[t][j - Len(queue[t])]
    BY <2>1
  <2>3. Len(queue[t]) \in Nat /\ Len(aborts[t]) \in Nat
    BY <2>1
  <2>4. ASSUME i \notin 1..Len(queue[t])
        PROVE  /\ i \in Len(queue[t]) + 1..Len(queue[t]) + Len(aborts[t])
               /\ i - Len(queue[t]) \in 1..Len(aborts[t])
    BY <1>3, <2>2, <2>3, <2>4
  <2>5. \A j \in 1..Len(aborts[t]) : aborts[t][j] \in Cancelled(t)
    BY <2>1
  <2> QED
    BY <1>3, <2>2, <2>4, <2>5
<1>6. /\ m_acceptors' \in Seq(Doorways) /\ Len(m_acceptors') = Len(m_acceptors)
      /\ \A a \in 1..Len(m_acceptors) : ~m_acceptors'[a].open
  <2>1. Len(m_acceptors) \in Nat /\ m_io_contexts \in Nat
    BY BoundsAssumption DEF PoolTyped, DoorsTyped, BoundsAssumption
  <2> DEFINE shut(a) == [m_acceptors[a] EXCEPT !.open = FALSE, !.accept = None]
  <2>2. ASSUME NEW a \in 1..Len(m_acceptors)
        PROVE  shut(a) \in Doorways /\ shut(a).open = FALSE
    <3>1. m_acceptors[a] \in Doorways
      BY DEF DoorsTyped
    <3> QED
      BY <2>1, <3>1, DoorClosed
  <2>3. m_acceptors' = [a \in 1..Len(m_acceptors) |-> shut(a)]
    BY DEF CloseAcceptors
  <2> HIDE DEF shut
  <2>4. m_acceptors' \in Seq(Doorways) /\ Len(m_acceptors') = Len(m_acceptors)
    <3>1. m_acceptors' \in [1..Len(m_acceptors) -> Doorways]
      BY <2>2, <2>3
    <3> QED
      BY <2>1, <3>1
  <2>5. \A a \in 1..Len(m_acceptors) : m_acceptors'[a] = shut(a)
    BY <2>3
  <2> QED
    BY <2>2, <2>4, <2>5
<1>7. queue' \in [Threads -> Seq(Handlers)]
  BY <1>1, <1>3
<1> QED
  BY <1>4, <1>5, <1>6, <1>7, CancelledType

\* A listener is added, and the accept of one begins or ends.
LEMMA DoorAdded ==
    ASSUME DoorsTyped, m_io_contexts \in Nat, NEW n \in Nat \ {0}, NEW c \in 1..m_io_contexts,
           NEW s \in 1..m_io_contexts, m_acceptors' = push_back(Acceptor(n, c, s))
    PROVE  /\ m_acceptors' \in Seq(Doorways) /\ Len(m_acceptors') = Len(m_acceptors) + 1
           /\ \A a \in 1..Len(m_acceptors) : m_acceptors'[a] = m_acceptors[a]
           /\ m_acceptors'[Len(m_acceptors) + 1] = Acceptor(n, c, s)
<1>1. Acceptor(n, c, s) \in Doorways
  BY DEF Acceptor, Doorways
<1>2. m_acceptors \in Seq(Doorways)
  BY DEF DoorsTyped
<1> QED
  BY <1>1, <1>2, AppendAt, AppendType DEF push_back

LEMMA DoorSet ==
    ASSUME DoorsTyped, NEW a \in 1..Len(m_acceptors), NEW s \in 0..m_io_contexts,
           m_acceptors' = [m_acceptors EXCEPT ![a].accept = s]
    PROVE  /\ m_acceptors' \in Seq(Doorways) /\ Len(m_acceptors') = Len(m_acceptors)
           /\ m_acceptors'[a].accept = s
           /\ \A b \in 1..Len(m_acceptors) :
                 /\ b # a => m_acceptors'[b] = m_acceptors[b]
                 /\ m_acceptors'[b].port = m_acceptors[b].port
                 /\ m_acceptors'[b].context = m_acceptors[b].context
                 /\ m_acceptors'[b].open = m_acceptors[b].open
<1> DEFINE d == [m_acceptors[a] EXCEPT !.accept = s]
<1>1. /\ d \in Doorways /\ d.accept = s /\ d.port = m_acceptors[a].port
      /\ d.context = m_acceptors[a].context /\ d.open = m_acceptors[a].open
  BY DoorAt, DoorChange
<1>2. m_acceptors \in Seq(Doorways)
  BY DEF DoorsTyped
<1>3. m_acceptors' = [m_acceptors EXCEPT ![a] = d]
  OBVIOUS
<1> HIDE DEF d
<1>4. m_acceptors' \in Seq(Doorways) /\ Len(m_acceptors') = Len(m_acceptors)
  BY <1>1, <1>2, <1>3
<1>5. m_acceptors'[a] = d /\ \A b \in 1..Len(m_acceptors) : b # a => m_acceptors'[b] = m_acceptors[b]
  BY <1>2, <1>3
<1> QED
  BY <1>1, <1>4, <1>5

LEMMA PoolStep ==
    ASSUME TypeOK, ~undefined, Stages, Next
    PROVE  PoolTyped'
<1>1. CallTyped /\ PoolTyped /\ MaxThreads \in Nat /\ m_io_contexts \in Nat
  BY TypeParts, BoundsAssumption DEF BoundsAssumption, PoolTyped
<1>2. \A t \in Threads : thread[t] \in [at : ThreadPlaces, job : Handlers]
  BY <1>1 DEF PoolTyped
<1> USE DEF PoolTyped, Inside
<1>3. ASSUME UNCHANGED <<m_io_contexts, stopped, thread>> PROVE PoolTyped'
  BY <1>1, <1>3
<1>4. CASE create_thread \/ ThreadThrows
  <2>1. /\ call.index \in Threads /\ m_io_contexts' = call.index /\ m_io_contexts = call.index - 1
        /\ m_io_contexts' \in 0..MaxThreads
    <3>1. call.at = "pool" /\ m_io_contexts' = m_io_contexts + 1
      BY <1>4 DEF create_thread, ThreadThrows
    <3>2. call.index \in 1..args.thread_count /\ m_io_contexts = call.index - 1
      BY <3>1 DEF Stages
    <3>3. args.thread_count \in 0..MaxThreads
      BY <1>1, ArgsType
    <3> QED
      BY <1>1, <3>1, <3>2, <3>3 DEF Threads
  <2>2. stopped' \subseteq 1..m_io_contexts'
    <3>1. stopped' = stopped
      BY <1>4 DEF create_thread, ThreadThrows
    <3> QED
      BY <1>1, <2>1, <3>1
  <2>3. thread' = [thread EXCEPT ![call.index] = Waits] \/ thread' = thread
    BY <1>4 DEF create_thread, ThreadThrows
  <2>4. thread' \in [Threads -> [at : ThreadPlaces, job : Handlers]]
    BY <1>1, <2>1, <2>3, NothingType
  <2>5. \A t \in Threads \ 1..m_io_contexts' : t \notin 1..m_io_contexts /\ thread'[t] = thread[t]
    BY <1>1, <2>1, <2>3
  <2> QED
    BY <1>1, <2>1, <2>2, <2>4, <2>5
<1>5. CASE stop
  <2>1. call.index \in 1..m_io_contexts
    BY <1>5 DEF stop, Stages
  <2> QED
    BY <1>1, <1>5, <2>1 DEF stop, poolVars
<1>6. CASE checked_delete
  <2>1. CASE UNCHANGED <<m_io_contexts, stopped, thread>>
    BY <1>3, <2>1
  <2>2. CASE ~UNCHANGED <<m_io_contexts, stopped, thread>>
    <3>1. m_io_contexts' = 0 /\ stopped' = {} /\ thread' = [t \in Threads |-> Absent]
      BY <1>6, <2>2 DEF checked_delete, DeletePool
    <3> QED
      BY <1>1, <3>1, NothingType
  <2> QED
    BY <2>1, <2>2
<1>7. ASSUME NEW t \in Threads, PoolThread(t) PROVE PoolTyped'
  <2>1. ASSUME NEW w \in [at : ThreadPlaces, job : Handlers], Inside(t),
               thread' = [thread EXCEPT ![t] = w], UNCHANGED <<m_io_contexts, stopped>>
        PROVE  PoolTyped'
    BY <1>1, <2>1
  <2>2. CASE take(t)
    <3>1. Head(queue[t]) \in Handlers
      BY <2>2, TypeParts, TailType DEF take, QueueTyped
    <3>2. Thread("handler", Head(queue[t])) \in [at : ThreadPlaces, job : Handlers]
      BY <3>1 DEF Thread, ThreadPlaces
    <3> QED
      BY <2>1, <2>2, <3>2 DEF take, poolVars
  <2>3. CASE leave(t) \/ introduce(t)
    <3>1. PICK place \in {"left", "callback"} : thread' = [thread EXCEPT ![t].at = place]
      BY <2>3 DEF leave, introduce, Goes
    <3>2. [thread[t] EXCEPT !.at = place] \in [at : ThreadPlaces, job : Handlers]
      BY <1>2 DEF ThreadPlaces
    <3>3. thread' = [thread EXCEPT ![t] = [thread[t] EXCEPT !.at = place]]
      BY <3>1
    <3> QED
      BY <2>1, <2>3, <3>2, <3>3 DEF leave, introduce, poolVars
  <2>4. CASE handle_accept(t)
    <3>1. thread' = thread \/ thread' = [thread EXCEPT ![t] = Waits]
      BY <2>4 DEF handle_accept
    <3> QED
      BY <1>3, <2>1, <2>4, <3>1, NothingType DEF handle_accept, poolVars
  <2>5. CASE Return(t) \/ handshake(t) \/ HandshakeFailed(t)
    BY <2>1, <2>5, NothingType DEF Return, handshake, HandshakeFailed, poolVars
  <2> QED
    BY <1>7, <2>2, <2>3, <2>4, <2>5 DEF PoolThread
<1>8. ASSUME init \/ init_again \/ PortOpens \/ PortFails \/ PortThrows \/ destroy_impl \/ exit
             \/ clear \/ create_connection
             \/ (\E p \in Peers : Knock(p) \/ AnyAccept(p))
             \/ (\E a \in 1..Len(m_acceptors) : AcceptFails(a))
             \/ (\E t \in Threads, p \in Peers \cup {NoOne} : HandshakeEnds(t, p))
      PROVE  UNCHANGED <<m_io_contexts, stopped, thread>>
  BY <1>8 DEF init, init_again, PortOpens, PortFails, PortThrows, destroy_impl, exit, clear,
              create_connection, Knock, AnyAccept, AcceptCompletes, AcceptFails, HandshakeEnds,
              poolVars
<1> QED
  BY <1>3, <1>4, <1>5, <1>6, <1>7, <1>8 DEF Next, UserThread

\* Handshakes are on contexts that there are.
LEMMA HandshakesStep ==
    ASSUME TypeOK, ~undefined, Stages, Next
    PROVE  HandshakesTyped'
<1>1. /\ PoolTyped /\ HandshakesTyped /\ m_io_contexts \in Nat
      /\ \A t \in Threads : handshakes[t] \in [Peers \cup {NoOne} -> Nat]
  <2>1. PoolTyped /\ HandshakesTyped
    BY TypeParts
  <2>2. m_io_contexts \in Nat
    BY <2>1, BoundsAssumption DEF BoundsAssumption, PoolTyped
  <2> QED
    BY <2>1, <2>2 DEF HandshakesTyped
<1>2. ASSUME UNCHANGED <<m_io_contexts, handshakes>> PROVE HandshakesTyped'
  BY <1>1, <1>2 DEF HandshakesTyped
<1>3. ASSUME NEW t \in Threads, t \in 1..m_io_contexts, NEW p \in Peers \cup {NoOne}, NEW k \in Nat,
             handshakes' = [handshakes EXCEPT ![t][p] = k], UNCHANGED m_io_contexts
      PROVE  HandshakesTyped'
  <2>1. [handshakes[t] EXCEPT ![p] = k] \in [Peers \cup {NoOne} -> Nat]
    BY <1>1, <1>3
  <2>2. handshakes' = [handshakes EXCEPT ![t] = [handshakes[t] EXCEPT ![p] = k]]
    BY <1>3
  <2> QED
    BY <1>1, <1>3, <2>1, <2>2 DEF HandshakesTyped
<1>4. CASE create_thread \/ ThreadThrows
  <2>1. m_io_contexts' = m_io_contexts + 1 /\ handshakes' = handshakes
    BY <1>4 DEF create_thread, ThreadThrows
  <2>2. \A t \in Threads \ 1..m_io_contexts' : t \in Threads \ 1..m_io_contexts
    BY <1>1, <2>1
  <2> QED
    BY <1>1, <2>1, <2>2 DEF HandshakesTyped
<1>5. CASE checked_delete
  <2>1. CASE UNCHANGED <<m_io_contexts, handshakes>>
    BY <1>2, <2>1
  <2>2. CASE ~UNCHANGED <<m_io_contexts, handshakes>>
    <3>1. handshakes' = [t \in Threads |-> NoHandshake]
      BY <1>5, <2>2 DEF checked_delete, DeletePool
    <3> QED
      BY <3>1 DEF HandshakesTyped, NoHandshake
  <2> QED
    BY <2>1, <2>2
<1>6. ASSUME NEW t \in Threads, handshake(t) PROVE HandshakesTyped'
  <2>1. t \in 1..m_io_contexts /\ Job(t).peer \in Peers \cup {NoOne}
    BY <1>1, <1>6 DEF handshake, Inside, PoolTyped, Job, Handlers
  <2>2. /\ handshakes' = [handshakes EXCEPT ![t][Job(t).peer] = handshakes[t][Job(t).peer] + 1]
        /\ m_io_contexts' = m_io_contexts
    BY <1>6 DEF handshake
  <2>3. handshakes[t][Job(t).peer] + 1 \in Nat
    BY <1>1, <2>1
  <2> QED
    BY <1>3, <2>1, <2>2, <2>3
<1>7. ASSUME NEW t \in Threads, NEW p \in Peers \cup {NoOne}, HandshakeEnds(t, p)
      PROVE  HandshakesTyped'
  <2>1. handshakes[t][p] \in Nat /\ handshakes[t][p] > 0
    BY <1>1, <1>7 DEF HandshakeEnds
  <2>2. t \in 1..m_io_contexts
    BY <1>1, <2>1 DEF HandshakesTyped, NoHandshake
  <2>3. /\ handshakes' = [handshakes EXCEPT ![t][p] = handshakes[t][p] - 1]
        /\ m_io_contexts' = m_io_contexts
    BY <1>7 DEF HandshakeEnds
  <2>4. handshakes[t][p] - 1 \in Nat
    BY <2>1
  <2> QED
    BY <1>3, <2>2, <2>3, <2>4
<1>8. ASSUME NEW t \in Threads, PoolThread(t), ~handshake(t)
      PROVE  UNCHANGED <<m_io_contexts, handshakes>>
  BY <1>8 DEF PoolThread, take, leave, handle_accept, HandshakeFailed, introduce, Return, poolVars
<1>9. ASSUME \/ init \/ init_again \/ PortOpens \/ PortFails \/ PortThrows \/ destroy_impl \/ exit
             \/ stop \/ clear \/ create_connection
             \/ (\E p \in Peers : Knock(p) \/ AnyAccept(p))
             \/ (\E a \in 1..Len(m_acceptors) : AcceptFails(a))
      PROVE  UNCHANGED <<m_io_contexts, handshakes>>
  BY <1>9 DEF init, init_again, PortOpens, PortFails, PortThrows, destroy_impl, exit, stop, clear,
              create_connection, Knock, AnyAccept, AcceptCompletes, AcceptFails, poolVars
<1> QED
  BY <1>2, <1>4, <1>5, <1>6, <1>7, <1>8, <1>9 DEF Next, UserThread

\* The handlers that are posted are typed.
LEMMA StartType ==
    ASSUME NEW c \in Nat, NEW p \in Peers \cup {NoOne}
    PROVE  /\ Start(c, p) \in Handlers /\ Start(c, p).acceptor = 0 /\ Start(c, p).op = "start"
BY DEF Start, Handler, Handlers

\* The completion of a listener's accept, in the moves it makes: a handler of its
\* own is posted on its context.
LEMMA Completed ==
    ASSUME TypeOK, NEW a \in 1..Len(m_acceptors), m_acceptors[a].accept # None,
           (\E p \in Peers : AcceptCompletes(a, p)) \/ AcceptFails(a)
    PROVE  \E h \in Handlers :
              /\ h.acceptor = a /\ h.op \in {"accept", "recv"}
              /\ h.context \in 1..m_io_contexts
              /\ Post(m_acceptors[a].context, h)
              /\ m_acceptors' = [m_acceptors EXCEPT ![a].accept = 0]
<1>1. m_io_contexts \in Nat /\ a \in Nat /\ m_acceptors[a].accept \in 1..m_io_contexts
  <2>1. m_acceptors[a].accept \in 0..m_io_contexts
    BY DoorAt, TypeParts
  <2>2. m_io_contexts \in Nat
    BY TypeParts, BoundsAssumption DEF BoundsAssumption, PoolTyped
  <2> QED
    BY <2>1, <2>2 DEF None
<1>2. ASSUME NEW p \in Peers, AcceptCompletes(a, p)
      PROVE  \E h \in Handlers :
                /\ h.acceptor = a /\ h.op \in {"accept", "recv"}
                /\ h.context \in 1..m_io_contexts /\ Completes(a, h)
  <2>1. PICK op \in {"accept", "recv"} :
           Completes(a, Handler(op, a, m_acceptors[a].accept, p, TRUE))
    BY <1>2 DEF AcceptCompletes
  <2> DEFINE h == Handler(op, a, m_acceptors[a].accept, p, TRUE)
  <2>2. h \in Handlers /\ h.acceptor = a /\ h.op = op /\ h.context = m_acceptors[a].accept
    BY <1>1 DEF Handler, Handlers
  <2> HIDE DEF h
  <2>3. Completes(a, h)
    BY <2>1 DEF h
  <2> QED
    BY <1>1, <2>2, <2>3
<1>3. ASSUME AcceptFails(a)
      PROVE  \E h \in Handlers :
                /\ h.acceptor = a /\ h.op \in {"accept", "recv"}
                /\ h.context \in 1..m_io_contexts /\ Completes(a, h)
  <2> DEFINE h == Handler("accept", a, m_acceptors[a].accept, NoOne, FALSE)
  <2>2. h \in Handlers /\ h.acceptor = a /\ h.op = "accept" /\ h.context = m_acceptors[a].accept
    BY <1>1 DEF Handler, Handlers
  <2> HIDE DEF h
  <2>3. Completes(a, h)
    BY <1>3 DEF h, AcceptFails
  <2> QED
    BY <1>1, <2>2, <2>3
<1> QED
  BY <1>2, <1>3 DEF Completes, None

\* The end of a handshake: a handler of no listener is posted where it was.
LEMMA HandshakeEnded ==
    ASSUME TypeOK, NEW t \in Threads, NEW p \in Peers \cup {NoOne}, HandshakeEnds(t, p)
    PROVE  /\ t \in 1..m_io_contexts
           /\ \E h \in Handlers : h.acceptor = 0 /\ h.op = "handshake" /\ Post(t, h)
           /\ UNCHANGED <<m_io_contexts, thread, m_acceptors>>
<1>1. /\ HandshakesTyped /\ BoundsAssumption /\ handshakes[t][p] \in Nat
      /\ handshakes[t][p] > 0
  BY TypeParts, BoundsAssumption DEF HandshakesTyped, HandshakeEnds
<1>2. t \in 1..m_io_contexts /\ t \in Nat
  BY <1>1 DEF HandshakesTyped, NoHandshake, Threads
<1>3. PICK ok \in BOOLEAN : Post(t, Handler("handshake", 0, t, p, ok))
  BY DEF HandshakeEnds
<1>4. /\ Handler("handshake", 0, t, p, ok) \in Handlers
      /\ Handler("handshake", 0, t, p, ok).acceptor = 0
      /\ Handler("handshake", 0, t, p, ok).op = "handshake"
  BY <1>2 DEF Handler, Handlers
<1> QED
  BY <1>2, <1>3, <1>4 DEF HandshakeEnds

LEMMA QueueStep ==
    ASSUME TypeOK, Sane, ~undefined, Stages, Next
    PROVE  QueueTyped'
<1>1. CallTyped /\ PoolTyped /\ QueueTyped /\ DoorsTyped /\ m_io_contexts \in Nat
  BY TypeParts, BoundsAssumption DEF BoundsAssumption, PoolTyped
<1>2. ASSUME UNCHANGED <<m_io_contexts, queue>> PROVE QueueTyped'
  BY <1>1, <1>2 DEF QueueTyped
<1>3. ASSUME NEW c \in 1..m_io_contexts, NEW h \in Handlers, Post(c, h), UNCHANGED m_io_contexts
      PROVE  QueueTyped'
  <2>1. /\ queue' \in [Threads -> Seq(Handlers)]
        /\ \A t \in Threads : t # c => queue'[t] = queue[t]
    BY <1>1, <1>3, Posted
  <2> QED
    BY <1>1, <1>3, <2>1 DEF QueueTyped
<1>4. CASE create_thread \/ ThreadThrows
  <2>1. m_io_contexts' = m_io_contexts + 1 /\ queue' = queue
    BY <1>4 DEF create_thread, ThreadThrows
  <2>2. \A t \in Threads \ 1..m_io_contexts' : t \in Threads \ 1..m_io_contexts
    BY <1>1, <2>1
  <2> QED
    BY <1>1, <2>1, <2>2 DEF QueueTyped
<1>5. ASSUME CloseAcceptors, UNCHANGED m_io_contexts PROVE QueueTyped'
  BY <1>1, <1>5, Closed DEF QueueTyped
<1>6. CASE destroy_impl \/ clear
  BY <1>2, <1>5, <1>6 DEF destroy_impl, clear, poolVars
<1>7. CASE checked_delete
  <2>1. CASE UNCHANGED <<m_io_contexts, queue>>
    BY <1>2, <2>1
  <2>2. CASE ~UNCHANGED <<m_io_contexts, queue>>
    <3>1. m_io_contexts' = 0 /\ queue' = [t \in Threads |-> <<>>]
      BY <1>7, <2>2 DEF checked_delete, DeletePool
    <3>2. <<>> \in Seq(Handlers)
      OBVIOUS
    <3> QED
      BY <3>1, <3>2 DEF QueueTyped
  <2> QED
    BY <2>1, <2>2
<1>8. CASE create_connection
  <2>1. CASE m_io_contexts = 0
    BY <1>2, <1>8, <2>1 DEF create_connection, poolVars
  <2>2. CASE m_io_contexts # 0
    <3>1. PICK c \in 1..m_io_contexts : Post(c, Start(c, NoOne))
      BY <1>8, <2>2 DEF create_connection, get
    <3>2. Start(c, NoOne) \in Handlers
      BY StartType
    <3> QED
      BY <1>3, <1>8, <3>1, <3>2 DEF create_connection, poolVars
  <2> QED
    BY <2>1, <2>2
<1>9. ASSUME NEW t \in Threads, PoolThread(t) PROVE QueueTyped'
  <2>1. CASE take(t)
    <3>1. Tail(queue[t]) \in Seq(Handlers) /\ queue[t] # <<>>
      BY <1>1, <2>1, TailType DEF take, QueueTyped
    <3>2. queue' = [queue EXCEPT ![t] = Tail(queue[t])] /\ m_io_contexts' = m_io_contexts
      BY <2>1 DEF take, poolVars
    <3> QED
      BY <1>1, <3>1, <3>2 DEF QueueTyped
  <2>2. CASE handle_accept(t)
    <3>1. HandlerOK(Job(t), Len(m_acceptors), m_io_contexts) /\ Job(t) \in Handlers
      BY <1>1 DEF Sane, PoolTyped, Job
    <3>2. m_io_contexts' = m_io_contexts
      BY <2>2 DEF handle_accept, poolVars
    <3>3. \/ queue' = queue
          \/ Post(Job(t).context, Start(Job(t).context, Job(t).peer))
      BY <2>2 DEF handle_accept
    <3>4. Job(t).context \in 1..m_io_contexts /\ Job(t).peer \in Peers \cup {NoOne}
      BY <2>2, <3>1 DEF handle_accept, HandlerOK, Handlers
    <3>5. Start(Job(t).context, Job(t).peer) \in Handlers
      BY <1>1, <3>4, StartType
    <3> QED
      BY <1>2, <1>3, <3>2, <3>3, <3>4, <3>5
  <2>3. CASE leave(t) \/ handshake(t) \/ HandshakeFailed(t) \/ introduce(t) \/ Return(t)
    BY <1>2, <2>3 DEF leave, handshake, HandshakeFailed, introduce, Return, poolVars
  <2> QED
    BY <1>9, <2>1, <2>2, <2>3 DEF PoolThread
<1>10. ASSUME NEW a \in 1..Len(m_acceptors),
              (\E p \in Peers : AcceptCompletes(a, p)) \/ AcceptFails(a)
       PROVE  QueueTyped'
  <2>1. m_acceptors[a].accept # None /\ m_io_contexts' = m_io_contexts
    BY <1>10 DEF AcceptCompletes, AcceptFails, poolVars
  <2>2. PICK h \in Handlers : Post(m_acceptors[a].context, h)
    BY <1>10, <2>1, Completed
  <2> QED
    BY <1>1, <1>3, <2>1, <2>2, DoorAt
<1>11. ASSUME \/ init \/ init_again \/ PortOpens \/ PortFails \/ PortThrows \/ exit \/ stop
              \/ \E p \in Peers : Knock(p)
       PROVE  UNCHANGED <<m_io_contexts, queue>>
  BY <1>11 DEF init, init_again, PortOpens, PortFails, PortThrows, exit, stop, Knock, poolVars
<1>12. ASSUME NEW t \in Threads, NEW p \in Peers \cup {NoOne}, HandshakeEnds(t, p)
       PROVE  QueueTyped'
  BY <1>3, <1>12, HandshakeEnded
<1> QED
  BY <1>2, <1>4, <1>6, <1>7, <1>8, <1>9, <1>10, <1>11, <1>12 DEF Next, UserThread, AnyAccept

LEMMA DoorsStep ==
    ASSUME TypeOK, Sane, ~undefined, Stages, Next
    PROVE  DoorsTyped'
<1>1. CallTyped /\ PoolTyped /\ QueueTyped /\ DoorsTyped /\ m_io_contexts \in Nat
  BY TypeParts, BoundsAssumption DEF BoundsAssumption, PoolTyped
<1>2. Len(m_acceptors) \in Nat
  BY <1>1 DEF DoorsTyped
<1> DEFINE Peered == peer' \in [Peers -> [at : PeerPlaces, door : 0..Len(m_acceptors)]]
<1>3. ASSUME m_acceptors' \in Seq(Doorways), Len(m_acceptors') >= Len(m_acceptors), Peered,
             UNCHANGED m_io_contexts
      PROVE  DoorsTyped'
  <2>1. Len(m_acceptors') \in Nat /\ Doorways' = Doorways
    BY <1>3 DEF Doorways
  <2>2. 0..Len(m_acceptors) \subseteq 0..Len(m_acceptors')
    BY <1>2, <1>3, <2>1
  <2>3. peer' \in [Peers -> [at : PeerPlaces, door : 0..Len(m_acceptors')]]
    BY <1>3, <2>2
  <2> QED
    BY <1>3, <2>1, <2>3 DEF DoorsTyped
<1>4. ASSUME UNCHANGED m_acceptors, Peered, UNCHANGED m_io_contexts PROVE DoorsTyped'
  BY <1>1, <1>2, <1>3, <1>4 DEF DoorsTyped
<1>5. peer' = peer => Peered
  BY <1>1 DEF DoorsTyped
<1>6. \A p \in Peers : peer[p] \in [at : PeerPlaces, door : 0..Len(m_acceptors)]
  BY <1>1 DEF DoorsTyped
<1>7. ASSUME NEW p \in Peers, NEW place \in PeerPlaces, peer' = [peer EXCEPT ![p].at = place]
      PROVE  Peered
  <2>1. [peer[p] EXCEPT !.at = place] \in [at : PeerPlaces, door : 0..Len(m_acceptors)]
    BY <1>6
  <2>2. peer' = [peer EXCEPT ![p] = [peer[p] EXCEPT !.at = place]]
    BY <1>7
  <2> QED
    BY <1>1, <2>1, <2>2 DEF DoorsTyped
<1>8. Away \in [at : PeerPlaces, door : 0..Len(m_acceptors)]
  BY <1>2 DEF Away, PeerPlaces
<1>9. CASE create_thread \/ ThreadThrows
  <2>1. m_acceptors' = <<>> /\ m_acceptors = <<>> /\ peer' = peer
    BY <1>9 DEF create_thread, ThreadThrows, Stages
  <2>2. m_acceptors' \in Seq(Doorways')
    BY <2>1
  <2> QED
    BY <1>5, <2>1, <2>2 DEF DoorsTyped
<1>10. CASE PortOpens
  <2>1. PICK c, s \in 1..m_io_contexts :
           m_acceptors' = push_back(Acceptor(ThisPort, c, IF kind = "tcp" THEN s ELSE c))
    BY <1>10 DEF PortOpens, get
  <2>2. ThisPort \in Nat \ {0}
    BY <1>1, <1>10, ArgsType DEF PortOpens, ThisPort, Stages, Trying
  <2>3. (IF kind = "tcp" THEN s ELSE c) \in 1..m_io_contexts
    OBVIOUS
  <2>4. m_acceptors' \in Seq(Doorways) /\ Len(m_acceptors') = Len(m_acceptors) + 1
    BY <1>1, <2>1, <2>2, <2>3, DoorAdded
  <2> QED
    BY <1>2, <1>3, <1>5, <1>10, <2>4 DEF PortOpens, poolVars
<1>11. ASSUME CloseAcceptors, UNCHANGED m_io_contexts PROVE DoorsTyped'
  <2>1. m_acceptors' \in Seq(Doorways) /\ Len(m_acceptors') = Len(m_acceptors)
    BY <1>1, <1>11, Closed
  <2>2. Peered
    BY <1>6, <1>8, <1>11 DEF CloseAcceptors
  <2> QED
    BY <1>2, <1>3, <1>11, <2>1, <2>2
<1>12. CASE destroy_impl \/ clear
  BY <1>4, <1>5, <1>11, <1>12 DEF destroy_impl, clear, poolVars
<1>13. CASE checked_delete
  <2>1. CASE UNCHANGED <<m_io_contexts, m_acceptors, peer>>
    BY <1>4, <1>5, <2>1
  <2>2. CASE ~UNCHANGED <<m_io_contexts, m_acceptors, peer>>
    <3>1. m_acceptors' = <<>> /\ peer' = [p \in Peers |-> Away]
      BY <1>13, <2>2 DEF checked_delete, DeletePool
    <3>2. m_acceptors' \in Seq(Doorways') /\ Len(m_acceptors') = 0
      BY <3>1
    <3>3. peer' \in [Peers -> [at : PeerPlaces, door : 0..Len(m_acceptors')]]
      BY <3>1, <3>2 DEF Away, PeerPlaces
    <3> QED
      BY <3>2, <3>3 DEF DoorsTyped
  <2> QED
    BY <2>1, <2>2
<1>14. ASSUME NEW t \in Threads, PoolThread(t) PROVE DoorsTyped'
  <2>1. CASE take(t) \/ leave(t)
    BY <1>4, <1>5, <2>1 DEF take, leave, poolVars
  <2>2. CASE handle_accept(t)
    <3>1. m_io_contexts' = m_io_contexts /\ peer' = peer
      BY <2>2 DEF handle_accept, poolVars
    <3>2. Job(t).acceptor \in 1..Len(m_acceptors)
      <4>1. HandlerOK(Job(t), Len(m_acceptors), m_io_contexts) /\ Job(t) \in Handlers
        BY <1>1 DEF Sane, PoolTyped, Job
      <4> QED
        BY <1>2, <2>2, <4>1 DEF handle_accept, HandlerOK, Handlers
    <3>3. CASE m_acceptors' = m_acceptors
      BY <1>4, <1>5, <3>1, <3>3
    <3>4. CASE m_acceptors' # m_acceptors
      <4>1. PICK s \in 1..m_io_contexts :
               m_acceptors' = [m_acceptors EXCEPT ![Job(t).acceptor].accept = s]
        BY <2>2, <3>4 DEF handle_accept, start_accept, get
      <4>3. s \in 0..m_io_contexts
        BY <1>1
      <4>2. m_acceptors' \in Seq(Doorways) /\ Len(m_acceptors') = Len(m_acceptors)
        BY <1>1, <3>2, <4>1, <4>3, DoorSet
      <4> QED
        BY <1>2, <1>3, <1>5, <3>1, <4>2
    <3> QED
      BY <3>3, <3>4
  <2>3. CASE handshake(t) \/ HandshakeFailed(t) \/ introduce(t)
    <3>1. /\ m_io_contexts' = m_io_contexts /\ m_acceptors' = m_acceptors
          /\ peer' = peer \/ \E p, place : Meets(p, place) /\ place \in {"handshaking", "met"}
      BY <2>3 DEF handshake, HandshakeFailed, introduce, poolVars
    <3>2. {"handshaking", "met"} \subseteq PeerPlaces
      BY DEF PeerPlaces
    <3>3. Peered
      BY <1>5, <1>7, <3>1, <3>2 DEF Meets
    <3> QED
      BY <1>4, <3>1, <3>3
  <2>4. CASE Return(t)
    <3>1. m_io_contexts' = m_io_contexts /\ peer' = peer
      BY <2>4 DEF Return, poolVars
    <3>2. CASE Job(t).op # "recv"
      BY <1>4, <1>5, <2>4, <3>1, <3>2 DEF Return
    <3>3. CASE Job(t).op = "recv"
      <4>1. Job(t).acceptor \in 1..Len(m_acceptors)
        <5>1. HandlerOK(Job(t), Len(m_acceptors), m_io_contexts) /\ Job(t) \in Handlers
          BY <1>1 DEF Sane, PoolTyped, Job
        <5> QED
          BY <1>2, <3>3, <5>1 DEF HandlerOK, Handlers
      <4>2. t \in 0..m_io_contexts
        <5>1. Inside(t)
          BY <2>4 DEF Return, Inside
        <5> QED
          BY <1>1, <5>1 DEF PoolTyped
      <4>3. m_acceptors' = [m_acceptors EXCEPT ![Job(t).acceptor].accept = t]
        BY <2>4, <3>3 DEF Return
      <4>4. m_acceptors' \in Seq(Doorways) /\ Len(m_acceptors') = Len(m_acceptors)
        BY <1>1, <4>1, <4>2, <4>3, DoorSet
      <4> QED
        BY <1>2, <1>3, <1>5, <3>1, <4>4
    <3> QED
      BY <3>2, <3>3
  <2> QED
    BY <1>14, <2>1, <2>2, <2>3, <2>4 DEF PoolThread
<1>15. ASSUME NEW p \in Peers, Knock(p) PROVE DoorsTyped'
  <2>1. PICK a \in 1..Len(m_acceptors) :
           peer' = [peer EXCEPT ![p] = [at |-> "knocking", door |-> a]]
    BY <1>15 DEF Knock
  <2>2. [at |-> "knocking", door |-> a] \in [at : PeerPlaces, door : 0..Len(m_acceptors)]
    BY <1>2 DEF PeerPlaces
  <2>3. Peered
    BY <1>1, <2>1, <2>2 DEF DoorsTyped
  <2> QED
    BY <1>4, <1>15, <2>3 DEF Knock, poolVars
<1>16. ASSUME NEW a \in 1..Len(m_acceptors),
              (\E p \in Peers : AcceptCompletes(a, p)) \/ AcceptFails(a)
       PROVE  DoorsTyped'
  <2>1. m_acceptors[a].accept # None /\ m_io_contexts' = m_io_contexts
    BY <1>16 DEF AcceptCompletes, AcceptFails, poolVars
  <2>2. m_acceptors' = [m_acceptors EXCEPT ![a].accept = 0]
    BY <1>16, <2>1, Completed
  <2>3. 0 \in 0..m_io_contexts
    BY <1>1
  <2>4. m_acceptors' \in Seq(Doorways) /\ Len(m_acceptors') = Len(m_acceptors)
    BY <1>1, <2>2, <2>3, DoorSet
  <2>5. Peered
    <3>1. CASE AcceptFails(a)
      BY <1>5, <3>1 DEF AcceptFails
    <3>2. CASE \E p \in Peers : AcceptCompletes(a, p)
      <4>1. PICK p \in Peers : peer' = [peer EXCEPT ![p].at = "accepted"]
        BY <3>2 DEF AcceptCompletes
      <4>2. "accepted" \in PeerPlaces
        BY DEF PeerPlaces
      <4> QED
        BY <1>7, <4>1, <4>2
    <3> QED
      BY <1>16, <3>1, <3>2
  <2> QED
    BY <1>2, <1>3, <2>1, <2>4, <2>5
<1>18. ASSUME NEW t \in Threads, NEW p \in Peers \cup {NoOne}, HandshakeEnds(t, p)
       PROVE  DoorsTyped'
  <2>1. PICK place \in {"secured", "away"} : Meets(p, place)
    BY <1>18 DEF HandshakeEnds
  <2>2. place \in PeerPlaces
    BY DEF PeerPlaces
  <2>3. Peered
    BY <1>5, <1>7, <2>1, <2>2 DEF Meets
  <2> QED
    BY <1>4, <1>18, <2>3 DEF HandshakeEnds
<1>17. ASSUME \/ init \/ init_again \/ PortFails \/ PortThrows \/ exit \/ stop
              \/ create_connection
       PROVE  UNCHANGED <<m_io_contexts, m_acceptors, peer>>
  BY <1>17 DEF init, init_again, PortFails, PortThrows, exit, stop, create_connection, poolVars
<1> QED
  BY <1>4, <1>5, <1>9, <1>10, <1>12, <1>13, <1>14, <1>15, <1>16, <1>17, <1>18
     DEF Next, UserThread, AnyAccept

LEMMA TypeStep ==
    ASSUME TypeOK, Sane, ~undefined, Stages, Next
    PROVE  TypeOK'
<1>1. CallTyped' /\ PoolTyped' /\ QueueTyped' /\ HandshakesTyped' /\ DoorsTyped'
  BY CallStep, PoolStep, QueueStep, HandshakesStep, DoorsStep
<1> QED
  BY <1>1 DEF TypeOK, CallTyped, PoolTyped, QueueTyped, HandshakesTyped, DoorsTyped, Doorways, Calls,
              ThreadPlaces, PeerPlaces, Inside

-----------------------------------------------------------------------------
(* Handlers refer to what is there.                                        *)

\* More listeners and contexts do no harm, and neither does posting or taking a
\* handler.
LEMMA Grown ==
    ASSUME NEW h \in Handlers, NEW n \in Nat, NEW m \in Nat, NEW c \in Nat, NEW d \in Nat,
           n <= m, c <= d, HandlerOK(h, n, c)
    PROVE  HandlerOK(h, m, d)
<1>1. h.acceptor \in Nat /\ h.context \in Nat
  BY DEF Handlers
<1> QED
  BY <1>1 DEF HandlerOK

LEMMA QueueGrown ==
    ASSUME NEW q \in Seq(Handlers), NEW n \in Nat, NEW m \in Nat, NEW c \in Nat, NEW d \in Nat,
           n <= m, c <= d, QueueOK(q, n, c)
    PROVE  QueueOK(q, m, d)
<1>1. \A i \in 1..Len(q) : q[i] \in Handlers
  OBVIOUS
<1> QED
  BY <1>1, Grown DEF QueueOK

LEMMA QueuePost ==
    ASSUME NEW q \in Seq(Handlers), NEW h \in Handlers, NEW n, NEW c,
           QueueOK(q, n, c), HandlerOK(h, n, c)
    PROVE  QueueOK(Append(q, h), n, c)
<1> DEFINE r == Append(q, h)
<1>1. /\ Len(r) = Len(q) + 1 /\ Len(q) \in Nat
      /\ \A i \in 1..Len(q) : r[i] = q[i]
      /\ r[Len(q) + 1] = h
  BY AppendAt
<1> HIDE DEF r
<1>2. \A i \in 1..Len(r) : i \in 1..Len(q) \/ i = Len(q) + 1
  BY <1>1
<1>3. QueueOK(r, n, c)
  BY <1>1, <1>2 DEF QueueOK
<1> QED
  BY <1>3 DEF r

LEMMA QueueTake ==
    ASSUME NEW q \in Seq(Handlers), q # <<>>, NEW n, NEW c, QueueOK(q, n, c)
    PROVE  HandlerOK(Head(q), n, c) /\ QueueOK(Tail(q), n, c)
<1> DEFINE r == Tail(q)
<1>1. /\ Len(q) \in Nat /\ Len(q) > 0 /\ Len(r) = Len(q) - 1
      /\ \A i \in 1..Len(r) : r[i] = q[i + 1]
      /\ Head(q) = q[1]
  BY TailAt
<1> HIDE DEF r
<1>2. 1 \in 1..Len(q) /\ \A i \in 1..Len(r) : i + 1 \in 1..Len(q)
  BY <1>1
<1>3. HandlerOK(q[1], n, c) /\ QueueOK(r, n, c)
  BY <1>1, <1>2 DEF QueueOK
<1> QED
  BY <1>1, <1>3 DEF r

\* An empty queue, and a thread without a handler.
LEMMA NothingOK ==
    ASSUME NEW n \in Nat, NEW c \in Nat
    PROVE  /\ QueueOK(<<>>, n, c) /\ HandlerOK(Nothing, n, c)
           /\ ThreadOK(Waits) /\ ThreadOK(Absent)
BY NothingType DEF QueueOK, HandlerOK, ThreadOK

\* The deletion finds a thread inside its context, or leaves nothing.
LEMMA Deletion ==
    ASSUME checked_delete, ~undefined
    PROVE  /\ ~m_manager_impl' /\ m_ports' = <<>> /\ call.at = "destroy" /\ call' = Idle
           /\ \/ /\ undefined' /\ \E t \in Threads : Inside(t)
                 /\ UNCHANGED <<m_io_contexts, stopped, thread, queue, m_acceptors>>
              \/ /\ ~undefined' /\ \A t \in Threads : ~Inside(t)
                 /\ m_io_contexts' = 0 /\ stopped' = {} /\ m_acceptors' = <<>>
                 /\ \A t \in Threads : /\ thread'[t] = Absent /\ queue'[t] = <<>>
                                       /\ handshakes'[t] = NoHandshake
<1>1. ~m_manager_impl' /\ m_ports' = <<>> /\ call.at = "destroy" /\ call' = Idle
  BY DEF checked_delete
<1>2. CASE \E t \in Threads : Inside(t)
  BY <1>1, <1>2 DEF checked_delete, DeletePool
<1>3. CASE ~\E t \in Threads : Inside(t)
  <2>1. /\ m_io_contexts' = 0 /\ stopped' = {} /\ m_acceptors' = <<>> /\ undefined' = undefined
        /\ thread' = [t \in Threads |-> Absent] /\ queue' = [t \in Threads |-> <<>>]
        /\ handshakes' = [t \in Threads |-> NoHandshake]
    BY <1>3 DEF checked_delete, DeletePool
  <2> QED
    BY <1>1, <1>3, <2>1
<1> QED
  BY <1>2, <1>3

\* Listeners and contexts only become more, until all go at once.
LEMMA Growing ==
    ASSUME TypeOK, Sane, ~undefined, Stages, Next
    PROVE  /\ Len(m_acceptors) \in Nat /\ Len(m_acceptors') \in Nat
           /\ m_io_contexts \in Nat /\ m_io_contexts' \in Nat
           /\ \/ Len(m_acceptors) <= Len(m_acceptors') /\ m_io_contexts <= m_io_contexts'
              \/ /\ m_acceptors' = <<>>
                 /\ \A t \in Threads : thread'[t] = Absent /\ queue'[t] = <<>>
<1>1. CallTyped /\ PoolTyped /\ QueueTyped /\ DoorsTyped /\ m_io_contexts \in Nat
  BY TypeParts, BoundsAssumption DEF BoundsAssumption, PoolTyped
<1>2. PoolTyped' /\ DoorsTyped'
  BY PoolStep, DoorsStep
<1>3. m_io_contexts' \in Nat /\ Len(m_acceptors) \in Nat /\ Len(m_acceptors') \in Nat
  BY <1>1, <1>2, BoundsAssumption DEF BoundsAssumption, PoolTyped, DoorsTyped
<1> DEFINE Grow == Len(m_acceptors) <= Len(m_acceptors') /\ m_io_contexts <= m_io_contexts'
<1>4. CASE checked_delete
  <2>1. CASE UNCHANGED <<m_io_contexts, m_acceptors>>
    BY <1>1, <1>3, <2>1
  <2>2. CASE m_acceptors' = <<>> /\ \A t \in Threads : thread'[t] = Absent /\ queue'[t] = <<>>
    BY <1>1, <1>3, <2>2
  <2> QED
    BY <1>4, <2>1, <2>2, Deletion
<1>5. CASE create_thread \/ ThreadThrows
  BY <1>1, <1>3, <1>5 DEF create_thread, ThreadThrows
<1>6. CASE PortOpens
  <2>1. PICK d : m_acceptors' = Append(m_acceptors, d)
    BY <1>6 DEF PortOpens, push_back
  <2>2. Len(m_acceptors') = Len(m_acceptors) + 1
    BY <1>1, <2>1 DEF DoorsTyped
  <2> QED
    BY <1>1, <1>3, <1>6, <2>2 DEF PortOpens, poolVars
<1>7. CASE destroy_impl \/ clear
  <2>1. Len(m_acceptors') = Len(m_acceptors)
    BY <1>1, <1>7, Closed DEF destroy_impl, clear
  <2> QED
    BY <1>1, <1>3, <1>7, <2>1 DEF destroy_impl, clear, poolVars
<1>8. ASSUME NEW t \in Threads, PoolThread(t) PROVE Grow
  <2>1. m_io_contexts' = m_io_contexts
    BY <1>8 DEF PoolThread, take, leave, handle_accept, handshake, HandshakeFailed, introduce,
                Return, poolVars
  <2>2. \/ m_acceptors' = m_acceptors
        \/ \E a, s : m_acceptors' = [m_acceptors EXCEPT ![a].accept = s]
    BY <1>8 DEF PoolThread, take, leave, handle_accept, start_accept, handshake, HandshakeFailed,
                introduce, Return
  <2>3. Len(m_acceptors') = Len(m_acceptors)
    BY <1>1, <2>2 DEF DoorsTyped
  <2> QED
    BY <1>1, <1>3, <2>1, <2>3
<1>9. ASSUME (\E p \in Peers : AnyAccept(p)) \/ (\E a \in 1..Len(m_acceptors) : AcceptFails(a))
      PROVE  Grow
  <2>1. m_io_contexts' = m_io_contexts
    BY <1>9 DEF AnyAccept, AcceptCompletes, AcceptFails, poolVars
  <2>2. \E a, s : m_acceptors' = [m_acceptors EXCEPT ![a].accept = s]
    BY <1>9 DEF AnyAccept, AcceptCompletes, AcceptFails, Completes
  <2>3. Len(m_acceptors') = Len(m_acceptors)
    BY <1>1, <2>2 DEF DoorsTyped
  <2> QED
    BY <1>1, <1>3, <2>1, <2>3
<1>10. ASSUME \/ init \/ init_again \/ PortFails \/ PortThrows \/ exit \/ stop
              \/ create_connection \/ (\E p \in Peers : Knock(p))
              \/ (\E t \in Threads, p \in Peers \cup {NoOne} : HandshakeEnds(t, p))
       PROVE  UNCHANGED <<m_io_contexts, m_acceptors>>
  BY <1>10 DEF init, init_again, PortFails, PortThrows, exit, stop, create_connection, Knock,
               HandshakeEnds, poolVars
<1> QED
  BY <1>1, <1>3, <1>4, <1>5, <1>6, <1>7, <1>8, <1>9, <1>10 DEF Next, UserThread


LEMMA SaneStep ==
    ASSUME TypeOK, Sane, ~undefined, Stages, Next
    PROVE  Sane'
<1> DEFINE n == Len(m_acceptors)
           m == Len(m_acceptors')
           c == m_io_contexts
           d == m_io_contexts'
           Grow == n <= m /\ c <= d
           ThreadKept(t) == /\ ThreadOK(thread'[t])
                            /\ HandlerOK(thread'[t].job, m, d)
           QueueKept(t) == QueueOK(queue'[t], m, d)
<1>1. n \in Nat /\ m \in Nat /\ c \in Nat /\ d \in Nat
  BY Growing
<1>2. ASSUME \A t \in Threads : ThreadKept(t) /\ QueueKept(t) PROVE Sane'
  BY <1>2 DEF Sane, Job
<1>3. ASSUME NEW t \in Threads
      PROVE  /\ thread[t].job \in Handlers /\ ThreadOK(thread[t])
             /\ HandlerOK(thread[t].job, n, c)
             /\ queue[t] \in Seq(Handlers) /\ QueueOK(queue[t], n, c)
  BY TypeParts DEF Sane, Job, PoolTyped, QueueTyped
<1> HIDE DEF n, m, c, d
<1>4. ASSUME NEW t \in Threads, Grow PROVE HandlerOK(thread[t].job, m, d) /\ QueueOK(queue[t], m, d)
  BY <1>1, <1>3, <1>4, Grown, QueueGrown
<1>5. ASSUME NEW t \in Threads, Grow, thread'[t] = thread[t] PROVE ThreadKept(t)
  BY <1>3, <1>4, <1>5
<1>6. ASSUME NEW t \in Threads, thread'[t] \in {Waits, Absent} PROVE ThreadKept(t)
  BY <1>1, <1>6, NothingOK, NothingType
<1>7. ASSUME NEW t \in Threads, Grow, queue'[t] = queue[t] PROVE QueueKept(t)
  BY <1>4, <1>7
<1>8. ASSUME NEW t \in Threads, queue'[t] = <<>> PROVE QueueKept(t)
  BY <1>1, <1>8, NothingOK
<1>9. ASSUME NEW t \in Threads, Grow, NEW h \in Handlers, HandlerOK(h, n, c),
             queue'[t] = Append(queue[t], h)
      PROVE  QueueKept(t)
  <2>1. HandlerOK(h, m, d)
    BY <1>1, <1>9, Grown
  <2> QED
    BY <1>3, <1>4, <1>9, <2>1, QueuePost
<1>10. ASSUME Grow, UNCHANGED <<thread, queue>> PROVE Sane'
  BY <1>2, <1>5, <1>7, <1>10
<1>11. ASSUME NEW w \in 1..m_io_contexts, NEW h \in Handlers, Post(w, h), HandlerOK(h, n, c), Grow
       PROVE  \A t \in Threads : QueueKept(t)
  <2>1. /\ queue'[w] = Append(queue[w], h)
        /\ \A t \in Threads : t # w => queue'[t] = queue[t]
    BY <1>11, Posted, TypeParts
  <2> QED
    BY <1>7, <1>9, <1>11, <2>1
<1>12. CASE ~Grow
  <2>1. \A t \in Threads : thread'[t] = Absent /\ queue'[t] = <<>>
    BY <1>12, Growing DEF n, m, c, d
  <2> QED
    BY <1>2, <1>6, <1>8, <2>1
<1>13. ASSUME Grow, create_thread PROVE Sane'
  <2>1. thread' = [thread EXCEPT ![call.index] = Waits] /\ queue' = queue
    BY <1>13 DEF create_thread
  <2>2. \A t \in Threads : thread'[t] = thread[t] \/ thread'[t] = Waits
    BY <2>1, TypeParts DEF PoolTyped
  <2> QED
    BY <1>2, <1>5, <1>6, <1>7, <1>13, <2>1, <2>2
<1>14. ASSUME Grow, CloseAcceptors, UNCHANGED <<thread, m_io_contexts>> PROVE Sane'
  <2>1. ASSUME NEW t \in Threads PROVE QueueKept(t)
    <3> DEFINE q == queue'[t]
    <3>1. ASSUME NEW i \in 1..Len(q)
          PROVE  \/ i \in 1..Len(queue[t]) /\ q[i] = queue[t][i]
                 \/ q[i].op = "accept" /\ q[i].context \in 1..c /\ q[i].acceptor \in 1..n
      BY <1>14, Closed, TypeParts DEF n, c
    <3>2. q \in Seq(Handlers)
      BY <1>14, Closed, TypeParts
    <3>3. m = n /\ d = c
      BY <1>14, Closed, TypeParts DEF n, m, c, d
    <3> HIDE DEF q
    <3>4. ASSUME NEW i \in 1..Len(q) PROVE HandlerOK(q[i], n, c)
      <4>1. CASE i \in 1..Len(queue[t]) /\ q[i] = queue[t][i]
        BY <1>3, <4>1 DEF QueueOK
      <4>2. CASE q[i].op = "accept" /\ q[i].context \in 1..c /\ q[i].acceptor \in 1..n
        BY <1>1, <4>2 DEF HandlerOK
      <4> QED
        BY <3>1, <4>1, <4>2
    <3> QED
      BY <3>3, <3>4 DEF QueueOK, q
  <2> QED
    BY <1>2, <1>5, <1>14, <2>1
<1>15. ASSUME Grow, destroy_impl \/ clear PROVE Sane'
  BY <1>10, <1>14, <1>15 DEF destroy_impl, clear, poolVars
<1>16. ASSUME Grow, checked_delete PROVE Sane'
  <2>1. \/ UNCHANGED <<thread, queue>>
        \/ \A t \in Threads : thread'[t] = Absent /\ queue'[t] = <<>>
    BY <1>16, Deletion
  <2> QED
    BY <1>2, <1>6, <1>8, <1>10, <1>16, <2>1
<1>17. ASSUME NEW w \in Nat, NEW p \in Peers \cup {NoOne}
       PROVE  Start(w, p) \in Handlers /\ HandlerOK(Start(w, p), n, c)
  <2>1. Start(w, p) \in Handlers /\ Start(w, p).acceptor = 0 /\ Start(w, p).op = "start"
    BY StartType
  <2> QED
    BY <1>1, <2>1 DEF HandlerOK
<1>18. ASSUME Grow, create_connection PROVE Sane'
  <2>1. thread' = thread
    BY <1>18 DEF create_connection
  <2>2. CASE m_io_contexts = 0
    BY <1>10, <1>18, <2>1, <2>2 DEF create_connection
  <2>3. CASE m_io_contexts # 0
    <3>1. PICK w \in 1..m_io_contexts : Post(w, Start(w, NoOne))
      BY <1>18, <2>3 DEF create_connection, get
    <3>2. \A t \in Threads : QueueKept(t)
      BY <1>11, <1>17, <1>18, <3>1
    <3> QED
      BY <1>2, <1>5, <1>18, <2>1, <3>2
  <2> QED
    BY <2>2, <2>3
<1>19. ASSUME Grow, NEW t \in Threads, PoolThread(t) PROVE Sane'
  <2>1. ASSUME NEW w, thread' = [thread EXCEPT ![t] = w]
        PROVE  thread'[t] = w /\ \A u \in Threads : u # t => thread'[u] = thread[u]
    BY <2>1, TypeParts DEF PoolTyped
  <2>2. CASE take(t)
    <3>1. /\ thread'[t] = Thread("handler", Head(queue[t])) /\ queue[t] # <<>>
          /\ \A u \in Threads : u # t => thread'[u] = thread[u]
          /\ queue'[t] = Tail(queue[t])
          /\ \A u \in Threads : u # t => queue'[u] = queue[u]
      BY <2>1, <2>2, TypeParts DEF take, QueueTyped
    <3>2. m = n /\ d = c
      BY <2>2 DEF take, poolVars, n, m, c, d
    <3>3. HandlerOK(Head(queue[t]), n, c) /\ QueueOK(Tail(queue[t]), n, c)
      BY <1>3, <3>1, QueueTake
    <3>4. ThreadKept(t) /\ QueueKept(t)
      BY <3>1, <3>2, <3>3 DEF Thread, ThreadOK
    <3> QED
      BY <1>2, <1>5, <1>7, <1>19, <3>1, <3>4
  <2>3. CASE leave(t) \/ introduce(t)
    <3>1. PICK place \in {"left", "callback"} :
             /\ thread' = [thread EXCEPT ![t].at = place]
             /\ place = "left" => thread[t].at = "run"
             /\ place = "callback" => Job(t).op \in {"start", "recv", "handshake"}
      BY <2>3 DEF leave, introduce, Introduces, Goes
    <3>2. queue' = queue
      BY <2>3 DEF leave, introduce
    <3>3. /\ thread'[t].at = place /\ thread'[t].job = thread[t].job
          /\ \A u \in Threads : u # t => thread'[u] = thread[u]
      BY <3>1, TypeParts DEF PoolTyped
    <3>4. ThreadOK(thread'[t])
      BY <1>3, <3>1, <3>3 DEF ThreadOK, Job
    <3>5. ThreadKept(t)
      BY <1>4, <1>19, <3>3, <3>4
    <3> QED
      BY <1>2, <1>5, <1>7, <1>19, <3>2, <3>3, <3>5
  <2>4. CASE handle_accept(t)
    <3>1. \A u \in Threads : thread'[u] = thread[u] \/ thread'[u] = Waits
      BY <2>1, <2>4 DEF handle_accept
    <3>2. \/ queue' = queue
          \/ Post(Job(t).context, Start(Job(t).context, Job(t).peer))
      BY <2>4 DEF handle_accept
    <3>3. Job(t).context \in 1..m_io_contexts /\ Job(t).peer \in Peers \cup {NoOne}
      BY <1>3, <2>4 DEF handle_accept, HandlerOK, Handlers, Job, c
    <3>4. Job(t).context \in Nat
      BY <1>1, <3>3 DEF c
    <3>5. /\ Start(Job(t).context, Job(t).peer) \in Handlers
          /\ HandlerOK(Start(Job(t).context, Job(t).peer), n, c)
      BY <1>17, <3>3, <3>4
    <3>6. \A u \in Threads : QueueKept(u)
      BY <1>7, <1>11, <1>19, <3>2, <3>3, <3>5
    <3> QED
      BY <1>2, <1>5, <1>6, <1>19, <3>1, <3>6
  <2>5. CASE Return(t) \/ handshake(t) \/ HandshakeFailed(t)
    <3>1. /\ \A u \in Threads : thread'[u] = thread[u] \/ thread'[u] = Waits
          /\ queue' = queue
      BY <2>1, <2>5 DEF Return, handshake, HandshakeFailed
    <3> QED
      BY <1>2, <1>5, <1>6, <1>7, <1>19, <3>1
  <2> QED
    BY <1>19, <2>2, <2>3, <2>4, <2>5 DEF PoolThread
<1>20. ASSUME Grow, NEW a \in 1..Len(m_acceptors),
              (\E p \in Peers : AcceptCompletes(a, p)) \/ AcceptFails(a)
       PROVE  Sane'
  <2>1. m_acceptors[a].accept # None /\ thread' = thread
    BY <1>20 DEF AcceptCompletes, AcceptFails
  <2>2. PICK h \in Handlers :
           /\ h.acceptor = a /\ h.op \in {"accept", "recv"}
           /\ h.context \in 1..m_io_contexts /\ Post(m_acceptors[a].context, h)
    BY <1>20, <2>1, Completed
  <2>3. HandlerOK(h, n, c)
    BY <1>1, <2>2 DEF HandlerOK, n, c
  <2>4. m_acceptors[a].context \in 1..m_io_contexts
    BY DoorAt, TypeParts
  <2>5. \A t \in Threads : QueueKept(t)
    BY <1>11, <1>20, <2>2, <2>3, <2>4
  <2> QED
    BY <1>2, <1>5, <1>20, <2>1, <2>5
<1>21. ASSUME \/ init \/ init_again \/ ThreadThrows \/ PortOpens \/ PortFails \/ PortThrows
              \/ exit \/ stop \/ \E p \in Peers : Knock(p)
       PROVE  UNCHANGED <<thread, queue>>
  BY <1>21 DEF init, init_again, ThreadThrows, PortOpens, PortFails, PortThrows, exit, stop,
               Knock, poolVars
<1>22. ASSUME Grow, NEW t \in Threads, NEW p \in Peers \cup {NoOne}, HandshakeEnds(t, p)
       PROVE  Sane'
  <2>1. thread' = thread /\ t \in 1..m_io_contexts
    BY <1>22, HandshakeEnded
  <2>2. PICK h \in Handlers : h.acceptor = 0 /\ h.op = "handshake" /\ Post(t, h)
    BY <1>22, HandshakeEnded
  <2>3. HandlerOK(h, n, c)
    BY <1>1, <2>2 DEF HandlerOK
  <2>4. \A u \in Threads : QueueKept(u)
    BY <1>11, <1>22, <2>1, <2>2, <2>3
  <2> QED
    BY <1>2, <1>5, <1>22, <2>1, <2>4
<1> QED
  BY <1>10, <1>12, <1>13, <1>15, <1>16, <1>18, <1>19, <1>20, <1>21, <1>22
     DEF Next, UserThread, AnyAccept

-----------------------------------------------------------------------------
(* Each open listener has one accept.                                      *)

\* A handler that is posted, or taken, as the listeners see it.
LEMMA FreeOncePost ==
    ASSUME NEW q \in Seq(Handlers), NEW h \in Handlers, NEW a
    PROVE  /\ Free(q, a) /\ h.acceptor # a => Free(Append(q, h), a)
           /\ Once(q, a) /\ h.acceptor # a => Once(Append(q, h), a)
           /\ Free(q, a) /\ h.acceptor = a => Once(Append(q, h), a)
<1> DEFINE r == Append(q, h)
<1>1. /\ Len(r) = Len(q) + 1 /\ Len(q) \in Nat
      /\ \A i \in 1..Len(q) : r[i] = q[i]
      /\ r[Len(q) + 1] = h
  BY AppendAt
<1> HIDE DEF r
<1>2. /\ \A i \in 1..Len(r) : i \in 1..Len(q) \/ i = Len(q) + 1
      /\ \A i \in 1..Len(q) : i \in 1..Len(r)
      /\ Len(q) + 1 \in 1..Len(r)
  BY <1>1
<1>3. Free(q, a) /\ h.acceptor # a => Free(r, a)
  BY <1>1, <1>2 DEF Free
<1>4. ASSUME Once(q, a), h.acceptor # a PROVE Once(r, a)
  <2>1. PICK i \in 1..Len(q) :
           q[i].acceptor = a /\ \A j \in 1..Len(q) : q[j].acceptor = a => j = i
    BY <1>4 DEF Once
  <2>2. i \in 1..Len(r) /\ r[i].acceptor = a
    BY <1>1, <1>2, <2>1
  <2>3. \A j \in 1..Len(r) : r[j].acceptor = a => j = i
    BY <1>1, <1>2, <1>4, <2>1
  <2> QED
    BY <2>2, <2>3 DEF Once
<1>5. ASSUME Free(q, a), h.acceptor = a PROVE Once(r, a)
  <2>1. Len(q) + 1 \in 1..Len(r) /\ r[Len(q) + 1].acceptor = a
    BY <1>1, <1>2, <1>5
  <2>2. \A j \in 1..Len(r) : r[j].acceptor = a => j = Len(q) + 1
    BY <1>1, <1>2, <1>5 DEF Free
  <2> QED
    BY <2>1, <2>2 DEF Once
<1> QED
  BY <1>3, <1>4, <1>5 DEF r

LEMMA FreeOnceTake ==
    ASSUME NEW q \in Seq(Handlers), q # <<>>, NEW a
    PROVE  /\ Free(q, a) => Free(Tail(q), a) /\ Head(q).acceptor # a
           /\ Once(q, a) /\ Head(q).acceptor = a => Free(Tail(q), a)
           /\ Once(q, a) /\ Head(q).acceptor # a => Once(Tail(q), a)
<1> DEFINE r == Tail(q)
<1>1. /\ Len(q) \in Nat /\ Len(q) > 0 /\ Len(r) = Len(q) - 1
      /\ \A i \in 1..Len(r) : r[i] = q[i + 1]
      /\ Head(q) = q[1]
  BY TailAt
<1> HIDE DEF r
<1>2. /\ 1 \in 1..Len(q) /\ \A i \in 1..Len(r) : i + 1 \in 1..Len(q) /\ i + 1 # 1
      /\ \A i \in 1..Len(q) : i # 1 => i - 1 \in 1..Len(r) /\ r[i - 1] = q[i]
  BY <1>1
<1>3. Free(q, a) => Free(r, a) /\ q[1].acceptor # a
  BY <1>1, <1>2 DEF Free
<1>4. ASSUME Once(q, a), q[1].acceptor = a PROVE Free(r, a)
  <2>1. \A j \in 1..Len(q) : q[j].acceptor = a => j = 1
    BY <1>2, <1>4 DEF Once
  <2> QED
    BY <1>1, <1>2, <2>1 DEF Free
<1>5. ASSUME Once(q, a), q[1].acceptor # a PROVE Once(r, a)
  <2>1. PICK i \in 1..Len(q) :
           q[i].acceptor = a /\ \A j \in 1..Len(q) : q[j].acceptor = a => j = i
    BY <1>5 DEF Once
  <2>2. i - 1 \in 1..Len(r) /\ r[i - 1].acceptor = a
    BY <1>2, <1>5, <2>1
  <2>3. ASSUME NEW j \in 1..Len(r), r[j].acceptor = a PROVE j = i - 1
    <3>1. j + 1 = i
      BY <1>1, <1>2, <2>1, <2>3
    <3> QED
      BY <3>1
  <2> QED
    BY <2>2, <2>3 DEF Once
<1> QED
  BY <1>1, <1>3, <1>4, <1>5 DEF r

\* A queue without the handlers that it does not have.
LEMMA NoListener ==
    ASSUME NEW q \in Seq(Handlers), NEW n \in Nat, NEW c, QueueOK(q, n, c), NEW a \in Nat, a > n
    PROVE  Free(q, a)
<1>1. \A i \in 1..Len(q) : q[i].acceptor \in Nat /\ q[i].acceptor <= n
  <2>1. \A i \in 1..Len(q) : q[i] \in Handlers
    OBVIOUS
  <2> QED
    BY <2>1 DEF QueueOK, HandlerOK, Handlers
<1> QED
  BY <1>1 DEF Free

LEMMA ArmedStep ==
    ASSUME TypeOK, Sane, Armed, ~undefined, Stages, Next
    PROVE  Armed'
<1> DEFINE n == Len(m_acceptors)
           Same(t, a) == (Apart(t, a) => Apart(t, a)') /\ (OneAt(t, a) => OneAt(t, a)')
<1>1. /\ n \in Nat /\ m_io_contexts \in Nat
      /\ CallTyped /\ PoolTyped /\ QueueTyped /\ DoorsTyped
  BY Growing, TypeParts
<1>2. ASSUME NEW t \in Threads
      PROVE  /\ queue[t] \in Seq(Handlers) /\ thread[t].job \in Handlers
             /\ HandlerOK(Job(t), n, m_io_contexts) /\ QueueOK(queue[t], n, m_io_contexts)
             /\ ThreadOK(thread[t])
  BY <1>1 DEF QueueTyped, PoolTyped, Sane
<1>3. ASSUME NEW t \in Threads, NEW a, queue'[t] = queue[t],
             thread'[t].job.acceptor = thread[t].job.acceptor
      PROVE  Same(t, a)
  BY <1>3 DEF Apart, OneAt, Job
<1>4. ASSUME NEW t \in Threads, NEW a, NEW h \in Handlers, h.acceptor # a,
             queue'[t] = Append(queue[t], h),
             thread'[t].job.acceptor = thread[t].job.acceptor
      PROVE  Same(t, a)
  <2>1. /\ Free(queue[t], a) => Free(queue'[t], a)
        /\ Once(queue[t], a) => Once(queue'[t], a)
    BY <1>2, <1>4, FreeOncePost
  <2> QED
    BY <1>4, <2>1 DEF Apart, OneAt, Job
<1>5. ASSUME NEW a \in 1..n, m_acceptors[a].open, NEW t \in Threads,
             m_acceptors'[a] = m_acceptors[a], Same(t, a)
      PROVE  ArmedAt(t, a)'
  <2>1. ArmedAt(t, a)
    BY <1>5 DEF Armed
  <2> QED
    BY <1>5, <2>1 DEF ArmedAt
<1> HIDE DEF Same
<1>6. ASSUME m_acceptors' = m_acceptors, \A t \in Threads : \A a \in 1..n : Same(t, a)
      PROVE  Armed'
  BY <1>5, <1>6 DEF Armed
<1>7. ASSUME UNCHANGED <<m_acceptors, queue>>,
             \A t \in Threads : thread'[t].job.acceptor = thread[t].job.acceptor
      PROVE  Armed'
  BY <1>3, <1>6, <1>7
<1>8. ASSUME m_acceptors' = <<>> PROVE Armed'
  BY <1>8 DEF Armed
<1>9. CASE create_thread
  BY <1>8, <1>9 DEF create_thread, Stages
<1>10. CASE PortOpens
  <2>1. PICK c, s \in 1..m_io_contexts :
           m_acceptors' = push_back(Acceptor(ThisPort, c, IF kind = "tcp" THEN s ELSE c))
    BY <1>10 DEF PortOpens, get
  <2>2. ThisPort \in Nat \ {0}
    BY <1>1, <1>10, ArgsType DEF PortOpens, ThisPort, Stages, Trying
  <2> DEFINE d == IF kind = "tcp" THEN s ELSE c
  <2>3. d \in 1..m_io_contexts
    OBVIOUS
  <2>4. m_acceptors' = push_back(Acceptor(ThisPort, c, d))
    BY <2>1
  <2> HIDE DEF d
  <2>5. /\ Len(m_acceptors') = n + 1 /\ \A a \in 1..n : m_acceptors'[a] = m_acceptors[a]
        /\ m_acceptors'[n + 1] = Acceptor(ThisPort, c, d)
    BY <1>1, <2>2, <2>3, <2>4, DoorAdded
  <2>6. queue' = queue /\ thread' = thread
    BY <1>10 DEF PortOpens
  <2>7. ASSUME NEW a \in 1..n, m_acceptors'[a].open, NEW t \in Threads PROVE ArmedAt(t, a)'
    BY <1>3, <1>5, <2>5, <2>6, <2>7
  <2>8. ASSUME NEW t \in Threads, NEW b \in Nat, b = n + 1 PROVE ArmedAt(t, b)'
    <3>1. m_acceptors'[b].accept # None
      BY <1>1, <2>3, <2>5, <2>8 DEF Acceptor, None
    <3>2. Free(queue[t], b)
      BY <1>1, <1>2, <2>8, NoListener
    <3>3. Job(t).acceptor # b
      BY <1>1, <1>2, <2>8 DEF HandlerOK, Handlers, Job
    <3> QED
      BY <2>6, <3>1, <3>2, <3>3 DEF ArmedAt, Apart, Job
  <2>9. \A a \in 1..Len(m_acceptors') : a \in 1..n \/ (a \in Nat /\ a = n + 1)
    BY <1>1, <2>5
  <2> QED
    BY <2>7, <2>8, <2>9 DEF Armed
<1>11. ASSUME CloseAcceptors PROVE Armed'
  BY <1>1, <1>11, Closed DEF Armed
<1>12. CASE destroy_impl \/ clear
  <2>1. CloseAcceptors \/ UNCHANGED <<m_acceptors, queue>>
    BY <1>12 DEF destroy_impl, clear
  <2>2. thread' = thread
    BY <1>12 DEF destroy_impl, clear
  <2> QED
    BY <1>7, <1>11, <2>1, <2>2
<1>13. CASE checked_delete
  <2>1. UNCHANGED <<thread, queue, m_acceptors>> \/ m_acceptors' = <<>>
    BY <1>13, Deletion
  <2> QED
    BY <1>7, <1>8, <2>1
<1>14. CASE create_connection
  <2>1. thread' = thread /\ m_acceptors' = m_acceptors
    BY <1>14 DEF create_connection
  <2>2. CASE m_io_contexts = 0
    BY <1>7, <1>14, <2>1, <2>2 DEF create_connection
  <2>3. CASE m_io_contexts # 0
    <3>1. PICK w \in 1..m_io_contexts : Post(w, Start(w, NoOne))
      BY <1>14, <2>3 DEF create_connection, get
    <3>2. Start(w, NoOne) \in Handlers /\ Start(w, NoOne).acceptor = 0
      BY StartType
    <3>3. /\ queue'[w] = Append(queue[w], Start(w, NoOne))
          /\ \A t \in Threads : t # w => queue'[t] = queue[t]
      BY <1>1, <3>1, <3>2, Posted
    <3>4. ASSUME NEW t \in Threads, NEW a \in 1..n PROVE Same(t, a)
      BY <1>3, <1>4, <2>1, <3>2, <3>3
    <3> QED
      BY <1>6, <2>1, <3>4
  <2> QED
    BY <2>2, <2>3
\* A thread is through with the handler of listener b, whose accept has begun.
<1>15. ASSUME NEW t \in Threads, NEW b \in 1..n, Job(t).acceptor = b,
              NEW s \in 1..m_io_contexts, m_acceptors' = [m_acceptors EXCEPT ![b].accept = s],
              thread' = [thread EXCEPT ![t] = Waits],
              \/ queue' = queue
              \/ \E w \in 1..m_io_contexts : \E h \in Handlers : h.acceptor = 0 /\ Post(w, h)
       PROVE  Armed'
  <2>1. /\ Len(m_acceptors') = n /\ m_acceptors'[b].accept = s
        /\ \A a \in 1..n : /\ a # b => m_acceptors'[a] = m_acceptors[a]
                           /\ m_acceptors'[a].open = m_acceptors[a].open
    <3>1. s \in 0..m_io_contexts
      BY <1>1
    <3> QED
      BY <1>1, <1>15, <3>1, DoorSet
  <2>2. /\ thread'[t].job.acceptor = 0
        /\ \A u \in Threads : u # t => thread'[u] = thread[u]
    BY <1>1, <1>15, NothingType DEF PoolTyped
  <2>3. ASSUME NEW u \in Threads, NEW a \in 1..n
        PROVE  /\ Free(queue[u], a) => Free(queue'[u], a)
               /\ Once(queue[u], a) => Once(queue'[u], a)
    <3>1. CASE queue' = queue
      BY <3>1
    <3>2. CASE queue' # queue
      <4>1. PICK w \in 1..m_io_contexts : \E h \in Handlers : h.acceptor = 0 /\ Post(w, h)
        BY <1>15, <3>2
      <4>2. PICK h \in Handlers : h.acceptor = 0 /\ Post(w, h)
        BY <4>1
      <4>3. /\ queue'[w] = Append(queue[w], h)
            /\ \A v \in Threads : v # w => queue'[v] = queue[v]
        BY <1>1, <4>2, Posted
      <4>4. h.acceptor # a
        BY <1>1, <4>2
      <4>5. CASE u = w
        <5>1. queue[w] \in Seq(Handlers)
          BY <1>2, <4>5
        <5>2. /\ Free(queue[w], a) => Free(Append(queue[w], h), a)
              /\ Once(queue[w], a) => Once(Append(queue[w], h), a)
          BY <4>2, <4>4, <5>1, FreeOncePost
        <5> QED
          BY <4>3, <4>5, <5>2
      <4>6. CASE u # w
        BY <4>3, <4>6
      <4> QED
        BY <4>5, <4>6
    <3> QED
      BY <3>1, <3>2
  <2>4. ASSUME NEW a \in 1..n, m_acceptors'[a].open, NEW u \in Threads PROVE ArmedAt(u, a)'
    <3>1. ArmedAt(u, a) /\ ArmedAt(t, a)
      BY <2>1, <2>4 DEF Armed
    <3>2. CASE a # b
      <4>1. (Apart(u, a) => Apart(u, a)') /\ (OneAt(u, a) => OneAt(u, a)')
        BY <1>15, <2>2, <2>3, <3>2 DEF Apart, OneAt, Job
      <4> QED
        BY <2>1, <3>1, <3>2, <4>1 DEF ArmedAt
    <3>3. CASE a = b
      <4>1. m_acceptors[b].context = t /\ OneAt(t, b)
        BY <1>15, <3>1, <3>3 DEF ArmedAt, Apart
      <4>2. Free(queue[u], a)
        BY <1>15, <3>1, <3>3, <4>1 DEF ArmedAt, Apart, OneAt
      <4>3. Free(queue'[u], a) /\ thread'[u].job.acceptor # a
        <5>1. CASE u = t
          BY <2>2, <2>3, <4>2, <5>1
        <5>2. CASE u # t
          <6>1. Job(u).acceptor # a
            BY <3>1, <3>3, <4>1, <5>2 DEF ArmedAt, Apart
          <6> QED
            BY <2>2, <2>3, <4>2, <5>2, <6>1 DEF Job
        <5> QED
          BY <5>1, <5>2
      <4>4. m_acceptors'[a].accept # None
        BY <1>1, <2>1, <3>3 DEF None
      <4> QED
        BY <4>3, <4>4 DEF ArmedAt, Apart, Job
    <3> QED
      BY <3>2, <3>3
  <2> QED
    BY <2>1, <2>4 DEF Armed
<1>16. ASSUME NEW t \in Threads, take(t) PROVE Armed'
  <2>1. /\ queue[t] # <<>> /\ m_acceptors' = m_acceptors
        /\ queue'[t] = Tail(queue[t]) /\ thread'[t].job = Head(queue[t])
        /\ \A u \in Threads : u # t => queue'[u] = queue[u] /\ thread'[u] = thread[u]
    BY <1>1, <1>16 DEF take, Thread, QueueTyped, PoolTyped
  <2>2. Job(t).acceptor = 0
    BY <1>2, <1>16, NothingType DEF take, ThreadOK, Job
  <2>3. ASSUME NEW a \in 1..n PROVE Same(t, a)
    <3>1. a # 0
      BY <1>1
    <3>2. /\ Free(queue[t], a) => Free(queue'[t], a) /\ thread'[t].job.acceptor # a
          /\ Once(queue[t], a) /\ thread'[t].job.acceptor = a => Free(queue'[t], a)
          /\ Once(queue[t], a) /\ thread'[t].job.acceptor # a => Once(queue'[t], a)
      BY <1>2, <2>1, FreeOnceTake
    <3> QED
      BY <2>2, <3>1, <3>2 DEF Same, Apart, OneAt, Job
  <2> QED
    BY <1>3, <1>6, <2>1, <2>3
<1>17. ASSUME NEW t \in Threads, leave(t) \/ introduce(t) PROVE Armed'
  <2>1. PICK place : thread' = [thread EXCEPT ![t].at = place]
    BY <1>17 DEF leave, introduce, Goes
  <2>2. \A u \in Threads : thread'[u].job = thread[u].job
    BY <1>1, <2>1 DEF PoolTyped
  <2>3. UNCHANGED <<m_acceptors, queue>>
    BY <1>17 DEF leave, introduce
  <2> QED
    BY <1>7, <2>2, <2>3
<1>18. ASSUME NEW t \in Threads, handle_accept(t) PROVE Armed'
  <2>1. Job(t).acceptor \in 1..n /\ Job(t).context \in 1..m_io_contexts
        /\ Job(t).peer \in Peers \cup {NoOne}
    BY <1>1, <1>2, <1>18 DEF handle_accept, HandlerOK, Handlers, Job
  <2>2. CASE ~m_acceptors[Job(t).acceptor].open
    BY <1>7, <1>18, <2>2 DEF handle_accept
  <2>3. CASE m_acceptors[Job(t).acceptor].open
    <3>1. /\ start_accept(Job(t).acceptor, Job(t)) /\ thread' = [thread EXCEPT ![t] = Waits]
          /\ \/ queue' = queue
             \/ Post(Job(t).context, Start(Job(t).context, Job(t).peer))
      BY <1>18, <2>3 DEF handle_accept
    <3>2. PICK s \in 1..m_io_contexts :
             m_acceptors' = [m_acceptors EXCEPT ![Job(t).acceptor].accept = s]
      BY <3>1 DEF start_accept, get
    <3>3. Job(t).context \in Nat
      BY <1>1, <2>1
    <3>4. /\ Start(Job(t).context, Job(t).peer) \in Handlers
          /\ Start(Job(t).context, Job(t).peer).acceptor = 0
      BY <2>1, <3>3, StartType
    <3> QED
      BY <1>15, <2>1, <3>1, <3>2, <3>4
  <2> QED
    BY <2>2, <2>3
<1>19. ASSUME NEW t \in Threads, Return(t) PROVE Armed'
  <2>1. thread' = [thread EXCEPT ![t] = Waits] /\ queue' = queue
    BY <1>19 DEF Return
  <2>2. CASE Job(t).op = "recv"
    <3>1. Job(t).acceptor \in 1..n
      BY <1>1, <1>2, <2>2 DEF HandlerOK, Handlers, Job
    <3>2. t \in 1..m_io_contexts
      BY <1>1, <1>19 DEF Return, Inside, PoolTyped
    <3>3. m_acceptors' = [m_acceptors EXCEPT ![Job(t).acceptor].accept = t]
      BY <1>19, <2>2 DEF Return
    <3> QED
      BY <1>15, <2>1, <3>1, <3>2, <3>3
  <2>3. CASE Job(t).op # "recv"
    <3>1. Job(t).acceptor = 0
      BY <1>2, <1>19, <2>3 DEF Return, ThreadOK, HandlerOK, Job
    <3>2. \A u \in Threads : thread'[u].job.acceptor = thread[u].job.acceptor
      BY <1>1, <2>1, <3>1, NothingType DEF PoolTyped, Job
    <3> QED
      BY <1>7, <1>19, <2>1, <2>3, <3>2 DEF Return
  <2> QED
    BY <2>2, <2>3
<1>22. ASSUME NEW t \in Threads, handshake(t) \/ HandshakeFailed(t) PROVE Armed'
  <2>1. thread' = [thread EXCEPT ![t] = Waits] /\ UNCHANGED <<queue, m_acceptors>>
    BY <1>22 DEF handshake, HandshakeFailed
  <2>2. Job(t).acceptor = 0
    BY <1>2, <1>22 DEF handshake, HandshakeFailed, HandlerOK, Job
  <2>3. \A u \in Threads : thread'[u].job.acceptor = thread[u].job.acceptor
    BY <1>1, <2>1, <2>2, NothingType DEF PoolTyped, Job
  <2> QED
    BY <1>7, <2>1, <2>3
<1>23. ASSUME NEW w \in Threads, NEW p \in Peers \cup {NoOne}, HandshakeEnds(w, p) PROVE Armed'
  <2>1. w \in 1..m_io_contexts /\ UNCHANGED <<thread, m_acceptors>>
    BY <1>23, HandshakeEnded
  <2>2. PICK h \in Handlers : h.acceptor = 0 /\ Post(w, h)
    BY <1>23, HandshakeEnded
  <2>3. /\ queue'[w] = Append(queue[w], h)
        /\ \A t \in Threads : t # w => queue'[t] = queue[t]
    BY <1>1, <2>1, <2>2, Posted
  <2>4. ASSUME NEW t \in Threads, NEW a \in 1..n PROVE Same(t, a)
    BY <1>3, <1>4, <2>1, <2>2, <2>3
  <2> QED
    BY <1>6, <2>1, <2>4
<1>20. ASSUME NEW b \in 1..n, (\E p \in Peers : AcceptCompletes(b, p)) \/ AcceptFails(b)
       PROVE  Armed'
  <2>1. m_acceptors[b].accept # None /\ thread' = thread
    BY <1>20 DEF AcceptCompletes, AcceptFails
  <2>2. PICK h \in Handlers :
           /\ h.acceptor = b /\ Post(m_acceptors[b].context, h)
           /\ m_acceptors' = [m_acceptors EXCEPT ![b].accept = 0]
    BY <1>20, <2>1, Completed
  <2> DEFINE c == m_acceptors[b].context
  <2>3. c \in 1..m_io_contexts
    BY <1>1, DoorAt
  <2>4. /\ c \in Threads /\ queue'[c] = Append(queue[c], h)
        /\ \A t \in Threads : t # c => queue'[t] = queue[t]
    BY <1>1, <2>2, <2>3, Posted
  <2>5. /\ Len(m_acceptors') = n /\ m_acceptors'[b].accept = 0
        /\ \A a \in 1..n : /\ a # b => m_acceptors'[a] = m_acceptors[a]
                           /\ m_acceptors'[a].open = m_acceptors[a].open
                           /\ m_acceptors'[a].context = m_acceptors[a].context
    <3>1. 0 \in 0..m_io_contexts
      BY <1>1
    <3> QED
      BY <1>1, <2>2, <3>1, DoorSet
  <2>6. ASSUME NEW a \in 1..n, m_acceptors'[a].open, NEW t \in Threads PROVE ArmedAt(t, a)'
    <3>1. ArmedAt(t, a) /\ m_acceptors[a].open
      BY <2>5, <2>6 DEF Armed
    <3>2. CASE a # b
      <4>1. Same(t, a)
        BY <1>3, <1>4, <2>1, <2>2, <2>4, <3>2
      <4> QED
        BY <1>5, <2>5, <3>1, <3>2, <4>1
    <3>3. CASE a = b
      <4>1. Apart(t, b)
        BY <2>1, <3>1, <3>3 DEF ArmedAt
      <4>2. CASE t # c
        <5>1. Apart(t, b)'
          BY <2>1, <2>4, <4>1, <4>2 DEF Apart, Job
        <5> QED
          BY <2>5, <3>3, <4>2, <5>1 DEF ArmedAt
      <4>3. CASE t = c
        <5>3. queue[c] \in Seq(Handlers) /\ Free(queue[c], b)
          BY <1>2, <2>4, <4>1, <4>3 DEF Apart
        <5>4. Once(Append(queue[c], h), b)
          BY <2>2, <5>3, FreeOncePost
        <5>1. Once(queue'[t], b)
          BY <2>4, <4>3, <5>4
        <5>2. OneAt(t, b)'
          BY <2>1, <4>1, <5>1 DEF OneAt, Apart, Job
        <5> QED
          BY <2>5, <3>3, <4>3, <5>2 DEF ArmedAt, None
      <4> QED
        BY <4>2, <4>3
    <3> QED
      BY <3>2, <3>3
  <2> QED
    BY <2>5, <2>6 DEF Armed
<1>21. ASSUME \/ init \/ init_again \/ ThreadThrows \/ PortFails \/ PortThrows
              \/ exit \/ stop \/ \E p \in Peers : Knock(p)
       PROVE  UNCHANGED <<thread, queue, m_acceptors>>
  BY <1>21 DEF init, init_again, ThreadThrows, PortFails, PortThrows, exit, stop, Knock, poolVars
<1> QED
  BY <1>7, <1>9, <1>10, <1>12, <1>13, <1>14, <1>16, <1>17, <1>18, <1>19, <1>20, <1>21, <1>22,
     <1>23 DEF Next, UserThread, PoolThread, AnyAccept

-----------------------------------------------------------------------------
(* How far init and exit have come.                                        *)

\* Until all is closed, the listeners keep their ports, and stay open, in
\* whatever the threads and the kernel do.
LEMMA Quiet ==
    ASSUME TypeOK, Sane, ~undefined, Stages,
           \/ \E t \in Threads : PoolThread(t)
           \/ create_connection
           \/ \E p \in Peers : Knock(p) \/ AnyAccept(p)
           \/ \E a \in 1..Len(m_acceptors) : AcceptFails(a)
           \/ \E t \in Threads, p \in Peers \cup {NoOne} : HandshakeEnds(t, p)
    PROVE  /\ UNCHANGED <<call, m_manager_impl, args, m_ports, m_io_contexts, stopped>>
           /\ Len(m_acceptors') = Len(m_acceptors)
           /\ \A a \in 1..Len(m_acceptors) : /\ m_acceptors'[a].port = m_acceptors[a].port
                                             /\ m_acceptors'[a].open = m_acceptors[a].open
           /\ Gone => create_connection \/ UNCHANGED <<thread, queue, handshakes>>
<1>1. /\ Len(m_acceptors) \in Nat /\ m_io_contexts \in Nat
      /\ CallTyped /\ PoolTyped /\ QueueTyped /\ DoorsTyped
  BY TypeParts, BoundsAssumption DEF BoundsAssumption, PoolTyped, DoorsTyped
<1>2. UNCHANGED <<call, m_manager_impl, args, m_ports, m_io_contexts, stopped>>
  BY DEF PoolThread, take, leave, handle_accept, handshake, HandshakeFailed, introduce, Return,
         create_connection, Knock, AnyAccept, AcceptCompletes, AcceptFails, HandshakeEnds,
         managerVars, poolVars
<1>3. \/ m_acceptors' = m_acceptors
      \/ \E a \in 1..Len(m_acceptors) : \E s \in 0..m_io_contexts :
            m_acceptors' = [m_acceptors EXCEPT ![a].accept = s]
  <2>1. ASSUME NEW t \in Threads, handle_accept(t) \/ Return(t),
               m_acceptors' # m_acceptors
        PROVE  \E a \in 1..Len(m_acceptors) : \E s \in 0..m_io_contexts :
                  m_acceptors' = [m_acceptors EXCEPT ![a].accept = s]
    <3>1. Job(t) \in Handlers /\ HandlerOK(Job(t), Len(m_acceptors), m_io_contexts)
      BY <1>1 DEF PoolTyped, Sane, Job
    <3>2. Job(t).op \in {"accept", "recv"}
      BY <2>1 DEF handle_accept, Return
    <3>3. Job(t).acceptor \in 1..Len(m_acceptors)
      BY <1>1, <3>1, <3>2 DEF HandlerOK, Handlers
    <3>4. t \in 1..m_io_contexts
      BY <1>1, <2>1 DEF handle_accept, Return, Inside, PoolTyped
    <3>5. \E s \in 1..m_io_contexts :
             m_acceptors' = [m_acceptors EXCEPT ![Job(t).acceptor].accept = s]
      BY <2>1, <3>4 DEF handle_accept, start_accept, get, Return
    <3>6. 1..m_io_contexts \subseteq 0..m_io_contexts
      BY <1>1
    <3> QED
      BY <3>3, <3>5, <3>6
  <2>2. ASSUME NEW a \in 1..Len(m_acceptors),
               (\E p \in Peers : AcceptCompletes(a, p)) \/ AcceptFails(a)
        PROVE  \E s \in 0..m_io_contexts : m_acceptors' = [m_acceptors EXCEPT ![a].accept = s]
    <3>1. 0 \in 0..m_io_contexts
      BY <1>1
    <3> QED
      BY <2>2, <3>1 DEF AcceptCompletes, AcceptFails, Completes, None
  <2>3. ASSUME \/ \E t \in Threads : \/ take(t) \/ leave(t) \/ introduce(t)
                                     \/ handshake(t) \/ HandshakeFailed(t)
               \/ create_connection
               \/ \E p \in Peers : Knock(p)
               \/ \E t \in Threads, p \in Peers \cup {NoOne} : HandshakeEnds(t, p)
        PROVE  m_acceptors' = m_acceptors
    BY <2>3 DEF take, leave, handshake, HandshakeFailed, introduce, create_connection, Knock,
                HandshakeEnds
  <2> QED
    BY <2>1, <2>2, <2>3 DEF PoolThread, AnyAccept
<1>4. /\ Len(m_acceptors') = Len(m_acceptors)
      /\ \A a \in 1..Len(m_acceptors) : /\ m_acceptors'[a].port = m_acceptors[a].port
                                        /\ m_acceptors'[a].open = m_acceptors[a].open
  BY <1>1, <1>3, DoorSet
<1>5. ASSUME Gone, ~create_connection PROVE UNCHANGED <<thread, queue, handshakes>>
  <2>1. \A t \in Threads : ~PoolThread(t)
    BY <1>5, NothingType DEF Gone, PoolThread, take, leave, handle_accept, handshake,
         HandshakeFailed, introduce, Return
  <2>2. 1..Len(m_acceptors) = {}
    BY <1>5 DEF Gone
  <2>3. \A t \in Threads : \A p \in Peers \cup {NoOne} : ~HandshakeEnds(t, p)
    BY <1>5 DEF Gone, HandshakeEnds, NoHandshake
  <2> QED
    BY <1>5, <2>1, <2>2, <2>3 DEF AnyAccept, Knock, poolVars
<1> QED
  BY <1>2, <1>4, <1>5

\* The ports of no listener, of the same, and of those of an array.
LEMMA DoorsAre ==
    /\ Doors(<<>>) = <<>>
    /\ \A x, y : /\ Len(x) = Len(y) /\ \A a \in 1..Len(x) : x[a].port = y[a].port
                 => Doors(x) = Doors(y)
    /\ \A x : \A p \in Seq(Nat) :
          /\ Len(x) = Len(p) /\ \A a \in 1..Len(x) : x[a].port = p[a]
          => Doors(x) = p
<1>1. Doors(<<>>) = <<>>
  BY DEF Doors
<1>2. ASSUME NEW x, NEW y, Len(x) = Len(y), \A a \in 1..Len(x) : x[a].port = y[a].port
      PROVE  Doors(x) = Doors(y)
  BY <1>2 DEF Doors
<1>3. ASSUME NEW x, NEW p \in Seq(Nat), Len(x) = Len(p), \A a \in 1..Len(x) : x[a].port = p[a]
      PROVE  Doors(x) = p
  <2>1. Doors(x) = [a \in 1..Len(p) |-> p[a]]
    BY <1>3 DEF Doors
  <2>2. p = [a \in 1..Len(p) |-> p[a]]
    OBVIOUS
  <2> QED
    BY <2>1, <2>2
<1> QED
  BY <1>1, <1>2, <1>3

\* The user's thread in init and exit.
LEMMA UserStages ==
    ASSUME TypeOK, Sane, ~undefined, Stages, UserThread, ~undefined'
    PROVE  Stages'
<1>1. /\ Len(m_acceptors) \in Nat /\ m_io_contexts \in Nat
      /\ CallTyped /\ PoolTyped /\ QueueTyped /\ DoorsTyped
      /\ args.port_array \in Seq(Nat) /\ args.thread_count \in Nat
  BY TypeParts, ArgsType, BoundsAssumption DEF BoundsAssumption, PoolTyped, DoorsTyped
<1> USE DEF At, Idle
<1>2. CASE init
  <2>1. Gone /\ m_acceptors = <<>> /\ m_io_contexts = 0 /\ m_ports = <<>>
    BY <1>2 DEF init, Stages, Gone
  <2>2. /\ m_manager_impl' /\ UNCHANGED <<m_acceptors, m_ports, m_io_contexts>>
        /\ args' \in Arguments
    BY <1>2 DEF init, poolVars
  <2>3. \/ call' = At("failed", 0)
        \/ call' = Idle /\ Unreadable'
        \/ call' = At("pool", 1) /\ args'.thread_count # 0
    BY <1>2 DEF init, CertificateThrows, Unreadable
  <2>4. args'.thread_count \in Nat
    BY <2>2, ArgumentsAssumption, BoundsAssumption DEF BoundsAssumption
  <2> QED
    BY <2>1, <2>2, <2>3, <2>4, DoorsAre DEF Stages
<1>3. CASE init_again
  BY <1>3 DEF init_again, Stages, Trying, Gone, Unreadable, poolVars
<1>4. CASE create_thread \/ ThreadThrows
  <2>1. /\ call.at = "pool" /\ call.index \in 1..args.thread_count /\ call.index \in Nat
        /\ m_acceptors = <<>> /\ m_ports = <<>> /\ m_manager_impl
        /\ m_io_contexts = call.index - 1
    BY <1>1, <1>4 DEF create_thread, ThreadThrows, Stages
  <2>2. /\ m_io_contexts' = call.index /\ m_io_contexts' # 0 /\ m_ports' = <<>>
        /\ UNCHANGED <<m_manager_impl, args, m_acceptors>>
    <3>1. m_io_contexts' = m_io_contexts + 1 /\ m_ports' \in {m_ports, <<>>}
      BY <1>4 DEF create_thread, ThreadThrows
    <3>2. UNCHANGED <<m_manager_impl, args, m_acceptors>>
      BY <1>4 DEF create_thread, ThreadThrows
    <3> QED
      BY <1>1, <2>1, <3>1, <3>2
  <2>3. \/ call' = Idle
        \/ call' = At("pool", call.index + 1) /\ call.index < args.thread_count
        \/ call' = At("ports", 1) /\ args.port_array # <<>>
    BY <1>4 DEF create_thread, ThreadThrows
  <2>4. CASE call' = Idle
    BY <2>1, <2>2, <2>4, DoorsAre DEF Stages
  <2>5. CASE call' = At("pool", call.index + 1) /\ call.index < args.thread_count
    <3>1. call.index + 1 \in 1..args.thread_count /\ (call.index + 1) - 1 = call.index
      BY <1>1, <2>1, <2>5
    <3> QED
      BY <2>1, <2>2, <2>5, <3>1 DEF Stages
  <2>6. CASE call' = At("ports", 1) /\ args.port_array # <<>>
    <3>1. 1 \in 1..Len(args.port_array) /\ Len(m_acceptors) = 1 - 1 /\ Len(m_acceptors) = 0
      BY <1>1, <2>1, <2>6
    <3>2. Trying'
      BY <2>1, <2>2, <2>6, <3>1 DEF Trying
    <3> QED
      BY <2>1, <2>2, <2>6, <3>2 DEF Stages
  <2> QED
    BY <2>3, <2>4, <2>5, <2>6
<1>5. CASE PortOpens
  <2>1. PICK c, s \in 1..m_io_contexts :
           m_acceptors' = push_back(Acceptor(ThisPort, c, IF kind = "tcp" THEN s ELSE c))
    BY <1>5 DEF PortOpens, get
  <2>2. /\ Trying /\ call.index \in 1..Len(args.port_array) /\ m_manager_impl
        /\ args.host_valid /\ m_ports = <<>> /\ \A a \in 1..Len(m_acceptors) : m_acceptors[a].open
        /\ call.index \in Nat /\ m_io_contexts # 0
    BY <1>1, <1>5 DEF PortOpens, Stages, Trying
  <2>3. ThisPort \in Nat \ {0} /\ ThisPort = args.port_array[call.index]
    BY <1>1, <1>5, <2>2 DEF PortOpens, ThisPort
  <2>4. (IF kind = "tcp" THEN s ELSE c) \in 1..m_io_contexts
    OBVIOUS
  <2>5. /\ Len(m_acceptors') = Len(m_acceptors) + 1
        /\ \A a \in 1..Len(m_acceptors) : m_acceptors'[a] = m_acceptors[a]
        /\ m_acceptors'[Len(m_acceptors) + 1].port = ThisPort
        /\ m_acceptors'[Len(m_acceptors) + 1].open
    <3> DEFINE d == Acceptor(ThisPort, c, IF kind = "tcp" THEN s ELSE c)
    <3>1. /\ Len(m_acceptors') = Len(m_acceptors) + 1
          /\ \A a \in 1..Len(m_acceptors) : m_acceptors'[a] = m_acceptors[a]
          /\ m_acceptors'[Len(m_acceptors) + 1] = d
      BY <1>1, <2>1, <2>3, <2>4, DoorAdded
    <3>2. d.port = ThisPort /\ d.open
      BY DEF Acceptor
    <3> QED
      BY <3>1, <3>2
  <2>6. UNCHANGED <<m_manager_impl, args, m_io_contexts>>
    BY <1>5 DEF PortOpens, poolVars
  <2>7. \A a \in 1..Len(m_acceptors') : a \in 1..Len(m_acceptors) \/ a = Len(m_acceptors) + 1
    BY <1>1, <2>5
  <2>8. \A a \in 1..Len(m_acceptors') : m_acceptors'[a].open
    BY <2>2, <2>5, <2>7
  <2>9. CASE args.port_any_valid
    <3>1. m_acceptors = <<>> /\ Len(m_acceptors) = 0
      BY <2>2, <2>9 DEF Trying
    <3>2. call' = Idle /\ m_ports' = <<ThisPort>>
      BY <1>5, <2>9 DEF PortOpens, Enough, Told
    <3>3. Doors(m_acceptors') = <<ThisPort>>
      <4>1. <<ThisPort>> \in Seq(Nat) /\ Len(<<ThisPort>>) = 1 /\ <<ThisPort>>[1] = ThisPort
        BY <2>3
      <4>2. Len(m_acceptors') = 1 /\ \A a \in 1..Len(m_acceptors') : a = 1
        BY <2>5, <3>1
      <4>3. m_acceptors'[1].port = ThisPort
        BY <2>5, <3>1
      <4>4. \A a \in 1..Len(m_acceptors') : m_acceptors'[a].port = <<ThisPort>>[a]
        BY <4>1, <4>2, <4>3
      <4> QED
        BY <4>1, <4>2, <4>4, DoorsAre
    <3> QED
      BY <2>2, <2>6, <2>8, <3>2, <3>3 DEF Stages
  <2>10. CASE ~args.port_any_valid
    <3>1. /\ Len(m_acceptors) + 1 = call.index
          /\ \A a \in 1..Len(m_acceptors) : m_acceptors[a].port = args.port_array[a]
      BY <1>1, <2>2, <2>10 DEF Trying
    <3>2. Len(m_acceptors') = call.index
      BY <2>5, <3>1
    <3>3. \A a \in 1..Len(m_acceptors') : m_acceptors'[a].port = args.port_array[a]
      BY <2>3, <2>5, <2>7, <3>1
    <3>4. CASE LastPort
      <4>1. call' = Idle /\ m_ports' = args.port_array
        BY <1>5, <2>10, <3>4 DEF PortOpens, Enough, Told
      <4>2. Doors(m_acceptors') = args.port_array
        BY <1>1, <3>2, <3>3, <3>4, DoorsAre DEF LastPort
      <4> QED
        BY <2>2, <2>6, <2>8, <4>1, <4>2 DEF Stages
    <3>5. CASE ~LastPort
      <4>1. call' = At("ports", call.index + 1) /\ m_ports' = m_ports
        BY <1>5, <2>10, <3>5 DEF PortOpens, Enough
      <4>2. /\ call.index + 1 \in 1..Len(args.port_array)
            /\ (call.index + 1) - 1 = call.index
        BY <1>1, <2>2, <3>5 DEF LastPort
      <4>3. Trying'
        BY <2>2, <2>6, <2>10, <3>2, <3>3, <4>1, <4>2 DEF Trying
      <4> QED
        BY <2>2, <2>6, <2>8, <4>1, <4>3 DEF Stages
    <3> QED
      BY <3>4, <3>5
  <2> QED
    BY <2>9, <2>10
<1>6. CASE PortFails
  <2>1. /\ Trying /\ call.index \in 1..Len(args.port_array) /\ m_manager_impl
        /\ \A a \in 1..Len(m_acceptors) : m_acceptors[a].open
    BY <1>6 DEF PortFails, Stages, Trying
  <2>2. UNCHANGED <<m_manager_impl, args, m_ports, m_io_contexts, m_acceptors>>
    BY <1>6 DEF PortFails, managerVars, poolVars
  <2>3. CASE args.port_any_valid /\ ~LastPort
    <3>1. call' = At("ports", call.index + 1)
      BY <1>6, <2>3 DEF PortFails
    <3>2. call.index + 1 \in 1..Len(args.port_array)
      BY <1>1, <2>1, <2>3 DEF LastPort
    <3>3. Trying'
      BY <2>1, <2>2, <2>3, <3>1, <3>2 DEF Trying
    <3> QED
      BY <2>1, <2>2, <3>1, <3>3 DEF Stages
  <2>4. CASE ~(args.port_any_valid /\ ~LastPort)
    <3>1. call' = At("failed", 0)
      BY <1>6, <2>4 DEF PortFails
    <3> QED
      BY <2>1, <2>2, <3>1 DEF Stages
  <2> QED
    BY <2>3, <2>4
<1>7. CASE PortThrows
  <2>1. /\ Trying /\ ~args.host_valid /\ m_manager_impl /\ m_acceptors = <<>>
        /\ m_ports = <<>> /\ m_io_contexts # 0
    BY <1>7 DEF PortThrows, Stages, Trying
  <2>2. /\ UNCHANGED <<m_manager_impl, args, m_ports, m_io_contexts, m_acceptors>>
        /\ call' = Idle
    BY <1>7 DEF PortThrows, poolVars
  <2> QED
    BY <2>1, <2>2, DoorsAre DEF Stages
<1>8. CASE destroy_impl \/ clear
  <2>1. call' = At("destroy", 0) /\ m_manager_impl' = m_manager_impl /\ m_manager_impl
    BY <1>8 DEF destroy_impl, clear, managerVars, Stages
  <2> QED
    BY <2>1 DEF Stages
<1>9. CASE exit
  <2>1. /\ UNCHANGED <<m_manager_impl, args, m_ports, m_io_contexts, m_acceptors>>
        /\ m_manager_impl /\ \A a \in 1..Len(m_acceptors) : m_acceptors[a].open
    BY <1>9 DEF exit, Stages, managerVars
  <2>2. \/ call' = At("clear", 0)
        \/ call' = At("stop", 1) /\ 1 \in 1..m_io_contexts
    BY <1>1, <1>9 DEF exit
  <2> QED
    BY <2>1, <2>2 DEF Stages
<1>10. CASE stop
  <2>1. /\ UNCHANGED <<m_manager_impl, args, m_ports, m_io_contexts, m_acceptors>>
        /\ m_manager_impl /\ \A a \in 1..Len(m_acceptors) : m_acceptors[a].open
        /\ call.index \in 1..m_io_contexts
    BY <1>10 DEF stop, Stages, managerVars
  <2>2. \/ call' = At("clear", 0)
        \/ call' = At("stop", call.index + 1) /\ call.index + 1 \in 1..m_io_contexts
    BY <1>1, <1>10, <2>1 DEF stop
  <2> QED
    BY <2>1, <2>2 DEF Stages
<1>11. CASE checked_delete
  <2>1. Gone' /\ ~m_manager_impl' /\ call' = Idle /\ m_acceptors' = <<>> /\ m_ports' = <<>>
    BY <1>11, Deletion DEF Gone
  <2> QED
    BY <2>1, DoorsAre DEF Stages
<1> QED
  BY <1>2, <1>3, <1>4, <1>5, <1>6, <1>7, <1>8, <1>9, <1>10, <1>11 DEF UserThread

LEMMA StagesStep ==
    ASSUME TypeOK, Sane, ~undefined, Stages, Next, ~undefined'
    PROVE  Stages'
<1>1. CASE UserThread
  BY <1>1, UserStages
<1>2. CASE ~UserThread
  <2>1. /\ UNCHANGED <<call, m_manager_impl, args, m_ports, m_io_contexts, stopped>>
        /\ Len(m_acceptors') = Len(m_acceptors)
        /\ \A a \in 1..Len(m_acceptors) : /\ m_acceptors'[a].port = m_acceptors[a].port
                                          /\ m_acceptors'[a].open = m_acceptors[a].open
        /\ Gone => create_connection \/ UNCHANGED <<thread, queue, handshakes>>
    BY <1>2, Quiet DEF Next
  <2>2. Doors(m_acceptors') = Doors(m_acceptors)
    BY <2>1, DoorsAre
  <2>3. m_acceptors = <<>> => m_acceptors' = <<>>
    <3>1. m_acceptors \in Seq(Doorways) /\ m_acceptors' \in Seq(Doorways')
      BY TypeParts, DoorsStep DEF DoorsTyped
    <3> QED
      BY <2>1, <3>1
  <2>4. ASSUME ~m_manager_impl PROVE Gone'
    <3>1. Gone /\ ~create_connection
      BY <2>4 DEF Stages, create_connection
    <3> QED
      BY <2>1, <2>3, <3>1 DEF Gone
  <2>5. ASSUME Trying PROVE Trying'
    BY <2>1, <2>3, <2>5 DEF Trying
  <2> QED
    BY <2>1, <2>2, <2>3, <2>4, <2>5 DEF Stages, Unreadable
<1> QED
  BY <1>1, <1>2

\* Something that is gone is used only while the implementation is deleted, or
\* when there never were any contexts.
LEMMA LateStep ==
    ASSUME TypeOK, Sane, ~undefined, Stages, Next
    PROVE  Late'
<1>1. CASE checked_delete
  BY <1>1, Deletion DEF Late
<1>2. CASE create_connection
  <2>1. CASE m_io_contexts = 0
    <3>1. \A t \in Threads : thread[t].at # "callback"
      BY <2>1, TypeParts DEF PoolTyped, Inside
    <3>2. call.at = "none" /\ m_manager_impl
      BY <1>2, <3>1 DEF create_connection, Idle, At
    <3>3. Unreadable'
      BY <1>2, <2>1, <3>2 DEF create_connection, managerVars, Stages, Unreadable
    <3> QED
      BY <3>3 DEF Late
  <2>2. CASE m_io_contexts # 0
    BY <1>2, <2>2 DEF create_connection, Late
  <2> QED
    BY <2>1, <2>2
<1>3. ASSUME NEW t \in Threads, handle_accept(t) PROVE Late'
  <2>1. call' = call
    BY <1>3 DEF handle_accept
  <2>2. CASE m_acceptors[Job(t).acceptor].open
    BY <1>3, <2>2 DEF handle_accept, Late
  <2>3. CASE ~m_acceptors[Job(t).acceptor].open
    <3>1. /\ Job(t) \in Handlers /\ HandlerOK(Job(t), Len(m_acceptors), m_io_contexts)
          /\ Len(m_acceptors) \in Nat
      BY TypeParts DEF PoolTyped, DoorsTyped, Sane, Job
    <3>2. Job(t).acceptor \in 1..Len(m_acceptors)
      BY <1>3, <3>1 DEF handle_accept, HandlerOK, Handlers
    <3>3. call.at = "destroy"
      BY <2>3, <3>2 DEF Stages
    <3> QED
      BY <2>1, <3>3 DEF Late
  <2> QED
    BY <2>2, <2>3
<1>4. ASSUME ~checked_delete, ~create_connection, \A t \in Threads : ~handle_accept(t)
      PROVE  undefined' = undefined
  <2>1. UserThread => undefined' = undefined
    BY <1>4 DEF UserThread, init, init_again, create_thread, ThreadThrows, PortOpens, PortFails,
                PortThrows, destroy_impl, exit, stop, clear
  <2>2. ~UserThread => undefined' = undefined
    BY <1>4 DEF Next, PoolThread, take, leave, handshake, HandshakeFailed, introduce, Return,
                Knock, AnyAccept, AcceptCompletes, AcceptFails, HandshakeEnds
  <2> QED
    BY <2>1, <2>2
<1> QED
  BY <1>1, <1>2, <1>3, <1>4 DEF Late

-----------------------------------------------------------------------------
(* The results.                                                            *)

LEMMA InitIInv == Init => IInv
<1> SUFFICES ASSUME Init PROVE IInv
  OBVIOUS
<1> USE DEF Init
<1>1. /\ MaxThreads \in Nat /\ 0 \in 0..MaxThreads /\ 0 \in 0..MaxInits /\ 0 \in 0..MaxConnects
      /\ 0 \in 0..MaxErrors
  BY BoundsAssumption DEF BoundsAssumption
<1>2. /\ \A t \in Threads : thread[t] = Absent /\ queue[t] = <<>>
      /\ thread \in [Threads -> {Absent}] /\ queue \in [Threads -> {<<>>}]
  OBVIOUS
<1>3. m_acceptors \in Seq(Doorways) /\ Len(m_acceptors) = 0 /\ m_ports \in Seq(Nat)
  OBVIOUS
<1>4. CallTyped
  BY <1>1, <1>3 DEF CallTyped, Calls, Idle, At
<1>5. PoolTyped
  BY <1>1, <1>2, NothingType DEF PoolTyped, Inside
<1>6. QueueTyped
  <2>1. <<>> \in Seq(Handlers)
    OBVIOUS
  <2> QED
    BY <1>2, <2>1 DEF QueueTyped
<1>7. DoorsTyped
  <2>1. Away \in [at : PeerPlaces, door : 0..Len(m_acceptors)]
    BY <1>3 DEF Away, PeerPlaces
  <2> QED
    BY <1>3, <2>1 DEF DoorsTyped
<1>11. HandshakesTyped
  BY DEF HandshakesTyped, NoHandshake
<1>8. Sane
  BY <1>1, <1>2, <1>3, NothingOK, NothingType DEF Sane, Job
<1>9. Armed
  BY DEF Armed
<1>10. Stages
  BY <1>2, DoorsAre DEF Stages, Gone, Idle, At
<1> QED
  BY <1>4, <1>5, <1>6, <1>7, <1>8, <1>9, <1>10, <1>11, TypeParts DEF IInv, Late

LEMMA StutterIInv == IInv /\ UNCHANGED vars => IInv'
<1> SUFFICES ASSUME IInv, UNCHANGED vars PROVE IInv'
  OBVIOUS
<1> USE DEF vars, managerVars, poolVars, counters
<1>1. TypeOK'
  BY DEF IInv, TypeOK, Inside
<1>2. Sane'
  BY DEF IInv, Sane, Job
<1>3. Armed'
  BY DEF IInv, Armed, ArmedAt, OneAt, Apart, Job
<1>4. (~undefined => Stages)' /\ Late'
  BY DEF IInv, Stages, Gone, Trying, Late, Unreadable
<1> QED
  BY <1>1, <1>2, <1>3, <1>4 DEF IInv

\* Every behaviour keeps the invariant.
THEOREM Inductive == Spec => []IInv
<1>1. ASSUME IInv, Next PROVE IInv'
  <2>1. TypeOK /\ Sane /\ Armed /\ ~undefined /\ Stages
    BY <1>1 DEF IInv, Next
  <2> QED
    BY <1>1, <2>1, TypeStep, SaneStep, ArmedStep, StagesStep, LateStep DEF IInv
<1>2. IInv /\ [Next]_vars => IInv'
  BY <1>1, StutterIInv
<1> QED
  BY <1>2, InitIInv, PTL DEF Spec

\* The types of all variables; handlers and sessions are on contexts that exist,
\* whatever get returned.
THEOREM TypeCorrect == Spec => []TypeOK
<1>1. IInv => TypeOK
  BY DEF IInv
<1> QED
  BY <1>1, Inductive, PTL

\* Between two calls get_ports tells the ports of the listeners there are.
THEOREM AlwaysPortsTold == Spec => []PortsTold
<1>1. IInv => PortsTold
  BY DEF IInv, Stages, PortsTold, Doors, Idle, At
<1> QED
  BY <1>1, Inductive, PTL

\* Where the handlers of a listener are, counted.
LEMMA WaitingAre ==
    ASSUME TypeOK, NEW a \in 1..Len(m_acceptors), a # 0
    PROVE  /\ (\A t \in Threads : Free(queue[t], a)) => Waiting(a) = {}
           /\ \A c \in Threads :
                 /\ Once(queue[c], a) /\ (\A t \in Threads \ {c} : Free(queue[t], a))
                 => \E w : Waiting(a) = {w}
<1> DEFINE at(t) == {i \in 1..Len(queue[t]) : queue[t][i].acceptor = a}
<1>1. \A w : w \in Waiting(a) <=> \E t \in Threads : \E i \in at(t) : w = <<t, i>>
  BY DEF Waiting
<1>2. \A t \in Threads : Free(queue[t], a) => at(t) = {}
  BY DEF Free
<1>3. ASSUME NEW t \in Threads, Once(queue[t], a) PROVE \E i : at(t) = {i}
  BY <1>3 DEF Once
<1> HIDE DEF at
<1>4. ASSUME \A t \in Threads : Free(queue[t], a) PROVE Waiting(a) = {}
  BY <1>1, <1>2, <1>4
<1>5. ASSUME NEW c \in Threads, Once(queue[c], a), \A t \in Threads \ {c} : Free(queue[t], a)
      PROVE  \E w : Waiting(a) = {w}
  <2>1. PICK i : at(c) = {i}
    BY <1>3, <1>5
  <2>2. \A w : w \in Waiting(a) <=> w = <<c, i>>
    BY <1>1, <1>2, <1>5, <2>1
  <2>3. Waiting(a) = {<<c, i>>}
    BY <2>2
  <2> QED
    BY <2>3
<1> QED
  BY <1>4, <1>5

\* Every open listener has one accept, or one receive: outstanding, completed, or
\* in the hands of a thread that starts the next.
THEOREM AlwaysArmed == Spec => []AcceptArmed
<1>1. ASSUME IInv PROVE AcceptArmed
  <2> SUFFICES ASSUME NEW a \in 1..Len(m_acceptors), m_acceptors[a].open
               PROVE  Cardinality(Waiting(a)) + Cardinality(InHand(a))
                        = IF m_acceptors[a].accept = None THEN 1 ELSE 0
    BY DEF AcceptArmed
  <2>1. \A t \in Threads : ArmedAt(t, a)
    BY <1>1 DEF IInv, Armed
  <2>2. TypeOK /\ DoorsTyped /\ PoolTyped /\ Len(m_acceptors) \in Nat /\ a # 0
    BY <1>1, TypeParts DEF IInv, DoorsTyped
  <2>3. Cardinality({}) = 0 /\ \A w : Cardinality({w}) = 1
    BY FS_EmptySet, FS_Singleton
  <2>4. ASSUME \A t \in Threads : Apart(t, a)
        PROVE  Cardinality(Waiting(a)) = 0 /\ Cardinality(InHand(a)) = 0
    <3>1. Waiting(a) = {} /\ InHand(a) = {}
      BY <2>2, <2>4, WaitingAre DEF Apart, InHand
    <3> QED
      BY <2>3, <3>1
  <2>5. CASE m_acceptors[a].accept # None
    BY <2>1, <2>4, <2>5 DEF ArmedAt
  <2>6. CASE m_acceptors[a].accept = None
    <3> DEFINE c == m_acceptors[a].context
    <3>1. c \in Threads
      BY <2>2, DoorAt, BoundsAssumption DEF PoolTyped, Threads, BoundsAssumption
    <3>2. OneAt(c, a) /\ \A t \in Threads \ {c} : Apart(t, a)
      BY <2>1, <2>6, <3>1 DEF ArmedAt
    <3> HIDE DEF c
    <3>3. CASE Free(queue[c], a) /\ Job(c).acceptor = a
      <4>1. Waiting(a) = {} /\ InHand(a) = {c}
        BY <2>2, <3>1, <3>2, <3>3, WaitingAre DEF Apart, InHand
      <4>2. Cardinality(Waiting(a)) = 0 /\ Cardinality(InHand(a)) = 1
        BY <2>3, <4>1
      <4> QED
        BY <2>6, <4>2
    <3>4. CASE Once(queue[c], a) /\ Job(c).acceptor # a
      <4>1. InHand(a) = {}
        BY <3>2, <3>4 DEF Apart, InHand
      <4>2. PICK w : Waiting(a) = {w}
        BY <2>2, <3>1, <3>2, <3>4, WaitingAre DEF Apart
      <4>3. Cardinality(Waiting(a)) = 1 /\ Cardinality(InHand(a)) = 0
        BY <2>3, <4>1, <4>2
      <4> QED
        BY <2>6, <4>3
    <3> QED
      BY <3>2, <3>3, <3>4 DEF OneAt
  <2> QED
    BY <2>5, <2>6
<1> QED
  BY <1>1, Inductive, PTL

\* What handlers refer to is there for as long as the manager is.
THEOREM AlwaysSafe == Spec => []SafeWhileServing
<1>1. IInv => SafeWhileServing
  BY DEF IInv, Late, Stages, Gone, Absent, Thread, Inside, SafeWhileServing, Unreadable
<1> QED
  BY <1>1, Inductive, PTL

=============================================================================
