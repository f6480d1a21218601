-------------------------- MODULE TcpContractProofs --------------------------
(***************************************************************************)
(* A plain TCP connection implements CallbackContract, with one late       *)
(* callback of each kind: the initial states map to initial states, and    *)
(* every step of TcpConnection is a step of the contract or a stutter.     *)
(*                                                                         *)
(* To the tokens of TcpConnectionProofs this adds that a connection runs   *)
(* only until its on_close, whichever stops are queued.                    *)
(***************************************************************************)
EXTENDS TcpConnectionProofs

\* on_close has not been called while the connection runs, or is running
\* itself; and a blocking shutdown ends in the only on_close.
ClosesOnce ==
    /\ m_running /\ callback # "on_close" => closes = 0
    /\ callback = "shutdown" => m_running
    /\ closes <= 1

\* Steps that enter neither a shutdown nor on_close.
LEMMA ClosesStay ==
    ASSUME ClosesOnce, closes' = closes,
           \/ UNCHANGED <<callback, m_running>>
           \/ /\ callback' \notin {"shutdown", "on_close"}
              /\ m_running' => m_running /\ callback # "on_close"
    PROVE  ClosesOnce'
BY DEF ClosesOnce

\* Steps that enter no callback and leave m_running alone.
LEMMA CallsNothing ==
    ASSUME \/ UNCHANGED vars \/ Creation \/ Setup \/ User \/ Peer
           \/ ReadCompletes \/ WriteCompletes \/ push_send_data
    PROVE  UNCHANGED <<callback, closes, late, m_running, rejected, m_use_ssl>>
BY DEF vars, profile, callVars, userVars, Creation, CreateAsync, CreateSync, Setup,
       handle_accept, ResolveCompletes, ConnectCompletes, HandshakeCompletes, Completes,
       User, send_buffer_fill, UserCloses, recv_buffer_drop, recv_buffer_water_mark,
       Peer, PeerSends, PeerCloses, ReadCompletes, WriteCompletes, push_send_data

\* A connection is introduced while its attempt is unanswered: it was never
\* closed before.
LEMMA NotAnswered ==
    ASSUME TypeOK, SetupToken, Unknown, NEW op \in SetupOps, Runs(op)
    PROVE  answer = "none" /\ closes = 0 /\ callback = "none" /\ ~Deaf
<1>1. queue \in Seq(Handlers) /\ queue # <<>> /\ Head(queue).op = op
  BY DEF TypeOK, Runs
<1>2. ~NoneIn(queue, SetupOps)
  BY <1>1, TailAt DEF NoneIn
<1> QED
  BY <1>2 DEF SetupToken, Unknown, Runs, Deaf

\* The calls of the user, by the callback that is entered.
LEMMA CallsWhat ==
    ASSUME NEW c \in Callbacks, Calls(c)
    PROVE  /\ callback' = c
           /\ c \in Introductions => answer' = "connection" /\ UNCHANGED <<closes, late>>
           /\ c = "connect_failed" => answer' = "nullptr" /\ UNCHANGED <<closes, late>>
           /\ c = "on_close" => closes' = closes + 1 /\ UNCHANGED <<answer, late>>
           /\ c \in DataCallbacks =>
                 /\ UNCHANGED <<answer, closes>>
                 /\ late' = IF closes > 0 THEN [late EXCEPT ![c] = @ + 1] ELSE late
BY DEF Calls, Callbacks, Introductions, DataCallbacks

\* on_close is called once, also of an SSL connection, however many stops the
\* user, a false return and failed operations have posted.
LEMMA ClosesStep == IInv /\ ClosesOnce /\ [Next]_vars => ClosesOnce'
<1> SUFFICES ASSUME IInv, ClosesOnce, [Next]_vars PROVE ClosesOnce'
  OBVIOUS
<1> USE DEF profile, setupVars, recvVars, sendVars, callVars, peerVars, userVars
<1>0. TypeOK /\ SetupToken /\ Unknown /\ closes \in Nat
  BY DEF IInv, TypeOK, CallTypeOK
<1>1. CASE \/ UNCHANGED vars \/ Creation \/ Setup \/ User \/ Peer
           \/ ReadCompletes \/ WriteCompletes \/ push_send_data
  BY <1>1, CallsNothing, ClosesStay
<1>2. CASE handle_resolve \/ handle_connect
  <2>1. callback = "none" /\ m_running' = m_running
    BY <1>2 DEF handle_resolve, handle_connect, Runs
  <2>2. closes' = closes /\ callback' \in {callback, "connect_failed", "terminated"}
    BY <1>2, CallsWhat DEF handle_resolve, handle_connect, Callbacks
  <2> QED
    BY <2>1, <2>2, ClosesStay DEF DataCallbacks
<1>3. CASE start \/ handle_handshake
  <2>1. closes = 0 /\ callback = "none"
    BY <1>0, <1>3, NotAnswered DEF start, handle_handshake, SetupOps
  <2>2. closes' = closes /\ callback' \in {callback} \cup Introductions
    BY <1>3, CallsWhat DEF start, handle_handshake, Introduce, Callbacks, Introductions
  <2> QED
    BY <2>1, <2>2 DEF ClosesOnce, Introductions
<1>4. CASE stop
  <2>1. callback = "none" /\ m_running' = m_running
    BY <1>4 DEF stop, Runs
  <2>2. \/ UNCHANGED <<callback, closes>>
        \/ m_running /\ callback' = "on_close" /\ closes' = closes + 1
        \/ m_running /\ callback' = "shutdown" /\ closes' = closes
    BY <1>4, CallsClose DEF stop, may_stop
  <2> QED
    BY <1>0, <2>1, <2>2 DEF ClosesOnce
<1>5. CASE ShutdownReturns
  BY <1>0, <1>5, CallsClose DEF ShutdownReturns, ClosesOnce
<1>6. CASE handle_recv \/ handle_send
  <2>1. callback = "none" /\ m_running' = m_running
    BY <1>6 DEF handle_recv, handle_send, Runs
  <2>2. closes' = closes /\ callback' \in {callback} \cup DataCallbacks
    BY <1>6, CallsWhat DEF handle_recv, ShowOrReadOn, handle_send, Callbacks, DataCallbacks
  <2> QED
    BY <2>1, <2>2, ClosesStay DEF DataCallbacks
<1>7. CASE Return
  <2>1. callback' = "none" /\ closes' = closes
    BY <1>7 DEF Return
  <2>2. m_running' => m_running /\ callback # "on_close"
    BY <1>7 DEF Return, ReturnToReading, ReturnFromSend, ReturnFromClose,
                ReturnFromFailure, Introductions
  <2> QED
    BY <2>1, <2>2, ClosesStay
<1> QED
  BY <1>1, <1>2, <1>3, <1>4, <1>5, <1>6, <1>7 DEF Next, IoThread

\* Of each connection on_close is called at most once.
THEOREM AlwaysClosesOnce == Spec => []ClosesOnce
<1>1. Init => ClosesOnce
  BY DEF Init, ClosesOnce
<1> QED
  BY <1>1, ClosesStep, Inductive, PTL DEF Spec

-----------------------------------------------------------------------------
\* A read that has completed finds a user who still takes data.
LEMMA ReadHeard ==
    ASSUME TypeOK, ReadToken, Runs("recv")
    PROVE  ~Deaf
<1>1. queue \in Seq(Handlers) /\ queue # <<>> /\ Head(queue).op = "recv"
  BY DEF TypeOK, Runs
<1>2. ~NoneIn(queue, {"recv"})
  BY <1>1, TailAt DEF NoneIn
<1> QED
  BY <1>2 DEF ReadToken

\* Who is called back has the connection.
LEMMA Introduced ==
    ASSUME TypeOK, Unknown, NEW op \in {"recv", "send"}, Runs(op)
    PROVE  answer = "connection"
<1>1. queue \in Seq(Handlers) /\ queue # <<>> /\ Head(queue).op = op
  BY DEF TypeOK, Runs
<1>2. ~NoneIn(queue, {op})
  BY <1>1, TailAt DEF NoneIn
<1> QED
  BY <1>2 DEF Unknown

\* A completion that succeeded after on_close is the first of its kind.
LEMMA FirstLate ==
    ASSUME TypeOK, LateToken, ~m_use_ssl, closes > 0, ~Failed
    PROVE  /\ Runs("recv") => late["on_recv"] < 1
           /\ Runs("send") => late["on_send"] < 1
<1>1. late["on_recv"] \in Nat /\ late["on_send"] \in Nat
  BY DEF TypeOK, CallTypeOK, DataCallbacks
<1>2. queue \in Seq(Handlers)
  BY DEF TypeOK
<1>3. ASSUME NEW op, Runs(op) PROVE ~FailIn(queue, op)
  <2>1. 1 \in 1..Len(queue) /\ Head(queue) = queue[1]
    BY <1>2, <1>3, TailAt DEF Runs
  <2> QED
    BY <1>3, <2>1 DEF FailIn, Failed, Runs
<1> QED
  BY <1>1, <1>3 DEF LateToken

\* What the contract sees of a step: it is the same when these are.
LEMMA Stutters ==
    ASSUME UNCHANGED <<callback, answer, closes, late, rejected>>
    PROVE  UNCHANGED Contract!vars
BY DEF Contract!vars, Phase, Active, Deaf

\* A callback that delivers data, before or after on_close.
LEMMA Delivers ==
    ASSUME TypeOK, Unknown, LateToken, ~m_use_ssl, UNCHANGED rejected,
           NEW c \in DataCallbacks, Calls(c), callback = "none", answer = "connection",
           closes > 0 => late[c] < 1, c = "on_recv" => ~Deaf
    PROVE  Contract!Deliver(c)
<1>1. /\ callback' = c /\ UNCHANGED <<answer, closes>>
      /\ late' = IF closes > 0 THEN [late EXCEPT ![c] = @ + 1] ELSE late
  BY CallsWhat DEF Callbacks
<1>2. closes \in Nat
  BY DEF TypeOK, CallTypeOK
<1>3. Phase = (IF closes > 0 THEN "closed" ELSE "open") /\ Phase' = Phase
  BY <1>1 DEF Phase
<1>4. Active = "none" /\ Active' = c
  BY <1>1 DEF Active, Callbacks, DataCallbacks, Introductions
<1>5. Deaf' = Deaf
  BY DEF Deaf
<1> QED
  BY <1>1, <1>3, <1>4, <1>5 DEF Contract!Deliver

\* The attempt is answered, with the connection or without.
LEMMA Answers ==
    ASSUME answer = "none", closes = 0, callback = "none", UNCHANGED rejected,
           NEW c \in Introductions \cup {"connect_failed"}, Calls(c)
    PROVE  Contract!Next
<1>1. /\ callback' = c /\ UNCHANGED <<closes, late>>
      /\ answer' = IF c = "connect_failed" THEN "nullptr" ELSE "connection"
  BY CallsWhat DEF Callbacks, Introductions
<1>2. Phase = "new" /\ Phase' = IF c = "connect_failed" THEN "failed" ELSE "open"
  BY <1>1 DEF Phase
<1>3. Active = "none" /\ Active' = c
  BY <1>1 DEF Active, Callbacks, Introductions, DataCallbacks
<1>4. Deaf' = Deaf
  BY DEF Deaf
<1>5. CASE c = "connect_failed"
  BY <1>1, <1>2, <1>3, <1>4, <1>5 DEF Contract!Next, Contract!Refuse
<1>6. CASE c \in Introductions
  <2>1. c # "connect_failed" /\ c \in Contract!Introductions
    BY <1>6 DEF Introductions, Contract!Introductions
  <2>2. Contract!Introduce(c)
    BY <1>1, <1>2, <1>3, <1>4, <2>1 DEF Contract!Introduce
  <2> QED
    BY <2>1, <2>2 DEF Contract!Next
<1> QED
  BY <1>5, <1>6

\* A callback returns: only the callbacks that read on can turn the user deaf.
LEMMA Returns ==
    ASSUME TypeOK, Return
    PROVE  Contract!Return
<1>1. /\ callback \in Callbacks /\ callback' = "none"
      /\ UNCHANGED <<answer, closes, late>>
  BY DEF Return, ReturnToReading, ReturnFromSend, ReturnFromClose, ReturnFromFailure,
         Callbacks, Introductions, DataCallbacks, callVars
<1>2. Active = callback /\ Active' = "none" /\ callback # "none" /\ Phase' = Phase
  BY <1>1 DEF Active, Phase, Callbacks, Introductions, DataCallbacks
<1>3. Deaf' = Deaf \/ (Deaf' = TRUE /\ callback \in Introductions \cup {"on_recv"})
  BY DEF Return, ReturnToReading, ReturnFromSend, ReturnFromClose, ReturnFromFailure,
         Deaf, Introductions
<1>4. Introductions = Contract!Introductions
  BY DEF Introductions, Contract!Introductions
<1> QED
  BY <1>1, <1>2, <1>3, <1>4 DEF Contract!Return

\* Every step of a plain TCP connection is one of the contract, or none.
LEMMA ContractStep ==
    ASSUME IInv, ClosesOnce, ~m_use_ssl, [Next]_vars
    PROVE  [Contract!Next]_(Contract!vars)
<1> USE DEF profile, setupVars, recvVars, sendVars, callVars, peerVars, userVars
<1>0. /\ TypeOK /\ SetupToken /\ Unknown /\ ReadToken /\ LateToken
      /\ closes \in Nat
  BY DEF IInv, TypeOK, CallTypeOK
<1>1. CASE \/ UNCHANGED vars \/ Setup \/ User \/ Peer
           \/ ReadCompletes \/ WriteCompletes \/ push_send_data
  <2>1. UNCHANGED <<callback, answer, closes, late, rejected>>
    BY <1>1 DEF vars, Setup, handle_accept, ResolveCompletes,
         ConnectCompletes, HandshakeCompletes, Completes, User, send_buffer_fill, UserCloses,
         recv_buffer_drop, recv_buffer_water_mark, Peer, PeerSends, PeerCloses,
         ReadCompletes, WriteCompletes, push_send_data
  <2> QED
    BY <2>1, Stutters
<1>2. CASE CreateAsync \/ CreateSync
  <2>1. answer = "none"
    BY <1>0, <1>2 DEF CreateAsync, CreateSync, SetupToken
  <2>2. answer' \in {"none", "false", "exception"}
    BY <1>2, <2>1 DEF CreateAsync, CreateSync
  <2>3. UNCHANGED <<callback, closes, late, rejected>>
    BY <1>2 DEF CreateAsync, CreateSync
  <2>4. Phase' = Phase
    BY <2>1, <2>2, <2>3 DEF Phase
  <2> QED
    BY <2>3, <2>4 DEF Contract!vars, Active, Deaf
<1>3. CASE handle_resolve \/ handle_connect
  <2>1. answer = "none" /\ closes = 0 /\ callback = "none"
    BY <1>0, <1>3, NotAnswered DEF handle_resolve, handle_connect, SetupOps
  <2>2. UNCHANGED rejected
    BY <1>3 DEF handle_resolve, handle_connect
  <2>3. \/ Calls("connect_failed")
        \/ UNCHANGED <<callback, answer, closes, late>>
        \/ callback' = "terminated" /\ UNCHANGED <<answer, closes, late>>
    BY <1>3 DEF handle_resolve, handle_connect
  <2>4. CASE callback' = "terminated" /\ UNCHANGED <<answer, closes, late>>
    BY <2>1, <2>2, <2>4 DEF Contract!vars, Phase, Active, Deaf, Callbacks, Introductions,
                            DataCallbacks
  <2> QED
    BY <2>1, <2>2, <2>3, <2>4, Answers, Stutters
<1>4. CASE start \/ handle_handshake
  <2>1. answer = "none" /\ closes = 0 /\ callback = "none"
    BY <1>0, <1>4, NotAnswered DEF start, handle_handshake, SetupOps
  <2>2. UNCHANGED rejected
    BY <1>4 DEF start, handle_handshake
  <2>3. \/ \E c \in Introductions : Calls(c)
        \/ UNCHANGED <<callback, answer, closes, late>>
    BY <1>4 DEF start, handle_handshake, Introduce, Introductions
  <2> QED
    BY <2>1, <2>2, <2>3, Answers, Stutters
<1>5. CASE stop
  <2>1. callback = "none" /\ UNCHANGED rejected
    BY <1>5 DEF stop, Runs
  <2>2. CASE m_running
    <3>1. answer = "connection" /\ closes = 0
      BY <1>0, <2>1, <2>2 DEF Unknown, ClosesOnce
    <3>2. callback' = "on_close" /\ closes' = closes + 1 /\ UNCHANGED <<answer, late>>
      BY <1>5, <2>2, CallsClose DEF stop, may_stop
    <3>3. Phase = "open" /\ Phase' = "closed" /\ Active = "none" /\ Active' = "on_close"
      BY <2>1, <3>1, <3>2 DEF Phase, Active, Callbacks, Introductions, DataCallbacks
    <3>4. Deaf' = Deaf
      BY <2>1 DEF Deaf
    <3> QED
      BY <3>2, <3>3, <3>4 DEF Contract!Next, Contract!Close
  <2>3. CASE ~m_running
    BY <1>5, <2>1, <2>3, Stutters DEF stop, may_stop
  <2> QED
    BY <2>2, <2>3
<1>6. ASSUME ShutdownReturns PROVE FALSE
  BY <1>0, <1>6 DEF ShutdownReturns, LateToken
<1>7. CASE handle_recv
  <2>1. callback = "none" /\ UNCHANGED rejected /\ answer = "connection" /\ ~Deaf
    BY <1>0, <1>7, ReadHeard, Introduced DEF handle_recv, Runs
  <2>2. (~Failed /\ Calls("on_recv")) \/ UNCHANGED <<callback, answer, closes, late>>
    BY <1>7 DEF handle_recv, ShowOrReadOn
  <2>3. ~Failed /\ closes > 0 => late["on_recv"] < 1
    BY <1>0, <1>7, FirstLate DEF handle_recv
  <2>4. ASSUME ~Failed, Calls("on_recv") PROVE Contract!Next
    <3>1. Contract!Deliver("on_recv")
      BY <1>0, <2>1, <2>3, <2>4, Delivers DEF DataCallbacks
    <3> QED
      BY <3>1 DEF Contract!Next, Contract!DataCallbacks
  <2> QED
    BY <2>1, <2>2, <2>4, Stutters
<1>8. CASE handle_send
  <2>1. callback = "none" /\ UNCHANGED rejected /\ answer = "connection"
    BY <1>0, <1>8, Introduced DEF handle_send, Runs
  <2>2. (~Failed /\ Calls("on_send")) \/ UNCHANGED <<callback, answer, closes, late>>
    BY <1>8 DEF handle_send
  <2>3. ~Failed /\ closes > 0 => late["on_send"] < 1
    BY <1>0, <1>8, FirstLate DEF handle_send
  <2>4. ASSUME ~Failed, Calls("on_send") PROVE Contract!Next
    <3>1. Contract!Deliver("on_send")
      BY <1>0, <2>1, <2>3, <2>4, Delivers DEF DataCallbacks
    <3> QED
      BY <3>1 DEF Contract!Next, Contract!DataCallbacks
  <2> QED
    BY <2>1, <2>2, <2>4, Stutters
<1>9. CASE Return
  BY <1>0, <1>9, Returns DEF Contract!Next
<1> QED
  BY <1>1, <1>2, <1>3, <1>4, <1>5, <1>6, <1>7, <1>8, <1>9 DEF Next, Creation, IoThread

\* Whether a connection uses SSL is settled when it is made.
LEMMA StaysPlain == ~m_use_ssl /\ [Next]_vars => ~m_use_ssl'
BY DEF vars, profile, Next, Creation, CreateAsync, CreateSync, Setup, handle_accept,
       ResolveCompletes, ConnectCompletes, HandshakeCompletes, Completes, IoThread,
       handle_resolve, handle_connect, start, handle_handshake, stop, push_send_data,
       handle_recv, handle_send, ShutdownReturns, Return, User, send_buffer_fill,
       UserCloses, recv_buffer_drop, recv_buffer_water_mark, Peer, PeerSends, PeerCloses,
       ReadCompletes, WriteCompletes

\* A plain TCP connection keeps the contract of its callbacks: one at a time,
\* an introduction or a refusal first, then data, then one on_close, and after
\* it at most one on_recv and one on_send.
THEOREM PlainImplementsContract == Spec /\ ~m_use_ssl => ImplementsContract
<1>1. Init => Contract!Init
  BY DEF Init, Contract!Init, Phase, Active, Deaf, Callbacks, Introductions, DataCallbacks,
         Contract!DataCallbacks
<1>2. IInv /\ ClosesOnce /\ ~m_use_ssl /\ [Next]_vars => [Contract!Next]_(Contract!vars)
  BY ContractStep
<1> QED
  BY <1>1, <1>2, StaysPlain, Inductive, AlwaysClosesOnce, PTL
     DEF Spec, ImplementsContract, Contract!Spec

=============================================================================
