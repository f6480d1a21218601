--------------------------- MODULE TcpStreamProofs ---------------------------
(***************************************************************************)
(* What the peer of a TCP connection receives: that WireIsStream holds in  *)
(* every behaviour of TcpConnection, for every value of its constants.     *)
(*                                                                         *)
(* Packs are numbered when they are filled.  They keep their order in the  *)
(* queue, in the send buffer and on the wire, and the piece that the next  *)
(* step of a write puts on the wire is the one that is due: also after a   *)
(* write that failed, since nothing is written from then on.               *)
(***************************************************************************)
EXTENDS TcpConnectionProofs

\* Packs are written, then buffered, then queued, then still to be filled.
Numbered ==
    /\ \A i \in 1..Len(m_send_buffer) : m_send_buffer[i] = sent + i
    /\ sent + Len(m_send_buffer) <= posted
    /\ PushesIn(queue, sent + Len(m_send_buffer), posted)

\* The piece that continues the stream.
Due(b) == IF wire = <<>> THEN b = <<1, 1>> ELSE Follows(b, wire[Len(wire)])

\* The outstanding write is at the piece that is due, and so will be the next
\* write, which a successful completion or an empty buffer allows.
WireDue ==
    /\ writing # <<>> =>
          writing[1].at \in 1..Chunks /\ Due(<<writing[1].pack, writing[1].at>>)
    /\ ~FailIn(queue, "send") => Due(<<sent + 2, 1>>)
    /\ m_send_buffer = <<>> => Due(<<sent + 1, 1>>)

StreamInv == Numbered /\ WireDue /\ WireIsStream

-----------------------------------------------------------------------------
\* A queue that changes by anything but a push or the completion of a send.
QueueMoves ==
    \/ queue' = queue
    \/ \E op \in Ops \ {"push", "send"}, ok \in BOOLEAN, n \in Nat :
          queue' = Append(queue, Handler(op, ok, n))
    \/ \E op \in Ops \ {"push"} :
          Runs(op) /\ (queue' = Tail(queue)
                         \/ \E o \in {"start", "stop"} : queue' = Append(Tail(queue), Post(o)))

\* Such a change leaves the pushes in order and no send successful that was not.
LEMMA QueueMovesOn ==
    ASSUME TypeOK, QueueMoves, NEW lo \in Nat, NEW hi \in Nat, lo <= hi,
           PushesIn(queue, lo, hi)
    PROVE  /\ PushesIn(queue', lo, hi)
           /\ FailIn(queue, "send") => FailIn(queue', "send")
<1>1. queue \in Seq(Handlers)
  BY DEF TypeOK
<1>2. ASSUME NEW op \in Ops \ {"push", "send"}, NEW ok \in BOOLEAN, NEW n \in Nat,
             queue' = Append(queue, Handler(op, ok, n))
      PROVE  PushesIn(queue', lo, hi) /\ (FailIn(queue, "send") => FailIn(queue', "send"))
  <2>1. Handler(op, ok, n) \in Handlers /\ ~IsPush(Handler(op, ok, n))
    BY HandlerType DEF IsPush
  <2>2. PushesIn(queue', lo, hi)
    BY <1>1, <1>2, <2>1, PushPosted
  <2>3. FailIn(queue, "send") => FailIn(queue', "send")
    BY <1>2, Posting
  <2> QED
    BY <2>2, <2>3
<1>3. ASSUME NEW op \in Ops \ {"push"}, Runs(op)
      PROVE  /\ Tail(queue) \in Seq(Handlers)
             /\ PushesIn(Tail(queue), lo, hi)
             /\ FailIn(queue, "send") => FailIn(Tail(queue), "send")
  <2>1. queue # <<>> /\ ~IsPush(Head(queue))
    BY <1>3 DEF Runs, IsPush
  <2> QED
    BY <1>1, <2>1, TailType, PushRun, RunTokens
<1>4. ASSUME NEW op \in Ops \ {"push"}, Runs(op), NEW o \in {"start", "stop"},
             queue' = Append(Tail(queue), Post(o))
      PROVE  PushesIn(queue', lo, hi) /\ (FailIn(queue, "send") => FailIn(queue', "send"))
  <2> DEFINE r == Tail(queue)
  <2>1. /\ r \in Seq(Handlers) /\ PushesIn(r, lo, hi)
        /\ FailIn(queue, "send") => FailIn(r, "send")
    BY <1>3, <1>4
  <2>2. Post(o) \in Handlers /\ Post(o).op # "send" /\ ~IsPush(Post(o))
    BY PostType DEF Ops, IsPush
  <2> HIDE DEF r
  <2>3. PushesIn(Append(r, Post(o)), lo, hi)
    BY <2>1, <2>2, PushPosted
  <2>4. FailIn(r, "send") => FailIn(Append(r, Post(o)), "send")
    BY <2>1, <2>2, PostTokens
  <2> QED
    BY <1>4, <2>1, <2>3, <2>4 DEF r
<1> QED
  BY <1>2, <1>3, <1>4 DEF QueueMoves

\* The bounds between the numbers of written, buffered and filled packs.
LEMMA Numbers ==
    ASSUME TypeOK, Numbered
    PROVE  /\ sent \in Nat /\ posted \in Nat /\ Len(m_send_buffer) \in Nat
           /\ sent + Len(m_send_buffer) \in Nat
           /\ sent + Len(m_send_buffer) <= posted
           /\ m_send_buffer \in Seq(Nat)
           /\ PushesIn(queue, sent + Len(m_send_buffer), posted)
BY DEF TypeOK, Numbered

\* The packs and the wire are left alone.
PacksStay == UNCHANGED <<wire, writing, sent, m_send_buffer, posted>>

\* Steps that touch neither the packs nor the wire.
LEMMA StreamQuiet ==
    ASSUME TypeOK, StreamInv, QueueMoves, PacksStay
    PROVE  StreamInv'
<1>1. /\ PushesIn(queue', sent + Len(m_send_buffer), posted)
      /\ FailIn(queue, "send") => FailIn(queue', "send")
  BY Numbers, QueueMovesOn DEF StreamInv
<1>2. Numbered'
  BY <1>1 DEF StreamInv, Numbered, PacksStay
<1>3. WireDue'
  BY <1>1 DEF StreamInv, WireDue, Due, PacksStay
<1>4. WireIsStream'
  BY DEF StreamInv, WireIsStream, PacksStay
<1> QED
  BY <1>2, <1>3, <1>4 DEF StreamInv

\* Most steps are of that kind, and a send that failed is, too: it leaves its
\* pack in front, and the buffer, which is not empty, unwritten.
LEMMA StreamOthers ==
    ASSUME TypeOK, StreamInv,
           \/ UNCHANGED vars \/ Creation \/ Setup
           \/ handle_resolve \/ handle_connect \/ start \/ handle_handshake \/ stop
           \/ handle_recv \/ (handle_send /\ Failed)
           \/ ShutdownReturns \/ Return \/ UserCloses
           \/ recv_buffer_drop \/ recv_buffer_water_mark \/ Peer \/ ReadCompletes
    PROVE  StreamInv'
<1> USE DEF profile, setupVars, recvVars, sendVars, callVars, peerVars, userVars
<1>1. ASSUME \/ UNCHANGED vars \/ CreateAsync \/ ShutdownReturns \/ Peer
             \/ recv_buffer_drop \/ recv_buffer_water_mark
      PROVE  PacksStay /\ QueueMoves
  BY <1>1 DEF PacksStay, QueueMoves, vars, CreateAsync, ShutdownReturns, Peer, PeerSends,
              PeerCloses, recv_buffer_drop, recv_buffer_water_mark
<1>2. ASSUME CreateSync \/ Setup \/ UserCloses \/ Return
      PROVE  PacksStay /\ QueueMoves
  <2>1. PacksStay
    BY <1>2 DEF PacksStay, CreateSync, Setup, handle_accept, ResolveCompletes,
                ConnectCompletes, HandshakeCompletes, Completes, UserCloses, Return
  <2>2. \/ queue' = queue
        \/ \E op \in Ops \ {"push", "send"}, ok \in BOOLEAN :
              queue' = Append(queue, Handler(op, ok, 0))
    BY <1>2 DEF CreateSync, Setup, handle_accept, ResolveCompletes, ConnectCompletes,
                HandshakeCompletes, Completes, UserCloses, Return, ReturnToReading,
                ReturnFromSend, ReturnFromClose, ReturnFromFailure, Post, Ops
  <2> QED
    BY <2>1, <2>2 DEF QueueMoves
<1>3. ASSUME ReadCompletes PROVE PacksStay /\ QueueMoves
  <2>1. \A n \in 1..(peer_sent - bytes_read) : n \in Nat
    BY DEF TypeOK
  <2>2. \E ok \in BOOLEAN, n \in Nat : queue' = Append(queue, Handler("recv", ok, n))
    BY <1>3, <2>1 DEF ReadCompletes
  <2> QED
    BY <1>3, <2>2 DEF PacksStay, ReadCompletes, QueueMoves, Ops
<1>4. ASSUME \/ handle_resolve \/ handle_connect \/ start \/ handle_handshake \/ stop
             \/ handle_recv \/ (handle_send /\ Failed)
      PROVE  PacksStay /\ QueueMoves
  <2>1. PacksStay
    BY <1>4 DEF PacksStay, handle_resolve, handle_connect, start, handle_handshake, stop,
                handle_recv, handle_send
  <2>2. \E op \in Ops \ {"push"} : Runs(op)
    BY <1>4 DEF handle_resolve, handle_connect, start, handle_handshake, stop,
                handle_recv, handle_send, Ops
  <2>3. \/ queue' = Tail(queue)
        \/ \E o \in {"start", "stop"} : queue' = Append(Tail(queue), Post(o))
    BY <1>4 DEF handle_resolve, handle_connect, start, handle_handshake, stop,
                handle_recv, handle_send, close
  <2> QED
    BY <2>1, <2>2, <2>3 DEF QueueMoves
<1> QED
  BY <1>1, <1>2, <1>3, <1>4, StreamQuiet DEF Creation

\* A pack that is filled is queued behind those filled before.
LEMMA StreamFill ==
    ASSUME TypeOK, StreamInv, send_buffer_fill
    PROVE  StreamInv'
<1> USE DEF profile, setupVars, recvVars, sendVars, callVars, peerVars, userVars
<1>1. /\ posted' = posted + 1
      /\ queue' = Append(queue, Handler("push", TRUE, posted + 1))
      /\ UNCHANGED <<wire, writing, sent, m_send_buffer>>
  BY DEF send_buffer_fill
<1>2. /\ queue \in Seq(Handlers)
      /\ Handler("push", TRUE, posted + 1) \in Handlers
      /\ Handler("push", TRUE, posted + 1).op = "push"
      /\ Handler("push", TRUE, posted + 1).n = posted + 1
  <2>1. queue \in Seq(Handlers) /\ posted + 1 \in Nat /\ "push" \in Ops
    BY DEF TypeOK, Ops
  <2> QED
    BY <2>1, HandlerType
<1>3. PushesIn(queue', sent + Len(m_send_buffer), posted + 1)
  <2> DEFINE lo == sent + Len(m_send_buffer)
  <2>1. lo \in Nat /\ posted \in Nat /\ lo <= posted /\ PushesIn(queue, lo, posted)
    BY Numbers DEF StreamInv
  <2> HIDE DEF lo
  <2>2. PushesIn(queue', lo, posted + 1)
    BY <1>1, <1>2, <2>1, PushPosted DEF IsPush
  <2> QED
    BY <2>2 DEF lo
<1>4. FailIn(queue, "send") => FailIn(queue', "send")
  BY <1>1, <1>2, PostTokens
<1>5. Numbered'
  <2>1. sent + Len(m_send_buffer) \in Nat /\ posted \in Nat /\ sent + Len(m_send_buffer) <= posted
    BY Numbers DEF StreamInv
  <2>2. sent + Len(m_send_buffer) <= posted + 1
    BY <2>1
  <2> QED
    BY <1>1, <1>3, <2>2 DEF StreamInv, Numbered
<1>6. WireDue' /\ WireIsStream'
  BY <1>1, <1>4 DEF StreamInv, WireDue, Due, WireIsStream
<1> QED
  BY <1>5, <1>6 DEF StreamInv

\* The next pack joins the buffer, and is written if there is none before it.
LEMMA StreamPush ==
    ASSUME TypeOK, WriteToken, StreamInv, push_send_data
    PROVE  StreamInv'
<1> USE DEF profile, setupVars, recvVars, sendVars, callVars, peerVars, userVars
<1> DEFINE lo == sent + Len(m_send_buffer)
           n  == Head(queue).n
<1>1. /\ queue' = Tail(queue)
      /\ m_send_buffer' = Append(m_send_buffer, n)
      /\ UNCHANGED <<wire, sent, posted>>
      /\ queue \in Seq(Handlers) /\ queue # <<>> /\ IsPush(Head(queue))
  BY DEF push_send_data, Runs, TypeOK, IsPush
<1>2. lo \in Nat /\ posted \in Nat /\ m_send_buffer \in Seq(Nat) /\ sent \in Nat
      /\ PushesIn(queue, lo, posted)
  BY Numbers DEF StreamInv
<1>3. n = lo + 1 /\ lo < posted /\ PushesIn(queue', lo + 1, posted)
  BY <1>1, <1>2, PushRun
<1>4. /\ Len(m_send_buffer') = Len(m_send_buffer) + 1 /\ Len(m_send_buffer) \in Nat
      /\ \A i \in 1..Len(m_send_buffer) : m_send_buffer'[i] = m_send_buffer[i]
      /\ m_send_buffer'[Len(m_send_buffer) + 1] = n
  BY <1>1, <1>2, <1>3, AppendAt
<1>5. Numbered'
  <2>1. sent + Len(m_send_buffer') = lo + 1
    BY <1>2, <1>4
  <2>2. \A i \in 1..Len(m_send_buffer') : m_send_buffer'[i] = sent + i
    BY <1>2, <1>3, <1>4 DEF StreamInv, Numbered
  <2>3. (sent + Len(m_send_buffer))' = lo + 1
    BY <1>1, <2>1
  <2> QED
    BY <1>1, <1>2, <1>3, <2>2, <2>3 DEF Numbered
<1>6. WireDue'
  <2>1. m_send_buffer' # <<>> /\ (FailIn(queue, "send") => FailIn(queue', "send"))
    BY <1>1, <1>4, RunTokens
  <2>2. CASE m_send_buffer # <<>>
    <3>1. writing' = writing
      BY <2>2 DEF push_send_data, need_send
    <3> QED
      BY <1>1, <2>1, <3>1 DEF StreamInv, WireDue, Due
  <2>3. CASE m_send_buffer = <<>>
    <3>1. Head(m_send_buffer') = sent + 1
      BY <1>1, <1>2, <1>3, <2>3, HeadOfAppend
    <3>2. writing' = <<Write(sent + 1, 1)>>
      BY <2>3, <3>1 DEF push_send_data, need_send, send, WriteToken
    <3>3. writing'[1].pack = sent + 1 /\ writing'[1].at = 1
      BY <3>2 DEF Write
    <3>4. 1 \in 1..Chunks
      BY BoundsAssumption
    <3> QED
      BY <1>1, <2>1, <2>3, <3>3, <3>4 DEF StreamInv, WireDue, Due
  <2> QED
    BY <2>2, <2>3
<1> QED
  BY <1>1, <1>5, <1>6 DEF StreamInv, WireIsStream

\* A pack that was written in full leaves the buffer, and the next is written.
LEMMA StreamSent ==
    ASSUME TypeOK, WriteToken, StreamInv, handle_send, ~Failed
    PROVE  StreamInv'
<1> USE DEF profile, setupVars, recvVars, sendVars, callVars, peerVars, userVars
<1>1. /\ queue' = Tail(queue) /\ m_send_buffer' = Tail(m_send_buffer) /\ sent' = sent + 1
      /\ UNCHANGED <<wire, posted>>
      /\ queue \in Seq(Handlers) /\ queue # <<>> /\ Head(queue).op = "send" /\ Head(queue).ok
  BY DEF handle_send, Runs, Failed, TypeOK
<1>2. /\ sent \in Nat /\ posted \in Nat /\ m_send_buffer \in Seq(Nat)
      /\ sent + Len(m_send_buffer) \in Nat
      /\ sent + Len(m_send_buffer) <= posted
      /\ PushesIn(queue, sent + Len(m_send_buffer), posted)
  BY Numbers DEF StreamInv
<1>3. 1 \in 1..Len(queue) /\ queue[1].op = "send" /\ queue[1].ok
  BY <1>1, TailAt
<1>4. m_send_buffer # <<>> /\ writing = <<>>
  BY <1>3 DEF WriteToken, NoneIn
<1>5. /\ Len(m_send_buffer') = Len(m_send_buffer) - 1 /\ Len(m_send_buffer) \in Nat
      /\ \A i \in 1..Len(m_send_buffer') : m_send_buffer'[i] = m_send_buffer[i + 1]
      /\ m_send_buffer' \in Seq(Nat)
  BY <1>1, <1>2, <1>4, TailAt, TailType
<1>6. Numbered'
  <2>1. (sent + Len(m_send_buffer))' = sent + Len(m_send_buffer)
    BY <1>1, <1>2, <1>5
  <2>2. PushesIn(queue', sent + Len(m_send_buffer), posted)
    BY <1>1, <1>2, PushRun DEF IsPush
  <2>3. \A i \in 1..Len(m_send_buffer') : m_send_buffer'[i] = sent' + i
    BY <1>1, <1>2, <1>5 DEF StreamInv, Numbered
  <2> QED
    BY <1>1, <1>2, <2>1, <2>2, <2>3 DEF Numbered
<1>7. WireDue'
  <2>1. Due(<<sent + 2, 1>>)
    BY <1>3 DEF StreamInv, WireDue, FailIn
  <2>2. Due(<<sent + 1, 1>>)'
    <3>1. sent' + 1 = sent + 2
      BY <1>1, <1>2
    <3> QED
      BY <1>1, <2>1, <3>1 DEF Due
  <2>3. FailIn(queue', "send")
    <3>1. NoneIn(queue', {"send"})
      BY <1>1, RunTokens DEF WriteToken
    <3> QED
      BY <3>1, NoneFails
  <2>4. CASE m_send_buffer' = <<>>
    <3>1. writing' = <<>>
      BY <1>4, <2>4 DEF handle_send, Failed
    <3> QED
      BY <2>2, <2>3, <3>1 DEF WireDue
  <2>5. CASE m_send_buffer' # <<>>
    <3>1. Head(m_send_buffer') = sent + 2
      <4>1. Head(m_send_buffer') = m_send_buffer'[1] /\ 1 \in 1..Len(m_send_buffer')
        BY <1>5, <2>5, TailAt
      <4>2. m_send_buffer'[1] = m_send_buffer[2] /\ 2 \in 1..Len(m_send_buffer)
        BY <1>5, <4>1
      <4> QED
        BY <4>1, <4>2 DEF StreamInv, Numbered
    <3>2. writing' = <<Write(sent + 2, 1)>>
      BY <1>4, <2>5, <3>1 DEF handle_send, send
    <3>3. writing'[1].pack = sent + 2 /\ writing'[1].at = 1
      BY <3>2 DEF Write
    <3>4. 1 \in 1..Chunks
      BY BoundsAssumption
    <3> QED
      BY <1>1, <2>1, <2>3, <2>5, <3>3, <3>4 DEF WireDue, Due
  <2> QED
    BY <2>4, <2>5
<1> QED
  BY <1>1, <1>6, <1>7 DEF StreamInv, WireIsStream

\* What follows the last piece of a wire that grows, and its stream so far.
LEMMA WireGrows ==
    ASSUME wire \in Seq(Nat \X Nat), WireIsStream, NEW b \in Nat \X Nat, Due(b),
           wire' = Append(wire, b)
    PROVE  WireIsStream' /\ \A c : Due(c)' <=> Follows(c, b)
<1>1. /\ Len(wire') = Len(wire) + 1 /\ Len(wire) \in Nat
      /\ \A i \in 1..Len(wire) : wire'[i] = wire[i]
      /\ wire'[Len(wire) + 1] = b
      /\ wire' # <<>>
  BY AppendAt, AppendSome
<1>2. \A c : Due(c)' <=> Follows(c, b)
  BY <1>1 DEF Due, Follows
<1>3. wire'[1] = <<1, 1>>
  <2>1. CASE wire = <<>>
    BY <1>1, <2>1 DEF Due
  <2>2. CASE wire # <<>>
    <3>1. 1 \in 1..Len(wire)
      BY <1>1, <2>2
    <3> QED
      BY <1>1, <2>2, <3>1 DEF WireIsStream
  <2> QED
    BY <2>1, <2>2
<1>4. ASSUME NEW i \in 1..Len(wire') - 1 PROVE Follows(wire'[i + 1], wire'[i])
  <2>1. i \in 1..Len(wire) /\ wire'[i] = wire[i] /\ wire # <<>>
    BY <1>1
  <2>2. CASE i = Len(wire)
    BY <1>1, <2>1, <2>2 DEF Due
  <2>3. CASE i # Len(wire)
    <3>1. i \in 1..Len(wire) - 1 /\ i + 1 \in 1..Len(wire)
      BY <1>1, <2>1, <2>3
    <3> QED
      BY <1>1, <2>1, <3>1 DEF WireIsStream
  <2> QED
    BY <2>2, <2>3
<1> QED
  BY <1>2, <1>3, <1>4 DEF WireIsStream, Follows

\* The kernel takes the piece that is due, or the write fails.
LEMMA StreamWritten ==
    ASSUME TypeOK, WriteToken, StreamInv, WriteCompletes
    PROVE  StreamInv'
<1> USE DEF profile, setupVars, recvVars, sendVars, callVars, peerVars, userVars
<1> DEFINE w == Head(writing)
<1>1. /\ UNCHANGED <<sent, m_send_buffer, posted>>
      /\ writing # <<>> /\ writing \in Seq(Writes) /\ queue \in Seq(Handlers)
      /\ wire \in Seq(Nat \X Nat)
  BY DEF WriteCompletes, TypeOK
<1>2. /\ w = writing[1] /\ w \in Writes /\ w.pack \in Nat /\ w.at \in Nat
      /\ Tail(writing) = <<>>
  <2>1. w = writing[1] /\ w \in Writes
    BY <1>1, TailAt, TailType
  <2>2. Len(writing) <= 1 /\ Len(writing) \in Nat
    BY <1>1 DEF WriteToken
  <2>3. Tail(writing) = <<>>
    BY <1>1, <2>2
  <2>4. w.pack \in Nat /\ w.at \in Nat
    BY <2>1 DEF Writes
  <2> QED
    BY <2>1, <2>3, <2>4
<1>3. w.at \in 1..Chunks /\ Due(<<w.pack, w.at>>) /\ w.pack = sent + 1
  <2>1. m_send_buffer # <<>> /\ w.pack = Head(m_send_buffer)
    BY <1>1, <1>2 DEF WriteToken
  <2>2. m_send_buffer \in Seq(Nat) /\ sent \in Nat
    BY DEF TypeOK
  <2>3. Head(m_send_buffer) = m_send_buffer[1] /\ 1 \in 1..Len(m_send_buffer)
    BY <2>1, <2>2, TailAt
  <2>4. Head(m_send_buffer) = sent + 1
    BY <2>3 DEF StreamInv, Numbered
  <2> QED
    BY <1>1, <1>2, <2>1, <2>4 DEF StreamInv, WireDue
<1>4. m_send_buffer' # <<>> /\ FailIn(queue, "send") /\ sent \in Nat /\ posted \in Nat
  <2>1. FailIn(queue, "send")
    BY <1>1, NoneFails DEF WriteToken
  <2> QED
    BY <1>1, <2>1 DEF WriteToken, TypeOK
<1>5. queue' = queue \/ \E ok \in BOOLEAN : queue' = Append(queue, Handler("send", ok, 0))
  BY DEF WriteCompletes
<1>6. Numbered'
  <2> DEFINE lo == sent + Len(m_send_buffer)
  <2>1. lo \in Nat /\ lo <= posted /\ PushesIn(queue, lo, posted)
    BY Numbers DEF StreamInv
  <2> HIDE DEF lo
  <2>2. ASSUME NEW ok \in BOOLEAN, queue' = Append(queue, Handler("send", ok, 0))
        PROVE  PushesIn(queue', lo, posted)
    <3>1. Handler("send", ok, 0) \in Handlers /\ ~IsPush(Handler("send", ok, 0))
      BY HandlerType DEF Ops, IsPush
    <3> QED
      BY <1>1, <1>4, <2>1, <2>2, <3>1, PushPosted
  <2>3. PushesIn(queue', lo, posted)
    BY <1>5, <2>1, <2>2
  <2> QED
    BY <1>1, <2>3 DEF lo, StreamInv, Numbered
<1>7. ASSUME wire' = Append(wire, <<w.pack, w.at>>), w.at < Chunks,
             writing' = Append(Tail(writing), Write(w.pack, w.at + 1)), queue' = queue
      PROVE  WireDue' /\ WireIsStream'
  <2>1. WireIsStream' /\ \A c : Due(c)' <=> Follows(c, <<w.pack, w.at>>)
    BY <1>1, <1>2, <1>3, <1>7, WireGrows DEF StreamInv
  <2>2. writing' = <<Write(w.pack, w.at + 1)>>
    <3>1. \A x : Append(<<>>, x) = <<x>>
      OBVIOUS
    <3> QED
      BY <1>2, <1>7, <3>1
  <2>3. writing'[1].pack = w.pack /\ writing'[1].at = w.at + 1
    BY <2>2 DEF Write
  <2>4. w.at + 1 \in 1..Chunks
    BY <1>2, <1>3, <1>7, BoundsAssumption
  <2>5. Follows(<<w.pack, w.at + 1>>, <<w.pack, w.at>>)
    BY <1>7 DEF Follows
  <2>6. Due(<<writing[1].pack, writing[1].at>>)'
    BY <2>1, <2>3, <2>5
  <2> QED
    BY <1>4, <1>7, <2>1, <2>3, <2>4, <2>6 DEF WireDue
<1>8. ASSUME wire' = Append(wire, <<w.pack, w.at>>), ~(w.at < Chunks),
             writing' = Tail(writing)
      PROVE  WireDue' /\ WireIsStream'
  <2>1. WireIsStream' /\ \A c : Due(c)' <=> Follows(c, <<w.pack, w.at>>)
    BY <1>1, <1>2, <1>3, <1>8, WireGrows DEF StreamInv
  <2>2. Due(<<sent + 2, 1>>)'
    <3>1. sent' + 2 = w.pack + 1
      BY <1>1, <1>3, <1>4
    <3> QED
      BY <1>8, <2>1, <3>1 DEF Follows
  <2> QED
    BY <1>2, <1>4, <1>8, <2>1, <2>2 DEF WireDue
<1>9. ASSUME UNCHANGED wire, writing' = Tail(writing),
             queue' = Append(queue, Handler("send", FALSE, 0))
      PROVE  WireDue' /\ WireIsStream'
  <2>1. FailIn(queue', "send")
    BY <1>4, <1>9, Posting DEF Ops
  <2> QED
    BY <1>2, <1>4, <1>9, <2>1 DEF StreamInv, WireDue, WireIsStream
<1>10. WireDue' /\ WireIsStream'
  BY <1>7, <1>8, <1>9 DEF WriteCompletes
<1> QED
  BY <1>6, <1>10 DEF StreamInv

-----------------------------------------------------------------------------
\* The stream is empty, and its first piece is due.
LEMMA StreamInit == Init => StreamInv
<1> SUFFICES ASSUME Init PROVE StreamInv
  OBVIOUS
<1>1. Len(queue) = 0 /\ Len(m_send_buffer) = 0 /\ sent = 0 /\ posted = 0 /\ Len(wire) = 0
  BY DEF Init
<1>2. Numbered
  BY <1>1 DEF Numbered, PushesIn
<1>3. WireDue /\ WireIsStream
  BY <1>1 DEF Init, WireDue, WireIsStream, Due, FailIn
<1> QED
  BY <1>2, <1>3 DEF StreamInv

\* Every step keeps it, given that there is one write at most, of the front
\* pack.
LEMMA StreamStep == IInv /\ StreamInv /\ [Next]_vars => StreamInv'
<1> SUFFICES ASSUME IInv, StreamInv, [Next]_vars PROVE StreamInv'
  OBVIOUS
<1>1. TypeOK /\ WriteToken
  BY DEF IInv
<1> QED
  BY <1>1, StreamOthers, StreamFill, StreamPush, StreamSent, StreamWritten
     DEF Next, IoThread, User

\* Packs, numbers and wire agree in every reachable state.
THEOREM StreamInductive == Spec => []StreamInv
BY StreamInit, StreamStep, Inductive, PTL DEF Spec

\* What the peer receives is the packs one after the other, in the order of
\* the calls of send_buffer_fill, without a gap or a repetition.
THEOREM AlwaysStream == Spec => []WireIsStream
<1>1. StreamInv => WireIsStream
  BY DEF StreamInv
<1> QED
  BY <1>1, StreamInductive, PTL

=============================================================================
