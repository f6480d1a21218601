-------------------------- MODULE ProxyPairProofs --------------------------
(***************************************************************************)
(* Proofs about a pair of the sample proxy, for any number of bytes and of *)
(* late callbacks: the types, that the pair is kept for as long as it is   *)
(* used but for the exceptions that PairKept names, and that what arrives  *)
(* on one connection is relayed to the other exactly.                      *)
(***************************************************************************)
EXTENDS ProxyPair, TLAPS

-----------------------------------------------------------------------------
(* Types.                                                                  *)

RecvSteps == {"check", "copy", "measure", "fill", "drop"}
Places == RecvSteps \cup {"none", "create", "keep", "greet", "join", "flush",
                          "refused", "close", "look", "delete"}

ActiveOf(t) == IF t = "src" THEN src_active ELSE dst_active
PhaseOf(t) == IF t = "src" THEN src_phase ELSE dst_phase

\* The contracts of the two connections.
Calling == {"on_recv", "on_send", "on_connect", "on_accept", "connect_failed",
            "on_close", "none"}
SrcTyped ==
    /\ src_phase \in {"new", "open", "closed", "failed"} /\ src_active \in Calling
    /\ src_late \in [{"on_recv", "on_send"} -> 0..MaxLate] /\ src_deaf \in BOOLEAN
DstTyped ==
    /\ dst_phase \in {"new", "open", "closed", "failed"} /\ dst_active \in Calling
    /\ dst_late \in [{"on_recv", "on_send"} -> 0..MaxLate] /\ dst_deaf \in BOOLEAN
SidesTyped == SrcTyped /\ DstTyped

PairTyped ==
    /\ attempt \in BOOLEAN /\ pair \in {"none", "live", "deleted"}
    /\ field \in [Sides -> BOOLEAN] /\ user_data \in [Sides -> BOOLEAN]
    /\ asked \in [Sides -> BOOLEAN]
    /\ early \in BOOLEAN /\ overlapped \in BOOLEAN
    /\ fault \in {"none", "deleted", "null", "torn"}

ThreadsTyped ==
    /\ mtx \in Sides \cup {"free"} /\ \A t \in Sides : at[t] = "look" <=> mtx = t
    /\ at \in [Sides -> Places]
    /\ \A t \in Sides : (at[t] = "none") = (ActiveOf(t) = "none")
    /\ subject \in [Sides -> Sides]

BytesTyped ==
    /\ data \in [Sides -> Seq(Numbers)]
    /\ m_recv_buffer \in [Sides -> Seq(Numbers)] /\ relayed \in [Sides -> Seq(Numbers)]
    /\ arrived \in [Sides -> Numbers]

LEMMA TypeParts == TypeOK <=> SidesTyped /\ PairTyped /\ ThreadsTyped /\ BytesTyped
<1>1. (Src!TypeOK <=> SrcTyped) /\ (Dst!TypeOK <=> DstTyped)
  BY DEF SrcTyped, DstTyped, Calling, Src!TypeOK, Dst!TypeOK, Src!Callbacks, Dst!Callbacks,
         Src!DataCallbacks, Dst!DataCallbacks, Src!Introductions, Dst!Introductions
<1> QED
  BY <1>1 DEF TypeOK, SidesTyped, PairTyped, ThreadsTyped, BytesTyped, ActiveOf, Places, RecvSteps

LEMMA SrcStep ==
    ASSUME SrcTyped,
           \/ UNCHANGED src_vars
           \/ Src!Introduce("on_accept") \/ Src!Deliver("on_recv") \/ Src!Close
           \/ Src!Return
    PROVE  SrcTyped'
<1> USE BoundsAssumption DEF SrcTyped, Calling
<1>1. CASE UNCHANGED src_vars
  BY <1>1 DEF src_vars
<1>2. CASE Src!Introduce("on_accept") \/ Src!Close
  BY <1>2 DEF Src!Introduce, Src!Close
<1>3. CASE Src!Return
  BY <1>3 DEF Src!Return
<1>4. CASE Src!Deliver("on_recv")
  BY <1>4 DEF Src!Deliver
<1> QED
  BY <1>1, <1>2, <1>3, <1>4

LEMMA DstStep ==
    ASSUME DstTyped,
           \/ UNCHANGED dst_vars
           \/ Dst!Introduce("on_connect") \/ Dst!Refuse \/ Dst!Deliver("on_recv")
           \/ Dst!Close \/ Dst!Return
    PROVE  DstTyped'
<1> USE BoundsAssumption DEF DstTyped, Calling
<1>1. CASE UNCHANGED dst_vars
  BY <1>1 DEF dst_vars
<1>2. CASE Dst!Introduce("on_connect") \/ Dst!Refuse \/ Dst!Close
  BY <1>2 DEF Dst!Introduce, Dst!Refuse, Dst!Close
<1>3. CASE Dst!Return
  BY <1>3 DEF Dst!Return
<1>4. CASE Dst!Deliver("on_recv")
  BY <1>4 DEF Dst!Deliver
<1> QED
  BY <1>1, <1>2, <1>3, <1>4

LEMMA SidesStep ==
    ASSUME SidesTyped, Next
    PROVE  SidesTyped'
<1> USE DEF SidesTyped
<1>1. \/ UNCHANGED src_vars
      \/ Src!Introduce("on_accept") \/ Src!Deliver("on_recv") \/ Src!Close
      \/ Src!Return
  BY DEF Next, Library, SrcThread, DstThread, Step, Torn, UseAfterDelete, Ends, Within,
         on_accept, on_connect, connect_failed, handle_recv, on_close, create_connection,
         CreateFails, set_user_data, greet, join, flush, refused, check, copy,
         recv_buffer_data, send_buffer_fill, recv_buffer_drop, StrangerCloses, reset,
         look, delete, Return, Sides
<1>2. \/ UNCHANGED dst_vars
      \/ Dst!Introduce("on_connect") \/ Dst!Refuse \/ Dst!Deliver("on_recv") \/ Dst!Close
      \/ Dst!Return
  BY DEF Next, Library, SrcThread, DstThread, Step, Torn, UseAfterDelete, Ends, Within,
         on_accept, on_connect, connect_failed, handle_recv, on_close, create_connection,
         CreateFails, set_user_data, greet, join, flush, refused, check, copy,
         recv_buffer_data, send_buffer_fill, recv_buffer_drop, StrangerCloses, reset,
         look, delete, Return, Sides
<1>3. SrcTyped'
  BY <1>1, SrcStep
<1>4. DstTyped'
  BY <1>2, DstStep
<1> QED
  BY <1>3, <1>4

\* A callback returns: its thread has no step, and its connection no callback.
LEMMA Returns ==
    ASSUME SidesTyped, NEW t \in Sides, NEW v \in BOOLEAN, Return(t, v)
    PROVE  /\ at' = [at EXCEPT ![t] = "none"]
           /\ ActiveOf(t) # "none" /\ ActiveOf(t)' = "none"
           /\ ActiveOf(Other(t))' = ActiveOf(Other(t))
           /\ PhaseOf(t)' = PhaseOf(t) /\ PhaseOf(Other(t))' = PhaseOf(Other(t))
           /\ src_phase' = src_phase /\ dst_phase' = dst_phase
           /\ src_late' = src_late /\ dst_late' = dst_late
           /\ t = "src" => UNCHANGED dst_vars
           /\ t = "dst" => UNCHANGED src_vars
BY DEF Return, Goes, ActiveOf, PhaseOf, Other, Sides, Src!Return, Dst!Return, src_vars, dst_vars

\* It does not hold the mutex.
LEMMA ReturnTyped ==
    ASSUME SidesTyped, ThreadsTyped, NEW t \in Sides, NEW v \in BOOLEAN, Return(t, v),
           at[t] # "look", mtx' = mtx, subject' = subject
    PROVE  ThreadsTyped'
<1>1. \A u \in Sides : u # t => u = Other(t)
  BY DEF Sides, Other
<1> QED
  BY <1>1, Returns DEF ThreadsTyped, Places

\* A thread goes on in its callback, without the mutex.
LEMMA OnwardTyped ==
    ASSUME ThreadsTyped, NEW t \in Sides, NEW step \in Places, Goes(t, step),
           step \notin {"none", "look"}, at[t] \notin {"none", "look"},
           UNCHANGED <<src_vars, dst_vars, mtx>>, subject' \in [Sides -> Sides]
    PROVE  ThreadsTyped'
BY DEF ThreadsTyped, Goes, ActiveOf, src_vars, dst_vars

LEMMA ThreadsStep ==
    ASSUME SidesTyped, PairTyped, ThreadsTyped, Next
    PROVE  ThreadsTyped'
<1> USE DEF SidesTyped, PairTyped, ThreadsTyped, SrcTyped, DstTyped, Sides, Places, RecvSteps,
            ActiveOf, Goes, Within, Local, pairVars, localVars, byteVars, src_vars, dst_vars
<1>1. CASE on_accept
  BY <1>1 DEF on_accept, Src!Introduce
<1>2. CASE on_connect
  BY <1>2 DEF on_connect, Dst!Introduce
<1>3. CASE connect_failed
  BY <1>3 DEF connect_failed, Dst!Refuse
<1>4. ASSUME NEW c \in Sides, handle_recv(c)
      PROVE  ThreadsTyped'
  BY <1>4 DEF handle_recv, on_recv, Src!Deliver, Dst!Deliver
<1>5. ASSUME NEW c \in Sides, on_close(c)
      PROVE  ThreadsTyped'
  BY <1>5 DEF on_close, Src!Close, Dst!Close
<1>6. CASE create_connection
  BY <1>6 DEF create_connection
<1>7. CASE CreateFails
  BY <1>7 DEF CreateFails, Return, Src!Return
<1>8. CASE set_user_data
  BY <1>8 DEF set_user_data, Return, Src!Return
<1>9. CASE greet
  BY <1>9 DEF greet
<1>10. CASE join
  BY <1>10 DEF join, enter
<1>11. CASE flush
  <2> HIDE DEF SidesTyped, PairTyped, ThreadsTyped, SrcTyped, DstTyped, ActiveOf, Goes
  <2>1. CASE field["src"]
    <3>1. Goes("dst", "check") /\ subject' = [subject EXCEPT !["dst"] = "src"]
      BY <1>11, <2>1 DEF flush, on_recv
    <3>2. at["dst"] = "flush" /\ UNCHANGED <<src_vars, dst_vars, mtx>>
      BY <1>11, <2>1 DEF flush
    <3>3. subject' \in [Sides -> Sides]
      BY <3>1 DEF ThreadsTyped
    <3> QED
      BY <3>1, <3>2, <3>3, OnwardTyped
  <2>2. CASE ~field["src"]
    <3>1. at["dst"] = "flush" /\ UNCHANGED <<mtx, subject>> /\ Return("dst", FALSE)
      BY <1>11, <2>2 DEF flush
    <3> QED
      BY <3>1, ReturnTyped
  <2> QED
    BY <2>1, <2>2
<1>12. CASE refused
  BY <1>12 DEF refused, Return, Dst!Return
<1>13. ASSUME NEW t \in Sides, check(t)
       PROVE  ThreadsTyped'
  <2>1. at[t] = "check" /\ UNCHANGED <<mtx, subject>> /\ subject' \in [Sides -> Sides]
    BY <1>13 DEF check
  <2>2. Return(t, FALSE) \/ (Goes(t, "copy") /\ UNCHANGED <<src_vars, dst_vars>>)
    BY <1>13 DEF check
  <2>3. CASE Return(t, FALSE)
    <3> HIDE DEF SidesTyped, ThreadsTyped
    <3> QED
      BY <2>1, <2>3, ReturnTyped
  <2>4. CASE Goes(t, "copy") /\ UNCHANGED <<src_vars, dst_vars>>
    <3> HIDE DEF SidesTyped, ThreadsTyped, Goes
    <3> QED
      BY <2>1, <2>4, OnwardTyped
  <2> QED
    BY <2>2, <2>3, <2>4
<1>14. ASSUME NEW t \in Sides, copy(t)
       PROVE  ThreadsTyped'
  <2>1. at[t] = "copy" /\ UNCHANGED <<mtx, subject>> /\ subject' \in [Sides -> Sides]
    BY <1>14 DEF copy
  <2>2. Return(t, TRUE) \/ (Goes(t, "measure") /\ UNCHANGED <<src_vars, dst_vars>>)
    BY <1>14 DEF copy
  <2>3. CASE Return(t, TRUE)
    <3> HIDE DEF SidesTyped, ThreadsTyped
    <3> QED
      BY <2>1, <2>3, ReturnTyped
  <2>4. CASE Goes(t, "measure") /\ UNCHANGED <<src_vars, dst_vars>>
    <3> HIDE DEF SidesTyped, ThreadsTyped, Goes
    <3> QED
      BY <2>1, <2>4, OnwardTyped
  <2> QED
    BY <2>2, <2>3, <2>4
<1>15. ASSUME NEW t \in Sides, recv_buffer_data(t)
       PROVE  ThreadsTyped'
  BY <1>15 DEF recv_buffer_data
<1>16. ASSUME NEW t \in Sides, send_buffer_fill(t)
       PROVE  ThreadsTyped'
  BY <1>16 DEF send_buffer_fill
<1>17. ASSUME NEW t \in Sides, recv_buffer_drop(t)
       PROVE  ThreadsTyped'
  <2>1. at[t] = "drop" /\ UNCHANGED <<mtx, subject>> /\ \E v \in BOOLEAN : Return(t, v)
    BY <1>17 DEF recv_buffer_drop
  <2> QED
    BY <2>1, ReturnTyped
<1>18. ASSUME NEW t \in Sides, StrangerCloses(t)
       PROVE  ThreadsTyped'
  BY <1>18, ReturnTyped DEF StrangerCloses
<1>19. ASSUME NEW t \in Sides, reset(t)
       PROVE  ThreadsTyped'
  BY <1>19 DEF reset, lock_guard
<1>20. ASSUME NEW t \in Sides, look(t)
       PROVE  ThreadsTyped'
  <2>1. at[t] = "look" /\ mtx' = "free" /\ subject' = subject
    BY <1>20 DEF look
  <2>2. CASE Goes(t, "delete") /\ UNCHANGED <<src_vars, dst_vars>>
    BY <2>1, <2>2
  <2>3. CASE Return(t, TRUE)
    <3>1. \A u \in Sides : u # t => u = Other(t)
      BY DEF Other
    <3> HIDE DEF SidesTyped, PairTyped, SrcTyped, DstTyped, ActiveOf, Goes, src_vars, dst_vars
    <3>2. /\ at' = [at EXCEPT ![t] = "none"] /\ ActiveOf(t)' = "none"
          /\ ActiveOf(Other(t))' = ActiveOf(Other(t))
      BY <2>3, Returns
    <3>3. \A u \in Sides : at'[u] = "none" <=> ActiveOf(u)' = "none"
      BY <3>1, <3>2
    <3>4. \A u \in Sides : u # t => at[u] # "look"
      BY <2>1
    <3> QED
      BY <2>1, <3>2, <3>3, <3>4
  <2> QED
    BY <1>20, <2>2, <2>3 DEF look
<1>21. ASSUME NEW t \in Sides, delete(t)
       PROVE  ThreadsTyped'
  BY <1>21, ReturnTyped DEF delete
<1>22. ASSUME NEW t \in Sides, UseAfterDelete(t) \/ Torn(t)
       PROVE  ThreadsTyped'
  BY <1>22 DEF UseAfterDelete, Torn, Ends
<1> QED
  BY <1>1, <1>2, <1>3, <1>4, <1>5, <1>6, <1>7, <1>8, <1>9, <1>10, <1>11, <1>12, <1>13, <1>14,
     <1>15, <1>16, <1>17, <1>18, <1>19, <1>20, <1>21, <1>22
     DEF Next, Library, SrcThread, DstThread, Step

LEMMA PairStep ==
    ASSUME PairTyped, Next
    PROVE  PairTyped'
<1> USE DEF PairTyped, Sides, Local, pairVars
<1>1. CASE on_accept \/ create_connection \/ CreateFails \/ set_user_data
  BY <1>1 DEF on_accept, create_connection, CreateFails, set_user_data
<1>2. CASE on_connect \/ connect_failed \/ greet \/ join \/ flush \/ refused
  BY <1>2 DEF on_connect, connect_failed, greet, join, enter, flush, on_recv, refused, InRecv
<1>3. ASSUME NEW c \in Sides, handle_recv(c) \/ on_close(c)
      PROVE  PairTyped'
  BY <1>3 DEF handle_recv, on_close, on_recv, InRecv
<1>4. ASSUME NEW t \in Sides,
             \/ check(t) \/ recv_buffer_data(t) \/ send_buffer_fill(t) \/ recv_buffer_drop(t)
             \/ copy(t)
      PROVE  PairTyped'
  BY <1>4 DEF check, recv_buffer_data, send_buffer_fill, recv_buffer_drop, copy
<1>5. ASSUME NEW t \in Sides,
             StrangerCloses(t) \/ reset(t) \/ look(t) \/ delete(t)
      PROVE  PairTyped'
  BY <1>5 DEF StrangerCloses, reset, look, delete, need_release, DstToCome
<1>6. ASSUME NEW t \in Sides, UseAfterDelete(t) \/ Torn(t)
      PROVE  PairTyped'
  BY <1>6 DEF UseAfterDelete, Torn, Ends
<1> QED
  BY <1>1, <1>2, <1>3, <1>4, <1>5, <1>6 DEF Next, Library, SrcThread, DstThread, Step

\* What remains of a buffer is a buffer.
LEMMA ConsumeType ==
    ASSUME NEW S, NEW b \in Seq(S), NEW n \in Nat, n <= Len(b)
    PROVE  consume(b, n) \in Seq(S)
BY DEF consume

\* Steps that touch no bytes, and leave what a thread saw.
LEMMA BytesLeft ==
    ASSUME Next, ~\E t \in Sides : \/ handle_recv(t) \/ recv_buffer_data(t)
                                   \/ send_buffer_fill(t) \/ recv_buffer_drop(t)
    PROVE  UNCHANGED <<data, byteVars>>
BY DEF Next, Library, SrcThread, DstThread, Step, Sides, Torn, UseAfterDelete, Ends, Local, localVars,
       byteVars, on_accept, on_connect, connect_failed, on_close, create_connection, CreateFails,
       set_user_data, greet, join, flush, refused, check, copy, StrangerCloses, reset, look, delete

LEMMA BytesStep ==
    ASSUME BytesTyped, ThreadsTyped, Next
    PROVE  BytesTyped'
<1>1. CASE UNCHANGED <<data, byteVars>>
  BY <1>1 DEF BytesTyped, byteVars
<1>2. ASSUME NEW c \in Sides, handle_recv(c)
      PROVE  BytesTyped'
  <2>1. arrived[c] + 1 \in Numbers /\ m_recv_buffer[c] \in Seq(Numbers)
    BY <1>2, BoundsAssumption DEF handle_recv, BytesTyped, Numbers
  <2>2. Append(m_recv_buffer[c], arrived[c] + 1) \in Seq(Numbers)
    BY <2>1
  <2>3. /\ UNCHANGED <<data, relayed>>
        /\ arrived' = [arrived EXCEPT ![c] = arrived[c] + 1]
        /\ m_recv_buffer' = [m_recv_buffer EXCEPT ![c] = Append(m_recv_buffer[c], arrived[c] + 1)]
    BY <1>2 DEF handle_recv
  <2> QED
    BY <2>1, <2>2, <2>3 DEF BytesTyped
<1>3. ASSUME NEW t \in Sides, recv_buffer_data(t)
      PROVE  BytesTyped'
  BY <1>3 DEF recv_buffer_data, BytesTyped, ThreadsTyped, byteVars
<1>4. ASSUME NEW t \in Sides, send_buffer_fill(t)
      PROVE  BytesTyped'
  <2>1. relayed[subject[t]] \o data[t] \in Seq(Numbers)
    BY DEF BytesTyped, ThreadsTyped
  <2>2. /\ UNCHANGED <<data, m_recv_buffer, arrived>>
        /\ relayed' = [relayed EXCEPT ![subject[t]] = relayed[subject[t]] \o data[t]]
    BY <1>4 DEF send_buffer_fill, localVars
  <2> QED
    BY <2>1, <2>2 DEF BytesTyped
<1>5. ASSUME NEW t \in Sides, recv_buffer_drop(t)
      PROVE  BytesTyped'
  <2>1. m_recv_buffer[subject[t]] \in Seq(Numbers) /\ data[t] \in Seq(Numbers)
    BY DEF BytesTyped, ThreadsTyped
  <2> DEFINE b == m_recv_buffer[subject[t]]
             n == Len(data[t])
  <2>2. Len(b) \in Nat /\ n \in Nat
    BY <2>1
  <2>3. m_recv_buffer' \in [Sides -> Seq(Numbers)]
    <3>1. CASE m_recv_buffer' = m_recv_buffer
      BY <3>1 DEF BytesTyped
    <3>2. CASE m_recv_buffer' # m_recv_buffer
      <4>1. ~(Len(b) < n) /\ m_recv_buffer' = [m_recv_buffer EXCEPT ![subject[t]] = consume(b, n)]
        BY <1>5, <3>2 DEF recv_buffer_drop
      <4>2. n <= Len(b) /\ b \in Seq(Numbers)
        BY <2>1, <2>2, <4>1
      <4>3. consume(b, n) \in Seq(Numbers)
        <5> HIDE DEF b, n
        <5> QED
          BY <2>2, <4>2, ConsumeType
      <4> QED
        BY <4>1, <4>3 DEF BytesTyped, ThreadsTyped
    <3> QED
      BY <3>1, <3>2
  <2>4. data' = [data EXCEPT ![t] = <<>>] /\ UNCHANGED <<arrived, relayed>>
    BY <1>5 DEF recv_buffer_drop
  <2> QED
    BY <2>3, <2>4 DEF BytesTyped
<1> QED
  BY <1>1, <1>2, <1>3, <1>4, <1>5, BytesLeft

LEMMA InitTyped == Init => TypeOK
<1> SUFFICES ASSUME Init PROVE TypeOK
  OBVIOUS
<1>1. SidesTyped
  <2>1. SrcTyped
    <3>1. src_late = [c \in {"on_recv", "on_send"} |-> 0] /\ 0 \in 0..MaxLate
      BY BoundsAssumption DEF Init, Src!Init, Src!DataCallbacks
    <3>2. src_phase = "new" /\ src_active = "none" /\ src_deaf = FALSE
      BY DEF Init, Src!Init
    <3> QED
      BY <3>1, <3>2 DEF SrcTyped, Calling
  <2>2. DstTyped
    <3>1. dst_late = [c \in {"on_recv", "on_send"} |-> 0] /\ 0 \in 0..MaxLate
      BY BoundsAssumption DEF Init, Dst!Init, Dst!DataCallbacks
    <3>2. dst_phase = "new" /\ dst_active = "none" /\ dst_deaf = FALSE
      BY DEF Init, Dst!Init
    <3> QED
      BY <3>1, <3>2 DEF DstTyped, Calling
  <2> QED
    BY <2>1, <2>2 DEF SidesTyped
<1>2. PairTyped
  BY DEF Init, PairTyped
<1>3. ThreadsTyped
  BY DEF Init, ThreadsTyped, Sides, ActiveOf, Places, Src!Init, Dst!Init
<1>4. BytesTyped
  BY BoundsAssumption DEF Init, BytesTyped, Numbers
<1> QED
  BY <1>1, <1>2, <1>3, <1>4, TypeParts

LEMMA TypeStep == TypeOK /\ Next => TypeOK'
<1> SUFFICES ASSUME TypeOK, Next PROVE TypeOK'
  OBVIOUS
<1>1. SidesTyped' /\ PairTyped' /\ ThreadsTyped' /\ BytesTyped'
  BY TypeParts, SidesStep, PairStep, ThreadsStep, BytesStep
<1> QED
  BY <1>1, TypeParts, PTL

-----------------------------------------------------------------------------
(* How far each connection is, and who is in the pair.                     *)

LateOf(t) == IF t = "src" THEN src_late ELSE dst_late

\* The client's connection: introduced with the pair, then the attempt, and the
\* user data last.
SrcStages ==
    /\ src_phase # "failed" /\ subject["src"] = "src"
    /\ src_phase = "new" => at["src"] = "none" /\ pair = "none" /\ ~attempt /\ ~user_data["src"]
    /\ at["src"] \notin {"greet", "join", "flush", "refused"}
    /\ at["src"] = "create" => pair = "live" /\ ~attempt
    /\ at["src"] = "keep" => attempt
    /\ at["src"] \in {"create", "keep"} => src_phase = "open"
    /\ user_data["src"] => attempt

\* The server's: nothing before the attempt, and one answer to it.
DstStages ==
    /\ dst_phase = "new" => at["dst"] = "none"
    /\ ~attempt => dst_phase = "new"
    /\ dst_phase = "failed" => at["dst"] \in {"none", "refused"}
    /\ at["dst"] \notin {"create", "keep"}
    /\ at["dst"] \in {"greet", "join", "flush"} => dst_phase = "open"
    /\ at["dst"] = "refused" <=> dst_active = "connect_failed"
    /\ dst_active = "connect_failed" => dst_phase = "failed"

\* A callback of src, and one of dst, begins.
LEMMA SrcBegins ==
    ASSUME SidesTyped, Next
    PROVE  \/ src_active' = src_active /\ src_phase' = src_phase /\ src_late' = src_late
           \/ on_accept \/ handle_recv("src") \/ on_close("src")
           \/ /\ src_active # "none" /\ src_active' = "none"
              /\ src_phase' = src_phase /\ src_late' = src_late
BY DEF Next, Library, SrcThread, DstThread, Step, Torn, UseAfterDelete, Ends, Within,
       on_connect, connect_failed, handle_recv, on_close, create_connection,
       CreateFails, set_user_data, greet, join, flush, refused, check, copy,
       recv_buffer_data, send_buffer_fill, recv_buffer_drop, StrangerCloses, reset,
       look, delete, Return, Sides, Src!Return, src_vars

LEMMA DstBegins ==
    ASSUME SidesTyped, Next
    PROVE  \/ dst_active' = dst_active /\ dst_phase' = dst_phase /\ dst_late' = dst_late
           \/ on_connect \/ connect_failed \/ handle_recv("dst") \/ on_close("dst")
           \/ /\ dst_active # "none" /\ dst_active' = "none"
              /\ dst_phase' = dst_phase /\ dst_late' = dst_late
BY DEF Next, Library, SrcThread, DstThread, Step, Torn, UseAfterDelete, Ends, Within,
       on_accept, handle_recv, on_close, create_connection,
       CreateFails, set_user_data, greet, join, flush, refused, check, copy,
       recv_buffer_data, send_buffer_fill, recv_buffer_drop, StrangerCloses, reset,
       look, delete, Return, Sides, Dst!Return, dst_vars

\* How a thread gets on.
From(t, here, there) == at[t] = here /\ at'[t] = there

Turns(t) ==
    \/ at'[t] = at[t]
    \/ at[t] \notin {"none", "greet", "join", "measure", "fill", "drop"} /\ at'[t] = "none"
    \/ From(t, "check", "copy") /\ user_data[subject[t]]
    \/ From(t, "copy", "measure")
    \/ From(t, "measure", "fill") /\ recv_buffer_data(t)
    \/ From(t, "fill", "drop") /\ send_buffer_fill(t)
    \/ From(t, "drop", "none") /\ recv_buffer_drop(t)
    \/ From(t, "close", "look") /\ reset(t)
    \/ From(t, "look", "delete") /\ look(t)
    \/ From(t, "none", "check") /\ handle_recv(t)
    \/ From(t, "none", "close") /\ on_close(t)
    \/ t = "src" /\ From(t, "none", "create") /\ on_accept
    \/ t = "src" /\ From(t, "create", "keep") /\ create_connection
    \/ t = "dst" /\ From(t, "none", "greet") /\ on_connect
    \/ t = "dst" /\ From(t, "none", "refused") /\ connect_failed
    \/ t = "dst" /\ From(t, "greet", "join") /\ greet
    \/ t = "dst" /\ From(t, "join", "flush") /\ join
    \/ t = "dst" /\ From(t, "flush", "check") /\ flush /\ field["src"]

LEMMA ThreadMoves ==
    ASSUME SidesTyped, ThreadsTyped, Next, NEW t \in Sides
    PROVE  Turns(t)
<1> USE DEF Turns, From, ThreadsTyped, ActiveOf, Goes, Sides
<1>1. ASSUME NEW u \in Sides, NEW v \in BOOLEAN, Return(u, v),
             at[u] \notin {"none", "greet", "join", "measure", "fill", "drop"}
      PROVE  Turns(t)
  BY <1>1 DEF Return
<1>2. CASE on_accept \/ create_connection \/ on_connect \/ connect_failed \/ greet \/ join
  BY <1>2 DEF on_accept, create_connection, on_connect, connect_failed, greet, join,
              Src!Introduce, Dst!Introduce, Dst!Refuse
<1>3. CASE flush
  BY <1>1, <1>3 DEF flush, on_recv
<1>4. CASE CreateFails \/ set_user_data \/ refused
  BY <1>1, <1>4 DEF CreateFails, set_user_data, refused
<1>5. ASSUME NEW c \in Sides, handle_recv(c) \/ on_close(c)
      PROVE  Turns(t)
  BY <1>5 DEF handle_recv, on_recv, on_close, Src!Deliver, Dst!Deliver, Src!Close, Dst!Close
<1>6. ASSUME NEW c \in Sides, check(c) \/ copy(c)
      PROVE  Turns(t)
  BY <1>1, <1>6 DEF check, copy
<1>7. ASSUME NEW c \in Sides, recv_buffer_data(c) \/ send_buffer_fill(c) \/ recv_buffer_drop(c)
      PROVE  Turns(t)
  BY <1>7 DEF recv_buffer_data, send_buffer_fill, recv_buffer_drop, Return
<1>8. ASSUME NEW c \in Sides, StrangerCloses(c) \/ look(c) \/ delete(c) \/ reset(c)
      PROVE  Turns(t)
  BY <1>1, <1>8 DEF StrangerCloses, look, delete, reset
<1>9. ASSUME NEW c \in Sides, UseAfterDelete(c) \/ Torn(c)
      PROVE  Turns(t)
  BY <1>9 DEF UseAfterDelete, Torn, Ends
<1> QED
  BY <1>2, <1>3, <1>4, <1>5, <1>6, <1>7, <1>8, <1>9
     DEF Next, Library, SrcThread, DstThread, Step

\* What becomes of the pair, its two fields and the rest that callbacks share.
PairTurns ==
    /\ \/ pair' = pair
       \/ on_accept /\ pair' = "live"
       \/ CreateFails
       \/ \E c \in Sides : delete(c)
    /\ \/ field' = field
       \/ on_accept /\ field' = [field EXCEPT !["src"] = TRUE]
       \/ join /\ field' = [field EXCEPT !["dst"] = TRUE]
       \/ \E c \in Sides : reset(c) /\ field' = [field EXCEPT ![c] = FALSE]
    /\ \/ user_data' = user_data
       \/ set_user_data /\ user_data' = [user_data EXCEPT !["src"] = TRUE]
       \/ greet /\ user_data' = [user_data EXCEPT !["dst"] = TRUE]
    /\ attempt' = attempt \/ (create_connection /\ attempt')
    /\ early' = early \/ (early' /\ look("src"))
    /\ subject' = subject \/ (\E c \in Sides : handle_recv(c) /\ subject' = [subject EXCEPT ![c] = c])
       \/ (flush /\ subject' = [subject EXCEPT !["dst"] = "src"])

LEMMA PairMoves ==
    ASSUME PairTyped, Next
    PROVE  PairTurns
<1> USE DEF PairTurns, PairTyped, Sides, pairVars, Local, localVars
<1>1. CASE on_accept \/ create_connection \/ CreateFails \/ set_user_data
  BY <1>1 DEF on_accept, create_connection, CreateFails, set_user_data
<1>2. CASE on_connect \/ connect_failed \/ greet \/ join \/ flush \/ refused
  BY <1>2 DEF on_connect, connect_failed, greet, join, enter, flush, on_recv, refused
<1>3. ASSUME NEW c \in Sides, handle_recv(c) \/ on_close(c)
      PROVE  PairTurns
  BY <1>3 DEF handle_recv, on_close, on_recv
<1>4. ASSUME NEW t \in Sides,
             \/ check(t) \/ recv_buffer_data(t) \/ send_buffer_fill(t) \/ recv_buffer_drop(t)
             \/ copy(t)
      PROVE  PairTurns
  BY <1>4 DEF check, recv_buffer_data, send_buffer_fill, recv_buffer_drop, copy
<1>5. ASSUME NEW t \in Sides, StrangerCloses(t) \/ reset(t) \/ delete(t)
      PROVE  PairTurns
  BY <1>5 DEF StrangerCloses, reset, delete
<1>6. ASSUME NEW t \in Sides, look(t)
      PROVE  PairTurns
  BY <1>6 DEF look
<1>7. ASSUME NEW t \in Sides, UseAfterDelete(t) \/ Torn(t)
      PROVE  PairTurns
  BY <1>7 DEF UseAfterDelete, Torn, Ends
<1> QED
  BY <1>1, <1>2, <1>3, <1>4, <1>5, <1>6, <1>7 DEF Next, Library, SrcThread, DstThread, Step

LEMMA DstStagesStep ==
    ASSUME TypeOK, DstStages, Next
    PROVE  DstStages'
<1>1. SidesTyped /\ ThreadsTyped /\ SidesTyped' /\ ThreadsTyped'
  BY TypeParts, SidesStep, PairStep, ThreadsStep
<1>2. Turns("dst")
  BY <1>1, ThreadMoves DEF Sides
<1>3. attempt' = attempt \/ attempt'
  BY PairMoves, TypeParts DEF PairTurns
<1> USE DEF DstStages, Sides, ThreadsTyped, ActiveOf
<1>4. CASE on_connect
  BY <1>1, <1>3, <1>4 DEF on_connect, Dst!Introduce, Goes
<1>5. CASE connect_failed
  BY <1>1, <1>3, <1>5 DEF connect_failed, Dst!Refuse, Goes
<1>6. CASE handle_recv("dst")
  BY <1>1, <1>3, <1>6 DEF handle_recv, on_recv, Dst!Deliver, Goes
<1>7. CASE on_close("dst")
  BY <1>1, <1>3, <1>7 DEF on_close, Dst!Close, Goes
<1>8. CASE dst_phase' = dst_phase /\ dst_active' = dst_active
  BY <1>1, <1>2, <1>3, <1>8 DEF Turns, From
<1>9. CASE dst_phase' = dst_phase /\ dst_active # "none" /\ dst_active' = "none"
  BY <1>1, <1>3, <1>9
<1> QED
  BY <1>1, <1>4, <1>5, <1>6, <1>7, <1>8, <1>9, DstBegins

\* A connection that goes, and one that has data shown, knows the pair; and data
\* that comes after on_close is counted as late.
Leaving ==
    \A c \in Sides :
        /\ at[c] \in {"close", "look", "delete"} => PhaseOf(c) = "closed"
        /\ at[c] \in {"look", "delete"} => user_data[c] /\ ~field[c]
        /\ at[c] = "copy" => user_data[subject[c]]
        /\ at[c] \in {"check", "copy"} => PhaseOf(c) = "open" \/ LateOf(c)["on_recv"] > 0

\* A connection goes through its phases between its callbacks.
PhaseTurns(c) ==
    /\ PhaseOf(c)' # PhaseOf(c) => at[c] = "none" /\ at'[c] \in {"create", "greet", "refused", "close"}
    /\ PhaseOf(c) \in {"closed", "failed"} => PhaseOf(c)' = PhaseOf(c)
    /\ on_close(c) => PhaseOf(c) = "open" /\ PhaseOf(c)' = "closed"
    /\ connect_failed /\ c = "dst" => PhaseOf(c) = "new"
    /\ LateOf(c)["on_recv"] > 0 => LateOf(c)'["on_recv"] > 0
    /\ handle_recv(c) => PhaseOf(c)' = "open" \/ LateOf(c)'["on_recv"] > 0

LEMMA PhaseMoves ==
    ASSUME TypeOK, Next, NEW c \in Sides
    PROVE  PhaseTurns(c)
<1>1. SidesTyped /\ ThreadsTyped /\ ThreadsTyped'
  BY TypeParts, SidesStep, PairStep, ThreadsStep
<1> USE DEF PhaseOf, LateOf, PhaseTurns, Sides, ThreadsTyped, ActiveOf, Goes
<1>2. CASE c = "src"
  <2>1. src_late["on_recv"] \in 0..MaxLate
    BY <1>1 DEF SidesTyped, SrcTyped
  <2>2. CASE on_accept
    BY <1>1, <1>2, <2>2 DEF on_accept, Src!Introduce, handle_recv, on_close, on_recv
  <2>3. CASE handle_recv("src")
    BY <1>1, <1>2, <2>1, <2>3, BoundsAssumption
       DEF handle_recv, on_recv, Src!Deliver, on_close, SidesTyped, SrcTyped
  <2>4. CASE on_close("src")
    BY <1>1, <1>2, <2>4 DEF on_close, Src!Close, handle_recv, on_recv
  <2>5. CASE /\ src_phase' = src_phase /\ src_late' = src_late
             /\ ~handle_recv("src") /\ ~on_close("src")
    BY <1>2, <2>5
  <2> QED
    BY <1>1, SrcBegins, <2>2, <2>3, <2>4, <2>5
<1>3. CASE c = "dst"
  <2>1. dst_late["on_recv"] \in 0..MaxLate
    BY <1>1 DEF SidesTyped, DstTyped
  <2>2. connect_failed => dst_phase = "new"
    BY DEF connect_failed, Dst!Refuse
  <2>3. CASE on_connect
    <3>1. ~on_close("dst") /\ ~handle_recv("dst")
      BY <1>1, <2>3 DEF on_connect, Dst!Introduce, handle_recv, on_close, on_recv
    <3> QED
      BY <1>1, <1>3, <2>2, <2>3, <3>1 DEF on_connect, Dst!Introduce
  <2>4. CASE connect_failed
    <3>1. ~on_close("dst") /\ ~handle_recv("dst")
      BY <1>1, <2>4 DEF connect_failed, Dst!Refuse, handle_recv, on_close, on_recv
    <3> QED
      BY <1>1, <1>3, <2>2, <2>4, <3>1 DEF connect_failed, Dst!Refuse
  <2>5. CASE handle_recv("dst")
    <3>1. ~on_close("dst")
      BY <1>1, <2>5 DEF handle_recv, on_close, on_recv
    <3>2. dst_phase' = "open" \/ dst_late'["on_recv"] > 0
      BY <2>1, <2>5, <1>1, BoundsAssumption DEF handle_recv, Dst!Deliver, SidesTyped, DstTyped
    <3>3. dst_phase' = dst_phase /\ (dst_late["on_recv"] > 0 => dst_late'["on_recv"] > 0)
      BY <2>1, <2>5, <1>1, BoundsAssumption DEF handle_recv, Dst!Deliver, SidesTyped, DstTyped
    <3> QED
      BY <1>3, <2>2, <3>1, <3>2, <3>3
  <2>6. CASE on_close("dst")
    <3>1. ~handle_recv("dst")
      BY <1>1, <2>6 DEF on_close, handle_recv, on_recv
    <3> QED
      BY <1>1, <1>3, <2>2, <2>6, <3>1 DEF on_close, Dst!Close
  <2>7. CASE /\ dst_phase' = dst_phase /\ dst_late' = dst_late
             /\ ~handle_recv("dst") /\ ~on_close("dst")
    BY <1>3, <2>2, <2>7
  <2> QED
    BY <1>1, DstBegins, <2>3, <2>4, <2>5, <2>6, <2>7
<1> QED
  BY <1>2, <1>3

\* Once user data is set, it stays, and a field is set only when its connection
\* enters the pair.
LEMMA FieldMoves ==
    ASSUME TypeOK, Next, NEW c \in Sides
    PROVE  /\ user_data[c] => user_data'[c]
           /\ field'[c] /\ ~field[c] => at'[c] \in {"create", "flush"}
           /\ field[c] /\ ~field'[c] => From(c, "close", "look")
           /\ subject'[c] # subject[c] => at'[c] = "check"
<1>1. PairTyped /\ ThreadsTyped /\ PairTurns
  BY TypeParts, PairMoves
<1> USE DEF PairTurns, PairTyped, ThreadsTyped, Sides, Goes
<1>2. user_data[c] => user_data'[c]
  BY <1>1
<1>3. field'[c] /\ ~field[c] => at'[c] \in {"create", "flush"}
  BY <1>1 DEF on_accept, join
<1>4. field[c] /\ ~field'[c] => From(c, "close", "look")
  BY <1>1 DEF on_accept, join, reset, From
<1>5. subject'[c] # subject[c] => at'[c] = "check"
  <2>1. ASSUME NEW b \in Sides, handle_recv(b)
        PROVE  at' = [at EXCEPT ![b] = "check"]
    BY <2>1 DEF handle_recv, on_recv
  <2>2. ASSUME flush, subject' = [subject EXCEPT !["dst"] = "src"], subject'["dst"] # subject["dst"]
        PROVE  at' = [at EXCEPT !["dst"] = "check"]
    BY <2>2 DEF flush, on_recv
  <2> QED
    BY <1>1, <2>1, <2>2
<1> QED
  BY <1>2, <1>3, <1>4, <1>5

LEMMA LeavingStep ==
    ASSUME TypeOK, DstStages, Leaving, Next
    PROVE  Leaving'
<1> SUFFICES ASSUME NEW c \in Sides
             PROVE  /\ at'[c] \in {"close", "look", "delete"} => PhaseOf(c)' = "closed"
                    /\ at'[c] \in {"look", "delete"} => user_data'[c] /\ ~field'[c]
                    /\ at'[c] = "copy" => user_data'[subject'[c]]
                    /\ at'[c] \in {"check", "copy"} =>
                          PhaseOf(c)' = "open" \/ LateOf(c)'["on_recv"] > 0
  BY DEF Leaving
<1>1. /\ SidesTyped /\ PairTyped /\ ThreadsTyped /\ Turns(c) /\ PhaseTurns(c)
  BY TypeParts, ThreadMoves, PhaseMoves
<1>2. at'[c] \in {"close", "look", "delete"} => PhaseOf(c)' = "closed"
  BY <1>1 DEF Turns, From, PhaseTurns, Leaving
<1>3. at'[c] \in {"look", "delete"} => user_data'[c] /\ ~field'[c]
  <2>1. at'[c] \in {"look", "delete"} => at[c] \in {"look", "delete"} \/ reset(c)
    BY <1>1 DEF Turns, From
  <2>2. reset(c) => user_data[c] /\ ~field'[c]
    BY <1>1 DEF reset, PairTyped
  <2> QED
    BY <2>1, <2>2, FieldMoves DEF Leaving
<1>4. at'[c] = "copy" => user_data'[subject'[c]]
  <2>1. at'[c] = "copy" => subject'[c] = subject[c] /\ user_data[subject[c]]
    BY <1>1, FieldMoves DEF Turns, From, Leaving
  <2>2. subject[c] \in Sides
    BY <1>1 DEF ThreadsTyped
  <2> QED
    BY <2>1, <2>2, FieldMoves
<1>5. at'[c] \in {"check", "copy"} => PhaseOf(c)' = "open" \/ LateOf(c)'["on_recv"] > 0
  <2>1. at'[c] \in {"check", "copy"} =>
           at[c] \in {"check", "copy"} \/ handle_recv(c) \/ (c = "dst" /\ at[c] = "flush")
    BY <1>1 DEF Turns, From
  <2>2. c = "dst" /\ at[c] = "flush" => PhaseOf(c) = "open"
    BY DEF DstStages, PhaseOf
  <2> QED
    BY <1>1, <2>1, <2>2 DEF PhaseTurns, Leaving
<1> QED
  BY <1>2, <1>3, <1>4, <1>5

LEMMA SrcStagesStep ==
    ASSUME TypeOK, SrcStages, DstStages, Leaving, Next
    PROVE  SrcStages'
<1>1. SidesTyped /\ PairTyped /\ ThreadsTyped /\ SidesTyped' /\ ThreadsTyped'
  BY TypeParts, SidesStep, PairStep, ThreadsStep
<1>2. Turns("src") /\ PairTurns
  BY <1>1, ThreadMoves, PairMoves DEF Sides
<1>3. subject'["src"] = "src"
  BY <1>1, <1>2 DEF PairTurns, SrcStages, ThreadsTyped, Sides
<1>4. /\ src_phase' # "failed"
      /\ src_phase' = "new" => src_phase = "new" /\ src_active' = src_active
      /\ src_phase = "open" /\ src_phase' # "open" => on_close("src")
  <2>1. CASE on_accept
    BY <2>1 DEF on_accept, Src!Introduce
  <2>2. CASE handle_recv("src")
    BY <2>2 DEF handle_recv, Src!Deliver, SrcStages
  <2>3. CASE on_close("src")
    BY <2>3 DEF on_close, Src!Close
  <2>4. CASE src_phase' = src_phase /\ src_active' = src_active
    BY <2>4 DEF SrcStages
  <2>5. CASE src_phase' = src_phase /\ src_active # "none"
    BY <2>5, <1>1 DEF SrcStages, ThreadsTyped, ActiveOf, Sides
  <2> QED
    BY <1>1, SrcBegins, <2>1, <2>2, <2>3, <2>4, <2>5
<1>5. user_data'["src"] => attempt'
  <2>1. attempt => attempt'
    BY <1>2 DEF PairTurns
  <2>2. user_data'["src"] => user_data["src"] \/ set_user_data
    BY <1>1, <1>2 DEF PairTurns, PairTyped, Sides
  <2>3. set_user_data => attempt
    BY DEF set_user_data, SrcStages
  <2> QED
    BY <2>1, <2>2, <2>3 DEF SrcStages
<1>6. src_phase' = "new" => at'["src"] = "none" /\ pair' = "none" /\ ~attempt' /\ ~user_data'["src"]
  <2> SUFFICES ASSUME src_phase' = "new"
               PROVE  at'["src"] = "none" /\ pair' = "none" /\ ~attempt' /\ ~user_data'["src"]
    OBVIOUS
  <2>1. /\ src_phase = "new" /\ src_active' = src_active
        /\ at["src"] = "none" /\ pair = "none" /\ ~attempt /\ ~user_data["src"]
    BY <1>4 DEF SrcStages
  <2>2. at'["src"] = "none"
    BY <1>1, <2>1 DEF ThreadsTyped, ActiveOf, Sides
  <2>3. ~on_accept /\ ~CreateFails /\ ~create_connection /\ ~set_user_data
    BY <1>1, <2>1, <2>2
       DEF on_accept, CreateFails, create_connection, set_user_data, Goes, ThreadsTyped, Sides
  <2>4. \A c \in Sides : ~delete(c)
    BY <2>1 DEF delete
  <2> QED
    BY <1>1, <1>2, <2>1, <2>2, <2>3, <2>4 DEF PairTurns, PairTyped, Sides
<1>7. at'["src"] \notin {"greet", "join", "flush", "refused"}
  BY <1>1, <1>2 DEF Turns, From, SrcStages, ThreadsTyped, Sides
<1>8. at'["src"] = "create" => pair' = "live" /\ ~attempt'
  <2> SUFFICES ASSUME at'["src"] = "create"
               PROVE  pair' = "live" /\ ~attempt'
    OBVIOUS
  <2>1. ~create_connection /\ ~CreateFails /\ (at["src"] = "create" \/ on_accept)
    BY <1>1, <1>2 DEF Turns, From, create_connection, CreateFails, Return, Goes, ThreadsTyped, Sides
  <2>2. CASE on_accept
    BY <1>2, <2>1, <2>2 DEF on_accept, Src!Introduce, SrcStages, PairTurns
  <2>3. CASE at["src"] = "create"
    <3>1. pair = "live" /\ ~attempt
      BY <2>3 DEF SrcStages
    <3>2. ASSUME NEW c \in Sides, delete(c) PROVE FALSE
      <4>1. c = "dst" /\ at[c] = "delete"
        BY <2>3, <3>2 DEF delete, Sides
      <4>2. PhaseOf(c) = "closed"
        BY <4>1 DEF Leaving
      <4> QED
        BY <3>1, <4>1, <4>2 DEF PhaseOf, DstStages
    <3> QED
      BY <1>2, <2>1, <3>1, <3>2 DEF PairTurns
  <2> QED
    BY <2>1, <2>2, <2>3
<1>9. at'["src"] = "keep" => attempt'
  BY <1>1, <1>2 DEF Turns, From, SrcStages, PairTurns, create_connection
<1>10. at'["src"] \in {"create", "keep"} => src_phase' = "open"
  <2>1. at'["src"] \in {"create", "keep"} => at["src"] \in {"create", "keep"} \/ on_accept
    BY <1>2 DEF Turns, From
  <2>2. on_accept => src_phase' = "open"
    BY DEF on_accept, Src!Introduce
  <2>3. on_close("src") => at'["src"] = "close"
    BY <1>1 DEF on_close, Goes, ThreadsTyped, Sides
  <2> QED
    BY <1>4, <2>1, <2>2, <2>3 DEF SrcStages
<1> QED
  BY <1>3, <1>4, <1>5, <1>6, <1>7, <1>8, <1>9, <1>10 DEF SrcStages

\* A connection that has entered the pair is in it until it has left.
Present ==
    \A c \in Sides :
        (PhaseOf(c) = "open" /\ at[c] \notin {"greet", "join"}) \/ at[c] = "close" => field[c]

\* A connection that will not touch the pair any more, but in a late callback.
Gone(c) ==
    PhaseOf(c) \in {"closed", "failed"} /\ at[c] \notin {"close", "look", "delete", "refused"}

\* Who is about to delete the pair is alone with it; and once it is deleted,
\* it was never offered to the server's connection, or both have gone.
Deleting == \A c \in Sides : at[c] = "delete" /\ ~early => Gone(Other(c))
Deleted == pair = "deleted" /\ ~early => ~attempt \/ (Gone("src") /\ Gone("dst"))

LEMMA PresentStep ==
    ASSUME TypeOK, SrcStages, DstStages, Leaving, Present, Next
    PROVE  Present'
<1> SUFFICES ASSUME NEW c \in Sides,
                    \/ PhaseOf(c)' = "open" /\ at'[c] \notin {"greet", "join"}
                    \/ at'[c] = "close"
             PROVE  field'[c]
  BY DEF Present
<1>1. PairTyped /\ ThreadsTyped /\ Turns(c) /\ PhaseTurns(c) /\ PairTurns
  BY TypeParts, ThreadMoves, PhaseMoves, PairMoves
<1>2. at[c] # "close" \/ at'[c] = "close" \/ PhaseOf(c)' # "open"
  BY <1>1 DEF PhaseTurns, Leaving
<1>3. CASE field[c]
  <2>1. ~From(c, "close", "look")
    BY <1>2 DEF From
  <2> QED
    BY <1>3, <2>1, FieldMoves
<1>4. CASE ~field[c]
  <2>1. at[c] # "close" /\ (PhaseOf(c) = "open" => at[c] \in {"greet", "join"})
    BY <1>4 DEF Present
  <2>2. ~on_close(c)
    BY <1>1, <2>1 DEF PhaseTurns, on_close, Src!Close, Dst!Close, Goes, ThreadsTyped, ActiveOf, Sides
  <2>3. at'[c] # "close"
    BY <1>1, <2>1, <2>2 DEF Turns, From
  <2>4. PhaseOf(c)' = "open" /\ at'[c] \notin {"greet", "join"}
    BY <2>3
  <2>5. CASE PhaseOf(c) = "open"
    <3>1. From(c, "join", "flush") /\ join /\ c = "dst"
      BY <1>1, <2>1, <2>4, <2>5 DEF Turns, From, Sides
    <3> QED
      BY <1>1, <3>1 DEF join, enter, PairTyped, Sides
  <2>6. CASE PhaseOf(c) # "open"
    <3>1. at[c] = "none" /\ at'[c] \in {"create", "refused"}
      BY <1>1, <2>3, <2>4, <2>6 DEF PhaseTurns
    <3>2. at'[c] # "refused"
      BY <2>4, DstStagesStep, SrcStagesStep DEF DstStages, SrcStages, PhaseOf, Sides
    <3>3. c = "src" /\ on_accept
      BY <1>1, <3>1, <3>2 DEF Turns, From
    <3> QED
      BY <1>1, <3>3 DEF on_accept, PairTyped, Sides
  <2> QED
    BY <2>5, <2>6
<1> QED
  BY <1>3, <1>4

LEMMA GoneStays ==
    ASSUME TypeOK, Next, NEW c \in Sides, Gone(c)
    PROVE  Gone(c)'
<1>1. Turns(c) /\ PhaseTurns(c)
  BY TypeParts, ThreadMoves, PhaseMoves
<1>2. PhaseOf(c)' = PhaseOf(c) /\ ~on_close(c) /\ ~(connect_failed /\ c = "dst")
  BY <1>1 DEF PhaseTurns, Gone
<1>3. at'[c] \notin {"close", "look", "delete", "refused"}
  BY <1>1, <1>2 DEF Turns, From, Gone
<1> QED
  BY <1>2, <1>3 DEF Gone

LEMMA DeletingStep ==
    ASSUME TypeOK, SrcStages, DstStages, Leaving, Present, Deleting, Next
    PROVE  Deleting'
<1> SUFFICES ASSUME NEW c \in Sides, at'[c] = "delete", ~early'
             PROVE  Gone(Other(c))'
  BY DEF Deleting, Other
<1> DEFINE o == Other(c)
<1>1. /\ SidesTyped /\ PairTyped /\ ThreadsTyped /\ Turns(c) /\ PairTurns
      /\ o \in Sides /\ o # c /\ {c, o} = {"src", "dst"}
  BY TypeParts, ThreadMoves, PairMoves DEF Other, Sides
<1>2. ~early
  BY <1>1 DEF PairTurns, PairTyped
<1>3. CASE at[c] = "delete"
  BY <1>1, <1>2, <1>3, GoneStays DEF Deleting
<1>4. CASE at[c] # "delete"
  <2>1. at[c] = "look" /\ look(c)
    BY <1>1, <1>4 DEF Turns, From
  <2>2. ~field[o]
    BY <1>1, <2>1 DEF look, need_release, Return, Goes, ThreadsTyped
  <2>3. ~(c = "src" /\ DstToCome)
    BY <1>1, <2>1, <2>2 DEF look, need_release, PairTyped
  <2>4. PhaseOf(c) = "closed" /\ attempt
    BY <2>1 DEF Leaving, SrcStages, DstStages, PhaseOf, Sides
  <2>5. at[o] \notin {"look", "delete", "close"}
    <3>1. at[o] # "look"
      BY <1>1, <2>1 DEF ThreadsTyped
    <3>2. at[o] # "delete"
      <4>1. Other(o) = c
        BY DEF Other, Sides
      <4> QED
        BY <1>1, <1>2, <2>1, <4>1 DEF Deleting, Gone
    <3> QED
      BY <1>1, <2>2, <3>1, <3>2 DEF Present
  <2>6. at[o] # "refused"
    BY <1>1, <2>3, <2>4 DEF SrcStages, DstStages, DstToCome, Other
  <2>7. PhaseOf(o) \in {"closed", "failed"}
    <3>1. CASE o = "src"
      <4>1. src_phase # "new"
        BY <2>4 DEF SrcStages
      <4>2. src_phase # "open"
        BY <1>1, <2>2, <3>1 DEF Present, PhaseOf, SrcStages
      <4> QED
        BY <1>1, <3>1, <4>1, <4>2 DEF SidesTyped, SrcTyped, PhaseOf
    <3>2. CASE o = "dst"
      <4>1. dst_phase \notin {"new", "open"}
        BY <1>1, <2>3, <2>4, <3>2 DEF DstToCome
      <4> QED
        BY <1>1, <3>2, <4>1 DEF SidesTyped, DstTyped, PhaseOf
    <3> QED
      BY <1>1, <3>1, <3>2 DEF Sides
  <2>8. Gone(o)
    BY <2>5, <2>6, <2>7 DEF Gone
  <2> QED
    BY <1>1, <2>8, GoneStays
<1> QED
  BY <1>3, <1>4

LEMMA DeletedStep ==
    ASSUME TypeOK, SrcStages, Leaving, Deleting, Deleted, Next
    PROVE  Deleted'
<1> SUFFICES ASSUME pair' = "deleted", ~early'
             PROVE  ~attempt' \/ (Gone("src")' /\ Gone("dst")')
  BY DEF Deleted
<1>1. PairTyped /\ ThreadsTyped /\ PairTurns /\ "src" \in Sides /\ "dst" \in Sides
  BY TypeParts, PairMoves DEF Sides
<1>2. ~early
  BY <1>1 DEF PairTurns, PairTyped
<1>3. CASE pair = "deleted"
  <2>1. ~create_connection
    BY <1>3 DEF create_connection, SrcStages
  <2>2. attempt' = attempt
    BY <1>1, <2>1 DEF PairTurns
  <2> QED
    BY <1>1, <1>2, <1>3, <2>2, GoneStays DEF Deleted
<1>4. CASE CreateFails
  BY <1>4 DEF CreateFails, SrcStages
<1>5. ASSUME NEW c \in Sides, delete(c)
      PROVE  Gone("src")' /\ Gone("dst")'
  <2>1. at[c] = "delete" /\ at'[c] = "none"
    BY <1>1, <1>5 DEF delete, Return, Goes, ThreadsTyped
  <2>2. Gone(Other(c)) /\ Other(c) \in Sides
    BY <1>2, <2>1 DEF Deleting, Other, Sides
  <2>3. PhaseOf(c)' = "closed"
    BY <2>1, PhaseMoves DEF Leaving, PhaseTurns
  <2>4. Gone(c)'
    BY <2>1, <2>3 DEF Gone
  <2>5. Gone(Other(c))'
    BY <2>2, GoneStays
  <2> QED
    BY <2>4, <2>5 DEF Other, Sides
<1>6. CASE on_accept
  BY <1>1, <1>6 DEF on_accept
<1> QED
  BY <1>1, <1>3, <1>4, <1>5, <1>6 DEF PairTurns

\* Nothing touches a pair that was deleted, but where PairKept says so.
LEMMA KeptStep ==
    ASSUME TypeOK, SrcStages, DstStages, Leaving, Deleted, Next
    PROVE  PairKept'
<1> SUFFICES ASSUME fault' = "deleted", ~early'
             PROVE  \/ at'["src"] \in {"check", "copy"} /\ src_late'["on_recv"] > 0
                    \/ at'["dst"] \in {"check", "copy"} /\ dst_late'["on_recv"] > 0
  BY DEF PairKept
<1>1. PairTyped /\ ThreadsTyped /\ PairTurns
  BY TypeParts, PairMoves
<1>2. PICK t \in Sides : UseAfterDelete(t)
  BY DEF Next, Library, SrcThread, DstThread, Step, Torn, Ends, Sides,
       on_accept, on_connect, connect_failed, handle_recv, on_close, create_connection,
       CreateFails, set_user_data, greet, join, flush, refused, check, copy, Local,
       recv_buffer_data, send_buffer_fill, recv_buffer_drop, StrangerCloses, reset,
       look, delete
<1>3. /\ pair = "deleted" /\ at' = at /\ early' = early
      /\ src_late' = src_late /\ dst_late' = dst_late
      /\ \/ at[t] \in {"greet", "join", "flush", "refused", "copy", "look", "delete"}
         \/ at[t] = "check" /\ user_data[subject[t]]
         \/ at[t] = "close" /\ user_data[t]
  BY <1>2 DEF UseAfterDelete, Ends, Within, src_vars, dst_vars
<1>4. attempt
  <2> SUFFICES ASSUME ~attempt PROVE FALSE
    OBVIOUS
  <2>1. at["dst"] = "none" /\ ~user_data["src"]
    BY DEF SrcStages, DstStages
  <2>2. t = "src"
    BY <1>3, <2>1 DEF Sides
  <2> QED
    BY <1>3, <2>1, <2>2 DEF SrcStages, Leaving, Sides
<1>5. Gone(t)
  BY <1>3, <1>4 DEF Deleted, Sides
<1>6. at[t] \in {"check", "copy"}
  BY <1>3, <1>5 DEF Gone, SrcStages, DstStages, PhaseOf, Sides
<1>7. LateOf(t)["on_recv"] > 0
  BY <1>5, <1>6 DEF Gone, Leaving
<1> QED
  BY <1>3, <1>6, <1>7 DEF LateOf, Sides

-----------------------------------------------------------------------------
(* What is relayed.                                                        *)

\* The bytes that arrived, in their order.
AllOf(n) == [i \in 1..n |-> i]

Dropping(c) == \E t \in Sides : at[t] = "drop" /\ subject[t] = c

\* One thread relays for a connection.  What it has seen is all there is in the
\* buffer; what was relayed and what is in the buffer are all that arrived, but
\* between fill and drop, when what was relayed is.
Relay(c) ==
    /\ ~(InRecv("src", c) /\ InRecv("dst", c))
    /\ \A t \in Sides : at[t] \in {"fill", "drop"} /\ subject[t] = c => data[t] = m_recv_buffer[c]
    /\ Dropping(c) => relayed[c] = AllOf(arrived[c])
    /\ ~Dropping(c) => relayed[c] \o m_recv_buffer[c] = AllOf(arrived[c])

Relaying == ~overlapped => \A c \in Sides : Relay(c)

LEMMA AllNext ==
    ASSUME NEW n \in Nat
    PROVE  /\ AllOf(n) \in Seq(Nat) /\ Len(AllOf(n)) = n
           /\ Append(AllOf(n), n + 1) = AllOf(n + 1)
           /\ SubSeq(AllOf(n), 1, n) = AllOf(n)
BY DEF AllOf

LEMMA ConcatNext ==
    ASSUME NEW r \in Seq(Nat), NEW b \in Seq(Nat), NEW x \in Nat
    PROVE  r \o Append(b, x) = Append(r \o b, x)
OBVIOUS

LEMMA ConcatNone ==
    ASSUME NEW r \in Seq(Nat)
    PROVE  r \o <<>> = r
OBVIOUS

LEMMA ConsumeAll ==
    ASSUME NEW b \in Seq(Nat)
    PROVE  consume(b, Len(b)) = <<>>
BY DEF consume

LEMMA BytesAre ==
    ASSUME BytesTyped, NEW c \in Sides
    PROVE  /\ data[c] \in Seq(Nat) /\ m_recv_buffer[c] \in Seq(Nat)
           /\ relayed[c] \in Seq(Nat) /\ arrived[c] \in Nat
<1>1. \A q \in Seq(Numbers) : q \in Seq(Nat)
  BY BoundsAssumption DEF Numbers
<1> QED
  BY <1>1, BoundsAssumption DEF BytesTyped, Numbers

\* on_recv begins for connection c, called by the library or by flush.
Shown(t, c) == (t = c /\ handle_recv(c)) \/ (t = "dst" /\ c = "src" /\ flush /\ field["src"])

\* Nobody begins to relay for a connection for which another does, unseen.
LEMMA Alone ==
    ASSUME TypeOK, Next, ~overlapped'
    PROVE  /\ ~overlapped
           /\ \A t, c \in Sides : Shown(t, c) => ~InRecv(Other(t), c)
           /\ \A t \in Sides : subject'[t] # subject[t] => \E c \in Sides : Shown(t, c)
<1>1. PairTyped /\ ThreadsTyped /\ PairTurns
  BY TypeParts, PairMoves
<1>2. ASSUME NEW t \in Sides, NEW c \in Sides, Shown(t, c)
      PROVE  overlapped' = (overlapped \/ InRecv(Other(t), c))
  BY <1>2 DEF Shown, handle_recv, flush, on_recv
<1>3. overlapped' = overlapped \/ \E t, c \in Sides : Shown(t, c)
  <2>1. CASE ~(flush /\ field["src"]) /\ \A c \in Sides : ~handle_recv(c)
    BY <2>1 DEF Next, Library, SrcThread, DstThread, Step, Torn, UseAfterDelete, Ends, Local, Sides,
         on_accept, on_connect, connect_failed, on_close, create_connection, CreateFails,
         set_user_data, greet, join, flush, refused, check, copy, recv_buffer_data,
         send_buffer_fill, recv_buffer_drop, StrangerCloses, reset, look, delete
  <2> QED
    BY <2>1 DEF Shown, Sides
<1>4. ~overlapped /\ \A t, c \in Sides : Shown(t, c) => ~InRecv(Other(t), c)
  BY <1>1, <1>2, <1>3 DEF PairTyped, InRecv
<1>5. ASSUME NEW t \in Sides, subject'[t] # subject[t]
      PROVE  \E c \in Sides : Shown(t, c)
  <2>1. CASE \E c \in Sides : handle_recv(c) /\ subject' = [subject EXCEPT ![c] = c]
    BY <1>1, <1>5, <2>1 DEF Shown, ThreadsTyped
  <2>2. CASE flush /\ subject' = [subject EXCEPT !["dst"] = "src"]
    <3>1. field["src"]
      BY <1>5, <2>2 DEF flush
    <3> QED
      BY <1>1, <1>5, <2>2, <3>1 DEF Shown, ThreadsTyped, Sides
  <2> QED
    BY <1>1, <1>5, <2>1, <2>2 DEF PairTurns
<1> QED
  BY <1>4, <1>5

\* Who relays afterwards did so before, or has just begun.
LEMMA RecvMoves ==
    ASSUME TypeOK, Next, ~overlapped', NEW t \in Sides, NEW c \in Sides, InRecv(t, c)'
    PROVE  \/ InRecv(t, c) /\ subject'[t] = subject[t]
           \/ Shown(t, c) /\ ~InRecv(Other(t), c) /\ at'[t] = "check"
<1>1. ThreadsTyped /\ Turns(t)
  BY TypeParts, ThreadMoves
<1>2. CASE \E b \in Sides : Shown(t, b)
  <2>1. PICK b \in Sides : Shown(t, b)
    BY <1>2
  <2>2. at'[t] = "check" /\ subject'[t] = b
    BY <1>1, <2>1 DEF Shown, handle_recv, flush, on_recv, Goes, ThreadsTyped
  <2> QED
    BY <2>1, <2>2, Alone DEF InRecv
<1>3. CASE \A b \in Sides : ~Shown(t, b)
  <2>1. subject'[t] = subject[t]
    BY <1>3, Alone
  <2>2. ~handle_recv(t) /\ ~(t = "dst" /\ flush /\ field["src"])
    BY <1>3 DEF Shown, Sides
  <2> QED
    BY <1>1, <2>1, <2>2 DEF InRecv, Turns, From
<1> QED
  BY <1>2, <1>3

LEMMA OneRelays ==
    ASSUME TypeOK, Next, ~overlapped', NEW c \in Sides, ~(InRecv("src", c) /\ InRecv("dst", c))
    PROVE  ~(InRecv("src", c)' /\ InRecv("dst", c)')
<1> SUFFICES ASSUME InRecv("src", c)', InRecv("dst", c)'
             PROVE  FALSE
  OBVIOUS
<1>1. /\ InRecv("src", c) \/ (Shown("src", c) /\ ~InRecv("dst", c))
      /\ InRecv("dst", c) \/ (Shown("dst", c) /\ ~InRecv("src", c))
  BY RecvMoves DEF Sides, Other
<1>2. ~(Shown("src", c) /\ Shown("dst", c))
  <2>1. ThreadsTyped
    BY TypeParts
  <2>2. ~(handle_recv("src") /\ flush)
    BY <2>1 DEF handle_recv, flush, on_recv, Return, Goes, ThreadsTyped, Sides
  <2>3. ~(handle_recv("src") /\ handle_recv("dst"))
    BY <2>1 DEF handle_recv, Src!Deliver, Dst!Deliver, src_vars, dst_vars
  <2> QED
    BY <2>2, <2>3 DEF Shown
<1> QED
  BY <1>1, <1>2

\* Steps that touch no bytes.
Still == ~\E t \in Sides : \/ handle_recv(t) \/ recv_buffer_data(t)
                           \/ send_buffer_fill(t) \/ recv_buffer_drop(t)

LEMMA StillStep ==
    ASSUME TypeOK, Next, ~overlapped', Still, NEW c \in Sides, Relay(c)
    PROVE  Relay(c)'
<1>1. UNCHANGED <<data, m_recv_buffer, arrived, relayed>>
  BY BytesLeft DEF Still, byteVars
<1>2. ASSUME NEW t \in Sides
      PROVE  /\ at[t] = "drop" <=> at'[t] = "drop"
             /\ at[t] = "fill" <=> at'[t] = "fill"
             /\ at[t] \in {"fill", "drop"} => subject'[t] = subject[t]
  <2>1. Turns(t)
    BY TypeParts, ThreadMoves
  <2>2. at[t] \in {"fill", "drop"} => at'[t] = at[t]
    BY <2>1 DEF Turns, From, Still
  <2>3. at'[t] \in {"fill", "drop"} => at'[t] = at[t]
    BY <2>1 DEF Turns, From, Still
  <2>4. PICK b \in Sides : b = subject'[t]
    BY TypeParts, SidesStep, PairStep, ThreadsStep DEF ThreadsTyped
  <2>5. at[t] \in {"fill", "drop"} => InRecv(t, b)'
    BY <2>2, <2>4 DEF InRecv
  <2>6. at[t] \in {"fill", "drop"} => at'[t] # "check"
    BY <2>2
  <2>7. at[t] \in {"fill", "drop"} => subject'[t] = subject[t]
    BY <2>5, <2>6, RecvMoves
  <2> QED
    BY <2>2, <2>3, <2>7
<1>3. Dropping(c)' <=> Dropping(c)
  BY <1>2 DEF Dropping
<1>4. ~(InRecv("src", c)' /\ InRecv("dst", c)')
  BY OneRelays DEF Relay
<1> QED
  BY <1>1, <1>2, <1>3, <1>4 DEF Relay

\* A byte arrives.
LEMMA ArriveStep ==
    ASSUME TypeOK, Next, ~overlapped', NEW b \in Sides, handle_recv(b), NEW c \in Sides, Relay(c)
    PROVE  Relay(c)'
<1>1. BytesTyped /\ ThreadsTyped
  BY TypeParts
<1>2. /\ at[b] = "none" /\ at' = [at EXCEPT ![b] = "check"]
      /\ subject' = [subject EXCEPT ![b] = b] /\ UNCHANGED <<data, relayed>>
      /\ arrived' = [arrived EXCEPT ![b] = arrived[b] + 1]
      /\ m_recv_buffer' = [m_recv_buffer EXCEPT ![b] = Append(m_recv_buffer[b], arrived[b] + 1)]
  BY <1>1 DEF handle_recv, on_recv, Goes, Src!Deliver, Dst!Deliver, ThreadsTyped, ActiveOf, Sides
<1>3. ~InRecv(Other(b), b)
  BY Alone DEF Shown
<1>4. ~(InRecv("src", c)' /\ InRecv("dst", c)')
  BY OneRelays DEF Relay
<1>5. \A t \in Sides : t # b => at'[t] = at[t] /\ subject'[t] = subject[t] /\ t = Other(b)
  BY <1>1, <1>2 DEF ThreadsTyped, Sides, Other
<1>6. at'[b] = "check"
  BY <1>1, <1>2 DEF ThreadsTyped
<1>7. Dropping(c)' <=> Dropping(c)
  BY <1>2, <1>5, <1>6 DEF Dropping
<1>8. CASE c # b
  <2>1. m_recv_buffer'[c] = m_recv_buffer[c] /\ arrived'[c] = arrived[c] /\ relayed'[c] = relayed[c]
    BY <1>1, <1>2, <1>8 DEF BytesTyped
  <2> QED
    BY <1>2, <1>4, <1>5, <1>6, <1>7, <2>1 DEF Relay
<1>9. CASE c = b
  <2>1. \A t \in Sides : ~(at'[t] \in {"fill", "drop"} /\ subject'[t] = c)
    BY <1>3, <1>5, <1>6, <1>9 DEF InRecv
  <2>2. ~Dropping(c)' /\ ~Dropping(c)
    BY <1>7, <2>1 DEF Dropping
  <2>3. relayed[c] \o m_recv_buffer[c] = AllOf(arrived[c])
    BY <2>2 DEF Relay
  <2>4. /\ m_recv_buffer'[c] = Append(m_recv_buffer[c], arrived[c] + 1)
        /\ arrived'[c] = arrived[c] + 1 /\ relayed'[c] = relayed[c]
    BY <1>1, <1>2, <1>9 DEF BytesTyped
  <2>5. relayed'[c] \o m_recv_buffer'[c] = AllOf(arrived'[c])
    <3> DEFINE r == relayed[c]
               q == m_recv_buffer[c]
               n == arrived[c]
    <3>1. r \in Seq(Nat) /\ q \in Seq(Nat) /\ n \in Nat /\ n + 1 \in Nat
      BY <1>1, BytesAre
    <3>2. r \o q = AllOf(n)
      BY <2>3
    <3> HIDE DEF r, q, n
    <3>3. r \o Append(q, n + 1) = Append(AllOf(n), n + 1)
      BY <3>1, <3>2, ConcatNext
    <3>4. r \o Append(q, n + 1) = AllOf(n + 1)
      BY <3>1, <3>3, AllNext
    <3> QED
      BY <2>4, <3>4 DEF r, q, n
  <2> QED
    BY <1>4, <2>1, <2>2, <2>5 DEF Relay
<1> QED
  BY <1>8, <1>9

\* recv_buffer_data: all that is in the buffer is seen.
LEMMA SeeStep ==
    ASSUME TypeOK, Next, ~overlapped', NEW u \in Sides, recv_buffer_data(u), NEW c \in Sides, Relay(c)
    PROVE  Relay(c)'
<1>1. BytesTyped /\ ThreadsTyped
  BY TypeParts
<1>2. /\ at[u] = "measure" /\ at' = [at EXCEPT ![u] = "fill"]
      /\ UNCHANGED <<subject, m_recv_buffer, arrived, relayed>>
      /\ data' = [data EXCEPT ![u] = m_recv_buffer[subject[u]]]
  BY DEF recv_buffer_data, Goes, byteVars
<1>3. ~(InRecv("src", c)' /\ InRecv("dst", c)')
  BY OneRelays DEF Relay
<1>4. Dropping(c)' <=> Dropping(c)
  BY <1>1, <1>2 DEF Dropping, ThreadsTyped
<1>5. \A t \in Sides : at'[t] \in {"fill", "drop"} /\ subject[t] = c => data'[t] = m_recv_buffer[c]
  BY <1>1, <1>2 DEF Relay, ThreadsTyped, BytesTyped
<1> QED
  BY <1>2, <1>3, <1>4, <1>5 DEF Relay

\* Only one thread is past measure for a connection.
LEMMA OneThread ==
    ASSUME NEW c \in Sides, Relay(c), NEW t \in Sides, NEW u \in Sides,
           InRecv(t, c), InRecv(u, c)
    PROVE  t = u
BY DEF Relay, Sides

\* send_buffer_fill: all that was in the buffer is relayed.
LEMMA FillStep ==
    ASSUME TypeOK, Next, ~overlapped', NEW u \in Sides, send_buffer_fill(u), NEW c \in Sides, Relay(c)
    PROVE  Relay(c)'
<1>1. BytesTyped /\ ThreadsTyped
  BY TypeParts
<1>2. /\ at[u] = "fill" /\ at' = [at EXCEPT ![u] = "drop"]
      /\ UNCHANGED <<subject, data, m_recv_buffer, arrived>>
      /\ relayed' = [relayed EXCEPT ![subject[u]] = relayed[subject[u]] \o data[u]]
  BY DEF send_buffer_fill, Goes, localVars
<1>3. ~(InRecv("src", c)' /\ InRecv("dst", c)')
  BY OneRelays DEF Relay
<1>4. \A t \in Sides : at'[t] \in {"fill", "drop"} /\ subject[t] = c => data[t] = m_recv_buffer[c]
  BY <1>1, <1>2 DEF Relay, ThreadsTyped
<1>5. CASE subject[u] # c
  <2>1. Dropping(c)' <=> Dropping(c)
    BY <1>1, <1>2, <1>5 DEF Dropping, ThreadsTyped
  <2>2. relayed'[c] = relayed[c]
    BY <1>1, <1>2, <1>5 DEF BytesTyped
  <2> QED
    BY <1>2, <1>3, <1>4, <2>1, <2>2 DEF Relay
<1>6. CASE subject[u] = c
  <2>1. ~Dropping(c)
    BY <1>2, <1>6, OneThread DEF Dropping, InRecv
  <2>2. Dropping(c)'
    BY <1>1, <1>2, <1>6 DEF Dropping, ThreadsTyped
  <2>3. relayed'[c] = relayed[c] \o m_recv_buffer[c]
    BY <1>1, <1>2, <1>6 DEF BytesTyped, Relay
  <2> QED
    BY <1>2, <1>3, <1>4, <2>1, <2>2, <2>3 DEF Relay
<1> QED
  BY <1>5, <1>6

\* recv_buffer_drop: the buffer is left empty.
LEMMA DropStep ==
    ASSUME TypeOK, Next, ~overlapped', NEW u \in Sides, recv_buffer_drop(u),
           Relay(subject[u]), NEW c \in Sides, Relay(c)
    PROVE  Relay(c)'
<1>1. BytesTyped /\ ThreadsTyped /\ subject[u] \in Sides
  BY TypeParts DEF ThreadsTyped
<1>2. data[u] = m_recv_buffer[subject[u]] /\ m_recv_buffer[subject[u]] \in Seq(Nat)
  BY <1>1, BytesAre DEF recv_buffer_drop, Relay
<1>3. m_recv_buffer' = [m_recv_buffer EXCEPT ![subject[u]] = <<>>]
  <2>1. ~(Len(m_recv_buffer[subject[u]]) < Len(data[u]))
    BY <1>2
  <2>2. m_recv_buffer' = [m_recv_buffer EXCEPT
            ![subject[u]] = consume(m_recv_buffer[subject[u]], Len(data[u]))]
    BY <2>1 DEF recv_buffer_drop
  <2> QED
    BY <1>2, <2>2, ConsumeAll
<1>4. /\ at[u] = "drop" /\ at' = [at EXCEPT ![u] = "none"]
      /\ UNCHANGED <<subject, arrived, relayed>>
      /\ data' = [data EXCEPT ![u] = <<>>]
  BY DEF recv_buffer_drop, Return, Goes
<1>5. ~(InRecv("src", c)' /\ InRecv("dst", c)')
  BY OneRelays DEF Relay
<1>6. \A t \in Sides : t # u => at'[t] = at[t] /\ data'[t] = data[t]
  BY <1>1, <1>4 DEF ThreadsTyped, BytesTyped
<1>7. at'[u] = "none"
  BY <1>1, <1>4 DEF ThreadsTyped
<1>8. CASE subject[u] # c
  <2>1. m_recv_buffer'[c] = m_recv_buffer[c]
    BY <1>1, <1>3, <1>8 DEF BytesTyped
  <2>2. Dropping(c)' <=> Dropping(c)
    BY <1>4, <1>6, <1>7, <1>8 DEF Dropping
  <2> QED
    BY <1>4, <1>5, <1>6, <1>7, <2>1, <2>2 DEF Relay
<1>9. CASE subject[u] = c
  <2>1. \A t \in Sides : t # u => ~InRecv(t, c)
    BY <1>4, <1>9, OneThread DEF InRecv
  <2>2. \A t \in Sides : ~(at'[t] \in {"fill", "drop"} /\ subject'[t] = c)
    BY <1>4, <1>6, <1>7, <2>1 DEF InRecv
  <2>3. Dropping(c) /\ ~Dropping(c)'
    BY <1>4, <1>9, <2>2 DEF Dropping
  <2>4. m_recv_buffer'[c] = <<>>
    BY <1>1, <1>3, <1>9 DEF BytesTyped
  <2>5. relayed'[c] \o m_recv_buffer'[c] = AllOf(arrived'[c])
    BY <1>1, <1>4, <2>3, <2>4, BytesAre, ConcatNone DEF Relay
  <2> QED
    BY <1>5, <2>2, <2>3, <2>5 DEF Relay
<1> QED
  BY <1>8, <1>9

LEMMA RelayingStep ==
    ASSUME TypeOK, Relaying, Next
    PROVE  Relaying'
<1> SUFFICES ASSUME ~overlapped', NEW c \in Sides
             PROVE  Relay(c)'
  BY DEF Relaying
<1>1. \A b \in Sides : Relay(b)
  BY Alone DEF Relaying
<1>2. ASSUME NEW u \in Sides, recv_buffer_drop(u)
      PROVE  Relay(c)'
  <2>1. subject[u] \in Sides
    BY TypeParts DEF ThreadsTyped
  <2> QED
    BY <1>1, <1>2, <2>1, DropStep
<1> QED
  BY <1>1, <1>2, StillStep, ArriveStep, SeeStep, FillStep DEF Still

-----------------------------------------------------------------------------
(* The inductive invariant, and what follows from it.                      *)

IInv ==
    /\ TypeOK
    /\ SrcStages /\ DstStages /\ Leaving /\ Present
    /\ Deleting /\ Deleted /\ PairKept
    /\ Relaying

LEMMA InitIInv == Init => IInv
<1> SUFFICES ASSUME Init PROVE IInv
  OBVIOUS
<1>1. TypeOK
  BY InitTyped
<1>2. /\ src_phase = "new" /\ src_active = "none" /\ dst_phase = "new" /\ dst_active = "none"
      /\ ~attempt /\ pair = "none" /\ fault = "none"
      /\ \A c \in Sides : /\ ~user_data[c] /\ at[c] = "none" /\ subject[c] = c
                         /\ relayed[c] = <<>> /\ m_recv_buffer[c] = <<>> /\ arrived[c] = 0
  BY DEF Init, Src!Init, Dst!Init
<1>3. SrcStages /\ DstStages
  BY <1>2 DEF SrcStages, DstStages, Sides
<1>4. Leaving /\ Present
  BY <1>2 DEF Leaving, Present, PhaseOf
<1>5. Deleting /\ Deleted /\ PairKept
  BY <1>2 DEF Deleting, Deleted, PairKept
<1>6. Relaying
  <2>1. AllOf(0) = <<>> /\ <<>> \o <<>> = <<>>
    BY AllNext DEF AllOf
  <2> QED
    <3> SUFFICES ASSUME NEW c \in Sides PROVE Relay(c)
      BY DEF Relaying
    <3>1. ~Dropping(c)
      BY <1>2 DEF Dropping
    <3>2. ~InRecv("src", c)
      BY <1>2 DEF InRecv, Sides
    <3>3. relayed[c] \o m_recv_buffer[c] = AllOf(arrived[c])
      BY <1>2, <2>1
    <3> QED
      BY <1>2, <3>1, <3>2, <3>3 DEF Relay
<1> QED
  BY <1>1, <1>3, <1>4, <1>5, <1>6 DEF IInv

LEMMA NextIInv == IInv /\ [Next]_vars => IInv'
<1> SUFFICES ASSUME IInv, [Next]_vars PROVE IInv'
  OBVIOUS
<1>1. CASE Next
  BY <1>1, TypeStep, SrcStagesStep, DstStagesStep, LeavingStep, PresentStep, DeletingStep,
     DeletedStep, KeptStep, RelayingStep DEF IInv
<1>2. CASE UNCHANGED vars
  <2>1. /\ UNCHANGED <<src_phase, src_active, src_late, src_deaf, dst_phase, dst_active, dst_late,
                       dst_deaf>>
        /\ UNCHANGED <<attempt, pair, field, user_data, mtx, at, subject, data>>
        /\ UNCHANGED <<m_recv_buffer, arrived, relayed, asked, early, overlapped, fault>>
    BY <1>2 DEF vars, src_vars, dst_vars, pairVars, localVars, byteVars
  <2>2. TypeOK'
    BY <2>1 DEF IInv, TypeOK, Src!TypeOK, Dst!TypeOK
  <2>3. SrcStages' /\ DstStages' /\ Leaving' /\ Present'
    BY <2>1 DEF IInv, SrcStages, DstStages, Leaving, Present, PhaseOf, LateOf
  <2>4. Deleting' /\ Deleted' /\ PairKept'
    BY <2>1 DEF IInv, Deleting, Deleted, PairKept, Gone, PhaseOf
  <2>5. Relaying'
    BY <2>1 DEF IInv, Relaying, Relay, InRecv, Dropping
  <2> QED
    BY <2>2, <2>3, <2>4, <2>5 DEF IInv
<1> QED
  BY <1>1, <1>2

\* Every reachable state satisfies the inductive invariant: the stages of the
\* two connections, who is in the pair, and what the relaying thread has seen.
THEOREM Inductive == Spec => []IInv
BY InitIInv, NextIInv, PTL DEF Spec

\* The variables keep their types, the mutex is held by the one who looks, and
\* a thread has a step exactly while its connection has a callback.
THEOREM TypeCorrect == Spec => []TypeOK
<1>1. IInv => TypeOK
  BY DEF IInv
<1> QED
  BY <1>1, Inductive, PTL

\* The pair is not used after it was deleted, nor deleted twice, but in a late
\* callback, or after src went before dst was in the pair.
THEOREM AlwaysPairKept == Spec => []PairKept
<1>1. IInv => PairKept
  BY DEF IInv
<1> QED
  BY <1>1, Inductive, PTL

\* What arrives on one connection goes to the other in order and once, however
\* callbacks of the two interleave, unless two of them relay at once.
THEOREM AlwaysRelayExact == Spec => []RelayExact
<1>1. IInv => RelayExact
  <2> SUFFICES ASSUME IInv, ~overlapped, NEW c \in Sides
               PROVE  LET all == [i \in 1..arrived[c] |-> i]
                          busy == \E t \in Sides : at[t] = "drop" /\ subject[t] = c
                      IN IF busy THEN relayed[c] = SubSeq(all, 1, Len(relayed[c]))
                                 ELSE relayed[c] \o m_recv_buffer[c] = all
    BY DEF RelayExact
  <2>1. Relay(c) /\ arrived[c] \in Nat
    BY TypeParts, BytesAre DEF IInv, Relaying
  <2>2. CASE Dropping(c)
    <3>1. relayed[c] = AllOf(arrived[c])
      BY <2>1, <2>2 DEF Relay
    <3>2. Len(relayed[c]) = arrived[c]
      BY <2>1, <3>1, AllNext
    <3>3. relayed[c] = SubSeq(AllOf(arrived[c]), 1, Len(relayed[c]))
      BY <2>1, <3>1, <3>2, AllNext
    <3> QED
      BY <2>2, <3>3 DEF AllOf, Dropping
  <2>3. CASE ~Dropping(c)
    BY <2>1, <2>3 DEF Relay, AllOf, Dropping
  <2> QED
    BY <2>2, <2>3
<1> QED
  BY <1>1, Inductive, PTL

=============================================================================
