------------------------------ MODULE ProxyPair ------------------------------
(***************************************************************************)
(* A pair of connections of the sample SslProxy: the client's, src, which  *)
(* it accepted, and the one to the server, dst, which it makes in return.  *)
(* What arrives on one is filled into the other, when one closes the other *)
(* is closed, and who comes last deletes the pair.                         *)
(*                                                                         *)
(* The callbacks of a connection come as CallbackContract lets them, on    *)
(* the thread of that connection's io_context; src and dst may have        *)
(* different ones.  The code of a callback is cut into steps where it      *)
(* touches the pair or a receive buffer.  connection_pair_t has a mutex,   *)
(* which only on_close takes.  A callback that uses a deleted pair or a    *)
(* null pointer ends the model with a fault.                               *)
(***************************************************************************)
EXTENDS Naturals, Sequences

CONSTANTS
    MaxBytes,       \* bytes that arrive on each connection
    MaxLate         \* late callbacks, as in CallbackContract

ASSUME BoundsAssumption == MaxBytes \in Nat /\ MaxLate \in Nat

VARIABLES
    src_phase, src_active, src_late, src_deaf,
    dst_phase, dst_active, dst_late, dst_deaf,
    attempt,            \* create_connection was called and returned true
    pair,               \* "none", "live" or "deleted"
    field,              \* whether connection_pair_t's src and dst are set
    user_data,          \* which connections know the pair
    mtx,                \* which thread holds the mutex, or "free"
    at,                 \* the step a thread is at in a callback
    subject,            \* the connection that its on_recv is about
    data,               \* what it saw in the receive buffer
    m_recv_buffer,      \* the bytes of each connection, by number
    arrived, relayed,   \* how many came, and what was filled into the other
    asked,              \* close was called
    early,              \* src released a pair that dst was still to enter
    overlapped,         \* two threads were in on_recv for one connection
    fault

src_vars == <<src_phase, src_active, src_late, src_deaf>>
dst_vars == <<dst_phase, dst_active, dst_late, dst_deaf>>
pairVars == <<attempt, pair, field, user_data, mtx>>
localVars == <<subject, data>>
byteVars == <<m_recv_buffer, arrived, relayed>>

vars == <<src_vars, dst_vars, pairVars, at, localVars, byteVars, asked,
          early, overlapped, fault>>

Src == INSTANCE CallbackContract WITH phase <- src_phase, active <- src_active,
                                      late <- src_late, deaf <- src_deaf
Dst == INSTANCE CallbackContract WITH phase <- dst_phase, active <- dst_active,
                                      late <- dst_late, deaf <- dst_deaf

-----------------------------------------------------------------------------
Sides == {"src", "dst"}
Other(c) == IF c = "src" THEN "dst" ELSE "src"
Due(c) == asked[c] \/ IF c = "src" THEN src_deaf ELSE dst_deaf

Init ==
    /\ Src!Init /\ Dst!Init
    /\ attempt = FALSE /\ pair = "none" /\ mtx = "free"
    /\ field = [c \in Sides |-> FALSE] /\ user_data = [c \in Sides |-> FALSE]
    /\ at = [t \in Sides |-> "none"]
    /\ subject = [t \in Sides |-> t] /\ data = [t \in Sides |-> <<>>]
    /\ m_recv_buffer = [c \in Sides |-> <<>>] /\ relayed = [c \in Sides |-> <<>>]
    /\ arrived = [c \in Sides |-> 0]
    /\ asked = [c \in Sides |-> FALSE]
    /\ early = FALSE /\ overlapped = FALSE /\ fault = "none"

\* A thread goes on to a step of its callback.
Goes(t, step) == at' = [at EXCEPT ![t] = step]

\* The callback of thread t returns.
Return(t, value) ==
    /\ IF t = "src"
       THEN Src!Return /\ src_deaf' = (src_deaf \/ ~value) /\ UNCHANGED dst_vars
       ELSE Dst!Return /\ dst_deaf' = (dst_deaf \/ ~value) /\ UNCHANGED src_vars
    /\ Goes(t, "none")

Within == UNCHANGED <<src_vars, dst_vars>>
Local  == UNCHANGED <<localVars, byteVars, early, overlapped, fault>>

-----------------------------------------------------------------------------
(* on_accept, for src.                                                     *)

on_accept ==
    /\ Src!Introduce("on_accept") /\ UNCHANGED dst_vars
    /\ pair' = "live"
    /\ field' = [field EXCEPT !["src"] = TRUE]
    /\ Goes("src", "create")
    /\ Local /\ UNCHANGED <<attempt, user_data, mtx, asked>>

\* From here on the attempt may be answered, before the next step.
create_connection ==
    /\ at["src"] = "create"
    /\ attempt' = TRUE
    /\ Goes("src", "keep")
    /\ Within /\ Local /\ UNCHANGED <<pair, field, user_data, mtx, asked>>

CreateFails ==
    /\ at["src"] = "create"
    /\ pair' = "deleted"
    /\ Return("src", FALSE)
    /\ Local /\ UNCHANGED <<attempt, field, user_data, mtx, asked>>

set_user_data ==
    /\ at["src"] = "keep"
    /\ user_data' = [user_data EXCEPT !["src"] = TRUE]
    /\ Return("src", TRUE)
    /\ Local /\ UNCHANGED <<attempt, pair, field, mtx, asked>>

-----------------------------------------------------------------------------
(* on_connect, for dst, whose identity is the pair.                        *)

on_connect ==
    /\ attempt
    /\ Dst!Introduce("on_connect") /\ UNCHANGED src_vars
    /\ Goes("dst", "greet")
    /\ Local /\ UNCHANGED <<pairVars, asked>>

\* The peer's address is written into the pair.
greet ==
    /\ at["dst"] = "greet" /\ pair = "live"
    /\ user_data' = [user_data EXCEPT !["dst"] = TRUE]
    /\ Goes("dst", "join")
    /\ Within /\ Local /\ UNCHANGED <<attempt, pair, field, mtx, asked>>

\* Slip: dst is not stored before what has arrived is looked at.
stay == UNCHANGED field

enter == field' = [field EXCEPT !["dst"] = TRUE]

join ==
    /\ at["dst"] = "join" /\ pair = "live"
    /\ enter
    /\ Goes("dst", "flush")
    /\ Within /\ Local /\ UNCHANGED <<attempt, pair, user_data, mtx, asked>>

InRecv(t, c) ==
    at[t] \in {"check", "copy", "measure", "fill", "drop"} /\ subject[t] = c

\* on_recv(c) begins on thread t.
on_recv(t, c) ==
    /\ subject' = [subject EXCEPT ![t] = c]
    /\ overlapped' = (overlapped \/ InRecv(Other(t), c))
    /\ Goes(t, "check")

\* What src received so far is relayed, on the thread of dst.
flush ==
    /\ at["dst"] = "flush" /\ pair = "live"
    /\ IF field["src"] THEN on_recv("dst", "src") /\ Within
                       ELSE Return("dst", FALSE) /\ UNCHANGED <<subject, overlapped>>
    /\ UNCHANGED <<pairVars, data, byteVars, asked, early, fault>>

connect_failed ==
    /\ attempt
    /\ Dst!Refuse /\ UNCHANGED src_vars
    /\ Goes("dst", "refused")
    /\ Local /\ UNCHANGED <<pairVars, asked>>

refused ==
    /\ at["dst"] = "refused" /\ pair = "live"
    /\ asked' = [asked EXCEPT !["src"] = @ \/ field["src"]]
    /\ Return("dst", TRUE)
    /\ Local /\ UNCHANGED pairVars

-----------------------------------------------------------------------------
(* on_recv, for the connection that a byte has arrived on.                 *)

handle_recv(c) ==
    /\ arrived[c] < MaxBytes
    /\ IF c = "src" THEN Src!Deliver("on_recv") /\ UNCHANGED dst_vars
                    ELSE Dst!Deliver("on_recv") /\ UNCHANGED src_vars
    /\ arrived' = [arrived EXCEPT ![c] = @ + 1]
    /\ m_recv_buffer' = [m_recv_buffer EXCEPT ![c] = Append(@, arrived[c] + 1)]
    /\ on_recv(c, c)
    /\ UNCHANGED <<pairVars, data, relayed, asked, early, fault>>

\* A connection without user data, or that has left the pair, is closed.
check(t) ==
    /\ at[t] = "check"
    /\ user_data[subject[t]] => pair = "live"
    /\ IF user_data[subject[t]] /\ field[subject[t]]
       THEN Goes(t, "copy") /\ Within
       ELSE Return(t, FALSE)
    /\ Local /\ UNCHANGED <<pairVars, asked>>

\* recv_connection and send_connection are copied.  Without the second the
\* bytes stay; the first may have become null since it was compared.
copy(t) ==
    /\ at[t] = "copy" /\ pair = "live"
    /\ IF ~field[Other(subject[t])]
       THEN Return(t, TRUE) /\ UNCHANGED fault
       ELSE /\ Within
            /\ Goes(t, "measure")
            /\ fault' = IF field[subject[t]] THEN "none" ELSE "null"
    /\ UNCHANGED <<pairVars, localVars, byteVars, asked, early, overlapped>>

recv_buffer_data(t) ==
    /\ at[t] = "measure"
    /\ data' = [data EXCEPT ![t] = m_recv_buffer[subject[t]]]
    /\ Goes(t, "fill")
    /\ Within /\ UNCHANGED <<pairVars, subject, byteVars, asked, early, overlapped, fault>>

send_buffer_fill(t) ==
    /\ at[t] = "fill"
    /\ relayed' = [relayed EXCEPT ![subject[t]] = @ \o data[t]]
    /\ Goes(t, "drop")
    /\ Within /\ UNCHANGED <<pairVars, localVars, m_recv_buffer, arrived, asked, early,
                             overlapped, fault>>

\* Slip: only the first byte is dropped.
drop_one(buffer, n) == IF n = 0 THEN buffer ELSE Tail(buffer)

consume(buffer, n) == SubSeq(buffer, n + 1, Len(buffer))

recv_buffer_drop(t) ==
    /\ at[t] = "drop"
    /\ LET buffer == m_recv_buffer[subject[t]]
           n == Len(data[t])
       IN IF Len(buffer) < n
          THEN Return(t, FALSE) /\ UNCHANGED m_recv_buffer
          ELSE /\ m_recv_buffer' = [m_recv_buffer EXCEPT ![subject[t]] = consume(buffer, n)]
               /\ Return(t, TRUE)
    /\ data' = [data EXCEPT ![t] = <<>>]
    /\ UNCHANGED <<pairVars, subject, arrived, relayed, asked, early, overlapped, fault>>

-----------------------------------------------------------------------------
(* on_close.                                                               *)

\* Because somebody closed it, or at any time because its peer did.
on_close(c) ==
    /\ IF c = "src" THEN Src!Close /\ UNCHANGED dst_vars
                    ELSE Dst!Close /\ UNCHANGED src_vars
    /\ Goes(c, "close")
    /\ Local /\ UNCHANGED <<pairVars, asked>>

StrangerCloses(c) ==
    /\ at[c] = "close" /\ ~user_data[c]
    /\ Return(c, TRUE)
    /\ Local /\ UNCHANGED <<pairVars, asked>>

\* Slip: the mutex is not taken.
no_lock(c) == UNCHANGED mtx

lock_guard(c) == mtx = "free" /\ mtx' = c

\* A connection that closes and knows the pair is still in it.
reset(c) ==
    /\ at[c] = "close" /\ user_data[c] /\ pair = "live"
    /\ lock_guard(c)
    /\ field' = [field EXCEPT ![c] = FALSE]
    /\ Goes(c, "look")
    /\ Within /\ Local /\ UNCHANGED <<attempt, pair, user_data, asked>>

\* Slip: it is left to src to delete the pair.
need_release_src(c) == c = "src" /\ ~field[Other(c)]

need_release(c) == ~field[Other(c)]

DstToCome == attempt /\ (dst_phase \in {"new", "open"} \/ dst_active = "connect_failed")

look(c) ==
    /\ at[c] = "look" /\ pair = "live"
    /\ mtx' = "free"
    /\ asked' = [asked EXCEPT ![Other(c)] = @ \/ field[Other(c)]]
    /\ early' = (early \/ (need_release(c) /\ c = "src" /\ DstToCome))
    /\ IF need_release(c) THEN Goes(c, "delete") /\ Within
                          ELSE Return(c, TRUE)
    /\ UNCHANGED <<localVars, byteVars, overlapped, fault>>
    /\ UNCHANGED <<attempt, pair, field, user_data>>

delete(c) ==
    /\ at[c] = "delete" /\ pair = "live"
    /\ pair' = "deleted"
    /\ Return(c, TRUE)
    /\ Local /\ UNCHANGED <<attempt, field, user_data, mtx, asked>>

-----------------------------------------------------------------------------
(* What should not be.                                                     *)

Ends(what) ==
    /\ fault' = what
    /\ Within /\ UNCHANGED <<pairVars, at, localVars, byteVars, asked, early,
                             overlapped>>

\* The next step of a thread touches the pair, which is gone.
UseAfterDelete(t) ==
    /\ pair = "deleted"
    /\ \/ at[t] \in {"greet", "join", "flush", "refused", "copy", "look", "delete"}
       \/ at[t] = "check" /\ user_data[subject[t]]
       \/ at[t] = "close" /\ user_data[t]
    /\ Ends("deleted")

Writes(t, f) ==
    \/ at[t] = "join" /\ f = "dst"
    \/ at[t] = "close" /\ user_data[t] /\ mtx = "free" /\ f = t
Reads(t, f) ==
    \/ at[t] \in {"flush", "refused"} /\ f = "src"
    \/ at[t] = "copy"
    \/ at[t] = "look" /\ f = Other(t)

\* A shared_ptr is copied while it is assigned, and the copy is torn.
Torn(t) ==
    /\ pair = "live"
    /\ \E f \in Sides : Reads(t, f) /\ Writes(Other(t), f)
    /\ Ends("torn")

-----------------------------------------------------------------------------
Step(t) ==
    \/ check(t) \/ copy(t) \/ recv_buffer_data(t) \/ send_buffer_fill(t)
    \/ recv_buffer_drop(t)
    \/ StrangerCloses(t) \/ reset(t) \/ look(t) \/ delete(t)
    \/ UseAfterDelete(t)

SrcThread == create_connection \/ CreateFails \/ set_user_data \/ Step("src")
DstThread == greet \/ join \/ flush \/ refused \/ Step("dst")

Library == on_accept \/ on_connect \/ connect_failed
           \/ \E c \in Sides : handle_recv(c) \/ on_close(c)

Next == /\ fault = "none"
        /\ Library \/ SrcThread \/ DstThread \/ \E t \in Sides : Torn(t)

\* Callbacks go on, and src, which is plain TCP, is told its end when it is to
\* be closed.  dst has a certificate: SslSession::shutdown keeps its on_close
\* waiting for the server, who owes no answer to this, nor to the attempt.
\* Nobody has to send anything.
Fairness ==
    /\ WF_vars(fault = "none" /\ SrcThread) /\ WF_vars(fault = "none" /\ DstThread)
    /\ WF_vars(fault = "none" /\ Due("src") /\ on_close("src"))

Spec == Init /\ [][Next]_vars /\ Fairness

-----------------------------------------------------------------------------
Numbers == 0..MaxBytes

\* The type of every variable; the mutex is held by the one who looks, and a
\* thread has a step exactly while its connection has a callback.
TypeOK ==
    /\ Src!TypeOK /\ Dst!TypeOK
    /\ attempt \in BOOLEAN /\ pair \in {"none", "live", "deleted"}
    /\ field \in [Sides -> BOOLEAN] /\ user_data \in [Sides -> BOOLEAN]
    /\ mtx \in Sides \cup {"free"} /\ \A t \in Sides : at[t] = "look" <=> mtx = t
    /\ at \in [Sides -> {"none", "create", "keep", "greet", "join", "flush", "refused",
                         "check", "copy", "measure", "fill", "drop",
                         "close", "look", "delete"}]
    /\ \A t \in Sides : (at[t] = "none") = ((IF t = "src" THEN src_active ELSE dst_active) = "none")
    /\ subject \in [Sides -> Sides]
    /\ data \in [Sides -> Seq(Numbers)]
    /\ m_recv_buffer \in [Sides -> Seq(Numbers)] /\ relayed \in [Sides -> Seq(Numbers)]
    /\ arrived \in [Sides -> Numbers]
    /\ asked \in [Sides -> BOOLEAN]
    /\ early \in BOOLEAN /\ overlapped \in BOOLEAN
    /\ fault \in {"none", "deleted", "null", "torn"}

\* The mutex in on_close and the rule that the last one deletes the pair keep
\* it for as long as callbacks use it, and delete it once, with two exceptions:
\* when the client goes before the attempt is answered and dst has entered the
\* pair, and in a callback that the library makes after on_close.
PairKept ==
    fault = "deleted" =>
        \/ early
        \/ at["src"] \in {"check", "copy"} /\ src_late["on_recv"] > 0
        \/ at["dst"] \in {"check", "copy"} /\ dst_late["on_recv"] > 0

\* As long as no two threads relay for one connection, its bytes go to the
\* other in order, once, and those not relayed yet are in the buffer.
RelayExact ==
    fault = "none" /\ ~overlapped =>
        \A c \in Sides :
            LET all == [i \in 1..arrived[c] |-> i]
                busy == \E t \in Sides : at[t] = "drop" /\ subject[t] = c
            IN IF busy THEN relayed[c] = SubSeq(all, 1, Len(relayed[c]))
                       ELSE relayed[c] \o m_recv_buffer[c] = all

Closed == src_phase = "closed" \/ dst_phase = "closed"

\* When dst ends, or the attempt fails, src is closed, ends too, and the pair is
\* deleted.  When src ends first, the pair is deleted or dst is asked to close;
\* that dst then ends, which brings it to the first case, is up to the server.
Released ==
    /\ dst_phase \in {"closed", "failed"} ~> pair = "deleted" \/ fault # "none"
    /\ src_phase = "closed" ~> pair = "deleted" \/ asked["dst"] \/ fault # "none"

Relayed(c, i) == \E k \in 1..Len(relayed[c]) : relayed[c][k] = i

\* What has arrived, also before the server was reached, is relayed once both
\* are open, unless one of them closes.
BytesMove ==
    \A c \in Sides : \A i \in 1..MaxBytes :
        (arrived[c] >= i /\ dst_phase = "open") ~>
            (Relayed(c, i) \/ Closed \/ overlapped \/ fault # "none")

\* readme.md:406, "each callback for each connection is mutually exclusive, so
\* we need not any mutex to protect it".
RecvExclusive == \A c \in Sides : ~(InRecv("src", c) /\ InRecv("dst", c))

=============================================================================
