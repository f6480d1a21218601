----------------------------- MODULE QueueLemmas -----------------------------
(***************************************************************************)
(* Lemmas about queues of handlers that the proofs of the components       *)
(* share: what a queue holds after a handler was posted at its end, or     *)
(* taken from its front.                                                   *)
(***************************************************************************)
EXTENDS Naturals, Sequences, FiniteSets, FiniteSetTheorems, TLAPS

\* No handler, at most one, no successful and no failed one of these in a queue.
NoneIn(q, ops) == \A i \in 1..Len(q) : q[i].op \notin ops
OneIn(q, ops) ==
    \A i, j \in 1..Len(q) : q[i].op \in ops /\ q[j].op \in ops => i = j
FailIn(q, op) == \A i \in 1..Len(q) : q[i].op = op => ~q[i].ok
DoneIn(q, op) == \A i \in 1..Len(q) : q[i].op = op => q[i].ok

\* The pushes in a queue are those of the packs after lo, up to hi, in order.
IsPush(h) == h.op = "push"
PushesIn(q, lo, hi) ==
    /\ \A i \in 1..Len(q) : IsPush(q[i]) => q[i].n \in lo + 1..hi
    /\ \A i, j \in 1..Len(q) : IsPush(q[i]) /\ IsPush(q[j]) /\ i < j => q[i].n < q[j].n
    /\ \A p \in lo + 1..hi : \E i \in 1..Len(q) : IsPush(q[i]) /\ q[i].n = p

-----------------------------------------------------------------------------
\* One more at the end of a sequence.
LEMMA AppendType ==
    ASSUME NEW S, NEW q \in Seq(S), NEW x \in S
    PROVE  Append(q, x) \in Seq(S)
OBVIOUS

\* What is in it: the old elements in their places, and the new one last.
LEMMA AppendAt ==
    ASSUME NEW S, NEW q \in Seq(S), NEW x \in S
    PROVE  /\ Len(Append(q, x)) = Len(q) + 1
           /\ \A i \in 1..Len(q) : Append(q, x)[i] = q[i]
           /\ Append(q, x)[Len(q) + 1] = x
OBVIOUS

\* Whatever is appended, the sequence is not empty.
LEMMA AppendSome ==
    ASSUME NEW S, NEW q \in Seq(S), NEW x
    PROVE  Append(q, x) # <<>>
<1>1. q \in Seq(S \cup {x}) /\ x \in S \cup {x}
  OBVIOUS
<1>2. Len(Append(q, x)) = Len(q) + 1 /\ Len(q) \in Nat
  BY <1>1, AppendAt
<1> QED
  BY <1>2

\* The first of a sequence is gone.
LEMMA TailType ==
    ASSUME NEW S, NEW q \in Seq(S), q # <<>>
    PROVE  Tail(q) \in Seq(S) /\ Head(q) \in S
OBVIOUS

\* The others move up by one place.
LEMMA TailAt ==
    ASSUME NEW S, NEW q \in Seq(S), q # <<>>
    PROVE  /\ Len(q) > 0 /\ Len(Tail(q)) = Len(q) - 1
           /\ \A i \in 1..Len(Tail(q)) : Tail(q)[i] = q[i + 1]
           /\ Head(q) = q[1]
OBVIOUS

-----------------------------------------------------------------------------
(* How a queue changes when a handler is posted and when one is run.       *)

\* A handler at the end of a queue: it adds to its own kind only, and a kind
\* with no other stays at most one.
LEMMA PostTokens ==
    ASSUME NEW S, NEW q \in Seq(S), NEW h \in S
    PROVE  /\ \A ops : NoneIn(Append(q, h), ops) <=> NoneIn(q, ops) /\ h.op \notin ops
           /\ \A ops : OneIn(q, ops) /\ (h.op \notin ops \/ NoneIn(q, ops))
                            => OneIn(Append(q, h), ops)
           /\ \A op : FailIn(q, op) /\ (h.op # op \/ ~h.ok) => FailIn(Append(q, h), op)
<1> DEFINE r == Append(q, h)
<1>1. /\ Len(r) = Len(q) + 1 /\ Len(q) \in Nat
      /\ \A i \in 1..Len(q) : r[i] = q[i]
      /\ r[Len(q) + 1] = h
  BY AppendAt
<1> HIDE DEF r
<1>2. ASSUME NEW ops PROVE NoneIn(r, ops) <=> NoneIn(q, ops) /\ h.op \notin ops
  BY <1>1 DEF NoneIn
<1>3. ASSUME NEW ops, OneIn(q, ops), h.op \notin ops \/ NoneIn(q, ops) PROVE OneIn(r, ops)
  BY <1>1, <1>3 DEF OneIn, NoneIn
<1>4. ASSUME NEW op, FailIn(q, op), h.op # op \/ ~h.ok PROVE FailIn(r, op)
  BY <1>1, <1>4 DEF FailIn
<1> QED
  BY <1>2, <1>3, <1>4 DEF r

\* A handler taken from the front: no kind gains, and its own kind, if it was
\* at most one, is now empty.
LEMMA RunTokens ==
    ASSUME NEW S, NEW q \in Seq(S), q # <<>>
    PROVE  /\ \A ops : NoneIn(q, ops) => NoneIn(Tail(q), ops) /\ Head(q).op \notin ops
           /\ \A ops : Head(q).op \notin ops => (NoneIn(Tail(q), ops) => NoneIn(q, ops))
           /\ \A ops : OneIn(q, ops) => OneIn(Tail(q), ops)
           /\ \A ops : OneIn(q, ops) /\ Head(q).op \in ops => NoneIn(Tail(q), ops)
           /\ \A op : FailIn(q, op) => FailIn(Tail(q), op)
           /\ \A op : FailIn(q, op) /\ Head(q).op = op => ~Head(q).ok
<1> DEFINE r == Tail(q)
<1>1. /\ Len(q) \in Nat /\ Len(q) > 0 /\ Len(r) = Len(q) - 1
      /\ \A i \in 1..Len(r) : r[i] = q[i + 1]
      /\ Head(q) = q[1]
  BY TailAt
<1> HIDE DEF r
<1>2. ASSUME NEW ops, NoneIn(q, ops) PROVE NoneIn(r, ops) /\ q[1].op \notin ops
  BY <1>1, <1>2 DEF NoneIn
<1>3. ASSUME NEW ops, q[1].op \notin ops, NoneIn(r, ops) PROVE NoneIn(q, ops)
  <2> SUFFICES ASSUME NEW i \in 1..Len(q) PROVE q[i].op \notin ops
    BY DEF NoneIn
  <2>1. CASE i = 1
    BY <1>3, <2>1
  <2>2. CASE i # 1
    <3>1. i - 1 \in 1..Len(r) /\ (i - 1) + 1 = i
      BY <1>1, <2>2
    <3> QED
      BY <1>1, <1>3, <3>1 DEF NoneIn
  <2> QED
    BY <2>1, <2>2
<1>4. ASSUME NEW ops, OneIn(q, ops) PROVE OneIn(r, ops)
  <2> SUFFICES ASSUME NEW i \in 1..Len(r), NEW j \in 1..Len(r),
                      r[i].op \in ops, r[j].op \in ops
               PROVE  i = j
    BY DEF OneIn
  <2>1. i + 1 \in 1..Len(q) /\ j + 1 \in 1..Len(q)
    BY <1>1
  <2>2. q[i + 1].op \in ops /\ q[j + 1].op \in ops
    BY <1>1
  <2>3. i + 1 = j + 1
    BY <1>4, <2>1, <2>2 DEF OneIn
  <2> QED
    BY <2>3
<1>5. ASSUME NEW ops, OneIn(q, ops), q[1].op \in ops PROVE NoneIn(r, ops)
  <2> SUFFICES ASSUME NEW i \in 1..Len(r), r[i].op \in ops PROVE FALSE
    BY DEF NoneIn
  <2>1. i + 1 \in 1..Len(q) /\ 1 \in 1..Len(q) /\ i + 1 # 1
    BY <1>1
  <2>2. q[i + 1].op \in ops
    BY <1>1
  <2> QED
    BY <1>5, <2>1, <2>2 DEF OneIn
<1>6. ASSUME NEW op, FailIn(q, op) PROVE FailIn(r, op) /\ (q[1].op = op => ~q[1].ok)
  BY <1>1, <1>6 DEF FailIn
<1> QED
  BY <1>1, <1>2, <1>3, <1>4, <1>5, <1>6 DEF r

\* Where there is none of a kind, there is no successful one.
LEMMA NoneFails ==
    ASSUME NEW q, NEW op, NoneIn(q, {op})
    PROVE  FailIn(q, op)
BY DEF NoneIn, FailIn

\* And no failed one.
LEMMA NoneEnds ==
    ASSUME NEW q, NEW op, NoneIn(q, {op})
    PROVE  FailIn(q, op) /\ DoneIn(q, op)
BY DEF NoneIn, FailIn, DoneIn

\* How the handlers of a kind ended, when one is posted.
LEMMA PostEnds ==
    ASSUME NEW S, NEW q \in Seq(S), NEW h \in S
    PROVE  /\ \A op : FailIn(Append(q, h), op) <=> FailIn(q, op) /\ (h.op = op => ~h.ok)
           /\ \A op : DoneIn(Append(q, h), op) <=> DoneIn(q, op) /\ (h.op = op => h.ok)
<1> DEFINE r == Append(q, h)
<1>1. /\ Len(r) = Len(q) + 1 /\ Len(q) \in Nat
      /\ \A i \in 1..Len(q) : r[i] = q[i]
      /\ r[Len(q) + 1] = h
  BY AppendAt
<1> HIDE DEF r
<1>2. /\ \A i \in 1..Len(q) : i \in 1..Len(r)
      /\ \A i \in 1..Len(r) : i \in 1..Len(q) \/ i = Len(q) + 1
      /\ Len(q) + 1 \in 1..Len(r)
  BY <1>1
<1>3. ASSUME NEW op PROVE FailIn(r, op) <=> FailIn(q, op) /\ (h.op = op => ~h.ok)
  BY <1>1, <1>2 DEF FailIn
<1>4. ASSUME NEW op PROVE DoneIn(r, op) <=> DoneIn(q, op) /\ (h.op = op => h.ok)
  BY <1>1, <1>2 DEF DoneIn
<1> QED
  BY <1>3, <1>4 DEF r

\* And when one is run.
LEMMA RunEnds ==
    ASSUME NEW S, NEW q \in Seq(S), q # <<>>
    PROVE  /\ \A op : FailIn(q, op) <=> FailIn(Tail(q), op) /\ (Head(q).op = op => ~Head(q).ok)
           /\ \A op : DoneIn(q, op) <=> DoneIn(Tail(q), op) /\ (Head(q).op = op => Head(q).ok)
<1> DEFINE r == Tail(q)
<1>1. /\ Len(q) \in Nat /\ Len(q) > 0 /\ Len(r) = Len(q) - 1
      /\ \A i \in 1..Len(r) : r[i] = q[i + 1]
      /\ Head(q) = q[1]
  BY TailAt
<1> HIDE DEF r
<1>2. /\ 1 \in 1..Len(q)
      /\ \A i \in 1..Len(r) : i + 1 \in 1..Len(q)
      /\ \A i \in 1..Len(q) : i = 1 \/ (i - 1 \in 1..Len(r) /\ r[i - 1] = q[i])
  BY <1>1
<1>3. ASSUME NEW op PROVE FailIn(q, op) <=> FailIn(r, op) /\ (q[1].op = op => ~q[1].ok)
  <2>1. FailIn(q, op) => FailIn(r, op) /\ (q[1].op = op => ~q[1].ok)
    BY <1>1, <1>2 DEF FailIn
  <2>2. FailIn(r, op) /\ (q[1].op = op => ~q[1].ok) => FailIn(q, op)
    BY <1>2 DEF FailIn
  <2> QED
    BY <2>1, <2>2
<1>4. ASSUME NEW op PROVE DoneIn(q, op) <=> DoneIn(r, op) /\ (q[1].op = op => q[1].ok)
  <2>1. DoneIn(q, op) => DoneIn(r, op) /\ (q[1].op = op => q[1].ok)
    BY <1>1, <1>2 DEF DoneIn
  <2>2. DoneIn(r, op) /\ (q[1].op = op => q[1].ok) => DoneIn(q, op)
    BY <1>2 DEF DoneIn
  <2> QED
    BY <2>1, <2>2
<1> QED
  BY <1>1, <1>3, <1>4 DEF r

\* The places of a kind, counted: none, or the one.
LEMMA CountIn ==
    ASSUME NEW q, NEW op, OneIn(q, {op})
    PROVE  Cardinality({i \in 1..Len(q) : q[i].op = op}) = IF NoneIn(q, {op}) THEN 0 ELSE 1
<1> DEFINE places == {i \in 1..Len(q) : q[i].op = op}
<1>1. CASE NoneIn(q, {op})
  <2>1. places = {}
    BY <1>1 DEF NoneIn
  <2> QED
    BY <1>1, <2>1, FS_EmptySet
<1>2. CASE ~NoneIn(q, {op})
  <2>1. PICK i \in 1..Len(q) : q[i].op = op
    BY <1>2 DEF NoneIn
  <2>2. places = {i}
    BY <2>1 DEF OneIn
  <2> QED
    BY <1>2, <2>2, FS_Singleton
<1> QED
  BY <1>1, <1>2

\* The next pack is pushed behind the others; any other handler leaves the
\* pushes as they are.
LEMMA PushPosted ==
    ASSUME NEW S, NEW q \in Seq(S), NEW h \in S, NEW lo \in Nat, NEW hi \in Nat,
           lo <= hi, PushesIn(q, lo, hi)
    PROVE  /\ ~IsPush(h) => PushesIn(Append(q, h), lo, hi)
           /\ IsPush(h) /\ h.n = hi + 1 => PushesIn(Append(q, h), lo, hi + 1)
<1> DEFINE r == Append(q, h)
<1>1. /\ Len(r) = Len(q) + 1 /\ Len(q) \in Nat
      /\ \A i \in 1..Len(q) : r[i] = q[i]
      /\ r[Len(q) + 1] = h
  BY AppendAt
<1> HIDE DEF r
<1>2. \A i \in 1..Len(q) : i \in 1..Len(r) /\ i < Len(q) + 1
  BY <1>1
<1>3. \A i \in 1..Len(r) : i \in 1..Len(q) \/ i = Len(q) + 1
  BY <1>1
<1>4. ASSUME ~IsPush(h) PROVE PushesIn(r, lo, hi)
  BY <1>1, <1>2, <1>3, <1>4 DEF PushesIn
<1>5. ASSUME IsPush(h), h.n = hi + 1 PROVE PushesIn(r, lo, hi + 1)
  <2>1. ASSUME NEW i \in 1..Len(r), IsPush(r[i]) PROVE r[i].n \in lo + 1..hi + 1
    BY <1>1, <1>3, <1>5, <2>1 DEF PushesIn
  <2>2. ASSUME NEW i \in 1..Len(r), NEW j \in 1..Len(r), IsPush(r[i]), IsPush(r[j]), i < j
        PROVE  r[i].n < r[j].n
    <3>1. i \in 1..Len(q)
      BY <1>1, <2>2
    <3>2. r[i].n \in lo + 1..hi
      BY <1>1, <3>1, <2>2 DEF PushesIn
    <3> QED
      BY <1>1, <1>3, <1>5, <2>2, <3>1, <3>2 DEF PushesIn
  <2>3. ASSUME NEW p \in lo + 1..hi + 1
        PROVE  \E i \in 1..Len(r) : IsPush(r[i]) /\ r[i].n = p
    <3>1. CASE p = hi + 1
      <4>1. Len(q) + 1 \in 1..Len(r)
        BY <1>1
      <4> QED
        BY <1>1, <1>5, <3>1, <4>1
    <3>2. CASE p # hi + 1
      <4>1. p \in lo + 1..hi
        BY <3>2
      <4>2. PICK i \in 1..Len(q) : IsPush(q[i]) /\ q[i].n = p
        BY <4>1 DEF PushesIn
      <4> QED
        BY <1>1, <1>2, <4>2
    <3> QED
      BY <3>1, <3>2
  <2> QED
    BY <2>1, <2>2, <2>3 DEF PushesIn
<1> QED
  BY <1>4, <1>5 DEF r

\* The first push in the queue is the next pack's.
LEMMA PushRun ==
    ASSUME NEW S, NEW q \in Seq(S), q # <<>>, NEW lo \in Nat, NEW hi \in Nat,
           PushesIn(q, lo, hi)
    PROVE  /\ ~IsPush(Head(q)) => PushesIn(Tail(q), lo, hi)
           /\ IsPush(Head(q)) => Head(q).n = lo + 1 /\ lo < hi /\ PushesIn(Tail(q), lo + 1, hi)
<1> DEFINE r == Tail(q)
<1>1. /\ Len(q) \in Nat /\ Len(q) > 0 /\ Len(r) = Len(q) - 1
      /\ \A i \in 1..Len(r) : r[i] = q[i + 1]
      /\ Head(q) = q[1]
  BY TailAt
<1> HIDE DEF r
<1>2. \A i \in 1..Len(r) : i + 1 \in 1..Len(q)
  BY <1>1
<1>3. \A i \in 1..Len(q) : i = 1 \/ (i - 1 \in 1..Len(r) /\ r[i - 1] = q[i])
  BY <1>1
<1>4. /\ \A i \in 1..Len(r) : IsPush(r[i]) => r[i].n \in lo + 1..hi
      /\ \A i, j \in 1..Len(r) : IsPush(r[i]) /\ IsPush(r[j]) /\ i < j => r[i].n < r[j].n
  <2>1. ASSUME NEW i \in 1..Len(r), IsPush(r[i]) PROVE r[i].n \in lo + 1..hi
    BY <1>1, <1>2, <2>1 DEF PushesIn
  <2>2. ASSUME NEW i \in 1..Len(r), NEW j \in 1..Len(r), IsPush(r[i]), IsPush(r[j]), i < j
        PROVE  r[i].n < r[j].n
    <3>1. i + 1 \in 1..Len(q) /\ j + 1 \in 1..Len(q) /\ i + 1 < j + 1
      BY <1>2, <2>2
    <3> QED
      BY <1>1, <2>2, <3>1 DEF PushesIn
  <2> QED
    BY <2>1, <2>2
<1>5. ASSUME ~IsPush(q[1]) PROVE PushesIn(r, lo, hi)
  <2>1. ASSUME NEW p \in lo + 1..hi
        PROVE  \E i \in 1..Len(r) : IsPush(r[i]) /\ r[i].n = p
    <3>1. PICK i \in 1..Len(q) : IsPush(q[i]) /\ q[i].n = p
      BY DEF PushesIn
    <3> QED
      BY <1>3, <1>5, <3>1
  <2> QED
    BY <1>4, <2>1 DEF PushesIn
<1>6. ASSUME IsPush(q[1]) PROVE q[1].n = lo + 1 /\ lo < hi /\ PushesIn(r, lo + 1, hi)
  <2>1. 1 \in 1..Len(q) /\ q[1].n \in lo + 1..hi
    BY <1>1, <1>6 DEF PushesIn
  <2>2. \A i \in 1..Len(q) : IsPush(q[i]) /\ i # 1 => q[1].n < q[i].n
    BY <1>1, <1>6, <2>1 DEF PushesIn
  <2>3. q[1].n = lo + 1
    <3>1. lo + 1 \in lo + 1..hi
      BY <2>1
    <3>2. PICK i \in 1..Len(q) : IsPush(q[i]) /\ q[i].n = lo + 1
      BY <3>1 DEF PushesIn
    <3> QED
      BY <2>1, <2>2, <3>2
  <2>4. ASSUME NEW i \in 1..Len(r), IsPush(r[i]) PROVE r[i].n \in (lo + 1) + 1..hi
    <3>1. i + 1 \in 1..Len(q) /\ i + 1 # 1 /\ r[i] = q[i + 1]
      BY <1>1, <1>2
    <3> QED
      BY <1>4, <2>2, <2>3, <2>4, <3>1
  <2>5. ASSUME NEW p \in (lo + 1) + 1..hi
        PROVE  \E i \in 1..Len(r) : IsPush(r[i]) /\ r[i].n = p
    <3>1. p \in lo + 1..hi /\ p # lo + 1
      OBVIOUS
    <3>2. PICK i \in 1..Len(q) : IsPush(q[i]) /\ q[i].n = p
      BY <3>1 DEF PushesIn
    <3> QED
      BY <1>3, <2>3, <3>1, <3>2
  <2> QED
    BY <1>4, <2>1, <2>3, <2>4, <2>5 DEF PushesIn
<1> QED
  BY <1>1, <1>5, <1>6 DEF r

=============================================================================
