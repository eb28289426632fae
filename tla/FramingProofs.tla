--------------------------- MODULE FramingProofs ---------------------------
(***************************************************************************)
(* Proofs about module Framing, for messages, heads, limits and sockets of *)
(* any size.                                                               *)
(*                                                                         *)
(* What is under way is one stream: in_buffer, the socket and out_buffer,  *)
(* one behind the other.  Whatever the socket takes and gives moves bytes  *)
(* within it; to send appends a message to it and try_dispatch_message     *)
(* takes whole messages from its front, so that it begins with a message   *)
(* and ends with one (StreamInv).  What the loop takes is proved for each  *)
(* place of the buffer, from its end on (DispatchTakes).                   *)
(*                                                                         *)
(* The refinement of Channel follows: what was received is the front of    *)
(* what was sent, and more than TooBig bytes at once are more messages     *)
(* than a window of messages that can be received (TooManyToFit).          *)
(***************************************************************************)
EXTENDS Framing, SequenceTheorems, WellFoundedInduction, TLAPS

ByteRecords == [of : Messages, len : Lengths, at : Nat \ {0}]

\* A byte of a message that was sent.
Proper(b) == b.of <= Len(sent) /\ b.len = sent[b.of] /\ b.at <= b.len
Whole(bytes) == \A k \in 1..Len(bytes) : Proper(bytes[k])

UnderWay == in_buffer \o wire \o out_buffer

TypeInv ==
    /\ sent \in Seq(Lengths) /\ Len(sent) <= MaxMessages
    /\ out_buffer \in Seq(ByteRecords) /\ wire \in Seq(ByteRecords)
    /\ in_buffer \in Seq(ByteRecords)
    /\ Len(wire) <= Room
    /\ received \in Seq(Messages)
    /\ ended \in BOOLEAN /\ sender \in BOOLEAN /\ receiver \in BOOLEAN

BytesWhole == Whole(out_buffer) /\ Whole(wire) /\ Whole(in_buffer)

\* The messages are received in order.
CountInv ==
    Len(received) <= Len(sent) /\ \A k \in 1..Len(received) : received[k] = k

EndInv ==
    /\ ~sender => out_buffer = <<>>
    /\ ~sender /\ receiver => ended

\* A stream of all that was sent is one to the end of the last message.
ToTheEnd(bytes) ==
    Len(received) < Len(sent) => bytes # <<>> /\ bytes[Len(bytes)] = LastByte(Len(sent))

StreamInv ==
    receiver =>
        /\ Stream(UnderWay, Len(received) + 1)
        /\ sender => ToTheEnd(UnderWay)

FramingInv == TypeInv /\ BytesWhole /\ CountInv /\ EndInv /\ StreamInv

-----------------------------------------------------------------------------
(***************************************************************************)
(* Numbers, and a loop over places.                                        *)
(***************************************************************************)

\* Induction, for a set.
LEMMA AllNumbers ==
    ASSUME NEW S, 0 \in S, \A n \in Nat : n \in S => n + 1 \in S
    PROVE  \A n \in Nat : n \in S
<1> DEFINE R == {ss \in Nat \X Nat : ss[1] < ss[2]}
<1> DEFINE T == {n \in Nat : n \notin S}
<1> SUFFICES ASSUME T # {} PROVE FALSE
  OBVIOUS
<1>1. IsWellFoundedOn(R, Nat)
  <2>1. R = OpToRel(<, Nat)
    BY Zenon DEF OpToRel
  <2> QED
    BY <2>1, NatLessThanWellFounded, Zenon
<1>2. PICK n \in T : \A k \in T : ~ (<<k, n>> \in R)
  <2>1. T \subseteq Nat
    OBVIOUS
  <2> HIDE DEF R, T
  <2> QED
    BY <1>1, <2>1, WFMin, Zenon
<1>3. n \in Nat /\ n \notin S /\ n # 0
  BY <1>2
<1>4. n - 1 \in Nat /\ n - 1 < n /\ (n - 1) + 1 = n
  BY <1>3
<1>5. n - 1 \in S
  BY <1>2, <1>3, <1>4
<1> QED
  BY <1>3, <1>4, <1>5

LEMMA Sizes ==
    /\ MinLen \in Nat \ {0} /\ ReadData \in Nat /\ MinLen <= ReadData
    /\ TooBig \in Nat /\ Room \in Nat /\ MaxMessages \in Nat
    /\ \A l \in Lengths : l \in Nat /\ l >= MinLen
  BY FramingAssumption

LEMMA PartOf ==
    ASSUME NEW S, NEW q \in Seq(S), NEW m \in Nat \ {0}, NEW n \in Nat, n <= Len(q)
    PROVE  /\ SubSeq(q, m, n) \in Seq(S)
           /\ Len(SubSeq(q, m, n)) = IF m <= n THEN n - m + 1 ELSE 0
           /\ \A i \in 1..(n - m + 1) : SubSeq(q, m, n)[i] = q[m + i - 1]
<1>1. \A i \in m..n : q[i] \in S
  BY ElementOfSeq, LenProperties
<1> QED
  BY <1>1, SubSeqProperties

-----------------------------------------------------------------------------
(***************************************************************************)
(* try_dispatch_message.                                                   *)
(***************************************************************************)

\* What the loop takes at a place depends on the places behind it.
LEMMA NextLengthFacts ==
    ASSUME NEW rest \in Seq(ByteRecords)
    PROVE  /\ NextLength(rest) \in 0..Len(rest)
           /\ NextLength(rest) # 0 =>
                 /\ rest # <<>> /\ rest[1] \in ByteRecords
                 /\ NextLength(rest) = SmallerOf(rest[1].len, ReadData)
                 /\ NextLength(rest) >= MinLen
<1>1. Len(rest) \in Nat /\ \A i \in 1..Len(rest) : rest[i] \in ByteRecords
  BY LenProperties, ElementOfSeq
<1>2. CASE Len(rest) < MinLen
  BY <1>1, <1>2 DEF NextLength
<1>3. CASE Len(rest) >= MinLen
  <2>1. rest # <<>> /\ 1 \in 1..Len(rest) /\ rest[1] \in ByteRecords
    BY <1>1, <1>3, Sizes
  <2>2. PICK l \in Lengths : l = rest[1].len
    BY <2>1 DEF ByteRecords
  <2>3. SmallerOf(l, ReadData) \in Nat /\ SmallerOf(l, ReadData) >= MinLen
    BY Sizes DEF SmallerOf
  <2>4. NextLength(rest) = IF Len(rest) < SmallerOf(l, ReadData) THEN 0
                           ELSE SmallerOf(l, ReadData)
    BY <1>1, <1>3, <2>2, Sizes DEF NextLength
  <2> QED
    BY <1>1, <2>1, <2>2, <2>3, <2>4, Sizes
<1> QED
  BY <1>1, <1>2, <1>3, Sizes

LEMMA DispatchLooksAhead ==
    ASSUME NEW buffer \in Seq(ByteRecords), NEW p \in 0..Len(buffer), NEW f, NEW g,
           \A q \in (p + 1)..Len(buffer) : f[q] = g[q]
    PROVE  DispatchAt(buffer, f, p) = DispatchAt(buffer, g, p)
<1> DEFINE rest == SubSeq(buffer, p + 1, Len(buffer))
<1> DEFINE length == NextLength(rest)
<1>1. Len(buffer) \in Nat /\ p \in Nat /\ p <= Len(buffer)
  BY LenProperties
<1>2. rest \in Seq(ByteRecords) /\ Len(rest) = Len(buffer) - p
  BY <1>1, PartOf
<1>3. length \in 0..(Len(buffer) - p)
  BY <1>2, NextLengthFacts
<1> HIDE DEF rest, length
<1>4. CASE length = 0
  BY <1>4 DEF DispatchAt, rest, length
<1>5. CASE length # 0
  <2>1. p + length \in (p + 1)..Len(buffer)
    BY <1>1, <1>3, <1>5
  <2>2. f[p + length] = g[p + length]
    BY <2>1
  <2> QED
    BY <2>2 DEF DispatchAt, rest, length
<1> QED
  BY <1>4, <1>5

\* The loop ends: there is a function of all places of the buffer.
LEMMA DispatchDefined ==
    ASSUME NEW buffer \in Seq(ByteRecords)
    PROVE  \E f : f = [p \in 0..Len(buffer) |-> DispatchAt(buffer, f, p)]
<1> DEFINE L == Len(buffer)
<1> DEFINE Done(i, g) == \A p \in (L - i)..L : g[p] = DispatchAt(buffer, g, p)
<1> DEFINE S == {i \in Nat : i <= L => \E g : Done(i, g)}
<1>1. L \in Nat
  BY LenProperties
<1>2. 0 \in S
  <2> DEFINE g == [p \in {L} |-> DispatchAt(buffer, <<>>, p)]
  <2>1. g[L] = DispatchAt(buffer, <<>>, L)
    OBVIOUS
  <2>2. DispatchAt(buffer, <<>>, L) = DispatchAt(buffer, g, L)
    <3> HIDE DEF g
    <3>1. L \in 0..L /\ \A q \in (L + 1)..L : <<>>[q] = g[q]
      BY <1>1
    <3> QED
      BY <3>1, DispatchLooksAhead
  <2>3. Done(0, g)
    <3> HIDE DEF g
    <3> QED
      BY <1>1, <2>1, <2>2
  <2> HIDE DEF g, Done
  <2> QED
    BY <2>3
<1>3. ASSUME NEW i \in Nat, i \in S PROVE i + 1 \in S
  <2> SUFFICES ASSUME i + 1 <= L PROVE \E g : Done(i + 1, g)
    BY <1>3
  <2>1. PICK h : Done(i, h)
    BY <1>1, <1>3
  <2>2. PICK q \in Nat : q = L - (i + 1)
    BY <1>1, SMTT(30)
  <2>3. q <= L /\ L - i = q + 1
    BY <1>1, <2>2
  <2> DEFINE g == [p \in q..L |-> IF p = q THEN DispatchAt(buffer, h, q) ELSE h[p]]
  <2>4. \A p \in (q + 1)..L : g[p] = h[p]
    <3>1. ASSUME NEW p \in (q + 1)..L PROVE p \in q..L /\ p # q
      BY <1>1, <2>2
    <3> QED
      BY <3>1
  <2>5. g[q] = DispatchAt(buffer, h, q)
    BY <1>1, <2>2, <2>3
  <2> HIDE DEF g
  <2>6. ASSUME NEW p \in q..L PROVE g[p] = DispatchAt(buffer, g, p)
    <3>1. \A r \in (p + 1)..L : h[r] = g[r]
      BY <1>1, <2>2, <2>4
    <3>2. p \in 0..L
      BY <1>1, <2>2
    <3>3. DispatchAt(buffer, h, p) = DispatchAt(buffer, g, p)
      BY <3>1, <3>2, DispatchLooksAhead
    <3>4. CASE p = q
      BY <2>5, <3>3, <3>4
    <3>5. CASE p # q
      <4>1. p \in (q + 1)..L
        BY <1>1, <3>5
      <4>2. h[p] = DispatchAt(buffer, h, p)
        BY <2>1, <2>3, <4>1
      <4> QED
        BY <2>4, <3>3, <4>1, <4>2
    <3> QED
      BY <3>4, <3>5
  <2>7. Done(i + 1, g)
    BY <2>2, <2>6
  <2> QED
    BY <2>7
<1> HIDE DEF Done
<1>4. L \in S
  <2> HIDE DEF S
  <2> QED
    BY <1>1, <1>2, <1>3, AllNumbers
<1>5. PICK g : Done(L, g)
  BY <1>1, <1>4
<1>6. \A p \in 0..L : g[p] = DispatchAt(buffer, g, p)
  BY <1>1, <1>5 DEF Done
<1> DEFINE f == [p \in 0..L |-> g[p]]
<1>7. \A p \in 0..L : f[p] = g[p]
  OBVIOUS
<1> HIDE DEF f
<1>8. ASSUME NEW p \in 0..L PROVE g[p] = DispatchAt(buffer, f, p)
  <2>1. \A r \in (p + 1)..L : g[r] = f[r]
    BY <1>1, <1>7
  <2> QED
    BY <1>6, <2>1, DispatchLooksAhead
<1>9. f = [p \in 0..L |-> DispatchAt(buffer, f, p)]
  BY <1>8 DEF f
<1> QED
  BY <1>9

LEMMA DispatchByPlaces ==
    ASSUME NEW buffer \in Seq(ByteRecords)
    PROVE  \E f : /\ \A p \in 0..Len(buffer) : f[p] = DispatchAt(buffer, f, p)
                  /\ Dispatch(buffer) = f[0]
<1> DEFINE f == CHOOSE f : f = [p \in 0..Len(buffer) |-> DispatchAt(buffer, f, p)]
<1>1. f = [p \in 0..Len(buffer) |-> DispatchAt(buffer, f, p)]
  BY DispatchDefined
<1>2. Dispatch(buffer) = f[0]
  BY DEF Dispatch
<1> HIDE DEF f
<1>3. \A p \in 0..Len(buffer) : f[p] = DispatchAt(buffer, f, p)
  BY <1>1
<1> QED
  BY <1>2, <1>3

-----------------------------------------------------------------------------
(***************************************************************************)
(* Streams.                                                                *)
(***************************************************************************)
LEMMA ByteIsRecord ==
    /\ \A b \in ByteRecords : /\ b = Byte(b.of, b.len, b.at)
                              /\ b.of \in Nat /\ b.len \in Lengths /\ b.len \in Nat
                              /\ b.at \in Nat
    /\ \A m, l, k : /\ Byte(m, l, k).of = m /\ Byte(m, l, k).len = l
                    /\ Byte(m, l, k).at = k
  BY Sizes DEF Byte, ByteRecords, Messages

Chained(bytes) == \A k \in 1..(Len(bytes) - 1) : bytes[k + 1] = NextByte(bytes[k])

\* A message in a stream is there with all its bytes, as far as the stream goes.
LEMMA MessageInStream ==
    ASSUME NEW bytes \in Seq(ByteRecords), Whole(bytes), Chained(bytes),
           NEW p \in Nat, p < Len(bytes), NEW m, NEW l, bytes[p + 1] = Byte(m, l, 1)
    PROVE  \A j \in 1..l : p + j <= Len(bytes) => bytes[p + j] = Byte(m, l, j)
<1>1. Len(bytes) \in Nat /\ p + 1 \in 1..Len(bytes)
  BY LenProperties
<1>2. l \in Nat
  BY <1>1, ElementOfSeq, ByteIsRecord
<1> DEFINE S == {i \in Nat : i + 1 <= l /\ p + (i + 1) <= Len(bytes)
                                => bytes[p + (i + 1)] = Byte(m, l, i + 1)}
<1>3. 0 \in S
  OBVIOUS
<1>4. ASSUME NEW i \in Nat, i \in S PROVE i + 1 \in S
  <2> SUFFICES ASSUME (i + 1) + 1 <= l, p + ((i + 1) + 1) <= Len(bytes)
               PROVE  bytes[p + ((i + 1) + 1)] = Byte(m, l, (i + 1) + 1)
    OBVIOUS
  <2>1. PICK k \in Nat : k = p + (i + 1)
    OBVIOUS
  <2>2. k \in 1..(Len(bytes) - 1) /\ p + ((i + 1) + 1) = k + 1
    BY <1>1, <2>1
  <2>3. bytes[k] = Byte(m, l, i + 1)
    BY <1>1, <1>2, <1>4, <2>1
  <2>4. NextByte(bytes[k]) = Byte(m, l, (i + 1) + 1)
    BY <1>2, <2>3, ByteIsRecord DEF NextByte
  <2> QED
    BY <2>2, <2>4 DEF Chained
<1>5. \A i \in Nat : i \in S
  <2> HIDE DEF S
  <2> QED
    BY <1>3, <1>4, AllNumbers
<1> TAKE j \in 1..l
<1>6. j - 1 \in Nat /\ (j - 1) + 1 = j
  BY <1>2
<1>7. j - 1 \in S
  BY <1>5, <1>6
<1> QED
  BY <1>2, <1>6, <1>7

\* Behind a message comes the next one.
LEMMA MessageEnds ==
    ASSUME NEW bytes \in Seq(ByteRecords), Whole(bytes), Chained(bytes),
           NEW p \in Nat, p < Len(bytes), NEW m, NEW l, bytes[p + 1] = Byte(m, l, 1),
           p + l <= Len(bytes)
    PROVE  /\ m \in Messages /\ l \in Lengths /\ l \in Nat \ {0} /\ m <= Len(sent)
           /\ l = sent[m]
           /\ bytes[p + l] = LastByte(m)
           /\ p + l < Len(bytes) => bytes[p + l + 1] = Byte(m + 1, sent[m + 1], 1)
<1>1. Len(bytes) \in Nat /\ p + 1 \in 1..Len(bytes)
  BY LenProperties
<1>2. Byte(m, l, 1) \in ByteRecords /\ Proper(Byte(m, l, 1))
  BY <1>1, ElementOfSeq DEF Whole
<1>3. m \in Messages /\ l \in Lengths /\ l \in Nat /\ m <= Len(sent) /\ l = sent[m]
  BY <1>2, ByteIsRecord DEF Proper, Byte, ByteRecords
<1>4. l >= 1
  BY <1>3, Sizes
<1>5. bytes[p + l] = Byte(m, l, l)
  BY <1>3, <1>4, MessageInStream
<1>6. ASSUME p + l < Len(bytes) PROVE bytes[p + l + 1] = Byte(m + 1, sent[m + 1], 1)
  <2>1. p + l \in 1..(Len(bytes) - 1)
    BY <1>1, <1>3, <1>4, <1>6
  <2>2. bytes[p + l + 1] = NextByte(bytes[p + l])
    BY <2>1 DEF Chained
  <2> QED
    BY <1>3, <1>5, <2>2, ByteIsRecord DEF NextByte
<1> QED
  BY <1>3, <1>4, <1>5, <1>6 DEF LastByte

\* The loop takes n messages, from m on, and stops at the next that is not there
\* as a whole, or at one that is longer than a read of it.
Takes(bytes, p, m, done, n) ==
    /\ done.messages = [k \in 1..n |-> m + k - 1]
    /\ n = 0 \/ m + n - 1 <= Len(sent)
    /\ \A k \in m..(m + n - 1) : sent[k] <= ReadData
    /\ done.taken \in p..Len(bytes)
    /\ done.ok =>
          /\ done.taken < Len(bytes) => bytes[done.taken + 1] = Byte(m + n, sent[m + n], 1)
          /\ IF n = 0 THEN done.taken = p
             ELSE done.taken > p /\ bytes[done.taken] = LastByte(m + n - 1)
    /\ ~done.ok => m + n <= Len(sent) /\ sent[m + n] > ReadData
    /\ done.ok \in BOOLEAN

\* A turn of the loop at the start of message m: it stops, for that is not there
\* as a whole or cannot be received, or goes on behind it.
Turn(bytes, f, p, m, done) ==
    \/ done = Dispatched(<<>>, p, TRUE)
    \/ /\ p < Len(bytes) /\ sent[m] > ReadData /\ m <= Len(sent)
       /\ \E q \in p..Len(bytes) : done = Dispatched(<<>>, q, FALSE)
    \/ /\ p < Len(bytes) /\ p + sent[m] <= Len(bytes) /\ sent[m] <= ReadData
       /\ done = LET after == f[p + sent[m]]
                 IN  Dispatched(<<m>> \o after.messages, after.taken, after.ok)

LEMMA DispatchTurn ==
    ASSUME NEW bytes \in Seq(ByteRecords), Whole(bytes), Chained(bytes), NEW f,
           NEW p \in 0..Len(bytes), NEW m \in Nat,
           p < Len(bytes) => bytes[p + 1] = Byte(m, sent[m], 1)
    PROVE  Turn(bytes, f, p, m, DispatchAt(bytes, f, p))
<1> DEFINE rest == SubSeq(bytes, p + 1, Len(bytes))
<1> DEFINE length == NextLength(rest)
<1> DEFINE data == SubSeq(rest, 1, length)
<1>1. Len(bytes) \in Nat /\ p \in Nat /\ p <= Len(bytes)
  BY LenProperties
<1>2. /\ rest \in Seq(ByteRecords) /\ Len(rest) = Len(bytes) - p
      /\ p < Len(bytes) => rest[1] = bytes[p + 1]
  BY <1>1, PartOf
<1>3. /\ length \in 0..Len(rest)
      /\ length # 0 => rest # <<>> /\ length = SmallerOf(rest[1].len, ReadData)
                       /\ length >= MinLen
  BY <1>2, NextLengthFacts
<1>4. CASE length = 0
  BY <1>4 DEF DispatchAt, Turn
<1>5. CASE length # 0
  <2>1. p < Len(bytes)
    BY <1>1, <1>2, <1>3, <1>5
  <2>2. rest[1] = Byte(m, sent[m], 1) /\ bytes[p + 1] = Byte(m, sent[m], 1)
    BY <1>2, <2>1
  <2>3. /\ data \in Seq(ByteRecords) /\ Len(data) = length /\ data[1] = Byte(m, sent[m], 1)
    BY <1>2, <1>3, <1>5, <2>2, PartOf
  <2>4. m <= Len(sent) /\ sent[m] \in Nat
    <3>1. p + 1 \in 1..Len(bytes)
      BY <1>1, <2>1
    <3>2. Byte(m, sent[m], 1) \in ByteRecords /\ Proper(Byte(m, sent[m], 1))
      BY <2>2, <3>1, ElementOfSeq DEF Whole
    <3> QED
      BY <3>2, ByteIsRecord DEF Proper
  <2>5. length = SmallerOf(sent[m], ReadData)
    BY <1>3, <1>5, <2>2, ByteIsRecord
  <2>6. NewByData(data) <=> length = sent[m]
    BY <1>3, <1>5, <2>3, ByteIsRecord, SMTT(30) DEF NewByData
  <2>7. CASE sent[m] > ReadData
    <3>1. ~NewByData(data)
      BY <2>4, <2>5, <2>6, <2>7, Sizes DEF SmallerOf
    <3>2. DispatchAt(bytes, f, p) = Dispatched(<<>>, p + length, FALSE)
      BY <1>5, <3>1 DEF DispatchAt
    <3>3. p + length \in p..Len(bytes)
      BY <1>1, <1>2, <1>3
    <3> QED
      BY <2>1, <2>4, <2>7, <3>2, <3>3 DEF Turn
  <2>8. CASE ~(sent[m] > ReadData)
    <3>1. length = sent[m] /\ sent[m] <= ReadData /\ NewByData(data)
      BY <2>4, <2>5, <2>6, <2>8, Sizes DEF SmallerOf
    <3>2. data[1].of = m
      <4>1. Byte(m, sent[m], 1).of = m
        BY ByteIsRecord
      <4> QED
        BY <2>3, <4>1
    <3>3. DispatchAt(bytes, f, p) =
             LET after == f[p + length]
             IN  Dispatched(<<m>> \o after.messages, after.taken, after.ok)
      BY <1>5, <3>1, <3>2 DEF DispatchAt
    <3>4. p + length <= Len(bytes)
      BY <1>1, <1>2, <1>3
    <3> HIDE DEF length
    <3> QED
      BY <2>1, <3>1, <3>3, <3>4 DEF Turn
  <2> QED
    BY <2>7, <2>8
<1> QED
  BY <1>4, <1>5

LEMMA OneMore ==
    ASSUME NEW m \in Nat, NEW n \in Nat
    PROVE  <<m>> \o [k \in 1..n |-> (m + 1) + k - 1] = [k \in 1..(n + 1) |-> m + k - 1]
<1> DEFINE rest == [k \in 1..n |-> (m + 1) + k - 1]
<1> DEFINE all == [k \in 1..(n + 1) |-> m + k - 1]
<1>1. rest \in Seq(Nat) /\ Len(rest) = n
  <2>1. rest \in [1..n -> Nat]
    OBVIOUS
  <2> QED
    BY <2>1 DEF Seq
<1>2. all \in Seq(Nat) /\ Len(all) = n + 1
  <2>1. all \in [1..(n + 1) -> Nat]
    OBVIOUS
  <2> QED
    BY <2>1 DEF Seq
<1>3. <<m>> \in Seq(Nat) /\ Len(<<m>>) = 1 /\ <<m>>[1] = m
  OBVIOUS
<1>4. \A k \in 1..n : rest[k] = m + k
  OBVIOUS
<1>5. \A k \in 1..(n + 1) : all[k] = m + k - 1
  OBVIOUS
<1> HIDE DEF rest, all
<1>6. /\ <<m>> \o rest \in Seq(Nat) /\ Len(<<m>> \o rest) = n + 1
      /\ \A k \in 1..(n + 1) : (<<m>> \o rest)[k] = IF k <= 1 THEN <<m>>[k] ELSE rest[k - 1]
  BY <1>1, <1>3, ConcatProperties
<1>7. ASSUME NEW k \in 1..(n + 1) PROVE (<<m>> \o rest)[k] = all[k]
  <2>1. CASE k = 1
    BY <1>3, <1>5, <1>6, <2>1
  <2>2. CASE k # 1
    <3>1. ~(k <= 1) /\ k - 1 \in 1..n
      BY <2>2
    <3> QED
      BY <1>4, <1>5, <1>6, <3>1
  <2> QED
    BY <2>1, <2>2
<1>8. <<m>> \o rest = all
  BY <1>2, <1>6, <1>7, SeqEqual
<1> QED
  BY <1>8 DEF rest, all

LEMMA TakesNothing ==
    ASSUME NEW bytes \in Seq(ByteRecords), NEW p \in 0..Len(bytes), NEW m \in Nat,
           p < Len(bytes) => bytes[p + 1] = Byte(m, sent[m], 1)
    PROVE  /\ Takes(bytes, p, m, Dispatched(<<>>, p, TRUE), 0)
           /\ \A q \in p..Len(bytes) :
                 m <= Len(sent) /\ sent[m] > ReadData
                     => Takes(bytes, p, m, Dispatched(<<>>, q, FALSE), 0)
<1>1. Len(bytes) \in Nat /\ m + 0 = m /\ m + 0 - 1 = m - 1 /\ m..(m - 1) = {}
  BY LenProperties
<1>2. <<>> = [k \in 1..0 |-> m + k - 1]
  OBVIOUS
<1> QED
  BY <1>1, <1>2 DEF Takes, Dispatched

LEMMA TakesOneMore ==
    ASSUME NEW bytes \in Seq(ByteRecords), Whole(bytes), Chained(bytes),
           sent \in Seq(Lengths),
           NEW p \in 0..Len(bytes), NEW m \in Nat, NEW q \in Nat, NEW after, NEW n \in Nat,
           p < Len(bytes), bytes[p + 1] = Byte(m, sent[m], 1), q = p + sent[m],
           sent[m] <= ReadData, q <= Len(bytes), Takes(bytes, q, m + 1, after, n)
    PROVE  Takes(bytes, p, m, Dispatched(<<m>> \o after.messages, after.taken, after.ok), n + 1)
<1> DEFINE done == Dispatched(<<m>> \o after.messages, after.taken, after.ok)
<1>1. Len(bytes) \in Nat /\ p \in Nat /\ Len(sent) \in Nat
  BY LenProperties
<1>2. done.messages = <<m>> \o after.messages /\ done.taken = after.taken /\ done.ok = after.ok
  BY DEF Dispatched
<1> HIDE DEF done
<1>3. /\ m <= Len(sent) /\ bytes[q] = LastByte(m)
      /\ sent[m] \in Nat \ {0}
  BY <1>1, MessageEnds
<1>4. done.messages = [k \in 1..(n + 1) |-> m + k - 1]
  BY <1>2, OneMore, SMTT(30) DEF Takes
<1>5. m + (n + 1) - 1 = (m + 1) + n - 1 /\ m + (n + 1) = (m + 1) + n
  OBVIOUS
<1>6. m + (n + 1) - 1 <= Len(sent)
  BY <1>1, <1>3, <1>5 DEF Takes
<1>7. \A k \in m..(m + (n + 1) - 1) : sent[k] <= ReadData
  <2> SUFFICES ASSUME NEW k \in m..(m + (n + 1) - 1) PROVE sent[k] <= ReadData
    OBVIOUS
  <2>1. k = m \/ k \in (m + 1)..((m + 1) + n - 1)
    OBVIOUS
  <2> QED
    BY <2>1 DEF Takes
<1>8. done.taken \in p..Len(bytes)
  BY <1>1, <1>2, <1>3, SMTT(30) DEF Takes
<1>9. ASSUME done.ok
      PROVE  /\ done.taken < Len(bytes)
                   => bytes[done.taken + 1] = Byte(m + (n + 1), sent[m + (n + 1)], 1)
             /\ done.taken > p /\ bytes[done.taken] = LastByte(m + (n + 1) - 1)
  <2>1. done.taken > p
    BY <1>1, <1>2, <1>3, SMTT(30) DEF Takes
  <2>2. CASE n = 0
    BY <1>2, <1>3, <1>5, <1>9, <2>2 DEF Takes
  <2>3. CASE n # 0
    BY <1>2, <1>5, <1>9, <2>3, <2>1 DEF Takes
  <2> QED
    BY <2>2, <2>3, <2>1
<1>10. ~done.ok => m + (n + 1) <= Len(sent) /\ sent[m + (n + 1)] > ReadData
  BY <1>2, <1>5 DEF Takes
<1>11. n + 1 # 0 /\ done.ok \in BOOLEAN
  BY <1>2 DEF Takes
<1>12. Takes(bytes, p, m, done, n + 1)
  BY <1>4, <1>6, <1>7, <1>8, <1>9, <1>10, <1>11 DEF Takes
<1> QED
  BY <1>12 DEF done

LEMMA DispatchTakes ==
    ASSUME NEW bytes \in Seq(ByteRecords), Whole(bytes), Chained(bytes), sent \in Seq(Lengths),
           NEW m \in Nat, bytes # <<>> => bytes[1] = Byte(m, sent[m], 1)
    PROVE  \E n \in Nat : Takes(bytes, 0, m, Dispatch(bytes), n)
<1>1. PICK f : /\ \A p \in 0..Len(bytes) : f[p] = DispatchAt(bytes, f, p)
               /\ Dispatch(bytes) = f[0]
  BY DispatchByPlaces
<1>2. PICK L \in Nat : L = Len(bytes)
  BY LenProperties
<1> DEFINE Starts(p, l) == p < L => bytes[p + 1] = Byte(l, sent[l], 1)
<1> DEFINE S == {i \in Nat : \A p \in 0..L, l \in Nat :
                    L - p <= i /\ Starts(p, l) => \E n \in Nat : Takes(bytes, p, l, f[p], n)}
<1>3. ASSUME NEW p \in 0..L, NEW l \in Nat, Starts(p, l),
             \A q \in (p + 1)..L, k \in Nat :
                 Starts(q, k) => \E n \in Nat : Takes(bytes, q, k, f[q], n)
      PROVE  \E n \in Nat : Takes(bytes, p, l, f[p], n)
  <2>1. p \in 0..Len(bytes) /\ (p < Len(bytes) => bytes[p + 1] = Byte(l, sent[l], 1))
    BY <1>2, <1>3
  <2>2. f[p] = DispatchAt(bytes, f, p)
    BY <1>1, <1>2
  <2>3. \/ f[p] = Dispatched(<<>>, p, TRUE)
        \/ /\ p < L /\ sent[l] > ReadData /\ l <= Len(sent)
           /\ \E q \in p..L : f[p] = Dispatched(<<>>, q, FALSE)
        \/ /\ p < L /\ p + sent[l] <= L /\ sent[l] <= ReadData
           /\ f[p] = LET after == f[p + sent[l]]
                     IN  Dispatched(<<l>> \o after.messages, after.taken, after.ok)
    <3>1. Turn(bytes, f, p, l, f[p])
      BY <2>1, <2>2, DispatchTurn
    <3> QED
      BY <1>2, <3>1 DEF Turn
  <2>4. CASE f[p] = Dispatched(<<>>, p, TRUE)
    BY <2>1, <2>4, TakesNothing
  <2>5. CASE /\ p < L /\ sent[l] > ReadData /\ l <= Len(sent)
             /\ \E q \in p..L : f[p] = Dispatched(<<>>, q, FALSE)
    BY <1>2, <2>1, <2>5, TakesNothing
  <2>6. CASE /\ p < L /\ p + sent[l] <= L /\ sent[l] <= ReadData
             /\ f[p] = LET after == f[p + sent[l]]
                       IN  Dispatched(<<l>> \o after.messages, after.taken, after.ok)
    <3>1. p \in Nat /\ bytes[p + 1] = Byte(l, sent[l], 1)
      BY <1>3, <2>6
    <3>2. /\ sent[l] \in Nat \ {0}
          /\ p + sent[l] < L => bytes[p + sent[l] + 1] = Byte(l + 1, sent[l + 1], 1)
      BY <1>2, <2>6, <3>1, MessageEnds
    <3>3. PICK q \in (p + 1)..L : q = p + sent[l]
      BY <2>6, <3>1, <3>2
    <3>4. Starts(q, l + 1)
      BY <3>2, <3>3
    <3>5. PICK n \in Nat : Takes(bytes, q, l + 1, f[q], n)
      BY <1>3, <3>4
    <3>6. Takes(bytes, p, l, f[p], n + 1)
      <4>1. q \in Nat /\ q <= Len(bytes) /\ p < Len(bytes) /\ p \in 0..Len(bytes)
        BY <1>2, <2>6, <3>1, <3>3
      <4>2. f[p] = Dispatched(<<l>> \o f[q].messages, f[q].taken, f[q].ok)
        BY <2>6, <3>3
      <4> QED
        BY <2>6, <3>1, <3>3, <3>5, <4>1, <4>2, TakesOneMore, SMTT(30)
    <3> QED
      BY <3>6
  <2> QED
    BY <2>3, <2>4, <2>5, <2>6
<1> HIDE DEF Starts
<1>4. 0 \in S
  <2> SUFFICES ASSUME NEW p \in 0..L, NEW l \in Nat, L - p <= 0, Starts(p, l)
               PROVE  \E n \in Nat : Takes(bytes, p, l, f[p], n)
    OBVIOUS
  <2>1. (p + 1)..L = {}
    BY <1>2
  <2> QED
    BY <1>3, <2>1
<1>5. ASSUME NEW i \in Nat, i \in S PROVE i + 1 \in S
  <2> SUFFICES ASSUME NEW p \in 0..L, NEW l \in Nat, L - p <= i + 1, Starts(p, l)
               PROVE  \E n \in Nat : Takes(bytes, p, l, f[p], n)
    OBVIOUS
  <2>1. \A q \in (p + 1)..L : q \in 0..L /\ L - q <= i
    BY <1>2
  <2>2. \A q \in (p + 1)..L, k \in Nat :
           Starts(q, k) => \E n \in Nat : Takes(bytes, q, k, f[q], n)
    BY <1>5, <2>1
  <2> QED
    BY <1>3, <2>2
<1>6. L \in S
  <2> HIDE DEF S
  <2> QED
    BY <1>2, <1>4, <1>5, AllNumbers
<1>7. 0 \in 0..L /\ L - 0 <= L /\ Starts(0, m)
  <2>1. 0 < L => bytes # <<>>
    BY <1>2
  <2> QED
    BY <1>2, <2>1 DEF Starts
<1>8. \E n \in Nat : Takes(bytes, 0, m, f[0], n)
  BY <1>2, <1>6, <1>7
<1> QED
  BY <1>1, <1>8

-----------------------------------------------------------------------------
(***************************************************************************)
(* How bytes move.                                                         *)
(***************************************************************************)
LEMMA Joined == \A a, b \in Seq(ByteRecords) : a \o b \in Seq(ByteRecords)
  BY ConcatProperties

LEMMA Assoc == \A a, b, c \in Seq(ByteRecords) : (a \o b) \o c = a \o (b \o c)
  BY ConcatAssociative

Regrouped(a, b, c, d) ==
    /\ a \o (b \o c) \o d = (a \o b) \o (c \o d)
    /\ (a \o b) \o (c \o d) = a \o (b \o c \o d)
    /\ (a \o b \o c) \o d = (a \o b) \o (c \o d)
    /\ b \o (c \o d) = b \o c \o d

LEMMA Regroup == \A a, b, c, d \in Seq(ByteRecords) : Regrouped(a, b, c, d)
<1> TAKE a, b, c, d \in Seq(ByteRecords)
<1>1. a \o (b \o c) = (a \o b) \o c
  BY Assoc, Zenon
<1>2. b \o (c \o d) = b \o c \o d
  BY Assoc, Zenon
<1>3. ((a \o b) \o c) \o d = (a \o b) \o (c \o d)
  <2>1. ASSUME NEW e \in Seq(ByteRecords) PROVE (e \o c) \o d = e \o (c \o d)
    BY Assoc, ZenonT(60)
  <2> QED
    BY <2>1, Joined, Zenon
<1>4. (a \o b) \o (c \o d) = a \o (b \o (c \o d))
  <2>1. ASSUME NEW e \in Seq(ByteRecords) PROVE (a \o b) \o e = a \o (b \o e)
    BY Assoc, ZenonT(60)
  <2> QED
    BY <2>1, Joined, Zenon
<1> QED
  BY <1>1, <1>3, <1>4, <1>2, Zenon DEF Regrouped

LEMMA JoinedAt ==
    ASSUME NEW a \in Seq(ByteRecords), NEW b \in Seq(ByteRecords)
    PROVE  /\ Len(a) \in Nat /\ Len(b) \in Nat /\ Len(a \o b) = Len(a) + Len(b)
           /\ \A i \in 1..Len(a) : (a \o b)[i] = a[i]
           /\ \A i \in 1..Len(b) : (a \o b)[Len(a) + i] = b[i]
<1>1. Len(a) \in Nat /\ Len(b) \in Nat
  BY LenProperties
<1>2. PICK c : c = a \o b
  OBVIOUS
<1>3. /\ Len(c) = Len(a) + Len(b)
      /\ \A i \in 1..(Len(a) + Len(b)) : c[i] = IF i <= Len(a) THEN a[i] ELSE b[i - Len(a)]
  BY <1>2, ConcatProperties
<1>4. \A i \in 1..Len(a) : c[i] = a[i]
  BY <1>1, <1>3
<1>5. ASSUME NEW i \in 1..Len(b) PROVE c[Len(a) + i] = b[i]
  <2>1. PICK j \in 1..(Len(a) + Len(b)) : j = Len(a) + i
    BY <1>1
  <2>2. ~(j <= Len(a)) /\ j - Len(a) = i
    BY <1>1, <2>1
  <2> QED
    BY <1>3, <2>1, <2>2
<1> QED
  BY <1>1, <1>2, <1>3, <1>4, <1>5

LEMMA CutAnywhere ==
    ASSUME NEW q \in Seq(ByteRecords), NEW n \in 0..Len(q)
    PROVE  /\ SubSeq(q, 1, n) \in Seq(ByteRecords)
           /\ SubSeq(q, n + 1, Len(q)) \in Seq(ByteRecords)
           /\ q = SubSeq(q, 1, n) \o SubSeq(q, n + 1, Len(q))
           /\ Len(SubSeq(q, 1, n)) = n
<1>1. Len(q) \in Nat
  BY LenProperties
<1>2. SubSeq(q, 1, n) \in Seq(ByteRecords) /\ SubSeq(q, n + 1, Len(q)) \in Seq(ByteRecords)
  BY <1>1, PartOf
<1>3. SubSeq(q, 1, n) \o SubSeq(q, n + 1, Len(q)) = SubSeq(q, 1, Len(q))
  <2>1. 1 \in 1..(Len(q) + 1) /\ n \in (1 - 1)..Len(q) /\ Len(q) \in n..Len(q)
    BY <1>1
  <2> QED
    BY <2>1, ConcatAdjacentSubSeq
<1>4. Len(SubSeq(q, 1, n)) = n
  BY <1>1, PartOf
<1> QED
  BY <1>2, <1>3, <1>4, SubSeqFull

-----------------------------------------------------------------------------
(***************************************************************************)
(* Streams, cut and joined.  The messages that were sent are a parameter    *)
(* here, for one more is sent under way.                                   *)
(***************************************************************************)
NextIn(s, b) == IF b.at < b.len THEN Byte(b.of, b.len, b.at + 1)
                                ELSE Byte(b.of + 1, s[b.of + 1], 1)
ChainedIn(s, bytes) == \A k \in 1..(Len(bytes) - 1) : bytes[k + 1] = NextIn(s, bytes[k])
StartsIn(s, bytes, m) == bytes # <<>> => m <= Len(s) /\ bytes[1] = Byte(m, s[m], 1)
ProperIn(s, b) == b.of <= Len(s) /\ b.len = s[b.of] /\ b.at <= b.len
WholeIn(s, bytes) == \A k \in 1..Len(bytes) : ProperIn(s, bytes[k])

LEMMA ChainCut ==
    ASSUME NEW a \in Seq(ByteRecords), NEW b \in Seq(ByteRecords), NEW s,
           ChainedIn(s, a \o b)
    PROVE  /\ ChainedIn(s, a) /\ ChainedIn(s, b)
           /\ a # <<>> /\ b # <<>> => b[1] = NextIn(s, a[Len(a)])
<1>1. PICK c \in Seq(ByteRecords) : c = a \o b
  BY Joined, Zenon
<1>2. /\ Len(a) \in Nat /\ Len(b) \in Nat /\ Len(c) = Len(a) + Len(b)
      /\ \A i \in 1..Len(a) : c[i] = a[i]
      /\ \A i \in 1..Len(b) : c[Len(a) + i] = b[i]
  BY <1>1, JoinedAt
<1>3. \A k \in 1..(Len(c) - 1) : c[k + 1] = NextIn(s, c[k])
  BY <1>1 DEF ChainedIn
<1>4. ASSUME NEW k \in 1..(Len(a) - 1) PROVE a[k + 1] = NextIn(s, a[k])
  <2>1. k \in 1..(Len(c) - 1) /\ k \in 1..Len(a) /\ k + 1 \in 1..Len(a)
    BY <1>2
  <2> QED
    BY <1>2, <1>3, <2>1
<1>5. ASSUME NEW k \in 1..(Len(b) - 1) PROVE b[k + 1] = NextIn(s, b[k])
  <2>1. PICK j \in 1..(Len(c) - 1) : j = Len(a) + k
    <3>1. Len(a) + k \in 1..(Len(c) - 1)
      BY <1>2
    <3> QED
      BY <3>1
  <2>2. k \in 1..Len(b) /\ k + 1 \in 1..Len(b) /\ Len(a) + (k + 1) = j + 1
    BY <1>2, <2>1
  <2>3. c[j] = b[k] /\ c[j + 1] = b[k + 1]
    BY <1>2, <2>1, <2>2
  <2> QED
    BY <1>3, <2>1, <2>3
<1>6. ASSUME a # <<>>, b # <<>> PROVE b[1] = NextIn(s, a[Len(a)])
  <2>1. Len(a) # 0 /\ Len(b) # 0
    BY <1>6, EmptySeq
  <2>2. Len(a) \in 1..(Len(c) - 1) /\ Len(a) \in 1..Len(a) /\ 1 \in 1..Len(b)
    BY <1>2, <2>1
  <2>3. c[Len(a)] = a[Len(a)] /\ c[Len(a) + 1] = b[1]
    BY <1>2, <2>2
  <2> QED
    BY <1>3, <2>2, <2>3
<1> QED
  BY <1>4, <1>5, <1>6 DEF ChainedIn

LEMMA ChainJoined ==
    ASSUME NEW a \in Seq(ByteRecords), NEW b \in Seq(ByteRecords), NEW s,
           ChainedIn(s, a), ChainedIn(s, b),
           a # <<>> /\ b # <<>> => b[1] = NextIn(s, a[Len(a)])
    PROVE  ChainedIn(s, a \o b)
<1>1. PICK c \in Seq(ByteRecords) : c = a \o b
  BY Joined, Zenon
<1>2. /\ Len(a) \in Nat /\ Len(b) \in Nat /\ Len(c) = Len(a) + Len(b)
      /\ \A i \in 1..Len(a) : c[i] = a[i]
      /\ \A i \in 1..Len(b) : c[Len(a) + i] = b[i]
  BY <1>1, JoinedAt
<1>3. ASSUME NEW k \in 1..(Len(c) - 1) PROVE c[k + 1] = NextIn(s, c[k])
  <2>1. CASE k < Len(a)
    <3>1. k \in 1..(Len(a) - 1) /\ k \in 1..Len(a) /\ k + 1 \in 1..Len(a)
      BY <1>2, <2>1
    <3>2. c[k] = a[k] /\ c[k + 1] = a[k + 1]
      BY <1>2, <3>1
    <3> QED
      BY <3>1, <3>2 DEF ChainedIn
  <2>2. CASE k = Len(a)
    <3>1. Len(a) \in 1..Len(a) /\ 1 \in 1..Len(b) /\ a # <<>> /\ b # <<>>
      BY <1>2, <2>2
    <3>2. c[k] = a[Len(a)] /\ c[k + 1] = b[1]
      BY <1>2, <2>2, <3>1
    <3> QED
      BY <3>1, <3>2
  <2>3. CASE k > Len(a)
    <3>1. PICK j \in 1..(Len(b) - 1) : k = Len(a) + j
      <4>1. k - Len(a) \in 1..(Len(b) - 1) /\ k = Len(a) + (k - Len(a))
        BY <1>2, <2>3
      <4> QED
        BY <4>1
    <3>2. j \in 1..Len(b) /\ j + 1 \in 1..Len(b) /\ k + 1 = Len(a) + (j + 1)
      BY <1>2, <3>1
    <3>3. c[k] = b[j] /\ c[k + 1] = b[j + 1]
      BY <1>2, <3>1, <3>2
    <3> QED
      BY <3>1, <3>3 DEF ChainedIn
  <2> QED
    BY <1>2, <2>1, <2>2, <2>3
<1> QED
  BY <1>1, <1>3 DEF ChainedIn

LEMMA WholeJoined ==
    ASSUME NEW a \in Seq(ByteRecords), NEW b \in Seq(ByteRecords), NEW s
    PROVE  WholeIn(s, a \o b) <=> WholeIn(s, a) /\ WholeIn(s, b)
<1>1. PICK c \in Seq(ByteRecords) : c = a \o b
  BY Joined, Zenon
<1>2. /\ Len(a) \in Nat /\ Len(b) \in Nat /\ Len(c) = Len(a) + Len(b)
      /\ \A i \in 1..Len(a) : c[i] = a[i]
      /\ \A i \in 1..Len(b) : c[Len(a) + i] = b[i]
  BY <1>1, JoinedAt
<1>3. ASSUME WholeIn(s, c) PROVE WholeIn(s, a) /\ WholeIn(s, b)
  <2>1. \A i \in 1..Len(a) : i \in 1..Len(c)
    BY <1>2
  <2>2. \A i \in 1..Len(b) : Len(a) + i \in 1..Len(c)
    BY <1>2
  <2> QED
    BY <1>2, <1>3, <2>1, <2>2 DEF WholeIn
<1>4. ASSUME WholeIn(s, a), WholeIn(s, b) PROVE WholeIn(s, c)
  <2> SUFFICES ASSUME NEW k \in 1..Len(c) PROVE ProperIn(s, c[k])
    BY DEF WholeIn
  <2>1. CASE k <= Len(a)
    BY <1>2, <1>4, <2>1 DEF WholeIn
  <2>2. CASE ~(k <= Len(a))
    <3>1. PICK j \in 1..Len(b) : k = Len(a) + j
      <4>1. k - Len(a) \in 1..Len(b) /\ k = Len(a) + (k - Len(a))
        BY <1>2, <2>2
      <4> QED
        BY <4>1
    <3> QED
      BY <1>2, <1>4, <3>1 DEF WholeIn
  <2> QED
    BY <2>1, <2>2
<1> QED
  BY <1>1, <1>3, <1>4

LEMMA FirstLast ==
    ASSUME NEW a \in Seq(ByteRecords), NEW b \in Seq(ByteRecords)
    PROVE  /\ a # <<>> => a \o b # <<>> /\ (a \o b)[1] = a[1]
           /\ b # <<>> => a \o b # <<>> /\ (a \o b)[Len(a \o b)] = b[Len(b)]
           /\ a = <<>> => a \o b = b
           /\ b = <<>> => a \o b = a
<1>1. PICK c \in Seq(ByteRecords) : c = a \o b
  BY Joined, Zenon
<1>2. /\ Len(a) \in Nat /\ Len(b) \in Nat /\ Len(c) = Len(a) + Len(b)
      /\ \A i \in 1..Len(a) : c[i] = a[i]
      /\ \A i \in 1..Len(b) : c[Len(a) + i] = b[i]
  BY <1>1, JoinedAt
<1>3. ASSUME a # <<>> PROVE c # <<>> /\ c[1] = a[1]
  <2>1. Len(a) # 0
    BY <1>3, EmptySeq
  <2>2. 1 \in 1..Len(a) /\ Len(c) # 0
    BY <1>2, <2>1
  <2> QED
    BY <1>2, <2>2
<1>4. ASSUME b # <<>> PROVE c # <<>> /\ c[Len(c)] = b[Len(b)]
  <2>1. Len(b) # 0
    BY <1>4, EmptySeq
  <2>2. Len(b) \in 1..Len(b) /\ Len(c) # 0
    BY <1>2, <2>1
  <2> QED
    BY <1>2, <2>2
<1>5. (a = <<>> => a \o b = b) /\ (b = <<>> => a \o b = a)
  BY ConcatEmptySeq
<1> QED
  BY <1>1, <1>3, <1>4, <1>5

LEMMA NowIn ==
    ASSUME NEW bytes
    PROVE  /\ Whole(bytes) <=> WholeIn(sent, bytes)
           /\ Chained(bytes) <=> ChainedIn(sent, bytes)
           /\ \A m : Stream(bytes, m) <=> StartsIn(sent, bytes, m) /\ ChainedIn(sent, bytes)
           /\ \A b : NextByte(b) = NextIn(sent, b)
  BY DEF Whole, WholeIn, Proper, ProperIn, Chained, ChainedIn, NextByte, NextIn, Stream, StartsIn

\* A stream stays one when one more message is sent.
LEMMA SentAppend ==
    ASSUME NEW s \in Seq(Lengths), NEW l \in Lengths
    PROVE  /\ Append(s, l) \in Seq(Lengths) /\ Len(Append(s, l)) = Len(s) + 1
           /\ Append(s, l)[Len(s) + 1] = l /\ Len(s) \in Nat
           /\ \A k \in 1..Len(s) : Append(s, l)[k] = s[k]
  BY AppendProperties, LenProperties

LEMMA StreamGrows ==
    ASSUME NEW s \in Seq(Lengths), NEW l \in Lengths, NEW bytes \in Seq(ByteRecords),
           WholeIn(s, bytes)
    PROVE  /\ WholeIn(Append(s, l), bytes)
           /\ ChainedIn(s, bytes) => ChainedIn(Append(s, l), bytes)
           /\ \A m \in Nat \ {0} : StartsIn(s, bytes, m) => StartsIn(Append(s, l), bytes, m)
<1>1. PICK t : t = Append(s, l)
  OBVIOUS
<1>2. /\ Len(t) = Len(s) + 1 /\ Len(s) \in Nat
      /\ \A k \in 1..Len(s) : t[k] = s[k]
  BY <1>1, SentAppend
<1>3. Len(bytes) \in Nat /\ \A k \in 1..Len(bytes) : bytes[k] \in ByteRecords
  BY LenProperties, ElementOfSeq
<1>4. ASSUME NEW k \in 1..Len(bytes)
      PROVE  /\ bytes[k].of \in 1..Len(s) /\ ProperIn(s, bytes[k])
             /\ t[bytes[k].of] = s[bytes[k].of] /\ ProperIn(t, bytes[k])
  <2>1. ProperIn(s, bytes[k])
    BY DEF WholeIn
  <2>2. PICK m \in Nat : m = bytes[k].of /\ m >= 1
    BY <1>3, ByteIsRecord, SMTT(30) DEF ByteRecords, Messages
  <2>3. m \in 1..Len(s)
    BY <1>2, <2>1, <2>2 DEF ProperIn
  <2>4. t[m] = s[m] /\ m <= Len(t)
    BY <1>2, <2>3
  <2> QED
    BY <2>1, <2>2, <2>3, <2>4 DEF ProperIn
<1>5. ASSUME ChainedIn(s, bytes), NEW k \in 1..(Len(bytes) - 1)
      PROVE  bytes[k + 1] = NextIn(t, bytes[k])
  <2>1. k \in 1..Len(bytes) /\ k + 1 \in 1..Len(bytes)
    BY <1>3
  <2>2. bytes[k + 1] = NextIn(s, bytes[k])
    BY <1>5 DEF ChainedIn
  <2>3. CASE bytes[k].at < bytes[k].len
    BY <2>2, <2>3 DEF NextIn
  <2>4. CASE ~(bytes[k].at < bytes[k].len)
    <3>1. bytes[k + 1].of = bytes[k].of + 1
      BY <2>2, <2>4, ByteIsRecord DEF NextIn
    <3>2. t[bytes[k].of + 1] = s[bytes[k].of + 1]
      BY <1>4, <2>1, <3>1
    <3> QED
      BY <2>2, <2>4, <3>2 DEF NextIn
  <2> QED
    BY <2>3, <2>4
<1>6. ASSUME NEW m \in Nat \ {0}, StartsIn(s, bytes, m) PROVE StartsIn(t, bytes, m)
  <2> SUFFICES ASSUME bytes # <<>> PROVE m <= Len(t) /\ bytes[1] = Byte(m, t[m], 1)
    BY DEF StartsIn
  <2>1. m <= Len(s) /\ bytes[1] = Byte(m, s[m], 1)
    BY <1>6 DEF StartsIn
  <2>2. m \in 1..Len(s)
    BY <1>2, <2>1
  <2> QED
    BY <1>2, <2>1, <2>2
<1>7. WholeIn(t, bytes)
  BY <1>4 DEF WholeIn
<1>8. ChainedIn(s, bytes) => ChainedIn(t, bytes)
  BY <1>5 DEF ChainedIn
<1> QED
  BY <1>1, <1>6, <1>7, <1>8

\* The bytes of a message.
LEMMA BytesOf ==
    ASSUME NEW s \in Seq(Lengths), NEW m \in Messages, m <= Len(s), NEW l \in Lengths, l = s[m]
    PROVE  /\ Bytes(m, l) \in Seq(ByteRecords) /\ Len(Bytes(m, l)) = l /\ Bytes(m, l) # <<>>
           /\ Bytes(m, l)[1] = Byte(m, l, 1) /\ Bytes(m, l)[Len(Bytes(m, l))] = Byte(m, l, l)
           /\ WholeIn(s, Bytes(m, l)) /\ ChainedIn(s, Bytes(m, l))
<1>1. l \in Nat /\ l >= 1
  BY Sizes
<1>2. PICK b : b = Bytes(m, l)
  OBVIOUS
<1>3. b = [k \in 1..l |-> Byte(m, l, k)]
  BY <1>2 DEF Bytes
<1>4. \A k \in 1..l : b[k] = Byte(m, l, k) /\ b[k] \in ByteRecords
  BY <1>1, <1>3 DEF Byte, ByteRecords
<1>5. b \in Seq(ByteRecords) /\ Len(b) = l
  <2>1. b \in [1..l -> ByteRecords]
    BY <1>3, <1>4
  <2> QED
    BY <1>1, <2>1 DEF Seq
<1>6. b # <<>> /\ 1 \in 1..l /\ l \in 1..l
  BY <1>1, <1>5
<1>7. WholeIn(s, b)
  BY <1>4, <1>5, ByteIsRecord DEF WholeIn, ProperIn
<1>8. ASSUME NEW k \in 1..(l - 1) PROVE b[k + 1] = NextIn(s, b[k])
  <2>1. k \in 1..l /\ k + 1 \in 1..l /\ k < l
    BY <1>1
  <2>2. b[k] = Byte(m, l, k) /\ b[k + 1] = Byte(m, l, k + 1)
    BY <1>4, <2>1
  <2> QED
    BY <2>1, <2>2, ByteIsRecord DEF NextIn
<1>9. ChainedIn(s, b)
  BY <1>5, <1>8 DEF ChainedIn
<1> QED
  BY <1>2, <1>4, <1>5, <1>6, <1>7, <1>9

-----------------------------------------------------------------------------
(***************************************************************************)
(* The invariant.                                                          *)
(***************************************************************************)

\* What a step has to show, with the messages that are sent after it.
LEMMA StreamThen ==
    ASSUME WholeIn(sent', out_buffer'), WholeIn(sent', wire'), WholeIn(sent', in_buffer'),
           receiver' => /\ StartsIn(sent', UnderWay', Len(received') + 1)
                        /\ ChainedIn(sent', UnderWay')
                        /\ sender' /\ Len(received') < Len(sent')
                              => /\ UnderWay' # <<>>
                                 /\ UnderWay'[Len(UnderWay')]
                                       = Byte(Len(sent'), sent'[Len(sent')], sent'[Len(sent')])
    PROVE  BytesWhole' /\ StreamInv'
<1>1. BytesWhole'
  BY DEF BytesWhole, Whole, WholeIn, Proper, ProperIn
<1>2. receiver' => Stream(UnderWay, Len(received) + 1)'
  BY DEF Stream, StartsIn, ChainedIn, NextByte, NextIn, UnderWay
<1>3. receiver' => (sender => ToTheEnd(UnderWay))'
  BY DEF ToTheEnd, LastByte, UnderWay
<1> QED
  BY <1>1, <1>2, <1>3 DEF StreamInv

LEMMA FramingInit == Init => FramingInv
<1> SUFFICES ASSUME Init PROVE FramingInv
  OBVIOUS
<1>1. /\ <<>> \in Seq(ByteRecords) /\ <<>> \in Seq(Lengths) /\ <<>> \in Seq(Messages)
      /\ Len(<<>>) = 0 /\ <<>> \o <<>> \o <<>> = <<>>
  <2>1. <<>> \in Seq(ByteRecords) /\ <<>> \in Seq(Lengths) /\ <<>> \in Seq(Messages)
        /\ Len(<<>>) = 0
    BY EmptySeq
  <2>2. <<>> \o <<>> = <<>>
    BY <2>1, ConcatEmptySeq
  <2> QED
    BY <2>1, <2>2, Zenon
<1>2. TypeInv
  <2>1. Len(<<>>) <= Room /\ Len(<<>>) <= MaxMessages
    BY <1>1, Sizes
  <2>2. sent = <<>> /\ received = <<>> /\ out_buffer = <<>> /\ wire = <<>> /\ in_buffer = <<>>
        /\ ended \in BOOLEAN /\ sender \in BOOLEAN /\ receiver \in BOOLEAN
    BY DEF Init
  <2> QED
    BY <1>1, <2>1, <2>2, Zenon DEF TypeInv
<1>3. BytesWhole
  BY <1>1 DEF Init, BytesWhole, Whole
<1>4. CountInv /\ EndInv
  BY <1>1 DEF Init, CountInv, EndInv
<1>5. UnderWay = <<>>
  BY <1>1, Zenon DEF Init, UnderWay
<1>6. StreamInv
  BY <1>1, <1>5 DEF Init, StreamInv, Stream, ToTheEnd
<1> QED
  BY <1>2, <1>3, <1>4, <1>6 DEF FramingInv

\* What the sender and the receiver have is one stream.
LEMMA NowStream ==
    ASSUME FramingInv
    PROVE  /\ UnderWay \in Seq(ByteRecords) /\ WholeIn(sent, UnderWay)
           /\ receiver => /\ StartsIn(sent, UnderWay, Len(received) + 1)
                          /\ ChainedIn(sent, UnderWay)
                          /\ sender => ToTheEnd(UnderWay)
<1>1. out_buffer \in Seq(ByteRecords) /\ wire \in Seq(ByteRecords)
      /\ in_buffer \in Seq(ByteRecords)
  BY DEF FramingInv, TypeInv
<1>2. PICK a \in Seq(ByteRecords) : a = in_buffer \o wire
  BY <1>1, Joined, Zenon
<1>3. UnderWay = a \o out_buffer /\ UnderWay \in Seq(ByteRecords)
  BY <1>1, <1>2, Joined, Zenon DEF UnderWay
<1>4. WholeIn(sent, out_buffer) /\ WholeIn(sent, wire) /\ WholeIn(sent, in_buffer)
  BY NowIn DEF FramingInv, BytesWhole
<1>5. WholeIn(sent, a)
  BY <1>1, <1>2, <1>4, WholeJoined
<1>6. WholeIn(sent, UnderWay)
  BY <1>1, <1>3, <1>4, <1>5, WholeJoined
<1>7. receiver => Stream(UnderWay, Len(received) + 1) /\ (sender => ToTheEnd(UnderWay))
  BY DEF FramingInv, StreamInv
<1> QED
  BY <1>3, <1>6, <1>7, NowIn

LEMMA DropKeeps ==
    ASSUME FramingInv, Drop, UNCHANGED <<sent, out_buffer>>,
           received' \in Seq(Messages), ended' \in BOOLEAN, sender' = sender, CountInv'
    PROVE  FramingInv'
<1>1. <<>> \in Seq(ByteRecords) /\ Len(<<>>) = 0
  BY EmptySeq
<1>2. TypeInv'
  <2>1. Len(<<>>) <= Room
    BY <1>1, Sizes
  <2>2. wire' = <<>> /\ in_buffer' = <<>> /\ receiver' \in BOOLEAN
    BY DEF Drop
  <2> QED
    BY <1>1, <2>1, <2>2, Zenon DEF FramingInv, TypeInv
<1>3. WholeIn(sent', out_buffer') /\ WholeIn(sent', wire') /\ WholeIn(sent', in_buffer')
  BY <1>1, NowIn DEF FramingInv, BytesWhole, Drop, WholeIn
<1>4. BytesWhole' /\ StreamInv'
  BY <1>3, StreamThen DEF Drop
<1>5. EndInv'
  BY DEF FramingInv, EndInv, Drop
<1> QED
  BY <1>2, <1>4, <1>5 DEF FramingInv

LEMMA ClosesStep ==
    ASSUME FramingInv, ReadEnd \/ CloseReceiver
    PROVE  FramingInv'
<1>1. received' = received /\ sent' = sent /\ sender' = sender /\ Drop
      /\ out_buffer' = out_buffer /\ ended' \in BOOLEAN
  BY DEF ReadEnd, CloseReceiver, FramingInv, TypeInv
<1>2. CountInv'
  BY <1>1 DEF FramingInv, CountInv
<1> QED
  BY <1>1, <1>2, DropKeeps DEF FramingInv, TypeInv

LEMMA CloseSenderStep ==
    ASSUME FramingInv, CloseSender
    PROVE  FramingInv'
<1>1. /\ out_buffer' = <<>> /\ sender' = FALSE /\ ended' = (ended \/ receiver) /\ sender
      /\ sent' = sent /\ wire' = wire /\ in_buffer' = in_buffer /\ received' = received
      /\ receiver' = receiver
  BY DEF CloseSender
<1>2. <<>> \in Seq(ByteRecords) /\ Len(<<>>) = 0
  BY EmptySeq
<1>3. out_buffer \in Seq(ByteRecords) /\ wire \in Seq(ByteRecords)
      /\ in_buffer \in Seq(ByteRecords)
  BY DEF FramingInv, TypeInv
<1>4. PICK a \in Seq(ByteRecords) : a = in_buffer \o wire
  BY <1>3, Joined, Zenon
<1>5. UnderWay = a \o out_buffer /\ UnderWay' = a
  <2>1. a \o <<>> = a
    BY ConcatEmptySeq
  <2> QED
    BY <1>1, <1>4, <2>1, Zenon DEF UnderWay
<1>6. TypeInv'
  BY <1>1, <1>2 DEF FramingInv, TypeInv
<1>7. WholeIn(sent', out_buffer') /\ WholeIn(sent', wire') /\ WholeIn(sent', in_buffer')
  BY <1>1, <1>2, NowIn DEF FramingInv, BytesWhole, WholeIn
<1>8. CountInv'
  BY <1>1 DEF FramingInv, CountInv
<1>9. EndInv'
  BY <1>1 DEF FramingInv, EndInv
<1>10. ASSUME receiver
       PROVE  StartsIn(sent, a, Len(received) + 1) /\ ChainedIn(sent, a)
  <2>1. ChainedIn(sent, a)
    BY <1>3, <1>5, <1>10, ChainCut, NowStream
  <2>2. a # <<>> => a \o out_buffer # <<>> /\ (a \o out_buffer)[1] = a[1]
    BY <1>3, FirstLast
  <2>3. StartsIn(sent, a \o out_buffer, Len(received) + 1)
    BY <1>5, <1>10, NowStream
  <2>4. StartsIn(sent, a, Len(received) + 1)
    BY <2>2, <2>3, Zenon DEF StartsIn
  <2> QED
    BY <2>1, <2>4
<1>11. BytesWhole' /\ StreamInv'
  BY <1>1, <1>5, <1>7, <1>10, StreamThen
<1> QED
  BY <1>6, <1>8, <1>9, <1>11 DEF FramingInv

LEMMA SendStep ==
    ASSUME FramingInv, NEW len \in Lengths, SendNetmsg(len)
    PROVE  FramingInv'
<1> DEFINE buffer == out_buffer \o Bytes(Len(sent'), len)
<1> DEFINE size == IF receiver THEN SmallerOf(Len(buffer), Room - Len(wire)) ELSE 0
<1>1. /\ sender /\ Len(sent) < MaxMessages /\ sent' = Append(sent, len)
      /\ wire' = wire \o SubSeq(buffer, 1, size)
      /\ out_buffer' = SubSeq(buffer, size + 1, Len(buffer))
      /\ in_buffer' = in_buffer /\ received' = received /\ ended' = ended
      /\ sender' = sender /\ receiver' = receiver
  BY DEF SendNetmsg, WriteToSocket, Written
<1>2. /\ sent \in Seq(Lengths) /\ out_buffer \in Seq(ByteRecords) /\ wire \in Seq(ByteRecords)
      /\ in_buffer \in Seq(ByteRecords) /\ Len(wire) <= Room /\ received \in Seq(Messages)
  BY DEF FramingInv, TypeInv
<1>3. /\ sent' \in Seq(Lengths) /\ Len(sent') = Len(sent) + 1 /\ Len(sent) \in Nat
      /\ sent'[Len(sent')] = len
  BY <1>1, <1>2, SentAppend
<1>4. PICK m \in Messages : m = Len(sent')
  BY <1>1, <1>3, Sizes DEF Messages
<1>5. PICK s : s = sent'
  OBVIOUS
<1>6. PICK x \in Seq(ByteRecords) :
         /\ x = Bytes(m, len) /\ x # <<>> /\ x[1] = Byte(m, len, 1) /\ x[Len(x)] = Byte(m, len, len)
         /\ WholeIn(s, x) /\ ChainedIn(s, x)
  BY <1>3, <1>4, <1>5, BytesOf
<1>7. PICK b \in Seq(ByteRecords) : b = out_buffer \o x
  BY <1>2, Joined, Zenon
<1>8. buffer = b
  BY <1>4, <1>6, <1>7
<1>9. Len(b) \in Nat /\ Len(wire) \in Nat
  BY <1>2, LenProperties
<1>10. PICK z \in 0..Len(b) : z = size /\ Len(wire) + z <= Room
  <2>1. SmallerOf(Len(b), Room - Len(wire)) \in 0..Len(b)
        /\ Len(wire) + SmallerOf(Len(b), Room - Len(wire)) <= Room
    <3>1. PICK all \in Nat, free \in Nat : all = Len(b) /\ free = Room - Len(wire)
      <4>1. Len(b) \in Nat /\ Room - Len(wire) \in Nat
        BY <1>2, <1>9, Sizes
      <4> QED
        BY <4>1, Zenon
    <3>2. PICK least \in 0..all : least = SmallerOf(all, free) /\ least <= free
      BY DEF SmallerOf
    <3>3. Len(wire) + least <= Room
      BY <1>9, <3>1, <3>2, Sizes
    <3> QED
      BY <3>1, <3>2, <3>3
  <2>2. 0 \in 0..Len(b) /\ Len(wire) + 0 <= Room
    <3>1. 0 \in 0..Len(b)
      BY <1>9
    <3>2. Len(wire) + 0 = Len(wire)
      BY <1>9
    <3> QED
      BY <1>2, <3>1, <3>2, Zenon
  <2> QED
    BY <1>8, <2>1, <2>2
<1>11. PICK b1, b2 : b1 = SubSeq(b, 1, z) /\ b2 = SubSeq(b, z + 1, Len(b))
  OBVIOUS
<1>12. /\ b1 \in Seq(ByteRecords) /\ b2 \in Seq(ByteRecords) /\ b = b1 \o b2
        /\ Len(b1) = z
  BY <1>11, <1>12, CutAnywhere
<1>13. wire' = wire \o b1 /\ out_buffer' = b2
  BY <1>1, <1>8, <1>10, <1>11, <1>12
<1> HIDE DEF buffer, size
<1>14. wire' \in Seq(ByteRecords) /\ Len(wire') <= Room /\ out_buffer' \in Seq(ByteRecords)
  <2>1. wire \o b1 \in Seq(ByteRecords)
    BY <1>12, <1>2, Joined, Zenon
  <2>2. Len(wire \o b1) = Len(wire) + Len(b1)
    BY <1>2, JoinedAt
  <2> QED
    BY <1>10, <1>11, <1>12, <1>13, <2>1, <2>2
<1>15. TypeInv'
  <2>1. Len(sent') <= MaxMessages
    BY <1>1, <1>3, Sizes
  <2> QED
    BY <1>1, <1>3, <1>14, <2>1, Zenon DEF FramingInv, TypeInv
<1>16. /\ WholeIn(s, out_buffer) /\ WholeIn(s, wire) /\ WholeIn(s, in_buffer)
  BY <1>1, <1>2, <1>5, NowIn, StreamGrows DEF FramingInv, BytesWhole
<1>17. WholeIn(s, b1) /\ WholeIn(s, b2)
  <2>1. WholeIn(s, b)
    BY <1>2, <1>6, <1>7, <1>16, WholeJoined
  <2>2. WholeIn(s, b1 \o b2)
    BY <1>11, <1>12, <2>1, Zenon
  <2> QED
    BY <1>12, <2>2, WholeJoined
<1>18. WholeIn(s, out_buffer') /\ WholeIn(s, wire') /\ WholeIn(s, in_buffer')
  <2>1. WholeIn(s, wire \o b1)
    BY <1>12, <1>2, <1>16, <1>17, WholeJoined
  <2> QED
    BY <1>1, <1>13, <1>16, <1>17, <2>1, Zenon
<1>19. CountInv'
  BY <1>1, <1>2, <1>3, LenProperties DEF FramingInv, CountInv
<1>20. EndInv'
  BY <1>1 DEF FramingInv, EndInv
<1>21. PICK u \in Seq(ByteRecords) : u = UnderWay
  BY NowStream
<1>22. UnderWay' = u \o x
  <2>1. UnderWay' = in_buffer \o (wire \o b1) \o b2
    BY <1>1, <1>13, Zenon DEF UnderWay
  <2>2. Regrouped(in_buffer, wire, b1, b2) /\ Regrouped(in_buffer, wire, out_buffer, x)
    BY <1>12, <1>2, Regroup, Zenon
  <2>3. in_buffer \o (wire \o b1) \o b2 = (in_buffer \o wire) \o (b1 \o b2)
    BY <2>2, Zenon DEF Regrouped
  <2>4. (in_buffer \o wire \o out_buffer) \o x = (in_buffer \o wire) \o (out_buffer \o x)
    BY <2>2, Zenon DEF Regrouped
  <2>5. out_buffer \o x = b1 \o b2
    BY <1>7, <1>11, <1>12, Zenon
  <2> QED
    BY <1>21, <2>1, <2>3, <2>4, <2>5, Zenon DEF UnderWay
<1>23. u \o x # <<>> /\ (u \o x)[Len(u \o x)] = Byte(m, len, len)
  BY <1>6, FirstLast
<1>24. ASSUME receiver
       PROVE  StartsIn(s, u \o x, Len(received) + 1) /\ ChainedIn(s, u \o x)
  <2>1. /\ StartsIn(sent, u, Len(received) + 1) /\ ChainedIn(sent, u) /\ WholeIn(sent, u)
        /\ ToTheEnd(u)
    BY <1>1, <1>21, <1>24, NowStream
  <2>2. Len(received) + 1 \in Nat \ {0} /\ Len(received) \in Nat
    BY <1>2, LenProperties
  <2>3. StartsIn(s, u, Len(received) + 1) /\ ChainedIn(s, u)
    BY <1>1, <1>2, <1>5, <2>1, <2>2, StreamGrows
  <2>4. CASE u = <<>>
    <3>1. u \o x = x
      BY <2>4, FirstLast
    <3>2. Len(received) = Len(sent)
      BY <1>3, <2>1, <2>2, <2>4 DEF FramingInv, CountInv, ToTheEnd
    <3>3. m = Len(received) + 1 /\ m <= Len(s) /\ s[m] = len
      BY <1>3, <1>4, <1>5, <3>2
    <3> QED
      BY <1>6, <3>1, <3>3, Zenon DEF StartsIn
  <2>5. CASE u # <<>>
    <3>1. Len(received) < Len(sent)
      BY <1>3, <2>1, <2>2, <2>5 DEF StartsIn
    <3>2. u[Len(u)] = Byte(Len(sent), sent[Len(sent)], sent[Len(sent)])
      BY <2>1, <3>1 DEF ToTheEnd, LastByte
    <3>3. x[1] = NextIn(s, u[Len(u)])
      <4>1. sent[Len(sent)] \in Lengths
        BY <1>2, <1>3, <2>2, <3>1, ElementOfSeq
      <4>2. PICK l \in Nat : l = sent[Len(sent)]
        BY <4>1, Sizes
      <4>3. u[Len(u)] = Byte(Len(sent), l, l) /\ ~(l < l)
        BY <3>2, <4>2
      <4>4. NextIn(s, u[Len(u)]) = Byte(Len(sent) + 1, s[Len(sent) + 1], 1)
        BY <4>3, ByteIsRecord DEF NextIn
      <4> QED
        BY <1>3, <1>4, <1>5, <1>6, <4>4
    <3>4. ChainedIn(s, u \o x)
      BY <1>6, <2>3, <3>3, ChainJoined
    <3>5. (u \o x)[1] = u[1]
      BY <2>5, FirstLast
    <3> QED
      BY <2>3, <2>5, <3>4, <3>5, Zenon DEF StartsIn
  <2> QED
    BY <2>4, <2>5
<1>25. BytesWhole' /\ StreamInv'
  BY <1>1, <1>3, <1>4, <1>5, <1>18, <1>22, <1>23, <1>24, StreamThen
<1> QED
  BY <1>15, <1>19, <1>20, <1>25 DEF FramingInv

\* What has been read is the front of the stream, and the loop takes messages of it.
LEMMA FrontTaken ==
    ASSUME FramingInv, receiver, NEW b \in Seq(ByteRecords), NEW r \in Seq(ByteRecords),
           UnderWay = b \o r
    PROVE  \E n \in Nat : Takes(b, 0, Len(received) + 1, Dispatch(b), n)
<1>1. PICK m \in Nat : m = Len(received) + 1
  BY LenProperties DEF FramingInv, TypeInv
<1>2. /\ WholeIn(sent, b \o r) /\ StartsIn(sent, b \o r, m) /\ ChainedIn(sent, b \o r)
  BY <1>1, NowStream
<1>3. WholeIn(sent, b) /\ ChainedIn(sent, b)
  BY <1>2, WholeJoined, ChainCut
<1>4. b # <<>> => b[1] = Byte(m, sent[m], 1)
  <2>1. b # <<>> => b \o r # <<>> /\ (b \o r)[1] = b[1]
    BY FirstLast
  <2> QED
    BY <1>2, <2>1, Zenon DEF StartsIn
<1>5. Whole(b) /\ Chained(b)
  BY <1>3, NowIn
<1>6. sent \in Seq(Lengths)
  BY DEF FramingInv, TypeInv
<1> QED
  BY <1>1, <1>4, <1>5, <1>6, DispatchTakes

LEMMA TakenCounts ==
    ASSUME FramingInv, NEW b \in Seq(ByteRecords), NEW d, NEW n \in Nat,
           Takes(b, 0, Len(received) + 1, d, n),
           sent' = sent, received' = received \o d.messages
    PROVE  CountInv' /\ received' \in Seq(Messages) /\ Len(received') = Len(received) + n
<1>1. /\ received \in Seq(Messages) /\ Len(received) \in Nat /\ sent \in Seq(Lengths)
      /\ Len(sent) \in Nat /\ Len(sent) <= MaxMessages /\ MaxMessages \in Nat
      /\ Len(received) <= Len(sent) /\ \A k \in 1..Len(received) : received[k] = k
  BY Sizes, LenProperties DEF FramingInv, TypeInv, CountInv
<1>2. PICK l \in Nat : l = Len(received)
  BY <1>1
<1>3. PICK q : q = d.messages
  OBVIOUS
<1>4. q = [k \in 1..n |-> (l + 1) + k - 1] /\ (n = 0 \/ (l + 1) + n - 1 <= Len(sent))
  BY <1>2, <1>3 DEF Takes
<1>5. l + n <= Len(sent)
  BY <1>1, <1>2, <1>4
<1>6. \A k \in 1..n : q[k] = l + k /\ q[k] \in Messages
  BY <1>1, <1>4, <1>5 DEF Messages
<1>7. q \in Seq(Messages) /\ Len(q) = n
  <2>1. q \in [1..n -> Messages]
    BY <1>4, <1>6
  <2> QED
    BY <2>1 DEF Seq
<1>8. PICK c : c = received \o q
  OBVIOUS
<1>9. /\ c \in Seq(Messages) /\ Len(c) = l + n
      /\ \A i \in 1..(l + n) : c[i] = IF i <= l THEN received[i] ELSE q[i - l]
  BY <1>1, <1>2, <1>7, <1>8, ConcatProperties
<1>10. ASSUME NEW i \in 1..(l + n) PROVE c[i] = i
  <2>1. CASE i <= l
    BY <1>1, <1>2, <1>9, <2>1
  <2>2. CASE ~(i <= l)
    <3>1. i - l \in 1..n /\ l + (i - l) = i
      BY <2>2
    <3> QED
      BY <1>6, <1>9, <2>2, <3>1
  <2> QED
    BY <2>1, <2>2
<1>11. received' = c
  BY <1>3, <1>8
<1> QED
  BY <1>2, <1>5, <1>9, <1>10, <1>11 DEF CountInv

\* Of what has been read, some is taken from the front of the stream.
Parted(gone, kept, b, r, v) ==
    /\ b = gone \o kept /\ v = kept \o r
    /\ UnderWay = b \o r /\ UnderWay = gone \o v

\* What the loop leaves is a stream again.
LEMMA RestIsStream ==
    ASSUME FramingInv, receiver,
           NEW gone \in Seq(ByteRecords), NEW kept \in Seq(ByteRecords),
           NEW b \in Seq(ByteRecords), NEW r \in Seq(ByteRecords), NEW v \in Seq(ByteRecords),
           Parted(gone, kept, b, r, v), NEW d, d.ok, d.taken = Len(gone), NEW n \in Nat,
           Takes(b, 0, Len(received) + 1, d, n)
    PROVE  /\ WholeIn(sent, kept) /\ ChainedIn(sent, v)
           /\ StartsIn(sent, v, Len(received) + n + 1)
           /\ sender /\ Len(received) + n < Len(sent)
                 => v # <<>> /\ v[Len(v)] = LastByte(Len(sent))
<1>1. b = gone \o kept /\ v = kept \o r /\ UnderWay = b \o r /\ UnderWay = gone \o v
  BY DEF Parted
<1>2. PICK l \in Nat : l = Len(received)
  BY LenProperties DEF FramingInv, TypeInv
<1>3. Len(sent) \in Nat
  BY LenProperties DEF FramingInv, TypeInv
<1>4. PICK u \in Seq(ByteRecords) : u = UnderWay
  BY NowStream
<1>5. /\ WholeIn(sent, u) /\ StartsIn(sent, u, l + 1) /\ ChainedIn(sent, u)
      /\ sender => ToTheEnd(u)
  BY <1>2, <1>4, NowStream
<1>6. u = b \o r /\ u = gone \o v
  BY <1>1, <1>4
<1>7. WholeIn(sent, b) /\ WholeIn(sent, v) /\ ChainedIn(sent, v)
  <2>1. WholeIn(sent, b \o r) /\ WholeIn(sent, gone \o v) /\ ChainedIn(sent, gone \o v)
    BY <1>5, <1>6, Zenon
  <2> QED
    BY <2>1, WholeJoined, ChainCut
<1>8. WholeIn(sent, kept)
  <2>1. WholeIn(sent, gone \o kept)
    BY <1>1, <1>7, Zenon
  <2> QED
    BY <2>1, WholeJoined
<1>9. /\ Len(gone) \in Nat /\ Len(kept) \in Nat /\ Len(gone \o kept) = Len(gone) + Len(kept)
      /\ \A i \in 1..Len(kept) : (gone \o kept)[Len(gone) + i] = kept[i]
  BY JoinedAt
<1>10. /\ Len(b) \in Nat /\ Len(b) = Len(gone) + Len(kept)
      /\ \A i \in 1..Len(kept) : b[Len(gone) + i] = kept[i]
  BY <1>1, <1>9
<1>11. /\ Len(gone) < Len(b) => b[Len(gone) + 1] = Byte(l + 1 + n, sent[l + 1 + n], 1)
       /\ IF n = 0 THEN Len(gone) = 0
          ELSE Len(gone) > 0 /\ b[Len(gone)] = LastByte(l + 1 + n - 1)
  BY <1>2 DEF Takes
<1>12. kept = <<>> => v = r /\ Len(gone) = Len(b)
  <2>1. kept = <<>> => kept \o r = r
    BY FirstLast
  <2>2. kept = <<>> => Len(kept) = 0
    BY EmptySeq
  <2> QED
    BY <1>1, <1>10, <2>1, <2>2
<1>13. n = 0 /\ kept = <<>> => b = <<>> /\ u = r
  <2>1. n = 0 /\ kept = <<>> => b = <<>>
    BY <1>10, <1>11, <1>12, EmptySeq
  <2>2. b = <<>> => b \o r = r
    BY FirstLast
  <2> QED
    BY <1>6, <2>1, <2>2
<1>14. ASSUME v # <<>> PROVE v[1] = Byte(l + 1 + n, sent[l + 1 + n], 1)
  <2>1. CASE kept # <<>>
    <3>1. Len(kept) # 0
      BY <2>1, EmptySeq
    <3>2. 1 \in 1..Len(kept) /\ Len(gone) < Len(b)
      BY <1>10, <3>1
    <3>3. (kept \o r)[1] = kept[1]
      BY <2>1, FirstLast
    <3> QED
      BY <1>1, <1>10, <1>11, <3>2, <3>3
  <2>2. CASE kept = <<>> /\ n = 0
    <3>1. v = u /\ l + 1 + n = l + 1
      BY <1>12, <1>13, <2>2
    <3> QED
      BY <1>5, <1>14, <3>1 DEF StartsIn
  <2>3. CASE kept = <<>> /\ n # 0
    <3>1. b # <<>>
      BY <1>10, <1>11, <1>12, <2>3, EmptySeq
    <3>2. ChainedIn(sent, b \o r)
      BY <1>5, <1>6, Zenon
    <3>3. v = r /\ b[Len(b)] = LastByte(l + 1 + n - 1)
      BY <1>11, <1>12, <2>3
    <3>4. r[1] = NextIn(sent, b[Len(b)])
      BY <1>14, <3>1, <3>2, <3>3, ChainCut
    <3>5. PICK k \in Nat : k = l + 1 + n - 1 /\ k + 1 = l + 1 + n
      BY <2>3
    <3>6. b[Len(b)] \in ByteRecords
      <4>1. Len(b) \in 1..Len(b)
        BY <1>10, <3>1, EmptySeq
      <4> QED
        BY <4>1, ElementOfSeq
    <3>7. b[Len(b)].of = k /\ b[Len(b)].at = b[Len(b)].len /\ b[Len(b)].len \in Nat
      <4>1. b[Len(b)] = Byte(k, sent[k], sent[k])
        BY <3>3, <3>5, Zenon DEF LastByte
      <4> QED
        BY <3>6, <4>1, ByteIsRecord
    <3>8. NextIn(sent, b[Len(b)]) = Byte(k + 1, sent[k + 1], 1)
      <4>1. ~(b[Len(b)].at < b[Len(b)].len)
        <5>1. PICK x \in Nat : x = b[Len(b)].at /\ x = b[Len(b)].len
          BY <3>7, Zenon
        <5>2. ~(x < x)
          OBVIOUS
        <5> QED
          BY <5>1, <5>2, Zenon
      <4> QED
        BY <3>7, <4>1, Zenon DEF NextIn
    <3> QED
      BY <3>3, <3>4, <3>5, <3>8
  <2> QED
    BY <2>1, <2>2, <2>3
<1>15. ASSUME v # <<>> PROVE l + 1 + n <= Len(sent)
  <2>1. 1 \in 1..Len(v)
    BY <1>15, EmptySeq
  <2>2. v[1].of <= Len(sent)
    BY <1>7, <2>1 DEF WholeIn, ProperIn
  <2> QED
    BY <1>14, <1>15, <2>2, ByteIsRecord
<1>16. l + n + 1 = l + 1 + n
  OBVIOUS
<1>17. StartsIn(sent, v, l + n + 1)
  BY <1>14, <1>15, <1>16 DEF StartsIn
<1>18. ASSUME sender, l + n < Len(sent) PROVE v # <<>> /\ v[Len(v)] = LastByte(Len(sent))
  <2>1. u # <<>> /\ u[Len(u)] = LastByte(Len(sent))
    BY <1>2, <1>3, <1>5, <1>18 DEF ToTheEnd
  <2>2. ASSUME v = <<>> PROVE FALSE
    <3>1. kept = <<>> /\ r = <<>>
      BY <1>1, <2>2, FirstLast
    <3>2. b \o r = b
      BY <3>1, FirstLast
    <3>3. u = b /\ b # <<>>
      BY <1>6, <2>1, <3>2
    <3>4. n # 0
      BY <1>13, <3>1, <3>3
    <3>5. b[Len(b)] = LastByte(l + 1 + n - 1) /\ b[Len(b)] = LastByte(Len(sent))
      BY <1>11, <1>12, <2>1, <3>1, <3>3, <3>4
    <3>6. PICK k \in Nat : k = l + 1 + n - 1 /\ k = l + n
      OBVIOUS
    <3>7. LastByte(k) = LastByte(Len(sent))
      BY <3>5, <3>6
    <3>8. LastByte(k).of = k /\ LastByte(Len(sent)).of = Len(sent)
      BY ByteIsRecord DEF LastByte
    <3>9. k = Len(sent)
      BY <3>7, <3>8
    <3> QED
      BY <1>3, <1>18, <3>6, <3>9
  <2>3. v # <<>> => (gone \o v)[Len(gone \o v)] = v[Len(v)]
    BY FirstLast
  <2> QED
    BY <1>6, <2>1, <2>2, <2>3, Zenon
<1> QED
  BY <1>2, <1>7, <1>8, <1>17, <1>18

\* A read gives k messages, and ends the connection at one that is too long.
Received(k) ==
    /\ Len(received') = Len(received) + k
    /\ \A j \in (Len(received) + 1)..(Len(received) + k) : sent[j] <= ReadData
    /\ receiver' \/ /\ Len(received) + k < Len(sent)
                    /\ sent[Len(received) + k + 1] > ReadData

LEMMA ReadStep ==
    ASSUME FramingInv, Read
    PROVE  FramingInv' /\ \E k \in Nat : Received(k)
<1>1. receiver /\ UNCHANGED <<sent, out_buffer, ended, sender>>
  BY DEF Read
<1>2. /\ sent \in Seq(Lengths) /\ out_buffer \in Seq(ByteRecords) /\ wire \in Seq(ByteRecords)
      /\ in_buffer \in Seq(ByteRecords) /\ Len(wire) <= Room /\ Len(wire) \in Nat
      /\ ended \in BOOLEAN /\ sender \in BOOLEAN
  BY LenProperties DEF FramingInv, TypeInv
<1>3. PICK n \in 1..SmallerOf(Len(wire), TooBig) :
         LET buffer == in_buffer \o SubSeq(wire, 1, n)
             done == Dispatch(buffer)
         IN  /\ received' = received \o done.messages
             /\ IF done.ok
                THEN /\ in_buffer' = SubSeq(buffer, done.taken + 1, Len(buffer))
                     /\ wire' = SubSeq(wire, n + 1, Len(wire))
                     /\ UNCHANGED receiver
                ELSE Drop
  BY DEF Read
<1>4. n \in 0..Len(wire)
  BY <1>2, Sizes DEF SmallerOf
<1>5. PICK w1 \in Seq(ByteRecords), w2 \in Seq(ByteRecords) :
         w1 = SubSeq(wire, 1, n) /\ w2 = SubSeq(wire, n + 1, Len(wire)) /\ wire = w1 \o w2
         /\ Len(w1) = n
  <2>1. /\ SubSeq(wire, 1, n) \in Seq(ByteRecords)
        /\ SubSeq(wire, n + 1, Len(wire)) \in Seq(ByteRecords)
        /\ wire = SubSeq(wire, 1, n) \o SubSeq(wire, n + 1, Len(wire))
        /\ Len(SubSeq(wire, 1, n)) = n
    BY <1>2, <1>4, CutAnywhere
  <2> QED
    BY <2>1, Zenon
<1>6. PICK b \in Seq(ByteRecords) : b = in_buffer \o w1
  BY <1>2, Joined, Zenon
<1>7. PICK r \in Seq(ByteRecords) : r = w2 \o out_buffer
  BY <1>2, Joined, Zenon
<1>8. UnderWay = b \o r
  <2>1. Regrouped(in_buffer, w1, w2, out_buffer)
    BY <1>2, Regroup, Zenon
  <2>2. in_buffer \o (w1 \o w2) \o out_buffer = (in_buffer \o w1) \o (w2 \o out_buffer)
    BY <2>1, Zenon DEF Regrouped
  <2> QED
    BY <1>5, <1>6, <1>7, <2>2, Zenon DEF UnderWay
<1>9. PICK d : d = Dispatch(b)
  OBVIOUS
<1>10. PICK k \in Nat : Takes(b, 0, Len(received) + 1, d, k)
  BY <1>1, <1>8, <1>9, FrontTaken
<1>11. /\ received' = received \o d.messages
       /\ d.ok => /\ in_buffer' = SubSeq(b, d.taken + 1, Len(b))
                  /\ wire' = w2 /\ receiver' = receiver
       /\ ~d.ok => Drop
  BY <1>3, <1>5, <1>6, <1>9
<1>12. CountInv' /\ received' \in Seq(Messages) /\ Len(received') = Len(received) + k
  BY <1>1, <1>10, <1>11, TakenCounts
<1>13. Received(k)
  <2>1. PICK l \in Nat : l = Len(received)
    BY LenProperties DEF FramingInv, TypeInv
  <2>2. /\ \A j \in (l + 1)..(l + 1 + k - 1) : sent[j] <= ReadData
        /\ ~d.ok => l + 1 + k <= Len(sent) /\ sent[l + 1 + k] > ReadData
    BY <1>10, <2>1 DEF Takes
  <2>3. l + 1 + k = l + k + 1 /\ l + 1 + k - 1 = l + k
    OBVIOUS
  <2>4. Len(sent) \in Nat
    BY <1>2, LenProperties
  <2>5. d.ok => receiver'
    BY <1>1, <1>11
  <2>6. ~d.ok => l + k < Len(sent) /\ sent[l + k + 1] > ReadData
    BY <2>2, <2>3, <2>4
  <2> QED
    BY <1>12, <2>1, <2>2, <2>3, <2>5, <2>6 DEF Received
<1>14. ASSUME ~d.ok PROVE FramingInv'
  BY <1>1, <1>2, <1>11, <1>12, <1>14, DropKeeps
<1>15. ASSUME d.ok PROVE FramingInv'
  <2>1. d.taken \in 0..Len(b)
    BY <1>10 DEF Takes
  <2>2. PICK gone \in Seq(ByteRecords), kept \in Seq(ByteRecords) :
           /\ kept = SubSeq(b, d.taken + 1, Len(b)) /\ b = gone \o kept
           /\ Len(gone) = d.taken
    <3>1. /\ SubSeq(b, 1, d.taken) \in Seq(ByteRecords)
          /\ SubSeq(b, d.taken + 1, Len(b)) \in Seq(ByteRecords)
          /\ b = SubSeq(b, 1, d.taken) \o SubSeq(b, d.taken + 1, Len(b))
          /\ Len(SubSeq(b, 1, d.taken)) = d.taken
      BY <2>1, CutAnywhere
    <3> QED
      BY <3>1, Zenon
  <2>3. PICK v \in Seq(ByteRecords) : v = kept \o r
    BY Joined, Zenon
  <2>4. Regrouped(gone, kept, w2, out_buffer)
    BY <1>2, Regroup, Zenon
  <2>5. v = kept \o w2 \o out_buffer /\ UnderWay = gone \o v
    <3>1. kept \o (w2 \o out_buffer) = (kept \o w2) \o out_buffer
      BY <2>4, Zenon DEF Regrouped
    <3>2. (gone \o kept) \o (w2 \o out_buffer) = gone \o (kept \o w2 \o out_buffer)
      BY <2>4, Zenon DEF Regrouped
    <3> QED
      BY <1>7, <1>8, <2>2, <2>3, <3>1, <3>2, Zenon
  <2>6. /\ in_buffer' = kept /\ wire' = w2 /\ receiver' = receiver
        /\ out_buffer' = out_buffer /\ sent' = sent /\ sender' = sender /\ ended' = ended
    BY <1>1, <1>11, <1>15, <2>2
  <2>7. UnderWay' = v
    BY <2>5, <2>6, Zenon DEF UnderWay
  <2>8. /\ WholeIn(sent, kept) /\ ChainedIn(sent, v)
        /\ StartsIn(sent, v, Len(received) + k + 1)
        /\ sender /\ Len(received) + k < Len(sent)
              => v # <<>> /\ v[Len(v)] = LastByte(Len(sent))
    <3>1. Parted(gone, kept, b, r, v)
      BY <1>8, <2>2, <2>3, <2>5, Zenon DEF Parted
    <3> QED
      BY <1>1, <1>10, <1>15, <2>2, <3>1, RestIsStream
  <2>9. WholeIn(sent, w2) /\ WholeIn(sent, out_buffer)
    <3>1. WholeIn(sent, w1 \o w2) /\ WholeIn(sent, out_buffer)
      BY <1>5, NowIn DEF FramingInv, BytesWhole
    <3> QED
      BY <3>1, WholeJoined
  <2>10. TypeInv'
    <3>1. Len(w2) <= Len(wire)
      BY <1>2, <1>5, JoinedAt
    <3>2. Len(w2) <= Room
      BY <1>2, <3>1, Sizes, LenProperties
    <3> QED
      BY <1>12, <2>6, <3>2, Zenon DEF FramingInv, TypeInv
  <2>11. EndInv'
    BY <2>6 DEF FramingInv, EndInv
  <2>12. BytesWhole' /\ StreamInv'
    <3>1. WholeIn(sent', out_buffer') /\ WholeIn(sent', wire') /\ WholeIn(sent', in_buffer')
      BY <2>6, <2>8, <2>9
    <3>2. StartsIn(sent', UnderWay', Len(received') + 1) /\ ChainedIn(sent', UnderWay')
      BY <1>12, <2>6, <2>7, <2>8
    <3>3. sender' /\ Len(received') < Len(sent')
             => /\ UnderWay' # <<>>
                /\ UnderWay'[Len(UnderWay')]
                      = Byte(Len(sent'), sent'[Len(sent')], sent'[Len(sent')])
      BY <1>12, <2>6, <2>7, <2>8 DEF LastByte
    <3> QED
      BY <3>1, <3>2, <3>3, StreamThen
  <2> QED
    BY <1>12, <2>10, <2>11, <2>12 DEF FramingInv
<1> QED
  BY <1>14, <1>15, <1>13

\* The invariant holds in every run.
LEMMA FramingStep == FramingInv /\ [Next]_vars => FramingInv'
<1> SUFFICES ASSUME FramingInv, [Next]_vars PROVE FramingInv'
  OBVIOUS
<1>1. CASE \E len \in Lengths : SendNetmsg(len)
  BY <1>1, SendStep
<1>2. CASE CloseSender
  BY <1>2, CloseSenderStep
<1>3. CASE Read
  BY <1>3, ReadStep
<1>4. CASE ReadEnd \/ CloseReceiver
  BY <1>4, ClosesStep
<1>5. CASE UNCHANGED vars
  <2>1. UnderWay' = UnderWay
    BY <1>5 DEF vars, UnderWay
  <2>2. StreamInv'
    BY <1>5, <2>1 DEF vars, FramingInv, StreamInv, Stream, ToTheEnd, NextByte, LastByte
  <2> QED
    BY <1>5, <2>2 DEF vars, FramingInv, TypeInv, BytesWhole, Whole, Proper, CountInv, EndInv
<1> QED
  BY <1>1, <1>2, <1>3, <1>4, <1>5 DEF Next

\* What is under way between two servers is one stream of whole messages, cut into
\* what the socket holds and what either end has kept, and what was received is
\* what came before it (write_to_socket, read_data, try_dispatch_message).
THEOREM FramingInvHolds == Spec => []FramingInv
  BY FramingInit, FramingStep, PTL DEF Spec

\* What the invariant says of the bytes, as BytesInv does.
LEMMA BytesAre == FramingInv => BytesInv
<1> SUFFICES ASSUME FramingInv PROVE BytesInv
  OBVIOUS
<1>1. ASSUME NEW q \in Seq(ByteRecords), Whole(q), NEW k \in DOMAIN q PROVE IsByte(q[k])
  <2>1. k \in 1..Len(q) /\ q[k] \in ByteRecords
    BY LenProperties, ElementOfSeq
  <2>2. Proper(q[k])
    BY <1>1, <2>1 DEF Whole
  <2> QED
    BY <2>1, <2>2, ByteIsRecord DEF Proper, IsByte, ByteRecords
<1>2. TypeOK
  BY <1>1 DEF FramingInv, TypeInv, BytesWhole, TypeOK
<1>3. ASSUME receiver, sender PROVE BytesUnderWay
  <2>1. UnderWay \in Seq(ByteRecords)
    BY NowStream
  <2>2. Stream(UnderWay, Len(received) + 1) /\ ToTheEnd(UnderWay)
    BY <1>3 DEF FramingInv, StreamInv
  <2>3. UnderWay # <<>> => Last(UnderWay) = UnderWay[Len(UnderWay)]
    BY DEF Last
  <2> QED
    BY <2>2, <2>3, Zenon DEF BytesUnderWay, ToTheEnd, UnderWay
<1> QED
  BY <1>2, <1>3 DEF BytesInv, BytesUnderWay

\* However the bytes are cut up on their way, nothing is lost, doubled or put in
\* another order, whatever the socket takes and gives at a time and for messages
\* of any length (write_to_socket, get_next_message, try_dispatch_message).
THEOREM BytesKeepTheirOrder == Spec => []BytesInv
  BY FramingInvHolds, BytesAre, PTL

-----------------------------------------------------------------------------
(***************************************************************************)
(* The promise of Channel.                                                 *)
(***************************************************************************)
Numbered(s) == [k \in DOMAIN s |-> <<k, s[k]>>]
Given(r, s) == [k \in DOMAIN r |-> <<r[k], s[r[k]]>>]

LEMMA NumberedIs ==
    ASSUME NEW s \in Seq(Lengths)
    PROVE  /\ Len(s) \in Nat /\ Len(Numbered(s)) = Len(s)
           /\ Numbered(s) = [k \in 1..Len(s) |-> <<k, s[k]>>]
           /\ Numbered(s) \in Seq(Nat \X Lengths)
           /\ \A k \in 1..Len(s) : s[k] \in Lengths /\ s[k] \in Nat
<1>1. Len(s) \in Nat /\ DOMAIN s = 1..Len(s)
  BY LenProperties
<1>2. \A k \in 1..Len(s) : s[k] \in Lengths /\ s[k] \in Nat
  BY ElementOfSeq, Sizes
<1>3. Numbered(s) = [k \in 1..Len(s) |-> <<k, s[k]>>]
  BY <1>1 DEF Numbered
<1>4. Numbered(s) \in [1..Len(s) -> Nat \X Lengths]
  BY <1>1, <1>2, <1>3
<1>5. Numbered(s) \in Seq(Nat \X Lengths) /\ Len(Numbered(s)) = Len(s)
  BY <1>1, <1>4 DEF Seq
<1> QED
  BY <1>1, <1>2, <1>3, <1>5

\* What was received is the front of what was sent.
LEMMA GivenIsFront ==
    ASSUME NEW s \in Seq(Lengths), NEW r \in Seq(Messages), Len(r) <= Len(s),
           \A k \in 1..Len(r) : r[k] = k
    PROVE  Given(r, s) = SubSeq(Numbered(s), 1, Len(r)) /\ Len(Given(r, s)) = Len(r)
<1>1. Len(r) \in Nat /\ DOMAIN r = 1..Len(r)
  BY LenProperties
<1>2. Given(r, s) = [k \in 1..Len(r) |-> <<k, s[k]>>]
  BY <1>1 DEF Given
<1>3. Len(Given(r, s)) = Len(r)
  BY <1>1, <1>2
<1>4. PICK q \in Seq(Nat \X Lengths) : q = Numbered(s)
  BY NumberedIs
<1>5. Len(q) = Len(s) /\ Len(s) \in Nat /\ \A k \in 1..Len(s) : q[k] = <<k, s[k]>>
  BY <1>4, NumberedIs
<1>6. PICK p \in Seq(Nat \X Lengths) :
         p = SubSeq(q, 1, Len(r)) /\ Len(p) = Len(r) /\ \A k \in 1..Len(r) : p[k] = q[k]
  <2>1. /\ SubSeq(q, 1, Len(r)) \in Seq(Nat \X Lengths)
        /\ Len(SubSeq(q, 1, Len(r))) = IF 1 <= Len(r) THEN Len(r) - 1 + 1 ELSE 0
        /\ \A i \in 1..(Len(r) - 1 + 1) : SubSeq(q, 1, Len(r))[i] = q[1 + i - 1]
    BY <1>1, <1>5, PartOf
  <2>2. PICK p \in Seq(Nat \X Lengths) : p = SubSeq(q, 1, Len(r))
    BY <2>1
  <2>3. Len(p) = Len(r) /\ \A k \in 1..Len(r) : p[k] = q[k]
    BY <1>1, <2>1, <2>2
  <2> QED
    BY <2>2, <2>3
<1>7. \A k \in 1..Len(r) : p[k] = <<k, s[k]>>
  BY <1>1, <1>5, <1>6
<1>8. p = [k \in 1..Len(r) |-> <<k, s[k]>>]
  <2>1. DOMAIN p = 1..Len(r) /\ p = [k \in DOMAIN p |-> p[k]]
    BY <1>6
  <2> QED
    BY <1>7, <2>1
<1> QED
  BY <1>2, <1>3, <1>4, <1>6, <1>8

LEMMA Second == \A a, b : <<a, b>>[2] = b
  OBVIOUS

LEMMA PipeInit == Init => Pipe!Init
  BY DEF Init, Pipe!Init

LEMMA PipeSend ==
    ASSUME FramingInv, NEW len \in Lengths, SendNetmsg(len)
    PROVE  Pipe!Send
<1>1. /\ sent \in Seq(Lengths) /\ sent' = Append(sent, len) /\ Len(sent) < MaxMessages
      /\ received' = received /\ ended' = ended /\ receiver' = receiver
      /\ received \in Seq(Messages) /\ Len(received) <= Len(sent)
      /\ \A k \in 1..Len(received) : received[k] = k
  BY DEF SendNetmsg, FramingInv, TypeInv, CountInv
<1>2. PICK s \in Seq(Lengths) : s = sent' /\ Len(s) = Len(sent) + 1 /\ Len(sent) \in Nat
         /\ s[Len(sent) + 1] = len /\ \A k \in 1..Len(sent) : s[k] = sent[k]
  BY <1>1, SentAppend
<1>3. PICK m \in Messages : m = Len(sent) + 1
  BY <1>1, <1>2, Sizes DEF Messages
<1>4. Numbered(s) = Append(Numbered(sent), <<m, len>>)
  <2>1. PICK q \in Seq(Nat \X Lengths) : q = Numbered(sent)
    BY <1>1, NumberedIs
  <2>2. Len(q) = Len(sent) /\ \A k \in 1..Len(sent) : q[k] = <<k, sent[k]>>
    BY <1>1, <2>1, NumberedIs
  <2>3. <<m, len>> \in Nat \X Lengths
    BY <1>2, <1>3
  <2>4. PICK e \in Nat \X Lengths : e = <<m, len>>
    BY <2>3
  <2>5. PICK a : a = Append(q, e)
    OBVIOUS
  <2>6. /\ a \in Seq(Nat \X Lengths) /\ Len(a) = Len(q) + 1 /\ a[Len(q) + 1] = e
        /\ \A k \in 1..Len(q) : a[k] = q[k]
    BY <2>5, AppendProperties
  <2>7. PICK t \in Seq(Nat \X Lengths) : t = Numbered(s)
    BY NumberedIs
  <2>8. Len(t) = Len(s) /\ \A k \in 1..Len(s) : t[k] = <<k, s[k]>>
    BY <2>7, NumberedIs
  <2>9. ASSUME NEW k \in 1..Len(t) PROVE t[k] = a[k]
    <3>1. CASE k \in 1..Len(sent)
      <4>1. t[k] = <<k, s[k]>> /\ q[k] = <<k, sent[k]>>
        BY <2>2, <2>8, <3>1
      <4>2. s[k] = sent[k] /\ a[k] = q[k]
        BY <1>2, <2>2, <2>6, <3>1
      <4> QED
        BY <4>1, <4>2, Zenon
    <3>2. CASE k = Len(sent) + 1
      BY <1>2, <1>3, <2>2, <2>4, <2>6, <2>8, <3>2
    <3> QED
      BY <1>2, <2>8, <3>1, <3>2
  <2>10. t = a
    BY <1>2, <2>2, <2>6, <2>8, <2>9, SeqEqual
  <2> QED
    BY <2>1, <2>4, <2>5, <2>7, <2>10
<1>5. Given(received', sent') = Given(received, sent)
  <2>1. \A k \in DOMAIN received : sent'[received[k]] = sent[received[k]]
    BY <1>1, <1>2, LenProperties
  <2> QED
    BY <1>1, <2>1 DEF Given
<1>6. <<m, len>> \in Messages \X Lengths
  OBVIOUS
<1> QED
  BY <1>1, <1>2, <1>4, <1>5, <1>6 DEF Pipe!Send, Numbered, Given

LEMMA PipeRead ==
    ASSUME FramingInv, Read
    PROVE  \/ Pipe!Receive \/ Pipe!Break
           \/ UNCHANGED <<Numbered(sent), Given(received, sent), ended, receiver>>
<1>1. receiver /\ sent' = sent /\ ended' = ended
  BY DEF Read
<1>2. PICK k \in Nat : Received(k)
  BY ReadStep
<1>3. FramingInv'
  BY ReadStep
<1>4. /\ sent \in Seq(Lengths) /\ received \in Seq(Messages) /\ Len(received) <= Len(sent)
      /\ received' \in Seq(Messages) /\ Len(received') <= Len(sent)
      /\ receiver' \in BOOLEAN
      /\ \A j \in 1..Len(received) : received[j] = j
      /\ \A j \in 1..Len(received') : received'[j] = j
  BY <1>1, <1>3 DEF FramingInv, TypeInv, CountInv
<1>5. PICK q : q = Numbered(sent)
  OBVIOUS
<1>6. /\ Len(sent) \in Nat /\ Len(received) \in Nat
      /\ \A j \in 1..Len(sent) : q[j] = <<j, sent[j]>> /\ sent[j] \in Nat
      /\ Len(q) = Len(sent)
  BY <1>4, <1>5, NumberedIs, LenProperties
<1>7. PICK l \in Nat : l = Len(received)
  BY <1>6
<1>8. PICK n \in Nat : n = Len(received') /\ n = l + k /\ n <= Len(sent)
  BY <1>2, <1>4, <1>6, <1>7 DEF Received
<1>9. PICK g : g = Given(received, sent)
  OBVIOUS
<1>10. Len(g) = l
  BY <1>4, <1>7, <1>9, GivenIsFront
<1>11. Given(received', sent') = SubSeq(q, 1, n) /\ Numbered(sent') = q
  <2>1. PICK r \in Seq(Messages) : r = received' /\ Len(r) = n /\ \A j \in 1..Len(r) : r[j] = j
    BY <1>4, <1>8
  <2>2. Given(r, sent) = SubSeq(Numbered(sent), 1, Len(r))
    BY <1>4, <1>8, <2>1, GivenIsFront
  <2> QED
    BY <1>1, <1>5, <2>1, <2>2
<1>12. \A j \in (l + 1)..n : q[j][2] <= ReadData
  BY <1>2, <1>6, <1>7, <1>8 DEF Received
<1>13. receiver' \/ (n < Len(sent) /\ n + 1 \in 1..Len(sent) /\ ~(q[n + 1][2] <= ReadData))
  <2>1. receiver' \/ (n < Len(sent) /\ sent[n + 1] > ReadData)
    BY <1>2, <1>7, <1>8 DEF Received
  <2>2. n < Len(sent) => n + 1 \in 1..Len(sent)
    BY <1>6
  <2>3. n + 1 \in 1..Len(sent) => q[n + 1][2] = sent[n + 1] /\ sent[n + 1] \in Nat
    <3>1. ASSUME NEW j \in 1..Len(sent) PROVE q[j][2] = sent[j] /\ sent[j] \in Nat
      <4>1. q[j] = <<j, sent[j]>> /\ sent[j] \in Nat
        BY <1>6, Zenon
      <4>2. <<j, sent[j]>>[2] = sent[j]
        BY Second, Zenon
      <4> QED
        BY <4>1, <4>2, Zenon
    <3> QED
      BY <3>1, Zenon
  <2> QED
    BY <2>1, <2>2, <2>3, Sizes
<1>14. CASE k # 0
  <2>1. n \in (l + 1)..Len(sent)
    BY <1>6, <1>8, <1>14
  <2>2. receiver' \in {TRUE, n = Len(sent) \/ q[n + 1][2] <= ReadData}
    <3>1. CASE receiver'
      BY <1>4, <3>1
    <3>2. CASE ~receiver'
      <4>1. ~(n = Len(sent)) /\ ~(q[n + 1][2] <= ReadData)
        BY <1>6, <1>8, <1>13, <3>2
      <4>2. (n = Len(sent) \/ q[n + 1][2] <= ReadData) = FALSE
        BY <4>1, Zenon
      <4>3. receiver' = FALSE
        BY <1>4, <3>2
      <4> QED
        BY <4>2, <4>3, Zenon
    <3> QED
      BY <3>1, <3>2
  <2> QED
    BY <1>1, <1>5, <1>6, <1>9, <1>10, <1>11, <1>12, <2>1, <2>2
    DEF Pipe!Receive, FitsReadData, Numbered, Given
<1>15. ASSUME k = 0 PROVE received' = received
  <2>1. PICK a \in Seq(Messages) : a = received /\ Len(a) = l /\ \A j \in 1..l : a[j] = j
    BY <1>4, <1>7
  <2>2. PICK c \in Seq(Messages) : c = received' /\ Len(c) = n /\ \A j \in 1..n : c[j] = j
    BY <1>4, <1>8
  <2>3. n = l
    BY <1>8, <1>15
  <2>4. Len(a) = Len(c) /\ \A j \in 1..Len(a) : a[j] = c[j]
    BY <2>1, <2>2, <2>3
  <2>5. a = c
    BY <2>4, SeqEqual
  <2> QED
    BY <2>1, <2>2, <2>5
<1>16. CASE k = 0 /\ receiver'
  <2>1. received' = received /\ receiver' = receiver
    BY <1>1, <1>4, <1>16, <1>15
  <2> QED
    BY <1>1, <2>1 DEF Numbered, Given
<1>17. CASE k = 0 /\ ~receiver'
  <2>1. received' = received
    BY <1>17, <1>15
  <2>2. n + 1 \in (l + 1)..Len(sent) /\ ~(q[n + 1][2] <= ReadData)
    BY <1>6, <1>8, <1>13, <1>17
  <2>3. \E j \in (Len(g) + 1)..Len(q) : ~ FitsReadData(q[j])
    BY <1>6, <1>10, <2>2 DEF FitsReadData
  <2>4. receiver' = FALSE
    BY <1>4, <1>17
  <2> QED
    BY <1>1, <1>5, <1>9, <2>1, <2>3, <2>4 DEF Pipe!Break, Numbered, Given
<1> QED
  BY <1>14, <1>16, <1>17

\* Messages that can be received are no more than so many bytes: a byte at place
\* k of the stream is of a message at most as far behind its first, m.
LEMMA PlaceInStream ==
    ASSUME NEW u \in Seq(ByteRecords), WholeIn(sent, u), NEW m \in Nat \ {0},
           StartsIn(sent, u, m), ChainedIn(sent, u), Len(sent) \in Nat,
           \A j \in m..Len(sent) : sent[j] <= ReadData
    PROVE  \A k \in 1..Len(u) : /\ u[k].of \in m..Len(sent) /\ u[k].at <= ReadData
                                /\ k <= (u[k].of - m) * ReadData + u[k].at
<1>1. Len(u) \in Nat /\ ReadData \in Nat /\ \A k \in 1..Len(u) : u[k] \in ByteRecords
  BY LenProperties, ElementOfSeq, Sizes
<1> DEFINE Fine(k) == /\ u[k].of \in m..Len(sent)
                      /\ k <= (u[k].of - m) * ReadData + u[k].at
<1> DEFINE S == {i \in Nat : i + 1 <= Len(u) => Fine(i + 1)}
<1>2. ASSUME NEW k \in 1..Len(u), u[k].of >= m
      PROVE  /\ u[k].of \in m..Len(sent) /\ u[k].len <= ReadData /\ u[k].at <= u[k].len
             /\ u[k].of \in Nat /\ u[k].len \in Nat /\ u[k].at \in Nat
  <2>1. /\ u[k].of \in Nat /\ u[k].len \in Nat /\ u[k].at \in Nat
        /\ u[k].of <= Len(sent) /\ u[k].len = sent[u[k].of] /\ u[k].at <= u[k].len
    BY <1>1, ByteIsRecord DEF WholeIn, ProperIn
  <2>2. u[k].of \in m..Len(sent)
    BY <1>2, <2>1
  <2> QED
    BY <2>1, <2>2
<1>3. 0 \in S
  <2> SUFFICES ASSUME 1 <= Len(u) PROVE Fine(1)
    OBVIOUS
  <2>1. u[1] = Byte(m, sent[m], 1) /\ 1 \in 1..Len(u)
    BY <1>1 DEF StartsIn
  <2>2. u[1].of = m /\ u[1].at = 1
    BY <2>1, ByteIsRecord
  <2>3. u[1].of \in m..Len(sent)
    BY <1>2, <2>1, <2>2
  <2>4. (m - m) * ReadData = 0
    BY <1>1
  <2>5. 1 <= (u[1].of - m) * ReadData + u[1].at
    BY <2>2, <2>4
  <2> QED
    BY <2>3, <2>5
<1>4. ASSUME NEW i \in Nat, i \in S PROVE i + 1 \in S
  <2>1. PICK k \in Nat : k = i + 1
    OBVIOUS
  <2> SUFFICES ASSUME k + 1 <= Len(u) PROVE Fine(k + 1)
    BY <2>1
  <2>2. k \in 1..(Len(u) - 1) /\ k \in 1..Len(u) /\ k + 1 \in 1..Len(u)
    BY <1>1, <2>1
  <2>3. Fine(k)
    BY <1>1, <1>4, <2>1
  <2>4. PICK f \in Nat, a \in Nat, l \in Nat :
           /\ f = u[k].of /\ a = u[k].at /\ l = u[k].len
           /\ f >= m /\ l <= ReadData /\ a <= l
    BY <1>2, <2>2, <2>3
  <2>5. PICK p \in Int : p = (f - m) * ReadData
    BY <1>1
  <2>6. k <= p + a
    BY <2>3, <2>4, <2>5
  <2>7. u[k + 1] = NextIn(sent, u[k])
    BY <2>2 DEF ChainedIn
  <2>8. CASE a < l
    <3>1. u[k + 1].of = f /\ u[k + 1].at = a + 1
      BY <2>4, <2>7, <2>8, ByteIsRecord DEF NextIn
    <3>2. u[k + 1].of \in m..Len(sent)
      BY <1>2, <2>2, <2>4, <3>1
    <3>3. k + 1 <= p + (a + 1)
      BY <2>6
    <3> QED
      BY <2>5, <3>1, <3>2, <3>3
  <2>9. CASE ~(a < l)
    <3>1. u[k + 1].of = f + 1 /\ u[k + 1].at = 1
      BY <2>4, <2>7, <2>9, ByteIsRecord DEF NextIn
    <3>2. u[k + 1].of \in m..Len(sent)
      BY <1>2, <2>2, <2>4, <3>1
    <3>3. ((f + 1) - m) * ReadData = p + ReadData
      BY <1>1, <2>5
    <3>4. k + 1 <= (p + ReadData) + 1
      BY <1>1, <2>4, <2>6
    <3> QED
      BY <3>1, <3>2, <3>3, <3>4
  <2> QED
    BY <2>8, <2>9
<1>5. \A i \in Nat : i \in S
  <2> HIDE DEF S
  <2> QED
    BY <1>3, <1>4, AllNumbers
<1>6. ASSUME NEW k \in 1..Len(u) PROVE Fine(k) /\ u[k].at <= ReadData
  <2>1. PICK i \in Nat : i + 1 = k
    <3>1. k - 1 \in Nat /\ (k - 1) + 1 = k
      BY <1>1
    <3> QED
      BY <3>1
  <2>2. i \in S
    BY <1>5
  <2>3. i + 1 <= Len(u) => Fine(i + 1)
    BY <2>2
  <2>4. Fine(k)
    <3>1. i + 1 <= Len(u)
      BY <1>1, <2>1
    <3> HIDE DEF Fine
    <3>2. Fine(i + 1)
      BY <2>3, <3>1
    <3> QED
      BY <2>1, <3>2
  <2>5. u[k].of >= m
    BY <2>4
  <2>6. u[k].at <= ReadData
    BY <1>1, <1>2, <2>5
  <2> QED
    BY <2>4, <2>6
<1> QED
  BY <1>6

LEMMA TooManyToFit ==
    ASSUME FramingInv, receiver, Len(wire) > TooBig,
           \A j \in (Len(received) + 1)..Len(sent) : sent[j] <= ReadData
    PROVE  Len(sent) - Len(received) > TooBig \div ReadData
<1>1. /\ Len(sent) \in Nat /\ Len(received) \in Nat /\ out_buffer \in Seq(ByteRecords)
      /\ wire \in Seq(ByteRecords) /\ in_buffer \in Seq(ByteRecords)
      /\ Len(received) <= Len(sent)
  BY LenProperties DEF FramingInv, TypeInv, CountInv
<1>2. PICK u \in Seq(ByteRecords) : u = UnderWay
  BY NowStream
<1>3. PICK x \in Nat : x = Len(u) /\ x > TooBig
  <2>1. PICK c \in Seq(ByteRecords) : c = in_buffer \o wire
    BY <1>1, Joined, Zenon
  <2>2. Len(c) = Len(in_buffer) + Len(wire) /\ Len(in_buffer) \in Nat /\ Len(wire) \in Nat
    BY <1>1, <2>1, JoinedAt
  <2>3. Len(c \o out_buffer) = Len(c) + Len(out_buffer) /\ Len(out_buffer) \in Nat
    BY <1>1, JoinedAt
  <2>4. u = c \o out_buffer
    BY <1>2, <2>1, Zenon DEF UnderWay
  <2>5. Len(u) = Len(c) + Len(out_buffer)
    BY <2>3, <2>4
  <2> QED
    BY <2>2, <2>3, <2>5, Sizes
<1>4. PICK m \in Nat \ {0} : m = Len(received) + 1
  BY <1>1
<1>5. /\ WholeIn(sent, u) /\ StartsIn(sent, u, m) /\ ChainedIn(sent, u)
  BY <1>2, <1>4, NowStream
<1>6. x \in 1..Len(u)
  BY <1>3, Sizes
<1>7. /\ u[x].of \in m..Len(sent) /\ u[x].at <= ReadData
      /\ x <= (u[x].of - m) * ReadData + u[x].at
  BY <1>1, <1>4, <1>5, <1>6, PlaceInStream
<1>8. u[x].at \in Nat
  BY <1>6, ElementOfSeq, ByteIsRecord
<1>9. PICK f, a : f = u[x].of /\ a = u[x].at
  OBVIOUS
<1>10. /\ f \in m..Len(sent) /\ f \in Nat /\ a \in Nat /\ a <= ReadData
       /\ x <= (f - m) * ReadData + a
  <2>1. f \in m..Len(sent) /\ a \in Nat /\ a <= ReadData
    BY <1>7, <1>8, <1>9
  <2>2. x <= (f - m) * ReadData + a
    BY <1>7, <1>9, Zenon
  <2>3. f \in Nat
    BY <1>1, <2>1
  <2> QED
    BY <2>1, <2>2, <2>3
<1>11. PICK e \in Nat : e = f - m /\ e + 1 <= Len(sent) - Len(received)
  <2>1. f - m \in Nat /\ (f - m) + 1 <= Len(sent) - Len(received)
    BY <1>1, <1>4, <1>10
  <2> QED
    BY <2>1
<1>12. PICK p \in Nat : p = e * ReadData
  BY Sizes
<1>13. PICK w \in Nat : w = e + 1 /\ w <= Len(sent) - Len(received)
  BY <1>11
<1>14. x <= w * ReadData
  <2>1. w * ReadData = p + ReadData
    BY <1>12, <1>13, Sizes
  <2>2. x <= p + a
    BY <1>11, <1>12, <1>10
  <2> QED
    BY <1>10, <2>1, <2>2, Sizes
<1>15. TooBig < w * ReadData
  BY <1>3, <1>14, Sizes
<1>16. TooBig \div ReadData < w
  <2>1. ReadData > 0 /\ TooBig \in Nat /\ ReadData \in Nat
    BY Sizes
  <2>2. PICK q \in Nat : q = TooBig \div ReadData /\ q * ReadData <= TooBig
    BY <2>1
  <2>3. ASSUME w <= q PROVE FALSE
    <3>1. PICK y \in Nat : q = w + y
      <4>1. q - w \in Nat /\ q = w + (q - w)
        BY <2>3
      <4> QED
        BY <4>1
    <3>2. q * ReadData = w * ReadData + y * ReadData
      BY <2>1, <3>1
    <3>3. y * ReadData \in Nat /\ w * ReadData \in Nat /\ q * ReadData \in Nat
      BY <2>1
    <3> QED
      BY <1>15, <2>1, <2>2, <3>2, <3>3
  <2> QED
    BY <2>2, <2>3
<1>17. TooBig \div ReadData \in Nat
  BY Sizes
<1> QED
  BY <1>1, <1>13, <1>16, <1>17

LEMMA PipeReadEnd ==
    ASSUME FramingInv, ReadEnd
    PROVE  Pipe!Break
<1>1. /\ receiver /\ (~ sender \/ Len(wire) > TooBig) /\ receiver' = FALSE
      /\ sent' = sent /\ received' = received /\ ended' = ended
  BY DEF ReadEnd, Drop
<1>2. /\ sent \in Seq(Lengths) /\ received \in Seq(Messages) /\ Len(received) <= Len(sent)
      /\ \A j \in 1..Len(received) : received[j] = j /\ Len(received) \in Nat
      /\ ended \in BOOLEAN
  BY LenProperties DEF FramingInv, TypeInv, CountInv
<1>3. PICK q : q = Numbered(sent)
  OBVIOUS
<1>4. /\ Len(sent) \in Nat /\ Len(q) = Len(sent)
      /\ \A j \in 1..Len(sent) : q[j] = <<j, sent[j]>> /\ sent[j] \in Nat
  BY <1>2, <1>3, NumberedIs
<1>5. PICK g : g = Given(received, sent) /\ Len(g) = Len(received)
  BY <1>2, GivenIsFront
<1>6. \/ ended
      \/ \E k \in (Len(g) + 1)..Len(q) : ~ FitsReadData(q[k])
      \/ Len(q) - Len(g) > TooBig \div ReadData
  <2>1. CASE ~sender
    BY <1>1, <2>1 DEF FramingInv, EndInv
  <2>2. CASE Len(wire) > TooBig /\ \A j \in (Len(received) + 1)..Len(sent) : sent[j] <= ReadData
    BY <1>1, <1>4, <1>5, <2>2, TooManyToFit
  <2>3. ASSUME NEW j \in (Len(received) + 1)..Len(sent), ~(sent[j] <= ReadData)
        PROVE  \E k \in (Len(g) + 1)..Len(q) : ~ FitsReadData(q[k])
    <3>1. j \in 1..Len(sent) /\ j \in (Len(g) + 1)..Len(q)
      BY <1>2, <1>4, <1>5, LenProperties
    <3>2. q[j][2] = sent[j]
      BY <1>4, <3>1
    <3> QED
      BY <2>3, <3>1, <3>2 DEF FitsReadData
  <2> QED
    BY <1>1, <2>1, <2>2, <2>3
<1> QED
  BY <1>1, <1>3, <1>5, <1>6 DEF Pipe!Break, Numbered, Given

LEMMA PipeStep ==
    FramingInv /\ [Next]_vars
        => [Pipe!Next]_<<Numbered(sent), Given(received, sent), ended, receiver>>
<1> SUFFICES ASSUME FramingInv, [Next]_vars
             PROVE  [Pipe!Next]_<<Numbered(sent), Given(received, sent), ended, receiver>>
  OBVIOUS
<1>1. CASE \E len \in Lengths : SendNetmsg(len)
  BY <1>1, PipeSend DEF Pipe!Next
<1>2. CASE CloseSender
  <2>1. sent' = sent /\ received' = received /\ receiver' = receiver /\ receiver \in BOOLEAN
        /\ ended' = (ended \/ receiver) /\ ended \in BOOLEAN
    BY <1>2 DEF CloseSender, FramingInv, TypeInv
  <2>2. CASE receiver
    BY <2>1, <2>2 DEF Pipe!Next, Pipe!End, Numbered, Given
  <2>3. CASE ~receiver
    BY <2>1, <2>3 DEF Numbered, Given
  <2> QED
    BY <2>2, <2>3
<1>3. CASE Read
  BY <1>3, PipeRead DEF Pipe!Next
<1>4. CASE ReadEnd
  BY <1>4, PipeReadEnd DEF Pipe!Next
<1>5. CASE CloseReceiver
  BY <1>5 DEF CloseReceiver, Drop, Pipe!Next, Pipe!End, Numbered, Given
<1>6. CASE UNCHANGED vars
  BY <1>6 DEF vars, Numbered, Given
<1> QED
  BY <1>1, <1>2, <1>3, <1>4, <1>5, <1>6 DEF Next

\* Two servers have what Channel promises them: messages arrive whole, once and in
\* the order they were sent, until the connection breaks, which it does only when
\* an end of it closes it, at a message longer than ReadData, or when more than
\* TooBig bytes are there at once (try_dispatch_message, read_data, close_fd).
THEOREM ImplementsChannel == Spec => InOrder
  BY PipeInit, PipeStep, FramingInvHolds, PTL DEF Spec, InOrder, Pipe!Spec, Numbered, Given
=============================================================================
