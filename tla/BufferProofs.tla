---------------------------- MODULE BufferProofs ----------------------------
(***************************************************************************)
(* Proofs about Buffer, for every alphabet of bytes and all sizes: the     *)
(* indices stay in order, makeSpace() makes the room it is asked for, and  *)
(* every operation does to the content what ByteQueue says of it.          *)
(***************************************************************************)
EXTENDS Buffer, SequenceTheorems, TLAPS

-----------------------------------------------------------------------------
\* A function on 1..n is a sequence of length n.
LEMMA FunctionIsSeq ==
    ASSUME NEW S, NEW n \in Nat, NEW f \in [1..n -> S]
    PROVE  f \in Seq(S) /\ Len(f) = n
  OBVIOUS

\* What Copy() returns: a vector of the same size, with data at its place.
LEMMA CopyFacts ==
    ASSUME NEW v \in Seq(Byte), NEW at \in Nat, NEW data \in Seq(Byte)
    PROVE  /\ Copy(v, at, data) \in Seq(Byte)
           /\ Len(Copy(v, at, data)) = Len(v)
           /\ \A i \in 1..Len(v) : Copy(v, at, data)[i] =
                IF i \in (at + 1)..(at + Len(data)) THEN data[i - at] ELSE v[i]
  <1>1. \A i \in 1..Len(v) : i \in (at + 1)..(at + Len(data)) => i - at \in 1..Len(data)
    BY LenProperties
  <1>2. \A i \in 1..Len(v) : i \in (at + 1)..(at + Len(data)) => data[i - at] \in Byte
    BY <1>1, ElementOfSeq
  <1>3. \A i \in 1..Len(v) : v[i] \in Byte
    BY ElementOfSeq
  <1>4. Copy(v, at, data) \in [1..Len(v) -> Byte]
    BY <1>2, <1>3 DEF Copy
  <1> QED
    BY <1>4, FunctionIsSeq, LenProperties DEF Copy

\* What Resize() returns: a vector of the new size that starts with the old one.
LEMMA ResizeFacts ==
    ASSUME NEW v \in Seq(Byte), NEW n \in Nat
    PROVE  /\ Resize(v, n) \in Seq(Byte)
           /\ Len(Resize(v, n)) = n
           /\ \A i \in 1..n : i <= Len(v) => Resize(v, n)[i] = v[i]
  <1>1. \A i \in 1..n : i <= Len(v) => v[i] \in Byte
    BY LenProperties, ElementOfSeq
  <1>2. Resize(v, n) \in [1..n -> Byte]
    BY <1>1, BufferAssumption DEF Resize
  <1> QED
    BY <1>2, FunctionIsSeq DEF Resize

-----------------------------------------------------------------------------
\* The type invariant, as a predicate on the three fields.
Ordered(b) ==
    /\ b \in [vector : Seq(Byte), reader : Nat, writer : Nat]
    /\ b.reader <= b.writer
    /\ b.writer <= Len(b.vector)
    /\ kCheapPrepend <= Len(b.vector)

LEMMA OrderedFields == TypeOK <=> Ordered(Fields)
  <1>1. TypeOK => Ordered(Fields)
    BY LenProperties DEF TypeOK, Ordered, Fields
  <1>2. Ordered(Fields) => TypeOK
    BY LenProperties, BufferAssumption DEF TypeOK, Ordered, Fields
  <1> QED BY <1>1, <1>2

\* The content has readableBytes() bytes, found from the reader's index on.
LEMMA ContentFacts ==
    ASSUME NEW b, Ordered(b)
    PROVE  /\ Content(b) \in Seq(Byte)
           /\ Len(Content(b)) = b.writer - b.reader
           /\ \A i \in 1..(b.writer - b.reader) : Content(b)[i] = b.vector[b.reader + i]
  <1>1. b.vector \in Seq(Byte) /\ b.reader \in Nat /\ b.writer \in Nat
    BY DEF Ordered
  <1>2. Len(b.vector) \in Nat
    BY <1>1, LenProperties
  <1>3. b.reader + 1 \in 1..(Len(b.vector) + 1) /\ b.writer \in b.reader..Len(b.vector)
    BY <1>1, <1>2 DEF Ordered
  <1>4. /\ Content(b) \in Seq(Byte)
        /\ Len(Content(b)) = b.writer - b.reader
    BY <1>1, <1>2, <1>3, SubSeqProperties DEF Content, Ordered
  <1>5. \A i \in 1..(b.writer - b.reader) : Content(b)[i] = b.vector[b.reader + i]
    BY <1>1, <1>2, <1>3, SubSeqProperties DEF Content, Ordered
  <1> QED BY <1>4, <1>5

-----------------------------------------------------------------------------
\* Two buffers with the same bytes between their indices have equal content.
LEMMA EqualContent ==
    ASSUME NEW b, NEW c, Ordered(b), Ordered(c),
           b.writer - b.reader = c.writer - c.reader,
           \A i \in 1..(b.writer - b.reader) : b.vector[b.reader + i] = c.vector[c.reader + i]
    PROVE  Content(b) = Content(c)
  <1>1. \A i \in 1..Len(Content(b)) : Content(b)[i] = Content(c)[i]
    BY ContentFacts
  <1> QED BY <1>1, ContentFacts, SeqEqual

\* Moving the content to the front, with space for it behind kCheapPrepend.
LEMMA MoveFacts ==
    ASSUME NEW b, Ordered(b), kCheapPrepend + (b.writer - b.reader) <= Len(b.vector)
    PROVE  /\ Ordered(MoveToFront(b))
           /\ Content(MoveToFront(b)) = Content(b)
           /\ Len(MoveToFront(b).vector) = Len(b.vector)
           /\ MoveToFront(b).writer = kCheapPrepend + (b.writer - b.reader)
  <1> DEFINE m == MoveToFront(b)
             k == b.writer - b.reader
  <1>1. /\ b.vector \in Seq(Byte) /\ Len(b.vector) \in Nat
        /\ b.reader \in Nat /\ b.writer \in Nat /\ k \in Nat
        /\ kCheapPrepend \in Nat
    BY BufferAssumption, LenProperties DEF Ordered
  <1>2. /\ m.vector = Copy(b.vector, kCheapPrepend, Content(b))
        /\ m.reader = kCheapPrepend /\ m.writer = kCheapPrepend + k
        /\ m = [vector |-> m.vector, reader |-> m.reader, writer |-> m.writer]
    BY DEF MoveToFront, ReadableBytes
  <1> HIDE DEF m
  <1>3. /\ m.vector \in Seq(Byte) /\ Len(m.vector) = Len(b.vector)
        /\ \A i \in 1..Len(b.vector) : m.vector[i] =
             IF i \in (kCheapPrepend + 1)..(kCheapPrepend + k)
             THEN Content(b)[i - kCheapPrepend] ELSE b.vector[i]
    <2> DEFINE v == b.vector
               c == Content(b)
    <2>1. v \in Seq(Byte) /\ c \in Seq(Byte) /\ Len(c) = k
      BY <1>1, ContentFacts
    <2>3. kCheapPrepend \in Nat
      BY <1>1
    <2> HIDE DEF v, c
    <2>2. /\ Copy(v, kCheapPrepend, c) \in Seq(Byte)
          /\ Len(Copy(v, kCheapPrepend, c)) = Len(v)
          /\ \A i \in 1..Len(v) : Copy(v, kCheapPrepend, c)[i] =
               IF i \in (kCheapPrepend + 1)..(kCheapPrepend + Len(c))
               THEN c[i - kCheapPrepend] ELSE v[i]
      BY ONLY <2>1, <2>3, CopyFacts
    <2> QED BY <1>2, <2>1, <2>2 DEF v, c
  <1>4. Ordered(m)
    <2>1. m \in [vector : Seq(Byte), reader : Nat, writer : Nat]
      BY <1>1, <1>2, <1>3
    <2> QED BY <2>1, <1>1, <1>2, <1>3 DEF Ordered
  <1>5. ASSUME NEW i \in 1..k
        PROVE  m.vector[m.reader + i] = b.vector[b.reader + i]
    <2>1. kCheapPrepend + i \in 1..Len(b.vector)
      BY <1>1
    <2>2. m.vector[kCheapPrepend + i] = Content(b)[i]
      BY <2>1, <1>1, <1>3
    <2> QED BY <2>2, <1>1, <1>2, ContentFacts
  <1>6. m.writer - m.reader = k
    BY <1>1, <1>2
  <1>7. Content(m) = Content(b)
    BY <1>4, <1>5, <1>6, EqualContent
  <1> QED BY <1>2, <1>3, <1>4, <1>7 DEF m

\* Growing the vector behind the content.
LEMMA GrowFacts ==
    ASSUME NEW b, Ordered(b), NEW n \in Nat, Len(b.vector) <= n
    PROVE  /\ Ordered([b EXCEPT !.vector = Resize(b.vector, n)])
           /\ Content([b EXCEPT !.vector = Resize(b.vector, n)]) = Content(b)
  <1> DEFINE g == [b EXCEPT !.vector = Resize(b.vector, n)]
  <1>1. /\ b.vector \in Seq(Byte) /\ Len(b.vector) \in Nat
        /\ b.reader \in Nat /\ b.writer \in Nat /\ kCheapPrepend \in Nat
        /\ b \in [vector : Seq(Byte), reader : Nat, writer : Nat]
    BY BufferAssumption, LenProperties DEF Ordered
  <1>2. /\ g.vector = Resize(b.vector, n) /\ g.reader = b.reader /\ g.writer = b.writer
    BY <1>1
  <1>3. /\ g.vector \in Seq(Byte) /\ Len(g.vector) = n
        /\ \A i \in 1..n : i <= Len(b.vector) => g.vector[i] = b.vector[i]
    BY <1>1, <1>2, ResizeFacts
  <1>4. g \in [vector : Seq(Byte), reader : Nat, writer : Nat]
    BY <1>1, <1>3
  <1>5. Ordered(g)
    BY <1>1, <1>2, <1>3, <1>4 DEF Ordered
  <1> HIDE DEF g
  <1>6. ASSUME NEW i \in 1..(g.writer - g.reader)
        PROVE  g.vector[g.reader + i] = b.vector[b.reader + i]
    <2>1. b.reader + i \in 1..n /\ b.reader + i <= Len(b.vector)
      BY <1>1, <1>2 DEF Ordered
    <2> QED BY <1>2, <1>3, <2>1
  <1>7. Content(g) = Content(b)
    BY <1>2, <1>5, <1>6, EqualContent
  <1> QED BY <1>5, <1>7 DEF g

\* ensureWritableBytes() keeps the content and leaves room for len bytes.
LEMMA SpaceFacts ==
    ASSUME NEW b, Ordered(b), NEW len \in Nat
    PROVE  /\ WritableBytes(b) < len =>
                /\ WritableBytes(MakeSpace(b, len)) >= len
                /\ MustGrow(b, len) \/ kCheapPrepend < b.reader
           /\ Ordered(EnsureWritableBytes(b, len))
           /\ Content(EnsureWritableBytes(b, len)) = Content(b)
           /\ WritableBytes(EnsureWritableBytes(b, len)) >= len
  <1>1. /\ b.vector \in Seq(Byte) /\ Len(b.vector) \in Nat
        /\ b.reader \in Nat /\ b.writer \in Nat /\ kCheapPrepend \in Nat
        /\ b \in [vector : Seq(Byte), reader : Nat, writer : Nat]
        /\ b.reader <= b.writer /\ b.writer <= Len(b.vector)
    BY BufferAssumption, LenProperties DEF Ordered
  <1>2. CASE WritableBytes(b) >= len
    BY <1>1, <1>2 DEF EnsureWritableBytes, WritableBytes
  <1>3. CASE WritableBytes(b) < len /\ MustGrow(b, len)
    <2> DEFINE g == [b EXCEPT !.vector = Resize(b.vector, b.writer + len)]
    <2>1. Len(b.vector) <= b.writer + len /\ b.writer + len \in Nat
      BY <1>1, <1>3 DEF WritableBytes
    <2>2. Ordered(g) /\ Content(g) = Content(b)
      BY <2>1, GrowFacts
    <2>3. Len(g.vector) = b.writer + len /\ g.writer = b.writer
      BY <1>1, <2>1, ResizeFacts
    <2>4. WritableBytes(g) = len
      BY <1>1, <2>3 DEF WritableBytes
    <2>5. MakeSpace(b, len) = g /\ EnsureWritableBytes(b, len) = g
      BY <1>3 DEF MakeSpace, EnsureWritableBytes
    <2> HIDE DEF g
    <2> QED BY <1>3, <2>2, <2>4, <2>5
  <1>4. CASE WritableBytes(b) < len /\ ~MustGrow(b, len)
    <2>1. Len(b.vector) - b.writer + b.reader >= len + kCheapPrepend
      BY <1>1, <1>4 DEF MustGrow, WritableBytes, PrependableBytes
    <2>2. /\ kCheapPrepend + (b.writer - b.reader) <= Len(b.vector)
          /\ kCheapPrepend < b.reader
      BY <1>1, <1>4, <2>1 DEF WritableBytes
    <2>3. WritableBytes(MoveToFront(b)) >= len
      BY <1>1, <2>1, <2>2, MoveFacts DEF WritableBytes
    <2>4. MakeSpace(b, len) = MoveToFront(b) /\ EnsureWritableBytes(b, len) = MoveToFront(b)
      BY <1>4 DEF MakeSpace, EnsureWritableBytes
    <2> QED BY <1>4, <2>2, <2>3, <2>4, MoveFacts
  <1>5. WritableBytes(b) \in Int
    BY <1>1 DEF WritableBytes
  <1> QED BY <1>2, <1>3, <1>4, <1>5

\* Writing data into the space behind the content and advancing the writer.
LEMMA WriteFacts ==
    ASSUME NEW b, Ordered(b), NEW data \in Seq(Byte), WritableBytes(b) >= Len(data)
    PROVE  Ordered(Written(b, data)) /\ Content(Written(b, data)) = Content(b) \o data
  <1> DEFINE w == Written(b, data)
             k == b.writer - b.reader
  <1>1. /\ b.vector \in Seq(Byte) /\ Len(b.vector) \in Nat /\ Len(data) \in Nat
        /\ b.reader \in Nat /\ b.writer \in Nat /\ kCheapPrepend \in Nat
        /\ b \in [vector : Seq(Byte), reader : Nat, writer : Nat]
        /\ b.reader <= b.writer /\ b.writer + Len(data) <= Len(b.vector)
        /\ kCheapPrepend <= Len(b.vector) /\ k \in Nat
    <2>1. b.vector \in Seq(Byte) /\ b.reader \in Nat /\ b.writer \in Nat
      BY DEF Ordered
    <2>2. Len(b.vector) \in Nat /\ Len(data) \in Nat
      BY <2>1, LenProperties
    <2> QED BY <2>1, <2>2, BufferAssumption DEF Ordered, WritableBytes
  <1>2. /\ w.vector = Copy(b.vector, b.writer, data)
        /\ w.reader = b.reader /\ w.writer = b.writer + Len(data)
        /\ w = [vector |-> w.vector, reader |-> w.reader, writer |-> w.writer]
    BY DEF Written
  <1> HIDE DEF w
  <1>3. /\ w.vector \in Seq(Byte) /\ Len(w.vector) = Len(b.vector)
        /\ \A i \in 1..Len(b.vector) : w.vector[i] =
             IF i \in (b.writer + 1)..(b.writer + Len(data))
             THEN data[i - b.writer] ELSE b.vector[i]
    <2> DEFINE v == b.vector
               at == b.writer
    <2>1. v \in Seq(Byte) /\ at \in Nat
      BY <1>1
    <2>4. data \in Seq(Byte)
      OBVIOUS
    <2> HIDE DEF v, at
    <2>2. /\ Copy(v, at, data) \in Seq(Byte)
          /\ Len(Copy(v, at, data)) = Len(v)
          /\ \A i \in 1..Len(v) : Copy(v, at, data)[i] =
               IF i \in (at + 1)..(at + Len(data)) THEN data[i - at] ELSE v[i]
      BY ONLY <2>1, <2>4, CopyFacts
    <2> QED BY <1>2, <2>2 DEF v, at
  <1>4. w \in [vector : Seq(Byte), reader : Nat, writer : Nat]
    BY <1>1, <1>2, <1>3
  <1>5. Ordered(w)
    BY <1>1, <1>2, <1>3, <1>4 DEF Ordered
  <1>6. /\ Content(w) \in Seq(Byte) /\ Len(Content(w)) = k + Len(data)
        /\ \A i \in 1..(k + Len(data)) : Content(w)[i] = w.vector[b.reader + i]
    <2>1. /\ Content(w) \in Seq(Byte) /\ Len(Content(w)) = w.writer - w.reader
          /\ \A i \in 1..(w.writer - w.reader) : Content(w)[i] = w.vector[w.reader + i]
      BY ONLY <1>5, ContentFacts
    <2>2. w.writer - w.reader = k + Len(data)
      BY <1>1, <1>2
    <2> QED BY ONLY <1>2, <2>1, <2>2
  <1>7. /\ Content(b) \in Seq(Byte) /\ Len(Content(b)) = k
        /\ \A i \in 1..k : Content(b)[i] = b.vector[b.reader + i]
    BY ContentFacts
  <1>8. ASSUME NEW i \in 1..(k + Len(data))
        PROVE  Content(w)[i] = (Content(b) \o data)[i]
    <2>1. (Content(b) \o data)[i] = IF i <= k THEN Content(b)[i] ELSE data[i - k]
      BY <1>7, ConcatProperties
    <2>2. b.reader + i \in 1..Len(b.vector)
      BY <1>1
    <2>0. Content(w)[i] = w.vector[b.reader + i]
      BY <1>6
    <2>3. CASE i <= k
      <3>1. b.reader + i \notin (b.writer + 1)..(b.writer + Len(data))
        BY <1>1, <2>3
      <3>2. w.vector[b.reader + i] = b.vector[b.reader + i]
        BY <1>3, <2>2, <3>1
      <3>3. Content(b)[i] = b.vector[b.reader + i]
        BY <1>1, <1>7, <2>3
      <3> QED BY <2>0, <2>1, <2>3, <3>2, <3>3
    <2>4. CASE i > k
      <3>1. b.reader + i \in (b.writer + 1)..(b.writer + Len(data))
        BY <1>1, <2>4
      <3>2. (b.reader + i) - b.writer = i - k
        BY <1>1
      <3>3. w.vector[b.reader + i] = data[(b.reader + i) - b.writer]
        <4>1. \A j \in 1..Len(b.vector) :
                 j \in (b.writer + 1)..(b.writer + Len(data)) => w.vector[j] = data[j - b.writer]
          BY <1>3
        <4> QED BY <4>1, <2>2, <3>1
      <3>4. ~(i <= k)
        BY <1>1, <2>4
      <3> QED BY <2>0, <2>1, <3>2, <3>3, <3>4
    <2>5. i <= k \/ i > k
      BY <1>1
    <2> QED BY <2>3, <2>4, <2>5
  <1>9. Content(w) = Content(b) \o data
    <2> DEFINE c == Content(w)
               d == Content(b) \o data
    <2>1. d \in Seq(Byte) /\ Len(d) = k + Len(data)
      BY <1>7, ConcatProperties
    <2>2. c \in Seq(Byte) /\ Len(c) = k + Len(data) /\ \A i \in 1..(k + Len(data)) : c[i] = d[i]
      BY <1>6, <1>8
    <2> HIDE DEF c, d
    <2> QED BY <2>1, <2>2, SeqEqual DEF c, d
  <1> QED BY <1>5, <1>9 DEF w

-----------------------------------------------------------------------------
\* append() puts data behind the content.
LEMMA AppendFacts ==
    ASSUME NEW b, Ordered(b), NEW data \in Seq(Byte)
    PROVE  Ordered(AppendTo(b, data)) /\ Content(AppendTo(b, data)) = Content(b) \o data
  <1> DEFINE space == EnsureWritableBytes(b, Len(data))
  <1>1. Len(data) \in Nat
    BY LenProperties
  <1>2. Ordered(space) /\ Content(space) = Content(b) /\ WritableBytes(space) >= Len(data)
    BY <1>1, SpaceFacts
  <1> HIDE DEF space
  <1>3. Ordered(Written(space, data)) /\ Content(Written(space, data)) = Content(space) \o data
    BY <1>2, WriteFacts
  <1> QED BY <1>2, <1>3 DEF AppendTo, space

\* readFd() puts what was received behind the content, also when it overflows
\* into the extra buffer.
LEMMA ReadFacts ==
    ASSUME NEW b, Ordered(b), NEW data \in Seq(Byte)
    PROVE  Ordered(ReadIn(b, data)) /\ Content(ReadIn(b, data)) = Content(b) \o data
  <1> DEFINE n == WritableBytes(b)
             first == SubSeq(data, 1, n)
             rest == SubSeq(data, n + 1, Len(data))
             full == Written(b, first)
  <1>1. Len(data) \in Nat /\ n \in Nat
    <2>1. b.vector \in Seq(Byte) /\ b.writer \in Nat /\ b.writer <= Len(b.vector)
      BY DEF Ordered
    <2> QED BY <2>1, LenProperties DEF WritableBytes
  <1>2. CASE Len(data) <= n
    BY <1>1, <1>2, WriteFacts DEF ReadIn
  <1>3. CASE ~(Len(data) <= n)
    <2> HIDE DEF n
    <2>1. \A i \in 1..Len(data) : data[i] \in Byte
      BY ElementOfSeq
    <2>2. first \in Seq(Byte) /\ Len(first) = n
      <3>1. \A i \in 1..n : data[i] \in Byte
        BY <1>1, <1>3, <2>1
      <3>2. first \in Seq(Byte) /\ Len(first) = IF 1 <= n THEN n - 1 + 1 ELSE 0
        BY <1>1, <3>1, SubSeqProperties
      <3> QED BY <1>1, <3>2
    <2>3. rest \in Seq(Byte)
      <3>1. \A i \in (n + 1)..Len(data) : data[i] \in Byte
        BY <1>1, <2>1
      <3> QED BY <1>1, <3>1, SubSeqProperties
    <2>4. first \o rest = data
      <3>1. 1 \in 1..Len(data) + 1 /\ n \in 1 - 1..Len(data) /\ Len(data) \in n..Len(data)
        BY <1>1, <1>3
      <3>2. first \o rest = SubSeq(data, 1, Len(data))
        BY <3>1, ConcatAdjacentSubSeq
      <3> QED BY <3>2, SubSeqFull
    <2> HIDE DEF first, rest
    <2>5. Ordered(full) /\ Content(full) = Content(b) \o first
      <3>1. WritableBytes(b) >= Len(first)
        BY <1>1, <2>2 DEF n
      <3> QED BY <2>2, <3>1, WriteFacts
    <2> HIDE DEF full
    <2>6. /\ Ordered(AppendTo(full, rest))
          /\ Content(AppendTo(full, rest)) = Content(full) \o rest
      BY <2>3, <2>5, AppendFacts
    <2>7. ReadIn(b, data) = AppendTo(full, rest)
      BY <1>3 DEF ReadIn, n, first, rest, full
    <2>8. Content(b) \in Seq(Byte)
      BY ContentFacts
    <2>9. (Content(b) \o first) \o rest = Content(b) \o data
      <3>1. (Content(b) \o first) \o rest = Content(b) \o (first \o rest)
        <4>1. \A s, t, u \in Seq(Byte) : (s \o t) \o u = s \o (t \o u)
          BY ConcatAssociative
        <4> QED BY <2>2, <2>3, <2>8, <4>1
      <3> QED BY <2>4, <3>1
    <2> QED BY <2>5, <2>6, <2>7, <2>9
  <1> QED BY <1>2, <1>3

-----------------------------------------------------------------------------
\* The data of the operations are sequences of bytes.
LEMMA DataFacts ==
    ASSUME NEW max, NEW data \in Data(max)
    PROVE  data \in Seq(Byte)
  <1>1. PICK n \in 0..max : data \in [1..n -> Byte]
    BY DEF Data
  <1>2. n \in Nat
    OBVIOUS
  <1> QED BY <1>1, <1>2, FunctionIsSeq

\* A step to ordered fields b leads to TypeOK and to the content of b.
LEMMA StepFacts ==
    ASSUME NEW b, Ordered(b),
           buffer_' = b.vector, readerIndex_' = b.reader, writerIndex_' = b.writer
    PROVE  TypeOK' /\ Content(Fields)' = Content(b)
  <1>1. buffer_' = b.vector /\ readerIndex_' = b.reader /\ writerIndex_' = b.writer
    OBVIOUS
  <1>2. /\ b.vector \in Seq(Byte) /\ Len(b.vector) \in Nat
        /\ b.reader \in Nat /\ b.writer \in Nat /\ b.reader <= b.writer
        /\ b.writer <= Len(b.vector) /\ kCheapPrepend <= Len(b.vector)
    BY LenProperties DEF Ordered
  <1>3. TypeOK'
    BY <1>1, <1>2 DEF TypeOK
  <1>4. Content(Fields)' = Content(b)
    BY <1>1 DEF Content, Fields
  <1> QED BY <1>3, <1>4

LEMMA AppendStep ==
    ASSUME TypeOK, NEW data \in Seq(Byte), AppendData(data)
    PROVE  TypeOK' /\ Content(Fields)' = Content(Fields) \o data
  <1>1. /\ Ordered(AppendTo(Fields, data))
        /\ Content(AppendTo(Fields, data)) = Content(Fields) \o data
    BY OrderedFields, AppendFacts
  <1> QED BY <1>1, StepFacts DEF AppendData, Becomes

LEMMA ReadStep ==
    ASSUME TypeOK, NEW data \in Seq(Byte), ReadFd(data)
    PROVE  TypeOK' /\ Content(Fields)' = Content(Fields) \o data
  <1>1. /\ Ordered(ReadIn(Fields, data))
        /\ Content(ReadIn(Fields, data)) = Content(Fields) \o data
    BY OrderedFields, ReadFacts
  <1> QED BY <1>1, StepFacts DEF ReadFd, Becomes

\* retrieve() drops bytes from the front of the content.
LEMMA RetrieveFacts ==
    ASSUME NEW b, Ordered(b), NEW n \in 0..(b.writer - b.reader),
           NEW r, r = [vector |-> b.vector, reader |-> b.reader + n, writer |-> b.writer]
    PROVE  Ordered(r) /\ Content(r) = SubSeq(Content(b), n + 1, Len(Content(b)))
  <1> DEFINE k == b.writer - b.reader
             d == SubSeq(Content(b), n + 1, Len(Content(b)))
  <1>1. /\ b.vector \in Seq(Byte) /\ Len(b.vector) \in Nat
        /\ b.reader \in Nat /\ b.writer \in Nat /\ k \in Nat
        /\ b.writer <= Len(b.vector) /\ kCheapPrepend <= Len(b.vector)
    BY LenProperties DEF Ordered
  <1>2. /\ r.vector = b.vector /\ r.reader = b.reader + n /\ r.writer = b.writer
        /\ n \in Nat /\ n <= k
    <2>1. r.vector = b.vector /\ r.reader = b.reader + n /\ r.writer = b.writer
      OBVIOUS
    <2>2. n \in Nat /\ n <= k
      BY <1>1
    <2> QED BY <2>1, <2>2
  <1>3. r \in [vector : Seq(Byte), reader : Nat, writer : Nat]
    BY <1>1, <1>2
  <1>4. Ordered(r)
    BY <1>1, <1>2, <1>3 DEF Ordered
  <1>5. /\ Content(b) \in Seq(Byte) /\ Len(Content(b)) = k
        /\ \A i \in 1..k : Content(b)[i] = b.vector[b.reader + i]
    BY ContentFacts
  <1>6. /\ Content(r) \in Seq(Byte) /\ Len(Content(r)) = k - n
        /\ \A i \in 1..(k - n) : Content(r)[i] = b.vector[(b.reader + n) + i]
    <2>1. /\ Content(r) \in Seq(Byte) /\ Len(Content(r)) = r.writer - r.reader
          /\ \A i \in 1..(r.writer - r.reader) : Content(r)[i] = r.vector[r.reader + i]
      BY <1>4, ContentFacts
    <2>2. r.writer - r.reader = k - n
      BY <1>1, <1>2
    <2> QED BY ONLY <1>2, <2>1, <2>2
  <1>7. \A i \in (n + 1)..k : Content(b)[i] \in Byte
    BY <1>1, <1>2, <1>5, ElementOfSeq
  <1>8. /\ d \in Seq(Byte) /\ Len(d) = k - n
        /\ \A i \in 1..(k - n) : d[i] = Content(b)[n + i]
    <2> DEFINE c == Content(b)
               m == n + 1
    <2>1. /\ SubSeq(c, m, k) \in Seq(Byte)
          /\ Len(SubSeq(c, m, k)) = IF m <= k THEN k - m + 1 ELSE 0
          /\ \A i \in 1..(k - m + 1) : SubSeq(c, m, k)[i] = c[m + i - 1]
      <3>1. m \in Int /\ k \in Int /\ \A i \in m..k : c[i] \in Byte
        BY <1>1, <1>2, <1>7
      <3> HIDE DEF c, m, k
      <3> QED BY <3>1, SubSeqProperties
    <2>2. k - m + 1 = k - n /\ \A i \in 1..(k - n) : m + i - 1 = n + i
      BY <1>1, <1>2
    <2>3. (IF m <= k THEN k - m + 1 ELSE 0) = k - n
      BY <1>1, <1>2
    <2>4. d = SubSeq(c, m, k)
      BY <1>5
    <2> HIDE DEF c, d, m, k
    <2>5. \A i \in 1..(k - n) : d[i] = c[n + i]
      BY <2>1, <2>2, <2>4
    <2> QED BY <2>1, <2>3, <2>4, <2>5 DEF c
  <1>9. ASSUME NEW i \in 1..(k - n)
        PROVE  Content(r)[i] = d[i]
    <2>1. n + i \in 1..k /\ b.reader + (n + i) = (b.reader + n) + i
      BY <1>1, <1>2
    <2>2. Content(b)[n + i] = b.vector[b.reader + (n + i)]
      BY <1>5, <2>1
    <2>3. Content(r)[i] = b.vector[(b.reader + n) + i] /\ d[i] = Content(b)[n + i]
      BY <1>6, <1>8
    <2> QED BY <2>1, <2>2, <2>3
  <1>10. Content(r) = d
    <2> HIDE DEF d, k
    <2> QED BY <1>6, <1>8, <1>9, SeqEqual
  <1> QED BY <1>4, <1>10

\* prepend() puts data in front of the content.
LEMMA PrependFacts ==
    ASSUME NEW b, Ordered(b), NEW data \in Seq(Byte), Len(data) <= b.reader,
           NEW p, p = [vector |-> Copy(b.vector, b.reader - Len(data), data),
                       reader |-> b.reader - Len(data), writer |-> b.writer]
    PROVE  Ordered(p) /\ Content(p) = data \o Content(b)
  <1> DEFINE k == b.writer - b.reader
             n == Len(data)
  <1>1. /\ b.vector \in Seq(Byte) /\ Len(b.vector) \in Nat
        /\ b.reader \in Nat /\ b.writer \in Nat /\ k \in Nat /\ n \in Nat
        /\ b.writer <= Len(b.vector) /\ kCheapPrepend <= Len(b.vector)
        /\ b.reader - n \in Nat
    <2>1. b.vector \in Seq(Byte) /\ b.reader \in Nat /\ b.writer \in Nat
      BY DEF Ordered
    <2>2. Len(b.vector) \in Nat /\ Len(data) \in Nat
      BY <2>1, LenProperties
    <2> QED BY <2>1, <2>2 DEF Ordered
  <1>2. /\ p.vector = Copy(b.vector, b.reader - n, data)
        /\ p.reader = b.reader - n /\ p.writer = b.writer
    OBVIOUS
  <1>3. /\ p.vector \in Seq(Byte) /\ Len(p.vector) = Len(b.vector)
        /\ \A i \in 1..Len(b.vector) : p.vector[i] =
             IF i \in (b.reader - n + 1)..(b.reader - n + n)
             THEN data[i - (b.reader - n)] ELSE b.vector[i]
    <2> DEFINE v == b.vector
               at == b.reader - n
    <2>1. v \in Seq(Byte) /\ at \in Nat
      BY <1>1
    <2>4. data \in Seq(Byte)
      OBVIOUS
    <2> HIDE DEF v, at
    <2>2. /\ Copy(v, at, data) \in Seq(Byte)
          /\ Len(Copy(v, at, data)) = Len(v)
          /\ \A i \in 1..Len(v) : Copy(v, at, data)[i] =
               IF i \in (at + 1)..(at + Len(data)) THEN data[i - at] ELSE v[i]
      BY ONLY <2>1, <2>4, CopyFacts
    <2>3. p.vector = Copy(v, at, data)
      BY <1>2 DEF v, at
    <2> QED BY <2>2, <2>3 DEF v, at
  <1>4. p \in [vector : Seq(Byte), reader : Nat, writer : Nat]
    BY <1>1, <1>2, <1>3
  <1>5. Ordered(p)
    BY <1>1, <1>2, <1>3, <1>4 DEF Ordered
  <1>6. /\ Content(b) \in Seq(Byte) /\ Len(Content(b)) = k
        /\ \A i \in 1..k : Content(b)[i] = b.vector[b.reader + i]
    BY ContentFacts
  <1>7. /\ Content(p) \in Seq(Byte) /\ Len(Content(p)) = n + k
        /\ \A i \in 1..(n + k) : Content(p)[i] = p.vector[b.reader - n + i]
    <2>1. /\ Content(p) \in Seq(Byte) /\ Len(Content(p)) = p.writer - p.reader
          /\ \A i \in 1..(p.writer - p.reader) : Content(p)[i] = p.vector[p.reader + i]
      BY ONLY <1>5, ContentFacts
    <2>2. p.writer - p.reader = n + k
      BY <1>1, <1>2
    <2> QED BY ONLY <1>2, <2>1, <2>2
  <1>10. n = Len(data) /\ b.writer = b.reader + k
    BY <1>1
  <1> HIDE DEF n, k
  <1>8. ASSUME NEW i \in 1..(n + k)
        PROVE  Content(p)[i] = (data \o Content(b))[i]
    <2>1. (data \o Content(b))[i] = IF i <= n THEN data[i] ELSE Content(b)[i - n]
      BY <1>1, <1>6, <1>10, ConcatProperties
    <2>6. i \in Nat /\ 1 <= i /\ i <= n + k
      BY <1>1
    <2>7. /\ b.reader \in Nat /\ n \in Nat /\ k \in Nat /\ b.reader - n \in Nat
          /\ Len(b.vector) \in Nat /\ b.writer \in Nat /\ b.writer <= Len(b.vector)
      BY <1>1
    <2>2. b.reader - n + i \in 1..Len(b.vector)
      <3>1. 1 <= b.reader - n + i
        BY ONLY <2>6, <2>7
      <3>2. b.reader - n + i <= b.reader + k
        BY ONLY <2>6, <2>7
      <3>3. b.reader - n + i \in Int
        BY ONLY <2>6, <2>7
      <3> QED BY ONLY <1>10, <2>7, <3>1, <3>2, <3>3
    <2>3. Content(p)[i] = p.vector[b.reader - n + i]
      BY <1>7
    <2>4. CASE i <= n
      <3>1. b.reader - n + i \in (b.reader - n + 1)..(b.reader - n + n)
        BY ONLY <2>4, <2>6, <2>7
      <3>2. (b.reader - n + i) - (b.reader - n) = i
        BY <1>1
      <3>3. p.vector[b.reader - n + i] = data[(b.reader - n + i) - (b.reader - n)]
        BY <1>3, <2>2, <3>1
      <3> QED BY <2>1, <2>3, <2>4, <3>2, <3>3
    <2>5. CASE ~(i <= n)
      <3>1. b.reader - n + i \notin (b.reader - n + 1)..(b.reader - n + n)
        BY <1>1, <2>5
      <3>2. p.vector[b.reader - n + i] = b.vector[b.reader - n + i]
        BY <1>3, <2>2, <3>1
      <3>3. i - n \in 1..k /\ b.reader + (i - n) = b.reader - n + i
        BY <1>1, <2>5
      <3>4. Content(b)[i - n] = b.vector[b.reader + (i - n)]
        <4> DEFINE j == i - n
        <4>1. j \in 1..k
          BY <3>3
        <4> HIDE DEF j
        <4>2. Content(b)[j] = b.vector[b.reader + j]
          BY <1>6, <4>1
        <4> QED BY <4>2 DEF j
      <3> QED BY <2>1, <2>3, <2>5, <3>2, <3>3, <3>4
    <2> QED BY <2>4, <2>5
  <1>9. Content(p) = data \o Content(b)
    <2> DEFINE c == Content(p)
               d == data \o Content(b)
    <2>1. d \in Seq(Byte) /\ Len(d) = n + k
      BY <1>6, <1>10, ConcatProperties
    <2>2. c \in Seq(Byte) /\ Len(c) = n + k /\ \A i \in 1..(n + k) : c[i] = d[i]
      BY <1>7, <1>8
    <2> HIDE DEF c, d
    <2> QED BY <2>1, <2>2, SeqEqual DEF c, d
  <1> QED BY <1>5, <1>9

-----------------------------------------------------------------------------
LEMMA RetrieveStep ==
    ASSUME TypeOK, NEW n \in 0..ReadableBytes(Fields), Retrieve(n)
    PROVE  /\ TypeOK'
           /\ n \in 0..Len(Content(Fields))
           /\ Content(Fields)' = SubSeq(Content(Fields), n + 1, Len(Content(Fields)))
  <1> DEFINE b == Fields
             r == [vector |-> b.vector, reader |-> b.reader + n, writer |-> b.writer]
  <1>1. Ordered(b) /\ n \in 0..(b.writer - b.reader)
    BY OrderedFields DEF ReadableBytes
  <1>2. buffer_' = r.vector /\ readerIndex_' = r.reader /\ writerIndex_' = r.writer
    BY DEF Retrieve, Fields
  <1> HIDE DEF b
  <1>3. Ordered(r) /\ Content(r) = SubSeq(Content(b), n + 1, Len(Content(b)))
    BY <1>1, RetrieveFacts
  <1> HIDE DEF r
  <1>4. TypeOK' /\ Content(Fields)' = Content(r)
    BY <1>2, <1>3, StepFacts
  <1>5. Len(Content(b)) = b.writer - b.reader
    BY <1>1, ContentFacts
  <1> QED BY <1>1, <1>3, <1>4, <1>5 DEF b

LEMMA PrependStep ==
    ASSUME TypeOK, NEW data \in Seq(Byte), Prepend(data)
    PROVE  TypeOK' /\ Content(Fields)' = data \o Content(Fields)
  <1> DEFINE b == Fields
             p == [vector |-> Copy(b.vector, b.reader - Len(data), data),
                   reader |-> b.reader - Len(data), writer |-> b.writer]
  <1>1. Ordered(b) /\ Len(data) <= b.reader
    BY OrderedFields DEF Prepend, PrependableBytes
  <1>2. buffer_' = p.vector /\ readerIndex_' = p.reader /\ writerIndex_' = p.writer
    BY DEF Prepend, Fields
  <1> HIDE DEF b
  <1>3. Ordered(p) /\ Content(p) = data \o Content(b)
    BY <1>1, PrependFacts
  <1> HIDE DEF p
  <1>4. TypeOK' /\ Content(Fields)' = Content(p)
    BY <1>2, <1>3, StepFacts
  <1> QED BY <1>3, <1>4 DEF b

\* retrieveAll() takes the whole content, and moves the indices back.
LEMMA RetrieveAllStep ==
    ASSUME TypeOK, RetrieveAll
    PROVE  /\ TypeOK'
           /\ ReadableBytes(Fields) \in 0..Len(Content(Fields))
           /\ Content(Fields)' = SubSeq(Content(Fields), ReadableBytes(Fields) + 1,
                                        Len(Content(Fields)))
  <1> DEFINE b == Fields
             e == [vector |-> b.vector, reader |-> kCheapPrepend, writer |-> kCheapPrepend]
  <1>1. Ordered(b) /\ ReadableBytes(b) = b.writer - b.reader
    BY OrderedFields DEF ReadableBytes
  <1>2. buffer_' = e.vector /\ readerIndex_' = e.reader /\ writerIndex_' = e.writer
    BY DEF RetrieveAll, Fields
  <1> HIDE DEF b
  <1>3. /\ b.vector \in Seq(Byte) /\ kCheapPrepend \in Nat /\ kCheapPrepend <= Len(b.vector)
        /\ b.writer \in Nat /\ b.reader \in Nat /\ b.reader <= b.writer
    BY <1>1, BufferAssumption DEF Ordered
  <1>4. Ordered(e)
    BY <1>3 DEF Ordered
  <1>5. Content(e) = << >>
    <2>1. Content(e) = SubSeq(b.vector, kCheapPrepend + 1, kCheapPrepend)
      BY DEF Content
    <2> QED BY <1>3, <2>1, SubSeqEmpty
  <1> HIDE DEF e
  <1>6. TypeOK' /\ Content(Fields)' = << >>
    BY <1>2, <1>4, <1>5, StepFacts
  <1>7. Len(Content(b)) = b.writer - b.reader
    BY <1>1, ContentFacts
  <1>8. SubSeq(Content(b), ReadableBytes(b) + 1, Len(Content(b))) = << >>
    BY <1>1, <1>3, <1>7, SubSeqEmpty
  <1>9. ReadableBytes(b) \in 0..Len(Content(b))
    BY <1>1, <1>3, <1>7
  <1> QED BY <1>6, <1>8, <1>9 DEF b

-----------------------------------------------------------------------------
LEMMA InitFacts ==
    ASSUME Init
    PROVE  TypeOK /\ Content(Fields) = << >>
  <1>1. /\ kCheapPrepend \in Nat /\ kInitialSize \in Nat
        /\ kCheapPrepend + kInitialSize \in Nat /\ 0 \in Byte
    BY BufferAssumption
  <1>2. buffer_ \in [1..(kCheapPrepend + kInitialSize) -> Byte]
    BY <1>1 DEF Init
  <1>3. buffer_ \in Seq(Byte) /\ Len(buffer_) = kCheapPrepend + kInitialSize
    BY <1>1, <1>2, FunctionIsSeq
  <1>4. TypeOK
    BY <1>1, <1>3 DEF Init, TypeOK
  <1>5. Content(Fields) = SubSeq(buffer_, kCheapPrepend + 1, kCheapPrepend)
    BY DEF Init, Content, Fields
  <1> QED BY <1>1, <1>4, <1>5, SubSeqEmpty

LEMMA TypeInductive ==
    ASSUME TypeOK, [Next]_vars
    PROVE  TypeOK'
  <1>1. ASSUME NEW data \in Data(MaxData), AppendData(data) PROVE TypeOK'
    BY <1>1, DataFacts, AppendStep
  <1>2. ASSUME NEW data \in Data(MaxData), Prepend(data) PROVE TypeOK'
    BY <1>2, DataFacts, PrependStep
  <1>3. ASSUME NEW data \in Received, ReadFd(data) PROVE TypeOK'
    BY <1>3, DataFacts, ReadStep DEF Received
  <1>4. ASSUME NEW n \in 0..ReadableBytes(Fields), Retrieve(n) PROVE TypeOK'
    BY <1>4, RetrieveStep
  <1>5. CASE RetrieveAll
    BY <1>5, RetrieveAllStep
  <1>6. CASE UNCHANGED vars
    BY <1>6 DEF TypeOK, vars
  <1> QED BY <1>1, <1>2, <1>3, <1>4, <1>5, <1>6 DEF Next

\* The indices of a Buffer are ordered and inside the vector, whatever the
\* sizes, after any sequence of its operations.
THEOREM TypeCorrect == Spec => []TypeOK
  <1>1. Init => TypeOK
    BY InitFacts
  <1>2. TypeOK /\ [Next]_vars => TypeOK'
    BY TypeInductive
  <1> QED BY <1>1, <1>2, PTL DEF Spec

\* makeSpace() always makes the room asked for, and moves content only towards
\* the front: its two assertions cannot fail.
THEOREM RoomIsMade == Spec => []SpaceMade
  <1>1. TypeOK => SpaceMade
    <2>1. ASSUME TypeOK, NEW len \in 0..(MaxData + ExtraSize)
          PROVE  WritableBytes(Fields) < len =>
                   /\ WritableBytes(MakeSpace(Fields, len)) >= len
                   /\ MustGrow(Fields, len) \/ kCheapPrepend < readerIndex_
      <3>1. len \in Nat /\ Ordered(Fields)
        BY <2>1, OrderedFields, BufferAssumption
      <3>2. Fields.reader = readerIndex_
        BY DEF Fields
      <3>3. WritableBytes(Fields) < len =>
              /\ WritableBytes(MakeSpace(Fields, len)) >= len
              /\ MustGrow(Fields, len) \/ kCheapPrepend < Fields.reader
        BY <3>1, SpaceFacts
      <3> QED BY <3>2, <3>3
    <2> QED BY <2>1 DEF SpaceMade
  <1> QED BY <1>1, TypeCorrect, PTL

\* A Buffer implements ByteQueue, operation by operation: growing, moving to
\* the front and reading into the extra buffer cannot be observed.
THEOREM BufferIsByteQueue == Spec => ImplementsByteQueue
  <1> DEFINE Step ==
         /\ \A data \in Data(MaxData) : AppendData(data) => Queue!Push(data)
         /\ \A data \in Data(MaxData) : Prepend(data) => Queue!PushFront(data)
         /\ \A data \in Received : ReadFd(data) => Queue!Push(data)
         /\ \A n \in 0..ReadableBytes(Fields) : Retrieve(n) => Queue!Take(n)
         /\ RetrieveAll => Queue!Take(ReadableBytes(Fields))
  <1>1. Init => Queue!Init
    BY InitFacts DEF Queue!Init
  <1>2. ASSUME TypeOK PROVE Step
    <2>1. ASSUME NEW data \in Data(MaxData), AppendData(data) PROVE Queue!Push(data)
      BY <1>2, <2>1, DataFacts, AppendStep DEF Queue!Push
    <2>2. ASSUME NEW data \in Data(MaxData), Prepend(data) PROVE Queue!PushFront(data)
      BY <1>2, <2>2, DataFacts, PrependStep DEF Queue!PushFront
    <2>3. ASSUME NEW data \in Received, ReadFd(data) PROVE Queue!Push(data)
      BY <1>2, <2>3, DataFacts, ReadStep DEF Received, Queue!Push
    <2>4. ASSUME NEW n \in 0..ReadableBytes(Fields), Retrieve(n) PROVE Queue!Take(n)
      BY <1>2, <2>4, RetrieveStep DEF Queue!Take
    <2>5. ASSUME RetrieveAll PROVE Queue!Take(ReadableBytes(Fields))
      BY <1>2, <2>5, RetrieveAllStep DEF Queue!Take
    <2> QED BY <2>1, <2>2, <2>3, <2>4, <2>5
  <1>3. TypeOK => [Step]_vars
    BY <1>2
  <1> HIDE DEF Step
  <1>4. Spec => Queue!Init /\ [][Step]_vars
    BY <1>1, <1>3, TypeCorrect, PTL DEF Spec
  <1> QED BY <1>4 DEF ImplementsByteQueue, Step

=============================================================================
