------------------------------- MODULE Buffer -------------------------------
(***************************************************************************)
(* Dalin's Buffer (src/net/Buffer.h, src/net/Buffer.cpp): a vector of      *)
(* bytes with two indices.  The bytes between the indices are the content; *)
(* the space before them takes prepend(), the space behind them append()   *)
(* and readFd(), and when it is too small the content is moved to the      *)
(* front or the vector grows.                                              *)
(*                                                                         *)
(* The members are functions of the three fields, so that readFd() can     *)
(* call append(), which calls makeSpace().  shrink(), which nothing calls, *)
(* and swap() are left out.                                                *)
(***************************************************************************)
EXTENDS Integers, Sequences

CONSTANTS
    Byte,
    kCheapPrepend, kInitialSize,
    ExtraSize,      \* size of the buffer on the stack of readFd()
    MaxData,        \* bound: bytes given to append() or prepend()
    MaxSize         \* bound: bytes of the vector

ASSUME BufferAssumption ==
    /\ Byte \subseteq Nat /\ 0 \in Byte
    /\ kCheapPrepend \in Nat /\ kInitialSize \in Nat
    /\ ExtraSize \in Nat /\ MaxData \in Nat /\ MaxSize \in Nat

VARIABLES buffer_, readerIndex_, writerIndex_

vars == <<buffer_, readerIndex_, writerIndex_>>

-----------------------------------------------------------------------------
Fields == [vector |-> buffer_, reader |-> readerIndex_, writer |-> writerIndex_]

ReadableBytes(b) == b.writer - b.reader
WritableBytes(b) == Len(b.vector) - b.writer
PrependableBytes(b) == b.reader

\* std::copy(data, data + len, begin() + at)
Copy(vector, at, data) ==
    [i \in 1..Len(vector) |->
        IF i \in (at + 1)..(at + Len(data)) THEN data[i - at] ELSE vector[i]]

\* buffer_.resize(n): new bytes are 0
Resize(vector, n) == [i \in 1..n |-> IF i <= Len(vector) THEN vector[i] ELSE 0]

Content(b) == SubSeq(b.vector, b.reader + 1, b.writer)

\* Seeded fault: the space the content may move into is counted without the
\* part kept for prepend().
MustGrowLate(b, len) == WritableBytes(b) + PrependableBytes(b) < len

MustGrow(b, len) == WritableBytes(b) + PrependableBytes(b) < len + kCheapPrepend

\* Seeded fault: the content is moved over the space kept for prepend().
MoveToFrontMisplaced(b) ==
    [vector |-> Copy(b.vector, 0, Content(b)),
     reader |-> kCheapPrepend,
     writer |-> kCheapPrepend + ReadableBytes(b)]

MoveToFront(b) ==
    [vector |-> Copy(b.vector, kCheapPrepend, Content(b)),
     reader |-> kCheapPrepend,
     writer |-> kCheapPrepend + ReadableBytes(b)]

\* Seeded fault: the vector grows without the space in front of the content.
MakeSpaceReadable(b, len) ==
    IF MustGrow(b, len)
    THEN [b EXCEPT !.vector = Resize(b.vector, ReadableBytes(b) + len)]
    ELSE MoveToFront(b)

MakeSpace(b, len) ==
    IF MustGrow(b, len)
    THEN [b EXCEPT !.vector = Resize(b.vector, b.writer + len)]
    ELSE MoveToFront(b)

EnsureWritableBytes(b, len) == IF WritableBytes(b) < len THEN MakeSpace(b, len) ELSE b

\* data copied to beginWrite(), then hasWritten()
Written(b, data) ==
    [vector |-> Copy(b.vector, b.writer, data),
     reader |-> b.reader,
     writer |-> b.writer + Len(data)]

AppendTo(b, data) == Written(EnsureWritableBytes(b, Len(data)), data)

\* readFd(): readv(2) fills the space behind the content and then the extra
\* buffer, which is appended.
ReadIn(b, data) ==
    LET writable == WritableBytes(b) IN
    IF Len(data) <= writable
    THEN Written(b, data)
    ELSE AppendTo(Written(b, SubSeq(data, 1, writable)), SubSeq(data, writable + 1, Len(data)))

-----------------------------------------------------------------------------
Init ==
    /\ buffer_ = [i \in 1..(kCheapPrepend + kInitialSize) |-> 0]
    /\ readerIndex_ = kCheapPrepend
    /\ writerIndex_ = kCheapPrepend

Becomes(b) ==
    /\ Len(b.vector) <= MaxSize
    /\ buffer_' = b.vector /\ readerIndex_' = b.reader /\ writerIndex_' = b.writer

Data(max) == UNION {[1..n -> Byte] : n \in 0..max}

\* what readv(2) can return into the space left and the extra buffer
Received == Data(WritableBytes(Fields) + ExtraSize)

AppendData(data) == Becomes(AppendTo(Fields, data))

\* readFd() with data from the descriptor, none of it at the end of the stream
\* (an error changes nothing)
ReadFd(data) == Becomes(ReadIn(Fields, data))

\* The callers keep what is asserted: len <= prependableBytes()
Prepend(data) ==
    /\ Len(data) <= PrependableBytes(Fields)
    /\ readerIndex_' = readerIndex_ - Len(data)
    /\ buffer_' = Copy(buffer_, readerIndex_', data)
    /\ UNCHANGED writerIndex_

\* retrieve() and retrieveUntil(), with len <= readableBytes()
Retrieve(n) ==
    /\ n <= ReadableBytes(Fields)
    /\ readerIndex_' = readerIndex_ + n
    /\ UNCHANGED <<buffer_, writerIndex_>>

\* retrieveAll() and retrieveAsString()
RetrieveAll ==
    /\ readerIndex_' = kCheapPrepend /\ writerIndex_' = kCheapPrepend
    /\ UNCHANGED buffer_

Next ==
    \/ \E data \in Data(MaxData) : AppendData(data) \/ Prepend(data)
    \/ \E data \in Received : ReadFd(data)
    \/ \E n \in 0..ReadableBytes(Fields) : Retrieve(n)
    \/ RetrieveAll

Spec == Init /\ [][Next]_vars

-----------------------------------------------------------------------------
\* The indices are ordered and lie inside the vector, which keeps the room for
\* a cheap prepend() it started with.
TypeOK ==
    /\ buffer_ \in Seq(Byte)
    /\ readerIndex_ \in 0..writerIndex_
    /\ writerIndex_ \in 0..Len(buffer_)
    /\ kCheapPrepend <= Len(buffer_)

\* The assertions of ensureWritableBytes() and makeSpace(), for whatever is
\* appended next: there is room afterwards, and content is moved only towards
\* the front (std::copy() would overwrite what it has still to read).
SpaceMade ==
    \A len \in 0..(MaxData + ExtraSize) :
        WritableBytes(Fields) < len =>
            /\ WritableBytes(MakeSpace(Fields, len)) >= len
            /\ MustGrow(Fields, len) \/ kCheapPrepend < readerIndex_

\* Through growing, moving and overflowing reads, the content is what was
\* appended, read and prepended, less what was retrieved, in order: each
\* operation does to the content what ByteQueue says of it.
Queue == INSTANCE ByteQueue WITH readable <- Content(Fields)

ImplementsByteQueue ==
    /\ Queue!Init
    /\ [][/\ \A data \in Data(MaxData) : AppendData(data) => Queue!Push(data)
          /\ \A data \in Data(MaxData) : Prepend(data) => Queue!PushFront(data)
          /\ \A data \in Received : ReadFd(data) => Queue!Push(data)
          /\ \A n \in 0..ReadableBytes(Fields) : Retrieve(n) => Queue!Take(n)
          /\ RetrieveAll => Queue!Take(ReadableBytes(Fields))]_vars

=============================================================================
