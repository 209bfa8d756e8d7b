------------------------------- MODULE Buffer -------------------------------
(***************************************************************************)
(* mymuduo/Buffer: bytes in a vector between readerIndex_ and writerIndex_ *)
(* with room kept in front; space is made by moving the bytes forward or   *)
(* by growing the vector.                                                  *)
(***************************************************************************)
EXTENDS Integers, Sequences

CONSTANTS Byte,
          Zero,            \* the byte a vector is filled with
          kCheapPrepend, kInitialSize,
          ExtraSize,       \* sizeof extrabuf in readFd
          MaxPut,          \* bound: the longest piece appended at once
          MaxReadable      \* bound: bytes in the buffer

ASSUME BufferAssumption ==
    /\ Zero \in Byte
    /\ kCheapPrepend \in Nat /\ kInitialSize \in Nat
    /\ ExtraSize \in Nat /\ MaxPut \in Nat /\ MaxReadable \in Nat

VARIABLES b,    \* the Buffer: buf[0 .. size-1], size, readerIndex_, writerIndex_
          out   \* the bytes the last retrieve or write gave away

vars == <<b, out>>

ReadableBytes(x) == x.writerIndex_ - x.readerIndex_
WritableBytes(x) == x.size - x.writerIndex_
PrependableBytes(x) == x.readerIndex_

\* The bytes the user sees: peek() .. peek() + readableBytes().
Contents(x) == [i \in 1..ReadableBytes(x) |-> x.buf[x.readerIndex_ + i - 1]]

Buf(buf, size, reader, writer) ==
    [buf |-> buf, size |-> size, readerIndex_ |-> reader, writerIndex_ |-> writer]

Init ==
    /\ b = Buf([i \in 0..(kCheapPrepend + kInitialSize - 1) |-> Zero],
               kCheapPrepend + kInitialSize, kCheapPrepend, kCheapPrepend)
    /\ out = <<>>

\* buffer_.resize(n), n no smaller than the size.
Resize(x, n) ==
    Buf([i \in 0..(n - 1) |-> IF i < x.size THEN x.buf[i] ELSE Zero], n,
        x.readerIndex_, x.writerIndex_)

\* std::copy of the readable bytes to just behind the cheap prepend.
Moved(x) ==
    [i \in 0..(x.size - 1) |->
        IF i \in kCheapPrepend..(kCheapPrepend + ReadableBytes(x) - 1)
        THEN x.buf[i - kCheapPrepend + x.readerIndex_] ELSE x.buf[i]]

MakeSpace(x, len) ==
    IF WritableBytes(x) + PrependableBytes(x) < len + kCheapPrepend
    THEN Resize(x, x.writerIndex_ + len)
    ELSE Buf(Moved(x), x.size, kCheapPrepend, kCheapPrepend + ReadableBytes(x))

EnsureWriteableBytes(x, len) ==
    IF WritableBytes(x) < len THEN MakeSpace(x, len) ELSE x

\* std::copy to beginWrite(), then writerIndex_ moves.
Store(x, d) ==
    Buf([i \in 0..(x.size - 1) |->
            IF i \in x.writerIndex_..(x.writerIndex_ + Len(d) - 1)
            THEN d[i - x.writerIndex_ + 1] ELSE x.buf[i]],
        x.size, x.readerIndex_, x.writerIndex_ + Len(d))

AppendTo(x, d) == Store(EnsureWriteableBytes(x, Len(d)), d)

RetrieveAll(x) == Buf(x.buf, x.size, kCheapPrepend, kCheapPrepend)

\* Mutant: the buffer is reset when one byte is left.
RetrieveFromOffByOne(x, len) ==
    IF len + 1 < ReadableBytes(x)
    THEN Buf(x.buf, x.size, x.readerIndex_ + len, x.writerIndex_)
    ELSE RetrieveAll(x)

RetrieveFrom(x, len) ==
    IF len < ReadableBytes(x)
    THEN Buf(x.buf, x.size, x.readerIndex_ + len, x.writerIndex_)
    ELSE RetrieveAll(x)

Pieces == UNION {[1..n -> Byte] : n \in 0..MaxPut}

Fits(d) == ReadableBytes(b) + Len(d) <= MaxReadable

Append_(d) ==
    /\ Fits(d)
    /\ b' = AppendTo(b, d)
    /\ out' = <<>>

\* retrieveAsString(len): a copy of the first bytes, then retrieve; writeFd and
\* the retrieve that follows it in handleWrite do the same.
RetrieveAsString(len) ==
    /\ len <= ReadableBytes(b)
    /\ out' = SubSeq(Contents(b), 1, len)
    /\ b' = RetrieveFrom(b, len)

\* readv fills the writable part first and the rest goes to extrabuf.
ReadFd(d) ==
    LET writable == WritableBytes(b)
    IN  /\ Fits(d)
        /\ Len(d) <= writable + (IF writable < ExtraSize THEN ExtraSize ELSE 0)
        /\ b' = IF Len(d) <= writable THEN Store(b, d)
                ELSE AppendTo(Store(b, SubSeq(d, 1, writable)),
                              SubSeq(d, writable + 1, Len(d)))
        /\ out' = <<>>

Next ==
    \/ \E d \in Pieces : Append_(d)
    \/ \E d \in Pieces : ReadFd(d)
    \/ \E len \in 0..MaxReadable : RetrieveAsString(len)

Spec == Init /\ [][Next]_vars

-----------------------------------------------------------------------------
WellTyped(x) ==
    x \in [buf : [0..(x.size - 1) -> Byte], size : Nat,
           readerIndex_ : Nat, writerIndex_ : Nat]

Ordered(x) ==
    /\ kCheapPrepend <= x.readerIndex_
    /\ x.readerIndex_ <= x.writerIndex_
    /\ x.writerIndex_ <= x.size

TypeOK == WellTyped(b)

\* The indices stay in order through every growth and move: room in front, then
\* the readable bytes, then the writable ones, all inside the vector.
IndicesInOrder == Ordered(b)

\* The buffer behaves as a queue of bytes, whatever mix of appends, scattered
\* reads, partial retrieves, moves and growths its user makes.
Queue == INSTANCE ByteQueue WITH q <- Contents(b), out <- out

ImplementsByteQueue == Queue!Spec
=============================================================================
