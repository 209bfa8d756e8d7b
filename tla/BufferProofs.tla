---------------------------- MODULE BufferProofs ----------------------------
(***************************************************************************)
(* For every buffer size, prepend room and piece: the indices stay in      *)
(* order and the buffer implements a queue of bytes.                       *)
(***************************************************************************)
EXTENDS Buffer, SequenceTheorems, TLAPS

Good(x) == WellTyped(x) /\ Ordered(x)

IInv == Good(b)

\* The bytes of f from r on are those of s.
ReadsAs(f, r, s) == \A i \in 1..Len(s) : s[i] = f[r + i - 1]

\* g is f up to w and holds a copy of d from there on.
CopiedAt(f, g, r, w, d) ==
    /\ \A i \in r..(w - 1) : g[i] = f[i]
    /\ \A i \in w..(w + Len(d) - 1) : g[i] = d[i - w + 1]

\* The readable bytes form a sequence of readableBytes() bytes.
LEMMA ContentsSeq ==
    ASSUME NEW x, Good(x)
    PROVE  /\ Contents(x) \in Seq(Byte)
           /\ Len(Contents(x)) = ReadableBytes(x)
           /\ ReadableBytes(x) \in Nat
           /\ ReadsAs(x.buf, x.readerIndex_, Contents(x))
<1>1. ReadableBytes(x) \in Nat
    BY BufferAssumption DEF Good, WellTyped, Ordered, ReadableBytes
<1>2. \A i \in 1..ReadableBytes(x) : x.buf[x.readerIndex_ + i - 1] \in Byte
    BY SMTT(60), BufferAssumption DEF Good, WellTyped, Ordered, ReadableBytes
<1>3. Contents(x) \in [1..ReadableBytes(x) -> Byte]
    BY <1>2 DEF Contents
<1> QED
    BY <1>1, <1>3 DEF Contents, ReadsAs

\* What a good buffer says of its fields.
LEMMA GoodFields ==
    ASSUME NEW x, Good(x)
    PROVE  /\ x.size \in Nat /\ x.readerIndex_ \in Nat /\ x.writerIndex_ \in Nat
           /\ x.buf \in [0..(x.size - 1) -> Byte]
           /\ kCheapPrepend <= x.readerIndex_
           /\ x.readerIndex_ <= x.writerIndex_ /\ x.writerIndex_ <= x.size
    BY DEF Good, WellTyped, Ordered

\* A buffer whose readable bytes are those of s holds s.
LEMMA ContentsAre ==
    ASSUME NEW x, Good(x), NEW s \in Seq(Byte), Len(s) = ReadableBytes(x),
           ReadsAs(x.buf, x.readerIndex_, s)
    PROVE  Contents(x) = s
    BY SMTT(60), ContentsSeq, SeqEqual DEF ReadsAs

\* Bytes r .. w-1 followed by a copy of d at w read as the old bytes and then d.
LEMMA ReadAfterCopy ==
    ASSUME NEW r \in Nat, NEW w \in Nat, r <= w, NEW d \in Seq(Byte),
           NEW c \in Seq(Byte), Len(c) = w - r,
           NEW f, NEW g, ReadsAs(f, r, c), CopiedAt(f, g, r, w, d)
    PROVE  /\ c \o d \in Seq(Byte) /\ Len(c \o d) = w + Len(d) - r
           /\ ReadsAs(g, r, c \o d)
<1>1. /\ c \o d \in Seq(Byte) /\ Len(c \o d) = Len(c) + Len(d)
      /\ Len(c) \in Nat /\ Len(d) \in Nat
    BY Zenon, ConcatProperties, LenProperties
<1>2. ASSUME NEW i \in 1..Len(c), NEW j, j = r + i - 1 PROVE (c \o d)[i] = g[j]
  <2>1. (c \o d)[i] = c[i]
      BY <1>1, ConcatProperties
  <2>2. j \in r..(w - 1) /\ c[i] = f[j]
      BY <1>1, <1>2 DEF ReadsAs
  <2> QED BY <2>1, <2>2 DEF CopiedAt
<1>3. ASSUME NEW i \in (Len(c) + 1)..(Len(c) + Len(d)), NEW j, j = r + i - 1
      PROVE (c \o d)[i] = g[j]
  <2>1. (c \o d)[i] = d[i - Len(c)]
      BY SMTT(60), <1>1, ConcatProperties
  <2>2. j \in w..(w + Len(d) - 1) /\ j - w + 1 = i - Len(c)
      BY <1>1, <1>3
  <2> QED BY SMTT(60), <2>1, <2>2 DEF CopiedAt
<1>4. ReadsAs(g, r, c \o d)
  <2> SUFFICES ASSUME NEW i \in 1..Len(c \o d) PROVE (c \o d)[i] = g[r + i - 1]
      BY DEF ReadsAs
  <2> DEFINE j == r + i - 1
  <2>1. i \in 1..Len(c) \/ i \in (Len(c) + 1)..(Len(c) + Len(d))
      BY <1>1
  <2>2. (c \o d)[i] = g[j]
      BY <2>1, <1>2, <1>3
  <2> QED BY <2>2
<1> QED
    BY <1>1, <1>4

\* std::copy to beginWrite() appends to what is readable.
LEMMA StoreAppends ==
    ASSUME NEW x, Good(x), NEW d \in Seq(Byte), Len(d) <= WritableBytes(x)
    PROVE  /\ Good(Store(x, d))
           /\ Contents(Store(x, d)) = Contents(x) \o d
<1> DEFINE y == Store(x, d)
           w == x.writerIndex_
           r == x.readerIndex_
<1>0. /\ x.size \in Nat /\ r \in Nat /\ w \in Nat
      /\ x.buf \in [0..(x.size - 1) -> Byte]
      /\ kCheapPrepend <= r /\ r <= w /\ w <= x.size
      /\ Len(d) \in Nat /\ w + Len(d) <= x.size /\ kCheapPrepend \in Nat
    BY GoodFields, BufferAssumption DEF WritableBytes
<1>1. /\ y.size = x.size /\ y.readerIndex_ = r /\ y.writerIndex_ = w + Len(d)
      /\ y.buf \in [0..(x.size - 1) -> Byte]
      /\ \A i \in 0..(x.size - 1) :
            y.buf[i] = IF i \in w..(w + Len(d) - 1) THEN d[i - w + 1] ELSE x.buf[i]
    BY SMTT(60), <1>0 DEF Store, Buf
<1>2. Good(y)
  <2>1. WellTyped(y)
      BY SMTT(60), <1>0 DEF WellTyped, Store, Buf
  <2> QED BY <2>1, <1>0, <1>1 DEF Good, Ordered
<1>3. ReadableBytes(y) = (w - r) + Len(d) /\ ReadableBytes(x) = w - r
    BY <1>0, <1>1 DEF ReadableBytes
<1>4. /\ Contents(x) \in Seq(Byte) /\ Len(Contents(x)) = w - r
      /\ ReadsAs(x.buf, r, Contents(x))
    BY <1>3, ContentsSeq
<1>5. CopiedAt(x.buf, y.buf, r, w, d)
  <2> HIDE DEF y, w, r
  <2>1. ASSUME NEW i \in r..(w - 1) PROVE y.buf[i] = x.buf[i]
    <3>1. i \in 0..(x.size - 1) /\ i \notin w..(w + Len(d) - 1)
        BY <1>0
    <3> QED BY <3>1, <1>1
  <2>2. ASSUME NEW i \in w..(w + Len(d) - 1) PROVE y.buf[i] = d[i - w + 1]
    <3>1. i \in 0..(x.size - 1)
        BY <1>0
    <3> QED BY <3>1, <1>1
  <2> QED BY <2>1, <2>2 DEF CopiedAt
<1>6. /\ Contents(x) \o d \in Seq(Byte) /\ Len(Contents(x) \o d) = w + Len(d) - r
      /\ ReadsAs(y.buf, r, Contents(x) \o d)
  <2> HIDE DEF y, w, r
  <2> QED BY <1>0, <1>4, <1>5, ReadAfterCopy
<1>7. Contents(y) = Contents(x) \o d
  <2> HIDE DEF y, w, r
  <2>1. ReadsAs(y.buf, y.readerIndex_, Contents(x) \o d)
      BY <1>1, <1>6
  <2>2. Len(Contents(x) \o d) = ReadableBytes(y)
      BY <1>0, <1>3, <1>6
  <2> QED BY Zenon, <1>2, <1>6, <2>1, <2>2, ContentsAre
<1> QED
    BY <1>2, <1>7

\* makeSpace keeps what is readable and leaves room for len bytes.
LEMMA MakeSpaceKeeps ==
    ASSUME NEW x, Good(x), NEW len \in Nat, WritableBytes(x) < len
    PROVE  /\ Good(MakeSpace(x, len))
           /\ Contents(MakeSpace(x, len)) = Contents(x)
           /\ len <= WritableBytes(MakeSpace(x, len))
<1> DEFINE y == MakeSpace(x, len)
           w == x.writerIndex_
           r == x.readerIndex_
<1>0. /\ x.size \in Nat /\ r \in Nat /\ w \in Nat
      /\ x.buf \in [0..(x.size - 1) -> Byte]
      /\ kCheapPrepend <= r /\ r <= w /\ w <= x.size
      /\ x.size - w < len /\ kCheapPrepend \in Nat /\ Zero \in Byte
    BY GoodFields, BufferAssumption DEF WritableBytes
<1>1. CASE x.size - w + r < len + kCheapPrepend
  <2>1. y = Resize(x, w + len)
      BY <1>1 DEF MakeSpace, WritableBytes, PrependableBytes
  <2>2. /\ y.size = w + len /\ y.readerIndex_ = r /\ y.writerIndex_ = w
        /\ y.buf \in [0..(w + len - 1) -> Byte]
        /\ \A i \in 0..(w - 1) : y.buf[i] = x.buf[i]
      BY SMTT(60), <1>0, <2>1 DEF Resize, Buf
  <2>3. WellTyped(y)
      BY SMTT(60), <1>0, <2>1 DEF WellTyped, Resize, Buf
  <2> HIDE DEF y
  <2>4. Good(y) /\ len <= WritableBytes(y) /\ ReadableBytes(y) = ReadableBytes(x)
      BY SMTT(60), <1>0, <2>2, <2>3 DEF Good, Ordered, WritableBytes, ReadableBytes
  <2>5. ReadsAs(y.buf, y.readerIndex_, Contents(x))
    <3> SUFFICES ASSUME NEW i \in 1..Len(Contents(x))
                 PROVE  Contents(x)[i] = y.buf[y.readerIndex_ + i - 1]
        BY DEF ReadsAs
    <3> DEFINE j == r + i - 1
    <3>1. Len(Contents(x)) = w - r /\ Contents(x)[i] = x.buf[j]
        BY ContentsSeq DEF ReadsAs, ReadableBytes
    <3>2. j \in 0..(w - 1)
      <4> HIDE DEF w, r
      <4>1. i \in Int /\ 1 <= i /\ i <= w - r
          BY <1>0, <3>1
      <4> QED BY <1>0, <4>1
    <3> QED BY <2>2, <3>1, <3>2
  <2> QED BY <2>4, <2>5, ContentsSeq, ContentsAre DEF y
<1>2. CASE ~(x.size - w + r < len + kCheapPrepend)
  <2>1. y = Buf(Moved(x), x.size, kCheapPrepend, kCheapPrepend + (w - r))
      BY <1>2 DEF MakeSpace, WritableBytes, PrependableBytes, ReadableBytes
  <2>2. /\ y.size = x.size /\ y.readerIndex_ = kCheapPrepend
        /\ y.writerIndex_ = kCheapPrepend + (w - r)
        /\ y.buf = Moved(x)
      BY <2>1 DEF Buf
  <2>3. /\ Moved(x) \in [0..(x.size - 1) -> Byte]
        /\ \A j \in kCheapPrepend..(kCheapPrepend + (w - r) - 1) :
              Moved(x)[j] = x.buf[j - kCheapPrepend + r]
    <3>1. ASSUME NEW j \in 0..(x.size - 1), j \in kCheapPrepend..(kCheapPrepend + (w - r) - 1)
          PROVE  x.buf[j - kCheapPrepend + r] \in Byte
      <4> HIDE DEF w, r
      <4>1. j \in Int /\ kCheapPrepend <= j /\ j <= kCheapPrepend + (w - r) - 1
          BY <1>0, <3>1
      <4>2. j - kCheapPrepend + r \in Int /\ 0 <= j - kCheapPrepend + r
            /\ j - kCheapPrepend + r <= x.size - 1
          BY <1>0, <4>1
      <4>3. j - kCheapPrepend + r \in 0..(x.size - 1)
          BY <1>0, <4>2
      <4> QED BY SMTT(60), <1>0, <4>3
    <3>2. Moved(x) \in [0..(x.size - 1) -> Byte]
        BY SMTT(60), <1>0, <3>1 DEF Moved, ReadableBytes
    <3>3. ASSUME NEW j \in kCheapPrepend..(kCheapPrepend + (w - r) - 1)
          PROVE  Moved(x)[j] = x.buf[j - kCheapPrepend + r]
        BY SMTT(60), <1>0 DEF Moved, ReadableBytes
    <3> QED BY <3>2, <3>3
  <2>4. WellTyped(y)
      BY SMTT(60), <1>0, <2>1, <2>3 DEF WellTyped, Buf
  <2> HIDE DEF y
  <2>5. Good(y) /\ len <= WritableBytes(y) /\ ReadableBytes(y) = ReadableBytes(x)
      BY SMTT(60), <1>0, <1>2, <2>2, <2>4 DEF Good, Ordered, WritableBytes, ReadableBytes
  <2>6. ReadsAs(y.buf, y.readerIndex_, Contents(x))
    <3> SUFFICES ASSUME NEW i \in 1..Len(Contents(x))
                 PROVE  Contents(x)[i] = y.buf[y.readerIndex_ + i - 1]
        BY DEF ReadsAs
    <3> DEFINE j == kCheapPrepend + i - 1
    <3>1. Len(Contents(x)) = w - r /\ Contents(x)[i] = x.buf[r + i - 1]
        BY ContentsSeq DEF ReadsAs, ReadableBytes
    <3>2. j \in kCheapPrepend..(kCheapPrepend + (w - r) - 1)
      <4> HIDE DEF w, r
      <4>1. i \in Int /\ 1 <= i /\ i <= w - r
          BY <1>0, <3>1
      <4> QED BY <1>0, <4>1
    <3>3. j - kCheapPrepend + r = r + i - 1
        BY <1>0
    <3> QED BY <2>2, <2>3, <3>1, <3>2, <3>3
  <2> QED BY <2>5, <2>6, ContentsSeq, ContentsAre DEF y
<1> QED
    BY <1>1, <1>2

\* append puts d behind what is readable, wherever the space comes from.
LEMMA AppendAppends ==
    ASSUME NEW x, Good(x), NEW d \in Seq(Byte)
    PROVE  /\ Good(AppendTo(x, d))
           /\ Contents(AppendTo(x, d)) = Contents(x) \o d
<1> DEFINE y == EnsureWriteableBytes(x, Len(d))
<1>0. Len(d) \in Nat /\ WritableBytes(x) \in Int
    BY GoodFields, LenProperties DEF WritableBytes
<1>1. Good(y) /\ Contents(y) = Contents(x) /\ Len(d) <= WritableBytes(y)
    BY <1>0, MakeSpaceKeeps DEF EnsureWriteableBytes
<1> QED
    BY Zenon, <1>1, StoreAppends DEF AppendTo

\* retrieve drops the first len readable bytes.
LEMMA RetrieveDrops ==
    ASSUME NEW x, Good(x), NEW len \in Nat, len <= ReadableBytes(x)
    PROVE  /\ Good(RetrieveFrom(x, len))
           /\ Contents(RetrieveFrom(x, len)) =
                 SubSeq(Contents(x), len + 1, Len(Contents(x)))
<1> DEFINE y == RetrieveFrom(x, len)
           w == x.writerIndex_
           r == x.readerIndex_
           s == SubSeq(Contents(x), len + 1, Len(Contents(x)))
<1>0. /\ x.size \in Nat /\ r \in Nat /\ w \in Nat
      /\ x.buf \in [0..(x.size - 1) -> Byte]
      /\ kCheapPrepend <= r /\ r <= w /\ w <= x.size
      /\ len <= w - r /\ kCheapPrepend \in Nat
    BY GoodFields, BufferAssumption DEF ReadableBytes
<1>1. /\ Contents(x) \in Seq(Byte) /\ Len(Contents(x)) = w - r
      /\ ReadsAs(x.buf, r, Contents(x))
    BY ContentsSeq DEF ReadableBytes
<1>2. CASE len < w - r
  <2>1. y = Buf(x.buf, x.size, r + len, w)
      BY <1>2 DEF RetrieveFrom, ReadableBytes
  <2>2. y.buf = x.buf /\ y.size = x.size /\ y.readerIndex_ = r + len /\ y.writerIndex_ = w
      BY <2>1 DEF Buf
  <2>3. WellTyped(y)
      BY <1>0, <2>1 DEF WellTyped, Buf
  <2> HIDE DEF y, w, r
  <2>4. Good(y) /\ ReadableBytes(y) = w - r - len
      BY <1>0, <1>2, <2>2, <2>3 DEF Good, Ordered, ReadableBytes
  <2>5. /\ s \in Seq(Byte) /\ Len(s) = w - r - len
        /\ \A i \in 1..(w - r - len) : s[i] = Contents(x)[len + i]
      BY <1>0, <1>1, <1>2
  <2>6. ReadsAs(y.buf, y.readerIndex_, s)
    <3> SUFFICES ASSUME NEW i \in 1..Len(s) PROVE s[i] = y.buf[y.readerIndex_ + i - 1]
        BY DEF ReadsAs
    <3> HIDE DEF s
    <3> DEFINE j == len + i
    <3>1. j \in 1..Len(Contents(x)) /\ s[i] = Contents(x)[j]
        BY <1>0, <1>1, <2>5
    <3>2. Contents(x)[j] = x.buf[r + j - 1]
        BY <1>1, <3>1 DEF ReadsAs
    <3>3. r + j - 1 = r + len + i - 1
        BY <1>0
    <3> QED BY <2>2, <3>1, <3>2, <3>3
  <2> QED
    <3> HIDE DEF s
    <3>1. Contents(y) = s
        BY <2>4, <2>5, <2>6, ContentsAre
    <3> QED BY <2>4, <3>1 DEF s, y
<1>3. CASE ~(len < w - r)
  <2>1. y = Buf(x.buf, x.size, kCheapPrepend, kCheapPrepend)
      BY <1>3 DEF RetrieveFrom, RetrieveAll, ReadableBytes
  <2>2. y.buf = x.buf /\ y.size = x.size /\ y.readerIndex_ = kCheapPrepend
        /\ y.writerIndex_ = kCheapPrepend
      BY <2>1 DEF Buf
  <2>3. WellTyped(y)
      BY <1>0, <2>1 DEF WellTyped, Buf
  <2> HIDE DEF y
  <2>4. Good(y) /\ ReadableBytes(y) = 0
      BY <1>0, <2>2, <2>3 DEF Good, Ordered, ReadableBytes
  <2>5. s = <<>>
      BY <1>0, <1>1, <1>3, SubSeqEmpty
  <2>6. Contents(y) = <<>>
      BY <2>4, ContentsSeq, EmptySeq
  <2> QED BY Zenon, <2>4, <2>5, <2>6 DEF y
<1> QED
    BY <1>2, <1>3
-----------------------------------------------------------------------------
\* A sequence cut in two.
LEMMA CutAndJoin ==
    ASSUME NEW d \in Seq(Byte), NEW n \in Nat, n <= Len(d)
    PROVE  SubSeq(d, 1, n) \o SubSeq(d, n + 1, Len(d)) = d
<1> DEFINE s == SubSeq(d, 1, n)
           t == SubSeq(d, n + 1, Len(d))
<1>1. /\ Len(d) \in Nat
      /\ s \in Seq(Byte) /\ Len(s) = n /\ \A i \in 1..n : s[i] = d[i]
      /\ t \in Seq(Byte) /\ Len(t) = Len(d) - n
      /\ \A i \in 1..(Len(d) - n) : t[i] = d[n + i]
    OBVIOUS
<1> HIDE DEF s, t
<1>2. s \o t \in Seq(Byte) /\ Len(s \o t) = Len(d)
  <2>1. s \o t \in Seq(Byte) /\ Len(s \o t) = Len(s) + Len(t)
      BY Zenon, <1>1, ConcatProperties
  <2>2. Len(s) + Len(t) = Len(d)
      BY <1>1
  <2> QED BY <2>1, <2>2
<1>3. ASSUME NEW i \in 1..Len(d) PROVE (s \o t)[i] = d[i]
  <2>1. CASE i <= n
      BY <1>1, <2>1, ConcatProperties
  <2>2. CASE i > n
    <3>1. (s \o t)[i] = t[i - n]
        BY <1>1, <2>2, ConcatProperties
    <3>2. i - n \in 1..(Len(d) - n) /\ n + (i - n) = i
        BY <1>1, <2>2
    <3> QED BY SMTT(60), <1>1, <3>1, <3>2
  <2> QED BY <1>1, <2>1, <2>2
<1>4. s \o t = d
    BY Zenon, <1>2, <1>3, SeqEqual
<1> QED
    BY Zenon, <1>4 DEF s, t

LEMMA JoinAgain ==
    ASSUME NEW s \in Seq(Byte), NEW t \in Seq(Byte), NEW u \in Seq(Byte)
    PROVE  (s \o t) \o u = s \o (t \o u)
    BY SMTT(60), ConcatAssociative

\* A piece is a sequence of bytes.
LEMMA PiecesAreSeqs == Pieces \subseteq Seq(Byte)
    BY BufferAssumption DEF Pieces

LEMMA InitGood == Init => IInv /\ Queue!Init
<1> SUFFICES ASSUME Init PROVE IInv /\ Queue!Init
    OBVIOUS
<1>1. /\ b.readerIndex_ = kCheapPrepend /\ b.writerIndex_ = kCheapPrepend
      /\ b.size = kCheapPrepend + kInitialSize
    BY DEF Init, Buf
<1>2. WellTyped(b)
    BY BufferAssumption DEF Init, WellTyped, Buf
<1>4. Good(b) /\ ReadableBytes(b) = 0
    BY <1>1, <1>2, BufferAssumption DEF Good, Ordered, ReadableBytes
<1>5. Contents(b) = <<>>
    BY <1>4, ContentsSeq, EmptySeq
<1> QED
    BY <1>4, <1>5 DEF IInv, Init, Queue!Init

\* Every step keeps the buffer good and is a step of the byte queue.
LEMMA NextGood ==
    ASSUME IInv, [Next]_vars
    PROVE  IInv' /\ [Queue!Next]_<<Contents(b), out>>
<1> USE DEF IInv
<1>1. ASSUME NEW d \in Pieces, Append_(d) PROVE IInv' /\ Queue!Put
  <2>1. d \in Seq(Byte) /\ b' = AppendTo(b, d) /\ out' = <<>>
      BY <1>1, PiecesAreSeqs DEF Append_
  <2>2. Good(b') /\ Contents(b') = Contents(b) \o d
      BY Zenon, <2>1, AppendAppends
  <2> QED BY Zenon, <2>1, <2>2 DEF Queue!Put, Contents, ReadableBytes
<1>2. ASSUME NEW d \in Pieces, ReadFd(d) PROVE IInv' /\ Queue!Put
  <2> DEFINE n == WritableBytes(b)
             d1 == SubSeq(d, 1, n)
             d2 == SubSeq(d, n + 1, Len(d))
  <2>0. d \in Seq(Byte) /\ n \in Nat /\ Len(d) \in Nat /\ out' = <<>>
      BY <1>2, PiecesAreSeqs, GoodFields DEF ReadFd, WritableBytes
  <2>1. CASE Len(d) <= n
    <3>1. b' = Store(b, d)
        BY <1>2, <2>1 DEF ReadFd
    <3>2. Good(b') /\ Contents(b') = Contents(b) \o d
        BY <2>0, <2>1, <3>1, StoreAppends
    <3> QED BY Zenon, <2>0, <3>2 DEF Queue!Put, Contents, ReadableBytes
  <2>2. CASE ~(Len(d) <= n)
    <3> DEFINE y == Store(b, d1)
    <3>1. b' = AppendTo(y, d2)
        BY <1>2, <2>2 DEF ReadFd
    <3> HIDE DEF n
    <3>a. d1 \in Seq(Byte) /\ d2 \in Seq(Byte) /\ Len(d1) = n
        BY <2>0, <2>2
    <3>b. d1 \o d2 = d
      <4>1. n <= Len(d)
          BY <2>0, <2>2
      <4> QED BY Zenon, <2>0, <4>1, CutAndJoin
    <3> HIDE DEF d1, d2
    <3>2. d1 \in Seq(Byte) /\ d2 \in Seq(Byte) /\ Len(d1) = n /\ d1 \o d2 = d
        BY <3>a, <3>b
    <3>3. Good(y) /\ Contents(y) = Contents(b) \o d1
        BY SMTT(60), <2>0, <3>2, StoreAppends DEF n
    <3> HIDE DEF y
    <3>4. Good(b') /\ Contents(b') = (Contents(b) \o d1) \o d2
        BY Zenon, <3>1, <3>2, <3>3, AppendAppends
    <3>d. Contents(b) \in Seq(Byte)
        BY ContentsSeq
    <3>5. (Contents(b) \o d1) \o d2 = Contents(b) \o (d1 \o d2)
        BY Zenon, <3>2, <3>d, JoinAgain
    <3>6. Contents(b') = Contents(b) \o d
        BY <3>2, <3>4, <3>5
    <3> QED BY Zenon, <2>0, <3>4, <3>6 DEF Queue!Put, Contents, ReadableBytes
  <2> QED BY <2>1, <2>2
<1>3. ASSUME NEW len \in 0..MaxReadable, RetrieveAsString(len) PROVE IInv' /\ Queue!Take
  <2>1. len \in Nat /\ len <= ReadableBytes(b) /\ b' = RetrieveFrom(b, len)
        /\ out' = SubSeq(Contents(b), 1, len)
      BY <1>3, BufferAssumption DEF RetrieveAsString
  <2>2. Good(b') /\ Contents(b') = SubSeq(Contents(b), len + 1, Len(Contents(b)))
      BY <2>1, RetrieveDrops
  <2>3. len \in 0..Len(Contents(b))
      BY <2>1, ContentsSeq
  <2> QED BY Zenon, <2>1, <2>2, <2>3 DEF Queue!Take, Contents, ReadableBytes
<1>4. CASE UNCHANGED vars
    BY <1>4 DEF vars, Contents, ReadableBytes
<1> QED
    BY <1>1, <1>2, <1>3, <1>4 DEF Next, Queue!Next

\* The indices of a Buffer stay in order whatever is appended, read from a
\* socket and retrieved (Buffer.h, Buffer.cc).
THEOREM IndicesStayInOrder == Spec => []IndicesInOrder
<1>1. Init => IInv
    BY InitGood
<1>2. IInv /\ [Next]_vars => IInv'
    BY NextGood
<1>3. IInv => IndicesInOrder
    BY DEF IInv, Good, IndicesInOrder
<1> QED
    BY <1>1, <1>2, <1>3, PTL DEF Spec

\* A Buffer implements a queue of bytes: what append and readFd put in comes out
\* of retrieve in order, through moves and growths.
THEOREM BufferIsByteQueue == Spec => ImplementsByteQueue
<1>1. Init => IInv /\ Queue!Init
    BY InitGood
<1>2. IInv /\ [Next]_vars => IInv' /\ [Queue!Next]_<<Contents(b), out>>
    BY NextGood
<1> QED
    BY <1>1, <1>2, PTL DEF Spec, ImplementsByteQueue, Queue!Spec
=============================================================================
