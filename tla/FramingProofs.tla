---------------------------- MODULE FramingProofs ----------------------------
(***************************************************************************)
(* Proofs about the input side of a connection slot, for every size of the *)
(* buffer and of its two areas, every length of a message and any number   *)
(* of messages and connections.                                            *)
(***************************************************************************)
EXTENDS Framing, SequenceTheorems, FiniteSetTheorems, TLAPS

-----------------------------------------------------------------------------
(***************************************************************************)
(* The buffer.  What a call does to it is said in terms of Content(b), the *)
(* bytes that can be read.                                                 *)
(***************************************************************************)
BufferOK(b, S) ==
  /\ b \in [cells : Seq(S), readerIndex : Nat, writerIndex : Nat]
  /\ kCheapPrepend <= b.readerIndex
  /\ b.readerIndex <= b.writerIndex
  /\ b.writerIndex <= Len(b.cells)

LEMMA ContentAt ==
  ASSUME NEW S, NEW b, BufferOK(b, S)
  PROVE  /\ readableBytes(b) \in Nat
         /\ writableBytes(b) \in Nat
         /\ Content(b) \in Seq(S)
         /\ Len(Content(b)) = readableBytes(b)
         /\ \A k \in 1 .. readableBytes(b) :
              Content(b)[k] = b.cells[b.readerIndex + k]
<1>1. readableBytes(b) \in Nat /\ writableBytes(b) \in Nat
  BY BufferAssumption DEF BufferOK, readableBytes, writableBytes
<1>2. \A k \in b.readerIndex + 1 .. b.readerIndex + readableBytes(b) : b.cells[k] \in S
  BY ElementOfSeq DEF BufferOK, readableBytes
<1> QED
  BY <1>1, <1>2, SubSeqProperties DEF Content, Peek, BufferOK, readableBytes

\* Bytes that are written within the array leave its size and the bytes
\* outside their range.
LEMMA OverwriteEffect ==
  ASSUME NEW S, NEW cells \in Seq(S), NEW data \in Seq(S), NEW from \in Nat,
         from + Len(data) <= Len(cells)
  PROVE  /\ Overwrite(cells, from, data) \in Seq(S)
         /\ Len(Overwrite(cells, from, data)) = Len(cells)
         /\ \A k \in 1 .. Len(data) : Overwrite(cells, from, data)[from + k] = data[k]
         /\ \A k \in 1 .. Len(cells) :
              k <= from => Overwrite(cells, from, data)[k] = cells[k]
<1> DEFINE new == Overwrite(cells, from, data)
<1>1. /\ Len(cells) \in Nat /\ Len(data) \in Nat /\ DOMAIN cells = 1 .. Len(cells)
      /\ \A k \in 1 .. Len(cells) : cells[k] \in S
      /\ \A k \in 1 .. Len(data) : data[k] \in S
  BY LenProperties, ElementOfSeq
<1>2. new \in [1 .. Len(cells) -> S]
  BY <1>1 DEF Overwrite
<1>3. new \in Seq(S)
  BY <1>1, <1>2, SeqDef
<1>4. Len(new) = Len(cells)
  BY <1>1, <1>2, <1>3, LenProperties
<1>5. \A k \in 1 .. Len(data) : new[from + k] = data[k]
  BY <1>1 DEF Overwrite
<1>6. \A k \in 1 .. Len(cells) : k <= from => new[k] = cells[k]
  BY <1>1 DEF Overwrite
<1> QED
  BY <1>3, <1>4, <1>5, <1>6

\* Blank cells are cells.
LEMMA BlankCells ==
  ASSUME NEW S, NoByte \in S, NEW n \in Nat
  PROVE  Blank(n) \in Seq(S) /\ Len(Blank(n)) = n
<1>1. Blank(n) \in [1 .. n -> S]
  BY DEF Blank
<1>2. Blank(n) \in Seq(S)
  BY <1>1, SeqDef
<1> QED
  BY <1>1, <1>2, LenProperties

\* A new buffer is empty.
LEMMA NewBufferOK ==
  ASSUME NEW S, NoByte \in S
  PROVE  BufferOK(NewBuffer, S) /\ readableBytes(NewBuffer) = 0
BY BlankCells, BufferAssumption DEF BufferOK, NewBuffer, readableBytes

\* Two buffers that can be read to the same length and agree byte by byte have
\* the same content.
LEMMA SameContent ==
  ASSUME NEW S, NEW b, NEW c, BufferOK(b, S), BufferOK(c, S),
         readableBytes(b) = readableBytes(c),
         \A k \in 1 .. readableBytes(b) :
           b.cells[b.readerIndex + k] = c.cells[c.readerIndex + k]
  PROVE  Content(b) = Content(c)
<1>1. /\ Content(b) \in Seq(S) /\ Content(c) \in Seq(S)
      /\ Len(Content(b)) = Len(Content(c))
      /\ \A k \in 1 .. Len(Content(b)) : Content(b)[k] = Content(c)[k]
  BY ContentAt
<1> QED
  BY <1>1, SeqEqual

\* makeSpace makes the room that was asked for and keeps what is readable,
\* whether it grows the array or moves the bytes to the front.
LEMMA MakeSpaceEffect ==
  ASSUME NEW S, NoByte \in S, NEW b, BufferOK(b, S), NEW len \in Nat,
         writableBytes(b) < len
  PROVE  /\ BufferOK(makeSpace(b, len), S)
         /\ Content(makeSpace(b, len)) = Content(b)
         /\ readableBytes(makeSpace(b, len)) = readableBytes(b)
         /\ writableBytes(makeSpace(b, len)) >= len
<1> DEFINE r == makeSpace(b, len)
<1>0. /\ b.cells \in Seq(S) /\ b.readerIndex \in Nat /\ b.writerIndex \in Nat
      /\ Len(b.cells) \in Nat /\ kCheapPrepend \in Nat
      /\ kCheapPrepend <= b.readerIndex /\ b.readerIndex <= b.writerIndex
      /\ b.writerIndex <= Len(b.cells)
  BY BufferAssumption, LenProperties DEF BufferOK
<1>1. CASE writableBytes(b) + prependableBytes(b) < len + kCheapPrepend
  <2> DEFINE more == Blank(b.writerIndex + len - Len(b.cells))
  <2>1. b.writerIndex + len - Len(b.cells) \in Nat
    BY <1>0 DEF writableBytes
  <2>2. more \in Seq(S) /\ Len(more) = b.writerIndex + len - Len(b.cells)
    BY <2>1, BlankCells
  <2> HIDE DEF more
  <2>3. /\ b.cells \o more \in Seq(S)
        /\ Len(b.cells \o more) = b.writerIndex + len
        /\ \A k \in 1 .. Len(b.cells) : (b.cells \o more)[k] = b.cells[k]
    <3>1. /\ b.cells \o more \in Seq(S)
          /\ Len(b.cells \o more) = Len(b.cells) + Len(more)
          /\ \A i \in 1 .. Len(b.cells) + Len(more) : (b.cells \o more)[i] =
               IF i <= Len(b.cells) THEN b.cells[i] ELSE more[i - Len(b.cells)]
      BY <1>0, <2>2, ConcatProperties
    <3> QED
      BY <1>0, <2>1, <2>2, <3>1
  <2>4. r = [b EXCEPT !.cells = b.cells \o more]
    BY <1>1 DEF makeSpace, more
  <2>5. /\ r.cells = b.cells \o more /\ r.readerIndex = b.readerIndex
        /\ r.writerIndex = b.writerIndex
        /\ r \in [cells : Seq(S), readerIndex : Nat, writerIndex : Nat]
    BY <2>3, <2>4 DEF BufferOK
  <2> HIDE DEF r
  <2>6. BufferOK(r, S) /\ readableBytes(r) = readableBytes(b) /\ writableBytes(r) >= len
    BY <1>0, <2>3, <2>5 DEF BufferOK, readableBytes, writableBytes
  <2>7. \A k \in 1 .. readableBytes(b) :
          r.cells[r.readerIndex + k] = b.cells[b.readerIndex + k]
    <3> TAKE k \in 1 .. readableBytes(b)
    <3>1. b.readerIndex + k \in 1 .. Len(b.cells)
      BY <1>0 DEF readableBytes
    <3>2. (b.cells \o more)[b.readerIndex + k] = b.cells[b.readerIndex + k]
      BY <2>3, <3>1
    <3> QED
      BY <2>5, <3>2
  <2> QED
    BY <2>6, <2>7, SameContent DEF r
<1>2. CASE ~ (writableBytes(b) + prependableBytes(b) < len + kCheapPrepend)
  <2> DEFINE new == Overwrite(b.cells, kCheapPrepend, Content(b))
  <2>1. /\ Content(b) \in Seq(S) /\ Len(Content(b)) = readableBytes(b)
        /\ readableBytes(b) \in Nat
        /\ \A k \in 1 .. readableBytes(b) :
             Content(b)[k] = b.cells[b.readerIndex + k]
    BY ContentAt
  <2>2. kCheapPrepend + Len(Content(b)) <= Len(b.cells)
    BY <1>0, <2>1 DEF readableBytes
  <2>3. /\ new \in Seq(S) /\ Len(new) = Len(b.cells)
        /\ \A k \in 1 .. readableBytes(b) : new[kCheapPrepend + k] = Content(b)[k]
    BY <1>0, <2>1, <2>2, OverwriteEffect
  <2> HIDE DEF new
  <2>4. r = [cells |-> new, readerIndex |-> kCheapPrepend,
             writerIndex |-> kCheapPrepend + readableBytes(b)]
    BY <1>2 DEF makeSpace, new
  <2>5. /\ r.cells = new /\ r.readerIndex = kCheapPrepend
        /\ r.writerIndex = kCheapPrepend + readableBytes(b)
        /\ r \in [cells : Seq(S), readerIndex : Nat, writerIndex : Nat]
    BY <1>0, <2>1, <2>3, <2>4
  <2> HIDE DEF r
  <2>6. BufferOK(r, S) /\ readableBytes(r) = readableBytes(b)
    BY <1>0, <2>1, <2>2, <2>3, <2>5 DEF BufferOK, readableBytes
  <2>7. writableBytes(r) >= len
    <3>1. writableBytes(r) = Len(b.cells) - (kCheapPrepend + readableBytes(b))
      BY <2>3, <2>5 DEF writableBytes
    <3>2. (Len(b.cells) - b.writerIndex) + b.readerIndex >= len + kCheapPrepend
      BY <1>0, <1>2 DEF writableBytes, prependableBytes
    <3> QED
      BY <1>0, <3>1, <3>2 DEF readableBytes
  <2>8. \A k \in 1 .. readableBytes(b) :
          r.cells[r.readerIndex + k] = b.cells[b.readerIndex + k]
    BY <2>1, <2>3, <2>5
  <2> QED
    BY <2>6, <2>7, <2>8, SameContent DEF r
<1> QED
  BY <1>1, <1>2

\* The buffer b after bytes were written behind what can be read.
Written(b, data) ==
  [b EXCEPT !.cells = Overwrite(b.cells, b.writerIndex, data),
            !.writerIndex = b.writerIndex + Len(data)]

\* Bytes that fit into the writable part are added to the content.
LEMMA WriteEffect ==
  ASSUME NEW S, NEW b, BufferOK(b, S), NEW data \in Seq(S),
         Len(data) <= writableBytes(b)
  PROVE  /\ BufferOK(Written(b, data), S)
         /\ readableBytes(Written(b, data)) = readableBytes(b) + Len(data)
         /\ Content(Written(b, data)) = Content(b) \o data
<1> DEFINE r == Written(b, data)
<1>0. /\ b.cells \in Seq(S) /\ b.readerIndex \in Nat /\ b.writerIndex \in Nat
      /\ Len(b.cells) \in Nat /\ kCheapPrepend \in Nat /\ Len(data) \in Nat
      /\ kCheapPrepend <= b.readerIndex /\ b.readerIndex <= b.writerIndex
      /\ b.writerIndex + Len(data) <= Len(b.cells)
  BY BufferAssumption, LenProperties DEF BufferOK, writableBytes
<1> DEFINE new == Overwrite(b.cells, b.writerIndex, data)
<1>1. /\ new \in Seq(S) /\ Len(new) = Len(b.cells)
      /\ \A k \in 1 .. Len(data) : new[b.writerIndex + k] = data[k]
      /\ \A k \in 1 .. Len(b.cells) : k <= b.writerIndex => new[k] = b.cells[k]
  BY <1>0, OverwriteEffect
<1> HIDE DEF new
<1>2. /\ r.cells = new /\ r.readerIndex = b.readerIndex
      /\ r.writerIndex = b.writerIndex + Len(data)
      /\ r \in [cells : Seq(S), readerIndex : Nat, writerIndex : Nat]
  <2>1. r = [b EXCEPT !.cells = new, !.writerIndex = b.writerIndex + Len(data)]
    BY DEF new, Written
  <2>2. b.writerIndex + Len(data) \in Nat
    BY <1>0
  <2> QED
    BY <1>0, <1>1, <2>1, <2>2 DEF BufferOK
<1> HIDE DEF r
<1>3. BufferOK(r, S) /\ readableBytes(r) = readableBytes(b) + Len(data)
  BY <1>0, <1>1, <1>2 DEF BufferOK, readableBytes
<1>4. /\ Content(b) \in Seq(S) /\ Len(Content(b)) = readableBytes(b)
      /\ readableBytes(b) \in Nat
      /\ \A k \in 1 .. readableBytes(b) : Content(b)[k] = b.cells[b.readerIndex + k]
      /\ Content(r) \in Seq(S) /\ Len(Content(r)) = readableBytes(r)
      /\ \A k \in 1 .. readableBytes(r) : Content(r)[k] = r.cells[r.readerIndex + k]
  BY <1>3, ContentAt
<1>5. /\ Content(b) \o data \in Seq(S)
      /\ Len(Content(b) \o data) = readableBytes(b) + Len(data)
      /\ \A k \in 1 .. readableBytes(b) + Len(data) : (Content(b) \o data)[k] =
           IF k <= readableBytes(b) THEN Content(b)[k] ELSE data[k - readableBytes(b)]
  <2>1. /\ Content(b) \o data \in Seq(S)
        /\ Len(Content(b) \o data) = Len(Content(b)) + Len(data)
        /\ \A k \in 1 .. Len(Content(b)) + Len(data) : (Content(b) \o data)[k] =
             IF k <= Len(Content(b)) THEN Content(b)[k] ELSE data[k - Len(Content(b))]
    BY <1>4, ConcatProperties
  <2> QED
    BY <1>4, <2>1
<1>6. ASSUME NEW k \in 1 .. readableBytes(b) + Len(data)
      PROVE  Content(r)[k] = (Content(b) \o data)[k]
  <2>1. CASE k <= readableBytes(b)
    <3>0. b.readerIndex + k \in 1 .. Len(b.cells) /\ b.readerIndex + k <= b.writerIndex
      <4>1. k \in Nat \ {0} /\ b.readerIndex + k <= b.writerIndex
        BY <1>0, <1>4, <2>1 DEF readableBytes
      <4> QED
        BY <1>0, <4>1
    <3>1. new[b.readerIndex + k] = b.cells[b.readerIndex + k]
      BY <1>1, <3>0
    <3> QED
      BY <1>0, <1>2, <1>3, <1>4, <1>5, <2>1, <3>1
  <2>2. CASE ~ (k <= readableBytes(b))
    <3>1. /\ k - readableBytes(b) \in 1 .. Len(data)
          /\ b.readerIndex + k = b.writerIndex + (k - readableBytes(b))
      BY <1>0, <2>2 DEF readableBytes
    <3>2. new[b.readerIndex + k] = data[k - readableBytes(b)]
      BY <1>1, <3>1
    <3> QED
      BY <1>0, <1>2, <1>3, <1>4, <1>5, <2>2, <3>2
  <2> QED
    BY <2>1, <2>2
<1>7. Content(r) = Content(b) \o data
  BY <1>3, <1>4, <1>5, <1>6, SeqEqual
<1> QED
  BY <1>3, <1>7 DEF r

\* append adds the bytes to the content, however many they are.
LEMMA AppendEffect ==
  ASSUME NEW S, NoByte \in S, NEW b, BufferOK(b, S), NEW data \in Seq(S)
  PROVE  /\ BufferOK(append(b, data), S)
         /\ readableBytes(append(b, data)) = readableBytes(b) + Len(data)
         /\ Content(append(b, data)) = Content(b) \o data
<1>0. Len(data) \in Nat /\ writableBytes(b) \in Nat
  BY LenProperties, ContentAt
<1> DEFINE room == ensureWritableBytes(b, Len(data))
<1>1. /\ BufferOK(room, S) /\ Content(room) = Content(b)
      /\ readableBytes(room) = readableBytes(b) /\ Len(data) <= writableBytes(room)
  <2>1. CASE writableBytes(b) < Len(data)
    <3>1. room = makeSpace(b, Len(data))
      BY <2>1 DEF ensureWritableBytes
    <3>2. writableBytes(makeSpace(b, Len(data))) \in Nat
      BY <1>0, <2>1, MakeSpaceEffect, ContentAt
    <3> QED
      BY <1>0, <2>1, <3>1, <3>2, MakeSpaceEffect
  <2>2. CASE ~ (writableBytes(b) < Len(data))
    BY <1>0, <2>2 DEF ensureWritableBytes
  <2> QED
    BY <2>1, <2>2
<1>2. append(b, data) = Written(room, data)
  BY DEF append, Written
<1> HIDE DEF room
<1> QED
  BY <1>1, <1>2, WriteEffect

\* readFd adds the bytes to the content, also those of the second area.
LEMMA ReadFdEffect ==
  ASSUME NEW S, NoByte \in S, NEW b, BufferOK(b, S), NEW data \in Seq(S)
  PROVE  /\ BufferOK(readFd(b, data), S)
         /\ Content(readFd(b, data)) = Content(b) \o data
<1> DEFINE fits == writableBytes(b)
<1>0. /\ Len(data) \in Nat /\ fits \in Nat /\ Content(b) \in Seq(S)
      /\ b.writerIndex \in Nat /\ Len(b.cells) \in Nat
  BY LenProperties, ContentAt DEF BufferOK
<1>1. CASE Len(data) <= fits
  <2>1. readFd(b, data) = Written(b, data)
    BY <1>1 DEF readFd, Written
  <2> QED
    BY <1>1, <2>1, WriteEffect
<1>2. CASE ~ (Len(data) <= fits)
  <2> DEFINE first == SubSeq(data, 1, fits)
             rest  == SubSeq(data, fits + 1, Len(data))
  <2>1. /\ first \in Seq(S) /\ Len(first) = fits
        /\ rest \in Seq(S)
    <3>1. \A i \in 1 .. Len(data) : data[i] \in S
      BY ElementOfSeq
    <3>2. \A i \in 1 .. fits : data[i] \in S
      BY <1>0, <1>2, <3>1
    <3>3. \A i \in fits + 1 .. Len(data) : data[i] \in S
      BY <1>0, <3>1
    <3>4. first \in Seq(S) /\ Len(first) = fits
      BY <1>0, <3>2, SubSeqProperties
    <3>5. rest \in Seq(S)
      BY <1>0, <3>3, SubSeqProperties
    <3> QED
      BY <3>4, <3>5
  <2>2. first \o rest = data
    <3>1. SubSeq(data, 1, fits) \o SubSeq(data, fits + 1, Len(data))
            = SubSeq(data, 1, Len(data))
      BY <1>0, <1>2, ConcatAdjacentSubSeq
    <3> QED
      BY <3>1, SubSeqFull
  <2>3. readFd(b, data) = append(Written(b, first), rest)
    <3>1. b.writerIndex + Len(first) = Len(b.cells)
      BY <1>0, <2>1 DEF writableBytes
    <3> QED
      BY <1>2, <3>1 DEF readFd, Written
  <2> HIDE DEF first, rest
  <2>4. BufferOK(Written(b, first), S) /\ Content(Written(b, first)) = Content(b) \o first
    BY <1>0, <2>1, WriteEffect
  <2>5. /\ BufferOK(readFd(b, data), S)
        /\ Content(readFd(b, data)) = (Content(b) \o first) \o rest
    BY <2>1, <2>3, <2>4, AppendEffect
  <2>6. (Content(b) \o first) \o rest = Content(b) \o (first \o rest)
    <3>1. Content(b) \in Seq(S)
      BY ContentAt
    <3>2. \A s, u, v \in Seq(S) : (s \o u) \o v = s \o (u \o v)
      BY ConcatAssociative
    <3> QED
      BY <2>1, <3>1, <3>2
  <2> QED
    BY <2>2, <2>5, <2>6
<1> QED
  BY <1>1, <1>2

\* retrieveAll empties a buffer.
LEMMA RetrieveAllEffect ==
  ASSUME NEW S, NEW b, BufferOK(b, S)
  PROVE  /\ BufferOK(retrieveAll(b), S)
         /\ retrieveAll(b).cells = b.cells
         /\ readableBytes(retrieveAll(b)) = 0
<1>1. /\ retrieveAll(b).cells = b.cells
      /\ retrieveAll(b).readerIndex = kCheapPrepend
      /\ retrieveAll(b).writerIndex = kCheapPrepend
      /\ retrieveAll(b) \in [cells : Seq(S), readerIndex : Nat, writerIndex : Nat]
  BY BufferAssumption DEF BufferOK, retrieveAll
<1>2. Len(b.cells) \in Nat /\ kCheapPrepend <= Len(b.cells)
  BY BufferAssumption, LenProperties DEF BufferOK
<1> QED
  BY <1>1, <1>2, BufferAssumption DEF BufferOK, readableBytes

\* retrieve removes bytes from the front of the content.
LEMMA RetrieveEffect ==
  ASSUME NEW S, NEW b, BufferOK(b, S), NEW len \in Nat, len <= readableBytes(b)
  PROVE  /\ BufferOK(retrieve(b, len), S)
         /\ retrieve(b, len).cells = b.cells
         /\ readableBytes(retrieve(b, len)) = readableBytes(b) - len
         /\ \A k \in 1 .. readableBytes(b) - len :
              Content(retrieve(b, len))[k] = Content(b)[len + k]
<1> DEFINE r == retrieve(b, len)
<1>0. readableBytes(b) \in Nat
  BY ContentAt
<1>1. CASE len < readableBytes(b)
  <2>1. r = [b EXCEPT !.readerIndex = b.readerIndex + len]
    BY <1>1 DEF retrieve
  <2>2. /\ r.cells = b.cells /\ r.readerIndex = b.readerIndex + len
        /\ r.writerIndex = b.writerIndex
        /\ r \in [cells : Seq(S), readerIndex : Nat, writerIndex : Nat]
    BY <2>1 DEF BufferOK
  <2> HIDE DEF r
  <2>3. BufferOK(r, S) /\ readableBytes(r) = readableBytes(b) - len
    BY <1>1, <2>2, BufferAssumption DEF BufferOK, readableBytes
  <2>4. ASSUME NEW k \in 1 .. readableBytes(b) - len
        PROVE  Content(r)[k] = Content(b)[len + k]
    <3>1. k \in 1 .. readableBytes(r) /\ len + k \in 1 .. readableBytes(b)
      BY <1>0, <2>3
    <3>2. Content(r)[k] = r.cells[r.readerIndex + k]
      BY <2>3, <3>1, ContentAt
    <3>3. Content(b)[len + k] = b.cells[b.readerIndex + (len + k)]
      BY <3>1, ContentAt
    <3>4. b.readerIndex + len + k = b.readerIndex + (len + k)
      BY DEF BufferOK
    <3> QED
      BY <2>2, <3>2, <3>3, <3>4
  <2> QED
    BY <2>2, <2>3, <2>4 DEF r
<1>2. CASE ~ (len < readableBytes(b))
  <2>1. len = readableBytes(b)
    BY <1>0, <1>2
  <2>2. r = retrieveAll(b)
    BY <1>2 DEF retrieve
  <2> QED
    BY <1>0, <2>1, <2>2, RetrieveAllEffect
<1> QED
  BY <1>1, <1>2
-----------------------------------------------------------------------------
(***************************************************************************)
(* The bytes of a conversation.  Stream is defined by the recursive        *)
(* function of FlattenSeq, so what it holds is shown by induction over the *)
(* number of messages.                                                     *)
(***************************************************************************)
\* A set that holds 0 and with every number its successor holds all of Nat.
LEMMA UpFromZero ==
  ASSUME NEW S, 0 \in S, \A n \in Nat : n \in S => n + 1 \in S
  PROVE  Nat \subseteq S
<1> DEFINE Less == OpToRel(<, Nat)
           Outside == Nat \ S
<1>1. IsWellFoundedOn(Less, Nat)
  BY NatLessThanWellFounded
<1> HIDE DEF Less
<1> SUFFICES ASSUME Outside # {} PROVE FALSE
  OBVIOUS
<1>2. PICK n \in Outside : \A m \in Outside : ~ (<<m, n>> \in Less)
  BY <1>1, WFMin
<1>3. n \in Nat /\ n - 1 \in Nat
  BY <1>2
<1>4. <<n - 1, n>> \in Less
  BY <1>3 DEF Less, OpToRel
<1> QED
  BY <1>2, <1>3, <1>4

\* f holds the concatenations of the first sequences of seqs.
Flattened(f, seqs, n) ==
  f = [i \in 1 .. n |-> IF i = 1 THEN seqs[i] ELSE f[i - 1] \o seqs[i]]

\* The recursive definition in FlattenSeq has a solution.
LEMMA FlattenedExists ==
  ASSUME NEW seqs, NEW n \in Nat
  PROVE  \E f : Flattened(f, seqs, n)
<1> DEFINE S == {m \in Nat : \E f : Flattened(f, seqs, m)}
<1>1. 0 \in S
  <2>1. Flattened([i \in 1 .. 0 |-> seqs[i]], seqs, 0)
    BY DEF Flattened
  <2> QED
    BY <2>1
<1>2. ASSUME NEW m \in Nat, m \in S
      PROVE  m + 1 \in S
  <2>1. PICK f : Flattened(f, seqs, m)
    BY <1>2
  <2> DEFINE last == IF m = 0 THEN seqs[1] ELSE f[m] \o seqs[m + 1]
             g == [i \in 1 .. m + 1 |-> IF i = m + 1 THEN last ELSE f[i]]
             h == [i \in 1 .. m + 1 |-> IF i = 1 THEN seqs[i] ELSE g[i - 1] \o seqs[i]]
  <2>2. ASSUME NEW i \in 1 .. m + 1
        PROVE  g[i] = h[i]
    <3>1. CASE i = m + 1 /\ m = 0
      BY <3>1
    <3>2. CASE i = m + 1 /\ m # 0
      <4>1. i # 1 /\ i - 1 = m /\ i - 1 \in 1 .. m + 1 /\ i - 1 # m + 1
        BY <3>2
      <4>2. g[i - 1] = f[m]
        BY <4>1
      <4> QED
        BY <3>2, <4>1, <4>2
    <3>3. CASE i \in 1 .. m
      <4>1. f[i] = IF i = 1 THEN seqs[i] ELSE f[i - 1] \o seqs[i]
        BY <2>1, <3>3 DEF Flattened
      <4>2. g[i] = f[i] /\ (i # 1 => g[i - 1] = f[i - 1])
        BY <3>3
      <4> QED
        BY <4>1, <4>2
    <3> QED
      BY <3>1, <3>2, <3>3
  <2>3. g = h
    BY <2>2
  <2>4. Flattened(g, seqs, m + 1)
    BY <2>3 DEF Flattened
  <2> QED
    BY <2>4
<1> HIDE DEF S
<1>3. n \in S
  BY <1>1, <1>2, UpFromZero
<1> QED
  BY <1>3 DEF S

\* The bytes of the first n connections, and what a cell may hold.
Bytes(n) == (1 .. n) \X Nat \X Nat \X Nat
Cells(n) == Bytes(n) \cup {NoByte}

\* s is the stream of the first m messages of connection c, and e[n] is where
\* message n ends in it.
Shape(s, e, c, lens, m) ==
  /\ s \in Seq(Bytes(c))
  /\ e \in [0 .. m -> Nat]
  /\ e[0] = 0
  /\ e[m] = Len(s)
  /\ \A n \in 0 .. m - 1 : e[n + 1] = e[n] + HeaderSize + lens[n + 1]
  /\ \A n \in 0 .. m : e[n] <= Len(s)
  /\ \A n \in 0 .. m - 1 : \A k \in 1 .. HeaderSize + lens[n + 1] :
       s[e[n] + k] = <<c, n + 1, lens[n + 1], k>>
  /\ \A n \in 0 .. m : \A k \in 1 .. Len(s) : s[k][2] <= n <=> k <= e[n]
  /\ \A k \in 1 .. Len(s) : s[k][2] \in 1 .. m

LEMMA ShapeOf ==
  ASSUME NEW s, NEW e, NEW c, NEW lens, NEW m,
         s \in Seq(Bytes(c)), e \in [0 .. m -> Nat], e[0] = 0, e[m] = Len(s),
         \A n \in 0 .. m - 1 : e[n + 1] = e[n] + HeaderSize + lens[n + 1],
         \A n \in 0 .. m : e[n] <= Len(s),
         \A n \in 0 .. m - 1 : \A k \in 1 .. HeaderSize + lens[n + 1] :
           s[e[n] + k] = <<c, n + 1, lens[n + 1], k>>,
         \A n \in 0 .. m : \A k \in 1 .. Len(s) : s[k][2] <= n <=> k <= e[n],
         \A k \in 1 .. Len(s) : s[k][2] \in 1 .. m
  PROVE  Shape(s, e, c, lens, m)
BY Zenon DEF Shape

\* One more frame.
LEMMA ShapeGrows ==
  ASSUME NEW s, NEW e, NEW c \in Nat \ {0}, NEW m \in Nat, NEW lens,
         lens[m + 1] \in Nat, Shape(s, e, c, lens, m),
         \A n \in 0 .. m - 1 : lens[n + 1] \in Nat
  PROVE  \E d : Shape(s \o Frame(c, m + 1, lens[m + 1]), d, c, lens, m + 1)
<1> DEFINE len == lens[m + 1]
           F == Frame(c, m + 1, len)
           t == s \o F
           d == [n \in 0 .. m + 1 |-> IF n = m + 1 THEN Len(t) ELSE e[n]]
<1>1. s \in Seq(Bytes(c)) /\ Len(s) \in Nat /\ HeaderSize \in Nat
  BY LenProperties, FramingAssumption DEF Shape
<1>2. F \in Seq(Bytes(c)) /\ Len(F) = HeaderSize + len
  <2>1. F \in [1 .. HeaderSize + len -> Bytes(c)]
    BY <1>1 DEF Frame, Bytes
  <2>2. HeaderSize + len \in Nat
    BY <1>1
  <2>3. F \in Seq(Bytes(c))
    BY <2>1, <2>2, SeqDef
  <2> QED
    BY <2>1, <2>2, <2>3, LenProperties
<1>3. \A k \in 1 .. HeaderSize + len : F[k] = <<c, m + 1, len, k>>
  BY DEF Frame
<1> HIDE DEF F
<1>4. /\ t \in Seq(Bytes(c)) /\ Len(t) = Len(s) + Len(F)
      /\ \A i \in 1 .. Len(s) + Len(F) : t[i] =
                     IF i <= Len(s) THEN s[i] ELSE F[i - Len(s)]
  BY <1>1, <1>2, ConcatProperties
<1> HIDE DEF t
<1>5. /\ Len(t) = Len(s) + HeaderSize + len /\ Len(t) \in Nat /\ Len(t) > Len(s)
  BY <1>1, <1>2, <1>4, FramingAssumption
<1>6. \A k \in 1 .. Len(s) : t[k] = s[k]
  <2> TAKE k \in 1 .. Len(s)
  <2>1. k \in 1 .. Len(s) + Len(F) /\ k <= Len(s)
    BY <1>1, <1>2
  <2> QED
    BY <1>4, <2>1
<1>7. \A k \in 1 .. HeaderSize + len : t[Len(s) + k] = <<c, m + 1, len, k>>
  <2> TAKE k \in 1 .. HeaderSize + len
  <2>1. /\ Len(s) + k \in 1 .. Len(s) + Len(F) /\ ~ (Len(s) + k <= Len(s))
        /\ Len(s) + k - Len(s) = k
    BY <1>1, <1>2
  <2>2. t[Len(s) + k] = F[Len(s) + k - Len(s)]
    BY <1>4, <2>1
  <2> QED
    BY <1>3, <2>1, <2>2
<1>8. /\ d \in [0 .. m + 1 -> Nat] /\ d[0] = 0 /\ d[m + 1] = Len(t)
      /\ \A n \in 0 .. m : d[n] = e[n]
      /\ d[m] = Len(s)
  <2>1. \A n \in 0 .. m : d[n] = e[n] /\ e[n] \in Nat
    BY DEF Shape
  <2>2. d[m + 1] = Len(t)
    OBVIOUS
  <2>3. d[0] = 0 /\ d[m] = Len(s)
    BY <2>1 DEF Shape
  <2>4. d \in [0 .. m + 1 -> Nat]
    <3>1. ASSUME NEW n \in 0 .. m + 1
          PROVE  d[n] \in Nat
      BY <1>5, <2>1, <2>2
    <3>2. d = [n \in 0 .. m + 1 |-> d[n]]
      OBVIOUS
    <3> HIDE DEF d
    <3> QED
      BY <3>1, <3>2
  <2> QED
    BY <2>1, <2>2, <2>3, <2>4
<1> HIDE DEF d
<1>9. \A n \in 0 .. m : d[n + 1] = d[n] + HeaderSize + lens[n + 1]
  <2> TAKE n \in 0 .. m
  <2>1. CASE n = m
    BY <1>5, <1>8, <2>1
  <2>2. CASE n # m
    <3>1. n \in 0 .. m - 1 /\ n + 1 \in 0 .. m
      BY <2>2
    <3> QED
      BY <1>8, <3>1 DEF Shape
  <2> QED
    BY <2>1, <2>2
<1>10. \A n \in 0 .. m + 1 : d[n] <= Len(t)
  <2> TAKE n \in 0 .. m + 1
  <2>1. CASE n = m + 1
    BY <1>5, <1>8, <2>1
  <2>2. CASE n # m + 1
    <3>1. n \in 0 .. m
      BY <2>2
    <3>2. d[n] = e[n] /\ e[n] <= Len(s) /\ e[n] \in Nat
      BY <1>8, <3>1 DEF Shape
    <3> QED
      BY <1>1, <1>5, <3>2
  <2> QED
    BY <2>1, <2>2
<1>11. ASSUME NEW n \in 0 .. m, NEW k \in 1 .. HeaderSize + lens[n + 1]
       PROVE  t[d[n] + k] = <<c, n + 1, lens[n + 1], k>>
  <2>1. CASE n = m
    BY <1>7, <1>8, <2>1
  <2>2. CASE n # m
    <3>1. n \in 0 .. m - 1 /\ n + 1 \in 0 .. m /\ lens[n + 1] \in Nat
      BY <2>2
    <3>2. /\ e[n + 1] = e[n] + HeaderSize + lens[n + 1] /\ e[n + 1] <= Len(s)
          /\ e[n] \in Nat /\ e[n + 1] \in Nat
      BY <3>1 DEF Shape
    <3>3. s[e[n] + k] = <<c, n + 1, lens[n + 1], k>>
      BY <3>1 DEF Shape
    <3>4. e[n] + k \in 1 .. Len(s)
      <4>1. HeaderSize \in Nat /\ lens[n + 1] \in Nat /\ Len(s) \in Nat
        BY <1>1, <3>1, FramingAssumption
      <4>2. k \in Nat \ {0} /\ k <= HeaderSize + lens[n + 1]
        BY <4>1
      <4>3. PICK x \in Nat, y \in Nat, z \in Nat : x = e[n] /\ y = lens[n + 1] /\ z = Len(s)
        BY <3>2, <4>1
      <4>4. x + HeaderSize + y <= z /\ k <= HeaderSize + y
        BY <3>2, <4>2, <4>3
      <4>5. x + k \in 1 .. z
        BY <4>1, <4>2, <4>4
      <4> QED
        BY <4>3, <4>5
    <3> QED
      BY <1>6, <1>8, <3>3, <3>4
  <2> QED
    BY <2>1, <2>2
<1>12. \A k \in 1 .. Len(t) : /\ k <= Len(s) => t[k][2] = s[k][2] /\ s[k][2] \in 1 .. m
                              /\ ~ (k <= Len(s)) => t[k][2] = m + 1
  <2> TAKE k \in 1 .. Len(t)
  <2>1. CASE k <= Len(s)
    BY <1>1, <1>6, <2>1 DEF Shape
  <2>2. CASE ~ (k <= Len(s))
    <3>1. k - Len(s) \in 1 .. HeaderSize + len /\ k = Len(s) + (k - Len(s))
      BY <1>1, <1>5, <2>2
    <3>2. t[k] = <<c, m + 1, len, k - Len(s)>>
      BY <1>7, <3>1
    <3> QED
      BY <2>2, <3>2
  <2> QED
    BY <2>1, <2>2
<1>13. ASSUME NEW n \in 0 .. m + 1, NEW k \in 1 .. Len(t)
       PROVE  t[k][2] <= n <=> k <= d[n]
  <2>1. CASE n = m + 1
    <3>1. d[n] = Len(t) /\ k <= Len(t)
      BY <1>5, <1>8, <2>1
    <3>2. t[k][2] \in 1 .. m \/ t[k][2] = m + 1
      BY <1>12, Zenon
    <3>3. m \in Nat
      OBVIOUS
    <3>4. t[k][2] \in 1 .. m + 1
      BY <3>2, <3>3
    <3> QED
      BY <2>1, <3>1, <3>4
  <2>2. CASE n # m + 1
    <3>1. n \in 0 .. m
      BY <2>2
    <3>2. d[n] = e[n] /\ e[n] <= Len(s) /\ e[n] \in Nat
      BY <1>8, <3>1 DEF Shape
    <3>3. CASE k <= Len(s)
      <4>1. k \in 1 .. Len(s)
        BY <1>1, <1>5, <3>3
      <4>2. s[k][2] <= n <=> k <= e[n]
        BY <3>1, <4>1 DEF Shape
      <4> QED
        BY <1>12, <3>2, <3>3, <4>2
    <3>4. CASE ~ (k <= Len(s))
      BY <1>1, <1>5, <1>12, <3>1, <3>2, <3>4
    <3> QED
      BY <3>3, <3>4
  <2> QED
    BY <2>1, <2>2
<1>14. \A k \in 1 .. Len(t) : t[k][2] \in 1 .. m + 1
  BY <1>12
<1>15. Shape(t, d, c, lens, m + 1)
  <2> SUFFICES ASSUME NEW M, M = m + 1
               PROVE  Shape(t, d, c, lens, M)
    OBVIOUS
  <2>1. M - 1 = m
    OBVIOUS
  <2>2. t \in Seq(Bytes(c)) /\ d \in [0 .. M -> Nat] /\ d[0] = 0 /\ d[M] = Len(t)
    BY <1>4, <1>8
  <2>3. \A n \in 0 .. M - 1 : d[n + 1] = d[n] + HeaderSize + lens[n + 1]
    BY <1>9, <2>1
  <2>4. \A n \in 0 .. M : d[n] <= Len(t)
    BY <1>10
  <2>5. \A n \in 0 .. M - 1 : \A k \in 1 .. HeaderSize + lens[n + 1] :
          t[d[n] + k] = <<c, n + 1, lens[n + 1], k>>
    BY <1>11, <2>1
  <2>6. \A n \in 0 .. M : \A k \in 1 .. Len(t) : t[k][2] <= n <=> k <= d[n]
    BY <1>13
  <2>7. \A k \in 1 .. Len(t) : t[k][2] \in 1 .. M
    BY <1>14
  <2> QED
    BY <2>2, <2>3, <2>4, <2>5, <2>6, <2>7, ShapeOf, Zenon
<1> QED
  BY <1>15 DEF t, F

\* The stream of a conversation has the shape it should have.
LEMMA StreamShape ==
  ASSUME NEW c \in Nat \ {0}, NEW lens \in Conversations
  PROVE  \E e : Shape(Stream(c, lens), e, c, lens, Len(lens))
<1>1. PICK N \in 0 .. MaxMessages : lens \in [1 .. N -> BodyLengths]
  BY DEF Conversations
<1>2. /\ N \in Nat /\ DOMAIN lens = 1 .. N
      /\ \A i \in 1 .. N : lens[i] \in Nat
  <2>1. N \in Nat /\ BodyLengths \subseteq Nat
    BY FramingAssumption
  <2> QED
    BY <1>1, <2>1
<1> DEFINE seqs == [i \in DOMAIN lens |-> Frame(c, i, lens[i])]
<1>3. Len(lens) = N /\ Len(seqs) = N
  BY <1>1, <1>2
<1> DEFINE f == CHOOSE f : Flattened(f, seqs, N)
<1>4. Flattened(f, seqs, N)
  <2>1. \E g : Flattened(g, seqs, N)
    BY <1>2, FlattenedExists
  <2> QED
    BY <2>1
<1>5. N # 0 => FlattenSeq(seqs) = f[N]
  BY <1>3 DEF FlattenSeq, Flattened
<1>6. N = 0 => FlattenSeq(seqs) = << >>
  <2> SUFFICES ASSUME N = 0 PROVE seqs = << >>
    BY <1>3 DEF FlattenSeq
  <2> QED
    BY <1>2
<1> HIDE DEF f
<1>7. ASSUME NEW i \in 1 .. N
      PROVE  /\ i = 1 => f[i] = << >> \o Frame(c, i, lens[i])
             /\ i # 1 => f[i] = f[i - 1] \o Frame(c, i, lens[i])
  <2>1. f[i] = IF i = 1 THEN seqs[i] ELSE f[i - 1] \o seqs[i]
    BY <1>4 DEF Flattened
  <2>2. seqs[i] = Frame(c, i, lens[i])
    BY <1>2
  <2>3. Frame(c, i, lens[i]) \in Seq(Bytes(c))
    <3>1. Frame(c, i, lens[i]) \in [1 .. HeaderSize + lens[i] -> Bytes(c)]
      BY <1>2, FramingAssumption DEF Frame, Bytes
    <3>2. HeaderSize + lens[i] \in Nat
      BY <1>2, FramingAssumption
    <3> QED
      BY <3>1, <3>2, SeqDef
  <2>4. << >> \o Frame(c, i, lens[i]) = Frame(c, i, lens[i])
    BY <2>3, ConcatEmptySeq
  <2> QED
    BY <2>1, <2>2, <2>4
<1> DEFINE P(m) == IF m = 0 THEN << >> ELSE f[m]
           S == {m \in Nat : m <= N => \E e : Shape(P(m), e, c, lens, m)}
<1>8. 0 \in S
  <2> DEFINE e == [n \in 0 .. 0 |-> 0]
  <2>1. /\ << >> \in Seq(Bytes(c)) /\ Len(<< >>) = 0 /\ e \in [0 .. 0 -> Nat]
        /\ e[0] = 0 /\ P(0) = << >>
    BY EmptySeq
  <2>2. 0 .. 0 - 1 = {} /\ 1 .. 0 = {}
    OBVIOUS
  <2> HIDE DEF e, P
  <2>3. Shape(<< >>, e, c, lens, 0)
    <3>1. \A n \in 0 .. 0 : e[n] <= Len(<< >>)
      BY <2>1
    <3> QED
      BY <2>1, <2>2, <3>1 DEF Shape
  <2> QED
    BY <2>1, <2>3
<1>9. ASSUME NEW m \in Nat, m \in S
      PROVE  m + 1 \in S
  <2> SUFFICES ASSUME m + 1 <= N
               PROVE  \E e : Shape(P(m + 1), e, c, lens, m + 1)
    OBVIOUS
  <2>1. m <= N /\ m + 1 \in 1 .. N
    BY <1>2
  <2>2. PICK e : Shape(P(m), e, c, lens, m)
    BY <1>9, <2>1
  <2>3. P(m + 1) = P(m) \o Frame(c, m + 1, lens[m + 1])
    <3>1. m + 1 # 0 /\ m + 1 - 1 = m /\ (m + 1 = 1 <=> m = 0)
      OBVIOUS
    <3> QED
      <4>1. CASE m = 0
        BY <1>7, <2>1, <3>1, <4>1
      <4>2. CASE m # 0
        <5>1. f[m + 1] = f[m] \o Frame(c, m + 1, lens[m + 1])
          <6>1. PICK i \in 1 .. N : i = m + 1
            BY <2>1
          <6>2. i # 1 /\ i - 1 = m
            BY <3>1, <4>2, <6>1
          <6>3. f[i] = f[i - 1] \o Frame(c, i, lens[i])
            BY <1>7, <6>2
          <6> QED
            BY <6>1, <6>2, <6>3, Zenon
        <5> QED
          BY <3>1, <4>2, <5>1
      <4> QED
        BY <4>1, <4>2
  <2>4. lens[m + 1] \in Nat /\ \A n \in 0 .. m - 1 : lens[n + 1] \in Nat
    BY <1>2, <2>1
  <2> HIDE DEF P
  <2> QED
    BY <2>2, <2>3, <2>4, ShapeGrows
<1>10. N \in S
  <2> HIDE DEF S
  <2> QED
    BY <1>2, <1>8, <1>9, UpFromZero
<1>11. Stream(c, lens) = P(N)
  BY <1>5, <1>6 DEF Stream
<1> QED
  BY <1>2, <1>3, <1>10, <1>11

\* Where the messages of the connection lie in its stream.
StreamOK ==
  /\ conn \in 1 .. MaxConnections
  /\ lengths \in Conversations
  /\ stream = Stream(conn, lengths)

LEMMA StreamLayout ==
  ASSUME StreamOK
  PROVE  /\ stream \in Seq(Bytes(conn)) /\ Len(stream) \in Nat
         /\ Len(lengths) \in 0 .. MaxMessages
         /\ \A n \in 1 .. Len(lengths) : lengths[n] \in BodyLengths /\ lengths[n] \in Nat
         /\ EndOf(0) = 0
         /\ EndOf(Len(lengths)) = Len(stream)
         /\ \A n \in 0 .. Len(lengths) : EndOf(n) \in 0 .. Len(stream)
         /\ \A n \in 0 .. Len(lengths) - 1 :
              /\ EndOf(n + 1) = EndOf(n) + HeaderSize + lengths[n + 1]
              /\ \A k \in 1 .. HeaderSize + lengths[n + 1] :
                   stream[EndOf(n) + k] = <<conn, n + 1, lengths[n + 1], k>>
<1>1. PICK e : Shape(stream, e, conn, lengths, Len(lengths))
  BY StreamShape, FramingAssumption DEF StreamOK
<1>2. PICK N \in 0 .. MaxMessages : lengths \in [1 .. N -> BodyLengths]
  BY DEF StreamOK, Conversations
<1>3. /\ Len(lengths) = N /\ N \in Nat
      /\ \A n \in 1 .. N : lengths[n] \in BodyLengths /\ lengths[n] \in Nat
  <2>1. N \in Nat /\ BodyLengths \subseteq Nat
    BY FramingAssumption
  <2>2. \A n \in 1 .. N : lengths[n] \in BodyLengths /\ lengths[n] \in Nat
    BY <1>2, <2>1
  <2>3. Len(lengths) = N
    BY <1>2, <2>1
  <2> QED
    BY <2>1, <2>2, <2>3
<1>4. /\ stream \in Seq(Bytes(conn)) /\ Len(stream) \in Nat
      /\ DOMAIN stream = 1 .. Len(stream)
  BY <1>1, LenProperties DEF Shape
<1>5. ASSUME NEW n \in 0 .. N
      PROVE  EndOf(n) = e[n] /\ EndOf(n) \in 0 .. Len(stream)
  <2>1. e[n] \in Nat /\ e[n] <= Len(stream)
    BY <1>1, <1>3 DEF Shape
  <2>2. {k \in DOMAIN stream : stream[k][2] <= n} = 1 .. e[n]
    <3>1. \A k \in 1 .. Len(stream) : stream[k][2] <= n <=> k <= e[n]
      BY <1>1, <1>3 DEF Shape
    <3> QED
      BY <1>4, <2>1, <3>1
  <2>3. Cardinality(1 .. e[n]) = e[n]
    BY <2>1, FS_Interval
  <2> QED
    <3>1. EndOf(n) = e[n]
      BY <2>2, <2>3 DEF EndOf
    <3> QED
      BY <1>4, <2>1, <3>1
<1>6. \A n \in 0 .. N - 1 : n \in 0 .. N /\ n + 1 \in 0 .. N
  BY <1>3
<1>7. ASSUME NEW n \in 0 .. N - 1
      PROVE  /\ EndOf(n + 1) = EndOf(n) + HeaderSize + lengths[n + 1]
             /\ \A k \in 1 .. HeaderSize + lengths[n + 1] :
                  stream[EndOf(n) + k] = <<conn, n + 1, lengths[n + 1], k>>
  <2>1. EndOf(n) = e[n] /\ EndOf(n + 1) = e[n + 1]
    BY <1>5, <1>6
  <2> QED
    BY <1>1, <1>3, <2>1 DEF Shape
<1>8. EndOf(0) = 0 /\ EndOf(N) = Len(stream)
  BY <1>1, <1>3, <1>5 DEF Shape
<1> QED
  BY <1>2, <1>3, <1>4, <1>5, <1>7, <1>8

\* A subsequence of n elements, behind the first m.
LEMMA SubSeqAt ==
  ASSUME NEW S, NEW s \in Seq(S), NEW m \in Nat, NEW n \in Nat, m + n <= Len(s)
  PROVE  /\ SubSeq(s, m + 1, m + n) \in Seq(S)
         /\ Len(SubSeq(s, m + 1, m + n)) = n
         /\ \A k \in 1 .. n : SubSeq(s, m + 1, m + n)[k] = s[m + k]
<1> SUFFICES ASSUME NEW lo \in Int, NEW hi \in Int, lo = m + 1, hi = m + n
             PROVE  /\ SubSeq(s, lo, hi) \in Seq(S)
                    /\ Len(SubSeq(s, lo, hi)) = n
                    /\ \A k \in 1 .. n : SubSeq(s, lo, hi)[k] = s[m + k]
  OBVIOUS
<1>1. Len(s) \in Nat
  BY LenProperties
<1>2. \A i \in lo .. hi : s[i] \in S
  <2> TAKE i \in lo .. hi
  <2>1. i \in 1 .. Len(s)
    BY <1>1
  <2> QED
    BY <2>1, ElementOfSeq
<1>3. /\ SubSeq(s, lo, hi) \in Seq(S)
      /\ Len(SubSeq(s, lo, hi)) = IF lo <= hi THEN hi - lo + 1 ELSE 0
      /\ \A i \in 1 .. hi - lo + 1 : SubSeq(s, lo, hi)[i] = s[lo + i - 1]
  BY <1>2, SubSeqProperties
<1>4. hi - lo + 1 = n /\ \A k \in 1 .. n : lo + k - 1 = m + k
  OBVIOUS
<1>5. Len(SubSeq(s, lo, hi)) = n
  BY <1>3, <1>4
<1>6. \A k \in 1 .. n : SubSeq(s, lo, hi)[k] = s[m + k]
  BY <1>3, <1>4
<1> QED
  BY <1>3, <1>5, <1>6

\* The first bytes that can be read.
LEMMA PeekAt ==
  ASSUME NEW S, NEW b, BufferOK(b, S), NEW n \in Nat, n <= readableBytes(b)
  PROVE  /\ Peek(b, n) \in Seq(S) /\ Len(Peek(b, n)) = n
         /\ \A k \in 1 .. n : Peek(b, n)[k] = Content(b)[k]
<1>1. /\ readableBytes(b) \in Nat
      /\ \A k \in 1 .. readableBytes(b) : Content(b)[k] = b.cells[b.readerIndex + k]
  BY ContentAt
<1>2. /\ b.cells \in Seq(S) /\ b.readerIndex \in Nat /\ b.writerIndex \in Nat
      /\ b.readerIndex + n <= Len(b.cells) /\ Len(b.cells) \in Nat
  BY LenProperties DEF BufferOK, readableBytes
<1>4. /\ SubSeq(b.cells, b.readerIndex + 1, b.readerIndex + n) \in Seq(S)
      /\ Len(SubSeq(b.cells, b.readerIndex + 1, b.readerIndex + n)) = n
      /\ \A k \in 1 .. n : SubSeq(b.cells, b.readerIndex + 1, b.readerIndex + n)[k]
                           = b.cells[b.readerIndex + k]
  <2>1. PICK m \in Nat : m = b.readerIndex
    BY <1>2
  <2>2. /\ SubSeq(b.cells, m + 1, m + n) \in Seq(S)
        /\ Len(SubSeq(b.cells, m + 1, m + n)) = n
        /\ \A k \in 1 .. n : SubSeq(b.cells, m + 1, m + n)[k] = b.cells[m + k]
    <3>1. b.cells \in Seq(S) /\ m + n <= Len(b.cells)
      BY <1>2, <2>1
    <3> QED
      BY <3>1, SubSeqAt, Zenon
  <2> QED
    BY <2>1, <2>2
<1> QED
  BY <1>1, <1>4 DEF Peek

\* The prefix is removed.
LEMMA PrefixRemoved ==
  ASSUME NEW S, NEW b, BufferOK(b, S), readableBytes(b) >= HeaderSize
  PROVE  /\ BufferOK(retrieve(b, HeaderSize), S)
         /\ readableBytes(retrieve(b, HeaderSize)) = readableBytes(b) - HeaderSize
         /\ \A k \in 1 .. readableBytes(b) - HeaderSize :
              Content(retrieve(b, HeaderSize))[k] = Content(b)[HeaderSize + k]
<1>1. HeaderSize \in Nat /\ HeaderSize <= readableBytes(b)
  BY FramingAssumption, ContentAt
<1> QED
  BY <1>1, RetrieveEffect

\* What TakeMessage finds in a buffer b that holds the bytes of the stream
\* from the end of message t up to byte g: the prefix it reads is the one of
\* message t + 1; when that is complete, it hands over its body, and the rest
\* of the bytes is left.
LEMMA CutEffect ==
  ASSUME StreamOK, NEW S, NEW b, BufferOK(b, S),
         NEW t \in 0 .. Len(lengths), NEW g \in EndOf(t) .. Len(stream),
         Content(b) = SubSeq(stream, EndOf(t) + 1, g),
         readableBytes(b) >= HeaderSize
  PROVE  /\ t + 1 \in 1 .. Len(lengths)
         /\ Peek(b, 1)[1][3] = lengths[t + 1]
         /\ readableBytes(b) >= HeaderSize + lengths[t + 1] =>
              LET c == retrieve(b, HeaderSize)
                  d == retrieve(c, lengths[t + 1])
              IN  /\ Peek(c, lengths[t + 1]) = Body(conn, t + 1, lengths[t + 1])
                  /\ BufferOK(d, S)
                  /\ g \in EndOf(t + 1) .. Len(stream)
                  /\ Content(d) = SubSeq(stream, EndOf(t + 1) + 1, g)
<1> DEFINE E == EndOf(t)
<1>a. /\ BufferOK(retrieve(b, HeaderSize), S)
      /\ readableBytes(retrieve(b, HeaderSize)) = readableBytes(b) - HeaderSize
      /\ \A k \in 1 .. readableBytes(b) - HeaderSize :
           Content(retrieve(b, HeaderSize))[k] = Content(b)[HeaderSize + k]
  BY PrefixRemoved
<1>0. /\ stream \in Seq(Bytes(conn)) /\ Len(stream) \in Nat /\ Len(lengths) \in Nat
      /\ HeaderSize \in Nat \ {0} /\ E \in 0 .. Len(stream) /\ readableBytes(b) \in Nat
  BY StreamLayout, FramingAssumption, ContentAt
<1>1. /\ readableBytes(b) = g - E
      /\ \A k \in 1 .. g - E : Content(b)[k] = stream[E + k]
  <2>1. PICK from \in Nat, n \in Nat : from = E /\ n = g - E
    BY <1>0
  <2>2. from + n = g /\ from + n <= Len(stream)
    BY <1>0, <2>1
  <2>3. /\ Len(SubSeq(stream, from + 1, from + n)) = n
        /\ \A k \in 1 .. n : SubSeq(stream, from + 1, from + n)[k] = stream[from + k]
    <3>1. stream \in Seq(Bytes(conn)) /\ from + n <= Len(stream)
      BY <1>0, <2>2
    <3> QED
      BY <3>1, SubSeqAt, Zenon
  <2>4. Len(Content(b)) = readableBytes(b) /\ Content(b) = SubSeq(stream, from + 1, from + n)
    BY <2>1, <2>2, ContentAt
  <2> HIDE DEF E
  <2> QED
    BY <2>1, <2>3, <2>4
<1>2. t + 1 \in 1 .. Len(lengths) /\ t \in 0 .. Len(lengths) - 1
  <2>1. E < Len(stream)
    BY <1>0, <1>1
  <2>2. EndOf(Len(lengths)) = Len(stream)
    BY StreamLayout
  <2>3. t # Len(lengths)
    BY <1>0, <2>1, <2>2
  <2> QED
    BY <1>0, <2>3
<1> DEFINE len == lengths[t + 1]
<1>3. /\ len \in Nat /\ EndOf(t + 1) = E + HeaderSize + len
      /\ \A k \in 1 .. HeaderSize + len : stream[E + k] = <<conn, t + 1, len, k>>
  BY <1>2, StreamLayout
<1> HIDE DEF E, len
<1>4. Peek(b, 1)[1][3] = len
  <2>1. Peek(b, 1)[1] = Content(b)[1]
    <3>1. 1 \in Nat /\ 1 <= readableBytes(b) /\ 1 \in 1 .. 1
      BY <1>0
    <3> QED
      BY <3>1, PeekAt
  <2>2. Content(b)[1] = stream[E + 1]
    <3>1. 1 \in 1 .. g - E
      BY <1>0, <1>1
    <3> QED
      BY <1>1, <3>1
  <2>3. stream[E + 1] = <<conn, t + 1, len, 1>>
    BY <1>0, <1>3
  <2>4. <<conn, t + 1, len, 1>>[3] = len
    OBVIOUS
  <2> QED
    BY <2>1, <2>2, <2>3, <2>4, Zenon
<1>5. ASSUME readableBytes(b) >= HeaderSize + len, NEW c, NEW d,
             c = retrieve(b, HeaderSize), d = retrieve(c, len)
      PROVE  /\ Peek(c, len) = Body(conn, t + 1, len)
             /\ BufferOK(d, S)
             /\ g \in EndOf(t + 1) .. Len(stream)
             /\ Content(d) = SubSeq(stream, EndOf(t + 1) + 1, g)
  <2>1. /\ BufferOK(c, S) /\ readableBytes(c) = g - E - HeaderSize
        /\ \A k \in 1 .. g - E - HeaderSize : Content(c)[k] = Content(b)[HeaderSize + k]
    BY <1>1, <1>5, <1>a
  <2>2. len <= readableBytes(c)
    BY <1>0, <1>1, <1>3, <1>5, <2>1 DEF E
  <2>3. /\ BufferOK(d, S) /\ readableBytes(d) = g - E - HeaderSize - len
        /\ \A k \in 1 .. g - E - HeaderSize - len : Content(d)[k] = Content(c)[len + k]
    BY <1>3, <1>5, <2>1, <2>2, RetrieveEffect
  <2>4. /\ Peek(c, len) \in Seq(S) /\ Len(Peek(c, len)) = len
        /\ \A k \in 1 .. len : Peek(c, len)[k] = Content(c)[k]
    BY <1>3, <2>1, <2>2, PeekAt
  <2>5. g \in Nat /\ E \in Nat /\ E + HeaderSize + len <= g
    BY <1>0, <1>1, <1>3, <1>5 DEF E
  <2>6. ASSUME NEW k \in 1 .. len
        PROVE  Peek(c, len)[k] = <<conn, t + 1, len, HeaderSize + k>>
    <3>1. /\ k \in 1 .. g - E - HeaderSize /\ HeaderSize + k \in 1 .. g - E
          /\ HeaderSize + k \in 1 .. HeaderSize + len
      BY <1>0, <1>3, <2>5
    <3> QED
      BY <1>1, <1>3, <2>1, <2>4, <3>1
  <2>7. Peek(c, len) = Body(conn, t + 1, len)
    <3>1. Peek(c, len) = [k \in 1 .. len |-> Peek(c, len)[k]]
      BY <2>4, LenProperties
    <3> QED
      BY <2>6, <3>1 DEF Body
  <2>8. g \in EndOf(t + 1) .. Len(stream)
    BY <1>0, <1>3, <2>5
  <2>9. Content(d) = SubSeq(stream, EndOf(t + 1) + 1, g)
    <3> DEFINE F == EndOf(t + 1)
               rest == SubSeq(stream, F + 1, g)
    <3>0. F = E + HeaderSize + len /\ F \in Nat /\ F <= g
      BY <1>0, <1>3, <2>5
    <3> HIDE DEF F
    <3>2. PICK n \in Nat : n = g - F /\ F + n = g /\ F + n <= Len(stream)
      BY <2>5, <2>8, <3>0
    <3>3. /\ rest \in Seq(Bytes(conn)) /\ Len(rest) = g - F
          /\ \A i \in 1 .. g - F : rest[i] = stream[F + i]
      <4>1. /\ SubSeq(stream, F + 1, F + n) \in Seq(Bytes(conn))
            /\ Len(SubSeq(stream, F + 1, F + n)) = n
            /\ \A i \in 1 .. n : SubSeq(stream, F + 1, F + n)[i] = stream[F + i]
        <5>1. /\ stream \in Seq(Bytes(conn)) /\ F \in Nat /\ n \in Nat
              /\ F + n <= Len(stream)
          BY <1>0, <3>0, <3>2
        <5> QED
          BY <5>1, SubSeqAt, Zenon
      <4> QED
        BY <3>2, <4>1
    <3>4. /\ Content(d) \in Seq(S) /\ Len(Content(d)) = g - F
      <4>1. g - E - HeaderSize - len = g - F
        BY <1>0, <1>3, <2>5, <3>0
      <4> QED
        BY <2>3, <4>1, ContentAt
    <3>5. ASSUME NEW k \in 1 .. g - F
          PROVE  Content(d)[k] = rest[k]
      <4>1. /\ k \in 1 .. g - E - HeaderSize - len
            /\ len + k \in 1 .. g - E - HeaderSize
            /\ HeaderSize + (len + k) \in 1 .. g - E
            /\ E + (HeaderSize + (len + k)) = F + k
        BY <1>0, <1>3, <2>5, <3>0
      <4>2. Content(d)[k] = Content(b)[HeaderSize + (len + k)]
        BY <2>1, <2>3, <4>1
      <4>3. Content(b)[HeaderSize + (len + k)] = stream[F + k]
        BY <1>1, <4>1
      <4> QED
        BY <3>3, <4>2, <4>3
    <3>6. Content(d) = [k \in 1 .. g - F |-> Content(d)[k]]
      BY <3>4, LenProperties
    <3>7. rest = [k \in 1 .. g - F |-> rest[k]]
      BY <3>3, LenProperties
    <3> HIDE DEF rest
    <3>8. Content(d) = rest
      BY <3>5, <3>6, <3>7
    <3> QED
      BY <3>8 DEF rest, F
  <2> QED
    BY <2>3, <2>7, <2>8, <2>9
<1> QED
  BY <1>2, <1>4, <1>5 DEF len
-----------------------------------------------------------------------------
(***************************************************************************)
(* The inductive invariant.  NothingMisplaced is not inductive as it       *)
(* stands: what TakeMessage cuts off depends on where the messages lie in  *)
(* the stream (StreamOK), on the indices and on the cells of the buffer    *)
(* (BufferOK), and on the bytes behind the last message taken having been  *)
(* read at all (the first part of ReadIsHeld).  HandedOver says which      *)
(* messages were taken, also after the connection has ended.               *)
(***************************************************************************)
FramingTypes ==
  /\ waits \in BOOLEAN
  /\ arrived \in 0 .. Len(stream)
  /\ got \in 0 .. arrived
  /\ peer \in {"open", "closed"}
  /\ second \in ExtraLengths \cup {NoArea}
  /\ status \in {"READABLE", "IDLE", "RELEASED", "UNDEFINED"}

\* The bodies of the first n messages of the connection.
FirstBodies(n) == [i \in 1 .. n |-> Body(conn, i, lengths[i])]

HandedOver == \E n \in 0 .. Len(lengths) : taken = FirstBodies(n)

ReadIsHeld ==
  status \in {"READABLE", "IDLE"} =>
    /\ got \in EndOf(Len(taken)) .. Len(stream)
    /\ Content(buffer) = SubSeq(stream, EndOf(Len(taken)) + 1, got)

FramingInv ==
  /\ StreamOK
  /\ FramingTypes
  /\ BufferOK(buffer, Cells(conn))
  /\ HandedOver
  /\ ReadIsHeld

\* What can be a message of the system.
Messages ==
  {Body(c, i, len) : c \in 1 .. MaxConnections, i \in 1 .. MaxMessages, len \in BodyLengths}

LEMMA BodiesType ==
  ASSUME StreamOK, NEW n \in 0 .. Len(lengths)
  PROVE  FirstBodies(n) \in Seq(Messages) /\ Len(FirstBodies(n)) = n
<1>1. /\ Len(lengths) \in 0 .. MaxMessages /\ MaxMessages \in Nat
      /\ \A i \in 1 .. Len(lengths) : lengths[i] \in BodyLengths
  BY StreamLayout, FramingAssumption
<1>2. n \in Nat /\ \A i \in 1 .. n : i \in 1 .. MaxMessages /\ i \in 1 .. Len(lengths)
  BY <1>1
<1>3. \A i \in 1 .. n : Body(conn, i, lengths[i]) \in Messages
  BY <1>1, <1>2 DEF Messages, StreamOK
<1>4. FirstBodies(n) \in [1 .. n -> Messages]
  BY <1>3 DEF FirstBodies
<1>5. FirstBodies(n) \in Seq(Messages)
  BY <1>2, <1>4, SeqDef
<1> QED
  BY <1>2, <1>4, <1>5, LenProperties

LEMMA TakenIsPrefix ==
  ASSUME StreamOK, HandedOver
  PROVE  /\ Len(taken) \in 0 .. Len(lengths)
         /\ taken = FirstBodies(Len(taken))
         /\ taken \in Seq(Messages)
BY BodiesType DEF HandedOver

\* One more message.
LEMMA NextBody ==
  ASSUME StreamOK, HandedOver, Len(taken) + 1 \in 1 .. Len(lengths)
  PROVE  Append(taken, Body(conn, Len(taken) + 1, lengths[Len(taken) + 1]))
           = FirstBodies(Len(taken) + 1)
<1> DEFINE n == Len(taken)
           B(i) == Body(conn, i, lengths[i])
           more == Append(taken, B(n + 1))
<1>0. n \in 0 .. Len(lengths) /\ n + 1 \in 0 .. Len(lengths) /\ Len(lengths) \in Nat
  BY TakenIsPrefix, StreamLayout
<1>1. taken = [i \in 1 .. n |-> B(i)]
  BY TakenIsPrefix DEF FirstBodies
<1>2. /\ taken \in Seq(Messages)
      /\ FirstBodies(n + 1) \in Seq(Messages) /\ Len(FirstBodies(n + 1)) = n + 1
      /\ FirstBodies(n + 1) = [i \in 1 .. n + 1 |-> B(i)]
  BY <1>0, TakenIsPrefix, BodiesType DEF FirstBodies
<1>3. FirstBodies(n + 1)[n + 1] = B(n + 1)
  BY <1>0 DEF FirstBodies
<1>4. B(n + 1) \in Messages
  BY <1>0, <1>2, <1>3, ElementOfSeq
<1> HIDE DEF B
<1>5. /\ more \in Seq(Messages) /\ Len(more) = n + 1
      /\ \A i \in 1 .. n : more[i] = taken[i]
      /\ more[n + 1] = B(n + 1)
  BY <1>0, <1>2, <1>4
<1>6. \A i \in 1 .. n + 1 : more[i] = FirstBodies(n + 1)[i]
  <2> TAKE i \in 1 .. n + 1
  <2>1. CASE i = n + 1
    BY <1>3, <1>5, <2>1
  <2>2. CASE i # n + 1
    <3>1. i \in 1 .. n
      BY <1>0, <2>2
    <3>2. taken[i] = B(i)
      BY <1>1, <3>1, Zenon
    <3>3. FirstBodies(n + 1)[i] = B(i)
      BY <1>2, Zenon
    <3> QED
      BY <1>5, <3>1, <3>2, <3>3
  <2> QED
    BY <2>1, <2>2
<1> HIDE DEF more
<1>7. more = FirstBodies(n + 1)
  BY <1>2, <1>5, <1>6, SeqEqual
<1> QED
  BY <1>7 DEF more, B

\* A cell of the first n connections is one of the first n + 1.
LEMMA CellsGrow ==
  ASSUME NEW n \in Nat, NEW b, BufferOK(b, Cells(n))
  PROVE  BufferOK(b, Cells(n + 1))
<1>1. Cells(n) \subseteq Cells(n + 1)
  BY DEF Cells, Bytes
<1>2. b.cells \in Seq(Cells(n + 1))
  BY <1>1, SeqMonotonic DEF BufferOK
<1> QED
  BY <1>2 DEF BufferOK

\* What follows for the values of the variables.
LEMMA FramingFacts ==
  ASSUME FramingInv
  PROVE  /\ Len(stream) \in Nat /\ got \in Nat /\ arrived \in Nat /\ conn \in Nat \ {0}
         /\ got <= arrived /\ arrived <= Len(stream)
         /\ writableBytes(buffer) \in Nat
         /\ Len(taken) \in 0 .. Len(lengths)
<1>1. Len(stream) \in Nat /\ conn \in Nat \ {0}
  BY StreamLayout, FramingAssumption DEF FramingInv, StreamOK
<1>2. writableBytes(buffer) \in Nat
  BY ContentAt DEF FramingInv
<1>3. Len(taken) \in 0 .. Len(lengths)
  BY TakenIsPrefix DEF FramingInv
<1> QED
  BY <1>1, <1>2, <1>3 DEF FramingInv, FramingTypes

\* At the start of a connection nothing of its stream was taken.
LEMMA NothingBefore ==
  ASSUME NEW c \in Nat \ {0}, NEW lens \in Conversations
  PROVE  /\ Len(Stream(c, lens)) \in Nat
         /\ Cardinality({k \in DOMAIN Stream(c, lens) : Stream(c, lens)[k][2] <= 0}) = 0
<1>1. PICK e : Shape(Stream(c, lens), e, c, lens, Len(lens))
  BY StreamShape
<1> DEFINE s == Stream(c, lens)
<1>2. s \in Seq(Bytes(c)) /\ Len(s) \in Nat /\ DOMAIN s = 1 .. Len(s)
  BY <1>1, LenProperties DEF Shape
<1>3. \A k \in 1 .. Len(s) : s[k][2] \in 1 .. Len(lens)
  BY <1>1 DEF Shape
<1> HIDE DEF s
<1>4. {k \in DOMAIN s : s[k][2] <= 0} = {}
  BY <1>2, <1>3
<1>5. Cardinality({}) = 0
  BY FS_EmptySet
<1> QED
  BY <1>2, <1>4, <1>5 DEF s

LEMMA EmptyContent ==
  ASSUME NEW S, NEW b, BufferOK(b, S), readableBytes(b) = 0
  PROVE  Content(b) = << >>
<1>1. Content(b) \in Seq(S) /\ Len(Content(b)) = 0
  BY ContentAt
<1> QED
  BY <1>1, EmptySeq

LEMMA LengthsOfConversation ==
  ASSUME NEW lens \in Conversations
  PROVE  Len(lens) \in Nat
BY FramingAssumption DEF Conversations

LEMMA FramingInvInit == FramingInit => FramingInv
<1> SUFFICES ASSUME FramingInit PROVE FramingInv
  OBVIOUS
<1>1. StreamOK
  BY FramingAssumption DEF FramingInit, StreamOK
<1>2. Len(stream) \in Nat /\ EndOf(0) = 0
  BY <1>1, StreamLayout
<1>3. FramingTypes
  BY <1>2 DEF FramingInit, FramingTypes
<1>4. BufferOK(buffer, Cells(conn)) /\ readableBytes(buffer) = 0
  BY NewBufferOK DEF FramingInit, Cells
<1>5. HandedOver
  <2>1. FirstBodies(0) = << >>
    BY DEF FirstBodies
  <2>2. Len(lengths) \in Nat
    BY LengthsOfConversation DEF FramingInit
  <2>3. 0 \in 0 .. Len(lengths)
    BY <2>2
  <2> QED
    BY <2>1, <2>3 DEF HandedOver, FramingInit
<1>6. ReadIsHeld
  <2>1. Len(taken) = 0 /\ got = 0
    BY DEF FramingInit
  <2>2. SubSeq(stream, 0 + 1, 0) = << >>
    BY SubSeqEmpty
  <2>3. Content(buffer) = << >>
    BY <1>4, EmptyContent
  <2> QED
    BY <1>2, <2>1, <2>2, <2>3 DEF ReadIsHeld
<1> QED
  BY <1>1, <1>3, <1>4, <1>5, <1>6 DEF FramingInv

\* Nothing but the buffer, the position and the status may be touched without
\* a new connection; then the parts about the stream stay.
LEMMA SameClient ==
  ASSUME FramingInv, UNCHANGED clientVars
  PROVE  /\ StreamOK'
         /\ (waits \in BOOLEAN)'
         /\ \A n : EndOf(n)' = EndOf(n)
         /\ \A n : FirstBodies(n)' = FirstBodies(n)
BY DEF FramingInv, FramingTypes, StreamOK, EndOf, FirstBodies, clientVars

LEMMA MinOfTwo ==
  ASSUME NEW a \in Int, NEW b \in Int
  PROVE  Min({a, b}) = IF a <= b THEN a ELSE b
<1> DEFINE m == IF a <= b THEN a ELSE b
           P(x) == x \in {a, b} /\ \A y \in {a, b} : x =< y
<1>1. P(m)
  OBVIOUS
<1>2. \A x : P(x) => x = m
  OBVIOUS
<1>3. Min({a, b}) = CHOOSE x : P(x)
  BY DEF Min
<1> HIDE DEF P, m
<1>4. P(CHOOSE x : P(x))
  BY <1>1
<1> QED
  BY <1>2, <1>3, <1>4 DEF m

\* A client sends no more than it has.
LEMMA SendsItsStream ==
  ASSUME FramingInv
  PROVE  MaySend \in 0 .. Len(stream)
<1>1. /\ Len(taken) \in 0 .. Len(lengths) /\ Len(lengths) \in Nat /\ Len(stream) \in Nat
      /\ \A n \in 0 .. Len(lengths) : EndOf(n) \in 0 .. Len(stream)
  BY StreamLayout, FramingFacts DEF FramingInv
<1>2. Answered \in Int /\ Answered + 1 >= 0
  BY <1>1 DEF Answered
<1>3. Min({Answered + 1, Len(lengths)}) \in 0 .. Len(lengths)
  <2>1. PICK a \in Int, n \in Nat : a = Answered + 1 /\ n = Len(lengths)
    BY <1>1, <1>2
  <2>2. Min({a, n}) = IF a <= n THEN a ELSE n
    BY MinOfTwo
  <2>3. a >= 0
    BY <1>2, <2>1
  <2> QED
    BY <2>1, <2>2, <2>3
<1> QED
  BY <1>1, <1>3 DEF MaySend

\* After a read the buffer holds the bytes up to the new position.
LEMMA ReadEffect ==
  ASSUME FramingInv, status = "READABLE", NEW n \in 1 .. arrived - got
  PROVE  LET b == readFd(buffer, SubSeq(stream, got + 1, got + n))
         IN  /\ BufferOK(b, Cells(conn))
             /\ got + n \in EndOf(Len(taken)) .. Len(stream)
             /\ Content(b) = SubSeq(stream, EndOf(Len(taken)) + 1, got + n)
<1> DEFINE data == SubSeq(stream, got + 1, got + n)
           E == EndOf(Len(taken))
<1>1. /\ Len(stream) \in Nat /\ got \in Nat /\ arrived \in Nat /\ n \in Nat
      /\ got + n <= Len(stream) /\ Len(taken) \in 0 .. Len(lengths)
      /\ stream \in Seq(Bytes(conn))
  BY FramingFacts, StreamLayout DEF FramingInv
<1>2. /\ E \in Nat /\ E <= got /\ Content(buffer) = SubSeq(stream, E + 1, got)
  <2>1. E \in 0 .. Len(stream)
    BY <1>1, StreamLayout DEF FramingInv
  <2> QED
    BY <1>1, <2>1 DEF FramingInv, ReadIsHeld
<1>3. data \in Seq(Bytes(conn))
  BY <1>1, SubSeqAt
<1>4. data \in Seq(Cells(conn)) /\ NoByte \in Cells(conn)
  BY <1>3, SeqMonotonic DEF Cells
<1> HIDE DEF data, E
<1>5. /\ BufferOK(readFd(buffer, data), Cells(conn))
      /\ Content(readFd(buffer, data)) = Content(buffer) \o data
  BY <1>4, ReadFdEffect DEF FramingInv
<1>6. SubSeq(stream, E + 1, got) \o SubSeq(stream, got + 1, got + n)
        = SubSeq(stream, E + 1, got + n)
  <2>1. PICK lo, hi : lo = E + 1 /\ hi = got + n
    OBVIOUS
  <2>2. /\ lo \in 1 .. Len(stream) + 1 /\ got \in lo - 1 .. Len(stream)
        /\ hi \in got .. Len(stream)
    BY <1>1, <1>2, <2>1
  <2>3. SubSeq(stream, lo, got) \o SubSeq(stream, got + 1, hi) = SubSeq(stream, lo, hi)
    BY <1>1, <2>2, ConcatAdjacentSubSeq
  <2> QED
    BY <2>1, <2>3, Zenon
<1>7. Content(readFd(buffer, data)) = SubSeq(stream, E + 1, got + n)
  BY <1>2, <1>5, <1>6, Zenon DEF data
<1>8. got + n \in E .. Len(stream)
  BY <1>1, <1>2
<1> QED
  BY <1>5, <1>7, <1>8 DEF data, E

LEMMA ReadMessageStep ==
  ASSUME FramingInv, ReadMessage
  PROVE  FramingInv'
<1>0. /\ UNCHANGED <<clientVars, arrived, peer>>
      /\ second' \in ExtraLengths \cup {NoArea}
  BY DEF ReadMessage
<1>1. /\ StreamOK' /\ (waits \in BOOLEAN)'
      /\ \A n : EndOf(n)' = EndOf(n)
      /\ \A n : FirstBodies(n)' = FirstBodies(n)
      /\ stream' = stream /\ lengths' = lengths /\ conn' = conn
  BY <1>0, SameClient DEF clientVars
<1>2. /\ Len(stream) \in Nat /\ got \in Nat /\ arrived \in Nat
      /\ got <= arrived /\ arrived <= Len(stream) /\ writableBytes(buffer) \in Nat
      /\ Len(taken) \in 0 .. Len(lengths) /\ Len(lengths) \in Nat
  BY FramingFacts, StreamLayout DEF FramingInv
<1>3. PICK extra \in ExtraLengths :
        LET n == Min({arrived - got, AreaSize(buffer, extra)})
        IN  \/ /\ Release
               /\ UNCHANGED <<got, taken>>
            \/ /\ status' = "UNDEFINED"
               /\ UNCHANGED <<got, buffer, taken>>
            \/ /\ n > 0
               /\ TakeMessage(readFd(buffer, SubSeq(stream, got + 1, got + n)))
               /\ got' = got + n
  BY DEF ReadMessage
<1> DEFINE n == Min({arrived - got, AreaSize(buffer, extra)})
<1>4. n \in Int /\ n <= arrived - got
  <2>1. extra \in Nat
    BY FramingAssumption
  <2>2. AreaSize(buffer, extra) \in Nat
    BY <1>2, <2>1 DEF AreaSize
  <2> QED
    BY <1>2, <2>2, MinOfTwo
<1> HIDE DEF n
<1>5. CASE Release /\ UNCHANGED <<got, taken>>
  <2>1. BufferOK(buffer', Cells(conn))
    BY <1>5, RetrieveAllEffect DEF Release, FramingInv
  <2>2. HandedOver' /\ FramingTypes' /\ ReadIsHeld'
    BY <1>0, <1>1, <1>5
    DEF Release, FramingInv, FramingTypes, HandedOver, ReadIsHeld
  <2> QED
    BY <1>1, <2>1, <2>2 DEF FramingInv
<1>6. CASE status' = "UNDEFINED" /\ UNCHANGED <<got, buffer, taken>>
  BY <1>0, <1>1, <1>6 DEF FramingInv, FramingTypes, HandedOver, ReadIsHeld
<1>7. CASE /\ n > 0
           /\ TakeMessage(readFd(buffer, SubSeq(stream, got + 1, got + n)))
           /\ got' = got + n
  <2> DEFINE t == Len(taken)
             g == got + n
             b == readFd(buffer, SubSeq(stream, got + 1, got + n))
  <2>0. status = "READABLE" /\ n \in 1 .. arrived - got
    BY <1>2, <1>4, <1>7 DEF ReadMessage
  <2>1. /\ BufferOK(b, Cells(conn)) /\ g \in EndOf(t) .. Len(stream)
        /\ Content(b) = SubSeq(stream, EndOf(t) + 1, g)
    BY <2>0, ReadEffect
  <2>2. TakeMessage(b) /\ got' = g /\ g \in 0 .. arrived
    BY <1>2, <1>7, <2>0
  <2>2a. got' \in 0 .. arrived'
    BY <1>0, <2>2
  <2> HIDE DEF b, g
  <2> DEFINE len == Peek(b, 1)[1][3]
             whole == readableBytes(b) >= HeaderSize /\ readableBytes(b) >= HeaderSize + len
  <2>3. CASE whole
    <3>1. /\ taken' = Append(taken, Peek(retrieve(b, HeaderSize), len))
          /\ buffer' = retrieve(retrieve(b, HeaderSize), len)
          /\ status' = "IDLE"
      BY <2>2, <2>3 DEF TakeMessage
    <3>2. StreamOK /\ t \in 0 .. Len(lengths) /\ readableBytes(b) >= HeaderSize
      BY <1>2, <2>3 DEF FramingInv
    <3>3. t + 1 \in 1 .. Len(lengths) /\ len = lengths[t + 1]
      BY <2>1, <3>2, CutEffect
    <3>4. readableBytes(b) >= HeaderSize + lengths[t + 1]
      BY <2>3, <3>3
    <3>5. /\ Peek(retrieve(b, HeaderSize), lengths[t + 1])
               = Body(conn, t + 1, lengths[t + 1])
          /\ BufferOK(retrieve(retrieve(b, HeaderSize), lengths[t + 1]), Cells(conn))
          /\ g \in EndOf(t + 1) .. Len(stream)
          /\ Content(retrieve(retrieve(b, HeaderSize), lengths[t + 1]))
               = SubSeq(stream, EndOf(t + 1) + 1, g)
      BY <2>1, <3>2, <3>4, CutEffect
    <3> HIDE DEF len
    <3>6. taken' = FirstBodies(t + 1)
      <4>1. taken' = Append(taken, Body(conn, t + 1, lengths[t + 1]))
        BY <3>1, <3>3, <3>5, Zenon
      <4> QED
        BY <3>2, <3>3, <4>1, NextBody DEF FramingInv
    <3>7. Len(taken') = t + 1 /\ t + 1 \in 0 .. Len(lengths)
      <4>1. t + 1 \in 0 .. Len(lengths)
        BY <3>3
      <4> QED
        BY <3>2, <3>6, <4>1, BodiesType
    <3>8. HandedOver'
      BY <1>1, <3>6, <3>7 DEF HandedOver
    <3>9. /\ BufferOK(buffer', Cells(conn))
          /\ Content(buffer') = SubSeq(stream, EndOf(t + 1) + 1, g)
      BY <3>1, <3>3, <3>5, Zenon
    <3>10. ReadIsHeld'
      <4>1. EndOf(Len(taken))' = EndOf(t + 1)
        BY <1>1, <3>7 DEF EndOf
      <4>2. Content(buffer)' = Content(buffer')
        OBVIOUS
      <4> QED
        BY <1>1, <2>2, <3>5, <3>9, <4>1 DEF ReadIsHeld
    <3>11. FramingTypes'
      BY <1>0, <1>1, <2>2a, <3>1 DEF FramingTypes, FramingInv
    <3> QED
      BY <1>1, <3>8, <3>9, <3>10, <3>11 DEF FramingInv
  <2>4. CASE ~ whole
    <3>1. buffer' = b /\ UNCHANGED <<taken, status>>
      BY <2>2, <2>4 DEF TakeMessage
    <3>2. HandedOver' /\ FramingTypes'
      BY <1>0, <1>1, <2>2a, <3>1 DEF FramingTypes, FramingInv, HandedOver
    <3>3. ReadIsHeld'
      <4>1. EndOf(Len(taken))' = EndOf(t)
        BY <1>1, <3>1 DEF EndOf
      <4> QED
        BY <1>1, <2>1, <2>2, <3>1, <4>1 DEF ReadIsHeld
    <3> QED
      BY <1>1, <2>1, <3>1, <3>2, <3>3 DEF FramingInv
  <2> QED
    BY <2>3, <2>4
<1> QED
  BY <1>3, <1>5, <1>6, <1>7 DEF n

\* Releasing the slot, by whatever action.
LEMMA ReleaseStep ==
  ASSUME FramingInv, Release, second' = NoArea,
         UNCHANGED <<clientVars, arrived, got, peer, taken>>
  PROVE  FramingInv'
<1>1. /\ StreamOK' /\ (waits \in BOOLEAN)'
      /\ \A n : FirstBodies(n)' = FirstBodies(n)
      /\ stream' = stream /\ lengths' = lengths /\ conn' = conn
  BY SameClient DEF clientVars
<1>2. BufferOK(buffer', Cells(conn))
  BY RetrieveAllEffect DEF Release, FramingInv
<1>3. HandedOver' /\ FramingTypes' /\ ReadIsHeld'
  BY <1>1 DEF Release, FramingInv, FramingTypes, HandedOver, ReadIsHeld
<1> QED
  BY <1>1, <1>2, <1>3 DEF FramingInv

LEMMA ReconnectStep ==
  ASSUME FramingInv, Reconnect
  PROVE  FramingInv'
<1>1. conn \in Nat \ {0} /\ conn + 1 \in 1 .. MaxConnections /\ conn + 1 \in Nat \ {0}
  BY FramingFacts, FramingAssumption DEF Reconnect, FramingInv, StreamOK
<1>2. /\ conn' = conn + 1 /\ lengths' \in Conversations
      /\ stream' = Stream(conn + 1, lengths')
      /\ waits' \in BOOLEAN /\ arrived' = 0 /\ got' = 0 /\ peer' = "open"
      /\ status' = "READABLE" /\ taken' = << >> /\ buffer' = retrieveAll(buffer)
      /\ second' = NoArea
  BY DEF Reconnect, Open
<1>3. StreamOK'
  BY <1>1, <1>2 DEF StreamOK
<1>4. Len(stream') \in Nat /\ EndOf(0)' = 0
  BY <1>1, <1>2, NothingBefore DEF EndOf
<1>5. FramingTypes'
  BY <1>2, <1>4 DEF FramingTypes
<1>6. BufferOK(buffer', Cells(conn + 1)) /\ readableBytes(buffer') = 0
  <2>1. BufferOK(buffer, Cells(conn + 1))
    BY <1>1, CellsGrow DEF FramingInv
  <2> QED
    BY <1>2, <2>1, RetrieveAllEffect
<1>7. HandedOver'
  <2>1. 0 \in 0 .. Len(lengths')
    BY <1>2, LengthsOfConversation
  <2>2. FirstBodies(0)' = << >>
    BY DEF FirstBodies
  <2> QED
    BY <1>2, <2>1, <2>2 DEF HandedOver
<1>8. ReadIsHeld'
  <2>1. Content(buffer') = << >>
    BY <1>6, EmptyContent
  <2>2. SubSeq(stream', 0 + 1, 0) = << >>
    BY SubSeqEmpty
  <2>3. EndOf(Len(taken))' = EndOf(0)'
    BY <1>2 DEF EndOf
  <2> QED
    BY <1>2, <1>4, <2>1, <2>2, <2>3 DEF ReadIsHeld
<1> QED
  BY <1>2, <1>3, <1>5, <1>6, <1>7, <1>8 DEF FramingInv

\* Every step keeps the invariant.
LEMMA FramingInvStep == FramingInv /\ [FramingNext]_framingVars => FramingInv'
<1> SUFFICES ASSUME FramingInv, [FramingNext]_framingVars
             PROVE  FramingInv'
  OBVIOUS
<1>1. CASE Arrive
  <2>1. /\ UNCHANGED <<clientVars, got, peer, buffer, status, taken>>
        /\ arrived' = arrived + 1 /\ arrived < MaySend /\ second' = NoArea
    BY <1>1 DEF Arrive
  <2>2. /\ StreamOK' /\ (waits \in BOOLEAN)'
        /\ \A n : EndOf(n)' = EndOf(n)
        /\ \A n : FirstBodies(n)' = FirstBodies(n)
        /\ stream' = stream /\ lengths' = lengths /\ conn' = conn
    BY <2>1, SameClient DEF clientVars
  <2>3. FramingTypes'
    <3>1. /\ MaySend \in 0 .. Len(stream) /\ Len(stream) \in Nat
          /\ arrived \in Nat /\ got \in Nat /\ got <= arrived
      BY FramingFacts, SendsItsStream
    <3>2. arrived + 1 \in 0 .. Len(stream) /\ got \in 0 .. arrived + 1
      BY <2>1, <3>1
    <3> QED
      BY <2>1, <2>2, <3>2 DEF FramingInv, FramingTypes
  <2>4. HandedOver' /\ ReadIsHeld'
    BY <2>1, <2>2 DEF FramingInv, HandedOver, ReadIsHeld, EndOf
  <2> QED
    BY <2>1, <2>2, <2>3, <2>4 DEF FramingInv
<1>2. CASE Close
  <2>1. /\ UNCHANGED <<clientVars, arrived, got, buffer, status, taken>>
        /\ peer' = "closed" /\ second' = NoArea
    BY <1>2 DEF Close
  <2>2. /\ StreamOK' /\ (waits \in BOOLEAN)'
        /\ \A n : EndOf(n)' = EndOf(n)
        /\ \A n : FirstBodies(n)' = FirstBodies(n)
        /\ stream' = stream /\ lengths' = lengths /\ conn' = conn
    BY <2>1, SameClient DEF clientVars
  <2>3. FramingTypes' /\ HandedOver' /\ ReadIsHeld'
    BY <2>1, <2>2 DEF FramingInv, FramingTypes, HandedOver, ReadIsHeld, EndOf
  <2> QED
    BY <2>1, <2>2, <2>3 DEF FramingInv
<1>3. CASE ReadMessage
  BY <1>3, ReadMessageStep
<1>4. CASE ReadFails
  BY <1>4, ReleaseStep DEF ReadFails
<1>5. CASE Respond
  <2>1. CASE status' = "READABLE" /\ UNCHANGED buffer
    <3>1. /\ status = "IDLE" /\ second' = NoArea
          /\ UNCHANGED <<clientVars, arrived, got, peer, taken>>
      BY <1>5 DEF Respond
    <3>2. /\ StreamOK' /\ (waits \in BOOLEAN)'
          /\ \A n : EndOf(n)' = EndOf(n)
          /\ \A n : FirstBodies(n)' = FirstBodies(n)
          /\ stream' = stream /\ lengths' = lengths /\ conn' = conn
      BY <3>1, SameClient DEF clientVars
    <3>3. FramingTypes' /\ HandedOver' /\ ReadIsHeld'
      BY <2>1, <3>1, <3>2 DEF FramingInv, FramingTypes, HandedOver, ReadIsHeld, EndOf
    <3> QED
      BY <2>1, <3>2, <3>3 DEF FramingInv
  <2>2. CASE Release
    BY <1>5, <2>2, ReleaseStep DEF Respond
  <2> QED
    BY <1>5, <2>1, <2>2 DEF Respond
<1>6. CASE Reconnect
  BY <1>6, ReconnectStep
<1>7. CASE UNCHANGED framingVars
  BY <1>7 DEF framingVars, clientVars, FramingInv, StreamOK, FramingTypes,
              BufferOK, HandedOver, FirstBodies, ReadIsHeld, EndOf, Content, Peek,
              readableBytes
<1> QED
  BY <1>1, <1>2, <1>3, <1>4, <1>5, <1>6, <1>7 DEF FramingNext
-----------------------------------------------------------------------------
(***************************************************************************)
(* The theorems.                                                           *)
(***************************************************************************)
\* The invariant holds in every behaviour of the slot.
THEOREM FramingCorrect == FramingSpec => []FramingInv
<1> QED
  BY FramingInvInit, FramingInvStep, PTL DEF FramingSpec

\* The indices of the input buffer stay ordered and within its array through
\* every read, growth, move and reuse, and the array never holds a byte of a
\* connection that is yet to come.
THEOREM FramingTypeCorrect == FramingSpec => []FramingTypeOK
<1>1. FramingInv => FramingTypeOK
  <2> SUFFICES ASSUME FramingInv PROVE FramingTypeOK
    OBVIOUS
  <2>1. ASSUME NEW k \in DOMAIN buffer.cells, buffer.cells[k] # NoByte
        PROVE  buffer.cells[k][1] \in 1 .. conn
    <3>1. buffer.cells[k] \in Cells(conn)
      BY ElementOfSeq, LenProperties DEF FramingInv, BufferOK
    <3>2. buffer.cells[k] \in Bytes(conn)
      BY <2>1, <3>1 DEF Cells
    <3> QED
      BY <3>2 DEF Bytes
  <2> QED
    BY <2>1 DEF FramingInv, FramingTypes, StreamOK, BufferOK, FramingTypeOK
<1> QED
  BY <1>1, FramingCorrect, PTL

\* What was handed over and what the input buffer holds are, together, the
\* bytes read from the socket, whatever pieces they came in.
THEOREM NothingMisplacedCorrect == FramingSpec => []NothingMisplaced
<1>1. FramingInv => NothingMisplaced
  BY FramingFacts DEF FramingInv, ReadIsHeld, NothingMisplaced
<1> QED
  BY <1>1, FramingCorrect, PTL

\* A connection whose peer is there is given up only by a read event without
\* anything to read, or by a read whose second area was longer than extrabuf,
\* or had length 0 while the buffer was full: by no message, and by no read at
\* all if the length of the area were initialised.
THEOREM GivenUpCorrect == FramingSpec => GivenUpOnlyBySecondArea
<1>1. ASSUME FramingInv, [FramingNext]_framingVars
      PROVE  [peer = "open" /\ status \in {"READABLE", "IDLE"}
                /\ status' \in {"RELEASED", "UNDEFINED"}
              => \/ got = arrived
                 \/ second' > ExtraSize
                 \/ second' = 0 /\ writableBytes(buffer) = 0]_framingVars
  <2> SUFFICES ASSUME FramingNext, peer = "open", status \in {"READABLE", "IDLE"},
                      status' \in {"RELEASED", "UNDEFINED"}, got # arrived
               PROVE  \/ second' > ExtraSize
                      \/ second' = 0 /\ writableBytes(buffer) = 0
    BY <1>1
  <2>0. /\ got \in Nat /\ arrived \in Nat /\ writableBytes(buffer) \in Nat
        /\ ExtraSize \in Nat \ {0} /\ MaxLength \in Nat /\ MaxLength >= ExtraSize
        /\ NoArea = -1
    BY <1>1, FramingFacts, BufferAssumption, FramingAssumption DEF NoArea
  <2>1. CASE ReadMessage
    <3>1. got < arrived
      BY <2>1 DEF ReadMessage
    <3>2. PICK extra \in ExtraLengths :
            LET n == Min({arrived - got, AreaSize(buffer, extra)})
            IN  /\ second' = IF writableBytes(buffer) < ExtraSize THEN extra ELSE NoArea
                /\ \/ second' > MaxLength \/ n = 0
                   \/ Overruns(buffer, n)
                   \/ TakeMessage(readFd(buffer, SubSeq(stream, got + 1, got + n)))
      BY <2>1 DEF ReadMessage
    <3> DEFINE n == Min({arrived - got, AreaSize(buffer, extra)})
    <3>3. extra \in Nat /\ AreaSize(buffer, extra) \in Nat
      BY <2>0, FramingAssumption DEF AreaSize
    <3>4. /\ n \in Nat /\ n <= AreaSize(buffer, extra)
          /\ n = 0 => AreaSize(buffer, extra) = 0
      BY <2>0, <3>1, <3>3, MinOfTwo
    <3> HIDE DEF n
    <3>5. CASE second' > MaxLength
      BY <2>0, <3>2, <3>3, <3>5
    <3>6. CASE n = 0
      BY <2>0, <3>2, <3>3, <3>4, <3>6 DEF AreaSize
    <3>7. CASE Overruns(buffer, n)
      BY <2>0, <3>2, <3>3, <3>4, <3>7 DEF AreaSize, Overruns
    <3>8. ASSUME NEW b, TakeMessage(b)
          PROVE  FALSE
      BY <2>1, <3>8 DEF TakeMessage, ReadMessage
    <3> QED
      BY <3>2, <3>5, <3>6, <3>7, <3>8 DEF n
  <2>2. CASE ReadFails \/ Respond
    BY <2>2 DEF ReadFails, Respond
  <2>3. CASE Arrive \/ Close \/ Reconnect
    BY <2>3 DEF Arrive, Close, Reconnect
  <2> QED
    BY <2>1, <2>2, <2>3 DEF FramingNext
<1> QED
  BY <1>1, FramingCorrect, PTL DEF FramingSpec, GivenUpOnlyBySecondArea
-----------------------------------------------------------------------------
(***************************************************************************)
(* The slot implements MessageDelivery.                                    *)
(***************************************************************************)
LEMMA OutgoingIsBodies ==
  ASSUME StreamOK
  PROVE  [i \in DOMAIN lengths |-> Body(conn, i, lengths[i])] = FirstBodies(Len(lengths))
<1>1. DOMAIN lengths = 1 .. Len(lengths)
  BY FramingAssumption DEF StreamOK, Conversations
<1> QED
  BY <1>1 DEF FirstBodies

\* The messages of a conversation are messages.
LEMMA ConversationType ==
  ASSUME NEW c \in 1 .. MaxConnections, NEW lens \in Conversations
  PROVE  [i \in DOMAIN lens |-> Body(c, i, lens[i])] \in Seq(Messages)
<1>1. PICK N \in 0 .. MaxMessages : lens \in [1 .. N -> BodyLengths]
  BY DEF Conversations
<1>2. N \in Nat /\ MaxMessages \in Nat /\ DOMAIN lens = 1 .. N
  BY <1>1, FramingAssumption
<1>3. \A i \in 1 .. N : i \in 1 .. MaxMessages /\ lens[i] \in BodyLengths
  BY <1>1, <1>2
<1>4. \A i \in 1 .. N : Body(c, i, lens[i]) \in Messages
  BY <1>3 DEF Messages
<1>5. [i \in DOMAIN lens |-> Body(c, i, lens[i])] \in [1 .. N -> Messages]
  BY <1>2, <1>4
<1> QED
  BY <1>2, <1>5, SeqDef

LEMMA DeliveryInitially == FramingInit => Delivery!DeliveryInit
<1> SUFFICES ASSUME FramingInit PROVE Delivery!DeliveryInit
  OBVIOUS
<1>1. conn \in 1 .. MaxConnections /\ lengths \in Conversations
  BY FramingAssumption DEF FramingInit
<1>2. [i \in DOMAIN lengths |-> Body(conn, i, lengths[i])] \in Seq(Messages)
  BY <1>1, ConversationType
<1>3. taken = << >> /\ (status \in {"RELEASED", "UNDEFINED"}) = FALSE
  BY DEF FramingInit
<1> QED
  BY <1>2, <1>3 DEF Delivery!DeliveryInit, Messages

\* A read hands over the next message, ends the connection or changes nothing
\* of what MessageDelivery knows.
LEMMA ReadDelivers ==
  ASSUME FramingInv, ReadMessage
  PROVE  Delivery!Deliver \/ Delivery!End \/ UNCHANGED Delivery!deliveryVars
<1> DEFINE out == [i \in DOMAIN lengths |-> Body(conn, i, lengths[i])]
           ended == status \in {"RELEASED", "UNDEFINED"}
<1>1. /\ status = "READABLE" /\ lengths' = lengths /\ conn' = conn
      /\ out' = out /\ ended = FALSE
  BY DEF ReadMessage, clientVars
<1>2. \/ /\ taken' = taken /\ status' \in {"RELEASED", "UNDEFINED"}
      \/ /\ taken' = taken /\ status' = status
      \/ /\ \E m : taken' = Append(taken, m)
         /\ status' = "IDLE"
  BY DEF ReadMessage, TakeMessage, Release
<1>3. CASE taken' = taken /\ status' \in {"RELEASED", "UNDEFINED"}
  BY <1>1, <1>3 DEF Delivery!End
<1>4. CASE taken' = taken /\ status' = status
  BY <1>1, <1>4 DEF Delivery!deliveryVars
<1>5. CASE (\E m : taken' = Append(taken, m)) /\ status' = "IDLE"
  <2> DEFINE t == Len(taken)
  <2>1. /\ StreamOK /\ HandedOver /\ t \in 0 .. Len(lengths) /\ Len(lengths) \in Nat
        /\ taken \in Seq(Messages) /\ taken = FirstBodies(t)
    BY TakenIsPrefix, StreamLayout DEF FramingInv
  <2>2. PICK n \in 0 .. Len(lengths) : taken' = FirstBodies(n)
    BY <1>1, ReadMessageStep DEF FramingInv, HandedOver, FirstBodies
  <2>3. n = t + 1
    <3>1. Len(taken') = t + 1
      <4>1. PICK m : taken' = Append(taken, m)
        BY <1>5
      <4>2. taken \in Seq(Messages \cup {m})
        BY <2>1, SeqMonotonic
      <4> QED
        BY <4>1, <4>2
    <3>2. Len(taken') = n
      BY <2>1, <2>2, BodiesType
    <3> QED
      BY <3>1, <3>2
  <2>4. t + 1 \in 1 .. Len(lengths) /\ t < Len(lengths)
    BY <2>1, <2>2, <2>3
  <2>5. taken' = Append(taken, Body(conn, t + 1, lengths[t + 1]))
    BY <2>1, <2>2, <2>3, <2>4, NextBody
  <2>6. out[t + 1] = Body(conn, t + 1, lengths[t + 1]) /\ Len(out) = Len(lengths)
    <3>1. out = FirstBodies(Len(lengths))
      BY <2>1, OutgoingIsBodies
    <3>2. Len(FirstBodies(Len(lengths))) = Len(lengths)
      BY <2>1, BodiesType
    <3>3. FirstBodies(Len(lengths))[t + 1] = Body(conn, t + 1, lengths[t + 1])
      BY <2>4 DEF FirstBodies
    <3> QED
      BY <3>1, <3>2, <3>3
  <2>7. taken' = Append(taken, out[Len(taken) + 1]) /\ Len(taken) < Len(out)
    BY <2>4, <2>5, <2>6
  <2>8. ended' = FALSE
    BY <1>5
  <2> QED
    BY <1>1, <2>7, <2>8 DEF Delivery!Deliver
<1> QED
  BY <1>2, <1>3, <1>4, <1>5

\* The messages that clients send are handed over whole, in order, once each,
\* and never on another connection, until the connection ends: for every
\* division into reads and every reuse of the buffer.
THEOREM DeliveryImplemented == FramingSpec => ImplementsDelivery
<1> DEFINE out == [i \in DOMAIN lengths |-> Body(conn, i, lengths[i])]
           ended == status \in {"RELEASED", "UNDEFINED"}
<1>1. ASSUME FramingInv, [FramingNext]_framingVars
      PROVE  [Delivery!Deliver \/ Delivery!End \/ Delivery!Reuse]_(Delivery!deliveryVars)
  <2>1. CASE ReadMessage
    BY <1>1, <2>1, ReadDelivers
  <2>2. CASE Arrive \/ Close
    <3>1. out' = out /\ taken' = taken /\ ended' = ended
      BY <2>2 DEF Arrive, Close, clientVars
    <3> QED
      BY <3>1 DEF Delivery!deliveryVars
  <2>3. CASE ReadFails
    <3>1. out' = out /\ taken' = taken /\ ended' = TRUE
      BY <2>3 DEF ReadFails, Release, clientVars
    <3> QED
      BY <3>1 DEF Delivery!End
  <2>4. CASE Respond
    <3>1. out' = out /\ taken' = taken /\ (ended' = TRUE \/ ended' = ended)
      BY <2>4 DEF Respond, Release, clientVars
    <3> QED
      BY <3>1 DEF Delivery!End, Delivery!deliveryVars
  <2>5. CASE Reconnect
    <3>1. conn' \in 1 .. MaxConnections /\ lengths' \in Conversations
      BY <1>1, <2>5, FramingFacts, FramingAssumption DEF Reconnect, Open
    <3>2. out' \in Seq(Messages)
      BY <3>1, ConversationType
    <3>3. ended /\ taken' = << >> /\ ended' = FALSE
      BY <2>5 DEF Reconnect, Open
    <3> QED
      BY <3>2, <3>3 DEF Delivery!Reuse, Messages
  <2>6. CASE UNCHANGED framingVars
    <3>1. out' = out /\ taken' = taken /\ ended' = ended
      BY <2>6 DEF framingVars, clientVars
    <3> QED
      BY <3>1 DEF Delivery!deliveryVars
  <2> QED
    BY <1>1, <2>1, <2>2, <2>3, <2>4, <2>5, <2>6 DEF FramingNext
<1> QED
  BY <1>1, DeliveryInitially, FramingCorrect, PTL
  DEF FramingSpec, ImplementsDelivery, Delivery!DeliverySpec
=============================================================================
