-------------------------------- MODULE Buffer --------------------------------
(***************************************************************************)
(* The byte buffer behind every connection (src/src/network/Buffer.h,      *)
(* Buffer.cpp): an array with a readable part in the middle.               *)
(*                                                                         *)
(*   0  <=  readerIndex  <=  writerIndex  <=  Len(cells)                   *)
(*                                                                         *)
(* The indices count from 0 as in the code: the byte at index k is         *)
(* cells[k + 1].  The operators give the buffer after a call.              *)
(***************************************************************************)
EXTENDS Integers, Sequences

CONSTANTS
  kCheapPrepend,   \* bytes kept free in front of the data
  kInitialSize,    \* room for data in a new buffer
  ExtraSize,       \* sizeof(extrabuf)
  NoByte           \* a cell that nothing was written to

ASSUME BufferAssumption ==
  /\ kCheapPrepend \in Nat
  /\ kInitialSize \in Nat
  /\ ExtraSize \in Nat \ {0}

Blank(n) == [k \in 1 .. n |-> NoByte]

NewBuffer ==
  [cells |-> Blank(kCheapPrepend + kInitialSize),
   readerIndex |-> kCheapPrepend, writerIndex |-> kCheapPrepend]

readableBytes(b)    == b.writerIndex - b.readerIndex
writableBytes(b)    == Len(b.cells) - b.writerIndex
prependableBytes(b) == b.readerIndex

\* The n bytes from peek() on, and all that can be read.
Peek(b, n) == SubSeq(b.cells, b.readerIndex + 1, b.readerIndex + n)
Content(b) == Peek(b, readableBytes(b))

\* The cells with the bytes of data written from index `from` on.
Overwrite(cells, from, data) ==
  [k \in DOMAIN cells |->
     IF k \in from + 1 .. from + Len(data) THEN data[k - from] ELSE cells[k]]

retrieveAll(b) ==
  [b EXCEPT !.readerIndex = kCheapPrepend, !.writerIndex = kCheapPrepend]

retrieve(b, len) ==
  IF len < readableBytes(b)
    THEN [b EXCEPT !.readerIndex = @ + len]
    ELSE retrieveAll(b)

\* Grow, or move what is readable to the front.
makeSpace_NoGap(b, len) ==
  IF writableBytes(b) + prependableBytes(b) < len + kCheapPrepend
    THEN [b EXCEPT !.cells = @ \o Blank(b.writerIndex + len - Len(@))]
    ELSE [cells |-> Overwrite(b.cells, kCheapPrepend, Content(b)),
          readerIndex |-> kCheapPrepend,
          writerIndex |-> b.writerIndex]

makeSpace_NoCopy(b, len) ==
  IF writableBytes(b) + prependableBytes(b) < len + kCheapPrepend
    THEN [b EXCEPT !.cells = @ \o Blank(b.writerIndex + len - Len(@))]
    ELSE [cells |-> b.cells,
          readerIndex |-> kCheapPrepend,
          writerIndex |-> kCheapPrepend + readableBytes(b)]

makeSpace(b, len) ==
  IF writableBytes(b) + prependableBytes(b) < len + kCheapPrepend
    THEN [b EXCEPT !.cells = @ \o Blank(b.writerIndex + len - Len(@))]
    ELSE [cells |-> Overwrite(b.cells, kCheapPrepend, Content(b)),
          readerIndex |-> kCheapPrepend,
          writerIndex |-> kCheapPrepend + readableBytes(b)]

ensureWritableBytes(b, len) ==
  IF writableBytes(b) < len THEN makeSpace(b, len) ELSE b

append(b, data) ==
  LET room == ensureWritableBytes(b, Len(data))
  IN  [room EXCEPT !.cells = Overwrite(@, room.writerIndex, data),
                   !.writerIndex = @ + Len(data)]

(***************************************************************************)
(* readFd.  readv fills the writable part first and then, when that is     *)
(* shorter than extrabuf, a second area.  Its length is never initialised: *)
(* the assignment goes to vec[2], outside the array.  So `extra` may be    *)
(* anything; the caller chooses it.                                        *)
(***************************************************************************)
AreaSize(b, extra) ==
  writableBytes(b) + (IF writableBytes(b) < ExtraSize THEN extra ELSE 0)

\* Beyond extrabuf the bytes go into the stack of the caller.
Overruns(b, n) == n > writableBytes(b) + ExtraSize

\* The buffer after data was read, where ~ Overruns(b, Len(data)).
readFd(b, data) ==
  LET fits == writableBytes(b)
  IN  IF Len(data) <= fits
        THEN [b EXCEPT !.cells = Overwrite(@, b.writerIndex, data),
                       !.writerIndex = @ + Len(data)]
        ELSE append([b EXCEPT
                       !.cells = Overwrite(@, b.writerIndex,
                                           SubSeq(data, 1, fits)),
                       !.writerIndex = Len(b.cells)],
                    SubSeq(data, fits + 1, Len(data)))
=============================================================================
