------------------------------- MODULE Framing -------------------------------
(***************************************************************************)
(* The input side of a connection slot, byte by byte: a client's messages  *)
(* arrive in the socket in pieces, ConnectionSlot::read_message moves them *)
(* into the input buffer and cuts them at the length prefix, and           *)
(* ClientSockets::handle_read_event decides from the number of bytes read  *)
(* whether the connection lives on.  Connections use the slot in turn; the *)
(* buffer keeps its size and its old bytes.                                *)
(*                                                                         *)
(* A byte is what it stands for: <<c, i, len, k>> is byte k of the frame   *)
(* of message i of connection c, whose body has length len; the first      *)
(* HeaderSize bytes of a frame are the length prefix.                      *)
(***************************************************************************)
EXTENDS Buffer, FiniteSets, SequencesExt

CONSTANTS
  HeaderSize,      \* sizeof(uint32_t)
  BodyLengths,     \* lengths of the messages clients send
  MaxMessages,     \* bound: messages per connection
  MaxConnections,  \* bound: connections that use the slot
  ExtraLengths,    \* what the length of the second area may be
  MaxLength        \* the longest area that readv accepts

ASSUME FramingAssumption ==
  /\ HeaderSize \in Nat \ {0}
  /\ BodyLengths \subseteq Nat
  /\ MaxMessages \in Nat
  /\ MaxConnections \in Nat \ {0}
  /\ ExtraLengths \subseteq Nat
  /\ MaxLength \in Nat /\ MaxLength >= ExtraSize

VARIABLES
  conn,      \* which connection uses the slot
  lengths,   \* of the messages that its client sends
  stream,    \* the bytes of their frames
  waits,     \* whether the client waits for an answer before it goes on
  arrived,   \* how many bytes of the stream have reached the socket
  got,       \* how many of those were read
  peer,      \* "open" or "closed"
  buffer,    \* input_buffer_
  second,    \* the length of the second area, while readFd has one
  status,    \* of the slot; "RELEASED", or "UNDEFINED" after an overrun
  taken      \* the bodies that were handed to handle_complete_message

clientVars  == <<conn, lengths, stream, waits>>
framingVars == <<clientVars, arrived, got, peer, buffer, second, status, taken>>

\* readv is given one area, or is not called.
NoArea == -1

Body(c, i, len)  == [k \in 1 .. len |-> <<c, i, len, HeaderSize + k>>]
Frame(c, i, len) == [k \in 1 .. HeaderSize + len |-> <<c, i, len, k>>]

Stream(c, lens) == FlattenSeq([i \in DOMAIN lens |-> Frame(c, i, lens[i])])

\* Where in the stream message n ends.
EndOf(n) == Cardinality({k \in DOMAIN stream : stream[k][2] <= n})

Conversations == UNION { [1 .. n -> BodyLengths] : n \in 0 .. MaxMessages }

\* ConnectionSlot::init, for connection c.
Open(c) ==
  /\ conn' = c
  /\ lengths' \in Conversations
  /\ stream' = Stream(c, lengths')
  /\ waits' \in BOOLEAN
  /\ arrived' = 0
  /\ got' = 0
  /\ peer' = "open"
  /\ status' = "READABLE"
  /\ taken' = << >>

FramingInit ==
  /\ conn = 1
  /\ lengths \in Conversations
  /\ stream = Stream(1, lengths)
  /\ waits \in BOOLEAN
  /\ arrived = 0
  /\ got = 0
  /\ peer = "open"
  /\ buffer = NewBuffer
  /\ second = NoArea
  /\ status = "READABLE"
  /\ taken = << >>
-----------------------------------------------------------------------------
(***************************************************************************)
(* The client.                                                             *)
(***************************************************************************)
Answered == IF status = "IDLE" THEN Len(taken) - 1 ELSE Len(taken)

MaySend == IF waits THEN EndOf(Min({Answered + 1, Len(lengths)}))
                    ELSE Len(stream)

Arrive ==
  /\ peer = "open"
  /\ status \in {"READABLE", "IDLE"}
  /\ arrived < MaySend
  /\ arrived' = arrived + 1
  /\ second' = NoArea
  /\ UNCHANGED <<clientVars, got, peer, buffer, status, taken>>

Close ==
  /\ peer = "open"
  /\ status \in {"READABLE", "IDLE"}
  /\ peer' = "closed"
  /\ second' = NoArea
  /\ UNCHANGED <<clientVars, arrived, got, buffer, status, taken>>
-----------------------------------------------------------------------------
(***************************************************************************)
(* read_message and handle_read_event.                                     *)
(***************************************************************************)
\* release_connection and ConnectionSlot::clear.
Release ==
  /\ status' = "RELEASED"
  /\ buffer' = retrieveAll(buffer)

\* Only the prefix is removed from the buffer.
TakeMessage_LeavesBody(b) ==
  LET len == Peek(b, 1)[1][3]
  IN  IF readableBytes(b) >= HeaderSize
         /\ readableBytes(b) >= HeaderSize + len
        THEN /\ taken' = Append(taken, Peek(retrieve(b, HeaderSize), len))
             /\ buffer' = retrieve(b, HeaderSize)
             /\ status' = "IDLE"
        ELSE /\ buffer' = b
             /\ UNCHANGED <<taken, status>>

\* A message is whole only when something follows it.
TakeMessage_OffByOne(b) ==
  LET len == Peek(b, 1)[1][3]
  IN  IF readableBytes(b) >= HeaderSize
         /\ readableBytes(b) > HeaderSize + len
        THEN /\ taken' = Append(taken, Peek(retrieve(b, HeaderSize), len))
             /\ buffer' = retrieve(retrieve(b, HeaderSize), len)
             /\ status' = "IDLE"
        ELSE /\ buffer' = b
             /\ UNCHANGED <<taken, status>>

\* A prefix that is not complete is an error.
TakeMessage_NoPartialPrefix(b) ==
  LET len == Peek(b, 1)[1][3]
  IN  IF readableBytes(b) < HeaderSize
        THEN Release /\ UNCHANGED taken
        ELSE IF readableBytes(b) >= HeaderSize + len
        THEN /\ taken' = Append(taken, Peek(retrieve(b, HeaderSize), len))
             /\ buffer' = retrieve(retrieve(b, HeaderSize), len)
             /\ status' = "IDLE"
        ELSE /\ buffer' = b
             /\ UNCHANGED <<taken, status>>

\* Cut one message off, if there is a whole one.
TakeMessage(b) ==
  LET len == Peek(b, 1)[1][3]
  IN  IF readableBytes(b) >= HeaderSize
         /\ readableBytes(b) >= HeaderSize + len
        THEN /\ taken' = Append(taken, Peek(retrieve(b, HeaderSize), len))
             /\ buffer' = retrieve(retrieve(b, HeaderSize), len)
             /\ status' = "IDLE"
        ELSE /\ buffer' = b
             /\ UNCHANGED <<taken, status>>

\* There is something to read.  readv fails (EINVAL, EFAULT) when the length
\* of the second area is absurd, and reads nothing when the buffer is full and
\* that length happens to be 0: both are taken for the end of the connection.
ReadMessage ==
  /\ status = "READABLE"
  /\ got < arrived
  /\ \E extra \in ExtraLengths :
       LET n == Min({arrived - got, AreaSize(buffer, extra)})
       IN  /\ second' = IF writableBytes(buffer) < ExtraSize THEN extra ELSE NoArea
           /\ \/ /\ second' > MaxLength \/ n = 0
                 /\ Release
                 /\ UNCHANGED <<got, taken>>
              \/ /\ second' <= MaxLength /\ Overruns(buffer, n)
                 /\ status' = "UNDEFINED"
                 /\ UNCHANGED <<got, buffer, taken>>
              \/ /\ second' <= MaxLength /\ n > 0 /\ ~ Overruns(buffer, n)
                 /\ TakeMessage(readFd(buffer, SubSeq(stream, got + 1, got + n)))
                 /\ got' = got + n
  /\ UNCHANGED <<clientVars, arrived, peer>>

\* readv returns 0 after the last byte, or fails: with EAGAIN when select was
\* wrong about the socket, or with ECONNRESET.  tot_read is negative also
\* after EAGAIN.
ReadFails ==
  /\ status = "READABLE"
  /\ got = arrived \/ peer = "closed"
  /\ Release
  /\ second' = NoArea
  /\ UNCHANGED <<clientVars, arrived, got, peer, taken>>

\* The response is sent and the slot is READABLE again, or sending fails.
Respond ==
  /\ status = "IDLE"
  /\ \/ status' = "READABLE" /\ UNCHANGED buffer
     \/ peer = "closed" /\ Release
  /\ second' = NoArea
  /\ UNCHANGED <<clientVars, arrived, got, peer, taken>>

\* The slot is acquired for the next connection.
Reconnect ==
  /\ status = "RELEASED"
  /\ conn < MaxConnections
  /\ Open(conn + 1)
  /\ buffer' = retrieveAll(buffer)
  /\ second' = NoArea

FramingNext == Arrive \/ Close \/ ReadMessage \/ ReadFails \/ Respond \/ Reconnect

FramingSpec == FramingInit /\ [][FramingNext]_framingVars

\* The loop looks at the slot again and again, and answers what it has taken.
FairFramingSpec ==
  FramingSpec /\ WF_framingVars(ReadMessage) /\ WF_framingVars(Respond)
-----------------------------------------------------------------------------
(***************************************************************************)
(* Properties.                                                             *)
(***************************************************************************)
FramingTypeOK ==
  /\ conn \in 1 .. MaxConnections
  /\ waits \in BOOLEAN
  /\ got \in 0 .. arrived
  /\ arrived \in 0 .. Len(stream)
  /\ peer \in {"open", "closed"}
  /\ \A k \in DOMAIN buffer.cells :
       buffer.cells[k] # NoByte => buffer.cells[k][1] \in 1 .. conn
  /\ kCheapPrepend <= buffer.readerIndex
  /\ buffer.readerIndex <= buffer.writerIndex
  /\ buffer.writerIndex <= Len(buffer.cells)
  /\ second \in ExtraLengths \cup {NoArea}
  /\ status \in {"READABLE", "IDLE", "RELEASED", "UNDEFINED"}

\* Nothing that was read from the socket is lost, doubled or out of place,
\* through growing, moving to the front and reuse of the buffer: what was
\* handed over, as frames, and what the buffer holds are the bytes read.
NothingMisplaced ==
  status \in {"READABLE", "IDLE"} =>
    /\ Len(taken) <= Len(lengths)
    /\ Content(buffer) = SubSeq(stream, EndOf(Len(taken)) + 1, got)

\* The slot delivers the messages of its clients as MessageDelivery promises:
\* whole, in order, once, and never one of another connection.
Delivery == INSTANCE MessageDelivery WITH
  Message  <- {Body(c, i, len) : c \in 1 .. MaxConnections,
                                 i \in 1 .. MaxMessages, len \in BodyLengths},
  outgoing <- [i \in DOMAIN lengths |-> Body(conn, i, lengths[i])],
  taken    <- taken,
  ended    <- status \in {"RELEASED", "UNDEFINED"}

ImplementsDelivery == Delivery!DeliverySpec

\* No message, short, empty or in pieces, ends the connection it came on: a
\* connection whose peer is there is given up only by a read event without
\* anything to read (EAGAIN), or by a read whose second area has another
\* length than it was meant to have: longer than extrabuf, or 0 while the
\* buffer is full.  With the length ExtraSize it never is.
GivenUpOnlyBySecondArea ==
  [][peer = "open" /\ status \in {"READABLE", "IDLE"}
       /\ status' \in {"RELEASED", "UNDEFINED"}
     => \/ got = arrived
        \/ second' > ExtraSize
        \/ second' = 0 /\ writableBytes(buffer) = 0]_framingVars

\* A complete request is taken when it is the first of its connection, or when
\* the client sends one request after the other.  (A request that was sent
\* behind another without waiting may stay: read_message takes one message per
\* read event, and the second is looked at when more bytes arrive.)
RequestTaken ==
  \A c \in 1 .. MaxConnections : \A n \in 1 .. MaxMessages :
    (conn = c /\ (waits \/ n = 1) /\ n <= Len(lengths) /\ arrived >= EndOf(n))
      ~> (conn > c \/ status \in {"RELEASED", "UNDEFINED"} \/ Len(taken) >= n)
=============================================================================
