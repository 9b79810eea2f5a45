------------------------- MODULE ClientSocketsProofs -------------------------
(***************************************************************************)
(* Proofs about the network front end, for any number of slots,            *)
(* connections, requests and submissions.                                  *)
(***************************************************************************)
EXTENDS ClientSockets, SequenceTheorems, FiniteSetTheorems, TLAPS

(***************************************************************************)
(* The inductive invariant, in layers; each part says what the loop thread *)
(* and the workers rely on between two of their critical sections.         *)
(***************************************************************************)
SlotRec == [session : 0 .. MaxSessions,
            status  : {"READABLE", "WRITABLE", "IDLE"},
            input   : Parts(Kinds),
            pending : Parts(Message),
            offset  : Nat]

\* Places of the loop while it handles an event of the slot `at`.
Submitting == {"mark", "submit", "release"}
Replying   == {"reply", "writable", "held"}
Sending    == {"send", "consume", "readable"}
Handling   == Submitting \cup Replying \cup Sending

PcStates == {"start", "populate", "select", "drain", "accept", "events",
             "ended", "dead"} \cup Handling

TaskStates == {"none", "judging", "defer", "silent", "queue", "wake", "done"}

\* What NetTypeOK leaves open.
LocalTypes ==
  /\ pc \in PcStates
  /\ tasks \in [Submissions -> [channel : Channels \cup {<<0, 0>>}, pc : TaskStates]]
  /\ \A i \in Submissions : tasks[i].pc # "none" => tasks[i].channel \in Channels

\* An event is handled for a connection that is there: only the loop thread
\* releases a slot.  And the sets that select gave are about the connections
\* that it has looked at.
HandlesLive ==
  /\ pc \in Handling => slots[at].session # 0
  /\ pc \in {"start", "select", "drain", "accept"} => at = 0
  /\ pc \in {"drain", "accept"} /\ fds.accept => Acceptable
  /\ pc = "held" => local.held # << >>

\* A session id is given to one slot, and to no slot before it is accepted.
SessionsUnique ==
  /\ \A i \in Slots : slots[i].session # 0 =>
       /\ slots[i].session < next_session_id
       /\ conn[slots[i].session] \notin {"none", "closed"}
       /\ \A j \in Slots \ {i} : slots[j].session # slots[i].session
  /\ \A s \in Sessions : s >= next_session_id => conn[s] # "closed"

FreeList ==
  /\ \A i \in Slots : slots[i].session = 0 <=> \E k \in 1 .. Len(free) : free[k] = i
  /\ \A k, l \in 1 .. Len(free) : free[k] = free[l] => k = l
  /\ Len(free) = Cardinality({i \in Slots : slots[i].session = 0})

\* What the loop has put into the fd_sets so far.
Watched(i) == i \in fds.read \cup fds.write

\* The slots that the current round has already looked at.
LookedAt == IF pc = "select" THEN Slots
            ELSE IF pc = "populate" THEN 0 .. at - 1 ELSE {}

FdSets ==
  /\ pc \in {"populate", "select"} =>
       \A i \in Slots : Watched(i) <=> i \in LookedAt /\ slots[i].session # 0
  /\ pc = "start" => fds = NoFds /\ \A i \in Slots : slots[i].session = 0

\* A connection is IDLE only while the loop handles its message.
IdleIsHandled ==
  \A i \in Slots : slots[i].session # 0 /\ slots[i].status = "IDLE"
    => at = i /\ pc \in Submitting \cup {"reply", "writable"}

\* A response that was queued behind the back of the loop is followed by a
\* wake, and so is the end of `running`.
WakeFollows ==
  /\ \A i \in LookedAt : slots[i].session # 0 /\ slots[i].status = "WRITABLE"
                           /\ i \notin fds.write
       => wake_fd \/ \E t \in Submissions : tasks[t].pc = "wake"
  /\ pc = "select" \/ (pc = "populate" /\ at # 0) =>
       running \/ wake_fd \/ stopper = "wake"

\* The barrier holds messages back only for the submission under way.
BarrierOwned ==
  /\ \A ch \in awaiting : pc \in {"submit", "release"} /\ ch = Channel
  /\ pc \in {"submit", "release"} => Channel \in awaiting
  /\ \A ch \in Channels \ awaiting : deferred[ch] = << >>
  /\ pc \notin Replying => local.held = << >>

Submitted(i) == i \in Submissions /\ tasks[i].pc # "none"

\* Message m is in a sequence of messages; it is there once at most.
Holds(q, m) == \E k \in 1 .. Len(q) : q[k] = m

Once(q, m) == \A k, l \in 1 .. Len(q) : q[k] = m /\ q[l] = m => k = l

\* Messages are about submissions of the connection that they are for.
MessagesOwn ==
  /\ \A s \in Sessions, m \in Message :
       Holds(queued[s], m) /\ m.type \in {"ack", "finished"}
         => Submitted(m.id) /\ tasks[m.id].channel[2] = s
  /\ \A ch \in Channels, m \in Message : Holds(deferred[ch], m) =>
       m.type = "finished" /\ Submitted(m.id) /\ tasks[m.id].channel = ch
  /\ \A m \in Message : Holds(local.held, m) =>
       m.type = "finished" /\ Submitted(m.id) /\ tasks[m.id].channel = Channel
  /\ local.reply.type # "finished"
  /\ local.reply.type = "ack" =>
       /\ pc \in {"release"} \cup Replying
       /\ Submitted(local.reply.id) /\ tasks[local.reply.id].channel = Channel
  /\ \A i \in Submissions : Submitted(i) => tasks[i].channel[2] < next_session_id

\* The acknowledgement of a submission is queued, or it is the next thing that
\* the loop queues; until it has left the barrier no result is on its way.
AckComes ==
  /\ \A i \in Submissions : Submitted(i) =>
       \/ Holds(queued[tasks[i].channel[2]], Msg("ack", i))
       \/ pc \in {"release", "reply"} /\ local.reply = Msg("ack", i)
  /\ pc = "release" => \A i \in Submissions : local.reply = Msg("ack", i) =>
       /\ tasks[i].pc \notin {"queue", "wake"}
       /\ \A s \in Sessions : ~ Holds(queued[s], Msg("finished", i))

\* The result of submission i is in one place at most; in no place before the
\* worker has handed it over, and in one from then on while the connection is
\* there.
OnceFor(i) ==
  LET m  == Msg("finished", i)
      ch == tasks[i].channel
  IN  /\ Once(queued[ch[2]], m) /\ Once(deferred[ch], m) /\ Once(local.held, m)
      /\ ~ (Holds(queued[ch[2]], m) /\ Holds(deferred[ch], m))
      /\ ~ (Holds(queued[ch[2]], m) /\ Holds(local.held, m))
      /\ ~ (Holds(deferred[ch], m) /\ Holds(local.held, m))
      /\ tasks[i].pc \in {"judging", "defer", "silent", "queue"} =>
           ~ Holds(queued[ch[2]], m) /\ ~ Holds(deferred[ch], m) /\ ~ Holds(local.held, m)
      /\ tasks[i].pc \in {"wake", "done"} /\ slots[ch[1]].session = ch[2] =>
           Holds(queued[ch[2]], m) \/ Holds(deferred[ch], m) \/ Holds(local.held, m)

OncePerPlace == \A i \in Submissions : Submitted(i) => OnceFor(i)

\* What is left of a response after k parts.
Rest(p, k) == SubSeq(p, k + 1, Len(p))

\* How many parts of its pending response slot i has sent; between send and
\* consume_pending_response the slot does not know of the last ones.
Bytes(i) == IF pc = "consume" /\ at = i THEN local.bytes ELSE 0

Position(i) == slots[i].offset + Bytes(i)

\* Nothing is counted as sent that was not pending, and nothing was sent on
\* the connections to come.
Positions ==
  /\ \A i \in Slots : Position(i) <= Len(slots[i].pending)
  /\ \A s \in Sessions : s >= next_session_id => queued[s] = << >> /\ sent[s] = << >>

\* StreamIntact, by positions.
Flows(i) ==
  slots[i].session # 0 =>
    sent[slots[i].session] \o Rest(slots[i].pending, Position(i))
      = FramesOf(queued[slots[i].session])

StreamsFlow == \A i \in Slots : Flows(i)

NetInv ==
  /\ NetTypeOK
  /\ LocalTypes
  /\ HandlesLive
  /\ SessionsUnique
  /\ FreeList
  /\ FdSets
  /\ IdleIsHandled
  /\ WakeFollows
  /\ BarrierOwned
  /\ MessagesOwn
  /\ AckComes
  /\ OncePerPlace
  /\ Positions
  /\ StreamsFlow
-----------------------------------------------------------------------------
(***************************************************************************)
(* One slot at a time.                                                     *)
(***************************************************************************)
\* Slot i keeps its connection and gets these values; the others are as before.
SlotBecomes(i, status, input, pending, offset) ==
  slots' = [slots EXCEPT ![i] = [session |-> slots[i].session, status |-> status,
                                 input |-> input, pending |-> pending,
                                 offset |-> offset]]

SlotsTyped == slots \in [Slots -> SlotRec]

LEMMA SlotAt ==
  ASSUME NEW i \in Slots, SlotsTyped
  PROVE  /\ slots[i] \in SlotRec
         /\ slots[i].session \in 0 .. MaxSessions
         /\ slots[i].status \in {"READABLE", "WRITABLE", "IDLE"}
         /\ slots[i].input \in Parts(Kinds)
         /\ slots[i].pending \in Parts(Message)
         /\ slots[i].offset \in Nat
BY DEF SlotsTyped, SlotRec

LEMMA SlotBecomesEffect ==
  ASSUME SlotsTyped, NEW i \in Slots,
         NEW status \in {"READABLE", "WRITABLE", "IDLE"}, NEW input \in Parts(Kinds),
         NEW pending \in Parts(Message), NEW offset \in Nat,
         SlotBecomes(i, status, input, pending, offset)
  PROVE  /\ SlotsTyped'
         /\ \A j \in Slots : slots'[j].session = slots[j].session
         /\ \A j \in Slots : j # i => slots'[j] = slots[j]
         /\ slots'[i].status = status /\ slots'[i].input = input
         /\ slots'[i].pending = pending /\ slots'[i].offset = offset
<1> DEFINE r == [session |-> slots[i].session, status |-> status, input |-> input,
                 pending |-> pending, offset |-> offset]
<1>1. r \in SlotRec /\ r.session = slots[i].session /\ r.status = status
      /\ r.input = input /\ r.pending = pending /\ r.offset = offset
  BY SlotAt DEF SlotRec
<1>2. slots' = [slots EXCEPT ![i] = r]
  BY DEF SlotBecomes
<1> HIDE DEF r
<1> QED
  BY <1>1, <1>2 DEF SlotsTyped

LEMMA SlotExcept ==
  ASSUME NEW r \in SlotRec, NEW x, NEW y
  PROVE  /\ [r EXCEPT !.status = x] =
              [session |-> r.session, status |-> x, input |-> r.input,
               pending |-> r.pending, offset |-> r.offset]
         /\ [r EXCEPT !.input = x] =
              [session |-> r.session, status |-> r.status, input |-> x,
               pending |-> r.pending, offset |-> r.offset]
         /\ [r EXCEPT !.pending = x] =
              [session |-> r.session, status |-> r.status, input |-> r.input,
               pending |-> x, offset |-> r.offset]
         /\ [r EXCEPT !.pending = x, !.status = y] =
              [session |-> r.session, status |-> y, input |-> r.input,
               pending |-> x, offset |-> r.offset]
         /\ [r EXCEPT !.pending = x, !.offset = y] =
              [session |-> r.session, status |-> r.status, input |-> r.input,
               pending |-> x, offset |-> y]
         /\ [r EXCEPT !.offset = x] =
              [session |-> r.session, status |-> r.status, input |-> r.input,
               pending |-> r.pending, offset |-> x]
<1>1. [r EXCEPT !.status = x] =
        [session |-> r.session, status |-> x, input |-> r.input,
        pending |-> r.pending, offset |-> r.offset]
  BY DEF SlotRec
<1>2. [r EXCEPT !.input = x] =
        [session |-> r.session, status |-> r.status, input |-> x,
        pending |-> r.pending, offset |-> r.offset]
  BY DEF SlotRec
<1>4. [r EXCEPT !.pending = x] =
        [session |-> r.session, status |-> r.status, input |-> r.input,
        pending |-> x, offset |-> r.offset]
  BY DEF SlotRec
<1>5. [r EXCEPT !.pending = x, !.status = y] =
        [session |-> r.session, status |-> y, input |-> r.input,
        pending |-> x, offset |-> r.offset]
  <2>1. [r EXCEPT !.pending = x, !.status = y] = [[r EXCEPT !.pending = x] EXCEPT !.status = y]
    OBVIOUS
  <2>2. [[session |-> r.session, status |-> r.status, input |-> r.input,
           pending |-> x, offset |-> r.offset] EXCEPT !.status = y] =
          [session |-> r.session, status |-> y, input |-> r.input,
           pending |-> x, offset |-> r.offset]
    OBVIOUS
  <2>3. [r EXCEPT !.pending = x] =
          [session |-> r.session, status |-> r.status, input |-> r.input,
           pending |-> x, offset |-> r.offset]
    BY DEF SlotRec
  <2> QED
    BY <2>1, <2>2, <2>3, Zenon
<1>6. [r EXCEPT !.pending = x, !.offset = y] =
        [session |-> r.session, status |-> r.status, input |-> r.input,
        pending |-> x, offset |-> y]
  <2>1. [r EXCEPT !.pending = x, !.offset = y] = [[r EXCEPT !.pending = x] EXCEPT !.offset = y]
    OBVIOUS
  <2>2. [[session |-> r.session, status |-> r.status, input |-> r.input,
           pending |-> x, offset |-> r.offset] EXCEPT !.offset = y] =
          [session |-> r.session, status |-> r.status, input |-> r.input,
           pending |-> x, offset |-> y]
    OBVIOUS
  <2>3. [r EXCEPT !.pending = x] =
          [session |-> r.session, status |-> r.status, input |-> r.input,
           pending |-> x, offset |-> r.offset]
    BY DEF SlotRec
  <2> QED
    BY <2>1, <2>2, <2>3, Zenon
<1>7. [r EXCEPT !.offset = x] =
        [session |-> r.session, status |-> r.status, input |-> r.input,
        pending |-> r.pending, offset |-> x]
  BY DEF SlotRec
<1> QED
  BY <1>1, <1>2, <1>4, <1>5, <1>6, <1>7

\* The critical sections of the registry that keep the connection of a slot.
LEMMA SetStatusBecomes ==
  ASSUME SlotsTyped, NEW i \in Slots, NEW status, SetStatus(i, status)
  PROVE  /\ SlotBecomes(i, status, slots[i].input, slots[i].pending, slots[i].offset)
         /\ free' = free
<1>1. slots' = [slots EXCEPT ![i] = [slots[i] EXCEPT !.status = status]] /\ free' = free
  BY DEF SetStatus
<1>2. [slots[i] EXCEPT !.status = status] =
        [session |-> slots[i].session, status |-> status, input |-> slots[i].input,
         pending |-> slots[i].pending, offset |-> slots[i].offset]
  BY SlotAt, SlotExcept
<1> QED
  BY <1>1, <1>2 DEF SlotBecomes

LEMMA SetPendingBecomes ==
  ASSUME SlotsTyped, NEW i \in Slots, NEW msg, set_pending_response(i, msg)
  PROVE  /\ SlotBecomes(i, slots[i].status, slots[i].input,
                        slots[i].pending \o Frame(msg), slots[i].offset)
         /\ free' = free
<1>1. /\ slots' = [slots EXCEPT ![i] = [slots[i] EXCEPT
                     !.pending = slots[i].pending \o Frame(msg)]]
      /\ free' = free
  BY DEF set_pending_response
<1>2. [slots[i] EXCEPT !.pending = slots[i].pending \o Frame(msg)] =
        [session |-> slots[i].session, status |-> slots[i].status,
         input |-> slots[i].input, pending |-> slots[i].pending \o Frame(msg),
         offset |-> slots[i].offset]
  BY SlotAt, SlotExcept
<1> QED
  BY <1>1, <1>2 DEF SlotBecomes

LEMMA SetPendingIfBecomes ==
  ASSUME SlotsTyped, NEW i \in Slots, NEW s, NEW msg,
         set_pending_response_if_session(i, s, msg)
  PROVE  /\ SlotBecomes(i, "WRITABLE", slots[i].input,
                        slots[i].pending \o Frame(msg), slots[i].offset)
         /\ free' = free
         /\ slots[i].session = s /\ s # 0
<1>1. /\ slots' = [slots EXCEPT ![i] = [slots[i] EXCEPT
                     !.pending = slots[i].pending \o Frame(msg), !.status = "WRITABLE"]]
      /\ free' = free
  BY DEF set_pending_response_if_session
<1>2. [slots[i] EXCEPT !.pending = slots[i].pending \o Frame(msg), !.status = "WRITABLE"] =
        [session |-> slots[i].session, status |-> "WRITABLE",
         input |-> slots[i].input, pending |-> slots[i].pending \o Frame(msg),
         offset |-> slots[i].offset]
  <2>1. slots[i] \in SlotRec
    BY SlotAt
  <2> QED
    BY <2>1, SlotExcept
<1> QED
  BY <1>1, <1>2 DEF SlotBecomes, set_pending_response_if_session

LEMMA ConsumeBecomes ==
  ASSUME SlotsTyped, NEW i \in Slots, NEW n, consume_pending_response(i, n)
  PROVE  /\ IF AllConsumed(i, n)
              THEN SlotBecomes(i, slots[i].status, slots[i].input, << >>, 0)
              ELSE SlotBecomes(i, slots[i].status, slots[i].input,
                               slots[i].pending, slots[i].offset + n)
         /\ free' = free
<1>1. CASE AllConsumed(i, n)
  <2>1. slots' = [slots EXCEPT ![i] = [slots[i] EXCEPT !.pending = << >>, !.offset = 0]]
        /\ free' = free
    BY <1>1 DEF consume_pending_response
  <2>2. [slots[i] EXCEPT !.pending = << >>, !.offset = 0] =
          [session |-> slots[i].session, status |-> slots[i].status,
           input |-> slots[i].input, pending |-> << >>, offset |-> 0]
    <3>1. slots[i] \in SlotRec
      BY SlotAt
    <3> QED
      BY <3>1, SlotExcept
  <2> QED
    BY <1>1, <2>1, <2>2 DEF SlotBecomes
<1>2. CASE ~ AllConsumed(i, n)
  <2>1. slots' = [slots EXCEPT ![i] = [slots[i] EXCEPT !.offset = slots[i].offset + n]]
        /\ free' = free
    BY <1>2 DEF consume_pending_response
  <2>2. [slots[i] EXCEPT !.offset = slots[i].offset + n] =
          [session |-> slots[i].session, status |-> slots[i].status,
           input |-> slots[i].input, pending |-> slots[i].pending,
           offset |-> slots[i].offset + n]
    BY SlotAt, SlotExcept
  <2> QED
    BY <1>2, <2>1, <2>2 DEF SlotBecomes
<1> QED
  BY <1>1, <1>2

\* A frame is two parts.
LEMMA FrameType ==
  ASSUME NEW m \in Message
  PROVE  Frame(m) \in Parts(Message) /\ Len(Frame(m)) = 2
BY DEF Frame, Parts

LEMMA PartsConcat ==
  ASSUME NEW X, NEW p \in Parts(X), NEW q \in Parts(X)
  PROVE  p \o q \in Parts(X)
BY ConcatProperties DEF Parts

\* A part of a sequence of parts.
LEMMA PartsSubSeq ==
  ASSUME NEW X, NEW p \in Parts(X), NEW m \in Nat \ {0}, NEW n \in 0 .. Len(p)
  PROVE  SubSeq(p, m, n) \in Parts(X)
<1>1. p \in Seq(X \X {1, 2}) /\ Len(p) \in Nat
  BY LenProperties DEF Parts
<1>2. \A i \in m .. n : p[i] \in X \X {1, 2}
  BY <1>1, ElementOfSeq
<1>3. SubSeq(p, m, n) \in Seq(X \X {1, 2})
  BY <1>1, <1>2, SubSeqProperties
<1> QED
  BY <1>3 DEF Parts
-----------------------------------------------------------------------------
(***************************************************************************)
(* Types.                                                                  *)
(***************************************************************************)
RegistryTypes == SlotsTyped /\ free \in Seq(Slots)

BarrierTypes == awaiting \subseteq Channels /\ deferred \in [Channels -> Seq(Message)]

KernelTypes ==
  /\ conn \in [Sessions -> ConnStates]
  /\ client \in [begun : 0 .. MaxRequests, half : [Sessions -> Kinds \cup {"none"}]]
  /\ inbox \in [Sessions -> Parts(Kinds)]
  /\ sent \in [Sessions -> Parts(Message)]
  /\ wake_fd \in BOOLEAN

FdsType == [read : SUBSET Slots, write : SUBSET Slots, accept : BOOLEAN, wake : BOOLEAN]

LocalRec == [reply : Message, held : Seq(Message), bytes : Nat]

LoopTypes ==
  /\ at \in Slots
  /\ fds \in FdsType
  /\ local \in LocalRec
  /\ next_session_id \in 1 .. MaxSessions + 1
  /\ running \in BOOLEAN
  /\ stopper \in {"ready", "wake", "done"}

QueuedTypes == queued \in [Sessions -> Seq(Message)]

LEMMA TypeParts ==
  NetTypeOK <=> RegistryTypes /\ BarrierTypes /\ KernelTypes /\ LoopTypes /\ QueuedTypes
BY DEF NetTypeOK, RegistryTypes, SlotsTyped, SlotRec, BarrierTypes, KernelTypes,
       LoopTypes, FdsType, LocalRec, QueuedTypes

Typed == NetTypeOK /\ LocalTypes /\ HandlesLive

LEMMA SlotNumbers ==
  /\ SlotCount \in Nat \ {0} /\ 0 \in Slots /\ SlotCount - 1 \in Slots
  /\ \A i \in Slots : i \in Nat /\ i < SlotCount
  /\ \A i \in Slots : i # SlotCount - 1 => i + 1 \in Slots
BY RegistryAssumption DEF Slots

LEMMA MessageType ==
  ASSUME NEW t \in {"ack", "finished", "result", "error"}, NEW i \in 0 .. MaxSubmissions
  PROVE  Msg(t, i) \in Message /\ Msg(t, i).type = t /\ Msg(t, i).id = i
BY DEF Msg, Message

LEMMA NoLocalType == NoLocal \in LocalRec /\ NoFds \in FdsType
<1>1. Msg("error", 0) \in Message
  BY MessageType, NetworkAssumption
<1> QED
  BY <1>1 DEF NoLocal, LocalRec, NoFds, FdsType

\* What the loop knows while it handles an event.
LEMMA HandlingFacts ==
  ASSUME Typed
  PROVE  /\ SlotsTyped /\ at \in Slots
         /\ Session \in 0 .. MaxSessions
         /\ pc \in Handling => Session \in Sessions /\ Channel \in Channels
         /\ Session # 0 => Session \in Sessions /\ Channel \in Channels
         /\ local \in LocalRec /\ fds \in FdsType
         /\ local.reply \in Message /\ local.held \in Seq(Message) /\ local.bytes \in Nat
<1>1. SlotsTyped /\ at \in Slots /\ local \in LocalRec /\ fds \in FdsType
  BY TypeParts DEF Typed, RegistryTypes, LoopTypes
<1>2. Session \in 0 .. MaxSessions
  BY <1>1, SlotAt DEF Session
<1>3. Session # 0 => Session \in Sessions
  BY <1>2, NetworkAssumption DEF Sessions
<1>4. Session # 0 => Channel \in Channels
  BY <1>1, <1>3, NetworkAssumption DEF Channel, Sessions
<1>5. pc \in Handling => Session # 0
  BY DEF Typed, HandlesLive, Session
<1> QED
  BY <1>1, <1>2, <1>3, <1>4, <1>5 DEF LocalRec

\* The loop goes on with the next slot or the next round.
LEMMA LeaveEventEffect ==
  ASSUME at \in Slots, fds \in FdsType, LeaveEvent
  PROVE  /\ at' \in Slots /\ fds' \in FdsType /\ local' = NoLocal /\ local' \in LocalRec
         /\ \/ pc' = "populate" /\ at' = 0 /\ fds' = NoFds
            \/ pc' = "events" /\ at' = at + 1 /\ fds' = fds
BY SlotNumbers, NoLocalType DEF LeaveEvent

\* The same for a pass over the slots.
LEMMA NextSlotEffect ==
  ASSUME at \in Slots, NEW after, NextSlot(after)
  PROVE  /\ at' \in Slots
         /\ \/ at = SlotCount - 1 /\ at' = 0 /\ pc' = after
            \/ at # SlotCount - 1 /\ at' = at + 1 /\ pc' = pc
BY SlotNumbers DEF NextSlot
-----------------------------------------------------------------------------
(***************************************************************************)
(* Which steps touch what.                                                 *)
(***************************************************************************)
\* Steps that leave the slots, the messages and the tasks alone.
Elsewhere ==
  \/ /\ \/ \E s \in Sessions : Connect(s) \/ ArriveHead(s) \/ ArriveBody(s) \/ Disconnect(s)
        \/ LoopEnds \/ Populate \/ Select \/ SelectFails \/ drain_wake_fd
     /\ UNCHANGED stopVars
  \/ Start \/ StopBegins \/ StopWakes

\* Steps of the loop that look at a slot and do nothing about it.
Passing == SkipSlot \/ WriteBegins \/ SendBlocks \/ SendKills

\* The other steps of the loop, by the slot `at`.
Serving ==
  \/ Accept \/ ReadFails \/ ReadMessage \/ MarkWaiting \/ SubmitAsync
  \/ ReleaseBarrier \/ QueueReply \/ SetWritable \/ QueueHeld \/ SendSome
  \/ SendFails \/ Consume \/ SetReadable

LEMMA StepKinds ==
  ASSUME NetNext
  PROVE  \/ Elsewhere
         \/ /\ Passing \/ Serving \/ \E i \in Submissions : WorkerHook(i)
            /\ UNCHANGED stopVars
BY DEF NetNext, ClientStep, LoopStep, Elsewhere, Passing, Serving

LEMMA ElsewhereKeeps ==
  ASSUME Elsewhere
  PROVE  UNCHANGED <<registryVars, barrierVars, sent, local, next_session_id, tasks, queued>>
BY DEF Elsewhere, Connect, ArriveHead, ArriveBody, Disconnect, Start, LoopEnds,
       Populate, Select, SelectFails, drain_wake_fd, StopBegins, StopWakes,
       kernelVars, loopVars, stopVars

LEMMA PassingKeeps ==
  ASSUME Passing
  PROVE  /\ UNCHANGED <<registryVars, barrierVars, kernelVars, next_session_id, tasks, queued>>
         /\ \/ LeaveEvent
            \/ /\ UNCHANGED <<at, fds, local>>
               /\ pc' \in {"readable", "send", "dead"}
BY DEF Passing, SkipSlot, WriteBegins, SendBlocks, SendKills

LEMMA EmptySlotType ==
  /\ EmptySlot \in SlotRec /\ EmptySlot.session = 0 /\ EmptySlot.status = "READABLE"
  /\ EmptySlot.pending = << >> /\ EmptySlot.offset = 0
  /\ \A s \in Sessions :
       /\ ConnectedSlot(s) \in SlotRec /\ ConnectedSlot(s).session = s
       /\ ConnectedSlot(s).status = "READABLE" /\ ConnectedSlot(s).pending = << >>
       /\ ConnectedSlot(s).offset = 0
<1>1. << >> \in Parts(Kinds) /\ << >> \in Parts(Message) /\ 0 \in 0 .. MaxSessions
  BY EmptySeq, NetworkAssumption DEF Parts
<1>2. EmptySlot \in SlotRec /\ EmptySlot.session = 0 /\ EmptySlot.status = "READABLE"
      /\ EmptySlot.pending = << >> /\ EmptySlot.offset = 0
  BY <1>1 DEF EmptySlot, SlotRec
<1>3. ASSUME NEW s \in Sessions
      PROVE  /\ ConnectedSlot(s) \in SlotRec /\ ConnectedSlot(s).session = s
             /\ ConnectedSlot(s).status = "READABLE" /\ ConnectedSlot(s).pending = << >>
             /\ ConnectedSlot(s).offset = 0
  <2>1. s \in 0 .. MaxSessions
    BY NetworkAssumption DEF Sessions
  <2> QED
    BY <1>2, <2>1 DEF ConnectedSlot, SlotRec
<1> QED
  BY <1>2, <1>3

\* A connection is released.
LEMMA ReleaseEffect ==
  ASSUME Typed, ReleaseConnection, Session # 0
  PROVE  /\ RegistryTypes'
         /\ slots' = [slots EXCEPT ![at] = EmptySlot]
         /\ free' = Append(free, at)
         /\ conn' = [conn EXCEPT ![Session] = "closed"]
         /\ LeaveEvent
<1>1. SlotsTyped /\ free \in Seq(Slots) /\ at \in Slots
  BY TypeParts DEF Typed, RegistryTypes, LoopTypes
<1>2. /\ slots' = [slots EXCEPT ![at] = EmptySlot] /\ free' = Append(free, at)
      /\ conn' = [conn EXCEPT ![Session] = "closed"] /\ LeaveEvent
  BY DEF ReleaseConnection, release_slot
<1>3. SlotsTyped'
  BY <1>1, <1>2, EmptySlotType DEF SlotsTyped
<1>4. free' \in Seq(Slots)
  BY <1>1, <1>2
<1> QED
  BY <1>2, <1>3, <1>4 DEF RegistryTypes

\* A connection is accepted, or refused, or stays in the listen queue.
LEMMA AcceptEffect ==
  ASSUME Typed, Accept
  PROVE  /\ RegistryTypes'
         /\ pc = "accept" /\ pc' = "events"
         /\ UNCHANGED <<barrierVars, client, inbox, wake_fd, at, fds, local, tasks, queued>>
         /\ \/ /\ free # << >> /\ Head(free) \in Slots /\ Acceptable
               /\ next_session_id \in Sessions
               /\ slots' = [slots EXCEPT ![Head(free)] = ConnectedSlot(next_session_id)]
               /\ free' = Tail(free) /\ next_session_id' = next_session_id + 1
               /\ UNCHANGED <<conn, sent>>
            \/ /\ free = << >> /\ Acceptable /\ next_session_id \in Sessions
               /\ send_connection_limit_error_and_close(next_session_id)
               /\ next_session_id' = next_session_id + 1
               /\ UNCHANGED registryVars
            \/ UNCHANGED <<next_session_id, registryVars, conn, sent>>
<1>0. /\ SlotsTyped /\ free \in Seq(Slots) /\ next_session_id \in 1 .. MaxSessions + 1
      /\ MaxSessions \in Nat
  BY TypeParts, NetworkAssumption DEF Typed, RegistryTypes, LoopTypes
<1>1. pc = "accept" /\ pc' = "events"
      /\ UNCHANGED <<barrierVars, client, inbox, wake_fd, at, fds, local, tasks, queued>>
  BY DEF Accept
<1>2. CASE UNCHANGED <<next_session_id, registryVars, conn, sent>>
  BY <1>0, <1>1, <1>2 DEF registryVars, RegistryTypes, SlotsTyped
<1>3. CASE fds.accept /\ register_client_socket
  <2>1. Acceptable /\ next_session_id \in Sessions
    BY <1>0, <1>1, <1>3 DEF Typed, HandlesLive, Acceptable, Sessions
  <2>2. next_session_id' = next_session_id + 1
    BY <1>3 DEF register_client_socket
  <2>3. CASE acquire_slot(next_session_id) /\ UNCHANGED <<conn, sent>>
    <3>1. /\ free # << >>
          /\ slots' = [slots EXCEPT ![Head(free)] = ConnectedSlot(next_session_id)]
          /\ free' = Tail(free)
      BY <2>3 DEF acquire_slot
    <3>2. Head(free) \in Slots /\ Tail(free) \in Seq(Slots)
      BY <1>0, <3>1, HeadTailProperties
    <3>3. ConnectedSlot(next_session_id) \in SlotRec
      BY <2>1, EmptySlotType
    <3>4. SlotsTyped'
      BY <1>0, <3>1, <3>2, <3>3 DEF SlotsTyped
    <3> QED
      BY <1>1, <2>1, <2>2, <2>3, <3>1, <3>2, <3>4 DEF RegistryTypes
  <2>4. CASE /\ free = << >>
             /\ send_connection_limit_error_and_close(next_session_id)
             /\ UNCHANGED registryVars
    <3>1. RegistryTypes'
      BY <1>0, <2>4 DEF registryVars, RegistryTypes, SlotsTyped
    <3> QED
      BY <1>1, <2>1, <2>2, <2>4, <3>1
  <2> QED
    BY <1>3, <2>3, <2>4 DEF register_client_socket
<1> QED
  BY <1>1, <1>2, <1>3 DEF Accept

LEMMA TakenInput ==
  ASSUME NEW r \in SlotRec, NEW x
  PROVE  [r EXCEPT !.input = x, !.status = "IDLE"] =
           [session |-> r.session, status |-> "IDLE", input |-> x,
            pending |-> r.pending, offset |-> r.offset]
<1>1. [r EXCEPT !.input = x, !.status = "IDLE"]
        = [[r EXCEPT !.input = x] EXCEPT !.status = "IDLE"]
  OBVIOUS
<1>2. [[session |-> r.session, status |-> r.status, input |-> x,
        pending |-> r.pending, offset |-> r.offset] EXCEPT !.status = "IDLE"] =
        [session |-> r.session, status |-> "IDLE", input |-> x,
         pending |-> r.pending, offset |-> r.offset]
  OBVIOUS
<1>3. [r EXCEPT !.input = x] =
        [session |-> r.session, status |-> r.status, input |-> x,
         pending |-> r.pending, offset |-> r.offset]
  BY DEF SlotRec
<1> QED
  BY <1>1, <1>2, <1>3, Zenon

\* A read takes a message out of the input, or only adds to it.
LEMMA ReadMessageEffect ==
  ASSUME Typed, ReadMessage
  PROVE  /\ RegistryTypes' /\ inbox' \in [Sessions -> Parts(Kinds)]
         /\ pc = "events" /\ Session # 0 /\ at \in fds.read
         /\ UNCHANGED <<free, barrierVars, conn, client, sent, wake_fd,
                        next_session_id, tasks, queued>>
         /\ \A j \in Slots : /\ slots'[j].session = slots[j].session
                             /\ slots'[j].pending = slots[j].pending
                             /\ slots'[j].offset = slots[j].offset
                             /\ j # at => slots'[j] = slots[j]
         /\ \/ /\ slots'[at].status = "IDLE"
               /\ \E r \in {Msg("result", 0), Msg("error", 0)} :
                    local' = [local EXCEPT !.reply = r]
               /\ pc' \in {"mark", "reply"}
               /\ UNCHANGED <<at, fds>>
            \/ slots'[at].status = slots[at].status /\ LeaveEvent
<1> DEFINE more == slots[at].input \o inbox[Session]
<1>0. /\ SlotsTyped /\ at \in Slots /\ free \in Seq(Slots)
      /\ inbox \in [Sessions -> Parts(Kinds)]
  BY TypeParts DEF Typed, RegistryTypes, LoopTypes, KernelTypes
<1>1. /\ pc = "events" /\ Session # 0 /\ at \in fds.read
      /\ UNCHANGED <<free, barrierVars, conn, client, sent, wake_fd,
                     next_session_id, tasks, queued>>
      /\ inbox' = [inbox EXCEPT ![Session] = << >>]
  BY DEF ReadMessage, HasEvent, Session
<1>2. Session \in Sessions
  BY <1>1, HandlingFacts
<1>3. inbox' \in [Sessions -> Parts(Kinds)]
  <2>1. << >> \in Parts(Kinds)
    BY EmptySeq DEF Parts
  <2> QED
    BY <1>0, <1>1, <2>1
<1>4. more \in Parts(Kinds) /\ Len(more) \in Nat
  <2>1. slots[at].input \in Parts(Kinds) /\ inbox[Session] \in Parts(Kinds)
    BY <1>0, <1>2, SlotAt
  <2>2. more \in Parts(Kinds)
    BY <2>1, PartsConcat
  <2> QED
    BY <2>2, LenProperties DEF Parts
<1> DEFINE old == slots[at]
<1>5. /\ old \in SlotRec /\ old.status \in {"READABLE", "WRITABLE", "IDLE"}
      /\ old.pending \in Parts(Message) /\ old.offset \in Nat
  BY <1>0, SlotAt
<1>6. CASE Len(more) >= 2
  <2>1. /\ slots' = [slots EXCEPT ![at] = [slots[at] EXCEPT
                       !.input = SubSeq(more, 3, Len(more)), !.status = "IDLE"]]
        /\ \E r \in Replies(more[1][1]) : local' = [local EXCEPT !.reply = r]
        /\ pc' = Handler(more[1][1])
        /\ UNCHANGED <<at, fds>>
    BY <1>6 DEF ReadMessage
  <2> DEFINE rest == SubSeq(more, 3, Len(more))
  <2>2. rest \in Parts(Kinds)
    <3> HIDE DEF more
    <3>1. 3 \in Nat \ {0} /\ Len(more) \in 0 .. Len(more)
      BY <1>4
    <3> QED
      BY <1>4, <3>1, PartsSubSeq
  <2> HIDE DEF rest
  <2>3. SlotBecomes(at, "IDLE", rest, old.pending, old.offset)
    <3>1. slots' = [slots EXCEPT ![at] = [old EXCEPT !.input = rest, !.status = "IDLE"]]
      BY <2>1 DEF rest
    <3>2. [old EXCEPT !.input = rest, !.status = "IDLE"] =
            [session |-> old.session, status |-> "IDLE", input |-> rest,
             pending |-> old.pending, offset |-> old.offset]
      <4> HIDE DEF old
      <4> QED
        BY <1>5, TakenInput
    <3> QED
      BY <3>1, <3>2 DEF SlotBecomes
  <2>4. /\ SlotsTyped'
        /\ \A j \in Slots : slots'[j].session = slots[j].session
        /\ \A j \in Slots : j # at => slots'[j] = slots[j]
        /\ slots'[at].status = "IDLE"
        /\ slots'[at].pending = old.pending /\ slots'[at].offset = old.offset
    BY <1>0, <1>5, <2>2, <2>3, SlotBecomesEffect
  <2>5. pc' \in {"mark", "reply"}
    BY <2>1 DEF Handler
  <2>6. \E r \in {Msg("result", 0), Msg("error", 0)} : local' = [local EXCEPT !.reply = r]
    BY <2>1 DEF Replies, handleQuery
  <2> QED
    BY <1>0, <1>1, <1>3, <2>1, <2>4, <2>5, <2>6 DEF RegistryTypes
<1>7. CASE ~ (Len(more) >= 2)
  <2>1. slots' = [slots EXCEPT ![at] = [slots[at] EXCEPT !.input = more]] /\ LeaveEvent
    BY <1>7 DEF ReadMessage
  <2> HIDE DEF more
  <2>3. SlotBecomes(at, old.status, more, old.pending, old.offset)
    <3>2. [old EXCEPT !.input = more] =
            [session |-> old.session, status |-> old.status, input |-> more,
             pending |-> old.pending, offset |-> old.offset]
      BY <1>5, SlotExcept
    <3> QED
      BY <2>1, <3>2 DEF SlotBecomes
  <2>4. /\ SlotsTyped'
        /\ \A j \in Slots : slots'[j].session = slots[j].session
        /\ \A j \in Slots : j # at => slots'[j] = slots[j]
        /\ slots'[at].status = old.status
        /\ slots'[at].pending = old.pending /\ slots'[at].offset = old.offset
    BY <1>0, <1>4, <1>5, <2>3, SlotBecomesEffect
  <2> QED
    BY <1>0, <1>1, <1>3, <2>1, <2>4 DEF RegistryTypes
<1> QED
  BY <1>6, <1>7

\* The response is queued by the loop.
LEMMA QueueReplyEffect ==
  ASSUME Typed, QueueReply
  PROVE  /\ RegistryTypes' /\ QueuedTypes'
         /\ pc = "reply" /\ pc' = "writable" /\ Session \in Sessions
         /\ UNCHANGED <<free, barrierVars, kernelVars, at, fds, local, next_session_id, tasks>>
         /\ queued' = [queued EXCEPT ![Session] = Append(queued[Session], local.reply)]
         /\ \A j \in Slots : /\ slots'[j].session = slots[j].session
                             /\ slots'[j].status = slots[j].status
                             /\ slots'[j].offset = slots[j].offset
                             /\ j # at => slots'[j] = slots[j]
         /\ slots'[at].pending = slots[at].pending \o Frame(local.reply)
<1>0. /\ SlotsTyped /\ at \in Slots /\ free \in Seq(Slots) /\ local.reply \in Message
      /\ queued \in [Sessions -> Seq(Message)]
  BY TypeParts, HandlingFacts DEF Typed, RegistryTypes, LoopTypes, QueuedTypes
<1>1. /\ pc = "reply" /\ pc' = "writable"
      /\ UNCHANGED <<free, barrierVars, kernelVars, at, fds, local, next_session_id, tasks>>
      /\ queued' = [queued EXCEPT ![Session] = Append(queued[Session], local.reply)]
      /\ set_pending_response(at, local.reply)
  BY DEF QueueReply, set_pending_response
<1>2. Session \in Sessions
  BY <1>1, HandlingFacts DEF Handling, Replying
<1>3. QueuedTypes'
  <2>1. Append(queued[Session], local.reply) \in Seq(Message)
    BY <1>0, <1>2
  <2> QED
    BY <1>0, <1>1, <2>1 DEF QueuedTypes
<1> DEFINE old == slots[at]
           new == old.pending \o Frame(local.reply)
<1>4. SlotBecomes(at, old.status, old.input, new, old.offset)
  BY <1>0, <1>1, SetPendingBecomes
<1>5. /\ old.status \in {"READABLE", "WRITABLE", "IDLE"} /\ old.input \in Parts(Kinds)
      /\ new \in Parts(Message) /\ old.offset \in Nat
  BY <1>0, SlotAt, FrameType, PartsConcat
<1> HIDE DEF new
<1>6. /\ SlotsTyped'
      /\ \A j \in Slots : slots'[j].session = slots[j].session
      /\ \A j \in Slots : j # at => slots'[j] = slots[j]
      /\ slots'[at].status = old.status
      /\ slots'[at].pending = new /\ slots'[at].offset = old.offset
  BY <1>0, <1>4, <1>5, SlotBecomesEffect
<1> QED
  BY <1>0, <1>1, <1>2, <1>3, <1>6 DEF RegistryTypes, new

\* A response is queued for the connection of slot i, by the loop or a worker.
LEMMA QueueIfEffect ==
  ASSUME Typed, NEW i \in Slots, NEW s, NEW m \in Message,
         set_pending_response_if_session(i, s, m),
         queued' = [queued EXCEPT ![s] = Append(queued[s], m)]
  PROVE  /\ RegistryTypes' /\ QueuedTypes' /\ s \in Sessions
         /\ slots[i].session = s /\ free' = free
         /\ \A j \in Slots : /\ slots'[j].session = slots[j].session
                             /\ slots'[j].offset = slots[j].offset
                             /\ j # i => slots'[j] = slots[j]
         /\ slots'[i].status = "WRITABLE"
         /\ slots'[i].pending = slots[i].pending \o Frame(m)
<1>0. /\ SlotsTyped /\ free \in Seq(Slots) /\ queued \in [Sessions -> Seq(Message)]
  BY TypeParts DEF Typed, RegistryTypes, QueuedTypes
<1> DEFINE old == slots[i]
           new == old.pending \o Frame(m)
<1>1. /\ SlotBecomes(i, "WRITABLE", old.input, new, old.offset) /\ free' = free
      /\ old.session = s /\ s # 0
  BY <1>0, SetPendingIfBecomes
<1>2. s \in Sessions
  BY <1>0, <1>1, SlotAt, NetworkAssumption DEF Sessions
<1>3. QueuedTypes'
  <2>1. Append(queued[s], m) \in Seq(Message)
    BY <1>0, <1>2
  <2> QED
    BY <1>0, <2>1 DEF QueuedTypes
<1>4. /\ old.input \in Parts(Kinds) /\ new \in Parts(Message) /\ old.offset \in Nat
  BY <1>0, SlotAt, FrameType, PartsConcat
<1> HIDE DEF new
<1>5. /\ SlotsTyped'
      /\ \A j \in Slots : slots'[j].session = slots[j].session
      /\ \A j \in Slots : j # i => slots'[j] = slots[j]
      /\ slots'[i].status = "WRITABLE"
      /\ slots'[i].pending = new /\ slots'[i].offset = old.offset
  BY <1>0, <1>1, <1>4, SlotBecomesEffect
<1> QED
  BY <1>0, <1>1, <1>2, <1>3, <1>5 DEF RegistryTypes, new

\* The status of the slot is set at the end of a handler.
LEMMA StatusEffect ==
  ASSUME Typed, NEW status \in {"READABLE", "WRITABLE"}, SetStatus(at, status)
  PROVE  /\ RegistryTypes' /\ free' = free
         /\ \A j \in Slots : /\ slots'[j].session = slots[j].session
                             /\ slots'[j].offset = slots[j].offset
                             /\ slots'[j].pending = slots[j].pending
                             /\ j # at => slots'[j] = slots[j]
         /\ slots'[at].status = status
<1>0. SlotsTyped /\ at \in Slots /\ free \in Seq(Slots)
  BY TypeParts DEF Typed, RegistryTypes, LoopTypes
<1> DEFINE old == slots[at]
<1>1. SlotBecomes(at, status, old.input, old.pending, old.offset) /\ free' = free
  BY <1>0, SetStatusBecomes
<1>2. /\ old.input \in Parts(Kinds) /\ old.pending \in Parts(Message) /\ old.offset \in Nat
  BY <1>0, SlotAt
<1>3. /\ SlotsTyped'
      /\ \A j \in Slots : slots'[j].session = slots[j].session
      /\ \A j \in Slots : j # at => slots'[j] = slots[j]
      /\ slots'[at].status = status
      /\ slots'[at].pending = old.pending /\ slots'[at].offset = old.offset
  BY <1>0, <1>1, <1>2, SlotBecomesEffect
<1> QED
  BY <1>0, <1>1, <1>3 DEF RegistryTypes

\* What was sent is taken out of the pending response.
LEMMA ConsumeEffect ==
  ASSUME Typed, Consume
  PROVE  /\ RegistryTypes' /\ free' = free
         /\ \A j \in Slots : /\ slots'[j].session = slots[j].session
                             /\ slots'[j].status = slots[j].status
                             /\ j # at => slots'[j] = slots[j]
         /\ IF AllConsumed(at, local.bytes)
              THEN /\ slots'[at].pending = << >> /\ slots'[at].offset = 0
                   /\ pc' = "readable" /\ UNCHANGED <<at, fds, local>>
              ELSE /\ slots'[at].pending = slots[at].pending
                   /\ slots'[at].offset = slots[at].offset + local.bytes
                   /\ LeaveEvent
<1>0. SlotsTyped /\ at \in Slots /\ free \in Seq(Slots) /\ local.bytes \in Nat
  BY TypeParts, HandlingFacts DEF Typed, RegistryTypes, LoopTypes
<1> DEFINE old == slots[at]
<1>1. /\ old.status \in {"READABLE", "WRITABLE", "IDLE"} /\ old.input \in Parts(Kinds)
      /\ old.pending \in Parts(Message) /\ old.offset \in Nat
      /\ old.offset + local.bytes \in Nat /\ << >> \in Parts(Message)
  BY <1>0, SlotAt, EmptySeq DEF Parts
<1>2. consume_pending_response(at, local.bytes)
  BY DEF Consume
<1>3. CASE AllConsumed(at, local.bytes)
  <2>1. SlotBecomes(at, old.status, old.input, << >>, 0) /\ free' = free
    BY <1>0, <1>2, <1>3, ConsumeBecomes
  <2>2. /\ SlotsTyped'
        /\ \A j \in Slots : slots'[j].session = slots[j].session
        /\ \A j \in Slots : j # at => slots'[j] = slots[j]
        /\ slots'[at].status = old.status
        /\ slots'[at].pending = << >> /\ slots'[at].offset = 0
    BY <1>0, <1>1, <2>1, SlotBecomesEffect
  <2> QED
    BY <1>0, <1>3, <2>1, <2>2 DEF Consume, RegistryTypes
<1>4. CASE ~ AllConsumed(at, local.bytes)
  <2>1. /\ SlotBecomes(at, old.status, old.input, old.pending, old.offset + local.bytes)
        /\ free' = free
    BY <1>0, <1>2, <1>4, ConsumeBecomes
  <2>2. /\ SlotsTyped'
        /\ \A j \in Slots : slots'[j].session = slots[j].session
        /\ \A j \in Slots : j # at => slots'[j] = slots[j]
        /\ slots'[at].status = old.status
        /\ slots'[at].pending = old.pending
        /\ slots'[at].offset = old.offset + local.bytes
    BY <1>0, <1>1, <2>1, SlotBecomesEffect
  <2> QED
    BY <1>0, <1>4, <2>1, <2>2 DEF Consume, RegistryTypes
<1> QED
  BY <1>3, <1>4

LEMMA LongTail ==
  ASSUME NEW X, NEW q \in Seq(X), Len(q) # 1, q # << >>
  PROVE  Len(q) > 1 /\ Tail(q) # << >>
<1>1. Len(q) \in Nat /\ Len(q) # 0
  BY EmptySeq, LenProperties
<1>2. Len(Tail(q)) = Len(q) - 1
  BY HeadTailProperties
<1>3. Len(Tail(q)) # 0
  BY <1>1, <1>2
<1>4. Len(<< >>) = 0
  OBVIOUS
<1>5. Tail(q) # << >>
  BY <1>3, <1>4, Zenon
<1>6. \A n \in Nat : n # 0 /\ n # 1 => n > 1
  OBVIOUS
<1> QED
  BY <1>5, <1>6

\* A message that was held back is queued.
LEMMA QueueHeldEffect ==
  ASSUME Typed, QueueHeld
  PROVE  LET m == Head(local.held)
         IN  /\ m \in Message /\ local.held # << >> /\ Session \in Sessions
             /\ set_pending_response_if_session(at, Session, m)
             /\ queued' = [queued EXCEPT ![Session] = Append(queued[Session], m)]
             /\ UNCHANGED <<barrierVars, conn, client, inbox, sent, next_session_id, tasks>>
             /\ pc = "held" /\ wake_fd' = TRUE
             /\ \/ Len(local.held) = 1 /\ LeaveEvent
                \/ /\ Len(local.held) > 1 /\ Tail(local.held) # << >>
                   /\ local' = [local EXCEPT !.held = Tail(local.held)]
                   /\ UNCHANGED <<pc, at, fds>>
<1>0. local.held \in Seq(Message) /\ local.held # << >> /\ Session \in Sessions
  BY HandlingFacts DEF Typed, HandlesLive, QueueHeld, Handling, Replying
<1>1. Head(local.held) \in Message /\ Len(local.held) \in Nat \ {0}
  BY <1>0, HeadTailProperties, EmptySeq
<1>2. Len(local.held) # 1 => Len(local.held) > 1 /\ Tail(local.held) # << >>
  BY <1>0, <1>1, LongTail
<1> QED
  BY <1>0, <1>1, <1>2 DEF QueueHeld

\* What a worker does in the hook of submission i.
WorkerMoves(i, from, to) ==
  /\ tasks[i].pc = from
  /\ tasks' = [tasks EXCEPT ![i] = [channel |-> tasks[i].channel, pc |-> to]]

LEMMA WorkerAtMoves ==
  ASSUME LocalTypes, NEW i \in Submissions, NEW from, NEW to, WorkerAt(i, from, to)
  PROVE  WorkerMoves(i, from, to) /\ pc # "dead"
<1>1. tasks[i] \in [channel : Channels \cup {<<0, 0>>}, pc : TaskStates]
  BY DEF LocalTypes
<1>2. [tasks[i] EXCEPT !.pc = to] = [channel |-> tasks[i].channel, pc |-> to]
  BY <1>1
<1> QED
  BY <1>2 DEF WorkerAt, WorkerMoves

LEMMA WorkerEffect ==
  ASSUME Typed, NEW i \in Submissions, WorkerHook(i)
  PROVE  /\ UNCHANGED <<conn, client, inbox, sent, loopVars, free>>
         /\ tasks[i].channel \in Channels /\ tasks[i].pc # "none"
         /\ tasks[i].channel[1] \in Slots /\ tasks[i].channel[2] \in Sessions
         /\ Msg("finished", i) \in Message
         /\ \/ /\ WorkerMoves(i, "judging", "defer") \/ WorkerMoves(i, "judging", "silent")
               /\ UNCHANGED <<slots, awaiting, deferred, wake_fd, queued>>
            \/ /\ WorkerMoves(i, "defer", "done")
               /\ tasks[i].channel \in awaiting /\ awaiting' = awaiting
               /\ deferred' = [deferred EXCEPT ![tasks[i].channel] =
                                 Append(deferred[tasks[i].channel], Msg("finished", i))]
               /\ UNCHANGED <<slots, wake_fd, queued>>
            \/ /\ WorkerMoves(i, "defer", "queue") /\ tasks[i].channel \notin awaiting
               /\ UNCHANGED <<slots, awaiting, deferred, wake_fd, queued>>
            \/ /\ WorkerMoves(i, "queue", "wake")
               /\ set_pending_response_if_session(tasks[i].channel[1], tasks[i].channel[2],
                                                  Msg("finished", i))
               /\ queued' = [queued EXCEPT ![tasks[i].channel[2]] =
                               Append(queued[tasks[i].channel[2]], Msg("finished", i))]
               /\ UNCHANGED <<awaiting, deferred, wake_fd>>
            \/ /\ WorkerMoves(i, "queue", "done")
               /\ slots[tasks[i].channel[1]].session # tasks[i].channel[2]
               /\ UNCHANGED <<slots, awaiting, deferred, wake_fd, queued>>
            \/ /\ WorkerMoves(i, "wake", "done") /\ wake_fd' = TRUE
               /\ UNCHANGED <<slots, awaiting, deferred, queued>>
<1>0. LocalTypes
  BY DEF Typed
<1>1. tasks[i].pc # "none"
  BY DEF WorkerHook, HookBegins, TryDefer, QueueIfSession, WakeSelectLoop, WorkerAt
<1>2. tasks[i].channel \in Channels
  BY <1>1, <1>0 DEF LocalTypes
<1>3. tasks[i].channel[1] \in Slots /\ tasks[i].channel[2] \in Sessions
  BY <1>2, NetworkAssumption DEF Sessions
<1>4. Msg("finished", i) \in Message
  BY MessageType, NetworkAssumption DEF Submissions
<1>5. CASE HookBegins(i)
  BY <1>0, <1>1, <1>2, <1>3, <1>4, <1>5, WorkerAtMoves
  DEF HookBegins, registryVars, barrierVars, kernelVars
<1>6. CASE TryDefer(i)
  <2>1. UNCHANGED <<registryVars, kernelVars, loopVars, queued>>
    BY <1>6 DEF TryDefer
  <2>2. CASE try_defer(tasks[i].channel, Msg("finished", i)) /\ WorkerAt(i, "defer", "done")
    BY <1>0, <1>1, <1>2, <1>3, <1>4, <2>1, <2>2, WorkerAtMoves
    DEF try_defer, registryVars, kernelVars
  <2>3. CASE /\ tasks[i].channel \notin awaiting
             /\ WorkerAt(i, "defer", "queue")
             /\ UNCHANGED barrierVars
    BY <1>0, <1>1, <1>2, <1>3, <1>4, <2>1, <2>3, WorkerAtMoves
    DEF registryVars, kernelVars, barrierVars
  <2> QED
    BY <1>6, <2>2, <2>3 DEF TryDefer
<1>7. CASE QueueIfSession(i)
  <2> DEFINE ch == tasks[i].channel
  <2>1. UNCHANGED <<barrierVars, kernelVars, loopVars>>
    BY <1>7 DEF QueueIfSession
  <2>2. CASE /\ set_pending_response_if_session(ch[1], ch[2], Msg("finished", i))
             /\ queued' = [queued EXCEPT ![slots[ch[1]].session] =
                             Append(@, Msg("finished", i))]
             /\ WorkerAt(i, "queue", "wake")
    <3>1. slots[ch[1]].session = ch[2] /\ free' = free
      BY <2>2 DEF set_pending_response_if_session
    <3> QED
      BY <1>0, <1>1, <1>2, <1>3, <1>4, <2>1, <2>2, <3>1, WorkerAtMoves
      DEF barrierVars, kernelVars
  <2>3. CASE /\ slots[ch[1]].session # ch[2]
             /\ WorkerAt(i, "queue", "done")
             /\ UNCHANGED <<registryVars, queued>>
    BY <1>0, <1>1, <1>2, <1>3, <1>4, <2>1, <2>3, WorkerAtMoves
    DEF registryVars, kernelVars, barrierVars
  <2> QED
    BY <1>7, <2>2, <2>3 DEF QueueIfSession
<1>8. CASE WakeSelectLoop(i)
  BY <1>0, <1>1, <1>2, <1>3, <1>4, <1>8, WorkerAtMoves
  DEF WakeSelectLoop, registryVars, barrierVars
<1> QED
  BY <1>5, <1>6, <1>7, <1>8 DEF WorkerHook
-----------------------------------------------------------------------------
(***************************************************************************)
(* Every step keeps the types and the facts about the place of the loop.   *)
(***************************************************************************)
LEMMA HalfRequest ==
  ASSUME NEW c \in [begun : 0 .. MaxRequests, half : [Sessions -> Kinds \cup {"none"}]],
         NEW s \in Sessions, NEW k \in Kinds \cup {"none"}
  PROVE  /\ c.begun < MaxRequests =>
              [c EXCEPT !.begun = @ + 1, !.half[s] = k]
                \in [begun : 0 .. MaxRequests, half : [Sessions -> Kinds \cup {"none"}]]
         /\ [c EXCEPT !.half[s] = k]
              \in [begun : 0 .. MaxRequests, half : [Sessions -> Kinds \cup {"none"}]]
<1> DEFINE h == [c.half EXCEPT ![s] = k]
<1>1. h \in [Sessions -> Kinds \cup {"none"}]
  OBVIOUS
<1>2. [c EXCEPT !.half[s] = k] = [begun |-> c.begun, half |-> h]
  OBVIOUS
<1>3. [c EXCEPT !.begun = @ + 1, !.half[s] = k] = [begun |-> c.begun + 1, half |-> h]
  <2>1. [c EXCEPT !.begun = @ + 1, !.half[s] = k]
          = [[c EXCEPT !.begun = @ + 1] EXCEPT !.half = h]
    OBVIOUS
  <2>2. [c EXCEPT !.begun = @ + 1] = [begun |-> c.begun + 1, half |-> c.half]
    OBVIOUS
  <2> HIDE DEF h
  <2>3. [[begun |-> c.begun + 1, half |-> c.half] EXCEPT !.half = h]
          = [begun |-> c.begun + 1, half |-> h]
    OBVIOUS
  <2> QED
    BY <2>1, <2>2, <2>3, Zenon
<1>4. c.begun \in 0 .. MaxRequests /\ (c.begun < MaxRequests => c.begun + 1 \in 0 .. MaxRequests)
  BY NetworkAssumption
<1> HIDE DEF h
<1> QED
  BY <1>1, <1>2, <1>3, <1>4

LEMMA PartAppend ==
  ASSUME NEW X, NEW q \in Parts(X), NEW x \in X, NEW n \in {1, 2}
  PROVE  Append(q, <<x, n>>) \in Parts(X)
<1>1. <<x, n>> \in X \X {1, 2}
  OBVIOUS
<1> QED
  BY <1>1, AppendProperties DEF Parts

LEMMA ClientTypes ==
  ASSUME Typed, NEW s \in Sessions,
         Connect(s) \/ ArriveHead(s) \/ ArriveBody(s) \/ Disconnect(s)
  PROVE  /\ KernelTypes'
         /\ UNCHANGED <<loopVars, wake_fd>>
         /\ Acceptable => Acceptable'
<1>0. KernelTypes /\ MaxRequests \in Nat
  BY TypeParts, NetworkAssumption DEF Typed
<1>1. CASE Connect(s)
  <2>1. conn' = [conn EXCEPT ![s] = "open"]
        /\ UNCHANGED <<client, inbox, sent, wake_fd, loopVars>>
    BY <1>1 DEF Connect
  <2> QED
    BY <1>0, <2>1 DEF KernelTypes, ConnStates, loopVars, Acceptable, Sessions
<1>2. CASE Disconnect(s)
  <2>1. PICK c \in {"fin", "reset"} : conn' = [conn EXCEPT ![s] = c]
    BY <1>2 DEF Disconnect
  <2>2. UNCHANGED <<client, inbox, sent, wake_fd, loopVars>>
    BY <1>2 DEF Disconnect
  <2> QED
    BY <1>0, <2>1, <2>2 DEF KernelTypes, ConnStates, loopVars, Acceptable, Sessions
<1>3. CASE ArriveHead(s)
  <2>1. PICK k \in Kinds :
          /\ client' = [client EXCEPT !.begun = @ + 1, !.half[s] = k]
          /\ inbox' = [inbox EXCEPT ![s] = Append(inbox[s], <<k, 1>>)]
    BY <1>3 DEF ArriveHead
  <2>2. client.begun < MaxRequests /\ UNCHANGED <<conn, sent, wake_fd, loopVars>>
    BY <1>3 DEF ArriveHead
  <2>3. client' \in [begun : 0 .. MaxRequests, half : [Sessions -> Kinds \cup {"none"}]]
    BY <1>0, <2>1, <2>2, HalfRequest DEF KernelTypes
  <2>4. Append(inbox[s], <<k, 1>>) \in Parts(Kinds)
    BY <1>0, PartAppend DEF KernelTypes
  <2>5. inbox' \in [Sessions -> Parts(Kinds)]
    BY <1>0, <2>1, <2>4 DEF KernelTypes
  <2> QED
    BY <1>0, <2>2, <2>3, <2>5 DEF KernelTypes, loopVars, Acceptable
<1>4. CASE ArriveBody(s)
  <2> DEFINE k == client.half[s]
  <2>1. /\ client' = [client EXCEPT !.half[s] = "none"] /\ k # "none"
        /\ inbox' = [inbox EXCEPT ![s] = Append(inbox[s], <<k, 2>>)]
        /\ UNCHANGED <<conn, sent, wake_fd, loopVars>>
    BY <1>4 DEF ArriveBody
  <2>2. k \in Kinds
    BY <1>0, <2>1 DEF KernelTypes
  <2>3. client' \in [begun : 0 .. MaxRequests, half : [Sessions -> Kinds \cup {"none"}]]
    BY <1>0, <2>1, HalfRequest DEF KernelTypes
  <2>4. Append(inbox[s], <<k, 2>>) \in Parts(Kinds)
    BY <1>0, <2>2, PartAppend DEF KernelTypes
  <2>5. inbox' \in [Sessions -> Parts(Kinds)]
    BY <1>0, <2>1, <2>4 DEF KernelTypes
  <2> QED
    BY <1>0, <2>1, <2>3, <2>5 DEF KernelTypes, loopVars, Acceptable
<1> QED
  BY <1>1, <1>2, <1>3, <1>4

LEMMA TypedElsewhere ==
  ASSUME Typed, Elsewhere
  PROVE  Typed'
<1>0. /\ RegistryTypes /\ BarrierTypes /\ KernelTypes /\ LoopTypes /\ QueuedTypes
      /\ LocalTypes /\ HandlesLive
  BY TypeParts DEF Typed
<1>1. UNCHANGED <<registryVars, barrierVars, sent, local, next_session_id, tasks, queued>>
  BY ElsewhereKeeps
<1>2. RegistryTypes' /\ BarrierTypes' /\ QueuedTypes'
  BY <1>0, <1>1 DEF RegistryTypes, SlotsTyped, BarrierTypes, QueuedTypes, registryVars, barrierVars
<1>3. SUFFICES KernelTypes' /\ LoopTypes' /\ LocalTypes' /\ HandlesLive'
  BY <1>2, TypeParts, PTL DEF Typed
<1>a. slots' = slots
  BY <1>1 DEF registryVars
<1>4. CASE (\E s \in Sessions : Connect(s) \/ ArriveHead(s) \/ ArriveBody(s) \/ Disconnect(s))
           /\ UNCHANGED stopVars
  <2>1. KernelTypes' /\ UNCHANGED loopVars /\ (Acceptable => Acceptable')
    BY <1>4, ClientTypes
  <2> QED
    BY <1>0, <1>1, <1>a, <1>4, <2>1
    DEF LoopTypes, LocalTypes, HandlesLive, loopVars, stopVars
<1>5. CASE LoopEnds /\ UNCHANGED stopVars
  BY <1>0, <1>1, <1>5 DEF LoopEnds, KernelTypes, LoopTypes, LocalTypes, HandlesLive, kernelVars,
       stopVars, PcStates, Handling, Submitting, Replying, Sending
<1>6. CASE Populate /\ UNCHANGED stopVars
  <2>1. UNCHANGED kernelVars /\ NextSlot("select") /\ pc = "populate"
    BY <1>6 DEF Populate
  <2>2. /\ at' \in Slots
        /\ \/ at' = 0 /\ pc' = "select"
           \/ pc' = "populate"
    BY <1>0, <2>1, NextSlotEffect DEF LoopTypes
  <2>3. fds' \in FdsType
    <3> DEFINE r == IF slots[at].session # 0 /\ slots[at].status = "READABLE"
                      THEN fds.read \cup {at} ELSE fds.read
               w == IF slots[at].session # 0 /\ slots[at].status = "WRITABLE"
                      THEN fds.write \cup {at} ELSE fds.write
    <3>1. fds' = [fds EXCEPT !.read = r, !.write = w]
      BY <1>6 DEF Populate
    <3>2. r \in SUBSET Slots /\ w \in SUBSET Slots
      BY <1>0 DEF LoopTypes, FdsType
    <3> HIDE DEF r, w
    <3>3. [fds EXCEPT !.read = r, !.write = w] \in FdsType
      BY <1>0, <3>2 DEF LoopTypes, FdsType
    <3> QED
      BY <3>1, <3>3
  <2> QED
    BY <1>0, <1>1, <1>6, <2>1, <2>2, <2>3 DEF KernelTypes, LoopTypes, LocalTypes, HandlesLive, kernelVars,
       stopVars, PcStates, Handling, Submitting, Replying, Sending
<1>7. CASE Select /\ UNCHANGED stopVars
  <2>1. /\ UNCHANGED kernelVars /\ pc = "select" /\ pc' = "drain" /\ at' = at
        /\ \E W \in SUBSET fds.write, R \in SUBSET fds.read :
             fds' = [read |-> R, write |-> W, accept |-> Acceptable, wake |-> wake_fd]
    BY <1>7 DEF Select
  <2>2. Acceptable \in BOOLEAN /\ wake_fd \in BOOLEAN
    BY <1>0 DEF Acceptable, KernelTypes
  <2>3. fds' \in FdsType /\ fds'.accept = Acceptable
    BY <1>0, <2>1, <2>2 DEF LoopTypes, FdsType
  <2>4. Acceptable' = Acceptable
    BY <1>1, <2>1 DEF Acceptable, kernelVars
  <2> QED
    BY <1>0, <1>1, <1>7, <2>1, <2>3, <2>4 DEF KernelTypes, LoopTypes, LocalTypes, HandlesLive, kernelVars,
       stopVars, PcStates, Handling, Submitting, Replying, Sending
<1>8. CASE SelectFails /\ UNCHANGED stopVars
  <2>1. /\ UNCHANGED kernelVars /\ pc' \in {"populate", "ended"} /\ at' = at
        /\ fds' = fds \/ fds' = NoFds
    BY <1>8 DEF SelectFails
  <2> QED
    BY <1>0, <1>1, <1>8, <2>1, NoLocalType DEF KernelTypes, LoopTypes, LocalTypes, HandlesLive, kernelVars,
       stopVars, PcStates, Handling, Submitting, Replying, Sending
<1>9. CASE drain_wake_fd /\ UNCHANGED stopVars
  <2>1. /\ UNCHANGED <<conn, client, inbox, at, fds>> /\ pc = "drain" /\ pc' = "accept"
        /\ wake_fd' \in BOOLEAN
    BY <1>9 DEF drain_wake_fd
  <2>2. Acceptable' = Acceptable
    BY <1>1, <2>1 DEF Acceptable
  <2> QED
    BY <1>0, <1>1, <1>9, <2>1, <2>2 DEF KernelTypes, LoopTypes, LocalTypes, HandlesLive,
       stopVars, PcStates, Handling, Submitting, Replying, Sending
<1>10. CASE Start
  BY <1>0, <1>1, <1>10 DEF Start, KernelTypes, LoopTypes, LocalTypes, HandlesLive, kernelVars,
       PcStates, Handling, Submitting, Replying, Sending
<1>11. CASE StopBegins \/ StopWakes
  <2>1. UNCHANGED <<conn, client, inbox, loopVars>> /\ wake_fd' \in BOOLEAN /\ running' \in BOOLEAN
        /\ stopper' \in {"ready", "wake", "done"}
    BY <1>0, <1>11 DEF StopBegins, StopWakes, kernelVars, KernelTypes, LoopTypes
  <2>2. Acceptable' = Acceptable
    BY <1>1, <2>1 DEF Acceptable
  <2> QED
    BY <1>0, <1>1, <1>a, <2>1, <2>2 DEF KernelTypes, LoopTypes, LocalTypes, HandlesLive, loopVars
<1> QED
  BY <1>4, <1>5, <1>6, <1>7, <1>8, <1>9, <1>10, <1>11 DEF Elsewhere

\* Between two events nothing is known but the types.
LEMMA LeavesTyped ==
  ASSUME Typed, LeaveEvent, UNCHANGED <<next_session_id, stopVars>>
  PROVE  LoopTypes' /\ pc' \in {"populate", "events"} /\ HandlesLive'
<1>0. LoopTypes
  BY TypeParts DEF Typed
<1>1. /\ at' \in Slots /\ fds' \in FdsType /\ local' \in LocalRec
      /\ pc' \in {"populate", "events"}
  BY <1>0, LeaveEventEffect DEF LoopTypes
<1> QED
  BY <1>0, <1>1 DEF LoopTypes, HandlesLive, stopVars, Handling, Submitting, Replying, Sending

\* The loop goes on with the connection that it is handling.
LEMMA StaysTyped ==
  ASSUME Typed, UNCHANGED <<next_session_id, stopVars, at, fds>>,
         local' \in LocalRec, slots'[at].session # 0,
         pc' \in Handling, pc' = "held" => local'.held # << >>
  PROVE  LoopTypes' /\ HandlesLive'
<1>0. LoopTypes
  BY TypeParts DEF Typed
<1>1. pc' \notin {"start", "select", "drain", "accept"}
  BY DEF Handling, Submitting, Replying, Sending
<1> QED
  BY <1>0, <1>1 DEF LoopTypes, HandlesLive, stopVars

LEMMA PlaceTyped ==
  ASSUME LocalTypes, tasks' = tasks, pc' \in PcStates
  PROVE  LocalTypes'
BY DEF LocalTypes

LEMMA TypedPassing ==
  ASSUME Typed, Passing, UNCHANGED stopVars
  PROVE  Typed'
<1>0. /\ RegistryTypes /\ BarrierTypes /\ KernelTypes /\ LoopTypes /\ QueuedTypes
      /\ LocalTypes /\ HandlesLive
  BY TypeParts DEF Typed
<1>1. UNCHANGED <<registryVars, barrierVars, kernelVars, next_session_id, tasks, queued>>
  BY PassingKeeps
<1>2. RegistryTypes' /\ BarrierTypes' /\ QueuedTypes' /\ KernelTypes'
  BY <1>0, <1>1 DEF RegistryTypes, SlotsTyped, BarrierTypes, QueuedTypes, KernelTypes,
       registryVars, barrierVars, kernelVars
<1>3. SUFFICES LoopTypes' /\ LocalTypes' /\ HandlesLive'
  BY <1>2, TypeParts, PTL DEF Typed
<1>4. CASE LeaveEvent
  <2>1. LoopTypes' /\ pc' \in {"populate", "events"} /\ HandlesLive'
    BY <1>1, <1>4, LeavesTyped
  <2> QED
    BY <1>0, <1>1, <2>1, PlaceTyped DEF PcStates
<1>5. CASE ~ LeaveEvent
  <2>1. UNCHANGED <<at, fds, local>> /\ pc' \in {"readable", "send", "dead"}
    BY <1>5, PassingKeeps
  <2>2. pc' = "dead" \/ slots[at].session # 0
    BY <1>0, <1>5 DEF Passing, SkipSlot, SendBlocks, SendKills, WriteBegins, HasEvent
  <2>3. LocalTypes'
    BY <1>0, <1>1, <2>1, PlaceTyped DEF PcStates, Handling, Sending
  <2> QED
    BY <1>0, <1>1, <2>1, <2>2, <2>3 DEF LoopTypes, HandlesLive, stopVars, registryVars,
       Handling, Submitting, Replying, Sending
<1> QED
  BY <1>4, <1>5

LEMMA TypedAccept ==
  ASSUME Typed, Accept, UNCHANGED stopVars
  PROVE  Typed'
<1>0. /\ RegistryTypes /\ BarrierTypes /\ KernelTypes /\ LoopTypes /\ QueuedTypes
      /\ LocalTypes /\ HandlesLive
  BY TypeParts DEF Typed
<1>1. /\ RegistryTypes' /\ pc' = "events"
      /\ UNCHANGED <<barrierVars, client, inbox, wake_fd, at, fds, local, tasks, queued>>
  BY AcceptEffect
<1>2. BarrierTypes' /\ QueuedTypes' /\ HandlesLive'
  BY <1>0, <1>1 DEF BarrierTypes, QueuedTypes, HandlesLive, barrierVars, Handling, Submitting,
       Replying, Sending
<1>3. SUFFICES KernelTypes' /\ LoopTypes' /\ LocalTypes'
  BY <1>1, <1>2, TypeParts, PTL DEF Typed
<1>4. LocalTypes'
  BY <1>0, <1>1, PlaceTyped DEF PcStates
<1>5. next_session_id' \in 1 .. MaxSessions + 1
  BY <1>0, AcceptEffect, NetworkAssumption DEF LoopTypes, Sessions
<1>6. LoopTypes'
  BY <1>0, <1>1, <1>5 DEF LoopTypes, stopVars
<1>7. CASE UNCHANGED <<conn, sent>>
  BY <1>0, <1>1, <1>4, <1>6, <1>7 DEF KernelTypes
<1>8. CASE /\ next_session_id \in Sessions
           /\ send_connection_limit_error_and_close(next_session_id)
  <2> DEFINE f == Frame(Msg("error", 0))
  <2>1. PICK n \in 0 .. 2 : sent' = [sent EXCEPT ![next_session_id] = SubSeq(f, 1, n)]
    BY <1>8 DEF send_connection_limit_error_and_close
  <2>2. conn' = [conn EXCEPT ![next_session_id] = "closed"]
    BY <1>8 DEF send_connection_limit_error_and_close
  <2>3. f \in Parts(Message) /\ Len(f) = 2
    BY MessageType, FrameType, NetworkAssumption
  <2> HIDE DEF f
  <2>4. SubSeq(f, 1, n) \in Parts(Message)
    <3>1. 1 \in Nat \ {0} /\ n \in 0 .. Len(f)
      BY <2>3
    <3> QED
      BY <2>3, <3>1, PartsSubSeq
  <2>5. sent' \in [Sessions -> Parts(Message)]
    BY <1>0, <2>1, <2>4 DEF KernelTypes
  <2>6. conn' \in [Sessions -> ConnStates]
    BY <1>0, <2>2 DEF KernelTypes, ConnStates
  <2> QED
    BY <1>0, <1>1, <1>4, <1>6, <2>5, <2>6 DEF KernelTypes
<1> QED
  BY <1>7, <1>8, AcceptEffect

\* ReadFails and SendFails.
LEMMA TypedRelease ==
  ASSUME Typed, ReleaseConnection, Session # 0,
         UNCHANGED <<barrierVars, client, inbox, sent, wake_fd, next_session_id, tasks,
                     queued, stopVars>>
  PROVE  Typed'
<1>0. /\ RegistryTypes /\ BarrierTypes /\ KernelTypes /\ LoopTypes /\ QueuedTypes
      /\ LocalTypes /\ HandlesLive
  BY TypeParts DEF Typed
<1>1. /\ RegistryTypes' /\ LeaveEvent /\ conn' = [conn EXCEPT ![Session] = "closed"]
  BY ReleaseEffect
<1>2. BarrierTypes' /\ QueuedTypes' /\ KernelTypes'
  BY <1>0, <1>1 DEF BarrierTypes, QueuedTypes, KernelTypes, barrierVars, ConnStates
<1>3. LoopTypes' /\ pc' \in {"populate", "events"} /\ HandlesLive'
  BY <1>1, LeavesTyped
<1>4. LocalTypes'
  BY <1>0, <1>3, PlaceTyped DEF PcStates
<1> QED
  BY <1>1, <1>2, <1>3, <1>4, TypeParts, PTL DEF Typed

LEMMA ReplySet ==
  ASSUME NEW l \in LocalRec, NEW m \in Message
  PROVE  /\ [l EXCEPT !.reply = m] \in LocalRec
         /\ [l EXCEPT !.reply = m].reply = m /\ [l EXCEPT !.reply = m].held = l.held
BY DEF LocalRec

LEMMA HeldSet ==
  ASSUME NEW l \in LocalRec, NEW h \in Seq(Message)
  PROVE  /\ [l EXCEPT !.held = h] \in LocalRec
         /\ [l EXCEPT !.held = h].held = h /\ [l EXCEPT !.held = h].reply = l.reply
BY DEF LocalRec

LEMMA TypedReadMessage ==
  ASSUME Typed, ReadMessage, UNCHANGED stopVars
  PROVE  Typed'
<1>0. /\ RegistryTypes /\ BarrierTypes /\ KernelTypes /\ LoopTypes /\ QueuedTypes
      /\ LocalTypes /\ HandlesLive
  BY TypeParts DEF Typed
<1>1. /\ RegistryTypes' /\ inbox' \in [Sessions -> Parts(Kinds)] /\ Session # 0
      /\ UNCHANGED <<free, barrierVars, conn, client, sent, wake_fd,
                     next_session_id, tasks, queued>>
      /\ slots'[at].session = slots[at].session
  BY <1>0, ReadMessageEffect DEF LoopTypes
<1>2. BarrierTypes' /\ QueuedTypes' /\ KernelTypes'
  BY <1>0, <1>1 DEF BarrierTypes, QueuedTypes, KernelTypes, barrierVars
<1>3. SUFFICES LoopTypes' /\ LocalTypes' /\ HandlesLive'
  BY <1>1, <1>2, TypeParts, PTL DEF Typed
<1>4. CASE LeaveEvent
  <2>1. LoopTypes' /\ pc' \in {"populate", "events"} /\ HandlesLive'
    BY <1>1, <1>4, LeavesTyped
  <2> QED
    BY <1>0, <1>1, <2>1, PlaceTyped DEF PcStates
<1>5. CASE ~ LeaveEvent
  <2>1. /\ pc' \in {"mark", "reply"} /\ UNCHANGED <<at, fds>>
        /\ \E r \in {Msg("result", 0), Msg("error", 0)} : local' = [local EXCEPT !.reply = r]
    BY <1>5, ReadMessageEffect
  <2>2. Msg("result", 0) \in Message /\ Msg("error", 0) \in Message
    BY MessageType, NetworkAssumption
  <2>3. local' \in LocalRec
    <3>1. local \in LocalRec
      BY <1>0 DEF LoopTypes
    <3>2. PICK r \in {Msg("result", 0), Msg("error", 0)} : local' = [local EXCEPT !.reply = r]
      BY <2>1
    <3>3. r \in Message
      BY <2>2, <3>2
    <3> QED
      BY <3>1, <3>2, <3>3, ReplySet
  <2>4. slots'[at].session # 0 /\ pc' \in Handling /\ pc' # "held"
    BY <1>1, <2>1 DEF Session, Handling, Submitting, Replying
  <2>5. LoopTypes' /\ HandlesLive'
    BY <1>1, <2>1, <2>3, <2>4, StaysTyped
  <2> QED
    BY <1>0, <1>1, <2>4, <2>5, PlaceTyped DEF PcStates
<1> QED
  BY <1>4, <1>5

LEMMA TypedMarkWaiting ==
  ASSUME Typed, MarkWaiting, UNCHANGED stopVars
  PROVE  Typed'
<1>0. /\ RegistryTypes /\ BarrierTypes /\ KernelTypes /\ LoopTypes /\ QueuedTypes
      /\ LocalTypes /\ HandlesLive
  BY TypeParts DEF Typed
<1>1. /\ pc = "mark" /\ pc' = "submit" /\ awaiting' = awaiting \cup {Channel} /\ deferred' = deferred
      /\ UNCHANGED <<registryVars, kernelVars, at, fds, local, next_session_id, tasks, queued>>
  BY DEF MarkWaiting, mark_waiting
<1>2. Session # 0 /\ Channel \in Channels
  BY <1>0, <1>1, HandlingFacts DEF HandlesLive, Session, Handling, Submitting
<1>3. RegistryTypes' /\ KernelTypes' /\ QueuedTypes' /\ BarrierTypes'
  BY <1>0, <1>1, <1>2 DEF RegistryTypes, SlotsTyped, KernelTypes, QueuedTypes, BarrierTypes,
       registryVars, kernelVars
<1>4. pc' \in Handling /\ pc' # "held" /\ slots'[at].session # 0 /\ local' \in LocalRec
  BY <1>0, <1>1, <1>2 DEF Handling, Submitting, registryVars, Session, LoopTypes
<1>5. LoopTypes' /\ HandlesLive'
  BY <1>1, <1>4, StaysTyped
<1>6. LocalTypes'
  BY <1>0, <1>1, <1>4, PlaceTyped DEF PcStates
<1> QED
  BY <1>3, <1>5, <1>6, TypeParts, PTL DEF Typed

\* A submission is queued, or the queue is shut.
LEMMA SubmitEffect ==
  ASSUME Typed, SubmitAsync
  PROVE  /\ pc = "submit" /\ pc' = "release" /\ Session \in Sessions /\ Channel \in Channels
         /\ UNCHANGED <<registryVars, barrierVars, kernelVars, at, fds, next_session_id, queued>>
         /\ local' \in LocalRec /\ local'.held = local.held
         /\ \/ \E i \in Submissions :
                 /\ tasks[i].pc = "none"
                 /\ tasks' = [tasks EXCEPT ![i] = [channel |-> Channel, pc |-> "judging"]]
                 /\ local'.reply = Msg("ack", i)
            \/ tasks' = tasks /\ local'.reply = Msg("error", 0)
<1>1. /\ pc = "submit" /\ pc' = "release"
      /\ UNCHANGED <<registryVars, barrierVars, kernelVars, at, fds, next_session_id, queued>>
  BY DEF SubmitAsync
<1>2. Session \in Sessions /\ Channel \in Channels /\ local \in LocalRec
  BY <1>1, HandlingFacts DEF Handling, Submitting
<1>4. CASE \E i \in Submissions :
             /\ tasks[i].pc = "none"
             /\ tasks' = [tasks EXCEPT ![i] = [channel |-> Channel, pc |-> "judging"]]
             /\ local' = [local EXCEPT !.reply = Msg("ack", i)]
  <2>1. PICK i \in Submissions :
             /\ tasks[i].pc = "none"
             /\ tasks' = [tasks EXCEPT ![i] = [channel |-> Channel, pc |-> "judging"]]
             /\ local' = [local EXCEPT !.reply = Msg("ack", i)]
    BY <1>4
  <2>2. Msg("ack", i) \in Message
    BY MessageType, NetworkAssumption DEF Submissions
  <2>3. local' \in LocalRec /\ local'.held = local.held /\ local'.reply = Msg("ack", i)
    <3>1. PICK m \in Message : m = Msg("ack", i)
      BY <2>2
    <3>2. /\ [local EXCEPT !.reply = m] \in LocalRec
          /\ [local EXCEPT !.reply = m].held = local.held
          /\ [local EXCEPT !.reply = m].reply = m
      BY <1>2, ReplySet
    <3> QED
      BY <2>1, <3>1, <3>2
  <2> QED
    BY <1>1, <1>2, <2>1, <2>3
<1>5. CASE local' = [local EXCEPT !.reply = Msg("error", 0)] /\ UNCHANGED tasks
  <2>1. Msg("error", 0) \in Message
    BY MessageType, NetworkAssumption
  <2>2. local' \in LocalRec /\ local'.held = local.held /\ local'.reply = Msg("error", 0)
    <3>1. PICK m \in Message : m = Msg("error", 0)
      BY <2>1
    <3>2. /\ [local EXCEPT !.reply = m] \in LocalRec
          /\ [local EXCEPT !.reply = m].held = local.held
          /\ [local EXCEPT !.reply = m].reply = m
      BY <1>2, ReplySet
    <3> QED
      BY <1>5, <3>1, <3>2
  <2> QED
    BY <1>1, <1>2, <1>5, <2>2
<1> QED
  BY <1>4, <1>5 DEF SubmitAsync

LEMMA TypedSubmitAsync ==
  ASSUME Typed, SubmitAsync, UNCHANGED stopVars
  PROVE  Typed'
<1>0. /\ RegistryTypes /\ BarrierTypes /\ KernelTypes /\ LoopTypes /\ QueuedTypes
      /\ LocalTypes /\ HandlesLive
  BY TypeParts DEF Typed
<1>1. /\ pc' = "release" /\ Session \in Sessions /\ Channel \in Channels
      /\ UNCHANGED <<registryVars, barrierVars, kernelVars, at, fds, next_session_id, queued>>
      /\ local' \in LocalRec
  BY SubmitEffect
<1>2. RegistryTypes' /\ KernelTypes' /\ QueuedTypes' /\ BarrierTypes'
  BY <1>0, <1>1 DEF RegistryTypes, SlotsTyped, KernelTypes, QueuedTypes, BarrierTypes,
       registryVars, kernelVars, barrierVars
<1>3. pc' \in Handling /\ pc' # "held" /\ slots'[at].session # 0
  BY <1>1, NetworkAssumption DEF Handling, Submitting, registryVars, Session, Sessions
<1>4. LoopTypes' /\ HandlesLive'
  BY <1>1, <1>3, StaysTyped
<1>5. LocalTypes'
  <2>1. pc' \in PcStates
    BY <1>3 DEF PcStates
  <2>2. CASE tasks' = tasks
    BY <1>0, <2>1, <2>2, PlaceTyped
  <2>3. CASE \E i \in Submissions :
               tasks' = [tasks EXCEPT ![i] = [channel |-> Channel, pc |-> "judging"]]
    BY <1>0, <1>1, <2>1, <2>3 DEF LocalTypes, TaskStates
  <2> QED
    BY <2>2, <2>3, SubmitEffect
<1> QED
  BY <1>2, <1>4, <1>5, TypeParts, PTL DEF Typed

LEMMA ReleaseBarrierEffect ==
  ASSUME Typed, ReleaseBarrier
  PROVE  /\ pc = "release" /\ pc' = "reply" /\ Session \in Sessions /\ Channel \in Channels
         /\ UNCHANGED <<registryVars, kernelVars, at, fds, next_session_id, tasks, queued>>
         /\ awaiting' = awaiting \ {Channel}
         /\ deferred' = [deferred EXCEPT ![Channel] = << >>]
         /\ local' \in LocalRec /\ local'.reply = local.reply
         /\ local'.held = deferred[Channel] /\ deferred[Channel] \in Seq(Message)
<1>1. /\ pc = "release" /\ pc' = "reply"
      /\ UNCHANGED <<registryVars, kernelVars, at, fds, next_session_id, tasks, queued>>
      /\ awaiting' = awaiting \ {Channel}
      /\ deferred' = [deferred EXCEPT ![Channel] = << >>]
      /\ local' = [local EXCEPT !.held = deferred[Channel]]
  BY DEF ReleaseBarrier, release
<1>2. Session \in Sessions /\ Channel \in Channels /\ local \in LocalRec
  BY <1>1, HandlingFacts DEF Handling, Submitting
<1>3. deferred[Channel] \in Seq(Message) /\ Msg("error", 0) \in Message /\ 0 \in Nat
  BY <1>2, TypeParts, MessageType, NetworkAssumption DEF Typed, BarrierTypes
<1>4. local' \in LocalRec /\ local'.reply = local.reply /\ local'.held = deferred[Channel]
  BY <1>1, <1>2, <1>3, HeldSet
<1> QED
  BY <1>1, <1>2, <1>3, <1>4

LEMMA TypedReleaseBarrier ==
  ASSUME Typed, ReleaseBarrier, UNCHANGED stopVars
  PROVE  Typed'
<1>0. /\ RegistryTypes /\ BarrierTypes /\ KernelTypes /\ LoopTypes /\ QueuedTypes
      /\ LocalTypes /\ HandlesLive
  BY TypeParts DEF Typed
<1>1. /\ pc' = "reply" /\ Session \in Sessions /\ Channel \in Channels
      /\ UNCHANGED <<registryVars, kernelVars, at, fds, next_session_id, tasks, queued>>
      /\ awaiting' = awaiting \ {Channel}
      /\ deferred' = [deferred EXCEPT ![Channel] = << >>]
      /\ local' \in LocalRec
  BY ReleaseBarrierEffect
<1>2. << >> \in Seq(Message)
  BY EmptySeq
<1>3. RegistryTypes' /\ KernelTypes' /\ QueuedTypes' /\ BarrierTypes'
  BY <1>0, <1>1, <1>2 DEF RegistryTypes, SlotsTyped, KernelTypes, QueuedTypes, BarrierTypes,
       registryVars, kernelVars, barrierVars
<1>4. pc' \in Handling /\ pc' # "held" /\ slots'[at].session # 0
  BY <1>1, NetworkAssumption DEF Handling, Replying, registryVars, Session, Sessions
<1>5. LoopTypes' /\ HandlesLive'
  BY <1>1, <1>4, StaysTyped
<1>6. LocalTypes'
  BY <1>0, <1>1, <1>4, PlaceTyped DEF PcStates
<1> QED
  BY <1>3, <1>5, <1>6, TypeParts, PTL DEF Typed

LEMMA TypedQueueReply ==
  ASSUME Typed, QueueReply, UNCHANGED stopVars
  PROVE  Typed'
<1>0. /\ RegistryTypes /\ BarrierTypes /\ KernelTypes /\ LoopTypes /\ QueuedTypes
      /\ LocalTypes /\ HandlesLive
  BY TypeParts DEF Typed
<1>1. /\ RegistryTypes' /\ QueuedTypes' /\ pc' = "writable" /\ Session \in Sessions
      /\ UNCHANGED <<free, barrierVars, kernelVars, at, fds, local, next_session_id, tasks>>
      /\ slots'[at].session = slots[at].session
  BY <1>0, QueueReplyEffect DEF LoopTypes
<1>2. BarrierTypes' /\ KernelTypes'
  BY <1>0, <1>1 DEF BarrierTypes, KernelTypes, barrierVars, kernelVars
<1>3. pc' \in Handling /\ pc' # "held" /\ slots'[at].session # 0 /\ local' \in LocalRec
  BY <1>0, <1>1, NetworkAssumption DEF Handling, Replying, Session, Sessions, LoopTypes
<1>4. LoopTypes' /\ HandlesLive'
  BY <1>1, <1>3, StaysTyped
<1>5. LocalTypes'
  BY <1>0, <1>1, <1>3, PlaceTyped DEF PcStates
<1> QED
  BY <1>1, <1>2, <1>4, <1>5, TypeParts, PTL DEF Typed

LEMMA TypedSetWritable ==
  ASSUME Typed, SetWritable, UNCHANGED stopVars
  PROVE  Typed'
<1>0. /\ RegistryTypes /\ BarrierTypes /\ KernelTypes /\ LoopTypes /\ QueuedTypes
      /\ LocalTypes /\ HandlesLive
  BY TypeParts DEF Typed
<1>1. /\ pc = "writable" /\ SetStatus(at, "WRITABLE")
      /\ UNCHANGED <<barrierVars, kernelVars, next_session_id, tasks, queued>>
  BY DEF SetWritable
<1>2. RegistryTypes' /\ slots'[at].session = slots[at].session
  BY <1>0, <1>1, StatusEffect DEF LoopTypes
<1>3. BarrierTypes' /\ KernelTypes' /\ QueuedTypes'
  BY <1>0, <1>1 DEF BarrierTypes, KernelTypes, QueuedTypes, barrierVars, kernelVars
<1>4. SUFFICES LoopTypes' /\ LocalTypes' /\ HandlesLive'
  BY <1>2, <1>3, TypeParts, PTL DEF Typed
<1>5. CASE LeaveEvent
  <2>1. LoopTypes' /\ pc' \in {"populate", "events"} /\ HandlesLive'
    BY <1>1, <1>5, LeavesTyped
  <2> QED
    BY <1>0, <1>1, <2>1, PlaceTyped DEF PcStates
<1>6. CASE ~ LeaveEvent
  <2>1. local.held # << >> /\ pc' = "held" /\ UNCHANGED <<at, fds, local>>
    BY <1>6 DEF SetWritable
  <2>2. slots'[at].session # 0 /\ pc' \in Handling /\ local' \in LocalRec
    BY <1>0, <1>1, <1>2, <2>1 DEF HandlesLive, Handling, Replying, LoopTypes
  <2>3. LoopTypes' /\ HandlesLive'
    BY <1>1, <2>1, <2>2, StaysTyped
  <2> QED
    BY <1>0, <1>1, <2>2, <2>3, PlaceTyped DEF PcStates
<1> QED
  BY <1>5, <1>6

LEMMA TypedQueueHeld ==
  ASSUME Typed, QueueHeld, UNCHANGED stopVars
  PROVE  Typed'
<1>0. /\ RegistryTypes /\ BarrierTypes /\ KernelTypes /\ LoopTypes /\ QueuedTypes
      /\ LocalTypes /\ HandlesLive
  BY TypeParts DEF Typed
<1> DEFINE m == Head(local.held)
<1>1. /\ m \in Message /\ local.held # << >> /\ Session \in Sessions
      /\ set_pending_response_if_session(at, Session, m)
      /\ queued' = [queued EXCEPT ![Session] = Append(queued[Session], m)]
      /\ UNCHANGED <<barrierVars, conn, client, inbox, sent, next_session_id, tasks>>
      /\ pc = "held" /\ wake_fd' = TRUE
  BY QueueHeldEffect
<1>2. \/ LeaveEvent
      \/ /\ Tail(local.held) # << >>
         /\ local' = [local EXCEPT !.held = Tail(local.held)]
         /\ UNCHANGED <<pc, at, fds>>
  BY QueueHeldEffect
<1> HIDE DEF m
<1>3. RegistryTypes' /\ QueuedTypes' /\ slots'[at].session = slots[at].session
  BY <1>0, <1>1, QueueIfEffect DEF LoopTypes
<1>4. BarrierTypes' /\ KernelTypes'
  BY <1>0, <1>1 DEF BarrierTypes, KernelTypes, barrierVars
<1>5. SUFFICES LoopTypes' /\ LocalTypes' /\ HandlesLive'
  BY <1>3, <1>4, TypeParts, PTL DEF Typed
<1>6. CASE LeaveEvent
  <2>1. LoopTypes' /\ pc' \in {"populate", "events"} /\ HandlesLive'
    BY <1>1, <1>6, LeavesTyped
  <2> QED
    BY <1>0, <1>1, <2>1, PlaceTyped DEF PcStates
<1>7. CASE /\ Tail(local.held) # << >>
           /\ local' = [local EXCEPT !.held = Tail(local.held)]
           /\ UNCHANGED <<pc, at, fds>>
  <2>1. Tail(local.held) \in Seq(Message) /\ local \in LocalRec
    BY <1>0, <1>1, HeadTailProperties DEF LoopTypes, LocalRec
  <2>2. local' \in LocalRec /\ local'.held = Tail(local.held)
    <3>1. PICK rest \in Seq(Message) : rest = Tail(local.held)
      BY <2>1
    <3>2. [local EXCEPT !.held = rest] \in LocalRec /\ [local EXCEPT !.held = rest].held = rest
      BY <2>1, HeldSet
    <3> QED
      BY <1>7, <3>1, <3>2
  <2>3. slots'[at].session # 0 /\ pc' \in Handling
    BY <1>0, <1>1, <1>3, <1>7 DEF HandlesLive, Handling, Replying
  <2>4. LoopTypes' /\ HandlesLive'
    BY <1>1, <1>7, <2>2, <2>3, StaysTyped
  <2> QED
    BY <1>0, <1>1, <2>3, <2>4, PlaceTyped DEF PcStates
<1> QED
  BY <1>2, <1>6, <1>7

LEMMA UnsentType ==
  ASSUME SlotsTyped, NEW i \in Slots
  PROVE  Unsent(i) \in Parts(Message) /\ Len(Unsent(i)) \in Nat
<1> DEFINE p == slots[i].pending
           o == slots[i].offset
<1>1. p \in Parts(Message) /\ o \in Nat
  BY SlotAt
<1>2. Len(p) \in 0 .. Len(p) /\ o + 1 \in Nat \ {0} /\ Len(p) \in Nat
  BY <1>1, LenProperties DEF Parts
<1>3. PICK k : k = o + 1
  OBVIOUS
<1>4. SubSeq(p, k, Len(p)) \in Parts(Message)
  BY <1>1, <1>2, <1>3, PartsSubSeq
<1>5. Unsent(i) \in Parts(Message)
  BY <1>3, <1>4 DEF Unsent
<1> QED
  BY <1>5, LenProperties DEF Parts

LEMMA BytesTyped ==
  ASSUME NEW l \in LocalRec, NEW n \in Nat
  PROVE  /\ [l EXCEPT !.bytes = n] \in LocalRec /\ [l EXCEPT !.bytes = n].bytes = n
         /\ [l EXCEPT !.bytes = n].held = l.held /\ [l EXCEPT !.bytes = n].reply = l.reply
BY DEF LocalRec

\* Some of the unsent parts are sent.
LEMMA SendSomeEffect ==
  ASSUME Typed, SendSome
  PROVE  /\ pc = "send" /\ pc' = "consume" /\ Session \in Sessions
         /\ UNCHANGED <<registryVars, barrierVars, client, inbox, wake_fd, at, fds,
                        next_session_id, tasks, queued>>
         /\ local' \in LocalRec /\ local'.held = local.held /\ local'.reply = local.reply
         /\ local'.bytes \in 1 .. Len(Unsent(at))
         /\ sent' = [sent EXCEPT ![Session] =
                       sent[Session] \o SubSeq(Unsent(at), 1, local'.bytes)]
         /\ sent' \in [Sessions -> Parts(Message)]
         /\ conn' = conn \/ conn' = [conn EXCEPT ![Session] = "broken"]
<1>0. SlotsTyped /\ at \in Slots /\ local \in LocalRec /\ sent \in [Sessions -> Parts(Message)]
  BY TypeParts DEF Typed, RegistryTypes, LoopTypes, KernelTypes
<1>1. /\ pc = "send" /\ pc' = "consume"
      /\ UNCHANGED <<registryVars, barrierVars, client, inbox, wake_fd, at, fds,
                     next_session_id, tasks, queued>>
      /\ conn' = conn \/ conn' = [conn EXCEPT ![Session] = "broken"]
  BY DEF SendSome
<1>2. Session \in Sessions
  BY <1>1, HandlingFacts DEF Handling, Sending
<1>3. PICK n \in 1 .. Len(Unsent(at)) :
        /\ sent' = [sent EXCEPT ![Session] = sent[Session] \o SubSeq(Unsent(at), 1, n)]
        /\ local' = [local EXCEPT !.bytes = n]
  BY DEF SendSome
<1> DEFINE u == Unsent(at)
<1>4. u \in Parts(Message) /\ Len(u) \in Nat
  BY <1>0, UnsentType
<1> HIDE DEF u
<1>5. n \in Nat /\ n \in 0 .. Len(u) /\ 1 \in Nat \ {0}
  BY <1>3, <1>4 DEF u
<1>6. SubSeq(u, 1, n) \in Parts(Message)
  BY <1>4, <1>5, PartsSubSeq
<1>7. PICK p : p = SubSeq(u, 1, n)
  OBVIOUS
<1>8. sent[Session] \o p \in Parts(Message)
  BY <1>0, <1>2, <1>6, <1>7, PartsConcat
<1>9. PICK z : z = sent[Session] \o p
  OBVIOUS
<1>10. sent' = [sent EXCEPT ![Session] = z]
  BY <1>3, <1>7, <1>9 DEF u
<1>11. sent' \in [Sessions -> Parts(Message)]
  BY <1>0, <1>8, <1>9, <1>10
<1>13. /\ local' \in LocalRec /\ local'.held = local.held /\ local'.reply = local.reply
       /\ local'.bytes = n
  <2>1. local' = [local EXCEPT !.bytes = n] /\ local \in LocalRec /\ n \in Nat
    BY <1>0, <1>3, <1>5
  <2> QED
    BY <2>1, BytesTyped
<1> QED
  BY <1>1, <1>2, <1>3, <1>11, <1>13

LEMMA TypedSendSome ==
  ASSUME Typed, SendSome, UNCHANGED stopVars
  PROVE  Typed'
<1>0. /\ RegistryTypes /\ BarrierTypes /\ KernelTypes /\ LoopTypes /\ QueuedTypes
      /\ LocalTypes /\ HandlesLive
  BY TypeParts DEF Typed
<1>1. /\ pc' = "consume" /\ Session \in Sessions
      /\ UNCHANGED <<registryVars, barrierVars, client, inbox, wake_fd, at, fds,
                     next_session_id, tasks, queued>>
      /\ local' \in LocalRec /\ sent' \in [Sessions -> Parts(Message)]
      /\ conn' = conn \/ conn' = [conn EXCEPT ![Session] = "broken"]
  BY SendSomeEffect
<1>2. RegistryTypes' /\ BarrierTypes' /\ KernelTypes' /\ QueuedTypes'
  BY <1>0, <1>1 DEF RegistryTypes, SlotsTyped, BarrierTypes, KernelTypes, QueuedTypes,
       registryVars, barrierVars, ConnStates
<1>3. pc' \in Handling /\ pc' # "held" /\ slots'[at].session # 0
  BY <1>1, NetworkAssumption DEF Handling, Sending, registryVars, Session, Sessions
<1>4. LoopTypes' /\ HandlesLive'
  BY <1>1, <1>3, StaysTyped
<1>5. LocalTypes'
  BY <1>0, <1>1, <1>3, PlaceTyped DEF PcStates
<1> QED
  BY <1>2, <1>4, <1>5, TypeParts, PTL DEF Typed

LEMMA TypedConsume ==
  ASSUME Typed, Consume \/ SetReadable, UNCHANGED stopVars
  PROVE  Typed'
<1>0. /\ RegistryTypes /\ BarrierTypes /\ KernelTypes /\ LoopTypes /\ QueuedTypes
      /\ LocalTypes /\ HandlesLive
  BY TypeParts DEF Typed
<1>1. /\ pc \in {"consume", "readable"}
      /\ UNCHANGED <<barrierVars, kernelVars, next_session_id, tasks, queued>>
  BY DEF Consume, SetReadable
<1>2. /\ RegistryTypes' /\ slots'[at].session = slots[at].session
      /\ LeaveEvent \/ (pc' = "readable" /\ UNCHANGED <<at, fds, local>>)
  <2>1. CASE Consume
    BY <1>0, <2>1, ConsumeEffect DEF LoopTypes
  <2>2. CASE SetReadable
    BY <1>0, <2>2, StatusEffect DEF LoopTypes, SetReadable
  <2> QED
    BY <2>1, <2>2
<1>3. BarrierTypes' /\ KernelTypes' /\ QueuedTypes'
  BY <1>0, <1>1 DEF BarrierTypes, KernelTypes, QueuedTypes, barrierVars, kernelVars
<1>4. SUFFICES LoopTypes' /\ LocalTypes' /\ HandlesLive'
  BY <1>2, <1>3, TypeParts, PTL DEF Typed
<1>5. CASE LeaveEvent
  <2>1. LoopTypes' /\ pc' \in {"populate", "events"} /\ HandlesLive'
    BY <1>1, <1>5, LeavesTyped
  <2> QED
    BY <1>0, <1>1, <2>1, PlaceTyped DEF PcStates
<1>6. CASE pc' = "readable" /\ UNCHANGED <<at, fds, local>>
  <2>2. slots'[at].session # 0 /\ pc' \in Handling /\ local' \in LocalRec /\ pc' # "held"
    BY <1>0, <1>1, <1>2, <1>6 DEF HandlesLive, Handling, Sending, LoopTypes
  <2>3. LoopTypes' /\ HandlesLive'
    BY <1>1, <1>6, <2>2, StaysTyped
  <2> QED
    BY <1>0, <1>1, <2>2, <2>3, PlaceTyped DEF PcStates
<1> QED
  BY <1>2, <1>5, <1>6

\* A task moves on and keeps its channel.
LEMMA TaskMoves ==
  ASSUME LocalTypes, NEW i \in Submissions, NEW from, NEW to \in TaskStates \ {"none"},
         WorkerMoves(i, from, to), tasks[i].pc # "none", pc' = pc
  PROVE  /\ LocalTypes'
         /\ \A j \in Submissions : tasks'[j].channel = tasks[j].channel
         /\ \A j \in Submissions : j # i => tasks'[j] = tasks[j]
         /\ tasks[i].pc = from /\ tasks'[i].pc = to
<1>1. /\ tasks' = [tasks EXCEPT ![i] = [channel |-> tasks[i].channel, pc |-> to]]
      /\ tasks[i].pc = from
  BY DEF WorkerMoves
<1>2. tasks \in [Submissions -> [channel : Channels \cup {<<0, 0>>}, pc : TaskStates]]
      /\ tasks[i].channel \in Channels
  BY DEF LocalTypes
<1>3. /\ tasks' \in [Submissions -> [channel : Channels \cup {<<0, 0>>}, pc : TaskStates]]
      /\ \A j \in Submissions : tasks'[j].channel = tasks[j].channel
      /\ \A j \in Submissions : j # i => tasks'[j] = tasks[j]
      /\ tasks'[i].pc = to
  BY <1>1, <1>2
<1>4. LocalTypes'
  BY <1>1, <1>2, <1>3 DEF LocalTypes
<1> QED
  BY <1>1, <1>3, <1>4

LEMMA WorkerTask ==
  ASSUME Typed, NEW i \in Submissions, WorkerHook(i)
  PROVE  /\ LocalTypes'
         /\ \A j \in Submissions : tasks'[j].channel = tasks[j].channel
         /\ \A j \in Submissions : j # i => tasks'[j] = tasks[j]
         /\ tasks'[i].pc # "none"
<1>0. LocalTypes /\ tasks[i].pc # "none" /\ pc' = pc
  BY WorkerEffect DEF Typed, loopVars
<1>1. PICK from, to \in TaskStates \ {"none"} : WorkerMoves(i, from, to)
  BY WorkerEffect DEF TaskStates
<1> QED
  BY <1>0, <1>1, TaskMoves

LEMMA TypedWorker ==
  ASSUME Typed, NEW i \in Submissions, WorkerHook(i), UNCHANGED stopVars
  PROVE  Typed'
<1>0. /\ RegistryTypes /\ BarrierTypes /\ KernelTypes /\ LoopTypes /\ QueuedTypes
      /\ LocalTypes /\ HandlesLive
  BY TypeParts DEF Typed
<1> DEFINE ch == tasks[i].channel
           m  == Msg("finished", i)
<1>1. /\ UNCHANGED <<conn, client, inbox, sent, loopVars, free>>
      /\ ch \in Channels /\ ch[1] \in Slots /\ m \in Message
  BY WorkerEffect
<1>2. LocalTypes'
  BY WorkerTask
<1>3. LoopTypes'
  BY <1>0, <1>1 DEF LoopTypes, loopVars, stopVars
<1>4. KernelTypes'
  <2>1. wake_fd' \in BOOLEAN
    BY <1>0, WorkerEffect DEF KernelTypes
  <2> QED
    BY <1>0, <1>1, <2>1 DEF KernelTypes
<1>5. BarrierTypes'
  <2>1. CASE UNCHANGED <<awaiting, deferred>>
    BY <1>0, <2>1 DEF BarrierTypes
  <2>2. CASE awaiting' = awaiting /\ deferred' = [deferred EXCEPT ![ch] = Append(deferred[ch], m)]
    <3>1. Append(deferred[ch], m) \in Seq(Message)
      BY <1>0, <1>1, AppendProperties DEF BarrierTypes
    <3> HIDE DEF ch, m
    <3> QED
      BY <1>0, <1>1, <2>2, <3>1 DEF BarrierTypes
  <2> QED
    BY <2>1, <2>2, WorkerEffect
<1>6. /\ RegistryTypes' /\ QueuedTypes'
      /\ \A j \in Slots : slots'[j].session = slots[j].session
  <2>1. CASE UNCHANGED <<slots, queued>>
    BY <1>0, <1>1, <2>1 DEF RegistryTypes, SlotsTyped, QueuedTypes
  <2>2. CASE /\ set_pending_response_if_session(ch[1], ch[2], m)
             /\ queued' = [queued EXCEPT ![ch[2]] = Append(queued[ch[2]], m)]
    BY <1>1, <2>2, QueueIfEffect
  <2> QED
    BY <2>1, <2>2, WorkerEffect
<1>7. HandlesLive'
  BY <1>0, <1>1, <1>6 DEF HandlesLive, loopVars, Acceptable, LoopTypes
<1> QED
  BY <1>2, <1>3, <1>4, <1>5, <1>6, <1>7, TypeParts, PTL DEF Typed

LEMMA TypedServing ==
  ASSUME Typed, Serving, UNCHANGED stopVars
  PROVE  Typed'
<1>1. CASE ReadFails
  <2>1. ReleaseConnection /\ Session # 0
        /\ UNCHANGED <<barrierVars, client, inbox, sent, wake_fd, next_session_id, tasks, queued>>
    BY <1>1 DEF ReadFails, HasEvent, Session
  <2> QED
    BY <2>1, TypedRelease
<1>2. CASE SendFails
  <2>1. ReleaseConnection /\ pc = "send"
        /\ UNCHANGED <<barrierVars, client, inbox, sent, wake_fd, next_session_id, tasks, queued>>
    BY <1>2 DEF SendFails
  <2>2. Session # 0
    BY <2>1 DEF Typed, HandlesLive, Session, Handling, Sending
  <2> QED
    BY <2>1, <2>2, TypedRelease
<1> QED
  BY <1>1, <1>2, TypedAccept, TypedReadMessage, TypedMarkWaiting, TypedSubmitAsync,
     TypedReleaseBarrier, TypedQueueReply, TypedSetWritable, TypedQueueHeld, TypedSendSome,
     TypedConsume DEF Serving

LEMMA TypedStep ==
  ASSUME Typed, [NetNext]_netVars
  PROVE  Typed'
<1>1. CASE UNCHANGED netVars
  BY <1>1 DEF Typed, NetTypeOK, LocalTypes, HandlesLive, Acceptable, netVars, registryVars,
       barrierVars, kernelVars, loopVars, stopVars
<1>2. CASE NetNext
  BY <1>2, StepKinds, TypedElsewhere, TypedPassing, TypedServing, TypedWorker
<1> QED
  BY <1>1, <1>2

LEMMA TypedInit ==
  ASSUME NetInit
  PROVE  Typed
<1>1. SlotsTyped /\ free \in Seq(Slots)
  <2>1. free \in [1 .. SlotCount -> Slots]
    BY RegistryAssumption DEF NetInit, RegistryInit, Slots
  <2> QED
    BY <2>1, EmptySlotType, RegistryAssumption DEF NetInit, RegistryInit, SlotsTyped
<1>2. BarrierTypes /\ QueuedTypes
  BY EmptySeq DEF NetInit, BarrierInit, BarrierTypes, QueuedTypes
<1>3. KernelTypes
  <2>1. << >> \in Parts(Kinds) /\ << >> \in Parts(Message) /\ 0 \in 0 .. MaxRequests
    BY EmptySeq, NetworkAssumption DEF Parts
  <2> QED
    BY <2>1 DEF NetInit, KernelTypes, ConnStates
<1>4. LoopTypes
  <2>1. 1 \in 1 .. MaxSessions + 1
    BY NetworkAssumption
  <2>2. /\ at = 0 /\ fds = NoFds /\ local = NoLocal /\ next_session_id = 1
        /\ running = FALSE /\ stopper = "ready"
    BY DEF NetInit
  <2> QED
    BY <2>1, <2>2, NoLocalType, SlotNumbers DEF LoopTypes
<1>5. LocalTypes
  BY DEF NetInit, LocalTypes, PcStates, TaskStates
<1>6. HandlesLive
  BY DEF NetInit, HandlesLive, Handling, Submitting, Replying, Sending
<1> QED
  BY <1>1, <1>2, <1>3, <1>4, <1>5, <1>6, TypeParts DEF Typed, RegistryTypes
-----------------------------------------------------------------------------
(***************************************************************************)
(* Slots and connections.                                                  *)
(***************************************************************************)
\* How the loop moves, in any step.
Busy == {"events"} \cup Handling

LEMMA LoopMoves ==
  ASSUME Typed, [NetNext]_netVars
  PROVE  \/ UNCHANGED loopVars
         \/ Start \/ LoopEnds \/ Populate \/ Select \/ SelectFails \/ drain_wake_fd \/ Accept
         \/ pc \in Busy /\ LeaveEvent
         \/ pc \in Busy /\ UNCHANGED <<at, fds>> /\ pc' \in Handling \cup {"dead"}
<1>1. CASE UNCHANGED netVars
  BY <1>1 DEF netVars
<1>2. CASE Elsewhere
  BY <1>2 DEF Elsewhere, Connect, ArriveHead, ArriveBody, Disconnect, StopBegins, StopWakes
<1>3. CASE Passing
  <2>1. pc \in Busy
    BY <1>3 DEF Passing, SkipSlot, WriteBegins, SendBlocks, SendKills, HasEvent, Busy, Handling, Sending
  <2>2. \/ LeaveEvent
        \/ UNCHANGED <<at, fds, local>> /\ pc' \in {"readable", "send", "dead"}
    BY <1>3, PassingKeeps
  <2> QED
    BY <2>1, <2>2 DEF Handling, Sending
<1>4. CASE Serving
  <2>1. CASE ReadFails \/ SendFails
    BY <2>1 DEF ReadFails, SendFails, ReleaseConnection, HasEvent, Busy, Handling, Sending
  <2>2. CASE ReadMessage
    BY <2>2, ReadMessageEffect DEF Busy, Handling, Submitting, Replying
  <2>3. CASE MarkWaiting
    BY <2>3 DEF MarkWaiting, Busy, Handling, Submitting
  <2>4. CASE SubmitAsync
    BY <2>4 DEF SubmitAsync, Busy, Handling, Submitting
  <2>5. CASE ReleaseBarrier
    BY <2>5 DEF ReleaseBarrier, Busy, Handling, Submitting, Replying
  <2>6. CASE QueueReply
    BY <2>6 DEF QueueReply, Busy, Handling, Replying
  <2>7. CASE SetWritable
    BY <2>7 DEF SetWritable, Busy, Handling, Replying
  <2>8. CASE QueueHeld
    BY <2>8 DEF QueueHeld, Busy, Handling, Replying
  <2>9. CASE SendSome
    BY <2>9 DEF SendSome, Busy, Handling, Sending
  <2>10. CASE Consume \/ SetReadable
    BY <2>10 DEF Consume, SetReadable, Busy, Handling, Sending
  <2> QED
    BY <1>4, <2>1, <2>2, <2>3, <2>4, <2>5, <2>6, <2>7, <2>8, <2>9, <2>10 DEF Serving
<1>5. CASE \E i \in Submissions : WorkerHook(i)
  BY <1>5, WorkerEffect
<1> QED
  BY <1>1, <1>2, <1>3, <1>4, <1>5, StepKinds

Releases == ReadFails \/ SendFails

LEMMA ReleasesEffect ==
  ASSUME Typed, Releases
  PROVE  /\ ReleaseConnection /\ Session \in Sessions /\ Session # 0 /\ pc \in Busy
         /\ UNCHANGED <<barrierVars, client, inbox, sent, wake_fd, next_session_id, tasks, queued>>
<1>1. CASE ReadFails
  BY <1>1, HandlingFacts DEF ReadFails, HasEvent, Session, Busy
<1>2. CASE SendFails
  <2>1. pc \in Handling /\ slots[at].session # 0
    BY <1>2 DEF SendFails, Typed, HandlesLive, Handling, Sending
  <2> QED
    BY <1>2, <2>1, HandlingFacts DEF SendFails, Session, Busy
<1> QED
  BY <1>1, <1>2 DEF Releases

\* All other steps keep the connections, in their slots.
LEMMA KeepsConnections ==
  ASSUME Typed, [NetNext]_netVars, ~ Accept, ~ Releases
  PROVE  /\ free' = free /\ next_session_id' = next_session_id
         /\ \A j \in Slots : slots'[j].session = slots[j].session
         /\ \A s \in Sessions : conn'[s] = conn[s] \/ conn'[s] \notin {"none", "closed"}
<1>0. conn \in [Sessions -> ConnStates] /\ at \in Slots
  BY TypeParts DEF Typed, KernelTypes, LoopTypes
<1>1. CASE UNCHANGED netVars
  BY <1>1 DEF netVars, registryVars, kernelVars, loopVars
<1>2. CASE Elsewhere
  <2>1. UNCHANGED <<registryVars, next_session_id>>
    BY <1>2, ElsewhereKeeps
  <2>2. \/ conn' = conn
        \/ \E s \in Sessions, c \in {"open", "fin", "reset"} : conn' = [conn EXCEPT ![s] = c]
    BY <1>2 DEF Elsewhere, Connect, ArriveHead, ArriveBody, Disconnect, Start, LoopEnds,
       Populate, Select, SelectFails, drain_wake_fd, StopBegins, StopWakes, kernelVars
  <2> QED
    BY <1>0, <2>1, <2>2 DEF registryVars
<1>3. CASE Passing
  BY <1>3, PassingKeeps DEF registryVars, kernelVars
<1>4. CASE \E i \in Submissions : WorkerHook(i)
  <2>1. PICK i \in Submissions : WorkerHook(i)
    BY <1>4
  <2>2. UNCHANGED <<conn, loopVars, free>>
    BY <2>1, WorkerEffect
  <2>3. \A j \in Slots : slots'[j].session = slots[j].session
    <3>1. CASE slots' = slots
      BY <3>1
    <3>2. CASE /\ set_pending_response_if_session(tasks[i].channel[1], tasks[i].channel[2],
                                                  Msg("finished", i))
               /\ queued' = [queued EXCEPT ![tasks[i].channel[2]] =
                               Append(queued[tasks[i].channel[2]], Msg("finished", i))]
      <4>1. tasks[i].channel[1] \in Slots /\ Msg("finished", i) \in Message
        BY <2>1, WorkerEffect
      <4> QED
        BY <3>2, <4>1, QueueIfEffect
    <3> QED
      BY <2>1, <3>1, <3>2, WorkerEffect
  <2> QED
    BY <2>2, <2>3 DEF loopVars
<1>5. CASE ReadMessage
  BY <1>5, ReadMessageEffect
<1>6. CASE MarkWaiting
  BY <1>6 DEF MarkWaiting, registryVars, kernelVars
<1>7. CASE SubmitAsync
  BY <1>7 DEF SubmitAsync, registryVars, kernelVars
<1>8. CASE ReleaseBarrier
  BY <1>8 DEF ReleaseBarrier, registryVars, kernelVars
<1>9. CASE QueueReply
  BY <1>9, QueueReplyEffect DEF kernelVars
<1>10. CASE SetWritable
  BY <1>10, StatusEffect DEF SetWritable, kernelVars
<1>11. CASE QueueHeld
  <2>1. /\ Head(local.held) \in Message
        /\ set_pending_response_if_session(at, Session, Head(local.held))
        /\ queued' = [queued EXCEPT ![Session] = Append(queued[Session], Head(local.held))]
        /\ UNCHANGED <<conn, next_session_id>>
    BY <1>11, QueueHeldEffect
  <2> QED
    BY <1>0, <2>1, QueueIfEffect
<1>12. CASE SendSome
  BY <1>0, <1>12, SendSomeEffect DEF registryVars
<1>13. CASE Consume
  BY <1>13, ConsumeEffect DEF Consume, kernelVars
<1>14. CASE SetReadable
  BY <1>14, StatusEffect DEF SetReadable, kernelVars
<1> QED
  BY <1>1, <1>2, <1>3, <1>4, <1>5, <1>6, <1>7, <1>8, <1>9, <1>10, <1>11, <1>12, <1>13, <1>14,
     StepKinds DEF Serving, Releases

FreeSlots == {i \in Slots : slots[i].session = 0}

Accounted == SessionsUnique /\ FreeList

LEMMA SlotSetFinite ==
  ASSUME NEW S \in SUBSET Slots
  PROVE  IsFiniteSet(S) /\ Cardinality(S) \in Nat
<1>1. IsFiniteSet(Slots)
  BY SlotNumbers, FS_Interval DEF Slots
<1> QED
  BY <1>1, FS_Subset, FS_CardinalityType

LEMMA AccountedAcquire ==
  ASSUME Typed, Accounted, free # << >>, Head(free) \in Slots, Acceptable,
         next_session_id \in Sessions,
         slots' = [slots EXCEPT ![Head(free)] = ConnectedSlot(next_session_id)],
         free' = Tail(free), next_session_id' = next_session_id + 1,
         UNCHANGED conn
  PROVE  /\ Accounted' /\ slots[Head(free)].session = 0
         /\ slots'[Head(free)].session = next_session_id
         /\ \A j \in Slots : j # Head(free) => slots'[j] = slots[j]
<1>0. SlotsTyped /\ free \in Seq(Slots) /\ conn \in [Sessions -> ConnStates]
  BY TypeParts DEF Typed, RegistryTypes, KernelTypes
<1> DEFINE h == Head(free)
           n == next_session_id
<1>1. conn[n] \notin {"none", "closed"} /\ n \in Nat /\ n # 0
  BY NetworkAssumption DEF Acceptable, Sessions, Accounted, SessionsUnique
<1>2. /\ slots'[h] = ConnectedSlot(n) /\ slots'[h].session = n
      /\ \A j \in Slots : j # h => slots'[j] = slots[j]
  BY <1>0, EmptySlotType DEF SlotsTyped
<1>3. /\ Len(free) \in Nat \ {0} /\ h = free[1]
      /\ Len(Tail(free)) = Len(free) - 1
      /\ \A k \in 1 .. Len(free) - 1 : Tail(free)[k] = free[k + 1]
      /\ \A k \in 1 .. Len(free) : free[k] \in Slots
  BY <1>0, EmptySeq, HeadTailProperties, ElementOfSeq
<1>4. slots[h].session = 0
  <2>1. 1 \in 1 .. Len(free)
    BY <1>3
  <2> QED
    BY <1>3, <2>1 DEF Accounted, FreeList
<1>5. SessionsUnique'
  <2>1. ASSUME NEW i \in Slots, slots'[i].session # 0
        PROVE  /\ slots'[i].session < n + 1
               /\ conn[slots'[i].session] \notin {"none", "closed"}
               /\ \A j \in Slots \ {i} : slots'[j].session # slots'[i].session
    <3>1. \A j \in Slots : j # h /\ slots[j].session # 0 => slots[j].session < n
      BY DEF Accounted, SessionsUnique
    <3>2. \A j \in Slots : slots[j].session \in Nat
      BY <1>0, SlotAt
    <3>3. CASE i = h
      BY <1>1, <1>2, <3>1, <3>2, <3>3
    <3>4. CASE i # h
      <4>1. slots'[i] = slots[i] /\ slots[i].session < n /\ slots[i].session # 0
        BY <1>2, <2>1, <3>1, <3>4
      <4>2. \A j \in Slots \ {i} : slots'[j].session # slots[i].session
        BY <1>1, <1>2, <3>2, <4>1 DEF Accounted, SessionsUnique
      <4> QED
        BY <1>1, <3>2, <4>1, <4>2 DEF Accounted, SessionsUnique
    <3> QED
      BY <3>3, <3>4
  <2>2. \A s \in Sessions : s >= n + 1 => conn[s] # "closed"
    BY <1>1, NetworkAssumption DEF Accounted, SessionsUnique, Sessions
  <2> QED
    BY <2>1, <2>2 DEF SessionsUnique
<1>6. FreeList'
  <2>1. \A k \in 1 .. Len(free') : k + 1 \in 1 .. Len(free) /\ free'[k] = free[k + 1]
    BY <1>3
  <2>2. \A k, l \in 1 .. Len(free') : free'[k] = free'[l] => k = l
    <3>1. SUFFICES ASSUME NEW k \in 1 .. Len(free'), NEW l \in 1 .. Len(free'), free'[k] = free'[l]
                   PROVE  k = l
      OBVIOUS
    <3>2. k + 1 = l + 1
      BY <2>1, <3>1 DEF Accounted, FreeList
    <3> QED
      BY <1>3, <3>2
  <2>3. \A i \in Slots : slots'[i].session = 0 <=> \E k \in 1 .. Len(free') : free'[k] = i
    <3>1. ASSUME NEW i \in Slots, NEW k \in 1 .. Len(free'), free'[k] = i
          PROVE  slots'[i].session = 0
      <4>1. free[k + 1] = i /\ k + 1 \in 1 .. Len(free) /\ 1 \in 1 .. Len(free) /\ k + 1 # 1
        BY <1>3, <2>1, <3>1
      <4>2. i # h
        BY <1>3, <4>1 DEF Accounted, FreeList
      <4>3. \A j \in Slots : \A m \in 1 .. Len(free) : free[m] = j => slots[j].session = 0
        BY DEF Accounted, FreeList
      <4>4. slots[i].session = 0
        BY <4>1, <4>3
      <4>5. slots'[i] = slots[i]
        BY <1>2, <4>2
      <4> QED
        BY <4>4, <4>5
    <3>2. ASSUME NEW i \in Slots, slots'[i].session = 0
          PROVE  \E k \in 1 .. Len(free') : free'[k] = i
      <4>1. i # h /\ slots[i].session = 0
        BY <1>1, <1>2, <3>2
      <4>2. PICK k \in 1 .. Len(free) : free[k] = i
        BY <4>1 DEF Accounted, FreeList
      <4>3. k # 1 /\ k \in Nat
        BY <1>3, <4>1, <4>2
      <4>4. PICK l : l = k - 1
        OBVIOUS
      <4>5. l \in 1 .. Len(free') /\ l + 1 = k
        BY <1>3, <4>2, <4>3, <4>4
      <4> QED
        BY <2>1, <4>2, <4>5
    <3> QED
      BY <3>1, <3>2
  <2>4. Len(free') = Cardinality({i \in Slots : slots'[i].session = 0})
    <3>1. {i \in Slots : slots'[i].session = 0} = FreeSlots \ {h} /\ h \in FreeSlots
      BY <1>1, <1>2, <1>4 DEF FreeSlots
    <3>2. FreeSlots \in SUBSET Slots
      BY DEF FreeSlots
    <3>3. Cardinality(FreeSlots \ {h}) = Cardinality(FreeSlots) - 1
      BY <3>1, <3>2, SlotSetFinite, FS_RemoveElement
    <3>4. Len(free) = Cardinality(FreeSlots)
      BY DEF FreeSlots, Accounted, FreeList
    <3> QED
      BY <1>3, <3>1, <3>3, <3>4
  <2> QED
    BY <2>2, <2>3, <2>4 DEF FreeList
<1> QED
  BY <1>2, <1>4, <1>5, <1>6 DEF Accounted

LEMMA AccountedRelease ==
  ASSUME Typed, Accounted, Session \in Sessions,
         slots' = [slots EXCEPT ![at] = EmptySlot], free' = Append(free, at),
         conn' = [conn EXCEPT ![Session] = "closed"], UNCHANGED next_session_id
  PROVE  /\ Accounted' /\ slots'[at].session = 0
         /\ \A j \in Slots : j # at => slots'[j] = slots[j]
<1>0. /\ SlotsTyped /\ free \in Seq(Slots) /\ conn \in [Sessions -> ConnStates] /\ at \in Slots
      /\ Session # 0 /\ slots[at].session = Session
  BY TypeParts, NetworkAssumption DEF Typed, RegistryTypes, KernelTypes, LoopTypes, Session, Sessions
<1>1. /\ slots'[at].session = 0
      /\ \A j \in Slots : j # at => slots'[j] = slots[j]
  BY <1>0, EmptySlotType DEF SlotsTyped
<1>2. /\ Len(free) \in Nat /\ Len(free') = Len(free) + 1 /\ free'[Len(free) + 1] = at
      /\ \A k \in 1 .. Len(free) : free'[k] = free[k]
  BY <1>0, AppendProperties, LenProperties
<1>3. \A k \in 1 .. Len(free) : free[k] # at
  BY <1>0 DEF Accounted, FreeList
<1>4. SessionsUnique'
  <2>1. ASSUME NEW i \in Slots, slots'[i].session # 0
        PROVE  /\ slots'[i].session < next_session_id
               /\ conn'[slots'[i].session] \notin {"none", "closed"}
               /\ \A j \in Slots \ {i} : slots'[j].session # slots'[i].session
    <3>1. i # at /\ slots'[i] = slots[i] /\ slots[i].session # 0
      BY <1>1, <2>1
    <3>2. slots[i].session # Session /\ slots[i].session \in Sessions
      <4>1. slots[i].session \in 0 .. MaxSessions
        BY <1>0, SlotAt
      <4> QED
        BY <1>0, <3>1, <4>1, NetworkAssumption DEF Accounted, SessionsUnique, Sessions
    <3> QED
      BY <1>0, <1>1, <3>1, <3>2 DEF Accounted, SessionsUnique
  <2>2. \A s \in Sessions : s >= next_session_id => conn'[s] # "closed"
    <3>1. ~ (Session >= next_session_id)
      <4>1. next_session_id \in Nat /\ Session \in Nat
        BY TypeParts, NetworkAssumption DEF Typed, LoopTypes, Sessions
      <4> QED
        BY <1>0, <4>1 DEF Accounted, SessionsUnique
    <3> QED
      BY <1>0, <3>1 DEF Accounted, SessionsUnique
  <2> QED
    BY <2>1, <2>2 DEF SessionsUnique
<1>5. FreeList'
  <2>0. Len(free) + 1 \in 1 .. Len(free') /\ \A k \in 1 .. Len(free') : k = Len(free) + 1 \/ k \in 1 .. Len(free)
    BY <1>2
  <2>1. \A k \in 1 .. Len(free) : k \in 1 .. Len(free')
    BY <1>2
  <2>2. \A k, l \in 1 .. Len(free') : free'[k] = free'[l] => k = l
    BY <1>2, <1>3, <2>0 DEF Accounted, FreeList
  <2>3. \A i \in Slots : slots'[i].session = 0 <=> \E k \in 1 .. Len(free') : free'[k] = i
    <3>1. ASSUME NEW i \in Slots, i # at
          PROVE  slots'[i].session = 0 <=> \E k \in 1 .. Len(free') : free'[k] = i
      <4>1. slots'[i] = slots[i]
        BY <1>1, <3>1
      <4>2. slots[i].session = 0 <=> \E k \in 1 .. Len(free) : free[k] = i
        BY DEF Accounted, FreeList
      <4>3. (\E k \in 1 .. Len(free) : free[k] = i) <=> \E k \in 1 .. Len(free') : free'[k] = i
        BY <1>2, <2>0, <2>1, <3>1
      <4> QED
        BY <4>1, <4>2, <4>3
    <3> QED
      BY <1>1, <1>2, <2>0, <3>1
  <2>4. Len(free') = Cardinality({i \in Slots : slots'[i].session = 0})
    <3>1. {i \in Slots : slots'[i].session = 0} = FreeSlots \cup {at} /\ at \notin FreeSlots
      BY <1>0, <1>1 DEF FreeSlots
    <3>2. FreeSlots \in SUBSET Slots
      BY DEF FreeSlots
    <3>3. Cardinality(FreeSlots \cup {at}) = Cardinality(FreeSlots) + 1
      BY <3>1, <3>2, SlotSetFinite, FS_AddElement
    <3>4. Len(free) = Cardinality(FreeSlots)
      BY DEF FreeSlots, Accounted, FreeList
    <3> QED
      BY <1>2, <3>1, <3>3, <3>4
  <2> QED
    BY <2>2, <2>3, <2>4 DEF FreeList
<1> QED
  BY <1>1, <1>4, <1>5 DEF Accounted

\* A refused connection is in no slot.
LEMMA AccountedRefuse ==
  ASSUME Typed, Accounted, next_session_id \in Sessions,
         UNCHANGED registryVars, next_session_id' = next_session_id + 1,
         conn' = [conn EXCEPT ![next_session_id] = "closed"]
  PROVE  Accounted'
<1>0. SlotsTyped /\ conn \in [Sessions -> ConnStates]
  BY TypeParts DEF Typed, RegistryTypes, KernelTypes
<1>1. FreeList'
  BY DEF Accounted, FreeList, registryVars
<1>2. slots' = slots
  BY DEF registryVars
<1>3. next_session_id \in Nat /\ \A j \in Slots : slots[j].session \in Nat
  BY <1>0, SlotAt, NetworkAssumption DEF Sessions
<1>4. \A i \in Slots : slots[i].session # 0 => slots[i].session < next_session_id + 1
                                               /\ slots[i].session # next_session_id
  BY <1>3 DEF Accounted, SessionsUnique
<1>5. \A i \in Slots : slots[i].session # 0 => conn'[slots[i].session] \notin {"none", "closed"}
  BY <1>0, <1>4 DEF Accounted, SessionsUnique
<1>6. \A s \in Sessions : s >= next_session_id + 1 => conn'[s] # "closed"
  BY <1>0, <1>3, NetworkAssumption DEF Accounted, SessionsUnique, Sessions
<1> QED
  BY <1>1, <1>2, <1>4, <1>5, <1>6 DEF Accounted, SessionsUnique

LEMMA AccountedStep ==
  ASSUME Typed, Accounted, [NetNext]_netVars
  PROVE  Accounted'
<1>1. CASE Accept
  <2>1. CASE UNCHANGED <<next_session_id, registryVars, conn, sent>>
    BY <2>1 DEF Accounted, SessionsUnique, FreeList, registryVars
  <2>2. CASE ~ UNCHANGED <<next_session_id, registryVars, conn, sent>>
    BY <1>1, <2>2, AcceptEffect, AccountedAcquire, AccountedRefuse
    DEF send_connection_limit_error_and_close
  <2> QED
    BY <2>1, <2>2
<1>2. CASE Releases
  <2>1. ReleaseConnection /\ Session \in Sessions /\ Session # 0 /\ UNCHANGED next_session_id
    BY <1>2, ReleasesEffect
  <2>2. /\ slots' = [slots EXCEPT ![at] = EmptySlot] /\ free' = Append(free, at)
        /\ conn' = [conn EXCEPT ![Session] = "closed"]
    BY <2>1, ReleaseEffect
  <2> QED
    BY <2>1, <2>2, AccountedRelease
<1>3. CASE ~ Accept /\ ~ Releases
  <2>1. /\ free' = free /\ next_session_id' = next_session_id
        /\ \A j \in Slots : slots'[j].session = slots[j].session
        /\ \A s \in Sessions : conn'[s] = conn[s] \/ conn'[s] \notin {"none", "closed"}
    BY <1>3, KeepsConnections
  <2>2. {i \in Slots : slots'[i].session = 0} = {i \in Slots : slots[i].session = 0}
    BY <2>1
  <2>3. FreeList'
    BY <2>1, <2>2 DEF Accounted, FreeList
  <2>4. \A i \in Slots : slots[i].session # 0 => slots[i].session \in Sessions
    <3>1. SlotsTyped
      BY TypeParts DEF Typed, RegistryTypes
    <3> QED
      BY <3>1, SlotAt, NetworkAssumption DEF Sessions
  <2>5. \A i \in Slots : slots[i].session # 0 => conn'[slots[i].session] \notin {"none", "closed"}
    BY <2>1, <2>4 DEF Accounted, SessionsUnique
  <2>6. \A s \in Sessions : s >= next_session_id => conn'[s] # "closed"
    BY <2>1 DEF Accounted, SessionsUnique
  <2>7. SessionsUnique'
    BY <2>1, <2>5, <2>6 DEF Accounted, SessionsUnique
  <2> QED
    BY <2>3, <2>7 DEF Accounted
<1> QED
  BY <1>1, <1>2, <1>3

LEMMA AccountedInit ==
  ASSUME NetInit
  PROVE  Accounted
<1>1. /\ slots = [i \in Slots |-> EmptySlot] /\ free = [k \in 1 .. SlotCount |-> k - 1]
      /\ \A i \in Slots : slots[i].session = 0
      /\ conn = [s \in Sessions |-> "none"]
  BY EmptySlotType DEF NetInit, RegistryInit
<1>2. Len(free) = SlotCount /\ \A k \in 1 .. SlotCount : free[k] = k - 1
  <2>1. free \in [1 .. SlotCount -> Slots]
    BY <1>1, RegistryAssumption DEF Slots
  <2> QED
    BY <1>1, <2>1, RegistryAssumption
<1>3. {i \in Slots : slots[i].session = 0} = Slots
  BY <1>1
<1>4. Cardinality(Slots) = SlotCount
  <2>1. Cardinality(0 .. SlotCount - 1) = IF 0 > SlotCount - 1 THEN 0 ELSE (SlotCount - 1) - 0 + 1
    BY RegistryAssumption, FS_Interval
  <2> QED
    BY <2>1, RegistryAssumption DEF Slots
<1>5. \A i \in Slots : i + 1 \in 1 .. SlotCount /\ (i + 1) - 1 = i
  BY RegistryAssumption DEF Slots
<1>6. \A k \in 1 .. SlotCount : k - 1 \in Slots
  BY RegistryAssumption DEF Slots
<1>7. FreeList
  <2>1. \A i \in Slots : \E k \in 1 .. Len(free) : free[k] = i
    BY <1>2, <1>5
  <2>2. \A k, l \in 1 .. Len(free) : free[k] = free[l] => k = l
    BY <1>2, RegistryAssumption
  <2> QED
    BY <1>1, <1>2, <1>3, <1>4, <2>1, <2>2 DEF FreeList
<1>8. SessionsUnique
  BY <1>1 DEF SessionsUnique
<1> QED
  BY <1>7, <1>8 DEF Accounted
-----------------------------------------------------------------------------
(***************************************************************************)
(* What the loop watches when it blocks, and who wakes it.                 *)
(***************************************************************************)
\* The status of a slot in a worker's step.
LEMMA WorkerStatus ==
  ASSUME Typed, NEW i \in Submissions, WorkerHook(i)
  PROVE  \A j \in Slots :
           \/ slots'[j] = slots[j]
           \/ slots'[j].status = "WRITABLE" /\ tasks'[i].pc = "wake"
<1> DEFINE ch == tasks[i].channel
           m  == Msg("finished", i)
<1>0. LocalTypes /\ tasks[i].pc # "none" /\ pc' = pc
  BY WorkerEffect DEF Typed, loopVars
<1>1. CASE slots' = slots
  BY <1>1
<1>2. CASE /\ WorkerMoves(i, "queue", "wake")
           /\ set_pending_response_if_session(ch[1], ch[2], m)
           /\ queued' = [queued EXCEPT ![ch[2]] = Append(queued[ch[2]], m)]
  <2>1. ch[1] \in Slots /\ m \in Message
    BY WorkerEffect
  <2>2. slots'[ch[1]].status = "WRITABLE" /\ \A j \in Slots : j # ch[1] => slots'[j] = slots[j]
    BY <1>2, <2>1, QueueIfEffect
  <2>3. tasks'[i].pc = "wake"
    BY <1>0, <1>2, TaskMoves DEF TaskStates
  <2> QED
    BY <2>2, <2>3
<1> QED
  BY <1>1, <1>2, WorkerEffect

\* The eventfd keeps its wakes, and a worker that is about to write it does.
LEMMA WorkerWakes ==
  ASSUME Typed, NEW i \in Submissions, WorkerHook(i)
  PROVE  /\ wake_fd => wake_fd'
         /\ \A t \in Submissions : tasks[t].pc = "wake" => wake_fd' \/ tasks'[t].pc = "wake"
<1>1. wake_fd' = wake_fd \/ wake_fd' = TRUE
  BY WorkerEffect
<1>2. \A t \in Submissions : t # i => tasks'[t] = tasks[t]
  BY WorkerTask
<1>3. tasks[i].pc = "wake" => wake_fd'
  BY WorkerEffect DEF WorkerMoves
<1> QED
  BY <1>1, <1>2, <1>3

Looking == {"start", "populate", "select"}

LEMMA LookingSteps ==
  ASSUME Typed, [NetNext]_netVars, pc \in Looking
  PROVE  /\ ~ Accept /\ ~ Releases
         /\ \/ UNCHANGED <<slots, tasks>> /\ (wake_fd => wake_fd')
            \/ \E i \in Submissions : WorkerHook(i)
         /\ \/ UNCHANGED stopVars /\ (wake_fd => wake_fd')
            \/ Start \/ StopBegins \/ StopWakes
         /\ UNCHANGED loopVars \/ Start \/ LoopEnds \/ Populate \/ Select \/ SelectFails
<1>1. pc \notin Busy /\ pc \notin {"drain", "accept"}
  BY DEF Looking, Busy, Handling, Submitting, Replying, Sending
<1>2. ~ Accept /\ ~ Releases /\ ~ drain_wake_fd
  BY <1>1, ReleasesEffect DEF Accept, drain_wake_fd
<1>3. UNCHANGED loopVars \/ Start \/ LoopEnds \/ Populate \/ Select \/ SelectFails
  BY <1>1, <1>2, LoopMoves
<1>4. ~ Passing /\ ~ Serving
  BY <1>1 DEF Passing, SkipSlot, WriteBegins, SendBlocks, SendKills, HasEvent, Busy, Handling,
     Submitting, Replying, Sending, Serving, Accept, ReadFails, ReadMessage, MarkWaiting,
     SubmitAsync, ReleaseBarrier, QueueReply, SetWritable, QueueHeld, SendSome, SendFails,
     Consume, SetReadable
<1>5. CASE UNCHANGED netVars
  BY <1>2, <1>3, <1>5 DEF netVars, registryVars, kernelVars
<1>6. CASE Elsewhere
  <2>1. UNCHANGED <<slots, tasks>>
    BY <1>6, ElsewhereKeeps DEF registryVars
  <2>2. wake_fd => wake_fd'
    BY <1>2, <1>6 DEF Elsewhere, Connect, ArriveHead, ArriveBody, Disconnect, Start, LoopEnds,
       Populate, Select, SelectFails, StopBegins, StopWakes, kernelVars
  <2> QED
    BY <1>2, <1>3, <1>6, <2>1, <2>2 DEF Elsewhere
<1>7. CASE (\E i \in Submissions : WorkerHook(i)) /\ UNCHANGED stopVars
  BY <1>2, <1>3, <1>7, WorkerWakes
<1> QED
  BY <1>4, <1>5, <1>6, <1>7, StepKinds

Watching == FdSets /\ IdleIsHandled /\ WakeFollows

LEMMA LookedAtSlots ==
  ASSUME Typed
  PROVE  LookedAt \subseteq Slots
<1>1. at \in Slots
  BY TypeParts DEF Typed, LoopTypes
<1> QED
  BY <1>1, SlotNumbers DEF LookedAt, Slots

\* A step that leaves the loop where it looks at the slots, or blocks.
LEMMA WatchingQuiet ==
  ASSUME Typed, Watching, [NetNext]_netVars, pc \in Looking, UNCHANGED loopVars
  PROVE  FdSets' /\ WakeFollows'
<1>1. ~ Accept /\ ~ Releases
  BY LookingSteps
<1>2. \A j \in Slots : slots'[j].session = slots[j].session
  BY <1>1, KeepsConnections
<1>3. UNCHANGED <<pc, at, fds>>
  BY DEF loopVars
<1>4. LookedAt' = LookedAt /\ \A i : Watched(i)' <=> Watched(i)
  BY <1>3 DEF LookedAt, Watched
<1>5. FdSets'
  BY <1>2, <1>3, <1>4 DEF Watching, FdSets
<1>6. \A t \in Submissions : tasks[t].pc = "wake" => wake_fd' \/ tasks'[t].pc = "wake"
  BY LookingSteps, WorkerWakes
<1>7. wake_fd => wake_fd'
  BY LookingSteps, WorkerWakes
<1>8. ASSUME NEW i \in LookedAt, slots'[i].session # 0, slots'[i].status = "WRITABLE",
             i \notin fds.write
      PROVE  wake_fd' \/ \E t \in Submissions : tasks'[t].pc = "wake"
  <2>1. i \in Slots /\ slots[i].session # 0
    BY <1>2, <1>8, LookedAtSlots
  <2>2. CASE slots[i].status = "WRITABLE"
    BY <1>6, <1>7, <1>8, <2>1, <2>2 DEF Watching, WakeFollows
  <2>3. CASE slots[i].status # "WRITABLE"
    BY <1>8, <2>1, <2>3, LookingSteps, WorkerStatus
  <2> QED
    BY <2>2, <2>3
<1>9. pc = "select" \/ (pc = "populate" /\ at # 0) => running' \/ wake_fd' \/ stopper' = "wake"
  <2>1. CASE UNCHANGED stopVars
    BY <1>7, <2>1 DEF Watching, WakeFollows, stopVars
  <2>2. CASE Start
    BY <2>2 DEF Start
  <2>3. CASE StopBegins \/ StopWakes
    BY <2>3 DEF StopBegins, StopWakes
  <2> QED
    BY <2>1, <2>2, <2>3, LookingSteps
<1>10. WakeFollows'
  BY <1>3, <1>4, <1>8, <1>9 DEF WakeFollows
<1> QED
  BY <1>5, <1>10

LEMMA WatchingPopulate ==
  ASSUME Typed, Watching, Populate, UNCHANGED stopVars
  PROVE  FdSets' /\ WakeFollows'
<1>0. /\ SlotsTyped /\ at \in Slots /\ fds \in FdsType
  BY TypeParts DEF Typed, RegistryTypes, LoopTypes
<1>1. /\ pc = "populate" /\ (at = 0 => running) /\ NextSlot("select")
      /\ UNCHANGED <<slots, wake_fd, tasks>>
  BY DEF Populate, registryVars, kernelVars
<1>2. /\ at' \in Slots
      /\ \/ at = SlotCount - 1 /\ at' = 0 /\ pc' = "select"
         \/ at # SlotCount - 1 /\ at' = at + 1 /\ pc' = "populate"
  BY <1>0, <1>1, NextSlotEffect
<1>3. LookedAt = 0 .. at - 1 /\ LookedAt' = LookedAt \cup {at}
  <2>1. LookedAt = 0 .. at - 1
    BY <1>1 DEF LookedAt
  <2>2. at \in Nat /\ at < SlotCount /\ SlotCount \in Nat
    BY <1>0, SlotNumbers
  <2>3. CASE at = SlotCount - 1 /\ at' = 0 /\ pc' = "select"
    BY <2>1, <2>2, <2>3 DEF LookedAt, Slots
  <2>4. CASE at # SlotCount - 1 /\ at' = at + 1 /\ pc' = "populate"
    BY <2>1, <2>2, <2>4 DEF LookedAt, Slots
  <2> QED
    BY <1>2, <2>1, <2>3, <2>4
<1>4. /\ fds'.read = IF slots[at].session # 0 /\ slots[at].status = "READABLE"
                       THEN fds.read \cup {at} ELSE fds.read
      /\ fds'.write = IF slots[at].session # 0 /\ slots[at].status = "WRITABLE"
                        THEN fds.write \cup {at} ELSE fds.write
  BY <1>0 DEF Populate, FdsType
<1>5. slots[at].session # 0 => slots[at].status \in {"READABLE", "WRITABLE"}
  BY <1>0, <1>1, SlotAt DEF Watching, IdleIsHandled, Submitting
<1>6. FdSets'
  <2>1. \A i \in Slots : Watched(i) <=> i \in LookedAt /\ slots[i].session # 0
    BY <1>1 DEF Watching, FdSets
  <2>2. \A i \in Slots : Watched(i)' <=> i \in LookedAt' /\ slots'[i].session # 0
    BY <1>1, <1>3, <1>4, <1>5, <2>1 DEF Watched
  <2>3. pc' # "start"
    BY <1>2
  <2> QED
    BY <2>2, <2>3 DEF FdSets
<1>7. WakeFollows'
  <2>1. ASSUME NEW i \in LookedAt', slots'[i].session # 0, slots'[i].status = "WRITABLE",
               i \notin fds'.write
        PROVE  wake_fd' \/ \E t \in Submissions : tasks'[t].pc = "wake"
    BY <1>1, <1>3, <1>4, <2>1 DEF Watching, WakeFollows
  <2>2. running' \/ wake_fd' \/ stopper' = "wake"
    BY <1>1 DEF Watching, WakeFollows, stopVars
  <2> QED
    BY <2>1, <2>2 DEF WakeFollows
<1> QED
  BY <1>6, <1>7

\* A round begins.
LEMMA WatchingBegins ==
  ASSUME pc' = "populate", at' = 0, fds' = NoFds
  PROVE  FdSets' /\ WakeFollows'
<1>1. LookedAt' = {}
  BY DEF LookedAt
<1>2. \A i : ~ Watched(i)'
  BY DEF Watched, NoFds
<1> QED
  BY <1>1, <1>2 DEF FdSets, WakeFollows

LEMMA WatchingElse ==
  ASSUME pc' \notin Looking
  PROVE  FdSets' /\ WakeFollows'
<1>1. LookedAt' = {}
  BY DEF LookedAt, Looking
<1> QED
  BY <1>1 DEF FdSets, WakeFollows, Looking

LEMMA WatchingStep ==
  ASSUME Typed, Watching, [NetNext]_netVars
  PROVE  FdSets' /\ WakeFollows'
<1>0. at \in Slots /\ fds \in FdsType
  BY TypeParts DEF Typed, LoopTypes
<1>1. CASE pc' \notin Looking
  BY <1>1, WatchingElse
<1>2. CASE pc \in Looking /\ UNCHANGED loopVars
  BY <1>2, WatchingQuiet
<1>3. CASE Start
  <2>1. pc = "start" /\ pc' = "populate" /\ UNCHANGED <<at, fds>>
    BY <1>3 DEF Start
  <2>2. at = 0 /\ fds = NoFds
    BY <2>1 DEF Typed, HandlesLive, Watching, FdSets
  <2> QED
    BY <2>1, <2>2, WatchingBegins
<1>4. CASE LoopEnds \/ Select \/ drain_wake_fd \/ Accept
  <2>1. pc' \notin Looking
    BY <1>4 DEF LoopEnds, Select, drain_wake_fd, Accept, Looking
  <2> QED
    BY <2>1, WatchingElse
<1>5. CASE SelectFails
  <2>1. pc = "select" /\ at' = at /\ (pc' = "ended" \/ (pc' = "populate" /\ fds' = NoFds))
    BY <1>5 DEF SelectFails
  <2>2. at = 0
    BY <2>1 DEF Typed, HandlesLive
  <2> QED
    BY <2>1, <2>2, WatchingBegins, WatchingElse DEF Looking
<1>6. CASE Populate /\ ~ UNCHANGED loopVars
  <2>1. UNCHANGED stopVars
    <3>1. pc = "populate"
      BY <1>6 DEF Populate
    <3>2. CASE Start \/ StopBegins \/ StopWakes
      BY <1>6, <3>1, <3>2 DEF Start, StopBegins, StopWakes
    <3> QED
      BY <3>1, <3>2, LookingSteps DEF Looking
  <2> QED
    BY <1>6, <2>1, WatchingPopulate
<1>7. CASE pc \in Busy /\ LeaveEvent
  <2>1. (pc' = "populate" /\ at' = 0 /\ fds' = NoFds) \/ pc' = "events"
    BY <1>0, <1>7, LeaveEventEffect
  <2> QED
    BY <2>1, WatchingBegins, WatchingElse DEF Looking
<1>8. CASE pc' \in Handling \cup {"dead"}
  <2>1. pc' \notin Looking
    BY <1>8 DEF Looking, Handling, Submitting, Replying, Sending
  <2> QED
    BY <2>1, WatchingElse
<1>9. CASE UNCHANGED loopVars
  BY <1>1, <1>2, <1>9 DEF loopVars
<1> QED
  BY <1>1, <1>2, <1>3, <1>4, <1>5, <1>6, <1>7, <1>8, <1>9, LoopMoves

\* Only handle_read_event makes a connection IDLE.
LEMMA OnlyReadIdles ==
  ASSUME Typed, [NetNext]_netVars, NEW j \in Slots,
         slots'[j].session # 0, slots'[j].status = "IDLE"
  PROVE  \/ j = at /\ at' = at /\ pc' \in {"mark", "reply"}
         \/ slots[j].session # 0 /\ slots[j].status = "IDLE"
<1>0. at \in Slots /\ SlotsTyped
  BY TypeParts DEF Typed, LoopTypes, RegistryTypes
<1>1. CASE UNCHANGED slots
  BY <1>1
<1>2. CASE Elsewhere
  BY <1>1, <1>2, ElsewhereKeeps DEF registryVars
<1>3. CASE Passing
  BY <1>1, <1>3, PassingKeeps DEF registryVars
<1>4. CASE \E i \in Submissions : WorkerHook(i)
  BY <1>4, WorkerStatus
<1>5. CASE Accept
  <2>1. CASE /\ Head(free) \in Slots /\ next_session_id \in Sessions
             /\ slots' = [slots EXCEPT ![Head(free)] = ConnectedSlot(next_session_id)]
    <3>1. j # Head(free)
      BY <1>0, <2>1, EmptySlotType DEF SlotsTyped
    <3> QED
      BY <1>0, <2>1, <3>1 DEF SlotsTyped
  <2> QED
    BY <1>1, <1>5, <2>1, AcceptEffect DEF registryVars
<1>6. CASE Releases
  <2>1. slots' = [slots EXCEPT ![at] = EmptySlot]
    BY <1>6, ReleasesEffect, ReleaseEffect
  <2> QED
    BY <1>0, <2>1, EmptySlotType DEF SlotsTyped
<1>7. CASE ReadMessage
  BY <1>0, <1>7, ReadMessageEffect
<1>8. CASE MarkWaiting \/ SubmitAsync \/ ReleaseBarrier \/ SendSome
  BY <1>1, <1>8 DEF MarkWaiting, SubmitAsync, ReleaseBarrier, SendSome, registryVars
<1>9. CASE QueueReply
  BY <1>9, QueueReplyEffect
<1>10. CASE SetWritable \/ SetReadable
  BY <1>0, <1>10, StatusEffect DEF SetWritable, SetReadable
<1>11. CASE QueueHeld
  <2>1. /\ Head(local.held) \in Message
        /\ set_pending_response_if_session(at, Session, Head(local.held))
        /\ queued' = [queued EXCEPT ![Session] = Append(queued[Session], Head(local.held))]
    BY <1>11, QueueHeldEffect
  <2>2. slots'[at].status = "WRITABLE" /\ \A k \in Slots : k # at => slots'[k] = slots[k]
    BY <1>0, <2>1, QueueIfEffect
  <2> QED
    BY <2>2
<1>12. CASE Consume
  BY <1>12, ConsumeEffect
<1>13. CASE UNCHANGED netVars
  BY <1>1, <1>13 DEF netVars, registryVars
<1> QED
  BY <1>2, <1>3, <1>4, <1>5, <1>6, <1>7, <1>8, <1>9, <1>10, <1>11, <1>12, <1>13, StepKinds
  DEF Serving, Releases

\* The loop does not leave a connection that is IDLE.
LEMMA IdleStays ==
  ASSUME Typed, [NetNext]_netVars, pc \in Submitting \cup {"reply", "writable"}
  PROVE  \/ at' = at /\ pc' \in Submitting \cup {"reply", "writable"}
         \/ slots'[at].status = "WRITABLE"
<1>1. pc \notin {"start", "populate", "select", "drain", "accept", "events", "held", "send",
                 "consume", "readable"}
  BY DEF Submitting
<1>2. CASE UNCHANGED netVars
  BY <1>2 DEF netVars, loopVars
<1>3. CASE Elsewhere
  BY <1>1, <1>3 DEF Elsewhere, Connect, ArriveHead, ArriveBody, Disconnect, Start, LoopEnds,
     Populate, Select, SelectFails, drain_wake_fd, StopBegins, StopWakes, loopVars
<1>4. ~ Passing
  BY <1>1 DEF Passing, SkipSlot, WriteBegins, SendBlocks, SendKills, HasEvent
<1>5. CASE \E i \in Submissions : WorkerHook(i)
  BY <1>5, WorkerEffect DEF loopVars
<1>6. CASE SetWritable
  BY <1>6, StatusEffect DEF SetWritable
<1>7. CASE MarkWaiting \/ SubmitAsync \/ ReleaseBarrier \/ QueueReply
  BY <1>7 DEF MarkWaiting, SubmitAsync, ReleaseBarrier, QueueReply, Submitting
<1>8. ~ Accept /\ ~ ReadFails /\ ~ ReadMessage /\ ~ QueueHeld /\ ~ SendSome /\ ~ SendFails
      /\ ~ Consume /\ ~ SetReadable
  BY <1>1 DEF Accept, ReadFails, ReadMessage, QueueHeld, SendSome, SendFails, Consume,
     SetReadable, HasEvent
<1> QED
  BY <1>2, <1>3, <1>4, <1>5, <1>6, <1>7, <1>8, StepKinds DEF Serving

LEMMA IdleStep ==
  ASSUME Typed, IdleIsHandled, [NetNext]_netVars
  PROVE  IdleIsHandled'
<1>1. SUFFICES ASSUME NEW j \in Slots, slots'[j].session # 0, slots'[j].status = "IDLE"
               PROVE  at' = j /\ pc' \in Submitting \cup {"reply", "writable"}
  BY DEF IdleIsHandled
<1>2. CASE j = at /\ at' = at /\ pc' \in {"mark", "reply"}
  BY <1>2 DEF Submitting
<1>3. CASE slots[j].session # 0 /\ slots[j].status = "IDLE"
  <2>1. at = j /\ pc \in Submitting \cup {"reply", "writable"}
    BY <1>3 DEF IdleIsHandled
  <2> QED
    BY <1>1, <2>1, IdleStays
<1> QED
  BY <1>1, <1>2, <1>3, OnlyReadIdles

\* A pending response stays attended to, whoever steps, unless set_readable
\* comes behind it.
LEMMA AttendedStep ==
  ASSUME Typed, [NetNext]_netVars, NEW j \in Slots, Attended(j),
         ~ (pc = "readable" /\ at = j)
  PROVE  Attended(j)'
<1>0. at \in Slots /\ SlotsTyped
  BY TypeParts DEF Typed, LoopTypes, RegistryTypes
<1>1. CASE at = j /\ pc \in Submitting \cup {"reply", "writable"}
  BY <1>1, IdleStays DEF Attended, Submitting
<1>2. CASE ~ (at = j /\ pc \in Submitting \cup {"reply", "writable"})
  <2>0. slots[j].pending = << >> \/ slots[j].status = "WRITABLE"
    BY <1>2 DEF Attended, Submitting
  <2>1. SUFFICES \/ slots'[j].pending = << >> \/ slots'[j].status = "WRITABLE"
                 \/ at' = j /\ pc' \in {"mark", "reply"}
    BY DEF Attended
  <2>2. CASE slots'[j] = slots[j]
    BY <2>0, <2>2
  <2>3. CASE Elsewhere
    BY <2>2, <2>3, ElsewhereKeeps DEF registryVars
  <2>4. CASE Passing
    BY <2>2, <2>4, PassingKeeps DEF registryVars
  <2>5. CASE \E i \in Submissions : WorkerHook(i)
    BY <2>2, <2>5, WorkerStatus
  <2>6. CASE Accept
    <3>1. CASE /\ Head(free) \in Slots /\ next_session_id \in Sessions
               /\ slots' = [slots EXCEPT ![Head(free)] = ConnectedSlot(next_session_id)]
      <4>1. CASE j = Head(free)
        BY <1>0, <3>1, <4>1, EmptySlotType DEF SlotsTyped
      <4>2. CASE j # Head(free)
        BY <1>0, <2>2, <3>1, <4>2 DEF SlotsTyped
      <4> QED
        BY <4>1, <4>2
    <3> QED
      BY <2>2, <2>6, <3>1, AcceptEffect DEF registryVars
  <2>7. CASE Releases
    <3>1. slots' = [slots EXCEPT ![at] = EmptySlot]
      BY <2>7, ReleasesEffect, ReleaseEffect
    <3>2. CASE j = at
      BY <1>0, <3>1, <3>2, EmptySlotType DEF SlotsTyped
    <3>3. CASE j # at
      BY <1>0, <2>2, <3>1, <3>3 DEF SlotsTyped
    <3> QED
      BY <3>2, <3>3
  <2>8. CASE ReadMessage
    BY <1>0, <2>0, <2>2, <2>8, ReadMessageEffect
  <2>9. CASE MarkWaiting \/ SubmitAsync \/ ReleaseBarrier \/ SendSome
    BY <2>2, <2>9 DEF MarkWaiting, SubmitAsync, ReleaseBarrier, SendSome, registryVars
  <2>10. CASE QueueReply
    <3>1. j # at
      BY <1>2, <2>10 DEF QueueReply
    <3> QED
      BY <2>2, <2>10, <3>1, QueueReplyEffect
  <2>11. CASE SetWritable \/ SetReadable
    <3>1. SetReadable => j # at
      BY DEF SetReadable
    <3> QED
      BY <1>0, <2>2, <2>11, <3>1, StatusEffect DEF SetWritable, SetReadable
  <2>12. CASE QueueHeld
    <3>1. /\ Head(local.held) \in Message
          /\ set_pending_response_if_session(at, Session, Head(local.held))
          /\ queued' = [queued EXCEPT ![Session] = Append(queued[Session], Head(local.held))]
      BY <2>12, QueueHeldEffect
    <3>2. slots'[at].status = "WRITABLE" /\ \A k \in Slots : k # at => slots'[k] = slots[k]
      BY <1>0, <3>1, QueueIfEffect
    <3> QED
      BY <2>2, <3>2
  <2>13. CASE Consume
    BY <1>0, <2>0, <2>2, <2>13, ConsumeEffect
  <2>14. CASE UNCHANGED netVars
    BY <2>2, <2>14 DEF netVars, registryVars
  <2> QED
    BY <2>3, <2>4, <2>5, <2>6, <2>7, <2>8, <2>9, <2>10, <2>11, <2>12, <2>13, <2>14, StepKinds
    DEF Serving, Releases
<1> QED
  BY <1>1, <1>2

LEMMA WatchingInit ==
  ASSUME NetInit
  PROVE  Watching
<1>1. /\ pc = "start" /\ at = 0 /\ fds = NoFds
      /\ \A i \in Slots : slots[i].session = 0
  BY EmptySlotType DEF NetInit, RegistryInit
<1> QED
  BY <1>1 DEF Watching, FdSets, IdleIsHandled, WakeFollows, LookedAt
-----------------------------------------------------------------------------
(***************************************************************************)
(* Messages: acknowledgements and results.                                 *)
(***************************************************************************)
LEMMA HoldsAppend ==
  ASSUME NEW X, NEW q \in Seq(X), NEW x \in X, NEW m
  PROVE  /\ Holds(Append(q, x), m) <=> Holds(q, m) \/ x = m
         /\ Once(q, m) /\ ~ (x = m /\ Holds(q, m)) => Once(Append(q, x), m)
<1>1. /\ Len(q) \in Nat /\ Len(Append(q, x)) = Len(q) + 1
      /\ \A i \in 1 .. Len(q) : Append(q, x)[i] = q[i]
      /\ Append(q, x)[Len(q) + 1] = x
  BY AppendProperties, LenProperties
<1>2. PICK r, n : r = Append(q, x) /\ n = Len(q)
  OBVIOUS
<1>3. /\ n \in Nat /\ Len(r) = n + 1 /\ r[n + 1] = x /\ \A i \in 1 .. n : r[i] = q[i]
  BY <1>1, <1>2
<1>4. \A i : i \in 1 .. n + 1 <=> i \in 1 .. n \/ i = n + 1
  BY <1>3
<1>5. Holds(r, m) <=> Holds(q, m) \/ x = m
  BY <1>2, <1>3, <1>4 DEF Holds
<1>6. Once(q, m) /\ ~ (x = m /\ Holds(q, m)) => Once(r, m)
  BY <1>2, <1>3, <1>4 DEF Once, Holds
<1> QED
  BY <1>2, <1>5, <1>6

LEMMA HoldsTail ==
  ASSUME NEW X, NEW q \in Seq(X), q # << >>, NEW m
  PROVE  /\ Holds(q, m) <=> Head(q) = m \/ Holds(Tail(q), m)
         /\ Once(q, m) => Once(Tail(q), m) /\ ~ (Head(q) = m /\ Holds(Tail(q), m))
<1>1. /\ Len(q) \in Nat \ {0} /\ Head(q) = q[1] /\ Len(Tail(q)) = Len(q) - 1
      /\ \A i \in 1 .. Len(q) - 1 : Tail(q)[i] = q[i + 1]
  BY EmptySeq, HeadTailProperties
<1>2. PICK r, n : r = Tail(q) /\ n = Len(q)
  OBVIOUS
<1>3. n \in Nat \ {0} /\ Len(r) = n - 1 /\ \A i \in 1 .. n - 1 : r[i] = q[i + 1]
  BY <1>1, <1>2
<1>4. \A i \in 1 .. n - 1 : i + 1 \in 1 .. n
  BY <1>3
<1>5. \A i \in 1 .. n : i = 1 \/ (i - 1 \in 1 .. n - 1 /\ (i - 1) + 1 = i)
  BY <1>3
<1>6. Holds(r, m) => Holds(q, m)
  BY <1>2, <1>3, <1>4 DEF Holds
<1>7. Holds(q, m) => q[1] = m \/ Holds(r, m)
  <2>1. SUFFICES ASSUME NEW i \in 1 .. n, q[i] = m, i # 1
                 PROVE  Holds(r, m)
    BY <1>2 DEF Holds
  <2>2. PICK j : j = i - 1
    OBVIOUS
  <2>3. j \in 1 .. n - 1 /\ r[j] = m
    BY <1>3, <1>5, <2>1, <2>2
  <2> QED
    BY <1>3, <2>3 DEF Holds
<1>8. q[1] = m => Holds(q, m)
  BY <1>2, <1>3 DEF Holds
<1>9. Once(q, m) => Once(r, m)
  <2>1. SUFFICES ASSUME Once(q, m), NEW i \in 1 .. n - 1, NEW j \in 1 .. n - 1, r[i] = m, r[j] = m
                 PROVE  i = j
    BY <1>3 DEF Once
  <2>2. i + 1 = j + 1
    BY <1>2, <1>3, <1>4, <2>1 DEF Once
  <2> QED
    BY <1>3, <2>2
<1>10. Once(q, m) => ~ (q[1] = m /\ Holds(r, m))
  <2>1. SUFFICES ASSUME Once(q, m), q[1] = m, NEW i \in 1 .. n - 1, r[i] = m
                 PROVE  FALSE
    BY <1>3 DEF Holds
  <2>2. 1 \in 1 .. n /\ i + 1 \in 1 .. n /\ q[i + 1] = m
    BY <1>3, <1>4, <2>1
  <2>3. i + 1 = 1
    BY <1>2, <2>1, <2>2 DEF Once
  <2> QED
    BY <2>3, <1>3
<1> QED
  BY <1>1, <1>2, <1>6, <1>7, <1>8, <1>9, <1>10

LEMMA HoldsNothing ==
  ASSUME NEW m
  PROVE  ~ Holds(<< >>, m) /\ Once(<< >>, m)
BY DEF Holds, Once

LEMMA MsgInjective ==
  ASSUME NEW t, NEW u, NEW i, NEW j, Msg(t, i) = Msg(u, j)
  PROVE  t = u /\ i = j
<1>1. Msg(t, i).type = Msg(u, j).type /\ Msg(t, i).id = Msg(u, j).id
  OBVIOUS
<1> QED
  BY <1>1 DEF Msg

LEMMA MessageIs ==
  ASSUME NEW m \in Message
  PROVE  m = Msg(m.type, m.id) /\ m.id \in 0 .. MaxSubmissions
         /\ m.type \in {"ack", "finished", "result", "error"}
BY DEF Message, Msg

\* The steps that have nothing to do with messages or with the barrier.
Aside ==
  /\ ~ MarkWaiting /\ ~ SubmitAsync /\ ~ ReleaseBarrier /\ ~ QueueReply /\ ~ QueueHeld
  /\ \A i \in Submissions : ~ WorkerHook(i)

LEMMA NoLocalFields == NoLocal.held = << >> /\ NoLocal.reply.type = "error"
BY DEF NoLocal, Msg

\* In such a step the loop stays where it is, or goes from SetWritable to the
\* messages that were held back, or is not between mark_waiting and the end of
\* the handler.
LEMMA AsideEffect ==
  ASSUME Typed, [NetNext]_netVars, Aside
  PROVE  /\ UNCHANGED <<awaiting, deferred, tasks, queued>>
         /\ \/ UNCHANGED <<pc, at, local>> /\ slots'[at].session = slots[at].session
            \/ /\ pc = "writable" /\ pc' = "held" /\ UNCHANGED <<at, local>>
               /\ slots'[at].session = slots[at].session
            \/ pc = "writable" /\ local.held = << >> /\ local' = NoLocal
               /\ pc' \in {"populate", "events"}
            \/ /\ pc \notin Submitting \cup Replying
               /\ pc' \notin {"submit", "release", "writable", "held"}
               /\ local'.held = local.held \/ local'.held = << >>
               /\ local'.reply = local.reply \/ local'.reply.type \in {"error", "result"}
<1>0. at \in Slots /\ SlotsTyped /\ fds \in FdsType /\ local \in LocalRec
  BY TypeParts DEF Typed, LoopTypes, RegistryTypes
<1>1. CASE UNCHANGED netVars
  BY <1>1 DEF netVars, loopVars, barrierVars, registryVars
<1>2. CASE Elsewhere
  <2>1. UNCHANGED <<awaiting, deferred, tasks, queued, local>> /\ slots' = slots
    BY <1>2, ElsewhereKeeps DEF barrierVars, registryVars
  <2>2. \/ UNCHANGED loopVars
        \/ /\ pc \in {"start", "populate", "select", "drain"}
           /\ pc' \in {"populate", "ended", "select", "drain", "accept"}
    BY <1>2, <1>0, NextSlotEffect DEF Elsewhere, Connect, ArriveHead, ArriveBody, Disconnect, Start, LoopEnds,
       Populate, Select, SelectFails, drain_wake_fd, StopBegins, StopWakes
  <2>3. CASE UNCHANGED loopVars
    BY <2>1, <2>3 DEF loopVars
  <2>4. CASE /\ pc \in {"start", "populate", "select", "drain"}
             /\ pc' \in {"populate", "ended", "select", "drain", "accept"}
    BY <2>1, <2>4 DEF Submitting, Replying
  <2> QED
    BY <2>2, <2>3, <2>4
<1>3. ASSUME LeaveEvent
      PROVE  local'.held = << >> /\ local'.reply.type = "error" /\ local' = NoLocal
             /\ pc' \in {"populate", "events"}
  BY <1>0, <1>3, LeaveEventEffect, NoLocalFields
<1>4. CASE Passing
  <2>1. pc \in {"events", "send"}
    BY <1>4 DEF Passing, SkipSlot, WriteBegins, SendBlocks, SendKills, HasEvent
  <2> QED
    BY <1>3, <1>4, <2>1, PassingKeeps DEF barrierVars, Submitting, Replying
<1>5. CASE Accept
  BY <1>5, AcceptEffect DEF barrierVars, Submitting, Replying
<1>6. CASE Releases
  <2>1. LeaveEvent /\ UNCHANGED <<barrierVars, tasks, queued>>
    BY <1>6, ReleasesEffect DEF ReleaseConnection
  <2>2. pc \in {"events", "send"}
    BY <1>6 DEF Releases, ReadFails, SendFails, HasEvent
  <2> QED
    BY <1>3, <2>1, <2>2 DEF barrierVars, Submitting, Replying
<1>7. CASE ReadMessage
  <2>1. pc = "events" /\ UNCHANGED <<barrierVars, tasks, queued>>
    BY <1>7, ReadMessageEffect
  <2>2. CASE LeaveEvent
    BY <1>3, <2>1, <2>2 DEF barrierVars, Submitting, Replying
  <2>3. CASE /\ \E r \in {Msg("result", 0), Msg("error", 0)} : local' = [local EXCEPT !.reply = r]
             /\ pc' \in {"mark", "reply"}
    <3>1. PICK r \in {Msg("result", 0), Msg("error", 0)} : local' = [local EXCEPT !.reply = r]
      BY <2>3
    <3>2. r.type \in {"error", "result"}
      BY DEF Msg
    <3>3. local'.held = local.held /\ local'.reply = r
      BY <1>0, <3>1 DEF LocalRec
    <3> QED
      BY <2>1, <2>3, <3>2, <3>3 DEF barrierVars, Submitting, Replying
  <2> QED
    BY <1>7, <2>2, <2>3, ReadMessageEffect
<1>8. CASE SetWritable
  <2>1. pc = "writable" /\ UNCHANGED <<barrierVars, tasks, queued>> /\ SetStatus(at, "WRITABLE")
    BY <1>8 DEF SetWritable
  <2>2. slots'[at].session = slots[at].session
    BY <1>0, <2>1, StatusEffect
  <2>3. \/ local.held = << >> /\ LeaveEvent
        \/ pc' = "held" /\ UNCHANGED <<at, local>>
    BY <1>8 DEF SetWritable
  <2> QED
    BY <1>3, <2>1, <2>2, <2>3 DEF barrierVars
<1>9. CASE SendSome
  BY <1>9, SendSomeEffect DEF barrierVars, Submitting, Replying
<1>10. CASE Consume \/ SetReadable
  <2>1. pc \in {"consume", "readable"} /\ UNCHANGED <<barrierVars, tasks, queued>>
    BY <1>10 DEF Consume, SetReadable
  <2>2. LeaveEvent \/ (pc' = "readable" /\ local' = local)
    BY <1>10 DEF Consume, SetReadable
  <2> QED
    BY <1>3, <2>1, <2>2 DEF barrierVars, Submitting, Replying
<1> QED
  BY <1>1, <1>2, <1>4, <1>5, <1>6, <1>7, <1>8, <1>9, <1>10, StepKinds DEF Serving, Releases, Aside

\* A worker leaves the loop and the connections where they are.
LEMMA WorkerKeepsChannel ==
  ASSUME Typed, NEW i \in Submissions, WorkerHook(i)
  PROVE  /\ UNCHANGED <<pc, at, local, next_session_id>> /\ Channel' = Channel
         /\ \A j \in Slots : slots'[j].session = slots[j].session
<1>0. at \in Slots
  BY TypeParts DEF Typed, LoopTypes
<1> DEFINE ch == tasks[i].channel
           m  == Msg("finished", i)
<1>1. UNCHANGED <<pc, at, local, next_session_id>>
  BY WorkerEffect DEF loopVars
<1>2. \A j \in Slots : slots'[j].session = slots[j].session
  <2>1. CASE slots' = slots
    BY <2>1
  <2>2. CASE /\ set_pending_response_if_session(ch[1], ch[2], m)
             /\ queued' = [queued EXCEPT ![ch[2]] = Append(queued[ch[2]], m)]
    <3>1. ch[1] \in Slots /\ m \in Message
      BY WorkerEffect
    <3> QED
      BY <2>2, <3>1, QueueIfEffect
  <2> QED
    BY <2>1, <2>2, WorkerEffect
<1> QED
  BY <1>0, <1>1, <1>2 DEF Channel, Session

LEMMA BarrierStep ==
  ASSUME Typed, BarrierOwned, [NetNext]_netVars
  PROVE  BarrierOwned'
<1>0. /\ awaiting \subseteq Channels /\ deferred \in [Channels -> Seq(Message)]
      /\ at \in Slots /\ local \in LocalRec
  BY TypeParts DEF Typed, BarrierTypes, LoopTypes
<1>1. CASE Aside
  <2>0. UNCHANGED <<awaiting, deferred>>
    BY <1>1, AsideEffect
  <2>1. CASE UNCHANGED <<pc, at, local>> /\ slots'[at].session = slots[at].session
    BY <2>0, <2>1 DEF BarrierOwned, Channel, Session
  <2>2. CASE /\ pc = "writable" /\ pc' = "held" /\ UNCHANGED <<at, local>>
             /\ slots'[at].session = slots[at].session
    BY <2>0, <2>2 DEF BarrierOwned, Channel, Session, Replying
  <2>3. CASE pc = "writable" /\ local.held = << >> /\ local' = NoLocal
               /\ pc' \in {"populate", "events"}
    BY <2>0, <2>3, NoLocalFields DEF BarrierOwned, Replying
  <2>4. CASE /\ pc \notin Submitting \cup Replying
             /\ pc' \notin {"submit", "release", "writable", "held"}
             /\ local'.held = local.held \/ local'.held = << >>
    BY <2>0, <2>4 DEF BarrierOwned, Submitting
  <2> QED
    BY <1>1, <2>1, <2>2, <2>3, <2>4, AsideEffect
<1>2. CASE MarkWaiting
  <2>1. /\ pc = "mark" /\ pc' = "submit" /\ awaiting' = awaiting \cup {Channel}
        /\ UNCHANGED <<deferred, slots, at, local>>
    BY <1>2 DEF MarkWaiting, mark_waiting, registryVars
  <2>2. awaiting = {} /\ local.held = << >> /\ Channel' = Channel
    BY <2>1 DEF BarrierOwned, Replying, Channel, Session
  <2> QED
    BY <2>1, <2>2 DEF BarrierOwned, Replying
<1>3. CASE SubmitAsync
  <2>1. /\ pc = "submit" /\ pc' = "release" /\ local'.held = local.held
        /\ UNCHANGED <<awaiting, deferred, slots, at>>
    BY <1>3, SubmitEffect DEF registryVars, barrierVars
  <2> QED
    BY <2>1 DEF BarrierOwned, Replying, Channel, Session
<1>4. CASE ReleaseBarrier
  <2>1. /\ pc = "release" /\ pc' = "reply" /\ Channel \in Channels
        /\ awaiting' = awaiting \ {Channel}
        /\ deferred' = [deferred EXCEPT ![Channel] = << >>]
    BY <1>4, ReleaseBarrierEffect
  <2>2. awaiting' = {}
    BY <2>1 DEF BarrierOwned
  <2>3. \A ch \in Channels : deferred'[ch] = << >>
    <3>1. ASSUME NEW ch \in Channels PROVE deferred'[ch] = << >>
      <4>1. CASE ch = Channel
        BY <1>0, <2>1, <4>1
      <4>2. CASE ch # Channel
        BY <1>0, <2>1, <4>2 DEF BarrierOwned
      <4> QED
        BY <4>1, <4>2
    <3> QED
      BY <3>1
  <2> QED
    BY <2>1, <2>2, <2>3 DEF BarrierOwned, Replying
<1>5. CASE QueueReply
  <2>1. /\ pc = "reply" /\ pc' = "writable" /\ UNCHANGED <<awaiting, deferred, local>>
    BY <1>5, QueueReplyEffect DEF barrierVars
  <2> QED
    BY <2>1 DEF BarrierOwned, Replying
<1>6. CASE QueueHeld
  <2>1. /\ pc = "held" /\ UNCHANGED <<awaiting, deferred>>
        /\ LeaveEvent \/ (pc' = pc /\ at' = at)
    BY <1>6, QueueHeldEffect DEF barrierVars
  <2>2. LeaveEvent => local'.held = << >> /\ pc' \in {"populate", "events"}
    BY <1>0, HandlingFacts, LeaveEventEffect, NoLocalFields
  <2> QED
    BY <2>1, <2>2 DEF BarrierOwned, Replying
<1>7. CASE \E i \in Submissions : WorkerHook(i)
  <2>1. PICK i \in Submissions : WorkerHook(i)
    BY <1>7
  <2>2. UNCHANGED <<pc, at, local>> /\ Channel' = Channel /\ awaiting' = awaiting
    BY <2>1, WorkerKeepsChannel, WorkerEffect
  <2>3. \A ch \in Channels \ awaiting : deferred'[ch] = deferred[ch]
    <3>1. CASE deferred' = deferred
      BY <3>1
    <3>2. CASE /\ tasks[i].channel \in awaiting
               /\ deferred' = [deferred EXCEPT ![tasks[i].channel] =
                                 Append(deferred[tasks[i].channel], Msg("finished", i))]
      BY <1>0, <3>2
    <3> QED
      BY <2>1, <3>1, <3>2, WorkerEffect
  <2> QED
    BY <2>2, <2>3 DEF BarrierOwned
<1> QED
  BY <1>1, <1>2, <1>3, <1>4, <1>5, <1>6, <1>7 DEF Aside

\* A worker's step and the submissions.
LEMMA WorkerSubmitted ==
  ASSUME Typed, NEW i \in Submissions, WorkerHook(i)
  PROVE  /\ Submitted(i)
         /\ \A j \in Submissions : Submitted(j)' <=> Submitted(j)
         /\ \A j : Submitted(j)' <=> Submitted(j)
<1>1. tasks[i].pc # "none" /\ tasks'[i].pc # "none"
      /\ \A j \in Submissions : j # i => tasks'[j] = tasks[j]
  BY WorkerEffect, WorkerTask
<1>2. \A j \in Submissions : Submitted(j)' <=> Submitted(j)
  BY <1>1 DEF Submitted
<1> QED
  BY <1>1, <1>2 DEF Submitted

LEMMA NextSessionGrows ==
  ASSUME Typed, [NetNext]_netVars
  PROVE  /\ next_session_id' \in {next_session_id, next_session_id + 1}
         /\ \A k \in Nat : k < next_session_id => k < next_session_id'
<1>1. next_session_id \in Nat
  BY TypeParts, NetworkAssumption DEF Typed, LoopTypes
<1>2. next_session_id' \in {next_session_id, next_session_id + 1}
  BY AcceptEffect, ReleasesEffect, KeepsConnections
<1> QED
  BY <1>1, <1>2

\* A channel of a submission.
LEMMA ChannelAt ==
  ASSUME LocalTypes, NEW i \in Submissions, tasks[i].pc # "none"
  PROVE  /\ tasks[i].channel \in Channels /\ tasks[i].channel[1] \in Slots
         /\ tasks[i].channel[2] \in Sessions /\ tasks[i].channel[2] \in Nat
         /\ tasks[i].channel = <<tasks[i].channel[1], tasks[i].channel[2]>>
<1>1. tasks[i].channel \in Channels
  BY DEF LocalTypes
<1> QED
  BY <1>1, NetworkAssumption DEF Sessions

LEMMA OwnAside ==
  ASSUME Typed, BarrierOwned, MessagesOwn, [NetNext]_netVars, Aside
  PROVE  MessagesOwn'
<1>0. /\ UNCHANGED <<awaiting, deferred, tasks, queued>>
      /\ \A i : Submitted(i)' <=> Submitted(i)
  BY AsideEffect DEF Submitted
<1>1. /\ \A s \in Sessions, m \in Message :
           Holds(queued'[s], m) /\ m.type \in {"ack", "finished"}
             => Submitted(m.id)' /\ tasks'[m.id].channel[2] = s
      /\ \A ch \in Channels, m \in Message : Holds(deferred'[ch], m) =>
           m.type = "finished" /\ Submitted(m.id)' /\ tasks'[m.id].channel = ch
  BY <1>0 DEF MessagesOwn
<1>2. \A i \in Submissions : Submitted(i)' => tasks'[i].channel[2] < next_session_id'
  <2>1. SUFFICES ASSUME NEW i \in Submissions, Submitted(i)
                 PROVE  tasks[i].channel[2] < next_session_id'
    BY <1>0
  <2>2. tasks[i].channel[2] \in Nat /\ tasks[i].channel[2] < next_session_id
    BY <2>1, ChannelAt DEF Typed, Submitted, MessagesOwn
  <2> QED
    BY <2>2, NextSessionGrows
<1>3. /\ \A m \in Message : Holds(local'.held, m) =>
           m.type = "finished" /\ Submitted(m.id)' /\ tasks'[m.id].channel = Channel'
      /\ local'.reply.type # "finished"
      /\ local'.reply.type = "ack" =>
           /\ pc' \in {"release"} \cup Replying
           /\ Submitted(local.reply.id)' /\ tasks'[local'.reply.id].channel = Channel'
  <2>1. CASE UNCHANGED <<pc, at, local>> /\ slots'[at].session = slots[at].session
    BY <1>0, <2>1 DEF MessagesOwn, Channel, Session
  <2>2. CASE /\ pc = "writable" /\ pc' = "held" /\ UNCHANGED <<at, local>>
             /\ slots'[at].session = slots[at].session
    BY <1>0, <2>2 DEF MessagesOwn, Channel, Session, Replying
  <2>3. CASE local' = NoLocal
    BY <2>3, NoLocalFields, HoldsNothing
  <2>4. CASE /\ pc \notin Submitting \cup Replying
             /\ local'.held = local.held \/ local'.held = << >>
             /\ local'.reply = local.reply \/ local'.reply.type \in {"error", "result"}
    <3>1. local'.held = << >>
      BY <2>4 DEF BarrierOwned
    <3>2. local.reply.type \notin {"ack", "finished"}
      BY <2>4 DEF MessagesOwn, Submitting
    <3> QED
      BY <2>4, <3>1, <3>2, HoldsNothing
  <2> QED
    BY <2>1, <2>2, <2>3, <2>4, AsideEffect
<1> QED
  BY <1>1, <1>2, <1>3 DEF MessagesOwn

LEMMA OwnSubmit ==
  ASSUME Typed, Accounted, BarrierOwned, MessagesOwn, MarkWaiting \/ SubmitAsync
  PROVE  MessagesOwn'
<1>1. CASE MarkWaiting
  BY <1>1 DEF MarkWaiting, mark_waiting, registryVars, MessagesOwn, Submitted, Channel, Session,
     Replying
<1>2. CASE SubmitAsync
  <2>1. /\ pc = "submit" /\ pc' = "release" /\ Session \in Sessions /\ Channel \in Channels
        /\ UNCHANGED <<slots, deferred, at, next_session_id, queued>>
        /\ local'.held = local.held
    BY <1>2, SubmitEffect DEF registryVars, barrierVars
  <2>2. Channel' = Channel /\ local.held = << >> /\ Channel[2] = Session
    BY <2>1 DEF Channel, Session, BarrierOwned, Replying
  <2>3. Session < next_session_id
    BY <2>1, HandlingFacts, NetworkAssumption DEF Accounted, SessionsUnique, Session, Sessions
  <2>4. CASE tasks' = tasks /\ local'.reply = Msg("error", 0)
    <3>1. local'.reply.type = "error" /\ \A i : Submitted(i)' <=> Submitted(i)
      BY <2>4 DEF Msg, Submitted
    <3> QED
      BY <2>1, <2>2, <2>4, <3>1, HoldsNothing DEF MessagesOwn
  <2>5. CASE \E i \in Submissions :
               /\ tasks[i].pc = "none"
               /\ tasks' = [tasks EXCEPT ![i] = [channel |-> Channel, pc |-> "judging"]]
               /\ local'.reply = Msg("ack", i)
    <3>1. PICK i \in Submissions :
               /\ tasks[i].pc = "none"
               /\ tasks' = [tasks EXCEPT ![i] = [channel |-> Channel, pc |-> "judging"]]
               /\ local'.reply = Msg("ack", i)
      BY <2>5
    <3>2. tasks \in [Submissions -> [channel : Channels \cup {<<0, 0>>}, pc : TaskStates]]
      BY DEF Typed, LocalTypes
    <3>3. /\ tasks'[i].channel = Channel /\ tasks'[i].pc = "judging"
          /\ \A j \in Submissions : j # i => tasks'[j] = tasks[j]
      BY <3>1, <3>2
    <3>4. ~ Submitted(i) /\ Submitted(i)'
          /\ \A j : Submitted(j) => j # i /\ Submitted(j)' /\ tasks'[j] = tasks[j]
      BY <3>1, <3>3 DEF Submitted
    <3>5. /\ \A s \in Sessions, m \in Message :
               Holds(queued'[s], m) /\ m.type \in {"ack", "finished"}
                 => Submitted(m.id)' /\ tasks'[m.id].channel[2] = s
          /\ \A ch \in Channels, m \in Message : Holds(deferred'[ch], m) =>
               m.type = "finished" /\ Submitted(m.id)' /\ tasks'[m.id].channel = ch
      BY <2>1, <3>4 DEF MessagesOwn
    <3>6. \A j \in Submissions : Submitted(j)' => tasks'[j].channel[2] < next_session_id'
      <4>1. ASSUME NEW j \in Submissions, Submitted(j)'
            PROVE  tasks'[j].channel[2] < next_session_id
        <5>1. CASE j = i
          BY <2>2, <2>3, <3>3, <5>1
        <5>2. CASE j # i
          BY <3>3, <4>1, <5>2 DEF MessagesOwn, Submitted
        <5> QED
          BY <5>1, <5>2
      <4> QED
        BY <2>1, <4>1
    <3>7. local'.reply.type = "ack" /\ local'.reply.id = i
      BY <3>1 DEF Msg
    <3> QED
      BY <2>1, <2>2, <3>3, <3>4, <3>5, <3>6, <3>7, HoldsNothing DEF MessagesOwn
  <2> QED
    BY <1>2, <2>4, <2>5, SubmitEffect
<1> QED
  BY <1>1, <1>2

LEMMA OwnRelease ==
  ASSUME Typed, MessagesOwn, ReleaseBarrier
  PROVE  MessagesOwn'
<1>0. deferred \in [Channels -> Seq(Message)]
  BY TypeParts DEF Typed, BarrierTypes
<1>1. /\ pc = "release" /\ pc' = "reply" /\ Channel \in Channels
      /\ UNCHANGED <<slots, at, next_session_id, tasks, queued>>
      /\ deferred' = [deferred EXCEPT ![Channel] = << >>]
      /\ local'.reply = local.reply /\ local'.held = deferred[Channel]
  BY ReleaseBarrierEffect DEF registryVars
<1>2. Channel' = Channel /\ \A i : Submitted(i)' <=> Submitted(i)
  BY <1>1 DEF Channel, Session, Submitted
<1>3. \A ch \in Channels : \A m : Holds(deferred'[ch], m) => Holds(deferred[ch], m)
  <2>1. ASSUME NEW ch \in Channels, NEW m, Holds(deferred'[ch], m)
        PROVE  Holds(deferred[ch], m)
    <3>1. CASE ch = Channel
      <4>1. deferred'[ch] = << >>
        BY <1>0, <1>1, <3>1
      <4> QED
        BY <2>1, <4>1, HoldsNothing
    <3>2. CASE ch # Channel
      BY <1>0, <1>1, <2>1, <3>2
    <3> QED
      BY <3>1, <3>2
  <2> QED
    BY <2>1
<1> QED
  BY <1>1, <1>2, <1>3 DEF MessagesOwn, Replying

\* A message is put behind the ones that are queued for session s.
LEMMA QueuedHolds ==
  ASSUME QueuedTypes, NEW s \in Sessions, NEW x \in Message,
         queued' = [queued EXCEPT ![s] = Append(queued[s], x)]
  PROVE  /\ \A r \in Sessions : \A m :
              Holds(queued'[r], m) <=> Holds(queued[r], m) \/ (r = s /\ m = x)
         /\ \A r \in Sessions : \A m :
              Once(queued[r], m) /\ ~ (r = s /\ m = x /\ Holds(queued[r], m)) => Once(queued'[r], m)
<1>0. queued[s] \in Seq(Message)
  BY DEF QueuedTypes
<1>1. /\ queued'[s] = Append(queued[s], x)
      /\ \A r \in Sessions : r # s => queued'[r] = queued[r]
  BY DEF QueuedTypes
<1>2. \A m : /\ Holds(Append(queued[s], x), m) <=> Holds(queued[s], m) \/ x = m
             /\ Once(queued[s], m) /\ ~ (x = m /\ Holds(queued[s], m))
                  => Once(Append(queued[s], x), m)
  BY <1>0, HoldsAppend
<1>3. PICK z : z = Append(queued[s], x)
  OBVIOUS
<1> QED
  BY <1>1, <1>2, <1>3, Zenon

LEMMA OwnQueueReply ==
  ASSUME Typed, MessagesOwn, QueueReply
  PROVE  MessagesOwn'
<1>0. QueuedTypes /\ local.reply \in Message
  BY TypeParts, HandlingFacts DEF Typed
<1>1. /\ pc = "reply" /\ pc' = "writable" /\ Session \in Sessions
      /\ UNCHANGED <<deferred, at, local, next_session_id, tasks>>
      /\ queued' = [queued EXCEPT ![Session] = Append(queued[Session], local.reply)]
  BY QueueReplyEffect DEF barrierVars
<1>2. slots'[at].session = slots[at].session
  BY TypeParts, QueueReplyEffect DEF Typed, LoopTypes
<1>3. Channel' = Channel /\ Channel[2] = Session /\ \A i : Submitted(i)' <=> Submitted(i)
  BY <1>1, <1>2 DEF Channel, Session, Submitted
<1>4. \A r \in Sessions : \A m : Holds(queued'[r], m) =>
        Holds(queued[r], m) \/ (r = Session /\ m = local.reply)
  BY <1>0, <1>1, QueuedHolds
<1>5. \A s \in Sessions, m \in Message :
        Holds(queued'[s], m) /\ m.type \in {"ack", "finished"}
          => Submitted(m.id) /\ tasks[m.id].channel[2] = s
  <2>1. ASSUME NEW s \in Sessions, NEW m \in Message, Holds(queued'[s], m),
               m.type \in {"ack", "finished"}
        PROVE  Submitted(m.id) /\ tasks[m.id].channel[2] = s
    <3>1. CASE Holds(queued[s], m)
      BY <2>1, <3>1 DEF MessagesOwn
    <3>2. CASE s = Session /\ m = local.reply
      BY <1>3, <2>1, <3>2 DEF MessagesOwn
    <3> QED
      BY <1>4, <2>1, <3>1, <3>2
  <2> QED
    BY <2>1
<1> QED
  BY <1>1, <1>3, <1>5 DEF MessagesOwn, Replying

LEMMA OwnQueueHeld ==
  ASSUME Typed, MessagesOwn, QueueHeld
  PROVE  MessagesOwn'
<1>0. QueuedTypes /\ local \in LocalRec /\ local.held \in Seq(Message) /\ at \in Slots /\ fds \in FdsType
  BY TypeParts, HandlingFacts DEF Typed
<1> DEFINE x == Head(local.held)
<1>1. /\ pc = "held" /\ Session \in Sessions /\ x \in Message /\ local.held # << >>
      /\ UNCHANGED <<deferred, next_session_id, tasks>>
      /\ queued' = [queued EXCEPT ![Session] = Append(queued[Session], x)]
      /\ set_pending_response_if_session(at, Session, x)
  BY QueueHeldEffect DEF barrierVars
<1>2. slots'[at].session = slots[at].session
  BY <1>0, <1>1, QueueIfEffect
<1>3. Channel[2] = Session /\ \A i : Submitted(i)' <=> Submitted(i)
  BY <1>1 DEF Channel, Session, Submitted
<1>4. \A m : Holds(local.held, m) <=> x = m \/ Holds(Tail(local.held), m)
  BY <1>0, <1>1, HoldsTail
<1> HIDE DEF x
<1>5. \A r \in Sessions : \A m : Holds(queued'[r], m) =>
        Holds(queued[r], m) \/ (r = Session /\ m = x)
  BY <1>0, <1>1, QueuedHolds
<1>6. Submitted(x.id) /\ tasks[x.id].channel[2] = Session
  BY <1>1, <1>3, <1>4 DEF MessagesOwn
<1>7. \A s \in Sessions, m \in Message :
        Holds(queued'[s], m) /\ m.type \in {"ack", "finished"}
          => Submitted(m.id) /\ tasks[m.id].channel[2] = s
  BY <1>5, <1>6 DEF MessagesOwn
<1>8. CASE LeaveEvent
  <2>1. local' = NoLocal
    BY <1>0, <1>8, LeaveEventEffect
  <2> QED
    BY <1>1, <1>3, <1>7, <2>1, NoLocalFields, HoldsNothing DEF MessagesOwn
<1>9. CASE local' = [local EXCEPT !.held = Tail(local.held)] /\ UNCHANGED <<pc, at, fds>>
  <2>1. local'.held = Tail(local.held) /\ local'.reply = local.reply
    BY <1>0, <1>9 DEF LocalRec
  <2>2. Channel' = Channel
    BY <1>2, <1>9 DEF Channel, Session
  <2> QED
    BY <1>1, <1>3, <1>4, <1>7, <1>9, <2>1, <2>2 DEF MessagesOwn, Replying
<1> QED
  BY <1>8, <1>9, QueueHeldEffect

LEMMA OwnWorker ==
  ASSUME Typed, MessagesOwn, NEW i \in Submissions, WorkerHook(i)
  PROVE  MessagesOwn'
<1>0. QueuedTypes /\ deferred \in [Channels -> Seq(Message)]
  BY TypeParts DEF Typed, BarrierTypes
<1> DEFINE ch == tasks[i].channel
           x  == Msg("finished", i)
<1>1. UNCHANGED <<pc, at, local, next_session_id>> /\ Channel' = Channel
  BY WorkerKeepsChannel
<1>2. Submitted(i) /\ \A j : Submitted(j)' <=> Submitted(j)
  BY WorkerSubmitted
<1>3. \A j : Submitted(j) => tasks'[j].channel = tasks[j].channel
  BY WorkerTask DEF Submitted
<1>4. /\ ch \in Channels /\ ch[2] \in Sessions /\ x \in Message
      /\ x.type = "finished" /\ x.id = i
  BY WorkerEffect DEF Msg
<1> HIDE DEF x
<1>5. \A s \in Sessions, m \in Message : Holds(queued'[s], m) =>
        Holds(queued[s], m) \/ (s = ch[2] /\ m = x)
  <2>1. CASE queued' = queued
    BY <2>1
  <2>2. CASE queued' = [queued EXCEPT ![ch[2]] = Append(queued[ch[2]], x)]
    BY <1>0, <1>4, <2>2, QueuedHolds
  <2> QED
    BY <2>1, <2>2, WorkerEffect DEF x
<1>6. \A c \in Channels, m \in Message : Holds(deferred'[c], m) =>
        Holds(deferred[c], m) \/ (c = ch /\ m = x)
  <2>1. CASE deferred' = deferred
    BY <2>1
  <2>2. CASE deferred' = [deferred EXCEPT ![ch] = Append(deferred[ch], x)]
    <3>1. /\ \A m : Holds(Append(deferred[ch], x), m) <=> Holds(deferred[ch], m) \/ x = m
      BY <1>0, <1>4, HoldsAppend
    <3>2. /\ deferred'[ch] = Append(deferred[ch], x)
          /\ \A c \in Channels : c # ch => deferred'[c] = deferred[c]
      BY <1>0, <1>4, <2>2
    <3> QED
      BY <3>1, <3>2, Zenon
  <2> QED
    BY <2>1, <2>2, WorkerEffect DEF x
<1>7. \A s \in Sessions, m \in Message :
        Holds(queued'[s], m) /\ m.type \in {"ack", "finished"}
          => Submitted(m.id) /\ tasks'[m.id].channel[2] = s
  BY <1>2, <1>3, <1>4, <1>5 DEF MessagesOwn
<1>8. \A c \in Channels, m \in Message : Holds(deferred'[c], m) =>
        m.type = "finished" /\ Submitted(m.id) /\ tasks'[m.id].channel = c
  BY <1>2, <1>3, <1>4, <1>6 DEF MessagesOwn
<1> QED
  BY <1>1, <1>2, <1>3, <1>7, <1>8 DEF MessagesOwn

LEMMA OwnStep ==
  ASSUME Typed, Accounted, BarrierOwned, MessagesOwn, [NetNext]_netVars
  PROVE  MessagesOwn'
BY OwnAside, OwnSubmit, OwnRelease, OwnQueueReply, OwnQueueHeld, OwnWorker DEF Aside

LEMMA AckSubmit ==
  ASSUME Typed, MessagesOwn, AckComes, SubmitAsync
  PROVE  AckComes'
<1>1. pc = "submit" /\ pc' = "release" /\ UNCHANGED queued
  BY SubmitEffect
<1>2. \A i \in Submissions : Submitted(i) => Holds(queued[tasks[i].channel[2]], Msg("ack", i))
  BY <1>1 DEF AckComes
<1>3. CASE tasks' = tasks /\ local'.reply = Msg("error", 0)
  <2>1. \A i : local'.reply # Msg("ack", i)
    BY <1>3, MsgInjective
  <2> QED
    BY <1>1, <1>2, <1>3, <2>1 DEF AckComes, Submitted
<1>4. CASE \E i \in Submissions :
             /\ tasks[i].pc = "none"
             /\ tasks' = [tasks EXCEPT ![i] = [channel |-> Channel, pc |-> "judging"]]
             /\ local'.reply = Msg("ack", i)
  <2>1. PICK i \in Submissions :
             /\ tasks[i].pc = "none"
             /\ tasks' = [tasks EXCEPT ![i] = [channel |-> Channel, pc |-> "judging"]]
             /\ local'.reply = Msg("ack", i)
    BY <1>4
  <2>2. tasks \in [Submissions -> [channel : Channels \cup {<<0, 0>>}, pc : TaskStates]]
    BY DEF Typed, LocalTypes
  <2>3. tasks'[i].pc = "judging" /\ \A j \in Submissions : j # i => tasks'[j] = tasks[j]
    BY <2>1, <2>2
  <2>4. \A j \in Submissions : local'.reply = Msg("ack", j) => j = i
    BY <2>1, MsgInjective
  <2>5. \A s \in Sessions : ~ Holds(queued[s], Msg("finished", i))
    <3>1. /\ Msg("finished", i) \in Message /\ Msg("finished", i).type = "finished"
          /\ Msg("finished", i).id = i
      BY MessageType, NetworkAssumption DEF Submissions
    <3>2. ~ Submitted(i)
      BY <2>1 DEF Submitted
    <3> QED
      BY <3>1, <3>2 DEF MessagesOwn
  <2>6. ASSUME NEW j \in Submissions, Submitted(j)'
        PROVE  \/ Holds(queued'[tasks'[j].channel[2]], Msg("ack", j))
               \/ local'.reply = Msg("ack", j)
    <3>1. CASE j = i
      BY <2>1, <3>1
    <3>2. CASE j # i
      BY <1>1, <1>2, <2>3, <2>6, <3>2 DEF Submitted
    <3> QED
      BY <3>1, <3>2
  <2>7. ASSUME NEW j \in Submissions, local'.reply = Msg("ack", j)
        PROVE  /\ tasks'[j].pc \notin {"queue", "wake"}
               /\ \A s \in Sessions : ~ Holds(queued'[s], Msg("finished", j))
    <3>1. j = i
      BY <2>4, <2>7
    <3> QED
      BY <1>1, <2>3, <2>5, <3>1
  <2> QED
    BY <1>1, <2>6, <2>7 DEF AckComes
<1> QED
  BY <1>3, <1>4, SubmitEffect

LEMMA AckQueueReply ==
  ASSUME Typed, MessagesOwn, AckComes, QueueReply
  PROVE  AckComes'
<1>0. QueuedTypes /\ local.reply \in Message
  BY TypeParts, HandlingFacts DEF Typed
<1>1. /\ pc = "reply" /\ pc' = "writable" /\ Session \in Sessions /\ UNCHANGED tasks
      /\ queued' = [queued EXCEPT ![Session] = Append(queued[Session], local.reply)]
  BY QueueReplyEffect
<1>2. \A r \in Sessions : \A m :
        Holds(queued'[r], m) <=> Holds(queued[r], m) \/ (r = Session /\ m = local.reply)
  BY <1>0, <1>1, QueuedHolds
<1>3. ASSUME NEW i \in Submissions, Submitted(i)
      PROVE  Holds(queued'[tasks[i].channel[2]], Msg("ack", i))
  <2>1. tasks[i].channel[2] \in Sessions
    BY <1>3, ChannelAt DEF Typed, Submitted
  <2>2. CASE Holds(queued[tasks[i].channel[2]], Msg("ack", i))
    BY <1>2, <2>1, <2>2
  <2>3. CASE local.reply = Msg("ack", i)
    <3>1. local.reply.type = "ack" /\ local.reply.id = i
      BY <2>3 DEF Msg
    <3>2. tasks[i].channel[2] = Session
      BY <3>1 DEF MessagesOwn, Channel
    <3> QED
      BY <1>1, <1>2, <2>3, <3>2
  <2> QED
    BY <1>3, <2>2, <2>3 DEF AckComes
<1> QED
  BY <1>1, <1>3 DEF AckComes, Submitted

LEMMA AckWorker ==
  ASSUME Typed, BarrierOwned, MessagesOwn, AckComes, NEW w \in Submissions, WorkerHook(w)
  PROVE  AckComes'
<1>0. QueuedTypes /\ LocalTypes
  BY TypeParts DEF Typed
<1> DEFINE ch == tasks[w].channel
           x  == Msg("finished", w)
<1>1. UNCHANGED <<pc, at, local>> /\ \A j : Submitted(j)' <=> Submitted(j)
  BY WorkerKeepsChannel, WorkerSubmitted
<1>2. \A j \in Submissions : tasks'[j].channel = tasks[j].channel
  BY WorkerTask
<1>3. ch[2] \in Sessions /\ x \in Message /\ tasks[w].pc # "none"
  BY WorkerEffect
<1>4. \A s \in Sessions : \A m : Holds(queued[s], m) => Holds(queued'[s], m)
  <2>1. CASE queued' = queued
    BY <2>1
  <2>2. CASE queued' = [queued EXCEPT ![ch[2]] = Append(queued[ch[2]], x)]
    <3> HIDE DEF x
    <3> QED
      BY <1>0, <1>3, <2>2, QueuedHolds
  <2> QED
    BY <2>1, <2>2, WorkerEffect
<1>5. ASSUME NEW i \in Submissions, Submitted(i)
      PROVE  \/ Holds(queued'[tasks'[i].channel[2]], Msg("ack", i))
             \/ pc' \in {"release", "reply"} /\ local'.reply = Msg("ack", i)
  <2>1. tasks[i].channel[2] \in Sessions
    BY <1>5, ChannelAt DEF Typed, Submitted
  <2> QED
    BY <1>1, <1>2, <1>4, <1>5, <2>1 DEF AckComes
<1>6. ASSUME pc = "release", NEW i \in Submissions, local.reply = Msg("ack", i)
      PROVE  /\ tasks'[i].pc \notin {"queue", "wake"}
             /\ \A s \in Sessions : ~ Holds(queued'[s], Msg("finished", i))
  <2>1. /\ tasks[i].pc \notin {"queue", "wake"}
        /\ \A s \in Sessions : ~ Holds(queued[s], Msg("finished", i))
    BY <1>6 DEF AckComes
  <2>2. tasks[i].channel = Channel /\ Channel \in awaiting
    <3>1. local.reply.type = "ack" /\ local.reply.id = i
      BY <1>6 DEF Msg
    <3> QED
      BY <1>6, <3>1 DEF MessagesOwn, BarrierOwned
  <2>3. CASE w # i
    <3>1. tasks'[i] = tasks[i]
      BY <2>3, WorkerTask
    <3>2. x # Msg("finished", i)
      BY <2>3, MsgInjective
    <3>3. \A s \in Sessions : ~ Holds(queued'[s], Msg("finished", i))
      <4>1. CASE queued' = queued
        BY <2>1, <4>1
      <4>2. CASE queued' = [queued EXCEPT ![ch[2]] = Append(queued[ch[2]], x)]
        <5> HIDE DEF x
        <5>1. \A r \in Sessions : \A m :
                Holds(queued'[r], m) <=> Holds(queued[r], m) \/ (r = ch[2] /\ m = x)
          BY <1>0, <1>3, <4>2, QueuedHolds
        <5> QED
          BY <2>1, <3>2, <5>1
      <4> QED
        BY <4>1, <4>2, WorkerEffect
    <3> QED
      BY <2>1, <3>1, <3>3
  <2>4. CASE w = i
    <3>1. \/ WorkerMoves(w, "judging", "defer") \/ WorkerMoves(w, "judging", "silent")
          \/ WorkerMoves(w, "defer", "done")
      BY <2>1, <2>2, <2>4, WorkerEffect DEF WorkerMoves
    <3>2. tasks'[w].pc \in {"defer", "silent", "done"}
      <4>1. pc' = pc /\ tasks[w].pc # "none"
        BY <1>1, <1>3
      <4> QED
        BY <1>0, <3>1, <4>1, TaskMoves DEF TaskStates
    <3>3. queued' = queued
      BY <2>1, <2>2, <2>4, WorkerEffect DEF WorkerMoves
    <3> QED
      BY <2>1, <2>4, <3>2, <3>3
  <2> QED
    BY <2>3, <2>4
<1> QED
  BY <1>1, <1>5, <1>6 DEF AckComes

LEMMA AckStep ==
  ASSUME Typed, BarrierOwned, MessagesOwn, AckComes, [NetNext]_netVars
  PROVE  AckComes'
<1>1. CASE Aside
  <2>1. UNCHANGED <<tasks, queued>>
    BY <1>1, AsideEffect
  <2>2. CASE UNCHANGED <<pc, local>>
    BY <2>1, <2>2 DEF AckComes, Submitted
  <2>3. CASE pc \notin {"release", "reply"} /\ pc' # "release"
    BY <2>1, <2>3 DEF AckComes, Submitted
  <2> QED
    BY <1>1, <2>2, <2>3, AsideEffect DEF Submitting, Replying
<1>2. CASE MarkWaiting
  BY <1>2 DEF MarkWaiting, AckComes, Submitted
<1>3. CASE ReleaseBarrier
  <2>1. pc = "release" /\ pc' = "reply" /\ UNCHANGED <<tasks, queued>> /\ local'.reply = local.reply
    BY <1>3, ReleaseBarrierEffect
  <2> QED
    BY <2>1 DEF AckComes, Submitted
<1>4. CASE QueueHeld
  <2>0. QueuedTypes /\ at \in Slots /\ fds \in FdsType
    BY TypeParts DEF Typed, LoopTypes
  <2>1. /\ pc = "held" /\ Session \in Sessions /\ Head(local.held) \in Message /\ UNCHANGED tasks
        /\ queued' = [queued EXCEPT ![Session] = Append(queued[Session], Head(local.held))]
        /\ LeaveEvent \/ pc' = pc
    BY <1>4, QueueHeldEffect
  <2>2. pc' \notin {"release"}
    BY <2>0, <2>1, LeaveEventEffect
  <2>3. \A s \in Sessions : \A m : Holds(queued[s], m) => Holds(queued'[s], m)
    BY <2>0, <2>1, QueuedHolds
  <2>4. ASSUME NEW i \in Submissions, Submitted(i)
        PROVE  Holds(queued'[tasks[i].channel[2]], Msg("ack", i))
    <3>1. tasks[i].channel[2] \in Sessions
      BY <2>4, ChannelAt DEF Typed, Submitted
    <3> QED
      BY <2>1, <2>3, <2>4, <3>1 DEF AckComes
  <2> QED
    BY <2>1, <2>2, <2>4 DEF AckComes, Submitted
<1> QED
  BY <1>1, <1>2, <1>3, <1>4, AckSubmit, AckQueueReply, AckWorker DEF Aside

\* A slot holds a connection that was accepted before only if it did before.
LEMMA SessionKept ==
  ASSUME Typed, Accounted, [NetNext]_netVars, NEW i \in Slots, NEW s \in Sessions,
         s < next_session_id, slots'[i].session = s
  PROVE  slots[i].session = s
<1>0. SlotsTyped /\ at \in Slots /\ s \in Nat /\ s # 0 /\ next_session_id \in Nat
  BY TypeParts, NetworkAssumption DEF Typed, RegistryTypes, LoopTypes, Sessions
<1>1. CASE Accept
  <2>1. CASE /\ Head(free) \in Slots /\ next_session_id \in Sessions
             /\ slots' = [slots EXCEPT ![Head(free)] = ConnectedSlot(next_session_id)]
    <3>1. i # Head(free)
      <4>1. ConnectedSlot(next_session_id).session = next_session_id
        BY <2>1, EmptySlotType
      <4> QED
        BY <1>0, <2>1, <4>1 DEF SlotsTyped
    <3> QED
      BY <1>0, <2>1, <3>1 DEF SlotsTyped
  <2> QED
    BY <1>1, <2>1, AcceptEffect DEF registryVars
<1>2. CASE Releases
  <2>1. slots' = [slots EXCEPT ![at] = EmptySlot]
    BY <1>2, ReleasesEffect, ReleaseEffect
  <2> QED
    BY <1>0, <2>1, EmptySlotType DEF SlotsTyped
<1>3. CASE ~ Accept /\ ~ Releases
  BY <1>3, KeepsConnections
<1> QED
  BY <1>1, <1>2, <1>3

LEMMA NotHeldOnce ==
  ASSUME NEW q, NEW m, ~ Holds(q, m)
  PROVE  Once(q, m)
BY DEF Holds, Once

\* What holds of the result of one submission in three places, by what each
\* place holds.
Placed(q, d, h, m, place, there) ==
  /\ Once(q, m) /\ Once(d, m) /\ Once(h, m)
  /\ ~ (Holds(q, m) /\ Holds(d, m))
  /\ ~ (Holds(q, m) /\ Holds(h, m))
  /\ ~ (Holds(d, m) /\ Holds(h, m))
  /\ place \in {"judging", "defer", "silent", "queue"} =>
       ~ Holds(q, m) /\ ~ Holds(d, m) /\ ~ Holds(h, m)
  /\ place \in {"wake", "done"} /\ there => Holds(q, m) \/ Holds(d, m) \/ Holds(h, m)

LEMMA OnceIsPlaced ==
  ASSUME NEW i
  PROVE  /\ OnceFor(i) <=>
              Placed(queued[tasks[i].channel[2]], deferred[tasks[i].channel], local.held,
                     Msg("finished", i), tasks[i].pc,
                     slots[tasks[i].channel[1]].session = tasks[i].channel[2])
         /\ OnceFor(i)' <=>
              Placed(queued'[tasks'[i].channel[2]], deferred'[tasks'[i].channel], local'.held,
                     Msg("finished", i), tasks'[i].pc,
                     slots'[tasks'[i].channel[1]].session = tasks'[i].channel[2])
BY DEF OnceFor, Placed

\* A step that does not touch the places of submission i.
LEMMA PlacedKept ==
  ASSUME Typed, Accounted, MessagesOwn, [NetNext]_netVars,
         NEW i \in Submissions, Submitted(i), OnceFor(i),
         tasks'[i] = tasks[i],
         LET m == Msg("finished", i)
             ch == tasks[i].channel
         IN  /\ Holds(queued'[ch[2]], m) <=> Holds(queued[ch[2]], m)
             /\ Once(queued[ch[2]], m) => Once(queued'[ch[2]], m)
             /\ deferred'[ch] = deferred[ch]
             /\ local'.held = local.held
  PROVE  OnceFor(i)'
<1> DEFINE m == Msg("finished", i)
           ch == tasks[i].channel
<1>1. /\ ch[1] \in Slots /\ ch[2] \in Sessions /\ ch[2] < next_session_id
  BY ChannelAt DEF Typed, Submitted, MessagesOwn
<1>2. slots'[ch[1]].session = ch[2] => slots[ch[1]].session = ch[2]
  BY <1>1, SessionKept
<1>3. Placed(queued[ch[2]], deferred[ch], local.held, m, tasks[i].pc,
             slots[ch[1]].session = ch[2])
  BY OnceIsPlaced
<1>4. Placed(queued'[ch[2]], deferred'[ch], local'.held, m, tasks'[i].pc,
             slots'[ch[1]].session = ch[2])
  BY <1>2, <1>3 DEF Placed
<1> QED
  BY <1>4, OnceIsPlaced

LEMMA OnceAside ==
  ASSUME Typed, Accounted, BarrierOwned, MessagesOwn, OncePerPlace, [NetNext]_netVars,
         Aside \/ MarkWaiting
  PROVE  OncePerPlace'
<1>1. UNCHANGED <<deferred, tasks, queued>> /\ local'.held = local.held
  <2>1. CASE MarkWaiting
    BY <2>1 DEF MarkWaiting, mark_waiting
  <2>2. CASE Aside
    <3>1. UNCHANGED <<deferred, tasks, queued>>
      BY <2>2, AsideEffect
    <3>2. CASE UNCHANGED local
      BY <3>1, <3>2
    <3>3. CASE local.held = << >> /\ local' = NoLocal
      BY <3>1, <3>3, NoLocalFields
    <3>4. CASE /\ pc \notin Submitting \cup Replying
               /\ local'.held = local.held \/ local'.held = << >>
      BY <3>1, <3>4 DEF BarrierOwned
    <3> QED
      BY <2>2, <3>2, <3>3, <3>4, AsideEffect
  <2> QED
    BY <2>1, <2>2
<1>2. SUFFICES ASSUME NEW i \in Submissions, Submitted(i)
               PROVE  OnceFor(i)'
  BY <1>1 DEF OncePerPlace, Submitted
<1>3. OnceFor(i)
  BY <1>2 DEF OncePerPlace
<1> QED
  BY <1>1, <1>2, <1>3, PlacedKept

LEMMA OnceSubmit ==
  ASSUME Typed, Accounted, BarrierOwned, MessagesOwn, OncePerPlace, [NetNext]_netVars, SubmitAsync
  PROVE  OncePerPlace'
<1>1. /\ pc = "submit" /\ Channel \in Channels /\ Session \in Sessions
      /\ UNCHANGED <<deferred, queued>> /\ local'.held = local.held
  BY SubmitEffect DEF barrierVars
<1>2. SUFFICES ASSUME NEW i \in Submissions, Submitted(i)'
               PROVE  OnceFor(i)'
  BY DEF OncePerPlace
<1>3. CASE tasks'[i] = tasks[i]
  <2>1. Submitted(i)
    BY <1>2, <1>3 DEF Submitted
  <2>2. OnceFor(i)
    BY <2>1 DEF OncePerPlace
  <2> QED
    BY <1>1, <1>3, <2>1, <2>2, PlacedKept
<1>4. CASE tasks'[i] # tasks[i]
  <2>1. PICK j \in Submissions :
          /\ tasks[j].pc = "none"
          /\ tasks' = [tasks EXCEPT ![j] = [channel |-> Channel, pc |-> "judging"]]
    BY <1>4, SubmitEffect
  <2>2. tasks \in [Submissions -> [channel : Channels \cup {<<0, 0>>}, pc : TaskStates]]
    BY DEF Typed, LocalTypes
  <2>3. j = i /\ tasks'[i].pc = "judging" /\ tasks'[i].channel = Channel /\ ~ Submitted(i)
    BY <1>4, <2>1, <2>2 DEF Submitted
  <2> DEFINE m == Msg("finished", i)
  <2>4. m \in Message /\ m.type = "finished" /\ m.id = i
    BY MessageType, NetworkAssumption DEF Submissions
  <2>5. /\ ~ Holds(queued[Session], m) /\ ~ Holds(deferred[Channel], m) /\ ~ Holds(local.held, m)
    BY <1>1, <2>3, <2>4 DEF MessagesOwn
  <2>6. /\ Once(queued[Session], m) /\ Once(deferred[Channel], m) /\ Once(local.held, m)
    BY <2>5, NotHeldOnce
  <2>7. Placed(queued'[Session], deferred'[Channel], local'.held, m, "judging",
               slots'[Channel[1]].session = Session)
    BY <1>1, <2>5, <2>6 DEF Placed
  <2>8. Channel[2] = Session
    BY DEF Channel
  <2> QED
    BY <2>3, <2>7, <2>8, OnceIsPlaced
<1> QED
  BY <1>3, <1>4

LEMMA OnceRelease ==
  ASSUME Typed, Accounted, BarrierOwned, MessagesOwn, OncePerPlace, [NetNext]_netVars,
         ReleaseBarrier
  PROVE  OncePerPlace'
<1>0. deferred \in [Channels -> Seq(Message)]
  BY TypeParts DEF Typed, BarrierTypes
<1>1. /\ pc = "release" /\ Channel \in Channels /\ UNCHANGED <<slots, tasks, queued>>
      /\ deferred' = [deferred EXCEPT ![Channel] = << >>]
      /\ local'.held = deferred[Channel]
  BY ReleaseBarrierEffect DEF registryVars
<1>2. local.held = << >>
  BY <1>1 DEF BarrierOwned, Replying
<1>3. SUFFICES ASSUME NEW i \in Submissions, Submitted(i)
               PROVE  OnceFor(i)'
  BY <1>1 DEF OncePerPlace, Submitted
<1> DEFINE m == Msg("finished", i)
           ch == tasks[i].channel
<1>4. ch \in Channels
  BY <1>3, ChannelAt DEF Typed, Submitted
<1>5. Placed(queued[ch[2]], deferred[ch], local.held, m, tasks[i].pc,
             slots[ch[1]].session = ch[2])
  BY <1>3, OnceIsPlaced DEF OncePerPlace
<1>6. Placed(queued[ch[2]], deferred'[ch], local'.held, m, tasks[i].pc,
             slots[ch[1]].session = ch[2])
  <2>1. CASE ch = Channel
    <3>1. deferred'[ch] = << >> /\ local'.held = deferred[ch]
      BY <1>0, <1>1, <2>1
    <3> QED
      BY <1>2, <1>5, <3>1, HoldsNothing DEF Placed
  <2>2. CASE ch # Channel
    <3>1. deferred'[ch] = deferred[ch] /\ local'.held = deferred[Channel]
      BY <1>0, <1>1, <1>4, <2>2
    <3>2. m \in Message /\ m.id = i
      BY MessageType, NetworkAssumption DEF Submissions
    <3>3. ~ Holds(deferred[Channel], m)
      BY <1>1, <2>2, <3>2 DEF MessagesOwn
    <3>4. Once(deferred[Channel], m) /\ ~ Holds(local.held, m)
      BY <1>2, <3>3, NotHeldOnce, HoldsNothing
    <3> QED
      BY <1>5, <3>1, <3>3, <3>4 DEF Placed
  <2> QED
    BY <2>1, <2>2
<1> QED
  BY <1>1, <1>6, OnceIsPlaced

LEMMA OnceQueueReply ==
  ASSUME Typed, Accounted, BarrierOwned, MessagesOwn, OncePerPlace, [NetNext]_netVars, QueueReply
  PROVE  OncePerPlace'
<1>0. QueuedTypes /\ local.reply \in Message
  BY TypeParts, HandlingFacts DEF Typed
<1>1. /\ Session \in Sessions /\ UNCHANGED <<deferred, local, tasks>>
      /\ queued' = [queued EXCEPT ![Session] = Append(queued[Session], local.reply)]
  BY QueueReplyEffect DEF barrierVars
<1>2. SUFFICES ASSUME NEW i \in Submissions, Submitted(i)
               PROVE  OnceFor(i)'
  BY <1>1 DEF OncePerPlace, Submitted
<1> DEFINE m == Msg("finished", i)
           ch == tasks[i].channel
<1>3. ch[2] \in Sessions
  BY <1>2, ChannelAt DEF Typed, Submitted
<1>4. local.reply # m
  <2>1. m.type = "finished"
    BY DEF Msg
  <2> QED
    BY <2>1 DEF MessagesOwn
<1>5. /\ Holds(queued'[ch[2]], m) <=> Holds(queued[ch[2]], m)
      /\ Once(queued[ch[2]], m) => Once(queued'[ch[2]], m)
  <2> HIDE DEF m
  <2>1. /\ \A r \in Sessions : \A y :
             Holds(queued'[r], y) <=> Holds(queued[r], y) \/ (r = Session /\ y = local.reply)
        /\ \A r \in Sessions : \A y :
             Once(queued[r], y) /\ ~ (r = Session /\ y = local.reply /\ Holds(queued[r], y))
               => Once(queued'[r], y)
    BY <1>0, <1>1, QueuedHolds
  <2> QED
    BY <1>3, <1>4, <2>1
<1>6. OnceFor(i)
  BY <1>2 DEF OncePerPlace
<1> QED
  BY <1>1, <1>2, <1>5, <1>6, PlacedKept

LEMMA OnceQueueHeld ==
  ASSUME Typed, Accounted, BarrierOwned, MessagesOwn, OncePerPlace, [NetNext]_netVars, QueueHeld
  PROVE  OncePerPlace'
<1>0. QueuedTypes /\ local \in LocalRec /\ local.held \in Seq(Message) /\ at \in Slots /\ fds \in FdsType
  BY TypeParts, HandlingFacts DEF Typed
<1> DEFINE x == Head(local.held)
<1>1. /\ Session \in Sessions /\ x \in Message /\ local.held # << >>
      /\ UNCHANGED <<deferred, tasks>>
      /\ queued' = [queued EXCEPT ![Session] = Append(queued[Session], x)]
      /\ set_pending_response_if_session(at, Session, x)
  BY QueueHeldEffect DEF barrierVars
<1>2. \A j \in Slots : slots'[j].session = slots[j].session
  BY <1>0, <1>1, QueueIfEffect
<1>3. \A m : /\ Holds(local.held, m) <=> x = m \/ Holds(Tail(local.held), m)
             /\ Once(local.held, m) => Once(Tail(local.held), m)
                                       /\ ~ (x = m /\ Holds(Tail(local.held), m))
  BY <1>0, <1>1, HoldsTail
<1>4. local'.held = Tail(local.held)
  <2>1. CASE local' = [local EXCEPT !.held = Tail(local.held)]
    BY <1>0, <2>1 DEF LocalRec
  <2>2. CASE Len(local.held) = 1 /\ LeaveEvent
    <3>1. local'.held = << >>
      BY <1>0, <2>2, LeaveEventEffect, NoLocalFields
    <3>2. Tail(local.held) \in Seq(Message) /\ Len(Tail(local.held)) = 0
      BY <1>0, <1>1, <2>2, HeadTailProperties
    <3>3. Tail(local.held) = << >>
      BY <3>2, EmptySeq
    <3> QED
      BY <3>1, <3>3
  <2> QED
    BY <2>1, <2>2, QueueHeldEffect
<1>5. x.type = "finished" /\ Submitted(x.id) /\ tasks[x.id].channel = Channel
  BY <1>1, <1>3 DEF MessagesOwn
<1> HIDE DEF x
<1>6. /\ \A r \in Sessions : \A m :
           Holds(queued'[r], m) <=> Holds(queued[r], m) \/ (r = Session /\ m = x)
      /\ \A r \in Sessions : \A m :
           Once(queued[r], m) /\ ~ (r = Session /\ m = x /\ Holds(queued[r], m))
             => Once(queued'[r], m)
  BY <1>0, <1>1, QueuedHolds
<1>7. SUFFICES ASSUME NEW i \in Submissions, Submitted(i)
               PROVE  OnceFor(i)'
  BY <1>1 DEF OncePerPlace, Submitted
<1> DEFINE m == Msg("finished", i)
           ch == tasks[i].channel
<1>8. ch[1] \in Slots /\ ch[2] \in Sessions
  BY <1>7, ChannelAt DEF Typed, Submitted
<1>9. Placed(queued[ch[2]], deferred[ch], local.held, m, tasks[i].pc,
             slots[ch[1]].session = ch[2])
  BY <1>7, OnceIsPlaced DEF OncePerPlace
<1>10. m = x => ch[2] = Session
  <2>1. m.id = i
    BY DEF Msg
  <2> QED
    BY <1>5, <2>1 DEF Channel
<1>11. PICK t : t = Tail(local.held)
  OBVIOUS
<1>12. Placed(queued'[ch[2]], deferred[ch], t, m, tasks[i].pc,
             slots[ch[1]].session = ch[2])
  <2> HIDE DEF m
  <2>1. /\ Holds(local.held, m) <=> x = m \/ Holds(t, m)
        /\ Once(local.held, m) => Once(t, m) /\ ~ (x = m /\ Holds(t, m))
    BY <1>3, <1>11
  <2>2. /\ Holds(queued'[ch[2]], m) <=> Holds(queued[ch[2]], m) \/ m = x
        /\ Once(queued[ch[2]], m) /\ ~ (m = x /\ Holds(queued[ch[2]], m))
             => Once(queued'[ch[2]], m)
    BY <1>6, <1>8, <1>10
  <2> QED
    BY <1>9, <2>1, <2>2 DEF Placed
<1> QED
  BY <1>1, <1>2, <1>4, <1>8, <1>11, <1>12, OnceIsPlaced

\* The worker's own submission.
LEMMA OnceWorkerOwn ==
  ASSUME Typed, MessagesOwn, NEW w \in Submissions, WorkerHook(w), OnceFor(w)
  PROVE  OnceFor(w)'
<1>0. QueuedTypes /\ deferred \in [Channels -> Seq(Message)] /\ LocalTypes
  BY TypeParts DEF Typed, BarrierTypes
<1> DEFINE ch == tasks[w].channel
           m  == Msg("finished", w)
           q  == queued[ch[2]]
           d  == deferred[ch]
           h  == local.held
           there == slots[ch[1]].session = ch[2]
<1>1. /\ ch \in Channels /\ ch[1] \in Slots /\ ch[2] \in Sessions /\ m \in Message
      /\ tasks[w].pc # "none"
  BY WorkerEffect
<1>2. /\ tasks'[w].channel = ch /\ local' = local /\ pc' = pc
      /\ \A j \in Slots : slots'[j].session = slots[j].session
  BY WorkerTask, WorkerKeepsChannel
<1>3. Placed(q, d, h, m, tasks[w].pc, there)
  BY OnceIsPlaced
<1>4. SUFFICES Placed(queued'[ch[2]], deferred'[ch], h, m, tasks'[w].pc, there)
  BY <1>1, <1>2, OnceIsPlaced
<1>5. ASSUME NEW from, NEW to \in TaskStates \ {"none"}, WorkerMoves(w, from, to)
      PROVE  tasks[w].pc = from /\ tasks'[w].pc = to
  BY <1>0, <1>1, <1>2, <1>5, TaskMoves
<1>6. CASE /\ WorkerMoves(w, "judging", "defer") \/ WorkerMoves(w, "judging", "silent")
           /\ UNCHANGED <<deferred, queued>>
  BY <1>3, <1>5, <1>6 DEF Placed, TaskStates
<1>7. CASE /\ WorkerMoves(w, "defer", "done")
           /\ deferred' = [deferred EXCEPT ![ch] = Append(deferred[ch], m)]
           /\ UNCHANGED queued
  <2>1. tasks[w].pc = "defer" /\ tasks'[w].pc = "done"
    BY <1>5, <1>7 DEF TaskStates
  <2>2. deferred'[ch] = Append(deferred[ch], m)
    BY <1>0, <1>1, <1>7
  <2> HIDE DEF m
  <2>3. /\ Holds(Append(deferred[ch], m), m)
        /\ Once(deferred[ch], m) /\ ~ Holds(deferred[ch], m) => Once(Append(deferred[ch], m), m)
    BY <1>0, <1>1, HoldsAppend
  <2>4. PICK e : e = Append(deferred[ch], m)
    OBVIOUS
  <2>5. /\ deferred'[ch] = e /\ Holds(e, m)
        /\ Once(deferred[ch], m) /\ ~ Holds(deferred[ch], m) => Once(e, m)
    BY <2>2, <2>3, <2>4, Zenon
  <2> QED
    BY <1>3, <1>7, <2>1, <2>5 DEF Placed
<1>8. CASE WorkerMoves(w, "defer", "queue") /\ UNCHANGED <<deferred, queued>>
  BY <1>3, <1>5, <1>8 DEF Placed, TaskStates
<1>9. CASE /\ WorkerMoves(w, "queue", "wake")
           /\ queued' = [queued EXCEPT ![ch[2]] = Append(queued[ch[2]], m)]
           /\ UNCHANGED deferred
  <2>1. tasks[w].pc = "queue" /\ tasks'[w].pc = "wake"
    BY <1>5, <1>9 DEF TaskStates
  <2> HIDE DEF m
  <2>2. /\ \A r \in Sessions : \A y :
             Holds(queued'[r], y) <=> Holds(queued[r], y) \/ (r = ch[2] /\ y = m)
        /\ \A r \in Sessions : \A y :
             Once(queued[r], y) /\ ~ (r = ch[2] /\ y = m /\ Holds(queued[r], y))
               => Once(queued'[r], y)
    BY <1>0, <1>1, <1>9, QueuedHolds
  <2>3. Holds(queued'[ch[2]], m) /\ (Once(q, m) /\ ~ Holds(q, m) => Once(queued'[ch[2]], m))
    BY <1>1, <2>2
  <2> QED
    BY <1>3, <1>9, <2>1, <2>3 DEF Placed
<1>10. CASE /\ WorkerMoves(w, "queue", "done") /\ ~ there
            /\ UNCHANGED <<deferred, queued>>
  BY <1>3, <1>5, <1>10 DEF Placed, TaskStates
<1>11. CASE WorkerMoves(w, "wake", "done") /\ UNCHANGED <<deferred, queued>>
  BY <1>3, <1>5, <1>11 DEF Placed, TaskStates
<1> QED
  BY <1>6, <1>7, <1>8, <1>9, <1>10, <1>11, WorkerEffect

LEMMA OnceWorker ==
  ASSUME Typed, Accounted, MessagesOwn, OncePerPlace, [NetNext]_netVars,
         NEW w \in Submissions, WorkerHook(w)
  PROVE  OncePerPlace'
<1>0. QueuedTypes /\ deferred \in [Channels -> Seq(Message)]
  BY TypeParts DEF Typed, BarrierTypes
<1>1. SUFFICES ASSUME NEW i \in Submissions, Submitted(i)
               PROVE  OnceFor(i)'
  BY WorkerSubmitted DEF OncePerPlace
<1>2. OnceFor(i)
  BY <1>1 DEF OncePerPlace
<1>3. CASE i = w
  BY <1>2, <1>3, OnceWorkerOwn
<1>4. CASE i # w
  <2> DEFINE ch == tasks[i].channel
             m  == Msg("finished", i)
             c  == tasks[w].channel
             x  == Msg("finished", w)
  <2>1. tasks'[i] = tasks[i] /\ local' = local
    BY <1>4, WorkerTask, WorkerKeepsChannel
  <2>2. m # x
    BY <1>4, MsgInjective
  <2>3. /\ ch \in Channels /\ ch[2] \in Sessions
        /\ c \in Channels /\ c[2] \in Sessions /\ x \in Message
    BY <1>1, ChannelAt, WorkerEffect DEF Typed, Submitted
  <2>4. /\ Holds(queued'[ch[2]], m) <=> Holds(queued[ch[2]], m)
        /\ Once(queued[ch[2]], m) => Once(queued'[ch[2]], m)
    <3>1. CASE queued' = queued
      BY <3>1
    <3>2. CASE queued' = [queued EXCEPT ![c[2]] = Append(queued[c[2]], x)]
      <4> HIDE DEF m, x
      <4>1. /\ \A r \in Sessions : \A y :
                 Holds(queued'[r], y) <=> Holds(queued[r], y) \/ (r = c[2] /\ y = x)
            /\ \A r \in Sessions : \A y :
                 Once(queued[r], y) /\ ~ (r = c[2] /\ y = x /\ Holds(queued[r], y))
                   => Once(queued'[r], y)
        BY <1>0, <2>3, <3>2, QueuedHolds
      <4> QED
        BY <2>2, <2>3, <4>1
    <3> QED
      BY <3>1, <3>2, WorkerEffect
  <2>5. /\ Holds(deferred'[ch], m) <=> Holds(deferred[ch], m)
        /\ Once(deferred[ch], m) => Once(deferred'[ch], m)
    <3>1. CASE deferred' = deferred
      BY <3>1
    <3>2. CASE deferred' = [deferred EXCEPT ![c] = Append(deferred[c], x)]
      <4> HIDE DEF m, x
      <4>1. CASE ch = c
        <5>1. deferred'[ch] = Append(deferred[ch], x)
          BY <1>0, <2>3, <3>2, <4>1
        <5>2. /\ Holds(Append(deferred[ch], x), m) <=> Holds(deferred[ch], m) \/ x = m
              /\ Once(deferred[ch], m) /\ ~ (x = m /\ Holds(deferred[ch], m))
                   => Once(Append(deferred[ch], x), m)
          BY <1>0, <2>3, HoldsAppend
        <5> QED
          BY <2>2, <5>1, <5>2, Zenon
      <4>2. CASE ch # c
        BY <1>0, <2>3, <3>2, <4>2
      <4> QED
        BY <4>1, <4>2
    <3> QED
      BY <3>1, <3>2, WorkerEffect
  <2>6. Placed(queued[ch[2]], deferred[ch], local.held, m, tasks[i].pc,
               slots[ch[1]].session = ch[2])
    BY <1>2, OnceIsPlaced
  <2>7. ch[1] \in Slots /\ \A j \in Slots : slots'[j].session = slots[j].session
    BY <1>1, ChannelAt, WorkerKeepsChannel DEF Typed, Submitted
  <2>8. Placed(queued'[ch[2]], deferred'[ch], local.held, m, tasks[i].pc,
               slots[ch[1]].session = ch[2])
    BY <2>4, <2>5, <2>6 DEF Placed
  <2> QED
    BY <2>1, <2>7, <2>8, OnceIsPlaced
<1> QED
  BY <1>3, <1>4

LEMMA OnceStep ==
  ASSUME Typed, Accounted, BarrierOwned, MessagesOwn, OncePerPlace, [NetNext]_netVars
  PROVE  OncePerPlace'
BY OnceAside, OnceSubmit, OnceRelease, OnceQueueReply, OnceQueueHeld, OnceWorker DEF Aside
-----------------------------------------------------------------------------
(***************************************************************************)
(* The bytes on a connection.                                              *)
(***************************************************************************)
LEMMA RestProps ==
  ASSUME NEW X, NEW p \in Parts(X), NEW k \in 0 .. Len(p)
  PROVE  /\ Rest(p, k) \in Parts(X) /\ Rest(p, k) \in Seq(X \X {1, 2})
         /\ Len(Rest(p, k)) = Len(p) - k
         /\ \A i \in 1 .. Len(p) - k : Rest(p, k)[i] = p[k + i]
<1>0. p \in Seq(X \X {1, 2}) /\ Len(p) \in Nat /\ k \in Nat
  BY LenProperties DEF Parts
<1>1. PICK m, n : m = k + 1 /\ n = Len(p)
  OBVIOUS
<1>2. m \in Int /\ n \in Int /\ \A i \in m .. n : p[i] \in X \X {1, 2}
  <2>1. \A i \in m .. n : i \in 1 .. Len(p)
    BY <1>0, <1>1
  <2> QED
    BY <1>0, <1>1, <2>1, ElementOfSeq
<1>3. /\ SubSeq(p, m, n) \in Seq(X \X {1, 2})
      /\ Len(SubSeq(p, m, n)) = IF m <= n THEN n - m + 1 ELSE 0
      /\ \A i \in 1 .. n - m + 1 : SubSeq(p, m, n)[i] = p[m + i - 1]
  BY <1>2, SubSeqProperties
<1>4. PICK r : r = SubSeq(p, m, n)
  OBVIOUS
<1>5. /\ r \in Seq(X \X {1, 2}) /\ Len(r) = IF m <= n THEN n - m + 1 ELSE 0
      /\ \A i \in 1 .. n - m + 1 : r[i] = p[m + i - 1]
  BY <1>3, <1>4, Zenon
<1>6. /\ Len(r) = n - k /\ \A i \in 1 .. n - k : r[i] = p[k + i]
  <2>1. Len(r) = n - k /\ n - m + 1 = n - k
    BY <1>0, <1>1, <1>5
  <2>2. \A i \in 1 .. n - k : m + i - 1 = k + i
    BY <1>0, <1>1
  <2> QED
    BY <1>5, <2>1, <2>2
<1>7. r = Rest(p, k)
  BY <1>1, <1>4 DEF Rest
<1> QED
  BY <1>1, <1>5, <1>6, <1>7 DEF Parts

\* Two sequences of parts that agree are equal.
LEMMA PartsEqual ==
  ASSUME NEW X, NEW p \in Parts(X), NEW q \in Parts(X), Len(p) = Len(q),
         \A i \in 1 .. Len(p) : p[i] = q[i]
  PROVE  p = q
BY SeqEqual DEF Parts

LEMMA RestOfConcat ==
  ASSUME NEW X, NEW p \in Parts(X), NEW f \in Parts(X), NEW k \in 0 .. Len(p)
  PROVE  Rest(p \o f, k) = Rest(p, k) \o f
<1>0. /\ p \in Seq(X \X {1, 2}) /\ f \in Seq(X \X {1, 2})
      /\ Len(p) \in Nat /\ Len(f) \in Nat /\ k \in Nat
  BY LenProperties DEF Parts
<1>1. PICK c : c = p \o f
  OBVIOUS
<1>2. /\ c \in Parts(X) /\ Len(c) = Len(p) + Len(f)
      /\ \A i \in 1 .. Len(p) + Len(f) : c[i] = IF i <= Len(p) THEN p[i] ELSE f[i - Len(p)]
  BY <1>0, <1>1, ConcatProperties DEF Parts
<1>3. k \in 0 .. Len(c)
  BY <1>0, <1>2
<1>4. PICK r, t : r = Rest(p, k) /\ t = Rest(c, k)
  OBVIOUS
<1>5. /\ r \in Seq(X \X {1, 2}) /\ Len(r) = Len(p) - k
      /\ \A i \in 1 .. Len(p) - k : r[i] = p[k + i]
  BY <1>4, RestProps
<1>6. /\ t \in Parts(X) /\ Len(t) = Len(c) - k
      /\ \A i \in 1 .. Len(c) - k : t[i] = c[k + i]
  BY <1>2, <1>3, <1>4, RestProps
<1>7. PICK d : d = r \o f
  OBVIOUS
<1>8. /\ d \in Parts(X) /\ Len(d) = Len(r) + Len(f)
      /\ \A i \in 1 .. Len(r) + Len(f) : d[i] = IF i <= Len(r) THEN r[i] ELSE f[i - Len(r)]
  BY <1>0, <1>5, <1>7, ConcatProperties DEF Parts
<1>9. Len(t) = Len(d)
  BY <1>0, <1>2, <1>5, <1>6, <1>8
<1>10. ASSUME NEW i \in 1 .. Len(t)
       PROVE  t[i] = d[i]
  <2>1. /\ i \in Nat /\ i \in 1 .. Len(c) - k /\ k + i \in 1 .. Len(p) + Len(f)
        /\ i \in 1 .. Len(r) + Len(f)
    BY <1>0, <1>2, <1>5, <1>6, <1>9, <1>8
  <2>2. t[i] = c[k + i]
    BY <1>6, <2>1
  <2>3. CASE k + i <= Len(p)
    <3>1. i <= Len(r) /\ i \in 1 .. Len(p) - k
      BY <1>0, <1>5, <2>1, <2>3
    <3>2. c[k + i] = p[k + i]
      BY <1>2, <2>1, <2>3
    <3> QED
      BY <1>5, <1>8, <2>1, <2>2, <3>1, <3>2
  <2>4. CASE ~ (k + i <= Len(p))
    <3>1. ~ (i <= Len(r)) /\ (k + i) - Len(p) = i - Len(r)
      BY <1>0, <1>5, <2>1, <2>4
    <3>2. c[k + i] = f[(k + i) - Len(p)]
      BY <1>2, <2>1, <2>4
    <3> QED
      BY <1>8, <2>1, <2>2, <3>1, <3>2
  <2> QED
    BY <2>3, <2>4
<1>11. t = d
  BY <1>6, <1>8, <1>9, <1>10, PartsEqual
<1> QED
  BY <1>1, <1>4, <1>7, <1>11

\* What follows the first n parts of the rest.
LEMMA RestOfRest ==
  ASSUME NEW X, NEW p \in Parts(X), NEW k \in 0 .. Len(p), NEW n \in 0 .. Len(p) - k
  PROVE  /\ Rest(Rest(p, k), n) = Rest(p, k + n)
         /\ SubSeq(Rest(p, k), 1, n) \o Rest(p, k + n) = Rest(p, k)
         /\ SubSeq(Rest(p, k), 1, n) \in Parts(X)
<1>0. Len(p) \in Nat /\ k \in Nat /\ n \in Nat
  BY LenProperties DEF Parts
<1>1. PICK r, j : r = Rest(p, k) /\ j = k + n
  OBVIOUS
<1>2. /\ r \in Parts(X) /\ r \in Seq(X \X {1, 2}) /\ Len(r) = Len(p) - k
      /\ \A i \in 1 .. Len(p) - k : r[i] = p[k + i]
  BY <1>1, RestProps
<1>3. j \in 0 .. Len(p) /\ n \in 0 .. Len(r)
  BY <1>0, <1>1, <1>2
<1>4. PICK t, u : t = Rest(r, n) /\ u = Rest(p, j)
  OBVIOUS
<1>5. /\ t \in Parts(X) /\ Len(t) = Len(r) - n
      /\ \A i \in 1 .. Len(r) - n : t[i] = r[n + i]
  <2>1. /\ Rest(r, n) \in Parts(X) /\ Len(Rest(r, n)) = Len(r) - n
        /\ \A i \in 1 .. Len(r) - n : Rest(r, n)[i] = r[n + i]
    <3>1. r \in Parts(X) /\ n \in 0 .. Len(r)
      BY <1>2, <1>3
    <3> QED
      BY <3>1, RestProps, Zenon
  <2> QED
    BY <1>4, <2>1
<1>6. /\ u \in Parts(X) /\ Len(u) = Len(p) - j
      /\ \A i \in 1 .. Len(p) - j : u[i] = p[j + i]
  BY <1>3, <1>4, RestProps
<1>7. t = u
  <2>1. Len(t) = Len(u)
    BY <1>0, <1>1, <1>2, <1>5, <1>6
  <2>2. ASSUME NEW i \in 1 .. Len(t)
        PROVE  t[i] = u[i]
    <3>1. /\ i \in 1 .. Len(r) - n /\ i \in 1 .. Len(p) - j /\ n + i \in 1 .. Len(p) - k
          /\ k + (n + i) = j + i
      BY <1>0, <1>1, <1>2, <1>5, <1>6
    <3> QED
      BY <1>2, <1>5, <1>6, <3>1
  <2> QED
    BY <1>5, <1>6, <2>1, <2>2, PartsEqual
<1>8. SubSeq(r, 1, n) \o SubSeq(r, n + 1, Len(r)) = r /\ SubSeq(r, 1, n) \in Parts(X)
  <2>1. SubSeq(r, 1, n) \in Parts(X)
    <3>1. 1 \in Nat \ {0}
      OBVIOUS
    <3> QED
      BY <1>2, <1>3, <3>1, PartsSubSeq
  <2>2. PICK e : e = Len(r)
    OBVIOUS
  <2>3. /\ e \in Nat /\ 1 \in 1 .. e + 1 /\ n \in 1 - 1 .. e /\ e \in n .. Len(r)
    BY <1>0, <1>2, <1>3, <2>2
  <2>4. SubSeq(r, 1, n) \o SubSeq(r, n + 1, e) = SubSeq(r, 1, e)
    BY <1>2, <2>3, ConcatAdjacentSubSeq
  <2>5. SubSeq(r, 1, Len(r)) = r
    BY <1>2, SubSeqFull
  <2> QED
    BY <2>1, <2>2, <2>4, <2>5
<1>9. SubSeq(r, 1, n) \o t = r
  BY <1>4, <1>8 DEF Rest
<1> QED
  BY <1>1, <1>4, <1>7, <1>8, <1>9

LEMMA RestNothing ==
  ASSUME NEW X, NEW p \in Parts(X)
  PROVE  Rest(p, Len(p)) = << >> /\ Rest(<< >>, 0) = << >>
<1>1. Len(p) \in Nat
  BY LenProperties DEF Parts
<1>2. PICK m, n : n = Len(p) /\ m = Len(p) + 1
  OBVIOUS
<1>3. SubSeq(p, m, n) = << >>
  BY <1>1, <1>2, SubSeqEmpty
<1>4. Rest(p, Len(p)) = << >>
  BY <1>2, <1>3 DEF Rest
<1>5. Rest(<< >>, 0) = << >>
  BY DEF Rest
<1> QED
  BY <1>4, <1>5

\* The frames of one more message.
LEMMA FramesType ==
  ASSUME NEW q \in Seq(Message)
  PROVE  /\ FramesOf(q) \in Parts(Message) /\ Len(FramesOf(q)) = 2 * Len(q)
         /\ \A k \in 1 .. 2 * Len(q) : FramesOf(q)[k] = <<q[(k + 1) \div 2], 2 - (k % 2)>>
<1>0. Len(q) \in Nat
  BY LenProperties
<1>1. PICK n : n = 2 * Len(q)
  OBVIOUS
<1>2. n \in Nat
  BY <1>0, <1>1
<1>3. \A k \in 1 .. n : (k + 1) \div 2 \in 1 .. Len(q) /\ 2 - (k % 2) \in {1, 2}
  BY <1>0, <1>1
<1>4. \A k \in 1 .. n : <<q[(k + 1) \div 2], 2 - (k % 2)>> \in Message \X {1, 2}
  <2>1. SUFFICES ASSUME NEW k \in 1 .. n
                 PROVE  <<q[(k + 1) \div 2], 2 - (k % 2)>> \in Message \X {1, 2}
    OBVIOUS
  <2>2. PICK a, b : a = (k + 1) \div 2 /\ b = 2 - (k % 2)
    OBVIOUS
  <2>3. a \in 1 .. Len(q) /\ b \in {1, 2}
    BY <1>3, <2>2
  <2>4. q[a] \in Message
    BY <2>3, ElementOfSeq
  <2>5. <<q[a], b>> \in Message \X {1, 2}
    BY <2>3, <2>4
  <2> QED
    BY <2>2, <2>5
<1>5. FramesOf(q) = [k \in 1 .. n |-> <<q[(k + 1) \div 2], 2 - (k % 2)>>]
  BY <1>1 DEF FramesOf
<1>6. FramesOf(q) \in [1 .. n -> Message \X {1, 2}]
  BY <1>4, <1>5
<1>7. FramesOf(q) \in Seq(Message \X {1, 2}) /\ Len(FramesOf(q)) = n
  BY <1>2, <1>6
<1> QED
  BY <1>1, <1>5, <1>7 DEF Parts

LEMMA FramesAppend ==
  ASSUME NEW q \in Seq(Message), NEW m \in Message
  PROVE  FramesOf(Append(q, m)) = FramesOf(q) \o Frame(m)
<1>0. Len(q) \in Nat
  BY LenProperties
<1>1. PICK r, n : r = Append(q, m) /\ n = Len(q)
  OBVIOUS
<1>2. /\ r \in Seq(Message) /\ n \in Nat /\ Len(r) = n + 1 /\ r[n + 1] = m
      /\ \A i \in 1 .. n : r[i] = q[i]
  BY <1>0, <1>1, AppendProperties
<1>3. PICK a, b, f : a = FramesOf(r) /\ b = FramesOf(q) /\ f = Frame(m)
  OBVIOUS
<1>4. /\ a \in Parts(Message) /\ Len(a) = 2 * (n + 1)
      /\ \A k \in 1 .. 2 * (n + 1) : a[k] = <<r[(k + 1) \div 2], 2 - (k % 2)>>
  BY <1>2, <1>3, FramesType
<1>5. /\ b \in Parts(Message) /\ Len(b) = 2 * n
      /\ \A k \in 1 .. 2 * n : b[k] = <<q[(k + 1) \div 2], 2 - (k % 2)>>
  BY <1>1, <1>3, FramesType
<1>6. /\ f \in Parts(Message) /\ Len(f) = 2 /\ f[1] = <<m, 1>> /\ f[2] = <<m, 2>>
  BY <1>3, FrameType DEF Frame
<1>7. PICK c : c = b \o f
  OBVIOUS
<1>8. /\ c \in Parts(Message) /\ Len(c) = Len(b) + Len(f)
      /\ \A i \in 1 .. Len(b) + Len(f) : c[i] = IF i <= Len(b) THEN b[i] ELSE f[i - Len(b)]
  BY <1>5, <1>6, <1>7, ConcatProperties DEF Parts
<1>9. Len(a) = Len(c)
  BY <1>2, <1>4, <1>5, <1>6, <1>8
<1>10. ASSUME NEW k \in 1 .. Len(a)
       PROVE  a[k] = c[k]
  <2>0. k \in Nat /\ k \in 1 .. 2 * (n + 1) /\ k \in 1 .. Len(b) + Len(f)
    BY <1>2, <1>4, <1>5, <1>6
  <2>1. CASE k <= 2 * n
    <3>1. k \in 1 .. 2 * n /\ k <= Len(b)
      BY <1>2, <1>5, <2>0, <2>1
    <3>2. (k + 1) \div 2 \in 1 .. n
      BY <1>2, <3>1
    <3> QED
      BY <1>2, <1>4, <1>5, <1>8, <2>0, <3>1, <3>2
  <2>2. CASE k = 2 * n + 1
    <3>1. (k + 1) \div 2 = n + 1 /\ 2 - (k % 2) = 1 /\ ~ (k <= Len(b)) /\ k - Len(b) = 1
      BY <1>2, <1>5, <2>2
    <3>2. a[k] = <<r[n + 1], 1>>
      BY <1>4, <2>0, <3>1
    <3>3. c[k] = f[1]
      BY <1>8, <2>0, <3>1
    <3> QED
      BY <1>2, <1>6, <3>2, <3>3
  <2>3. CASE k = 2 * n + 2
    <3>1. (k + 1) \div 2 = n + 1 /\ 2 - (k % 2) = 2 /\ ~ (k <= Len(b)) /\ k - Len(b) = 2
      BY <1>2, <1>5, <2>3
    <3>2. a[k] = <<r[n + 1], 2>>
      BY <1>4, <2>0, <3>1
    <3>3. c[k] = f[2]
      BY <1>8, <2>0, <3>1
    <3> QED
      BY <1>2, <1>6, <3>2, <3>3
  <2> QED
    BY <1>2, <2>0, <2>1, <2>2, <2>3
<1>11. a = c
  BY <1>4, <1>8, <1>9, <1>10, PartsEqual
<1> QED
  BY <1>1, <1>3, <1>7, <1>11

LEMMA FramesNothing == FramesOf(<< >>) = << >>
<1>1. << >> \in Seq(Message) /\ Len(<< >>) = 0
  BY EmptySeq
<1>2. FramesOf(<< >>) \in Seq(Message \X {1, 2}) /\ Len(FramesOf(<< >>)) = 2 * Len(<< >>)
  BY <1>1, FramesType DEF Parts
<1>3. Len(FramesOf(<< >>)) = 0
  BY <1>1, <1>2
<1> QED
  BY <1>2, <1>3, EmptySeq

LEMMA PartsAssociative ==
  ASSUME NEW a \in Parts(Message), NEW b \in Parts(Message), NEW c \in Parts(Message)
  PROVE  (a \o b) \o c = a \o (b \o c)
<1>1. PICK S : S = Message \X {1, 2}
  OBVIOUS
<1>2. a \in Seq(S) /\ b \in Seq(S) /\ c \in Seq(S)
  BY <1>1 DEF Parts
<1> HIDE DEF Parts
<1>3. \A T : \A x, y, z \in Seq(T) : (x \o y) \o z = x \o (y \o z)
  BY ConcatAssociative
<1> QED
  BY <1>2, <1>3

\* One more frame is put into the pending response.
LEMMA FlowAppend ==
  ASSUME NEW out \in Parts(Message), NEW p \in Parts(Message), NEW k \in 0 .. Len(p),
         NEW q \in Seq(Message), NEW m \in Message, out \o Rest(p, k) = FramesOf(q)
  PROVE  /\ out \o Rest(p \o Frame(m), k) = FramesOf(Append(q, m))
         /\ k <= Len(p \o Frame(m))
<1>0. Len(p) \in Nat /\ k \in Nat
  BY LenProperties DEF Parts
<1>1. PICK f, r : f = Frame(m) /\ r = Rest(p, k)
  OBVIOUS
<1>2. f \in Parts(Message) /\ r \in Parts(Message) /\ Len(f) = 2
  BY <1>1, FrameType, RestProps
<1>3. PICK c : c = p \o f
  OBVIOUS
<1>4. Rest(c, k) = r \o f
  BY <1>1, <1>2, <1>3, RestOfConcat
<1>5. (out \o r) \o f = out \o (r \o f)
  BY <1>2, PartsAssociative
<1>6. FramesOf(Append(q, m)) = FramesOf(q) \o f
  BY <1>1, FramesAppend
<1>7. out \o r = FramesOf(q)
  BY <1>1
<1>8. out \o Rest(c, k) = FramesOf(Append(q, m))
  BY <1>4, <1>5, <1>6, <1>7, Zenon
<1>9. Len(c) = Len(p) + Len(f)
  BY <1>2, <1>3, ConcatProperties DEF Parts
<1>10. k <= Len(c)
  BY <1>0, <1>2, <1>9
<1> QED
  BY <1>1, <1>3, <1>8, <1>10

\* Some of the rest is sent.
LEMMA FlowSend ==
  ASSUME NEW out \in Parts(Message), NEW p \in Parts(Message), NEW k \in 0 .. Len(p),
         NEW n \in 0 .. Len(p) - k
  PROVE  (out \o SubSeq(Rest(p, k), 1, n)) \o Rest(p, k + n) = out \o Rest(p, k)
<1>0. Len(p) \in Nat /\ k \in Nat /\ n \in Nat
  BY LenProperties DEF Parts
<1>1. PICK a, b, r, j : a = SubSeq(Rest(p, k), 1, n) /\ b = Rest(p, j) /\ r = Rest(p, k) /\ j = k + n
  OBVIOUS
<1>2. a \o b = r /\ a \in Parts(Message)
  BY <1>1, RestOfRest
<1>3. b \in Parts(Message)
  <2>1. j \in 0 .. Len(p)
    BY <1>0, <1>1
  <2> QED
    BY <1>1, <2>1, RestProps
<1>4. (out \o a) \o b = out \o (a \o b)
  BY <1>2, <1>3, PartsAssociative
<1> QED
  BY <1>1, <1>2, <1>4, Zenon

\* The loop forgets what it has sent only when it consumes it.
LEMMA BytesKept ==
  ASSUME Typed, [NetNext]_netVars, ~ SendSome, ~ Consume
  PROVE  \A i : Bytes(i)' = Bytes(i)
<1>1. CASE pc = "consume"
  <2>1. CASE UNCHANGED netVars
    BY <2>1 DEF netVars, loopVars, Bytes
  <2>2. CASE Elsewhere
    BY <1>1, <2>2 DEF Elsewhere, Connect, ArriveHead, ArriveBody, Disconnect, Start, LoopEnds,
       Populate, Select, SelectFails, drain_wake_fd, StopBegins, StopWakes, loopVars, Bytes
  <2>3. CASE \E i \in Submissions : WorkerHook(i)
    BY <2>3, WorkerEffect DEF loopVars, Bytes
  <2>4. ~ Passing /\ ~ Serving
    BY <1>1 DEF Passing, SkipSlot, WriteBegins, SendBlocks, SendKills, HasEvent, Serving, Accept,
       ReadFails, ReadMessage, MarkWaiting, SubmitAsync, ReleaseBarrier, QueueReply, SetWritable,
       QueueHeld, SendFails, SetReadable
  <2> QED
    BY <2>1, <2>2, <2>3, <2>4, StepKinds
<1>2. CASE pc # "consume"
  <2>0. at \in Slots /\ fds \in FdsType
    BY TypeParts DEF Typed, LoopTypes
  <2>1. pc' # "consume"
    <3>1. CASE UNCHANGED netVars
      BY <1>2, <3>1 DEF netVars, loopVars
    <3>2. CASE Elsewhere
      BY <1>2, <3>2 DEF Elsewhere, Connect, ArriveHead, ArriveBody, Disconnect, Start, LoopEnds,
         Populate, NextSlot, Select, SelectFails, drain_wake_fd, StopBegins, StopWakes, loopVars
    <3>3. CASE \E i \in Submissions : WorkerHook(i)
      BY <1>2, <3>3, WorkerEffect DEF loopVars
    <3>4. CASE Passing
      BY <2>0, <3>4, PassingKeeps, LeaveEventEffect
    <3>5. CASE Accept
      BY <3>5 DEF Accept
    <3>6. CASE Releases
      BY <2>0, <3>6, ReleasesEffect, LeaveEventEffect DEF ReleaseConnection
    <3>7. CASE ReadMessage
      BY <2>0, <3>7, ReadMessageEffect, LeaveEventEffect
    <3>8. CASE MarkWaiting \/ SubmitAsync \/ ReleaseBarrier \/ QueueReply
      BY <3>8 DEF MarkWaiting, SubmitAsync, ReleaseBarrier, QueueReply
    <3>9. CASE SetWritable \/ SetReadable
      BY <2>0, <3>9, LeaveEventEffect DEF SetWritable, SetReadable
    <3>10. CASE QueueHeld
      BY <1>2, <2>0, <3>10, LeaveEventEffect DEF QueueHeld
    <3> QED
      BY <3>1, <3>2, <3>3, <3>4, <3>5, <3>6, <3>7, <3>8, <3>9, <3>10, StepKinds
      DEF Serving, Releases
  <2> QED
    BY <1>2, <2>1 DEF Bytes
<1> QED
  BY <1>1, <1>2

Flowing == Positions /\ StreamsFlow

LEMMA FlowTypes ==
  ASSUME Typed, Positions, NEW i \in Slots
  PROVE  /\ slots[i].pending \in Parts(Message) /\ slots[i].offset \in Nat
         /\ Len(slots[i].pending) \in Nat /\ Bytes(i) \in Nat
         /\ Position(i) \in Nat /\ Position(i) \in 0 .. Len(slots[i].pending)
         /\ slots[i].session # 0 =>
              /\ slots[i].session \in Sessions
              /\ sent[slots[i].session] \in Parts(Message)
              /\ queued[slots[i].session] \in Seq(Message)
<1>0. /\ SlotsTyped /\ local.bytes \in Nat /\ sent \in [Sessions -> Parts(Message)]
      /\ queued \in [Sessions -> Seq(Message)]
  BY TypeParts, HandlingFacts DEF Typed, RegistryTypes, KernelTypes, QueuedTypes
<1>1. /\ slots[i].pending \in Parts(Message) /\ slots[i].offset \in Nat
      /\ slots[i].session \in 0 .. MaxSessions
  BY <1>0, SlotAt
<1>2. Len(slots[i].pending) \in Nat /\ Bytes(i) \in Nat
  BY <1>0, <1>1, LenProperties DEF Parts, Bytes
<1>3. Position(i) \in Nat /\ Position(i) <= Len(slots[i].pending)
  BY <1>1, <1>2 DEF Position, Positions
<1>4. slots[i].session # 0 => slots[i].session \in Sessions
  BY <1>1, NetworkAssumption DEF Sessions
<1> QED
  BY <1>0, <1>1, <1>2, <1>3, <1>4

\* A step that does not touch responses.
LEMMA FlowQuiet ==
  ASSUME Typed, Flowing,
         \A j \in Slots : /\ slots'[j].session = slots[j].session
                          /\ slots'[j].pending = slots[j].pending
                          /\ slots'[j].offset = slots[j].offset,
         UNCHANGED <<sent, queued, next_session_id>>, \A j : Bytes(j)' = Bytes(j)
  PROVE  Flowing'
<1>1. \A j \in Slots : Position(j)' = Position(j)
  BY DEF Position
<1>2. Positions'
  BY <1>1 DEF Flowing, Positions
<1>3. StreamsFlow'
  BY <1>1 DEF Flowing, StreamsFlow, Flows
<1> QED
  BY <1>2, <1>3 DEF Flowing

\* A message is put into the pending response of slot i, by the loop or by a
\* worker, wherever the loop is.
LEMMA FlowQueue ==
  ASSUME Typed, Accounted, Flowing, NEW i \in Slots, NEW m \in Message, slots[i].session # 0,
         \A j \in Slots : /\ slots'[j].session = slots[j].session
                          /\ slots'[j].offset = slots[j].offset
                          /\ j # i => slots'[j] = slots[j],
         slots'[i].pending = slots[i].pending \o Frame(m),
         queued' = [queued EXCEPT ![slots[i].session] = Append(queued[slots[i].session], m)],
         UNCHANGED <<sent, next_session_id>>, \A j : Bytes(j)' = Bytes(j)
  PROVE  Flowing'
<1>0. queued \in [Sessions -> Seq(Message)]
  BY TypeParts DEF Typed, QueuedTypes
<1>1. PICK s, p, q, out, k : /\ s = slots[i].session /\ p = slots[i].pending /\ q = queued[s]
                             /\ out = sent[s] /\ k = Position(i)
  OBVIOUS
<1>2. /\ s \in Sessions /\ p \in Parts(Message) /\ q \in Seq(Message) /\ out \in Parts(Message)
      /\ k \in 0 .. Len(p)
  BY <1>1, FlowTypes DEF Flowing
<1>3. out \o Rest(p, k) = FramesOf(q)
  BY <1>1 DEF Flowing, StreamsFlow, Flows
<1>4. out \o Rest(p \o Frame(m), k) = FramesOf(Append(q, m)) /\ k <= Len(p \o Frame(m))
  BY <1>2, <1>3, FlowAppend
<1>5. \A j \in Slots : Position(j)' = Position(j)
  BY DEF Position
<1>6. PICK c, z : c = p \o Frame(m) /\ z = Append(q, m)
  OBVIOUS
<1>7. queued' = [queued EXCEPT ![s] = z] /\ slots'[i].pending = c /\ slots'[i].session = s
  BY <1>1, <1>6
<1>8. queued'[s] = z /\ \A r \in Sessions : r # s => queued'[r] = queued[r]
  BY <1>0, <1>2, <1>7
<1>9. Flows(i)' /\ Position(i)' <= Len(slots'[i].pending)
  <2>1. out \o Rest(c, k) = FramesOf(z) /\ k <= Len(c)
    BY <1>4, <1>6
  <2>2. Position(i)' = k /\ sent'[s] = out
    BY <1>1, <1>5
  <2> QED
    BY <1>7, <1>8, <2>1, <2>2 DEF Flows
<1>10. ASSUME NEW j \in Slots, j # i
       PROVE  Flows(j)' /\ Position(j)' <= Len(slots'[j].pending)
  <2>1. slots'[j] = slots[j] /\ Position(j)' = Position(j) /\ Position(j) <= Len(slots[j].pending)
    BY <1>5, <1>10 DEF Flowing, Positions
  <2>2. slots[j].session # 0 => slots[j].session \in Sessions /\ slots[j].session # s
    BY <1>1, <1>10, FlowTypes DEF Accounted, SessionsUnique, Flowing
  <2>3. slots[j].session # 0 => queued'[slots[j].session] = queued[slots[j].session]
    BY <1>8, <2>2
  <2> QED
    BY <2>1, <2>3 DEF Flowing, StreamsFlow, Flows
<1>11. \A r \in Sessions : r >= next_session_id => queued'[r] = << >> /\ sent[r] = << >>
  <2>1. next_session_id \in Nat /\ s \in Nat /\ s < next_session_id
    BY <1>1, <1>2, TypeParts, NetworkAssumption DEF Typed, LoopTypes, Accounted, SessionsUnique, Sessions
  <2>2. ASSUME NEW r \in Sessions, r >= next_session_id
        PROVE  queued'[r] = << >> /\ sent[r] = << >>
    <3>1. r # s
      BY <2>1, <2>2 DEF Sessions
    <3> QED
      BY <1>8, <2>2, <3>1 DEF Flowing, Positions
  <2> QED
    BY <2>2
<1>12. Positions'
  BY <1>9, <1>10, <1>11 DEF Positions
<1>13. StreamsFlow'
  BY <1>9, <1>10 DEF StreamsFlow
<1> QED
  BY <1>12, <1>13 DEF Flowing

\* The loop has sent some parts, and has not told the slot yet.
LEMMA FlowSendSome ==
  ASSUME Typed, Accounted, Flowing, SendSome
  PROVE  Flowing'
<1>0. at \in Slots /\ sent \in [Sessions -> Parts(Message)] /\ SlotsTyped
  BY TypeParts DEF Typed, LoopTypes, KernelTypes, RegistryTypes
<1>1. PICK s, p, o, n, q, u : /\ s = Session /\ p = slots[at].pending /\ o = slots[at].offset
                              /\ n = local'.bytes /\ q = queued[s] /\ u = Unsent(at)
  OBVIOUS
<1>2. /\ pc = "send" /\ pc' = "consume" /\ s \in Sessions
      /\ UNCHANGED <<slots, at, next_session_id, queued>>
      /\ n \in 1 .. Len(u)
      /\ sent' = [sent EXCEPT ![s] = sent[s] \o SubSeq(u, 1, n)]
  BY <1>1, SendSomeEffect DEF registryVars
<1>3. u = Rest(p, o)
  BY <1>1 DEF Unsent, Rest
<1>4. /\ p \in Parts(Message) /\ o \in Nat /\ Len(p) \in Nat /\ Position(at) = o
      /\ o \in 0 .. Len(p) /\ sent[s] \in Parts(Message)
  <2>1. Position(at) = o
    <3>1. Bytes(at) = 0 /\ o \in Nat
      BY <1>0, <1>1, <1>2, SlotAt DEF Bytes
    <3> QED
      BY <1>1, <3>1 DEF Position
  <2> QED
    BY <1>0, <1>1, <1>2, <2>1, FlowTypes DEF Flowing
<1>5. n \in Nat /\ n \in 0 .. Len(p) - o
  <2>1. Len(u) = Len(p) - o
    BY <1>3, <1>4, RestProps
  <2> QED
    BY <1>2, <1>4, <2>1
<1>6. PICK out, j : out = sent[s] \o SubSeq(u, 1, n) /\ j = o + n
  OBVIOUS
<1>7. out \o Rest(p, j) = FramesOf(q)
  <2>1. (sent[s] \o SubSeq(Rest(p, o), 1, n)) \o Rest(p, o + n) = sent[s] \o Rest(p, o)
    BY <1>4, <1>5, FlowSend
  <2>2. s # 0
    BY <1>2, NetworkAssumption DEF Sessions
  <2>3. sent[s] \o Rest(p, o) = FramesOf(q)
    BY <1>0, <1>1, <1>4, <2>2 DEF Flowing, StreamsFlow, Flows, Session
  <2> QED
    BY <1>3, <1>6, <2>1, <2>3
<1>8. sent' = [sent EXCEPT ![s] = out]
  BY <1>2, <1>6
<1>9. sent'[s] = out /\ \A r \in Sessions : r # s => sent'[r] = sent[r]
  BY <1>0, <1>2, <1>8
<1>10. Position(at)' = j
  BY <1>1, <1>2, <1>6 DEF Position, Bytes
<1>11. slots[at].session = s
  BY <1>1 DEF Session
<1>12. at' = at /\ Flows(at)' /\ Position(at)' <= Len(slots'[at].pending)
  <2>1. j <= Len(p)
    BY <1>4, <1>5, <1>6
  <2> QED
    BY <1>1, <1>2, <1>7, <1>9, <1>10, <1>11, <2>1 DEF Flows
<1>13. ASSUME NEW i \in Slots, i # at
       PROVE  Flows(i)' /\ Position(i)' <= Len(slots'[i].pending)
  <2>1. Position(i)' = Position(i) /\ Position(i) <= Len(slots[i].pending)
    BY <1>2, <1>13 DEF Position, Bytes, Flowing, Positions
  <2>2. slots[i].session # 0 => slots[i].session \in Sessions /\ slots[i].session # s
    BY <1>0, <1>11, <1>13, FlowTypes DEF Accounted, SessionsUnique, Flowing
  <2> QED
    BY <1>2, <1>9, <2>1, <2>2 DEF Flowing, StreamsFlow, Flows
<1>14. ASSUME NEW r \in Sessions, r >= next_session_id
       PROVE  queued[r] = << >> /\ sent'[r] = << >>
  <2>1. r # s
    <3>1. next_session_id \in Nat /\ s < next_session_id /\ s \in Nat /\ r \in Nat
      BY <1>0, <1>2, <1>11, TypeParts, NetworkAssumption
      DEF Typed, LoopTypes, Accounted, SessionsUnique, Sessions
    <3> QED
      BY <1>14, <3>1
  <2> QED
    BY <1>9, <1>14, <2>1 DEF Flowing, Positions
<1>15. Positions'
  BY <1>2, <1>12, <1>13, <1>14 DEF Positions
<1>16. StreamsFlow'
  BY <1>2, <1>12, <1>13 DEF StreamsFlow, Flows
<1> QED
  BY <1>15, <1>16 DEF Flowing

\* The slot is told what was sent, although more may be pending by now.
LEMMA FlowConsume ==
  ASSUME Typed, Flowing, Consume
  PROVE  Flowing'
<1>0. at \in Slots /\ fds \in FdsType
  BY TypeParts DEF Typed, LoopTypes
<1>1. PICK k, s, p, o, n : /\ k = at /\ s = slots[k].session /\ p = slots[k].pending
                           /\ o = slots[k].offset /\ n = local.bytes
  OBVIOUS
<1>2. pc = "consume" /\ UNCHANGED <<sent, queued, next_session_id>>
  BY DEF Consume, kernelVars
<1>3. /\ p \in Parts(Message) /\ o \in Nat /\ Len(p) \in Nat /\ n \in Nat
      /\ Position(k) = o + n /\ o + n <= Len(p)
  <2>1. Bytes(k) = n /\ Position(k) = o + n
    BY <1>1, <1>2 DEF Bytes, Position
  <2> QED
    BY <1>0, <1>1, <2>1, FlowTypes DEF Flowing
<1>4. pc' # "consume"
  BY <1>0, ConsumeEffect, LeaveEventEffect
<1>5. \A i : Bytes(i)' = 0
  BY <1>4 DEF Bytes
<1>6. slots'[k].session = s /\ Flows(k) /\ \A i \in Slots : i # k => slots'[i] = slots[i]
  BY <1>0, <1>1, ConsumeEffect DEF Flowing, StreamsFlow
<1>7. Flows(k)' /\ Position(k)' <= Len(slots'[k].pending)
  <2>1. CASE AllConsumed(k, n)
    <3>1. slots'[k].pending = << >> /\ slots'[k].offset = 0
      BY <1>1, <2>1, ConsumeEffect
    <3>2. o + n = Len(p)
      BY <1>1, <1>3, <2>1 DEF AllConsumed
    <3>3. Rest(p, Position(k)) = << >> /\ Rest(<< >>, 0) = << >>
      BY <1>3, <3>2, RestNothing
    <3>4. Position(k)' = 0
      BY <1>5, <3>1 DEF Position
    <3>5. Rest(slots'[k].pending, Position(k)') = Rest(p, Position(k))
      BY <3>1, <3>3, <3>4
    <3>6. Len(slots'[k].pending) = 0
      BY <3>1
    <3>7. PICK r : r = Rest(p, Position(k)) /\ Rest(slots'[k].pending, Position(k)') = r
      BY <3>5
    <3>8. s # 0 => sent[s] \o r = FramesOf(queued[s])
      BY <1>1, <1>6, <3>7 DEF Flows
    <3>9. Flows(k)'
      BY <1>2, <1>6, <3>7, <3>8, Zenon DEF Flows
    <3> QED
      BY <3>4, <3>6, <3>9
  <2>2. CASE ~ AllConsumed(k, n)
    <3>1. slots'[k].pending = p /\ slots'[k].offset = o + n
      BY <1>1, <2>2, ConsumeEffect
    <3>2. Position(k)' = Position(k)
      BY <1>3, <1>5, <3>1 DEF Position
    <3> QED
      BY <1>1, <1>2, <1>3, <1>6, <3>1, <3>2 DEF Flows
  <2> QED
    BY <2>1, <2>2
<1>8. ASSUME NEW i \in Slots, i # k
      PROVE  Flows(i)' /\ Position(i)' <= Len(slots'[i].pending)
  <2>1. Position(i)' = Position(i) /\ slots'[i] = slots[i] /\ Position(i) <= Len(slots[i].pending)
    BY <1>1, <1>5, <1>6, <1>8 DEF Position, Bytes, Flowing, Positions
  <2> QED
    BY <1>2, <1>8, <2>1 DEF Flowing, StreamsFlow, Flows
<1>9. Positions'
  BY <1>2, <1>7, <1>8 DEF Flowing, Positions
<1>10. StreamsFlow'
  BY <1>7, <1>8 DEF StreamsFlow
<1> QED
  BY <1>9, <1>10 DEF Flowing

\* Slots that are not touched keep their stream when the step is not a send.
LEMMA FlowOthers ==
  ASSUME Flowing, NEW j \in Slots, slots'[j] = slots[j], Bytes(j)' = Bytes(j),
         slots[j].session # 0 =>
           /\ sent'[slots[j].session] = sent[slots[j].session]
           /\ queued'[slots[j].session] = queued[slots[j].session]
  PROVE  Flows(j)' /\ Position(j)' <= Len(slots'[j].pending)
<1>1. Position(j)' = Position(j) /\ Position(j) <= Len(slots[j].pending)
  BY DEF Position, Flowing, Positions
<1> QED
  BY <1>1 DEF Flowing, StreamsFlow, Flows

LEMMA FlowAcquire ==
  ASSUME Typed, Flowing, NEW h \in Slots, next_session_id \in Sessions,
         slots' = [slots EXCEPT ![h] = ConnectedSlot(next_session_id)],
         next_session_id' = next_session_id + 1, UNCHANGED <<sent, queued>>,
         \A j : Bytes(j)' = Bytes(j), pc' # "consume"
  PROVE  Flowing'
<1>0. SlotsTyped /\ next_session_id \in Nat
  BY TypeParts, NetworkAssumption DEF Typed, RegistryTypes, Sessions
<1>1. PICK c, n : c = ConnectedSlot(n) /\ n = next_session_id
  OBVIOUS
<1>2. c.session = n /\ c.pending = << >> /\ c.offset = 0
  BY <1>1, EmptySlotType
<1>3. slots'[h] = c /\ \A j \in Slots : j # h => slots'[j] = slots[j]
  BY <1>0, <1>1 DEF SlotsTyped
<1>4. sent'[n] = << >> /\ queued'[n] = << >>
  BY <1>0, <1>1 DEF Flowing, Positions
<1>5. Position(h)' = 0
  BY <1>2, <1>3 DEF Position, Bytes
<1>6. sent'[n] \o Rest(c.pending, 0) = FramesOf(queued'[n])
  <2>1. Rest(<< >>, 0) = << >>
    BY EmptySeq, RestNothing DEF Parts
  <2>2. << >> \o << >> = << >>
    BY EmptySeq, ConcatEmptySeq
  <2> QED
    BY <1>2, <1>4, <2>1, <2>2, FramesNothing, Zenon
<1>7. Flows(h)'
  BY <1>2, <1>3, <1>5, <1>6, Zenon DEF Flows
<1>8. Len(slots'[h].pending) = 0
  BY <1>2, <1>3
<1>9. \A j \in Slots : j # h => Flows(j)' /\ Position(j)' <= Len(slots'[j].pending)
  BY <1>3, FlowOthers
<1>10. \A r \in Sessions : r >= next_session_id + 1 => queued'[r] = << >> /\ sent'[r] = << >>
  BY <1>0 DEF Flowing, Positions, Sessions
<1>11. Positions'
  BY <1>5, <1>8, <1>9, <1>10 DEF Positions
<1>12. StreamsFlow'
  BY <1>7, <1>9 DEF StreamsFlow
<1> QED
  BY <1>11, <1>12 DEF Flowing

LEMMA FlowRefuse ==
  ASSUME Typed, Accounted, Flowing, next_session_id \in Sessions, slots' = slots,
         send_connection_limit_error_and_close(next_session_id),
         next_session_id' = next_session_id + 1, UNCHANGED queued, \A j : Bytes(j)' = Bytes(j)
  PROVE  Flowing'
<1>0. sent \in [Sessions -> Parts(Message)] /\ next_session_id \in Nat
  BY TypeParts, NetworkAssumption DEF Typed, KernelTypes, Sessions
<1>1. \A r \in Sessions : r # next_session_id => sent'[r] = sent[r]
  BY <1>0 DEF send_connection_limit_error_and_close
<1>2. \A j \in Slots : slots[j].session # 0 =>
        slots[j].session \in Sessions /\ slots[j].session # next_session_id
  <2>1. ASSUME NEW j \in Slots, slots[j].session # 0
        PROVE  slots[j].session \in Sessions /\ slots[j].session # next_session_id
    <3>1. slots[j].session \in Sessions /\ slots[j].session < next_session_id
      BY <2>1, FlowTypes DEF Accounted, SessionsUnique, Flowing
    <3> QED
      BY <1>0, <3>1 DEF Sessions
  <2> QED
    BY <2>1
<1>3. \A j \in Slots : Flows(j)' /\ Position(j)' <= Len(slots'[j].pending)
  BY <1>1, <1>2, FlowOthers
<1>4. \A r \in Sessions : r >= next_session_id + 1 => queued'[r] = << >> /\ sent'[r] = << >>
  <2>1. ASSUME NEW r \in Sessions, r >= next_session_id + 1
        PROVE  queued'[r] = << >> /\ sent'[r] = << >>
    <3>1. r # next_session_id /\ r >= next_session_id
      BY <1>0, <2>1 DEF Sessions
    <3> QED
      BY <1>1, <3>1 DEF Flowing, Positions
  <2> QED
    BY <2>1
<1>5. Positions'
  BY <1>3, <1>4 DEF Positions
<1>6. StreamsFlow'
  BY <1>3 DEF StreamsFlow
<1> QED
  BY <1>5, <1>6 DEF Flowing

LEMMA FlowRelease ==
  ASSUME Typed, Flowing, Releases, \A j : Bytes(j)' = Bytes(j)
  PROVE  Flowing'
<1>0. SlotsTyped /\ at \in Slots /\ fds \in FdsType
  BY TypeParts DEF Typed, RegistryTypes, LoopTypes
<1>1. PICK k : k = at
  OBVIOUS
<1>2. /\ slots' = [slots EXCEPT ![k] = EmptySlot] /\ LeaveEvent
      /\ UNCHANGED <<sent, queued, next_session_id>>
  BY <1>1, ReleasesEffect, ReleaseEffect
<1>3. pc' # "consume"
  BY <1>0, <1>2, LeaveEventEffect
<1>4. slots'[k] = EmptySlot /\ \A j \in Slots : j # k => slots'[j] = slots[j]
  BY <1>0, <1>1, <1>2 DEF SlotsTyped
<1>5. Flows(k)'
  BY <1>4, EmptySlotType DEF Flows
<1>6. Position(k)' = 0 /\ Len(slots'[k].pending) = 0
  BY <1>3, <1>4, EmptySlotType DEF Position, Bytes
<1>7. \A j \in Slots : j # k => Flows(j)' /\ Position(j)' <= Len(slots'[j].pending)
  BY <1>2, <1>4, FlowOthers
<1>8. Positions'
  BY <1>2, <1>6, <1>7 DEF Flowing, Positions
<1>9. StreamsFlow'
  BY <1>5, <1>7 DEF StreamsFlow
<1> QED
  BY <1>8, <1>9 DEF Flowing

LEMMA FlowStep ==
  ASSUME Typed, Accounted, Flowing, [NetNext]_netVars
  PROVE  Flowing'
<1>0. SlotsTyped /\ at \in Slots
  BY TypeParts DEF Typed, RegistryTypes, LoopTypes
<1>1. CASE SendSome
  BY <1>1, FlowSendSome
<1>2. CASE Consume
  BY <1>2, FlowConsume
<1>3. CASE ~ SendSome /\ ~ Consume
  <2>0. \A j : Bytes(j)' = Bytes(j)
    BY <1>3, BytesKept
  <2>1. CASE UNCHANGED netVars
    BY <2>0, <2>1, FlowQuiet DEF netVars, registryVars, kernelVars, loopVars
  <2>2. CASE Elsewhere
    BY <2>0, <2>2, ElsewhereKeeps, FlowQuiet DEF registryVars
  <2>3. CASE Passing
    BY <2>0, <2>3, PassingKeeps, FlowQuiet DEF registryVars, kernelVars
  <2>4. CASE Accept
    <3>1. pc' = "events" /\ UNCHANGED queued
      BY <2>4, AcceptEffect
    <3>2. CASE /\ Head(free) \in Slots /\ next_session_id \in Sessions
               /\ slots' = [slots EXCEPT ![Head(free)] = ConnectedSlot(next_session_id)]
               /\ next_session_id' = next_session_id + 1 /\ UNCHANGED sent
      BY <2>0, <3>1, <3>2, FlowAcquire
    <3>3. CASE /\ next_session_id \in Sessions /\ UNCHANGED registryVars
               /\ send_connection_limit_error_and_close(next_session_id)
               /\ next_session_id' = next_session_id + 1
      BY <2>0, <3>1, <3>3, FlowRefuse DEF registryVars
    <3>4. CASE UNCHANGED <<next_session_id, registryVars, sent>>
      BY <2>0, <3>1, <3>4, FlowQuiet DEF registryVars
    <3> QED
      BY <2>4, <3>2, <3>3, <3>4, AcceptEffect
  <2>5. CASE Releases
    BY <2>0, <2>5, FlowRelease
  <2>6. CASE ReadMessage
    BY <2>0, <2>6, ReadMessageEffect, FlowQuiet
  <2>7. CASE MarkWaiting \/ SubmitAsync \/ ReleaseBarrier
    BY <2>0, <2>7, FlowQuiet
    DEF MarkWaiting, SubmitAsync, ReleaseBarrier, registryVars, kernelVars
  <2>8. CASE SetWritable \/ SetReadable
    <3>1. UNCHANGED <<sent, queued, next_session_id>>
      BY <2>8 DEF SetWritable, SetReadable, kernelVars
    <3>2. \A j \in Slots : /\ slots'[j].session = slots[j].session
                           /\ slots'[j].pending = slots[j].pending
                           /\ slots'[j].offset = slots[j].offset
      BY <2>8, StatusEffect DEF SetWritable, SetReadable
    <3> QED
      BY <2>0, <3>1, <3>2, FlowQuiet
  <2>9. CASE QueueReply
    <3>1. local.reply \in Message /\ slots[at].session # 0
      BY <2>9, HandlingFacts, QueueReplyEffect, NetworkAssumption DEF Session, Sessions
    <3>2. PICK m : m = local.reply
      OBVIOUS
    <3>3. /\ \A j \in Slots : /\ slots'[j].session = slots[j].session
                              /\ slots'[j].offset = slots[j].offset
                              /\ j # at => slots'[j] = slots[j]
          /\ slots'[at].pending = slots[at].pending \o Frame(m)
          /\ queued' = [queued EXCEPT ![slots[at].session] = Append(queued[slots[at].session], m)]
          /\ UNCHANGED <<sent, next_session_id>>
      BY <2>9, <3>2, QueueReplyEffect DEF Session, kernelVars
    <3> QED
      BY <1>0, <2>0, <3>1, <3>2, <3>3, FlowQueue
  <2>10. CASE QueueHeld
    <3>1. PICK m : m = Head(local.held)
      OBVIOUS
    <3>2. /\ m \in Message /\ set_pending_response_if_session(at, Session, m)
          /\ queued' = [queued EXCEPT ![Session] = Append(queued[Session], m)]
          /\ UNCHANGED <<sent, next_session_id>> /\ Session \in Sessions
      BY <2>10, <3>1, QueueHeldEffect
    <3>3. /\ \A j \in Slots : /\ slots'[j].session = slots[j].session
                              /\ slots'[j].offset = slots[j].offset
                              /\ j # at => slots'[j] = slots[j]
          /\ slots'[at].pending = slots[at].pending \o Frame(m)
      BY <1>0, <3>2, QueueIfEffect
    <3>4. slots[at].session # 0
      BY <3>2, NetworkAssumption DEF Session, Sessions
    <3> QED
      BY <1>0, <2>0, <3>2, <3>3, <3>4, FlowQueue DEF Session
  <2>11. ASSUME NEW i \in Submissions, WorkerHook(i)
         PROVE  Flowing'
    <3>1. UNCHANGED <<sent, next_session_id>>
      BY <2>11, WorkerEffect DEF loopVars
    <3>2. CASE UNCHANGED <<slots, queued>>
      BY <2>0, <3>1, <3>2, FlowQuiet
    <3>3. CASE /\ set_pending_response_if_session(tasks[i].channel[1], tasks[i].channel[2],
                                                  Msg("finished", i))
               /\ queued' = [queued EXCEPT ![tasks[i].channel[2]] =
                               Append(queued[tasks[i].channel[2]], Msg("finished", i))]
      <4>1. PICK k, s, m : k = tasks[i].channel[1] /\ s = tasks[i].channel[2] /\ m = Msg("finished", i)
        OBVIOUS
      <4>2. /\ k \in Slots /\ s \in Sessions /\ m \in Message
            /\ set_pending_response_if_session(k, s, m)
            /\ queued' = [queued EXCEPT ![s] = Append(queued[s], m)]
        BY <2>11, <3>3, <4>1, WorkerEffect
      <4>3. /\ slots[k].session = s
            /\ \A j \in Slots : /\ slots'[j].session = slots[j].session
                                /\ slots'[j].offset = slots[j].offset
                                /\ j # k => slots'[j] = slots[j]
            /\ slots'[k].pending = slots[k].pending \o Frame(m)
        BY <4>2, QueueIfEffect
      <4>4. slots[k].session # 0
        BY <4>2, <4>3, NetworkAssumption DEF Sessions
      <4> QED
        BY <2>0, <3>1, <4>2, <4>3, <4>4, FlowQueue
    <3> QED
      BY <2>11, <3>2, <3>3, WorkerEffect
  <2> QED
    BY <1>3, <2>1, <2>2, <2>3, <2>4, <2>5, <2>6, <2>7, <2>8, <2>9, <2>10, <2>11, StepKinds
    DEF Serving, Releases
<1> QED
  BY <1>1, <1>2, <1>3

LEMMA MessagesInit ==
  ASSUME NetInit
  PROVE  BarrierOwned /\ MessagesOwn /\ AckComes /\ OncePerPlace
<1>1. /\ pc = "start" /\ local = NoLocal /\ awaiting = {}
      /\ queued = [s \in Sessions |-> << >>]
      /\ deferred = [ch \in Channels |-> << >>]
      /\ \A i \in Submissions : tasks[i].pc = "none"
  BY DEF NetInit, BarrierInit
<1>2. local.held = << >> /\ local.reply.type = "error"
  BY <1>1, NoLocalFields
<1>3. \A m : ~ Holds(<< >>, m)
  BY HoldsNothing
<1>4. \A i : ~ Submitted(i)
  BY <1>1 DEF Submitted
<1>5. BarrierOwned
  BY <1>1, <1>2 DEF BarrierOwned
<1>6. MessagesOwn
  <2>1. \A s \in Sessions : \A m : ~ Holds(queued[s], m)
    BY <1>1, <1>3
  <2>2. \A ch \in Channels : \A m : ~ Holds(deferred[ch], m)
    BY <1>1, <1>3
  <2>3. \A m : ~ Holds(local.held, m)
    BY <1>2, <1>3
  <2> QED
    BY <1>2, <1>4, <2>1, <2>2, <2>3 DEF MessagesOwn
<1>7. AckComes
  BY <1>1, <1>4 DEF AckComes
<1>8. OncePerPlace
  BY <1>4 DEF OncePerPlace
<1> QED
  BY <1>5, <1>6, <1>7, <1>8

LEMMA FlowInit ==
  ASSUME NetInit
  PROVE  Flowing
<1>1. /\ pc = "start" /\ slots = [i \in Slots |-> EmptySlot]
      /\ queued = [s \in Sessions |-> << >>] /\ sent = [s \in Sessions |-> << >>]
  BY DEF NetInit, RegistryInit
<1>2. \A i \in Slots : /\ slots[i].session = 0 /\ Position(i) = 0
                       /\ Len(slots[i].pending) = 0
  BY <1>1, EmptySlotType DEF Position, Bytes
<1>3. \A s \in Sessions : queued[s] = << >> /\ sent[s] = << >>
  BY <1>1
<1>4. Positions
  <2>1. \A i \in Slots : Position(i) <= Len(slots[i].pending)
    BY <1>2
  <2> QED
    BY <1>3, <2>1 DEF Positions
<1>5. StreamsFlow
  BY <1>2 DEF StreamsFlow, Flows
<1> QED
  BY <1>4, <1>5 DEF Flowing
-----------------------------------------------------------------------------
(***************************************************************************)
(* The theorems.                                                           *)
(***************************************************************************)
LEMMA NetInvParts ==
  NetInv <=> /\ Typed /\ Accounted /\ Watching /\ Flowing
             /\ BarrierOwned /\ MessagesOwn /\ AckComes /\ OncePerPlace
BY DEF NetInv, Typed, Accounted, Watching, Flowing

\* The inductive invariant: whatever clients, the network, the workers and
\* stop() do between two critical sections of the loop thread of
\* TcpServer::start, its slots, its fd_sets, its barrier and the responses
\* under way fit together.
THEOREM NetCorrect == NetSpec => []NetInv
<1>1. NetInit => NetInv
  BY TypedInit, AccountedInit, WatchingInit, MessagesInit, FlowInit, NetInvParts
<1>2. NetInv /\ [NetNext]_netVars => NetInv'
  <2>1. SUFFICES ASSUME NetInv, [NetNext]_netVars
                 PROVE  NetInv'
    OBVIOUS
  <2>2. /\ Typed /\ Accounted /\ Watching /\ Flowing
        /\ BarrierOwned /\ MessagesOwn /\ AckComes /\ OncePerPlace
    BY <2>1, NetInvParts
  <2>3. Typed'
    BY <2>1, <2>2, TypedStep
  <2>4. Accounted'
    BY <2>1, <2>2, AccountedStep
  <2>5. FdSets' /\ WakeFollows'
    BY <2>1, <2>2, WatchingStep
  <2>6. IdleIsHandled'
    BY <2>1, <2>2, IdleStep DEF Watching
  <2>7. Watching'
    BY <2>5, <2>6 DEF Watching
  <2>8. BarrierOwned' /\ MessagesOwn' /\ AckComes' /\ OncePerPlace'
    BY <2>1, <2>2, BarrierStep, OwnStep, AckStep, OnceStep
  <2>9. Flowing'
    BY <2>1, <2>2, FlowStep
  <2> QED
    BY <2>3, <2>4, <2>7, <2>8, <2>9, NetInvParts, PTL
<1> QED
  BY <1>1, <1>2, PTL DEF NetSpec

\* The variables of the front end keep their types.
THEOREM NetTypeCorrect == NetSpec => []NetTypeOK
<1>1. NetInv => NetTypeOK
  BY DEF NetInv
<1> QED
  BY <1>1, NetCorrect, PTL

\* acquire_slot and release_slot never hand out a slot twice or lose one, and
\* a slot in use holds a live connection of its own.
THEOREM SlotsAccountedCorrect == NetSpec => []SlotsAccounted
<1>1. NetInv => SlotsAccounted
  <2>1. SUFFICES ASSUME NetInv
                 PROVE  SlotsAccounted
    OBVIOUS
  <2>2. free \in Seq(Slots) /\ DOMAIN free = 1 .. Len(free)
    BY <2>1, LenProperties DEF NetInv, NetTypeOK
  <2>3. \A k \in DOMAIN free : free[k] \in Slots
    BY <2>2, ElementOfSeq
  <2>4. {free[k] : k \in DOMAIN free} = {i \in Slots : slots[i].session = 0}
    BY <2>1, <2>2, <2>3 DEF NetInv, FreeList
  <2> QED
    BY <2>1, <2>4 DEF NetInv, FreeList, SessionsUnique, SlotsAccounted
<1> QED
  BY <1>1, NetCorrect, PTL

\* Whenever the loop blocks in select it watches exactly the live connections.
THEOREM NoDeafConnectionCorrect == NetSpec => []NoDeafConnection
<1>1. NetInv => NoDeafConnection
  BY DEF NetInv, NoDeafConnection, FdSets, LookedAt, Watched
<1> QED
  BY <1>1, NetCorrect, PTL

\* The loop does not block in select with a response to send or after stop()
\* without a wake that is there or on its way.
THEOREM NoLostWakeCorrect == NetSpec => []NoLostWake
<1>1. NetInv => NoLostWake
  BY DEF NetInv, NoLostWake, WakeFollows, LookedAt
<1> QED
  BY <1>1, NetCorrect, PTL

\* While the loop is in select it neither ignores a live connection nor sleeps
\* through a response to send or a stop().
THEOREM SelectMissesNothingCorrect == NetSpec => []SelectMissesNothing
<1>1. NoDeafConnection /\ NoLostWake => SelectMissesNothing
  BY DEF SelectMissesNothing
<1> QED
  BY <1>1, NoDeafConnectionCorrect, NoLostWakeCorrect, PTL

\* Of all steps of the loop, the workers and stop() only set_readable() can
\* strand a response: the disagreement that run blocking_wait shows has no
\* other cause, for any number of slots, connections and submissions.
THEOREM StrandedOnlyInWindowCorrect == NetSpec => StrandedOnlyInWindow
<1>1. NetInv /\ [NetNext]_netVars =>
        [\A i \in Slots :
           Attended(i) => Attended(i)' \/ (pc = "readable" /\ at = i)]_netVars
  <2>1. SUFFICES ASSUME NetInv, [NetNext]_netVars, NEW i \in Slots, Attended(i)
                 PROVE  Attended(i)' \/ (pc = "readable" /\ at = i)
    OBVIOUS
  <2>2. Typed
    BY <2>1, NetInvParts
  <2> QED
    BY <2>1, <2>2, AttendedStep
<1> QED
  BY <1>1, NetCorrect, PTL DEF NetSpec, StrandedOnlyInWindow

\* A connection gets the acknowledgements and results of its own submissions
\* only, however slots are reused.
THEOREM OnlyOwnMessagesCorrect == NetSpec => []OnlyOwnMessages
<1>1. NetInv => OnlyOwnMessages
  <2>1. SUFFICES ASSUME NetInv, NEW s \in Sessions, NEW k \in DOMAIN queued[s],
                        queued[s][k].type \in {"ack", "finished"}
                 PROVE  tasks[queued[s][k].id].channel[2] = s
    BY DEF OnlyOwnMessages
  <2>2. queued[s] \in Seq(Message) /\ k \in 1 .. Len(queued[s])
    BY <2>1, LenProperties DEF NetInv, NetTypeOK
  <2>3. PICK m : m = queued[s][k]
    OBVIOUS
  <2>4. m \in Message /\ Holds(queued[s], m)
    BY <2>2, <2>3, ElementOfSeq DEF Holds
  <2> QED
    BY <2>1, <2>3, <2>4 DEF NetInv, MessagesOwn
<1> QED
  BY <1>1, NetCorrect, PTL

\* What was sent on a live connection and what is still pending are the frames
\* that were queued for it: in order, whole and none twice, also when a worker
\* appends to the response between copy_pending_response, send and
\* consume_pending_response.
THEOREM StreamIntactCorrect == NetSpec => []StreamIntact
<1>1. NetInv => StreamIntact
  <2>1. SUFFICES ASSUME NetInv, NEW i \in Slots, slots[i].session # 0
                 PROVE  sent[slots[i].session] \o StillToSend(i)
                          = FramesOf(queued[slots[i].session])
    BY DEF StreamIntact
  <2>2. Typed /\ Positions /\ Flows(i)
    BY <2>1 DEF NetInv, Typed, StreamsFlow
  <2>3. PICK p, o, b : p = slots[i].pending /\ o = slots[i].offset /\ b = Bytes(i)
    OBVIOUS
  <2>4. /\ p \in Parts(Message) /\ o \in Nat /\ b \in Nat /\ Len(p) \in Nat
        /\ Position(i) = o + b /\ o + b <= Len(p)
    BY <2>2, <2>3, FlowTypes DEF Position
  <2>5. Unsent(i) = Rest(p, o)
    BY <2>3 DEF Unsent, Rest
  <2>6. StillToSend(i) = Rest(p, Position(i))
    <3>1. CASE pc = "consume" /\ at = i
      <4>1. b = local.bytes
        BY <2>3, <3>1 DEF Bytes
      <4>2. StillToSend(i) = Rest(Rest(p, o), b)
        BY <2>5, <3>1, <4>1 DEF StillToSend, Rest
      <4>3. Rest(Rest(p, o), b) = Rest(p, o + b)
        <5>1. o \in 0 .. Len(p) /\ b \in 0 .. Len(p) - o
          BY <2>4
        <5> QED
          BY <2>4, <5>1, RestOfRest
      <4> QED
        BY <2>4, <4>2, <4>3
    <3>2. CASE ~ (pc = "consume" /\ at = i)
      BY <2>3, <2>4, <2>5, <3>2 DEF StillToSend, Bytes
    <3> QED
      BY <3>1, <3>2
  <2> QED
    BY <2>1, <2>2, <2>3, <2>6 DEF Flows
<1> QED
  BY <1>1, NetCorrect, PTL

\* A result overtakes its acknowledgement only in the window between release()
\* and set_pending_response() of the same handler.
THEOREM AckWindowCorrect == NetSpec => []AckOvertakenOnlyInWindow
<1>1. NetInv => AckOvertakenOnlyInWindow
  <2>1. SUFFICES ASSUME NetInv, NEW s \in Sessions, NEW k \in DOMAIN queued[s],
                        queued[s][k].type = "finished"
                 PROVE  \/ \E j \in DOMAIN queued[s] :
                             queued[s][j] = Msg("ack", queued[s][k].id)
                        \/ /\ pc = "reply" /\ local.reply = Msg("ack", queued[s][k].id)
                           /\ Session = s
    BY DEF AckOvertakenOnlyInWindow
  <2>2. /\ queued[s] \in Seq(Message) /\ DOMAIN queued[s] = 1 .. Len(queued[s])
        /\ k \in 1 .. Len(queued[s])
    BY <2>1, LenProperties DEF NetInv, NetTypeOK
  <2>3. PICK m, i : m = queued[s][k] /\ i = m.id
    OBVIOUS
  <2>4. m \in Message /\ m.type = "finished" /\ Holds(queued[s], m)
    BY <2>1, <2>2, <2>3, ElementOfSeq DEF Holds
  <2>5. Submitted(i) /\ i \in Submissions /\ tasks[i].channel[2] = s
    BY <2>1, <2>3, <2>4 DEF NetInv, MessagesOwn, Submitted
  <2>6. m = Msg("finished", i)
    BY <2>3, <2>4, MessageIs
  <2>7. PICK a : a = Msg("ack", i)
    OBVIOUS
  <2>8. CASE Holds(queued[s], a)
    BY <2>2, <2>3, <2>7, <2>8 DEF Holds
  <2>9. CASE pc \in {"release", "reply"} /\ local.reply = a
    <3>1. pc = "reply"
      BY <2>1, <2>4, <2>5, <2>6, <2>7, <2>9 DEF NetInv, AckComes
    <3>2. a.type = "ack" /\ a.id = i
      BY <2>7 DEF Msg
    <3>3. tasks[i].channel = Channel
      BY <2>1, <2>9, <3>2 DEF NetInv, MessagesOwn
    <3>4. Session = s
      BY <2>5, <3>3 DEF Channel
    <3> QED
      BY <2>3, <2>7, <2>9, <3>1, <3>4
  <2> QED
    BY <2>1, <2>5, <2>7, <2>8, <2>9 DEF NetInv, AckComes
<1> QED
  BY <1>1, NetCorrect, PTL

\* A set in which any two elements are equal.
LEMMA AtMostOne ==
  ASSUME NEW S, \A x, y \in S : x = y
  PROVE  Cardinality(S) <= 1
<1>1. CASE S = {}
  BY <1>1, FS_EmptySet
<1>2. CASE S # {}
  <2>1. PICK x : x \in S
    BY <1>2
  <2>2. S = {x}
    BY <2>1
  <2> QED
    BY <2>2, FS_Singleton
<1> QED
  BY <1>1, <1>2

\* The result that onSubmissionFinished handed over is queued, held back or in
\* the hands of the loop, in one place and once, while its connection is there.
THEOREM HandedOverOnceCorrect == NetSpec => []ResultHandedOverOnce
<1>1. NetInv => ResultHandedOverOnce
  <2>1. SUFFICES ASSUME NetInv, NEW i \in Submissions, tasks[i].pc \in {"wake", "done"}
                 PROVE  /\ Cardinality(InPlaces(i)) <= 1
                        /\ slots[tasks[i].channel[1]].session = tasks[i].channel[2]
                             => InPlaces(i) # {}
    BY DEF ResultHandedOverOnce
  <2>2. PICK m, ch, q, d, h : /\ m = Msg("finished", i) /\ ch = tasks[i].channel
                              /\ q = queued[ch[2]] /\ d = deferred[ch] /\ h = local.held
    OBVIOUS
  <2>3. Submitted(i) /\ ch \in Channels /\ ch[2] \in Sessions
    BY <2>1, <2>2, ChannelAt DEF NetInv, Submitted
  <2>4. /\ q \in Seq(Message) /\ d \in Seq(Message) /\ h \in Seq(Message)
        /\ DOMAIN q = 1 .. Len(q) /\ DOMAIN d = 1 .. Len(d) /\ DOMAIN h = 1 .. Len(h)
    <3>1. q \in Seq(Message) /\ d \in Seq(Message) /\ h \in Seq(Message)
      BY <2>1, <2>2, <2>3 DEF NetInv, NetTypeOK
    <3> QED
      BY <3>1, LenProperties
  <2>5. /\ Once(q, m) /\ Once(d, m) /\ Once(h, m)
        /\ ~ (Holds(q, m) /\ Holds(d, m))
        /\ ~ (Holds(q, m) /\ Holds(h, m))
        /\ ~ (Holds(d, m) /\ Holds(h, m))
        /\ slots[ch[1]].session = ch[2] => Holds(q, m) \/ Holds(d, m) \/ Holds(h, m)
    BY <2>1, <2>2, <2>3 DEF NetInv, OncePerPlace, OnceFor
  <2>6. PICK Q, D, H : /\ Q = {k \in DOMAIN q : q[k] = m}
                       /\ D = {k \in DOMAIN d : d[k] = m /\ ch \in awaiting /\ ch = Channel
                                                /\ pc \in {"submit", "release"}}
                       /\ H = {k \in DOMAIN h : h[k] = m}
    OBVIOUS
  <2>7. InPlaces(i) = {<<"queued", k>> : k \in Q} \cup {<<"deferred", k>> : k \in D}
                        \cup {<<"held", k>> : k \in H}
    BY <2>2, <2>6 DEF InPlaces
  <2>8. /\ Q # {} <=> Holds(q, m)
        /\ D # {} => Holds(d, m)
        /\ H # {} <=> Holds(h, m)
    BY <2>4, <2>6 DEF Holds
  <2>9. Holds(d, m) => D # {}
    <3>1. SUFFICES ASSUME Holds(d, m)
                   PROVE  D # {}
      OBVIOUS
    <3>2. PICK k \in 1 .. Len(d) : d[k] = m
      BY <3>1 DEF Holds
    <3>3. d # << >>
      BY <2>4, <3>2
    <3>4. ch \in awaiting
      BY <2>1, <2>2, <2>3, <3>3 DEF NetInv, BarrierOwned
    <3>5. ch = Channel /\ pc \in {"submit", "release"}
      BY <2>1, <3>4 DEF NetInv, BarrierOwned
    <3> QED
      BY <2>4, <2>6, <3>2, <3>4, <3>5
  <2>10. /\ \A k, l \in Q : k = l
         /\ \A k, l \in D : k = l
         /\ \A k, l \in H : k = l
    BY <2>4, <2>5, <2>6 DEF Once
  <2>11. \A x, y \in InPlaces(i) : x = y
    <3>1. \/ Q = {} /\ D = {}
          \/ Q = {} /\ H = {}
          \/ D = {} /\ H = {}
      BY <2>5, <2>8
    <3> QED
      BY <2>7, <2>10, <3>1
  <2>12. Cardinality(InPlaces(i)) <= 1
    BY <2>11, AtMostOne
  <2>13. slots[ch[1]].session = ch[2] => InPlaces(i) # {}
    BY <2>5, <2>7, <2>8, <2>9
  <2> QED
    BY <2>2, <2>12, <2>13
<1> QED
  BY <1>1, NetCorrect, PTL
=============================================================================
