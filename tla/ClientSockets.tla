---------------------------- MODULE ClientSockets ----------------------------
(***************************************************************************)
(* The network front end: the select loop of TcpServer, the connection     *)
(* handling of ClientSockets with its request handlers, and the worker     *)
(* threads that push results into the connections through the notifier     *)
(* hook onSubmissionFinished (src/src/network).  The loop thread and the   *)
(* workers interleave between any two critical sections; clients connect,  *)
(* send, disconnect and reset at any time.                                 *)
(*                                                                         *)
(* The judging itself is module JudgeWorkerPool: here a submission that    *)
(* was queued is finished by some worker at any later time.                *)
(***************************************************************************)
EXTENDS ConnectionRegistry, AckBarrier

CONSTANTS
  MaxSessions,     \* bound: how many connections clients ever open
  MaxRequests,     \* bound: how many requests clients ever send
  MaxSubmissions,  \* bound: how many submissions are accepted
  StopCalls        \* bound: how many times stop() is called, 0 or 1

ASSUME NetworkAssumption ==
  /\ MaxSessions \in Nat
  /\ MaxRequests \in Nat
  /\ MaxSubmissions \in Nat
  /\ StopCalls \in 0 .. 1
  /\ Channels = Slots \X (1 .. MaxSessions)

Sessions    == 1 .. MaxSessions
Submissions == 1 .. MaxSubmissions

VARIABLES
  \* The kernel, per connection; a connection has the session id it gets
  \* when it is accepted.
  conn,        \* state of the TCP connection
  client,      \* how many requests were begun, and the unfinished ones
  inbox,       \* parts that arrived and were not read
  sent,        \* parts of responses that the server has sent
  wake_fd,     \* whether the eventfd counter is positive
  \* The loop thread.
  pc,          \* where it is
  at,          \* the slot it is looking at
  fds,         \* the fd_sets, before and after select
  local,       \* local variables of the handlers
  next_session_id,
  running,     \* running_
  \* A thread that calls stop().
  stopper,
  \* The workers.
  tasks,       \* submission -> the reply channel and the worker's place
  \* History.
  queued       \* per session, the messages put into its pending response

kernelVars == <<conn, client, inbox, sent, wake_fd>>
loopVars   == <<pc, at, fds, local, next_session_id>>
stopVars   == <<running, stopper>>
netVars    == <<registryVars, barrierVars, kernelVars, loopVars, stopVars,
                tasks, queued>>

Kinds == {"submit", "query", "bad"}

ConnStates ==
  {"none", "open", "fin", "broken", "reset", "closed"}

Message == [type : {"ack", "finished", "result", "error"},
            id   : 0 .. MaxSubmissions]

Msg(type, id) == [type |-> type, id |-> id]

NoFds == [read |-> {}, write |-> {}, accept |-> FALSE, wake |-> FALSE]

NoLocal == [reply |-> Msg("error", 0), held |-> << >>, bytes |-> 0]

NetInit ==
  /\ RegistryInit
  /\ BarrierInit
  /\ conn = [s \in Sessions |-> "none"]
  /\ inbox = [s \in Sessions |-> << >>]
  /\ client = [begun |-> 0, half |-> [s \in Sessions |-> "none"]]
  /\ sent = [s \in Sessions |-> << >>]
  /\ wake_fd = FALSE
  /\ pc = "start"
  /\ at = 0
  /\ fds = NoFds
  /\ running = FALSE
  /\ stopper = "ready"
  /\ local = NoLocal
  /\ next_session_id = 1
  /\ tasks = [i \in Submissions |-> [channel |-> <<0, 0>>, pc |-> "none"]]
  /\ queued = [s \in Sessions |-> << >>]
-----------------------------------------------------------------------------
(***************************************************************************)
(* Clients and the network.  "fin": the client has closed; the server can  *)
(* still send, until the peer has answered what was sent with a reset      *)
(* ("broken").  "reset": the client has reset the connection.              *)
(***************************************************************************)
Connect(s) ==
  /\ conn[s] = "none"
  /\ \A r \in 1 .. s - 1 : conn[r] # "none"
  /\ conn' = [conn EXCEPT ![s] = "open"]
  /\ UNCHANGED <<registryVars, barrierVars, client, inbox, sent, wake_fd,
                 loopVars, tasks, queued>>

\* The two parts of a request arrive one after the other.
ArriveHead(s) ==
  /\ conn[s] = "open"
  /\ client.half[s] = "none"
  /\ client.begun < MaxRequests
  /\ \E k \in Kinds :
       /\ client' = [client EXCEPT !.begun = @ + 1, !.half[s] = k]
       /\ inbox' = [inbox EXCEPT ![s] = Append(@, <<k, 1>>)]
  /\ UNCHANGED <<registryVars, barrierVars, conn, sent, wake_fd, loopVars,
                 tasks, queued>>

ArriveBody(s) ==
  /\ conn[s] = "open"
  /\ client.half[s] # "none"
  /\ client' = [client EXCEPT !.half[s] = "none"]
  /\ inbox' = [inbox EXCEPT ![s] = Append(@, <<client.half[s], 2>>)]
  /\ UNCHANGED <<registryVars, barrierVars, conn, sent, wake_fd, loopVars,
                 tasks, queued>>

Disconnect(s) ==
  /\ conn[s] = "open"
  /\ \E c \in {"fin", "reset"} : conn' = [conn EXCEPT ![s] = c]
  /\ UNCHANGED <<registryVars, barrierVars, client, inbox, sent, wake_fd,
                 loopVars, tasks, queued>>

ClientStep(s) == Connect(s) \/ ArriveHead(s) \/ ArriveBody(s) \/ Disconnect(s)
-----------------------------------------------------------------------------
(***************************************************************************)
(* TcpServer::start, one round of the loop: populate the fd_sets slot by   *)
(* slot, select, drain the eventfd, accept one connection, and handle the  *)
(* events slot by slot.                                                    *)
(***************************************************************************)
Start ==
  /\ pc = "start"
  /\ running' = TRUE
  /\ pc' = "populate"
  /\ UNCHANGED <<registryVars, barrierVars, kernelVars, at, fds, local,
                 next_session_id, stopper, tasks, queued>>

\* The condition of the loop, tested before each round.
LoopEnds ==
  /\ pc = "populate" /\ at = 0
  /\ ~ running
  /\ pc' = "ended"
  /\ UNCHANGED <<registryVars, barrierVars, kernelVars, at, fds, local,
                 next_session_id, tasks, queued>>

NextSlot_OneMore(after) ==
  IF at = SlotCount THEN at' = 0 /\ pc' = after
                    ELSE at' = at + 1 /\ UNCHANGED pc

NextSlot(after) ==
  IF at = SlotCount - 1 THEN at' = 0 /\ pc' = after
                        ELSE at' = at + 1 /\ UNCHANGED pc

Populate ==
  /\ pc = "populate"
  /\ at = 0 => running
  /\ fds' = [fds EXCEPT
       !.read  = IF slots[at].session # 0 /\ slots[at].status = "READABLE"
                   THEN @ \cup {at} ELSE @,
       !.write = IF slots[at].session # 0 /\ slots[at].status = "WRITABLE"
                   THEN @ \cup {at} ELSE @]
  /\ NextSlot("select")
  /\ UNCHANGED <<registryVars, barrierVars, kernelVars, local,
                 next_session_id, tasks, queued>>

\* A connection is waiting in the listen queue.
Acceptable ==
  next_session_id <= MaxSessions /\ conn[next_session_id] # "none"

ReadReady(i) ==
  LET s == slots[i].session IN inbox[s] # << >> \/ conn[s] # "open"

\* select returns when something is ready.  A socket in the write set may be
\* full for a while; a socket may be reported readable although nothing can be
\* read from it.
Select ==
  /\ pc = "select"
  /\ \E W \in SUBSET fds.write, R \in SUBSET fds.read :
       /\ {i \in fds.read : ReadReady(i)} \subseteq R
       /\ R # {} \/ W # {} \/ wake_fd \/ Acceptable
       /\ fds' = [read |-> R, write |-> W,
                  accept |-> Acceptable, wake |-> wake_fd]
  /\ pc' = "drain"
  /\ UNCHANGED <<registryVars, barrierVars, kernelVars, at, local,
                 next_session_id, tasks, queued>>

\* EINTR begins the next round; any other error ends the loop.
SelectFails ==
  /\ pc = "select"
  /\ \/ pc' = "populate" /\ fds' = NoFds
     \/ pc' = "ended" /\ UNCHANGED fds
  /\ UNCHANGED <<registryVars, barrierVars, kernelVars, at, local,
                 next_session_id, tasks, queued>>

drain_wake_fd ==
  /\ pc = "drain"
  /\ wake_fd' = (wake_fd /\ ~ fds.wake)
  /\ pc' = "accept"
  /\ UNCHANGED <<registryVars, barrierVars, conn, client, inbox, sent, at, fds,
                 local, next_session_id, tasks, queued>>

\* When no slot is free the client gets as much of an error frame as the
\* socket takes, and the socket is closed.
send_connection_limit_error_and_close(s) ==
  /\ \E n \in 0 .. 2 :
       sent' = [sent EXCEPT ![s] = SubSeq(Frame(Msg("error", 0)), 1, n)]
  /\ conn' = [conn EXCEPT ![s] = "closed"]

\* A session id is used up also by a connection that is refused.
register_client_socket ==
  /\ next_session_id' = next_session_id + 1
  /\ \/ /\ acquire_slot(next_session_id)
        /\ UNCHANGED <<conn, sent>>
     \/ /\ free = << >>
        /\ send_connection_limit_error_and_close(next_session_id)
        /\ UNCHANGED registryVars

\* accept may fail and leave the connection in the listen queue.
Accept ==
  /\ pc = "accept"
  /\ \/ fds.accept /\ register_client_socket
     \/ UNCHANGED <<next_session_id, registryVars, conn, sent>>
  /\ pc' = "events"
  /\ UNCHANGED <<barrierVars, client, inbox, wake_fd, at, fds, local, tasks,
                 queued>>

\* handle_ready_events goes on with the next slot; after the last one the
\* fd_sets are cleared for the next round.
LeaveEvent ==
  /\ local' = NoLocal
  /\ IF at = SlotCount - 1
       THEN at' = 0 /\ pc' = "populate" /\ fds' = NoFds
       ELSE at' = at + 1 /\ pc' = "events" /\ UNCHANGED fds

SkipSlot ==
  /\ pc = "events"
  /\ \/ slots[at].session = 0
     \/ at \notin fds.read \cup fds.write
  /\ LeaveEvent
  /\ UNCHANGED <<registryVars, barrierVars, kernelVars, next_session_id, tasks,
                 queued>>

HasEvent(set) == pc = "events" /\ slots[at].session # 0 /\ at \in set

Session == slots[at].session
Channel == <<at, Session>>

\* release_connection closes the socket.
ReleaseConnection ==
  /\ release_slot(at)
  /\ conn' = [conn EXCEPT ![Session] = "closed"]
  /\ LeaveEvent
-----------------------------------------------------------------------------
(***************************************************************************)
(* handle_read_event: one readv, and at most one message is taken out of   *)
(* the input buffer.                                                       *)
(***************************************************************************)
\* readv returns 0 or fails.  EAGAIN is not told apart from the other errors:
\* read_message has stored the -1 before it looks at errno.
ReadFails ==
  /\ HasEvent(fds.read)
  /\ \/ conn[Session] \in {"reset", "broken"}
     \/ inbox[Session] = << >>
  /\ ReleaseConnection
  /\ UNCHANGED <<barrierVars, client, inbox, sent, wake_fd, next_session_id,
                 tasks, queued>>

\* Where the handler of a complete message begins, and what it replies.
Handler(k) == IF k = "submit" THEN "mark" ELSE "reply"

handleQuery == {Msg("result", 0), Msg("error", 0)}

Replies(k) == IF k = "query" THEN handleQuery ELSE {Msg("error", 0)}

ReadMessage ==
  /\ HasEvent(fds.read)
  /\ conn[Session] \in {"open", "fin"} /\ inbox[Session] # << >>
  /\ LET input == slots[at].input \o inbox[Session]
         kind  == input[1][1]
     IN  IF Len(input) >= 2
           THEN /\ slots' = [slots EXCEPT
                     ![at].input = SubSeq(input, 3, Len(input)),
                     ![at].status = "IDLE"]
                /\ \E r \in Replies(kind) : local' = [local EXCEPT !.reply = r]
                /\ pc' = Handler(kind)
                /\ UNCHANGED <<at, fds>>
           ELSE /\ slots' = [slots EXCEPT ![at].input = input]
                /\ LeaveEvent
  /\ inbox' = [inbox EXCEPT ![Session] = << >>]
  /\ UNCHANGED <<free, barrierVars, conn, client, sent, wake_fd,
                 next_session_id, tasks, queued>>

\* submitEnsuringAckFirst: mark the channel, queue the submission, release the
\* channel.  The queue may be shut.
MarkWaiting ==
  /\ pc = "mark"
  /\ mark_waiting(Channel)
  /\ pc' = "submit"
  /\ UNCHANGED <<registryVars, kernelVars, at, fds, local, next_session_id,
                 tasks, queued>>

SubmitAsync ==
  /\ pc = "submit"
  /\ \/ \E i \in Submissions :
          /\ tasks[i].pc = "none"
          /\ \A j \in 1 .. i - 1 : tasks[j].pc # "none"
          /\ tasks' = [tasks EXCEPT ![i] =
                         [channel |-> Channel, pc |-> "judging"]]
          /\ local' = [local EXCEPT !.reply = Msg("ack", i)]
     \/ /\ local' = [local EXCEPT !.reply = Msg("error", 0)]
        /\ UNCHANGED tasks
  /\ pc' = "release"
  /\ UNCHANGED <<registryVars, barrierVars, kernelVars, at, fds,
                 next_session_id, queued>>

ReleaseBarrier ==
  /\ pc = "release"
  /\ release(Channel)
  /\ local' = [local EXCEPT !.held = deferred[Channel]]
  /\ pc' = "reply"
  /\ UNCHANGED <<registryVars, kernelVars, at, fds, next_session_id, tasks,
                 queued>>

\* queue_immediate_response: two critical sections of the slot.
QueueReply ==
  /\ pc = "reply"
  /\ set_pending_response(at, local.reply)
  /\ queued' = [queued EXCEPT ![Session] = Append(@, local.reply)]
  /\ pc' = "writable"
  /\ UNCHANGED <<barrierVars, kernelVars, at, fds, local, next_session_id,
                 tasks>>

SetWritable_Forgotten ==
  /\ pc = "writable"
  /\ IF local.held = << >> THEN LeaveEvent
                           ELSE pc' = "held" /\ UNCHANGED <<at, fds, local>>
  /\ UNCHANGED <<registryVars, barrierVars, kernelVars, next_session_id, tasks,
                 queued>>

SetWritable ==
  /\ pc = "writable"
  /\ SetStatus(at, "WRITABLE")
  /\ IF local.held = << >> THEN LeaveEvent
                           ELSE pc' = "held" /\ UNCHANGED <<at, fds, local>>
  /\ UNCHANGED <<barrierVars, kernelVars, next_session_id, tasks, queued>>

\* The messages that were held back go through the usual path; nobody else
\* marks channels, so they are not held back again.
QueueHeld ==
  /\ pc = "held"
  /\ Channel \notin awaiting
  /\ set_pending_response_if_session(at, Session, Head(local.held))
  /\ queued' = [queued EXCEPT ![Session] = Append(@, Head(local.held))]
  /\ wake_fd' = TRUE
  /\ IF Len(local.held) = 1
       THEN LeaveEvent
       ELSE /\ local' = [local EXCEPT !.held = Tail(@)]
            /\ UNCHANGED <<pc, at, fds>>
  /\ UNCHANGED <<barrierVars, conn, client, inbox, sent, next_session_id,
                 tasks>>
-----------------------------------------------------------------------------
(***************************************************************************)
(* handle_write_event.                                                     *)
(***************************************************************************)
WriteBegins ==
  /\ HasEvent(fds.write \ fds.read)
  /\ IF slots[at].status # "WRITABLE"
       THEN LeaveEvent
       ELSE /\ pc' = IF slots[at].pending = << >> THEN "readable" ELSE "send"
            /\ UNCHANGED <<at, fds, local>>
  /\ UNCHANGED <<registryVars, barrierVars, kernelVars, next_session_id, tasks,
                 queued>>

\* ::send takes some of the unsent bytes, also after the peer has closed.
SendSome ==
  /\ pc = "send"
  /\ conn[Session] \in {"open", "fin"}
  /\ \E n \in 1 .. Len(Unsent(at)) :
       /\ sent' = [sent EXCEPT ![Session] = @ \o SubSeq(Unsent(at), 1, n)]
       /\ local' = [local EXCEPT !.bytes = n]
  /\ \/ UNCHANGED conn
     \/ conn[Session] = "fin" /\ conn' = [conn EXCEPT ![Session] = "broken"]
  /\ pc' = "consume"
  /\ UNCHANGED <<registryVars, barrierVars, client, inbox, wake_fd, at, fds,
                 next_session_id, tasks, queued>>

\* EAGAIN.
SendBlocks ==
  /\ pc = "send"
  /\ conn[Session] \in {"open", "fin"}
  /\ LeaveEvent
  /\ UNCHANGED <<registryVars, barrierVars, kernelVars, next_session_id, tasks,
                 queued>>

\* ECONNRESET.
SendFails ==
  /\ pc = "send"
  /\ conn[Session] = "reset"
  /\ ReleaseConnection
  /\ UNCHANGED <<barrierVars, client, inbox, sent, wake_fd, next_session_id,
                 tasks, queued>>

\* EPIPE: ::send is called without MSG_NOSIGNAL and SIGPIPE keeps its default
\* action, so the process is terminated.
SendKills ==
  /\ pc = "send"
  /\ conn[Session] = "broken"
  /\ pc' = "dead"
  /\ UNCHANGED <<registryVars, barrierVars, kernelVars, at, fds, local,
                 next_session_id, tasks, queued>>

Consume ==
  /\ pc = "consume"
  /\ consume_pending_response(at, local.bytes)
  /\ IF AllConsumed(at, local.bytes)
       THEN pc' = "readable" /\ UNCHANGED <<at, fds, local>>
       ELSE LeaveEvent
  /\ UNCHANGED <<barrierVars, kernelVars, next_session_id, tasks, queued>>

SetReadable ==
  /\ pc = "readable"
  /\ SetStatus(at, "READABLE")
  /\ LeaveEvent
  /\ UNCHANGED <<barrierVars, kernelVars, next_session_id, tasks, queued>>

LoopStep ==
  \/ LoopEnds \/ Populate \/ Select \/ SelectFails \/ drain_wake_fd \/ Accept
  \/ SkipSlot
  \/ ReadFails \/ ReadMessage \/ MarkWaiting \/ SubmitAsync \/ ReleaseBarrier
  \/ QueueReply \/ SetWritable \/ QueueHeld
  \/ WriteBegins \/ SendSome \/ SendBlocks \/ SendFails \/ SendKills
  \/ Consume \/ SetReadable
-----------------------------------------------------------------------------
(***************************************************************************)
(* The worker that holds submission i, in onSubmissionFinished and         *)
(* queue_protocol_response_for_channel.                                    *)
(***************************************************************************)
WorkerAt(i, from, to) ==
  /\ pc # "dead"
  /\ tasks[i].pc = from
  /\ tasks' = [tasks EXCEPT ![i].pc = to]

\* The hook has a message, or none because the snapshot is gone or the pool
\* is stopping.
HookBegins(i) ==
  /\ WorkerAt(i, "judging", "defer") \/ WorkerAt(i, "judging", "silent")
  /\ UNCHANGED <<registryVars, barrierVars, kernelVars, loopVars, queued>>

TryDefer(i) ==
  /\ \/ /\ try_defer(tasks[i].channel, Msg("finished", i))
        /\ WorkerAt(i, "defer", "done")
     \/ /\ tasks[i].channel \notin awaiting
        /\ WorkerAt(i, "defer", "queue")
        /\ UNCHANGED barrierVars
  /\ UNCHANGED <<registryVars, kernelVars, loopVars, queued>>

\* resolve_reply_channel_for_delivery and set_pending_response_if_session.
QueueIfSession(i) ==
  LET ch == tasks[i].channel
  IN  /\ \/ /\ set_pending_response_if_session(ch[1], ch[2], Msg("finished", i))
            /\ queued' = [queued EXCEPT ![slots[ch[1]].session] =
                            Append(@, Msg("finished", i))]
            /\ WorkerAt(i, "queue", "wake")
         \/ /\ slots[ch[1]].session # ch[2]
            /\ WorkerAt(i, "queue", "done")
            /\ UNCHANGED <<registryVars, queued>>
      /\ UNCHANGED <<barrierVars, kernelVars, loopVars>>

WakeSelectLoop_Forgotten(i) ==
  /\ WorkerAt(i, "wake", "done")
  /\ UNCHANGED <<registryVars, barrierVars, kernelVars, loopVars, queued>>

WakeSelectLoop(i) ==
  /\ WorkerAt(i, "wake", "done")
  /\ wake_fd' = TRUE
  /\ UNCHANGED <<registryVars, barrierVars, conn, client, inbox, sent, loopVars,
                 queued>>

WorkerHook(i) ==
  HookBegins(i) \/ TryDefer(i) \/ QueueIfSession(i) \/ WakeSelectLoop(i)

-----------------------------------------------------------------------------
(***************************************************************************)
(* TcpServer::stop, called by another thread, also before start.           *)
(***************************************************************************)
StopBegins ==
  /\ StopCalls = 1 /\ stopper = "ready"
  /\ running' = FALSE
  /\ stopper' = "wake"
  /\ UNCHANGED <<registryVars, barrierVars, kernelVars, loopVars, tasks, queued>>

StopWakes ==
  /\ stopper = "wake"
  /\ stopper' = "done"
  /\ wake_fd' = TRUE
  /\ UNCHANGED <<registryVars, barrierVars, conn, client, inbox, sent, loopVars,
                 running, tasks, queued>>

NetNext ==
  \/ /\ \/ \E s \in Sessions : ClientStep(s)
        \/ LoopStep
        \/ \E i \in Submissions : WorkerHook(i)
     /\ UNCHANGED stopVars
  \/ Start \/ StopBegins \/ StopWakes

NetSpec == NetInit /\ [][NetNext]_netVars
-----------------------------------------------------------------------------
(***************************************************************************)
(* Properties.                                                             *)
(***************************************************************************)
Parts(X) == Seq(X \X {1, 2})

NetTypeOK ==
  /\ slots \in [Slots -> [session : 0 .. MaxSessions,
                          status  : {"READABLE", "WRITABLE", "IDLE"},
                          input   : Parts(Kinds),
                          pending : Parts(Message),
                          offset  : Nat]]
  /\ free \in Seq(Slots)
  /\ awaiting \subseteq Channels
  /\ deferred \in [Channels -> Seq(Message)]
  /\ conn \in [Sessions -> ConnStates]
  /\ client \in [begun : 0 .. MaxRequests,
                half  : [Sessions -> Kinds \cup {"none"}]]
  /\ inbox \in [Sessions -> Parts(Kinds)]
  /\ sent \in [Sessions -> Parts(Message)]
  /\ wake_fd \in BOOLEAN
  /\ at \in Slots
  /\ fds \in [read : SUBSET Slots, write : SUBSET Slots,
              accept : BOOLEAN, wake : BOOLEAN]
  /\ local \in [reply : Message, held : Seq(Message), bytes : Nat]
  /\ next_session_id \in 1 .. MaxSessions + 1
  /\ running \in BOOLEAN
  /\ stopper \in {"ready", "wake", "done"}
  /\ queued \in [Sessions -> Seq(Message)]

\* The free list and the slots agree: a slot is free exactly once or holds one
\* live connection that no other slot holds (acquire_slot, release_slot).
SlotsAccounted ==
  /\ {free[k] : k \in DOMAIN free} = {i \in Slots : slots[i].session = 0}
  /\ Len(free) = Cardinality({i \in Slots : slots[i].session = 0})
  /\ \A i \in Slots : slots[i].session # 0 =>
       /\ slots[i].session < next_session_id
       /\ conn[slots[i].session] \notin {"none", "closed"}
       /\ \A j \in Slots \ {i} : slots[j].session # slots[i].session

\* Whenever the loop blocks in select it watches every live connection, for
\* reading or for writing: no handler leaves a connection IDLE and deaf.
NoDeafConnection ==
  pc = "select" =>
    \A i \in Slots :
      slots[i].session # 0 <=> i \in fds.read \cup fds.write

\* A connection is only ever given the acknowledgements and results of its own
\* submissions, although a slot is reused while workers still hold the reply
\* channel of its former connection (the session check).
OnlyOwnMessages ==
  \A s \in Sessions : \A k \in DOMAIN queued[s] :
    queued[s][k].type \in {"ack", "finished"}
      => tasks[queued[s][k].id].channel[2] = s

\* The bytes that go out on a live connection, and the rest that is still
\* pending, are the frames that were queued: in order, whole, none twice,
\* whatever was appended while the loop was between copying, sending and
\* consuming.
FramesOf(q) ==
  [k \in 1 .. 2 * Len(q) |-> <<q[(k + 1) \div 2], 2 - (k % 2)>>]

StillToSend(i) ==
  IF pc = "consume" /\ at = i
    THEN SubSeq(Unsent(i), local.bytes + 1, Len(Unsent(i)))
    ELSE Unsent(i)

StreamIntact ==
  \A i \in Slots : slots[i].session # 0 =>
    sent[slots[i].session] \o StillToSend(i)
      = FramesOf(queued[slots[i].session])

\* A result that the hook had for its client is not lost and not duplicated:
\* once the worker has handed it over it is queued, or in the hands of the
\* loop, or held back by the barrier for a submitEnsuringAckFirst that is
\* under way and will release it, exactly once, unless the connection is gone.
InPlaces(i) ==
  LET m == Msg("finished", i)
      ch == tasks[i].channel
  IN  {<<"queued", k>> : k \in {k \in DOMAIN queued[ch[2]] :
                                  queued[ch[2]][k] = m}}
      \cup {<<"deferred", k>> : k \in {k \in DOMAIN deferred[ch] :
                                  /\ deferred[ch][k] = m
                                  /\ ch \in awaiting /\ ch = Channel
                                  /\ pc \in {"submit", "release"}}}
      \cup {<<"held", k>> : k \in {k \in DOMAIN local.held :
                                  local.held[k] = m}}

ResultHandedOverOnce ==
  \A i \in Submissions : tasks[i].pc \in {"wake", "done"} =>
    LET ch == tasks[i].channel
    IN  /\ Cardinality(InPlaces(i)) <= 1
        /\ slots[ch[1]].session = ch[2] => InPlaces(i) # {}

\* How far the barrier protects the order: a result is queued while its
\* acknowledgement is not only between release() and set_pending_response(),
\* when the loop already holds the acknowledgement and queues it next.
AckOvertakenOnlyInWindow ==
  \A s \in Sessions : \A k \in DOMAIN queued[s] :
    queued[s][k].type = "finished" =>
      LET ack == Msg("ack", queued[s][k].id)
      IN  \/ \E j \in DOMAIN queued[s] : queued[s][j] = ack
          \/ pc = "reply" /\ local.reply = ack /\ Session = s

\* A loop that has something to do does not block, whatever happened between
\* its look at the slots and at running_ and its call of select.  When it is
\* in select and does not watch a WRITABLE connection for writing, the eventfd
\* is readable or a worker is about to write it; when it is in select although
\* it was told to stop, the eventfd is readable or stop() is about to write it.
NoLostWake ==
  pc = "select" =>
    /\ \A i \in Slots :
         /\ slots[i].session # 0
         /\ slots[i].status = "WRITABLE"
         /\ i \notin fds.write
         => wake_fd \/ \E t \in Submissions : tasks[t].pc = "wake"
    /\ ~ running => wake_fd \/ stopper = "wake"

\* The select loop misses nothing: while it blocks it watches every live
\* connection, and what came up after populate_fd_sets (a response a worker
\* queued, a call of stop()) has a wake-up there or on its way.
SelectMissesNothing == NoDeafConnection /\ NoLostWake

\* The loop will send what is pending in slot i: it watches the slot for
\* writing from its next round on, or is in a handler that will make it so.
Attended(i) ==
  slots[i].pending # << >> =>
    \/ slots[i].status = "WRITABLE"
    \/ at = i /\ pc \in {"mark", "submit", "release", "reply", "writable"}

\* The only step of any thread after which the loop does not know of a
\* response that it knew of is set_readable() behind a response that was
\* queued since consume_pending_response() found everything sent: no read
\* event, reply, deferred message, reuse of the slot or failure strands one.
StrandedOnlyInWindow ==
  [][\A i \in Slots :
       Attended(i) => Attended(i)' \/ (pc = "readable" /\ at = i)]_netVars

\* AckBarrier.h, SubmissionRequestHandler.h: the client receives the
\* acknowledgement of a submission before its result.
AckFirst ==
  \A s \in Sessions : \A k \in DOMAIN queued[s] :
    queued[s][k].type = "finished" =>
      \E j \in 1 .. k - 1 : queued[s][j] = Msg("ack", queued[s][k].id)

\* TcpServer.cpp: the eventfd makes it safe to block in select without a
\* timeout, i.e. the loop never waits while a response is pending that it does
\* not watch for writing and nobody is going to wake it.
BlockingWaitIsSafe ==
  pc = "select" =>
    \A i \in Slots :
      /\ slots[i].session # 0
      /\ slots[i].pending # << >>
      /\ i \notin fds.write
      => wake_fd \/ \E t \in Submissions : tasks[t].pc = "wake"

\* docs: a client that disconnects does not keep the workers from finishing.
DisconnectIsHarmless == pc # "dead"
=============================================================================
