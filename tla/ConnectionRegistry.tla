------------------------- MODULE ConnectionRegistry -------------------------
(***************************************************************************)
(* The fixed table of connection slots and the queue of free ones          *)
(* (src/src/network/ConnectionRegistry.cpp, ConnectionSlot.cpp).  Each     *)
(* ConnectionSlot has its own mutex; an operator below is one critical     *)
(* section of one slot.  The worker threads call only                      *)
(* set_pending_response_if_session, everything else is done by the thread  *)
(* of the event loop.                                                      *)
(*                                                                         *)
(* Byte streams are sequences of parts.  A frame is a length header and a  *)
(* body, so it has two parts, <<x, 1>> and <<x, 2>>: enough for messages   *)
(* to arrive in pieces and for responses to be sent in pieces.             *)
(***************************************************************************)
EXTENDS Integers, Sequences, FiniteSets

CONSTANT SlotCount   \* the number of slots, max_concurrent_tests

ASSUME RegistryAssumption == SlotCount \in Nat \ {0}

Slots == 0 .. SlotCount - 1

VARIABLES
  slots,   \* slot id -> ConnectionSlot
  free     \* free_slot_ids_

registryVars == <<slots, free>>

Frame(x) == << <<x, 1>>, <<x, 2>> >>

\* session 0 stands for fd_ = 0 and session_id_ = 0: no connection.
EmptySlot ==
  [session |-> 0, status |-> "READABLE", input |-> << >>,
   pending |-> << >>, offset |-> 0]

RegistryInit ==
  /\ slots = [i \in Slots |-> EmptySlot]
  /\ free = [k \in 1 .. SlotCount |-> k - 1]

\* ConnectionSlot::init.
ConnectedSlot(session) == [EmptySlot EXCEPT !.session = session]

acquire_slot(session) ==
  /\ free # << >>
  /\ slots' = [slots EXCEPT ![Head(free)] = ConnectedSlot(session)]
  /\ free' = Tail(free)

\* release_slot and ConnectionSlot::clear, which also closes the socket.
release_slot_Twice(i) ==
  /\ slots' = [slots EXCEPT ![i] = EmptySlot]
  /\ free' = free \o <<i, i>>

release_slot(i) ==
  /\ slots' = [slots EXCEPT ![i] = EmptySlot]
  /\ free' = Append(free, i)

SetStatus(i, status) ==
  /\ slots' = [slots EXCEPT ![i].status = status]
  /\ UNCHANGED free

\* set_pending_response: the frame is appended to what is still unsent.
set_pending_response(i, msg) ==
  /\ slots' = [slots EXCEPT ![i].pending = @ \o Frame(msg)]
  /\ UNCHANGED free

set_pending_response_if_session_Any(i, session, msg) ==
  /\ slots[i].session # 0
  /\ slots' = [slots EXCEPT ![i].pending = @ \o Frame(msg),
                            ![i].status = "WRITABLE"]
  /\ UNCHANGED free

set_pending_response_if_session(i, session, msg) ==
  /\ slots[i].session = session
  /\ slots[i].session # 0
  /\ slots' = [slots EXCEPT ![i].pending = @ \o Frame(msg),
                            ![i].status = "WRITABLE"]
  /\ UNCHANGED free

\* copy_pending_response: what is still to be sent.
Unsent(i) ==
  SubSeq(slots[i].pending, slots[i].offset + 1, Len(slots[i].pending))

\* consume_pending_response returns whether everything has been sent.
AllConsumed(i, bytes) == slots[i].offset + bytes >= Len(slots[i].pending)

consume_pending_response_Clears(i, bytes) ==
  /\ slots' = [slots EXCEPT ![i].pending = << >>, ![i].offset = 0]
  /\ UNCHANGED free

consume_pending_response(i, bytes) ==
  /\ slots' = IF AllConsumed(i, bytes)
                THEN [slots EXCEPT ![i].pending = << >>, ![i].offset = 0]
                ELSE [slots EXCEPT ![i].offset = @ + bytes]
  /\ UNCHANGED free
=============================================================================
