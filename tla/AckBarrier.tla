----------------------------- MODULE AckBarrier -----------------------------
(***************************************************************************)
(* The barrier that holds back asynchronous messages of a reply channel    *)
(* while the acknowledgement of a submission on it is being prepared       *)
(* (src/src/network/AckBarrier.cpp).  Each method is one critical section. *)
(***************************************************************************)
EXTENDS Integers, Sequences

CONSTANT Channels   \* reply channels

VARIABLES
  awaiting,   \* the channels waiting for an acknowledgement
  deferred    \* channel -> messages held back

barrierVars == <<awaiting, deferred>>

BarrierInit ==
  /\ awaiting = {}
  /\ deferred = [ch \in Channels |-> << >>]

mark_waiting_Nothing(ch) == UNCHANGED barrierVars

mark_waiting(ch) ==
  /\ awaiting' = awaiting \cup {ch}
  /\ UNCHANGED deferred

\* release returns the messages held back, deferred[ch], to its caller.
release(ch) ==
  /\ awaiting' = awaiting \ {ch}
  /\ deferred' = [deferred EXCEPT ![ch] = << >>]

\* try_defer returns whether it kept the message.
try_defer_Drops(ch, msg) ==
  /\ ch \in awaiting
  /\ UNCHANGED barrierVars

try_defer(ch, msg) ==
  /\ ch \in awaiting
  /\ deferred' = [deferred EXCEPT ![ch] = Append(@, msg)]
  /\ UNCHANGED awaiting
=============================================================================
