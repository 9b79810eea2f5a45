--------------------------- MODULE MessageDelivery ---------------------------
(***************************************************************************)
(* What the framing layer promises the request handlers: the messages that *)
(* a client sends on a connection are handed over whole, in order and once *)
(* each, until the connection ends; then the slot may serve another        *)
(* client.  Nothing is said about when.                                    *)
(***************************************************************************)
EXTENDS Naturals, Sequences

CONSTANT Message

VARIABLES
  outgoing,   \* the messages that the client of the connection sends
  taken,      \* those that were handed over
  ended       \* whether the connection has ended

deliveryVars == <<outgoing, taken, ended>>

DeliveryInit ==
  /\ outgoing \in Seq(Message)
  /\ taken = << >>
  /\ ended = FALSE

Deliver ==
  /\ ~ ended
  /\ Len(taken) < Len(outgoing)
  /\ taken' = Append(taken, outgoing[Len(taken) + 1])
  /\ UNCHANGED <<outgoing, ended>>

End ==
  /\ ended' = TRUE
  /\ UNCHANGED <<outgoing, taken>>

Reuse ==
  /\ ended
  /\ outgoing' \in Seq(Message)
  /\ taken' = << >>
  /\ ended' = FALSE

DeliverySpec ==
  DeliveryInit /\ [][Deliver \/ End \/ Reuse]_deliveryVars
=============================================================================
