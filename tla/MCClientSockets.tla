--------------------------- MODULE MCClientSockets ---------------------------
(***************************************************************************)
(* The network front end with few slots and few connections.               *)
(***************************************************************************)
EXTENDS ClientSockets

MCChannels == Slots \X (1 .. MaxSessions)
=============================================================================
