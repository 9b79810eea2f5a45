----------------------------- MODULE MCSubmission -----------------------------
(***************************************************************************)
(* The conversions with numbers on both sides of the limits of an int of   *)
(* three bits.                                                             *)
(***************************************************************************)
EXTENDS Conversions

MCNumbers == -6 .. 12
MCDoubles == {-10, -3, -1, 0, 1, 5, 6, 20}
=============================================================================
