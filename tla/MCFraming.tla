------------------------------- MODULE MCFraming -------------------------------
(***************************************************************************)
(* A small buffer: less room than a message and its successor need, so     *)
(* that it grows, is moved and is full.                                    *)
(***************************************************************************)
EXTENDS Framing
=============================================================================
