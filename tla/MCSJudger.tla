------------------------------ MODULE MCSJudger ------------------------------
(***************************************************************************)
(* The sandbox with small limits.  The exit codes are success, an ordinary *)
(* error, one that is also a set-up error, and the shell's 127; the        *)
(* signals are SIGKILL, as the kernel sends it when memory or CPU time run *)
(* out, and SIGPIPE.                                                       *)
(***************************************************************************)
EXTENDS SJudger

MCExitCodes == {0, 1, DUP2_FAILED, 127}
MCSignals   == {SIGKILL, 13}
=============================================================================
