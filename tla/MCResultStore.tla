---------------------------- MODULE MCResultStore ----------------------------
(***************************************************************************)
(* The result store alone, its callers free to call anything at any time.  *)
(***************************************************************************)
EXTENDS ResultStore

\* One snapshot per status, and two that end a submission differently, so
\* that a second terminal write would show.
MCSnapshots ==
  {make_result(s, "PENDING") : s \in SubmissionStatus \ {"FINISHED", "FAILED"}}
  \cup {make_result("FINISHED", v) : v \in {"AC", "WA"}}
  \cup {make_result("FAILED", "SYSTEM_ERROR")}
=============================================================================
