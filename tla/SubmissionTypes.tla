--------------------------- MODULE SubmissionTypes ---------------------------
(***************************************************************************)
(* The vocabulary shared by every component: the status a submission goes  *)
(* through, the verdict it ends with and the snapshot of it that the       *)
(* components exchange (src/src/common/SubmissionTypes.h).                 *)
(***************************************************************************)
EXTENDS Integers, Sequences, FiniteSets

SubmissionStatus ==
  {"QUEUED", "PREPARING", "COMPILING", "RUNNING", "FINISHED", "FAILED"}

SubmissionVerdict ==
  {"PENDING", "AC", "WA", "TLE", "MLE", "RE", "OLE", "PE", "CE", "UNKNOWN",
   "SYSTEM_ERROR"}

\* A snapshot.  A test case is represented by its verdict: the measured
\* times and the message text influence nothing that is modelled.
SubmissionResult ==
  [status       : SubmissionStatus,
   verdict      : SubmissionVerdict,
   case_results : Seq(SubmissionVerdict)]

make_result(status, verdict) ==
  [status |-> status, verdict |-> verdict, case_results |-> << >>]

is_terminal_status(status) == status \in {"FINISHED", "FAILED"}
=============================================================================
