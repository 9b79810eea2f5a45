---------------------- MODULE SubmissionVerdictReducer ----------------------
(***************************************************************************)
(* How the verdicts of the test cases become the verdict of the submission *)
(* (src/src/pipeline/SubmissionVerdictReducer.cpp).                        *)
(***************************************************************************)
EXTENDS SubmissionTypes

verdict_priority(verdict) ==
  CASE verdict = "CE"                   -> 100
    [] verdict = "SYSTEM_ERROR"         -> 90
    [] verdict = "TLE"                  -> 80
    [] verdict \in {"RE", "MLE", "OLE"} -> 70
    [] verdict \in {"WA", "PE"}         -> 60
    [] verdict = "UNKNOWN"              -> 50
    [] verdict = "AC"                   -> 10
    [] OTHER                            -> 0

\* The body of the loop: the verdict kept after one more case.
Worse_Last(summary, verdict) ==
  IF verdict_priority(verdict) >= verdict_priority(summary)
    THEN verdict ELSE summary

Worse(summary, verdict) ==
  IF verdict_priority(verdict) > verdict_priority(summary)
    THEN verdict ELSE summary

\* The loop, over all cases and starting from the first one; the default
\* verdict of an empty list is PENDING.
summarize(case_results) ==
  LET summary[n \in 0 .. Len(case_results)] ==
        IF n = 0 THEN case_results[1]
                 ELSE Worse(summary[n - 1], case_results[n])
  IN  IF case_results = << >> THEN "PENDING" ELSE summary[Len(case_results)]
-----------------------------------------------------------------------------
(***************************************************************************)
(* The reference: verdicts in classes, from the one that decides the       *)
(* verdict of the submission over all others, to the one that only does    *)
(* when there is nothing else.  Within a class the earliest case decides.  *)
(***************************************************************************)
Severity ==
  << {"CE"}, {"SYSTEM_ERROR"}, {"TLE"}, {"RE", "MLE", "OLE"}, {"WA", "PE"},
     {"UNKNOWN"}, {"AC"}, {"PENDING"} >>

Decisive(cases) ==
  CHOOSE i \in DOMAIN cases :
    \E k \in DOMAIN Severity :
      /\ cases[i] \in Severity[k]
      /\ \A j \in DOMAIN cases :
           \/ \E m \in k + 1 .. Len(Severity) : cases[j] \in Severity[m]
           \/ cases[j] \in Severity[k] /\ i <= j
=============================================================================
