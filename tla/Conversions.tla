------------------------------ MODULE Conversions ------------------------------
(***************************************************************************)
(* The two conversions at the ends of the pipeline, on all small inputs: a *)
(* payload becomes a request, and the verdicts of the cases of a submitted *)
(* program become its verdict.  The lists of verdicts grow one at a time,  *)
(* as running_result.case_results does in processSubmission.               *)
(***************************************************************************)
EXTENDS SubmissionVerdictReducer, JudgeProtocol

CONSTANTS
  MaxCases,   \* bound: the number of test cases of a problem
  Numbers,    \* the integers in payloads, of which some are no int
  Doubles,    \* twice the floats in payloads
  None        \* no payload, no request

VARIABLES payload, request, case_results

submissionVars == <<payload, request, case_results>>

Texts == {Absent, Text("text"), Other}

Fields ==
  Texts \cup {Number("integer", n) : n \in Numbers}
        \cup {Number("float", d) : d \in Doubles}
        \cup {Number("boolean", b) : b \in {0, 1}}

Types ==
  {Absent, Other} \cup {Text(t) : t \in {"submit", "query_result", "text"}}

\* Of the numbers a uuid may be, fewer are enough.
Uuids ==
  {Absent, Text("text"), Number("boolean", 1)}
    \cup {Number("integer", n) : n \in Numbers \cap {1, 9}}
    \cup {Number("float", d) : d \in Doubles \cap {5}}

Submits ==
  [type : Types, uuid : Uuids, pid : Texts, lang : Fields, code : Texts,
   submission_id : {Absent}]

Queries ==
  [type : Types, uuid : {Absent}, pid : {Absent}, lang : {Absent},
   code : {Absent}, submission_id : Fields]

SubmissionInit ==
  /\ payload = None
  /\ request = None
  /\ case_results = << >>

Receive ==
  /\ payload = None /\ request = None
  /\ payload' \in Submits \cup Queries \cup {NotAnObject}
  /\ request' \in handle_complete_message(payload')
  /\ UNCHANGED case_results

\* The submission is judged; the verdict depends on no field of it.
Accept ==
  /\ payload # None /\ request.kind = "submit"
  /\ payload' = None
  /\ request' = [kind |-> "judged"]
  /\ UNCHANGED case_results

CaseJudged ==
  /\ request = [kind |-> "judged"]
  /\ Len(case_results) < MaxCases
  /\ \E verdict \in SubmissionVerdict :
       case_results' = Append(case_results, verdict)
  /\ UNCHANGED <<payload, request>>

SubmissionSpec ==
  SubmissionInit /\ [][Receive \/ Accept \/ CaseJudged]_submissionVars
-----------------------------------------------------------------------------
\* The verdict of a submission is that of its most severe case, the first one
\* of those that are equally severe (SubmissionVerdictReducer::summarize).
SummaryIsMostSevere ==
  case_results # << >>
    => summarize(case_results) = case_results[Decisive(case_results)]

(***************************************************************************)
(* What docs/protocol.md calls a request.                                  *)
(***************************************************************************)
IntField(field) == Is(field, "integer") /\ field.v \in Ints

DocumentedSubmit(p) ==
  /\ hasType(p, "submit")
  /\ IntField(p.uuid) /\ Is(p.pid, "string") /\ Is(p.code, "string")
  /\ IntField(p.lang) /\ p.lang.v \in 0 .. 2

DocumentedQuery(p) == hasType(p, "query_result") /\ IntField(p.submission_id)

\* A number of another type, or too large for an int.
Converted(field) ==
  \/ Is(field, "float") \/ Is(field, "boolean")
  \/ Is(field, "integer") /\ field.v \notin Ints

\* Every request of docs/protocol.md is read as what it says, every other
\* payload is a bad request, and no payload is both a submit and a query.  The
\* one leniency: get<int> converts numbers that are no int instead of refusing
\* them, so that a language, a uuid or the id of a query may be another than
\* the one sent.
ReadAsDocumented ==
  payload # None =>
    /\ payload = NotAnObject => request = Rejected
    /\ payload # NotAnObject =>
         /\ DocumentedSubmit(payload) =>
              /\ request.kind = "submit"
              /\ request.uuid = payload.uuid.v
              /\ request.language = <<"CPP", "C", "PYTHON">>[payload.lang.v + 1]
         /\ DocumentedQuery(payload) =>
              request = [kind |-> "query",
                         submission_id |-> payload.submission_id.v]
         /\ request # Rejected =>
              \/ DocumentedSubmit(payload) \/ DocumentedQuery(payload)
              \/ /\ hasType(payload, "submit") /\ ~ LacksText(payload)
                 /\ Converted(payload.lang) \/ Converted(payload.uuid)
              \/ hasType(payload, "query_result")
                   /\ Converted(payload.submission_id)
=============================================================================
