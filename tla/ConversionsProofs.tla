-------------------------- MODULE ConversionsProofs --------------------------
(***************************************************************************)
(* The two conversions at the ends of the pipeline, for every width of an  *)
(* int, every set of numbers in payloads and every number of cases.        *)
(***************************************************************************)
EXTENDS Conversions, SubmissionVerdictReducerProofs

(***************************************************************************)
(* Decoding one payload.                                                   *)
(***************************************************************************)
\* static_cast<int> leaves an int as it is.
LEMMA WrapKeepsInts ==
  ASSUME NEW v \in Ints
  PROVE  v \in Int /\ Wrap(v) = v
<1> DEFINE half == 2 ^ (IntWidth - 1)
<1>1. half \in Nat \ {0} /\ 2 ^ IntWidth = 2 * half
  BY JsonAssumption
<1>2. v \in -half .. half - 1
  BY DEF Ints
<1> HIDE DEF half
<1>3. v + half \in 0 .. 2 * half - 1
  BY <1>1, <1>2
<1>4. (v + half) % (2 * half) = v + half
  BY <1>1, <1>3
<1>5. Wrap(v) = ((v + half) % (2 * half)) - half
  BY <1>1 DEF Wrap, half
<1> QED
  BY <1>1, <1>2, <1>4, <1>5

\* get<int> of an int is that int.
LEMMA GetIntOfInt ==
  ASSUME NEW field, IntField(field)
  PROVE  get_int(field) = {field.v}
<1>1. field.json = "integer" /\ field.v \in Ints
  BY DEF IntField, Is
<1> QED
  BY <1>1, WrapKeepsInts DEF get_int

\* A field that get<int> reads is an int or another kind of number.
LEMMA GetIntAccepts ==
  ASSUME NEW field, field # Absent, get_int(field) # {}
  PROVE  IntField(field) \/ Converted(field)
BY DEF get_int, IntField, Converted, Is

\* A request of docs/protocol.md is decoded to the one request it says.
LEMMA DocumentedSubmitIsRead ==
  ASSUME NEW p, p # NotAnObject, DocumentedSubmit(p)
  PROVE  handle_complete_message(p) =
           {[kind |-> "submit", uuid |-> p.uuid.v,
             language |-> <<"CPP", "C", "PYTHON">>[p.lang.v + 1]]}
<1>1. /\ get_int(p.uuid) = {p.uuid.v}
      /\ get_int(p.lang) = {p.lang.v}
  BY GetIntOfInt DEF DocumentedSubmit
<1>2. hasType(p, "submit") /\ ~ LacksText(p) /\ p.lang.v \in 0 .. 2
  BY DEF DocumentedSubmit, IntField, Is, LacksText
<1>3. toSubmissionLanguage[p.lang.v] = <<"CPP", "C", "PYTHON">>[p.lang.v + 1]
  BY <1>2 DEF toSubmissionLanguage
<1> DEFINE decoded == [kind |-> "submit", uuid |-> p.uuid.v,
                       language |-> toSubmissionLanguage[p.lang.v]]
<1>4. decodeRequest(p) = {decoded}
  <2>1. {p.lang.v} \cap 0 .. 2 = {p.lang.v} /\ {p.lang.v} \ (0 .. 2) = {}
    BY <1>2
  <2>2. decodeRequest(p) =
          {[kind |-> "submit", uuid |-> uuid,
            language |-> toSubmissionLanguage[lang]] :
             uuid \in {p.uuid.v}, lang \in {p.lang.v}}
    BY <1>1, <1>2, <2>1 DEF decodeRequest
  <2> QED
    BY <2>2
<1>5. decoded # Rejected
  BY DEF Rejected
<1> HIDE DEF decoded
<1>6. handle_complete_message(p) = {decoded}
  BY <1>4, <1>5 DEF handle_complete_message
<1> QED
  BY <1>3, <1>6 DEF decoded

LEMMA DocumentedQueryIsRead ==
  ASSUME NEW p, p # NotAnObject, DocumentedQuery(p)
  PROVE  handle_complete_message(p) =
           {[kind |-> "query", submission_id |-> p.submission_id.v]}
<1>1. get_int(p.submission_id) = {p.submission_id.v}
  BY GetIntOfInt DEF DocumentedQuery
<1>2. /\ hasType(p, "query_result")
      /\ ~ hasType(p, "submit")
      /\ p.submission_id # Absent
  BY DEF DocumentedQuery, IntField, Is, hasType
<1>3. decodeRequest(p) = {Rejected}
  BY <1>2 DEF decodeRequest
<1>4. decodeQueryRequest(p) =
        {[kind |-> "query", submission_id |-> p.submission_id.v]}
  BY <1>1, <1>2 DEF decodeQueryRequest
<1> QED
  BY <1>3, <1>4 DEF handle_complete_message

\* Whatever else is not refused holds a number that had to be converted.
LEMMA OnlyNumbersAreConverted ==
  ASSUME NEW p, p # NotAnObject, NEW r \in handle_complete_message(p),
         r # Rejected
  PROVE  \/ DocumentedSubmit(p) \/ DocumentedQuery(p)
         \/ /\ hasType(p, "submit") /\ ~ LacksText(p)
            /\ Converted(p.lang) \/ Converted(p.uuid)
         \/ hasType(p, "query_result") /\ Converted(p.submission_id)
<1>1. CASE r \in decodeRequest(p)
  <2>1. hasType(p, "submit") /\ ~ LacksText(p)
    BY <1>1 DEF decodeRequest
  <2>2. PICK lang \in get_int(p.lang) \cap 0 .. 2, uuid \in get_int(p.uuid) :
          TRUE
    BY <1>1, <2>1 DEF decodeRequest
  <2>3. p.lang # Absent /\ p.uuid # Absent
    BY <2>1 DEF LacksText
  <2>4. /\ IntField(p.lang) \/ Converted(p.lang)
        /\ IntField(p.uuid) \/ Converted(p.uuid)
    BY <2>2, <2>3, GetIntAccepts
  <2>5. ASSUME IntField(p.lang), IntField(p.uuid)
        PROVE  DocumentedSubmit(p)
    <3>1. p.lang.v \in 0 .. 2
      BY <2>2, <2>5, GetIntOfInt
    <3> QED
      BY <2>1, <2>5, <3>1 DEF DocumentedSubmit, LacksText
  <2> QED
    BY <2>1, <2>4, <2>5
<1>2. CASE r \in decodeQueryRequest(p)
  <2>1. /\ hasType(p, "query_result")
        /\ p.submission_id # Absent
        /\ get_int(p.submission_id) # {}
    BY <1>2 DEF decodeQueryRequest
  <2> QED
    BY <2>1, GetIntAccepts DEF DocumentedQuery
<1> QED
  BY <1>1, <1>2 DEF handle_complete_message

LEMMA NoObjectIsRejected == handle_complete_message(NotAnObject) = {Rejected}
BY DEF handle_complete_message, decodeRequest, decodeQueryRequest
-----------------------------------------------------------------------------
(***************************************************************************)
(* The specification.                                                      *)
(***************************************************************************)
ConversionsInv ==
  /\ case_results \in Seq(SubmissionVerdict)
  /\ payload # None => request \in handle_complete_message(payload)

LEMMA ConversionsCorrect == SubmissionSpec => []ConversionsInv
<1>1. SubmissionInit => ConversionsInv
  BY DEF SubmissionInit, ConversionsInv
<1>2. ASSUME ConversionsInv, [Receive \/ Accept \/ CaseJudged]_submissionVars
      PROVE  ConversionsInv'
  <2>1. CASE Receive
    BY <1>2, <2>1 DEF Receive, ConversionsInv
  <2>2. CASE Accept
    BY <1>2, <2>2 DEF Accept, ConversionsInv
  <2>3. CASE CaseJudged
    BY <1>2, <2>3 DEF CaseJudged, ConversionsInv
  <2>4. CASE UNCHANGED submissionVars
    BY <1>2, <2>4 DEF submissionVars, ConversionsInv
  <2> QED
    BY <1>2, <2>1, <2>2, <2>3, <2>4
<1> QED
  BY <1>1, <1>2, PTL DEF SubmissionSpec

\* After every test case the verdict that summarize would return is that of
\* the most severe case so far, the first one of those equally severe, for any
\* number of cases.
THEOREM SummaryCorrect == SubmissionSpec => []SummaryIsMostSevere
<1>1. ConversionsInv => SummaryIsMostSevere
  BY SummaryIsDecisive DEF ConversionsInv, SummaryIsMostSevere
<1> QED
  BY <1>1, ConversionsCorrect, PTL

\* Every payload is read as docs/protocol.md says or refused, except that
\* numbers of other types are converted; for every width of an int.
THEOREM RequestsAreReadAsDocumented == SubmissionSpec => []ReadAsDocumented
<1>1. ASSUME ConversionsInv
      PROVE  ReadAsDocumented
  <2> SUFFICES ASSUME payload # None
               PROVE  ReadAsDocumented
    BY DEF ReadAsDocumented
  <2>1. request \in handle_complete_message(payload)
    BY <1>1 DEF ConversionsInv
  <2>2. payload = NotAnObject => request = Rejected
    BY <2>1, NoObjectIsRejected
  <2>3. ASSUME payload # NotAnObject, DocumentedSubmit(payload)
        PROVE  /\ request.kind = "submit"
               /\ request.uuid = payload.uuid.v
               /\ request.language =
                    <<"CPP", "C", "PYTHON">>[payload.lang.v + 1]
    <3> DEFINE l == <<"CPP", "C", "PYTHON">>[payload.lang.v + 1]
    <3>1. request = [kind |-> "submit", uuid |-> payload.uuid.v,
                     language |-> l]
      BY <2>1, <2>3, DocumentedSubmitIsRead
    <3> HIDE DEF l
    <3>2. /\ request.kind = "submit"
          /\ request.uuid = payload.uuid.v
          /\ request.language = l
      BY <3>1
    <3> QED
      BY <3>2 DEF l
  <2>4. ASSUME payload # NotAnObject, DocumentedQuery(payload)
        PROVE  request = [kind |-> "query",
                          submission_id |-> payload.submission_id.v]
    BY <2>1, <2>4, DocumentedQueryIsRead
  <2>5. ASSUME payload # NotAnObject, request # Rejected
        PROVE  \/ DocumentedSubmit(payload) \/ DocumentedQuery(payload)
               \/ /\ hasType(payload, "submit") /\ ~ LacksText(payload)
                  /\ Converted(payload.lang) \/ Converted(payload.uuid)
               \/ /\ hasType(payload, "query_result")
                  /\ Converted(payload.submission_id)
    BY <2>1, <2>5, OnlyNumbersAreConverted
  <2> QED
    BY <2>2, <2>3, <2>4, <2>5 DEF ReadAsDocumented
<1> QED
  BY <1>1, ConversionsCorrect, PTL
=============================================================================
