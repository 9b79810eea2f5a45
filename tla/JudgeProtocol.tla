----------------------------- MODULE JudgeProtocol -----------------------------
(***************************************************************************)
(* The JSON codec between clients and server                               *)
(* (src/src/protocol/JudgeProtocol.cpp) and the dispatch on it             *)
(* (ClientSockets::handle_complete_message).  A payload is NotAnObject, or *)
(* the fields that the decoder looks at.  Texts are left out.              *)
(***************************************************************************)
EXTENDS SubmissionTypes, JsonValue

hasType(payload, expected) ==
  Is(payload.type, "string") /\ payload.type.text = expected

\* toSubmissionLanguage, where ok is set.
toSubmissionLanguage == [legacy \in 0 .. 2 |-> <<"CPP", "C", "PYTHON">>[legacy + 1]]
-----------------------------------------------------------------------------
(***************************************************************************)
(* Decoding.  The outcomes are sets because of the undefined conversion.   *)
(***************************************************************************)
Rejected == [kind |-> "bad request"]

\* The types of pid and code are looked at after lang and uuid; all of that is
\* in one try block.
LacksText(payload) ==
  \/ Absent \in {payload.uuid, payload.pid, payload.lang, payload.code}
  \/ ~ Is(payload.pid, "string") \/ ~ Is(payload.code, "string")

\* An unknown language is read as the default of the switch.
decodeRequest_AnyLanguage(payload) ==
  IF payload = NotAnObject \/ ~ hasType(payload, "submit") \/ LacksText(payload)
    THEN {Rejected}
    ELSE {[kind |-> "submit", uuid |-> uuid,
           language |-> IF lang \in 0 .. 2 THEN toSubmissionLanguage[lang]
                                           ELSE "CPP"] :
            uuid \in get_int(payload.uuid), lang \in get_int(payload.lang)}

decodeRequest(payload) ==
  IF payload = NotAnObject \/ ~ hasType(payload, "submit") \/ LacksText(payload)
    THEN {Rejected}
    ELSE LET uuids == get_int(payload.uuid)
             langs == get_int(payload.lang)
         IN  {[kind |-> "submit", uuid |-> uuid,
               language |-> toSubmissionLanguage[lang]] :
                uuid \in uuids, lang \in langs \cap 0 .. 2}
             \cup IF uuids = {} \/ langs = {} \/ langs \ (0 .. 2) # {}
                    THEN {Rejected} ELSE {}

decodeQueryRequest(payload) ==
  IF payload = NotAnObject \/ ~ hasType(payload, "query_result")
      \/ payload.submission_id = Absent \/ get_int(payload.submission_id) = {}
    THEN {Rejected}
    ELSE {[kind |-> "query", submission_id |-> id] :
            id \in get_int(payload.submission_id)}

\* A submit, else a query, else an error.
handle_complete_message(payload) ==
  (decodeRequest(payload) \ {Rejected})
    \cup IF Rejected \in decodeRequest(payload) THEN decodeQueryRequest(payload)
                                               ELSE {}
=============================================================================
