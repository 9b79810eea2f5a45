------------------------------ MODULE JsonValue ------------------------------
(***************************************************************************)
(* What the program uses of nlohmann::json (src/src/json.hpp): a field is  *)
(* Absent or a value with its JSON type, and get<T> converts it.  Each     *)
(* conversion is the set of values it may return: none when it throws,     *)
(* several where C++ leaves the result undefined.                          *)
(***************************************************************************)
EXTENDS Integers

CONSTANTS
  IntWidth,     \* bits of an int
  NotAnObject,  \* something that is no JSON, or no JSON object
  Absent        \* a field that is not there

\* The last three conjuncts hold for every width; the provers need them
\* stated, because they know no exponentiation.
ASSUME JsonAssumption ==
  /\ IntWidth \in Nat \ {0}
  /\ 2 ^ (IntWidth - 1) \in Nat \ {0}
  /\ 2 ^ IntWidth = 2 * 2 ^ (IntWidth - 1)
  /\ 2 ^ (2 * IntWidth) \in Nat \ {0}

Ints == -(2 ^ (IntWidth - 1)) .. 2 ^ (IntWidth - 1) - 1

\* A JSON value: its type, and the number (twice that of a float, 0 or 1 for a
\* boolean) or the text that it stands for.
Number(json, v) == [json |-> json, v |-> v, text |-> ""]
Text(text)      == [json |-> "string", v |-> 0, text |-> text]
Other           == [json |-> "other", v |-> 0, text |-> ""]

\* What a field of an object can be.
JsonFields ==
  [json : {"integer", "float", "string", "other"}, v : Int, text : STRING]
    \cup [json : {"boolean"}, v : {0, 1}, text : STRING]

ASSUME AbsentAssumption == Absent \notin JsonFields

Is(field, json) == field # Absent /\ field.json = json

\* static_cast<int> of a wider integer.
Wrap(v) == ((v + 2 ^ (IntWidth - 1)) % 2 ^ IntWidth) - 2 ^ (IntWidth - 1)

\* Towards zero; undefined for a number that is not in the type.
Truncate(double, type) ==
  LET n == IF double >= 0 THEN double \div 2 ELSE -((-double) \div 2)
  IN  IF n \in type THEN {n} ELSE type

get_int(field) ==
  CASE field.json = "integer" -> {Wrap(field.v)}
    [] field.json = "float"   -> Truncate(field.v, Ints)
    [] field.json = "boolean" -> {field.v}
    [] OTHER                  -> {}

get_uint32(field) ==
  CASE field.json = "integer" -> {field.v % 2 ^ IntWidth}
    [] field.json = "float"   -> Truncate(field.v, 0 .. 2 ^ IntWidth - 1)
    [] field.json = "boolean" -> {field.v}
    [] OTHER                  -> {}

\* The library's own number type: it takes no boolean.
get_uint64(field) ==
  CASE field.json = "integer" -> {field.v % 2 ^ (2 * IntWidth)}
    [] field.json = "float"   -> Truncate(field.v, 0 .. 2 ^ (2 * IntWidth) - 1)
    [] OTHER                  -> {}

get_bool(field)   == IF field.json = "boolean" THEN {field.v = 1} ELSE {}
get_string(field) == IF field.json = "string" THEN {field.text} ELSE {}
=============================================================================
