----------------------------- MODULE Coercions -----------------------------
(***************************************************************************)
(* The built-in conversions of coercions.py.  A value is known by its      *)
(* form: what int(), float(), str() and datetime.fromisoformat() make of   *)
(* it is all the conversions look at.  A conversion gives the form of its  *)
(* result, or "unsafe" (it raises UnsafeCoercion), or "raises" (any other  *)
(* exception leaves it).                                                   *)
(***************************************************************************)
CoreType == {"text", "integer", "numeric", "boolean", "timestamp", "jsonb", "string[]"}

\* Strings: "abc"; the digits of 1, of a time outside of the years 1 to 9999, and of
\* a number above every float; "1.5"; "nan"; a time; "yes".  Of the times:
\*   "iso", "naive"   with and without an offset;
\*   "edge iso"       its offset puts it outside of those years in UTC;
\*   "late naive"     the local time zone does so;
\*   "edge naive"     without an offset, on the first day of the calendar (or the
\*                    last, east of Greenwich), where timestamp() raises.
TimeForm == {"iso", "naive", "edge iso", "late naive", "edge naive"}

StringForm ==
  {"word", "digits", "far digits", "vast digits", "decimal", "nan text", "yes"} \cup TimeForm

\* Integers, likewise.
IntForm == {"int", "far int", "vast int"}

FloatForm == {"float", "nonfinite"}

\* "true" is a bool, which is an int to Python; "list" and "null" are JSON's.
Form == StringForm \cup IntForm \cup FloatForm \cup {"true", "list", "null"}

Failure == {"unsafe", "raises"}

\* The values of the core's types.
CoreForms(ty) ==
  CASE ty = "text" -> StringForm
    [] ty = "integer" -> IntForm
    [] ty = "numeric" -> IntForm \cup {"float"}
    [] ty = "boolean" -> {"true"}
    [] ty = "timestamp" -> TimeForm
    [] ty = "string[]" -> {"list"}
    [] ty = "jsonb" -> Form \ {"nonfinite"}

\* str(v)
Str(v) ==
  CASE v \in StringForm -> v
    [] v = "int" -> "digits"
    [] v = "far int" -> "far digits"
    [] v = "vast int" -> "vast digits"
    [] v = "float" -> "decimal"
    [] v = "nonfinite" -> "nan text"
    [] v = "true" -> "yes"
    [] OTHER -> "word"

\* float(v), which overflows on an integer but not on a string
ToFloat(v) ==
  CASE v \in {"digits", "far digits", "decimal", "int", "far int", "float", "true"} -> "float"
    [] v \in {"nan text", "vast digits", "nonfinite"} -> "nonfinite"
    [] OTHER -> "raises"

TextToInteger(v) ==
  CASE v = "digits" -> "int"
    [] v = "far digits" -> "far int"
    [] v = "vast digits" -> "vast int"
    [] OTHER -> "unsafe"

\* Mutant: nan and infinity are let through.
TextToAnyNumeric(v) ==
  CASE v \in {"null", "list"} -> "unsafe"
    [] v \in StringForm /\ ToFloat(v) = "raises" -> "unsafe"
    [] OTHER -> ToFloat(v)

\* ValueError is caught; the OverflowError of an integer is not.
TextToNumeric(v) ==
  CASE v \in {"null", "list"} -> "unsafe"
    [] v \in StringForm /\ ToFloat(v) = "raises" -> "unsafe"
    [] ToFloat(v) = "nonfinite" -> "unsafe"
    [] OTHER -> ToFloat(v)

\* int(v) / 1000.0 as a time
IntegerToTimestamp(v) ==
  IF v \in {"digits", "int", "float", "true"} THEN "iso" ELSE "raises"

\* timestamp() reads a time without an offset as local time.
TimestampToInteger(v) ==
  CASE Str(v) \in {"iso", "naive"} -> "int"
    [] Str(v) \in {"edge iso", "late naive"} -> "far int"
    [] OTHER -> "raises"

\* Mutant: the ValueError of fromisoformat() is not caught.
TextToTimestampUncaught(v) == IF Str(v) \in TimeForm THEN "iso" ELSE "raises"

\* An offset is kept; a time without one is taken for UTC.
TextToTimestamp(v) ==
  CASE Str(v) = "edge iso" -> "edge iso"
    [] Str(v) \in TimeForm \ {"edge iso"} -> "iso"
    [] OTHER -> "unsafe"

TextToBoolean(v) == IF v \in {"true", "yes", "digits"} THEN "true" ELSE "unsafe"

\* The pairs of types the registry starts with.
CorePairs ==
  {<<"integer", "text">>, <<"numeric", "text">>, <<"boolean", "text">>,
   <<"text", "integer">>, <<"text", "numeric">>, <<"text", "boolean">>,
   <<"integer", "numeric">>, <<"integer", "timestamp">>, <<"timestamp", "integer">>,
   <<"text", "timestamp">>, <<"text", "string[]">>, <<"string[]", "jsonb">>,
   <<"text", "jsonb">>}

CoreCoercer(pair, v) ==
  CASE pair \in {<<"integer", "text">>, <<"numeric", "text">>} -> Str(v)
    [] pair = <<"boolean", "text">> -> "yes"
    [] pair = <<"text", "integer">> -> TextToInteger(v)
    [] pair = <<"text", "numeric">> -> TextToNumeric(v)
    [] pair = <<"text", "boolean">> -> TextToBoolean(v)
    [] pair = <<"integer", "numeric">> -> ToFloat(v)
    [] pair = <<"integer", "timestamp">> -> IntegerToTimestamp(v)
    [] pair = <<"timestamp", "integer">> -> TimestampToInteger(v)
    [] pair = <<"text", "timestamp">> -> TextToTimestamp(v)
    [] pair = <<"text", "string[]">> -> "list"
    [] pair \in {<<"string[]", "jsonb">>, <<"text", "jsonb">>} -> v
=============================================================================
