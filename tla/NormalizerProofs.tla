-------------------------- MODULE NormalizerProofs --------------------------
(***************************************************************************)
(* Proofs about normalize(), for any project that registers coercers of    *)
(* its own, in any order and over the built-in ones: values keep the type  *)
(* they are stored under, and few of them end the ingest.                  *)
(***************************************************************************)
EXTENDS Normalizer, TLAPS

\* The values on which a built-in conversion of one of type from raises anything
\* but UnsafeCoercion.
Crashes(from, v) ==
  \/ from = "integer" /\ v \in {"far int", "vast int"}
  \/ from = "timestamp" /\ v = "edge naive"
  \/ from \in {"integer", "timestamp"} /\ v = "null"

\* What is registered for a pair was so from the start, or by the project.
RegistryKnown ==
  /\ registry = [pair \in DataType \X DataType |-> registry[pair]]
  /\ \A from, to \in DataType :
       \/ registry[<<from, to>>] = "none"
       \/ registry[<<from, to>>] = "core" /\ <<from, to>> \in CorePairs
       \/ <<from, to, registry[<<from, to>>]>> \in Registrations

NormalizerInv ==
  /\ RegistryKnown
  /\ type \in DataType /\ value \in Form
  /\ StaysWellTyped
  /\ CrashesOnly

-----------------------------------------------------------------------------
(* The table of the built-in conversions.                                   *)

\* Each conversion, on a value of its type, gives one of the type it converts
\* to, or raises: UnsafeCoercion, but for the values of Crashes.
GoodResult(from, to, v, x) ==
  \/ x = "unsafe"
  \/ x = "raises" /\ Crashes(from, v)
  \/ x \in Form /\ Fits(to, x)

LEMMA TextTable ==
  ASSUME NEW v \in Form, Fits("text", v)
  PROVE  /\ GoodResult("text", "integer", v, TextToInteger(v))
         /\ GoodResult("text", "numeric", v, TextToNumeric(v))
         /\ GoodResult("text", "boolean", v, TextToBoolean(v))
         /\ GoodResult("text", "timestamp", v, TextToTimestamp(v))
         /\ GoodResult("text", "string[]", v, "list")
         /\ GoodResult("text", "jsonb", v, v)
<1>1. v \in StringForm \cup {"null"}
  BY DEF Fits, CoreForms, CoreType
<1> USE <1>1 DEF GoodResult, Fits, CoreForms, CoreType, Form, StringForm, TimeForm, IntForm, FloatForm
<1>2. GoodResult("text", "integer", v, TextToInteger(v))
  BY DEF TextToInteger
<1>3. GoodResult("text", "numeric", v, TextToNumeric(v))
  BY DEF TextToNumeric, ToFloat
<1>4. GoodResult("text", "boolean", v, TextToBoolean(v))
  BY DEF TextToBoolean
<1>5. GoodResult("text", "timestamp", v, TextToTimestamp(v))
  BY DEF TextToTimestamp
<1>6. GoodResult("text", "string[]", v, "list") /\ GoodResult("text", "jsonb", v, v)
  OBVIOUS
<1> QED BY <1>2, <1>3, <1>4, <1>5, <1>6

LEMMA IntegerTable ==
  ASSUME NEW v \in Form, Fits("integer", v)
  PROVE  /\ GoodResult("integer", "text", v, Str(v))
         /\ GoodResult("integer", "numeric", v, ToFloat(v))
         /\ GoodResult("integer", "timestamp", v, IntegerToTimestamp(v))
<1>1. v \in IntForm \cup {"null"}
  BY DEF Fits, CoreForms, CoreType
<1> USE <1>1 DEF GoodResult, Fits, CoreForms, CoreType, Form, StringForm, TimeForm, IntForm, FloatForm, Crashes
<1>2. GoodResult("integer", "text", v, Str(v))
  BY DEF Str
<1>3. GoodResult("integer", "numeric", v, ToFloat(v))
  BY DEF ToFloat
<1>4. GoodResult("integer", "timestamp", v, IntegerToTimestamp(v))
  BY DEF IntegerToTimestamp
<1> QED BY <1>2, <1>3, <1>4

LEMMA OtherTables ==
  ASSUME NEW v \in Form
  PROVE  /\ Fits("numeric", v) => GoodResult("numeric", "text", v, Str(v))
         /\ Fits("boolean", v) => GoodResult("boolean", "text", v, "yes")
         /\ Fits("timestamp", v) => GoodResult("timestamp", "integer", v, TimestampToInteger(v))
         /\ Fits("string[]", v) => GoodResult("string[]", "jsonb", v, v)
<1> USE DEF GoodResult, Fits, CoreForms, CoreType, Form, StringForm, TimeForm, IntForm, FloatForm, Crashes
<1>1. Fits("numeric", v) => GoodResult("numeric", "text", v, Str(v))
  BY DEF Str
<1>2. Fits("boolean", v) => GoodResult("boolean", "text", v, "yes")
  OBVIOUS
<1>3. Fits("timestamp", v) => GoodResult("timestamp", "integer", v, TimestampToInteger(v))
  BY DEF TimestampToInteger, Str
<1>4. Fits("string[]", v) => GoodResult("string[]", "jsonb", v, v)
  OBVIOUS
<1> QED BY <1>1, <1>2, <1>3, <1>4

LEMMA CoreTable ==
  ASSUME NEW from \in DataType, NEW to \in DataType, <<from, to>> \in CorePairs,
         NEW v \in Form, Fits(from, v)
  PROVE  GoodResult(from, to, v, CoreCoercer(<<from, to>>, v))
<1>1. CASE from = "text"
  <2>1. to \in {"integer", "numeric", "boolean", "timestamp", "string[]", "jsonb"}
    BY <1>1 DEF CorePairs
  <2> QED BY <1>1, <2>1, TextTable DEF CoreCoercer
<1>2. CASE from = "integer"
  <2>1. to \in {"text", "numeric", "timestamp"}
    BY <1>2 DEF CorePairs
  <2> QED BY <1>2, <2>1, IntegerTable DEF CoreCoercer
<1>3. CASE from \in {"numeric", "boolean", "timestamp", "string[]"}
  <2>1. \/ from = "numeric" /\ to = "text"
        \/ from = "boolean" /\ to = "text"
        \/ from = "timestamp" /\ to = "integer"
        \/ from = "string[]" /\ to = "jsonb"
    BY <1>3 DEF CorePairs
  <2> QED BY <2>1, OtherTables DEF CoreCoercer
<1> QED BY <1>1, <1>2, <1>3 DEF CorePairs

-----------------------------------------------------------------------------
(* The registry and the value at hand.                                      *)

\* Whatever is registered for a pair, normalize() on a value of its type gives
\* a value of the other one, or raises.
LEMMA CoercedFits ==
  ASSUME NormalizerAssumption, RegistryKnown,
         NEW from \in DataType, NEW to \in DataType, NEW v \in Form, Fits(from, v)
  PROVE  GoodResult(from, to, v, Coerced(<<from, to>>, v))
<1> DEFINE pair == <<from, to>>
<1>1. CASE registry[pair] = "none"
  BY <1>1 DEF Coerced, GoodResult
<1>2. CASE registry[pair] = "core"
  <2>1. "core" \notin ProjectCoercer
    BY DEF NormalizerAssumption
  <2>2. pair \in CorePairs
    BY <1>2, <2>1 DEF RegistryKnown, NormalizerAssumption
  <2>3. Coerced(pair, v) = CoreCoercer(pair, v)
    BY <1>2 DEF Coerced
  <2> QED BY <2>2, <2>3, CoreTable
<1>3. CASE registry[pair] \notin {"none", "core"}
  <2> DEFINE r == <<from, to, registry[pair]>>
  <2>1. r \in Registrations
    BY <1>3 DEF RegistryKnown
  <2>2. Coerced(pair, v) = Convert(registry[pair], v)
    BY <1>3 DEF Coerced
  <2>3. r[1] = from /\ r[2] = to /\ r[3] = registry[pair]
    OBVIOUS
  <2>4. LET x == Convert(r[3], v) IN x = "unsafe" \/ (x \in Form /\ Fits(r[2], x))
    BY <2>1, <2>3 DEF NormalizerAssumption
  <2> QED BY <2>2, <2>3, <2>4 DEF GoodResult
<1> QED BY <1>1, <1>2, <1>3

LEMMA NormalizerInit ==
  ASSUME NormalizerAssumption, Init
  PROVE  NormalizerInv
<1>1. type \in DataType /\ value \in Form
  BY DEF Init, NormalizerAssumption, CoreType, Form
<1>2. RegistryKnown
  BY DEF Init, RegistryKnown
<1>3. StaysWellTyped /\ CrashesOnly
  BY DEF Init, StaysWellTyped, CrashesOnly, Fits
<1> QED BY <1>1, <1>2, <1>3 DEF NormalizerInv

LEMMA FormIsNoFailure == Form \cap Failure = {}
BY DEF Form, Failure, StringForm, TimeForm, IntForm, FloatForm

LEMMA NormalizeKeeps ==
  ASSUME NormalizerAssumption, NormalizerInv, NEW to \in DataType, Normalize(to)
  PROVE  NormalizerInv'
<1> DEFINE result == IF type = to THEN value ELSE Coerced(<<type, to>>, value)
<1>1. GoodResult(type, to, value, result)
  <2>1. CASE type = to
    BY <2>1 DEF GoodResult, NormalizerInv, StaysWellTyped
  <2>2. CASE type # to
    BY <2>2, CoercedFits DEF NormalizerInv, StaysWellTyped
  <2> QED BY <2>1, <2>2
<1>2. /\ outcome' = CASE result = "unsafe" -> "unsafe"
                      [] result = "raises" -> "raised"
                      [] OTHER -> "ok"
      /\ IF result \in Failure
           THEN UNCHANGED <<value, type>>
           ELSE value' = result /\ type' = to
      /\ registry' = registry
  BY DEF Normalize
<1> HIDE DEF result
<1>3. RegistryKnown'
  BY <1>2 DEF NormalizerInv, RegistryKnown
<1>4. CASE result = "unsafe"
  BY <1>2, <1>3, <1>4 DEF NormalizerInv, StaysWellTyped, CrashesOnly, Failure
<1>5. CASE result = "raises"
  <2>1. Crashes(type, value)
    BY <1>1, <1>5, FormIsNoFailure DEF GoodResult, Failure
  <2> QED BY <1>2, <1>3, <1>5, <2>1 DEF NormalizerInv, StaysWellTyped, CrashesOnly, Failure, Crashes
<1>6. CASE result \notin Failure
  <2>1. result \in Form /\ Fits(to, result)
    BY <1>1, <1>6 DEF GoodResult, Failure
  <2>2. value' = result /\ type' = to /\ outcome' = "ok"
    BY <1>2, <1>6 DEF Failure
  <2> QED BY <1>3, <2>1, <2>2 DEF NormalizerInv, StaysWellTyped, CrashesOnly
<1> QED BY <1>4, <1>5, <1>6 DEF Failure

LEMMA NormalizerNext ==
  ASSUME NormalizerAssumption, NormalizerInv, [Next]_vars
  PROVE  NormalizerInv'
<1>1. ASSUME NEW r \in Registrations, RegisterCoercer(r[1], r[2], r[3])
      PROVE  NormalizerInv'
  <2>1. r \in DataType \X DataType \X ProjectCoercer
    BY DEF NormalizerAssumption
  <2>2. PICK a \in DataType, b \in DataType, c \in ProjectCoercer : r = <<a, b, c>>
    BY <2>1
  <2>3. registry' = [registry EXCEPT ![<<a, b>>] = c] /\ UNCHANGED <<value, type, outcome>>
    BY <1>1, <2>2 DEF RegisterCoercer
  <2>4. ASSUME NEW from \in DataType, NEW to \in DataType
        PROVE  \/ registry'[<<from, to>>] = "none"
               \/ registry'[<<from, to>>] = "core" /\ <<from, to>> \in CorePairs
               \/ <<from, to, registry'[<<from, to>>]>> \in Registrations
    <3>1. CASE from = a /\ to = b
      <4>1. registry'[<<from, to>>] = c
        BY <2>3, <3>1 DEF NormalizerInv, RegistryKnown
      <4> QED BY <2>2, <3>1, <4>1
    <3>2. CASE ~(from = a /\ to = b)
      <4>1. <<from, to>> # <<a, b>>
        BY <3>2
      <4>2. registry'[<<from, to>>] = registry[<<from, to>>]
        BY <2>3, <4>1 DEF NormalizerInv, RegistryKnown
      <4> QED BY <4>2 DEF NormalizerInv, RegistryKnown
    <3> QED BY <3>1, <3>2
  <2>5. registry' = [pair \in DataType \X DataType |-> registry'[pair]]
    BY <2>3 DEF NormalizerInv, RegistryKnown
  <2> QED BY <2>3, <2>4, <2>5 DEF NormalizerInv, RegistryKnown, StaysWellTyped, CrashesOnly
<1>2. ASSUME NEW v \in Form, NEW ty \in DataType, Receive(v, ty) PROVE NormalizerInv'
  BY <1>2 DEF Receive, NormalizerInv, RegistryKnown, StaysWellTyped, CrashesOnly
<1>3. ASSUME NEW to \in DataType, Normalize(to) PROVE NormalizerInv'
  BY <1>3, NormalizeKeeps
<1>4. CASE UNCHANGED vars
  BY <1>4 DEF vars, NormalizerInv, RegistryKnown, StaysWellTyped, CrashesOnly
<1> QED BY <1>1, <1>2, <1>3, <1>4 DEF Next

\* The registry holds what register_coercer and the built-ins put there, and
\* what it returns is a value of the target type.
THEOREM NormalizerCorrect == Spec => []NormalizerInv
<1>1. Init => NormalizerInv
  BY NormalizerInit, NormalizerAssumption
<1>2. NormalizerInv /\ [Next]_vars => NormalizerInv'
  BY NormalizerNext, NormalizerAssumption
<1> QED BY <1>1, <1>2, PTL DEF Spec

\* A value is one of the type it is stored under, through any chain of conversions.
THEOREM ValuesStayWellTyped == Spec => []StaysWellTyped
<1>1. NormalizerInv => StaysWellTyped
  BY DEF NormalizerInv
<1> QED BY <1>1, NormalizerCorrect, PTL

\* Only integers too large for a date or a float, times without an offset at the
\* edge of the calendar, and nulls among integers and times, make normalize()
\* fail other than by UnsafeCoercion.
THEOREM FewValuesCrash == Spec => []CrashesOnly
<1>1. NormalizerInv => CrashesOnly
  BY DEF NormalizerInv
<1> QED BY <1>1, NormalizerCorrect, PTL
=============================================================================
