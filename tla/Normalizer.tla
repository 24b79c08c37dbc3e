----------------------------- MODULE Normalizer -----------------------------
(***************************************************************************)
(* normalize() over the process-wide registry: values of sources arrive    *)
(* and are converted from type to type, while a project registers coercers *)
(* of its own, which add to the registry or override it.                   *)
(***************************************************************************)
EXTENDS Coercions

CONSTANTS
  DataType,         \* the core's types and a project's
  ProjectCoercer,   \* coercers a project brings
  Convert(_, _),    \* what one of them makes of a form: a form, or "unsafe"
  Registrations,    \* the pairs of types it registers them for
  ProjectFits(_, _) \* the forms a source sends as a value of one of its types

\* A source sends form v as a value of a type; any column may be null.
Fits(ty, v) ==
  v = "null" \/ IF ty \in CoreType THEN v \in CoreForms(ty) ELSE ProjectFits(ty, v)

\* A project's coercer keeps to the module's contract: it gives a value of the
\* type it is registered for, or raises UnsafeCoercion.
ASSUME NormalizerAssumption ==
  /\ CoreType \subseteq DataType
  /\ ProjectCoercer \cap {"core", "none"} = {}
  /\ Registrations \subseteq DataType \X DataType \X ProjectCoercer
  /\ \A r \in Registrations, v \in Form :
       Fits(r[1], v) =>
         LET x == Convert(r[3], v) IN x = "unsafe" \/ (x \in Form /\ Fits(r[2], x))

VARIABLES
  registry,    \* _REGISTRY: the coercer of each pair of types, or "none"
  value, type, \* the value at hand, and its data type
  outcome      \* what the last normalize() did: "ok", "unsafe", "raised"

vars == <<registry, value, type, outcome>>

Init ==
  /\ registry = [pair \in DataType \X DataType |->
                   IF pair \in CorePairs THEN "core" ELSE "none"]
  /\ value = "null" /\ type = "jsonb"
  /\ outcome = "ok"

\* register_coercer
RegisterCoercer(from, to, coercer) ==
  /\ registry' = [registry EXCEPT ![<<from, to>>] = coercer]
  /\ UNCHANGED <<value, type, outcome>>

\* A source sends a value that is what it says it is.
Receive(v, ty) ==
  /\ Fits(ty, v)
  /\ value' = v /\ type' = ty /\ outcome' = "ok"
  /\ UNCHANGED registry

Coerced(pair, v) ==
  CASE registry[pair] = "none" -> "unsafe"
    [] registry[pair] = "core" -> CoreCoercer(pair, v)
    [] OTHER -> Convert(registry[pair], v)

Normalize(to) ==
  LET result == IF type = to THEN value ELSE Coerced(<<type, to>>, value)
  IN  /\ outcome' = CASE result = "unsafe" -> "unsafe"
                      [] result = "raises" -> "raised"
                      [] OTHER -> "ok"
      /\ IF result \in Failure
           THEN UNCHANGED <<value, type>>
           ELSE value' = result /\ type' = to
      /\ UNCHANGED registry

Next ==
  \/ \E r \in Registrations : RegisterCoercer(r[1], r[2], r[3])
  \/ \E v \in Form, ty \in DataType : Receive(v, ty)
  \/ \E to \in DataType : Normalize(to)

Spec == Init /\ [][Next]_vars

-----------------------------------------------------------------------------

\* Through any chain of conversions, with any of them overridden on the way, a
\* value is one of the type it is stored under; a number never becomes a nan.
StaysWellTyped == Fits(type, value)

\* A value that is what its type says makes normalize() fail other than by
\* UnsafeCoercion in three cases only: an integer too large for a date or for a
\* float, a time without an offset at the edge of the calendar, and a null in a
\* column of integers or times.  Every other failure goes to review and does not
\* end the ingest.
CrashesOnly ==
  outcome = "raised" =>
    \/ type = "integer" /\ value \in {"far int", "vast int"}
    \/ type = "timestamp" /\ value = "edge naive"
    \/ type \in {"integer", "timestamp"} /\ value = "null"

\* What the module asks of a coercer: UnsafeCoercion, not a bare exception.
OnlyUnsafeRaised == outcome # "raised"
=============================================================================
