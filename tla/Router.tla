------------------------------- MODULE Router -------------------------------
(***************************************************************************)
(* What HaikuRouter (router.py) makes of the model's reply: the first      *)
(* block that calls the routing tool is taken, its input is validated      *)
(* field by field, and anything else raises RuntimeError.                  *)
(*                                                                         *)
(* A JSON value is a pair of its kind and the value; scores are counted    *)
(* in hundredths.  Python's json also reads NaN, which is a float and      *)
(* compares FALSE with every number.  The reason is checked, then left     *)
(* out.                                                                    *)
(***************************************************************************)
EXTENDS Integers, Sequences

CONSTANTS
  String,   \* the strings of a reply
  None      \* Python's None; also "it raised", and an input that is no object

Verdict == {"join", "append", "unclear"}
Tool == "zippering_routing_verdict"
Whole == 100

Null == <<"null">>
Text(t) == <<"text", t>>
Number(n) == <<"number", n>>
Boolean(b) == <<"boolean", b>>
NaN == <<"nan">>

Json ==
  {Null, NaN} \cup ({"text"} \X String) \cup ({"number"} \X Int) \cup ({"boolean"} \X BOOLEAN)

\* What a verdict may say about similarity: no number from 0 to 1 is NaN.
Similarity == {"number"} \X (0..Whole)

RoutingVerdict ==
  [verdict : Verdict, canonical_name : String \ {""}, is_global_target : BOOLEAN,
   similarity_score : Similarity \cup {NaN}]

\* A key that is missing reads as null.
ToolInput ==
  [verdict : Json, canonical_name : Json, is_global_target : Json,
   similarity_score : Json, reason : Json]

\* Blocks of text, and of tool calls with whatever input.
IsContent(content) ==
  \A i \in DOMAIN content : content[i].input \in ToolInput \cup {None}

IsText(json) == json[1] = "text" /\ json[2] # ""

\* Mutant: the range check is dropped.
IsAnyScore(json) == json[1] \in {"boolean", "number", "nan"}

\* A bool passes for a number: isinstance(True, int).  The check refuses what is
\* below 0 or above 1, and NaN is neither.
IsScore(json) ==
  \/ json[1] \in {"boolean", "nan"}
  \/ json[1] = "number" /\ ~(json[2] < 0 \/ json[2] > Whole)

\* float(similarity_score)
Score(json) ==
  CASE json = Boolean(TRUE) -> Number(Whole)
    [] json = Boolean(FALSE) -> Number(0)
    [] OTHER -> json

IsRoutingInput(raw) ==
  /\ raw # None
  /\ \E v \in Verdict : raw.verdict = Text(v)
  /\ IsText(raw.canonical_name)
  /\ raw.is_global_target[1] = "boolean"
  /\ IsScore(raw.similarity_score)
  /\ IsText(raw.reason)

\* _parse_verdict
ParseVerdict(raw) ==
  IF IsRoutingInput(raw)
  THEN [verdict |-> raw.verdict[2], canonical_name |-> raw.canonical_name[2],
        is_global_target |-> raw.is_global_target[2],
        similarity_score |-> Score(raw.similarity_score)]
  ELSE None

IsUse(block) == block.type = "tool_use" /\ block.name = Tool

\* next(...): the first such block counts.
IsFirstUse(content, i) == IsUse(content[i]) /\ \A j \in 1..(i - 1) : ~IsUse(content[j])

\* HaikuRouter._call, from the response on.
Verdicts(content) ==
  IF \E i \in DOMAIN content : IsFirstUse(content, i)
  THEN ParseVerdict(content[CHOOSE i \in DOMAIN content : IsFirstUse(content, i)].input)
  ELSE None
=============================================================================
