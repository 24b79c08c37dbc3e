---------------------------- MODULE MCNormalizer ----------------------------
(***************************************************************************)
(* A project with a type of its own, for which it registers two coercers,  *)
(* and a coercer that makes integer->timestamp safe.                       *)
(***************************************************************************)
EXTENDS Normalizer

MCDataType == CoreType \cup {"geo"}

MCProjectFits(ty, v) == ty = "geo" /\ v = "word"

MCConvert(c, v) ==
  CASE c = "parse geo" -> IF v = "word" THEN "word" ELSE "unsafe"
    [] c = "show geo" -> v
    [] c = "careful" -> IF v = "int" THEN "iso" ELSE "unsafe"

MCRegistrations ==
  {<<"text", "geo", "parse geo">>, <<"geo", "text", "show geo">>,
   <<"integer", "timestamp", "careful">>}
=============================================================================
