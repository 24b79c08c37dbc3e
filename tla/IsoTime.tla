------------------------------ MODULE IsoTime ------------------------------
(***************************************************************************)
(* occurred_at is stored as the text the source sent, and ordered as text. *)
(* IngestRow accepts every ISO 8601 form (types.py), of which five stand   *)
(* here: an hour, followed by one of the suffixes below.  A text is a      *)
(* number, so that <= orders the numbers the way the texts are ordered;    *)
(* Instant is the moment a text denotes, in half hours.                    *)
(***************************************************************************)
EXTENDS Naturals, Sequences

\* What may follow the hour, in the order of the character codes.
ZoneSuffixes == <<"", "+05:30", "-08:00", ".500Z", "Z">>

Stamp(hour, k) == hour * Len(ZoneSuffixes) + k - 1

Hour(t) == t \div Len(ZoneSuffixes)
SuffixOf(t) == ZoneSuffixes[(t % Len(ZoneSuffixes)) + 1]

\* A text without offset is read as UTC, as coercions.py reads it; half an hour
\* stands for the fraction of a second.  Hours count from 6.
Instant(t) ==
  CASE SuffixOf(t) \in {"", "Z"} -> 2 * Hour(t)
    [] SuffixOf(t) = ".500Z" -> 2 * Hour(t) + 1
    [] SuffixOf(t) = "+05:30" -> 2 * Hour(t) - 11
    [] SuffixOf(t) = "-08:00" -> 2 * Hour(t) + 16
=============================================================================
