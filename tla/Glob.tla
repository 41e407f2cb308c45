-------------------------------- MODULE Glob --------------------------------
(***************************************************************************)
(* internal/eval/glob.go: the matcher of a StringLike pattern.             *)
(*                                                                         *)
(* The loop of matchSegments, one step per iteration, over every pattern   *)
(* and every value up to the bounds of module GlobPattern.                 *)
(***************************************************************************)
EXTENDS GlobPattern

VARIABLES
    pattern, value,  \* the question asked
    k,               \* the middle segment being placed
    i,               \* the end of the segment placed before it
    j,               \* the position being tried for segment k
    verdict          \* "running", "yes" or "no"

vars == <<pattern, value, k, i, j, verdict>>

segments == Segments(pattern)
first == Head(segments)
last  == segments[Len(segments)]
seg   == segments[k]

(* end < 0 in the code when the last segment is longer than the value. *)
TailFits == Len(last) <= Len(value)
end == Len(value) - Len(last)

Answer(b) == verdict' = IF b THEN "yes" ELSE "no"

Init ==
    /\ pattern \in Patterns /\ value \in Values
    /\ k = 0 /\ i = 0 /\ j = 0
    /\ verdict = "running"

Ask == verdict = "running" /\ k = 0

(* exact.Contains and full.Contains. *)
ContainsExact ==
    /\ Ask /\ Kind(pattern) = "exact"
    /\ Answer(value = pattern)
    /\ UNCHANGED <<pattern, value, k, i, j>>

ContainsAny ==
    /\ Ask /\ Kind(pattern) = "any"
    /\ Answer(TRUE)
    /\ UNCHANGED <<pattern, value, k, i, j>>

(* A pattern with no star is one segment of the value's own length. *)
MatchWhole ==
    /\ Ask /\ Kind(pattern) = "glob" /\ Len(segments) = 1
    /\ Answer(Len(value) = Len(first) /\ MatchAt(first, value, 0))
    /\ UNCHANGED <<pattern, value, k, i, j>>

MutantHeadAndTailFit ==   \* head and tail may share characters
    /\ MatchAt(first, value, 0)
    /\ TailFits /\ MatchAt(last, value, end)

HeadAndTailFit ==
    /\ MatchAt(first, value, 0)
    /\ TailFits /\ Len(first) <= end
    /\ MatchAt(last, value, end)

(* The first segment is pinned to the start, the last to the end. *)
PinEnds ==
    /\ Ask /\ Kind(pattern) = "glob" /\ Len(segments) > 1
    /\ \/ /\ ~HeadAndTailFit
          /\ Answer(FALSE)
          /\ UNCHANGED <<k, i, j>>
       \/ /\ HeadAndTailFit
          /\ k' = 2 /\ i' = Len(first) /\ j' = Len(first)
          /\ UNCHANGED verdict
    /\ UNCHANGED <<pattern, value>>

Placing == verdict = "running" /\ k > 1 /\ k < Len(segments)

Fits == j + Len(seg) <= end

Advance ==
    /\ Placing /\ Fits /\ ~MatchAt(seg, value, j)
    /\ j' = j + 1
    /\ UNCHANGED <<pattern, value, k, i, verdict>>

Place ==
    /\ Placing /\ Fits /\ MatchAt(seg, value, j)
    /\ i' = j + Len(seg)
    /\ j' = j + Len(seg)
    /\ k' = k + 1
    /\ UNCHANGED <<pattern, value, verdict>>

GiveUp ==
    /\ Placing /\ ~Fits
    /\ Answer(FALSE)
    /\ UNCHANGED <<pattern, value, k, i, j>>

AllPlaced ==
    /\ verdict = "running" /\ k > 1 /\ k = Len(segments)
    /\ Answer(TRUE)
    /\ UNCHANGED <<pattern, value, k, i, j>>

Next ==
    \/ ContainsExact \/ ContainsAny \/ MatchWhole \/ PinEnds
    \/ Advance \/ Place \/ GiveUp \/ AllPlaced

Spec == Init /\ [][Next]_vars
=============================================================================
