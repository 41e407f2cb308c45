----------------------------- MODULE GlobPattern -----------------------------
(***************************************************************************)
(* internal/eval/glob.go: an AWS StringLike pattern as a sequence of       *)
(* characters, how Glob normalises and splits it, and the reference        *)
(* definition of what it matches.                                          *)
(***************************************************************************)
EXTENDS Naturals, Sequences

LOCAL INSTANCE SequencesExt

CONSTANTS
    Char,        \* the literal characters
    Star, Quest, \* the metacharacters "*" and "?"
    MaxPattern,  \* bound: longest pattern
    MaxValue     \* bound: longest value

ASSUME GlobAssumption ==
    /\ Star \notin Char /\ Quest \notin Char /\ Star # Quest
    /\ MaxPattern \in Nat /\ MaxValue \in Nat

Strings(S, n) == UNION { [1..m -> S] : m \in 0..n }
Patterns == Strings(Char \cup {Star, Quest}, MaxPattern)
Values   == Strings(Char, MaxValue)

-----------------------------------------------------------------------------
(* What a pattern means: "*" is any run of characters, "?" exactly one,    *)
(* anything else itself, and the whole value is matched.                   *)
Matches(p, v) ==
    LET m[a \in 0..Len(p), b \in 0..Len(v)] ==
            IF a = 0 THEN b = 0
            ELSE IF p[a] = Star THEN m[a-1, b] \/ (b > 0 /\ m[a, b-1])
            ELSE b > 0 /\ (p[a] = Quest \/ p[a] = v[b]) /\ m[a-1, b-1]
    IN  m[Len(p), Len(v)]

-----------------------------------------------------------------------------
(* Glob: what a pattern is normalised to.  "glob" alone reaches the        *)
(* matcher.                                                                *)
Kind(p) ==
    IF \A n \in DOMAIN p : p[n] \notin {Star, Quest} THEN "exact"
    ELSE IF \A n \in DOMAIN p : p[n] = Star THEN "any"
    ELSE "glob"

(* strings.Split(pattern, "*"): the pieces between the stars. *)
Segments(p) ==
    LET cuts == SetToSortSeq({0, Len(p) + 1} \cup { n \in DOMAIN p : p[n] = Star },
                             LAMBDA a, b : a < b)
    IN  [n \in 1..(Len(cuts) - 1) |-> SubSeq(p, cuts[n] + 1, cuts[n+1] - 1)]

MatchAt(seg, v, at) ==
    /\ at + Len(seg) <= Len(v)
    /\ \A n \in DOMAIN seg : seg[n] = Quest \/ seg[n] = v[at + n]
=============================================================================
