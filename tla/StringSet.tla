------------------------------ MODULE StringSet ------------------------------
(***************************************************************************)
(* internal/eval/stringset.go: the set of values one claim may hold.       *)
(*                                                                         *)
(* The code has seven node kinds.  Four of them (exact, glob, inter and    *)
(* union) are one thing here, a non-empty set of terms, because the code   *)
(* itself treats a bare node as a union of one term (terms) and a bare     *)
(* glob as an intersection of one pattern (globsOf).  Its lists are sorted *)
(* and deduplicated, so they are sets here.  A pattern is abstract: what   *)
(* it matches is the constant Language, which module Glob computes from    *)
(* the matcher of glob.go for the instances TLC checks.                    *)
(***************************************************************************)
EXTENDS Naturals, FiniteSets

CONSTANTS
    Value,     \* the strings a claim may hold
    Pattern,   \* the patterns that stay globs once Glob has normalised them
    Language,  \* Language[p]: the values pattern p matches (glob.Contains)
    Reason     \* the reasons an Unknown carries

(***************************************************************************)
(* What glob.go says of a pattern that survives its normalisation: it has  *)
(* a witness, and it rejects some value (the empty string).                *)
(***************************************************************************)
ASSUME LanguageAssumption ==
    /\ Language \in [Pattern -> SUBSET Value]
    /\ \A p \in Pattern : Language[p] # {} /\ Language[p] # Value

-----------------------------------------------------------------------------
(* Terms: an exact value, or the values matching every one of some globs.  *)

ExactTerm(v) == [kind |-> "exact", value |-> v]
GlobTerm(P)  == [kind |-> "globs", globs |-> P]

Terms == { ExactTerm(v) : v \in Value }
            \cup { GlobTerm(P) : P \in (SUBSET Pattern) \ {{}} }

TermContains(t, v) ==
    \/ t.kind = "exact" /\ t.value = v
    \/ t.kind = "globs" /\ \A p \in t.globs : v \in Language[p]

-----------------------------------------------------------------------------
(* The nodes. *)

None       == [kind |-> "none"]
Any        == [kind |-> "any"]
Unknown(R) == [kind |-> "unknown", reasons |-> R]
Union(T)   == [kind |-> "terms", terms |-> T]

Exact(v) == Union({ExactTerm(v)})
Glob(p)  == Union({GlobTerm({p})})

(* An exact term that another member contains is not written: newUnion.    *)
Redundant(t, T) ==
    t.kind = "exact" /\ \E u \in T \ {t} : TermContains(u, t.value)

StringSets ==
    {None, Any}
      \cup { Unknown(R) : R \in (SUBSET Reason) \ {{}} }
      \cup { Union(T) : T \in { S \in (SUBSET Terms) \ {{}} :
                                    \A t \in S : ~Redundant(t, S) } }

Contains(s, v) ==
    \/ s.kind \in {"any", "unknown"}
    \/ s.kind = "terms" /\ \E t \in s.terms : TermContains(t, v)

(* Emptiness and fullness are answered from the node kind alone: undecided *)
(* reads as "not proven" (union, inter).                                   *)
IsEmpty(s)   == s.kind = "none"
IsTop(s)     == s.kind \in {"any", "unknown"}
IsUnknown(s) == s.kind = "unknown"

-----------------------------------------------------------------------------
(* newUnion, for a fresh non-empty list of terms. *)
NewUnion(T) == Union({ t \in T : ~Redundant(t, T) })

MergeUnknown(a, b) == Unknown(a.reasons \cup b.reasons)

Join(a, b) ==
    CASE IsUnknown(a) /\ IsUnknown(b)  -> MergeUnknown(a, b)
      [] IsUnknown(a) /\ ~IsUnknown(b) -> a
      [] IsUnknown(b) /\ ~IsUnknown(a) -> b
      [] ~IsUnknown(a) /\ ~IsUnknown(b) ->
           IF IsTop(a) \/ IsTop(b) THEN Any
           ELSE IF IsEmpty(a) THEN b
           ELSE IF IsEmpty(b) THEN a
           ELSE NewUnion(a.terms \cup b.terms)

(* meetTerms: at most one term.  Two globs are not decided, they become    *)
(* the list of all their patterns (newInter).                              *)
MeetTerms(s, t) ==
    IF s.kind = "exact" THEN { e \in {s} : TermContains(t, e.value) }
    ELSE IF t.kind = "exact" THEN { e \in {t} : TermContains(s, e.value) }
    ELSE { GlobTerm(s.globs \cup t.globs) }

(* The loop of meet joins the pairwise meets one at a time.  Only an exact *)
(* term is ever dropped and only for a term that stays, so the fold drops  *)
(* exactly what one newUnion over all of them drops.                       *)
MeetUnions(a, b) ==
    LET met == UNION { MeetTerms(s, t) : s \in a.terms, t \in b.terms }
    IN  IF met = {} THEN None ELSE NewUnion(met)

MeetUnknown(u, x) == IF IsTop(x) THEN u ELSE x

(* None wins over Unknown, Unknown over Any. *)
Meet(a, b) ==
    IF IsEmpty(a) \/ IsEmpty(b) THEN None
    ELSE IF IsUnknown(a) /\ IsUnknown(b) THEN MergeUnknown(a, b)
    ELSE IF IsUnknown(a) THEN MeetUnknown(a, b)
    ELSE IF IsUnknown(b) THEN MeetUnknown(b, a)
    ELSE IF IsTop(a) THEN b
    ELSE IF IsTop(b) THEN a
    ELSE MeetUnions(a, b)
=============================================================================
