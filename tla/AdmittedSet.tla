----------------------------- MODULE AdmittedSet -----------------------------
(***************************************************************************)
(* internal/eval/admitted.go and caveat.go: the set of tokens a grant      *)
(* admits, a union of terms over claims, with the caveats that say it is   *)
(* only an upper bound.                                                    *)
(*                                                                         *)
(* A term is a function on the claims it constrains; a claim outside its   *)
(* domain is unconstrained.  The code deduplicates terms by a rendering    *)
(* that is injective, so a term list is a set of terms.                    *)
(***************************************************************************)
EXTENDS StringSet

CONSTANTS
    Claim,    \* claim names (ClaimKey)
    Caveat,   \* the caveats a reader records (claim, reason, source)
    TermCap   \* termCap: the most terms a set holds

ASSUME TermCapAssumption == TermCap \in Nat \ {0}

TermsOver(D) == [D -> StringSets]
ClaimTerms == UNION { TermsOver(D) : D \in SUBSET Claim }

(* A token carries some claims, one value each. *)
Tokens == UNION { [D -> Value] : D \in SUBSET Claim }

(* The caveat normalise adds when it widens; op is the operation. *)
Overflow(op) == [overflow |-> op]
Operations == {"NewAdmittedSet", "Meet", "Join"}
Caveats == { [recorded |-> c] : c \in Caveat } \cup { Overflow(op) : op \in Operations }

EmptyTerm == [c \in {} |-> Any]

Set(T, C) == [terms |-> T, caveats |-> C]
Everything == Set({EmptyTerm}, {})
Nothing    == Set({}, {})

-----------------------------------------------------------------------------
(* normaliseTerm: a term with a provably empty claim is dead; an Any claim *)
(* is dropped, an Unknown one is kept.                                     *)
Dead(t) == \E c \in DOMAIN t : IsEmpty(t[c])

Unconstrained(s) == IsTop(s) /\ ~IsUnknown(s)

MutantNormaliseTerm(t) == t   \* an Any claim is kept

NormaliseTerm(t) ==
    [c \in { d \in DOMAIN t : ~Unconstrained(t[d]) } |-> t[c]]

AllTop(t) == \A c \in DOMAIN t : IsTop(t[c])

Live(T) == { NormaliseTerm(t) : t \in { u \in T : ~Dead(u) } }

MutantNormaliseCut(T, C, op) ==   \* past the cap the list is truncated
    IF \E t \in Live(T) : AllTop(t) THEN Set({EmptyTerm}, C)
    ELSE IF Cardinality(Live(T)) > TermCap
         THEN Set(CHOOSE S \in SUBSET Live(T) : Cardinality(S) = TermCap, C \cup {Overflow(op)})
    ELSE Set(Live(T), C)

MutantNormaliseSilent(T, C, op) ==   \* past the cap it widens without a caveat
    IF \E t \in Live(T) : AllTop(t) THEN Set({EmptyTerm}, C)
    ELSE IF Cardinality(Live(T)) > TermCap THEN Set({EmptyTerm}, C)
    ELSE Set(Live(T), C)

MutantNormaliseLate(T, C, op) ==   \* one term too many
    IF \E t \in Live(T) : AllTop(t) THEN Set({EmptyTerm}, C)
    ELSE IF Cardinality(Live(T)) > TermCap + 1 THEN Set({EmptyTerm}, C \cup {Overflow(op)})
    ELSE Set(Live(T), C)

(* Past the cap the set widens to Everything and says so; it is never cut. *)
Normalise(T, C, op) ==
    IF \E t \in Live(T) : AllTop(t) THEN Set({EmptyTerm}, C)
    ELSE IF Cardinality(Live(T)) > TermCap THEN Set({EmptyTerm}, C \cup {Overflow(op)})
    ELSE Set(Live(T), C)

NewAdmittedSet(T) == Normalise(T, {}, "NewAdmittedSet")

Conjoin(x, y) ==
    [c \in DOMAIN x \cup DOMAIN y |->
        IF c \in DOMAIN x /\ c \in DOMAIN y THEN Meet(x[c], y[c])
        ELSE IF c \in DOMAIN x THEN x[c] ELSE y[c]]

MeetSets(a, b) ==
    Normalise({ Conjoin(x, y) : x \in a.terms, y \in b.terms },
              a.caveats \cup b.caveats, "Meet")

JoinSets(a, b) ==
    Normalise(a.terms \cup b.terms, a.caveats \cup b.caveats, "Join")

WithCaveat(a, c) == Set(a.terms, a.caveats \cup {[recorded |-> c]})

IsExact(a)      == a.caveats = {}
AdmitsNobody(a) == a.terms = {}
AdmitsAll(a)    == a.terms = {EmptyTerm}

-----------------------------------------------------------------------------
(* A claim the token lacks satisfies only a constraint that admits         *)
(* everything.                                                             *)
Satisfies(s, c, token) ==
    IF c \in DOMAIN token THEN Contains(s, token[c]) ELSE IsTop(s)

Failures(t, token) == { c \in DOMAIN t : ~Satisfies(t[c], c, token) }

Admits(a, token) == \E t \in a.terms : Failures(t, token) = {}

Admitted(a) == { token \in Tokens : Admits(a, token) }

(* The form admitted.go promises of every set: no dead term, no claim      *)
(* spelled out as Any, a term that admits every token only as the single   *)
(* empty term.                                                             *)
Reduced(t, a) ==
    /\ \A c \in DOMAIN t : ~IsEmpty(t[c]) /\ ~Unconstrained(t[c])
    /\ AllTop(t) => t = EmptyTerm /\ a.terms = {EmptyTerm}

Canonical(a) == \A t \in a.terms : t \in ClaimTerms /\ Reduced(t, a)
=============================================================================
