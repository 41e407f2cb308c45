------------------------- MODULE AdmittedSetProofs -------------------------
(***************************************************************************)
(* What the operations of internal/eval compute, for every set of values,  *)
(* patterns, reasons and claims and every term cap: Meet and Join of       *)
(* string sets hold exactly the values they should and are provably        *)
(* everything exactly when they should be; the operations on admitted sets *)
(* keep the canonical form, never narrow, and say so when they widen.      *)
(***************************************************************************)
EXTENDS AdmittedSet, FiniteSetTheorems, TLAPS

(* A term is an exact value or a non-empty set of globs. *)
LEMMA TermForms ==
    ASSUME NEW t \in Terms
    PROVE  \/ t.kind = "exact" /\ t.value \in Value /\ t = ExactTerm(t.value)
           \/ t.kind = "globs" /\ t.globs \in (SUBSET Pattern) \ {{}} /\ t = GlobTerm(t.globs)
BY DEF Terms, ExactTerm, GlobTerm

(* The nodes a string set may be. *)
LEMMA SetForms ==
    ASSUME NEW s \in StringSets
    PROVE  \/ s = None /\ s.kind = "none"
           \/ s = Any /\ s.kind = "any"
           \/ /\ s.kind = "unknown" /\ s.reasons \in (SUBSET Reason) \ {{}}
              /\ s = Unknown(s.reasons)
           \/ /\ s.kind = "terms" /\ s.terms \in (SUBSET Terms) \ {{}}
              /\ s = Union(s.terms)
BY DEF StringSets, None, Any, Unknown, Union

(* newUnion keeps every value and at least one term, whichever exacts it   *)
(* drops: what makes an exact redundant is a glob, and globs stay.         *)
LEMMA NewUnionLemma ==
    ASSUME NEW T \in SUBSET Terms, T # {}
    PROVE  /\ NewUnion(T) \in StringSets
           /\ \A v : Contains(NewUnion(T), v) <=> \E t \in T : TermContains(t, v)
<1> DEFINE Kept == { t \in T : ~Redundant(t, T) }
<1>1. ASSUME NEW t \in T, NEW v, TermContains(t, v)
      PROVE  \E u \in Kept : TermContains(u, v)
    <2>1. CASE ~Redundant(t, T)
        BY <1>1, <2>1
    <2>2. CASE Redundant(t, T)
        <3>1. PICK u \in T \ {t} : TermContains(u, t.value)
            BY <2>2 DEF Redundant
        <3>2. t.kind = "exact" /\ t.value = v
            BY <1>1, <2>2 DEF Redundant, TermContains
        <3>3. u.kind = "globs"
            BY <3>1, <3>2, TermForms DEF TermContains
        <3>4. ~Redundant(u, T)
            BY <3>3 DEF Redundant
        <3>5. QED BY <3>1, <3>2, <3>4
    <2>3. QED BY <2>1, <2>2
<1>2. Kept # {}
    <2>1. PICK t \in T : TRUE
        OBVIOUS
    <2>2. CASE ~Redundant(t, T)
        BY <2>2
    <2>3. CASE Redundant(t, T)
        <3>1. TermContains(t, t.value)
            BY <2>3 DEF Redundant, TermContains
        <3>2. QED BY <1>1, <3>1
    <2>4. QED BY <2>2, <2>3
<1>3. \A t \in Kept : ~Redundant(t, Kept)
    BY DEF Redundant
<1>4. Kept \in { S \in (SUBSET Terms) \ {{}} : \A t \in S : ~Redundant(t, S) }
    BY <1>2, <1>3
<1>5. NewUnion(T) = Union(Kept)
    BY DEF NewUnion
<1>6. NewUnion(T) \in StringSets
    BY <1>4, <1>5 DEF StringSets
<1>7. ASSUME NEW v PROVE Contains(NewUnion(T), v) <=> \E t \in T : TermContains(t, v)
    <2>1. Contains(NewUnion(T), v) <=> \E t \in Kept : TermContains(t, v)
        BY <1>5 DEF Contains, Union
    <2>2. QED BY <2>1, <1>1
<1>8. QED BY <1>6, <1>7

(* The meet of two terms is at most one term, and holds what both hold. *)
LEMMA MeetTermsLemma ==
    ASSUME NEW s \in Terms, NEW t \in Terms
    PROVE  /\ MeetTerms(s, t) \subseteq Terms
           /\ \A v : (\E u \in MeetTerms(s, t) : TermContains(u, v))
                        <=> TermContains(s, v) /\ TermContains(t, v)
<1>1. CASE s.kind = "exact"
    BY <1>1 DEF MeetTerms, TermContains
<1>2. CASE s.kind # "exact" /\ t.kind = "exact"
    BY <1>2 DEF MeetTerms, TermContains
<1>3. CASE s.kind # "exact" /\ t.kind # "exact"
    <2>1. /\ s.kind = "globs" /\ s.globs \in (SUBSET Pattern) \ {{}}
          /\ t.kind = "globs" /\ t.globs \in (SUBSET Pattern) \ {{}}
        BY <1>3, TermForms
    <2>2. MeetTerms(s, t) = {GlobTerm(s.globs \cup t.globs)}
        BY <1>3 DEF MeetTerms
    <2>3. s.globs \cup t.globs \in (SUBSET Pattern) \ {{}}
        BY <2>1
    <2>4. GlobTerm(s.globs \cup t.globs) \in Terms
        BY <2>3 DEF Terms
    <2>5. \A v : TermContains(GlobTerm(s.globs \cup t.globs), v)
                    <=> TermContains(s, v) /\ TermContains(t, v)
        BY <2>1 DEF TermContains, GlobTerm
    <2>6. QED BY <2>2, <2>4, <2>5
<1>4. QED BY <1>1, <1>2, <1>3

(* Two unions of terms meet in the values both hold. *)
LEMMA MeetUnionsLemma ==
    ASSUME NEW a \in StringSets, NEW b \in StringSets, a.kind = "terms", b.kind = "terms"
    PROVE  /\ MeetUnions(a, b) \in StringSets
           /\ ~IsTop(MeetUnions(a, b))
           /\ \A v : Contains(MeetUnions(a, b), v) <=> Contains(a, v) /\ Contains(b, v)
<1> DEFINE met == UNION { MeetTerms(s, t) : s \in a.terms, t \in b.terms }
<1>1. a.terms \in SUBSET Terms /\ b.terms \in SUBSET Terms
    BY SetForms DEF None, Any, Unknown, Union
<1>2. met \in SUBSET Terms
    BY <1>1, MeetTermsLemma
<1>3. ASSUME NEW v
      PROVE  (\E u \in met : TermContains(u, v)) <=> Contains(a, v) /\ Contains(b, v)
    <2>1. (\E u \in met : TermContains(u, v))
            <=> \E s \in a.terms, t \in b.terms : \E u \in MeetTerms(s, t) : TermContains(u, v)
        OBVIOUS
    <2>2. \A s \in a.terms, t \in b.terms :
            (\E u \in MeetTerms(s, t) : TermContains(u, v))
                <=> TermContains(s, v) /\ TermContains(t, v)
        BY <1>1, MeetTermsLemma
    <2>3. Contains(a, v) <=> \E s \in a.terms : TermContains(s, v)
        BY DEF Contains
    <2>4. Contains(b, v) <=> \E t \in b.terms : TermContains(t, v)
        BY DEF Contains
    <2>5. QED BY <2>1, <2>2, <2>3, <2>4
<1>4. CASE met = {}
    <2>1. MeetUnions(a, b) = None
        BY <1>4 DEF MeetUnions
    <2>2. None \in StringSets /\ ~IsTop(None) /\ \A v : ~Contains(None, v)
        BY DEF StringSets, None, IsTop, Contains
    <2>3. QED BY <1>3, <1>4, <2>1, <2>2
<1>5. CASE met # {}
    <2>1. MeetUnions(a, b) = NewUnion(met)
        BY <1>5 DEF MeetUnions
    <2>2. ~IsTop(NewUnion(met))
        BY DEF NewUnion, Union, IsTop
    <2>3. QED BY <1>2, <1>3, <1>5, <2>1, <2>2, NewUnionLemma
<1>6. QED BY <1>4, <1>5

(***************************************************************************)
(* Meet (stringset.go, meet): well formed, exact on every value, and       *)
(* everything only where both sides are.  The unevaluated side of an       *)
(* Unknown never narrows the other.                                        *)
(***************************************************************************)
THEOREM MeetIsIntersection ==
    ASSUME NEW a \in StringSets, NEW b \in StringSets
    PROVE  /\ Meet(a, b) \in StringSets
           /\ IsTop(Meet(a, b)) <=> IsTop(a) /\ IsTop(b)
           /\ \A v : Contains(Meet(a, b), v) <=> Contains(a, v) /\ Contains(b, v)
<1> USE DEF IsEmpty, IsTop, IsUnknown
<1>0. None \in StringSets /\ None.kind = "none"
    BY DEF StringSets, None
<1>1. CASE IsEmpty(a) \/ IsEmpty(b)
    BY <1>0, <1>1 DEF Meet, Contains
<1>2. CASE IsUnknown(a) /\ IsUnknown(b)
    <2>1. Meet(a, b) = Unknown(a.reasons \cup b.reasons)
        BY <1>2 DEF Meet, MergeUnknown
    <2>2. a.reasons \cup b.reasons \in (SUBSET Reason) \ {{}}
        BY <1>2, SetForms
    <2>3. Unknown(a.reasons \cup b.reasons) \in StringSets
        BY <2>2 DEF StringSets
    <2>4. Unknown(a.reasons \cup b.reasons).kind = "unknown"
        BY DEF Unknown
    <2>5. QED BY <1>2, <2>1, <2>3, <2>4 DEF Contains
<1>3. CASE ~IsEmpty(a) /\ ~IsEmpty(b) /\ IsTop(a) /\ ~(IsUnknown(a) /\ IsUnknown(b))
    BY <1>3 DEF Meet, MeetUnknown, Contains
<1>4. CASE ~IsEmpty(a) /\ ~IsEmpty(b) /\ ~IsTop(a) /\ IsTop(b)
    BY <1>4 DEF Meet, MeetUnknown, Contains
<1>5. CASE ~IsEmpty(a) /\ ~IsEmpty(b) /\ ~IsTop(a) /\ ~IsTop(b)
    <2>1. a.kind = "terms" /\ b.kind = "terms"
        BY <1>5, SetForms
    <2>2. Meet(a, b) = MeetUnions(a, b)
        BY <1>5 DEF Meet
    <2>3. QED BY <1>5, <2>1, <2>2, MeetUnionsLemma
<1>6. QED BY <1>1, <1>2, <1>3, <1>4, <1>5

(***************************************************************************)
(* Join (stringset.go, join): well formed, exact on every value, and       *)
(* Unknown exactly when a side is: an unevaluated branch stays visible.    *)
(***************************************************************************)
THEOREM JoinIsUnion ==
    ASSUME NEW a \in StringSets, NEW b \in StringSets
    PROVE  /\ Join(a, b) \in StringSets
           /\ IsUnknown(Join(a, b)) <=> IsUnknown(a) \/ IsUnknown(b)
           /\ \A v : Contains(Join(a, b), v) <=> Contains(a, v) \/ Contains(b, v)
<1> USE DEF IsEmpty, IsTop, IsUnknown
<1>1. CASE IsUnknown(a) /\ IsUnknown(b)
    <2>1. Join(a, b) = Unknown(a.reasons \cup b.reasons)
        BY <1>1 DEF Join, MergeUnknown
    <2>2. a.reasons \cup b.reasons \in (SUBSET Reason) \ {{}}
        BY <1>1, SetForms
    <2>3. Unknown(a.reasons \cup b.reasons) \in StringSets
        BY <2>2 DEF StringSets
    <2>4. Unknown(a.reasons \cup b.reasons).kind = "unknown"
        BY DEF Unknown
    <2>5. QED BY <1>1, <2>1, <2>3, <2>4 DEF Contains
<1>2. CASE IsUnknown(a) /\ ~IsUnknown(b)
    <2>1. Join(a, b) = a
        BY <1>2 DEF Join
    <2>2. QED BY <1>2, <2>1 DEF Contains
<1>3. CASE ~IsUnknown(a) /\ IsUnknown(b)
    <2>1. Join(a, b) = b
        BY <1>3 DEF Join
    <2>2. QED BY <1>3, <2>1 DEF Contains
<1>4. CASE ~IsUnknown(a) /\ ~IsUnknown(b)
    <2>1. Join(a, b) = IF IsTop(a) \/ IsTop(b) THEN Any
                       ELSE IF IsEmpty(a) THEN b
                       ELSE IF IsEmpty(b) THEN a
                       ELSE NewUnion(a.terms \cup b.terms)
        BY <1>4 DEF Join
    <2>2. CASE IsTop(a) \/ IsTop(b)
        <3>1. Any \in StringSets /\ Any.kind = "any"
            BY DEF StringSets, Any
        <3>2. QED BY <1>4, <2>1, <2>2, <3>1 DEF Contains
    <2>3. CASE ~(IsTop(a) \/ IsTop(b)) /\ IsEmpty(a)
        BY <1>4, <2>1, <2>3 DEF Contains
    <2>4. CASE ~(IsTop(a) \/ IsTop(b)) /\ ~IsEmpty(a) /\ IsEmpty(b)
        BY <1>4, <2>1, <2>4 DEF Contains
    <2>5. CASE ~(IsTop(a) \/ IsTop(b)) /\ ~IsEmpty(a) /\ ~IsEmpty(b)
        <3>1. /\ a.kind = "terms" /\ a.terms \in (SUBSET Terms) \ {{}}
              /\ b.kind = "terms" /\ b.terms \in (SUBSET Terms) \ {{}}
            BY <2>5, SetForms
        <3>2. Join(a, b) = NewUnion(a.terms \cup b.terms)
            BY <2>1, <2>5
        <3>3. Join(a, b).kind = "terms"
            BY <3>2 DEF NewUnion, Union
        <3>4. a.terms \cup b.terms \in SUBSET Terms /\ a.terms \cup b.terms # {}
            BY <3>1
        <3>5. \A v : Contains(Join(a, b), v) <=> \E t \in a.terms \cup b.terms : TermContains(t, v)
            BY <3>2, <3>4, NewUnionLemma
        <3>6. \A v : /\ Contains(a, v) <=> \E t \in a.terms : TermContains(t, v)
                     /\ Contains(b, v) <=> \E t \in b.terms : TermContains(t, v)
            BY <3>1 DEF Contains
        <3>7. QED BY <1>4, <3>2, <3>3, <3>4, <3>5, <3>6, NewUnionLemma
    <2>6. QED BY <2>2, <2>3, <2>4, <2>5
<1>5. QED BY <1>1, <1>2, <1>3, <1>4

-----------------------------------------------------------------------------
(* A claim term is a function from some claims to string sets. *)
LEMMA TermIsFunction ==
    ASSUME NEW t
    PROVE  t \in ClaimTerms <=>
             /\ DOMAIN t \in SUBSET Claim
             /\ t = [c \in DOMAIN t |-> t[c]]
             /\ \A c \in DOMAIN t : t[c] \in StringSets
<1>1. ASSUME t \in ClaimTerms
      PROVE  /\ DOMAIN t \in SUBSET Claim
             /\ t = [c \in DOMAIN t |-> t[c]]
             /\ \A c \in DOMAIN t : t[c] \in StringSets
    <2>1. PICK D \in SUBSET Claim : t \in [D -> StringSets]
        BY <1>1 DEF ClaimTerms, TermsOver
    <2>2. QED BY <2>1
<1>2. ASSUME /\ DOMAIN t \in SUBSET Claim
             /\ t = [c \in DOMAIN t |-> t[c]]
             /\ \A c \in DOMAIN t : t[c] \in StringSets
      PROVE  t \in ClaimTerms
    <2>1. t \in [DOMAIN t -> StringSets]
        BY <1>2
    <2>2. QED BY <1>2, <2>1 DEF ClaimTerms, TermsOver
<1>3. QED BY <1>1, <1>2

(* The empty term constrains nothing, and every token passes it. *)
LEMMA EmptyTermLemma ==
    /\ EmptyTerm \in ClaimTerms
    /\ DOMAIN EmptyTerm = {}
    /\ AllTop(EmptyTerm)
    /\ \A token : Failures(EmptyTerm, token) = {}
<1>1. DOMAIN EmptyTerm = {}
    BY DEF EmptyTerm
<1>2. EmptyTerm \in [{} -> StringSets]
    BY DEF EmptyTerm
<1>3. EmptyTerm \in ClaimTerms
    BY <1>2 DEF ClaimTerms, TermsOver
<1>4. QED BY <1>1, <1>3 DEF AllTop, Failures

(* No token satisfies an empty set; every token satisfies a full one. *)
LEMMA SatisfiesExtremes ==
    ASSUME NEW s, NEW c, NEW token
    PROVE  /\ IsEmpty(s) => ~Satisfies(s, c, token)
           /\ IsTop(s) => Satisfies(s, c, token)
BY DEF IsEmpty, IsTop, Satisfies, Contains

(* A token satisfies a meet when it satisfies both sides. *)
LEMMA SatisfiesMeet ==
    ASSUME NEW s \in StringSets, NEW t \in StringSets, NEW c, NEW token
    PROVE  Satisfies(Meet(s, t), c, token)
             <=> Satisfies(s, c, token) /\ Satisfies(t, c, token)
BY MeetIsIntersection DEF Satisfies

(* A dead term admits no token; a term of full claims admits all. *)
LEMMA DeadAdmitsNone ==
    ASSUME NEW t, NEW token, Dead(t)
    PROVE  Failures(t, token) # {}
BY SatisfiesExtremes DEF Dead, Failures

(* A term all of whose claims are full is passed by every token. *)
LEMMA AllTopAdmitsAll ==
    ASSUME NEW t, NEW token, AllTop(t)
    PROVE  Failures(t, token) = {}
BY SatisfiesExtremes DEF AllTop, Failures

(* Dropping the claims that are Any changes no answer. *)
LEMMA NormaliseTermAdmits ==
    ASSUME NEW t, NEW token
    PROVE  Failures(NormaliseTerm(t), token) = {} <=> Failures(t, token) = {}
<1> DEFINE n == NormaliseTerm(t)
           D == { d \in DOMAIN t : ~Unconstrained(t[d]) }
<1>1. DOMAIN n = D /\ \A c \in D : n[c] = t[c]
    BY DEF NormaliseTerm
<1>2. \A c \in DOMAIN t \ D : Satisfies(t[c], c, token)
    BY SatisfiesExtremes DEF Unconstrained
<1>3. \A c \in D : Satisfies(n[c], c, token) <=> Satisfies(t[c], c, token)
    BY <1>1
<1>4. QED BY <1>1, <1>2, <1>3 DEF Failures

(* A live term stays one, with no claim left to drop. *)
LEMMA NormaliseTermLemma ==
    ASSUME NEW t \in ClaimTerms, ~Dead(t)
    PROVE  /\ NormaliseTerm(t) \in ClaimTerms
           /\ \A c \in DOMAIN NormaliseTerm(t) :
                ~IsEmpty(NormaliseTerm(t)[c]) /\ ~Unconstrained(NormaliseTerm(t)[c])
<1> DEFINE n == NormaliseTerm(t)
           D == { d \in DOMAIN t : ~Unconstrained(t[d]) }
<1>1. DOMAIN n = D /\ \A c \in D : n[c] = t[c]
    BY DEF NormaliseTerm
<1>2. n = [c \in DOMAIN n |-> n[c]]
    BY DEF NormaliseTerm
<1>3. n \in ClaimTerms
    BY <1>1, <1>2, TermIsFunction
<1>4. \A c \in DOMAIN n : ~IsEmpty(n[c]) /\ ~Unconstrained(n[c])
    BY <1>1 DEF Dead
<1>5. QED BY <1>3, <1>4

(* Two conjunctions merged admit what both admit. *)
LEMMA ConjoinLemma ==
    ASSUME NEW x \in ClaimTerms, NEW y \in ClaimTerms
    PROVE  /\ Conjoin(x, y) \in ClaimTerms
           /\ \A token : Failures(Conjoin(x, y), token) = {}
                            <=> Failures(x, token) = {} /\ Failures(y, token) = {}
<1> DEFINE m == Conjoin(x, y)
<1>1. /\ DOMAIN x \in SUBSET Claim /\ \A c \in DOMAIN x : x[c] \in StringSets
      /\ DOMAIN y \in SUBSET Claim /\ \A c \in DOMAIN y : y[c] \in StringSets
    BY TermIsFunction
<1>2. DOMAIN m = DOMAIN x \cup DOMAIN y /\ m = [c \in DOMAIN m |-> m[c]]
    BY DEF Conjoin
<1>3. /\ \A c \in DOMAIN x \cap DOMAIN y : m[c] = Meet(x[c], y[c])
      /\ \A c \in DOMAIN x \ DOMAIN y : m[c] = x[c]
      /\ \A c \in DOMAIN y \ DOMAIN x : m[c] = y[c]
    BY DEF Conjoin
<1>4. \A c \in DOMAIN m : m[c] \in StringSets
    BY <1>1, <1>2, <1>3, MeetIsIntersection
<1>5. m \in ClaimTerms
    BY <1>1, <1>2, <1>4, TermIsFunction
<1>6. ASSUME NEW token
      PROVE  Failures(m, token) = {} <=> Failures(x, token) = {} /\ Failures(y, token) = {}
    <2>1. \A c \in DOMAIN x \cap DOMAIN y :
            Satisfies(m[c], c, token)
                <=> Satisfies(x[c], c, token) /\ Satisfies(y[c], c, token)
        BY <1>1, <1>3, SatisfiesMeet
    <2>2. QED BY <1>2, <1>3, <2>1 DEF Failures
<1>7. QED BY <1>5, <1>6

-----------------------------------------------------------------------------
(* normalise: canonical, never narrower than the terms it was given, as    *)
(* wide as they are unless it says so, and no caveat is lost.              *)
SomeTermAdmits(T, token) == \E t \in T : Failures(t, token) = {}

Normalises(n, T, C, op) ==
    /\ Canonical(n)
    /\ C \subseteq n.caveats
    /\ n.caveats \subseteq C \cup {Overflow(op)}
    /\ \A token : SomeTermAdmits(T, token) => Admits(n, token)
    /\ IsExact(n) => \A token : Admits(n, token) => SomeTermAdmits(T, token)

(* The live terms, normalised, admit what the terms given admit. *)
LEMMA LiveAdmits ==
    ASSUME NEW T, NEW token
    PROVE  SomeTermAdmits(Live(T), token) <=> SomeTermAdmits(T, token)
<1>1. ASSUME NEW t \in T, Failures(t, token) = {}
      PROVE  \E u \in Live(T) : Failures(u, token) = {}
    <2>1. ~Dead(t)
        BY <1>1, DeadAdmitsNone
    <2>2. NormaliseTerm(t) \in Live(T)
        BY <2>1 DEF Live
    <2>3. QED BY <1>1, <2>2, NormaliseTermAdmits
<1>2. ASSUME NEW u \in Live(T), Failures(u, token) = {}
      PROVE  SomeTermAdmits(T, token)
    <2>1. PICK t \in T : ~Dead(t) /\ u = NormaliseTerm(t)
        BY DEF Live
    <2>2. QED BY <1>2, <2>1, NormaliseTermAdmits DEF SomeTermAdmits
<1>3. QED BY <1>1, <1>2 DEF SomeTermAdmits

(* What normalise admits, whatever terms it is given: never less, and no   *)
(* more without a caveat.                                                  *)
LEMMA NormaliseAdmits ==
    ASSUME NEW T, NEW C, NEW op
    PROVE  LET n == Normalise(T, C, op)
           IN  /\ C \subseteq n.caveats
               /\ n.caveats \subseteq C \cup {Overflow(op)}
               /\ \A token : SomeTermAdmits(T, token) => Admits(n, token)
               /\ IsExact(n) => \A token : Admits(n, token) => SomeTermAdmits(T, token)
<1> DEFINE n == Normalise(T, C, op)
<1>1. CASE \E t \in Live(T) : AllTop(t)
    <2>1. n = Set({EmptyTerm}, C)
        BY <1>1 DEF Normalise
    <2>2. n.terms = {EmptyTerm} /\ n.caveats = C
        BY <2>1 DEF Set
    <2>3. \A token : SomeTermAdmits(Live(T), token)
        BY <1>1, AllTopAdmitsAll DEF SomeTermAdmits
    <2>4. \A token : SomeTermAdmits(T, token)
        BY <2>3, LiveAdmits
    <2>5. \A token : Admits(n, token)
        BY <2>2, EmptyTermLemma DEF Admits
    <2>6. QED BY <2>2, <2>4, <2>5
<1>2. CASE ~(\E t \in Live(T) : AllTop(t)) /\ Cardinality(Live(T)) > TermCap
    <2>1. n = Set({EmptyTerm}, C \cup {Overflow(op)})
        BY <1>2 DEF Normalise
    <2>2. n.terms = {EmptyTerm} /\ n.caveats = C \cup {Overflow(op)}
        BY <2>1 DEF Set
    <2>3. \A token : Admits(n, token)
        BY <2>2, EmptyTermLemma DEF Admits
    <2>4. ~IsExact(n)
        BY <2>2 DEF IsExact
    <2>5. QED BY <2>2, <2>3, <2>4
<1>3. CASE ~(\E t \in Live(T) : AllTop(t)) /\ ~(Cardinality(Live(T)) > TermCap)
    <2>1. n = Set(Live(T), C)
        BY <1>3 DEF Normalise
    <2>2. n.terms = Live(T) /\ n.caveats = C
        BY <2>1 DEF Set
    <2>3. \A token : Admits(n, token) <=> SomeTermAdmits(Live(T), token)
        BY <2>2 DEF Admits, SomeTermAdmits
    <2>4. \A token : Admits(n, token) <=> SomeTermAdmits(T, token)
        BY <2>3, LiveAdmits
    <2>5. QED BY <2>2, <2>4
<1>4. QED BY <1>1, <1>2, <1>3

(* normalise keeps that promise, and the canonical form of claim terms. *)
LEMMA NormaliseLemma ==
    ASSUME NEW T \in SUBSET ClaimTerms, NEW C, NEW op
    PROVE  Normalises(Normalise(T, C, op), T, C, op)
<1> DEFINE n == Normalise(T, C, op)
<1>1. \A u \in Live(T) :
        u \in ClaimTerms /\ \A c \in DOMAIN u : ~IsEmpty(u[c]) /\ ~Unconstrained(u[c])
    BY NormaliseTermLemma DEF Live
<1>2. ASSUME n.terms = {EmptyTerm} PROVE Canonical(n)
    BY <1>2, EmptyTermLemma DEF Canonical, Reduced
<1>3. ASSUME n.terms # {EmptyTerm} PROVE Canonical(n)
    <2>1. ~(\E t \in Live(T) : AllTop(t)) /\ n.terms = Live(T)
        BY <1>3 DEF Normalise, Set
    <2>2. QED BY <1>1, <2>1 DEF Canonical, Reduced
<1>4. Canonical(n)
    BY <1>2, <1>3
<1>5. QED BY <1>4, NormaliseAdmits DEF Normalises

-----------------------------------------------------------------------------
(* What a combination of two sets admits. *)
LEMMA MeetSetsLemma ==
    ASSUME NEW a, NEW b, Canonical(a), Canonical(b)
    PROVE  LET m == MeetSets(a, b)
           IN  /\ Canonical(m)
               /\ a.caveats \cup b.caveats \subseteq m.caveats
               /\ m.caveats \subseteq a.caveats \cup b.caveats \cup {Overflow("Meet")}
               /\ \A token : Admits(a, token) /\ Admits(b, token) => Admits(m, token)
               /\ IsExact(m) => \A token : Admits(m, token) => Admits(a, token) /\ Admits(b, token)
<1> DEFINE T == { Conjoin(x, y) : x \in a.terms, y \in b.terms }
           C == a.caveats \cup b.caveats
<1>1. a.terms \subseteq ClaimTerms /\ b.terms \subseteq ClaimTerms
    BY DEF Canonical, Reduced
<1>2. T \in SUBSET ClaimTerms
    BY <1>1, ConjoinLemma
<1>3. ASSUME NEW token
      PROVE  SomeTermAdmits(T, token) <=> Admits(a, token) /\ Admits(b, token)
    <2>1. SomeTermAdmits(T, token)
            <=> \E x \in a.terms, y \in b.terms : Failures(Conjoin(x, y), token) = {}
        BY DEF SomeTermAdmits
    <2>2. \A x \in a.terms, y \in b.terms :
            Failures(Conjoin(x, y), token) = {}
                <=> Failures(x, token) = {} /\ Failures(y, token) = {}
        BY <1>1, ConjoinLemma
    <2>3. QED BY <2>1, <2>2 DEF Admits
<1>4. MeetSets(a, b) = Normalise(T, C, "Meet")
    BY DEF MeetSets
<1> HIDE DEF T, C
<1>5. Normalises(MeetSets(a, b), T, C, "Meet")
    BY <1>2, <1>4, NormaliseLemma
<1>6. QED BY <1>3, <1>5 DEF C, Normalises

(* What an alternative of two sets admits. *)
LEMMA JoinSetsLemma ==
    ASSUME NEW a, NEW b, Canonical(a), Canonical(b)
    PROVE  LET j == JoinSets(a, b)
           IN  /\ Canonical(j)
               /\ a.caveats \cup b.caveats \subseteq j.caveats
               /\ j.caveats \subseteq a.caveats \cup b.caveats \cup {Overflow("Join")}
               /\ \A token : Admits(a, token) \/ Admits(b, token) => Admits(j, token)
               /\ IsExact(j) => \A token : Admits(j, token) => Admits(a, token) \/ Admits(b, token)
<1> DEFINE T == a.terms \cup b.terms
           C == a.caveats \cup b.caveats
<1>1. T \in SUBSET ClaimTerms
    BY DEF Canonical, Reduced
<1>2. \A token : SomeTermAdmits(T, token) <=> Admits(a, token) \/ Admits(b, token)
    BY DEF SomeTermAdmits, Admits
<1>3. JoinSets(a, b) = Normalise(T, C, "Join")
    BY DEF JoinSets
<1> HIDE DEF T, C
<1>4. Normalises(JoinSets(a, b), T, C, "Join")
    BY <1>1, <1>3, NormaliseLemma
<1>5. QED BY <1>2, <1>4 DEF C, Normalises

(* A caveat added changes no answer, and leaves the set not exact. *)
LEMMA WithCaveatLemma ==
    ASSUME NEW a, NEW c
    PROVE  /\ WithCaveat(a, c).terms = a.terms
           /\ WithCaveat(a, c).caveats = a.caveats \cup {[recorded |-> c]}
           /\ ~IsExact(WithCaveat(a, c))
           /\ Canonical(a) => Canonical(WithCaveat(a, c))
           /\ \A token : Admits(WithCaveat(a, c), token) <=> Admits(a, token)
<1>1. /\ WithCaveat(a, c).terms = a.terms
      /\ WithCaveat(a, c).caveats = a.caveats \cup {[recorded |-> c]}
    BY DEF WithCaveat, Set
<1>2. QED BY <1>1 DEF IsExact, Canonical, Reduced, Admits

(* The caveats normalise itself adds are caveats of a set. *)
LEMMA OverflowIsCaveat == \A op \in Operations : Overflow(op) \in Caveats
BY DEF Caveats
=============================================================================
