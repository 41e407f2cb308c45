------------------------- MODULE TrustPolicyProofs -------------------------
(***************************************************************************)
(* Three parts, each resting on the one invariant of the reader.           *)
(*                                                                         *)
(*   1. The reader of trust policies keeps the promise of every reader,    *)
(*      for any claims, values, patterns and issuers, any conditions a     *)
(*      document may hold, and any number of statements and constructs.    *)
(*   2. What the explain view answers from its grants is true.             *)
(*   3. A grant is never placed nearer than whoever can use it, and a      *)
(*      report that is sure nobody without an account can assume a role is *)
(*      right: for any census that is true (RingAssumption), any holders,  *)
(*      declarations and documents.  And no caller a statement may let in  *)
(*      is left out of the populations its grants are placed among.        *)
(***************************************************************************)
EXTENDS Explain, Ring, Principals, AdmittedSetProofs

-----------------------------------------------------------------------------
(* 1. The reader.                                                          *)

(* Of all the values listed, the union holds those some value holds, and   *)
(* it is everything only when one of them is.                              *)
LEMMA ValueSetLemma ==
    ASSUME NEW values \in SUBSET StringSets, \A s \in values : ~IsUnknown(s)
    PROVE  /\ ValueSet(values) \in StringSets
           /\ ~IsTop(ValueSet(values)) => \A v : Contains(ValueSet(values), v) <=> Among(values, v)
  <1> DEFINE plain == { v \in values : ~IsTop(v) /\ ~IsEmpty(v) }
             terms == UNION { s.terms : s \in plain }
  <1>1. CASE \E s \in values : IsTop(s)
    BY <1>1 DEF ValueSet, StringSets, IsTop, Any
  <1>2. CASE ~ \E s \in values : IsTop(s)
    <2>1. \A s \in plain : s.kind = "terms" /\ s.terms \in (SUBSET Terms) \ {{}}
      BY SetForms DEF IsTop, IsEmpty
    <2>2. terms \in SUBSET Terms
      BY <2>1
    <2>3. \A v : Among(values, v) <=> \E t \in terms : TermContains(t, v)
      <3>1. \A s \in values : s \in plain \/ s.kind = "none"
        BY <1>2 DEF IsEmpty
      <3>2. \A s \in values : \A v : Contains(s, v) <=> s \in plain /\ \E t \in s.terms : TermContains(t, v)
        BY <2>1, <3>1 DEF Contains, IsEmpty
      <3> QED
        BY <3>2 DEF Among
    <2>4. CASE terms = {}
      <3>1. ValueSet(values) = None
        BY <1>2, <2>4 DEF ValueSet
      <3> QED
        BY <2>3, <2>4, <3>1 DEF StringSets, Contains, None
    <2>5. CASE terms # {}
      <3>1. ValueSet(values) = NewUnion(terms)
        BY <1>2, <2>5 DEF ValueSet
      <3> HIDE DEF terms
      <3> QED
        BY <2>2, <2>3, <2>5, <3>1, NewUnionLemma
    <2> QED
      BY <2>4, <2>5
  <1> QED
    BY <1>1, <1>2

(* No constraint of the term is Unknown: all of it was evaluated. *)
WhollyRead(t) == \A k \in DOMAIN t : ~IsUnknown(t[k])

(* Meet makes no Unknown of two sets that were evaluated. *)
LEMMA MeetIsRead ==
    ASSUME NEW a \in StringSets, NEW b \in StringSets, ~IsUnknown(a), ~IsUnknown(b)
    PROVE  ~IsUnknown(Meet(a, b))
  <1> USE DEF IsEmpty, IsTop, IsUnknown
  <1>1. CASE IsEmpty(a) \/ IsEmpty(b) \/ IsTop(a) \/ IsTop(b)
    BY <1>1 DEF Meet, None
  <1>2. CASE ~(IsEmpty(a) \/ IsEmpty(b) \/ IsTop(a) \/ IsTop(b))
    <2>1. a.kind = "terms" /\ b.kind = "terms"
      BY <1>2, SetForms
    <2>2. Meet(a, b) = MeetUnions(a, b)
      BY <1>2 DEF Meet
    <2> QED
      BY <2>1, <2>2, MeetUnionsLemma
  <1> QED
    BY <1>1, <1>2

(* What a condition the constants offer is. *)
Conditional(c) ==
    /\ c.claim \in Claim
    /\ c.operator \in ReadOperators \cup VacuousOperators \cup {"other"}
    /\ c.values \subseteq StringSets /\ \A s \in c.values : ~IsUnknown(s)

(* A condition that was evaluated is read as AWS reads it; one that was    *)
(* not is passed by every token.                                           *)
LEMMA OutcomeLemma ==
    ASSUME NEW c, Conditional(c), NEW repeated \in BOOLEAN
    PROVE  /\ OutcomeOf(c, repeated) \in StringSets
           /\ Evaluated(c, repeated) => ~IsUnknown(OutcomeOf(c, repeated))
           /\ ~Evaluated(c, repeated) =>
                \A token : Satisfies(OutcomeOf(c, repeated), c.claim, token)
           /\ Evaluated(c, repeated) =>
                \A m \in Meanings(c) : \A token \in Tokens :
                    Satisfies(OutcomeOf(c, repeated), c.claim, token) <=> token \in m
  <1>1. CASE ~Evaluated(c, repeated)
    <2>1. OutcomeOf(c, repeated) = Unknown({c.claim})
      BY <1>1 DEF OutcomeOf
    <2>2. c.claim \in Reason
      BY PolicyAssumption DEF Conditional
    <2>3. Unknown({c.claim}) \in StringSets
      <3>1. {c.claim} \in (SUBSET Reason) \ {{}}
        BY <2>2
      <3> QED
        BY <3>1 DEF StringSets
    <2>4. IsTop(Unknown({c.claim}))
      BY DEF IsTop, Unknown
    <2> QED
      BY <1>1, <2>1, <2>3, <2>4, SatisfiesExtremes
  <1>2. CASE Evaluated(c, repeated)
    <2>1. OutcomeOf(c, repeated) = ValueSet(c.values) /\ ~IsTop(ValueSet(c.values))
      BY <1>2 DEF OutcomeOf, Evaluated
    <2>2. ~IsUnknown(OutcomeOf(c, repeated))
      BY <2>1 DEF IsTop, IsUnknown
    <2>3. /\ ValueSet(c.values) \in StringSets
          /\ \A v : Contains(ValueSet(c.values), v) <=> Among(c.values, v)
      BY <2>1, ValueSetLemma DEF Conditional
    <2>4. c.operator \in ReadOperators /\ Documented(c)
      BY <1>2 DEF Evaluated, Documented, ReadOperators
    <2>5. \A token : Matches(c, token)
                        <=> c.claim \in DOMAIN token /\ Among(c.values, token[c.claim])
      BY <2>4 DEF Matches, ReadOperators
    <2>6. \A m \in Meanings(c) : m = { token \in Tokens : Matches(c, token) }
      BY <2>4 DEF Meanings
    <2> QED
      BY <1>2, <2>1, <2>2, <2>3, <2>5, <2>6 DEF Satisfies
  <1> QED
    BY <1>1, <1>2

(* A constraint met with the others on its claim is one more to satisfy. *)
LEMMA MeetClaimLemma ==
    ASSUME NEW term \in ClaimTerms, NEW c, c.claim \in Claim, NEW s \in StringSets
    PROVE  /\ MeetClaim(term, c, s) \in ClaimTerms
           /\ \A token : Failures(MeetClaim(term, c, s), token) = {}
                            <=> Failures(term, token) = {} /\ Satisfies(s, c.claim, token)
           /\ WhollyRead(term) /\ ~IsUnknown(s) => WhollyRead(MeetClaim(term, c, s))
  <1> DEFINE m == MeetClaim(term, c, s)
             k == c.claim
  <1>1. DOMAIN term \in SUBSET Claim /\ \A d \in DOMAIN term : term[d] \in StringSets
    BY TermIsFunction
  <1>2. /\ DOMAIN m = DOMAIN term \cup {k} /\ m = [d \in DOMAIN m |-> m[d]]
        /\ \A d \in DOMAIN term \ {k} : m[d] = term[d]
        /\ m[k] = IF k \in DOMAIN term THEN Meet(term[k], s) ELSE s
    BY DEF MeetClaim
  <1>3. /\ m[k] \in StringSets
        /\ \A token : Satisfies(m[k], k, token)
                <=> Satisfies(s, k, token) /\ (k \in DOMAIN term => Satisfies(term[k], k, token))
    <2>1. CASE k \in DOMAIN term
      <3>1. m[k] = Meet(term[k], s) /\ term[k] \in StringSets
        BY <1>1, <1>2, <2>1
      <3> HIDE DEF m
      <3> QED
        BY <2>1, <3>1, MeetIsIntersection, SatisfiesMeet
    <2>2. CASE k \notin DOMAIN term
      BY <1>2, <2>2
    <2> QED
      BY <2>1, <2>2
  <1>4. ASSUME WhollyRead(term), ~IsUnknown(s) PROVE ~IsUnknown(m[k])
    <2>1. CASE k \in DOMAIN term
      BY <1>1, <1>2, <1>4, <2>1, MeetIsRead DEF WhollyRead
    <2>2. CASE k \notin DOMAIN term
      BY <1>2, <1>4, <2>2
    <2> QED
      BY <2>1, <2>2
  <1> HIDE DEF m
  <1>5. WhollyRead(term) /\ ~IsUnknown(s) => WhollyRead(m)
    BY <1>2, <1>4 DEF WhollyRead
  <1>6. m \in ClaimTerms
    BY <1>1, <1>2, <1>3, TermIsFunction
  <1>7. ASSUME NEW token
        PROVE  Failures(m, token) = {} <=> Failures(term, token) = {} /\ Satisfies(s, k, token)
    <2>1. Failures(m, token) = {}
            <=> /\ \A d \in DOMAIN term \ {k} : Satisfies(term[d], d, token)
                /\ Satisfies(m[k], k, token)
      BY <1>2 DEF Failures
    <2>2. Failures(term, token) = {} <=> \A d \in DOMAIN term : Satisfies(term[d], d, token)
      BY DEF Failures
    <2> QED
      BY <1>3, <2>1, <2>2
  <1> QED
    BY <1>5, <1>6, <1>7 DEF m

-----------------------------------------------------------------------------
(***************************************************************************)
(* What the reader knows of a statement half read.  Until something widens *)
(* it, every token the statement really matches satisfies the term read so *)
(* far; and while nothing was widened, doubted or left with a caveat, the  *)
(* statement matches no other.  A constraint is Unknown only where a       *)
(* caveat was left.                                                        *)
(***************************************************************************)
StatementType ==
    [effect : {"Allow", "Deny", "Unknown"}, real : {"Allow", "Deny"}, issuer : Issuer,
     actions : ActionReadings, term : ClaimTerms, caveats : SUBSET Claim,
     widened : BOOLEAN, doubted : BOOLEAN, matches : SUBSET Tokens]

WellRead(s) ==
    /\ s \in StatementType /\ <<s.effect, s.real>> \in Effects
    /\ s.caveats = {} => WhollyRead(s.term)
    /\ s.actions = "unknown" => s.widened
    /\ ~s.widened => \A token \in s.matches : Failures(s.term, token) = {}
    /\ ~s.widened /\ ~s.doubted /\ s.caveats = {} =>
            \A token \in Tokens : Failures(s.term, token) = {} => token \in s.matches

(* A condition read adds a constraint every token of any of its meanings   *)
(* satisfies, and exactly those when it adds no caveat.                    *)
LEMMA ConstrainLemma ==
    ASSUME NEW s \in StatementType, NEW c, Conditional(c), NEW repeated \in BOOLEAN
    PROVE  LET r == Constrain(s, c, repeated)
           IN  /\ r \in StatementType
               /\ r.actions = s.actions /\ r.widened = s.widened /\ r.doubted = s.doubted
               /\ r.matches = s.matches /\ r.effect = s.effect /\ r.real = s.real
               /\ r.caveats = {} /\ WhollyRead(s.term) => WhollyRead(r.term)
               /\ s.caveats \subseteq r.caveats
               /\ r.caveats = {} => Evaluated(c, repeated)
               /\ \A token : Failures(r.term, token) = {}
                        <=> /\ Failures(s.term, token) = {}
                            /\ Satisfies(OutcomeOf(c, repeated), c.claim, token)
  <1> DEFINE t == MeetClaim(s.term, c, OutcomeOf(c, repeated))
             C == s.caveats \cup (IF Evaluated(c, repeated) THEN {} ELSE {c.claim})
             r == [s EXCEPT !.term = t, !.caveats = C]
  <1>1. Constrain(s, c, repeated) = r
    BY DEF Constrain
  <1>2. s.term \in ClaimTerms /\ s.caveats \in SUBSET Claim
    BY DEF StatementType
  <1>3. OutcomeOf(c, repeated) \in StringSets /\ c.claim \in Claim
    BY OutcomeLemma DEF Conditional
  <1>4. /\ t \in ClaimTerms
        /\ \A token : Failures(t, token) = {} <=> /\ Failures(s.term, token) = {}
                                                 /\ Satisfies(OutcomeOf(c, repeated), c.claim, token)
        /\ WhollyRead(s.term) /\ Evaluated(c, repeated) => WhollyRead(t)
    BY <1>2, <1>3, MeetClaimLemma, OutcomeLemma
  <1>5. C \in SUBSET Claim /\ s.caveats \subseteq C /\ (C = {} => Evaluated(c, repeated))
    BY <1>2, <1>3
  <1> HIDE DEF t, C
  <1>6. r \in StatementType /\ r.term = t /\ r.caveats = C
    BY <1>4, <1>5 DEF StatementType
  <1>7. /\ r.actions = s.actions /\ r.widened = s.widened /\ r.doubted = s.doubted
        /\ r.matches = s.matches /\ r.effect = s.effect /\ r.real = s.real
    BY DEF StatementType
  <1> QED
    BY <1>1, <1>4, <1>5, <1>6, <1>7

(* Narrowing what is deployed keeps the rest of the statement. *)
LEMMA NarrowLemma ==
    ASSUME NEW s \in StatementType, NEW m \in SUBSET Tokens
    PROVE  LET n == [s EXCEPT !.matches = @ \cap m]
           IN  /\ n \in StatementType /\ n.matches = s.matches \cap m
               /\ n.actions = s.actions /\ n.widened = s.widened /\ n.doubted = s.doubted
               /\ n.term = s.term /\ n.caveats = s.caveats
               /\ n.effect = s.effect /\ n.real = s.real
  BY DEF StatementType

(* The meanings of a condition are sets of tokens. *)
LEMMA MeaningsAreTokens ==
    ASSUME NEW c, NEW d
    PROVE  Meanings(c) \subseteq SUBSET Tokens /\ RepeatedMeanings(c, d) \subseteq SUBSET Tokens
  <1>1. Meanings(c) \subseteq SUBSET Tokens /\ Meanings(d) \subseteq SUBSET Tokens
    BY PolicyAssumption DEF Meanings
  <1> QED
    BY <1>1 DEF RepeatedMeanings

-----------------------------------------------------------------------------
(* The statement in hand, each step of the reader. *)
StatementInv == Reading => WellRead(statement)

(* A statement begun is well read: nothing narrows it yet. *)
LEMMA BeginKeeps ==
    ASSUME NEW effects \in Effects, NEW issuer \in Issuer, NEW actions \in ActionReadings,
           BeginStatement(effects, issuer, actions)
    PROVE  WellRead(statement')
  <1> DEFINE s == [effect |-> effects[1], real |-> effects[2], issuer |-> issuer,
                   actions |-> actions, term |-> EmptyTerm, caveats |-> {},
                   widened |-> actions = "unknown", doubted |-> FALSE, matches |-> Tokens]
  <1>1. statement' = s
    BY DEF BeginStatement
  <1>2. EmptyTerm \in ClaimTerms /\ \A token : Failures(EmptyTerm, token) = {}
    BY EmptyTermLemma
  <1>3. effects[1] \in {"Allow", "Deny", "Unknown"} /\ effects[2] \in {"Allow", "Deny"}
    BY DEF Effects
  <1>4. (actions = "unknown") \in BOOLEAN
    OBVIOUS
  <1>5. s \in StatementType
    BY <1>2, <1>3, <1>4 DEF StatementType
  <1>6. <<effects[1], effects[2]>> \in Effects
    BY DEF Effects
  <1>7. WhollyRead(EmptyTerm)
    BY EmptyTermLemma DEF WhollyRead
  <1> QED
    BY <1>1, <1>2, <1>5, <1>6, <1>7 DEF WellRead

(* Whatever is written about an issuer is a condition of the constants. *)
LEMMA WritableIsConditional ==
    ASSUME Reading, statement \in StatementType, NEW c \in Writable
    PROVE  Conditional(c)
  <1>1. statement.issuer \in Issuer
    BY DEF StatementType
  <1>2. c \in UNION { Condition[i] : i \in Issuer }
    BY <1>1 DEF Writable
  <1> QED
    BY <1>2, PolicyAssumption DEF Conditional

(* parseConditions: a condition narrows what was read no further than AWS. *)
LEMMA ReadConditionKeeps ==
    ASSUME Reading, WellRead(statement), NEW c \in Writable, ReadCondition(c)
    PROVE  WellRead(statement')
  <1> DEFINE s == statement
             r == Constrain(s, c, FALSE)
  <1>1. s \in StatementType /\ Conditional(c)
    BY WritableIsConditional DEF WellRead
  <1>2. PICK m \in Meanings(c) : statement' = [r EXCEPT !.matches = @ \cap m]
    BY DEF ReadCondition
  <1>3. m \in SUBSET Tokens
    BY MeaningsAreTokens
  <1>4. /\ r \in StatementType /\ r.actions = s.actions /\ r.widened = s.widened
        /\ r.doubted = s.doubted /\ r.matches = s.matches /\ s.caveats \subseteq r.caveats
        /\ r.effect = s.effect /\ r.real = s.real
        /\ r.caveats = {} /\ WhollyRead(s.term) => WhollyRead(r.term)
        /\ r.caveats = {} => Evaluated(c, FALSE)
        /\ \A token : Failures(r.term, token) = {}
                <=> Failures(s.term, token) = {} /\ Satisfies(OutcomeOf(c, FALSE), c.claim, token)
    BY <1>1, ConstrainLemma
  <1> HIDE DEF r
  <1>5. /\ statement' \in StatementType /\ statement'.matches = r.matches \cap m
        /\ statement'.actions = r.actions /\ statement'.widened = r.widened
        /\ statement'.doubted = r.doubted
        /\ statement'.term = r.term /\ statement'.caveats = r.caveats
        /\ statement'.effect = r.effect /\ statement'.real = r.real
    BY <1>2, <1>3, <1>4, NarrowLemma
  <1>6. \A token \in m : Satisfies(OutcomeOf(c, FALSE), c.claim, token)
    BY <1>1, <1>3, OutcomeLemma
  <1>7. Evaluated(c, FALSE) => \A token \in Tokens :
            Satisfies(OutcomeOf(c, FALSE), c.claim, token) => token \in m
    BY <1>1, OutcomeLemma
  <1> QED
    BY <1>4, <1>5, <1>6, <1>7 DEF WellRead

(* Every copy of a repeated condition is Unknown, so that whichever is     *)
(* deployed, or both, satisfies what was read; and a caveat says so.       *)
LEMMA ReadRepeatedKeeps ==
    ASSUME Reading, WellRead(statement), NEW c \in Writable, NEW d \in Writable,
           ReadRepeated(c, d)
    PROVE  WellRead(statement')
  <1> DEFINE s == statement
             q == Constrain(s, c, TRUE)
             r == Constrain(q, d, TRUE)
  <1>1. s \in StatementType /\ Conditional(c) /\ Conditional(d)
    BY WritableIsConditional DEF WellRead
  <1>2. PICK m \in RepeatedMeanings(c, d) : statement' = [r EXCEPT !.matches = @ \cap m]
    BY DEF ReadRepeated
  <1>3. m \in SUBSET Tokens
    BY MeaningsAreTokens
  <1>4. ~Evaluated(c, TRUE) /\ ~Evaluated(d, TRUE)
    BY DEF Evaluated
  <1>5. \A token : /\ Satisfies(OutcomeOf(c, TRUE), c.claim, token)
                   /\ Satisfies(OutcomeOf(d, TRUE), d.claim, token)
    BY <1>1, <1>4, OutcomeLemma
  <1>6. /\ q \in StatementType /\ q.actions = s.actions /\ q.widened = s.widened
        /\ q.doubted = s.doubted /\ q.matches = s.matches
        /\ q.effect = s.effect /\ q.real = s.real
        /\ \A token : Failures(q.term, token) = {}
                <=> Failures(s.term, token) = {} /\ Satisfies(OutcomeOf(c, TRUE), c.claim, token)
    BY <1>1, ConstrainLemma
  <1> HIDE DEF q
  <1>7. /\ r \in StatementType /\ r.actions = q.actions /\ r.widened = q.widened
        /\ r.doubted = q.doubted /\ r.matches = q.matches
        /\ r.effect = q.effect /\ r.real = q.real
        /\ r.caveats = {} => Evaluated(d, TRUE)
        /\ \A token : Failures(r.term, token) = {}
                <=> Failures(q.term, token) = {} /\ Satisfies(OutcomeOf(d, TRUE), d.claim, token)
    BY <1>1, <1>6, ConstrainLemma
  <1> HIDE DEF r
  <1>8. /\ statement' \in StatementType /\ statement'.matches = r.matches \cap m
        /\ statement'.actions = r.actions /\ statement'.widened = r.widened
        /\ statement'.term = r.term /\ statement'.caveats = r.caveats
        /\ statement'.effect = r.effect /\ statement'.real = r.real
    BY <1>2, <1>3, <1>7, NarrowLemma
  <1> QED
    BY <1>4, <1>5, <1>6, <1>7, <1>8 DEF WellRead

(* widen: nothing is claimed of the tokens of a widened statement. *)
LEMMA WidenKeeps ==
    ASSUME Reading, WellRead(statement), Widen
    PROVE  WellRead(statement')
  <1>1. PICK m \in Hidden : statement' = [statement EXCEPT !.widened = TRUE, !.matches = m]
    BY DEF Widen
  <1>2. m \in SUBSET Tokens
    BY PolicyAssumption
  <1>3. /\ statement' \in StatementType /\ statement'.widened = TRUE
        /\ statement'.effect = statement.effect /\ statement'.real = statement.real
        /\ statement'.term = statement.term /\ statement'.caveats = statement.caveats
    BY <1>1, <1>2 DEF WellRead, StatementType
  <1> QED
    BY <1>3 DEF WellRead

(* doubt: what is deployed may be less than what was read. *)
LEMMA DoubtKeeps ==
    ASSUME Reading, WellRead(statement), Doubt
    PROVE  WellRead(statement')
  <1> DEFINE s == statement
  <1>1. PICK m \in Hidden : statement' = [s EXCEPT !.doubted = TRUE, !.matches = @ \cap m]
    BY DEF Doubt
  <1>2. m \in SUBSET Tokens
    BY PolicyAssumption
  <1>3. /\ statement' \in StatementType /\ statement'.doubted = TRUE
        /\ statement'.matches = s.matches \cap m
        /\ statement'.actions = s.actions /\ statement'.widened = s.widened
        /\ statement'.term = s.term /\ statement'.caveats = s.caveats
        /\ statement'.effect = s.effect /\ statement'.real = s.real
    BY <1>1, <1>2 DEF WellRead, StatementType
  <1> QED
    BY <1>3 DEF WellRead

-----------------------------------------------------------------------------
(* The caveats of this reader: on a claim, on the whole statement, or of a *)
(* set that overflowed.                                                    *)
ReaderCaveats ==
    { [recorded |-> c] : c \in Claim \cup {"statement"} } \cup { Overflow(op) : op \in Operations }

(* What a set with more caveats keeps. *)
LEMMA WithCaveatsLemma ==
    ASSUME NEW a, NEW C
    PROVE  /\ WithCaveats(a, C).terms = a.terms
           /\ \A token : Admits(WithCaveats(a, C), token) <=> Admits(a, token)
           /\ IsExact(WithCaveats(a, C)) <=> IsExact(a) /\ C = {}
           /\ Canonical(a) => Canonical(WithCaveats(a, C))
           /\ C \subseteq Claim \cup {"statement"} /\ a.caveats \subseteq ReaderCaveats =>
                WithCaveats(a, C).caveats \subseteq ReaderCaveats
  <1>1. /\ WithCaveats(a, C).terms = a.terms
        /\ WithCaveats(a, C).caveats = a.caveats \cup { [recorded |-> c] : c \in C }
    BY DEF WithCaveats, Set
  <1> QED
    BY <1>1 DEF Admits, IsExact, Canonical, Reduced, ReaderCaveats

(* A set made of one term has one term at most, written as terms are. *)
LEMMA OneTerm ==
    ASSUME NEW term \in ClaimTerms
    PROVE  LET n == NewAdmittedSet({term})
           IN  /\ Canonical(n) /\ n.caveats \subseteq ReaderCaveats
               /\ \A t, u \in n.terms : t = u
               /\ \A token : Failures(term, token) = {} => Admits(n, token)
               /\ IsExact(n) => \A token : Admits(n, token) => Failures(term, token) = {}
               /\ WhollyRead(term) => \A t \in n.terms : WhollyRead(t)
  <1> DEFINE n == NewAdmittedSet({term})
  <1>1. Normalises(n, {term}, {}, "NewAdmittedSet")
    BY NormaliseLemma DEF NewAdmittedSet
  <1>2. \A token : SomeTermAdmits({term}, token) <=> Failures(term, token) = {}
    BY DEF SomeTermAdmits
  <1>3. \A t, u \in Live({term}) : t = u
    BY DEF Live
  <1>4. n.terms \in {{EmptyTerm}, Live({term})}
    BY DEF NewAdmittedSet, Normalise, Set
  <1>5. Canonical(n) /\ n.caveats \subseteq ReaderCaveats
    BY <1>1 DEF Normalises, ReaderCaveats, Operations
  <1> HIDE DEF n
  <1>6. \A t, u \in n.terms : t = u
    BY <1>3, <1>4
  <1>7. ASSUME WhollyRead(term), NEW t \in n.terms
        PROVE  WhollyRead(t)
    <2>1. CASE t = EmptyTerm
      BY <2>1, EmptyTermLemma DEF WhollyRead
    <2>2. CASE t \in Live({term})
      <3>1. t = NormaliseTerm(term)
        BY <2>2 DEF Live
      <3> QED
        BY <1>7, <3>1 DEF WhollyRead, NormaliseTerm
    <2> QED
      BY <1>4, <2>1, <2>2
  <1> QED
    BY <1>1, <1>2, <1>5, <1>6, <1>7 DEF Normalises, n

(* Before a Deny is set aside the set is an upper bound of the statement,  *)
(* and the statement itself where it has no caveat.                        *)
LEMMA UncertainLemma ==
    ASSUME NEW s, WellRead(s)
    PROVE  LET a == Uncertain(s)
           IN  /\ Canonical(a) /\ a.caveats \subseteq ReaderCaveats
               /\ \A t, u \in a.terms : t = u
               /\ s.matches \subseteq Admitted(a)
               /\ IsExact(a) => /\ Admitted(a) = s.matches
                                /\ s.actions \notin {"fold", "unknown"}
                                /\ \A t \in a.terms : WhollyRead(t)
  <1> DEFINE a == Uncertain(s)
             D == IF s.widened \/ s.doubted \/ s.actions = "fold" THEN {"statement"} ELSE {}
             b == IF s.widened THEN WithCaveats(Everything, s.caveats) ELSE Conditions(s)
  <1>1. a = WithCaveats(b, D)
    BY DEF Uncertain
  <1>2. s.term \in ClaimTerms /\ s.matches \subseteq Tokens /\ s.caveats \subseteq Claim
    BY DEF WellRead, StatementType
  <1>3. CASE s.widened
    <2>1. b = WithCaveats(Everything, s.caveats) /\ D # {}
      BY <1>3
    <2>2. Everything.terms = {EmptyTerm} /\ Everything.caveats = {}
      BY DEF Everything, Set
    <2>3. Canonical(Everything) /\ \A token : Admits(Everything, token)
      BY <2>2, EmptyTermLemma DEF Canonical, Reduced, Admits
    <2>4. /\ a.terms = {EmptyTerm} /\ (\A token : Admits(a, token)) /\ ~IsExact(a)
          /\ Canonical(a) /\ a.caveats \subseteq ReaderCaveats
      BY <1>1, <1>2, <2>1, <2>2, <2>3, WithCaveatsLemma
    <2> QED
      BY <1>2, <2>4 DEF Admitted
  <1>4. CASE ~s.widened
    <2> DEFINE n == NewAdmittedSet({s.term})
    <2>1. b = WithCaveats(n, s.caveats)
      BY <1>4 DEF Conditions
    <2>2. /\ Canonical(n) /\ n.caveats \subseteq ReaderCaveats
          /\ \A t, u \in n.terms : t = u
          /\ \A token : Failures(s.term, token) = {} => Admits(n, token)
          /\ IsExact(n) => \A token : Admits(n, token) => Failures(s.term, token) = {}
          /\ WhollyRead(s.term) => \A t \in n.terms : WhollyRead(t)
      BY <1>2, OneTerm
    <2> HIDE DEF n
    <2>3. /\ a.terms = n.terms /\ \A token : Admits(a, token) <=> Admits(n, token)
          /\ IsExact(a) => IsExact(n) /\ s.caveats = {} /\ D = {}
          /\ Canonical(a) /\ a.caveats \subseteq ReaderCaveats
      BY <1>1, <1>2, <2>1, <2>2, WithCaveatsLemma
    <2> HIDE DEF a
    <2>4. s.matches \subseteq Admitted(a)
      BY <1>2, <1>4, <2>2, <2>3 DEF WellRead, Admitted
    <2>5. ASSUME IsExact(a)
          PROVE  /\ Admitted(a) \subseteq s.matches /\ s.actions \notin {"fold", "unknown"}
                 /\ \A t \in a.terms : WhollyRead(t)
      <3>1. ~s.doubted /\ s.caveats = {} /\ s.actions # "fold"
        BY <2>3, <2>5
      <3>2. s.actions # "unknown"
        BY <1>4 DEF WellRead
      <3>3. \A token \in Tokens : Admits(a, token) => token \in s.matches
        BY <1>4, <2>2, <2>3, <2>5, <3>1 DEF WellRead
      <3>4. \A t \in a.terms : WhollyRead(t)
        BY <2>2, <2>3, <3>1 DEF WellRead
      <3> QED
        BY <3>1, <3>2, <3>3, <3>4 DEF Admitted
    <2> QED
      BY <2>2, <2>3, <2>4, <2>5 DEF a
  <1> QED
    BY <1>3, <1>4

(***************************************************************************)
(* A grant as it is handed out: of a known issuer, canonical and of one    *)
(* term at most, with caveats of this reader, wholly read where it has     *)
(* none, and honest about what is deployed (ReaderPromise!Honest, here in  *)
(* the reader's own operators).                                            *)
(***************************************************************************)
HonestGrant(g) ==
    /\ g.effect # "Deny" => g.matches \subseteq Admitted(g.admits)
    /\ g.effect = "Deny" => Admitted(g.admits) \subseteq g.matches
    /\ IsExact(g.admits) => Admitted(g.admits) = g.matches

GoodGrant(g) ==
    /\ DOMAIN g = {"effect", "issuer", "admits", "real", "matches"}
    /\ g.issuer \in Issuer /\ g.effect \in {"Allow", "Deny", "Unknown"}
    /\ <<g.effect, g.real>> \in Effects
    /\ g.matches \subseteq Tokens
    /\ Canonical(g.admits) /\ g.admits.caveats \subseteq ReaderCaveats
    /\ \A t, u \in g.admits.terms : t = u
    /\ IsExact(g.admits) => \A t \in g.admits.terms : WhollyRead(t)
    /\ HonestGrant(g)

(* Whichever way the actions left the statement, its grant is good: an     *)
(* Allow lets in all it matches, a Deny not fully read takes out nothing.  *)
LEMMA GrantLemma ==
    ASSUME NEW s, WellRead(s), NEW m \in Applies(s)
    PROVE  GoodGrant(Grant(s, m))
  <1> DEFINE g == Grant(s, m)
             u == Uncertain(s)
  <1>1. /\ g.effect = s.effect /\ g.issuer = s.issuer /\ g.admits = AdmitsOf(s) /\ g.matches = m
        /\ g.real = s.real
        /\ DOMAIN g = {"effect", "issuer", "admits", "real", "matches"}
    BY DEF Grant
  <1>2. /\ s.issuer \in Issuer /\ s.effect \in {"Allow", "Deny", "Unknown"}
        /\ s.matches \subseteq Tokens /\ s.actions \in ActionReadings
        /\ <<s.effect, s.real>> \in Effects
    BY DEF WellRead, StatementType
  <1>3. /\ m \subseteq s.matches
        /\ s.actions = "miss" => m = {}
        /\ s.actions = "cover" => m = s.matches
    BY <1>2 DEF Applies, ActionReadings
  <1>4. /\ Canonical(u) /\ u.caveats \subseteq ReaderCaveats /\ (\A t, v \in u.terms : t = v)
        /\ s.matches \subseteq Admitted(u)
        /\ IsExact(u) => /\ Admitted(u) = s.matches /\ s.actions \notin {"fold", "unknown"}
                         /\ \A t \in u.terms : WhollyRead(t)
    BY UncertainLemma
  <1>5. AdmitsOf(s) = IF s.actions = "miss" THEN Nothing
                      ELSE IF s.effect = "Deny" /\ ~IsExact(u)
                      THEN Set({}, u.caveats \cup {[recorded |-> "statement"]})
                      ELSE u
    BY DEF AdmitsOf
  <1> HIDE DEF u
  <1>6. \A C : /\ Admitted(Set({}, C)) = {} /\ Set({}, C).terms = {} /\ Set({}, C).caveats = C
               /\ Canonical(Set({}, C))
    BY DEF Admitted, Admits, Set, Canonical, Reduced
  <1>7. CASE s.actions = "miss"
    <2>1. AdmitsOf(s) = Set({}, {})
      BY <1>7 DEF AdmitsOf, Nothing
    <2> QED
      BY <1>1, <1>2, <1>3, <1>6, <1>7, <2>1 DEF GoodGrant, HonestGrant
  <1>8. CASE s.actions # "miss" /\ s.effect = "Deny" /\ ~IsExact(u)
    <2>1. AdmitsOf(s) = Set({}, u.caveats \cup {[recorded |-> "statement"]})
      BY <1>5, <1>8
    <2>2. AdmitsOf(s).caveats = u.caveats \cup {[recorded |-> "statement"]}
      BY <1>6, <2>1
    <2>3. ~IsExact(AdmitsOf(s)) /\ AdmitsOf(s).caveats \subseteq ReaderCaveats
      BY <1>4, <2>2 DEF IsExact, ReaderCaveats
    <2> QED
      BY <1>1, <1>2, <1>3, <1>6, <1>8, <2>1, <2>3 DEF GoodGrant, HonestGrant
  <1>9. CASE s.actions # "miss" /\ ~(s.effect = "Deny" /\ ~IsExact(u))
    <2>1. AdmitsOf(s) = u
      BY <1>5, <1>9
    <2>2. IsExact(u) => s.actions = "cover"
      BY <1>2, <1>4, <1>9 DEF ActionReadings
    <2> QED
      BY <1>1, <1>2, <1>3, <1>4, <1>9, <2>1, <2>2 DEF GoodGrant, HonestGrant
  <1> QED
    BY <1>7, <1>8, <1>9

(* The promise's operators are the reader's. *)
LEMMA PromiseIsRead == ASSUME NEW g PROVE Promise!Honest(g) <=> HonestGrant(g)
  <1>1. \A t, v : Promise!TermContains(t, v) <=> TermContains(t, v)
    BY DEF Promise!TermContains, TermContains
  <1>2. \A s, v : Promise!Contains(s, v) <=> Contains(s, v)
    BY <1>1 DEF Promise!Contains, Contains
  <1>3. \A s, c, token : Promise!Satisfies(s, c, token) <=> Satisfies(s, c, token)
    BY <1>2 DEF Promise!Satisfies, Satisfies, Promise!IsTop, IsTop
  <1>4. \A a, token : Promise!Admits(a, token) <=> Admits(a, token)
    BY <1>3 DEF Promise!Admits, Admits, Promise!Failures, Failures
  <1>5. \A a : Promise!Admitted(a) = Admitted(a)
    BY <1>4 DEF Promise!Admitted, Admitted, Promise!Tokens, Tokens
  <1> QED
    BY <1>5 DEF Promise!Honest, HonestGrant, Promise!IsExact, IsExact

-----------------------------------------------------------------------------
(* What the reader has in hand and has handed out. *)
ReaderInv == StatementInv /\ \A g \in grants : GoodGrant(g)

(* A step keeps the invariant, and hands out honest grants or none. *)
LEMMA ReaderStep ==
    ReaderInv /\ [Next]_vars => ReaderInv' /\ [Promise!HandOut]_grants
  <1> SUFFICES ASSUME ReaderInv, [Next]_vars
               PROVE  ReaderInv' /\ [Promise!HandOut]_grants
    OBVIOUS
  <1>1. ASSUME UNCHANGED grants, WellRead(statement')
        PROVE  ReaderInv' /\ [Promise!HandOut]_grants
    BY <1>1 DEF ReaderInv, StatementInv
  <1>2. ASSUME NEW effects \in Effects, NEW issuer \in Issuer, NEW actions \in ActionReadings,
               BeginStatement(effects, issuer, actions)
        PROVE  ReaderInv' /\ [Promise!HandOut]_grants
    BY <1>1, <1>2, BeginKeeps DEF BeginStatement
  <1>3. ASSUME NEW c \in Writable, ReadCondition(c)
        PROVE  ReaderInv' /\ [Promise!HandOut]_grants
    BY <1>1, <1>3, ReadConditionKeeps DEF ReadCondition, OneMore, ReaderInv, StatementInv
  <1>4. ASSUME NEW c \in Writable, NEW d \in Writable, ReadRepeated(c, d)
        PROVE  ReaderInv' /\ [Promise!HandOut]_grants
    BY <1>1, <1>4, ReadRepeatedKeeps DEF ReadRepeated, OneMore, ReaderInv, StatementInv
  <1>5. CASE Widen
    BY <1>1, <1>5, WidenKeeps DEF Widen, OneMore, ReaderInv, StatementInv
  <1>6. CASE Doubt
    BY <1>1, <1>6, DoubtKeeps DEF Doubt, OneMore, ReaderInv, StatementInv
  <1>7. CASE EndStatement
    <2>1. WellRead(statement) /\ ~Reading'
      BY <1>7 DEF EndStatement, ReaderInv, StatementInv, Reading
    <2>2. PICK m \in Applies(statement) : grants' = grants \cup {Grant(statement, m)}
      BY <1>7 DEF EndStatement
    <2>3. GoodGrant(Grant(statement, m))
      BY <2>1, GrantLemma
    <2>4. ReaderInv'
      BY <2>1, <2>2, <2>3 DEF ReaderInv, StatementInv
    <2>5. Promise!HandOut
      BY <2>2, <2>3, PromiseIsRead DEF Promise!HandOut, GoodGrant
    <2> QED
      BY <2>4, <2>5
  <1>8. CASE UNCHANGED vars
    BY <1>8 DEF vars, ReaderInv, StatementInv, Reading
  <1> QED
    BY <1>2, <1>3, <1>4, <1>5, <1>6, <1>7, <1>8 DEF Next

(* Nothing is in hand at the start. *)
LEMMA ReaderStart == Init => ReaderInv /\ Promise!Init
  BY DEF Init, ReaderInv, StatementInv, Reading, Promise!Init

(* The invariant of the reader, which what is built on its grants uses. *)
LEMMA ReaderInvariant == Spec => []ReaderInv
  BY ReaderStart, ReaderStep, PTL DEF Spec

(***************************************************************************)
(* The reader of trust policies (internal/parse/aws) implements the        *)
(* promise of every reader: whatever a document holds that it cannot read, *)
(* repeats, doubts or folds, each grant it hands out is honest about the   *)
(* statement that is deployed.                                             *)
(***************************************************************************)
THEOREM ReaderKeepsThePromise == Spec => KeepsThePromise
  BY ReaderStart, ReaderStep, PTL DEF Spec, KeepsThePromise, Promise!Spec

-----------------------------------------------------------------------------
(* 2. The explain view.                                                    *)

(***************************************************************************)
(* The answers of the explain view are true, for any claims, values,       *)
(* patterns and issuers, any table of keys and any folding of issuers, and *)
(* for any policy the reader has read: from the reader's invariant, which  *)
(* says of each grant how far it is the statement deployed, and from what  *)
(* the code's three-valued comparison of a payload with a key says of      *)
(* every token AWS may take the payload for.                               *)
(***************************************************************************)
(* What AWS reads for a key of a token: its value, or none. *)
ReadingOf(token, k) == IF k \in DOMAIN token THEN {token[k]} ELSE {}

(* A reading meets a set exactly when the token satisfies it. *)
LEMMA AgainstValueLemma ==
    ASSUME NEW s, NEW k, NEW token
    PROVE  /\ AgainstValue(ReadingOf(token, k), s) \in {"meets", "misses"}
           /\ AgainstValue(ReadingOf(token, k), s) = "meets" <=> Satisfies(s, k, token)
  <1>1. CASE k \in DOMAIN token
    BY <1>1 DEF ReadingOf, AgainstValue, Satisfies
  <1>2. CASE k \notin DOMAIN token
    BY <1>2 DEF ReadingOf, AgainstValue, Satisfies
  <1> QED
    BY <1>1, <1>2

(* A claim's value that is not open is the one value AWS may read there. *)
LEMMA ClaimOfLemma ==
    ASSUME NEW payload, NEW claim
    PROVE  /\ ClaimOf(payload, claim).instead = {}
           /\ ClaimOf(payload, claim).open \in BOOLEAN
           /\ ~ClaimOf(payload, claim).open =>
                Carried(payload, claim) = {ClaimOf(payload, claim).value}
           /\ ClaimOf(payload, claim).value = {} <=> claim \notin DOMAIN payload
           /\ \A v : ClaimOf(payload, claim).value = {v} <=>
                claim \in DOMAIN payload /\ payload[claim] = v
  BY DEF ClaimOf, Carried

(* keyRead.against: a reading that is not open is met or missed. *)
LEMMA AgainstForms ==
    ASSUME NEW r, NEW s, r.instead = {}
    PROVE  /\ Against(r, s) = AgainstOne(r, s)
           /\ AgainstOne(r, s) \in {"open", "meets", "misses"}
           /\ AgainstOne(r, s) # "open" <=> ~r.open
           /\ ~r.open => AgainstOne(r, s) = AgainstValue(r.value, s)
  BY DEF Against, AgainstOne, AgainstValue

(***************************************************************************)
(* readKey and against: the code's answer for a key, when it gives one, is *)
(* the answer for every value AWS may read there; and it gives one         *)
(* whenever AWS may read only one.                                         *)
(***************************************************************************)
LEMMA AgainstLemma ==
    ASSUME NEW payload \in Payloads, NEW k \in Claim, NEW s
    PROVE  LET v == Against(ReadKey(payload, k), s)
           IN  /\ v \in {"open", "meets", "misses"}
               /\ v # "open" => \A x \in Readings(payload, k) : AgainstValue(x, s) = v
               /\ (\E x \in Readings(payload, k) : Readings(payload, k) = {x}) => v # "open"
  <1> DEFINE claim    == KeyClaim[k].claim
             fallback == KeyClaim[k].fallback
             first    == ClaimOf(payload, claim)
             second   == ClaimOf(payload, fallback)
  <1>1. CASE claim = NoClaim
    <2>1. ReadKey(payload, k) = Unnamed
      BY <1>1 DEF ReadKey
    <2>2. Against(ReadKey(payload, k), s) = "open"
      BY <2>1 DEF Unnamed, Against, AgainstOne
    <2>3. {} \in Readings(payload, k) /\ {EmptyText} \in Readings(payload, k)
      BY <1>1, ExplainAssumption DEF Readings
    <2> QED
      BY <2>2, <2>3
  <1>2. ASSUME NEW c, ReadKey(payload, k) = ClaimOf(payload, c),
               Readings(payload, k) = Carried(payload, c)
        PROVE  LET v == Against(ReadKey(payload, k), s)
               IN  /\ v \in {"open", "meets", "misses"}
                   /\ v # "open" => \A x \in Readings(payload, k) : AgainstValue(x, s) = v
                   /\ (\E x \in Readings(payload, k) : Readings(payload, k) = {x}) => v # "open"
    <2> DEFINE r == ClaimOf(payload, c)
    <2>1. /\ r.instead = {} /\ r.open \in BOOLEAN
          /\ ~r.open => Carried(payload, c) = {r.value}
      BY ClaimOfLemma
    <2>2. r.open => {} \in Carried(payload, c) /\ {EmptyText} \in Carried(payload, c)
      BY ExplainAssumption DEF ClaimOf, Carried
    <2> HIDE DEF r
    <2>3. /\ Against(r, s) = AgainstOne(r, s) /\ AgainstOne(r, s) \in {"open", "meets", "misses"}
          /\ AgainstOne(r, s) # "open" <=> ~r.open
          /\ ~r.open => AgainstOne(r, s) = AgainstValue(r.value, s)
      BY <2>1, AgainstForms
    <2> QED
      BY <1>2, <2>1, <2>2, <2>3 DEF r
  <1>3. CASE claim # NoClaim /\ fallback = NoClaim
    <2>1. ReadKey(payload, k) = first /\ Readings(payload, k) = Carried(payload, claim)
      BY <1>3 DEF ReadKey, Readings
    <2> QED
      BY <1>2, <2>1
  <1>4. CASE claim # NoClaim /\ fallback # NoClaim /\ claim \notin DOMAIN payload
    <2>1. ReadKey(payload, k) = second
      BY <1>4, ClaimOfLemma DEF ReadKey
    <2>2. MaySet(payload, claim) = {FALSE}
      BY <1>4 DEF MaySet
    <2>3. Readings(payload, k) = Carried(payload, fallback)
      BY <1>4, <2>2 DEF Readings
    <2> QED
      BY <1>2, <2>1, <2>3
  <1>5. CASE claim # NoClaim /\ fallback # NoClaim /\ claim \in DOMAIN payload
              /\ payload[claim] # EmptyText
    <2>1. ReadKey(payload, k) = first
      BY <1>5, ClaimOfLemma DEF ReadKey
    <2>2. MaySet(payload, claim) = {TRUE}
      BY <1>5 DEF MaySet
    <2>3. Readings(payload, k) = Carried(payload, claim)
      BY <1>5, <2>2 DEF Readings
    <2> QED
      BY <1>2, <2>1, <2>3
  <1>6. CASE claim # NoClaim /\ fallback # NoClaim /\ claim \in DOMAIN payload
              /\ payload[claim] = EmptyText
    <2> DEFINE r == [first EXCEPT !.instead = {second}]
    <2>1. ReadKey(payload, k) = r
      BY <1>6, ClaimOfLemma DEF ReadKey
    <2>2. ~first.open /\ first.value = {EmptyText}
      BY <1>6, ExplainAssumption DEF ClaimOf
    <2>3. r.open = FALSE /\ r.value = {EmptyText} /\ r.instead = {second}
      BY <2>2 DEF ClaimOf
    <2>4. Readings(payload, k) = Carried(payload, claim) \cup Carried(payload, fallback)
      <3>1. MaySet(payload, claim) = BOOLEAN
        BY <1>6 DEF MaySet
      <3> QED
        BY <1>6, <3>1 DEF Readings
    <2>5. Carried(payload, claim) = {{EmptyText}}
      BY <2>2, ClaimOfLemma
    <2>6. /\ second.instead = {} /\ second.open \in BOOLEAN
          /\ ~second.open => Carried(payload, fallback) = {second.value}
      BY ClaimOfLemma
    <2>7. second.open => {} \in Carried(payload, fallback)
      BY DEF ClaimOf, Carried
    <2> HIDE DEF r, first, second
    <2>8. /\ AgainstOne(r, s) = AgainstValue({EmptyText}, s)
          /\ AgainstOne(r, s) \in {"meets", "misses"}
          /\ Against(r, s) = IF AgainstOne(second, s) # AgainstOne(r, s) THEN "open"
                             ELSE AgainstOne(r, s)
      BY <2>3 DEF AgainstOne, Against, AgainstValue
    <2>9. /\ second.open => AgainstOne(second, s) = "open"
          /\ ~second.open => AgainstOne(second, s) = AgainstValue(second.value, s)
      BY DEF AgainstOne
    <2>10. CASE second.open
      BY <2>1, <2>4, <2>5, <2>7, <2>8, <2>9, <2>10
    <2>11. CASE ~second.open
      BY <2>1, <2>4, <2>5, <2>6, <2>8, <2>9, <2>11
    <2> QED
      BY <2>10, <2>11
  <1> QED
    BY <1>1, <1>3, <1>4, <1>5, <1>6

(* Of every token AWS may take the payload for: a key met is satisfied,    *)
(* and a key missed is not.                                                *)
LEMMA TokenLemma ==
    ASSUME NEW payload \in Payloads, NEW token \in TokensOf(payload), NEW k \in Claim, NEW s
    PROVE  LET v == Against(ReadKey(payload, k), s)
           IN  /\ v \in {"open", "meets", "misses"}
               /\ v = "meets" => Satisfies(s, k, token)
               /\ v = "misses" => ~Satisfies(s, k, token)
  <1>1. ReadingOf(token, k) \in Readings(payload, k)
    BY DEF TokensOf, ReadingOf
  <1> QED
    BY <1>1, AgainstLemma, AgainstValueLemma

-----------------------------------------------------------------------------
(* closest: the term of a grant that has one. *)
LEMMA ClosestLemma ==
    ASSUME NEW g, GoodGrant(g), g.admits.terms # {}
    PROVE  /\ Closest(g) \in g.admits.terms /\ g.admits.terms = {Closest(g)}
           /\ DOMAIN Closest(g) \subseteq Claim
           /\ \A token \in Tokens : token \in Admitted(g.admits) <=> Failures(Closest(g), token) = {}
           /\ IsExact(g.admits) => WhollyRead(Closest(g))
  <1>1. Closest(g) \in g.admits.terms
    BY DEF Closest, AdmitsNobody
  <1>2. g.admits.terms = {Closest(g)}
    BY <1>1 DEF GoodGrant
  <1>3. DOMAIN Closest(g) \subseteq Claim
    BY <1>1, TermIsFunction DEF GoodGrant, Canonical
  <1> QED
    BY <1>1, <1>2, <1>3 DEF GoodGrant, Admitted, Admits

(* A grant that holds for the payload, with every row settled, admits      *)
(* every token the payload may be, for the issuer the grant names.         *)
LEMMA AnsweredOutcome ==
    ASSUME NEW g, GoodGrant(g), NEW payload \in Payloads, NEW issuer,
           NEW token \in TokensOf(payload),
           OutcomeAdmitted(g, payload, issuer),
           g.effect = "Deny" \/ ~Unsettled(g, payload, issuer)
    PROVE  g.issuer = issuer /\ token \in Admitted(g.admits)
  <1> DEFINE t == Closest(g)
  <1>1. /\ DOMAIN t \subseteq Claim
        /\ \A u \in Tokens : u \in Admitted(g.admits) <=> Failures(t, u) = {}
    BY ClosestLemma DEF OutcomeAdmitted, AdmitsNobody
  <1>2. token \in Tokens
    BY DEF TokensOf
  <1>3. g.issuer = issuer
    BY DEF OutcomeAdmitted, Unsettled, IssuerRow
  <1>4. ASSUME NEW k \in DOMAIN t PROVE Satisfies(t[k], k, token)
    <2> DEFINE v == Against(ReadKey(payload, k), t[k])
    <2>1. v \in {"open", "meets", "misses"} /\ (v = "meets" => Satisfies(t[k], k, token))
      BY <1>1, TokenLemma
    <2>2. k \notin Failed(t, payload, g.effect = "Deny")
      BY DEF OutcomeAdmitted
    <2>3. v # "misses" /\ ~(v = "open" /\ g.effect = "Deny")
      BY <2>2 DEF Failed
    <2>4. CASE v = "open" /\ ~IsUnknown(t[k])
      <3>1. ClaimRow(g, k, payload) = "not evaluated"
        BY <2>4 DEF ClaimRow
      <3> QED
        BY <2>3, <2>4, <3>1 DEF Unsettled
    <2>5. CASE IsUnknown(t[k])
      BY <2>5, SatisfiesExtremes DEF IsUnknown, IsTop
    <2> QED
      BY <2>1, <2>3, <2>4, <2>5
  <1> QED
    BY <1>1, <1>2, <1>3, <1>4 DEF Failures

(* A token the grant admits leaves no key of the grant missed. *)
LEMMA AdmittedOutcome ==
    ASSUME NEW g, GoodGrant(g), NEW payload \in Payloads, NEW token \in TokensOf(payload),
           token \in Admitted(g.admits)
    PROVE  /\ ~AdmitsNobody(g.admits)
           /\ \A k \in DOMAIN Closest(g) :
                Against(ReadKey(payload, k), Closest(g)[k]) # "misses"
  <1>1. g.admits.terms # {} /\ token \in Tokens
    BY DEF Admitted, Admits
  <1>2. DOMAIN Closest(g) \subseteq Claim /\ Failures(Closest(g), token) = {}
    BY <1>1, ClosestLemma
  <1>3. \A k \in DOMAIN Closest(g) : Satisfies(Closest(g)[k], k, token)
    BY <1>2 DEF Failures
  <1> QED
    BY <1>1, <1>2, <1>3, TokenLemma DEF AdmitsNobody

-----------------------------------------------------------------------------
(***************************************************************************)
(* "refused" and "not admitted" (net, explain.go) are said only of a       *)
(* payload AWS lets in under no reading of it, whatever of the policy or   *)
(* of the payload is unread, and whether AWS folds issuers or not.         *)
(***************************************************************************)
THEOREM RefusalsHold == Spec => []RefusalsAreTrue
  <1>1. ReaderInv => RefusalsAreTrue
    <2> SUFFICES ASSUME ReaderInv, NEW payload \in Payloads, NEW issuer \in TokenIssuer,
                        Result(payload, issuer) \in {"refused", "not admitted"},
                        NEW token \in TokensOf(payload), NEW folds \in BOOLEAN,
                        AWSAdmits(token, issuer, folds)
                 PROVE  FALSE
      BY DEF RefusalsAreTrue
    <2>1. \A g \in grants : GoodGrant(g)
      BY DEF ReaderInv
    <2>2. CASE \E g \in grants : Refusing(g, payload, issuer)
      <3>1. PICK g \in grants : g.effect = "Deny" /\ OutcomeAdmitted(g, payload, issuer)
        BY <2>2 DEF Refusing
      <3>2. g.issuer = issuer /\ token \in Admitted(g.admits)
        BY <2>1, <3>1, AnsweredOutcome
      <3>3. g.real = "Deny" /\ token \in g.matches
        BY <2>1, <3>1, <3>2 DEF GoodGrant, HonestGrant, Effects
      <3> QED
        BY <3>2, <3>3 DEF AWSAdmits, Deployed, IsIssuerOf
    <2>3. CASE ~ \E g \in grants : Refusing(g, payload, issuer)
      <3>1. PICK g \in grants : /\ g.real = "Allow" /\ IsIssuerOf(g, issuer, folds)
                                /\ token \in g.matches
        BY DEF AWSAdmits, Deployed
      <3>2. g.effect # "Deny" /\ token \in Admitted(g.admits)
        BY <2>1, <3>1 DEF GoodGrant, HonestGrant, Effects
      <3>3. /\ ~AdmitsNobody(g.admits)
            /\ \A k \in DOMAIN Closest(g) :
                    Against(ReadKey(payload, k), Closest(g)[k]) # "misses"
        BY <2>1, <3>2, AdmittedOutcome
      <3>4. Failed(Closest(g), payload, g.effect = "Deny") = {}
        BY <3>2, <3>3 DEF Failed
      <3>5. IssuerRow(g, issuer) # "fails"
        BY <3>1 DEF IssuerRow, IsIssuerOf
      <3>6. Matching(g, payload, issuer)
        BY <3>2, <3>3, <3>4, <3>5 DEF Matching, OutcomeAdmitted
      <3> QED
        BY <2>3, <3>6 DEF Result, Net
    <2> QED
      BY <2>2, <2>3
  <1> QED
    BY <1>1, ReaderInvariant, PTL

(***************************************************************************)
(* "admitted" is said only of a payload AWS lets in under every reading of *)
(* it, in a policy of which every effect was read: no Deny that was set    *)
(* aside, or that an open key or a foldable issuer leaves unsettled, is    *)
(* forgotten.                                                              *)
(***************************************************************************)
THEOREM AdmissionsHold == Spec => []AdmissionsAreTrue
  <1>1. ReaderInv => AdmissionsAreTrue
    <2> SUFFICES ASSUME ReaderInv, ReadEffects,
                        NEW payload \in Payloads, NEW issuer \in TokenIssuer,
                        Result(payload, issuer) = "admitted",
                        NEW token \in TokensOf(payload), NEW folds \in BOOLEAN
                 PROVE  AWSAdmits(token, issuer, folds)
      BY DEF AdmissionsAreTrue
    <2>1. \A g \in grants : GoodGrant(g)
      BY DEF ReaderInv
    <2>2. /\ \E g \in grants : Admitting(g, payload, issuer)
          /\ \A g \in grants : ~Refusing(g, payload, issuer) /\ ~MayRefuse(g, payload, issuer)
      BY DEF Result, Net
    <2>3. Deployed("Allow", token, issuer, folds)
      <3>1. PICK g \in grants : Admitting(g, payload, issuer)
        BY <2>2
      <3>2. /\ g.effect = "Allow" /\ OutcomeAdmitted(g, payload, issuer)
            /\ IsExact(g.admits) /\ ~Unsettled(g, payload, issuer)
        BY <3>1 DEF Admitting, Proven
      <3>3. g.issuer = issuer /\ token \in Admitted(g.admits)
        BY <2>1, <3>2, AnsweredOutcome
      <3>4. g.real = "Allow" /\ token \in g.matches
        BY <2>1, <3>2, <3>3 DEF GoodGrant, HonestGrant, Effects
      <3> QED
        BY <3>3, <3>4 DEF Deployed, IsIssuerOf
    <2>4. ASSUME NEW g \in grants, g.real = "Deny", IsIssuerOf(g, issuer, folds),
                 token \in g.matches
          PROVE  FALSE
      <3>1. GoodGrant(g) /\ g.effect = "Deny"
        BY <2>1, <2>4 DEF ReadEffects, GoodGrant, Effects
      <3>2. IssuerRow(g, issuer) # "fails"
        BY <2>4 DEF IssuerRow, IsIssuerOf
      <3>3. ~OutcomeAdmitted(g, payload, issuer)
        BY <2>2, <3>1 DEF Refusing
      <3>4. ~Unsettled(g, payload, issuer) /\ IsExact(g.admits)
        BY <2>2, <3>1, <3>2, <3>3 DEF MayRefuse, NotApplied
      <3>5. token \in Admitted(g.admits)
        BY <2>4, <3>1, <3>4 DEF GoodGrant, HonestGrant
      <3>6. /\ ~AdmitsNobody(g.admits)
            /\ \A k \in DOMAIN Closest(g) :
                    Against(ReadKey(payload, k), Closest(g)[k]) # "misses"
        BY <3>1, <3>5, AdmittedOutcome
      <3>7. WhollyRead(Closest(g))
        BY <3>1, <3>4, <3>6, ClosestLemma DEF AdmitsNobody
      <3>8. \A k \in DOMAIN Closest(g) :
                Against(ReadKey(payload, k), Closest(g)[k]) # "open"
        BY <3>4, <3>7 DEF Unsettled, ClaimRow, WhollyRead
      <3>9. Failed(Closest(g), payload, g.effect = "Deny") = {}
        BY <3>6, <3>8 DEF Failed
      <3>10. IssuerRow(g, issuer) # "not evaluated"
        BY <3>4 DEF Unsettled
      <3> QED
        BY <3>2, <3>3, <3>6, <3>9, <3>10 DEF OutcomeAdmitted
    <2> QED
      BY <2>3, <2>4 DEF AWSAdmits, Deployed
  <1> QED
    BY <1>1, ReaderInvariant, PTL

(***************************************************************************)
(* A policy that was read exactly is answered with a fact, never with "not *)
(* proven", whenever the payload settles each key the policy names and no  *)
(* folding may make its issuer another.                                    *)
(***************************************************************************)
THEOREM ExactPoliciesHold == Spec => []ExactPoliciesAreAnswered
  <1>1. ReaderInv => ExactPoliciesAreAnswered
    <2> SUFFICES ASSUME ReaderInv,
                        \A g \in grants : IsExact(g.admits) /\ g.effect # "Unknown",
                        NEW payload \in Payloads, NEW issuer \in TokenIssuer,
                        \A g \in grants : \A k \in DOMAIN Closest(g) :
                            \E r \in Readings(payload, k) : Readings(payload, k) = {r},
                        \A other \in Issuer : <<issuer, other>> \notin Fold,
                        Result(payload, issuer) = "not proven"
                 PROVE  FALSE
      BY DEF ExactPoliciesAreAnswered
    <2>1. \A g \in grants : GoodGrant(g)
      BY DEF ReaderInv
    <2>2. ASSUME NEW g \in grants, Unsettled(g, payload, issuer)
          PROVE  FALSE
      <3>1. IssuerRow(g, issuer) # "not evaluated"
        BY <2>1 DEF IssuerRow, GoodGrant
      <3>2. PICK k \in DOMAIN Closest(g) : ClaimRow(g, k, payload) = "not evaluated"
        BY <2>2, <3>1 DEF Unsettled
      <3>3. k \in Claim
        <4>1. CASE g.admits.terms = {}
          BY <4>1, <3>2, EmptyTermLemma DEF Closest, AdmitsNobody
        <4>2. CASE g.admits.terms # {}
          BY <2>1, <3>2, <4>2, ClosestLemma
        <4> QED
          BY <4>1, <4>2
      <3>4. Against(ReadKey(payload, k), Closest(g)[k]) \in {"meets", "misses"}
        BY <3>2, <3>3, AgainstLemma
      <3> QED
        BY <3>2, <3>4 DEF ClaimRow
    <2>3. \A g \in grants : ~MayRefuse(g, payload, issuer)
      BY <2>2 DEF MayRefuse, NotApplied
    <2>4. PICK g \in grants : Matching(g, payload, issuer)
      BY DEF Result, Net
    <2>5. g.effect = "Allow"
      BY <2>1, <2>4 DEF Matching, GoodGrant
    <2>6. Admitting(g, payload, issuer)
      BY <2>2, <2>4, <2>5 DEF Admitting, Matching, Proven
    <2> QED
      BY <2>3, <2>4, <2>6 DEF Result, Net
  <1> QED
    BY <1>1, ReaderInvariant, PTL

-----------------------------------------------------------------------------
(* 3. Placement.                                                           *)

(***************************************************************************)
(* A constraint that confines does so truly: whoever holds a token that    *)
(* satisfies it is one of the owners read from it.                         *)
(***************************************************************************)
LEMMA ConfineTermLemma ==
    ASSUME NEW i \in Issuer, NEW c \in DOMAIN Reads[i], NEW t \in Terms,
           NEW h \in HoldersOf[i], NEW v \in Value, v \in Bears[h][c], TermContains(t, v),
           ConfineTerm(i, c, t).owners # {}
    PROVE  Is[h] \cap ConfineTerm(i, c, t).owners # {}
  <1>1. CASE t.kind = "exact"
    <2>1. ConfineTerm(i, c, t).owners = Reader(i, c).value[v]
      BY <1>1 DEF ConfineTerm, ConfineValue, Confinement, TermContains
    <2> QED
      BY <2>1, RingAssumption
  <1>2. CASE t.kind = "globs"
    <2>1. /\ Reader(i, c).patterns
          /\ ConfineTerm(i, c, t).owners = UNION { Reader(i, c).pattern[p] : p \in t.globs }
      BY <1>2 DEF ConfineTerm, ConfinePatterns, Unread, Confinement
    <2>2. t.globs \subseteq Pattern
      BY <1>2, TermForms
    <2>3. PICK p \in t.globs : Reader(i, c).pattern[p] # {}
      BY <2>1
    <2>4. v \in Bears[h][c] \cap Language[p]
      BY <1>2 DEF TermContains
    <2>5. Is[h] \cap Reader(i, c).pattern[p] # {}
      BY <2>1, <2>2, <2>3, <2>4, RingAssumption
    <2> QED
      BY <2>1, <2>5
  <1> QED
    BY <1>1, <1>2, TermForms

(* A union that has owners has those of each of its members. *)
LEMMA ConfineUnionLemma ==
    ASSUME NEW members, NEW m \in members, ConfineUnion(members).owners # {}
    PROVE  m.owners # {} /\ m.owners \subseteq ConfineUnion(members).owners
  <1> DEFINE open   == { n \in members : n.owners = {} /\ ~n.bounded }
             bounds == { n \in members : n.owners = {} /\ n.bounded }
  <1>1. open = {} /\ bounds = {}
    BY DEF ConfineUnion, Confinement
  <1>2. ConfineUnion(members).owners = UNION { n.owners : n \in members }
    BY <1>1 DEF ConfineUnion, Confinement
  <1> QED
    BY <1>1, <1>2

(* Whoever holds a token the term admits is an owner each pin names. *)
LEMMA ConfineLemma ==
    ASSUME NEW g, g.issuer \in Issuer, NEW term \in ClaimTerms, NEW c \in DOMAIN Reads[g.issuer],
           NEW h \in Holder, h \in HoldersOf[g.issuer],
           NEW token \in Minted[h], Failures(term, token) = {},
           Confine(g, term, c).owners # {}
    PROVE  Is[h] \cap Confine(g, term, c).owners # {}
  <1> DEFINE i == g.issuer
             s == term[c]
             own == ConfineShape(i, c, s)
             members == { ConfineTerm(i, c, t) : t \in s.terms }
  <1>1. c \in DOMAIN term /\ Confine(g, term, c) = own
    BY DEF Confine, Unpinned, Unread, Confinement
  <1>2. s \in StringSets
    BY <1>1, TermIsFunction
  <1>3. s.kind = "terms" /\ own = ConfineUnion(members)
    <2>1. own.owners # {}
      BY <1>1
    <2>2. CASE s.kind = "unknown"
      BY <2>1, <2>2 DEF ConfineShape, IsUnknown, Unread, Confinement
    <2>3. CASE s.kind \in {"any", "none"}
      BY <2>1, <2>3 DEF ConfineShape, IsUnknown, Unpinned, Confinement
    <2>4. CASE s.kind = "terms"
      BY <2>4 DEF ConfineShape, IsUnknown
    <2> QED
      BY <1>2, <2>2, <2>3, <2>4, SetForms
  <1>4. token \in Tokens /\ \A d \in DOMAIN token : token[d] \in Bears[h][d]
    BY DEF Minted
  <1>5. Satisfies(s, c, token)
    BY <1>1 DEF Failures
  <1>6. c \in DOMAIN token /\ \E t \in s.terms : TermContains(t, token[c])
    BY <1>3, <1>5 DEF Satisfies, IsTop, Contains
  <1>7. PICK t \in s.terms : TermContains(t, token[c])
    BY <1>6
  <1>8. t \in Terms /\ token[c] \in Value /\ token[c] \in Bears[h][c]
    BY <1>2, <1>3, <1>4, <1>6, SetForms DEF Tokens
  <1> HIDE DEF own, s
  <1>9. /\ ConfineTerm(i, c, t).owners # {}
        /\ ConfineTerm(i, c, t).owners \subseteq own.owners
    BY <1>1, <1>3, ConfineUnionLemma
  <1>10. Is[h] \cap ConfineTerm(i, c, t).owners # {}
    BY <1>7, <1>8, <1>9, ConfineTermLemma
  <1> QED
    BY <1>1, <1>9, <1>10

-----------------------------------------------------------------------------
(***************************************************************************)
(* What a population says of a holder of a token it stands for: it is      *)
(* anyone; or a line beside the rings, or people of a declared provider,   *)
(* both uncertain; or the holder has an account and is whom the place      *)
(* names.                                                                  *)
(***************************************************************************)
Reaches(pop, h, f, declared) ==
    \/ pop.place = "anyone"
    \/ pop.place \in Lines /\ pop.state = "unknown" /\ f.class \in {"issuerless", "saml", "service"}
    \/ pop.place = "people" /\ pop.state = "unknown" /\ DeclaredHolder(h, f, declared)
    \/ /\ h \in Account
       /\ \/ pop.place = "platform"
          \/ pop.place = "outsider" /\ Is[h] \cap pop.owners # {}
          \/ pop.place = "yours" /\ DeclaredHolder(h, f, declared)

(* The population of a pinned claim reaches every account the pins are of. *)
LEMMA PinnedLemma ==
    ASSUME NEW g, NEW pins, pins # {}, NEW basis, NEW declared, NEW h \in Account,
           \A pin \in pins : Is[h] \cap pin # {}
    PROVE  Reaches(PinnedBy(g, pins, basis, declared), h, Facts[g.issuer], declared)
  <1> DEFINE pop == PinnedBy(g, pins, basis, declared)
  <1>1. /\ pop.place \in {"yours", "outsider"} /\ pop.owners = UNION pins
        /\ pop.place = "yours" =>
            \E pin \in pins : \A o \in pin : Covered(o, Facts[g.issuer], declared)
    BY DEF PinnedBy, Population
  <1> HIDE DEF pop
  <1>2. Is[h] \cap pop.owners # {}
    BY <1>1
  <1>3. pop.place = "yours" => DeclaredHolder(h, Facts[g.issuer], declared)
    BY <1>1 DEF DeclaredHolder
  <1> QED
    BY <1>1, <1>2, <1>3 DEF Reaches, pop

(* A bound changes how sure a place is, not where it is or whose. *)
LEMMA BoundedLemma ==
    ASSUME NEW place, NEW state, NEW basis, NEW owners, NEW bounded
    PROVE  LET pop == BoundedIn(Population(place, state, basis, owners), bounded)
           IN  pop.place = place /\ pop.owners = owners
  BY DEF BoundedIn, Population

(* Where the claims place a grant: with the owners of the pins, all of     *)
(* whom the holder is among, or with every account of the platform.        *)
LEMMA ByClaimsLemma ==
    ASSUME NEW g, g.issuer \in Issuer, NEW term \in ClaimTerms, NEW declared,
           NEW h \in Holder, h \in HoldersOf[g.issuer], h \in Account,
           NEW token \in Minted[h], Failures(term, token) = {}
    PROVE  Reaches(ByClaims(g, term, declared), h, Facts[g.issuer], declared)
  <1> DEFINE readings == { Confine(g, term, c) : c \in DOMAIN Reads[g.issuer] }
             pins     == { r.owners : r \in readings } \ {{}}
             doubts   == UNION { r.doubts : r \in readings }
             bounded  == \E r \in readings : r.bounded
             pop      == ByClaims(g, term, declared)
  <1>1. \A pin \in pins : Is[h] \cap pin # {}
    BY ConfineLemma
  <1>2. pop = IF pins # {} THEN BoundedIn(PinnedBy(g, pins, "pinned", declared), bounded)
              ELSE IF doubts # {} THEN
                  At("platform", IF "tenancy-not-recorded" \in doubts THEN "tenancy-not-recorded"
                                 ELSE "unread-constraint")
              ELSE IF RequestUnread(g) THEN At("platform", "unread-constraint")
              ELSE BoundedIn(Population("platform", "exact", "unpinned", {}), bounded)
    BY DEF ByClaims, Decide
  <1> HIDE DEF pins, doubts, bounded, readings, pop
  <1>3. CASE pins # {}
    <2> DEFINE mine == \E pin \in pins : \A o \in pin : Covered(o, Facts[g.issuer], declared)
               ring == IF mine THEN "yours" ELSE "outsider"
               pinned == PinnedBy(g, pins, "pinned", declared)
    <2>1. pinned = Population(ring, "exact", "pinned", UNION pins)
      BY DEF PinnedBy
    <2>2. Reaches(pinned, h, Facts[g.issuer], declared)
      BY <1>1, <1>3, PinnedLemma
    <2>3. pinned.place = ring /\ pinned.owners = UNION pins
      BY <2>1 DEF Population
    <2>4. ring \in {"yours", "outsider"}
      OBVIOUS
    <2>5. pop = BoundedIn(pinned, bounded)
      BY <1>2, <1>3
    <2> HIDE DEF pinned, ring
    <2>6. pop.place = ring /\ pop.owners = UNION pins
      BY <2>1, <2>5, BoundedLemma
    <2> QED
      BY <2>2, <2>3, <2>4, <2>6 DEF Reaches, Lines, pop
  <1>4. CASE pins = {}
    <2>1. pop.place = "platform"
      BY <1>2, <1>4, BoundedLemma DEF At, Population
    <2> QED
      BY <2>1 DEF Reaches, pop
  <1> QED
    BY <1>3, <1>4

(* A per-tenant issuer's grant: its tenant, when nobody else can be let    *)
(* into it, or the platform.                                               *)
LEMMA TenantLemma ==
    ASSUME NEW g, g.issuer \in Issuer, NEW declared,
           NEW h \in HoldersOf[g.issuer], h \in Account
    PROVE  Reaches(TenantOf(g, Facts[g.issuer], declared), h, Facts[g.issuer], declared)
  <1> DEFINE f == Facts[g.issuer]
             pop == TenantOf(g, f, declared)
  <1>1. CASE f.membership = "controlled" /\ f.tenant # {}
    <2>1. pop = PinnedBy(g, {f.tenant}, "controlled-tenant", declared)
      BY <1>1 DEF TenantOf
    <2>2. Is[h] \cap f.tenant # {}
      BY <1>1, RingAssumption
    <2> QED
      BY <2>1, <2>2, PinnedLemma
  <1>2. CASE ~(f.membership = "controlled" /\ f.tenant # {})
    <2>1. pop.place = "platform"
      BY <1>2 DEF TenantOf, At, Population
    <2> QED
      BY <2>1 DEF Reaches
  <1> QED
    BY <1>1, <1>2

(* An issuer no census is sure of is anyone's. *)
LEMMA OidcLemma ==
    ASSUME NEW g, g.issuer \in Issuer, Facts[g.issuer].class = "oidc",
           NEW term \in ClaimTerms, NEW declared,
           NEW h \in Holder, h \in HoldersOf[g.issuer],
           NEW token \in Minted[h], Failures(term, token) = {}
    PROVE  Reaches(Oidc(g, Facts[g.issuer], term, declared), h, Facts[g.issuer], declared)
  <1> DEFINE f == Facts[g.issuer]
             pop == Oidc(g, f, term, declared)
  <1>1. CASE f.kind \notin {"shared", "per-tenant"} \/ f.anonymous # "no"
    <2>1. pop.place = "anyone"
      BY <1>1 DEF Oidc, At, Population
    <2> QED
      BY <2>1 DEF Reaches
  <1>2. CASE f.kind \in {"shared", "per-tenant"} /\ f.anonymous = "no"
    <2>1. h \in Account
      BY <1>2, RingAssumption
    <2>2. CASE f.kind = "per-tenant"
      <3>1. pop = TenantOf(g, f, declared)
        BY <1>2, <2>2 DEF Oidc
      <3> QED
        BY <2>1, <3>1, TenantLemma
    <2>3. CASE f.kind = "shared" /\ ~f.tenancy
      <3>1. pop.place = "platform"
        BY <1>2, <2>3 DEF Oidc, At, Population
      <3> QED
        BY <2>1, <3>1 DEF Reaches
    <2>4. CASE f.kind = "shared" /\ f.tenancy
      <3>1. pop = ByClaims(g, term, declared)
        BY <1>2, <2>4 DEF Oidc
      <3> QED
        BY <2>1, <3>1, ByClaimsLemma
    <2> QED
      BY <1>2, <2>2, <2>3, <2>4
  <1> QED
    BY <1>1, <1>2

(***************************************************************************)
(* place: the populations of a term, each of which reaches the holder; one *)
(* of them, or lines beside the rings only.                                *)
(***************************************************************************)
Placing(P, h, f, declared) ==
    /\ P # {} /\ \A pop \in P : Reaches(pop, h, f, declared)
    /\ (\E pop \in P : P = {pop}) \/ (\A pop \in P : pop.place \in Lines)

(* place: a term is placed so that every holder it lets in is reached. *)
LEMMA PlaceTermLemma ==
    ASSUME NEW g, g.issuer \in Issuer, NEW term \in ClaimTerms, NEW declared,
           NEW h \in Holder, h \in HoldersOf[g.issuer],
           NEW token \in Minted[h], Failures(term, token) = {}
    PROVE  Placing(PlaceTerm(g, term, declared), h, Facts[g.issuer], declared)
  <1> DEFINE f == Facts[g.issuer]
             P == PlaceTerm(g, term, declared)
  <1>1. ASSUME NEW pop, P = {pop}, Reaches(pop, h, f, declared)
        PROVE  Placing(P, h, f, declared)
    BY <1>1 DEF Placing
  <1>2. CASE ~f.modelled
    <2>1. P = {At("anyone", "principal-not-modelled")}
      BY <1>2 DEF PlaceTerm
    <2> QED
      BY <1>1, <2>1 DEF Reaches, At, Population
  <1>3. CASE f.modelled /\ f.class = "issuerless"
    <2>1. P = Issuerless(f.population)
      BY <1>3 DEF PlaceTerm
    <2>2. \/ P = {At("anyone", "any-issuer")}
          \/ P \in SUBSET {At("service", "any-service"), At("saml", "account-saml-providers")} /\ P # {}
      BY <2>1 DEF Issuerless
    <2>3. CASE P = {At("anyone", "any-issuer")}
      BY <1>1, <2>3 DEF Reaches, At, Population
    <2>4. CASE /\ P \in SUBSET {At("service", "any-service"), At("saml", "account-saml-providers")}
               /\ P # {}
      <3>1. \A pop \in P : pop.place \in Lines /\ pop.state = "unknown"
        BY <2>4 DEF At, Population, Lines
      <3> QED
        BY <1>3, <2>4, <3>1 DEF Placing, Reaches
    <2> QED
      BY <2>2, <2>3, <2>4
  <1>4. CASE f.modelled /\ f.class = "saml"
    <2> DEFINE pop == SamlProvider(f, declared)
    <2>1. P = {pop}
      BY <1>4 DEF PlaceTerm
    <2>2. /\ pop.state = "unknown" /\ pop.place \in {"people", "saml"}
          /\ pop.place = "people" => \E o \in f.provider : Covered(o, f, declared)
      BY DEF SamlProvider, At, Population
    <2>3. f.provider \subseteq Is[h]
      BY <1>4, RingAssumption
    <2> HIDE DEF pop
    <2>4. Reaches(pop, h, f, declared)
      BY <1>4, <2>2, <2>3 DEF Reaches, DeclaredHolder, Lines
    <2> QED
      BY <1>1, <2>1, <2>4
  <1>5. CASE f.modelled /\ f.class = "service"
    <2>1. P = {At("service", "service-principal")}
      BY <1>5 DEF PlaceTerm
    <2> QED
      BY <1>1, <1>5, <2>1 DEF Reaches, At, Population, Lines
  <1>6. CASE f.modelled /\ f.class = "aws"
    <2>1. P = {ByClaims(g, term, declared)} /\ h \in Account
      BY <1>6, RingAssumption DEF PlaceTerm
    <2> QED
      BY <1>1, <2>1, ByClaimsLemma
  <1>7. CASE f.modelled /\ f.class = "oidc"
    <2>1. P = {Oidc(g, f, term, declared)}
      BY <1>7 DEF PlaceTerm
    <2> QED
      BY <1>1, <1>7, <2>1, OidcLemma
  <1> QED
    BY <1>2, <1>3, <1>4, <1>5, <1>6, <1>7, RingAssumption

-----------------------------------------------------------------------------
(* Every population has the fields of one. *)
Fields == {"place", "state", "basis", "owners", "bounded"}

(* place makes whole populations. *)
LEMMA PopulationFields ==
    ASSUME NEW g, g.issuer \in Issuer, NEW term, NEW declared
    PROVE  \A pop \in PlaceTerm(g, term, declared) : DOMAIN pop = Fields
  <1> DEFINE f == Facts[g.issuer]
  <1>1. \A place, state, basis, owners : DOMAIN Population(place, state, basis, owners) = Fields
    BY DEF Population, Fields
  <1>2. \A place, basis : DOMAIN At(place, basis) = Fields
    BY <1>1 DEF At
  <1>3. \A pop, bounded : DOMAIN BoundedIn(pop, bounded) = DOMAIN pop
    BY DEF BoundedIn
  <1>4. \A pins, basis : DOMAIN PinnedBy(g, pins, basis, declared) = Fields
    BY <1>1 DEF PinnedBy
  <1>5. ASSUME NEW readings PROVE DOMAIN Decide(g, readings, declared) = Fields
    <2>1. \/ \E pins, bounded : Decide(g, readings, declared)
                    = BoundedIn(PinnedBy(g, pins, "pinned", declared), bounded)
          \/ \E basis : Decide(g, readings, declared) = At("platform", basis)
          \/ \E bounded : Decide(g, readings, declared)
                    = BoundedIn(Population("platform", "exact", "unpinned", {}), bounded)
      BY Zenon DEF Decide
    <2> QED
      BY <1>1, <1>2, <1>3, <1>4, <2>1
  <1>6. DOMAIN ByClaims(g, term, declared) = Fields
    BY <1>5 DEF ByClaims
  <1>7. DOMAIN TenantOf(g, f, declared) = Fields
    BY <1>1, <1>2, <1>4 DEF TenantOf
  <1>8. DOMAIN Oidc(g, f, term, declared) = Fields
    BY <1>2, <1>6, <1>7 DEF Oidc
  <1>9. DOMAIN SamlProvider(f, declared) = Fields
    BY <1>2 DEF SamlProvider
  <1>10. \A pop \in Issuerless(f.population) : DOMAIN pop = Fields
    BY <1>2 DEF Issuerless
  <1> QED
    BY <1>2, <1>6, <1>8, <1>9, <1>10, RingAssumption DEF PlaceTerm

(* A grant whose effect was not read keeps its places, less surely. *)
LEMMA LessSure ==
    ASSUME NEW P, \A pop \in P : DOMAIN pop = Fields, NEW h, NEW f, NEW declared,
           Placing(P, h, f, declared)
    PROVE  Placing({ [pop EXCEPT !.state = "unknown"] : pop \in P }, h, f, declared)
  <1> DEFINE u(pop) == [pop EXCEPT !.state = "unknown"]
             U == { u(pop) : pop \in P }
  <1>1. ASSUME NEW pop \in P
        PROVE  /\ u(pop).place = pop.place /\ u(pop).owners = pop.owners
               /\ u(pop).state = "unknown"
    BY DEF Fields
  <1>2. ASSUME NEW pop \in P PROVE Reaches(u(pop), h, f, declared)
    <2>1. Reaches(pop, h, f, declared)
      BY DEF Placing
    <2> HIDE DEF u
    <2> QED
      BY <1>1, <2>1 DEF Reaches
  <1> HIDE DEF u
  <1>3. U # {} /\ \A pop \in U : Reaches(pop, h, f, declared)
    BY <1>2 DEF Placing
  <1>4. (\E pop \in U : U = {pop}) \/ (\A pop \in U : pop.place \in Lines)
    BY <1>1 DEF Placing
  <1> QED
    BY <1>3, <1>4 DEF Placing, u

(***************************************************************************)
(* outermost, of populations that reach a holder: the ring holds it, and   *)
(* the populations at each place are those the rows of a report show.      *)
(***************************************************************************)
LEMMA OutermostLemma ==
    ASSUME NEW P, NEW g, NEW h, NEW declared, Placing(P, h, Facts[g.issuer], declared)
    PROVE  /\ Holds(Outermost(P), h, g, declared)
           /\ Outermost(P).populations = P
           /\ \A pop \in P : pop.place \in Outermost(P).places
  <1> DEFINE f == Facts[g.issuer]
             spots == { pop.place : pop \in P }
             rings == spots \cap Rings
             ring == { r \in rings : \A q \in rings : Nearness[r] <= Nearness[q] }
             places == ring \cup (spots \cap Lines)
             o == Outermost(P)
  <1>1. /\ o.ring = ring /\ o.places = places /\ o.populations = P
        /\ o.owners = UNION { pop.owners : pop \in { p \in P : p.place \in places } }
    BY DEF Outermost
  <1>2. /\ Rings = {"anyone", "platform", "outsider", "yours", "people"}
        /\ \A r \in Rings : Nearness[r] \in Nat
    BY DEF Rings, Nearness
  <1> HIDE DEF o
  <1>3. CASE \A pop \in P : pop.place \in Lines
    <2>1. rings = {} /\ spots # {} /\ spots \subseteq Lines
      BY <1>2, <1>3 DEF Placing, Lines
    <2>2. ring = {} /\ places = spots
      BY <2>1
    <2>3. f.class \in {"issuerless", "saml", "service"}
      BY <1>3 DEF Placing, Reaches, Lines
    <2> QED
      BY <1>1, <2>1, <2>2, <2>3 DEF Holds, o
  <1>4. CASE ~ \A pop \in P : pop.place \in Lines
    <2>1. PICK pop \in P : P = {pop} /\ pop.place \notin Lines
      BY <1>4 DEF Placing
    <2>2. Reaches(pop, h, f, declared)
      BY DEF Placing
    <2>3. pop.place \in Rings
      BY <1>2, <2>1, <2>2 DEF Reaches, Lines
    <2>4. spots = {pop.place} /\ rings = {pop.place}
      BY <2>1, <2>3
    <2>5. Nearness[pop.place] <= Nearness[pop.place]
      BY <1>2, <2>3
    <2>6. ring = {pop.place}
      BY <2>4, <2>5
    <2>7. places = {pop.place}
      BY <2>1, <2>4, <2>6
    <2>8. o.ring = {pop.place} /\ o.owners = pop.owners /\ pop.place \in o.places
      BY <1>1, <2>1, <2>6, <2>7
    <2>9. Holds(o, h, g, declared)
      BY <2>1, <2>2, <2>8 DEF Reaches, Holds
    <2> QED
      BY <1>1, <2>1, <2>8, <2>9 DEF o
  <1> QED
    BY <1>3, <1>4

-----------------------------------------------------------------------------
(* A grant somebody can use is placed: it has one term, which admits the   *)
(* token, and its populations reach whoever holds it.                      *)
LEMMA ClassifyLemma ==
    ASSUME NEW g, GoodGrant(g), g.effect # "Deny", NEW h \in Holder, Presents(h, g), NEW declared
    PROVE  \E P : Placing(P, h, Facts[g.issuer], declared) /\ Classify(g, declared) = Outermost(P)
  <1>1. PICK token \in Minted[h] : token \in g.matches
    BY DEF Presents
  <1>2. h \in HoldersOf[g.issuer] /\ g.issuer \in Issuer
    BY DEF Presents, GoodGrant
  <1>3. token \in Admitted(g.admits)
    BY <1>1 DEF GoodGrant, HonestGrant
  <1>4. PICK term \in g.admits.terms : Failures(term, token) = {}
    BY <1>3 DEF Admitted, Admits
  <1>5. term \in ClaimTerms /\ g.admits.terms = {term}
    BY DEF GoodGrant, Canonical, Reduced
  <1> DEFINE P == PlaceTerm(g, term, declared)
             U == { [pop EXCEPT !.state = "unknown"] : pop \in P }
  <1>6. Placing(P, h, Facts[g.issuer], declared)
    BY <1>2, <1>4, <1>5, PlaceTermLemma
  <1>7. \A pop \in P : DOMAIN pop = Fields
    BY <1>2, PopulationFields
  <1>8. Placing(U, h, Facts[g.issuer], declared)
    BY <1>6, <1>7, LessSure
  <1>9. UNION { PlaceTerm(g, t, declared) : t \in g.admits.terms } = P
    BY <1>5
  <1>10. ~AdmitsNobody(g.admits)
    BY <1>5 DEF AdmitsNobody
  <1>11. Classify(g, declared) = Outermost(IF g.effect = "Unknown" THEN U ELSE P)
    BY <1>9, <1>10 DEF Classify
  <1> HIDE DEF P, U
  <1> QED
    BY <1>6, <1>8, <1>11

(***************************************************************************)
(* internal/ring places no grant nearer than whoever holds a credential    *)
(* its statement matches, whatever the user declares, if the census it was *)
(* given is true: the ring holds each of them.                             *)
(***************************************************************************)
THEOREM GrantsArePlacedTruly == Spec => []NoGrantIsNearerThanItsHolders
  <1>1. ReaderInv => NoGrantIsNearerThanItsHolders
    <2> SUFFICES ASSUME ReaderInv, NEW g \in grants, NEW h \in Holder, g.effect # "Deny",
                        Presents(h, g), NEW declared \in SUBSET Declaration
                 PROVE  Holds(Classify(g, declared), h, g, declared)
      BY DEF NoGrantIsNearerThanItsHolders
    <2>1. GoodGrant(g)
      BY DEF ReaderInv
    <2>2. PICK P : Placing(P, h, Facts[g.issuer], declared) /\ Classify(g, declared) = Outermost(P)
      BY <2>1, ClassifyLemma
    <2> QED
      BY <2>2, OutermostLemma
  <1> QED
    BY <1>1, ReaderInvariant, PTL

(***************************************************************************)
(* internal/report/rings.go: a report that says for certain that nobody    *)
(* without an account can assume the role is right, whichever lines beside *)
(* the rings its grants are on and whatever is declared.                   *)
(***************************************************************************)
THEOREM QuietReportsAreTrue == Spec => []QuietAnyoneRingIsTrue
  <1>1. ReaderInv => QuietAnyoneRingIsTrue
    <2> SUFFICES ASSUME ReaderInv, NEW g \in grants, NEW h \in Holder \ Account,
                        g.effect # "Deny", Presents(h, g), NEW declared \in SUBSET Declaration
                 PROVE  AnyoneState(declared) = "unknown" \/ RowOf("anyone", declared) # {}
      BY DEF QuietAnyoneRingIsTrue
    <2>1. GoodGrant(g)
      BY DEF ReaderInv
    <2>2. PICK P : Placing(P, h, Facts[g.issuer], declared) /\ Classify(g, declared) = Outermost(P)
      BY <2>1, ClassifyLemma
    <2>3. PICK pop \in P : Reaches(pop, h, Facts[g.issuer], declared)
      BY <2>2 DEF Placing
    <2>4. pop \in RowOf(pop.place, declared)
      <3>1. pop \in Classify(g, declared).populations /\ pop.place \in Classify(g, declared).places
        BY <2>2, OutermostLemma
      <3> QED
        BY <3>1 DEF RowOf
    <2>5. CASE pop.place = "anyone"
      BY <2>4, <2>5
    <2>6. CASE pop.place = "service"
      BY <2>4, <2>6 DEF AnyoneState
    <2>7. CASE pop.place \in {"saml", "people"} /\ pop.state = "unknown"
      <3>1. AnyUncertain(RowOf(pop.place, declared))
        BY <2>4, <2>7 DEF AnyUncertain
      <3> QED
        BY <2>7, <3>1 DEF AnyoneState
    <2> QED
      BY <2>3, <2>5, <2>6, <2>7 DEF Reaches, Lines
  <1> QED
    BY <1>1, ReaderInvariant, PTL

-----------------------------------------------------------------------------
(***************************************************************************)
(* A place that is exactly the platform by the claims: no constraint of a  *)
(* tenant claim confines, is doubted, or is missing where a caveat may     *)
(* stand for one.                                                          *)
(***************************************************************************)
LEMMA ExactPlatformByClaims ==
    ASSUME NEW g, NEW term, NEW declared,
           ByClaims(g, term, declared).place = "platform",
           ByClaims(g, term, declared).state = "exact"
    PROVE  \A c \in DOMAIN Reads[g.issuer] :
              Confine(g, term, c).owners = {} /\ Confine(g, term, c).doubts = {}
  <1> DEFINE readings == { Confine(g, term, c) : c \in DOMAIN Reads[g.issuer] }
             pins     == { r.owners : r \in readings } \ {{}}
             doubts   == UNION { r.doubts : r \in readings }
             bounded  == \E r \in readings : r.bounded
             pop      == ByClaims(g, term, declared)
             mine     == \E pin \in pins : \A o \in pin : Covered(o, Facts[g.issuer], declared)
             ring     == IF mine THEN "yours" ELSE "outsider"
  <1>1. pins # {} => pop = BoundedIn(Population(ring, "exact", "pinned", UNION pins), bounded)
    BY DEF ByClaims, Decide, PinnedBy
  <1>2. pins = {} /\ doubts # {} => \E basis : pop = At("platform", basis)
    BY Zenon DEF ByClaims, Decide
  <1>3. ring \in {"yours", "outsider"}
    OBVIOUS
  <1> HIDE DEF pins, doubts, bounded, pop, ring
  <1>4. pins = {}
    BY <1>1, <1>3, BoundedLemma DEF pop
  <1>5. doubts = {}
    BY <1>2, <1>4 DEF At, Population, pop
  <1> QED
    BY <1>4, <1>5 DEF pins, doubts

(* Such a grant has no caveat that may stand for a condition on a claim    *)
(* that names a tenant.                                                    *)
LEMMA NoTenantClaimIsUnread ==
    ASSUME NEW g, GoodGrant(g), NEW term, NEW c \in MayHaveRead(g),
           \A d \in DOMAIN Reads[g.issuer] :
              Confine(g, term, d).owners = {} /\ Confine(g, term, d).doubts = {}
    PROVE  c.claim \notin DOMAIN Reads[g.issuer]
  <1>1. WidenedOn(g, c.claim)
    <2>1. PICK cv \in g.admits.caveats : cv \notin { [recorded |-> d] : d \in Claim \ {c.claim} }
      BY DEF MayHaveRead
    <2>2. cv \in ReaderCaveats
      BY DEF GoodGrant
    <2>3. CASE \E op \in Operations : cv = Overflow(op)
      BY <2>3 DEF WidenedOn, Overflow
    <2>4. CASE \E d \in Claim \cup {"statement"} : cv = [recorded |-> d]
      <3>1. PICK d \in Claim \cup {"statement"} : cv = [recorded |-> d]
        BY <2>4
      <3>2. d = c.claim \/ d = "statement"
        BY <2>1, <3>1
      <3> QED
        BY <3>1, <3>2 DEF WidenedOn
    <2> QED
      BY <2>2, <2>3, <2>4 DEF ReaderCaveats
  <1>2. Confine(g, term, c.claim).owners # {} \/ Confine(g, term, c.claim).doubts # {}
    BY <1>1 DEF Confine, Unread, Confinement
  <1> QED
    BY <1>2

(* What a condition read on another claim leaves of the term. *)
LEMMA HadReadLemma ==
    ASSUME NEW g, GoodGrant(g), NEW term, g.admits.terms = {term}, NEW c \in MayHaveRead(g)
    PROVE  LET n == HadRead(g, c)
           IN  /\ n.effect = g.effect /\ n.issuer = g.issuer
               /\ n.admits.caveats = g.admits.caveats
               /\ \/ n.admits.terms = {}
                  \/ \E u : /\ n.admits.terms = {u}
                            /\ \A d : d # c.claim => /\ d \in DOMAIN u <=> d \in DOMAIN term
                                                     /\ d \in DOMAIN term => u[d] = term[d]
  <1> DEFINE n == HadRead(g, c)
             V == ValueSet(c.values)
             u == MeetClaim(term, c, V)
             N == Normalise({u}, g.admits.caveats, "Meet")
  <1>1. { MeetClaim(t, c, V) : t \in g.admits.terms } = {u}
    OBVIOUS
  <1>2. n = [g EXCEPT !.admits = N]
    BY <1>1 DEF HadRead
  <1>3. n.effect = g.effect /\ n.issuer = g.issuer /\ n.admits = N
    BY <1>2 DEF GoodGrant
  <1>4. /\ term \in ClaimTerms /\ DOMAIN term \in SUBSET Claim
        /\ \A d \in DOMAIN term : term[d] \in StringSets /\ ~Unconstrained(term[d])
    BY TermIsFunction DEF GoodGrant, Canonical, Reduced
  <1>5. Conditional(c) /\ V \in StringSets /\ ~IsTop(V)
    <2>1. c \in UNION { Condition[i] : i \in Issuer }
      BY DEF MayHaveRead, GoodGrant
    <2>2. Conditional(c)
      BY <2>1, PolicyAssumption DEF Conditional
    <2> QED
      BY <2>2, ValueSetLemma DEF MayHaveRead, Evaluated, Conditional
  <1> HIDE DEF V
  <1>6. /\ DOMAIN u = DOMAIN term \cup {c.claim}
        /\ \A d \in DOMAIN term \ {c.claim} : u[d] = term[d]
        /\ u[c.claim] = IF c.claim \in DOMAIN term THEN Meet(term[c.claim], V) ELSE V
        /\ u = [d \in DOMAIN u |-> u[d]]
    BY DEF MeetClaim
  <1>7. ~IsTop(u[c.claim])
    BY <1>4, <1>5, <1>6, MeetIsIntersection
  <1>8. \A d \in DOMAIN u : ~Unconstrained(u[d])
    BY <1>4, <1>6, <1>7 DEF Unconstrained
  <1> HIDE DEF u
  <1>9. NormaliseTerm(u) = u
    <2>1. { d \in DOMAIN u : ~Unconstrained(u[d]) } = DOMAIN u
      BY <1>8
    <2> QED
      BY <1>6, <2>1 DEF NormaliseTerm
  <1>10. ~AllTop(u)
    BY <1>6, <1>7 DEF AllTop
  <1>11. Live({u}) = IF Dead(u) THEN {} ELSE {u}
    BY <1>9 DEF Live
  <1>12. ~(Cardinality(Live({u})) > TermCap)
    <2>1. Cardinality({}) = 0 /\ Cardinality({u}) = 1
      BY FS_EmptySet, FS_Singleton
    <2> QED
      BY <1>11, <2>1, TermCapAssumption
  <1>13. ~ \E t \in Live({u}) : AllTop(t)
    BY <1>10, <1>11
  <1>14. N = Set(Live({u}), g.admits.caveats)
    BY <1>12, <1>13 DEF Normalise
  <1>15. N.caveats = g.admits.caveats /\ N.terms \in {{}, {u}}
    BY <1>11, <1>14 DEF Set
  <1> HIDE DEF N, n
  <1> QED
    BY <1>3, <1>6, <1>15 DEF n

-----------------------------------------------------------------------------
(* The issuers whose claims say where their grants are: ByClaims. *)
UsesClaims(f) ==
    f.modelled /\ (\/ f.class = "aws"
                   \/ f.class = "oidc" /\ f.kind = "shared" /\ f.anonymous = "no" /\ f.tenancy)

(* The terms and the caveats of a grant matter only where claims are read. *)
LEMMA PlacedByItsIssuer ==
    ASSUME NEW g, NEW n, n.issuer = g.issuer, g.issuer \in Issuer, NEW term, NEW u, NEW declared,
           ~UsesClaims(Facts[g.issuer])
    PROVE  PlaceTerm(n, u, declared) = PlaceTerm(g, term, declared)
  <1> DEFINE f == Facts[g.issuer]
  <1>1. TenantOf(n, f, declared) = TenantOf(g, f, declared)
    BY DEF TenantOf, PinnedBy
  <1>2. f.class = "oidc" /\ f.modelled => Oidc(n, f, u, declared) = Oidc(g, f, term, declared)
    BY <1>1 DEF Oidc, UsesClaims
  <1>3. CASE ~f.modelled
    BY <1>3 DEF PlaceTerm
  <1>4. CASE f.modelled
    <2>1. f.class # "aws"
      BY <1>4 DEF UsesClaims
    <2>2. CASE f.class = "oidc"
      BY <1>2, <1>4, <2>2 DEF PlaceTerm
    <2>3. CASE f.class \in {"issuerless", "saml", "service"}
      BY <1>4, <2>3 DEF PlaceTerm
    <2> QED
      BY <2>1, <2>2, <2>3, RingAssumption
  <1> QED
    BY <1>3, <1>4

(* Where claims are read, the place is what they say. *)
LEMMA PlacedByItsClaims ==
    ASSUME NEW g, g.issuer \in Issuer, NEW term, NEW declared, UsesClaims(Facts[g.issuer])
    PROVE  PlaceTerm(g, term, declared) = {ByClaims(g, term, declared)}
  <1> DEFINE f == Facts[g.issuer]
  <1>1. CASE f.class = "aws"
    BY <1>1 DEF PlaceTerm, UsesClaims
  <1>2. CASE f.class = "oidc"
    <2>1. Oidc(g, f, term, declared) = ByClaims(g, term, declared)
      BY <1>2 DEF Oidc, UsesClaims
    <2> QED
      BY <1>2, <2>1 DEF PlaceTerm, UsesClaims
  <1> QED
    BY <1>1, <1>2 DEF UsesClaims

(* Two grants of an issuer with the same constraints on the claims that    *)
(* name a tenant, and the same caveats, are placed alike by their claims.  *)
LEMMA SameClaimsSamePlace ==
    ASSUME NEW g, NEW n, n.issuer = g.issuer, n.admits.caveats = g.admits.caveats,
           NEW term, NEW u, NEW declared,
           \A d \in DOMAIN Reads[g.issuer] : /\ d \in DOMAIN u <=> d \in DOMAIN term
                                             /\ d \in DOMAIN term => u[d] = term[d]
    PROVE  ByClaims(n, u, declared) = ByClaims(g, term, declared)
  <1>1. \A d : WidenedOn(n, d) = WidenedOn(g, d)
    BY DEF WidenedOn
  <1>2. \A d \in DOMAIN Reads[g.issuer] : Confine(n, u, d) = Confine(g, term, d)
    BY <1>1 DEF Confine
  <1> DEFINE R == { Confine(g, term, c) : c \in DOMAIN Reads[g.issuer] }
             Q == { Confine(n, u, c) : c \in DOMAIN Reads[n.issuer] }
  <1>3. Q = R
    BY <1>2
  <1>4. ByClaims(n, u, declared) = Decide(n, Q, declared) /\ ByClaims(g, term, declared) = Decide(g, R, declared)
    BY DEF ByClaims
  <1>5. RequestUnread(n) = RequestUnread(g)
    BY DEF RequestUnread
  <1>6. \A pins, basis : PinnedBy(n, pins, basis, declared) = PinnedBy(g, pins, basis, declared)
    BY DEF PinnedBy
  <1> HIDE DEF Q, R
  <1>7. Decide(n, R, declared) = Decide(g, R, declared)
    BY <1>5, <1>6 DEF Decide
  <1> QED
    BY <1>3, <1>4, <1>7

(* What an exact platform place says of the grant: its effect was read,    *)
(* and one of its populations is exactly the platform.                     *)
LEMMA ExactPlatform ==
    ASSUME NEW g, GoodGrant(g), NEW declared,
           Classify(g, declared).state = "exact", Classify(g, declared).ring = {"platform"}
    PROVE  \E term : /\ g.admits.terms = {term} /\ g.effect \notin {"Deny", "Unknown"}
                     /\ Classify(g, declared) = Outermost(PlaceTerm(g, term, declared))
                     /\ \E pop \in PlaceTerm(g, term, declared) :
                            pop.place = "platform" /\ pop.state = "exact"
  <1>1. g.effect # "Deny" /\ ~AdmitsNobody(g.admits)
    BY DEF Classify, Unplaced
  <1>2. PICK term \in g.admits.terms : g.admits.terms = {term}
    BY <1>1 DEF GoodGrant, AdmitsNobody
  <1> DEFINE P == PlaceTerm(g, term, declared)
             U == { [pop EXCEPT !.state = "unknown"] : pop \in P }
             O == IF g.effect = "Unknown" THEN U ELSE P
  <1>3. UNION { PlaceTerm(g, t, declared) : t \in g.admits.terms } = P
    BY <1>2
  <1>4. Classify(g, declared) = Outermost(O)
    BY <1>1, <1>3 DEF Classify
  <1>5. \A pop \in U : pop.state = "unknown"
    <2>1. \A pop \in P : DOMAIN pop = Fields
      BY PopulationFields DEF GoodGrant
    <2> QED
      BY <2>1 DEF Fields
  <1>6. O = U \/ O = P
    OBVIOUS
  <1>7. g.effect = "Unknown" => O = U
    OBVIOUS
  <1>8. g.effect # "Unknown" => O = P
    OBVIOUS
  <1> HIDE DEF O, U, P
  <1>9. \E pop \in O : pop.place = "platform" /\ pop.state = "exact"
    <2>1. Outermost(O).state = "exact" /\ Outermost(O).ring = {"platform"}
      BY <1>4
    <2> QED
      BY <2>1 DEF Outermost
  <1>10. g.effect # "Unknown"
    BY <1>5, <1>7, <1>9
  <1> QED
    BY <1>1, <1>2, <1>4, <1>8, <1>9, <1>10 DEF P

(***************************************************************************)
(* internal/ring: a place that is said to be exactly the platform would    *)
(* have been no other had a condition the parser left unread been read.    *)
(***************************************************************************)
THEOREM ExactPlatformsSettleTheGrant == Spec => []ExactPlatformsAreSettled
  <1>1. ReaderInv => ExactPlatformsAreSettled
    <2> SUFFICES ASSUME ReaderInv, NEW g \in grants, NEW declared \in SUBSET Declaration,
                        Classify(g, declared).state = "exact",
                        Classify(g, declared).ring = {"platform"},
                        NEW c \in MayHaveRead(g),
                        Classify(HadRead(g, c), declared).outcome = "placed"
                 PROVE  Classify(HadRead(g, c), declared).ring = Classify(g, declared).ring
      BY DEF ExactPlatformsAreSettled, Settled
    <2> DEFINE n == HadRead(g, c)
    <2>1. GoodGrant(g) /\ g.issuer \in Issuer
      BY DEF ReaderInv, GoodGrant
    <2>2. PICK term : /\ g.admits.terms = {term} /\ g.effect \notin {"Deny", "Unknown"}
                      /\ Classify(g, declared) = Outermost(PlaceTerm(g, term, declared))
                      /\ \E pop \in PlaceTerm(g, term, declared) :
                            pop.place = "platform" /\ pop.state = "exact"
      BY <2>1, ExactPlatform
    <2>3. /\ n.effect = g.effect /\ n.issuer = g.issuer /\ n.admits.caveats = g.admits.caveats
          /\ \/ n.admits.terms = {}
             \/ \E u : /\ n.admits.terms = {u}
                       /\ \A d : d # c.claim => /\ d \in DOMAIN u <=> d \in DOMAIN term
                                                /\ d \in DOMAIN term => u[d] = term[d]
      BY <2>1, <2>2, HadReadLemma
    <2> HIDE DEF n
    <2>4. n.admits.terms # {}
      BY DEF Classify, AdmitsNobody, Unplaced, n
    <2>5. PICK u : /\ n.admits.terms = {u}
                   /\ \A d : d # c.claim => /\ d \in DOMAIN u <=> d \in DOMAIN term
                                            /\ d \in DOMAIN term => u[d] = term[d]
      BY <2>3, <2>4
    <2>6. Classify(n, declared) = Outermost(PlaceTerm(n, u, declared))
      <3>1. UNION { PlaceTerm(n, t, declared) : t \in n.admits.terms } = PlaceTerm(n, u, declared)
        BY <2>5
      <3> QED
        BY <2>2, <2>3, <2>4, <3>1 DEF Classify, AdmitsNobody
    <2>7. PlaceTerm(n, u, declared) = PlaceTerm(g, term, declared)
      <3>1. CASE ~UsesClaims(Facts[g.issuer])
        BY <2>1, <2>3, <3>1, PlacedByItsIssuer
      <3>2. CASE UsesClaims(Facts[g.issuer])
        <4>1. PlaceTerm(g, term, declared) = {ByClaims(g, term, declared)}
          BY <2>1, <3>2, PlacedByItsClaims
        <4>2. ByClaims(g, term, declared).place = "platform" /\ ByClaims(g, term, declared).state = "exact"
          BY <2>2, <4>1
        <4>3. c.claim \notin DOMAIN Reads[g.issuer]
          BY <2>1, <4>2, ExactPlatformByClaims, NoTenantClaimIsUnread
        <4>4. ByClaims(n, u, declared) = ByClaims(g, term, declared)
          BY <2>3, <2>5, <4>3, SameClaimsSamePlace
        <4>5. PlaceTerm(n, u, declared) = {ByClaims(n, u, declared)}
          BY <2>1, <2>3, <3>2, PlacedByItsClaims
        <4> QED
          BY <4>1, <4>4, <4>5
      <3> QED
        BY <3>1, <3>2
    <2> QED
      BY <2>2, <2>6, <2>7 DEF n
  <1> QED
    BY <1>1, ReaderInvariant, PTL

-----------------------------------------------------------------------------
(***************************************************************************)
(* The principals of a statement, whose variables are their own: for any   *)
(* callers, any texts and any actions written.                             *)
(***************************************************************************)
(***************************************************************************)
(* What is written: entries of the documented members, or of one that is   *)
(* not, and none but in an object.                                         *)
(***************************************************************************)
Entries ==
    { [member |-> m, text |-> NoText] : m \in Members \cup {"Unknown"} }
      \cup (UNION { { [member |-> m, text |-> t] : t \in Written[m] } : m \in Members })

Copies ==
    { copy \in [shape : {"star", "object", "other"}, entries : SUBSET Entries,
                empty : SUBSET Members, twice : SUBSET Members] :
        copy.shape # "object" => copy.entries = {} /\ copy.empty = {} }

StatementTypeOK ==
    /\ sense \in {"Allow", "Deny"}
    /\ copies \in Seq(Copies)
    /\ acts \subseteq DOMAIN ActionText

(* The constructs are written in their places. *)
LEMMA StatementTyping == PrincipalSpec => []StatementTypeOK
  <1>1. PrincipalInit => StatementTypeOK
    BY DEF PrincipalInit, StatementTypeOK
  <1>2. StatementTypeOK /\ [PrincipalNext]_principalVars => StatementTypeOK'
    <2> SUFFICES ASSUME StatementTypeOK, [PrincipalNext]_principalVars PROVE StatementTypeOK'
      OBVIOUS
    <2> USE DEF StatementTypeOK
    <2>1. ASSUME NEW shape \in {"star", "object", "other"}, WriteCopy(shape)
          PROVE  StatementTypeOK'
      <3>1. Copy(shape) \in Copies
        BY DEF Copy, Copies
      <3> QED
        BY <2>1, <3>1 DEF WriteCopy
    <2> DEFINE last == copies[Len(copies)]
    <2>2. ASSUME InObject PROVE Len(copies) \in DOMAIN copies /\ last \in Copies /\ last.shape = "object"
      BY <2>2 DEF InObject
    <2>3. ASSUME InObject, NEW copy \in Copies, copies' = [copies EXCEPT ![Len(copies)] = copy]
          PROVE  copies' \in Seq(Copies)
      BY <2>2, <2>3
    <2>4. ASSUME NEW e \in Entries, WriteEntry(e.member, e.text)
          PROVE  StatementTypeOK'
      <3>1. [member |-> e.member, text |-> e.text] = e
        BY DEF Entries
      <3>2. [last EXCEPT !.entries = @ \cup {e}] \in Copies
        BY <2>2, <2>4 DEF WriteEntry, Copies
      <3>3. copies' = [copies EXCEPT ![Len(copies)] = [last EXCEPT !.entries = @ \cup {e}]]
        BY <2>2, <2>4, <3>1 DEF WriteEntry
      <3> QED
        BY <2>3, <2>4, <3>2, <3>3 DEF WriteEntry
    <2>5. ASSUME NEW m \in Members, WriteEmptyList(m)
          PROVE  StatementTypeOK'
      <3>1. [last EXCEPT !.empty = @ \cup {m}] \in Copies
        BY <2>2, <2>5 DEF WriteEmptyList, Copies
      <3>2. copies' = [copies EXCEPT ![Len(copies)] = [last EXCEPT !.empty = @ \cup {m}]]
        BY <2>2, <2>5 DEF WriteEmptyList
      <3> QED
        BY <2>3, <2>5, <3>1, <3>2 DEF WriteEmptyList
    <2>6. ASSUME NEW m \in Members, WriteTwice(m)
          PROVE  StatementTypeOK'
      <3>1. [last EXCEPT !.twice = @ \cup {m}] \in Copies
        BY <2>2, <2>6 DEF WriteTwice, Copies
      <3>2. copies' = [copies EXCEPT ![Len(copies)] = [last EXCEPT !.twice = @ \cup {m}]]
        BY <2>2, <2>6 DEF WriteTwice
      <3> QED
        BY <2>3, <2>6, <3>1, <3>2 DEF WriteTwice
    <2>7. ASSUME NEW m \in Members, NEW t \in Written[m] \cup {NoText}, WriteEntry(m, t)
          PROVE  StatementTypeOK'
      <3>1. [member |-> m, text |-> t] \in Entries
        BY DEF Entries
      <3> QED
        BY <2>4, <2>7, <3>1
    <2>8. ASSUME WriteEntry("Unknown", NoText) PROVE StatementTypeOK'
      <3>1. [member |-> "Unknown", text |-> NoText] \in Entries
        BY DEF Entries
      <3> QED
        BY <2>4, <2>8, <3>1
    <2>9. CASE WriteNotPrincipal \/ WriteOddAction \/ UNCHANGED principalVars
      BY <2>9 DEF WriteNotPrincipal, WriteOddAction, principalVars
    <2>10. CASE \E a \in DOMAIN ActionText : WriteAction(a)
      BY <2>10 DEF WriteAction
    <2> QED
      BY <2>1, <2>5, <2>6, <2>7, <2>8, <2>9, <2>10 DEF PrincipalNext
  <1> QED
    BY <1>1, <1>2, PTL DEF PrincipalSpec

-----------------------------------------------------------------------------
(* An entry's text is no string, or one written under its member. *)
LEMMA EntryForms ==
    ASSUME NEW e \in Entries
    PROVE  \/ e.text = NoText
           \/ e.member \in Members /\ e.text \in Written[e.member]
  BY DEF Entries

(* A written text is a string of one of the four forms. *)
LEMMA WrittenForms ==
    ASSUME NEW member \in Members, NEW text \in Written[member]
    PROVE  /\ text.form \in {"star", "name", "arn", "half arn"} /\ text # NoText
           /\ text.form = "star" => text.wild
           /\ member = "Service" => text.form \in {"star", "name"}
  <1>1. text.form \in {"star", "name", "arn", "half arn"}
    BY WrittenAssumption
  <1>2. NoText.form = "odd"
    BY DEF NoText
  <1>3. text # NoText
    BY <1>1, <1>2
  <1> QED
    BY <1>1, <1>3, WrittenAssumption

(* Of every caller the class decides the action. *)
LEMMA CallerActions ==
    ASSUME NEW c \in Caller
    PROVE  /\ c.via \in Assume
           /\ c.issuer = IssuedBy(c.issuer.class, c.issuer.of)
           /\ c.issuer.class \in {"aws", "service", "oidc", "saml"}
           /\ c.issuer.class = "aws" => c.via = "AssumeRole" /\ c.issuer = AWSPrincipalIssuer /\ c.account = c.arn[5]
           /\ c.issuer.class = "service" => c.via = "AssumeRole"
           /\ c.issuer.class = "oidc" => c.via = "AssumeRoleWithWebIdentity"
           /\ c.issuer.class = "saml" => c.via = "AssumeRoleWithSAML"
           /\ c.issuer # NoIssuer
  BY CallerAssumption DEF AsksThrough, Assume, NoIssuer, IssuedBy

(***************************************************************************)
(* A principal speaks for a caller: the caller asks through an action of   *)
(* its kind, and it is left out by nothing the principal settles.          *)
(***************************************************************************)
SpeaksFor(p, c) ==
    /\ c.via \in AssumeActions(p)
    /\ p.widened \/ c \in Identified(p)

(* Whoever an AWS principal may name it speaks for, under its own issuer   *)
(* or as one that is not modelled.                                         *)
LEMMA AwsPrincipalLemma ==
    ASSUME NEW text \in Written["AWS"], ~text.variable, NEW c \in Caller, c \in MayName("AWS", text)
    PROVE  LET p == AwsPrincipal(text) IN
           /\ p.issuer = AWSPrincipalIssuer /\ p.kind # "unreadable"
           /\ p.kind = "anyone" => p.account = ""
           /\ p.kind # "anyone" => SpeaksFor(p, c) /\ (Modelled(p) => c.issuer = AWSPrincipalIssuer)
  <1> DEFINE p == AwsPrincipal(text)
  <1> USE DEF Members
  <1>0. text.form \in {"star", "name", "arn", "half arn"} /\ text # NoText /\ "" \notin AccountId
    BY WrittenForms, WrittenAssumption
  <1>1. CASE text.form = "star"
    BY <1>1 DEF AwsPrincipal, Anyone, Principal
  <1>2. CASE text.form = "name"
    <2>1. c \in Of("aws") /\ (text.name \in AccountId => c.account = text.name)
      BY <1>0, <1>2 DEF MayName, HasMeaning, Named, IamArn, Of
    <2> QED
      BY <1>0, <1>2, <2>1, CallerActions DEF AwsPrincipal, IsAccountID, OfAccount, Opaque, Principal,
         SpeaksFor, AssumeActions, Identified, Of
  <1>3. CASE text.form = "half arn"
    <2>1. c \in Of("aws")
      BY <1>0, <1>3 DEF MayName, HasMeaning, IamArn
    <2> QED
      BY <1>3, <2>1, CallerActions DEF AwsPrincipal, Opaque, Principal, SpeaksFor, AssumeActions, Identified, Of
  <1>4. CASE text.form = "arn"
    <2>1. p = ArnPrincipal(text, IF text.account \in AccountId THEN text.account ELSE "")
      BY <1>4 DEF AwsPrincipal, IsAccountID
    <2>2. CASE text.service \notin {"iam", "sts"}
      <3>1. c \in Of("aws") \cup Of("service")
        BY <1>0, <1>4, <2>2 DEF MayName, HasMeaning, IamArn
      <3> QED
        BY <2>1, <2>2, <3>1, CallerActions DEF ArnPrincipal, Opaque, Principal, SpeaksFor, AssumeActions,
           Identified, Of, Modelled
    <2>3. CASE text.service \in {"iam", "sts"}
      <3>1. IamArn(text)
        BY <1>4, <2>3 DEF IamArn
      <3>2. c \in Of("aws") /\ (text.account \in AccountId /\ ~HasMeaning("AWS", text) => c.account = text.account)
        BY <1>0, <1>4, <3>1 DEF MayName, Named, Of
      <3>3. c.via = "AssumeRole" /\ c.issuer = AWSPrincipalIssuer /\ c.account = c.arn[5]
        BY <3>2, CallerActions DEF Of
      <3>4. ASSUME HasMeaning("AWS", text)
            PROVE  /\ text.account \in AccountId /\ ~Misformed(text)
                   /\ IF IsRoot(text) THEN c.account = text.account ELSE c.arn = Spelling(text)
                   /\ IsRoot(text) \/ (text.service = "iam" /\ NamesIAM(text)) \/
                        (text.service = "sts" /\ text.resource = "federated-user" /\ text.name # "")
        <4>1. WholeArn(text) /\ (IsRoot(text) \/ (text.resource \in Kinds(text.service) /\ text.name # ""))
          BY <1>4, <3>4 DEF HasMeaning
        <4>2. c \in Named("AWS", text)
          BY <1>0, <1>4, <3>4 DEF MayName
        <4> QED
          BY <1>4, <2>3, <4>1, <4>2 DEF WholeArn, Misformed, IsAccountID, Named, Kinds, NamesIAM
      <3>5. c.arn = Spelling(text) => c.account = text.account
        BY <3>3 DEF Spelling
      <3>6. text.account \in AccountId => c.account = text.account
        BY <3>2, <3>4, <3>5
      <3>7. CASE p.kind = "identity"
        <4>1. HasMeaning("AWS", text) /\ ~IsRoot(text) /\ p.text = text /\ p.account = text.account
              /\ p.issuer = AWSPrincipalIssuer
          BY <1>0, <1>4, <2>1, <3>1, <3>7 DEF ArnPrincipal, Opaque, OfAccount, Principal, HasMeaning,
             WholeArn, Misformed, IsAccountID, Kinds, NamesIAM
        <4> QED
          BY <3>3, <3>4, <3>5, <3>7, <4>1 DEF SpeaksFor, AssumeActions, Identified
      <3>8. CASE p.kind # "identity"
        <4>1. /\ p.issuer = AWSPrincipalIssuer /\ p.kind \in {"opaque", "account"}
              /\ p.account # "" => text.account \in AccountId /\ p.account = text.account
          BY <1>0, <2>1, <2>3, <3>8 DEF ArnPrincipal, Opaque, OfAccount, Principal, Misformed, IsAccountID
        <4> QED
          BY <3>3, <3>6, <4>1 DEF SpeaksFor, AssumeActions, Identified
      <3> QED
        BY <3>7, <3>8
    <2> QED
      BY <2>2, <2>3
  <1> QED
    BY <1>0, <1>1, <1>2, <1>3, <1>4

(* So does a federated one, *)
LEMMA FederatedPrincipalLemma ==
    ASSUME NEW text \in Written["Federated"], ~text.variable, NEW c \in Caller, c \in MayName("Federated", text)
    PROVE  LET p == FederatedPrincipal(text) IN
           /\ p.kind # "anyone" /\ SpeaksFor(p, c)
           /\ Modelled(p) => p.issuer = c.issuer
  <1> DEFINE p == FederatedPrincipal(text)
  <1>0. text.form \in {"star", "name", "arn", "half arn"} /\ text # NoText
    BY WrittenForms DEF Members
  <1>a. text.form = "star" => text.wild
    BY WrittenForms DEF Members
  <1>1. CASE IsSAMLIssuer(text)
    <2>1. HasMeaning("Federated", text)
      BY <1>1 DEF HasMeaning
    <2>2. c \in Of("saml") /\ c.issuer.of = Spelling(text)
      BY <1>0, <1>1, <2>1 DEF MayName, Named
    <2> QED
      BY <1>1, <2>2, CallerActions DEF FederatedPrincipal, Unmodelled, Principal, SpeaksFor, AssumeActions, Of
  <1>2. CASE ~IsSAMLIssuer(text) /\ p.kind # "oidc"
    <2>1. p.kind = "unreadable" /\ p.widened
      BY <1>2 DEF FederatedPrincipal, Unmodelled, Principal
    <2> QED
      BY <2>1, CallerActions DEF SpeaksFor, AssumeActions, Modelled
  <1>3. CASE ~IsSAMLIssuer(text) /\ p.kind = "oidc"
    <2>1. /\ ProviderIssuer(text) /\ (text.form \in {"arn", "half arn"} => IsOIDCProvider(text))
          /\ p.issuer = IssuedBy("oidc", <<text.name>>) /\ p.account = ""
      BY <1>3 DEF FederatedPrincipal, Unmodelled, Principal
    <2>2. HasMeaning("Federated", text)
      BY <1>0, <1>a, <2>1 DEF HasMeaning, ProviderIssuer, NamesAHost
    <2>3. c \in Of("oidc") /\ c.issuer.of = <<text.name>>
      BY <1>0, <1>3, <2>2 DEF MayName, Named
    <2> QED
      BY <1>3, <2>1, <2>3, CallerActions DEF SpeaksFor, AssumeActions, Identified, Of
  <1> QED
    BY <1>1, <1>2, <1>3

(* and a service. *)
LEMMA ServicePrincipalLemma ==
    ASSUME NEW text \in Written["Service"], ~text.variable, NEW c \in Caller, c \in MayName("Service", text)
    PROVE  LET p == ServicePrincipal(text) IN
           /\ p.kind # "anyone" /\ SpeaksFor(p, c)
           /\ Modelled(p) => p.issuer = c.issuer
  <1> DEFINE p == ServicePrincipal(text)
  <1>0. text.form \in {"star", "name"} /\ text # NoText
    BY WrittenForms DEF Members
  <1>a. text.form = "star" => text.wild
    BY WrittenForms DEF Members
  <1>1. CASE p.kind # "service"
    <2>1. p.kind = "unreadable" /\ p.widened
      BY <1>1 DEF ServicePrincipal, Unmodelled, Principal
    <2> QED
      BY <2>1, CallerActions DEF SpeaksFor, AssumeActions, Modelled
  <1>2. CASE p.kind = "service"
    <2>1. /\ text.form = "name" /\ text.name # "" /\ ~text.wild
          /\ p.issuer = IssuedBy("service", Spelling(text)) /\ p.account = ""
      BY <1>0, <1>a, <1>2 DEF ServicePrincipal, Unmodelled, Principal
    <2>2. HasMeaning("Service", text)
      BY <2>1 DEF HasMeaning
    <2>3. c \in Of("service") /\ c.issuer.of = Spelling(text)
      BY <1>0, <2>2 DEF MayName, Named
    <2> QED
      BY <1>2, <2>1, <2>3, CallerActions DEF SpeaksFor, AssumeActions, Identified, Of
  <1> QED
    BY <1>1, <1>2

(***************************************************************************)
(* Whoever an entry may name its principal speaks for, unless it is "*":   *)
(* under the caller's own issuer, or as one that is not modelled.          *)
(***************************************************************************)
LEMMA EntryLemma ==
    ASSUME NEW e \in Entries, NEW c \in Caller, c \in MayName(e.member, e.text)
    PROVE  LET p == PrincipalOfKind(e.member, e.text) IN
           /\ p.kind = "anyone" => p.issuer = AWSPrincipalIssuer /\ p.account = ""
           /\ p.kind # "anyone" => SpeaksFor(p, c) /\ (Modelled(p) => p.issuer = c.issuer)
  <1> DEFINE p == PrincipalOfKind(e.member, e.text)
  <1>1. ASSUME p.kind \in {"unreadable", "canonical user"}, p.widened
        PROVE  p.kind # "anyone" /\ SpeaksFor(p, c) /\ ~Modelled(p)
    BY <1>1, CallerActions DEF SpeaksFor, AssumeActions, Modelled
  <1>2. CASE e.text = NoText \/ e.text.variable
    <2>1. p.kind = "unreadable" /\ p.widened
      BY <1>2 DEF PrincipalOfKind, Unmodelled, Principal
    <2> QED
      BY <1>1, <2>1
  <1>3. CASE e.text # NoText /\ ~e.text.variable
    <2>1. e.member \in Members /\ e.text \in Written[e.member]
      BY <1>3, EntryForms
    <2>2. CASE e.member = "AWS"
      <3>1. p = AwsPrincipal(e.text)
        BY <1>3, <2>2 DEF PrincipalOfKind
      <3> QED
        BY <1>3, <2>1, <2>2, <3>1, AwsPrincipalLemma
    <2>3. CASE e.member = "Federated"
      <3>1. p = FederatedPrincipal(e.text)
        BY <1>3, <2>3 DEF PrincipalOfKind
      <3> QED
        BY <1>3, <2>1, <2>3, <3>1, FederatedPrincipalLemma
    <2>4. CASE e.member = "Service"
      <3>1. p = ServicePrincipal(e.text)
        BY <1>3, <2>4 DEF PrincipalOfKind
      <3> QED
        BY <1>3, <2>1, <2>4, <3>1, ServicePrincipalLemma
    <2>5. CASE e.member = "CanonicalUser"
      <3>1. p.kind = "canonical user" /\ p.widened
        BY <1>3, <2>5 DEF PrincipalOfKind, Unmodelled, Principal
      <3> QED
        BY <1>1, <3>1
    <2> QED
      BY <2>1, <2>2, <2>3, <2>4, <2>5 DEF Members
  <1> QED
    BY <1>2, <1>3

(* The members of a principal as read, whatever was found of it. *)
ReadingParts == {"kind", "text", "issuer", "account", "undecided", "widened", "doubted", "found"}

(* Every reading has them. *)
LEMMA ReadingPartsLemma ==
    ASSUME NEW member, NEW text
    PROVE  DOMAIN PrincipalOfKind(member, text) = ReadingParts
  <1>1. ASSUME NEW kind, NEW t, NEW issuer PROVE DOMAIN Principal(kind, t, issuer) = ReadingParts
    BY DEF Principal, ReadingParts
  <1>2. ASSUME NEW kind, NEW t, NEW issuer, NEW why PROVE DOMAIN Unmodelled(kind, t, issuer, why) = ReadingParts
    BY <1>1 DEF Unmodelled
  <1>3. ASSUME NEW kind, NEW t, NEW undecided, NEW account
        PROVE  DOMAIN Opaque(kind, t, undecided, account) = ReadingParts /\ DOMAIN OfAccount(kind, t, account) = ReadingParts
    BY <1>1 DEF Opaque, OfAccount
  <1>4. DOMAIN Anyone(text) = ReadingParts
    BY <1>1 DEF Anyone
  <1>5. ASSUME NEW account PROVE DOMAIN ArnPrincipal(text, account) = ReadingParts
    BY <1>3 DEF ArnPrincipal
  <1>6. DOMAIN AwsPrincipal(text) = ReadingParts
    BY <1>3, <1>4, <1>5 DEF AwsPrincipal
  <1>7. DOMAIN FederatedPrincipal(text) = ReadingParts
    BY <1>1, <1>2 DEF FederatedPrincipal
  <1>8. DOMAIN ServicePrincipal(text) = ReadingParts
    BY <1>1, <1>2 DEF ServicePrincipal
  <1> QED
    BY <1>2, <1>6, <1>7, <1>8 DEF PrincipalOfKind

(***************************************************************************)
(* A member written twice adds a doubt and a note to a principal, and      *)
(* leaves whom it speaks for.                                              *)
(***************************************************************************)
LEMMA EntryPrincipalForm ==
    ASSUME NEW copy, NEW e, NEW p, p = PrincipalOfKind(e.member, e.text),
           NEW q, q = EntryPrincipal(copy, e)
    PROVE  /\ q.kind = p.kind /\ q.text = p.text /\ q.issuer = p.issuer /\ q.account = p.account
           /\ q.widened = p.widened /\ DOMAIN q = ReadingParts
  <1>1. DOMAIN p = ReadingParts
    BY ReadingPartsLemma
  <1>2. CASE e.member \in copy.twice \cup copy.empty
    <2>1. q = [p EXCEPT !.doubted = TRUE, !.found = @ \cup {<<"twice", e.member>>}]
      BY <1>2 DEF EntryPrincipal
    <2> QED
      BY <1>1, <2>1 DEF ReadingParts
  <1>3. CASE e.member \notin copy.twice \cup copy.empty
    BY <1>1, <1>3 DEF EntryPrincipal
  <1> QED
    BY <1>2, <1>3

(* A member written twice or empty is doubted; any other is read as it is. *)
LEMMA EntryPrincipalSure ==
    ASSUME NEW copy, NEW e, NEW q, q = EntryPrincipal(copy, e)
    PROVE  /\ ~q.doubted => e.member \notin copy.twice \cup copy.empty
           /\ e.member \notin copy.twice \cup copy.empty => q = PrincipalOfKind(e.member, e.text)
  <1> DEFINE p == PrincipalOfKind(e.member, e.text)
  <1>1. DOMAIN p = ReadingParts
    BY ReadingPartsLemma
  <1> HIDE DEF p
  <1>2. CASE e.member \in copy.twice \cup copy.empty
    <2>1. q = [p EXCEPT !.doubted = TRUE, !.found = @ \cup {<<"twice", e.member>>}]
      BY <1>2 DEF EntryPrincipal, p
    <2>2. q.doubted = TRUE
      BY <1>1, <2>1 DEF ReadingParts
    <2> QED
      BY <1>2, <2>2
  <1>3. CASE e.member \notin copy.twice \cup copy.empty
    BY <1>3 DEF EntryPrincipal, p
  <1> QED
    BY <1>2, <1>3, Zenon DEF p

-----------------------------------------------------------------------------
(* The grant of a face lets in whoever it speaks for and may ask. *)
LEMMA FaceGrantLemma ==
    ASSUME sense = "Allow", NEW p, NEW c \in Caller, ActionsUnknown \/ MayAsk(c), SpeaksFor(p, c)
    PROVE  LET g == FaceGrant(p) IN c \in g.admits /\ g.issuer = p.issuer /\ g.found = p.found
  <1> DEFINE covers  == ActionsUnknown \/ CoversAny(AssumeActions(p))
             folding == ~covers /\ FoldingDoubts(AssumeActions(p))
             widened == StatementWidened \/ p.widened
             exact   == ~widened /\ ~StatementDoubted /\ ~p.doubted /\ ~folding
             admits  == IF widened THEN Caller ELSE Identified(p)
  <1>1. covers \/ folding
    BY DEF SpeaksFor, MayAsk, CoversAny, FoldingDoubts
  <1>2. c \in admits
    BY DEF SpeaksFor
  <1>3. FaceGrant(p) = [issuer |-> p.issuer, admits |-> admits, exact |-> exact, found |-> p.found]
    BY <1>1, Zenon DEF FaceGrant
  <1> HIDE DEF admits, exact
  <1> QED
    BY <1>2, <1>3

(* A principal that is not "*" has its caller placed by its own grant, *)
LEMMA PlacedByPrincipal ==
    ASSUME sense = "Allow", NEW p \in PrincipalList, p.kind # "anyone",
           NEW c \in Caller, ActionsUnknown \/ MayAsk(c), SpeaksFor(p, c), Modelled(p) => p.issuer = c.issuer
    PROVE  \E g \in GrantsWritten : PlacedAmong(g, c)
  <1> DEFINE g == FaceGrant(p)
  <1>1. g \in GrantsWritten
    BY DEF GrantsWritten, Faces
  <1>2. c \in g.admits /\ g.issuer = p.issuer /\ g.found = p.found
    BY FaceGrantLemma
  <1>3. CASE ~Modelled(p)
    BY <1>1, <1>2, <1>3 DEF PlacedAmong, ModelsPrincipalOf, Projects
  <1>4. CASE Modelled(p)
    BY <1>1, <1>2, <1>4, CallerActions DEF PlacedAmong, LetsIn
  <1> QED
    BY <1>3, <1>4

(* Whoever is not an AWS principal and may ask is of the population a      *)
(* grant to any issuer is placed among.                                    *)
LEMMA PopulationLemma ==
    ASSUME StatementTypeOK, NEW c \in Caller, c.issuer.class # "aws", ActionsUnknown \/ MayAsk(c)
    PROVE  PopulationHolds(IssuerlessPopulation, c)
  <1>1. SUFFICES ASSUME IssuerlessPopulation # "every issuer" PROVE PopulationHolds(IssuerlessPopulation, c)
    BY DEF PopulationHolds
  <1>2. /\ ~ActionsUnknown /\ \A a \in acts : ActionText[a].full
        /\ ~CoversAny({"AssumeRoleWithWebIdentity"})
    BY <1>1 DEF IssuerlessPopulation
  <1>3. \A a \in acts : ActionText[a].wide = {}
    BY <1>2, PrincipalAssumption DEF StatementTypeOK
  <1>4. CoversAny({c.via})
    BY <1>2, <1>3 DEF MayAsk, CoversAny
  <1>5. c.issuer.class # "oidc"
    BY <1>2, <1>4, CallerActions
  <1>6. CASE c.issuer.class = "service"
    <2>1. CoversAny({"AssumeRole"})
      BY <1>4, <1>6, CallerActions
    <2>2. IssuerlessPopulation \in {"services", "services and saml"}
      BY <1>1, <2>1 DEF IssuerlessPopulation
    <2> QED
      BY <1>6, <2>2 DEF PopulationHolds
  <1>7. CASE c.issuer.class = "saml"
    <2>1. CoversAny({"AssumeRoleWithSAML"})
      BY <1>4, <1>7, CallerActions
    <2>2. IssuerlessPopulation \in {"saml", "services and saml"}
      BY <1>1, <2>1 DEF IssuerlessPopulation
    <2> QED
      BY <1>7, <2>2 DEF PopulationHolds
  <1> QED
    BY <1>5, <1>6, <1>7, CallerActions

(* and "*" by its own grant when it is an AWS principal, by the grant to   *)
(* any issuer when it is not.                                              *)
LEMMA PlacedByAnyone ==
    ASSUME StatementTypeOK, sense = "Allow", NEW p \in PrincipalList, DOMAIN p = ReadingParts,
           p.kind = "anyone", p.issuer = AWSPrincipalIssuer, p.account = "",
           NEW c \in Caller, ActionsUnknown \/ MayAsk(c)
    PROVE  \E g \in GrantsWritten : PlacedAmong(g, c)
  <1>1. \E action \in Assume : MayGrant(action)
    BY CallerActions DEF MayGrant, MayAsk, CoversAny, FoldingDoubts
  <1>2. FaceGrant(p) \in GrantsWritten /\ FaceGrant(AnyIssuer(p)) \in GrantsWritten
    <2>1. Faces(p) = {p, AnyIssuer(p)}
      BY <1>1 DEF Faces
    <2> QED
      BY <2>1 DEF GrantsWritten
  <1>3. CASE c.issuer.class = "aws"
    <2>1. SpeaksFor(p, c)
      BY <1>3, CallerActions DEF SpeaksFor, AssumeActions, Identified
    <2>2. c \in FaceGrant(p).admits /\ FaceGrant(p).issuer = AWSPrincipalIssuer
      BY <2>1, FaceGrantLemma
    <2> QED
      BY <1>2, <1>3, <2>2, CallerActions DEF PlacedAmong, LetsIn
  <1>4. CASE c.issuer.class # "aws"
    <2> DEFINE q == AnyIssuer(p)
    <2>1. q.kind = "any issuer" /\ q.issuer = NoIssuer /\ q.widened
      BY DEF AnyIssuer, ReadingParts
    <2>2. SpeaksFor(q, c)
      BY <2>1, CallerActions DEF SpeaksFor, AssumeActions
    <2>3. c \in FaceGrant(q).admits /\ FaceGrant(q).issuer = NoIssuer
      BY <2>1, <2>2, FaceGrantLemma
    <2>4. PopulationHolds(IssuerlessPopulation, c)
      BY <1>4, PopulationLemma
    <2> QED
      BY <1>2, <2>3, <2>4 DEF PlacedAmong, LetsIn
  <1> QED
    BY <1>3, <1>4

(* The statement of nobody that was read is not modelled, and lets in all. *)
LEMMA PlacedByNobody ==
    ASSUME sense = "Allow", Nobody \in PrincipalList, StatementWidened,
           NEW c \in Caller, ActionsUnknown \/ MayAsk(c)
    PROVE  \E g \in GrantsWritten : PlacedAmong(g, c)
  <1>1. Nobody.kind = "unreadable" /\ Nobody.account = ""
    BY DEF Nobody, Principal
  <1>2. SpeaksFor(Nobody, c)
    BY <1>1, CallerActions DEF SpeaksFor, AssumeActions, Identified
  <1> QED
    BY <1>1, <1>2, PlacedByPrincipal DEF Modelled

(***************************************************************************)
(* Whoever an Allow may let in is in the population some grant of it is    *)
(* placed among, whatever its principals and actions (parsePrincipals,     *)
(* faces, IssuerlessPopulation, ModelsPrincipalOf).                        *)
(***************************************************************************)
THEOREM CallersArePlaced == PrincipalSpec => []EveryCallerIsPlaced
  <1>1. StatementTypeOK => EveryCallerIsPlaced
    <2> SUFFICES ASSUME StatementTypeOK, sense = "Allow", NEW c \in MaySpeakOf
                 PROVE  \E g \in GrantsWritten : PlacedAmong(g, c)
      BY DEF EveryCallerIsPlaced
    <2>1. c \in Caller /\ (ActionsUnknown \/ MayAsk(c))
      BY DEF MaySpeakOf
    <2>2. \A n \in DOMAIN copies : copies[n] \in Copies
      BY DEF StatementTypeOK
    <2> DEFINE list == UNION { PrincipalsIn(copies[n]) : n \in DOMAIN copies }
    <2>3. CASE excluded \/ list = {}
      <3>1. PrincipalList = {Nobody}
        BY <2>3 DEF PrincipalList
      <3> QED
        BY <2>1, <3>1, PlacedByNobody DEF StatementWidened
    <2>4. CASE ~excluded /\ list # {}
      <3>1. PrincipalList = list
        BY <2>4 DEF PrincipalList
      <3>2. ASSUME NEW n \in DOMAIN copies, copies[n].shape = "other"
            PROVE  \E g \in GrantsWritten : PlacedAmong(g, c)
        <4>1. Nobody \in PrincipalList
          BY <3>1, <3>2 DEF PrincipalsIn
        <4> QED
          BY <2>1, <3>2, <4>1, PlacedByNobody DEF StatementWidened
      <3>3. ASSUME NEW n \in DOMAIN copies, copies[n].shape = "star"
            PROVE  \E g \in GrantsWritten : PlacedAmong(g, c)
        <4>1. Anyone(Star) \in PrincipalList
          BY <3>1, <3>3 DEF PrincipalsIn
        <4>2. LET p == Anyone(Star) IN
                DOMAIN p = ReadingParts /\ p.kind = "anyone" /\ p.issuer = AWSPrincipalIssuer /\ p.account = ""
          BY DEF Anyone, Principal, ReadingParts
        <4> QED
          BY <2>1, <4>1, <4>2, PlacedByAnyone
      <3>4. ASSUME NEW n \in DOMAIN copies, copies[n].shape = "object",
                   NEW e \in copies[n].entries, c \in MayName(e.member, e.text)
            PROVE  \E g \in GrantsWritten : PlacedAmong(g, c)
        <4> DEFINE p == PrincipalOfKind(e.member, e.text)
                   q == EntryPrincipal(copies[n], e)
        <4>1. q \in PrincipalList
          BY <3>1, <3>4 DEF PrincipalsIn
        <4>2. e \in Entries
          BY <2>2, <3>4 DEF Copies
        <4>3. /\ p.kind = "anyone" => p.issuer = AWSPrincipalIssuer /\ p.account = ""
              /\ p.kind # "anyone" => SpeaksFor(p, c) /\ (Modelled(p) => p.issuer = c.issuer)
          BY <2>1, <3>4, <4>2, EntryLemma
        <4>4. /\ q.kind = p.kind /\ q.text = p.text /\ q.issuer = p.issuer /\ q.account = p.account
              /\ q.widened = p.widened /\ DOMAIN q = ReadingParts
          BY EntryPrincipalForm
        <4> HIDE DEF p, q
        <4>5. CASE q.kind = "anyone"
          BY <2>1, <4>1, <4>3, <4>4, <4>5, PlacedByAnyone
        <4>6. CASE q.kind # "anyone"
          <5>1. Modelled(q) => q.issuer = c.issuer
            BY <4>3, <4>4, <4>6 DEF Modelled
          <5>2. AssumeActions(q) = AssumeActions(p) /\ Identified(q) = Identified(p)
            BY <4>4 DEF AssumeActions, Identified
          <5>3. SpeaksFor(q, c)
            BY <4>3, <4>4, <4>6, <5>2 DEF SpeaksFor
          <5> QED
            BY <2>1, <4>1, <4>6, <5>1, <5>3, PlacedByPrincipal
        <4> QED
          BY <4>5, <4>6
      <3>5. copies # <<>>
        BY <2>4
      <3>6. \/ \E n \in DOMAIN copies : copies[n].shape # "object"
            \/ \E n \in DOMAIN copies : \E e \in copies[n].entries : c \in MayName(e.member, e.text)
        BY <2>4, <3>5 DEF MaySpeakOf, AnyCopy
      <3> QED
        BY <2>2, <3>2, <3>3, <3>4, <3>6 DEF Copies
    <2> QED
      BY <2>3, <2>4
  <1> QED
    BY <1>1, StatementTyping, PTL

-----------------------------------------------------------------------------
(* The fields of an issuer, *)
LEMMA IssuerFields ==
    ASSUME NEW class, NEW of
    PROVE  IssuedBy(class, of).class = class /\ IssuedBy(class, of).of = of
  BY DEF IssuedBy

(* and of a principal nothing was found of. *)
LEMMA PrincipalFields ==
    ASSUME NEW kind, NEW text, NEW issuer
    PROVE  Principal(kind, text, issuer).kind = kind /\ Principal(kind, text, issuer).issuer = issuer
  BY DEF Principal

(* A provider or a service is not the issuer that stands for any. *)
LEMMA DifferentClasses ==
    ASSUME NEW of PROVE IssuedBy("oidc", of) # NoIssuer /\ IssuedBy("service", of) # NoIssuer
  <1>1. NoIssuer.class = "none" /\ IssuedBy("oidc", of).class = "oidc" /\ IssuedBy("service", of).class = "service"
    BY IssuerFields DEF NoIssuer
  <1> QED
    BY <1>1

(***************************************************************************)
(* A principal read with neither a widening nor a doubt names, of the      *)
(* callers it leaves of its issuer, only those AWS surely names, and they  *)
(* ask through the one action of its kind.                                 *)
(***************************************************************************)
LEMMA ExactEntryLemma ==
    ASSUME NEW e \in Entries, NEW c \in Caller,
           LET p == PrincipalOfKind(e.member, e.text) IN
             ~p.widened /\ ~p.doubted /\ c \in Identified(p) /\ p.issuer \in {NoIssuer, c.issuer}
    PROVE  /\ c \in SurelyNamed(e.member, e.text)
           /\ AssumeActions(PrincipalOfKind(e.member, e.text)) = {c.via}
  <1> DEFINE text == e.text
             p == PrincipalOfKind(e.member, e.text)
  <1>1. text # NoText /\ ~text.variable
    BY DEF PrincipalOfKind, Unmodelled, Principal
  <1>2. e.member \in Members /\ text \in Written[e.member]
    BY <1>1, EntryForms
  <1>3. text.form \in {"star", "name", "arn", "half arn"} /\ "" \notin AccountId
    BY <1>2, WrittenForms, WrittenAssumption
  <1>4. text.form = "star" => text.wild
    BY <1>2, WrittenForms
  <1>5. e.member = "Service" => text.form \in {"star", "name"}
    BY <1>2, WrittenForms
  <1>6. CASE e.member = "AWS"
    <2>1. p = AwsPrincipal(text)
      BY <1>1, <1>6 DEF PrincipalOfKind
    <2>2. p.issuer = AWSPrincipalIssuer
      BY <2>1 DEF AwsPrincipal, ArnPrincipal, Anyone, OfAccount, Opaque, Principal
    <2>3. c \in Of("aws") /\ c.via = "AssumeRole"
      BY <2>2, CallerActions DEF Of, NoIssuer, AWSPrincipalIssuer, IssuedBy
    <2>4. CASE text.form = "star"
      <3>1. p.kind = "anyone"
        BY <2>1, <2>4 DEF AwsPrincipal, Anyone, Principal
      <3>2. c \in Named("AWS", text)
        BY <2>3, <2>4 DEF Named
      <3> QED
        BY <1>1, <1>6, <2>3, <2>4, <3>1, <3>2 DEF SurelyNamed, AssumeActions
    <2>5. CASE text.form = "name"
      <3>1. text.name \in AccountId /\ p.kind = "account" /\ p.account = text.name
        BY <2>1, <2>5 DEF AwsPrincipal, IsAccountID, Opaque, OfAccount, Principal
      <3>2. c \in Named("AWS", text) /\ HasMeaning("AWS", text)
        BY <1>3, <2>3, <2>5, <3>1 DEF Named, HasMeaning, Identified
      <3> QED
        BY <1>1, <1>6, <2>3, <3>1, <3>2 DEF SurelyNamed, AssumeActions
    <2>6. text.form # "half arn"
      BY <2>1 DEF AwsPrincipal, Opaque, Principal
    <2>7. CASE text.form = "arn"
      <3>1. PICK account : p = ArnPrincipal(text, account)
        BY <2>1, <2>7 DEF AwsPrincipal
      <3>2. /\ text.service \in {"iam", "sts"} /\ ~Misformed(text) /\ text.account # ""
            /\ p.account = text.account /\ p.text = text
            /\ \/ IsRoot(text) /\ p.kind = "account"
               \/ ~IsRoot(text) /\ p.kind = "identity" /\ text.service = "iam" /\ NamesIAM(text)
               \/ ~IsRoot(text) /\ p.kind = "identity" /\ text.service # "iam" /\ text.resource = "federated-user" /\ text.name # ""
        BY <3>1 DEF ArnPrincipal, Opaque, OfAccount, Principal
      <3>3. WholeArn(text) /\ IamArn(text)
        BY <2>7, <3>2 DEF WholeArn, IamArn, Misformed, IsAccountID
      <3>4. HasMeaning("AWS", text)
        BY <2>7, <3>2, <3>3 DEF HasMeaning, Kinds, NamesIAM
      <3>5. c \in Named("AWS", text)
        BY <2>3, <2>7, <3>2 DEF Named, Identified
      <3> QED
        BY <1>1, <1>6, <2>3, <3>2, <3>4, <3>5 DEF SurelyNamed, AssumeActions
    <2> QED
      BY <1>3, <2>4, <2>5, <2>6, <2>7
  <1>7. CASE e.member = "Federated"
    <2>1. p = FederatedPrincipal(text)
      BY <1>1, <1>7 DEF PrincipalOfKind
    <2>2. ~IsSAMLIssuer(text)
      BY <2>1 DEF FederatedPrincipal, Unmodelled, Principal
    <2>3. ProviderIssuer(text) /\ (text.form \in {"arn", "half arn"} => IsOIDCProvider(text))
      BY <2>1, <2>2 DEF FederatedPrincipal, Unmodelled, Principal
    <2>4. p = Principal("oidc", text, IssuedBy("oidc", <<text.name>>))
      BY <2>1, <2>2, <2>3 DEF FederatedPrincipal
    <2>5. p.kind = "oidc" /\ p.issuer = IssuedBy("oidc", <<text.name>>)
      BY <2>4, PrincipalFields
    <2>6. c.issuer = IssuedBy("oidc", <<text.name>>)
      BY <2>5, DifferentClasses
    <2>7. c.issuer.class = "oidc" /\ c.issuer.of = <<text.name>>
      BY <2>6, IssuerFields
    <2>8. c \in Named("Federated", text) /\ c.via = "AssumeRoleWithWebIdentity"
      BY <2>2, <2>7, CallerActions DEF Named, Of
    <2>9. HasMeaning("Federated", text)
      BY <1>3, <1>4, <2>3 DEF HasMeaning, ProviderIssuer, NamesAHost
    <2> QED
      BY <1>1, <1>7, <2>5, <2>8, <2>9 DEF SurelyNamed, AssumeActions
  <1>8. CASE e.member = "Service"
    <2>1. p = ServicePrincipal(text)
      BY <1>1, <1>8 DEF PrincipalOfKind
    <2>2. /\ ~text.wild /\ ~(text.form = "name" /\ text.name = "")
          /\ p.kind = "service" /\ p.issuer = IssuedBy("service", Spelling(text))
      BY <2>1 DEF ServicePrincipal, Unmodelled, Principal
    <2>3. c.issuer = IssuedBy("service", Spelling(text))
      BY <2>2, DifferentClasses
    <2>4. c.issuer.class = "service" /\ c.issuer.of = Spelling(text)
      BY <2>3, IssuerFields
    <2>5. c \in Named("Service", text) /\ c.via = "AssumeRole"
      BY <2>4, CallerActions DEF Named, Of
    <2>6. HasMeaning("Service", text)
      BY <1>4, <1>5, <1>8, <2>2 DEF HasMeaning
    <2> QED
      BY <1>1, <1>8, <2>2, <2>5, <2>6 DEF SurelyNamed, AssumeActions
  <1>9. e.member # "CanonicalUser"
    BY <1>1 DEF PrincipalOfKind, Unmodelled, Principal
  <1> QED
    BY <1>2, <1>6, <1>7, <1>8, <1>9 DEF Members

(***************************************************************************)
(* A grant with no caveat covers only callers the statement surely speaks  *)
(* of, an Allow's and a Deny's (identity, awsPrincipal, Statement.grant).  *)
(***************************************************************************)
THEOREM ExactPrincipalsTheorem == PrincipalSpec => []ExactPrincipalsAreDeployed
  <1>1. StatementTypeOK => ExactPrincipalsAreDeployed
    <2> SUFFICES ASSUME StatementTypeOK, NEW g \in GrantsWritten, g.exact,
                        NEW c \in Caller, LetsIn(g, c)
                 PROVE  c \in SurelySpeaksOf
      BY DEF ExactPrincipalsAreDeployed
    <2>1. PICK r \in PrincipalList : \E p \in Faces(r) : g = FaceGrant(p)
      BY DEF GrantsWritten
    <2>0. PICK p \in Faces(r) : g = FaceGrant(p)
      BY <2>1
    <2> DEFINE covers  == ActionsUnknown \/ CoversAny(AssumeActions(p))
               folding == ~covers /\ FoldingDoubts(AssumeActions(p))
               widened == StatementWidened \/ p.widened
               exact   == ~widened /\ ~StatementDoubted /\ ~p.doubted /\ ~folding
               admits  == IF widened THEN Caller ELSE Identified(p)
    <2>2. \/ g.admits = {}
          \/ g.exact = FALSE
          \/ (covers \/ folding) /\ g.admits = admits /\ g.exact = exact /\ g.issuer = p.issuer
      BY <2>0 DEF FaceGrant
    <2>3. /\ covers /\ ~StatementWidened /\ ~p.widened /\ ~StatementDoubted /\ ~p.doubted
          /\ c \in Identified(p) /\ p.issuer \in {NoIssuer, c.issuer}
      BY <2>2 DEF LetsIn
    <2>4. /\ ~excluded /\ Len(copies) = 1 /\ ~ActionsUnknown
          /\ copies[1].shape # "other" /\ copies[1] \in Copies /\ DOMAIN copies = {1}
      BY <2>3 DEF StatementWidened, ActionsUnknown, StatementTypeOK
    <2>5. r \in PrincipalsIn(copies[1])
      <3>1. UNION { PrincipalsIn(copies[n]) : n \in DOMAIN copies } = PrincipalsIn(copies[1])
        BY <2>4
      <3> QED
        BY <2>3, <2>4, <3>1 DEF PrincipalList, StatementWidened
    <2>6. DOMAIN r = ReadingParts
      <3>1. CASE copies[1].shape = "star"
        BY <2>5, <3>1 DEF PrincipalsIn, Anyone, Principal, ReadingParts
      <3>2. CASE copies[1].shape = "object"
        <4>1. PICK e \in copies[1].entries : r = EntryPrincipal(copies[1], e)
          BY <2>5, <3>2 DEF PrincipalsIn
        <4> QED
          BY <4>1, EntryPrincipalForm
      <3> QED
        BY <2>4, <3>1, <3>2 DEF Copies
    <2>7. p = r
      <3>1. AnyIssuer(r).widened = TRUE
        BY <2>6 DEF AnyIssuer, ReadingParts
      <3> QED
        BY <2>3, <3>1 DEF Faces
    <2>8. CASE copies[1].shape = "star"
      <3>1. p = Anyone(Star)
        BY <2>5, <2>7, <2>8 DEF PrincipalsIn
      <3>2. p.issuer = AWSPrincipalIssuer /\ p.kind = "anyone"
        BY <3>1 DEF Anyone, Principal
      <3>3. c.issuer = AWSPrincipalIssuer
        BY <2>3, <3>2, IssuerFields DEF NoIssuer, AWSPrincipalIssuer
      <3>4. c.issuer.class = "aws"
        BY <3>3, IssuerFields DEF AWSPrincipalIssuer
      <3>5. AssumeActions(p) = {c.via}
        BY <3>2, <3>4, CallerActions DEF AssumeActions
      <3>6. MustAsk(c)
        BY <2>3, <2>4, <3>5 DEF MustAsk, CoversAny
      <3> QED
        BY <2>4, <2>8, <3>4, <3>6 DEF SurelySpeaksOf, AnyCopy, Of
    <2>9. CASE copies[1].shape = "object"
      <3>1. PICK e \in copies[1].entries : p = EntryPrincipal(copies[1], e)
        BY <2>5, <2>7, <2>9 DEF PrincipalsIn
      <3>2. e.member \notin copies[1].twice \cup copies[1].empty
        BY <2>3, <3>1, EntryPrincipalSure
      <3>3. p = PrincipalOfKind(e.member, e.text)
        BY <3>1, <3>2, EntryPrincipalSure
      <3>4. e \in Entries
        BY <2>4 DEF Copies
      <3>5. c \in SurelyNamed(e.member, e.text) /\ AssumeActions(p) = {c.via}
        BY <2>3, <3>3, <3>4, ExactEntryLemma
      <3>6. MustAsk(c)
        BY <2>3, <2>4, <3>5 DEF MustAsk, CoversAny
      <3>7. copies[1].empty = {}
        BY <2>3, <2>4 DEF StatementDoubted
      <3> QED
        BY <2>4, <2>9, <3>2, <3>5, <3>6, <3>7 DEF SurelySpeaksOf, AnyCopy
    <2> QED
      BY <2>4, <2>8, <2>9 DEF Copies
  <1> QED
    BY <1>1, StatementTyping, PTL
=============================================================================
