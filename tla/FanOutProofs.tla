---------------------------- MODULE FanOutProofs ----------------------------
(***************************************************************************)
(* What internal/join's links say is so, for any corpus of grants whose    *)
(* readers keep their promise (StatementAssumption): no shared counterparty*)
(* is lost, and an Established link is a fact wherever an audience a side  *)
(* asks for exists.                                                        *)
(***************************************************************************)
EXTENDS FanOut, AdmittedSetProofs

-----------------------------------------------------------------------------
(* normalise constrains no claim that it was not given. *)
LEMMA NormaliseDomain ==
    ASSUME NEW T, NEW C, NEW op, NEW c, \A t \in T : c \notin DOMAIN t
    PROVE  \A t \in Normalise(T, C, op).terms : c \notin DOMAIN t
  <1>1. \A t \in Live(T) : c \notin DOMAIN t
    BY DEF Live, NormaliseTerm
  <1>2. Normalise(T, C, op).terms \in {{EmptyTerm}, Live(T)}
    BY DEF Normalise, Set
  <1> QED
    BY <1>1, <1>2, EmptyTermLemma

(* A term with the audience set aside, and a token without one. *)
Rest(t) == [c \in DOMAIN t \cap (Claim \ {Audience}) |-> t[c]]

(* What remains of a term asks the same of every claim but the audience. *)
LEMMA RestLemma ==
    ASSUME NEW t \in ClaimTerms
    PROVE  /\ Rest(t) \in ClaimTerms /\ Audience \notin DOMAIN Rest(t)
           /\ \A token : Failures(Rest(t), token) = Failures(t, token) \ {Audience}
  <1>1. /\ DOMAIN t \in SUBSET Claim /\ \A c \in DOMAIN t : t[c] \in StringSets
    BY TermIsFunction
  <1>2. /\ DOMAIN Rest(t) = DOMAIN t \ {Audience}
        /\ \A c \in DOMAIN Rest(t) : Rest(t)[c] = t[c]
        /\ Rest(t) = [c \in DOMAIN Rest(t) |-> Rest(t)[c]]
    BY <1>1 DEF Rest
  <1>3. Rest(t) \in ClaimTerms
    BY <1>1, <1>2, TermIsFunction
  <1> QED
    BY <1>2, <1>3 DEF Failures

(* What is assumed of a statement's reading. *)
LEMMA ReadingsAreCanonical ==
    ASSUME NEW s \in Statement
    PROVE  Canonical(s.grant.admits)
  <1>1. \A t \in s.grant.admits.terms :
            DOMAIN t \in SUBSET Claim /\ t \in TermsOver(DOMAIN t) /\ Reduced(t, s.grant.admits)
    BY StatementAssumption
  <1> QED
    BY <1>1 DEF Canonical, ClaimTerms

(* Without a constraint on the audience, a token's audience says nothing.  *)
LEMMA AudienceSetAside ==
    ASSUME NEW t, Audience \notin DOMAIN t, NEW token
    PROVE  Failures(t, Identity(token)) = Failures(t, token)
  <1>1. \A c \in DOMAIN t : /\ c \in DOMAIN Identity(token) <=> c \in DOMAIN token
                            /\ c \in DOMAIN token => Identity(token)[c] = token[c]
    BY DEF Identity
  <1>2. \A c \in DOMAIN t : Satisfies(t[c], c, Identity(token)) <=> Satisfies(t[c], c, token)
    <2> SUFFICES ASSUME NEW c \in DOMAIN t
                 PROVE  Satisfies(t[c], c, Identity(token)) <=> Satisfies(t[c], c, token)
      OBVIOUS
    <2>1. CASE c \in DOMAIN token
      <3>1. c \in DOMAIN Identity(token) /\ Identity(token)[c] = token[c]
        BY <1>1, <2>1
      <3> QED
        BY <2>1, <3>1 DEF Satisfies
    <2>2. CASE c \notin DOMAIN token
      BY <1>1, <2>2 DEF Satisfies
    <2> QED
      BY <2>1, <2>2
  <1> QED
    BY <1>2 DEF Failures

(* Grant.WithoutAudience: what it keeps, and what it admits. *)
LEMMA WithoutAudienceLemma ==
    ASSUME NEW g, Canonical(g.admits)
    PROVE  LET p == WithoutAudience(g)
           IN  /\ Canonical(p) /\ g.admits.caveats \subseteq p.caveats
               /\ \A t \in p.terms : Audience \notin DOMAIN t
               /\ \A token : Admits(g.admits, token) => Admits(p, token)
               /\ IsExact(p) => \A token : Admits(p, token) =>
                    \E t \in g.admits.terms : Failures(t, token) \subseteq {Audience}
  <1> DEFINE s == g.admits
             T == { Rest(t) : t \in s.terms }
             kept == NewAdmittedSet(T)
             p == WithoutAudience(g)
  <1>1. p.terms = kept.terms /\ p.caveats = kept.caveats \cup s.caveats
    BY DEF WithoutAudience, Project, Rest, Set
  <1>2. T \in SUBSET ClaimTerms /\ \A t \in T : Audience \notin DOMAIN t
    BY RestLemma DEF Canonical, Reduced
  <1> HIDE DEF T
  <1>3. Normalises(kept, T, {}, "NewAdmittedSet")
    BY <1>2, NormaliseLemma DEF NewAdmittedSet
  <1>4. \A t \in kept.terms : Audience \notin DOMAIN t
    BY <1>2, NormaliseDomain DEF NewAdmittedSet
  <1> HIDE DEF kept, p
  <1>5. Canonical(p)
    BY <1>1, <1>3 DEF Normalises, Canonical, Reduced
  <1>6. \A token : Admits(p, token) <=> Admits(kept, token)
    BY <1>1 DEF Admits
  <1>7. ASSUME NEW token, Admits(s, token) PROVE Admits(p, token)
    <2>1. PICK t \in s.terms : Failures(t, token) = {}
      BY <1>7 DEF Admits
    <2>2. Rest(t) \in T /\ Failures(Rest(t), token) = {}
      BY <2>1, RestLemma DEF Canonical, Reduced, T
    <2> QED
      BY <1>3, <1>6, <2>2 DEF Normalises, SomeTermAdmits
  <1>8. ASSUME IsExact(p), NEW token, Admits(p, token)
        PROVE  \E t \in s.terms : Failures(t, token) \subseteq {Audience}
    <2>1. IsExact(kept) /\ Admits(kept, token)
      BY <1>1, <1>6, <1>8 DEF IsExact
    <2>2. PICK u \in T : Failures(u, token) = {}
      BY <1>3, <2>1 DEF Normalises, SomeTermAdmits
    <2>3. PICK t \in s.terms : u = Rest(t)
      BY DEF T
    <2>4. Failures(t, token) \ {Audience} = {}
      BY <2>2, <2>3, RestLemma DEF Canonical, Reduced
    <2> QED
      BY <2>4
  <1> QED
    BY <1>1, <1>4, <1>5, <1>7, <1>8 DEF p

(* The overlap of two sides. *)
LEMMA OverlapLemma ==
    ASSUME NEW a, NEW b, Canonical(a.admits), Canonical(b.admits)
    PROVE  LET o == Overlap(a, b)
           IN  /\ Canonical(o)
               /\ WithoutAudience(a).caveats \cup WithoutAudience(b).caveats \subseteq o.caveats
               /\ \A t \in o.terms : Audience \notin DOMAIN t
               /\ \A token : Admits(WithoutAudience(a), token) /\ Admits(WithoutAudience(b), token)
                    => Admits(o, token)
  <1> DEFINE A == WithoutAudience(a)
             B == WithoutAudience(b)
             T == { Conjoin(x, y) : x \in A.terms, y \in B.terms }
  <1>1. /\ Canonical(A) /\ \A t \in A.terms : Audience \notin DOMAIN t
        /\ Canonical(B) /\ \A t \in B.terms : Audience \notin DOMAIN t
    BY WithoutAudienceLemma
  <1>2. \A t \in T : Audience \notin DOMAIN t
    <2> SUFFICES ASSUME NEW x \in A.terms, NEW y \in B.terms
                 PROVE  Audience \notin DOMAIN Conjoin(x, y)
      OBVIOUS
    <2> QED
      BY <1>1 DEF Conjoin
  <1>3. Overlap(a, b) = Normalise(T, A.caveats \cup B.caveats, "Meet")
    BY DEF Overlap, MeetSets
  <1>4. Overlap(a, b) = MeetSets(A, B)
    BY DEF Overlap
  <1> HIDE DEF A, B, T
  <1>5. \A t \in Overlap(a, b).terms : Audience \notin DOMAIN t
    BY <1>2, <1>3, NormaliseDomain
  <1> QED
    BY <1>1, <1>4, <1>5, MeetSetsLemma DEF A, B

-----------------------------------------------------------------------------
(***************************************************************************)
(* What FanOut's result is: of the corpus as it stood, a link for every    *)
(* two grants that may share an identity and no other, and the grants that *)
(* are not well formed.                                                    *)
(***************************************************************************)
Denials == { g \in Grants : g.effect # "Allow" }

FanInv ==
    /\ corpus \subseteq Statement /\ done \in BOOLEAN
    /\ ~done => links = {}
    /\ done => refused = { g \in Grants : ~WellFormed(g) }
    /\ done => \A a, b \in Grants : Linkable(a, b) => NewLink(a, b, Denials) \in links
    /\ \A l \in links : \E a, b \in Grants : Linkable(a, b) /\ l = NewLink(a, b, Denials)

(* FanOut's result stays what its corpus says. *)
LEMMA FanInvariant == Spec => []FanInv
  <1>1. Init => FanInv
    BY DEF Init, FanInv
  <1>2. FanInv /\ [Next]_vars => FanInv'
    <2> SUFFICES ASSUME FanInv, [Next]_vars PROVE FanInv'
      OBVIOUS
    <2>1. ASSUME NEW s \in Statement, Collect(s) PROVE FanInv'
      BY <2>1 DEF FanInv, Collect
    <2>2. CASE Fan
      <3> DEFINE D == { g \in Grants : g.effect # "Allow" }
                 pairs == { q \in Grants \X Grants : Linkable(q[1], q[2]) }
      <3>1. Grants' = Grants /\ Denials = D /\ Denials' = D
        BY <2>2 DEF Fan, Grants, Denials
      <3>2. /\ links' = { NewLink(p[1], p[2], D) : p \in pairs }
            /\ refused' = { g \in Grants : ~WellFormed(g) }
            /\ done' = TRUE /\ corpus' = corpus
        BY <2>2 DEF Fan
      <3> HIDE DEF D
      <3>3. ASSUME NEW a \in Grants, NEW b \in Grants, Linkable(a, b)
            PROVE  NewLink(a, b, D) \in links'
        <4>1. <<a, b>> \in pairs
          BY <3>3
        <4> QED
          BY <3>2, <4>1
      <3>4. ASSUME NEW l \in links'
            PROVE  \E a, b \in Grants : Linkable(a, b) /\ l = NewLink(a, b, D)
        <4>1. PICK p \in pairs : l = NewLink(p[1], p[2], D)
          BY <3>2
        <4> QED
          BY <4>1
      <3> QED
        BY <3>1, <3>2, <3>3, <3>4 DEF FanInv
    <2>3. CASE UNCHANGED vars
      BY <2>3 DEF FanInv, vars, Grants, Denials
    <2> QED
      BY <2>1, <2>2, <2>3 DEF Next
  <1> QED
    BY <1>1, <1>2, PTL DEF Spec

(***************************************************************************)
(* FanOut loses no shared counterparty in silence: whenever one identity   *)
(* satisfies an allowing statement on each of two targets, from issuers    *)
(* that may be one, there is a link, or an error naming a side that has no *)
(* target or no record, whatever the walk found and however the overlap    *)
(* was widened.                                                            *)
(***************************************************************************)
THEOREM NoCounterpartyIsLost == Spec => []SharedCounterpartiesAreLinked
  <1>1. FanInv => SharedCounterpartiesAreLinked
    <2> SUFFICES ASSUME FanInv, done, NEW s \in corpus, NEW u \in corpus,
                        s.allows, u.allows,
                        s.grant.target # u.grant.target,
                        MayShareIssuer(s.grant.issuer, u.grant.issuer),
                        s.matches \subseteq Admitted(s.grant.admits),
                        u.matches \subseteq Admitted(u.grant.admits),
                        { Identity(t) : t \in s.matches } \cap { Identity(t) : t \in u.matches } # {}
                 PROVE  \/ \E l \in links : l.sides = {s.grant, u.grant}
                        \/ \E g \in {s.grant, u.grant} \cap refused :
                             g.target = NoTarget \/ g.records \subseteq Nameless
      BY DEF SharedCounterpartiesAreLinked
    <2> DEFINE a == s.grant
               b == u.grant
    <2>1. s \in Statement /\ u \in Statement /\ a \in Grants /\ b \in Grants
      BY DEF FanInv, Grants
    <2>2. /\ Canonical(a.admits) /\ Canonical(b.admits)
          /\ a.effect # "Deny" /\ b.effect # "Deny"
      BY <2>1, StatementAssumption, ReadingsAreCanonical DEF Faithful
    <2>3. CASE ~WellFormed(a) \/ ~WellFormed(b)
      <3>1. PICK g \in {a, b} : ~WellFormed(g)
        BY <2>3
      <3>2. g \in refused
        BY <2>1, <3>1 DEF FanInv
      <3>3. g.target = NoTarget \/ g.records \subseteq Nameless
        BY <3>1 DEF WellFormed, Named, Evidenced
      <3> QED
        BY <3>2, <3>3
    <2>4. CASE WellFormed(a) /\ WellFormed(b)
      <3>1. Pairable(a, b)
        BY <2>2, <2>4 DEF Pairable, WellFormed
      <3>2. PICK t \in s.matches, v \in u.matches : Identity(t) = Identity(v)
        OBVIOUS
      <3>3. Admits(a.admits, t) /\ Admits(b.admits, v)
        BY DEF Admitted
      <3>4. Admits(WithoutAudience(a), t) /\ Admits(WithoutAudience(b), v)
        BY <2>2, <3>3, WithoutAudienceLemma
      <3>5. Admits(WithoutAudience(a), Identity(t)) /\ Admits(WithoutAudience(b), Identity(t))
        <4>1. /\ \A r \in WithoutAudience(a).terms : Audience \notin DOMAIN r
              /\ \A r \in WithoutAudience(b).terms : Audience \notin DOMAIN r
          BY <2>2, WithoutAudienceLemma
        <4> QED
          BY <3>2, <3>4, <4>1, AudienceSetAside DEF Admits
      <3>6. Admits(Overlap(a, b), Identity(t))
        BY <2>2, <3>5, OverlapLemma
      <3>7. Linkable(a, b)
        BY <3>1, <3>6 DEF Linkable, AdmitsNobody, Admits
      <3>8. NewLink(a, b, Denials) \in links
        BY <2>1, <3>7 DEF FanInv
      <3>9. NewLink(a, b, Denials).sides = {a, b}
        BY DEF NewLink
      <3> QED
        BY <3>8, <3>9
    <2> QED
      BY <2>3, <2>4
  <1> QED
    BY <1>1, FanInvariant, PTL

-----------------------------------------------------------------------------
(* An example is a token without an audience that both sides admit. *)
LEMMA WitnessLemma ==
    ASSUME NEW o, Canonical(o), \A t \in o.terms : Audience \notin DOMAIN t, NEW A, NEW B,
           WitnessOf(o, A, B) # NoWitness
    PROVE  LET w == WitnessOf(o, A, B)
           IN  /\ w \in Tokens /\ Audience \notin DOMAIN w
               /\ Admits(A, w) /\ Admits(B, w)
  <1> DEFINE all == UNION { TermWitnesses(t) : t \in o.terms }
             confirmed == { w \in all : Admits(A, w) /\ Admits(B, w) }
             w == WitnessOf(o, A, B)
  <1>1. w = IF confirmed = {} THEN NoWitness ELSE CHOOSE x \in confirmed : TRUE
    BY DEF WitnessOf
  <1> HIDE DEF w
  <1>2. w \in all /\ Admits(A, w) /\ Admits(B, w)
    BY <1>1 DEF w
  <1>3. PICK t \in o.terms : w \in TermWitnesses(t)
    BY <1>2
  <1>4. /\ DOMAIN t \in SUBSET Claim /\ Audience \notin DOMAIN t
        /\ \A c \in DOMAIN t : t[c] \in StringSets /\ ~IsEmpty(t[c])
    BY TermIsFunction DEF Canonical, Reduced
  <1>5. /\ \A c \in Shown(t) : ShapeWitnesses(t[c]) # {}
        /\ w = [c \in Shown(t) |-> CHOOSE v \in ShapeWitnesses(t[c]) : TRUE]
    BY <1>3 DEF TermWitnesses
  <1>6. ASSUME NEW c \in Shown(t) PROVE ShapeWitnesses(t[c]) \subseteq Value
    <2>1. t[c].kind = "terms" /\ t[c].terms \subseteq Terms
      BY <1>4, SetForms DEF Shown, IsTop, IsEmpty
    <2>2. ASSUME NEW m \in t[c].terms, MemberWitness(m) # NoInstance
          PROVE  MemberWitness(m) \in Value
      <3>1. CASE m.kind = "exact"
        BY <2>1, <3>1, TermForms DEF MemberWitness
      <3>2. CASE m.kind = "globs"
        <4>1. m.globs \in (SUBSET Pattern) \ {{}}
          BY <2>1, <3>2, TermForms
        <4>2. Instance[m.globs] \in Value \cup {NoInstance}
          BY <4>1, StatementAssumption
        <4> QED
          BY <2>2, <3>2, <4>2 DEF MemberWitness
      <3> QED
        BY <2>1, <3>1, <3>2, TermForms
    <2> QED
      BY <2>2 DEF ShapeWitnesses
  <1>7. \A c \in Shown(t) : w[c] \in Value
    BY <1>5, <1>6
  <1>8. DOMAIN w = Shown(t) /\ Shown(t) \in SUBSET Claim /\ Audience \notin Shown(t)
    BY <1>4, <1>5 DEF Shown
  <1>9. w \in [Shown(t) -> Value]
    BY <1>5, <1>7
  <1>10. w \in Tokens
    BY <1>8, <1>9 DEF Tokens
  <1> QED
    BY <1>2, <1>8, <1>10 DEF w

(* What is not doubted of an Established link. *)
LEMMA EstablishedLemma ==
    ASSUME NEW a, NEW b, NEW D, NewLink(a, b, D).confidence = "established", NEW x \in {a, b}
    PROVE  /\ x.effect = "Allow" /\ x.admits.caveats = {}
           /\ UndeclaredUnknowns(x) = {} /\ RecordDoubts(x) = {}
           /\ DenialsAgainst(x, IssuerOf(a, b), Overlap(a, b), D) = {}
           /\ Overlap(a, b).caveats = {}
           /\ NewLink(a, b, D).witness = WitnessOf(Overlap(a, b), WithoutAudience(a), WithoutAudience(b))
           /\ NewLink(a, b, D).witness # NoWitness
  <1> DEFINE o == Overlap(a, b)
             w == WitnessOf(o, WithoutAudience(a), WithoutAudience(b))
             counted == [s \in {a, b} |-> DenialsAgainst(s, IssuerOf(a, b), o, D)]
             about(s) == DoubtsAbout(s) \cup { [denial |-> d] : d \in counted[s] }
             beyond == { [widened |-> c] : c \in CaveatsBeyond(o, a, b) }
             doubts == (UNION { about(s) : s \in {a, b} }) \cup beyond
                         \cup When(w = NoWitness, [example |-> "none"])
  <1>1. /\ NewLink(a, b, D).confidence = IF doubts = {} THEN "established" ELSE "indeterminate"
        /\ NewLink(a, b, D).witness = w
    BY DEF NewLink
  <1>2. doubts = {}
    BY <1>1
  <1>3. \A y \in {a, b} : about(y) = {}
    BY <1>2
  <1>4. beyond = {} /\ When(w = NoWitness, [example |-> "none"]) = {}
    <2> HIDE DEF beyond, w, about
    <2> QED
      BY <1>2
  <1>5. counted[x] = DenialsAgainst(x, IssuerOf(a, b), o, D)
    OBVIOUS
  <1> HIDE DEF counted, doubts, w, o
  <1>6. ASSUME NEW y \in {a, b} PROVE DoubtsAbout(y) = {} /\ counted[y] = {}
    BY <1>3
  <1>7. ASSUME NEW y \in {a, b}
        PROVE  /\ y.effect = "Allow" /\ y.admits.caveats = {}
               /\ UndeclaredUnknowns(y) = {} /\ RecordDoubts(y) = {}
    <2>1. /\ When(y.effect # "Allow", [effect |-> y]) = {} /\ CaveatDoubts(y) = {}
          /\ { [unknown |-> c] : c \in UndeclaredUnknowns(y) } = {} /\ RecordDoubts(y) = {}
      BY <1>6 DEF DoubtsAbout
    <2> QED
      BY <2>1 DEF When, CaveatDoubts
  <1>8. o.caveats = {}
    BY <1>4, <1>7 DEF CaveatsBeyond
  <1>9. w # NoWitness
    BY <1>4 DEF When
  <1> QED
    BY <1>1, <1>5, <1>6, <1>7, <1>8, <1>9 DEF o, w

(* An example extends to a token the whole side admits. *)
LEMMA ExampleExtends ==
    ASSUME AudiencesExist, NEW s \in Statement, NEW w \in Tokens, Audience \notin DOMAIN w,
           IsExact(WithoutAudience(s.grant)), Admits(WithoutAudience(s.grant), w)
    PROVE  \E token \in Tokens : Identity(token) = w /\ Admits(s.grant.admits, token)
  <1> DEFINE g == s.grant
  <1>1. PICK t \in g.admits.terms : Failures(t, w) \subseteq {Audience}
    BY ReadingsAreCanonical, WithoutAudienceLemma
  <1>2. t \in ClaimTerms /\ DOMAIN t \in SUBSET Claim
    BY ReadingsAreCanonical, TermIsFunction DEF Canonical
  <1>3. DOMAIN w \in SUBSET Claim /\ w \in [DOMAIN w -> Value]
    BY DEF Tokens
  <1>4. CASE Audience \notin DOMAIN t
    <2>1. Identity(w) = w
      BY <1>3 DEF Identity
    <2>2. Failures(t, w) = {}
      BY <1>1, <1>4 DEF Failures
    <2> QED
      BY <2>1, <2>2 DEF Admits
  <1>5. CASE Audience \in DOMAIN t
    <2>1. PICK v \in Value : Contains(t[Audience], v)
      BY <1>5 DEF AudiencesExist
    <2> DEFINE token == [c \in DOMAIN w \cup {Audience} |-> IF c = Audience THEN v ELSE w[c]]
    <2>2. /\ DOMAIN token = DOMAIN w \cup {Audience} /\ token[Audience] = v
          /\ \A c \in DOMAIN w : token[c] = w[c]
      OBVIOUS
    <2>3. token \in [DOMAIN w \cup {Audience} -> Value] /\ DOMAIN w \cup {Audience} \in SUBSET Claim
      BY <1>2, <1>3, <1>5
    <2>4. token \in Tokens
      BY <2>3 DEF Tokens
    <2> HIDE DEF token
    <2>5. Identity(token) = w
      <3>1. DOMAIN token \ {Audience} = DOMAIN w
        BY <2>2
      <3>2. Identity(token) = [c \in DOMAIN w |-> w[c]]
        BY <2>2, <3>1 DEF Identity
      <3> QED
        BY <1>3, <3>2
    <2>6. Failures(Rest(t), token) = Failures(Rest(t), w)
      BY <1>2, <2>5, RestLemma, AudienceSetAside
    <2>7. Failures(t, token) \ {Audience} = {}
      BY <1>1, <1>2, <2>6, RestLemma
    <2>8. Satisfies(t[Audience], Audience, token)
      BY <2>1, <2>2 DEF Satisfies
    <2>9. Failures(t, token) = {}
      BY <2>7, <2>8 DEF Failures
    <2> QED
      BY <2>4, <2>5, <2>9 DEF Admits
  <1> QED
    BY <1>4, <1>5

(* A statement that keeps out a token both sides and the example share     *)
(* counts against the link.                                                *)
LEMMA DenialCounts ==
    ASSUME NEW d \in Statement, NEW x, Canonical(x.admits), NEW issuer, NEW o, Canonical(o), NEW D,
           d.grant \in D \ {x}, ~d.allows, d.grant.target = x.target,
           MayShareIssuer(d.grant.issuer, issuer),
           NEW token \in d.matches, Admits(x.admits, token), Admits(o, token)
    PROVE  DenialsAgainst(x, issuer, o, D) # {}
  <1> DEFINE g == d.grant
             m == MeetSets(g.admits, x.admits)
             n == MeetSets(m, o)
  <1>1. ASSUME UnprovedReading(g) = {} PROVE ~AdmitsNobody(n)
    <2>1. CaveatDoubts(g) = {} /\ When(g.records = {}, [unevidenced |-> g]) = {} /\ RecordDoubts(g) = {}
      BY <1>1 DEF UnprovedReading
    <2>2. IsExact(g.admits)
      BY <2>1 DEF CaveatDoubts, IsExact
    <2>3. Proved(g)
      BY <2>1 DEF When, Proved
    <2>4. Admits(g.admits, token)
      BY <2>2, <2>3, StatementAssumption DEF Faithful, Admitted
    <2>5. Canonical(m) /\ Admits(m, token)
      BY <2>4, ReadingsAreCanonical, MeetSetsLemma
    <2> HIDE DEF m
    <2>6. Admits(n, token)
      BY <2>5, MeetSetsLemma
    <2> QED
      BY <2>6 DEF Admits, AdmitsNobody
  <1>2. Touches(g, x, o)
    BY <1>1 DEF Touches
  <1> QED
    BY <1>2 DEF DenialsAgainst

(***************************************************************************)
(* An Established link is a fact: where a side's audience can be met, its  *)
(* target really lets the example identity in under some audience,         *)
(* whatever else the corpus holds on that target.                          *)
(***************************************************************************)
THEOREM EstablishedLinksAreFacts ==
    ASSUME AudiencesExist
    PROVE  Spec => []EstablishedMeansAdmitted
  <1>1. FanInv => EstablishedMeansAdmitted
    <2> SUFFICES ASSUME FanInv, NEW l \in links, l.confidence = "established",
                        NEW s \in corpus, s.grant \in l.sides
                 PROVE  \E token \in Tokens : Identity(token) = l.witness /\ LetsIn(s, l.issuer, token)
      BY DEF EstablishedMeansAdmitted
    <2> DEFINE x == s.grant
    <2>1. PICK a, b \in Grants : Linkable(a, b) /\ l = NewLink(a, b, Denials)
      BY DEF FanInv
    <2> DEFINE o == Overlap(a, b)
               w == WitnessOf(o, WithoutAudience(a), WithoutAudience(b))
               i == IssuerOf(a, b)
    <2>2. l.sides = {a, b} /\ l.issuer = i
      BY <2>1 DEF NewLink
    <2>3. /\ x.effect = "Allow" /\ x.admits.caveats = {}
          /\ UndeclaredUnknowns(x) = {} /\ RecordDoubts(x) = {}
          /\ DenialsAgainst(x, i, o, Denials) = {}
          /\ o.caveats = {} /\ l.witness = w /\ w # NoWitness
      BY <2>1, <2>2, EstablishedLemma
    <2>4. s \in Statement /\ corpus \subseteq Statement
      BY DEF FanInv
    <2>5. Canonical(a.admits) /\ Canonical(b.admits) /\ Canonical(x.admits)
      BY <2>1, <2>4, ReadingsAreCanonical DEF Grants
    <2> HIDE DEF o, w
    <2>6. /\ Canonical(o) /\ \A t \in o.terms : Audience \notin DOMAIN t
          /\ WithoutAudience(a).caveats = {} /\ WithoutAudience(b).caveats = {}
          /\ \A token : Admits(WithoutAudience(a), token) /\ Admits(WithoutAudience(b), token)
                => Admits(o, token)
      BY <2>3, <2>5, OverlapLemma DEF o
    <2>7. /\ w \in Tokens /\ Audience \notin DOMAIN w
          /\ Admits(WithoutAudience(a), w) /\ Admits(WithoutAudience(b), w)
      BY <2>3, <2>6, WitnessLemma DEF w
    <2>8. IsExact(WithoutAudience(x)) /\ Admits(WithoutAudience(x), w)
      BY <2>2, <2>6, <2>7 DEF IsExact
    <2>9. PICK token \in Tokens : Identity(token) = w /\ Admits(x.admits, token)
      BY <2>4, <2>7, <2>8, ExampleExtends
    <2>10. token \in s.matches
      <3>1. Proved(x)
        <4>1. Evidenced(x)
          BY <2>1, <2>2 DEF Linkable, Pairable
        <4> QED
          BY <2>3, <4>1 DEF Proved, Evidenced
      <3>2. s.matches = Admitted(x.admits)
        BY <2>3, <2>4, <3>1, StatementAssumption DEF Faithful, IsExact
      <3> QED
        BY <2>9, <3>2 DEF Admitted
    <2>11. Admits(o, token)
      <3>1. /\ \A t \in WithoutAudience(a).terms : Audience \notin DOMAIN t
            /\ \A t \in WithoutAudience(b).terms : Audience \notin DOMAIN t
        BY <2>5, WithoutAudienceLemma
      <3>2. Admits(WithoutAudience(a), token) /\ Admits(WithoutAudience(b), token)
        BY <2>7, <2>9, <3>1, AudienceSetAside DEF Admits
      <3> QED
        BY <2>6, <3>2
    <2>12. ASSUME NEW d \in corpus, ~d.allows, d.grant.target = x.target,
                  MayShareIssuer(d.grant.issuer, i), token \in d.matches
           PROVE  FALSE
      <3>1. d \in Statement /\ d.grant.effect # "Allow"
        BY <2>4, <2>12, StatementAssumption DEF Faithful
      <3>2. d.grant \in Denials \ {x}
        BY <2>3, <3>1 DEF Denials, Grants
      <3> QED
        BY <2>3, <2>5, <2>6, <2>9, <2>11, <2>12, <3>1, <3>2, DenialCounts
    <2> QED
      BY <2>2, <2>3, <2>9, <2>10, <2>12 DEF LetsIn
  <1> QED
    BY <1>1, FanInvariant, PTL
=============================================================================
