----------------------------- MODULE AzureProofs -----------------------------
(***************************************************************************)
(* The reader of federated identity credentials keeps the promise of every *)
(* reader, for any claims, values, patterns and expressions, and whatever  *)
(* Entra does with what no page settles; and no credential of a document   *)
(* it accepts is lost.                                                     *)
(***************************************************************************)
EXTENDS Azure, AdmittedSetProofs

-----------------------------------------------------------------------------
(* A document.  What an object is read as is what it may hold. *)
LEMMA VerdictFields ==
    ASSUME NEW cs
    PROVE  Accepted(cs).ok /\ Accepted(cs).read = cs /\ ~Refused.ok /\ Refused.read = {}
  BY DEF Accepted, Refused

(* resourceOf: an object it accepts is read whole. *)
LEMMA ResourceOfLemma ==
    ASSUME NEW o, IsList(o.props), NEW at, ResourceOf(o, at).ok
    PROVE  ResourceOf(o, at).read = HeldByObject(o, at)
<1>. DEFINE held  == o.props # <<>> /\ o.props[1] = "credential"
            parts == { j \in DOMAIN o.props : o.props[j] = "credential" }
<1>1. Len(o.props) <= 1 /\ ~(o.own /\ held)
  BY VerdictFields DEF ResourceOf, IsList
<1>2. ResourceOf(o, at) = Accepted(IF o.own THEN {<<at, 0>>} ELSE IF held THEN {<<at, 1>>} ELSE {})
  BY <1>1 DEF ResourceOf, IsList
<1>3. parts = IF held THEN {1} ELSE {}
  BY <1>1 DEF IsList
<1>. HIDE DEF parts
<1>. QED  BY <1>1, <1>2, <1>3, VerdictFields DEF HeldByObject, parts

(* A list is read item by item; each must hold a credential. *)
LEMMA ListedLemma ==
    ASSUME NEW list, list.kind = "list", IsContent(list), NEW at, ListedResources(list, at).ok
    PROVE  ListedResources(list, at).read = HeldBy(list, at)
<1>. DEFINE here(i) == Holder(list.items[i], ItemOf(at, i))
<1>1. \A i \in DOMAIN list.items : here(i).ok
  BY VerdictFields DEF ListedResources
<1>2. ASSUME NEW i \in DOMAIN list.items
      PROVE  list.items[i].kind = "object" /\ here(i).read = HeldByObject(list.items[i], ItemOf(at, i))
  <2>1. list.items[i].kind = "object" /\ here(i) = ResourceOf(list.items[i], ItemOf(at, i))
    BY <1>1, VerdictFields DEF Holder
  <2>2. IsList(list.items[i].props)
    BY <2>1 DEF IsContent
  <2>. QED  BY <1>1, <2>1, <2>2, ResourceOfLemma
<1>3. ListedResources(list, at).read = UNION { here(i).read : i \in DOMAIN list.items }
  BY <1>1, VerdictFields DEF ListedResources
<1>4. HeldBy(list, at) = UNION { HeldByObject(list.items[i], ItemOf(at, i)) : i \in DOMAIN list.items }
  <2>1. { j \in DOMAIN list.items : list.items[j].kind = "object" } = DOMAIN list.items
    BY <1>2
  <2>2. HeldBy(list, at) = UNION { HeldByObject(list.items[i], ItemOf(at, i)) :
                                     i \in { j \in DOMAIN list.items : list.items[j].kind = "object" } }
    BY DEF HeldBy
  <2>. QED  BY <2>1, <2>2
<1>. HIDE DEF here
<1>. QED  BY <1>2, <1>3, <1>4

(* An object that must hold a credential. *)
LEMMA HolderLemma ==
    ASSUME NEW v, v.kind = "object", IsContent(v), NEW at, Holder(v, at).ok
    PROVE  Holder(v, at).read = HeldBy(v, at)
<1>1. Holder(v, at) = ResourceOf(v, at)
  BY VerdictFields DEF Holder
<1>2. ResourceOf(v, at).read = HeldByObject(v, at)
  BY <1>1, ResourceOfLemma DEF IsContent
<1>. QED  BY <1>1, <1>2 DEF HeldBy

(* resourcesIn: what it accepts it reads whole. *)
LEMMA ResourcesLemma ==
    ASSUME NEW d \in Document, ResourcesIn(d).ok
    PROVE  ResourcesIn(d).read = HeldByRoot(d)
<1>1. IsContent(d)
  BY DocumentAssumption
<1>2. CASE d.kind = "list"
  BY <1>1, <1>2, ListedLemma DEF ResourcesIn, HeldByRoot
<1>3. CASE d.kind = "object"
  <2>. DEFINE own == ResourceOf(d, Root)
              container == d.values # <<>> /\ IsContainer(d.values[1])
              inside == UNION { HeldBy(d.values[i], At("value", i)) : i \in DOMAIN d.values }
              near   == UNION { HeldBy(d.near[i], At("near", i)) : i \in DOMAIN d.near }
  <2>1. /\ IsList(d.values) /\ \A i \in DOMAIN d.values : IsContent(d.values[i])
        /\ IsList(d.near) /\ \A i \in DOMAIN d.near : IsContent(d.near[i])
        /\ IsList(d.props)
    BY <1>1, <1>3, DocumentAssumption DEF IsContent
  <2>2. Len(d.values) <= 1 /\ (\A i \in DOMAIN d.near : ~IsContainer(d.near[i])) /\ own.ok
    <3>1. Len(d.values) \in Nat
      BY <2>1 DEF IsList
    <3>2. ~(Len(d.values) > 1) /\ ~(\E i \in DOMAIN d.near : IsContainer(d.near[i])) /\ own.ok
      BY <1>3, VerdictFields, Zenon DEF ResourcesIn
    <3>. HIDE DEF own
    <3>. QED  BY <3>1, <3>2
  <2>3. own.read = HeldByObject(d, Root) /\ HeldBy(d, Root) = HeldByObject(d, Root)
    BY <1>3, <2>1, <2>2, ResourceOfLemma DEF HeldBy
  <2>4. near = {}
    <3>1. \A i \in DOMAIN d.near : d.near[i].kind = "scalar"
      BY <2>1, <2>2 DEF IsContent, IsContainer
    <3>2. \A i \in DOMAIN d.near : HeldBy(d.near[i], At("near", i)) = {}
      BY <3>1 DEF HeldBy
    <3>. QED  BY <3>2
  <2>5. HeldByRoot(d) = own.read \cup inside
    BY <1>3, <2>3, <2>4 DEF HeldByRoot
  <2>6. DOMAIN d.values = {} \/ (DOMAIN d.values = {1} /\ inside = HeldBy(d.values[1], At("value", 1)))
    <3>1. CASE Len(d.values) = 0
      BY <2>1, <3>1 DEF IsList
    <3>2. CASE Len(d.values) = 1
      <4>1. DOMAIN d.values = {1}
        BY <2>1, <3>2 DEF IsList
      <4>. QED  BY <4>1
    <3>. QED  BY <2>1, <2>2, <3>1, <3>2 DEF IsList
  <2>7. CASE own.read # {}
    <3>1. ~container /\ ResourcesIn(d) = own
      BY <1>3, <2>2, <2>7, VerdictFields DEF ResourcesIn
    <3>2. inside = {}
      <4>1. CASE DOMAIN d.values = {}
        BY <4>1
      <4>2. CASE DOMAIN d.values = {1} /\ inside = HeldBy(d.values[1], At("value", 1))
        <5>1. d.values[1].kind = "scalar"
          BY <2>1, <3>1, <4>2 DEF IsContent, IsContainer
        <5>. QED  BY <4>2, <5>1 DEF HeldBy
      <4>. QED  BY <2>6, <4>1, <4>2
    <3>. HIDE DEF own, inside
    <3>. QED  BY <2>5, <3>1, <3>2
  <2>8. CASE own.read = {}
    <3>1. container
      BY <1>3, <2>2, <2>8, VerdictFields DEF ResourcesIn
    <3>2. DOMAIN d.values = {1} /\ inside = HeldBy(d.values[1], At("value", 1)) /\ IsContent(d.values[1])
      BY <2>1, <2>6, <3>1 DEF IsList
    <3>3. CASE d.values[1].kind = "list"
      <4>1. ResourcesIn(d) = ListedResources(d.values[1], At("value", 1))
        BY <1>3, <2>2, <2>8, <3>1, <3>3 DEF ResourcesIn
      <4>2. ResourcesIn(d).read = HeldBy(d.values[1], At("value", 1))
        BY <3>2, <3>3, <4>1, ListedLemma
      <4>. HIDE DEF own, inside
      <4>. QED  BY <2>5, <2>8, <3>2, <4>2
    <3>4. CASE d.values[1].kind # "list"
      <4>1. d.values[1].kind = "object"
        BY <3>1, <3>4 DEF IsContainer
      <4>2. ResourcesIn(d) = Holder(d.values[1], At("value", 1))
        BY <1>3, <2>2, <2>8, <3>1, <3>4 DEF ResourcesIn
      <4>3. ResourcesIn(d).read = HeldBy(d.values[1], At("value", 1))
        BY <3>2, <4>1, <4>2, HolderLemma
      <4>. HIDE DEF own, inside
      <4>. QED  BY <2>5, <2>8, <3>2, <4>3
    <3>. QED  BY <3>3, <3>4
  <2>. QED  BY <2>7, <2>8
<1>4. CASE d.kind = "scalar"
  BY <1>4, VerdictFields DEF ResourcesIn
<1>. QED  BY <1>1, <1>2, <1>3, <1>4 DEF IsContent

-----------------------------------------------------------------------------
(* The tokens a term admits, and how far a term is what Entra does: never  *)
(* less, exactly that where nothing was doubted, and no audience but an    *)
(* Unknown.                                                                *)
Passing(term) == { t \in Tokens : Failures(term, t) = {} }

TermOK(term, by, doubts) ==
    /\ Aud \in DOMAIN term => IsUnknown(term[Aud])
    /\ by \subseteq Passing(term)
    /\ doubts = {} => by = Passing(term)

(* What an Unknown and an exact value let through. *)
LEMMA SatisfiesForms ==
    ASSUME NEW k, NEW token
    PROVE  /\ \A R : IsUnknown(Unknown(R)) /\ Satisfies(Unknown(R), k, token)
           /\ \A v : Satisfies(Exact(v), k, token) <=> k \in DOMAIN token /\ token[k] = v
<1>1. \A R : IsUnknown(Unknown(R)) /\ Satisfies(Unknown(R), k, token)
  BY DEF IsUnknown, Unknown, Satisfies, Contains, IsTop
<1>2. ASSUME NEW v
      PROVE  Satisfies(Exact(v), k, token) <=> k \in DOMAIN token /\ token[k] = v
  <2>1. Exact(v).kind = "terms" /\ Exact(v).terms = {ExactTerm(v)}
    BY DEF Exact, Union
  <2>2. \A w : TermContains(ExactTerm(v), w) <=> w = v
    BY DEF ExactTerm, TermContains
  <2>3. \A w : Contains(Exact(v), w) <=> w = v
    BY <2>1, <2>2 DEF Contains
  <2>4. ~IsTop(Exact(v))
    BY <2>1 DEF IsTop
  <2>. QED  BY <2>3, <2>4 DEF Satisfies
<1>. QED  BY <1>1, <1>2

(* A term of one claim. *)
LEMMA OneClaimLemma ==
    ASSUME NEW c, NEW set, NEW token, NEW term, term = [d \in {c} |-> set]
    PROVE  DOMAIN term = {c} /\ (Failures(term, token) = {} <=> Satisfies(set, c, token))
<1>1. DOMAIN term = {c} /\ term[c] = set
  OBVIOUS
<1>. QED  BY ONLY <1>1 DEF Failures

(* An Unknown subject passes every token. *)
LEMMA UnknownSubLemma ==
    ASSUME NEW by \in SUBSET Tokens, NEW doubts, doubts # {}
    PROVE  TermOK([c \in {Sub} |-> Unknown({Sub})], by, doubts)
<1>. DEFINE term == [c \in {Sub} |-> Unknown({Sub})]
<1>1. ASSUME NEW t PROVE Failures(term, t) = {}
  <2>1. Satisfies(Unknown({Sub}), Sub, t)
    BY SatisfiesForms
  <2>. QED  BY <2>1, OneClaimLemma
<1>2. DOMAIN term = {Sub} /\ Aud # Sub
  BY ExpressionAssumption
<1>. QED  BY <1>1, <1>2 DEF TermOK, Passing

(* More doubts settle nothing. *)
LEMMA MoreDoubts ==
    ASSUME NEW term, NEW by, NEW doubts, NEW more, TermOK(term, by, doubts)
    PROVE  TermOK(term, by, doubts \cup more)
  BY DEF TermOK

-----------------------------------------------------------------------------
(* One clause. *)
LEMMA LanguageLemma ==
    ASSUME NEW issuer
    PROVE  Aud \notin DOMAIN DocumentedLanguage(issuer).operators
<1>1. Aud \notin DOMAIN GithubLanguage.operators
  BY ExpressionAssumption DEF GithubLanguage
<1>2. Aud \notin DOMAIN SubOnly.operators
  BY ExpressionAssumption DEF SubOnly
<1>3. Aud \notin DOMAIN Undocumented.operators
  BY DEF Undocumented
<1>. QED  BY <1>1, <1>2, <1>3 DEF DocumentedLanguage

(* What Entra lets a clause admit passes the set it is read as; the set    *)
(* admits no other unless the clause is doubted, folded or repeated.       *)
LEMMA ClauseLemma ==
    ASSUME NEW c, NEW lang, NEW repeated, NEW world, NEW t \in Tokens,
           NEW k, k = ClaimKey(c.name, lang), k \notin repeated,
           NEW read, read = Constraint(c, k, lang)
    PROVE  /\ t \in ClauseApplies(c, lang, repeated, world) => Satisfies(read.set, k, t)
           /\ Satisfies(read.set, k, t) /\ ~read.doubted /\ ~Folds(c.name, lang)
                 => t \in ClauseApplies(c, lang, repeated, world)
<1>1. CASE ~Modelled(c, k, lang)
  <2>1. read.set = Unknown({k}) /\ read.doubted
    BY <1>1 DEF Constraint, Doubt
  <2>. QED  BY <2>1, SatisfiesForms
<1>2. CASE Modelled(c, k, lang) /\ c.operator = <<"eq">>
  <2>1. read.set = Exact(Spelt(c.comparand))
    BY <1>2 DEF Constraint, Reads
  <2>2. ASSUME ~(Folds(c.name, lang) /\ ~world.folds)
        PROVE  t \in ClauseApplies(c, lang, repeated, world)
                  <=> k \in DOMAIN t /\ t[k] = Spelt(c.comparand)
    BY <1>2, <2>2 DEF ClauseApplies
  <2>3. Folds(c.name, lang) /\ ~world.folds => t \notin ClauseApplies(c, lang, repeated, world)
    BY DEF ClauseApplies
  <2>4. Satisfies(read.set, k, t) <=> k \in DOMAIN t /\ t[k] = Spelt(c.comparand)
    BY <2>1, SatisfiesForms
  <2>. QED  BY <2>2, <2>3, <2>4
<1>3. CASE Modelled(c, k, lang) /\ c.operator # <<"eq">>
  <2>1. read.set = GlobOf(c.comparand)
    BY <1>3 DEF Constraint, Reads
  <2>2. ASSUME ~(Folds(c.name, lang) /\ ~world.folds)
        PROVE  t \in ClauseApplies(c, lang, repeated, world) <=> Satisfies(GlobOf(c.comparand), k, t)
    BY <1>3, <2>2 DEF ClauseApplies
  <2>3. Folds(c.name, lang) /\ ~world.folds => t \notin ClauseApplies(c, lang, repeated, world)
    BY DEF ClauseApplies
  <2>. QED  BY <2>1, <2>2, <2>3
<1>. QED  BY <1>1, <1>2, <1>3

-----------------------------------------------------------------------------
(* A whole expression: there are finitely many clauses, so a key that is   *)
(* not repeated is the key of one of them.                                 *)
LEMMA ClausesAreFinite ==
    ASSUME NEW expression, IsFiniteSet(DOMAIN expression)
    PROVE  IsFiniteSet(DOMAIN Clauses(expression))
<1>1. Cuts(expression) \subseteq DOMAIN expression
  BY DEF Cuts
<1>2. IsFiniteSet(Cuts(expression))
  BY <1>1, FS_Subset
<1>3. Cardinality(Cuts(expression)) \in Nat
  BY <1>2, FS_CardinalityType
<1>4. DOMAIN SplitClauses(expression) = 1..(Cardinality(Cuts(expression)) + 1)
  BY DEF SplitClauses
<1>5. IsFiniteSet(1..(Cardinality(Cuts(expression)) + 1))
  BY <1>3, FS_Interval
<1>6. DOMAIN Clauses(expression) = DOMAIN SplitClauses(expression)
  BY DEF Clauses
<1>. QED  BY <1>4, <1>5, <1>6

(* A key not repeated is the key of one clause. *)
LEMMA OnceOnly ==
    ASSUME NEW keys, IsFiniteSet(DOMAIN keys), NEW n \in DOMAIN keys,
           ~(Cardinality({ m \in DOMAIN keys : keys[m] = keys[n] }) > 1)
    PROVE  { m \in DOMAIN keys : keys[m] = keys[n] } = {n}
<1>. DEFINE on == { m \in DOMAIN keys : keys[m] = keys[n] }
<1>1. IsFiniteSet(on)
  BY FS_Subset
<1>2. Cardinality(on) \in Nat
  BY <1>1, FS_CardinalityType
<1>3. n \in on
  OBVIOUS
<1>. HIDE DEF on
<1>4. Cardinality(on) # 0
  BY <1>1, <1>3, FS_EmptySet
<1>5. Cardinality(on) = 1
  BY <1>2, <1>4 DEF on
<1>6. PICK x : on = {x}
  BY <1>1, <1>5, FS_Singleton
<1>. QED  BY <1>3, <1>6 DEF on

(* expressionTerm and expression.go: the term and the doubts. *)
LEMMA EvaluateLemma ==
    ASSUME NEW expression \in Expression, NEW issuer, NEW world \in Worlds
    PROVE  LET read == Evaluate(expression, issuer)
           IN  TermOK(read.term, Applies(expression, issuer, world), read.doubts)
<1>. DEFINE clauses == Clauses(expression)
            lang    == DocumentedLanguage(issuer)
            keys    == KeysOf(clauses, lang)
            doubted(m) == Folds(clauses[m].name, lang) \/ Constraint(clauses[m], keys[m], lang).doubted
            doubts  == { keys[n] : n \in { m \in DOMAIN keys : doubted(m) } } \cup Repeated(keys)
            term    == Term(clauses, keys, lang)
            applies == Applies(expression, issuer, world)
            read    == Evaluate(expression, issuer)
            on(n)   == { m \in DOMAIN keys : keys[m] = keys[n] }
<1>1. world.odd \in SUBSET Tokens
  BY AzureAssumption DEF Worlds
<1>2. CASE Outside(expression)
  <2>1. read = Unmodelled /\ applies = world.odd
    BY <1>2 DEF Evaluate, Applies
  <2>2. read.term = [c \in {Sub} |-> Unknown({Sub})] /\ read.doubts = {Sub}
    BY <2>1 DEF Unmodelled, Reading
  <2>. QED  BY <1>1, <2>1, <2>2, UnknownSubLemma
<1>3. CASE ~Outside(expression) /\ Missing(keys, lang) # {}
  <2>1. read = Reading(Unmodelled.term, doubts \cup {Sub}) /\ applies = world.odd
    BY <1>3 DEF Evaluate, Applies
  <2>2. read.term = [c \in {Sub} |-> Unknown({Sub})] /\ read.doubts # {}
    BY <2>1 DEF Unmodelled, Reading
  <2>. QED  BY <1>1, <2>1, <2>2, UnknownSubLemma
<1>4. CASE ~Outside(expression) /\ ~(Missing(keys, lang) # {})
  <2>1. read = Reading(term, doubts)
    BY <1>4 DEF Evaluate
  <2>2. read.term = term /\ read.doubts = doubts
    BY <2>1 DEF Reading
  <2>3. applies = { t \in Tokens : \A n \in DOMAIN clauses :
                      t \in ClauseApplies(clauses[n], lang, Repeated(keys), world) }
    BY <1>4 DEF Applies
  <2>4. DOMAIN keys = DOMAIN clauses /\ \A n \in DOMAIN keys : keys[n] = ClaimKey(clauses[n].name, lang)
    BY DEF KeysOf
  <2>5. IsFiniteSet(DOMAIN keys)
    BY <2>4, AzureAssumption, ClausesAreFinite
  <2>6. DOMAIN term = { keys[n] : n \in DOMAIN keys }
    BY DEF Term
  <2>7. ASSUME NEW n \in DOMAIN keys
        PROVE  /\ keys[n] \in Repeated(keys) => term[keys[n]] = Unknown({keys[n]})
               /\ keys[n] \notin Repeated(keys)
                     => term[keys[n]] = Constraint(clauses[n], keys[n], lang).set
    <3>1. keys[n] \in Repeated(keys) <=> Cardinality(on(n)) > 1
      BY DEF Repeated
    <3>2. term[keys[n]] = IF Cardinality(on(n)) > 1 THEN Unknown({keys[n]})
                          ELSE Constraint(clauses[CHOOSE m \in on(n) : TRUE], keys[n], lang).set
      BY DEF Term
    <3>3. ~(Cardinality(on(n)) > 1) => on(n) = {n}
      BY <2>5, OnceOnly
    <3>4. on(n) = {n} => (CHOOSE m \in on(n) : TRUE) = n
      OBVIOUS
    <3>. HIDE DEF on, term, keys
    <3>. QED  BY <3>1, <3>2, <3>3, <3>4
  <2>. HIDE DEF clauses, lang, keys, term, read, applies
  <2>8. Aud \in DOMAIN term => IsUnknown(term[Aud])
    <3>1. SUFFICES ASSUME NEW n \in DOMAIN keys, keys[n] = Aud PROVE IsUnknown(term[Aud])
      BY <2>6
    <3>2. ~Modelled(clauses[n], Aud, lang)
      BY LanguageLemma DEF Modelled, lang
    <3>3. Constraint(clauses[n], Aud, lang).set = Unknown({Aud})
      BY <3>2 DEF Constraint, Doubt
    <3>. QED  BY <2>7, <3>1, <3>3, SatisfiesForms
  <2>9. ASSUME NEW t \in applies PROVE t \in Passing(term)
    <3>1. ASSUME NEW k \in DOMAIN term PROVE Satisfies(term[k], k, t)
      <4>1. PICK n \in DOMAIN keys : keys[n] = k
        BY <2>6
      <4>2. CASE k \in Repeated(keys)
        <5>1. term[k] = Unknown({k})
          BY <2>7, <4>1, <4>2
        <5>. QED  BY <5>1, SatisfiesForms
      <4>3. CASE k \notin Repeated(keys)
        <5>1. t \in Tokens /\ t \in ClauseApplies(clauses[n], lang, Repeated(keys), world)
          BY <2>3, <2>4, <2>9
        <5>2. Satisfies(Constraint(clauses[n], k, lang).set, k, t)
          BY <2>4, <4>1, <4>3, <5>1, ClauseLemma
        <5>. QED  BY <2>7, <4>1, <4>3, <5>2
      <4>. QED  BY <4>2, <4>3
    <3>. QED  BY <2>3, <2>9, <3>1 DEF Passing, Failures
  <2>10. ASSUME doubts = {}, NEW t \in Passing(term) PROVE t \in applies
    <3>1. Repeated(keys) = {} /\ \A n \in DOMAIN keys : ~doubted(n)
      BY <2>10
    <3>2. t \in Tokens /\ \A k \in DOMAIN term : Satisfies(term[k], k, t)
      BY <2>10 DEF Passing, Failures
    <3>3. ASSUME NEW n \in DOMAIN clauses
          PROVE  t \in ClauseApplies(clauses[n], lang, Repeated(keys), world)
      <4>1. n \in DOMAIN keys /\ keys[n] = ClaimKey(clauses[n].name, lang) /\ keys[n] \notin Repeated(keys)
        BY <2>4, <3>1
      <4>2. Satisfies(Constraint(clauses[n], keys[n], lang).set, keys[n], t)
        BY <2>6, <2>7, <3>2, <4>1
      <4>3. ~Folds(clauses[n].name, lang) /\ ~Constraint(clauses[n], keys[n], lang).doubted
        BY <3>1, <4>1, Zenon
      <4>. QED  BY <3>2, <4>1, <4>2, <4>3, ClauseLemma
    <3>. QED  BY <2>3, <3>2, <3>3
  <2>11. TermOK(term, applies, doubts)
    BY <2>8, <2>9, <2>10 DEF TermOK
  <2>. QED  BY <2>2, <2>11 DEF read, applies
<1>. QED  BY <1>2, <1>3, <1>4

-----------------------------------------------------------------------------
(* The audiences, and a term met with them. *)
LEMMA ExactUnionLemma ==
    ASSUME NEW values, NEW token \in Tokens
    PROVE  Satisfies(ExactUnion(values), Aud, token) <=> token \in Carrying(Aud, values)
<1>1. ExactUnion(values).kind = "terms" /\ ExactUnion(values).terms = { ExactTerm(v) : v \in values }
  BY DEF ExactUnion, Union
<1>2. \A v, w : TermContains(ExactTerm(v), w) <=> w = v
  BY DEF ExactTerm, TermContains
<1>3. \A w : Contains(ExactUnion(values), w) <=> w \in values
  BY <1>1, <1>2 DEF Contains
<1>4. ~IsTop(ExactUnion(values))
  BY <1>1 DEF IsTop
<1>. QED  BY <1>3, <1>4 DEF Satisfies, Carrying

AudienceOK(a) ==
    /\ a.set.kind \in {"unknown", "terms"}
    /\ a.tokens \subseteq { t \in Tokens : Satisfies(a.set, Aud, t) }
    /\ a.doubts = {} => a.tokens = { t \in Tokens : Satisfies(a.set, Aud, t) }

(* Every form of audiences, the unreadable ones included. *)
LEMMA AudienceLemma ==
    ASSUME NEW f, NEW items, NEW odd \in Hidden
    PROVE  AudienceOK(Audience(f, items, odd))
<1>. DEFINE a == Audience(f, items, odd)
            listed == { items[i] : i \in DOMAIN items }
<1>1. odd \subseteq Tokens /\ Carrying(Aud, listed) \subseteq Tokens
  BY AzureAssumption DEF Carrying
<1>2. ASSUME NEW tokens \in SUBSET Tokens PROVE AudienceOK(UnknownAudience(tokens))
  <2>. DEFINE u == UnknownAudience(tokens)
  <2>1. u.set = Unknown({Aud}) /\ u.tokens = tokens /\ u.doubts = {Aud}
    BY DEF UnknownAudience, AudienceOf
  <2>2. Unknown({Aud}).kind = "unknown"
    BY DEF Unknown
  <2>. HIDE DEF u
  <2>3. ASSUME NEW t PROVE Satisfies(u.set, Aud, t)
    <3>1. Satisfies(Unknown({Aud}), Aud, t)
      BY SatisfiesForms
    <3>. QED  BY <2>1, <3>1
  <2>4. AudienceOK(u)
    BY <2>1, <2>2, <2>3 DEF AudienceOK
  <2>. QED  BY <2>4 DEF u
<1>3. CASE a = UnknownAudience(odd) \/ a = UnknownAudience(Carrying(Aud, listed))
  BY <1>1, <1>2, <1>3
<1>4. CASE a = AudienceOf(ExactUnion(listed), {}, Carrying(Aud, listed))
  <2>1. a.set = ExactUnion(listed) /\ a.tokens = Carrying(Aud, listed) /\ a.doubts = {}
    BY <1>4 DEF AudienceOf
  <2>2. ExactUnion(listed).kind = "terms"
    BY DEF ExactUnion, Union
  <2>. HIDE DEF a, listed
  <2>3. Carrying(Aud, listed) = { t \in Tokens : Satisfies(ExactUnion(listed), Aud, t) }
    BY <1>1, ExactUnionLemma
  <2>4. AudienceOK(a)
    BY <2>1, <2>2, <2>3 DEF AudienceOK
  <2>. QED  BY <2>4 DEF a
<1>. QED  BY <1>3, <1>4 DEF Audience

(* Meeting a term with the audiences asks for both. *)
LEMMA WithAudienceLemma ==
    ASSUME NEW term, Aud \in DOMAIN term => IsUnknown(term[Aud]),
           NEW aud, aud.kind \in {"unknown", "terms"}, NEW token
    PROVE  Failures(WithAudience(term, aud), token) = {}
              <=> Failures(term, token) = {} /\ Satisfies(aud, Aud, token)
<1>. DEFINE w == WithAudience(term, aud)
<1>1. /\ DOMAIN w = DOMAIN term \cup {Aud}
      /\ \A c \in DOMAIN term : c # Aud => w[c] = term[c]
      /\ Aud \notin DOMAIN term => w[Aud] = aud
      /\ Aud \in DOMAIN term => w[Aud] = Meet(term[Aud], aud)
  BY DEF WithAudience
<1>. HIDE DEF w
<1>2. Satisfies(w[Aud], Aud, token) <=> Satisfies(aud, Aud, token)
  <2>1. CASE Aud \notin DOMAIN term
    BY <1>1, <2>1
  <2>2. CASE Aud \in DOMAIN term /\ aud.kind = "terms"
    BY <1>1, <2>2 DEF Meet, MeetUnknown, IsEmpty, IsUnknown, IsTop
  <2>3. CASE Aud \in DOMAIN term /\ aud.kind = "unknown"
    <3>1. w[Aud] = Unknown(term[Aud].reasons \cup aud.reasons)
      BY <1>1, <2>3 DEF Meet, MergeUnknown, IsEmpty, IsUnknown
    <3>2. Satisfies(w[Aud], Aud, token)
      BY <3>1, SatisfiesForms
    <3>. QED  BY <2>3, <3>2, SatisfiesExtremes DEF IsTop
  <2>. QED  BY <2>1, <2>2, <2>3
<1>3. Aud \in DOMAIN term => Satisfies(term[Aud], Aud, token)
  BY SatisfiesExtremes DEF IsUnknown, IsTop
<1>. QED  BY <1>1, <1>2, <1>3 DEF Failures, w

-----------------------------------------------------------------------------
(* What the members read so far say, and what the grant then is. *)
WellRead(r) ==
    /\ DOMAIN r = DOMAIN Blank
    /\ r.subject = {} \/ \E t : r.subject = {t} /\ TermOK(t, r.bySubject, r.doubts)
    /\ r.expression = {} \/ \E t : r.expression = {t} /\ TermOK(t, r.byExpression, r.doubts)

GrantOf(r, aud, really) ==
    LET doubts == r.doubts \cup aud.doubts \cup (IF Clashes(r) THEN {Sub} ELSE {})
        met    == NewAdmittedSet({ WithAudience(t, aud.set) : t \in TermsOf(r) })
    IN  [effect |-> "Allow", admits |-> Set(met.terms, met.caveats \cup { [recorded |-> c] : c \in doubts }),
         matches |-> really \cap aud.tokens]

HonestGrant(g) ==
    /\ g.effect # "Deny" => g.matches \subseteq Admitted(g.admits)
    /\ g.effect = "Deny" => Admitted(g.admits) \subseteq g.matches
    /\ IsExact(g.admits) => Admitted(g.admits) = g.matches

(* What may be deployed is within one term of the credential; it is all of *)
(* the only one where nothing was doubted.                                 *)
LEMMA TermsLemma ==
    ASSUME NEW r, WellRead(r), NEW odd \in Hidden, NEW really \in ReallyBy(r, odd)
    PROVE  /\ \A t \in TermsOf(r) : Aud \in DOMAIN t => IsUnknown(t[Aud])
           /\ \E t \in TermsOf(r) : really \subseteq Passing(t)
           /\ r.doubts = {} /\ ~Clashes(r)
                 => \E t : TermsOf(r) = {t} /\ really = Passing(t)
<1>1. CASE r.subject = {} /\ r.expression = {}
  <2>. DEFINE u == [c \in {Sub} |-> Unknown({Sub})]
  <2>1. TermsOf(r) = {u} /\ really = odd /\ Clashes(r)
    BY <1>1 DEF TermsOf, ReallyBy, Clashes
  <2>2. TermOK(u, odd, {Sub})
    BY AzureAssumption, UnknownSubLemma
  <2>. HIDE DEF u
  <2>. QED  BY <2>1, <2>2 DEF TermOK
<1>2. CASE r.subject # {} /\ r.expression = {}
  <2>1. PICK t : r.subject = {t} /\ TermOK(t, r.bySubject, r.doubts)
    BY <1>2 DEF WellRead
  <2>2. TermsOf(r) = {t} /\ really = r.bySubject
    BY <1>2, <2>1 DEF TermsOf, ReallyBy
  <2>. QED  BY <2>1, <2>2 DEF TermOK
<1>3. CASE r.subject = {} /\ r.expression # {}
  <2>1. PICK t : r.expression = {t} /\ TermOK(t, r.byExpression, r.doubts)
    BY <1>3 DEF WellRead
  <2>2. TermsOf(r) = {t} /\ really = r.byExpression
    BY <1>3, <2>1 DEF TermsOf, ReallyBy
  <2>. QED  BY <2>1, <2>2 DEF TermOK
<1>4. CASE r.subject # {} /\ r.expression # {}
  <2>1. PICK t : r.subject = {t} /\ TermOK(t, r.bySubject, r.doubts)
    BY <1>4 DEF WellRead
  <2>2. PICK u : r.expression = {u} /\ TermOK(u, r.byExpression, r.doubts)
    BY <1>4 DEF WellRead
  <2>3. TermsOf(r) = {t, u} /\ really \in {r.bySubject, r.byExpression} /\ Clashes(r)
    BY <1>4, <2>1, <2>2 DEF TermsOf, ReallyBy, Clashes
  <2>. QED  BY <2>1, <2>2, <2>3 DEF TermOK
<1>. QED  BY <1>1, <1>2, <1>3, <1>4

(* The grant of a credential is honest. *)
LEMMA GrantLemma ==
    ASSUME NEW r, WellRead(r), NEW odd \in Hidden, NEW really \in ReallyBy(r, odd),
           NEW aud, AudienceOK(aud)
    PROVE  HonestGrant(GrantOf(r, aud, really))
<1>. DEFINE g == GrantOf(r, aud, really)
            doubts == r.doubts \cup aud.doubts \cup (IF Clashes(r) THEN {Sub} ELSE {})
            T == { WithAudience(t, aud.set) : t \in TermsOf(r) }
            met == NewAdmittedSet(T)
<1>1. /\ g.effect = "Allow" /\ g.matches = really \cap aud.tokens
      /\ g.admits.terms = met.terms
      /\ g.admits.caveats = met.caveats \cup { [recorded |-> c] : c \in doubts }
  BY DEF GrantOf, Set
<1>2. /\ \A token : SomeTermAdmits(T, token) => Admits(met, token)
      /\ IsExact(met) => \A token : Admits(met, token) => SomeTermAdmits(T, token)
  BY NormaliseAdmits DEF NewAdmittedSet
<1>3. ASSUME NEW token
      PROVE  SomeTermAdmits(T, token)
               <=> (\E t \in TermsOf(r) : Failures(t, token) = {}) /\ Satisfies(aud.set, Aud, token)
  <2>1. SomeTermAdmits(T, token) <=> \E t \in TermsOf(r) : Failures(WithAudience(t, aud.set), token) = {}
    BY DEF SomeTermAdmits
  <2>2. aud.set.kind \in {"unknown", "terms"}
    BY DEF AudienceOK
  <2>3. \A t \in TermsOf(r) : Failures(WithAudience(t, aud.set), token) = {}
                                <=> Failures(t, token) = {} /\ Satisfies(aud.set, Aud, token)
    BY <2>2, TermsLemma, WithAudienceLemma
  <2>. QED  BY <2>1, <2>3
<1>. HIDE DEF g, T, met
<1>4. \A token : Admits(g.admits, token) <=> Admits(met, token)
  BY <1>1 DEF Admits
<1>5. g.matches \subseteq Admitted(g.admits)
  <2>1. PICK t \in TermsOf(r) : really \subseteq Passing(t)
    BY TermsLemma
  <2>2. \A token \in g.matches : token \in Tokens /\ Failures(t, token) = {} /\ Satisfies(aud.set, Aud, token)
    BY <1>1, <2>1 DEF AudienceOK, Passing
  <2>3. \A token \in g.matches : token \in Tokens /\ Admits(g.admits, token)
    BY <1>2, <1>3, <1>4, <2>1, <2>2
  <2>. QED  BY <2>3 DEF Admitted
<1>6. ASSUME IsExact(g.admits) PROVE Admitted(g.admits) \subseteq g.matches
  <2>1. IsExact(met) /\ { [recorded |-> c] : c \in doubts } = {}
    <3>. HIDE DEF doubts
    <3>. QED  BY <1>1, <1>6 DEF IsExact
  <2>2. r.doubts = {} /\ aud.doubts = {} /\ ~Clashes(r)
    BY <2>1
  <2>3. PICK t : TermsOf(r) = {t} /\ really = Passing(t)
    BY <2>2, TermsLemma
  <2>4. aud.tokens = { x \in Tokens : Satisfies(aud.set, Aud, x) }
    BY <2>2 DEF AudienceOK
  <2>5. ASSUME NEW token \in Tokens, Admits(g.admits, token) PROVE token \in really \cap aud.tokens
    BY <1>2, <1>3, <1>4, <2>1, <2>3, <2>4, <2>5 DEF Passing
  <2>. QED  BY <1>1, <2>5 DEF Admitted
<1>. QED  BY <1>1, <1>5, <1>6 DEF HonestGrant, g

(* The promise's operators are the reader's. *)
LEMMA PromiseIsRead == ASSUME NEW g PROVE Promise!Honest(g) <=> HonestGrant(g)
<1>1. \A t, v : Promise!TermContains(t, v) <=> TermContains(t, v)
  BY DEF Promise!TermContains, TermContains
<1>2. \A s, v : Promise!Contains(s, v) <=> Contains(s, v)
  BY <1>1 DEF Promise!Contains, Contains
<1>3. \A s, c, token : Promise!Satisfies(s, c, token) <=> Satisfies(s, c, token)
  BY <1>2 DEF Promise!Satisfies, Satisfies, Promise!IsTop, IsTop
<1>4. \A a, token : Promise!Admits(a, token) <=> Admits(a, token)
  BY <1>3 DEF Promise!Admits, Admits, Promise!Failures, Failures
<1>5. \A a : Promise!Admitted(a) = Admitted(a)
  BY <1>4 DEF Promise!Admitted, Admitted, Promise!Tokens, Tokens
<1>. QED  BY <1>5 DEF Promise!Honest, HonestGrant, Promise!IsExact, IsExact

-----------------------------------------------------------------------------
(* The inductive invariant: what was read of a credential stands for it,   *)
(* member by member, and a document in hand is one that was handed over.   *)
AzureInv == WellRead(reading) /\ document \in Document \cup {NoDocument}

(* Each member read leaves the members before as they were read. *)
LEMMA BlankLemma ==
    /\ DOMAIN Blank = {"issuer", "subject", "bySubject", "expression", "byExpression", "doubts"}
    /\ WellRead(Blank)
  BY DEF Blank, WellRead

(* The issuer bears on no term read so far. *)
LEMMA IssuerKeeps ==
    ASSUME WellRead(reading), NEW issuer
    PROVE  WellRead([reading EXCEPT !.issuer = issuer])
<1>. DEFINE r == [reading EXCEPT !.issuer = issuer]
<1>1. /\ DOMAIN r = DOMAIN reading /\ r.subject = reading.subject /\ r.bySubject = reading.bySubject
      /\ r.expression = reading.expression /\ r.byExpression = reading.byExpression
      /\ r.doubts = reading.doubts
  BY BlankLemma DEF WellRead
<1>. HIDE DEF r
<1>2. WellRead(r)
  BY <1>1 DEF WellRead
<1>. QED  BY <1>2 DEF r

(* A subject read as a term that stands for it. *)
LEMMA SubjectKeeps ==
    ASSUME WellRead(reading), NEW term, NEW by, NEW more, TermOK(term, by, reading.doubts \cup more)
    PROVE  WellRead([reading EXCEPT !.subject = {term}, !.doubts = @ \cup more, !.bySubject = by])
<1>. DEFINE r == [reading EXCEPT !.subject = {term}, !.doubts = @ \cup more, !.bySubject = by]
<1>1. /\ DOMAIN r = DOMAIN reading /\ r.subject = {term} /\ r.bySubject = by
      /\ r.expression = reading.expression /\ r.byExpression = reading.byExpression
      /\ r.doubts = reading.doubts \cup more
  BY BlankLemma DEF WellRead
<1>. HIDE DEF r
<1>2. \A t : TermOK(t, reading.byExpression, reading.doubts) => TermOK(t, r.byExpression, r.doubts)
  BY <1>1, MoreDoubts
<1>3. WellRead(r)
  BY <1>1, <1>2 DEF WellRead
<1>. QED  BY <1>3 DEF r

(* An expression read as a term that stands for it. *)
LEMMA ExpressionKeeps ==
    ASSUME WellRead(reading), NEW term, NEW by, NEW more, TermOK(term, by, more)
    PROVE  WellRead([reading EXCEPT !.expression = {term}, !.byExpression = by, !.doubts = @ \cup more])
<1>. DEFINE r == [reading EXCEPT !.expression = {term}, !.byExpression = by, !.doubts = @ \cup more]
<1>1. /\ DOMAIN r = DOMAIN reading /\ r.expression = {term} /\ r.byExpression = by
      /\ r.subject = reading.subject /\ r.bySubject = reading.bySubject
      /\ r.doubts = reading.doubts \cup more
  BY BlankLemma DEF WellRead
<1>. HIDE DEF r
<1>2. \A t : TermOK(t, reading.bySubject, reading.doubts) => TermOK(t, r.bySubject, r.doubts)
  BY <1>1, MoreDoubts
<1>3. TermOK(term, by, r.doubts)
  BY <1>1 DEF TermOK
<1>4. WellRead(r)
  BY <1>1, <1>2, <1>3 DEF WellRead
<1>. QED  BY <1>4 DEF r

(* subjectTerm. *)
LEMMA ExactSubjectLemma ==
    ASSUME NEW subject, NEW doubts
    PROVE  TermOK([c \in {Sub} |-> Exact(subject)], Carrying(Sub, {subject}), doubts)
<1>. DEFINE term == [c \in {Sub} |-> Exact(subject)]
<1>1. ASSUME NEW t PROVE Failures(term, t) = {} <=> Sub \in DOMAIN t /\ t[Sub] = subject
  <2>1. Satisfies(Exact(subject), Sub, t) <=> Sub \in DOMAIN t /\ t[Sub] = subject
    BY SatisfiesForms
  <2>. QED  BY <2>1, OneClaimLemma
<1>2. DOMAIN term = {Sub} /\ Aud # Sub
  BY ExpressionAssumption
<1>. HIDE DEF term
<1>3. Passing(term) = Carrying(Sub, {subject})
  BY <1>1 DEF Passing, Carrying
<1>4. TermOK(term, Carrying(Sub, {subject}), doubts)
  BY <1>2, <1>3 DEF TermOK
<1>. QED  BY <1>4 DEF term

(* A step keeps the invariant, and hands out honest grants or none. *)
LEMMA ReaderStep ==
    AzureInv /\ [Next]_vars => AzureInv' /\ [Promise!HandOut]_grants
<1>. SUFFICES ASSUME AzureInv, [Next]_vars
              PROVE  AzureInv' /\ [Promise!HandOut]_grants
  OBVIOUS
<1>1. ASSUME NEW now, NEW then, NEW r, ReadsMember(now, then, r), WellRead(r)
      PROVE  AzureInv' /\ [Promise!HandOut]_grants
  BY <1>1 DEF ReadsMember, AzureInv
<1>2. ASSUME NEW f \in Forms, NEW issuer \in Issuer, ReadIssuer(f, issuer)
      PROVE  AzureInv' /\ [Promise!HandOut]_grants
  BY <1>1, <1>2, IssuerKeeps DEF ReadIssuer, AzureInv
<1>3. ASSUME NEW f \in Forms, NEW subject \in Value \cup {Empty}, NEW odd \in Hidden,
             ReadSubject(f, subject, odd)
      PROVE  AzureInv' /\ [Promise!HandOut]_grants
  <2>. DEFINE unread == [reading EXCEPT !.subject = {[c \in {Sub} |-> Unknown({Sub})]},
                                        !.doubts = @ \cup {Sub}, !.bySubject = odd]
              exact  == [reading EXCEPT !.subject = {[c \in {Sub} |-> Exact(subject)]},
                                        !.bySubject = Carrying(Sub, {subject})]
  <2>1. WellRead(reading)
    BY DEF AzureInv
  <2>2. WellRead(unread)
    <3>1. TermOK([c \in {Sub} |-> Unknown({Sub})], odd, reading.doubts \cup {Sub})
      BY AzureAssumption, UnknownSubLemma
    <3>. QED  BY <2>1, <3>1, SubjectKeeps
  <2>3. WellRead(exact)
    <3>1. exact = [reading EXCEPT !.subject = {[c \in {Sub} |-> Exact(subject)]},
                                  !.doubts = @ \cup {}, !.bySubject = Carrying(Sub, {subject})]
      BY <2>1, BlankLemma DEF WellRead
    <3>2. TermOK([c \in {Sub} |-> Exact(subject)], Carrying(Sub, {subject}), reading.doubts \cup {})
      BY ExactSubjectLemma
    <3>. QED  BY <2>1, <3>1, <3>2, SubjectKeeps
  <2>4. \E r \in {unread, reading, exact} : ReadsMember("subject", "expression", r)
    BY <1>3 DEF ReadSubject
  <2>. HIDE DEF unread, exact
  <2>. QED  BY <1>1, <2>1, <2>2, <2>3, <2>4
<1>4. ASSUME NEW f \in Forms, NEW value \in Forms, NEW version \in Forms, NEW isOne \in BOOLEAN,
             NEW expression \in Expression, NEW world \in Worlds,
             ReadExpression(f, value, version, isOne, expression, world)
      PROVE  AzureInv' /\ [Promise!HandOut]_grants
  <2>. DEFINE read == IF Readable(f, value, version, isOne) THEN Evaluate(expression, reading.issuer)
                      ELSE Unmodelled
              applies == IF Readable(f, value, version, isOne)
                         THEN Applies(expression, reading.issuer, world) ELSE world.odd
              next == [reading EXCEPT !.expression = {read.term}, !.byExpression = applies,
                                      !.doubts = @ \cup read.doubts]
  <2>1. WellRead(reading)
    BY DEF AzureInv
  <2>2. TermOK(read.term, applies, read.doubts)
    <3>1. CASE Readable(f, value, version, isOne)
      BY <3>1, EvaluateLemma
    <3>2. CASE ~Readable(f, value, version, isOne)
      <4>1. read.term = [c \in {Sub} |-> Unknown({Sub})] /\ read.doubts = {Sub} /\ applies = world.odd
        BY <3>2 DEF Unmodelled, Reading
      <4>2. world.odd \in SUBSET Tokens
        BY AzureAssumption DEF Worlds
      <4>. QED  BY <4>1, <4>2, UnknownSubLemma
    <3>. QED  BY <3>1, <3>2
  <2>3. \E r \in {reading, next} : ReadsMember("expression", "audiences", r)
    BY <1>4 DEF ReadExpression
  <2>. HIDE DEF read, applies
  <2>4. WellRead(next)
    BY <2>1, <2>2, ExpressionKeeps
  <2>. QED  BY <1>1, <2>1, <2>3, <2>4
<1>5. ASSUME NEW f \in Forms, NEW items \in AudienceList, NEW odd \in Hidden, ReadAudiences(f, items, odd)
      PROVE  AzureInv' /\ [Promise!HandOut]_grants
  <2>1. reading' = Blank /\ document' = document
    BY <1>5 DEF ReadAudiences
  <2>2. AzureInv'
    BY <2>1, BlankLemma DEF AzureInv
  <2>3. PICK really \in ReallyBy(reading, odd) :
          grants' = grants \cup {GrantOf(reading, Audience(f, items, odd), really)}
    BY <1>5 DEF ReadAudiences, GrantOf
  <2>4. HonestGrant(GrantOf(reading, Audience(f, items, odd), really))
    BY AudienceLemma, GrantLemma DEF AzureInv
  <2>5. Promise!HandOut
    BY <2>3, <2>4, PromiseIsRead DEF Promise!HandOut
  <2>. QED  BY <2>2, <2>5
<1>6. ASSUME NEW s, Paste(s)
      PROVE  AzureInv' /\ [Promise!HandOut]_grants
  BY <1>6 DEF Paste, AzureInv
<1>7. ASSUME NEW doc \in Document, Receive(doc)
      PROVE  AzureInv' /\ [Promise!HandOut]_grants
  BY <1>7 DEF Receive, AzureInv
<1>8. CASE UNCHANGED vars
  BY <1>8 DEF vars, AzureInv
<1>. QED
  BY <1>2, <1>3, <1>4, <1>5, <1>6, <1>7, <1>8 DEF Next, SomeExpression

(* Nothing is read or handed out at the start. *)
LEMMA ReaderStart == Init => AzureInv /\ Promise!Init
  BY BlankLemma DEF Init, AzureInv, Promise!Init

(***************************************************************************)
(* The reader of federated identity credentials (internal/parse/azure)     *)
(* implements the promise of every reader: whichever of a subject and an   *)
(* expression Entra applies, whatever it does with a name in another case, *)
(* a clause outside the documented language or a member written twice, a   *)
(* credential's grant admits all it accepts, and a grant with no caveat    *)
(* nothing else.                                                           *)
(***************************************************************************)
THEOREM CredentialsKeepThePromise == Spec => KeepsThePromise
  BY ReaderStart, ReaderStep, PTL DEF Spec, KeepsThePromise, Promise!Spec

(***************************************************************************)
(* resourcesIn loses no credential: of any document, one it does not       *)
(* refuse is read as every credential that stands anywhere in it.          *)
(***************************************************************************)
THEOREM CredentialsAreKept == Spec => []NoCredentialVanishes
<1>1. AzureInv => NoCredentialVanishes
  BY ResourcesLemma DEF AzureInv, NoCredentialVanishes
<1>. QED  BY <1>1, ReaderStart, ReaderStep, PTL DEF Spec
=============================================================================
