--------------------------- MODULE EvaluatorProofs ---------------------------
(***************************************************************************)
(* Nothing a reader could not evaluate narrows an answer, and an answer    *)
(* without a caveat is the truth: for every vocabulary of claims, values   *)
(* and patterns, every term cap, and every way of combining the sets.      *)
(***************************************************************************)
EXTENDS Evaluator, AdmittedSetProofs

-----------------------------------------------------------------------------
(* One register, read off: what the invariant says of set[r] and truth[r]. *)
Sound(a, t) ==
    /\ a.caveats \subseteq Caveats /\ Canonical(a)
    /\ t \in SUBSET Tokens
    /\ t \subseteq Admitted(a)
    /\ IsExact(a) => Admitted(a) = t

Inv == DOMAIN set = Reg /\ DOMAIN truth = Reg /\ \A r \in Reg : Sound(set[r], truth[r])

Typed ==
    /\ set = [r \in Reg |-> set[r]]
    /\ truth = [r \in Reg |-> truth[r]]

(* Assigning a sound answer to one register keeps all of them sound. *)
LEMMA AssignPreserves ==
    ASSUME Typed, Inv, NEW r \in Reg, NEW s, NEW t, Sound(s, t), Assign(r, s, t)
    PROVE  Typed' /\ Inv'
<1>1. /\ set' = [x \in Reg |-> IF x = r THEN s ELSE set[x]]
      /\ truth' = [x \in Reg |-> IF x = r THEN t ELSE truth[x]]
    BY DEF Assign, Inv, Typed
<1>2. Typed' /\ (DOMAIN set = Reg)' /\ (DOMAIN truth = Reg)'
    BY <1>1 DEF Typed
<1>3. \A x \in Reg : Sound(set'[x], truth'[x])
    BY <1>1 DEF Inv
<1>4. QED BY <1>2, <1>3 DEF Inv

(* A term that was read is its own truth. *)
LEMMA ReadIsSound ==
    ASSUME NEW term \in Readable
    PROVE  Sound(NewAdmittedSet({term}), { token \in Tokens : Failures(term, token) = {} })
<1> DEFINE n == NewAdmittedSet({term})
<1>1. {term} \in SUBSET ClaimTerms
    BY ReaderAssumption
<1>2. n = Normalise({term}, {}, "NewAdmittedSet")
    BY DEF NewAdmittedSet
<1>3. \A token : SomeTermAdmits({term}, token) <=> Failures(term, token) = {}
    BY DEF SomeTermAdmits
<1>10. Normalises(n, {term}, {}, "NewAdmittedSet")
    BY <1>1, <1>2, NormaliseLemma
<1> HIDE DEF n
<1>4. n.caveats \subseteq {Overflow("NewAdmittedSet")} /\ Canonical(n)
    BY <1>10 DEF Normalises
<1>5. \A token : Failures(term, token) = {} => Admits(n, token)
    BY <1>3, <1>10 DEF Normalises
<1>6. IsExact(n) => \A token : Admits(n, token) => Failures(term, token) = {}
    BY <1>3, <1>10 DEF Normalises
<1>7. n.caveats \subseteq Caveats
    BY <1>4, OverflowIsCaveat DEF Operations
<1>8. Sound(n, { token \in Tokens : Failures(term, token) = {} })
    BY <1>4, <1>5, <1>6, <1>7 DEF Sound, Admitted
<1>9. QED BY <1>8 DEF n

(* A constraint that was not evaluated admits whatever it may mean. *)
LEMMA UnevaluatedIsSound ==
    ASSUME NEW claim \in Claim, NEW reason \in Reason, NEW caveat \in Caveat, NEW hidden \in Hidden
    PROVE  Sound(WithCaveat(NewAdmittedSet({[c \in {claim} |-> Unknown({reason})]}), caveat), hidden)
<1> DEFINE t == [c \in {claim} |-> Unknown({reason})]
           n == NewAdmittedSet({t})
           w == WithCaveat(n, caveat)
<1>1. Unknown({reason}) \in StringSets /\ IsTop(Unknown({reason}))
    <2>1. {reason} \in (SUBSET Reason) \ {{}}
        OBVIOUS
    <2>2. QED BY <2>1 DEF StringSets, Unknown, IsTop
<1>2. DOMAIN t = {claim} /\ t[claim] = Unknown({reason}) /\ t = [c \in DOMAIN t |-> t[c]]
    OBVIOUS
<1>3. t \in ClaimTerms /\ AllTop(t)
    BY <1>1, <1>2, TermIsFunction DEF AllTop
<1>4. n = Normalise({t}, {}, "NewAdmittedSet")
    BY DEF NewAdmittedSet
<1> HIDE DEF t
<1>5. \A token : SomeTermAdmits({t}, token)
    BY <1>3, AllTopAdmitsAll DEF SomeTermAdmits
<1>6. Canonical(n) /\ n.caveats \subseteq {Overflow("NewAdmittedSet")} /\ \A token : Admits(n, token)
    <2>1. Normalises(n, {t}, {}, "NewAdmittedSet")
        BY <1>3, <1>4, NormaliseLemma
    <2>2. QED BY <1>5, <2>1 DEF Normalises
<1> HIDE DEF n
<1>7. /\ Canonical(w) /\ ~IsExact(w) /\ \A token : Admits(w, token)
      /\ w.caveats = n.caveats \cup {[recorded |-> caveat]}
    BY <1>6, WithCaveatLemma
<1>8. w.caveats \subseteq Caveats
    BY <1>6, <1>7, OverflowIsCaveat DEF Operations, Caveats
<1>9. hidden \in SUBSET Tokens
    BY ReaderAssumption
<1> HIDE DEF w
<1>10. Sound(w, hidden)
    BY <1>7, <1>8, <1>9 DEF Sound, Admitted
<1>11. QED BY <1>10 DEF w, n, t

(* Every operation of the evaluator keeps every register sound. *)
LEMMA StepPreserves == Typed /\ Inv /\ [Next]_vars => Typed' /\ Inv'
<1> SUFFICES ASSUME Typed, Inv, [Next]_vars
             PROVE  Typed' /\ Inv'
    OBVIOUS
<1>1. ASSUME NEW r \in Reg, NEW term \in Readable, Read(r, term)
      PROVE  Typed' /\ Inv'
    BY <1>1, ReadIsSound, AssignPreserves DEF Read
<1>2. ASSUME NEW r \in Reg, NEW claim \in Claim, NEW reason \in Reason,
             NEW caveat \in Caveat, NEW hidden \in Hidden,
             ReadUnevaluated(r, claim, reason, caveat, hidden)
      PROVE  Typed' /\ Inv'
    BY <1>2, UnevaluatedIsSound, AssignPreserves DEF ReadUnevaluated
<1>3. ASSUME NEW r \in Reg, NEW caveat \in Caveat, NEW hidden \in Hidden,
             Doubt(r, caveat, hidden)
      PROVE  Typed' /\ Inv'
    <2>1. Sound(set[r], truth[r])
        BY DEF Inv
    <2>2. [recorded |-> caveat] \in Caveats
        BY DEF Caveats
    <2>3. Sound(WithCaveat(set[r], caveat), truth[r] \cap hidden)
        BY <2>1, <2>2, WithCaveatLemma DEF Sound, Admitted
    <2>4. QED BY <1>3, <2>3, AssignPreserves DEF Doubt
<1>4. ASSUME NEW r \in Reg, NEW p \in Reg, NEW q \in Reg, And(r, p, q)
      PROVE  Typed' /\ Inv'
    <2>1. Sound(set[p], truth[p]) /\ Sound(set[q], truth[q])
        BY DEF Inv
    <2> DEFINE m == MeetSets(set[p], set[q])
    <2>2. /\ Canonical(m)
          /\ set[p].caveats \cup set[q].caveats \subseteq m.caveats
          /\ m.caveats \subseteq set[p].caveats \cup set[q].caveats \cup {Overflow("Meet")}
          /\ \A token : Admits(set[p], token) /\ Admits(set[q], token) => Admits(m, token)
          /\ IsExact(m) => \A token : Admits(m, token) => Admits(set[p], token) /\ Admits(set[q], token)
        BY <2>1, MeetSetsLemma DEF Sound
    <2> HIDE DEF m
    <2>3. m.caveats \subseteq Caveats
        BY <2>1, <2>2, OverflowIsCaveat DEF Sound, Operations
    <2>4. IsExact(m) => IsExact(set[p]) /\ IsExact(set[q])
        BY <2>2 DEF IsExact
    <2>5. Sound(m, truth[p] \cap truth[q])
        BY <2>1, <2>2, <2>3, <2>4 DEF Sound, Admitted
    <2>6. QED BY <1>4, <2>5, AssignPreserves DEF And, m
<1>5. ASSUME NEW r \in Reg, NEW p \in Reg, NEW q \in Reg, Or(r, p, q)
      PROVE  Typed' /\ Inv'
    <2>1. Sound(set[p], truth[p]) /\ Sound(set[q], truth[q])
        BY DEF Inv
    <2> DEFINE j == JoinSets(set[p], set[q])
    <2>2. /\ Canonical(j)
          /\ set[p].caveats \cup set[q].caveats \subseteq j.caveats
          /\ j.caveats \subseteq set[p].caveats \cup set[q].caveats \cup {Overflow("Join")}
          /\ \A token : Admits(set[p], token) \/ Admits(set[q], token) => Admits(j, token)
          /\ IsExact(j) => \A token : Admits(j, token) => Admits(set[p], token) \/ Admits(set[q], token)
        BY <2>1, JoinSetsLemma DEF Sound
    <2> HIDE DEF j
    <2>3. j.caveats \subseteq Caveats
        BY <2>1, <2>2, OverflowIsCaveat DEF Sound, Operations
    <2>4. IsExact(j) => IsExact(set[p]) /\ IsExact(set[q])
        BY <2>2 DEF IsExact
    <2>5. Sound(j, truth[p] \cup truth[q])
        BY <2>1, <2>2, <2>3, <2>4 DEF Sound, Admitted
    <2>6. QED BY <1>5, <2>5, AssignPreserves DEF Or, j
<1>6. ASSUME NEW r \in Reg, ReadEverything(r)
      PROVE  Typed' /\ Inv'
    <2>1. Everything.terms = {EmptyTerm} /\ Everything.caveats = {}
        BY DEF Everything, Set
    <2>2. Canonical(Everything) /\ \A token : Admits(Everything, token)
        BY <2>1, EmptyTermLemma DEF Canonical, Reduced, Admits
    <2>3. Sound(Everything, Tokens)
        BY <2>1, <2>2 DEF Sound, Admitted
    <2>4. QED BY <1>6, <2>3, AssignPreserves DEF ReadEverything
<1>7. CASE UNCHANGED vars
    BY <1>7 DEF vars, Typed, Inv
<1>8. QED BY <1>1, <1>2, <1>3, <1>4, <1>5, <1>6, <1>7 DEF Next

(* The registers start sound. *)
LEMMA InitHolds == Init => Typed /\ Inv
<1>1. Nothing.terms = {} /\ Nothing.caveats = {}
    BY DEF Nothing, Set
<1>2. Sound(Nothing, {})
    BY <1>1 DEF Sound, Canonical, Reduced, Admitted, Admits, IsExact
<1>3. QED BY <1>2 DEF Init, Typed, Inv

(* Sound registers are what the properties ask for. *)
LEMMA InvImplies == Typed /\ Inv => TypeOK /\ NothingUnreadNarrows /\ ExactIsTheTruth
<1> SUFFICES ASSUME Typed, Inv PROVE TypeOK /\ NothingUnreadNarrows /\ ExactIsTheTruth
    OBVIOUS
<1>1. truth \in [Reg -> SUBSET Tokens]
    BY DEF Typed, Inv, Sound
<1>2. QED BY <1>1 DEF Inv, Sound, TypeOK, NothingUnreadNarrows, ExactIsTheTruth

(* Every set the readers hold is well formed and canonical. *)
THEOREM SetsAreCanonical == Spec => []TypeOK
BY InitHolds, StepPreserves, InvImplies, PTL DEF Spec

(***************************************************************************)
(* The rule the engine is built on: whatever it could not evaluate, and    *)
(* whether or not the term cap was reached, no token the cloud admits is   *)
(* missing from the answer.                                                *)
(***************************************************************************)
THEOREM AnswersAreUpperBounds == Spec => []NothingUnreadNarrows
BY InitHolds, StepPreserves, InvImplies, PTL DEF Spec

(* An answer that carries no caveat is exactly what the cloud admits. *)
THEOREM CaveatFreeAnswersAreExact == Spec => []ExactIsTheTruth
BY InitHolds, StepPreserves, InvImplies, PTL DEF Spec

-----------------------------------------------------------------------------
(* The term cap.  A set of terms is finite because it is built from finite *)
(* sets, so that counting it means something.                              *)
Capped(a) == IsFiniteSet(a.terms) /\ Cardinality(a.terms) <= TermCap

(* The image of a finite set is finite. *)
LEMMA FiniteImage ==
    ASSUME NEW S, IsFiniteSet(S), NEW T, NEW f \in [S -> T], \A y \in T : \E x \in S : f[x] = y
    PROVE  IsFiniteSet(T)
<1>1. f \in Surjection(S, T)
    BY DEF Surjection
<1>2. QED BY <1>1, FS_Surjection

(* A set of the empty term alone is within the cap. *)
LEMMA EmptyTermCapped == Capped(Set({EmptyTerm}, {})) /\ \A C : Capped(Set({EmptyTerm}, C))
<1>1. IsFiniteSet({EmptyTerm}) /\ Cardinality({EmptyTerm}) = 1
    BY FS_Singleton
<1>2. QED BY <1>1, TermCapAssumption DEF Capped, Set

(* normalise brings any finite set of terms within the cap. *)
LEMMA NormaliseCaps ==
    ASSUME NEW T, IsFiniteSet(T), NEW C, NEW op
    PROVE  Capped(Normalise(T, C, op))
<1> DEFINE L == { u \in T : ~Dead(u) }
           f == [u \in L |-> NormaliseTerm(u)]
<1>1. IsFiniteSet(L)
    BY FS_Subset
<1>2. f \in [L -> Live(T)] /\ \A y \in Live(T) : \E x \in L : f[x] = y
    BY DEF Live
<1> HIDE DEF L, f
<1>3. IsFiniteSet(Live(T))
    BY <1>1, <1>2, FiniteImage
<1>4. Cardinality(Live(T)) \in Nat
    BY <1>3, FS_CardinalityType
<1>5. ~(Cardinality(Live(T)) > TermCap) => Capped(Set(Live(T), C))
    BY <1>3, <1>4, TermCapAssumption DEF Capped, Set
<1>6. QED BY <1>5, EmptyTermCapped DEF Normalise

(* Conjoining two finite sets of terms pairwise gives a finite set. *)
LEMMA ProductFinite ==
    ASSUME NEW A, IsFiniteSet(A), NEW B, IsFiniteSet(B)
    PROVE  IsFiniteSet({ Conjoin(x, y) : x \in A, y \in B })
<1> DEFINE P == { Conjoin(x, y) : x \in A, y \in B }
           f == [xy \in A \X B |-> Conjoin(xy[1], xy[2])]
<1>1. IsFiniteSet(A \X B)
    BY FS_Product
<1>2. f \in [A \X B -> P]
    OBVIOUS
<1>3. ASSUME NEW y \in P PROVE \E x \in A \X B : f[x] = y
    <2>1. PICK u \in A, v \in B : y = Conjoin(u, v)
        OBVIOUS
    <2>2. <<u, v>> \in A \X B /\ f[<<u, v>>] = y
        BY <2>1
    <2>3. QED BY <2>2
<1> HIDE DEF f, P
<1>4. IsFiniteSet(P)
    BY <1>1, <1>2, <1>3, FiniteImage
<1>5. QED BY <1>4 DEF P

CapInv == \A r \in Reg : Capped(set[r])

(* Assigning a capped set to one register keeps the others capped. *)
LEMMA AssignCaps ==
    ASSUME Typed, CapInv, NEW r \in Reg, NEW s, NEW t, Capped(s), Assign(r, s, t)
    PROVE  CapInv'
<1>1. set' = [x \in Reg |-> IF x = r THEN s ELSE set[x]]
    BY DEF Assign, Typed
<1>2. QED BY <1>1 DEF CapInv

(* Every operation of the evaluator keeps every register within the cap. *)
LEMMA StepCaps == Typed /\ CapInv /\ [Next]_vars => CapInv'
<1> SUFFICES ASSUME Typed, CapInv, [Next]_vars
             PROVE  CapInv'
    OBVIOUS
<1>1. ASSUME NEW T, IsFiniteSet(T), NEW op, NEW C PROVE Capped(Normalise(T, C, op))
    BY <1>1, NormaliseCaps
<1>2. ASSUME NEW term PROVE Capped(NewAdmittedSet({term}))
    BY FS_Singleton, NormaliseCaps DEF NewAdmittedSet
<1>3. ASSUME NEW a, Capped(a), NEW c PROVE Capped(WithCaveat(a, c))
    BY <1>3, WithCaveatLemma DEF Capped
<1>4. ASSUME NEW r \in Reg, NEW term \in Readable, Read(r, term)
      PROVE  CapInv'
    BY <1>2, <1>4, AssignCaps DEF Read
<1>5. ASSUME NEW r \in Reg, NEW claim \in Claim, NEW reason \in Reason,
             NEW caveat \in Caveat, NEW hidden \in Hidden,
             ReadUnevaluated(r, claim, reason, caveat, hidden)
      PROVE  CapInv'
    BY <1>2, <1>3, <1>5, AssignCaps DEF ReadUnevaluated
<1>6. ASSUME NEW r \in Reg, NEW caveat \in Caveat, NEW hidden \in Hidden,
             Doubt(r, caveat, hidden)
      PROVE  CapInv'
    BY <1>3, <1>6, AssignCaps DEF Doubt, CapInv
<1>7. ASSUME NEW r \in Reg, NEW p \in Reg, NEW q \in Reg, And(r, p, q)
      PROVE  CapInv'
    <2>1. IsFiniteSet(set[p].terms) /\ IsFiniteSet(set[q].terms)
        BY DEF CapInv, Capped
    <2>2. Capped(MeetSets(set[p], set[q]))
        BY <2>1, ProductFinite, NormaliseCaps DEF MeetSets
    <2>3. QED BY <1>7, <2>2, AssignCaps DEF And
<1>8. ASSUME NEW r \in Reg, NEW p \in Reg, NEW q \in Reg, Or(r, p, q)
      PROVE  CapInv'
    <2>1. IsFiniteSet(set[p].terms \cup set[q].terms)
        BY FS_Union DEF CapInv, Capped
    <2>2. Capped(JoinSets(set[p], set[q]))
        BY <2>1, NormaliseCaps DEF JoinSets
    <2>3. QED BY <1>8, <2>2, AssignCaps DEF Or
<1>9. ASSUME NEW r \in Reg, ReadEverything(r)
      PROVE  CapInv'
    BY <1>9, EmptyTermCapped, AssignCaps DEF ReadEverything, Everything
<1>10. CASE UNCHANGED vars
    BY <1>10 DEF vars, CapInv
<1>11. QED BY <1>4, <1>5, <1>6, <1>7, <1>8, <1>9, <1>10 DEF Next

(* No set a reader holds ever has more terms than the cap. *)
THEOREM TermCapHolds == Spec => []CapIsKept
<1>1. Init => CapInv
    <2>1. Capped(Nothing)
        BY FS_EmptySet, TermCapAssumption DEF Capped, Nothing, Set
    <2>2. QED BY <2>1 DEF Init, CapInv
<1>2. CapInv => CapIsKept
    BY DEF CapInv, Capped, CapIsKept
<1>3. QED BY <1>1, <1>2, StepCaps, InitHolds, StepPreserves, PTL DEF Spec
=============================================================================
