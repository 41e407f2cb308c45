-------------------------------- MODULE Cel --------------------------------
(***************************************************************************)
(* internal/parse/gcp/cel.go: what an attribute condition admits.  The     *)
(* condition is parsed (CelGrammar) and evaluated under a resolver, which  *)
(* says which claim of the credential a reference names.  Evaluation gives *)
(* a set and the doubts it recorded on the way: a claim it read as         *)
(* unconstrained, or the whole grant.  Sentences are left out; a doubt is  *)
(* the claim its caveat is on.                                             *)
(*                                                                         *)
(* The last section is what the condition means to Google, in the          *)
(* three-valued logic of CEL, where an absent claim is an error that       *)
(* && and || may absorb.                                                   *)
(***************************************************************************)
EXTENDS AdmittedSet, CelGrammar

CONSTANTS
    Char, Star, Quest,  \* the characters of values, and the wildcards of patterns
    Spelling,           \* Spelling[v]: the characters of a value
    ConditionLimit,     \* conditionLimit, counted in tokens
    MappingLimit,       \* mappingLimit, counted in tokens
    ListCap,            \* listCap: the values read from one list
    SubjectLimit        \* subjectLimit: the longest subject

Globs == INSTANCE GlobPattern WITH MaxPattern <- 0, MaxValue <- 0

OnGrant == "grant"   \* a doubt on the whole grant
NoClaim == "no claim"

-----------------------------------------------------------------------------
(* referenceOf: a keyword, a field of one, or a field indexed from one by  *)
(* a string literal.                                                       *)
IsReference(n) ==
    \/ n.kind = "ident"
    \/ n.kind = "select" /\ n.kids[1].kind = "ident"
    \/ n.kind = "index" /\ n.kids[1].kind = "ident" /\ n.kids[2].kind = "string"

ReferenceOf(n) ==
    CASE n.kind = "ident"  -> <<n.text, "">>
      [] n.kind = "select" -> <<n.kids[1].text, n.text>>
      [] n.kind = "index"  -> <<n.kids[1].text, n.kids[2].text>>

(* constrained: the first reference of a subtree, in source order.  The    *)
(* longer path a sentence would name is left out.                          *)
RECURSIVE References(_)

References(n) ==
    IF IsReference(n) THEN <<ReferenceOf(n)>>
    ELSE LET of == [i \in DOMAIN n.kids |-> References(n.kids[i])]
             some == { i \in DOMAIN of : of[i] # <<>> }
         IN  IF some = {} THEN <<>> ELSE of[CHOOSE i \in some : \A j \in some : i <= j]

(* mappedBy: a mapping value that is exactly a field of the assertion      *)
(* names that field.                                                       *)
MappedBy(text) ==
    LET tree == ParseCEL(text).tree IN
    IF Len(text) > MappingLimit \/ ~ParseCEL(text).ok \/ ~IsReference(tree) THEN NoClaim
    ELSE IF ReferenceOf(tree)[1] # "assertion" \/ ReferenceOf(tree)[2] = "" THEN NoClaim
    ELSE ReferenceOf(tree)[2]

Keywords == {"assertion", "google", "attribute"}

ClaimOf(res, field) == IF field \in DOMAIN res.translate THEN res.translate[field] ELSE field

(* resolver.resolve: the keyword, then the provider's kind, then the       *)
(* mapping.  Every failure of it widens the whole grant (failed).          *)
Resolve(res, ref) ==
    IF ref[1] \notin Keywords \/ ref[2] = "" \/ res.unattributable THEN NoClaim
    ELSE IF ref[1] = "assertion" THEN ClaimOf(res, ref[2])
    ELSE IF res.mappingUnread \/ ref \notin DOMAIN res.mapping THEN NoClaim
    ELSE IF res.mapping[ref] = NoClaim THEN NoClaim
    ELSE ClaimOf(res, res.mapping[ref])

Subject == <<"google", "subject">>
Groups  == <<"google", "groups">>

-----------------------------------------------------------------------------
(* What evaluation returns: the set, and the doubts recorded. *)
Result(set, doubts) == [set |-> set, doubts |-> doubts]

OnClaim(claim, s) == Result(NewAdmittedSet({[c \in {claim} |-> s]}), {})

UnknownOn(claim) == Result(NewAdmittedSet({[c \in {claim} |-> Unknown({claim})]}), {claim})

Unattributable == Result(Everything, {OnGrant})

(* failed: a reference that resolves to no claim leaves the whole grant    *)
(* unmodelled, whatever would be read of the claim.                        *)
Attributed(claim, read) == IF claim = NoClaim THEN Unattributable ELSE read

TopOf(res, ref) == Attributed(Resolve(res, ref), UnknownOn(Resolve(res, ref)))

(* unmodelled: the top of the first claim the culprit names, or of the     *)
(* whole grant.                                                            *)
Unmodelled(res, culprit) ==
    IF References(culprit) = <<>> THEN Unattributable
    ELSE TopOf(res, References(culprit)[1])

(* overlong: a value written for the claim that is the subject, past the   *)
(* length Google gives a subject, keeps its set, doubted.                  *)
Overlong(res, claim, values) ==
    IF claim = Resolve(res, Subject) /\ \E v \in values : Len(Spelling[v]) > SubjectLimit
    THEN {claim} ELSE {}

Stated(res, claim, values, s) ==
    Result(OnClaim(claim, s).set, Overlong(res, claim, values))

Equality(res, n) ==
    LET left  == IsReference(n.kids[1])
        named == IF left THEN n.kids[1] ELSE n.kids[2]
        other == IF left THEN n.kids[2] ELSE n.kids[1]
        ref   == ReferenceOf(named)
        claim == Resolve(res, ref)
    IN  IF ~IsReference(named)
        THEN Unmodelled(res, IF n.kids[1].kind = "string" THEN n.kids[2] ELSE n.kids[1])
        ELSE Attributed(claim,
                IF other.kind # "string" \/ ref = Groups \/ other.newline THEN UnknownOn(claim)
                ELSE Stated(res, claim, {other.text}, Exact(other.text)))

Literals(items) == \A i \in DOMAIN items : items[i].kind = "string"

(* union folds the values with Join, which is their union. *)
ExactOf(values) == NewUnion({ ExactTerm(v) : v \in values })

Membership(res, n) ==
    LET left == n.kids[1]  right == n.kids[2]  items == n.kids[2].kids
        texts == { items[i].text : i \in DOMAIN items }
        claim == Resolve(res, ReferenceOf(left))
    IN  IF IsReference(left)
        THEN Attributed(claim,
                IF \/ right.kind # "list" \/ ~Literals(items)
                   \/ ReferenceOf(left) = Groups
                   \/ Len(items) = 0 \/ Len(items) > ListCap
                   \/ \E i \in DOMAIN items : items[i].newline
                THEN UnknownOn(claim)
                ELSE Stated(res, claim, texts, ExactOf(texts)))
        ELSE IF IsReference(right) THEN TopOf(res, ReferenceOf(right))
        ELSE Unmodelled(res, left)

Affixes == {"startsWith", "endsWith", "contains"}

(* The pattern of an affix, as eval.Glob takes it. *)
Affix(fn, text) ==
    LET p == (IF fn = "startsWith" THEN <<>> ELSE <<Star>>) \o Spelling[text]
               \o (IF fn = "endsWith" THEN <<>> ELSE <<Star>>)
    IN  IF Globs!Kind(p) = "any" THEN Any ELSE Glob(p)

HasWildcard(text) == \E i \in DOMAIN Spelling[text] : Spelling[text][i] \in {Star, Quest}

(* The arguments of a call that a pattern states. *)
Statable(fn, args) ==
    /\ fn \in Affixes /\ Len(args) = 1
    /\ args[1].kind = "string" /\ ~args[1].newline
    /\ Spelling[args[1].text] # <<>>
    /\ ~HasWildcard(args[1].text)

Call(res, n) ==
    LET receiver == n.kids[1]  args == Tail(n.kids)
        claim == Resolve(res, ReferenceOf(receiver))
    IN  IF receiver = NoReceiver
        THEN IF n.text = "has" /\ Len(args) = 1 /\ IsReference(args[1])
             THEN TopOf(res, ReferenceOf(args[1]))
             ELSE Unmodelled(res, n)
        ELSE IF ~IsReference(receiver) THEN Unmodelled(res, receiver)
        ELSE Attributed(claim,
                IF ReferenceOf(receiver) = Groups \/ ~Statable(n.text, args) THEN UnknownOn(claim)
                ELSE Stated(res, claim, {args[1].text}, Affix(n.text, args[1].text)))

(* clause: one comparison, call or leaf. *)
Clause(res, n) ==
    IF n.kind = "binary" /\ n.text = "==" THEN Equality(res, n)
    ELSE IF n.kind = "binary" /\ n.text = "in" THEN Membership(res, n)
    ELSE IF n.kind = "call" THEN Call(res, n)
    ELSE IF n.kind \in {"literal", "string", "bytes", "list", "map"} THEN Unattributable
    ELSE IF IsReference(n) THEN TopOf(res, ReferenceOf(n))
    ELSE Unmodelled(res, n)

(* singleClaim: the one claim every term constrains, alone. *)
SingleClaim(set) ==
    LET claims == UNION { DOMAIN t : t \in set.terms }
    IN  IF (\A t \in set.terms : Cardinality(DOMAIN t) = 1) /\ Cardinality(claims) = 1
        THEN CHOOSE c \in claims : TRUE ELSE NoClaim

RECURSIVE Operand(_), Bangs(_), ConditionAdmits(_, _)

IsNot(n) == n.kind = "unary" /\ n.text = "!"

(* The operand under a run of !, and the length of the run. *)
Operand(n) == IF IsNot(n) THEN Operand(n.kids[1]) ELSE n
Bangs(n)   == IF IsNot(n) THEN 1 + Bangs(n.kids[1]) ELSE 0

MutantNegated(count, operand) == operand   \* a negation is read as what it negates

(* negated: an even run is the operand; an odd run over one comparison on  *)
(* one claim, with no doubt recorded, is the top of the claim; any other   *)
(* is the top of the grant.  The operand's doubts stay recorded.           *)
Negated(count, operand) ==
    IF count % 2 = 0 THEN operand
    ELSE IF operand.doubts = {} /\ SingleClaim(operand.set) # NoClaim
    THEN UnknownOn(SingleClaim(operand.set))
    ELSE Result(Everything, operand.doubts \cup {OnGrant})

Combined(Combine(_, _), a, b) == Result(Combine(a.set, b.set), a.doubts \cup b.doubts)

(* condition.admitted *)
ConditionAdmits(res, n) ==
    CASE n.kind = "binary" /\ n.text = "&&" ->
            Combined(MeetSets, ConditionAdmits(res, n.kids[1]), ConditionAdmits(res, n.kids[2]))
      [] n.kind = "binary" /\ n.text = "||" ->
            Combined(JoinSets, ConditionAdmits(res, n.kids[1]), ConditionAdmits(res, n.kids[2]))
      [] IsNot(n) -> Negated(Bangs(n), ConditionAdmits(res, Operand(n)))
      [] n.kind = "literal" /\ n.text = "true"  -> Result(Everything, {})
      [] n.kind = "literal" /\ n.text = "false" -> Result(Nothing, {})
      [] n.kind = "ternary" -> Unattributable
      [] OTHER -> Clause(res, n)

(* evaluate: a condition past the limit or outside the grammar is not read *)
(* at all.                                                                 *)
Evaluate(res, text) ==
    LET parsed == ParseCEL(text)
    IN  IF Len(text) > ConditionLimit \/ ~parsed.ok THEN Unattributable
        ELSE ConditionAdmits(res, parsed.tree)

-----------------------------------------------------------------------------
(***************************************************************************)
(* What the condition means.  deployed says what each reference really     *)
(* names: a claim of the credential, or nothing the documents settle.  A   *)
(* clause they do not settle holds for the tokens world.odd, and world     *)
(* says too whether the limit on subjects is enforced on written values.   *)
(***************************************************************************)
Named(deployed, ref) == IF ref \in DOMAIN deployed THEN deployed[ref] ELSE NoClaim

Bool(b) == IF b THEN "true" ELSE "false"

(* Where the claim must be there, and its value pass the test. *)
Tested(token, claim, Test(_)) ==
    IF claim \notin DOMAIN token THEN "error" ELSE Bool(Test(token[claim]))

Affixed(fn, text, v) ==
    LET t == Spelling[text]  s == Spelling[v] IN
    \E i \in 0..(Len(s) - Len(t)) :
        /\ SubSeq(s, i + 1, i + Len(t)) = t
        /\ fn = "startsWith" => i = 0
        /\ fn = "endsWith" => i = Len(s) - Len(t)

(* The clauses the documents settle, and what each asks of a value. *)
Settled(deployed, n) ==
    LET names(k) == IsReference(k) /\ Named(deployed, ReferenceOf(k)) # NoClaim /\ ReferenceOf(k) # Groups
        text(k)  == k.kind = "string" /\ ~k.newline
    IN  CASE n.kind = "binary" /\ n.text = "==" ->
                \/ names(n.kids[1]) /\ text(n.kids[2])
                \/ names(n.kids[2]) /\ text(n.kids[1])
          [] n.kind = "binary" /\ n.text = "in" ->
                /\ names(n.kids[1]) /\ n.kids[2].kind = "list" /\ n.kids[2].kids # <<>>
                /\ \A i \in DOMAIN n.kids[2].kids : text(n.kids[2].kids[i])
          [] n.kind = "call" /\ n.text = "has" /\ n.kids[1] = NoReceiver ->
                Len(n.kids) = 2 /\ names(n.kids[2])
          [] n.kind = "call" /\ n.text \in Affixes ->
                names(n.kids[1]) /\ Len(n.kids) = 2 /\ text(n.kids[2])
          [] OTHER -> FALSE

ClauseHolds(deployed, world, n, token) ==
    LET claim(k) == Named(deployed, ReferenceOf(k))
        real(k, v) == ~(world.limited /\ claim(k) = Named(deployed, Subject) /\ Len(Spelling[v]) > SubjectLimit)
    IN  IF ~Settled(deployed, n) THEN Bool(token \in world.odd)
        ELSE CASE n.text = "==" ->
                    LET k == IF IsReference(n.kids[1]) THEN 1 ELSE 2 IN
                    Tested(token, claim(n.kids[k]), LAMBDA v :
                        v = n.kids[3 - k].text /\ real(n.kids[k], v))
               [] n.text = "in" ->
                    Tested(token, claim(n.kids[1]), LAMBDA v :
                        /\ \E i \in DOMAIN n.kids[2].kids : v = n.kids[2].kids[i].text
                        /\ real(n.kids[1], v))
               [] n.text = "has" -> Bool(claim(n.kids[2]) \in DOMAIN token)
               [] OTHER ->
                    Tested(token, claim(n.kids[1]), LAMBDA v :
                        /\ Affixed(n.text, n.kids[2].text, v)
                        /\ real(n.kids[1], n.kids[2].text))

RECURSIVE Holds(_, _, _, _)

Holds(deployed, world, n, token) ==
    LET of(k) == Holds(deployed, world, n.kids[k], token)
        both  == {of(1), of(2)}
    IN  CASE n.kind = "binary" /\ n.text = "&&" ->
                IF "false" \in both THEN "false" ELSE IF "error" \in both THEN "error" ELSE "true"
          [] n.kind = "binary" /\ n.text = "||" ->
                IF "true" \in both THEN "true" ELSE IF "error" \in both THEN "error" ELSE "false"
          [] IsNot(n) ->
                (IF of(1) = "error" THEN "error" ELSE Bool(of(1) = "false"))
          [] n.kind = "literal" /\ n.text \in {"true", "false"} -> n.text
          [] n.kind = "ternary" ->
                (CASE of(1) = "true" -> of(2) [] of(1) = "false" -> of(3) [] of(1) = "error" -> "error")
          [] OTHER -> ClauseHolds(deployed, world, n, token)

(* The tokens a condition really lets through: one that cannot be read at  *)
(* all may mean anything.                                                  *)
Passes(deployed, world, text) ==
    LET parsed == ParseCEL(text)
    IN  IF Len(text) > ConditionLimit \/ ~parsed.ok THEN world.odd
        ELSE { token \in Tokens : Holds(deployed, world, parsed.tree, token) = "true" }

(* A resolver reads a condition rightly: nothing it could not evaluate     *)
(* narrows the set, and without a doubt the set is the condition.          *)
EvaluatesRightly(res, deployed, world, text) ==
    LET result == Evaluate(res, text)
        passes == Passes(deployed, world, text)
    IN  /\ passes \subseteq Admitted(result.set)
        /\ result.doubts = {} /\ IsExact(result.set) => Admitted(result.set) = passes
=============================================================================
