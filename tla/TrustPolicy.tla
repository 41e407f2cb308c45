---------------------------- MODULE TrustPolicy ----------------------------
(***************************************************************************)
(* internal/parse/aws: how a role's trust policy becomes grants.  The      *)
(* reader takes a statement, the constructs in it one after another, and   *)
(* projects a grant of it for its principal (a statement with several      *)
(* principals projects one for each, as several statements would).         *)
(*                                                                         *)
(* Beside the reading the model keeps what is deployed: the statement's    *)
(* real effect and the tokens it really matches.  A construct AWS          *)
(* documents means what AWS documents; one it does not, or of which the    *)
(* deployed policy may carry either of two copies, may mean anything the   *)
(* constant Hidden offers, or either copy.                                 *)
(***************************************************************************)
EXTENDS AdmittedSet

CONSTANTS
    Issuer,         \* the issuers principals and tokens name
    Condition,      \* Condition[i]: the conditions a statement about issuer i may hold
    Hidden,         \* what a construct whose meaning is not known may match
    MaxStatements,  \* bound: the statements of a document
    MaxConstructs   \* bound: the constructs read in a document

ReadOperators    == {"StringEquals", "StringLike"}
VacuousOperators == {"StringEqualsIfExists", "StringNotEquals", "NullTrue", "NullFalse"}

ASSUME PolicyAssumption ==
    /\ Claim \cup {"statement"} \subseteq Caveat
    /\ Claim \subseteq Reason
    /\ Tokens \in Hidden /\ Hidden \subseteq SUBSET Tokens
    /\ MaxStatements \in Nat /\ MaxConstructs \in Nat
    /\ DOMAIN Condition = Issuer
    /\ \A c \in UNION { Condition[i] : i \in Issuer } :
        /\ c.claim \in Claim
        /\ c.operator \in ReadOperators \cup VacuousOperators \cup {"other"}
        /\ c.values \subseteq StringSets /\ IsFiniteSet(c.values)
        /\ \A s \in c.values : ~IsUnknown(s)

VARIABLES
    statement,  \* the statement being read, NoStatement between two
    grants,     \* the grants projected, each with what is deployed
    read,       \* how many statements were begun
    constructs  \* how many constructs were read

vars == <<statement, grants, read, constructs>>

NoStatement == [effect |-> "none"]

Init == statement = NoStatement /\ grants = {} /\ read = 0 /\ constructs = 0

-----------------------------------------------------------------------------
(***************************************************************************)
(* What AWS does with a condition: StringEquals and StringLike ask for the *)
(* claim and for one of the values; the vacuous operators pass without it  *)
(* or whatever it holds.  A condition on no values, or with an operator or *)
(* a key no page documents, has no meaning of its own.                     *)
(***************************************************************************)
Among(values, v) == \E s \in values : Contains(s, v)

Documented(c) == c.operator # "other" /\ c.values # {}

Matches(c, token) ==
    LET present == c.claim \in DOMAIN token
        among   == present /\ Among(c.values, token[c.claim])
    IN  CASE c.operator \in ReadOperators           -> among
          [] c.operator = "StringEqualsIfExists"    -> ~present \/ among
          [] c.operator = "StringNotEquals"         -> ~among
          [] c.operator = "NullTrue"                -> ~present
          [] c.operator = "NullFalse"               -> present

Meanings(c) ==
    IF Documented(c) THEN {{ token \in Tokens : Matches(c, token) }} ELSE Hidden

(* Of two copies the deployed policy may carry either, or both. *)
RepeatedMeanings(c, d) ==
    Meanings(c) \cup Meanings(d) \cup { m \cap n : m \in Meanings(c), n \in Meanings(d) }

-----------------------------------------------------------------------------
(* valueSet, with joinAll: the union of the values listed, none of which   *)
(* is Unknown.  joinAll joins them two by two; Join is associative and     *)
(* commutative and its form canonical, so that drops exactly what one      *)
(* newUnion over all of their terms drops.                                 *)
ValueSet(values) ==
    LET terms == UNION { s.terms : s \in { v \in values : ~IsTop(v) /\ ~IsEmpty(v) } }
    IN  IF \E s \in values : IsTop(s) THEN Any
        ELSE IF terms = {} THEN None
        ELSE NewUnion(terms)

(* evaluate: the facts that keep a condition from being evaluated are its  *)
(* repetition, its key or operator, an empty list, and a list that admits  *)
(* every string, which asks for presence.                                  *)
Evaluated(c, repeated) ==
    /\ ~repeated
    /\ c.operator \in ReadOperators
    /\ c.values # {}
    /\ ~IsTop(ValueSet(c.values))

OutcomeOf(c, repeated) ==
    IF Evaluated(c, repeated) THEN ValueSet(c.values) ELSE Unknown({c.claim})

(* project: every constraint met with the others on its claim, in a term   *)
(* that starts empty for a federated principal, and a caveat on its claim  *)
(* for each that was not evaluated.                                        *)
MeetClaim(term, c, set) ==
    [d \in DOMAIN term \cup {c.claim} |->
        IF d # c.claim THEN term[d]
        ELSE IF c.claim \in DOMAIN term THEN Meet(term[d], set) ELSE set]

Constrain(s, c, repeated) ==
    [s EXCEPT !.term = MeetClaim(@, c, OutcomeOf(c, repeated)),
              !.caveats = @ \cup (IF Evaluated(c, repeated) THEN {} ELSE {c.claim})]

WithCaveats(a, C) == Set(a.terms, a.caveats \cup { [recorded |-> c] : c \in C })

Conditions(s) == WithCaveats(NewAdmittedSet({s.term}), s.caveats)

(***************************************************************************)
(* Statement.grant.  Actions that do not include the one this principal    *)
(* assumes through let nobody in, unless a folding AWS does not document   *)
(* may make one of them that action; a widening makes the set everything;  *)
(* doubts are caveats; and a Deny that is not exact is not applied.        *)
(***************************************************************************)
Uncertain(s) ==
    WithCaveats(IF s.widened THEN WithCaveats(Everything, s.caveats) ELSE Conditions(s),
                IF s.widened \/ s.doubted \/ s.actions = "fold" THEN {"statement"} ELSE {})

MutantAdmits(s) ==   \* a Deny partly unread is applied
    IF s.actions = "miss" THEN Nothing ELSE Uncertain(s)

AdmitsOf(s) ==
    IF s.actions = "miss" THEN Nothing
    ELSE IF s.effect = "Deny" /\ ~IsExact(Uncertain(s))
    THEN Set({}, Uncertain(s).caveats \cup {[recorded |-> "statement"]})
    ELSE Uncertain(s)

-----------------------------------------------------------------------------
Reading == statement # NoStatement

Effects == { <<"Allow", "Allow">>, <<"Deny", "Deny">>, <<"Unknown", "Allow">>, <<"Unknown", "Deny">> }

(* parseActions, covers, foldingDoubts: the action this principal assumes  *)
(* through is among the statement's, is not, may be under a folding, or    *)
(* the actions could not be read.                                          *)
ActionReadings == {"cover", "miss", "fold", "unknown"}

(* parseStatement and parseEffect: an effect that cannot be read is        *)
(* EffectUnknown, whichever of the two is deployed; actions that cannot be *)
(* read widen the statement.                                               *)
BeginStatement(effects, issuer, actions) ==
    /\ ~Reading /\ read < MaxStatements
    /\ read' = read + 1
    /\ statement' = [effect |-> effects[1], real |-> effects[2], issuer |-> issuer,
                     actions |-> actions, term |-> EmptyTerm, caveats |-> {},
                     widened |-> actions = "unknown", doubted |-> FALSE, matches |-> Tokens]
    /\ UNCHANGED <<grants, constructs>>

OneMore == Reading /\ constructs < MaxConstructs /\ constructs' = constructs + 1

(* parseConditions: a condition written once. *)
ReadCondition(c) ==
    /\ OneMore
    /\ \E m \in Meanings(c) :
        statement' = [Constrain(statement, c, FALSE) EXCEPT !.matches = @ \cap m]
    /\ UNCHANGED <<grants, read>>

(* parseConditions and repeatOf: a key, or an operator's block, written    *)
(* twice.  The deployed policy carries one copy, or both of two keys that  *)
(* only a folding nobody documents makes one; every copy is Unknown.       *)
ReadRepeated(c, d) ==
    /\ OneMore
    /\ c.operator = d.operator
    /\ \E m \in RepeatedMeanings(c, d) :
        statement' = [Constrain(Constrain(statement, c, TRUE), d, TRUE) EXCEPT !.matches = @ \cap m]
    /\ UNCHANGED <<grants, read>>

(* widen: a construct that leaves the whole statement unevaluated. *)
Widen ==
    /\ OneMore
    /\ \E m \in Hidden : statement' = [statement EXCEPT !.widened = TRUE, !.matches = m]
    /\ UNCHANGED <<grants, read>>

(* doubt: a statement the deployed policy may not carry, or a construct    *)
(* outside the grammar beside constraints that can be read.                *)
Doubt ==
    /\ OneMore
    /\ \E m \in Hidden :
        statement' = [statement EXCEPT !.doubted = TRUE, !.matches = @ \cap m]
    /\ UNCHANGED <<grants, read>>

Grant(s, matches) ==
    [effect |-> s.effect, issuer |-> s.issuer, admits |-> AdmitsOf(s),
     real |-> s.real, matches |-> matches]

(* What the statement's actions leave of it in the deployed policy. *)
Applies(s) ==
    CASE s.actions = "cover" -> {s.matches}
      [] s.actions = "miss"  -> {{}}
      [] OTHER               -> {{}, s.matches}

EndStatement ==
    /\ Reading
    /\ \E m \in Applies(statement) : grants' = grants \cup {Grant(statement, m)}
    /\ statement' = NoStatement
    /\ UNCHANGED <<read, constructs>>

Writable == IF Reading THEN Condition[statement.issuer] ELSE {}

Next ==
    \/ \E effects \in Effects, issuer \in Issuer, actions \in ActionReadings :
            BeginStatement(effects, issuer, actions)
    \/ \E c \in Writable : ReadCondition(c)
    \/ \E c, d \in Writable : ReadRepeated(c, d)
    \/ Widen
    \/ Doubt
    \/ EndStatement

Spec == Init /\ [][Next]_vars

-----------------------------------------------------------------------------
(***************************************************************************)
(* The reader keeps the promise of every reader: an Allow, and a statement *)
(* of which the effect was not read, admits every token its statement      *)
(* really matches; a Deny that could not be fully evaluated takes out none *)
(* (denyNotApplied); and a grant with no caveat is its statement.          *)
(***************************************************************************)
Promise == INSTANCE ReaderPromise WITH grants <- grants

KeepsThePromise == Promise!Spec
=============================================================================
