------------------------------- MODULE MCGlob -------------------------------
(***************************************************************************)
(* The matcher of glob.go over every pattern of up to MaxPattern           *)
(* characters and every value of up to MaxValue, with two literal          *)
(* characters; the walk over pairs of patterns; and the conditions that    *)
(* write such patterns.                                                    *)
(***************************************************************************)
EXTENDS Glob, WitnessWalk, WrittenConditions

LOCAL INSTANCE SequencesExt

(***************************************************************************)
(* glob.Contains, and the exact and Any a pattern is normalised to, answer *)
(* what the pattern means.                                                 *)
(***************************************************************************)
AnswerIsMeaning ==
    verdict # "running" => (verdict = "yes" <=> Matches(pattern, value))

(***************************************************************************)
(* The walk for an example identity (witness.go, shortestShared) under any *)
(* bound: a text it returns is matched by both patterns, and no shorter    *)
(* one is; and when it ran to its end without one, no value is matched by  *)
(* both.  Only a walk the bound stopped leaves the question open.          *)
(***************************************************************************)
CONSTANTS WalkBounds, WalkPatterns

Shared(p, q) == { v \in Values : Matches(p, v) /\ Matches(q, v) }

Honest(p, q, bound) ==
    LET r == ShortestShared(<<p, q>>, bound)
    IN  CASE r.end = "found" -> /\ Matches(p, r.text) /\ Matches(q, r.text)
                                /\ \A v \in Shared(p, q) : Len(r.text) <= Len(v)
          [] r.end = "none"  -> Shared(p, q) = {}
          [] r.end = "bound" -> TRUE

WalksAreHonest ==
    verdict = "running" /\ k = 0 /\ value = <<>> /\ parts = 0 =>
        \A q \in WalkPatterns, bound \in WalkBounds : Honest(pattern, q, bound)

MCWalkPatterns == Strings(Char \cup {Star, Quest}, 3)

-----------------------------------------------------------------------------
(* Every operator and key the reader tells apart, and values of up to two  *)
(* pieces.                                                                 *)
Op(set, base, ifExists) == [set |-> set, base |-> base, ifExists |-> ifExists]
Plain(base) == Op("", base, FALSE)

MCOperator ==
    { Plain("StringEquals"), Plain("StringLike"), Plain("StringNotEquals"),
      Plain("ArnLike"), Plain("Null"), Plain("stringequals"),
      Op("", "StringLike", TRUE), Op("", "Null", TRUE),
      Op("ForAllValues", "StringEquals", FALSE), Op("ForAnyValue", "StringLike", FALSE) }

KeyOf(provider, claim) == [provider |-> provider, claim |-> claim, folds |-> FALSE, variable |-> FALSE]
Odd(key) == [key EXCEPT !.folds = TRUE]

MCKey ==
    { KeyOf("own", "sub"), KeyOf("own", "amr"), KeyOf("own", "jti"), KeyOf("own", ""),
      Odd(KeyOf("own", "sub")), [KeyOf("own", "sub") EXCEPT !.variable = TRUE],
      KeyOf("folded", "sub"), Odd(KeyOf("folded", "sub")),
      KeyOf("foreign", "sub"), KeyOf("service", "ip"), KeyOf("identity", "arn"), KeyOf("none", "sub") }

MCText ==
    { <<"a">>, <<"*">>, <<"a", "*">>, <<"${*}">>, <<"a", "${*}">>, <<"${$}">>, <<"${v}">>, <<"${", "a">> }

MCHolder ==
    LET oidc == [kind |-> "oidc", known |-> TRUE, folds |-> FALSE]
    IN  { oidc, [oidc EXCEPT !.known = FALSE], [oidc EXCEPT !.folds = TRUE],
          [oidc EXCEPT !.kind = "identity"], [oidc EXCEPT !.kind = "anyone"],
          [oidc EXCEPT !.kind = "service"] }

MCVocabulary == [claim \in {"sub", "amr"} |-> IF claim = "sub" THEN "ClaimRead" ELSE "MultivaluedRead"]

MCCarried == { <<"a">>, <<"*">>, <<"$">>, <<"a", "b">>, <<"$", "{", "*", "}">> }

MCReplaced == <<"a", "b">>

-----------------------------------------------------------------------------
(* A pattern is asked about a value, or a Condition is written: the two    *)
(* share no state.                                                         *)
Unasked == verdict = "running" /\ pattern = <<>> /\ value = <<>>

MCInit ==
    /\ Init /\ ConditionInit
    /\ Unasked \/ holder = CHOOSE h \in Holder : TRUE

MCNext ==
    \/ parts = 0 /\ Next /\ UNCHANGED conditionVars
    \/ Unasked /\ ConditionNext /\ UNCHANGED vars

MCSpec == MCInit /\ [][MCNext]_<<vars, conditionVars>>
=============================================================================
