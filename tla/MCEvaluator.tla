---------------------------- MODULE MCEvaluator ----------------------------
(***************************************************************************)
(* A small instance of Evaluator: two claims, three values, two patterns   *)
(* whose meaning is that of GlobPattern, and a cap of two terms, so that   *)
(* two Joins of different terms reach the cap and the third passes it.     *)
(***************************************************************************)
EXTENDS Evaluator, GlobPattern

MCValue == Values

APattern == <<"a", Star>>
OneChar  == <<Quest>>

MCPattern  == {APattern, OneChar}
MCLanguage == [p \in MCPattern |-> { v \in Values : Matches(p, v) }]

On(claim, s) == [c \in {claim} |-> s]

MCReadable ==
    { On("sub", Glob(APattern)), On("sub", Exact(<<"b">>)),
      [c \in {"sub", "aud"} |-> IF c = "sub" THEN Any ELSE Exact(<<>>)],
      On("aud", Join(Exact(<<>>), Glob(OneChar))), On("aud", None) }

MCHidden ==
    { {}, { t \in Tokens : "sub" \in DOMAIN t /\ t["sub"] = <<"a">> }, Tokens }
=============================================================================
