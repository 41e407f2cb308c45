------------------------------ MODULE MCAzure ------------------------------
(***************************************************************************)
(* Tokens of five claims and two values, one of which holds the word that  *)
(* joins clauses; the pattern "*b" matches that one.                       *)
(***************************************************************************)
EXTENDS Azure

MCLanguage == [p \in {"*b"} |-> {"a and b"}]

Comparand == { <<"a">>, <<"a", AND, "b">>, <<"*b">>, <<"*">>, <<>>, <<Quote, Quote>>,
               <<"a", Quote, Quote, AND, "b">>, <<"a", AND, Quote, Quote>> }

MCLiteral ==
    [s \in { <<"a">>, <<"a", AND, "b">>, <<"*b">>, <<"*">> } |->
        IF s = <<"a", AND, "b">> THEN "a and b" ELSE s[1]]

MCGlobbed ==
    [s \in { <<"a">>, <<"a", AND, "b">>, <<"*b">>, <<"*">> } |->
        CASE s = <<"*">> -> Any [] s = <<"*b">> -> Glob("*b") [] OTHER -> Exact(MCLiteral[s])]

MCLower == [w \in {"SUB", "REPOSITORY_ID"} |-> IF w = "SUB" THEN "sub" ELSE "repository_id"]

Host(labels, path) == [labels |-> labels, path |-> path]
GitHub == <<"token", "actions", "githubusercontent", "com">>

MCIssuer ==
    { Host(GitHub, FALSE), Host(GitHub, TRUE), Host(<<"gitlab", "com">>, FALSE),
      Host(<<"gitlab", "example", "ca">>, FALSE), Host(<<"gitlab", "ca">>, FALSE),
      Host(<<"app", "eu", "terraform", "io">>, FALSE), Host(<<>>, FALSE) }

-----------------------------------------------------------------------------
Clause(name, operator, comparand) ==
    [ok |-> TRUE, name |-> <<name>>, operator |-> <<operator>>, comparand |-> comparand]

OnSub  == { Clause("sub", op, s) : op \in {"eq", "matches", "like"}, s \in Comparand }
OnRepo == { Clause("repository_id", "eq", <<"a">>), Clause("repository_id", "matches", <<"*b">>),
            Clause("REPOSITORY_ID", "eq", <<"a">>), Clause("repository_owner_id", "eq", <<"a", AND, "b">>) }
Others == { Clause("SUB", "eq", <<"a">>), Clause("aud", "eq", <<"a">>), Clause("other", "eq", <<"a">>),
            Clause("job_workflow_ref", "matches", <<"*">>) }

MCSample ==
    { <<c>> : c \in OnSub } \cup { <<c, d>> : c, d \in OnRepo \cup Others }
      \cup { <<c, d>> : c \in OnSub, d \in OnRepo }
      \cup { <<c, d, e>> : c \in OnSub, d \in OnRepo, e \in Others \cup {Clause("sub", "eq", <<"a">>)} }
      \cup { <<c, c, c, c>> : c \in Others }

Repo == WrittenClause(Clause("repository_id", "eq", <<"a">>))

(* A clause with one lexeme too few or too many, before a good one. *)
Without(s, i) == SubSeq(s, 1, i - 1) \o SubSeq(s, i + 1, Len(s))
With(s, i, x) == SubSeq(s, 1, i) \o <<x>> \o SubSeq(s, i + 1, Len(s))

MCPieces ==
    UNION { LET s == WrittenClause(Clause("sub", "eq", <<"a", AND, "b">>)) IN
            { u \o v : u \in { Without(s, i) : i \in DOMAIN s }
                              \cup { With(s, i, x) : i \in 0..Len(s), x \in {Quote, AND, " ", "eq", "claims["} },
                       v \in {<<>>, <<AND>>, <<AND>> \o Repo} } }
      \cup {<<" ">>, <<AND>>}

-----------------------------------------------------------------------------
Both(c, d) == Written(<<c, d>>)
AnId == Clause("repository_id", "eq", <<"a">>)

MCExpression ==
    { Both(Clause("sub", "eq", <<"a">>), AnId), Both(Clause("sub", "matches", <<"*b">>), AnId),
      Both(Clause("sub", "matches", <<"*">>), AnId), Both(Clause("SUB", "eq", <<"a">>), AnId),
      Both(Clause("sub", "eq", <<"a">>), Clause("sub", "eq", <<"a", AND, "b">>)),
      Written(<<Clause("sub", "eq", <<"a">>), AnId, Clause("aud", "eq", <<"a">>)>>),
      Written(<<Clause("sub", "eq", <<"a">>), AnId, Clause("job_workflow_ref", "matches", <<"*b">>)>>),
      Both(Clause("sub", "like", <<"a">>), AnId), Both(Clause("sub", "eq", <<>>), AnId),
      Both(Clause("other", "eq", <<"a">>), Clause("sub", "eq", <<"*b">>)),
      Both(AnId, Clause("repository_owner_id", "eq", <<"a">>)),
      Written(<<Clause("sub", "eq", <<"a">>)>>), <<" ">>, <<Quote>>,
      Written(<<AnId, AnId, AnId, Clause("sub", "eq", <<"a">>)>>) }

MCAudienceList ==
    { <<>>, <<"a">>, <<"a", "a and b">>, <<"a", "a">>, <<"a", Empty>>, <<"a", NotAString>>,
      <<"a", "a", "a and b">> }

MCHidden == { {}, Tokens, Carrying("sub", {"a and b"}) }

-----------------------------------------------------------------------------
Props == {<<>>, <<"scalar">>, <<"credential">>, <<"empty">>, <<"credential", "empty">>, <<"credential", "credential">>}

Objects == { Object(own, props) : own \in BOOLEAN, props \in Props }

Containers ==
    Objects \cup {Scalar} \cup { Listed(s) : s \in {<<>>} \cup { <<o>> : o \in Objects \cup {Scalar} }
                                    \cup { <<o, p>> : o \in Objects, p \in Objects \cup {Scalar} } }

Copies == {<<>>} \cup { <<v>> : v \in Containers }
            \cup { <<v, w>> : v \in {Scalar, Listed(<<Object(TRUE, <<>>)>>)}, w \in Objects \cup {Scalar} }

Near == {<<>>, <<Scalar>>, <<Listed(<<Object(TRUE, <<>>)>>)>>, <<Scalar, Object(FALSE, <<"credential">>)>>}

MCDocument ==
    (Containers \ Objects)
      \cup [kind : {"object"}, own : BOOLEAN, props : Props, values : Copies, near : Near]
=============================================================================
