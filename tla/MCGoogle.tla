----------------------------- MODULE MCGoogle -----------------------------
(***************************************************************************)
(* Credentials of three claims and three values, one of them too long for  *)
(* a subject and one of them a star.  An OIDC token's sub and an AWS       *)
(* credential's arn are one claim: no provider has both.  The sample holds *)
(* every clause a reader meets, alone, negated and joined with one of each *)
(* shape of set.  No text of four tokens is a conditional, which the       *)
(* sample has: the alphabet leaves its marks out.                          *)
(***************************************************************************)
EXTENDS Google

MCSpelling ==
    [v \in {"a", "ab", "b", "*", "", "%"} |->
        CASE v = "a" -> <<"a">> [] v = "b" -> <<"b">> [] v = "ab" -> <<"a", "b">> [] v = "*" -> <<Star>>
          [] v = "" -> <<>> [] v = "%" -> <<"%">>]

MCPattern == { <<"a", Star>>, <<Star, "b">>, <<Star, "b", Star>> }

MCLanguage == [p \in Pattern |-> { v \in Value : Globs!Matches(p, MCSpelling[v]) }]

MCHidden == { {}, Tokens, { t \in Tokens : "sub" \in DOMAIN t /\ t["sub"] = "a" } }

-----------------------------------------------------------------------------
Ident(name)  == Token("ident", name)
Text(value)  == Token("string", value)
Broken(value) == [Token("string", value) EXCEPT !.newline = TRUE]
Number       == Token("number", "1")

Field(root, field) == <<Ident(root), Op("."), Ident(field)>>
Sub  == Field("assertion", "sub")
Role == Field("attribute", "role")

Is(ref, value) == ref \o <<Op("=="), Text(value)>>
List(tokens)   == <<Op("[")>> \o tokens \o <<Op("]")>>
Fn(ref, fn, args) == ref \o <<Op("."), Ident(fn), Op("(")>> \o args \o <<Op(")")>>
Parens(s) == <<Op("(")>> \o s \o <<Op(")")>>
Not(s)    == <<Op("!")>> \o Parens(s)

(* The clauses read into a set, and some the reader leaves unmodelled. *)
Modelled == { Is(Sub, "a"), Is(Field("google", "subject"), "ab"),
          Is(Role, "a"), <<Text("a"), Op("==")>> \o Field("assertion", "aud"),
          Sub \o <<Op("in")>> \o List(<<Text("a"), Op(","), Text("*")>>),
          Fn(Sub, "startsWith", <<Text("a")>>), Fn(Role, "endsWith", <<Text("b")>>) }

Unmodelleds == { <<Ident("assertion"), Op("["), Text("sub"), Op("]"), Op("=="), Number>>,
          Is(Field("google", "groups"), "a"), Is(Field("attribute", "other"), "a"),
          Is(Field("request", "sub"), "a"), Is(Parens(Is(Sub, "a")), "a"),
          Sub \o <<Op("=="), Broken("a")>>,
          Sub \o <<Op("in")>> \o List(<<>>),
          Sub \o <<Op("in")>> \o List(<<Text("a"), Op(","), Text("ab"), Op(","), Text("*")>>),
          <<Text("a"), Op("in")>> \o Field("google", "groups"),
          Fn(Sub, "startsWith", <<Text("")>>), Fn(Sub, "startsWith", <<Text("*")>>),
          Fn(Sub, "matches", <<Text("a")>>),
          Fn(Sub, "contains", <<Text("b")>>),
          <<Ident("has"), Op("(")>> \o Role \o <<Op(")")>>,
          Sub, Sub \o <<Op("!="), Text("a")>>,
          Is(Sub, "a") \o <<Op("?")>> \o Is(Role, "a") \o <<Op(":"), Token("bool", "true")>>,
          <<Op("-"), Number>>, <<Token("bool", "true")>>, <<Token("bool", "false")>>,
          <<Op("&&")>> }

Clauses == Modelled \cup Unmodelleds

Negations == { Not(c) : c \in Clauses } \cup { Not(Not(c)) : c \in Modelled }

(* One clause of each claim, one of each shape of set. *)
Partners == { Is(Sub, "a"), Is(Role, "a"), Fn(Role, "endsWith", <<Text("b")>>),
          Sub \o <<Op("in")>> \o List(<<Text("a"), Op(","), Text("*")>>) }

Pairs == { Parens(c) \o <<op>> \o Parens(d) : c \in Clauses \cup Negations, d \in Partners, op \in {Op("&&"), Op("||")} }

(* Three clauses with no parentheses to group them. *)
Chains == { Is(Sub, "a") \o <<p>> \o c \o <<q>> \o Is(Role, "a") :
                c \in Clauses, p \in {Op("&&"), Op("||")}, q \in {Op("&&"), Op("||"), Op("==")} }

MCSample ==
    Clauses \cup Negations \cup Pairs \cup Chains \cup { Not(Is(Sub, "a") \o <<op>> \o Is(f, "ab")) :
        op \in {Op("&&"), Op("||")}, f \in {Sub, Role} }

MCCondition ==
    { Is(Field("assertion", "aud"), "a"), Is(Field("google", "subject"), "a"),
      Is(Role, "a") \o <<Op("||")>> \o Is(Field("google", "subject"), "ab"),
      Not(Is(Role, "a")), Is(Field("assertion", "account"), "a") }

-----------------------------------------------------------------------------
Maps(key, kind, tokens, names) == [key |-> key, kind |-> kind, text |-> tokens, names |-> names]

RoleKey == <<"attribute", "role">>

MCMapping ==
    { <<>>,
      << Maps(Subject, "string", Sub, "sub"), Maps(RoleKey, "string", Field("assertion", "aud"), "aud") >>,
      << Maps(Subject, "string", Sub, "sub"), Maps(RoleKey, "string", Field("assertion", "account"), "account"),
         Maps(<<"google", "other">>, "string", Sub, NoClaim) >>,
      << Maps(RoleKey, "string", Sub, NoClaim), Maps(RoleKey, "string", Field("assertion", "aud"), NoClaim),
         Maps(Subject, "null", <<>>, NoClaim) >>,
      << Maps(Subject, "string", Fn(Sub, "extract", <<Text("a")>>), NoClaim),
         Maps(RoleKey, "number", <<>>, NoClaim) >> }

MCAudienceList ==
    { <<>>, <<"a">>, <<"a", "ab">>, <<"a", "">>, <<"a", NotAString>>, <<"a", "ab", "*">> }

Mbr(project, pool, form, attribute, value) ==
    [project |-> project, pool |-> pool, spelling |-> "exact", form |-> form,
     attribute |-> attribute, value |-> value, conditional |-> FALSE]

Plain == Mbr("number", "pool", "subject", "subject", "a")

MCMember ==
    { [Plain EXCEPT !.project = p, !.pool = q] : p \in Projects, q \in Pools }
      \cup { [Plain EXCEPT !.form = f, !.attribute = "role", !.value = "a"] : f \in Selectors }
      \cup { [Plain EXCEPT !.value = v] : v \in {"ab", "%"} }
      \cup { [Plain EXCEPT !.spelling = "miscased"], [Plain EXCEPT !.spelling = "escaped"],
             [Plain EXCEPT !.conditional = TRUE],
             [Plain EXCEPT !.form = "attribute", !.attribute = "aws_role"] }

OIDCDeployed ==
    Extended(Direct(NoResolver.translate), [k \in {Subject, RoleKey, Groups} |->
        IF k = Subject THEN "sub" ELSE IF k = RoleKey THEN "aud" ELSE "account"])

OIDCMapping == [k \in {Subject, RoleKey, Groups} |-> OIDCDeployed[k]]

MCResolvers ==
    { [res |-> [NoResolver EXCEPT !.mapping = OIDCMapping], deployed |-> OIDCDeployed],
      [res |-> [NoResolver EXCEPT !.mappingUnread = TRUE], deployed |-> Direct(NoResolver.translate)],
      [res |-> [NoResolver EXCEPT !.translate = AWSClaims, !.mapping = DefaultAWSMapping],
       deployed |-> Extended(Direct(AWSClaims), DefaultAWSMapping)],
      [res |-> [NoResolver EXCEPT !.unattributable = TRUE], deployed |-> [r \in {} |-> NoClaim]] }

MCAlphabet ==
    { Ident("a"), Token("reserved", "if"), Op("&&"), Op("=="), Op("!"),
      Op("("), Op(")"), Op("["), Op("]"), Op(".") }

-----------------------------------------------------------------------------
(* What is written under one member: nothing, one value, or two copies. *)
Writings(values) == {<<>>} \cup { <<v>> : v \in values } \cup { <<v, w>> : v, w \in values \ {Wrong} }

PageTokens == { Null, Wrong, TextValue(""), TextValue("next") }

ProviderLists ==
    { Null, Wrong, ListValue(<<>>), ListValue(<<"provider">>), ListValue(<<"provider", "provider">>),
      ListValue(<<"provider", "scalar">>), ListValue(<<"object">>) }

ProviderDocuments ==
    [of : {"providers"}, shape : {"object"}, near : BOOLEAN, list : Writings(ProviderLists),
     token : Writings(PageTokens), marks : BOOLEAN, labels : BOOLEAN]
      \cup { [of |-> "providers", shape |-> "list", near |-> FALSE, items |-> v.items] :
                v \in ProviderLists \ {Null, Wrong} }
      \cup { [of |-> "providers", shape |-> "scalar", near |-> FALSE] }

MemberLists == { Null, Wrong, ListValue(<<"string">>), ListValue(<<"string", "scalar">>) }
Conditions2 == { Null, Wrong, ObjectValue(<<TextValue("x")>>), ObjectValue(<<Null, Null>>) }

Texts == { <<>>, <<Wrong>>, <<TextValue("t")>> }

Bindings == [kind : {"object"}, near : BOOLEAN, role : Texts,
             members : Writings(MemberLists), condition : Writings(Conditions2)]

BindingLists ==
    { Null, Wrong, ListValue(<<Scalar>>) } \cup { ListValue(<<b>>) : b \in Bindings }

OneMember ==
    ListValue(<<[kind |-> "object", near |-> FALSE, role |-> <<>>, condition |-> <<>>,
                 members |-> <<ListValue(<<"string">>)>>]>>)

Policies == { <<v>> : v \in BindingLists } \cup Writings({Null, OneMember})

NestedPolicies == [bindings : {<<>>, <<OneMember>>}, near : BOOLEAN]

Results == [kind : {"object"}, near : BOOLEAN, labels : BOOLEAN, resource : Texts,
            policy : Writings({Null, Wrong} \cup { ObjectValue(p) : p \in NestedPolicies })]

PolicyDocument(bindings, result, results, token, marks, near, labels) ==
    [of |-> "policy", shape |-> "object", near |-> near, marks |-> marks, labels |-> labels,
     bindings |-> bindings, policy |-> result.policy, resource |-> result.resource,
     results |-> results, token |-> token]

NoResult == [policy |-> <<>>, resource |-> <<>>]

PolicyDocuments ==
    { PolicyDocument(v, NoResult, <<>>, <<>>, {"policy"}, near, TRUE) :
        v \in Policies, near \in BOOLEAN }
      \cup { PolicyDocument(<<>>, r, <<>>, <<>>, {"result"}, r.near, TRUE) :
                r \in { q \in Results : q.labels } }
      \cup { PolicyDocument(<<>>, NoResult, v, t, {"page"}, FALSE, TRUE) :
                v \in { <<ListValue(<<r>>)>> : r \in Results \cup {Scalar} }
                        \cup Writings({ Null, Wrong, ListValue(<<>>) }),
                t \in Writings(PageTokens) }
      \cup { PolicyDocument(<<OneMember>>, r, <<>>, <<>>, {"policy", "result"}, FALSE, TRUE) : r \in Results }
      \cup { PolicyDocument(<<>>, NoResult, <<>>, <<>>, {}, FALSE, labels) : labels \in BOOLEAN }

MCDocument == ProviderDocuments \cup PolicyDocuments
=============================================================================
