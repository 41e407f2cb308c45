------------------------------- MODULE MCRing -------------------------------
(***************************************************************************)
(* "github" is an issuer every tenant shares: two owners, a (id 1) and ab  *)
(* (id 2), whose subjects are a/x and ab/x; "a/*" pins a and "a*" nobody;  *)
(* the value "a*" written under StringEquals is a bound.  sub and owner_id *)
(* name a tenant, and src is a key of AWS's request.                       *)
(* The other issuers are one of each kind.                                 *)
(***************************************************************************)
EXTENDS Ring, Principals

MCLanguage ==
    [p \in Pattern |-> IF p = "a/*" THEN {"a/x"} ELSE {"a/x", "ab/x", "a*"}]

On(claim, operator, values) == [claim |-> claim, operator |-> operator, values |-> values]

(* The conditions on an issuer of which claims are read, more on the       *)
(* shared one, a few where no claim moves the place, and on one issuer     *)
(* those that pass without the claim, or whatever it holds.                *)
Plain ==
    { On("sub", "StringEquals", {Exact("a/x")}),
      On("sub", "StringEquals", {Exact("a*")}),
      On("sub", "StringLike", {Glob("a/*"), Glob("a*")}),
      On("sub", "other", {Exact("a/x")}),
      On("owner_id", "StringEquals", {Exact("1")}),
      On("src", "other", {Exact("1")}) }

Few == { On("sub", "StringEquals", {Exact("a/x")}), On("sub", "other", {Exact("a/x")}),
         On("src", "other", {Exact("1")}) }

More ==
    { On("sub", "StringEquals", {Exact("a/x"), Exact("ab/x")}),
      On("sub", "StringLike", {Glob("a/*")}),
      On("sub", "StringLike", {Glob("a/*"), Exact("a*")}),
      On("sub", "StringLike", {Glob("a*")}),
      On("owner_id", "other", {Exact("1")}) }

Passing ==
    { On("sub", "StringLike", {Any}),
      On("sub", "StringNotEquals", {Exact("a/x")}),
      On("owner_id", "StringEquals", {}),
      On("owner_id", "StringEqualsIfExists", {Exact("1")}),
      On("owner_id", "NullTrue", {Any}),
      On("owner_id", "NullFalse", {Any}) }

MCCondition ==
    [i \in Issuer |->
        CASE i = "github"   -> Plain \cup More
          [] i = "untaught" -> Plain \cup Passing
          [] i \in {"guests", "charless", "repos", "aws"} -> Plain
          [] OTHER          -> Few]

(* The union of the values listed is what joining them one by one leaves. *)
Sets == INSTANCE FiniteSetsExt

ASSUME ValueSetIsTheFold ==
    \A values \in SUBSET UNION { c.values : c \in Plain \cup More \cup Passing } :
        ValueSet(values) = Sets!FoldSet(Join, None, values)

MCHidden == { {}, { t \in Tokens : "sub" \in DOMAIN t /\ t["sub"] = "a/x" }, Tokens }

-----------------------------------------------------------------------------
Owner(issuer, namespace, scope, kind, value) ==
    [issuer |-> issuer, namespace |-> namespace, scope |-> scope, kind |-> kind, value |-> value]

NameOf(n) == Owner("github", "github", "owner", "name", n)
IdOf(n)   == Owner("github", "github", "owner", "id", n)
Tenant    == Owner("tenant", "issuer", "tenant", "name", "t")
Provider  == Owner("saml", "saml", "provider", "name", "saml")
AwsOwner  == Owner("aws", "aws", "account", "id", "1")

GitHub(name, id) == [namespace |-> "github", scope |-> "owner", name |-> name, id |-> id, value |-> ""]

Declared(namespace, scope, value) ==
    [namespace |-> namespace, scope |-> scope, name |-> "", id |-> "", value |-> value]

MCDeclaration ==
    { GitHub("A", "1"), Declared("saml", "provider", "saml"),
      Declared("issuer", "tenant", "tenant"), Declared("aws", "account", "1") }

MCLower == [n \in {"a", "A", "ab", "1", "2", ""} |-> IF n = "A" THEN "a" ELSE n]

-----------------------------------------------------------------------------
NoFacts ==
    [modelled |-> TRUE, class |-> "oidc", population |-> "none", kind |-> "not-surveyed",
     anonymous |-> "unverified", tenancy |-> FALSE, membership |-> "unverified", tenant |-> {},
     provider |-> {}, ignoreCase |-> FALSE]

Class(class) == [NoFacts EXCEPT !.class = class]
AnyOf(population) == [Class("issuerless") EXCEPT !.population = population]
Surveyed(kind, anonymous) == [NoFacts EXCEPT !.kind = kind, !.anonymous = anonymous]

MCFacts ==
    [i \in Issuer |->
        CASE i = "github"     -> [Surveyed("shared", "no") EXCEPT !.tenancy = TRUE, !.ignoreCase = TRUE]
          [] i = "untaught"   -> Surveyed("shared", "no")
          [] i \in {"charless", "repos"} -> [Surveyed("shared", "no") EXCEPT !.tenancy = TRUE]
          [] i = "guests"     -> [Surveyed("shared", "yes") EXCEPT !.tenancy = TRUE]
          [] i = "unverified" -> Surveyed("per-tenant", "unverified")
          [] i = "tenant"     -> [Surveyed("per-tenant", "no") EXCEPT !.membership = "controlled", !.tenant = {Tenant}]
          [] i = "open"       -> [Surveyed("per-tenant", "no") EXCEPT !.membership = "open"]
          [] i = "unnamed"    -> Surveyed("per-tenant", "no")
          [] i = "saml"       -> [Class("saml") EXCEPT !.provider = {Provider}]
          [] i = "service"    -> Class("service")
          [] i = "aws"        -> Class("aws")
          [] i = "canonical"  -> [Class("aws") EXCEPT !.modelled = FALSE]
          [] i = "*services"  -> AnyOf("services")
          [] i = "*both"      -> AnyOf("services+saml")
          [] i = "*saml"      -> AnyOf("saml")
          [] i = "*all"       -> AnyOf("every issuer")
          [] OTHER            -> NoFacts]

ClaimReader(value, pattern) ==
    [value |-> value, pattern |-> pattern, patterns |-> TRUE, bounded |-> {}, recorded |-> TRUE]

SubReader ==
    [ClaimReader([v \in Value |-> CASE v = "a/x" -> {NameOf("a")} [] v = "ab/x" -> {NameOf("ab")} [] OTHER -> {}],
                 [p \in Pattern |-> IF p = "a/*" THEN {NameOf("a")} ELSE {}]) EXCEPT !.bounded = {"a*"}]

IdReader ==
    ClaimReader([v \in Value |-> IF v \in {"1", "2"} THEN {IdOf(v)} ELSE {}], [p \in Pattern |-> {}])

(* A repository's name, an owner of its own that no declaration names. *)
RepositoryOf(v) == Owner("repos", "github", "repository", "name", v)
RepositoryReader ==
    [ClaimReader([v \in Value |-> {RepositoryOf(v)}], [p \in Pattern |-> {}]) EXCEPT !.patterns = FALSE]

AwsReader ==
    ClaimReader([v \in Value |-> IF v = "a/x" THEN {AwsOwner} ELSE {}],
                [p \in Pattern |-> IF p = "a/*" THEN {AwsOwner} ELSE {}])

MCReads ==
    [i \in Issuer |->
        CASE i \in {"github", "guests"} -> [c \in {"sub", "owner_id"} \cap Claim |-> IF c = "sub" THEN SubReader ELSE IdReader]
          [] i = "charless"             -> [c \in {"sub"} |-> [SubReader EXCEPT !.recorded = FALSE]]
          [] i = "repos"                -> [c \in {"sub"} |-> RepositoryReader]
          [] i = "aws"                  -> [c \in {"sub"} |-> AwsReader]
          [] OTHER                      -> [c \in {} |-> IdReader]]

-----------------------------------------------------------------------------
MCHoldersOf ==
    [i \in Issuer |->
        CASE i \in {"github", "repos", "untaught", "charless", "open", "unnamed"} -> {"a", "ab"}
          [] i \in {"tenant", "aws"} -> {"a"}
          [] OTHER -> Holder]

MCIs ==
    [h \in Holder |->
        CASE h = "a"  -> {NameOf("a"), IdOf("1"), RepositoryOf("a/x"), Tenant, AwsOwner, Provider}
          [] h = "ab" -> {NameOf("ab"), IdOf("2"), RepositoryOf("ab/x"), Provider}
          [] OTHER    -> {Provider}]

MCBears ==
    [h \in Holder |-> [c \in Claim |->
        CASE c = "sub" /\ h = "a"       -> {"a/x"}
          [] c = "sub" /\ h = "ab"      -> {"ab/x"}
          [] c = "owner_id" /\ h = "a"  -> {"1"}
          [] c = "owner_id" /\ h = "ab" -> {"2"}
          [] c = "sub" /\ h = "guest"   -> {"1"}
          [] c = "owner_id" /\ h = "guest" -> {}
          [] OTHER                      -> Value]]

-----------------------------------------------------------------------------
(* The callers of the role: a role of account 1, a user of account 2, a    *)
(* service, a token of GitHub's and a guest's of Cognito's, and a user of  *)
(* the account's SAML provider.                                            *)
Name(name) == [Star EXCEPT !.form = "name", !.name = name, !.wild = FALSE]

Arn(service, account, resource, name) ==
    [Star EXCEPT !.form = "arn", !.partition = "aws", !.service = service, !.account = account,
                 !.resource = resource, !.name = name, !.wild = FALSE]

RoleArn == Arn("iam", "1", "role", "r")
UserArn == Arn("sts", "2", "federated-user", "u")
SamlArn == Arn("iam", "1", "saml-provider", "s")

FromAWS(text) == [issuer |-> AWSPrincipalIssuer, account |-> text.account, arn |-> Spelling(text), via |-> "AssumeRole"]

Federated(issuer, action) == [issuer |-> issuer, account |-> "", arn |-> <<>>, via |-> action]

MCCaller ==
    { FromAWS(RoleArn), FromAWS(UserArn),
      Federated(IssuedBy("service", Spelling(Name("ec2"))), "AssumeRole"),
      Federated(IssuedBy("oidc", <<"github">>), "AssumeRoleWithWebIdentity"),
      Federated(IssuedBy("oidc", <<"cognito">>), "AssumeRoleWithWebIdentity"),
      Federated(IssuedBy("saml", Spelling(SamlArn)), "AssumeRoleWithSAML") }

(* Every way a text under each member is read, an odd spelling of most. *)
Variable(text) == [text EXCEPT !.variable = TRUE]

MCWritten ==
    [AWS |-> { Star, Name("1"), Name("AIDA"), [Star EXCEPT !.form = "half arn", !.wild = FALSE],
               RoleArn, UserArn, Arn("iam", "1", "root", ""), Arn("iam", "", "root", ""),
               [RoleArn EXCEPT !.wild = TRUE], [RoleArn EXCEPT !.partition = ""],
               [RoleArn EXCEPT !.region = "eu"], [RoleArn EXCEPT !.account = "x"],
               [RoleArn EXCEPT !.account = ""], Arn("iam", "1", "group", "g"), Arn("iam", "1", "role", ""),
               Arn("sts", "1", "assumed-role", "r"), Arn("s3", "1", "role", "r"), Variable(RoleArn) },
     Federated |-> { Name("github"), Name("cognito"), Name(""), [Name("github") EXCEPT !.folds = TRUE],
                     Star, Arn("iam", "1", "oidc-provider", "github"), SamlArn,
                     Arn("iam", "1", "user", "u"), [Star EXCEPT !.form = "half arn", !.wild = FALSE],
                     Variable(Name("github")) },
     Service |-> { Name("ec2"), Name("github"), Name(""), Star, Variable(Name("ec2")) },
     CanonicalUser |-> { Name("id") }]

Covering(covers, wide, full) == [covers |-> covers, wide |-> wide, full |-> full]

MCActionText ==
    [assume |-> Covering({"AssumeRole"}, {}, TRUE),
     web    |-> Covering({"AssumeRoleWithWebIdentity"}, {}, TRUE),
     saml   |-> Covering({"AssumeRoleWithSAML"}, {}, TRUE),
     any    |-> Covering(Assume, {}, FALSE),
     longs  |-> Covering({}, {"AssumeRole"}, FALSE),
     tag    |-> Covering({}, {}, TRUE)]

-----------------------------------------------------------------------------
(* A document's statements are read, or the principals of one written: the *)
(* two share no state.                                                     *)
MCInit == Init /\ PrincipalInit

MCNext ==
    \/ written = 0 /\ Next /\ UNCHANGED principalVars
    \/ read = 0 /\ PrincipalNext /\ UNCHANGED vars

MCSpec == MCInit /\ [][MCNext]_<<vars, principalVars>>
=============================================================================
