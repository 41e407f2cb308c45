---------------------------- MODULE MCTerraform ----------------------------
(***************************************************************************)
(* A role whose policy comes from a data document; a role beside a type    *)
(* that is not read; a pool provider with a binding; and credentials in    *)
(* two instances of a module, or beside a counted application.             *)
(***************************************************************************)
EXTENDS Terraform, TLC

RoleT == "aws_iam_role"
ProviderT == "google_iam_workload_identity_pool_provider"
BindingT == "google_service_account_iam_binding"
CredT == "azuread_application_federated_identity_credential"
AppT == "azuread_application"
OddT == "other_iam_role"

Root(type, name) == [modules |-> <<>>, local |-> <<type, name>>, key |-> NoKey]
In(key, type, name) == [modules |-> <<[name |-> "m", key |-> key]>>, local |-> <<type, name>>, key |-> NoKey]
Counted(type, name, key) == [Root(type, name) EXCEPT !.key = key]

Role == Root(RoleT, "r")
Odd  == Root(OddT, "o")
P    == Root(ProviderT, "p")

B    == Root(BindingT, "b")

Doc  == [modules |-> <<>>, local |-> <<"data", "aws_iam_policy_document", "doc">>, key |-> NoKey]

-----------------------------------------------------------------------------
Read(means, admits, exact) == [kind |-> "read", means |-> means, admits |-> admits, exact |-> exact]
Refused(means) == [kind |-> "refused", means |-> means, members |-> {}]
NoStatement == [kind |-> "nothing", means |-> {}]
Members(ms) == [kind |-> "read", means |-> {}, admits |-> {}, exact |-> TRUE, members |-> ms]

Exactly(who) == Read(who, who, TRUE)

ThePool    == [project |-> "p1", id |-> "i"]
OtherPool  == [project |-> "p2", id |-> "i"]
Farther    == [project |-> "p1", id |-> "j"]

MCPool == P :> ThePool

Member(pool, who) == [pool |-> pool, who |-> who]

MCText ==
    (RoleT :> {Exactly({"a"}), Read({"b"}, Who, FALSE), Refused({"a"}), NoStatement})
      @@ (ProviderT :> {Exactly({"a"}), Exactly({"b"}), Refused({"a", "b"})})
      @@ (BindingT :> {Members({}), Members({Member(ThePool, {"a"}), Member(Farther, {"b"})}),
                       Members({Member(OtherPool, {"a", "b"})}), Members({Member(NoPool, {"b"})})})
      @@ (CredT :> {Exactly({"a"})}) @@ (AppT :> {NoStatement}) @@ (OddT :> {NoStatement})

-----------------------------------------------------------------------------
Jwks == <<"oidc", "[0]", "jwks_json">>

MCMute == {Jwks}

MCMarks ==
    (RoleT :> {{}, {<<"assume_role_policy">>}, {<<>>}})
      @@ (ProviderT :> {{}, {Jwks}, {<<"oidc", "[0]", "allowed_audiences", "[1]">>, Jwks}})
      @@ (BindingT :> {{}, {<<"condition", "[0]", "expression">>}})
      @@ (CredT :> {{}}) @@ (AppT :> {{}}) @@ (OddT :> {{}})

Credential(name, refs) == <<CredT, name>> :> ("application_id" :> refs)

OfRole == <<RoleT, "r">> :> ("assume_role_policy" :>
              {<<"data", "aws_iam_policy_document", "doc", "json">>, <<"data", "aws_iam_policy_document", "doc">>})

InModule(refs) ==
    [addresses |-> { In(key, type, name) : key \in Key, type \in {AppT}, name \in {"a"} }
                     \cup { In(key, type, name) : key \in Key, type \in {CredT}, name \in {"c"} },
     config |-> [picks |-> [c \in { In(key, CredT, "c") : key \in Key } |-> [c EXCEPT !.local = <<AppT, "a">>]],
                 expressions |-> <<"m">> :> Credential("c", refs)]]

Nothing == [picks |-> [a \in {} |-> a], expressions |-> <<>> :> OfRole]

OfCounted(key) == {<<AppT, "a", key, "id">>, <<AppT, "a", key>>, <<AppT, "a">>}

MCWorkspace ==
    { [addresses |-> as, config |-> Nothing] : as \in {{Role, Doc}, {Role, Odd}, {P, B}} }
      \cup { InModule({<<AppT, "a">>, <<AppT, "a", "id">>}), InModule({<<"var", "app">>}) }
      \cup { [addresses |-> {Counted(AppT, "a", "[0]"), Counted(AppT, "a", "[1]"), Root(CredT, "c"), Root(CredT, "d")},
              config |-> [picks |-> (Root(CredT, "c") :> Counted(AppT, "a", "[0]"))
                                      @@ (Root(CredT, "d") :> Counted(AppT, "a", "[1]")),
                          expressions |-> <<>> :> (Credential("c", OfCounted("[0]")) @@ Credential("d", OfCounted("[1]")))]] }

Both == {<<"create", "delete">>, <<"create", "forget">>, <<"forget", "create">>}

MCWays ==
    (RoleT :> Both \cup {<<"delete", "create">>}) @@ (ProviderT :> Both) @@ (BindingT :> {<<"create", "delete">>})
      @@ [type \in {CredT, AppT, OddT} |-> {<<"delete", "create">>}]

MCRendering == {[kind |-> "document", n |-> 1], [kind |-> "document", n |-> 2]}
=============================================================================
