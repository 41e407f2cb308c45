----------------------------- MODULE Principals -----------------------------
(***************************************************************************)
(* internal/parse/aws/principal.go: whom a statement names.  The Principal *)
(* element is written one construct after another, beside the actions, and *)
(* after each the reader projects its grants: one for each face of each    *)
(* principal.  A caller is whoever may ask for the role: the issuer that   *)
(* vouches for it, its account and ARN, and the action it asks through.    *)
(*                                                                         *)
(* A text is read by its fields, not its characters: a star, a bare name   *)
(* (twelve digits are an account), or an ARN, with whether it holds a      *)
(* policy variable, a wildcard (or white space, in a host), or in its host *)
(* a letter a folding may turn into ASCII.  A name stands for all its      *)
(* spellings in ASCII case.                                                *)
(***************************************************************************)
EXTENDS Naturals, Sequences, FiniteSets

CONSTANTS
    Caller,       \* whoever may ask for the role
    AccountId,    \* the texts of twelve digits
    Written,      \* Written[k]: the texts that may be written under member k
    ActionText,   \* ActionText[a]: the assume actions a's pattern covers, those it
                  \* reaches only under the widest folding, and whether it is
                  \* written out in full, with no letter a folding may move
    MaxWritten    \* bound: the constructs of one statement

Members == {"AWS", "Federated", "Service", "CanonicalUser"}
Assume  == {"AssumeRole", "AssumeRoleWithWebIdentity", "AssumeRoleWithSAML"}

ASSUME PrincipalAssumption ==
    /\ MaxWritten \in Nat /\ DOMAIN Written = Members
    /\ \A a \in DOMAIN ActionText :
        /\ ActionText[a].covers \cup ActionText[a].wide \subseteq Assume
        /\ ActionText[a].full => ActionText[a].wide = {}

(* A text is one of four forms; a star is a wildcard, and servicePrincipal *)
(* looks for no ARN.  Twelve digits are not the empty text.                *)
ASSUME WrittenAssumption ==
    /\ "" \notin AccountId
    /\ \A member \in Members : \A text \in Written[member] :
        /\ text.form \in {"star", "name", "arn", "half arn"}
        /\ text.form = "star" => text.wild
        /\ member = "Service" => text.form \in {"star", "name"}

VARIABLES
    sense,    \* the statement's effect, Allow or Deny
    copies,   \* the copies of Principal, in order
    excluded, \* whether NotPrincipal is there
    acts,     \* the actions listed
    actsRead, \* whether Action could be read
    written   \* how many constructs are written

principalVars == <<sense, copies, excluded, acts, actsRead, written>>

NoText == [form |-> "odd", variable |-> FALSE]   \* an item that is not a string

(* The issuers: a service's and a provider's of one name are two. *)
Spelling(text) ==
    <<text.form, text.partition, text.service, text.region, text.account, text.resource, text.name>>

IssuedBy(class, of) == [class |-> class, of |-> of]
NoIssuer           == IssuedBy("none", <<>>)
AWSPrincipalIssuer == IssuedBy("aws", <<>>)

(* A caller asks through the one action its issuer's class is given, and   *)
(* an AWS principal's account is the one in its ARN.                       *)
AsksThrough ==
    [aws |-> "AssumeRole", service |-> "AssumeRole", oidc |-> "AssumeRoleWithWebIdentity",
     saml |-> "AssumeRoleWithSAML"]

ASSUME CallerAssumption ==
    \A c \in Caller :
        /\ c.issuer.class \in DOMAIN AsksThrough /\ c.via = AsksThrough[c.issuer.class]
        /\ c.issuer = IssuedBy(c.issuer.class, c.issuer.of)
        /\ c.issuer.class = "aws" => c.issuer = AWSPrincipalIssuer /\ c.account = c.arn[5]

-----------------------------------------------------------------------------
(* A principal as read, with what its reading found: a widening makes its  *)
(* grant everything, a doubt makes it an upper bound, a note does neither. *)
Principal(kind, text, issuer) ==
    [kind |-> kind, text |-> text, issuer |-> issuer, account |-> "", undecided |-> "",
     widened |-> FALSE, doubted |-> FALSE, found |-> {}]

Nobody == Principal("unreadable", NoText, NoIssuer)

Unmodelled(kind, text, issuer, why) ==
    [Principal(kind, text, issuer) EXCEPT !.widened = TRUE, !.found = {<<why, text>>}]

Anyone(text) == [Principal("anyone", text, AWSPrincipalIssuer) EXCEPT !.found = {<<"any principal", text>>}]

(* awsPrincipal.  An opaque principal leaves one identity claim Unknown. *)
Opaque(kind, text, undecided, account) ==
    [Principal(kind, text, AWSPrincipalIssuer) EXCEPT
        !.account = account, !.undecided = undecided, !.doubted = TRUE, !.found = {<<kind, text>>}]

OfAccount(kind, text, account) == [Principal(kind, text, AWSPrincipalIssuer) EXCEPT !.account = account]

IsAccountID(text) == text \in AccountId

Misformed(text) ==
    \/ text.wild \/ text.partition = "" \/ text.region # ""
    \/ text.account # "" /\ ~IsAccountID(text.account)

IsRoot(text) == text.service = "iam" /\ text.resource = "root"

NamesIAM(text) == text.resource \in {"role", "user"} /\ text.name # ""

MutantArnPrincipal(text, inAccount) ==   \* a root with no account is an account with none
    IF text.service \notin {"iam", "sts"} THEN Opaque("other service", text, "arn", "")
    ELSE IF Misformed(text) THEN Opaque("opaque", text, "arn", inAccount)
    ELSE IF IsRoot(text) THEN OfAccount("account", text, text.account)
    ELSE OfAccount("identity", text, text.account)

ArnPrincipal(text, inAccount) ==
    IF text.service \notin {"iam", "sts"} THEN Opaque("other service", text, "arn", "")
    ELSE IF Misformed(text) THEN Opaque("opaque", text, "arn", inAccount)
    ELSE IF IsRoot(text) /\ text.account = "" THEN Opaque("opaque", text, "account", "")
    ELSE IF IsRoot(text) THEN OfAccount("account", text, text.account)
    ELSE IF text.service = "iam" /\ ~NamesIAM(text) THEN Opaque("opaque", text, "arn", inAccount)
    ELSE IF text.account = "" THEN Opaque("opaque", text, "arn", "")
    ELSE IF text.service = "iam" \/ (text.resource = "federated-user" /\ text.name # "")
    THEN OfAccount("identity", text, text.account)
    ELSE Opaque("opaque", text, "arn", text.account)

AwsPrincipal(text) ==
    IF text.form = "star" THEN Anyone(text)
    ELSE IF text.form = "name" /\ IsAccountID(text.name) THEN OfAccount("account", text, text.name)
    ELSE IF text.form # "arn" THEN Opaque("opaque", text, "arn", "")
    ELSE ArnPrincipal(text, IF IsAccountID(text.account) THEN text.account ELSE "")

(* namesAHost, foldsIntoASCII, ProviderIssuer, IsSAMLIssuer. *)
NamesAHost(text) == text.name # "" /\ ~text.wild

ProviderIssuer(text) == NamesAHost(text) /\ ~text.folds

IsSAMLIssuer(text) == text.form = "arn" /\ text.service = "iam" /\ text.resource = "saml-provider"

IsOIDCProvider(text) == text.form = "arn" /\ text.service = "iam" /\ text.resource = "oidc-provider"

FederatedPrincipal(text) ==
    IF IsSAMLIssuer(text) THEN Unmodelled("saml", text, IssuedBy("saml", Spelling(text)), "saml")
    ELSE IF text.form \in {"arn", "half arn"} /\ ~IsOIDCProvider(text)
    THEN Unmodelled("unreadable", text, NoIssuer, "no provider")
    ELSE IF ~ProviderIssuer(text) THEN Unmodelled("unreadable", text, NoIssuer, "no issuer")
    ELSE Principal("oidc", text, IssuedBy("oidc", <<text.name>>))

(* servicePrincipal. *)
ServicePrincipal(text) ==
    IF text.wild \/ (text.form = "name" /\ text.name = "")
    THEN Unmodelled("unreadable", text, NoIssuer, "no service")
    ELSE [Principal("service", text, IssuedBy("service", Spelling(text))) EXCEPT !.found = {<<"service", text>>}]

(* principalOfKind, with the policy variable refused before the member is  *)
(* looked at, and principalsOfKind's items that are no strings.            *)
PrincipalOfKind(member, text) ==
    IF text = NoText THEN Unmodelled("unreadable", NoText, NoIssuer, member)
    ELSE IF text.variable THEN Unmodelled("unreadable", text, NoIssuer, "variable")
    ELSE CASE member = "AWS"           -> AwsPrincipal(text)
           [] member = "Federated"     -> FederatedPrincipal(text)
           [] member = "Service"       -> ServicePrincipal(text)
           [] member = "CanonicalUser" -> Unmodelled("canonical user", text, AWSPrincipalIssuer, "canonical user")
           [] OTHER                    -> Unmodelled("unreadable", NoText, NoIssuer, "member")

-----------------------------------------------------------------------------
(***************************************************************************)
(* The Principal element.  A copy of it is "*", an object or something     *)
(* else; an object has entries under members, members with an empty list   *)
(* and members written twice.                                              *)
(***************************************************************************)
Copy(shape) == [shape |-> shape, entries |-> {}, empty |-> {}, twice |-> {}]

Star == [form |-> "star", variable |-> FALSE, partition |-> "", service |-> "", region |-> "",
         account |-> "", resource |-> "", name |-> "*", wild |-> TRUE, folds |-> FALSE]

(* principalsIn: a member with an entry and an empty list is one written   *)
(* twice.                                                                  *)
EntryPrincipal(copy, e) ==
    LET p == PrincipalOfKind(e.member, e.text)
    IN  IF e.member \in copy.twice \cup copy.empty
        THEN [p EXCEPT !.doubted = TRUE, !.found = @ \cup {<<"twice", e.member>>}] ELSE p

PrincipalsIn(copy) ==
    CASE copy.shape = "star"   -> {Anyone(Star)}
      [] copy.shape = "other"  -> {Nobody}
      [] copy.shape = "object" -> { EntryPrincipal(copy, e) : e \in copy.entries }

(* parsePrincipals. *)
PrincipalList ==
    LET list == UNION { PrincipalsIn(copies[n]) : n \in DOMAIN copies }
    IN  IF excluded \/ list = {} THEN {Nobody} ELSE list

(* What leaves the whole statement unevaluated, or doubted. *)
StatementWidened ==
    \/ excluded \/ Len(copies) # 1 \/ ~actsRead \/ acts = {}
    \/ PrincipalList = {Nobody} \/ \E n \in DOMAIN copies : copies[n].shape = "other"

StatementDoubted == ~excluded /\ \E n \in DOMAIN copies : copies[n].empty # {}

-----------------------------------------------------------------------------
(* ActionSet: an element that could not be read, or lists nothing, may     *)
(* grant any action.                                                       *)
ActionsUnknown == ~actsRead \/ acts = {}

CoversAny(actions) == \E a \in acts : ActionText[a].covers \cap actions # {}
FoldingDoubts(actions) == \E a \in acts : ActionText[a].wide \cap actions # {}

MayGrant(action) == ActionsUnknown \/ CoversAny({action}) \/ FoldingDoubts({action})

AssumeActions(p) ==
    CASE p.kind = "oidc" -> {"AssumeRoleWithWebIdentity"}
      [] p.kind = "saml" -> {"AssumeRoleWithSAML"}
      [] p.kind \in {"any issuer", "unreadable", "canonical user"} -> Assume
      [] OTHER -> {"AssumeRole"}

(* faces: "*" is every AWS principal, and every identity whose issuer the  *)
(* statement does not name.                                                *)
AnyIssuer(p) ==
    [p EXCEPT !.kind = "any issuer", !.issuer = NoIssuer, !.widened = TRUE,
              !.found = @ \cup {<<"which it covers", p.text>>}]

MutantFaces(p) == {p}   \* every AWS principal alone

Faces(p) ==
    IF p.kind # "anyone" \/ ~\E action \in Assume : MayGrant(action) THEN {p}
    ELSE {p, AnyIssuer(p)}

(* identity: the callers the principal itself leaves; Unknown leaves all.  *)
Identified(p) ==
    { c \in Caller : /\ p.account # "" => c.account = p.account
                     /\ p.kind = "identity" => c.arn = Spelling(p.text) }

(* Statement.grant, with no conditions. *)
FaceGrant(p) ==
    LET covers  == ActionsUnknown \/ CoversAny(AssumeActions(p))
        folding == ~covers /\ FoldingDoubts(AssumeActions(p))
        widened == StatementWidened \/ p.widened
        exact   == ~widened /\ ~StatementDoubted /\ ~p.doubted /\ ~folding
        admits  == IF widened THEN Caller ELSE Identified(p)
        grant(who, sure) == [issuer |-> p.issuer, admits |-> who, exact |-> sure, found |-> p.found]
    IN  IF ~covers /\ ~folding THEN grant({}, TRUE)
        ELSE IF sense = "Deny" /\ ~exact THEN grant({}, FALSE)
        ELSE grant(admits, exact)

GrantsWritten == { FaceGrant(face) : face \in UNION { Faces(p) : p \in PrincipalList } }

-----------------------------------------------------------------------------
(* IssuerlessPopulation: who a grant that names no issuer can admit. *)
IssuerlessPopulation ==
    IF \/ \E p \in PrincipalList : p.kind = "unreadable"
       \/ ~\E p \in PrincipalList : p.kind = "anyone"
       \/ ActionsUnknown
       \/ \E a \in acts : ~ActionText[a].full
       \/ CoversAny({"AssumeRoleWithWebIdentity"})
       \/ ~CoversAny(Assume)
    THEN "every issuer"
    ELSE IF ~CoversAny({"AssumeRoleWithSAML"}) THEN "services"
    ELSE IF ~CoversAny({"AssumeRole"}) THEN "saml"
    ELSE "services and saml"

(* ModelsPrincipalOf: modelled, projects. *)
Modelled(p) == p.kind \notin {"unreadable", "canonical user", "other service"}

Projects(p, g) == p.found \subseteq g.found

ModelsPrincipalOf(g) == \A p \in PrincipalList : Projects(p, g) => Modelled(p)

-----------------------------------------------------------------------------
PrincipalInit ==
    /\ sense \in {"Allow", "Deny"} /\ copies = <<>> /\ excluded = FALSE
    /\ acts = {} /\ actsRead = TRUE /\ written = 0

OneMoreWritten == written < MaxWritten /\ written' = written + 1

WriteCopy(shape) ==
    /\ OneMoreWritten /\ Len(copies) < 2
    /\ copies' = Append(copies, Copy(shape))
    /\ UNCHANGED <<sense, excluded, acts, actsRead>>

InObject == copies # <<>> /\ copies[Len(copies)].shape = "object"

WriteEntry(member, text) ==
    /\ InObject /\ OneMoreWritten
    /\ copies' = [copies EXCEPT ![Len(copies)].entries = @ \cup {[member |-> member, text |-> text]}]
    /\ UNCHANGED <<sense, excluded, acts, actsRead>>

WriteEmptyList(member) ==
    /\ InObject /\ OneMoreWritten
    /\ copies' = [copies EXCEPT ![Len(copies)].empty = @ \cup {member}]
    /\ UNCHANGED <<sense, excluded, acts, actsRead>>

WriteTwice(member) ==
    /\ InObject /\ OneMoreWritten
    /\ \E e \in copies[Len(copies)].entries : e.member = member
    /\ copies' = [copies EXCEPT ![Len(copies)].twice = @ \cup {member}]
    /\ UNCHANGED <<sense, excluded, acts, actsRead>>

WriteNotPrincipal ==
    /\ OneMoreWritten /\ excluded' = TRUE
    /\ UNCHANGED <<sense, copies, acts, actsRead>>

WriteAction(a) ==
    /\ OneMoreWritten /\ acts' = acts \cup {a}
    /\ UNCHANGED <<sense, copies, excluded, actsRead>>

(* NotAction, a second Action, or an item that is not a string. *)
WriteOddAction ==
    /\ OneMoreWritten /\ actsRead' = FALSE
    /\ UNCHANGED <<sense, copies, excluded, acts>>

PrincipalNext ==
    \/ \E shape \in {"star", "object", "other"} : WriteCopy(shape)
    \/ \E member \in Members : \E text \in Written[member] \cup {NoText} : WriteEntry(member, text)
    \/ WriteEntry("Unknown", NoText)
    \/ \E member \in Members : WriteEmptyList(member) \/ WriteTwice(member)
    \/ WriteNotPrincipal
    \/ \E a \in DOMAIN ActionText : WriteAction(a)
    \/ WriteOddAction

PrincipalSpec == PrincipalInit /\ [][PrincipalNext]_principalVars

-----------------------------------------------------------------------------
(***************************************************************************)
(* What AWS makes of a text: whom it may name, and whom it surely names.   *)
(* Documented are "*", an account, its root, a role, a user, a federated   *)
(* user, a provider and a service; of a session of a role only the account *)
(* is known, as of any IAM or STS ARN that holds one, and an ARN of        *)
(* another service names a caller of AssumeRole, if anyone.  Which         *)
(* services and tokens "*" covers no page says.                            *)
(***************************************************************************)
Of(class) == { c \in Caller : c.issuer.class = class }

IamArn(text) == text.form = "arn" /\ text.service \in {"iam", "sts"}

WholeArn(text) == text.partition # "" /\ text.region = "" /\ ~text.wild /\ text.account \in AccountId

Kinds(service) == IF service = "iam" THEN {"role", "user"} ELSE {"federated-user"}

HasMeaning(member, text) ==
    \/ member = "AWS" /\ text.form = "name" /\ text.name \in AccountId
    \/ member = "AWS" /\ IamArn(text) /\ WholeArn(text) /\ (IsRoot(text) \/ (text.resource \in Kinds(text.service) /\ text.name # ""))
    \/ member = "Federated" /\ (text.form = "name" \/ IsOIDCProvider(text)) /\ text.name # "" /\ ~text.wild /\ ~text.folds
    \/ member = "Federated" /\ IsSAMLIssuer(text)
    \/ member = "Service" /\ text.form = "name" /\ text.name # "" /\ ~text.wild

Named(member, text) ==
    IF member = "AWS"
    THEN { c \in Of("aws") :
             /\ text.form = "name" => c.account = text.name
             /\ text.form = "arn" => IF IsRoot(text) THEN c.account = text.account ELSE c.arn = Spelling(text) }
    ELSE IF member = "Service" THEN { c \in Of("service") : c.issuer.of = Spelling(text) }
    ELSE IF IsSAMLIssuer(text) THEN { c \in Of("saml") : c.issuer.of = Spelling(text) }
    ELSE { c \in Of("oidc") : c.issuer.of = <<text.name>> }

MayName(member, text) ==
    IF text = NoText \/ text.variable THEN Caller
    ELSE IF HasMeaning(member, text) THEN Named(member, text)
    ELSE IF member = "AWS" /\ IamArn(text) /\ text.account \in AccountId
    THEN { c \in Of("aws") : c.account = text.account }
    ELSE IF member = "AWS" /\ (text.form \in {"name", "half arn"} \/ IamArn(text)) THEN Of("aws")
    ELSE IF member = "AWS" /\ text.form = "arn" THEN Of("aws") \cup Of("service")
    ELSE Caller

SurelyNamed(member, text) ==
    IF text = NoText \/ text.variable THEN {}
    ELSE IF HasMeaning(member, text) \/ (member = "AWS" /\ text.form = "star") THEN Named(member, text)
    ELSE {}

AnyCopy(P(_)) == \E n \in DOMAIN copies : P(copies[n])

MayAsk(c) == \E a \in acts : c.via \in ActionText[a].covers \cup ActionText[a].wide
MustAsk(c) == \E a \in acts : c.via \in ActionText[a].covers

(* The callers the deployed statement may speak of, and surely does. *)
MaySpeakOf ==
    { c \in Caller :
        /\ ActionsUnknown \/ MayAsk(c)
        /\ \/ excluded \/ copies = <<>>
           \/ AnyCopy(LAMBDA copy : copy.shape # "object")
           \/ AnyCopy(LAMBDA copy : \E e \in copy.entries : c \in MayName(e.member, e.text)) }

SurelySpeaksOf ==
    { c \in Caller :
        /\ ~ActionsUnknown /\ MustAsk(c) /\ ~excluded /\ Len(copies) = 1
        /\ AnyCopy(LAMBDA copy :
             \/ copy.shape = "star" /\ c \in Of("aws")
             \/ copy.shape = "object" /\ copy.empty = {} /\ \E e \in copy.entries :
                    e.member \notin copy.twice /\ c \in SurelyNamed(e.member, e.text)) }

LetsIn(g, c) == c \in g.admits /\ g.issuer \in {NoIssuer, c.issuer}

(* Whom a grant is placed among (ring: everyone, when its principal is not *)
(* modelled; the issuerless population; or its issuer's).                  *)
PopulationHolds(population, c) ==
    \/ population = "every issuer"
    \/ c.issuer.class = "service" /\ population \in {"services", "services and saml"}
    \/ c.issuer.class = "saml" /\ population \in {"saml", "services and saml"}

PlacedAmong(g, c) ==
    /\ g.admits # {}
    /\ \/ ~ModelsPrincipalOf(g)
       \/ LetsIn(g, c) /\ (g.issuer = NoIssuer => PopulationHolds(IssuerlessPopulation, c))

(***************************************************************************)
(* Whoever an Allow may let in is in the population some grant of it is    *)
(* placed among: behind "*", an unreadable principal, a text AWS does not  *)
(* document, a member or the element written twice, and actions of which   *)
(* one may be another (parsePrincipals, faces, IssuerlessPopulation,       *)
(* ModelsPrincipalOf).                                                     *)
(***************************************************************************)
EveryCallerIsPlaced ==
    sense = "Allow" => \A c \in MaySpeakOf : \E g \in GrantsWritten : PlacedAmong(g, c)

(***************************************************************************)
(* A grant with no caveat covers only callers the statement surely speaks  *)
(* of: a Deny takes out nobody of another issuer, account or name, and an  *)
(* ARN that names no one account is never everyone, exactly (identity,     *)
(* awsPrincipal, Statement.grant).                                         *)
(***************************************************************************)
ExactPrincipalsAreDeployed ==
    \A g \in GrantsWritten : g.exact => \A c \in Caller : LetsIn(g, c) => c \in SurelySpeaksOf
=============================================================================
