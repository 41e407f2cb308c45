------------------------------- MODULE Google -------------------------------
(***************************************************************************)
(* internal/parse/gcp/provider.go and binding.go: how the providers of a   *)
(* workload identity pool and the bindings on it become grants.  A         *)
(* provider is read member by member, in the order parseProvider reads     *)
(* them, into a reading: the doubts recorded, the identity its kind        *)
(* constrains, the resolver its mapping gives, and at the end the set its  *)
(* condition admits.  A binding's member then narrows that set (Bind).     *)
(*                                                                         *)
(* Beside the reading stands what is deployed: the tokens Google really    *)
(* exchanges, and the claims references really name.  What Google          *)
(* documents means what it documents; a member written twice, miscased or  *)
(* of the wrong type, and a form no page settles, may mean any of the      *)
(* constant Hidden.                                                        *)
(***************************************************************************)
EXTENDS Cel, GoogleDocuments

CONSTANTS
    Aud, Account, Arn,  \* the claims aud, aws:principalaccount and arn
    DefaultAudiences,   \* the provider's resource name with and without https:
    AudienceCap,        \* audienceCap
    AudienceList,       \* the lists allowedAudiences may hold
    NotAString,         \* an item of one that is no string
    Mapping,            \* the attribute mappings
    Condition,          \* the attribute conditions of providers, as tokens
    Member,             \* the members of bindings, as parseMember takes them apart
    Escaped,            \* a value that holds a percent escape
    Hidden,             \* what a construct no page settles may admit
    MaxOdd,             \* bound: the unsettled members of one document
    Sample,             \* conditions read on their own, as tokens
    Alphabet, MaxText,  \* bound: the texts the parser is held against the grammar on
    Resolvers,          \* the resolvers they are read under, each with what is deployed
    Document            \* the documents of providers and of policies

ASSUME GoogleAssumption ==
    /\ {Aud, Account, Arn} \subseteq Claim
    /\ Claim \cup {OnGrant} \subseteq Caveat /\ Claim \subseteq Reason
    /\ DefaultAudiences \subseteq Value /\ Value \cup {Escaped} \subseteq DOMAIN Spelling
    /\ Tokens \in Hidden /\ Hidden \subseteq SUBSET Tokens
    /\ AudienceCap \in Nat /\ MaxOdd \in Nat /\ MaxText \in Nat

VARIABLES
    step,      \* the member of the provider to be read next
    reading,   \* what was read of the provider
    provider,  \* the provider read, NoProvider before
    grants,    \* the grants handed out, with what is deployed
    lost,      \* whether a binding on the provider was read as none
    text,      \* a condition being written
    document   \* a document handed over, NoDocument before

vars == <<step, reading, provider, grants, lost, text, document>>

NoDocument == [of |-> "nothing"]

-----------------------------------------------------------------------------
(***************************************************************************)
(* file and member: how a member stands in a document.  spelt counts the   *)
(* copies under its two spellings, near the names that match in case only. *)
(***************************************************************************)
Form(spelt, near, value) == [spelt |-> spelt, near |-> near, value |-> value]

Forms == { Form(0, 0, "null"), Form(1, 0, "null"), Form(1, 0, "right"), Form(1, 0, "wrong"),
           Form(2, 0, "right"), Form(0, 1, "null"), Form(1, 1, "right") }

Unset   == Form(0, 0, "null")
Written == Form(1, 0, "right")

PresenceOf(f) ==
    IF f.spelt > 1 THEN "duplicated"
    ELSE IF f.near > 0 THEN "miscased"
    ELSE IF f.spelt = 0 \/ f.value = "null" THEN "absent"
    ELSE IF f.value = "wrong" THEN "malformed"
    ELSE "present"

Unread(f) == PresenceOf(f) \in {"duplicated", "miscased", "malformed"}

(* doubt: a caveat on the reading; the tokens exchanged may be fewer. *)
Doubted(r, caveat, odd) ==
    [r EXCEPT !.caveats = @ \cup {caveat}, !.truth = @ \cap odd, !.odd = @ + 1]

NoResolver ==
    [unattributable |-> FALSE, mappingUnread |-> FALSE,
     mapping |-> [k \in {} |-> NoClaim], translate |-> [f \in {} |-> NoClaim]]

Blank ==
    [named |-> "none", type |-> "", caveats |-> {}, identity |-> EmptyTerm,
     res |-> NoResolver, deployed |-> [r \in {} |-> NoClaim], truth |-> Tokens, odd |-> 0]

NoProvider == [none |-> TRUE]

Init ==
    /\ step = "start" /\ reading = Blank /\ provider = NoProvider
    /\ grants = {} /\ lost = FALSE /\ text = <<>> /\ document = NoDocument

(* Read the member due at one step, and go on to the next. *)
Reads(now, then, r) ==
    /\ step = now /\ text = <<>> /\ document = NoDocument /\ r.odd <= MaxOdd
    /\ step' = then /\ reading' = r
    /\ UNCHANGED <<provider, grants, lost, text, document>>

-----------------------------------------------------------------------------
(* text(name) and the labels, which bear on nothing.  A name is one of the *)
(* form the API returns, with the project by number or by ID, or names     *)
(* nothing.                                                                *)
ReadName(f, shape) ==
    Reads("start", "state",
          [reading EXCEPT !.named = IF PresenceOf(f) = "present" THEN shape ELSE "none"])

(* state: deleted, and a state no page documents, leave the set standing   *)
(* as an upper bound.                                                      *)
ReadState(f, state, odd) ==
    Reads("state", "disabled",
          IF Unread(f) \/ (PresenceOf(f) = "present" /\ state \notin {"ACTIVE", "STATE_UNSPECIFIED"})
          THEN Doubted(reading, OnGrant, odd) ELSE reading)

(* disabled: a reversible flag empties nothing. *)
ReadDisabled(f, disabled, odd) ==
    Reads("disabled", "config",
          IF Unread(f) \/ (PresenceOf(f) = "present" /\ disabled)
          THEN Doubted(reading, OnGrant, odd) ELSE reading)

-----------------------------------------------------------------------------
Kinds == {"aws", "oidc", "saml", "x509"}

(* configured: a miscased or repeated member counts as set. *)
Configured(config) ==
    { k \in Kinds : LET f == config[k] IN f.spelt > 1 \/ (f.spelt = 1 /\ f.value # "null") \/ f.near > 0 }

(* The provider_config members of a document, two of them written at most. *)
Configs ==
    { [k \in Kinds |-> IF k = a THEN f ELSE IF k = b THEN g ELSE Unset] :
        a \in Kinds, b \in Kinds, f \in Forms, g \in {Unset, Written} }

(* What a reading makes of the claim its provider's kind constrains, and   *)
(* the tokens Google asks for there.                                       *)
Identity(r, claim, set, doubts, tokens) ==
    [r EXCEPT !.identity = [c \in {claim} |-> set], !.caveats = @ \cup doubts,
              !.truth = @ \cap tokens, !.odd = @ + Cardinality(doubts)]

Carrying(claim, values) == { t \in Tokens : claim \in DOMAIN t /\ t[claim] \in values }

UnknownIdentity(r, claim, odd) == Identity(r, claim, Unknown({claim}), {claim}, odd)

(* defaultAudience: derived only from a name that spells the project by    *)
(* number.                                                                 *)
DefaultAudience(r, odd) ==
    IF r.named = "numbered"
    THEN Identity(r, Aud, ExactOf(DefaultAudiences), {}, Carrying(Aud, DefaultAudiences))
    ELSE UnknownIdentity(r, Aud, odd)

(* audience: the union of the audiences listed; a list past the cap, an    *)
(* item of another type or an empty one makes the claim Unknown.           *)
Audience(r, f, items, odd) ==
    LET listed == { items[i] : i \in DOMAIN items } IN
    IF PresenceOf(f) = "absent" \/ (PresenceOf(f) = "present" /\ items = <<>>)
    THEN DefaultAudience(r, odd)
    ELSE IF Unread(f) \/ NotAString \in listed THEN UnknownIdentity(r, Aud, odd)
    ELSE IF Len(items) > AudienceCap THEN UnknownIdentity(r, Aud, Carrying(Aud, listed))
    ELSE IF \E v \in listed : Spelling[v] = <<>> THEN UnknownIdentity(r, Aud, odd)
    ELSE Identity(r, Aud, ExactOf(listed), {}, Carrying(Aud, listed))

(* The fields of a credential, as a claim each. *)
Direct(translate) ==
    [ref \in { <<"assertion", c>> : c \in Claim \ DOMAIN translate }
             \cup { <<"assertion", f>> : f \in DOMAIN translate } |->
        IF ref[2] \in DOMAIN translate THEN translate[ref[2]] ELSE ref[2]]

(* oidc: a member that was not read leaves the audience Unknown.  Which     *)
(* issuer it names bears on no set, and is left out.                       *)
ReadOIDC(config, inner, items, odd) ==
    LET r == [reading EXCEPT !.type = "oidc", !.deployed = Direct(reading.res.translate)]
    IN  Reads("config", "mapping",
              IF PresenceOf(config["oidc"]) # "present" THEN UnknownIdentity(r, Aud, odd)
              ELSE Audience(r, inner, items, odd))

AWSClaims == [f \in {"account"} |-> Account]

(* aws: the account, under the claim the AWS reader gives one. *)
ReadAWS(config, inner, account, odd) ==
    LET r == [reading EXCEPT !.type = "aws", !.res.translate = AWSClaims,
                             !.deployed = Direct(AWSClaims)]
    IN  Reads("config", "mapping",
              IF PresenceOf(config["aws"]) # "present" \/ PresenceOf(inner) # "present"
              THEN UnknownIdentity(r, Account, odd)
              ELSE Identity(r, Account, Exact(account), {}, Carrying(Account, {account})))

(* No kind, several of them, or one whose credential is not modelled as    *)
(* claims: no reference can be attributed to a claim.                      *)
ReadOtherConfig(config, odd) ==
    /\ Configured(config) \notin {{"oidc"}, {"aws"}}
    /\ Reads("config", "mapping",
             Doubted([reading EXCEPT !.res.unattributable = TRUE], OnGrant, odd))

(* The documents that set one kind of provider. *)
ConfigsOf(kind) == { config \in Configs : Configured(config) = {kind} }

-----------------------------------------------------------------------------
(* documentedAttribute *)
Documented(key) == key \in {Subject, Groups} \/ (key[1] = "attribute" /\ key[2] # "")

Copies(entries, key) == Cardinality({ i \in DOMAIN entries : entries[i].key = key })

Keys(entries) ==
    { entries[i].key : i \in { j \in DOMAIN entries :
        \/ Copies(entries, entries[j].key) > 1
        \/ entries[j].kind # "null" } }

(* mapping: each documented key written once by a string maps as mappedBy  *)
(* says; a key written twice or by something else maps to no claim.        *)
MutantResolved(entries) ==   \* the first copy of a key applies
    [key \in { k \in Keys(entries) : Documented(k) } |->
        LET e == entries[CHOOSE i \in DOMAIN entries : entries[i].key = key]
        IN  IF e.kind # "string" THEN NoClaim ELSE MappedBy(e.text)]

Resolved(entries) ==
    [key \in { k \in Keys(entries) : Documented(k) } |->
        LET e == entries[CHOOSE i \in DOMAIN entries : entries[i].key = key]
        IN  IF Copies(entries, key) > 1 \/ e.kind # "string" THEN NoClaim ELSE MappedBy(e.text)]

DefaultAWSMapping ==
    [key \in {Subject, <<"attribute", "aws_role">>} |-> IF key = Subject THEN Arn ELSE NoClaim]

(* The claims a mapping written once really gives its keys. *)
ReallyMapped(entries) ==
    [key \in { k \in Keys(entries) : Documented(k) /\ Copies(entries, k) = 1 } |->
        entries[CHOOSE i \in DOMAIN entries : entries[i].key = key].names]

Extended(f, g) == [x \in DOMAIN f \cup DOMAIN g |-> IF x \in DOMAIN g THEN g[x] ELSE f[x]]

Translated(mapping, translate) ==
    [key \in DOMAIN mapping |->
        IF mapping[key] \in DOMAIN translate THEN translate[mapping[key]] ELSE mapping[key]]

MappedAs(r, mapping, names) ==
    [r EXCEPT !.res.mapping = mapping,
              !.deployed = IF r.type \in {"oidc", "aws"}
                           THEN Extended(@, Translated(names, r.res.translate)) ELSE @]

ReadMapping(f, entries) ==
    Reads("mapping", "condition",
          IF Unread(f) THEN [reading EXCEPT !.res.mappingUnread = TRUE, !.odd = @ + 1]
          ELSE IF PresenceOf(f) = "present" /\ entries # <<>>
          THEN MappedAs(reading, Resolved(entries), ReallyMapped(entries))
          ELSE IF reading.type = "aws" THEN MappedAs(reading, DefaultAWSMapping, DefaultAWSMapping)
          ELSE reading)

-----------------------------------------------------------------------------
(* meetTerm: one conjunction into every term of a set. *)
MeetTerm(set, conjunction) ==
    LET met == NewAdmittedSet({ Conjoin(t, conjunction) : t \in set.terms })
    IN  Set(met.terms, met.caveats \cup set.caveats)

WithCaveats(a, C) == Set(a.terms, a.caveats \cup { [recorded |-> c] : c \in C })

Grant(admits, matches) == [effect |-> "Allow", admits |-> admits, matches |-> matches]

(* The end of parseProvider, and Grants, which hands out the provider's    *)
(* own grant.                                                              *)
Finish(result, passes) ==
    LET admits == WithCaveats(MeetTerm(result.set, reading.identity),
                              reading.caveats \cup result.doubts)
        truth  == reading.truth \cap passes
    IN  /\ step = "condition"
        /\ step' = "read" /\ reading' = Blank
        /\ provider' = [named |-> reading.named, res |-> reading.res,
                        deployed |-> reading.deployed, admits |-> admits, truth |-> truth]
        /\ grants' = grants \cup {Grant(admits, truth)}
        /\ UNCHANGED <<lost, text, document>>

(* condition: none set lets every credential in; one not read, too, with   *)
(* the doubt.                                                              *)
ReadCondition(condition, world) ==
    Finish(Evaluate(reading.res, condition), Passes(reading.deployed, world, condition))

ReadNoCondition(f, odd) ==
    /\ PresenceOf(f) # "present"
    /\ Finish(Result(Everything, IF Unread(f) THEN {OnGrant} ELSE {}),
              IF Unread(f) THEN odd ELSE Tokens)

-----------------------------------------------------------------------------
(***************************************************************************)
(* parseMember takes a member of a binding apart: the pool it names, by    *)
(* project and pool, the spelling of its fixed text, the form of its       *)
(* selector, the attribute and the value selected.                         *)
(***************************************************************************)
Projects == {"number", "other number", "id", "other id", "escaped"}
Pools    == {"pool", "other pool", "escaped"}
Spellings == {"exact", "miscased", "escaped"}
Selectors == {"subject", "attribute", "group", "pool", "escaped", "undocumented"}

Members ==
    [project : Projects, pool : Pools, spelling : Spellings, form : Selectors,
     attribute : {"subject", "role", "aws_role", "other"}, value : DOMAIN Spelling,
     conditional : BOOLEAN]

ASSUME MemberAssumption == Member \subseteq Members

Numbered(project) == project \in {"number", "other number"}

(* The provider's own project, as its name spells it. *)
OwnProject(p) == IF p.named = "numbered" THEN "number" ELSE "id"

Differs(own, written) == own # written /\ written # "escaped"

(* samePool: "no" when a segment is another under every reading, "doubt"   *)
(* when the documents do not tell.                                         *)
SamePool(p, m) ==
    IF p.named = "none" THEN "doubt"
    ELSE IF \/ Differs("pool", m.pool)
            \/ Differs(OwnProject(p), m.project) /\ Numbered(OwnProject(p)) = Numbered(m.project)
         THEN "no"
    ELSE IF "escaped" \in {m.pool, m.project} \/ OwnProject(p) # m.project THEN "doubt"
    ELSE "yes"

(* Whether the member may really be on the provider's pool: an escape may  *)
(* decode to any name, and a number and an ID may be one project.          *)
MayBind(p, m) ==
    LET same(own, written) == own = written \/ written = "escaped" IN
    \/ p.named = "none"
    \/ /\ same("pool", m.pool)
       /\ \/ same(OwnProject(p), m.project)
          \/ Numbered(OwnProject(p)) # Numbered(m.project)

Attribute(m) ==
    CASE m.form = "subject"   -> Subject
      [] m.form = "group"     -> Groups
      [] m.form = "attribute" -> <<"attribute", m.attribute>>

(* selected: the conjunction a member adds to the provider's set, and the  *)
(* doubts it records.                                                      *)
Selection(term, doubts) == [term |-> term, doubts |-> doubts]

Selected(res, m) ==
    IF m.form = "pool" THEN Selection(EmptyTerm, {})
    ELSE IF m.form \in {"escaped", "undocumented"} \/ Resolve(res, Attribute(m)) = NoClaim
    THEN Selection(EmptyTerm, {OnGrant})
    ELSE LET claim == Resolve(res, Attribute(m)) IN
         IF m.form = "group" \/ m.value = Escaped
         THEN Selection([c \in {claim} |-> Unknown({claim})], {claim})
         ELSE Selection([c \in {claim} |-> Exact(m.value)], Overlong(res, claim, {m.value}))

(* The tokens the member really selects. *)
ReallySelected(p, m, world) ==
    IF m.form = "pool" THEN Tokens
    ELSE IF m.form \in {"escaped", "undocumented", "group"} \/ m.value = Escaped THEN world.odd
    ELSE LET claim == Named(p.deployed, Attribute(m)) IN
         IF claim = NoClaim THEN world.odd
         ELSE IF world.limited /\ claim = Named(p.deployed, Subject)
                 /\ Len(Spelling[m.value]) > SubjectLimit THEN {}
         ELSE Carrying(claim, {m.value})

(* respelt, and the condition of a binding, which is not evaluated. *)
MemberDoubts(p, m) ==
    IF SamePool(p, m) = "doubt" \/ m.spelling # "exact" \/ m.conditional THEN {OnGrant} ELSE {}

Bind(m, world) ==
    LET s      == Selected(provider.res, m)
        doubts == MemberDoubts(provider, m) \cup s.doubts
        truth  == provider.truth \cap ReallySelected(provider, m, world)
                    \cap (IF MemberDoubts(provider, m) = {} THEN Tokens ELSE world.odd)
    IN  /\ step = "read" /\ step' = "bound"
        /\ IF SamePool(provider, m) = "no"
           THEN lost' = MayBind(provider, m) /\ UNCHANGED grants
           ELSE /\ grants' = grants \cup
                      {Grant(WithCaveats(MeetTerm(provider.admits, s.term), doubts),
                             truth)}
                /\ UNCHANGED lost
        /\ UNCHANGED <<reading, provider, text, document>>

-----------------------------------------------------------------------------
(* A condition is written, token by token, or taken whole from a sample:   *)
(* the texts the parser is held against the grammar on, and the evaluator  *)
(* against what they mean.                                                 *)
Write(token) ==
    /\ step = "start" /\ document = NoDocument /\ Len(text) < MaxText
    /\ text' = Append(text, token)
    /\ UNCHANGED <<step, reading, provider, grants, lost, document>>

Idle == step = "start" /\ text = <<>> /\ document = NoDocument

Paste(condition) ==
    /\ Idle
    /\ text' = condition
    /\ UNCHANGED <<step, reading, provider, grants, lost, document>>

(* A document of providers or of a policy is handed over. *)
Receive(doc) ==
    /\ Idle
    /\ document' = doc
    /\ UNCHANGED <<step, reading, provider, grants, lost, text>>

States == {"ACTIVE", "STATE_UNSPECIFIED", "DELETED", "other"}
Worlds == [odd : Hidden, limited : BOOLEAN]

ReadConfig ==
    \/ \E config \in ConfigsOf("oidc"), inner \in Forms, items \in AudienceList, odd \in Hidden :
            ReadOIDC(config, inner, items, odd)
    \/ \E config \in ConfigsOf("aws"), inner \in Forms, account \in Value, odd \in Hidden :
            ReadAWS(config, inner, account, odd)
    \/ \E config \in Configs, odd \in Hidden : ReadOtherConfig(config, odd)

Next ==
    \/ Idle /\ \E doc \in Document : Receive(doc)
    \/ Idle /\ \E condition \in Sample : Paste(condition)
    \/ \E f \in Forms, shape \in {"numbered", "lettered", "none"} : ReadName(f, shape)
    \/ \E f \in Forms, state \in States, odd \in Hidden : ReadState(f, state, odd)
    \/ \E f \in Forms, disabled \in BOOLEAN, odd \in Hidden : ReadDisabled(f, disabled, odd)
    \/ step = "config" /\ ReadConfig
    \/ \E f \in Forms, entries \in Mapping : ReadMapping(f, entries)
    \/ \E condition \in Condition, world \in Worlds : ReadCondition(condition, world)
    \/ \E f \in Forms, odd \in Hidden : ReadNoCondition(f, odd)
    \/ \E m \in Member, world \in Worlds : Bind(m, world)
    \/ \E token \in Alphabet : Write(token)

Spec == Init /\ [][Next]_vars

-----------------------------------------------------------------------------
(***************************************************************************)
(* The reader keeps the promise of every reader: a provider's grant and    *)
(* each of its bindings' admit every token Google may exchange, and one    *)
(* with no caveat admits no other.                                         *)
(***************************************************************************)
Promise == INSTANCE ReaderPromise WITH grants <- grants

KeepsThePromise == Promise!Spec

(***************************************************************************)
(* Nothing written is lost.  A document that is not refused was read       *)
(* whole: no provider of a pool and no member of a policy is dropped,      *)
(* whichever copy of a repeated member Google applies and whatever a       *)
(* further page holds (pageOf, parseMembers, only), unless a name below    *)
(* the document's own members is miscased (EveryMemberIsReadOrRefused).    *)
(* And a binding that may be on the provider's pool is never read as none  *)
(* (samePool).                                                             *)
(***************************************************************************)
NothingWrittenIsLost ==
    /\ document # NoDocument => ReadAsSpelt(document)
    /\ ~lost

(***************************************************************************)
(* What ParseMembers says of every policy (binding.go:100: a member that   *)
(* could not be read would otherwise vanish from the list, and a member    *)
(* that vanishes is silence) and exactlySpelt of a miscased name: a        *)
(* document is read whole or refused.  The code looks for a miscased name  *)
(* in the document's own members alone.                                    *)
(***************************************************************************)
EveryMemberIsReadOrRefused == document # NoDocument => ReadWhole(document)

(***************************************************************************)
(* Every condition is parsed as the grammar groups it, or refused; and its *)
(* set is an upper bound on the credentials it lets through, under every   *)
(* mapping, whatever it is written of; and when no doubt was recorded on   *)
(* the way it is those credentials (parseCEL, evaluate).                   *)
(***************************************************************************)
ConditionsAreReadAsTheyMean ==
    /\ text # <<>> => ReadAsTheGrammar(text)
    /\ text \in Sample =>
        \A r \in Resolvers, world \in Worlds : EvaluatesRightly(r.res, r.deployed, world, text)
=============================================================================
