----------------------------- MODULE Terraform -----------------------------
(***************************************************************************)
(* internal/parse/terraform: what the reader makes of a plan or a state,   *)
(* beside the life of the objects themselves.  Terraform, which plans,     *)
(* applies and shows, is not part of the repository: it is modelled from   *)
(* what the reader's comments say of it.  An object may be updated,        *)
(* replaced, deleted, forgotten or left out of the plan; a replacement     *)
(* that fails to delete leaves a deposed object at the same address.       *)
(*                                                                         *)
(* A text is what one of the cloud parsers makes of an attribute's value   *)
(* (what it admits, and whether exactly), with what the cloud makes of it; *)
(* the parsers keep the promise of ReaderPromise.                          *)
(***************************************************************************)
EXTENDS TerraformDocument

CONSTANTS
    Who,          \* the identities
    Text,         \* Text[type]: the texts an object of the type may have
    Pool,         \* Pool[address]: the pool of a provider, [project, id]
    Workspace,    \* the workspaces: the addresses managed and the configuration
    Rendering,    \* what a data document may render to
    Mute,         \* the marked paths that bear on nothing a token meets
    Marks,        \* Marks[type]: the sets of paths Terraform may mark
    Ways,         \* Ways[type]: the actions that replace an object
    DeposedType,  \* the types of which a deposed object may be left behind
    BareType      \* the types a creation may leave with no values recorded

NoText  == [kind |-> "none"]
NoPlan  == [kind |-> "none"]
Current == ""
Sets    == INSTANCE FiniteSetsExt
OldKey  == "deadbeef"

RequiredOf(type) == IF Mapped(type) THEN { a.name : a \in { b \in Table[type].attributes : b.required } } ELSE {}

NoPool == [project |-> "", id |-> ""]

IsProvider(address) == Mapped(TypeOf(address)) /\ Table[TypeOf(address)].parser = "provider"
IsBinding(address)  == Mapped(TypeOf(address)) /\ Table[TypeOf(address)].parser = "binding"

(* The parsers of module ReaderPromise: what a text is read as admits who  *)
(* it means, and exactly them when it is exact.                            *)
ASSUME TerraformAssumption ==
    \A type \in DOMAIN Text : \A t \in Text[type] :
        /\ t.kind \in {"read", "refused", "nothing"} /\ t.means \subseteq Who
        /\ t.kind = "read" => t.means \subseteq t.admits /\ (t.exact => t.means = t.admits)
        /\ t.kind = "nothing" => t.means = {}

(* A marked path that bears on who is let in: the whole object, or what is *)
(* at or below an attribute of the row; of a block, itself, an element of  *)
(* it, or what is at or below a member that is handed on.                  *)
Bears(attribute, path) ==
    \/ path = <<>>
    \/ path[1] = attribute.name /\ (attribute.leaves = {} \/ Len(path) = 1)
    \/ path[1] = attribute.name /\ Len(path) = 2 /\ path[2] \in Key
    \/ path[1] = attribute.name /\ Len(path) > 1 /\ path[2] \in attribute.leaves \ Key
    \/ path[1] = attribute.name /\ Len(path) > 2 /\ path[2] \in Key /\ path[3] \in attribute.leaves

(* A path marked that is not mute bears on an attribute; a deposed         *)
(* provider is left out (a state does not tell it from the current one);   *)
(* what is recorded with no values lacks one the row requires; and an      *)
(* action that replaces is none of those that only remove.                 *)
ASSUME TypeAssumption ==
    \A type \in DOMAIN Text :
        /\ \A marks \in Marks[type] : marks \subseteq Seq(STRING)
        /\ Mapped(type) => \A marks \in Marks[type] : \A path \in marks \ Mute :
              \E a \in Table[type].attributes : Bears(a, path)
        /\ Mapped(type) /\ type \in BareType => RequiredOf(type) # {}
        /\ Mapped(type) /\ type \in DeposedType => Table[type].parser # "provider"
        /\ <<"delete">> \notin Ways[type] /\ <<"forget">> \notin Ways[type]

(* Providers have a pool, and the members of a binding name some of Who. *)
ASSUME WorkspaceAssumption ==
    \A w \in Workspace :
        /\ IsFiniteSet(w.addresses)
        /\ \A address \in w.addresses : Mode(address) = "managed" =>
            /\ TypeOf(address) \in DOMAIN Text
            /\ IsProvider(address) => /\ address \in DOMAIN Pool /\ Pool[address] # NoPool
                                     /\ \A t \in Text[TypeOf(address)] : t.kind \in {"read", "refused"}
            /\ IsBinding(address)  => \A t \in Text[TypeOf(address)] : \A m \in t.members : m.who \subseteq Who

(* What a credential is on: a resource that is no credential itself, and,  *)
(* when the expression refers to any resource of its module, one of those. *)
(* What a failed creation may leave with no values refers to none.         *)
Referred(conf, address) ==
    { ResourceReference(ref) :
        ref \in References(conf.expressions, address, Table[TypeOf(address)].target) } \ {<<>>}

ASSUME ConfigAssumption ==
    \A w \in Workspace : \A address \in DOMAIN w.config.picks :
        LET pick == w.config.picks[address] IN
        /\ Mapped(TypeOf(address)) /\ Table[TypeOf(address)].target # ""
        /\ pick \notin DOMAIN w.config.picks
        /\ Referred(w.config, address) # {} =>
              pick.modules = ModulePrefix(address) /\ pick.local \in Referred(w.config, address)

ASSUME BareAssumption ==
    \A w \in Workspace : \A address \in w.addresses :
        Mode(address) = "managed" /\ Mapped(TypeOf(address)) /\ TypeOf(address) \in BareType =>
            Referred(w.config, address) = {}

VARIABLES
    workspace,  \* the addresses managed, and the configuration
    config,
    objects,    \* the objects Terraform tracks
    forgotten,  \* the objects the last plan forgot
    rendered,   \* the data document the state recorded, NoText before
    plan,       \* the plan file, NoPlan without one
    phase,      \* how far the plan is
    grants,     \* the grants read last
    unread      \* the addresses listed as unread with them

vars == <<workspace, config, objects, forgotten, rendered, plan, phase, grants, unread>>

At(address) == { o \in objects : o.address = address }
CurrentAt(address) == { o \in At(address) : o.deposed = Current }

(* A value as a document shows it.  A provider's name is known once it     *)
(* exists, and the id of its pool unless the pool is made with it.  An     *)
(* object recorded with no values states no target either.                 *)
Value(text, null, marks, target, named, pooled) ==
    [text |-> text, null |-> null, marks |-> marks, target |-> target, named |-> named, pooled |-> pooled]

Hole == [kind |-> "nothing", members |-> {}]   \* a document with nothing where the value would be

Recorded(o) ==
    IF o.bare THEN Value(Hole, RequiredOf(TypeOf(o.address)), {}, "absent", TRUE, TRUE)
    ELSE Value(o.text, {}, {}, "stated", TRUE, TRUE)

-----------------------------------------------------------------------------
(***************************************************************************)
(* Terraform plans.  What it may do with one address: nothing it lists, or *)
(* one change of its current object and one of its deposed object.         *)
(***************************************************************************)
Change(address, deposed, actions, before, after) ==
    [address |-> address, deposed |-> deposed, actions |-> actions, before |-> before, after |-> after]

NoValue == [text |-> NoText]

(* The target of a credential is known unless the resource it picks is     *)
(* made anew by the same plan.                                             *)
Targeted(address, made) ==
    IF address \in DOMAIN config.picks /\ config.picks[address] \in made THEN "unknown" ELSE "stated"

Pooled(address, age) == IF age = "old" \/ address \notin DOMAIN Pool THEN {TRUE} ELSE BOOLEAN

Sent(address, made, age) ==
    { Value(t, {}, marks, Targeted(address, made), age = "old", pooled) :
        t \in Text[TypeOf(address)], marks \in Marks[TypeOf(address)], pooled \in Pooled(address, age) }

Creations(address, made) ==
    { Change(address, Current, <<"create">>, NoValue, v) : v \in Sent(address, made, "new") }

Replacements(o, made) ==
    { Change(o.address, Current, actions, Recorded(o), v) :
        actions \in Ways[TypeOf(o.address)], v \in Sent(o.address, made, "new") }

Updates(o, made) ==
    { Change(o.address, Current, <<"update">>, Recorded(o), v) : v \in Sent(o.address, made, "old") }
      \cup (IF o.bare THEN {} ELSE {Change(o.address, Current, <<"no-op">>, Recorded(o), Recorded(o))})

Removals(o) ==
    { Change(o.address, o.deposed, actions, Recorded(o), NoValue) : actions \in {<<"delete">>, <<"forget">>} }

OfCurrent(address, made) ==
    IF CurrentAt(address) = {} THEN IF address \in made THEN Creations(address, made) ELSE {}
    ELSE LET o == CHOOSE c \in CurrentAt(address) : TRUE
         IN  IF address \in made THEN Replacements(o, made) ELSE Updates(o, made) \cup Removals(o)

(* Every change of a listed address. *)
ListedChanges(address, made) ==
    LET old     == At(address) \ CurrentAt(address)
        current == OfCurrent(address, made)
    IN  IF old = {} THEN { {c} : c \in current }
        ELSE LET gone == Removals(CHOOSE o \in old : TRUE)
             IN  IF current = {} THEN { {d} : d \in gone } ELSE { {c, d} : c \in current, d \in gone }

(* One choice for each listed address: Choices enumerates them, and the    *)
(* conditions say what they are.                                           *)
Choices(listed, made) ==
    Sets!FoldSet(LAMBDA a, plans : { p \cup c : p \in plans, c \in ListedChanges(a, made) }, {{}}, listed)

Changes(listed, made) ==
    { changes \in Choices(listed, made) :
        /\ \A c \in changes : c.address \in listed
        /\ \A a \in listed : { c \in changes : c.address = a } \in ListedChanges(a, made) }

Managed == { a \in workspace : Mode(a) = "managed" }

HasDocument == Managed # workspace

(* Some of the addresses are listed, some of them made anew.  The data     *)
(* document is read while planning, or only when applying; will is what it *)
(* renders to in this plan.                                                *)
Plan ==
    /\ phase = "idle"
    /\ \E listed \in SUBSET Managed, later \in (IF HasDocument THEN BOOLEAN ELSE {FALSE}),
          will \in (IF HasDocument THEN Rendering ELSE {NoText}) :
        /\ \E made \in SUBSET listed : \E changes \in Changes(listed, made) :
              plan' = [kind |-> "plan", changes |-> changes, prior |-> objects, deferred |-> later, will |-> will]
        /\ rendered' = IF later THEN rendered ELSE will
    /\ phase' = "planned"
    /\ UNCHANGED <<workspace, config, objects, forgotten, grants, unread>>

-----------------------------------------------------------------------------
(***************************************************************************)
(* The reader.  An instance is one object as a document shows it; place    *)
(* says which of the two objects of an address it is, which the code reads *)
(* from a change and not from a state.                                     *)
(***************************************************************************)
Instance(address, deposed, place, value, side) ==
    [address |-> address, deposed |-> deposed, place |-> place, value |-> value, side |-> side]

(* side.from, instance.key: the after, the before and the prior state of   *)
(* one address are told apart, and deposed objects by their key.           *)
From(side) ==
    CASE side = "planned" -> "after"
      [] side \in {"deleted", "forgotten"} -> "before"
      [] side = "held" -> "prior_state"
      [] OTHER -> ""

KeyOf(i) == <<i.address, i.deposed, From(i.side)>>

(* parseChange: the objects read of one change. *)
Forgets(c) == \E n \in DOMAIN c.actions : c.actions[n] = "forget"

MutantObjectsOf(c) ==   \* a replacement that forgets is read as a replacement
    IF c.actions \in {<<"delete">>, <<"forget">>}
    THEN {Instance(c.address, c.deposed, c.deposed, [c.before EXCEPT !.marks = {}],
                   IF Forgets(c) THEN "forgotten" ELSE "deleted")}
    ELSE {Instance(c.address, c.deposed, c.deposed, c.after, "planned")}

ObjectsOf(c) ==
    (IF c.actions \notin {<<"delete">>, <<"forget">>}
     THEN {Instance(c.address, c.deposed, c.deposed, c.after, "planned")} ELSE {})
      \cup
    (IF c.actions = <<"delete">> \/ Forgets(c)
     THEN {Instance(c.address, c.deposed, c.deposed, [c.before EXCEPT !.marks = {}],
                    IF Forgets(c) THEN "forgotten" ELSE "deleted")} ELSE {})

(* The instances of a state's values, and of a plan's: of the changes, and *)
(* of what the prior state holds at an address no change is listed for.    *)
Shown(os, side) == { Instance(o.address, Current, o.deposed, Recorded(o), side) : o \in os }

Addresses(p) == { c.address : c \in p.changes }

OfPlan(p) ==
    (UNION { ObjectsOf(c) : c \in p.changes })
      \cup Shown({ o \in p.prior : o.address \notin Addresses(p) }, "held")

(* examine: the instances read, and the ones listed as unread. *)
Examined(instances) == { i \in instances : Mapped(TypeOf(i.address)) }

Unread(instances) ==
    { i.address : i \in { j \in instances : ~Mapped(TypeOf(j.address)) /\ TrustShaped(TypeOf(j.address)) } }

-----------------------------------------------------------------------------
(* A grant of an instance; via is the provider a member was met with.      *)
Place(i) == [address |-> i.address, place |-> i.place, side |-> i.side]

Grant(i, via, who, admits, exact, target, renderings) ==
    [of |-> Place(i), via |-> via, who |-> who,
     admits |-> admits, exact |-> exact, target |-> target, renderings |-> renderings]

NoVia == [side |-> "none"]

(* inspect and widening: an admission attribute known only after apply, or *)
(* a required one that is absent.                                          *)
UnknownAttributes(i) ==
    { a \in Table[TypeOf(i.address)].attributes : Consulted(a, i.value.marks) # {} }

Widened(i) ==
    \/ UnknownAttributes(i) # {}
    \/ \E a \in Table[TypeOf(i.address)].attributes : a.required /\ a.name \in i.value.null

(* resolveTarget: the value, or the one instance the expression names, or  *)
(* the instance's own address.                                             *)
Named(address)  == [kind |-> "address", of |-> address]
Valued(address) == [kind |-> "value", of |-> address]

MutantSole(candidates) == candidates # {}   \* the first of several is taken

Sole(candidates) == Cardinality(candidates) = 1

ResolveTarget(conf, i, addresses) ==
    LET row  == Table[TypeOf(i.address)]
        refs == References(conf.expressions, i.address, row.target)
        candidates == UNION { Instances(i.address, ref, addresses) : ref \in refs }
    IN  IF row.target = "" THEN Named(i.address)
        ELSE IF i.value.target = "stated"
        THEN IF i.address \in DOMAIN conf.picks THEN Valued(conf.picks[i.address]) ELSE Valued(i.address)
        ELSE IF Sole(candidates) THEN Named(CHOOSE c \in candidates : TRUE)
        ELSE Named(i.address)

(* renderings: the data documents an unknown policy refers to, as the plan *)
(* rendered them; one read only after apply is not attached, whatever the  *)
(* prior state holds.                                                      *)
Document(address) ==
    [modules |-> ModulePrefix(address), local |-> <<"data", "aws_iam_policy_document", "doc">>, key |-> NoKey]

RefersTo(conf, i, document) ==
    \E a \in UnknownAttributes(i) : \E ref \in References(conf.expressions, i.address, a.name) :
        ResourceReference(ref) = document.local

MutantRenderings(conf, i, deferred, prior) ==   \* the prior state is looked up first
    IF RefersTo(conf, i, Document(i.address)) /\ prior # NoText THEN {prior} ELSE {}

Renderings(conf, i, deferred, prior) ==
    IF RefersTo(conf, i, Document(i.address)) /\ ~deferred /\ prior # NoText THEN {prior} ELSE {}

(* everything, malformed, roleGrants, credentialGrants, readProvider: the  *)
(* one grant of an instance.  A policy of no statement admits nobody.      *)
Everything(i, target, renderings) == Grant(i, NoVia, Who, Who, FALSE, target, renderings)
Nobody(i, target)                 == Grant(i, NoVia, Who, {}, TRUE, target, {})
Unbounded(i, via, who, target)    == Grant(i, via, who, Who, FALSE, target, {})

GrantOf(i, target, renderings) ==
    LET t == i.value.text IN
    IF Widened(i) THEN Everything(i, target, renderings)
    ELSE IF t.kind = "refused" THEN Everything(i, target, {})
    ELSE IF t.kind = "nothing" THEN Nobody(i, target)
    ELSE Grant(i, NoVia, Who, t.admits, t.exact, target, {})

(* providers: one reading for each key, the last object listed under it.   *)
(* A values representation lists an address's current object first.        *)
ReadingFor(i, instances) ==
    LET same == { j \in instances : KeyOf(j) = KeyOf(i) }
    IN  CHOOSE j \in same : \A k \in same : j.place = Current => k.place = Current

ProvidersOf(instances) == { i \in instances : IsProvider(i.address) }

(* mayHold, and gcp.Bind: a provider that may be of the member's pool. *)
MayHold(p, m) == m.pool # NoPool /\ (p.value.pooled => Pool[p.address].id = m.pool.id)

Unreadable(p) == Widened(p) \/ p.value.text.kind = "refused"

Binds(p, m) == MayHold(p, m) /\ (p.value.named /\ ~Unreadable(p) => Pool[p.address] = m.pool)

Bind(i, p, m, target) ==
    IF Unreadable(p) THEN Unbounded(i, Place(p), m.who, target)
    ELSE Grant(i, Place(p), m.who, p.value.text.admits \cap m.who,
               p.value.text.exact /\ p.value.named, target, {})

(* bindingGrants: each member met with every provider that may hold it. *)
MemberGrants(i, m, providers, target) ==
    LET held == { p \in providers : Binds(p, m) }
    IN  IF held = {} THEN {Unbounded(i, NoVia, m.who, target)}
        ELSE { Bind(i, p, m, target) : p \in held }

BindingGrants(i, providers, target) ==
    LET t == i.value.text IN
    IF Unreadable(i) THEN {Everything(i, target, {})}
    ELSE IF t.members = {} THEN {Nobody(i, target)}
    ELSE UNION { MemberGrants(i, m, providers, target) : m \in t.members }

(* artefact.grants: the grants of one instance, and of all. *)
InstanceGrants(conf, i, instances, addresses, deferred, prior) ==
    LET target    == ResolveTarget(conf, i, addresses)
        providers == { ReadingFor(p, instances) : p \in ProvidersOf(instances) }
    IN  IF IsBinding(i.address) THEN BindingGrants(i, providers, target)
        ELSE IF IsProvider(i.address) THEN {GrantOf(ReadingFor(i, instances), target, {})}
        ELSE {GrantOf(i, target, Renderings(conf, i, deferred, prior))}

GrantsOf(conf, instances, addresses, deferred, prior) ==
    UNION { InstanceGrants(conf, i, instances, addresses, deferred, prior) : i \in instances }

-----------------------------------------------------------------------------
(* The members of a plan's and of a state's top level, as Terraform writes *)
(* them: the empty ones are left out.                                      *)
Unless(empty, member) == IF empty THEN {} ELSE {member}

TopOfPlan(p) ==
    [members |-> {"format_version", "planned_values", "configuration"}
                    \cup Unless(p.changes = {}, "resource_changes") \cup Unless(p.prior = {}, "prior_state"),
     major |-> 1, instances |-> FALSE]

TopOfState == [members |-> {"format_version"} \cup Unless(objects = {}, "values"), major |-> 1, instances |-> FALSE]

Places(os) == { o.address : o \in os }

(* ParsePlan and Plan.Grants. *)
ReadPlan ==
    /\ phase = "planned" /\ IsPlan(TopOfPlan(plan)) /\ ~TooDeep(Places(plan.prior))
    /\ phase' = "read"
    /\ grants' = GrantsOf(config, Examined(OfPlan(plan)), Addresses(plan), plan.deferred, rendered)
    /\ unread' = Unread(OfPlan(plan))
    /\ UNCHANGED <<workspace, config, objects, forgotten, rendered, plan>>

(* ParseState and State.Grants: no configuration, no data documents. *)
ReadState ==
    /\ phase = "idle" /\ IsState(TopOfState) /\ ~TooDeep(Places(objects))
    /\ phase' = "shown"
    /\ grants' = GrantsOf(config, Examined(Shown(objects, "recorded")), {}, FALSE, NoText)
    /\ unread' = Unread(Shown(objects, "recorded"))
    /\ UNCHANGED <<workspace, config, objects, forgotten, rendered, plan>>

-----------------------------------------------------------------------------
(***************************************************************************)
(* Terraform applies.  A value marked where it bears is any, others are    *)
(* what the plan says; a replacement may fail to delete what it replaces,  *)
(* and a creation may fail half-way.                                       *)
(***************************************************************************)
Object(address, deposed, text, bare) ==
    [address |-> address, deposed |-> deposed, text |-> text, bare |-> bare]

Sends(c) == c.actions \notin {<<"delete">>, <<"forget">>}

Outcomes(c) ==
    IF c.after.marks \ Mute # {} THEN Text[TypeOf(c.address)] ELSE {c.after.text}

Subject(c) == { o \in objects : o.address = c.address /\ o.deposed = c.deposed }

MayLeave == { c \in plan.changes : c.actions = <<"create", "delete">> /\ TypeOf(c.address) \in DeposedType }

MayStop == { c \in plan.changes : c.actions = <<"create">> /\ TypeOf(c.address) \in BareType }

(* What is at the addresses the plan sends to, in every outcome: one       *)
(* object of each change that sends.                                       *)
Brings(c, stopped) == { Object(c.address, Current, t, c \in stopped) : t \in Outcomes(c) }

Gathered(sending, stopped) ==
    Sets!FoldSet(LAMBDA c, all : { os \cup {o} : os \in all, o \in Brings(c, stopped) }, {{}}, sending)

Arrivals(stopped) ==
    LET sending == { c \in plan.changes : Sends(c) } IN
    { arrived \in Gathered(sending, stopped) :
        /\ \A o \in arrived : \E c \in sending : o \in Brings(c, stopped)
        /\ \A c \in sending : \E o \in arrived : o \in Brings(c, stopped)
        /\ \A o, p \in arrived : o.address = p.address => o = p }

Apply ==
    /\ phase = "read"
    /\ \E left \in SUBSET MayLeave, stopped \in SUBSET MayStop :
        /\ \E arrived \in Arrivals(stopped) :
              objects' = { o \in objects : o.address \notin Addresses(plan) } \cup arrived
                            \cup { [o EXCEPT !.deposed = OldKey] : o \in UNION { Subject(c) : c \in left } }
        /\ phase' = IF left \cup stopped = {} THEN "applied" ELSE "failed"
    /\ forgotten' = UNION { Subject(c) : c \in { d \in plan.changes : Forgets(d) } }
    /\ rendered' = IF plan.deferred THEN plan.will ELSE rendered
    /\ UNCHANGED <<workspace, config, plan, grants, unread>>

Init ==
    /\ \E w \in Workspace : workspace = w.addresses /\ config = w.config
    /\ objects = {} /\ forgotten = {} /\ rendered = NoText
    /\ plan = NoPlan /\ phase = "idle" /\ grants = {} /\ unread = {}

(* The plan file and what was read are put away. *)
PutAway ==
    /\ phase \in {"applied", "failed", "shown"}
    /\ phase' = "idle" /\ plan' = NoPlan /\ grants' = {} /\ unread' = {} /\ forgotten' = {}
    /\ UNCHANGED <<workspace, config, objects, rendered>>

Next == Plan \/ ReadPlan \/ ReadState \/ Apply \/ PutAway

Spec == Init /\ [][Next]_vars

-----------------------------------------------------------------------------
Deployed == objects \cup forgotten
Settled  == phase \in {"applied", "shown"}

GrantsAt(address) == { g \in grants : g.of.address = address }

Admit(gs, who) == who \subseteq UNION { g.admits : g \in gs }

IsProviderOf(p, m) == IsProvider(p.address) /\ Pool[p.address] = m.pool

(* A provider the document may be read as holding for a member: of a pool  *)
(* of the same id, or of a pool whose id the plan does not know.           *)
MayBeOf(p, m) ==
    /\ IsProvider(p.address)
    /\ \/ Pool[p.address].id = m.pool.id
       \/ plan # NoPlan /\ \E c \in plan.changes : c.address = p.address /\ Sends(c) /\ ~c.after.pooled

(* Whoever a deployed object lets in is admitted by a grant of its own.  A *)
(* binding lets in what its members share with a provider of their pool,   *)
(* and whoever they name when the pool's providers are managed elsewhere.  *)
IsRead(o) ==
    IF ~Mapped(TypeOf(o.address)) THEN TrustShaped(TypeOf(o.address)) => o.address \in unread
    ELSE IF ~IsBinding(o.address) THEN Admit(GrantsAt(o.address), o.text.means) /\ GrantsAt(o.address) # {}
    ELSE /\ GrantsAt(o.address) # {}
         /\ \A m \in o.text.members :
                LET here == { p \in Deployed : IsProviderOf(p, m) }
                    known == { p \in Deployed \cup (IF plan = NoPlan THEN {} ELSE plan.prior) : MayBeOf(p, m) }
                IN  /\ \A p \in here : Admit(GrantsAt(o.address), m.who \cap p.text.means)
                    /\ known = {} => Admit(GrantsAt(o.address), m.who)

(***************************************************************************)
(* What a plan is read as covers every object that is there once it is     *)
(* applied, and a state every object it records: sent, deposed, forgotten, *)
(* replaced, left out of a targeted plan, or with values known only after  *)
(* apply.  A type that may hold trust and is not read is listed (parsePlan,*)
(* parseChange, examine, inspect, bindingGrants).                          *)
(***************************************************************************)
AppliedTrustIsRead == Settled => \A o \in Deployed : IsRead(o)

(***************************************************************************)
(* A grant with no caveat is what is deployed: no mark, no missing value   *)
(* and no provider without a name is read as if it were settled (consults, *)
(* widening, bind).                                                        *)
(***************************************************************************)
ExactGrantsAreDeployed ==
    Settled => \A g \in grants : g.exact /\ g.of.side # "deleted" /\ (g.via # NoVia => g.via.side # "deleted") =>
        \E o \in Deployed :
            /\ o.address = g.of.address /\ o.deposed = g.of.place
            /\ IF ~IsBinding(o.address) THEN g.admits = o.text.means
               ELSE IF g.via = NoVia THEN o.text.members = {}
               ELSE \E m \in o.text.members, p \in Deployed :
                        /\ IsProviderOf(p, m) /\ p.address = g.via.address
                        /\ m.who = g.who /\ g.admits = m.who \cap p.text.means

(***************************************************************************)
(* The rendering attached to a policy known only after apply is what the   *)
(* data document renders to in this plan, never one an earlier plan left   *)
(* in the state (renderings).                                              *)
(***************************************************************************)
RenderingsAreFresh ==
    phase \in {"read", "applied"} => \A g \in grants : g.renderings \subseteq {plan.will}

(***************************************************************************)
(* Two credentials are read as one target only if they are on one: across  *)
(* module instances, counted resources and references that lead elsewhere  *)
(* (resolveTarget; doc.go: never merge two targets into one).              *)
(***************************************************************************)
Picked(address) == IF address \in DOMAIN config.picks THEN config.picks[address] ELSE address

TargetsAreNeverMerged ==
    \A g, h \in grants : g.target = h.target => Picked(g.of.address) = Picked(h.of.address)

=============================================================================
