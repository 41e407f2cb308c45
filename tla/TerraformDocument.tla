------------------------- MODULE TerraformDocument -------------------------
(***************************************************************************)
(* internal/parse/terraform: the resource table, the marks beside values,  *)
(* the references of the configuration and the top level of a document.    *)
(* Nothing here changes state.                                             *)
(*                                                                         *)
(* An address has the module calls on the way down, each with its key, the *)
(* resource's own name (its type first, "data" before it for a data        *)
(* resource) and its key.  A reference is a sequence of names and keys; a  *)
(* marked path is an attribute, and names and indexes below it.            *)
(***************************************************************************)
EXTENDS Naturals, FiniteSets, Sequences

CONSTANTS
    Key,               \* the keys and indexes, brackets included
    Family,            \* the types whose name a family covers
    ModuleDepthLimit   \* moduleDepthLimit

ASSUME DocumentAssumption == ModuleDepthLimit \in Nat

Seqs == INSTANCE SequencesExt

NoKey == ""

-----------------------------------------------------------------------------
(* Attribute and ResourceType: the rows of Table. *)
Attribute(name, required, leaves) == [name |-> name, required |-> required, leaves |-> leaves]

Required(name) == Attribute(name, TRUE, {})
Optional(name) == Attribute(name, FALSE, {})

Row(parser, target, attributes) == [parser |-> parser, target |-> target, attributes |-> attributes]

Condition == Attribute("condition", FALSE, {"expression"})

Table ==
    [aws_iam_role |-> Row("aws", "", {Required("assume_role_policy")}),
     azuread_application_federated_identity_credential |->
        Row("azure", "application_id", {Required("audiences"), Required("issuer"), Required("subject")}),
     azurerm_federated_identity_credential |->
        Row("azure", "user_assigned_identity_id", {Required("audience"), Required("issuer"), Required("subject")}),
     google_iam_workload_identity_pool_provider |->
        Row("provider", "",
            {Optional("attribute_condition"), Optional("attribute_mapping"), Attribute("aws", FALSE, {"account_id"}),
             Optional("disabled"), Attribute("oidc", FALSE, {"allowed_audiences", "issuer_uri"}),
             Optional("saml"), Optional("x509")}),
     google_service_account_iam_member |->
        Row("binding", "service_account_id", {Condition, Required("member"), Required("role")}),
     google_service_account_iam_binding |->
        Row("binding", "service_account_id", {Condition, Required("members"), Required("role")}),
     google_service_account_iam_policy |->
        Row("binding", "service_account_id", {Required("policy_data")})]

(* lookup, trustShaped. *)
Mapped(type) == type \in DOMAIN Table

TrustShaped(type) == type \in Family

(* Attribute.consults: whether a mark on a path is one the reader reads.   *)
(* The attribute itself, a whole element of it, or a leaf the row names.   *)
MutantConsults(attribute, path) == path = <<attribute.name>>

Consults(attribute, path) ==
    LET below == Tail(path)
        rest  == IF below # <<>> /\ below[1] \in Key THEN Tail(below) ELSE below
    IN  attribute.leaves = {} \/ rest = <<>> \/ rest[1] \in attribute.leaves

(* marks.paths; the empty path marks the whole object. *)
Paths(marks, name) == IF <<>> \in marks THEN {<<name>>} ELSE { p \in marks : p[1] = name }

Consulted(attribute, marks) == { p \in Paths(marks, attribute.name) : Consults(attribute, p) }

-----------------------------------------------------------------------------
(* parseAddress, configPath, modulePrefix. *)
Mode(address) == IF address.local[1] = "data" THEN "data" ELSE "managed"

TypeOf(address) == IF Mode(address) = "data" THEN address.local[2] ELSE address.local[1]

ConfigPath(address) == [n \in DOMAIN address.modules |-> address.modules[n].name]

ModulePrefix(address) == address.modules

(* resourceReference: the resource a reference names, <<>> for another. *)
NotAResource == {"var", "local", "module", "each", "count", "path", "terraform", "self", ""}

ResourceReference(ref) ==
    LET names == SelectSeq(ref, LAMBDA x : x \notin Key)
        long  == IF names[1] = "data" THEN 3 ELSE 2
    IN  IF names[1] \in NotAResource \/ Len(names) < long THEN <<>> ELSE SubSeq(names, 1, long)

(* withoutImplied: a reference another one continues is dropped. *)
WithoutImplied(refs) == { r \in refs : ~\E other \in refs : other # r /\ Seqs!IsPrefix(r, other) }

(* expressionsOf and references: what the configuration says an attribute  *)
(* of the resource an instance belongs to refers to.                       *)
References(config, address, attribute) ==
    LET path == ConfigPath(address)
    IN  IF path \notin DOMAIN config \/ address.local \notin DOMAIN config[path]
           \/ attribute \notin DOMAIN config[path][address.local] THEN {}
        ELSE WithoutImplied(config[path][address.local][attribute])

(* The instances among some addresses that a reference names, in the       *)
(* module of the instance that refers.                                     *)
Instances(from, ref, addresses) ==
    { a \in addresses : /\ ResourceReference(ref) # <<>>
                        /\ a.modules = ModulePrefix(from) /\ a.local = ResourceReference(ref) }

-----------------------------------------------------------------------------
(***************************************************************************)
(* The top level of a document: its members, the major version it states,  *)
(* and whether an entry of its resources holds instances.                  *)
(***************************************************************************)
PlanMarks == {"resource_changes", "planned_values", "configuration", "prior_state"}

RawStateFile(top) ==
    \/ top.members \cap {"lineage", "serial"} # {}
    \/ {"version", "resources"} \subseteq top.members /\ top.instances

FormatVersion(top) == "format_version" \in top.members /\ top.major = 1

ParseTop(top) == ~RawStateFile(top) /\ FormatVersion(top)

PlanMark(top) == top.members \cap PlanMarks # {}

IsPlan(top)  == ParseTop(top) /\ PlanMark(top)
IsState(top) == ParseTop(top) /\ ~PlanMark(top)

(* parseValues: module trees past the limit are refused, as parts of a     *)
(* configuration are (parseConfigModule).                                  *)
TooDeep(addresses) == \E a \in addresses : Len(a.modules) > ModuleDepthLimit
=============================================================================
