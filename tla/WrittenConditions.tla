-------------------------- MODULE WrittenConditions --------------------------
(***************************************************************************)
(* internal/parse/aws/condition.go: what of a statement's Condition is     *)
(* read, for one principal.  The element is written one construct after    *)
(* another, beside the document's Version, and after each what is read of  *)
(* it is compared with what AWS tests.                                     *)
(*                                                                         *)
(* A value's text is a sequence of pieces: a letter, "*", the escapes      *)
(* "${*}" and "${$}", a policy variable "${v}", and a "${" that nothing    *)
(* closes.  A key is whose it is (the principal's own provider, one that   *)
(* is only under the widest folding, another's, an AWS service's, one that *)
(* says who an AWS caller is, or nobody's), the claim it names, and        *)
(* whether it holds a letter outside ASCII or a policy variable.           *)
(***************************************************************************)
EXTENDS GlobPattern, FiniteSets

LOCAL INSTANCE SequencesExt

CONSTANTS
    Operator,   \* the operators written: set prefix, base, IfExists
    Key,        \* the keys written
    Text,       \* the values written
    Holder,     \* the principals the statement may name
    Vocabulary, \* how AWS documents an issuer's keys, for the ones it does
    Carried,    \* the values a request may carry
    Replaced,   \* what the policy variable stands for in the request
    MaxParts,   \* bound: the constructs written
    MaxBlocks   \* bound: the operator blocks among them

ASSUME ConditionAssumption ==
    /\ MaxParts \in Nat /\ MaxBlocks \in Nat
    /\ \A claim \in DOMAIN Vocabulary :
        Vocabulary[claim] \in {"ClaimRead", "MultivaluedRead", "MultiValuedClaimRead"}

VARIABLES
    holder,   \* the principal
    version,  \* the copies of Version, in order
    element,  \* whether Condition is one object
    blocks,   \* its operator blocks, each with the keys under it
    parts     \* how many constructs are written

conditionVars == <<holder, version, element, blocks, parts>>

ConditionInit ==
    /\ holder \in Holder /\ version = <<>> /\ element = "object"
    /\ blocks = <<>> /\ parts = 0

-----------------------------------------------------------------------------
(* parseVersion: how a value holding "${" is read. *)
Variables ==
    IF version = <<>> \/ version = <<"2008-10-17">> THEN "literal"
    ELSE IF version = <<"2012-10-17">> THEN "resolved"
    ELSE "uncertain"

(* resolveVariables: the text AWS compares, or a problem. *)
Spelt(piece) ==
    CASE piece = "${*}" -> <<"$", "{", Star, "}">>
      [] piece = "${$}" -> <<"$", "{", "$", "}">>
      [] piece = "${v}" -> <<"$", "{", "v", "}">>
      [] piece = "${"   -> <<"$", "{">>
      [] OTHER          -> <<piece>>

Resolved(piece) ==
    CASE piece = "${*}" -> <<Star>> [] piece = "${$}" -> <<"$">> [] OTHER -> <<piece>>

References(text) == { text[n] : n \in DOMAIN text } \cap {"${*}", "${$}", "${v}", "${"}

MutantProblem(text, mode, like) ==   \* an escaped wildcard is a wildcard
    /\ References(text) # {} /\ mode # "literal"
    /\ mode = "uncertain" \/ References(text) \cap {"${v}", "${"} # {}

Problem(text, mode, like) ==
    /\ References(text) # {} /\ mode # "literal"
    /\ \/ mode = "uncertain"
       \/ References(text) \cap {"${v}", "${"} # {}
       \/ like /\ "${*}" \in References(text)

Literal(text, mode) ==
    FlattenSeq([n \in DOMAIN text |-> IF mode = "resolved" THEN Resolved(text[n]) ELSE Spelt(text[n])])

-----------------------------------------------------------------------------
(* scope, with ownClaim, mayOwn and awsIdentity. *)
OwnClaim(key) == holder.kind = "oidc" /\ key.provider = "own"

MayOwn(key) == holder.kind = "oidc" /\ holder.folds /\ key.provider \in {"own", "folded"}

AwsIdentity == holder.kind \in {"anyone", "identity"}

Scope(key) ==
    IF OwnClaim(key) THEN IF key.claim = "" THEN "notAName" ELSE "ownClaim"
    ELSE IF key.provider = "none" THEN "noPrefix"
    ELSE IF key.provider = "identity" /\ AwsIdentity THEN "identityClaim"
    ELSE IF key.provider \in {"service", "identity"} THEN "requestContext"
    ELSE IF holder.kind = "anyone" THEN "unknownProvider"
    ELSE "foreignKey"

(* DocumentedKeys: the vocabulary's reading of a key of the principal's    *)
(* own.                                                                    *)
KeyReading(key) ==
    IF ~holder.known THEN "IssuerNotKnown"
    ELSE IF key.folds \/ key.variable \/ key.claim \notin DOMAIN Vocabulary THEN "KeyNotDocumented"
    ELSE Vocabulary[key.claim]

(* evaluate, on the key: what keeps it from being read.  A key that may be *)
(* another is not also called undocumented.                                *)
KeyNotKnown(key) ==
    \/ key.folds
    \/ Scope(key) # "ownClaim" /\ MayOwn(key)
    \/ key.variable /\ Variables # "literal"

KeyRead(key) ==
    /\ ~KeyNotKnown(key)
    /\ Scope(key) \in {"identityClaim", "foreignKey", "ownClaim"}
    /\ Scope(key) = "ownClaim" => KeyReading(key) \notin {"IssuerNotKnown", "KeyNotDocumented"}

(* parseOperator, and evaluate on the operator. *)
DocumentedOperators ==
    {"StringEquals", "StringLike", "StringNotEquals", "StringEqualsIgnoreCase", "ArnLike", "Null"}

Recognised(op) == op.base \in DocumentedOperators /\ ~(op.ifExists /\ op.base = "Null")

OperatorRead(op) ==
    Recognised(op) /\ op.set = "" /\ ~op.ifExists /\ op.base \in {"StringEquals", "StringLike"}

(* severalValues: a key that may hold several values, compared as one. *)
SeveralValues(op, key) ==
    /\ Scope(key) = "ownClaim" /\ op.set = "" /\ op.base # "Null"
    /\ KeyReading(key) \in {"MultivaluedRead", "MultiValuedClaimRead"}

-----------------------------------------------------------------------------
(* parseConditions: the constraints, by their block and place in it. *)
Constraints ==
    IF element # "object" THEN {}
    ELSE UNION { {b} \X DOMAIN blocks[b].keys : b \in DOMAIN blocks }

OperatorOf(at) == blocks[at[1]].operator
WrittenAt(at)  == blocks[at[1]].keys[at[2]]

(* groupMembers, repeatOf: the block or the key is written again, the key  *)
(* under the widest folding.                                               *)
Wide(key) == <<IF key.provider = "folded" THEN "own" ELSE key.provider, key.claim, key.variable>>

Repeated(at) ==
    \/ \E b \in DOMAIN blocks : b # at[1] /\ blocks[b].operator = OperatorOf(at)
    \/ \E other \in Constraints \ {at} :
        other[1] = at[1] /\ Wide(WrittenAt(other).key) = Wide(WrittenAt(at).key)

(* valueSet: the values listed, unless one could not be resolved or they   *)
(* admit every string, which asks for presence.                            *)
IsLike(op) == op.base = "StringLike"

ValuesRead(op, texts) ==
    /\ \A text \in texts : ~Problem(text, Variables, IsLike(op))
    /\ IsLike(op) => \A text \in texts : Kind(Literal(text, Variables)) # "any"

(* evaluate: no fact keeps the constraint from being evaluated. *)
Evaluated(at) ==
    LET op == OperatorOf(at)
        c  == WrittenAt(at)
    IN  /\ ~Repeated(at) /\ KeyRead(c.key) /\ OperatorRead(op) /\ ~SeveralValues(op, c.key)
        /\ ~c.odd /\ c.texts # {} /\ ValuesRead(op, c.texts)

Holds ==
    [like \in BOOLEAN, text \in Text, mode \in {"literal", "resolved", "uncertain"}, v \in Carried |->
        LET p == Literal(text, mode) IN IF like THEN Matches(p, v) ELSE v = p]

ValueSet(op, texts) == { v \in Carried : \E text \in texts : Holds[IsLike(op), text, Variables, v] }

(* What leaves the whole statement unevaluated, or doubted. *)
Widened == element # "object" \/ \E b \in DOMAIN blocks : blocks[b].shape = "other"
Doubted == \E b \in DOMAIN blocks : blocks[b].shape = "object" /\ blocks[b].keys = <<>>

(* project: the requests left, a request being what each key holds.  An    *)
(* Unknown claim leaves all of them.                                       *)
Admitted(request) ==
    \/ Widened
    \/ \A at \in Constraints : Evaluated(at) =>
            \E v \in request[WrittenAt(at).key] : v \in ValueSet(OperatorOf(at), WrittenAt(at).texts)

Exact == ~Widened /\ ~Doubted /\ \A at \in Constraints : Evaluated(at)

-----------------------------------------------------------------------------
OneMorePart == parts < MaxParts /\ parts' = parts + 1

WriteVersion(v) ==
    /\ OneMorePart /\ Len(version) < 2 /\ version' = Append(version, v)
    /\ UNCHANGED <<holder, element, blocks>>

(* Condition written twice, or not an object. *)
WriteElement(shape) ==
    /\ OneMorePart /\ element = "object" /\ element' = shape
    /\ UNCHANGED <<holder, version, blocks>>

WriteBlock(op, shape) ==
    /\ OneMorePart /\ Len(blocks) < MaxBlocks
    /\ blocks' = Append(blocks, [operator |-> op, shape |-> shape, keys |-> <<>>])
    /\ UNCHANGED <<holder, version, element>>

(* Where the principal's provider holds a letter outside ASCII, so does a  *)
(* key that spells it as it is; one that spells it another way need not.   *)
Spellable(key) ==
    /\ key.provider \in {"own", "folded"} => holder.kind = "oidc"
    /\ key.provider = "own" /\ holder.folds => key.folds
    /\ key.provider = "folded" /\ ~holder.folds => key.folds

InBlock == blocks # <<>> /\ blocks[Len(blocks)].shape = "object"
InKey   == InBlock /\ blocks[Len(blocks)].keys # <<>>

AtLastKey(written) ==
    LET b == Len(blocks) IN [blocks EXCEPT ![b].keys[Len(blocks[b].keys)] = written]

LastKey == Last(blocks[Len(blocks)].keys)

WriteKey(key) ==
    /\ InBlock /\ Spellable(key) /\ OneMorePart
    /\ blocks' = [blocks EXCEPT ![Len(blocks)].keys =
                    Append(@, [key |-> key, texts |-> {}, odd |-> FALSE])]
    /\ UNCHANGED <<holder, version, element>>

WriteText(text) ==
    /\ InKey /\ OneMorePart
    /\ blocks' = AtLastKey([LastKey EXCEPT !.texts = @ \cup {text}])
    /\ UNCHANGED <<holder, version, element>>

(* A value that is not a string. *)
WriteOddValue ==
    /\ InKey /\ OneMorePart
    /\ blocks' = AtLastKey([LastKey EXCEPT !.odd = TRUE])
    /\ UNCHANGED <<holder, version, element>>

ConditionNext ==
    \/ \E v \in {"2012-10-17", "2008-10-17", "other"} : WriteVersion(v)
    \/ \E shape \in {"twice", "other"} : WriteElement(shape)
    \/ \E op \in Operator, shape \in {"object", "other"} : WriteBlock(op, shape)
    \/ \E key \in Key : WriteKey(key)
    \/ \E text \in Text : WriteText(text)
    \/ WriteOddValue

-----------------------------------------------------------------------------
(***************************************************************************)
(* What AWS tests.  A Version nobody documents, or two of them, deploys a  *)
(* document of either language.  An escaped star is the character, which   *)
(* Guarded writes apart from the wildcard.                                 *)
(***************************************************************************)
Languages == IF Variables = "uncertain" THEN {"literal", "resolved"} ELSE {Variables}

Escaped == "escaped"
Guarded(v) == [n \in DOMAIN v |-> IF v[n] = Star THEN Escaped ELSE v[n]]

Deployed(text, language) ==
    FlattenSeq([n \in DOMAIN text |->
        IF language = "literal" THEN Spelt(text[n])
        ELSE CASE text[n] = "${*}" -> <<Escaped>>
               [] text[n] = "${v}" -> Replaced
               [] OTHER            -> Resolved(text[n])])

Compares ==
    [like \in BOOLEAN, text \in Text, language \in {"literal", "resolved"}, v \in Carried |->
        LET p == Deployed(text, language)
        IN  IF like THEN Matches(p, Guarded(v)) ELSE Guarded(p) = Guarded(v)]

Passes(op, texts, language, values) ==
    LET among(v) == \E text \in texts : Compares[IsLike(op), text, language, v]
        one      == \E v \in values : among(v)
    IN  IF op.set = "ForAllValues" THEN \A v \in values : among(v)
        ELSE IF op.base = "StringNotEquals" THEN ~one
        ELSE one \/ (op.ifExists /\ values = {})

(* A provider's key no request of this principal carries. *)
Absent(key) == key.provider = "foreign" /\ holder.kind # "anyone"

(* Whether AWS documents what the constraint does, for this principal: its *)
(* key, its operator and every value.  What a service's key holds, and one *)
(* of several values compared as one, no page says.                        *)
KeyMeant(op, key, language) ==
    /\ ~key.folds /\ (key.variable => language = "literal" /\ Absent(key))
    /\ \/ /\ key.provider = "own" /\ holder.known /\ key.claim \in DOMAIN Vocabulary
          /\ op.set # "" \/ Vocabulary[key.claim] = "ClaimRead"
       \/ key.provider = "identity" /\ AwsIdentity
       \/ Absent(key)

Meant(at, language) ==
    LET op == OperatorOf(at)
        c  == WrittenAt(at)
    IN  /\ ~c.odd /\ c.texts # {}
        /\ Recognised(op) /\ op.base \in {"StringEquals", "StringLike", "StringNotEquals"}
        /\ KeyMeant(op, c.key, language)
        /\ language = "resolved" => \A text \in c.texts : "${" \notin References(text)

KeysWritten == { WrittenAt(at).key : at \in Constraints }

Requests ==
    { r \in [KeysWritten -> {{}} \cup { {v} : v \in Carried }] :
        \A key \in KeysWritten : Absent(key) => r[key] = {} }

PassesAt(at, language, request) ==
    Passes(OperatorOf(at), WrittenAt(at).texts, language, request[WrittenAt(at).key])

(* Of what is repeated, any one copy may not be deployed. *)
MayPass(language, request) ==
    \/ Widened
    \/ \A at \in Constraints :
        Repeated(at) \/ (Meant(at, language) => PassesAt(at, language, request))

SurelyPasses(language, request) ==
    \A at \in Constraints : Meant(at, language) /\ PassesAt(at, language, request)

(***************************************************************************)
(* Conditions are read as AWS tests them: whatever keys, operators and     *)
(* values are written, once or twice, under whichever Version, a request   *)
(* the deployed Condition may pass is not ruled out; and where nothing     *)
(* went unread, a request that is left does pass (ConditionBlock.project,  *)
(* evaluate, resolveVariables, parseVersion).                              *)
(***************************************************************************)
ConditionsAreReadAsTested ==
    \A language \in Languages, request \in Requests :
        /\ MayPass(language, request) => Admitted(request)
        /\ Exact /\ Admitted(request) => SurelyPasses(language, request)
=============================================================================
