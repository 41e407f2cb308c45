-------------------------------- MODULE Azure --------------------------------
(***************************************************************************)
(* internal/parse/azure/credential.go: how a document of federated         *)
(* identity credentials is taken apart, and how one credential becomes a   *)
(* grant.  parseCredential is read member by member, in the code's order:  *)
(* issuer, subject, claimsMatchingExpression, audiences.                   *)
(*                                                                         *)
(* A member in another case is another member (Graph's names are exact).   *)
(* What no page settles, a member written twice or of another type, may    *)
(* admit any of the constant Hidden.                                       *)
(***************************************************************************)
EXTENDS FlexibleExpression

CONSTANTS
    Issuer,        \* the issuers written: [labels, path]
    Empty,         \* the empty string
    NotAString,    \* an item of audiences that is no string
    AudienceCap,   \* audienceCap
    AudienceList,  \* the lists audiences may hold
    Expression,    \* the expressions a credential may hold
    Sample,        \* lists of clauses, written out and read on their own
    Pieces,        \* texts read on their own that are no list of clauses
    Hidden,        \* what a construct no page settles may admit
    Document       \* the documents of credentials

ASSUME AzureAssumption ==
    /\ Hidden \subseteq SUBSET Tokens /\ Tokens \in Hidden
    /\ AudienceCap \in Nat \ {0} /\ Empty \notin Value
    /\ \A expression \in Expression : IsFiniteSet(DOMAIN expression)

(* What a document is made of: objects, lists of values, and scalars. *)
IsList(s) == Len(s) \in Nat /\ s = [i \in 1..Len(s) |-> s[i]]

IsContent(v) ==
    \/ v.kind = "scalar"
    \/ v.kind = "object" /\ IsList(v.props)
    \/ v.kind = "list" /\ \A i \in DOMAIN v.items : v.items[i].kind = "object" => IsList(v.items[i].props)

ASSUME DocumentAssumption ==
    \A d \in Document :
        /\ IsContent(d)
        /\ d.kind = "object" => /\ IsList(d.values) /\ \A i \in DOMAIN d.values : IsContent(d.values[i])
                                /\ IsList(d.near) /\ \A i \in DOMAIN d.near : IsContent(d.near[i])

VARIABLES
    step,      \* the member of the credential to be read next
    reading,   \* what was read of it
    grants,    \* the grants handed out, with what is deployed
    text,      \* an expression read on its own
    document   \* a document handed over, NoDocument before

vars == <<step, reading, grants, text, document>>

NoDocument == [kind |-> "nothing"]

-----------------------------------------------------------------------------
(***************************************************************************)
(* resourcesIn.  An object carries credential members of its own or not    *)
(* (own), what is written under properties, copy by copy (props), and, at  *)
(* the root, what is written under value (values) and under a name that    *)
(* matches value in case only (near).                                      *)
(***************************************************************************)
Scalar    == [kind |-> "scalar"]
Listed(s) == [kind |-> "list", items |-> s]
Object(own, props) == [kind |-> "object", own |-> own, props |-> props]

(* Where a value stands: the root, a copy of value or of a near name, and  *)
(* an item of a list there.  A credential is an object's own members, part *)
(* 0, or what a copy of properties holds.                                  *)
At(under, copy) == [under |-> under, copy |-> copy, item |-> 0]
Root            == At("root", 0)
ItemOf(at, i)   == [at EXCEPT !.item = i]

Refused      == [ok |-> FALSE, read |-> {}]
Accepted(cs) == [ok |-> TRUE, read |-> cs]

IsContainer(v) == v.kind \in {"list", "object"}

(* resourceOf: the credential an object is or holds under properties. *)
MutantResourceOf(o, at) ==   \* properties are only looked at without own members
    IF Len(o.props) > 1 THEN Refused
    ELSE Accepted(IF o.own THEN {<<at, 0>>}
                  ELSE IF o.props # <<>> /\ o.props[1] = "credential" THEN {<<at, 1>>} ELSE {})

ResourceOf(o, at) ==
    LET held == o.props # <<>> /\ o.props[1] = "credential" IN
    IF Len(o.props) > 1 \/ (o.own /\ held) THEN Refused
    ELSE Accepted(IF o.own THEN {<<at, 0>>} ELSE IF held THEN {<<at, 1>>} ELSE {})

Holder(v, at) == IF v.kind # "object" \/ ResourceOf(v, at).read = {} THEN Refused ELSE ResourceOf(v, at)

ListedResources(list, at) ==
    IF \E i \in DOMAIN list.items : ~Holder(list.items[i], ItemOf(at, i)).ok THEN Refused
    ELSE Accepted(UNION { Holder(list.items[i], ItemOf(at, i)).read : i \in DOMAIN list.items })

ResourcesIn(root) ==
    IF root.kind = "list" THEN ListedResources(root, Root)
    ELSE IF root.kind = "scalar" THEN Refused
    ELSE IF Len(root.values) > 1 \/ (\E i \in DOMAIN root.near : IsContainer(root.near[i])) THEN Refused
    ELSE IF ~ResourceOf(root, Root).ok THEN Refused
    ELSE LET container == root.values # <<>> /\ IsContainer(root.values[1])
             inside    == At("value", 1) IN
         IF ResourceOf(root, Root).read # {} THEN IF container THEN Refused ELSE ResourceOf(root, Root)
         ELSE IF ~container THEN Refused
         ELSE IF root.values[1].kind = "list" THEN ListedResources(root.values[1], inside)
         ELSE Holder(root.values[1], inside)

(* The credentials a value may hold, whichever reading of it applies. *)
HeldByObject(o, at) ==
    (IF o.own THEN {<<at, 0>>} ELSE {})
      \cup { <<at, i>> : i \in { j \in DOMAIN o.props : o.props[j] = "credential" } }

HeldBy(v, at) ==
    CASE v.kind = "object" -> HeldByObject(v, at)
      [] v.kind = "list"   -> UNION { HeldByObject(v.items[i], ItemOf(at, i)) :
                                        i \in { j \in DOMAIN v.items : v.items[j].kind = "object" } }
      [] v.kind = "scalar" -> {}

HeldByRoot(root) ==
    HeldBy(root, Root)
      \cup (IF root.kind # "object" THEN {}
            ELSE (UNION { HeldBy(root.values[i], At("value", i)) : i \in DOMAIN root.values })
                   \cup (UNION { HeldBy(root.near[i], At("near", i)) : i \in DOMAIN root.near }))

-----------------------------------------------------------------------------
(* How a member stands in a document: the copies under its exact name, and *)
(* the type of the value.  member, text and wrongType.                     *)
Forms == { [copies |-> 0, type |-> "null"], [copies |-> 1, type |-> "null"],
           [copies |-> 1, type |-> "right"], [copies |-> 1, type |-> "wrong"],
           [copies |-> 2, type |-> "right"] }

PresenceOf(f) ==
    IF f.copies > 1 THEN "unread"
    ELSE IF f.copies = 0 \/ f.type = "null" THEN "absent"
    ELSE IF f.type = "wrong" THEN "unread" ELSE "present"

Blank ==
    [issuer |-> NoIssuer, subject |-> {}, bySubject |-> Tokens,
     expression |-> {}, byExpression |-> Tokens, doubts |-> {}]

Init ==
    /\ step = "issuer" /\ reading = Blank /\ grants = {}
    /\ text = <<>> /\ document = NoDocument

ReadsMember(now, then, r) ==
    /\ step = now /\ text = <<>> /\ document = NoDocument
    /\ step' = then /\ reading' = r
    /\ UNCHANGED <<grants, text, document>>

(* issuerOf: an issuer that is not read, or names no host, is "".  White   *)
(* space around it, another scheme and the case of its host are read away  *)
(* (NormaliseIssuer), so what is left of one is its host and path.         *)
ReadIssuer(f, issuer) ==
    ReadsMember("issuer", "subject",
                [reading EXCEPT !.issuer = IF PresenceOf(f) = "present" /\ issuer.labels # <<>>
                                           THEN issuer ELSE NoIssuer])

Carrying(claim, values) == { t \in Tokens : claim \in DOMAIN t /\ t[claim] \in values }

(* subjectTerm: no term when there is no subject, or an empty one. *)
ReadSubject(f, subject, odd) ==
    ReadsMember("subject", "expression",
          IF PresenceOf(f) = "unread"
          THEN [reading EXCEPT !.subject = {[c \in {Sub} |-> Unknown({Sub})]},
                               !.doubts = @ \cup {Sub}, !.bySubject = odd]
          ELSE IF PresenceOf(f) = "absent" \/ subject = Empty THEN reading
          ELSE [reading EXCEPT !.subject = {[c \in {Sub} |-> Exact(subject)]},
                               !.bySubject = Carrying(Sub, {subject})])

(* expressionTerm: no term when there is no expression; nothing of it is   *)
(* read without a value and the language version 1.                        *)
Readable(f, value, version, isOne) ==
    /\ PresenceOf(f) = "present" /\ PresenceOf(value) = "present"
    /\ PresenceOf(version) = "present" /\ isOne

ReadExpression(f, value, version, isOne, expression, world) ==
    LET read == IF Readable(f, value, version, isOne) THEN Evaluate(expression, reading.issuer)
                ELSE Unmodelled
        applies == IF Readable(f, value, version, isOne) THEN Applies(expression, reading.issuer, world)
                   ELSE world.odd
    IN  ReadsMember("expression", "audiences",
              IF PresenceOf(f) = "absent" THEN reading
              ELSE [reading EXCEPT !.expression = {read.term}, !.byExpression = applies,
                                   !.doubts = @ \cup read.doubts])

-----------------------------------------------------------------------------
(* audience: the union of the audiences listed, or Unknown. *)
AudienceOf(set, doubts, tokens) == [set |-> set, doubts |-> doubts, tokens |-> tokens]

UnknownAudience(odd) == AudienceOf(Unknown({Aud}), {Aud}, odd)

ExactUnion(values) == Union({ ExactTerm(v) : v \in values })

Audience(f, items, odd) ==
    LET listed == { items[i] : i \in DOMAIN items } IN
    IF PresenceOf(f) # "present" \/ items = <<>> \/ listed \cap {NotAString, Empty} # {}
    THEN UnknownAudience(odd)
    ELSE IF Len(items) > AudienceCap THEN UnknownAudience(Carrying(Aud, listed))
    ELSE AudienceOf(ExactUnion(listed), {}, Carrying(Aud, listed))

(* The terms of a credential: what either of subject and expression alone  *)
(* would admit, or an Unknown sub when neither is set.                     *)
MutantTerms(r) ==   \* the expression is read in place of the subject
    IF r.expression # {} THEN r.expression
    ELSE IF r.subject # {} THEN r.subject
    ELSE {[c \in {Sub} |-> Unknown({Sub})]}

TermsOf(r) ==
    IF r.subject = {} /\ r.expression = {} THEN {[c \in {Sub} |-> Unknown({Sub})]}
    ELSE r.subject \cup r.expression

Clashes(r) == (r.subject = {}) = (r.expression = {})

(* What the two really admit: one alone what it says, both what Entra      *)
(* applies of them, neither what the document does not show.               *)
ReallyBy(r, odd) ==
    IF r.subject = {} /\ r.expression = {} THEN {odd}
    ELSE IF r.expression = {} THEN {r.bySubject}
    ELSE IF r.subject = {} THEN {r.byExpression}
    ELSE {r.bySubject, r.byExpression}

WithAudience(term, aud) ==
    [c \in DOMAIN term \cup {Aud} |->
        IF c # Aud THEN term[c] ELSE IF Aud \in DOMAIN term THEN Meet(term[Aud], aud) ELSE aud]

(* The end of parseCredential, and Grants. *)
ReadAudiences(f, items, odd) ==
    LET aud    == Audience(f, items, odd)
        doubts == reading.doubts \cup aud.doubts \cup (IF Clashes(reading) THEN {Sub} ELSE {})
        met    == NewAdmittedSet({ WithAudience(t, aud.set) : t \in TermsOf(reading) })
        admits == Set(met.terms, met.caveats \cup { [recorded |-> c] : c \in doubts })
    IN  /\ step = "audiences" /\ step' = "read" /\ reading' = Blank
        /\ \E really \in ReallyBy(reading, odd) :
              grants' = grants \cup
                  {[effect |-> "Allow", admits |-> admits, matches |-> really \cap aud.tokens]}
        /\ UNCHANGED <<text, document>>

-----------------------------------------------------------------------------
Idle == step = "issuer" /\ text = <<>> /\ document = NoDocument

(* An expression is read on its own; a document is handed over. *)
Paste(s) ==
    /\ Idle /\ text' = s
    /\ UNCHANGED <<step, reading, grants, document>>

Receive(doc) ==
    /\ Idle /\ document' = doc
    /\ UNCHANGED <<step, reading, grants, text>>

Worlds == [odd : Hidden, folds : BOOLEAN]

SomeExpression ==
    \E f \in Forms, value \in Forms, version \in Forms, isOne \in BOOLEAN,
       expression \in Expression, world \in Worlds :
        ReadExpression(f, value, version, isOne, expression, world)

Next ==
    \/ \E f \in Forms, issuer \in Issuer : ReadIssuer(f, issuer)
    \/ \E f \in Forms, subject \in Value \cup {Empty}, odd \in Hidden : ReadSubject(f, subject, odd)
    \/ step = "expression" /\ SomeExpression
    \/ \E f \in Forms, items \in AudienceList, odd \in Hidden : ReadAudiences(f, items, odd)
    \/ Idle /\ \E clauses \in Sample : Paste(Written(clauses))
    \/ Idle /\ \E s \in Pieces : Paste(s)
    \/ Idle /\ \E doc \in Document : Receive(doc)

Spec == Init /\ [][Next]_vars

-----------------------------------------------------------------------------
(***************************************************************************)
(* The reader keeps the promise of every reader: a credential's grant      *)
(* admits every token Entra may accept under it, whichever of a subject    *)
(* and an expression applies, and one with no caveat admits no other.      *)
(***************************************************************************)
Promise == INSTANCE ReaderPromise WITH grants <- grants

KeepsThePromise == Promise!Spec

(***************************************************************************)
(* A credential never vanishes: a document that is not refused is read as  *)
(* every credential it may hold (resourcesIn, resourceOf).                 *)
(***************************************************************************)
NoCredentialVanishes ==
    document # NoDocument /\ ResourcesIn(document).ok => ResourcesIn(document).read = HeldByRoot(document)

(***************************************************************************)
(* An expression is read as the clauses that write it, words and doubled   *)
(* quotes inside comparands included; a text no clauses write is outside   *)
(* the grammar (splitClauses, parseClause, scanComparand).                 *)
(***************************************************************************)
ExpressionsAreReadAsWritten ==
    text # <<>> =>
        LET read == Clauses(text) IN
        /\ \A clauses \in Sample : Written(clauses) = text => read = clauses
        /\ (\A n \in DOMAIN read : read[n].ok) => Written(read) = text

=============================================================================
