------------------------------ MODULE Explain ------------------------------
(***************************************************************************)
(* internal/report/explain.go and token.go: the answer the explain view    *)
(* gives for one pasted token against a policy TrustPolicy has read.       *)
(*                                                                         *)
(* A pasted payload does not settle what AWS reads for every condition     *)
(* key, nor the payload's issuer which provider AWS takes it for.  The     *)
(* code answers once for all readings; the properties compare the answer   *)
(* with what the deployed policy does under each of them.                  *)
(*                                                                         *)
(* Principals that take no token (AWS principals, services, SAML) and      *)
(* payloads with no iss are left out: every grant here names an https      *)
(* issuer, and every payload carries one.                                  *)
(***************************************************************************)
EXTENDS TrustPolicy

CONSTANTS
    TokenClaim,  \* the claims a payload may carry
    TokenIssuer, \* the issuers payloads name
    NotAString,  \* a claim's value that is a list, a number, an object, ...
    NoClaim,     \* the registry knows no claim for a key, or no fallback
    KeyClaim,    \* KeyClaim[k]: the claim AWS reads key k from, and the fallback
    EmptyText,   \* the empty string, which null is read as
    Fold         \* a payload's and a grant's issuer a folding nobody documents makes one

ASSUME ExplainAssumption ==
    /\ KeyClaim \in [Claim -> [claim : TokenClaim \cup {NoClaim},
                               fallback : TokenClaim \cup {NoClaim}]]
    /\ NotAString \notin Value /\ NoClaim \notin TokenClaim
    /\ EmptyText \in Value
    /\ Fold \subseteq TokenIssuer \X Issuer

Payloads == UNION { [D -> Value \cup {NotAString}] : D \in SUBSET TokenClaim }

-----------------------------------------------------------------------------
(***************************************************************************)
(* What AWS may read for a key: a set of claims' values, none for absent.  *)
(* keyRead holds one claim's value, and one to read instead when whether   *)
(* the first is a value is not known.                                      *)
(***************************************************************************)
ClaimOf(payload, claim) ==
    [open    |-> claim \in DOMAIN payload /\ payload[claim] = NotAString,
     value   |-> IF claim \in DOMAIN payload THEN {payload[claim]} ELSE {},
     instead |-> {}]

Unnamed == [open |-> TRUE, value |-> {}, instead |-> {}]

ReadKey(payload, key) ==
    LET claim    == KeyClaim[key].claim
        fallback == KeyClaim[key].fallback
        first    == ClaimOf(payload, claim)
        instead  == ClaimOf(payload, fallback)
    IN  IF claim = NoClaim THEN Unnamed
        ELSE IF fallback = NoClaim THEN first
        ELSE IF first.value = {} THEN instead
        ELSE IF first.value = {EmptyText} THEN [first EXCEPT !.instead = {instead}]
        ELSE first

(* keyRead.against, for the reading itself and then for the one instead.   *)
AgainstValue(value, s) ==
    IF IF value = {} THEN IsTop(s) ELSE \A v \in value : Contains(s, v)
    THEN "meets" ELSE "misses"

AgainstOne(r, s) == IF r.open THEN "open" ELSE AgainstValue(r.value, s)

MutantAgainst(r, s) ==   \* two readings are open even where they agree
    IF r.instead # {} THEN "open" ELSE AgainstOne(r, s)

Against(r, s) ==
    IF \E i \in r.instead : AgainstOne(i, s) # AgainstOne(r, s) THEN "open"
    ELSE AgainstOne(r, s)

-----------------------------------------------------------------------------
(* failures: a key the payload leaves open passes an Allow, fails a Deny.  *)
MutantFailed(term, payload, deny) ==   \* an open key fails an Allow too
    { k \in DOMAIN term : Against(ReadKey(payload, k), term[k]) # "meets" }

Failed(term, payload, deny) ==
    { k \in DOMAIN term :
        LET v == Against(ReadKey(payload, k), term[k])
        IN  v = "misses" \/ (v = "open" /\ deny) }

(* closest: a grant of this parser has at most one term, and the set of    *)
(* one with none shows the empty term.                                     *)
Closest(g) == IF AdmitsNobody(g.admits) THEN EmptyTerm ELSE CHOOSE t \in g.admits.terms : TRUE

(* issuerRow, with mayBeIssuer. *)
IssuerRow(g, issuer) ==
    IF g.issuer = issuer THEN "satisfies"
    ELSE IF <<issuer, g.issuer>> \in Fold THEN "not evaluated"
    ELSE "fails"

(* Outcome.Admitted *)
OutcomeAdmitted(g, payload, issuer) ==
    /\ ~AdmitsNobody(g.admits)
    /\ Failed(Closest(g), payload, g.effect = "Deny") = {}
    /\ IssuerRow(g, issuer) # "fails"
    /\ ~(IssuerRow(g, issuer) = "not evaluated" /\ g.effect = "Deny")

(* claimRow: what the table says of a key the grant names. *)
ClaimRow(g, k, payload) ==
    LET s == Closest(g)[k]
        v == Against(ReadKey(payload, k), s)
    IN  CASE IsUnknown(s)                   -> "constraint unknown"
          [] ~IsUnknown(s) /\ v = "meets"  -> "satisfies"
          [] ~IsUnknown(s) /\ v = "open"   -> "not evaluated"
          [] ~IsUnknown(s) /\ v = "misses" -> "fails"

(* unsettled: a row of the table, the issuer's or a claim's, is not        *)
(* evaluated although the grant's own constraint there was read.           *)
Unsettled(g, payload, issuer) ==
    \/ IssuerRow(g, issuer) = "not evaluated"
    \/ \E k \in DOMAIN Closest(g) : ClaimRow(g, k, payload) = "not evaluated"

NotApplied(g, issuer) ==
    g.effect = "Deny" /\ ~IsExact(g.admits) /\ IssuerRow(g, issuer) # "fails"

Proven(g, payload, issuer) == IsExact(g.admits) /\ ~Unsettled(g, payload, issuer)

(***************************************************************************)
(* net: the policy's answer from the outcomes of its grants.               *)
(***************************************************************************)
Refusing(g, payload, issuer) == g.effect = "Deny" /\ OutcomeAdmitted(g, payload, issuer)

MutantMayRefuse(g, payload, issuer) ==   \* a Deny that was not applied is forgotten
    /\ g.effect = "Deny" /\ ~OutcomeAdmitted(g, payload, issuer)
    /\ Unsettled(g, payload, issuer)

MayRefuse(g, payload, issuer) ==
    /\ g.effect = "Deny" /\ ~OutcomeAdmitted(g, payload, issuer)
    /\ Unsettled(g, payload, issuer) \/ NotApplied(g, issuer)

Matching(g, payload, issuer) == g.effect # "Deny" /\ OutcomeAdmitted(g, payload, issuer)

Admitting(g, payload, issuer) ==
    g.effect = "Allow" /\ OutcomeAdmitted(g, payload, issuer) /\ Proven(g, payload, issuer)

Net(payload, issuer) ==
    IF \E g \in grants : Refusing(g, payload, issuer) THEN "refused"
    ELSE IF /\ \E g \in grants : Admitting(g, payload, issuer)
            /\ ~ \E g \in grants : MayRefuse(g, payload, issuer)
         THEN "admitted"
    ELSE IF \E g \in grants : Matching(g, payload, issuer) THEN "not proven"
    ELSE "not admitted"

(* explain: a document without a grant holds no statement, and what it     *)
(* admits is not known.                                                    *)
Result(payload, issuer) == IF grants = {} THEN "not known" ELSE Net(payload, issuer)

-----------------------------------------------------------------------------
(***************************************************************************)
(* The truth.  AWS reads each key one of the ways the payload leaves open, *)
(* folds issuers or does not, and admits a token some deployed Allow       *)
(* matches and no deployed Deny does.                                      *)
(***************************************************************************)
Carried(payload, claim) ==
    IF claim \notin DOMAIN payload THEN {{}}
    ELSE IF payload[claim] = NotAString THEN { {v} : v \in Value } \cup {{}}
    ELSE {{payload[claim]}}

(* Whether the payload sets the claim: of an empty value, AWS does not say. *)
MaySet(payload, claim) ==
    IF claim \notin DOMAIN payload THEN {FALSE}
    ELSE IF payload[claim] = EmptyText THEN BOOLEAN
    ELSE {TRUE}

Readings(payload, key) ==
    LET claim    == KeyClaim[key].claim
        fallback == KeyClaim[key].fallback
    IN  IF claim = NoClaim THEN { {v} : v \in Value } \cup {{}}
        ELSE IF fallback = NoClaim THEN Carried(payload, claim)
        ELSE UNION { Carried(payload, IF set THEN claim ELSE fallback) :
                        set \in MaySet(payload, claim) }

TokensOf(payload) ==
    { t \in Tokens : \A k \in Claim :
        (IF k \in DOMAIN t THEN {t[k]} ELSE {}) \in Readings(payload, k) }

IsIssuerOf(g, issuer, folds) ==
    g.issuer = issuer \/ (folds /\ <<issuer, g.issuer>> \in Fold)

Deployed(effect, token, issuer, folds) ==
    \E g \in grants :
        g.real = effect /\ IsIssuerOf(g, issuer, folds) /\ token \in g.matches

AWSAdmits(token, issuer, folds) ==
    Deployed("Allow", token, issuer, folds) /\ ~Deployed("Deny", token, issuer, folds)

(* A policy is asked about once it has been read. *)
Asked == ~Reading

ReadEffects == \A g \in grants : g.effect # "Unknown"

-----------------------------------------------------------------------------
(***************************************************************************)
(* "refused" and "not admitted" are said only of a token AWS lets in under *)
(* no reading, however much of the policy could not be read.               *)
(***************************************************************************)
RefusalsAreTrue ==
    Asked => \A payload \in Payloads, issuer \in TokenIssuer :
        Result(payload, issuer) \in {"refused", "not admitted"} =>
            \A token \in TokensOf(payload), folds \in BOOLEAN :
                ~AWSAdmits(token, issuer, folds)

(***************************************************************************)
(* "admitted" is said only of a token AWS lets in under every reading, in  *)
(* a policy whose effects could be read.                                   *)
(***************************************************************************)
AdmissionsAreTrue ==
    Asked /\ ReadEffects => \A payload \in Payloads, issuer \in TokenIssuer :
        Result(payload, issuer) = "admitted" =>
            \A token \in TokensOf(payload), folds \in BOOLEAN :
                AWSAdmits(token, issuer, folds)

(***************************************************************************)
(* A policy read exactly is answered, never "not proven", for a payload    *)
(* that settles every key the policy names and an issuer no folding may    *)
(* make another.                                                           *)
(***************************************************************************)
ExactPoliciesAreAnswered ==
    Asked /\ (\A g \in grants : IsExact(g.admits) /\ g.effect # "Unknown") =>
        \A payload \in Payloads, issuer \in TokenIssuer :
            /\ \A g \in grants : \A k \in DOMAIN Closest(g) :
                    \E r \in Readings(payload, k) : Readings(payload, k) = {r}
            /\ \A other \in Issuer : <<issuer, other>> \notin Fold
            => Result(payload, issuer) # "not proven"

(***************************************************************************)
(* What link.go says of a grant whose effect could not be read, that it is *)
(* possibly an Allow and possibly a Deny, and so doubts: "admitted" is     *)
(* said only of a token AWS lets in, in any policy.                        *)
(***************************************************************************)
AdmittedMeansAdmitted ==
    Asked => \A payload \in Payloads, issuer \in TokenIssuer :
        Result(payload, issuer) = "admitted" =>
            \A token \in TokensOf(payload), folds \in BOOLEAN :
                AWSAdmits(token, issuer, folds)
=============================================================================
