-------------------------------- MODULE Ring --------------------------------
(***************************************************************************)
(* internal/ring: how far from the user the identities are that a grant    *)
(* lets in, given what a census knows of its issuer and the owners the     *)
(* user declares; and the rows internal/report/rings.go makes of all the   *)
(* grants of a document.                                                   *)
(*                                                                         *)
(* The grants are those TrustPolicy reads.  Whose a value or a pattern on  *)
(* a claim is comes in as the constant Reads; for the subject, module      *)
(* SubjectForms checks what is assumed of it here.  Beside the census the  *)
(* model keeps who there is: the holders of an issuer's tokens, what their *)
(* tokens carry, and which owners they are.                                *)
(***************************************************************************)
EXTENDS TrustPolicy

CONSTANTS
    Facts,        \* Facts[i]: what the census and the parser know of issuer i
    Reads,        \* Reads[i][c]: whose a value and a pattern on claim c are, whether
                  \* patterns are read at all, the values that are only bounds, and
                  \* whether an owner's characters are recorded; for the claims of i
                  \* that name a tenant
    RequestKey,   \* the claims a service of AWS fills (IsServiceKey); sts:ExternalId,
                  \* which the caller fills, is two claims here: one for conditions
                  \* that ask for a value, in RequestKey, and one for those that ask
                  \* for none in particular (AsksNoParticularValue), outside it
    Declaration,  \* what the user may declare
    Lower,        \* Lower[n]: a name with its letters folded
    Holder,       \* whoever may hold a token
    HoldersOf,    \* HoldersOf[i]: whoever can obtain a token of issuer i
    Bears,        \* Bears[h][c]: what a token of h may carry on claim c
    Account,      \* the holders with an account on some platform
    Is            \* Is[h]: the owners h is

Nearness == [anyone |-> 0, platform |-> 1, outsider |-> 2, yours |-> 3, people |-> 4]
Rings    == DOMAIN Nearness
Lines    == {"saml", "service"}

-----------------------------------------------------------------------------
(* Declaration.Names and covers; an owner outside every namespace cannot   *)
(* be declared.                                                            *)
Names(d, o, f) ==
    /\ o.namespace # "" /\ d.namespace = o.namespace /\ d.scope = o.scope
    /\ CASE d.namespace = "github" /\ o.kind = "name" ->
                d.name # "" /\ (d.name = o.value \/ (f.ignoreCase /\ Lower[d.name] = Lower[o.value]))
         [] d.namespace = "github" /\ o.kind = "id" -> d.id # "" /\ d.id = o.value
         [] d.namespace = "issuer" -> d.value = o.issuer
         [] OTHER -> d.value = o.value

Covered(o, f, declared) == \E d \in declared : Names(d, o, f)

(***************************************************************************)
(* What the census says of the people behind an issuer is assumed true: an *)
(* owner read from a value or a pattern is everyone whose token carries    *)
(* it, an issuer said to mint no anonymous token mints none, a tenant said *)
(* to be controlled has no holder but its owner, and whoever signs in      *)
(* through a SAML provider is one of its people.                           *)
(***************************************************************************)
Reader(i, c) == Reads[i][c]

ASSUME RingAssumption ==
    /\ \A i \in Issuer : DOMAIN Reads[i] \subseteq Claim
    /\ \A i \in Issuer : \A c \in DOMAIN Reads[i] :
        /\ \A v \in Value : Reader(i, c).value[v] # {} =>
            \A h \in HoldersOf[i] : v \in Bears[h][c] => Is[h] \cap Reader(i, c).value[v] # {}
        /\ \A p \in Pattern : Reader(i, c).patterns /\ Reader(i, c).pattern[p] # {} =>
            \A h \in HoldersOf[i] : Bears[h][c] \cap Language[p] # {} =>
                Is[h] \cap Reader(i, c).pattern[p] # {}
        /\ ~Reader(i, c).patterns => \A v \in Value : Reader(i, c).value[v] # {}
    /\ \A i \in Issuer :
        /\ Facts[i].class = "oidc" /\ Facts[i].anonymous = "no" => HoldersOf[i] \subseteq Account
        /\ Facts[i].class = "aws" /\ Facts[i].modelled => HoldersOf[i] \subseteq Account
        /\ Facts[i].membership = "controlled" =>
            \A h \in HoldersOf[i] : Facts[i].tenant \cap Is[h] # {}
        /\ Facts[i].class = "saml" => \A h \in HoldersOf[i] : Facts[i].provider \subseteq Is[h]
        /\ Facts[i].class \in {"issuerless", "saml", "service", "aws", "oidc"}
    /\ RequestKey \subseteq Claim

-----------------------------------------------------------------------------
(* What one constraint says of who can satisfy it: confinement. *)
Confinement(owners, doubts, bounded) == [owners |-> owners, doubts |-> doubts, bounded |-> bounded]
Unread   == Confinement({}, {"unread-constraint"}, FALSE)
Unpinned == Confinement({}, {}, FALSE)

(* confineShape, of one exact value and of the patterns of an intersection *)
(* (one pattern is an intersection of one).                                *)
ConfineValue(i, c, v) == Confinement(Reader(i, c).value[v], {}, v \in Reader(i, c).bounded)

ConfinePatterns(i, c, P) ==
    IF ~Reader(i, c).patterns THEN Unread
    ELSE Confinement(UNION { Reader(i, c).pattern[p] : p \in P }, {}, FALSE)

ConfineTerm(i, c, t) ==
    IF t.kind = "exact" THEN ConfineValue(i, c, t.value) ELSE ConfinePatterns(i, c, t.globs)

(* A union confines when every member does.  Where one does not, it is     *)
(* read as that one, one read for what it is before any read as a bound.   *)
MutantConfineUnion(members) ==   \* it confines when any member does
    Confinement(UNION { m.owners : m \in members }, {}, \E m \in members : m.bounded)

ConfineUnion(members) ==
    LET open   == { m \in members : m.owners = {} /\ ~m.bounded }
        bounds == { m \in members : m.owners = {} /\ m.bounded }
    IN  IF open # {} THEN Confinement({}, UNION { m.doubts : m \in open }, FALSE)
        ELSE IF bounds # {} THEN Confinement({}, {}, TRUE)
        ELSE Confinement(UNION { m.owners : m \in members }, {}, \E m \in members : m.bounded)

ConfineShape(i, c, s) ==
    CASE IsUnknown(s)                     -> Unread
      [] s.kind = "terms"                 -> ConfineUnion({ ConfineTerm(i, c, t) : t \in s.terms })
      [] s.kind \in {"any", "none"}       -> Unpinned

(* widenedOn: a caveat on the whole set, or on the claim. *)
MutantWidenedOn(g, c) == [recorded |-> c] \in g.admits.caveats   \* a whole-set caveat is forgotten

WidenedOn(g, c) == \E cv \in g.admits.caveats :
    "overflow" \in DOMAIN cv \/ cv = [recorded |-> c] \/ cv = [recorded |-> "statement"]

(* confine, with subject's check that the census states the characters of  *)
(* an owner's name.                                                        *)
Confine(g, term, c) ==
    LET own == IF c \in DOMAIN term THEN ConfineShape(g.issuer, c, term[c]) ELSE Unpinned
    IN  IF c \in DOMAIN term /\ ~Reader(g.issuer, c).recorded
        THEN Confinement({}, {"tenancy-not-recorded"}, FALSE)
        ELSE IF own.owners = {} /\ own.doubts = {} /\ WidenedOn(g, c) THEN Unread
        ELSE own

-----------------------------------------------------------------------------
Population(place, state, basis, owners) ==
    [place |-> place, state |-> state, basis |-> basis, owners |-> owners, bounded |-> FALSE]
At(place, basis) == Population(place, "unknown", basis, {})

(* requestUnread: a condition on a key AWS fills was not read. One that asks *)
(* for no value in particular is on a claim outside RequestKey.              *)
RequestUnread(g) == \E c \in RequestKey : [recorded |-> c] \in g.admits.caveats

(* pinned: yours when every owner of some pin is declared. *)
PinnedBy(g, pins, basis, declared) ==
    LET mine == \E pin \in pins : \A o \in pin : Covered(o, Facts[g.issuer], declared)
    IN  Population(IF mine THEN "yours" ELSE "outsider", "exact", basis, UNION pins)

BoundedIn(pop, bounded) ==
    IF bounded THEN [pop EXCEPT !.state = "unknown", !.bounded = TRUE] ELSE pop

(* reading.add over the constraints, and decide. *)
Decide(g, readings, declared) ==
    LET pins    == { r.owners : r \in readings } \ {{}}
        doubts  == UNION { r.doubts : r \in readings }
        bounded == \E r \in readings : r.bounded
    IN  IF pins # {} THEN BoundedIn(PinnedBy(g, pins, "pinned", declared), bounded)
        ELSE IF doubts # {} THEN
            At("platform", IF "tenancy-not-recorded" \in doubts THEN "tenancy-not-recorded"
                           ELSE "unread-constraint")
        ELSE IF RequestUnread(g) THEN At("platform", "unread-constraint")
        ELSE BoundedIn(Population("platform", "exact", "unpinned", {}), bounded)

ByClaims(g, term, declared) ==
    Decide(g, { Confine(g, term, c) : c \in DOMAIN Reads[g.issuer] }, declared)

(* tenant: what a per-tenant issuer's URL names. *)
TenantOf(g, f, declared) ==
    IF f.membership = "open" THEN Population("platform", "exact", "open-tenant", {})
    ELSE IF f.membership # "controlled" \/ f.tenant = {} THEN At("platform", "membership-not-verified")
    ELSE PinnedBy(g, {f.tenant}, "controlled-tenant", declared)

Oidc(g, f, term, declared) ==
    IF f.kind \notin {"shared", "per-tenant"} THEN At("anyone", "issuer-not-surveyed")
    ELSE IF f.anonymous = "yes" THEN At("anyone", "tokens-without-account")
    ELSE IF f.anonymous # "no" THEN At("anyone", "account-not-verified")
    ELSE IF f.kind = "per-tenant" THEN TenantOf(g, f, declared)
    ELSE IF ~f.tenancy THEN At("platform", "tenancy-not-recorded")
    ELSE ByClaims(g, term, declared)

SamlProvider(f, declared) ==
    [At(IF \E o \in f.provider : Covered(o, f, declared) THEN "people" ELSE "saml", "saml-provider")
        EXCEPT !.owners = f.provider]

Issuerless(population) ==
    CASE population = "services"      -> {At("service", "any-service")}
      [] population = "saml"          -> {At("saml", "account-saml-providers")}
      [] population = "services+saml" -> {At("service", "any-service"), At("saml", "account-saml-providers")}
      [] OTHER                        -> {At("anyone", "any-issuer")}

(* place. *)
PlaceTerm(g, term, declared) ==
    LET f == Facts[g.issuer]
    IN  IF ~f.modelled THEN {At("anyone", "principal-not-modelled")}
        ELSE CASE f.class = "issuerless" -> Issuerless(f.population)
               [] f.class = "saml"       -> {SamlProvider(f, declared)}
               [] f.class = "service"    -> {At("service", "service-principal")}
               [] f.class = "aws"        -> {ByClaims(g, term, declared)}
               [] f.class = "oidc"       -> {Oidc(g, f, term, declared)}

(* outermost. *)
Outermost(populations) ==
    LET rings  == { pop.place : pop \in populations } \cap Rings
        ring   == { r \in rings : \A q \in rings : Nearness[r] <= Nearness[q] }
        places == ring \cup ({ pop.place : pop \in populations } \cap Lines)
        sure(place) == \E pop \in populations : pop.place = place /\ pop.state = "exact"
    IN  [outcome |-> "placed", ring |-> ring, places |-> places, populations |-> populations,
         state  |-> IF \A place \in places : sure(place) THEN "exact" ELSE "unknown",
         owners |-> UNION { pop.owners : pop \in { p \in populations : p.place \in places } }]

Unplaced(outcome) ==
    [outcome |-> outcome, ring |-> {}, places |-> {}, populations |-> {},
     state |-> "unknown", owners |-> {}]

Classify(g, declared) ==
    IF g.effect = "Deny" THEN Unplaced("refused")
    ELSE IF AdmitsNobody(g.admits) THEN Unplaced("nobody")
    ELSE LET populations == UNION { PlaceTerm(g, t, declared) : t \in g.admits.terms }
         IN  Outermost(IF g.effect = "Unknown"
                       THEN { [pop EXCEPT !.state = "unknown"] : pop \in populations }
                       ELSE populations)

-----------------------------------------------------------------------------
(***************************************************************************)
(* report/rings.go: a row is the populations at its place of the grants    *)
(* that reach it, exact when one of them is or none is there.  The ring of *)
(* anyone is not established beside a service or an uncertain sign-in.     *)
(***************************************************************************)
RowOf(place, declared) ==
    UNION { { pop \in Classify(g, declared).populations : pop.place = place } :
                g \in { h \in grants : place \in Classify(h, declared).places } }

AnyUncertain(row) == \E pop \in row : pop.state # "exact"

MutantAnyoneState(declared) ==   \* a declared provider is known
    IF \/ RowOf("service", declared) # {} \/ AnyUncertain(RowOf("saml", declared))
       \/ RowOf("anyone", declared) # {} /\ \A pop \in RowOf("anyone", declared) : pop.state # "exact"
    THEN "unknown" ELSE "exact"

AnyoneState(declared) ==
    IF \/ RowOf("service", declared) # {}
       \/ AnyUncertain(RowOf("saml", declared)) \/ AnyUncertain(RowOf("people", declared))
       \/ RowOf("anyone", declared) # {} /\ \A pop \in RowOf("anyone", declared) : pop.state # "exact"
    THEN "unknown" ELSE "exact"

-----------------------------------------------------------------------------
(* Whoever holds a token the deployed statement matches. *)
Minted ==
    [h \in Holder |-> { token \in Tokens : \A c \in DOMAIN token : token[c] \in Bears[h][c] }]
Presents(h, g) == h \in HoldersOf[g.issuer] /\ Minted[h] \cap g.matches # {}

DeclaredHolder(h, f, declared) == \E o \in Is[h] : Covered(o, f, declared)

Holds(p, h, g, declared) ==
    \/ p.ring = {"anyone"}
    \/ p.ring = {"platform"} /\ h \in Account
    \/ p.ring = {"outsider"} /\ Is[h] \cap p.owners # {}
    \/ p.ring \in {{"yours"}, {"people"}} /\ DeclaredHolder(h, Facts[g.issuer], declared)
    \/ p.ring = {} /\ p.places # {} /\ Facts[g.issuer].class \in {"issuerless", "saml", "service"}

(***************************************************************************)
(* A grant's place is a ring that holds every identity able to present a   *)
(* credential its statement matches, whatever the user declared: everyone  *)
(* where it says anyone, account holders where it says the platform, the   *)
(* owners it names, or people the user declared (doc.go).  A grant said to *)
(* admit nobody has none.                                                  *)
(***************************************************************************)
NoGrantIsNearerThanItsHolders ==
    \A g \in grants, h \in Holder : g.effect # "Deny" /\ Presents(h, g) =>
        \A declared \in SUBSET Declaration : Holds(Classify(g, declared), h, g, declared)

(***************************************************************************)
(* The conditions the parser can read that one it left unread may stand    *)
(* for: on a claim it filed a caveat under, or on any claim when a caveat  *)
(* is on the whole statement; and the grant, had it been read.             *)
(***************************************************************************)
MayHaveRead(g) ==
    { c \in Condition[g.issuer] :
        Evaluated(c, FALSE) /\ g.admits.caveats \ { [recorded |-> d] : d \in Claim \ {c.claim} } # {} }

HadRead(g, c) ==
    [g EXCEPT !.admits = Normalise({ MeetClaim(t, c, ValueSet(c.values)) : t \in @.terms },
                                   @.caveats, "Meet")]

Settled(g, declared) ==
    \A c \in MayHaveRead(g) :
        LET p == Classify(HadRead(g, c), declared)
        IN  p.outcome = "placed" => p.ring = Classify(g, declared).ring

(***************************************************************************)
(* A platform place said to be exact is settled: no reading of a condition *)
(* the parser left unread would have pinned the grant to an owner (decide).*)
(***************************************************************************)
ExactPlatformsAreSettled ==
    \A g \in grants : \A declared \in SUBSET Declaration :
        LET p == Classify(g, declared)
        IN  p.state = "exact" /\ p.ring = {"platform"} => Settled(g, declared)

(***************************************************************************)
(* When the report says of a document that nobody without an account can   *)
(* assume the role, for certain, then nobody without one holds a           *)
(* credential any statement of it matches, whichever lines beside the      *)
(* rings the grants are on and whatever is declared.                       *)
(***************************************************************************)
QuietAnyoneRingIsTrue ==
    (\E g \in grants, h \in Holder \ Account : g.effect # "Deny" /\ Presents(h, g)) =>
        \A declared \in SUBSET Declaration :
            AnyoneState(declared) = "unknown" \/ RowOf("anyone", declared) # {}
=============================================================================
