-------------------------------- MODULE FanOut --------------------------------
(***************************************************************************)
(* internal/join: which identities two targets both admit.  FanOut reads a *)
(* corpus of grants and makes one link of every two grants on two targets  *)
(* that may admit one identity; NewLink says whether that is Established   *)
(* or Indeterminate.                                                       *)
(*                                                                         *)
(* A grant is what a reader made of one statement.  Beside it the model    *)
(* keeps the statement itself: the tokens it really matches and whether it *)
(* really allows or denies.  Strings, renderings and sentences are left    *)
(* out; a doubt is the record of what is doubted, not its wording.         *)
(***************************************************************************)
EXTENDS AdmittedSet

CONSTANTS
    Audience,    \* the claim "aud"
    Target,      \* targets with an identifier
    NoTarget,    \* a target whose identifier is blank
    Issuer,      \* issuers named
    NoIssuer,    \* a blank issuer: the reader could not name one
    Record,      \* evidence records
    Nameless,    \* those that name no call or no status (malformed)
    Conclusive,  \* those whose status is ok or not_configured
    ClaimOf,     \* ClaimOf[c]: the claim a recorded caveat names
    Instance,    \* Instance[P]: the example found for the patterns P, if one is
    NoInstance,  \* the walk found none, or gave up at its bound
    Statement,   \* the statements a corpus may hold: [grant, matches, allows]
    MaxGrants    \* bound: grants in a corpus

VARIABLES
    corpus,   \* the statements collected
    links,    \* what FanOut returned
    refused,  \* the grants its error names
    done      \* FanOut has run

vars == <<corpus, links, refused, done>>

-----------------------------------------------------------------------------
(* Well-formed grants. *)

Named(g) == g.target # NoTarget

(* evidenced: one record that names its call and its status is enough. *)
Evidenced(g) == g.records \ Nameless # {}

WellFormed(g) == Named(g) /\ Evidenced(g)

MayShareIssuer(x, y) == x = NoIssuer \/ y = NoIssuer \/ x = y

IssuerOf(a, b) == IF a.issuer # NoIssuer THEN a.issuer ELSE b.issuer

Pairable(a, b) ==
    /\ Named(a) /\ Named(b)
    /\ a.target # b.target
    /\ MayShareIssuer(a.issuer, b.issuer)
    /\ a.effect # "Deny" /\ b.effect # "Deny"
    /\ Evidenced(a) /\ Evidenced(b)

-----------------------------------------------------------------------------
(* Grant.WithoutAudience: the audience is set aside and the caveats kept. *)
Project(s, keep) ==
    LET kept == NewAdmittedSet({ [c \in DOMAIN t \cap keep |-> t[c]] : t \in s.terms })
    IN  Set(kept.terms, kept.caveats \cup s.caveats)

WithoutAudience(g) == Project(g.admits, Claim \ {Audience})

Overlap(a, b) == MeetSets(WithoutAudience(a), WithoutAudience(b))

-----------------------------------------------------------------------------
(* The witness: a token built from one term of the overlap and confirmed   *)
(* against both sides.  "First in canonical order" is a fixed choice.      *)
MemberWitness(m) == IF m.kind = "exact" THEN m.value ELSE Instance[m.globs]

ShapeWitnesses(s) == { MemberWitness(m) : m \in s.terms } \ {NoInstance}

Shown(t) == { c \in DOMAIN t : ~IsTop(t[c]) }

TermWitnesses(t) ==
    IF \E c \in Shown(t) : ShapeWitnesses(t[c]) = {} THEN {}
    ELSE { [c \in Shown(t) |-> CHOOSE v \in ShapeWitnesses(t[c]) : TRUE] }

NoWitness == [none |-> TRUE]

WitnessOf(overlap, sideA, sideB) ==
    LET confirmed == { w \in UNION { TermWitnesses(t) : t \in overlap.terms } :
                            Admits(sideA, w) /\ Admits(sideB, w) }
    IN  IF confirmed = {} THEN NoWitness ELSE CHOOSE w \in confirmed : TRUE

-----------------------------------------------------------------------------
(* What keeps a link from being Established. *)

RecordDoubts(g) ==
    { [record |-> r] : r \in (g.records \cap Nameless) \cup (g.records \ Conclusive) }

CaveatDoubts(g) == { [caveat |-> c] : c \in g.admits.caveats }

Declared(g) == { ClaimOf[c.recorded] : c \in { d \in g.admits.caveats : "recorded" \in DOMAIN d } }

UndeclaredUnknowns(g) ==
    { c \in Claim \ Declared(g) :
        \E t \in g.admits.terms : c \in DOMAIN t /\ IsUnknown(t[c]) }

When(condition, doubt) == IF condition THEN {doubt} ELSE {}

DoubtsAbout(g) ==
    When(g.issuer = NoIssuer, [issuer |-> g])
      \cup When(g.effect # "Allow", [effect |-> g])
      \cup CaveatDoubts(g)
      \cup { [unknown |-> c] : c \in UndeclaredUnknowns(g) }
      \cup RecordDoubts(g)

UnprovedReading(g) ==
    CaveatDoubts(g)
      \cup When(g.records = {}, [unevidenced |-> g])
      \cup RecordDoubts(g)

MutantTouches(d, side, overlap) ==   \* the reading of a Deny is always believed
    ~AdmitsNobody(MeetSets(MeetSets(d.admits, side.admits), overlap))

(* A statement that may deny counts when it can touch the overlap, or was  *)
(* read too doubtfully to say.                                             *)
Touches(d, side, overlap) ==
    \/ UnprovedReading(d) # {}
    \/ ~AdmitsNobody(MeetSets(MeetSets(d.admits, side.admits), overlap))

DenialsAgainst(side, issuer, overlap, denials) ==
    { d \in denials \ {side} :
        /\ d.target = side.target
        /\ MayShareIssuer(d.issuer, issuer)
        /\ Touches(d, side, overlap) }

CaveatsBeyond(overlap, a, b) == overlap.caveats \ (a.admits.caveats \cup b.admits.caveats)

-----------------------------------------------------------------------------
(* NewLink, for a pair that is not provably disjoint. *)
NewLink(a, b, denials) ==
    LET issuer  == IssuerOf(a, b)
        overlap == Overlap(a, b)
        witness == WitnessOf(overlap, WithoutAudience(a), WithoutAudience(b))
        counted == [s \in {a, b} |-> DenialsAgainst(s, issuer, overlap, denials)]
        doubts  == (UNION { DoubtsAbout(s) \cup { [denial |-> d] : d \in counted[s] } : s \in {a, b} })
                     \cup { [widened |-> c] : c \in CaveatsBeyond(overlap, a, b) }
                     \cup When(witness = NoWitness, [example |-> "none"])
    IN  [sides      |-> {a, b},
         issuer     |-> issuer,
         witness    |-> witness,
         confidence |-> IF doubts = {} THEN "established" ELSE "indeterminate",
         reason     |-> doubts,
         provenance |-> UNION { d.records : d \in {a, b} \cup counted[a] \cup counted[b] }]

MutantLinkable(a, b) ==   \* a pair with no example is dropped
    /\ Pairable(a, b)
    /\ WitnessOf(Overlap(a, b), WithoutAudience(a), WithoutAudience(b)) # NoWitness

Linkable(a, b) == Pairable(a, b) /\ ~AdmitsNobody(Overlap(a, b))

-----------------------------------------------------------------------------
Init ==
    /\ corpus = {} /\ links = {} /\ refused = {}
    /\ done = FALSE

(* A reader hands the grant of one more statement over. *)
Collect(s) ==
    /\ ~done /\ Cardinality(corpus) < MaxGrants
    /\ corpus' = corpus \cup {s}
    /\ UNCHANGED <<links, refused, done>>

(* Two statements that read alike are one grant: the code compacts them.   *)
Grants == { s.grant : s \in corpus }

Fan ==
    /\ ~done
    /\ LET denials == { g \in Grants : g.effect # "Allow" }
       IN  links' = { NewLink(p[1], p[2], denials) :
                        p \in { q \in Grants \X Grants : Linkable(q[1], q[2]) } }
    /\ refused' = { g \in Grants : ~WellFormed(g) }
    /\ done' = TRUE
    /\ UNCHANGED corpus

Next == Fan \/ \E s \in Statement : Collect(s)

Spec == Init /\ [][Next]_vars

-----------------------------------------------------------------------------
(* What the readers promise of a grant, checked of them in their own       *)
(* modules: a reading with no caveat and conclusive evidence is the        *)
(* statement, and what an allowing statement matches its reading admits.   *)
Proved(g) == g.records # {} /\ RecordDoubts(g) = {}

Faithful(s) ==
    /\ s.grant.effect = "Allow" => s.allows
    /\ s.grant.effect = "Deny" => ~s.allows
    /\ Proved(s.grant) /\ s.allows => s.matches \subseteq Admitted(s.grant.admits)
    /\ Proved(s.grant) /\ IsExact(s.grant.admits) =>
        /\ s.matches \subseteq Admitted(s.grant.admits)
        /\ UndeclaredUnknowns(s.grant) = {} => s.matches = Admitted(s.grant.admits)

(* A reading is in the form admitted.go keeps every set in, and an example *)
(* the walk finds is a string.                                             *)
ASSUME StatementAssumption ==
    /\ \A s \in Statement :
        /\ Faithful(s)
        /\ \A t \in s.grant.admits.terms :
            DOMAIN t \subseteq Claim /\ t \in TermsOver(DOMAIN t) /\ Reduced(t, s.grant.admits)
        /\ s.matches \subseteq Tokens
        /\ s.grant.effect \in {"Allow", "Deny", "Unknown"} /\ s.allows \in BOOLEAN
    /\ Instance \in [(SUBSET Pattern) \ {{}} -> Value \cup {NoInstance}]

(***************************************************************************)
(* NewLink sets the audience of each side aside and does not ask whether a *)
(* string satisfies it (an intersection of globs may hold none).           *)
(***************************************************************************)
AudiencesExist ==
    \A s \in Statement : \A t \in s.grant.admits.terms :
        Audience \in DOMAIN t => \E v \in Value : Contains(t[Audience], v)

Identity(token) == [c \in DOMAIN token \ {Audience} |-> token[c]]

(* The statement lets the token in, and no statement on its target keeps   *)
(* it out.                                                                 *)
LetsIn(s, issuer, token) ==
    /\ token \in s.matches
    /\ \A d \in corpus :
        ~ /\ ~d.allows /\ d.grant.target = s.grant.target
          /\ MayShareIssuer(d.grant.issuer, issuer)
          /\ token \in d.matches

(***************************************************************************)
(* An Established link is a fact: under some audience each of its two      *)
(* targets really lets the example identity in, whatever else the corpus   *)
(* holds on those targets (Deny statements, statements whose effect could  *)
(* not be read, statements read in doubt or without evidence).             *)
(***************************************************************************)
EstablishedMeansAdmitted ==
    \A l \in links : l.confidence = "established" =>
        \A s \in corpus : s.grant \in l.sides =>
            \E token \in Tokens :
                Identity(token) = l.witness /\ LetsIn(s, l.issuer, token)

(***************************************************************************)
(* No shared counterparty is lost in silence: when one identity really     *)
(* satisfies an allowing statement on each of two targets, from issuers    *)
(* that may be one, FanOut returns the link, or its error names a side     *)
(* that has no target or not one record to name.                           *)
(* A walk that gave up, a widened overlap, a side in doubt or a denial     *)
(* may weaken the link and never removes it.                               *)
(***************************************************************************)
SharedCounterpartiesAreLinked ==
    done => \A s, u \in corpus :
        /\ s.allows /\ u.allows
        /\ s.grant.target # u.grant.target
        /\ MayShareIssuer(s.grant.issuer, u.grant.issuer)
        /\ s.matches \subseteq Admitted(s.grant.admits)
        /\ u.matches \subseteq Admitted(u.grant.admits)
        /\ { Identity(t) : t \in s.matches } \cap { Identity(t) : t \in u.matches } # {}
        => \/ \E l \in links : l.sides = {s.grant, u.grant}
           \/ \E g \in {s.grant, u.grant} \cap refused :
                g.target = NoTarget \/ g.records \subseteq Nameless
=============================================================================
