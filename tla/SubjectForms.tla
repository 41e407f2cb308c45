---------------------------- MODULE SubjectForms ----------------------------
(***************************************************************************)
(* internal/ring/classify.go: whose a subject is.  A census records, for   *)
(* an issuer every tenant shares, the forms of sub that lead with a        *)
(* tenant; the classifier reads an exact value, or what a pattern writes   *)
(* before its first wildcard, for the owners every such subject has, and,  *)
(* where it has none, for the start of an owner's name it leaves open.     *)
(*                                                                         *)
(* The model writes a text one character at a time, may set a second       *)
(* pattern beside it, and compares what the code reads with the subjects   *)
(* the issuer really mints (Subjects).                                     *)
(***************************************************************************)
EXTENDS Naturals, FiniteSets

LOCAL INSTANCE SequencesExt

CONSTANTS
    SubjectChar, \* the characters a text is written with
    OwnerChar,   \* OwnerCharacters: those an owner's name or id may hold
    Wildcard,    \* those a pattern does not read as themselves
    Tenancies,   \* what a census may record: forms and literals that never pin
    OwnerNames,  \* the names and ids owners have
    Tails,       \* the ends of subjects
    Foreign,     \* subjects led by no literal a census records
    Beside,      \* the literal prefixes of patterns set beside the text
    MaxText      \* bound: the characters of the text

ASSUME FormsAssumption ==
    /\ OwnerChar \subseteq SubjectChar /\ Wildcard \subseteq SubjectChar \ OwnerChar
    /\ MaxText \in Nat
    /\ \A t \in Tenancies : \A f \in t.forms :
        /\ f.scope \in {"owner", "none"} /\ f.parts # <<>>
        /\ \A i \in DOMAIN f.parts : f.parts[i].kind \in {"name", "id"}

VARIABLES
    tenancy,  \* the census entry of the issuer
    text,     \* the text a condition writes on sub
    shape     \* the union of intersections of prefixes a condition asks, {} while written

formsVars == <<tenancy, text, shape>>

FormsInit == tenancy \in Tenancies /\ text = <<>> /\ shape = {}

-----------------------------------------------------------------------------
(* leads: a subject led by lead can be the text, or begin with it. *)
MutantLeads(txt, lead, complete) == IsPrefix(lead, txt)   \* a short prefix is not led

Leads(txt, lead, complete) ==
    IsPrefix(lead, txt) \/ (~complete /\ IsPrefix(txt, lead))

NeverPins(t, txt, complete) == \E lead \in t.neverPin : Leads(txt, lead, complete)

(* ownerRun: the longest run of an owner's characters from a place on. *)
RunFrom(txt, from) ==
    LET stop == SelectInSubSeq(txt, from, Len(txt), LAMBDA c : c \notin OwnerChar)
    IN  SubSeq(txt, from, IF stop = 0 THEN Len(txt) ELSE stop - 1)

(* readable: the form names a tenant and shows where each part ends. *)
Readable(f) ==
    /\ f.scope # "none"
    /\ \A i \in DOMAIN f.parts :
        Len(f.parts[i].delimiter) = 1 /\ f.parts[i].delimiter[1] \notin OwnerChar

(***************************************************************************)
(* readForm: the parts of a form, one after the other.  A reading is where *)
(* the next part begins, the owner of the deepest part closed so far, and, *)
(* once the walk has ended, whether a subject of the form can be the text. *)
(***************************************************************************)
Stop(r, owner, open, fits) == [r EXCEPT !.on = FALSE, !.owner = owner, !.open = open, !.fits = fits]

Close(r, part, run) ==
    [r EXCEPT !.owner = {[kind |-> part.kind, value |-> run,
                          name |-> IF part.kind = "id" THEN r.name ELSE <<>>]},
              !.name  = IF part.kind = "id" THEN @ ELSE run,
              !.from  = @ + Len(run) + 1]

ReadPart(r, part, txt, complete) ==
    LET run   == RunFrom(txt, r.from)
        ends  == r.from + Len(run) > Len(txt)
        wrong == ~ends /\ txt[r.from + Len(run)] # part.delimiter[1]
    IN  CASE ~r.on                                       -> r
          [] r.on /\ ends /\ ~complete /\ r.owner = {}   -> Stop(r, {}, run, TRUE)
          [] r.on /\ ends /\ ~complete /\ r.owner # {}   -> Stop(r, r.owner, <<>>, TRUE)
          [] r.on /\ wrong                               -> Stop(r, {}, <<>>, FALSE)
          [] r.on /\ ~wrong /\ (~ends \/ complete) /\ run = <<>> -> Stop(r, r.owner, <<>>, TRUE)
          [] r.on /\ ends /\ complete /\ run # <<>>      -> [Close(r, part, run) EXCEPT !.on = FALSE]
          [] r.on /\ ~ends /\ ~wrong /\ run # <<>>       -> Close(r, part, run)

ReadForm(f, txt, complete) ==
    LET begin == [on |-> TRUE, from |-> Len(f.lead) + 1, owner |-> {}, name |-> <<>>,
                  open |-> <<>>, fits |-> TRUE]
    IN  IF ~Leads(txt, f.lead, complete) THEN Stop(begin, {}, <<>>, FALSE)
        ELSE IF Len(txt) < Len(f.lead) \/ ~Readable(f) THEN begin
        ELSE FoldLeft(LAMBDA r, part : ReadPart(r, part, txt, complete), begin, f.parts)

Fitting(t, txt, complete) == { f \in t.forms : ReadForm(f, txt, complete).fits }

(* subjectOwners; no owner is {}, Go's nil. *)
MutantSubjectOwners(t, txt, complete) ==   \* a form that reaches no owner is passed over
    IF NeverPins(t, txt, complete) THEN {}
    ELSE UNION { ReadForm(f, txt, complete).owner : f \in Fitting(t, txt, complete) }

SubjectOwners(t, txt, complete) ==
    IF \/ NeverPins(t, txt, complete)
       \/ \E f \in Fitting(t, txt, complete) : ReadForm(f, txt, complete).owner = {}
    THEN {}
    ELSE UNION { ReadForm(f, txt, complete).owner : f \in Fitting(t, txt, complete) }

(* LiteralPrefix: what is written before the first wildcard. *)
LiteralPrefix(txt) ==
    LET stop == SelectInSeq(txt, LAMBDA c : c \in Wildcard)
    IN  IF stop = 0 THEN txt ELSE SubSeq(txt, 1, stop - 1)

(* subject, of an exact value: one with a wildcard in it is only a bound,  *)
(* read whole where a form reads it and by its literal prefix otherwise.   *)
ValueOwners(t, v) ==
    IF LiteralPrefix(v) = v \/ Fitting(t, v, TRUE) # {} THEN SubjectOwners(t, v, TRUE)
    ELSE SubjectOwners(t, LiteralPrefix(v), FALSE)

ValueBounded(v) == LiteralPrefix(v) # v

PatternOwners(t, pattern) == SubjectOwners(t, LiteralPrefix(pattern), FALSE)

-----------------------------------------------------------------------------
(* writtenStart: the start of a name every form that can read it leaves    *)
(* open alike; <<>> when there is none.                                    *)
MutantWrittenStart(t, txt) ==   \* forms not yet led by the text do not count
    LET opens == { ReadForm(f, txt, FALSE).open : f \in Fitting(t, txt, FALSE) } \ {<<>>}
    IN  IF NeverPins(t, txt, FALSE) \/ Cardinality(opens) # 1 THEN <<>>
        ELSE CHOOSE start \in opens : TRUE

WrittenStart(t, txt) ==
    LET opens == { ReadForm(f, txt, FALSE).open : f \in Fitting(t, txt, FALSE) }
    IN  IF NeverPins(t, txt, FALSE) \/ Cardinality(opens) # 1 THEN <<>>
        ELSE CHOOSE start \in opens : TRUE

(* ownerStarts, of one pattern, an intersection of patterns (longerOf) and *)
(* a union (shortest); no start is {}.                                     *)
PatternStarts(t, prefix) == { s \in {WrittenStart(t, prefix)} : s # <<>> }

MemberStarts(t, member) ==
    LET written == UNION { PatternStarts(t, p) : p \in member }
    IN  { s \in written : \A u \in written : IsPrefix(u, s) }

Shortest(starts) == { s \in starts : ~ \E u \in starts : IsStrictPrefix(u, s) }

MemberOwners(t, member) == UNION { SubjectOwners(t, p, FALSE) : p \in member }

OpenMembers(t, union) == { m \in union : MemberOwners(t, m) = {} }

OwnerStarts(t, union) ==
    IF \E m \in OpenMembers(t, union) : MemberStarts(t, m) = {} THEN {}
    ELSE Shortest(UNION { MemberStarts(t, m) : m \in OpenMembers(t, union) })

-----------------------------------------------------------------------------
Write(c) ==
    /\ shape = {} /\ Len(text) < MaxText
    /\ text' = Append(text, c)
    /\ UNCHANGED <<tenancy, shape>>

(* A second pattern beside the first: both are asked, or either. *)
SetBeside(p) ==
    /\ shape = {} /\ Len(text) < MaxText
    /\ shape' \in { {{LiteralPrefix(text), p}}, {{LiteralPrefix(text)}, {p}} }
    /\ UNCHANGED <<tenancy, text>>

FormsNext == (\E c \in SubjectChar : Write(c)) \/ (\E p \in Beside : SetBeside(p))

-----------------------------------------------------------------------------
(***************************************************************************)
(* The subjects an issuer mints: each recorded form with the parts of some *)
(* tenant, and, of no tenant their text names, those led by a literal that *)
(* never pins and those led by nothing recorded.                           *)
(***************************************************************************)
Spelled(f, values, tail) ==
    f.lead \o FlattenSeq([i \in DOMAIN values |-> values[i] \o f.parts[i].delimiter]) \o tail

NeverPinned(t, subject) == \E lead \in t.neverPin : IsPrefix(lead, subject)

OfForm(t, f) ==
    { [text |-> Spelled(f, values, tail), values |-> values,
       form |-> IF f.scope = "none" THEN {} ELSE {f}] :
        values \in [DOMAIN f.parts -> OwnerNames], tail \in Tails }

Subjects ==
    [t \in Tenancies |->
        { s \in UNION { OfForm(t, f) : f \in t.forms } : ~NeverPinned(t, s.text) }
          \cup { [text |-> lead \o tail, form |-> {}, values |-> <<>>] :
                    lead \in t.neverPin, tail \in Tails }
          \cup { [text |-> s, form |-> {}, values |-> <<>>] :
                    s \in { u \in Foreign : \A f \in t.forms : ~IsPrefix(f.lead, u) } }]

(* The subject s is one of owner o: a part of its tenant is o's name or id.*)
OwnedBy(s, o) ==
    \E f \in s.form : \E i \in DOMAIN f.parts :
        /\ f.parts[i].kind = o.kind /\ s.values[i] = o.value
        /\ o.name # <<>> => \E j \in 1..(i - 1) : s.values[j] = o.name

Held(owners, s) == \E o \in owners : OwnedBy(s, o)

Real == Subjects[tenancy]
Begins(s, prefix) == IsPrefix(prefix, s.text)
AdmittedBy(s, member) == \A p \in member : Begins(s, p)

(***************************************************************************)
(* The owners read from an exact value, or from what is written before a   *)
(* pattern's wildcard, hold every subject the issuer mints that is the     *)
(* value or begins so: none of another tenant, none that never pins and    *)
(* none of an unrecorded lead, wherever between two parts the text stops.  *)
(* And a subject some tenant's token carries is read for that tenant when  *)
(* a policy writes it whole, unless another form cannot show where a       *)
(* tenant ends in it.                                                      *)
(***************************************************************************)
Holding(owners, subjects) == owners # {} => \A s \in subjects : Held(owners, s)

Legible(s) == s.form # {} /\ \A f \in tenancy.forms : Leads(text, f.lead, TRUE) => Readable(f)

OwnersHoldEverySubject ==
    /\ Holding(PatternOwners(tenancy, text), { s \in Real : Begins(s, LiteralPrefix(text)) })
    /\ Holding(ValueOwners(tenancy, text), { s \in Real : s.text = text })
    /\ \A s \in Real : s.text = text /\ Legible(s) => Held(ValueOwners(tenancy, text), s)

(***************************************************************************)
(* Where no owner is pinned, ownerStarts tells who is let in: each subject *)
(* an open pattern admits is of a tenant whose name begins with a start,   *)
(* and whatever name beginning with a start is registered, a condition no  *)
(* part of which is contradictory admits a subject of that name            *)
(* (OwnerStarts in place.go).                                              *)
(***************************************************************************)
StartsAreWhoIsLetIn ==
    LET starts == OwnerStarts(tenancy, shape)
        admitted(m) == { s \in Real : AdmittedBy(s, m) }
    IN  /\ starts # {} => \A m \in OpenMembers(tenancy, shape) : \A s \in admitted(m) :
            s.form # {} /\ \E start \in starts : IsPrefix(start, s.values[1])
        /\ \A start \in starts : (\A m \in shape : admitted(m) # {}) =>
            \A n \in OwnerNames : IsPrefix(start, n) =>
                \E m \in shape : \E s \in admitted(m) : s.form # {} /\ s.values[1] = n

(***************************************************************************)
(* Writing more of a subject never widens who it admits: a text that pins  *)
(* pins still when a character follows, or no subject begins with it.      *)
(***************************************************************************)
LongerTextsPinNoLess ==
    [][ SubjectOwners(tenancy, text, FALSE) # {} =>
          \/ SubjectOwners(tenancy', text', FALSE) # {}
          \/ \A s \in Real : ~Begins(s, text') ]_text
=============================================================================
