------------------------------ MODULE MCFanOut ------------------------------
(***************************************************************************)
(* A small instance of FanOut: two targets and one without a name, two     *)
(* issuers, subjects pinned by value and by patterns whose examples the    *)
(* walk of WitnessWalk finds, misses or gives up on under a small bound.   *)
(* And, sharing no state with it, SubjectForms: the texts on sub a         *)
(* condition writes, read for whose subjects they are.                     *)
(***************************************************************************)
EXTENDS FanOut, WitnessWalk, SubjectForms

Seqs == INSTANCE SequencesExt

CONSTANT WalkBound

MCValue == Values

Starts == <<"a", Star>>
Ends   == <<Star, "b">>
Other  == <<"b", Star>>

MCPattern  == {Starts, Ends, Other}
MCLanguage == [p \in MCPattern |-> { v \in Values : Matches(p, v) }]

SharedInstance(P) ==
    LET r == ShortestShared(Seqs!SetToSeq(P), WalkBound)
    IN  IF r.end = "found" THEN r.text ELSE NoInstance

MCInstance == [P \in (SUBSET MCPattern) \ {{}} |-> SharedInstance(P)]

MCRecord == {"ok", "denied", "nameless"}
MCClaimOf == [c \in {"caveat"} |-> "sub"]

Sub(s)       == [c \in {"sub"} |-> s]
Both(s, a)   == [c \in {"sub", "aud"} |-> IF c = "sub" THEN s ELSE a]
Readings(T)  == NewAdmittedSet(T)
Doubted(a)   == WithCaveat(a, "caveat")

Grant(t, i, e, a, r) == [target |-> t, issuer |-> i, effect |-> e, admits |-> a, records |-> r]
Stmt(g, m, allows)   == [grant |-> g, matches |-> m, allows |-> allows]

(* A statement read for what it is. *)
Plain(t, i, e, a) == Stmt(Grant(t, i, e, a, {"ok"}), Admitted(a), e = "Allow")

Ab == <<"a", "b">>
OnStarts == Readings({Sub(Glob(Starts))})
OnEnds   == Readings({Sub(Glob(Ends))})
OnOther  == Readings({Sub(Glob(Other))})
OnAb     == Readings({Both(Exact(Ab), Exact(<<"a">>))})
TwoA     == Readings({Sub(Exact(<<"a">>)), Sub(Exact(Ab))})
TwoB     == Readings({Both(Exact(<<"a">>), Exact(<<"b">>)), Both(Glob(Ends), Exact(<<"a">>))})
ThreeA   == Readings({Sub(Glob(Starts)), Sub(Exact(<<"b">>))})
ThreeB   == Readings({Sub(Glob(Ends)), Sub(Glob(Other))})
Unread   == Set({Both(Exact(Ab), Unknown({"unread"}))}, {})

MCStatement ==
    (* the sides *)
    { Plain("t1", "i1", "Allow", a) : a \in {OnStarts, OnAb, TwoA, ThreeA} }
    \cup { Plain("t2", i, "Allow", a) : i \in {"i1", NoIssuer}, a \in {OnEnds, OnOther, TwoB} }
    \cup { Plain("t2", "i2", "Allow", OnAb), Plain("t2", "i1", "Allow", ThreeB),
           Plain(NoTarget, "i1", "Allow", OnAb) }
    (* read in doubt, with less evidence, or without the effect *)
    \cup { Stmt(Grant("t2", "i1", "Allow", Doubted(OnEnds), {"ok"}), m, TRUE) :
                m \in {{}, Admitted(OnAb)} }
    \cup { Stmt(Grant("t2", "i1", "Allow", Unread, {"ok"}), m, TRUE) : m \in {{}, Admitted(OnAb)} }
    \cup { Stmt(Grant("t2", "i1", "Allow", OnAb, R), m, TRUE) :
                R \in {{}, {"denied"}, {"nameless"}, {"ok", "nameless"}}, m \in {{}, Admitted(OnAb)} }
    \cup { Stmt(Grant("t2", "i1", "Unknown", OnAb, {"ok"}), Admitted(OnAb), allows) : allows \in BOOLEAN }
    (* what may deny on the first target *)
    \cup { Plain("t1", i, "Deny", a) : i \in {"i1", "i2", NoIssuer}, a \in {OnAb, OnOther} }
    \cup { Stmt(Grant("t1", "i1", "Deny", Doubted(OnOther), {"ok"}), m, FALSE) :
                m \in {Admitted(OnOther), Tokens} }
    \cup { Stmt(Grant("t1", "i1", "Deny", OnOther, R), Tokens, FALSE) : R \in {{}, {"denied"}} }
    \cup { Stmt(Grant("t1", "i1", "Unknown", OnOther, {"ok"}), Admitted(OnOther), allows) :
                allows \in BOOLEAN }

(* Every audience these statements ask for exists. *)
ASSUME InstanceAudiences == AudiencesExist

-----------------------------------------------------------------------------
(***************************************************************************)
(* Four census entries: GitHub's shape (a name, a name with its id, and an *)
(* id under a longer lead, beside a literal that never pins); a form with  *)
(* a delimiter an owner's name may hold; a literal that never pins under a *)
(* recorded lead; and two forms whose leads overlap a name.  And one that  *)
(* records nothing, for the behaviours that write no subject.              *)
(***************************************************************************)
Part(kind, delimiter) == [kind |-> kind, delimiter |-> <<delimiter>>]
Form(lead, parts) == [lead |-> lead, scope |-> "owner", parts |-> parts]

ByName  == Form(<<":">>, <<Part("name", "/")>>)
NamedId == Form(<<":">>, <<Part("name", "@"), Part("id", "/")>>)
ById    == Form(<<"a", ":">>, <<Part("id", ":")>>)
Blurred == Form(<<":">>, <<Part("name", "a")>>)
Under   == Form(<<":", "a", ":">>, <<Part("id", "/")>>)

Unrecorded == [forms |-> {}, neverPin |-> {}]

MCTenancies ==
    { Unrecorded,
      [forms |-> {ByName, NamedId, ById}, neverPin |-> {<<"r", ":">>}],
      [forms |-> {NamedId, Blurred}, neverPin |-> {}],
      [forms |-> {ByName, [ById EXCEPT !.scope = "none"]}, neverPin |-> {<<":", "a", "/", "a">>}],
      [forms |-> {ByName, Under}, neverPin |-> {}] }

Short(n) == UNION { [1..k -> OwnerChar] : k \in 1..n }

MCOwnerNames == Short(2) \cup {<<"a", "r", "a">>}
MCTails == { <<>>, <<"a">>, <<"*">>, <<"/">>, <<"@">> }
MCForeign == { <<"a">>, <<"a", "/">>, <<"/">>, <<"r", "a", ":", "a", "/">> }
MCBeside == { <<":">>, <<":", "a">>, <<":", "a", "r">>, <<":", "r">>, <<":", "r", "/">>, <<"r", ":">> }

-----------------------------------------------------------------------------
(* Grants are linked, or a text on sub is written. *)
MCInit == Init /\ FormsInit

MCNext ==
    \/ tenancy = Unrecorded /\ Fan /\ UNCHANGED formsVars
    \/ \E s \in Statement : tenancy = Unrecorded /\ Collect(s) /\ UNCHANGED formsVars
    \/ tenancy # Unrecorded /\ FormsNext /\ UNCHANGED vars

MCSpec == MCInit /\ [][MCNext]_<<vars, formsVars>>
=============================================================================
