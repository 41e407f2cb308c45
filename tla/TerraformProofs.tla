-------------------------- MODULE TerraformProofs --------------------------
(***************************************************************************)
(* Proofs about Terraform: what is read of a plan or a state covers every  *)
(* object that is there, exact grants are deployed, renderings are this    *)
(* plan's, and targets are never merged, for any workspaces, types, texts, *)
(* marks and plans.                                                        *)
(***************************************************************************)
EXTENDS Terraform, FiniteSetTheorems, TLAPS

(* The objects Terraform tracks: each of the workspace, with a text of its *)
(* type, and at one address a current and a deposed one at most.           *)
ObjectOK(o) ==
    /\ o = Object(o.address, o.deposed, o.text, o.bare)
    /\ o.bare \in BOOLEAN
    /\ o.address \in Managed
    /\ o.deposed \in {Current, OldKey}
    /\ o.text \in Text[TypeOf(o.address)]
    /\ o.bare => TypeOf(o.address) \in BareType
    /\ o.deposed = OldKey => TypeOf(o.address) \in DeposedType

Tracked(os) ==
    /\ \A o \in os : ObjectOK(o)
    /\ \A o, p \in os : o.address = p.address /\ o.deposed = p.deposed => o = p

(* A change sends a value of its type to the current object, or removes an *)
(* object it shows; its target is unknown only if the plan makes what it   *)
(* picks.                                                                  *)
AfterOK(c, addresses) ==
    /\ c.after.text \in Text[TypeOf(c.address)] /\ c.after.null = {}
    /\ c.after.marks = {} \/ c.after.marks \in Marks[TypeOf(c.address)]
    /\ \/ c.after.target = "stated"
       \/ c.address \in DOMAIN config.picks /\ config.picks[c.address] \in addresses

Shows(c, os) ==
    \E o \in os : o.address = c.address /\ o.deposed = c.deposed /\ c.before = Recorded(o)

ChangeOK(c, addresses, os) ==
    /\ c.address \in Managed
    /\ c.deposed \in {Current, OldKey}
    /\ Sends(c) => c.deposed = Current /\ AfterOK(c, addresses)
    /\ ~Sends(c) \/ Forgets(c) => Shows(c, os)

(* One change of an object at most. *)
ChangesOK(changes, os) ==
    /\ \A c \in changes : ChangeOK(c, { d.address : d \in changes }, os)
    /\ \A c, d \in changes : c.address = d.address /\ c.deposed = d.deposed => c = d

-----------------------------------------------------------------------------
(* Terraform plans.  A workspace's addresses have the types assumed. *)
LEMMA ManagedLemma ==
    ASSUME NEW w \in Workspace, workspace = w.addresses, NEW address \in Managed
    PROVE  /\ TypeOf(address) \in DOMAIN Text
           /\ IsProvider(address) => /\ Pool[address] # NoPool
                                     /\ \A t \in Text[TypeOf(address)] : t.kind \in {"read", "refused"}
           /\ IsBinding(address) => \A t \in Text[TypeOf(address)] : \A m \in t.members : m.who \subseteq Who
  BY WorkspaceAssumption DEF Managed

(* A single-action change other than a forget forgets nothing. *)
LEMMA ForgetsLemma ==
    ASSUME NEW c, c.actions \in {<<"create">>, <<"update">>, <<"no-op">>}
    PROVE  ~Forgets(c) /\ Sends(c)
  BY DEF Forgets, Sends

(* Sent: the values an address may be sent. *)
LEMMA SentLemma ==
    ASSUME NEW address, NEW made, NEW age, NEW v \in Sent(address, made, age)
    PROVE  /\ v.text \in Text[TypeOf(address)] /\ v.null = {}
           /\ v.marks \in Marks[TypeOf(address)]
           /\ \/ v.target = "stated"
              \/ address \in DOMAIN config.picks /\ config.picks[address] \in made
<1>1. PICK t \in Text[TypeOf(address)], marks \in Marks[TypeOf(address)], pooled \in Pooled(address, age) :
          v = Value(t, {}, marks, Targeted(address, made), age = "old", pooled)
  BY DEF Sent
<1>2. v.text = t /\ v.null = {} /\ v.marks = marks /\ v.target = Targeted(address, made)
  BY <1>1 DEF Value
<1>. QED  BY <1>2 DEF Targeted

(* Recorded: what a document shows of an object that has its values. *)
LEMMA RecordedLemma ==
    ASSUME NEW o, ~o.bare
    PROVE  Recorded(o) = Value(o.text, {}, {}, "stated", TRUE, TRUE)
  BY DEF Recorded

(* A creation sends a value, and so do a replacement and an update, which *)
(* show the object they replace; a removal shows what it removes.          *)
LEMMA CreationLemma ==
    ASSUME NEW address \in Managed, NEW made, NEW c \in Creations(address, made)
    PROVE  c.address = address /\ c.deposed = Current /\ ChangeOK(c, made, objects)
<1>1. PICK v \in Sent(address, made, "new") : c = Change(address, Current, <<"create">>, NoValue, v)
  BY DEF Creations
<1>2. c.address = address /\ c.deposed = Current /\ c.after = v /\ c.actions = <<"create">>
  BY <1>1 DEF Change
<1>3. AfterOK(c, made)
  BY <1>2, SentLemma DEF AfterOK
<1>. QED  BY <1>2, <1>3, ForgetsLemma DEF ChangeOK

(* A replacement sends a value to the current object. *)
LEMMA ReplacementLemma ==
    ASSUME NEW o \in objects, ObjectOK(o), o.deposed = Current, TypeOf(o.address) \in DOMAIN Text,
           NEW made, NEW c \in Replacements(o, made)
    PROVE  c.address = o.address /\ c.deposed = Current /\ ChangeOK(c, made, objects)
<1>1. PICK actions \in Ways[TypeOf(o.address)], v \in Sent(o.address, made, "new") :
          c = Change(o.address, Current, actions, Recorded(o), v)
  BY DEF Replacements
<1>2. c.address = o.address /\ c.deposed = Current /\ c.after = v /\ c.actions = actions /\ c.before = Recorded(o)
  BY <1>1 DEF Change
<1>3. Sends(c)
  BY <1>2, TypeAssumption DEF Sends
<1>4. AfterOK(c, made)
  BY <1>2, SentLemma DEF AfterOK
<1>. QED  BY <1>2, <1>3, <1>4 DEF ChangeOK, Shows, ObjectOK

(* An update or a no-op of the current object. *)
LEMMA UpdateLemma ==
    ASSUME NEW o \in objects, ObjectOK(o), o.deposed = Current, NEW made, NEW c \in Updates(o, made)
    PROVE  c.address = o.address /\ c.deposed = Current /\ ChangeOK(c, made, objects)
<1>1. CASE \E v \in Sent(o.address, made, "old") : c = Change(o.address, Current, <<"update">>, Recorded(o), v)
  <2>1. PICK v \in Sent(o.address, made, "old") : c = Change(o.address, Current, <<"update">>, Recorded(o), v)
    BY <1>1
  <2>2. c.address = o.address /\ c.deposed = Current /\ c.after = v /\ c.actions = <<"update">>
    BY <2>1 DEF Change
  <2>3. AfterOK(c, made)
    BY <2>2, SentLemma DEF AfterOK
  <2>. QED  BY <2>2, <2>3, ForgetsLemma DEF ChangeOK, ObjectOK
<1>2. CASE ~o.bare /\ c = Change(o.address, Current, <<"no-op">>, Recorded(o), Recorded(o))
  <2>1. c.address = o.address /\ c.deposed = Current /\ c.actions = <<"no-op">>
        /\ c.after = Value(o.text, {}, {}, "stated", TRUE, TRUE)
    BY <1>2, RecordedLemma DEF Change
  <2>2. AfterOK(c, made)
    BY <2>1 DEF AfterOK, Value, ObjectOK
  <2>. QED  BY <2>1, <2>2, ForgetsLemma DEF ChangeOK, ObjectOK
<1>. QED  BY <1>1, <1>2 DEF Updates

(* A removal shows the object it removes. *)
LEMMA RemovalLemma ==
    ASSUME NEW o \in objects, ObjectOK(o), NEW made, NEW c \in Removals(o)
    PROVE  c.address = o.address /\ c.deposed = o.deposed /\ ChangeOK(c, made, objects)
<1>1. PICK actions \in {<<"delete">>, <<"forget">>} :
          c = Change(o.address, o.deposed, actions, Recorded(o), NoValue)
  BY DEF Removals
<1>2. c.address = o.address /\ c.deposed = o.deposed /\ c.actions = actions /\ c.before = Recorded(o)
  BY <1>1 DEF Change
<1>. QED  BY <1>2 DEF ChangeOK, Shows, Sends, ObjectOK

(* OfCurrent: the changes of a current object. *)
LEMMA CurrentLemma ==
    ASSUME NEW address \in Managed, NEW made, TypeOf(address) \in DOMAIN Text, Tracked(objects),
           NEW c \in OfCurrent(address, made)
    PROVE  c.address = address /\ c.deposed = Current /\ ChangeOK(c, made, objects)
<1>. DEFINE o == CHOOSE x \in CurrentAt(address) : TRUE
<1>1. CASE CurrentAt(address) = {}
  BY <1>1, CreationLemma DEF OfCurrent
<1>2. CASE CurrentAt(address) # {}
  <2>1. o \in objects /\ o.address = address /\ o.deposed = Current /\ ObjectOK(o)
    BY <1>2 DEF CurrentAt, At, Tracked
  <2>2. c \in Replacements(o, made) \cup Updates(o, made) \cup Removals(o)
    BY <1>2 DEF OfCurrent
  <2>. HIDE DEF o
  <2>. QED  BY <2>1, <2>2, ReplacementLemma, UpdateLemma, RemovalLemma
<1>. QED  BY <1>1, <1>2

(* ListedChanges: something of the address, once for each object. *)
LEMMA ListedLemma ==
    ASSUME NEW address \in Managed, NEW made, TypeOf(address) \in DOMAIN Text, Tracked(objects),
           NEW S \in ListedChanges(address, made)
    PROVE  /\ S # {}
           /\ \A c \in S : c.address = address /\ ChangeOK(c, made, objects)
           /\ \A c, d \in S : c.deposed = d.deposed => c = d
<1>. DEFINE old == At(address) \ CurrentAt(address)
            o   == CHOOSE x \in old : TRUE
<1>1. CASE old = {}
  <2>1. PICK c \in OfCurrent(address, made) : S = {c}
    BY <1>1 DEF ListedChanges
  <2>. QED  BY <2>1, CurrentLemma
<1>2. CASE old # {}
  <2>1. o \in objects /\ o.address = address /\ o.deposed = OldKey
    BY <1>2 DEF At, CurrentAt, Tracked, ObjectOK
  <2>. HIDE DEF o
  <2>2. \/ \E d \in Removals(o) : S = {d}
        \/ \E c \in OfCurrent(address, made), d \in Removals(o) : S = {c, d}
    <3>1. ListedChanges(address, made) =
             IF OfCurrent(address, made) = {} THEN { {d} : d \in Removals(o) }
             ELSE { {c, d} : c \in OfCurrent(address, made), d \in Removals(o) }
      BY <1>2 DEF ListedChanges, o
    <3>. QED  BY <3>1
  <2>3. \A d \in Removals(o) : d.address = address /\ d.deposed = OldKey /\ ChangeOK(d, made, objects)
    BY <2>1, RemovalLemma DEF Tracked
  <2>4. \A c \in OfCurrent(address, made) : c.address = address /\ c.deposed = Current /\ ChangeOK(c, made, objects)
    BY CurrentLemma
  <2>5. Current # OldKey
    BY DEF Current, OldKey
  <2>. QED  BY <2>2, <2>3, <2>4, <2>5
<1>. QED  BY <1>1, <1>2

(* Changes: whatever Terraform lists is a plan of good changes. *)
LEMMA ChangesLemma ==
    ASSUME NEW w \in Workspace, workspace = w.addresses, Tracked(objects),
           NEW listed \in SUBSET Managed, NEW made \in SUBSET listed, NEW changes \in Changes(listed, made)
    PROVE  ChangesOK(changes, objects)
<1>. DEFINE of(a) == { c \in changes : c.address = a }
<1>1. \A a \in listed : /\ of(a) # {}
                        /\ \A c \in of(a) : ChangeOK(c, made, objects)
                        /\ \A c, d \in of(a) : c.deposed = d.deposed => c = d
  <2>. TAKE a \in listed
  <2>1. of(a) \in ListedChanges(a, made) /\ a \in Managed
    BY DEF Changes
  <2>. QED  BY <2>1, ListedLemma, ManagedLemma
<1>2. \A c \in changes : c.address \in listed /\ c \in of(c.address)
  BY DEF Changes
<1>3. made \subseteq { d.address : d \in changes }
  BY <1>1
<1>4. \A c \in changes : ChangeOK(c, { d.address : d \in changes }, objects)
  BY <1>1, <1>2, <1>3 DEF ChangeOK, AfterOK
<1>5. \A c, d \in changes : c.address = d.address /\ c.deposed = d.deposed => c = d
  BY <1>1, <1>2
<1>. QED  BY <1>4, <1>5 DEF ChangesOK
-----------------------------------------------------------------------------
(* Terraform applies.  What is deployed was left alone, sent by a change,  *)
(* or let go by one that forgets it; and nothing of these is missing.      *)
Delivers(c, o) ==
    Sends(c) /\ o.address = c.address /\ o.deposed = Current /\ ~o.bare /\ o.text \in Outcomes(c)

LetsGo(c, o) ==
    Forgets(c) /\ o.address = c.address /\ o.deposed = c.deposed /\ c.before = Recorded(o)

Accounted(o) ==
    \/ o \in plan.prior /\ o.address \notin Addresses(plan)
    \/ \E c \in plan.changes : Delivers(c, o)
    \/ o \in plan.prior /\ \E c \in plan.changes : LetsGo(c, o)

AppliedOK(os) ==
    /\ \A o \in os : ObjectOK(o) /\ Accounted(o)
    /\ \A o \in plan.prior : o.address \notin Addresses(plan) => o \in os
    /\ \A c \in plan.changes : Sends(c) => \E o \in os : Delivers(c, o)
    /\ \A c \in plan.changes : Forgets(c) => \E o \in os : LetsGo(c, o)

(* What was read is what the plan, or the state, is read as; a rendering   *)
(* the plan settles is the one recorded.                                   *)
PlanIsRead ==
    /\ \E recorded :
          /\ ~plan.deferred => recorded = plan.will
          /\ grants = GrantsOf(config, Examined(OfPlan(plan)), Addresses(plan), plan.deferred, recorded)
    /\ unread = Unread(OfPlan(plan))

StateIsRead ==
    /\ grants = GrantsOf(config, Examined(Shown(objects, "recorded")), {}, FALSE, NoText)
    /\ unread = Unread(Shown(objects, "recorded"))

Planned == phase \in {"planned", "read", "applied", "failed"}

(* The inductive invariant. *)
TerraformInv ==
    /\ \E w \in Workspace : workspace = w.addresses /\ config = w.config
    /\ Tracked(objects)
    /\ phase \in {"idle", "shown", "planned", "read", "applied", "failed"}
    /\ phase \in {"idle", "shown"} => plan = NoPlan /\ forgotten = {}
    /\ Planned => plan # NoPlan /\ Tracked(plan.prior) /\ ChangesOK(plan.changes, plan.prior)
    /\ phase \in {"planned", "read"} => plan.prior = objects /\ forgotten = {}
    /\ phase = "planned" => (~plan.deferred => rendered = plan.will)
    /\ phase \in {"idle", "planned"} => grants = {}
    /\ phase \in {"read", "applied", "failed"} => PlanIsRead
    /\ phase = "applied" => AppliedOK(Deployed)
    /\ phase = "shown" => StateIsRead

(* An object that arrives is one its change sends. *)
LEMMA BringsLemma ==
    ASSUME NEW c, ChangeOK(c, Addresses(plan), plan.prior), Sends(c), NEW stopped \in SUBSET MayStop,
           c \in plan.changes, NEW o \in Brings(c, stopped)
    PROVE  /\ ObjectOK(o) /\ o.address = c.address /\ o.deposed = Current
           /\ stopped = {} => Delivers(c, o)
<1>1. PICK t \in Outcomes(c) : o = Object(c.address, Current, t, c \in stopped)
  BY DEF Brings
<1>2. o.address = c.address /\ o.deposed = Current /\ o.text = t /\ o.bare = (c \in stopped)
  BY <1>1 DEF Object
<1>3. t \in Text[TypeOf(c.address)]
  BY DEF Outcomes, ChangeOK, AfterOK
<1>4. o.bare => TypeOf(c.address) \in BareType
  BY <1>2 DEF MayStop
<1>5. o = Object(o.address, o.deposed, o.text, o.bare)
  BY <1>1, <1>2
<1>6. o.bare \in BOOLEAN
  <2>1. CASE c \in stopped
    BY <1>2, <2>1
  <2>2. CASE c \notin stopped
    BY <1>2, <2>2
  <2>. QED  BY <2>1, <2>2
<1>7. o.deposed # OldKey
  BY <1>2 DEF Current, OldKey
<1>8. ObjectOK(o)
  BY <1>2, <1>3, <1>4, <1>5, <1>6, <1>7 DEF ObjectOK, ChangeOK
<1>. QED  BY <1>2, <1>8 DEF Delivers

(* Apply: the objects tracked afterwards. *)
LEMMA ApplyTracks ==
    ASSUME TerraformInv, phase = "read", NEW left \in SUBSET MayLeave, NEW stopped \in SUBSET MayStop,
           NEW arrived \in Arrivals(stopped)
    PROVE  Tracked({ o \in objects : o.address \notin Addresses(plan) } \cup arrived
                     \cup { [o EXCEPT !.deposed = OldKey] : o \in UNION { Subject(c) : c \in left } })
<1>. DEFINE kept == { o \in objects : o.address \notin Addresses(plan) }
            gone == UNION { Subject(c) : c \in left }
            old  == { [o EXCEPT !.deposed = OldKey] : o \in gone }
<1>1. Tracked(objects) /\ ChangesOK(plan.changes, plan.prior) /\ plan.prior = objects
  BY DEF TerraformInv, Planned
<1>2. \A c \in plan.changes : ChangeOK(c, Addresses(plan), plan.prior)
  BY <1>1 DEF ChangesOK, Addresses
<1>3. \A o \in arrived : /\ ObjectOK(o) /\ o.deposed = Current /\ o.address \in Addresses(plan)
  <2>. TAKE o \in arrived
  <2>1. PICK c \in plan.changes : Sends(c) /\ o \in Brings(c, stopped)
    BY DEF Arrivals
  <2>. QED  BY <1>2, <2>1, BringsLemma DEF Addresses
<1>4. \A o \in gone : /\ o \in objects /\ ObjectOK(o) /\ o.deposed = Current
                      /\ o.address \in Addresses(plan) /\ TypeOf(o.address) \in DeposedType
  <2>. TAKE o \in gone
  <2>1. PICK c \in MayLeave : o \in Subject(c)
    OBVIOUS
  <2>2. c \in plan.changes /\ c.actions = <<"create", "delete">> /\ TypeOf(c.address) \in DeposedType
    BY <2>1 DEF MayLeave
  <2>3. Sends(c) /\ c.deposed = Current
    BY <1>2, <2>2 DEF Sends, ChangeOK
  <2>. QED  BY <1>1, <2>1, <2>2, <2>3 DEF Subject, Addresses, Tracked
<1>5. \A p \in old : \E o \in gone : p = Object(o.address, OldKey, o.text, o.bare)
  <2>. TAKE p \in old
  <2>1. PICK o \in gone : p = [o EXCEPT !.deposed = OldKey]
    OBVIOUS
  <2>2. o = Object(o.address, o.deposed, o.text, o.bare)
    BY <1>4 DEF ObjectOK
  <2>3. p = Object(o.address, OldKey, o.text, o.bare)
    BY <2>1, <2>2 DEF Object
  <2>. QED  BY <2>3
<1>6. \A p \in old : /\ ObjectOK(p) /\ p.deposed = OldKey /\ p.address \in Addresses(plan)
                     /\ \E o \in gone : p = Object(o.address, OldKey, o.text, o.bare) /\ o.address = p.address
  <2>. TAKE p \in old
  <2>1. PICK o \in gone : p = Object(o.address, OldKey, o.text, o.bare)
    BY <1>5
  <2>2. p.address = o.address /\ p.deposed = OldKey /\ p.text = o.text /\ p.bare = o.bare
    BY <2>1 DEF Object
  <2>3. p = Object(p.address, p.deposed, p.text, p.bare)
    BY <2>1, <2>2
  <2>. QED  BY <1>4, <2>1, <2>2, <2>3 DEF ObjectOK
<1>7. \A p, q \in old : p.address = q.address => p = q
  <2>. TAKE p, q \in old
  <2>1. PICK o \in gone : p = Object(o.address, OldKey, o.text, o.bare) /\ o.address = p.address
    BY <1>6
  <2>2. PICK u \in gone : q = Object(u.address, OldKey, u.text, u.bare) /\ u.address = q.address
    BY <1>6
  <2>3. o.address = u.address => o = u
    BY <1>1, <1>4 DEF Tracked
  <2>. QED  BY <2>1, <2>2, <2>3
<1>8. \A o, p \in arrived : o.address = p.address => o = p
  BY DEF Arrivals
<1>9. \A o \in kept : o \in objects /\ ObjectOK(o) /\ o.address \notin Addresses(plan)
  BY <1>1 DEF Tracked
<1>10. Current # OldKey
  BY DEF Current, OldKey
<1>11. \A o, p \in kept : o.address = p.address /\ o.deposed = p.deposed => o = p
  BY <1>1 DEF Tracked
<1>. HIDE DEF kept, gone, old
<1>12. Tracked(kept \cup arrived \cup old)
  <2>1. \A o \in kept \cup arrived \cup old : ObjectOK(o)
    BY <1>3, <1>6, <1>9
  <2>2. \A o, p \in kept \cup arrived \cup old : o.address = p.address /\ o.deposed = p.deposed => o = p
    BY <1>3, <1>6, <1>7, <1>8, <1>9, <1>10, <1>11
  <2>. QED  BY <2>1, <2>2 DEF Tracked
<1>. QED  BY <1>12 DEF kept, gone, old

(* Apply: with nothing left and nothing stopped, what is there is          *)
(* accounted for by the plan.                                              *)
LEMMA ApplyAccounts ==
    ASSUME TerraformInv, phase = "read", NEW arrived \in Arrivals({})
    PROVE  AppliedOK({ o \in objects : o.address \notin Addresses(plan) } \cup arrived
                       \cup UNION { Subject(c) : c \in { d \in plan.changes : Forgets(d) } })
<1>. DEFINE kept == { o \in objects : o.address \notin Addresses(plan) }
            free == UNION { Subject(c) : c \in { d \in plan.changes : Forgets(d) } }
<1>1. Tracked(objects) /\ ChangesOK(plan.changes, plan.prior) /\ plan.prior = objects
  BY DEF TerraformInv, Planned
<1>2. \A c \in plan.changes : ChangeOK(c, Addresses(plan), plan.prior)
  BY <1>1 DEF ChangesOK, Addresses
<1>3. \A c \in plan.changes : Sends(c) => \A o \in Brings(c, {}) : ObjectOK(o) /\ Delivers(c, o)
  <2>. SUFFICES ASSUME NEW c \in plan.changes, Sends(c), NEW o \in Brings(c, {})
                PROVE  ObjectOK(o) /\ Delivers(c, o)
    OBVIOUS
  <2>. QED  BY <1>2, BringsLemma
<1>4. \A o \in arrived : ObjectOK(o) /\ \E c \in plan.changes : Delivers(c, o)
  BY <1>3 DEF Arrivals
<1>5. \A c \in plan.changes : Sends(c) => \E o \in arrived : Delivers(c, o)
  BY <1>3 DEF Arrivals
<1>6. \A c \in plan.changes : Forgets(c) => \A o \in Subject(c) : o \in objects /\ LetsGo(c, o)
  <2>. SUFFICES ASSUME NEW c \in plan.changes, Forgets(c), NEW o \in Subject(c)
                PROVE  o \in objects /\ LetsGo(c, o)
    OBVIOUS
  <2>1. o \in objects /\ o.address = c.address /\ o.deposed = c.deposed
    BY DEF Subject
  <2>2. PICK p \in objects : p.address = c.address /\ p.deposed = c.deposed /\ c.before = Recorded(p)
    BY <1>1, <1>2 DEF ChangeOK, Shows
  <2>3. p = o
    BY <1>1, <2>1, <2>2 DEF Tracked
  <2>. QED  BY <2>1, <2>2, <2>3 DEF LetsGo
<1>7. \A c \in plan.changes : Forgets(c) => \E o \in Subject(c) : TRUE
  BY <1>1, <1>2 DEF ChangeOK, Shows, Subject
<1>8. \A o \in free : o \in objects /\ \E c \in plan.changes : LetsGo(c, o)
  BY <1>6
<1>9. \A c \in plan.changes : Forgets(c) => \E o \in free : LetsGo(c, o)
  BY <1>6, <1>7
<1>10. \A o \in kept : o \in objects /\ o.address \notin Addresses(plan)
  OBVIOUS
<1>11. \A o \in plan.prior : o.address \notin Addresses(plan) => o \in kept
  BY <1>1
<1>12. \A o \in objects : ObjectOK(o)
  BY <1>1 DEF Tracked
<1>. HIDE DEF kept, free
<1>13. AppliedOK(kept \cup arrived \cup free)
  BY <1>1, <1>4, <1>5, <1>8, <1>9, <1>10, <1>11, <1>12 DEF AppliedOK, Accounted
<1>. QED  BY <1>13 DEF kept, free

-----------------------------------------------------------------------------
(* The invariant holds at the start, and every step keeps it. *)
LEMMA InitInv == Init => TerraformInv
  BY DEF Init, TerraformInv, Tracked, Planned

(* What is planned is well formed, and nothing is read yet. *)
LEMMA PlanStep == TerraformInv /\ Plan => TerraformInv'
<1>. SUFFICES ASSUME TerraformInv, Plan PROVE TerraformInv'
  OBVIOUS
<1>1. PICK listed \in SUBSET Managed, later \in (IF HasDocument THEN BOOLEAN ELSE {FALSE}),
           will \in (IF HasDocument THEN Rendering ELSE {NoText}) :
        /\ \E made \in SUBSET listed : \E changes \in Changes(listed, made) :
              plan' = [kind |-> "plan", changes |-> changes, prior |-> objects, deferred |-> later, will |-> will]
        /\ rendered' = IF later THEN rendered ELSE will
  BY DEF Plan
<1>made. PICK made \in SUBSET listed : \E changes \in Changes(listed, made) :
          plan' = [kind |-> "plan", changes |-> changes, prior |-> objects, deferred |-> later, will |-> will]
  BY <1>1
<1>2. PICK changes \in Changes(listed, made) :
          plan' = [kind |-> "plan", changes |-> changes, prior |-> objects, deferred |-> later, will |-> will]
  BY <1>made
<1>3. /\ phase = "idle" /\ phase' = "planned" /\ workspace' = workspace /\ config' = config
      /\ objects' = objects /\ forgotten' = forgotten /\ grants' = grants /\ unread' = unread
  BY DEF Plan
<1>4. ChangesOK(changes, objects)
  BY ChangesLemma DEF TerraformInv
<1>5. plan' # NoPlan /\ plan'.changes = changes /\ plan'.prior = objects
      /\ plan'.deferred = later /\ plan'.will = will
  BY <1>2 DEF NoPlan
<1>6. Tracked(objects)' /\ Tracked(plan.prior)'
  BY <1>3, <1>5 DEF TerraformInv, Tracked, ObjectOK, Managed
<1>7. ChangesOK(plan.changes, plan.prior)'
  BY <1>3, <1>4, <1>5 DEF ChangesOK, ChangeOK, AfterOK, Shows, Managed
<1>8. ~plan'.deferred => rendered' = plan'.will
  BY <1>1, <1>5
<1>. QED  BY <1>3, <1>5, <1>6, <1>7, <1>8 DEF TerraformInv, Planned

(* What a plan was read as. *)
LEMMA ReadPlanStep == TerraformInv /\ ReadPlan => TerraformInv'
<1>. SUFFICES ASSUME TerraformInv, ReadPlan PROVE TerraformInv'
  OBVIOUS
<1>1. /\ phase = "planned" /\ phase' = "read" /\ workspace' = workspace /\ config' = config
      /\ objects' = objects /\ forgotten' = forgotten /\ rendered' = rendered /\ plan' = plan
  BY DEF ReadPlan
<1>2. (Tracked(objects) /\ Tracked(plan.prior))'
  BY <1>1 DEF TerraformInv, Planned, Tracked, ObjectOK, Managed
<1>3. ChangesOK(plan.changes, plan.prior)'
  BY <1>1 DEF TerraformInv, Planned, ChangesOK, ChangeOK, AfterOK, Shows, Managed
<1>4. /\ ~plan.deferred => rendered = plan.will
      /\ grants' = GrantsOf(config, Examined(OfPlan(plan)), Addresses(plan), plan.deferred, rendered)
      /\ unread' = Unread(OfPlan(plan))
  BY <1>1 DEF TerraformInv, ReadPlan
<1>5. PlanIsRead'
  BY <1>1, <1>4 DEF PlanIsRead
<1>. QED  BY <1>1, <1>2, <1>3, <1>5 DEF TerraformInv, Planned

(* What a state was read as. *)
LEMMA ReadStateStep == TerraformInv /\ ReadState => TerraformInv'
<1>. SUFFICES ASSUME TerraformInv, ReadState PROVE TerraformInv'
  OBVIOUS
<1>1. /\ phase = "idle" /\ phase' = "shown" /\ workspace' = workspace /\ config' = config
      /\ objects' = objects /\ forgotten' = forgotten /\ rendered' = rendered /\ plan' = plan
  BY DEF ReadState
<1>2. Tracked(objects)'
  BY <1>1 DEF TerraformInv, Tracked, ObjectOK, Managed
<1>3. StateIsRead'
  BY <1>1 DEF StateIsRead, ReadState
<1>. QED  BY <1>1, <1>2, <1>3 DEF TerraformInv, Planned

(* What an apply leaves is tracked, and, if it did not fail, deployed. *)
LEMMA ApplyStep == TerraformInv /\ Apply => TerraformInv'
<1>. SUFFICES ASSUME TerraformInv, Apply PROVE TerraformInv'
  OBVIOUS
<1>1. /\ phase = "read" /\ workspace' = workspace /\ config' = config
      /\ plan' = plan /\ grants' = grants /\ unread' = unread
      /\ forgotten' = UNION { Subject(c) : c \in { d \in plan.changes : Forgets(d) } }
  BY DEF Apply
<1>2. PICK left \in SUBSET MayLeave, stopped \in SUBSET MayStop :
        /\ \E arrived \in Arrivals(stopped) :
              objects' = { o \in objects : o.address \notin Addresses(plan) } \cup arrived
                            \cup { [o EXCEPT !.deposed = OldKey] : o \in UNION { Subject(c) : c \in left } }
        /\ phase' = IF left \cup stopped = {} THEN "applied" ELSE "failed"
  BY DEF Apply
<1>3. PICK arrived \in Arrivals(stopped) :
          objects' = { o \in objects : o.address \notin Addresses(plan) } \cup arrived
                        \cup { [o EXCEPT !.deposed = OldKey] : o \in UNION { Subject(c) : c \in left } }
  BY <1>2
<1>4. phase' \in {"applied", "failed"}
  BY <1>2
<1>5. Tracked(objects')
  BY <1>1, <1>3, ApplyTracks
<1>6. Tracked(objects)' /\ Tracked(plan.prior)'
  BY <1>1, <1>5 DEF TerraformInv, Planned, Tracked, ObjectOK, Managed
<1>7. ChangesOK(plan.changes, plan.prior)' /\ plan' # NoPlan
  BY <1>1 DEF TerraformInv, Planned, ChangesOK, ChangeOK, AfterOK, Shows, Managed
<1>8. PlanIsRead'
  <2>1. PlanIsRead
    BY <1>1 DEF TerraformInv
  <2>. QED  BY <1>1, <2>1 DEF PlanIsRead
<1>9. ASSUME phase' = "applied" PROVE AppliedOK(Deployed)'
  <2>1. left = {} /\ stopped = {}
    BY <1>2, <1>9
  <2>2. (objects \cup forgotten)' = { o \in objects : o.address \notin Addresses(plan) } \cup arrived
                        \cup UNION { Subject(c) : c \in { d \in plan.changes : Forgets(d) } }
    BY <1>1, <1>3, <2>1
  <2>3. AppliedOK(Deployed')
    BY <1>1, <1>3, <2>1, <2>2, ApplyAccounts DEF Deployed
  <2>. QED  BY <1>1, <2>3 DEF AppliedOK, Accounted, ObjectOK, Managed
<1>. QED  BY <1>1, <1>4, <1>6, <1>7, <1>8, <1>9 DEF TerraformInv, Planned

(* With the plan put away nothing of it is left. *)
LEMMA PutAwayStep == TerraformInv /\ PutAway => TerraformInv'
<1>. SUFFICES ASSUME TerraformInv, PutAway PROVE TerraformInv'
  OBVIOUS
<1>1. /\ phase' = "idle" /\ plan' = NoPlan /\ grants' = {} /\ forgotten' = {}
      /\ workspace' = workspace /\ config' = config /\ objects' = objects
  BY DEF PutAway
<1>2. Tracked(objects)'
  BY <1>1 DEF TerraformInv, Tracked, ObjectOK, Managed
<1>. QED  BY <1>1, <1>2 DEF TerraformInv, Planned

(* A step that changes nothing. *)
LEMMA StutterStep == TerraformInv /\ UNCHANGED vars => TerraformInv'
<1>. SUFFICES ASSUME TerraformInv, UNCHANGED vars PROVE TerraformInv'
  OBVIOUS
<1>1. /\ workspace' = workspace /\ config' = config /\ objects' = objects /\ forgotten' = forgotten
      /\ rendered' = rendered /\ plan' = plan /\ phase' = phase /\ grants' = grants /\ unread' = unread
  BY DEF vars
<1>2. Tracked(objects)' /\ (Tracked(plan.prior) => Tracked(plan.prior)')
  BY <1>1 DEF TerraformInv, Tracked, ObjectOK, Managed
<1>3. ChangesOK(plan.changes, plan.prior) => ChangesOK(plan.changes, plan.prior)'
  BY <1>1 DEF ChangesOK, ChangeOK, AfterOK, Shows, Managed
<1>4. (PlanIsRead => PlanIsRead') /\ (StateIsRead => StateIsRead')
  BY <1>1 DEF PlanIsRead, StateIsRead
<1>5. AppliedOK(Deployed) => AppliedOK(Deployed)'
  BY <1>1 DEF AppliedOK, Accounted, ObjectOK, Managed, Deployed
<1>. QED  BY <1>1, <1>2, <1>3, <1>4, <1>5 DEF TerraformInv, Planned

(* Whatever Terraform does and whatever is read, the invariant holds. *)
LEMMA InvHolds == Spec => []TerraformInv
<1>1. TerraformInv /\ [Next]_vars => TerraformInv'
  BY PlanStep, ReadPlanStep, ReadStateStep, ApplyStep, PutAwayStep, StutterStep DEF Next
<1>. QED  BY InitInv, <1>1, PTL DEF Spec
-----------------------------------------------------------------------------
(***************************************************************************)
(* The reader.  An instance stands for an object if it is of the same      *)
(* address and place and shows its text, or is widened.                    *)
(***************************************************************************)
StandsFor(i, o) ==
    /\ i.address = o.address /\ i.place = o.deposed
    /\ Mapped(TypeOf(o.address)) => Widened(i) \/ i.value.text = o.text

Tellable == Deployed \cup (IF plan = NoPlan THEN {} ELSE plan.prior)

(* What the instances of a document are, once it says what is there: one   *)
(* for each object deployed and, those of deletions aside, no others; each *)
(* provider under a key of its own; and each pool known, or made with its  *)
(* provider.                                                               *)
Faithful(instances) ==
    /\ \A o \in Deployed : ObjectOK(o)
    /\ \A o \in Deployed : \E i \in instances : StandsFor(i, o)
    /\ \A i \in instances : i.side # "deleted" => \E o \in Deployed : StandsFor(i, o)
    /\ \A i, j \in instances : IsProvider(i.address) /\ KeyOf(i) = KeyOf(j) => i = j
    /\ \A i \in instances : \E o \in Tellable : o.address = i.address
    /\ \A i \in instances : i.value.pooled \/
          (plan # NoPlan /\ \E c \in plan.changes : c.address = i.address /\ Sends(c) /\ ~c.after.pooled)

(* Recorded: an object shown is stood for. *)
LEMMA ShownStands ==
    ASSUME NEW w \in Workspace, workspace = w.addresses, NEW o, ObjectOK(o),
           NEW i, i.address = o.address, i.place = o.deposed, i.value = Recorded(o)
    PROVE  StandsFor(i, o) /\ i.value.pooled /\ (o.bare \/ i.value.target = "stated") /\ i.value.marks = {}
<1>1. CASE o.bare
  <2>1. i.value.null = RequiredOf(TypeOf(o.address)) /\ i.value.pooled /\ i.value.marks = {}
    BY <1>1 DEF Recorded, Value
  <2>2. ASSUME Mapped(TypeOf(o.address)) PROVE Widened(i)
    <3>1. RequiredOf(TypeOf(o.address)) # {}
      BY <1>1, <2>2, ManagedLemma, TypeAssumption DEF ObjectOK
    <3>2. PICK a \in Table[TypeOf(o.address)].attributes : a.required /\ a.name \in RequiredOf(TypeOf(o.address))
      BY <2>2, <3>1 DEF RequiredOf
    <3>. QED  BY <2>1, <3>2 DEF Widened
  <2>. QED  BY <1>1, <2>1, <2>2 DEF StandsFor
<1>2. CASE ~o.bare
  BY <1>2, RecordedLemma DEF StandsFor, Value
<1>. QED  BY <1>1, <1>2

(* consults: every mark that bears is one the reader reads. *)
LEMMA BearsLemma ==
    ASSUME NEW marks \in SUBSET Seq(STRING), NEW path \in marks, NEW a, Bears(a, path)
    PROVE  Consulted(a, marks) # {}
<1>1. CASE <<>> \in marks
  <2>1. Paths(marks, a.name) = {<<a.name>>}
    BY <1>1 DEF Paths
  <2>2. Tail(<<a.name>>) = <<>>
    OBVIOUS
  <2>3. Consults(a, <<a.name>>)
    BY <2>2 DEF Consults
  <2>. QED  BY <2>1, <2>3 DEF Consulted
<1>2. CASE <<>> \notin marks
  <2>1. path \in Seq(STRING) /\ path # <<>>
    BY <1>2
  <2>2. path[1] = a.name
    BY <2>1 DEF Bears
  <2>3. path \in Paths(marks, a.name)
    BY <1>2, <2>2 DEF Paths
  <2>. DEFINE below == Tail(path)
  <2>4. below \in Seq(STRING) /\ Len(below) = Len(path) - 1 /\ \A n \in 1..Len(below) : below[n] = path[n + 1]
    BY <2>1
  <2>. HIDE DEF below
  <2>5. below # <<>> => Tail(below) \in Seq(STRING) /\ Len(Tail(below)) = Len(below) - 1
                        /\ \A n \in 1..Len(Tail(below)) : Tail(below)[n] = below[n + 1]
    BY <2>4
  <2>6. Len(path) \in Nat /\ Len(below) \in Nat
    BY <2>1, <2>4
  <2>. DEFINE rest == IF below # <<>> /\ below[1] \in Key THEN Tail(below) ELSE below
  <2>7. a.leaves = {} \/ rest = <<>> \/ rest[1] \in a.leaves
    <3>1. CASE a.leaves = {}
      BY <3>1
    <3>2. CASE Len(path) = 1
      BY <2>4, <2>6, <3>2
    <3>3. CASE Len(path) = 2 /\ path[2] \in Key
      <4>1. Len(below) = 1 /\ below[1] = path[2]
        BY <2>4, <2>6, <3>3
      <4>2. below # <<>>
        BY <2>4, <4>1
      <4>3. rest = Tail(below)
        BY <3>3, <4>1, <4>2
      <4>4. Tail(below) \in Seq(STRING) /\ Len(Tail(below)) = 0
        BY <2>5, <4>1, <4>2
      <4>5. ASSUME NEW s \in Seq(STRING), Len(s) = 0 PROVE s = <<>>
        BY <4>5
      <4>. QED  BY <4>3, <4>4, <4>5
    <3>4. CASE Len(path) > 1 /\ path[2] \in a.leaves \ Key
      <4>1. below[1] = path[2]
        BY <2>4, <2>6, <3>4
      <4>. QED  BY <3>4, <4>1
    <3>5. CASE Len(path) > 2 /\ path[2] \in Key /\ path[3] \in a.leaves
      <4>1. below # <<>> /\ below[1] = path[2] /\ below[2] = path[3] /\ Len(below) > 1
        BY <2>4, <2>6, <3>5
      <4>2. rest[1] = below[2]
        BY <2>5, <2>6, <3>5, <4>1
      <4>. QED  BY <3>5, <4>1, <4>2
    <3>. QED  BY <2>1, <3>1, <3>2, <3>3, <3>4, <3>5 DEF Bears
  <2>8. Consults(a, path)
    BY <2>7 DEF Consults, below
  <2>. QED  BY <2>3, <2>8 DEF Consulted
<1>. QED  BY <1>1, <1>2

(* A change's after stands for what it delivers. *)
LEMMA AfterStands ==
    ASSUME NEW w \in Workspace, workspace = w.addresses, NEW c, ChangeOK(c, Addresses(plan), plan.prior),
           NEW o, Delivers(c, o), NEW i, i.address = c.address, i.place = c.deposed, i.value = c.after
    PROVE  StandsFor(i, o)
<1>1. Sends(c) /\ o.address = c.address /\ o.deposed = Current /\ o.text \in Outcomes(c)
  BY DEF Delivers
<1>2. c.deposed = Current /\ AfterOK(c, Addresses(plan)) /\ c.address \in Managed
  BY <1>1 DEF ChangeOK
<1>3. ASSUME Mapped(TypeOf(o.address)), c.after.text # o.text PROVE Widened(i)
  <2>1. c.after.marks \ Mute # {}
    BY <1>1, <1>3 DEF Outcomes
  <2>2. c.after.marks \in Marks[TypeOf(c.address)]
    BY <1>2, <2>1 DEF AfterOK
  <2>3. TypeOf(c.address) \in DOMAIN Text
    BY <1>2, ManagedLemma
  <2>4. PICK path \in c.after.marks, a \in Table[TypeOf(c.address)].attributes : Bears(a, path)
    BY <1>1, <1>3, <2>1, <2>2, <2>3, TypeAssumption
  <2>5. Consulted(a, c.after.marks) # {}
    BY <2>2, <2>3, <2>4, TypeAssumption, BearsLemma
  <2>6. a \in UnknownAttributes(i)
    BY <1>1, <2>4, <2>5 DEF UnknownAttributes
  <2>. QED  BY <2>6 DEF Widened
<1>. QED  BY <1>1, <1>2, <1>3 DEF StandsFor

(* parseChange: the object read of a change that sends, and of one that    *)
(* removes or forgets.                                                     *)
Sending(c)  == Instance(c.address, c.deposed, c.deposed, c.after, "planned")
Removing(c) ==
    Instance(c.address, c.deposed, c.deposed, [c.before EXCEPT !.marks = {}],
             IF Forgets(c) THEN "forgotten" ELSE "deleted")

(* A change is read as what it sends, what it removes, or both. *)
LEMMA ObjectsLemma ==
    ASSUME NEW c
    PROVE  /\ Sends(c) => Sending(c) \in ObjectsOf(c)
           /\ Forgets(c) => Removing(c) \in ObjectsOf(c)
           /\ \A i \in ObjectsOf(c) : \/ Sends(c) /\ i = Sending(c)
                                      \/ (~Sends(c) \/ Forgets(c)) /\ i = Removing(c)
  BY DEF ObjectsOf, Sending, Removing, Sends

(* The members of the instance a change sends. *)
LEMMA SendingFields ==
    ASSUME NEW c
    PROVE  /\ Sending(c).address = c.address /\ Sending(c).deposed = c.deposed /\ Sending(c).place = c.deposed
           /\ Sending(c).value = c.after /\ Sending(c).side = "planned" /\ From(Sending(c).side) = "after"
  BY DEF Sending, Instance, From

(* A value with no marks stays as it is. *)
LEMMA UnmarkedLemma ==
    ASSUME NEW text, NEW null, NEW target, NEW named, NEW pooled
    PROVE  [Value(text, null, {}, target, named, pooled) EXCEPT !.marks = {}] = Value(text, null, {}, target, named, pooled)
  BY DEF Value

(* The members of the instance a change removes. *)
LEMMA RemovingFields ==
    ASSUME NEW c, NEW o, c.before = Recorded(o)
    PROVE  /\ Removing(c).address = c.address /\ Removing(c).deposed = c.deposed /\ Removing(c).place = c.deposed
           /\ Removing(c).value = Recorded(o) /\ From(Removing(c).side) = "before"
           /\ Forgets(c) <=> Removing(c).side # "deleted"
<1>1. \E text, null, target : Recorded(o) = Value(text, null, {}, target, TRUE, TRUE)
  BY DEF Recorded
<1>2. PICK text, null, target, named, pooled : Recorded(o) = Value(text, null, {}, target, named, pooled)
  BY <1>1, Zenon
<1>3. [Recorded(o) EXCEPT !.marks = {}] = Recorded(o)
  BY <1>2, UnmarkedLemma
<1>4. [c.before EXCEPT !.marks = {}] = Recorded(o)
  BY <1>3
<1>. QED  BY <1>4 DEF Removing, Instance, From

Held(o) == Instance(o.address, Current, o.deposed, Recorded(o), "held")

(* The members of an instance of the prior state. *)
LEMMA HeldFields ==
    ASSUME NEW o
    PROVE  /\ Held(o).address = o.address /\ Held(o).deposed = Current /\ Held(o).place = o.deposed
           /\ Held(o).value = Recorded(o) /\ Held(o).side = "held" /\ From(Held(o).side) = "prior_state"
  BY DEF Held, Instance, From

(* Every instance of a plan is of a change, or held. *)
LEMMA OfPlanLemma ==
    ASSUME NEW p
    PROVE  /\ \A c \in p.changes : ObjectsOf(c) \subseteq OfPlan(p)
           /\ \A o \in p.prior : o.address \notin Addresses(p) => Held(o) \in OfPlan(p)
           /\ \A i \in OfPlan(p) : \/ \E c \in p.changes : i \in ObjectsOf(c)
                                   \/ \E o \in p.prior : o.address \notin Addresses(p) /\ i = Held(o)
  BY DEF OfPlan, Shown, Held

(* A plan that was applied says what is there. *)
LEMMA PlanIsFaithful ==
    ASSUME TerraformInv, phase = "applied"
    PROVE  Faithful(OfPlan(plan))
<1>. DEFINE I == OfPlan(plan)
<1>1. PICK w \in Workspace : workspace = w.addresses /\ config = w.config
  BY DEF TerraformInv
<1>2. Tracked(plan.prior) /\ ChangesOK(plan.changes, plan.prior) /\ AppliedOK(Deployed) /\ plan # NoPlan
  BY DEF TerraformInv, Planned
<1>3. \A c \in plan.changes : ChangeOK(c, Addresses(plan), plan.prior)
  BY <1>2 DEF ChangesOK, Addresses
<1>4. \A o \in Deployed : ObjectOK(o) /\ Accounted(o)
  BY <1>2 DEF AppliedOK
<1>5. \A o \in plan.prior : ObjectOK(o)
  BY <1>2 DEF Tracked
<1>6. \A o \in Deployed : \E i \in I : StandsFor(i, o)
  <2>. TAKE o \in Deployed
  <2>1. CASE o \in plan.prior /\ o.address \notin Addresses(plan)
    <3>1. Held(o) \in I
      BY <2>1, OfPlanLemma
    <3>2. StandsFor(Held(o), o)
      BY <1>1, <1>4, HeldFields, ShownStands
    <3>. QED  BY <3>1, <3>2
  <2>2. ASSUME NEW c \in plan.changes, Delivers(c, o) PROVE \E i \in I : StandsFor(i, o)
    <3>1. Sending(c) \in I
      BY <2>2, ObjectsLemma, OfPlanLemma DEF Delivers
    <3>2. StandsFor(Sending(c), o)
      BY <1>1, <1>3, <2>2, SendingFields, AfterStands
    <3>. QED  BY <3>1, <3>2
  <2>3. ASSUME NEW c \in plan.changes, LetsGo(c, o) PROVE \E i \in I : StandsFor(i, o)
    <3>1. Removing(c) \in I
      BY <2>3, ObjectsLemma, OfPlanLemma DEF LetsGo
    <3>2. StandsFor(Removing(c), o)
      BY <1>1, <1>4, <2>3, RemovingFields, ShownStands DEF LetsGo
    <3>. QED  BY <3>1, <3>2
  <2>. QED  BY <1>4, <2>1, <2>2, <2>3 DEF Accounted
<1>7. \A i \in I : i.side # "deleted" => \E o \in Deployed : StandsFor(i, o)
  <2>. SUFFICES ASSUME NEW i \in I, i.side # "deleted" PROVE \E o \in Deployed : StandsFor(i, o)
    OBVIOUS
  <2>1. ASSUME NEW c \in plan.changes, Sends(c), i = Sending(c) PROVE \E o \in Deployed : StandsFor(i, o)
    <3>1. PICK o \in Deployed : Delivers(c, o)
      BY <1>2, <2>1 DEF AppliedOK
    <3>. QED  BY <1>1, <1>3, <2>1, <3>1, SendingFields, AfterStands
  <2>2. ASSUME NEW c \in plan.changes, ~Sends(c) \/ Forgets(c), i = Removing(c)
        PROVE  \E o \in Deployed : StandsFor(i, o)
    <3>1. PICK p \in plan.prior : c.before = Recorded(p)
      BY <1>3, <2>2 DEF ChangeOK, Shows
    <3>2. Forgets(c)
      BY <2>2, <3>1, RemovingFields
    <3>3. PICK o \in Deployed : LetsGo(c, o)
      BY <1>2, <3>2 DEF AppliedOK
    <3>. QED  BY <1>1, <1>4, <2>2, <3>3, RemovingFields, ShownStands DEF LetsGo
  <2>3. ASSUME NEW o \in plan.prior, o.address \notin Addresses(plan), i = Held(o)
        PROVE  \E p \in Deployed : StandsFor(i, p)
    <3>1. o \in Deployed
      BY <1>2, <2>3 DEF AppliedOK
    <3>. QED  BY <1>1, <1>5, <2>3, <3>1, HeldFields, ShownStands
  <2>. QED  BY <2>1, <2>2, <2>3, ObjectsLemma, OfPlanLemma
<1>8. \A i \in I : \E o \in Tellable : o.address = i.address
  <2>. TAKE i \in I
  <2>1. ASSUME NEW c \in plan.changes, Sends(c), i = Sending(c) PROVE \E o \in Tellable : o.address = i.address
    <3>1. PICK o \in Deployed : Delivers(c, o)
      BY <1>2, <2>1 DEF AppliedOK
    <3>. QED  BY <2>1, <3>1, SendingFields DEF Delivers, Tellable
  <2>2. ASSUME NEW c \in plan.changes, ~Sends(c) \/ Forgets(c), i = Removing(c)
        PROVE  \E o \in Tellable : o.address = i.address
    <3>1. PICK p \in plan.prior : p.address = c.address /\ c.before = Recorded(p)
      BY <1>3, <2>2 DEF ChangeOK, Shows
    <3>. QED  BY <1>2, <2>2, <3>1, RemovingFields DEF Tellable
  <2>3. ASSUME NEW o \in plan.prior, i = Held(o) PROVE \E p \in Tellable : p.address = i.address
    BY <1>2, <2>3, HeldFields DEF Tellable
  <2>. QED  BY <2>1, <2>2, <2>3, ObjectsLemma, OfPlanLemma
<1>9. \A i \in I : i.value.pooled \/ \E c \in plan.changes : c.address = i.address /\ Sends(c) /\ ~c.after.pooled
  <2>. TAKE i \in I
  <2>1. ASSUME NEW c \in plan.changes, Sends(c), i = Sending(c)
        PROVE  i.value.pooled \/ (c.address = i.address /\ Sends(c) /\ ~c.after.pooled)
    BY <2>1, SendingFields
  <2>2. ASSUME NEW c \in plan.changes, ~Sends(c) \/ Forgets(c), i = Removing(c) PROVE i.value.pooled
    <3>1. PICK p \in plan.prior : p.address = c.address /\ p.deposed = c.deposed /\ c.before = Recorded(p)
      BY <1>3, <2>2 DEF ChangeOK, Shows
    <3>. QED  BY <1>1, <1>5, <2>2, <3>1, RemovingFields, ShownStands
  <2>3. ASSUME NEW o \in plan.prior, i = Held(o) PROVE i.value.pooled
    BY <1>1, <1>5, <2>3, HeldFields, ShownStands
  <2>. QED  BY <2>1, <2>2, <2>3, ObjectsLemma, OfPlanLemma
<1>10. \A i, j \in I : IsProvider(i.address) /\ KeyOf(i) = KeyOf(j) => i = j
  <2>. SUFFICES ASSUME NEW i \in I, NEW j \in I, IsProvider(i.address), KeyOf(i) = KeyOf(j) PROVE i = j
    OBVIOUS
  <2>1. i.address = j.address /\ i.deposed = j.deposed /\ From(i.side) = From(j.side)
    BY DEF KeyOf
  <2>2. \A k \in I : \/ \E c \in plan.changes : /\ k = Sending(c) /\ From(k.side) = "after"
                                                /\ k.address = c.address /\ k.deposed = c.deposed
                     \/ \E c \in plan.changes : /\ k = Removing(c) /\ From(k.side) = "before"
                                                /\ k.address = c.address /\ k.deposed = c.deposed
                     \/ \E o \in plan.prior : k = Held(o) /\ From(k.side) = "prior_state" /\ k.address = o.address
    <3>. TAKE k \in I
    <3>1. \/ \E c \in plan.changes : k \in ObjectsOf(c)
          \/ \E o \in plan.prior : k = Held(o)
      BY OfPlanLemma
    <3>2. ASSUME NEW o \in plan.prior, k = Held(o)
          PROVE  k = Held(o) /\ From(k.side) = "prior_state" /\ k.address = o.address
      BY <3>2, HeldFields
    <3>3. ASSUME NEW c \in plan.changes, Sends(c), k = Sending(c)
          PROVE  From(k.side) = "after" /\ k.address = c.address /\ k.deposed = c.deposed
      BY <3>3, SendingFields
    <3>4. ASSUME NEW c \in plan.changes, ~Sends(c) \/ Forgets(c), k = Removing(c)
          PROVE  From(k.side) = "before" /\ k.address = c.address /\ k.deposed = c.deposed
      <4>1. PICK p \in plan.prior : c.before = Recorded(p)
        BY <1>3, <3>4 DEF ChangeOK, Shows
      <4>. QED  BY <3>4, <4>1, RemovingFields
    <3>. QED  BY <3>1, <3>2, <3>3, <3>4, ObjectsLemma
  <2>3. \A c, d \in plan.changes : c.address = d.address /\ c.deposed = d.deposed => c = d
    BY <1>2 DEF ChangesOK
  <2>4. \A o, p \in plan.prior : o.address = i.address /\ p.address = i.address => o = p
    <3>. SUFFICES ASSUME NEW o \in plan.prior, NEW p \in plan.prior, o.address = i.address, p.address = i.address
                  PROVE  o = p
      OBVIOUS
    <3>1. o.deposed = Current /\ p.deposed = Current
      BY <1>1, <1>5, ManagedLemma, TypeAssumption DEF ObjectOK, IsProvider
    <3>. QED  BY <1>2, <3>1 DEF Tracked
  <2>5. "after" # "before" /\ "after" # "prior_state" /\ "before" # "prior_state"
    OBVIOUS
  <2>. QED  BY <2>1, <2>2, <2>3, <2>4, <2>5
<1>. QED  BY <1>2, <1>4, <1>6, <1>7, <1>8, <1>9, <1>10 DEF Faithful

(* A state that was shown says what is there. *)
LEMMA StateIsFaithful ==
    ASSUME TerraformInv, phase = "shown"
    PROVE  Faithful(Shown(objects, "recorded"))
<1>. DEFINE I == Shown(objects, "recorded")
            of(o) == Instance(o.address, Current, o.deposed, Recorded(o), "recorded")
<1>1. PICK w \in Workspace : workspace = w.addresses /\ config = w.config
  BY DEF TerraformInv
<1>2. Tracked(objects) /\ Deployed = objects /\ Tellable = objects
  BY DEF TerraformInv, Deployed, Tellable
<1>3. \A o \in objects : ObjectOK(o) /\ of(o) \in I
  BY <1>2 DEF Tracked, Shown
<1>4. \A i \in I : \E o \in objects : i = of(o)
  BY DEF Shown
<1>5. \A o : /\ of(o).address = o.address /\ of(o).deposed = Current /\ of(o).place = o.deposed
             /\ of(o).value = Recorded(o) /\ of(o).side = "recorded"
  BY DEF Instance
<1>6. \A o \in objects : StandsFor(of(o), o) /\ of(o).value.pooled
  <2>. HIDE DEF of
  <2>. QED  BY <1>1, <1>3, <1>5, ShownStands
<1>. HIDE DEF of
<1>7. \A i, j \in I : IsProvider(i.address) /\ KeyOf(i) = KeyOf(j) => i = j
  <2>. SUFFICES ASSUME NEW i \in I, NEW j \in I, IsProvider(i.address), KeyOf(i) = KeyOf(j) PROVE i = j
    OBVIOUS
  <2>1. PICK o \in objects : i = of(o)
    BY <1>4
  <2>2. PICK p \in objects : j = of(p)
    BY <1>4
  <2>3. o.address = p.address /\ o.address = i.address
    BY <1>5, <2>1, <2>2 DEF KeyOf
  <2>4. o.deposed = Current /\ p.deposed = Current
    BY <1>1, <1>3, <2>3, ManagedLemma, TypeAssumption DEF ObjectOK, IsProvider
  <2>. QED  BY <1>2, <2>1, <2>2, <2>3, <2>4 DEF Tracked
<1>8. \A i \in I : \E o \in objects : StandsFor(i, o) /\ o.address = i.address /\ i.value.pooled
  BY <1>4, <1>5, <1>6
<1>. HIDE DEF I
<1>9. Faithful(I)
  BY <1>2, <1>3, <1>6, <1>7, <1>8 DEF Faithful
<1>. QED  BY <1>9 DEF I
-----------------------------------------------------------------------------
(* What a grant says of the instance it is of. *)
LEMMA PlaceFields ==
    ASSUME NEW i
    PROVE  Place(i).address = i.address /\ Place(i).place = i.place /\ Place(i).side = i.side
  BY DEF Place

(* The members of a grant. *)
LEMMA GrantFields ==
    ASSUME NEW i, NEW via, NEW who, NEW admits, NEW exact, NEW target, NEW rs,
           NEW g, g = Grant(i, via, who, admits, exact, target, rs)
    PROVE  /\ g.of = Place(i) /\ g.via = via /\ g.who = who /\ g.admits = admits
           /\ g.exact = exact /\ g.target = target /\ g.renderings = rs
  BY DEF Grant

(* The three shapes a grant has. *)
LEMMA EverythingFields ==
    ASSUME NEW i, NEW target, NEW rs, NEW g, g = Everything(i, target, rs)
    PROVE  /\ g.of = Place(i) /\ g.via = NoVia /\ g.who = Who /\ g.admits = Who
           /\ ~g.exact /\ g.target = target /\ g.renderings = rs
<1>1. \E exact : ~exact /\ g = Grant(i, NoVia, Who, Who, exact, target, rs)
  BY Zenon DEF Everything
<1>2. PICK exact : ~exact /\ g = Grant(i, NoVia, Who, Who, exact, target, rs)
  BY <1>1, Zenon
<1>3. /\ g.of = Place(i) /\ g.via = NoVia /\ g.who = Who /\ g.admits = Who
      /\ g.exact = exact /\ g.target = target /\ g.renderings = rs
  BY <1>2, GrantFields
<1>. QED  BY <1>2, <1>3, Zenon

(* A grant of nobody. *)
LEMMA NobodyFields ==
    ASSUME NEW i, NEW target, NEW g, g = Nobody(i, target)
    PROVE  g.of = Place(i) /\ g.via = NoVia /\ g.admits = {} /\ g.target = target /\ g.renderings = {}
<1>1. PICK exact : g = Grant(i, NoVia, Who, {}, exact, target, {})
  BY Zenon DEF Nobody
<1>. QED  BY <1>1, GrantFields

(* A grant that bounds nobody. *)
LEMMA UnboundedFields ==
    ASSUME NEW i, NEW via, NEW who, NEW target, NEW g, g = Unbounded(i, via, who, target)
    PROVE  /\ g.of = Place(i) /\ g.via = via /\ g.who = who /\ g.admits = Who
           /\ ~g.exact /\ g.target = target /\ g.renderings = {}
<1>1. \E exact : ~exact /\ g = Grant(i, via, who, Who, exact, target, {})
  BY Zenon DEF Unbounded
<1>2. PICK exact : ~exact /\ g = Grant(i, via, who, Who, exact, target, {})
  BY <1>1, Zenon
<1>3. /\ g.of = Place(i) /\ g.via = via /\ g.who = who /\ g.admits = Who
      /\ g.exact = exact /\ g.target = target /\ g.renderings = {}
  BY <1>2, GrantFields
<1>. QED  BY <1>2, <1>3, Zenon

(* everything, roleGrants, credentialGrants, readProvider. *)
LEMMA GrantOfFields ==
    ASSUME NEW i, NEW target, NEW rs, NEW g, g = GrantOf(i, target, rs)
    PROVE  /\ g.of = Place(i) /\ g.via = NoVia /\ g.target = target /\ g.renderings \subseteq rs
           /\ Unreadable(i) => g.admits = Who /\ ~g.exact
           /\ ~Unreadable(i) /\ i.value.text.kind = "nothing" => g.admits = {}
           /\ ~Unreadable(i) /\ i.value.text.kind = "read" =>
                 g.admits = i.value.text.admits /\ g.exact = i.value.text.exact
<1>1. CASE Unreadable(i)
  <2>1. PICK r : r \subseteq rs /\ g = Everything(i, target, r)
    BY <1>1 DEF GrantOf, Unreadable
  <2>. QED  BY <1>1, <2>1, EverythingFields
<1>2. CASE ~Unreadable(i) /\ i.value.text.kind = "nothing"
  <2>1. g = Nobody(i, target)
    BY <1>2, Zenon DEF GrantOf, Unreadable
  <2>. HIDE DEF GrantOf
  <2>2. g.of = Place(i) /\ g.via = NoVia /\ g.admits = {} /\ g.target = target /\ g.renderings = {}
    BY <2>1, NobodyFields
  <2>3. i.value.text.kind # "read"
    BY <1>2
  <2>4. g.renderings \subseteq rs
    BY <2>2
  <2>. QED  BY <1>2, <2>2, <2>3, <2>4, Zenon
<1>3. CASE ~Unreadable(i) /\ i.value.text.kind # "nothing"
  <2>1. g = Grant(i, NoVia, Who, i.value.text.admits, i.value.text.exact, target, {})
    BY <1>3, Zenon DEF GrantOf, Unreadable
  <2>2. /\ g.of = Place(i) /\ g.via = NoVia /\ g.admits = i.value.text.admits
        /\ g.exact = i.value.text.exact /\ g.target = target /\ g.renderings = {}
    BY <2>1, GrantFields
  <2>3. g.renderings \subseteq rs
    BY <2>2
  <2>. QED  BY <1>3, <2>2, <2>3, Zenon
<1>. QED  BY <1>1, <1>2, <1>3, Zenon

(* bind: a member met with a provider. *)
LEMMA BindOneFields ==
    ASSUME NEW i, NEW p, NEW m, NEW target, NEW g, g = Bind(i, p, m, target)
    PROVE  /\ g.of = Place(i) /\ g.via = Place(p) /\ g.who = m.who /\ g.target = target /\ g.renderings = {}
           /\ Unreadable(p) => g.admits = Who /\ ~g.exact
           /\ ~Unreadable(p) => /\ g.admits = p.value.text.admits \cap m.who
                                /\ g.exact => p.value.text.exact /\ p.value.named
<1>1. CASE Unreadable(p)
  <2>1. g = Unbounded(i, Place(p), m.who, target)
    BY <1>1, Zenon DEF Bind
  <2>. QED  BY <1>1, <2>1, UnboundedFields
<1>2. CASE ~Unreadable(p)
  <2>. DEFINE exact == p.value.text.exact /\ p.value.named
  <2>1. g = Grant(i, Place(p), m.who, p.value.text.admits \cap m.who, exact, target, {})
    BY <1>2, Zenon DEF Bind
  <2>. HIDE DEF exact
  <2>2. /\ g.of = Place(i) /\ g.via = Place(p) /\ g.who = m.who /\ g.admits = p.value.text.admits \cap m.who
        /\ g.exact = exact /\ g.target = target /\ g.renderings = {}
    BY <2>1, GrantFields
  <2>. USE DEF exact
  <2>. QED  BY <1>2, <2>2, Zenon
<1>. QED  BY <1>1, <1>2, Zenon

(* bindingGrants: everything, nobody, a member alone, or one met with a    *)
(* provider.                                                               *)
LEMMA BindingCases ==
    ASSUME NEW i, NEW providers, NEW target, NEW g \in BindingGrants(i, providers, target)
    PROVE  \/ Unreadable(i) /\ g = Everything(i, target, {})
           \/ ~Unreadable(i) /\ i.value.text.members = {} /\ g = Nobody(i, target)
           \/ ~Unreadable(i) /\ \E m \in i.value.text.members : g = Unbounded(i, NoVia, m.who, target)
           \/ ~Unreadable(i) /\ \E m \in i.value.text.members : \E p \in providers :
                 Binds(p, m) /\ g = Bind(i, p, m, target)
<1>1. CASE Unreadable(i)
  BY <1>1, Zenon DEF BindingGrants
<1>2. CASE ~Unreadable(i) /\ i.value.text.members = {}
  BY <1>2, Zenon DEF BindingGrants
<1>3. CASE ~Unreadable(i) /\ i.value.text.members # {}
  <2>1. PICK m \in i.value.text.members : g \in MemberGrants(i, m, providers, target)
    BY <1>3, Zenon DEF BindingGrants
  <2>2. g = Unbounded(i, NoVia, m.who, target) \/ \E p \in providers : Binds(p, m) /\ g = Bind(i, p, m, target)
    BY <2>1, Zenon DEF MemberGrants
  <2>. QED  BY <1>3, <2>2, Zenon
<1>. QED  BY <1>1, <1>2, <1>3, Zenon

(* Every grant of a binding is of its instance and target. *)
LEMMA BindFields ==
    ASSUME NEW i, NEW providers, NEW target, NEW g \in BindingGrants(i, providers, target)
    PROVE  g.of = Place(i) /\ g.target = target /\ g.renderings = {}
  BY BindingCases, EverythingFields, NobodyFields, UnboundedFields, BindOneFields

(* providers: the reading under a key is of the key's address. *)
LEMMA ReadingLemma ==
    ASSUME NEW instances, NEW i \in instances
    PROVE  ReadingFor(i, instances) \in instances /\ KeyOf(ReadingFor(i, instances)) = KeyOf(i)
<1>. DEFINE same == { j \in instances : KeyOf(j) = KeyOf(i) }
            last(j) == \A k \in same : j.place = Current => k.place = Current
<1>1. i \in same
  OBVIOUS
<1>2. \E j \in same : last(j)
  <2>1. CASE \E j \in same : j.place # Current
    BY <2>1
  <2>2. CASE \A j \in same : j.place = Current
    BY <1>1, <2>2
  <2>. QED  BY <2>1, <2>2
<1>3. ReadingFor(i, instances) = CHOOSE j \in same : last(j)
  BY DEF ReadingFor
<1>. QED  BY <1>2, <1>3

(* A key holds the address. *)
LEMMA KeyLemma ==
    ASSUME NEW i, NEW j, KeyOf(i) = KeyOf(j)
    PROVE  i.address = j.address
  BY DEF KeyOf

(* Every grant is of an instance read, resolved for its target; a          *)
(* rendering is attached only where the plan settles it.                   *)
LEMMA GrantsLemma ==
    ASSUME NEW conf, NEW instances, NEW addresses, NEW deferred, NEW prior,
           NEW g \in GrantsOf(conf, instances, addresses, deferred, prior)
    PROVE  \E i \in instances :
              /\ g.of.address = i.address /\ g.target = ResolveTarget(conf, i, addresses)
              /\ g.renderings \subseteq (IF deferred THEN {} ELSE {prior})
<1>1. PICK i \in instances : g \in InstanceGrants(conf, i, instances, addresses, deferred, prior)
  BY DEF GrantsOf
<1>. DEFINE target == ResolveTarget(conf, i, addresses)
<1>2. CASE IsBinding(i.address)
  <2>1. \E providers : g \in BindingGrants(i, providers, target)
    BY <1>1, <1>2 DEF InstanceGrants
  <2>. QED  BY <2>1, BindFields, PlaceFields
<1>3. CASE ~IsBinding(i.address) /\ IsProvider(i.address)
  <2>1. g = GrantOf(ReadingFor(i, instances), target, {})
    BY <1>1, <1>3 DEF InstanceGrants
  <2>2. ReadingFor(i, instances).address = i.address
    BY ReadingLemma, KeyLemma
  <2>. QED  BY <2>1, <2>2, GrantOfFields, PlaceFields
<1>4. CASE ~IsBinding(i.address) /\ ~IsProvider(i.address)
  <2>1. g = GrantOf(i, target, Renderings(conf, i, deferred, prior))
    BY <1>1, <1>4 DEF InstanceGrants
  <2>2. Renderings(conf, i, deferred, prior) \subseteq (IF deferred THEN {} ELSE {prior})
    BY DEF Renderings
  <2>. QED  BY <2>1, <2>2, GrantOfFields, PlaceFields
<1>. QED  BY <1>2, <1>3, <1>4

(***************************************************************************)
(* RenderingsAreFresh: a rendering attached to a policy known only after   *)
(* apply is what the data document renders to in this plan (renderings).   *)
(***************************************************************************)
THEOREM FreshRenderings == Spec => []RenderingsAreFresh
<1>1. TerraformInv => RenderingsAreFresh
  <2>. SUFFICES ASSUME TerraformInv, phase \in {"read", "applied"}, NEW g \in grants
                PROVE  g.renderings \subseteq {plan.will}
    BY DEF RenderingsAreFresh
  <2>1. PICK recorded :
          /\ ~plan.deferred => recorded = plan.will
          /\ grants = GrantsOf(config, Examined(OfPlan(plan)), Addresses(plan), plan.deferred, recorded)
    BY DEF TerraformInv, PlanIsRead
  <2>2. g.renderings \subseteq (IF plan.deferred THEN {} ELSE {recorded})
    BY <2>1, GrantsLemma
  <2>. QED  BY <2>1, <2>2
<1>. QED  BY InvHolds, <1>1, PTL

-----------------------------------------------------------------------------
(* resolveTarget: an instance's target is its own address, the value it    *)
(* states, or the address of what it picks.                                *)
TargetKnown(i, addresses) ==
    \/ i.value.target = "stated"
    \/ Mapped(TypeOf(i.address)) => Referred(config, i.address) = {}
    \/ i.address \in DOMAIN config.picks /\ config.picks[i.address] \in addresses

(* resolveTarget: what a target may be given as. *)
LEMMA ResolveLemma ==
    ASSUME NEW w \in Workspace, config = w.config, NEW addresses, IsFiniteSet(addresses),
           NEW i, TargetKnown(i, addresses), Mapped(TypeOf(i.address))
    PROVE  LET t == ResolveTarget(config, i, addresses) IN
           \/ t = Named(i.address)
           \/ t = Valued(Picked(i.address))
           \/ i.address \in DOMAIN config.picks /\ t = Named(config.picks[i.address])
<1>. DEFINE row  == Table[TypeOf(i.address)]
            refs == References(config.expressions, i.address, row.target)
            candidates == UNION { Instances(i.address, ref, addresses) : ref \in refs }
            pick == config.picks[i.address]
<1>1. CASE row.target = "" \/ i.value.target = "stated"
  BY <1>1 DEF ResolveTarget, Picked
<1>2. CASE row.target # "" /\ i.value.target # "stated" /\ ~Sole(candidates)
  BY <1>2 DEF ResolveTarget
<1>3. CASE row.target # "" /\ i.value.target # "stated" /\ Sole(candidates)
  <2>2. IsFiniteSet(candidates)
    <3>1. candidates \subseteq addresses
      BY DEF Instances
    <3>. QED  BY <3>1, FS_Subset
  <2>3. PICK x : candidates = {x}
    <3>1. Cardinality(candidates) = 1
      BY <1>3 DEF Sole
    <3>. HIDE DEF candidates
    <3>. QED  BY <2>2, <3>1, FS_Singleton
  <2>4. PICK ref \in refs : x \in Instances(i.address, ref, addresses)
    BY <2>3
  <2>5. ResourceReference(ref) \in Referred(config, i.address)
    BY <2>4 DEF Instances, Referred
  <2>1. i.address \in DOMAIN config.picks /\ pick \in addresses
    BY <1>3, <2>5 DEF TargetKnown
  <2>6. pick.modules = ModulePrefix(i.address) /\ pick.local \in Referred(config, i.address)
    BY <2>1, <2>5, ConfigAssumption
  <2>7. PICK other \in refs : pick.local = ResourceReference(other) /\ ResourceReference(other) # <<>>
    BY <2>6 DEF Referred
  <2>8. pick \in Instances(i.address, other, addresses)
    BY <2>1, <2>6, <2>7 DEF Instances
  <2>9. pick \in candidates
    BY <2>7, <2>8
  <2>10. candidates = {pick}
    BY <2>3, <2>9
  <2>11. ResolveTarget(config, i, addresses) = Named(CHOOSE c \in candidates : TRUE)
    BY <1>3 DEF ResolveTarget
  <2>12. (CHOOSE c \in candidates : TRUE) = pick
    BY <2>10
  <2>. QED  BY <2>1, <2>11, <2>12
<1>. QED  BY <1>1, <1>2, <1>3

(* What is half made refers to nothing. *)
LEMMA BareRefersToNothing ==
    ASSUME NEW w \in Workspace, workspace = w.addresses, config = w.config,
           NEW o, ObjectOK(o), o.bare
    PROVE  Mapped(TypeOf(o.address)) => Referred(config, o.address) = {}
  BY BareAssumption DEF ObjectOK, Managed

(* An unknown target picks what the plan makes; what is recorded states    *)
(* its target, or is half made.                                            *)
LEMMA PlannedTargets ==
    ASSUME TerraformInv, Planned, NEW i \in OfPlan(plan)
    PROVE  TargetKnown(i, Addresses(plan))
<1>1. PICK w \in Workspace : workspace = w.addresses /\ config = w.config
  BY DEF TerraformInv
<1>2. Tracked(plan.prior) /\ ChangesOK(plan.changes, plan.prior)
  BY DEF TerraformInv
<1>3. \A c \in plan.changes : ChangeOK(c, Addresses(plan), plan.prior)
  BY <1>2 DEF ChangesOK, Addresses
<1>4. \A o \in plan.prior : ObjectOK(o)
  BY <1>2 DEF Tracked
<1>5. ASSUME NEW c \in plan.changes, Sends(c), i = Sending(c) PROVE TargetKnown(i, Addresses(plan))
  BY <1>3, <1>5, SendingFields DEF TargetKnown, ChangeOK, AfterOK
<1>6. ASSUME NEW c \in plan.changes, ~Sends(c) \/ Forgets(c), i = Removing(c)
      PROVE  TargetKnown(i, Addresses(plan))
  <2>1. PICK o \in plan.prior : o.address = c.address /\ o.deposed = c.deposed /\ c.before = Recorded(o)
    BY <1>3, <1>6 DEF ChangeOK, Shows
  <2>2. ObjectOK(o) /\ i.address = o.address /\ (o.bare \/ i.value.target = "stated")
    BY <1>1, <1>4, <1>6, <2>1, RemovingFields, ShownStands
  <2>. QED  BY <1>1, <2>2, BareRefersToNothing DEF TargetKnown
<1>7. ASSUME NEW o \in plan.prior, i = Held(o) PROVE TargetKnown(i, Addresses(plan))
  <2>1. ObjectOK(o) /\ i.address = o.address /\ (o.bare \/ i.value.target = "stated")
    BY <1>1, <1>4, <1>7, HeldFields, ShownStands
  <2>. QED  BY <1>1, <2>1, BareRefersToNothing DEF TargetKnown
<1>. QED  BY <1>5, <1>6, <1>7, ObjectsLemma, OfPlanLemma

(* A state states every target, but of what is half made. *)
LEMMA ShownTargets ==
    ASSUME TerraformInv, NEW i \in Shown(objects, "recorded")
    PROVE  TargetKnown(i, {})
<1>1. PICK w \in Workspace : workspace = w.addresses /\ config = w.config
  BY DEF TerraformInv
<1>2. PICK o \in objects : i = Instance(o.address, Current, o.deposed, Recorded(o), "recorded")
  BY DEF Shown
<1>3. i.address = o.address /\ i.place = o.deposed /\ i.value = Recorded(o)
  BY <1>2 DEF Instance
<1>4. ObjectOK(o)
  BY DEF TerraformInv, Tracked
<1>5. o.bare \/ i.value.target = "stated"
  BY <1>1, <1>3, <1>4, ShownStands
<1>. QED  BY <1>1, <1>3, <1>4, <1>5, BareRefersToNothing DEF TargetKnown

(* Grants resolved among the same addresses are of one target only if they *)
(* pick the same.                                                          *)
LEMMA ResolvedApart ==
    ASSUME NEW w \in Workspace, config = w.config, NEW addresses, IsFiniteSet(addresses),
           NEW i, TargetKnown(i, addresses), Mapped(TypeOf(i.address)),
           NEW j, TargetKnown(j, addresses), Mapped(TypeOf(j.address)),
           ResolveTarget(config, i, addresses) = ResolveTarget(config, j, addresses)
    PROVE  Picked(i.address) = Picked(j.address)
<1>. DEFINE t == ResolveTarget(config, i, addresses)
<1>1. \A a : /\ Named(a).kind = "address" /\ Named(a).of = a
             /\ Valued(a).kind = "value" /\ Valued(a).of = a
  BY DEF Named, Valued
<1>2. \/ t = Named(i.address)
      \/ t = Valued(Picked(i.address))
      \/ i.address \in DOMAIN config.picks /\ t = Named(config.picks[i.address])
  BY ResolveLemma
<1>3. \/ t = Named(j.address)
      \/ t = Valued(Picked(j.address))
      \/ j.address \in DOMAIN config.picks /\ t = Named(config.picks[j.address])
  BY ResolveLemma
<1>. HIDE DEF t
<1>4. \A a \in DOMAIN config.picks : config.picks[a] \notin DOMAIN config.picks
  BY ConfigAssumption
<1>5. "address" # "value"
  OBVIOUS
<1>6. CASE t.kind = "value"
  <2>1. t = Valued(Picked(i.address)) /\ t = Valued(Picked(j.address))
    BY <1>1, <1>2, <1>3, <1>5, <1>6
  <2>2. t.of = Picked(i.address)
    BY <1>1, <2>1
  <2>3. t.of = Picked(j.address)
    BY <1>1, <2>1
  <2>. QED  BY <2>2, <2>3
<1>7. CASE t.kind # "value"
  <2>1. t.of = i.address \/ (i.address \in DOMAIN config.picks /\ t.of = config.picks[i.address])
    BY <1>1, <1>2, <1>7
  <2>2. t.of = j.address \/ (j.address \in DOMAIN config.picks /\ t.of = config.picks[j.address])
    BY <1>1, <1>3, <1>7
  <2>. QED  BY <1>4, <2>1, <2>2 DEF Picked
<1>. QED  BY <1>6, <1>7

(***************************************************************************)
(* TargetsAreNeverMerged: two credentials are read as one target only if   *)
(* they are on one (resolveTarget), provided an expression that names      *)
(* resources of its module names the one it picks among them.              *)
(***************************************************************************)
THEOREM TargetsApart == Spec => []TargetsAreNeverMerged
<1>1. TerraformInv => TargetsAreNeverMerged
  <2>. SUFFICES ASSUME TerraformInv, NEW g \in grants, NEW h \in grants, g.target = h.target
                PROVE  Picked(g.of.address) = Picked(h.of.address)
    BY DEF TargetsAreNeverMerged
  <2>1. PICK w \in Workspace : workspace = w.addresses /\ config = w.config
    BY DEF TerraformInv
  <2>2. CASE phase \in {"read", "applied", "failed"}
    <3>1. PICK recorded : grants = GrantsOf(config, Examined(OfPlan(plan)), Addresses(plan), plan.deferred, recorded)
      BY <2>2 DEF TerraformInv, PlanIsRead
    <3>2. PICK i \in OfPlan(plan) : /\ g.of.address = i.address /\ Mapped(TypeOf(i.address))
                                   /\ g.target = ResolveTarget(config, i, Addresses(plan))
      BY <3>1, GrantsLemma DEF Examined
    <3>3. PICK j \in OfPlan(plan) : /\ h.of.address = j.address /\ Mapped(TypeOf(j.address))
                                   /\ h.target = ResolveTarget(config, j, Addresses(plan))
      BY <3>1, GrantsLemma DEF Examined
    <3>4. TargetKnown(i, Addresses(plan)) /\ TargetKnown(j, Addresses(plan))
      BY <2>2, PlannedTargets DEF Planned
    <3>5. IsFiniteSet(Addresses(plan))
      <4>1. Addresses(plan) \subseteq workspace
        BY <2>2 DEF TerraformInv, Planned, ChangesOK, ChangeOK, Addresses, Managed
      <4>2. IsFiniteSet(workspace)
        BY <2>1, WorkspaceAssumption
      <4>. QED  BY <4>1, <4>2, FS_Subset
    <3>6. ResolveTarget(config, i, Addresses(plan)) = ResolveTarget(config, j, Addresses(plan))
      BY <3>2, <3>3
    <3>7. Picked(i.address) = Picked(j.address)
      BY <2>1, <3>2, <3>3, <3>4, <3>5, <3>6, ResolvedApart
    <3>. QED  BY <3>2, <3>3, <3>7
  <2>3. CASE phase = "shown"
    <3>1. grants = GrantsOf(config, Examined(Shown(objects, "recorded")), {}, FALSE, NoText)
      BY <2>3 DEF TerraformInv, StateIsRead
    <3>2. PICK deferred : grants = GrantsOf(config, Examined(Shown(objects, "recorded")), {}, deferred, NoText)
      BY <3>1, Zenon
    <3>3. PICK i \in Shown(objects, "recorded") : /\ g.of.address = i.address /\ Mapped(TypeOf(i.address))
                                                  /\ g.target = ResolveTarget(config, i, {})
      <4>1. \E i \in Examined(Shown(objects, "recorded")) :
               g.of.address = i.address /\ g.target = ResolveTarget(config, i, {})
        BY <3>2, GrantsLemma
      <4>. QED  BY <4>1 DEF Examined
    <3>4. PICK j \in Shown(objects, "recorded") : /\ h.of.address = j.address /\ Mapped(TypeOf(j.address))
                                                  /\ h.target = ResolveTarget(config, j, {})
      <4>1. \E j \in Examined(Shown(objects, "recorded")) :
               h.of.address = j.address /\ h.target = ResolveTarget(config, j, {})
        BY <3>2, GrantsLemma
      <4>. QED  BY <4>1 DEF Examined
    <3>5. TargetKnown(i, {}) /\ TargetKnown(j, {})
      BY ShownTargets
    <3>6. IsFiniteSet({})
      BY FS_EmptySet
    <3>7. ResolveTarget(config, i, {}) = ResolveTarget(config, j, {})
      BY <3>3, <3>4
    <3>8. Picked(i.address) = Picked(j.address)
      BY <2>1, <3>3, <3>4, <3>5, <3>6, <3>7, ResolvedApart
    <3>. QED  BY <3>3, <3>4, <3>8
  <2>. QED  BY <2>2, <2>3 DEF TerraformInv
<1>. QED  BY InvHolds, <1>1, PTL

-----------------------------------------------------------------------------
(***************************************************************************)
(* The grants of faithful instances.  A provider is read under its own     *)
(* key, so a binding meets every provider of the document.                 *)
(***************************************************************************)
LEMMA OwnReading ==
    ASSUME NEW instances, Faithful(instances), NEW i \in Examined(instances), IsProvider(i.address)
    PROVE  ReadingFor(i, Examined(instances)) = i
<1>. DEFINE j == ReadingFor(i, Examined(instances))
<1>1. j \in Examined(instances) /\ KeyOf(j) = KeyOf(i)
  BY ReadingLemma
<1>. HIDE DEF j
<1>2. i \in instances /\ j \in instances
  BY <1>1 DEF Examined
<1>3. j = i
  BY <1>1, <1>2 DEF Faithful
<1>. QED  BY <1>3 DEF j

(* The grants of one instance, by its kind. *)
LEMMA InstanceLemma ==
    ASSUME NEW conf, NEW instances, Faithful(instances), NEW i \in Examined(instances),
           NEW addresses, NEW deferred, NEW prior
    PROVE  LET own == InstanceGrants(conf, i, Examined(instances), addresses, deferred, prior) IN
           /\ IsBinding(i.address) =>
                 \E target : own = BindingGrants(i, ProvidersOf(Examined(instances)), target)
           /\ ~IsBinding(i.address) => \E target, rs : own = {GrantOf(i, target, rs)}
<1>. DEFINE E == Examined(instances)
            target == ResolveTarget(conf, i, addresses)
            own == InstanceGrants(conf, i, E, addresses, deferred, prior)
<1>1. CASE IsBinding(i.address)
  <2>1. { ReadingFor(p, E) : p \in ProvidersOf(E) } = ProvidersOf(E)
    <3>1. \A p \in ProvidersOf(E) : ReadingFor(p, E) = p
      BY OwnReading DEF ProvidersOf
    <3>. HIDE DEF E
    <3>. QED  BY <3>1
  <2>2. own = BindingGrants(i, { ReadingFor(p, E) : p \in ProvidersOf(E) }, target)
    BY <1>1 DEF InstanceGrants
  <2>. QED  BY <1>1, <2>1, <2>2
<1>2. CASE ~IsBinding(i.address) /\ IsProvider(i.address)
  <2>1. own = {GrantOf(ReadingFor(i, E), target, {})}
    BY <1>2 DEF InstanceGrants
  <2>2. ReadingFor(i, E) = i
    BY <1>2, OwnReading
  <2>. QED  BY <1>2, <2>1, <2>2
<1>3. CASE ~IsBinding(i.address) /\ ~IsProvider(i.address)
  <2>1. own = {GrantOf(i, target, Renderings(conf, i, deferred, prior))}
    BY <1>3 DEF InstanceGrants
  <2>. QED  BY <1>3, <2>1
<1>. QED  BY <1>1, <1>2, <1>3

(* A text of a managed address is one the parsers' promise is about. *)
LEMMA TextLemma ==
    ASSUME NEW w \in Workspace, workspace = w.addresses, NEW o, ObjectOK(o)
    PROVE  /\ o.text.kind \in {"read", "refused", "nothing"} /\ o.text.means \subseteq Who
           /\ o.text.kind = "read" =>
                 o.text.means \subseteq o.text.admits /\ (o.text.exact => o.text.means = o.text.admits)
           /\ o.text.kind = "nothing" => o.text.means = {}
           /\ IsProvider(o.address) => Pool[o.address] # NoPool /\ o.text.kind \in {"read", "refused"}
           /\ IsBinding(o.address) => \A m \in o.text.members : m.who \subseteq Who
<1>1. o.address \in Managed /\ o.text \in Text[TypeOf(o.address)]
  BY DEF ObjectOK
<1>2. TypeOf(o.address) \in DOMAIN Text
  BY <1>1, ManagedLemma
<1>. QED  BY <1>1, <1>2, ManagedLemma, TerraformAssumption

(* What faithful instances are read as. *)
ReadFrom(instances) ==
    /\ Faithful(instances)
    /\ unread = Unread(instances)
    /\ \E addresses, deferred, prior : grants = GrantsOf(config, Examined(instances), addresses, deferred, prior)

(* What every instance read gives is among the grants. *)
LEMMA OwnGrants ==
    ASSUME NEW instances, ReadFrom(instances), NEW i \in Examined(instances)
    PROVE  /\ IsBinding(i.address) =>
                 \E target : BindingGrants(i, ProvidersOf(Examined(instances)), target) \subseteq grants
           /\ ~IsBinding(i.address) => \E target, rs : GrantOf(i, target, rs) \in grants
<1>1. PICK addresses, deferred, prior : grants = GrantsOf(config, Examined(instances), addresses, deferred, prior)
  BY DEF ReadFrom
<1>2. InstanceGrants(config, i, Examined(instances), addresses, deferred, prior) \subseteq grants
  BY <1>1 DEF GrantsOf
<1>3. Faithful(instances)
  BY DEF ReadFrom
<1>. QED  BY <1>2, <1>3, InstanceLemma

(* Every grant is of an instance read. *)
LEMMA GrantsOwned ==
    ASSUME NEW instances, ReadFrom(instances), NEW g \in grants
    PROVE  \E i \in Examined(instances) :
              \/ IsBinding(i.address) /\ \E target : g \in BindingGrants(i, ProvidersOf(Examined(instances)), target)
              \/ ~IsBinding(i.address) /\ \E target, rs : g = GrantOf(i, target, rs)
<1>1. PICK addresses, deferred, prior : grants = GrantsOf(config, Examined(instances), addresses, deferred, prior)
  BY DEF ReadFrom
<1>2. PICK i \in Examined(instances) : g \in InstanceGrants(config, i, Examined(instances), addresses, deferred, prior)
  BY <1>1 DEF GrantsOf
<1>3. Faithful(instances)
  BY DEF ReadFrom
<1>4. CASE IsBinding(i.address)
  BY <1>2, <1>3, <1>4, InstanceLemma
<1>5. CASE ~IsBinding(i.address)
  BY <1>2, <1>3, <1>5, InstanceLemma
<1>. QED  BY <1>4, <1>5

(* An object that is no binding: its grant admits whom it lets in, and     *)
(* them exactly when it is exact.                                          *)
LEMMA OwnCovers ==
    ASSUME NEW w \in Workspace, workspace = w.addresses, NEW o, ObjectOK(o), Mapped(TypeOf(o.address)),
           NEW i, StandsFor(i, o), NEW target, NEW rs, NEW g, g = GrantOf(i, target, rs)
    PROVE  g.of = Place(i) /\ o.text.means \subseteq g.admits /\ (g.exact => g.admits = o.text.means)
<1>1. CASE Unreadable(i)
  BY <1>1, GrantOfFields, TextLemma
<1>2. CASE ~Unreadable(i)
  <2>1. i.value.text = o.text /\ o.text.kind # "refused"
    BY <1>2 DEF Unreadable, StandsFor
  <2>2. CASE o.text.kind = "nothing"
    <3>1. g.admits = {} /\ o.text.means = {} /\ g.of = Place(i)
      BY <1>2, <2>1, <2>2, GrantOfFields, TextLemma
    <3>. QED  BY <3>1
  <2>3. CASE o.text.kind = "read"
    <3>1. g.admits = o.text.admits /\ g.exact = o.text.exact /\ g.of = Place(i)
      BY <1>2, <2>1, <2>3, GrantOfFields
    <3>2. o.text.means \subseteq o.text.admits /\ (o.text.exact => o.text.means = o.text.admits)
      BY <2>3, TextLemma
    <3>. QED  BY <3>1, <3>2
  <2>. QED  BY <2>1, <2>2, <2>3, TextLemma
<1>. QED  BY <1>1, <1>2

(* A deployed provider of a member's pool is met with the member, and a    *)
(* provider met with it is one the document may be read as holding.        *)
LEMMA HolderBinds ==
    ASSUME NEW w \in Workspace, workspace = w.addresses, NEW instances, Faithful(instances),
           NEW m, NEW p \in Deployed, IsProviderOf(p, m)
    PROVE  \E k \in ProvidersOf(Examined(instances)) : Binds(k, m) /\ StandsFor(k, p)
<1>1. PICK k \in instances : StandsFor(k, p)
  BY DEF Faithful
<1>2. ObjectOK(p) /\ IsProvider(p.address) /\ Pool[p.address] = m.pool /\ k.address = p.address
  BY <1>1 DEF Faithful, IsProviderOf, StandsFor
<1>3. k \in ProvidersOf(Examined(instances))
  BY <1>2 DEF ProvidersOf, Examined, IsProvider
<1>4. m.pool # NoPool
  BY <1>2, TextLemma
<1>. QED  BY <1>1, <1>2, <1>3, <1>4 DEF Binds, MayHold

(* A provider a member is met with may be of its pool. *)
LEMMA BoundIsKnown ==
    ASSUME NEW instances, Faithful(instances), NEW m, NEW k \in ProvidersOf(Examined(instances)), Binds(k, m)
    PROVE  \E q \in Tellable : MayBeOf(q, m)
<1>1. k \in instances /\ IsProvider(k.address)
  BY DEF ProvidersOf, Examined
<1>2. PICK q \in Tellable : q.address = k.address
  BY <1>1 DEF Faithful
<1>3. k.value.pooled \/ (plan # NoPlan /\ \E c \in plan.changes : c.address = k.address /\ Sends(c) /\ ~c.after.pooled)
  BY <1>1 DEF Faithful
<1>4. k.value.pooled => Pool[k.address].id = m.pool.id
  BY DEF Binds, MayHold
<1>5. MayBeOf(q, m)
  BY <1>1, <1>2, <1>3, <1>4 DEF MayBeOf
<1>. QED  BY <1>2, <1>5

(* The grants of a binding are of it, and there is one. *)
LEMMA BindingIsRead ==
    ASSUME NEW i, NEW providers, NEW target
    PROVE  BindingGrants(i, providers, target) # {}
<1>1. CASE Unreadable(i)
  BY <1>1 DEF BindingGrants
<1>2. CASE ~Unreadable(i) /\ i.value.text.members = {}
  BY <1>2 DEF BindingGrants
<1>3. CASE ~Unreadable(i) /\ i.value.text.members # {}
  <2>1. PICK m \in i.value.text.members : TRUE
    BY <1>3
  <2>2. MemberGrants(i, m, providers, target) # {}
    BY DEF MemberGrants
  <2>3. MemberGrants(i, m, providers, target) \subseteq BindingGrants(i, providers, target)
    BY <1>3 DEF BindingGrants
  <2>. QED  BY <2>2, <2>3
<1>. QED  BY <1>1, <1>2, <1>3

(* A member is met with each provider it binds, or is unbounded. *)
LEMMA MemberIsRead ==
    ASSUME NEW i, NEW providers, NEW target, ~Unreadable(i), NEW m \in i.value.text.members
    PROVE  /\ \A p \in providers : Binds(p, m) => Bind(i, p, m, target) \in BindingGrants(i, providers, target)
           /\ (\A p \in providers : ~Binds(p, m)) =>
                 Unbounded(i, NoVia, m.who, target) \in BindingGrants(i, providers, target)
<1>1. MemberGrants(i, m, providers, target) \subseteq BindingGrants(i, providers, target)
  BY DEF BindingGrants
<1>. QED  BY <1>1 DEF MemberGrants

(* bindingGrants: whoever a binding lets in is admitted. *)
LEMMA BindingCovers ==
    ASSUME NEW w \in Workspace, workspace = w.addresses, NEW instances, ReadFrom(instances),
           NEW o \in Deployed, IsBinding(o.address)
    PROVE  IsRead(o)
<1>. DEFINE providers == ProvidersOf(Examined(instances))
<1>1. Faithful(instances) /\ ObjectOK(o) /\ Mapped(TypeOf(o.address))
  BY DEF ReadFrom, Faithful, IsBinding
<1>2. PICK i \in instances : StandsFor(i, o)
  BY <1>1 DEF Faithful
<1>3. i \in Examined(instances) /\ i.address = o.address
  BY <1>1, <1>2 DEF Examined, StandsFor
<1>4. PICK target : BindingGrants(i, providers, target) \subseteq grants
  BY <1>3, OwnGrants
<1>. DEFINE G == BindingGrants(i, providers, target)
<1>5. \A g \in G : g \in GrantsAt(o.address)
  BY <1>3, <1>4, BindFields, PlaceFields DEF GrantsAt
<1>6. GrantsAt(o.address) # {}
  BY <1>5, BindingIsRead
<1>7. \A m \in o.text.members : m.who \subseteq Who
  BY <1>1, TextLemma
<1>8. \A g \in GrantsAt(o.address) : \A who : who \subseteq g.admits => Admit(GrantsAt(o.address), who)
  BY DEF Admit
<1>. SUFFICES ASSUME NEW m \in o.text.members
              PROVE  /\ \A p \in Deployed : IsProviderOf(p, m) => Admit(GrantsAt(o.address), m.who \cap p.text.means)
                     /\ { p \in Tellable : MayBeOf(p, m) } = {} => Admit(GrantsAt(o.address), m.who)
  BY <1>1, <1>6 DEF IsRead, Tellable
<1>9. CASE Unreadable(i)
  <2>1. Everything(i, target, {}) \in G
    BY <1>9 DEF BindingGrants
  <2>2. PICK g \in GrantsAt(o.address) : g.admits = Who
    BY <1>5, <2>1, EverythingFields
  <2>3. \A p : m.who \cap p.text.means \subseteq g.admits
    BY <1>7, <2>2
  <2>. QED  BY <1>7, <1>8, <2>2, <2>3
<1>10. CASE ~Unreadable(i)
  <2>1. i.value.text = o.text
    BY <1>1, <1>2, <1>10 DEF Unreadable, StandsFor
  <2>2. ASSUME NEW p \in Deployed, IsProviderOf(p, m) PROVE Admit(GrantsAt(o.address), m.who \cap p.text.means)
    <3>1. PICK k \in providers : Binds(k, m) /\ StandsFor(k, p)
      BY <1>1, <2>2, HolderBinds
    <3>2. Bind(i, k, m, target) \in G
      BY <1>10, <2>1, <3>1, MemberIsRead
    <3>3. PICK g \in GrantsAt(o.address) : g = Bind(i, k, m, target)
      BY <1>5, <3>2
    <3>4. m.who \cap p.text.means \subseteq g.admits
      <4>1. CASE Unreadable(k)
        BY <1>7, <3>3, <4>1, BindOneFields
      <4>2. CASE ~Unreadable(k)
        <5>1. ObjectOK(p) /\ IsProvider(p.address) /\ Mapped(TypeOf(p.address))
          BY <1>1, <2>2 DEF Faithful, IsProviderOf, IsProvider
        <5>2. k.value.text = p.text /\ p.text.kind # "refused"
          BY <3>1, <4>2, <5>1 DEF Unreadable, StandsFor
        <5>3. p.text.means \subseteq p.text.admits
          BY <5>1, <5>2, TextLemma
        <5>4. g.admits = p.text.admits \cap m.who
          BY <3>3, <4>2, <5>2, BindOneFields
        <5>. QED  BY <5>3, <5>4
      <4>. QED  BY <4>1, <4>2
    <3>. QED  BY <1>8, <3>4
  <2>3. ASSUME { p \in Tellable : MayBeOf(p, m) } = {} PROVE Admit(GrantsAt(o.address), m.who)
    <3>1. \A k \in providers : ~Binds(k, m)
      BY <1>1, <2>3, BoundIsKnown
    <3>2. Unbounded(i, NoVia, m.who, target) \in G
      BY <1>10, <2>1, <3>1, MemberIsRead
    <3>3. PICK g \in GrantsAt(o.address) : g.admits = Who
      BY <1>5, <3>2, UnboundedFields
    <3>. QED  BY <1>7, <1>8, <3>3
  <2>. QED  BY <2>2, <2>3
<1>. QED  BY <1>9, <1>10

(* Every object deployed is read. *)
LEMMA AllIsRead ==
    ASSUME NEW w \in Workspace, workspace = w.addresses, NEW instances, ReadFrom(instances), NEW o \in Deployed
    PROVE  IsRead(o)
<1>1. Faithful(instances) /\ ObjectOK(o)
  BY DEF ReadFrom, Faithful
<1>2. PICK i \in instances : StandsFor(i, o) /\ i.address = o.address
  BY <1>1 DEF Faithful, StandsFor
<1>3. CASE ~Mapped(TypeOf(o.address))
  BY <1>2, <1>3 DEF IsRead, ReadFrom, Unread
<1>4. CASE Mapped(TypeOf(o.address)) /\ ~IsBinding(o.address)
  <2>1. i \in Examined(instances)
    BY <1>2, <1>4 DEF Examined
  <2>2. PICK target, rs : GrantOf(i, target, rs) \in grants
    BY <1>2, <1>4, <2>1, OwnGrants
  <2>3. PICK g \in grants : g = GrantOf(i, target, rs)
    BY <2>2
  <2>4. g.of = Place(i) /\ o.text.means \subseteq g.admits
    BY <1>1, <1>2, <1>4, <2>3, OwnCovers
  <2>5. g \in GrantsAt(o.address)
    BY <1>2, <2>4, PlaceFields DEF GrantsAt
  <2>. QED  BY <1>4, <2>4, <2>5 DEF IsRead, Admit
<1>. QED  BY <1>3, <1>4, BindingCovers DEF IsBinding

(* An exact grant that comes of no deletion is of an object that is there. *)
LEMMA ExactIsThere ==
    ASSUME NEW w \in Workspace, workspace = w.addresses, NEW instances, ReadFrom(instances),
           NEW g \in grants, g.exact, g.of.side # "deleted", g.via # NoVia => g.via.side # "deleted"
    PROVE  \E o \in Deployed :
              /\ o.address = g.of.address /\ o.deposed = g.of.place
              /\ IF ~IsBinding(o.address) THEN g.admits = o.text.means
                 ELSE IF g.via = NoVia THEN o.text.members = {}
                 ELSE \E m \in o.text.members, p \in Deployed :
                          /\ IsProviderOf(p, m) /\ p.address = g.via.address
                          /\ m.who = g.who /\ g.admits = m.who \cap p.text.means
<1>. DEFINE providers == ProvidersOf(Examined(instances))
<1>1. Faithful(instances)
  BY DEF ReadFrom
<1>2. PICK i \in Examined(instances) :
        \/ IsBinding(i.address) /\ \E target : g \in BindingGrants(i, providers, target)
        \/ ~IsBinding(i.address) /\ \E target, rs : g = GrantOf(i, target, rs)
  BY GrantsOwned
<1>3. g.of = Place(i)
  BY <1>2, BindFields, GrantOfFields
<1>4. g.of.address = i.address /\ g.of.place = i.place /\ i.side # "deleted"
  BY <1>3, PlaceFields
<1>5. PICK o \in Deployed : StandsFor(i, o)
  BY <1>1, <1>4 DEF Faithful, Examined
<1>6. ObjectOK(o) /\ Mapped(TypeOf(o.address)) /\ i.address = o.address /\ i.place = o.deposed
  BY <1>1, <1>5 DEF Faithful, StandsFor, Examined
<1>7. CASE ~IsBinding(i.address)
  <2>1. PICK target, rs : g = GrantOf(i, target, rs)
    BY <1>2, <1>7
  <2>2. g.admits = o.text.means
    BY <1>5, <1>6, <2>1, OwnCovers
  <2>. QED  BY <1>4, <1>6, <1>7, <2>2
<1>8. CASE IsBinding(i.address)
  <2>1. PICK target : g \in BindingGrants(i, providers, target)
    BY <1>2, <1>8
  <2>2. ~Unreadable(i)
    BY <2>1, BindingCases, EverythingFields
  <2>3. i.value.text = o.text
    BY <1>5, <1>6, <2>2 DEF Unreadable, StandsFor
  <2>4. CASE o.text.members = {} /\ g = Nobody(i, target)
    BY <1>4, <1>6, <1>8, <2>4, NobodyFields
  <2>5. ASSUME NEW m \in o.text.members, NEW k \in providers, Binds(k, m), g = Bind(i, k, m, target)
        PROVE  \E p \in Deployed : /\ IsProviderOf(p, m) /\ p.address = g.via.address
                                   /\ m.who = g.who /\ g.admits = m.who \cap p.text.means /\ g.via # NoVia
    <3>1. k \in instances /\ IsProvider(k.address) /\ Mapped(TypeOf(k.address))
      BY DEF ProvidersOf, Examined
    <3>2. g.via = Place(k) /\ g.who = m.who /\ ~Unreadable(k)
      BY <2>5, BindOneFields
    <3>3. g.via # NoVia
      BY <3>2 DEF Place, NoVia
    <3>4. g.via.address = k.address /\ k.side # "deleted"
      BY <3>2, <3>3, PlaceFields
    <3>5. k.value.text.exact /\ k.value.named /\ g.admits = k.value.text.admits \cap m.who
      BY <2>5, <3>2, BindOneFields
    <3>6. Pool[k.address] = m.pool
      BY <2>5, <3>2, <3>5 DEF Binds
    <3>7. PICK p \in Deployed : StandsFor(k, p)
      BY <1>1, <3>1, <3>4 DEF Faithful
    <3>8. ObjectOK(p) /\ p.address = k.address /\ k.value.text = p.text
      BY <1>1, <3>1, <3>2, <3>7 DEF Faithful, StandsFor, Unreadable
    <3>9. p.text.kind # "refused"
      BY <3>2, <3>8 DEF Unreadable
    <3>10. p.text.means = p.text.admits
      BY <3>1, <3>5, <3>8, <3>9, TextLemma
    <3>. QED  BY <3>1, <3>2, <3>3, <3>4, <3>5, <3>6, <3>8, <3>10 DEF IsProviderOf
  <2>6. \/ o.text.members = {} /\ g = Nobody(i, target)
        \/ \E m \in o.text.members : \E k \in providers : Binds(k, m) /\ g = Bind(i, k, m, target)
    BY <2>1, <2>2, <2>3, BindingCases, UnboundedFields
  <2>. QED  BY <1>4, <1>6, <1>8, <2>4, <2>5, <2>6
<1>. QED  BY <1>7, <1>8

(* Once a plan is applied or a state shown, what was read is faithful. *)
LEMMA SettledIsRead ==
    ASSUME TerraformInv, Settled
    PROVE  \E instances : ReadFrom(instances)
<1>1. CASE phase = "applied"
  <2>1. Faithful(OfPlan(plan))
    BY <1>1, PlanIsFaithful
  <2>2. PlanIsRead
    BY <1>1 DEF TerraformInv
  <2>. QED  BY <2>1, <2>2 DEF PlanIsRead, ReadFrom
<1>2. CASE phase = "shown"
  <2>1. Faithful(Shown(objects, "recorded"))
    BY <1>2, StateIsFaithful
  <2>2. StateIsRead
    BY <1>2 DEF TerraformInv
  <2>3. \E deferred, prior : grants = GrantsOf(config, Examined(Shown(objects, "recorded")), {}, deferred, prior)
    BY <2>2, Zenon DEF StateIsRead
  <2>4. unread = Unread(Shown(objects, "recorded"))
    BY <2>2 DEF StateIsRead
  <2>. QED  BY <2>1, <2>3, <2>4 DEF ReadFrom
<1>. QED  BY <1>1, <1>2 DEF Settled

(***************************************************************************)
(* AppliedTrustIsRead: whoever an object deployed by a plan, or recorded   *)
(* by a state, lets in is admitted by a grant read of it (parsePlan,       *)
(* parseChange, examine, inspect, bindingGrants), if the parsers keep the  *)
(* promise of ReaderPromise.                                               *)
(***************************************************************************)
THEOREM TrustIsRead == Spec => []AppliedTrustIsRead
<1>1. TerraformInv => AppliedTrustIsRead
  <2>. SUFFICES ASSUME TerraformInv, Settled, NEW o \in Deployed PROVE IsRead(o)
    BY DEF AppliedTrustIsRead
  <2>1. PICK w \in Workspace : workspace = w.addresses
    BY DEF TerraformInv
  <2>2. PICK instances : ReadFrom(instances)
    BY SettledIsRead
  <2>. QED  BY <2>1, <2>2, AllIsRead
<1>. QED  BY InvHolds, <1>1, PTL

(***************************************************************************)
(* ExactGrantsAreDeployed: a grant with no caveat is what is deployed      *)
(* (consults, widening, bind).                                             *)
(***************************************************************************)
THEOREM ExactIsDeployed == Spec => []ExactGrantsAreDeployed
<1>1. TerraformInv => ExactGrantsAreDeployed
  <2>1. ASSUME TerraformInv, Settled PROVE ExactGrantsAreDeployed
    <3>1. PICK w \in Workspace : workspace = w.addresses
      BY <2>1 DEF TerraformInv
    <3>2. PICK instances : ReadFrom(instances)
      BY <2>1, SettledIsRead
    <3>. QED  BY <3>1, <3>2, ExactIsThere DEF ExactGrantsAreDeployed
  <2>. QED  BY <2>1 DEF ExactGrantsAreDeployed
<1>. QED  BY InvHolds, <1>1, PTL
=============================================================================
