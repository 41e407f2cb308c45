-------------------------- MODULE WebEngineProofs --------------------------
(***************************************************************************)
(* What the page relies on of web/engine, proved for any set of names,     *)
(* holders and compiled modules and any bounds.  The glue's part rests on  *)
(* GlueInv and the calls' part on CallInv; neither property is inductive   *)
(* alone.                                                                  *)
(***************************************************************************)
EXTENDS WebEngine, TLAPS

Values == {"absent", "old", "new", "glue"}

(* What the load relies on: the page's own values are never the glue's,    *)
(* nothing of the glue is there before it is evaluated, and what was saved *)
(* is still what the page holds, but for the names it wrote meanwhile.     *)
GlueType ==
    /\ globals \in [Names -> Values] /\ before \in [Names -> Values]
    /\ page \in [Names -> Values \ {"glue"}]
    /\ loading \in {"none", "importing", "evaluated", "ready", "rejected"}

GlueInv ==
    /\ GlueType
    /\ GlobalsAreThePages
    /\ loading \in {"none", "importing"} => globals = page
    /\ loading \in {"importing", "evaluated"} =>
            \A n \in Names : before[n] # "glue" /\ (n \in touched \/ before[n] = page[n])

Steps == {"idle", "called", "reserved", "aimed", "written", "exported", "looked", "found"}

InstanceRecord ==
    [dead : BOOLEAN, memory : Nat, buffer : Nat, inbox : Nat, outbox : Nat]

EngineType ==
    /\ holds \in [Holder -> Module \cup {None}]
    /\ engines \in [Module -> {"none", "pending", "ready", "rejected"}]
    /\ loads \in [Module -> Nat]
    /\ instance \in [Module -> InstanceRecord]
    /\ call \in [Holder -> [step : Steps, id : Nat, view : Nat]]
    /\ starved \in BOOLEAN /\ calls \in Nat

(* One call at a time, on a module its holder has. *)
OneCall ==
    /\ \A h \in Holder : call[h].step # "idle" => holds[h] \in Module
    /\ \A h, k \in Holder : call[h].step # "idle" /\ call[k].step # "idle" => h = k

(* The boxes of the instance hold the call's input, and then its answer,   *)
(* and a view is over the buffer there is.                                 *)
BoxesAreTheCalls ==
    \A h \in Holder :
        /\ call[h].step = "written" => instance[holds[h]].inbox = call[h].id
        /\ call[h].step \in {"exported", "looked", "found"} => instance[holds[h]].outbox = call[h].id
        /\ call[h].step \in {"aimed", "looked", "found"} => call[h].view = instance[holds[h]].buffer

OneLoad == \A m \in Module : loads[m] = IF engines[m] = "none" THEN 0 ELSE 1

(* An instance is past the bound only while the call that grew it runs. *)
SoundInstances ==
    ~starved => \A m \in Module :
        /\ ~instance[m].dead
        /\ \/ instance[m].memory <= MemoryBound
           \/ \E h \in Holder : call[h].step # "idle" /\ holds[h] = m

CallInv ==
    /\ EngineType
    /\ OneCall
    /\ BoxesAreTheCalls
    /\ AnswersAreTheirOwn
    /\ OneLoad
    /\ SoundInstances

-----------------------------------------------------------------------------
(***************************************************************************)
(* Loading the glue: each step of go.ts, and each write of the page at any *)
(* moment of it, keeps GlueInv.                                            *)
(***************************************************************************)

(* At the start globalThis is the page's. *)
LEMMA GlueInitInv == GlueInit => GlueInv
  BY GlueAssumption
  DEF GlueInit, GlueInv, GlueType, GlobalsAreThePages, Values, GLUE_GLOBALS

(* Saving the descriptors before the await saves what the page holds. *)
LEMMA GoRuntimeKeeps == GlueInv /\ GoRuntime => GlueInv'
  <1> SUFFICES ASSUME GlueInv, GoRuntime PROVE GlueInv'
    OBVIOUS
  <1> USE DEF GlueInv, GlueType, GlobalsAreThePages, GoRuntime, glueVars, Values
  <1>1. CASE loading = "none"
    BY <1>1
  <1>2. CASE loading # "none"
    BY <1>2
  <1> QED
    BY <1>1, <1>2

(* The glue writes its own names alone, and taking them back restores what *)
(* was saved.                                                              *)
LEMMA LoadKeeps == GlueInv /\ Load => GlueInv'
  <1> SUFFICES ASSUME GlueInv, Load PROVE GlueInv'
    OBVIOUS
  <1> USE GlueAssumption DEF GlueInv, GlueType, GlobalsAreThePages, Values, GLUE_GLOBALS
  <1>1. CASE EvaluateGlue
    BY <1>1 DEF EvaluateGlue
  <1>2. CASE ImportFails
    <2>1. CASE UNCHANGED globals
      BY <1>2, <2>1 DEF ImportFails
    <2>2. CASE globals' = [n \in Names |->
                IF n \in {"fs", "process"} /\ globals[n] = "absent" THEN "glue" ELSE globals[n]]
      BY <1>2, <2>2 DEF ImportFails
    <2> QED
      BY <1>2, <2>1, <2>2 DEF ImportFails
  <1>3. CASE TakeBack
    <2>1. GlueType'
      BY <1>3 DEF TakeBack
    <2>2. \A n \in Names : globals'[n] # "glue" /\ (n \in touched \/ globals'[n] = page[n])
      <3> TAKE n \in Names
      <3>1. CASE n \in GLUE_GLOBALS
        BY <1>3, <3>1 DEF TakeBack
      <3>2. CASE n \notin GLUE_GLOBALS
        BY <1>3, <3>2 DEF TakeBack
      <3> QED
        BY <3>1, <3>2
    <2>3. \A n \in Names \ GLUE_GLOBALS : globals'[n] = page'[n]
      BY <1>3 DEF TakeBack
    <2> QED
      BY <1>3, <2>1, <2>2, <2>3 DEF TakeBack
  <1>4. CASE NoGo
    BY <1>4 DEF NoGo
  <1> QED
    BY <1>1, <1>2, <1>3, <1>4 DEF Load

(* A write of the page goes to both, and is remembered while a load runs. *)
LEMMA PageWritesKeeps ==
    ASSUME NEW n \in Names, GlueInv, PageWrites(n)
    PROVE  GlueInv'
  <1> USE DEF GlueInv, GlueType, GlobalsAreThePages, Values
  <1>1. PICK v \in {"absent", "new"} :
            globals' = [globals EXCEPT ![n] = v] /\ page' = [page EXCEPT ![n] = v]
    BY DEF PageWrites
  <1>2. GlueType'
    BY <1>1 DEF PageWrites
  <1>3. GlobalsAreThePages'
    BY <1>1 DEF PageWrites
  <1>4. loading' \in {"none", "importing"} => globals' = page'
    BY <1>1 DEF PageWrites
  <1>5. loading' \in {"importing", "evaluated"} =>
            \A k \in Names : before'[k] # "glue" /\ (k \in touched' \/ before'[k] = page'[k])
    BY <1>1 DEF PageWrites
  <1> QED
    BY <1>2, <1>3, <1>4, <1>5

(* No call and no load of an engine touches globalThis. *)
LEMMA GlueStands == GlueInv /\ UNCHANGED glueVars => GlueInv'
  BY DEF GlueInv, GlueType, GlobalsAreThePages, glueVars

(* Every step of the system keeps the glue's invariant. *)
LEMMA GlueStep == GlueInv /\ [Next]_vars => GlueInv'
  <1> SUFFICES ASSUME GlueInv, [Next]_vars PROVE GlueInv'
    OBVIOUS
  <1>1. CASE LoadGlue
    BY <1>1, LoadKeeps DEF LoadGlue
  <1>2. ASSUME NEW n \in Names, PageWritesGlobal(n) PROVE GlueInv'
    BY <1>2, PageWritesKeeps DEF PageWritesGlobal
  <1>3. ASSUME NEW h \in Holder, NEW m \in Module, EngineFor(h, m) PROVE GlueInv'
    BY <1>3, GoRuntimeKeeps, GlueStands DEF EngineFor
  <1>4. ASSUME NEW m \in Module, LoadEngine(m) PROVE GlueInv'
    BY <1>4, GlueStands DEF LoadEngine
  <1>5. ASSUME NEW h \in Holder, Begin(h) \/ InCall(h) PROVE GlueInv'
    <2>1. UNCHANGED glueVars
      BY <1>5 DEF Begin, InCall, Reserve, ViewMemory, WriteInput, Export, AnswerAt, Settle, Trap
    <2> QED
      BY <2>1, GlueStands
  <1>6. CASE UNCHANGED vars
    BY <1>6, GlueStands DEF vars
  <1> QED
    BY <1>1, <1>2, <1>3, <1>4, <1>5, <1>6 DEF Next

(***************************************************************************)
(* The page's globals survive the load of the glue (go.ts), whatever names *)
(* the page has and however often it writes them.                          *)
(***************************************************************************)
THEOREM GlobalsTheorem == Spec => []GlobalsAreThePages
  <1>1. Init => GlueInv
    BY GlueInitInv DEF Init
  <1>2. GlueInv => GlobalsAreThePages
    BY DEF GlueInv
  <1> QED
    BY <1>1, <1>2, GlueStep, PTL DEF Spec

-----------------------------------------------------------------------------
(***************************************************************************)
(* The calls.  Each lemma is a step of engine.ts and keeps CallInv.        *)
(***************************************************************************)

(* A fresh instance is sound, and a holder at rest has no call. *)
LEMMA FreshAndIdle ==
    /\ Fresh \in InstanceRecord /\ ~Fresh.dead /\ Fresh.memory <= MemoryBound
    /\ Idle \in [step : Steps, id : Nat, view : Nat] /\ Idle.step = "idle"
  BY EngineAssumption DEF Fresh, InstanceRecord, Idle, Steps

(* Nothing is loaded and nobody calls at the start. *)
LEMMA CallInitInv == Init => CallInv
  <1> SUFFICES ASSUME Init PROVE CallInv
    OBVIOUS
  <1>1. EngineType
    BY FreshAndIdle DEF Init, EngineType
  <1>2. OneCall /\ BoxesAreTheCalls
    BY FreshAndIdle DEF Init, OneCall, BoxesAreTheCalls
  <1>3. AnswersAreTheirOwn /\ OneLoad /\ SoundInstances
    BY FreshAndIdle DEF Init, AnswersAreTheirOwn, OneLoad, SoundInstances
  <1> QED
    BY <1>1, <1>2, <1>3 DEF CallInv

(* What a step that leaves the calls and the loader alone keeps. *)
LEMMA CallsStand == CallInv /\ UNCHANGED <<loaderVars, callVars>> => CallInv'
  BY DEF CallInv, EngineType, OneCall, BoxesAreTheCalls, AnswersAreTheirOwn, OneLoad,
         SoundInstances, loaderVars, callVars

(* A load starts for the first holder of a module alone. *)
LEMMA EngineForKeeps ==
    ASSUME CallInv, NEW h \in Holder, NEW m \in Module, EngineFor(h, m)
    PROVE  CallInv'
  <1> USE DEF CallInv, EngineFor, callVars
  <1>1. EngineType'
    BY DEF EngineType
  <1>2. OneCall' /\ BoxesAreTheCalls' /\ SoundInstances'
    BY DEF OneCall, BoxesAreTheCalls, SoundInstances, Quiet, EngineType
  <1>3. OneLoad'
    <2>1. CASE engines[m] = "none"
      BY <2>1 DEF OneLoad, EngineType
    <2>2. CASE engines[m] # "none"
      BY <2>2 DEF OneLoad
    <2> QED
      BY <2>1, <2>2
  <1> QED
    BY <1>1, <1>2, <1>3 DEF AnswersAreTheirOwn

(* Settling the load changes what the promise says, which never goes back  *)
(* to "none", and leaves a stillborn instance only where the host starved  *)
(* it.                                                                     *)
LEMMA LoadEngineKeeps ==
    ASSUME CallInv, NEW m \in Module, LoadEngine(m)
    PROVE  CallInv'
  <1> USE DEF CallInv, LoadEngine
  <1>1. \E e \in {"ready", "rejected"} : engines' = [engines EXCEPT ![m] = e]
    OBVIOUS
  <1>2. \/ starved' = TRUE /\ instance' = [instance EXCEPT ![m] = [Fresh EXCEPT !.dead = TRUE]]
        \/ starved' \in {TRUE, starved} /\ instance' = instance
    BY DEF Stillborn
  <1>3. instance' \in [Module -> InstanceRecord] /\ starved' \in BOOLEAN
    <2>1. [Fresh EXCEPT !.dead = TRUE] \in InstanceRecord
      BY FreshAndIdle DEF InstanceRecord
    <2> QED
      BY <1>2, <2>1 DEF EngineType
  <1>4. EngineType' /\ OneLoad'
    BY <1>1, <1>3 DEF EngineType, OneLoad
  <1>5. OneCall' /\ BoxesAreTheCalls' /\ AnswersAreTheirOwn'
    BY DEF OneCall, BoxesAreTheCalls, AnswersAreTheirOwn, Quiet
  <1>6. SoundInstances'
    BY <1>2 DEF SoundInstances, EngineType
  <1> QED
    BY <1>4, <1>5, <1>6

(* A call begins when none is running. *)
LEMMA BeginKeeps ==
    ASSUME CallInv, NEW h \in Holder, Begin(h)
    PROVE  CallInv'
  <1> USE DEF CallInv, Begin, loaderVars
  <1>1. EngineType'
    BY DEF EngineType, Steps
  <1>2. OneCall' /\ BoxesAreTheCalls'
    BY <1>1 DEF OneCall, BoxesAreTheCalls, EngineType, Quiet
  <1>3. AnswersAreTheirOwn' /\ OneLoad'
    BY DEF AnswersAreTheirOwn, OneLoad
  <1>4. SoundInstances'
    BY DEF SoundInstances, Quiet, EngineType
  <1> QED
    BY <1>1, <1>2, <1>3, <1>4

(* An instance grows or stays; it is still one, and dead only if it was.   *)
LEMMA GrownLemma ==
    ASSUME NEW i \in InstanceRecord, NEW g \in Grown(i)
    PROVE  /\ g \in InstanceRecord
           /\ g.dead = i.dead /\ g.inbox = i.inbox /\ g.outbox = i.outbox
  <1>1. PICK m \in Nat, b \in Nat : m = 2 * i.memory /\ b = i.buffer + 1
    BY DEF InstanceRecord
  <1> DEFINE d == [i EXCEPT !.memory = m, !.buffer = b]
  <1>2. d \in InstanceRecord /\ d.dead = i.dead /\ d.inbox = i.inbox /\ d.outbox = i.outbox
    BY DEF InstanceRecord
  <1>3. g = i \/ g = d
    BY <1>1 DEF Grown
  <1> QED
    BY <1>2, <1>3

(***************************************************************************)
(* A step inside the call of h replaces at most the instance of its module *)
(* and moves h alone.  What is left to show of such a step is what it says *)
(* of h and of that module.                                                *)
(***************************************************************************)
LEMMA InsideACall ==
    ASSUME CallInv, NEW h \in Holder, NEW i \in InstanceRecord,
           NEW c \in [step : Steps, id : Nat, view : Nat],
           call[h].step # "idle",
           UNCHANGED <<loaderVars, calls>>,
           instance' = [instance EXCEPT ![holds[h]] = i],
           call' = [call EXCEPT ![h] = c],
           starved' \in BOOLEAN, starved => starved',
           c.step = "written" => i.inbox = c.id,
           c.step \in {"exported", "looked", "found"} => i.outbox = c.id,
           c.step \in {"aimed", "looked", "found"} => c.view = i.buffer,
           ~starved' => ~i.dead /\ (c.step = "idle" => i.memory <= MemoryBound),
           AnswersAreTheirOwn'
    PROVE  CallInv'
  <1> DEFINE m == holds[h]
  <1> USE DEF CallInv, loaderVars
  <1>1. m \in Module
    BY DEF OneCall
  <1>2. EngineType'
    BY <1>1 DEF EngineType
  <1>3. call'[h] = c /\ instance'[m] = i
    BY <1>1 DEF EngineType
  <1>4. \A k \in Holder : k # h => call'[k] = call[k] /\ call[k].step = "idle"
    BY DEF EngineType, OneCall
  <1>5. OneCall'
    BY <1>1, <1>3, <1>4 DEF OneCall
  <1>6. BoxesAreTheCalls'
    BY <1>3, <1>4 DEF BoxesAreTheCalls
  <1>7. OneLoad'
    BY DEF OneLoad
  <1>8. SoundInstances'
    <2> SUFFICES ASSUME ~starved', NEW n \in Module
                 PROVE  /\ ~instance'[n].dead
                        /\ \/ instance'[n].memory <= MemoryBound
                           \/ \E k \in Holder : call'[k].step # "idle" /\ holds'[k] = n
      BY DEF SoundInstances
    <2>1. CASE n = m
      BY <1>3, <2>1
    <2>2. CASE n # m
      BY <1>3, <1>4, <2>2 DEF SoundInstances, EngineType
    <2> QED
      BY <2>1, <2>2
  <1> QED
    BY <1>2, <1>5, <1>6, <1>7, <1>8

(* reserve: the input's room, and the old one forgotten. *)
LEMMA ReserveKeeps ==
    ASSUME CallInv, NEW h \in Holder, Reserve(h)
    PROVE  CallInv'
  <1> DEFINE m == holds[h]
  <1>1. m \in Module /\ instance[m] \in InstanceRecord /\ ~instance[m].dead
    BY DEF Reserve, CallInv, OneCall, EngineType
  <1>2. PICK g \in Grown(instance[m]) : instance' = [instance EXCEPT ![m] = [g EXCEPT !.inbox = 0]]
    BY DEF Reserve
  <1> DEFINE i == [g EXCEPT !.inbox = 0]
             c == [call[h] EXCEPT !.step = "reserved"]
  <1>3. g \in InstanceRecord /\ g.dead = instance[m].dead
    BY <1>1, GrownLemma
  <1>4. i \in InstanceRecord /\ i.dead = g.dead
    BY <1>3 DEF InstanceRecord
  <1>5. c \in [step : Steps, id : Nat, view : Nat] /\ c.step = "reserved"
    BY DEF CallInv, EngineType, Steps
  <1>6. call' = [call EXCEPT ![h] = c] /\ instance' = [instance EXCEPT ![m] = i]
    BY <1>2 DEF Reserve
  <1>7. /\ call[h].step # "idle" /\ UNCHANGED <<loaderVars, calls, starved, answers>>
        /\ starved \in BOOLEAN
    BY DEF Reserve, CallInv, EngineType
  <1>8. AnswersAreTheirOwn'
    BY <1>7 DEF CallInv, AnswersAreTheirOwn
  <1> HIDE DEF i, c, m
  <1> QED
    BY <1>1, <1>3, <1>4, <1>5, <1>6, <1>7, <1>8, InsideACall DEF m

(* The view is over the buffer there is. *)
LEMMA ViewMemoryKeeps ==
    ASSUME CallInv, NEW h \in Holder, ViewMemory(h)
    PROVE  CallInv'
  <1> DEFINE m == holds[h]
             i == instance[m]
             step == IF call[h].step = "reserved" THEN "aimed" ELSE "looked"
             c == [call[h] EXCEPT !.step = step, !.view = i.buffer]
  <1>1. /\ m \in Module /\ i \in InstanceRecord /\ call[h].step \in {"reserved", "exported"}
        /\ call[h].step = "exported" => i.outbox = call[h].id
    BY DEF ViewMemory, CallInv, OneCall, EngineType, BoxesAreTheCalls
  <1>2. i.buffer \in Nat
    BY <1>1 DEF InstanceRecord
  <1>3. /\ c \in [step : Steps, id : Nat, view : Nat]
        /\ c.step = step /\ c.id = call[h].id /\ c.view = i.buffer
    BY <1>2 DEF CallInv, EngineType, Steps
  <1>4. call' = [call EXCEPT ![h] = c] /\ instance' = [instance EXCEPT ![m] = i]
    <2>1. call' = [call EXCEPT ![h] = c]
      BY DEF ViewMemory
    <2>2. instance' = instance /\ instance = [instance EXCEPT ![m] = i]
      BY <1>1 DEF ViewMemory, CallInv, EngineType
    <2> QED
      BY <2>1, <2>2
  <1>5. /\ call[h].step # "idle" /\ UNCHANGED <<loaderVars, calls, starved, answers>>
        /\ starved \in BOOLEAN
    BY DEF ViewMemory, CallInv, EngineType
  <1>6. AnswersAreTheirOwn' /\ (~starved => ~i.dead)
    BY <1>1, <1>5 DEF CallInv, AnswersAreTheirOwn, SoundInstances
  <1>7. c.step \in {"aimed", "looked"} /\ (c.step = "looked" => i.outbox = c.id)
    BY <1>1, <1>3
  <1> HIDE DEF i, c, step
  <1> QED
    BY <1>1, <1>3, <1>4, <1>5, <1>6, <1>7, InsideACall

(* The copy: the inbox holds the call's own input. *)
LEMMA WriteInputKeeps ==
    ASSUME CallInv, NEW h \in Holder, WriteInput(h)
    PROVE  CallInv'
  <1> DEFINE m == holds[h]
             i == [instance[m] EXCEPT !.inbox = call[h].id]
             c == [call[h] EXCEPT !.step = "written"]
  <1>1. m \in Module /\ instance[m] \in InstanceRecord /\ call[h].id \in Nat
    BY DEF WriteInput, CallInv, OneCall, EngineType
  <1>2. i \in InstanceRecord /\ i.dead = instance[m].dead /\ i.inbox = call[h].id
    BY <1>1 DEF InstanceRecord
  <1>3. c \in [step : Steps, id : Nat, view : Nat] /\ c.step = "written" /\ c.id = call[h].id
    BY DEF CallInv, EngineType, Steps
  <1>4. call' = [call EXCEPT ![h] = c] /\ instance' = [instance EXCEPT ![m] = i]
    BY DEF WriteInput
  <1>5. /\ call[h].step # "idle" /\ UNCHANGED <<loaderVars, calls, starved, answers>>
        /\ starved \in BOOLEAN
    BY DEF WriteInput, CallInv, EngineType
  <1>6. AnswersAreTheirOwn' /\ (~starved => ~instance[m].dead)
    BY <1>1, <1>5 DEF CallInv, AnswersAreTheirOwn, SoundInstances
  <1> HIDE DEF i, c
  <1> QED
    BY <1>1, <1>2, <1>3, <1>4, <1>5, <1>6, InsideACall

(* The export: the outbox holds the answer to the input that is there. *)
LEMMA ExportKeeps ==
    ASSUME CallInv, NEW h \in Holder, Export(h)
    PROVE  CallInv'
  <1> DEFINE m == holds[h]
  <1>1. m \in Module /\ instance[m] \in InstanceRecord /\ instance[m].inbox = call[h].id
    BY DEF Export, CallInv, OneCall, EngineType, BoxesAreTheCalls
  <1>2. PICK g \in Grown(instance[m]) :
            instance' = [instance EXCEPT ![m] = [g EXCEPT !.outbox = g.inbox]]
    BY DEF Export
  <1> DEFINE i == [g EXCEPT !.outbox = g.inbox]
             c == [call[h] EXCEPT !.step = "exported"]
  <1>3. g \in InstanceRecord /\ g.dead = instance[m].dead /\ g.inbox = instance[m].inbox
    BY <1>1, GrownLemma
  <1>4. i \in InstanceRecord /\ i.dead = g.dead /\ i.outbox = g.inbox
    BY <1>3 DEF InstanceRecord
  <1>5. c \in [step : Steps, id : Nat, view : Nat] /\ c.step = "exported" /\ c.id = call[h].id
    BY DEF CallInv, EngineType, Steps
  <1>6. call' = [call EXCEPT ![h] = c] /\ instance' = [instance EXCEPT ![m] = i]
    BY <1>2 DEF Export
  <1>7. /\ call[h].step # "idle" /\ UNCHANGED <<loaderVars, calls, starved, answers>>
        /\ starved \in BOOLEAN
    BY DEF Export, CallInv, EngineType
  <1>8. AnswersAreTheirOwn' /\ (~starved => ~instance[m].dead)
    BY <1>1, <1>7 DEF CallInv, AnswersAreTheirOwn, SoundInstances
  <1> HIDE DEF i, c
  <1> QED
    BY <1>1, <1>3, <1>4, <1>5, <1>6, <1>7, <1>8, InsideACall

(* answerAt: the buffer taken before it is the one there after it. *)
LEMMA AnswerAtKeeps ==
    ASSUME CallInv, NEW h \in Holder, AnswerAt(h)
    PROVE  CallInv'
  <1> DEFINE m == holds[h]
             i == instance[m]
             c == [call[h] EXCEPT !.step = "found"]
  <1>1. m \in Module /\ i \in InstanceRecord /\ i.outbox = call[h].id /\ call[h].view = i.buffer
    BY DEF AnswerAt, CallInv, OneCall, EngineType, BoxesAreTheCalls
  <1>2. /\ c \in [step : Steps, id : Nat, view : Nat]
        /\ c.step = "found" /\ c.id = call[h].id /\ c.view = call[h].view
    BY DEF CallInv, EngineType, Steps
  <1>3. call' = [call EXCEPT ![h] = c] /\ instance' = [instance EXCEPT ![m] = i]
    BY <1>1 DEF AnswerAt, CallInv, EngineType
  <1>4. /\ call[h].step # "idle" /\ UNCHANGED <<loaderVars, calls, starved, answers>>
        /\ starved \in BOOLEAN
    BY DEF AnswerAt, CallInv, EngineType
  <1>5. AnswersAreTheirOwn' /\ (~starved => ~i.dead)
    BY <1>1, <1>4 DEF CallInv, AnswersAreTheirOwn, SoundInstances
  <1> HIDE DEF i, c
  <1> QED
    BY <1>1, <1>2, <1>3, <1>4, <1>5, InsideACall

(***************************************************************************)
(* The end of a call: h is at rest, and its module has the instance i.     *)
(***************************************************************************)
LEMMA CallEnds ==
    ASSUME CallInv, NEW h \in Holder, NEW i \in InstanceRecord,
           call[h].step # "idle",
           UNCHANGED <<loaderVars, calls>>,
           instance' = [instance EXCEPT ![holds[h]] = i],
           call' = [call EXCEPT ![h] = Idle],
           starved' \in BOOLEAN, starved => starved',
           ~starved' => ~i.dead /\ i.memory <= MemoryBound,
           AnswersAreTheirOwn'
    PROVE  CallInv'
  BY FreshAndIdle, InsideACall

(* fresh gives a sound instance, or a stillborn one to a starved page. *)
LEMMA RenewLemma ==
    ASSUME CallInv, NEW m \in Module, Renew(m)
    PROVE  \E i \in InstanceRecord :
              /\ instance' = [instance EXCEPT ![m] = i]
              /\ starved' \in BOOLEAN /\ (starved => starved')
              /\ ~starved' => ~i.dead /\ i.memory <= MemoryBound
  <1> DEFINE d == [Fresh EXCEPT !.dead = TRUE]
  <1>1. d \in InstanceRecord /\ starved \in BOOLEAN
    BY FreshAndIdle DEF InstanceRecord, CallInv, EngineType
  <1> HIDE DEF d
  <1>2. CASE instance' = [instance EXCEPT ![m] = Fresh] /\ UNCHANGED starved
    BY <1>1, <1>2, FreshAndIdle
  <1>3. CASE instance' = [instance EXCEPT ![m] = d] /\ starved' = TRUE
    BY <1>1, <1>3
  <1> QED
    BY <1>2, <1>3 DEF Renew, Stillborn, d

(* The answer handed out is the call's own; an instance past the bound is  *)
(* replaced, or the host has refused.                                      *)
LEMMA SettleKeeps ==
    ASSUME CallInv, NEW h \in Holder, Settle(h)
    PROVE  CallInv'
  <1> DEFINE m == holds[h]
             i == instance[m]
             told == answers \cup {[id |-> call[h].id, text |-> i.outbox]}
  <1>1. m \in Module /\ i \in InstanceRecord /\ i.outbox = call[h].id
    BY DEF Settle, CallInv, OneCall, EngineType, BoxesAreTheCalls
  <1>2. /\ call[h].step # "idle" /\ UNCHANGED <<loaderVars, calls>>
        /\ call' = [call EXCEPT ![h] = Idle] /\ starved \in BOOLEAN
    BY DEF Settle, CallInv, EngineType
  <1>3. AnswersAreTheirOwn'
    <2>1. answers' \in {told, answers}
      BY DEF Settle
    <2> QED
      BY <1>1, <2>1 DEF CallInv, AnswersAreTheirOwn
  <1>4. instance = [instance EXCEPT ![m] = i]
    BY <1>1 DEF CallInv, EngineType
  <1>5. ~starved => ~i.dead
    BY <1>1 DEF CallInv, SoundInstances
  <1>6. CASE i.memory <= MemoryBound /\ UNCHANGED <<instance, starved>>
    BY <1>1, <1>2, <1>3, <1>4, <1>5, <1>6, CallEnds
  <1>7. CASE Renew(m)
    BY <1>1, <1>2, <1>3, <1>7, RenewLemma, CallEnds
  <1>8. CASE Starve(m, i)
    BY <1>1, <1>2, <1>3, <1>8, CallEnds DEF Starve
  <1> QED
    BY <1>6, <1>7, <1>8 DEF Settle

(* A trap: the instance is replaced, or the host has refused. *)
LEMMA TrapKeeps ==
    ASSUME CallInv, NEW h \in Holder, Trap(h)
    PROVE  CallInv'
  <1> DEFINE m == holds[h]
  <1>1. m \in Module /\ instance[m] \in InstanceRecord
    BY DEF Trap, CallInv, OneCall, EngineType
  <1>2. PICK g \in Grown(instance[m]) : Renew(m) \/ Starve(m, [g EXCEPT !.dead = TRUE])
    BY DEF Trap
  <1> DEFINE i == [g EXCEPT !.dead = TRUE]
  <1>3. i \in InstanceRecord
    BY <1>1, GrownLemma DEF InstanceRecord
  <1>4. /\ call[h].step # "idle" /\ UNCHANGED <<loaderVars, calls>>
        /\ call' = [call EXCEPT ![h] = Idle] /\ starved \in BOOLEAN
    BY DEF Trap, CallInv, EngineType
  <1>5. AnswersAreTheirOwn'
    BY DEF Trap, CallInv, AnswersAreTheirOwn
  <1> HIDE DEF i
  <1>6. CASE Renew(m)
    BY <1>1, <1>4, <1>5, <1>6, RenewLemma, CallEnds
  <1>7. CASE Starve(m, i)
    BY <1>3, <1>4, <1>5, <1>7, CallEnds DEF Starve
  <1> QED
    BY <1>2, <1>6, <1>7 DEF i

(* Every step of the system keeps the calls' invariant. *)
LEMMA CallStep == CallInv /\ [Next]_vars => CallInv'
  <1> SUFFICES ASSUME CallInv, [Next]_vars PROVE CallInv'
    OBVIOUS
  <1>1. CASE LoadGlue
    BY <1>1, CallsStand DEF LoadGlue
  <1>2. ASSUME NEW n \in Names, PageWritesGlobal(n) PROVE CallInv'
    BY <1>2, CallsStand DEF PageWritesGlobal
  <1>3. ASSUME NEW h \in Holder, NEW m \in Module, EngineFor(h, m) PROVE CallInv'
    BY <1>3, EngineForKeeps
  <1>4. ASSUME NEW m \in Module, LoadEngine(m) PROVE CallInv'
    BY <1>4, LoadEngineKeeps
  <1>5. ASSUME NEW h \in Holder, Begin(h) PROVE CallInv'
    BY <1>5, BeginKeeps
  <1>6. ASSUME NEW h \in Holder, InCall(h) PROVE CallInv'
    BY <1>6, ReserveKeeps, ViewMemoryKeeps, WriteInputKeeps, ExportKeeps, AnswerAtKeeps, SettleKeeps,
       TrapKeeps DEF InCall
  <1>7. CASE UNCHANGED vars
    BY <1>7, CallsStand DEF vars
  <1> QED
    BY <1>1, <1>2, <1>3, <1>4, <1>5, <1>6, <1>7 DEF Next

(* The calls' invariant, for the theorems below. *)
LEMMA CallsInvariant == Spec => []CallInv
  BY CallInitInv, CallStep, PTL DEF Spec

(***************************************************************************)
(* However many holders share an instance, a call is answered about its    *)
(* own input (engine.ts: one inbox and one outbox).                        *)
(***************************************************************************)
THEOREM AnswersTheorem == Spec => []AnswersAreTheirOwn
  <1>1. CallInv => AnswersAreTheirOwn
    BY DEF CallInv
  <1> QED
    BY <1>1, CallsInvariant, PTL

(***************************************************************************)
(* An input is copied into, and an answer read from, the buffer the memory *)
(* has then: a view is taken after reserve and again after the export,     *)
(* answerAt, the one export called while a view is held, allocates         *)
(* nothing, and no other call runs meanwhile.                              *)
(***************************************************************************)
THEOREM BufferTheorem == Spec => []NoDetachedBuffer
  <1>1. CallInv => NoDetachedBuffer
    BY DEF CallInv, BoxesAreTheCalls, NoDetachedBuffer, Detached
  <1> QED
    BY <1>1, CallsInvariant, PTL

(***************************************************************************)
(* Between two calls the engine of a module was loaded at most once and,   *)
(* while the host has given every instance asked for and started it, is    *)
(* live and under the memory bound.                                        *)
(***************************************************************************)
THEOREM SoundEngineTheorem == Spec => []NextCallMeetsTheOneSoundEngine
  <1>1. CallInv => NextCallMeetsTheOneSoundEngine
    BY DEF CallInv, OneLoad, SoundInstances, NextCallMeetsTheOneSoundEngine, Quiet
  <1> QED
    BY <1>1, CallsInvariant, PTL
=============================================================================
