----------------------------- MODULE WebEngine -----------------------------
(***************************************************************************)
(* web/engine/engine.ts over web/wasm/main.go: one instance of the engine  *)
(* for each compiled module, shared by every holder and replaced after a   *)
(* trap or past the memory bound.                                          *)
(*                                                                         *)
(* A call runs to completion before any other JavaScript does, so its      *)
(* steps (reserve, the copy of the input, the export, answerAt) interleave *)
(* with nothing; they are separate because some may grow the memory, which *)
(* replaces its buffer, or trap.  An input is the number of its call, and  *)
(* the answer to it carries the same number.                               *)
(***************************************************************************)
EXTENDS GoGlue

CONSTANTS
    Holder,       \* the parts of the page that use the engine
    Module,       \* the compiled modules
    Initial,      \* an instance's linear memory when it is made
    MemoryBound,  \* the memory past which an instance is replaced
    MaxMemory,    \* the most linear memory the host gives
    MaxCalls      \* bound: how many calls the holders make

ASSUME EngineAssumption ==
    /\ {Initial, MemoryBound, MaxMemory, MaxCalls} \subseteq Nat
    /\ 0 < Initial /\ Initial <= MemoryBound /\ MemoryBound <= MaxMemory

None == "none"

VARIABLES
    holds,     \* holds[h]: the module whose engine the holder asked for
    engines,   \* engines[m]: the promise engineFor keeps for the module
    loads,     \* loads[m]: how often loadEngine was called for it
    instance,  \* instance[m]: the live instance
    peak,      \* peak[m]: what peakMemoryBytes answers
    replaced,  \* replaced[m]: what replacements answers
    call,      \* call[h]: the call the holder is in
    starved,   \* whether the host ever refused an instance, or the start of one
    answers,   \* the calls that were answered, with what they were told
    calls      \* how many calls were made

loaderVars == <<holds, engines, loads>>
callVars   == <<instance, peak, replaced, call, starved, answers, calls>>
vars       == <<glueVars, loaderVars, callVars>>

Fresh == [dead |-> FALSE, memory |-> Initial, buffer |-> 0, inbox |-> 0, outbox |-> 0]

Idle == [step |-> "idle", id |-> 0, view |-> 0]

Init ==
    /\ GlueInit
    /\ holds = [h \in Holder |-> None]
    /\ engines = [m \in Module |-> "none"]
    /\ loads = [m \in Module |-> 0]
    /\ instance = [m \in Module |-> Fresh]
    /\ peak = [m \in Module |-> 0] /\ replaced = peak
    /\ call = [h \in Holder |-> Idle]
    /\ starved = FALSE /\ answers = {} /\ calls = 0

(* No JavaScript is running: the event loop may take the next task. *)
Quiet == \A h \in Holder : call[h].step = "idle"

-----------------------------------------------------------------------------
(* engineFor: the first holder of a module starts its load, and the        *)
(* promise is kept before the load has run; the others are handed it.      *)
EngineFor(h, m) ==
    /\ Quiet /\ holds[h] = None
    /\ holds' = [holds EXCEPT ![h] = m]
    /\ IF engines[m] = "none"
       THEN /\ engines' = [engines EXCEPT ![m] = "pending"]
            /\ loads' = [loads EXCEPT ![m] = @ + 1]
            /\ GoRuntime
       ELSE UNCHANGED <<engines, loads, glueVars>>
    /\ UNCHANGED callVars

(* A module whose _initialize traps, the host refusing the memory it asks  *)
(* for: run's promise carries the error and nobody reads it, so the        *)
(* instance is kept, dead.                                                 *)
Stillborn(m) ==
    /\ instance' = [instance EXCEPT ![m] = [Fresh EXCEPT !.dead = TRUE]]
    /\ starved' = TRUE

(* loadEngine once the glue is there: an instance, or the host refuses it; *)
(* a glue that did not load rejects the promise, which is kept.            *)
MutantLoadEngine(m) ==
    /\ Quiet /\ engines[m] = "pending" /\ loading = "ready"
    /\ \/ engines' = [engines EXCEPT ![m] = "ready"] /\ UNCHANGED starved
       \/ engines' = [engines EXCEPT ![m] = "rejected"] /\ starved' = TRUE
    /\ UNCHANGED <<glueVars, holds, loads, instance, peak, replaced, call, answers, calls>>

LoadEngine(m) ==
    /\ Quiet /\ engines[m] = "pending" /\ loading \in {"ready", "rejected"}
    /\ \/ /\ loading = "ready"
          /\ engines' = [engines EXCEPT ![m] = "ready"]
          /\ Stillborn(m) \/ UNCHANGED <<instance, starved>>
       \/ /\ loading = "ready"
          /\ engines' = [engines EXCEPT ![m] = "rejected"]
          /\ starved' = TRUE /\ UNCHANGED instance
       \/ /\ loading = "rejected"
          /\ engines' = [engines EXCEPT ![m] = "rejected"]
          /\ UNCHANGED <<instance, starved>>
    /\ UNCHANGED <<glueVars, holds, loads, peak, replaced, call, answers, calls>>

-----------------------------------------------------------------------------
(* The memory after an export has run: as it was, or doubled. *)
Grown(i) ==
    {i} \cup { g \in {[i EXCEPT !.memory = 2 * @, !.buffer = @ + 1]} :
                    ~i.dead /\ g.memory <= MaxMemory }

Higher(a, b) == IF a > b THEN a ELSE b

(* A call begins: its instance is the one there is now, not one the holder *)
(* saw at load.                                                            *)
MutantBegin(h) ==
    /\ call[h].step = "idle" /\ calls < MaxCalls
    /\ holds[h] # None /\ engines[holds[h]] = "ready"
    /\ calls' = calls + 1
    /\ call' = [call EXCEPT ![h] = [step |-> "called", id |-> calls + 1, view |-> 0]]
    /\ UNCHANGED <<glueVars, loaderVars, instance, peak, replaced, starved, answers>>

Begin(h) ==
    /\ Quiet /\ calls < MaxCalls
    /\ holds[h] # None /\ engines[holds[h]] = "ready"
    /\ calls' = calls + 1
    /\ call' = [call EXCEPT ![h] = [step |-> "called", id |-> calls + 1, view |-> 0]]
    /\ UNCHANGED <<glueVars, loaderVars, instance, peak, replaced, starved, answers>>

(* reserve: room in the inbox for the call's input. *)
Reserve(h) ==
    /\ call[h].step = "called" /\ ~instance[holds[h]].dead
    /\ call' = [call EXCEPT ![h].step = "reserved"]
    /\ \E i \in Grown(instance[holds[h]]) :
        /\ instance' = [instance EXCEPT ![holds[h]] = [i EXCEPT !.inbox = 0]]
    /\ UNCHANGED <<glueVars, loaderVars, peak, replaced, starved, answers, calls>>

(* memory.buffer read, for a view to copy the input into or the answer     *)
(* from: after reserve, and again after the export.                        *)
ViewMemory(h) ==
    /\ call[h].step \in {"reserved", "exported"}
    /\ call' = [call EXCEPT ![h] = [@ EXCEPT
            !.step = IF call[h].step = "reserved" THEN "aimed" ELSE "looked",
            !.view = instance[holds[h]].buffer]]
    /\ UNCHANGED <<glueVars, loaderVars, instance, peak, replaced, starved, answers, calls>>

(* A view over a buffer that growth has replaced: making or reading it     *)
(* throws.                                                                 *)
Detached(h) == call[h].view # instance[holds[h]].buffer

(* The copy of the input's parts, which calls nothing of the module. *)
WriteInput(h) ==
    /\ call[h].step = "aimed" /\ ~Detached(h)
    /\ call' = [call EXCEPT ![h].step = "written"]
    /\ instance' = [instance EXCEPT ![holds[h]].inbox = call[h].id]
    /\ UNCHANGED <<glueVars, loaderVars, peak, replaced, starved, answers, calls>>

(* admits, explain, findings, remark, fixed: the answer to the inbox. *)
Export(h) ==
    /\ call[h].step = "written"
    /\ call' = [call EXCEPT ![h].step = "exported"]
    /\ \E i \in Grown(instance[holds[h]]) :
        /\ instance' = [instance EXCEPT ![holds[h]] = [i EXCEPT !.outbox = i.inbox]]
    /\ UNCHANGED <<glueVars, loaderVars, peak, replaced, starved, answers, calls>>

(* answerAt, called when the buffer of the view is already taken, as the   *)
(* arguments of one expression; it allocates nothing.                      *)
MutantAnswerAt(h) ==
    /\ call[h].step = "looked"
    /\ call' = [call EXCEPT ![h].step = "found"]
    /\ \E i \in Grown(instance[holds[h]]) : instance' = [instance EXCEPT ![holds[h]] = i]
    /\ UNCHANGED <<glueVars, loaderVars, peak, replaced, starved, answers, calls>>

AnswerAt(h) ==
    /\ call[h].step = "looked"
    /\ call' = [call EXCEPT ![h].step = "found"]
    /\ UNCHANGED <<glueVars, loaderVars, instance, peak, replaced, starved, answers, calls>>

(* fresh: an instance made in place of m's, live or stillborn, or refused  *)
(* by the host, which throws and leaves what there was.                    *)
Renew(m) ==
    /\ \/ instance' = [instance EXCEPT ![m] = Fresh] /\ UNCHANGED starved
       \/ Stillborn(m)
    /\ replaced' = [replaced EXCEPT ![m] = @ + 1]

Starve(m, i) ==
    /\ instance' = [instance EXCEPT ![m] = i]
    /\ starved' = TRUE
    /\ UNCHANGED replaced

(* The answer is decoded; past the bound the instance is replaced, and     *)
(* when that throws the answer is lost with it.                            *)
Settle(h) ==
    /\ call[h].step = "found" /\ ~Detached(h)
    /\ LET m == holds[h]  i == instance[m]
           told == answers \cup {[id |-> call[h].id, text |-> i.outbox]}
       IN  /\ peak' = [peak EXCEPT ![m] = Higher(@, i.memory)]
           /\ \/ i.memory <= MemoryBound /\ answers' = told
                 /\ UNCHANGED <<instance, replaced, starved>>
              \/ i.memory > MemoryBound /\ answers' = told /\ Renew(m)
              \/ i.memory > MemoryBound /\ Starve(m, i) /\ UNCHANGED answers
    /\ call' = [call EXCEPT ![h] = Idle]
    /\ UNCHANGED <<glueVars, loaderVars, calls>>

MutantTrap(h) ==
    /\ call[h].step \in {"called", "written"}
    /\ \E i \in Grown(instance[holds[h]]) :
        /\ instance' = [instance EXCEPT ![holds[h]] = [i EXCEPT !.dead = TRUE]]
    /\ call' = [call EXCEPT ![h] = Idle]
    /\ UNCHANGED <<glueVars, loaderVars, peak, replaced, starved, answers, calls>>

(* A trap in reserve or in the export, at once on a dead instance, or a    *)
(* view over a detached buffer: the instance is replaced, and the caller   *)
(* is told by the error.  Its memory may have grown before the trap, which *)
(* peak does not see.                                                      *)
Throwing(h) == {"called", "written"} \cup (IF Detached(h) THEN {"aimed", "found"} ELSE {})

Trap(h) ==
    /\ call[h].step # "idle" /\ call[h].step \in Throwing(h)
    /\ \E i \in Grown(instance[holds[h]]) :
        /\ Renew(holds[h]) \/ Starve(holds[h], [i EXCEPT !.dead = TRUE])
    /\ call' = [call EXCEPT ![h] = Idle]
    /\ UNCHANGED <<glueVars, loaderVars, peak, answers, calls>>

-----------------------------------------------------------------------------
LoadGlue == Quiet /\ Load /\ UNCHANGED <<loaderVars, callVars>>

PageWritesGlobal(n) == Quiet /\ PageWrites(n) /\ UNCHANGED <<loaderVars, callVars>>

InCall(h) ==
    \/ Reserve(h) \/ ViewMemory(h) \/ WriteInput(h) \/ Export(h) \/ AnswerAt(h)
    \/ Settle(h) \/ Trap(h)

Next ==
    \/ LoadGlue
    \/ \E n \in Names : PageWritesGlobal(n)
    \/ \E h \in Holder, m \in Module : EngineFor(h, m)
    \/ \E m \in Module : LoadEngine(m)
    \/ \E h \in Holder : Begin(h) \/ InCall(h)

(* A call that began goes on, imports settle, and continuations are run;   *)
(* no holder has to make a call.                                           *)
Fairness ==
    /\ \A h \in Holder : WF_vars(InCall(h))
    /\ WF_vars(LoadGlue)
    /\ \A m \in Module : WF_vars(LoadEngine(m))

Spec == Init /\ [][Next]_vars /\ Fairness

-----------------------------------------------------------------------------
(***************************************************************************)
(* A call is answered about its own input, though all holders share one    *)
(* inbox and one outbox (the header of engine.ts).                         *)
(***************************************************************************)
AnswersAreTheirOwn == \A a \in answers : a.text = a.id

(***************************************************************************)
(* The input is never copied into, nor the answer read from, a buffer that *)
(* growth has replaced (call in engine.ts: memory.buffer is read after     *)
(* every call into the module): not by this call's reserve, export or      *)
(* answerAt, nor by another holder's call on the same instance.            *)
(***************************************************************************)
NoDetachedBuffer ==
    \A h \in Holder : call[h].step \in {"aimed", "looked", "found"} => ~Detached(h)

(***************************************************************************)
(* The next call meets the one engine of its module, live and under the    *)
(* memory bound: it is loaded once, also when a second holder asks while   *)
(* the first load is under way, a trap is met once, by its caller, and a   *)
(* tab has a ceiling.  Only a host that refuses an instance, or the memory *)
(* its start asks for, leaves a dead or a large one behind.                *)
(***************************************************************************)
NextCallMeetsTheOneSoundEngine ==
    \A m \in Module :
        /\ loads[m] <= 1
        /\ Quiet /\ ~starved => ~instance[m].dead /\ instance[m].memory <= MemoryBound

(***************************************************************************)
(* Every holder that asks for an engine gets it or is told that it cannot. *)
(***************************************************************************)
EveryHolderIsAnswered ==
    \A h \in Holder, m \in Module :
        holds[h] = m ~> engines[m] \in {"ready", "rejected"}
=============================================================================
