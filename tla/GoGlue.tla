------------------------------- MODULE GoGlue -------------------------------
(***************************************************************************)
(* web/engine/go.ts: TinyGo's glue loaded once, and the names it writes    *)
(* onto globalThis taken back.  The load awaits an import, which may be a  *)
(* network fetch, and the page goes on writing to globalThis meanwhile.    *)
(*                                                                         *)
(* A global is absent, or holds the page's value from before ("old"), one  *)
(* the page wrote since ("new"), or the glue's ("glue").                   *)
(***************************************************************************)
EXTENDS Naturals, FiniteSets

CONSTANTS
    Names,      \* the names on globalThis the model looks at
    MaxWrites   \* bound: how often the page writes to them

GLUE_GLOBALS == {"Go", "fs", "process"}

ASSUME GlueAssumption == GLUE_GLOBALS \subseteq Names /\ MaxWrites \in Nat

VARIABLES
    globals,  \* what globalThis holds
    before,   \* the descriptors load() saved
    loading,  \* the promise goRuntime keeps, and how far its load is
    class,    \* the Go class the promise resolved to
    page,     \* what the page alone would have left in globalThis
    touched,  \* the names the page wrote while the load was under way
    writes    \* how often the page has written

glueVars == <<globals, before, loading, class, page, touched, writes>>

GlueInit ==
    /\ globals \in [Names -> {"absent", "old"}]
    /\ before = globals
    /\ loading = "none" /\ class = "none"
    /\ page = globals
    /\ touched = {} /\ writes = 0

(* goRuntime: the first call starts the load, which saves the descriptors  *)
(* before it awaits; every other call gets the same promise.               *)
GoRuntime ==
    IF loading = "none"
    THEN /\ loading' = "importing"
         /\ before' = globals
         /\ UNCHANGED <<globals, class, page, touched, writes>>
    ELSE UNCHANGED glueVars

(* The import: wasm_exec.js runs, or never arrives. *)
EvaluateGlue ==
    /\ loading = "importing"
    /\ loading' = "evaluated"
    /\ globals' = [n \in Names |->
            IF n = "Go" \/ (n \in GLUE_GLOBALS /\ globals[n] = "absent")
            THEN "glue" ELSE globals[n]]
    /\ UNCHANGED <<before, class, page, touched, writes>>

(* Or it throws, in a page without what it needs, having defined fs and    *)
(* process, which nobody takes back.                                       *)
ImportFails ==
    /\ loading = "importing"
    /\ loading' = "rejected"
    /\ \/ UNCHANGED globals
       \/ globals' = [n \in Names |->
                IF n \in {"fs", "process"} /\ globals[n] = "absent" THEN "glue" ELSE globals[n]]
    /\ UNCHANGED <<before, class, page, touched, writes>>

MutantTakeBackDifference ==
    /\ loading = "evaluated" /\ globals["Go"] # "absent"
    /\ loading' = "ready" /\ class' = globals["Go"]
    /\ globals' = before
    /\ UNCHANGED <<before, page, touched, writes>>

(* The rest of load: each name deleted, and defined again as it was.  A    *)
(* glue that left no Go is an error, thrown before anything is taken back. *)
TakeBack ==
    /\ loading = "evaluated" /\ globals["Go"] # "absent"
    /\ loading' = "ready" /\ class' = globals["Go"]
    /\ globals' = [n \in Names |-> IF n \in GLUE_GLOBALS THEN before[n] ELSE globals[n]]
    /\ UNCHANGED <<before, page, touched, writes>>

NoGo ==
    /\ loading = "evaluated" /\ globals["Go"] = "absent"
    /\ loading' = "rejected"
    /\ UNCHANGED <<globals, before, class, page, touched, writes>>

Load == EvaluateGlue \/ ImportFails \/ TakeBack \/ NoGo

(* The page writes a global of its own, or deletes one. *)
PageWrites(n) ==
    /\ writes < MaxWrites
    /\ writes' = writes + 1
    /\ \E v \in {"absent", "new"} :
        globals' = [globals EXCEPT ![n] = v] /\ page' = [page EXCEPT ![n] = v]
    /\ touched' = IF loading \in {"importing", "evaluated"} THEN touched \cup {n} ELSE touched
    /\ UNCHANGED <<before, loading, class>>

-----------------------------------------------------------------------------
(***************************************************************************)
(* Once the glue is loaded none of its names is left on globalThis, and a  *)
(* name the page did not write meanwhile holds what the page put there,    *)
(* the glue's three included (the header of go.ts: a page would otherwise  *)
(* find itself with a process).  A name of the page's own is the page's    *)
(* throughout, whenever it was written: the loader takes back by name and  *)
(* not by difference.                                                      *)
(***************************************************************************)
GlobalsAreThePages ==
    /\ loading = "ready" => \A n \in Names :
        globals[n] # "glue" /\ (n \in touched \/ globals[n] = page[n])
    /\ \A n \in Names \ GLUE_GLOBALS : globals[n] = page[n]
=============================================================================
