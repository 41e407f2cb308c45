---------------------------- MODULE MCWebEngine ----------------------------
(***************************************************************************)
(* Two holders and two modules, a bound of one doubling and a host that    *)
(* gives two, and two calls: enough for a trap, a replacement past the     *)
(* bound and a call after either, by the same holder or the other.  The    *)
(* page has the glue's three names, there or not at the start, and one of  *)
(* its own, and writes one at any moment between two tasks.                *)
(***************************************************************************)
EXTENDS WebEngine
=============================================================================
