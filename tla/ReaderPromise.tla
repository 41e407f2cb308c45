--------------------------- MODULE ReaderPromise ---------------------------
(***************************************************************************)
(* What every reader of a cloud's documents promises (docs/OVERVIEW.md,    *)
(* trust.Grant): it only ever adds grants, and each one it hands out is    *)
(* honest about what is deployed, whatever in the document it could not    *)
(* read.  The readers of AWS, Google and Azure documents implement it.     *)
(***************************************************************************)
EXTENDS AdmittedSet

VARIABLE grants   \* the grants handed out, each with the tokens it really matches

(* An Allow, and a grant whose effect was not read, admits every token it  *)
(* may really match; a Deny takes out only tokens it really matches; and a *)
(* grant with no caveat is exactly what is deployed.                       *)
Honest(g) ==
    /\ g.effect # "Deny" => g.matches \subseteq Admitted(g.admits)
    /\ g.effect = "Deny" => Admitted(g.admits) \subseteq g.matches
    /\ IsExact(g.admits) => Admitted(g.admits) = g.matches

Init == grants = {}

HandOut ==
    /\ grants \subseteq grants'
    /\ \A g \in grants' \ grants : Honest(g)

Spec == Init /\ [][HandOut]_grants
=============================================================================
