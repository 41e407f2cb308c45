------------------------------ MODULE Evaluator ------------------------------
(***************************************************************************)
(* How the readers build admitted sets.  A reader turns each construct of  *)
(* a document into a set and combines the sets with Meet (and) and Join    *)
(* (or), as parse/gcp/cel.go (admitted) and parse/aws/condition.go         *)
(* (project, withCaveats) do.  A construct it cannot evaluate becomes an   *)
(* Unknown claim and a caveat; one it is not sure of is kept with a        *)
(* caveat.                                                                 *)
(*                                                                         *)
(* Beside each set the model keeps what the cloud really admits.  The      *)
(* rule of docs/OVERVIEW.md is that nothing the engine cannot read narrows *)
(* an answer, and that a set without a caveat is the answer itself.        *)
(***************************************************************************)
EXTENDS AdmittedSet

CONSTANTS
    Reg,       \* the sets a reader has in hand
    Readable,  \* terms a reader can read exactly
    Hidden     \* what a construct the reader cannot evaluate may really admit

ASSUME ReaderAssumption ==
    /\ Readable \subseteq ClaimTerms
    /\ \A t \in Readable : \A c \in DOMAIN t : ~IsUnknown(t[c])
    /\ Hidden \subseteq SUBSET Tokens

VARIABLES
    set,    \* set[r]: the admitted set the reader computed
    truth   \* truth[r]: the tokens the cloud admits there

vars == <<set, truth>>

Init ==
    /\ set = [r \in Reg |-> Nothing]
    /\ truth = [r \in Reg |-> {}]

Assign(r, s, t) ==
    /\ set' = [set EXCEPT ![r] = s]
    /\ truth' = [truth EXCEPT ![r] = t]

(* A construct the reader evaluates. *)
Read(r, term) ==
    Assign(r, NewAdmittedSet({term}),
              { token \in Tokens : Failures(term, token) = {} })

(* A construct it cannot: its claim is Unknown, with a caveat. *)
ReadUnevaluated(r, claim, reason, caveat, hidden) ==
    Assign(r, WithCaveat(NewAdmittedSet({[c \in {claim} |-> Unknown({reason})]}), caveat),
              hidden)

(* A construct it may be reading too widely: the set stands, doubted. *)
Doubt(r, caveat, hidden) ==
    Assign(r, WithCaveat(set[r], caveat), truth[r] \cap hidden)

And(r, p, q) == Assign(r, MeetSets(set[p], set[q]), truth[p] \cap truth[q])

Or(r, p, q)  == Assign(r, JoinSets(set[p], set[q]), truth[p] \cup truth[q])

(* A document that says nothing about the token. *)
ReadEverything(r) == Assign(r, Everything, Tokens)

Next ==
    \E r \in Reg :
        \/ \E term \in Readable : Read(r, term)
        \/ \E claim \in Claim, reason \in Reason, caveat \in Caveat, hidden \in Hidden :
                ReadUnevaluated(r, claim, reason, caveat, hidden)
        \/ \E caveat \in Caveat, hidden \in Hidden : Doubt(r, caveat, hidden)
        \/ \E p, q \in Reg : And(r, p, q)
        \/ \E p, q \in Reg : Or(r, p, q)
        \/ ReadEverything(r)

Spec == Init /\ [][Next]_vars

-----------------------------------------------------------------------------
(***************************************************************************)
(* Every set a reader holds is well formed, and canonical as admitted.go   *)
(* promises: no dead term, no claim spelled out as Any, a term that admits *)
(* every token only as the single empty term.                              *)
(***************************************************************************)
TypeOK ==
    /\ DOMAIN set = Reg /\ truth \in [Reg -> SUBSET Tokens]
    /\ \A r \in Reg : set[r].caveats \subseteq Caveats /\ Canonical(set[r])

(***************************************************************************)
(* An answer is an upper bound: every token the cloud admits, the computed *)
(* set admits, whatever was not evaluated and however the parts were       *)
(* combined.                                                               *)
(***************************************************************************)
NothingUnreadNarrows ==
    \A r \in Reg : truth[r] \subseteq Admitted(set[r])

(***************************************************************************)
(* A set with no caveat is the admitted set itself, neither wider nor      *)
(* narrower (AdmittedSet.Exact): every widening, the term cap's included,  *)
(* left a caveat that no later operation lost.                             *)
(***************************************************************************)
ExactIsTheTruth ==
    \A r \in Reg : IsExact(set[r]) => Admitted(set[r]) = truth[r]

(***************************************************************************)
(* The term cap is an invariant of every value: past it a set is           *)
(* Everything, never a truncated list.                                     *)
(***************************************************************************)
CapIsKept == \A r \in Reg : Cardinality(set[r].terms) <= TermCap
=============================================================================
