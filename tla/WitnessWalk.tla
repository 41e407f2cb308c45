----------------------------- MODULE WitnessWalk -----------------------------
(***************************************************************************)
(* internal/join/witness.go: the shortest string that every one of some    *)
(* patterns matches, searched level by level over the product of the       *)
(* patterns and given up past a bound on the states visited.               *)
(*                                                                         *)
(* A state of the walk holds one position in each pattern (at: how many    *)
(* characters are behind it) and the text that reached it.                 *)
(***************************************************************************)
EXTENDS GlobPattern, FiniteSets

LOCAL INSTANCE SequencesExt

CONSTANT Filler   \* the character put where only "*" and "?" are waiting

ASSUME FillerAssumption == Filler \in Char

AtEnd(ps, at, n) == at[n] = Len(ps[n])
Waiting(ps, at, n) == ps[n][at[n] + 1]

Accepting(ps, at) == \A n \in DOMAIN ps : AtEnd(ps, at, n)

-----------------------------------------------------------------------------
(* consume: every pattern moves over one character at once, a star by      *)
(* staying where it is.  The literals waiting must agree on it.            *)
Literals(ps, at) ==
    { Waiting(ps, at, n) : n \in DOMAIN ps } \ {Star, Quest}

MutantCanConsume(ps, at) ==   \* two literals that differ are not compared
    \A n \in DOMAIN ps : ~AtEnd(ps, at, n)

CanConsume(ps, at) ==
    /\ \A n \in DOMAIN ps : ~AtEnd(ps, at, n)
    /\ \A c, d \in Literals(ps, at) : c = d

Consume(ps, s) ==
    LET c == IF Literals(ps, s.at) = {} THEN Filler
             ELSE CHOOSE x \in Literals(ps, s.at) : TRUE
    IN  [at   |-> [n \in DOMAIN ps |->
                    IF Waiting(ps, s.at, n) = Star THEN s.at[n] ELSE s.at[n] + 1],
         text |-> Append(s.text, c)]

-----------------------------------------------------------------------------
(* skipStars: a level closed under skipping stars, depth first.  A state   *)
(* seen before is dropped, and past the bound nothing is added.            *)
Exhausted(w, bound) == Cardinality(w.seen) >= bound

RECURSIVE Visit(_, _, _, _)
Visit(ps, w, s, bound) ==
    IF Exhausted(w, bound) \/ s.at \in w.seen THEN w
    ELSE FoldLeft(LAMBDA acc, n :
                    IF ~AtEnd(ps, s.at, n) /\ Waiting(ps, s.at, n) = Star
                    THEN Visit(ps, acc, [s EXCEPT !.at[n] = @ + 1], bound)
                    ELSE acc,
                  [seen |-> w.seen \cup {s.at}, level |-> Append(w.level, s)],
                  [n \in DOMAIN ps |-> n])

SkipStars(ps, seen, states, bound) ==
    FoldLeft(LAMBDA w, s : Visit(ps, w, s, bound),
             [seen |-> seen, level |-> <<>>], states)

-----------------------------------------------------------------------------
(* shortestShared: a level with an accepting state answers, even a level   *)
(* the bound cut short; a level without one is consumed, unless the bound  *)
(* is reached.                                                             *)
Found(text) == [end |-> "found", text |-> text]
Gone        == [end |-> "none"]      \* the walk ran to its end
GivenUp     == [end |-> "bound"]     \* or it did not

RECURSIVE Walk(_, _, _)
Walk(ps, w, bound) ==
    LET accepted == SelectSeq(w.level, LAMBDA s : Accepting(ps, s.at))
        movable  == SelectSeq(w.level, LAMBDA s : CanConsume(ps, s.at))
        next     == [n \in DOMAIN movable |-> Consume(ps, movable[n])]
    IN  IF w.level = <<>> THEN Gone
        ELSE IF accepted # <<>> THEN Found(Head(accepted).text)
        ELSE IF Exhausted(w, bound) THEN GivenUp
        ELSE Walk(ps, SkipStars(ps, w.seen, next, bound), bound)

ShortestShared(ps, bound) ==
    Walk(ps, SkipStars(ps, {}, <<[at |-> [n \in DOMAIN ps |-> 0], text |-> <<>>]>>, bound), bound)
=============================================================================
