------------------------- MODULE FlexibleExpression -------------------------
(***************************************************************************)
(* internal/parse/azure/expression.go: the expression language of flexible *)
(* federated identity credentials, clauses claims['<name>'] <op> '<value>' *)
(* joined by " and ".  A text is a sequence of lexemes: the single quote,  *)
(* "claims[", "] ", " ", " and ", and words.                               *)
(*                                                                         *)
(* An expression is read into one term and the claims doubted.  Beside it  *)
(* stands what Entra does (Applies): what Microsoft documents means what   *)
(* it documents, and everything else may admit any of the sets a world     *)
(* gives it.                                                               *)
(***************************************************************************)
EXTENDS AdmittedSet, Sequences

Seqs == INSTANCE SequencesExt

CONSTANTS
    Sub, Aud, Workflow, RepositoryID, OwnerID,  \* the claims the language names
    Letters,      \* the words of ASCII letters alone
    Lower,        \* Lower[w]: the claim a miscased word spells
    Literal,      \* Literal[s]: the string a comparand spells
    Globbed,      \* Globbed[s]: eval.Glob of that string
    ClauseCap     \* clauseCap

ASSUME ExpressionAssumption ==
    /\ {Sub, Aud} \subseteq Claim /\ Workflow # Sub
    /\ Aud \notin {Sub, Workflow, RepositoryID, OwnerID}
    /\ DOMAIN Literal = DOMAIN Globbed /\ ClauseCap \in Nat \ {0}

Quote == "'"
AND   == " and "

-----------------------------------------------------------------------------
(* splitClauses: cut at every AND outside quotes.  A doubled quote closes  *)
(* and reopens, so counting the quotes before says what is inside.         *)
Quotes(text) == { i \in DOMAIN text : text[i] = Quote }

Inside(text, i) == Cardinality({ q \in Quotes(text) : q < i }) % 2 = 1

MutantCuts(text) == { i \in DOMAIN text : text[i] = AND }   \* the quotes are not looked at

Cuts(text) == { i \in DOMAIN text : text[i] = AND /\ ~Inside(text, i) }

SplitClauses(text) ==
    LET cuts == Seqs!SetToSortSeq({0, Len(text) + 1} \cup Cuts(text), LAMBDA a, b : a < b)
    IN  [n \in 1..(Cardinality(Cuts(text)) + 1) |-> SubSeq(text, cuts[n] + 1, cuts[n+1] - 1)]

(* scanComparand: where the comparand that begins at a position closes, 0  *)
(* when it does not.                                                       *)
Closing(s) ==
    LET close[i \in 1..(Len(s) + 2)] ==
            IF i > Len(s) THEN 0
            ELSE IF s[i] # Quote THEN close[i + 1]
            ELSE IF i < Len(s) /\ s[i + 1] = Quote THEN close[i + 2]
            ELSE i
    IN  close

(* strings.Cut: the first place of a lexeme from one on, 0 without any. *)
FirstFrom(s, i, x) ==
    LET at == { j \in i..Len(s) : s[j] = x }
    IN  IF at = {} THEN 0 ELSE CHOOSE j \in at : \A k \in at : j <= k

IsName(name) == name # <<>> /\ \A i \in DOMAIN name : name[i] \notin {" ", "] ", AND}

Broken == [ok |-> FALSE]

(* parseClause: the documented form, or nothing. *)
ParseClause(s) ==
    LET endName == FirstFrom(s, 3, Quote)
        name    == SubSeq(s, 3, endName - 1)
        at      == endName + 2   \* past "'" and "] "
        endOp   == CHOOSE j \in at..(Len(s) + 1) :
                      /\ \A i \in at..(j - 1) : s[i] \in Letters
                      /\ j <= Len(s) => s[j] \notin Letters
        close   == Closing(s)[endOp + 2]
    IN  IF Len(s) < 2 \/ SubSeq(s, 1, 2) # <<"claims[", Quote>> \/ endName = 0 \/ ~IsName(name)
        THEN Broken
        ELSE IF endName + 1 > Len(s) \/ s[endName + 1] # "] " THEN Broken
        ELSE IF endOp = at \/ endOp + 1 > Len(s) \/ SubSeq(s, endOp, endOp + 1) # <<" ", Quote>>
        THEN Broken
        ELSE IF close # Len(s) THEN Broken
        ELSE [ok |-> TRUE, name |-> name, operator |-> SubSeq(s, at, endOp - 1),
              comparand |-> SubSeq(s, endOp + 2, close - 1)]

-----------------------------------------------------------------------------
(***************************************************************************)
(* documentedLanguage.  An issuer is the labels of its host and whether it *)
(* has a path; NoIssuer stands for "".                                     *)
(***************************************************************************)
NoIssuer == [labels |-> <<>>, path |-> FALSE]

IsGitLabIssuer(issuer) ==
    LET l == issuer.labels IN
    /\ ~issuer.path /\ Len(l) >= 2 /\ l[1] = "gitlab"
    /\ l = <<"gitlab", "com">> \/ (Len(l) > 2 /\ l[Len(l)] \in {"com", "ca"})

Hosted(issuer, labels) == issuer = [labels |-> labels, path |-> FALSE]

EqOnly == {<<"eq">>}
EqAndMatches == {<<"eq">>, <<"matches">>}

GithubLanguage ==
    [operators |-> [c \in {Sub, Workflow, RepositoryID, OwnerID} |->
                       IF c \in {Sub, Workflow} THEN EqAndMatches ELSE EqOnly],
     required  |-> {{Sub}, {RepositoryID, OwnerID}}]

SubOnly == [operators |-> [c \in {Sub} |-> EqAndMatches], required |-> {}]

Undocumented == [operators |-> [c \in {} |-> EqOnly], required |-> {}]

DocumentedLanguage(issuer) ==
    IF Hosted(issuer, <<"token", "actions", "githubusercontent", "com">>) THEN GithubLanguage
    ELSE IF \/ Hosted(issuer, <<"app", "terraform", "io">>)
            \/ Hosted(issuer, <<"app", "eu", "terraform", "io">>)
            \/ IsGitLabIssuer(issuer) THEN SubOnly
    ELSE Undocumented

-----------------------------------------------------------------------------
(* claimKey: a name that matches a documented claim in ASCII case only is  *)
(* read as it.  A name of several words is a claim no token carries.       *)
CredentialClaims == {Aud, Sub}

Folds(name, lang) ==
    /\ Len(name) = 1 /\ name[1] \in DOMAIN Lower
    /\ Lower[name[1]] \in DOMAIN lang.operators \cup CredentialClaims

ClaimKey(name, lang) ==
    IF Folds(name, lang) THEN Lower[name[1]]
    ELSE IF Len(name) = 1 THEN name[1] ELSE "another claim"

(* constraint: the set one clause admits.  Doubt stands for widen. *)
Doubt(key) == [set |-> Unknown({key}), doubted |-> TRUE]
Reads(set) == [set |-> set, doubted |-> FALSE]

Spelt(s) == IF s \in DOMAIN Literal THEN Literal[s] ELSE "another value"

GlobOf(s) == IF s \in DOMAIN Globbed THEN Globbed[s] ELSE Exact("another value")

HoldsPair(s) == \E i \in DOMAIN s : s[i] = Quote

Modelled(c, key, lang) ==
    /\ lang # Undocumented /\ ~HoldsPair(c.comparand) /\ c.comparand # <<>>
    /\ key \in DOMAIN lang.operators /\ c.operator \in lang.operators[key]

Constraint(c, key, lang) ==
    IF ~Modelled(c, key, lang) THEN Doubt(key)
    ELSE IF c.operator = <<"eq">> THEN Reads(Exact(Spelt(c.comparand)))
    ELSE Reads(GlobOf(c.comparand))

Reading(term, doubts) == [term |-> term, doubts |-> doubts]

(* unbalanced, tooManyClauses, unparseable and required: nothing of the    *)
(* expression is read, and sub carries the Unknown.                        *)
Unmodelled == Reading([c \in {Sub} |-> Unknown({Sub})], {Sub})

Clauses(text) ==
    LET pieces == SplitClauses(text) IN [n \in DOMAIN pieces |-> ParseClause(pieces[n])]

KeysOf(clauses, lang) == [n \in DOMAIN clauses |-> ClaimKey(clauses[n].name, lang)]

(* A claim several clauses constrain is Unknown. *)
Term(clauses, keys, lang) ==
    [k \in { keys[n] : n \in DOMAIN keys } |->
        LET on == { n \in DOMAIN keys : keys[n] = k }
        IN  IF Cardinality(on) > 1 THEN Unknown({k})
            ELSE Constraint(clauses[CHOOSE n \in on : TRUE], k, lang).set]

Missing(keys, lang) ==
    { group \in lang.required : \A n \in DOMAIN keys : keys[n] \notin group }

Repeated(keys) == { k \in { keys[n] : n \in DOMAIN keys } :
                        Cardinality({ n \in DOMAIN keys : keys[n] = k }) > 1 }

Outside(text) ==
    \/ Cardinality(Quotes(text)) % 2 = 1
    \/ Len(SplitClauses(text)) > ClauseCap
    \/ \E n \in DOMAIN Clauses(text) : ~Clauses(text)[n].ok

Evaluate(text, issuer) ==
    LET clauses == Clauses(text)
        lang    == DocumentedLanguage(issuer)
        keys    == KeysOf(clauses, lang)
        doubts  == { keys[n] : n \in { m \in DOMAIN keys :
                        Folds(clauses[m].name, lang) \/ Constraint(clauses[m], keys[m], lang).doubted } }
                   \cup Repeated(keys)
    IN  IF Outside(text) THEN Unmodelled
        ELSE IF Missing(keys, lang) # {} THEN Reading(Unmodelled.term, doubts \cup {Sub})
        ELSE Reading(Term(clauses, keys, lang), doubts)

-----------------------------------------------------------------------------
(***************************************************************************)
(* What Entra does with an expression.  A world has the set an unsettled   *)
(* construct admits (odd), and whether claim names are compared without    *)
(* case (folds).                                                           *)
(***************************************************************************)
ClauseApplies(c, lang, repeated, world) ==
    LET key == ClaimKey(c.name, lang) IN
    IF Folds(c.name, lang) /\ ~world.folds THEN {}
    ELSE IF ~Modelled(c, key, lang) \/ key \in repeated THEN world.odd
    ELSE { t \in Tokens : IF c.operator = <<"eq">>
                          THEN key \in DOMAIN t /\ t[key] = Spelt(c.comparand)
                          ELSE Satisfies(GlobOf(c.comparand), key, t) }

Applies(text, issuer, world) ==
    LET clauses == Clauses(text)
        lang    == DocumentedLanguage(issuer)
        keys    == KeysOf(clauses, lang)
    IN  IF Outside(text) \/ Missing(keys, lang) # {} THEN world.odd
        ELSE { t \in Tokens : \A n \in DOMAIN clauses :
                  t \in ClauseApplies(clauses[n], lang, Repeated(keys), world) }

-----------------------------------------------------------------------------
(* The text that writes a list of clauses, and the list written backwards. *)
WrittenClause(c) ==
    <<"claims[", Quote>> \o c.name \o <<Quote, "] ">> \o c.operator \o <<" ", Quote>>
        \o c.comparand \o <<Quote>>

Joined(pieces) ==
    Head(pieces) \o Seqs!FoldLeft(LAMBDA text, p : text \o <<AND>> \o p, <<>>, Tail(pieces))

Written(clauses) == Joined([n \in DOMAIN clauses |-> WrittenClause(clauses[n])])

=============================================================================
