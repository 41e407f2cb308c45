----------------------------- MODULE CelGrammar -----------------------------
(***************************************************************************)
(* internal/parse/gcp/cel.go: the parser of attribute conditions.  It is a *)
(* recursive descent over tokens, one function for each level of           *)
(* precedence; here each is an operator from a position to an outcome, the *)
(* tree built and the position after it, or the failure.  A token is what  *)
(* the lexer emits, its kind and its text; spelling (escapes, numbers,     *)
(* comments) is the lexer's own and is left out, and so are the spans the  *)
(* sentences quote.                                                        *)
(*                                                                         *)
(* The second half is the grammar of the language definition, as the sets  *)
(* of trees it derives, to hold the parser against.                        *)
(***************************************************************************)
EXTENDS Naturals, Sequences, FiniteSets

CONSTANT NestingBound   \* nestingBound: how deep containers nest

Token(kind, text) == [kind |-> kind, text |-> text, newline |-> FALSE]
Op(text)          == Token("op", text)
EndOfText         == Token("eof", "")

Node(kind, text, kids) == [kind |-> kind, text |-> text, kids |-> kids, newline |-> FALSE]
Leaf(kind, token)      == [Node(kind, token.text, <<>>) EXCEPT !.newline = token.newline]

(* The receiver of a global call. *)
NoReceiver == Node("none", "", <<>>)

Built(tree, next) == [ok |-> TRUE, tree |-> tree, next |-> next]
Failed            == [ok |-> FALSE, tree |-> NoReceiver, next |-> 0]

Peek(s, i) == IF i <= Len(s) THEN s[i] ELSE EndOfText
IsOp(s, i, text) == Peek(s, i) = Op(text)

(* The errors of the calls below are returned at once by every caller. *)
After(outcome, Go(_)) == IF outcome.ok THEN Go(outcome) ELSE Failed

(* expect: the operator must follow, and is passed. *)
Expect(outcome, s, text) ==
    IF outcome.ok /\ IsOp(s, outcome.next, text)
    THEN [outcome EXCEPT !.next = @ + 1] ELSE Failed

(* The left-associative levels, from or down to multiplication. *)
Levels == << {"||"}, {"&&"}, {"<", "<=", ">=", ">", "==", "!=", "in"},
             {"+", "-"}, {"*", "/", "%"} >>

AtLevel(s, i, k) == Peek(s, i).kind = "op" /\ Peek(s, i).text \in Levels[k]

LeafKinds == [ string |-> "string", bytes |-> "bytes", number |-> "literal",
               bool |-> "literal", null |-> "literal" ]

RECURSIVE Expression(_, _, _), Level(_, _, _, _), Operands(_, _, _, _), Unary(_, _, _),
          Chain(_, _, _), Primary(_, _, _), ListOf(_, _, _, _, _, _)

(* expression: the conditional, above the binary levels. *)
Expression(s, i, depth) ==
    After(Level(s, i, depth, 1), LAMBDA cond :
        IF ~IsOp(s, cond.next, "?") THEN cond
        ELSE After(Expect(Level(s, cond.next + 1, depth, 1), s, ":"), LAMBDA then :
             After(Expression(s, then.next, depth), LAMBDA otherwise :
                Built(Node("ternary", "?", <<cond.tree, then.tree, otherwise.tree>>),
                      otherwise.next))))

(* binary: operand (op operand)*, grouped to the left. *)
Level(s, i, depth, k) ==
    IF k > Len(Levels) THEN Unary(s, i, depth)
    ELSE After(Level(s, i, depth, k + 1), LAMBDA left : Operands(s, left, depth, k))

Operands(s, left, depth, k) ==
    IF ~AtLevel(s, left.next, k) THEN left
    ELSE After(Level(s, left.next + 1, depth, k + 1), LAMBDA right :
            Operands(s, Built(Node("binary", s[left.next].text, <<left.tree, right.tree>>),
                              right.next), depth, k))

Unary(s, i, depth) ==
    IF IsOp(s, i, "!") \/ IsOp(s, i, "-")
    THEN After(Unary(s, i + 1, depth), LAMBDA operand :
            Built(Node("unary", s[i].text, <<operand.tree>>), operand.next))
    ELSE After(Primary(s, i, depth), LAMBDA primary : Chain(s, primary, depth))

(* enter: one container more, or the failure of one too many. *)
Enter(depth, outcome) == IF depth < NestingBound THEN outcome ELSE Failed

(* list and mapEntries: items apart by commas, up to the closing delimiter *)
(* and past it.  An item of a map is a key and its value.                  *)
ListOf(s, so, depth, closing, trailing, pairs) ==
    LET at     == IF so.tree = <<>> THEN so.next ELSE so.next + 1
        first  == Expression(s, at, depth)
        second == After(Expect(first, s, ":"), LAMBDA key : Expression(s, key.next, depth))
    IN  IF IsOp(s, so.next, closing) THEN Built(so.tree, so.next + 1)
        ELSE IF so.tree # <<>> /\ ~IsOp(s, so.next, ",") THEN Failed
        ELSE IF so.tree # <<>> /\ trailing /\ IsOp(s, at, closing) THEN Built(so.tree, at + 1)
        ELSE IF pairs
             THEN After(second, LAMBDA value :
                    ListOf(s, Built(so.tree \o <<first.tree, value.tree>>, value.next),
                           depth, closing, trailing, pairs))
             ELSE After(first, LAMBDA item :
                    ListOf(s, Built(Append(so.tree, item.tree), item.next),
                           depth, closing, trailing, pairs))

(* arguments, from the opening parenthesis. *)
Arguments(s, i, depth) ==
    Enter(depth, ListOf(s, Built(<<>>, i + 1), depth + 1, ")", FALSE, FALSE))

(* member: the chain of selections, receiver calls and indexings. *)
Chain(s, n, depth) ==
    IF IsOp(s, n.next, ".")
    THEN LET field == Peek(s, n.next + 1) IN
         IF field.kind \notin {"ident", "reserved"} THEN Failed
         ELSE IF IsOp(s, n.next + 2, "(")
         THEN After(Arguments(s, n.next + 2, depth), LAMBDA args :
                Chain(s, Built(Node("call", field.text, <<n.tree>> \o args.tree), args.next), depth))
         ELSE Chain(s, Built(Node("select", field.text, <<n.tree>>), n.next + 2), depth)
    ELSE IF IsOp(s, n.next, "[")
    THEN After(Enter(depth, Expect(Expression(s, n.next + 1, depth + 1), s, "]")), LAMBDA key :
            Chain(s, Built(Node("index", "[]", <<n.tree, key.tree>>), key.next), depth))
    ELSE n

Primary(s, i, depth) ==
    LET t == Peek(s, i) IN
    CASE t.kind = "ident" /\ IsOp(s, i + 1, "(") ->
            After(Arguments(s, i + 1, depth), LAMBDA args :
                Built(Node("call", t.text, <<NoReceiver>> \o args.tree), args.next))
      [] t.kind = "ident" /\ ~IsOp(s, i + 1, "(") -> Built(Leaf("ident", t), i + 1)
      [] t.kind \in DOMAIN LeafKinds -> Built(Leaf(LeafKinds[t.kind], t), i + 1)
      [] t = Op("(") -> Enter(depth, Expect(Expression(s, i + 1, depth + 1), s, ")"))
      [] t = Op("[") ->
            After(Enter(depth, ListOf(s, Built(<<>>, i + 1), depth + 1, "]", TRUE, FALSE)),
                  LAMBDA items : Built(Node("list", "[]", items.tree), items.next))
      [] t = Op("{") ->
            After(Enter(depth, ListOf(s, Built(<<>>, i + 1), depth + 1, "}", TRUE, TRUE)),
                  LAMBDA items : Built(Node("map", "{}", items.tree), items.next))
      [] OTHER -> Failed

(* parseCEL: the whole text is one expression. *)
ParseCEL(s) ==
    LET parsed == Expression(s, 1, 0)
    IN  IF parsed.ok /\ parsed.next = Len(s) + 1 THEN parsed ELSE Failed

-----------------------------------------------------------------------------
(***************************************************************************)
(* The grammar of the language definition: the trees a text derives at     *)
(* each level, by every way of cutting the text.  Two liberties are the    *)
(* parser's own: a run that mixes "!" and "-" nests, and a comma ends a    *)
(* list or a map only after an item.                                       *)
(***************************************************************************)
UnaryLevel  == Len(Levels) + 1
MemberLevel == Len(Levels) + 2

Before(s, i)     == SubSeq(s, 1, i - 1)
Beyond(s, i)     == SubSeq(s, i + 1, Len(s))
Between(s, i, j) == SubSeq(s, i + 1, j - 1)
Last(s)          == s[Len(s)]

Cuts(s, text) == { i \in DOMAIN s : s[i] = Op(text) }

Ended(s, text) == s # <<>> /\ Last(s) = Op(text)

RECURSIVE Derived(_, _), Items(_), Entries(_)

(* ExprList, and MapInits as keys and values alternating. *)
Items(s) ==
    { <<item>> : item \in Derived(s, 0) }
      \cup UNION { { Append(items, item) : items \in Items(Before(s, i)), item \in Derived(Beyond(s, i), 0) }
                   : i \in Cuts(s, ",") }

Entry(s) ==
    UNION { { <<k, v>> : k \in Derived(Before(s, i), 0), v \in Derived(Beyond(s, i), 0) }
            : i \in Cuts(s, ":") }

Entries(s) ==
    Entry(s) \cup UNION { { es \o e : es \in Entries(Before(s, i)), e \in Entry(Beyond(s, i)) }
                          : i \in Cuts(s, ",") }

OrNone(s, derived) == IF s = <<>> THEN {<<>>} ELSE derived

WithoutComma(s) == IF Len(s) > 1 /\ Last(s) = Op(",") THEN Before(s, Len(s)) ELSE s

DerivedMember(s) ==
    LET n == Len(s) IN
    (IF n # 1 THEN {}
     ELSE IF s[1].kind = "ident" THEN {Leaf("ident", s[1])}
     ELSE IF s[1].kind \in DOMAIN LeafKinds THEN {Leaf(LeafKinds[s[1].kind], s[1])} ELSE {})
    \cup (IF n > 2 /\ s[1] = Op("(") /\ Ended(s, ")") THEN Derived(Between(s, 1, n), 0) ELSE {})
    \cup (IF n > 1 /\ s[1] = Op("[") /\ Ended(s, "]")
          THEN { Node("list", "[]", items) :
                    items \in OrNone(Between(s, 1, n), Items(WithoutComma(Between(s, 1, n)))) } ELSE {})
    \cup (IF n > 1 /\ s[1] = Op("{") /\ Ended(s, "}")
          THEN { Node("map", "{}", items) :
                    items \in OrNone(Between(s, 1, n), Entries(WithoutComma(Between(s, 1, n)))) } ELSE {})
    \cup (IF n > 2 /\ s[1].kind = "ident" /\ s[2] = Op("(") /\ Ended(s, ")")
          THEN { Node("call", s[1].text, <<NoReceiver>> \o items) :
                    items \in OrNone(Between(s, 2, n), Items(Between(s, 2, n))) } ELSE {})
    \cup (IF n > 2 /\ s[n-1] = Op(".") /\ s[n].kind \in {"ident", "reserved"}
          THEN { Node("select", s[n].text, <<of>>) : of \in Derived(Before(s, n - 1), MemberLevel) } ELSE {})
    \cup (IF Ended(s, "]")
          THEN UNION { { Node("index", "[]", <<of, key>>) :
                            of \in Derived(Before(s, i), MemberLevel), key \in Derived(Between(s, i, n), 0) }
                       : i \in Cuts(s, "[") } ELSE {})
    \cup (IF Ended(s, ")")
          THEN UNION { { Node("call", s[i-1].text, <<of>> \o items) :
                            of \in Derived(Before(s, i - 2), MemberLevel),
                            items \in OrNone(Between(s, i, n), Items(Between(s, i, n))) }
                       : i \in { j \in Cuts(s, "(") : /\ j > 3 /\ s[j-2] = Op(".")
                                                      /\ s[j-1].kind \in {"ident", "reserved"} } } ELSE {})

Derived(s, k) ==
    CASE s = <<>> -> {}
      [] s # <<>> /\ k = 0 ->
            Derived(s, 1)
            \cup UNION { { Node("ternary", "?", <<c, t, o>>) :
                              c \in Derived(Before(s, i), 1), t \in Derived(Between(s, i, j), 1),
                              o \in Derived(Beyond(s, j), 0) }
                         : i \in Cuts(s, "?"), j \in Cuts(s, ":") }
      [] s # <<>> /\ k \in DOMAIN Levels ->
            Derived(s, k + 1)
            \cup UNION { { Node("binary", s[i].text, <<l, r>>) :
                              l \in Derived(Before(s, i), k), r \in Derived(Beyond(s, i), k + 1) }
                         : i \in { j \in DOMAIN s : AtLevel(s, j, k) } }
      [] s # <<>> /\ k = UnaryLevel ->
            Derived(s, MemberLevel)
            \cup (IF s[1] \in {Op("!"), Op("-")}
                  THEN { Node("unary", s[1].text, <<of>>) : of \in Derived(Beyond(s, 1), UnaryLevel) } ELSE {})
      [] s # <<>> /\ k = MemberLevel -> DerivedMember(s)

(* The containers open at a position. *)
Open(s, i) ==
    Cardinality({ j \in 1..i : s[j] \in {Op("("), Op("["), Op("{")} })
      - Cardinality({ j \in 1..i : s[j] \in {Op(")"), Op("]"), Op("}")} })

TooDeep(s) == \E i \in DOMAIN s : Open(s, i) > NestingBound

(***************************************************************************)
(* The parser against the grammar: a text is read as the one tree the      *)
(* grammar derives, so that A && B || C groups as CEL groups it; a text    *)
(* the grammar does not derive, or nested too deep, is refused, never read *)
(* as some nearby expression.                                              *)
(***************************************************************************)
ReadAsTheGrammar(s) ==
    LET trees == IF TooDeep(s) THEN {} ELSE Derived(s, 0)
        read  == ParseCEL(s)
    IN  IF read.ok THEN trees = {read.tree} ELSE trees = {}
=============================================================================
