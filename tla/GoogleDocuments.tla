-------------------------- MODULE GoogleDocuments --------------------------
(***************************************************************************)
(* internal/parse/gcp: the shapes a document of providers (ParsePage) or   *)
(* of an IAM policy (ParseMembers) comes in, and what is refused.  A       *)
(* provider or a member read from one is only counted here; module Google  *)
(* reads it.                                                               *)
(*                                                                         *)
(* An object keeps every copy of a member: values is the sequence of what  *)
(* was written under one name, both spellings counted.  near says that it  *)
(* has a name matching a documented one in case only, which exactlySpelt   *)
(* looks for in the document's own members and nowhere below them.         *)
(***************************************************************************)
EXTENDS Naturals, Sequences, FiniteSets

LOCAL INSTANCE SequencesExt

Null       == [kind |-> "null"]
Wrong      == [kind |-> "wrong"]   \* a type the API does not define there
TextValue(s)  == [kind |-> "right", text |-> s]
ListValue(s)  == [kind |-> "right", items |-> s]
ObjectValue(o) == [kind |-> "right", object |-> o]

Scalar        == [kind |-> "scalar"]   \* an item of a list that is no object

Refused       == [ok |-> FALSE, count |-> 0, more |-> FALSE]
Accepted(n)   == [ok |-> TRUE, count |-> n, more |-> FALSE]

(* The sum of what the items give, refused when one of them is. *)
Total(outcomes) ==
    IF \E i \in DOMAIN outcomes : ~outcomes[i].ok THEN Refused
    ELSE Accepted(FoldSeq(LAMBDA o, n : o.count + n, 0, outcomes))

Each(items, Read(_)) == [i \in DOMAIN items |-> Read(items[i])]

(* only: the one value of a member, Null when there is none. *)
MutantOnly(values) == IF values = <<>> THEN Null ELSE values[1]   \* the first copy is read

Only(values) == IF Len(values) > 1 THEN Wrong ELSE IF values = <<>> THEN Null ELSE values[1]

-----------------------------------------------------------------------------
(* listedProviders: every item is a provider, or the list is refused. *)
ListedProvider(item) == IF item = "provider" THEN Accepted(1) ELSE Refused

ListedProviders(value) ==
    IF value = Null THEN Accepted(0)
    ELSE IF value = Wrong THEN Refused
    ELSE Total(Each(value.items, ListedProvider))

(* pageOf: a page or a provider, never both, and nothing in between.  A    *)
(* label alone marks neither.                                              *)
PageOf(doc) ==
    LET token == Only(doc.token)
        read  == ListedProviders(Only(doc.list))
        page  == doc.token # <<>> \/ doc.list # <<>>
    IN  IF doc.near \/ Wrong \in {token, Only(doc.list)} THEN Refused
        ELSE IF doc.marks THEN IF page THEN Refused ELSE Accepted(1)
        ELSE IF ~page /\ doc.labels THEN Refused
        ELSE [read EXCEPT !.more = token # Null /\ token.text # ""]

(* ParsePage, and ParseProviders, which refuses a page that is not the     *)
(* last.                                                                   *)
ParsePage(doc) ==
    CASE doc.shape = "list"   -> ListedProviders(ListValue(doc.items))
      [] doc.shape = "object" -> PageOf(doc)
      [] doc.shape = "scalar" -> Refused

ParseProviders(doc) == IF ParsePage(doc).more THEN Refused ELSE ParsePage(doc)

-----------------------------------------------------------------------------
(* bindingsOf: the members of every binding of a policy. *)
ListedMember(item) == IF item = "string" THEN Accepted(1) ELSE Refused

BindingMembers(binding) ==
    IF binding = Scalar THEN Refused
    ELSE LET list == Only(binding.members)  condition == Only(binding.condition) IN
         IF Wrong \in {Only(binding.role), list, condition} THEN Refused
         ELSE IF condition # Null /\ Only(condition.object) = Wrong THEN Refused
         ELSE IF list = Null THEN Accepted(0) ELSE Total(Each(list.items, ListedMember))

BindingsOf(policy) ==
    LET bindings == Only(policy.bindings) IN
    IF bindings = Null THEN Accepted(0)
    ELSE IF bindings = Wrong THEN Refused
    ELSE Total(Each(bindings.items, BindingMembers))

(* searchResult: the policy under "policy"; the resource must be a string. *)
SearchResult(result) ==
    LET policy == Only(result.policy) IN
    IF policy = Wrong THEN Refused
    ELSE IF policy = Null THEN Accepted(0)
    ELSE IF Only(result.resource) = Wrong THEN Refused
    ELSE BindingsOf(policy.object)

(* A page's item is an object with a member only a search result has. *)
PageItem(item) ==
    IF item = Scalar \/ ~(item.policy # <<>> \/ item.resource # <<>> \/ item.labels) THEN Refused
    ELSE SearchResult(item)

(* parseMembers: a policy, a search result or a page of results, by the    *)
(* members only one of them has; two at once, or none, is refused, the     *)
(* empty object aside.                                                     *)
PageMembers(doc) ==
    LET token == Only(doc.token)  results == Only(doc.results) IN
    IF Wrong \in {token, results} \/ (token # Null /\ token.text # "") THEN Refused
    ELSE IF results = Null THEN Accepted(0) ELSE Total(Each(results.items, PageItem))

ParseMembers(doc) ==
    IF doc.shape # "object" \/ doc.near \/ Cardinality(doc.marks) > 1 THEN Refused
    ELSE IF doc.marks = {"result"} THEN SearchResult(doc)
    ELSE IF doc.marks = {"page"} THEN PageMembers(doc)
    ELSE IF doc.marks = {"policy"} \/ ~doc.labels THEN BindingsOf(doc)
    ELSE Refused

Parse(doc) == IF doc.of = "providers" THEN ParseProviders(doc) ELSE ParseMembers(doc)

-----------------------------------------------------------------------------
(***************************************************************************)
(* What Google may hold under a document: whichever copy of a member it    *)
(* applies, whether or not it reads a name in another case (which may hold *)
(* anything), and as many as the further pages have.  MANY stands for a    *)
(* number the document does not tell.                                      *)
(***************************************************************************)
MANY == 99

Copy(values) == IF values = <<>> THEN {Null} ELSE Range(values)

Sums(S, T) == { m + n : m \in S, n \in T }
SumOf(sets) == FoldSeq(Sums, {0}, sets)

HeldItem(item) == IF item \in {"provider", "string"} THEN {1} ELSE {MANY}

HeldList(value, Of(_)) ==
    CASE value = Null  -> {0}
      [] value = Wrong -> {MANY}
      [] OTHER -> SumOf(Each(value.items, Of))

Miscased(o) == IF o.near THEN {MANY} ELSE {}

HeldBinding(b) ==
    IF b = Scalar THEN {MANY}
    ELSE Miscased(b) \cup UNION { HeldList(v, HeldItem) : v \in Copy(b.members) }

HeldPolicy(p) == Miscased(p) \cup UNION { HeldList(v, HeldBinding) : v \in Copy(p.bindings) }

HeldResult(r) ==
    IF r = Scalar THEN {MANY}
    ELSE Miscased(r)
         \cup UNION { IF v = Null THEN {0} ELSE IF v = Wrong THEN {MANY} ELSE HeldPolicy(v.object)
                      : v \in Copy(r.policy) }

Further(tokens) == IF Copy(tokens) \subseteq {Null, TextValue("")} THEN {} ELSE {MANY}

Held(doc) ==
    (IF doc.shape = "scalar" \/ doc.near THEN {MANY} ELSE {})
    \cup
    (IF doc.of = "providers"
     THEN (IF doc.shape = "list" THEN HeldList(ListValue(doc.items), HeldItem) ELSE {})
          \cup (IF doc.shape = "object"
                THEN (IF doc.marks THEN {1} ELSE {})
                     \cup (IF ~doc.marks \/ doc.list # <<>>
                           THEN UNION { HeldList(v, HeldItem) : v \in Copy(doc.list) } ELSE {})
                     \cup Further(doc.token)
                ELSE {})
     ELSE (IF "result" \in doc.marks THEN HeldResult(doc) ELSE {})
          \cup (IF "page" \in doc.marks
                THEN (UNION { HeldList(v, HeldResult) : v \in Copy(doc.results) }) \cup Further(doc.token)
                ELSE {})
          \cup (IF "policy" \in doc.marks \/ doc.marks = {} THEN HeldPolicy(doc) ELSE {}))

(* A document that is accepted was read whole. *)
ReadWhole(doc) == Parse(doc).ok => Held(doc) = {Parse(doc).count}

(* An object below the document's own members has a name miscased. *)
Below(values) == { v \in Range(values) : v.kind = "right" }
ItemsBelow(values) == UNION { Range(v.items) : v \in Below(values) } \ {Scalar}

MiscasedPolicy(p) == p.near \/ \E b \in ItemsBelow(p.bindings) : b.near
MiscasedResult(r) == r.near \/ \E v \in Below(r.policy) : MiscasedPolicy(v.object)

MiscasedWithin(doc) ==
    /\ doc.of = "policy"
    /\ \/ MiscasedPolicy(doc) \/ MiscasedResult(doc)
       \/ \E r \in ItemsBelow(doc.results) : MiscasedResult(r)

(* Read whole, as far as its names are spelt as the API documents them. *)
ReadAsSpelt(doc) ==
    Parse(doc).ok => Parse(doc).count \in Held(doc) /\ (MiscasedWithin(doc) \/ ReadWhole(doc))
=============================================================================
