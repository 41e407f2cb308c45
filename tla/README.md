# CloudArq in TLA+

CloudArq reads the trust a cloud deploys (AWS trust policies, Google workload
identity pools, Azure federated credentials, Terraform plans) and says who is let in.
Its promise is one-sided: what it could not read never narrows an answer, and an
answer it calls exact is the deployed policy's own. This directory models the
parts of the program that carry the promise, the collector that reads an account,
and the loader that runs the engine in a page. TLC checks the models on small
instances; TLAPS proves, for every instance, the lattice underneath and the answers
that rest on it: what the AWS, Azure and Terraform readers hand out, where rings place
it, what explain says of a token, which links are drawn; and the collector and the
loader beside them.

Paths below are relative to the repository (`internal/...`, `web/...`).

## 1. The system

| Part | State it keeps | Operations | Hard about it |
| --- | --- | --- | --- |
| Lattice, `internal/eval` | immutable values: a set of strings per claim, a union of terms over claims, caveats | `Meet`, `Join`, normalise, project, `Contains`, `Admits`, the glob matcher | an undecided value disappears in a later operation; the term cap; overlapping pattern segments |
| AWS reader, `internal/parse/aws` | a document's statements, each with conditions, actions, principals and findings | parse, repeat detection, `widen`, `doubt`, `faces`, `project`, `grant`, edit | repeats, vacuous operators, presence tests, policy variables, "*", a Deny read in part |
| Google reader, `internal/parse/gcp` | a reading of one provider: doubts, resolver, identity, admitted set | parse pages and policies, read a provider, parse and evaluate CEL, bind a member | containers of many shapes, conditions under a mapping that is read in part, negation of an upper bound |
| Azure reader, `internal/parse/azure` | a reading of one credential | parse collections, read a credential, cut and evaluate an expression | two ways to state a subject, quotes, members in the wrong case |
| Terraform reader, `internal/parse/terraform` | the instances of a plan or a state, providers by key | parse, examine, inspect, widen, resolve targets, bind | values unknown until apply; objects forgotten, deposed or not listed; stale renderings |
| Rings, `internal/ring` | declarations of what is yours | classify a term, place a grant, aggregate | a place nearer than what was read supports |
| Links, `internal/join` | none | pair grants of two clouds, overlap, denials, witness walk | a bounded search read as a proof of absence; a denial that doubts |
| Grant, `internal/trust` | none | normalise an issuer, set the audience aside, conformance | one type for what four readers promise |
| Report, `internal/report` | none: document in, answer out | admits, explain, findings over a bundle, remark, fix, fixed | one answer from grants of unequal certainty; an open reading of a token |
| Collector, `internal/collect` | the bundle being built | identity, alias, organization, pages of roles, strip, encode, exit code | refusals half way, markers that do not end, a deadline, an account that changes, names in error texts |
| Engine loader, `web/engine`, `web/wasm` | one instance per module, inbox, outbox, memory counters; three names on `globalThis` | `engineFor`, `loadEngine`, a call, replacement; `goRuntime`, `load` | growth detaches a buffer, traps kill an instance, a load is awaited while the page runs |
| Command, `cmd/cloudarq` | none | arguments, files, exit codes | little |

How they interact. The readers build sets with the lattice and hand grants to
rings, links and report; the Terraform reader writes documents of the other three
formats and hands them to those parsers. `cloudarq-collect` is a program of its own; its bundle is
a file that `internal/report` (`ReadBundle`) reads, possibly much later. The
WebAssembly build (`web/wasm`) exposes the report's functions over one inbox and
one outbox; `web/engine/engine.ts` calls it for every part of a page. The
collector (against AWS), the loader (against the page) and the Terraform reader
(against an apply that comes after it, and may fail) meet others' steps. The rest of the
engine is sequential, and what is hard in it is the order in which sets are
combined and how uncertainty travels through that order.

What makes each part correct:

* lattice: sets are upper bounds, and without a caveat they are the truth;
* readers: an Allow's grant bounds its statement from above, a Deny's from below, a
  grant without a caveat is what is deployed, and nothing written is lost;
* explain: "admitted" and "refused" are true under every reading left open;
* rings: no grant is placed nearer than some identity it admits;
* links: an established link is a fact, and no overlap is denied because a search gave up;
* collector: a bundle is whole or says what it lacks, names nobody, and is written;
* loader: a caller gets its own answer, from a live instance, and a page keeps its names.

`PROJECT.json` lists the components with their status, and the hazards of this
code with the properties aimed at each.

## 2. The modules

```
StringSet <- AdmittedSet <- Evaluator <- MCEvaluator (with GlobPattern)

                 ReaderPromise   the abstract specification of a reader
                    ^ INSTANCE
AdmittedSet <- TrustPolicy <- Explain <- MCExplain
                    ^---- Ring, Principals <- MCRing
            <- Cel (with CelGrammar) <- Google (with GoogleDocuments) <- MCGoogle
            <- FlexibleExpression <- Azure <- MCAzure
            <- FanOut, WitnessWalk <- MCFanOut (with SubjectForms)

GlobPattern <- Glob, WitnessWalk, WrittenConditions <- MCGlob
TerraformDocument <- Terraform <- MCTerraform
Collector <- MCCollector        GoGlue <- WebEngine <- MCWebEngine

proofs, each beside the module it is about:
AdmittedSetProofs <- EvaluatorProofs
                  <- TrustPolicyProofs (Explain's, Ring's and Principals' too)
                  <- FanOutProofs
                  <- AzureProofs (FlexibleExpression's too)
TerraformProofs   CollectorProofs   WebEngineProofs (GoGlue's too)
```

### StringSet (`internal/eval/stringset.go`)

The set of values one claim may hold: `None`, `Any`, `Unknown` with its reasons,
or a non-empty set of terms, each an exact value or a list of patterns all of
which must match. The code's exact, glob, inter and union nodes are this last
form, since the code itself treats a bare node as a union of one. Lists are sorted
and deduplicated in the code, so they are sets. `Join` and `Meet` keep the code's
order of cases: None wins over Unknown under `Meet`, Unknown over everything under
`Join`. Emptiness and fullness are answered from the node kind, as the code does:
two patterns with no value in common are not noticed. A pattern is abstract; its
`Language` is a constant assumed neither empty nor full; run `glob` holds the real
normalisation, which turns such patterns into exact values or Any, against the meaning.

### AdmittedSet (`admitted.go`, `caveat.go`)

A set of terms with caveats. `Normalise` drops dead terms and Any claims, turns a
set with an all-top term into the single empty term, and past `TermCap` widens to
everything with an overflow caveat. `Admits` follows `failures`: a claim the token
lacks satisfies only a constraint that is top.

### Evaluator

A reader in the abstract: registers that hold sets, combined by `And` and `Or` in
any order and any number of times, beside a ghost `truth` of what the cloud really
admits. `Read` is a construct evaluated, `ReadUnevaluated` an Unknown claim with a
caveat whose real meaning is any member of `Hidden`, `Doubt` a set kept with a
caveat though the truth may be smaller. The combination is that of
`parse/gcp/cel.go` (`admitted`).

### GlobPattern, Glob (`glob.go`)

`GlobPattern` has the normalisation (`Kind`, `Segments`) and a reference meaning of
a pattern by recursion on its characters. `Glob` is the loop of `matchSegments`,
one action per iteration: ends pinned, then each middle segment placed leftmost.

### WitnessWalk (`join/witness.go`)

The walk for the shortest string that several patterns all match, level by level over
one position in each pattern, with the bound that stops it. It is one function from
patterns and a bound to an outcome (found, none, or given up); the truth beside it is
the reference meaning of `GlobPattern`.

### ReaderPromise

The abstract specification. A reader only ever hands out grants, and each is honest:
an Allow, or a grant whose effect was not read, admits every token the deployed
statement may match; a Deny takes out only tokens it really matches; and without a
caveat the grant is what is deployed. `TrustPolicy`, `Google` and `Azure` are shown to
implement it (`Promise == INSTANCE ReaderPromise WITH grants <- grants`, property
`KeepsThePromise`), each with its own notion of what is deployed. `FanOut` and
`Terraform` assume it of the grants and texts they are given.

### TrustPolicy (`parse/aws/policy.go`, `condition.go`, `grant.go`)

A document read statement by statement. `BeginStatement` takes an effect (the one
read, and the one deployed), an issuer, and how the actions relate to the one the
principal assumes through. `ReadCondition` evaluates one condition (`evaluate`,
`valueSet`, `project`), `ReadRepeated` a key or an operator block written twice,
`Widen` and `Doubt` the two kinds of finding, `EndStatement` projects the grant with
the rule that a Deny that is not exact admits nobody. Beside the reading the model
keeps `matches`, what the deployed statement matches: a construct AWS documents
means what it documents, a construct it does not document means any member of
`Hidden`, and of two copies either, or both, are deployed.

### WrittenConditions (`parse/aws/condition.go`, `policy.go`: `parseVersion`)

How one written Condition gets to the classes `TrustPolicy` takes as given. A Version,
operator blocks, keys and values are written one after another, any of them twice;
`Scope`, `KeyRead`, `OperatorRead`, `Problem` and `ValuesRead` are the tests of
`evaluate` in its order, for one principal. A value is a sequence of pieces, since what
"${" means depends on the Version and on the operator. The truth (`MayPass`,
`SurelyPasses`) is AWS's test of a request, over every way the unsettled parts may be
deployed.

### Principals (`parse/aws/principal.go`)

The Principal element written beside the actions, one construct after another, with
copies, empty lists, odd items and NotPrincipal, and read into principals, faces and
grants. Texts are read by their fields. `Caller` is whoever may ask for the role;
`MayName` and `SurelyNamed` say what AWS makes of the element. An ARN of a service
other than IAM and STS under AWS is taken to name a caller of AssumeRole, if anyone.
`IssuerlessPopulation` says among whom a grant that names no issuer is placed, which
is what `Ring` reads.

### Explain (`report/explain.go`, `report/token.go`)

The answer for one pasted token over the policies `TrustPolicy` reads. `ReadKey`,
`Against`, `Failed`, the two kinds of row and `Net` follow the code; there is no
action of its own, the answer is a function of the grants. The truth it is compared
with is defined separately: every way AWS may read each key from the payload
(`Readings`), issuers folded or not, and Allow without Deny over the *deployed*
statements.

### SubjectForms (`ring/classify.go`: `subject` to `ownerRun`)

Whose a subject is. A text is written on `sub` one character at a time and a second
pattern may be set beside it; the owners the code reads from it, whole or as the
prefix of a pattern (`SubjectOwners`, `ReadForm`), and the starts of names it leaves
open (`OwnerStarts`), are functions of the text and of the census entry. Here
characters matter, because the code decides by them where a name ends, so texts are
sequences of them. `Subjects` is the truth: the subjects an issuer of that entry
mints, written independently by spelling each form out with real names.

### Ring (`ring/classify.go`, `place.go`, `declare.go`, `report/rings.go`)

Where the grants `TrustPolicy` reads are placed. `Classify`, `Decide`, `Confine` and
`ConfineShape` follow the code; again the answer is a function of the grants, of the
census's facts (`Facts`) and of what is declared, over every subset of
`Declaration`. How a claim is read for owners is the constant `Reads`; what
`RingAssumption` asks of it is what run `join` checks of `SubjectForms` for `sub`, and
for the other claims it says that a value names its holder. `sts:ExternalId` counts as a
key AWS fills only where its condition asks for a value (`AsksNoParticularValue`): such
conditions and the others are on two claims, one in `RequestKey` and one outside it. The truth is `Presents`: who
holds a token the deployed statement matches. A grant of this reader has one term,
so several populations of one grant arise only from the face of "*" that is both
services and SAML providers.

### FanOut (`internal/join`)

A corpus of statements, each the grant a reader made of it beside what it really
matches and whether it allows. `Fan` is the one call: which grants pair, the overlap
without the audience, the example identity, the doubts of each side, and the denials
that touch the overlap or were read too doubtfully to bound. What the readers promise
is `StatementAssumption`. `MCFanOut` fills in the example of two patterns from
`WitnessWalk`, under a bound small enough to be met. It also holds the steps of
`SubjectForms`, which share no state with the corpus: a behaviour has one or the other.

### CelGrammar, Cel, GoogleDocuments, Google (`internal/parse/gcp`)

`CelGrammar` is the recursive descent of the parser, from a position to a tree or a
failure, and beside it the grammar of the language as the set of trees it derives.
`Cel` evaluates a tree under a resolver into a set and its doubts, and says what the
condition means to Google in CEL's three-valued logic, where an absent claim is an
error that `&&` and `||` may absorb. `GoogleDocuments` has the shapes a document may
come in and which are refused: at every depth a member may be spelt as documented or in
another case, and only at the root does the code look for the second (`exactlySpelt`), so
the claim that nothing is lost is made for names spelt as documented below it
(`ReadAsSpelt`), and the stronger one is run `google_nested`. A page item that is no
result and a binding with two roles are refused. `Google` reads a provider member by member in the order
of `parseProvider` (name, state, disabled, the configuration, mapping, condition) and
then binds members of a policy (`SamePool`, `Selected`, `Bind`). A member written twice,
miscased or of the wrong type, and a form no page settles, may mean any of `Hidden`.

### FlexibleExpression, Azure (`internal/parse/azure`)

`FlexibleExpression` cuts an expression into clauses outside quotes, parses each and
reads it in the language its issuer documents; a text is a sequence of lexemes, since
the quotes are what can go wrong. `Azure` takes documents apart and reads a credential:
issuer, subject, expression, audiences. What a document is read as is the set of places
a credential was found at, so that none can stand in for another. Two assumptions about Entra: several listed
audiences are all accepted, and a `matches` pattern of stars alone admits everything.

### TerraformDocument, Terraform (`internal/parse/terraform`)

`TerraformDocument` has what changes no state: the resource table, the marks beside
values, addresses and references, the top level of a document. `Terraform` puts the
reader beside the objects. `Plan` takes any of the changes Terraform may list (create,
update, the replacements in their orders, delete, forget, or nothing for a targeted
plan), `ReadPlan` and `ReadState` are the reader, `Apply` carries the plan out, with
every outcome of a value that was unknown, and may fail, leaving a deposed object or
one with no values recorded. A text stands for what a cloud's parser makes of it.
Terraform itself is modelled from what the reader's comments say of it: a plan that
errored is not applied, `prior_state` names what exists, a change of a deposed object
counts as listing its address (`reading_test.go:417`). What a failed apply leaves
half updated is not claimed. A half-made object has no stated target, so `resolveTarget`
falls to its own address; that its target expression then names no resource is
`BareAssumption` (section 5). References are plain traversals: for a conditional expression `resolveTarget` may find one candidate and merge two
targets. A provider whose pool has no stated name absorbs the members of another
project's pool of the same id, which `AppliedTrustIsRead` allows for (`MayBeOf`).

### Collector (`internal/collect/aws`, `internal/collect/cmd/cloudarq-collect`)

One run, from arguments to exit code. `pc` is the place in `run` and `Collect`;
`bundle` has the pages, the refusals, the limits and the organization's status.
Each AWS call is one action with its refusals; `ListRoles` takes any answer IAM may
give for the marker (short pages, empty ones), and when `honest` is false also
answers that say more remain with a nil marker or the old one. `Expire` is the
deadline, after which a call can only fail; `ChangeAccount` creates or deletes a
role meanwhile, but creates none in an account that holds `MaxBundleRoles`, IAM's
ceiling. `Strip` is the last act of `Collect`, `Encode` the single write,
which may fail part of the way. A refusal's message is the set of what it mentions, and
so is what is printed: `stderr` has the words of an error of the settings or of
`GetCallerIdentity` as they came (an unexpected ARN too), and in `Report` those of the
bundle's refusals. `account` is whether STS has named the account yet. `ReadBundle` is
the engine's reader of the result, which takes no more than `MaxBundleRoles` roles;
`ever` has the roles there at some time of the listing, `steady` those there throughout.

### GoGlue (`web/engine/go.ts`) and WebEngine (`web/engine/engine.ts`, `web/wasm/main.go`)

`GoGlue`: `GoRuntime` starts the one load and saves the descriptors, `EvaluateGlue`
is the import having run, `ImportFails` the import rejected, with `fs` and `process`
perhaps left behind, `TakeBack` the rest of `load`, and `PageWrites` the page
at any moment. `WebEngine` extends it: holders ask for a module's engine, and a call
goes through `Reserve`, `WriteInput`, `Export`, `AnswerAt`, `Settle`, with the memory
growing where the code allocates. `ViewMemory` is `memory.buffer` read, once before
the copy of the input and once before the answer is found and decoded; a view over
a buffer that growth replaced throws. `Trap` kills the instance, `Renew`
replaces it, `Starve` is the host refusing a new one, and `Stillborn` an instance whose
`_initialize` trapped, which `fresh` keeps because the error is in a promise nobody reads. An input is the number of its
call, so an answer tells whose it is. JavaScript runs a call to its end, which is
`Quiet` in the guards of everything else.

## 3. What TLC checks

| Run | States | What it shows |
| --- | --- | --- |
| `glob` | 659 thousand | the matcher answers what the pattern means; the walk for a shared example is right under any bound or says that it gave up; a Condition is read as AWS tests it, or left unread |
| `evaluator` | 202 thousand | upper bounds, exactness, the cap, canonical form; the invariant that is proved |
| `explain` | 185 thousand | "admitted", "refused" and "not admitted" are true under every reading; settled questions are answered |
| `collector` | 2.0 million | a role that was there throughout is in the bundle or the bundle says that roles are missing; the engine reads the bundle, unless more roles came and went than IAM holds at once; nobody is named in the bundle or on standard error once STS has named the account; every run ends |
| `web_engine` | 1.7 million | each call its own answer, no detached buffer, the next call meets the one live engine of its module under the memory bound, the page keeps its names, every holder is answered |
| `ring` | 163 thousand | the AWS reader implements `ReaderPromise`; every caller AWS may let in is in a population some grant is placed among, exact principals are deployed; no grant is placed nearer than who it admits, an anyone ring that is empty for certain is empty, an exact platform hides no pin |
| `join` | 296 thousand | an established link is an identity both targets let in; two grants that share one are linked. Apart from these, owners read from a subject or a prefix hold every subject that fits, starts of names are who is let in, longer texts pin no less |
| `google` | 41 thousand | no provider or member is lost as far as names are spelt as documented below the root, a condition is parsed and read as it means, the reader implements `ReaderPromise` |
| `azure` | 13 thousand | no credential is lost, an expression is cut and read as Entra does, the reader implements `ReaderPromise` |
| `terraform` | 2.6 million | what was read of a plan covers every object there once it is applied; exact grants are deployed; renderings are this plan's; targets are never merged |

Two more runs, `explain_effect` and `google_nested`, have one property each that a
comment states and the code does not keep; section 5.

Bounds, and why they are enough:

* `glob`: patterns and values of up to 4 characters over two letters. Three stars
  with a segment between them, overlapping head and tail and a repeated segment all
  fit; the matcher compares characters only for equality, so two letters do. The walk
  takes pairs of patterns under a bound that stops it and one that does not.
  Conditions have up to four constructs in two operator blocks: a key twice, a block
  twice, two values under one key, or a Version twice beside a value.
* `evaluator`: two claims, values of up to one character, two patterns that
  overlap, two registers, `TermCap` 2, so that a second `Or` passes the cap. The
  theorems of section 4 remove every one of these bounds.
* `explain`: two statements, so that an Allow meets a Deny or an unread statement;
  two constructs, two issuers and one folding; `aud` is read from `azp` with `aud`
  as the fallback, the other key from no known claim. Every payload over two claims
  is asked, with the empty string and a value that is not a string.
* `join`, subjects: texts of up to five characters over two letters, three
  delimiters and a wildcard, and four census entries: overlapping leads, a form of two
  parts, a delimiter that is an owner's character, a form of no scope, a lead that
  never pins. Five characters reach past the second delimiter.
* `ring`: one issuer of each of eighteen kinds, one statement of two constructs, so
  that a pin, a bound and an unread condition meet in pairs, and every subset of four
  declarations. Grants are placed one at a time. Of a statement's principals and
  actions, four constructs (five passes too): two copies, a member twice, or an action beside a
  principal. Statements and written principals share no state, so a
  behaviour has one or the other.
* `join`, links: corpora of up to four grants: a pair, a denial for a side, and one more.
* `google`: three claims, three values (one too long for a subject, one a star), one
  unsettled member in a document; every clause the evaluator tells apart, alone,
  negated, joined with a clause of each shape of set and in unparenthesised chains; every
  text of four tokens of a small alphabet against the grammar (a conditional takes five,
  so its marks are left to the sample of clauses); nesting of two.
* `azure`: five claims and two values, one of which holds the word that joins clauses;
  clauses up to one past `ClauseCap`.
* `terraform`: four kinds of workspace, each of one to four objects and a data document, planned, applied
  and planned again without end; no counter is bounded.
* `collector`: four roles of which the account holds three at most, pages of two, a
  ceiling of two pages and two changes of the account: a listing needs two pages, may be
  cut before, between or after them, and can circle until the ceiling; an account that
  is full can lose a listed role and gain a later one between them.
* `web_engine`: two holders, two modules, two calls, memory that doubles twice,
  once past the bound; the glue's three names and one of the page's own, one write.

No run uses symmetry: the sets are too small to need it. `CHECK_DEADLOCK FALSE`
stands where the system may stop: a matcher that has answered, a document that
has been read, a page that makes no further call.

### Fairness

* `Collector`: the program's own steps are fair, and so is the deadline, which is a
  timer. AWS's answers are not: a call may hang until the deadline. After it the
  call fails, because every call carries the context. A write to standard output is
  taken to return, with or without an error.
* `GoGlue`, `WebEngine`: an import settles, a continuation that is ready runs, and
  a call that has begun goes on, trap included. No holder has to call and no page
  has to write.

The other specifications state safety only: their steps are a document being written
or read, and nothing waits for anything.

## 4. What TLAPS proves

Every theorem holds for any sets of values, patterns, claims, issuers, roles, holders
or modules, finite or not unless said, and any bound. What a theorem takes of the
constants is the named `ASSUME`s of its module, which TLC evaluates in the runs.

| Module | Theorems | Property of run |
| --- | --- | --- |
| `AdmittedSetProofs` | `MeetIsIntersection`, `JoinIsUnion` | |
| `EvaluatorProofs` | `SetsAreCanonical`, `AnswersAreUpperBounds`, `CaveatFreeAnswersAreExact`, `TermCapHolds` | `evaluator`, all four |
| `TrustPolicyProofs` | `ReaderKeepsThePromise` | `ring`, `KeepsThePromise` |
| | `GrantsArePlacedTruly`, `QuietReportsAreTrue`, `ExactPlatformsSettleTheGrant`; `CallersArePlaced`, `ExactPrincipalsTheorem` | `ring`, the three of `Ring` and the two of `Principals` |
| | `RefusalsHold`, `AdmissionsHold`, `ExactPoliciesHold` | `explain`, all three |
| `AzureProofs` | `CredentialsKeepThePromise`, `CredentialsAreKept` | `azure`, all but `ExpressionsAreReadAsWritten` |
| `TerraformProofs` | `TrustIsRead`, `ExactIsDeployed`, `FreshRenderings`, `TargetsApart` | `terraform`, all four |
| `FanOutProofs` | `NoCounterpartyIsLost`, `EstablishedLinksAreFacts` | `join`, both |
| `CollectorProofs` | `NobodyIsNamed`, `NoRoleIsMissingInSilence`, `EveryBundleIsRead` | `collector`, all but liveness |
| `WebEngineProofs` | `GlobalsTheorem`, `AnswersTheorem`, `BufferTheorem`, `SoundEngineTheorem` | `web_engine`, all but liveness |

The arguments:

* **Lattice.** `Meet` and `Join` contain a value exactly if both sides, or either, do.
  The weight is in `NewUnionLemma`: dropping every exact member another term contains
  loses no value, as the term it was dropped for is a list of patterns and stays.
  `NormaliseAdmits` says what normalisation admits of any terms, `NormaliseLemma` what
  form it gives to terms over claims; every later proof of a reader uses one of them.
* **Evaluator.** The inductive invariant is `Sound(set, truth)` for every register: the
  bound, exactness and canonical form together. None is inductive alone: the bound of
  a `Meet` needs well-formed constraints, exactness the caveats of both sides, and the
  empty term of an over-full set is only right because it is canonical.
  `TermCapHolds` also needs term sets finite, since cardinality means nothing otherwise.
* **AWS reader.** The promise is about grants; the invariant that carries it is about
  the statement half read (`WellRead`): until it is widened every deployed token passes
  the term, and while it is neither widened, doubted nor caveated no other token does;
  a constraint is Unknown only under a caveat. `OutcomeLemma` has the condition
  operators, `ReadRepeatedKeeps` the copies. `GrantLemma` turns `WellRead` into
  `GoodGrant` for each way the actions can fall out, Deny included. With `GoodGrant` of
  every grant this is `ReaderInv`, which the proofs about rings and answers start from.
  The refinement of `ReaderPromise` is the same step lemma (`ReaderStep`), through
  `PromiseIsRead`: the instance's operators are the reader's. The reader's `ValueSet` is
  written in closed form; `MCRing` checks that it is the fold of `Join` the code runs.
* **Rings.** `Reaches` says that a population holds a holder. Each reader of a claim
  (pins, shapes, SAML, services, tenants) is shown to make populations that reach every
  holder whose token passes the term, and `Classify` to keep the outermost. What the
  census must be true of is `RingAssumption`: a value read as an owner's is borne by
  that owner only, and the people a SAML provider signs in are its own.
* **Principals.** The invariant is `StatementTypeOK`; the weight is in what each
  construct is read as. `SpeaksFor`: whoever an entry may name, its principal speaks
  for, under the caller's own issuer or as a principal that is not modelled, and one
  grant of an Allow asks for the caller's action (`FaceGrantLemma`). `Nobody`, a star and
  an entry then each give a population that holds the caller. The other direction
  (`ExactEntryLemma`) has every reading that carries no caveat name its caller for
  certain. `WrittenAssumption` says that a text has one of four forms, that a star is a
  wildcard and that `servicePrincipal` looks for no ARN; `CallerAssumption` that a
  caller's issuer decides the action it asks through, and its ARN its account.
* **Explain.** `AgainstLemma`: the code's three-valued comparison of a payload with a
  key, when it answers, gives the answer of every value AWS may read there, and it
  answers whenever AWS may read only one. From it and `GoodGrant` a settled outcome is
  the deployed one. `AdmissionsHold` is what needs `GoodGrant` to know that an exact
  Deny hides no Unknown, whose row the table does not count as unsettled.
* **Azure reader.** The invariant (`AzureInv`) is about the credential half read: of
  each of a subject and an expression, `TermOK` says that the term passes every token
  Entra may accept by it, exactly those where nothing was doubted, and that it says
  nothing of the audience but Unknown. More doubts never break it, so the members read
  later cannot undo it. `EvaluateLemma` shows it of an expression, clause by clause
  (`ClauseLemma`): a claim that is not repeated is the claim of one clause, which takes
  that a text is finite. Nothing is assumed of how a text is cut: whatever clauses the
  parser returns, reading and deployed meaning are compared on the same ones, and that
  they are the clauses written is left to `ExpressionsAreReadAsWritten`. `TermsLemma` then
  says why both terms are needed when both members are set, and `GrantLemma` meets them
  with the audiences. `CredentialsAreKept` is `ResourcesLemma`, over the forms a document
  may have (`DocumentAssumption`).
* **Terraform.** `TerraformInv` has an address hold at most a current and a deposed
  object (`Tracked`), a plan at most one change of each, which shows the object it
  removes (`ChangesOK`), and grants that are those of the document last read. From it an
  applied plan and a shown state are `Faithful`: one instance stands for each object
  deployed (`StandsFor`: it shows the object's text, or is widened), none for anything
  else but a deletion, and no two providers share a key. That is where the cases lie:
  a replacement that forgets gives two instances, an unlisted address is held over from
  the prior state, a value marked unknown where it bears is widened. What grants of
  faithful instances cover is then one lemma for bindings and one for the rest, the
  same for a plan and for a state. `TypeAssumption` says which marks bear on who is
  let in (`Bears`; `BearsLemma` shows that `consults` reads them all), that a half-made
  object lacks a value its row requires, and keeps deposed providers out (section 5); `ConfigAssumption` that a target expression
  naming resources of its module yields one of those, and `BareAssumption` that one of a
  half-made object names none (section 5 again); so an object shown without a target takes
  its own address, which no other target is (`BareRefersToNothing`, `ResolvedApart`);
  `TerraformAssumption` is what the cloud parsers promise.
* **Links.** `FanInv` says the links are those of the corpus, none left out. The audience
  is set aside on both sides (`RestLemma`), so an example identity is completed with an
  audience for each side. This is the one theorem with a hypothesis of its own,
  `AudiencesExist`: the lattice does not decide whether an intersection of patterns is
  empty, and for an audience that is, the property is false (section 5). `MCFanOut`
  assumes it of its instance. What the readers promise of a statement is
  `StatementAssumption`: the conclusion of `ReaderKeepsThePromise`, with what only
  links ask (a proved exact grant matches no more than it admits).
* **Collector.** `CollectorInv`: a steady role not past the marker is in the bundle
  (`Listing`), and with an honest IAM each role is there once and none is past the
  marker (`Unrepeated`). The marker only means something as a position in IAM's
  order, so the page IAM gives is taken apart by rank (`Rank`, `RankOrder`), for any
  finite account and page size. That the bundle holds no more roles than IAM does rests
  on `ever`: a bundle's roles were each in the account at some time of the listing, and
  the theorem takes as its premise that those are no more than the ceiling. `Stripped`
  needs `Order`: no part of the bundle is written, and none of its refusals printed,
  before the strip; and what is printed before STS has named the account ends the run.
* **Loader.** `GlueInv`: nothing of the glue is among the names before it is evaluated,
  and what was saved before the await is what the page holds, but for what it wrote
  meanwhile. `CallInv`: one call at a time (`OneCall`), the boxes hold that call's input
  and then its answer, a view taken is of the present buffer until the input is written
  and until the answer is decoded, one load for a module, and an instance past the bound only while the call that grew it runs.

Only model-checked, and why:

* liveness (`EveryRunEnds`, `EveryHolderIsAnswered`) is outside the prover;
* the matcher, the walk, `WrittenConditions`, `SubjectForms` and `LongerTextsPinNoLess`
  say what recursion over sequences computes, for which the prover has no induction;
  `CelGrammar`, `Cel` and so `Google` descend trees in RECURSIVE operators, which the
  prover does not take;
* `ExpressionsAreReadAsWritten` says what cutting and parsing a sequence of lexemes of
  any length returns, induction again.

`RingAssumption` is where `Ring`'s theorems meet `SubjectForms`: that its forms satisfy
it is checked by run `join`, not proved.

## 5. Where the code and its words differ

* `explain_effect`: beside a matching exact Allow, a matching statement whose effect
  could not be read is not looked at, and the token is called "admitted" though that
  statement may be a Deny (`internal/report/explain.go:238`); `internal/join/link.go`
  treats such a grant as "possibly Deny, so they doubt".

* `google_nested`: a name miscased below the root of a document (`Members` in a binding,
  `Bindings` in a result's policy, `Policy` in a page item) is taken for another member and
  what it holds is dropped without an error (`internal/parse/gcp/binding.go:130`), though
  `exactlySpelt` is there because such a name "would drop a policy without a trace". A
  miscased `condition` goes the same way, and leaves a conditional binding reading as one
  without a condition; no run covers that one.

Seen while modelling, and not among the runs:

* an account at IAM's ceiling of roles, one of which is deleted after it was listed and
  another created before the next page, gives a bundle with one role more than the
  ceiling, and the engine refuses it (`report/findings.go:186`) as "more than the 5000 IAM
  holds in one account"; `EngineReadsTheBundle` excepts it by its premise on `ever`;
* before STS has named the account, an error is printed as it came
  (`collect/aws/collect.go:63`, `internal/collect/cmd/cloudarq-collect/main.go:124`): the raw words of AWS
  or of a credential process, or the ARN that could not be read, which may name a
  person. `withoutTheCaller` is for the bundle only, and `NoOneIsNamed` claims nothing of
  these;
* `fresh` drops the promise of `run` (`engine.ts:112`), so an instance whose `_initialize`
  traps is kept as live until the first call on it throws;
* a glue that throws after it has set `fs` and `process` leaves both on `globalThis`
  (`go.ts`), as the load is rejected before anything is taken back;
  `GlobalsAreThePages` is about loads that end well;

* a caveat that may be on the subject makes `confine` forget that the
  subject was read only as a bound (`ring/classify.go:338`), and another claim's pin then
  makes the place exact; `classify.go:242` says such a place is unknown;
* `stateResource` decodes no deposed key, so in a state a deposed provider and the current
  one at its address share one `key()` (`terraform/grant.go:456`) and one reading
  replaces the other; `terraform/plan.go:442` says that every instance has its own grants. The
  model keeps deposed providers out (`DeposedType`);
* a link sets the audience aside (`join/link.go:129`), so a side whose audience must match
  two patterns with no value in common, which the lattice does not decide, can be part
  of an established link though it lets nobody in; `EstablishedLinksAreFacts` excepts it
  by its hypothesis `AudiencesExist`;
* a Deny of another issuer turns "admitted" into "not proven" when the token leaves
  one of its claims open (`explain.go:222`), where `explain_test.go:337` says it
  refuses nothing; the answer errs on the careful side;
* exit code 1 is documented as an account that could not be learned; a bundle that
  could not be written exits 1 too, with part of it perhaps on standard output
  (`internal/collect/cmd/cloudarq-collect/main.go:130`);
* what the page writes to `Go`, `fs` or `process` during the load is lost
  (`go.ts:70`); `glue-window.test.ts` says that a name written while the glue is
  loading is still there, and tries a name that is not one of the three;
* `peakMemoryBytes` misses an instance that grew and then trapped (`engine.ts:142`);
* when the host refuses the replacement at the memory bound, the answer already decoded
  is lost with it (`engine.ts:144`); the model has the step and no property claims otherwise;
* `resolveTarget` skips a reference that is not to a resource
  (`terraform/grant.go:160`), so a target expression that mixes a resource with a variable or a
  module's output is named by the resource even where it yields the other one, and two
  targets can read as one; `terraform/doc.go:139` would rather split than merge. The workspaces of
  `MCTerraform` have no such expression, and `TargetsApart` assumes there is none
  (`ConfigAssumption`);
* a half-made credential states no target, so `resolveTarget` takes the one instance of the
  resources its expression names (`terraform/grant.go:156`); for an object that is only held
  over or deleted the document need not list the instance the expression once yielded, and
  another may then be taken for it. `BareAssumption` keeps such expressions out of what may
  be half made;
* with one pin read, `decide` does not look at what went unread
  (`ring/classify.go:251`), so a place is outsider and exact where an unread
  condition may pin the grant to a declared owner; `docs/OVERVIEW.md:38` says that
  no unread constraint could move an exact place nearer.

Beside these, `EngineReadsTheBundle` is stated for an IAM whose markers end: a
listing that starts over holds a role twice, and `ReadBundle` refuses such a bundle. The
bound on a bundle's bytes (`findings.go:140`) is left out of `ReadBundle`.
`AdmissionsAreTrue` is stated for policies whose effects could be read; the case it
excepts is `explain_effect`.

## 6. What is not modelled, and the plan

Left out of the modelled parts:

* every wording, evidence text and order of lists;
* the JSON trees below the members a reader looks at, offsets, lone surrogates, and
  `edit.go`; the CEL lexer (escapes, numbers, comments); the characters of an issuer's
  normalisation;
* the basis of an intermediary, and whether an owner's name can pass to someone else;
* tokens with no `iss`, principals that take no token, and a key's claim differing by
  issuer, under `Explain`;
* `Excludes` and the rendering of the lattice;
* Terraform's sensitive marks (they redact evidence and change no grant) and the repair of strings in `stringValue`;
* the grammar by which `withoutPeople` finds a name in a text;
* the grammar and bounds of `ReadDeclarations`.

Not modelled at all: the components marked so in `PROJECT.json`. Data and harnesses
(vendor tables, case-folding tables, evidence records, the differential) have no
behaviour to check and stay out. The command is arguments and files around the report.

Next, in this order:

1. `Findings`, `Remark`, `Fix`: findings over a bundle, a finding's identity across
   remarks, and a fix that is read back by the reader and narrows.
2. The grammar of `ReadDeclarations`, and `withoutPeople`: that a second pass changes
   nothing, and the engine's pass over an old bundle.
3. Proofs: the evaluator of `Cel` with its trees as functions over positions instead of
   RECURSIVE operators, and from it the refinement of `ReaderPromise` by `Google`.
