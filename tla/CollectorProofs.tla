--------------------------- MODULE CollectorProofs ---------------------------
(***************************************************************************)
(* A run of cloudarq-collect, for any account, page size, ceiling and      *)
(* errors: once the account is known what it writes and prints names       *)
(* nobody, a role it misses is said to be missed, and the engine reads     *)
(* what it wrote.                                                          *)
(***************************************************************************)
EXTENDS Collector, FiniteSetTheorems, TLAPS

-----------------------------------------------------------------------------
(***************************************************************************)
(* The place of a role in IAM's order, among those it has left to list: a  *)
(* numbering of them from 1.                                               *)
(***************************************************************************)
UpTo(S, r) == { q \in S : q <= r }
Rank(S, r) == Cardinality(UpTo(S, r))

(* The numbering keeps the order and tells the roles apart. *)
LEMMA RankOrder ==
    ASSUME NEW S \in SUBSET Nat, IsFiniteSet(S), NEW q \in S, NEW r \in S
    PROVE  /\ Rank(S, r) \in 1..Cardinality(S)
           /\ q <= r <=> Rank(S, q) <= Rank(S, r)
           /\ q = r <=> Rank(S, q) = Rank(S, r)
  <1>1. \A x \in S : /\ UpTo(S, x) \in SUBSET S /\ IsFiniteSet(UpTo(S, x))
                     /\ Rank(S, x) \in Nat /\ Rank(S, x) <= Cardinality(S) /\ Rank(S, x) # 0
    <2> SUFFICES ASSUME NEW x \in S
                 PROVE  /\ UpTo(S, x) \in SUBSET S /\ IsFiniteSet(UpTo(S, x))
                        /\ Rank(S, x) \in Nat /\ Rank(S, x) <= Cardinality(S) /\ Rank(S, x) # 0
      OBVIOUS
    <2>1. UpTo(S, x) \in SUBSET S /\ x \in UpTo(S, x)
      BY DEF UpTo
    <2>2. IsFiniteSet(UpTo(S, x)) /\ Cardinality(UpTo(S, x)) <= Cardinality(S)
      BY <2>1, FS_Subset
    <2>3. Cardinality(UpTo(S, x)) \in Nat /\ Cardinality(UpTo(S, x)) # 0
      BY <2>1, <2>2, FS_CardinalityType, FS_EmptySet
    <2> QED
      BY <2>1, <2>2, <2>3 DEF Rank
  <1>2. Cardinality(S) \in Nat
    BY FS_CardinalityType
  <1>3. ASSUME NEW x \in S, NEW y \in S, x < y PROVE Rank(S, x) < Rank(S, y)
    <2>1. UpTo(S, x) \in SUBSET UpTo(S, y) /\ UpTo(S, x) # UpTo(S, y)
      <3>1. \A z \in S : z \in Nat /\ (z <= x => z <= y)
        BY <1>3
      <3>2. y \in UpTo(S, y) /\ y \notin UpTo(S, x)
        BY <1>3 DEF UpTo
      <3> QED
        BY <3>1, <3>2 DEF UpTo
    <2>2. IsFiniteSet(UpTo(S, y))
      BY <1>1
    <2>3. /\ Cardinality(UpTo(S, x)) <= Cardinality(UpTo(S, y))
          /\ Cardinality(UpTo(S, x)) # Cardinality(UpTo(S, y))
      BY <2>1, <2>2, FS_Subset
    <2> QED
      BY <1>1, <2>3 DEF Rank
  <1>4. q \in Nat /\ r \in Nat
    OBVIOUS
  <1> QED
    BY <1>1, <1>2, <1>3, <1>4

(* Every number up to the count of them is the place of one. *)
LEMMA RankOnto ==
    ASSUME NEW S \in SUBSET Nat, IsFiniteSet(S), NEW i \in 1..Cardinality(S)
    PROVE  \E r \in S : Rank(S, r) = i
  <1> DEFINE n == Cardinality(S)
             f == [r \in S |-> Rank(S, r)]
  <1>1. n \in Nat
    BY FS_CardinalityType
  <1>2. IsFiniteSet(1..n) /\ Cardinality(1..n) = n
    BY <1>1, FS_Interval
  <1>3. f \in [S -> 1..n] /\ \A q, r \in S : f[q] = f[r] => q = r
    BY RankOrder
  <1>4. f \in Injection(S, 1..n)
    BY <1>3 DEF Injection, IsInjective
  <1> HIDE DEF f
  <1>5. f \in Surjection(S, 1..n)
    BY <1>2, <1>4, FS_Injection
  <1>6. \E r \in S : f[r] = i
    BY <1>5 DEF Surjection
  <1> QED
    BY <1>6 DEF f

(* InOrder lists each once, by its place. *)
LEMMA InOrderLemma ==
    ASSUME NEW S \in SUBSET Nat, IsFiniteSet(S)
    PROVE  /\ Cardinality(S) \in Nat /\ InOrder(S) \in [1..Cardinality(S) -> S]
           /\ \A i \in 1..Cardinality(S) : Rank(S, InOrder(S)[i]) = i
           /\ \A r \in S : InOrder(S)[Rank(S, r)] = r
           /\ \A i, j \in 1..Cardinality(S) : InOrder(S)[i] = InOrder(S)[j] => i = j
  <1> DEFINE n == Cardinality(S)
  <1>1. InOrder(S) = [i \in 1..n |-> CHOOSE r \in S : Rank(S, r) = i]
    BY DEF InOrder, Rank, UpTo
  <1>2. ASSUME NEW i \in 1..n
        PROVE  InOrder(S)[i] \in S /\ Rank(S, InOrder(S)[i]) = i
    BY <1>1, RankOnto
  <1>3. n \in Nat
    BY FS_CardinalityType
  <1>4. ASSUME NEW r \in S PROVE InOrder(S)[Rank(S, r)] = r
    <2>1. Rank(S, r) \in 1..n
      BY RankOrder
    <2> QED
      BY <1>2, <2>1, RankOrder
  <1>5. InOrder(S) \in [1..n -> S]
    BY <1>1, <1>2
  <1> QED
    BY <1>2, <1>3, <1>4, <1>5

(* FirstOf is the first n, and no more. *)
LEMMA FirstOfLemma ==
    ASSUME NEW S \in SUBSET Nat, IsFiniteSet(S), NEW n \in Nat
    PROVE  /\ FirstOf(S, n) \in SUBSET S /\ IsFiniteSet(FirstOf(S, n))
           /\ Cardinality(FirstOf(S, n)) \in Nat /\ Cardinality(FirstOf(S, n)) <= n
           /\ \A r \in S : r \in FirstOf(S, n) <=> Rank(S, r) <= n
  <1> DEFINE F == FirstOf(S, n)
             k == Cardinality(F)
  <1>1. F = { r \in S : Rank(S, r) <= n }
    BY DEF FirstOf, Rank, UpTo
  <1> HIDE DEF F
  <1>2. F \in SUBSET S /\ F \in SUBSET Nat /\ IsFiniteSet(F)
    BY <1>1, FS_Subset
  <1>3. k \in Nat
    BY <1>2, FS_CardinalityType
  <1>4. k <= n
    <2>1. CASE k = 0
      BY <1>3, <2>1
    <2>2. CASE k # 0
      <3>1. PICK r \in F : Rank(F, r) = k
        <4>1. k \in 1..k
          BY <1>3, <2>2
        <4> QED
          BY <1>2, <4>1, RankOnto
      <3>2. UpTo(F, r) \in SUBSET UpTo(S, r) /\ UpTo(S, r) \in SUBSET S
        BY <1>2 DEF UpTo
      <3>3. IsFiniteSet(UpTo(S, r))
        BY <3>2, FS_Subset
      <3>4. Rank(F, r) <= Rank(S, r)
        BY <3>2, <3>3, FS_Subset DEF Rank
      <3>5. Rank(S, r) \in Nat /\ Rank(S, r) <= n
        BY <1>1, <3>3, FS_CardinalityType DEF Rank
      <3> QED
        BY <1>3, <3>1, <3>4, <3>5
    <2> QED
      BY <2>1, <2>2
  <1> QED
    BY <1>1, <1>2, <1>3, <1>4 DEF F

-----------------------------------------------------------------------------
(* What the variables hold. *)
Before  == {"start", "identity", "alias", "organization"}
After   == {"strip", "encode", "report"}
Refusals ==
    [call : Calls, code : {"api", "Unanswered"}, mentions : SUBSET {"principal", "person", "home"}]
Pages   == [roles : Seq(Roles), truncated : BOOLEAN]
Limits  == {Ceiling} \cup { <<"undecoded", r>> : r \in Roles }
Bundles == [pages : Seq(Pages), refused : SUBSET Refusals, limits : SUBSET Limits,
            organization : {"unread", "member", "not-a-member", "refused"}]

TypeOK ==
    /\ pc \in Before \cup {"roles"} \cup After \cup {"done"}
    /\ bundle \in Bundles
    /\ marker \in Nat
    /\ stdout \in {"nothing", "part", "bundle"}
    /\ exit \in {0, 1, 2, 3, 9}
    /\ account \in BOOLEAN /\ expired \in BOOLEAN /\ honest \in BOOLEAN
    /\ live \subseteq Roles /\ steady \subseteq Roles /\ ever \subseteq Roles

(* The order of the program: what is written and exited with, and when. *)
Order ==
    /\ pc \notin {"report", "done"} => stdout = "nothing"
    /\ pc # "done" => exit = 9
    /\ stdout = "bundle" /\ exit = 0 => ~Partial(bundle)
    /\ pc \in Before => bundle.pages = <<>>
    /\ pc \in Before \cup {"roles"} /\ bundle.pages = <<>> => marker = 0
    /\ pc \in {"start", "identity"} => ~account

(***************************************************************************)
(* Once the refusals are stripped they name nobody, and nothing was        *)
(* printed before them: what STS or the settings failed with ends the run  *)
(* without an account.                                                     *)
(***************************************************************************)
Stripped ==
    /\ pc \in {"encode", "report"} \/ stdout # "nothing" =>
        \A r \in bundle.refused : Anonymous(r)
    /\ pc # "done" => stderr = {}
    /\ account => \A said \in stderr : Anonymous(said)

(* The organization's status and its line in the refusals. *)
Organization ==
    /\ pc \in Before => ~OrganizationRefused(bundle)
    /\ pc \in {"roles"} \cup After \/ stdout = "bundle" =>
        /\ bundle.organization \in {"member", "not-a-member", "refused"}
        /\ bundle.organization = "refused" <=> OrganizationRefused(bundle)

(***************************************************************************)
(* The listing: while it pages, every steady role up to the marker is in   *)
(* the bundle; once it has stopped, every one is, or the bundle says why   *)
(* not.                                                                    *)
(***************************************************************************)
Excused(b) == (\E r \in b.refused : r.call = "iam:ListRoles") \/ Ceiling \in b.limits

Listing ==
    /\ pc \in Before \cup {"roles"} => steady \subseteq live
    /\ pc = "roles" => \A r \in steady : r <= marker => r \in RolesIn(bundle)
    /\ pc \in After \/ stdout = "bundle" => steady \subseteq RolesIn(bundle) \/ Excused(bundle)
    /\ \A r \in RolesIn(bundle) \cap Undecodable : <<"undecoded", r>> \in bundle.limits

(* No role is in two places, and none beyond the marker yet. *)
Once(b) ==
    /\ \A i, k \in DOMAIN b.pages :
        \A j \in DOMAIN b.pages[i].roles, l \in DOMAIN b.pages[k].roles :
            b.pages[i].roles[j] = b.pages[k].roles[l] => i = k /\ j = l
    /\ \A i \in DOMAIN b.pages : Len(b.pages[i].roles) <= PageSize

Unrepeated ==
    honest =>
        /\ Once(bundle)
        /\ pc = "roles" => \A r \in RolesIn(bundle) : r <= marker

(* The bundle's roles were in the account at some time of the listing. *)
Seen ==
    /\ pc \in Before \cup {"roles"} => live \subseteq ever
    /\ RolesIn(bundle) \subseteq ever

CollectorInv == TypeOK /\ Order /\ Stripped /\ Organization /\ Listing /\ Unrepeated /\ Seen

-----------------------------------------------------------------------------
(***************************************************************************)
(* What IAM's answers are to a marker m, S being the roles beyond it: some *)
(* of S, each once, and all of S when it says there are no more; otherwise *)
(* all of S up to the marker it gives, which moves on if it is honest.     *)
(***************************************************************************)
Moves(a, m) == a.marker >= m /\ \A r \in RolesOf(a) : r <= a.marker

Fits(a, S, m) ==
    /\ a.roles \in Seq(Roles) /\ a.truncated \in BOOLEAN /\ a.marker \in Nat
    /\ Len(a.roles) <= PageSize
    /\ \A i, j \in DOMAIN a.roles : a.roles[i] = a.roles[j] => i = j
    /\ RolesOf(a) \subseteq S
    /\ ~a.truncated => S \subseteq RolesOf(a)
    /\ a.truncated => \A r \in S : r <= a.marker => r \in RolesOf(a)

(* The answers of an honest IAM. *)
LEMMA HonestAnswerLemma ==
    ASSUME NEW S \in SUBSET Roles, NEW m \in Nat, \A r \in S : r > m,
           NEW n \in 0..PageSize, n <= Cardinality(S)
    PROVE  /\ Fits(Answer(S, m, n), S, m)
           /\ DOMAIN Answer(S, m, n) = {"roles", "truncated", "marker"}
           /\ Answer(S, m, n).truncated => Moves(Answer(S, m, n), m)
  <1> DEFINE a == Answer(S, m, n)
             F == FirstOf(S, n)
             k == Cardinality(F)
             N == Cardinality(S)
  <1>1. S \in SUBSET Nat /\ IsFiniteSet(S) /\ 0 \notin S
    BY CollectorAssumption, FS_Subset
  <1>2. N \in Nat /\ n \in Nat /\ n <= PageSize /\ PageSize \in Nat
    BY <1>1, CollectorAssumption, FS_CardinalityType
  <1>3. /\ a.roles = InOrder(F) /\ a.truncated = (n < N)
        /\ a.marker = IF n = N THEN 0 ELSE IF n = 0 THEN m ELSE InOrder(S)[n]
        /\ DOMAIN a = {"roles", "truncated", "marker"}
    BY DEF Answer
  <1>4. /\ F \in SUBSET S /\ IsFiniteSet(F) /\ k \in Nat /\ k <= n
        /\ \A r \in S : r \in F <=> Rank(S, r) <= n
    BY <1>1, <1>2, FirstOfLemma
  <1> HIDE DEF a, F
  <1>5. F \in SUBSET Nat
    BY <1>1, <1>4
  <1>6. /\ InOrder(F) \in [1..k -> F]
        /\ \A r \in F : InOrder(F)[Rank(F, r)] = r
        /\ \A i, j \in 1..k : InOrder(F)[i] = InOrder(F)[j] => i = j
        /\ \A r \in F : Rank(F, r) \in 1..k
    BY <1>4, <1>5, InOrderLemma, RankOrder
  <1>7. /\ a.roles \in Seq(Roles) /\ Len(a.roles) = k /\ DOMAIN a.roles = 1..k
        /\ \A i, j \in DOMAIN a.roles : a.roles[i] = a.roles[j] => i = j
    <2>1. a.roles \in [1..k -> Roles]
      BY <1>3, <1>4, <1>6
    <2>2. a.roles \in Seq(Roles) /\ Len(a.roles) = k
      BY <1>4, <2>1
    <2> QED
      BY <1>3, <1>6, <2>1, <2>2
  <1>8. RolesOf(a) = F
    BY <1>3, <1>6 DEF RolesOf
  <1>9. CASE n = N
    <2>0. (n < N) = FALSE
      BY <1>2, <1>9
    <2>1. ~a.truncated /\ a.marker = 0 /\ a.truncated \in BOOLEAN
      BY <1>3, <1>9, <2>0
    <2>2. S \subseteq F
      BY <1>1, <1>4, <1>9, RankOrder
    <2> QED
      BY <1>2, <1>3, <1>4, <1>7, <1>8, <2>1, <2>2 DEF Fits, a
  <1>10. CASE n < N
    <2>1. a.truncated /\ a.truncated \in BOOLEAN
      BY <1>3, <1>10
    <2>2. CASE n = 0
      <3>1. a.marker = m
        BY <1>2, <1>3, <1>10, <2>2
      <3>2. F = {}
        <4>1. k = 0
          BY <1>4, <2>2
        <4> QED
          BY <1>4, <4>1, FS_EmptySet DEF F
      <3>3. \A r \in S : ~(r <= m)
        BY <1>1
      <3> QED
        BY <1>2, <1>3, <1>4, <1>7, <1>8, <2>1, <3>1, <3>2, <3>3 DEF Fits, Moves, a
    <2>3. CASE n # 0
      <3> DEFINE last == InOrder(S)[n]
      <3>1. a.marker = last
        BY <1>2, <1>3, <1>10, <2>3
      <3>2. n \in 1..N
        BY <1>2, <1>10, <2>3
      <3>3. last \in S /\ Rank(S, last) = n
        BY <1>1, <3>2, InOrderLemma
      <3> HIDE DEF last
      <3>4. \A r \in S : r \in F <=> r <= last
        BY <1>1, <1>4, <3>3, RankOrder
      <3>5. last \in Nat /\ last >= m
        BY <1>1, <3>3
      <3> QED
        BY <1>2, <1>3, <1>4, <1>7, <1>8, <2>1, <3>1, <3>4, <3>5 DEF Fits, Moves, a
    <2> QED
      BY <2>2, <2>3
  <1> QED
    BY <1>2, <1>9, <1>10

(* All the answers there are. *)
LEMMA AnswersLemma ==
    ASSUME live \subseteq Roles, NEW m \in Nat, NEW a \in Answers(m)
    PROVE  /\ Fits(a, Listed(m), m)
           /\ honest /\ a.truncated => Moves(a, m)
  <1> DEFINE S == Listed(m)
  <1>1. S \in SUBSET Roles /\ \A r \in S : r > m
    BY DEF Listed
  <1> HIDE DEF S
  <1>2. ASSUME NEW h \in HonestAnswers(m)
        PROVE  /\ Fits(h, S, m) /\ DOMAIN h = {"roles", "truncated", "marker"}
               /\ h.truncated => Moves(h, m)
    <2>1. PICK n \in 0..PageSize : n <= Cardinality(S) /\ h = Answer(S, m, n)
      BY DEF HonestAnswers, S
    <2> QED
      BY <1>1, <2>1, HonestAnswerLemma
  <1>3. CASE a \in HonestAnswers(m)
    BY <1>2, <1>3 DEF S
  <1>4. CASE a \notin HonestAnswers(m)
    <2>1. ~honest
      BY <1>4 DEF Answers
    <2>2. PICK h \in HonestAnswers(m), again \in {0, m} :
              a = [h EXCEPT !.truncated = TRUE, !.marker = again]
      BY <1>4 DEF Answers, Unending
    <2>3. Fits(h, S, m) /\ DOMAIN h = {"roles", "truncated", "marker"}
      BY <1>2
    <2>4. a.roles = h.roles /\ a.truncated = TRUE /\ a.marker = again
      BY <2>2, <2>3
    <2>5. RolesOf(a) = RolesOf(h)
      BY <2>4 DEF RolesOf
    <2>6. again \in Nat /\ \A r \in S : ~(r <= again)
      BY <1>1, CollectorAssumption
    <2> QED
      BY <2>1, <2>3, <2>4, <2>5, <2>6 DEF Fits, S
  <1> QED
    BY <1>3, <1>4

-----------------------------------------------------------------------------
(* The roles of a bundle are those of its pages. *)
LEMMA SamePages ==
    ASSUME NEW b, NEW c, c.pages = b.pages
    PROVE  RolesIn(c) = RolesIn(b) /\ (Once(b) => Once(c))
  BY DEF RolesIn, Once

(* One more page adds its own, and repeats none when they are new. *)
LEMMA OneMorePage ==
    ASSUME NEW b \in Bundles, NEW c, NEW page \in Pages, c.pages = Append(b.pages, page)
    PROVE  /\ RolesIn(c) = RolesIn(b) \cup RolesOf(page)
           /\ /\ Once(b) /\ Len(page.roles) <= PageSize
              /\ \A i, j \in DOMAIN page.roles : page.roles[i] = page.roles[j] => i = j
              /\ RolesOf(page) \cap RolesIn(b) = {}
              => Once(c)
  <1> DEFINE n == Len(b.pages)
  <1>1. n \in Nat /\ DOMAIN b.pages = 1..n
    BY DEF Bundles
  <1>2. /\ DOMAIN c.pages = 1..(n + 1) /\ c.pages[n + 1] = page
        /\ \A i \in 1..n : c.pages[i] = b.pages[i]
    BY DEF Bundles
  <1>3. RolesIn(c) = RolesIn(b) \cup RolesOf(page)
    <2>1. \A i \in 1..(n + 1) : i \in 1..n \/ i = n + 1
      BY <1>1
    <2>2. n + 1 \in 1..(n + 1) /\ 1..n \subseteq 1..(n + 1)
      BY <1>1
    <2> HIDE DEF n
    <2> QED
      BY <1>1, <1>2, <2>1, <2>2 DEF RolesIn
  <1>4. ASSUME Once(b), Len(page.roles) <= PageSize,
               \A i, j \in DOMAIN page.roles : page.roles[i] = page.roles[j] => i = j,
               RolesOf(page) \cap RolesIn(b) = {}
        PROVE  Once(c)
    <2>1. \A i \in 1..n : \A j \in DOMAIN b.pages[i].roles : b.pages[i].roles[j] \in RolesIn(b)
      BY <1>1 DEF RolesIn, RolesOf
    <2>2. \A j \in DOMAIN page.roles : page.roles[j] \in RolesOf(page)
      BY DEF RolesOf
    <2>3. ASSUME NEW i \in 1..(n + 1), NEW k \in 1..(n + 1),
                 NEW j \in DOMAIN c.pages[i].roles, NEW l \in DOMAIN c.pages[k].roles,
                 c.pages[i].roles[j] = c.pages[k].roles[l]
          PROVE  i = k /\ j = l
      <3>1. CASE i \in 1..n /\ k \in 1..n
        BY <1>1, <1>2, <1>4, <2>3, <3>1 DEF Once
      <3>2. CASE i = n + 1 /\ k = n + 1
        BY <1>2, <1>4, <2>3, <3>2
      <3>3. CASE i \in 1..n /\ k = n + 1
        BY <1>2, <1>4, <2>1, <2>2, <2>3, <3>3
      <3>4. CASE i = n + 1 /\ k \in 1..n
        BY <1>2, <1>4, <2>1, <2>2, <2>3, <3>4
      <3> QED
        BY <1>1, <3>1, <3>2, <3>3, <3>4
    <2>4. \A i \in 1..(n + 1) : Len(c.pages[i].roles) <= PageSize
      BY <1>1, <1>2, <1>4 DEF Once
    <2> QED
      BY <1>2, <2>3, <2>4 DEF Once
  <1> QED
    BY <1>3, <1>4

(* A page holds roles of the account. *)
LEMMA PageLemma ==
    ASSUME NEW b \in Bundles, NEW i \in DOMAIN b.pages
    PROVE  b.pages[i].roles \in Seq(Roles)
  <1>1. b.pages \in Seq(Pages)
    BY DEF Bundles
  <1>2. b.pages[i] \in Pages
    BY <1>1
  <1> QED
    BY <1>2 DEF Pages

(* What a refusal in the bundle is. *)
LEMMA RefusalLemma ==
    ASSUME NEW call \in Calls, NEW err \in Errors
    PROVE  Refusal(call, err) \in Refusals /\ Refusal(call, err).call = call
  <1>1. /\ err.kind \in {"api", "process", "other"}
        /\ err.mentions \subseteq {"principal", "person", "home", "output"}
        /\ "output" \in err.mentions => err.kind = "process"
    BY CollectorAssumption
  <1>2. CASE err.kind = "process"
    BY <1>2 DEF Refusal, Refusals
  <1>3. CASE err.kind # "process"
    <2>1. err.mentions \in SUBSET {"principal", "person", "home"}
      BY <1>1, <1>3
    <2> QED
      BY <1>3, <2>1 DEF Refusal, Refusals
  <1> QED
    BY <1>2, <1>3

(* Roles are numbered from 1. *)
LEMMA RolesLemma == Roles \subseteq Nat /\ 0 \notin Roles
  BY CollectorAssumption

(* What a step of the collector may fail with is an error it can report. *)
LEMMA FailuresLemma == Failures \subseteq Errors
  BY CollectorAssumption DEF Failures

(* withoutTheCaller leaves the call, and a refusal that names nobody. *)
LEMMA StripLemma ==
    ASSUME NEW r \in Refusals
    PROVE  /\ WithoutTheCaller(r) \in Refusals /\ WithoutTheCaller(r).call = r.call
           /\ Anonymous(WithoutTheCaller(r))
  BY DEF WithoutTheCaller, Refusals, Anonymous

-----------------------------------------------------------------------------
(* The invariant, begun. *)
LEMMA InitKeeps == Init => CollectorInv
  <1> SUFFICES ASSUME Init PROVE CollectorInv
    OBVIOUS
  <1>1. bundle \in Bundles
    BY DEF Init, NoBundle, Bundles
  <1>2. RolesIn(bundle) = {} /\ Once(bundle) /\ ~OrganizationRefused(bundle)
    BY DEF Init, NoBundle, RolesIn, Once, OrganizationRefused
  <1>3. TypeOK
    BY <1>1 DEF Init, TypeOK, Before
  <1> QED
    BY <1>2, <1>3 DEF Init, CollectorInv, Order, Stripped, Organization, Listing, Unrepeated,
        Seen, Before, After, NoBundle

(* The steps that leave the bundle as it is. *)
LEMMA QuietStepsKeep ==
    ASSUME CollectorInv, Start \/ GetCallerIdentity \/ Encode \/ Report, UNCHANGED world
    PROVE  CollectorInv'
  <1>1. bundle' = bundle /\ marker' = marker
    BY DEF Start, GetCallerIdentity, Encode, Report
  <1>2. /\ expired' = expired /\ honest' = honest /\ live' = live /\ steady' = steady
        /\ ever' = ever
    BY DEF world
  <1>3. TypeOK /\ Order /\ Stripped /\ Organization /\ Listing /\ Unrepeated /\ Seen
    BY DEF CollectorInv
  <1>4. CASE Start
    <2>1. pc = "start" /\ stdout' = stdout /\ pc' \in {"identity", "done"} /\ exit' \in {0, 1, 2, exit}
          /\ (pc' = "identity" => exit' = exit /\ stderr' = stderr) /\ ~account /\ account' = account
      BY <1>3, <1>4 DEF Start, Stop, Order
    <2> QED
      BY <1>1, <1>2, <1>3, <2>1 DEF CollectorInv, TypeOK, Order, Stripped, Organization, Listing,
          Unrepeated, Seen, Before, After
  <1>5. CASE GetCallerIdentity
    <2>0. pc = "identity" /\ account = FALSE
      BY <1>3, <1>5 DEF GetCallerIdentity, Order, TypeOK
    <2>1. /\ stdout' = stdout /\ exit' \in {1, exit}
          /\ \/ pc' = "alias" /\ exit' = exit /\ stderr' = stderr /\ account' = TRUE
             \/ pc' = "done" /\ account' = account
      BY <1>5 DEF GetCallerIdentity, Stop
    <2> QED
      BY <1>1, <1>2, <1>3, <2>0, <2>1 DEF CollectorInv, TypeOK, Order, Stripped, Organization, Listing,
          Unrepeated, Seen, Before, After
  <1>6. CASE Encode
    <2>1. /\ pc = "encode" /\ stderr' = stderr /\ account' = account
          /\ \/ stdout' = "bundle" /\ pc' = "report" /\ exit' = exit
             \/ stdout' \in {"nothing", "part"} /\ pc' = "done" /\ exit' = 1
      BY <1>6 DEF Encode, Stop
    <2> QED
      BY <1>1, <1>2, <1>3, <2>1 DEF CollectorInv, TypeOK, Order, Stripped, Organization, Listing,
          Unrepeated, Seen, Before, After
  <1>7. CASE Report
    <2>1. /\ pc = "report" /\ stdout' = stdout /\ pc' = "done" /\ account' = account
          /\ exit' = IF Partial(bundle) THEN 3 ELSE 0
          /\ stderr' = stderr \cup { [code |-> r.code, mentions |-> r.mentions] : r \in bundle.refused }
      BY <1>7 DEF Report, Stop, Say
    <2>2. \A said \in stderr' : Anonymous(said)
      BY <1>3, <2>1 DEF Stripped, Anonymous
    <2> QED
      BY <1>1, <1>2, <1>3, <2>1, <2>2 DEF CollectorInv, TypeOK, Order, Stripped, Organization, Listing,
          Unrepeated, Seen, Before, After
  <1> QED
    BY <1>4, <1>5, <1>6, <1>7

(* The deadline and the account's own changes. *)
LEMMA WorldKeeps ==
    ASSUME CollectorInv, Expire \/ (\E r \in Roles : ChangeAccount(r))
    PROVE  CollectorInv'
  <1>1. /\ bundle' = bundle /\ marker' = marker /\ pc' = pc /\ stdout' = stdout /\ exit' = exit
        /\ honest' = honest /\ stderr' = stderr /\ account' = account
    BY DEF Expire, ChangeAccount, program
  <1>2. TypeOK /\ Order /\ Stripped /\ Organization /\ Listing /\ Unrepeated /\ Seen
    BY DEF CollectorInv
  <1>3. Order' /\ Stripped' /\ Organization' /\ Unrepeated'
    BY <1>1, <1>2 DEF Order, Stripped, Organization, Unrepeated
  <1>4. CASE Expire
    <2>1. live' = live /\ steady' = steady /\ ever' = ever /\ expired' = TRUE
      BY <1>4 DEF Expire
    <2> QED
      BY <1>1, <1>2, <1>3, <2>1 DEF CollectorInv, TypeOK, Listing, Seen
  <1>5. ASSUME NEW r \in Roles, ChangeAccount(r) PROVE CollectorInv'
    <2>1. /\ live' \subseteq Roles /\ expired' = expired
          /\ pc \in {"identity", "alias", "organization", "roles"}
          /\ bundle.pages = <<>> => steady' = live' /\ ever' = live'
          /\ bundle.pages # <<>> => steady' = steady \cap live' /\ ever' = ever \cup live'
      BY <1>2, <1>5 DEF ChangeAccount, TypeOK
    <2>2. TypeOK'
      BY <1>1, <1>2, <2>1 DEF TypeOK
    <2>3. CASE bundle.pages # <<>>
      BY <1>1, <1>2, <1>3, <2>1, <2>2, <2>3 DEF CollectorInv, Listing, Seen, Order, Before, After
    <2>4. CASE bundle.pages = <<>>
      <3>1. steady' = live' /\ ever' = live' /\ marker = 0 /\ stdout = "nothing"
        BY <1>2, <2>1, <2>4 DEF Order, Before
      <3>2. \A q \in live' : ~(q <= 0)
        BY <2>1, RolesLemma
      <3>3. RolesIn(bundle) = {}
        BY <2>4 DEF RolesIn
      <3> QED
        BY <1>1, <1>2, <1>3, <2>1, <2>2, <2>4, <3>1, <3>2, <3>3
        DEF CollectorInv, Listing, Seen, Before, After
    <2> QED
      BY <2>3, <2>4
  <1> QED
    BY <1>4, <1>5

(* The calls before the listing, answered or refused. *)
LEMMA EarlyCallsKeep ==
    ASSUME CollectorInv, ListAccountAliases \/ DescribeOrganization, UNCHANGED world
    PROVE  CollectorInv'
  <1>1. /\ expired' = expired /\ honest' = honest /\ live' = live /\ steady' = steady
        /\ ever' = ever /\ stderr' = stderr /\ account' = account
        /\ marker' = marker /\ stdout' = stdout /\ exit' = exit
    BY DEF world, ListAccountAliases, DescribeOrganization
  <1>2. TypeOK /\ Order /\ Stripped /\ Organization /\ Listing /\ Unrepeated /\ Seen
    BY DEF CollectorInv
  <1>3. pc \in Before /\ bundle.pages = <<>> /\ marker = 0 /\ stdout = "nothing" /\ exit = 9
    BY <1>2 DEF Order, Before, ListAccountAliases, DescribeOrganization
  <1>4. RolesIn(bundle) = {} /\ ~OrganizationRefused(bundle)
    BY <1>2, <1>3 DEF RolesIn, Organization
  <1>5. \A r \in steady : ~(r <= 0)
    BY <1>2, CollectorAssumption DEF TypeOK
  <1>6. ASSUME bundle' \in Bundles, bundle'.pages = bundle.pages, pc' \in {"organization", "roles"},
               pc' = "organization" => ~OrganizationRefused(bundle'),
               pc' = "roles" => /\ bundle'.organization \in {"member", "not-a-member", "refused"}
                                /\ bundle'.organization = "refused" <=> OrganizationRefused(bundle')
        PROVE  CollectorInv'
    <2>1. RolesIn(bundle') = RolesIn(bundle) /\ (Once(bundle) => Once(bundle'))
      BY <1>6, SamePages
    <2>2. TypeOK'
      BY <1>1, <1>2, <1>6 DEF TypeOK, Before
    <2>3. Order' /\ Stripped'
      BY <1>1, <1>2, <1>3, <1>6 DEF Order, Stripped, Before
    <2>4. Organization'
      BY <1>1, <1>3, <1>6 DEF Organization, Before, After
    <2>5. Listing' /\ Unrepeated' /\ Seen'
      BY <1>1, <1>2, <1>3, <1>4, <1>5, <1>6, <2>1 DEF Listing, Unrepeated, Seen, Before, After
    <2> QED
      BY <2>2, <2>3, <2>4, <2>5 DEF CollectorInv
  <1>7. CASE ListAccountAliases
    <2>1. CASE bundle' = bundle
      BY <1>2, <1>4, <1>6, <1>7, <2>1 DEF ListAccountAliases, TypeOK
    <2>2. ASSUME NEW err \in Failures, Refuse("iam:ListAccountAliases", err) PROVE CollectorInv'
      <3> DEFINE r == Refusal("iam:ListAccountAliases", err)
      <3>1. r \in Refusals /\ r.call = "iam:ListAccountAliases"
        BY RefusalLemma, FailuresLemma DEF Calls
      <3>2. bundle' = [bundle EXCEPT !.refused = @ \cup {r}]
        BY <2>2 DEF Refuse
      <3> HIDE DEF r
      <3>3. bundle' \in Bundles /\ bundle'.pages = bundle.pages /\ bundle'.refused = bundle.refused \cup {r}
        BY <1>2, <3>1, <3>2 DEF TypeOK, Bundles
      <3>4. ~OrganizationRefused(bundle')
        BY <1>4, <3>1, <3>3 DEF OrganizationRefused
      <3> QED
        BY <1>6, <1>7, <3>3, <3>4 DEF ListAccountAliases
    <2> QED
      BY <1>7, <2>1, <2>2 DEF ListAccountAliases
  <1>8. CASE DescribeOrganization
    <2>1. ASSUME NEW status \in {"member", "not-a-member"},
                 bundle' = [bundle EXCEPT !.organization = status]
          PROVE  CollectorInv'
      <3>1. /\ bundle' \in Bundles /\ bundle'.pages = bundle.pages
            /\ bundle'.refused = bundle.refused /\ bundle'.organization = status
        BY <1>2, <2>1 DEF TypeOK, Bundles
      <3>2. ~OrganizationRefused(bundle')
        BY <1>4, <3>1 DEF OrganizationRefused
      <3> QED
        BY <1>6, <1>8, <3>1, <3>2 DEF DescribeOrganization
    <2>2. ASSUME NEW r \in Refusals, r.call = "organizations:DescribeOrganization",
                 bundle' = [bundle EXCEPT !.organization = "refused", !.refused = @ \cup {r}]
          PROVE  CollectorInv'
      <3>1. /\ bundle' \in Bundles /\ bundle'.pages = bundle.pages
            /\ bundle'.refused = bundle.refused \cup {r} /\ bundle'.organization = "refused"
        BY <1>2, <2>2 DEF TypeOK, Bundles
      <3>2. OrganizationRefused(bundle')
        BY <2>2, <3>1 DEF OrganizationRefused
      <3> QED
        BY <1>6, <1>8, <3>1, <3>2 DEF DescribeOrganization
    <2>3. \A err \in Failures : /\ Refusal("organizations:DescribeOrganization", err) \in Refusals
                                /\ Refusal("organizations:DescribeOrganization", err).call
                                        = "organizations:DescribeOrganization"
      BY RefusalLemma, FailuresLemma DEF Calls
    <2>4. [call |-> "organizations:DescribeOrganization", code |-> "Unanswered", mentions |-> {}] \in Refusals
      BY DEF Refusals, Calls
    <2> DEFINE own == [call |-> "organizations:DescribeOrganization", code |-> "Unanswered", mentions |-> {}]
               told == { Refusal("organizations:DescribeOrganization", err) : err \in Failures }
                         \cup (IF expired THEN {} ELSE {own})
    <2>5. own.call = "organizations:DescribeOrganization"
      OBVIOUS
    <2>6. \/ \E status \in {"member", "not-a-member"} : bundle' = [bundle EXCEPT !.organization = status]
          \/ \E r \in told : bundle' = [bundle EXCEPT !.organization = "refused", !.refused = @ \cup {r}]
      BY <1>8 DEF DescribeOrganization
    <2> HIDE DEF own
    <2>7. \A r \in told : r \in Refusals /\ r.call = "organizations:DescribeOrganization"
      BY <2>3, <2>4, <2>5 DEF own
    <2> HIDE DEF told
    <2> QED
      BY <2>1, <2>2, <2>6, <2>7
  <1> QED
    BY <1>7, <1>8

(* The listing cut short: a refused page, or the ceiling. *)
LEMMA CutShortKeeps ==
    ASSUME CollectorInv, RefuseRoles \/ StopPaging, UNCHANGED world
    PROVE  CollectorInv'
  <1>1. /\ expired' = expired /\ honest' = honest /\ live' = live /\ steady' = steady
        /\ ever' = ever /\ stderr' = stderr /\ account' = account
        /\ marker' = marker /\ stdout' = stdout /\ exit' = exit /\ pc = "roles" /\ pc' = "strip"
    BY DEF world, RefuseRoles, StopPaging
  <1>2. TypeOK /\ Order /\ Stripped /\ Organization /\ Listing /\ Unrepeated /\ Seen
    BY DEF CollectorInv
  <1>3. ASSUME bundle' \in Bundles, bundle'.pages = bundle.pages, Excused(bundle'),
               bundle'.organization = bundle.organization,
               OrganizationRefused(bundle') <=> OrganizationRefused(bundle),
               bundle.limits \subseteq bundle'.limits
        PROVE  CollectorInv'
    <2>1. RolesIn(bundle') = RolesIn(bundle) /\ (Once(bundle) => Once(bundle'))
      BY <1>3, SamePages
    <2>2. TypeOK'
      BY <1>1, <1>2, <1>3 DEF TypeOK, After
    <2>3. stdout = "nothing" /\ exit = 9
      BY <1>1, <1>2 DEF Order
    <2>4. Order' /\ Stripped'
      BY <1>1, <1>2, <2>3 DEF Order, Stripped, Before
    <2>5. Organization'
      BY <1>1, <1>2, <1>3, <2>3 DEF Organization, Before, After
    <2>6. Listing' /\ Unrepeated' /\ Seen'
      BY <1>1, <1>2, <1>3, <2>1, <2>3 DEF Listing, Unrepeated, Seen, Before, After
    <2> QED
      BY <2>2, <2>4, <2>5, <2>6 DEF CollectorInv
  <1>4. CASE RefuseRoles
    <2>1. PICK err \in Failures : Refuse("iam:ListRoles", err)
      BY <1>4 DEF RefuseRoles
    <2> DEFINE r == Refusal("iam:ListRoles", err)
    <2>2. r \in Refusals /\ r.call = "iam:ListRoles"
      BY RefusalLemma, FailuresLemma DEF Calls
    <2>3. bundle' = [bundle EXCEPT !.refused = @ \cup {r}]
      BY <2>1 DEF Refuse
    <2> HIDE DEF r
    <2>4. /\ bundle' \in Bundles /\ bundle'.pages = bundle.pages /\ bundle'.limits = bundle.limits
          /\ bundle'.refused = bundle.refused \cup {r} /\ bundle'.organization = bundle.organization
      BY <1>2, <2>2, <2>3 DEF TypeOK, Bundles
    <2>5. OrganizationRefused(bundle') <=> OrganizationRefused(bundle)
      BY <2>2, <2>4 DEF OrganizationRefused
    <2>6. Excused(bundle')
      BY <2>2, <2>4 DEF Excused
    <2> QED
      BY <1>3, <2>4, <2>5, <2>6
  <1>5. CASE StopPaging
    <2>1. /\ bundle' \in Bundles /\ bundle'.pages = bundle.pages /\ bundle'.limits = bundle.limits \cup {Ceiling}
          /\ bundle'.refused = bundle.refused /\ bundle'.organization = bundle.organization
      BY <1>2, <1>5 DEF StopPaging, TypeOK, Bundles, Limits
    <2>2. OrganizationRefused(bundle') <=> OrganizationRefused(bundle)
      BY <2>1 DEF OrganizationRefused
    <2>3. Excused(bundle')
      BY <2>1 DEF Excused
    <2> QED
      BY <1>3, <2>1, <2>2, <2>3
  <1> QED
    BY <1>4, <1>5

(* Collect's last act keeps the calls, and what the refusals excuse. *)
LEMMA StripKeeps ==
    ASSUME CollectorInv, Strip, UNCHANGED world
    PROVE  CollectorInv'
  <1>1. /\ expired' = expired /\ honest' = honest /\ live' = live /\ steady' = steady
        /\ ever' = ever /\ stderr' = stderr /\ account' = account
        /\ marker' = marker /\ stdout' = stdout /\ exit' = exit /\ pc = "strip" /\ pc' = "encode"
    BY DEF world, Strip
  <1>2. TypeOK /\ Order /\ Stripped /\ Organization /\ Listing /\ Unrepeated /\ Seen
    BY DEF CollectorInv
  <1>3. bundle \in Bundles /\ bundle.refused \in SUBSET Refusals /\ stdout = "nothing" /\ exit = 9
    BY <1>1, <1>2 DEF TypeOK, Bundles, Order
  <1> DEFINE R == { WithoutTheCaller(r) : r \in bundle.refused }
  <1>4. /\ R \in SUBSET Refusals /\ \A r \in R : Anonymous(r)
        /\ \A call : (\E r \in R : r.call = call) <=> (\E r \in bundle.refused : r.call = call)
    BY <1>3, StripLemma
  <1>5. bundle' = [bundle EXCEPT !.refused = R]
    BY DEF Strip
  <1> HIDE DEF R
  <1>6. /\ bundle' \in Bundles /\ bundle'.pages = bundle.pages /\ bundle'.limits = bundle.limits
        /\ bundle'.refused = R /\ bundle'.organization = bundle.organization
    BY <1>3, <1>4, <1>5 DEF Bundles
  <1>7. /\ OrganizationRefused(bundle') <=> OrganizationRefused(bundle)
        /\ Excused(bundle') <=> Excused(bundle)
    BY <1>4, <1>6 DEF OrganizationRefused, Excused
  <1>8. RolesIn(bundle') = RolesIn(bundle) /\ (Once(bundle) => Once(bundle'))
    BY <1>6, SamePages
  <1>9. TypeOK'
    BY <1>1, <1>2, <1>6 DEF TypeOK, After
  <1>10. Order' /\ Stripped'
    BY <1>1, <1>2, <1>3, <1>4, <1>6 DEF Order, Stripped, Before
  <1>11. Organization'
    BY <1>1, <1>2, <1>3, <1>6, <1>7 DEF Organization, Before, After
  <1>12. Listing' /\ Unrepeated' /\ Seen'
    BY <1>1, <1>2, <1>3, <1>6, <1>7, <1>8 DEF Listing, Unrepeated, Seen, Before, After
  <1> QED
    BY <1>9, <1>10, <1>11, <1>12 DEF CollectorInv

(* One page of the listing. *)
LEMMA ListRolesKeeps ==
    ASSUME CollectorInv, ListRoles, UNCHANGED world
    PROVE  CollectorInv'
  <1>1. /\ expired' = expired /\ honest' = honest /\ live' = live /\ steady' = steady
        /\ ever' = ever /\ stderr' = stderr /\ account' = account
        /\ stdout' = stdout /\ exit' = exit /\ pc = "roles"
    BY DEF world, ListRoles, KeepPage
  <1>2. TypeOK /\ Order /\ Stripped /\ Organization /\ Listing /\ Unrepeated /\ Seen
    BY DEF CollectorInv
  <1>3. /\ bundle \in Bundles /\ marker \in Nat /\ live \subseteq Roles /\ steady \subseteq live
        /\ stdout = "nothing" /\ exit = 9
        /\ \A r \in steady : r <= marker => r \in RolesIn(bundle)
        /\ \A r \in RolesIn(bundle) \cap Undecodable : <<"undecoded", r>> \in bundle.limits
    BY <1>1, <1>2 DEF TypeOK, Order, Listing
  <1>4. PICK a \in Answers(marker) : KeepPage(a)
    BY DEF ListRoles
  <1> DEFINE S == Listed(marker)
             page == [roles |-> a.roles, truncated |-> a.truncated]
             unread == { <<"undecoded", r>> : r \in RolesOf(a) \cap Undecodable }
  <1>5. Fits(a, S, marker) /\ (honest /\ a.truncated => Moves(a, marker))
    BY <1>3, <1>4, AnswersLemma
  <1>6. /\ a.roles \in Seq(Roles) /\ a.truncated \in BOOLEAN /\ a.marker \in Nat
        /\ Len(a.roles) <= PageSize
        /\ \A i, j \in DOMAIN a.roles : a.roles[i] = a.roles[j] => i = j
        /\ RolesOf(a) \subseteq S
        /\ ~a.truncated => S \subseteq RolesOf(a)
        /\ a.truncated => \A r \in S : r <= a.marker => r \in RolesOf(a)
        /\ honest /\ a.truncated => a.marker >= marker /\ \A r \in RolesOf(a) : r <= a.marker
    BY <1>5 DEF Fits, Moves
  <1>7. /\ bundle' = [bundle EXCEPT !.pages = Append(@, page), !.limits = @ \cup unread]
        /\ marker' = a.marker /\ pc' = IF a.truncated THEN "roles" ELSE "strip"
    BY <1>4 DEF KeepPage
  <1>8. page \in Pages /\ page.roles = a.roles /\ RolesOf(page) = RolesOf(a)
    BY <1>6 DEF Pages, RolesOf
  <1>9. unread \in SUBSET Limits /\ \A r \in RolesOf(a) \cap Undecodable : <<"undecoded", r>> \in unread
    BY CollectorAssumption DEF Limits
  <1>10. S \subseteq live /\ \A r \in live : r \in S <=> r > marker
    BY DEF Listed
  <1> HIDE DEF page, unread, S
  <1>11. /\ bundle'.pages = Append(bundle.pages, page) /\ bundle'.limits = bundle.limits \cup unread
         /\ bundle'.refused = bundle.refused /\ bundle'.organization = bundle.organization
         /\ bundle' \in Bundles
    <2> DEFINE P == Append(bundle.pages, page)
               L == bundle.limits \cup unread
    <2>1. P \in Seq(Pages) /\ L \in SUBSET Limits
      BY <1>3, <1>8, <1>9 DEF Bundles
    <2>2. bundle' = [bundle EXCEPT !.pages = P, !.limits = L]
      BY <1>7
    <2> HIDE DEF P, L
    <2>3. /\ bundle'.pages = P /\ bundle'.limits = L /\ bundle' \in Bundles
          /\ bundle'.refused = bundle.refused /\ bundle'.organization = bundle.organization
      BY <1>3, <2>1, <2>2 DEF Bundles
    <2> QED
      BY <2>3 DEF P, L
  <1>12. RolesIn(bundle') = RolesIn(bundle) \cup RolesOf(a)
    BY <1>3, <1>8, <1>11, OneMorePage
  <1>13. OrganizationRefused(bundle') <=> OrganizationRefused(bundle)
    BY <1>11 DEF OrganizationRefused
  <1>14. TypeOK'
    BY <1>1, <1>2, <1>6, <1>7, <1>11 DEF TypeOK, After
  <1>15. Order' /\ Stripped'
    <2>1. bundle'.pages # <<>>
      BY <1>3, <1>8, <1>11 DEF Bundles
    <2> QED
      BY <1>1, <1>2, <1>3, <1>7, <2>1 DEF Order, Stripped, Before
  <1>16. Organization'
    BY <1>1, <1>2, <1>3, <1>7, <1>11, <1>13 DEF Organization, Before, After
  <1>17. \A r \in steady : r \in Nat /\ (r \in S \/ r <= marker)
    BY <1>3, <1>10, RolesLemma
  <1>18. Listing'
    <2>1. a.truncated => \A r \in steady : r <= a.marker => r \in RolesIn(bundle')
      BY <1>3, <1>6, <1>12, <1>17
    <2>2. ~a.truncated => steady \subseteq RolesIn(bundle')
      BY <1>3, <1>6, <1>12, <1>17
    <2>3. \A r \in RolesIn(bundle') \cap Undecodable : <<"undecoded", r>> \in bundle'.limits
      BY <1>3, <1>9, <1>11, <1>12
    <2> QED
      BY <1>1, <1>3, <1>7, <2>1, <2>2, <2>3 DEF Listing, Before, After
  <1>19. Unrepeated'
    <2> SUFFICES ASSUME honest
                 PROVE  Once(bundle') /\ (pc' = "roles" => \A r \in RolesIn(bundle') : r <= marker')
      BY <1>1 DEF Unrepeated
    <2>1. Once(bundle) /\ \A r \in RolesIn(bundle) : r <= marker
      BY <1>1, <1>2 DEF Unrepeated
    <2>2. RolesOf(a) \cap RolesIn(bundle) = {}
      <3>1. \A r \in S : r \in Nat /\ ~(r <= marker)
        BY <1>3, <1>10, CollectorAssumption
      <3> QED
        BY <1>6, <2>1, <3>1
    <2>3. Once(bundle')
      <3>1. /\ Len(page.roles) <= PageSize /\ RolesOf(page) \cap RolesIn(bundle) = {}
            /\ \A i, j \in DOMAIN page.roles : page.roles[i] = page.roles[j] => i = j
        BY <1>6, <1>8, <2>2
      <3> QED
        BY <1>3, <1>8, <1>11, <2>1, <3>1, OneMorePage
    <2>4. ASSUME a.truncated, NEW r \in RolesIn(bundle') PROVE r <= a.marker
      <3>1. CASE r \in RolesOf(a)
        BY <1>6, <2>4, <3>1
      <3>2. CASE r \in RolesIn(bundle)
        <4>1. r \in Nat
          <5>1. \E i \in DOMAIN bundle.pages : \E j \in DOMAIN bundle.pages[i].roles :
                    r = bundle.pages[i].roles[j]
            BY <3>2 DEF RolesIn, RolesOf
          <5>2. \A i \in DOMAIN bundle.pages : bundle.pages[i].roles \in Seq(Roles)
            BY <1>3, PageLemma
          <5>3. r \in Roles
            BY <5>1, <5>2
          <5> QED
            BY <5>3, CollectorAssumption
        <4> QED
          BY <1>3, <1>6, <2>1, <2>4, <3>2, <4>1
      <3> QED
        BY <1>12, <3>1, <3>2
    <2> QED
      BY <1>7, <2>3, <2>4
  <1>20. Seen'
    BY <1>1, <1>2, <1>6, <1>7, <1>10, <1>12 DEF Seen, Before
  <1> QED
    BY <1>14, <1>15, <1>16, <1>18, <1>19, <1>20 DEF CollectorInv

(* What every state of a run satisfies. *)
LEMMA CollectorInvariant == Spec => []CollectorInv
  <1>1. CollectorInv /\ [Next]_vars => CollectorInv'
    <2> SUFFICES ASSUME CollectorInv, [Next]_vars PROVE CollectorInv'
      OBVIOUS
    <2>1. CASE Run
      BY <2>1, QuietStepsKeep, EarlyCallsKeep, CutShortKeeps, StripKeeps, ListRolesKeeps DEF Run, Step
    <2>2. CASE Expire \/ \E r \in Roles : ChangeAccount(r)
      BY <2>2, WorldKeeps
    <2>3. CASE UNCHANGED vars
      BY <2>3 DEF vars, program, world, CollectorInv, TypeOK, Order, Stripped, Organization, Listing,
          Unrepeated, Seen
    <2> QED
      BY <2>1, <2>2, <2>3 DEF Next, Finished
  <1> QED
    BY <1>1, InitKeeps, PTL DEF Spec

-----------------------------------------------------------------------------
(***************************************************************************)
(* withoutTheCaller, refusal and report: once STS has named the account,   *)
(* nothing cloudarq-collect writes, whole or in part, or prints on         *)
(* standard error names whoever ran it, a person an ARN names, what a      *)
(* credential process printed, or, in the SDK's words, the home directory. *)
(***************************************************************************)
THEOREM NobodyIsNamed == Spec => []NoOneIsNamed
  <1>1. CollectorInv => NoOneIsNamed
    BY DEF CollectorInv, Stripped, NoOneIsNamed
  <1> QED
    BY <1>1, CollectorInvariant, PTL

(***************************************************************************)
(* Bundle: a run that exits 0 read the whole account, as it was throughout *)
(* the listing, and a bundle that misses a role says that ListRoles was    *)
(* refused or its ceiling reached, whatever changed between two pages and  *)
(* whatever markers IAM gave.                                              *)
(***************************************************************************)
THEOREM NoRoleIsMissingInSilence == Spec => []MissingRolesAreSaid
  <1>1. CollectorInv => MissingRolesAreSaid
    <2> SUFFICES ASSUME CollectorInv, stdout = "bundle"
                 PROVE  /\ exit = 0 => WholeRead(bundle)
                        /\ \/ steady \subseteq RolesIn(bundle)
                           \/ \E r \in bundle.refused : r.call = "iam:ListRoles"
                           \/ Ceiling \in bundle.limits
      BY DEF MissingRolesAreSaid
    <2>1. steady \subseteq RolesIn(bundle) \/ Excused(bundle)
      BY DEF CollectorInv, Listing
    <2>2. ASSUME exit = 0 PROVE WholeRead(bundle)
      <3>1. bundle.refused = {} /\ bundle.limits = {}
        BY <2>2 DEF CollectorInv, Order, Partial
      <3>2. steady \subseteq RolesIn(bundle)
        BY <2>1, <3>1 DEF Excused
      <3>3. RolesIn(bundle) \cap Undecodable = {}
        BY <3>1 DEF CollectorInv, Listing
      <3>4. bundle.organization \in {"member", "not-a-member"}
        BY <3>1 DEF CollectorInv, Organization, OrganizationRefused
      <3> QED
        BY <3>1, <3>2, <3>3, <3>4 DEF WholeRead
    <2> QED
      BY <2>1, <2>2 DEF Excused
  <1> QED
    BY <1>1, CollectorInvariant, PTL

(***************************************************************************)
(* ReadBundle takes every bundle the collector writes, however the run was *)
(* cut short and the account changed, as long as IAM's markers end and no  *)
(* more roles than IAM's ceiling were ever there during the listing: no    *)
(* role is listed twice, they are within MaxBundleRoles, and the           *)
(* organization agrees with the refusals.                                  *)
(***************************************************************************)
THEOREM EveryBundleIsRead == Spec => []EngineReadsTheBundle
  <1>1. CollectorInv => EngineReadsTheBundle
    <2> SUFFICES ASSUME CollectorInv, stdout = "bundle", honest, Cardinality(ever) <= MaxBundleRoles
                 PROVE  ReadBundle(bundle)
      BY DEF EngineReadsTheBundle
    <2>1. Once(bundle) /\ bundle \in Bundles
      BY DEF CollectorInv, Unrepeated, TypeOK
    <2>2. ASSUME NEW r \in RolesIn(bundle) PROVE Appears(bundle, r) = 1
      <3>1. PICK i \in DOMAIN bundle.pages : r \in RolesOf(bundle.pages[i])
        BY DEF RolesIn
      <3>2. PICK j \in DOMAIN bundle.pages[i].roles : r = bundle.pages[i].roles[j]
        BY <3>1 DEF RolesOf
      <3>3. j \in 1..PageSize
        <4>1. bundle.pages[i].roles \in Seq(Roles)
          BY <2>1, <3>1, PageLemma
        <4>2. Len(bundle.pages[i].roles) <= PageSize
          BY <2>1, <3>1 DEF Once
        <4> QED
          BY <3>2, <4>1, <4>2, CollectorAssumption
      <3> DEFINE P == { p \in (DOMAIN bundle.pages) \X (1..PageSize) :
                          p[2] \in DOMAIN bundle.pages[p[1]].roles /\ bundle.pages[p[1]].roles[p[2]] = r }
      <3>4. <<i, j>> \in P
        BY <3>1, <3>2, <3>3
      <3>5. ASSUME NEW p \in P PROVE p = <<i, j>>
        <4>1. PICK k \in DOMAIN bundle.pages, l \in 1..PageSize : p = <<k, l>>
          OBVIOUS
        <4>2. l \in DOMAIN bundle.pages[k].roles /\ bundle.pages[k].roles[l] = r
          BY <4>1
        <4>3. k = i /\ l = j
          BY <2>1, <3>2, <4>2 DEF Once
        <4> QED
          BY <4>1, <4>3
      <3>6. P = {<<i, j>>}
        BY <3>4, <3>5
      <3>7. Appears(bundle, r) = Cardinality(P)
        BY DEF Appears
      <3> HIDE DEF P
      <3> QED
        BY <3>6, <3>7, FS_Singleton
    <2>3. /\ bundle.organization \in {"member", "not-a-member", "refused"}
          /\ bundle.organization = "refused" <=> OrganizationRefused(bundle)
      BY DEF CollectorInv, Organization
    <2>4. Cardinality(RolesIn(bundle)) <= MaxBundleRoles
      <3>1. RolesIn(bundle) \in SUBSET ever /\ ever \in SUBSET Roles
        BY DEF CollectorInv, Seen, TypeOK
      <3>2. IsFiniteSet(ever)
        BY <3>1, CollectorAssumption, FS_Subset
      <3>3. IsFiniteSet(RolesIn(bundle)) /\ Cardinality(RolesIn(bundle)) <= Cardinality(ever)
        BY <3>1, <3>2, FS_Subset
      <3>4. Cardinality(RolesIn(bundle)) \in Nat /\ Cardinality(ever) \in Nat
        BY <3>2, <3>3, FS_CardinalityType
      <3> QED
        BY <3>3, <3>4, CollectorAssumption
    <2> QED
      BY <2>2, <2>3, <2>4 DEF ReadBundle
  <1> QED
    BY <1>1, CollectorInvariant, PTL
=============================================================================
