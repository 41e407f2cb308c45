----------------------------- MODULE Collector -----------------------------
(***************************************************************************)
(* cloudarq-collect: one run of the program against one AWS account.       *)
(* main.go (run, report) and collect/aws (Collect and the calls it makes,  *)
(* Encode), with AWS, the deadline and the account's own changes around    *)
(* it, and the engine's ReadBundle (report/findings.go) as the reader of   *)
(* what was written.                                                       *)
(*                                                                         *)
(* A call is made and answered in one step; a call that is never answered  *)
(* is a step that does not happen until the deadline makes it fail.  Roles *)
(* are numbered in the order IAM lists them, and a marker is the last      *)
(* number listed.  A refusal's message is the set of what it mentions.     *)
(***************************************************************************)
EXTENDS Naturals, Sequences, FiniteSets

CONSTANTS
    Roles,        \* the roles the account may hold, numbered in listing order
    Undecodable,  \* the roles whose trust policy is not percent-encoded
    PageSize,     \* the most roles IAM returns in one answer
    MaxPages,     \* the most pages the collector asks for
    MaxBundleRoles, \* IAM's ceiling on an account's roles, and the engine's on a bundle's
    Errors,       \* the errors a call may fail with
    Late,         \* the error a call fails with once the deadline has passed
    MaxChanges    \* bound: how often the account changes during the run

ASSUME CollectorAssumption ==
    /\ Roles \subseteq Nat \ {0} /\ IsFiniteSet(Roles)
    /\ Undecodable \subseteq Roles
    /\ PageSize \in Nat /\ MaxPages \in Nat /\ MaxChanges \in Nat
    /\ MaxBundleRoles \in Nat
    /\ Late \in Errors
    /\ \A e \in Errors :
        /\ e.kind \in {"api", "process", "other"}
        /\ e.mentions \subseteq {"principal", "person", "home", "output"}
        /\ "output" \in e.mentions => e.kind = "process"

VARIABLES
    pc,       \* where the program is
    bundle,   \* the Bundle being built
    marker,   \* the marker the next ListRoles is asked with, 0 for none
    stdout,   \* what was written: nothing, part of the bundle, the bundle
    stderr,   \* the words of others that were printed
    exit,     \* the exit code, 9 while the program runs
    account,  \* whether STS named the account
    expired,  \* whether the deadline has passed
    honest,   \* whether IAM's markers end
    live,     \* the roles in the account
    steady,   \* the roles that were there since the listing began
    ever,     \* the roles that were there at some time since it began
    changes   \* how often the account has changed

program == <<pc, bundle, marker, stdout, stderr, exit, account>>
world   == <<expired, honest, live, steady, ever, changes>>
vars    == <<program, world>>

Calls == {"iam:ListAccountAliases", "organizations:DescribeOrganization", "iam:ListRoles"}

Ceiling == <<"ceiling", 0>>

NoBundle == [pages |-> <<>>, refused |-> {}, limits |-> {}, organization |-> "unread"]

Init ==
    /\ pc = "start" /\ bundle = NoBundle /\ marker = 0
    /\ stdout = "nothing" /\ stderr = {} /\ exit = 9 /\ account = FALSE
    /\ expired = FALSE /\ changes = 0
    /\ honest \in BOOLEAN
    /\ live \in SUBSET Roles /\ Cardinality(live) <= MaxBundleRoles
    /\ steady = live /\ ever = live

-----------------------------------------------------------------------------
(* refusal: AWS's own code and words, or the SDK's words under Unanswered, *)
(* except a credential process's, whose words hold what it printed.        *)
Refusal(call, err) ==
    [call     |-> call,
     code     |-> IF err.kind = "api" THEN "api" ELSE "Unanswered",
     mentions |-> IF err.kind = "process" THEN {} ELSE err.mentions]

(* withoutTheCaller: the principal and every person an ARN names, and, for  *)
(* a call that was never answered, the home directory.                     *)
MutantWithoutTheCaller(r) == [r EXCEPT !.mentions = @ \ {"principal", "person"}]

WithoutTheCaller(r) ==
    [r EXCEPT !.mentions =
        @ \ ({"principal", "person"} \cup (IF r.code = "Unanswered" THEN {"home"} ELSE {}))]

Partial(b) == b.refused # {} \/ b.limits # {}

RolesOf(page) == { page.roles[i] : i \in DOMAIN page.roles }

RolesIn(b) == UNION { RolesOf(b.pages[i]) : i \in DOMAIN b.pages }

(* What a call may fail with now: after the deadline, with nothing else. *)
Failures == IF expired THEN {Late} ELSE Errors

Stop(code) == pc' = "done" /\ exit' = code

-----------------------------------------------------------------------------
(* The words of an error as they come, its mentions with them. *)
Words(err) ==
    [code |-> IF err.kind = "api" THEN "api" ELSE "Unanswered", mentions |-> err.mentions]

Say(said) == stderr' = stderr \cup said

(***************************************************************************)
(* run: --version, a command line it does not take, settings it cannot     *)
(* read, whose error is printed as the SDK words it.                       *)
(***************************************************************************)
Start ==
    /\ pc = "start"
    /\ \/ \E code \in {0, 2} : Stop(code) /\ UNCHANGED stderr
       \/ \E err \in { e \in Errors : e.kind = "other" } : Stop(1) /\ Say({Words(err)})
       \/ pc' = "identity" /\ UNCHANGED <<exit, stderr>>
    /\ UNCHANGED <<bundle, marker, stdout, account>>

(***************************************************************************)
(* sts:GetCallerIdentity.  Without an account there is nothing to write,   *)
(* and the error is printed as it came, or the answer's ARN as it is.      *)
(***************************************************************************)
GetCallerIdentity ==
    /\ pc = "identity"
    /\ \/ \E err \in Failures : Stop(1) /\ Say({Words(err)}) /\ UNCHANGED account
       \/ /\ ~expired /\ Stop(1) /\ UNCHANGED account
          /\ \E named \in SUBSET {"principal", "person"} :
                Say({[code |-> "api", mentions |-> named]})
       \/ ~expired /\ pc' = "alias" /\ account' = TRUE /\ UNCHANGED <<exit, stderr>>
    /\ UNCHANGED <<bundle, marker, stdout>>

Refuse(call, err) == bundle' = [bundle EXCEPT !.refused = @ \cup {Refusal(call, err)}]

(* alias: the account's alias, or a line saying it was refused. *)
ListAccountAliases ==
    /\ pc = "alias"
    /\ pc' = "organization"
    /\ \/ ~expired /\ UNCHANGED bundle
       \/ \E err \in Failures : Refuse("iam:ListAccountAliases", err)
    /\ UNCHANGED <<marker, stdout, stderr, exit, account>>

MutantDescribeOrganization ==
    /\ pc = "organization"
    /\ pc' = "roles"
    /\ \/ /\ ~expired
          /\ \E status \in {"member", "not-a-member", "refused"} :
                bundle' = [bundle EXCEPT !.organization = status]
       \/ \E err \in Failures :
            bundle' = [bundle EXCEPT !.organization = "refused", !.refused = @ \cup
                            {Refusal("organizations:DescribeOrganization", err)}]
    /\ UNCHANGED <<marker, stdout, stderr, exit, account>>

(* organization: a member, in none, or refused with a line; an answer       *)
(* without an organization is a refusal in the collector's own words.      *)
DescribeOrganization ==
    /\ pc = "organization"
    /\ pc' = "roles"
    /\ \/ /\ ~expired
          /\ \E status \in {"member", "not-a-member"} :
                bundle' = [bundle EXCEPT !.organization = status]
       \/ \E refusal \in
                { Refusal("organizations:DescribeOrganization", err) : err \in Failures }
                \cup (IF expired THEN {} ELSE
                        {[call |-> "organizations:DescribeOrganization",
                          code |-> "Unanswered", mentions |-> {}]}) :
            bundle' = [bundle EXCEPT !.organization = "refused", !.refused = @ \cup {refusal}]
    /\ UNCHANGED <<marker, stdout, stderr, exit, account>>

-----------------------------------------------------------------------------
(***************************************************************************)
(* The answers IAM gives to ListRoles asked with a marker.  It returns the *)
(* next roles in order, at most PageSize and possibly fewer, and says      *)
(* whether more remain; its marker is the last role it has returned.  When *)
(* it is not honest it may also say that more remain, with the marker it   *)
(* was asked with or with none, which asks for the first page again.       *)
(***************************************************************************)
Listed(after) == { r \in live : r > after }

FirstOf(S, n) == { r \in S : Cardinality({ q \in S : q <= r }) <= n }

InOrder(S) ==
    [i \in 1..Cardinality(S) |->
        CHOOSE r \in S : Cardinality({ q \in S : q <= r }) = i]

Answer(S, m, n) ==
    [roles     |-> InOrder(FirstOf(S, n)),
     truncated |-> n < Cardinality(S),
     marker    |-> IF n = Cardinality(S) THEN 0
                   ELSE IF n = 0 THEN m ELSE InOrder(S)[n]]

HonestAnswers(m) ==
    { Answer(Listed(m), m, n) : n \in { k \in 0..PageSize : k <= Cardinality(Listed(m)) } }

Unending(m, again) ==
    { [a EXCEPT !.truncated = TRUE, !.marker = again] : a \in HonestAnswers(m) }

Answers(m) ==
    HonestAnswers(m) \cup (IF honest THEN {} ELSE Unending(m, 0) \cup Unending(m, m))

MutantRetryRoles ==
    /\ pc = "roles" /\ Len(bundle.pages) < MaxPages
    /\ \E err \in Failures : Refuse("iam:ListRoles", err)
    /\ UNCHANGED <<pc, marker, stdout, stderr, exit, account>>

(* roles, a page refused: the pages before it are kept. *)
RefuseRoles ==
    /\ pc = "roles" /\ Len(bundle.pages) < MaxPages
    /\ \E err \in Failures : Refuse("iam:ListRoles", err)
    /\ pc' = "strip"
    /\ UNCHANGED <<marker, stdout, stderr, exit, account>>

(* roles, one page: every role kept, each that does not decode named, the  *)
(* next page asked for with the answer's own marker.                       *)
MutantKeepPage(a) ==
    /\ bundle' = [bundle EXCEPT
            !.pages = Append(@, [roles |-> a.roles, truncated |-> a.truncated]),
            !.limits = @ \cup { <<"undecoded", r>> : r \in RolesOf(a) \cap Undecodable }]
    /\ marker' = a.marker
    /\ pc' = IF a.truncated /\ Len(a.roles) = PageSize THEN "roles" ELSE "strip"
    /\ UNCHANGED <<stdout, stderr, exit, account>>

KeepPage(a) ==
    /\ bundle' = [bundle EXCEPT
            !.pages = Append(@, [roles |-> a.roles, truncated |-> a.truncated]),
            !.limits = @ \cup { <<"undecoded", r>> : r \in RolesOf(a) \cap Undecodable }]
    /\ marker' = a.marker
    /\ pc' = IF a.truncated THEN "roles" ELSE "strip"
    /\ UNCHANGED <<stdout, stderr, exit, account>>

ListRoles ==
    /\ pc = "roles" /\ Len(bundle.pages) < MaxPages /\ ~expired
    /\ \E a \in Answers(marker) : KeepPage(a)

(* roles, at its ceiling: a marker still asking for more is not ending. *)
StopPaging ==
    /\ pc = "roles" /\ Len(bundle.pages) >= MaxPages
    /\ bundle' = [bundle EXCEPT !.limits = @ \cup {Ceiling}]
    /\ pc' = "strip"
    /\ UNCHANGED <<marker, stdout, stderr, exit, account>>

-----------------------------------------------------------------------------
(* Collect's last act: no refusal names whoever ran the collector. *)
Strip ==
    /\ pc = "strip"
    /\ bundle' = [bundle EXCEPT !.refused = { WithoutTheCaller(r) : r \in @ }]
    /\ pc' = "encode"
    /\ UNCHANGED <<marker, stdout, stderr, exit, account>>

(* Encode: the whole bundle in one write, which may fail having written    *)
(* part of it; the write's error names standard output alone.              *)
Encode ==
    /\ pc = "encode"
    /\ \/ stdout' = "bundle" /\ pc' = "report" /\ UNCHANGED exit
       \/ stdout' \in {"nothing", "part"} /\ Stop(1)
    /\ UNCHANGED <<bundle, marker, stderr, account>>

(* report: what the bundle holds, and every refusal in the bundle's words. *)
Report ==
    /\ pc = "report"
    /\ Stop(IF Partial(bundle) THEN 3 ELSE 0)
    /\ Say({ [code |-> r.code, mentions |-> r.mentions] : r \in bundle.refused })
    /\ UNCHANGED <<bundle, marker, stdout, account>>

-----------------------------------------------------------------------------
(* The ten-minute deadline over the whole collection. *)
Expire ==
    /\ ~expired /\ pc \notin {"start", "done"}
    /\ expired' = TRUE
    /\ UNCHANGED <<program, honest, live, steady, ever, changes>>

(***************************************************************************)
(* Someone else creates or deletes a role before the listing is over; IAM  *)
(* creates none in an account at its ceiling.  Until the first page is     *)
(* there, the steady roles, and the roles there ever were, are the ones    *)
(* there are.                                                              *)
(***************************************************************************)
ChangeAccount(r) ==
    /\ pc \in {"identity", "alias", "organization", "roles"} /\ changes < MaxChanges
    /\ \/ r \in live /\ live' = live \ {r}
       \/ r \notin live /\ Cardinality(live) < MaxBundleRoles /\ live' = live \cup {r}
    /\ IF bundle.pages = <<>>
       THEN steady' = live' /\ ever' = live'
       ELSE steady' = steady \cap live' /\ ever' = ever \cup live'
    /\ changes' = changes + 1
    /\ UNCHANGED <<program, expired, honest>>

Step ==
    \/ Start \/ GetCallerIdentity \/ ListAccountAliases \/ DescribeOrganization
    \/ RefuseRoles \/ ListRoles \/ StopPaging
    \/ Strip \/ Encode \/ Report

Run == Step /\ UNCHANGED world

Finished == pc = "done" /\ UNCHANGED vars

Next == Run \/ Expire \/ (\E r \in Roles : ChangeAccount(r)) \/ Finished

(***************************************************************************)
(* The program's own steps and the deadline are fair; AWS's answers are    *)
(* not, until the deadline has passed and the only answer left is the      *)
(* error the context gives.                                                *)
(***************************************************************************)
Waiting ==
    \/ pc \in {"identity", "alias", "organization"}
    \/ pc = "roles" /\ Len(bundle.pages) < MaxPages

Fairness ==
    /\ WF_vars(Expire)
    /\ WF_vars(Run /\ (~Waiting \/ expired))

Spec == Init /\ [][Next]_vars /\ Fairness

-----------------------------------------------------------------------------
(***************************************************************************)
(* ReadBundle, the engine's reader: no role twice, no more of them than    *)
(* IAM holds in one account, and an organization that agrees with the list *)
(* of refusals.  Its bound on the file's bytes is left out.                *)
(***************************************************************************)
Appears(b, r) ==
    Cardinality({ p \in (DOMAIN b.pages) \X (1..PageSize) :
                    p[2] \in DOMAIN b.pages[p[1]].roles /\ b.pages[p[1]].roles[p[2]] = r })

OrganizationRefused(b) ==
    \E r \in b.refused : r.call = "organizations:DescribeOrganization"

ReadBundle(b) ==
    /\ \A r \in RolesIn(b) : Appears(b, r) = 1
    /\ Cardinality(RolesIn(b)) <= MaxBundleRoles
    /\ b.organization \in {"member", "not-a-member", "refused"}
    /\ b.organization = "refused" <=> OrganizationRefused(b)

-----------------------------------------------------------------------------
(***************************************************************************)
(* A bundle that was written and exits 0 is a whole read: every role that  *)
(* was in the account throughout the listing is in it, decoded, and every  *)
(* call was answered.  Whatever the exit, a role missing from it is        *)
(* explained in it: ListRoles is listed as refused, or the ceiling as      *)
(* reached.  (Bundle's comment: a refusal or a cap is a line, never a gap  *)
(* a reader could take for an account with nothing in it.)                 *)
(***************************************************************************)
WholeRead(b) ==
    /\ steady \subseteq RolesIn(b)
    /\ RolesIn(b) \cap Undecodable = {}
    /\ b.organization \in {"member", "not-a-member"}
    /\ b.refused = {}

MissingRolesAreSaid ==
    stdout = "bundle" =>
        /\ exit = 0 => WholeRead(bundle)
        /\ \/ steady \subseteq RolesIn(bundle)
           \/ \E r \in bundle.refused : r.call = "iam:ListRoles"
           \/ Ceiling \in bundle.limits

(***************************************************************************)
(* The engine reads every bundle the collector writes, however the run was *)
(* cut short and roles came and went between its pages, as long as IAM's   *)
(* markers end and the roles that were ever in the account meanwhile are   *)
(* no more than IAM's ceiling: no role is listed twice, and the            *)
(* organization's status agrees with the refusals.  An account at the      *)
(* ceiling, whose role is deleted once listed and replaced by a later one  *)
(* before the next page, makes a bundle the engine refuses                 *)
(* (findings.go:186): the listing's pages are not one moment's.            *)
(***************************************************************************)
EngineReadsTheBundle ==
    stdout = "bundle" /\ honest /\ Cardinality(ever) <= MaxBundleRoles => ReadBundle(bundle)

(***************************************************************************)
(* Once STS has named the account, nothing that leaves the program, in the *)
(* bundle, whole or cut off, or on standard error, names whoever ran it,   *)
(* or a person an ARN names, or what a credential process printed; and the *)
(* SDK's words do not name the home directory (withoutTheCaller, refusal,  *)
(* report).  Before that they may: an error of the settings or of          *)
(* sts:GetCallerIdentity is printed on standard error as it came.          *)
(***************************************************************************)
Anonymous(said) ==
    /\ said.mentions \cap {"principal", "person", "output"} = {}
    /\ said.code = "Unanswered" => "home" \notin said.mentions

NoOneIsNamed ==
    account =>
        /\ \A said \in stderr : Anonymous(said)
        /\ stdout # "nothing" => \A r \in bundle.refused : Anonymous(r)

(***************************************************************************)
(* Every run ends with an exit code, even when AWS never answers and even  *)
(* when its markers never end.                                             *)
(***************************************************************************)
EveryRunEnds == <>(pc = "done" /\ exit # 9)
=============================================================================
