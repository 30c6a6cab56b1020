---------------------------- MODULE ReleasePipeline ----------------------------
(***************************************************************************)
(* The release pipeline: concurrent or repeated runs of one GitHub Actions *)
(* workflow that reserve a version plan in a ledger file                   *)
(* (scripts/release_state.py), build, publish (release_versioned.py,       *)
(* release_control.py: publish) and promote a release candidate to stable  *)
(* (release_control.py: promote).                                          *)
(*                                                                         *)
(* GitHub is external: a file that is written only if its content is still *)
(* what was read, git refs that are created once, and releases that are    *)
(* drafts before they are public.  A run can end at any step, by an error, *)
(* a failed check or a cancellation, and can be run again as a new attempt *)
(* of the same run.  The package of a build stands for its manifest and    *)
(* its bytes.  The versioning policy is promote-bytes.                     *)
(***************************************************************************)
EXTENDS Integers, FiniteSets, Functions

CONSTANTS
    Runs,         \* runs of the workflow
    Bases,        \* base versions
    Builds,       \* the channels that build: "nightly", "beta", "rc"
    Legacy,       \* tags from before the ledger
    NumberFloor,  \* build_number_floor of the policy
    Parallel,     \* values of parallel
    MaxAttempts,  \* bound of the attempts of all runs together
    None          \* no plan, no request

Tag == [base : Bases, channel : Builds \union {"stable"}, seq : Nat \union Runs]
Plan == [number : Nat, tag : Tag]
Package == [run : Runs, attempt : Nat, plan : Plan]
Request == [promote : BOOLEAN, tag : Tag]
Ledger == [file : BOOLEAN, counter : Nat, floor : Nat, plans : [Runs -> Plan \union {None}]]

ASSUME ConstantsAssumption ==
    /\ Builds \subseteq {"nightly", "beta", "rc"}
    /\ Legacy \subseteq Tag
    /\ NumberFloor \in Nat
    /\ Parallel \subseteq Nat
    /\ MaxAttempts \in Nat
    /\ None \notin Plan \union Package \union Request

VARIABLES
    parallel,    \* how many runs may be in progress; the concurrency group allows one
    ledger,      \* release-version-state.json, and whether the file exists
    branch,      \* does the branch release-version-state exist
    released,    \* state and package of each git tag's release
    request,     \* inputs of each run: what to build, or what to promote
    pc,          \* where each run is
    attempt,     \* its run_attempt
    seen,        \* the ledger it read last
    package,     \* its plan and what it builds or copies
    highest      \* history: the largest build number that was ever public

runVars == <<request, pc, attempt, seen, package>>
vars == <<parallel, ledger, branch, released, request, pc, attempt, seen, package, highest>>

StableTag(base) == [base |-> base, channel |-> "stable", seq |-> 0]

Published == {t \in DOMAIN released : released[t].state = "public"}

(* read_state of a branch without the file, and of no branch.              *)
NewLedger == [file |-> FALSE, counter |-> 0, floor |-> 0, plans |-> [r \in Runs |-> None]]
Readable == branch => ledger.file

Init ==
    /\ parallel \in Parallel
    /\ ledger = NewLedger /\ branch = FALSE
    /\ released = [t \in Legacy |-> [state |-> "tag", package |-> None]]
    /\ request = [r \in Runs |-> None]
    /\ pc = [r \in Runs |-> "none"]
    /\ attempt = [r \in Runs |-> 1]
    /\ seen = [r \in Runs |-> NewLedger]
    /\ package = [r \in Runs |-> None]
    /\ highest = 0

-------------------------------------------------------------------------------
(* Runs of the workflow.                                                   *)

Ended == {"none", "queued", "requeued", "failed", "unpublished", "success"}
Publishing == {"check", "begin", "consume", "tag", "draft", "assets", "evidence"}
Active(r) == pc[r] \notin Ended

Goto(r, step) == pc' = [pc EXCEPT ![r] = step]

(* What a job knows ends with it.                                          *)
Forget(r) == seen' = [seen EXCEPT ![r] = NewLedger] /\ package' = [package EXCEPT ![r] = None]

Promotes(r) == request[r].promote
Number(r) == package[r].plan.number

(* ensure_absent: neither a tag, nor a release, nor a draft.               *)
EnsureAbsent(tag) == tag \notin DOMAIN released

(* A push, a schedule or a dispatch asks for a build; a dispatch of the    *)
(* channel stable names a release candidate.                               *)
Dispatch(r) ==
    /\ pc[r] = "none"
    /\ Goto(r, "queued")
    /\ \/ \E b \in Bases, c \in Builds :
            request' = [request EXCEPT ![r] =
                [promote |-> FALSE, tag |-> [base |-> b, channel |-> c, seq |-> 0]]]
       \/ \E t \in Published : t.channel = "rc" /\
            request' = [request EXCEPT ![r] = [promote |-> TRUE, tag |-> t]]
    /\ UNCHANGED <<parallel, ledger, branch, released, attempt, seen, package, highest>>

(* What run r builds under a plan.                                         *)
Built(r, plan) == [run |-> r, attempt |-> attempt[r], plan |-> plan]

(* A run waits for its place; the concurrency group has one.               *)
MayStart == Cardinality({q \in Runs : Active(q)}) < parallel

Start(r) ==
    /\ pc[r] = "queued" /\ MayStart
    /\ Goto(r, IF Promotes(r) THEN "promote" ELSE "prepare")
    /\ UNCHANGED <<parallel, ledger, branch, released, request, attempt, seen, package,
                   highest>>

(* The jobs after prepare use the plan that it stored with the run.        *)
Restart(r) ==
    /\ pc[r] = "requeued" /\ MayStart
    /\ package' = [package EXCEPT ![r] = Built(r, ledger.plans[r])]
    /\ Goto(r, "check")
    /\ UNCHANGED <<parallel, ledger, branch, released, request, attempt, seen, highest>>

(* A check that does not hold (of identities, policies and ancestry, which *)
(* nothing modelled decides, and of all that is), an error of a request,   *)
(* or a cancellation.                                                      *)
Fail(r) ==
    /\ Active(r)
    /\ Goto(r, IF pc[r] \in Publishing /\ ~Promotes(r) THEN "unpublished" ELSE "failed")
    /\ Forget(r)
    /\ UNCHANGED <<parallel, ledger, branch, released, request, attempt, highest>>

(* A new attempt of the same run and inputs: of all its jobs, or of the    *)
(* failed ones only.                                                       *)
Rerun(r) ==
    /\ SumFunction(attempt) < MaxAttempts
    /\ attempt' = [attempt EXCEPT ![r] = @ + 1]
    /\ \/ pc[r] \in {"failed", "unpublished", "success"} /\ Goto(r, "queued")
       \/ pc[r] = "unpublished" /\ Goto(r, "requeued")
    /\ UNCHANGED <<parallel, ledger, branch, released, request, seen, package, highest>>

-------------------------------------------------------------------------------
(* prepare: the base must not be stable yet, except for a nightly.         *)

Prepare(r) ==
    /\ pc[r] = "prepare"
    /\ request[r].tag.channel # "nightly" => EnsureAbsent(StableTag(request[r].tag.base))
    /\ Goto(r, "read")
    /\ UNCHANGED <<parallel, ledger, branch, released, request, attempt, seen, package,
                   highest>>

(* Mutated: a rerun does not look for its reservation.                     *)
ReserveReadAlways(r) ==
    /\ pc[r] = "read"
    /\ Readable
    /\ seen' = [seen EXCEPT ![r] = ledger]
    /\ Goto(r, "allocate")
    /\ UNCHANGED <<parallel, ledger, branch, released, request, attempt, package, highest>>

(* reserve_plan: a run that has a plan keeps it.                           *)
ReserveRead(r) ==
    /\ pc[r] = "read"
    /\ Readable
    /\ IF ledger.plans[r] # None
         THEN /\ package' = [package EXCEPT ![r] = Built(r, ledger.plans[r])]
              /\ Goto(r, "check")
              /\ UNCHANGED seen
         ELSE /\ seen' = [seen EXCEPT ![r] = ledger]
              /\ Goto(r, "allocate")
              /\ UNCHANGED package
    /\ UNCHANGED <<parallel, ledger, branch, released, request, attempt, highest>>

(* The sequence numbers taken: by the tags, and by the plans of a ledger.  *)
Taken(tag, state) ==
    LET reserved == {state.plans[q].tag : q \in {p \in Runs : state.plans[p] # None}}
    IN  {t.seq : t \in {u \in DOMAIN released \union reserved :
                            u.base = tag.base /\ u.channel = tag.channel}}

(* A nightly is named after its run; a candidate gets the number after the *)
(* largest one taken.                                                      *)
Sequences(r) ==
    LET taken == Taken(request[r].tag, seen[r])
    IN  IF request[r].tag.channel = "nightly" THEN {r}
        ELSE {n \in {1} \union {k + 1 : k \in taken \intersect Nat} : \A k \in taken : k < n}

NextNumber(state) == 1 + (IF state.counter > NumberFloor THEN state.counter ELSE NumberFloor)

Allocate(r) ==
    /\ pc[r] = "allocate"
    /\ \E n \in Sequences(r) :
         LET tag == [request[r].tag EXCEPT !.seq = n]
         IN  /\ tag \notin DOMAIN released
             /\ package' = [package EXCEPT ![r] =
                    Built(r, [number |-> NextNumber(seen[r]), tag |-> tag])]
    /\ Goto(r, "branch")
    /\ UNCHANGED <<parallel, ledger, branch, released, request, attempt, seen, highest>>

(* The branch is made when it is missing.                                  *)
CreateBranch(r) ==
    /\ pc[r] = "branch"
    /\ branch' = TRUE
    /\ Goto(r, "write")
    /\ UNCHANGED <<parallel, ledger, released, request, attempt, seen, package, highest>>

(* write_state: GitHub takes the file if it is still the one that was      *)
(* read; the conflict it answers with otherwise is an error like any.      *)
Write(r, state, next) ==
    /\ ledger = seen[r]
    /\ ledger' = state
    /\ Goto(r, next)
    /\ seen' = [seen EXCEPT ![r] = NewLedger]

ReserveWrite(r) ==
    /\ pc[r] = "write"
    /\ Write(r, [seen[r] EXCEPT !.file = TRUE, !.counter = Number(r), !.plans[r] = package[r].plan],
             "check")
    /\ UNCHANGED <<parallel, branch, released, request, attempt, package, highest>>

-------------------------------------------------------------------------------
(* publish_versioned, and promote.                                         *)

(* A published build with a number that makes this one a downgrade.        *)
PublishedPlans(state) ==
    {state.plans[q] : q \in {p \in Runs : state.plans[p] # None /\ state.plans[p].tag \in Published}}

(* The plan of a run is in a ledger: its own, or that of its candidate.    *)
Holds(r, state) ==
    IF Promotes(r) THEN \E q \in Runs : state.plans[q] = package[r].plan
                   ELSE state.plans[r] = package[r].plan

(* Mutated: only published builds are in the way of a publication.         *)
ReservationHoldsShown(r, state) ==
    /\ state.plans[r] = package[r].plan
    /\ \A plan \in PublishedPlans(state) : plan.number < Number(r)

(* _verify_reservation                                                     *)
ReservationHolds(r, state) ==
    /\ state.plans[r] = package[r].plan
    /\ Number(r) > state.floor
    /\ \A plan \in PublishedPlans(state) : plan.number < Number(r)

(* _verify_promotion_order: no newer number was published or consumed.     *)
PromotionInOrder(plan, state) ==
    /\ \E r \in Runs : state.plans[r] = plan
    /\ plan.number >= state.floor
    /\ plan.tag \in Published
    /\ \A other \in PublishedPlans(state) : other.tag # plan.tag => other.number <= plan.number

(* validate_run: the run ended well, with its evidence stored, and what it *)
(* published is of its last attempt.                                       *)
Validated(candidate) ==
    /\ pc[candidate.run] = "success"
    /\ attempt[candidate.run] = candidate.attempt

(* verified_rc, and promote again: the candidate of another, valid run.    *)
Accepted(candidate, r) == candidate.run # r /\ Validated(candidate)

(* Mutated: a candidate is published beside its stable version.            *)
CheckNoBase(r) ==
    /\ pc[r] = "check"
    /\ Readable /\ ReservationHolds(r, ledger)
    /\ package[r].plan.tag \notin DOMAIN released
    /\ Goto(r, "begin")
    /\ UNCHANGED <<parallel, ledger, branch, released, request, attempt, seen, package,
                   highest>>

Check(r) ==
    LET tag == package[r].plan.tag
    IN  /\ pc[r] = "check"
        /\ Readable /\ ReservationHolds(r, ledger)
        /\ EnsureAbsent(tag)
        /\ tag.channel # "nightly" => EnsureAbsent(StableTag(tag.base))
        /\ Goto(r, "begin")
        /\ UNCHANGED <<parallel, ledger, branch, released, request, attempt, seen, package,
                       highest>>

(* promote: the bytes of a published and accepted candidate are staged.    *)
PromoteCheck(r) ==
    LET tag == request[r].tag
        candidate == released[tag].package
    IN  /\ pc[r] = "promote"
        /\ tag \in Published
        /\ Readable /\ PromotionInOrder(candidate.plan, ledger)
        /\ Accepted(candidate, r)
        /\ EnsureAbsent(StableTag(tag.base))
        /\ package' = [package EXCEPT ![r] = candidate]
        /\ Goto(r, "begin")
        /\ UNCHANGED <<parallel, ledger, branch, released, request, attempt, seen, highest>>

(* begin_publication: all is checked again against the ledger it writes.   *)
BeginRead(r) ==
    /\ pc[r] = "begin"
    /\ Readable
    /\ IF Promotes(r) THEN Validated(package[r]) /\ PromotionInOrder(package[r].plan, ledger)
                      ELSE ReservationHolds(r, ledger)
    /\ seen' = [seen EXCEPT ![r] = ledger]
    /\ Goto(r, "consume")
    /\ UNCHANGED <<parallel, ledger, branch, released, request, attempt, package, highest>>

(* Mutated: the publication floor is not advanced.                         *)
BeginWriteNothing(r) ==
    /\ pc[r] = "consume"
    /\ Write(r, seen[r], "tag")
    /\ UNCHANGED <<parallel, branch, released, request, attempt, package, highest>>

(* The number is consumed before anything public happens.                  *)
BeginWrite(r) ==
    /\ pc[r] = "consume"
    /\ Write(r, [seen[r] EXCEPT !.floor = Number(r)], "tag")
    /\ UNCHANGED <<parallel, branch, released, request, attempt, package, highest>>

(* The tag a run publishes under.                                          *)
TagOf(r) == IF Promotes(r) THEN StableTag(request[r].tag.base) ELSE package[r].plan.tag

SetRelease(tag, state, content) ==
    released' = [t \in DOMAIN released \union {tag} |->
                    IF t = tag THEN [state |-> state, package |-> content] ELSE released[t]]

(* Mutated: publish() moves a tag that exists.                             *)
PublishTagForced(r) ==
    /\ pc[r] = "tag"
    /\ SetRelease(TagOf(r), "tag", package[r])
    /\ Goto(r, "draft")
    /\ UNCHANGED <<parallel, ledger, branch, request, attempt, seen, package, highest>>

(* Mutated: a promotion publishes the files its own run has built.         *)
PublishTagRebuilt(r) ==
    /\ pc[r] = "tag"
    /\ TagOf(r) \notin DOMAIN released
    /\ SetRelease(TagOf(r), "tag", Built(r, package[r].plan))
    /\ Goto(r, "draft")
    /\ UNCHANGED <<parallel, ledger, branch, request, attempt, seen, package, highest>>

(* publish: GitHub creates a ref once.                                     *)
PublishTag(r) ==
    /\ pc[r] = "tag"
    /\ TagOf(r) \notin DOMAIN released
    /\ SetRelease(TagOf(r), "tag", package[r])
    /\ Goto(r, "draft")
    /\ UNCHANGED <<parallel, ledger, branch, request, attempt, seen, package, highest>>

PublishDraft(r) ==
    /\ pc[r] = "draft"
    /\ SetRelease(TagOf(r), "draft", package[r])
    /\ Goto(r, "assets")
    /\ UNCHANGED <<parallel, ledger, branch, request, attempt, seen, package, highest>>

(* Assets are uploaded and compared, then the draft becomes public.        *)
PublishAssets(r) ==
    /\ pc[r] = "assets"
    /\ SetRelease(TagOf(r), "public", package[r])
    /\ highest' = (IF Number(r) > highest THEN Number(r) ELSE highest)
    /\ Goto(r, IF Promotes(r) THEN "success" ELSE "evidence")
    /\ Forget(r)
    /\ UNCHANGED <<parallel, ledger, branch, request, attempt>>

(* The workflow stores the evidence of a build after its publication.      *)
StoreEvidence(r) ==
    /\ pc[r] = "evidence"
    /\ Goto(r, "success")
    /\ UNCHANGED <<parallel, ledger, branch, released, request, attempt, seen, package,
                   highest>>

(* Someone deletes a public release; its tag stays.                        *)
DeleteRelease(t) ==
    /\ t \in Published
    /\ SetRelease(t, "deleted", released[t].package)
    /\ UNCHANGED <<parallel, ledger, branch, runVars, highest>>

RunStep(r) ==
    \/ Dispatch(r) \/ Start(r) \/ Restart(r) \/ Fail(r) \/ Rerun(r)
    \/ Prepare(r) \/ ReserveRead(r) \/ Allocate(r) \/ CreateBranch(r) \/ ReserveWrite(r)
    \/ Check(r) \/ PromoteCheck(r) \/ BeginRead(r) \/ BeginWrite(r)
    \/ PublishTag(r) \/ PublishDraft(r) \/ PublishAssets(r) \/ StoreEvidence(r)

Next ==
    \/ \E r \in Runs : RunStep(r)
    \/ \E t \in DOMAIN released : DeleteRelease(t)

Spec == Init /\ [][Next]_vars

-------------------------------------------------------------------------------
(* Properties.                                                             *)

Points == Ended \union Publishing \union
          {"prepare", "read", "allocate", "branch", "write", "promote"}
Release == [state : {"tag", "draft", "public", "deleted"}, package : Package \union {None}]

TypeOK ==
    /\ parallel \in Parallel /\ branch \in BOOLEAN
    /\ ledger \in Ledger
    /\ DOMAIN released \subseteq Tag /\ \A t \in DOMAIN released : released[t] \in Release
    /\ request \in [Runs -> Request \union {None}]
    /\ pc \in [Runs -> Points]
    /\ attempt \in [Runs -> Nat]
    /\ seen \in [Runs -> Ledger]
    /\ package \in [Runs -> Package \union {None}]
    /\ highest \in Nat

(* The ledger passes the checks that read_state makes of it, and no two    *)
(* plans in it share a build number.                                       *)
LedgerSound(state) ==
    /\ ~state.file => state = NewLedger
    /\ state.floor <= state.counter
    /\ \A r \in Runs : state.plans[r] # None => state.plans[r].number \in 1..state.counter
    /\ \A q, r \in Runs :
         q # r /\ state.plans[q] # None /\ state.plans[r] # None
             => state.plans[q].number # state.plans[r].number

(* A run that builds or publishes has its plan in the ledger.              *)
Reserved(r) == pc[r] \in Publishing \ {"evidence"} => Holds(r, ledger)

(* Whatever runs overlap, and however often they fail and are run again,   *)
(* what a run builds or publishes is the plan the ledger keeps for it, and *)
(* no other run holds its build number.                                    *)
UniqueNumbers == LedgerSound(ledger) /\ \A r \in Runs : Reserved(r)

(* What the ledger file does to its readers is what an allocator with      *)
(* atomic steps does, although a run reads it, decides and writes it in    *)
(* separate requests and can stop between any two.                         *)
Allocator == INSTANCE NumberAllocator WITH
    counter <- ledger.counter,
    floor <- ledger.floor,
    issued <- [r \in Runs |-> IF ledger.plans[r] = None THEN 0 ELSE ledger.plans[r].number]

ImplementsAllocator == Allocator!Spec

(* A package is public only after its number was consumed, so that no      *)
(* failure and no deleted release makes a smaller number publishable.      *)
PublishedConsumed ==
    /\ \A t \in Published : released[t].package.plan.number <= ledger.floor
    /\ highest <= ledger.floor

(* One run at a time, releases become public in the order of their build   *)
(* numbers, whatever failed, was run again or deleted in between: a        *)
(* delayed build never follows a newer one, a promotion repeats the        *)
(* largest number.                                                         *)
NoDowngrade ==
    [][\A t \in DOMAIN released' :
         /\ parallel = 1 /\ released'[t].state = "public"
         /\ t \in DOMAIN released => released[t].state # "public"
         => \/ released'[t].package.plan.number > highest
            \/ t.channel = "stable" /\ released'[t].package.plan.number = highest]_vars

(* One run at a time, no candidate of a base becomes public after that     *)
(* base has a stable tag.                                                  *)
NoCandidateAfterStable ==
    [][\A t \in DOMAIN released' :
         /\ parallel = 1 /\ t.channel \in {"beta", "rc"} /\ released'[t].state = "public"
         /\ t \in DOMAIN released => released[t].state # "public"
         => StableTag(t.base) \notin DOMAIN released]_vars

(* A stable release, of the time since the ledger, holds the package that  *)
(* its release candidate was published with, also when the candidate's run *)
(* was run again since.                                                    *)
StableIsCandidate ==
    \A t \in DOMAIN released \ Legacy :
        t.channel = "stable" =>
            LET candidate == released[t].package.plan.tag
            IN  /\ candidate.channel = "rc" /\ candidate.base = t.base
                /\ candidate \in DOMAIN released
                /\ released[candidate].state \in {"public", "deleted"}
                /\ released[candidate].package = released[t].package

(* A tag stays, and what was published under it stays what it is.          *)
TagsAreImmutable ==
    [][\A t \in DOMAIN released :
         /\ t \in DOMAIN released'
         /\ released'[t].package = released[t].package
         /\ released[t].state \in {"public", "deleted"}
              => released'[t].state \in {"public", "deleted"}]_vars

(* "Rerunning that run reuses the plan; a new run consumes a new number.   *)
(* Failed runs may leave gaps": with no run about to write it, the ledger  *)
(* can be read.                                                            *)
LedgerReadable == Readable \/ \E r \in Runs : pc[r] = "write"

(* What a run has read and decided binds it to the ledger that its write   *)
(* will be compared with.                                                  *)
Decided(r) ==
    /\ LedgerSound(seen[r])
    /\ pc[r] # "none" => request[r] # None
    /\ pc[r] \in {"prepare", "read", "allocate", "branch", "write", "check", "evidence",
                  "unpublished", "requeued"} => ~Promotes(r)
    /\ pc[r] = "promote" => Promotes(r)
    /\ pc[r] \in {"allocate", "branch", "write"} => seen[r].plans[r] = None
    /\ pc[r] \in {"branch", "write", "check", "begin", "consume", "tag", "draft", "assets"}
         => package[r] # None
    /\ pc[r] \in {"branch", "write"} => Number(r) = NextNumber(seen[r])
    /\ pc[r] = "consume" => Holds(r, seen[r]) /\ Number(r) >= seen[r].floor
    /\ pc[r] \in {"tag", "draft", "assets"} => Number(r) <= ledger.floor
    /\ pc[r] \in {"evidence", "unpublished", "requeued"} => ledger.plans[r] # None

(* What is a draft, public or deleted has a package.                       *)
Known == \A t \in DOMAIN released : released[t].state # "tag" => released[t].package # None

(* The inductive invariant.                                                *)
IInv ==
    /\ TypeOK
    /\ UniqueNumbers
    /\ PublishedConsumed
    /\ Known
    /\ \A r \in Runs : Decided(r)
-------------------------------------------------------------------------------
(* A second inductive invariant, beside IInv: where requests, plans and    *)
(* packages come from, and who may write which release.                    *)

Shown(t) == t \in DOMAIN released /\ released[t].state \in {"public", "deleted"}

(* A run builds what its request asks for, or promotes what a candidate    *)
(* was published with.                                                     *)
Origin(r) ==
    /\ pc[r] = "none" => package[r] = None
    /\ ledger.plans[r] # None => ledger.plans[r].tag.channel \in Builds
    /\ request[r] # None /\ ~Promotes(r) =>
          /\ request[r].tag.channel \in Builds
          /\ package[r] # None => package[r].plan.tag.channel \in Builds
    /\ request[r] # None /\ Promotes(r) =>
          /\ request[r].tag.channel = "rc" /\ Shown(request[r].tag)
          /\ package[r] # None => package[r] = released[request[r].tag].package

(* A run that has made a tag is the only one to make a release of it.      *)
Creates(r) == pc[r] \in {"draft", "assets"}
Owns(r) ==
    Creates(r) =>
        /\ TagOf(r) \in DOMAIN released
        /\ released[TagOf(r)] = [state |-> IF pc[r] = "draft" THEN "tag" ELSE "draft",
                                 package |-> package[r]]
Exclusive == \A q, r \in Runs : Creates(q) /\ Creates(r) /\ TagOf(q) = TagOf(r) => q = r

(* What is released under the tag of a build is that build.                *)
UnderItsTag ==
    \A t \in DOMAIN released :
        t.channel # "stable" /\ released[t].package # None => released[t].package.plan.tag = t

ReleasesSound ==
    /\ \A r \in Runs : Origin(r) /\ Owns(r)
    /\ Exclusive
    /\ UnderItsTag
    /\ StableIsCandidate

(* One run at a time: a number that is about to be published is not below  *)
(* any that was public, and what was true of the tags when the run checked *)
(* them is still.                                                          *)
Alone == \A q, r \in Runs : Active(q) /\ Active(r) => q = r
Ahead(r) ==
    /\ pc[r] \in {"consume", "tag", "draft", "assets"} =>
          Number(r) > highest \/ (Promotes(r) /\ Number(r) = highest)
    /\ pc[r] \in {"begin", "consume", "tag", "draft", "assets"} /\ ~Promotes(r) =>
          LET tag == package[r].plan.tag
          IN  tag.channel # "nightly" => StableTag(tag.base) \notin DOMAIN released

Serial == parallel = 1 => Alone /\ \A r \in Runs : Ahead(r)
=============================================================================
