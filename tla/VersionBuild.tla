----------------------------- MODULE VersionBuild -----------------------------
(***************************************************************************)
(* A candidate in one checkout, from a frozen plan to what is published:   *)
(* version_plan.py sync writes the plan's version into the declared input  *)
(* files and their digests into .release-inputs.json, package_release.py   *)
(* packs the files, stage_release_assets.py checks both and writes the     *)
(* receipt that the publisher compares with its own plan.                  *)
(*                                                                         *)
(* One command runs at a time, as in the workflow's job, and may stop      *)
(* anywhere; it can be repeated in the same checkout, or with another plan *)
(* saved there.  An editor or a tool may change an input at any moment,    *)
(* between two steps of a command too, or put back what it held before, as *)
(* git checkout does.                                                      *)
(*                                                                         *)
(* A content is the version in the owned fields and the number of the edit *)
(* that first made the rest of it, 0 for what is committed; digests are    *)
(* the contents.  A plan is its version in packages, the same for two      *)
(* candidates whose bytes are to be promoted.  All plans are of the commit *)
(* that is checked out; a plan of another one is refused at once.  Git and *)
(* the runner are external.                                                *)
(***************************************************************************)
EXTENDS Naturals

CONSTANTS
    Inputs,      \* versioning.files of the policy
    Inspected,   \* those of them that versioning.artifacts reads back
    Plans,
    Package,     \* the package projection of each plan
    Base,        \* the committed version
    MaxEdits,    \* bound of the edits
    MaxStops     \* bound of the stopped commands

ASSUME VersionBuildAssumption ==
    /\ Inspected \subseteq Inputs
    /\ MaxEdits \in Nat
    /\ MaxStops \in Nat

VARIABLES
    files,      \* content of each input
    plan,       \* .release-plan.json
    evidence,   \* .release-inputs.json, or Nothing
    archive,    \* the archive in release-dist, or Nothing
    staged,     \* release-assets/package, or Nothing
    job,        \* the running command
    edited,     \* edits so far
    undone,     \* history: the inputs that got an earlier content back since the
                \* archive was begun, up to its receipt
    stops       \* stopped commands so far

buildVars == <<files, plan, evidence, archive, staged, job, edited, undone, stops>>

ContentVersions == {Package[p] : p \in Plans} \union {Base}
Committed == [version |-> Base, edit |-> 0]

Nothing == [none |-> TRUE]
NoInput == "none"
NoJob == [at |-> "idle"]

(* _edit: only the owned fields change.                                    *)
Projected(p, content) == [content EXCEPT !.version = Package[p]]

BuildInit ==
    /\ files = [f \in Inputs |-> Committed]
    /\ plan \in Plans
    /\ evidence = Nothing
    /\ archive = Nothing
    /\ staged = Nothing
    /\ job = NoJob
    /\ edited = 0 /\ undone = {}
    /\ stops = 0

JobAt(where) == job.at = where

(* The command ends with an error.                                         *)
Fails == job' = NoJob

(* sync_versions with check: the owned fields of all inputs.               *)
VersionsHold == \A f \in Inputs : files[f].version = Package[plan]

-------------------------------------------------------------------------------
(* version_plan.py sync.                                                   *)

(* Mutated: a file that a stopped sync has replaced is not accepted.       *)
AcceptedCommitted(f) == files[f] = Committed

(* verify_checkout: every input is as committed or as this plan makes it.  *)
Accepts(content) == content \in {Committed, Projected(plan, Committed)}
Accepted(f) == Accepts(files[f])

SyncVerify ==
    /\ JobAt("idle")
    /\ \A f \in Inputs : Accepted(f)
    /\ job' = [at |-> "verified"]
    /\ UNCHANGED <<files, plan, evidence, archive, staged, edited, undone, stops>>

SyncRead ==
    /\ JobAt("verified")
    /\ job' = [at |-> "read", read |-> files]
    /\ UNCHANGED <<files, plan, evidence, archive, staged, edited, undone, stops>>

(* Nothing has changed since it was read; the edits are prepared.          *)
SyncRecheck ==
    LET drift == {f \in Inputs : Projected(plan, job.read[f]) # job.read[f]}
    IN /\ JobAt("read")
       /\ IF files = job.read
            THEN job' = [at |-> "replace", read |-> job.read, left |-> drift,
                         checked |-> NoInput, raced |-> FALSE]
            ELSE Fails
       /\ UNCHANGED <<files, plan, evidence, archive, staged, edited, undone, stops>>

(* Mutated: the check before all replacements is taken to be enough.       *)
CheckInputNot(f) ==
    /\ JobAt("replace")
    /\ job.checked = NoInput
    /\ f \in job.left
    /\ job' = [job EXCEPT !.checked = f]
    /\ UNCHANGED <<files, plan, evidence, archive, staged, edited, undone, stops>>

CheckInput(f) ==
    /\ JobAt("replace")
    /\ job.checked = NoInput
    /\ f \in job.left
    /\ IF files[f] = job.read[f] THEN job' = [job EXCEPT !.checked = f] ELSE Fails
    /\ UNCHANGED <<files, plan, evidence, archive, staged, edited, undone, stops>>

(* os.replace by the file prepared from what was read.                     *)
ReplaceInput ==
    LET f == job.checked
    IN /\ JobAt("replace")
       /\ f # NoInput
       /\ files' = [files EXCEPT ![f] = Projected(plan, job.read[f])]
       /\ job' = [job EXCEPT !.checked = NoInput, !.left = @ \ {f}, !.raced = FALSE]
       /\ UNCHANGED <<plan, evidence, archive, staged, edited, undone, stops>>

WriteEvidence ==
    /\ JobAt("replace")
    /\ job.left = {}
    /\ evidence' = [plan |-> plan, after |-> [f \in Inputs |-> Projected(plan, job.read[f])]]
    /\ job' = NoJob
    /\ UNCHANGED <<files, plan, archive, staged, edited, undone, stops>>

-------------------------------------------------------------------------------
(* package_release.py.                                                     *)

(* validate_version, and an output directory that is empty.  The evidence  *)
(* goes into the archive before the other files.                           *)
PackageBegin ==
    /\ JobAt("idle")
    /\ VersionsHold
    /\ archive = Nothing
    /\ archive' = [inputs |-> evidence, held |-> [f \in {} |-> Committed], whole |-> FALSE]
    /\ job' = [at |-> "package"]
    /\ undone' = {}
    /\ UNCHANGED <<files, plan, evidence, staged, edited, stops>>

(* write_archive reads one file after the other.                           *)
PackageInput(f) ==
    LET held == archive.held
    IN /\ JobAt("package")
       /\ f \notin DOMAIN held
       /\ archive' = [archive EXCEPT !.held =
              [g \in DOMAIN held \union {f} |-> IF g = f THEN files[f] ELSE held[g]]]
       /\ UNCHANGED <<files, plan, evidence, staged, job, edited, undone, stops>>

PackageEnd ==
    /\ JobAt("package")
    /\ DOMAIN archive.held = Inputs
    /\ archive' = [archive EXCEPT !.whole = TRUE]
    /\ job' = NoJob
    /\ UNCHANGED <<files, plan, evidence, staged, edited, undone, stops>>

-------------------------------------------------------------------------------
(* stage_release_assets.py and version_receipt.py.                         *)

(* Mutated: the inputs are those of the plan when their versions are.      *)
InputsHoldVersions(e) == VersionsHold

(* Every input still has the digest that the evidence gives it.            *)
InputsHold(e) == files = e.after

(* verify_artifact: the archive can be read, and names the plan's version. *)
Declares(a, p) ==
    a.whole /\ \A f \in Inspected : a.held[f].version = Package[p]

StageCopy ==
    /\ JobAt("idle")
    /\ staged = Nothing
    /\ archive # Nothing
    /\ staged' = [archive |-> archive, receipt |-> Nothing]
    /\ job' = [at |-> "stage"]
    /\ UNCHANGED <<files, plan, evidence, archive, edited, undone, stops>>

StageCheck ==
    /\ JobAt("stage")
    /\ IF /\ VersionsHold
          /\ evidence # Nothing
          /\ InputsHold(evidence)
          /\ Declares(staged.archive, plan)
         THEN job' = [at |-> "receipt"]
         ELSE Fails
    /\ UNCHANGED <<files, plan, evidence, archive, staged, edited, undone, stops>>

(* create_receipt: the evidence is this plan's, and holds once more.       *)
CreateReceipt ==
    /\ JobAt("receipt")
    /\ staged' = [staged EXCEPT !.receipt =
           IF evidence.plan = plan /\ InputsHold(evidence) THEN evidence ELSE @]
    /\ job' = NoJob
    /\ UNCHANGED <<files, plan, evidence, archive, edited, undone, stops>>

(* verify_receipts and verify_declared_artifacts, in the publisher's job,  *)
(* with the plan that the ledger keeps for its run.                        *)
Publishable(p) ==
    /\ JobAt("idle")
    /\ staged # Nothing
    /\ staged.receipt # Nothing
    /\ staged.receipt.plan = p
    /\ Declares(staged.archive, p)

-------------------------------------------------------------------------------
(* Everything else.                                                        *)

(* An archive that no receipt vouches for yet.                             *)
Unattested == archive # Nothing /\ (staged # Nothing => staged.receipt = Nothing)

(* Somebody changes an input, and its version or not: something new is     *)
(* written, or an earlier content comes back.                              *)
Edit(f, v, n) ==
    /\ edited < MaxEdits
    /\ edited' = edited + 1
    /\ n \in 0..edited'
    /\ files' = [files EXCEPT ![f] = [version |-> v, edit |-> n]]
    /\ undone' = IF n # edited' /\ Unattested THEN undone \union {f} ELSE undone
    /\ job' = IF JobAt("replace") /\ job.checked = f
                THEN [job EXCEPT !.raced = TRUE] ELSE job
    /\ UNCHANGED <<plan, evidence, archive, staged, stops>>

Stop ==
    /\ ~JobAt("idle")
    /\ stops < MaxStops
    /\ stops' = stops + 1
    /\ job' = NoJob
    /\ UNCHANGED <<files, plan, evidence, archive, staged, edited, undone>>

(* Another run's plan is downloaded into the checkout.                     *)
SavePlan(p) ==
    /\ JobAt("idle")
    /\ p # plan
    /\ plan' = p
    /\ UNCHANGED <<files, evidence, archive, staged, job, edited, undone, stops>>

(* The output directories are emptied: no command does it.                 *)
ClearOutputs ==
    /\ JobAt("idle")
    /\ archive' = Nothing
    /\ staged' = Nothing
    /\ undone' = {}
    /\ UNCHANGED <<files, plan, evidence, job, edited, stops>>

(* The next job of the workflow begins with a checkout of its own.         *)
FreshCheckout ==
    /\ JobAt("idle")
    /\ files' = [f \in Inputs |-> Committed]
    /\ evidence' = Nothing
    /\ archive' = Nothing
    /\ staged' = Nothing
    /\ undone' = {}
    /\ UNCHANGED <<plan, job, edited, stops>>

SyncStep ==
    \/ SyncRead \/ SyncRecheck \/ ReplaceInput \/ WriteEvidence
    \/ \E f \in Inputs : CheckInput(f)

JobStep ==
    \/ SyncStep
    \/ (\E f \in Inputs : PackageInput(f)) \/ PackageEnd
    \/ StageCheck \/ CreateReceipt

BuildNext ==
    \/ SyncVerify \/ PackageBegin \/ StageCopy \/ JobStep
    \/ \E p \in Plans : SavePlan(p)
    \/ \E f \in Inputs, v \in ContentVersions, n \in 0..MaxEdits : Edit(f, v, n)
    \/ Stop \/ ClearOutputs \/ FreshCheckout

Synced(p) == evidence # Nothing /\ evidence.plan = p

(* A command goes on, and a sync that did not get to its end is repeated.  *)
SyncRetried == ~Synced(plan) /\ SyncVerify

BuildSpec == BuildInit /\ [][BuildNext]_buildVars
BuildFairSpec == BuildSpec /\ WF_buildVars(JobStep) /\ SF_buildVars(SyncRetried)

-------------------------------------------------------------------------------
(* Properties.                                                             *)

(* Whatever stops, is repeated with this plan or another one or is edited  *)
(* meanwhile: every declared input in an archive that can be published,    *)
(* the lockfile that no artifact declaration reads included, has the       *)
(* version of the plan; and if the archive has the evidence of its receipt *)
(* in it, also the content that the receipt gives for the input.  The      *)
(* exceptions are the inputs to which an earlier content came back while   *)
(* the archive was made or before its receipt was: staging compares        *)
(* digests, so it cannot tell an undone edit from none.  With all inputs   *)
(* undone that the artifact declares, nothing ties its version to a plan.  *)
PublishedIsReceipted ==
    \A p \in Plans : Publishable(p) /\ Inspected \ undone # {} =>
        \A f \in Inputs \ undone :
            LET held == staged.archive.held[f]
            IN /\ held.version = Package[p]
               /\ staged.archive.inputs = staged.receipt => held = staged.receipt.after[f]

(* "Version input changed before replace": a sync changes nothing but the  *)
(* owned fields of what an input holds, so it undoes no edit, except one   *)
(* that falls between the last look at a file and its replacement.         *)
NoEditLost ==
    [][JobAt("replace") /\ ~job.raced /\ UNCHANGED edited =>
          \A f \in Inputs : files'[f] \in {files[f], Projected(plan, files[f])}]_buildVars

(* A sync that stopped with some files replaced can be run again, with the *)
(* same plan and without an edit, until it gets to its end.                *)
SyncRecovers ==
    \A p \in Plans :
        [](plan = p /\ edited = 0) => <>Synced(p)

-------------------------------------------------------------------------------
(* The inductive invariant.                                                *)

Content == [version : ContentVersions, edit : Nat]
Contents == [Inputs -> Content]
Evidence == [plan : Plans, after : Contents]
Replacing == [at : {"replace"}, read : Contents, left : SUBSET Inputs,
              checked : Inputs \union {NoInput}, raced : BOOLEAN]

IsArchive(a) ==
    /\ a = [inputs |-> a.inputs, held |-> a.held, whole |-> a.whole]
    /\ a.inputs \in Evidence \union {Nothing}
    /\ DOMAIN a.held \subseteq Inputs /\ \A f \in DOMAIN a.held : a.held[f] \in Content
    /\ a.whole \in BOOLEAN

BuildTypeOK ==
    /\ files \in Contents /\ plan \in Plans
    /\ evidence \in Evidence \union {Nothing}
    /\ archive # Nothing => IsArchive(archive)
    /\ staged # Nothing =>
          /\ staged = [archive |-> staged.archive, receipt |-> staged.receipt]
          /\ staged.receipt \in Evidence \union {Nothing}
    /\ job.at \in {"idle", "verified", "read", "replace", "package", "stage", "receipt"}
    /\ JobAt("read") => job.read \in Contents
    /\ JobAt("replace") => job \in Replacing
    /\ edited \in Nat /\ stops \in Nat /\ undone \subseteq Inputs

Syncing == job.at \in {"verified", "read", "replace"}
HasRead == job.at \in {"read", "replace"}

(* The evidence that is in the archive.                                    *)
Packed == IF archive = Nothing THEN Nothing ELSE archive.inputs

(* No content has the number of an edit to come.                           *)
Numbered ==
    /\ \A f \in Inputs : files[f].edit <= edited
    /\ \A e \in {evidence, Packed} : e # Nothing =>
          \A f \in Inputs : e.after[f].edit <= edited
    /\ archive # Nothing => \A f \in DOMAIN archive.held : archive.held[f].edit <= edited
    /\ HasRead => \A f \in Inputs : job.read[f].edit <= edited

(* Where the outputs come from.                                            *)
Outputs ==
    /\ archive # Nothing /\ archive.whole => DOMAIN archive.held = Inputs
    /\ JobAt("package") => archive # Nothing /\ staged = Nothing
    /\ staged # Nothing => archive # Nothing /\ staged.archive = archive
    /\ job.at \in {"stage", "receipt"} => staged # Nothing /\ staged.receipt = Nothing
    /\ JobAt("receipt") => evidence # Nothing

(* Evidence gives every input the version of its plan.                     *)
EvidenceSound ==
    \A e \in {evidence, Packed} : e # Nothing =>
        \A f \in Inputs : e.after[f].version = Package[e.plan]

(* The file about to be replaced is what the sync has read, unless it was  *)
(* changed since the last look.                                            *)
SyncSound ==
    JobAt("replace") /\ job.checked # NoInput =>
        /\ job.checked \in job.left
        /\ ~job.raced => files[job.checked] = job.read[job.checked]

(* Unless an earlier content came back to it, an input that is not what    *)
(* the archive holds of it has been edited since the evidence in there was *)
(* written.  A sync that has read the inputs since knows no older ones.    *)
PackedSince(f, content) ==
    \/ content.edit = archive.held[f].edit
    \/ content.edit > Packed.after[f].edit
PackedSound ==
    Unattested /\ Packed # Nothing => \A f \in DOMAIN archive.held \ undone :
        /\ PackedSince(f, files[f])
        /\ HasRead => PackedSince(f, job.read[f])

(* A number is that of an edit since the evidence was written.             *)
Since(e, f, n) == n > 0 /\ (e # Nothing => n > e.after[f].edit)

(* The archive has one version, but for inputs that were edited while it   *)
(* was made: they differ from the evidence since, and no sync goes on.     *)
Stray(f, w) ==
    /\ archive.held[f].version # w
    /\ Since(evidence, f, archive.held[f].edit)
    /\ files[f].edit >= archive.held[f].edit
    /\ ~Syncing
OneVersion(w) ==
    /\ JobAt("package") =>
          /\ w = Package[plan]
          /\ \A f \in Inputs \ undone :
                files[f].version = w \/ Since(evidence, f, files[f].edit)
    /\ \A f \in DOMAIN archive.held \ undone :
          archive.held[f].version = w \/ (Unattested /\ Stray(f, w))
ArchiveSound ==
    archive # Nothing => \E w \in ContentVersions : OneVersion(w)

(* A receipt for the evidence that is in the archive is true of it.        *)
ReceiptSound ==
    staged # Nothing /\ staged.receipt # Nothing /\ Packed = staged.receipt =>
        \A f \in DOMAIN archive.held \ undone :
            archive.held[f].edit = staged.receipt.after[f].edit

BuildIInv ==
    /\ BuildTypeOK /\ Numbered /\ Outputs /\ EvidenceSound /\ SyncSound
    /\ PackedSound /\ ArchiveSound /\ ReceiptSound
=============================================================================
