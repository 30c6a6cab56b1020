----------------------------- MODULE UpdateInstall -----------------------------
(***************************************************************************)
(* The installer of the device (update.sh, reached from setup and          *)
(* deploy.sh), the daemontools supervisor of the worker and the boot hook. *)
(*                                                                         *)
(* The script runs under `set -e`: any command may fail and end it, at any *)
(* point the power may go, and staged files live on a volatile /tmp.  The  *)
(* installed package is a function from its items, in the order of         *)
(* RUNTIME_ITEMS, to the release each was copied from.  One update runs at *)
(* a time, and none before the boot scripts have ended.                    *)
(***************************************************************************)
EXTENDS Integers

CONSTANTS
    NumItems,     \* length of RUNTIME_ITEMS
    KillAfter,    \* stop_worker sends its kill in this second
    GiveUpAfter,  \* and gives up in this one
    MaxUpdates,   \* bound of the updates that are begun
    MaxBoots      \* bound of the power cuts

ASSUME ConstantsAssumption ==
    /\ NumItems \in Nat \ {0}
    /\ KillAfter \in Nat /\ GiveUpAfter \in Nat /\ KillAfter < GiveUpAfter
    /\ MaxUpdates \in Nat /\ MaxBoots \in Nat

VARIABLES
    tree,     \* the release of each item under INSTALL_DIR
    unit,     \* the release of service/dbus-evcharger/run
    config,   \* local_config.py
    link,     \* /service/dbus-evcharger: "none", "ours" or "foreign"
    hook,     \* does /data/rc.local hold the block of this package
    want,     \* what supervise is told: "none" (no supervise), "up" or "down"
    worker,   \* the supervised process, "up" or "down"
    ordered,  \* is a svc -d in supervise's control FIFO, not yet read
    pc,       \* the next step of update.sh, "idle" when it does not run
    item,     \* the item that is being replaced
    waited,   \* seconds spent in stop_worker
    staged,   \* the release copied to STAGING_DIR
    backup,   \* the copy of local_config.py in it
    status,   \* how the last update ended: "done", "failed" or "none"
    updates,  \* updates begun so far
    boots,    \* boots so far
    before,   \* history: local_config.py when the update began
    damaged,  \* history: the worker may meet a tree that is not whole
    unheard   \* history: this update goes on although no supervise has read its svc -d

disk == <<tree, unit, config, link, hook>>
service == <<want, worker, ordered>>
script == <<pc, item, waited, staged, backup, status>>
counts == <<updates, boots, before, damaged, unheard>>
vars == <<tree, unit, config, link, hook, want, worker, ordered, pc, item, waited, staged,
          backup, status, updates, boots, before, damaged, unheard>>

Items == 1..NumItems
Releases == 0..MaxUpdates
Absent == -1
Torn == -2      \* half written
Contents == Releases \union {Absent, Torn}

(* All items come from one release.                                        *)
Whole(files) == \E r \in Releases : \A i \in Items : files[i] = r

NothingStaged == [tree |-> [i \in Items |-> Absent], unit |-> Absent, push |-> FALSE]

(* A device with release 0, one without the package, or one whose service  *)
(* directory is not the package's link.                                    *)
Init ==
    /\ \/ /\ tree = [i \in Items |-> 0] /\ unit = 0 /\ config = "device"
          /\ link \in {"ours", "foreign"} /\ hook = (link = "ours")
       \/ /\ tree = [i \in Items |-> Absent] /\ unit = Absent /\ config = "absent"
          /\ link = "none" /\ hook = FALSE
    /\ want = IF link = "ours" THEN "up" ELSE "none"
    /\ worker = "down" /\ ordered = FALSE
    /\ pc = "idle" /\ item = 1 /\ waited = 0
    /\ staged = NothingStaged /\ backup = "absent" /\ status = "none"
    /\ updates = 0 /\ boots = 0 /\ before = config
    /\ damaged = FALSE /\ unheard = FALSE

-------------------------------------------------------------------------------
(* The supervisor, and the worker it keeps running.                        *)

(* svscan finds the link and starts supervise, which wants its service up: *)
(* the updater removes every `down` file.                                  *)
SvscanStarts ==
    /\ link = "ours" /\ want = "none"
    /\ want' = "up"
    /\ UNCHANGED <<disk, worker, ordered, script, counts>>

(* supervise reads its FIFO between two events of its loop; a worker that  *)
(* ends before is started once more.                                       *)
SuperviseObeys ==
    /\ ordered
    /\ want' = "down" /\ ordered' = FALSE
    /\ UNCHANGED <<disk, worker, script, counts>>

SuperviseStarts ==
    /\ want = "up" /\ worker = "down"
    /\ worker' = "up"
    /\ UNCHANGED <<disk, want, ordered, script, counts>>

(* It obeys the TERM of svc -d, crashes, or is stuck and does neither.     *)
WorkerEnds ==
    /\ worker = "up"
    /\ worker' = "down"
    /\ UNCHANGED <<disk, want, ordered, script, counts>>

-------------------------------------------------------------------------------
(* update.sh, up to the stop of the worker.                                *)

(* A release brought by deploy.sh or by hand, with a configuration to push *)
(* or without, and with the run script it ships.  A failed check of the    *)
(* device leaves no trace, so an update begins with its staging.           *)
BeginRelease(push) ==
    /\ pc = "idle" /\ updates < MaxUpdates
    /\ updates' = updates + 1
    /\ staged' = [tree |-> [i \in Items |-> updates + 1], unit |-> updates + 1, push |-> push]
    /\ before' = config
    /\ pc' = "validate" /\ status' = "none"
    /\ UNCHANGED <<disk, service, item, waited, backup, boots, damaged, unheard>>

(* setup runs the installed script, whose source is the installed tree; a  *)
(* missing configuration is seeded from the example first.                 *)
BeginReinstall ==
    /\ pc = "idle" /\ updates < MaxUpdates
    /\ tree[1] \in Releases
    /\ updates' = updates + 1
    /\ config' = IF config = "absent" THEN "seeded" ELSE config
    /\ before' = config'
    /\ staged' = [tree |-> tree, unit |-> unit, push |-> FALSE]
    /\ damaged' = (damaged \/ ~Whole(tree))
    /\ pc' = "validate" /\ status' = "none"
    /\ UNCHANGED <<tree, unit, link, hook, service, item, waited, backup, boots, unheard>>

(* Any command that fails, and HUP, INT or TERM, end the script; its EXIT  *)
(* trap removes the staging directory.                                     *)
Ends(how) ==
    /\ status' = how
    /\ pc' = "idle" /\ item' = 1 /\ waited' = 0
    /\ staged' = NothingStaged /\ backup' = "absent"

(* Mutated: the EXIT trap also brings the service up again.                *)
FailStarting ==
    /\ pc # "idle"
    /\ Ends("failed")
    /\ want' = (IF want = "none" THEN "none" ELSE "up") /\ ordered' = FALSE
    /\ UNCHANGED <<disk, worker, counts>>

Fail ==
    /\ pc # "idle"
    /\ Ends("failed")
    /\ UNCHANGED <<disk, service, counts>>

(* Run files exist and /service holds our link or nothing.                 *)
Validate ==
    /\ pc = "validate"
    /\ staged.unit # Absent /\ link # "foreign"
    /\ pc' = "stop"
    /\ UNCHANGED <<disk, service, item, waited, staged, backup, status, counts>>

(* svc -d, when there is a service at all: a byte in the control FIFO.  It *)
(* succeeds without effect where svscan has not started supervise yet.     *)
StopSend ==
    /\ pc = "stop"
    /\ IF link = "none"
         THEN pc' = "backup" /\ unheard' = FALSE /\ UNCHANGED ordered
         ELSE pc' = "wait" /\ unheard' = (want = "none") /\ ordered' = (want = "up")
    /\ damaged' = (damaged \/ unheard')
    /\ UNCHANGED <<disk, want, worker, item, waited, staged, backup, status, updates, boots, before>>

IsDown == want # "none" /\ worker = "down"

(* Mutated: a worker that was killed is taken for stopped.                 *)
StopConfirmedByKill ==
    /\ pc = "wait" /\ waited < GiveUpAfter
    /\ IsDown \/ waited > KillAfter
    /\ pc' = "backup"
    /\ UNCHANGED <<disk, service, item, waited, staged, backup, status, counts>>

(* svstat says down, which it also does between two starts of a service    *)
(* that is wanted up, because its supervise has not read the svc -d.       *)
StopConfirmed ==
    /\ pc = "wait" /\ waited < GiveUpAfter
    /\ IsDown
    /\ pc' = "backup"
    /\ unheard' = (unheard \/ ordered)
    /\ damaged' = (damaged \/ unheard')
    /\ UNCHANGED <<disk, service, item, waited, staged, backup, status, updates, boots, before>>

(* It does not: one kill on the way, which takes effect or does not.       *)
StopWaits ==
    /\ pc = "wait" /\ waited < GiveUpAfter
    /\ ~IsDown
    /\ waited' = waited + 1
    /\ worker' \in IF waited = KillAfter THEN {worker, "down"} ELSE {worker}
    /\ UNCHANGED <<disk, want, ordered, pc, item, staged, backup, status, counts>>

(* Mutated: the loop has no limit.                                         *)
StopNeverGivesUp ==
    /\ pc = "wait" /\ waited = GiveUpAfter
    /\ waited' = 0
    /\ UNCHANGED <<disk, service, pc, item, staged, backup, status, counts>>

StopGivesUp ==
    /\ pc = "wait" /\ waited = GiveUpAfter
    /\ Ends("failed")
    /\ UNCHANGED <<disk, service, counts>>

-------------------------------------------------------------------------------
(* update.sh, the replacement of the files.                                *)

Step(from, to) == pc = from /\ pc' = to

Backup ==
    /\ Step("backup", "remove")
    /\ backup' = config
    /\ UNCHANGED <<disk, service, item, waited, staged, status, counts>>

NextItem ==
    IF item < NumItems THEN item' = item + 1 /\ pc' = "remove"
                       ELSE item' = 1 /\ pc' = "scripts"

(* rm -rf of an item, when the source has it.                              *)
RemoveItem ==
    /\ pc = "remove"
    /\ IF staged.tree[item] # Absent
         THEN tree' = [tree EXCEPT ![item] = Absent] /\ pc' = "copy" /\ UNCHANGED item
         ELSE NextItem /\ UNCHANGED tree
    /\ UNCHANGED <<unit, config, link, hook, service, waited, staged, backup, status, counts>>

(* cp -a copies file by file.                                              *)
CopyItem ==
    /\ Step("copy", "copying")
    /\ tree' = [tree EXCEPT ![item] = Torn]
    /\ UNCHANGED <<unit, config, link, hook, service, item, waited, staged, backup, status, counts>>

ItemCopied ==
    /\ pc = "copying"
    /\ tree' = [tree EXCEPT ![item] = staged.tree[item]]
    /\ NextItem
    /\ UNCHANGED <<unit, config, link, hook, service, waited, staged, backup, status, counts>>

(* The run scripts are replaced by a rename, and `down` files removed.     *)
ReplaceScripts ==
    /\ Step("scripts", "restore")
    /\ unit' = staged.unit
    /\ UNCHANGED <<tree, config, link, hook, service, item, waited, staged, backup, status, counts>>

(* cp -p back over local_config.py truncates it first.                     *)
RestoreConfig ==
    /\ pc = "restore"
    /\ IF backup = "absent" THEN pc' = "push" /\ UNCHANGED config
                            ELSE pc' = "restoring" /\ config' = "torn"
    /\ UNCHANGED <<tree, unit, link, hook, service, item, waited, staged, backup, status, counts>>

ConfigRestored ==
    /\ Step("restoring", "push")
    /\ config' = backup
    /\ UNCHANGED <<tree, unit, link, hook, service, item, waited, staged, backup, status, counts>>

(* Mutated: without a look at PUSH_LOCAL_CONFIG.                           *)
PushConfigAlways ==
    /\ Step("push", "pushing")
    /\ config' = "torn"
    /\ UNCHANGED <<tree, unit, link, hook, service, item, waited, staged, backup, status, counts>>

PushConfig ==
    /\ pc = "push"
    /\ IF staged.push THEN pc' = "pushing" /\ config' = "torn"
                      ELSE pc' = "link" /\ UNCHANGED config
    /\ UNCHANGED <<tree, unit, link, hook, service, item, waited, staged, backup, status, counts>>

ConfigPushed ==
    /\ Step("pushing", "link")
    /\ config' = "pushed"
    /\ UNCHANGED <<tree, unit, link, hook, service, item, waited, staged, backup, status, counts>>

CreateLink ==
    /\ Step("link", "dropHook")
    /\ link' = "ours"
    /\ UNCHANGED <<tree, unit, config, hook, service, item, waited, staged, backup, status, counts>>

(* sed -i takes the old block out of rc.local.                             *)
DropHook ==
    /\ Step("dropHook", "writeHook")
    /\ hook' = FALSE
    /\ UNCHANGED <<tree, unit, config, link, service, item, waited, staged, backup, status, counts>>

WriteHook ==
    /\ Step("writeHook", "start")
    /\ hook' = TRUE
    /\ UNCHANGED <<tree, unit, config, link, service, item, waited, staged, backup, status, counts>>

(* Mutated: only the logger is brought up.                                 *)
StartLogger ==
    /\ pc = "start"
    /\ Ends("done")
    /\ damaged' = (damaged /\ ~Whole(tree))
    /\ UNCHANGED <<disk, service, updates, boots, before, unheard>>

(* svc -u, without effect where svscan has not started supervise yet.  It  *)
(* is read after a svc -d that waits in the FIFO, and overrides it.        *)
StartService ==
    /\ pc = "start"
    /\ Ends("done")
    /\ want' = (IF want = "none" THEN "none" ELSE "up") /\ ordered' = FALSE
    /\ damaged' = (damaged /\ ~Whole(tree))
    /\ UNCHANGED <<disk, worker, updates, boots, before, unheard>>

-------------------------------------------------------------------------------
(* A power cut and the boot after it: /tmp is empty, /service may have     *)
(* lost the link, and the hook creates one that is missing.                *)
Boot ==
    /\ boots < MaxBoots
    /\ boots' = boots + 1
    /\ Ends("none")
    /\ worker' = "down" /\ ordered' = FALSE
    /\ \E kept \in IF link = "foreign" THEN {link} ELSE {link, "none"} :
         link' = IF kept = "none" /\ hook THEN "ours" ELSE kept
    /\ want' = IF link' = "ours" THEN "up" ELSE "none"
    /\ damaged' = (damaged \/ ~Whole(tree))
    /\ UNCHANGED <<tree, unit, config, hook, updates, before, unheard>>

(* setup UNINSTALL: svc -dk, then the link and the hook go.                *)
Uninstall ==
    /\ pc = "idle" /\ link = "ours"
    /\ want' = IF want = "none" THEN "none" ELSE "down"
    /\ worker' = "down" /\ ordered' = FALSE
    /\ link' = "none" /\ hook' = FALSE
    /\ status' = "none"
    /\ UNCHANGED <<tree, unit, config, pc, item, waited, staged, backup, counts>>

-------------------------------------------------------------------------------
ScriptStep ==
    \/ Validate \/ StopSend \/ StopConfirmed \/ StopWaits \/ StopGivesUp
    \/ Backup \/ RemoveItem \/ CopyItem \/ ItemCopied \/ ReplaceScripts
    \/ RestoreConfig \/ ConfigRestored \/ PushConfig \/ ConfigPushed
    \/ CreateLink \/ DropHook \/ WriteHook \/ StartService

Next ==
    \/ SvscanStarts \/ SuperviseStarts \/ SuperviseObeys \/ WorkerEnds
    \/ (\E push \in BOOLEAN : BeginRelease(push)) \/ BeginReinstall
    \/ ScriptStep \/ Fail
    \/ Boot \/ Uninstall

(* The script and the supervisor are scheduled; a command that cannot go   *)
(* on fails.                                                               *)
Fairness ==
    /\ WF_vars(ScriptStep \/ Fail)
    /\ WF_vars(SvscanStarts) /\ WF_vars(SuperviseStarts)

Spec == Init /\ [][Next]_vars
FairSpec == Spec /\ Fairness

-------------------------------------------------------------------------------
(* Properties.                                                             *)

Replacing == {"backup", "remove", "copy", "copying", "scripts", "restore",
              "restoring", "push", "pushing"}

TypeOK ==
    /\ tree \in [Items -> Contents]
    /\ unit \in Releases \union {Absent}
    /\ config \in {"absent", "device", "seeded", "pushed", "torn"}
    /\ backup \in {"absent", "device", "seeded", "pushed", "torn"}
    /\ before \in {"absent", "device", "seeded", "pushed", "torn"}
    /\ link \in {"none", "ours", "foreign"}
    /\ hook \in BOOLEAN
    /\ want \in {"none", "up", "down"}
    /\ worker \in {"up", "down"} /\ ordered \in BOOLEAN
    /\ pc \in {"idle", "validate", "stop", "wait", "link", "dropHook", "writeHook", "start"}
              \union Replacing
    /\ item \in Items
    /\ waited \in 0..GiveUpAfter
    /\ staged \in [tree : [Items -> Contents], unit : Releases \union {Absent}, push : BOOLEAN]
    /\ status \in {"none", "done", "failed"}
    /\ updates \in 0..MaxUpdates /\ boots \in 0..MaxBoots
    /\ damaged \in BOOLEAN /\ unheard \in BOOLEAN

(* No file is replaced under a live worker, whatever supervise, svscan and *)
(* a worker that does not obey do meanwhile.  The exceptions are a link so *)
(* new that no supervise heard the svc -d, and a supervise that has not    *)
(* read it when svstat finds the service between two starts.               *)
WorkerDownWhileReplacing ==
    pc \in Replacing /\ ~unheard => worker = "down" /\ want # "up"

(* A script that fails half way leaves the service down, so the worker     *)
(* never runs a mixture of releases until a reboot starts it, or until the *)
(* damaged tree itself is reinstalled; a completed release ends both.      *)
RunsWholeRelease == worker = "up" => Whole(tree) \/ damaged

(* Whatever failed or was cut before it, an update that reaches its end    *)
(* has installed exactly its source, with the boot hook, our link and the  *)
(* configuration the device had, or the pushed one.                        *)
CompletesExactly ==
    pc = "start" =>
        /\ tree = staged.tree /\ unit = staged.unit
        /\ link = "ours" /\ hook
        /\ config = IF staged.push THEN "pushed" ELSE before

(* An update ends, however long the worker ignores its signals.            *)
UpdateEnds == pc # "idle" ~> pc = "idle"

(* The worker comes back after an update that exits with 0, unless another *)
(* update, an uninstallation or a power cut comes first.                   *)
ServiceComesBack == status = "done" ~> worker = "up" \/ status # "done"

(* The inductive invariant: what the supervisor was told, and what of the  *)
(* source has been installed, at each step of the script.                  *)
StopHeld ==
    /\ link # "ours" => (want # "up" /\ worker = "down")
    /\ ordered => want = "up"
    /\ pc = "wait" /\ ~unheard => want = "down" \/ ordered
    /\ pc \in Replacing /\ ~unheard =>
         worker = "down" /\ want # "up" /\ (link = "ours" => want = "down")
    /\ pc \in Replacing \union {"wait"} /\ unheard => damaged
    /\ pc \in Replacing /\ ordered => unheard

Copied == {"scripts", "restore", "restoring", "push", "pushing", "link", "dropHook",
           "writeHook", "start"}

Installed ==
    /\ pc # "idle" =>
         /\ Whole(staged.tree) \/ damaged
         /\ \A i \in Items : staged.tree[i] = Absent => tree[i] = Absent
    /\ pc \notin {"remove", "copy", "copying"} => item = 1
    /\ pc \in {"copy", "copying"} => staged.tree[item] # Absent
    /\ pc \in {"remove", "copy", "copying"} =>
         \A i \in Items : i < item => tree[i] = staged.tree[i]
    /\ pc \in Copied => tree = staged.tree

NoMixture ==
    want = "up" \/ worker = "up" \/ (link = "ours" /\ want = "none")
        => Whole(tree) \/ damaged

Linked ==
    /\ pc \in Copied \ {"scripts"} => unit = staged.unit
    /\ pc \in {"dropHook", "writeHook", "start"} => link = "ours"
    /\ pc = "start" => hook

Configured ==
    /\ pc \in {"validate", "stop", "wait", "backup", "remove", "copy", "copying",
               "scripts", "restore", "push"} => config = before
    /\ pc \in {"remove", "copy", "copying", "scripts", "restore", "restoring"} => backup = before
    /\ pc = "pushing" => staged.push
    /\ pc \in {"link", "dropHook", "writeHook", "start"} =>
         config = IF staged.push THEN "pushed" ELSE before

IInv == TypeOK /\ StopHeld /\ Installed /\ NoMixture /\ Linked /\ Configured
=============================================================================
