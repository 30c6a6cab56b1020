-------------------------- MODULE UpdateInstallProofs --------------------------
(***************************************************************************)
(* Proofs about UpdateInstall, for any number of items, updates and boots  *)
(* and any patience of stop_worker.                                        *)
(***************************************************************************)
EXTENDS UpdateInstall, TLAPS

(* Every step keeps the types.                                             *)
LEMMA StepTypeOK == TypeOK /\ [Next]_vars => TypeOK'
<1> SUFFICES ASSUME TypeOK, [Next]_vars PROVE TypeOK'
  OBVIOUS
<1> USE ConstantsAssumption DEF TypeOK, Replacing, Items, Releases, Contents, Absent, Torn
<1>1. CASE SvscanStarts \/ SuperviseStarts \/ SuperviseObeys \/ WorkerEnds
  <2>1. ordered' \in BOOLEAN
    BY <1>1 DEF SvscanStarts, SuperviseStarts, SuperviseObeys, WorkerEnds
  <2>2. want' \in {"none", "up", "down"} /\ worker' \in {"up", "down"}
    BY <1>1 DEF SvscanStarts, SuperviseStarts, SuperviseObeys, WorkerEnds
  <2>3. UNCHANGED <<disk, script, counts>>
    BY <1>1 DEF SvscanStarts, SuperviseStarts, SuperviseObeys, WorkerEnds
  <2> QED
    BY <2>1, <2>2, <2>3 DEF disk, script, counts
<1>2. ASSUME NEW push \in BOOLEAN, BeginRelease(push) PROVE TypeOK'
  BY <1>2 DEF BeginRelease, disk, service
<1>3. CASE BeginReinstall
  BY <1>3 DEF BeginReinstall, service
<1>4. CASE Validate
  BY <1>4 DEF Validate, disk, service, counts
<1>5. CASE StopConfirmed
  <2>1. unheard' \in BOOLEAN /\ damaged' \in BOOLEAN
    BY <1>5 DEF StopConfirmed
  <2> QED
    BY <1>5, <2>1 DEF StopConfirmed, disk, service
<1>6. CASE StopSend
  <2>1. unheard' \in BOOLEAN /\ damaged' \in BOOLEAN /\ ordered' \in BOOLEAN
    BY <1>6 DEF StopSend
  <2>2. pc' \in {"backup", "wait"}
    BY <1>6 DEF StopSend
  <2> QED
    BY <1>6, <2>1, <2>2 DEF StopSend, disk
<1>7. CASE StopWaits
  BY <1>7 DEF StopWaits, IsDown, disk, counts
<1>8. CASE StopGivesUp
  BY <1>8 DEF StopGivesUp, Ends, NothingStaged, disk, service, counts
<1>9. CASE Backup
  BY <1>9 DEF Backup, Step, disk, service, counts
<1>10. CASE RemoveItem
  BY <1>10 DEF RemoveItem, NextItem, service, counts
<1>11. CASE CopyItem
  BY <1>11 DEF CopyItem, Step, service, counts
<1>12. CASE ItemCopied
  BY <1>12 DEF ItemCopied, NextItem, service, counts
<1>13. CASE ReplaceScripts \/ RestoreConfig \/ ConfigRestored
  BY <1>13 DEF ReplaceScripts, Step, RestoreConfig, ConfigRestored, service, counts
<1>14. CASE PushConfig
  BY <1>14 DEF PushConfig, service, counts
<1>15. CASE ConfigPushed
  BY <1>15 DEF ConfigPushed, Step, service, counts
<1>16. CASE CreateLink
  BY <1>16 DEF CreateLink, Step, service, counts
<1>17. CASE DropHook
  <2>1. hook' \in BOOLEAN /\ pc' = "writeHook"
    BY <1>17 DEF DropHook, Step
  <2> QED
    BY <1>17, <2>1 DEF DropHook, service, counts
<1>18. CASE WriteHook
  BY <1>18 DEF WriteHook, Step, service, counts
<1>19. CASE StartService
  <2>1. damaged' \in BOOLEAN /\ ordered' \in BOOLEAN
    BY <1>19 DEF StartService
  <2>2. want' \in {"none", "up", "down"}
    BY <1>19 DEF StartService
  <2> QED
    BY <1>19, <2>1, <2>2 DEF StartService, Ends, NothingStaged, disk
<1>20. CASE Fail
  BY <1>20 DEF Fail, Ends, NothingStaged, disk, service, counts
<1>21. CASE Boot
  <2>1. damaged' \in BOOLEAN /\ ordered' \in BOOLEAN
    BY <1>21 DEF Boot
  <2>2. want' \in {"none", "up", "down"} /\ link' \in {"none", "ours", "foreign"}
    BY <1>21 DEF Boot
  <2>3. boots' \in 0..MaxBoots
    BY <1>21 DEF Boot
  <2> QED
    BY <1>21, <2>1, <2>2, <2>3 DEF Boot, Ends, NothingStaged
<1>22. CASE Uninstall
  <2>1. hook' \in BOOLEAN /\ link' = "none" /\ worker' = "down" /\ status' = "none"
    BY <1>22 DEF Uninstall
  <2>2. want' \in {"none", "up", "down"} /\ ordered' \in BOOLEAN
    BY <1>22 DEF Uninstall
  <2> QED
    BY <1>22, <2>1, <2>2 DEF Uninstall, counts
<1>23. CASE UNCHANGED vars
  BY <1>23 DEF vars
<1> QED
  BY <1>1, <1>2, <1>3, <1>4, <1>5, <1>6, <1>7, <1>8, <1>9, <1>10, <1>11, <1>12,
     <1>13, <1>14, <1>15, <1>16, <1>17, <1>18, <1>19, <1>20, <1>21, <1>22, <1>23
  DEF Next, ScriptStep

(* What supervise was told holds until the files are replaced.             *)
LEMMA StepStopHeld == IInv /\ [Next]_vars => StopHeld'
<1> SUFFICES ASSUME IInv, [Next]_vars PROVE StopHeld'
  OBVIOUS
<1> USE DEF IInv, StopHeld, Replacing
<1>1. CASE SvscanStarts \/ SuperviseStarts \/ SuperviseObeys \/ WorkerEnds
  BY <1>1 DEF SvscanStarts, SuperviseStarts, SuperviseObeys, WorkerEnds, disk, script,
     counts
<1>2. ASSUME NEW push \in BOOLEAN, BeginRelease(push) PROVE StopHeld'
  BY <1>2 DEF BeginRelease, disk, service
<1>3. CASE BeginReinstall
  BY <1>3 DEF BeginReinstall, service
<1>4. CASE Validate
  BY <1>4 DEF Validate, disk, service, counts
<1>5. CASE StopSend
  <2>1. CASE link = "none"
    <3>1. pc' = "backup" /\ unheard' = FALSE
          /\ UNCHANGED <<want, worker, ordered, link>>
      BY <1>5, <2>1 DEF StopSend, disk
    <3> QED
      BY <2>1, <3>1
  <2>2. CASE link # "none"
    <3>1. /\ pc' = "wait" /\ (unheard' <=> want = "none") /\ (ordered' <=> want = "up")
          /\ UNCHANGED <<want, worker, link>>
      BY <1>5, <2>2 DEF StopSend, disk
    <3>2. damaged' <=> damaged \/ unheard'
      BY <1>5 DEF StopSend
    <3>3. want \in {"none", "up", "down"}
      BY DEF TypeOK
    <3> QED
      BY <3>1, <3>2, <3>3
  <2> QED
    BY <2>1, <2>2
<1>6. CASE StopConfirmed
  BY <1>6 DEF StopConfirmed, IsDown, disk, service, counts
<1>7. CASE StopWaits
  BY <1>7 DEF StopWaits, IsDown, disk, counts
<1>8. CASE StopGivesUp \/ Fail
  BY <1>8 DEF StopGivesUp, Ends, NothingStaged, Fail, disk, service, counts
<1>9. CASE Backup \/ RemoveItem \/ CopyItem \/ ItemCopied \/ ReplaceScripts \/
         RestoreConfig \/ ConfigRestored \/ PushConfig \/ ConfigPushed
  BY <1>9 DEF Backup, Step, RemoveItem, NextItem, CopyItem, ItemCopied,
     ReplaceScripts, RestoreConfig, ConfigRestored, PushConfig, ConfigPushed, disk,
     service, counts
<1>10. CASE CreateLink \/ DropHook \/ WriteHook
  BY <1>10 DEF CreateLink, Step, DropHook, WriteHook, service, counts
<1>11. CASE StartService
  <2>1. pc' = "idle" /\ link' = link /\ worker' = worker /\ ordered' = FALSE
    BY <1>11 DEF StartService, Ends, disk
  <2>2. link = "ours"
    BY <1>11 DEF StartService, Linked
  <2> QED
    BY <2>1, <2>2
<1>12. CASE Boot
  BY <1>12 DEF Boot, Ends, NothingStaged
<1>13. CASE Uninstall
  BY <1>13 DEF Uninstall, counts
<1>14. CASE UNCHANGED vars
  BY <1>14 DEF vars
<1> QED
  BY <1>1, <1>2, <1>3, <1>4, <1>5, <1>6, <1>7, <1>8, <1>9, <1>10, <1>11, <1>12,
     <1>13, <1>14 DEF Next, ScriptStep

(* The items up to the current one are those of the source.                *)
LEMMA StepInstalled == IInv /\ [Next]_vars => Installed'
<1> SUFFICES ASSUME IInv, [Next]_vars PROVE Installed'
  OBVIOUS
<1> USE ConstantsAssumption DEF IInv, TypeOK, Installed, Copied, Items
<1>1. CASE SvscanStarts \/ SuperviseStarts \/ SuperviseObeys \/ WorkerEnds
  BY <1>1 DEF SvscanStarts, SuperviseStarts, SuperviseObeys, WorkerEnds, disk, script,
     counts
<1>2. ASSUME NEW push \in BOOLEAN, BeginRelease(push) PROVE Installed'
  <2>1. /\ staged'.tree = [i \in Items |-> updates + 1]
        /\ tree' = tree /\ item' = 1 /\ pc' = "validate"
    BY <1>2 DEF BeginRelease, disk
  <2>2. updates + 1 \in Releases /\ updates + 1 # Absent
    BY <1>2, ConstantsAssumption DEF BeginRelease, IInv, TypeOK, Releases, Absent
  <2>3. Whole(staged'.tree)
    BY <2>1, <2>2 DEF Whole
  <2>4. \A i \in Items : staged'.tree[i] # Absent
    BY <2>1, <2>2
  <2> QED
    BY <2>1, <2>3, <2>4 DEF Copied
<1>3. CASE BeginReinstall
  <2>1. staged'.tree = tree /\ tree' = tree /\ item' = 1 /\ pc' = "validate"
    BY <1>3 DEF BeginReinstall
  <2>2. Whole(tree) \/ damaged'
    BY <1>3 DEF BeginReinstall
  <2> QED
    BY <2>1, <2>2
<1>4. CASE Validate \/ StopConfirmed \/ StopWaits
  BY <1>4 DEF Validate, StopConfirmed, IsDown, StopWaits, disk, service, counts
<1>5. CASE StopSend
  BY <1>5 DEF StopSend, disk
<1>6. CASE StopGivesUp \/ StartService \/ Fail \/ Boot
  BY <1>6 DEF StopGivesUp, Ends, NothingStaged, StartService, Fail, Boot, disk,
     service, counts
<1>7. CASE Backup
  BY <1>7 DEF Backup, Step, disk, service, counts
<1>8. CASE RemoveItem
  BY <1>8 DEF RemoveItem, NextItem, service, counts
<1>9. CASE CopyItem
  BY <1>9 DEF CopyItem, Step, service, counts
<1>10. CASE ItemCopied
  BY <1>10 DEF ItemCopied, NextItem, service, counts
<1>11. CASE ReplaceScripts \/ RestoreConfig \/ ConfigRestored \/ PushConfig \/
         ConfigPushed \/ CreateLink \/ DropHook \/ WriteHook
  BY <1>11 DEF ReplaceScripts, Step, RestoreConfig, ConfigRestored, PushConfig,
     ConfigPushed, CreateLink, DropHook, WriteHook, service, counts
<1>12. CASE Uninstall
  BY <1>12 DEF Uninstall, counts
<1>13. CASE UNCHANGED vars
  BY <1>13 DEF vars
<1> QED
  BY <1>1, <1>2, <1>3, <1>4, <1>5, <1>6, <1>7, <1>8, <1>9, <1>10, <1>11, <1>12,
     <1>13 DEF Next, ScriptStep

(* What the worker may start on is whole or known to be damaged.           *)
LEMMA StepNoMixture == IInv /\ [Next]_vars => NoMixture'
<1> SUFFICES ASSUME IInv, [Next]_vars PROVE NoMixture'
  OBVIOUS
<1> USE DEF IInv, NoMixture, StopHeld, Installed, Copied, Replacing
<1>1. CASE SvscanStarts \/ SuperviseStarts \/ SuperviseObeys \/ WorkerEnds
  BY <1>1 DEF SvscanStarts, SuperviseStarts, SuperviseObeys, WorkerEnds, disk, script,
     counts
<1>2. ASSUME NEW push \in BOOLEAN, BeginRelease(push) PROVE NoMixture'
  BY <1>2 DEF BeginRelease, disk, service
<1>3. CASE BeginReinstall
  BY <1>3 DEF BeginReinstall, service
<1>4. CASE Validate \/ StopConfirmed \/ StopWaits
  BY <1>4 DEF Validate, StopConfirmed, IsDown, StopWaits, disk, service, counts
<1>5. CASE StopSend
  BY <1>5 DEF StopSend, disk
<1>6. CASE StopGivesUp \/ Fail
  BY <1>6 DEF StopGivesUp, Ends, NothingStaged, Fail, disk, service, counts
<1>7. CASE Backup \/ RemoveItem \/ CopyItem \/ ItemCopied
  BY <1>7 DEF Backup, Step, RemoveItem, NextItem, CopyItem, ItemCopied, disk,
     service, counts
<1>8. CASE ReplaceScripts \/ RestoreConfig \/ ConfigRestored \/ PushConfig \/
         ConfigPushed
  BY <1>8 DEF ReplaceScripts, Step, RestoreConfig, ConfigRestored, PushConfig,
     ConfigPushed, service, counts
<1>9. CASE CreateLink \/ DropHook \/ WriteHook
  BY <1>9 DEF CreateLink, Step, DropHook, WriteHook, service, counts
<1>10. CASE StartService
  BY <1>10 DEF StartService, Ends, NothingStaged, disk
<1>11. CASE Boot
  BY <1>11 DEF Boot, Ends, NothingStaged
<1>12. CASE Uninstall
  BY <1>12 DEF Uninstall, counts
<1>13. CASE UNCHANGED vars
  BY <1>13 DEF vars
<1> QED
  BY <1>1, <1>2, <1>3, <1>4, <1>5, <1>6, <1>7, <1>8, <1>9, <1>10, <1>11, <1>12,
     <1>13 DEF Next, ScriptStep

(* The run script, the link and the hook, in this order.                   *)
LEMMA StepLinked == IInv /\ [Next]_vars => Linked'
<1> SUFFICES ASSUME IInv, [Next]_vars PROVE Linked'
  OBVIOUS
<1> USE DEF IInv, Linked, Copied
<1>1. CASE SvscanStarts \/ SuperviseStarts \/ SuperviseObeys \/ WorkerEnds
  BY <1>1 DEF SvscanStarts, SuperviseStarts, SuperviseObeys, WorkerEnds, disk, script,
     counts
<1>2. ASSUME NEW push \in BOOLEAN, BeginRelease(push) PROVE Linked'
  BY <1>2 DEF BeginRelease, disk, service
<1>3. CASE BeginReinstall \/ Validate \/ StopSend \/ StopConfirmed \/ StopWaits
  BY <1>3 DEF BeginReinstall, Validate, StopSend, StopConfirmed, IsDown, StopWaits,
     disk, service, counts
<1>4. CASE StopGivesUp \/ StartService \/ Fail \/ Boot
  BY <1>4 DEF StopGivesUp, Ends, NothingStaged, StartService, Fail, Boot, disk,
     service, counts
<1>5. CASE Backup \/ RemoveItem \/ CopyItem \/ ItemCopied
  BY <1>5 DEF Backup, Step, RemoveItem, NextItem, CopyItem, ItemCopied, disk,
     service, counts
<1>6. CASE ReplaceScripts \/ RestoreConfig \/ ConfigRestored \/ PushConfig \/
         ConfigPushed \/ CreateLink \/ DropHook \/ WriteHook
  BY <1>6 DEF ReplaceScripts, Step, RestoreConfig, ConfigRestored, PushConfig,
     ConfigPushed, CreateLink, DropHook, WriteHook, service, counts
<1>7. CASE Uninstall
  BY <1>7 DEF Uninstall, counts
<1>8. CASE UNCHANGED vars
  BY <1>8 DEF vars
<1> QED
  BY <1>1, <1>2, <1>3, <1>4, <1>5, <1>6, <1>7, <1>8 DEF Next, ScriptStep

(* The configuration of the device comes back, or the pushed one.          *)
LEMMA StepConfigured == IInv /\ [Next]_vars => Configured'
<1> SUFFICES ASSUME IInv, [Next]_vars PROVE Configured'
  OBVIOUS
<1> USE DEF IInv, Configured
<1>1. CASE SvscanStarts \/ SuperviseStarts \/ SuperviseObeys \/ WorkerEnds
  BY <1>1 DEF SvscanStarts, SuperviseStarts, SuperviseObeys, WorkerEnds, disk, script,
     counts
<1>2. ASSUME NEW push \in BOOLEAN, BeginRelease(push) PROVE Configured'
  BY <1>2 DEF BeginRelease, disk, service
<1>3. CASE BeginReinstall \/ Validate \/ StopSend \/ StopConfirmed \/ StopWaits
  BY <1>3 DEF BeginReinstall, Validate, StopSend, StopConfirmed, IsDown, StopWaits,
     disk, service, counts
<1>4. CASE StopGivesUp \/ StartService \/ Fail \/ Boot
  BY <1>4 DEF StopGivesUp, Ends, NothingStaged, StartService, Fail, Boot, disk,
     service, counts
<1>5. CASE Backup \/ RemoveItem \/ CopyItem \/ ItemCopied \/ ReplaceScripts
  BY <1>5 DEF Backup, Step, RemoveItem, NextItem, CopyItem, ItemCopied,
     ReplaceScripts, disk, service, counts
<1>6. CASE RestoreConfig \/ ConfigRestored \/ PushConfig \/ ConfigPushed
  BY <1>6 DEF RestoreConfig, ConfigRestored, Step, PushConfig, ConfigPushed,
     service, counts
<1>7. CASE CreateLink \/ DropHook \/ WriteHook
  BY <1>7 DEF CreateLink, Step, DropHook, WriteHook, service, counts
<1>8. CASE Uninstall
  BY <1>8 DEF Uninstall, counts
<1>9. CASE UNCHANGED vars
  BY <1>9 DEF vars
<1> QED
  BY <1>1, <1>2, <1>3, <1>4, <1>5, <1>6, <1>7, <1>8, <1>9 DEF Next, ScriptStep

(* The invariant holds when nothing has been installed, too.               *)
LEMMA InitIInv == Init => IInv
<1> SUFFICES ASSUME Init PROVE IInv
  OBVIOUS
<1>1. TypeOK
  <2>1. 1 \in Items /\ 0 \in Releases /\ 0 \in 0..GiveUpAfter /\ 0 \in 0..MaxBoots
    BY ConstantsAssumption DEF Items, Releases
  <2>2. tree \in [Items -> Contents] /\ unit \in Releases \union {Absent}
    BY <2>1 DEF Init, Contents, Absent
  <2>3. staged \in [tree : [Items -> Contents], unit : Releases \union {Absent}, push : BOOLEAN]
    BY DEF Init, NothingStaged, Contents
  <2>4. /\ hook \in BOOLEAN /\ damaged \in BOOLEAN /\ unheard \in BOOLEAN
        /\ config \in {"absent", "device"} /\ link \in {"none", "ours", "foreign"}
    BY DEF Init
  <2>5. want \in {"none", "up", "down"}
    BY DEF Init
  <2> QED
    BY <2>1, <2>2, <2>3, <2>4, <2>5 DEF Init, TypeOK, Releases
<1>2. StopHeld
  BY DEF Init, StopHeld, Replacing
<1>3. NoMixture
  <2>1. 0 \in Releases
    BY ConstantsAssumption DEF Releases
  <2>2. CASE tree = [i \in Items |-> 0]
    BY <2>1, <2>2 DEF Whole, NoMixture
  <2>3. CASE tree # [i \in Items |-> 0]
    BY <2>3 DEF Init, NoMixture
  <2> QED
    BY <2>2, <2>3
<1>4. Installed /\ Linked /\ Configured
  BY DEF Init, Installed, Linked, Configured, Copied
<1> QED
  BY <1>1, <1>2, <1>3, <1>4 DEF IInv

(* Every part of the invariant holds in every reachable state.             *)
THEOREM Invariance == Spec => []IInv
<1>1. IInv /\ [Next]_vars => IInv'
  BY StepTypeOK, StepStopHeld, StepInstalled, StepNoMixture, StepLinked, StepConfigured
  DEF IInv
<1> QED
  BY InitIInv, <1>1, PTL DEF Spec

(* update.sh, the supervisor and the boot hook keep their state in range,  *)
(* however they interleave, fail and restart.                              *)
THEOREM TypeCorrect == Spec => []TypeOK
<1>1. IInv => TypeOK
  BY DEF IInv
<1> QED
  BY Invariance, <1>1, PTL

(* stop_worker: whatever supervise, svscan and a worker that does not obey *)
(* do, no file is replaced under a live worker that its svc -d reached.    *)
THEOREM NoLiveReplacement == Spec => []WorkerDownWhileReplacing
<1>1. IInv => WorkerDownWhileReplacing
  BY DEF IInv, StopHeld, WorkerDownWhileReplacing
<1> QED
  BY Invariance, <1>1, PTL

(* A worker runs one whole release, after any failures of update.sh, until *)
(* a power cut or a reinstallation meets the tree that one of them left.   *)
THEOREM NoMixtureRuns == Spec => []RunsWholeRelease
<1>1. IInv => RunsWholeRelease
  BY DEF IInv, NoMixture, RunsWholeRelease
<1> QED
  BY Invariance, <1>1, PTL

(* When update.sh reaches start_service, the device has exactly its source *)
(* and the configuration it should have, whatever was cut off before.      *)
THEOREM CompletionIsExact == Spec => []CompletesExactly
<1>1. IInv => CompletesExactly
  BY DEF IInv, Installed, Linked, Configured, Copied, CompletesExactly
<1> QED
  BY Invariance, <1>1, PTL
=============================================================================
