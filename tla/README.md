# Verification of dbus-evcharger

TLA+ models of the Venus OS EV-charger bridge (`dbus_evcharger/`), of its
installation on the device (`update.sh`, `setup`) and of the release pipeline that
ships it (`scripts/`, `.github/workflows/`), the TLC runs
that check them on small instances, and TLAPS proofs for every instance.
`PROJECT.json` is the index: components, runs, the source lines of every
definition, hazards, theorems, and for each property one plausible bug that
breaks it.

    tlc -config PollWorker.cfg MCPollWorker.tla           # one run
    tlapm PollWorkerProofs.tla                            # one proof module

1. [The system](#1-the-system) — components, state, operations, hard behaviour
2. [The modules](#2-the-modules) — how state and actions correspond to the code
3. [The runs](#3-the-runs) — what is checked, bounds, fairness
4. [The proofs](#4-the-proofs)
5. [What disagrees with the documentation](#5-findings)
6. [What is not modelled](#6-not-modelled)
7. [Plan](#7-plan)

## 1. The system

The bridge reads an EV charger from Home Assistant (HTTP) or from MQTT, and
publishes it as a D-Bus service. It is one process with three threads:

    GLib main loop          poll worker thread          paho network thread
    tick() every <= 1 s ->  queue(1): collect()          _on_connect, _on_message,
      submit one job          HaClient.poll()            _on_disconnect
      publish               GridVoltageReader.read()       fill the MQTT cache
    _deliver() <- idle_add    result back                       |
    MqttClient.poll() <------------- cache under _lock ---------+
    SIGTERM handler: stop the worker, quit the loop

Around it, a release pipeline runs on GitHub Actions: runs of one workflow
reserve version plans in a ledger file, build, publish, and promote candidates.

| Component | State | Operations | Interacts with |
|---|---|---|---|
| Poll worker (`worker.py`, `App.serve`) | one-place queue, `_pending`, `_stopping`, GLib idle sources, loop flag | poll, `_deliver`, `_run`, stop, signal handler | main loop, GLib, both clients |
| Telemetry publication (`main.py`: tick, `_publish_snapshot`) | snapshot and its acquisition time, next poll, paths on the bus | tick, collect, accept, publish | worker, HA and MQTT clients, D-Bus |
| Control paths (`_handle_control_paths`) | mirrored start/stop and set current | mirror | telemetry source, D-Bus |
| Home Assistant client (`ha_client.py`) | circuit breaker, last-known values | poll | HTTP |
| MQTT client (`mqtt_client.py`) | cache, receipt stamps, connection and life-cycle flags, two locks | poll, connect, callbacks, disconnect | paho, broker, main loop, worker |
| Grid voltage reader (`voltage.py`) | found service, discovery throttle | read, discover | dbus-send |
| D-Bus service (`service.py`, `control.py`) | path table, registration | register, update, callbacks of writes | vedbus |
| Configuration (`config.py`) | constants | load once | all |
| Release ledger (`release_state.py`) | counter, publication floor, plan per run | reserve, verify, begin publication | GitHub contents API |
| Publication and promotion (`release_versioned.py`, `release_control.py`) | tags, releases, evidence, run attempts | prepare, publish, promote | ledger, GitHub, workflow |
| Version planner, receipts (`version_plan.py`, `version_receipt.py`, `release_version_adapter.py`) | input files, plan, evidence, receipt | create, sync, check, receipt, verify | packaging, pipeline, editors |
| Packaging (`package_release.py`, `stage_release_assets.py`) | archive, staged assets | package, stage | planner, pipeline |
| Version preparation (`prepare_version.py`) | topic branch, pull request | prepare, find again, bring up to date | git, GitHub, people, other runs |
| Installation (`update.sh`, `setup`, `deploy.sh`) | installed tree, supervised service | stop, replace, restore, start | daemontools |
| Local release client (`release.py`), metadata writers, other workflows | files | dispatch, package, check | pipeline |

What is hard in it, and what makes each part correct:

* **Poll worker.** Two threads, and signal handlers that preempt Python code of
  the main thread between any two bytecodes. Correct: never two jobs, the
  queue of one never overflows, a stop always wakes the worker and always ends
  the process, a late result is dropped.
* **Telemetry.** Readings have an acquisition age, delivery may be late, two
  sources alternate. Correct: nothing is shown beyond its age, nothing usable
  is withdrawn early, polls stay an interval apart.
* **MQTT client.** Three threads on one object, a join inside a lock, retries
  of a setup that can raise half way. Correct: what is exposed is young and of
  this connection, flags agree with the network thread, nothing waits for ever,
  also when a SIGTERM stops the main thread with a lock in its hands.
* **Home Assistant client.** A breaker that changes state when it is read.
  Correct: it opens exactly at its threshold, probes are spaced, fallback values
  never pass as fresh.
* **Grid voltages.** A meter found once is kept until neither phase answers, and
  looking for one is throttled. Correct: both voltages are of one meter and no
  older than the collection that returns them.
* **D-Bus paths.** A publication is one signal per path. Correct: a listener
  never meets an old reading while `/Connected` is 1, and a completed publication
  shows one snapshot and nothing besides.
* **Control paths.** Changes only, with a tolerance and a range. Correct: what
  the bus shows follows the source however it drifts.
* **Installation.** A shell script that replaces a tree in place, on a device that
  may lose power, beside a supervisor that restarts what dies. Correct: no file
  is replaced under a live worker, no mixture of releases runs before a reboot,
  an update that reaches its end repairs what the ones before it left, and the
  service comes back.
* **Release pipeline.** A read-decide-write over a file that others write, in
  runs that fail at any step and are run again in whole or in part, while
  releases can be deleted. Correct: numbers are issued once and consumed in
  order, nothing public is downgraded or overwritten, stable bytes are those of
  an accepted candidate.
* **Version preparation.** Git, tags, requests and topic are read in separate
  calls, two runs may overlap, anyone may push, merge, close or release in
  between, and a run may stop after its push. Correct: the base version never
  falls, no push takes anything away, a rerun gets to its end, its request merges.
* **Version planner, packaging, receipts.** Separate commands over files of one
  checkout, which may stop half way, be repeated with another plan, and meet an
  edit between any two reads. Correct: no edit is undone, a stopped sync can be
  repeated, what is published is what its receipt says.

The hazards, at the line where each bites and with the properties that cover
it, are in `PROJECT.json` under `hazards`.

## 2. The modules

| Module | Models | Uses |
|---|---|---|
| `JobSlot` | abstract: a slot for one job, closed after a stop | |
| `PollWorker` | both threads, queue, idle sources, signal handlers | implements `JobSlot` |
| `FreshTelemetry` | abstract: time cannot pass the limit of an item that is shown | |
| `TelemetryBridge` | poll schedule, source choice, withdrawal | is built on `JobSlot`, implements `FreshTelemetry` |
| `MqttClient` | the client on its three threads with its locks | |
| `Shutdown` | the client under a SIGTERM, the bounded join and the exit | extends `MqttClient` |
| `HaClient` | circuit breaker and fallback | |
| `GridVoltageReader` | discovery and reading of a grid meter | |
| `Collection` | a job of the worker: both of the above, merged | extends `HaClient`, instantiates `GridVoltageReader` |
| `ControlPaths` | mirroring of the controls | |
| `ServicePaths` | publication path by path | extends and implements `ControlPaths` |
| `UpdateInstall` | `update.sh`, `setup`, supervisor, boot hook | |
| `NumberAllocator` | abstract: numbers issued once, consumed in order | |
| `ReleasePipeline` | ledger, runs, publication, promotion | implements `NumberAllocator` |
| `PrepareVersion` | runs of `prepare_version.py --pr`, git and GitHub | |
| `VersionBuild` | sync, packaging, staging and receipt in one checkout | |
| `MC*` | constants for TLC | |
| `*Proofs` | theorems, in a module for each composed system; `CollectionProofs` and `ServicePathsProofs` also have those of the modules they extend, `VersioningProofs` those of `PrepareVersion` and `VersionBuild` | |

**PollWorker.** `mpc` is where the main thread is in its own code, `hpc[i]`
where the handler of the i-th signal is; a handler runs on top of the main
thread and of earlier handlers, so `MainRuns` and `OnTop` guard every step of
that thread. `PollAccept/Mark/Lock/Put` are the statements of `poll()`,
`Deliver/DeliverCheck/DeliverCallback` those of `_deliver`,
`StopSetLock/Set/SetUnlock`, `StopLock/Put` and `StopJoin` those of `stop()`, and
`LoopQuit` what the handler does after it. The program points `inPut` are the inside of
`Queue.put_nowait`, `inSet` and `notify` that of `Event.set`, before and after it sets
the flag; neither lock is reentrant. `idle` counts the GLib idle sources, `running` is GLib's own flag.

**JobSlot** has the slot states free, queued, running, ready and the flags
stopped and closed. `PollWorker!Slot` maps queue, worker and idle sources to them.

**TelemetryBridge.** A unit of time is one period of the GLib timeout. `Tick`
is the whole of `tick()`: submit if due, then publish. `CollectStart` and
`CollectEnd` are the ends of `_collect_snapshot`, whose acquisition time is taken at
its start. `AcceptSnapshot` publishes at once, as the code does. Readings are
represented by source and acquisition time, which is all the ages depend on.
`Published` is the choice of `_publish_snapshot`: Home Assistant while fresh and
usable, else MQTT while both required fields are, grid voltages only within the
age of the snapshot they came with.

**MqttClient.** `life` and `cache` are the holders of `_lifecycle_lock` and
`_lock`, which `disconnect` takes one after the other; `mpc`, `dpc`, `ppc` the points of `poll`, `disconnect` (on the worker)
and the paho callbacks. `OnMessage` is the gate, `UpdateField` the store that may
come after a loss or a disconnect. Each reading carries the connection (`epoch`)
and time it was published in, so a renewed old reading can be told from a new one.
`replay` holds the topics whose retained message the broker still owes: such a
message carries the reading published last, whatever its age.

**Shutdown** puts the main thread's part of `MqttClient` under the signal handler:
`SignalArrives` may stop it anywhere, with either lock held, and `MainGoesOn` is
disabled until `HandlerReturns`, when the worker is done or `JoinLimit` is over.
The worker reaches `disconnect` only after the signal. `LastPoll` is the iteration
that `quit()` lets end; `ProcessExits` takes the daemon threads with it.

**HaClient.** `PollRequest` is the passage of `is_open`, which half-opens the
breaker as a side effect; `RequestOk` and `RequestFail` are the two outcomes.
`streak`, `lastFailure` and `pollStart` are history.

**GridVoltageReader** follows `read()` and `_discover()` with a step per dbus-send;
a phase answers or does not, whatever it did before. **Collection** is
`_collect_snapshot`: the steps of the poll, then those of the read, then the merge,
with time passing between any two. `started` is what `PollWorker` hands out with
the snapshot and `TelemetryBridge` counts ages from.

**ControlPaths.** A state of the source is a start/stop string class and a set
current in tenths of an ampere. `roundedUp` is the rounding of a binary
difference of exactly 0.1 A, which can fall on both sides.

**ServicePaths.** `Publish` begins `_publish_snapshot` with `/Connected`; `SetPath` sets
the path number `next` of `Order` to a reading of the snapshot or to nothing;
`SetControlPaths` ends a publication of a usable snapshot. A reading is reduced to
its age in publications, a voltage to absent, up to 50 V or above. Until the first
publication the paths show the defaults they were created with (0), under
`/Connected` 0. The fields of the control paths are chosen when they are read
(`ControlFields`): nothing looks at them earlier in a publication.

**UpdateInstall.** `pc` is the next step of `update.sh`, `idle` when it does not run.
The tree is a function from the items of `RUNTIME_ITEMS` to the release each was copied
from; an item under `cp` and a configuration file under `cp` are `Torn`. `Fail` can end the
script at any step (`set -e`, signals), `Boot` is a power cut at any step and the boot
after it, with a `/service` that kept the link or lost it. `want` is what supervise was
told, and `none` until svscan has started one: `svc` then exits with 0 and changes
nothing. `ordered` is a `svc -d` in the control FIFO that supervise has not read
(`SuperviseObeys`): until then it may start the worker once more, and `svstat` may say
down between two starts. Two history variables name what the properties except: `unheard` (the
installer went on before any supervise had read its `svc -d`) and `damaged` (a reboot, a reinstallation
or an unheard stop let the worker meet a tree that is not whole).

**ReleasePipeline.** `ledger` is the file, `seen[r]` what run r read last; the
blob-SHA comparison of GitHub's contents API is `Write`: the file is replaced only if
it is still what was read (a blob SHA identifies the content, and a file that is
created must not exist yet). A run steps through `pc`:

    queued -> prepare -> read -> allocate -> branch -> write -> check -> begin
                                                -> consume -> tag -> draft -> assets -> evidence -> success
    queued -> promote -> begin -> consume -> tag -> draft -> assets -> success

`Fail` can end it at any point; `Rerun` makes a new attempt, of all jobs
(`queued`) or of the failed ones only (`requeued`, which skips `prepare` and takes
the stored plan, `Restart`). `DeleteRelease` is a person deleting release metadata,
which docs/VERSIONING.md provides for. `Built` stands for the manifest: run,
attempt and plan identify the bytes. `parallel` is the capacity of the workflow's
concurrency group, 1 in the repository; the ledger is meant to be safe without
the group, so the runs also use 2. The scripts are rendered from a shared toolkit;
they are modelled as they are in this repository.

**PrepareVersion.** A step per request that a run makes: `Fetch` (head and merged
tags), `Choose` (`ls-remote`, `choose_version`, `gh pr list`), `ReadTopic` (`remote_topic`,
`verify_owned_topic` and the decision that follows from them in the run's own
worktree), `Push`, `CreateRequest`. A commit is its version, its edits and its
ancestors, so that fast-forwarding, merge bases and conflicts are computed, not
assumed: git's three-way merge is `CleanMerge` and `MergedVersion`. The owned files are one
field, because `version_plan.py` keeps them together, and what is not owned is a
set of edits. `--bump` names a version, as `--version` does. `Merge`, `ForeignPush`,
`Close`, `Release` and `MainAdvances` are other people and the release pipeline;
`Crash` stops a run after its push (earlier it leaves nothing behind).

**VersionBuild.** `SyncVerify`, `SyncRead`, `SyncRecheck`, `CheckInput`, `ReplaceInput` and
`WriteEvidence` are the passes of `version_plan.py sync` over the files,
`PackageBegin/Input/End` those of `package_release.py`, `StageCopy/StageCheck` and
`CreateReceipt` those of `stage_release_assets.py`; `Publishable` is what the publisher
verifies in another job. A content is a version and the number of the edit that first
made it, a digest the content itself. `Edit` writes something new or puts back what an
input held before, as `git checkout` does, at any moment. Two variables are history:
`raced`, the file about to be replaced was edited after the last look at it, and `undone`,
the inputs that got an earlier content back while an archive waited for its receipt.

## 3. The runs

| Run | Shows | Bounds, and why they suffice |
|---|---|---|
| `poll_worker` | no overflow, no lost wakeup, refinement of `JobSlot`; every poll is answered; a signal that finds the loop running ends the process or hangs on a lock of its own thread | Two signals: a handler preempting a handler is the deepest nesting that differs from one; signals everywhere, early and inside `put`, the second also inside the `Event.set` of the first |
| `poll_worker_reentry` | violation: a handler waits for its own thread | One signal |
| `shutdown` | exposed values are genuine, stamps and flags consistent, `disconnect` and the callback it waits for never wait for each other, the process exits | Two fields (one must not renew the other), one of them retained, two connections, clock past the expiry of a field received after a reconnection; the signal anywhere in a poll |
| `collection` | breaker against the history of requests, one meter, spaced discoveries, nothing in a snapshot older than its collection | Threshold 2, four failures in a row (two probes), clock of two reset timeouts and several discoveries; two meters, which are symmetric |
| `telemetry_bridge` | refinement of `FreshTelemetry`, spacing, no flicker | Jobs may outlast both the interval and the life of a snapshot; the clock covers the longest job and the life of its result |
| `service_paths` | publications path by path, restarts in between; controls follow the source | Two lines, one or two of them in use; set currents below the range, at its end, above it, in steps of the tolerance and of more |
| `update_install` | live replacement, mixtures, exact completion, end of an update, return of the service | Two items show every mixture; three updates: one that fails, one that repairs it, one after that; two power cuts |
| `release_pipeline` | publication and promotion properties, refinement of `NumberAllocator` | Three runs (two compete, a third promotes or comes late), four attempts in all, both capacities, a nightly and a candidate channel of one base; runs are symmetric |
| `ledger_first_write` | violation: a branch without the file | Two runs |
| `prepare_version` | no downgrade, nothing taken from a topic, requests merge, reruns end | Two runs overlap, for the same version or for two; three versions (the base, one beyond it, one beyond that); two changes by others or crashes, enough for a push between read and push, and for a merge followed by one |
| `prepare_version_conflict` | violation: a request that conflicts is returned as it is | The same two runs, two merges |
| `version_build` | receipts, edits, repeated sync | Two inputs, one that the artifact declares and one, the lockfile, that it does not; a beta and two candidates of equal package version; two edits (one and its undoing), one stop |

Deadlock is not checked where a bound of the clock or of the attempts ends a
behaviour, or where the system stops: a process that has exited, a handler that
waits for its own thread, an updater with no update left. `shutdown`, `service_paths`,
`prepare_version` and `version_build` check it.

**Fairness.** `PollWorker`: each thread is scheduled, and an active handler goes
on; `collect` and `close` return because every read in them has a timeout, and
`join` gives up after a second. A signal or a due poll is never forced.
`Shutdown`: the main thread, the worker and the paho thread go on as long as they
can (weak: after the signal the main thread takes a lock a few times only), and
the time of a join passes; a job ends because its requests have timeouts. No
connection, message or signal is forced.
`PrepareVersion`: a run that was started goes on, and one that failed is run again
(weak fairness of both together); no event of others is forced.
`VersionBuild`: a command goes on (weak); a sync that did not get to its end is
repeated by whoever started it (strong, because other commands may run in between).
`UpdateInstall`: the script goes on, by its next command or by failing (weak fairness
of their disjunction, so that success is not forced), and svscan and supervise do
their work. Nothing forces a worker to obey, an update to begin or a power cut. The
other modules state safety only.

Some properties are qualified, because the code promises no more:
`NoDowngrade` and `NoCandidateAfterStable` hold for one run at a time. With two, a
run that advanced the floor can publish after a run with a larger number:
`begin_publication` orders the floor, the concurrency group orders what follows.
`ExposedIsGenuine` is about topics that are not retained, and lets a stop add the
time of the join. `NoEditLost` leaves out an edit between the last look at a file and
`os.replace` (`raced`). `PublishedIsReceipted` leaves out the inputs that got an earlier
content back between packaging and receipt (`undone`), needs one that the artifact
declares among the rest, and compares contents only if the archive carries the evidence
of its receipt (section 5). `UpdatedMerges` is about runs that
pushed. `StableIsCandidate` leaves out the tags from before the ledger (`Legacy`), which
have no package. `Completes` ends where the version cannot be had any more: the base is beyond
it, the versions of the model are used up, or a topic is not the tool's own. `LoopSignalExits` is about
signals outside two windows: once `mainloop.run()` was called, and unless a handler
waits for a lock that the code under it holds, the queue's or the event's
(`SelfDeadlock`, section 5); both windows and both locks are reachable in its run, and
it fails without either. `PollAnswered` leaves out the second. `DisconnectNeverStuck` says
nothing while the main thread is in a critical section, where a signal may have stopped
it: `ShutdownExits` does. `WorkerDownWhileReplacing` leaves out `unheard` stops,
`RunsWholeRelease` damaged trees; `CompletesExactly` leaves out nothing. One update
runs at a time, and none before the boot scripts have ended: nothing in the scripts
ensures the first, the boot order of the device the second. The breaker bound `MaxStreak`, the clocks
`MaxTime`, `MaxEpoch` and `MaxAttempts` are guards of the models, not of the code.

## 4. The proofs

Every theorem holds for all values of the constants under the named assumptions
(`ConstantsAssumption` and the like) of each module, which TLC evaluates in its runs.
The inductive invariants, with the types in them, were checked by TLC before they
were proved, and are left out of the runs now; so are properties that are proved and
follow from what a run checks (`OkIsThisPoll`, `UniqueNumbers`).

* **PollWorkerProofs** — for any number of signals, early ones and ones inside
  `put` included: `TypeOK`, `OneJobInFlight`, `NoOverflowBeforeStop`, `NoLostWakeup` and
  the refinement of `JobSlot`. The properties are not inductive by themselves. `IInv`
  adds that from its check to its `put` the main thread owns an empty pipeline,
  whatever handler runs in between (`PollOwnsSlot`), and that no sentinel is enqueued
  or seen before the stop flag is set (`StopLeavesTrace`).
* **ShutdownProofs** — for any topics, limits, connections and any moment of the
  signal: `NoStampWithoutConnection`, `LoopAccountedFor`, `ExposedIsGenuine`. `IInv` says who holds
  which lock (`LocksHeld`), what `disconnect()` has left of paho's loop at each of its
  steps (`LoopByStep`), that a message past its gate finds its connection or a closed
  client (`StoresConnected`), and how old it can be when a stop kept it from the
  lock (`ReadingsGenuine`, with the clock of the join in `JoinOnTime`).
* **VersioningProofs**, first part — for any number of runs, versions, edits, crashes and
  changes by others: `NeverDowngrades`, `KeepsForeignWork` and `UpdatedMerges`. `IInv` says that
  the history only adds, so that a commit has the edits of its ancestors and no lower
  version (`Ancestry`), and what a run that is about to push may still rely on
  although it read it earlier (`Relies`): its target is not below its head, and its
  topic has nothing that its head lacks. A merge then cannot lower the version:
  both sides are at or above their common ancestor and one of them is at it, or
  they agree. For `UpdatedMerges`, `UpdatesFollow` adds that a commit is made after its
  ancestors and that what a run pushed follows the head it fetched: the head is then
  the merge base, and the merge takes the topic as it is.
* **VersioningProofs**, second part (`VersionBuild`) — for any inputs, plans, edits and
  stopped commands: types, `NoEditLost` and `PublishedIsReceipted`, by `BuildIInv`. An
  edit has a number that no content had before (`Numbered`) or brings an earlier one
  back, and the invariant follows each input that is not `undone`. `PackedSound` says that
  it is what the archive holds of it, or was edited after the evidence in the archive was
  written; a sync keeps that, because it writes the number of what it has read. When a
  receipt is made the inputs are as the evidence says, so that if that evidence is
  also the packed one, nothing was edited since and the archive has it
  (`ReceiptSound`). `ArchiveSound` says that the files of an archive have one version, but for
  edits that fell between the reads of its making: such an edit (`Stray`) differs from the
  evidence since, so neither a sync nor a receipt follows it. Which version that is, only
  an input that the artifact declares can tell. The committed policy declares some
  (`.release-policy.json:44`); a policy may declare none, and then nothing compares the
  version in the archive with the plan: an archive of an earlier plan can be staged for a
  later one, as TLC shows with `Inspected = {}` and without that condition. What the invariant says of an archive
  and its receipt (`ReceiptSound`) does not need it.
* **TelemetryBridgeProofs** — for every interval, lifetime and freshness limit: the
  refinement of `FreshTelemetry`, and the action properties `PollsAreSpaced` and
  `StaysConnected`. `IInv` says that what the last tick left on the bus is young
  (`TickedYoung`), that a job begins after its submission, which also fixes when the
  next is due (`JobsFollow`), and that after a snapshot delivered in time the next job is
  submitted as soon as it is due (`Rhythm`).
* **CollectionProofs** — for every threshold, timeout, number of meters and clock: of the
  client alone, `OkIsThisPoll`, `OpensAtThreshold` and the action property
  `ProbesAreSpaced`; a collection moves the client by the client's own steps
  (`HaRefinement`), so all three hold of it too; and of the whole collection,
  `CollectedSinceStart`, `OneMeter` and `DiscoveriesAreSpaced`. `IInv` relates the failure
  count, which half-opening lowers, to the failures since the last success. `GridIInv` says
  whose voltages the reader holds at each step; `HaRead` and `GridRead` say what of
  the merge's inputs this collection has fetched itself, beside last-known values and
  voltages of earlier reads.
* **ServicePathsProofs** — for every limit, tolerance and set of setpoints. Of
  `ControlPaths`: types, `SetpointMirrored`, `StartStopMirrored` (for an entity with numeric
  states), by an `IInv` that says that what was mirrored last is what the bus shows.
  Of the service: the refinement of `ControlPaths`, hence the same two properties,
  `NoOldReadings` and `OneSnapshotShown`. `ServiceIInv` splits the paths at
  `next`: those before it are the snapshot's (`SetSoFar`), those from it on are at most
  one publication old (`ToBeSet`), because a publication begins only after the one
  before it has set them all; that no path is listed twice is a lemma.
* **UpdateInstallProofs** — for any number of items, updates, power cuts and any patience of
  the stop: types, `WorkerDownWhileReplacing`, `RunsWholeRelease`, `CompletesExactly`.
  `IInv` says what supervise was told at each step (`StopHeld`), which items are
  already the source's (`Installed`), that whatever may be started is whole or damaged
  (`NoMixture`), and how far link, hook and configuration have come (`Linked`,
  `Configured`). One lemma per conjunct, one step per action.
* **ReleasePipelineProofs** — for every set of runs, number of attempts and
  capacity: `UniqueNumbers`, `PublishedConsumed`, and the refinement of
  `NumberAllocator`. `IInv` adds what each run decided from the ledger it read
  (`Decided`): a new number is one above the counter *that was read*, a publication
  is held by the ledger *that was read* and not below its floor. The comparison in
  `Write` makes that ledger the current one. The lemma `OthersKeep` carries the
  decisions of all other runs over a step, because the ledger only grows; one
  lemma per action does the rest. On top of it, `ReleasesSound` gives `StableIsCandidate` and
  `TagsAreImmutable`: where a run's request, plan and package come from (`Origin`), that
  a run between tag and release is the only one at that tag and finds there what it
  put there (`Owns`, `Exclusive`), and that a build is released under its own tag
  (`UnderItsTag`). `Serial` gives `NoDowngrade` and `NoCandidateAfterStable` for one run at a
  time: only one run is active, its number is above all that were public, or
  equal for a promotion, and the base of its candidate has no stable tag (`Ahead`).

Every safety property and refinement that a passing run checks is so proved, but for
`DisconnectNeverStuck`. Model-checked only are that invariant and liveness (`PollAnswered`,
`LoopSignalExits`, `ShutdownExits`, `UpdateEnds`, `ServiceComesBack`, `Completes`, `SyncRecovers`),
which the prover does not reach: it has no rules for fairness and ENABLED. That the
models never deadlock, where the runs check it, is a statement about ENABLED too.

## 5. Findings

* **A signal inside `put_nowait` blocks for ever** (`worker.py:56`). The handler's own
  `put_nowait` needs the mutex that the interrupted one holds. Run `poll_worker_reentry`. A
  second signal inside the `Event.set` of the first handler (`worker.py:54`) hangs in the
  same way, before that handler has woken the worker; `poll_worker` has both
  (`SelfDeadlock`).
* **A stop before the first ledger write blocks the pipeline**
  (`scripts/release_state.py:171`). The branch exists without the file, which later
  reads reject, and there is no history to restore it from. Run `ledger_first_write`.
* **A prepared request that conflicts is called up to date**
  (`scripts/prepare_version.py:291`). Whether a topic is current is decided by its tree
  alone. When another preparation was merged since, the tree the run wants can equal
  the topic's although the topic does not follow the new head: no merge commit is
  made, and every rerun returns the conflicting request. Run `prepare_version_conflict`.

Seen in the models, without a run of their own:

* A signal between the installation of its handler and `mainloop.run()` stops the worker
  and calls `quit()` on a loop that does not run yet; the process then goes on without
  polls (`main.py:347`). `PollWorker` has this window (`EarlySignal`), and `LoopSignalExits`
  leaves it out.
* A retained message renews the age of an old reading (`mqtt_client.py:200`); `Shutdown`
  has such topics, and `ExposedIsGenuine` leaves them out.
* `on` and `off` of a switch entity are parsed as integers and never mirrored
  (`ha_client.py:198`); `StartStopMirrored` is checked with numeric entities.
* "The receipt proves which source inputs and bytes were packaged"
  (`docs/release-versioning.md:38`): it proves which inputs were there when the assets were
  staged. Packaging checks only the owned fields (`release_version_adapter.py:68`) and
  staging compares the digests of the inputs with the evidence in the checkout
  (`stage_release_assets.py:87-91`, `version_receipt.py:109-137`), so an edit of `uv.lock` that
  is packed and undone before staging leaves no trace. TLC shows it, with two edits, when
  the inputs in `undone` are not left out of `PublishedIsReceipted`. When a sync with
  another candidate's plan came between packaging and staging, the package versions
  agree and the archive's own evidence is not compared.
* `svstat` says down between two starts of a worker that is wanted up; when supervise has
  not read the `svc -d` by then, `update.sh:127` takes the worker for stopped and replaces
  files under the one that is started next. `WorkerDownWhileReplacing` leaves it out
  (`unheard`), as it does a link that svscan has not seen.
* Two overlapping updates (`update.sh:73`) are not excluded by the scripts; the end of
  one starts the worker while the other copies.

Seen on the way, without a run: under `NullDbusService` the callbacks built in
`main.py:90-92` take one argument and are called with path and value, so a dry run
whose source sets start/stop ends in a `TypeError`; the `mode` branch of
`_handle_control_paths` has no source that provides a mode; `/Current` stays empty
without a current entity, where `local_config.example.py:11` says it is derived (the
current of each line is); `control.py` says that D-Bus writes are forwarded, `README.md`
that they are not, and they are not; alarms and session costs are not withdrawn with
the readings, but no source sets them; `svc -d` and `svc -u` succeed without effect on
a service that svscan has not started yet (`update.sh:123`, `238`).

## 6. Not modelled

* D-Bus registration and bus name ownership.
* Of the installation: updates that overlap, the logger, owners and modes of files,
  `deploy.sh` and `restart.sh`, which only call the scripts and the supervisor.
* `TelemetryBridge`, `Collection` and `ServicePaths` are checked apart, each with the
  interface of its neighbours: the bridge takes a snapshot as usable or not, with
  voltages or without, and the age that `Collection` bounds; `ServicePaths` takes the
  snapshot the bridge has chosen.
* `Shutdown` takes the worker's job and its queue as given: `PollWorker` has them, with
  `close()` as one step.
* Of version preparation: the local and the dry run, which write nothing remote;
  `--bump`, which names a version; ambiguous or forged answers of GitHub, which end a
  run without effect.
* Of planner, packaging and receipts: lexers, editors and readers of the file and
  archive formats, wheels, path confinement. They are functions of one file and
  reduced to the version they set or find.
* Of the pipeline: final builds (the policy is promote-bytes), the path of
  `release_control.candidate` from before version plans, runs whose publication is
  switched off by a repository variable, and the checks of bytes,
  identities, ancestry and reviewers, which depend on nothing another run changes;
  where such a check fails the run fails, which `Fail` allows at every step.
  GitHub replaces a waiting run of the concurrency group by a newer one; in the
  model it waits for ever, which no safety property tells apart.
* HTTP, MQTT and D-Bus transports, floating-point formatting, logging, the
  heartbeat: no property is about them.
* `scripts/release.py`: it dispatches the workflow (`Dispatch` of `ReleasePipeline`), or
  calls the scripts modelled in `VersionBuild`, and keeps nothing itself.
* Metadata writers of other kinds of product; configuration, which is constants.

## 7. Plan

Done, in this order: poll worker, telemetry, MQTT client, Home Assistant client,
control paths, release pipeline, device installation, grid voltages with the
collection, D-Bus paths, shutdown of the MQTT client, version preparation, version
build.

Next: final builds and the rebuild policy of `release_control.py`; service
registration.

Proofs: the safety of what those modules add, and a named lemma for each fact about
sequences of commits that `VersioningProofs` and `ReleasePipelineProofs` now derive in place.

The number of runs is kept at twelve: a new module is composed with a neighbour
whose run it can take over, as `Collection`, `ServicePaths` and `Shutdown` did.
