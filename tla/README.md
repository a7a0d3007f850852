# A verification of the Vast.ai render app's core

The application (`src/src/main`, TypeScript, one Electron main process) rents GPU nodes from
Vast.ai, splits a Blender job's frames into *chunks*, sends chunks to the nodes, downloads the
frames as they are rendered and gives the nodes back. A Python agent (`src/remote/agent`) runs
on each node; the app and the agent share only files on the node, read and written over SSH.

This directory holds TLA+ models of the parts of that program whose correctness depends on the
order of events, TLC configurations that check them on small instances, and TLAPS proofs of the
properties that matter most for every value of the constants.

## The system

| Part | State it keeps | Operations | Interacts with |
|---|---|---|---|
| Scheduler (`scheduler/scheduler.ts`) | rows: chunks, frames, job state, hold; memory: `runs` (by chunk), `byNode`, one `ChunkRun` per dispatch, the breaker | `kick`/`tick`, `dispatch`, `pollUntilDone`, `finish`, `onChunkFinished`, `requeueOrFail`, `requeue`, `failJob`, `holdJob`, `cancelJob`, `resumeJob`, `forgetNode`, `recoverAtStart` | node manager, downloader, agent's files, the user |
| Job rows (`jobs/jobs.ts`, `jobs/revive.ts`) | jobs, chunks, frames | `createJob`, `refreshJobState`, `reviveFailedChunks` | scheduler |
| Retry policy (`scheduler/admission.ts`, `errors.ts`) | none, and the breaker's counts | `budgetFor`, `chargeFor`, `JobBreaker` | scheduler |
| Lanes and slots (`scheduler/gpuLanes.ts`, `admission.ts`, `slotController.ts`) | lane guards and ceilings per node, the reservation, learned slots | `reserveForExclusive`, `pickChunk`, `admits`, `guardLanes`, the hill-climber | tick, agent's `plan_launches` |
| Scaling (`scheduler/scaling.ts`) | plans, holds on renting | `planScaling` | tick, node manager |
| Fleet (`nodes/nodeManager.ts`) | node rows (state, instance id, `destroyed_at`, `create_unknown_since`), blacklist, account hold, in-flight creates, lookups and destroys | `requestNodes`, `rentOffer`, `findLostCreate`, `driveToReady`, `resumeNode`, `ensureInstanceGone`, `retryDestroys`, `reconcileOrphans`, `destroyNode`, the supervisor's probes and `recoverUnreachable` | Vast.ai, scheduler |
| Node preparation (`nodes/provisioner.ts`, `provision.sh`) | single flights per node, locks on the node | Blender, add-ons, agent restart | dispatch, supervisor |
| Render agent (`noderunner.py`) | inbox, state files, manifest, lanes, lease | scan, launch, render, `write_state`, `retire_spec` | app, through files |
| Frame downloader (`transfer/frameDownloader.ts`, `ssh/sftp.ts`) | queue, transfers and retries per attempt; one pause and one writer per file for all | `poll`, `pump`, `download`, `failed`, `sinkRefused`, `drain`, `settleViewFrames`, `stop`, `probeSink` | run, disk, node |
| Octane licensing (`octane/octaneLicense.ts`) | sign-in state per node | set-up, sign-in wait, release | dispatch, destroy |
| Quit and recovery (`app/lifecycle.ts`, `app/recovery.ts`) | the quit's phase, the pass under way, the armed signal, cancels in flight | `before-quit`, session end, signals, `destroyFleet`, `settleNode`, `watchCampaign`, re-render, reprovision | fleet, the user, the operating system |

Everything else (the renderer, IPC, the local API, settings, metrics, the HTTP client, the
Blender-side scripts) holds no state that a decision above depends on; `PROJECT.json` lists
each part and why it is left out.

### What is hard

* **Interleaving.** A run is a chain of awaits; between any two of them the job may be
  cancelled, the node lost, the chunk re-split and dispatched again. The run that comes back
  must notice, and must not clean up after its successor.
* **Partial success.** Frames land while the attempt that renders them is failing, so every
  requeue, restart and re-render re-splits a chunk around what is already here.
* **Crashes.** Each statement commits on its own; the process may end between two of them.
* **Late answers.** A download pass outlives its run; an agent outlives its attempt; a create's
  reply is lost and its instance is not.
* **Budgets.** Two retry budgets, inherited by the parts of a split chunk, and failures charged
  to neither bound how often a job is tried.

### What makes each part correct

* *Ledger*: no frame lost or queued twice; a chunk complete only with its frames on disk; one
  live run per chunk, found by a cancel and by a lost node; a verdict that is true; retries
  bounded and never forgotten.
* *Fleet*: every instance that may bill is held by a row that counts it, whatever reply was
  lost, and is destroyed or listed; no step brings a destroyed node back.
* *Spec hand-off*: the app never takes one attempt's word for another's; no kill meant for an
  attempt hits its successor.
* *Downloader*: a frame is marked only when its file is whole; every frame the agent listed is
  fetched, or reported as given up on or held back; a drain ends; the folder is left clean.
* *Lanes*: no card holds more scenes than its plan; a tick leaves no work a node would take; the
  first in line is not starved; memory pressure takes no more lanes than it must.
* *Quit*: nothing is left billing that nobody was asked about; the exit status is true; a stop
  nobody watches ends.

## The modules

| Module | Models | State and actions |
|---|---|---|
| `FrameRanges` | `scheduler/chunker.ts` | `MissingRuns` is `missingRanges`, as a definition rather than a loop; `FirstRun` keeps the chunk's id and `LaterRuns` become chunks of their own |
| `ChunkLedger` | the rows of one job and the runs that change them | see below |
| `FrameDelivery` | the promise to the user: frames delivered, and the verdict | abstract; `ChunkLedger!Delivery` maps onto it |
| `MCChunkLedger` | the ledger for TLC | symmetry only |
| `NodeRental` | the node rows, the steps that hold them, and Vast's instances | see below |
| `FleetBilling` | the promise about money: nothing bills uncounted, or past the cap | abstract; `NodeRental!Fleet` maps onto it |
| `MCNodeRental` | the rental for TLC | symmetry only |
| `SpecHandoff` | one chunk on one node: the app's attempts at it and the agent that renders it | see below |
| `HandoffSlips` | which of its steps go against what the code counts on | a history variable on `SpecHandoff`; restricts no step |
| `FrameTransfer` | the downloaders of one chunk, the job folder and the rows they share | see below |
| `AppLifecycle` | every way the process is stopped while nodes bill | see below |
| `GpuLanes` | which chunk the tick sends to which node, on how many lanes, and what the agent starts | see below |
| `MCFrameTransfer`, `MCAppLifecycle`, `MCGpuLanes` | the chunks, fleets and queues TLC is given | constants and symmetry only |
| `ChunkLedger_proofs`, `ChunkLedgerFrames_proofs`, `ChunkLedgerRuns_proofs` (each on top of the one before), `NodeRental_proofs`, `SpecHandoff_proofs`, `FrameTransfer_proofs`, `AppLifecycle_proofs`, `GpuLanes_proofs` | theorems | |

### ChunkLedger

| TLA+ | Code |
|---|---|
| `chunk` | `chunks` rows: state, range, `retries`, `infra_retries`; a chunk is named by the frame it was created to start at |
| `downloaded` | `frames.state = 'downloaded'` |
| `jobState`, `hold` | `jobs.state`, `jobs.attention` |
| `run[r]` | one `ChunkRun` object, with the await its `dispatch()` is in as `phase`, and `stopped` |
| `owner`, `byNode` | `Scheduler.runs`, `Scheduler.byNode` |
| `breaker` | `Scheduler.breaker` |
| `Dispatch` | `tick()` with `settleDownloadedPending`, up to `dispatch()`'s first await |
| `PrepDone`, `NothingLeft`, `SpecSent`, `SeesEncoding`, `SeesDone`, `SeesFailure` | `dispatch` and `pollUntilDone`, await by await |
| `FrameLands`, `GivesUp`, `Marks` | `ChunkDownloader.download`, `drain`, `settleViewFrames` |
| `DispatchFails`, `PollFails`, `DrainFails`, `DrainCompletes` | the ends of an attempt: `finish`, `onChunkFinished`, `requeueOrFail`, `requeue`, `resplitAroundDownloaded`, `failJob`, `holdJob`, `holdForSignIn` in one action each, as they run with no await between |
| `StoppedReturns` | a run that was aborted comes back from its await |
| `NodeGone` | `forgetNode` |
| `Cancel`, `Resume`, `RetryMissing` | `cancelJob`, `resumeJob` and `releaseSignInHolds`, `job:retryMissing` |
| `Crash`, `CrashSettling`, `Restart` | the process ends between handlers, or inside `finish` after its first write; `recoverAtStart` |

Abstractions, each wider than the code unless said otherwise: which node gets which chunk is
arbitrary; what the agent answers at a poll is arbitrary; a failure's kind is an input
(`Failures`), as `errors.ts` classifies text that is not modelled; the tick may come at any
time; a render failure by a machine's rule a second time counts as kind `"job"`, as
`chargeFor` charges it. Several awaits of node preparation are one. One job is modelled: chunks
of different jobs share nothing but nodes, and node choice is arbitrary. `reviveFailedChunks`
also queues frames no chunk covers; there are none, by `EachFrameHasOneChunk`, so that branch is
left out.

With `MultiView` the job saves one file per view, and frames are marked only at the end of a
download pass (`settleViewFrames`); otherwise each is marked as it lands.

### NodeRental

| TLA+ | Code |
|---|---|
| `row[n]` | the `nodes` row: `state`, `instance_id` set, `create_unknown_since` set, `destroyed_at` (null, within `RECONCILE_MIN_AGE_MS`, older) |
| `vast[n]` | Vast's side of the row's create: undecided, refused, an instance younger or older than `RECONCILE_MIN_AGE_MS`, gone |
| `creating`, `unknownAtBoot`, `goneAt`, `provisioned` | the sets of that name; `look` is `lookingUp` with where `findLostCreate` is |
| `step[n]` | the async function that holds the node, at the await it is in, with its `held`: `polling`, `booting` (`driveToReady`), `asking`, `resuming` (`resumeNode`), `recovering`, `restoring`, `reprovisioning` |
| `check[n]`, `retrying` | `goneChecks`: DELETE sent, or accepted and being confirmed; `retryDestroys` |
| `pass` | `reconcileOrphans`, at its awaits |
| `ssh` | the nodes whose `ManagedNode.ssh` is set |
| `Rent`, `CreateAnswered`, `CreateRefused`, `CreateUnanswered` | `rentBatch` from its last cap check, `rentOffer`, `createFailed`, `createUnanswered` |
| `Lookup...` | `findLostCreate`, `adoptLostCreate`, `noLostCreate` |
| `DeleteAccepted` ... `CheckGivesUp`, `RetryDestroys`, `DestroyNode`, `ClearFailed` | `destroyUntilGone`, `instanceGone`, `destroyUnconfirmed`, `retryDestroys`, `destroyNode`, `clearFailed` |
| `Boot...`, `Resume...`, `NodeSilent`, `AgentStale`, `Recover...`, `BackInService`, `Reprovision...` | the lifecycle steps; `StepAbandons` is `movedOn` |
| `PassAsks` ... `PassEnds` | `reconcileOrphans`, `claim`, `settleUnknownCreates` |
| `Restart` | the process ends at any moment and `init` reads the rows |

A row's create is sent once, so a row and its instance share a name; a row that holds another
row's instance, or two rows that hold one, cannot arise. Instances of other installs and rows
from builds that stamped `destroyed_at` on trust are left out, and with them
`destroyUnclaimed`. What Vast answers about a node (running, stopped, gone, silence) is
arbitrary where the code acts on it without a DELETE; after a DELETE it accepted, `showInstance`
finding nothing is taken as true, as the code takes it. A second caller that joins a destroy is
one check: the check of its own it may get afterwards is one `RetryDestroys` or `DestroyNode`
starts. The Octane stop before a DELETE is part of it. Rounds of `retryDestroys` visit one node
at a time, in any order.

`LateCreates` is the one assumption about Vast with a switch. The code settles an unanswered
create as "nothing rented" on a list asked for a minute after the lookup began, and at a start
takes every create of the last run to have been answered. FALSE makes both true, and
`BillingIsCounted` rests on it; TRUE lets Vast carry a create out at any time, and then what
holds is `StraysAreFound`.

### SpecHandoff

The spec file, the state file and the kills are named after the chunk, not after the attempt, so
an attempt meets what the one before left. The model numbers the attempts, marks what each one
writes, and the properties say whose is whose; the program has no such mark.

| TLA+ | Code |
|---|---|
| `run[a]` | the `ChunkRun` of attempt `a`: the await it is in, `stopped`, `queueing`, what its last read saw (`saw`, and by whom it was written), what `checkMissingState` learned (`queued`, `alive`), what it does after a retract or a drain (`then`) |
| `owner`, `row` | `Scheduler.runs` and the chunk's row, as far as this node's attempts change them |
| `cleaning`, `armed` | the nodes `cancelJob` has yet to clean up; the timers of `stopRelaunch` |
| `service`, `fit` | may the node be sent work: `provisioning` while its agent is restarted; `agentChecks` and `agentDown` |
| `inbox`, `file` | `jobs/inbox/<chunk>.json`, `state/<chunk>.json` |
| `thread` | `process()`: the spec it opened, whether an EEVEE Blender that dies now is relaunched, whether it hangs, whether a heartbeat is about to write |
| `orphan` | a Blender that outlived its agent |
| `lane` | the agent's lanes: free, held by a render this app watches, or by something it does not know of |
| `Dispatch` ... `Started` | `tick`, `dispatch` |
| `Read`, `Act`, `ActChecked`, `PollStops`, `Drained` | `pollUntilDone`, `noState`, `checkMissingState`, `checkUnclaimed`, `finish` |
| `Retract`, `KillAgain`, `Cancel`, `CancelCleans`, `Revive` | `retractSpec`, `stopRelaunch`, `cancelJob`, `retryMissing` |
| `Hold`, `ReviveAgent`, `ForgetRestarted`, `Reprovision`, `Reprovisioned` | `restoreAgent`, `reviveAgent`, `reprovisionNode`; `Restart` is `restart-agent` |
| `Claim` ... `Retire`, `Beat`, `LateBeat` | `main`, `process`, `run_render`, `run_encode`, `record_failure`, `retire_spec`, the heartbeat |
| `AgentDies`, `OrphanEnds`, `Hang`, `BlenderEnds` | the environment |

Time is not counted. A bound of the code (three minutes without a state, fifteen without a change
of it, a render too long without progress) may be over at any moment at which what it waits for
has not come; `Busy` says when the agent is about to write, and then no bound of minutes passes
first. Four constants say which of the code's other timing assumptions hold. FALSE is the timing
the code counts on; TRUE lets the slip happen:

* `Overlap`: an abandoned attempt still waits for an answer when the chunk is sent to the node
  again. (Its awaits have deadlines of half a minute and more, and the next tick is seconds away.)
* `SlowAgent`: the agent is between two steps of an earlier render when the next attempt clears
  the state, or writes that render's verdict before the next spec is in place.
* `LaunchGap`: a kill comes after the agent opened a spec and before its Blender runs.
* `LateForget`: a spec lands between a restart's emptying of the inbox and the app's forgetting
  of the node's runs.

Three more are guards, with no switch: the second kill comes after the agent's pause between a
Blender's exit and its relaunch (`KillAgain`, what `AGENT_RELAUNCH_MS` is for); a heartbeat that
saw its Blender alive has written by the time the spec is retired (`Retire`); a check of the inbox
and the heartbeat is one look (`Act`), one that is not answered being asked again. Failures of a request happen within
`MaxFaults`, a loss of a command on its way among them: a withdrawal that never reaches the node is repeated
once (the second kill) and then by nobody.

`KillsSpareSuccessors` needs `Overlap` at FALSE; `RenderedOnce`, `VerdictStands` and `RunsEnd` need
nothing. Whether a render nobody watches is stopped depends on what went before, so `HandoffSlips` keeps a
history: `slipped` is set by a step the code has no answer for, and cleared by one that makes the
node good again. It restricts nothing, so every behaviour of `SpecHandoff` is one of its own. There are six
such steps: the chunk is sent again while an abandoned attempt still waits (`Overlaps`); a withdrawal, a
second kill or a clearing never arrives (`LosesCommand`); the state is cleared under a thread about to
write it, or an older render's verdict lands after the clearing (`ClearsTooSoon`, `VerdictTooLate`: the two
halves of `SlowAgent`); a kill finds a spec taken and no Blender yet (`KillsTooSoon`); a spec lands on an
agent just restarted (`LandsTooLate`). `OnlySlipsLeaveUnwatched` says that a render nobody watches and nobody
is on the way to stop takes one of them; `UnwatchedEnds` that a render nobody watches ends, or there was
one. A restart of the agent, and a withdrawal of the last attempt that arrives in time, make the node
good (`MakesGood`), so that one slip does not excuse what comes after. All other failures (prep, a spec whose
write is answered with an error before or after it landed, a read, the agent's own writes, its death) are no
slips: the code has an answer. Every one of the six is needed: without any one of them in `Slip`, TLC finds
`OnlySlipsLeaveUnwatched` violated (run by hand, six times). What a slip
costs, as TLC shows when one constant is set to TRUE:

* `Overlap`: a clean-up that hits the next attempt (`HandoffRevive.cfg`). With a lane that is let go of
  late (`Lanes = {"ours"}`) also an unwatched render: the clean-up takes away the spec of an
  attempt that has just seen no state and is about to look for it; that attempt then ends without a
  kill of its own, having kept the second kill from its render while it lasted.
* `LateForget`: a render with nobody to collect it (`HandoffForget.cfg`).
* `LaunchGap`: the first kill finds no Blender, the second one is then the first to hit it, the
  agent takes that for a failed EEVEE start and relaunches it, and no third kill follows: the
  render goes on unwatched.
* `SlowAgent`: an attempt reads its predecessor's failure, ends on it without withdrawing its own
  spec, and leaves that to be rendered unwatched.

With all four at FALSE one thing remains that the code does not keep apart: a killed EEVEE render
that was relaunched writes the state file the next attempt reads, which takes its state and
verdict for its own, though dispatch clears the file first so that "the stall watchdog must only
ever see state written by the attempt it is polling" (scheduler.ts:1208-1209).

Left out: chunk ranges and retries (`ChunkLedger`), the destruction of the node (`NodeRental`),
the downloads, the other chunks but for `lane`, and a link that is lost and found again.

### FrameTransfer

| TLA+ | Code |
|---|---|
| `d[r]` | the `ChunkDownloader` of attempt `r`: `seen`, `queue`, `active`, `retrying`, `asking` (a file the disk refused, before the disk has answered), `attempts`, `lost`, `blocked`, the views listed, and where its `drain()` is |
| `trouble`, `disk` | `sinkTrouble`; whether the disk takes files |
| `file`, `part` | the file in place, and the partial named for a content (`partPathFor`): none, a prefix, whole |
| `turns[e]` | `writers` (`oneWriterAt`): who is at work on a path, and who waits, fetching or removing |
| `rows`, `clips` | `frames.state = 'downloaded'`, and by whom; the clips' `assets` rows |
| `node[r]` | what the attempt's node lists and what it has unlinked |
| `PollReads`, `PollAnswers`, `FinalReadStarts`, `FinalAnswers`, `FinalReadFails` | `poll()` and the final pass's read, each at both ends of its await |
| `Pumped` | `pump()`, inside whichever handler calls it |
| `Fetch`, `Land`, `Abort`, `FailTransient`, `FailGone`, `FailSink`, `SinkAnswers`, `RetryFires`, `Discard` | `pipelinedGet`, `download`, `failed`, `sinkRefused`, `retryOrGiveUp`, `discardPartial` |
| `Look`, `Wakes`, `DrainReturns` | the loop of `drain()` and its end with `settleViewFrames` |
| `Stop`, `Probe` | `stop()`; `probeSink`, and the user's recheck, which comes to the same |

Bytes are whole or not, and right or not; a bad one fails its check. The order in the queue is kept
between previews and frames and left open inside a class. A manifest is re-read whole, so an entry is
named by what it is. No chunk of the run lists a thumbnail: it is a preview like a live clip, with
no row to write. Time is the number of looks `drain()` takes. Each chunk of `MCFrameTransfer` brings
its own limits: two attempts stand for four, one look of idling for three minutes.

`StoppedWritesNothing` allows what `stopped_marks` shows on the ledger: the pass that gave up, and
that its run is stopped meanwhile. Such a pass may mark a frame saved in views after the next attempt
has overwritten one of them; so `RowIsTheFile` speaks of frames saved in views only where the chunk is
sent once, and of frames saved as one file always.
`FolderIsClean` excepts files gone from the node, which is where the code does not keep its
word (`TransferPartial.cfg`, below).

Fairness: a read has a deadline (`FinalAnswers` or `FinalReadFails`); `drain()` looks every
250 ms (`Look`) and its wait for its transfers has a limit (`DrainReturns`). A pause that begins is
seen by a look before the probe, 30 s later, can end it: hence strong fairness of `Look` while the
disk is refused, without which a disk that turns between looks would never be seen refusing. Nothing
is assumed of the node, the network or the disk.

### AppLifecycle

| TLA+ | Code |
|---|---|
| `phase`, `dialog` | `phase`; the box `ask` waits on, which a session end does not close |
| `stop` | the `destroyAndQuit` or `stopUnattended` under way: passes made and allowed, its exit status, the await it is in |
| `settle[n]` | `settleNode` in this pass: its stagger, the wait for its create, its destroy |
| `halted` | `stopScheduling` |
| `signals`, `sent` | `armedBy`, and whether `SECOND_SIGNAL_MS` have passed; signals really sent, and their second deliveries |
| `node[n]` | what `holdsInstance` and `createMayStillAnswer` read of a node, and instances no row names |
| `Quit`, `AnswerQuit`, `AnswerFailure` | `before-quit`, `askAndQuit`, `destroyAndQuit` |
| `Round`, `Turn`, `CreateWaited`, `BudgetEnds`, `LastLook`, `NextPass` | `destroyFleet`, `settleNode`, `stopUnattended` |
| `SessionQuery`, `SessionEnds`, `Signal`, `SecondDelivery`, `Hangup`, `Elapse`, `CampaignCheck`, `CampaignRefused` | the handlers of those events |

The fleet is what `FleetPort` shows of it: each handler of `NodeRental` that changes whether a
node may bill is one step here, and may come at any time, the reconcile's taking in of a stray
instance included. `told` records the answers to leave nodes billing that were given while they
were the user's to give: the property reads it, not the code. Staggers, the hurry of a closing console
and the order of the destroys are timing alone and are left out, as are the notices of sleep and the
operating system ending the process itself.

Fairness: staggers, budgets and pauses are timers. Nothing is assumed of Vast: `UnattendedEnds`
holds though no destroy is ever confirmed.

### GpuLanes

| TLA+ | Code |
|---|---|
| `run[c]` | the chunk's run: its node, the lane plan it was sent with, how far it is, as the app and as the agent know it, and its card |
| `inbox[n]` | the specs waiting, by arrival |
| `guard`, `ceiling` | `laneGuards`, `laneCeilings` |
| `reservation` | `reservation` |
| `failedOn`, `resting` | the nodes a chunk avoids; `rests` |
| `Tick` | `tick()` from its guards to its last pass: `runSlotController` for exclusive work, `reserveForExclusive`, the round-robin with `hasRoom`, `pickChunk`, `admits`, `anotherTakes` and `exclusiveDispatchPlan` |
| `SpecLands`, `DispatchFails`, `RestEnds` | `dispatch`, and the rest a node gets after a failure |
| `Launch`, `PickGpu`, `LaneCap` | `main`'s launches: `plan_launches`, `pick_gpu`, `lane_cap`, `pin_plan` |
| `RenderEnds`, `OutOfMemory`, `ReadsEnded`, `ReadsOom`, `ReadsPinFailed`, `Finish` | a render's ends and what the poll makes of them |

The tick is one action, as it runs with no await between its reads and its sends; its passes are a
recursive function of the state (`Outcome`), at whose end `TickSendsAll` looks. Memory is what the
renders under way use, in percent, so a guard sees at once what it did; what it may not count on
is that the renders beyond its limit are gone, and they are not. Of time one thing is kept: whether
`SETTLE_MS` have passed since a step down. Blender affinity between chunks of one job, the slot
controller's climb (`SlotTarget` is what it has settled on), the back-off of transient failures and
the lease are left out. An out-of-memory is external, and comes only when a card is over-full.

`lanes_queue` has shared chunks without end (`Another`: a finished one is submitted again), which is
what would starve the exclusive one; `lanes_memory` has scenes of which two do not fit on a card, so
that the guard steps down, comes back and steps down again.

Fairness: the tick comes every 15 s and on every change, the agent's loop launches, a preparation
ends, a render ends, the poll reads. A failed dispatch need not happen.

## What is checked

| Run | Specification and bounds | Properties | Shows |
|---|---|---|---|
| `ledger_torn` (`LedgerTorn.cfg`) | `TornSpec`; NumFrames = 3, ChunkSize = 3, Node = {n1, n2}, Run = {r1, r2}, MaxRetries = 0, MaxInfraRetries = 1, Failures = {"machine"}, MultiView = FALSE | `CompleteIsDelivered`, `EachFrameHasOneChunk`, `OneLiveRunPerChunk`, `CancelledIsQuiet`, `FrameBudgetKept` | The rows and the runs stay consistent through lost nodes, failures, cancels, re-renders and crashes, those inside a settling handler included. |
| `ledger_policy` (`LedgerPolicy.cfg`) | `Spec`; NumFrames = 2, ChunkSize = 1, Node = {n1}, Run = {r1, r2}, MaxRetries = 1, MaxInfraRetries = 1, Failures = {"job", "sink", "signIn", "fatal"}, MultiView = FALSE | `JobStateIsFresh`, `FailedOnlyWhenSpent`, `DeliveryKept` | Two chunks under every kind of charge (render, none, hold, fatal): the verdict is the one the chunks give, a chunk fails only with a budget spent, and the ledger implements FrameDelivery. |
| `ledger_work` (`LedgerWork.cfg`) | `WorkSpec`; NumFrames = 2, ChunkSize = 2, Node = {n1, n2}, Run = {r1, r2}, MaxRetries = 1, MaxInfraRetries = 1, Failures = {"job", "setup", "localRead", "signIn", "fatal"}, MultiView = TRUE | `JobEnds`, `LandedChunksSettle` | With nodes coming and going and nobody else interfering, a job of several views per frame, every failure charged or held, ends or waits for the user; frames a stopped run marks late complete their chunk, on a held job too. |
| `stopped_marks` (`LedgerOwner.cfg`) | `Spec`; NumFrames = 2, ChunkSize = 2, Node = {n1}, Run = {r1, r2}, MaxRetries = 1, MaxInfraRetries = 1, Failures = {"machine"}, MultiView = TRUE | `OnlyOwnerMarks` (violated) | A download pass that gave up before its run was stopped marks frames after the chunk was requeued. |
| `rental_fleet` (`RentalFleet.cfg`) | `Spec`; Node = {n1, n2}, MaxActiveNodes = 1, MaxRestarts = 1, LateCreates = FALSE | `BillingIsCounted`, `NobodyLeftBehind`, `DestroyedStays`, `FleetIsCounted` | Two rows under a cap of one, with a restart: every reply lost or late, destroys that do not take, lifecycle steps inside awaits and the reconcile, against each other. |
| `rental_live` (`RentalLive.cfg`) | `LiveSpec`; Node = {n1}, MaxActiveNodes = 1, MaxRestarts = 2, LateCreates = TRUE | `CreatesSettle`, `StraysAreFound` | One row, two restarts, and a Vast that may carry a create out after the app has ruled it out: no create stays of unknown outcome, what the app wants gone goes, and an instance nobody counted is found by its label and destroyed, as long as Vast answers at last. |
| `handoff_safe` (`HandoffSafe.cfg`) | `FairSlipSpec`; MaxAttempts = 2, MaxCancels = 1, MaxCrashes = 1, MaxReprovisions = 1, MaxFaults = 0, Overlap = FALSE, SlowAgent = TRUE, LaunchGap = TRUE, LateForget = TRUE, Lanes = {"free"} | `KillsSpareSuccessors`, `UnwatchedEnds` | Two attempts with a cancel, a death of the agent and a reprovision, three of the four slips of timing allowed: a render nobody watches ends though its Blender hangs, is relaunched or outlives its agent, unless something slipped; no clean-up hits a later attempt. |
| `handoff_slips` (`HandoffSlips.cfg`) | `FairSlipSpec`; MaxAttempts = 2, MaxCancels = 0, MaxCrashes = 1, MaxReprovisions = 0, MaxFaults = 1, Overlap = TRUE, SlowAgent = TRUE, LaunchGap = TRUE, LateForget = TRUE, Lanes = {"ours", "unwatched"} | `OnlySlipsLeaveUnwatched`, `RunsEnd`, `RenderedOnce`, `VerdictStands` | Two attempts in the worst timing and with one failure (a command lost, a write answered with an error before or after it landed): a render nobody watches has somebody on the way to stop it unless one of six slips came since the node was last made good; every attempt ends (its lane held for good by something unknown, its agent dead, its spec gone, its Blender hung), no spec is rendered twice and no verdict is taken back. |
| `transfer_folder` (`TransferFolder.cfg`) | `LiveSpec`; Step = 1, MaxTransfers = 2, FinalReads = 1, LiveKept = 2 | `TypeOK`, `CleanPassHasAll`, `RowIsTheFile`, `NoSlotIdles`, `DefinitiveRetiresLive`, `FolderIsClean`, `StoppedWritesNothing`, `DrainEnds` | Five chunks (a frame two attempts transfer at once, a frame in two views, a file the disk alone refuses beside a line the parser does, a live and a definitive clip, a drain with limits to run down) against stalls, bad bytes, files gone from the node, a disk that fills and clears, and stops at any point: what is reported landed has landed and is the right attempt's, no slot idles, the folder is left clean, and every drain ends. |
| `quit` (`Quit.cfg`) | `LiveSpec`; Attempts = 2, MaxRounds = 3, MaxPresses = 2 | `ExitCodeIsTrue`, `NothingLeftUnasked`, `NoneComesUpBehind`, `UnattendedEnds` | A fleet of two in any mixture of states, in a person's app and in a headless run of either policy, under every interleaving of quit, dialogs, session end, signals (delivered once or twice), hangup, campaign end and the fleet's own changes: the exit status is true, nothing is left billing that nobody was asked about, nothing comes up behind a pass, and an unattended stop ends. |
| `lanes_queue` (`LanesQueue.cfg`) | `LiveSpec`; Gpus = 2, SlotsPerGpu = 1, Cap = 4, SlotTarget = 2, Prefetch = 2, MaxFails = 1 | `CardsAreNotShared`, `TickSendsAll`, `HeadIsSent` | Two nodes (one whose agent sees a card less than its offer), an Octane chunk only one may take, an exclusive chunk and two streams of shared work without end, with failed dispatches: no tick leaves work a node would take, no card is shared beyond the plan, and the first in line is not starved. |
| `lanes_memory` (`LanesMemory.cfg`) | `Spec`; Gpus = 2, SlotsPerGpu = 2, Cap = 4, SlotTarget = 1, Prefetch = 2, MaxFails = 1 | `TypeOK`, `SentExclusiveStarts`, `NotWalkedDown` | Four exclusive chunks without end on one node of two cards, two scenes a card, each scene taking half a card and more: the guard steps down and recovers while renders sent under the old plan go on, the agent starts every spec as it comes, and the guard goes no lower than the scenes need. |

Bounds. Three frames in one chunk give every shape a re-split can have (first, middle, last,
two separate runs); two chunks are enough for a verdict to depend on more than one; two nodes
and two run slots give a stopped run that is still in an await beside its successor, which is
what every interleaving hazard needs; budgets of 0, 1 and 2 give a failure with a retry left,
one without, and a part that inherits a spent one. The state spaces are finite without any
further bound: a run slot is reused once its run has returned.

Two rows with a cap of one give a node to rent beside one that may still bill, and a reconcile
with more than one orphan; a restart gives rows left in every state; two restarts in the
liveness run give a recovery that is itself cut short. `MaxRestarts` is the only counter.

Two attempts give each hazard of the hand-off its successor; one cancel, one death of the agent,
one reprovision and one failed request give each kind of end, and all but the last their
combinations in `handoff_safe`; the failures meet a death of the agent in `handoff_slips`. All of them
together, with every slip, were run once by hand (9.0 million states, four minutes): `OnlySlipsLeaveUnwatched`
and the theorem's `SlipInv` hold. What is bounded is the number of such events, by
`MaxAttempts`, `MaxCancels`, `MaxCrashes`, `MaxReprovisions` and `MaxFaults`.

Five small chunks, checked as one run, give the downloader each meeting it has with itself: two
attempts of different content on one file; two views, either of which may be lost; a refusal that is
one file's own against one that is the disk's; the two orders of a live and a definitive clip; both
clocks of a drain, with a sleep. Two nodes give a quit a node in each of two rounds, in every
pair of states a quit may find (`AnyFleet`); `MaxRounds` is 3 for the code's 5, one more than there
are nodes; two passes for its 3 (`Attempts`) give one that is not the last; `MaxPresses` gives a person who presses
twice, on top of any second delivery. Two cards are the fewest that can be pinned, two scenes a card
the most the setting allows; four chunks fill four lanes, and are more than the lower plans
hold. `MaxFails` bounds failed dispatches and out-of-memory ends.

Every module's type invariant is a theorem; those of `FrameTransfer` and `GpuLanes` are run as well.

`CHECK_DEADLOCK FALSE` is set where the system may stop: a job that has ended leaves
nothing to do, attempts are bounded, an app that has quit is gone. The rental never stops: the
reconcile comes round.

Fairness (`WorkSpec`, liveness runs only). Every await of a run ends: SSH commands and
transfers have timeouts, the poll loop has a stall watchdog and a hung-render limit, the drain
has its own. Hence weak fairness per run. The tick comes on a timer and after every change
(`kick`), and a node that is up is offered work at each: strong fairness of `Sends`, since a
node may go away between two ticks, and weak fairness of `TickSettles`. The supervisor brings
nodes back: weak fairness of `NodeUsable`. Nothing says frames ever land, and nothing says a
node stays.

`LiveSpec` (rental): every request ends (the HTTP client times it out), the lookup and the
reconcile are loops on timers, hence weak fairness of their steps; the retry timer's rounds come
to every node, but one at a time, hence strong fairness of `RetryDestroys`. Of Vast: it decides
every create (weak), and if asked often enough it answers a list, carries out a DELETE and
confirms it (strong). Without that no app could promise an end. Nothing is assumed of the nodes
or of the user.

`FairSpec` (hand-off): every request of the app is answered or times out, its timers fire, the
supervisor's probes come round, and the agent's loop, threads and heartbeats run, hence weak
fairness of each. A Blender ends or hangs. A lane held by a render this app watches is let go, by
that run's own bounds; one held by anything else need never be. Nothing says a command arrives.

## What is proved

### The ledger

For any number of frames, nodes and run slots, any chunk size and budgets, and any kinds of
failure; under `TornSpec` (crashes inside handlers included), but for `JobStateFresh`,
`FailedSpent` and `DeliveryRefined`, which are of `Spec` (a crash inside `finish` breaks the second,
`LedgerTornFails.cfg`), the last for a job of one file per frame (`~MultiView`):

* `ChunkLedger_proofs!TypeCorrect`: The rows, the runs and both registers keep their shape for any number of frames, nodes and runs; no re-split charges past a budget.
* `ChunkLedger_proofs!CompleteDelivered` (`CompleteIsDelivered`): No chunk reads complete with a frame of its range missing, crashes inside settling handlers included.
* `ChunkLedgerFrames_proofs!FramesDivided` (`EachFrameHasOneChunk`): Through every re-split, restart and revive, a frame still to come is in the range of exactly one chunk: none is lost, none queued twice.
* `ChunkLedgerFrames_proofs!NewIdsAreFree`: A re-split inserts no chunk under an id in use, so the row's PRIMARY KEY never refuses it.
* `ChunkLedger_proofs!RunsAreDisjoint`: Two runs of missing frames that share a frame are the same run: a re-split never queues a frame twice.
* `ChunkLedger_proofs!MissingIsInRun`: Every missing frame is in some run: a re-split loses none.
* `ChunkLedgerRuns_proofs!OneRunDrives` (`OneLiveRunPerChunk`): A chunk in flight has one live run, found under its chunk by a cancel and under its node by a lost node, and that run renders the range the row has; crashes inside settling handlers included.
* `ChunkLedgerRuns_proofs!CancelledStaysQuiet` (`CancelledIsQuiet`): Once a job is cancelled nothing of it is left to send and no run goes on with it, whatever dispatch, answer or recovery was under way.
* `ChunkLedgerRuns_proofs!JobStateFresh` (`JobStateIsFresh`): The job's state is always the one its chunks and frames give: no handler forgets to refresh it.
* `ChunkLedgerRuns_proofs!FailedSpent` (`FailedOnlyWhenSpent`): A chunk of a job still wanted is failed only with one of its two budgets spent, through every re-split, restart and lost node.
* `ChunkLedgerRuns_proofs!BudgetKept` (`FrameBudgetKept`): Whatever chunk a re-split puts a frame in, that chunk counts at least the attempts already spent on the frame, torn handlers included.
* `ChunkLedgerRuns_proofs!DeliveryRefined` (`DeliveryKept`): The ledger of a job of one file per frame implements FrameDelivery, step by step: no verdict before its frames, no frame lost again, and only the user's asking reopens a job, for a frame that is missing.

The assumptions are `LedgerConstants` alone. `CompleteIsDelivered` is not inductive: a node
that goes away requeues the chunks of the runs registered under it, so the proof needs that
such a run has not returned and so has a chunk (`RegisteredRunsAreBusy`, `BusyRunsHaveWork`),
and a requeue completes a chunk only when `MissingRuns` is empty, so it needs that an empty set
of runs means nothing is missing (`NoRunNothingMissing`, by well-founded choice of the first
missing frame of a run). `LedgerInv` is the conjunction of what is needed
of the rows, the runs and the rest; there is one lemma per handler.

`FramesDivided` and `NewIdsAreFree` rest on a second invariant, `FramesInv`, proved on top of
`LedgerInv`: the chunks' ranges are disjoint and whole on the frames still to come, and every
chunk is named by a frame at or before its first, with nothing missing in between. The last is
what makes it inductive: a chunk keeps its name while its front lands and its range shrinks, and
only because of it is the first frame of a later run never the name of another chunk
(`NewNamesFree`). `Split` states once what re-splitting and reviving have in common;
`SplitDivides` is the argument, and each handler is then a split (`ResplitKeeps`,
`RevivedKeeps`) or a change of states alone (`SameKeeps`).

`RunsInv`, on top of both, is about who drives a chunk: what `runs` holds is a live run, a chunk in
flight has one, a live run is registered under the node it is on, a node that is down has none, and
a cancelled job has neither rows to send nor runs. No part is inductive without the others: a lost
node requeues what `byNode` lists, so a live run missing from it would go on beside its successor.
`PolicyInv` then says that the job's state is the one `refreshJobState` would give now, and that a
failed chunk of a job still wanted has a budget spent. It fails under `TornSpec`, where a process may end
between a chunk's verdict and the job's.

`BudgetKept` needs the division of the frames: a frame put in a new row had one row before, the one
the new one inherits from (`Descends`). `DeliveryRefined` needs everything: each step's abstract
counterpart follows once the verdict a step leaves behind is known to be the one its frames give
(`VerdictMoves`), and a re-render's once every chunk that stopped short is known to miss a frame
(`StoppedMiss`).

### The rental

For any number of rows, any cap and any number of restarts, under `Spec`, from
`RentalConstants` alone; the theorems about what bills also assume `~LateCreates`, as the
properties do:

* `NodeRental_proofs!RentalTypes`: The variables keep their types under every interleaving of renting, lookups, destroys, node steps, reconciles and restarts, for any number of nodes and restarts.
* `NodeRental_proofs!NobodyIsLeftBehind` (`NobodyLeftBehind`): Every node counted against the caps has somebody at work on it, also when Vast carries a create out after the app has ruled it out.
* `NodeRental_proofs!WorkOnlyAfterSetUp`: A chunk is only sent to a node whose setup ended in this session, through resumes, recoveries and reprovisions.
* `NodeRental_proofs!BillingAlwaysCounted` (`BillingIsCounted`): When Vast decides every create before the app stops looking for it, no instance bills and no create may still make one without its row being counted.
* `NodeRental_proofs!DestroyedNodesStay` (`DestroyedStays`): No step that was in an await, restart or reconcile brings a node back that the app wants gone, and no list made before a destroy was confirmed has a row claim its instance again.
* `NodeRental_proofs!FleetImplemented` (`FleetIsCounted`): NodeRental implements FleetBilling: only a rental under the cap adds to what may bill, and a node is let drop only when it can cost nothing more.
* `NodeRental_proofs!BillingStaysWithinCap`: At any cap, with any number of nodes and restarts, no more than maxActiveNodes instances bill at a time.
* `NodeRental_proofs!OneStepHoldsANode`: No lifecycle step takes up a node another one holds, unless it hands it over.

`RentalInv` is the inductive invariant, and each part is there because another needs it.
`NobodyLeftBehind` is about who works on a node, so it needs to know what a step that holds one
may find: the state it holds it in or one the app destroys it in, and no state a supervisor or
another step takes up (`HoldersKnown`); the same part gives `SetUpBeforeWork` and
`OneStepPerNode`. A create in flight or looked for must be marked on its row and be of this
session, or the reconcile would settle it (`CreatesTracked`). `destroyed_at` is stamped only on an
instance that is gone (`RowsMatchVast`), and what a reconcile read before an await must still be
true of the instances it read about when it claims one (`PassKnows`): together they are
`DestroyedStays`. `NothingRuledOutWrongly` carries `BillingIsCounted`: a list that may settle a
create was asked for after the window, so it is right when it says the instance is not there,
and a reconcile that settles the creates of the last run has listed or claimed every instance of
theirs. All of it but that last part holds with `LateCreates` too.

An action touches one row, so `OthersKept` reduces each preservation lemma (`RentKeeps` to
`RestartKeeps`) to its own node; the effects of an action on its row are stated once
(`RowBecomes`). The refinement of `FleetBilling` needs the invariant after the step as well as
before it: a node is let drop only when `NothingRuledOutWrongly'` says it can cost nothing. The
cap then follows from the abstract steps: what bills or may yet bill is counted, and only a
rental adds to it.

### The hand-off

For any number of attempts, cancels, crashes, reprovisions and faults, any lanes, and any setting
of the four slips but where one is named, from `HandoffAssumption` alone:

* `SpecHandoff_proofs!HandoffTypes`: The app's record of its attempts, the node's files and the agent's thread keep their types through every cancel, restart, crash and lost command.
* `SpecHandoff_proofs!SuccessorsSpared` (`KillsSpareSuccessors`): Where no abandoned dispatch still waits for an answer when its chunk is sent again, no clean-up finds a spec or a render of a later attempt, for any number of attempts, cancels, crashes and faults, and with the other three slips allowed.
* `SpecHandoff_proofs!UnwatchedStops` (`OnlySlipsLeaveUnwatched`): Whenever a Blender of the chunk runs that no attempt watches, a clean-up, a second kill, a retract or a restart of the agent is to come, or one of the six slips of HandoffSlips has happened since a restart or a withdrawal last made the node good. No timing is assumed and no failure ruled out: it holds for any setting of the slips and any number of attempts, cancels, deaths of the agent, reprovisions and lost commands or answers.
* `SpecHandoff_proofs!RendersOnce` (`RenderedOnce`): The agent opens a spec once, with every slip of timing allowed.
* `SpecHandoff_proofs!VerdictsStand` (`VerdictStands`): No write of the agent takes back or changes the verdict it gave on an attempt, with every slip of timing allowed.

`RunsInv` is the app's half: a run under way and not stopped is the one the app holds for the
chunk, a cancel's clean-up is of the last attempt and keeps the chunk out of the queue
(`OwnerKnown`), and nothing on the node is of an attempt not yet sent (`NodeKnown`). None of it
needs a lost command to be noticed. Without `Overlap` at most one attempt is under way
(`OneAtATime`), so whoever retracts or cleans up is the last one sent: that is
`SuccessorsSpared`. `SpecsInv` is the node's half: a spec that was opened is in the inbox only
while its thread lives or its agent does not (`OpenedOnce`, kept by `retire_spec` and by a
restart's emptying of the inbox), and a verdict on a living thread's spec is that thread's state
(`FileKnown`), so that the only write left to it repeats the verdict. The two meet where a spec
is put in place: it must not have been opened before (`Unwritten`).

`UnwatchedStops` assumes nothing about the timing and rules out no failure: it is about `SlipSpec`, in which
every slip and every fault may happen. It says that a render left with nobody to stop it had one of the six slips
of `HandoffSlips` before it. The invariant is `SlipInv`, in two halves. `Shape` holds whatever slips: an attempt
that is over was stopped, one not yet on its way is not queueing, only a dead agent's Blender is without a
thread. `Timely` holds until something slips. The property is far from inductive, since a render loses its
watcher only after the attempt has decided to end on what it read; `Timely` is the account of everybody
who may yet stop a render (`SomeoneStops`): what the node holds is over or will not outlive an
armed second kill (`KilledTwice`); or a withdrawal or a restart is on its way; or an attempt still to act
is polling. An attempt that ends without a kill of its own needs the first of these, so the invariant
says of each what it knows (`Knows`): a verdict, a state nobody writes any more, or no state and no spec
mean that the agent renders nothing more of the chunk, whosever the state was (`Untaken` and `LastWord`, its other
two parts, say why: a spec no thread has opened has no state, and a verdict after the clearing is the
thread's last word). Each step that is no
slip keeps `Timely` (`TimelyKept`, one lemma a kind of step), and a step that makes the node good restores it from
`Shape` alone (`MadeGood`), however much has slipped: this is what makes the theorem say more than that nothing goes
wrong before the first slip. The second kill may be skipped while the chunk is
being sent again (`SecondKillStops`): whoever sends it is then one of those still to act.

### The downloader

For any chunk, any number of attempts on any contents, and any limits, from `TransferAssumption`
alone (files are of the kinds the manifest has, and finitely many; frames and limits are numbers):

* `FrameTransfer_proofs!TypesHold` (`TypeOK`): Queues, transfers, retries, partials and turns keep their types for any chunk, any number of attempts and any limits.
* `FrameTransfer_proofs!CleanPassIsTrue` (`CleanPassHasAll`): A final pass that reports nothing given up and nothing held back has landed every frame its manifest listed, through every pause, refusal, lost file and stop.
* `FrameTransfer_proofs!RowsAreFiles` (`RowIsTheFile`): A row names the attempt whose bytes are in the file, whole, whatever the transfers of other attempts on the same path do: for frames saved as one file each, or in two named views.
* `FrameTransfer_proofs!EverySlotIsUsed` (`NoSlotIdles`): No wakeup is missed: a file waits in a queue only while every slot is taken or the sink is paused.
* `FrameTransfer_proofs!DefinitiveRetires` (`DefinitiveRetiresLive`): No live clip stays listed beside a definitive one, in whichever order they land.
* `FrameTransfer_proofs!FolderEndsClean` (`FolderIsClean`): Once every downloader has let go no partial is left, but for files that vanished from their node.
* `FrameTransfer_proofs!StoppedIsSilent` (`StoppedWritesNothing`): A stopped downloader writes no row, unless its pass had given up by itself before.

`TransferInv` is inductive in four parts. `BaseInv` has the types and who may be in which set: a file
is queued, being fetched, being asked about or waiting to be retried in one place only
(`Apart`), and the turns at a path are those of the transfers that are under way (`TurnsFit`).
`AccountsInv` is a book kept per downloader: every frame read of is landed, lost, held back or
still in hand, so that a pass cannot come back clean by losing sight of one. `SlotsInv` is
`NoSlotIdles`, which every handler keeps because it pumps before it returns. `PartialsInv` names for
every partial somebody who will finish it or remove it, or a file gone from the node.

`RowIsTheFile` needs `RowsInv` on top: one attempt is at work at a time, a chunk sent again is for
frames that were missing when the attempt began, and a frame marked has no writer left. It is the one
theorem with an assumption about the job, `SavedOneWay`: frames are saved as one file each or in
at most two named views. With three views or more it is false of the code (`TransferViews.cfg`, below);
with two, a view that was never listed leaves one alone, and nothing is marked.

### The quit

For any fleet and any number of rounds, passes and presses, from `LifecycleAssumption` and
`FleetAssumption` (a fleet is found with a state for every node):

* `AppLifecycle_proofs!ExitCodeTrue` (`ExitCodeIsTrue`): A run nobody sits at exits with 3 exactly when something it knows of may be left billing, whichever of the stops that race gets to exit.
* `AppLifecycle_proofs!NothingLeft` (`NothingLeftUnasked`): For any fleet, any number of passes and any interleaving of signals with their second deliveries, the process ends with a node billing only by the policy, a person's answer, a signal really sent twice, or after every pass allowed.
* `AppLifecycle_proofs!NoneComesUp` (`NoneComesUpBehind`): When a destroy pass has returned, every node it could know of is destroyed, marked for it or was never there, whatever was taken in or answered between its rounds.

`QuitInv` adds to the three properties who is stopping the application and where (`StopInv`: a box is
open only for a person, and only `exited` follows `exiting`), what a pass has done so far
(`PassInv`: a node settled, or not there when its rounds began, does not come up while the scheduler
is halted), and that a signal which may end the stop early has really been sent before
(`SignalInv`), without which `NothingLeftUnasked` is not inductive: a second delivery of one signal
looks to the handler like a second signal.

### The lanes

For any cards, nodes, queue, chunk memory and learned slots, from `LanesAssumption`:

* `GpuLanes_proofs!LanesTyped` (`TypeOK`): Plans, limits, inboxes, runs and the reservation keep their types, and a card is given only where its node's agent sees it.
* `GpuLanes_proofs!SentStarts` (`SentExclusiveStarts`): No exclusive spec waits at the agent for a lane the app did not count: among the runs of its node that render or came before it, the one sent last was planned with a lane for every one, through every step down and recovery of the guard.
* `GpuLanes_proofs!CardsHold` (`CardsAreNotShared`): On a fleet whose agents see every card or one, no card ever holds more exclusive renders than the plan they were sent with puts on it, for any cards, scenes, queue and failures, and while runs of an older plan are still there.
* `GpuLanes_proofs!NeverWalkedDown` (`NotWalkedDown`): On such a fleet the guard never leaves a plan that holds the heaviest scene on every lane, for any memory the scenes take: what the renders beyond a new limit still use is never taken for a plan that does not fit.
* `GpuLanes_proofs!SendsAll` (`TickSendsAll`): Whatever state a tick finds, it leaves no chunk waiting that a node with room would take: no chunk is left to a node that leaves it to another.

`LanesInv` says of each node that its exclusive runs were sent one at a time into room counted under
the plan of that moment: of any set of them that still render or came before, one was sent last, and
its plan has a lane for every one (`Laned`). That the plan of an older run may be larger or smaller than
today's is what makes it necessary to speak of the run sent last. `SentExclusiveStarts` is then a
matter of the agent's order. `CardsAreNotShared` counts: `pick_gpu` takes a free place, and a card over
its plan would leave, by a pigeonhole on cards, more renders than the plan has lanes; it needs besides
that nothing runs unpinned beside another render (`OnePinned`). `NotWalkedDown` bounds what
renders sent under the plan before a step can still use: memory is at most lanes times the heaviest
scene (`SumBound`), so a second step is taken only when one was due, the guard waiting
for the renders of the first to be gone. `TickSendsAll` goes by the end of the tick's loop
(`OutcomeIsStuck`): a pass that sends nothing leaves every node idle (`Stuck`), one that sends has a
chunk less (`Progress`), so a least counterexample does for induction; and an idle node is one whose
room no chunk fits, since what the pass leaves out (the pre-filter, the count of cycles) admits
whatever `admits` would have, and a chunk left to another node is taken by that one
(`AdmitsIsPicked`).

`CardsHold` and `NeverWalkedDown` assume `SeesAllOrOne`: an agent sees every card the offer promised,
or one. In between they are false of the code: `pin_plan` refuses only below two cards
(noderunner.py:2403-2422), and a plan for four cards is then spread over the two or three there are.
The runs have an agent that sees one card of two.

## What disagreed with its documentation

One is a bug of the code, and has a run:

* `stopped_marks`, `OnlyOwnerMarks`, src/src/main/transfer/frameDownloader.ts:469: drain() ends with `if (manifestRead && (!this.stopped || gaveUp)) this.settleViewFrames()`: when the pass gave up and its run is then aborted during the wait for its transfers (up to a minute), gaveUp is still set and the frames are marked downloaded for a chunk already requeued. The comment above it, transfer/frameDownloader.ts:468, says "Stopped by the caller, not by giving up: the chunk is no longer ours."

The others are statements of a comment that the code does not keep. Each has a
configuration of its own, run by hand (`tlc -config X.cfg M`), which stops at the violation; none is
among the runs above.

* `LedgerTornFails.cfg` (`MCChunkLedger`), `FailedOnlyWhenSpent`: `finish()` commits `failed` on
  its own, before `onChunkFinished` re-splits and requeues the chunk. A process that ends in
  between leaves it failed with its retries unspent, and `recoverAtStart` takes back only chunks in
  flight (scheduler.ts:2258-2262). jobs/revive.ts:7: "A chunk fails for good once its retries are
  spent".
* `LedgerFinal.cfg` (`MCChunkLedger`), `FailedOutrightIsNotRevived`: `cancelJob` sets the job
  `cancelled` whatever it was (scheduler.ts:4478), so a job that failed outright becomes one
  a re-render queues again. jobs/revive.ts:36: "Not revived: a job the scheduler failed outright
  (failJob, plan 1.16)".
* `HandoffRevive.cfg` (`SpecHandoff`), `KillsSpareSuccessors`: a run cancelled while its spec is being
  written retracts it when the write is answered (scheduler.ts:1245), by chunk id; the cancel's
  promise does not cover that, so a re-render's attempt can be what it removes.
  app/recovery.ts:80-81: "nothing it revives can be hit by the cancel's clean-up".
* `HandoffForget.cfg` (`SpecHandoff`), `UnwatchedIsStopped`: `reviveAgent` forgets the node's runs
  after `restart-agent` has returned (nodeManager.ts:2240), up to 40 s after it emptied the inbox;
  a spec written in between is rendered and forgotten (`LandsTooLate` is this slip). app/recovery.ts:154-157 gives the reason
  not to do it in this order.
* `TransferPartial.cfg` (`MCFrameTransfer`), `NothingLeftBehind`: a transfer breaks off, and its file
  is gone from the node when it is retried. That branch of `failed()` (frameDownloader.ts:712-720)
  removes no partial, and the file is no longer among those `stop()` removes.
  frameDownloader.ts:334-337: "Whatever the run had not landed leaves no partial behind in the job
  folder", "nothing else would ever remove it".
* `TransferViews.cfg` (`MCFrameTransfer`), `RowIsTheFile`: a frame's views are those the manifest
  listed for some frame of the chunk (frameDownloader.ts:500-506). A Blender that dies before the third
  view of a chunk's only frame leaves two listed, and the frame is marked without the third.
  frameDownloader.ts:479: "Mark downloaded the frames saved one file per view whose every view has
  landed".
* `TransferOlder.cfg` (`MCFrameTransfer`), `LiveNeverGoesBack`: an older live clip whose retry lands
  after a newer one drops the newer: `pruneLiveVersions` (frameDownloader.ts:915-928) keeps only the
  path just landed, and the agent keeps two versions (noderunner.py:1269). frameDownloader.ts:909:
  "Drop superseded local live clips."
* `LanesRecovery.cfg` (`MCGpuLanes`), `RecoveryFits`: the tick passes `guardLanes` the number of runs
  (scheduler.ts:3292), those still being sent and those whose render has ended included; the
  projection then divides by runs that use no memory, and a node goes back up to a plan that does not
  fit. gpuLanes.ts:248-251: "Both overestimate", "which keeps a node from climbing back into the
  pressure it just left"; gpuLanes.ts:207 has the argument as the "exclusive lanes currently running".

## Only model-checked

Every safety property the runs check is a theorem. `KillsSpareSuccessors`,
`RowIsTheFile`, `CardsAreNotShared` and `NotWalkedDown` are theorems under the assumptions named above,
`DeliveryKept` without `MultiView`.

Liveness under fairness is beyond TLAPS: `JobEnds`, `LandedChunksSettle`, `CreatesSettle`,
`StraysAreFound`, `RunsEnd`, `UnwatchedEnds`, `UnattendedEnds`, `DrainEnds` and `HeadIsSent` stay
with TLC.

## Plan

1. Proofs: `RowIsTheFile` for a chunk sent again whose frames are saved in views, up to the pass that
   gave up.
2. `SpecHandoff`: a link that is lost and found (`withdrawGivenBack`).
3. `GpuLanes`: the slot controller's climb, in place of the constant `SlotTarget`.
4. `Scaling`, `NodePrep`, `NodeLink`, `OctaneSeat`, `JobQueue`, the headless hand-off, in that order.

## Not modelled

The components marked `not_modelled` in `PROJECT.json`, each with its reason. Wording,
formatting and layout of messages, file contents and the renderer are left out everywhere.

Most of the repository's lines are screens, IPC, HTTP and SSH plumbing, settings, price and energy
accounting, Blender scripts and ffmpeg command lines: they hold no state that an order of events could
spoil, and a model of them would only repeat them. What has control of its own and is not yet
modelled: the slot controller's climb, scaling and its holds, offer selection and the blacklist,
the single flights and locks of node preparation, the SSH connection's reconnects, the Octane
sign-in, the order of the queue, the agent's lease, and the headless hand-off of one file between
processes.
