# Verification of the personal AI gateway

This directory holds TLA+ models of the gateway (the Go service under `src/`), the TLC
configurations that check them on small instances, and proofs checked by TLAPS.

The gateway stands between people and one GPU machine. A browser request becomes a durable
*generation job* in PostgreSQL; background workers of the gateway hand the
job to ComfyUI, follow it, copy its outputs away, and keep the accounts (daily quota, paused
crypto miner) straight. Host agents train LoRAs, update the services and control the miner. The
difficult part is not any single handler, it is that all of them run
at once over the same rows, that ComfyUI and the agents can fail or answer late, and that a
prompt must neither be submitted twice nor paid for wrongly.

Contents: 1 inventory, 2 plan and where it stands, 3 modules, 4 runs with bounds and fairness,
5 abstract specifications, 6 proofs, 7 disagreements found, 8 what is not modelled.

## 1. Inventory

| Component | State | Operations | Hard behaviour | What makes it correct |
| --- | --- | --- | --- | --- |
| Generation jobs (`store/generation_job.go`, `store/generation_dispatch.go`, `gateway/generation_jobs.go`, `gateway/generation_batches.go`, `gateway/generation.go`) | a row of `generation_jobs`: state, dispatch token and lease, submission, rejection, prompt, closing, cancellation and release marks | launch, claim, begin, post, bind, reject, postpone, fence, release, transition, recover, sweep, poll, cancel | several workers with old copies, crash between two statements, lost replies, expiring leases | one submission at most, no release around an open submission, truthful and final ends, every job ends |
| Batches and queue order (`store/generation_batch.go`, `store/generation_dispatch.go`) | batches, sibling order | create, claim next, cancel, delete | concurrent claims with SKIP LOCKED | children one after the other, limit on active batches, every child gets through |
| Quota (`store/generation_quota.go`) | reservation columns of the row, daily and total counters | reserve, commit, release, purge of days | runs in different workers in any order, over midnight | nothing leaks, the counters say what is charged |
| Mining pause (`store/mining_pause.go`, `gateway/mining_pause.go`) | leases per work, the miner | pause, release, refresh, operator's start and stop | agent failures, late answers, several leases | no miner beside confirmed work, a paused miner comes back |
| GPU admission (`store/gpu_work.go`, `domain/gpu_work.go`) | `gpu_work`, `gpu_resources` with a revision | enqueue, observe, acquire, heartbeat, phase, cancel, release, retry | late observations, expired leases, late heartbeats | one holder, fresh evidence, bounded overtaking |
| LoRA training (`store/lora_training.go`, `gateway/lora_training_handoff.go`, `trainingagent/`) | a row at the Gateway; record, file, queue, fences and process at the agent | claim, upload, fence, adopt, poll, cancel, requeue, restart | the upload crosses the fence, both sides restart | a job is trained at most once and closed only when it cannot train any more |
| LoRA captions (`store/lora_caption.go`, `gateway/lora_caption_worker.go`) | rows with claim tokens, an advisory lock | request, claim, renew, finish, cancel, recover, purge | a broken session's worker finishes late | only the present claim writes; every request ends |
| LoRA datasets (`store/lora_dataset.go`, `gateway/lora_dataset*.go`) | photos, manifests, references, versions | save, version, restore, duplicate, train, collect | collection beside saves | what is listed is kept |
| Prompt construction (`gateway/workflows.go`, `minimax_h3.go`, `workflow_*.go`) | none: a form becomes a graph | prepare, build, validate | optional branches threaded through each other | a prompt that is sent has no dangling link and uses what was asked for |
| Catalog of nodes (`gateway/comfy_schema.go`) | one cached copy | get, refresh | a restart of ComfyUI under a long fetch, a fetch that fails for its caller only | the copy catches up, or says that it could not |
| Prompt admission and controls (`gateway/comfy_isolation.go`, `proxy.go`) | a mutex, waiting requests, ComfyUI's queue, content events | post, cancel, delete, interrupt | authorised on an old reading of the queue | what is admitted keeps the limits, a filtered control reaches the caller's prompts only |
| Uploads (`gateway/comfy_upload.go`, `store/comfy_input.go`) | reservations, files | reserve, forward, finalise, release, clean up | answers lost between file and row | the budget covers what reserved uploads left on the disk |
| Output capture and clean-up (`gateway/content_capture.go`, `content_media_storage.go`, `generation_cleanup.go`) | ownership rows, copies, tombstones, files | capture, archive, expire, delete | ComfyUI reuses names | a copied file is tracked until it is deleted |
| Retention and pins (`store/content.go`, `database_retention.go`) | events, copies, history rows, deadlines | archive, pin, unpin, expire, collect | a pin beside a retention statement | a pin keeps what it hangs on |
| Accounts (`gateway/auth.go`, `account*.go`, `websocket_registry.go`) | users, sessions, registered connections | login, change, revoke, prune, connect | revocation beside a handshake | a revoked session keeps no connection, at the latest after the next pruning |
| Drafts (`store/generation_draft.go`, `static/generation-draft.js`) | one draft per account, its revision | load, save, delete, choose | two tabs, lost answers | nobody's work is replaced unseen |
| Suggestions (`store/feature_suggestions.go`, `gateway/suggestions.go`) | suggestion, scans with leases | draft, submit, scan, summarise, retry, decide | summaries that wait for a lock | accepted means that every scan came back clean |
| Maintenance registry, dependency health (`gateway/maintenance_workers.go`, `dependency_health.go`) | per worker and dependency: failures, due time, last success | loop, probe, note, show | deadlines, back-off, pages that probe too | what is shown is so |
| Update agent (`updateagent/`) | checkout or pin, running service, mutex | check, install, restart, roll back | one command of several fails, the agent dies | files and process agree |
| Mining agent's update (`miningagent/controller_windows_update.go`) | the miner's folder, backups, process | stop, stage, rename, start, roll back, collect | a rename fails, the agent dies | folder, scripts and process are in order |
| Everything else (administration, moderation, assistant texts, schema, invites, pages) | none that several steps share | | | not modelled, see section 8 |

How they interact: HTTP handlers and maintenance workers share nothing but PostgreSQL and, in
one process, three mutexes (the miner's, prompt admission's, the catalog's). They call ComfyUI and the
agents over HTTP with timeouts; no database lock is held across such a call. A Go value read from the row is
used long after the row has changed; every statement therefore repeats its conditions in its `WHERE` clause,
and the models are about whether those conditions suffice. The agents share files with the services
they control and nothing with the Gateway but requests.

The hazards - what is hard to test here, each at its line, with the properties about it - are listed in
`PROJECT.json`.

## 2. Plan

All modules of the plan are written; each is followed here by what is proved about it.

1. `GenerationStore`, `GenerationJob`, `GenerationHandoff`: all safety properties proved, three of
   them in the environments in which they hold; the refinement proved.
2. `GpuAdmission`: all properties proved.
3. `LoraTraining`, `TrainingSlot`: all safety properties and the refinement proved.
4. `GenerationQueue`, `MiningPause`: all safety properties proved.
5. `GenerationQuota`, `ComfyControl`, `LoraDatasets`, `AccountAccess`, `PinnedMedia`,
   `GenerationDraft`, `SuggestionBoard`, `UpdateAgent`, `MinerUpdate`: all safety properties proved.
6. `ComfySchema`, `ContentArchive`, `ComfyInputs`, `LoraCaption`, `DependencyHealth`: all safety properties proved.
7. `PromptGraph`: model-checked only (section 6 says why).

The components share no state but through the database, and the models meet where the code does: the
statements of `GenerationStore` are used by `GenerationJob`; the same claim appears in `GenerationQueue`
among many jobs; `MiningPause` has the leases whose release `GenerationJob` orders. The modules of the
smaller components are put side by side by `MCServices`, `MCWorkers` and `MCLora`, which add nothing to them.

What is left: the two builders of `workflows.go` that `PromptGraph` does not have, batch expansion, and the moderation queue.

## 3. Modules

| Module | Models | Proved in |
| --- | --- | --- |
| `GenerationStore` | One row of `generation_jobs` and the SQL statements that change it, each as a guard and the row it leaves. No behaviour of its own. | |
| `GenerationJob` | The call stacks that execute those statements, ComfyUI, the mining leases of the job, time and failures. | `GenerationJobProofs`, `GenerationEndProofs`, `GenerationStopProofs` |
| `GenerationHandoff` | Abstract: sent at most once, decided by ComfyUI, recorded truly, let go only when unsent or recorded. | |
| `GpuAdmission` | The admission store for one GPU. | `GpuAdmissionProofs` |
| `GenerationQueue`, `MiningPause`, `DependencyHealth` | Which job is dispatched next; the miner, its agent, the leases and the operator; the monitor of dependencies and its worker's loop. | `WorkersProofs` |
| `LoraTraining`, `TrainingSlot`, `LoraCaption` | The hand-off of trainings and its abstract promise; captions. | `LoraTrainingProofs` |
| `AccountAccess`, `PinnedMedia`, `GenerationDraft`, `SuggestionBoard`, `UpdateAgent`, `MinerUpdate` | Sessions and sockets; pins and retention; drafts in several tabs; suggestions and their scans; installs; the miner's folder. | `ServiceProofs` |
| `GenerationQuota`, `ComfyControl`, `LoraDatasets`, `ComfySchema`, `ContentArchive`, `ComfyInputs` | The counters; ComfyUI's queue behind the proxy; dataset photos; the catalog of nodes; archived outputs; uploads. | `SharingProofs` |
| `PromptGraph` | From a form to a prompt. | |
| `MCGenerationJob`, `MCGpuAdmission`, `MCWorkers`, `MCLora`, `MCServices` | Instances for TLC. | |

One step of a model is one SQL statement or transaction, one HTTP request or one file operation; Go code
between two of them only touches the call stack and belongs to the step before it. Timestamps are kept as
what a guard asks of them, or as small numbers where lengths of time are compared.

**GenerationJob.** `row` is the row of the job; the age of its state is kept as "recent", "over two minutes"
and "over five", the thresholds of the sweep. `worker[p]` is one Go call stack: the next call that leaves the
process (`pc`), the `GenerationJob` value it holds (`job`), what ComfyUI told it (`seen`, `sent`) and where it
is going (`goal`, `mode`). `Cancel`, `Advance`, `Arrived`, `Reconcile`, `Judge` and `Inspect` are the Go code
between calls, named after the functions (`continueGenerationJobCancellation`, `advanceGenerationJob`, ...).
`comfy` is the truth about the prompt in ComfyUI: not sent, in flight, queued, running, ended, refused, lost,
or forgotten by a restart. `held` and `ready` count the job's mining leases without and with `resume_ready`.
The actors are sets of constants: at most one `Launchers` request (the run handler), `Dispatchers` (one per
gateway process), `Sweepers` (refresh and lease workers), `Viewers` (status and recovery requests) and
`Cancellers`. `Faults` switches on what may go wrong: ComfyUI cannot be read, the reply to the post is lost, a
worker is suspended past its lease, ComfyUI restarts empty, the owner's account is deleted, the mining agent
refuses. `Crash` ends a call stack anywhere: a database error, an expired context and a stopped
process all come to that, because the code keeps nothing but the row. Where a store function returns an empty
job on a mismatch, the caller's `failGenerationJob` works on job 0 and reaches no row; the call stack ends.

**GpuAdmission.** `work` holds the rows of `gpu_work` (lease as time left, intent as alive or not), `gpu` the row
of `gpu_resources` with its revision, `probe` the readers of the executor's status: `Capture` reads the revision
before asking, `Observe` stores the answer under it. `saw` and `seen` are history: the tenure (who held the
GPU, under which token, in which phase) at the time the answer was asked for.

**GenerationQueue** keeps of each row the state, whether it is queued, its claim and whether an answer is
outstanding; `Claim` has the guards of `ClaimNextGenerationDispatch` but lets any candidate be the
one, since `SKIP LOCKED` does. **MiningPause** has one call per Gateway under its mutex (`Reserve`, `Release`,
`Call`, `Abort`), the agent's start that outlives the client's patience, and the operator beside them.

**LoraTraining** has the Gateway's row and refresh worker (`gw`), the upload as a message (`upload`), and of the
agent the record in memory, the record on disk, copies taken under the lock and not yet written (`late`), fences,
queue, worker and living processes, orphans included. **LoraCaption** has the rows, the advisory lock, and runs that
outlive the session that held it.

**AccountAccess** separates a revocation's deletion of rows from its closing of connections, a handshake's
authorisation from its registration, and the pruner's list, question and closing; `RevokeSession` is the administrator's
list, which deletes a row and closes nothing (`swept`: the sessions the pruner has been past since they were gone). **PinnedMedia** splits each
retention statement into what it found (`doomed`) and what it deletes. **GenerationDraft** has the controller
of each tab with what it was shown. **SuggestionBoard** has scanners that hold a summary while they wait for the
row's lock; `idea.places` is what is attached now, the scans are those of the form that was submitted, `crossed` what
another tab saved between the two transactions of a submission. **UpdateAgent** and **MinerUpdate** have one step per command or rename, each of which may fail,
and an agent that may die after any of them.

**GenerationQuota** keeps for each job what was charged to which day, beside the counters. **ComfyControl** has
requests before, in and after the admission mutex, and controls decided on an earlier reading of the queue; the
`...AsItCame` actions are the requests whose path no check compares with.
**LoraDatasets** has saves as open transactions and the clean-up's statements one by one. **ComfySchema** has the
copy with the last attempt and its error, the fetch that holds the mutex and may fail for any reason, and a ComfyUI that restarts with other nodes. **ContentArchive** follows one
file name through several prompts: ownership rows (by id, the last one wins), copies under events, tombstones.
**ComfyInputs** has the reservation, the file on the disk and the row apart, and the clean-up between listing,
deleting and forgetting; an error answer says nothing about the file. **DependencyHealth** counts ages and times to go in
ticks; the age of a sample is a parameter of `State`, because the collector and the pages note samples at any time. **PromptGraph** has forms,
preparation, building and validation for four of the builders; a prompt is its graph of links.

## 4. Runs

Passing runs (all properties hold):

| Run | Question | Instance |
| --- | --- | --- |
| `job_handoff` | Do the hand-off invariant, true outcomes and final ends hold under every fault at once, and is `GenerationHandoff` implemented? | launch or batch child; launcher, dispatcher, sweeper; all six faults, one lease, one crash |
| `job_reclaim` | Can a claim after an expiry send twice, or anyone release around an open send? | batch child; two dispatchers, viewer; suspended workers, lost replies |
| `job_cancel` | Does a cancel end the job, and let its quota go, only when ComfyUI stopped? | batch child; dispatcher, sweeper, canceller; one lease |
| `job_ends` | Does every job end? | launch or batch child; launcher, dispatcher, sweeper; lost replies, agent failures, one crash |
| `gpu_admission` | Is admission exclusive, and is every decision made on fresh evidence? | two works, one of them cancellable and with an owner that changes, two tokens, one reader, revisions up to 7 |
| `lora` | Do trainings implement `TrainingSlot`, does every queued one end; is a caption's answer the last run's, does every request end? | two trainings, lost calls, one restart; one caption, two workers |
| `workers` | Do batches keep their turn, does every child get through; is the miner kept apart from work, does it come back? | a launch and batches of two and one, one of them active; a job and a model call, an agent that fails, one call cut off |
| `services` | The safety of each smaller component. | see below |

In `services`, `workers` and `lora` a behaviour follows one component, named by `part`; the others rest in an
initial state. The components share no variable, so the runs check each of them exactly as a run of its own would; the
MC modules EXTEND the modules that are proved about, so that TLC also evaluates their assumptions.

Runs that TLC refutes, each a disagreement between a document and the code (section 7): `lost_reply`,
`lora_give_up`, `mining_forgotten`, `stale_catalog`.

### Bounds

* One generation job: every statement names one job id, so jobs only meet in the claim order (`GenerationQueue`)
  and in the counters (`GenerationQuota`).
* Two dispatchers pair a stale worker with a present one; a third would repeat one of the two
  roles, and a crashed dispatcher comes back as a new one anyway. One sweeper, viewer or canceller each: they
  act on the row as it is and on their own copy. Dispatch tokens are drawn as the smallest unused number;
  they are only ever compared, so reuse of one that nobody holds changes nothing.
* GPU: `MaxRevision` bounds a counter that statements only compare; 7 is enough for a grant, its release, a second
  grant and its release, so that evidence about an earlier holder is there to be refused. One reader holds one answer at a
  time, of any age; `Changing` keeps account changes to one work; `LeaseTerm` 1 lets a lease be renewed and run
  out; `HeadStart` and `MaxTime` 1 let work be queued at different times.
* Queue: two batches, one of two children, with room for one active child, is the least where turn and limit both bind.
  Mining: a job and a model call are the two kinds of lease; one call cut off.
* Training: two jobs for the slot in `lora`, with liveness; one job with every fault and two restarts, so both
  sides restart or one of them twice, in `services`. Caption: one image whose run outlives its session beside a
  second worker, two attempts.
* Quota: a job and a batch of two videos, three days, limits that are met. ComfyControl: four prompts of three users, one of
  them the administrator, one control at a time; one prompt (`Around`) may come past the admission. Datasets: one photo, two datasets, one version, one open save. Updates:
  two parts, three versions of which the second is broken, two installs. Miner: five packages, the third broken, two
  backups kept. Pins: two copies, a clock up to 4 and policies of 1, 1, 2 and 3. Catalog: times 2, 1 and 3 and a clock
  up to 7, so that a restart, a failure and a fetch after both fit. Archive: two prompts with one name, three hours.
  Inputs: two uploads of two accounts; the byte quotas (2 and 3) bind before both are stored, the file-count quotas (1
  and 2) are as large as the instance, so it is their theorem, not the run, that speaks for them. Sessions: one session,
  two sockets, two passwords. Drafts: two tabs, three revisions. Suggestions: two attachments, two scanners, one retry.
  Health: two dependencies, one an agent whose samples count too; one change; times 2, 1, 3, 5 and 6 (interval, deadline, longest back-off, stale,
  offline), which are the least that meet `HealthAssumption` with a back-off longer than the interval.
* `LastTick`, `LastHour`, `LastDay`, `LastTime`, `LastRevision`, `LastVersion`, `LastPackage`, `LastEdit`, `MaxChanges`,
  `MaxPasswords`, `MaxRetries`, `MaxWriting`, `MaxAborts`, `MaxCrashes` and `MaxLeases` bound counters that grow for ever
  in the code; the theorems hold for every value of them.
* Symmetry is declared for the dispatchers in `job_reclaim`, the lease tokens in `gpu_admission` and the scanners in
  `services`, none of which checks liveness: they are compared for equality only.

`CHECK_DEADLOCK FALSE` is set where the work may be over: a job at its end, a clock at its bound, a prompt sent.

### Fairness

* `JobEnds` (`GenerationJob!Fairness`): call stacks proceed (weak: an HTTP client or database call returns or times
  out), dispatchers keep claiming and sweepers keep sweeping (strong: `runMaintenanceWorker` restarts each worker
  after every run), prompt admission succeeds if it is asked again and again (ComfyUI's queue drains), time passes, and
  ComfyUI finishes what it started. Nothing is assumed of polls, cancels, crashes or owners. `Unanswered` is an explicit
  exception: a job whose submission marker is set but whose post was lost, refused without a usable answer or never
  made waits for evidence; this is the documented choice, and an operator has to end it.
* `ChildrenEnd` (`QueueFairness`): dispatch keeps running and what was sent ends, unless its answer never came.
* `MinerComesBack` (`MiningPause!Fairness`): the lease worker keeps retrying, so a call that can succeed again and again
  does; works end. Its exception is a lease that a model call holds and nobody asks about any more (section 8).
* `TrainingEnds` (`LoraTraining!Fairness`): the refresh worker and the agent's worker keep going and processes end.
* `EachCaptionEnds` (`CaptionFairness`): some worker keeps getting the lock, runs end, leases run out.

The fairness a component needs is the premise of its property where a run follows several components: a behaviour that
follows another one meets it trivially.

## 5. Abstract specifications

`GenerationHandoff` has three variables and four actions. `GenerationJob!Handoff` maps `comfy` to the outcome, a
recorded prompt or refusal to `recorded`, and `dispatch_closed_at` to `released`. `HandoffSpec` is checked in
`job_handoff` and proved. It holds because `BeginGenerationJobSubmission` and `FenceGenerationJobResourceRelease`
exclude each other on the row, although neither locks it while ComfyUI is called.

`TrainingSlot` has the phase of each job: waiting, running, stopped, closed; one may run, and what is closed does not
start. `LoraTraining!SlotSpec` maps the processes, the history of started ones and the row to it; it is checked in `lora`
and proved. It holds although the upload crosses the fence and the agent restarts, because a fence is on
disk before the row is given up and a restarted agent that cannot tell whether a process lives keeps the slot.

## 6. Proofs

TLC checks the instances above; the theorems hold for every value of the constants that the named assumptions of the
modules admit. Each theorem of a safety property has the same shape: an inductive invariant `...Inv` that names what the
property needs, `Init => Inv`, `Inv /\ [Next]_vars => Inv'`, and the property from it. The components' own type
invariants are proved as part of them.

**`GpuAdmissionProofs`**: for any works, tokens, external ids and readers, type correctness, `OneHolder`,
`FreshObservation`, `IdleBeforeGrant`, `FreshEvidence`, `NoRevival` and `BoundedOvertaking`. The inductive invariant is
`TypeOK /\ OneHolder /\ FreshObservation`: a grant only looks at the stored observation, and that the observation
speaks of the present tenure follows from every change of the tenure counting the revision up.

**`GenerationJobProofs`**: for any finite set of workers in any of the roles, any
faults and any bounds: the inductive invariant `HandoffInv` (hence type
correctness), `AtMostOneSend`, `ClosedIsSettled`, `ChargedWasAccepted`, `TerminalIsFinal` and the
refinement `HandoffSpec`. The assumptions are those of the constants: the workers are finitely many (a claim's
token has to differ from all tokens held), at most one launcher, disjoint roles. None of these properties
is inductive by itself. `AtMostOneSend` needs to know that a worker at `post`
holds a marker no one else has used and that nobody else stands there (`PositionOK`, `OnePoster`);
`ClosedIsSettled` needs that what the row says of the outcome is true (`RowOK`), and that in turn needs that a
worker about to record an outcome has seen it in ComfyUI. The argument runs in three layers: what each statement of the
store does to a row (`TransitionKeeps`, `StoreKeeps`, `CancelKeeps`, `ClaimKeeps`); what a step of one worker owes
the others (`PositionKept`, `WorkerStep`): markers are only ever set, outcomes only ever become known, and a worker
moves nobody but itself; one lemma per action or group of actions, most of them calm (`CalmIsOK`). `StepOK` carries
invariant, finality and refinement through the same case analysis. In the refinement `Post` is `Send`, ComfyUI's
acceptance or refusal is `Decide`, `Bind` and `Reject` are `Record`, `Fence` is `LetGo`; every other step, crashes
included, stutters.

**`GenerationEndProofs`**: `CompletedAfterSuccess` by `CompletedInv`: every worker on its way to archive or complete
saw the success ComfyUI reported, and a resumed reconciliation only adds to it. `NoQuotaLeak` for batch children, whose reservation
is made when the batch is created; a launch reserves in a statement of its own (generation.go:484) that a cancel may pass.

**`GenerationStopProofs`**: `EndedIsStopped` under `Answering` (`Faults \subseteq {"forget", "agent"}`): while ComfyUI
answers, the owner stays and no dispatch outlives its lease, a job that ended has nothing left in ComfyUI. `lost_reply`
shows that the premise is needed. `StopInv` says of every position of a call stack what the worker may take for granted about ComfyUI.

**`WorkersProofs`**: `BatchInTurn` by `QueueInv` (who may be active beside whom, and what a claim found).
`PauseHolds` by `HoldInv`, for one Gateway: the mutex is per process, and with two of them it fails.
`PauseHasOwner` by `OwnInv`, for one Gateway that hears of the stops it causes (`"lostStop" \notin Faults`);
`mining_forgotten` shows what happens otherwise. `HealthTold` by `HealthInv`: `Soon(d, t)` says that a dependency that will
be probed within `t` is judged right or has not been calm for long, and `Judged(d)` gives `t` for every position of the loop - a
probe under way, a pause before which the dependency falls due, one that passes it by (`PassedBy`), the slowest probe of a
run. Time passing shrinks each of these with the time that is left (`TickKeeps`); a change or an abandoned probe ends the calm;
`PauseEnds` says that a back-off caused by an agent that hung is over by then.

**`LoraTrainingProofs`**, for one Gateway: `SlotInv` - row, upload, record in memory and on disk, queue and process of
every job agree (`AgentHolds`, `RowHolds`, `GwHolds`, with `Dead(j)` for a job that can never start again) - gives
`ReleaseAfterStop`, `PausedWhileTraining` and `SlotSpec`. `AnswerIsCurrent` by `CaptionInv`: a running row's token
is that of the run started last, and tokens in use differ; that there is always a new one is a pigeonhole argument over
rows and workers (`TokenIsNew`).

**`ServiceProofs`**: `RevokedIsClosed` (`AccessInv`: what a connection in each stage of its handshake and each
pending closing owe each other), `PinnedKept` (`MediaInv = MediaTyped /\ PinLasts /\ PinGuards`, for policies that keep
a pin no shorter than a copy, config.go:91, 500), `ChosenOnly` (`DraftInv`: a revision stands for one content, a tab
knows only what it was shown), `AcceptedIsClean` (`BoardInv`), `InstallSettles` (`InstallInv`: one install
holds the mutex, and what it goes back to was healthy), `UpdateSettles` (`MinerInv`: one conjunct for each
stage of a replacement).

**`SharingProofs`**: `CountersMatch` (`QuotaInv`: each counter is the number of charges not given back, by day),
`QueueBounded` and `OwnControl` (`ControlInv`: what was counted under the mutex leaves room for what is posted under
it), `PhotosKept` (`DatasetInv`: what an open save or a clean-up holds locked), `CatalogCatchesUp` (`SchemaInv`: a
copy from before the restart has run out by then, or an attempt to replace it has just failed), `FileIsTracked` (`ArchiveInv`), `WithinBudget`
(`InputInv`: while a file may be on the disk its bytes are reserved, a row is forgotten only after its file; sums of
bytes are the cardinalities of sets of byte places).

Assumptions on constants are as the code has them: `SchemaAssumption` is what `newComfyObjectInfoCache`
corrects its arguments to (comfy_schema.go:99-112); `ArchiveAssumption` that copies are kept an hour or more and no longer
than events (config.go:491, 507); `UpdateAssumption` that the version installed first is healthy; `MinerAssumption`
that a backup is kept; `HealthAssumption` that a probe has less time than the least interval that may be configured (4 of 5
seconds), and that the limits of freshness leave room for two intervals with their probes (stale) and for the longest back-off
(offline). The defaults do; config.go:326, 333 only asks for two intervals without the probes' time, so with the tightest values
it accepts a dependency that answers may be shown as stale, or with an agent that hangs as offline; the others that sets are finite, sentinels differ from values, and limits are numbers.

Only model-checked:

* liveness - `JobEnds`, `ChildrenEnd`, `MinerComesBack`, `TrainingEnds`, `EachCaptionEnds` - which needs fairness and ENABLED;
* `PromptIsWhole`: it is a statement about the four saved workflows, decided by going through the forms, and its
  reachability and acyclicity are computed by recursion over graphs; there is nothing in it for a prover but that enumeration.

## 7. Where documents and code disagree

* `lost_reply` refutes `EndedIsStopped` (src/internal/store/generation_dispatch.go:170): The fence lets a release pass as soon as the row has a prompt, whoever wrote it. A dispatcher whose reply was lost fails the job; if a poll or sweep recovers the prompt first, that failure fences, refunds the quota, resumes mining and ends the job while ComfyUI runs it. docs/verification/GENERATION_DISPATCH_2026-09-06.md:25-27 says "HTTP 504, a malformed receipt or an unknown error leaves the submission unconfirmed and does not authorize resubmission, quota release or mining resume."
* `lora_give_up` refutes `JobDecided` (src/internal/trainingagent/controller.go:177): Submit stores the record and indexes it under the Gateway's id before it queues it, and the select may take ctx.Done() of a caller that went away although the queue has room. The Gateway's recovery then finds the record and adopts it, and polls a job that is in no queue for ever. docs/verification/LORA_TRAINING_HANDOFF_2026-09-05.md:14-15 says "Worker ищет принятую работу по исходному Gateway ID, привязывает agent ID и продолжает обычное наблюдение." (the worker finds the accepted job under its Gateway id, binds the agent's id and goes on observing it).
* `stale_catalog` refutes `FallbackOnlyWithinMaxStale` (src/internal/gateway/comfy_schema.go:129): A failed refresh moves nextRefresh ahead by the back-off even when the copy is older than maxStale; the next call within it takes the first branch, which looks at neither the age nor the last error, and returns the expired copy as fresh_cache without an error. internal/gateway/comfy_schema_test.go:60 names the promise TestComfyObjectInfoCacheFallsBackOnlyWithinMaxStale (its call after the limit forces a refresh and so never meets this branch), and .env.example:26 allows an explicitly labelled last-known-good copy during a short outage only.
* `mining_forgotten` refutes `PauseHasOwner` (src/internal/gateway/mining_pause.go:93): Any error of mining.Stop deletes the lease, but the client waits four seconds for an answer (mining/client.go:99) while the agent waits up to five for the miner to disappear: the miner is stopped, no lease is left, and no sweep starts it again. docs/verification/INFERENCE_MINING_LIFECYCLE_2026-09-05.md:27-28 says "Completion is stored before attempting resume; the last row stays durable through agent I/O."

One more has no run of its own, because the property that would state it is checked with the exception in it: internal/store/feature_suggestions.go:19
says of a suggestion that it "cannot be accepted before a clean scan". An attachment that a second tab saves after the first
wrote its form and before `SubmitFeatureSuggestion` goes in with the scans of the first form (suggestions.go:248-270,
feature_suggestions.go:128-163); with no scan at all the suggestion is up for review at once, and may be accepted with
the attachment unscanned (`crossed` in `SuggestionBoard`).

By design and not among these: a job whose post got no usable answer waits for ever (`Unanswered`), and a
completed job need not be charged, because a release between `BindGenerationJobPrompt` and
`CommitQuickGenerationForJob` may have returned its reservation.

## 8. Exceptions and limits

The models make these exceptions explicit, as history variables or premises of a property; each is something the code
really does:

* ComfyControl: the filters compare exact paths. What is posted to `/api/prompt`, `/api/queue` or `/api/interrupt` - ComfyUI
  serves each path under `/api` too, and `enforceComfyControlIsolation` lets by what it does not know - is neither admitted nor
  given its owner's client id nor narrowed to the user. The model lets one prompt (`Around`) and any control come so. `QueueBounded` speaks of
  what was admitted, beside those (`stray`, which also has a prompt that reaches ComfyUI after its caller went away and the mutex was
  released); `OwnControl` of the controls at a filtered path; `ControlAsItCame` are the others, one step each, because the Gateway decides
  nothing for them and ComfyUI obeys when they arrive. A prompt whose content event is not stored
  cannot be cleared or cancelled by its owner.
* ContentArchive: a tombstone that cannot be written is only logged; an event that expires under a copy being written, or
  an ownership row collected meanwhile, leaves a file nobody tracks (`loose`). Old rows learned again from
  ComfyUI's history after their collection are the newest and win.
* PinnedMedia: a pin committed between the look and the delete of a retention statement does not protect the row found.
* MinerUpdate: a stop that fails after the kill leaves the miner stopped; an agent that dies between two renames leaves no
  current folder until an operator repairs it (`torn`); scripts edited after they were read survive only in a backup (`hasty`).
* UpdateAgent: a roll-back shares the install's twenty minutes; an agent that dies forgets what it would go back to; a merge
  that moved HEAD and then reported failure (cut off after the update of the ref) is rolled back by nobody. The parts concerned are in `reported`.
* DependencyHealth: one agent that hangs fails the common run of all probes, whose back-off (up to 60 s) exceeds the 45 s after
  which a healthy dependency is shown as stale. The Windows monitor is judged by its samples too (`RequiresData`): while it answers its
  health check it is shown as stale when its samples are old or there is none, as docs/DEPENDENCY_HEALTH.md says, and as
  offline when they are older than that limit; `HealthTold` says which for every age of the sample. An agent that answers its health check and fails
  its other calls is not among the modes.
* AccountAccess: a login checked against the old password may open its session after the change's revocation. The administrator's
  list of sessions (`handleAdminSessionAction`) and the expiry of sessions close no connection: `RevokedIsClosed` says that such a session
  has none after the next whole run of the pruner (`swept`).
* SuggestionBoard: a scanner that dies between a result and its summary leaves a suggestion "scanning"; a stale summary may
  allow acceptance while a repeated scan waits, of places that were clean before. `SubmitFeatureSuggestion` scans what its own form had,
  while the row may meanwhile have what another tab saved: `AcceptedIsClean` names these (`crossed`), see section 7.
* ComfyInputs: a file that arrives after its reservation ran out is counted by nothing until the clean-up finds it. An error answer
  gives the reservation back although the file may be there (`loose`; a file written after a 504 from in between is modelled as written when the
  answer comes), and an upload at `/api/upload/...` reserves nothing and has a name of its own; neither is in the budget.
* ComfySchema: an attempt may fail while ComfyUI is up (a caller that goes away, five seconds, another status, a body too large or empty), and for the
  pause after it everybody gets the old copy; `CatalogCatchesUp` asks that the answer then carries the error and that the attempt is no older than the pause.
* MiningPause: the release of a model call's lease is tried once, with 15 seconds, and the sweep passes by a lease that neither job nor prompt is
  bound to until it is marked ready. Cut off before that, as after a call that never settled, it is held for ever and the miner stays off until an operator
  starts it; `MinerReturns` has this as its exception (`gone` with the lease `held`).

Not modelled, and why:

* Rows that migration 60 marked as started without a post; they behave like a lost reply. History entries that are neither
  finished nor failed.
* Payloads, prompts and media, messages, logs, metrics and trace ids; projections that are rebuilt from the job.
* A live GPU lease may be released on the evidence "idle" while its executor has not started; the contract leaves that to
  adapters that do not exist in the repository.
* Of the prompt builders two; numeric ranges are one bit (`NaN` passes the code's comparisons). In the Flux edit
  `applyWorkflowUpscale` links the saved picture past the colour grading (`LutIsApplied` states it, no run has it).
* The limiter's windows, invites, moderation, assistant texts, administration, pages, schema and scripts: single
  requests without state that several steps share, or text processing.
