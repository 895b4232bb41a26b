-------------------------- MODULE GenerationJob --------------------------
(***************************************************************************)
(* The life of one generation job: the browser request that launches it,   *)
(* the dispatch workers that hand it to ComfyUI, the sweepers that         *)
(* reconcile it, the status polls and the cancel requests, all of them     *)
(* running at once over the job's row, ComfyUI and the mining agent.       *)
(*                                                                         *)
(* Every statement of the store names one job, so jobs do not interfere    *)
(* except for the order in which they are claimed.                         *)
(*                                                                         *)
(* A worker is the Go call stack of one handler or maintenance run: pc is  *)
(* the next call that touches PostgreSQL, ComfyUI or the mining agent, job *)
(* the domain.GenerationJob value it holds, which may be out of date.  The *)
(* code between two such calls only reads the worker's own values, and is  *)
(* part of the step before it.  A database error, an expired context and   *)
(* a stopped Gateway all abandon the call stack (Crash).                   *)
(***************************************************************************)
EXTENDS GenerationStore, FiniteSets

CONSTANTS
  Launchers,     \* handleGenerateRun: at most one request creates the job
  Dispatchers,   \* dispatchGenerationJobs, one per Gateway instance
  Sweepers,      \* refreshTrackedGenerationStatuses and the lease refresh
  Viewers,       \* handleGenerateStatus, handleRecoverGeneration
  Cancellers,    \* the job, prompt and batch cancel handlers
  BatchModes,    \* whether the job may be a batch child: a subset of BOOLEAN
  Faults,        \* what may go wrong around the workers
  MaxLeases,     \* bound: mining leases the job holds at once
  MaxCrashes     \* bound: abandoned call stacks

Workers == Launchers \cup Dispatchers \cup Sweepers \cup Viewers \cup Cancellers

FaultKinds ==
  {"outage",      \* a read or a control request of ComfyUI fails
   "lostReply",   \* the reply to POST /prompt is lost or useless
   "stall",       \* a worker outlives its two-minute dispatch lease
   "forget",      \* ComfyUI restarts without its queue and history
   "leave",       \* the owner's account is deleted
   "agent"}       \* the mining agent refuses or does not answer

ASSUME WorkersAssumption ==
  /\ IsFiniteSet(Workers)
  /\ Cardinality(Launchers) <= 1
  /\ Launchers \cap (Dispatchers \cup Sweepers \cup Viewers \cup Cancellers) = {}
  /\ Dispatchers \cap (Sweepers \cup Viewers \cup Cancellers) = {}
  /\ Sweepers \cap (Viewers \cup Cancellers) = {} /\ Viewers \cap Cancellers = {}
ASSUME FaultsAssumption == Faults \subseteq FaultKinds /\ BatchModes \subseteq BOOLEAN
ASSUME BoundsAssumption == MaxLeases \in Nat /\ MaxCrashes \in Nat

VARIABLES
  row,       \* the job's row in generation_jobs
  worker,    \* the call stacks
  comfy,     \* what has become of the job's prompt in ComfyUI
  held,      \* mining leases of the job that nobody tried to release
  ready,     \* mining leases of the job with resume_ready
  sends,     \* history: POST /prompt requests for the job
  crashes    \* history: abandoned call stacks
vars == <<row, worker, comfy, held, ready, sends, crashes>>
world == <<comfy, held, ready, sends, crashes>>

-----------------------------------------------------------------------------
(* Workers *)

\* The fields of a GenerationJob value that some later step reads.
View(r) ==
  [state |-> r.state, owner |-> r.owner, token |-> r.token,
   started |-> r.started, rejected |-> r.rejected, prompt |-> r.prompt,
   cancelReq |-> r.cancelReq, cancelConf |-> r.cancelConf]

Idle ==
  [pc |-> "idle",
   mode |-> "none",    \* why the job is looked at: dispatch, sweep, view,
                       \* cancel, or undo (a cancel that must reach ComfyUI)
   goal |-> "none",    \* the state the worker moves the job to
   seen |-> "none",    \* what ComfyUI said about the prompt
   sent |-> FALSE,     \* a cancel request reached ComfyUI
   job |-> View(NewRow(FALSE)),
   old |-> 0]          \* the age of job; only a sweep looks at it

Become(p, w) == worker' = [worker EXCEPT ![p] = w]
At(p, pc) == worker[p].pc = pc
Goto(w, pc) == [w EXCEPT !.pc = pc]
Holding(w, r) ==
  [w EXCEPT !.job = View(r), !.old = IF w.mode = "sweep" THEN r.age ELSE 0]

\* releaseGenerationJobResources, then a transition to goal.
Release(w, goal) == [w EXCEPT !.pc = "fence", !.goal = goal]
Fail(w) == Release(w, "failed")

\* advanceGenerationJob: the next state on the way to a target.
Toward(s, target) ==
  CASE s = "draft" -> "preparing"
    [] s \in {"preparing", "uploading"} -> "waiting_for_resources"
    [] s = "waiting_for_resources" -> "queued"
    [] s = "queued" -> IF target = "running" THEN "running" ELSE "postprocessing"
    [] s = "running" -> "postprocessing"
    [] s = "postprocessing" -> "archiving"
    [] OTHER -> "none"

\* continueGenerationJobCancellation, up to its first call.
Cancel(w) ==
  IF w.job.state \in Terminal \/ ~w.job.cancelReq \/ ~w.job.owner THEN Idle
  ELSE IF w.job.prompt THEN Goto(w, "control")
  ELSE IF w.job.started /\ ~w.job.rejected THEN Goto(w, "findInQueue")
  ELSE [w EXCEPT !.pc = "confirm", !.seen = "none"]

\* Where a worker goes once advanceGenerationJob has reached its target: on
\* with the recovered job, to the archive, or back.
Arrived(w) ==
  IF w.pc = "requeue"
  THEN IF w.mode \in {"cancel", "undo"} \/ (w.mode = "sweep" /\ w.job.cancelReq)
       THEN Cancel([w EXCEPT !.mode = IF @ = "sweep" THEN "cancel" ELSE @])
       ELSE Goto(w, "history")
  ELSE IF w.goal = "archiving" THEN Goto(w, "archive") ELSE Idle

Advance(w, pc, target) ==
  LET v == [w EXCEPT !.pc = pc, !.goal = target] IN
  IF v.job.state = target THEN Arrived(v)
  ELSE IF v.job.state \in Terminal \/ Toward(v.job.state, target) = "none" THEN Idle
  ELSE v

\* reconcileGenerationJobStatus.  A status nobody knows still says "queued".
Reconcile(w) ==
  IF w.job.state \in Terminal \/ (w.job.cancelReq /\ ~w.job.cancelConf) THEN Idle
  ELSE IF w.job.cancelConf THEN Release(w, "cancelled")
  ELSE IF ~w.job.owner THEN Fail(w)
  ELSE CASE w.seen \in {"unknown", "pending"} -> Advance(w, "advance", "queued")
         [] w.seen = "running" -> Advance(w, "advance", "running")
         [] w.seen = "error" -> Fail(w)
         [] w.seen = "success" -> Advance(w, "advance", "archiving")
         [] OTHER -> Idle

\* Mutant of Judge: a cancellation is confirmed whatever ComfyUI still holds.
Judge_WhileBusy(w) ==
  IF w.mode \in {"cancel", "undo"} THEN Goto(w, "confirm") ELSE Reconcile(w)

\* What the caller of fetchGenerationStatus does with the answer.
Judge(w) ==
  IF w.mode \in {"cancel", "undo"}
  THEN IF w.seen = "success" \/ (w.seen = "error" /\ ~w.sent) THEN Goto(w, "clear")
       ELSE IF w.seen \in {"pending", "running"} THEN Idle
       ELSE Goto(w, "confirm")
  ELSE IF w.mode = "sweep" /\ w.seen = "unknown" /\ w.old = 2
  THEN Release(w, "expired")
  ELSE Reconcile(w)

\* errGenerationCancellationNotSent
Unsent(w) == IF w.mode = "undo" THEN Goto(w, "clearUnsent") ELSE Idle

\* refreshTrackedGenerationStatuses, for one listed job.
Inspect(w, queued, batch) ==
  LET j == w.job IN
  IF j.state \in Terminal \/ (batch /\ j.state = "draft" /\ ~j.cancelReq) THEN Idle
  ELSE IF ~j.owner THEN Fail(w)
  ELSE IF j.cancelReq THEN Cancel([w EXCEPT !.mode = "cancel"])
  ELSE IF j.prompt THEN Goto(w, "history")
  ELSE IF j.rejected THEN Fail(w)
  ELSE IF queued /\ ~j.started THEN Idle
  ELSE Goto(w, "findInQueue")

-----------------------------------------------------------------------------
Init ==
  /\ \E batch \in BatchModes : row = NewRow(batch)
  /\ worker = [p \in Workers |->
       IF p \in Launchers /\ ~row.batch
       THEN [Idle EXCEPT !.pc = "launch", !.mode = "dispatch", !.job = View(row)]
       ELSE Idle]
  /\ comfy = "absent" /\ held = 0 /\ ready = 0
  /\ sends = 0 /\ crashes = 0

\* One TransitionGenerationJob call.  The current state is accepted too.
AfterTransition(r, s) == IF CanEnter(r, s) THEN Entered(r, s) ELSE r
Move(p, s, ok, ko) ==
  LET r == AfterTransition(row, s) IN
  /\ row' = r
  /\ Become(p, IF r.state = s THEN Holding(ok, r) ELSE ko)

-----------------------------------------------------------------------------
(* handleGenerateRun and dispatchGenerationJobs prepare the job alike.  A
   statement that does not match returns no job, so the failure recorded after
   it reaches none: the call stack only ends. *)

Launch(p) ==
  /\ At(p, "launch")
  /\ Move(p, "preparing", Goto(worker[p], "check"), Idle)
  /\ UNCHANGED world

\* prepareGeneration may refuse the parameters or the owner; a job with
\* references is marked uploading.
Check(p) ==
  /\ At(p, "check")
  /\ \/ Become(p, Fail(worker[p])) /\ UNCHANGED row
     \/ /\ worker[p].job.state = "preparing"
        /\ Move(p, "uploading", Goto(worker[p], "prepare"), Idle)
     \/ /\ Become(p, Goto(worker[p],
                IF worker[p].job.state = "waiting_for_resources"
                THEN "reread" ELSE "prepare"))
        /\ UNCHANGED row
  /\ UNCHANGED world

Prepare(p) ==
  /\ At(p, "prepare")
  /\ IF CanPrepare(row)
     THEN /\ row' = Prepared(row)
          /\ Become(p, Holding(Goto(worker[p], "wait"), row'))
     ELSE Become(p, Idle) /\ UNCHANGED row
  /\ UNCHANGED world

Wait(p) ==
  /\ At(p, "wait")
  /\ Move(p, "waiting_for_resources",
          Goto(worker[p], IF p \in Launchers THEN "reserve" ELSE "reread"), Idle)
  /\ UNCHANGED world

\* ReserveQuickGenerationForJob, which may also find the quota exhausted.
Reserve(p) ==
  /\ At(p, "reserve")
  /\ \/ /\ CanReserve(row)
        /\ row' = Reserved(row)
        /\ Become(p, Goto(worker[p], "publish"))
     \/ Become(p, Fail(worker[p])) /\ UNCHANGED row
  /\ UNCHANGED world

\* QueueGenerationJobDispatch; the handler answers 202 whatever it returns.
Publish(p) ==
  /\ At(p, "publish")
  /\ row' = IF CanQueue(row) THEN Queued(row) ELSE row
  /\ Become(p, Idle)
  /\ UNCHANGED world

-----------------------------------------------------------------------------
(* dispatchGenerationJobs *)

\* A claim's random token differs from every token still held anywhere: tokens
\* are only compared, so one that nobody holds any more can serve again.
TokenBound == Cardinality(Workers) + 2
Unused(token) ==
  token # row.token /\ \A p \in Workers : worker[p].job.token # token

Claim(p) ==
  /\ p \in Dispatchers /\ At(p, "idle")
  /\ CanClaim(row)
  /\ \E token \in 1..TokenBound :
       /\ Unused(token) /\ \A t \in 1..(token - 1) : ~Unused(t)
       /\ row' = Claimed(row, token)
  /\ LET w == [Idle EXCEPT !.pc = "check", !.mode = "dispatch", !.job = View(row')]
     IN  Become(p, IF row.owner THEN w ELSE Fail(w))
  /\ UNCHANGED world

Reread(p) ==
  /\ At(p, "reread")
  /\ LET w == Holding(worker[p], row) IN
     Become(p,
       IF ~row.owner \/ row.token # worker[p].job.token \/ row.state \in Terminal
       THEN Idle
       ELSE IF row.cancelReq THEN Cancel([w EXCEPT !.mode = "cancel"])
       ELSE Goto(w, "admit"))
  /\ UNCHANGED <<row, world>>

\* acquireComfyPromptAdmission: admitted, told to wait, or unable to ask.
Admit(p) ==
  /\ At(p, "admit")
  /\ \/ Become(p, Goto(worker[p], "pause"))
     \/ Become(p, Goto(worker[p], "postpone"))
     \/ "outage" \in Faults /\ Become(p, Fail(worker[p]))
  /\ UNCHANGED <<row, world>>

Admitted(p) == Admit(p) /\ worker'[p].pc = "pause"

Postpone(p) ==
  /\ At(p, "postpone")
  /\ row' = IF CanPostpone(row, worker[p].job.token) THEN Postponed(row) ELSE row
  /\ Become(p, Idle)
  /\ UNCHANGED world

\* pauseMiningForQuickGeneration: no lease if the owner has no such policy or
\* no miner is configured.
Pause(p) ==
  /\ At(p, "pause")
  /\ \/ held' = held /\ Become(p, Goto(worker[p], "begin"))
     \/ /\ row.owner /\ held + ready < MaxLeases
        /\ held' = held + 1 /\ Become(p, Goto(worker[p], "begin"))
     \/ "agent" \in Faults /\ held' = held /\ Become(p, Fail(worker[p]))
  /\ UNCHANGED <<row, comfy, ready, sends, crashes>>

Begin(p) ==
  /\ At(p, "begin")
  /\ IF CanBegin(row, worker[p].job.token)
     THEN row' = Begun(row) /\ Become(p, Goto(worker[p], "post"))
     ELSE row' = row /\ Become(p, Fail(worker[p]))
  /\ UNCHANGED world

Post(p) ==
  /\ At(p, "post")
  /\ sends' = sends + 1
  /\ comfy' = "inflight"
  /\ Become(p, Goto(worker[p], "reply"))
  /\ UNCHANGED <<row, held, ready, crashes>>

Accepted == {"pending", "running", "success", "error", "gone"}

\* Mutant of Reply: any answer but a refusal counts as a receipt.
Reply_TrustsLost(p) ==
  /\ At(p, "reply")
  /\ Become(p, Goto(worker[p], IF comfy = "refused" THEN "reject" ELSE "bind"))
  /\ UNCHANGED <<row, world>>

Reply(p) ==
  /\ At(p, "reply")
  /\ \/ comfy \in Accepted /\ Become(p, Goto(worker[p], "bind"))
     \/ comfy = "refused" /\ Become(p, Goto(worker[p], "reject"))
     \/ /\ comfy = "lost" \/ "lostReply" \in Faults
        /\ Become(p, Fail(worker[p]))
  /\ UNCHANGED <<row, world>>

Reject(p) ==
  /\ At(p, "reject")
  /\ IF CanReject(row, worker[p].job.token)
     THEN row' = Rejected(row) /\ Become(p, Fail(worker[p]))
     ELSE row' = row /\ Become(p, Idle)
  /\ UNCHANGED world

\* BindGenerationJobPrompt, by the dispatcher or by a recovery.
Bind(p) ==
  /\ At(p, "bind") \/ At(p, "found")
  /\ row' = Bound(row)
  /\ Become(p, Holding(Goto(worker[p], IF At(p, "bind") THEN "charge" ELSE "recharge"), row'))
  /\ UNCHANGED world

\* CommitQuickGenerationForJob: its failure only stops a recovery.
Charge(p) ==
  /\ At(p, "charge") \/ At(p, "recharge")
  /\ row' = IF CanCommit(row) THEN Committed(row) ELSE row
  /\ Become(p, IF At(p, "charge") THEN Goto(worker[p], "enqueued")
               ELSE IF CanCommit(row) THEN Advance(worker[p], "requeue", "queued")
               ELSE Idle)
  /\ UNCHANGED world

Enqueued(p) ==
  /\ At(p, "enqueued")
  /\ Move(p, "queued", Idle, Idle)
  /\ UNCHANGED world

-----------------------------------------------------------------------------
(* releaseGenerationJobResources and the transition its callers make.  An
   incomplete release leaves a message and the state. *)

Fence(p) ==
  /\ At(p, "fence")
  /\ IF CanFence(row, worker[p].job.token)
     THEN row' = Fenced(row) /\ Become(p, Goto(worker[p], "refund"))
     ELSE row' = row /\ Become(p, Idle)
  /\ UNCHANGED world

Refund(p) ==
  /\ At(p, "refund")
  /\ row' = Refunded(row)
  /\ Become(p, Goto(worker[p], "resume"))
  /\ UNCHANGED world

\* releaseMiningPauseForJob picks one lease of the job.
Resume(p) ==
  /\ At(p, "resume")
  /\ \/ held + ready = 0 /\ Become(p, Goto(worker[p], "mark")) /\ UNCHANGED <<held, ready>>
     \/ held > 0 /\ Become(p, Goto(worker[p], "mark")) /\ held' = held - 1 /\ ready' = ready
     \/ ready > 0 /\ Become(p, Goto(worker[p], "mark")) /\ ready' = ready - 1 /\ held' = held
     \/ /\ "agent" \in Faults /\ Become(p, Idle)
        /\ \/ held > 0 /\ held' = held - 1 /\ ready' = ready + 1
           \/ ready > 0 /\ UNCHANGED <<held, ready>>
  /\ UNCHANGED <<row, comfy, sends, crashes>>

Mark(p) ==
  /\ At(p, "mark")
  /\ IF row.released \/ held + ready = 0
     THEN /\ row' = Released(row)
          /\ Become(p, Holding(Goto(worker[p], "finish"), row'))
     ELSE row' = row /\ Become(p, Idle)
  /\ UNCHANGED world

Finish(p) ==
  /\ At(p, "finish")
  /\ IF worker[p].goal = "none" THEN row' = row /\ Become(p, Idle)
     ELSE Move(p, worker[p].goal, Idle, Idle)
  /\ UNCHANGED world

-----------------------------------------------------------------------------
(* Reconciliation, status polls and cancellation *)

Sweep(p) ==
  /\ p \in Sweepers /\ At(p, "idle")
  /\ LET w == Inspect(Holding([Idle EXCEPT !.mode = "sweep"], row),
                      row.queued, row.batch)
     IN  w # Idle /\ Become(p, w)
  /\ UNCHANGED <<row, world>>

\* refreshQuickGenerationMiningLeases
SweepLeases(p) ==
  /\ p \in Sweepers /\ At(p, "idle")
  /\ \/ ready > 0 /\ ready' = ready - 1 /\ UNCHANGED worker
     \/ /\ held > 0 /\ row.state \in Terminal /\ ready' = ready
        /\ Become(p, Release([Idle EXCEPT !.mode = "sweep", !.job = View(row)], "none"))
  /\ UNCHANGED <<row, comfy, held, sends, crashes>>

\* handleGenerateStatus, by prompt.
Poll(p) ==
  /\ p \in Viewers /\ At(p, "idle")
  /\ row.owner /\ row.prompt /\ row.state \notin Terminal
  /\ LET w == [Idle EXCEPT !.mode = "view", !.job = View(row)]
     IN  Become(p, IF row.cancelReq THEN Cancel([w EXCEPT !.mode = "cancel"])
                   ELSE Goto(w, "history"))
  /\ UNCHANGED <<row, world>>

\* handleRecoverGeneration, by launch request.
Recover(p) ==
  /\ p \in Viewers /\ At(p, "idle")
  /\ row.owner /\ row.state \notin Terminal
  /\ row.prompt \/ ~row.queued \/ row.started
  /\ Become(p, [Idle EXCEPT !.mode = "view", !.job = View(row),
                            !.pc = IF row.prompt THEN "history" ELSE "findInQueue"])
  /\ UNCHANGED <<row, world>>

\* Cancelling one job takes back a request that could not be sent.
RequestCancel(p) ==
  /\ p \in Cancellers /\ At(p, "idle")
  /\ CanRequestCancel(row)
  /\ row' = CancelRequested(row)
  /\ Become(p, Cancel([Idle EXCEPT !.mode = "undo", !.job = View(row')]))
  /\ UNCHANGED world

\* Cancelling the batch does not; asked again, it carries on what is pending.
CancelBatch(p) ==
  /\ p \in Cancellers /\ At(p, "idle")
  /\ CanCancelBatch(row)
  /\ row' = BatchCancelled(row)
  /\ Become(p, Cancel([Idle EXCEPT !.mode = "cancel", !.job = View(row')]))
  /\ UNCHANGED world

\* findComfyPromptByGenerationJob: the queue, then the history.  A failed read
\* of the queue that the history does not make up for is an error.
FindInQueue(p) ==
  /\ At(p, "findInQueue")
  /\ \/ Become(p, IF comfy \in {"pending", "running"} THEN Goto(worker[p], "found")
                  ELSE Goto(worker[p], "findInHistory"))
     \/ "outage" \in Faults /\ Become(p, Goto(worker[p], "findOnlyInHistory"))
  /\ UNCHANGED <<row, world>>

FindInHistory(p) ==
  /\ At(p, "findInHistory") \/ At(p, "findOnlyInHistory")
  /\ \/ comfy \in {"success", "error"} /\ Become(p, Goto(worker[p], "found"))
     \/ /\ comfy \notin {"success", "error"}
        /\ Become(p, IF /\ At(p, "findInHistory") /\ worker[p].mode = "sweep"
                        /\ ~worker[p].job.started /\ worker[p].old > 0
                     THEN Release(worker[p], "expired") ELSE Idle)
     \/ "outage" \in Faults /\ Become(p, Idle)
  /\ UNCHANGED <<row, world>>

\* Mutant of ReadHistory: an entry is a success whatever its status says.
ReadHistory_AnyEntry(p) ==
  /\ At(p, "history")
  /\ Become(p, IF comfy \in {"success", "error"}
               THEN Judge([worker[p] EXCEPT !.seen = "success"])
               ELSE Goto(worker[p], "queue"))
  /\ UNCHANGED <<row, world>>

\* fetchGenerationStatus: the history, then the queue, whose failure counts
\* as "not there".
ReadHistory(p) ==
  /\ At(p, "history")
  /\ \/ Become(p, IF comfy \in {"success", "error"}
                  THEN Judge([worker[p] EXCEPT !.seen = comfy])
                  ELSE Goto(worker[p], "queue"))
     \/ /\ "outage" \in Faults
        /\ Become(p, IF worker[p].sent THEN Idle ELSE Unsent(worker[p]))
  /\ UNCHANGED <<row, world>>

ReadQueue(p) ==
  /\ At(p, "queue")
  /\ \/ comfy \in {"pending", "running"} /\ Become(p, Judge([worker[p] EXCEPT !.seen = comfy]))
     \/ /\ comfy \notin {"pending", "running"} \/ "outage" \in Faults
        /\ Become(p, Judge([worker[p] EXCEPT !.seen = "unknown"]))
  /\ UNCHANGED <<row, world>>

\* generationQueueState in continueGenerationJobCancellation.
Control(p) ==
  /\ At(p, "control")
  /\ \/ Become(p, Goto(worker[p],
          CASE comfy = "pending" -> "delete"
            [] comfy = "running" -> "interrupt"
            [] OTHER -> "history"))
     \/ "outage" \in Faults /\ Become(p, Unsent(worker[p]))
  /\ UNCHANGED <<row, world>>

\* The control request takes effect only if the prompt is still where it was
\* seen; its reply may be lost either way.
SendControl(p) ==
  /\ At(p, "delete") \/ At(p, "interrupt")
  /\ comfy' = CASE At(p, "delete") /\ comfy = "pending" -> "gone"
                [] At(p, "interrupt") /\ comfy = "running" -> "error"
                [] OTHER -> comfy
  /\ \/ Become(p, [worker[p] EXCEPT !.pc = "history", !.sent = TRUE])
     \/ "outage" \in Faults /\ Become(p, Unsent(worker[p]))
  /\ UNCHANGED <<row, held, ready, sends, crashes>>

ConfirmCancel(p) ==
  /\ At(p, "confirm")
  /\ row' = CancelConfirmed(row)
  /\ Become(p, Reconcile(Holding(worker[p], row')))
  /\ UNCHANGED world

\* ComfyUI had already finished: the request is withdrawn.
ClearCancel(p) ==
  /\ At(p, "clear") \/ At(p, "clearUnsent")
  /\ row' = CancelCleared(row)
  /\ Become(p, IF At(p, "clear") /\ row.owner
               THEN Reconcile(Holding(worker[p], row')) ELSE Idle)
  /\ UNCHANGED world

AdvanceStep(p) ==
  /\ At(p, "advance") \/ At(p, "requeue")
  /\ LET w == worker[p]
         s == Toward(w.job.state, w.goal)
         r == AfterTransition(row, s)
     IN  /\ row' = r
         /\ Become(p, IF r.state = s
                      THEN Advance(Holding(w, r), w.pc, w.goal) ELSE Idle)
  /\ UNCHANGED world

\* archiveGenerationOutputs copies the media, or fails and leaves the job.
Archive(p) ==
  /\ At(p, "archive")
  /\ \/ Become(p, Release(worker[p], "completed"))
     \/ "outage" \in Faults /\ Become(p, Idle)
  /\ UNCHANGED <<row, world>>

-----------------------------------------------------------------------------
(* The world around the workers *)

Crash(p) ==
  /\ ~At(p, "idle") /\ crashes < MaxCrashes
  /\ crashes' = crashes + 1
  /\ Become(p, Idle)
  /\ UNCHANGED <<row, comfy, held, ready, sends>>

\* Launching and dispatching take seconds (a dispatch run is cut off after 45),
\* so minutes pass under them only if the process was suspended.
TimePasses ==
  "stall" \in Faults \/ \A p \in Workers : worker[p].mode # "dispatch"

\* Two minutes, or five, without a state change.
Ages ==
  /\ TimePasses /\ row.age < 2
  /\ row' = [row EXCEPT !.age = @ + 1]
  /\ UNCHANGED <<worker, world>>

LeaseTimesOut ==
  /\ TimePasses /\ row.lease = "live"
  /\ row' = [row EXCEPT !.lease = "past"]
  /\ UNCHANGED <<worker, world>>

OwnerLeaves ==
  /\ "leave" \in Faults /\ row.owner
  /\ row' = [row EXCEPT !.owner = FALSE]
  /\ held' = 0 /\ ready' = 0
  /\ UNCHANGED <<worker, comfy, sends, crashes>>

ComfySteps ==
  [inflight |-> {"pending", "refused", "lost"},
   pending  |-> {"running"} \cup (IF "forget" \in Faults THEN {"gone"} ELSE {}),
   running  |-> {"success", "error"} \cup (IF "forget" \in Faults THEN {"gone"} ELSE {}),
   success  |-> IF "forget" \in Faults THEN {"gone"} ELSE {},
   error    |-> IF "forget" \in Faults THEN {"gone"} ELSE {}]
Comfy ==
  /\ comfy \in DOMAIN ComfySteps
  /\ comfy' \in ComfySteps[comfy]
  /\ UNCHANGED <<row, worker, held, ready, sends, crashes>>

Work(p) ==
  \/ Launch(p) \/ Check(p) \/ Prepare(p) \/ Wait(p) \/ Reserve(p) \/ Publish(p)
  \/ Reread(p) \/ Admit(p) \/ Postpone(p) \/ Pause(p) \/ Begin(p) \/ Post(p)
  \/ Reply(p) \/ Reject(p) \/ Bind(p) \/ Charge(p) \/ Enqueued(p)
  \/ Fence(p) \/ Refund(p) \/ Resume(p) \/ Mark(p) \/ Finish(p)
  \/ FindInQueue(p) \/ FindInHistory(p) \/ ReadHistory(p) \/ ReadQueue(p)
  \/ Control(p) \/ SendControl(p) \/ ConfirmCancel(p) \/ ClearCancel(p)
  \/ AdvanceStep(p) \/ Archive(p)

Start(p) ==
  \/ Claim(p) \/ Sweep(p) \/ SweepLeases(p)
  \/ Poll(p) \/ Recover(p) \/ RequestCancel(p) \/ CancelBatch(p)

Next ==
  \/ \E p \in Workers : Work(p) \/ Start(p) \/ Crash(p)
  \/ Ages \/ LeaseTimesOut \/ OwnerLeaves \/ Comfy

Spec == Init /\ [][Next]_vars

(* The maintenance registry starts every worker again and again, each in its
   own goroutine, and a handler runs to its end; ComfyUI takes, refuses or
   loses a request and finishes what it runs, so its queue drains and lets a
   dispatch in again; the mining agent, asked again and again to take back a
   lease, does so in the end.  Nobody has to poll or to cancel. *)
Fairness ==
  /\ \A p \in Workers : WF_vars(Work(p))
  /\ \A p \in Dispatchers : SF_vars(Claim(p)) /\ SF_vars(Admitted(p))
  /\ \A p \in Sweepers : SF_vars(Sweep(p)) /\ SF_vars(SweepLeases(p))
  /\ WF_vars(Comfy) /\ WF_vars(Ages) /\ WF_vars(LeaseTimesOut)
FairSpec == Spec /\ Fairness

-----------------------------------------------------------------------------
(* Properties *)

ComfyStates == {"absent", "inflight", "lost", "refused"} \cup Accepted
Busy == {"inflight", "pending", "running"}
Produced == {"success", "gone"}

ViewSet ==
  [state : States, owner : BOOLEAN, token : Nat, started : BOOLEAN,
   rejected : BOOLEAN, prompt : BOOLEAN, cancelReq : BOOLEAN,
   cancelConf : BOOLEAN]
PCs ==
  {"idle", "launch", "check", "prepare", "wait", "reserve", "publish",
   "reread", "admit", "postpone", "pause", "begin", "post", "reply", "reject",
   "bind", "charge", "enqueued", "found", "recharge", "requeue", "advance",
   "fence", "refund", "resume", "mark", "finish", "findInQueue",
   "findInHistory", "findOnlyInHistory", "history", "queue", "control",
   "delete", "interrupt", "confirm", "clear", "clearUnsent", "archive"}
WorkerSet ==
  [pc : PCs, mode : {"none", "dispatch", "sweep", "view", "cancel", "undo"},
   goal : States \cup {"none"},
   seen : {"none", "unknown", "pending", "running", "success", "error"},
   sent : BOOLEAN, job : ViewSet, old : Elapsed]

TypeOK ==
  /\ row \in Row
  /\ worker \in [Workers -> WorkerSet]
  /\ comfy \in ComfyStates
  /\ held \in Nat /\ ready \in Nat /\ sends \in Nat /\ crashes \in Nat

\* ComfyUI is asked at most once to run a job, however many workers claim it,
\* crash or come back late (BeginGenerationJobSubmission).
AtMostOneSend == sends <= 1

\* Once the fence has let the quota and the mining leases go, the hand-off is
\* over: it never began, ComfyUI refused it, or its prompt is recorded
\* (FenceGenerationJobResourceRelease against a send in progress).
ClosedIsSettled == row.closed /\ ~row.prompt => comfy \in {"absent", "refused"}

\* A job ends only when ComfyUI no longer has work of it.
EndedIsStopped == row.state \in Terminal => comfy \notin Busy

\* A job completes only with the outputs ComfyUI produced, through however
\* many resumed reconciliations.
CompletedAfterSuccess == row.state = "completed" => comfy \in Produced

\* The quota of a job is charged only once ComfyUI has its prompt.
ChargedWasAccepted == row.committed => comfy \in Accepted

\* A finished job that was not charged has its reservation back.
NoQuotaLeak == row.state \in Terminal => ~row.reserved \/ row.committed

\* A terminal job never changes its state and is never sent again, whoever
\* still holds an old copy of it.
TerminalIsFinal ==
  [][ row.state \in Terminal => row'.state = row.state /\ sends' = sends ]_vars

\* Every job ends, unless the request that may have started it got no useful
\* answer, or was never made, and ComfyUI does not know it: that job waits for
\* positive evidence.
Unanswered == ~Settled(row) /\ comfy \in {"absent", "lost", "refused"}
JobEnds == <>(row.state \in Terminal) \/ <>[]Unanswered

-----------------------------------------------------------------------------
(* The inductive invariant behind AtMostOneSend and ClosedIsSettled. *)

\* What the position of a worker tells about the job: a request is only ever
\* about to be sent under a marker nobody else has used, a receipt or refusal
\* is only recorded if ComfyUI gave it, and resources are let go behind the
\* fence.
PositionOK(p) ==
  /\ At(p, "post") =>
       /\ row.started /\ ~row.rejected /\ ~row.prompt
       /\ comfy = "absent" /\ sends = 0
  /\ At(p, "reply") => comfy # "absent"
  /\ At(p, "reject") => comfy = "refused"
  /\ At(p, "bind") \/ At(p, "found") => comfy \in Accepted
  /\ worker[p].pc \in {"refund", "resume", "mark", "finish"} => row.closed
  /\ At(p, "finish") => row.released

OnePoster == \A p, q \in Workers : At(p, "post") /\ At(q, "post") => p = q

\* What the row says about the hand-off is true.
RowOK ==
  /\ ~row.started => comfy = "absent" /\ ~row.rejected /\ ~row.prompt
  /\ row.rejected => comfy = "refused"
  /\ row.prompt => comfy \in Accepted
  /\ row.closed => Settled(row)
  /\ row.released => row.closed
  /\ row.state \in Terminal => row.released
  /\ row.committed => row.prompt

SendsOK == sends = IF comfy = "absent" THEN 0 ELSE 1

\* A worker never acts on a hand-off that is not the recorded one: the whole
\* protocol state behind AtMostOneSend and ClosedIsSettled.
HandoffInv ==
  TypeOK /\ (\A p \in Workers : PositionOK(p)) /\ OnePoster /\ RowOK /\ SendsOK

\* The refinement of GenerationHandoff: the row records the outcome with a
\* prompt or a refusal, and the fence lets the resources go.
Handoff == INSTANCE GenerationHandoff WITH
  outcome  <- CASE comfy = "absent" -> "unsent"
                [] comfy \in {"inflight", "lost"} -> "sent"
                [] comfy = "refused" -> "refused"
                [] OTHER -> "accepted",
  recorded <- row.prompt \/ row.rejected,
  released <- row.closed

\* The dispatch, with its crashes, stale workers and lost replies, keeps the
\* promise of GenerationHandoff.
HandoffSpec == Handoff!Spec
=============================================================================
