------------------------- MODULE GenerationStore -------------------------
(***************************************************************************)
(* One row of generation_jobs and the guarded UPDATE statements of         *)
(* internal/store that change it.  Each statement is a guard over the row  *)
(* ("the WHERE clause matches") and the row it leaves.  PostgreSQL runs a  *)
(* statement, or a transaction that locked the row, atomically, so callers *)
(* use a guard and its row in one step.                                    *)
(*                                                                         *)
(* Timestamps are kept only as far as a guard reads them: NULL or not, the *)
(* dispatch deadline as "none", "live" or "past", and the time since the   *)
(* last state change as 0 (recent), 1 (over two minutes) or 2 (over five). *)
(***************************************************************************)
EXTENDS Naturals

(* internal/domain/generation_job.go: the states and what they allow. *)
Terminal == {"completed", "failed", "cancelled", "expired"}

Cancellable == {"draft", "preparing", "uploading", "waiting_for_resources",
                "queued", "running"}

States == Cancellable \cup {"postprocessing", "archiving"} \cup Terminal

\* generationJobTransitions; every state that is not terminal may also fail
\* or expire, and every cancellable one may be cancelled.
Progress ==
  [s \in States |->
     CASE s = "draft" -> {"preparing"}
       [] s = "preparing" -> {"uploading", "waiting_for_resources"}
       [] s = "uploading" -> {"waiting_for_resources"}
       [] s = "waiting_for_resources" -> {"queued"}
       [] s = "queued" -> {"running", "postprocessing"}
       [] s = "running" -> {"postprocessing"}
       [] s = "postprocessing" -> {"archiving"}
       [] s = "archiving" -> {"completed"}
       [] OTHER -> {}]

\* Mutant of CanTransition: a finished job may still fail or expire.
CanTransition_FromTerminal(from, to) ==
  \/ to \in Progress[from] \cup {"failed", "expired"}
  \/ from \in Cancellable /\ to = "cancelled"

CanTransition(from, to) ==
  \/ to \in Progress[from]
  \/ from \notin Terminal /\ to \in {"failed", "expired"}
  \/ from \in Cancellable /\ to = "cancelled"

-----------------------------------------------------------------------------
Elapsed == 0..2   \* recent, over two minutes, over five
NoToken == 0      \* dispatch_token = ''; a claim draws a fresh positive number

Row ==
  [state      : States,
   batch      : BOOLEAN,   \* batch_id IS NOT NULL
   batchReq   : BOOLEAN,   \* generation_batches.cancellation_requested_at IS NOT NULL
   owner      : BOOLEAN,   \* user_id IS NOT NULL
   payload    : BOOLEAN,   \* octet_length(payload_cipher) > 0
   queued     : BOOLEAN,   \* dispatch_queued_at IS NOT NULL
   token      : Nat,       \* dispatch_token
   lease      : {"none", "live", "past"},             \* dispatch_until
   closed     : BOOLEAN,   \* dispatch_closed_at IS NOT NULL
   started    : BOOLEAN,   \* submission_started_at IS NOT NULL
   rejected   : BOOLEAN,   \* submission_rejected_at IS NOT NULL
   prompt     : BOOLEAN,   \* prompt_id IS NOT NULL
   cancelReq  : BOOLEAN,   \* cancellation_requested_at IS NOT NULL
   cancelConf : BOOLEAN,   \* cancellation_confirmed_at IS NOT NULL
   released   : BOOLEAN,   \* resources_released_at IS NOT NULL
   reserved   : BOOLEAN,   \* quota_reserved_on IS NOT NULL
   committed  : BOOLEAN,   \* quota_committed_at IS NOT NULL
   age        : Elapsed]      \* now() - state_changed_at

\* What ClaimGenerationJob inserts for a browser launch (batch = FALSE) and
\* CreateGenerationBatch for a batch child, whose payload is stored and whose
\* quota is reserved in the inserting transaction.
NewRow(batch) ==
  [state |-> "draft", batch |-> batch, batchReq |-> FALSE, owner |-> TRUE,
   payload |-> batch, queued |-> FALSE, token |-> NoToken, lease |-> "none", closed |-> FALSE,
   started |-> FALSE, rejected |-> FALSE, prompt |-> FALSE,
   cancelReq |-> FALSE, cancelConf |-> FALSE, released |-> FALSE,
   reserved |-> batch, committed |-> FALSE, age |-> 0]

\* The outcome of the submission is known: it never began, ComfyUI refused
\* it, or the prompt it became is recorded.
Settled(r) == r.prompt \/ ~r.started \/ r.rejected

-----------------------------------------------------------------------------
(* TransitionGenerationJob, for a target other than the current state. *)
CanEnter(r, s) ==
  /\ CanTransition(r.state, s)
  /\ s = "queued" => r.prompt
  /\ s \in Terminal => r.released
Entered(r, s) == [r EXCEPT !.state = s, !.age = 0]

CanPrepare(r) == r.state \in {"draft", "preparing", "uploading"}
Prepared(r) == [r EXCEPT !.payload = TRUE]

(* BindGenerationJobPrompt: the first binding wins, the same prompt is
   accepted again. *)
Bound(r) == [r EXCEPT !.prompt = TRUE]

-----------------------------------------------------------------------------
(* generation_dispatch.go *)
\* Mutant of Dispatchable: the submission marker is not looked at.
Dispatchable_Unmarked(r) == ~r.prompt /\ ~r.cancelReq /\ ~r.closed /\ ~r.released

Dispatchable(r) ==
  /\ ~r.prompt /\ ~r.started /\ ~r.cancelReq /\ ~r.closed /\ ~r.released

CanQueue(r) ==
  /\ Dispatchable(r)
  /\ r.state = "waiting_for_resources" /\ ~r.batch
  /\ r.reserved /\ r.payload
Queued(r) == [r EXCEPT !.queued = TRUE]

\* Mutant of CanClaim: a batch child is only ever claimed as a draft.
CanClaim_OnlyDrafts(r) ==
  /\ Dispatchable(r) /\ ~r.batchReq /\ r.lease # "live"
  /\ IF r.batch THEN r.state = "draft"
                ELSE r.queued /\ r.state = "waiting_for_resources"

CanClaim(r) ==
  /\ Dispatchable(r) /\ ~r.batchReq
  /\ r.lease # "live"
  /\ \/ ~r.batch /\ r.queued /\ r.state = "waiting_for_resources"
     \/ r.batch /\ r.state = "draft"
     \/ /\ r.batch /\ r.queued
        /\ r.state \in {"preparing", "uploading", "waiting_for_resources"}
Claimed(r, tok) ==
  [r EXCEPT !.queued = TRUE, !.token = tok, !.lease = "live",
            !.state = IF @ = "draft" THEN "preparing" ELSE @,
            !.age = IF r.state = "draft" THEN 0 ELSE @]

CanBegin(r, tok) ==
  /\ Dispatchable(r)
  /\ tok # NoToken /\ r.token = tok /\ r.lease = "live"
  /\ r.state = "waiting_for_resources"
Begun(r) == [r EXCEPT !.started = TRUE]

CanPostpone(r, tok) ==
  Dispatchable(r) /\ r.token = tok /\ r.state = "waiting_for_resources"
Postponed(r) == [r EXCEPT !.token = NoToken, !.lease = "live"]

CanReject(r, tok) == r.token = tok /\ r.started /\ ~r.prompt
Rejected(r) == [r EXCEPT !.rejected = TRUE]

\* Mutant of CanFence: the outcome of the submission is not looked at.
CanFence_Unsettled(r, tok) == r.token \in {tok, NoToken} \/ r.prompt

CanFence(r, tok) ==
  /\ r.token \in {tok, NoToken} \/ r.prompt
  /\ Settled(r)
Fenced(r) ==
  [r EXCEPT !.closed = TRUE, !.lease = "past", !.queued = FALSE,
            !.token = NoToken]

-----------------------------------------------------------------------------
(* generation_quota.go: the reservation columns of the row. *)
CanReserve(r) == r.owner /\ (r.reserved \/ r.state = "waiting_for_resources")
Reserved(r) == [r EXCEPT !.reserved = TRUE]

CanCommit(r) == r.committed \/ (r.reserved /\ r.prompt)
Committed(r) == [r EXCEPT !.committed = TRUE]

\* Mutant of Refunded: a job ComfyUI has accepted keeps its reservation.
Refunded_IfUnsent(r) == [r EXCEPT !.reserved = @ /\ (r.committed \/ r.prompt)]

\* Only an uncommitted reservation is given back.
Refunded(r) == [r EXCEPT !.reserved = @ /\ r.committed]

-----------------------------------------------------------------------------
(* Resource release and cancellation columns. *)
Released(r) == [r EXCEPT !.released = TRUE]

CanRequestCancel(r) == r.owner /\ r.state \in Cancellable
CancelRequested(r) == [r EXCEPT !.cancelReq = TRUE]

\* RequestGenerationBatchCancellation marks the children only the first time.
CanCancelBatch(r) == r.batch /\ r.owner
BatchCancelled(r) ==
  [r EXCEPT !.batchReq = TRUE,
            !.cancelReq = @ \/ (~r.batchReq /\ CanRequestCancel(r))]

CancelCleared(r) ==
  IF r.owner /\ r.cancelReq /\ r.state \notin Terminal
  THEN [r EXCEPT !.cancelReq = FALSE, !.cancelConf = FALSE]
  ELSE r

CancelConfirmed(r) ==
  IF r.cancelReq /\ r.state \notin Terminal /\ Settled(r)
  THEN [r EXCEPT !.cancelConf = TRUE]
  ELSE r
=============================================================================
