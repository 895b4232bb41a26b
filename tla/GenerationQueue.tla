-------------------------- MODULE GenerationQueue --------------------------
(***************************************************************************)
(* Which generation job is dispatched next.                                *)
(*                                                                         *)
(* Browser launches and the children of batches wait in one table, from    *)
(* which ClaimNextGenerationDispatch takes one at a time under an advisory *)
(* lock (internal/store/generation_dispatch.go).  The children of a batch  *)
(* go one after the other, and at most MaxActive children of all batches   *)
(* are between claim and end.                                              *)
(*                                                                         *)
(* The claim prefers the oldest row, with a head start for some owners,    *)
(* but skips rows another transaction has locked: any candidate may be the *)
(* one, and the order shows only as fairness.  The life of one job in all  *)
(* its detail is GenerationJob's matter.                                   *)
(***************************************************************************)
EXTENDS Naturals, FiniteSets

CONSTANTS
  Launches,     \* jobs a browser launches one by one
  Batches,      \* what each batch creates: a sequence of jobs, by position
  MaxActive     \* maxActiveGenerationBatchJobs

Children == UNION {{b[i] : i \in DOMAIN b} : b \in Batches}
Jobs == Launches \cup Children

\* A job is launched or belongs to one batch, and there are finitely many.
ASSUME QueueAssumption ==
  /\ MaxActive \in Nat /\ IsFiniteSet(Children) /\ Launches \cap Children = {}
  /\ \A b, c \in Batches : \A i \in DOMAIN b, k \in DOMAIN c : b[i] = c[k] => b = c

VARIABLES
  state,     \* "none", "draft", "waiting", "active", "over"
  queued,    \* dispatch_queued_at IS NOT NULL
  claim,     \* dispatch_until: "none", "live", "past"
  cancelled, \* cancellation_requested_at IS NOT NULL
  sent       \* submission_started_at IS NOT NULL and nothing known of its outcome
queueVars == <<state, queued, claim, cancelled, sent>>

QueueTypeOK ==
  /\ state \in [Jobs -> {"none", "draft", "waiting", "active", "over"}]
  /\ queued \subseteq Jobs /\ cancelled \subseteq Jobs /\ sent \subseteq Jobs
  /\ claim \in [Jobs -> {"none", "live", "past"}]

QueueInit ==
  /\ state = [j \in Jobs |-> "none"] /\ claim = [j \in Jobs |-> "none"]
  /\ queued = {} /\ cancelled = {} /\ sent = {}

Batch(j) == CHOOSE b \in Batches : \E i \in DOMAIN b : b[i] = j
Siblings(j) == {Batch(j)[i] : i \in DOMAIN Batch(j)} \ {j}
Earlier(j) ==
  {s \in Siblings(j) : \E i, k \in DOMAIN Batch(j) :
                          i < k /\ Batch(j)[i] = s /\ Batch(j)[k] = j}
Busy(j) == state[j] \in {"waiting", "active"}

-----------------------------------------------------------------------------
(* ClaimGenerationJob and QueueGenerationJobDispatch: a launch is published  *)
(* only when its payload and its reservation are stored.                     *)
Launch(j) ==
  /\ j \in Launches /\ state[j] = "none"
  /\ state' = [state EXCEPT ![j] = "waiting"]
  /\ UNCHANGED <<queued, claim, cancelled, sent>>

Publish(j) ==
  /\ j \in Launches /\ state[j] = "waiting" /\ j \notin cancelled
  /\ queued' = queued \cup {j}
  /\ UNCHANGED <<state, claim, cancelled, sent>>

\* CreateGenerationBatch
CreateBatch(b) ==
  /\ \A i \in DOMAIN b : state[b[i]] = "none"
  /\ state' = [j \in Jobs |-> IF \E i \in DOMAIN b : b[i] = j THEN "draft" ELSE state[j]]
  /\ UNCHANGED <<queued, claim, cancelled, sent>>

-----------------------------------------------------------------------------
Undispatched(j) == state[j] \in {"draft", "waiting"} /\ j \notin sent \cup cancelled

\* Mutant of ChildMayGo: a child that was claimed before counts itself as busy.
ChildMayGo_CountsItself(j) ==
  /\ \A s \in Siblings(j) \cup {j} : ~Busy(s)
  /\ \A s \in Earlier(j) : state[s] = "draft" => s \in cancelled
  /\ Cardinality({c \in Children \ {j} : Busy(c)}) < MaxActive

\* Mutant of ChildMayGo: the batches may have one child more than their limit.
ChildMayGo_OneMore(j) ==
  /\ \A s \in Siblings(j) : ~Busy(s)
  /\ \A s \in Earlier(j) : state[s] = "draft" => s \in cancelled
  /\ Cardinality({c \in Children \ {j} : Busy(c)}) <= MaxActive

\* No sibling is on its way, none before it still has to go, and the batches have
\* room for one more child.
ChildMayGo(j) ==
  /\ \A s \in Siblings(j) : ~Busy(s)
  /\ \A s \in Earlier(j) : state[s] = "draft" => s \in cancelled
  /\ Cardinality({c \in Children \ {j} : Busy(c)}) < MaxActive

Claim(j) ==
  /\ Undispatched(j) /\ claim[j] # "live"
  /\ \/ j \in Launches /\ j \in queued
     \/ j \in Children /\ (state[j] = "draft" \/ j \in queued) /\ ChildMayGo(j)
  /\ state' = [state EXCEPT ![j] = "waiting"]
  /\ queued' = queued \cup {j}
  /\ claim' = [claim EXCEPT ![j] = "live"]
  /\ UNCHANGED <<cancelled, sent>>

\* The lease runs out: its dispatcher died, is late, or gave the job back for a few
\* seconds because ComfyUI's queue is full (PostponeGenerationDispatch).
LeaseEnds(j) ==
  /\ claim[j] = "live" /\ claim' = [claim EXCEPT ![j] = "past"]
  /\ UNCHANGED <<state, queued, cancelled, sent>>

\* BeginGenerationJobSubmission
Begin(j) ==
  /\ Undispatched(j) /\ claim[j] = "live"
  /\ sent' = sent \cup {j}
  /\ UNCHANGED <<state, queued, claim, cancelled>>

\* The prompt is bound, by the dispatcher or by a recovery of a lost reply.
Bind(j) ==
  /\ j \in sent /\ state[j] = "waiting"
  /\ state' = [state EXCEPT ![j] = "active"]
  /\ sent' = sent \ {j}
  /\ UNCHANGED <<queued, claim, cancelled>>

\* A job ends: refused, unusable, expired, completed or cancelled; not while the
\* outcome of its submission is unknown.
Over(j) ==
  /\ state' = [state EXCEPT ![j] = "over"]
  /\ queued' = queued \ {j} /\ claim' = [claim EXCEPT ![j] = "past"]

EndJob(j) ==
  /\ j \notin sent
  /\ \/ state[j] = "active"
     \/ state[j] = "waiting" /\ (j \in Launches \/ claim[j] = "live")
  /\ Over(j)
  /\ UNCHANGED <<cancelled, sent>>

Refuse(j) ==
  /\ j \in sent /\ Over(j)
  /\ sent' = sent \ {j}
  /\ UNCHANGED cancelled

\* RequestGenerationJobCancellation, RequestGenerationBatchCancellation
Cancellable(j) == state[j] \in {"draft", "waiting", "active"}
RequestCancel(j) ==
  /\ Cancellable(j) /\ cancelled' = cancelled \cup {j}
  /\ UNCHANGED <<state, queued, claim, sent>>
CancelBatch(b) ==
  /\ cancelled' = cancelled \cup {b[i] : i \in {k \in DOMAIN b : Cancellable(b[k])}}
  /\ UNCHANGED <<state, queued, claim, sent>>

\* continueGenerationJobCancellation, from the sweep or the request itself.
Cancel(j) ==
  /\ j \in cancelled /\ Cancellable(j) /\ j \notin sent
  /\ Over(j)
  /\ UNCHANGED <<cancelled, sent>>

QueueNext ==
  \/ \E j \in Jobs : \/ Launch(j) \/ Publish(j) \/ Claim(j) \/ LeaseEnds(j)
                     \/ Begin(j) \/ Bind(j) \/ EndJob(j) \/ Refuse(j) \/ RequestCancel(j)
                     \/ Cancel(j)
  \/ \E b \in Batches : CreateBatch(b) \/ CancelBatch(b)

QueueSpec == QueueInit /\ [][QueueNext]_queueVars

(* The dispatcher runs again and again and takes the oldest candidate, so no   *)
(* candidate is passed for ever; admission lets a claimed job in at last; the  *)
(* sweep ends what ComfyUI ended and carries cancellations on.  Nobody has to  *)
(* answer a submission.                                                        *)
QueueFairness ==
  \A j \in Children : /\ SF_queueVars(Claim(j)) /\ SF_queueVars(Begin(j))
                      /\ WF_queueVars(LeaseEnds(j) \/ EndJob(j) \/ Cancel(j))

-----------------------------------------------------------------------------
(* Properties. *)

\* The children of a batch go one at a time and in their order, and all batches
\* together keep to their limit, however claims, lost leases and cancellations of
\* single children mix.
BatchInTurn ==
  /\ \A j \in Children : Busy(j) =>
       /\ \A s \in Siblings(j) : ~Busy(s)
       /\ \A s \in Earlier(j) : state[s] = "draft" => s \in cancelled
  /\ Cardinality({c \in Children : Busy(c)}) <= MaxActive

\* Every child of a batch gets through, unless some submission was never answered:
\* such a job keeps its place in the limit, and its batch, for good.
TurnComes ==
  \A j \in Children : state[j] = "draft" ~> state[j] = "over" \/ sent # {}
=============================================================================
