---------------------------- MODULE LoraTraining ----------------------------
(***************************************************************************)
(* The hand-off of LoRA training from the Gateway to the training agent.   *)
(*                                                                         *)
(* The Gateway keeps a row per job (internal/store/lora_training.go) and   *)
(* one maintenance worker, refreshLoraTrainingJobs, reconciles the active  *)
(* row with the agent and then claims and uploads the next one.  The agent *)
(* (internal/trainingagent) keeps a record per job in memory and on disk,  *)
(* a queue, one worker and the fences of submissions it must never accept. *)
(* Calls between them are lost, late or answered to nobody; both restart.  *)
(*                                                                         *)
(* preparing, caching, running and installing are one state, "training":   *)
(* the code treats them alike.  "unconfirmed" is a failed record with      *)
(* execution_unconfirmed.  Any queued job may be claimed: the order of the *)
(* claim is GpuAdmission's matter.                                         *)
(***************************************************************************)
EXTENDS Naturals, Sequences

CONSTANTS
  Jobs,         \* LoRA training jobs, one owner each
  Patient,      \* jobs whose owner neither cancels nor deletes them
  Gateways,     \* Gateway processes
  Faults,       \* which of FaultKinds may happen
  MaxCrashes    \* bound: restarts of a Gateway and of the agent

FaultKinds == {"lost",    \* a call fails, or its answer is lost
               "store",   \* a requeue cannot be written
               "giveUp",  \* Submit stops waiting for the queue
               "retention"} \* the agent deletes failed records by itself

ASSUME LoraFaultsAssumption == Faults \subseteq FaultKinds /\ MaxCrashes \in Nat

VARIABLES
  row,      \* lora_training_jobs
  leases,   \* jobs whose mining lease is not marked ready to resume
  gw,       \* each Gateway's refreshLoraTrainingJobs
  agentUp,
  record,   \* controller.jobs: the state of each job's record in memory
  disk,     \* the same, status.json
  late,     \* copies of a record taken under the lock and not yet written
  fences,   \* submission fences, on disk before they are in memory
  queue,    \* controller.queue
  worker,   \* the job execute() is on
  killed,   \* whether record.cancel() was called for it
  upload,   \* each job's POST /v1/jobs
  procs,    \* jobs with a living training process, orphans included
  ran,      \* history: jobs whose process was started
  crashes
agentVars == <<agentUp, record, disk, late, fences, queue, worker, killed, procs, ran>>
vars == <<row, leases, gw, agentVars, upload, crashes>>

None == "none"

ASSUME NoneAssumption == None \notin Jobs

-----------------------------------------------------------------------------
Open == {"uploading", "training"}
Ended == {"completed", "failed", "cancelled"}     \* LoraTrainingState.Terminal
RowStates == {"absent", "queued", "deleted"} \cup Open \cup Ended
Records == {None, "queued", "training", "unconfirmed"} \cup Ended
Uploads == {None, "sent", "accepted", "answered", "refused"}
Steps == {"off", "idle", "drop", "lookup", "adopt", "fence", "settle", "close",
          "cancel", "poll", "write", "prepare", "begin", "requeue", "send",
          "wait", "attach"}

TypeOK ==
  /\ row \in [Jobs -> [state : RowStates, attached : BOOLEAN, begun : BOOLEAN,
                       cancel : BOOLEAN, files : BOOLEAN]]
  /\ leases \subseteq Jobs
  /\ gw \in [Gateways -> [at : Steps, job : Jobs \cup {None}, cancel : BOOLEAN,
                          said : Records]]
  /\ agentUp \in BOOLEAN
  /\ record \in [Jobs -> Records] /\ disk \in [Jobs -> Records]
  /\ late \in [Jobs -> SUBSET Records]
  /\ fences \subseteq Jobs
  /\ queue \in Seq(Jobs) /\ worker \in Jobs \cup {None} /\ killed \in BOOLEAN
  /\ upload \in [Jobs -> Uploads]
  /\ procs \subseteq Jobs /\ ran \subseteq Jobs
  /\ crashes \in Nat

Idle == [at |-> "idle", job |-> None, cancel |-> FALSE, said |-> None]
Off == [Idle EXCEPT !.at = "off"]

Init ==
  /\ row = [j \in Jobs |-> [state |-> "absent", attached |-> FALSE, begun |-> FALSE,
                            cancel |-> FALSE, files |-> FALSE]]
  /\ leases = {} /\ gw = [g \in Gateways |-> Idle]
  /\ agentUp = TRUE
  /\ record = [j \in Jobs |-> None] /\ disk = record
  /\ late = [j \in Jobs |-> {}]
  /\ fences = {} /\ queue = <<>> /\ worker = None /\ killed = FALSE
  /\ upload = [j \in Jobs |-> None]
  /\ procs = {} /\ ran = {} /\ crashes = 0

Go(g, to) == gw' = [gw EXCEPT ![g] = to]
Rest(g) == Go(g, Idle)

-----------------------------------------------------------------------------
(* The store. *)

\* UpdateLoraTrainingJob, with the clean-up that follows a terminal state.
Update(j, state) ==
  /\ row' = [row EXCEPT ![j].state = IF @ = "deleted" THEN @ ELSE state,
                        ![j].files = @ /\ state \notin Ended]
  /\ leases' = IF state \in Ended THEN leases \ {j} ELSE leases

CanAttach(j) == row[j].state = "uploading"
Attached(j) == [row EXCEPT ![j].state = "training", ![j].attached = TRUE]

\* Not yet submitted: it may go back to the queue.
Unsent(j) == row[j].state = "uploading" /\ ~row[j].attached /\ ~row[j].begun

\* CreateLoraTrainingJob
Create(j) ==
  /\ row[j].state = "absent"
  /\ row' = [row EXCEPT ![j].state = "queued", ![j].files = TRUE]
  /\ UNCHANGED <<leases, gw, agentVars, upload, crashes>>

-----------------------------------------------------------------------------
(* The agent's Cancel, as called by a handler, the worker and the fence. *)
Cancelled(j) == IF record[j] = "queued" THEN "cancelled" ELSE record[j]

AgentCancel(j) ==
  /\ record' = [record EXCEPT ![j] = Cancelled(j)]
  /\ late' = IF record[j] \in {"queued", "training"}
             THEN [late EXCEPT ![j] = @ \cup {Cancelled(j)}] ELSE late
  /\ killed' = (killed \/ worker = j)
  /\ UNCHANGED <<agentUp, disk, queue, worker, procs, ran>>

\* The user cancels: the row, and at once the agent if it can be reached.
RequestCancel(j) ==
  /\ row[j].state \in {"queued"} \cup Open
  /\ LET ends == row[j].state = "queued"
     IN  /\ row' = [row EXCEPT ![j].cancel = TRUE,
                               ![j].state = IF ends THEN "cancelled" ELSE @,
                               ![j].files = @ /\ ~ends]
         /\ leases' = IF ends THEN leases \ {j} ELSE leases
  /\ \/ /\ row[j].attached /\ agentUp
        /\ AgentCancel(j) /\ UNCHANGED fences
     \/ UNCHANGED agentVars
  /\ UNCHANGED <<gw, upload, crashes>>

\* deleteLoraTrainingJob: by the owner, an administrator or the daily clean-up.
AgentCanDelete(j) == agentUp /\ record[j] \in Ended
AgentDelete(j) ==
  /\ record' = [record EXCEPT ![j] = None] /\ disk' = [disk EXCEPT ![j] = None]
  /\ late' = [late EXCEPT ![j] = {}]
  /\ UNCHANGED <<agentUp, fences, queue, worker, killed, procs, ran>>

Delete(j) ==
  /\ row[j].state \in Ended
  /\ \/ /\ row[j].attached /\ AgentCanDelete(j) /\ AgentDelete(j)
     \/ /\ row[j].attached /\ agentUp /\ record[j] = None /\ UNCHANGED agentVars
     \/ /\ ~row[j].attached /\ row[j].state # "completed" /\ UNCHANGED agentVars
  /\ \/ /\ row' = [row EXCEPT ![j].state = "deleted", ![j].files = FALSE]
        /\ leases' = leases \ {j}
     \/ "lost" \in Faults /\ row[j].attached /\ UNCHANGED <<row, leases>>
  /\ UNCHANGED <<gw, upload, crashes>>

\* Mutant of SweepLease: only a job the agent is known to train keeps its lease.
SweepLease_UnlessTraining(j) ==
  /\ j \in leases /\ row[j].state # "training"
  /\ leases' = leases \ {j}
  /\ UNCHANGED <<row, gw, agentVars, upload, crashes>>

\* refreshQuickGenerationMiningLeases, for the lease of a training job.
SweepLease(j) ==
  /\ j \in leases /\ row[j].state \in Ended
  /\ leases' = leases \ {j}
  /\ UNCHANGED <<row, gw, agentVars, upload, crashes>>

-----------------------------------------------------------------------------
(* refreshLoraTrainingJobs: the active rows. *)

\* Mutant of Refresh: only attached and cancelled rows are looked at.
Refresh_Attached(g, j) ==
  /\ gw[g].at = "idle" /\ row[j].state \in Open
  /\ row[j].attached \/ row[j].cancel
  /\ Go(g, [at |-> IF ~row[j].attached THEN "drop"
                   ELSE IF row[j].cancel THEN "cancel" ELSE "poll",
            job |-> j, cancel |-> row[j].cancel, said |-> None])
  /\ UNCHANGED <<row, leases, agentVars, upload, crashes>>

\* The list of active rows is read once; what follows acts on that reading.
Refresh(g, j) ==
  /\ gw[g].at = "idle" /\ row[j].state \in Open
  /\ \/ row[j].attached \/ row[j].begun \/ row[j].cancel
  /\ Go(g, [at |-> CASE row[j].attached /\ row[j].cancel -> "cancel"
                     [] row[j].attached /\ ~row[j].cancel -> "poll"
                     [] ~row[j].attached /\ row[j].begun -> "lookup"
                     [] OTHER -> "drop",
            job |-> j, cancel |-> row[j].cancel, said |-> None])
  /\ UNCHANGED <<row, leases, agentVars, upload, crashes>>

\* Cancelled before any submission began.
Drop(g) ==
  /\ gw[g].at = "drop"
  /\ Update(gw[g].job, "cancelled") /\ Rest(g)
  /\ UNCHANGED <<agentVars, upload, crashes>>

\* A call to the agent fails: nothing was recorded, the next pass asks again.
CallFails(g) ==
  /\ "lost" \in Faults \/ ~agentUp
  /\ gw[g].at \in {"lookup", "fence", "cancel", "poll"}
  /\ Rest(g)
  /\ UNCHANGED <<row, leases, agentVars, upload, crashes>>

\* recoverLoraTrainingSubmission: is there a record under the Gateway's id?
Lookup(g) ==
  LET j == gw[g].job
  IN  /\ gw[g].at = "lookup" /\ agentUp
      /\ Go(g, CASE record[j] = None -> [gw[g] EXCEPT !.at = "fence"]
                 [] record[j] = "unconfirmed" -> Idle
                 [] OTHER -> [gw[g] EXCEPT !.at = "adopt"])
      /\ UNCHANGED <<row, leases, agentVars, upload, crashes>>

\* The accepted job is attached, and watched as the row now says.
Adopt(g) ==
  LET j == gw[g].job
  IN  /\ gw[g].at = "adopt"
      /\ IF CanAttach(j)
         THEN /\ row' = Attached(j)
              /\ Go(g, [gw[g] EXCEPT !.cancel = row[j].cancel,
                          !.at = IF row[j].cancel THEN "cancel" ELSE "poll"])
         ELSE Rest(g) /\ UNCHANGED row
      /\ UNCHANGED <<leases, agentVars, upload, crashes>>

\* FenceGatewaySubmission: no later upload is accepted, a record is cancelled.
\* Settled: there is no record, or it is terminal and its process confirmed gone.
Fence(g) ==
  LET j == gw[g].job
      settled == Cancelled(j) \in {None} \cup Ended
  IN  /\ gw[g].at = "fence" /\ agentUp
      /\ fences' = fences \cup {j}
      /\ AgentCancel(j)
      /\ \/ settled /\ Go(g, [gw[g] EXCEPT !.at = "settle", !.said = Cancelled(j)])
         \/ (~settled \/ "lost" \in Faults) /\ Rest(g)
      /\ UNCHANGED <<row, leases, upload, crashes>>

\* The agent's record, if there is one, is attached before the row is closed.
Settle(g) ==
  LET j == gw[g].job
  IN  /\ gw[g].at = "settle"
      /\ IF gw[g].said = None
         THEN Go(g, [gw[g] EXCEPT !.at = "close"]) /\ UNCHANGED row
         ELSE IF CanAttach(j)
              THEN Go(g, [gw[g] EXCEPT !.at = "close"]) /\ row' = Attached(j)
              ELSE Rest(g) /\ UNCHANGED row
      /\ UNCHANGED <<leases, agentVars, upload, crashes>>

Close(g) ==
  /\ gw[g].at = "close"
  /\ Update(gw[g].job, CASE gw[g].said = "completed" -> "completed"
                         [] gw[g].said # "completed" /\ gw[g].cancel -> "cancelled"
                         [] OTHER -> "failed")
  /\ Rest(g)
  /\ UNCHANGED <<agentVars, upload, crashes>>

\* A cancelled job: the agent is told on every pass, then asked.
TellCancel(g) ==
  LET j == gw[g].job
  IN  /\ gw[g].at = "cancel" /\ agentUp
      /\ AgentCancel(j) /\ UNCHANGED fences
      /\ IF record[j] = None THEN Rest(g) ELSE Go(g, [gw[g] EXCEPT !.at = "poll"])
      /\ UNCHANGED <<row, leases, upload, crashes>>

Poll(g) ==
  LET j == gw[g].job
  IN  /\ gw[g].at = "poll" /\ agentUp
      /\ IF record[j] = None THEN Rest(g)
         ELSE Go(g, [gw[g] EXCEPT !.at = "write", !.said = record[j]])
      /\ UNCHANGED <<row, leases, agentVars, upload, crashes>>

\* The answer is written without looking at the row again.
Write(g) ==
  /\ gw[g].at = "write"
  /\ Update(gw[g].job, IF gw[g].said \in Ended THEN gw[g].said ELSE "training")
  /\ Rest(g)
  /\ UNCHANGED <<agentVars, upload, crashes>>

-----------------------------------------------------------------------------
(* refreshLoraTrainingJobs: the next job. *)

\* ClaimNextLoraTrainingJob, under an advisory lock.
Claim(g, j) ==
  /\ gw[g].at = "idle"
  /\ row[j].state = "queued" /\ ~row[j].cancel
  /\ \A i \in Jobs : row[i].state \notin Open
  /\ row' = [row EXCEPT ![j].state = "uploading"]
  /\ Go(g, [Idle EXCEPT !.at = "prepare", !.job = j])
  /\ UNCHANGED <<leases, agentVars, upload, crashes>>

\* The dataset is not there, or its owner is gone.
Unusable(g) ==
  /\ gw[g].at = "prepare"
  /\ Update(gw[g].job, "failed") /\ Rest(g)
  /\ UNCHANGED <<agentVars, upload, crashes>>

\* pauseMiningForLoraTraining: a lease, the one this job already has, or an error.
Prepare(g) ==
  /\ gw[g].at = "prepare" /\ row[gw[g].job].files
  /\ \/ leases' = leases \cup {gw[g].job} /\ Go(g, [gw[g] EXCEPT !.at = "begin"])
     \/ Go(g, [gw[g] EXCEPT !.at = "requeue"]) /\ UNCHANGED leases
  /\ UNCHANGED <<row, agentVars, upload, crashes>>

\* BeginLoraTrainingSubmission
Begin(g) ==
  LET j == gw[g].job
  IN  /\ gw[g].at = "begin"
      /\ IF Unsent(j) /\ ~row[j].cancel
         THEN /\ row' = [row EXCEPT ![j].begun = TRUE]
              /\ Go(g, [gw[g] EXCEPT !.at = "send"])
         ELSE Go(g, [gw[g] EXCEPT !.at = "requeue"]) /\ UNCHANGED row
      /\ UNCHANGED <<leases, agentVars, upload, crashes>>

\* RequeueLoraTrainingJob: back to the queue, or cancelled if that was asked.  If it
\* cannot be written the row waits for a cancellation or for the next start.
Requeue(g) ==
  LET j == gw[g].job
  IN  /\ gw[g].at = "requeue"
      /\ \/ /\ ~Unsent(j) \/ "store" \in Faults
            /\ UNCHANGED <<row, leases>>
         \/ /\ Unsent(j)
            /\ Update(j, IF row[j].cancel THEN "cancelled" ELSE "queued")
      /\ Rest(g)
      /\ UNCHANGED <<agentVars, upload, crashes>>

Send(g) ==
  /\ gw[g].at = "send"
  /\ upload' = [upload EXCEPT ![gw[g].job] = "sent"]
  /\ Go(g, [gw[g] EXCEPT !.at = "wait"])
  /\ UNCHANGED <<row, leases, agentVars, crashes>>

\* The receipt arrives.
Answered(g) ==
  /\ gw[g].at = "wait" /\ upload[gw[g].job] = "answered"
  /\ Go(g, [gw[g] EXCEPT !.at = "attach"])
  /\ UNCHANGED <<row, leases, agentVars, upload, crashes>>

\* An error, a timeout, or an answer that is no receipt: the row stays as it is.
NoAnswer(g) ==
  /\ gw[g].at = "wait"
  /\ upload[gw[g].job] = "refused" \/ ~agentUp \/ "lost" \in Faults
  /\ Rest(g)
  /\ UNCHANGED <<row, leases, agentVars, upload, crashes>>

\* AttachLoraTrainingAgentJob; the Gateway's copy of the dataset is removed.
Attach(g) ==
  LET j == gw[g].job
  IN  /\ gw[g].at = "attach"
      /\ row' = IF CanAttach(j) THEN [Attached(j) EXCEPT ![j].files = FALSE] ELSE row
      /\ Rest(g)
      /\ UNCHANGED <<leases, agentVars, upload, crashes>>

\* The process ends between any two steps.
GatewayCrash(g) ==
  /\ gw[g].at # "off" /\ crashes < MaxCrashes
  /\ Go(g, Off) /\ crashes' = crashes + 1
  /\ UNCHANGED <<row, leases, agentVars, upload>>

\* RecoverLoraTrainingJobs
GatewayStart(g) ==
  /\ gw[g].at = "off"
  /\ row' = [j \in Jobs |->
       IF Unsent(j)
       THEN [row[j] EXCEPT !.state = IF row[j].cancel THEN "cancelled" ELSE "queued"]
       ELSE row[j]]
  /\ Rest(g)
  /\ UNCHANGED <<leases, agentVars, upload, crashes>>

-----------------------------------------------------------------------------
(* The agent. *)

\* Mutant of Accept: the fences are only read before the dataset is stored.
Accept_LooksOnce(j) ==
  /\ agentUp /\ upload[j] = "sent"
  /\ IF record[j] # None
     THEN /\ upload' = [upload EXCEPT ![j] = "answered"]
          /\ UNCHANGED <<record, disk>>
     ELSE /\ record' = [record EXCEPT ![j] = "queued"]
          /\ disk' = [disk EXCEPT ![j] = "queued"]
          /\ upload' = [upload EXCEPT ![j] = "accepted"]
  /\ UNCHANGED <<row, leases, gw, agentUp, late, fences, queue, worker, killed, procs,
                 ran, crashes>>

\* Submit, at its second look at the fences: refused, known, or persisted.
Accept(j) ==
  /\ agentUp /\ upload[j] = "sent"
  /\ IF j \in fences \/ record[j] # None
     THEN /\ upload' = [upload EXCEPT ![j] = IF j \in fences THEN "refused" ELSE "answered"]
          /\ UNCHANGED <<record, disk>>
     ELSE /\ record' = [record EXCEPT ![j] = "queued"]
          /\ disk' = [disk EXCEPT ![j] = "queued"]
          /\ upload' = [upload EXCEPT ![j] = "accepted"]
  /\ UNCHANGED <<row, leases, gw, agentUp, late, fences, queue, worker, killed, procs,
                 ran, crashes>>

\* The body breaks off, or cannot be stored.
UploadBreaks(j) ==
  /\ upload[j] = "sent" /\ ("lost" \in Faults \/ ~agentUp)
  /\ upload' = [upload EXCEPT ![j] = "refused"]
  /\ UNCHANGED <<row, leases, gw, agentVars, crashes>>

Enqueue(j) ==
  /\ agentUp /\ upload[j] = "accepted"
  /\ queue' = Append(queue, j)
  /\ upload' = [upload EXCEPT ![j] = "answered"]
  /\ UNCHANGED <<row, leases, gw, agentUp, record, disk, late, fences, worker, killed,
                 procs, ran, crashes>>

\* The caller is gone: select may take ctx.Done() although the queue has room.
GiveUp(j) ==
  /\ "giveUp" \in Faults
  /\ agentUp /\ upload[j] = "accepted"
  /\ \A g \in Gateways : ~(gw[g].at = "wait" /\ gw[g].job = j)
  /\ upload' = [upload EXCEPT ![j] = "refused"]
  /\ UNCHANGED <<row, leases, gw, agentVars, crashes>>

\* execute: a record that is gone or was cancelled in the queue is skipped.
Take ==
  /\ agentUp /\ worker = None /\ queue # <<>>
  /\ queue' = Tail(queue)
  /\ LET j == Head(queue)
     IN  IF record[j] \in {None} \cup Ended
         THEN UNCHANGED <<record, disk, worker, killed, procs, ran>>
         ELSE /\ record' = [record EXCEPT ![j] = "training"]
              /\ disk' = [disk EXCEPT ![j] = "training"]
              /\ worker' = j /\ killed' = FALSE
              /\ procs' = procs \cup {j} /\ ran' = ran \cup {j}
  /\ UNCHANGED <<row, leases, gw, agentUp, late, fences, upload, crashes>>

\* run and finish: the process is waited for before the record is closed.
Outcomes == {"completed", "failed"} \cup (IF killed THEN {"cancelled"} ELSE {})

Finish(outcome) ==
  /\ agentUp /\ worker # None /\ outcome \in Outcomes
  /\ procs' = procs \ {worker}
  /\ record' = [record EXCEPT ![worker] = outcome]
  /\ late' = [late EXCEPT ![worker] = @ \cup {outcome}]
  /\ worker' = None /\ killed' = FALSE
  /\ UNCHANGED <<row, leases, gw, agentUp, disk, fences, queue, upload, ran, crashes>>

\* persist, of a copy taken earlier: Cancel's and the worker's in any order.
Persist(j) ==
  \E saved \in late[j] :
    /\ disk' = [disk EXCEPT ![j] = saved]
    /\ late' = [late EXCEPT ![j] = @ \ {saved}]
    /\ UNCHANGED <<row, leases, gw, agentUp, record, fences, queue, worker, killed,
                   upload, procs, ran, crashes>>

\* deleteExpiredFailedJobs
Expire(j) ==
  /\ "retention" \in Faults /\ agentUp /\ record[j] = "failed"
  /\ AgentDelete(j)
  /\ UNCHANGED <<row, leases, gw, upload, crashes>>

\* The agent dies: its process tree dies with it or goes on without it.
AgentDown ==
  /\ agentUp' = FALSE
  /\ record' = [j \in Jobs |-> None]
  /\ late' = [j \in Jobs |-> {}]
  /\ queue' = <<>> /\ worker' = None /\ killed' = FALSE
  /\ upload' = [j \in Jobs |-> IF upload[j] = "accepted" THEN "refused" ELSE upload[j]]
  /\ UNCHANGED <<row, leases, gw, fences, ran>>

AgentCrash ==
  /\ agentUp /\ crashes < MaxCrashes /\ crashes' = crashes + 1
  /\ procs' \in {procs, {}}
  /\ UNCHANGED disk
  /\ AgentDown

\* Close: the running job is killed, waited for and recorded as cancelled.
AgentClose ==
  /\ agentUp /\ crashes < MaxCrashes /\ crashes' = crashes + 1
  /\ procs' = procs \ {worker}
  /\ disk' = [j \in Jobs |-> IF j = worker THEN "cancelled" ELSE disk[j]]
  /\ AgentDown

\* Mutant of Loaded: a restarted agent takes its processes for dead.
Loaded_Stopped(state) == IF state \in {None} \cup Ended THEN state ELSE "failed"

\* loadJobs: what was not terminal has no proof that its process is gone.
Loaded(state) == IF state \in {None} \cup Ended THEN state ELSE "unconfirmed"

AgentStart ==
  /\ ~agentUp /\ agentUp' = TRUE
  /\ disk' = [j \in Jobs |-> Loaded(disk[j])]
  /\ record' = disk'
  /\ UNCHANGED <<row, leases, gw, late, fences, queue, worker, killed, upload, procs,
                 ran, crashes>>

\* A process the agent no longer knows comes to its end.
OrphanEnds(j) ==
  /\ j \in procs /\ worker # j
  /\ procs' = procs \ {j}
  /\ UNCHANGED <<row, leases, gw, agentUp, record, disk, late, fences, queue, worker,
                 killed, upload, ran, crashes>>

-----------------------------------------------------------------------------
Reconcile(g) ==
  \/ \E j \in Jobs : Refresh(g, j)
  \/ Drop(g) \/ CallFails(g) \/ Lookup(g) \/ Adopt(g) \/ Fence(g) \/ Settle(g)
  \/ Close(g) \/ TellCancel(g) \/ Poll(g) \/ Write(g)

Dispatch(g) ==
  \/ \E j \in Jobs : Claim(g, j)
  \/ Unusable(g) \/ Prepare(g) \/ Begin(g) \/ Requeue(g) \/ Send(g) \/ Answered(g)
  \/ NoAnswer(g) \/ Attach(g)

Agent ==
  \/ Take \/ (\E outcome \in Ended : Finish(outcome))
  \/ AgentCrash \/ AgentClose \/ AgentStart
  \/ \E j \in Jobs : \/ Accept(j) \/ UploadBreaks(j) \/ Enqueue(j) \/ GiveUp(j)
                     \/ Persist(j) \/ Expire(j) \/ OrphanEnds(j)

Next ==
  \/ \E j \in Jobs : Create(j) \/ SweepLease(j)
  \/ \E j \in Jobs \ Patient : RequestCancel(j) \/ Delete(j)
  \/ \E g \in Gateways :
       Reconcile(g) \/ Dispatch(g) \/ GatewayCrash(g) \/ GatewayStart(g)
  \/ Agent

Spec == Init /\ [][Next]_vars

(* runMaintenanceWorker starts every pass again, a call that is made again and *)
(* again is answered, the agent is restarted and its worker works; nothing is  *)
(* assumed of users, crashes, retention and orphaned processes.                *)
Fairness ==
  /\ \A g \in Gateways :
       /\ WF_vars(Reconcile(g)) /\ WF_vars(Dispatch(g)) /\ WF_vars(GatewayStart(g))
       /\ SF_vars(Lookup(g)) /\ SF_vars(Poll(g)) /\ SF_vars(TellCancel(g))
       /\ SF_vars(Fence(g) /\ gw'[g].at = "settle")
       /\ SF_vars(Prepare(g) /\ gw'[g].at = "begin")
       /\ \A j \in Jobs : SF_vars(Claim(g, j))
  /\ \A j \in Jobs : WF_vars(Accept(j) \/ UploadBreaks(j)) /\ WF_vars(Enqueue(j))
  /\ WF_vars(Take) /\ WF_vars(\E outcome \in Ended : Finish(outcome))
  /\ WF_vars(AgentStart)

FairSpec == Spec /\ Fairness

-----------------------------------------------------------------------------
(* Properties. *)

Closed(j) == row[j].state \in Ended \cup {"deleted"}

\* A job is closed, and its lease and files given up, only when no process of it
\* is left: neither a lost answer, nor a late upload, nor a restart of the agent
\* may pass for the end of a training.
ReleaseAfterStop == \A j \in Jobs : Closed(j) => j \notin procs

\* The miner stays paused for as long as a training process lives, through every
\* requeue, cancellation, retention and restart.
PausedWhileTraining == procs \subseteq leases

\* A job in the queue ends, unless an agent that was restarted cannot tell whether
\* a training still runs: that record keeps the GPU until an operator looks.
JobDecided ==
  \A j \in Jobs : row[j].state = "queued" ~>
                     Closed(j) \/ \E i \in Jobs : record[i] = "unconfirmed"

\* What the job looks like from outside: see TrainingSlot.
phase == [j \in Jobs |-> CASE j \in procs -> "running"
                           [] Closed(j) /\ j \notin procs -> "closed"
                           [] ~Closed(j) /\ j \in ran \ procs -> "stopped"
                           [] OTHER -> "waiting"]
Slot == INSTANCE TrainingSlot

\* Every behaviour of the Gateway and the agent is one of TrainingSlot: a job
\* trains at most once, alone, and is closed only when it cannot train any more.
SlotSpec == Slot!Spec
=============================================================================
