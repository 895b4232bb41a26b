--------------------------- MODULE GpuAdmission ---------------------------
(***************************************************************************)
(* The shared admission to one GPU (internal/store/gpu_work.go): a queue   *)
(* of work, at most one holder, and observations of the real executor that *)
(* are published and used only if nothing changed since the probe began.   *)
(*                                                                         *)
(* Every operation is one statement, or one transaction that locks the     *)
(* resource row first, so every operation is one step.  Callers are        *)
(* whoever knows an id: any token, phase or evidence may arrive at any     *)
(* time, late or twice.                                                    *)
(***************************************************************************)
EXTENDS Naturals

CONSTANTS
  Works,           \* ids of the work, in the order the queue breaks ties
  RequestWorks,    \* those of kind lora_caption or prompt_assistant
  Tokens,          \* lease tokens
  Externals,       \* ids an executor gives its work
  Probers,         \* callers that look at the real executor
  HeadStart,       \* GPUPriorityHeadStart
  LeaseTerm,       \* the longest lease, in lease steps
  Changing,        \* bound: the works whose owners' accounts change
  MaxTime,         \* bound: the clock behind queued_at
  MaxRevision      \* bound: revisions of the resource

ASSUME WorksAssumption == Works \subseteq Nat /\ RequestWorks \subseteq Works
ASSUME TimesAssumption ==
  /\ HeadStart \in Nat /\ LeaseTerm \in Nat \ {0}
  /\ MaxTime \in Nat /\ MaxRevision \in Nat

VARIABLES
  work,     \* gpu_work, one row for every id
  gpu,      \* gpu_resources, the one row of the GPU
  probe,    \* what each prober captured before it looked at the executor
  clock     \* now()
vars == <<work, gpu, probe, clock>>

None == "none"

-----------------------------------------------------------------------------
States == {"absent", "waiting", "held", "uncertain", "released", "cancelled"}
Phases == {"reserved", "dispatching", "running"}
Leases == 0..LeaseTerm    \* lease_until - now(); 0 when there is none or it is past

Holds(w) == work[w].state \in {"held", "uncertain"}

\* Who holds the GPU, under which token, and how far the dispatch has come.
Tenure ==
  {[id |-> w, state |-> work[w].state, token |-> work[w].token,
    phase |-> work[w].phase, external |-> work[w].external] :
     w \in {v \in Works : Holds(v)}}

Set(w, row) == work' = [work EXCEPT ![w] = row]

\* invalidateGPUObservation
Invalidate ==
  /\ gpu.revision < MaxRevision
  /\ gpu' = [gpu EXCEPT !.revision = @ + 1, !.observation = "unknown", !.valid = FALSE]

Init ==
  /\ work = [w \in Works |->
       [state |-> "absent", phase |-> "reserved", token |-> None, lease |-> 0,
        external |-> None, cancel |-> FALSE, ready |-> FALSE,
        priority |-> FALSE, owner |-> "enabled", queuedAt |-> 0]]
  /\ gpu = [revision |-> 1, observation |-> "unknown", valid |-> FALSE, seen |-> {}]
  /\ probe = [p \in Probers |-> [revision |-> 0, saw |-> {}]]
  /\ clock = 0

-----------------------------------------------------------------------------
(* EnqueueGPUWork: a new intent, or a waiting one refreshed. *)
Enqueue(w, priority) ==
  /\ work[w].owner # "deleted"
  /\ Set(w, CASE work[w].state = "absent" ->
                   [work[w] EXCEPT !.state = "waiting", !.ready = TRUE,
                                   !.priority = priority, !.queuedAt = clock]
              [] work[w].state = "waiting" ->
                   [work[w] EXCEPT !.ready = TRUE, !.priority = priority]
              [] OTHER -> work[w])
  /\ UNCHANGED <<gpu, probe, clock>>

(* Capture Revision before probing executors, then publish with that revision. *)
Capture(p) ==
  /\ probe' = [probe EXCEPT ![p] = [revision |-> gpu.revision, saw |-> Tenure]]
  /\ UNCHANGED <<work, gpu, clock>>

Observe(p, observation) ==
  /\ probe[p].revision = gpu.revision /\ gpu.revision < MaxRevision
  /\ gpu' = [revision |-> gpu.revision + 1, observation |-> observation,
             valid |-> TRUE, seen |-> probe[p].saw]
  /\ UNCHANGED <<work, probe, clock>>

-----------------------------------------------------------------------------
(* AcquireGPUWork *)

\* Waiting work of an enabled owner that still asks for the GPU.
Eligible(w) ==
  /\ work[w].state = "waiting" /\ work[w].ready
  /\ ~work[w].cancel /\ work[w].owner = "enabled"

\* v is served before w: queued earlier, after the head start of priority.
Before(v, w) ==
  LET Due(u) == work[u].queuedAt + (IF work[u].priority THEN 0 ELSE HeadStart)
  IN  Due(v) < Due(w) \/ (Due(v) = Due(w) /\ v <= w)

\* Any caller of acquire notices a lease that has run out.
Expire ==
  /\ \E h \in Works :
       /\ work[h].state = "held" /\ work[h].lease = 0
       /\ Set(h, [work[h] EXCEPT !.state = "uncertain"])
  /\ Invalidate
  /\ UNCHANGED <<probe, clock>>

\* Mutant of Grant: a holder whose lease has run out is not in the way.
Grant_OverExpired(w, token, term) ==
  /\ ~\E h \in Works : Holds(h) /\ work[h].lease > 0
  /\ Eligible(w) /\ gpu.observation = "idle" /\ gpu.valid
  /\ Set(w, [work[w] EXCEPT !.state = "held", !.phase = "reserved",
                            !.token = token, !.lease = term])
  /\ Invalidate
  /\ UNCHANGED <<probe, clock>>

Grant(w, token, term) ==
  /\ ~\E h \in Works : Holds(h)
  /\ Eligible(w)
  /\ gpu.observation = "idle" /\ gpu.valid
  /\ \A v \in Works : Eligible(v) => Before(w, v)
  /\ Set(w, [work[w] EXCEPT !.state = "held", !.phase = "reserved",
                            !.token = token, !.lease = term])
  /\ Invalidate
  /\ UNCHANGED <<probe, clock>>

-----------------------------------------------------------------------------
(* The holder's own calls *)

\* Mutant of Heartbeat: the deadline is not compared with the clock.
Heartbeat_Revives(w, token, term) ==
  /\ work[w].state = "held" /\ work[w].token = token /\ ~work[w].cancel
  /\ Set(w, [work[w] EXCEPT !.lease = term])
  /\ UNCHANGED <<gpu, probe, clock>>

Heartbeat(w, token, term) ==
  /\ work[w].state = "held" /\ work[w].token = token
  /\ work[w].lease > 0 /\ ~work[w].cancel
  /\ Set(w, [work[w] EXCEPT !.lease = term])
  /\ UNCHANGED <<gpu, probe, clock>>

\* SetGPUWorkPhase
SetPhase(w, token, phase, external) ==
  /\ work[w].state = "held" /\ work[w].token = token
  /\ ~work[w].cancel /\ work[w].lease > 0
  /\ work[w].phase = "running" =>
       phase = "running" /\ external = work[w].external
  /\ work[w].phase = "reserved" => phase = "dispatching"
  /\ Set(w, [work[w] EXCEPT !.phase = phase, !.external = external])
  /\ Invalidate
  /\ UNCHANGED <<probe, clock>>

RequestCancel(w) ==
  /\ work[w].state \in {"waiting", "held", "uncertain"} /\ ~work[w].cancel
  /\ Set(w, [work[w] EXCEPT !.cancel = TRUE,
               !.state = IF @ = "waiting" THEN "cancelled" ELSE @])
  /\ UNCHANGED <<gpu, probe, clock>>

\* What each code proves.  The executor's own word counts for anybody; the
\* holder's word only within its lease.
Proves(w, code) ==
  LET owned == work[w].state = "held" /\ work[w].lease > 0 IN
  \/ code \in {"executor_terminal", "executor_idle"}
  \/ code = "not_dispatched" /\ owned /\ work[w].phase = "reserved"
  \/ /\ code = "request_completed" /\ owned
     /\ work[w].phase # "reserved" /\ w \in RequestWorks

Codes == {"executor_terminal", "executor_idle", "not_dispatched",
          "request_completed", "timeout"}

\* Mutant of Release: evidence of any age is taken.
Release_AnyRevision(w, token, code, p) ==
  /\ Holds(w) /\ work[w].token = token /\ Proves(w, code)
  /\ Set(w, [work[w] EXCEPT
               !.state = IF work[w].cancel THEN "cancelled" ELSE "released",
               !.token = None, !.lease = 0])
  /\ Invalidate
  /\ UNCHANGED <<probe, clock>>

\* Mutant of Release: the observation made under the holder stays published.
Release_KeepsObservation(w, token, code, p) ==
  /\ probe[p].revision = gpu.revision
  /\ Holds(w) /\ work[w].token = token /\ Proves(w, code)
  /\ Set(w, [work[w] EXCEPT
               !.state = IF work[w].cancel THEN "cancelled" ELSE "released",
               !.token = None, !.lease = 0])
  /\ UNCHANGED <<gpu, probe, clock>>

Release(w, token, code, p) ==
  /\ probe[p].revision = gpu.revision
  /\ Holds(w) /\ work[w].token = token /\ Proves(w, code)
  /\ Set(w, [work[w] EXCEPT
               !.state = IF work[w].cancel THEN "cancelled" ELSE "released",
               !.token = None, !.lease = 0])
  /\ Invalidate
  /\ UNCHANGED <<probe, clock>>

\* RetryGPUWork: the old token is gone, the place in the queue is new.
Retry(w) ==
  /\ work[w].state \in {"released", "cancelled"}
  /\ Set(w, [work[w] EXCEPT !.state = "waiting", !.phase = "reserved",
               !.external = None, !.cancel = FALSE, !.ready = TRUE,
               !.queuedAt = clock])
  /\ UNCHANGED <<gpu, probe, clock>>

-----------------------------------------------------------------------------
(* Time and owners *)

Tick ==
  /\ clock < MaxTime /\ clock' = clock + 1
  /\ UNCHANGED <<work, gpu, probe>>

LeaseRuns(w) ==
  /\ work[w].lease > 0
  /\ Set(w, [work[w] EXCEPT !.lease = @ - 1])
  /\ UNCHANGED <<gpu, probe, clock>>

IntentExpires(w) ==
  /\ work[w].ready
  /\ Set(w, [work[w] EXCEPT !.ready = FALSE])
  /\ UNCHANGED <<gpu, probe, clock>>

ObservationExpires ==
  /\ gpu.valid
  /\ gpu' = [gpu EXCEPT !.valid = FALSE]
  /\ UNCHANGED <<work, probe, clock>>

\* The account is disabled or enabled again, or deleted for good.
OwnerChanges(w, owner) ==
  /\ work[w].owner \notin {"deleted", owner}
  /\ Set(w, [work[w] EXCEPT !.owner = owner])
  /\ UNCHANGED <<gpu, probe, clock>>

Next ==
  \/ \E w \in Works :
       \/ \E priority \in BOOLEAN : Enqueue(w, priority)
       \/ \E token \in Tokens :
            \/ \E term \in 1..LeaseTerm : Grant(w, token, term) \/ Heartbeat(w, token, term)
            \/ \E phase \in {"dispatching", "running"}, external \in Externals \cup {None} :
                 SetPhase(w, token, phase, external)
            \/ \E code \in Codes, p \in Probers : Release(w, token, code, p)
       \/ RequestCancel(w) \/ Retry(w)
       \/ LeaseRuns(w) \/ IntentExpires(w)
       \/ w \in Changing /\ \E owner \in {"enabled", "disabled", "deleted"} : OwnerChanges(w, owner)
  \/ \E p \in Probers :
       \/ Capture(p)
       \/ \E observation \in {"idle", "busy", "unknown"} : Observe(p, observation)
  \/ Expire \/ ObservationExpires \/ Tick

Spec == Init /\ [][Next]_vars

-----------------------------------------------------------------------------
(* Properties *)

TenureSet ==
  SUBSET [id : Works, state : {"held", "uncertain"}, token : Tokens \cup {None},
          phase : Phases, external : Externals \cup {None}]

TypeOK ==
  /\ work \in [Works ->
       [state : States, phase : Phases, token : Tokens \cup {None},
        lease : Leases, external : Externals \cup {None},
        cancel : BOOLEAN, ready : BOOLEAN, priority : BOOLEAN,
        owner : {"enabled", "disabled", "deleted"}, queuedAt : Nat]]
  /\ gpu \in [revision : Nat, observation : {"idle", "busy", "unknown"},
              valid : BOOLEAN, seen : TenureSet]
  /\ probe \in [Probers -> [revision : Nat, saw : TenureSet]]
  /\ clock \in Nat

\* At most one piece of work has the GPU, or may still have it.
OneHolder == \A v, w \in Works : Holds(v) /\ Holds(w) => v = w

\* An answer whose revision still matches was asked for under the present
\* holder, token and phase, and what is published was: a late answer cannot
\* speak of a tenure it has not seen (ObserveGPUResource and every change of
\* the holder count the same revision).
FreshObservation ==
  /\ \A p \in Probers :
       /\ probe[p].revision <= gpu.revision
       /\ probe[p].revision = gpu.revision => probe[p].saw = Tenure
  /\ gpu.observation # "unknown" => gpu.seen = Tenure

\* The idle answer that lets work in was asked for after the last holder had
\* let go (AcquireGPUWork never reuses an older one).
IdleBeforeGrant ==
  [][\A w \in Works : ~Holds(w) /\ Holds(w)' => gpu.seen = {}]_vars

\* The GPU is only let go on evidence gathered under the present tenure.
FreshEvidence ==
  [][\A w \in Works : Holds(w) /\ ~Holds(w)' =>
       \E p \in Probers : probe[p].saw = Tenure]_vars

\* A lease that ran out is never renewed, and its work never goes on to
\* another phase, as long as the same work holds the GPU.
NoRevival ==
  [][\A w \in Works : Holds(w) /\ Holds(w)' /\ work[w].lease = 0 =>
       work'[w].lease = 0 /\ work'[w].phase = work[w].phase]_vars

\* Nobody is passed by work that was queued more than the head start later.
BoundedOvertaking ==
  [][\A v, w \in Works : ~Holds(v) /\ Holds(v)' /\ Eligible(w) =>
       work[v].queuedAt <= work[w].queuedAt + HeadStart]_vars
=============================================================================
