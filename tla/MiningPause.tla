---------------------------- MODULE MiningPause ----------------------------
(***************************************************************************)
(* The crypto miner and the GPU work that pauses it.                       *)
(*                                                                         *)
(* Before GPU work starts, reserveMiningForGPUWork takes a durable lease   *)
(* and has the mining agent stop the miner; releaseMiningPause gives the   *)
(* lease back and lets the last one start the miner again.  Both run under *)
(* a mutex of their Gateway process (internal/gateway/mining_pause.go).    *)
(* Operators start and stop the miner beside them, without that mutex.     *)
(*                                                                         *)
(* The agent serves one command at a time.  A start takes longer than the  *)
(* client waits for it, so a Gateway may have given up a start that the    *)
(* agent is still making.  resume_mining is TRUE in every row the code     *)
(* creates and a default profile is always enabled; neither is kept here.  *)
(***************************************************************************)
EXTENDS Naturals

CONSTANTS
  Works,       \* generation jobs, training jobs and model calls
  Inference,   \* those of them that no job stands for: assistant, captions
  Gateways,
  Faults,      \* "down": a call fails unheard; "lostStop": only its answer is lost
  MaxAborts    \* bound: calls cut off by a crash or an ended context

VARIABLES
  lease,   \* quick_generation_mining_leases: "none", "held", "ready"
  work,    \* "new", "running", "over", "gone"
  sure,    \* whether the pause of a work was confirmed by the agent
  call,    \* what each Gateway does under its mutex
  hand,    \* an operator's request
  agent,   \* "free", or the start it is making
  miner,   \* "on", "manual": running; "off", "paused": stopped, by whom
  aborts
vars == <<lease, work, sure, call, hand, agent, miner, aborts>>

Running == miner \in {"on", "manual"}
Taken == {w \in Works : lease[w] # "none"}
None == "none"

Steps == {"free", "look", "viewMore", "stopMore", "createMore", "viewFirst",
          "createFirst", "stopFirst", "undo", "mark", "list", "viewResume", "start",
          "wait", "remove"}

TypeOK ==
  /\ lease \in [Works -> {"none", "held", "ready"}]
  /\ work \in [Works -> {"new", "running", "over", "gone"}]
  /\ sure \in [Works -> BOOLEAN]
  /\ call \in [Gateways -> [at : Steps, work : Works \cup {None}, up : BOOLEAN,
                            saw : BOOLEAN]]
  /\ hand \in {"idle", "view", "stop", "check", "look", "start"}
  /\ agent \in {"free", "on", "manual"}
  /\ miner \in {"on", "manual", "off", "paused"}
  /\ aborts \in 0..MaxAborts

Free == [at |-> "free", work |-> None, up |-> FALSE, saw |-> FALSE]

Init ==
  /\ lease = [w \in Works |-> "none"] /\ work = [w \in Works |-> "new"]
  /\ sure = [w \in Works |-> FALSE] /\ call = [g \in Gateways |-> Free]
  /\ hand = "idle" /\ agent = "free" /\ miner \in {"on", "off"} /\ aborts = 0

Go(g, at) == call' = [call EXCEPT ![g].at = at]
Unlock(g) == call' = [call EXCEPT ![g] = Free]
At(g, at) == call[g].at = at
Work(g) == call[g].work

-----------------------------------------------------------------------------
(* reserveMiningForGPUWork *)

Reserve(g, w) ==
  /\ At(g, "free") /\ work[w] = "new"
  /\ \A h \in Gateways : Work(h) # w
  /\ call' = [call EXCEPT ![g] = [Free EXCEPT !.at = "look", !.work = w]]
  /\ UNCHANGED <<lease, work, sure, hand, agent, miner, aborts>>

\* pauseMiningForLoraTraining: a training job that has a lease asks no further.
Reuse(w) ==
  /\ work[w] = "new" /\ w \notin Inference /\ lease[w] # "none"
  /\ \A h \in Gateways : Work(h) # w
  /\ work' = [work EXCEPT ![w] = "running"]
  /\ UNCHANGED <<lease, sure, call, hand, agent, miner, aborts>>

Look(g) ==
  /\ At(g, "look")
  /\ Go(g, IF Taken = {} THEN "viewFirst" ELSE "viewMore")
  /\ UNCHANGED <<lease, work, sure, hand, agent, miner, aborts>>

\* Where an overview leads, that is up or not and saw the miner running or not.
After(at, up, saw) ==
  CASE at = "viewMore" -> IF saw THEN "stopMore" ELSE "createMore"
    [] at = "viewFirst" -> "createFirst"
    [] at = "viewResume" -> IF ~up THEN "free" ELSE IF saw THEN "remove" ELSE "start"

\* miningOverview; an agent that is busy with a start does not answer in time.
View(g, up) ==
  /\ call[g].at \in {"viewMore", "viewFirst", "viewResume"}
  /\ IF up THEN agent = "free" ELSE agent # "free" \/ "down" \in Faults
  /\ LET saw == up /\ Running
         to == After(call[g].at, up, saw)
     IN  IF to = "free" THEN Unlock(g)
         ELSE call' = [call EXCEPT ![g].at = to, ![g].up = up, ![g].saw = saw]
  /\ UNCHANGED <<lease, work, sure, hand, agent, miner, aborts>>

\* The reservation is made and the work may start.
Reserved(g) ==
  /\ work' = [work EXCEPT ![Work(g)] = "running"]
  /\ sure' = [sure EXCEPT ![Work(g)] = call[g].up]
  /\ Unlock(g)

\* CreateQuickGenerationMiningLease
Create(g) ==
  /\ call[g].at \in {"createMore", "createFirst"}
  /\ lease' = [lease EXCEPT ![Work(g)] = "held"]
  /\ IF At(g, "createFirst") /\ call[g].saw
     THEN Go(g, "stopFirst") /\ UNCHANGED <<work, sure>>
     ELSE Reserved(g)
  /\ UNCHANGED <<hand, agent, miner, aborts>>

\* The reservation failed: a job tries again, a model call is answered with an error.
Refused(g) ==
  /\ work' = IF Work(g) \in Inference THEN [work EXCEPT ![Work(g)] = "gone"] ELSE work
  /\ Unlock(g)

Stopped == IF Running THEN "paused" ELSE miner

\* Mutant of Stop: whatever the agent answers, the miner counts as stopped.
Stop_Unchecked(g, heard, answered) ==
  /\ call[g].at \in {"stopMore", "stopFirst"}
  /\ answered => heard
  /\ heard => agent = "free"
  /\ ~heard => agent # "free" \/ "down" \in Faults
  /\ heard /\ ~answered => "lostStop" \in Faults
  /\ miner' = IF heard THEN Stopped ELSE miner
  /\ IF At(g, "stopMore") THEN Go(g, "createMore") /\ UNCHANGED <<work, sure>>
     ELSE Reserved(g)
  /\ UNCHANGED <<lease, hand, agent, aborts>>

\* mining.Stop: the agent hears it or not, and is heard or not.
Stop(g, heard, answered) ==
  /\ call[g].at \in {"stopMore", "stopFirst"}
  /\ answered => heard
  /\ heard => agent = "free"
  /\ ~heard => agent # "free" \/ "down" \in Faults
  /\ heard /\ ~answered => "lostStop" \in Faults
  /\ miner' = IF heard THEN Stopped ELSE miner
  /\ CASE answered /\ At(g, "stopMore") -> Go(g, "createMore") /\ UNCHANGED <<work, sure>>
       [] answered /\ At(g, "stopFirst") -> Reserved(g)
       [] ~answered /\ At(g, "stopMore") -> Refused(g) /\ UNCHANGED sure
       [] OTHER -> Go(g, "undo") /\ UNCHANGED <<work, sure>>
  /\ UNCHANGED <<lease, hand, agent, aborts>>

Undo(g) ==
  /\ At(g, "undo")
  /\ lease' = [lease EXCEPT ![Work(g)] = "none"]
  /\ Refused(g)
  /\ UNCHANGED <<sure, hand, agent, miner, aborts>>

-----------------------------------------------------------------------------
(* The work itself. *)

\* It is done, or the job fails or is cancelled before it starts.
End(w) ==
  /\ \/ work[w] = "running"
     \/ work[w] = "new" /\ w \notin Inference /\ \A g \in Gateways : Work(g) # w
  /\ work' = [work EXCEPT ![w] = "over"]
  /\ UNCHANGED <<lease, sure, call, hand, agent, miner, aborts>>

\* finishInferenceMiningPause: nobody knows whether the model still runs.  Or its process
\* ends, by whose memory alone the lease is released.
Unsettled(w) ==
  /\ w \in Inference /\ work[w] = "running"
  /\ work' = [work EXCEPT ![w] = "gone"]
  /\ UNCHANGED <<lease, sure, call, hand, agent, miner, aborts>>

-----------------------------------------------------------------------------
(* releaseMiningPause, called at the end of the work and by the lease sweep. *)

\* A model call is asked about once: finishInferenceMiningPause gives the release 15
\* seconds, and the sweep passes by a lease that no job and no prompt is bound to.
AskedOnce(w) == IF w \in Inference THEN [work EXCEPT ![w] = "gone"] ELSE work

\* Mutant of Release: a completion that could not resume is not tried again.
Release_Once(g, w) ==
  /\ At(g, "free") /\ lease[w] = "held" /\ work[w] = "over"
  /\ call' = [call EXCEPT ![g] = [Free EXCEPT !.at = "mark", !.work = w]]
  /\ work' = AskedOnce(w)
  /\ UNCHANGED <<lease, sure, hand, agent, miner, aborts>>

\* Once it is marked ready, refreshQuickGenerationMiningLeases tries again.
Release(g, w) ==
  /\ At(g, "free") /\ lease[w] # "none"
  /\ work[w] = "over" \/ lease[w] = "ready"
  /\ call' = [call EXCEPT ![g] = [Free EXCEPT !.at = "mark", !.work = w]]
  /\ work' = AskedOnce(w)
  /\ UNCHANGED <<lease, sure, hand, agent, miner, aborts>>

Mark(g) ==
  /\ At(g, "mark")
  /\ lease' = [lease EXCEPT ![Work(g)] = IF @ = "none" THEN @ ELSE "ready"]
  /\ Go(g, "list")
  /\ UNCHANGED <<work, sure, hand, agent, miner, aborts>>

List(g) ==
  /\ At(g, "list")
  /\ IF Work(g) \notin Taken THEN Unlock(g)
     ELSE Go(g, IF Taken # {Work(g)} THEN "remove" ELSE "viewResume")
  /\ UNCHANGED <<lease, work, sure, hand, agent, miner, aborts>>

\* Mutant of Start: the last lease is given up before the start is confirmed.
Start_Unconfirmed(g, heard) ==
  /\ At(g, "start")
  /\ IF heard THEN agent = "free" /\ agent' = "on" /\ Go(g, "wait")
     ELSE (agent # "free" \/ "down" \in Faults) /\ Unlock(g) /\ UNCHANGED agent
  /\ lease' = [lease EXCEPT ![Work(g)] = "none"]
  /\ UNCHANGED <<work, sure, hand, miner, aborts>>

Start(g, heard) ==
  /\ At(g, "start")
  /\ IF heard THEN agent = "free" /\ agent' = "on" /\ Go(g, "wait")
     ELSE (agent # "free" \/ "down" \in Faults) /\ Unlock(g) /\ UNCHANGED agent
  /\ UNCHANGED <<lease, work, sure, hand, miner, aborts>>

\* The client's timeout is shorter than the agent's start.
GiveUp(g) ==
  /\ At(g, "wait") /\ Unlock(g)
  /\ UNCHANGED <<lease, work, sure, hand, agent, miner, aborts>>

Remove(g) ==
  /\ At(g, "remove")
  /\ lease' = [lease EXCEPT ![Work(g)] = "none"]
  /\ Unlock(g)
  /\ UNCHANGED <<work, sure, hand, agent, miner, aborts>>

\* The process stops, or the request's context ends, between two of these steps.
Abort(g) ==
  /\ ~At(g, "free") /\ aborts < MaxAborts /\ aborts' = aborts + 1
  /\ IF work[Work(g)] = "new" THEN Refused(g) ELSE Unlock(g) /\ UNCHANGED work
  /\ UNCHANGED <<lease, sure, hand, agent, miner>>

-----------------------------------------------------------------------------
(* handleMiningToggle and handleAdminMining, under no mutex. *)

Hand(from, to) == hand = from /\ hand' = to

\* The toggle looks first and then for leases, the administrator's start looks for
\* leases first; the administrator's stop asks nothing.
HandComes ==
  /\ \/ Hand("idle", "view") \/ Hand("idle", "stop")
     \/ Hand("idle", "look") /\ Taken = {}
  /\ UNCHANGED <<lease, work, sure, call, agent, miner, aborts>>

HandSees ==
  /\ agent = "free"
  /\ \/ Hand("view", IF Running THEN "stop" ELSE "check")
     \/ Hand("look", "start")
  /\ UNCHANGED <<lease, work, sure, call, agent, miner, aborts>>

HandChecks ==
  /\ Hand("check", IF Taken = {} THEN "start" ELSE "idle")
  /\ UNCHANGED <<lease, work, sure, call, agent, miner, aborts>>

HandStops ==
  /\ Hand("stop", "idle") /\ agent = "free"
  /\ miner' = IF Running THEN "off" ELSE miner
  /\ UNCHANGED <<lease, work, sure, call, agent, aborts>>

HandStarts ==
  /\ Hand("start", "idle") /\ agent = "free" /\ agent' = "manual"
  /\ UNCHANGED <<lease, work, sure, call, miner, aborts>>

HandLeaves ==
  /\ hand # "idle" /\ hand' = "idle"
  /\ UNCHANGED <<lease, work, sure, call, agent, miner, aborts>>

-----------------------------------------------------------------------------
(* The agent and its miner. *)

\* startLocked: the miner appears in time, or its launcher is killed again.
AgentStarts(appears) ==
  /\ agent # "free" /\ agent' = "free"
  /\ miner' = IF appears /\ ~Running THEN agent ELSE miner
  /\ call' = [g \in Gateways |->
       IF ~At(g, "wait") THEN call[g]
       ELSE IF miner' \in {"on", "manual"} THEN [call[g] EXCEPT !.at = "remove"] ELSE Free]
  /\ UNCHANGED <<lease, work, sure, hand, aborts>>

\* The miner ends by itself, or an update of it fails to restart it.
MinerEnds ==
  /\ Running /\ miner' = "off"
  /\ UNCHANGED <<lease, work, sure, call, hand, agent, aborts>>

-----------------------------------------------------------------------------
Call(g) ==
  \/ Look(g) \/ Create(g) \/ Undo(g) \/ Mark(g) \/ List(g) \/ Remove(g) \/ GiveUp(g)
  \/ \E up \in BOOLEAN : View(g, up) \/ Start(g, up)
  \/ \E heard, answered \in BOOLEAN : Stop(g, heard, answered)

Operator == HandComes \/ HandSees \/ HandChecks \/ HandStops \/ HandStarts \/ HandLeaves

Next ==
  \/ \E g \in Gateways, w \in Works : Reserve(g, w) \/ Release(g, w)
  \/ \E g \in Gateways : Call(g) \/ Abort(g)
  \/ \E w \in Works : Reuse(w) \/ End(w) \/ Unsettled(w)
  \/ Operator \/ MinerEnds
  \/ \E appears \in BOOLEAN : AgentStarts(appears)

Spec == Init /\ [][Next]_vars

(* Calls return (clients have timeouts), work ends, the lease sweep comes again, *)
(* and an agent that is asked again and again once answers and once succeeds.     *)
Fairness ==
  /\ \A g \in Gateways :
       /\ WF_vars(Call(g)) /\ SF_vars(View(g, TRUE)) /\ SF_vars(Start(g, TRUE))
       /\ \A w \in Works : SF_vars(Release(g, w))
  /\ \A w \in Works : SF_vars(End(w))
  /\ WF_vars(\E appears \in BOOLEAN : AgentStarts(appears)) /\ SF_vars(AgentStarts(TRUE))

FairSpec == Spec /\ Fairness

-----------------------------------------------------------------------------
(* Properties. *)

\* Work whose pause the agent confirmed never shares the GPU with a miner that the
\* Gateway itself let run: only an operator's own start may cross it.
PauseHolds ==
  \A w \in Works : work[w] = "running" /\ sure[w] => miner # "on"

\* A miner that was stopped for GPU work is not forgotten: a lease is left whose
\* release will start it again, whatever call was cut off in between.
PauseHasOwner == miner = "paused" => Taken # {}

\* A paused miner runs again, or is taken over by an operator, unless a lease is held for a
\* model call that nobody asks about any more: it was never settled, or the one release that
\* its end asks for was cut off before it could mark the lease.
MinerReturns ==
  miner = "paused" ~>
    miner # "paused" \/ \E w \in Inference : work[w] = "gone" /\ lease[w] = "held"
=============================================================================
