---------------------------- MODULE TrainingSlot ----------------------------
(***************************************************************************)
(* What the hand-off of LoRA training promises, whatever is lost or        *)
(* restarted on the way: a job trains at most once, no job starts while    *)
(* another one may still be using the GPU, and a job is closed (its        *)
(* resources given back) only when its training has stopped or can no      *)
(* longer start.                                                           *)
(***************************************************************************)
CONSTANT Jobs
VARIABLE phase

Phases == {"waiting", "running", "stopped", "closed"}

Init == phase = [j \in Jobs |-> "waiting"]

Start(j) ==
  /\ phase[j] = "waiting"
  /\ \A i \in Jobs \ {j} : phase[i] \in {"waiting", "closed"}
  /\ phase' = [phase EXCEPT ![j] = "running"]

Stop(j) ==
  /\ phase[j] = "running"
  /\ phase' = [phase EXCEPT ![j] = "stopped"]

Close(j) ==
  /\ phase[j] \in {"waiting", "stopped"}
  /\ phase' = [phase EXCEPT ![j] = "closed"]

Next == \E j \in Jobs : Start(j) \/ Stop(j) \/ Close(j)

Spec == Init /\ [][Next]_phase
=============================================================================
