------------------------ MODULE GenerationHandoff ------------------------
(***************************************************************************)
(* What the durable dispatch promises about one generation job, whoever    *)
(* works on it: the job is handed to ComfyUI at most once, what came of    *)
(* the hand-off is recorded at most once and truly, and the resources      *)
(* reserved for it are let go only when it never happened or its outcome   *)
(* is recorded.  GenerationJob implements it.                              *)
(***************************************************************************)
VARIABLES
  outcome,    \* what became of the hand-off
  recorded,   \* the gateway knows the outcome
  released    \* the resources have been let go: nothing may be sent any more
handoff == <<outcome, recorded, released>>

Decided == {"accepted", "refused"}

HandoffOK ==
  /\ outcome \in {"unsent", "sent"} \cup Decided
  /\ recorded \in BOOLEAN /\ released \in BOOLEAN

Init == outcome = "unsent" /\ recorded = FALSE /\ released = FALSE

Send ==
  /\ outcome = "unsent" /\ ~released
  /\ outcome' = "sent"
  /\ UNCHANGED <<recorded, released>>

Decide ==
  /\ outcome = "sent"
  /\ outcome' \in Decided
  /\ UNCHANGED <<recorded, released>>

Record ==
  /\ outcome \in Decided /\ ~recorded
  /\ recorded' = TRUE
  /\ UNCHANGED <<outcome, released>>

LetGo ==
  /\ ~released
  /\ outcome = "unsent" \/ recorded
  /\ released' = TRUE
  /\ UNCHANGED <<outcome, recorded>>

Next == Send \/ Decide \/ Record \/ LetGo

Spec == Init /\ [][Next]_handoff
=============================================================================
