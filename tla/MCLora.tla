------------------------------- MODULE MCLora -------------------------------
(***************************************************************************)
(* What a LoRA is made with in the background: the caption worker and the  *)
(* trainings, each with a small instance.  They share no state: a          *)
(* behaviour follows one of them, and the other rests.                     *)
(***************************************************************************)
EXTENDS LoraTraining, LoraCaption

VARIABLE part   \* the component that moves

CONSTANTS c1, g1, g2, nobody, j1, j2
SameImage(c) == c1

-----------------------------------------------------------------------------
LoraInit == part \in {"caption", "training"} /\ CaptionInit /\ Init

LoraNext ==
  \/ part = "caption" /\ CaptionNext /\ UNCHANGED <<part, vars>>
  \/ part = "training" /\ Next /\ UNCHANGED <<part, captionVars>>

LoraSpec == LoraInit /\ [][LoraNext]_<<part, captionVars, vars>>

-----------------------------------------------------------------------------
(* The fairness a component needs is the premise of its liveness property. *)

\* Every caption request ends, also one that kills its worker each time.
EachCaptionEnds == CaptionFairness => CaptionEnds
\* A queued training ends, unless an agent cannot tell whether another still runs.
TrainingEnds == Fairness => JobDecided
=============================================================================
