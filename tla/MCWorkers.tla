----------------------------- MODULE MCWorkers -----------------------------
(***************************************************************************)
(* The work that goes on in the background: the queue of the generation    *)
(* jobs and the pause of the miner, each with a small instance.  They      *)
(* share no state: a behaviour follows one of them from its initial        *)
(* states, and the other rests in one of its own.                          *)
(***************************************************************************)
EXTENDS MiningPause, GenerationQueue

VARIABLE part   \* the component that moves

CONSTANTS a1, a2, b1
TwoBatches == {<<a1, a2>>, <<b1>>}

-----------------------------------------------------------------------------
WorkersInit ==
  /\ part \in {"queue", "mining"}
  /\ QueueInit /\ Init
  /\ part # "mining" => miner = "off"

WorkersNext ==
  \/ part = "queue" /\ QueueNext /\ UNCHANGED <<part, vars>>
  \/ part = "mining" /\ Next /\ UNCHANGED <<part, queueVars>>

WorkersSpec == WorkersInit /\ [][WorkersNext]_<<part, queueVars, vars>>

-----------------------------------------------------------------------------
(* The fairness a component needs is the premise of its liveness property:     *)
(* each needs only its own.                                                    *)

\* Every child of a batch gets through, unless a submission was never answered.
ChildrenEnd == QueueFairness => TurnComes
\* A paused miner runs again.
MinerComesBack == Fairness => MinerReturns
=============================================================================
