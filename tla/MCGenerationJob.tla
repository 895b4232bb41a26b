------------------------- MODULE MCGenerationJob -------------------------
(* The small instances of GenerationJob that TLC checks. *)
EXTENDS GenerationJob, TLC

\* Dispatchers differ only in their names: none is singled out by a constant.
DispatcherSymmetry == Permutations(Dispatchers)
=============================================================================
