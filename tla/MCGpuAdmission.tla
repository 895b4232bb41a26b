-------------------------- MODULE MCGpuAdmission --------------------------
(* The small instances of GpuAdmission that TLC checks. *)
EXTENDS GpuAdmission, TLC

\* Tokens are only compared with each other.
TokenSymmetry == Permutations(Tokens)
=============================================================================
