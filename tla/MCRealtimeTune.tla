-------------------------- MODULE MCRealtimeTune ----------------------------
(* Two entries of the boot loader and two of the kernel parameters, each     *)
(* absent, without a value or set by the administrator.                      *)
EXTENDS RealtimeTune, TLC

Symmetry == Permutations(Params) \cup Permutations(Kernels)
=============================================================================
