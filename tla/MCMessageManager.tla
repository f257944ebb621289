-------------------------- MODULE MCMessageManager --------------------------
(* Small instances of MessageManager for TLC. *)
EXTENDS MessageManager, TLC

CONSTANTS s1, s2, m, refused, f1, f2, f3

\* The SDK clients are alike, and so are the descriptors.
Alike == Permutations({s1, s2}) \cup Permutations(Fds)
=============================================================================
