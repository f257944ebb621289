-------------------------- MODULE MCMessageStream ---------------------------
(* A buffer of seven cells and a prefix of two: frames of four to twelve     *)
(* cells end anywhere in it, and the largest body is read without it.        *)
EXTENDS MessageStream
=============================================================================
