---------------------------- MODULE MCSdkClient -----------------------------
(* Two application threads and the callbacks of the receiving thread use one *)
(* topic of a periodic collector.                                            *)
EXTENDS SdkClient

CONSTANTS t1, t2, receiver, a
=============================================================================
