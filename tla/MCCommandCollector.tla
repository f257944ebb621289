------------------------ MODULE MCCommandCollector --------------------------
(* One topic, opened up to four times.                                       *)
EXTENDS CommandCollector
=============================================================================
