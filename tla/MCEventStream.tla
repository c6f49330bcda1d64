--------------------------- MODULE MCEventStream ---------------------------
(* Instances of EventStream for TLC.                                       *)
EXTENDS EventStream
=============================================================================
