---------------------------- MODULE MCTaskRunner ----------------------------
(* Instances of TaskRunner for TLC. *)
EXTENDS TaskRunner, TLC

CONSTANTS handler, logfire

\* A span meter, and a callback attached after it.
MeterAndHandler == <<logfire, handler>>
=============================================================================
