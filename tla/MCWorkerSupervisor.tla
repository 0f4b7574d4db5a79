------------------------- MODULE MCWorkerSupervisor -------------------------
(***************************************************************************)
(* Three callers of one supervisor, one of them with an oversized request   *)
(* and one with a request larger than the pipe.                             *)
(***************************************************************************)
EXTENDS WorkerSupervisor

CONSTANTS c1, c2, c3

MCCalls == {c1, c2, c3}
MCOversize == {c3}
MCLarge == {c2}
=============================================================================
