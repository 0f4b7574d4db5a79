---------------------------- MODULE MCEventHub ----------------------------
(***************************************************************************)
(* EventHub with one polling page, events for it, for another window and   *)
(* for every window, and a history one event shorter than what is          *)
(* published, so that an event can be evicted before the page looks.       *)
(***************************************************************************)
EXTENDS EventHub

CONSTANTS w1, w2, all

MCWindows == {w1}
MCTargets == {w1, w2, all}
=============================================================================
