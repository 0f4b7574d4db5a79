------------------------- MODULE MCGatewayRequests -------------------------
(***************************************************************************)
(* A workspace application of three windows, c below b, with a parallel      *)
(* command, and a version of it with window c only, on the primary worker.   *)
(***************************************************************************)
EXTENDS GatewayRequests

CONSTANTS a, b, c, save, scan, plugin

MCWindows == {a, b, c}
MCCommands == {save, scan}
MCUses == {<<a, save>>, <<c, save>>, <<c, scan>>, <<c, plugin>>}

PerWorkspace == [windows |-> {a, b, c}, parallel_worker_count |-> 1,
                 isolation |-> "workspace", parent |-> [w \in {c} |-> b],
                 execution |-> [m \in MCCommands |->
                                   IF m = save THEN "stateful" ELSE "parallel"]]

Shared == [windows |-> {c}, parallel_worker_count |-> 1,
           isolation |-> "shared", parent |-> [w \in {} |-> a],
           execution |-> [m \in MCCommands |-> "stateful"]]

MCConfigs == {PerWorkspace, Shared}
=============================================================================
