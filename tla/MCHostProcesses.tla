--------------------------- MODULE MCHostProcesses ---------------------------
(***************************************************************************)
(* Two starts by the user and two agents, a project with two versions of    *)
(* its sources and an input outside the fingerprint.                        *)
(***************************************************************************)
EXTENDS HostProcesses, TLC

CONSTANTS h1, h2, a1, a2

MCHosts == {h1, h2}
MCAgents == {a1, a2}

\* The sources ask for an agent or do not; the input left out of the fingerprint
\* turns the first into a profile without snapshots.
MCBoots ==
    [i \in [fp : 0..1, ext : {0}] \cup [fp : {0}, ext : {1}] |->
        IF i.ext = 1 THEN "nosnapshot" ELSE IF i.fp = 0 THEN "agent" ELSE "inproc"]

Symmetric == Permutations(MCHosts)

=============================================================================
