--------------------------- MODULE UpdateContract ---------------------------
(***************************************************************************)
(* What the detached update helper promises (docs/updates.md, "Interrupted  *)
(* installation recovery"): at every moment some complete version of the    *)
(* application can be had, and it changes only from the version in place    *)
(* to a staged one, or back to the one it replaced.                         *)
(***************************************************************************)
CONSTANTS Versions, Installed

VARIABLES current,  \* the version a user ends up with
          fallback  \* the version kept beside it (current when there is none)

Init == current = Installed /\ fallback \in Versions

Install(v) == current' = v /\ fallback' = current

Revert == current' = fallback /\ fallback' = fallback

\* The kept version is discarded to make room for the next one.
Discard == current' = current /\ fallback' = current

Next == (\E v \in Versions : Install(v)) \/ Revert \/ Discard

Spec == Init /\ [][Next]_<<current, fallback>>
=============================================================================
