----------------------------- MODULE MCUpdater -----------------------------
(***************************************************************************)
(* 1.9 is installed; a candidate of it is published late, then 1.10.         *)
(***************************************************************************)
EXTENDS Updater

Name(n) == [name |-> TRUE, is |-> n]
Number(n) == [name |-> FALSE, is |-> n]
Version(core, pre) == [core |-> core, pre |-> pre]

Installed == Version(<<1, 9>>, <<>>)
Preview == Version(<<1, 9, 0>>, <<Name(1), Number(2)>>)
Coming == Version(<<1, 10>>, <<Name(1)>>)
Final == Version(<<1, 10>>, <<>>)

MCReleases == <<Installed, Preview, Coming, Final>>
MCPrecedence == <<Preview, Installed, Coming, Final>>
=============================================================================
