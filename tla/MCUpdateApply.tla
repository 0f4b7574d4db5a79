--------------------------- MODULE MCUpdateApply ---------------------------
(***************************************************************************)
(* Version 2 installed over version 1, archives 3 and 4 staged.             *)
(***************************************************************************)
EXTENDS UpdateApply

MCArchives == {3, 4}
=============================================================================
