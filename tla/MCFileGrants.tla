----------------------------- MODULE MCFileGrants -----------------------------
EXTENDS FileGrants, TLC

\* The paths are interchangeable: nothing depends on their names.
MCSymmetry == Permutations(Paths)
==============================================================================
