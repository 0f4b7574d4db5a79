---------------------------- MODULE MCProcessRunner ----------------------------
EXTENDS ProcessRunner
==============================================================================
