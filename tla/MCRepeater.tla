---------------------------- MODULE MCRepeater ----------------------------
EXTENDS Repeater

MC_MaxCalls == 3
=============================================================================
