---------------------------- MODULE MCNetflow ----------------------------
EXTENDS Netflow

MC_MaxInits == 3

MC_MaxIfaces == 3
=============================================================================
