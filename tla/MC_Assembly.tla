---------------------------- MODULE MC_Assembly ----------------------------
EXTENDS Assembly
=============================================================================
