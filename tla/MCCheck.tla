------------------------------ MODULE MCCheck ------------------------------
EXTENDS Check, MCProject
=============================================================================
