----------------------------- MODULE MCGenerate -----------------------------
EXTENDS Generate, MCProject
=============================================================================
