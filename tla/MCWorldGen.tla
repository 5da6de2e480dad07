----------------------------- MODULE MCWorldGen -----------------------------
EXTENDS WorldGen
=============================================================================
