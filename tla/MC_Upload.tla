------------------------------- MODULE MC_Upload -------------------------------
EXTENDS Upload

CONSTANTS f1, f2

MCFiles == {f1, f2}
=============================================================================
