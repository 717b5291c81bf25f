---------------------------- MODULE MC_FileAccess ----------------------------
EXTENDS FileAccess
=============================================================================
