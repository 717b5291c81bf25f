------------------------------- MODULE MC_Drive -------------------------------
(* Model of Drive's data path: a file of up to 2 blocks, one of which the *)
(* object holds at the start, two different data a write may carry.      *)
EXTENDS Drive

CONSTANTS d1, d2

MCUserData == {d1, d2}
=============================================================================
