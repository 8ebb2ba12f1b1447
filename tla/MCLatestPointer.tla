--------------------------- MODULE MCLatestPointer ---------------------------
(* Instances of LatestPointer for TLC.  No definition tells one run from     *)
(* another before it acts, so runs are interchangeable.                      *)
EXTENDS LatestPointer, TLC

Interchangeable == Permutations(Runs)
=============================================================================
