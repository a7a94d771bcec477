---------------------------- MODULE MCTestWrite -----------------------------
(* Instances of TestWrite for TLC.                                         *)
EXTENDS TestWrite, TLC

Interchangeable == Permutations(Grants) \cup Permutations(Workers)
                     \cup Permutations(Requests)

=============================================================================
