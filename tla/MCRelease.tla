----------------------------- MODULE MCRelease ------------------------------
(* Instances of Release for TLC.                                           *)
EXTENDS Release

=============================================================================
