----------------------------- MODULE MCJobQueue -----------------------------
(* Instances of JobQueue for TLC: one external write and one PREPARE job.  *)
EXTENDS JobQueue

CONSTANTS write, prepare, w1, w2, w3

KindTwo == [j \in {write, prepare} |->
                IF j = write THEN "EXECUTE_TEST" ELSE "PREPARE"]

=============================================================================
