------------------------------ MODULE Decision -------------------------------
(***************************************************************************)
(* The decisions of one preparation.  The selection of the FEED plans and  *)
(* the evaluation of the keywords read different inputs and never each     *)
(* other's results, so a behaviour follows one of them.                    *)
(***************************************************************************)
EXTENDS PlanMatrix, Keywords

vars == <<matrixVars, keywordVars>>

MatrixOff == /\ stage = "off" /\ policy = "HARD" /\ ready = {} /\ left = {}
             /\ MatrixEmpty

KeywordsOff == /\ round = "off"
               /\ lane = [k \in Words |-> CHOOSE n \in Lanes : TRUE]
               /\ heat = [k \in Words |-> 0]
               /\ KeywordsEmpty

Init == \/ MatrixInit /\ KeywordsOff
        \/ KeywordsInit /\ MatrixOff

Next == \/ MatrixNext /\ UNCHANGED keywordVars
        \/ KeywordsNext /\ UNCHANGED matrixVars

Spec == Init /\ [][Next]_vars

\* Both decisions keep their types.
TypeOK == MatrixTypeOK /\ KeywordsTypeOK

=============================================================================
