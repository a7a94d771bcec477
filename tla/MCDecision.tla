----------------------------- MODULE MCDecision ------------------------------
(* Three audiences of one mode and one of the other, two notes; five keywords *)
(* of which two share their text.                                             *)
EXTENDS Decision

MCMode == <<"STATIC_DMP", "STATIC_DMP", "STATIC_DMP", "DYNAMIC_BEHAVIOR">>

MCText == <<"a", "a", "b", "c", "d">>

==============================================================================
