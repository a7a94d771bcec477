--------------------------- MODULE WriteAuthority ---------------------------
(***************************************************************************)
(* What approvers rely on when they sign grants: a grant is worth one      *)
(* write, and one more for every resume of an operator; it is spent while  *)
(* it is in force, and one that was revoked or has expired is worth        *)
(* nothing any more.  TestWrite implements it.                             *)
(***************************************************************************)
EXTENDS Naturals

CONSTANT Grants

VARIABLES
    authority,  \* what each grant is: not issued, in force, void or spent
    allowed,    \* how many writes its approver and the operators allowed
    written     \* how many campaigns were created under it

vars == <<authority, allowed, written>>

Init ==
    /\ authority = [g \in Grants |-> "none"]
    /\ allowed = [g \in Grants |-> 0]
    /\ written = [g \in Grants |-> 0]

Become(g, from, to) ==
    /\ authority[g] = from
    /\ authority' = [authority EXCEPT ![g] = to]

Issue(g) == Become(g, "none", "in force") /\ UNCHANGED <<allowed, written>>

\* Revoked by an approver, or expired.
Void(g) == Become(g, "in force", "void") /\ UNCHANGED <<allowed, written>>

AllowOne(g) == allowed' = [allowed EXCEPT ![g] = @ + 1]

Spend(g) == Become(g, "in force", "spent") /\ AllowOne(g) /\ UNCHANGED written

\* An operator resumes the write of a spent grant.
AllowAgain(g) == authority[g] = "spent" /\ AllowOne(g) /\ UNCHANGED <<authority, written>>

Write(g) ==
    /\ authority[g] = "spent"
    /\ written[g] < allowed[g]
    /\ written' = [written EXCEPT ![g] = @ + 1]
    /\ UNCHANGED <<authority, allowed>>

Next == \E g \in Grants : Issue(g) \/ Void(g) \/ Spend(g) \/ AllowAgain(g) \/ Write(g)

Spec == Init /\ [][Next]_vars

=============================================================================
