----------------------------- MODULE MCMembership -----------------------------
EXTENDS MembershipController

CONSTANTS s1, k1, r1, r2, ref1, fin, foreign1

MembershipSpec(granted) == [server |-> s1, role |-> r1, member |-> ref1, granted |-> granted]

(* A membership that is given and taken.  The secret names either r2 or,   *)
(* which the server refuses, r1 itself.                                    *)
Given         == {MembershipSpec(TRUE)}
GivenAndTaken == {MembershipSpec(TRUE), MembershipSpec(FALSE)}
===============================================================================
