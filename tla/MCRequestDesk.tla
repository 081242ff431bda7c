---------------------------- MODULE MCRequestDesk ----------------------------
(* One member and one service; r1 and r2 ask for access, r3 for support. *)
EXTENDS RequestDesk, TLC

CONSTANTS m1, s1, r1, r2, r3, c1, c2

MCUserOf == [r \in Request |-> m1]
MCServiceOf == [r \in Request |-> s1]
MCKindOf == [r \in Request |-> IF r = r3 THEN "support" ELSE "access"]
CallSymmetry == Permutations(Call)
=============================================================================
