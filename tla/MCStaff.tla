------------------------------ MODULE MCStaff -------------------------------
(* Small instances of Staff.                                               *)
EXTENDS Staff, TLC

CONSTANTS t1, t2, u1, u2, u3, u4

Symmetry == Permutations(Thread) \cup Permutations(User)
=============================================================================
