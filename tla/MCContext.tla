------------------------------ MODULE MCContext -------------------------------
(* Small instances of TenantContext.                                        *)
EXTENDS TenantContext, TLC

CONSTANTS t1, w1, w2, u1, u2, s1, s2

Symmetry == Permutations(User) \cup Permutations(Worker) \cup Permutations(Tenant)
=============================================================================
