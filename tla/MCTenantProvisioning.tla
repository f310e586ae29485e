-------------------------- MODULE MCTenantProvisioning --------------------------
(* The instances of TenantProvisioning that TLC checks. *)
EXTENDS TenantProvisioning, TLC

CONSTANTS q1, q2, q3, q4, t1, t2, t3, acme, beta, Pskov, pskov, Novgorod

\* The names of t2 and t3 give the same login.
MCLogins == {acme, beta}
MCLoginOf == [t \in Tenants |-> IF t = t1 THEN acme ELSE beta]

\* Pskov and pskov are case variants of one topic name, as are no other two.
MCFold == [k \in Topics |-> IF k = Pskov THEN pskov ELSE k]

Symmetry == Permutations(Requests)
================================================================================
