----------------------------- MODULE MCTenantCache -----------------------------
(* The instance of TenantCache that TLC checks. *)
EXTENDS TenantCache

CONSTANTS acme, beta, garbage
================================================================================
