---------------------------- MODULE MCTenantPolicy ----------------------------
(* Instances of TenantPolicy for TLC: two private tenants with a chain each.*)
EXTENDS TenantPolicy, TLC

CONSTANTS a, b

MCChainOf == (a :> "FW-a") @@ (b :> "FW-b") @@ (Default :> "FW-default")
=============================================================================
