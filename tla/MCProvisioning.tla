--------------------------- MODULE MCProvisioning ---------------------------
(* Instances of Provisioning for TLC.                                       *)
EXTENDS Provisioning

CONSTANTS k1, k2

\* The registry and the key store have a bootstrap token, the policy none.
MCBootstrap == [s \in Provisioned |-> IF s = "policy" THEN Unbound ELSE k1]

=============================================================================
