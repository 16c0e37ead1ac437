---------------------------- MODULE MCProvisioning ----------------------------
(* Two organizations take turns in one place, while callers create and enter *)
(* them at the same time.                                                    *)
EXTENDS ProvisioningProperties
=============================================================================
