---------------------------- MODULE MCAlertOutbox ----------------------------
(* AlertOutbox with two exporters over one file.                            *)
EXTENDS AlertOutboxProperties

MCUnreadable == {"c"}
=============================================================================
