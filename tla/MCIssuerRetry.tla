--------------------------- MODULE MCIssuerRetry ---------------------------
(* Instances of IssuerRetry for TLC. *)
EXTENDS IssuerRetry
=============================================================================
