------------------------------ MODULE MCSecrets ------------------------------
(* Instances of Secrets for TLC. *)
EXTENDS Secrets
==============================================================================
