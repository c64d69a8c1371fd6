----------------------------- MODULE MCTLSCerts -----------------------------
(* TLSCerts on small instances. *)
EXTENDS TLSCerts, TLC

=============================================================================
