------------------------------ MODULE MCIngest ------------------------------
(* Instances of Ingest for TLC. *)
EXTENDS Ingest
CONSTANTS a, b
=============================================================================
