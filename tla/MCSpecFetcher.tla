---------------------------- MODULE MCSpecFetcher ----------------------------
(* Instances of SpecFetcher for TLC. *)
EXTENDS SpecFetcher
=============================================================================
