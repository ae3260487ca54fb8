------------------------------- MODULE MCProxy -------------------------------
(* Instances of Proxy for TLC. *)
EXTENDS Proxy, TLC

\* A GET, a POST that may not be replayed, and an upload too large to buffer.
MCKinds == {[idempotent |-> TRUE,  body |-> "none"],
            [idempotent |-> FALSE, body |-> "small"],
            [idempotent |-> TRUE,  body |-> "large"]}

Symmetry == Permutations(Requests) \cup Permutations(Hosts)
=============================================================================
