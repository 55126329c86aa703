---------------------------- MODULE MCRateLimit ----------------------------
(* Small instances of RateLimit for TLC. *)
EXTENDS RateLimit, TLC

\* Requests that are not bypassed are interchangeable.
Symmetry == Permutations(Requests \ Bypassed)
=============================================================================
