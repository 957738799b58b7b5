------------------------------- MODULE MCGuard -------------------------------
(* Model-checking instances of OutboundGuard. *)
EXTENDS OutboundGuard, TLC

(* Calls, buckets and upstreams are interchangeable. *)
Symmetry ==
  Permutations(Calls) \cup Permutations(Buckets) \cup Permutations(Upstreams)
=============================================================================
