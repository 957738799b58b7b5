------------------------------- MODULE MCJobs -------------------------------
(* Model-checking instances of JobBook. *)
EXTENDS JobBook, TLC

(* Calls, jobs and homeowners are interchangeable. *)
Symmetry ==
  Permutations(Calls) \cup Permutations(Jobs) \cup Permutations(Homeowners)
=============================================================================
