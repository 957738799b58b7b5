------------------------------- MODULE MCOAuth -------------------------------
(* Model-checking instances of OAuthSession. *)
EXTENDS OAuthSession, TLC

(* Token requests, tool calls and sessions are interchangeable. *)
Symmetry ==
  Permutations(Exchanges) \cup Permutations(Calls) \cup Permutations(Sessions)
=============================================================================
