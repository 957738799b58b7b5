------------------------------ MODULE MCLogin -------------------------------
(* A model-checking instance of LoginFlow. *)
EXTENDS LoginFlow

CONSTANTS g, static, r1, r2, r3, x1, x2

Ask(c, u, v) == [client |-> c, redirect |-> u, verifier |-> v]

(* A registered client, the same with a redirect it has not registered, the *)
(* configured client, a stranger, and a redirect that no one may have.      *)
Own == Ask(g, "home", "v1")
Astray == Ask(g, "away", "v1")
Configured == Ask(static, "away", "v2")
Stranger == Ask("stranger", "away", "v2")
Nowhere == Ask(static, "nowhere", "v2")

MCParams == {Own, Astray, Configured, Stranger, Nowhere}
MCUris == [c \in {g} |-> {"home"}]

(* Of the inputs, those that meet: r1 has a one-time code sent (or opens the *)
(* first page), r2 brings one; r3 brings the same for a party of its own, or *)
(* has another sent; both exchanges present r2's authorization code, or one  *)
(* of them r3's.                                                             *)
MCInputs ==
  /\ par \in {[r \in Requests |-> IF r = r1 THEN p ELSE IF r = r2 THEN Own ELSE q] :
               p \in {Configured, Nowhere}, q \in {Own, Astray, Stranger}}
  /\ step \in {[r \in Requests |-> IF r = r1 THEN s ELSE IF r = r2 THEN "verify" ELSE t] :
                s \in {"get", "send_code"}, t \in {"send_code", "verify"}}
  /\ typed \in {[r \in Requests |-> IF r = r1 THEN NoOtp ELSE IF r = r2 THEN o ELSE r1] :
                 o \in {r1, r3}}
  /\ code \in {[x \in Exchanges |-> IF x = x1 THEN r2 ELSE r] : r \in {r2, r3}}
  /\ claim \in {[x \in Exchanges |-> IF x = x1 THEN p ELSE Own] : p \in {Own, Stranger}}
  /\ step[r3] = "send_code" => par[r3] = Stranger /\ code[x2] = r2
  /\ step[r3] = "verify" => typed[r2] = r1

MCInit == MCInputs /\ Init
MCSpec == MCInit /\ [][Next]_vars /\ Fairness
=============================================================================
