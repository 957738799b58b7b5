---------------------------- MODULE SlidingWindow ----------------------------
(***************************************************************************)
(* What a rate limit means, without the list of timestamps that decides    *)
(* it: a call is refused when, and only when, Limit calls of its bucket    *)
(* were admitted less than Window ago.                                     *)
(***************************************************************************)
EXTENDS Naturals, FiniteSets

CONSTANTS Calls, Buckets, Limit, Window

VARIABLES
  now,      \* the clock
  of,       \* of[c]: the bucket of c
  at,       \* at[c]: when c was decided
  verdict   \* verdict[c]: what was decided

vars == <<now, of, at, verdict>>

Init ==
  /\ now = 0
  /\ of \in [Calls -> Buckets]
  /\ at = [c \in Calls |-> 0]
  /\ verdict = [c \in Calls |-> "none"]

Admitted(b) == {c \in Calls : /\ verdict[c] = "admitted" /\ of[c] = b
                              /\ at[c] + Window > now}

Exhausted(b) == Limit > 0 /\ Cardinality(Admitted(b)) >= Limit

Decide(c, v) ==
  /\ verdict[c] = "none"
  /\ verdict' = [verdict EXCEPT ![c] = v]
  /\ at' = [at EXCEPT ![c] = now]
  /\ UNCHANGED <<now, of>>

Admit(c) == ~Exhausted(of[c]) /\ Decide(c, "admitted")
Refuse(c) == Exhausted(of[c]) /\ Decide(c, "refused")

Tick == now' = now + 1 /\ UNCHANGED <<of, at, verdict>>

Next == Tick \/ \E c \in Calls : Admit(c) \/ Refuse(c)

Spec == Init /\ [][Next]_vars
=============================================================================
