---------------------------- MODULE OneTimeCode -----------------------------
(***************************************************************************)
(* What becomes of a one-time code, without pages, stores or clocks.  It is*)
(* sent to a phone, at most one login for that phone takes it from there,  *)
(* and at most one exchange takes that login's place and is given tokens.  *)
(* It can be lost on the way, and then it is lost for good.                *)
(***************************************************************************)
CONSTANTS
  Requests,   \* a one-time code is named by the request that has it sent
  Exchanges,
  Phones

VARIABLES
  phone,      \* phone[r]: the phone that r names
  sent,       \* the one-time codes that have been sent
  hands       \* hands[o]: who has o

vars == <<phone, sent, hands>>

OnPhone(h) == <<"phone", h>>
Login(r) == <<"login", r>>
Tokens(x) == <<"tokens", x>>

Init ==
  /\ phone \in [Requests -> Phones]
  /\ sent = {}
  /\ hands = [o \in Requests |-> {}]

(* A new code takes the place of the one that was good for its phone. *)
Send(o) ==
  /\ o \notin sent
  /\ sent' = sent \cup {o}
  /\ hands' = [p \in Requests |-> IF p = o THEN {OnPhone(phone[o])}
                                  ELSE hands[p] \ {OnPhone(phone[o])}]
  /\ UNCHANGED phone

Use(o, r) ==
  /\ hands[o] = {OnPhone(phone[r])}
  /\ hands' = [hands EXCEPT ![o] = {Login(r)}]
  /\ UNCHANGED <<phone, sent>>

Redeem(o, r, x) ==
  /\ hands[o] = {Login(r)}
  /\ hands' = [hands EXCEPT ![o] = {Tokens(x)}]
  /\ UNCHANGED <<phone, sent>>

(* Tokens are for good. *)
Lose(o) ==
  /\ \A x \in Exchanges : Tokens(x) \notin hands[o]
  /\ hands' = [hands EXCEPT ![o] = {}]
  /\ UNCHANGED <<phone, sent>>

Next ==
  \E o \in Requests :
    \/ Send(o) \/ Lose(o)
    \/ \E r \in Requests : Use(o, r) \/ \E x \in Exchanges : Redeem(o, r, x)

Spec == Init /\ [][Next]_vars
=============================================================================
