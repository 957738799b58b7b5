--------------------------- MODULE RefreshLineage ---------------------------
(***************************************************************************)
(* What rotation promises about the right to refresh a homeowner session,  *)
(* without codes, tokens, stores or clocks.  The right is born with the    *)
(* login; it passes to one token request after another, each of which can  *)
(* only ever get it once; it can be lost, and then it is lost for good.    *)
(***************************************************************************)
CONSTANTS
  Sessions, Exchanges,
  Login,      \* the right is still with the login
  Gone        \* nobody has the right any more

VARIABLES
  holder,     \* holder[s]: who has the right to refresh session s
  past        \* the requests that have presented a code or a token

vars == <<holder, past>>

Init ==
  /\ holder = [s \in Sessions |-> Login]
  /\ past = {}

(* A request presents what it was given: it takes the right, or uses it up,  *)
(* or is turned away.                                                        *)
Present(s, x) ==
  /\ x \notin past
  /\ past' = past \cup {x}
  /\ \/ UNCHANGED holder
     \/ /\ holder[s] # Gone
        /\ \E h \in {x, Gone} : holder' = [holder EXCEPT ![s] = h]

Drop(s) ==
  /\ holder' = [holder EXCEPT ![s] = Gone]
  /\ UNCHANGED past

Next ==
  \E s \in Sessions : Drop(s) \/ \E x \in Exchanges : Present(s, x)

Spec == Init /\ [][Next]_vars
=============================================================================
