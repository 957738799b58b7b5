------------------------------ MODULE MCBooking ------------------------------
(* Model-checking instances of BookingIdempotency. *)
EXTENDS BookingIdempotency, TLC

CONSTANTS r1, r2, i1, i2, i3, i4

(* Requests are interchangeable: no property names one. *)
SameRequests == Permutations(Requests)

(* Two requests on two servers with the table (i1, i2), one that falls back  *)
(* to its memory (i3) and one that refuses its memory first (i4): every      *)
(* pair of servers, up to renaming the requests and the first two servers.   *)
Pairs == {<<i1, i1>>, <<i1, i2>>, <<i1, i3>>, <<i1, i4>>,
          <<i3, i3>>, <<i3, i4>>, <<i4, i4>>}
MCInit == Init /\ <<inst[r1], inst[r2]>> \in Pairs
MCSpec == MCInit /\ [][Next]_vars /\ Fairness
=============================================================================
