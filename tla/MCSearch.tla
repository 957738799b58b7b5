------------------------------ MODULE MCSearch ------------------------------
(* Model-checking instances of ProviderSearch. *)
EXTENDS ProviderSearch

CONSTANTS c1, c2, p1, p2, p3

(* Two cities of one state. *)
MCCityOf == [l \in {"sacramento, ca", "fresno, ca"} |->
               IF l = "fresno, ca" THEN "fresno" ELSE "sacramento"]
MCStateOf == [l \in {"sacramento, ca", "fresno, ca"} |-> "ca"]

(* A query of two words with stems, and one without. *)
MCStems == [q \in {"carpet cleaning", "ac"} |->
              IF q = "ac" THEN {} ELSE {"carpe", "clean"}]

(* p1 and p2 are taken to serve California, p3 is not; p1 and p3 are taken to *)
(* offer carpet cleaning, p2 is not.                                          *)
MCAreas == [p \in {p1, p2, p3} |-> {IF p = p1 THEN "fresno, ca"
                                    ELSE IF p = p2 THEN "chicago, il" ELSE "austin, tx"}]
MCTrades == [p \in {p1, p2, p3} |-> {IF p = p1 THEN "carpentry"
                                     ELSE IF p = p2 THEN "plumbing" ELSE "carpet care"}]

(* The tokens and stems above that occur in these texts. *)
MCContains ==
  [t \in {"fresno, ca", "chicago, il", "austin, tx", "carpentry", "plumbing", "carpet care"} |->
     CASE t = "fresno, ca" -> {"fresno, ca", "fresno", "ca"}
       [] t = "chicago, il" -> {"ca"}
       [] t \in {"carpentry", "carpet care"} -> {"carpe"}
       [] OTHER -> {}]

MCReplies == {{}, {p2}, {p1, p3}}

(* The operator knows of one provider, in Chicago. *)
MCFarReplies == {{}, {p2}}

(* A query matters to its own call alone: one call of each kind is enough.   *)
(* The other call asks for the same ZIP code or for something else.          *)
MCInit ==
  /\ Init
  /\ query[c1] = "carpet cleaning" /\ query[c2] = "ac"
  /\ where[c1] \in Zips
MCSpec == MCInit /\ [][Next]_vars /\ Fairness
=============================================================================
