---------------------------- MODULE BookingProofs ----------------------------
(***************************************************************************)
(* Proofs about BookingIdempotency, for every set of requests, keys and    *)
(* instances, every TTL, Span and Horizon, with the shared table or the    *)
(* process-local stores.                                                   *)
(*                                                                         *)
(* ResubmissionNeedsExpiry is not inductive: that a second call cannot     *)
(* pass the claim early follows from the claim still being in the store,   *)
(* which follows from nobody having purged it, which follows from what     *)
(* every reader saw.  IInv says these things about the first TTL seconds   *)
(* of a key, its Early time.  The last part proves the refinement of       *)
(* OncePerKey.                                                             *)
(***************************************************************************)
EXTENDS BookingIdempotency, TLAPS

Started(r) == pc[r] # "idle"
Keyed(r) == key[r] \in Keys
Early(k) == now < opened[k] + TTL
FirstEnd(k) == opened[k] + TTL

(* Past the claim, or having posted. *)
Permitted(r) == pc[r] = "post" \/ Submitted(r)

(* Idle requests carry no key, have posted nothing and are not forgotten. *)
IdleInv ==
  \A r \in Requests :
    /\ pc[r] = "idle" => key[r] = NoKey /\ operator[r] = "none"
    /\ pc[r] \in {"claim", "read", "conclude", "post"} => operator[r] = "none"
    /\ pc[r] \in {"wait", "complete"} => operator[r] # "none"
    /\ r \in forgotten => pc[r] = "done" /\ ~Shared(r)

(* The clock of a call in flight. *)
ClockInv ==
  \A r \in Requests :
    /\ stamp[r] <= now
    /\ InFlight(r) => now <= began[r] + Span
    /\ Keyed(r) => opened[key[r]] <= began[r] /\ opened[key[r]] <= stamp[r]
    /\ pc[r] = "claim" => stamp[r] = began[r]

(* Nothing stored under a key expires in the key's early time. *)
EntryInv ==
  \A s \in Stores, k \in Keys :
    store[s][k] # Absent => Used(k) /\ store[s][k].exp >= FirstEnd(k)

(* In the early time, a call that passed the claim, or is about to read it, *)
(* finds an entry; a call that has read it saw one.                         *)
HoldInv ==
  \A r \in Requests :
    (Keyed(r) /\ r \notin forgotten /\ Early(key[r])) =>
      /\ Permitted(r) \/ pc[r] = "read" => Held(r).exp >= FirstEnd(key[r])
      /\ pc[r] = "conclude" => seen[r].exp >= FirstEnd(key[r])

(* ResubmissionNeedsExpiry, for calls that are about to post as well. *)
RivalInv ==
  \A q, r \in Requests :
    (Rivals(q, r) /\ Permitted(q) /\ Permitted(r)) =>
      began[q] + Span >= FirstEnd(key[q]) \/ began[r] + Span >= FirstEnd(key[r])

IInv == TypeOK /\ IdleInv /\ ClockInv /\ EntryInv /\ HoldInv /\ RivalInv

------------------------------------------------------------------------------
(* The ways a call, an instance, the table or the clock can step. *)
LEMMA NextCases ==
  ASSUME Next
  PROVE  \/ \E r \in Requests, k \in Keys \cup {NoKey} : Arrive(r, k)
         \/ \E r \in Requests : TurnAway(r)
         \/ \E r \in Requests : SkipClaim(r)
         \/ \E r \in Requests : ClaimWon(r)
         \/ \E r \in Requests : ClaimTaken(r)
         \/ \E r \in Requests : ClaimLocally(r)
         \/ \E r \in Requests : ReadClaim(r)
         \/ \E r \in Requests : ReportClaim(r)
         \/ \E r \in Requests : PurgeClaim(r)
         \/ \E r \in Requests : StateUnavailable(r)
         \/ \E r \in Requests : RefuseToPost(r)
         \/ \E r \in Requests : Post(r)
         \/ \E r \in Requests : OperatorDecides(r)
         \/ \E r \in Requests : HearBooked(r)
         \/ \E r \in Requests : HearNothing(r)
         \/ \E r \in Requests : Complete(r)
         \/ \E r \in Requests : Notify(r)
         \/ \E i \in Instances : Crash(i)
         \/ \E k \in Keys : Sweep(k)
         \/ Tick
BY DEF Next, Serve, Claim

(* The entries and answers the steps write have their types. *)
LEMMA WrittenTypes ==
  /\ Absent \in Entries(Claims)
  /\ \A e \in Nat : Item(InProgress, e) \in Entries(Claims)
  /\ \A r \in Requests, e \in Nat : Item(Completed(r), e) \in Entries(Claims)
  /\ \A s \in {"failed", "unavailable", "confirmation_required", "in_progress",
             "created", "lost"} :
       Says(s) \in Answers
BY DEF Entries, Item, Claims, Answers

(* Only a live entry is reported, and a live entry holds a claim. *)
LEMMA AnswerType ==
  ASSUME NEW e \in Entries(Claims), NEW t \in Nat, Live(e, t)
  PROVE  AnswerFor(e.val) \in Answers
<1>1. e # Absent
  BY DEF Live, Absent
<1>2. e.val \in Claims
  BY <1>1 DEF Entries
<1>3. CASE e.val = InProgress
  BY <1>3 DEF AnswerFor, Answers
<1>4. CASE e.val # InProgress
  <2>1. PICK r \in Requests : e.val = Completed(r)
    BY <1>2, <1>4 DEF Claims
  <2> QED
    BY <1>4, <2>1 DEF AnswerFor, Answers, Completed, Replays
<1> QED
  BY <1>3, <1>4

LEMMA StoreTypes ==
  ASSUME TypeOK, NEW r \in Requests
  PROVE  /\ StoreOf(r) \in Stores
         /\ Shared(r) => StoreOf(r) = Table
         /\ ~Shared(r) => StoreOf(r) = inst[r]
         /\ Table \in Stores /\ inst[r] \in Stores
         /\ key[r] \in Keys => Held(r) \in Entries(Claims)
BY DEF TypeOK, StoreOf, Stores, Held

LEMMA WriteType ==
  ASSUME TypeOK, NEW s \in Stores, NEW k \in Keys, NEW e \in Entries(Claims),
         Write(s, k, e)
  PROVE  store' \in [Stores -> [Keys -> Entries(Claims)]]
BY DEF TypeOK, Write

LEMMA InitType == Init => TypeOK
BY WrittenTypes DEF Init, TypeOK, KeyedSteps, Labels, Answers

LEMMA NextType == TypeOK /\ [Next]_vars => TypeOK'
<1> SUFFICES ASSUME TypeOK, [Next]_vars PROVE TypeOK'
  OBVIOUS
<1> USE BookingAssumption, WrittenTypes
<1>0. CASE UNCHANGED vars
  BY <1>0 DEF vars, TypeOK, KeyedSteps, Shared, Stores
<1>1. ASSUME NEW r \in Requests, NEW k \in Keys \cup {NoKey}, Arrive(r, k)
      PROVE TypeOK'
  BY <1>1 DEF TypeOK, KeyedSteps, Shared, Stores, Arrive, Goto, Labels
<1>2. ASSUME NEW r \in Requests, TurnAway(r) PROVE TypeOK'
  BY <1>2 DEF TypeOK, KeyedSteps, Shared, Stores, TurnAway, Goto, Reply, Labels
<1>3. ASSUME NEW r \in Requests, SkipClaim(r) PROVE TypeOK'
  BY <1>3 DEF TypeOK, KeyedSteps, Shared, Stores, SkipClaim, Goto, Reply, Labels
<1>4. ASSUME NEW r \in Requests, ClaimWon(r) PROVE TypeOK'
  BY <1>4, StoreTypes DEF TypeOK, KeyedSteps, Shared, Stores, ClaimWon, Goto, Reply, Labels, Write
<1>5. ASSUME NEW r \in Requests, ClaimTaken(r) PROVE TypeOK'
  BY <1>5 DEF TypeOK, KeyedSteps, Shared, Stores, ClaimTaken, Goto, Reply, Labels
<1>6. ASSUME NEW r \in Requests, ClaimLocally(r) PROVE TypeOK'
  <2>1. inst[r] \in Stores /\ key[r] \in Keys /\ Held(r) \in Entries(Claims)
    BY <1>6, StoreTypes DEF TypeOK, ClaimLocally
  <2>2. now' \in Nat /\ now + TTL \in Nat
    BY <1>6 DEF TypeOK, ClaimLocally
  <2>3. Live(Held(r), now') => AnswerFor(Held(r).val) \in Answers
    BY <2>1, <2>2, AnswerType
  <2>4. store' \in [Stores -> [Keys -> Entries(Claims)]]
    <3>1. CASE UNCHANGED store
      BY <3>1 DEF TypeOK, Stores
    <3>2. CASE Write(inst[r], key[r], Item(InProgress, now + TTL))
      BY <2>1, <2>2, <3>2, WriteType
    <3>3. CASE Write(inst[r], key[r], Absent)
      BY <2>1, <3>3, WriteType
    <3> QED
      BY <1>6, <3>1, <3>2, <3>3 DEF ClaimLocally
  <2>5. pc' \in [Requests -> Labels] /\ answer' \in [Requests -> Answers]
    <3>1. CASE Goto(r, "post")
      BY <3>1 DEF TypeOK, Goto, Labels
    <3>2. CASE Reply(r, AnswerFor(Held(r).val)) /\ Live(Held(r), now')
      BY <2>3, <3>2 DEF TypeOK, Reply, Labels
    <3> QED
      BY <1>6, <3>1, <3>2 DEF ClaimLocally
  <2>6. KeyedSteps'
    BY <1>6 DEF TypeOK, KeyedSteps, Shared, ClaimLocally, Goto, Reply
  <2> QED
    BY <1>6, <2>2, <2>4, <2>5, <2>6 DEF TypeOK, Stores, ClaimLocally
<1>7. ASSUME NEW r \in Requests, ReadClaim(r) PROVE TypeOK'
  <2>1. seen' = [seen EXCEPT ![r] = Held(r)]
    BY <1>7 DEF ReadClaim
  <2>2. seen' \in [Requests -> Entries(Claims)]
    <3>1. Held(r) \in Entries(Claims)
      BY <1>7, StoreTypes DEF TypeOK, KeyedSteps, ReadClaim
    <3> QED
      BY <2>1, <3>1 DEF TypeOK
  <2> QED
    BY <1>7, <2>2 DEF TypeOK, KeyedSteps, Shared, Stores, ReadClaim, Goto, Labels
<1>8. ASSUME NEW r \in Requests, ReportClaim(r) PROVE TypeOK'
  <2>1. AnswerFor(seen[r].val) \in Answers
    BY <1>8, AnswerType DEF TypeOK, ReportClaim
  <2> QED
    BY <1>8, <2>1 DEF TypeOK, KeyedSteps, Shared, Stores, ReportClaim, Goto, Reply, Labels
<1>9. ASSUME NEW r \in Requests, PurgeClaim(r) PROVE TypeOK'
  BY <1>9, StoreTypes DEF TypeOK, KeyedSteps, Shared, Stores, PurgeClaim, Goto, Reply, Labels, Write
<1>10. ASSUME NEW r \in Requests, StateUnavailable(r) PROVE TypeOK'
  BY <1>10 DEF TypeOK, KeyedSteps, Shared, Stores, StateUnavailable, Refuses,
     Goto, Reply, Labels
<1>11. ASSUME NEW r \in Requests, RefuseToPost(r) PROVE TypeOK'
  BY <1>11 DEF TypeOK, KeyedSteps, Shared, Stores, RefuseToPost, Goto, Reply, Labels
<1>12. ASSUME NEW r \in Requests, Post(r) PROVE TypeOK'
  BY <1>12 DEF TypeOK, KeyedSteps, Shared, Stores, Post, Goto, Reply, Labels
<1>13. ASSUME NEW r \in Requests, OperatorDecides(r) PROVE TypeOK'
  BY <1>13 DEF TypeOK, KeyedSteps, Shared, Stores, OperatorDecides, Goto, Reply, Labels
<1>14. ASSUME NEW r \in Requests, HearBooked(r) PROVE TypeOK'
  BY <1>14 DEF TypeOK, KeyedSteps, Shared, Stores, HearBooked, Goto, Reply, Labels
<1>15. ASSUME NEW r \in Requests, HearNothing(r) PROVE TypeOK'
  BY <1>15 DEF TypeOK, KeyedSteps, Shared, Stores, HearNothing, Goto, Reply, Labels
<1>16. ASSUME NEW r \in Requests, Complete(r) PROVE TypeOK'
  <2>1. store' \in [Stores -> [Keys -> Entries(Claims)]]
    <3>1. CASE Write(StoreOf(r), key[r], Item(Completed(r), stamp[r] + TTL))
      <4>1. stamp[r] + TTL \in Nat /\ StoreOf(r) \in Stores /\ key[r] \in Keys
        BY <1>16, StoreTypes DEF TypeOK, KeyedSteps, Complete
      <4> QED
        BY <3>1, <4>1, WriteType
    <3>2. CASE UNCHANGED store
      BY <3>2 DEF TypeOK, Stores
    <3> QED
      BY <1>16, <3>1, <3>2 DEF Complete
  <2> QED
    BY <1>16, <2>1 DEF TypeOK, KeyedSteps, Shared, Stores, Complete, Goto, Labels
<1>17. ASSUME NEW r \in Requests, Notify(r) PROVE TypeOK'
  BY <1>17 DEF TypeOK, KeyedSteps, Shared, Stores, Notify, Goto, Reply, Labels
<1>18. ASSUME NEW i \in Instances, Crash(i) PROVE TypeOK'
  <2>1. store' \in [Stores -> [Keys -> Entries(Claims)]]
    <3>1. CASE i \in Durable
      BY <1>18, <3>1 DEF TypeOK, Stores, Crash
    <3>2. CASE i \notin Durable
      BY <1>18, <3>2 DEF TypeOK, Crash
    <3> QED
      BY <3>1, <3>2
  <2>2. /\ pc' \in [Requests -> Labels] /\ answer' \in [Requests -> Answers]
        /\ forgotten' \subseteq Requests
    BY <1>18 DEF TypeOK, Crash, Labels
  <2>3. KeyedSteps'
    BY <1>18 DEF TypeOK, KeyedSteps, Shared, Crash
  <2> QED
    BY <1>18, <2>1, <2>2, <2>3 DEF TypeOK, Stores, Crash
<1>19. ASSUME NEW k \in Keys, Sweep(k) PROVE TypeOK'
  BY <1>19 DEF TypeOK, KeyedSteps, Shared, Stores, Sweep, Write
<1>20. CASE Tick
  BY <1>20 DEF TypeOK, KeyedSteps, Shared, Stores, Tick
<1> QED
  BY NextCases, <1>0, <1>1, <1>2, <1>3, <1>4, <1>5, <1>6, <1>7, <1>8, <1>9, <1>10, <1>11, <1>12, <1>13, <1>14, <1>15, <1>16, <1>17, <1>18, <1>19, <1>20

(* Every reachable state of create_booking and its store is well typed, and  *)
(* the client is only ever given a BookingResult, never a stored record.     *)
THEOREM TypeCorrect == Spec => []TypeOK
BY InitType, NextType, PTL DEF Spec

------------------------------------------------------------------------------
(* The parts of IInv, one lemma each. *)

(* A key that some call uses keeps its opening time and its users. *)
LEMMA UseIsStable ==
  ASSUME TypeOK, IdleInv, [Next]_vars, NEW k \in Keys, Used(k)
  PROVE  Used(k)' /\ opened'[k] = opened[k]
<1>1. PICK q \in Requests : key[q] = k
  BY DEF Used
<1>2. NoKey # k
  BY BookingAssumption
<1>3. ASSUME NEW r \in Requests, NEW l \in Keys \cup {NoKey}, Arrive(r, l)
      PROVE  key'[q] = k /\ opened'[k] = opened[k]
  BY <1>1, <1>2, <1>3 DEF TypeOK, IdleInv, Arrive, Used
<1>4. ASSUME UNCHANGED <<key, opened>>
      PROVE  key'[q] = k /\ opened'[k] = opened[k]
  BY <1>1, <1>4
<1>5. key'[q] = k /\ opened'[k] = opened[k]
  BY <1>3, <1>4, NextCases DEF vars, TurnAway, SkipClaim, ClaimWon, ClaimTaken,
     ClaimLocally, ReadClaim, ReportClaim, PurgeClaim, StateUnavailable,
     RefuseToPost, Post, OperatorDecides, HearBooked, HearNothing, Complete,
     Notify, Crash, Sweep, Tick
<1> QED
  BY <1>5 DEF Used

(* Where a call may be, and what it has done there. *)
LEMMA NextIdle == TypeOK /\ IdleInv /\ [Next]_vars => IdleInv'
<1> SUFFICES ASSUME TypeOK, IdleInv, [Next]_vars PROVE IdleInv'
  OBVIOUS
<1> USE BookingAssumption DEF IdleInv
<1>0. CASE UNCHANGED vars
  BY <1>0 DEF vars, InFlight, Shared
<1>1. ASSUME NEW r \in Requests, NEW k \in Keys \cup {NoKey}, Arrive(r, k)
      PROVE IdleInv'
  BY <1>1 DEF TypeOK, KeyedSteps, Shared, Goto, Reply, Arrive, InFlight
<1>2. ASSUME NEW r \in Requests, TurnAway(r) PROVE IdleInv'
  BY <1>2 DEF TypeOK, KeyedSteps, Shared, Goto, Reply, TurnAway, InFlight
<1>3. ASSUME NEW r \in Requests, SkipClaim(r) PROVE IdleInv'
  BY <1>3 DEF TypeOK, KeyedSteps, Shared, Goto, Reply, SkipClaim, InFlight
<1>4. ASSUME NEW r \in Requests, ClaimWon(r) PROVE IdleInv'
  BY <1>4 DEF TypeOK, KeyedSteps, Shared, Goto, Reply, ClaimWon, Write, InFlight
<1>5. ASSUME NEW r \in Requests, ClaimTaken(r) PROVE IdleInv'
  BY <1>5 DEF TypeOK, KeyedSteps, Shared, Goto, Reply, ClaimTaken, InFlight
<1>6. ASSUME NEW r \in Requests, ClaimLocally(r) PROVE IdleInv'
  BY <1>6 DEF TypeOK, KeyedSteps, Shared, Goto, Reply, ClaimLocally, Write, InFlight
<1>7. ASSUME NEW r \in Requests, ReadClaim(r) PROVE IdleInv'
  BY <1>7 DEF TypeOK, KeyedSteps, Shared, Goto, Reply, ReadClaim, InFlight
<1>8. ASSUME NEW r \in Requests, ReportClaim(r) PROVE IdleInv'
  BY <1>8 DEF TypeOK, KeyedSteps, Shared, Goto, Reply, ReportClaim, InFlight
<1>9. ASSUME NEW r \in Requests, PurgeClaim(r) PROVE IdleInv'
  BY <1>9 DEF TypeOK, KeyedSteps, Shared, Goto, Reply, PurgeClaim, Write, InFlight
<1>10. ASSUME NEW r \in Requests, StateUnavailable(r) PROVE IdleInv'
  BY <1>10 DEF TypeOK, KeyedSteps, Shared, Goto, Reply, StateUnavailable, InFlight
<1>11. ASSUME NEW r \in Requests, RefuseToPost(r) PROVE IdleInv'
  BY <1>11 DEF TypeOK, KeyedSteps, Shared, Goto, Reply, RefuseToPost, InFlight
<1>12. ASSUME NEW r \in Requests, Post(r) PROVE IdleInv'
  BY <1>12 DEF TypeOK, KeyedSteps, Shared, Goto, Reply, Post, InFlight
<1>13. ASSUME NEW r \in Requests, OperatorDecides(r) PROVE IdleInv'
  BY <1>13 DEF TypeOK, KeyedSteps, Shared, Goto, Reply, OperatorDecides, InFlight
<1>14. ASSUME NEW r \in Requests, HearBooked(r) PROVE IdleInv'
  BY <1>14 DEF TypeOK, KeyedSteps, Shared, Goto, Reply, HearBooked, InFlight
<1>15. ASSUME NEW r \in Requests, HearNothing(r) PROVE IdleInv'
  BY <1>15 DEF TypeOK, KeyedSteps, Shared, Goto, Reply, HearNothing, InFlight
<1>16. ASSUME NEW r \in Requests, Complete(r) PROVE IdleInv'
  BY <1>16 DEF TypeOK, KeyedSteps, Shared, Goto, Reply, Complete, Write, InFlight
<1>17. ASSUME NEW r \in Requests, Notify(r) PROVE IdleInv'
  BY <1>17 DEF TypeOK, KeyedSteps, Shared, Goto, Reply, Notify, InFlight
<1>18. ASSUME NEW i \in Instances, Crash(i) PROVE IdleInv'
  BY <1>18 DEF TypeOK, KeyedSteps, Shared, Goto, Reply, Crash, InFlight
<1>19. ASSUME NEW k \in Keys, Sweep(k) PROVE IdleInv'
  BY <1>19 DEF TypeOK, KeyedSteps, Shared, Goto, Reply, Sweep, Write, InFlight
<1>20. CASE Tick
  BY <1>20 DEF TypeOK, KeyedSteps, Shared, Goto, Reply, Tick, InFlight
<1> QED
  BY NextCases, <1>0, <1>1, <1>2, <1>3, <1>4, <1>5, <1>6, <1>7, <1>8, <1>9, <1>10, <1>11, <1>12, <1>13, <1>14, <1>15, <1>16, <1>17, <1>18, <1>19, <1>20

(* The clock of a call in flight. *)
LEMMA NextClock == TypeOK /\ IdleInv /\ ClockInv /\ [Next]_vars => ClockInv'
<1> SUFFICES ASSUME TypeOK, IdleInv, ClockInv, [Next]_vars PROVE ClockInv'
  OBVIOUS
<1> USE BookingAssumption DEF ClockInv
<1>0. CASE UNCHANGED vars
  BY <1>0 DEF vars, IdleInv, InFlight, MayTick, Keyed
<1>1. ASSUME NEW r \in Requests, NEW k \in Keys \cup {NoKey}, Arrive(r, k)
      PROVE ClockInv'
  <2>1. ASSUME NEW q \in Requests, q # r
        PROVE  /\ stamp'[q] <= now'
               /\ InFlight(q)' => now' <= began'[q] + Span
               /\ Keyed(q)' => opened'[key'[q]] <= began'[q] /\ opened'[key'[q]] <= stamp'[q]
               /\ pc'[q] = "claim" => stamp'[q] = began'[q]
    <3>1. /\ stamp'[q] = stamp[q] /\ began'[q] = began[q] /\ pc'[q] = pc[q]
          /\ key'[q] = key[q] /\ now' = now
      BY <1>1, <2>1 DEF TypeOK, Arrive, Goto
    <3>2. key[q] \in Keys => opened'[key[q]] = opened[key[q]]
      BY UseIsStable DEF Used
    <3> QED
      BY <3>1, <3>2 DEF InFlight, Keyed
  <2>2. /\ stamp'[r] = now /\ began'[r] = now /\ now' = now /\ key'[r] = k
        /\ pc'[r] = "claim"
    BY <1>1 DEF TypeOK, Arrive, Goto
  <2>3. k \in Keys => opened'[k] <= now
    <3>1. CASE k \in Keys /\ Used(k)
      <4>1. PICK q \in Requests : key[q] = k
        BY <3>1 DEF Used
      <4>2. opened[k] <= began[q] /\ opened[k] <= stamp[q] /\ stamp[q] <= now
        BY <3>1, <4>1 DEF Keyed
      <4>3. opened'[k] = opened[k]
        BY <3>1, UseIsStable
      <4> QED
        BY <3>1, <4>2, <4>3 DEF TypeOK
    <3>2. CASE k \in Keys /\ ~Used(k)
      BY <1>1, <3>2 DEF TypeOK, Arrive
    <3> QED
      BY <3>1, <3>2
  <2>4. now \in Nat /\ now <= now + Span
    BY DEF TypeOK
  <2> QED
    BY <2>1, <2>2, <2>3, <2>4 DEF InFlight, Keyed
<1>2. ASSUME NEW r \in Requests, TurnAway(r) PROVE ClockInv'
  BY <1>2 DEF TypeOK, KeyedSteps, Goto, Reply, TurnAway, IdleInv, InFlight, MayTick, Keyed
<1>3. ASSUME NEW r \in Requests, SkipClaim(r) PROVE ClockInv'
  BY <1>3 DEF TypeOK, KeyedSteps, Goto, Reply, SkipClaim, IdleInv, InFlight, MayTick, Keyed
<1>4. ASSUME NEW r \in Requests, ClaimWon(r) PROVE ClockInv'
  BY <1>4 DEF TypeOK, KeyedSteps, Goto, Reply, ClaimWon, Write, IdleInv, InFlight, MayTick, Keyed
<1>5. ASSUME NEW r \in Requests, ClaimTaken(r) PROVE ClockInv'
  BY <1>5 DEF TypeOK, KeyedSteps, Goto, Reply, ClaimTaken, IdleInv, InFlight, MayTick, Keyed
<1>6. ASSUME NEW r \in Requests, ClaimLocally(r) PROVE ClockInv'
  BY <1>6 DEF TypeOK, KeyedSteps, Goto, Reply, ClaimLocally, Write, IdleInv, InFlight, MayTick, Keyed
<1>7. ASSUME NEW r \in Requests, ReadClaim(r) PROVE ClockInv'
  BY <1>7 DEF TypeOK, KeyedSteps, Goto, Reply, ReadClaim, IdleInv, InFlight, MayTick, Keyed
<1>8. ASSUME NEW r \in Requests, ReportClaim(r) PROVE ClockInv'
  BY <1>8 DEF TypeOK, KeyedSteps, Goto, Reply, ReportClaim, IdleInv, InFlight, MayTick, Keyed
<1>9. ASSUME NEW r \in Requests, PurgeClaim(r) PROVE ClockInv'
  BY <1>9 DEF TypeOK, KeyedSteps, Goto, Reply, PurgeClaim, Write, IdleInv, InFlight, MayTick, Keyed
<1>10. ASSUME NEW r \in Requests, StateUnavailable(r) PROVE ClockInv'
  BY <1>10 DEF TypeOK, KeyedSteps, Goto, Reply, StateUnavailable, IdleInv, InFlight, MayTick, Keyed
<1>11. ASSUME NEW r \in Requests, RefuseToPost(r) PROVE ClockInv'
  BY <1>11 DEF TypeOK, KeyedSteps, Goto, Reply, RefuseToPost, IdleInv, InFlight, MayTick, Keyed
<1>12. ASSUME NEW r \in Requests, Post(r) PROVE ClockInv'
  BY <1>12 DEF TypeOK, KeyedSteps, Goto, Reply, Post, IdleInv, InFlight, MayTick, Keyed
<1>13. ASSUME NEW r \in Requests, OperatorDecides(r) PROVE ClockInv'
  BY <1>13 DEF TypeOK, KeyedSteps, Goto, Reply, OperatorDecides, IdleInv, InFlight, MayTick, Keyed
<1>14. ASSUME NEW r \in Requests, HearBooked(r) PROVE ClockInv'
  BY <1>14 DEF TypeOK, KeyedSteps, Goto, Reply, HearBooked, IdleInv, InFlight, MayTick, Keyed
<1>15. ASSUME NEW r \in Requests, HearNothing(r) PROVE ClockInv'
  BY <1>15 DEF TypeOK, KeyedSteps, Goto, Reply, HearNothing, IdleInv, InFlight, MayTick, Keyed
<1>16. ASSUME NEW r \in Requests, Complete(r) PROVE ClockInv'
  BY <1>16 DEF TypeOK, KeyedSteps, Goto, Reply, Complete, Write, IdleInv, InFlight, MayTick, Keyed
<1>17. ASSUME NEW r \in Requests, Notify(r) PROVE ClockInv'
  BY <1>17 DEF TypeOK, KeyedSteps, Goto, Reply, Notify, IdleInv, InFlight, MayTick, Keyed
<1>18. ASSUME NEW i \in Instances, Crash(i) PROVE ClockInv'
  BY <1>18 DEF TypeOK, KeyedSteps, Goto, Reply, Crash, IdleInv, InFlight, MayTick, Keyed
<1>19. ASSUME NEW k \in Keys, Sweep(k) PROVE ClockInv'
  BY <1>19 DEF TypeOK, KeyedSteps, Goto, Reply, Sweep, Write, IdleInv, InFlight, MayTick, Keyed
<1>20. CASE Tick
  BY <1>20 DEF TypeOK, KeyedSteps, Goto, Reply, Tick, IdleInv, InFlight, MayTick, Keyed
<1> QED
  BY NextCases, <1>0, <1>1, <1>2, <1>3, <1>4, <1>5, <1>6, <1>7, <1>8, <1>9, <1>10, <1>11, <1>12, <1>13, <1>14, <1>15, <1>16, <1>17, <1>18, <1>19, <1>20

(* An entry is only ever replaced by nothing, or by one that outlives the    *)
(* early time of its key.                                                    *)
LEMMA StoreStep ==
  ASSUME TypeOK, IdleInv, ClockInv, [Next]_vars, NEW s \in Stores, NEW k \in Keys
  PROVE  \/ store'[s][k] \in {store[s][k], Absent}
         \/ Used(k) /\ store'[s][k].exp >= FirstEnd(k)
<1> USE BookingAssumption
<1>1. ASSUME NEW r \in Requests, NEW v, NEW t \in Nat, key[r] \in Keys,
             opened[key[r]] <= t, Write(StoreOf(r), key[r], Item(v, t + TTL))
      PROVE  \/ store'[s][k] = store[s][k]
             \/ Used(k) /\ store'[s][k].exp >= FirstEnd(k)
  <2>1. CASE s = StoreOf(r) /\ k = key[r]
    <3>1. store'[s][k] = Item(v, t + TTL)
      BY <1>1, <2>1 DEF Write, TypeOK
    <3>2. store'[s][k].exp = t + TTL
      BY <3>1 DEF Item
    <3>3. t + TTL >= FirstEnd(k)
      BY <1>1, <2>1 DEF TypeOK, FirstEnd
    <3> QED
      BY <2>1, <3>2, <3>3 DEF Used
  <2>2. CASE ~(s = StoreOf(r) /\ k = key[r])
    BY <1>1, <2>2 DEF Write, TypeOK
  <2> QED
    BY <2>1, <2>2
<1>2. ASSUME NEW t \in Stores, NEW l \in Keys, Write(t, l, Absent)
      PROVE  store'[s][k] \in {store[s][k], Absent}
  BY <1>2 DEF Write, TypeOK
<1>3. ASSUME NEW r \in Requests, ClaimWon(r) \/ Complete(r)
      PROVE  \/ store'[s][k] = store[s][k]
             \/ Used(k) /\ store'[s][k].exp >= FirstEnd(k)
  <2>1. key[r] \in Keys /\ stamp[r] \in Nat /\ opened[key[r]] <= stamp[r]
    BY <1>3 DEF TypeOK, KeyedSteps, ClockInv, Keyed, ClaimWon, Complete
  <2>2. CASE UNCHANGED store
    BY <2>2
  <2>3. CASE Write(StoreOf(r), key[r], Item(InProgress, stamp[r] + TTL))
    BY <1>1, <2>1, <2>3
  <2>4. CASE Write(StoreOf(r), key[r], Item(Completed(r), stamp[r] + TTL))
    BY <1>1, <2>1, <2>4
  <2> QED
    BY <1>3, <2>2, <2>3, <2>4 DEF ClaimWon, Complete, StoreOf
<1>4. ASSUME NEW r \in Requests, ClaimLocally(r)
      PROVE  \/ store'[s][k] \in {store[s][k], Absent}
             \/ Used(k) /\ store'[s][k].exp >= FirstEnd(k)
  <2>1. /\ key[r] \in Keys /\ now \in Nat /\ opened[key[r]] <= now
        /\ StoreOf(r) = inst[r] /\ inst[r] \in Stores
    <3>1. opened[key[r]] <= stamp[r] /\ stamp[r] <= now
      BY <1>4 DEF ClockInv, Keyed, ClaimLocally
    <3> QED
      BY <1>4, <3>1, StoreTypes DEF TypeOK, ClaimLocally
  <2>2. CASE UNCHANGED store
    BY <2>2
  <2>3. CASE Write(inst[r], key[r], Item(InProgress, now + TTL))
    BY <1>1, <2>1, <2>3
  <2>4. CASE Write(inst[r], key[r], Absent)
    BY <1>2, <2>1, <2>4
  <2> QED
    BY <1>4, <2>2, <2>3, <2>4 DEF ClaimLocally
<1>5. ASSUME NEW r \in Requests, PurgeClaim(r)
      PROVE  store'[s][k] \in {store[s][k], Absent}
  <2>1. Table \in Stores /\ key[r] \in Keys
    BY <1>5, StoreTypes DEF TypeOK, KeyedSteps, PurgeClaim
  <2> QED
    BY <1>2, <1>5, <2>1 DEF PurgeClaim
<1>6. ASSUME NEW i \in Instances, Crash(i)
      PROVE  store'[s][k] \in {store[s][k], Absent}
  <2>1. UNCHANGED store \/ store' = [store EXCEPT ![i] = [l \in Keys |-> Absent]]
    BY <1>6 DEF Crash
  <2>2. store \in [Stores -> [Keys -> Entries(Claims)]]
    BY DEF TypeOK
  <2> QED
    BY <2>1, <2>2
<1>7. ASSUME NEW l \in Keys, Sweep(l)
      PROVE  store'[s][k] \in {store[s][k], Absent}
  BY <1>2, <1>7 DEF Sweep, Stores
<1>8. ASSUME UNCHANGED store
      PROVE  store'[s][k] \in {store[s][k], Absent}
  BY <1>8
<1> QED
  BY <1>3, <1>4, <1>5, <1>6, <1>7, <1>8, NextCases DEF vars, Arrive, TurnAway,
     SkipClaim, ClaimTaken, ReadClaim, ReportClaim, StateUnavailable,
     RefuseToPost, Post, OperatorDecides, HearBooked, HearNothing, Notify, Tick

(* No entry of a key expires in the early time of the key. *)
LEMMA NextEntry ==
  TypeOK /\ IdleInv /\ ClockInv /\ EntryInv /\ [Next]_vars => EntryInv'
<1> SUFFICES ASSUME TypeOK, IdleInv, ClockInv, EntryInv, [Next]_vars,
                    NEW s \in Stores, NEW k \in Keys, store'[s][k] # Absent
             PROVE  Used(k)' /\ store'[s][k].exp >= FirstEnd(k)'
  BY DEF EntryInv, Stores
<1>1. Used(k) /\ store'[s][k].exp >= FirstEnd(k)
  BY StoreStep DEF EntryInv
<1>2. Used(k)' /\ opened'[k] = opened[k]
  BY <1>1, UseIsStable
<1> QED
  BY <1>1, <1>2 DEF FirstEnd

(* In the early time of a key the entry of a call that its store remembers  *)
(* is not removed.                                                          *)
LEMMA EarlyEntryStays ==
  ASSUME TypeOK, IdleInv, ClockInv, EntryInv, HoldInv, [Next]_vars,
         NEW r \in Requests, NEW s \in Stores, NEW k \in Keys,
         key[r] = k, StoreOf(r) = s, r \notin forgotten', pc[r] # "idle",
         now' < FirstEnd(k), store[s][k].exp >= FirstEnd(k)
  PROVE  store'[s][k].exp >= FirstEnd(k)
<1> USE BookingAssumption
<1>0. now \in Nat /\ now' \in Nat /\ now <= now'
  <2>1. now' = now \/ now' = now + 1
    BY NextCases DEF vars, Arrive, TurnAway, SkipClaim, ClaimWon, ClaimTaken,
       ClaimLocally, ReadClaim, ReportClaim, PurgeClaim, StateUnavailable,
       RefuseToPost, Post, OperatorDecides, HearBooked, HearNothing, Complete,
       Notify, Crash, Sweep, Tick
  <2> QED
    BY <2>1 DEF TypeOK
<1>1. FirstEnd(k) \in Nat /\ FirstEnd(k) > 0
  <2>1. opened[k] \in Nat
    BY DEF TypeOK
  <2> QED
    BY <1>0, <2>1 DEF FirstEnd
<1>2. /\ store[s][k] \in Entries(Claims) /\ store[s][k].exp \in Nat
      /\ store[s][k].exp > now' /\ store[s][k] # Absent
  <2>1. store[s][k] \in Entries(Claims)
    BY DEF TypeOK
  <2>2. store[s][k].exp \in Nat
    BY <2>1 DEF Entries, Absent
  <2>3. store[s][k].exp > now'
    BY <1>0, <1>1, <2>2
  <2>4. Absent.exp = 0
    BY DEF Absent
  <2> QED
    BY <1>0, <2>1, <2>2, <2>3, <2>4
<1>3. SUFFICES ASSUME store'[s][k] = Absent PROVE FALSE
  <2>1. CASE store'[s][k] = store[s][k]
    BY <2>1
  <2> QED
    BY <2>1, <1>3, StoreStep
<1>4. store'[s][k] # store[s][k]
  BY <1>2, <1>3
<1>5. ASSUME NEW q \in Requests, PurgeClaim(q) PROVE FALSE
  <2>1. key[q] = k
    BY <1>4, <1>5 DEF PurgeClaim, Write, TypeOK
  <2>2. pc[q] = "conclude" /\ ~Live(seen[q], now) /\ UNCHANGED now
    BY <1>5 DEF PurgeClaim
  <2>3. seen[q].exp >= FirstEnd(k)
    <3>1. q \notin forgotten
      BY <2>2 DEF IdleInv
    <3>2. Keyed(q) /\ Early(k)
      BY <2>1, <2>2 DEF Keyed, Early, FirstEnd
    <3> QED
      BY <2>1, <2>2, <3>1, <3>2 DEF HoldInv
  <2>4. seen[q].exp \in Nat
    BY DEF TypeOK, Entries, Absent
  <2> QED
    BY <1>0, <1>1, <2>2, <2>3, <2>4 DEF Live
<1>6. ASSUME NEW q \in Requests, NEW v, NEW t \in Nat, key[q] \in Keys,
             opened[key[q]] <= t, Write(StoreOf(q), key[q], Item(v, t + TTL))
      PROVE  FALSE
  <2>1. StoreOf(q) \in Stores
    BY StoreTypes
  <2>2. Item(v, t + TTL).exp = t + TTL /\ Absent.exp = 0
    BY DEF Item, Absent
  <2>3. StoreOf(q) = s /\ key[q] = k /\ store'[s][k] = Item(v, t + TTL)
    BY <1>4, <1>6, <2>1 DEF Write, TypeOK
  <2>4. t + TTL = 0
    BY <1>3, <2>2, <2>3
  <2>5. opened[k] \in Nat /\ opened[k] <= t
    BY <1>6, <2>3 DEF TypeOK
  <2> QED
    BY <1>1, <2>4, <2>5 DEF FirstEnd
<1>7. ASSUME NEW q \in Requests, ClaimLocally(q) PROVE FALSE
  <2>1. inst[q] = StoreOf(q) /\ inst[q] \in Stores /\ key[q] \in Keys
    BY <1>7, StoreTypes DEF TypeOK, ClaimLocally
  <2>2. opened[key[q]] <= now
    <3>1. opened[key[q]] <= stamp[q] /\ stamp[q] <= now
      BY <2>1 DEF ClockInv, Keyed
    <3>2. opened[key[q]] \in Nat /\ stamp[q] \in Nat
      BY <2>1 DEF TypeOK
    <3> QED
      BY <1>0, <3>1, <3>2
  <2>3. ~Write(inst[q], key[q], Item(InProgress, now + TTL))
    BY <1>0, <1>6, <2>1, <2>2
  <2>4. Write(inst[q], key[q], Absent) /\ ~Live(Held(q), now')
    BY <1>4, <1>7, <2>3 DEF ClaimLocally
  <2>5. inst[q] = s /\ key[q] = k
    BY <1>4, <2>1, <2>4 DEF Write, TypeOK
  <2> QED
    BY <1>2, <2>1, <2>4, <2>5 DEF Held, Live
<1>8. ASSUME NEW i \in Instances, Crash(i) PROVE FALSE
  BY <1>4, <1>8 DEF Crash, StoreOf, Stores, TypeOK
<1>9. ASSUME NEW l \in Keys, Sweep(l) PROVE FALSE
  <2>1. l = k /\ s = Table /\ ~Live(store[s][k], now)
    BY <1>4, <1>9 DEF Sweep, Write, StoreOf, TypeOK
  <2> QED
    BY <1>0, <1>2, <2>1 DEF Live
<1>10. ASSUME NEW q \in Requests, ClaimWon(q) \/ Complete(q) PROVE FALSE
  <2>1. key[q] \in Keys /\ stamp[q] \in Nat /\ opened[key[q]] <= stamp[q]
    BY <1>10 DEF TypeOK, KeyedSteps, ClockInv, Keyed, ClaimWon, Complete
  <2>2. \/ Write(StoreOf(q), key[q], Item(InProgress, stamp[q] + TTL))
        \/ Write(StoreOf(q), key[q], Item(Completed(q), stamp[q] + TTL))
        \/ UNCHANGED store
    BY <1>10 DEF ClaimWon, Complete, StoreOf
  <2> QED
    BY <1>4, <1>6, <2>1, <2>2
<1>11. store' # store
  BY <1>4
<1> QED
  BY <1>5, <1>7, <1>8, <1>9, <1>10, <1>11, NextCases DEF vars, Arrive, TurnAway,
     SkipClaim, ClaimTaken, ReadClaim, ReportClaim, StateUnavailable,
     RefuseToPost, Post, OperatorDecides, HearBooked, HearNothing, Notify, Tick

(* What no step takes back: time, lost calls, and what a call was made with. *)
LEMMA Irrevocable ==
  ASSUME TypeOK, [Next]_vars
  PROVE  /\ now \in Nat /\ now' \in Nat /\ now <= now'
         /\ forgotten \subseteq forgotten'
         /\ inst' = inst
         /\ \A r \in Requests :
              pc[r] # "idle" => key'[r] = key[r] /\ began'[r] = began[r]
<1>1. now' = now \/ now' = now + 1
  BY NextCases DEF vars, Arrive, TurnAway, SkipClaim, ClaimWon, ClaimTaken,
     ClaimLocally, ReadClaim, ReportClaim, PurgeClaim, StateUnavailable,
     RefuseToPost, Post, OperatorDecides, HearBooked, HearNothing, Complete,
     Notify, Crash, Sweep, Tick
<1>2. forgotten \subseteq forgotten' /\ inst' = inst
  BY NextCases DEF vars, Arrive, TurnAway, SkipClaim, ClaimWon, ClaimTaken,
     ClaimLocally, ReadClaim, ReportClaim, PurgeClaim, StateUnavailable,
     RefuseToPost, Post, OperatorDecides, HearBooked, HearNothing, Complete,
     Notify, Crash, Sweep, Tick
<1>3. ASSUME NEW r \in Requests, pc[r] # "idle"
      PROVE  key'[r] = key[r] /\ began'[r] = began[r]
  <2>1. ASSUME NEW q \in Requests, NEW k \in Keys \cup {NoKey}, Arrive(q, k)
        PROVE  key'[r] = key[r] /\ began'[r] = began[r]
    BY <1>3, <2>1 DEF Arrive, TypeOK
  <2> QED
    BY <2>1, NextCases DEF vars, TurnAway, SkipClaim, ClaimWon, ClaimTaken,
       ClaimLocally, ReadClaim, ReportClaim, PurgeClaim, StateUnavailable,
       RefuseToPost, Post, OperatorDecides, HearBooked, HearNothing, Complete,
       Notify, Crash, Sweep, Tick
<1> QED
  BY <1>1, <1>2, <1>3 DEF TypeOK

(* A step after which r is no closer to its POST than before. *)
Quiet(r) ==
  /\ pc'[r] \in {"read", "conclude"} => pc[r] = pc'[r] /\ seen'[r] = seen[r]
  /\ (pc'[r] = "post" \/ operator'[r] # "none") => Permitted(r)

(* The steps that bring r closer to its POST leave the other calls alone. *)
LEMMA QuietOrMoves ==
  ASSUME TypeOK, IdleInv, [Next]_vars, NEW r \in Requests
  PROVE  \/ Quiet(r) \/ SkipClaim(r) \/ ClaimWon(r) \/ ClaimTaken(r)
         \/ ClaimLocally(r) \/ ReadClaim(r) \/ PurgeClaim(r)
<1> USE DEF Quiet, Permitted, Submitted, Goto, Reply
<1>0. CASE UNCHANGED vars
  BY <1>0 DEF vars
<1>1. ASSUME NEW q \in Requests, NEW k \in Keys \cup {NoKey}, Arrive(q, k)
      PROVE  Quiet(r)
  BY <1>1 DEF TypeOK, IdleInv, Arrive
<1>2. ASSUME NEW q \in Requests,
             \/ SkipClaim(q) \/ ClaimWon(q) \/ ClaimTaken(q)
             \/ ReadClaim(q) \/ PurgeClaim(q)
      PROVE  q = r \/ Quiet(r)
  BY <1>2 DEF TypeOK, SkipClaim, ClaimWon, ClaimTaken, ReadClaim, PurgeClaim
<1>3. ASSUME NEW q \in Requests, ClaimLocally(q) PROVE q = r \/ Quiet(r)
  BY <1>3 DEF TypeOK, ClaimLocally
<1>4. ASSUME NEW q \in Requests,
             \/ TurnAway(q) \/ ReportClaim(q) \/ StateUnavailable(q)
             \/ RefuseToPost(q) \/ HearNothing(q) \/ Notify(q)
      PROVE  Quiet(r)
  BY <1>4 DEF TypeOK, TurnAway, ReportClaim, StateUnavailable, RefuseToPost,
     HearNothing, Notify
<1>5. ASSUME NEW q \in Requests,
             \/ Post(q) \/ OperatorDecides(q) \/ HearBooked(q) \/ Complete(q)
      PROVE  Quiet(r)
  BY <1>5 DEF TypeOK, Post, OperatorDecides, HearBooked, Complete
<1>6. ASSUME NEW i \in Instances, Crash(i) PROVE Quiet(r)
  BY <1>6 DEF TypeOK, Crash
<1>7. ASSUME NEW k \in Keys, Sweep(k) PROVE Quiet(r)
  BY <1>7 DEF Sweep
<1>8. CASE Tick
  BY <1>8 DEF Tick
<1> QED
  BY NextCases, <1>0, <1>1, <1>2, <1>3, <1>4, <1>5, <1>6, <1>7, <1>8

(* In the early time of its key, a call is not let through by what it finds *)
(* in the store if it finds an entry that outlives that time.               *)
LEMMA EarlyClaimIsFree ==
  ASSUME TypeOK, IdleInv, ClockInv, HoldInv, [Next]_vars, NEW r \in Requests,
         Keyed(r), now' < FirstEnd(key[r]), Held(r).exp >= FirstEnd(key[r])
  PROVE  /\ ~ClaimWon(r) /\ ~PurgeClaim(r)
         /\ ClaimLocally(r) => pc'[r] = "done"
<1> USE BookingAssumption
<1>1. /\ now \in Nat /\ now' \in Nat /\ now <= now'
      /\ stamp[r] \in Nat /\ stamp[r] <= now
  BY Irrevocable DEF TypeOK, ClockInv
<1>2. FirstEnd(key[r]) \in Nat /\ Held(r).exp \in Nat
  BY StoreTypes DEF TypeOK, Keyed, FirstEnd, Entries, Absent
<1>3. Live(Held(r), now) /\ Live(Held(r), now') /\ Live(Held(r), stamp[r])
  BY <1>1, <1>2 DEF Live
<1>4. ~ClaimWon(r)
  BY <1>3 DEF ClaimWon
<1>5. ASSUME PurgeClaim(r) PROVE FALSE
  <2>1. pc[r] = "conclude" /\ ~Live(seen[r], now) /\ r \notin forgotten
    BY <1>5 DEF PurgeClaim, IdleInv
  <2>2. Early(key[r])
    BY <1>1, <1>2 DEF Early, FirstEnd
  <2>3. seen[r].exp >= FirstEnd(key[r]) /\ seen[r].exp \in Nat
    BY <2>1, <2>2 DEF HoldInv, TypeOK, Entries, Absent
  <2> QED
    BY <1>1, <1>2, <2>1, <2>3 DEF Live
<1>6. ASSUME ClaimLocally(r) PROVE pc'[r] = "done"
  BY <1>3, <1>6 DEF ClaimLocally, Reply, TypeOK
<1> QED
  BY <1>4, <1>5, <1>6

(* In the early time of its key, a call that passed the claim finds an entry. *)
LEMMA NextHold ==
  ASSUME TypeOK, IdleInv, ClockInv, EntryInv, HoldInv, [Next]_vars
  PROVE  HoldInv'
<1> USE BookingAssumption
<1> SUFFICES ASSUME NEW r \in Requests, Keyed(r)', r \notin forgotten',
                    Early(key[r])'
             PROVE  /\ Permitted(r)' \/ pc'[r] = "read" =>
                         Held(r)'.exp >= FirstEnd(key[r])'
                    /\ pc'[r] = "conclude" => seen'[r].exp >= FirstEnd(key[r])'
  BY DEF HoldInv
<1>1. CASE pc[r] = "idle"
  <2>1. Quiet(r)
    BY <1>1, QuietOrMoves DEF SkipClaim, ClaimWon, ClaimTaken, ClaimLocally,
       ReadClaim, PurgeClaim
  <2> QED
    BY <1>1, <2>1 DEF Quiet, Permitted, Submitted, IdleInv
<1>2. CASE pc[r] # "idle"
  <2> DEFINE k == key[r]
             s == StoreOf(r)
  <2>1. /\ k \in Keys /\ key'[r] = k /\ s \in Stores
        /\ StoreOf(r)' = s /\ r \notin forgotten
    BY <1>2, Irrevocable, StoreTypes DEF Keyed, StoreOf, Shared
  <2>2. opened'[k] = opened[k] /\ FirstEnd(key[r])' = FirstEnd(k)
    BY <2>1, UseIsStable DEF Used, FirstEnd
  <2>3. now' < FirstEnd(k) /\ Early(k) /\ FirstEnd(k) \in Nat
    <3>1. FirstEnd(k) \in Nat
      BY <2>1 DEF TypeOK, FirstEnd
    <3> QED
      BY <2>1, <2>2, <3>1, Irrevocable DEF Early, FirstEnd
  <2>4. Held(r)' = store'[s][k] /\ Held(r) = store[s][k]
    BY <2>1 DEF Held
  <2>5. stamp[r] \in Nat /\ opened[k] \in Nat /\ opened[k] <= stamp[r] /\ stamp[r] <= now
    BY <2>1 DEF TypeOK, ClockInv, Keyed
  <2> HIDE DEF k, s
  <2>6. CASE Quiet(r)
    <3>1. ASSUME Permitted(r)' \/ pc'[r] = "read"
          PROVE  Held(r)'.exp >= FirstEnd(key[r])'
      <4>1. Permitted(r) \/ pc[r] = "read"
        BY <2>6, <3>1 DEF Quiet, Permitted, Submitted
      <4>2. store[s][k].exp >= FirstEnd(k)
        BY <2>1, <2>3, <2>4, <4>1 DEF HoldInv, Keyed, k
      <4>3. store'[s][k].exp >= FirstEnd(k)
        BY <1>2, <2>1, <2>3, <4>2, EarlyEntryStays DEF k, s
      <4> QED
        BY <2>2, <2>4, <4>3
    <3>2. ASSUME pc'[r] = "conclude" PROVE seen'[r].exp >= FirstEnd(key[r])'
      BY <2>1, <2>2, <2>3, <2>6, <3>2 DEF Quiet, HoldInv, Keyed, k
    <3> QED
      BY <3>1, <3>2
  <2>7. CASE SkipClaim(r)
    BY <2>1, <2>7 DEF SkipClaim, k
  <2>8. CASE ClaimWon(r)
    <3>1. store'[s][k] = Item(InProgress, stamp[r] + TTL) /\ pc'[r] # "conclude"
      BY <2>1, <2>8 DEF ClaimWon, Write, TypeOK, Goto, StoreOf, k, s
    <3>2. store'[s][k].exp >= FirstEnd(k)
      BY <2>5, <3>1 DEF Item, FirstEnd
    <3> QED
      BY <2>2, <2>4, <3>1, <3>2
  <2>9. CASE ClaimTaken(r)
    <3>1. store[s][k] # Absent
      BY <2>4, <2>5, <2>9 DEF ClaimTaken, Live, Absent
    <3>2. store[s][k].exp >= FirstEnd(k)
      BY <2>1, <3>1 DEF EntryInv
    <3>3. UNCHANGED store /\ pc'[r] = "read"
      BY <2>9 DEF ClaimTaken, Goto, TypeOK
    <3> QED
      BY <2>2, <2>4, <3>2, <3>3
  <2>10. CASE ClaimLocally(r)
    <3>1. CASE Live(Held(r), now)
      <4>1. Held(r) # Absent
        BY <3>1, Irrevocable DEF Live, Absent
      <4>2. Held(r).exp >= FirstEnd(k)
        BY <2>1, <2>4, <4>1 DEF EntryInv
      <4>3. pc'[r] = "done" /\ operator'[r] = "none"
        BY <2>1, <2>3, <2>10, <4>2, EarlyClaimIsFree
           DEF Keyed, k, ClaimLocally, IdleInv
      <4> QED
        BY <4>3 DEF Permitted, Submitted
    <3>2. CASE ~Live(Held(r), now)
      <4>1. Write(inst[r], k, Item(InProgress, now + TTL)) /\ pc'[r] = "post"
        BY <2>10, <3>2 DEF ClaimLocally, Goto, TypeOK, k
      <4>2. s = inst[r]
        BY <2>10 DEF ClaimLocally, StoreOf, s
      <4>3. store'[s][k] = Item(InProgress, now + TTL)
        BY <2>1, <4>1, <4>2 DEF Write, TypeOK
      <4>4. store'[s][k].exp >= FirstEnd(k)
        BY <2>5, <4>3, Irrevocable DEF Item, FirstEnd
      <4> QED
        BY <2>2, <2>4, <4>1, <4>4
    <3> QED
      BY <3>1, <3>2
  <2>11. CASE ReadClaim(r)
    <3>1. pc[r] = "read" /\ pc'[r] = "conclude" /\ seen'[r] = Held(r) /\ operator'[r] = "none"
      BY <2>11 DEF ReadClaim, Goto, TypeOK, IdleInv
    <3>2. Held(r).exp >= FirstEnd(k)
      BY <2>1, <2>3, <3>1 DEF HoldInv, Keyed, k
    <3> QED
      BY <2>2, <3>1, <3>2 DEF Permitted, Submitted
  <2>12. CASE PurgeClaim(r)
    <3>1. pc[r] = "conclude" /\ ~Live(seen[r], now)
      BY <2>12 DEF PurgeClaim
    <3>2. seen[r].exp >= FirstEnd(k) /\ seen[r].exp \in Nat
      BY <2>1, <2>3, <3>1 DEF HoldInv, Keyed, TypeOK, Entries, Absent, k
    <3> QED
      BY <2>3, <3>1, <3>2, Irrevocable DEF Live
  <2> QED
    BY <2>6, <2>7, <2>8, <2>9, <2>10, <2>11, <2>12, QuietOrMoves
<1> QED
  BY <1>1, <1>2

(* While a rival is past the claim, a call passes it only after the early    *)
(* time of their key: the first use's claim must have expired.               *)
LEMMA GainNeedsExpiry ==
  ASSUME TypeOK, IdleInv, ClockInv, HoldInv, ClockInv', [Next]_vars,
         NEW q \in Requests, NEW r \in Requests, Rivals(q, r),
         pc[r] # "idle", Permitted(q), ~Quiet(r), Permitted(r)', Rivals(q, r)'
  PROVE  began[r] + Span >= FirstEnd(key[r])
<1> USE BookingAssumption
<1>1. /\ key[r] \in Keys /\ key[q] = key[r] /\ StoreOf(q) = StoreOf(r)
      /\ q \notin forgotten
  BY DEF Rivals
<1>2. now \in Nat /\ now' \in Nat /\ now <= now' /\ began'[r] = began[r]
  BY Irrevocable
<1>3. FirstEnd(key[r]) \in Nat /\ began[r] \in Nat
  BY <1>1 DEF TypeOK, FirstEnd
<1>4. ClaimWon(r) \/ PurgeClaim(r) \/ (ClaimLocally(r) /\ pc'[r] # "done")
  <2>1. ~SkipClaim(r)
    BY <1>1 DEF SkipClaim
  <2>2. ClaimTaken(r) => FALSE
    BY DEF ClaimTaken, Goto, Permitted, Submitted, TypeOK, IdleInv
  <2>3. ReadClaim(r) => FALSE
    BY DEF ReadClaim, Goto, Permitted, Submitted, TypeOK, IdleInv
  <2>4. ClaimLocally(r) => pc'[r] # "done"
    BY DEF ClaimLocally, Permitted, Submitted, IdleInv
  <2> QED
    BY <2>1, <2>2, <2>3, <2>4, QuietOrMoves
<1>5. pc'[r] \in {"post", "read"}
  BY <1>4 DEF ClaimWon, PurgeClaim, ClaimLocally, Goto, Reply, TypeOK
<1>6. now' <= began[r] + Span
  BY <1>2, <1>5 DEF ClockInv, InFlight
<1>7. ~(now' < FirstEnd(key[r]))
  <2> SUFFICES ASSUME now' < FirstEnd(key[r]) PROVE FALSE
    OBVIOUS
  <2>1. Keyed(q) /\ Early(key[q])
    BY <1>1, <1>2, <1>3 DEF Keyed, Early, FirstEnd
  <2>2. Held(q).exp >= FirstEnd(key[q])
    BY <1>1, <2>1 DEF HoldInv
  <2>3. Held(r).exp >= FirstEnd(key[r])
    BY <1>1, <2>2 DEF Held
  <2> QED
    BY <1>1, <1>4, <2>3, EarlyClaimIsFree DEF Keyed
<1> QED
  BY <1>2, <1>3, <1>6, <1>7

(* A step that brings r closer to its POST does nothing of the kind for q. *)
LEMMA OneMovesAtATime ==
  ASSUME TypeOK, IdleInv, [Next]_vars, NEW q \in Requests, NEW r \in Requests,
         q # r, ~Quiet(r)
  PROVE  Quiet(q)
<1>1. \/ SkipClaim(r) \/ ClaimWon(r) \/ ClaimTaken(r)
      \/ ClaimLocally(r) \/ ReadClaim(r) \/ PurgeClaim(r)
  BY QuietOrMoves
<1>2. pc'[q] = pc[q] /\ seen'[q] = seen[q] /\ operator'[q] = operator[q]
  BY <1>1 DEF SkipClaim, ClaimWon, ClaimTaken, ClaimLocally, ReadClaim,
     PurgeClaim, Goto, Reply, TypeOK
<1> QED
  BY <1>2 DEF Quiet, Permitted, Submitted

(* Two calls of a key are past the claim only if one arrived late. *)
LEMMA NextRival ==
  ASSUME TypeOK, IdleInv, ClockInv, HoldInv, RivalInv, ClockInv', [Next]_vars
  PROVE  RivalInv'
<1> USE BookingAssumption
<1> SUFFICES ASSUME NEW q \in Requests, NEW r \in Requests,
                    Rivals(q, r)', Permitted(q)', Permitted(r)'
             PROVE  \/ began'[q] + Span >= FirstEnd(key[q])'
                    \/ began'[r] + Span >= FirstEnd(key[r])'
  BY DEF RivalInv
<1>1. ASSUME NEW c \in Requests, Permitted(c)' PROVE pc[c] # "idle"
  <2> SUFFICES ASSUME pc[c] = "idle" PROVE FALSE
    OBVIOUS
  <2>1. Quiet(c)
    BY QuietOrMoves DEF SkipClaim, ClaimWon, ClaimTaken, ClaimLocally,
       ReadClaim, PurgeClaim
  <2> QED
    BY <1>1, <2>1 DEF Quiet, Permitted, Submitted, IdleInv
<1>2. pc[q] # "idle" /\ pc[r] # "idle"
  BY <1>1
<1>3. /\ key'[q] = key[q] /\ began'[q] = began[q]
      /\ key'[r] = key[r] /\ began'[r] = began[r]
      /\ StoreOf(q)' = StoreOf(q) /\ StoreOf(r)' = StoreOf(r)
      /\ forgotten \subseteq forgotten'
  BY <1>2, Irrevocable DEF StoreOf, Shared
<1>4. Rivals(q, r) /\ Rivals(r, q) /\ Rivals(r, q)'
  BY <1>3 DEF Rivals
<1>5. FirstEnd(key[q])' = FirstEnd(key[q]) /\ FirstEnd(key[r])' = FirstEnd(key[r])
  BY <1>3, <1>4, UseIsStable DEF Rivals, Used, FirstEnd
<1>6. CASE Quiet(q) /\ Quiet(r)
  <2>1. Permitted(q) /\ Permitted(r)
    BY <1>6 DEF Quiet, Permitted, Submitted
  <2> QED
    BY <1>3, <1>4, <1>5, <2>1 DEF RivalInv
<1>7. CASE ~Quiet(r)
  <2>1. Quiet(q)
    BY <1>4, <1>7, OneMovesAtATime DEF Rivals
  <2>2. Permitted(q)
    BY <2>1 DEF Quiet, Permitted, Submitted
  <2> QED
    BY <1>2, <1>3, <1>4, <1>5, <1>7, <2>2, GainNeedsExpiry
<1>8. CASE ~Quiet(q)
  <2>1. Quiet(r)
    BY <1>4, <1>8, OneMovesAtATime DEF Rivals
  <2>2. Permitted(r)
    BY <2>1 DEF Quiet, Permitted, Submitted
  <2> QED
    BY <1>2, <1>3, <1>4, <1>5, <1>8, <2>2, GainNeedsExpiry
<1> QED
  BY <1>6, <1>7, <1>8

LEMMA InitInv == Init => IInv
<1> SUFFICES ASSUME Init PROVE IInv
  OBVIOUS
<1>1. \A r \in Requests : ~Keyed(r) /\ ~Permitted(r) /\ ~InFlight(r)
  BY BookingAssumption DEF Init, Keyed, Permitted, Submitted, InFlight
<1>2. IdleInv /\ ClockInv
  BY <1>1 DEF Init, IdleInv, ClockInv
<1>3. EntryInv /\ HoldInv /\ RivalInv
  BY <1>1 DEF Init, EntryInv, HoldInv, RivalInv
<1> QED
  BY <1>2, <1>3, InitType DEF IInv

(* IInv holds in every reachable state. *)
THEOREM Inductive == Spec => []IInv
<1>1. ASSUME IInv, [Next]_vars PROVE IInv'
  <2>1. TypeOK' /\ IdleInv' /\ ClockInv' /\ EntryInv'
    BY <1>1, NextType, NextIdle, NextClock, NextEntry DEF IInv
  <2> QED
    BY <1>1, <2>1, NextHold, NextRival DEF IInv
<1> QED
  BY <1>1, InitInv, PTL DEF Spec

(* create_booking posts a key's booking a second time only across the expiry *)
(* of the key: whatever overlaps, is repeated, times out, fails or dies, one *)
(* of the two calls arrived at least TTL - Span after the key's first use.   *)
THEOREM ResubmissionAcrossExpiry == Spec => []ResubmissionNeedsExpiry
<1>1. IInv => ResubmissionNeedsExpiry
  BY DEF IInv, RivalInv, ResubmissionNeedsExpiry, Permitted, FirstEnd
<1> QED
  BY <1>1, Inductive, PTL

------------------------------------------------------------------------------
(* Clients stop reusing a key Horizon after its first use. *)
ReuseInv ==
  \A r \in Requests : Keyed(r) => began[r] <= opened[key[r]] + Horizon

LEMMA NextReuse == TypeOK /\ IdleInv /\ ReuseInv /\ [Next]_vars => ReuseInv'
<1> SUFFICES ASSUME TypeOK, IdleInv, ReuseInv, [Next]_vars,
                    NEW r \in Requests, Keyed(r)'
             PROVE  began'[r] <= opened'[key'[r]] + Horizon
  BY DEF ReuseInv
<1> USE BookingAssumption
<1>1. ASSUME NEW k \in Keys \cup {NoKey}, Arrive(r, k)
      PROVE  began'[r] <= opened'[key'[r]] + Horizon
  <2>1. began'[r] = now /\ key'[r] = k /\ k \in Keys /\ now \in Nat
    BY <1>1 DEF Arrive, TypeOK, Keyed
  <2>2. CASE Used(k)
    BY <1>1, <2>1, <2>2 DEF Arrive
  <2>3. CASE ~Used(k)
    <3>1. opened'[k] = now
      BY <1>1, <2>1, <2>3 DEF Arrive, TypeOK
    <3> QED
      BY <2>1, <3>1
  <2> QED
    BY <2>2, <2>3
<1>2. CASE \A k \in Keys \cup {NoKey} : ~Arrive(r, k)
  <2>1. key'[r] = key[r] /\ began'[r] = began[r]
    <3>1. ASSUME NEW q \in Requests, NEW k \in Keys \cup {NoKey}, Arrive(q, k)
          PROVE  key'[r] = key[r] /\ began'[r] = began[r]
      BY <1>2, <3>1 DEF Arrive, TypeOK
    <3> QED
      BY <3>1, NextCases DEF vars, TurnAway, SkipClaim, ClaimWon, ClaimTaken,
         ClaimLocally, ReadClaim, ReportClaim, PurgeClaim, StateUnavailable,
         RefuseToPost, Post, OperatorDecides, HearBooked, HearNothing,
         Complete, Notify, Crash, Sweep, Tick
  <2>2. key[r] \in Keys /\ opened'[key[r]] = opened[key[r]]
    BY <2>1, UseIsStable DEF Keyed, Used
  <2> QED
    BY <2>1, <2>2 DEF ReuseInv, Keyed
<1> QED
  BY <1>1, <1>2

(* When a key is retired before its claim can expire, create_booking posts   *)
(* its booking at most once.                                                 *)
THEOREM AtMostOnce == Spec => []AtMostOneSubmission
<1>1. Init => ReuseInv
  BY BookingAssumption DEF Init, ReuseInv, Keyed
<1>2. TypeOK /\ IdleInv /\ ReuseInv /\ [Next]_vars => ReuseInv'
  BY NextReuse
<1>3. IInv => TypeOK /\ IdleInv
  BY DEF IInv
<1>4. ASSUME TypeOK, ReuseInv, ResubmissionNeedsExpiry PROVE AtMostOneSubmission
  <2> SUFFICES ASSUME Horizon + Span < TTL, NEW q \in Requests, NEW r \in Requests,
                      Rivals(q, r), Submitted(q), Submitted(r)
               PROVE  FALSE
    BY DEF AtMostOneSubmission
  <2>1. PICK c \in {q, r} : began[c] + Span >= opened[key[c]] + TTL
    BY <1>4 DEF ResubmissionNeedsExpiry
  <2>2. key[c] \in Keys
    BY DEF Rivals
  <2>3. began[c] <= opened[key[c]] + Horizon
    BY <1>4, <2>2 DEF ReuseInv, Keyed
  <2>4. began[c] \in Nat /\ opened[key[c]] \in Nat
    BY <1>4, <2>2 DEF TypeOK
  <2> QED
    BY <2>1, <2>3, <2>4, BookingAssumption
<1>5. Spec => []ReuseInv
  BY <1>1, <1>2, <1>3, Inductive, PTL DEF Spec
<1> QED
  BY <1>3, <1>4, <1>5, Inductive, ResubmissionAcrossExpiry, PTL

------------------------------------------------------------------------------
(* The job of a key whose booking was reported by the operator, by a call    *)
(* that is past storing it.                                                  *)
Booked(j, k) == key[j] = k /\ operator[j] = "booked" /\ pc[j] \in {"notify", "done"}

(* A result found under a key is the job of such a call. *)
Genuine(e, k) ==
  \A j \in Requests : e # Absent /\ e.val = Completed(j) => Booked(j, k)

RecordInv ==
  /\ \A r \in Requests : pc[r] = "complete" => operator[r] = "booked"
  /\ \A r \in Requests : pc[r] = "idle" => seen[r] = Absent /\ answer[r] = NoAnswer
  /\ \A s \in Stores, k \in Keys : Genuine(store[s][k], k)
  /\ \A r \in Requests : Genuine(seen[r], key[r])
  /\ ReplayNamesTheBooking

LEMMA BookedStays ==
  ASSUME TypeOK, [Next]_vars, NEW j \in Requests, NEW k, Booked(j, k)
  PROVE  Booked(j, k)'
<1>1. key'[j] = k
  BY Irrevocable DEF Booked
<1>2. operator'[j] = "booked" /\ pc'[j] \in {"notify", "done"}
  <2>1. ASSUME NEW q \in Requests, ClaimLocally(q)
        PROVE  operator'[j] = "booked" /\ pc'[j] \in {"notify", "done"}
    BY <2>1 DEF Booked, TypeOK, ClaimLocally, Goto, Reply
  <2>2. ASSUME NEW i \in Instances, Crash(i)
        PROVE  operator'[j] = "booked" /\ pc'[j] \in {"notify", "done"}
    BY <2>2 DEF Booked, TypeOK, Crash
  <2>3. ASSUME NEW q \in Requests,
               \/ Post(q) \/ OperatorDecides(q) \/ HearBooked(q) \/ HearNothing(q)
               \/ Complete(q) \/ Notify(q) \/ \E l \in Keys \cup {NoKey} : Arrive(q, l)
        PROVE  operator'[j] = "booked" /\ pc'[j] \in {"notify", "done"}
    BY <2>3 DEF Booked, TypeOK, Goto, Reply, Post, OperatorDecides, HearBooked,
       HearNothing, Complete, Notify, Arrive
  <2>4. ASSUME NEW q \in Requests,
               \/ TurnAway(q) \/ SkipClaim(q) \/ ClaimWon(q) \/ ClaimTaken(q)
               \/ ReadClaim(q) \/ ReportClaim(q) \/ PurgeClaim(q)
               \/ StateUnavailable(q) \/ RefuseToPost(q)
        PROVE  operator'[j] = "booked" /\ pc'[j] \in {"notify", "done"}
    BY <2>4 DEF Booked, TypeOK, Goto, Reply, TurnAway, SkipClaim, ClaimWon,
       ClaimTaken, ReadClaim, ReportClaim, PurgeClaim, StateUnavailable, RefuseToPost
  <2>5. CASE Tick \/ UNCHANGED vars \/ \E l \in Keys : Sweep(l)
    BY <2>5 DEF Booked, Tick, vars, Sweep
  <2> QED
    BY <2>1, <2>2, <2>3, <2>4, <2>5, NextCases
<1> QED
  BY <1>1, <1>2 DEF Booked

(* The steps that write the store: the entry is kept, removed, claimed or   *)
(* completed by the call that has heard of its booking.                     *)
LEMMA GenuineStore ==
  ASSUME TypeOK, IdleInv, RecordInv, [Next]_vars, NEW s \in Stores, NEW k \in Keys
  PROVE  Genuine(store[s][k], k)'
<1>1. ASSUME store'[s][k] = store[s][k] \/ store'[s][k] = Absent
      PROVE  Genuine(store[s][k], k)'
  BY <1>1, BookedStays DEF RecordInv, Genuine
<1>2. ASSUME NEW t, store'[s][k] = Item(InProgress, t)
      PROVE  Genuine(store[s][k], k)'
  BY <1>2 DEF Genuine, Item, InProgress, Completed
<1>3. ASSUME NEW r \in Requests, Complete(r) PROVE Genuine(store[s][k], k)'
  <2>1. pc[r] = "complete" /\ key[r] \in Keys /\ StoreOf(r) \in Stores
    BY <1>3, StoreTypes DEF Complete, TypeOK, KeyedSteps
  <2>2. CASE store'[s][k] = store[s][k]
    BY <1>1, <2>2
  <2>3. CASE store'[s][k] # store[s][k]
    <3>1. Write(StoreOf(r), key[r], Item(Completed(r), stamp[r] + TTL))
      BY <1>3, <2>3 DEF Complete
    <3>2. k = key[r] /\ store'[s][k] = Item(Completed(r), stamp[r] + TTL)
      BY <2>1, <2>3, <3>1 DEF Write, TypeOK
    <3>3. Booked(r, k)'
      BY <1>3, <2>1, <3>2 DEF RecordInv, Complete, Goto, TypeOK, Booked
    <3> QED
      BY <3>2, <3>3 DEF Genuine, Item, Completed
  <2> QED
    BY <2>2, <2>3
<1>4. ASSUME NEW r \in Requests, ClaimWon(r) PROVE Genuine(store[s][k], k)'
  <2>1. \/ store'[s][k] = store[s][k]
        \/ store'[s][k] = Item(InProgress, stamp[r] + TTL)
    BY <1>4 DEF ClaimWon, Write, TypeOK, Stores
  <2> QED
    BY <1>1, <1>2, <2>1
<1>5. ASSUME NEW r \in Requests, ClaimLocally(r) PROVE Genuine(store[s][k], k)'
  <2>1. inst[r] \in Stores /\ key[r] \in Keys
    BY <1>5, StoreTypes DEF ClaimLocally, TypeOK
  <2>2. \/ store'[s][k] = store[s][k] \/ store'[s][k] = Absent
        \/ store'[s][k] = Item(InProgress, now + TTL)
    <3>1. CASE Write(inst[r], key[r], Absent)
      BY <3>1, <2>1 DEF Write, TypeOK
    <3>2. CASE Write(inst[r], key[r], Item(InProgress, now + TTL))
      BY <3>2, <2>1 DEF Write, TypeOK
    <3> QED
      BY <1>5, <3>1, <3>2 DEF ClaimLocally
  <2> QED
    BY <1>1, <1>2, <2>2
<1>6. ASSUME NEW r \in Requests, PurgeClaim(r) PROVE Genuine(store[s][k], k)'
  <2>1. store'[s][k] = store[s][k] \/ store'[s][k] = Absent
    BY <1>6 DEF PurgeClaim, Write, TypeOK
  <2> QED
    BY <1>1, <2>1
<1>7. ASSUME NEW i \in Instances, Crash(i) PROVE Genuine(store[s][k], k)'
  <2>1. store'[s][k] = store[s][k] \/ store'[s][k] = Absent
    <3>1. UNCHANGED store \/ store' = [store EXCEPT ![i] = [l \in Keys |-> Absent]]
      BY <1>7 DEF Crash
    <3>2. store \in [Stores -> [Keys -> Entries(Claims)]]
      BY DEF TypeOK
    <3> QED
      BY <3>1, <3>2
  <2> QED
    BY <1>1, <2>1
<1>8. ASSUME NEW l \in Keys, Sweep(l) PROVE Genuine(store[s][k], k)'
  <2>1. store'[s][k] = store[s][k] \/ store'[s][k] = Absent
    BY <1>8 DEF Sweep, Write, TypeOK
  <2> QED
    BY <1>1, <2>1
<1>9. CASE UNCHANGED store
  BY <1>1, <1>9
<1> QED
  BY <1>3, <1>4, <1>5, <1>6, <1>7, <1>8, <1>9, NextCases DEF vars, Arrive,
     TurnAway, SkipClaim, ClaimTaken, ReadClaim, ReportClaim, StateUnavailable,
     RefuseToPost, Post, OperatorDecides, HearBooked, HearNothing, Notify, Tick

(* An answer that replays a result is given by the two steps that found one. *)
LEMMA ReplaySteps ==
  ASSUME TypeOK, IdleInv, [Next]_vars, NEW r \in Requests,
         answer'[r].status = "already_processed", answer'[r] # answer[r]
  PROVE  \/ /\ ReportClaim(r) /\ Live(seen[r], now)
            /\ answer'[r] = AnswerFor(seen[r].val)
         \/ /\ ClaimLocally(r) /\ Live(Held(r), now)
            /\ answer'[r] = AnswerFor(Held(r).val)
<1> USE DEF Reply, Goto
<1>1. ASSUME NEW q \in Requests, ReportClaim(q)
      PROVE  /\ ReportClaim(r) /\ Live(seen[r], now)
             /\ answer'[r] = AnswerFor(seen[r].val)
  BY <1>1 DEF ReportClaim, TypeOK
<1>2. ASSUME NEW q \in Requests, ClaimLocally(q)
      PROVE  /\ ClaimLocally(r) /\ Live(Held(r), now)
             /\ answer'[r] = AnswerFor(Held(r).val)
  BY <1>2 DEF ClaimLocally, TypeOK
<1>3. ASSUME NEW q \in Requests,
             \/ TurnAway(q) \/ StateUnavailable(q) \/ RefuseToPost(q)
             \/ HearNothing(q) \/ Notify(q)
      PROVE  FALSE
  BY <1>3 DEF TypeOK, TurnAway, StateUnavailable, RefuseToPost, HearNothing,
     Notify, Says
<1>4. ASSUME NEW i \in Instances, Crash(i) PROVE FALSE
  BY <1>4 DEF TypeOK, Crash, Says
<1>5. answer' # answer
  OBVIOUS
<1> QED
  BY <1>1, <1>2, <1>3, <1>4, <1>5, NextCases DEF vars, Arrive, SkipClaim,
     ClaimWon, ClaimTaken, ReadClaim, PurgeClaim, Post, OperatorDecides,
     HearBooked, Complete, Sweep, Tick

LEMMA NextRecord ==
  ASSUME TypeOK, IdleInv, RecordInv, [Next]_vars
  PROVE  RecordInv'
<1>1. ASSUME NEW r \in Requests, pc'[r] = "complete" PROVE operator'[r] = "booked"
  BY <1>1, NextCases DEF RecordInv, TypeOK, Goto, Reply, vars, Arrive, TurnAway,
     SkipClaim, ClaimWon, ClaimTaken, ClaimLocally, ReadClaim, ReportClaim,
     PurgeClaim, StateUnavailable, RefuseToPost, Post, OperatorDecides,
     HearBooked, HearNothing, Complete, Notify, Crash, Sweep, Tick
<1>2. ASSUME NEW r \in Requests, pc'[r] = "idle"
      PROVE  seen'[r] = Absent /\ answer'[r] = NoAnswer
  BY <1>2, NextCases DEF RecordInv, TypeOK, Goto, Reply, vars, Arrive, TurnAway,
     SkipClaim, ClaimWon, ClaimTaken, ClaimLocally, ReadClaim, ReportClaim,
     PurgeClaim, StateUnavailable, RefuseToPost, Post, OperatorDecides,
     HearBooked, HearNothing, Complete, Notify, Crash, Sweep, Tick
<1>3. ASSUME NEW s \in Stores', NEW k \in Keys PROVE Genuine(store[s][k], k)'
  BY <1>3, GenuineStore DEF Stores, Genuine
<1>4. ASSUME NEW r \in Requests PROVE Genuine(seen[r], key[r])'
  <2>1. CASE ReadClaim(r)
    <3>1. seen'[r] = store[StoreOf(r)][key[r]] /\ key'[r] = key[r] /\ key[r] \in Keys
      BY <2>1 DEF ReadClaim, Held, TypeOK, KeyedSteps
    <3> QED
      BY <3>1, StoreTypes, BookedStays DEF RecordInv, Genuine
  <2>2. CASE pc[r] = "idle"
    <3>1. seen'[r] = Absent
      <4>1. seen'[r] = seen[r]
        BY <2>2, NextCases DEF TypeOK, vars, Arrive, TurnAway, SkipClaim,
           ClaimWon, ClaimTaken, ClaimLocally, ReadClaim, ReportClaim,
           PurgeClaim, StateUnavailable, RefuseToPost, Post, OperatorDecides,
           HearBooked, HearNothing, Complete, Notify, Crash, Sweep, Tick
      <4> QED
        BY <2>2, <4>1 DEF RecordInv
    <3> QED
      BY <3>1 DEF Genuine
  <2>3. CASE ~ReadClaim(r) /\ pc[r] # "idle"
    <3>1. seen'[r] = seen[r]
      <4>1. ASSUME NEW q \in Requests, ReadClaim(q) PROVE seen'[r] = seen[r]
        BY <2>3, <4>1 DEF ReadClaim, TypeOK
      <4> QED
        BY <4>1, NextCases DEF vars, Arrive, TurnAway, SkipClaim,
           ClaimWon, ClaimTaken, ClaimLocally, ReportClaim,
           PurgeClaim, StateUnavailable, RefuseToPost, Post, OperatorDecides,
           HearBooked, HearNothing, Complete, Notify, Crash, Sweep, Tick
    <3>2. key'[r] = key[r]
      BY <2>3, Irrevocable
    <3> QED
      BY <3>1, <3>2, BookedStays DEF RecordInv, Genuine
  <2> QED
    BY <2>1, <2>2, <2>3
<1>5. ASSUME NEW r \in Requests, answer'[r].status = "already_processed"
      PROVE  LET j == answer'[r].job
             IN j # r /\ key'[j] = key'[r] /\ operator'[j] = "booked"
  <2>1. CASE answer'[r] = answer[r]
    <3> DEFINE j == answer[r].job
    <3>1. j # r /\ key[j] = key[r] /\ operator[j] = "booked"
      BY <1>5, <2>1 DEF RecordInv, ReplayNamesTheBooking
    <3>2. j \in Requests /\ pc[r] # "idle"
      BY <1>5, <2>1 DEF TypeOK, Answers, NoAnswer, Says, Replays, RecordInv
    <3>3. pc[j] # "idle"
      BY <3>1, <3>2 DEF IdleInv
    <3>4. operator'[j] = "booked"
      BY <3>1, <3>2, NextCases DEF TypeOK, IdleInv, vars, Arrive, TurnAway,
         SkipClaim, ClaimWon, ClaimTaken, ClaimLocally, ReadClaim, ReportClaim,
         PurgeClaim, StateUnavailable, RefuseToPost, Post, OperatorDecides,
         HearBooked, HearNothing, Complete, Notify, Crash, Sweep, Tick
    <3> QED
      BY <2>1, <3>1, <3>2, <3>3, <3>4, Irrevocable
  <2>2. CASE answer'[r] # answer[r]
    <3>1. PICK e \in {seen[r], Held(r)} :
            /\ Live(e, now) /\ answer'[r] = AnswerFor(e.val)
            /\ e \in Entries(Claims) /\ Genuine(e, key[r])
            /\ pc[r] \in {"claim", "conclude"}
      <4>1. CASE ReportClaim(r) /\ Live(seen[r], now)
                   /\ answer'[r] = AnswerFor(seen[r].val)
        BY <4>1 DEF ReportClaim, TypeOK, RecordInv
      <4>2. CASE ClaimLocally(r) /\ Live(Held(r), now)
                   /\ answer'[r] = AnswerFor(Held(r).val)
        <5>1. key[r] \in Keys /\ pc[r] = "claim"
          BY <4>2 DEF ClaimLocally
        <5> QED
          BY <4>2, <5>1, StoreTypes DEF RecordInv, Held
      <4> QED
        BY <1>5, <2>2, <4>1, <4>2, ReplaySteps
    <3>2. e # Absent
      BY <3>1 DEF Live, Absent, TypeOK
    <3>3. e.val # InProgress
      BY <1>5, <3>1 DEF AnswerFor, Says
    <3>4. PICK j \in Requests : e.val = Completed(j)
      BY <3>1, <3>2, <3>3 DEF Entries, Claims
    <3>5. answer'[r].job = j
      BY <3>1, <3>3, <3>4 DEF AnswerFor, Replays, Completed
    <3>6. Booked(j, key[r])
      BY <3>1, <3>2, <3>4 DEF Genuine
    <3>7. j # r /\ pc[r] # "idle"
      BY <3>1, <3>6 DEF Booked
    <3>8. Booked(j, key[r])'  /\ key'[r] = key[r]
      BY <3>6, <3>7, BookedStays, Irrevocable DEF Booked
    <3> QED
      BY <3>5, <3>7, <3>8 DEF Booked
  <2> QED
    BY <2>1, <2>2
<1>6. ReplayNamesTheBooking'
  BY <1>5 DEF ReplayNamesTheBooking
<1> QED
  BY <1>1, <1>2, <1>3, <1>4, <1>6 DEF RecordInv

(* A replay names a job that the operator booked for another call of the    *)
(* same key.                                                                *)
THEOREM ReplaysAreGenuine == Spec => []ReplayNamesTheBooking
<1>1. Init => RecordInv
  BY DEF Init, RecordInv, Genuine, ReplayNamesTheBooking, NoAnswer
<1>2. ASSUME TypeOK, IdleInv, RecordInv, [Next]_vars PROVE RecordInv'
  BY <1>2, NextRecord
<1>3. IInv => TypeOK /\ IdleInv
  BY DEF IInv
<1>4. RecordInv => ReplayNamesTheBooking
  BY DEF RecordInv
<1> QED
  BY <1>1, <1>2, <1>3, <1>4, Inductive, PTL DEF Spec

------------------------------------------------------------------------------
(* A strict instance holds a store of its own, or has sent a keyed booking   *)
(* to the operator, only after it refused a call.                            *)
RefusedBy(i) ==
  {q \in Requests : inst[q] = i /\ pc[q] = "done"
                      /\ answer[q] = Says("unavailable")}
RefusalInv ==
  /\ \A i \in kept : RefusedBy(i) # {}
  /\ \A r \in Requests :
       (inst[r] \in Strict /\ key[r] \in Keys /\ Permitted(r)) =>
         RefusedBy(inst[r]) \ {r} # {}

(* What a call was answered is settled. *)
LEMMA Settled ==
  ASSUME TypeOK, [Next]_vars, NEW q \in Requests, pc[q] = "done"
  PROVE  pc'[q] = "done" /\ answer'[q] = answer[q]
<1> USE DEF TypeOK, Goto, Reply
<1>1. ASSUME NEW r \in Requests,
             \/ \E k \in Keys \cup {NoKey} : Arrive(r, k)
             \/ TurnAway(r) \/ SkipClaim(r) \/ ClaimWon(r) \/ ClaimTaken(r)
             \/ ReadClaim(r) \/ ReportClaim(r) \/ PurgeClaim(r)
      PROVE  r # q /\ pc'[q] = "done" /\ answer'[q] = answer[q]
  BY <1>1 DEF Arrive, TurnAway, SkipClaim, ClaimWon, ClaimTaken, ReadClaim,
     ReportClaim, PurgeClaim
<1>2. ASSUME NEW r \in Requests, ClaimLocally(r)
      PROVE  pc'[q] = "done" /\ answer'[q] = answer[q]
  BY <1>2 DEF ClaimLocally
<1>3. ASSUME NEW r \in Requests,
             \/ StateUnavailable(r) \/ RefuseToPost(r) \/ Post(r)
             \/ HearBooked(r) \/ HearNothing(r) \/ Complete(r) \/ Notify(r)
      PROVE  r # q /\ pc'[q] = "done" /\ answer'[q] = answer[q]
  BY <1>3 DEF StateUnavailable, RefuseToPost, Post, HearBooked, HearNothing,
     Complete, Notify
<1>4. ASSUME NEW i \in Instances, Crash(i)
      PROVE  pc'[q] = "done" /\ answer'[q] = answer[q]
  BY <1>4 DEF Crash, InFlight
<1> QED
  BY <1>1, <1>2, <1>3, <1>4, NextCases DEF vars, OperatorDecides, Sweep, Tick

LEMMA RefusalsStay ==
  ASSUME TypeOK, [Next]_vars, NEW i
  PROVE  RefusedBy(i) \subseteq RefusedBy(i)'
BY Settled, Irrevocable DEF RefusedBy

(* A store is kept by the call that is refused. *)
LEMMA KeptAtRefusal ==
  ASSUME TypeOK, [Next]_vars, NEW i \in kept', i \notin kept
  PROVE  RefusedBy(i)' # {}
<1>1. PICK r \in Requests : StateUnavailable(r) /\ i = inst[r]
  BY NextCases DEF vars, Arrive, TurnAway, SkipClaim, ClaimWon, ClaimTaken,
     ClaimLocally, ReadClaim, ReportClaim, PurgeClaim, StateUnavailable,
     RefuseToPost, Post, OperatorDecides, HearBooked, HearNothing, Complete,
     Notify, Crash, Sweep, Tick
<1>2. /\ pc'[r] = "done" /\ answer'[r] = Says("unavailable")
      /\ inst'[r] = i
  BY <1>1 DEF StateUnavailable, Reply, TypeOK
<1> QED
  BY <1>2 DEF RefusedBy

LEMMA NextRefusal ==
  TypeOK /\ IdleInv /\ RefusalInv /\ [Next]_vars => RefusalInv'
<1> SUFFICES ASSUME TypeOK, IdleInv, RefusalInv, [Next]_vars PROVE RefusalInv'
  OBVIOUS
<1>1. ASSUME NEW i \in kept' PROVE RefusedBy(i)' # {}
  BY <1>1, RefusalsStay, KeptAtRefusal DEF RefusalInv
<1>2. ASSUME NEW r \in Requests, inst'[r] \in Strict, key'[r] \in Keys,
             Permitted(r)'
      PROVE  (RefusedBy(inst[r]) \ {r})' # {}
  <2>1. inst'[r] = inst[r]
    BY Irrevocable
  <2>2. CASE Permitted(r)
    <3>1. pc[r] # "idle"
      BY <2>2 DEF IdleInv, Permitted, Submitted
    <3>2. key'[r] = key[r]
      BY <3>1, Irrevocable
    <3>3. RefusedBy(inst[r]) \ {r} # {}
      BY <1>2, <2>1, <2>2, <3>2 DEF RefusalInv
    <3> QED
      BY <2>1, <3>3, RefusalsStay
  <2>3. CASE ~Permitted(r)
    <3>1. ~Shared(r)
      BY <1>2, <2>1, BookingAssumption DEF Shared
    <3>2. \/ SkipClaim(r) \/ ClaimTaken(r) \/ ClaimWon(r) \/ ClaimLocally(r)
          \/ ReadClaim(r) \/ PurgeClaim(r)
      BY <1>2, <2>3, QuietOrMoves DEF Quiet, Permitted, Submitted
    <3>3. ClaimLocally(r)
      BY <1>2, <3>1, <3>2, BookingAssumption DEF SkipClaim, ClaimTaken, ClaimWon,
         ReadClaim, PurgeClaim, TypeOK, KeyedSteps
    <3>4. pc[r] = "claim" /\ inst[r] \in kept
      BY <1>2, <2>1, <3>3 DEF ClaimLocally, Refuses
    <3>5. RefusedBy(inst[r]) # {} /\ r \notin RefusedBy(inst[r])
      BY <3>4 DEF RefusalInv, RefusedBy
    <3>6. PICK q \in RefusedBy(inst[r]) : q # r
      BY <3>5
    <3> QED
      BY <2>1, <3>6, RefusalsStay
  <2> QED
    BY <2>2, <2>3
<1> QED
  BY <1>1, <1>2 DEF RefusalInv

(* A server that must have durable state and has no table posts a keyed      *)
(* booking only after it has refused another call.                           *)
THEOREM MemoryAfterRefusal == Spec => []MemoryNeedsRefusal
<1>1. Init => RefusalInv
  BY DEF Init, RefusalInv, Permitted, Submitted
<1>2. RefusalInv => MemoryNeedsRefusal
  BY DEF RefusalInv, MemoryNeedsRefusal, RefusedBy, Permitted
<1>3. IInv => TypeOK /\ IdleInv
  BY DEF IInv
<1> QED
  BY <1>1, <1>2, <1>3, NextRefusal, Inductive, PTL DEF Spec

------------------------------------------------------------------------------
(* The steps that write entry k of store s, and what they write. *)
WritesEntry(s, k) ==
  \/ \E r \in Requests :
       /\ StoreOf(r) = s /\ key[r] = k
       /\ \/ ClaimWon(r) /\ store'[s][k] = Item(InProgress, stamp[r] + TTL)
          \/ ClaimLocally(r) /\ store'[s][k] \in {Absent, Item(InProgress, now + TTL)}
          \/ PurgeClaim(r) /\ store'[s][k] = Absent
          \/ Complete(r) /\ store'[s][k] = Item(Completed(r), stamp[r] + TTL)
  \/ s \in Instances \ Durable /\ Crash(s) /\ store'[s][k] = Absent
  \/ Sweep(k) /\ ~Live(store[s][k], now) /\ store'[s][k] = Absent

LEMMA WriteSteps ==
  ASSUME TypeOK, [Next]_vars, NEW s \in Stores, NEW k \in Keys,
         store'[s][k] # store[s][k]
  PROVE  WritesEntry(s, k)
<1> USE DEF WritesEntry
<1>1. ASSUME NEW t, NEW l, NEW e, Write(t, l, e) PROVE t = s /\ l = k /\ store'[s][k] = e
  BY <1>1 DEF Write, TypeOK
<1>2. ASSUME NEW r \in Requests, ClaimWon(r) PROVE WritesEntry(s, k)
  BY <1>1, <1>2 DEF ClaimWon, StoreOf
<1>3. ASSUME NEW r \in Requests, ClaimLocally(r) PROVE WritesEntry(s, k)
  <2>1. \E e \in {Absent, Item(InProgress, now + TTL)} : Write(inst[r], key[r], e)
    BY <1>3 DEF ClaimLocally
  <2> QED
    BY <1>1, <1>3, <2>1 DEF ClaimLocally, StoreOf
<1>4. ASSUME NEW r \in Requests, PurgeClaim(r) PROVE WritesEntry(s, k)
  <2>1. Shared(r) /\ Write(Table, key[r], Absent)
    BY <1>4 DEF PurgeClaim, TypeOK, KeyedSteps
  <2> QED
    BY <1>1, <1>4, <2>1 DEF StoreOf
<1>5. ASSUME NEW r \in Requests, Complete(r) PROVE WritesEntry(s, k)
  BY <1>1, <1>5 DEF Complete
<1>6. ASSUME NEW i \in Instances, Crash(i) PROVE WritesEntry(s, k)
  <2>1. i \notin Durable /\ store' = [store EXCEPT ![i] = [l \in Keys |-> Absent]]
    BY <1>6 DEF Crash
  <2>2. store \in [Stores -> [Keys -> Entries(Claims)]]
    BY DEF TypeOK
  <2>3. s = i /\ store'[s][k] = Absent
    BY <2>1, <2>2
  <2> QED
    BY <1>6, <2>1, <2>3
<1>7. ASSUME NEW l \in Keys, Sweep(l) PROVE WritesEntry(s, k)
  BY <1>1, <1>7 DEF Sweep
<1>8. store' # store
  OBVIOUS
<1> QED
  BY <1>2, <1>3, <1>4, <1>5, <1>6, <1>7, <1>8, NextCases DEF vars, Arrive, TurnAway,
     SkipClaim, ClaimTaken, ReadClaim, ReportClaim, StateUnavailable, RefuseToPost,
     Post, OperatorDecides, HearBooked, HearNothing, Notify, Tick

(* A result is found where the call that booked it keeps its entries. *)
Home(e, s) == \A j \in Requests : e # Absent /\ e.val = Completed(j) => StoreOf(j) = s

HomeInv ==
  /\ \A s \in Stores, k \in Keys : Home(store[s][k], s)
  /\ \A r \in Requests : Home(seen[r], Table)

LEMMA NextHome == TypeOK /\ HomeInv /\ [Next]_vars => HomeInv'
<1> SUFFICES ASSUME TypeOK, HomeInv, [Next]_vars PROVE HomeInv'
  OBVIOUS
<1>0. /\ Stores' = Stores /\ UNCHANGED inst
      /\ \A j \in Requests : StoreOf(j)' = StoreOf(j)
  BY Irrevocable DEF Stores, StoreOf, Shared
<1>1. ASSUME NEW s \in Stores, NEW k \in Keys PROVE Home(store[s][k], s)'
  <2>1. CASE store'[s][k] = store[s][k] \/ store'[s][k] = Absent
    BY <1>0, <2>1 DEF HomeInv, Home
  <2>2. ASSUME NEW t, store'[s][k] = Item(InProgress, t) PROVE Home(store[s][k], s)'
    BY <2>2 DEF Home, Item, InProgress, Completed
  <2>3. ASSUME NEW r \in Requests, NEW t, StoreOf(r) = s,
               store'[s][k] = Item(Completed(r), t)
        PROVE  Home(store[s][k], s)'
    BY <1>0, <2>3 DEF Home, Item, Completed
  <2> QED
    BY <2>1, <2>2, <2>3, WriteSteps DEF WritesEntry
<1>2. ASSUME NEW r \in Requests PROVE Home(seen[r], Table)'
  <2>1. CASE seen'[r] = seen[r]
    BY <1>0, <2>1 DEF HomeInv, Home
  <2>2. CASE seen'[r] # seen[r]
    <3>1. ReadClaim(r)
      BY <2>2, NextCases DEF vars, Arrive, TurnAway, SkipClaim, ClaimWon, ClaimTaken,
         ClaimLocally, ReadClaim, ReportClaim, PurgeClaim, StateUnavailable,
         RefuseToPost, Post, OperatorDecides, HearBooked, HearNothing, Complete,
         Notify, Crash, Sweep, Tick, TypeOK
    <3>2. Shared(r) /\ key[r] \in Keys /\ seen'[r] = store[Table][key[r]]
      BY <3>1 DEF ReadClaim, Held, StoreOf, TypeOK, KeyedSteps
    <3> QED
      BY <1>0, <3>2, StoreTypes DEF HomeInv, Home
  <2> QED
    BY <2>1, <2>2
<1> QED
  BY <1>0, <1>1, <1>2 DEF HomeInv

(* Clients stop reusing a key before its first claim can expire. *)
Retired == Horizon + Span < TTL

(* A call that is in flight is so in the early time of its key. *)
LEMMA InFlightIsEarly ==
  ASSUME TypeOK, ClockInv, ReuseInv, Retired, NEW r \in Requests, InFlight(r),
         key[r] \in Keys
  PROVE  now < FirstEnd(key[r])
<1>1. now <= began[r] + Span /\ began[r] <= opened[key[r]] + Horizon
  BY DEF ClockInv, ReuseInv, Keyed
<1> QED
  BY <1>1, BookingAssumption DEF TypeOK, Retired, FirstEnd

(* What a live result of a key is replaced by, nothing. *)
LEMMA ResultStep ==
  ASSUME IInv, IInv', ReuseInv, ReuseInv', RecordInv, HomeInv, AtMostOneSubmission,
         Retired, [Next]_vars, NEW s \in Stores, NEW k \in Keys,
         NEW j \in Requests, store[s][k] # Absent, store[s][k].val = Completed(j),
         Live(store[s][k], now), store'[s][k].val # store[s][k].val
  PROVE  j \in forgotten'
<1> USE BookingAssumption DEF IInv, WritesEntry
<1>1. /\ key[j] = k /\ Submitted(j) /\ pc[j] \in {"notify", "done"} /\ StoreOf(j) = s
      /\ store[s][k].exp >= FirstEnd(k)
  BY DEF RecordInv, Genuine, Booked, HomeInv, Home, EntryInv, Submitted
<1>2. /\ now \in Nat /\ now' \in Nat /\ now <= now' /\ FirstEnd(k) \in Nat
      /\ store[s][k].exp \in Nat
  BY Irrevocable DEF TypeOK, FirstEnd, Entries
<1>3. ASSUME NEW r \in Requests, StoreOf(r) = s, key[r] = k, ClaimWon(r) PROVE FALSE
  BY <1>2, <1>3 DEF ClaimWon, Held, ClockInv, TypeOK, Live
<1>4. ASSUME NEW r \in Requests, StoreOf(r) = s, key[r] = k, ClaimLocally(r) PROVE FALSE
  <2>1. Held(r) = store[s][k] /\ pc'[r] = "post" /\ ~Live(store[s][k], now')
    BY <1>4 DEF Held, ClaimLocally, Goto, Reply, TypeOK
  <2>2. UNCHANGED <<key, opened, began>> /\ opened[k] \in Nat /\ began[r] \in Nat
    BY <1>4 DEF ClaimLocally, TypeOK
  <2>3. now' <= began[r] + Span /\ began[r] <= opened[k] + Horizon
    BY <1>4, <2>1, <2>2 DEF ClockInv, ReuseInv, InFlight, Keyed
  <2> QED
    BY <1>1, <1>2, <2>1, <2>2, <2>3 DEF FirstEnd, Live, Retired
<1>5. ASSUME NEW r \in Requests, key[r] = k, PurgeClaim(r) PROVE FALSE
  <2>1. pc[r] = "conclude" /\ ~Live(seen[r], now) /\ r \notin forgotten
    BY <1>5 DEF PurgeClaim, IdleInv
  <2>2. now < FirstEnd(k)
    BY <1>5, <2>1, InFlightIsEarly DEF InFlight
  <2>3. seen[r].exp >= FirstEnd(k) /\ seen[r].exp \in Nat
    BY <1>5, <2>1, <2>2 DEF HoldInv, Keyed, Early, FirstEnd, TypeOK, Entries, Absent
  <2> QED
    BY <1>2, <2>1, <2>2, <2>3 DEF Live
<1>6. ASSUME NEW r \in Requests, StoreOf(r) = s, key[r] = k, Complete(r),
             store'[s][k] = Item(Completed(r), stamp[r] + TTL)
      PROVE  j \in forgotten'
  <2>1. r # j /\ r \notin forgotten /\ Submitted(r) /\ UNCHANGED forgotten
    BY <1>6 DEF Item, Complete, IdleInv, Submitted
  <2>2. CASE j \notin forgotten
    BY <1>1, <1>6, <2>1, <2>2 DEF Rivals, AtMostOneSubmission, Retired
  <2> QED
    BY <2>1, <2>2
<1>7. ASSUME s \in Instances \ Durable, Crash(s) PROVE j \in forgotten'
  <2>1. inst[j] = s
    BY <1>1, <1>7, StoreTypes
  <2> QED
    BY <1>1, <1>7, <2>1 DEF Crash
<1> QED
  BY <1>3, <1>4, <1>5, <1>6, <1>7, WriteSteps

(* The result of a key stays in the store as long as the key is in use: no  *)
(* step of any call, overlapping or late, replaces it.                      *)
THEOREM ResultsStay ==
  ASSUME Retired PROVE Spec => CompletedStays
<1> DEFINE Stays ==
      \A s \in Stores, k \in Keys :
        (/\ store[s][k].val \notin {NoValue, InProgress}
         /\ store'[s][k].val # store[s][k].val)
          => \/ ~Live(store[s][k], now)
             \/ store[s][k].val.job \in forgotten'
<1>1. Init => ReuseInv /\ RecordInv /\ HomeInv
  BY BookingAssumption
     DEF Init, ReuseInv, Keyed, RecordInv, Genuine, ReplayNamesTheBooking, NoAnswer,
         HomeInv, Home
<1>2. IInv /\ ReuseInv /\ RecordInv /\ HomeInv /\ [Next]_vars
        => ReuseInv' /\ RecordInv' /\ HomeInv'
  BY NextReuse, NextRecord, NextHome DEF IInv
<1>3. ASSUME IInv, IInv', ReuseInv, ReuseInv', RecordInv, HomeInv,
             AtMostOneSubmission, [Next]_vars
      PROVE  Stays
  <2> SUFFICES ASSUME NEW s \in Stores, NEW k \in Keys,
                      store[s][k].val \notin {NoValue, InProgress},
                      store'[s][k].val # store[s][k].val, Live(store[s][k], now)
               PROVE  store[s][k].val.job \in forgotten'
    OBVIOUS
  <2>1. store[s][k] # Absent
    BY DEF Absent
  <2>2. PICK j \in Requests : store[s][k].val = Completed(j)
    BY <1>3, <2>1 DEF IInv, TypeOK, Entries, Claims
  <2> QED
    BY <1>3, <2>1, <2>2, ResultStep DEF Completed
<1>4. IInv /\ IInv' /\ ReuseInv /\ ReuseInv' /\ RecordInv /\ HomeInv
        /\ AtMostOneSubmission /\ [Next]_vars => [Stays]_vars
  BY <1>3
<1> QED
  BY <1>1, <1>2, <1>4, Inductive, AtMostOnce, PTL DEF Spec, CompletedStays

------------------------------------------------------------------------------
(* A call is answered when it ends, and one that notifies has posted. *)
AnswerInv ==
  \A r \in Requests :
    /\ pc[r] # "done" => answer[r] = NoAnswer
    /\ pc[r] = "notify" => Submitted(r)

LEMMA NextAnswer == TypeOK /\ IdleInv /\ AnswerInv /\ [Next]_vars => AnswerInv'
<1> SUFFICES ASSUME TypeOK, IdleInv, AnswerInv, [Next]_vars, NEW r \in Requests
             PROVE  /\ pc'[r] # "done" => answer'[r] = NoAnswer
                    /\ pc'[r] = "notify" => Submitted(r)'
  BY DEF AnswerInv
<1> USE DEF AnswerInv, Submitted
<1>1. ASSUME NEW q \in Requests, ClaimLocally(q)
      PROVE  /\ pc'[r] # "done" => answer'[r] = NoAnswer
             /\ pc'[r] = "notify" => Submitted(r)'
  BY <1>1 DEF ClaimLocally, Goto, Reply, TypeOK
<1>2. ASSUME NEW q \in Requests, Post(q) \/ OperatorDecides(q) \/ HearBooked(q) \/ Complete(q)
      PROVE  /\ pc'[r] # "done" => answer'[r] = NoAnswer
             /\ pc'[r] = "notify" => Submitted(r)'
  BY <1>2 DEF Post, OperatorDecides, HearBooked, Complete, Goto, TypeOK, IdleInv
<1>3. ASSUME NEW i \in Instances, Crash(i)
      PROVE  /\ pc'[r] # "done" => answer'[r] = NoAnswer
             /\ pc'[r] = "notify" => Submitted(r)'
  BY <1>3 DEF Crash, TypeOK
<1> QED
  BY <1>1, <1>2, <1>3, NextCases DEF Goto, Reply, TypeOK, vars, Arrive, TurnAway,
     SkipClaim, ClaimWon, ClaimTaken, ReadClaim, ReportClaim, PurgeClaim,
     StateUnavailable, RefuseToPost, HearNothing, Notify, Sweep, Tick

(* The calls of key k that are served with the table and have posted. *)
Submitters(k) == {r \in Requests : Shared(r) /\ key[r] = k /\ Submitted(r)}

LEMMA OnlySubmitter ==
  ASSUME NEW k, NEW r, Submitters(k) = {r}
  PROVE  SubmitterOf(k) = r
BY DEF SubmitterOf, Submitters

LEMMA NoSubmitter ==
  ASSUME NEW k, Submitters(k) = {}
  PROVE  SubmitterOf(k) = NoJob
BY DEF SubmitterOf, Submitters

LEMMA SameSubmitter ==
  ASSUME NEW k, Submitters(k)' = Submitters(k)
  PROVE  SubmitterOf(k)' = SubmitterOf(k)
<1>1. SubmitterOf(k) = IF Submitters(k) = {} THEN NoJob ELSE CHOOSE r \in Submitters(k) : TRUE
  BY DEF SubmitterOf, Submitters
<1>2. SubmitterOf(k)' = IF Submitters(k)' = {} THEN NoJob
                        ELSE CHOOSE r \in Submitters(k)' : TRUE
  BY DEF SubmitterOf, Submitters
<1> QED
  BY <1>1, <1>2

(* While keys are retired in time, a call of the table that has posted is the*)
(* submitter of its key.                                                     *)
LEMMA Unrivalled ==
  ASSUME IdleInv, AtMostOneSubmission, Retired, NEW r \in Requests, Shared(r),
         key[r] \in Keys, Submitted(r)
  PROVE  Submitters(key[r]) = {r}
<1> SUFFICES ASSUME NEW q \in Submitters(key[r]), q # r PROVE FALSE
  BY DEF Submitters
<1>1. Rivals(q, r)
  BY DEF Submitters, Rivals, StoreOf, IdleInv
<1> QED
  BY <1>1 DEF Submitters, AtMostOneSubmission, Retired

(* What OncePerKey is shown of the state. *)
Asked == [r \in Requests |-> IF Shared(r) THEN key[r] ELSE NoKey]
Submitter == [k \in Keys |-> SubmitterOf(k)]
Result == [r \in Requests |-> IF Shared(r) THEN answer[r] ELSE NoAnswer]

(* The steps that post nothing leave the submitters as they are. *)
LEMMA SubmitterKept ==
  ASSUME IdleInv, UNCHANGED inst,
         \A r \in Requests : Submitted(r)' = Submitted(r),
         \A r \in Requests : pc[r] # "idle" => key'[r] = key[r]
  PROVE  Submitter' = Submitter
<1>1. \A k \in Keys : Submitters(k)' = Submitters(k)
  BY DEF Submitters, Shared, IdleInv, Submitted
<1>2. \A k \in Keys : SubmitterOf(k)' = SubmitterOf(k)
  BY <1>1, SameSubmitter
<1> QED
  BY <1>2 DEF Submitter

(* A reply that says nothing about the booking. *)
LEMMA ReplyDeclines ==
  ASSUME TypeOK, IdleInv, AnswerInv, NEW r \in Requests, pc[r] # "done",
         NEW s \in {"failed", "unavailable", "confirmation_required", "in_progress",
                    "lost"},
         Reply(r, Says(s)), UNCHANGED <<inst, key, operator>>
  PROVE  Promise!Decline
<1>1. Asked' = Asked /\ Submitter' = Submitter
  BY SubmitterKept DEF Asked, Shared, Submitted
<1> DEFINE R == IF Shared(r) THEN {r} ELSE {}
<1>2. Says(s) \in Promise!NoResult
  BY DEF Promise!NoResult, Says
<1>3. R \in SUBSET {q \in Requests : Result[q] = NoAnswer}
  BY DEF Result, AnswerInv
<1>4. Result' = [q \in Requests |-> IF q \in R THEN Says(s) ELSE Result[q]]
  BY DEF Result, Reply, TypeOK, Shared
<1> QED
  BY <1>1, <1>2, <1>3, <1>4
     DEF Promise!Decline, Promise!Nothing, NoAnswer, Asked, Submitter, Result

PromiseVars == <<Asked, Submitter, Result>>

(* Each step is a step of OncePerKey, or none. *)
LEMMA PromiseStutters ==
  ASSUME IdleInv, UNCHANGED <<inst, key>>,
         \A r \in Requests : Submitted(r)' = Submitted(r),
         \A r \in Requests : Shared(r) => answer'[r] = answer[r]
  PROVE  UNCHANGED PromiseVars
<1>1. Submitter' = Submitter
  BY SubmitterKept
<1>2. Asked' = Asked /\ Result' = Result
  BY DEF Asked, Result, Shared
<1> QED
  BY <1>1, <1>2 DEF PromiseVars

LEMMA ArrivalAsks ==
  ASSUME TypeOK, IdleInv, AnswerInv, NEW r \in Requests,
         NEW k \in Keys \cup {NoKey}, Arrive(r, k)
  PROVE  UNCHANGED PromiseVars \/ (k \in Keys /\ Promise!Ask(r, k))
<1>1. /\ pc[r] = "idle" /\ key[r] = NoKey /\ answer[r] = NoAnswer
      /\ key' = [key EXCEPT ![r] = k] /\ UNCHANGED <<inst, operator, answer>>
  BY DEF Arrive, Goto, IdleInv, AnswerInv
<1>2. Submitter' = Submitter
  <2>1. \A q \in Requests : Submitted(q)' = Submitted(q)
    BY <1>1 DEF Submitted
  <2>2. \A q \in Requests : pc[q] # "idle" => key'[q] = key[q]
    BY <1>1 DEF TypeOK
  <2> QED
    BY <1>1, <2>1, <2>2, SubmitterKept
<1>3. Result' = Result
  BY <1>1 DEF Result, Shared
<1>4. CASE Shared(r) /\ k \in Keys
  <2>1. Asked' = [Asked EXCEPT ![r] = k]
    BY <1>1, <1>4 DEF Asked, Shared, TypeOK
  <2>2. Asked[r] = NoKey /\ Result[r] = NoAnswer
    BY <1>1, <1>4 DEF Asked, Result
  <2> QED
    BY <1>2, <1>3, <1>4, <2>1, <2>2
       DEF Promise!Ask, Promise!Nothing, NoAnswer, Asked, Submitter, Result
<1>5. CASE ~(Shared(r) /\ k \in Keys)
  <2>1. Asked' = Asked
    BY <1>1, <1>5 DEF Asked, Shared, TypeOK
  <2> QED
    BY <1>2, <1>3, <2>1 DEF PromiseVars
<1> QED
  BY <1>4, <1>5

LEMMA PostSubmits ==
  ASSUME TypeOK, IdleInv, AnswerInv, IdleInv', AtMostOneSubmission', Retired,
         NEW r \in Requests, Post(r), NEW k, k = key[r]
  PROVE  UNCHANGED PromiseVars \/ (k \in Keys /\ Promise!Submit(r, k))
<1>1. /\ pc[r] = "post" /\ operator[r] = "none" /\ answer[r] = NoAnswer
      /\ UNCHANGED <<inst, key, answer>>
      /\ operator' = [operator EXCEPT ![r] = "sent"]
  BY DEF Post, Goto, IdleInv, AnswerInv
<1>2. Asked' = Asked /\ Result' = Result
  BY <1>1 DEF Asked, Result, Shared
<1>3. /\ \A q \in Requests \ {r} : Submitted(q)' = Submitted(q)
      /\ Submitted(r)' /\ ~Submitted(r)
  BY <1>1 DEF Submitted, TypeOK
<1>4. \A l : ~(Shared(r) /\ l = k) => Submitters(l)' = Submitters(l)
  BY <1>1, <1>3 DEF Submitters, Shared
<1>5. CASE Shared(r) /\ k \in Keys
  <2>1. Submitters(k)' = Submitters(k) \cup {r} /\ r \notin Submitters(k)
    BY <1>1, <1>3, <1>5 DEF Submitters, Shared
  <2>2. ASSUME NEW q \in Submitters(k) PROVE FALSE
    <3>1. q # r /\ q \in Submitters(k)'
      BY <2>1, <2>2
    <3>2. Rivals(q, r)' /\ Submitted(q)' /\ Submitted(r)'
      BY <1>1, <1>3, <1>5, <3>1 DEF Rivals, Submitters, Shared, StoreOf, IdleInv
    <3>3. q \in Requests
      BY <2>2 DEF Submitters
    <3> QED
      BY <3>2, <3>3 DEF AtMostOneSubmission, Retired
  <2>3. Submitters(k) = {} /\ Submitters(k)' = {r}
    BY <2>1, <2>2
  <2>4. SubmitterOf(k) = NoJob
    BY <2>3, NoSubmitter
  <2>5. SubmitterOf(k)' = r
    BY <2>3 DEF SubmitterOf, Submitters
  <2>6. \A l \in Keys \ {k} : SubmitterOf(l)' = SubmitterOf(l)
    BY <1>4, SameSubmitter
  <2>7. Submitter' = [Submitter EXCEPT ![k] = r]
    BY <1>5, <2>5, <2>6 DEF Submitter
  <2>8. Asked[r] = k /\ Result[r] = NoAnswer /\ Submitter[k] = NoJob
    BY <1>1, <1>5, <2>4 DEF Asked, Result, Submitter
  <2> QED
    BY <1>2, <1>5, <2>7, <2>8
       DEF Promise!Submit, Promise!Nothing, NoAnswer, Asked, Submitter, Result
<1>6. CASE ~(Shared(r) /\ k \in Keys)
  <2>1. \A l \in Keys : SubmitterOf(l)' = SubmitterOf(l)
    BY <1>4, <1>6, SameSubmitter
  <2> QED
    BY <1>2, <2>1 DEF PromiseVars, Submitter
<1> QED
  BY <1>5, <1>6

LEMMA NoticeReports ==
  ASSUME TypeOK, IdleInv, AnswerInv, AtMostOneSubmission, Retired,
         NEW r \in Requests, Notify(r)
  PROVE  UNCHANGED PromiseVars \/ Promise!ReportCreated(r)
<1>1. /\ pc[r] = "notify" /\ Submitted(r) /\ answer[r] = NoAnswer
      /\ UNCHANGED <<inst, key, operator>>
      /\ answer' = [answer EXCEPT ![r] = Says("created")]
  BY DEF Notify, Reply, AnswerInv
<1>2. Asked' = Asked /\ Submitter' = Submitter
  BY <1>1, SubmitterKept DEF Asked, Shared, Submitted
<1>3. CASE Shared(r)
  <2>1. Result' = [Result EXCEPT ![r] = Says("created")] /\ Result[r] = NoAnswer
    BY <1>1, <1>3 DEF Result, Shared, TypeOK
  <2>2. Asked[r] \in Keys => Submitter[Asked[r]] = r
    BY <1>1, <1>3, Unrivalled, OnlySubmitter DEF Asked, Submitter
  <2> QED
    BY <1>2, <2>1, <2>2
       DEF Promise!ReportCreated, Promise!Nothing, NoAnswer, Says, Asked, Submitter, Result
<1>4. CASE ~Shared(r)
  BY <1>1, <1>4, PromiseStutters DEF Submitted, TypeOK
<1> QED
  BY <1>3, <1>4

LEMMA ReportReplays ==
  ASSUME TypeOK, IdleInv, RecordInv, HomeInv, AnswerInv, AtMostOneSubmission, Retired,
         NEW r \in Requests, ReportClaim(r), NEW k, k = key[r]
  PROVE  Promise!Decline \/ (k \in Keys /\ Promise!Replay(r, k))
<1>1. /\ pc[r] = "conclude" /\ Shared(r) /\ k \in Keys /\ Live(seen[r], now)
      /\ UNCHANGED <<inst, key, operator>> /\ Reply(r, AnswerFor(seen[r].val))
      /\ answer[r] = NoAnswer
  BY DEF ReportClaim, TypeOK, KeyedSteps, AnswerInv
<1>2. CASE seen[r].val = InProgress
  BY <1>1, <1>2, ReplyDeclines DEF AnswerFor
<1>3. CASE seen[r].val # InProgress
  <2>1. seen[r] # Absent
    BY <1>1 DEF Live, Absent, TypeOK
  <2>2. PICK j \in Requests : seen[r].val = Completed(j)
    BY <1>3, <2>1 DEF TypeOK, Entries, Claims
  <2>3. Booked(j, k) /\ StoreOf(j) = Table
    BY <2>1, <2>2 DEF RecordInv, Genuine, HomeInv, Home
  <2>4. Shared(j) /\ j # r /\ Submitted(j) /\ key[j] = k
    BY <1>1, <2>3, BookingAssumption DEF Booked, StoreOf, TypeOK, Submitted
  <2>5. SubmitterOf(k) = j
    BY <1>1, <2>4, Unrivalled, OnlySubmitter
  <2>6. Asked' = Asked /\ Submitter' = Submitter
    BY <1>1, SubmitterKept DEF Asked, Shared, Submitted
  <2>7. answer' = [answer EXCEPT ![r] = Replays(j)]
    <3>1. seen[r].val.job = j
      BY <2>2 DEF Completed
    <3> QED
      BY <1>1, <1>3, <3>1 DEF Reply, AnswerFor
  <2>8. Result' = [Result EXCEPT ![r] = Replays(j)] /\ Result[r] = NoAnswer
    BY <1>1, <2>7 DEF Result, Shared, TypeOK
  <2>9. Asked[r] = k /\ Submitter[k] = j /\ j \notin {NoJob, r}
    BY <1>1, <2>4, <2>5, BookingAssumption DEF Asked, Submitter
  <2> QED
    BY <1>1, <2>6, <2>8, <2>9
       DEF Promise!Replay, Promise!Nothing, NoAnswer, Replays, Asked, Submitter, Result
<1> QED
  BY <1>2, <1>3

LEMMA CrashDeclines ==
  ASSUME TypeOK, IdleInv, AnswerInv, NEW i \in Instances, Crash(i)
  PROVE  Promise!Decline
<1> DEFINE R == {r \in Requests : inst[r] = i /\ InFlight(r) /\ i \in Durable}
<1>1. /\ UNCHANGED <<inst, key, operator>>
      /\ \A r \in Requests :
           answer'[r] = IF inst[r] = i /\ InFlight(r) THEN Says("lost") ELSE answer[r]
  BY DEF Crash
<1>2. Asked' = Asked /\ Submitter' = Submitter
  BY <1>1, SubmitterKept DEF Asked, Shared, Submitted
<1>3. R \in SUBSET {r \in Requests : Result[r] = NoAnswer}
  BY DEF Result, AnswerInv, InFlight
<1>4. Result' = [r \in Requests |-> IF r \in R THEN Says("lost") ELSE Result[r]]
  BY <1>1 DEF Result, Shared
<1>5. Says("lost") \in Promise!NoResult
  BY DEF Promise!NoResult, Says
<1> QED
  BY <1>2, <1>3, <1>4, <1>5
     DEF Promise!Decline, Promise!Nothing, NoAnswer, Asked, Submitter, Result

LEMMA PromiseStep ==
  ASSUME TypeOK, IdleInv, RecordInv, HomeInv, AnswerInv, AtMostOneSubmission, IdleInv',
         AtMostOneSubmission', Retired, [Next]_vars
  PROVE  Promise!Next \/ UNCHANGED PromiseVars
<1>1. ASSUME NEW r \in Requests, NEW k \in Keys \cup {NoKey}, Arrive(r, k)
      PROVE  Promise!Next \/ UNCHANGED PromiseVars
  BY <1>1, ArrivalAsks DEF Promise!Next
<1>2. ASSUME NEW r \in Requests, Post(r) PROVE Promise!Next \/ UNCHANGED PromiseVars
  BY <1>2, PostSubmits DEF Promise!Next
<1>3. ASSUME NEW r \in Requests, Notify(r) PROVE Promise!Next \/ UNCHANGED PromiseVars
  BY <1>3, NoticeReports DEF Promise!Next
<1>4. ASSUME NEW r \in Requests, ReportClaim(r) PROVE Promise!Next
  BY <1>4, ReportReplays DEF Promise!Next
<1>5. ASSUME NEW r \in Requests,
             TurnAway(r) \/ StateUnavailable(r) \/ RefuseToPost(r) \/ HearNothing(r)
      PROVE  Promise!Next
  <2>1. /\ \E s \in {"failed", "confirmation_required", "unavailable"} : Reply(r, Says(s))
        /\ pc[r] # "done" /\ UNCHANGED <<inst, key, operator>>
    BY <1>5 DEF TurnAway, StateUnavailable, RefuseToPost, HearNothing
  <2> QED
    BY <2>1, ReplyDeclines DEF Promise!Next
<1>6. ASSUME NEW i \in Instances, Crash(i) PROVE Promise!Next
  BY <1>6, CrashDeclines DEF Promise!Next
<1>7. ASSUME NEW r \in Requests, ClaimLocally(r) PROVE UNCHANGED PromiseVars
  BY <1>7, PromiseStutters DEF ClaimLocally, Goto, Reply, TypeOK, Submitted, Shared
<1>8. ASSUME NEW r \in Requests, OperatorDecides(r) PROVE UNCHANGED PromiseVars
  BY <1>8, PromiseStutters DEF OperatorDecides, TypeOK, Submitted
<1>9. ASSUME UNCHANGED <<inst, key, operator, answer>> PROVE UNCHANGED PromiseVars
  BY <1>9, PromiseStutters DEF Submitted
<1> QED
  BY <1>1, <1>2, <1>3, <1>4, <1>5, <1>6, <1>7, <1>8, <1>9, NextCases
     DEF vars, Goto, SkipClaim, ClaimWon, ClaimTaken, ReadClaim, PurgeClaim,
         HearBooked, Complete, Sweep, Tick

(* The calls served with the table implement OncePerKey while keys are       *)
(* retired in time: one call submits, it alone reports the booking as        *)
(* created, replays name it, and no other answer says anything about it.     *)
THEOREM PromiseIsKept ==
  ASSUME Retired PROVE Spec => KeepsPromise
<1>1. Init => RecordInv /\ HomeInv /\ AnswerInv
  BY DEF Init, RecordInv, Genuine, ReplayNamesTheBooking, NoAnswer, HomeInv, Home,
         AnswerInv
<1>2. TypeOK /\ IdleInv /\ RecordInv /\ HomeInv /\ AnswerInv /\ [Next]_vars
        => RecordInv' /\ HomeInv' /\ AnswerInv'
  BY NextRecord, NextHome, NextAnswer
<1>3. Init => Promise!Init
  <2> SUFFICES ASSUME Init PROVE Promise!Init
    OBVIOUS
  <2>1. \A k \in Keys : SubmitterOf(k) = NoJob
    BY NoSubmitter DEF Init, Submitters, Submitted
  <2> QED
    BY <2>1 DEF Init, Promise!Init, Promise!Nothing, NoAnswer
<1>4. TypeOK /\ IdleInv /\ RecordInv /\ HomeInv /\ AnswerInv /\ AtMostOneSubmission
        /\ IdleInv' /\ AtMostOneSubmission' /\ [Next]_vars
        => [Promise!Next]_(Promise!vars)
  BY PromiseStep DEF PromiseVars, Promise!vars, Asked, Submitter, Result
<1>5. IInv => TypeOK /\ IdleInv
  BY DEF IInv
<1> QED
  BY <1>1, <1>2, <1>3, <1>4, <1>5, Inductive, AtMostOnce, PTL
     DEF Spec, KeepsPromise, Promise!Spec

------------------------------------------------------------------------------
(* Two calls of a key work at the same time only across its expiry, like two *)
(* submissions: a call that works has posted or is about to.                 *)
OverlapNeedsExpiry ==
  \A q, r \in Requests :
    (Rivals(q, r) /\ Working(q) /\ Working(r)) =>
      \E c \in {q, r} : began[c] + Span >= opened[key[c]] + TTL

THEOREM OverlapAcrossExpiry == Spec => []OverlapNeedsExpiry
<1>1. ASSUME IInv, AnswerInv PROVE OverlapNeedsExpiry
  <2>1. \A r \in Requests : Working(r) => Permitted(r)
    BY <1>1 DEF IInv, IdleInv, AnswerInv, Working, Permitted, Submitted
  <2> QED
    BY <1>1, <2>1 DEF IInv, RivalInv, OverlapNeedsExpiry, FirstEnd
<1>2. Init => AnswerInv
  BY DEF Init, AnswerInv
<1>3. TypeOK /\ IdleInv /\ AnswerInv /\ [Next]_vars => AnswerInv'
  BY NextAnswer
<1>4. IInv => TypeOK /\ IdleInv
  BY DEF IInv
<1> QED
  BY <1>1, <1>2, <1>3, <1>4, Inductive, PTL DEF Spec

(* When keys are retired before their claims can expire, nobody works on a   *)
(* key beside another: what every other call is told with in_progress.       *)
THEOREM OneWorker ==
  ASSUME Retired PROVE Spec => []OneWorkerPerKey
<1>1. Init => ReuseInv
  BY BookingAssumption DEF Init, ReuseInv, Keyed
<1>2. TypeOK /\ IdleInv /\ ReuseInv /\ [Next]_vars => ReuseInv'
  BY NextReuse
<1>3. IInv => TypeOK /\ IdleInv
  BY DEF IInv
<1>4. ASSUME TypeOK, ReuseInv, OverlapNeedsExpiry PROVE OneWorkerPerKey
  <2> SUFFICES ASSUME NEW q \in Requests, NEW r \in Requests, Rivals(q, r),
                      Working(q), Working(r)
               PROVE  FALSE
    BY DEF OneWorkerPerKey
  <2>1. PICK c \in {q, r} : began[c] + Span >= opened[key[c]] + TTL
    BY <1>4 DEF OverlapNeedsExpiry
  <2>2. key[c] \in Keys
    BY DEF Rivals
  <2>3. began[c] <= opened[key[c]] + Horizon
    BY <1>4, <2>2 DEF ReuseInv, Keyed
  <2>4. began[c] \in Nat /\ opened[key[c]] \in Nat
    BY <1>4, <2>2 DEF TypeOK
  <2> QED
    BY <2>1, <2>3, <2>4, BookingAssumption DEF Retired
<1> QED
  BY <1>1, <1>2, <1>3, <1>4, OverlapAcrossExpiry, Inductive, PTL DEF Spec

------------------------------------------------------------------------------
(* What a call brought with it stays as it is. *)
LEMMA CallStays ==
  ASSUME TypeOK, IdleInv, [Next]_vars, NEW r \in Requests, key[r] \in Keys
  PROVE  key'[r] = key[r] /\ began'[r] = began[r] /\ inst' = inst
<1>1. pc[r] # "idle"
  BY BookingAssumption DEF IdleInv
<1>2. ASSUME NEW q \in Requests, NEW k \in Keys \cup {NoKey}, Arrive(q, k)
      PROVE  key'[r] = key[r] /\ began'[r] = began[r] /\ inst' = inst
  BY <1>1, <1>2 DEF Arrive, TypeOK
<1> QED
  BY <1>2, NextCases DEF vars, TurnAway, SkipClaim, ClaimWon, ClaimTaken, ClaimLocally,
     ReadClaim, ReportClaim, PurgeClaim, StateUnavailable, RefuseToPost, Post,
     OperatorDecides, HearBooked, HearNothing, Complete, Notify, Crash, Sweep, Tick

(* A key is blocked, by a claim that nobody completes or by a result, no     *)
(* longer than TTL + Span after the arrival of a call that carried it: a     *)
(* call that dies, or gives up on the operator, does not block it for good.  *)
BlockedByItsCalls ==
  \A s \in Stores, k \in Keys : store[s][k] # Absent =>
    \E r \in Requests : /\ key[r] = k /\ StoreOf(r) = s
                        /\ store[s][k].exp <= began[r] + Span + TTL

LEMMA NextBlocked ==
  TypeOK /\ IdleInv /\ ClockInv /\ BlockedByItsCalls /\ [Next]_vars => BlockedByItsCalls'
<1> SUFFICES ASSUME TypeOK, IdleInv, ClockInv, BlockedByItsCalls, [Next]_vars,
                    NEW s \in Stores, NEW k \in Keys, store'[s][k] # Absent
             PROVE  \E r \in Requests : /\ key'[r] = k /\ StoreOf(r)' = s
                                        /\ store'[s][k].exp <= began'[r] + Span + TTL
  BY DEF BlockedByItsCalls, Stores
<1>1. ASSUME NEW r \in Requests, key[r] = k, StoreOf(r) = s,
             store'[s][k].exp <= began[r] + Span + TTL
      PROVE  /\ key'[r] = k /\ StoreOf(r)' = s
             /\ store'[s][k].exp <= began'[r] + Span + TTL
  BY <1>1, CallStays DEF StoreOf, Shared
<1>2. CASE store'[s][k] = store[s][k]
  <2>1. PICK r \in Requests : /\ key[r] = k /\ StoreOf(r) = s
                              /\ store[s][k].exp <= began[r] + Span + TTL
    BY <1>2 DEF BlockedByItsCalls
  <2> QED
    BY <1>1, <1>2, <2>1
<1>3. CASE store'[s][k] # store[s][k]
  <2>1. PICK r \in Requests :
          /\ StoreOf(r) = s /\ key[r] = k /\ InFlight(r)
          /\ \E v \in Claims, t \in {stamp[r], now} : store'[s][k] = Item(v, t + TTL)
    <3>1. WritesEntry(s, k)
      BY <1>3, WriteSteps
    <3>2. PICK r \in Requests :
            /\ StoreOf(r) = s /\ key[r] = k
            /\ \/ ClaimWon(r) /\ store'[s][k] = Item(InProgress, stamp[r] + TTL)
               \/ ClaimLocally(r) /\ store'[s][k] = Item(InProgress, now + TTL)
               \/ Complete(r) /\ store'[s][k] = Item(Completed(r), stamp[r] + TTL)
      BY <3>1 DEF WritesEntry
    <3>3. InFlight(r)
      BY <3>2 DEF ClaimWon, ClaimLocally, Complete, InFlight
    <3> QED
      BY <3>2, <3>3 DEF Claims
  <2>2. PICK v \in Claims, t \in {stamp[r], now} : store'[s][k] = Item(v, t + TTL)
    BY <2>1
  <2>3. t \in Nat /\ t <= now /\ now <= began[r] + Span /\ now \in Nat /\ began[r] \in Nat
    BY <2>1, <2>2 DEF TypeOK, ClockInv
  <2>4. store'[s][k].exp = t + TTL
    BY <2>2 DEF Item
  <2>5. store'[s][k].exp <= began[r] + Span + TTL
    BY <2>3, <2>4, BookingAssumption
  <2> QED
    BY <1>1, <2>1, <2>5
<1> QED
  BY <1>2, <1>3

THEOREM BlocksEnd == Spec => []BlockedByItsCalls
<1>1. Init => BlockedByItsCalls
  BY DEF Init, BlockedByItsCalls
<1>2. IInv /\ BlockedByItsCalls /\ [Next]_vars => BlockedByItsCalls'
  BY NextBlocked DEF IInv
<1> QED
  BY <1>1, <1>2, Inductive, PTL DEF Spec

------------------------------------------------------------------------------
(* Weak fairness of Serve(r), with what enables it spelt out: at each label  *)
(* of a call in flight there is a step that asks nothing but the label, or   *)
(* two whose conditions exclude each other.  TLC checks the property from    *)
(* WF_vars(Serve(r)) itself.                                                 *)
Served(r) == []<>~InFlight(r) \/ []<><<Serve(r)>>_vars

(* How far a call has come. *)
Order == [idle |-> 0, claim |-> 1, read |-> 2, conclude |-> 3, post |-> 4,
          wait |-> 5, complete |-> 6, notify |-> 7, done |-> 8]
Stage(r) == Order[pc[r]]

(* A step of a call brings it further; nothing brings it back. *)
LEMMA ServeMovesOn ==
  ASSUME TypeOK, NEW r \in Requests, Serve(r)
  PROVE  Stage(r) < Stage(r)'
<1> USE DEF Stage, Order
<1>1. CASE TurnAway(r) \/ SkipClaim(r) \/ ClaimWon(r) \/ ClaimTaken(r)
  BY <1>1 DEF TypeOK, TurnAway, SkipClaim, ClaimWon, ClaimTaken, Reply, Goto
<1>2. CASE ClaimLocally(r)
  BY <1>2 DEF TypeOK, ClaimLocally, Reply, Goto
<1>3. CASE ReadClaim(r) \/ ReportClaim(r) \/ PurgeClaim(r)
  BY <1>3 DEF TypeOK, ReadClaim, ReportClaim, PurgeClaim, Reply, Goto
<1>4. CASE StateUnavailable(r)
  BY <1>4 DEF TypeOK, StateUnavailable, Reply
<1>5. CASE RefuseToPost(r) \/ Post(r) \/ HearBooked(r) \/ HearNothing(r)
  BY <1>5 DEF TypeOK, RefuseToPost, Post, HearBooked, HearNothing, Reply, Goto
<1>6. CASE Complete(r) \/ Notify(r)
  BY <1>6 DEF TypeOK, Complete, Notify, Reply, Goto
<1> QED
  BY <1>1, <1>2, <1>3, <1>4, <1>5, <1>6 DEF Serve, Claim

(* It is the step of one call. *)
LEMMA ServeOne ==
  ASSUME TypeOK, NEW q \in Requests, Serve(q)
  PROVE  pc' = [pc EXCEPT ![q] = pc'[q]]
<1> USE DEF TypeOK, Goto, Reply
<1>1. CASE TurnAway(q) \/ SkipClaim(q) \/ ClaimWon(q) \/ ClaimTaken(q)
  BY <1>1 DEF TurnAway, SkipClaim, ClaimWon, ClaimTaken
<1>2. CASE ClaimLocally(q)
  BY <1>2 DEF ClaimLocally
<1>3. CASE ReadClaim(q) \/ ReportClaim(q) \/ PurgeClaim(q) \/ StateUnavailable(q)
  BY <1>3 DEF ReadClaim, ReportClaim, PurgeClaim, StateUnavailable
<1>5. CASE RefuseToPost(q) \/ Post(q) \/ HearBooked(q) \/ HearNothing(q)
  BY <1>5 DEF RefuseToPost, Post, HearBooked, HearNothing
<1>6. CASE Complete(q) \/ Notify(q)
  BY <1>6 DEF Complete, Notify
<1> QED
  BY <1>1, <1>2, <1>3, <1>5, <1>6 DEF Serve, Claim

LEMMA OrderType ==
  \A l \in Labels : /\ Order[l] \in 0..8
                    /\ Order[l] = 0 <=> l = "idle"
                    /\ Order[l] = 8 <=> l = "done"
BY DEF Labels, Order

LEMMA NoStepBack ==
  ASSUME TypeOK, [Next]_vars, NEW r \in Requests
  PROVE  Stage(r) <= Stage(r)'
<1>1. pc[r] \in Labels /\ pc'[r] \in Labels
  BY NextType DEF TypeOK
<1>2. pc'[r] \in {pc[r], "done"} => Stage(r) <= Stage(r)'
  BY <1>1, OrderType DEF Stage
<1>3. pc[r] = "idle" => Stage(r) <= Stage(r)'
  BY <1>1, OrderType DEF Stage
<1>4. Serve(r) => Stage(r) <= Stage(r)'
  BY <1>1, OrderType, ServeMovesOn DEF Stage
<1>5. \/ UNCHANGED vars
      \/ \E q \in Requests, k \in Keys \cup {NoKey} : Arrive(q, k)
      \/ \E q \in Requests : q # r /\ Serve(q)
      \/ Serve(r)
      \/ \E q \in Requests : OperatorDecides(q)
      \/ \E i \in Instances : Crash(i)
      \/ \E k \in Keys : Sweep(k)
      \/ Tick
  BY DEF Next
<1>6. ASSUME NEW q \in Requests, NEW k \in Keys \cup {NoKey}, Arrive(q, k)
      PROVE  pc[r] = "idle" \/ pc'[r] = pc[r]
  BY <1>6 DEF TypeOK, Arrive, Goto
<1>7. ASSUME NEW q \in Requests, q # r, Serve(q)
      PROVE  pc'[r] = pc[r]
  BY <1>7, ServeOne DEF TypeOK
<1>8. ASSUME NEW i \in Instances, Crash(i)
      PROVE  pc'[r] \in {pc[r], "done"}
  BY <1>8 DEF Crash
<1>9. UNCHANGED vars \/ (\E q \in Requests : OperatorDecides(q))
        \/ (\E k \in Keys : Sweep(k)) \/ Tick
        => pc'[r] = pc[r]
  BY DEF vars, OperatorDecides, Sweep, Tick
<1> QED
  BY <1>2, <1>3, <1>4, <1>5, <1>6, <1>7, <1>8, <1>9

LEMMA StageStep ==
  ASSUME TypeOK, [Next]_vars, NEW r \in Requests, NEW n \in 0..8, Stage(r) >= n
  PROVE  /\ Stage(r)' >= n
         /\ <<Serve(r)>>_vars => Stage(r)' >= n + 1
<1>1. Stage(r) \in 0..8 /\ Stage(r)' \in 0..8
  BY NextType, OrderType DEF TypeOK, Stage
<1> QED
  BY <1>1, NoStepBack, ServeMovesOn

(* Every call ends, however its awaits, its instance and the clock behave,   *)
(* if the event loop goes on serving it (EveryCallEnds of create_booking).   *)
THEOREM CallsEnd == Spec /\ (\A r \in Requests : Served(r)) => EveryCallEnds
<1>1. ASSUME NEW r \in Requests
      PROVE  Spec /\ Served(r) => <>[]~InFlight(r)
  <2> DEFINE Ended == ~InFlight(r)
             P1 == Stage(r) >= 1
             P2 == Stage(r) >= 2
             P3 == Stage(r) >= 3
             P4 == Stage(r) >= 4
             P5 == Stage(r) >= 5
             P6 == Stage(r) >= 6
             P7 == Stage(r) >= 7
             P8 == Stage(r) >= 8
  <2>1. TypeOK /\ [Next]_vars => 
          /\ P1 => P1'
          /\ P2 => P2'
          /\ P3 => P3'
          /\ P4 => P4'
          /\ P5 => P5'
          /\ P6 => P6'
          /\ P7 => P7'
          /\ P8 => P8'
    BY StageStep
  <2>2. TypeOK /\ [Next]_vars /\ <<Serve(r)>>_vars =>
          /\ P1'
          /\ P1 => P2'
          /\ P2 => P3'
          /\ P3 => P4'
          /\ P4 => P5'
          /\ P5 => P6'
          /\ P6 => P7'
          /\ P7 => P8'
    BY StageStep, OrderType DEF TypeOK, Stage
  <2>3. TypeOK => (Ended <=> ~P1 \/ P8)
    BY OrderType DEF TypeOK, Stage, InFlight
  <2>4. Served(r) => []<>Ended \/ []<><<Serve(r)>>_vars
    BY DEF Served
  <2>5. Ended => ~InFlight(r)
    OBVIOUS
  <2> HIDE DEF Ended, P1, P2, P3, P4, P5, P6, P7, P8
  <2>6. Spec /\ ([]<>Ended \/ []<><<Serve(r)>>_vars) => <>[]Ended
    BY <2>1, <2>2, <2>3, TypeCorrect, PTL DEF Spec
  <2> USE DEF Ended
  <2> QED
    BY <2>4, <2>6, PTL
<1> QED
  BY <1>1 DEF EveryCallEnds
==============================================================================
