----------------------------- MODULE GuardProofs -----------------------------
(***************************************************************************)
(* Theorems about OutboundGuard, for any calls, keys, limits, windows and  *)
(* thresholds.                                                             *)
(***************************************************************************)
EXTENDS OutboundGuard, FiniteSetTheorems, TLAPS

------------------------------------------------------------------------------
LEMMA InitType == Init => TypeOK
BY GuardAssumption DEF Init, TypeOK, Fates, Charged, Failed

(* A call that is made gets its time and its fate, and no other call does. *)
Made(c, f) ==
  /\ fate[c] = "idle"
  /\ fate' = [fate EXCEPT ![c] = f]
  /\ since' = [since EXCEPT ![c] = now]
  /\ UNCHANGED <<now, key, url, ended>>

(* Likewise a call that ends. *)
Over(c, f) ==
  /\ fate[c] = "waiting"
  /\ fate' = [fate EXCEPT ![c] = f]
  /\ ended' = [ended EXCEPT ![c] = now]
  /\ UNCHANGED <<now, bucket, key, url, since>>

LEMMA StepCases ==
  ASSUME [Next]_vars
  PROVE  \/ \E c \in Calls : Made(c, "limited") /\ RefuseByLimit(c)
         \/ \E c \in Calls : Made(c, "refused") /\ RefuseByCircuit(c)
         \/ \E c \in Calls : Made(c, "waiting") /\ Send(c)
         \/ \E c \in Calls : Over(c, "ok") /\ Succeed(c)
         \/ \E c \in Calls : Over(c, "failed") /\ FailCall(c)
         \/ \E c \in Calls : Over(c, "gone") /\ Abandon(c)
         \/ Tick
         \/ UNCHANGED vars
BY DEF Next, Made, Over, RefuseByLimit, RefuseByCircuit, Send, Succeed, FailCall,
       Abandon, End

LEMMA NextType == TypeOK /\ [Next]_vars => TypeOK'
<1> SUFFICES ASSUME TypeOK, [Next]_vars PROVE TypeOK'
  OBVIOUS
<1>1. ASSUME NEW c \in Calls, Made(c, "limited"), RefuseByLimit(c) PROVE TypeOK'
  BY <1>1 DEF TypeOK, Fates, Charged, Failed, Made, RefuseByLimit, Recent
<1>2. ASSUME NEW c \in Calls, Made(c, "refused"), RefuseByCircuit(c) PROVE TypeOK'
  BY <1>2 DEF TypeOK, Fates, Charged, Failed, Made, RefuseByCircuit, Charge, Recent
<1>3. ASSUME NEW c \in Calls, Made(c, "waiting"), Send(c) PROVE TypeOK'
  BY <1>3 DEF TypeOK, Fates, Charged, Failed, Made, Send, Charge, Pass, Recent
<1>4. ASSUME NEW c \in Calls, Over(c, "ok"), Succeed(c) PROVE TypeOK'
  BY <1>4 DEF TypeOK, Fates, Charged, Failed, Over, Succeed
<1>5. ASSUME NEW c \in Calls, Over(c, "failed"), FailCall(c) PROVE TypeOK'
  BY <1>5 DEF TypeOK, Fates, Charged, Failed, Over, FailCall, Blame, Recent
<1>6. ASSUME NEW c \in Calls, Over(c, "gone"), Abandon(c) PROVE TypeOK'
  BY <1>6 DEF TypeOK, Fates, Charged, Failed, Over, Abandon
<1>7. CASE Tick
  BY <1>7 DEF TypeOK, Charged, Failed, Tick
<1>8. CASE UNCHANGED vars
  BY <1>8 DEF TypeOK, Charged, Failed, vars
<1> QED
  BY StepCases, <1>1, <1>2, <1>3, <1>4, <1>5, <1>6, <1>7, <1>8

(* The limiter's and the breaker's timestamps are those of calls of their    *)
(* key that were charged, or that failed.                                    *)
THEOREM TypeCorrect == Spec => []TypeOK
BY InitType, NextType, PTL DEF Spec

------------------------------------------------------------------------------
(* What is still in the window has not been pruned. *)
KeptInv ==
  Limit > 0 =>
    \A c \in Calls : Charged(c) /\ since[c] + Window > now => c \in bucket[key[c]]

(* So far every window of every bucket is within the limit. *)
WindowInv ==
  \A b \in Buckets, t \in Nat : t <= now =>
    /\ IsFiniteSet(WindowOf(b, t))
    /\ Limit > 0 => Cardinality(WindowOf(b, t)) <= Limit

(* A set that gains an element gains one in cardinality. *)
LEMMA OneMore ==
  ASSUME NEW S, NEW T, NEW x, IsFiniteSet(S), x \notin S, T = S \cup {x}
  PROVE  IsFiniteSet(T) /\ Cardinality(T) = Cardinality(S) + 1
BY FS_AddElement

(* The pruned list is the window that ends now. *)
LEMMA RecentIsWindow ==
  ASSUME TypeOK, KeptInv, Limit > 0, NEW b \in Buckets
  PROVE  Recent(bucket[b], since) = WindowOf(b, now)
BY DEF TypeOK, KeptInv, Recent, WindowOf

(* A call that is charged enters the windows that end now, and no other. *)
LEMMA ChargedWindow ==
  ASSUME TypeOK, NEW c \in Calls, NEW f \in {"refused", "waiting"}, Made(c, f),
         NEW b \in Buckets, NEW t \in Nat, t <= now
  PROVE  /\ c \notin WindowOf(b, t)
         /\ WindowOf(b, t)' = IF b = key[c] /\ t = now
                              THEN WindowOf(b, t) \cup {c} ELSE WindowOf(b, t)
<1>1. \A d \in Calls : Charged(d)' <=> Charged(d) \/ d = c
  BY DEF Made, TypeOK, Charged
<1>2. ~Charged(c)
  BY DEF Made, Charged
<1>3. \A d \in Calls : since'[d] = IF d = c THEN now ELSE since[d]
  BY DEF Made, TypeOK
<1>4. WindowOf(b, t)' = {d \in Calls : /\ Charged(d)' /\ key[d] = b
                                       /\ since'[d] <= t /\ since'[d] + Window > t}
  BY DEF WindowOf, Made
<1>5. now + Window > now
  BY GuardAssumption DEF TypeOK
<1> QED
  BY <1>1, <1>2, <1>3, <1>4, <1>5 DEF WindowOf, TypeOK

(* A call that is refused by the limiter, or ends, enters none. *)
LEMMA OtherWindow ==
  ASSUME TypeOK, NEW c \in Calls,
         \/ Made(c, "limited")
         \/ \E f \in {"ok", "failed", "gone"} : Over(c, f),
         NEW b \in Buckets, NEW t \in Nat
  PROVE  WindowOf(b, t)' = WindowOf(b, t)
<1>1. \A d \in Calls : Charged(d)' <=> Charged(d)
  BY DEF Made, Over, TypeOK, Charged
<1>2. \A d \in Calls : Charged(d) => since'[d] = since[d]
  BY DEF Made, Over, TypeOK, Charged
<1> QED
  BY <1>1, <1>2 DEF WindowOf, Made, Over

LEMMA NextKept == TypeOK /\ KeptInv /\ [Next]_vars => KeptInv'
<1> SUFFICES ASSUME TypeOK, KeptInv, [Next]_vars, Limit > 0 PROVE KeptInv'
  BY DEF KeptInv
<1>1. ASSUME NEW c \in Calls, Made(c, "limited"), RefuseByLimit(c) PROVE KeptInv'
  BY <1>1 DEF TypeOK, KeptInv, Charged, Made, RefuseByLimit, Recent
<1>2. ASSUME NEW c \in Calls, NEW f, Made(c, f), Charge(c) PROVE KeptInv'
  BY <1>2 DEF TypeOK, KeptInv, Charged, Made, Charge, Recent
<1>3. ASSUME NEW c \in Calls, NEW f, Over(c, f) PROVE KeptInv'
  BY <1>3 DEF TypeOK, KeptInv, Charged, Over
<1>4. CASE Tick
  BY <1>4, GuardAssumption DEF TypeOK, KeptInv, Charged, Tick
<1>5. CASE UNCHANGED vars
  BY <1>5 DEF KeptInv, Charged, vars
<1> QED
  BY StepCases, <1>1, <1>2, <1>3, <1>4, <1>5 DEF RefuseByCircuit, Send

(* Only a call that finds its bucket below the limit is charged. *)
LEMMA NextWindow == TypeOK /\ KeptInv /\ WindowInv /\ [Next]_vars => WindowInv'
<1> SUFFICES ASSUME TypeOK, KeptInv, WindowInv, [Next]_vars,
                    NEW b \in Buckets, NEW t \in Nat, t <= now'
             PROVE  /\ IsFiniteSet(WindowOf(b, t)')
                    /\ Limit > 0 => Cardinality(WindowOf(b, t)') <= Limit
  BY DEF WindowInv
<1>1. ASSUME WindowOf(b, t)' = WindowOf(b, t), now' = now
      PROVE  /\ IsFiniteSet(WindowOf(b, t)')
             /\ Limit > 0 => Cardinality(WindowOf(b, t)') <= Limit
  BY <1>1 DEF WindowInv
<1>2. ASSUME NEW c \in Calls, NEW f \in {"refused", "waiting"}, Made(c, f),
             ~Full(key[c])
      PROVE  /\ IsFiniteSet(WindowOf(b, t)')
             /\ Limit > 0 => Cardinality(WindowOf(b, t)') <= Limit
  <2>1. now' = now
    BY <1>2 DEF Made
  <2>2. CASE b = key[c] /\ t = now
    <3>1. IsFiniteSet(WindowOf(b, t))
      BY <2>1 DEF WindowInv
    <3>2. WindowOf(b, t)' = WindowOf(b, t) \cup {c} /\ c \notin WindowOf(b, t)
      BY <1>2, <2>1, <2>2, ChargedWindow
    <3>3. /\ IsFiniteSet(WindowOf(b, t)')
          /\ Cardinality(WindowOf(b, t)') = Cardinality(WindowOf(b, t)) + 1
      BY ONLY <3>1, <3>2, OneMore
    <3>4. ASSUME Limit > 0 PROVE Cardinality(WindowOf(b, t)) < Limit
      <4>1. Recent(bucket[b], since) = WindowOf(b, t)
        BY <2>2, <3>4, RecentIsWindow
      <4>2. Cardinality(WindowOf(b, t)) \in Nat
        BY <3>1, FS_CardinalityType
      <4> QED
        BY <1>2, <2>2, <3>4, <4>1, <4>2, GuardAssumption DEF Full
    <3> QED
      BY <3>1, <3>3, <3>4, FS_CardinalityType, GuardAssumption
  <2>3. CASE ~(b = key[c] /\ t = now)
    BY <1>1, <1>2, <2>1, <2>3, ChargedWindow
  <2> QED
    BY <2>2, <2>3
<1>3. ASSUME NEW c \in Calls,
             \/ Made(c, "limited")
             \/ \E f \in {"ok", "failed", "gone"} : Over(c, f)
      PROVE  WindowOf(b, t)' = WindowOf(b, t) /\ now' = now
  BY <1>3, OtherWindow DEF Made, Over
<1>4. CASE Tick
  <2>1. WindowOf(b, t)' = WindowOf(b, t) /\ now' = now + 1 /\ now \in Nat
    BY <1>4 DEF Tick, WindowOf, Charged, TypeOK
  <2>2. CASE t <= now
    BY <2>1, <2>2 DEF WindowInv
  <2>3. CASE t = now + 1
    <3>1. WindowOf(b, t) \in SUBSET WindowOf(b, now)
      BY <2>1, <2>3, GuardAssumption DEF WindowOf, TypeOK
    <3>2. /\ IsFiniteSet(WindowOf(b, now))
          /\ Limit > 0 => Cardinality(WindowOf(b, now)) <= Limit
      BY <2>1 DEF WindowInv
    <3>3. /\ IsFiniteSet(WindowOf(b, t))
          /\ Cardinality(WindowOf(b, t)) <= Cardinality(WindowOf(b, now))
      BY <3>1, <3>2, FS_Subset
    <3> QED
      BY <2>1, <3>2, <3>3, FS_CardinalityType, GuardAssumption
  <2> QED
    BY <2>1, <2>2, <2>3
<1>5. CASE UNCHANGED vars
  BY <1>1, <1>5 DEF vars, WindowOf, Charged
<1> QED
  BY StepCases, <1>1, <1>2, <1>3, <1>4, <1>5 DEF RefuseByCircuit, Send

LEMMA InitWindow == Init => KeptInv /\ WindowInv
<1>1. ASSUME Init, NEW b \in Buckets, NEW t \in Nat PROVE WindowOf(b, t) = {}
  BY <1>1 DEF Init, WindowOf, Charged
<1>2. Init => KeptInv
  BY DEF Init, KeptInv, Charged
<1>3. IsFiniteSet({}) /\ (Limit > 0 => Cardinality({}) <= Limit)
  BY FS_EmptySet, GuardAssumption
<1> QED
  BY <1>1, <1>2, <1>3 DEF WindowInv

(* No window of a bucket, whenever it ends, exceeds the limit. *)
THEOREM WindowsAreLimited == Spec => []WindowLimit
<1>1. TypeOK /\ WindowInv => WindowLimit
  BY DEF TypeOK, WindowInv, WindowLimit
<1>2. TypeOK /\ KeptInv /\ WindowInv /\ [Next]_vars => TypeOK' /\ KeptInv' /\ WindowInv'
  BY NextType, NextKept, NextWindow
<1> QED
  BY <1>1, <1>2, InitType, InitWindow, PTL DEF Spec

------------------------------------------------------------------------------
LEMMA NextCause ==
  TypeOK /\ KeptInv /\ WindowInv /\ LimitedForCause /\ [Next]_vars => LimitedForCause'
<1> SUFFICES ASSUME TypeOK, KeptInv, WindowInv, LimitedForCause, [Next]_vars,
                    NEW d \in Calls, fate'[d] = "limited",
                    NEW b, NEW t, b = key'[d], t = since'[d]
             PROVE  Limit > 0 /\ Cardinality(WindowOf(b, t)') >= Limit
  BY DEF LimitedForCause, WindowOf
<1>0. b \in Buckets /\ t \in Nat /\ t <= now'
  BY NextType DEF TypeOK
<1>1. ASSUME fate[d] = "limited", since'[d] = since[d], key' = key
      PROVE  /\ Limit > 0 /\ Cardinality(WindowOf(b, t)) >= Limit
             /\ IsFiniteSet(WindowOf(b, t)) /\ t <= now
  BY <1>1, <1>0 DEF LimitedForCause, WindowInv, TypeOK
<1>2. ASSUME NEW c \in Calls, Made(c, "limited"), RefuseByLimit(c)
      PROVE  Limit > 0 /\ Cardinality(WindowOf(b, t)') >= Limit
  <2>1. WindowOf(b, t)' = WindowOf(b, t)
    BY <1>0, <1>2, OtherWindow
  <2>2. CASE d = c
    <3>1. Limit > 0 /\ Cardinality(Recent(bucket[b], since)) >= Limit
      BY <1>2, <2>2 DEF RefuseByLimit, Full
    <3>2. t = now
      BY <1>2, <2>2 DEF Made, TypeOK
    <3> QED
      BY <1>0, <2>1, <3>1, <3>2, RecentIsWindow
  <2>3. CASE d # c
    BY <1>1, <1>2, <2>1, <2>3 DEF Made, TypeOK
  <2> QED
    BY <2>2, <2>3
<1>3. ASSUME NEW c \in Calls, NEW f \in {"refused", "waiting"}, Made(c, f)
      PROVE  Limit > 0 /\ Cardinality(WindowOf(b, t)') >= Limit
  <2>1. d # c /\ fate[d] = "limited" /\ since'[d] = since[d] /\ key' = key
    BY <1>3 DEF Made, TypeOK
  <2>2. \/ WindowOf(b, t)' = WindowOf(b, t)
        \/ WindowOf(b, t)' = WindowOf(b, t) \cup {c} /\ c \notin WindowOf(b, t)
    BY <1>0, <1>1, <1>3, <2>1, ChargedWindow
  <2>3. CASE WindowOf(b, t)' = WindowOf(b, t)
    BY <1>1, <2>1, <2>3
  <2>4. CASE WindowOf(b, t)' = WindowOf(b, t) \cup {c} /\ c \notin WindowOf(b, t)
    <3>1. Limit > 0 /\ Cardinality(WindowOf(b, t)) >= Limit /\ IsFiniteSet(WindowOf(b, t))
      BY <1>1, <2>1
    <3>2. Cardinality(WindowOf(b, t)') = Cardinality(WindowOf(b, t)) + 1
      BY ONLY <2>4, <3>1, OneMore
    <3>3. Cardinality(WindowOf(b, t)) \in Nat
      BY <3>1, FS_CardinalityType
    <3> QED
      BY <3>1, <3>2, <3>3, GuardAssumption
  <2> QED
    BY <2>2, <2>3, <2>4
<1>4. ASSUME NEW c \in Calls, NEW f \in {"ok", "failed", "gone"}, Over(c, f)
      PROVE  Limit > 0 /\ Cardinality(WindowOf(b, t)') >= Limit
  <2>1. WindowOf(b, t)' = WindowOf(b, t)
    BY <1>0, <1>4, OtherWindow
  <2>2. fate[d] = "limited" /\ since'[d] = since[d] /\ key' = key
    BY <1>4 DEF Over, TypeOK
  <2> QED
    BY <1>1, <2>1, <2>2
<1>5. CASE Tick \/ UNCHANGED vars
  <2>1. WindowOf(b, t)' = WindowOf(b, t)
    BY <1>5 DEF Tick, vars, WindowOf, Charged
  <2> QED
    BY <1>1, <1>5, <2>1 DEF Tick, vars
<1> QED
  BY StepCases, <1>2, <1>3, <1>4, <1>5

(* A call is refused by the limiter only after a full window. *)
THEOREM LimitsHaveCause == Spec => []LimitedForCause
<1>1. Init => LimitedForCause
  BY DEF Init, LimitedForCause
<1>2. TypeOK /\ KeptInv /\ WindowInv /\ LimitedForCause /\ [Next]_vars
        => TypeOK' /\ KeptInv' /\ WindowInv' /\ LimitedForCause'
  BY NextType, NextKept, NextWindow, NextCause
<1> QED
  BY <1>1, <1>2, InitType, InitWindow, PTL DEF Spec

------------------------------------------------------------------------------
(* What SlidingWindow sees of the calls. *)
Verdict == [c \in Calls |-> IF Charged(c) THEN "admitted"
                            ELSE IF fate[c] = "limited" THEN "refused" ELSE "none"]

(* The calls that count are those of the window that ends now. *)
LEMMA AdmittedWindow ==
  ASSUME TypeOK, NEW b \in Buckets
  PROVE  Sliding!Admitted(b) = WindowOf(b, now)
<1>1. \A c \in Calls : Verdict[c] = "admitted" <=> Charged(c)
  BY DEF Verdict
<1> QED
  BY <1>1 DEF Sliding!Admitted, Verdict, WindowOf, TypeOK

(* The pruned list is long when, and only when, the limit is used up. *)
LEMMA FullIsExhausted ==
  ASSUME TypeOK, KeptInv, NEW b \in Buckets
  PROVE  Full(b) <=> Sliding!Exhausted(b)
<1>1. Sliding!Admitted(b) = WindowOf(b, now)
  BY AdmittedWindow
<1>2. Limit > 0 => Recent(bucket[b], since) = WindowOf(b, now)
  BY RecentIsWindow
<1>3. \A S : Sliding!Cardinality(S) = Cardinality(S)
  BY Zenon DEF Sliding!Cardinality, Cardinality
<1> QED
  BY <1>1, <1>2, <1>3 DEF Full, Sliding!Exhausted

LEMMA MadeDecides ==
  ASSUME TypeOK, NEW c \in Calls, NEW f \in {"limited", "refused", "waiting"}, Made(c, f)
  PROVE  Sliding!Decide(c, IF f = "limited" THEN "refused" ELSE "admitted")
<1>1. Verdict' = [Verdict EXCEPT ![c] = IF f = "limited" THEN "refused" ELSE "admitted"]
  BY DEF Verdict, Made, Charged, TypeOK
<1>2. Verdict[c] = "none"
  BY DEF Verdict, Made, Charged
<1> QED
  BY <1>1, <1>2 DEF Verdict, Made, Sliding!Decide

LEMMA SlidingStep ==
  ASSUME TypeOK, KeptInv, [Next]_vars
  PROVE  [Sliding!Next]_(Sliding!vars)
<1>1. \A c \in Calls : key[c] \in Buckets
  BY DEF TypeOK
<1>2. ASSUME NEW c \in Calls, Made(c, "limited"), RefuseByLimit(c)
      PROVE  Sliding!Refuse(c)
  BY <1>1, <1>2, FullIsExhausted, MadeDecides DEF RefuseByLimit, Sliding!Refuse
<1>3. ASSUME NEW c \in Calls, NEW f \in {"refused", "waiting"}, Made(c, f), ~Full(key[c])
      PROVE  Sliding!Admit(c)
  BY <1>1, <1>3, FullIsExhausted, MadeDecides DEF Sliding!Admit
<1>4. ASSUME NEW c \in Calls, NEW f \in {"ok", "failed", "gone"}, Over(c, f)
      PROVE  UNCHANGED Sliding!vars
  <2>1. Verdict' = Verdict
    BY <1>4 DEF Verdict, Over, Charged, TypeOK
  <2> QED
    BY <1>4, <2>1 DEF Verdict, Over, Sliding!vars
<1>5. CASE Tick
  BY <1>5 DEF Tick, Charged, Sliding!Next, Sliding!Tick
<1>6. CASE UNCHANGED vars
  BY <1>6 DEF vars, Charged, Sliding!vars
<1> QED
  BY StepCases, <1>2, <1>3, <1>4, <1>5, <1>6 DEF RefuseByCircuit, Send, Sliding!Next

(* The limiter implements SlidingWindow, for any limit and window: the list  *)
(* it prunes as it goes never leaves out an admitted call that still counts, *)
(* nor keeps one that does not.                                              *)
THEOREM LimitIsKept == Spec => KeepsLimit
<1>1. Init => Sliding!Init
  BY DEF Init, Sliding!Init, Charged
<1>2. TypeOK /\ KeptInv /\ [Next]_vars => TypeOK' /\ KeptInv'
  BY NextType, NextKept
<1>3. TypeOK /\ KeptInv /\ [Next]_vars => [Sliding!Next]_(Sliding!vars)
  BY SlidingStep
<1> QED
  BY <1>1, <1>2, <1>3, InitType, InitWindow, PTL DEF Spec, KeepsLimit, Sliding!Spec

------------------------------------------------------------------------------
(* What the breaker still counts, no success or trial has wiped out. *)
BlameInv ==
  \A u \in Upstreams : failures[u] \subseteq Failed(u) \ settled

(* F justifies that the circuit of u opened at time t. *)
Justifies(F, u, t) ==
  /\ F \subseteq Failed(u) \ settled
  /\ Cardinality(F) >= Threshold
  /\ \A c \in F : ended[c] <= t /\ t < ended[c] + Window

(* A success and a trial settle the failures of their upstream, and close    *)
(* its circuit; nothing else settles anything.                               *)
Settles(u) ==
  /\ settled' = settled \cup Failed(u)
  /\ failures' = [failures EXCEPT ![u] = {}]
  /\ opened' = [opened EXCEPT ![u] = Never]

LEMMA SettleCases ==
  ASSUME TypeOK, [Next]_vars
  PROVE  \/ \E c \in Calls : Over(c, "failed") /\ FailCall(c)
         \/ /\ \A u \in Upstreams : Failed(u)' = Failed(u)
            /\ \A c \in Calls : fate[c] = "failed" => ended'[c] = ended[c]
            /\ \/ \E u \in Upstreams : Settles(u)
               \/ UNCHANGED <<failures, opened, settled>>
<1>1. ASSUME NEW c \in Calls, NEW f \in {"limited", "refused", "waiting"}, Made(c, f)
      PROVE  /\ \A u \in Upstreams : Failed(u)' = Failed(u)
             /\ ended' = ended
  BY <1>1 DEF Made, Failed, TypeOK
<1>2. ASSUME NEW c \in Calls, NEW f \in {"ok", "gone"}, Over(c, f)
      PROVE  /\ \A u \in Upstreams : Failed(u)' = Failed(u)
             /\ \A d \in Calls : fate[d] = "failed" => ended'[d] = ended[d]
  BY <1>2 DEF Over, Failed, TypeOK
<1>3. ASSUME NEW c \in Calls, Send(c)
      PROVE  Settles(url[c]) \/ UNCHANGED <<failures, opened, settled>>
  <2>1. url[c] \in Upstreams /\ opened \in [Upstreams -> Nat \cup {Never}]
    BY DEF TypeOK
  <2>2. CASE opened[url[c]] = Never
    BY <1>3, <2>1, <2>2 DEF Send, Pass
  <2>3. CASE opened[url[c]] # Never
    BY <1>3, <2>1, <2>3 DEF Send, Pass, Settles
  <2> QED
    BY <2>2, <2>3
<1>4. ASSUME NEW c \in Calls, Succeed(c) PROVE Settles(url[c])
  BY <1>4 DEF Succeed, Settles
<1>5. \A c \in Calls : url[c] \in Upstreams
  BY DEF TypeOK
<1>6. CASE Tick \/ UNCHANGED vars
  BY <1>6 DEF Tick, vars, Failed
<1> QED
  BY StepCases, <1>1, <1>2, <1>3, <1>4, <1>5, <1>6
     DEF RefuseByLimit, RefuseByCircuit, Abandon

LEMMA NextBlame == TypeOK /\ BlameInv /\ [Next]_vars => BlameInv'
<1> SUFFICES ASSUME TypeOK, BlameInv, [Next]_vars PROVE BlameInv'
  OBVIOUS
<1>1. ASSUME NEW c \in Calls, Over(c, "failed"), FailCall(c) PROVE BlameInv'
  <2>1. \A u \in Upstreams : \A d \in failures'[u] : d \in failures[u] \/ (d = c /\ u = url[c])
    BY <1>1 DEF TypeOK, FailCall, Blame, Recent
  <2>2. \A u \in Upstreams : Failed(u) \subseteq Failed(u)'
    BY <1>1 DEF Over, Failed, TypeOK
  <2>3. c \notin settled /\ settled' = settled /\ c \in Failed(url[c])'
    BY <1>1 DEF Over, FailCall, Failed, TypeOK
  <2> SUFFICES ASSUME NEW u \in Upstreams, NEW d \in failures'[u]
               PROVE  d \in Failed(u)' /\ d \notin settled'
    BY DEF BlameInv
  <2>4. CASE d \in failures[u]
    BY <2>2, <2>3, <2>4 DEF BlameInv
  <2>5. CASE d = c /\ u = url[c]
    <3>1. url' = url
      BY <1>1 DEF Over
    <3> QED
      BY <2>3, <2>5, <3>1 DEF Failed
  <2> QED
    BY <2>1, <2>4, <2>5
<1>2. ASSUME \A u \in Upstreams : Failed(u)' = Failed(u),
             \/ \E u \in Upstreams : Settles(u)
             \/ UNCHANGED <<failures, opened, settled>>
      PROVE  BlameInv'
  <2>1. CASE UNCHANGED <<failures, opened, settled>>
    BY <1>2, <2>1 DEF BlameInv
  <2>2. ASSUME NEW u \in Upstreams, Settles(u) PROVE BlameInv'
    <3>1. ASSUME NEW v \in Upstreams, v # u PROVE Failed(v) \cap Failed(u) = {}
      BY <3>1 DEF Failed
    <3> QED
      BY <1>2, <2>2, <3>1 DEF Settles, BlameInv, TypeOK
  <2> QED
    BY <1>2, <2>1, <2>2
<1> QED
  BY SettleCases, <1>1, <1>2

LEMMA NextJustified ==
  TypeOK /\ BlameInv /\ JustifiedOpen /\ [Next]_vars => JustifiedOpen'
<1> SUFFICES ASSUME TypeOK, BlameInv, JustifiedOpen, [Next]_vars,
                    NEW u \in Upstreams, opened'[u] # Never
             PROVE  \E F : Justifies(F, u, opened[u])'
  BY DEF JustifiedOpen, Justifies
<1>1. ASSUME opened'[u] = opened[u],
             Failed(u) \ settled \subseteq (Failed(u) \ settled)',
             \A d \in Calls : fate[d] = "failed" => ended'[d] = ended[d]
      PROVE  \E F : Justifies(F, u, opened[u])'
  <2>1. PICK F : Justifies(F, u, opened[u])
    BY <1>1 DEF JustifiedOpen, Justifies
  <2>2. \A d \in F : ended'[d] = ended[d]
    BY <1>1, <2>1 DEF Justifies, Failed
  <2>3. Justifies(F, u, opened[u])'
    BY <1>1, <2>1, <2>2 DEF Justifies
  <2> QED
    BY <2>3
<1>2. ASSUME NEW c \in Calls, Over(c, "failed"), FailCall(c)
      PROVE  \E F : Justifies(F, u, opened[u])'
  <2> PICK F : F = Recent(failures[u], ended) \cup {c}
    OBVIOUS
  <2>1. CASE opened'[u] = opened[u]
    BY <1>1, <1>2, <2>1 DEF Over, FailCall, Failed, TypeOK
  <2>2. CASE opened'[u] # opened[u]
    <3>1. u = url[c] /\ Cardinality(F) >= Threshold /\ opened'[u] = now /\ failures'[u] = F
      BY <1>2, <2>2 DEF FailCall, Blame, TypeOK
    <3>2. F \subseteq (Failed(u) \ settled)'
      BY <3>1, NextBlame DEF BlameInv
    <3>3. \A d \in F : ended'[d] <= now /\ now < ended'[d] + Window
      BY <1>2, GuardAssumption DEF Over, Recent, TypeOK
    <3>4. Justifies(F, u, opened[u])'
      BY <3>1, <3>2, <3>3 DEF Justifies
    <3> QED
      BY <3>4
  <2> QED
    BY <2>1, <2>2
<1>3. ASSUME \A v \in Upstreams : Failed(v)' = Failed(v),
             \A d \in Calls : fate[d] = "failed" => ended'[d] = ended[d],
             \/ \E v \in Upstreams : Settles(v)
             \/ UNCHANGED <<failures, opened, settled>>
      PROVE  \E F : Justifies(F, u, opened[u])'
  <2>1. CASE UNCHANGED <<failures, opened, settled>>
    BY <1>1, <1>3, <2>1
  <2>2. ASSUME NEW v \in Upstreams, Settles(v) PROVE \E F : Justifies(F, u, opened[u])'
    <3>1. v # u /\ opened'[u] = opened[u]
      BY <2>2 DEF Settles, TypeOK
    <3>2. Failed(v) \cap Failed(u) = {}
      BY <3>1 DEF Failed
    <3>3. Failed(u) \ settled \subseteq (Failed(u) \ settled)'
      BY <1>3, <2>2, <3>2 DEF Settles
    <3> QED
      BY <1>1, <1>3, <3>1, <3>3
  <2> QED
    BY <1>3, <2>1, <2>2
<1> QED
  BY SettleCases, <1>2, <1>3

(* An open circuit goes back to Threshold failures of its upstream within a  *)
(* window, all of them later than its last success and its last trial.       *)
THEOREM OpeningsAreJustified == Spec => []JustifiedOpen
<1>1. Init => BlameInv /\ JustifiedOpen
  BY DEF Init, BlameInv, JustifiedOpen
<1>2. TypeOK /\ BlameInv /\ JustifiedOpen /\ [Next]_vars
        => TypeOK' /\ BlameInv' /\ JustifiedOpen'
  BY NextType, NextBlame, NextJustified
<1> QED
  BY <1>1, <1>2, InitType, PTL DEF Spec

------------------------------------------------------------------------------
LEMMA NextNothing ==
  TypeOK /\ NothingSentWhileOpen /\ [Next]_vars => NothingSentWhileOpen'
<1> SUFFICES ASSUME TypeOK, NothingSentWhileOpen, [Next]_vars PROVE NothingSentWhileOpen'
  OBVIOUS
<1>1. ASSUME NEW c \in Calls, NEW f \in {"limited", "refused"}, Made(c, f),
             UNCHANGED opened
      PROVE  NothingSentWhileOpen'
  BY <1>1 DEF TypeOK, NothingSentWhileOpen, Made, Sent
<1>2. ASSUME NEW c \in Calls, Made(c, "waiting"), Send(c) PROVE NothingSentWhileOpen'
  BY <1>2 DEF TypeOK, NothingSentWhileOpen, Made, Sent, Send, Pass
<1>3. ASSUME NEW c \in Calls, NEW f \in {"ok", "failed", "gone"}, Over(c, f),
             \A u \in Upstreams : opened'[u] \in {opened[u], Never, now}
      PROVE  NothingSentWhileOpen'
  BY <1>3 DEF TypeOK, NothingSentWhileOpen, Over, Sent
<1>4. CASE Tick \/ UNCHANGED vars
  BY <1>4 DEF NothingSentWhileOpen, Sent, Tick, vars
<1>5. ASSUME NEW c \in Calls, Succeed(c) \/ FailCall(c) \/ Abandon(c)
      PROVE  \A u \in Upstreams : opened'[u] \in {opened[u], Never, now}
  BY <1>5 DEF Succeed, FailCall, Blame, Abandon, TypeOK
<1> QED
  BY StepCases, <1>1, <1>2, <1>3, <1>4, <1>5 DEF RefuseByLimit, RefuseByCircuit

(* Nothing is sent to an upstream after its circuit opened and before a call *)
(* has closed it.                                                            *)
THEOREM NothingSent == Spec => []NothingSentWhileOpen
<1>1. Init => NothingSentWhileOpen
  BY DEF Init, NothingSentWhileOpen
<1> QED
  BY <1>1, InitType, NextType, NextNothing, PTL DEF Spec

------------------------------------------------------------------------------
(* No call waits beyond its span, and an opening is no later than the span   *)
(* of some call that was sent.                                               *)
DeadlineInv ==
  /\ \A c \in Calls : fate[c] = "waiting" => now <= since[c] + Span
  /\ \A u \in Upstreams : opened[u] # Never =>
       \E d \in Calls : Sent(d) /\ url[d] = u /\ opened[u] <= since[d] + Span

LEMMA NextDeadline == TypeOK /\ DeadlineInv /\ [Next]_vars => DeadlineInv'
<1> SUFFICES ASSUME TypeOK, DeadlineInv, [Next]_vars PROVE DeadlineInv'
  OBVIOUS
<1> USE GuardAssumption
<1>1. ASSUME NEW c \in Calls, NEW f \in {"limited", "refused", "waiting"}, Made(c, f),
             \A u \in Upstreams : opened'[u] \in {opened[u], Never}
      PROVE  DeadlineInv'
  BY <1>1 DEF TypeOK, DeadlineInv, Made, Sent
<1>2. ASSUME NEW c \in Calls, NEW f \in {"ok", "gone"}, Over(c, f),
             \A u \in Upstreams : opened'[u] \in {opened[u], Never}
      PROVE  DeadlineInv'
  BY <1>2 DEF TypeOK, DeadlineInv, Over, Sent
<1>3. ASSUME NEW c \in Calls, Over(c, "failed"), FailCall(c) PROVE DeadlineInv'
  <2>1. \A u \in Upstreams : opened'[u] = opened[u] \/ (opened'[u] = now /\ url[c] = u)
    BY <1>3 DEF TypeOK, FailCall, Blame
  <2>2. now <= since[c] + Span
    BY <1>3 DEF Over, DeadlineInv
  <2>3. /\ \A d \in Calls : Sent(d) => Sent(d)'
        /\ \A d \in Calls : fate'[d] = "waiting" => fate[d] = "waiting"
        /\ UNCHANGED <<now, url, since>> /\ Sent(c)'
    BY <1>3 DEF Over, Sent, TypeOK
  <2>4. ASSUME NEW u \in Upstreams, opened'[u] # Never
        PROVE  \E d \in Calls : Sent(d)' /\ url[d] = u /\ opened'[u] <= since[d] + Span
    BY <2>1, <2>2, <2>3, <2>4 DEF DeadlineInv
  <2> QED
    BY <2>3, <2>4 DEF DeadlineInv, Sent
<1>4. CASE Tick
  BY <1>4 DEF TypeOK, DeadlineInv, Tick, Sent
<1>5. CASE UNCHANGED vars
  BY <1>5 DEF DeadlineInv, Sent, vars
<1> QED
  BY StepCases, <1>1, <1>2, <1>3, <1>4, <1>5
     DEF RefuseByLimit, RefuseByCircuit, Send, Pass, Succeed, Abandon, TypeOK

LEMMA NextOutage == TypeOK /\ DeadlineInv /\ OutageEnds /\ [Next]_vars => OutageEnds'
<1> SUFFICES ASSUME TypeOK, DeadlineInv, OutageEnds, [Next]_vars PROVE OutageEnds'
  OBVIOUS
<1>1. ASSUME NEW c \in Calls, NEW f \in {"limited", "waiting"}, Made(c, f) PROVE OutageEnds'
  BY <1>1 DEF TypeOK, OutageEnds, Made, Sent
<1>2. ASSUME NEW c \in Calls, Made(c, "refused"), RefuseByCircuit(c) PROVE OutageEnds'
  <2>1. PICK d \in Calls : Sent(d) /\ url[d] = url[c] /\ opened[url[c]] <= since[d] + Span
    BY <1>2 DEF DeadlineInv, RefuseByCircuit, Open, TypeOK
  <2>2. since[d] <= now /\ now < since[d] + Span + OpenFor
    BY <1>2, <2>1, GuardAssumption DEF RefuseByCircuit, Open, TypeOK
  <2>3. d # c /\ Sent(d)' /\ since'[d] = since[d] /\ since'[c] = now
    BY <1>2, <2>1 DEF Made, Sent, TypeOK
  <2> QED
    BY <1>2, <2>1, <2>2, <2>3 DEF TypeOK, OutageEnds, Made, Sent
<1>3. ASSUME NEW c \in Calls, NEW f \in {"ok", "failed", "gone"}, Over(c, f) PROVE OutageEnds'
  BY <1>3 DEF TypeOK, OutageEnds, Over, Sent
<1>4. CASE Tick \/ UNCHANGED vars
  BY <1>4 DEF OutageEnds, Sent, Tick, vars
<1> QED
  BY StepCases, <1>1, <1>2, <1>3, <1>4

(* A refusal by the breaker is never more than Span + OpenFor after a        *)
(* request that was really sent.                                             *)
THEOREM OutagesEnd == Spec => []OutageEnds
<1>1. Init => DeadlineInv /\ OutageEnds
  BY DEF Init, DeadlineInv, OutageEnds
<1>2. TypeOK /\ DeadlineInv /\ OutageEnds /\ [Next]_vars
        => TypeOK' /\ DeadlineInv' /\ OutageEnds'
  BY NextType, NextDeadline, NextOutage
<1> QED
  BY <1>1, <1>2, InitType, PTL DEF Spec
=============================================================================
