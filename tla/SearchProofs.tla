---------------------------- MODULE SearchProofs ----------------------------
(***************************************************************************)
(* Theorems about ProviderSearch, for any calls, inputs, providers and     *)
(* answers of the operator.                                                *)
(***************************************************************************)
EXTENDS ProviderSearch, FiniteSetTheorems, TLAPS

LEMMA Offered == \A R \in Replies : R \subseteq Providers
BY SearchAssumption

(* What is cut off is cut off a list; nothing is left of an empty one only. *)
LEMMA CutIsPart ==
  ASSUME NEW S \in SUBSET Providers, NEW T \in Cut(S)
  PROVE  T \subseteq S /\ (T = {} => S = {})
<1>1. IsFiniteSet(S)
  BY FS_Subset, SearchAssumption
<1>2. Cardinality(S) \in Nat
  BY <1>1, FS_CardinalityType
<1>3. T = {} => Cardinality(S) = 0
  BY <1>2, FS_EmptySet, SearchAssumption DEF Cut
<1> QED
  BY <1>1, <1>3, FS_EmptySet DEF Cut

(* What Show gives. *)
LEMMA Shows ==
  ASSUME TypeOK, NEW c \in Calls, NEW a \in Answers \ {"none"},
         NEW S \in SUBSET Providers, Show(c, a, S)
  PROVE  \E T \in SUBSET S :
           /\ T = {} => S = {}
           /\ pc' = [pc EXCEPT ![c] = "done"]
           /\ shown' = [shown EXCEPT ![c] = T]
           /\ answer' = [answer EXCEPT ![c] = IF T = {} THEN "nothing" ELSE a]
<1>1. PICK T \in Cut(S) : Give(c, IF T = {} THEN "nothing" ELSE a, T)
  BY DEF Show
<1> QED
  BY <1>1, CutIsPart DEF Give, Go

------------------------------------------------------------------------------
LEMMA InitType == Init => TypeOK
BY SearchAssumption
   DEF Init, TypeOK, Answered, Locations, Answers, Stages

(* A call that goes on, or ends. *)
LEMMA StageType ==
  ASSUME TypeOK, NEW c \in Calls, NEW p \in Stages, Go(c, p),
         \/ p # "done" /\ pc[c] # "done" /\ UNCHANGED found
         \/ p = "done" /\ \E a \in Answers \ {"none"}, S \in SUBSET Providers : Give(c, a, S)
  PROVE  /\ pc' \in [Calls -> Stages] /\ answer' \in [Calls -> Answers]
         /\ shown' \in [Calls -> SUBSET Providers] /\ Answered'
<1>1. CASE p # "done" /\ pc[c] # "done" /\ UNCHANGED found
  BY <1>1 DEF TypeOK, Answered, Go, found
<1>2. ASSUME NEW a \in Answers \ {"none"}, NEW S \in SUBSET Providers, Give(c, a, S), p = "done"
      PROVE  /\ pc' \in [Calls -> Stages] /\ answer' \in [Calls -> Answers]
             /\ shown' \in [Calls -> SUBSET Providers] /\ Answered'
  BY <1>2 DEF TypeOK, Answered, Give, Go
<1> QED
  BY <1>1, <1>2

(* The rest of the type. *)
RestType ==
  /\ now \in 1..MaxTime
  /\ expires \in [Where -> 0..(MaxTime + TTL)]
  /\ place \in [Where -> Locations]
  /\ where \in [Calls -> Where]
  /\ query \in [Calls -> Queries]
  /\ since \in [Calls -> 0..MaxTime]
  /\ sent \in [Calls -> 0..MaxTime]
  /\ loc \in [Calls -> Locations]
  /\ heard \in [Calls -> [Searches -> SUBSET Replies]]
  /\ told \in [Where -> [Locations -> 0..MaxTime]]

LEMMA JoinType ==
  ASSUME RestType', pc' \in [Calls -> Stages], answer' \in [Calls -> Answers],
         shown' \in [Calls -> SUBSET Providers], Answered'
  PROVE  TypeOK'
BY DEF TypeOK, RestType

LEMMA AskType == ASSUME TypeOK, NEW c \in Calls, Ask(c) PROVE TypeOK'
<1> USE DEF TypeOK, RestType, input
<1>1. now \in 0..MaxTime /\ 0 \in 0..MaxTime /\ 0 \in 0..(MaxTime + TTL) /\ NoCity \in Locations
  BY SearchAssumption DEF Locations
<1>2. AskInVain(c) => RestType'
  BY <1>1 DEF AskInVain
<1>3. AskCached(c) => RestType'
  BY <1>1 DEF AskCached
<1>4. AskOperator(c) => RestType'
  BY <1>1 DEF AskOperator
<1> HIDE DEF TypeOK, RestType, input
<1>5. RestType'
  BY <1>2, <1>3, <1>4 DEF Ask
<1>6. CASE AskInVain(c)
  <2>1. Go(c, "done") /\ Give(c, "no location", {})
    BY <1>6 DEF AskInVain, Give
  <2> QED
    BY <1>5, <2>1, StageType, JoinType DEF Stages, Answers
<1>7. CASE AskCached(c) \/ AskOperator(c)
  <2>1. PICK p \in {"geo", "zip", "coords"} : Go(c, p) /\ UNCHANGED found
    BY <1>7 DEF AskCached, AskOperator
  <2>2. p \in Stages /\ p # "done" /\ pc[c] # "done"
    BY <1>7 DEF Stages, Lookups, Searches, AskCached, AskOperator
  <2> QED
    BY <1>5, <2>1, <2>2, StageType, JoinType
<1> QED
  BY <1>6, <1>7 DEF Ask

LEMMA LookupType ==
  ASSUME TypeOK, NEW c \in Calls,
         \/ \E l \in Cities : HearZip(c, l)
         \/ \E l \in Locations : Tell(c, l)
         \/ HearCoords(c) \/ MissLocation(c) \/ Raise(c)
  PROVE  TypeOK'
<1>0. now \in 0..MaxTime /\ 0 \in 0..MaxTime
  BY SearchAssumption DEF TypeOK
<1>1. ASSUME NEW l \in Cities, HearZip(c, l) PROVE TypeOK'
  <2>1. RestType'
    BY <1>0, <1>1 DEF TypeOK, RestType, HearZip, Locations, input
  <2> QED
    BY <1>1, <2>1, StageType, JoinType DEF HearZip, Stages, Lookups
<1>2. ASSUME NEW l \in Locations, Tell(c, l) PROVE TypeOK'
  <2> DEFINE r == IF l = NoCity THEN loc[c] ELSE l
  <2>1. r \in Locations
    BY DEF TypeOK
  <2>2. told' = [told EXCEPT ![where[c]][r] = now] /\ loc' = [loc EXCEPT ![c] = r]
    BY <1>2 DEF Tell
  <2> HIDE DEF r
  <2>3. told' \in [Where -> [Locations -> 0..MaxTime]]
    BY <2>1, <2>2 DEF TypeOK
  <2>4. loc' \in [Calls -> Locations]
    BY <2>1, <2>2 DEF TypeOK
  <2>5. RestType'
    BY <1>2, <2>3, <2>4 DEF TypeOK, RestType, Tell, input
  <2> QED
    BY <1>2, <2>5, StageType, JoinType DEF Tell, Stages, Lookups
<1>3. CASE HearCoords(c)
  <2>1. now + TTL \in 0..(MaxTime + TTL)
    BY SearchAssumption DEF TypeOK
  <2>2. RestType'
    BY <1>3, <1>0, <2>1 DEF TypeOK, RestType, HearCoords, input
  <2> QED
    BY <1>3, <2>2, StageType, JoinType DEF HearCoords, Stages, Lookups, Searches
<1>4. CASE MissLocation(c) \/ Raise(c)
  <2>1. PICK a \in {"no location", "raised"} : Give(c, a, {})
    BY <1>4 DEF MissLocation, Raise
  <2>2. RestType'
    BY <1>4, <1>0 DEF TypeOK, RestType, MissLocation, Raise, input
  <2> QED
    BY <2>1, <2>2, StageType, JoinType DEF Give, Stages, Answers
<1> QED
  BY <1>1, <1>2, <1>3, <1>4

(* What a search came back with is its call's. *)
LEMMA Hears ==
  ASSUME TypeOK, NEW c \in Calls, NEW R \in Replies,
         SearchGeo(c, R) \/ SearchText(c, R) \/ SearchNearby(c, R)
  PROVE  /\ heard' \in [Calls -> [Searches -> SUBSET Replies]]
         /\ \A d \in Calls \ {c} : heard'[d] = heard[d]
<1>1. Hear(c, R)
  BY DEF SearchGeo, SearchText, SearchNearby
<1>2. PICK s : s = pc[c]
  OBVIOUS
<1>3. s \in Searches
  BY <1>2 DEF SearchGeo, SearchText, SearchNearby, Searches
<1>4. heard' = [heard EXCEPT ![c][s] = @ \cup {R}]
  BY <1>1, <1>2 DEF Hear
<1>5. heard \in [Calls -> [Searches -> SUBSET Replies]]
  BY DEF TypeOK
<1>6. heard[c][s] \cup {R} \in SUBSET Replies
  BY <1>3, <1>5
<1>7. [heard[c] EXCEPT ![s] = @ \cup {R}] \in [Searches -> SUBSET Replies]
  BY <1>3, <1>5, <1>6
<1> QED
  BY <1>4, <1>5, <1>7

LEMMA SearchType ==
  ASSUME TypeOK, NEW c \in Calls, NEW R \in Replies,
         SearchGeo(c, R) \/ SearchText(c, R) \/ SearchNearby(c, R)
  PROVE  TypeOK'
<1>1. R \in SUBSET Providers /\ \A S \in SUBSET R : S \in SUBSET Providers
  BY Offered
<1>2. RestType'
  BY Hears DEF TypeOK, RestType, SearchGeo, SearchText, SearchNearby, input
<1>3. ASSUME NEW a \in Answers \ {"none"}, NEW S \in SUBSET Providers, Show(c, a, S)
      PROVE  TypeOK'
  <2>1. PICK T \in Cut(S) : Give(c, IF T = {} THEN "nothing" ELSE a, T)
    BY <1>3 DEF Show
  <2>2. T \in SUBSET Providers
    BY <2>1, CutIsPart
  <2>3. Go(c, "done")
    BY <2>1 DEF Give
  <2> QED
    BY <1>2, <2>1, <2>2, <2>3, StageType, JoinType DEF Stages, Answers
<1>4. ASSUME NEW p \in Searches, Go(c, p), pc[c] \in Searches, UNCHANGED found
      PROVE  TypeOK'
  BY <1>2, <1>4, StageType, JoinType DEF Stages, Searches
<1>5. CASE SearchGeo(c, R)
  BY <1>1, <1>3, <1>4, <1>5 DEF SearchGeo, Answers, Searches
<1>6. CASE SearchText(c, R)
  BY <1>1, <1>3, <1>4, <1>6 DEF SearchText, After, Answers, Searches
<1>7. CASE SearchNearby(c, R)
  BY <1>1, <1>3, <1>7 DEF SearchNearby, Answers
<1> QED
  BY <1>5, <1>6, <1>7

LEMMA NextType == TypeOK /\ [Next]_vars => TypeOK'
<1> SUFFICES ASSUME TypeOK, [Next]_vars PROVE TypeOK'
  OBVIOUS
<1>1. CASE Tick
  BY <1>1, SearchAssumption DEF Tick, TypeOK, Answered, input, found
<1>2. ASSUME NEW c \in Calls, Ask(c) PROVE TypeOK'
  BY <1>2, AskType
<1>3. ASSUME NEW c \in Calls, Resume(c) PROVE TypeOK'
  BY <1>3, LookupType, SearchType DEF Resume
<1>4. CASE UNCHANGED vars
  BY <1>4 DEF TypeOK, Answered, vars, input, found
<1> QED
  BY <1>1, <1>2, <1>3, <1>4 DEF Next

(* A call is answered when, and only when, it is done; expiries and times    *)
(* stay within the clock and the lifetime of an entry.                       *)
THEOREM TypeCorrect == Spec => []TypeOK
BY InitType, NextType, PTL DEF Spec

------------------------------------------------------------------------------
(* The operator has spoken by now; what the cache holds it said of that very *)
(* input, one request and one lifetime before the entry expires at most.     *)
CacheInv ==
  /\ \A w \in Where, l \in Locations : told[w][l] <= now
  /\ \A w \in Where : expires[w] # 0 =>
       /\ told[w][place[w]] # 0
       /\ expires[w] <= told[w][place[w]] + Span + TTL

(* A lookup under way is within its span; an entry for its input was written *)
(* after it began; and what it was told, it was told after it asked.         *)
LookupInv(c) ==
  pc[c] \in Lookups =>
    /\ since[c] # 0 /\ since[c] <= sent[c] /\ sent[c] <= now /\ now <= sent[c] + Span
    /\ expires[where[c]] # 0 => since[c] + TTL <= expires[where[c]]
    /\ pc[c] = "located" => sent[c] <= told[where[c]][loc[c]]

UsedInv(c) ==
  Used(c) => /\ told[where[c]][loc[c]] # 0
             /\ told[where[c]][loc[c]] + TTL + Span >= since[c]

RecentInv == CacheInv /\ \A c \in Calls : LookupInv(c) /\ UsedInv(c)

(* What a step of one call may do to the others: not to them, but to what    *)
(* the operator has said and to the cache.                                   *)
Frame(c) ==
  /\ UNCHANGED <<now, where, query>>
  /\ \A d \in Calls \ {c} :
       /\ pc'[d] = pc[d] /\ since'[d] = since[d] /\ sent'[d] = sent[d]
       /\ loc'[d] = loc[d] /\ answer'[d] = answer[d] /\ shown'[d] = shown[d]
       /\ heard'[d] = heard[d]
  /\ \A w \in Where, l \in Locations : told'[w][l] \in {told[w][l], now}
  /\ \A w \in Where : expires'[w] \in {expires[w], 0, now + TTL}

LEMMA FrameKeeps ==
  ASSUME TypeOK, RecentInv, NEW c \in Calls, Frame(c)
  PROVE  \A d \in Calls \ {c} : LookupInv(d)' /\ UsedInv(d)'
<1> SUFFICES ASSUME NEW d \in Calls \ {c} PROVE LookupInv(d)' /\ UsedInv(d)'
  OBVIOUS
<1> DEFINE w == where[d]  l == loc[d]
<1>1. w \in Where /\ l \in Locations /\ where'[d] = w /\ loc'[d] = l
  BY DEF Frame, TypeOK
<1>2. /\ told[w][l] \in Nat /\ told'[w][l] \in {told[w][l], now}
      /\ expires[w] \in Nat /\ expires'[w] \in {expires[w], 0, now + TTL}
      /\ now \in Nat /\ since[d] \in Nat /\ sent[d] \in Nat /\ now # 0
  BY <1>1, SearchAssumption DEF Frame, TypeOK
<1>3. told[w][l] <= now /\ LookupInv(d) /\ UsedInv(d)
  BY <1>1 DEF RecentInv, CacheInv
<1>4. /\ pc'[d] = pc[d] /\ since'[d] = since[d] /\ sent'[d] = sent[d]
      /\ answer'[d] = answer[d] /\ now' = now
  BY DEF Frame
<1> HIDE DEF w, l
<1>5. LookupInv(d)'
  BY <1>1, <1>2, <1>3, <1>4, SearchAssumption DEF LookupInv, w, l
<1>6. UsedInv(d)'
  BY <1>1, <1>2, <1>3, <1>4, SearchAssumption DEF UsedInv, Used, w, l
<1> QED
  BY <1>5, <1>6

LEMMA JoinRecent ==
  ASSUME TypeOK, RecentInv, NEW c \in Calls, Frame(c), CacheInv', LookupInv(c)', UsedInv(c)'
  PROVE  RecentInv'
BY FrameKeeps DEF RecentInv

LEMMA AskRecent == ASSUME TypeOK, RecentInv, NEW c \in Calls, Ask(c) PROVE RecentInv'
<1> USE SearchAssumption
<1>1. where[c] \in Where /\ answer[c] = "none"
  BY DEF TypeOK, Answered, Ask, AskInVain, AskCached, AskOperator
<1>2. CASE AskInVain(c)
  BY <1>2, JoinRecent
     DEF AskInVain, Give, Go, TypeOK, RecentInv, CacheInv, LookupInv, UsedInv, Used,
         Frame, Lookups, Searches, input
<1>3. CASE AskCached(c)
  <2>1. Frame(c) /\ CacheInv'
    BY <1>3 DEF AskCached, Go, TypeOK, RecentInv, CacheInv, Frame, input, found
  <2>2. expires[where[c]] # 0 /\ now <= expires[where[c]]
    BY <1>3 DEF AskCached, Fresh, TypeOK
  <2>3. /\ pc'[c] = "geo" /\ since'[c] = now /\ loc'[c] = place[where[c]]
        /\ UNCHANGED <<where, told>>
    BY <1>3 DEF AskCached, Go, TypeOK, input
  <2>4. LookupInv(c)' /\ UsedInv(c)'
    <3>1. place[where[c]] \in Locations
      BY <1>1 DEF TypeOK
    <3>2. told[where[c]][place[where[c]]] \in Nat /\ now \in Nat /\ expires[where[c]] \in Nat
      BY <1>1, <3>1 DEF TypeOK
    <3>3. /\ told[where[c]][place[where[c]]] # 0
          /\ expires[where[c]] <= told[where[c]][place[where[c]]] + Span + TTL
      BY <1>1, <2>2 DEF RecentInv, CacheInv
    <3> QED
      BY <2>2, <2>3, <3>2, <3>3 DEF LookupInv, UsedInv, Lookups
  <2> QED
    BY <2>1, <2>4, JoinRecent
<1>4. CASE AskOperator(c)
  <2>1. Frame(c) /\ CacheInv'
    BY <1>1, <1>4 DEF AskOperator, Go, TypeOK, RecentInv, CacheInv, Frame, input, found
  <2>2. PICK p \in {"zip", "coords"} : pc'[c] = p
    BY <1>4 DEF AskOperator, Go, TypeOK
  <2>3. /\ since'[c] = now /\ sent'[c] = now /\ now' = now /\ now # 0 /\ now \in Nat
        /\ expires'[where[c]] = 0 /\ where' = where /\ answer' = answer
    BY <1>1, <1>4 DEF AskOperator, Go, TypeOK, input, found
  <2>4. LookupInv(c)' /\ UsedInv(c)'
    BY <1>1, <2>2, <2>3 DEF LookupInv, UsedInv, Used, Lookups, Searches
  <2> QED
    BY <2>1, <2>4, JoinRecent
<1> QED
  BY <1>2, <1>3, <1>4 DEF Ask

LEMMA LookupRecent ==
  ASSUME TypeOK, RecentInv, NEW c \in Calls,
         (\E l \in Cities : HearZip(c, l)) \/ (\E l \in Locations : Tell(c, l)) \/ HearCoords(c)
  PROVE  RecentInv'
<1> USE SearchAssumption
<1> DEFINE w == where[c]
<1>1. w \in Where /\ answer[c] = "none" /\ pc[c] \in Lookups /\ LookupInv(c)
  BY DEF TypeOK, Answered, RecentInv, HearZip, Tell, HearCoords, Lookups
<1>2. now \in Nat /\ since[c] \in Nat /\ sent[c] \in Nat /\ expires[w] \in Nat
  BY <1>1 DEF TypeOK
<1>3. ASSUME NEW l \in Cities, HearZip(c, l) PROVE RecentInv'
  <2>1. Frame(c) /\ CacheInv'
    BY <1>3 DEF HearZip, Go, TypeOK, RecentInv, CacheInv, Frame, input, found
  <2>2. /\ pc'[c] = "coords" /\ sent'[c] = now /\ UNCHANGED <<now, since, expires, where, answer>>
    BY <1>3 DEF HearZip, Go, TypeOK, input, found
  <2>3. LookupInv(c)' /\ UsedInv(c)'
    BY <1>1, <1>2, <2>2 DEF LookupInv, UsedInv, Used, Lookups, Searches
  <2> QED
    BY <2>1, <2>3, JoinRecent
<1>4. ASSUME NEW l \in Locations, Tell(c, l) PROVE RecentInv'
  <2> DEFINE r == IF l = NoCity THEN loc[c] ELSE l
  <2>1. r \in Locations
    BY DEF TypeOK
  <2>2. /\ told' = [told EXCEPT ![w][r] = now] /\ loc' = [loc EXCEPT ![c] = r]
        /\ pc' = [pc EXCEPT ![c] = "located"]
        /\ UNCHANGED <<now, expires, place, where, query, since, sent, answer, shown, heard>>
    BY <1>4 DEF Tell, Go, input, found
  <2> HIDE DEF r
  <2>3. \A v \in Where, k \in Locations :
          told'[v][k] = IF v = w /\ k = r THEN now ELSE told[v][k]
    BY <1>1, <2>1, <2>2 DEF TypeOK
  <2>4. Frame(c)
    BY <2>2, <2>3 DEF Frame, TypeOK
  <2>5. CacheInv'
    <3>1. \A v \in Where : place[v] \in Locations /\ expires[v] \in Nat
      BY DEF TypeOK
    <3>2. \A v \in Where, k \in Locations : told[v][k] \in Nat /\ told[v][k] <= now
      BY DEF TypeOK, RecentInv, CacheInv
    <3> QED
      BY <1>2, <2>2, <2>3, <3>1, <3>2 DEF RecentInv, CacheInv, TypeOK
  <2>6. pc'[c] = "located" /\ loc'[c] = r /\ told'[w][r] = now
    BY <1>1, <2>1, <2>2, <2>3 DEF TypeOK
  <2>7. LookupInv(c)' /\ UsedInv(c)'
    BY <1>1, <1>2, <2>2, <2>6 DEF LookupInv, UsedInv, Used, Lookups, Searches
  <2> QED
    BY <2>4, <2>5, <2>7, JoinRecent
<1>5. CASE HearCoords(c)
  <2> DEFINE t == told[w][loc[c]]
  <2>1. t \in Nat /\ loc[c] \in Locations
    BY <1>1 DEF TypeOK
  <2>2. since[c] # 0 /\ since[c] <= sent[c] /\ now <= sent[c] + Span /\ sent[c] <= t
    BY <1>1, <1>5 DEF LookupInv, HearCoords
  <2>3. /\ expires' = [expires EXCEPT ![w] = now + TTL] /\ place' = [place EXCEPT ![w] = loc[c]]
        /\ pc' = [pc EXCEPT ![c] = "geo"]
        /\ UNCHANGED <<now, where, query, since, loc, answer, shown, heard, told>>
    BY <1>5 DEF HearCoords, Go, input, found
  <2>4. Frame(c)
    BY <1>5, <2>3 DEF HearCoords, Frame, TypeOK
  <2>5. CacheInv'
    <3>1. ASSUME NEW v \in Where, expires'[v] # 0
          PROVE  told'[v][place'[v]] # 0 /\ expires'[v] <= told'[v][place'[v]] + Span + TTL
      <4>1. CASE v = w
        BY <1>1, <1>2, <2>1, <2>2, <2>3, <4>1 DEF TypeOK
      <4>2. CASE v # w
        BY <2>3, <3>1, <4>2 DEF TypeOK, RecentInv, CacheInv
      <4> QED
        BY <4>1, <4>2
    <3> QED
      BY <2>3, <3>1 DEF RecentInv, CacheInv
  <2>6. LookupInv(c)' /\ UsedInv(c)'
    <3>1. pc'[c] = "geo"
      BY <2>3 DEF TypeOK
    <3> QED
      BY <1>2, <2>1, <2>2, <2>3, <3>1 DEF LookupInv, UsedInv, Lookups
  <2> QED
    BY <2>4, <2>5, <2>6, JoinRecent
<1> QED
  BY <1>3, <1>4, <1>5

(* A search that goes on, or an end: where it is looked for stays. *)
LEMMA RestRecent ==
  ASSUME TypeOK, RecentInv, NEW c \in Calls,
         UNCHANGED <<now, expires, place, input, since, loc, told>>,
         \A d \in Calls \ {c} : /\ pc'[d] = pc[d] /\ sent'[d] = sent[d] /\ answer'[d] = answer[d]
                                /\ shown'[d] = shown[d] /\ heard'[d] = heard[d],
         pc'[c] \notin Lookups, Used(c)' => Used(c)
  PROVE  RecentInv'
<1>1. Frame(c) /\ CacheInv'
  BY DEF Frame, RecentInv, CacheInv, TypeOK, input
<1>2. LookupInv(c)' /\ UsedInv(c)'
  BY DEF RecentInv, LookupInv, UsedInv, input
<1> QED
  BY <1>1, <1>2, JoinRecent

LEMMA EndRecent ==
  ASSUME TypeOK, RecentInv, NEW c \in Calls, MissLocation(c) \/ Raise(c) PROVE RecentInv'
<1>1. PICK a \in {"no location", "raised"} : Give(c, a, {})
  BY DEF MissLocation, Raise
<1>2. pc'[c] = "done" /\ answer'[c] = a
  BY <1>1 DEF Give, Go, TypeOK
<1>3. ~Used(c)' /\ pc'[c] \notin Lookups
  BY <1>2 DEF Used, Lookups, Searches
<1>4. \A d \in Calls \ {c} : /\ pc'[d] = pc[d] /\ sent'[d] = sent[d] /\ answer'[d] = answer[d]
                             /\ shown'[d] = shown[d] /\ heard'[d] = heard[d]
  BY <1>1 DEF Give, Go, TypeOK, MissLocation, Raise
<1> QED
  BY <1>3, <1>4, RestRecent DEF MissLocation, Raise

(* A step of a provider search: on to the next attempt, or a result. *)
LEMMA SearchSteps ==
  ASSUME TypeOK, NEW c \in Calls, NEW R \in Replies,
         SearchGeo(c, R) \/ SearchText(c, R) \/ SearchNearby(c, R)
  PROVE  /\ pc[c] \in Searches /\ pc'[c] \in {"text", "city", "nearby", "done"}
         /\ UNCHANGED <<now, expires, place, input, since, sent, loc, told>>
         /\ \A d \in Calls \ {c} : /\ pc'[d] = pc[d] /\ answer'[d] = answer[d]
                                  /\ shown'[d] = shown[d] /\ heard'[d] = heard[d]
<1>1. ASSUME NEW a \in {"matches", "local", "nearby"}, NEW S \in SUBSET R, Show(c, a, S)
      PROVE  pc'[c] = "done" /\ \A d \in Calls \ {c} :
               pc'[d] = pc[d] /\ answer'[d] = answer[d] /\ shown'[d] = shown[d]
  BY <1>1 DEF Show, Give, Go, TypeOK
<1>2. ASSUME NEW p \in {"text", "city", "nearby"}, Go(c, p), UNCHANGED found
      PROVE  pc'[c] = p /\ \A d \in Calls \ {c} :
               pc'[d] = pc[d] /\ answer'[d] = answer[d] /\ shown'[d] = shown[d]
  BY <1>2 DEF Go, TypeOK, found
<1>0. \A d \in Calls \ {c} : heard'[d] = heard[d]
  BY Hears
<1>3. CASE SearchGeo(c, R)
  BY <1>0, <1>1, <1>2, <1>3 DEF SearchGeo, Searches
<1>4. CASE SearchText(c, R)
  <2>1. {p \in R : Local(c, p)} \in SUBSET R
    OBVIOUS
  <2>2. After(pc[c]) \in {"city", "nearby"}
    BY DEF After
  <2> QED
    BY <1>0, <1>1, <1>2, <1>4, <2>1, <2>2 DEF SearchText, Searches
<1>5. CASE SearchNearby(c, R)
  BY <1>0, <1>1, <1>5 DEF SearchNearby, Searches
<1> QED
  BY <1>3, <1>4, <1>5

LEMMA NextRecent == TypeOK /\ RecentInv /\ [Next]_vars => RecentInv'
<1> SUFFICES ASSUME TypeOK, RecentInv, [Next]_vars PROVE RecentInv'
  OBVIOUS
<1>1. CASE Tick
  <2>1. \A c \in Calls : where[c] \in Where /\ loc[c] \in Locations
    BY DEF TypeOK
  <2>2. now' = now + 1 /\ UNCHANGED <<expires, place, where, pc, since, sent, loc, answer, told>>
    BY <1>1 DEF Tick, input, found
  <2>3. CacheInv'
    BY <2>2 DEF RecentInv, CacheInv, TypeOK
  <2>4. ASSUME NEW c \in Calls PROVE LookupInv(c)'
    <3>1. pc[c] \in Lookups => now < sent[c] + Span
      BY <1>1 DEF Tick
    <3>2. now \in Nat /\ sent[c] \in Nat /\ Span \in Nat
      BY SearchAssumption DEF TypeOK
    <3> QED
      BY <2>2, <3>1, <3>2 DEF RecentInv, LookupInv
  <2>5. \A c \in Calls : UsedInv(c)'
    BY <2>2 DEF RecentInv, UsedInv, Used
  <2> QED
    BY <2>3, <2>4, <2>5 DEF RecentInv
<1>2. ASSUME NEW c \in Calls, Ask(c) PROVE RecentInv'
  BY <1>2, AskRecent
<1>3. ASSUME NEW c \in Calls, NEW R \in Replies,
             SearchGeo(c, R) \/ SearchText(c, R) \/ SearchNearby(c, R)
      PROVE  RecentInv'
  <2>1. Used(c) /\ pc'[c] \notin Lookups /\ UNCHANGED sent
    BY <1>3, SearchSteps DEF Used, Lookups
  <2> QED
    BY <1>3, <2>1, SearchSteps, RestRecent
<1>4. ASSUME NEW c \in Calls, Resume(c) PROVE RecentInv'
  BY <1>3, <1>4, LookupRecent, EndRecent DEF Resume
<1>5. CASE UNCHANGED vars
  BY <1>5 DEF RecentInv, CacheInv, LookupInv, UsedInv, Used, vars, input, found
<1> QED
  BY <1>1, <1>2, <1>4, <1>5 DEF Next

LEMMA InitRecent == Init => RecentInv
BY DEF Init, RecentInv, CacheInv, LookupInv, UsedInv, Used, Lookups, Searches

(* However lookups overlap, no search uses a location that the operator gave *)
(* more than the lifetime of an entry and one request before it.             *)
THEOREM Recent == Spec => []AnswersAreRecent
<1>1. RecentInv => AnswersAreRecent
  BY DEF RecentInv, UsedInv, AnswersAreRecent
<1> QED
  BY <1>1, InitType, NextType, InitRecent, NextRecent, PTL DEF Spec

(* A good entry gives way only to a lookup that began before it was written. *)
THEOREM FreshEntryStays == Spec => FreshStays
<1> DEFINE Stays ==
      \A w \in Where :
        now <= expires[w] /\ <<expires'[w], place'[w]>> # <<expires[w], place[w]>> =>
          \E c \in Calls : /\ where[c] = w
                           /\ pc[c] = "located" /\ pc'[c] = "geo"
                           /\ since[c] + TTL <= expires[w]
<1>1. TypeOK /\ RecentInv /\ [Next]_vars => [Stays]_vars
  <2> SUFFICES ASSUME TypeOK, RecentInv, [Next]_vars, NEW w \in Where, now <= expires[w],
                      <<expires'[w], place'[w]>> # <<expires[w], place[w]>>
               PROVE  \E c \in Calls : /\ where[c] = w
                                       /\ pc[c] = "located" /\ pc'[c] = "geo"
                                       /\ since[c] + TTL <= expires[w]
    OBVIOUS
  <2>1. ASSUME NEW c \in Calls, AskOperator(c) PROVE FALSE
    <3>1. where[c] # w
      BY <2>1 DEF AskOperator, Fresh
    <3> QED
      BY <2>1, <3>1 DEF AskOperator, TypeOK
  <2>2. PICK c \in Calls : HearCoords(c)
    BY <2>1, SearchSteps
       DEF Next, Tick, Ask, AskInVain, AskCached, Resume, HearZip, Tell, MissLocation, Raise, vars
  <2>3. where[c] = w /\ pc[c] = "located" /\ pc'[c] = "geo"
    BY <2>2 DEF HearCoords, Go, TypeOK
  <2>4. expires[w] # 0
    BY SearchAssumption DEF TypeOK
  <2> QED
    BY <2>3, <2>4 DEF RecentInv, LookupInv, Lookups
<1> QED
  BY <1>1, InitType, NextType, InitRecent, NextRecent, PTL DEF Spec, FreshStays

------------------------------------------------------------------------------
(* The searches that come before search s, for a call with location l. *)
Before(s, l) ==
  CASE s = "geo" -> {}
    [] s = "text" -> {"geo"}
    [] s = "city" -> {"geo", "text"}
    [] s = "nearby" /\ l = NoCity -> {"geo"}
    [] OTHER -> {"geo", "text", "city"}

(* The searches that ended, for a call that goes on with those after them. *)
InVain(c, s) ==
  /\ heard[c][s] # {}
  /\ s = "geo" => heard[c][s] = {{}}
  /\ \A R \in heard[c][s] : \A p \in R : ~Local(c, p)

(* A call has made the searches before its present one, all in vain, and no  *)
(* other; "local" comes after the first, an apology after all but the last.  *)
NoteInv(c) ==
  /\ pc[c] \in {"idle"} \cup Lookups => \A s \in Searches : heard[c][s] = {}
  /\ pc[c] \in Searches =>
       \A s \in Searches : IF s \in Before(pc[c], loc[c]) THEN InVain(c, s)
                           ELSE heard[c][s] = {}
  /\ pc[c] \in {"text", "city"} => loc[c] # NoCity
  /\ answer[c] = "local" => InVain(c, "geo")
  /\ answer[c] \in {"nearby", "nothing"} =>
       /\ \A s \in Before("nearby", loc[c]) : InVain(c, s)
       /\ \A s \in {"text", "city"} \ Before("nearby", loc[c]) : heard[c][s] = {}
  /\ answer[c] = "nothing" => heard[c]["nearby"] = {{}}

LEMMA NoteOfOthers ==
  ASSUME NEW d \in Calls, NoteInv(d),
         pc'[d] = pc[d], loc'[d] = loc[d], answer'[d] = answer[d], shown'[d] = shown[d],
         heard'[d] = heard[d], query'[d] = query[d]
  PROVE  NoteInv(d)'
BY DEF NoteInv, InVain, Local

(* A search is made once, and leaves what the earlier ones found. *)
LEMMA HearOnce ==
  ASSUME TypeOK, NEW c \in Calls, NoteInv(c), pc[c] \in Searches, NEW R, Hear(c, R),
         UNCHANGED <<loc, query>>
  PROVE  /\ \A s \in Searches : heard'[c][s] = IF s = pc[c] THEN {R} ELSE heard[c][s]
         /\ \A s \in Before(pc[c], loc[c]) : s # pc[c] /\ InVain(c, s)'
<1>1. pc[c] \notin Before(pc[c], loc[c]) /\ Before(pc[c], loc[c]) \subseteq Searches
  BY DEF Before, Searches
<1>2. heard[c][pc[c]] = {}
  BY <1>1 DEF NoteInv
<1>3. heard \in [Calls -> [Searches -> SUBSET Replies]]
  BY DEF TypeOK
<1>4. \A s \in Searches : heard'[c][s] = IF s = pc[c] THEN {R} ELSE heard[c][s]
  BY <1>2, <1>3 DEF Hear
<1>5. ASSUME NEW s \in Before(pc[c], loc[c]) PROVE s # pc[c] /\ InVain(c, s)'
  <2>1. s # pc[c] /\ s \in Searches /\ heard'[c][s] = heard[c][s]
    BY <1>1, <1>4
  <2>2. InVain(c, s)
    BY <1>1, <2>1 DEF NoteInv
  <2> QED
    BY <2>1, <2>2 DEF InVain, Local
<1> QED
  BY <1>4, <1>5

LEMMA SearchNote ==
  ASSUME TypeOK, NEW c \in Calls, NoteInv(c), NEW R \in Replies,
         SearchGeo(c, R) \/ SearchText(c, R) \/ SearchNearby(c, R)
  PROVE  NoteInv(c)'
<1>1. \A p : Local(c, p)' <=> Local(c, p)
  BY SearchSteps DEF Local, input
<1>2. pc[c] \in Searches /\ answer[c] = "none"
  BY SearchSteps DEF TypeOK, Answered, Searches
<1>3. /\ Hear(c, R) /\ UNCHANGED <<loc, query>>
      /\ \A s \in Searches : heard'[c][s] = IF s = pc[c] THEN {R} ELSE heard[c][s]
      /\ \A s \in Before(pc[c], loc[c]) : s # pc[c] /\ InVain(c, s)'
      /\ \A s \in Searches \ Before(pc[c], loc[c]) : s # pc[c] => heard'[c][s] = {}
  <2>1. Hear(c, R) /\ UNCHANGED <<loc, query>>
    BY SearchSteps DEF SearchGeo, SearchText, SearchNearby, input
  <2> QED
    BY <1>2, <2>1, HearOnce DEF NoteInv
<1>4. ASSUME NEW a \in {"matches", "local", "nearby"}, NEW S \in SUBSET R, Show(c, a, S)
      PROVE  /\ pc'[c] = "done"
             /\ S # {} => answer'[c] = a
             /\ S = {} => answer'[c] = "nothing"
             /\ answer'[c] = "nothing" => S = {}
  <2>1. S \in SUBSET Providers
    BY Offered
  <2>2. PICK T \in Cut(S) : Give(c, IF T = {} THEN "nothing" ELSE a, T)
    BY <1>4 DEF Show
  <2>3. T \subseteq S /\ (T = {} => S = {})
    BY <2>1, <2>2, CutIsPart
  <2> QED
    BY <2>2, <2>3 DEF Give, Go, TypeOK
<1>5. CASE SearchGeo(c, R)
  <2>0. pc[c] = "geo"
    BY <1>5 DEF SearchGeo
  <2>1. CASE R # {} /\ Show(c, "matches", R)
    <3>1. pc'[c] = "done" /\ answer'[c] = "matches"
      BY <1>4, <2>1
    <3> QED
      BY <3>1 DEF NoteInv, Lookups, Searches
  <2>2. CASE /\ R = {} /\ UNCHANGED found
             /\ Go(c, IF loc[c] = NoCity THEN "nearby" ELSE "text")
    <3>1. /\ pc'[c] = IF loc[c] = NoCity THEN "nearby" ELSE "text"
          /\ answer'[c] = "none"
      BY <1>2, <2>2 DEF Go, TypeOK, found
    <3>2. heard'[c]["geo"] = {{}}
      BY <1>3, <2>0, <2>2 DEF Searches
    <3>3. InVain(c, "geo")'
      BY <3>2 DEF InVain
    <3>4. \A s \in Searches : s # "geo" => heard'[c][s] = {}
      BY <1>3, <2>0 DEF Before
    <3>5. Before("text", loc[c]) = {"geo"} /\ (loc[c] = NoCity => Before("nearby", loc[c]) = {"geo"})
      BY DEF Before
    <3> QED
      BY <1>3, <3>1, <3>3, <3>4, <3>5 DEF NoteInv, Lookups, Searches, Before
  <2> QED
    BY <1>5, <2>1, <2>2 DEF SearchGeo
<1>6. CASE SearchText(c, R)
  <2> DEFINE local == {p \in R : Local(c, p)}
  <2>0. pc[c] \in {"text", "city"} /\ loc[c] # NoCity
    BY <1>6 DEF SearchText, NoteInv
  <2>1. "geo" \in Before(pc[c], loc[c])
    BY <2>0 DEF Before
  <2>2. CASE local # {} /\ Show(c, "local", local)
    <3>1. pc'[c] = "done" /\ answer'[c] = "local"
      BY <1>4, <2>2
    <3> QED
      BY <1>3, <2>1, <3>1 DEF NoteInv, Lookups, Searches
  <2>3. CASE local = {} /\ Go(c, After(pc[c])) /\ UNCHANGED found
    <3>1. pc'[c] = After(pc[c]) /\ answer'[c] = "none"
      BY <1>2, <2>3 DEF Go, TypeOK, found
    <3>2. PICK s \in {"text", "city"} : s = pc[c]
      BY <2>0
    <3>3. heard'[c][s] = {R}
      BY <1>3, <3>2 DEF Searches
    <3>4. \A p \in R : ~Local(c, p)
      BY <2>3
    <3>5. \A S \in heard'[c][s] : \A p \in S : ~Local(c, p)'
      BY <1>1, <3>3, <3>4
    <3>6. InVain(c, s)'
      BY <3>3, <3>5 DEF InVain
    <3> QED
      BY <1>3, <2>0, <3>1, <3>2, <3>6 DEF NoteInv, Lookups, Searches, After, Before
  <2> QED
    BY <1>6, <2>2, <2>3 DEF SearchText
<1>7. CASE SearchNearby(c, R)
  <2>1. pc[c] = "nearby" /\ Show(c, "nearby", R)
    BY <1>7 DEF SearchNearby
  <2>2. /\ pc'[c] = "done" /\ answer'[c] \in {"nearby", "nothing"}
        /\ answer'[c] = "nothing" => R = {}
    BY <1>4, <2>1
  <2>3. heard'[c]["nearby"] = {R}
    BY <1>3, <2>1 DEF Searches
  <2>4. \A s \in {"text", "city"} \ Before("nearby", loc[c]) : heard'[c][s] = {}
    BY <1>3, <2>1 DEF Searches
  <2> QED
    BY <1>3, <2>1, <2>2, <2>3, <2>4 DEF NoteInv, Lookups, Searches
<1> QED
  BY <1>5, <1>6, <1>7

LEMMA NextNote ==
  TypeOK /\ (\A c \in Calls : NoteInv(c)) /\ [Next]_vars => \A c \in Calls : NoteInv(c)'
<1> SUFFICES ASSUME TypeOK, \A c \in Calls : NoteInv(c), [Next]_vars, NEW d \in Calls
             PROVE  NoteInv(d)'
  OBVIOUS
<1>1. CASE Tick \/ UNCHANGED vars
  BY <1>1 DEF NoteInv, InVain, Local, Tick, vars, input, found
<1>2. ASSUME NEW c \in Calls, AskInVain(c) \/ MissLocation(c) \/ Raise(c) PROVE NoteInv(d)'
  <2>1. PICK a \in {"no location", "raised"} : Give(c, a, {})
    BY <1>2 DEF AskInVain, MissLocation, Raise
  <2>2. UNCHANGED <<loc, query, heard>>
    BY <1>2 DEF AskInVain, MissLocation, Raise, input
  <2>3. CASE d = c
    BY <2>1, <2>3 DEF Give, Go, TypeOK, NoteInv, Lookups, Searches
  <2>4. CASE d # c
    BY <2>1, <2>2, <2>4, NoteOfOthers DEF Give, Go, TypeOK
  <2> QED
    BY <2>3, <2>4
<1>3. ASSUME NEW c \in Calls,
             \/ AskCached(c) \/ AskOperator(c) \/ HearCoords(c)
             \/ (\E l \in Cities : HearZip(c, l)) \/ (\E l \in Locations : Tell(c, l))
      PROVE  NoteInv(d)'
  <2>1. PICK p \in {"zip", "coords", "located", "geo"} : Go(c, p)
    BY <1>3 DEF AskCached, AskOperator, HearCoords, HearZip, Tell
  <2>2. /\ UNCHANGED <<query, answer, shown, heard>> /\ pc[c] \in {"idle"} \cup Lookups
        /\ d # c => loc'[d] = loc[d]
    BY <1>3 DEF AskCached, AskOperator, HearCoords, HearZip, Tell, TypeOK, Lookups, input, found
  <2>3. CASE d = c
    <3>1. pc'[c] = p /\ answer'[c] = "none" /\ \A s \in Searches : heard'[c][s] = {}
      BY <2>1, <2>2 DEF NoteInv, TypeOK, Answered, Lookups, Go
    <3>2. Before("geo", loc'[c]) = {}
      BY DEF Before
    <3> QED
      BY <2>3, <3>1, <3>2 DEF NoteInv, Lookups, Searches
  <2>4. CASE d # c
    BY <2>1, <2>2, <2>4, NoteOfOthers DEF Go, TypeOK
  <2> QED
    BY <2>3, <2>4
<1>4. ASSUME NEW c \in Calls, NEW R \in Replies,
             SearchGeo(c, R) \/ SearchText(c, R) \/ SearchNearby(c, R)
      PROVE  NoteInv(d)'
  <2>1. CASE d = c
    BY <1>4, <2>1, SearchNote
  <2>2. CASE d # c
    BY <1>4, <2>2, SearchSteps, NoteOfOthers DEF input
  <2> QED
    BY <2>1, <2>2
<1> QED
  BY <1>1, <1>2, <1>3, <1>4 DEF Next, Ask, Resume

(* Nobody who passes the tests is withheld: a wider search, an apology and   *)
(* the claim that nobody was found come after the narrower ones were made in *)
(* vain.                                                                     *)
THEOREM NobodyWithheld == Spec => []NoMatchIsWithheld
<1> DEFINE I == \A c \in Calls : NoteInv(c)
<1>1. Init => I
  BY DEF Init, NoteInv, Searches
<1>2. TypeOK /\ I /\ [Next]_vars => I'
  BY NextNote
<1>3. I => NoMatchIsWithheld
  <2> SUFFICES ASSUME NEW c \in Calls, NoteInv(c)
               PROVE  /\ answer[c] \in {"local", "nearby", "nothing"} => heard[c]["geo"] = {{}}
                      /\ answer[c] \in {"nearby", "nothing"} => \A s \in {"text", "city"} :
                           /\ loc[c] # NoCity => heard[c][s] # {}
                           /\ \A R \in heard[c][s] : \A p \in R : ~Local(c, p)
                      /\ answer[c] = "nothing" => heard[c]["nearby"] = {{}}
    BY DEF NoMatchIsWithheld, Local
  <2>1. /\ "geo" \in Before("nearby", loc[c])
        /\ loc[c] # NoCity => {"text", "city"} \subseteq Before("nearby", loc[c])
    BY DEF Before
  <2> QED
    BY <2>1 DEF NoteInv, InVain
<1> QED
  BY <1>1, <1>2, <1>3, InitType, NextType, PTL DEF Spec

------------------------------------------------------------------------------
(* Weak fairness of Resume(c), with what enables it spelt out: a call in     *)
(* flight may always raise.  TLC checks the property from WF_vars(Resume(c)) *)
(* itself.                                                                   *)
Resumed(c) == []<>(pc[c] \in {"idle", "done"}) \/ []<><<Resume(c)>>_vars

(* How far a search has come. *)
Order == [idle |-> 0, zip |-> 1, coords |-> 2, located |-> 3, geo |-> 4,
          text |-> 5, city |-> 6, nearby |-> 7, done |-> 8]
Stage(c) == Order[pc[c]]

LEMMA OrderType ==
  \A p \in Stages : /\ Order[p] \in 0..8
                    /\ Order[p] = 0 <=> p = "idle"
                    /\ Order[p] = 8 <=> p = "done"
BY DEF Stages, Lookups, Searches, Order

(* A step of a search brings it to a later attempt. *)
LEMMA ResumeMovesOn ==
  ASSUME TypeOK, NEW c \in Calls, Resume(c)
  PROVE  /\ pc' = [pc EXCEPT ![c] = pc'[c]]
         /\ Stage(c) < Stage(c)'
<1> DEFINE Later(s) == Go(c, s) /\ Order[pc[c]] < Order[s]
<1>0. pc \in [Calls -> Stages] /\ pc[c] \in Stages
  BY DEF TypeOK
<1>1. ASSUME NEW l \in Cities, HearZip(c, l) PROVE Later("coords")
  BY <1>1 DEF HearZip, Order
<1>2. ASSUME NEW l \in Locations, Tell(c, l) PROVE Later("located")
  BY <1>2 DEF Tell, Order
<1>3. HearCoords(c) => Later("geo")
  BY DEF HearCoords, Order
<1>4. ASSUME Go(c, "done"), pc[c] # "done" PROVE Later("done")
  <2>1. Order[pc[c]] \in 0..8 /\ Order[pc[c]] # 8
    BY <1>0, <1>4, OrderType
  <2> QED
    BY <1>4, <2>1 DEF Order
<1>5. MissLocation(c) \/ Raise(c) => Later("done")
  BY <1>4 DEF MissLocation, Raise, Give, Lookups, Searches
<1>6. ASSUME NEW R \in Replies, SearchGeo(c, R)
      PROVE  Later("nearby") \/ Later("text") \/ Later("done")
  BY <1>4, <1>6 DEF SearchGeo, Show, Give, Order
<1>7. ASSUME NEW R \in Replies, SearchText(c, R)
      PROVE  Later("nearby") \/ Later("city") \/ Later("done")
  <2>1. pc[c] \in {"text", "city"} /\ (Go(c, "done") \/ Go(c, After(pc[c])))
    BY <1>7 DEF SearchText, Show, Give
  <2> QED
    BY <1>4, <2>1 DEF After, Order
<1>8. ASSUME NEW R \in Replies, SearchNearby(c, R) PROVE Later("done")
  BY <1>4, <1>8 DEF SearchNearby, Show, Give
<1>9. PICK s \in Stages : Later(s)
  BY <1>1, <1>2, <1>3, <1>5, <1>6, <1>7, <1>8 DEF Resume, Stages, Lookups, Searches
<1> QED
  BY <1>0, <1>9 DEF Go, Stage

(* Nothing brings it back to an earlier one. *)
LEMMA StageStep ==
  ASSUME TypeOK, [Next]_vars, NEW c \in Calls, NEW n \in 0..8, Stage(c) >= n
  PROVE  /\ Stage(c)' >= n
         /\ <<Resume(c)>>_vars => Stage(c)' >= n + 1
<1>1. pc[c] \in Stages /\ pc'[c] \in Stages
  BY NextType DEF TypeOK
<1>2. Stage(c) \in 0..8 /\ Stage(c)' \in 0..8
  BY <1>1, OrderType DEF Stage
<1>3. ASSUME NEW d \in Calls, Ask(d)
      PROVE  pc[c] = "idle" \/ pc'[c] = pc[c]
  BY <1>3 DEF TypeOK, Ask, AskInVain, AskCached, AskOperator, Give, Go
<1>4. ASSUME NEW d \in Calls, d # c, Resume(d)
      PROVE  pc'[c] = pc[c]
  BY <1>4, ResumeMovesOn DEF TypeOK
<1>5. UNCHANGED vars \/ Tick => pc'[c] = pc[c]
  BY DEF vars, Tick
<1>6. pc[c] = "idle" \/ pc'[c] = pc[c] => Stage(c) <= Stage(c)'
  BY <1>1, <1>2, OrderType DEF Stage
<1>7. Stage(c) <= Stage(c)'
  BY <1>2, <1>3, <1>4, <1>5, <1>6, ResumeMovesOn DEF Next
<1> QED
  BY <1>2, <1>7, ResumeMovesOn

(* Every search ends, if the event loop goes on resuming it: the attempts    *)
(* follow each other in one order only (search_providers).                   *)
THEOREM SearchesEnd == Spec /\ (\A c \in Calls : Resumed(c)) => EverySearchEnds
<1>1. ASSUME NEW c \in Calls
      PROVE  Spec /\ Resumed(c) => <>[](pc[c] \in {"idle", "done"})
  <2> DEFINE Ended == pc[c] \in {"idle", "done"}
             P1 == Stage(c) >= 1
             P2 == Stage(c) >= 2
             P3 == Stage(c) >= 3
             P4 == Stage(c) >= 4
             P5 == Stage(c) >= 5
             P6 == Stage(c) >= 6
             P7 == Stage(c) >= 7
             P8 == Stage(c) >= 8
  <2>0. ASSUME TypeOK
        PROVE  /\ Stage(c) >= 0
               /\ pc[c] = "idle" <=> ~(Stage(c) >= 1)
               /\ pc[c] = "done" <=> Stage(c) >= 8
    <3>1. pc[c] \in Stages
      BY <2>0 DEF TypeOK
    <3> QED
      BY <3>1, OrderType DEF Stage
  <2>1. TypeOK /\ [Next]_vars =>
          /\ P1 => P1'
          /\ P2 => P2'
          /\ P3 => P3'
          /\ P4 => P4'
          /\ P5 => P5'
          /\ P6 => P6'
          /\ P7 => P7'
          /\ P8 => P8'
    BY StageStep
  <2>2. TypeOK /\ [Next]_vars /\ <<Resume(c)>>_vars =>
          /\ P1'
          /\ P1 => P2'
          /\ P2 => P3'
          /\ P3 => P4'
          /\ P4 => P5'
          /\ P5 => P6'
          /\ P6 => P7'
          /\ P7 => P8'
    BY <2>0, StageStep
  <2>3. TypeOK => (Ended <=> ~P1 \/ P8)
    BY <2>0
  <2>4. Resumed(c) => []<>Ended \/ []<><<Resume(c)>>_vars
    BY DEF Resumed
  <2> HIDE DEF Ended, P1, P2, P3, P4, P5, P6, P7, P8
  <2>5. Spec /\ ([]<>Ended \/ []<><<Resume(c)>>_vars) => <>[]Ended
    BY <2>1, <2>2, <2>3, TypeCorrect, PTL DEF Spec
  <2> USE DEF Ended
  <2> QED
    BY <2>4, <2>5, PTL
<1> QED
  BY <1>1 DEF EverySearchEnds
=============================================================================
