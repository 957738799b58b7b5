-------------------------- MODULE OAuthStoreProofs --------------------------
(***************************************************************************)
(* Theorems about what OAuthSession's shared session entry holds and how   *)
(* long: that it outlives the access tokens, that it bounds them by the    *)
(* operator's, and that only tool calls bring old credentials back.        *)
(***************************************************************************)
EXTENDS OAuthProofs

(* The lifetimes leave room for a code, an access token and two requests. *)
Slack == CodeTTL + AccessTTL + 2 * Span <= SessionTTL

(* Request y has issued an access token or will, unless it fails; its calls  *)
(* have all ended at Due(y).                                                 *)
Owes(y) ==
  pc[y] \in {"expiry", "bounded", "issue", "reply"} \/ answer[y] = "tokens"
Due(y) ==
  (IF pc[y] \in {"expiry", "bounded"} THEN since[y] + AccessTTL ELSE access[y]) + Span

------------------------------------------------------------------------------
(* The shapes of a step, told by what it does to the requests and the store. *)

OnlyMoves(p) ==
  /\ \A q \in Procs \ {p} :
       /\ pc'[q] = pc[q] /\ sess'[q] = sess[q]
       /\ since'[q] = since[q] /\ seen'[q] = seen[q]
  /\ \A y \in Exchanges \ {p} :
       /\ access'[y] = access[y] /\ answer'[y] = answer[y]
       /\ post'[y] = post[y] /\ gave'[y] = gave[y]

OperatorStill == UNCHANGED <<upstream, post, gave, cred>>
RequestsStill == UNCHANGED <<pc, sess, since, seen, access, answer>>
LoginsStill == UNCHANGED <<login, grant>>

Still == now' = now /\ session' = session /\ RequestsStill /\ LoginsStill /\ OperatorStill

Begins(p, s) ==
  /\ pc[p] = "idle" /\ OnlyMoves(p)
  /\ sess'[p] = s /\ since'[p] = now /\ seen'[p] = seen[p]
  /\ pc'[p] \in {"expiry", "resolve", "done"}
  /\ UNCHANGED <<now, session, login, access>> /\ OperatorStill
  /\ p \in Exchanges => answer'[p] # "tokens"

(* A request at work replaces the session by credentials it received or read, *)
(* or removes what it read as expired.                                        *)
StoreWork(p) ==
  \/ session' = session
  \/ Purge(sess[p]) /\ ~Live(seen[p], now) /\ pc[p] \in {"resolved", "bounded", "merge"}
  \/ p \in Exchanges /\ pc[p] = "persist" /\ Put(sess[p], cred[p])
  \/ p \in Calls /\ pc[p] \in {"replace", "merge"} /\ pc'[p] = "done" /\ seen[p] # Absent
       /\ Put(sess[p], seen[p].val)

TokenWork(x) ==
  /\ access'[x] = access[x] \/ (pc[x] = "bounded" /\ pc'[x] = "issue")
  /\ pc'[x] = "issue" =>
       /\ access'[x] <= since[x] + AccessTTL
       /\ Live(seen[x], now) => access'[x] <= seen[x].val.until
  /\ pc'[x] \in {"upstream", "persist", "expiry", "issue", "reply", "done"}
  /\ pc'[x] = "persist" => pc[x] = "upstream" /\ post[x] = "rotated"
  /\ pc'[x] = "expiry" => pc[x] = "persist" /\ Put(sess[x], cred[x])
  /\ pc'[x] = "issue" => pc[x] = "bounded"
  /\ pc'[x] = "reply" => pc[x] = "issue"
  /\ answer'[x] = "tokens" => pc[x] = "reply" /\ pc'[x] = "done"
  /\ pc'[x] = "reply" \/ refresh' = refresh
  /\ \/ pc'[x] = "upstream" /\ pc[x] = "resolved" /\ Live(seen[x], now)
          /\ post'[x] = "sent" /\ gave'[x] = seen[x].val.gen
     \/ pc'[x] # "upstream" /\ post'[x] = post[x] /\ gave'[x] = gave[x]

CallWork(c) ==
  /\ pc'[c] \in {"replace", "reread", "done"}
  /\ pc'[c] \in {"replace", "reread"} => pc[c] = "resolved"
  /\ UNCHANGED <<access, answer, post, gave>>

Works(p) ==
  /\ InFlight(p) /\ OnlyMoves(p)
  /\ UNCHANGED <<now, sess, since, seen, upstream, cred>> /\ LoginsStill
  /\ StoreWork(p)
  /\ p \in Exchanges => TokenWork(p)
  /\ p \in Calls => CallWork(p)

LEMMA ExchangeWorks ==
  ASSUME TypeOK, NEW x \in Exchanges,
         \/ SessionLost(x) \/ SendRefresh(x) \/ RefreshRefused(x) \/ HearRotation(x)
         \/ HearFailure(x) \/ Persist(x) \/ BoundAccess(x) \/ Issue(x) \/ Deliver(x)
  PROVE  Works(x)
<1> USE OAuthAssumption DEF Procs
<1>0. x \notin Calls /\ x \in Procs
  OBVIOUS
<1>1. InFlight(x) /\ UNCHANGED <<now, sess, since, seen, cred>> /\ LoginsStill
      /\ upstream' = upstream
  BY DEF SessionLost, SendRefresh, RefreshRefused, HearRotation, HearFailure, Persist,
         BoundAccess, Issue, Deliver, InFlight, LoginsStill
<1>2. \A q \in Procs \ {x} : pc'[q] = pc[q]
  BY DEF SessionLost, SendRefresh, RefreshRefused, HearRotation, HearFailure, Persist,
         BoundAccess, Issue, Deliver, Reply, Goto, TypeOK
<1>3. \A y \in Exchanges \ {x} :
        /\ access'[y] = access[y] /\ answer'[y] = answer[y]
        /\ post'[y] = post[y] /\ gave'[y] = gave[y]
  BY DEF SessionLost, SendRefresh, RefreshRefused, HearRotation, HearFailure, Persist,
         BoundAccess, Issue, Deliver, Reply, Goto, TypeOK
<1>4. OnlyMoves(x)
  BY <1>1, <1>2, <1>3 DEF OnlyMoves
<1>5. StoreWork(x)
  BY <1>0 DEF SessionLost, SendRefresh, RefreshRefused, HearRotation, HearFailure, Persist,
         BoundAccess, Issue, Deliver, StoreWork
<1>6. TokenWork(x)
  <2>0. since[x] + AccessTTL \in Nat /\ pc'[x] \in Labels
        /\ (Live(seen[x], now) => seen[x].val.until \in Nat)
    BY NextType, LiveCreds DEF TypeOK, Creds, Next, vars, Exchange
  <2>1. CASE SessionLost(x) \/ RefreshRefused(x) \/ HearFailure(x)
    BY <2>1 DEF SessionLost, RefreshRefused, HearFailure, Reply, Goto, TypeOK, TokenWork
  <2>2. CASE SendRefresh(x)
    BY <2>2 DEF SendRefresh, Goto, TypeOK, ShapeOK, TokenWork
  <2>3. CASE HearRotation(x) \/ Persist(x) \/ Issue(x)
    BY <2>3 DEF HearRotation, Persist, Issue, Goto, TypeOK, ShapeOK, TokenWork
  <2>4. CASE BoundAccess(x)
    BY <2>0, <2>4 DEF BoundAccess, Goto, TypeOK, ShapeOK, TokenWork
  <2>5. CASE Deliver(x)
    BY <2>5 DEF Deliver, Reply, Goto, TypeOK, TokenWork
  <2> QED
    BY <2>1, <2>2, <2>3, <2>4, <2>5
<1> QED
  BY <1>0, <1>1, <1>4, <1>5, <1>6 DEF Works

LEMMA CallWorks ==
  ASSUME TypeOK, NEW c \in Calls, UseProfile(c) \/ ReplaceProfile(c) \/ MergeProfile(c)
  PROVE  Works(c)
<1> USE OAuthAssumption DEF Procs
<1>0. c \notin Exchanges /\ c \in Procs
  OBVIOUS
<1>1. InFlight(c) /\ UNCHANGED <<now, sess, since, seen, cred>> /\ LoginsStill
      /\ upstream' = upstream /\ UNCHANGED <<access, answer, post, gave>>
  BY DEF UseProfile, ReplaceProfile, MergeProfile, InFlight, LoginsStill
<1>2. OnlyMoves(c)
  BY <1>1 DEF UseProfile, ReplaceProfile, MergeProfile, Goto, TypeOK, OnlyMoves
<1>3. StoreWork(c)
  <2>1. pc[c] = "replace" => seen[c] # Absent
    BY DEF TypeOK, ShapeOK
  <2>2. Live(seen[c], now) => seen[c] # Absent
    BY LiveCreds DEF TypeOK
  <2> QED
    BY <2>1, <2>2 DEF UseProfile, ReplaceProfile, MergeProfile, Goto, TypeOK, StoreWork
<1>4. CallWork(c)
  BY <1>1 DEF UseProfile, ReplaceProfile, MergeProfile, Goto, TypeOK, CallWork
<1> QED
  BY <1>0, <1>1, <1>2, <1>3, <1>4 DEF Works

LEMMA FailWorks ==
  ASSUME TypeOK, NEW p \in Procs, Fail(p)
  PROVE  Works(p)
<1> USE OAuthAssumption DEF Procs
<1>1. InFlight(p) /\ UNCHANGED <<now, session, sess, since, seen, cred>> /\ LoginsStill
      /\ UNCHANGED <<upstream, access, post, gave, refresh>>
  BY DEF Fail, LoginsStill
<1>2. pc'[p] = "done" /\ \A q \in Procs \ {p} : pc'[q] = pc[q]
  BY DEF Fail, Goto, TypeOK
<1>3. p \in Exchanges => /\ answer'[p] = "error"
                         /\ \A y \in Exchanges \ {p} : answer'[y] = answer[y]
  BY DEF Fail, TypeOK
<1>4. p \in Calls => answer' = answer
  BY DEF Fail
<1>5. OnlyMoves(p) /\ StoreWork(p)
  BY <1>1, <1>2, <1>3, <1>4 DEF OnlyMoves, StoreWork
<1>6. p \in Exchanges => TokenWork(p)
  BY <1>1, <1>2, <1>3 DEF TokenWork
<1>7. p \in Calls => CallWork(p)
  BY <1>1, <1>2, <1>4 DEF CallWork
<1> QED
  BY <1>1, <1>5, <1>6, <1>7 DEF Works

(* Beginning a request, for each kind. *)
LEMMA CodeBegins ==
  ASSUME TypeOK, NEW x \in Exchanges, NEW s \in Sessions, RedeemCode(x, s)
  PROVE  /\ Begins(x, s) /\ grant' = [grant EXCEPT ![s] = Absent]
         /\ pc'[x] = "expiry" => Live(grant[s], now)
         /\ pc'[x] # "resolve"
BY OAuthAssumption
   DEF RedeemCode, Start, Goto, Reply, TypeOK, ShapeOK, Procs, Begins, OnlyMoves, OperatorStill

LEMMA RefreshBegins ==
  ASSUME TypeOK, NEW x \in Exchanges, NEW y \in Exchanges, RedeemRefresh(x, y)
  PROVE  /\ Begins(x, sess[y]) /\ UNCHANGED grant /\ pc[y] = "done"
         /\ pc'[x] # "expiry"
BY OAuthAssumption
   DEF RedeemRefresh, Start, Goto, Reply, TypeOK, ShapeOK, Procs, Begins, OnlyMoves,
       OperatorStill

LEMMA CallBegins ==
  ASSUME TypeOK, NEW c \in Calls, NEW y \in Exchanges, CallTool(c, y)
  PROVE  /\ Begins(c, sess[y]) /\ UNCHANGED <<grant, answer>>
         /\ pc[y] = "done" /\ answer[y] = "tokens" /\ now < access[y]
         /\ pc'[c] = "resolve"
BY OAuthAssumption
   DEF CallTool, Start, Goto, TypeOK, ShapeOK, Procs, Begins, OnlyMoves, OperatorStill

LEMMA ReadMoves ==
  ASSUME TypeOK, NEW p \in Procs, ReadSession(p)
  PROVE  /\ OnlyMoves(p) /\ seen'[p] = session[sess[p]]
         /\ \/ pc[p] = "resolve" /\ pc'[p] = "resolved"
            \/ pc[p] = "expiry" /\ pc'[p] = "bounded"
            \/ pc[p] = "reread" /\ pc'[p] = "merge"
         /\ UNCHANGED <<now, session, sess, since, access, answer>>
         /\ LoginsStill /\ OperatorStill
BY OAuthAssumption, ReadLabels
   DEF ReadSession, Goto, TypeOK, Procs, OnlyMoves, LoginsStill, OperatorStill

(* The ways to step. *)
LEMMA Shapes ==
  ASSUME TypeOK, [Next]_vars
  PROVE  \/ Still
         \/ \E s \in Sessions : StoreSession(s) \/ StoreGrant(s) \/ LoginFails(s)
         \/ \E x \in Exchanges, s \in Sessions : RedeemCode(x, s)
         \/ \E x, y \in Exchanges : RedeemRefresh(x, y)
         \/ \E c \in Calls, y \in Exchanges : CallTool(c, y)
         \/ \E p \in Procs : ReadSession(p)
         \/ \E p \in Procs : Works(p)
         \/ \E x \in Exchanges : OperatorRotates(x) \/ OperatorRejects(x)
         \/ Tick
<1>1. CASE UNCHANGED vars
  BY <1>1 DEF vars, Still, RequestsStill, LoginsStill, OperatorStill
<1>2. ASSUME NEW y \in Exchanges, Revoke(y) PROVE Still
  BY <1>2 DEF Revoke, Still, RequestsStill, LoginsStill, OperatorStill
<1> QED
  BY <1>1, <1>2, NextCases, ExchangeWorks, CallWorks, FailWorks DEF Procs

------------------------------------------------------------------------------
(* When requests began, and how long the tokens they issued last. *)
ClockInv ==
  /\ \A p \in Procs : since[p] <= now /\ (InFlight(p) => now <= since[p] + Span)
  /\ \A x \in Exchanges : access[x] <= since[x] + AccessTTL

LEMMA NextClock == TypeOK /\ ClockInv /\ [Next]_vars => ClockInv'
<1> SUFFICES ASSUME TypeOK, ClockInv, [Next]_vars PROVE ClockInv'
  OBVIOUS
<1> USE OAuthAssumption DEF Procs
<1>0. now \in Nat /\ now' \in Nat /\ since \in [Procs -> Nat] /\ access \in [Exchanges -> Nat]
  BY NextType DEF TypeOK
<1>1. CASE UNCHANGED <<now, pc, since, access>>
  BY <1>0, <1>1 DEF ClockInv, InFlight
<1>2. ASSUME NEW p \in Procs, NEW s, Begins(p, s) PROVE ClockInv'
  BY <1>0, <1>2 DEF Begins, OnlyMoves, ClockInv, InFlight
<1>3. ASSUME NEW p \in Procs, InFlight(p), OnlyMoves(p), UNCHANGED <<now, since>>,
             p \in Exchanges => \/ access'[p] = access[p]
                                \/ access'[p] <= since[p] + AccessTTL
      PROVE  ClockInv'
  <2>1. \A q \in Procs : since'[q] = since[q] /\ (InFlight(q)' => InFlight(q))
    BY <1>3 DEF OnlyMoves, InFlight
  <2>2. \A x \in Exchanges : access'[x] <= since[x] + AccessTTL
    BY <1>3 DEF OnlyMoves, ClockInv
  <2> QED
    BY <1>3, <2>1, <2>2 DEF ClockInv
<1>4. ASSUME NEW p \in Procs, ReadSession(p) PROVE ClockInv'
  <2>1. InFlight(p)
    BY <1>4, ReadMoves DEF InFlight
  <2> QED
    BY <1>3, <1>4, <2>1, ReadMoves
<1>5. ASSUME NEW p \in Procs, Works(p) PROVE ClockInv'
  BY <1>3, <1>5 DEF Works, TokenWork
<1>6. CASE Tick
  BY <1>0, <1>6 DEF Tick, ClockInv, InFlight
<1>7. ASSUME NEW s \in Sessions, StoreSession(s) \/ StoreGrant(s) \/ LoginFails(s)
      PROVE  ClockInv'
  BY <1>1, <1>7 DEF StoreSession, StoreGrant, LoginFails
<1>8. ASSUME NEW x \in Exchanges, OperatorRotates(x) \/ OperatorRejects(x)
      PROVE  ClockInv'
  BY <1>1, <1>8 DEF OperatorRotates, OperatorRejects
<1>9. CASE Still
  BY <1>1, <1>9 DEF Still, RequestsStill
<1> QED
  BY Shapes, <1>2, <1>4, <1>5, <1>6, <1>7, <1>8, <1>9, CodeBegins, RefreshBegins, CallBegins

(* Until its code is presented or gone, a login is nobody else's concern. *)
FreshInv == \A s \in Sessions : Unspent(s) => \A p \in Procs : sess[p] # s

LEMMA NextFresh == TypeOK /\ FreshInv /\ [Next]_vars => FreshInv'
<1> SUFFICES ASSUME TypeOK, FreshInv, [Next]_vars, NEW s \in Sessions, Unspent(s)'
             PROVE  \A p \in Procs : sess'[p] # s
  BY DEF FreshInv
<1> USE OAuthAssumption DEF Procs
<1> DEFINE Goal == \A p \in Procs : sess'[p] # s
<1>1. CASE UNCHANGED <<sess, login, grant>>
  BY <1>1 DEF FreshInv, Unspent
<1>2. ASSUME NEW t \in Sessions, StoreSession(t) \/ StoreGrant(t) \/ LoginFails(t)
      PROVE  Goal
  <2>1. Unspent(s)
    BY <1>2 DEF StoreSession, StoreGrant, LoginFails, Unspent, TypeOK
  <2> QED
    BY <1>2, <2>1 DEF StoreSession, StoreGrant, LoginFails, FreshInv
<1>3. ASSUME NEW x \in Exchanges, NEW t \in Sessions, RedeemCode(x, t) PROVE Goal
  <2>1. UNCHANGED login /\ grant' = [grant EXCEPT ![t] = Absent] /\ login[t] = "granted"
    BY <1>3, CodeBegins DEF Begins, RedeemCode
  <2>2. s # t /\ Unspent(s)
    BY <2>1 DEF Unspent, TypeOK
  <2> QED
    BY <1>3, <2>2, CodeBegins DEF Begins, OnlyMoves, FreshInv
<1>4. ASSUME NEW p \in Procs, NEW y \in Exchanges, Begins(p, sess[y]), UNCHANGED grant
      PROVE  Goal
  <2>1. Unspent(s)
    BY <1>4 DEF Begins, Unspent
  <2> QED
    BY <1>4, <2>1 DEF Begins, OnlyMoves, FreshInv
<1>5. ASSUME NEW p \in Procs, ReadSession(p) PROVE Goal
  BY <1>1, <1>5, ReadMoves DEF LoginsStill
<1>6. ASSUME NEW p \in Procs, Works(p) PROVE Goal
  BY <1>1, <1>6 DEF Works, LoginsStill
<1>7. ASSUME NEW x \in Exchanges, OperatorRotates(x) \/ OperatorRejects(x) PROVE Goal
  BY <1>1, <1>7 DEF OperatorRotates, OperatorRejects
<1>8. CASE Tick \/ Still
  BY <1>1, <1>8 DEF Tick, Still, RequestsStill, LoginsStill
<1> QED
  BY Shapes, <1>2, <1>3, <1>4, <1>5, <1>6, <1>7, <1>8, RefreshBegins, CallBegins

------------------------------------------------------------------------------
(* Entry e lasts until d, or d is past. *)
Covers(e, d) == d <= e.exp \/ d <= now

(* A stored login outlasts its code by an access token's life and a request. *)
LoginInv ==
  \A s \in Sessions :
    /\ login[s] # "granted" => grant[s] = Absent
    /\ login[s] = "stored" => now + SessionTTL <= session[s].exp + Span
    /\ grant[s] # Absent =>
         grant[s].exp + SessionTTL <= session[s].exp + CodeTTL + Span

(* A session outlives every token that is or will be issued for it, and so   *)
(* did what a request has read of it.                                        *)
CoverInv ==
  \A y \in Exchanges : Owes(y) => Covers(session[sess[y]], Due(y))
SeenInv ==
  \A x, y \in Exchanges :
    (pc[x] \in {"resolved", "bounded"} /\ Owes(y) /\ sess[x] = sess[y]) =>
      Covers(seen[x], Due(y))

(* A call began before its access token ran out, and read a session that     *)
(* outlives the token.                                                       *)
CallInv ==
  \A c \in Calls : InFlight(c) =>
    \E y \in Exchanges :
      /\ sess[c] = sess[y] /\ answer[y] = "tokens" /\ since[c] < access[y]
      /\ pc[c] \in {"resolved", "merge"} => Covers(seen[c], Due(y))

HeldInv == LoginInv /\ CoverInv /\ SeenInv /\ CallInv

(* The numbers the invariants compare. *)
LEMMA Numbers ==
  ASSUME TypeOK
  PROVE  /\ now \in Nat
         /\ \A s \in Sessions : session[s].exp \in Nat /\ grant[s].exp \in Nat
         /\ \A p \in Procs : since[p] \in Nat /\ seen[p].exp \in Nat
         /\ \A y \in Exchanges : access[y] \in Nat /\ Due(y) \in Nat
         /\ CodeTTL \in Nat /\ SessionTTL \in Nat /\ AccessTTL \in Nat /\ Span \in Nat
<1>1. \A S, e : e \in Entries(S) => e.exp \in Nat
  BY DEF Entries, Absent
<1>2. \A y \in Exchanges : Due(y) \in Nat
  BY OAuthAssumption DEF TypeOK, Due, Procs
<1> QED
  BY <1>1, <1>2, OAuthAssumption DEF TypeOK

(* A request that owes or owed a token has a session, and owes it for no     *)
(* longer than a stored session lasts.                                       *)
LEMMA Owing ==
  ASSUME TypeOK, NEW y \in Exchanges, Owes(y)
  PROVE  sess[y] \in Sessions /\ pc[y] # "idle"
BY SessionOf DEF Owes, TypeOK, ShapeOK, Procs

LEMMA DueBound ==
  ASSUME TypeOK, ClockInv, NEW y \in Exchanges
  PROVE  Due(y) <= now + AccessTTL + Span
BY Numbers DEF ClockInv, Due, Procs

(* With room in the lifetimes, a call finds its session live. *)
LEMMA CallFindsSession ==
  ASSUME TypeOK, ClockInv, CallInv, NEW c \in Calls, pc[c] \in {"resolved", "merge"}
  PROVE  Live(seen[c], now)
<1>1. InFlight(c) /\ c \in Procs
  BY DEF InFlight, Procs
<1>2. PICK y \in Exchanges : /\ answer[y] = "tokens" /\ since[c] < access[y]
                             /\ Covers(seen[c], Due(y))
  BY <1>1 DEF CallInv
<1>3. Due(y) = access[y] + Span
  BY <1>2 DEF Due, TypeOK, ShapeOK
<1>4. now <= since[c] + Span
  BY <1>1 DEF ClockInv
<1>5. now < Due(y)
  BY <1>1, <1>2, <1>3, <1>4, Numbers
<1> QED
  BY <1>1, <1>2, <1>5, Numbers DEF Covers, Live

(* Nothing is owed for longer than before. *)
NoneOwesMore ==
  \A y \in Exchanges : Owes(y)' =>
    Owes(y) /\ sess'[y] = sess[y] /\ Due(y)' <= Due(y)

LEMMA HeldWhileStill ==
  ASSUME HeldInv, UNCHANGED <<now, session, login, grant, pc, sess, since, seen,
                              access, answer>>
  PROVE  HeldInv'
BY DEF HeldInv, LoginInv, CoverInv, SeenInv, CallInv, Owes, Due, Covers, InFlight

LEMMA HeldByLogin ==
  ASSUME TypeOK, FreshInv, HeldInv, NEW s \in Sessions,
         StoreSession(s) \/ StoreGrant(s) \/ LoginFails(s)
  PROVE  HeldInv'
<1>1. now' = now /\ RequestsStill /\ Unspent(s)
  BY DEF StoreSession, StoreGrant, LoginFails, RequestsStill, Unspent
<1>2. \A t \in Sessions \ {s} :
        session'[t] = session[t] /\ login'[t] = login[t] /\ grant'[t] = grant[t]
  BY DEF StoreSession, StoreGrant, LoginFails, Put, TypeOK
<1>3. \A p \in Procs : sess[p] # s
  BY <1>1 DEF FreshInv
<1>4. CoverInv'
  <2>1. ASSUME NEW y \in Exchanges, Owes(y)
        PROVE  session'[sess[y]] = session[sess[y]]
    BY <1>2, <1>3, <2>1, Owing DEF Procs
  <2> QED
    BY <1>1, <2>1 DEF HeldInv, CoverInv, Owes, Due, Covers, RequestsStill
<1>5. SeenInv' /\ CallInv'
  BY <1>1 DEF HeldInv, SeenInv, CallInv, Owes, Due, Covers, InFlight, RequestsStill
<1>6. LoginInv'
  <2>1. /\ login'[s] # "granted" => grant'[s] = Absent
        /\ login'[s] = "stored" => now + SessionTTL <= session'[s].exp + Span
        /\ grant'[s] # Absent =>
             grant'[s].exp + SessionTTL <= session'[s].exp + CodeTTL + Span
    <3>1. CASE StoreSession(s)
      <4>1. /\ login'[s] = "stored" /\ grant'[s] = Absent
            /\ session'[s].exp = now + SessionTTL
        BY <3>1 DEF StoreSession, HeldInv, LoginInv, Put, Item, TypeOK
      <4> QED
        BY <4>1, Numbers
    <3>2. CASE StoreGrant(s)
      <4>1. /\ login'[s] = "granted" /\ grant'[s].exp = now + CodeTTL
            /\ session'[s] = session[s] /\ now + SessionTTL <= session[s].exp + Span
        BY <3>2 DEF StoreGrant, HeldInv, LoginInv, Item, TypeOK
      <4> QED
        BY <4>1, Numbers
    <3>3. CASE LoginFails(s)
      BY <3>3 DEF LoginFails, HeldInv, LoginInv, TypeOK
    <3> QED
      BY <3>1, <3>2, <3>3
  <2> QED
    BY <1>1, <1>2, <2>1 DEF HeldInv, LoginInv
<1> QED
  BY <1>4, <1>5, <1>6 DEF HeldInv

(* A request begins: it owes nothing yet, or a code's session covers it.     *)
LEMMA HeldAtBegin ==
  ASSUME TypeOK, TypeOK', HeldInv, NEW p \in Procs, NEW s \in Sessions, Begins(p, s),
         \A t \in Sessions : grant'[t] \in {grant[t], Absent},
         \A t \in Sessions : login[t] # "granted" => grant'[t] = grant[t],
         p \in Exchanges /\ pc'[p] = "expiry" =>
           /\ now + AccessTTL + Span <= session[s].exp
           /\ \A q \in Procs : sess[q] # s,
         p \in Calls => /\ pc'[p] = "resolve" /\ answer' = answer
                        /\ \E y \in Exchanges :
                             sess[y] = s /\ answer[y] = "tokens" /\ now < access[y]
  PROVE  HeldInv'
<1> USE OAuthAssumption DEF Procs
<1>1. LoginInv'
  BY DEF Begins, HeldInv, LoginInv
<1>2. \A y \in Exchanges \ {p} : /\ Owes(y)' <=> Owes(y)
                                 /\ sess'[y] = sess[y] /\ Due(y)' = Due(y)
  BY DEF Begins, OnlyMoves, Owes, Due
<1>3. CoverInv'
  <2> SUFFICES ASSUME NEW y \in Exchanges, Owes(y)'
               PROVE  Covers(session[sess'[y]], Due(y)')
    BY DEF Begins, CoverInv, Covers
  <2>1. CASE y # p
    BY <1>2, <2>1 DEF HeldInv, CoverInv
  <2>2. CASE y = p
    <3>1. pc'[y] = "expiry"
      BY <2>2 DEF Begins, Owes
    <3> QED
      BY <2>2, <3>1 DEF Begins, Due, Covers
  <2> QED
    BY <2>1, <2>2
<1>4. SeenInv'
  <2> SUFFICES ASSUME NEW x \in Exchanges, NEW y \in Exchanges, Owes(y)',
                      pc'[x] \in {"resolved", "bounded"}, sess'[x] = sess'[y]
               PROVE  Covers(seen'[x], Due(y)')
    BY DEF Begins, SeenInv, Covers
  <2>1. x # p /\ pc[x] = pc'[x] /\ sess'[x] = sess[x] /\ seen'[x] = seen[x]
    BY DEF Begins, OnlyMoves
  <2>2. CASE y # p
    BY <1>2, <2>1, <2>2 DEF HeldInv, SeenInv
  <2>3. CASE y = p
    BY <2>1, <2>3 DEF Begins, Owes
  <2> QED
    BY <2>2, <2>3
<1>5. CallInv'
  <2> SUFFICES ASSUME NEW c \in Calls, InFlight(c)'
               PROVE  \E y \in Exchanges :
                        /\ sess'[c] = sess'[y] /\ answer'[y] = "tokens"
                        /\ since'[c] < access[y]
                        /\ pc'[c] \in {"resolved", "merge"} => Covers(seen'[c], Due(y)')
    BY DEF Begins, CallInv, Covers
  <2>0. ASSUME NEW y \in Exchanges, answer[y] = "tokens"
        PROVE  y # p /\ answer'[y] = "tokens" /\ sess'[y] = sess[y] /\ Due(y)' = Due(y)
    BY <1>2, <2>0 DEF Begins, OnlyMoves, TypeOK, ShapeOK
  <2>1. CASE c # p
    <3>1. /\ InFlight(c) /\ sess'[c] = sess[c] /\ since'[c] = since[c]
          /\ pc'[c] = pc[c] /\ seen'[c] = seen[c]
      BY <2>1 DEF Begins, OnlyMoves, InFlight
    <3> QED
      BY <2>0, <3>1 DEF HeldInv, CallInv
  <2>2. CASE c = p
    BY <2>0, <2>2 DEF Begins
  <2> QED
    BY <2>1, <2>2
<1> QED
  BY <1>1, <1>3, <1>4, <1>5 DEF HeldInv

LEMMA HeldByRead ==
  ASSUME TypeOK, HeldInv, NEW p \in Procs, ReadSession(p)
  PROVE  HeldInv'
<1> USE OAuthAssumption DEF Procs
<1>0. /\ OnlyMoves(p) /\ seen'[p] = session[sess[p]]
      /\ UNCHANGED <<now, session, login, grant, sess, since, access, answer>>
  BY ReadMoves DEF LoginsStill
<1>1. LoginInv'
  BY <1>0 DEF HeldInv, LoginInv
<1>2. \A y \in Exchanges : (Owes(y)' <=> Owes(y)) /\ Due(y)' = Due(y)
  BY <1>0, ReadMoves DEF OnlyMoves, Owes, Due
<1>3. CoverInv'
  BY <1>0, <1>2 DEF HeldInv, CoverInv, Covers
<1>4. SeenInv'
  <2> SUFFICES ASSUME NEW x \in Exchanges, NEW y \in Exchanges, Owes(y),
                      pc'[x] \in {"resolved", "bounded"}, sess[x] = sess[y]
               PROVE  Covers(seen'[x], Due(y))
    BY <1>0, <1>2 DEF SeenInv, Covers
  <2>1. CASE x = p
    BY <1>0, <2>1 DEF HeldInv, CoverInv
  <2>2. CASE x # p
    BY <1>0, <2>2 DEF OnlyMoves, HeldInv, SeenInv
  <2> QED
    BY <2>1, <2>2
<1>5. CallInv'
  <2> SUFFICES ASSUME NEW c \in Calls, InFlight(c)'
               PROVE  \E y \in Exchanges :
                        /\ sess[c] = sess[y] /\ answer[y] = "tokens"
                        /\ since[c] < access[y]
                        /\ pc'[c] \in {"resolved", "merge"} => Covers(seen'[c], Due(y))
    BY <1>0, <1>2 DEF CallInv, Covers
  <2>1. InFlight(c)
    BY <1>0, ReadMoves DEF OnlyMoves, InFlight
  <2>2. PICK y \in Exchanges :
          /\ sess[c] = sess[y] /\ answer[y] = "tokens" /\ since[c] < access[y]
          /\ pc[c] \in {"resolved", "merge"} => Covers(seen[c], Due(y))
    BY <2>1 DEF HeldInv, CallInv
  <2>3. Covers(session[sess[c]], Due(y))
    BY <2>2 DEF HeldInv, CoverInv, Owes
  <2> QED
    BY <1>0, <2>2, <2>3 DEF OnlyMoves
<1> QED
  BY <1>1, <1>3, <1>4, <1>5 DEF HeldInv

(* What is put lasts for all that is owed; what is removed was owed to none. *)
LEMMA StoreStillCovers ==
  ASSUME TypeOK, ClockInv, Slack, HeldInv, NEW p \in Procs, Works(p),
         NEW y \in Exchanges, Owes(y)
  PROVE  Covers(session'[sess[y]], Due(y))
<1> USE OAuthAssumption DEF Procs
<1>1. CASE session'[sess[y]] = session[sess[y]]
  BY <1>1 DEF HeldInv, CoverInv
<1>2. CASE session'[sess[y]].exp = now + SessionTTL
  BY <1>2, Numbers, DueBound DEF Covers, Slack
<1>3. CASE sess[y] = sess[p] /\ session'[sess[y]] = Absent
           /\ ~Live(seen[p], now) /\ pc[p] \in {"resolved", "bounded", "merge"}
  <2>1. p \in Exchanges
    BY <1>3, CallFindsSession DEF HeldInv, TypeOK, ShapeOK
  <2>2. pc[p] \in {"resolved", "bounded"}
    BY <1>3, <2>1 DEF TypeOK, ShapeOK, Exchanging
  <2>3. Covers(seen[p], Due(y))
    BY <1>3, <2>1, <2>2 DEF HeldInv, SeenInv
  <2>4. seen[p].exp <= now
    BY <1>3, Numbers DEF Live
  <2> QED
    BY <2>3, <2>4, Numbers DEF Covers
<1>4. \/ session'[sess[y]] = session[sess[y]]
      \/ session'[sess[y]].exp = now + SessionTTL
      \/ /\ sess[y] = sess[p] /\ session'[sess[y]] = Absent
         /\ ~Live(seen[p], now) /\ pc[p] \in {"resolved", "bounded", "merge"}
  BY Owing DEF Works, StoreWork, Put, Purge, Item, TypeOK
<1> QED
  BY <1>1, <1>2, <1>3, <1>4

LEMMA HeldByWork ==
  ASSUME TypeOK, TypeOK', OneRefreshRight, ClockInv, FreshInv, Slack, HeldInv,
         NEW p \in Procs, Works(p)
  PROVE  HeldInv'
<1> USE OAuthAssumption DEF Procs
<1>0. /\ OnlyMoves(p) /\ InFlight(p)
      /\ UNCHANGED <<now, login, grant, sess, since, seen>>
  BY DEF Works, LoginsStill
<1>1. sess[p] \in Sessions
  BY <1>0, SessionOf DEF InFlight
<1>2. \A y \in Exchanges : Owes(y)' =>
        \/ Owes(y) /\ Due(y)' <= Due(y)
        \/ /\ y = p /\ pc[p] = "persist" /\ Put(sess[p], cred[p])
           /\ Due(y)' <= now + AccessTTL + Span
  <2>1. ASSUME NEW y \in Exchanges, y # p, Owes(y)' PROVE Owes(y) /\ Due(y)' <= Due(y)
    <3>1. Owes(y) /\ Due(y)' = Due(y)
      BY <1>0, <2>1 DEF OnlyMoves, Owes, Due
    <3> QED
      BY <3>1, Numbers
  <2>2. ASSUME p \in Exchanges, Owes(p)'
        PROVE  \/ Owes(p) /\ Due(p)' <= Due(p)
               \/ /\ pc[p] = "persist" /\ Put(sess[p], cred[p])
                  /\ Due(p)' <= now + AccessTTL + Span
    <3>0. TokenWork(p) /\ answer[p] # "tokens"
      BY <1>0, <2>2 DEF Works, InFlight, TypeOK, ShapeOK
    <3>1. CASE pc'[p] = "expiry"
      <4>1. pc[p] = "persist" /\ Put(sess[p], cred[p])
        BY <3>0, <3>1 DEF TokenWork
      <4>2. Due(p)' = since[p] + AccessTTL + Span /\ since[p] <= now
        BY <1>0, <3>1 DEF Due, ClockInv
      <4> QED
        BY <4>1, <4>2, Numbers
    <3>2. CASE pc'[p] = "issue"
      <4>1. pc[p] = "bounded" /\ access'[p] <= since[p] + AccessTTL
        BY <3>0, <3>2 DEF TokenWork
      <4>2. Due(p)' = access'[p] + Span /\ Due(p) = since[p] + AccessTTL + Span
        BY <1>0, <3>2, <4>1 DEF Due
      <4>3. access'[p] \in Nat
        BY <2>2 DEF TypeOK
      <4> QED
        BY <4>1, <4>2, <4>3, Numbers DEF Owes
    <3>3. CASE pc'[p] = "reply" \/ answer'[p] = "tokens"
      <4>1. /\ pc[p] \in {"issue", "reply"} /\ pc'[p] \in {"reply", "done"}
            /\ access'[p] = access[p]
        BY <3>0, <3>3 DEF TokenWork
      <4> QED
        BY <2>2, <4>1, Numbers DEF Owes, Due
    <3> QED
      BY <2>2, <3>0, <3>1, <3>2, <3>3 DEF Owes, TokenWork
  <2> QED
    BY <2>1, <2>2
<1>3. LoginInv'
  <2>1. ASSUME NEW s \in Sessions, Unspent(s) PROVE session'[s] = session[s]
    <3>1. s # sess[p]
      BY <2>1 DEF FreshInv
    <3> QED
      BY <3>1 DEF Works, StoreWork, Put, Purge, TypeOK
  <2>2. \A s \in Sessions : grant[s] # Absent \/ login[s] = "stored" => Unspent(s)
    BY DEF Unspent
  <2> QED
    BY <1>0, <2>1, <2>2 DEF HeldInv, LoginInv
<1>4. CoverInv'
  <2> SUFFICES ASSUME NEW y \in Exchanges, Owes(y)'
               PROVE  Covers(session'[sess[y]], Due(y)')
    BY <1>0 DEF CoverInv, Covers
  <2>1. sess[y] \in Sessions
    BY <1>1, <1>2, Owing
  <2>2. CASE Owes(y) /\ Due(y)' <= Due(y)
    <3>1. Covers(session'[sess[y]], Due(y))
      BY <2>2, StoreStillCovers
    <3>2. session'[sess[y]].exp \in Nat /\ Due(y)' \in Nat
      <4>1. session'[sess[y]] \in Entries(Creds)
        BY <2>1 DEF TypeOK
      <4>2. Due(y)' \in Nat
        BY DEF Due, TypeOK
      <4> QED
        BY <4>1, <4>2 DEF Entries, Absent
    <3> QED
      BY <2>2, <3>1, <3>2, Numbers DEF Covers
  <2>3. CASE y = p /\ Put(sess[p], cred[p]) /\ Due(y)' <= now + AccessTTL + Span
    <3>1. session'[sess[y]].exp = now + SessionTTL
      BY <1>1, <2>3 DEF Put, Item, TypeOK
    <3>2. Due(y)' \in Nat
      BY DEF Due, TypeOK
    <3> QED
      BY <2>3, <3>1, <3>2, Numbers DEF Covers, Slack
  <2> QED
    BY <1>2, <2>2, <2>3
<1>5. SeenInv'
  <2> SUFFICES ASSUME NEW x \in Exchanges, NEW y \in Exchanges, Owes(y)',
                      pc'[x] \in {"resolved", "bounded"}, sess[x] = sess[y]
               PROVE  Covers(seen[x], Due(y)')
    BY <1>0 DEF SeenInv, Covers
  <2>1. x # p /\ pc[x] = pc'[x]
    BY <1>0 DEF Works, OnlyMoves, TokenWork
  <2>2. ~(y = p /\ pc[p] = "persist")
    <3>1. ASSUME y = p, pc[p] = "persist" PROVE x = p
      BY <1>1, <2>1, <3>1 DEF OneRefreshRight, Holds, Exchanging
    <3> QED
      BY <2>1, <3>1
  <2>3. Owes(y) /\ Due(y)' <= Due(y)
    BY <1>2, <2>2
  <2>4. Covers(seen[x], Due(y))
    BY <2>1, <2>3 DEF HeldInv, SeenInv
  <2>5. Due(y)' \in Nat
    BY DEF Due, TypeOK
  <2> QED
    BY <2>3, <2>4, <2>5, Numbers DEF Covers
<1>6. CallInv'
  <2> SUFFICES ASSUME NEW c \in Calls, InFlight(c)'
               PROVE  \E y \in Exchanges :
                        /\ sess[c] = sess[y] /\ answer'[y] = "tokens"
                        /\ since[c] < access'[y]
                        /\ pc'[c] \in {"resolved", "merge"} => Covers(seen[c], Due(y)')
    BY <1>0 DEF CallInv, Covers
  <2>1. InFlight(c) /\ (pc'[c] \in {"resolved", "merge"} => pc'[c] = pc[c])
    BY <1>0 DEF Works, OnlyMoves, CallWork, InFlight
  <2>2. PICK y \in Exchanges :
          /\ sess[c] = sess[y] /\ answer[y] = "tokens" /\ since[c] < access[y]
          /\ pc[c] \in {"resolved", "merge"} => Covers(seen[c], Due(y))
    BY <2>1 DEF HeldInv, CallInv
  <2>3. y # p
    BY <1>0, <2>2 DEF InFlight, TypeOK, ShapeOK
  <2>4. answer'[y] = "tokens" /\ access'[y] = access[y] /\ Due(y)' = Due(y)
    BY <1>0, <2>2, <2>3 DEF OnlyMoves, Due
  <2> QED
    BY <2>1, <2>2, <2>4
<1> QED
  BY <1>3, <1>4, <1>5, <1>6 DEF HeldInv

LEMMA HeldByTime ==
  ASSUME TypeOK, HeldInv, Tick
  PROVE  HeldInv'
<1>1. /\ now' = now + 1
      /\ UNCHANGED <<session, login, grant, pc, sess, since, seen, access, answer>>
      /\ \A s \in Sessions :
           login[s] = "stored" => now + SessionTTL < session[s].exp + Span
  BY DEF Tick
<1>2. \A e, d : Covers(e, d) /\ d \in Nat => Covers(e, d)'
  BY <1>1, Numbers DEF Covers
<1>3. LoginInv'
  BY <1>1, Numbers DEF HeldInv, LoginInv
<1>4. CoverInv' /\ SeenInv' /\ CallInv'
  BY <1>1, <1>2, Numbers
     DEF HeldInv, CoverInv, SeenInv, CallInv, Owes, Due, Covers, InFlight, Procs
<1> QED
  BY <1>3, <1>4 DEF HeldInv

LEMMA InitHeld == Init => ClockInv /\ FreshInv /\ HeldInv
<1> SUFFICES ASSUME Init PROVE ClockInv /\ FreshInv /\ HeldInv
  OBVIOUS
<1> USE OAuthAssumption DEF Procs
<1>1. ClockInv
  BY DEF Init, ClockInv, InFlight
<1>2. FreshInv
  BY DEF Init, FreshInv
<1>3. HeldInv
  BY DEF Init, HeldInv, LoginInv, CoverInv, SeenInv, CallInv, Owes, InFlight
<1> QED
  BY <1>1, <1>2, <1>3

LEMMA NextHeld ==
  TypeOK /\ RightInv /\ ClockInv /\ FreshInv /\ Slack /\ HeldInv /\ [Next]_vars => HeldInv'
<1> SUFFICES ASSUME TypeOK, OneRefreshRight, ClockInv, FreshInv, Slack, HeldInv, [Next]_vars
             PROVE  HeldInv'
  BY DEF RightInv
<1>0. TypeOK'
  BY NextType
<1>1. ASSUME NEW x \in Exchanges, NEW s \in Sessions, RedeemCode(x, s) PROVE HeldInv'
  <2>1. /\ Begins(x, s) /\ grant' = [grant EXCEPT ![s] = Absent] /\ login[s] = "granted"
        /\ pc'[x] = "expiry" => Live(grant[s], now)
    BY <1>1, CodeBegins DEF RedeemCode
  <2>2. ASSUME pc'[x] = "expiry"
        PROVE  /\ now + AccessTTL + Span <= session[s].exp
               /\ \A q \in Procs : sess[q] # s
    <3>1. grant[s] # Absent
      BY <2>1, <2>2, LiveIsPresent DEF TypeOK
    <3>2. grant[s].exp + SessionTTL <= session[s].exp + CodeTTL + Span
      BY <3>1 DEF HeldInv, LoginInv
    <3>3. now < grant[s].exp
      BY <2>1, <2>2, Numbers DEF Live
    <3>4. now + AccessTTL + Span <= session[s].exp
      BY <3>2, <3>3, Numbers DEF Slack
    <3>5. \A q \in Procs : sess[q] # s
      BY <3>1 DEF FreshInv, Unspent
    <3> QED
      BY <3>4, <3>5
  <2>3. x \in Procs /\ x \notin Calls
    BY OAuthAssumption DEF Procs
  <2>4. \A t \in Sessions : /\ grant'[t] \in {grant[t], Absent}
                            /\ login[t] # "granted" => grant'[t] = grant[t]
    BY <2>1 DEF TypeOK
  <2> QED
    BY <1>0, <2>1, <2>2, <2>3, <2>4, HeldAtBegin
<1>2. ASSUME NEW x \in Exchanges, NEW y \in Exchanges, RedeemRefresh(x, y) PROVE HeldInv'
  <2>1. Begins(x, sess[y]) /\ UNCHANGED grant /\ pc[y] = "done" /\ pc'[x] # "expiry"
    BY <1>2, RefreshBegins
  <2>2. sess[y] \in Sessions /\ x \in Procs /\ x \notin Calls
    BY <2>1, SessionOf, OAuthAssumption DEF Procs
  <2> QED
    BY <1>0, <2>1, <2>2, HeldAtBegin
<1>3. ASSUME NEW c \in Calls, NEW y \in Exchanges, CallTool(c, y) PROVE HeldInv'
  <2>1. /\ Begins(c, sess[y]) /\ UNCHANGED <<grant, answer>> /\ pc'[c] = "resolve"
        /\ pc[y] = "done" /\ answer[y] = "tokens" /\ now < access[y]
    BY <1>3, CallBegins
  <2>2. sess[y] \in Sessions /\ c \in Procs /\ c \notin Exchanges
    BY <2>1, SessionOf, OAuthAssumption DEF Procs
  <2> QED
    BY <1>0, <2>1, <2>2, HeldAtBegin
<1>4. ASSUME NEW x \in Exchanges, OperatorRotates(x) \/ OperatorRejects(x) PROVE HeldInv'
  BY <1>4, HeldWhileStill DEF OperatorRotates, OperatorRejects
<1>5. CASE Still
  BY <1>5, HeldWhileStill DEF Still, RequestsStill, LoginsStill
<1> QED
  BY <1>0, <1>1, <1>2, <1>3, <1>4, <1>5, Shapes, HeldByLogin, HeldByRead, HeldByWork,
     HeldByTime

(* If the lifetimes leave room for it, whatever the requests do and however  *)
(* they interleave, no tool call with a valid access token finds the session *)
(* gone: only a request to refresh it ever removes a session.                *)
THEOREM SessionOutlives == Spec => []SessionOutlivesAccess
<1> DEFINE IInv == TypeOK /\ RightInv /\ ClockInv /\ FreshInv /\ (Slack => HeldInv)
<1>1. Init => IInv
  BY InitType, InitRight, InitHeld
<1>2. IInv /\ [Next]_vars => IInv'
  <2>1. Slack' <=> Slack
    BY DEF Slack
  <2> QED
    BY <2>1, NextType, NextRight, NextClock, NextFresh, NextHeld
<1>3. IInv => SessionOutlivesAccess
  BY CallFindsSession DEF SessionOutlivesAccess, Slack, HeldInv
<1> QED
  BY <1>1, <1>2, <1>3, PTL DEF Spec

------------------------------------------------------------------------------
(* The operator has rotated for x, which has not bounded its token yet. *)
Running(x) ==
  post[x] = "rotated" /\ pc[x] \in {"upstream", "persist", "expiry", "bounded"}

(* No credentials known here last longer than ones issued now would. *)
UntilInv ==
  /\ \A s \in Sessions : session[s] # Absent => session[s].val.until <= now + UpstreamTTL
  /\ \A p \in Procs : seen[p] # Absent => seen[p].val.until <= now + UpstreamTTL
  /\ \A x \in Exchanges : cred[x].until <= now + UpstreamTTL

(* While x is running, no credentials of its session last longer than its. *)
NewestInv ==
  \A x \in Exchanges : Running(x) =>
    /\ session[sess[x]] # Absent => session[sess[x]].val.until <= cred[x].until
    /\ \A p \in Procs : sess[p] = sess[x] /\ seen[p] # Absent =>
         seen[p].val.until <= cred[x].until

(* How far a request has come. *)
StageInv ==
  /\ \A p \in Procs : pc[p] = "idle" => seen[p] = Absent
  /\ \A x \in Exchanges :
       /\ access[x] # 0 => pc[x] \in {"issue", "reply", "done"} /\ post[x] # "sent"
       /\ post[x] = "rotated" => since[x] <= cred[x].until
       /\ pc[x] \in {"idle", "resolve", "resolved"} => post[x] = "none"

LEMMA UntilNumbers ==
  ASSUME TypeOK
  PROVE  /\ now \in Nat /\ UpstreamTTL \in Nat
         /\ \A s \in Sessions : session[s] # Absent => session[s].val.until \in Nat
         /\ \A p \in Procs : seen[p] # Absent => seen[p].val.until \in Nat
         /\ \A x \in Exchanges : cred[x].until \in Nat
<1>1. \A e \in Entries(Creds) : e # Absent => e.val.until \in Nat
  BY PresentCreds DEF Creds
<1> QED
  BY <1>1, OAuthAssumption DEF TypeOK, Creds

(* What a request at work leaves in the session. *)
LEMMA WorkStores ==
  ASSUME TypeOK, NEW p \in Procs, Works(p), NEW s \in Sessions
  PROVE  \/ session'[s] = session[s]
         \/ session'[s] = Absent
         \/ s = sess[p] /\ p \in Exchanges /\ pc[p] = "persist" /\ session'[s].val = cred[p]
         \/ /\ s = sess[p] /\ p \in Calls /\ pc'[p] = "done" /\ seen[p] # Absent
            /\ session'[s].val = seen[p].val
BY DEF Works, StoreWork, Put, Purge, Item, TypeOK

LEMMA NextUntil == TypeOK /\ UntilInv /\ [Next]_vars => UntilInv'
<1> SUFFICES ASSUME TypeOK, UntilInv, [Next]_vars PROVE UntilInv'
  OBVIOUS
<1> USE OAuthAssumption DEF Procs
<1>1. CASE UNCHANGED <<session, seen, cred, now>>
  BY <1>1 DEF UntilInv
<1>2. ASSUME NEW s \in Sessions, StoreSession(s) \/ StoreGrant(s) \/ LoginFails(s)
      PROVE  UntilInv'
  <2>1. CASE StoreSession(s)
    <3>1. /\ session'[s].val.until = now + UpstreamTTL
          /\ \A t \in Sessions \ {s} : session'[t] = session[t]
          /\ UNCHANGED <<seen, cred, now>>
      BY <2>1 DEF StoreSession, Put, Item, TypeOK
    <3> QED
      BY <3>1, UntilNumbers DEF UntilInv
  <2> QED
    BY <1>1, <1>2, <2>1 DEF StoreGrant, LoginFails
<1>3. ASSUME NEW p \in Procs, NEW s, Begins(p, s) PROVE UntilInv'
  <2>1. \A q \in Procs : seen'[q] = seen[q]
    BY <1>3 DEF Begins, OnlyMoves
  <2> QED
    BY <1>3, <2>1 DEF Begins, OperatorStill, UntilInv
<1>4. ASSUME NEW p \in Procs, ReadSession(p) PROVE UntilInv'
  <2>1. /\ \A q \in Procs : seen'[q] \in {seen[q], session[sess[p]]}
        /\ UNCHANGED <<session, cred, now>>
    BY <1>4, ReadMoves DEF OnlyMoves, OperatorStill
  <2>2. sess[p] \in Sessions
    BY <1>4, SessionOf, ReadMoves
  <2> QED
    BY <2>1, <2>2 DEF UntilInv
<1>5. ASSUME NEW p \in Procs, Works(p) PROVE UntilInv'
  <2>1. UNCHANGED <<seen, cred, now>>
    BY <1>5 DEF Works
  <2>2. \A s \in Sessions : session'[s] # Absent => session'[s].val.until <= now + UpstreamTTL
    BY <1>5, WorkStores DEF UntilInv
  <2> QED
    BY <2>1, <2>2 DEF UntilInv
<1>6. ASSUME NEW x \in Exchanges, OperatorRotates(x) \/ OperatorRejects(x)
      PROVE  UntilInv'
  <2>1. /\ \A y \in Exchanges : cred'[y] = cred[y] \/ cred'[y].until = now + UpstreamTTL
        /\ UNCHANGED <<session, seen, now>>
    BY <1>6 DEF OperatorRotates, OperatorRejects, TypeOK
  <2> QED
    BY <2>1, UntilNumbers DEF UntilInv
<1>7. CASE Tick
  <2>1. now' = now + 1 /\ UNCHANGED <<session, seen, cred>>
    BY <1>7 DEF Tick
  <2> QED
    BY <2>1, UntilNumbers DEF UntilInv
<1> QED
  BY Shapes, <1>1, <1>2, <1>3, <1>4, <1>5, <1>6, <1>7, CodeBegins, RefreshBegins, CallBegins
     DEF Still, RequestsStill, OperatorStill

LEMMA NextStage ==
  TypeOK /\ ClockInv /\ SentInv /\ StageInv /\ [Next]_vars => StageInv'
<1> SUFFICES ASSUME TypeOK, ClockInv, SentInv, StageInv, [Next]_vars PROVE StageInv'
  OBVIOUS
<1> USE OAuthAssumption DEF Procs
<1>1. CASE UNCHANGED <<pc, since, seen, post, cred, access>>
  BY <1>1 DEF StageInv
<1>2. ASSUME NEW s \in Sessions, StoreSession(s) \/ StoreGrant(s) \/ LoginFails(s)
      PROVE  StageInv'
  BY <1>1, <1>2 DEF StoreSession, StoreGrant, LoginFails
<1>3. ASSUME NEW p \in Procs, NEW s, Begins(p, s) PROVE StageInv'
  BY <1>3 DEF Begins, OnlyMoves, OperatorStill, StageInv
<1>4. ASSUME NEW p \in Procs, ReadSession(p) PROVE StageInv'
  BY <1>4, ReadMoves DEF OnlyMoves, OperatorStill, StageInv
<1>5. ASSUME NEW p \in Procs, Works(p) PROVE StageInv'
  <2>1. OnlyMoves(p) /\ UNCHANGED <<since, seen, cred>> /\ InFlight(p)
    BY <1>5 DEF Works
  <2>2. CASE p \in Exchanges
    <3>1. TokenWork(p)
      BY <1>5, <2>2 DEF Works
    <3>2. pc[p] = "bounded" => post[p] # "sent"
      BY <2>2 DEF SentInv
    <3> QED
      BY <2>1, <2>2, <3>1, <3>2 DEF OnlyMoves, TokenWork, StageInv, InFlight
  <2>3. CASE p \in Calls
    BY <1>5, <2>1, <2>3 DEF Works, CallWork, OnlyMoves, StageInv
  <2> QED
    BY <2>2, <2>3
<1>6. ASSUME NEW x \in Exchanges, OperatorRotates(x) \/ OperatorRejects(x)
      PROVE  StageInv'
  <2>1. /\ UNCHANGED <<pc, since, seen, access>> /\ post[x] = "sent"
        /\ post'[x] \in {"rotated", "rejected"}
        /\ post'[x] = "rotated" => cred'[x].until = now + UpstreamTTL
        /\ \A y \in Exchanges \ {x} : post'[y] = post[y] /\ cred'[y] = cred[y]
    BY <1>6 DEF OperatorRotates, OperatorRejects, TypeOK
  <2>2. since[x] <= now + UpstreamTTL
    BY UntilNumbers, Numbers DEF ClockInv
  <2> QED
    BY <2>1, <2>2 DEF StageInv
<1>7. CASE Tick
  BY <1>1, <1>7 DEF Tick
<1> QED
  BY Shapes, <1>1, <1>2, <1>3, <1>4, <1>5, <1>6, <1>7, CodeBegins, RefreshBegins, CallBegins
     DEF Still, RequestsStill, OperatorStill

LEMMA NextNewest ==
  TypeOK /\ OneRefreshRight /\ FreshInv /\ UntilInv /\ NewestInv /\ StageInv /\ [Next]_vars
    => NewestInv'
<1> SUFFICES ASSUME TypeOK, OneRefreshRight, FreshInv, UntilInv, NewestInv, StageInv,
                    [Next]_vars, NEW x \in Exchanges, Running(x)'
             PROVE  /\ session'[sess'[x]] # Absent =>
                         session'[sess'[x]].val.until <= cred'[x].until
                    /\ \A p \in Procs : sess'[p] = sess'[x] /\ seen'[p] # Absent =>
                         seen'[p].val.until <= cred'[x].until
  BY DEF NewestInv
<1> USE OAuthAssumption DEF Procs
<1> DEFINE Goal == /\ session'[sess'[x]] # Absent =>
                        session'[sess'[x]].val.until <= cred'[x].until
                   /\ \A p \in Procs : sess'[p] = sess'[x] /\ seen'[p] # Absent =>
                        seen'[p].val.until <= cred'[x].until
<1>1. CASE UNCHANGED <<pc, post, session, sess, seen, cred>>
  BY <1>1 DEF NewestInv, Running
<1>2. ASSUME NEW s \in Sessions, StoreSession(s) \/ StoreGrant(s) \/ LoginFails(s)
      PROVE  Goal
  <2>1. UNCHANGED <<pc, post, sess, seen, cred>> /\ Unspent(s)
        /\ \A t \in Sessions \ {s} : session'[t] = session[t]
    BY <1>2 DEF StoreSession, StoreGrant, LoginFails, Put, Unspent, TypeOK
  <2>2. Running(x)
    BY <2>1 DEF Running
  <2>3. sess[x] \in Sessions \ {s}
    BY <2>1, <2>2, SessionOf DEF Running, FreshInv
  <2> QED
    BY <2>1, <2>2, <2>3 DEF NewestInv
<1>3. ASSUME NEW p \in Procs, NEW s, Begins(p, s) PROVE Goal
  <2>1. x # p /\ Running(x) /\ sess'[x] = sess[x]
    BY <1>3 DEF Begins, OnlyMoves, OperatorStill, StageInv, Running
  <2>2. seen'[p] = Absent /\ \A q \in Procs \ {p} : sess'[q] = sess[q] /\ seen'[q] = seen[q]
    BY <1>3 DEF Begins, OnlyMoves, StageInv
  <2>3. UNCHANGED <<session, cred>>
    BY <1>3 DEF Begins, OperatorStill
  <2> QED
    BY <2>1, <2>2, <2>3 DEF NewestInv
<1>4. ASSUME NEW p \in Procs, ReadSession(p) PROVE Goal
  <2>1. Running(x) /\ UNCHANGED <<session, sess, cred>>
    BY <1>4, ReadMoves DEF OnlyMoves, OperatorStill, Running
  <2>2. seen'[p] = session[sess[p]] /\ \A q \in Procs \ {p} : seen'[q] = seen[q]
    BY <1>4, ReadMoves DEF OnlyMoves
  <2> QED
    BY <2>1, <2>2 DEF NewestInv
<1>5. ASSUME NEW p \in Procs, Works(p) PROVE Goal
  <2>1. OnlyMoves(p) /\ UNCHANGED <<sess, seen, cred>>
    BY <1>5 DEF Works
  <2>2. Running(x)
    <3>1. CASE x = p
      BY <1>5, <3>1 DEF Works, TokenWork, Running
    <3>2. CASE x # p
      BY <2>1, <3>2 DEF OnlyMoves, Running
    <3> QED
      BY <3>1, <3>2
  <2>3. sess[x] \in Sessions
    BY <2>2, SessionOf DEF Running
  <2>4. ASSUME p \in Exchanges, pc[p] = "persist", sess[p] = sess[x] PROVE p = x
    BY <2>2, <2>3, <2>4 DEF OneRefreshRight, Holds, Exchanging, Running
  <2>5. session'[sess[x]] # Absent => session'[sess[x]].val.until <= cred[x].until
    <3>1. CASE session'[sess[x]] = session[sess[x]]
      BY <2>2, <3>1 DEF NewestInv
    <3>2. CASE p = x /\ session'[sess[x]].val = cred[x]
      BY <3>2, UntilNumbers
    <3>3. CASE sess[p] = sess[x] /\ seen[p] # Absent /\ session'[sess[x]].val = seen[p].val
      BY <2>2, <3>3 DEF NewestInv
    <3> QED
      BY <1>5, <2>3, <2>4, <3>1, <3>2, <3>3, WorkStores
  <2> QED
    BY <2>1, <2>2, <2>5 DEF NewestInv
<1>6. ASSUME NEW z \in Exchanges, OperatorRotates(z) PROVE Goal
  <2>1. UNCHANGED <<pc, session, sess, seen>>
        /\ \A y \in Exchanges \ {z} : post'[y] = post[y] /\ cred'[y] = cred[y]
    BY <1>6 DEF OperatorRotates, TypeOK
  <2>2. CASE z # x
    BY <2>1, <2>2 DEF NewestInv, Running
  <2>3. CASE z = x
    <3>1. cred'[x].until = now + UpstreamTTL
      BY <1>6, <2>3 DEF OperatorRotates, TypeOK
    <3>2. sess[x] \in Sessions
      BY <2>1, SessionOf DEF Running
    <3> QED
      BY <2>1, <3>1, <3>2 DEF UntilInv
  <2> QED
    BY <2>2, <2>3
<1>7. ASSUME NEW z \in Exchanges, OperatorRejects(z) PROVE Goal
  <2>1. UNCHANGED <<pc, session, sess, seen, cred>> /\ post'[x] \in {post[x], "rejected"}
    BY <1>7 DEF OperatorRejects, TypeOK
  <2> QED
    BY <2>1 DEF NewestInv, Running
<1>8. CASE Tick \/ Still
  BY <1>1, <1>8 DEF Tick, Still, RequestsStill, OperatorStill
<1> QED
  BY Shapes, <1>2, <1>3, <1>4, <1>5, <1>6, <1>7, <1>8, CodeBegins, RefreshBegins, CallBegins

(* The token a request bounds by the session it read is bounded by its own   *)
(* credentials: either they, or older ones a call wrote back.                *)
LEMMA NextWithin ==
  TypeOK /\ ClockInv /\ HeldInv /\ NewestInv /\ StageInv /\ AccessWithinUpstream
    /\ [Next]_vars => AccessWithinUpstream'
<1> SUFFICES ASSUME TypeOK, TypeOK', ClockInv, HeldInv, NewestInv, StageInv,
                    AccessWithinUpstream, [Next]_vars, NEW x \in Exchanges,
                    post'[x] = "rotated", pc'[x] \in {"issue", "reply", "done"}
             PROVE  access'[x] <= cred'[x].until
  BY NextType DEF AccessWithinUpstream
<1> USE OAuthAssumption DEF Procs
<1> DEFINE Goal == access'[x] <= cred'[x].until
<1>0. post[x] = "rotated" => access[x] <= cred[x].until
  <2>1. post[x] = "rotated" /\ pc[x] \notin {"issue", "reply", "done"} => access[x] = 0
    BY DEF StageInv
  <2> QED
    BY <2>1, UntilNumbers, Numbers DEF AccessWithinUpstream
<1>1. CASE UNCHANGED <<post, cred, access>>
  BY <1>0, <1>1
<1>2. ASSUME NEW s \in Sessions, StoreSession(s) \/ StoreGrant(s) \/ LoginFails(s)
      PROVE  Goal
  BY <1>1, <1>2 DEF StoreSession, StoreGrant, LoginFails
<1>3. ASSUME NEW p \in Procs, NEW s, Begins(p, s) PROVE Goal
  BY <1>1, <1>3 DEF Begins, OperatorStill
<1>4. ASSUME NEW p \in Procs, ReadSession(p) PROVE Goal
  BY <1>1, <1>4, ReadMoves DEF OperatorStill
<1>5. ASSUME NEW p \in Procs, Works(p) PROVE Goal
  <2>1. OnlyMoves(p) /\ UNCHANGED cred
    BY <1>5 DEF Works
  <2>2. CASE access'[x] = access[x] /\ post'[x] = post[x]
    BY <1>0, <2>1, <2>2
  <2>3. CASE x # p \/ p \in Calls
    BY <1>5, <2>1, <2>2, <2>3 DEF OnlyMoves, Works, CallWork
  <2>4. CASE x = p
    <3>1. TokenWork(x) /\ post'[x] = post[x]
      BY <1>5, <2>4 DEF Works, TokenWork
    <3>2. CASE access'[x] # access[x]
      <4>1. /\ pc[x] = "bounded" /\ Running(x)
            /\ access'[x] <= since[x] + AccessTTL
            /\ Live(seen[x], now) => access'[x] <= seen[x].val.until
        BY <3>1, <3>2 DEF TokenWork, Running
      <4>2. CASE Live(seen[x], now)
        <5>1. seen[x] # Absent
          BY <4>2, LiveCreds, Numbers DEF TypeOK
        <5>2. seen[x].val.until <= cred[x].until
          BY <4>1, <5>1 DEF NewestInv
        <5> QED
          BY <2>1, <4>1, <4>2, <5>1, <5>2, UntilNumbers DEF TypeOK
      <4>3. CASE ~Live(seen[x], now)
        <5>1. Covers(seen[x], Due(x)) /\ Due(x) = since[x] + AccessTTL + Span
          BY <4>1 DEF HeldInv, SeenInv, Owes, Due
        <5>2. Due(x) <= now /\ now <= since[x] + Span
          BY <4>1, <4>3, <5>1, Numbers DEF Covers, Live, ClockInv, InFlight
        <5>3. access'[x] <= since[x]
          BY <4>1, <5>1, <5>2, Numbers DEF TypeOK
        <5>4. since[x] <= cred[x].until
          BY <3>1 DEF StageInv
        <5> QED
          BY <2>1, <5>3, <5>4, Numbers, UntilNumbers DEF TypeOK
      <4> QED
        BY <4>2, <4>3
    <3> QED
      BY <2>2, <3>1, <3>2
  <2> QED
    BY <2>3, <2>4
<1>6. ASSUME NEW z \in Exchanges, OperatorRotates(z) PROVE Goal
  <2>1. UNCHANGED <<pc, access>>
        /\ \A y \in Exchanges \ {z} : post'[y] = post[y] /\ cred'[y] = cred[y]
    BY <1>6 DEF OperatorRotates, TypeOK
  <2>2. CASE z # x
    BY <1>0, <2>1, <2>2
  <2>3. CASE z = x
    <3>1. access[x] = 0
      BY <1>6, <2>3 DEF OperatorRotates, StageInv
    <3>2. cred'[x].until \in Nat
      BY DEF TypeOK, Creds
    <3> QED
      BY <2>1, <3>1, <3>2
  <2> QED
    BY <2>2, <2>3
<1>7. ASSUME NEW z \in Exchanges, OperatorRejects(z) PROVE Goal
  <2>1. UNCHANGED <<access, cred>> /\ post'[x] \in {post[x], "rejected"}
    BY <1>7 DEF OperatorRejects, TypeOK
  <2> QED
    BY <1>0, <2>1
<1>8. CASE Tick \/ Still
  BY <1>1, <1>8 DEF Tick, Still, RequestsStill, OperatorStill
<1> QED
  BY Shapes, <1>2, <1>3, <1>4, <1>5, <1>6, <1>7, <1>8, CodeBegins, RefreshBegins, CallBegins

LEMMA InitBound == Init => UntilInv /\ NewestInv /\ StageInv /\ AccessWithinUpstream
BY OAuthAssumption
   DEF Init, UntilInv, NewestInv, StageInv, AccessWithinUpstream, Running, NoCred, Procs

(* With room in the lifetimes, an access token never outlives the operator's *)
(* credentials that were obtained for it, although other requests write the  *)
(* session between the moment they are stored and the moment they are read   *)
(* back.                                                                     *)
THEOREM AccessBounded == Spec => [](Slack => AccessWithinUpstream)
<1> DEFINE IInv == /\ TypeOK /\ RightInv /\ SentInv /\ ClockInv /\ FreshInv
                   /\ Slack => HeldInv
                   /\ UntilInv /\ NewestInv /\ StageInv
                   /\ Slack => AccessWithinUpstream
<1>1. Init => IInv
  <2>1. Init => SentInv
    BY DEF Init, SentInv
  <2> QED
    BY <2>1, InitType, InitRight, InitHeld, InitBound
<1>2. IInv /\ [Next]_vars => IInv'
  <2>1. (Slack' <=> Slack) /\ (RightInv => OneRefreshRight)
    BY DEF Slack, RightInv
  <2>2. IInv /\ [Next]_vars => TypeOK' /\ RightInv' /\ SentInv' /\ ClockInv' /\ FreshInv'
    BY NextType, NextRight, NextSent, NextClock, NextFresh
  <2>3. IInv /\ [Next]_vars => (Slack' => HeldInv')
    BY <2>1, NextHeld
  <2>4. IInv /\ [Next]_vars => UntilInv' /\ NewestInv' /\ StageInv'
    BY <2>1, NextUntil, NextNewest, NextStage
  <2>5. IInv /\ [Next]_vars => (Slack' => AccessWithinUpstream')
    BY <2>1, NextWithin
  <2> QED
    BY <2>2, <2>3, <2>4, <2>5
<1> QED
  BY <1>1, <1>2, PTL DEF Spec
=============================================================================
