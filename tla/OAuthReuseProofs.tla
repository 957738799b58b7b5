-------------------------- MODULE OAuthReuseProofs --------------------------
(***************************************************************************)
(* Theorem about OAuthSession: the operator sees a refresh token twice     *)
(* only when a tool call has written the old credentials back.             *)
(***************************************************************************)
EXTENDS OAuthStoreProofs

(* Generations: the operator has rotated every known token, and what it      *)
(* answers a request with is newer than all that was presented to it.        *)
Gens(s) == 1 .. upstream[s]

GenInv ==
  /\ \A s \in Sessions : session[s] # Absent => session[s].val.gen \in Gens(s)
  /\ \A p \in Procs : sess[p] \in Sessions /\ seen[p] # Absent =>
       seen[p].val.gen \in Gens(sess[p])
  /\ \A x \in Exchanges :
       /\ gave[x] # 0 => gave[x] \in Gens(sess[x]) /\ sess[x] \in Sessions
       /\ pc[x] \in {"idle", "resolve", "resolved"} => gave[x] = 0
       /\ pc[x] = "persist" => post[x] = "rotated"

AnswerInv ==
  \A x \in Exchanges : pc[x] \in {"upstream", "persist"} /\ post[x] = "rotated" =>
    /\ cred[x].gen \in Gens(sess[x])
    /\ \A y \in Exchanges : sess[y] = sess[x] => gave[y] < cred[x].gen

LEMMA GenNumbers ==
  ASSUME TypeOK
  PROVE  /\ \A s \in Sessions : upstream[s] \in Nat
         /\ \A x \in Exchanges : gave[x] \in Nat /\ cred[x].gen \in Nat
BY DEF TypeOK, Creds

LEMMA NextGen ==
  TypeOK /\ OneRefreshRight /\ FreshInv /\ SentInv /\ StageInv /\ GenInv /\ AnswerInv
    /\ [Next]_vars => GenInv' /\ AnswerInv'
<1> SUFFICES ASSUME TypeOK, OneRefreshRight, FreshInv, SentInv, StageInv, GenInv, AnswerInv,
                    [Next]_vars
             PROVE  GenInv' /\ AnswerInv'
  OBVIOUS
<1> USE OAuthAssumption DEF Procs
<1> DEFINE Goal == GenInv' /\ AnswerInv'
<1>1. CASE UNCHANGED <<session, upstream, pc, post, sess, seen, cred, gave>>
  BY <1>1 DEF GenInv, AnswerInv, Gens
<1>2. ASSUME NEW s \in Sessions, StoreSession(s) \/ StoreGrant(s) \/ LoginFails(s)
      PROVE  Goal
  <2>1. CASE StoreSession(s)
    <3>1. /\ UNCHANGED <<pc, post, sess, seen, cred, gave>>
          /\ session'[s].val.gen = 1 /\ upstream'[s] = 1
          /\ \A t \in Sessions \ {s} : session'[t] = session[t] /\ upstream'[t] = upstream[t]
      BY <2>1 DEF StoreSession, Put, Item, TypeOK
    <3>2. \A p \in Procs : sess[p] # s
      BY <2>1 DEF StoreSession, FreshInv, Unspent
    <3>3. \A x \in Exchanges : pc[x] # "idle" => sess[x] \in Sessions \ {s}
      BY <3>2, SessionOf
    <3>4. GenInv'
      BY <3>1, <3>2 DEF GenInv, Gens
    <3>5. AnswerInv'
      BY <3>1, <3>3 DEF AnswerInv, Gens
    <3> QED
      BY <3>4, <3>5
  <2> QED
    BY <1>1, <1>2, <2>1 DEF StoreGrant, LoginFails
<1>3. ASSUME NEW p \in Procs, NEW s \in Sessions, Begins(p, s) PROVE Goal
  <2>1. /\ UNCHANGED <<session, upstream, cred, gave, post>> /\ seen'[p] = Absent
        /\ \A q \in Procs \ {p} :
             sess'[q] = sess[q] /\ seen'[q] = seen[q] /\ pc'[q] = pc[q]
        /\ pc[p] = "idle" /\ pc'[p] \in {"expiry", "resolve", "done"}
    BY <1>3 DEF Begins, OnlyMoves, OperatorStill, StageInv
  <2>2. p \in Exchanges => gave[p] = 0
    BY <2>1 DEF GenInv
  <2>3. GenInv'
    BY <2>1, <2>2 DEF GenInv, Gens
  <2>4. AnswerInv'
    <3> SUFFICES ASSUME NEW x \in Exchanges, pc'[x] \in {"upstream", "persist"},
                        post[x] = "rotated"
                 PROVE  /\ cred[x].gen \in Gens(sess'[x])
                        /\ \A y \in Exchanges : sess'[y] = sess'[x] => gave[y] < cred[x].gen
      BY <2>1 DEF AnswerInv, Gens
    <3>1. x # p /\ sess'[x] = sess[x] /\ pc'[x] = pc[x]
      BY <2>1
    <3>2. /\ cred[x].gen \in Gens(sess[x])
          /\ \A y \in Exchanges : sess[y] = sess[x] => gave[y] < cred[x].gen
      BY <3>1 DEF AnswerInv
    <3>3. 0 < cred[x].gen
      <4>1. sess[x] \in Sessions
        BY <3>1, SessionOf
      <4> QED
        BY <3>2, <4>1, GenNumbers DEF Gens
    <3> QED
      BY <2>1, <2>2, <3>1, <3>2, <3>3
  <2> QED
    BY <2>3, <2>4
<1>4. ASSUME NEW p \in Procs, ReadSession(p) PROVE Goal
  <2>1. /\ UNCHANGED <<session, upstream, sess, cred, gave, post>>
        /\ seen'[p] = session[sess[p]]
        /\ \A q \in Procs \ {p} : seen'[q] = seen[q] /\ pc'[q] = pc[q]
        /\ \/ pc[p] = "resolve" /\ pc'[p] = "resolved"
           \/ pc'[p] \in {"bounded", "merge"}
    BY <1>4, ReadMoves DEF OnlyMoves, OperatorStill
  <2>2. GenInv'
    BY <2>1 DEF GenInv, Gens
  <2>3. AnswerInv'
    BY <2>1 DEF AnswerInv, Gens
  <2> QED
    BY <2>2, <2>3
<1>5. ASSUME NEW p \in Procs, Works(p) PROVE Goal
  <2>1. /\ OnlyMoves(p) /\ UNCHANGED <<upstream, sess, seen, cred>> /\ InFlight(p)
        /\ p \in Exchanges => TokenWork(p)
        /\ p \in Calls => UNCHANGED <<post, gave>>
    BY <1>5 DEF Works, CallWork
  <2>2. sess[p] \in Sessions
    BY <2>1, SessionOf DEF InFlight
  <2>3. ASSUME NEW s \in Sessions, session'[s] # Absent
        PROVE  session'[s].val.gen \in Gens(s)
    <3>1. CASE session'[s] = session[s]
      BY <2>3, <3>1 DEF GenInv
    <3>2. CASE s = sess[p] /\ p \in Exchanges /\ pc[p] = "persist" /\ session'[s].val = cred[p]
      BY <3>2 DEF GenInv, AnswerInv
    <3>3. CASE s = sess[p] /\ seen[p] # Absent /\ session'[s].val = seen[p].val
      BY <3>3 DEF GenInv
    <3> QED
      BY <1>5, <2>3, <3>1, <3>2, <3>3, WorkStores
  <2>4. ASSUME NEW x \in Exchanges
        PROVE  /\ gave'[x] # 0 => gave'[x] \in Gens(sess[x]) /\ sess[x] \in Sessions
               /\ pc'[x] \in {"idle", "resolve", "resolved"} => gave'[x] = 0
               /\ pc'[x] = "persist" => post'[x] = "rotated"
    <3>1. CASE x # p
      BY <2>1, <3>1 DEF OnlyMoves, GenInv
    <3>2. CASE x = p /\ pc'[x] # "upstream"
      BY <2>1, <3>2 DEF TokenWork, GenInv
    <3>3. CASE x = p /\ pc'[x] = "upstream"
      <4>1. gave'[x] = seen[x].val.gen /\ seen[x] # Absent
        BY <2>1, <3>3, LiveCreds DEF TokenWork, TypeOK
      <4> QED
        BY <2>2, <3>3, <4>1 DEF GenInv
    <3> QED
      BY <3>1, <3>2, <3>3
  <2>5. GenInv'
    BY <2>1, <2>3, <2>4 DEF GenInv, Gens
  <2>6. AnswerInv'
    <3> SUFFICES ASSUME NEW x \in Exchanges, pc'[x] \in {"upstream", "persist"},
                        post'[x] = "rotated"
                 PROVE  /\ cred[x].gen \in Gens(sess[x])
                        /\ \A y \in Exchanges : sess[y] = sess[x] => gave'[y] < cred[x].gen
      BY <2>1 DEF AnswerInv, Gens
    <3>1. post[x] = "rotated" /\ pc[x] \in {"upstream", "persist"}
      <4>1. CASE x # p
        BY <2>1, <4>1 DEF OnlyMoves
      <4>2. CASE x = p
        BY <2>1, <4>2 DEF TokenWork
      <4> QED
        BY <4>1, <4>2
    <3>2. ASSUME NEW y \in Exchanges, sess[y] = sess[x] PROVE gave'[y] = gave[y]
      <4>1. CASE y # p \/ pc'[y] # "upstream"
        BY <2>1, <4>1 DEF OnlyMoves, TokenWork
      <4>2. CASE y = p /\ pc'[y] = "upstream"
        <5>1. pc[y] = "resolved"
          BY <2>1, <4>2 DEF TokenWork
        <5> QED
          BY <2>2, <3>1, <3>2, <4>2, <5>1 DEF OneRefreshRight, Holds, Exchanging
      <4> QED
        BY <4>1, <4>2
    <3> QED
      BY <3>1, <3>2 DEF AnswerInv
  <2> QED
    BY <2>5, <2>6
<1>6. ASSUME NEW z \in Exchanges, OperatorRotates(z) PROVE Goal
  <2>0. sess[z] \in Sessions
    BY <1>6, SessionOf DEF OperatorRotates, StageInv, SentInv
  <2>1. /\ UNCHANGED <<session, pc, sess, seen, gave>>
        /\ \A y \in Exchanges \ {z} : post'[y] = post[y] /\ cred'[y] = cred[y]
        /\ cred'[z].gen = upstream[sess[z]] + 1 /\ post[z] = "sent"
        /\ upstream'[sess[z]] = upstream[sess[z]] + 1
        /\ \A s \in Sessions \ {sess[z]} : upstream'[s] = upstream[s]
    BY <1>6, <2>0 DEF OperatorRotates, TypeOK
  <2>2. \A s \in Sessions : \A g \in Gens(s) : g \in Gens(s)'
    BY <2>0, <2>1, GenNumbers DEF Gens
  <2>3. GenInv'
    <3>1. pc[z] # "persist"
      BY <2>1 DEF GenInv
    <3> QED
      BY <2>1, <2>2, <3>1 DEF GenInv
  <2>4. AnswerInv'
    <3> SUFFICES ASSUME NEW x \in Exchanges, pc[x] \in {"upstream", "persist"},
                        post'[x] = "rotated"
                 PROVE  /\ cred'[x].gen \in Gens(sess[x])'
                        /\ \A y \in Exchanges : sess[y] = sess[x] => gave[y] < cred'[x].gen
      BY <2>1 DEF AnswerInv, Gens
    <3>1. CASE x # z
      <4>1. sess[x] \in Sessions
        BY SessionOf
      <4> QED
        BY <2>1, <2>2, <3>1, <4>1 DEF AnswerInv
    <3>2. CASE x = z
      <4>1. cred'[x].gen \in Gens(sess[x])'
        BY <2>0, <2>1, <3>2, GenNumbers DEF Gens
      <4>2. \A y \in Exchanges : sess[y] = sess[x] => gave[y] <= upstream[sess[z]]
        BY <2>0, <3>2, GenNumbers DEF GenInv, Gens
      <4> QED
        BY <2>0, <2>1, <3>2, <4>1, <4>2, GenNumbers
    <3> QED
      BY <3>1, <3>2
  <2> QED
    BY <2>3, <2>4
<1>7. ASSUME NEW z \in Exchanges, OperatorRejects(z) PROVE Goal
  <2>1. /\ UNCHANGED <<session, upstream, pc, sess, seen, cred, gave>> /\ post[z] = "sent"
        /\ post'[z] = "rejected" /\ \A y \in Exchanges \ {z} : post'[y] = post[y]
    BY <1>7 DEF OperatorRejects, TypeOK
  <2> QED
    BY <2>1 DEF GenInv, AnswerInv, Gens
<1>8. CASE Tick \/ Still
  BY <1>1, <1>8 DEF Tick, Still, RequestsStill, OperatorStill
<1>9. \A y \in Exchanges : pc[y] # "idle" => sess[y] \in Sessions
  BY SessionOf
<1> QED
  BY Shapes, <1>2, <1>3, <1>4, <1>5, <1>6, <1>7, <1>8, <1>9, CodeBegins, RefreshBegins,
     CallBegins

------------------------------------------------------------------------------
(* A call has put the credentials of generation g back, or is about to. *)
Back(s, g) == \E c \in Calls : seen[c] # Absent /\ WritesBack(c, s, g)

(* A token request holds credentials it is about to present. *)
Fetched(x) == pc[x] = "resolved" /\ seen[x] # Absent

(* Credentials of generation g can be had from neither store nor request. *)
Replaced(s, g) ==
  /\ session[s] # Absent => session[s].val.gen # g
  /\ \A x \in Exchanges : Fetched(x) /\ sess[x] = s => seen[x].val.gen # g

(* What a request has presented: it is still at it, its session is lost, a   *)
(* call has put it back, or it is replaced.                                  *)
SpentInv ==
  \A y \in Exchanges : gave[y] # 0 =>
    \/ pc[y] \in {"upstream", "persist"}
    \/ Lost(sess[y])
    \/ Back(sess[y], gave[y])
    \/ Replaced(sess[y], gave[y])

LEMMA BackStays ==
  ASSUME TypeOK, [Next]_vars, NEW s \in Sessions, NEW g, Back(s, g)
  PROVE  Back(s, g)'
<1> USE OAuthAssumption DEF Procs
<1>0. PICK c \in Calls : /\ sess[c] = s /\ pc[c] \in {"replace", "merge", "done"}
                         /\ seen[c].val.gen = g /\ seen[c] # Absent
  BY DEF Back, WritesBack
<1> DEFINE Kept == /\ sess'[c] = sess[c] /\ seen'[c] = seen[c]
                   /\ pc'[c] \in {"replace", "merge", "done"}
<1>1. ASSUME UNCHANGED <<pc, sess, seen>> PROVE Kept
  BY <1>0, <1>1
<1>2. ASSUME NEW p \in Procs, NEW t, Begins(p, t) PROVE Kept
  BY <1>0, <1>2 DEF Begins, OnlyMoves
<1>3. ASSUME NEW p \in Procs, ReadSession(p) PROVE Kept
  BY <1>0, <1>3, ReadMoves DEF OnlyMoves
<1>4. ASSUME NEW p \in Procs, Works(p) PROVE Kept
  <2>1. CASE p # c
    BY <1>0, <1>4, <2>1 DEF Works, OnlyMoves
  <2>2. CASE p = c
    BY <1>0, <1>4, <2>2 DEF Works, CallWork, InFlight
  <2> QED
    BY <2>1, <2>2
<1>5. ASSUME NEW t \in Sessions, StoreSession(t) \/ StoreGrant(t) \/ LoginFails(t)
      PROVE  Kept
  BY <1>1, <1>5 DEF StoreSession, StoreGrant, LoginFails
<1>6. ASSUME NEW x \in Exchanges, OperatorRotates(x) \/ OperatorRejects(x)
      PROVE  Kept
  BY <1>1, <1>6 DEF OperatorRotates, OperatorRejects
<1>7. ASSUME Tick \/ Still PROVE Kept
  BY <1>1, <1>7 DEF Tick, Still, RequestsStill
<1>8. Kept
  BY Shapes, <1>2, <1>3, <1>4, <1>5, <1>6, <1>7, CodeBegins, RefreshBegins, CallBegins
<1> QED
  BY <1>0, <1>8 DEF Back, WritesBack

(* A request that gives up while it holds the right takes it with it. *)
LEMMA GivingUpLoses ==
  ASSUME TypeOK, RightInv, NEW y \in Exchanges, Works(y),
         pc[y] \in {"upstream", "persist"}, pc'[y] = "done"
  PROVE  Lost(sess[y])'
<1> USE OAuthAssumption DEF Procs
<1>1. PICK s \in Sessions : s = sess[y]
  BY SessionOf
<1>2. Holds(y, s) /\ refresh[y] = Absent
  BY <1>1 DEF RightInv, HandInv, Holds, Exchanging
<1>3. /\ UNCHANGED <<login, grant, refresh, sess>>
      /\ \A z \in Exchanges \ {y} : pc'[z] = pc[z]
  BY DEF Works, OnlyMoves, TokenWork, LoginsStill
<1>4. ~Unspent(s)' /\ \A z \in Exchanges \ {y} : ~Holds(z, s)'
  BY <1>2, <1>3 DEF RightInv, OneRefreshRight, Unspent, Holds
<1>5. ~Holds(y, s)'
  BY <1>2, <1>3 DEF Holds, Exchanging
<1> QED
  BY <1>1, <1>3, <1>4, <1>5 DEF Lost

(* Nothing brings replaced credentials back but a call. *)
LEMMA ReplacedStays ==
  ASSUME TypeOK, OneRefreshRight, FreshInv, AnswerInv, GenInv, [Next]_vars,
         NEW y \in Exchanges, pc[y] # "idle", NEW s \in Sessions, s = sess[y],
         NEW g, g = gave[y], Replaced(s, g)
  PROVE  Back(s, g)' \/ Replaced(s, g)'
<1> USE OAuthAssumption DEF Procs
<1>1. ASSUME UNCHANGED <<session, seen, sess, pc>> PROVE Replaced(s, g)'
  BY <1>1 DEF Replaced, Fetched
<1>2. ASSUME NEW t \in Sessions, StoreSession(t) \/ StoreGrant(t) \/ LoginFails(t)
      PROVE  Replaced(s, g)'
  <2>1. UNCHANGED <<seen, sess, pc>> /\ Unspent(t)
        /\ \A u \in Sessions \ {t} : session'[u] = session[u]
    BY <1>2 DEF StoreSession, StoreGrant, LoginFails, Put, Unspent, TypeOK
  <2>2. s # t
    BY <2>1 DEF FreshInv
  <2> QED
    BY <2>1, <2>2 DEF Replaced, Fetched
<1>3. ASSUME NEW p \in Procs, NEW t, Begins(p, t) PROVE Replaced(s, g)'
  <2>1. session' = session
        /\ \A x \in Exchanges : Fetched(x)' =>
             Fetched(x) /\ sess'[x] = sess[x] /\ seen'[x] = seen[x]
    BY <1>3 DEF Begins, OnlyMoves, Fetched
  <2> QED
    BY <2>1 DEF Replaced
<1>4. ASSUME NEW p \in Procs, ReadSession(p) PROVE Replaced(s, g)'
  <2>1. UNCHANGED <<session, sess>> /\ seen'[p] = session[sess[p]]
        /\ \A q \in Procs \ {p} : seen'[q] = seen[q] /\ pc'[q] = pc[q]
    BY <1>4, ReadMoves DEF OnlyMoves
  <2> QED
    BY <2>1 DEF Replaced, Fetched
<1>5. ASSUME NEW p \in Procs, Works(p) PROVE Back(s, g)' \/ Replaced(s, g)'
  <2>1. UNCHANGED <<sess, seen>> /\ OnlyMoves(p)
    BY <1>5 DEF Works
  <2>2. \A x \in Exchanges : Fetched(x)' => Fetched(x)
    BY <1>5, <2>1 DEF Works, OnlyMoves, TokenWork, Fetched
  <2>3. CASE session'[s] # Absent => session'[s].val.gen # g
    BY <2>1, <2>2, <2>3 DEF Replaced
  <2>4. ASSUME session'[s] # Absent, session'[s].val.gen = g PROVE Back(s, g)'
    <3>1. session'[s] # session[s]
      BY <2>4 DEF Replaced
    <3>2. ~(/\ s = sess[p] /\ p \in Exchanges /\ pc[p] = "persist"
            /\ session'[s].val = cred[p])
      <4>1. ASSUME s = sess[p], p \in Exchanges, pc[p] = "persist" PROVE g < cred[p].gen
        BY <4>1 DEF AnswerInv, GenInv
      <4> QED
        BY <2>4, <4>1, GenNumbers
    <3>3. /\ s = sess[p] /\ p \in Calls /\ pc'[p] = "done" /\ seen[p] # Absent
          /\ session'[s].val = seen[p].val
      BY <1>5, <2>4, <3>1, <3>2, WorkStores
    <3> QED
      BY <2>1, <2>4, <3>3 DEF Back, WritesBack
  <2> QED
    BY <2>3, <2>4
<1>6. ASSUME NEW x \in Exchanges, OperatorRotates(x) \/ OperatorRejects(x)
      PROVE  Replaced(s, g)'
  BY <1>1, <1>6 DEF OperatorRotates, OperatorRejects
<1>7. ASSUME Tick \/ Still PROVE Replaced(s, g)'
  BY <1>1, <1>7 DEF Tick, Still, RequestsStill
<1> QED
  BY Shapes, <1>2, <1>3, <1>4, <1>5, <1>6, <1>7, CodeBegins, RefreshBegins, CallBegins

(* A request that has presented credentials keeps its session, and moves on  *)
(* from presenting them by storing newer ones or by giving up.               *)
LEMMA AskerMoves ==
  ASSUME TypeOK, [Next]_vars, NEW y \in Exchanges, pc[y] # "idle"
  PROVE  /\ sess'[y] = sess[y]
         /\ pc[y] \in {"upstream", "persist"} =>
              \/ pc'[y] \in {"upstream", "persist"}
              \/ Works(y) /\ pc'[y] = "done"
              \/ Works(y) /\ pc'[y] = "expiry" /\ Put(sess[y], cred[y]) /\ pc[y] = "persist"
<1> USE OAuthAssumption DEF Procs
<1> DEFINE Goal == /\ sess'[y] = sess[y]
                   /\ pc'[y] = pc[y] \/ pc[y] \notin {"upstream", "persist"}
<1>1. ASSUME UNCHANGED <<pc, sess>> PROVE Goal
  BY <1>1
<1>2. ASSUME NEW p \in Procs, NEW t, Begins(p, t) PROVE Goal
  BY <1>2 DEF Begins, OnlyMoves
<1>3. ASSUME NEW p \in Procs, ReadSession(p) PROVE Goal
  BY <1>3, ReadMoves DEF OnlyMoves
<1>4. ASSUME NEW p \in Procs, p # y, Works(p) PROVE Goal
  BY <1>4 DEF Works, OnlyMoves
<1>5. CASE Works(y)
  <2>1. sess'[y] = sess[y] /\ TokenWork(y)
    BY <1>5 DEF Works
  <2> QED
    BY <1>5, <2>1 DEF TokenWork
<1>6. ASSUME NEW t \in Sessions, StoreSession(t) \/ StoreGrant(t) \/ LoginFails(t)
      PROVE  Goal
  BY <1>6 DEF StoreSession, StoreGrant, LoginFails
<1>7. ASSUME NEW x \in Exchanges, OperatorRotates(x) \/ OperatorRejects(x)
      PROVE  Goal
  BY <1>7 DEF OperatorRotates, OperatorRejects
<1>8. ASSUME Tick \/ Still PROVE Goal
  BY <1>8 DEF Tick, Still, RequestsStill
<1>9. Goal \/ Works(y)
  BY Shapes, <1>2, <1>3, <1>4, <1>6, <1>7, <1>8, CodeBegins, RefreshBegins, CallBegins
<1> QED
  BY <1>5, <1>9

LEMMA NextSpent ==
  TypeOK /\ RightInv /\ FreshInv /\ GenInv /\ AnswerInv /\ SpentInv /\ [Next]_vars
    => SpentInv'
<1> SUFFICES ASSUME TypeOK, RightInv, FreshInv, GenInv, AnswerInv, SpentInv, [Next]_vars,
                    NEW y \in Exchanges, gave'[y] # 0
             PROVE  \/ pc'[y] \in {"upstream", "persist"}
                    \/ Lost(sess[y])'
                    \/ Back(sess[y], gave[y])'
                    \/ Replaced(sess[y], gave[y])'
  BY DEF SpentInv
<1> USE OAuthAssumption DEF Procs
<1>0. OneRefreshRight /\ HandInv
  BY DEF RightInv
<1>1. CASE gave'[y] # gave[y]
  <2>1. SendRefresh(y)
    BY <1>1, OnlyHoldersAsk
  <2> QED
    BY <2>1 DEF SendRefresh, Goto, TypeOK
<1>2. CASE gave'[y] = gave[y]
  <2>0. gave[y] # 0 /\ pc[y] # "idle"
    BY <1>2 DEF GenInv
  <2>1. PICK s \in Sessions : s = sess[y]
    BY <2>0, SessionOf
  <2>2. PICK g \in Nat : g = gave[y]
    BY GenNumbers
  <2>3. sess'[y] = s /\ gave'[y] = g
    BY <1>2, <2>0, <2>1, <2>2, AskerMoves
  <2>4. Back(s, g)' => Back(sess[y], gave[y])'
    BY <2>3
  <2>5. Replaced(s, g)' => Replaced(sess[y], gave[y])'
    BY <2>3
  <2>6. Lost(s)' => Lost(sess[y])'
    BY <2>3
  <2>7. CASE pc[y] \in {"upstream", "persist"}
    <3>1. CASE Works(y) /\ pc'[y] = "done"
      BY <2>7, <3>1, GivingUpLoses
    <3>2. CASE Works(y) /\ pc'[y] = "expiry" /\ Put(sess[y], cred[y]) /\ pc[y] = "persist"
      <4>1. session'[s].val = cred[y]
        BY <2>1, <3>2 DEF Put, Item, TypeOK
      <4>2. g < cred[y].gen
        BY <2>2, <3>2 DEF AnswerInv, GenInv
      <4>3. ASSUME NEW x \in Exchanges, Fetched(x)', sess'[x] = s PROVE FALSE
        <5>1. x # y /\ pc[x] = "resolved" /\ sess[x] = s
          BY <3>2, <4>3 DEF Works, OnlyMoves, Fetched
        <5> QED
          BY <1>0, <2>1, <3>2, <5>1 DEF OneRefreshRight, Holds, Exchanging
      <4>4. Replaced(s, g)'
        BY <4>1, <4>2, <4>3, GenNumbers DEF Replaced
      <4> QED
        BY <2>5, <4>4
    <3> QED
      BY <2>0, <2>7, <3>1, <3>2, AskerMoves
  <2>8. CASE Lost(s)
    BY <1>0, <2>6, <2>8, LostStays
  <2>9. CASE Back(s, g)
    BY <2>4, <2>9, BackStays
  <2>10. CASE Replaced(s, g)
    BY <1>0, <2>0, <2>1, <2>2, <2>4, <2>5, <2>10, ReplacedStays
  <2> QED
    BY <2>0, <2>1, <2>2, <2>7, <2>8, <2>9, <2>10 DEF SpentInv
<1> QED
  BY <1>1, <1>2

LEMMA NextReuse ==
  TypeOK /\ OneRefreshRight /\ GenInv /\ GenInv' /\ SpentInv /\ ReuseNeedsWriteBack
    /\ [Next]_vars => ReuseNeedsWriteBack'
<1> SUFFICES ASSUME TypeOK, OneRefreshRight, GenInv, GenInv', SpentInv,
                    ReuseNeedsWriteBack, [Next]_vars,
                    NEW x \in Exchanges, NEW y \in Exchanges, x # y,
                    sess'[x] = sess'[y], gave'[x] # 0, gave'[x] = gave'[y]
             PROVE  Back(sess[x], gave[x])'
  BY DEF ReuseNeedsWriteBack, Back
<1> USE OAuthAssumption DEF Procs
<1>1. ASSUME NEW u \in Exchanges, NEW v \in Exchanges, u # v, SendRefresh(u),
             sess'[u] = sess'[v], gave'[u] = gave'[v], gave'[u] # 0
      PROVE  Back(sess'[u], gave'[u])
  <2>1. PICK s \in Sessions : s = sess[u]
    BY <1>1, SessionOf DEF SendRefresh
  <2>2. /\ sess'[u] = s /\ sess[v] = s /\ gave'[v] = gave[v] /\ gave[v] # 0
        /\ gave[v] = seen[u].val.gen /\ Fetched(u)
    BY <1>1, <2>1, LiveCreds DEF SendRefresh, Fetched, TypeOK
  <2>3. Holds(u, s)
    BY <1>1, <2>1 DEF SendRefresh, Holds, Exchanging
  <2>4. pc[v] \notin {"upstream", "persist"}
    BY <1>1, <2>2, <2>3 DEF OneRefreshRight, Holds, Exchanging
  <2>5. ~Lost(s)
    BY <2>3 DEF Lost
  <2>6. ~Replaced(s, gave[v])
    BY <2>1, <2>2 DEF Replaced
  <2>7. Back(s, gave[v])
    BY <2>2, <2>4, <2>5, <2>6 DEF SpentInv
  <2> QED
    BY <1>1, <2>2, <2>7
<1>2. ASSUME Back(sess'[x], gave'[x]) PROVE Back(sess[x], gave[x])'
  <2>1. PICK s, g : s = sess'[x] /\ g = gave'[x]
    OBVIOUS
  <2>2. s \in Sessions
    BY <2>1 DEF GenInv
  <2>3. Back(s, g)'
    BY <1>2, <2>1, <2>2, BackStays
  <2> QED
    BY <2>1, <2>3
<1>3. CASE gave'[x] = gave[x] /\ gave'[y] = gave[y]
  <2>1. sess'[x] = sess[x] /\ sess'[y] = sess[y]
    BY <1>3, AskerMoves DEF GenInv
  <2>2. Back(sess[x], gave[x])
    BY <1>3, <2>1 DEF ReuseNeedsWriteBack, Back
  <2> QED
    BY <1>2, <1>3, <2>1, <2>2
<1>4. CASE gave'[x] # gave[x]
  BY <1>1, <1>2, <1>4, OnlyHoldersAsk
<1>5. CASE gave'[y] # gave[y]
  BY <1>1, <1>2, <1>5, OnlyHoldersAsk
<1> QED
  BY <1>3, <1>4, <1>5

(* Token requests on their own never present credentials twice: whenever two *)
(* have presented the same ones, a tool call has put them back over the      *)
(* credentials that replaced them.                                           *)
THEOREM ReuseByCallsOnly == Spec => []ReuseNeedsWriteBack
<1> DEFINE IInv == /\ TypeOK /\ RightInv /\ SentInv /\ ClockInv /\ FreshInv /\ StageInv
                   /\ GenInv /\ AnswerInv /\ SpentInv /\ ReuseNeedsWriteBack
<1>1. Init => IInv
  <2>1. Init => SentInv /\ GenInv /\ AnswerInv /\ SpentInv /\ ReuseNeedsWriteBack
    BY OAuthAssumption
       DEF Init, SentInv, GenInv, AnswerInv, SpentInv, ReuseNeedsWriteBack, Procs
  <2> QED
    BY <2>1, InitType, InitRight, InitHeld, InitBound
<1>2. IInv /\ [Next]_vars => IInv'
  <2>1. RightInv => OneRefreshRight
    BY DEF RightInv
  <2>2. IInv /\ [Next]_vars => TypeOK' /\ RightInv' /\ SentInv' /\ ClockInv' /\ FreshInv'
    BY NextType, NextRight, NextSent, NextClock, NextFresh
  <2>3. IInv /\ [Next]_vars => StageInv' /\ GenInv' /\ AnswerInv'
    BY <2>1, NextStage, NextGen
  <2>4. IInv /\ [Next]_vars => SpentInv' /\ ReuseNeedsWriteBack'
    BY <2>1, <2>3, NextSpent, NextReuse
  <2> QED
    BY <2>2, <2>3, <2>4
<1> QED
  BY <1>1, <1>2, PTL DEF Spec

(* Without tool calls each rotation of the operator's credentials is final:  *)
(* no two token requests present the same refresh token.                     *)
THEOREM RotationIsFinal ==
  ASSUME Calls = {} PROVE Spec => []RotatedTokenNotReused
<1>1. ReuseNeedsWriteBack => RotatedTokenNotReused
  BY DEF ReuseNeedsWriteBack, RotatedTokenNotReused
<1> QED
  BY <1>1, ReuseByCallsOnly, PTL
=============================================================================
