----------------------------- MODULE OAuthProofs -----------------------------
(***************************************************************************)
(* Theorems about OAuthSession, for any sets of logins, token requests and *)
(* tool calls and any lifetimes.                                           *)
(***************************************************************************)
EXTENDS OAuthSession, TLAPS

(* A request that has not issued its refresh token has none. *)
HandInv ==
  \A x \in Exchanges : pc[x] \in Exchanging \cup {"idle"} => refresh[x] = Absent

RightInv == HandInv /\ OneRefreshRight

------------------------------------------------------------------------------
(* The ways a login, a request, the operator or the clock can step. *)
LEMMA NextCases ==
  ASSUME Next
  PROVE  \/ \E s \in Sessions : StoreSession(s)
         \/ \E s \in Sessions : StoreGrant(s)
         \/ \E s \in Sessions : LoginFails(s)
         \/ \E x \in Exchanges, s \in Sessions : RedeemCode(x, s)
         \/ \E x, y \in Exchanges : RedeemRefresh(x, y)
         \/ \E y \in Exchanges : Revoke(y)
         \/ \E p \in Procs : ReadSession(p)
         \/ \E x \in Exchanges : SessionLost(x)
         \/ \E x \in Exchanges : SendRefresh(x)
         \/ \E x \in Exchanges : RefreshRefused(x)
         \/ \E x \in Exchanges : OperatorRotates(x)
         \/ \E x \in Exchanges : OperatorRejects(x)
         \/ \E x \in Exchanges : HearRotation(x)
         \/ \E x \in Exchanges : HearFailure(x)
         \/ \E x \in Exchanges : Persist(x)
         \/ \E x \in Exchanges : BoundAccess(x)
         \/ \E x \in Exchanges : Issue(x)
         \/ \E x \in Exchanges : Deliver(x)
         \/ \E c \in Calls, x \in Exchanges : CallTool(c, x)
         \/ \E c \in Calls : UseProfile(c)
         \/ \E c \in Calls : ReplaceProfile(c)
         \/ \E c \in Calls : MergeProfile(c)
         \/ \E p \in Procs : Fail(p)
         \/ Tick
BY DEF Next, LoginStep, Exchange, Serve, Procs

(* The entries the steps write have their types. *)
LEMMA WrittenTypes ==
  /\ Absent \in Entries(Creds) /\ Absent \in Entries({"grant"})
  /\ Absent \in Entries({"active"})
  /\ \A c \in Creds, e \in Nat : Item(c, e) \in Entries(Creds)
  /\ \A e \in Nat : Item("grant", e) \in Entries({"grant"})
  /\ \A e \in Nat : Item("active", e) \in Entries({"active"})
BY DEF Entries, Item

(* Only credentials are live in a session. *)
LEMMA LiveCreds ==
  ASSUME NEW e \in Entries(Creds), NEW t \in Nat, Live(e, t)
  PROVE  e.val \in Creds /\ e # Absent
BY DEF Live, Absent, Entries

LEMMA PresentCreds ==
  ASSUME NEW e \in Entries(Creds), e # Absent
  PROVE  e.val \in Creds
BY DEF Entries

LEMMA PutType ==
  ASSUME TypeOK, NEW s \in Sessions, NEW c \in Creds, Put(s, c)
  PROVE  session' \in [Sessions -> Entries(Creds)]
<1>1. Item(c, now + SessionTTL) \in Entries(Creds)
  BY OAuthAssumption, WrittenTypes DEF TypeOK
<1> QED
  BY <1>1 DEF TypeOK, Put

LEMMA PurgeType ==
  ASSUME TypeOK, NEW s \in Sessions, Purge(s)
  PROVE  session' \in [Sessions -> Entries(Creds)]
BY WrittenTypes DEF TypeOK, Purge

LEMMA SessionOf ==
  ASSUME TypeOK, NEW p \in Procs, pc[p] # "idle"
  PROVE  sess[p] \in Sessions
BY DEF TypeOK, ShapeOK

LEMMA ReadLabels ==
  /\ DOMAIN NextAfterRead = {"resolve", "expiry", "reread"}
  /\ NextAfterRead["resolve"] = "resolved"
  /\ NextAfterRead["expiry"] = "bounded"
  /\ NextAfterRead["reread"] = "merge"
BY DEF NextAfterRead

(* Answering ends a request, and no other one. *)
LEMMA ReplyType ==
  ASSUME TypeOK, NEW x \in Exchanges, pc[x] # "idle", UNCHANGED <<sess, seen>>,
         NEW a \in {"invalid_grant", "reauthenticate", "tokens", "error"},
         Reply(x, a)
  PROVE  /\ pc' \in [Procs -> Labels]
         /\ answer' \in [Exchanges -> {"none", "invalid_grant", "reauthenticate",
                                       "tokens", "error"}]
         /\ ShapeOK'
<1>1. pc' \in [Procs -> Labels] /\ pc' = [pc EXCEPT ![x] = "done"]
  BY DEF TypeOK, Reply, Goto, Labels
<1>2. answer' = [answer EXCEPT ![x] = a]
  BY DEF Reply
<1>3. x \in Procs /\ x \notin Calls
  BY OAuthAssumption DEF Procs
<1> QED
  BY <1>1, <1>2, <1>3 DEF TypeOK, ShapeOK, Procs

(* A request that starts is about a session. *)
Starts(x, s) ==
  /\ pc[x] = "idle"
  /\ sess' = [sess EXCEPT ![x] = s]
  /\ since' = [since EXCEPT ![x] = now]

LEMMA StartType ==
  ASSUME TypeOK, NEW x \in Exchanges, NEW s \in Sessions, Starts(x, s),
         UNCHANGED seen,
         \/ pc' = [pc EXCEPT ![x] = "expiry"] /\ UNCHANGED answer
         \/ pc' = [pc EXCEPT ![x] = "resolve"] /\ UNCHANGED answer
         \/ /\ pc' = [pc EXCEPT ![x] = "done"]
            /\ answer' = [answer EXCEPT ![x] = "invalid_grant"]
  PROVE  /\ pc' \in [Procs -> Labels]
         /\ sess' \in [Procs -> Sessions \cup {NoSession}]
         /\ since' \in [Procs -> Nat]
         /\ answer' \in [Exchanges -> {"none", "invalid_grant", "reauthenticate",
                                       "tokens", "error"}]
         /\ ShapeOK'
<1>1. x \in Procs /\ x \notin Calls /\ s # NoSession
  BY OAuthAssumption DEF Procs
<1>2. /\ pc' \in [Procs -> Labels]
      /\ sess' \in [Procs -> Sessions \cup {NoSession}]
      /\ since' \in [Procs -> Nat]
  BY <1>1 DEF TypeOK, Starts, Labels, Exchanging
<1>3. answer' \in [Exchanges -> {"none", "invalid_grant", "reauthenticate",
                                "tokens", "error"}]
  BY DEF TypeOK
<1>4. \A p \in Procs : (pc'[p] = "idle") <=> (sess'[p] = NoSession)
  BY <1>1 DEF TypeOK, ShapeOK, Starts
<1>5. /\ \A c \in Calls : pc'[c] \in {"idle", "resolve", "resolved", "replace",
                                     "reread", "merge", "done"}
      /\ \A c \in Calls : pc'[c] = "replace" => seen'[c] # Absent
  <2>1. \A c \in Calls : pc'[c] = pc[c] /\ seen'[c] = seen[c]
    BY <1>1 DEF TypeOK, Procs
  <2> QED
    BY <2>1 DEF TypeOK, ShapeOK
<1>6. \A y \in Exchanges : pc'[y] \in Exchanging \cup {"idle", "reply", "done"}
  BY <1>1 DEF TypeOK, ShapeOK, Exchanging, Procs
<1>7. \A y \in Exchanges : answer'[y] = "tokens" => pc'[y] = "done"
  BY <1>1 DEF TypeOK, ShapeOK, Starts, Procs
<1> QED
  BY <1>2, <1>3, <1>4, <1>5, <1>6, <1>7 DEF ShapeOK

LEMMA InitType == Init => TypeOK
BY OAuthAssumption, WrittenTypes
   DEF Init, TypeOK, ShapeOK, Labels, Exchanging, Creds, NoCred, Procs

LEMMA NextType == TypeOK /\ [Next]_vars => TypeOK'
<1> SUFFICES ASSUME TypeOK, [Next]_vars PROVE TypeOK'
  OBVIOUS
<1> USE OAuthAssumption, WrittenTypes DEF Procs
<1>0. CASE UNCHANGED vars
  BY <1>0 DEF vars, TypeOK, ShapeOK
<1>1. ASSUME NEW s \in Sessions, StoreSession(s) PROVE TypeOK'
  <2>1. session' \in [Sessions -> Entries(Creds)]
    <3>1. [gen |-> 1, until |-> now + UpstreamTTL] \in Creds
      BY DEF TypeOK, Creds
    <3>2. Put(s, [gen |-> 1, until |-> now + UpstreamTTL])
      BY <1>1 DEF StoreSession
    <3> QED
      BY <3>1, <3>2, PutType
  <2>2. /\ login' = [login EXCEPT ![s] = "stored"] /\ upstream' = [upstream EXCEPT ![s] = 1]
        /\ UNCHANGED <<now, grant, refresh, pc, sess, since, seen, post, gave, cred,
                       access, answer>>
    BY <1>1 DEF StoreSession
  <2> QED
    BY <2>1, <2>2 DEF TypeOK, ShapeOK
<1>2. ASSUME NEW s \in Sessions, StoreGrant(s) PROVE TypeOK'
  BY <1>2 DEF TypeOK, ShapeOK, StoreGrant
<1>3. ASSUME NEW s \in Sessions, LoginFails(s) PROVE TypeOK'
  BY <1>3 DEF TypeOK, ShapeOK, LoginFails
<1>4. ASSUME NEW x \in Exchanges, NEW s \in Sessions, RedeemCode(x, s) PROVE TypeOK'
  <2>1. grant' \in [Sessions -> Entries({"grant"})]
    BY <1>4 DEF RedeemCode, TypeOK
  <2>2. /\ Starts(x, s)
        /\ \/ pc' = [pc EXCEPT ![x] = "expiry"] /\ UNCHANGED answer
           \/ /\ pc' = [pc EXCEPT ![x] = "done"]
              /\ answer' = [answer EXCEPT ![x] = "invalid_grant"]
    BY <1>4 DEF RedeemCode, Start, Goto, Reply, Starts
  <2> QED
    BY <1>4, <2>1, <2>2, StartType DEF TypeOK, RedeemCode
<1>5. ASSUME NEW x \in Exchanges, NEW y \in Exchanges, RedeemRefresh(x, y) PROVE TypeOK'
  <2>1. sess[y] \in Sessions
    BY <1>5, SessionOf DEF RedeemRefresh, TypeOK, ShapeOK
  <2>2. refresh' \in [Exchanges -> Entries({"active"})]
    BY <1>5 DEF RedeemRefresh, TypeOK
  <2>3. /\ Starts(x, sess[y])
        /\ \/ pc' = [pc EXCEPT ![x] = "resolve"] /\ UNCHANGED answer
           \/ /\ pc' = [pc EXCEPT ![x] = "done"]
              /\ answer' = [answer EXCEPT ![x] = "invalid_grant"]
    BY <1>5 DEF RedeemRefresh, Start, Goto, Reply, Starts
  <2> QED
    BY <1>5, <2>1, <2>2, <2>3, StartType DEF TypeOK, RedeemRefresh
<1>6. ASSUME NEW y \in Exchanges, Revoke(y) PROVE TypeOK'
  BY <1>6 DEF TypeOK, ShapeOK, Revoke
<1>7. ASSUME NEW p \in Procs, ReadSession(p) PROVE TypeOK'
  <2>1. sess[p] \in Sessions
    BY <1>7, SessionOf DEF ReadSession, NextAfterRead
  <2>2. \/ pc[p] = "resolve" /\ pc' = [pc EXCEPT ![p] = "resolved"]
        \/ pc[p] = "expiry" /\ pc' = [pc EXCEPT ![p] = "bounded"]
        \/ pc[p] = "reread" /\ pc' = [pc EXCEPT ![p] = "merge"]
    BY <1>7, ReadLabels DEF ReadSession, Goto
  <2>3. seen' \in [Procs -> Entries(Creds)]
    BY <1>7, <2>1 DEF ReadSession, TypeOK
  <2>4. ShapeOK'
    BY <1>7, <2>2, <2>3 DEF TypeOK, ShapeOK, ReadSession, Exchanging
  <2> QED
    BY <1>7, <2>2, <2>3, <2>4 DEF TypeOK, ReadSession, Labels, Exchanging
<1>8. ASSUME NEW x \in Exchanges, SessionLost(x) PROVE TypeOK'
  <2>1. session' \in [Sessions -> Entries(Creds)]
    BY <1>8, SessionOf, PurgeType DEF SessionLost
  <2> QED
    BY <1>8, <2>1, ReplyType DEF TypeOK, SessionLost
<1>9. ASSUME NEW x \in Exchanges, SendRefresh(x) PROVE TypeOK'
  <2>1. seen[x].val.gen \in Nat
    BY <1>9, LiveCreds DEF SendRefresh, TypeOK, Creds
  <2> QED
    BY <1>9, <2>1 DEF TypeOK, ShapeOK, SendRefresh, Goto, Labels, Exchanging
<1>10. ASSUME NEW x \in Exchanges, RefreshRefused(x) PROVE TypeOK'
  BY <1>10, ReplyType DEF TypeOK, RefreshRefused
<1>11. ASSUME NEW x \in Exchanges, OperatorRotates(x) PROVE TypeOK'
  <2>1. sess[x] \in Sessions => upstream[sess[x]] + 1 \in Nat
    BY DEF TypeOK
  <2>2. upstream' \in [Sessions -> Nat]
    BY <1>11, <2>1 DEF OperatorRotates, TypeOK
  <2>3. now + UpstreamTTL \in Nat
    BY DEF TypeOK
  <2>4. ASSUME sess[x] \in Sessions PROVE cred' \in [Exchanges -> Creds]
    BY <1>11, <2>1, <2>3, <2>4 DEF OperatorRotates, TypeOK, Creds
  <2> QED
    BY <1>11, <2>2, <2>4 DEF TypeOK, ShapeOK, OperatorRotates
<1>12. ASSUME NEW x \in Exchanges, OperatorRejects(x) PROVE TypeOK'
  BY <1>12 DEF TypeOK, ShapeOK, OperatorRejects
<1>13. ASSUME NEW x \in Exchanges, HearRotation(x) PROVE TypeOK'
  BY <1>13 DEF TypeOK, ShapeOK, HearRotation, Goto, Labels, Exchanging
<1>14. ASSUME NEW x \in Exchanges, HearFailure(x) PROVE TypeOK'
  BY <1>14, ReplyType DEF TypeOK, HearFailure
<1>15. ASSUME NEW x \in Exchanges, Persist(x) PROVE TypeOK'
  <2>1. session' \in [Sessions -> Entries(Creds)]
    BY <1>15, SessionOf, PutType DEF Persist, TypeOK
  <2> QED
    BY <1>15, <2>1 DEF TypeOK, ShapeOK, Persist, Goto, Labels, Exchanging
<1>16. ASSUME NEW x \in Exchanges, BoundAccess(x) PROVE TypeOK'
  <2>1. since[x] + AccessTTL \in Nat
    BY DEF TypeOK
  <2>2. Live(seen[x], now) => seen[x].val.until \in Nat
    BY LiveCreds DEF TypeOK, Creds
  <2>3. access' \in [Exchanges -> Nat]
    BY <1>16, <2>1, <2>2 DEF BoundAccess, TypeOK
  <2>4. session' \in [Sessions -> Entries(Creds)]
    BY <1>16, SessionOf, PurgeType DEF BoundAccess, TypeOK
  <2> QED
    BY <1>16, <2>3, <2>4 DEF TypeOK, ShapeOK, BoundAccess, Goto, Labels, Exchanging
<1>17. ASSUME NEW x \in Exchanges, Issue(x) PROVE TypeOK'
  BY <1>17 DEF TypeOK, ShapeOK, Issue, Goto, Labels, Exchanging
<1>18. ASSUME NEW x \in Exchanges, Deliver(x) PROVE TypeOK'
  BY <1>18, ReplyType DEF TypeOK, Deliver
<1>19. ASSUME NEW c \in Calls, NEW x \in Exchanges, CallTool(c, x) PROVE TypeOK'
  <2>1. sess[x] \in Sessions
    BY <1>19, SessionOf DEF CallTool, TypeOK, ShapeOK
  <2> QED
    BY <1>19, <2>1 DEF TypeOK, ShapeOK, CallTool, Start, Goto, Labels, Exchanging
<1>20. ASSUME NEW c \in Calls, UseProfile(c) PROVE TypeOK'
  <2>1. session' \in [Sessions -> Entries(Creds)]
    BY <1>20, SessionOf, PurgeType DEF UseProfile, TypeOK
  <2>2. pc'[c] = "replace" => seen[c] # Absent
    BY <1>20, LiveCreds DEF UseProfile, TypeOK, Goto
  <2>3. \E l \in {"replace", "reread", "done"} : pc' = [pc EXCEPT ![c] = l]
    BY <1>20 DEF UseProfile, Goto
  <2>4. ShapeOK'
    BY <1>20, <2>2, <2>3 DEF TypeOK, ShapeOK, UseProfile, Exchanging
  <2> QED
    BY <1>20, <2>1, <2>3, <2>4 DEF TypeOK, UseProfile, Labels, Exchanging
<1>21. ASSUME NEW c \in Calls, ReplaceProfile(c) PROVE TypeOK'
  <2>1. seen[c].val \in Creds
    BY <1>21, PresentCreds DEF ReplaceProfile, TypeOK, ShapeOK
  <2>2. session' \in [Sessions -> Entries(Creds)]
    BY <1>21, <2>1, SessionOf, PutType DEF ReplaceProfile
  <2> QED
    BY <1>21, <2>2 DEF TypeOK, ShapeOK, ReplaceProfile, Goto, Labels, Exchanging
<1>22. ASSUME NEW c \in Calls, MergeProfile(c) PROVE TypeOK'
  <2>1. Live(seen[c], now) => seen[c].val \in Creds
    BY LiveCreds DEF TypeOK
  <2>2. session' \in [Sessions -> Entries(Creds)]
    BY <1>22, <2>1, SessionOf, PutType, PurgeType DEF MergeProfile
  <2> QED
    BY <1>22, <2>2 DEF TypeOK, ShapeOK, MergeProfile, Goto, Labels, Exchanging
<1>23. ASSUME NEW p \in Procs, Fail(p) PROVE TypeOK'
  BY <1>23 DEF TypeOK, ShapeOK, Fail, InFlight, Goto, Labels, Exchanging
<1>24. CASE Tick
  BY <1>24 DEF TypeOK, ShapeOK, Tick
<1> QED
  BY NextCases, <1>0, <1>1, <1>2, <1>3, <1>4, <1>5, <1>6, <1>7, <1>8, <1>9, <1>10, <1>11, <1>12, <1>13, <1>14, <1>15, <1>16, <1>17, <1>18, <1>19, <1>20, <1>21, <1>22, <1>23, <1>24

(* Every reachable state of the sessions, tokens and requests is well typed: *)
(* in particular no tool call ever writes back a profile it did not find.    *)
THEOREM TypeCorrect == Spec => []TypeOK
BY InitType, NextType, PTL DEF Spec

------------------------------------------------------------------------------
(* The step leaves the right to refresh session t where it is. *)
Same(t) ==
  /\ Unspent(t)' <=> Unspent(t)
  /\ \A x \in Exchanges : Holds(x, t)' <=> Holds(x, t)

(* The step gives nobody the right to refresh session s. *)
Loses(s) ==
  /\ Unspent(s)' => Unspent(s)
  /\ \A x \in Exchanges : Holds(x, s)' => Holds(x, s)

LosesOnly(s) == Loses(s) /\ \A t \in Sessions \ {s} : Same(t)

SameHands == \A x \in Exchanges : sess'[x] = sess[x]

Redeeming ==
  \/ \E x \in Exchanges, s \in Sessions : RedeemCode(x, s)
  \/ \E x, y \in Exchanges : RedeemRefresh(x, y)

(* Only presenting a code or a token gives anybody the right; every other    *)
(* step takes it from one session at most.                                   *)
LEMMA Footprint ==
  ASSUME TypeOK, HandInv, [Next]_vars, ~Redeeming
  PROVE  /\ SameHands
         /\ \/ \A t \in Sessions : Same(t)
            \/ \E s \in Sessions : LosesOnly(s)
<1> DEFINE Goal == SameHands /\ \/ \A t \in Sessions : Same(t)
                                \/ \E s \in Sessions : LosesOnly(s)
<1> USE OAuthAssumption DEF Procs
<1>0. CASE UNCHANGED vars
  BY <1>0 DEF vars, SameHands, Same, Unspent, Holds
<1>1. ASSUME NEW s \in Sessions, StoreSession(s) PROVE Goal
  BY <1>1 DEF StoreSession, SameHands, Same, Unspent, Holds, TypeOK
<1>2. ASSUME NEW s \in Sessions, StoreGrant(s) PROVE Goal
  BY <1>2 DEF StoreGrant, SameHands, Same, Loses, LosesOnly, Unspent, Holds, TypeOK
<1>3. ASSUME NEW s \in Sessions, LoginFails(s) PROVE Goal
  BY <1>3 DEF LoginFails, SameHands, Same, Loses, LosesOnly, Unspent, Holds, TypeOK
<1>6. ASSUME NEW y \in Exchanges, Revoke(y) PROVE Goal
  <2>1. PICK s \in Sessions : s = sess[y]
    BY <1>6, SessionOf DEF Revoke, TypeOK, ShapeOK
  <2>2. LosesOnly(s)
    BY <1>6, <2>1 DEF Revoke, Same, Loses, LosesOnly, Unspent, Holds, TypeOK
  <2> QED
    BY <1>6, <2>1, <2>2 DEF Revoke, SameHands
<1>7. ASSUME NEW p \in Procs, ReadSession(p) PROVE Goal
  <2>1. \A x \in Exchanges : pc'[x] \in Exchanging <=> pc[x] \in Exchanging
    BY <1>7, ReadLabels DEF ReadSession, Goto, Exchanging, TypeOK
  <2> QED
    BY <1>7, <2>1 DEF ReadSession, SameHands, Same, Unspent, Holds
<1>8. ASSUME NEW x \in Exchanges, pc[x] \in Exchanging, UNCHANGED <<sess, login, grant>>,
             \A z \in Exchanges \ {x} : pc'[z] = pc[z] /\ refresh'[z] = refresh[z]
      PROVE  Goal
  <2>1. PICK s \in Sessions : s = sess[x]
    BY <1>8, SessionOf DEF Exchanging
  <2>2. LosesOnly(s)
    BY <1>8, <2>1 DEF Same, Loses, LosesOnly, Unspent, Holds
  <2> QED
    BY <1>8, <2>1, <2>2 DEF SameHands
<1>9. ASSUME UNCHANGED <<login, grant, refresh>>, SameHands,
             \A z \in Exchanges : pc'[z] \in Exchanging <=> pc[z] \in Exchanging
      PROVE  Goal
  BY <1>9 DEF SameHands, Same, Unspent, Holds
<1>10. ASSUME NEW x \in Exchanges,
              \/ SessionLost(x) \/ RefreshRefused(x) \/ HearFailure(x) \/ Issue(x)
       PROVE  Goal
  <2>1. pc[x] \in Exchanging /\ UNCHANGED <<sess, login, grant>>
    BY <1>10 DEF SessionLost, RefreshRefused, HearFailure, Issue, Exchanging
  <2>2. \A z \in Exchanges \ {x} : pc'[z] = pc[z] /\ refresh'[z] = refresh[z]
    BY <1>10 DEF SessionLost, RefreshRefused, HearFailure, Issue, Reply, Goto, TypeOK
  <2> QED
    BY <1>8, <2>1, <2>2
<1>11. ASSUME NEW x \in Exchanges,
              \/ SendRefresh(x) \/ HearRotation(x) \/ Persist(x) \/ BoundAccess(x)
              \/ Deliver(x)
       PROVE  Goal
  <2>1. UNCHANGED <<login, grant, refresh>> /\ SameHands
    BY <1>11 DEF SendRefresh, HearRotation, Persist, BoundAccess, Deliver, SameHands
  <2>2. \A z \in Exchanges : pc'[z] \in Exchanging <=> pc[z] \in Exchanging
    BY <1>11 DEF SendRefresh, HearRotation, Persist, BoundAccess, Deliver, Reply,
                 Goto, Exchanging, TypeOK
  <2> QED
    BY <1>9, <2>1, <2>2
<1>12. ASSUME NEW x \in Exchanges, OperatorRotates(x) \/ OperatorRejects(x)
       PROVE  Goal
  BY <1>9, <1>12 DEF OperatorRotates, OperatorRejects, SameHands
<1>13. ASSUME NEW c \in Calls,
              \/ \E x \in Exchanges : CallTool(c, x)
              \/ UseProfile(c) \/ ReplaceProfile(c) \/ MergeProfile(c)
       PROVE  Goal
  <2>1. UNCHANGED <<login, grant, refresh>>
    BY <1>13 DEF CallTool, UseProfile, ReplaceProfile, MergeProfile
  <2>2. \A z \in Exchanges : pc'[z] = pc[z] /\ sess'[z] = sess[z]
    BY <1>13 DEF CallTool, UseProfile, ReplaceProfile, MergeProfile, Start, Goto, TypeOK
  <2> QED
    BY <1>9, <2>1, <2>2 DEF SameHands
<1>14. ASSUME NEW p \in Procs, Fail(p) PROVE Goal
  <2>1. UNCHANGED <<sess, login, grant, refresh>> /\ pc' = [pc EXCEPT ![p] = "done"]
    BY <1>14 DEF Fail, Goto
  <2>2. CASE p \in Exchanges /\ pc[p] \in Exchanging
    BY <1>8, <2>1, <2>2 DEF TypeOK
  <2>3. CASE p \notin Exchanges \/ pc[p] \notin Exchanging
    BY <1>9, <2>1, <2>3 DEF TypeOK, SameHands, Exchanging
  <2> QED
    BY <2>2, <2>3
<1>15. CASE Tick
  BY <1>9, <1>15 DEF Tick, SameHands
<1> QED
  BY NextCases, <1>0, <1>1, <1>2, <1>3, <1>6, <1>7, <1>10, <1>11, <1>12, <1>13, <1>14, <1>15
     DEF Redeeming

(* A code or token that is still live is the right. *)
LEMMA LiveIsPresent ==
  ASSUME NEW e, NEW t \in Nat, Live(e, t)
  PROVE  e # Absent
BY DEF Live, Absent

(* Presenting a code: the right passes to the request, or is lost.           *)
LEMMA CodeEffect ==
  ASSUME TypeOK, HandInv, NEW x \in Exchanges, NEW s \in Sessions, RedeemCode(x, s)
  PROVE  /\ pc[x] = "idle" /\ sess' = [sess EXCEPT ![x] = s]
         /\ \A t \in Sessions \ {s} : Same(t)
         /\ \A z \in Exchanges \ {x} : Holds(z, s)' <=> Holds(z, s)
         /\ \/ Unspent(s) /\ ~Unspent(s)' /\ Holds(x, s)'
            \/ Loses(s)
<1> USE OAuthAssumption DEF Procs
<1>1. /\ pc[x] = "idle" /\ sess' = [sess EXCEPT ![x] = s] /\ sess[x] \notin Sessions
      /\ refresh[x] = Absent /\ UNCHANGED <<login, refresh>> /\ login[s] = "granted"
      /\ grant' = [grant EXCEPT ![s] = Absent] /\ grant'[s] = Absent
  BY DEF RedeemCode, Start, TypeOK, ShapeOK, HandInv, Exchanging
<1>2. \A z \in Procs \ {x} : pc'[z] = pc[z] /\ sess'[z] = sess[z]
  BY <1>1 DEF RedeemCode, Goto, Reply, TypeOK
<1>3. \A t \in Sessions \ {s} : Same(t)
  BY <1>1, <1>2 DEF Same, Unspent, Holds, TypeOK
<1>4. \A z \in Exchanges \ {x} : Holds(z, s)' <=> Holds(z, s)
  BY <1>1, <1>2 DEF Holds
<1>5. CASE Live(grant[s], now) /\ pc' = [pc EXCEPT ![x] = "expiry"]
  <2>1. Unspent(s) /\ ~Unspent(s)'
    BY <1>1, <1>5, LiveIsPresent DEF Unspent, TypeOK
  <2>2. Holds(x, s)'
    BY <1>1, <1>5 DEF Holds, Exchanging, TypeOK
  <2> QED
    BY <1>1, <1>3, <1>4, <2>1, <2>2
<1>6. CASE pc' = [pc EXCEPT ![x] = "done"]
  <2>1. ~Holds(x, s)' /\ ~Unspent(s)'
    BY <1>1, <1>6 DEF Holds, Unspent, Exchanging, TypeOK
  <2> QED
    BY <1>1, <1>3, <1>4, <2>1 DEF Loses
<1> QED
  BY <1>5, <1>6 DEF RedeemCode, Goto, Reply

(* Presenting a refresh token: likewise.                                     *)
LEMMA RefreshEffect ==
  ASSUME TypeOK, HandInv, NEW x \in Exchanges, NEW y \in Exchanges, RedeemRefresh(x, y),
         NEW s, s = sess[y]
  PROVE  /\ pc[x] = "idle" /\ x # y /\ s \in Sessions
         /\ sess' = [sess EXCEPT ![x] = s]
         /\ \A t \in Sessions \ {s} : Same(t)
         /\ Unspent(s)' <=> Unspent(s)
         /\ \A z \in Exchanges \ {x, y} : Holds(z, s)' <=> Holds(z, s)
         /\ \/ Holds(y, s) /\ ~Holds(y, s)' /\ Holds(x, s)'
            \/ Loses(s)
<1> USE OAuthAssumption DEF Procs
<1>1. /\ pc[x] = "idle" /\ pc[y] = "done" /\ x # y /\ sess[x] \notin Sessions
      /\ refresh[x] = Absent /\ UNCHANGED <<login, grant>>
      /\ sess' = [sess EXCEPT ![x] = s]
  BY DEF RedeemRefresh, Start, TypeOK, ShapeOK, HandInv, Exchanging
<1>2. s \in Sessions
  BY <1>1, SessionOf
<1>3. \A z \in Procs \ {x} : pc'[z] = pc[z] /\ sess'[z] = sess[z]
  BY <1>1 DEF RedeemRefresh, Goto, Reply, TypeOK
<1>4. \A z \in Exchanges \ {y} : refresh'[z] = refresh[z]
  BY DEF RedeemRefresh, TypeOK
<1>5. \A t \in Sessions \ {s} : Same(t)
  BY <1>1, <1>2, <1>3, <1>4 DEF Same, Unspent, Holds, TypeOK
<1>6. \A z \in Exchanges \ {x, y} : Holds(z, s)' <=> Holds(z, s)
  BY <1>1, <1>3, <1>4 DEF Holds
<1>7. Unspent(s)' <=> Unspent(s)
  BY <1>1 DEF Unspent
<1>8. CASE Live(refresh[y], now) /\ pc' = [pc EXCEPT ![x] = "resolve"]
           /\ refresh' = [refresh EXCEPT ![y] = Absent]
  <2>1. Holds(y, s) /\ ~Holds(y, s)'
    BY <1>1, <1>3, <1>8, LiveIsPresent DEF Holds, Exchanging, TypeOK
  <2>2. Holds(x, s)'
    BY <1>1, <1>8 DEF Holds, Exchanging, TypeOK
  <2> QED
    BY <1>1, <1>2, <1>5, <1>6, <1>7, <2>1, <2>2
<1>9. CASE pc' = [pc EXCEPT ![x] = "done"] /\ refresh'[y] \in {refresh[y], Absent}
  <2>1. ~Holds(x, s)'
    BY <1>1, <1>4, <1>9 DEF Holds, Exchanging, TypeOK
  <2>2. Holds(y, s)' => Holds(y, s)
    BY <1>1, <1>3, <1>9 DEF Holds, Exchanging
  <2> QED
    BY <1>1, <1>2, <1>5, <1>6, <1>7, <2>1, <2>2 DEF Loses
<1> QED
  BY <1>8, <1>9 DEF RedeemRefresh, Goto, Reply, TypeOK

------------------------------------------------------------------------------
LEMMA InitRight == Init => RightInv
<1> SUFFICES ASSUME Init PROVE RightInv
  OBVIOUS
<1>1. HandInv
  BY DEF Init, HandInv
<1>2. \A x \in Exchanges, s \in Sessions : ~Holds(x, s)
  BY OAuthAssumption DEF Init, Holds, Procs
<1> QED
  BY <1>1, <1>2 DEF RightInv, OneRefreshRight

LEMMA NextHand == TypeOK /\ HandInv /\ [Next]_vars => HandInv'
<1> SUFFICES ASSUME TypeOK, HandInv, [Next]_vars, NEW z \in Exchanges,
                    pc'[z] \in Exchanging \cup {"idle"}
             PROVE  refresh'[z] = Absent
  BY DEF HandInv
<1> USE OAuthAssumption DEF Procs
<1> DEFINE Kept == refresh'[z] \in {refresh[z], Absent}
                   /\ pc[z] \in Exchanging \cup {"idle"}
<1>1. CASE Kept
  BY <1>1 DEF HandInv
<1>2. CASE UNCHANGED vars
  BY <1>1, <1>2 DEF vars
<1>3. ASSUME NEW x \in Exchanges, NEW s \in Sessions, RedeemCode(x, s) PROVE Kept
  BY <1>3 DEF RedeemCode, Start, Goto, Reply, TypeOK
<1>4. ASSUME NEW x \in Exchanges, NEW y \in Exchanges, RedeemRefresh(x, y) PROVE Kept
  BY <1>4 DEF RedeemRefresh, Start, Goto, Reply, TypeOK
<1>5. ASSUME NEW y \in Exchanges, Revoke(y) PROVE Kept
  BY <1>5 DEF Revoke, TypeOK
<1>6. ASSUME NEW p \in Procs, ReadSession(p) PROVE Kept
  BY <1>6, ReadLabels DEF ReadSession, Goto, Exchanging, TypeOK
<1>7. ASSUME NEW s \in Sessions, StoreSession(s) \/ StoreGrant(s) \/ LoginFails(s)
      PROVE  Kept
  BY <1>7 DEF StoreSession, StoreGrant, LoginFails
<1>8. ASSUME NEW x \in Exchanges,
             \/ SessionLost(x) \/ RefreshRefused(x) \/ HearFailure(x) \/ SendRefresh(x)
             \/ HearRotation(x) \/ Persist(x) \/ BoundAccess(x) \/ Deliver(x)
      PROVE  Kept
  BY <1>8 DEF SessionLost, RefreshRefused, HearFailure, SendRefresh, HearRotation,
              Persist, BoundAccess, Deliver, Reply, Goto, Exchanging, TypeOK
<1>9. ASSUME NEW x \in Exchanges, Issue(x) PROVE Kept
  BY <1>9 DEF Issue, Goto, Exchanging, TypeOK
<1>10. ASSUME NEW x \in Exchanges, OperatorRotates(x) \/ OperatorRejects(x)
       PROVE  Kept
  BY <1>10 DEF OperatorRotates, OperatorRejects
<1>11. ASSUME NEW c \in Calls,
              \/ \E x \in Exchanges : CallTool(c, x)
              \/ UseProfile(c) \/ ReplaceProfile(c) \/ MergeProfile(c)
       PROVE  Kept
  BY <1>11 DEF CallTool, UseProfile, ReplaceProfile, MergeProfile, Start, Goto, TypeOK
<1>12. ASSUME NEW p \in Procs, Fail(p) PROVE Kept
  BY <1>12 DEF Fail, Goto, Exchanging, TypeOK
<1>13. CASE Tick
  BY <1>1, <1>13 DEF Tick
<1> QED
  BY NextCases, <1>1, <1>2, <1>3, <1>4, <1>5, <1>6, <1>7, <1>8, <1>9, <1>10, <1>11, <1>12, <1>13

(* A step that gives nobody the right leaves it in one hand at most. *)
LEMMA OneHandStays ==
  ASSUME OneRefreshRight, NEW s \in Sessions, Same(s) \/ Loses(s)
  PROVE  /\ \A x, y \in Exchanges : Holds(x, s)' /\ Holds(y, s)' => x = y
         /\ Unspent(s)' => \A x \in Exchanges : ~Holds(x, s)'
BY DEF OneRefreshRight, Same, Loses

LEMMA NextRight == TypeOK /\ RightInv /\ [Next]_vars => RightInv'
<1> SUFFICES ASSUME TypeOK, HandInv, OneRefreshRight, [Next]_vars PROVE OneRefreshRight'
  BY NextHand DEF RightInv
<1> SUFFICES ASSUME NEW t \in Sessions
             PROVE  /\ \A x, y \in Exchanges : Holds(x, t)' /\ Holds(y, t)' => x = y
                    /\ Unspent(t)' => \A x \in Exchanges : ~Holds(x, t)'
  BY DEF OneRefreshRight
<1> DEFINE Goal == /\ \A x, y \in Exchanges : Holds(x, t)' /\ Holds(y, t)' => x = y
                   /\ Unspent(t)' => \A x \in Exchanges : ~Holds(x, t)'
<1>1. ASSUME NEW x \in Exchanges, NEW s \in Sessions, RedeemCode(x, s) PROVE Goal
  <2>1. CASE t # s \/ Loses(s)
    BY <1>1, <2>1, CodeEffect, OneHandStays
  <2>2. CASE t = s /\ Unspent(s) /\ ~Unspent(s)'
    BY <1>1, <2>2, CodeEffect DEF OneRefreshRight
  <2> QED
    BY <1>1, <2>1, <2>2, CodeEffect
<1>2. ASSUME NEW x \in Exchanges, NEW y \in Exchanges, RedeemRefresh(x, y) PROVE Goal
  <2>0. PICK s : s = sess[y]
    OBVIOUS
  <2>1. CASE t # s \/ Loses(s)
    BY <1>2, <2>0, <2>1, RefreshEffect, OneHandStays
  <2>2. CASE t = s /\ Holds(y, t) /\ ~Holds(y, t)' /\ Holds(x, t)'
    BY <1>2, <2>0, <2>2, RefreshEffect DEF OneRefreshRight
  <2> QED
    BY <1>2, <2>0, <2>1, <2>2, RefreshEffect
<1>3. CASE ~Redeeming
  <2>1. Same(t) \/ Loses(t)
    BY <1>3, Footprint DEF LosesOnly
  <2> QED
    BY <2>1, OneHandStays
<1> QED
  BY <1>1, <1>2, <1>3 DEF Redeeming

(* Codes and refresh tokens hand on the right to refresh a session: at no    *)
(* time do two token requests, or a request and the login's code, have it.   *)
THEOREM OneRight == Spec => []OneRefreshRight
<1>1. TypeOK /\ RightInv /\ [Next]_vars => TypeOK' /\ RightInv'
  BY NextType, NextRight
<1>2. RightInv => OneRefreshRight
  BY DEF RightInv
<1> QED
  BY <1>1, <1>2, InitType, InitRight, PTL DEF Spec

------------------------------------------------------------------------------
LEMMA LostStays ==
  ASSUME TypeOK, HandInv, [Next]_vars, NEW s \in Sessions, Lost(s)
  PROVE  Lost(s)'
<1>1. ASSUME Same(s) \/ Loses(s) PROVE Lost(s)'
  BY <1>1 DEF Lost, Same, Loses
<1>2. ASSUME NEW x \in Exchanges, NEW t \in Sessions, RedeemCode(x, t) PROVE Lost(s)'
  <2>1. Same(s) \/ Loses(s)
    BY <1>2, CodeEffect DEF Lost
  <2> QED
    BY <1>1, <2>1
<1>3. ASSUME NEW x \in Exchanges, NEW y \in Exchanges, RedeemRefresh(x, y)
      PROVE  Lost(s)'
  <2>1. PICK t : t = sess[y]
    OBVIOUS
  <2>2. Same(s) \/ Loses(s)
    BY <1>3, <2>1, RefreshEffect DEF Lost
  <2> QED
    BY <1>1, <2>2
<1>4. CASE ~Redeeming
  BY <1>1, <1>4, Footprint DEF LosesOnly
<1> QED
  BY <1>2, <1>3, <1>4 DEF Redeeming

(* Only the holder of the right presents credentials to the operator. *)
LEMMA OnlyHoldersAsk ==
  ASSUME TypeOK, [Next]_vars, NEW x \in Exchanges, gave'[x] # gave[x]
  PROVE  SendRefresh(x)
<1> USE OAuthAssumption DEF Procs
<1>1. ASSUME NEW z \in Exchanges, SendRefresh(z) PROVE x = z
  BY <1>1 DEF SendRefresh, TypeOK
<1>2. ~UNCHANGED vars
  BY DEF vars
<1>3. \E z \in Exchanges : SendRefresh(z)
  BY <1>2, NextCases
     DEF StoreSession, StoreGrant, LoginFails, RedeemCode, RedeemRefresh, Revoke,
         ReadSession, SessionLost, RefreshRefused, OperatorRotates, OperatorRejects,
         HearRotation, HearFailure, Persist, BoundAccess, Issue, Deliver, CallTool,
         UseProfile, ReplaceProfile, MergeProfile, Fail, Tick
<1> QED
  BY <1>1, <1>3

(* A right that is lost, by a revocation, a refused refresh or a failure     *)
(* half-way, is lost for good: no token is issued for the session and no     *)
(* credentials are presented for it again.                                   *)
THEOREM LossIsFinal == Spec => LostIsFinal
<1>1. ASSUME TypeOK, HandInv, [Next]_vars, NEW s \in Sessions, Lost(s)
      PROVE  Lost(s)' /\ \A x \in Exchanges : sess'[x] = s => gave'[x] = gave[x]
  <2>1. Lost(s)'
    BY <1>1, LostStays
  <2>2. ASSUME NEW x \in Exchanges, sess'[x] = s, gave'[x] # gave[x] PROVE FALSE
    <3>1. SendRefresh(x)
      BY <1>1, <2>2, OnlyHoldersAsk
    <3>2. Holds(x, s)
      BY <2>2, <3>1 DEF SendRefresh, Holds, Exchanging
    <3> QED
      BY <1>1, <3>2 DEF Lost
  <2> QED
    BY <2>1, <2>2
<1>2. TypeOK /\ HandInv /\ [Next]_vars =>
        [\A s \in Sessions : Lost(s) =>
           /\ Lost(s)'
           /\ \A x \in Exchanges : sess'[x] = s => gave'[x] = gave[x]]_vars
  BY <1>1
<1>3. Init => HandInv
  BY InitRight DEF RightInv
<1> QED
  BY <1>2, <1>3, InitType, NextType, NextHand, PTL DEF Spec, LostIsFinal

------------------------------------------------------------------------------
(* A request whose refresh the operator has not settled is waiting for it,   *)
(* or took the right with it when it gave up.                                *)
SentInv ==
  \A x \in Exchanges :
    post[x] = "sent" =>
      \/ pc[x] = "upstream"
      \/ pc[x] = "done" /\ \E s \in Sessions : s = sess[x] /\ Lost(s)

LEMMA NextSent == TypeOK /\ RightInv /\ SentInv /\ [Next]_vars => SentInv'
<1> SUFFICES ASSUME TypeOK, HandInv, OneRefreshRight, SentInv, [Next]_vars,
                    NEW x \in Exchanges, post'[x] = "sent"
             PROVE  \/ pc'[x] = "upstream"
                    \/ /\ pc'[x] = "done"
                       /\ \E s \in Sessions : s = sess'[x] /\ Lost(s)'
  BY DEF RightInv, SentInv
<1> USE OAuthAssumption DEF Procs
<1> DEFINE Goal == \/ pc'[x] = "upstream"
                   \/ /\ pc'[x] = "done"
                      /\ \E s \in Sessions : s = sess'[x] /\ Lost(s)'
<1>1. CASE post[x] # "sent"
  <2>1. SendRefresh(x)
    <3>1. ~UNCHANGED vars
      BY <1>1 DEF vars
    <3>2. \E z \in Exchanges : SendRefresh(z) \/ OperatorRotates(z) \/ OperatorRejects(z)
      BY <1>1, <3>1, NextCases
         DEF StoreSession, StoreGrant, LoginFails, RedeemCode, RedeemRefresh, Revoke,
             ReadSession, SessionLost, RefreshRefused, HearRotation, HearFailure,
             Persist, BoundAccess, Issue, Deliver, CallTool, UseProfile,
             ReplaceProfile, MergeProfile, Fail, Tick
    <3> QED
      BY <1>1, <3>2 DEF SendRefresh, OperatorRotates, OperatorRejects, TypeOK
  <2> QED
    BY <2>1 DEF SendRefresh, Goto, TypeOK
<1>2. CASE post[x] = "sent" /\ pc[x] = "done"
  <2>1. PICK s \in Sessions : s = sess[x] /\ Lost(s)
    BY <1>2 DEF SentInv
  <2>2. pc'[x] = "done" /\ sess'[x] = sess[x]
    <3>1. ASSUME UNCHANGED vars PROVE pc'[x] = "done" /\ sess'[x] = sess[x]
      BY <1>2, <3>1 DEF vars
    <3>2. ASSUME Redeeming PROVE pc'[x] = "done" /\ sess'[x] = sess[x]
      BY <1>2, <3>2 DEF Redeeming, RedeemCode, RedeemRefresh, Start, Goto, Reply, TypeOK
    <3>3. ASSUME NEW p \in Procs, ReadSession(p) PROVE pc'[x] = "done" /\ sess'[x] = sess[x]
      BY <1>2, <3>3, ReadLabels DEF ReadSession, Goto, TypeOK
    <3>4. ASSUME NEW z \in Exchanges,
                 \/ SessionLost(z) \/ RefreshRefused(z) \/ HearFailure(z) \/ SendRefresh(z)
                 \/ HearRotation(z) \/ Persist(z) \/ BoundAccess(z) \/ Issue(z)
                 \/ Deliver(z) \/ OperatorRotates(z) \/ OperatorRejects(z) \/ Revoke(z)
          PROVE  pc'[x] = "done" /\ sess'[x] = sess[x]
      BY <1>2, <3>4 DEF SessionLost, RefreshRefused, HearFailure, SendRefresh,
           HearRotation, Persist, BoundAccess, Issue, Deliver, OperatorRotates,
           OperatorRejects, Revoke, Reply, Goto, TypeOK
    <3>5. ASSUME NEW c \in Calls,
                 \/ \E z \in Exchanges : CallTool(c, z)
                 \/ UseProfile(c) \/ ReplaceProfile(c) \/ MergeProfile(c)
          PROVE  pc'[x] = "done" /\ sess'[x] = sess[x]
      BY <1>2, <3>5 DEF CallTool, UseProfile, ReplaceProfile, MergeProfile, Start, Goto,
           TypeOK
    <3>6. ASSUME NEW p \in Procs, Fail(p) PROVE pc'[x] = "done" /\ sess'[x] = sess[x]
      BY <1>2, <3>6 DEF Fail, Goto, TypeOK
    <3>7. ASSUME NEW t \in Sessions,
                 Tick \/ StoreSession(t) \/ StoreGrant(t) \/ LoginFails(t)
          PROVE  pc'[x] = "done" /\ sess'[x] = sess[x]
      BY <1>2, <3>7 DEF Tick, StoreSession, StoreGrant, LoginFails
    <3> QED
      BY <2>1, NextCases, <3>1, <3>2, <3>3, <3>4, <3>5, <3>6, <3>7 DEF Redeeming
  <2>3. Lost(s)'
    BY <2>1, LostStays
  <2> QED
    BY <2>1, <2>2, <2>3
<1>3. CASE post[x] = "sent" /\ pc[x] = "upstream"
  <2>0. PICK s \in Sessions : s = sess[x]
    BY <1>3, SessionOf
  <2>1. Holds(x, s) /\ refresh[x] = Absent
    BY <1>3, <2>0 DEF Holds, HandInv, Exchanging
  <2>2. ASSUME pc'[x] = "done", UNCHANGED <<sess, login, grant, refresh>>,
               \A z \in Exchanges \ {x} : pc'[z] = pc[z]
        PROVE  Goal
    <3>1. ~Unspent(s)' /\ \A z \in Exchanges \ {x} : ~Holds(z, s)'
      BY <2>1, <2>2 DEF OneRefreshRight, Unspent, Holds
    <3>2. ~Holds(x, s)'
      BY <2>1, <2>2 DEF Holds, Exchanging
    <3> QED
      BY <2>0, <2>2, <3>1, <3>2 DEF Lost
  <2>3. CASE HearFailure(x)
    BY <2>2, <2>3 DEF HearFailure, Reply, Goto, TypeOK
  <2>4. CASE Fail(x)
    BY <2>2, <2>4 DEF Fail, Goto, TypeOK
  <2>5. CASE pc'[x] = pc[x]
    BY <1>3, <2>5
  <2>6. ASSUME ~HearFailure(x), ~Fail(x) PROVE pc'[x] = pc[x]
    <3>1. CASE UNCHANGED vars
      BY <3>1 DEF vars
    <3>2. CASE Redeeming
      BY <1>3, <3>2 DEF Redeeming, RedeemCode, RedeemRefresh, Start, Goto, Reply, TypeOK
    <3>3. ASSUME NEW p \in Procs, ReadSession(p) PROVE pc'[x] = pc[x]
      BY <1>3, <3>3, ReadLabels DEF ReadSession, Goto, TypeOK
    <3>4. ASSUME NEW z \in Exchanges,
                 \/ SessionLost(z) \/ RefreshRefused(z) \/ SendRefresh(z)
                 \/ HearRotation(z) \/ Persist(z) \/ BoundAccess(z) \/ Issue(z)
                 \/ Deliver(z) \/ OperatorRotates(z) \/ OperatorRejects(z) \/ Revoke(z)
          PROVE  pc'[x] = pc[x]
      BY <1>3, <3>4 DEF SessionLost, RefreshRefused, SendRefresh,
           HearRotation, Persist, BoundAccess, Issue, Deliver, OperatorRotates,
           OperatorRejects, Revoke, Reply, Goto, TypeOK
    <3>5. ASSUME NEW z \in Exchanges, HearFailure(z) PROVE pc'[x] = pc[x]
      BY <2>6, <3>5 DEF HearFailure, Reply, Goto, TypeOK
    <3>6. ASSUME NEW p \in Procs, Fail(p) PROVE pc'[x] = pc[x]
      BY <2>6, <3>6 DEF Fail, Goto, TypeOK
    <3>7. ASSUME NEW c \in Calls,
                 \/ \E z \in Exchanges : CallTool(c, z)
                 \/ UseProfile(c) \/ ReplaceProfile(c) \/ MergeProfile(c)
          PROVE  pc'[x] = pc[x]
      BY <3>7 DEF CallTool, UseProfile, ReplaceProfile, MergeProfile, Start, Goto, TypeOK
    <3>8. ASSUME NEW t \in Sessions,
                 Tick \/ StoreSession(t) \/ StoreGrant(t) \/ LoginFails(t)
          PROVE  pc'[x] = pc[x]
      BY <3>8 DEF Tick, StoreSession, StoreGrant, LoginFails
    <3> QED
      BY <2>0, NextCases, <3>1, <3>2, <3>3, <3>4, <3>5, <3>6, <3>7, <3>8 DEF Redeeming
  <2> QED
    BY <2>3, <2>4, <2>5, <2>6
<1> QED
  BY <1>1, <1>2, <1>3 DEF SentInv

(* At most one refresh request per session is outstanding at the operator,   *)
(* counting those whose sender has stopped waiting.                          *)
THEOREM OneInFlight == Spec => []OneRefreshInFlight
<1>1. Init => SentInv
  BY DEF Init, SentInv
<1>2. TypeOK /\ RightInv /\ SentInv /\ [Next]_vars => TypeOK' /\ RightInv' /\ SentInv'
  BY NextType, NextRight, NextSent
<1>3. ASSUME TypeOK, OneRefreshRight, SentInv PROVE OneRefreshInFlight
  <2> SUFFICES ASSUME NEW x \in Exchanges, NEW y \in Exchanges, sess[x] = sess[y],
                      post[x] = "sent", pc[y] \in {"resolve", "resolved", "upstream"}
               PROVE  x = y
    BY DEF OneRefreshInFlight
  <2>1. PICK s \in Sessions : s = sess[y] /\ Holds(y, s)
    BY <1>3, SessionOf DEF Holds, Exchanging, Procs
  <2>2. pc[x] = "upstream"
    BY <1>3, <2>1 DEF SentInv, Lost
  <2>3. Holds(x, s)
    BY <2>1, <2>2 DEF Holds, Exchanging
  <2> QED
    BY <1>3, <2>1, <2>3 DEF OneRefreshRight
<1>4. TypeOK /\ RightInv /\ SentInv => OneRefreshInFlight
  BY <1>3 DEF RightInv
<1> QED
  BY <1>1, <1>2, <1>4, InitType, InitRight, PTL DEF Spec

------------------------------------------------------------------------------
(* The refinement: who HolderOf names. *)
LEMMA HolderIs ==
  ASSUME OneRefreshRight, NEW s \in Sessions
  PROVE  /\ Unspent(s) => HolderOf(s) = "login"
         /\ Lost(s) => HolderOf(s) = "gone"
         /\ \A x \in Exchanges : Holds(x, s) => HolderOf(s) = x
         /\ Unspent(s) \/ Lost(s) \/ \E x \in Exchanges : Holds(x, s)
BY DEF OneRefreshRight, HolderOf, Lost

LEMMA HolderWillBe ==
  ASSUME OneRefreshRight', NEW s \in Sessions
  PROVE  /\ Unspent(s)' => HolderOf(s)' = "login"
         /\ Lost(s)' => HolderOf(s)' = "gone"
         /\ \A x \in Exchanges : Holds(x, s)' => HolderOf(s)' = x
         /\ Unspent(s)' \/ Lost(s)' \/ \E x \in Exchanges : Holds(x, s)'
BY DEF OneRefreshRight, HolderOf, Lost

LEMMA SameHolder ==
  ASSUME OneRefreshRight, OneRefreshRight', NEW s \in Sessions, Same(s)
  PROVE  HolderOf(s)' = HolderOf(s)
BY HolderIs, HolderWillBe DEF Same, Lost

LEMMA LosingHolder ==
  ASSUME OneRefreshRight, OneRefreshRight', NEW s \in Sessions, Loses(s)
  PROVE  HolderOf(s)' \in {HolderOf(s), "gone"}
BY HolderIs, HolderWillBe DEF Loses, Lost

(* What RefreshLineage sees of a state. *)
Holder == [s \in Sessions |-> HolderOf(s)]
Past == {x \in Exchanges : sess[x] # NoSession}

LEMMA HolderChange ==
  ASSUME NEW s \in Sessions, \A t \in Sessions \ {s} : HolderOf(t)' = HolderOf(t),
         NEW h, HolderOf(s)' = h
  PROVE  Holder' = [Holder EXCEPT ![s] = h]
BY DEF Holder

LEMMA PastGrows ==
  ASSUME TypeOK, NEW x \in Exchanges, NEW s \in Sessions, pc[x] = "idle",
         sess' = [sess EXCEPT ![x] = s]
  PROVE  x \notin Past /\ Past' = Past \cup {x}
BY OAuthAssumption DEF TypeOK, ShapeOK, Past, Procs

LEMMA LineageStep ==
  ASSUME TypeOK, RightInv, RightInv', [Next]_vars
  PROVE  \/ UNCHANGED <<Holder, Past>>
         \/ \E s \in Sessions :
              \/ Holder' = [Holder EXCEPT ![s] = "gone"] /\ UNCHANGED Past
              \/ \E x \in Exchanges :
                   /\ x \notin Past /\ Past' = Past \cup {x}
                   /\ \/ UNCHANGED Holder
                      \/ /\ Holder[s] # "gone"
                         /\ \E h \in {x, "gone"} : Holder' = [Holder EXCEPT ![s] = h]
<1> DEFINE Drops(s) == Holder' = [Holder EXCEPT ![s] = "gone"] /\ UNCHANGED Past
           Presents(s, x) ==
             /\ x \notin Past /\ Past' = Past \cup {x}
             /\ \/ UNCHANGED Holder
                \/ /\ Holder[s] # "gone"
                   /\ \E h \in {x, "gone"} : Holder' = [Holder EXCEPT ![s] = h]
<1>0. OneRefreshRight /\ OneRefreshRight' /\ HandInv
  BY DEF RightInv
<1>1. ASSUME NEW s \in Sessions, \A t \in Sessions \ {s} : Same(t), Loses(s)
      PROVE  \/ UNCHANGED Holder
             \/ Holder[s] # "gone" /\ Holder' = [Holder EXCEPT ![s] = "gone"]
  <2>1. \A t \in Sessions \ {s} : HolderOf(t)' = HolderOf(t)
    BY <1>0, <1>1, SameHolder
  <2>2. CASE HolderOf(s)' = HolderOf(s)
    BY <2>1, <2>2 DEF Holder
  <2>3. CASE HolderOf(s)' = "gone" /\ HolderOf(s)' # HolderOf(s)
    <3>1. Holder' = [Holder EXCEPT ![s] = "gone"]
      BY <2>1, <2>3, HolderChange
    <3>2. Holder[s] # "gone"
      BY <2>3 DEF Holder
    <3> QED
      BY <3>1, <3>2
  <2> QED
    BY <1>0, <1>1, <2>2, <2>3, LosingHolder
<1>2. ASSUME NEW x \in Exchanges, NEW s \in Sessions, RedeemCode(x, s)
      PROVE  Presents(s, x)
  <2>1. x \notin Past /\ Past' = Past \cup {x}
    BY <1>0, <1>2, CodeEffect, PastGrows
  <2>2. CASE Loses(s)
    BY <1>0, <1>1, <1>2, <2>1, <2>2, CodeEffect
  <2>3. CASE Unspent(s) /\ ~Unspent(s)' /\ Holds(x, s)'
    <3>1. \A t \in Sessions \ {s} : HolderOf(t)' = HolderOf(t)
      BY <1>0, <1>2, CodeEffect, SameHolder
    <3>2. HolderOf(s) = "login" /\ HolderOf(s)' = x
      BY <1>0, <2>3, HolderIs, HolderWillBe
    <3>3. Holder' = [Holder EXCEPT ![s] = x]
      BY <3>1, <3>2, HolderChange
    <3>4. Holder[s] # "gone"
      BY <3>2 DEF Holder
    <3> QED
      BY <2>1, <3>3, <3>4
  <2> QED
    BY <1>0, <1>2, <2>2, <2>3, CodeEffect
<1>3. ASSUME NEW x \in Exchanges, NEW y \in Exchanges, RedeemRefresh(x, y)
      PROVE  \E s \in Sessions : Presents(s, x)
  <2>0. PICK s : s = sess[y]
    OBVIOUS
  <2>1. s \in Sessions /\ x \notin Past /\ Past' = Past \cup {x}
    BY <1>0, <1>3, <2>0, RefreshEffect, PastGrows
  <2>2. CASE Loses(s)
    BY <1>0, <1>1, <1>3, <2>0, <2>1, <2>2, RefreshEffect
  <2>3. CASE Holds(y, s) /\ ~Holds(y, s)' /\ Holds(x, s)'
    <3>1. \A t \in Sessions \ {s} : HolderOf(t)' = HolderOf(t)
      BY <1>0, <1>3, <2>0, RefreshEffect, SameHolder
    <3>2. HolderOf(s) = y /\ HolderOf(s)' = x
      BY <1>0, <2>1, <2>3, HolderIs, HolderWillBe
    <3>3. Holder' = [Holder EXCEPT ![s] = x]
      BY <2>1, <3>1, <3>2, HolderChange
    <3>4. Holder[s] # "gone"
      BY <2>1, <3>2, OAuthAssumption DEF Holder
    <3> QED
      BY <2>1, <3>3, <3>4
  <2> QED
    BY <1>0, <1>3, <2>0, <2>2, <2>3, RefreshEffect
<1>4. CASE ~Redeeming
  <2>1. UNCHANGED Past
    BY <1>0, <1>4, Footprint DEF SameHands, Past
  <2>2. CASE \A t \in Sessions : Same(t)
    <3>1. \A t \in Sessions : HolderOf(t)' = HolderOf(t)
      BY <1>0, <2>2, SameHolder
    <3> QED
      BY <2>1, <3>1 DEF Holder
  <2>3. ASSUME NEW s \in Sessions, LosesOnly(s) PROVE UNCHANGED Holder \/ Drops(s)
    BY <1>1, <2>1, <2>3 DEF LosesOnly
  <2> QED
    BY <1>0, <1>4, <2>1, <2>2, <2>3, Footprint
<1> QED
  BY <1>2, <1>3, <1>4 DEF Redeeming

(* OAuthSession implements RefreshLineage: the right to refresh a session is *)
(* born with its login, passes from one token request to another, each of    *)
(* which gets it once at most, and when it is lost it is lost for good.      *)
THEOREM ImplementsLineage == Spec => KeepsLineage
<1>1. Init => Lineage!Init
  <2> SUFFICES ASSUME Init PROVE Lineage!Init
    OBVIOUS
  <2>1. \A s \in Sessions : HolderOf(s) = "login"
    BY DEF Init, HolderOf, Unspent
  <2>2. {x \in Exchanges : sess[x] # NoSession} = {}
    BY DEF Init, Procs
  <2> QED
    BY <2>1, <2>2 DEF Lineage!Init
<1>2. TypeOK /\ RightInv /\ RightInv' /\ [Next]_vars => [Lineage!Next]_(Lineage!vars)
  BY LineageStep DEF Holder, Past, Lineage!Next, Lineage!Present, Lineage!Drop,
                     Lineage!vars
<1>3. TypeOK /\ RightInv /\ [Next]_vars => TypeOK' /\ RightInv'
  BY NextType, NextRight
<1> QED
  BY <1>1, <1>2, <1>3, InitType, InitRight, PTL DEF Spec, KeepsLineage, Lineage!Spec

------------------------------------------------------------------------------
(* Weak fairness of Exchange(x), with what enables it spelt out: at each     *)
(* label of a request in flight there is a step that asks nothing but the    *)
(* label, or two whose conditions exclude each other.  TLC checks the        *)
(* property from WF_vars(Exchange(x)) itself.                                *)
Served(x) == []<>~InFlight(x) \/ []<><<Exchange(x)>>_vars

(* How far a token request has come. *)
Order == [idle |-> 0, resolve |-> 1, resolved |-> 2, upstream |-> 3, persist |-> 4,
          expiry |-> 5, bounded |-> 6, issue |-> 7, reply |-> 8, done |-> 9]
Stage(x) == Order[pc[x]]

LEMMA OrderType ==
  \A l \in Exchanging \cup {"idle", "reply", "done"} :
    /\ Order[l] \in 0..9
    /\ Order[l] = 0 <=> l = "idle"
    /\ Order[l] = 9 <=> l = "done"
BY DEF Exchanging, Order

(* A step of a token request brings it further. *)
LEMMA ExchangeMovesOn ==
  ASSUME TypeOK, NEW x \in Exchanges, Exchange(x)
  PROVE  /\ pc' = [pc EXCEPT ![x] = pc'[x]]
         /\ Stage(x) < Stage(x)'
<1> DEFINE Later(l) == Goto(x, l) /\ Order[pc[x]] < Order[l]
<1>0. pc \in [Procs -> Labels] /\ x \in Procs /\ pc[x] \in Exchanging \cup {"idle", "reply", "done"}
  BY DEF TypeOK, ShapeOK, Procs
<1>1. ReadSession(x) => Later("resolved") \/ Later("bounded")
  BY <1>0, ReadLabels DEF ReadSession, Order, Exchanging
<1>2. SendRefresh(x) => Later("upstream")
  BY DEF SendRefresh, Order
<1>3. HearRotation(x) => Later("persist")
  BY DEF HearRotation, Order
<1>4. Persist(x) => Later("expiry")
  BY DEF Persist, Order
<1>5. BoundAccess(x) => Later("issue")
  BY DEF BoundAccess, Order
<1>6. Issue(x) => Later("reply")
  BY DEF Issue, Order
<1>7. SessionLost(x) \/ RefreshRefused(x) \/ HearFailure(x) \/ Deliver(x) => Later("done")
  BY DEF SessionLost, RefreshRefused, HearFailure, Deliver, Reply, Order
<1>8. PICK l \in Labels : Later(l)
  BY <1>1, <1>2, <1>3, <1>4, <1>5, <1>6, <1>7 DEF Exchange, Labels, Exchanging
<1> QED
  BY <1>0, <1>8 DEF Goto, Stage

(* Nothing brings it back. *)
LEMMA StageStep ==
  ASSUME TypeOK, [Next]_vars, NEW x \in Exchanges, NEW n \in 0..9, Stage(x) >= n
  PROVE  /\ Stage(x)' >= n
         /\ <<Exchange(x)>>_vars => Stage(x)' >= n + 1
<1>1. /\ pc[x] \in Exchanging \cup {"idle", "reply", "done"}
      /\ pc'[x] \in Exchanging \cup {"idle", "reply", "done"}
  BY NextType DEF TypeOK, ShapeOK
<1>2. Stage(x) \in 0..9 /\ Stage(x)' \in 0..9
  BY <1>1, OrderType DEF Stage
<1>3. x \in Procs /\ x \notin Calls /\ pc \in [Procs -> Labels] /\ Calls \subseteq Procs /\ Exchanges \subseteq Procs
  BY OAuthAssumption DEF TypeOK, Procs
<1>4. ASSUME NEW y \in Exchanges, y # x, Exchange(y)
      PROVE  pc'[x] = pc[x]
  BY <1>3, <1>4, ExchangeMovesOn
<1>5. ASSUME NEW s \in Sessions, LoginStep(s)
      PROVE  pc'[x] = pc[x]
  BY <1>5 DEF LoginStep, StoreSession, StoreGrant, LoginFails
<1>6. ASSUME NEW y \in Exchanges,
             \/ \E s \in Sessions : RedeemCode(y, s)
             \/ \E z \in Exchanges : RedeemRefresh(y, z)
      PROVE  pc[x] = "idle" \/ pc'[x] = pc[x]
  BY <1>3, <1>6 DEF RedeemCode, RedeemRefresh, Start, Reply, Goto
<1>7. ASSUME NEW y \in Exchanges, Revoke(y) \/ OperatorRotates(y) \/ OperatorRejects(y)
      PROVE  pc'[x] = pc[x]
  BY <1>7 DEF Revoke, OperatorRotates, OperatorRejects
<1>8. ASSUME NEW c \in Calls, Serve(c) \/ \E y \in Exchanges : CallTool(c, y)
      PROVE  pc'[x] = pc[x]
  BY <1>3, <1>8 DEF Serve, ReadSession, UseProfile, ReplaceProfile, MergeProfile, CallTool, Goto
<1>9. ASSUME NEW p \in Procs, Fail(p)
      PROVE  pc'[x] \in {pc[x], "done"}
  BY <1>3, <1>9 DEF Fail, Goto
<1>10. UNCHANGED vars \/ Tick => pc'[x] = pc[x]
  BY DEF vars, Tick
<1>11. pc[x] = "idle" \/ pc'[x] \in {pc[x], "done"} => Stage(x) <= Stage(x)'
  BY <1>1, <1>2, OrderType DEF Stage
<1>12. Stage(x) <= Stage(x)'
  BY <1>2, <1>4, <1>5, <1>6, <1>7, <1>8, <1>9, <1>10, <1>11, ExchangeMovesOn DEF Next
<1> QED
  BY <1>2, <1>12, ExchangeMovesOn

(* Every token request ends, whatever the operator does, if the event loop   *)
(* goes on serving it (token_endpoint).                                      *)
THEOREM ExchangesEnd == Spec /\ (\A x \in Exchanges : Served(x)) => EveryExchangeEnds
<1>1. ASSUME NEW x \in Exchanges
      PROVE  Spec /\ Served(x) => <>[]~InFlight(x)
  <2> DEFINE Ended == ~InFlight(x)
             P1 == Stage(x) >= 1
             P2 == Stage(x) >= 2
             P3 == Stage(x) >= 3
             P4 == Stage(x) >= 4
             P5 == Stage(x) >= 5
             P6 == Stage(x) >= 6
             P7 == Stage(x) >= 7
             P8 == Stage(x) >= 8
             P9 == Stage(x) >= 9
  <2>1. ASSUME TypeOK
        PROVE  /\ Stage(x) >= 0
               /\ pc[x] = "idle" <=> ~P1
               /\ pc[x] = "done" <=> P9
    <3>1. pc[x] \in Exchanging \cup {"idle", "reply", "done"}
      BY <2>1 DEF TypeOK, ShapeOK
    <3> QED
      BY <3>1, OrderType DEF Stage
  <2>2. TypeOK /\ [Next]_vars =>
          /\ P1 => P1'
          /\ P2 => P2'
          /\ P3 => P3'
          /\ P4 => P4'
          /\ P5 => P5'
          /\ P6 => P6'
          /\ P7 => P7'
          /\ P8 => P8'
          /\ P9 => P9'
    BY StageStep
  <2>3. TypeOK /\ [Next]_vars /\ <<Exchange(x)>>_vars =>
          /\ P1'
          /\ P1 => P2'
          /\ P2 => P3'
          /\ P3 => P4'
          /\ P4 => P5'
          /\ P5 => P6'
          /\ P6 => P7'
          /\ P7 => P8'
          /\ P8 => P9'
    BY <2>1, StageStep
  <2>4. TypeOK => (Ended <=> ~P1 \/ P9)
    BY <2>1 DEF InFlight
  <2>5. Served(x) => []<>Ended \/ []<><<Exchange(x)>>_vars
    BY DEF Served
  <2> HIDE DEF Ended, P1, P2, P3, P4, P5, P6, P7, P8, P9
  <2>6. Spec /\ ([]<>Ended \/ []<><<Exchange(x)>>_vars) => <>[]Ended
    BY <2>2, <2>3, <2>4, TypeCorrect, PTL DEF Spec
  <2> USE DEF Ended
  <2> QED
    BY <2>5, <2>6, PTL
<1> QED
  BY <1>1 DEF EveryExchangeEnds
=============================================================================
