---------------------------- MODULE OAuthSession ----------------------------
(***************************************************************************)
(* The homeowner session behind an OAuth connection (src/main.py).         *)
(*                                                                         *)
(* A login stores the operator's credentials under an opaque session id    *)
(* and hands out a single-use code.  /oauth/token exchanges the code, and  *)
(* later each refresh token, for an access token and the next refresh      *)
(* token; refreshing also rotates the operator's credentials and stores    *)
(* them behind the same session id.  Tool calls read the session in the    *)
(* middleware and may write it back (validate_homeowner_session,           *)
(* _backfill_ho_session_profile).                                          *)
(*                                                                         *)
(* Every request is a process of its own and is cut at its awaits; all of  *)
(* them share the table.  A get whose item has expired deletes the item,   *)
(* whatever it is by then, in a second call.                               *)
(*                                                                         *)
(* A session id is named by its login, and so is the code; a refresh token *)
(* is named by the exchange that issued it.  Of the stored profile only    *)
(* the operator's credentials are kept.                                    *)
(***************************************************************************)
EXTENDS TtlStore

CONSTANTS
  Sessions,     \* logins
  Exchanges,    \* requests to /oauth/token
  Calls,        \* tool calls
  NoSession,    \* the request has not started
  CodeTTL,      \* AUTH_CODE_TTL
  SessionTTL,   \* REFRESH_TOKEN_TTL, of sessions and of refresh tokens
  AccessTTL,    \* OAUTH_TOKEN_TTL
  UpstreamTTL,  \* how long the operator's access tokens live
  Span,         \* the longest one request lasts
  MaxTime       \* bound on the clock

Procs == Exchanges \cup Calls

ASSUME OAuthAssumption ==
  /\ Exchanges \cap Calls = {}
  /\ NoSession \notin Sessions
  /\ {"login", "gone"} \cap Exchanges = {}
  /\ CodeTTL \in Nat /\ SessionTTL \in Nat /\ AccessTTL \in Nat
  /\ UpstreamTTL \in Nat /\ Span \in Nat /\ MaxTime \in Nat

VARIABLES
  now,        \* the clock
  session,    \* session[s]: the entry session:<s>, the operator's credentials
  grant,      \* grant[s]: the entry grant:<code> of login s
  refresh,    \* refresh[x]: the entry refresh:<jti> of the token x issued
  login,      \* login[s]: progress of the authorize endpoint
  pc,         \* pc[p]: what request p does next
  sess,       \* sess[p]: the session it is about
  since,      \* since[p]: when it started
  seen,       \* seen[p]: the session entry its last get_item returned
  upstream,   \* upstream[s]: generation of the refresh token the operator accepts
  post,       \* post[x]: what the operator did with x's refresh request
  gave,       \* gave[x]: generation of the refresh token x presented, or 0
  cred,       \* cred[x]: the credentials the operator answered x with
  access,     \* access[x]: expiry of the access token x issues
  answer      \* answer[x]: what the client received

vars == <<now, session, grant, refresh, login, pc, sess, since, seen, upstream,
          post, gave, cred, access, answer>>

(* Credentials: generation of the refresh token, expiry of the access token. *)
Creds == [gen : Nat, until : Nat]
NoCred == [gen |-> 0, until |-> 0]

InFlight(p) == pc[p] \notin {"idle", "done"}

Init ==
  /\ now = 0
  /\ session = [s \in Sessions |-> Absent]
  /\ grant = [s \in Sessions |-> Absent]
  /\ refresh = [x \in Exchanges |-> Absent]
  /\ login = [s \in Sessions |-> "idle"]
  /\ pc = [p \in Procs |-> "idle"]
  /\ sess = [p \in Procs |-> NoSession]
  /\ since = [p \in Procs |-> 0]
  /\ seen = [p \in Procs |-> Absent]
  /\ upstream = [s \in Sessions |-> 0]
  /\ post = [x \in Exchanges |-> "none"]
  /\ gave = [x \in Exchanges |-> 0]
  /\ cred = [x \in Exchanges |-> NoCred]
  /\ access = [x \in Exchanges |-> 0]
  /\ answer = [x \in Exchanges |-> "none"]

(* Slip: a session is stored for as long as the operator's token is good. *)
PutForUpstream(s, c) ==
  session' = [session EXCEPT ![s] = Item(c, c.until)]

(* _store_ho_session, _replace_ho_session: every put renews the lifetime. *)
Put(s, c) ==
  session' = [session EXCEPT ![s] = Item(c, now + SessionTTL)]

(* get deletes what it takes for the expired item it read. *)
Purge(s) == session' = [session EXCEPT ![s] = Absent]

Goto(p, l) == pc' = [pc EXCEPT ![p] = l]

Reply(x, a) ==
  /\ Goto(x, "done")
  /\ answer' = [answer EXCEPT ![x] = a]

(* Slip: start of a request whose token does not name the session. *)
StartUnbound(p, s) ==
  /\ pc[p] = "idle"
  /\ since' = [since EXCEPT ![p] = now]
  /\ UNCHANGED sess

Start(p, s) ==
  /\ pc[p] = "idle"
  /\ sess' = [sess EXCEPT ![p] = s]
  /\ since' = [since EXCEPT ![p] = now]

------------------------------------------------------------------------------
(* Slips a change of the code could make. *)

(* RedeemRefresh with get in place of consume. *)
RedeemByReading(x, y) ==
  /\ answer[y] = "tokens"
  /\ Start(x, sess[y])
  /\ IF Live(refresh[y], now) THEN Goto(x, "resolve") /\ UNCHANGED answer
                              ELSE Reply(x, "invalid_grant")
  /\ UNCHANGED <<now, session, grant, refresh, login, seen, upstream, post,
                 gave, cred, access>>

(* RedeemRefresh that does not look at what consume returned. *)
RedeemAnyway(x, y) ==
  /\ answer[y] = "tokens"
  /\ Start(x, sess[y])
  /\ refresh' = [refresh EXCEPT ![y] = Absent]
  /\ Goto(x, "resolve")
  /\ UNCHANGED <<now, session, grant, login, seen, upstream, post, gave, cred,
                 access, answer>>

(* HearFailure that gives the client its token back: it may try again. *)
HearFailureAndRestore(x) ==
  /\ pc[x] = "upstream"
  /\ Reply(x, "reauthenticate")
  /\ \E y \in Exchanges :
       /\ sess[y] = sess[x] /\ answer[y] = "tokens"
       /\ refresh' = [refresh EXCEPT ![y] = Item("active", now + SessionTTL)]
  /\ UNCHANGED <<now, session, grant, login, sess, since, seen, upstream, post,
                 gave, cred, access>>

(* HearFailure without the timeout of the refresh request. *)
HearRejection(x) ==
  /\ pc[x] = "upstream" /\ post[x] = "rejected"
  /\ Reply(x, "reauthenticate")
  /\ UNCHANGED <<now, session, grant, refresh, login, sess, since, seen,
                 upstream, post, gave, cred, access>>

(* BoundAccess that forgets the operator's expiry. *)
BoundByLifetime(x) ==
  /\ pc[x] = "bounded"
  /\ access' = [access EXCEPT ![x] = since[x] + AccessTTL]
  /\ IF Live(seen[x], now) THEN UNCHANGED session ELSE Purge(sess[x])
  /\ Goto(x, "issue")
  /\ UNCHANGED <<now, grant, refresh, login, sess, since, seen, upstream, post,
                 gave, cred, answer>>

(* Persist that stores the profile it had read. *)
PersistSeen(x) ==
  /\ pc[x] = "persist"
  /\ Put(sess[x], seen[x].val)
  /\ Goto(x, "expiry")
  /\ UNCHANGED <<now, grant, refresh, login, sess, since, seen, upstream, post,
                 gave, cred, access, answer>>

------------------------------------------------------------------------------
(* The login: the operator verified the one-time code and issued its first   *)
(* credentials; session and code are stored by two calls.                    *)
StoreSession(s) ==
  /\ login[s] = "idle"
  /\ login' = [login EXCEPT ![s] = "stored"]
  /\ upstream' = [upstream EXCEPT ![s] = 1]
  /\ Put(s, [gen |-> 1, until |-> now + UpstreamTTL])
  /\ UNCHANGED <<now, grant, refresh, pc, sess, since, seen, post, gave, cred,
                 access, answer>>

StoreGrant(s) ==
  /\ login[s] = "stored"
  /\ login' = [login EXCEPT ![s] = "granted"]
  /\ grant' = [grant EXCEPT ![s] = Item("grant", now + CodeTTL)]
  /\ UNCHANGED <<now, session, refresh, pc, sess, since, seen, upstream, post,
                 gave, cred, access, answer>>

LoginFails(s) ==
  /\ login[s] = "stored"
  /\ login' = [login EXCEPT ![s] = "failed"]
  /\ UNCHANGED <<now, session, grant, refresh, pc, sess, since, seen, upstream,
                 post, gave, cred, access, answer>>

------------------------------------------------------------------------------
(* grant_type=authorization_code: the code is consumed before the client,    *)
(* the redirect URI and the PKCE verifier are compared.  When the table's    *)
(* reply to the delete is lost, the client library repeats it and finds      *)
(* nothing.                                                                  *)
RedeemCode(x, s) ==
  /\ login[s] = "granted"
  /\ Start(x, s)
  /\ grant' = [grant EXCEPT ![s] = Absent]
  /\ \/ /\ Live(grant[s], now)
        /\ Goto(x, "expiry")
        /\ UNCHANGED answer
     \/ Reply(x, "invalid_grant")
  /\ UNCHANGED <<now, session, refresh, login, seen, upstream, post, gave, cred,
                 access>>

(* grant_type=refresh_token with the token y issued: a token of another      *)
(* client is refused before it is consumed.                                  *)
RedeemRefresh(x, y) ==
  /\ answer[y] = "tokens"
  /\ Start(x, sess[y])
  /\ \/ /\ Live(refresh[y], now)
        /\ refresh' = [refresh EXCEPT ![y] = Absent]
        /\ Goto(x, "resolve")
        /\ UNCHANGED answer
     \/ /\ \E e \in {refresh[y], Absent} : refresh' = [refresh EXCEPT ![y] = e]
        /\ Reply(x, "invalid_grant")
  /\ UNCHANGED <<now, session, grant, login, seen, upstream, post, gave, cred,
                 access>>

(* /oauth/revoke consumes the token and always answers 200. *)
Revoke(y) ==
  /\ answer[y] = "tokens"
  /\ refresh' = [refresh EXCEPT ![y] = Absent]
  /\ UNCHANGED <<now, session, grant, login, pc, sess, since, seen, upstream,
                 post, gave, cred, access, answer>>

(* get_item of the session: to refresh it, to bound the access token, to     *)
(* serve a tool call or to fill in its profile.                              *)
NextAfterRead == [resolve |-> "resolved", expiry |-> "bounded", reread |-> "merge"]
ReadSession(p) ==
  /\ pc[p] \in DOMAIN NextAfterRead
  /\ seen' = [seen EXCEPT ![p] = session[sess[p]]]
  /\ Goto(p, NextAfterRead[pc[p]])
  /\ UNCHANGED <<now, session, grant, refresh, login, sess, since, upstream,
                 post, gave, cred, access, answer>>

(* _refresh_upstream_ho_session without a live session. *)
SessionLost(x) ==
  /\ pc[x] = "resolved" /\ ~Live(seen[x], now)
  /\ Purge(sess[x])
  /\ Reply(x, "reauthenticate")
  /\ UNCHANGED <<now, grant, refresh, login, sess, since, seen, upstream, post,
                 gave, cred, access>>

SendRefresh(x) ==
  /\ pc[x] = "resolved" /\ Live(seen[x], now)
  /\ post' = [post EXCEPT ![x] = "sent"]
  /\ gave' = [gave EXCEPT ![x] = seen[x].val.gen]
  /\ Goto(x, "upstream")
  /\ UNCHANGED <<now, session, grant, refresh, login, sess, since, seen,
                 upstream, cred, access, answer>>

(* operator_request refuses to send: rate limit, open circuit, no host. *)
RefreshRefused(x) ==
  /\ pc[x] = "resolved" /\ Live(seen[x], now)
  /\ Reply(x, "reauthenticate")
  /\ UNCHANGED <<now, session, grant, refresh, login, sess, since, seen,
                 upstream, post, gave, cred, access>>

(* The operator, outside this repository: the refresh token it issued last   *)
(* is exchanged for new credentials, any other is refused.  It may do so     *)
(* when the caller no longer waits.                                          *)
OperatorRotates(x) ==
  /\ post[x] = "sent" /\ gave[x] = upstream[sess[x]]
  /\ post' = [post EXCEPT ![x] = "rotated"]
  /\ upstream' = [upstream EXCEPT ![sess[x]] = @ + 1]
  /\ cred' = [cred EXCEPT ![x] = [gen |-> upstream[sess[x]] + 1,
                                  until |-> now + UpstreamTTL]]
  /\ UNCHANGED <<now, session, grant, refresh, login, pc, sess, since, seen,
                 gave, access, answer>>

OperatorRejects(x) ==
  /\ post[x] = "sent"
  /\ post' = [post EXCEPT ![x] = "rejected"]
  /\ UNCHANGED <<now, session, grant, refresh, login, pc, sess, since, seen,
                 upstream, gave, cred, access, answer>>

HearRotation(x) ==
  /\ pc[x] = "upstream" /\ post[x] = "rotated"
  /\ Goto(x, "persist")
  /\ UNCHANGED <<now, session, grant, refresh, login, sess, since, seen,
                 upstream, post, gave, cred, access, answer>>

(* Timeout, connection error, refusal or an incomplete reply. *)
HearFailure(x) ==
  /\ pc[x] = "upstream"
  /\ Reply(x, "reauthenticate")
  /\ UNCHANGED <<now, session, grant, refresh, login, sess, since, seen,
                 upstream, post, gave, cred, access>>

(* _replace_ho_session with the rotated credentials. *)
Persist(x) ==
  /\ pc[x] = "persist"
  /\ Put(sess[x], cred[x])
  /\ Goto(x, "expiry")
  /\ UNCHANGED <<now, grant, refresh, login, sess, since, seen, upstream, post,
                 gave, cred, access, answer>>

(* _oauth_access_expiration: the token expires with the operator's, as far   *)
(* as the session that was just read tells.                                  *)
BoundAccess(x) ==
  /\ pc[x] = "bounded"
  /\ LET full == since[x] + AccessTTL
         until == seen[x].val.until
     IN IF Live(seen[x], now)
          THEN /\ access' = [access EXCEPT ![x] = IF until < full THEN until ELSE full]
               /\ UNCHANGED session
          ELSE /\ access' = [access EXCEPT ![x] = full]
               /\ Purge(sess[x])
  /\ Goto(x, "issue")
  /\ UNCHANGED <<now, grant, refresh, login, sess, since, seen, upstream, post,
                 gave, cred, answer>>

Issue(x) ==
  /\ pc[x] = "issue"
  /\ refresh' = [refresh EXCEPT ![x] = Item("active", now + SessionTTL)]
  /\ Goto(x, "reply")
  /\ UNCHANGED <<now, session, grant, login, sess, since, seen, upstream, post,
                 gave, cred, access, answer>>

Deliver(x) ==
  /\ pc[x] = "reply"
  /\ Reply(x, "tokens")
  /\ UNCHANGED <<now, session, grant, refresh, login, sess, since, seen,
                 upstream, post, gave, cred, access>>

------------------------------------------------------------------------------
(* A tool call with the access token x issued; the middleware resolves the   *)
(* session first.                                                            *)
CallTool(c, x) ==
  /\ answer[x] = "tokens" /\ now < access[x]
  /\ Start(c, sess[x])
  /\ Goto(c, "resolve")
  /\ UNCHANGED <<now, session, grant, refresh, login, seen, upstream, post,
                 gave, cred, access, answer>>

(* With the profile in hand the tool talks to the operator; then it writes   *)
(* the profile back, fills in the stored one after a booking, or neither.    *)
UseProfile(c) ==
  /\ pc[c] = "resolved"
  /\ IF Live(seen[c], now)
       THEN /\ \E l \in {"replace", "reread", "done"} : Goto(c, l)
            /\ UNCHANGED session
       ELSE Purge(sess[c]) /\ Goto(c, "done")
  /\ UNCHANGED <<now, grant, refresh, login, sess, since, seen, upstream, post,
                 gave, cred, access, answer>>

(* validate_homeowner_session stores the profile the middleware resolved. *)
ReplaceProfile(c) ==
  /\ pc[c] = "replace"
  /\ Put(sess[c], seen[c].val)
  /\ Goto(c, "done")
  /\ UNCHANGED <<now, grant, refresh, login, sess, since, seen, upstream, post,
                 gave, cred, access, answer>>

(* _backfill_ho_session_profile stores the profile it read a call ago. *)
MergeProfile(c) ==
  /\ pc[c] = "merge"
  /\ IF Live(seen[c], now) THEN Put(sess[c], seen[c].val) ELSE Purge(sess[c])
  /\ Goto(c, "done")
  /\ UNCHANGED <<now, grant, refresh, login, sess, since, seen, upstream, post,
                 gave, cred, access, answer>>

------------------------------------------------------------------------------
(* The store raises, the process dies, or the reply is lost. *)
Fail(p) ==
  /\ InFlight(p)
  /\ Goto(p, "done")
  /\ IF p \in Exchanges THEN answer' = [answer EXCEPT ![p] = "error"]
                        ELSE UNCHANGED answer
  /\ UNCHANGED <<now, session, grant, refresh, login, sess, since, seen,
                 upstream, post, gave, cred, access>>

(* A login is a request too; its session tells when it was stored. *)
Tick ==
  /\ now < MaxTime
  /\ \A p \in Procs : InFlight(p) => now < since[p] + Span
  /\ \A s \in Sessions :
       login[s] = "stored" => now + SessionTTL < session[s].exp + Span
  /\ now' = now + 1
  /\ UNCHANGED <<session, grant, refresh, login, pc, sess, since, seen, upstream,
                 post, gave, cred, access, answer>>

LoginStep(s) == StoreSession(s) \/ StoreGrant(s) \/ LoginFails(s)
Exchange(x) ==
  \/ ReadSession(x) \/ SessionLost(x) \/ SendRefresh(x) \/ RefreshRefused(x)
  \/ HearRotation(x) \/ HearFailure(x) \/ Persist(x) \/ BoundAccess(x)
  \/ Issue(x) \/ Deliver(x)
Serve(c) == ReadSession(c) \/ UseProfile(c) \/ ReplaceProfile(c) \/ MergeProfile(c)

Next ==
  \/ \E s \in Sessions : LoginStep(s)
  \/ \E x \in Exchanges :
       \/ \E s \in Sessions : RedeemCode(x, s)
       \/ \E y \in Exchanges : RedeemRefresh(x, y)
       \/ Revoke(x) \/ Exchange(x) \/ OperatorRotates(x) \/ OperatorRejects(x)
  \/ \E c \in Calls : Serve(c) \/ \E x \in Exchanges : CallTool(c, x)
  \/ \E p \in Procs : Fail(p)
  \/ Tick

Spec == Init /\ [][Next]_vars

(* Every await of a token request has a timeout.  The operator owes nothing. *)
FairSpec == Spec /\ \A x \in Exchanges : WF_vars(Exchange(x))

------------------------------------------------------------------------------
Exchanging == {"resolve", "resolved", "upstream", "persist", "expiry",
               "bounded", "issue"}
Labels == Exchanging \cup {"idle", "reply", "replace", "reread", "merge", "done"}

(* A request that has started has a session, a tool call never takes the     *)
(* steps of an exchange, and what is written back was live.                  *)
ShapeOK ==
  /\ \A p \in Procs : (pc[p] = "idle") <=> (sess[p] = NoSession)
  /\ \A c \in Calls : pc[c] \in {"idle", "resolve", "resolved", "replace",
                                 "reread", "merge", "done"}
  /\ \A x \in Exchanges : pc[x] \in Exchanging \cup {"idle", "reply", "done"}
  /\ \A c \in Calls : pc[c] = "replace" => seen[c] # Absent
  /\ \A x \in Exchanges : answer[x] = "tokens" => pc[x] = "done"

(* Types of the state. *)
TypeOK ==
  /\ now \in Nat
  /\ session \in [Sessions -> Entries(Creds)]
  /\ grant \in [Sessions -> Entries({"grant"})]
  /\ refresh \in [Exchanges -> Entries({"active"})]
  /\ login \in [Sessions -> {"idle", "stored", "granted", "failed"}]
  /\ pc \in [Procs -> Labels]
  /\ sess \in [Procs -> Sessions \cup {NoSession}]
  /\ since \in [Procs -> Nat]
  /\ seen \in [Procs -> Entries(Creds)]
  /\ upstream \in [Sessions -> Nat]
  /\ post \in [Exchanges -> {"none", "sent", "rotated", "rejected"}]
  /\ gave \in [Exchanges -> Nat]
  /\ cred \in [Exchanges -> Creds]
  /\ access \in [Exchanges -> Nat]
  /\ answer \in [Exchanges -> {"none", "invalid_grant", "reauthenticate",
                               "tokens", "error"}]
  /\ ShapeOK

(* Who may still refresh session s: the login and its code, a token request  *)
(* that has consumed a code or token, the refresh token it issued.           *)
Unspent(s) == login[s] \in {"idle", "stored"} \/ grant[s] # Absent
Holds(x, s) == sess[x] = s /\ (pc[x] \in Exchanging \/ refresh[x] # Absent)
Lost(s) == ~Unspent(s) /\ \A x \in Exchanges : ~Holds(x, s)

(* The right to refresh a session is never in two hands: codes and refresh   *)
(* tokens are consumed atomically, so replays and races of token requests    *)
(* leave one of them with the right.                                         *)
OneRefreshRight ==
  \A s \in Sessions :
    /\ \A x, y \in Exchanges : Holds(x, s) /\ Holds(y, s) => x = y
    /\ Unspent(s) => \A x \in Exchanges : ~Holds(x, s)

(* At most one refresh request of a session is ever outstanding at the       *)
(* operator, even one that its sender no longer waits for: the operator's    *)
(* rotation is never raced by this server.                                   *)
OneRefreshInFlight ==
  \A x, y \in Exchanges :
    (/\ sess[x] = sess[y]
     /\ post[x] = "sent" /\ pc[y] \in {"resolve", "resolved", "upstream"}) => x = y

(* Once nobody can refresh a session (its token was revoked, its refresh was *)
(* refused or failed half-way) nobody ever will: no token is issued and no   *)
(* credentials are presented for it again.                                   *)
LostIsFinal ==
  [][\A s \in Sessions : Lost(s) =>
       /\ Lost(s)'
       /\ \A x \in Exchanges : sess'[x] = s => gave'[x] = gave[x]]_vars

(* A call that put credentials of generation g back into the session, or is  *)
(* about to.                                                                 *)
WritesBack(c, s, g) ==
  sess[c] = s /\ pc[c] \in {"replace", "merge", "done"} /\ seen[c].val.gen = g

(* The operator is never shown a rotated refresh token again, unless a tool  *)
(* call has put it back over the credentials stored in the meantime: token   *)
(* requests on their own never lose a rotation.                              *)
ReuseNeedsWriteBack ==
  \A x, y \in Exchanges :
    (x # y /\ sess[x] = sess[y] /\ gave[x] # 0 /\ gave[x] = gave[y]) =>
      \E c \in Calls : seen[c] # Absent /\ WritesBack(c, sess[x], gave[x])

(* The same without the exception: _replace_ho_session persists the rotated  *)
(* credentials.                                                              *)
RotatedTokenNotReused ==
  \A x, y \in Exchanges :
    (x # y /\ sess[x] = sess[y] /\ gave[x] # 0) => gave[x] # gave[y]

(* As long as access tokens are not made to live as long as sessions are     *)
(* stored, no tool call with a valid access token finds its session gone or  *)
(* removes it, and so none can remove what a refresh has just stored.        *)
SessionOutlivesAccess ==
  CodeTTL + AccessTTL + 2 * Span <= SessionTTL =>
    \A c \in Calls : pc[c] \in {"resolved", "merge"} => Live(seen[c], now)

(* An access token expires no later than the operator's access token that    *)
(* was obtained for it, even though its expiry is computed from the session  *)
(* read back after it was stored.                                            *)
AccessWithinUpstream ==
  \A x \in Exchanges :
    (post[x] = "rotated" /\ pc[x] \in {"issue", "reply", "done"}) =>
      access[x] <= cred[x].until

(* Every token request ends, whatever the operator does: as each is made     *)
(* once, a time comes from which it is in flight no more.                    *)
EveryExchangeEnds == \A x \in Exchanges : <>[]~InFlight(x)

------------------------------------------------------------------------------
(* Token requests hand the right on as RefreshLineage says. *)
HolderOf(s) ==
  IF Unspent(s) THEN "login"
  ELSE IF Lost(s) THEN "gone"
  ELSE CHOOSE x \in Exchanges : Holds(x, s)
Lineage == INSTANCE RefreshLineage WITH
  Login <- "login",
  Gone <- "gone",
  holder <- [s \in Sessions |-> HolderOf(s)],
  past <- {x \in Exchanges : sess[x] # NoSession}
KeepsLineage == Lineage!Spec
=============================================================================
