----------------------------- MODULE LoginFlow ------------------------------
(***************************************************************************)
(* How a client comes to hold tokens (src/main.py): it registers           *)
(* (/oauth/register), its user logs in on the pages of /oauth/authorize    *)
(* with a one-time code sent to a phone, and the authorization code that   *)
(* the last page redirects with is exchanged at /oauth/token.              *)
(* (A request that lacks one of the OAuth parameters is refused before any *)
(* await, and is left out.)                                                *)
(*                                                                         *)
(* The pages keep nothing on the server.  Every request to /oauth/authorize*)
(* brings all its parameters, which the page carried in hidden fields, and *)
(* checks them anew; requests of one login, and of several, interleave at  *)
(* their awaits:                                                           *)
(*   resolve  - the client's registration is read                          *)
(*   waiting  - the operator was asked to send or to verify a one-time code*)
(*   profile, session, grant, notify - verified; the profile is fetched,   *)
(*              the session is stored, then the authorization code, and    *)
(*              monitoring is told                                         *)
(* A session and an authorization code are named by the request that       *)
(* stores them, a one-time code by the request that has it sent.  What     *)
(* becomes of the tokens is in OAuthSession.                               *)
(***************************************************************************)
EXTENDS TtlStore

CONSTANTS
  Regs,       \* client ids that /oauth/register hands out
  Uris,       \* Uris[g]: the redirect_uris g is registered with
  Static,     \* OAUTH_CLIENT_ID
  Allowed,    \* redirect URIs that _is_allowed_redirect_uri accepts
  Params,     \* client, redirect URI and PKCE verifier, of whoever asks
  Requests,   \* requests to /oauth/authorize
  Exchanges,  \* requests to /oauth/token with an authorization code
  Phones,
  NoOtp,      \* no one-time code is good
  ClientTTL,  \* DYNAMIC_CLIENT_TTL
  CodeTTL,    \* AUTH_CODE_TTL
  MaxTime     \* bound on the clock

ASSUME LoginAssumption ==
  /\ Static \notin Regs
  /\ NoOtp \notin Requests
  /\ ClientTTL \in Nat \ {0} /\ CodeTTL \in Nat /\ MaxTime \in Nat \ {0}

VARIABLES
  now,      \* the clock, from 1
  client,   \* client[g]: the entry client:<g>
  issued,   \* issued[g]: client_id_issued_at
  told,     \* told[g]: progress of g's registration
  par,      \* par[r]: the parameters r brings; the challenge is the verifier's
  step,     \* step[r]: what it asks for
  phone,    \* phone[r]: the phone number it names
  typed,    \* typed[r]: the one-time code it brings
  pc,       \* pc[r]: how far it is
  otp,      \* otp[h]: the one-time code the operator would accept from h
  post,     \* post[r]: what the operator did with r's request
  session,  \* session[r]: r's session is stored
  grant,    \* grant[r]: the entry grant:<code>
  granted,  \* granted[r]: when that was stored, or 0
  page,     \* page[r]: the answer
  code,     \* code[x]: whose authorization code x presents
  claim,    \* claim[x]: the parameters it presents it with
  result    \* result[x]: its answer

form == <<par, step, phone, typed>>
registry == <<client, issued, told>>
stored == <<session, grant, granted>>
exchange == <<code, claim, result>>
vars == <<now, registry, form, pc, otp, post, stored, page, exchange>>

Stages == {"idle", "resolve", "waiting", "profile", "session", "grant", "notify", "done"}
Pages == {"none",
          "phone",     \* 200, enter a phone number (perhaps after a failure)
          "code",      \* 200, enter the one-time code (or a field was missing)
          "refused",   \* 400, the parameters
          "wrong",     \* 400, the one-time code
          "timeout",   \* 504, "Verification timed out. Please try again."
          "failed",    \* 502, "Verification failed."
          "redirect",  \* 302, with the authorization code
          "error"}     \* 500, or no answer
Posts == {"none", "sent", "done", "rejected"}
Progress == {"idle", "put", "stored", "created", "failed"}
Results == {"none", "tokens", "mismatch", "invalid", "error"}

Init ==
  /\ now = 1
  /\ client = [g \in Regs |-> Absent]
  /\ issued = [g \in Regs |-> 0]
  /\ told = [g \in Regs |-> "idle"]
  /\ par \in [Requests -> Params]
  /\ step \in [Requests -> {"get", "send_code", "verify"}]
  /\ phone \in [Requests -> Phones]
  /\ typed \in [Requests -> Requests \cup {NoOtp}]
  /\ pc = [r \in Requests |-> "idle"]
  /\ otp = [h \in Phones |-> NoOtp]
  /\ post = [r \in Requests |-> "none"]
  /\ session = [r \in Requests |-> FALSE]
  /\ grant = [r \in Requests |-> Absent]
  /\ granted = [r \in Requests |-> 0]
  /\ page = [r \in Requests |-> "none"]
  /\ code \in [Exchanges -> Requests]
  /\ claim \in [Exchanges -> Params]
  /\ result = [x \in Exchanges |-> "none"]

Go(r, s) ==
  /\ pc' = [pc EXCEPT ![r] = s]
  /\ UNCHANGED page

(* Slip: the page is sent and the handler goes on. *)
ShowAndGoOn(r, p) ==
  /\ page' = [page EXCEPT ![r] = p]
  /\ UNCHANGED pc

Show(r, p) ==
  /\ pc' = [pc EXCEPT ![r] = "done"]
  /\ page' = [page EXCEPT ![r] = p]

------------------------------------------------------------------------------
(* The registration is refused by the request limit or for its redirect URIs *)
(* or metadata, or it is written.                                            *)
Register(g) ==
  /\ told[g] = "idle"
  /\ issued' = [issued EXCEPT ![g] = now]
  /\ \/ told' = [told EXCEPT ![g] = "failed"]
     \/ Uris[g] \subseteq Allowed /\ told' = [told EXCEPT ![g] = "put"]
  /\ UNCHANGED <<now, client, form, pc, otp, post, stored, page, exchange>>

StoreClient(g) ==
  /\ told[g] = "put"
  /\ told' = [told EXCEPT ![g] = "stored"]
  /\ client' = [client EXCEPT ![g] = Item(g, issued[g] + ClientTTL)]
  /\ UNCHANGED <<now, issued, form, pc, otp, post, stored, page, exchange>>

(* 201; or 500, whether or not the table has the registration. *)
AnswerClient(g) ==
  /\ \/ told[g] = "stored" /\ told' = [told EXCEPT ![g] = "created"]
     \/ told[g] \in {"put", "stored"} /\ told' = [told EXCEPT ![g] = "failed"]
  /\ UNCHANGED <<now, client, issued, form, pc, otp, post, stored, page, exchange>>

------------------------------------------------------------------------------
(* The parameters are good.  GET has the phone page; a one-time code is      *)
(* asked for, or brought to the operator, unless a field is missing, the     *)
(* number is no number or the guard forbids it.                              *)
Proceed(r) ==
  \/ /\ step[r] = "get"
     /\ Show(r, "phone")
     /\ UNCHANGED post
  \/ /\ step[r] # "get"
     /\ \E p \in IF step[r] = "verify" THEN {"code", "failed"} ELSE {"phone"} : Show(r, p)
     /\ UNCHANGED post
  \/ /\ step[r] # "get"
     /\ Go(r, "waiting")
     /\ post' = [post EXCEPT ![r] = "sent"]

(* A client id from /oauth/register is known from its 201 on; any other is   *)
(* a stranger, or the configured one, whose redirects are not registered.    *)
Arrive(r) ==
  /\ pc[r] = "idle"
  /\ par[r].client \in Regs => told[par[r].client] = "created"
  /\ \/ /\ par[r].redirect \notin Allowed
        /\ Show(r, "refused")
        /\ UNCHANGED post
     \/ /\ par[r].redirect \in Allowed
        /\ par[r].client = Static
        /\ Proceed(r)
     \/ /\ par[r].redirect \in Allowed
        /\ par[r].client # Static
        /\ Go(r, "resolve")
        /\ UNCHANGED post
  /\ UNCHANGED <<now, registry, form, otp, stored, exchange>>

Registration(r) ==
  IF par[r].client \in Regs THEN client[par[r].client] ELSE Absent

(* Slip: the redirect URIs of the registration are not looked at. *)
ResolveLoosely(r) ==
  /\ pc[r] = "resolve"
  /\ Proceed(r)
  /\ UNCHANGED <<now, registry, form, otp, stored, exchange>>

(* _resolve_dynamic_client: a registration binds its client to the redirects *)
(* it names; an expired one is deleted, and the client is a stranger.        *)
Resolve(r) ==
  LET e == Registration(r)
  IN  /\ pc[r] = "resolve"
      /\ \/ /\ Live(e, now) /\ par[r].redirect \in Uris[e.val]
            /\ Proceed(r)
            /\ UNCHANGED client
         \/ /\ Live(e, now) /\ par[r].redirect \notin Uris[e.val]
            /\ Show(r, "refused")
            /\ UNCHANGED <<client, post>>
         \/ /\ ~Live(e, now)
            /\ Proceed(r)
            /\ client' = [g \in Regs |-> IF g = par[r].client THEN Absent ELSE client[g]]
      /\ UNCHANGED <<now, issued, told, form, otp, stored, exchange>>

------------------------------------------------------------------------------
(* The operator sends a one-time code, which replaces the one before. *)
OperatorSends(r) ==
  /\ post[r] = "sent" /\ step[r] = "send_code"
  /\ otp' = [otp EXCEPT ![phone[r]] = r]
  /\ post' = [post EXCEPT ![r] = "done"]
  /\ UNCHANGED <<now, registry, form, pc, stored, page, exchange>>

(* It accepts the one-time code it sent last, and accepts it once. *)
OperatorAccepts(r) ==
  /\ post[r] = "sent" /\ step[r] = "verify"
  /\ typed[r] # NoOtp /\ typed[r] = otp[phone[r]]
  /\ otp' = [otp EXCEPT ![phone[r]] = NoOtp]
  /\ post' = [post EXCEPT ![r] = "done"]
  /\ UNCHANGED <<now, registry, form, pc, stored, page, exchange>>

(* Wrong, expired, or an error of its own. *)
OperatorRejects(r) ==
  /\ post[r] = "sent"
  /\ post' = [post EXCEPT ![r] = "rejected"]
  /\ UNCHANGED <<now, registry, form, pc, otp, stored, page, exchange>>

HearSent(r) ==
  /\ pc[r] = "waiting" /\ step[r] = "send_code" /\ post[r] = "done"
  /\ Show(r, "code")
  /\ UNCHANGED <<now, registry, form, otp, post, stored, exchange>>

(* The code's fault, as far as _otp_error_from_response can tell, or some    *)
(* failure.                                                                  *)
Rejection(r) == IF step[r] = "verify" THEN {"wrong", "failed"} ELSE {"phone"}

HearRejected(r) ==
  /\ pc[r] = "waiting" /\ post[r] = "rejected"
  /\ \E p \in Rejection(r) : Show(r, p)
  /\ UNCHANGED <<now, registry, form, otp, post, stored, exchange>>

(* Slip: the profile starts out as {} and not as None. *)
HearNothingAndGoOn(r) ==
  /\ pc[r] = "waiting"
  /\ IF step[r] = "verify" THEN Go(r, "profile") ELSE Show(r, "phone")
  /\ UNCHANGED <<now, registry, form, otp, post, stored, exchange>>

(* Slip: the request is repeated after a timeout. *)
HearNothingAndRepeat(r) ==
  /\ pc[r] = "waiting"
  /\ post' = [post EXCEPT ![r] = "sent"]
  /\ UNCHANGED <<now, registry, form, pc, otp, stored, page, exchange>>

(* The answer does not arrive, whatever the operator has done or will do. *)
HearNothing(r) ==
  /\ pc[r] = "waiting"
  /\ \E p \in IF step[r] = "verify" THEN {"timeout", "failed"} ELSE {"phone"} : Show(r, p)
  /\ UNCHANGED <<now, registry, form, otp, post, stored, exchange>>

(* Slip: the session is stored before the operator's tokens are looked at. *)
HearAcceptedAndStore(r) ==
  /\ pc[r] = "waiting" /\ step[r] = "verify" /\ post[r] = "done"
  /\ session' = [session EXCEPT ![r] = TRUE]
  /\ Go(r, "profile") \/ Show(r, "failed")
  /\ UNCHANGED <<now, registry, form, otp, post, grant, granted, exchange>>

(* Accepted; without both of the operator's tokens the login fails. *)
HearAccepted(r) ==
  /\ pc[r] = "waiting" /\ step[r] = "verify" /\ post[r] = "done"
  /\ Go(r, "profile") \/ Show(r, "failed")
  /\ UNCHANGED <<now, registry, form, otp, post, stored, exchange>>

(* _fetch_homeowner_profile asks twice, and goes on with {} if it must. *)
FetchProfile(r) ==
  /\ pc[r] = "profile"
  /\ Go(r, "session")
  /\ UNCHANGED <<now, registry, form, otp, post, stored, exchange>>

------------------------------------------------------------------------------
StoreSession(r) ==
  /\ pc[r] = "session"
  /\ session' = [session EXCEPT ![r] = TRUE]
  /\ Go(r, "grant")
  /\ UNCHANGED <<now, registry, form, otp, post, grant, granted, exchange>>

StoreGrant(r) ==
  /\ pc[r] = "grant"
  /\ grant' = [grant EXCEPT ![r] = Item(par[r], now + CodeTTL)]
  /\ granted' = [granted EXCEPT ![r] = now]
  /\ Go(r, "notify")
  /\ UNCHANGED <<now, registry, form, otp, post, session, exchange>>

(* Whatever monitoring says, the browser is redirected with the code. *)
Redirect(r) ==
  /\ pc[r] = "notify"
  /\ Show(r, "redirect")
  /\ UNCHANGED <<now, registry, form, otp, post, stored, exchange>>

(* A store call raises, or the process dies. *)
Break(r) ==
  /\ pc[r] \notin {"idle", "done"}
  /\ Show(r, "error")
  /\ UNCHANGED <<now, registry, form, otp, post, stored, exchange>>

------------------------------------------------------------------------------
(* Slip: a code is deleted when it is good for tokens only. *)
ExchangeByReading(x) ==
  LET e == grant[code[x]]
  IN  /\ page[code[x]] = "redirect" /\ result[x] = "none"
      /\ \/ /\ Live(e, now) /\ e.val = claim[x]
            /\ result' = [result EXCEPT ![x] = "tokens"]
            /\ grant' = [grant EXCEPT ![code[x]] = Absent]
         \/ /\ Live(e, now) /\ e.val # claim[x]
            /\ result' = [result EXCEPT ![x] = "mismatch"]
            /\ UNCHANGED grant
      /\ UNCHANGED <<now, registry, form, pc, otp, post, session, granted, page, code, claim>>

(* The code is consumed first, and compared then: client, redirect URI and   *)
(* the challenge of the verifier.  When the table's reply is lost the client *)
(* library repeats the delete, and finds nothing.                            *)
Exchange(x) ==
  LET e == grant[code[x]]
  IN  /\ page[code[x]] = "redirect" /\ result[x] = "none"
      /\ grant' = [grant EXCEPT ![code[x]] = Absent]
      /\ \/ /\ Live(e, now)
            /\ result' = [result EXCEPT ![x] = IF e.val = claim[x] THEN "tokens" ELSE "mismatch"]
         \/ result' = [result EXCEPT ![x] = "invalid"]
      /\ UNCHANGED <<now, registry, form, pc, otp, post, session, granted, page, code, claim>>

(* The table refuses the call: 500, and the code is as good as before. *)
ExchangeBreaks(x) ==
  /\ page[code[x]] = "redirect" /\ result[x] = "none"
  /\ result' = [result EXCEPT ![x] = "error"]
  /\ UNCHANGED <<now, registry, form, pc, otp, post, stored, page, code, claim>>

Tick ==
  /\ now < MaxTime
  /\ now' = now + 1
  /\ UNCHANGED <<registry, form, pc, otp, post, stored, page, exchange>>

Registering(g) == StoreClient(g) \/ AnswerClient(g)

Operator(r) == OperatorSends(r) \/ OperatorAccepts(r) \/ OperatorRejects(r)

Serve(r) ==
  \/ Resolve(r) \/ HearSent(r) \/ HearRejected(r) \/ HearNothing(r) \/ HearAccepted(r)
  \/ FetchProfile(r) \/ StoreSession(r) \/ StoreGrant(r) \/ Redirect(r) \/ Break(r)

Next ==
  \/ Tick
  \/ \E g \in Regs : Register(g) \/ Registering(g)
  \/ \E r \in Requests : Arrive(r) \/ Operator(r) \/ Serve(r)
  \/ \E x \in Exchanges : Exchange(x) \/ ExchangeBreaks(x)

Spec == Init /\ [][Next]_vars

(* Every await of a request ends: the operator's with a timeout, the table's *)
(* with an answer or an exception.                                           *)
Fairness ==
  /\ \A g \in Regs : WF_vars(Registering(g))
  /\ \A r \in Requests : WF_vars(Serve(r))
FairSpec == Spec /\ Fairness

------------------------------------------------------------------------------
TypeOK ==
  /\ now \in 1..MaxTime
  /\ client \in [Regs -> Entries(Regs)]
  /\ issued \in [Regs -> 0..MaxTime]
  /\ told \in [Regs -> Progress]
  /\ par \in [Requests -> Params]
  /\ step \in [Requests -> {"get", "send_code", "verify"}]
  /\ phone \in [Requests -> Phones]
  /\ typed \in [Requests -> Requests \cup {NoOtp}]
  /\ pc \in [Requests -> Stages]
  /\ otp \in [Phones -> Requests \cup {NoOtp}]
  /\ post \in [Requests -> Posts]
  /\ session \in [Requests -> BOOLEAN]
  /\ grant \in [Requests -> Entries(Params)]
  /\ granted \in [Requests -> 0..MaxTime]
  /\ page \in [Requests -> Pages]
  /\ code \in [Exchanges -> Requests]
  /\ claim \in [Exchanges -> Params]
  /\ result \in [Exchanges -> Results]
  /\ \A r \in Requests : (page[r] # "none") <=> (pc[r] = "done")

(* A client that was told 201 stays registered for the lifetime of a         *)
(* registration, and every authorization code stored for it in that time     *)
(* goes to a redirect URI it registered, however its logins, its             *)
(* registration and their expiry overlap (src/main.py authorize_endpoint,    *)
(* dynamic_registration).                                                    *)
Registered(g, t) == told[g] = "created" /\ t < issued[g] + ClientTTL

RegisteredRedirects ==
  /\ \A g \in Regs : Registered(g, now) => Live(client[g], now)
  /\ \A r \in Requests : granted[r] # 0 =>
       /\ par[r].redirect \in Allowed
       /\ par[r].client \in Regs /\ Registered(par[r].client, granted[r]) =>
            par[r].redirect \in Uris[par[r].client]

(* However often a page is submitted, and whatever times out, a one-time     *)
(* code leads to one session and one authorization code at most, and only    *)
(* after it was sent to that very phone (src/main.py authorize_endpoint).    *)
OneLoginPerOtp ==
  \A r \in Requests : session[r] =>
    /\ typed[r] \in Requests
    /\ step[typed[r]] = "send_code" /\ phone[typed[r]] = phone[r] /\ post[typed[r]] = "done"
    /\ \A q \in Requests : session[q] /\ typed[q] = typed[r] => q = r

(* A page that asks the user to try again tells the truth: the request left  *)
(* neither a session nor an authorization code behind.  Only a request that  *)
(* broke off may have (src/main.py authorize_endpoint).                      *)
ErrorPageLeavesNothing ==
  \A r \in Requests : page[r] \notin {"none", "redirect", "error"} =>
    ~session[r] /\ granted[r] = 0

(* Tokens go to whoever began the login: the same client and redirect URI,   *)
(* and the verifier behind its challenge.  A code is compared once: after a  *)
(* failed comparison it is as dead as after a good one (src/main.py          *)
(* token_endpoint).                                                          *)
Compared(x) == result[x] \in {"tokens", "mismatch"}

TokensToTheBeginner ==
  \A x \in Exchanges : Compared(x) =>
    /\ session[code[x]] /\ page[code[x]] = "redirect"
    /\ result[x] = "tokens" <=> claim[x] = par[code[x]]
    /\ \A y \in Exchanges : Compared(y) /\ code[y] = code[x] => y = x

(* Every registration and every login request that is under way ends, with   *)
(* whatever answer (src/main.py authorize_endpoint: each await has a timeout,*)
(* and no handler repeats its request).                                      *)
EveryLoginEnds ==
  /\ \A g \in Regs : <>[](told[g] \notin {"put", "stored"})
  /\ \A r \in Requests : <>[](pc[r] \in {"idle", "done"})

------------------------------------------------------------------------------
(* A one-time code goes the way OneTimeCode allows, across pages that time   *)
(* out, are repeated or break off and exchanges that fail: from the phone it *)
(* was sent to into one login, from there into one answer with tokens, and   *)
(* never back.  r has it from the operator's acceptance until r ends without *)
(* a redirect or its authorization code is gone.                             *)
HasLogin(r) ==
  /\ step[r] = "verify" /\ post[r] = "done"
  /\ pc[r] # "done" \/ (page[r] = "redirect" /\ grant[r] # Absent)

Hands(o) ==
  {<<"phone", h>> : h \in {h \in Phones : otp[h] = o}}
    \cup {<<"login", r>> : r \in {r \in Requests : HasLogin(r) /\ typed[r] = o}}
    \cup {<<"tokens", x>> : x \in {x \in Exchanges : result[x] = "tokens" /\ typed[code[x]] = o}}

OneTime == INSTANCE OneTimeCode WITH
  sent <- {o \in Requests : step[o] = "send_code" /\ post[o] = "done"},
  hands <- [o \in Requests |-> Hands(o)]
KeepsOneTime == OneTime!Spec
=============================================================================
