---------------------------- MODULE LoginProofs -----------------------------
(***************************************************************************)
(* Theorems about LoginFlow, for any clients, parameters, requests and     *)
(* exchanges.                                                              *)
(***************************************************************************)
EXTENDS LoginFlow, TLAPS

(* The parameters of r are good at time t. *)
Bound(r, t) ==
  /\ par[r].redirect \in Allowed
  /\ par[r].client \in Regs /\ Registered(par[r].client, t) =>
       par[r].redirect \in Uris[par[r].client]

Known(r) == par[r].client \in Regs => told[par[r].client] = "created"

(* Every request of its own: of the others' data it touches nothing. *)
Alone(r) ==
  /\ UNCHANGED <<now, issued, told, form, otp, exchange>>
  /\ \A q \in Requests \ {r} :
       /\ pc'[q] = pc[q] /\ page'[q] = page[q] /\ post'[q] = post[q]
       /\ session'[q] = session[q] /\ grant'[q] = grant[q] /\ granted'[q] = granted[q]

Stays(r) == session'[r] = session[r] /\ grant'[r] = grant[r] /\ granted'[r] = granted[r]

(* What a step of the handler does to its own request. *)
Checks(r) ==
  /\ pc[r] = "idle" /\ pc'[r] = "resolve" /\ page'[r] = page[r]
  /\ Known(r) /\ par[r].redirect \in Allowed
  /\ post'[r] = post[r] /\ Stays(r)

Sends(r) ==
  /\ pc[r] \in {"idle", "resolve"} /\ pc'[r] = "waiting" /\ page'[r] = page[r]
  /\ pc[r] = "idle" => Known(r)
  /\ pc[r] = "idle" => par[r].redirect \in Allowed /\ par[r].client = Static
  /\ pc[r] = "resolve" =>
       \/ ~Live(Registration(r), now)
       \/ Live(Registration(r), now) /\ par[r].redirect \in Uris[Registration(r).val]
  /\ post'[r] = "sent" /\ Stays(r)

Ends(r) ==
  /\ pc[r] \in {"idle", "resolve", "waiting"} /\ pc'[r] = "done"
  /\ pc[r] = "idle" => Known(r)
  /\ page'[r] \in Pages \ {"none", "redirect", "error"}
  /\ post'[r] = post[r] /\ Stays(r)

Passes(r) ==
  /\ \/ pc[r] = "waiting" /\ step[r] = "verify" /\ post[r] = "done" /\ pc'[r] = "profile"
     \/ pc[r] = "profile" /\ pc'[r] = "session"
  /\ page'[r] = page[r] /\ post'[r] = post[r] /\ Stays(r)

Opens(r) ==
  /\ pc[r] = "session" /\ pc'[r] = "grant" /\ page'[r] = page[r] /\ post'[r] = post[r]
  /\ session'[r] = TRUE /\ grant'[r] = grant[r] /\ granted'[r] = granted[r]

Grants(r) ==
  /\ pc[r] = "grant" /\ pc'[r] = "notify" /\ page'[r] = page[r] /\ post'[r] = post[r]
  /\ session'[r] = session[r] /\ granted'[r] = now
  /\ grant'[r] = Item(par[r], now + CodeTTL)

Leaves(r) ==
  /\ pc[r] \notin {"idle", "done"} /\ pc'[r] = "done"
  /\ page'[r] = "error" \/ (pc[r] = "notify" /\ page'[r] = "redirect")
  /\ post'[r] = post[r] /\ Stays(r)

Moves(r) ==
  Checks(r) \/ Sends(r) \/ Ends(r) \/ Passes(r) \/ Opens(r) \/ Grants(r) \/ Leaves(r)

------------------------------------------------------------------------------
LEMMA InitType == Init => TypeOK
BY LoginAssumption DEF Init, TypeOK, Stages, Pages, Posts, Progress, Results, Entries

LEMMA ShowType ==
  ASSUME TypeOK, NEW r \in Requests, NEW p \in Pages \ {"none"}, Show(r, p)
  PROVE  /\ pc' \in [Requests -> Stages] /\ page' \in [Requests -> Pages]
         /\ \A q \in Requests : (page'[q] # "none") <=> (pc'[q] = "done")
BY DEF TypeOK, Show, Stages

LEMMA GoType ==
  ASSUME TypeOK, NEW r \in Requests, pc[r] # "done", NEW s \in Stages \ {"done"}, Go(r, s)
  PROVE  /\ pc' \in [Requests -> Stages] /\ page' \in [Requests -> Pages]
         /\ \A q \in Requests : (page'[q] # "none") <=> (pc'[q] = "done")
BY DEF TypeOK, Go

(* Whatever a request does about its own page, it stays well-typed. *)
Paging(r) ==
  \/ \E p \in Pages \ {"none"} : Show(r, p)
  \/ pc[r] # "done" /\ \E s \in Stages \ {"done"} : Go(r, s)

LEMMA PagingType ==
  ASSUME TypeOK, NEW r \in Requests, Paging(r), UNCHANGED <<now, issued, told, form, exchange>>,
         client' \in [Regs -> Entries(Regs)], otp' = otp, post' \in [Requests -> Posts],
         session' \in [Requests -> BOOLEAN], grant' \in [Requests -> Entries(Params)],
         granted' \in [Requests -> 0..MaxTime]
  PROVE  TypeOK'
<1>1. /\ pc' \in [Requests -> Stages] /\ page' \in [Requests -> Pages]
      /\ \A q \in Requests : (page'[q] # "none") <=> (pc'[q] = "done")
  BY ShowType, GoType DEF Paging
<1> QED
  BY <1>1 DEF TypeOK, form, exchange

LEMMA ProceedPaging ==
  ASSUME TypeOK, NEW r \in Requests, pc[r] # "done", Proceed(r)
  PROVE  Paging(r) /\ post' \in [Requests -> Posts]
<1>1. Paging(r)
  BY DEF Proceed, Paging, Pages, Stages
<1>2. post' \in [Requests -> Posts]
  BY DEF TypeOK, Proceed, Posts
<1> QED
  BY <1>1, <1>2

LEMMA ServeType == ASSUME TypeOK, NEW r \in Requests, Arrive(r) \/ Serve(r) PROVE TypeOK'
<1>0. /\ client \in [Regs -> Entries(Regs)] /\ session \in [Requests -> BOOLEAN]
      /\ grant \in [Requests -> Entries(Params)] /\ granted \in [Requests -> 0..MaxTime]
      /\ post \in [Requests -> Posts] /\ now \in 1..MaxTime /\ par[r] \in Params
  BY DEF TypeOK
<1>1. CASE Arrive(r)
  <2>1. Paging(r) /\ post' \in [Requests -> Posts]
    BY <1>0, <1>1, ProceedPaging DEF Arrive, Paging, Pages, Stages
  <2> QED
    BY <1>0, <1>1, <2>1, PagingType DEF Arrive, registry, stored
<1>2. CASE Resolve(r)
  <2>1. Paging(r) /\ post' \in [Requests -> Posts]
    BY <1>0, <1>2, ProceedPaging DEF Resolve, Paging, Pages, Stages
  <2>2. client' \in [Regs -> Entries(Regs)]
    BY <1>0, <1>2 DEF Resolve, Entries
  <2> QED
    BY <1>0, <1>2, <2>1, <2>2, PagingType DEF Resolve, stored
<1>3. CASE HearSent(r) \/ HearRejected(r) \/ HearNothing(r) \/ HearAccepted(r) \/ FetchProfile(r) \/ Redirect(r) \/ Break(r)
  <2>1. Paging(r)
    BY <1>3 DEF HearSent, HearRejected, Rejection, HearNothing, HearAccepted, FetchProfile, Redirect,
           Break, Paging, Pages, Stages
  <2>2. UNCHANGED <<now, registry, form, otp, post, stored, exchange>>
    BY <1>3 DEF HearSent, HearRejected, HearNothing, HearAccepted, FetchProfile, Redirect, Break
  <2> QED
    BY <1>0, <2>1, <2>2, PagingType DEF registry, stored
<1>4. CASE StoreSession(r)
  <2>1. Paging(r) /\ session' \in [Requests -> BOOLEAN]
    BY <1>0, <1>4 DEF StoreSession, Paging, Stages
  <2> QED
    BY <1>0, <1>4, <2>1, PagingType DEF StoreSession, registry
<1>5. CASE StoreGrant(r)
  <2>1. Item(par[r], now + CodeTTL) \in Entries(Params)
    BY <1>0, LoginAssumption DEF Item, Entries
  <2>2. grant' \in [Requests -> Entries(Params)] /\ granted' \in [Requests -> 0..MaxTime]
    BY <1>0, <1>5, <2>1 DEF StoreGrant
  <2>3. Paging(r)
    BY <1>5 DEF StoreGrant, Paging, Stages
  <2> QED
    BY <1>0, <1>5, <2>2, <2>3, PagingType DEF StoreGrant, registry
<1> QED
  BY <1>1, <1>2, <1>3, <1>4, <1>5 DEF Serve

LEMMA OperatorType == ASSUME TypeOK, NEW r \in Requests, Operator(r) PROVE TypeOK'
<1>1. CASE OperatorSends(r)
  BY <1>1 DEF OperatorSends, TypeOK, Posts, registry, form, stored, exchange
<1>2. CASE OperatorAccepts(r)
  BY <1>2 DEF OperatorAccepts, TypeOK, Posts, registry, form, stored, exchange
<1>3. CASE OperatorRejects(r)
  BY <1>3 DEF OperatorRejects, TypeOK, Posts, registry, form, stored, exchange
<1> QED
  BY <1>1, <1>2, <1>3 DEF Operator

LEMMA RegisterType ==
  ASSUME TypeOK, NEW g \in Regs, Register(g) \/ Registering(g) PROVE TypeOK'
<1>1. CASE Register(g)
  BY <1>1 DEF Register, TypeOK, Progress, form, stored, exchange
<1>2. CASE StoreClient(g)
  <2>1. Item(g, issued[g] + ClientTTL) \in Entries(Regs)
    BY LoginAssumption DEF Item, Entries, TypeOK
  <2> QED
    BY <1>2, <2>1 DEF StoreClient, TypeOK, Progress, form, stored, exchange
<1>3. CASE AnswerClient(g)
  BY <1>3 DEF AnswerClient, TypeOK, Progress, form, stored, exchange
<1> QED
  BY <1>1, <1>2, <1>3 DEF Registering

LEMMA ExchangeType ==
  ASSUME TypeOK, NEW x \in Exchanges, Exchange(x) \/ ExchangeBreaks(x) PROVE TypeOK'
<1>1. Absent \in Entries(Params)
  BY DEF Entries
<1>2. CASE Exchange(x)
  BY <1>1, <1>2 DEF Exchange, TypeOK, Results, registry, form
<1>3. CASE ExchangeBreaks(x)
  BY <1>3 DEF ExchangeBreaks, TypeOK, Results, registry, form, stored
<1> QED
  BY <1>2, <1>3

LEMMA NextType == TypeOK /\ [Next]_vars => TypeOK'
<1> SUFFICES ASSUME TypeOK, [Next]_vars PROVE TypeOK'
  OBVIOUS
<1>1. CASE Tick
  BY <1>1, LoginAssumption DEF Tick, TypeOK, registry, form, stored, exchange
<1>2. CASE UNCHANGED vars
  BY <1>2 DEF TypeOK, vars, registry, form, stored, exchange
<1> QED
  BY <1>1, <1>2, ServeType, OperatorType, RegisterType, ExchangeType DEF Next

(* A page is shown when, and only when, its request is done. *)
THEOREM TypeCorrect == Spec => []TypeOK
BY InitType, NextType, PTL DEF Spec

------------------------------------------------------------------------------
LEMMA NeverLive == TypeOK => ~Live(Absent, now)
BY DEF TypeOK, Live, Absent

(* A step of a handler moves its own request, and may purge a dead entry. *)
LEMMA MoveCases ==
  ASSUME TypeOK, NEW r \in Requests, Arrive(r) \/ Serve(r)
  PROVE  /\ Alone(r) /\ Moves(r)
         /\ \A g \in Regs : client'[g] = client[g] \/ (client'[g] = Absent /\ ~Live(client[g], now))
<1> USE DEF registry, stored
<1>1. ASSUME NEW p \in Pages \ {"none", "redirect", "error"}, Show(r, p),
             pc[r] \in {"idle", "resolve", "waiting"}, pc[r] = "idle" => Known(r),
             UNCHANGED <<now, issued, told, form, otp, exchange, post, stored>>
      PROVE  Alone(r) /\ Ends(r)
  BY <1>1 DEF TypeOK, Show, Alone, Ends, Stays, Pages
<1>2. ASSUME NEW s \in Stages \ {"done"}, Go(r, s),
             UNCHANGED <<now, issued, told, form, otp, exchange>>,
             \A q \in Requests \ {r} :
               /\ post'[q] = post[q] /\ session'[q] = session[q]
               /\ grant'[q] = grant[q] /\ granted'[q] = granted[q]
      PROVE  Alone(r) /\ pc'[r] = s /\ page'[r] = page[r]
  BY <1>2 DEF TypeOK, Go, Alone
<1>3. ASSUME Proceed(r), pc[r] \in {"idle", "resolve"}, pc[r] = "idle" => Known(r),
             pc[r] = "idle" => par[r].redirect \in Allowed /\ par[r].client = Static,
             pc[r] = "resolve" =>
               \/ ~Live(Registration(r), now)
               \/ Live(Registration(r), now) /\ par[r].redirect \in Uris[Registration(r).val],
             UNCHANGED <<now, issued, told, form, otp, exchange, stored>>
      PROVE  Alone(r) /\ Moves(r)
  <2>1. CASE Go(r, "waiting") /\ post' = [post EXCEPT ![r] = "sent"]
    <3>1. post'[r] = "sent" /\ \A q \in Requests \ {r} : post'[q] = post[q]
      BY <2>1 DEF TypeOK
    <3>2. Alone(r) /\ pc'[r] = "waiting" /\ page'[r] = page[r]
      BY <1>2, <1>3, <2>1, <3>1 DEF Stages
    <3> QED
      BY <1>3, <3>1, <3>2 DEF Moves, Sends, Stays
  <2>2. CASE UNCHANGED post /\ \E p \in {"phone", "code", "failed"} : Show(r, p)
    BY <1>1, <1>3, <2>2 DEF Pages, Moves
  <2> QED
    BY <1>3, <2>1, <2>2 DEF Proceed
<1>4. CASE Arrive(r)
  <2>1. Alone(r) /\ Moves(r)
    <3>1. pc[r] = "idle" /\ Known(r) /\ UNCHANGED <<now, issued, told, form, otp, exchange, stored>>
      BY <1>4 DEF Arrive, Known
    <3>2. CASE Show(r, "refused") /\ UNCHANGED post
      BY <1>1, <3>1, <3>2 DEF Pages, Moves
    <3>3. CASE par[r].redirect \in Allowed /\ par[r].client = Static /\ Proceed(r)
      BY <1>3, <3>1, <3>3
    <3>4. CASE par[r].redirect \in Allowed /\ Go(r, "resolve") /\ UNCHANGED post
      BY <1>2, <3>1, <3>4 DEF Stages, Moves, Checks, Stays
    <3> QED
      BY <1>4, <3>2, <3>3, <3>4 DEF Arrive
  <2> QED
    BY <1>4, <2>1 DEF Arrive
<1>5. CASE Resolve(r)
  <2>1. pc[r] = "resolve" /\ UNCHANGED <<now, issued, told, form, otp, exchange, stored>>
    BY <1>5 DEF Resolve
  <2>2. Alone(r) /\ Moves(r)
    <3>1. CASE Show(r, "refused") /\ UNCHANGED post
      BY <1>1, <2>1, <3>1 DEF Pages, Moves
    <3>2. CASE /\ Proceed(r)
               /\ \/ ~Live(Registration(r), now)
                  \/ Live(Registration(r), now) /\ par[r].redirect \in Uris[Registration(r).val]
      BY <1>3, <2>1, <3>2
    <3> QED
      BY <1>5, <3>1, <3>2 DEF Resolve
  <2>3. \A g \in Regs : client'[g] = client[g] \/ (client'[g] = Absent /\ ~Live(client[g], now))
    BY <1>5 DEF Resolve, Registration
  <2> QED
    BY <2>2, <2>3
<1>6. CASE HearSent(r) \/ HearRejected(r) \/ HearNothing(r)
  <2>1. PICK p \in Pages \ {"none", "redirect", "error"} : Show(r, p)
    BY <1>6 DEF HearSent, HearRejected, Rejection, HearNothing, Pages
  <2> QED
    BY <1>1, <1>6, <2>1 DEF HearSent, HearRejected, HearNothing, Moves
<1>7. CASE HearAccepted(r)
  <2>1. CASE Go(r, "profile")
    BY <1>2, <1>7, <2>1 DEF HearAccepted, Stages, Moves, Passes, Stays
  <2>2. CASE Show(r, "failed")
    BY <1>1, <1>7, <2>2 DEF HearAccepted, Pages, Moves
  <2> QED
    BY <1>7, <2>1, <2>2 DEF HearAccepted
<1>8. CASE StoreSession(r)
  <2>1. session'[r] = TRUE /\ \A q \in Requests \ {r} : session'[q] = session[q]
    BY <1>8 DEF StoreSession, TypeOK
  <2> QED
    BY <1>2, <1>8, <2>1 DEF StoreSession, Stages, Moves, Opens
<1>9. CASE StoreGrant(r)
  <2>1. /\ grant'[r] = Item(par[r], now + CodeTTL) /\ granted'[r] = now
        /\ \A q \in Requests \ {r} : grant'[q] = grant[q] /\ granted'[q] = granted[q]
    BY <1>9 DEF StoreGrant, TypeOK
  <2> QED
    BY <1>2, <1>9, <2>1 DEF StoreGrant, Stages, Moves, Grants
<1>10. CASE Redirect(r) \/ Break(r)
  BY <1>10 DEF Redirect, Break, Show, TypeOK, Alone, Moves, Leaves, Stays
<1>11. CASE FetchProfile(r)
  BY <1>2, <1>11 DEF FetchProfile, Stages, Moves, Passes, Stays
<1> QED
  BY <1>4, <1>5, <1>6, <1>7, <1>8, <1>9, <1>10, <1>11
     DEF Serve, HearSent, HearRejected, HearNothing, HearAccepted, FetchProfile, StoreSession,
         StoreGrant, Redirect, Break

------------------------------------------------------------------------------
(* An entry is its own registration's, and there while that is good. *)
RegInv(g) ==
  /\ told[g] \in {"idle", "put"} => client[g] = Absent
  /\ client[g] \in {Absent, Item(g, issued[g] + ClientTTL)}
  /\ told[g] \in {"stored", "created"} /\ now < issued[g] + ClientTTL =>
       client[g] = Item(g, issued[g] + ClientTTL)

(* A request that has gone on is known; past the reading of its registration *)
(* its parameters are good, and they were when its code was stored.          *)
PathInv(r) ==
  /\ pc[r] # "idle" => Known(r)
  /\ pc[r] = "resolve" => par[r].redirect \in Allowed
  /\ pc[r] \in {"waiting", "profile", "session", "grant", "notify"} => Bound(r, now)
  /\ granted[r] # 0 => pc[r] # "idle" /\ Bound(r, granted[r])

RedirectInv == (\A g \in Regs : RegInv(g)) /\ (\A r \in Requests : PathInv(r))

(* A live registration binds; a dead one leaves nothing to be bound by. *)
LEMMA Binds ==
  ASSUME TypeOK, RedirectInv, NEW r \in Requests, Sends(r) PROVE Bound(r, now)
<1>1. CASE pc[r] = "idle"
  BY <1>1, LoginAssumption DEF Sends, Bound
<1>2. CASE pc[r] = "resolve" /\ par[r].client \in Regs /\ Registered(par[r].client, now)
  <2> DEFINE g == par[r].client
  <2>1. client[g] = Item(g, issued[g] + ClientTTL) /\ now < issued[g] + ClientTTL
    BY <1>2 DEF RedirectInv, RegInv, Registered
  <2>2. now \in Nat /\ issued[g] + ClientTTL \in Nat
    BY <1>2, LoginAssumption DEF TypeOK
  <2>3. Live(Registration(r), now) /\ Registration(r).val = g
    BY <1>2, <2>1, <2>2 DEF Live, Item, Registration
  <2> QED
    BY <1>2, <2>3 DEF Sends, Bound, RedirectInv, PathInv
<1>3. CASE pc[r] = "resolve" /\ ~(par[r].client \in Regs /\ Registered(par[r].client, now))
  BY <1>3 DEF Bound, RedirectInv, PathInv
<1> QED
  BY <1>1, <1>2, <1>3 DEF Sends

(* What is known stays known, and parameters once good for a known client    *)
(* stay good.                                                                *)
LEMMA BoundStays ==
  ASSUME TypeOK, NEW r \in Requests, Known(r), NEW t \in Nat, NEW u \in Nat, t <= u, Bound(r, t),
         par' = par,
         \A g \in Regs : told[g] = "created" => told'[g] = "created" /\ issued'[g] = issued[g]
  PROVE  Known(r)' /\ Bound(r, u)'
<1>1. Known(r)'
  BY DEF Known
<1>2. ASSUME par[r].client \in Regs, Registered(par[r].client, u)'
      PROVE  Registered(par[r].client, t)
  <2>1. issued[par[r].client] \in Nat /\ issued'[par[r].client] = issued[par[r].client]
    BY <1>2 DEF TypeOK, Known
  <2> QED
    BY <1>2, <2>1, LoginAssumption DEF Registered, Known
<1>3. Bound(r, u)'
  BY <1>2 DEF Bound
<1> QED
  BY <1>1, <1>3

(* The steps that leave every request where it is. *)
LEMMA PathStays ==
  ASSUME TypeOK, NEW r \in Requests, PathInv(r), now' \in Nat, now <= now',
         par' = par, pc'[r] = pc[r], granted'[r] = granted[r],
         \A g \in Regs : told[g] = "created" => told'[g] = "created" /\ issued'[g] = issued[g]
  PROVE  PathInv(r)'
<1>1. now \in Nat /\ granted[r] \in Nat
  BY DEF TypeOK
<1>2. pc[r] # "idle" => Known(r)'
  BY DEF PathInv, Known
<1>3. ASSUME pc[r] \in {"waiting", "profile", "session", "grant", "notify"} PROVE Bound(r, now)'
  <2>1. PICK u \in Nat : u = now'
    OBVIOUS
  <2>2. Bound(r, u)'
    BY <1>1, <1>3, <2>1, BoundStays DEF PathInv
  <2> QED
    BY <2>1, <2>2 DEF Bound, Registered
<1>4. ASSUME granted[r] # 0 PROVE Bound(r, granted[r])'
  <2>1. PICK u \in Nat : u = granted[r]
    BY <1>1
  <2>2. Bound(r, u)'
    BY <1>4, <2>1, BoundStays DEF PathInv
  <2> QED
    BY <2>1, <2>2 DEF Bound, Registered
<1> QED
  BY <1>2, <1>3, <1>4 DEF PathInv

LEMMA ServeRedirect ==
  ASSUME TypeOK, RedirectInv, NEW r \in Requests, Arrive(r) \/ Serve(r) PROVE RedirectInv'
<1>1. Alone(r) /\ Moves(r)
  BY MoveCases
<1>2. now \in Nat /\ now' = now /\ par' = par /\ told' = told /\ issued' = issued
  BY <1>1 DEF TypeOK, Alone, form
<1>3. ASSUME NEW g \in Regs PROVE RegInv(g)'
  <2>1. client'[g] = client[g] \/ (client'[g] = Absent /\ ~Live(client[g], now))
    BY MoveCases
  <2>2. issued[g] + ClientTTL \in Nat
    BY LoginAssumption DEF TypeOK
  <2> QED
    BY <1>2, <2>1, <2>2 DEF RedirectInv, RegInv, Live, Item
<1>4. ASSUME NEW q \in Requests, q # r PROVE PathInv(q)'
  <2>1. pc'[q] = pc[q] /\ granted'[q] = granted[q]
    BY <1>1, <1>4 DEF Alone
  <2> QED
    BY <1>2, <2>1, PathStays DEF RedirectInv
<1>5. PathInv(r)'
  <2>1. PathInv(r) /\ granted[r] \in Nat
    BY DEF RedirectInv, TypeOK
  <2>2. \A t : Bound(r, t)' <=> Bound(r, t)
    BY <1>2 DEF Bound, Registered
  <2>3. Known(r)' <=> Known(r)
    BY <1>2 DEF Known
  <2>4. Bound(r, now)' <=> Bound(r, now)
    BY <1>2, <2>2
  <2>5. granted'[r] = granted[r] => (Bound(r, granted[r])' <=> Bound(r, granted[r]))
    BY <1>2 DEF Bound, Registered
  <2>6. CASE Grants(r)
    <3>1. granted'[r] = now /\ pc'[r] = "notify" /\ Bound(r, now) /\ Known(r)
      BY <2>1, <2>6 DEF Grants, PathInv
    <3>2. Bound(r, granted[r])'
      BY <1>2, <3>1 DEF Bound, Registered
    <3> QED
      BY <2>3, <2>4, <3>1, <3>2 DEF PathInv
  <2>7. CASE Checks(r)
    BY <2>1, <2>3, <2>5, <2>7, <1>2 DEF Checks, Stays, PathInv
  <2>8. CASE Sends(r)
    <3>1. Bound(r, now)
      BY <2>8, Binds
    <3>2. Known(r)
      BY <2>1, <2>8 DEF Sends, PathInv
    <3> QED
      BY <2>1, <2>3, <2>4, <2>5, <2>8, <3>1, <3>2 DEF Sends, Stays, PathInv
  <2>9. CASE Ends(r)
    BY <2>1, <2>3, <2>5, <2>9 DEF Ends, Stays, PathInv
  <2>10. CASE Passes(r) \/ Opens(r) \/ Leaves(r)
    BY <2>1, <2>3, <2>4, <2>5, <2>10 DEF Passes, Opens, Leaves, Stays, PathInv
  <2> QED
    BY <1>1, <2>6, <2>7, <2>8, <2>9, <2>10 DEF Moves
<1> QED
  BY <1>3, <1>4, <1>5 DEF RedirectInv

LEMMA NextRedirect == TypeOK /\ RedirectInv /\ [Next]_vars => RedirectInv'
<1> SUFFICES ASSUME TypeOK, RedirectInv, [Next]_vars PROVE RedirectInv'
  OBVIOUS
<1>0. now \in Nat /\ (\A g \in Regs : issued[g] \in Nat) /\ ClientTTL \in Nat
  BY LoginAssumption DEF TypeOK
<1>1. ASSUME NEW g \in Regs, Register(g) \/ Registering(g) PROVE RedirectInv'
  <2>1. ASSUME NEW h \in Regs PROVE RegInv(h)'
    <3>1. CASE h # g
      BY <1>1, <3>1
         DEF TypeOK, RedirectInv, RegInv, Register, Registering, StoreClient, AnswerClient
    <3>2. CASE h = g /\ Register(g)
      BY <3>2 DEF TypeOK, RedirectInv, RegInv, Register
    <3>3. CASE h = g /\ StoreClient(g)
      BY <3>3 DEF TypeOK, RedirectInv, RegInv, StoreClient
    <3>4. CASE h = g /\ AnswerClient(g)
      BY <3>4 DEF TypeOK, RedirectInv, RegInv, AnswerClient
    <3> QED
      BY <1>1, <3>1, <3>2, <3>3, <3>4 DEF Registering
  <2>2. \A h \in Regs : told[h] = "created" => told'[h] = "created" /\ issued'[h] = issued[h]
    BY <1>1 DEF TypeOK, Register, Registering, StoreClient, AnswerClient
  <2>3. UNCHANGED <<now, par, pc, granted>>
    BY <1>1 DEF Register, Registering, StoreClient, AnswerClient, form, stored
  <2> QED
    BY <1>0, <2>1, <2>2, <2>3, PathStays DEF RedirectInv
<1>2. ASSUME NEW r \in Requests, Arrive(r) \/ Serve(r) PROVE RedirectInv'
  BY <1>2, ServeRedirect
<1>3. CASE \/ Tick
           \/ \E r \in Requests : Operator(r)
           \/ \E x \in Exchanges : Exchange(x) \/ ExchangeBreaks(x)
           \/ UNCHANGED vars
  <2>1. /\ UNCHANGED <<client, issued, told, par, pc, granted>>
        /\ now' \in Nat /\ now <= now'
    BY <1>0, <1>3
       DEF Tick, Operator, OperatorSends, OperatorAccepts, OperatorRejects, Exchange,
           ExchangeBreaks, vars, registry, form, stored
  <2>2. \A g \in Regs : RegInv(g)'
    BY <1>0, <2>1 DEF RedirectInv, RegInv
  <2> QED
    BY <2>1, <2>2, PathStays DEF RedirectInv
<1> QED
  BY <1>1, <1>2, <1>3 DEF Next

(* A registered client's codes go to the redirect URIs it registered, for as *)
(* long as it is registered; and that is as long as it was told.             *)
THEOREM RedirectsAreRegistered == Spec => []RegisteredRedirects
<1>1. Init => RedirectInv
  BY DEF Init, RedirectInv, RegInv, PathInv
<1>2. TypeOK /\ RedirectInv => RegisteredRedirects
  <2> SUFFICES ASSUME TypeOK, RedirectInv PROVE RegisteredRedirects
    OBVIOUS
  <2>1. ASSUME NEW g \in Regs, Registered(g, now) PROVE Live(client[g], now)
    <3>1. client[g] = Item(g, issued[g] + ClientTTL) /\ now < issued[g] + ClientTTL
      BY <2>1 DEF RedirectInv, RegInv, Registered
    <3> QED
      BY <3>1, LoginAssumption DEF Live, Item, TypeOK
  <2> QED
    BY <2>1 DEF RedirectInv, PathInv, Bound, RegisteredRedirects
<1> QED
  BY <1>1, <1>2, InitType, NextType, NextRedirect, PTL DEF Spec

------------------------------------------------------------------------------
(* What each stage of a request has behind it. *)
StageInv(r) ==
  /\ pc[r] \in {"idle", "resolve"} => post[r] = "none"
  /\ pc[r] \in {"idle", "resolve", "waiting", "profile", "session"} => ~session[r]
  /\ pc[r] \in {"idle", "resolve", "waiting", "profile", "session", "grant"} =>
       granted[r] = 0 /\ grant[r] = Absent
  /\ pc[r] \in {"grant", "notify"} \/ page[r] = "redirect" => session[r]
  /\ pc[r] \in {"profile", "session"} \/ session[r] => step[r] = "verify" /\ post[r] = "done"
  /\ page[r] \notin {"none", "redirect", "error"} => ~session[r] /\ granted[r] = 0
  /\ grant[r] = Absent \/ grant[r].val = par[r]

(* A step that leaves r's own data alone, but for the operator's progress    *)
(* and the end of its authorization code.                                    *)
LEMMA StageStays ==
  ASSUME NEW r \in Requests, StageInv(r), par' = par, step' = step,
         pc'[r] = pc[r], page'[r] = page[r], session'[r] = session[r], granted'[r] = granted[r],
         grant'[r] \in {grant[r], Absent},
         post'[r] = post[r] \/ (post[r] = "sent" /\ ~session[r] /\ pc[r] \notin {"profile", "session"})
  PROVE  StageInv(r)'
BY DEF StageInv

LEMMA NextStage ==
  TypeOK /\ (\A r \in Requests : StageInv(r)) /\ [Next]_vars => \A r \in Requests : StageInv(r)'
<1> SUFFICES ASSUME TypeOK, \A r \in Requests : StageInv(r), [Next]_vars, NEW q \in Requests
             PROVE  StageInv(q)'
  OBVIOUS
<1>1. ASSUME NEW r \in Requests, Arrive(r) \/ Serve(r) PROVE StageInv(q)'
  <2>1. Alone(r) /\ Moves(r)
    BY <1>1, MoveCases
  <2>2. par' = par /\ step' = step
    BY <2>1 DEF Alone, form
  <2>3. CASE q # r
    BY <2>1, <2>2, <2>3, StageStays DEF Alone
  <2>4. CASE q = r
    <3>1. page[r] # "none" <=> pc[r] = "done"
      BY DEF TypeOK
    <3>2. CASE Checks(r) \/ Sends(r) \/ Passes(r)
      BY <2>2, <2>4, <3>1, <3>2 DEF StageInv, Checks, Sends, Passes, Stays
    <3>3. CASE Ends(r)
      BY <2>2, <2>4, <3>1, <3>3 DEF StageInv, Ends, Stays
    <3>4. CASE Opens(r)
      BY <2>2, <2>4, <3>1, <3>4 DEF StageInv, Opens
    <3>5. CASE Grants(r)
      BY <2>2, <2>4, <3>1, <3>5 DEF StageInv, Grants, Item
    <3>6. CASE Leaves(r)
      BY <2>2, <2>4, <3>1, <3>6 DEF StageInv, Leaves, Stays
    <3> QED
      BY <2>1, <3>2, <3>3, <3>4, <3>5, <3>6 DEF Moves
  <2> QED
    BY <2>3, <2>4
<1>2. ASSUME NEW r \in Requests, Operator(r) PROVE StageInv(q)'
  <2>1. post[r] = "sent" /\ UNCHANGED <<par, step, pc, page, session, granted, grant>>
    BY <1>2 DEF Operator, OperatorSends, OperatorAccepts, OperatorRejects, form, stored
  <2>2. q # r => post'[q] = post[q]
    BY <1>2 DEF Operator, OperatorSends, OperatorAccepts, OperatorRejects, TypeOK
  <2>3. ~session[r] /\ pc[r] \notin {"profile", "session"}
    BY <2>1 DEF StageInv
  <2> QED
    BY <2>1, <2>2, <2>3, StageStays
<1>3. ASSUME NEW x \in Exchanges, Exchange(x) PROVE StageInv(q)'
  <2>1. grant'[q] \in {grant[q], Absent}
    BY <1>3 DEF Exchange, TypeOK
  <2> QED
    BY <1>3, <2>1, StageStays DEF Exchange, form
<1>4. CASE \/ Tick \/ UNCHANGED vars
           \/ \E g \in Regs : Register(g) \/ Registering(g)
           \/ \E x \in Exchanges : ExchangeBreaks(x)
  BY <1>4, StageStays
     DEF Tick, vars, Register, Registering, StoreClient, AnswerClient, ExchangeBreaks, form, stored
<1> QED
  BY <1>1, <1>2, <1>3, <1>4 DEF Next

LEMMA InitStage == Init => \A r \in Requests : StageInv(r)
BY DEF Init, StageInv

(* A page that offers another try leaves nothing behind. *)
THEOREM ErrorPagesLeaveNothing == Spec => []ErrorPageLeavesNothing
<1> DEFINE I == \A r \in Requests : StageInv(r)
<1>1. I => ErrorPageLeavesNothing
  BY DEF StageInv, ErrorPageLeavesNothing
<1>2. TypeOK /\ I /\ [Next]_vars => I'
  BY NextStage
<1> QED
  BY <1>1, <1>2, InitType, NextType, InitStage, PTL DEF Spec
------------------------------------------------------------------------------
(* The operator has accepted the one-time code that r brought. *)
Spent(r) == step[r] = "verify" /\ post[r] = "done"

SentTo(o, h) ==
  o \in Requests /\ step[o] = "send_code" /\ phone[o] = h /\ post[o] = "done"

(* The code that is good was sent to its phone; one that was accepted was,   *)
(* too, is not good any more, and was accepted once.                         *)
GoodInv == \A h \in Phones : otp[h] # NoOtp => SentTo(otp[h], h)

SpentInv ==
  \A r \in Requests : Spent(r) =>
    /\ SentTo(typed[r], phone[r]) /\ otp[phone[r]] # typed[r]
    /\ \A q \in Requests : Spent(q) /\ typed[q] = typed[r] => q = r

LEMMA OtpStays ==
  ASSUME GoodInv, SpentInv, UNCHANGED <<form, otp>>,
         \A r \in Requests : post'[r] = "done" <=> post[r] = "done"
  PROVE  GoodInv' /\ SpentInv'
<1>1. \A o, h : SentTo(o, h)' <=> SentTo(o, h)
  BY DEF SentTo, form
<1>2. \A r \in Requests : Spent(r)' <=> Spent(r)
  BY DEF Spent, form
<1>3. GoodInv'
  BY <1>1 DEF GoodInv
<1>4. SpentInv'
  BY <1>1, <1>2 DEF SpentInv, form
<1> QED
  BY <1>3, <1>4

LEMMA OperatorOtp ==
  ASSUME TypeOK, GoodInv, SpentInv, NEW r \in Requests, Operator(r)
  PROVE  GoodInv' /\ SpentInv'
<1>1. /\ post[r] = "sent" /\ step' = step /\ phone' = phone /\ typed' = typed
      /\ \A q \in Requests \ {r} : post'[q] = post[q]
  BY DEF Operator, OperatorSends, OperatorAccepts, OperatorRejects, TypeOK, form
<1>2. \A o, h : SentTo(o, h) => SentTo(o, h)'
  BY <1>1 DEF SentTo
<1>3. \A q \in Requests \ {r} : Spent(q)' <=> Spent(q)
  BY <1>1 DEF Spent
<1>4. \A q \in Requests : phone[q] \in Phones
  BY DEF TypeOK
<1>5. CASE OperatorSends(r)
  <2>1. /\ step[r] = "send_code" /\ post'[r] = "done" /\ otp'[phone[r]] = r
        /\ \A h \in Phones \ {phone[r]} : otp'[h] = otp[h]
    BY <1>4, <1>5 DEF OperatorSends, TypeOK
  <2>2. SentTo(r, phone[r])'
    BY <1>1, <2>1 DEF SentTo
  <2>3. GoodInv'
    BY <1>2, <1>1, <2>1, <2>2 DEF GoodInv
  <2>4. ~Spent(r)'
    BY <1>1, <2>1 DEF Spent
  <2>5. ASSUME NEW q \in Requests, Spent(q), q # r PROVE otp'[phone[q]] # typed[q]
    <3>1. typed[q] # r /\ otp[phone[q]] # typed[q]
      BY <1>1, <2>5 DEF SpentInv, SentTo
    <3> QED
      BY <1>4, <2>1, <3>1
  <2>6. SpentInv'
    BY <1>1, <1>2, <1>3, <2>4, <2>5 DEF SpentInv
  <2> QED
    BY <2>3, <2>6
<1>6. CASE OperatorAccepts(r)
  <2>1. /\ typed[r] = otp[phone[r]] /\ typed[r] # NoOtp /\ otp'[phone[r]] = NoOtp
        /\ \A h \in Phones \ {phone[r]} : otp'[h] = otp[h]
    BY <1>4, <1>6 DEF OperatorAccepts, TypeOK
  <2>2. SentTo(typed[r], phone[r])
    BY <1>4, <2>1 DEF GoodInv
  <2>3. GoodInv'
    BY <1>2, <2>1 DEF GoodInv
  <2>4. ASSUME NEW q \in Requests, q # r, Spent(q)
        PROVE  typed[q] # typed[r] /\ otp'[phone[q]] # typed[q]
    <3>1. SentTo(typed[q], phone[q]) /\ otp[phone[q]] # typed[q]
      BY <2>4 DEF SpentInv
    <3>2. typed[q] # typed[r]
      BY <2>1, <2>2, <3>1 DEF SentTo
    <3> QED
      BY <1>4, <2>1, <3>1, <3>2, LoginAssumption DEF SentTo
  <2>5. otp'[phone[r]] # typed[r]
    BY <2>1
  <2>6. SpentInv'
    <3> SUFFICES ASSUME NEW q \in Requests, Spent(q)'
                 PROVE  /\ SentTo(typed[q], phone[q])' /\ otp'[phone[q]] # typed[q]
                        /\ \A p \in Requests : Spent(p)' /\ typed[p] = typed[q] => p = q
      BY <1>1 DEF SpentInv
    <3>1. SentTo(typed[q], phone[q])
      BY <1>3, <2>2 DEF SpentInv
    <3>2. SentTo(typed[q], phone[q])'
      BY <1>1, <1>2, <3>1 DEF SentTo
    <3>3. otp'[phone[q]] # typed[q]
      BY <1>3, <2>4, <2>5
    <3>4. \A p \in Requests : Spent(p)' /\ typed[p] = typed[q] => p = q
      BY <1>3, <2>4 DEF SpentInv
    <3> QED
      BY <3>2, <3>3, <3>4
  <2> QED
    BY <2>3, <2>6
<1>7. CASE OperatorRejects(r)
  <2>1. post'[r] = "rejected" /\ UNCHANGED <<form, otp>>
    BY <1>7 DEF OperatorRejects, TypeOK
  <2> QED
    BY <1>1, <2>1, OtpStays
<1> QED
  BY <1>5, <1>6, <1>7 DEF Operator

LEMMA NextOtp ==
  ASSUME TypeOK, \A r \in Requests : StageInv(r), GoodInv, SpentInv, [Next]_vars
  PROVE  GoodInv' /\ SpentInv'
<1>1. ASSUME NEW r \in Requests, Arrive(r) \/ Serve(r) PROVE GoodInv' /\ SpentInv'
  <2>1. Alone(r) /\ Moves(r)
    BY <1>1, MoveCases
  <2>2. post'[r] = "done" <=> post[r] = "done"
    BY <2>1 DEF Moves, Checks, Sends, Ends, Passes, Opens, Grants, Leaves, StageInv
  <2> QED
    BY <2>1, <2>2, OtpStays DEF Alone
<1>2. CASE \/ Tick \/ UNCHANGED vars
           \/ \E g \in Regs : Register(g) \/ Registering(g)
           \/ \E x \in Exchanges : Exchange(x) \/ ExchangeBreaks(x)
  BY <1>2, OtpStays
     DEF Tick, vars, Register, Registering, StoreClient, AnswerClient, Exchange, ExchangeBreaks
<1> QED
  BY <1>1, <1>2, OperatorOtp DEF Next

(* One login at most for every one-time code, and only for one that the      *)
(* operator sent to the phone it was verified for.                           *)
THEOREM OneLoginForEachOtp == Spec => []OneLoginPerOtp
<1> DEFINE I == (\A r \in Requests : StageInv(r)) /\ GoodInv /\ SpentInv
<1>1. Init => I
  BY InitStage DEF Init, GoodInv, SpentInv, Spent
<1>2. TypeOK /\ I /\ [Next]_vars => I'
  BY NextStage, NextOtp
<1>3. I => OneLoginPerOtp
  BY DEF OneLoginPerOtp, StageInv, SpentInv, Spent, SentTo
<1> QED
  BY <1>1, <1>2, <1>3, InitType, NextType, PTL DEF Spec

------------------------------------------------------------------------------
(* A code that was compared is gone from the store. *)
TokenInv == \A x \in Exchanges : Compared(x) => grant[code[x]] = Absent

LEMMA NextTokens ==
  ASSUME TypeOK, \A r \in Requests : StageInv(r), TokenInv, TokensToTheBeginner, [Next]_vars
  PROVE  TokenInv' /\ TokensToTheBeginner'
<1> \A x \in Exchanges : code[x] \in Requests
  BY DEF TypeOK
<1>1. ASSUME NEW r \in Requests, Arrive(r) \/ Serve(r) PROVE TokenInv' /\ TokensToTheBeginner'
  <2>1. Alone(r) /\ Moves(r)
    BY <1>1, MoveCases
  <2>2. par' = par /\ code' = code /\ claim' = claim /\ result' = result
    BY <2>1 DEF Alone, form, exchange
  <2>3. \A x \in Exchanges : Compared(x)' <=> Compared(x)
    BY <2>2 DEF Compared
  <2>4. pc[r] # "done"
    BY <2>1 DEF Moves, Checks, Sends, Ends, Passes, Opens, Grants, Leaves
  <2>5. \A x \in Exchanges : Compared(x) => code[x] # r
    BY <2>4 DEF TokensToTheBeginner, TypeOK
  <2>6. \A x \in Exchanges : Compared(x) =>
          /\ session'[code[x]] = session[code[x]] /\ page'[code[x]] = page[code[x]]
          /\ grant'[code[x]] = grant[code[x]]
    BY <2>1, <2>5 DEF Alone
  <2>7. TokenInv'
    BY <2>2, <2>3, <2>6 DEF TokenInv
  <2>8. TokensToTheBeginner'
    BY <2>2, <2>3, <2>6 DEF TokensToTheBeginner
  <2> QED
    BY <2>7, <2>8
<1>2. ASSUME NEW x \in Exchanges, Exchange(x) PROVE TokenInv' /\ TokensToTheBeginner'
  <2>1. /\ UNCHANGED <<par, session, page, code, claim>> /\ page[code[x]] = "redirect"
        /\ grant'[code[x]] = Absent
        /\ \A r \in Requests \ {code[x]} : grant'[r] = grant[r]
        /\ \A y \in Exchanges \ {x} : result'[y] = result[y]
    BY <1>2 DEF Exchange, TypeOK, form
  <2>2. ~Compared(x)
    BY <1>2 DEF Exchange, Compared
  <2>3. \A y \in Exchanges \ {x} : Compared(y)' <=> Compared(y)
    BY <2>1 DEF Compared
  <2>4. TokenInv'
    BY <2>1, <2>3 DEF TokenInv
  <2>5. ASSUME Compared(x)'
        PROVE  /\ result'[x] = "tokens" <=> claim[x] = par[code[x]]
               /\ grant[code[x]] # Absent
    <3>1. /\ Live(grant[code[x]], now)
          /\ result'[x] = IF grant[code[x]].val = claim[x] THEN "tokens" ELSE "mismatch"
      BY <1>2, <2>5 DEF Exchange, TypeOK, Compared
    <3>2. grant[code[x]] # Absent
      BY <3>1, NeverLive
    <3>3. grant[code[x]].val = par[code[x]]
      BY <3>2 DEF StageInv
    <3> QED
      BY <3>1, <3>2, <3>3
  <2>6. session[code[x]]
    BY <2>1 DEF StageInv
  <2>7. ASSUME Compared(x)' PROVE \A y \in Exchanges : Compared(y) => code[y] # code[x]
    BY <2>5, <2>7 DEF TokenInv
  <2>8. TokensToTheBeginner'
    <3> SUFFICES ASSUME NEW y \in Exchanges, Compared(y)'
                 PROVE  /\ session[code[y]] /\ page[code[y]] = "redirect"
                        /\ result'[y] = "tokens" <=> claim[y] = par[code[y]]
                        /\ \A z \in Exchanges : Compared(z)' /\ code[z] = code[y] => z = y
      BY <2>1 DEF TokensToTheBeginner
    <3>1. CASE y = x
      BY <2>1, <2>3, <2>5, <2>6, <2>7, <3>1
    <3>2. CASE y # x
      BY <2>1, <2>3, <2>7, <3>2 DEF TokensToTheBeginner
    <3> QED
      BY <3>1, <3>2
  <2> QED
    BY <2>4, <2>8
<1>3. ASSUME NEW x \in Exchanges, ExchangeBreaks(x) PROVE TokenInv' /\ TokensToTheBeginner'
  <2>1. /\ UNCHANGED <<par, session, page, grant, code, claim>>
        /\ \A y \in Exchanges : Compared(y)' => Compared(y) /\ result'[y] = result[y]
    BY <1>3 DEF ExchangeBreaks, Compared, TypeOK, form, stored
  <2> QED
    BY <2>1 DEF TokenInv, TokensToTheBeginner
<1>4. CASE \/ Tick \/ UNCHANGED vars
           \/ \E g \in Regs : Register(g) \/ Registering(g)
           \/ \E r \in Requests : Operator(r)
  <2>1. UNCHANGED <<par, session, page, grant, exchange>>
    BY <1>4
       DEF Tick, vars, Register, Registering, StoreClient, AnswerClient, Operator, OperatorSends,
           OperatorAccepts, OperatorRejects, form, stored
  <2> QED
    BY <2>1 DEF exchange, TokenInv, TokensToTheBeginner, Compared
<1> QED
  BY <1>1, <1>2, <1>3, <1>4 DEF Next

(* Tokens for the party that began the login only, and one comparison for    *)
(* every authorization code.                                                 *)
THEOREM TokensForTheBeginner == Spec => []TokensToTheBeginner
<1> DEFINE S == \A r \in Requests : StageInv(r)
           I == TokenInv /\ TokensToTheBeginner
<1>1. Init => I
  BY DEF Init, TokenInv, TokensToTheBeginner, Compared
<1>2. TypeOK /\ S /\ [Next]_vars => S'
  BY NextStage
<1>3. TypeOK /\ S /\ I /\ [Next]_vars => I'
  BY NextTokens
<1> QED
  BY <1>1, <1>2, <1>3, InitType, InitStage, NextType, PTL DEF Spec

------------------------------------------------------------------------------
(* Where a one-time code is: everything the refinement needs to know about a *)
(* state.                                                                    *)
CodeInv ==
  /\ \A r \in Requests : StageInv(r)
  /\ GoodInv /\ SpentInv
  /\ TokenInv /\ TokensToTheBeginner

Got(x) == result[x] = "tokens"

LEMMA NextCode == TypeOK /\ CodeInv /\ [Next]_vars => CodeInv'
<1> SUFFICES ASSUME TypeOK, CodeInv, [Next]_vars PROVE CodeInv'
  OBVIOUS
<1>1. \A r \in Requests : StageInv(r)'
  BY NextStage DEF CodeInv
<1>2. GoodInv' /\ SpentInv'
  BY NextOtp DEF CodeInv
<1>3. TokenInv' /\ TokensToTheBeginner'
  BY NextTokens DEF CodeInv
<1> QED
  BY <1>1, <1>2, <1>3 DEF CodeInv

LEMMA InHands ==
  ASSUME NEW o, NEW e
  PROVE  e \in Hands(o) <=>
           \/ \E h \in Phones : otp[h] = o /\ e = <<"phone", h>>
           \/ \E r \in Requests : HasLogin(r) /\ typed[r] = o /\ e = <<"login", r>>
           \/ \E x \in Exchanges : Got(x) /\ typed[code[x]] = o /\ e = <<"tokens", x>>
BY DEF Hands, Got

(* A code in a login or in an answer was accepted. *)
LEMMA Accepted ==
  ASSUME TypeOK, CodeInv
  PROVE  /\ \A r \in Requests : HasLogin(r) =>
              SentTo(typed[r], phone[r]) /\ typed[r] \in Requests /\ Spent(r)
         /\ \A x \in Exchanges : Got(x) =>
              /\ code[x] \in Requests /\ Spent(code[x]) /\ ~HasLogin(code[x])
              /\ SentTo(typed[code[x]], phone[code[x]]) /\ typed[code[x]] \in Requests
<1>1. ASSUME NEW r \in Requests, Spent(r)
      PROVE  SentTo(typed[r], phone[r]) /\ typed[r] \in Requests
  BY <1>1 DEF CodeInv, SpentInv, SentTo
<1>2. ASSUME NEW r \in Requests, HasLogin(r) PROVE Spent(r)
  BY <1>2 DEF HasLogin, Spent
<1>3. ASSUME NEW x \in Exchanges, Got(x)
      PROVE  code[x] \in Requests /\ Spent(code[x]) /\ ~HasLogin(code[x])
  <2>1. code[x] \in Requests /\ page[code[x]] = "redirect" /\ session[code[x]]
    BY <1>3 DEF TypeOK, CodeInv, TokensToTheBeginner, Compared, Got
  <2>2. grant[code[x]] = Absent /\ pc[code[x]] = "done"
    BY <1>3, <2>1 DEF TypeOK, CodeInv, TokenInv, Compared, Got
  <2> QED
    BY <2>1, <2>2 DEF CodeInv, StageInv, HasLogin, Spent
<1> QED
  BY <1>1, <1>2, <1>3

(* Nobody has a code that was not sent; the phone alone has the one that is  *)
(* good, and a login alone the one it was opened with.                       *)
LEMMA HandsNone ==
  ASSUME TypeOK, CodeInv, NEW o \in Requests, post[o] # "done"
  PROVE  Hands(o) = {}
<1>1. \A h \in Phones : otp[h] # o
  BY LoginAssumption DEF CodeInv, GoodInv, SentTo
<1>2. \A r \in Requests : ~(HasLogin(r) /\ typed[r] = o)
  BY Accepted DEF SentTo
<1>3. \A x \in Exchanges : ~(Got(x) /\ typed[code[x]] = o)
  BY Accepted DEF SentTo
<1> QED
  BY <1>1, <1>2, <1>3, InHands

LEMMA HandsPhone ==
  ASSUME TypeOK, CodeInv, NEW h \in Phones, NEW o \in Requests, otp[h] = o
  PROVE  /\ Hands(o) = {<<"phone", h>>}
         /\ \A k \in Phones : otp[k] = o => k = h
         /\ \A r \in Requests : ~(HasLogin(r) /\ typed[r] = o)
         /\ \A x \in Exchanges : ~(Got(x) /\ typed[code[x]] = o)
<1>1. SentTo(o, h)
  BY LoginAssumption DEF CodeInv, GoodInv
<1>2. \A k \in Phones : otp[k] = o => k = h
  BY <1>1, LoginAssumption DEF CodeInv, GoodInv, SentTo
<1>3. \A r \in Requests : Spent(r) => typed[r] # o
  BY <1>1 DEF CodeInv, SpentInv, SentTo
<1>4. \A r \in Requests : ~(HasLogin(r) /\ typed[r] = o)
  BY <1>3, Accepted
<1>5. \A x \in Exchanges : ~(Got(x) /\ typed[code[x]] = o)
  BY <1>3, Accepted
<1>6. \A e : e \in Hands(o) <=> e = <<"phone", h>>
  BY <1>2, <1>4, <1>5, InHands
<1> QED
  BY <1>2, <1>4, <1>5, <1>6

LEMMA HandsLogin ==
  ASSUME TypeOK, CodeInv, NEW r \in Requests, HasLogin(r)
  PROVE  /\ Hands(typed[r]) = {<<"login", r>>}
         /\ \A h \in Phones : otp[h] # typed[r]
         /\ \A q \in Requests : HasLogin(q) /\ typed[q] = typed[r] => q = r
         /\ \A x \in Exchanges : ~(Got(x) /\ typed[code[x]] = typed[r])
<1> DEFINE o == typed[r]
<1>1. Spent(r) /\ SentTo(o, phone[r]) /\ o \in Requests
  BY Accepted
<1>2. \A k \in Phones : otp[k] # o
  BY <1>1, LoginAssumption DEF CodeInv, GoodInv, SpentInv, SentTo
<1>3. \A q \in Requests : Spent(q) /\ typed[q] = o => q = r
  BY <1>1 DEF CodeInv, SpentInv
<1>4. \A x \in Exchanges : ~(Got(x) /\ typed[code[x]] = o)
  BY <1>3, Accepted
<1>5. \A q \in Requests : HasLogin(q) /\ typed[q] = o <=> q = r
  BY <1>3, Accepted
<1>6. \A e : e \in Hands(o) <=> e = <<"login", r>>
  BY <1>2, <1>4, <1>5, InHands
<1> QED
  BY <1>2, <1>4, <1>5, <1>6

(* A step that lets r's login go, if it had one, and moves no other code.    *)
LEMMA LoginLost ==
  ASSUME TypeOK, CodeInv, NEW r \in Requests, UNCHANGED <<form, otp, code>>,
         \A q \in Requests : post'[q] = "done" <=> post[q] = "done",
         \A x \in Exchanges : Got(x)' <=> Got(x),
         \A q \in Requests \ {r} : HasLogin(q)' <=> HasLogin(q),
         HasLogin(r)' => HasLogin(r)
  PROVE  [OneTime!Next]_(OneTime!vars)
<1>1. typed' = typed /\ phone' = phone /\ step' = step
  BY DEF form
<1>2. {o \in Requests : step[o] = "send_code" /\ post[o] = "done"}'
        = {o \in Requests : step[o] = "send_code" /\ post[o] = "done"}
  BY <1>1
<1>3. CASE HasLogin(r)' <=> HasLogin(r)
  <2>1. \A q \in Requests : HasLogin(q)' <=> HasLogin(q)
    BY <1>3
  <2>2. ASSUME NEW o \in Requests PROVE Hands(o)' = Hands(o)
    BY <1>1, <2>1 DEF Hands, Got
  <2>3. [o \in Requests |-> Hands(o)]' = [o \in Requests |-> Hands(o)]
    BY <2>2
  <2> QED
    BY <1>1, <1>2, <2>3 DEF OneTime!vars
<1>4. CASE HasLogin(r) /\ ~HasLogin(r)'
  <2>1. PICK c \in Requests : c = typed[r]
    BY <1>4, Accepted
  <2>2. /\ Hands(c) = {<<"login", r>>}
        /\ \A h \in Phones : otp[h] # c
        /\ \A q \in Requests : HasLogin(q) /\ typed[q] = c => q = r
        /\ \A x \in Exchanges : ~(Got(x) /\ typed[code[x]] = c)
    BY <1>4, <2>1, HandsLogin
  <2>3. ASSUME NEW o \in Requests, o # c PROVE Hands(o)' = Hands(o)
    BY <1>1, <2>1, <2>3 DEF Hands, Got
  <2>4. Hands(c)' = {}
    BY <1>1, <1>4, <2>2 DEF Hands, Got
  <2>5. [o \in Requests |-> Hands(o)]' = [[o \in Requests |-> Hands(o)] EXCEPT ![c] = {}]
    BY <2>1, <2>3, <2>4
  <2>6. OneTime!Lose(c)
    BY <1>1, <1>2, <2>2, <2>5 DEF OneTime!Lose, OneTime!Tokens
  <2> QED
    BY <2>1, <2>6 DEF OneTime!Next
<1> QED
  BY <1>3, <1>4

LEMMA ServeCode ==
  ASSUME TypeOK, CodeInv, NEW r \in Requests, Arrive(r) \/ Serve(r)
  PROVE  [OneTime!Next]_(OneTime!vars)
<1>1. Alone(r) /\ Moves(r)
  BY MoveCases
<1>2. UNCHANGED <<form, otp, code, result>>
  BY <1>1 DEF Alone, exchange
<1>3. StageInv(r) /\ (page[r] # "none" <=> pc[r] = "done")
  BY DEF TypeOK, CodeInv
<1>4. post'[r] = "done" <=> post[r] = "done"
  BY <1>1, <1>3 DEF Moves, Checks, Sends, Ends, Passes, Opens, Grants, Leaves, StageInv
<1>5. \A q \in Requests \ {r} : HasLogin(q)' <=> HasLogin(q)
  BY <1>1, <1>2 DEF Alone, HasLogin, form
<1>6. HasLogin(r)' => HasLogin(r)
  BY <1>1, <1>2, <1>3
     DEF Moves, Checks, Sends, Ends, Passes, Opens, Grants, Leaves, StageInv, HasLogin, form
<1>7. \A q \in Requests : post'[q] = "done" <=> post[q] = "done"
  BY <1>1, <1>4 DEF Alone
<1> QED
  BY <1>2, <1>5, <1>6, <1>7, LoginLost DEF Got

LEMMA OperatorCode ==
  ASSUME TypeOK, CodeInv, NEW r \in Requests, Operator(r)
  PROVE  [OneTime!Next]_(OneTime!vars)
<1> DEFINE H == [o \in Requests |-> Hands(o)]
<1>1. /\ post[r] = "sent" /\ StageInv(r) /\ (page[r] # "none" <=> pc[r] = "done")
      /\ phone[r] \in Phones
  BY DEF Operator, OperatorSends, OperatorAccepts, OperatorRejects, TypeOK, CodeInv
<1>2. /\ UNCHANGED <<form, pc, page, grant, code, result>>
      /\ step' = step /\ phone' = phone /\ typed' = typed
      /\ \A q \in Requests \ {r} : post'[q] = post[q]
  BY DEF Operator, OperatorSends, OperatorAccepts, OperatorRejects, TypeOK, form, stored, exchange
<1>3. /\ ~HasLogin(r) /\ \A x \in Exchanges : Got(x)' <=> Got(x)
      /\ \A q \in Requests \ {r} : HasLogin(q)' <=> HasLogin(q)
  BY <1>1, <1>2 DEF HasLogin, Got
<1>4. CASE OperatorSends(r)
  <2>1. /\ step[r] = "send_code" /\ post'[r] = "done" /\ otp'[phone[r]] = r
        /\ \A h \in Phones \ {phone[r]} : otp'[h] = otp[h]
    BY <1>1, <1>4 DEF OperatorSends, TypeOK
  <2>2. \A q \in Requests : HasLogin(q)' <=> HasLogin(q)
    BY <1>2, <1>3, <2>1 DEF HasLogin
  <2>3. {o \in Requests : step[o] = "send_code" /\ post[o] = "done"}'
          = {o \in Requests : step[o] = "send_code" /\ post[o] = "done"} \cup {r}
    BY <1>2, <2>1
  <2>4. Hands(r) = {} /\ (\A h \in Phones : otp[h] # r)
        /\ (\A q \in Requests : ~(HasLogin(q) /\ typed[q] = r))
        /\ (\A x \in Exchanges : ~(Got(x) /\ typed[code[x]] = r))
    <3>1. Hands(r) = {}
      BY <1>1, HandsNone
    <3> QED
      BY <3>1, InHands
  <2>5. Hands(r)' = {<<"phone", phone[r]>>}
    BY <1>1, <1>2, <1>3, <2>1, <2>2, <2>4 DEF Hands, Got
  <2>6. ASSUME NEW o \in Requests, o # r
        PROVE  Hands(o)' = Hands(o) \ {<<"phone", phone[r]>>}
    <3>1. {h \in Phones : otp[h] = o}' = {h \in Phones : otp[h] = o} \ {phone[r]}
      BY <1>1, <2>1, <2>6
    <3>2. {q \in Requests : HasLogin(q) /\ typed[q] = o}' = {q \in Requests : HasLogin(q) /\ typed[q] = o}
      BY <1>2, <2>2
    <3>3. {x \in Exchanges : result[x] = "tokens" /\ typed[code[x]] = o}'
            = {x \in Exchanges : result[x] = "tokens" /\ typed[code[x]] = o}
      BY <1>2
    <3> QED
      BY <3>1, <3>2, <3>3 DEF Hands
  <2>7. H' = [o \in Requests |-> IF o = r THEN {<<"phone", phone[r]>>}
                                 ELSE H[o] \ {<<"phone", phone[r]>>}]
    BY <2>5, <2>6
  <2>8. OneTime!Send(r)
    BY <1>1, <1>2, <2>3, <2>7 DEF OneTime!Send, OneTime!OnPhone
  <2> QED
    BY <2>8 DEF OneTime!Next
<1>5. CASE OperatorAccepts(r)
  <2>1. PICK c \in Requests : c = typed[r] /\ c = otp[phone[r]]
    BY <1>1, <1>5 DEF OperatorAccepts, TypeOK
  <2>2. /\ step[r] = "verify" /\ post'[r] = "done" /\ otp'[phone[r]] = NoOtp
        /\ \A h \in Phones \ {phone[r]} : otp'[h] = otp[h]
    BY <1>1, <1>5 DEF OperatorAccepts, TypeOK
  <2>3. /\ Hands(c) = {<<"phone", phone[r]>>}
        /\ \A k \in Phones : otp[k] = c => k = phone[r]
        /\ \A q \in Requests : ~(HasLogin(q) /\ typed[q] = c)
        /\ \A x \in Exchanges : ~(Got(x) /\ typed[code[x]] = c)
    BY <1>1, <2>1, HandsPhone
  <2>4. {o \in Requests : step[o] = "send_code" /\ post[o] = "done"}'
          = {o \in Requests : step[o] = "send_code" /\ post[o] = "done"}
    BY <1>2, <2>2
  <2>5. c # NoOtp /\ \A h \in Phones : otp'[h] # c
    BY <2>1, <2>2, <2>3, LoginAssumption
  <2>6. ASSUME NEW o \in Requests, o # c PROVE Hands(o)' = Hands(o)
    <3>1. \A h \in Phones : otp'[h] = o <=> otp[h] = o
      BY <1>1, <2>1, <2>2, <2>6, LoginAssumption
    <3>2. \A q \in Requests : HasLogin(q)' /\ typed[q] = o <=> HasLogin(q) /\ typed[q] = o
      BY <1>2, <1>3, <2>1, <2>6
    <3> QED
      BY <1>2, <3>1, <3>2 DEF Hands
  <2>7. Hands(c)' = IF HasLogin(r)' THEN {<<"login", r>>} ELSE {}
    <3>1. \A q \in Requests : HasLogin(q)' /\ typed[q] = c => q = r
      BY <1>3, <2>3
    <3>2. {q \in Requests : HasLogin(q)' /\ typed[q] = c} = IF HasLogin(r)' THEN {r} ELSE {}
      BY <2>1, <3>1
    <3>3. \A x \in Exchanges : ~(result'[x] = "tokens" /\ typed[code[x]] = c)
      BY <1>2, <2>3 DEF Got
    <3> QED
      BY <1>2, <2>5, <3>2, <3>3 DEF Hands
  <2>8. H' = [H EXCEPT ![c] = IF HasLogin(r)' THEN {<<"login", r>>} ELSE {}]
    BY <2>6, <2>7
  <2>9. CASE HasLogin(r)'
    <3>1. OneTime!Use(c, r)
      BY <1>2, <2>3, <2>4, <2>8, <2>9 DEF OneTime!Use, OneTime!OnPhone, OneTime!Login
    <3> QED
      BY <3>1 DEF OneTime!Next
  <2>10. CASE ~HasLogin(r)'
    <3>1. OneTime!Lose(c)
      BY <1>2, <2>3, <2>4, <2>8, <2>10 DEF OneTime!Lose, OneTime!Tokens
    <3> QED
      BY <3>1 DEF OneTime!Next
  <2> QED
    BY <2>9, <2>10
<1>6. CASE OperatorRejects(r)
  <2>1. otp' = otp /\ post'[r] = "rejected"
    BY <1>6 DEF OperatorRejects, TypeOK
  <2>2. ~HasLogin(r)'
    BY <2>1 DEF HasLogin
  <2> QED
    BY <1>1, <1>2, <1>3, <2>1, <2>2, LoginLost
<1> QED
  BY <1>4, <1>5, <1>6 DEF Operator

LEMMA ExchangeCode ==
  ASSUME TypeOK, CodeInv, NEW x \in Exchanges, Exchange(x)
  PROVE  [OneTime!Next]_(OneTime!vars)
<1> DEFINE H == [o \in Requests |-> Hands(o)]
<1>1. PICK r \in Requests : r = code[x]
  BY DEF TypeOK
<1>2. /\ UNCHANGED <<form, otp, code, post, pc, page>>
      /\ step' = step /\ phone' = phone /\ typed' = typed
      /\ page[r] = "redirect" /\ pc[r] = "done" /\ result[x] = "none"
      /\ grant'[r] = Absent /\ \A q \in Requests \ {r} : grant'[q] = grant[q]
      /\ \A y \in Exchanges \ {x} : result'[y] = result[y]
  BY <1>1 DEF Exchange, TypeOK, form
<1>3. /\ ~Got(x) /\ ~HasLogin(r)'
      /\ \A q \in Requests \ {r} : HasLogin(q)' <=> HasLogin(q)
      /\ \A y \in Exchanges \ {x} : Got(y)' <=> Got(y)
  BY <1>2 DEF HasLogin, Got
<1>4. CASE ~Got(x)'
  BY <1>2, <1>3, <1>4, LoginLost
<1>5. CASE Got(x)'
  <2>1. grant[r] # Absent
    BY <1>1, <1>2, <1>5, NeverLive DEF Exchange, TypeOK, Got
  <2>2. HasLogin(r)
    BY <1>2, <2>1 DEF CodeInv, StageInv, HasLogin
  <2>3. PICK c \in Requests : c = typed[r]
    BY <2>2, Accepted
  <2>4. /\ Hands(c) = {<<"login", r>>}
        /\ \A h \in Phones : otp[h] # c
        /\ \A q \in Requests : HasLogin(q) /\ typed[q] = c => q = r
        /\ \A y \in Exchanges : ~(Got(y) /\ typed[code[y]] = c)
    BY <2>2, <2>3, HandsLogin
  <2>5. ASSUME NEW o \in Requests, o # c PROVE Hands(o)' = Hands(o)
    <3>1. \A q \in Requests : HasLogin(q)' /\ typed[q] = o <=> HasLogin(q) /\ typed[q] = o
      BY <1>3, <2>3, <2>5
    <3>2. \A y \in Exchanges : Got(y)' /\ typed[code[y]] = o <=> Got(y) /\ typed[code[y]] = o
      BY <1>1, <1>3, <2>3, <2>5
    <3> QED
      BY <1>2, <3>1, <3>2 DEF Hands, Got
  <2>6. Hands(c)' = {<<"tokens", x>>}
    <3>1. \A q \in Requests : ~(HasLogin(q)' /\ typed[q] = c)
      BY <1>3, <2>4
    <3>2. \A y \in Exchanges : Got(y)' /\ typed[code[y]] = c <=> y = x
      BY <1>1, <1>3, <1>5, <2>3, <2>4
    <3> QED
      BY <1>2, <2>4, <3>1, <3>2 DEF Hands, Got
  <2>7. H' = [H EXCEPT ![c] = {<<"tokens", x>>}]
    BY <2>5, <2>6
  <2>8. {o \in Requests : step[o] = "send_code" /\ post[o] = "done"}'
          = {o \in Requests : step[o] = "send_code" /\ post[o] = "done"}
    BY <1>2
  <2>9. OneTime!Redeem(c, r, x)
    BY <1>2, <2>4, <2>7, <2>8 DEF OneTime!Redeem, OneTime!Login, OneTime!Tokens
  <2> QED
    BY <2>9 DEF OneTime!Next
<1> QED
  BY <1>4, <1>5

(* A one-time code goes from the phone into one login at most, and from there*)
(* into one answer with tokens (authorize_endpoint, token_endpoint).         *)
THEOREM CodesAreOneTime == Spec => KeepsOneTime
<1>1. Init => OneTime!Init
  BY LoginAssumption DEF Init, OneTime!Init, Hands, HasLogin
<1>2. Init => CodeInv
  BY InitStage
     DEF Init, CodeInv, GoodInv, SpentInv, Spent, TokenInv, TokensToTheBeginner, Compared
<1>3. TypeOK /\ CodeInv /\ [Next]_vars => [OneTime!Next]_(OneTime!vars)
  <2> SUFFICES ASSUME TypeOK, CodeInv, [Next]_vars PROVE [OneTime!Next]_(OneTime!vars)
    OBVIOUS
  <2>1. CASE \/ Tick \/ UNCHANGED vars
             \/ \E g \in Regs : Register(g) \/ Registering(g)
             \/ \E x \in Exchanges : ExchangeBreaks(x)
    <3>1. UNCHANGED <<form, otp, post, pc, page, grant, code>>
      BY <2>1 DEF Tick, vars, Register, Registering, StoreClient, AnswerClient, ExchangeBreaks, form,
                  stored, exchange
    <3>2. \A x \in Exchanges : Got(x)' <=> Got(x)
      BY <2>1 DEF Tick, vars, Register, Registering, StoreClient, AnswerClient, ExchangeBreaks, exchange,
                  TypeOK, Got
    <3>3. \A q \in Requests : HasLogin(q)' <=> HasLogin(q)
      BY <3>1 DEF HasLogin, form
    <3>4. CASE Requests = {}
      BY <3>1, <3>4 DEF OneTime!vars, form
    <3>5. ASSUME NEW r \in Requests PROVE [OneTime!Next]_(OneTime!vars)
      BY <3>1, <3>2, <3>3, LoginLost
    <3> QED
      BY <3>4, <3>5
  <2> QED
    BY <2>1, ServeCode, OperatorCode, ExchangeCode DEF Next
<1> QED
  BY <1>1, <1>2, <1>3, InitType, NextType, NextCode, PTL DEF Spec, KeepsOneTime, OneTime!Spec

------------------------------------------------------------------------------
(* Weak fairness of Serve(r) and Registering(g), with what enables them      *)
(* spelt out: a handler that is at work may always break off.  TLC checks    *)
(* the property from the WF formulas themselves.                             *)
Served(r) == []<>(pc[r] \in {"idle", "done"}) \/ []<><<Serve(r)>>_vars
Answered(g) == []<>(told[g] \notin {"put", "stored"}) \/ []<><<Registering(g)>>_vars

(* How far a request has come. *)
Order == [idle |-> 0, resolve |-> 1, waiting |-> 2, profile |-> 3,
          session |-> 4, grant |-> 5, notify |-> 6, done |-> 7]
Stage(r) == Order[pc[r]]

LEMMA OrderType ==
  \A s \in Stages : /\ Order[s] \in 0..7
                    /\ Order[s] = 0 <=> s = "idle"
                    /\ Order[s] = 7 <=> s = "done"
BY DEF Stages, Order

(* A step of a handler brings its request further. *)
LEMMA MovesMoveOn ==
  ASSUME TypeOK, NEW r \in Requests, Moves(r)
  PROVE  Stage(r) < Stage(r)'
BY DEF TypeOK, Stages, Stage, Order, Moves, Checks, Sends, Ends, Passes, Opens, Grants, Leaves


(* Nothing brings it back. *)
LEMMA StageStep ==
  ASSUME TypeOK, [Next]_vars, NEW r \in Requests, NEW n \in 0..7, Stage(r) >= n
  PROVE  /\ Stage(r)' >= n
         /\ <<Serve(r)>>_vars => Stage(r)' >= n + 1
<1>1. pc[r] \in Stages /\ pc'[r] \in Stages
  BY NextType DEF TypeOK
<1>2. Stage(r) \in 0..7 /\ Stage(r)' \in 0..7
  BY <1>1, OrderType DEF Stage
<1>3. Arrive(r) \/ Serve(r) => Stage(r) < Stage(r)'
  BY MoveCases, MovesMoveOn
<1>4. ASSUME NEW q \in Requests, q # r, Arrive(q) \/ Serve(q)
      PROVE  pc'[r] = pc[r]
  BY <1>4, MoveCases DEF Alone
<1>5. ASSUME NEW q \in Requests, Operator(q)
      PROVE  pc'[r] = pc[r]
  BY <1>5 DEF Operator, OperatorSends, OperatorAccepts, OperatorRejects
<1>6. ASSUME NEW g \in Regs, Register(g) \/ Registering(g)
      PROVE  pc'[r] = pc[r]
  BY <1>6 DEF Register, Registering, StoreClient, AnswerClient
<1>7. ASSUME NEW x \in Exchanges, Exchange(x) \/ ExchangeBreaks(x)
      PROVE  pc'[r] = pc[r]
  BY <1>7 DEF Exchange, ExchangeBreaks
<1>8. UNCHANGED vars \/ Tick => pc'[r] = pc[r]
  BY DEF vars, Tick
<1>9. pc'[r] = pc[r] => Stage(r) = Stage(r)'
  BY DEF Stage
<1>10. Stage(r) <= Stage(r)'
  BY <1>2, <1>3, <1>4, <1>5, <1>6, <1>7, <1>8, <1>9 DEF Next
<1> QED
  BY <1>2, <1>3, <1>10

(* A registration is written, and answered; an answer is final. *)
LEMMA RegisteringMovesOn ==
  ASSUME TypeOK, [Next]_vars, NEW g \in Regs
  PROVE  /\ told[g] \in {"created", "failed"} => told'[g] = told[g]
         /\ told[g] = "stored" => told'[g] \in {"stored", "created", "failed"}
         /\ told[g] = "put" => told'[g] \in {"put", "stored", "created", "failed"}
         /\ Registering(g) =>
              /\ told[g] \in {"put", "stored"}
              /\ told'[g] \in {"stored", "created", "failed"}
              /\ told[g] = "stored" => told'[g] # "stored"
<1>1. ASSUME NEW h \in Regs, Register(h) \/ Registering(h)
      PROVE  h = g \/ told'[g] = told[g]
  BY <1>1 DEF TypeOK, Register, Registering, StoreClient, AnswerClient
<1>2. Register(g) => told[g] = "idle"
  BY DEF Register
<1>3. Registering(g) =>
        \/ told[g] = "put" /\ told'[g] \in {"stored", "failed"}
        \/ told[g] = "stored" /\ told'[g] \in {"created", "failed"}
  BY DEF TypeOK, Registering, StoreClient, AnswerClient
<1>4. ASSUME NEW r \in Requests, Arrive(r) \/ Serve(r) \/ Operator(r)
      PROVE  told'[g] = told[g]
  BY <1>4, MoveCases DEF Alone, Operator, OperatorSends, OperatorAccepts, OperatorRejects, registry
<1>5. ASSUME NEW x \in Exchanges, Exchange(x) \/ ExchangeBreaks(x)
      PROVE  told'[g] = told[g]
  BY <1>5 DEF Exchange, ExchangeBreaks, registry
<1>6. UNCHANGED vars \/ Tick => told'[g] = told[g]
  BY DEF vars, Tick, registry
<1> QED
  BY <1>1, <1>2, <1>3, <1>4, <1>5, <1>6 DEF Next

(* Every registration and every login request that is under way ends, if the *)
(* event loop goes on with it (authorize_endpoint, dynamic_registration).    *)
THEOREM LoginsEnd ==
  Spec /\ (\A g \in Regs : Answered(g)) /\ (\A r \in Requests : Served(r)) => EveryLoginEnds
<1>1. ASSUME NEW g \in Regs
      PROVE  Spec /\ Answered(g) => <>[](told[g] \notin {"put", "stored"})
  <2> DEFINE Ended == told[g] \notin {"put", "stored"}
             Put == told[g] = "put"
             Stored == told[g] = "stored"
             Final == told[g] \in {"created", "failed"}
  <2>1. TypeOK /\ [Next]_vars =>
          /\ Final => Final'
          /\ Stored => Stored' \/ Final'
          /\ Put => Put' \/ Stored' \/ Final'
    BY RegisteringMovesOn
  <2>2. TypeOK /\ [Next]_vars /\ <<Registering(g)>>_vars =>
          /\ ~Final
          /\ Stored' \/ Final'
          /\ Stored => Final'
    BY RegisteringMovesOn
  <2>3. Ended <=> ~Put /\ ~Stored
    OBVIOUS
  <2>4. Final => ~Stored /\ ~Put
    OBVIOUS
  <2>5. Answered(g) => []<>Ended \/ []<><<Registering(g)>>_vars
    BY DEF Answered
  <2> HIDE DEF Ended, Put, Stored, Final
  <2>6. Spec /\ ([]<>Ended \/ []<><<Registering(g)>>_vars) => <>[]Ended
    BY <2>1, <2>2, <2>3, <2>4, TypeCorrect, PTL DEF Spec
  <2> USE DEF Ended
  <2> QED
    BY <2>5, <2>6, PTL
<1>2. ASSUME NEW r \in Requests
      PROVE  Spec /\ Served(r) => <>[](pc[r] \in {"idle", "done"})
  <2> DEFINE Ended == pc[r] \in {"idle", "done"}
             P1 == Stage(r) >= 1
             P2 == Stage(r) >= 2
             P3 == Stage(r) >= 3
             P4 == Stage(r) >= 4
             P5 == Stage(r) >= 5
             P6 == Stage(r) >= 6
             P7 == Stage(r) >= 7
  <2>1. ASSUME TypeOK
        PROVE  /\ Stage(r) >= 0
               /\ pc[r] = "idle" <=> ~P1
               /\ pc[r] = "done" <=> P7
    <3>1. pc[r] \in Stages
      BY <2>1 DEF TypeOK
    <3> QED
      BY <3>1, OrderType DEF Stage
  <2>2. TypeOK /\ [Next]_vars =>
          /\ P1 => P1'
          /\ P2 => P2'
          /\ P3 => P3'
          /\ P4 => P4'
          /\ P5 => P5'
          /\ P6 => P6'
          /\ P7 => P7'
    BY StageStep
  <2>3. TypeOK /\ [Next]_vars /\ <<Serve(r)>>_vars =>
          /\ P1'
          /\ P1 => P2'
          /\ P2 => P3'
          /\ P3 => P4'
          /\ P4 => P5'
          /\ P5 => P6'
          /\ P6 => P7'
    BY <2>1, StageStep
  <2>4. TypeOK => (Ended <=> ~P1 \/ P7)
    BY <2>1
  <2>5. Served(r) => []<>Ended \/ []<><<Serve(r)>>_vars
    BY DEF Served
  <2> HIDE DEF Ended, P1, P2, P3, P4, P5, P6, P7
  <2>6. Spec /\ ([]<>Ended \/ []<><<Serve(r)>>_vars) => <>[]Ended
    BY <2>2, <2>3, <2>4, TypeCorrect, PTL DEF Spec
  <2> USE DEF Ended
  <2> QED
    BY <2>5, <2>6, PTL
<1> QED
  BY <1>1, <1>2 DEF EveryLoginEnds
=============================================================================
