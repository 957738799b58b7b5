---------------------------- MODULE OutboundGuard ----------------------------
(***************************************************************************)
(* What stands between a tool and the operator's APIs (src/security.py):   *)
(* external_request charges the actor's rate limit for the endpoint, asks  *)
(* the circuit breaker of the URL, sends the request, and tells the        *)
(* breaker how it went.                                                    *)
(*                                                                         *)
(* Nothing is awaited up to the sending of the request, nor from the       *)
(* answer to its record in the breaker, so these are two steps of a call;  *)
(* any number of other calls of the process start and end between them.    *)
(* Limiter and breaker live in one process and die with it.                *)
(*                                                                         *)
(* The lists of timestamps are sets of the calls they stand for: the       *)
(* limiter's timestamp of c is since[c], the breaker's is ended[c].        *)
(***************************************************************************)
EXTENDS Naturals, FiniteSets

CONSTANTS
  Calls,      \* calls of external_request
  Buckets,    \* actor and endpoint, the limiter's keys
  Upstreams,  \* URLs without their query, the breaker's keys
  Never,      \* a key that _opened_at does not have
  Limit,      \* rate_limit of the endpoints; 0 is no limit
  Window,     \* window_seconds, and the breaker's window: 60
  Threshold,  \* failure_threshold
  OpenFor,    \* open_seconds
  Span,       \* the longest one request lasts
  MaxTime     \* bound on the clock

ASSUME GuardAssumption ==
  /\ Never \notin Nat
  /\ Limit \in Nat /\ Window \in Nat \ {0} /\ Threshold \in Nat
  /\ OpenFor \in Nat /\ Span \in Nat /\ MaxTime \in Nat

VARIABLES
  now,       \* the clock
  bucket,    \* bucket[b]: the timestamps of _buckets[b]
  failures,  \* failures[u]: those of _failures[u]
  opened,    \* opened[u]: _opened_at.get(u)
  fate,      \* fate[c]: what has become of call c
  key,       \* key[c]: its bucket
  url,       \* url[c]: its upstream
  since,     \* since[c]: when it was made
  ended,     \* ended[c]: when its answer was recorded
  settled    \* history, read by JustifiedOpen only: the failed calls whose
             \* upstream has since been well, or given a trial

vars == <<now, bucket, failures, opened, fate, key, url, since, ended, settled>>

Fates == {"idle",     \* not made yet
          "limited",  \* refused: RATE_LIMITED
          "refused",  \* refused: CIRCUIT_OPEN
          "waiting",  \* sent
          "ok",       \* answered
          "failed",   \* answered 5xx, or an httpx.HTTPError
          "gone"}     \* cancelled, or an error of another kind

Init ==
  /\ now = 0
  /\ bucket = [b \in Buckets |-> {}]
  /\ failures = [u \in Upstreams |-> {}]
  /\ opened = [u \in Upstreams |-> Never]
  /\ fate = [c \in Calls |-> "idle"]
  /\ key \in [Calls -> Buckets]
  /\ url \in [Calls -> Upstreams]
  /\ since = [c \in Calls |-> 0]
  /\ ended = [c \in Calls |-> 0]
  /\ settled = {}

(* Slip: nothing is ever pruned. *)
RecentAll(S, at) == S

(* The timestamps `at' of S that are still in the window. *)
Recent(S, at) == {c \in S : at[c] + Window > now}

Full(b) == Limit > 0 /\ Cardinality(Recent(bucket[b], since)) >= Limit

Failed(u) == {c \in Calls : fate[c] = "failed" /\ url[c] = u}

Open(u) == opened[u] # Never /\ opened[u] + OpenFor > now

Charge(c) ==
  bucket' = IF Limit = 0 THEN bucket
            ELSE [bucket EXCEPT ![key[c]] = Recent(@, since) \cup {c}]

------------------------------------------------------------------------------
(* is_limited: a refused call leaves no timestamp. *)
RefuseByLimit(c) ==
  /\ fate[c] = "idle"
  /\ Full(key[c])
  /\ bucket' = [bucket EXCEPT ![key[c]] = Recent(@, since)]
  /\ fate' = [fate EXCEPT ![c] = "limited"]
  /\ since' = [since EXCEPT ![c] = now]
  /\ UNCHANGED <<now, failures, opened, key, url, ended, settled>>

(* record_failure; a failure that arrives at an open circuit extends it. *)
Blame(c) ==
  LET u == url[c]
      F == Recent(failures[u], ended) \cup {c}
  IN  /\ failures' = [failures EXCEPT ![u] = F]
      /\ opened' = IF Cardinality(F) >= Threshold
                   THEN [opened EXCEPT ![u] = now] ELSE opened

(* Slip: before_call inside the try, so that its refusal is recorded too. *)
RefuseAndBlame(c) ==
  /\ fate[c] = "idle"
  /\ ~Full(key[c])
  /\ Open(url[c])
  /\ Charge(c)
  /\ fate' = [fate EXCEPT ![c] = "refused"]
  /\ since' = [since EXCEPT ![c] = now]
  /\ ended' = [ended EXCEPT ![c] = now]
  /\ Blame(c)
  /\ UNCHANGED <<now, key, url, settled>>

(* before_call of an open circuit; the limiter has already been charged. *)
RefuseByCircuit(c) ==
  /\ fate[c] = "idle"
  /\ ~Full(key[c])
  /\ Open(url[c])
  /\ Charge(c)
  /\ fate' = [fate EXCEPT ![c] = "refused"]
  /\ since' = [since EXCEPT ![c] = now]
  /\ UNCHANGED <<now, failures, opened, key, url, ended, settled>>

(* Slip: an expired opening is left standing. *)
PassOnly(u) == UNCHANGED <<opened, failures>>

(* Slip: the trial starts with the failures that opened the circuit. *)
PassAndKeep(u) ==
  /\ opened' = [opened EXCEPT ![u] = Never]
  /\ UNCHANGED failures

(* before_call that finds the circuit closed, or closes it after open_seconds: *)
(* from then on every call passes.                                             *)
Pass(u) ==
  /\ opened' = [opened EXCEPT ![u] = Never]
  /\ failures' = IF opened[u] = Never THEN failures
                 ELSE [failures EXCEPT ![u] = {}]

Send(c) ==
  /\ fate[c] = "idle"
  /\ ~Full(key[c])
  /\ ~Open(url[c])
  /\ Charge(c)
  /\ Pass(url[c])
  /\ settled' = IF opened[url[c]] = Never THEN settled
                ELSE settled \cup Failed(url[c])
  /\ fate' = [fate EXCEPT ![c] = "waiting"]
  /\ since' = [since EXCEPT ![c] = now]
  /\ UNCHANGED <<now, key, url, ended>>

End(c, f) ==
  /\ fate[c] = "waiting"
  /\ fate' = [fate EXCEPT ![c] = f]
  /\ ended' = [ended EXCEPT ![c] = now]

(* Slip: record_success that only closes the circuit. *)
SucceedOnly(c) ==
  /\ End(c, "ok")
  /\ opened' = [opened EXCEPT ![url[c]] = Never]
  /\ settled' = settled \cup Failed(url[c])
  /\ UNCHANGED <<now, bucket, failures, key, url, since>>

(* record_success *)
Succeed(c) ==
  /\ End(c, "ok")
  /\ failures' = [failures EXCEPT ![url[c]] = {}]
  /\ opened' = [opened EXCEPT ![url[c]] = Never]
  /\ settled' = settled \cup Failed(url[c])
  /\ UNCHANGED <<now, bucket, key, url, since>>

FailCall(c) ==
  /\ End(c, "failed")
  /\ Blame(c)
  /\ UNCHANGED <<now, bucket, key, url, since, settled>>

(* The caller is cancelled, or client.request raises another error: the *)
(* breaker hears nothing.                                               *)
Abandon(c) ==
  /\ End(c, "gone")
  /\ UNCHANGED <<now, bucket, failures, opened, key, url, since, settled>>

(* No request is served longer than Span. *)
Tick ==
  /\ now < MaxTime
  /\ \A c \in Calls : fate[c] = "waiting" => now < since[c] + Span
  /\ now' = now + 1
  /\ UNCHANGED <<bucket, failures, opened, fate, key, url, since, ended, settled>>

Next ==
  \/ \E c \in Calls : \/ RefuseByLimit(c) \/ RefuseByCircuit(c) \/ Send(c)
                      \/ Succeed(c) \/ FailCall(c) \/ Abandon(c)
  \/ Tick

Spec == Init /\ [][Next]_vars

------------------------------------------------------------------------------
Charged(c) == fate[c] \notin {"idle", "limited"}
Sent(c) == fate[c] \in {"waiting", "ok", "failed", "gone"}

(* Types of the state; a timestamp is of a call of its own key that was      *)
(* admitted, or that failed, and is no later than now.                       *)
TypeOK ==
  /\ now \in Nat
  /\ bucket \in [Buckets -> SUBSET Calls]
  /\ failures \in [Upstreams -> SUBSET Calls]
  /\ opened \in [Upstreams -> Nat \cup {Never}]
  /\ fate \in [Calls -> Fates]
  /\ key \in [Calls -> Buckets]
  /\ url \in [Calls -> Upstreams]
  /\ since \in [Calls -> Nat] /\ ended \in [Calls -> Nat]
  /\ \A c \in Calls : since[c] <= now /\ ended[c] <= now
  /\ \A b \in Buckets : \A c \in bucket[b] : Charged(c) /\ key[c] = b
  /\ \A u \in Upstreams : failures[u] \subseteq Failed(u)
  /\ settled \subseteq {c \in Calls : fate[c] = "failed"}

(* The calls charged to bucket b in the window that ends with second t. *)
WindowOf(b, t) ==
  {c \in Calls : /\ Charged(c) /\ key[c] = b
                 /\ since[c] <= t /\ since[c] + Window > t}

(* No window of 60 seconds, whenever it ends, sees more than Limit calls of  *)
(* an actor to an endpoint, however calls and prunings of the list are       *)
(* interleaved (SlidingWindowRateLimiter.is_limited).                        *)
WindowLimit ==
  Limit > 0 => \A c \in Calls : Charged(c) =>
                 Cardinality(WindowOf(key[c], since[c])) <= Limit

(* A call is refused with RATE_LIMITED only when Limit calls were admitted   *)
(* in the window that ends with it: refusals are not charged, and what has   *)
(* left the window no longer counts.                                         *)
LimitedForCause ==
  \A c \in Calls : fate[c] = "limited" =>
    Limit > 0 /\ Cardinality(WindowOf(key[c], since[c])) >= Limit

(* An open circuit goes back to Threshold failures of that upstream within   *)
(* one window, none of them from before its last success or the last trial   *)
(* of its circuit: not to those of another URL, nor to ones that a success   *)
(* (record_success) or a trial (before_call) has wiped out, though they are  *)
(* less than a window old.                                                   *)
JustifiedOpen ==
  \A u \in Upstreams : opened[u] # Never =>
    \E F \in SUBSET (Failed(u) \ settled) :
      /\ Cardinality(F) >= Threshold
      /\ \A c \in F : ended[c] <= opened[u] /\ opened[u] < ended[c] + Window

(* While a circuit is open nothing is sent: whatever was sent to the         *)
(* upstream was sent before it opened, and the first call that passes takes  *)
(* the opening back (before_call).                                           *)
NothingSentWhileOpen ==
  \A u \in Upstreams, c \in Calls :
    opened[u] # Never /\ Sent(c) /\ url[c] = u => since[c] <= opened[u]

(* An outage does not feed itself: a call is refused with CIRCUIT_OPEN only  *)
(* if another was really sent to the upstream within the last Span + OpenFor *)
(* seconds.  Late failures may extend an opening, refusals may not.          *)
OutageEnds ==
  \A c \in Calls : fate[c] = "refused" =>
    \E d \in Calls : /\ Sent(d) /\ url[d] = url[c]
                     /\ since[d] <= since[c]
                     /\ since[c] < since[d] + Span + OpenFor

(* The limiter with its pruned list decides as SlidingWindow does: nothing   *)
(* else in a call, not the breaker's refusals, not how requests end, nor the *)
(* pruning that every decision does, changes what counts.                    *)
Sliding == INSTANCE SlidingWindow WITH
  of <- key,
  at <- since,
  verdict <- [c \in Calls |-> IF Charged(c) THEN "admitted"
                              ELSE IF fate[c] = "limited" THEN "refused" ELSE "none"]
KeepsLimit == Sliding!Spec
=============================================================================
