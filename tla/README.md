# Verification of nimbus-mcp-server

TLA+ models of the parts of the server whose correctness depends on the order in
which things happen, TLC runs that check them on small instances, and proofs
that the TLA+ proof system checks for every instance.

Paths below are relative to the repository; the Python code is in `src/`.

## 1. The system

nimbus-mcp-server lets an AI assistant search for home-service providers and book
them for a homeowner. It is an asyncio FastAPI application that runs in any
number of instances (a Lambda function with a DynamoDB table in
`template.yaml`, or one local process). Everything about bookings and homeowners
belongs to the *operator*, whose HTTP APIs the server calls.

| Part | State | Operations | Depends on |
| --- | --- | --- | --- |
| State store, `state.py` | keys to (value, expiry): a DynamoDB table shared by the instances, or a dictionary in each process | `get` (deletes what has expired), `put`, `put_if_absent`, `consume`, `delete` | - |
| Booking, `tools.py` `create_booking`, `mcp_server.py` `create_booking_mcp` | `idempotency:booking:*` entries | preview, validate, claim the key, POST, store the result, notify, answer | state store, outbound guard, OAuth session |
| OAuth, `main.py` | `grant:*`, `session:*`, `refresh:*`, `client:*` entries | authorize (one-time code), token (code, refresh, client credentials), revoke, register | state store, outbound guard |
| Middleware, `main.py`, `auth_context.py` | context variables of one request | check the access token, resolve the session, limit rates | OAuth, state store |
| Session write-back, `tools.py` `validate_homeowner_session`, `_backfill_homeowner_profile` | `session:*` entries | store the profile again after a call to the operator | OAuth, state store |
| Outbound guard, `security.py`, `adapters.py` | timestamps per actor and endpoint; failures and opening time per upstream | allow-list, sliding-window limit, circuit breaker | - |
| Choice of the store, `main.py` `_get_state_store`, `tools.py` `_get_idempotency_store` | one global each | build on first use, refuse a store that is not durable | state store |
| Jobs, `tools.py`, `mcp_server.py` | none of its own; the operator's jobs | history, status, rebook, cancel | outbound guard, booking |
| Search and locations, `tools.py` | location cache per process | resolve ZIP or text, search with fallbacks | outbound guard |
| Signing `oauth_signing.py`, monitoring `monitor.py`, proxy and manifests `main.py`, UI bundles `ui/` | none | - | - |

How they interact: HTTP requests are asyncio tasks. A task runs undisturbed from
one `await` to the next; across an `await` any other task may run, and on the
DynamoDB table the tasks of other instances run at any time. Each call to the
table is made in a thread (`asyncio.to_thread`) and is an atomic action of the
table; the process-local store never suspends its caller. Calls to the operator
have timeouts (8, 12, 20 or 30 s) and the platform ends a request after 60 s
(`template.yaml:128`). Nothing is retried by the server, except that the AWS
client library repeats a table call whose reply it did not get.

What is hard here:

- *check, then act across awaits*: `put_if_absent` then `get` in the booking
  claim; `get` then `delete` of an expired item; `get` then `put` of a session;
- *time*: entries expire while they are in use; the expiry of a write is computed
  before the write; each operation reads the clock anew;
- *ambiguity*: a call that timed out may still take effect, at the table and at
  the operator; a reply may be lost after the effect; a process may die between
  any two steps;
- *rotation*: refresh tokens, ours and the operator's, work once, so a failure
  after they are consumed, or a stale copy written back, cannot be undone.

What makes each part correct:

- *booking*: a key is submitted to the operator at most once while it lives;
  replays name the operator's job; a stored result is not lost; every call ends;
- *OAuth*: the right to refresh a session is never in two hands and is never
  revived once lost; the operator's current credentials are the ones used next;
  no access token outlives the operator's; a session outlives its access tokens;
- *outbound guard*: nothing is sent while the circuit is open, no window sees
  more than its limit, refusals have a cause and do not prolong themselves;
- *choice of the store*: no operation is served by a store the configuration
  forbids;
- *jobs*: an answer is true of the homeowner's own job when it is given; a
  cancellation may be retried; what is listed can be named;
- *search*: a location is what the operator said of that input, and recently; a
  wider search or an apology comes only after every narrower search in vain; every
  search ends;
- *login*: a one-time code makes one login; codes are sent to registered
  redirects only; tokens go to whoever began the login; a page that says "try
  again" leaves nothing behind.

Every line at which one of these can go wrong is in `PROJECT.json` under
`hazards`, with the properties that watch it.

## 2. Modules

| Module | Role |
| --- | --- |
| `TtlStore` | the entries of the state store and what "expired" means |
| `OncePerKey` | abstract specification: what an idempotency key promises |
| `BookingIdempotency` | `create_booking` and its claim, in detail |
| `MCBooking` | its TLC instances |
| `BookingProofs` | its theorems |
| `RefreshLineage` | abstract specification: how the right to refresh moves |
| `OAuthSession` | token endpoint, sessions and tool-call write-backs, in detail |
| `MCOAuth` | its TLC instances |
| `OAuthProofs` | its theorems about the right to refresh |
| `OAuthStoreProofs`, `OAuthReuseProofs` | its theorems about the session's entry and the operator's credentials |
| `SlidingWindow` | abstract specification: what a rate limit means |
| `OutboundGuard` | rate limiter and circuit breaker around the calls to the operator |
| `MCGuard` | its TLC instances |
| `GuardProofs` | its theorems |
| `JobBook` | a homeowner's jobs: history, status, rebooking, cancellation |
| `MCJobs` | its TLC instances |
| `JobProofs` | its theorems |
| `ProviderSearch` | the search for providers: location cache, lookups, fallbacks |
| `MCSearch` | its TLC instances |
| `SearchProofs` | its theorems |
| `OneTimeCode` | abstract specification: what becomes of a one-time code |
| `LoginFlow` | client registration, login pages with one-time codes, the first exchange |
| `MCLogin` | its TLC instance |
| `LoginProofs` | its theorems |

Definitions marked as *slips* in the detailed modules are variants of the
definition they name that a plausible change of the code would amount to (an
unconditional put, a missing reset). No specification uses them; they show which
property would notice.

### BookingIdempotency

A request is a process; `pc[r]` is the point it has reached:
`claim` (address resolved, clock read) - `read` (the conditional put lost) -
`conclude` (get_item answered) - `post` - `wait` (POST sent) - `complete` (job
id received) - `notify` - `done`. `store[s][k]` is the entry of the key, in the one
table or in the memory of an instance. `operator[r]` is what became of the
POST, `answer[r]` the result the client saw.

An instance chooses its store on first use (`_get_idempotency_store`, `tools.py:80-93`).
Those in `Durable` got the table. The others fell back to a store in their own
memory, at once or, if they are in `Strict` (durable state is required, but no table
is named), after a refusal: the code keeps the store in its global and then raises
(`Refuses`, `StateUnavailable`), so that the next call of the process is served from it.
`kept` is the set of instances that have done so; a restart forgets it. All kinds of
instances may run side by side, as during a change of the configuration.

Correspondence with the code:

- `ClaimWon`, `ClaimTaken` are `put_if_absent` (`state.py:152-167`); its condition
  compares the expiry with `stamp[r]`, the clock read *before* the call. After
  `ClaimWon` the request may still find itself at `read`: the reply was lost and
  the library's repetition conflicted.
- `ReadClaim`, then `ReportClaim` or `PurgeClaim`, is `get` (`state.py:136-146`): it
  looks at the item it read, and when that is expired deletes whatever the key
  holds by then.
- After `PurgeClaim` the request posts: `_claim_booking_idempotency` returns
  `(key, None)` as it does after a successful claim (`tools.py:118-120`).
- `ClaimLocally` is the same pair of calls on the process-local store, one action
  because it does not suspend; the clock may advance between its two reads.
- `RefuseToPost`, `Post`, `OperatorDecides`, `HearBooked`, `HearNothing` are the POST
  (`tools.py:1536-1576`, `1694-1746`); the operator decides at any later time, also
  after the caller gave up, and is not assumed to honour the key.
- `Complete` may fail, which is only logged. `Notify` is everything after it.
- `Crash(i)` ends an instance's requests at any point, and loses its local store.
- `Sweep` is the table's own time-to-live. `Tick` is the clock; no request is
  served longer than `Span`.

`opened` and `forgotten` are ghosts: when a key was first used, and which requests'
local store is gone.

### OAuthSession

A request to `/oauth/token` (`Exchanges`) and a tool call (`Calls`) are processes
again, cut at their awaits. `session`, `grant` and `refresh` are the entries of
the table. The operator's credentials in a session are a record: the
*generation* of its refresh token (the operator accepts only its newest,
`upstream[s]`) and the expiry of its access token. A login is two puts
(`StoreSession`, `StoreGrant`), an exchange is `RedeemCode` or `RedeemRefresh`
(the atomic `consume`), for a refresh then `ReadSession`, `SendRefresh`, the
operator, `HearRotation`, `Persist`, and for both `ReadSession`, `BoundAccess`,
`Issue`, `Deliver`. Any of them may stop on the way (`Fail`), and
`RedeemCode`/`RedeemRefresh` may consume and yet report failure (a lost reply, a
wrong client, redirect URI or verifier).

A tool call resolves the session (`ReadSession`, `UseProfile`) and then writes the
*profile it read* back (`ReplaceProfile`: `validate_homeowner_session`), or reads
the session again and writes that back (`MergeProfile`:
`_backfill_ho_session_profile`), or neither.

### OutboundGuard

A call of `external_request` is a process with two steps: up to the sending of its
request (`RefuseByLimit`, `RefuseByCircuit` or `Send`; nothing is awaited between the
limiter, the breaker and the request) and the record of its outcome (`Succeed`,
`FailCall`, `Abandon`). `bucket[b]` and `failures[u]` are the lists of timestamps, kept as
the sets of calls that left them; `opened[u]` is the opening time. Limiter and
breaker belong to one process: a restart begins again at `Init`, and several
instances each have their own limit. The limiter of the HTTP middleware is the
same class with other keys.

The breaker has no half-open state. The first call after `OpenFor` closes the
circuit for all, so what can be said is that nothing was sent between opening and
closing (`NothingSentWhileOpen`), that an opening has its failures
(`JustifiedOpen`), and that it ends (`OutageEnds`). That call is the trial: it wipes the
failures that opened the circuit (`Pass`), as a success does (`Succeed`). `settled` is a
history variable, the failed calls that one or the other has wiped out; no action
reads it, and `JustifiedOpen` says that no opening counts them again.

### JobBook

A call fetches the list of the homeowner's jobs, finds a job by its id and acts on
what the list says: `pc[c]` is `list`, `listed` (through `get_previous_jobs`) - `load`,
`loaded` (`_load_homeowner_jobs_raw`) - `post` or `create` - `done`. `seen[c]` is the list
as it was when the operator answered; `job[j]` is the truth, which other calls and
the operator's own app go on changing (`OperatorChanges`). The operator may carry a
cancellation out after the caller gave up.

The tool `cancel_booking` looks the job up twice: in `get_previous_jobs` (`InHistory`)
and, when confirmed, again in the function `cancel_booking` (`Found`). The first of
these cannot succeed for a job's id (finding 4), so the function is also given
callers of its own, the calls that want "cancel function"; what is said of
cancellation is said of them. The operator answers a cancellation with success, with a
refusal, or with 404 (`OperatorRefuses`); what it has no booking for is its own affair,
so the 404 may name a job it listed a moment ago, and `HearMissing` passes it on as
`BOOKING_NOT_FOUND` (`tools.py:2044`). `NotFoundIsTrue` therefore says that a booking the
homeowner had is called missing only on the operator's own word. `PreviousId` is where the id is lost: an entry
without one is found only by an empty id, with which the function then refuses.
`CreateBooking` stands for a whole run of `BookingIdempotency`.

### ProviderSearch

A call of `search_providers` is a process cut at its awaits: `zip`, `coords` (the
operator is asked for a location), `located` (it has answered, the call has not
resumed), then `geo`, `text`, `city`, `nearby`, the four provider searches, each tried when
the one before showed nobody. `expires[w]` and `place[w]` are the entry of the
process's cache for input `w`. Reading the cache, dropping an expired entry and
writing one await nothing, so they are part of the step around them
(`AskCached`, `AskOperator`, `HearCoords`); between the operator's answer and the
write, other calls may write first. `told[w][l]` is a ghost: when the operator
last said that `w` is `l`; `heard[c][s]` another: the list that search `s` of call `c`
came back with.

`Serves` and `Matches` are `_provider_serves_location` and `_provider_matches_service`,
which test for substrings: `Areas[p]` and `Trades[p]` are a provider's texts, `Contains[t]` the
tokens and stems that occur in text `t` wherever they do, `Tokens(l)` the three tokens of
a place and `Stems[q]` the stems of a query, none when no word has four letters. So
"ca" occurs in "chicago, il" and "carpe" in "carpentry", and nothing here says that
a provider who passes the tests serves the place or offers the service: finding 5
shows that he may not. `NoMatchIsWithheld` is about the chain of searches and the order
of filter and cut, whatever the tests let through. The operator may give coordinates
without a name (`NoCity`); the text searches are skipped then.

### LoginFlow

The pages keep nothing on the server: every request to `/oauth/authorize` brings
all its parameters and is checked from the start, so each is a process:
`resolve` (the client's registration is read) - `waiting` (the operator sends or
verifies a one-time code) - `profile` - `session` - `grant` - `notify` - `done`. Registrations are
processes of their own (`Register`, `StoreClient`, `AnswerClient`) with an expiry, after
which their client is a stranger, whose redirects `_is_allowed_redirect_uri` alone
limits. The operator's part (`OperatorSends`, `OperatorAccepts`, `OperatorRejects`) runs
beside the requests and may do its work after they gave up (`HearNothing`). It
sends a new one-time code in place of the last, and accepts each once; this is
assumed of it. `Exchange` consumes the authorization code and then compares; what
becomes of the tokens it returns is in `OAuthSession`, where a login is taken as
one that succeeded.

### The abstract specifications

`OncePerKey` has no store, no clock and no failures: requests ask with a key, one of
them submits, only it reports "created", replays name it, everyone else is told
nothing. `BookingIdempotency` implements it with a shared table as long as the
keys live (`KeepsPromise`); the submitter of a key is the request that has posted.

`RefreshLineage` says that the right to refresh a session starts with the login,
moves to requests that have never had it, and can be lost for good.
`OAuthSession` implements it (`KeepsLineage`) with the holder read off the codes,
the tokens and the progress of the requests.

`SlidingWindow` remembers every call ever decided and refuses one if, and only if,
`Limit` calls of its bucket were admitted less than `Window` ago. `OutboundGuard`
implements it (`KeepsLimit`) although the code keeps a list that it prunes whenever it
is asked, charges a call before the breaker refuses it, and never takes a charge
back. That no window exceeds its limit (`WindowLimit`) and that a refusal has its
cause (`LimitedForCause`) are consequences.

`OneTimeCode` knows neither pages nor stores nor clocks: a one-time code is sent to a
phone, in place of the one before, one login for that phone may take it from there,
and one exchange may take that login's place and get tokens; on the way it can only
be lost. `LoginFlow` implements it (`KeepsOneTime`); a login has a code from the
operator's acceptance until the request ends without a redirect, or its
authorization code is gone.

## 3. Runs

Every bound is a CONSTANT of the cfg. Deadlock is not checked: when every call is
answered and the clock stands at `MaxTime` the system rightly stops.

| Run | Instance | Shows |
| --- | --- | --- |
| `booking_calls` | 2 requests, 1 key or none; 2 instances with the table, 1 with a memory of its own, 1 that refuses it first | types; one submission; replays are genuine; a stored result stays; memory only after a refusal; every call ends; refinement of `OncePerKey` |
| `booking_expiry` | 3 requests, table, clock beyond TTL | a second submission needs a call made when the key expires |
| `booking_overlap` | as `booking_expiry` | violation: two calls of a key work at once |
| `booking_timeout` | 2 requests, table | violation: a retry after a timeout is never settled |
| `oauth_calls` | 1 session, 3 exchanges, 1 call, clock to the end of the session's life | types; one refresh right, once lost never regained; one refresh in flight; access tokens end with the operator's and before their session; rotated credentials only come back by a write-back; exchanges end; refinement of `RefreshLineage` |
| `oauth_writeback` | 1 session, 3 exchanges, 1 call | violation: a write-back revives rotated credentials |
| `guard_calls` | 4 calls, 2 buckets, 2 upstreams | types; refinement of `SlidingWindow`: no window exceeds the limit, a refusal follows a full window; circuits open for failures not wiped out since, are respected, and end |
| `jobs_calls` | 2 calls, 2 jobs, 2 homeowners | "cancelled" and statuses are true; "not found" is, or is the operator's 404; retries settle; nobody touches another's job |
| `jobs_history` | as `jobs_calls` | violation: tools call an existing booking missing |
| `search_calls` | 2 calls, a ZIP and a text, 2 cities, 3 providers | types; locations are recent; fresh entries stay; nobody who passes the tests is withheld; searches end |
| `search_city` | as `search_calls`, 1 call, 1 provider | violation: a search for Sacramento, CA shows one of Chicago, IL as local |
| `login_pages` | 1 registration, 3 requests, 2 exchanges, 1 phone | types; registered redirects; one login per one-time code; error pages leave nothing; tokens for the beginner; requests end; refinement of `OneTimeCode` |

Why the bounds are enough. The claim protocol has one contested entry per key and
keys do not interact, so one key suffices; two requests make every pairwise race,
the third one makes the race in which a stale delete removes the claim of a
successor. `Span` is 1 and the lifetimes 2 to 5, so a request can straddle an
expiry, and `MaxTime` lets an entry expire once and be used again. In
`OAuthSession` three exchanges are a code and the two refreshes that follow it or
race for one token, and a tool call that writes back before, between or after
them; the proofs cover more sessions and calls. Of the servers in `booking_calls` two
share the table, so that one can die and leave the other its claims; `Pairs` lists
every pair of servers up to renaming. In `OutboundGuard` two calls fill a
window or open a circuit and two more arrive before, at and after its end; `Window`
is 3 and `OpenFor` 2 (60 and 30 seconds in the code), so that a trial meets failures
that are still in the window. In
`JobBook` the second call is the rival or the retry of the first, or another
homeowner's. In `ProviderSearch` two calls are enough to overlap on one entry of the
cache, and the clock lets it expire twice; of the two, one searches for a service
and one has no usable word. The first asks for the ZIP code, the second for the same one or
for the text. One provider passes both tests in some city, one only the test of place,
by the "ca" in "chicago, il", and one only the test of service. `MCInputs` of `MCLogin` says which inputs of the three requests
meet: one has a one-time code sent, one brings it, the third is a rival that brings
the same one, or has another sent to the same phone.

Real values keep the proportions: `IDEMPOTENCY_TTL_SECONDS` is a day
and a request lasts a minute; a session lives 14 days, an access token at most
`OAUTH_TOKEN_TTL` (7 days by default), a code ten minutes.

Symmetry is used for requests, exchanges, calls, sessions, the guard's keys, jobs
and homeowners, in runs that check invariants and, in `guard_calls`, a step-by-step
refinement: no property names one of them, and no liveness property is checked with
it.

### Fairness

`FairSpec` of `BookingIdempotency` assumes weak fairness of `Serve(r)`: a request that
can take its next step takes one. The event loop runs every ready task, and every
await has a timeout (30 s for the POST, the AWS library's own for the table), after
which the timeout branch is itself a step of the request. Nothing is assumed of
the operator, the clock, the table's sweep or crashes. `FairSpec` of `OAuthSession`
assumes the same of each token request, `FairSpec` of `ProviderSearch` of each search
(lookups time out after 8 s, provider searches after 12 s) and `FairSpec` of
`LoginFlow` of each registration and login request (8 s). The `MCSpec` of an instance
is `FairSpec` from some of the initial states, those that differ by more than names.
The liveness properties speak of one process at a time, which is what their proofs
need (section 4).

### Findings

1. `booking_overlap`: if the entry of a key disappears between `put_if_absent` and
   `get`, or a slow `get` deletes the entry of a successor, `create_booking`
   goes on without owning a claim (`tools.py:118-120`, `state.py:143-144`), although its
   answer for an unfinished claim is "already being processed; do not submit it
   again" (`tools.py:1532`). It takes a retry at the moment the key expires, a day
   after its first use: `OverlapAcrossExpiry` and `ResubmissionAcrossExpiry` prove that
   nothing less will do, and `OneWorker` that it cannot happen to clients that retire
   their keys in time.
2. `booking_timeout`: README.md:146 and `mcp_server.py:695` tell clients to reuse the
   key after a timeout "so the operator can return the original result". The claim
   stays `in_progress` and the operator is not asked again, so such a retry hears
   `IDEMPOTENCY_IN_PROGRESS` until the key expires. `BlocksEnd` bounds the wait: a
   lifetime and one call after the last call that carried the key.
3. `oauth_writeback`: a tool call that runs across a token refresh puts back the
   credentials it read before (`tools.py:214`, `main.py:601`); the next refresh presents
   a refresh token the operator has already replaced. `ReuseByCallsOnly` and
   `RotationIsFinal` prove that this is the only way.
4. `jobs_history`: `get_previous_jobs` leaves the id out of its entries
   (`tools.py:1874`), and the tool `cancel_booking` and the preview of
   `book_same_pro_again` look the id up there: they answer `BOOKING_NOT_FOUND` and
   `JOB_NOT_FOUND` for every booking, although their arguments are described as the
   id "from get_previous_jobs" (`mcp_server.py:904`, `1056`). A test replaces the
   function by one that lists ids (`tests/test_booking_contract.py:226`).
   `HistoryNamesNothing` proves that no order of events helps.
5. `search_city`: the filter behind "Found local providers" takes any token of the
   place, the state is one, and a token counts wherever it occurs in an area
   (`tools.py:630`), so a search in Sacramento, CA is answered with a provider whose
   only area is Chicago, IL. The function's own docstring says otherwise
   (`tools.py:619-620`), as does the comment at its call (`tools.py:730-731`). The filter by
   service tests for stems in the same way (`tools.py:647`, `673`): "carpe" of "carpet
   cleaning" occurs in "carpentry".

One more remark, which no run refutes. README.md:138 asks production to fail closed
and to set `REQUIRE_DURABLE_STATE=true`. With that set and the table's name missing, both
store getters keep the in-memory store before they raise (`tools.py:91-92`,
`main.py:325-326`). A server that starts once stops there; but the Lambda handler
(`main.py:2161`) runs the application's startup for every invocation, and only the
first of a process fails. `MemoryNeedsRefusal` states what is left of the promise.

## 4. Proofs

`BookingProofs` proves, for any finite or infinite sets of requests, keys and
instances of each kind, any lifetimes and any clock, from `BookingAssumption`
alone:

- `TypeCorrect`: `Spec => []TypeOK`.
- `Inductive`: `Spec => []IInv`, where `IInv` is the conjunction of
  - `IdleInv`: what has not started or not been sent has left no trace,
  - `ClockInv`: the stamps a request carries lie between its arrival and now, and no
    request is older than `Span`,
  - `EntryInv`: no entry of a key ends before the first use plus `TTL`,
  - `HoldInv`: a request past its claim left an entry, which lives until that time,
  - `RivalInv`: of two rivals that are past their claims, one arrived no earlier
    than `TTL - Span` after the first use.
  The claim alone is not inductive: a request at `read` or `conclude` may later post
  on the strength of an entry it saw, and the proof needs to know that such an
  entry can only be dead if the clock has reached the end of the key's life.
- `ResubmissionAcrossExpiry`: `Spec => []ResubmissionNeedsExpiry`, from `IInv`.
- `AtMostOnce`: `Spec => []AtMostOneSubmission`, from `ResubmissionAcrossExpiry` and
  the invariant `ReuseInv` (calls arrive within `Horizon` of the first use).
- `ReplaysAreGenuine`: `Spec => []ReplayNamesTheBooking`, with the invariant `RecordInv`:
  every completed entry, stored or just read, names a job booked under its key.
- `MemoryAfterRefusal`: `Spec => []MemoryNeedsRefusal`, with `RefusalInv`: who keeps a
  refused store has refused a call, and so has whoever is about to post by it.
- `ResultsStay`: `Spec => CompletedStays`, assuming `Retired` (`Horizon + Span < TTL`: clients
  stop reusing a key before its first claim can expire). `WriteSteps` lists the steps
  that write an entry; a call in flight is in the early time of its key, where
  nothing it reads is expired, and another job could only be stored by a second
  submission. `HomeInv` says that a result lies in the store of the call that
  booked it, so that only the death of that process loses it.
- `PromiseIsKept`: `Spec => KeepsPromise`, assuming `Retired`: the refinement itself, one
  lemma per step of `OncePerKey` (`ArrivalAsks`, `PostSubmits`, `NoticeReports`,
  `ReportReplays`, `CrashDeclines`) and `PromiseStutters` for the rest. `Submitters(k)` has
  one member at most by `AtMostOnce`, which is what makes the submitter a function
  of the state.
- `OverlapAcrossExpiry` and, assuming `Retired`, `OneWorker`: of two calls that both take a
  key for theirs, one arrived no earlier than `TTL - Span` after the first use. From
  `IInv`.
- `BlocksEnd`: `Spec => []BlockedByItsCalls`: every entry was written by a call that
  carried its key, at most `Span` after its arrival. What is stamped on an entry is
  never later than the call that writes it (`ClockInv`).
- `CallsEnd`: see *Liveness* below.

`OAuthProofs` proves, from `OAuthAssumption` alone (the sets of logins, requests and
calls do not overlap; lifetimes and clock are naturals):

- `TypeCorrect`: `Spec => []TypeOK`.
- `OneRight`: `Spec => []OneRefreshRight`, with `HandInv`: a request that has not yet
  issued its refresh token has none. The invariant alone is not inductive because
  a request that both is on its way and has a live token would count twice. The
  argument is by what a step does to the right: `Footprint` shows that every step but
  presenting a code or a token leaves each request's right as it is or takes it
  away, and that only `RedeemCode` and `RedeemRefresh` give it; `CodeEffect` and
  `RefreshEffect` show that they take it from where it was.
- `LossIsFinal`: `Spec => LostIsFinal`: a right that nobody has stays with nobody, and
  only a request with the right presents the operator's credentials.
- `OneInFlight`: `Spec => []OneRefreshInFlight`, with `SentInv`: a request whose refresh
  the operator has not settled is either waiting for it or took the right with it
  when it gave up. This is the step that covers timeouts: without it a successor
  could be refreshing while the abandoned request is still on its way.
- `ImplementsLineage`: `Spec => KeepsLineage`: the refinement itself, every step mapped to
  a step of `RefreshLineage` or a stutter.
- `ExchangesEnd`: see *Liveness* below.

`OAuthStoreProofs` adds what the entry of the session holds, and how long. Its first
part sorts the steps by what they do to requests and store (`Works`, `Begins`, ..., lemma
`Shapes`); the theorems need `Slack`, that a session's lifetime exceeds a code's and
a token's by two requests, which the code's defaults meet by days (ten minutes,
7 days and two minutes against 14 days).

- `SessionOutlives`: `Spec => []SessionOutlivesAccess`, with `HeldInv`. `Due(y)` is when the
  last tool call admitted by the token of request `y` has ended, and `CoverInv` says
  that the session's entry lasts until then. The entry alone is not inductive: a
  request removes the session on the strength of an entry it read earlier, so
  that must be covered too (`SeenInv`, `CallInv`), and the time for it comes from the
  login (`LoginInv`) or from the put before the token.
- `AccessBounded`: `Spec => [](Slack => AccessWithinUpstream)`, with `NewestInv`: while a
  refreshed request is on its way to its token, nothing stored or read for its
  session, by whatever tool call, lasts longer than its own credentials. `Slack` is
  needed because a token whose session is found expired is not bounded at all.

`OAuthReuseProofs` proves `ReuseByCallsOnly`: `Spec => []ReuseNeedsWriteBack`, with `GenInv` and
`AnswerInv` (the operator's answer is newer than all it was shown) and `SpentInv`: what
a request has presented was replaced in the entry and in what others have read,
or a tool call has brought it back, or the right to refresh is lost. `RotationIsFinal` is
its other half: with no tool calls (`Calls = {}`), nothing is presented twice.

`GuardProofs` proves, from `GuardAssumption` alone, every property `guard_calls` checks:

- `TypeCorrect`; `WindowsAreLimited` with `KeptInv` (what is still in the window was not
  pruned) and `WindowInv` (every window up to now is within the limit): the list the
  code counts is exactly the window that ends now, so the newest window cannot
  exceed the limit and older ones no longer change. `LimitsHaveCause` uses the same.
- `LimitIsKept`: `Spec => KeepsLimit`: the refinement of `SlidingWindow`, from the same
  invariants. `AdmittedWindow` is its core: at the moment of a decision the pruned list
  counts exactly the calls that the abstract window holds.
- `OpeningsAreJustified` with `BlameInv`: a counted failure is one of its upstream that
  neither a success nor a trial has wiped out. `SettleCases` sorts the steps by what they
  wipe out (`Settles`): the list and the opening go with it, whichever it is. A late failure can prune the list below the threshold while the
  circuit is open, so the failures that justify it are found in the past, not in
  the list.
- `NothingSent`, and `OutagesEnd` with `DeadlineInv`: an opening is at most `Span` after the
  sending of some request.

`JobProofs` proves, from `JobAssumption` alone, every property `jobs_calls` checks:
`TypeCorrect`, `CancellationsAreTrue`, `RetriesSettle`, `StatusesAreCurrent`,
`OnlyOwnJobs`, `MissingIsMissing`; and `HistoryNamesNothing` (`Spec => []NothingByHistory`),
the complement of what `jobs_history` finds. The former follow from one invariant of each call
(`CallInv`): `Memory` (cancelled stays cancelled, made stays made), `Sight` (a list shows
only own jobs, and no cancellation too early), `Fresh` (what a call acts on is no
older than the call), `Ground` (who acts has found the job), `Path` and `Ending`. A
call's invariant is disturbed by the steps of others only through the jobs, and
these only grow (`Grows`, `Frame`); so one lemma per kind of step of its own remains.
`MissingIsMissing` has two cases: `Fresh` for a list without the job, and the operator's
own 404, which `HearMissing` alone turns into "not found".

`SearchProofs` proves, from `SearchAssumption` alone, every property of
`search_calls` (`SearchesEnd`: see *Liveness* below):

- `TypeCorrect`; `Recent` and `FreshEntryStays` from `RecentInv`: `CacheInv` (an entry ends at
  most `Span + TTL` after the operator last said it), `LookupInv` (a lookup is within
  its span, and whatever entry its input has was written after it began) and
  `UsedInv`. `LookupInv` is the part that makes the overwriting of entries by
  overlapping lookups harmless.
- `NobodyWithheld` with `NoteInv`: a call has made exactly the searches before its
  present one (`Before`), each in vain (`InVain`). Each is made once (`HearOnce`), so what it
  came back with cannot change afterwards, and a result rests on all of them.

`LoginProofs` proves, from `LoginAssumption` alone, every property of
`login_pages` (`LoginsEnd`: see *Liveness* below). Its first part puts each step of the handler in one of seven kinds
(`Checks`, `Sends`, `Ends`, `Passes`, `Opens`, `Grants`, `Leaves`), and the rest argues about these.

- `TypeCorrect`; `ErrorPagesLeaveNothing` with `StageInv`: what each stage has stored.
- `RedirectsAreRegistered` with `RegInv` (a registration that was answered with 201
  is in the table until it expires, because only an expired one is deleted) and
  `PathInv` (past `resolve` the parameters were good).
- `OneLoginForEachOtp` with `GoodInv` and `SpentInv`: an accepted one-time code is no longer
  the one the phone has, and no other request with the same code was accepted.
- `TokensForTheBeginner` with `TokenInv`: an authorization code that was compared is gone
  for good.
- `CodesAreOneTime`: `Spec => KeepsOneTime`, the refinement of `OneTimeCode`, from
  `StageInv`, `GoodInv`, `SpentInv` and `TokenInv` together. `HandsNone`, `HandsPhone` and
  `HandsLogin` say that a code is in one hand at most, and which; then one lemma per actor
  (`OperatorCode`, `ServeCode`, `ExchangeCode`) maps its steps, and `LoginLost` covers every
  step that can do no more than let a login go.

*Liveness.* `CallsEnd`, `ExchangesEnd`, `SearchesEnd` and `LoginsEnd` prove the four liveness
properties, for any number of processes, by one argument: `Order` numbers the stages of
a process, no step of anybody takes it back (`StageStep` and its like), its own steps
take it forward, and there are finitely many stages. What they assume is the weak
fairness of section 3 with its enabling condition spelt out, such as
`Served(r) == []<>(pc[r] \in {"idle", "done"}) \/ []<><<Serve(r)>>_vars`: a request that is
not over is served again and again. Reading that off `WF_vars(Serve(r))` takes
`ENABLED <<Serve(r)>>_vars`, which this prover does not handle. It is the one step that stays
with TLC, which checks the same properties from `WF_vars` itself; a comment at each
hypothesis says why the step is enabled.

Nothing else that a passing run checks is left without a theorem.

## 5. Not modelled

- In `OAuthSession`: `client_credentials` (stateless), refresh tokens from before
  renewable sessions and those that carry a profile, operator tokens without an
  `exp` claim, the process-local store, the table's sweep (a dead entry behaves like
  a missing one there).
- In `LoginFlow`: requests without an OAuth parameter, the process-local store, the
  wording and layout of the pages, what the operator's profile says.
- In `ProviderSearch`: coordinates as input (the MCP tool passes text only), a `limit`
  below one, pages (a page past the end finds nobody and goes through the same
  fallbacks), provider profiles and reviews, ranking and formatting.
- The other getter of a store, `main._get_state_store`: the same code as the one in
  `BookingIdempotency`, for modules that assume the table.
- Cryptography: a token is who issued it; nobody makes one up.
- Validation, formatting, ranking, logging, monitoring, UI bundles, manifests, the
  proxy, the release script: they hold no state that another step depends on.

## 6. Plan

Done, in this order: the state store's entries; booking with its abstract
specification, runs and proofs; OAuth sessions with theirs; the outbound guard
and the jobs with all their proofs; the provider search and the login flow with
theirs; the choice of the store within the booking; the abstract specifications of
the rate limit and of one-time codes with their refinements, the liveness
properties and the extent of each finding, proved.

To come:

1. The process-local store and the choice of it for sessions and grants.
2. The access token's check at the middleware, with the tool calls it admits.
