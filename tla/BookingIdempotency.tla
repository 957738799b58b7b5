------------------------ MODULE BookingIdempotency ------------------------
(***************************************************************************)
(* create_booking of src/tools.py and the idempotency claim that guards it.*)
(*                                                                         *)
(* A request claims its key in the state store (put_if_absent), asks what  *)
(* an already claimed key holds (get), posts the booking to the operator's *)
(* API, replaces the claim by the result (put), sends its notifications    *)
(* and answers.  Requests run concurrently on several server instances,    *)
(* which may die at any point; the POST may be lost, answered late or      *)
(* refused; the store may fail before or after it wrote.                   *)
(*                                                                         *)
(* The steps of one request are cut where the code awaits something other  *)
(* requests, or the clock, can overtake.  With the DynamoDB table every    *)
(* store call is such a point; the process-local store never suspends.     *)
(***************************************************************************)
EXTENDS TtlStore

CONSTANTS
  Requests,   \* calls of create_booking; a booking's job id is its request
  Keys,       \* idempotency state keys (one per actor and client key)
  NoKey,      \* the call carries no idempotency_key
  NoJob,      \* the job of a claim that is still in progress
  Instances,  \* server processes
  Table,      \* the shared DynamoDB table
  Durable,    \* the instances whose first use of the store got the table; the
              \* others fell back to a store in their own memory
  Strict,     \* those of the others that REQUIRE_DURABLE_STATE, although they
              \* have no AUTH_STATE_TABLE_NAME
  TTL,        \* IDEMPOTENCY_TTL_SECONDS
  Span,       \* the longest one call lasts: its HTTP and platform timeouts
  Horizon,    \* how long after the first use of a key clients still reuse it
  MaxTime     \* bound on the clock

ASSUME BookingAssumption ==
  /\ NoKey \notin Keys
  /\ NoJob \notin Requests
  /\ Durable \subseteq Instances
  /\ Strict \subseteq Instances \ Durable
  /\ Table \notin Instances
  /\ TTL \in Nat /\ Span \in Nat /\ Horizon \in Nat /\ MaxTime \in Nat

VARIABLES
  now,        \* the clock, in the seconds of int(time.time())
  store,      \* store[s][k]: the entry of key k in store s
  pc,         \* pc[r]: what request r does next
  key,        \* key[r]: its idempotency key
  inst,       \* inst[r]: the instance that serves it
  began,      \* began[r]: when it arrived
  stamp,      \* stamp[r]: the clock it read for the store call it is making
  seen,       \* seen[r]: the entry its get_item returned
  operator,   \* operator[r]: what the booking API did with its POST
  answer,     \* answer[r]: the result the client received
  opened,     \* opened[k]: when key k was first used (ghost)
  forgotten,  \* requests a process-local store lost with its process (ghost)
  kept        \* strict instances that hold the store they refused to use

vars == <<now, store, pc, key, inst, began, stamp, seen, operator, answer,
          opened, forgotten, kept>>

Stores == {Table} \cup Instances
Shared(r) == inst[r] \in Durable
StoreOf(r) == IF Shared(r) THEN Table ELSE inst[r]
Held(r) == store[StoreOf(r)][key[r]]

(* Slip: Refuses without the check of durability. *)
RefusesNobody(r) == FALSE

(* _get_idempotency_store builds a store that is not durable where it must   *)
(* be, and raises; once it is kept it is returned without that question.     *)
Refuses(r) == inst[r] \in Strict \ kept

InProgress == [status |-> "in_progress", job |-> NoJob]
Completed(r) == [status |-> "completed", job |-> r]
Claims == {InProgress} \cup {Completed(r) : r \in Requests}

NoAnswer == [status |-> "none", job |-> NoJob]
Says(status) == [status |-> status, job |-> NoJob]
Replays(j) == [status |-> "already_processed", job |-> j]

InFlight(r) == pc[r] \notin {"idle", "done"}
Used(k) == \E r \in Requests : key[r] = k

Init ==
  /\ now = 0
  /\ store = [s \in Stores |-> [k \in Keys |-> Absent]]
  /\ pc = [r \in Requests |-> "idle"]
  /\ key = [r \in Requests |-> NoKey]
  /\ inst \in [Requests -> Instances]
  /\ began = [r \in Requests |-> 0]
  /\ stamp = [r \in Requests |-> 0]
  /\ seen = [r \in Requests |-> Absent]
  /\ operator = [r \in Requests |-> "none"]
  /\ answer = [r \in Requests |-> NoAnswer]
  /\ opened = [k \in Keys |-> 0]
  /\ forgotten = {}
  /\ kept = {}

(* Request r ends here with answer a. *)
Reply(r, a) ==
  /\ pc' = [pc EXCEPT ![r] = "done"]
  /\ answer' = [answer EXCEPT ![r] = a]

Goto(r, l) ==
  /\ pc' = [pc EXCEPT ![r] = l]
  /\ UNCHANGED answer

Write(s, k, e) == store' = [store EXCEPT ![s][k] = e]

------------------------------------------------------------------------------
(* Slips a change of the code could make; each is weighed against the        *)
(* properties below.  The comment says which definition it would replace.    *)

(* ClaimWon with put in place of put_if_absent. *)
ClaimByOverwriting(r) ==
  /\ Shared(r)
  /\ pc[r] = "claim" /\ key[r] \in Keys
  /\ Write(Table, key[r], Item(InProgress, stamp[r] + TTL))
  /\ Goto(r, "post")
  /\ UNCHANGED <<now, key, inst, began, stamp, seen, operator, opened,
                 forgotten, kept>>

(* ClaimLocally with put in place of put_if_absent. *)
ClaimLocallyByOverwriting(r) ==
  /\ ~Shared(r) /\ ~Refuses(r)
  /\ pc[r] = "claim" /\ key[r] \in Keys
  /\ Write(inst[r], key[r], Item(InProgress, now + TTL))
  /\ Goto(r, "post")
  /\ UNCHANGED <<now, key, inst, began, stamp, seen, operator, opened,
                 forgotten, kept>>

(* HearBooked trusting any reply. *)
HearAnything(r) ==
  /\ pc[r] = "wait"
  /\ stamp' = [stamp EXCEPT ![r] = now]
  /\ Goto(r, IF key[r] = NoKey THEN "notify" ELSE "complete")
  /\ UNCHANGED <<now, store, key, inst, began, seen, operator, opened,
                 forgotten, kept>>

(* HearNothing without the POST's timeout. *)
HearRefusal(r) ==
  /\ pc[r] = "wait"
  /\ operator[r] = "refused"
  /\ Reply(r, Says("failed"))
  /\ UNCHANGED <<now, store, key, inst, began, stamp, seen, operator, opened,
                 forgotten, kept>>

(* HearNothing releasing the claim, so that the client may try again. *)
HearNothingAndRelease(r) ==
  /\ pc[r] = "wait"
  /\ Reply(r, Says("failed"))
  /\ IF key[r] = NoKey THEN UNCHANGED store
                       ELSE Write(StoreOf(r), key[r], Absent)
  /\ UNCHANGED <<now, key, inst, began, stamp, seen, operator, opened,
                 forgotten, kept>>

(* AnswerFor handing the stored record to the client. *)
AnswerVerbatim(claim) == claim

------------------------------------------------------------------------------
(* A call arrives at the instance that will serve it.  A key is new, or was *)
(* first used at most Horizon ago.  The address and location are resolved   *)
(* before the claim and the clock the claim will carry is read.             *)
Arrive(r, k) ==
  /\ pc[r] = "idle"
  /\ k \in Keys => (Used(k) => now <= opened[k] + Horizon)
  /\ key' = [key EXCEPT ![r] = k]
  /\ began' = [began EXCEPT ![r] = now]
  /\ stamp' = [stamp EXCEPT ![r] = now]
  /\ opened' = IF k \in Keys /\ ~Used(k) THEN [opened EXCEPT ![k] = now]
                                         ELSE opened
  /\ Goto(r, "claim")
  /\ UNCHANGED <<now, store, inst, seen, operator, forgotten, kept>>

(* Invalid input, an address that cannot be geocoded, a location lookup over *)
(* its rate limit or a preview: answered before anything is claimed.         *)
TurnAway(r) ==
  /\ pc[r] = "claim"
  /\ \E s \in {"failed", "confirmation_required"} : Reply(r, Says(s))
  /\ UNCHANGED <<now, store, key, inst, began, stamp, seen, operator, opened,
                 forgotten, kept>>

(* Without a key nothing is claimed. *)
SkipClaim(r) ==
  /\ pc[r] = "claim" /\ key[r] = NoKey
  /\ Goto(r, "post")
  /\ UNCHANGED <<now, store, key, inst, began, stamp, seen, operator, opened,
                 forgotten, kept>>

(* The table's conditional put succeeds: no item, or one that had expired at *)
(* the clock the caller read before the call.  When the reply of a put that  *)
(* was applied is lost, the client library repeats it and reports the        *)
(* conflict with its own first write, so the winner asks what the key holds. *)
ClaimWon(r) ==
  /\ Shared(r)
  /\ pc[r] = "claim" /\ key[r] \in Keys
  /\ ~Live(Held(r), stamp[r])
  /\ Write(Table, key[r], Item(InProgress, stamp[r] + TTL))
  /\ \E l \in {"post", "read"} : Goto(r, l)
  /\ UNCHANGED <<now, key, inst, began, stamp, seen, operator, opened,
                 forgotten, kept>>

ClaimTaken(r) ==
  /\ Shared(r)
  /\ pc[r] = "claim" /\ key[r] \in Keys
  /\ Live(Held(r), stamp[r])
  /\ Goto(r, "read")
  /\ UNCHANGED <<now, store, key, inst, began, stamp, seen, operator, opened,
                 forgotten, kept>>

(* get_item, a call of its own after the conditional put. *)
ReadClaim(r) ==
  /\ pc[r] = "read"
  /\ seen' = [seen EXCEPT ![r] = Held(r)]
  /\ Goto(r, "conclude")
  /\ UNCHANGED <<now, store, key, inst, began, stamp, operator, opened,
                 forgotten, kept>>

(* What create_booking does with what the claim call returned: a completed  *)
(* booking is replayed, a claim is reported.                                *)
AnswerFor(claim) == IF claim = InProgress THEN Says("in_progress")
                                          ELSE Replays(claim.job)

(* The item get_item returned is still live. *)
ReportClaim(r) ==
  /\ pc[r] = "conclude"
  /\ Live(seen[r], now)
  /\ Reply(r, AnswerFor(seen[r].val))
  /\ UNCHANGED <<now, store, key, inst, began, stamp, seen, operator, opened,
                 forgotten, kept>>

(* The item is missing or has expired: get deletes whatever the key holds   *)
(* now and returns None, which create_booking cannot tell from a claim.     *)
PurgeClaim(r) ==
  /\ pc[r] = "conclude"
  /\ ~Live(seen[r], now)
  /\ Write(Table, key[r], Absent)
  /\ Goto(r, "post")
  /\ UNCHANGED <<now, key, inst, began, stamp, seen, operator, opened,
                 forgotten, kept>>

(* STATE_UNAVAILABLE: one of the table's calls raises, or the store that was *)
(* just built, and kept, is refused.                                         *)
StateUnavailable(r) ==
  /\ key[r] \in Keys
  /\ \/ /\ Shared(r)
        /\ pc[r] \in {"claim", "read", "conclude"}
        /\ UNCHANGED kept
     \/ /\ Refuses(r)
        /\ pc[r] = "claim"
        /\ kept' = kept \cup {inst[r]}
  /\ Reply(r, Says("unavailable"))
  /\ UNCHANGED <<now, store, key, inst, began, stamp, seen, operator, opened,
                 forgotten>>

(* Nobody is served for longer than Span. *)
MayTick ==
  /\ now < MaxTime
  /\ \A r \in Requests : InFlight(r) => now < began[r] + Span

(* The process-local store: put_if_absent and get follow each other without *)
(* a suspension, but each reads the clock, which may pass a second between. *)
ClaimLocally(r) ==
  /\ ~Shared(r) /\ ~Refuses(r)
  /\ pc[r] = "claim" /\ key[r] \in Keys
  /\ \/ /\ ~Live(Held(r), now)
        /\ Write(inst[r], key[r], Item(InProgress, now + TTL))
        /\ Goto(r, "post")
        /\ UNCHANGED now
     \/ /\ Live(Held(r), now)
        /\ now' \in {now} \cup (IF MayTick THEN {now + 1} ELSE {})
        /\ IF Live(Held(r), now')
             THEN Reply(r, AnswerFor(Held(r).val)) /\ UNCHANGED store
             ELSE Write(inst[r], key[r], Absent) /\ Goto(r, "post")
  /\ UNCHANGED <<key, inst, began, stamp, seen, operator, opened, forgotten,
                 kept>>

------------------------------------------------------------------------------
(* operator_request raises ValidationError before anything is sent: no      *)
(* integration, host not allowed, rate limit, open circuit.  The claim      *)
(* stays.                                                                   *)
RefuseToPost(r) ==
  /\ pc[r] = "post"
  /\ Reply(r, Says("failed"))
  /\ UNCHANGED <<now, store, key, inst, began, stamp, seen, operator, opened,
                 forgotten, kept>>

Post(r) ==
  /\ pc[r] = "post"
  /\ operator' = [operator EXCEPT ![r] = "sent"]
  /\ Goto(r, "wait")
  /\ UNCHANGED <<now, store, key, inst, began, stamp, seen, opened, forgotten,
                 kept>>

(* The booking API, outside this repository: it books or refuses a POST,    *)
(* possibly after the caller stopped waiting.  Nothing in this repository   *)
(* makes it honour the idempotency_key it is sent.                          *)
OperatorDecides(r) ==
  /\ operator[r] = "sent"
  /\ \E o \in {"booked", "refused"} : operator' = [operator EXCEPT ![r] = o]
  /\ UNCHANGED <<now, store, pc, key, inst, began, stamp, seen, answer, opened,
                 forgotten, kept>>

(* The reply names a job: the clock of the result's expiry is read. *)
HearBooked(r) ==
  /\ pc[r] = "wait"
  /\ operator[r] = "booked"
  /\ stamp' = [stamp EXCEPT ![r] = now]
  /\ Goto(r, IF key[r] = NoKey THEN "notify" ELSE "complete")
  /\ UNCHANGED <<now, store, key, inst, began, seen, operator, opened,
                 forgotten, kept>>

(* Timeout, connection error, error status or a reply without a job id.  It  *)
(* does not tell whether the job exists; the claim stays.                    *)
HearNothing(r) ==
  /\ pc[r] = "wait"
  /\ Reply(r, Says("failed"))
  /\ UNCHANGED <<now, store, key, inst, began, stamp, seen, operator, opened,
                 forgotten, kept>>

(* The result replaces the claim; a failure of this put is only logged. *)
Complete(r) ==
  /\ pc[r] = "complete"
  /\ \/ Write(StoreOf(r), key[r], Item(Completed(r), stamp[r] + TTL))
     \/ Shared(r) /\ UNCHANGED store
  /\ Goto(r, "notify")
  /\ UNCHANGED <<now, key, inst, began, stamp, seen, operator, opened,
                 forgotten, kept>>

(* Profile backfill, Slack, SMS and provider notification: whatever they     *)
(* do, the booking is reported as created.                                   *)
Notify(r) ==
  /\ pc[r] = "notify"
  /\ Reply(r, Says("created"))
  /\ UNCHANGED <<now, store, key, inst, began, stamp, seen, operator, opened,
                 forgotten, kept>>

------------------------------------------------------------------------------
(* An instance dies, and with it the calls it serves and the store in its    *)
(* memory.  A POST it sent stays with the operator.                          *)
Crash(i) ==
  /\ LET dead == {r \in Requests : inst[r] = i /\ InFlight(r)}
     IN /\ pc' = [r \in Requests |-> IF r \in dead THEN "done" ELSE pc[r]]
        /\ answer' = [r \in Requests |->
                        IF r \in dead THEN Says("lost") ELSE answer[r]]
  /\ \E r \in Requests : inst[r] = i /\ pc[r] # "idle"
  /\ IF i \in Durable
       THEN UNCHANGED <<store, forgotten>>
       ELSE /\ store' = [store EXCEPT ![i] = [k \in Keys |-> Absent]]
            /\ forgotten' = forgotten \cup
                  {r \in Requests : inst[r] = i /\ pc[r] # "idle"}
  /\ kept' = kept \ {i}
  /\ UNCHANGED <<now, key, inst, began, stamp, seen, operator, opened>>

(* The table's own time-to-live removes an expired item at some later time.  *)
Sweep(k) ==
  /\ store[Table][k] # Absent
  /\ ~Live(store[Table][k], now)
  /\ Write(Table, k, Absent)
  /\ UNCHANGED <<now, pc, key, inst, began, stamp, seen, operator, answer,
                 opened, forgotten, kept>>

Tick ==
  /\ MayTick
  /\ now' = now + 1
  /\ UNCHANGED <<store, pc, key, inst, began, stamp, seen, operator, answer,
                 opened, forgotten, kept>>

Claim(r) ==
  \/ SkipClaim(r) \/ ClaimWon(r) \/ ClaimTaken(r) \/ ClaimLocally(r)
Serve(r) ==
  \/ TurnAway(r) \/ Claim(r)
  \/ ReadClaim(r) \/ ReportClaim(r) \/ PurgeClaim(r) \/ StateUnavailable(r)
  \/ RefuseToPost(r) \/ Post(r) \/ HearBooked(r) \/ HearNothing(r)
  \/ Complete(r) \/ Notify(r)

Next ==
  \/ \E r \in Requests :
       \/ \E k \in Keys \cup {NoKey} : Arrive(r, k)
       \/ Serve(r)
       \/ OperatorDecides(r)
  \/ \E i \in Instances : Crash(i)
  \/ \E k \in Keys : Sweep(k)
  \/ Tick

Spec == Init /\ [][Next]_vars

(* The event loop runs every task that can run, and every await of a call    *)
(* has a timeout.  Neither the operator nor a crash owes anything.           *)
Fairness == \A r \in Requests : WF_vars(Serve(r))
FairSpec == Spec /\ Fairness

------------------------------------------------------------------------------
Labels == {"idle", "claim", "read", "conclude", "post", "wait", "complete",
           "notify", "done"}
Answers ==
  {NoAnswer}
    \cup {Says(s) : s \in {"failed", "unavailable", "confirmation_required",
                           "in_progress", "created", "lost"}}
    \cup {Replays(j) : j \in Requests}

(* Only a call with a key is between the claim and its result; only the      *)
(* table has a lookup of its own.                                            *)
KeyedSteps ==
  \A r \in Requests :
    /\ pc[r] \in {"read", "conclude", "complete"} => key[r] \in Keys
    /\ pc[r] \in {"read", "conclude"} => Shared(r)

(* Types of the state; the client only ever sees a BookingResult. *)
TypeOK ==
  /\ now \in Nat
  /\ store \in [Stores -> [Keys -> Entries(Claims)]]
  /\ pc \in [Requests -> Labels]
  /\ key \in [Requests -> Keys \cup {NoKey}]
  /\ inst \in [Requests -> Instances]
  /\ began \in [Requests -> Nat]
  /\ stamp \in [Requests -> Nat]
  /\ seen \in [Requests -> Entries(Claims)]
  /\ operator \in [Requests -> {"none", "sent", "booked", "refused"}]
  /\ answer \in [Requests -> Answers]
  /\ opened \in [Keys -> Nat]
  /\ forgotten \subseteq Requests
  /\ kept \subseteq Strict
  /\ KeyedSteps

(* Two calls that carry one key and whose claims are in one store that       *)
(* remembers both of them.                                                   *)
Rivals(q, r) ==
  /\ q # r
  /\ key[q] \in Keys /\ key[q] = key[r]
  /\ StoreOf(q) = StoreOf(r)
  /\ {q, r} \cap forgotten = {}

Submitted(r) == operator[r] # "none"

(* Two calls of a key reach the operator only across the expiry of the key:  *)
(* one of them arrived no earlier than TTL - Span after the first use of the *)
(* key.  Until then neither overlapping retries, timeouts, repeated writes   *)
(* of the client library nor dying instances make create_booking post twice. *)
ResubmissionNeedsExpiry ==
  \A q, r \in Requests :
    (Rivals(q, r) /\ Submitted(q) /\ Submitted(r)) =>
      \E c \in {q, r} : began[c] + Span >= opened[key[c]] + TTL

(* The booking of a key is sent to the operator at most once as long as      *)
(* clients stop reusing the key in time (create_booking posts only after     *)
(* its claim).                                                               *)
AtMostOneSubmission ==
  Horizon + Span < TTL =>
    \A q, r \in Requests : Rivals(q, r) => ~(Submitted(q) /\ Submitted(r))

(* A replay is the original result: the job it names exists and was booked  *)
(* by another call with the same key (_complete_booking_idempotency runs    *)
(* only after the operator's reply).                                        *)
ReplayNamesTheBooking ==
  \A r \in Requests :
    answer[r].status = "already_processed" =>
      LET j == answer[r].job
      IN j # r /\ key[j] = key[r] /\ operator[j] = "booked"

(* A server that must have durable state and was given no table posts a      *)
(* keyed booking on the strength of its own memory only after it has refused *)
(* another call: it fails closed once in the life of a process, no more.     *)
MemoryNeedsRefusal ==
  \A r \in Requests :
    (inst[r] \in Strict /\ key[r] \in Keys /\ Submitted(r)) =>
      \E q \in Requests :
        q # r /\ inst[q] = inst[r] /\ answer[q] = Says("unavailable")

(* Once the result of a key is stored, no later step of any call puts a     *)
(* claim, another job or nothing in its place while the key is in use; only *)
(* a process-local store loses it, with its process.                        *)
CompletedStays ==
  [][\A s \in Stores, k \in Keys :
       (/\ store[s][k].val \notin {NoValue, InProgress}
        /\ store'[s][k].val # store[s][k].val)
         => \/ ~Live(store[s][k], now)
            \/ store[s][k].val.job \in forgotten']_vars

(* Every call is answered or dies with its instance: no claim, lookup or     *)
(* reply of the operator is waited for forever.  As a call is made once, a   *)
(* time comes from which it is in flight no more.                            *)
EveryCallEnds == \A r \in Requests : <>[]~InFlight(r)

(* At any time at most one call of a key is past the claim and still        *)
(* working: what the in_progress answer tells every other one.              *)
Working(r) == pc[r] \in {"post", "wait", "complete", "notify"}
OneWorkerPerKey ==
  \A q, r \in Requests : Rivals(q, r) => ~(Working(q) /\ Working(r))

(* A retry made after the call that posted the booking was answered, by a  *)
(* timeout perhaps, is not told that the booking is still being processed.  *)
RetryAfterTimeoutIsSettled ==
  [][\A q, r \in Requests :
       (Rivals(q, r) /\ Submitted(q) /\ pc[q] = "done" /\ answer[r] = NoAnswer)
         => answer'[r] # Says("in_progress")]_vars

------------------------------------------------------------------------------
(* The calls of a key that are served with the table keep the promise of     *)
(* OncePerKey, whatever becomes of those that are not.                       *)
SubmitterOf(k) ==
  LET S == {r \in Requests : Shared(r) /\ key[r] = k /\ Submitted(r)}
  IN IF S = {} THEN NoJob ELSE CHOOSE r \in S : TRUE
Promise == INSTANCE OncePerKey WITH
  asked <- [r \in Requests |-> IF Shared(r) THEN key[r] ELSE NoKey],
  submitter <- [k \in Keys |-> SubmitterOf(k)],
  result <- [r \in Requests |-> IF Shared(r) THEN answer[r] ELSE NoAnswer]
KeepsPromise == Promise!Spec
=============================================================================
