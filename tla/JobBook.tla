------------------------------- MODULE JobBook -------------------------------
(***************************************************************************)
(* A homeowner's jobs: history, status, rebooking and cancellation         *)
(* (src/tools.py and the tools of src/mcp_server.py around them).          *)
(*                                                                         *)
(* The server keeps nothing of its own.  Every call fetches the list of    *)
(* the homeowner's jobs, finds the job by its id, and acts on what the     *)
(* list said; the operator, other calls and the operator's own app go on   *)
(* in the meantime.  A call is cut at its awaits:                          *)
(*   list, listed  - get_previous_jobs, for the history and the previews   *)
(*   load, loaded  - _load_homeowner_jobs_raw                              *)
(*   post          - the cancellation is on its way                        *)
(*   create        - inside create_booking (BookingIdempotency)            *)
(* CANCEL_BOOKING_API is configured: without it every cancellation ends    *)
(* before it loads anything.                                               *)
(***************************************************************************)
EXTENDS Naturals, FiniteSets

CONSTANTS
  Calls,       \* calls
  Jobs,        \* the operator's job ids
  Homeowners,
  Blank        \* an empty id

ASSUME JobAssumption == Blank \notin Jobs

VARIABLES
  owner,   \* owner[j]: the homeowner of j
  job,     \* job[j]: j at the operator
  want,    \* want[c]: what c asks for
  who,     \* who[c]: the homeowner whose token c carries
  id,      \* id[c]: the job it names
  pc,      \* pc[c]: how far it is
  seen,    \* seen[c][j]: j in the list it was sent
  post,    \* post[c]: its cancellation at the operator
  answer,  \* answer[c]: what it was told
  before   \* before[c]: its job when the call was made (a ghost)

call == <<want, who, id, before>>
vars == <<owner, job, call, pc, seen, post, answer>>

States == {"none", "open", "cancelled"}

Previews == {"rebook preview", "cancel preview"}

(* "cancel" is the tool with confirm_cancellation, which calls the function. *)
Wants == {"history", "status", "rebook", "cancel", "cancel function"} \cup Previews

ViaHistory == {"history", "cancel"} \cup Previews
Cancels == {"cancel", "cancel function"}

Answers == {"none", "jobs", "status", "preview", "created", "cancelled",
            "invalid", "not found", "failed", "error"}

Init ==
  /\ owner \in [Jobs -> Homeowners]
  /\ job \in [Jobs -> States]
  /\ want = [c \in Calls |-> "history"]
  /\ who \in [Calls -> Homeowners]
  /\ id = [c \in Calls |-> Blank]
  /\ pc = [c \in Calls |-> "idle"]
  /\ seen = [c \in Calls |-> [j \in Jobs |-> "none"]]
  /\ post = [c \in Calls |-> "none"]
  /\ answer = [c \in Calls |-> "none"]
  /\ before = [c \in Calls |-> "none"]

Reply(c, a) ==
  /\ pc' = [pc EXCEPT ![c] = "done"]
  /\ answer' = [answer EXCEPT ![c] = a]

Go(c, p) ==
  /\ pc' = [pc EXCEPT ![c] = p]
  /\ UNCHANGED answer

(* The id of a listed job: get_previous_jobs drops it, and str(None or "") *)
(* is the empty string.                                                    *)
PreviousId(j) == Blank

(* The jobs the operator lists for h. *)
JobsOf(h) == [j \in Jobs |-> IF owner[j] = h THEN job[j] ELSE "none"]

(* Slip: cancelled jobs are left out. *)
ListedOpen(c) == {j \in Jobs : seen[c][j] = "open"}

Listed(c) == {j \in Jobs : seen[c][j] # "none"}

InHistory(c) == \E j \in Listed(c) : PreviousId(j) = id[c]

(* Slip: the first job of the list will do. *)
FoundAny(c) == Listed(c) # {}

Found(c) == id[c] \in Listed(c)

------------------------------------------------------------------------------
(* Slip: an empty id is passed on. *)
Accept(c, i, reasoned) == IF reasoned THEN Go(c, "load") ELSE Reply(c, "invalid")

(* cancel_booking, book_same_pro_again, get_booking_status up to the load: *)
(* without an id, or a reason of three letters, there is none.             *)
Validate(c, i, reasoned) ==
  IF i # Blank /\ reasoned THEN Go(c, "load") ELSE Reply(c, "invalid")

Ask(c, w, i) ==
  /\ pc[c] = "idle"
  /\ want' = [want EXCEPT ![c] = w]
  /\ id' = [id EXCEPT ![c] = i]
  /\ before' = [before EXCEPT ![c] = IF i = Blank THEN "none" ELSE job[i]]
  /\ IF w \in ViaHistory THEN Go(c, "list")
     ELSE \E reasoned \in BOOLEAN : Validate(c, i, reasoned \/ w # "cancel function")
  /\ UNCHANGED <<owner, job, who, seen, post>>

(* The operator answers with the list as it is now. *)
OperatorLists(c) ==
  /\ \/ pc[c] = "list" /\ Go(c, "listed")
     \/ pc[c] = "load" /\ Go(c, "loaded")
  /\ seen' = [seen EXCEPT ![c] = JobsOf(who[c])]
  /\ UNCHANGED <<owner, job, call, post>>

(* A refusal of the operator or of the outbound guard, a timeout, a call    *)
(* that is cancelled or whose process dies: it can happen at every await.   *)
Stop(c) ==
  /\ pc[c] \notin {"idle", "done"}
  /\ Reply(c, "error")
  /\ UNCHANGED <<owner, job, call, seen, post>>

Local(c) == UNCHANGED <<owner, job, call, seen, post>>

ShowHistory(c) ==
  /\ pc[c] = "listed" /\ want[c] = "history"
  /\ Reply(c, "jobs")
  /\ Local(c)

MissInHistory(c) ==
  /\ pc[c] = "listed" /\ want[c] # "history"
  /\ ~InHistory(c)
  /\ Reply(c, "not found")
  /\ Local(c)

ShowPreview(c) ==
  /\ pc[c] = "listed" /\ want[c] \in Previews
  /\ InHistory(c)
  /\ Reply(c, "preview")
  /\ Local(c)

(* The tool has found the booking and calls cancel_booking. *)
Confirm(c) ==
  /\ pc[c] = "listed" /\ want[c] = "cancel"
  /\ InHistory(c)
  /\ \E reasoned \in BOOLEAN : Validate(c, id[c], reasoned)
  /\ Local(c)

Miss(c) ==
  /\ pc[c] = "loaded"
  /\ ~Found(c)
  /\ Reply(c, "not found")
  /\ Local(c)

ReportStatus(c) ==
  /\ pc[c] = "loaded" /\ want[c] = "status"
  /\ Found(c)
  /\ Reply(c, "status")
  /\ Local(c)

------------------------------------------------------------------------------
(* The job names no provider. *)
RefuseRebooking(c) ==
  /\ pc[c] = "loaded" /\ want[c] = "rebook"
  /\ Found(c)
  /\ Reply(c, "failed")
  /\ Local(c)

Rebook(c) ==
  /\ pc[c] = "loaded" /\ want[c] = "rebook"
  /\ Found(c)
  /\ Go(c, "create")
  /\ Local(c)

(* create_booking: the operator makes a job or none (a refusal, or the replay *)
(* of an earlier booking), and the call hears of it or not.                   *)
CreateBooking(c) ==
  /\ pc[c] = "create"
  /\ \/ UNCHANGED job
     \/ \E j \in Jobs : /\ job[j] = "none" /\ owner[j] = who[c]
                        /\ job' = [job EXCEPT ![j] = "open"]
  /\ \E a \in {"created", "failed"} : Reply(c, a)
  /\ UNCHANGED <<owner, call, seen, post>>

(* The list says is_canceled: nothing is sent. *)
AlreadyCancelled(c) ==
  /\ pc[c] = "loaded" /\ want[c] \in Cancels
  /\ Found(c) /\ seen[c][id[c]] = "cancelled"
  /\ Reply(c, "cancelled")
  /\ Local(c)

(* Slip: is_canceled is not looked at. *)
SendAlways(c) ==
  /\ pc[c] = "loaded" /\ want[c] \in Cancels
  /\ Found(c)
  /\ post' = [post EXCEPT ![c] = "sent"]
  /\ Go(c, "post")
  /\ UNCHANGED <<owner, job, call, seen>>

(* Slip: the job is not looked up first. *)
SendUnseen(c) ==
  /\ pc[c] = "loaded" /\ want[c] \in Cancels
  /\ seen[c][id[c]] # "cancelled"
  /\ post' = [post EXCEPT ![c] = "sent"]
  /\ Go(c, "post")
  /\ UNCHANGED <<owner, job, call, seen>>

SendCancellation(c) ==
  /\ pc[c] = "loaded" /\ want[c] \in Cancels
  /\ Found(c) /\ seen[c][id[c]] = "open"
  /\ post' = [post EXCEPT ![c] = "sent"]
  /\ Go(c, "post")
  /\ UNCHANGED <<owner, job, call, seen>>

(* The operator cancels the homeowner's own job, or finds that it already is  *)
(* cancelled; it may do so after the caller has given up.                     *)
OperatorCancels(c) ==
  /\ post[c] = "sent" /\ owner[id[c]] = who[c]
  /\ job' = [job EXCEPT ![id[c]] = "cancelled"]
  /\ post' = [post EXCEPT ![c] = "done"]
  /\ UNCHANGED <<owner, call, pc, seen, answer>>

(* It refuses, or answers 404: what it has no booking for is its own affair,  *)
(* and may be a job that it listed a moment ago.                              *)
OperatorRefuses(c) ==
  /\ post[c] = "sent"
  /\ \E p \in {"refused", "missing"} : post' = [post EXCEPT ![c] = p]
  /\ UNCHANGED <<owner, job, call, pc, seen, answer>>

(* Elsewhere a job is made or cancelled: by its provider, in the operator's  *)
(* own app, or by a booking whose call has given up.                         *)
OperatorChanges(j) ==
  /\ job[j] # "cancelled"
  /\ job' = [job EXCEPT ![j] = IF @ = "none" THEN "open" ELSE "cancelled"]
  /\ UNCHANGED <<owner, call, pc, seen, post, answer>>

(* Slip: the status of the response is not raised. *)
HearAnything(c) ==
  /\ pc[c] = "post" /\ post[c] \in {"done", "refused", "missing"}
  /\ Reply(c, "cancelled")
  /\ Local(c)

HearCancelled(c) ==
  /\ pc[c] = "post" /\ post[c] = "done"
  /\ Reply(c, "cancelled")
  /\ Local(c)

(* Slip: whatever the operator objects to is called missing. *)
HearRefused(c) ==
  /\ pc[c] = "post" /\ post[c] \in {"refused", "missing"}
  /\ Reply(c, "not found")
  /\ Local(c)

(* A 404 that arrives is BOOKING_NOT_FOUND, though the list had the job. *)
HearMissing(c) ==
  /\ pc[c] = "post" /\ post[c] = "missing"
  /\ Reply(c, "not found")
  /\ Local(c)

(* Another status that is not a success, a timeout, an unreadable body. *)
HearNothing(c) ==
  /\ pc[c] = "post"
  /\ Reply(c, "failed")
  /\ Local(c)

Next ==
  \/ \E c \in Calls, w \in Wants, i \in Jobs \cup {Blank} : Ask(c, w, i)
  \/ \E c \in Calls :
       \/ OperatorLists(c) \/ Stop(c)
       \/ ShowHistory(c) \/ MissInHistory(c) \/ ShowPreview(c) \/ Confirm(c)
       \/ Miss(c) \/ ReportStatus(c)
       \/ RefuseRebooking(c) \/ Rebook(c) \/ CreateBooking(c)
       \/ AlreadyCancelled(c) \/ SendCancellation(c)
       \/ OperatorCancels(c) \/ OperatorRefuses(c)
       \/ HearCancelled(c) \/ HearMissing(c) \/ HearNothing(c)
  \/ \E j \in Jobs : OperatorChanges(j)

Spec == Init /\ [][Next]_vars

------------------------------------------------------------------------------
Own(c) == id[c] \in Jobs /\ owner[id[c]] = who[c]

(* What a call may still say of a job that was `was' when it was made, and    *)
(* is `is' now.                                                               *)
Between(was, said, is) ==
  /\ was = "cancelled" => said = "cancelled"
  /\ was = "open" => said # "none"
  /\ said = "cancelled" => is = "cancelled"

(* Types of the state; a call is answered once, when it ends, and one that    *)
(* has reached the operator's job list names a job.                           *)
TypeOK ==
  /\ owner \in [Jobs -> Homeowners] /\ job \in [Jobs -> States]
  /\ want \in [Calls -> Wants] /\ who \in [Calls -> Homeowners]
  /\ id \in [Calls -> Jobs \cup {Blank}]
  /\ pc \in [Calls -> {"idle", "list", "listed", "load", "loaded", "post",
                       "create", "done"}]
  /\ seen \in [Calls -> [Jobs -> States]]
  /\ post \in [Calls -> {"none", "sent", "done", "refused", "missing"}]
  /\ answer \in [Calls -> Answers]
  /\ before \in [Calls -> States]
  /\ \A c \in Calls : /\ answer[c] = "none" <=> pc[c] # "done"
                      /\ pc[c] \in {"load", "loaded", "post", "create"} => id[c] \in Jobs
                      /\ post[c] # "none" => pc[c] \in {"post", "done"} /\ id[c] \in Jobs

(* Who is told "cancelled" has a cancelled booking of his own at the         *)
(* operator, whichever of several racing calls cancelled it and however      *)
(* their requests were lost or late (cancel_booking).                        *)
CancelledIsTrue ==
  \A c \in Calls : answer[c] = "cancelled" => Own(c) /\ job[id[c]] = "cancelled"

(* Retrying a cancellation that took effect, even one that was reported as   *)
(* failed, is safe: the retry sends nothing and can only say "cancelled", or *)
(* fail to load the jobs (idempotentHint of the tool).                       *)
RetrySettles ==
  \A c \in Calls : want[c] = "cancel function" /\ before[c] = "cancelled" =>
    /\ post[c] = "none"
    /\ Own(c) => answer[c] \in {"none", "cancelled", "invalid", "error"}

(* A status is one the job had while the call ran: not older than the call,  *)
(* not of another job, not of somebody else's (get_booking_status).          *)
StatusIsCurrent ==
  \A c \in Calls : answer[c] = "status" =>
    Own(c) /\ seen[c][id[c]] # "none"
           /\ Between(before[c], seen[c][id[c]], job[id[c]])

(* What goes to the operator's write endpoints on behalf of a listed job is  *)
(* about a job of the caller: no booking of somebody else is cancelled or    *)
(* booked again, also not by an operator that would let it pass.             *)
OwnJobsOnly ==
  \A c \in Calls : post[c] # "none" \/ pc[c] = "create" => Own(c)

(* Status, rebooking and the cancellation function call a booking missing    *)
(* only if the homeowner did not have it when he called, or if the operator  *)
(* itself answered the cancellation with 404, which it may do of a booking   *)
(* it has just listed.  A timeout, a lost answer or any other refusal is     *)
(* never turned into "not found", and a cancelled booking is not missing     *)
(* (BOOKING_NOT_FOUND).                                                      *)
NotFoundIsTrue ==
  \A c \in Calls : want[c] \notin ViaHistory /\ answer[c] = "not found" =>
    \/ ~Own(c) \/ before[c] = "none"
    \/ want[c] = "cancel function" /\ post[c] = "missing"

(* The booking that the homeowner names can be previewed and cancelled with  *)
(* the tools: they do not call it missing ("Booking ID from                  *)
(* get_previous_jobs", "Job ID from get_previous_jobs for the prior booking  *)
(* to rehire").  They always do: get_previous_jobs lists no ids.             *)
HistoryNamesTheJob ==
  \A c \in Calls : want[c] \in ViaHistory /\ answer[c] = "not found" =>
    ~Own(c) \/ before[c] = "none"
=============================================================================
