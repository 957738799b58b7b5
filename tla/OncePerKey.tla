----------------------------- MODULE OncePerKey -----------------------------
(***************************************************************************)
(* What an idempotency key promises to the callers of create_booking, with *)
(* no store, no clock and no network: the calls that carry one key agree   *)
(* on a single submitter; only the submitter is told that the booking was  *)
(* created, and everybody else is at most told which job that was.         *)
(***************************************************************************)
CONSTANTS Requests, Keys, NoKey, NoJob

VARIABLES
  asked,      \* asked[r]: the key request r carries
  submitter,  \* submitter[k]: the request that posted the booking of key k
  result      \* result[r]: what r was answered

vars == <<asked, submitter, result>>

Nothing == [status |-> "none", job |-> NoJob]

Init ==
  /\ asked = [r \in Requests |-> NoKey]
  /\ submitter = [k \in Keys |-> NoJob]
  /\ result = [r \in Requests |-> Nothing]

Ask(r, k) ==
  /\ asked[r] = NoKey /\ result[r] = Nothing
  /\ asked' = [asked EXCEPT ![r] = k]
  /\ UNCHANGED <<submitter, result>>

(* The first call to get here posts; no other call of the key ever will. *)
Submit(r, k) ==
  /\ asked[r] = k /\ result[r] = Nothing
  /\ submitter[k] = NoJob
  /\ submitter' = [submitter EXCEPT ![k] = r]
  /\ UNCHANGED <<asked, result>>

(* "created" is only said by the submitter of the key. *)
ReportCreated(r) ==
  /\ result[r] = Nothing
  /\ asked[r] \in Keys => submitter[asked[r]] = r
  /\ result' = [result EXCEPT ![r] = [status |-> "created", job |-> NoJob]]
  /\ UNCHANGED <<asked, submitter>>

(* A replay names the submitter's job. *)
Replay(r, k) ==
  /\ result[r] = Nothing
  /\ asked[r] = k /\ submitter[k] \notin {NoJob, r}
  /\ result' = [result EXCEPT
                  ![r] = [status |-> "already_processed", job |-> submitter[k]]]
  /\ UNCHANGED <<asked, submitter>>

(* Everything else a call can hear says nothing about the booking; a crash   *)
(* answers several calls at once.                                            *)
NoResult ==
  [status : {"failed", "unavailable", "confirmation_required", "in_progress",
             "lost"},
   job : {NoJob}]
Decline ==
  /\ \E R \in SUBSET {r \in Requests : result[r] = Nothing} :
       \E a \in NoResult :
         result' = [r \in Requests |-> IF r \in R THEN a ELSE result[r]]
  /\ UNCHANGED <<asked, submitter>>

Next ==
  \/ \E r \in Requests :
       \/ ReportCreated(r)
       \/ \E k \in Keys : Ask(r, k) \/ Submit(r, k) \/ Replay(r, k)
  \/ Decline

Spec == Init /\ [][Next]_vars
=============================================================================
