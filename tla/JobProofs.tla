------------------------------ MODULE JobProofs ------------------------------
(* Theorems about JobBook, for any calls, jobs and homeowners. *)
EXTENDS JobBook, TLAPS

LEMMA NextType == TypeOK /\ [Next]_vars => TypeOK'
<1> SUFFICES ASSUME TypeOK, [Next]_vars PROVE TypeOK'
  OBVIOUS
<1> USE DEF States, Wants, Previews, ViaHistory, Cancels, Answers
<1>0. job \in [Jobs -> States]
  BY DEF TypeOK
<1>1. ASSUME NEW c \in Calls, NEW w \in Wants, NEW i \in Jobs \cup {Blank}, Ask(c, w, i)
      PROVE  TypeOK'
  <2>1. (IF i = Blank THEN "none" ELSE job[i]) \in States
    BY JobAssumption DEF TypeOK
  <2>2. CASE Go(c, "list")
    BY <1>1, <2>1, <2>2 DEF TypeOK, Ask, Go
  <2>3. CASE i # Blank /\ Go(c, "load")
    BY <1>1, <2>1, <2>3 DEF TypeOK, Ask, Go
  <2>4. CASE Reply(c, "invalid")
    BY <1>1, <2>1, <2>4 DEF TypeOK, Ask, Reply
  <2> QED
    BY <1>1, <2>2, <2>3, <2>4 DEF Ask, Validate
<1>2. ASSUME NEW c \in Calls, OperatorLists(c) PROVE TypeOK'
  <2>1. JobsOf(who[c]) \in [Jobs -> States]
    BY DEF TypeOK, JobsOf
  <2>2. CASE pc[c] = "list" /\ Go(c, "listed")
    BY <1>2, <2>1, <2>2 DEF TypeOK, OperatorLists, Go, call
  <2>3. CASE pc[c] = "load" /\ Go(c, "loaded")
    BY <1>2, <2>1, <2>3 DEF TypeOK, OperatorLists, Go, call
  <2> QED
    BY <1>2, <2>2, <2>3 DEF OperatorLists
<1>3. ASSUME NEW c \in Calls, NEW a \in Answers \ {"none"}, Reply(c, a), Local(c)
      PROVE  TypeOK'
  BY <1>3 DEF TypeOK, Reply, Local, call
<1>4. ASSUME NEW c \in Calls, Confirm(c) PROVE TypeOK'
  <2>1. CASE id[c] # Blank /\ Go(c, "load")
    <3>1. /\ pc' = [pc EXCEPT ![c] = "load"] /\ pc[c] = "listed" /\ id[c] \in Jobs
          /\ UNCHANGED <<owner, job, want, who, id, before, seen, post, answer>>
      BY <1>4, <2>1 DEF TypeOK, Confirm, Go, Local, call
    <3> QED
      BY <3>1 DEF TypeOK
  <2> QED
    BY <1>3, <1>4, <2>1 DEF Confirm, Validate
<1>5. ASSUME NEW c \in Calls, Rebook(c) PROVE TypeOK'
  BY <1>5 DEF TypeOK, Rebook, Go, Local, call
<1>6. ASSUME NEW c \in Calls, CreateBooking(c) PROVE TypeOK'
  <2>1. job' \in [Jobs -> States]
    BY <1>0, <1>6 DEF CreateBooking
  <2>2. PICK a \in {"created", "failed"} : Reply(c, a)
    BY <1>6 DEF CreateBooking
  <2>3. pc[c] = "create" /\ UNCHANGED <<owner, want, who, id, before, seen, post>>
    BY <1>6 DEF CreateBooking, call
  <2> QED
    BY <2>1, <2>2, <2>3 DEF TypeOK, Reply
<1>7. ASSUME NEW c \in Calls, SendCancellation(c) PROVE TypeOK'
  <2>1. /\ pc' = [pc EXCEPT ![c] = "post"] /\ post' = [post EXCEPT ![c] = "sent"]
        /\ pc[c] = "loaded" /\ id[c] \in Jobs
        /\ UNCHANGED <<owner, job, want, who, id, before, seen, answer>>
    BY <1>7 DEF TypeOK, SendCancellation, Go, call
  <2> QED
    BY <2>1 DEF TypeOK
<1>8. ASSUME NEW c \in Calls, OperatorCancels(c) \/ OperatorRefuses(c) PROVE TypeOK'
  <2>1. job' \in [Jobs -> States]
    BY <1>0, <1>8 DEF OperatorCancels, OperatorRefuses
  <2>2. PICK p \in {"done", "refused", "missing"} : post' = [post EXCEPT ![c] = p]
    BY <1>8 DEF OperatorCancels, OperatorRefuses
  <2>3. post[c] = "sent" /\ UNCHANGED <<owner, want, who, id, before, pc, seen, answer>>
    BY <1>8 DEF OperatorCancels, OperatorRefuses, call
  <2> QED
    BY <2>1, <2>2, <2>3 DEF TypeOK
<1>9. ASSUME NEW j \in Jobs, OperatorChanges(j) PROVE TypeOK'
  BY <1>9 DEF TypeOK, OperatorChanges, call
<1>10. CASE UNCHANGED vars
  BY <1>10 DEF TypeOK, vars, call
<1>11. ASSUME NEW c \in Calls,
              \/ Stop(c) \/ ShowHistory(c) \/ MissInHistory(c) \/ ShowPreview(c)
              \/ Miss(c) \/ ReportStatus(c) \/ RefuseRebooking(c)
              \/ AlreadyCancelled(c) \/ HearCancelled(c) \/ HearMissing(c) \/ HearNothing(c)
       PROVE  TypeOK'
  BY <1>3, <1>11 DEF Stop, ShowHistory, MissInHistory, ShowPreview, Miss, ReportStatus,
                     RefuseRebooking, AlreadyCancelled, HearCancelled, HearMissing, HearNothing, Local
<1> QED
  BY <1>1, <1>2, <1>4, <1>5, <1>6, <1>7, <1>8, <1>9, <1>10, <1>11 DEF Next

LEMMA InitType == Init => TypeOK
BY DEF Init, TypeOK, States, Wants, Previews, Answers

(* The types of the job list's state. *)
THEOREM TypeCorrect == Spec => []TypeOK
BY InitType, NextType, PTL DEF Spec

------------------------------------------------------------------------------
(* A job that was cancelled stays so, one that was made does not vanish. *)
Memory(c) ==
  pc[c] # "idle" /\ id[c] \in Jobs =>
    /\ before[c] = "cancelled" => job[id[c]] = "cancelled"
    /\ before[c] # "none" => job[id[c]] # "none"

(* A list shows the homeowner's own jobs, and no cancellation too early. *)
Sight(c) ==
  \A j \in Jobs : /\ seen[c][j] # "none" => owner[j] = who[c]
                  /\ seen[c][j] = "cancelled" => job[j] = "cancelled"

(* The list a call acts on is younger than the call. *)
Fresh(c) ==
  (pc[c] \in {"loaded", "create", "post"} \/ answer[c] = "status") /\ Own(c) =>
    /\ before[c] = "cancelled" => seen[c][id[c]] = "cancelled"
    /\ before[c] # "none" => seen[c][id[c]] # "none"

(* A call that acts has found the job in its list. *)
Ground(c) ==
  pc[c] \in {"create", "post"} \/ post[c] # "none" \/ answer[c] \in {"cancelled", "status"} =>
    Own(c) /\ seen[c][id[c]] # "none"

(* Which calls come to a point, and what they have done there. *)
Path(c) ==
  /\ pc[c] \in {"list", "listed"} => want[c] \in ViaHistory
  /\ pc[c] = "create" => want[c] = "rebook"
  /\ pc[c] = "post" \/ post[c] # "none" => want[c] \in Cancels /\ before[c] # "cancelled"
  /\ post[c] = "done" \/ answer[c] = "cancelled" => job[id[c]] = "cancelled"

(* How a call may have ended. *)
Ending(c) ==
  /\ want[c] \notin ViaHistory /\ answer[c] = "not found" =>
       \/ ~Own(c) \/ before[c] = "none"
       \/ want[c] = "cancel function" /\ post[c] = "missing"
  /\ want[c] = "cancel function" /\ before[c] = "cancelled" /\ Own(c) =>
       answer[c] \in {"none", "cancelled", "invalid", "error"}

CallInv(c) == Memory(c) /\ Sight(c) /\ Fresh(c) /\ Ground(c) /\ Path(c) /\ Ending(c)

(* What jobs and their owners go through in a step. *)
Grows ==
  /\ owner' = owner
  /\ \A j \in Jobs : /\ job[j] = "cancelled" => job'[j] = "cancelled"
                     /\ job[j] # "none" => job'[j] # "none"

Same(d) ==
  /\ want'[d] = want[d] /\ who'[d] = who[d] /\ id'[d] = id[d] /\ before'[d] = before[d]
  /\ pc'[d] = pc[d] /\ seen'[d] = seen[d] /\ post'[d] = post[d] /\ answer'[d] = answer[d]

LEMMA Frame ==
  ASSUME TypeOK, NEW d \in Calls, CallInv(d), Same(d), Grows
  PROVE  CallInv(d)'
<1>1. Own(d)' <=> Own(d)
  BY DEF Own, Same, Grows
<1>2. Memory(d)' /\ Sight(d)'
  BY DEF CallInv, Memory, Sight, Same, Grows, TypeOK
<1>3. Fresh(d)' /\ Ground(d)'
  BY <1>1 DEF CallInv, Fresh, Ground, Same
<1>4. Path(d)'
  BY DEF CallInv, Ground, Path, Own, Same, Grows
<1>5. Ending(d)'
  BY <1>1 DEF CallInv, Ending, Same
<1> QED
  BY <1>2, <1>3, <1>4, <1>5 DEF CallInv

(* The steps of call c, and of the operator on its behalf. *)
Moves(c) ==
  \/ \E w \in Wants, i \in Jobs \cup {Blank} : Ask(c, w, i)
  \/ OperatorLists(c) \/ Stop(c)
  \/ ShowHistory(c) \/ MissInHistory(c) \/ ShowPreview(c) \/ Confirm(c)
  \/ Miss(c) \/ ReportStatus(c)
  \/ RefuseRebooking(c) \/ Rebook(c) \/ CreateBooking(c)
  \/ AlreadyCancelled(c) \/ SendCancellation(c)
  \/ OperatorCancels(c) \/ OperatorRefuses(c)
  \/ HearCancelled(c) \/ HearMissing(c) \/ HearNothing(c)

LEMMA StepCases ==
  [Next]_vars <=> \/ \E c \in Calls : Moves(c)
                  \/ \E j \in Jobs : OperatorChanges(j)
                  \/ UNCHANGED vars
BY DEF Next, Moves

LEMMA OthersRest ==
  ASSUME TypeOK, NEW c \in Calls, Moves(c), NEW d \in Calls, d # c
  PROVE  Same(d)
<1> USE DEF TypeOK, Same, call
<1>1. CASE \E w \in Wants, i \in Jobs \cup {Blank} : Ask(c, w, i)
  <2>1. PICK w \in Wants, i \in Jobs \cup {Blank} : Ask(c, w, i)
    BY <1>1
  <2>2. Go(c, "list") \/ Go(c, "load") \/ Reply(c, "invalid")
    BY <2>1 DEF Ask, Validate
  <2>3. pc'[d] = pc[d] /\ answer'[d] = answer[d]
    BY <2>2 DEF Go, Reply
  <2> QED
    BY <2>1, <2>3 DEF Ask
<1>2. CASE OperatorLists(c) \/ Rebook(c) \/ SendCancellation(c)
  BY <1>2 DEF OperatorLists, Rebook, SendCancellation, Go, Local
<1>3. CASE Stop(c) \/ ShowHistory(c) \/ MissInHistory(c) \/ ShowPreview(c) \/ Miss(c)
  BY <1>3 DEF Stop, ShowHistory, MissInHistory, ShowPreview, Miss, Reply, Local
<1>4. CASE Confirm(c)
  BY <1>4 DEF Confirm, Validate, Go, Reply, Local
<1>5. CASE ReportStatus(c) \/ RefuseRebooking(c) \/ AlreadyCancelled(c)
  BY <1>5 DEF ReportStatus, RefuseRebooking, AlreadyCancelled, Reply, Local
<1>6. CASE CreateBooking(c)
  BY <1>6 DEF CreateBooking, Reply
<1>7. CASE OperatorCancels(c) \/ OperatorRefuses(c)
  BY <1>7 DEF OperatorCancels, OperatorRefuses
<1>8. CASE HearCancelled(c) \/ HearMissing(c) \/ HearNothing(c)
  BY <1>8 DEF HearCancelled, HearMissing, HearNothing, Reply, Local
<1> QED
  BY <1>1, <1>2, <1>3, <1>4, <1>5, <1>6, <1>7, <1>8 DEF Moves

LEMMA NextGrows == TypeOK /\ [Next]_vars => Grows
<1> SUFFICES ASSUME TypeOK, [Next]_vars PROVE Grows
  OBVIOUS
<1>1. CASE owner' = owner /\ job' = job
  BY <1>1 DEF Grows
<1>2. ASSUME NEW c \in Calls, CreateBooking(c) PROVE Grows
  BY <1>2 DEF CreateBooking, Grows, TypeOK
<1>3. ASSUME NEW c \in Calls, OperatorCancels(c) PROVE Grows
  BY <1>3 DEF OperatorCancels, Grows, TypeOK
<1>4. ASSUME NEW j \in Jobs, OperatorChanges(j) PROVE Grows
  BY <1>4 DEF OperatorChanges, Grows, TypeOK
<1>5. ASSUME NEW c \in Calls, Moves(c), ~CreateBooking(c), ~OperatorCancels(c)
      PROVE  owner' = owner /\ job' = job
  BY <1>5 DEF Moves, Ask, OperatorLists, Stop, ShowHistory, MissInHistory, ShowPreview,
              Confirm, Miss, ReportStatus, RefuseRebooking, Rebook, AlreadyCancelled,
              SendCancellation, OperatorRefuses, HearCancelled, HearMissing, HearNothing, Local
<1> QED
  BY <1>1, <1>2, <1>3, <1>4, <1>5, StepCases DEF vars

------------------------------------------------------------------------------
(* Calls that end with an answer, and change nothing else. *)
LEMMA AnswerCall ==
  ASSUME TypeOK, NEW c \in Calls, NEW a \in Answers \ {"none"}, CallInv(c), Grows,
         pc[c] # "idle", Reply(c, a), Local(c),
         a = "status" => pc[c] = "loaded" /\ Found(c),
         a = "cancelled" => Own(c) /\ seen[c][id[c]] # "none" /\ job[id[c]] = "cancelled",
         a = "not found" => want[c] \in ViaHistory \/ (pc[c] = "loaded" /\ ~Found(c))
                              \/ post[c] = "missing",
         want[c] = "cancel function" /\ before[c] = "cancelled" /\ Own(c) =>
           a \in {"not found", "cancelled", "invalid", "error"}
  PROVE  CallInv(c)'
<1>1. /\ pc'[c] = "done" /\ answer'[c] = a
      /\ UNCHANGED <<owner, job, want, who, id, before, seen, post>>
  BY DEF TypeOK, Reply, Local, call
<1>2. Own(c)' <=> Own(c)
  BY <1>1 DEF Own
<1>3. Memory(c)' /\ Sight(c)'
  BY <1>1 DEF CallInv, Memory, Sight
<1>4. Found(c) => Own(c) /\ id[c] \in Jobs /\ seen[c][id[c]] # "none"
  BY DEF Found, Listed, CallInv, Sight, Own
<1>5. Fresh(c)'
  BY <1>1, <1>2 DEF CallInv, Fresh
<1>6. Ground(c)'
  BY <1>1, <1>2, <1>4 DEF CallInv, Ground
<1>7. Path(c)'
  BY <1>1 DEF CallInv, Path
<1>8. pc[c] = "loaded" /\ ~Found(c) => ~Own(c) \/ before[c] = "none"
  BY DEF CallInv, Fresh, Found, Listed, Own
<1>9. post[c] = "missing" => want[c] \in Cancels /\ before[c] # "cancelled"
  BY DEF CallInv, Path
<1>10. Ending(c)'
  BY <1>1, <1>2, <1>8, <1>9 DEF Cancels, Ending, ViaHistory, Previews, TypeOK, States
<1> QED
  BY <1>3, <1>5, <1>6, <1>7, <1>10 DEF CallInv

LEMMA AnswersKeep ==
  ASSUME TypeOK, NEW c \in Calls, CallInv(c), Grows,
         \/ Stop(c) \/ ShowHistory(c) \/ MissInHistory(c) \/ ShowPreview(c)
         \/ Miss(c) \/ ReportStatus(c) \/ RefuseRebooking(c)
         \/ AlreadyCancelled(c) \/ HearCancelled(c) \/ HearMissing(c) \/ HearNothing(c)
  PROVE  CallInv(c)'
<1> USE DEF Answers, Local, Previews
<1>1. CASE Stop(c)
  BY <1>1, AnswerCall DEF Stop
<1>2. CASE ShowHistory(c)
  BY <1>2, AnswerCall DEF ShowHistory
<1>3. CASE MissInHistory(c)
  <2>1. want[c] \in ViaHistory
    BY <1>3 DEF MissInHistory, CallInv, Path
  <2> QED
    BY <1>3, <2>1, AnswerCall DEF MissInHistory, ViaHistory
<1>4. CASE ShowPreview(c)
  BY <1>4, AnswerCall DEF ShowPreview
<1>5. CASE Miss(c)
  BY <1>5, AnswerCall DEF Miss
<1>6. CASE ReportStatus(c)
  BY <1>6, AnswerCall DEF ReportStatus
<1>7. CASE RefuseRebooking(c)
  BY <1>7, AnswerCall DEF RefuseRebooking
<1>8. CASE AlreadyCancelled(c)
  <2>1. Own(c) /\ seen[c][id[c]] # "none" /\ job[id[c]] = "cancelled"
    BY <1>8 DEF AlreadyCancelled, Found, Listed, Own, CallInv, Sight
  <2> QED
    BY <1>8, <2>1, AnswerCall DEF AlreadyCancelled
<1>9. CASE HearCancelled(c)
  <2>1. Own(c) /\ seen[c][id[c]] # "none" /\ job[id[c]] = "cancelled"
    BY <1>9 DEF HearCancelled, CallInv, Ground, Path
  <2> QED
    BY <1>9, <2>1, AnswerCall DEF HearCancelled
<1>10. CASE HearMissing(c)
  BY <1>10, AnswerCall DEF HearMissing
<1>11. CASE HearNothing(c)
  <2>1. before[c] # "cancelled"
    BY <1>11 DEF HearNothing, CallInv, Path
  <2> QED
    BY <1>11, <2>1, AnswerCall DEF HearNothing
<1> QED
  BY <1>1, <1>2, <1>3, <1>4, <1>5, <1>6, <1>7, <1>8, <1>9, <1>10, <1>11

LEMMA AskKeeps ==
  ASSUME TypeOK, NEW c \in Calls, CallInv(c),
         NEW w \in Wants, NEW i \in Jobs \cup {Blank}, Ask(c, w, i)
  PROVE  CallInv(c)'
<1>1. /\ pc[c] = "idle" /\ answer[c] = "none" /\ post[c] = "none"
      /\ want'[c] = w /\ id'[c] = i
      /\ before'[c] = IF i = Blank THEN "none" ELSE job[i]
      /\ UNCHANGED <<owner, job, who, seen, post>>
  BY DEF TypeOK, Ask
<1>2. \/ pc'[c] = "list" /\ answer'[c] = "none" /\ w \in ViaHistory
      \/ pc'[c] = "load" /\ answer'[c] = "none"
      \/ pc'[c] = "done" /\ answer'[c] = "invalid"
  <2>1. \/ Go(c, "list") /\ w \in ViaHistory
        \/ Go(c, "load") \/ Reply(c, "invalid")
    BY DEF Ask, Validate
  <2> QED
    BY <1>1, <2>1 DEF Go, Reply, TypeOK
<1>3. Memory(c)' /\ Sight(c)'
  BY <1>1, JobAssumption DEF CallInv, Memory, Sight
<1>4. Fresh(c)' /\ Ground(c)' /\ Path(c)' /\ Ending(c)'
  BY <1>1, <1>2 DEF Fresh, Ground, Path, Ending
<1> QED
  BY <1>3, <1>4 DEF CallInv

LEMMA ListKeeps ==
  ASSUME TypeOK, NEW c \in Calls, CallInv(c), OperatorLists(c)
  PROVE  CallInv(c)'
<1>1. /\ pc[c] \in {"list", "load"} /\ answer[c] = "none" /\ post[c] = "none"
      /\ pc'[c] = IF pc[c] = "list" THEN "listed" ELSE "loaded"
      /\ answer'[c] = "none" /\ post'[c] = "none"
      /\ UNCHANGED <<owner, job, want, who, id, before>>
  BY DEF OperatorLists, Go, TypeOK, call
<1>2. seen'[c] = JobsOf(who[c])
  BY DEF OperatorLists, TypeOK
<1>3. \A j \in Jobs : seen'[c][j] = IF owner[j] = who[c] THEN job[j] ELSE "none"
  BY <1>2 DEF JobsOf
<1>4. Memory(c)' /\ Sight(c)'
  BY <1>1, <1>3 DEF CallInv, Memory, Sight
<1>5. Fresh(c)'
  BY <1>1, <1>3 DEF Fresh, Own, CallInv, Memory
<1>6. Ground(c)' /\ Path(c)' /\ Ending(c)'
  BY <1>1 DEF Ground, Path, Ending, CallInv
<1> QED
  BY <1>4, <1>5, <1>6 DEF CallInv

LEMMA SendKeeps ==
  ASSUME TypeOK, NEW c \in Calls, CallInv(c),
         Confirm(c) \/ Rebook(c) \/ SendCancellation(c),
         pc'[c] # "done"
  PROVE  CallInv(c)'
<1>1. /\ UNCHANGED <<owner, job, want, who, id, before, seen>>
      /\ pc[c] \in {"listed", "loaded"} /\ answer[c] = "none" /\ post[c] = "none"
  BY DEF Confirm, Rebook, SendCancellation, Local, call, TypeOK
<1>2. Memory(c)' /\ Sight(c)'
  BY <1>1 DEF CallInv, Memory, Sight
<1>3. CASE Confirm(c)
  <2>1. pc'[c] = "load" /\ answer'[c] = "none" /\ post'[c] = "none"
    <3>1. Go(c, "load")
      BY <1>3 DEF Confirm, Validate, Reply, TypeOK
    <3> QED
      BY <1>1, <1>3, <3>1 DEF Confirm, Go, Local, TypeOK
  <2> QED
    BY <1>1, <1>2, <2>1 DEF CallInv, Fresh, Ground, Path, Ending
<1>4. Found(c) => Own(c) /\ id[c] \in Jobs /\ seen[c][id[c]] # "none"
  BY DEF Found, Listed, CallInv, Sight, Own
<1>5. Own(c)' <=> Own(c)
  BY <1>1 DEF Own
<1>6. CASE Rebook(c)
  <2>1. /\ pc[c] = "loaded" /\ want[c] = "rebook" /\ Found(c)
        /\ pc'[c] = "create" /\ answer'[c] = "none" /\ post'[c] = "none"
    BY <1>1, <1>6 DEF Rebook, Go, Local, TypeOK
  <2> QED
    BY <1>1, <1>2, <1>4, <1>5, <2>1 DEF CallInv, Fresh, Ground, Path, Ending
<1>7. CASE SendCancellation(c)
  <2>1. /\ pc[c] = "loaded" /\ want[c] \in Cancels /\ Found(c)
        /\ seen[c][id[c]] = "open"
        /\ pc'[c] = "post" /\ answer'[c] = "none" /\ post'[c] = "sent"
    BY <1>1, <1>7 DEF SendCancellation, Go, TypeOK
  <2>2. before[c] # "cancelled"
    BY <1>4, <2>1 DEF CallInv, Fresh
  <2> QED
    BY <1>1, <1>2, <1>4, <1>5, <2>1, <2>2 DEF CallInv, Fresh, Ground, Path, Ending
<1> QED
  BY <1>3, <1>6, <1>7

LEMMA CreateKeeps ==
  ASSUME TypeOK, NEW c \in Calls, CallInv(c), Grows, CreateBooking(c)
  PROVE  CallInv(c)'
<1>1. PICK a \in {"created", "failed"} : Reply(c, a)
  BY DEF CreateBooking
<1>2. /\ pc[c] = "create" /\ pc'[c] = "done" /\ answer'[c] = a /\ post[c] = "none"
      /\ UNCHANGED <<owner, want, who, id, before, seen, post>>
  BY <1>1 DEF CreateBooking, Reply, call, TypeOK
<1>3. Memory(c)' /\ Sight(c)'
  BY <1>2 DEF CallInv, Memory, Sight, Grows
<1>4. want[c] = "rebook"
  BY <1>2 DEF CallInv, Path
<1> QED
  BY <1>1, <1>2, <1>3, <1>4 DEF CallInv, Fresh, Ground, Path, Ending

LEMMA OperatorKeeps ==
  ASSUME TypeOK, NEW c \in Calls, CallInv(c), Grows, OperatorCancels(c) \/ OperatorRefuses(c)
  PROVE  CallInv(c)'
<1>1. /\ post[c] = "sent" /\ post'[c] \in {"done", "refused", "missing"}
      /\ UNCHANGED <<owner, want, who, id, before, seen, pc, answer>>
  BY DEF OperatorCancels, OperatorRefuses, call, TypeOK
<1>2. id[c] \in Jobs
  BY <1>1 DEF TypeOK
<1>3. post'[c] = "done" => job'[id[c]] = "cancelled"
  BY <1>1, <1>2 DEF OperatorCancels, OperatorRefuses, TypeOK
<1>4. Own(c)' <=> Own(c)
  BY <1>1 DEF Own
<1>5. Memory(c)' /\ Sight(c)'
  BY <1>1 DEF CallInv, Memory, Sight, Grows
<1>6. Fresh(c)' /\ Ground(c)' /\ Ending(c)'
  BY <1>1, <1>4 DEF CallInv, Fresh, Ground, Ending
<1>7. Path(c)'
  BY <1>1, <1>2, <1>3 DEF CallInv, Path, Grows
<1> QED
  BY <1>5, <1>6, <1>7 DEF CallInv

------------------------------------------------------------------------------
IInv == \A c \in Calls : CallInv(c)

LEMMA NextInv == TypeOK /\ IInv /\ [Next]_vars => IInv'
<1> SUFFICES ASSUME TypeOK, IInv, [Next]_vars, NEW d \in Calls PROVE CallInv(d)'
  BY DEF IInv
<1>1. Grows /\ TypeOK' /\ CallInv(d)
  BY NextGrows, NextType DEF IInv
<1>2. ASSUME Same(d) PROVE CallInv(d)'
  BY <1>1, <1>2, Frame
<1>3. ASSUME NEW c \in Calls, Moves(c), d # c PROVE CallInv(d)'
  BY <1>2, <1>3, OthersRest
<1>4. CASE Moves(d)
  <2>1. ASSUME pc'[d] = "done", Confirm(d) PROVE CallInv(d)'
    <3>1. Reply(d, "invalid") /\ Local(d) /\ pc[d] = "listed"
      BY <1>4, <2>1 DEF Confirm, Validate, Go, TypeOK
    <3> QED
      BY <1>1, <3>1, AnswerCall DEF Answers
  <2>2. ASSUME pc'[d] = "done" PROVE ~Rebook(d) /\ ~SendCancellation(d)
    BY <2>2 DEF Rebook, SendCancellation, Go, TypeOK
  <2> QED
    BY <1>1, <1>4, <2>1, <2>2, AnswersKeep, AskKeeps, ListKeeps, SendKeeps, CreateKeeps,
       OperatorKeeps DEF Moves
<1>5. CASE (\E j \in Jobs : OperatorChanges(j)) \/ UNCHANGED vars
  BY <1>2, <1>5 DEF OperatorChanges, vars, call, Same
<1> QED
  BY <1>3, <1>4, <1>5, StepCases

LEMMA InitInv == Init => IInv
BY DEF Init, IInv, CallInv, Memory, Sight, Fresh, Ground, Path, Ending, Own

(* The invariant of every call. *)
THEOREM Inductive == Spec => [](TypeOK /\ IInv)
<1>1. Init => TypeOK /\ IInv
  BY InitType, InitInv
<1>2. TypeOK /\ IInv /\ [Next]_vars => TypeOK' /\ IInv'
  BY NextType, NextInv
<1> QED
  BY <1>1, <1>2, PTL DEF Spec

(* Whoever is told "cancelled" has a cancelled booking. *)
THEOREM CancellationsAreTrue == Spec => []CancelledIsTrue
<1>1. TypeOK /\ IInv => CancelledIsTrue
  BY DEF IInv, CallInv, Ground, Path, CancelledIsTrue
<1> QED
  BY <1>1, Inductive, PTL

(* A retry of a cancellation that took effect sends nothing and says so. *)
THEOREM RetriesSettle == Spec => []RetrySettles
<1>1. TypeOK /\ IInv => RetrySettles
  BY DEF TypeOK, IInv, CallInv, Path, Ending, RetrySettles
<1> QED
  BY <1>1, Inductive, PTL

(* A status is one the job had during the call. *)
THEOREM StatusesAreCurrent == Spec => []StatusIsCurrent
<1>1. TypeOK /\ IInv => StatusIsCurrent
  BY DEF TypeOK, States, Own, IInv, CallInv, Sight, Fresh, Ground, Between, StatusIsCurrent
<1> QED
  BY <1>1, Inductive, PTL

(* Only the caller's own jobs are cancelled or booked again. *)
THEOREM OnlyOwnJobs == Spec => []OwnJobsOnly
<1>1. TypeOK /\ IInv => OwnJobsOnly
  BY DEF IInv, CallInv, Ground, OwnJobsOnly
<1> QED
  BY <1>1, Inductive, PTL

(* Only what the caller did not have is called missing, unless the operator  *)
(* says so itself.                                                           *)
THEOREM MissingIsMissing == Spec => []NotFoundIsTrue
<1>1. TypeOK /\ IInv => NotFoundIsTrue
  BY DEF IInv, CallInv, Ending, NotFoundIsTrue
<1> QED
  BY <1>1, Inductive, PTL

------------------------------------------------------------------------------
(* A call of the two tools that look the job up in the history.              *)
ByHistory(c) == want[c] \in Previews \cup {"cancel"}

(* Such a call gets no further than the history, where only the empty id is  *)
(* found.                                                                    *)
Lost(c) ==
  ByHistory(c) =>
    /\ pc[c] \in {"idle", "list", "listed", "done"}
    /\ post[c] = "none"
    /\ answer[c] \in {"none", "not found", "invalid", "error", "preview"}
    /\ answer[c] = "preview" => id[c] = Blank /\ want[c] \in Previews

LostInv == \A c \in Calls : Lost(c)

LEMMA LostSame == ASSUME NEW d \in Calls, Lost(d), Same(d) PROVE Lost(d)'
BY DEF Lost, ByHistory, Same

LEMMA AnswerLost ==
  ASSUME TypeOK, NEW c \in Calls, NEW a \in Answers, Lost(c), Reply(c, a), Local(c),
         ByHistory(c) => a \in {"not found", "invalid", "error"}
                         \/ (a = "preview" /\ id[c] = Blank /\ want[c] \in Previews)
  PROVE  Lost(c)'
<1>1. /\ pc'[c] = "done" /\ answer'[c] = a
      /\ UNCHANGED <<want, id, post>>
  BY DEF TypeOK, Reply, Local, call
<1> QED
  BY <1>1 DEF Lost, ByHistory

LEMMA MoveLost ==
  ASSUME TypeOK, NEW c \in Calls, Lost(c), Moves(c)
  PROVE  Lost(c)'
<1>1. InHistory(c) => id[c] = Blank
  BY DEF InHistory, PreviousId
<1>2. CASE \E w \in Wants, i \in Jobs \cup {Blank} : Ask(c, w, i)
  <2>1. PICK w \in Wants, i \in Jobs \cup {Blank} : Ask(c, w, i)
    BY <1>2
  <2>2. /\ want'[c] = w /\ post'[c] = "none" /\ answer[c] = "none"
        /\ pc[c] = "idle"
    BY <2>1 DEF Ask, TypeOK
  <2>3. w \in Previews \cup {"cancel"} => Go(c, "list")
    BY <2>1 DEF Ask, ViaHistory
  <2>4. w \in Previews \cup {"cancel"} => pc'[c] = "list" /\ answer'[c] = "none"
    BY <2>2, <2>3 DEF Go, TypeOK
  <2> QED
    BY <2>2, <2>4 DEF Lost, ByHistory
<1>3. CASE OperatorLists(c)
  BY <1>3 DEF OperatorLists, Go, TypeOK, Lost, ByHistory, call
<1>4. CASE Stop(c) \/ ShowHistory(c) \/ MissInHistory(c) \/ ShowPreview(c)
  BY <1>1, <1>4, AnswerLost DEF Stop, ShowHistory, MissInHistory, ShowPreview, Local, ByHistory,
                                Answers, Previews
<1>5. CASE Confirm(c)
  <2>1. Reply(c, "invalid") /\ Local(c)
    BY <1>1, <1>5 DEF Confirm, Validate
  <2> QED
    BY <2>1, AnswerLost DEF Answers
<1>6. ASSUME ~ByHistory(c), UNCHANGED want PROVE Lost(c)'
  BY <1>6 DEF Lost, ByHistory
<1>7. CASE \/ Miss(c) \/ ReportStatus(c) \/ RefuseRebooking(c) \/ Rebook(c)
          \/ CreateBooking(c) \/ AlreadyCancelled(c) \/ SendCancellation(c)
          \/ OperatorCancels(c) \/ OperatorRefuses(c) \/ HearCancelled(c) \/ HearMissing(c) \/ HearNothing(c)
  <2>1. UNCHANGED want
    BY <1>7 DEF Miss, ReportStatus, RefuseRebooking, Rebook, CreateBooking, AlreadyCancelled,
                SendCancellation, OperatorCancels, OperatorRefuses, HearCancelled,
                HearMissing, HearNothing, Local, call
  <2>2. pc[c] \in {"loaded", "create", "post"} \/ post[c] = "sent"
    BY <1>7 DEF Miss, ReportStatus, RefuseRebooking, Rebook, CreateBooking, AlreadyCancelled,
                SendCancellation, OperatorCancels, OperatorRefuses, HearCancelled,
                HearMissing, HearNothing
  <2> QED
    BY <1>6, <2>1, <2>2 DEF Lost
<1> QED
  BY <1>2, <1>3, <1>4, <1>5, <1>7 DEF Moves

(* The history names no booking, in any instance: the tool cancel_booking    *)
(* cancels nothing and reports nothing cancelled, and no job that is named   *)
(* is previewed, neither to be cancelled nor to be booked again.  All these  *)
(* calls end with "not found", a complaint about their input or an error.    *)
NothingByHistory ==
  \A c \in Calls : ByHistory(c) =>
    /\ post[c] = "none"
    /\ id[c] # Blank => answer[c] \in {"none", "not found", "invalid", "error"}

THEOREM HistoryNamesNothing == Spec => []NothingByHistory
<1>1. Init => LostInv
  BY DEF Init, LostInv, Lost, ByHistory, Previews
<1>2. TypeOK /\ LostInv /\ [Next]_vars => LostInv'
  <2> SUFFICES ASSUME TypeOK, LostInv, [Next]_vars, NEW d \in Calls PROVE Lost(d)'
    BY DEF LostInv
  <2>1. Lost(d)
    BY DEF LostInv
  <2>2. ASSUME NEW c \in Calls, Moves(c) PROVE Lost(d)'
    BY <2>1, <2>2, OthersRest, LostSame, MoveLost
  <2>3. CASE (\E j \in Jobs : OperatorChanges(j)) \/ UNCHANGED vars
    BY <2>1, <2>3, LostSame DEF OperatorChanges, vars, call, Same
  <2> QED
    BY <2>2, <2>3, StepCases
<1>3. LostInv => NothingByHistory
  BY DEF LostInv, Lost, NothingByHistory
<1> QED
  BY <1>1, <1>2, <1>3, TypeCorrect, PTL DEF Spec
=============================================================================
