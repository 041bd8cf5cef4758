-------------------------- MODULE RfpDeliveryProofs --------------------------
(***************************************************************************)
(* Theorems about RfpDelivery, for any items, sources, workers, executions *)
(* and bounds: typing, the safety properties from one inductive invariant, *)
(* and that RfpDelivery implements LeadLifecycle.                          *)
(***************************************************************************)
EXTENDS RfpDelivery, FiniteSetTheorems, TLAPS

-----------------------------------------------------------------------------
(***************************************************************************)
(* Typing.                                                                 *)
(***************************************************************************)
LEMMA InitTypeOK == Init => TypeOK
  BY NoneIsNothing, NoneIsNoWorker, WorkerBounds
     DEF Init, StoreInit, WorkerInit, WorkflowInit, TypeOK, StoreTypeOK,
         WorkerTypeOK, WorkflowTypeOK, Status, Steps, Stages, NoRows, Fates,
         History

LEMMA UnwindType ==
  ASSUME NEW w \in Workers, WorkerTypeOK, Unwind(w), crashes' \in 0 .. MaxCrashes
  PROVE  WorkerTypeOK'
  BY DEF WorkerTypeOK, Unwind, Steps, NoRows, Fates, History

LEMMA CommittedType ==
  ASSUME NEW w \in Workers, StoreTypeOK, WorkerTypeOK
  PROVE  Committed(w) \in [Items -> Status]
  BY DEF StoreTypeOK, WorkerTypeOK, Committed, Status, Live, History

LEMMA PostedType ==
  ASSUME NEW i, StoreTypeOK, Posted(i)
  PROVE  posts' \in [Items -> Nat] /\ webhook' \in [Items -> Nat]
<1>1. \A f \in [Items -> Nat] : [f EXCEPT ![i] = @ + 1] \in [Items -> Nat]
  <2>1. CASE i \in Items
    BY <2>1
  <2>2. CASE i \notin Items
    BY <2>2
  <2> QED
    BY <2>1, <2>2
<1> QED
  BY <1>1 DEF StoreTypeOK, Posted

LEMMA AttemptedType ==
  ASSUME NEW i, StoreTypeOK, Attempted(i)
  PROVE  attempts' \in [Items -> Nat] /\ due' \in [Items -> BOOLEAN]
<1>1. CASE i \in Items
  BY <1>1 DEF StoreTypeOK, Attempted
<1>2. CASE i \notin Items
  BY <1>2 DEF StoreTypeOK, Attempted
<1> QED
  BY <1>1, <1>2

LEMMA FateType == \A i : Fate(i) \in Fates
  BY DEF Fate, Fates

LEMMA StepTypeOK == TypeOK /\ [Next]_vars => TypeOK'
<1> SUFFICES ASSUME TypeOK, [Next]_vars PROVE TypeOK'
  OBVIOUS
<1> USE DEF TypeOK
<1>1. CASE WorkerNext /\ UNCHANGED workflowVars
  <2>0. WorkflowTypeOK'
    BY <1>1 DEF workflowVars, WorkflowTypeOK
  <2> SUFFICES StoreTypeOK' /\ WorkerTypeOK'
    BY <2>0
  <2>1. ASSUME NEW w \in Workers, NEW seed \in BOOLEAN, Start(w, seed)
        PROVE  StoreTypeOK' /\ WorkerTypeOK'
    BY <2>1 DEF Start, At, Goto, storeVars, StoreTypeOK, WorkerTypeOK, Steps
  <2>2. ASSUME NEW w \in Workers, NEW s \in Sources, BeginSource(w, s)
        PROVE  StoreTypeOK' /\ WorkerTypeOK'
    <3>1. Seeds(w, s) \in BOOLEAN
      BY DEF Seeds, StoreTypeOK, WorkerTypeOK
    <3> QED
      BY <2>2, <3>1 DEF BeginSource, At, Goto, storeVars, StoreTypeOK, WorkerTypeOK, Steps
  <2>3. ASSUME NEW w \in Workers, EndSources(w)
        PROVE  StoreTypeOK' /\ WorkerTypeOK'
    BY <2>3 DEF EndSources, At, Goto, storeVars, StoreTypeOK, WorkerTypeOK, Steps
  <2>4. ASSUME NEW w \in Workers, NEW i \in Items, Record(w, i)
        PROVE  StoreTypeOK' /\ WorkerTypeOK'
    <3>1. StoreTypeOK'
      BY <2>4 DEF Record, storeVars, StoreTypeOK
    <3>2. PICK st \in RecordStatus(w) :
            /\ open' = [open EXCEPT ![w][i] = st]
            /\ batch' = [batch EXCEPT
                           ![w] = IF ToDeliver(st) THEN @ \union {i} ELSE @]
      BY <2>4 DEF Record
    <3>3. st \in {"none", "pending"} \union History
      BY DEF RecordStatus, History
    <3>4. open' \in [Workers -> [Items -> {"none", "pending"} \union History]]
      BY <3>2, <3>3 DEF WorkerTypeOK
    <3>5. batch' \in [Workers -> SUBSET Items]
      BY <3>2 DEF WorkerTypeOK
    <3> QED
      BY <2>4, <3>1, <3>4, <3>5 DEF Record, WorkerTypeOK
  <2>5. ASSUME NEW w \in Workers,
               FetcherRequest(w) \/ SourceFails(w) \/ FetchDone(w)
        PROVE  StoreTypeOK' /\ WorkerTypeOK'
    <3>1. status' = Committed(w) /\ Committed(w) \in [Items -> Status]
      BY <2>5, CommittedType DEF FetcherRequest, SourceFails, FetchDone
    <3>2. StoreTypeOK'
      BY <2>5, <3>1 DEF FetcherRequest, SourceFails, FetchDone, StoreTypeOK
    <3>3. open' \in [Workers -> [Items -> {"none", "pending"} \union History]]
      <4>1. NoRows \in [Items -> {"none", "pending"} \union History]
        BY DEF NoRows
      <4>2. open' = [open EXCEPT ![w] = NoRows]
        BY <2>5 DEF FetcherRequest, SourceFails, FetchDone
      <4> QED
        BY <4>1, <4>2 DEF WorkerTypeOK
    <3>4. CASE FetcherRequest(w)
      BY <3>2, <3>3, <3>4 DEF FetcherRequest, WorkerTypeOK
    <3>5. CASE SourceFails(w)
      BY <3>2, <3>3, <3>5 DEF SourceFails, Goto, WorkerTypeOK, Steps
    <3>6. CASE FetchDone(w)
      BY <3>2, <3>3, <3>6 DEF FetchDone, Goto, WorkerTypeOK, Steps
    <3> QED
      BY <2>5, <3>4, <3>5, <3>6
  <2>6. ASSUME NEW w \in Workers, SourceDone(w)
        PROVE  StoreTypeOK' /\ WorkerTypeOK'
    BY <2>6 DEF SourceDone, Goto, StoreTypeOK, WorkerTypeOK, Steps
  <2>7. ASSUME NEW w \in Workers, NEW i \in Items, RecordPayload(w, i)
        PROVE  StoreTypeOK' /\ WorkerTypeOK'
    BY <2>7 DEF RecordPayload, Goto, StoreTypeOK, WorkerTypeOK, Steps
  <2>8. ASSUME NEW w \in Workers, Post(w)
        PROVE  StoreTypeOK' /\ WorkerTypeOK'
    BY <2>8, PostedType DEF Post, Goto, StoreTypeOK, WorkerTypeOK, Steps
  <2>9. ASSUME NEW w \in Workers, Count(w) \/ Recount(w)
        PROVE  StoreTypeOK' /\ WorkerTypeOK'
    BY ZenonT(40), <2>9, AttemptedType DEF Count, Recount, Goto, StoreTypeOK, WorkerTypeOK, Steps
  <2>10. ASSUME NEW w \in Workers, Select(w)
         PROVE  StoreTypeOK' /\ WorkerTypeOK'
    <3>1. plan' \in [Workers -> [Items -> Fates]]
      BY <2>10, FateType DEF Select, WorkerTypeOK, Fates
    <3> QED
      BY <2>10, <3>1 DEF Select, Goto, storeVars, StoreTypeOK, WorkerTypeOK, Steps
  <2>11. ASSUME NEW w \in Workers, NEW i \in Items,
                GiveUp(w, i) \/ LeavePending(w, i)
         PROVE  StoreTypeOK' /\ WorkerTypeOK'
    <3>1. plan' \in [Workers -> [Items -> Fates]]
      <4>1. plan' = [plan EXCEPT ![w][i] = "none"]
        BY <2>11 DEF GiveUp, LeavePending
      <4> QED
        BY <4>1 DEF WorkerTypeOK, Fates
    <3>2. status' \in [Items -> Status]
      BY <2>11 DEF GiveUp, LeavePending, storeVars, StoreTypeOK, Status, Live
    <3> QED
      BY <2>11, <3>1, <3>2 DEF GiveUp, LeavePending, storeVars, StoreTypeOK, WorkerTypeOK
  <2>12. ASSUME NEW w \in Workers, NEW i \in Items, Resend(w, i)
         PROVE  StoreTypeOK' /\ WorkerTypeOK'
    <3>1. plan' \in [Workers -> [Items -> Fates]]
      BY <2>12 DEF Resend, WorkerTypeOK, Fates
    <3> QED
      BY <2>12, <3>1, PostedType DEF Resend, Goto, StoreTypeOK, WorkerTypeOK, Steps
  <2>13. ASSUME NEW w \in Workers, EndSweep(w)
         PROVE  StoreTypeOK' /\ WorkerTypeOK'
    BY <2>13 DEF EndSweep, Goto, storeVars, StoreTypeOK, WorkerTypeOK, Steps
  <2>14. ASSUME NEW w \in Workers, Prune(w)
         PROVE  StoreTypeOK' /\ WorkerTypeOK'
    BY <2>14 DEF Prune, Goto, StoreTypeOK, WorkerTypeOK, Steps
  <2>15. ASSUME NEW w \in Workers, Finish(w) \/ Crash(w)
         PROVE  StoreTypeOK' /\ WorkerTypeOK'
    <3>1. Unwind(w) /\ crashes' \in 0 .. MaxCrashes
      BY <2>15, WorkerBounds DEF Finish, Crash, WorkerTypeOK
    <3>2. StoreTypeOK'
      BY <2>15 DEF Finish, Crash, storeVars, StoreTypeOK
    <3> QED
      BY <3>1, <3>2, UnwindType
  <2>16. ASSUME NEW w \in Workers, Abort(w)
         PROVE  StoreTypeOK' /\ WorkerTypeOK'
    <3>1. Unwind(w) /\ crashes' \in 0 .. MaxCrashes
      BY <2>16, WorkerBounds DEF Abort, WorkerTypeOK
    <3>2. StoreTypeOK'
      BY <2>16, CommittedType DEF Abort, StoreTypeOK
    <3> QED
      BY <3>1, <3>2, UnwindType
  <2> QED
    BY <1>1, <2>1, <2>2, <2>3, <2>4, <2>5, <2>6, <2>7, <2>8, <2>9, <2>10,
       <2>11, <2>12, <2>13, <2>14, <2>15, <2>16
       DEF WorkerNext, RunStep, FetchStep, DeliverStep, SweepStep
<1>2. CASE WorkflowNext /\ UNCHANGED workerVars
  <2>0. WorkerTypeOK'
    BY <1>2 DEF workerVars, WorkerTypeOK
  <2> SUFFICES StoreTypeOK' /\ WorkflowTypeOK'
    BY <2>0
  <2>1. ASSUME NEW e \in Executions, NEW i \in Items, Begin(e, i)
        PROVE  StoreTypeOK' /\ WorkflowTypeOK'
    BY <2>1 DEF Begin, Taken, StoreTypeOK, WorkflowTypeOK, Stages
  <2>2. ASSUME NEW e \in Executions, Classify(e) \/ CreateLead(e) \/ Fail(e)
        PROVE  StoreTypeOK' /\ WorkflowTypeOK'
    BY <2>2 DEF Classify, CreateLead, Fail, End, storeVars, StoreTypeOK,
                WorkflowTypeOK, Stages
  <2>3. ASSUME NEW e \in Executions, MarkDone(e) \/ MarkHandled(e)
        PROVE  StoreTypeOK' /\ WorkflowTypeOK'
    BY <2>3 DEF MarkDone, MarkHandled, End, StoreTypeOK, WorkflowTypeOK,
                Stages, Status, Live
  <2> QED
    BY <1>2, <2>1, <2>2, <2>3 DEF WorkflowNext
<1>3. CASE Tick /\ UNCHANGED <<workerVars, workflowVars>>
  <2>1. WorkerTypeOK' /\ WorkflowTypeOK'
    BY <1>3 DEF workerVars, workflowVars, WorkerTypeOK, WorkflowTypeOK
  <2>2. ASSUME NEW i \in Items, RetryWindowEnds(i) PROVE StoreTypeOK'
    BY <2>2 DEF RetryWindowEnds, StoreTypeOK
  <2>3. ASSUME NEW i \in Items, ItemAges(i) PROVE StoreTypeOK'
    BY <2>3 DEF ItemAges, StoreTypeOK
  <2>4. ASSUME NEW i \in Items, PayloadAges(i) PROVE StoreTypeOK'
    BY <2>4 DEF PayloadAges, StoreTypeOK
  <2> QED
    BY <1>3, <2>1, <2>2, <2>3, <2>4 DEF Tick
<1>4. CASE UNCHANGED vars
  BY <1>4 DEF vars, StoreTypeOK, WorkerTypeOK, WorkflowTypeOK
<1> QED
  BY <1>1, <1>2, <1>3, <1>4 DEF Next

(***************************************************************************)
(* Every row, worker and execution keeps its type, whatever overlaps.      *)
(***************************************************************************)
THEOREM TypeCorrect == Spec => []TypeOK
  BY InitTypeOK, StepTypeOK, PTL DEF Spec

-----------------------------------------------------------------------------
(***************************************************************************)
(* The inductive invariant.  The safety properties are not inductive: that *)
(* attempts stay within MaxAttempts rests on what the sweep SELECTed being *)
(* still true when it counts, that on there being one run at a time, and   *)
(* that on the lock.                                                       *)
(***************************************************************************)
Posting   == {"post", "count", "recount"}   \* holding an item to send
Uncounted == {"count", "recount"}           \* sent, not counted

\* The lock's holder is the one worker inside a run.
LockSound == \A w \in Workers : pc[w] # "idle" <=> lock = w

\* An open transaction belongs to a fetch and holds only new rows.
OpenSound ==
    \A w \in Workers : \A i \in Items :
        open[w][i] # "none" => /\ pc[w] = "fetch"
                               /\ status[i] = "none"
                               /\ SourceOf[i] = source[w]
                               /\ open[w][i] = "pending" => ~seeding[w]

\* What is to be delivered has been recorded and never sent.
BatchSound ==
    \A w \in Workers : \A i \in Items :
        i \in batch[w] => /\ pc[w] \in {"fetch", "deliver", "post", "count"}
                          /\ status[i] \in Live \/ open[w][i] = "pending"
                          /\ attempts[i] = 0
                          /\ posts[i] = 0
                          /\ item[w] # i

\* The item in hand may still be counted.
ItemSound ==
    \A w \in Workers :
        /\ pc[w] \in Posting =>
             /\ item[w] \in Items
             /\ status[item[w]] \in Live
             /\ attempts[item[w]] < MaxAttempts
        /\ pc[w] \notin Posting => item[w] = None

\* A row's fate was decided on attempts nobody has counted since.
PlanSound ==
    \A w \in Workers : \A i \in Items :
        plan[w][i] # "none" =>
            /\ pc[w] \in {"sweep", "recount"}
            /\ status[i] \in Live
            /\ item[w] # i
            /\ plan[w][i] = "resend" => attempts[i] < MaxAttempts

\* Only live rows were ever sent or counted.
SentSound ==
    \A i \in Items :
        /\ attempts[i] > 0 \/ posts[i] > 0 => status[i] \in Live
        /\ webhook[i] > 0 => posts[i] > 0

InHand(i) == \E w \in Workers : pc[w] \in Uncounted /\ item[w] = i

\* Every POST is counted, in hand, or lost with a run.
CountSound ==
    \A i \in Items :
        posts[i] <= attempts[i] + crashes + (IF InHand(i) THEN 1 ELSE 0)

\* An execution is about an item that was sent; its alert follows its lead.
ExecutionSound ==
    \A e \in Executions :
        /\ stage[e] # "free" <=> subject[e] \in Items
        /\ subject[e] \in Items => posts[subject[e]] > 0
        /\ stage[e] = "alert" => leads[subject[e]] > 0

\* A normal fetch belongs to a source past its backfill.
SourceSound ==
    \A w \in Workers :
        /\ pc[w] = "fetch" => source[w] \in Sources
        /\ pc[w] = "fetch" /\ ~seeding[w] => backfilled_at[source[w]]

IInv ==
    /\ TypeOK
    /\ LockSound
    /\ OpenSound
    /\ BatchSound
    /\ ItemSound
    /\ PlanSound
    /\ SentSound
    /\ CountSound
    /\ ExecutionSound
    /\ SourceSound
    /\ AttemptsBounded
    /\ DeliveredHasLead
    /\ LiveOnlyAfterBackfill

(***************************************************************************)
(* While w runs, every other worker is idle and holds nothing.             *)
(***************************************************************************)
Holds(v) ==
    \/ item[v] # None
    \/ \E i \in Items :
         open[v][i] # "none" \/ plan[v][i] # "none" \/ i \in batch[v]

Alone(w) ==
    /\ lock = w
    /\ \A v \in Workers \ {w} : pc[v] = "idle" /\ ~Holds(v)

AllIdle == \A v \in Workers : pc[v] = "idle" /\ ~Holds(v)

LEMMA IdleHoldsNothing ==
  ASSUME IInv, NEW v \in Workers, pc[v] = "idle"
  PROVE  ~Holds(v)
  BY DEF IInv, OpenSound, BatchSound, PlanSound, ItemSound, Posting, Holds

LEMMA SoloRun ==
  ASSUME IInv, NEW w \in Workers, pc[w] # "idle"
  PROVE  Alone(w)
  BY IdleHoldsNothing DEF IInv, LockSound, Alone

LEMMA FreeLock ==
  ASSUME IInv, lock = None
  PROVE  AllIdle
  BY IdleHoldsNothing, NoneIsNoWorker DEF IInv, LockSound, AllIdle

LEMMA EmptyHand ==
  ASSUME IInv, NEW w \in Workers, pc[w] \notin Posting
  PROVE  \A j \in Items : item[w] # j
  BY NoneIsNothing DEF IInv, ItemSound

LEMMA InitIInv == Init => IInv
<1> SUFFICES ASSUME Init PROVE IInv
  OBVIOUS
<1>1. TypeOK
  BY InitTypeOK
<1>2. LockSound /\ OpenSound /\ BatchSound /\ ItemSound /\ PlanSound
  BY NoneIsNoWorker DEF Init, WorkerInit, LockSound, OpenSound, BatchSound,
     ItemSound, PlanSound, Posting, NoRows
<1>3. SentSound /\ CountSound /\ AttemptsBounded
  BY MaxAttemptsPos DEF Init, StoreInit, WorkerInit, SentSound, CountSound,
     AttemptsBounded, InHand, Uncounted
<1>4. ExecutionSound /\ SourceSound
  BY NoneIsNothing DEF Init, WorkerInit, WorkflowInit, ExecutionSound,
     SourceSound
<1>5. DeliveredHasLead /\ LiveOnlyAfterBackfill
  BY DEF Init, StoreInit, DeliveredHasLead, LiveOnlyAfterBackfill, Live
<1> QED
  BY <1>1, <1>2, <1>3, <1>4, <1>5 DEF IInv

-----------------------------------------------------------------------------
(***************************************************************************)
(* What the helpers of the actions do to the invariant.                    *)
(***************************************************************************)

\* A commit turns w's open rows into rows, and no other row changes.
CommitsAs(w, j) ==
    \/ open[w][j] = "none" /\ status'[j] = status[j]
    \/ /\ open[w][j] # "none"
       /\ status[j] = "none"
       /\ status'[j] = open[w][j]

PostedOnce(i) ==
    /\ \A j \in Items : posts'[j] = IF j = i THEN posts[j] + 1 ELSE posts[j]
    /\ \A j \in Items : webhook'[j] > 0 => webhook[j] > 0 \/ j = i

AttemptedOnce(i) ==
    \A j \in Items : attempts'[j] = IF j = i THEN attempts[j] + 1 ELSE attempts[j]

LEMMA PostedIsOnce ==
  ASSUME StoreTypeOK, NEW i \in Items, Posted(i)
  PROVE  PostedOnce(i)
  BY DEF StoreTypeOK, Posted, PostedOnce

LEMMA AttemptedIsOnce ==
  ASSUME StoreTypeOK, NEW i \in Items, Attempted(i)
  PROVE  AttemptedOnce(i)
  BY DEF StoreTypeOK, Attempted, AttemptedOnce

LEMMA CommitKeeps ==
  ASSUME IInv, NEW w \in Workers, status' = Committed(w),
         UNCHANGED <<attempts, posts, webhook, backfilled_at>>
  PROVE  /\ \A j \in Items : CommitsAs(w, j)
         /\ SentSound' /\ LiveOnlyAfterBackfill'
<1>1. \A j \in Items : CommitsAs(w, j)
  BY DEF IInv, OpenSound, Committed, CommitsAs
<1>2. \A j \in Items : status[j] \in Live => status'[j] \in Live
  BY <1>1 DEF CommitsAs, Live
<1>3. SentSound'
  BY <1>2 DEF IInv, SentSound
<1>4. ASSUME NEW j \in Items, status'[j] \in Live
      PROVE  backfilled_at[SourceOf[j]]
  <2>1. CASE open[w][j] = "none"
    BY <1>1, <1>4, <2>1 DEF IInv, CommitsAs, LiveOnlyAfterBackfill
  <2>2. CASE open[w][j] # "none"
    <3>1. open[w][j] = "pending"
      BY <1>1, <1>4, <2>2
         DEF IInv, TypeOK, WorkerTypeOK, CommitsAs, Live, History
    <3> QED
      BY <2>2, <3>1 DEF IInv, OpenSound, SourceSound
  <2> QED
    BY <2>1, <2>2
<1> QED
  BY <1>1, <1>3, <1>4 DEF LiveOnlyAfterBackfill

LEMMA LiveStays ==
  ASSUME StoreTypeOK, NEW i \in Items, status[i] \in Live, NEW st \in Live,
         status' = [status EXCEPT ![i] = st]
  PROVE  \A j \in Items :
            /\ status'[j] \in Live <=> status[j] \in Live
            /\ status'[j] = "none" <=> status[j] = "none"
  BY DEF StoreTypeOK, Live

LEMMA FinishedKeeps ==
  ASSUME IInv, NEW i \in Items, posts[i] > 0,
         status' = [status EXCEPT ![i] = "done"], UNCHANGED workerVars,
         UNCHANGED <<attempts, posts, webhook, backfilled_at>>
  PROVE  /\ OpenSound' /\ BatchSound' /\ ItemSound' /\ PlanSound'
         /\ SentSound' /\ LiveOnlyAfterBackfill'
<1>1. \A j \in Items :
        /\ status'[j] \in Live <=> status[j] \in Live
        /\ status'[j] = "none" <=> status[j] = "none"
  <2>1. status[i] \in Live /\ "done" \in Live
    BY DEF IInv, SentSound, Live
  <2> QED
    BY <2>1, LiveStays DEF IInv, TypeOK
<1> USE DEF IInv, workerVars
<1>2. OpenSound'
  BY <1>1 DEF OpenSound
<1>3. BatchSound'
  BY <1>1 DEF BatchSound
<1>4. ItemSound'
  BY <1>1 DEF ItemSound
<1>5. PlanSound'
  BY <1>1 DEF PlanSound
<1>6. SentSound' /\ LiveOnlyAfterBackfill'
  BY <1>1 DEF SentSound, LiveOnlyAfterBackfill
<1> QED
  BY <1>2, <1>3, <1>4, <1>5, <1>6

LEMMA UnwindIdles ==
  ASSUME IInv, NEW w \in Workers, Alone(w), Unwind(w)
  PROVE  /\ lock' = None
         /\ \A v \in Workers :
              /\ pc'[v] = "idle"
              /\ item'[v] = None
              /\ \A j \in Items : /\ open'[v][j] = "none"
                                  /\ plan'[v][j] = "none"
                                  /\ j \notin batch'[v]
  BY DEF IInv, TypeOK, WorkerTypeOK, Alone, Holds, Unwind, NoRows

LEMMA UnwindKeeps ==
  ASSUME IInv, NEW w \in Workers, Alone(w), Unwind(w)
  PROVE  /\ LockSound' /\ OpenSound' /\ BatchSound' /\ ItemSound'
         /\ PlanSound' /\ SourceSound'
  BY UnwindIdles, NoneIsNoWorker
     DEF LockSound, OpenSound, BatchSound, ItemSound, PlanSound, SourceSound,
         Posting

-----------------------------------------------------------------------------
(***************************************************************************)
(* One lemma per action.                                                   *)
(***************************************************************************)
LEMMA StartKeeps ==
  ASSUME IInv, TypeOK', NEW w \in Workers, NEW seed \in BOOLEAN, Start(w,
         seed), UNCHANGED workflowVars
  PROVE  IInv'
<1> USE DEF Start, At, Goto, LockFree, storeVars, workflowVars
<1>1. AllIdle
  BY FreeLock
<1>2. SentSound' /\ ExecutionSound' /\ AttemptsBounded' /\
     DeliveredHasLead' /\ LiveOnlyAfterBackfill'
  BY DEF IInv, SentSound, ExecutionSound, AttemptsBounded, DeliveredHasLead,
     LiveOnlyAfterBackfill
<1>3. LockSound'
  BY <1>1 DEF IInv, TypeOK, StoreTypeOK, WorkerTypeOK, WorkflowTypeOK,
     AllIdle, LockSound
<1>4. OpenSound'
  BY <1>1 DEF IInv, TypeOK, StoreTypeOK, WorkerTypeOK, WorkflowTypeOK,
     AllIdle, OpenSound
<1>5. BatchSound'
  BY <1>1 DEF IInv, TypeOK, StoreTypeOK, WorkerTypeOK, WorkflowTypeOK,
     AllIdle, BatchSound
<1>6. ItemSound'
  BY <1>1 DEF IInv, TypeOK, StoreTypeOK, WorkerTypeOK, WorkflowTypeOK,
     AllIdle, ItemSound, Posting
<1>7. PlanSound'
  BY <1>1 DEF IInv, TypeOK, StoreTypeOK, WorkerTypeOK, WorkflowTypeOK,
     AllIdle, PlanSound
<1>8. CountSound'
  BY <1>1 DEF IInv, TypeOK, StoreTypeOK, WorkerTypeOK, WorkflowTypeOK,
     AllIdle, CountSound, InHand, Uncounted
<1>9. SourceSound'
  BY <1>1 DEF IInv, TypeOK, StoreTypeOK, WorkerTypeOK, WorkflowTypeOK,
     AllIdle, SourceSound
<1> QED
  BY <1>2, <1>3, <1>4, <1>5, <1>6, <1>7, <1>8, <1>9 DEF IInv

LEMMA BeginSourceKeeps ==
  ASSUME IInv, TypeOK', NEW w \in Workers, NEW s \in Sources, BeginSource(w,
         s), UNCHANGED workflowVars
  PROVE  IInv'
<1> USE DEF BeginSource, At, Goto, Seeds, storeVars, workflowVars
<1>1. Alone(w)
  BY SoloRun
<1>2. SentSound' /\ ExecutionSound' /\ AttemptsBounded' /\
     DeliveredHasLead' /\ LiveOnlyAfterBackfill'
  BY DEF IInv, SentSound, ExecutionSound, AttemptsBounded, DeliveredHasLead,
     LiveOnlyAfterBackfill
<1>3. LockSound'
  BY <1>1 DEF IInv, TypeOK, StoreTypeOK, WorkerTypeOK, WorkflowTypeOK,
     Alone, LockSound
<1>4. OpenSound'
  BY <1>1 DEF IInv, TypeOK, StoreTypeOK, WorkerTypeOK, WorkflowTypeOK,
     Alone, OpenSound
<1>5. BatchSound'
  BY <1>1 DEF IInv, TypeOK, StoreTypeOK, WorkerTypeOK, WorkflowTypeOK,
     Alone, BatchSound
<1>6. ItemSound'
  BY <1>1 DEF IInv, TypeOK, StoreTypeOK, WorkerTypeOK, WorkflowTypeOK,
     Alone, ItemSound, Posting
<1>7. PlanSound'
  BY <1>1 DEF IInv, TypeOK, StoreTypeOK, WorkerTypeOK, WorkflowTypeOK,
     Alone, PlanSound
<1>8. CountSound'
  BY <1>1 DEF IInv, TypeOK, StoreTypeOK, WorkerTypeOK, WorkflowTypeOK,
     Alone, CountSound, InHand, Uncounted
<1>9. SourceSound'
  BY <1>1 DEF IInv, TypeOK, StoreTypeOK, WorkerTypeOK, WorkflowTypeOK,
     Alone, SourceSound
<1> QED
  BY <1>2, <1>3, <1>4, <1>5, <1>6, <1>7, <1>8, <1>9 DEF IInv

LEMMA EndSourcesKeeps ==
  ASSUME IInv, TypeOK', NEW w \in Workers, EndSources(w), UNCHANGED
         workflowVars
  PROVE  IInv'
<1> USE DEF EndSources, At, Goto, storeVars, workflowVars
<1>1. Alone(w)
  BY SoloRun
<1>2. SentSound' /\ ExecutionSound' /\ AttemptsBounded' /\
     DeliveredHasLead' /\ LiveOnlyAfterBackfill'
  BY DEF IInv, SentSound, ExecutionSound, AttemptsBounded, DeliveredHasLead,
     LiveOnlyAfterBackfill
<1>3. LockSound'
  BY <1>1 DEF IInv, TypeOK, StoreTypeOK, WorkerTypeOK, WorkflowTypeOK,
     Alone, LockSound
<1>4. OpenSound'
  BY <1>1 DEF IInv, TypeOK, StoreTypeOK, WorkerTypeOK, WorkflowTypeOK,
     Alone, OpenSound
<1>5. BatchSound'
  BY <1>1 DEF IInv, TypeOK, StoreTypeOK, WorkerTypeOK, WorkflowTypeOK,
     Alone, BatchSound
<1>6. ItemSound'
  BY <1>1 DEF IInv, TypeOK, StoreTypeOK, WorkerTypeOK, WorkflowTypeOK,
     Alone, ItemSound, Posting
<1>7. PlanSound'
  BY <1>1 DEF IInv, TypeOK, StoreTypeOK, WorkerTypeOK, WorkflowTypeOK,
     Alone, PlanSound
<1>8. CountSound'
  BY <1>1 DEF IInv, TypeOK, StoreTypeOK, WorkerTypeOK, WorkflowTypeOK,
     Alone, CountSound, InHand, Uncounted
<1>9. SourceSound'
  BY <1>1 DEF IInv, TypeOK, StoreTypeOK, WorkerTypeOK, WorkflowTypeOK,
     Alone, SourceSound
<1> QED
  BY <1>2, <1>3, <1>4, <1>5, <1>6, <1>7, <1>8, <1>9 DEF IInv

LEMMA RecordKeeps ==
  ASSUME IInv, TypeOK', NEW w \in Workers, NEW i \in Items, Record(w, i),
         UNCHANGED workflowVars
  PROVE  IInv'
<1> USE DEF Record, At, storeVars, workflowVars
<1>1. Alone(w)
  BY SoloRun
<1>2. item[w] # i
  BY <1>1, EmptyHand DEF IInv, TypeOK, StoreTypeOK, WorkerTypeOK,
     WorkflowTypeOK, Posting
<1>3. /\ status[i] = "none" /\ attempts[i] = 0 /\ posts[i] = 0
     /\ item[w] # i /\ SourceOf[i] = source[w] /\ pc[w] = "fetch"
  <2>1. status[i] = "none" /\ SourceOf[i] = source[w] /\ pc[w] = "fetch"
    OBVIOUS
  <2>2. attempts[i] \in Nat /\ posts[i] \in Nat
    BY DEF IInv, TypeOK, StoreTypeOK
  <2>3. ~(attempts[i] > 0 \/ posts[i] > 0)
    BY <2>1 DEF IInv, SentSound, Live
  <2> QED
    BY <1>2, <2>1, <2>2, <2>3
<1>4. PICK st \in RecordStatus(w) :
       /\ open' = [open EXCEPT ![w][i] = st]
       /\ batch' = [batch EXCEPT
                      ![w] = IF ToDeliver(st) THEN @ \union {i} ELSE @]
  OBVIOUS
<1>5. /\ st \in {"seeded", "pending", "filtered"}
     /\ st = "pending" => ~seeding[w]
  BY <1>1 DEF IInv, TypeOK, StoreTypeOK, WorkerTypeOK, WorkflowTypeOK,
     RecordStatus
<1>6. \A v \in Workers : \A j \in Items :
       open'[v][j] = IF v = w /\ j = i THEN st ELSE open[v][j]
  BY <1>1, <1>4 DEF IInv, TypeOK, StoreTypeOK, WorkerTypeOK, WorkflowTypeOK
<1>7. \A v \in Workers : \A j \in Items :
       j \in batch'[v] => \/ j \in batch[v]
                          \/ v = w /\ j = i /\ st = "pending"
  BY <1>1, <1>4 DEF IInv, TypeOK, StoreTypeOK, WorkerTypeOK, WorkflowTypeOK,
     ToDeliver
<1>8. LockSound' /\ ItemSound' /\ PlanSound' /\ SentSound' /\
     CountSound' /\ ExecutionSound' /\ SourceSound' /\ AttemptsBounded'
     /\ DeliveredHasLead' /\ LiveOnlyAfterBackfill'
  BY DEF IInv, LockSound, ItemSound, PlanSound, SentSound, CountSound,
     ExecutionSound, SourceSound, AttemptsBounded, DeliveredHasLead,
     LiveOnlyAfterBackfill, InHand
<1>9. OpenSound'
  BY <1>1, <1>3, <1>5, <1>6 DEF IInv, TypeOK, StoreTypeOK, WorkerTypeOK,
     WorkflowTypeOK, Alone, OpenSound
<1>10. BatchSound'
  BY <1>1, <1>3, <1>5, <1>6, <1>7 DEF IInv, TypeOK, StoreTypeOK,
     WorkerTypeOK, WorkflowTypeOK, Alone, BatchSound
<1> QED
  BY <1>8, <1>9, <1>10 DEF IInv

LEMMA FetcherRequestKeeps ==
  ASSUME IInv, TypeOK', NEW w \in Workers, FetcherRequest(w), UNCHANGED
         workflowVars
  PROVE  IInv'
<1> USE DEF FetcherRequest, At, workflowVars
<1>1. Alone(w)
  BY SoloRun
<1>2. /\ \A j \in Items : CommitsAs(w, j)
     /\ SentSound' /\ LiveOnlyAfterBackfill'
  BY <1>1, CommitKeeps DEF IInv, TypeOK, StoreTypeOK, WorkerTypeOK,
     WorkflowTypeOK
<1>3. \A v \in Workers : \A j \in Items : open'[v][j] = "none"
  BY <1>1 DEF IInv, TypeOK, StoreTypeOK, WorkerTypeOK, WorkflowTypeOK,
     Alone, Holds, NoRows
<1>4. LockSound' /\ CountSound' /\ ExecutionSound' /\ SourceSound' /\
     AttemptsBounded' /\ DeliveredHasLead'
  BY DEF IInv, LockSound, CountSound, ExecutionSound, SourceSound,
     AttemptsBounded, DeliveredHasLead, InHand
<1>5. OpenSound'
  BY <1>1, <1>3 DEF IInv, TypeOK, StoreTypeOK, WorkerTypeOK, WorkflowTypeOK,
     Alone, OpenSound
<1>6. BatchSound'
  BY <1>1, <1>2 DEF IInv, TypeOK, StoreTypeOK, WorkerTypeOK, WorkflowTypeOK,
     Alone, BatchSound, CommitsAs, Live, Holds
<1>7. ItemSound'
  BY <1>1, <1>2 DEF IInv, TypeOK, StoreTypeOK, WorkerTypeOK, WorkflowTypeOK,
     Alone, ItemSound, Posting, CommitsAs, Live, Holds
<1>8. PlanSound'
  BY <1>1 DEF IInv, TypeOK, StoreTypeOK, WorkerTypeOK, WorkflowTypeOK,
     Alone, PlanSound, Holds
<1> QED
  BY <1>4, <1>5, <1>6, <1>7, <1>8, <1>2 DEF IInv

LEMMA SourceFailsKeeps ==
  ASSUME IInv, TypeOK', NEW w \in Workers, SourceFails(w), UNCHANGED
         workflowVars
  PROVE  IInv'
<1> USE DEF SourceFails, At, Goto, workflowVars
<1>1. Alone(w)
  BY SoloRun
<1>2. /\ \A j \in Items : CommitsAs(w, j)
     /\ SentSound' /\ LiveOnlyAfterBackfill'
  BY <1>1, CommitKeeps DEF IInv, TypeOK, StoreTypeOK, WorkerTypeOK,
     WorkflowTypeOK
<1>3. \A v \in Workers : \A j \in Items : open'[v][j] = "none"
  BY <1>1 DEF IInv, TypeOK, StoreTypeOK, WorkerTypeOK, WorkflowTypeOK,
     Alone, Holds, NoRows
<1>4. ExecutionSound' /\ AttemptsBounded' /\ DeliveredHasLead'
  BY DEF IInv, ExecutionSound, AttemptsBounded, DeliveredHasLead
<1>5. LockSound'
  BY <1>1 DEF IInv, TypeOK, StoreTypeOK, WorkerTypeOK, WorkflowTypeOK,
     Alone, LockSound
<1>6. OpenSound'
  BY <1>1, <1>3 DEF IInv, TypeOK, StoreTypeOK, WorkerTypeOK, WorkflowTypeOK,
     Alone, OpenSound
<1>7. BatchSound'
  <2>1. \A v \in Workers : batch'[v] = IF v = w THEN {} ELSE batch[v]
    BY DEF IInv, TypeOK, WorkerTypeOK
  <2>2. \A v \in Workers \ {w} : \A j \in Items : j \notin batch[v]
    BY <1>1 DEF Alone, Holds
  <2> QED
    BY <2>1, <2>2 DEF BatchSound
<1>8. ItemSound'
  BY <1>1, <1>2 DEF IInv, TypeOK, StoreTypeOK, WorkerTypeOK, WorkflowTypeOK,
     Alone, ItemSound, Posting, CommitsAs, Live, Holds
<1>9. PlanSound'
  BY <1>1 DEF IInv, TypeOK, StoreTypeOK, WorkerTypeOK, WorkflowTypeOK,
     Alone, PlanSound, Holds
<1>10. CountSound'
  BY <1>1 DEF IInv, TypeOK, StoreTypeOK, WorkerTypeOK, WorkflowTypeOK,
     Alone, CountSound, InHand, Uncounted
<1>11. SourceSound'
  BY <1>1 DEF IInv, TypeOK, StoreTypeOK, WorkerTypeOK, WorkflowTypeOK,
     Alone, SourceSound
<1> QED
  BY <1>4, <1>5, <1>6, <1>7, <1>8, <1>9, <1>2, <1>10, <1>11 DEF IInv

LEMMA FetchDoneKeeps ==
  ASSUME IInv, TypeOK', NEW w \in Workers, FetchDone(w), UNCHANGED
         workflowVars
  PROVE  IInv'
<1> USE DEF FetchDone, At, Goto, workflowVars
<1>1. Alone(w)
  BY SoloRun
<1>2. /\ \A j \in Items : CommitsAs(w, j)
     /\ SentSound' /\ LiveOnlyAfterBackfill'
  BY <1>1, CommitKeeps DEF IInv, TypeOK, StoreTypeOK, WorkerTypeOK,
     WorkflowTypeOK
<1>3. \A v \in Workers : \A j \in Items : open'[v][j] = "none"
  BY <1>1 DEF IInv, TypeOK, StoreTypeOK, WorkerTypeOK, WorkflowTypeOK,
     Alone, Holds, NoRows
<1>4. ExecutionSound' /\ AttemptsBounded' /\ DeliveredHasLead'
  BY DEF IInv, ExecutionSound, AttemptsBounded, DeliveredHasLead
<1>5. LockSound'
  BY <1>1 DEF IInv, TypeOK, StoreTypeOK, WorkerTypeOK, WorkflowTypeOK,
     Alone, LockSound
<1>6. OpenSound'
  BY <1>1, <1>3 DEF IInv, TypeOK, StoreTypeOK, WorkerTypeOK, WorkflowTypeOK,
     Alone, OpenSound
<1>7. BatchSound'
  <2> SUFFICES ASSUME NEW v \in Workers, NEW j \in Items, j \in batch'[v]
               PROVE  /\ pc'[v] \in {"fetch", "deliver", "post", "count"}
                      /\ status'[j] \in Live \/ open'[v][j] = "pending"
                      /\ attempts'[j] = 0
                      /\ posts'[j] = 0
                      /\ item'[v] # j
    BY DEF BatchSound
  <2>1. v = w /\ j \in batch[w]
    BY <1>1 DEF Alone, Holds
  <2>2. /\ status[j] \in Live \/ open[w][j] = "pending"
        /\ attempts[j] = 0 /\ posts[j] = 0 /\ item[w] # j
    BY <2>1 DEF IInv, BatchSound
  <2>3. status'[j] \in Live
    BY <1>2, <2>2 DEF CommitsAs, Live
  <2>4. pc'[w] = "deliver"
    BY DEF IInv, TypeOK, WorkerTypeOK
  <2> QED
    BY <2>1, <2>2, <2>3, <2>4
<1>8. ItemSound'
  BY <1>1, <1>2 DEF IInv, TypeOK, StoreTypeOK, WorkerTypeOK, WorkflowTypeOK,
     Alone, ItemSound, Posting, CommitsAs, Live, Holds
<1>9. PlanSound'
  BY <1>1 DEF IInv, TypeOK, StoreTypeOK, WorkerTypeOK, WorkflowTypeOK,
     Alone, PlanSound, Holds
<1>10. CountSound'
  BY <1>1 DEF IInv, TypeOK, StoreTypeOK, WorkerTypeOK, WorkflowTypeOK,
     Alone, CountSound, InHand, Uncounted
<1>11. SourceSound'
  BY <1>1 DEF IInv, TypeOK, StoreTypeOK, WorkerTypeOK, WorkflowTypeOK,
     Alone, SourceSound
<1> QED
  BY <1>4, <1>5, <1>6, <1>7, <1>8, <1>9, <1>2, <1>10, <1>11 DEF IInv

LEMMA SourceDoneKeeps ==
  ASSUME IInv, TypeOK', NEW w \in Workers, SourceDone(w), UNCHANGED
         workflowVars
  PROVE  IInv'
<1> USE DEF SourceDone, At, Goto, workflowVars
<1>1. Alone(w)
  BY SoloRun
<1>2. SentSound' /\ ExecutionSound' /\ AttemptsBounded' /\
     DeliveredHasLead'
  BY DEF IInv, SentSound, ExecutionSound, AttemptsBounded, DeliveredHasLead
<1>3. LockSound'
  BY <1>1 DEF IInv, TypeOK, StoreTypeOK, WorkerTypeOK, WorkflowTypeOK,
     Alone, LockSound
<1>4. OpenSound'
  BY <1>1 DEF IInv, TypeOK, StoreTypeOK, WorkerTypeOK, WorkflowTypeOK,
     Alone, OpenSound
<1>5. BatchSound'
  BY <1>1 DEF IInv, TypeOK, StoreTypeOK, WorkerTypeOK, WorkflowTypeOK,
     Alone, BatchSound
<1>6. ItemSound'
  BY <1>1 DEF IInv, TypeOK, StoreTypeOK, WorkerTypeOK, WorkflowTypeOK,
     Alone, ItemSound, Posting
<1>7. PlanSound'
  BY <1>1 DEF IInv, TypeOK, StoreTypeOK, WorkerTypeOK, WorkflowTypeOK,
     Alone, PlanSound
<1>8. CountSound'
  BY <1>1 DEF IInv, TypeOK, StoreTypeOK, WorkerTypeOK, WorkflowTypeOK,
     Alone, CountSound, InHand, Uncounted
<1>9. SourceSound'
  BY <1>1 DEF IInv, TypeOK, StoreTypeOK, WorkerTypeOK, WorkflowTypeOK,
     Alone, SourceSound
<1>10. LiveOnlyAfterBackfill'
  BY <1>1 DEF IInv, TypeOK, StoreTypeOK, WorkerTypeOK, WorkflowTypeOK,
     Alone, LiveOnlyAfterBackfill
<1> QED
  BY <1>2, <1>3, <1>4, <1>5, <1>6, <1>7, <1>8, <1>9, <1>10 DEF IInv

LEMMA RecordPayloadKeeps ==
  ASSUME IInv, TypeOK', NEW w \in Workers, NEW i \in Items, RecordPayload(w,
         i), UNCHANGED workflowVars
  PROVE  IInv'
<1> USE DEF RecordPayload, At, Goto, workflowVars
<1>1. Alone(w)
  BY SoloRun
<1>2. SentSound' /\ ExecutionSound' /\ AttemptsBounded' /\
     DeliveredHasLead' /\ LiveOnlyAfterBackfill'
  BY DEF IInv, SentSound, ExecutionSound, AttemptsBounded, DeliveredHasLead,
     LiveOnlyAfterBackfill
<1>3. LockSound'
  BY <1>1 DEF IInv, TypeOK, StoreTypeOK, WorkerTypeOK, WorkflowTypeOK,
     Alone, LockSound
<1>4. OpenSound'
  BY <1>1 DEF IInv, TypeOK, StoreTypeOK, WorkerTypeOK, WorkflowTypeOK,
     Alone, OpenSound
<1>5. BatchSound'
  BY <1>1 DEF IInv, TypeOK, StoreTypeOK, WorkerTypeOK, WorkflowTypeOK,
     Alone, BatchSound
<1>6. ItemSound'
  BY <1>1, MaxAttemptsPos DEF IInv, TypeOK, StoreTypeOK, WorkerTypeOK,
     WorkflowTypeOK, Alone, ItemSound, Posting, BatchSound, OpenSound
<1>7. PlanSound'
  BY <1>1 DEF IInv, TypeOK, StoreTypeOK, WorkerTypeOK, WorkflowTypeOK,
     Alone, PlanSound
<1>8. CountSound'
  BY <1>1 DEF IInv, TypeOK, StoreTypeOK, WorkerTypeOK, WorkflowTypeOK,
     Alone, CountSound, InHand, Uncounted
<1>9. SourceSound'
  BY <1>1 DEF IInv, TypeOK, StoreTypeOK, WorkerTypeOK, WorkflowTypeOK,
     Alone, SourceSound
<1> QED
  BY <1>2, <1>3, <1>4, <1>5, <1>6, <1>7, <1>8, <1>9 DEF IInv

LEMMA PostKeeps ==
  ASSUME IInv, TypeOK', NEW w \in Workers, Post(w), UNCHANGED workflowVars
  PROVE  IInv'
<1> USE DEF Post, At, Goto, workflowVars
<1>1. Alone(w)
  BY SoloRun
<1>2. PICK i \in Items : /\ i = item[w] /\ status[i] \in Live
                         /\ attempts[i] < MaxAttempts
  BY <1>1 DEF IInv, TypeOK, StoreTypeOK, WorkerTypeOK, WorkflowTypeOK,
     ItemSound, Posting
<1>3. PostedOnce(i)
  BY <1>1, <1>2, PostedIsOnce DEF IInv, TypeOK, StoreTypeOK, WorkerTypeOK,
     WorkflowTypeOK
<1>4. \A j \in Items : ~InHand(j)
  BY <1>1 DEF IInv, TypeOK, StoreTypeOK, WorkerTypeOK, WorkflowTypeOK,
     Alone, InHand, Uncounted
<1>5. InHand(i)'
  BY <1>1, <1>2 DEF IInv, TypeOK, StoreTypeOK, WorkerTypeOK, WorkflowTypeOK,
     InHand, Uncounted
<1>6. AttemptsBounded' /\ DeliveredHasLead' /\ LiveOnlyAfterBackfill'
  BY DEF IInv, AttemptsBounded, DeliveredHasLead, LiveOnlyAfterBackfill
<1>7. LockSound'
  BY <1>1 DEF IInv, TypeOK, StoreTypeOK, WorkerTypeOK, WorkflowTypeOK,
     Alone, LockSound
<1>8. OpenSound'
  BY <1>1 DEF IInv, TypeOK, StoreTypeOK, WorkerTypeOK, WorkflowTypeOK,
     Alone, OpenSound
<1>9. BatchSound'
  BY <1>1, <1>2, <1>3 DEF IInv, TypeOK, StoreTypeOK, WorkerTypeOK,
     WorkflowTypeOK, Alone, BatchSound, PostedOnce, Holds
<1>10. ItemSound'
  BY <1>1, <1>2 DEF IInv, TypeOK, StoreTypeOK, WorkerTypeOK, WorkflowTypeOK,
     Alone, ItemSound, Posting
<1>11. PlanSound'
  BY <1>1 DEF IInv, TypeOK, StoreTypeOK, WorkerTypeOK, WorkflowTypeOK,
     Alone, PlanSound
<1>12. SentSound'
  BY <1>1, <1>2, <1>3 DEF IInv, TypeOK, StoreTypeOK, WorkerTypeOK,
     WorkflowTypeOK, Alone, SentSound, PostedOnce
<1>13. CountSound'
  <2> SUFFICES ASSUME NEW j \in Items
               PROVE  posts'[j] <= attempts'[j] + crashes' +
                                     (IF InHand(j)' THEN 1 ELSE 0)
    BY DEF CountSound
  <2>1. /\ posts[j] <= attempts[j] + crashes /\ posts[j] \in Nat
        /\ attempts[j] \in Nat /\ crashes \in Nat
    BY <1>4 DEF IInv, CountSound, TypeOK, StoreTypeOK, WorkerTypeOK
  <2>2. posts'[j] = IF j = i THEN posts[j] + 1 ELSE posts[j]
    BY <1>3 DEF PostedOnce
  <2>3. UNCHANGED <<attempts, crashes>>
    OBVIOUS
  <2> QED
    BY <1>5, <2>1, <2>2, <2>3
<1>14. ExecutionSound'
  <2>1. \A j \in Items : posts[j] > 0 => posts'[j] > 0
    BY <1>3 DEF IInv, TypeOK, StoreTypeOK, PostedOnce
  <2>2. UNCHANGED <<stage, subject, leads>>
    OBVIOUS
  <2> QED
    BY <2>1, <2>2 DEF IInv, ExecutionSound
<1>15. SourceSound'
  BY <1>1 DEF IInv, TypeOK, StoreTypeOK, WorkerTypeOK, WorkflowTypeOK,
     Alone, SourceSound
<1> QED
  BY <1>6, <1>7, <1>8, <1>9, <1>10, <1>11, <1>12, <1>13, <1>14, <1>15 DEF
     IInv

LEMMA CountKeeps ==
  ASSUME IInv, TypeOK', NEW w \in Workers, Count(w), UNCHANGED workflowVars
  PROVE  IInv'
<1> USE DEF Count, At, Goto, workflowVars
<1>1. Alone(w)
  BY SoloRun
<1>2. /\ item[w] \in Items /\ status[item[w]] \in Live
     /\ attempts[item[w]] < MaxAttempts
  BY <1>1 DEF IInv, TypeOK, StoreTypeOK, WorkerTypeOK, WorkflowTypeOK,
     ItemSound, Posting
<1>3. AttemptedOnce(item[w])
  BY <1>1, <1>2, AttemptedIsOnce DEF IInv, TypeOK, StoreTypeOK,
     WorkerTypeOK, WorkflowTypeOK
<1>4. \A j \in Items : InHand(j) <=> j = item[w]
  BY <1>1, <1>2 DEF IInv, TypeOK, StoreTypeOK, WorkerTypeOK, WorkflowTypeOK,
     Alone, InHand, Uncounted
<1>5. \A j \in Items : ~InHand(j)'
  BY <1>1 DEF IInv, TypeOK, StoreTypeOK, WorkerTypeOK, WorkflowTypeOK,
     Alone, InHand, Uncounted
<1>6. \A j \in Items : item'[w] # j
  BY <1>1, NoneIsNothing DEF IInv, TypeOK, StoreTypeOK, WorkerTypeOK,
     WorkflowTypeOK
<1>7. ExecutionSound' /\ DeliveredHasLead' /\ LiveOnlyAfterBackfill'
  BY DEF IInv, ExecutionSound, DeliveredHasLead, LiveOnlyAfterBackfill
<1>8. LockSound'
  BY <1>1 DEF IInv, TypeOK, StoreTypeOK, WorkerTypeOK, WorkflowTypeOK,
     Alone, LockSound
<1>9. OpenSound'
  BY <1>1 DEF IInv, TypeOK, StoreTypeOK, WorkerTypeOK, WorkflowTypeOK,
     Alone, OpenSound
<1>10. BatchSound'
  BY <1>1, <1>2, <1>3, <1>6 DEF IInv, TypeOK, StoreTypeOK, WorkerTypeOK,
     WorkflowTypeOK, Alone, BatchSound, AttemptedOnce, Holds
<1>11. ItemSound'
  BY <1>1 DEF IInv, TypeOK, StoreTypeOK, WorkerTypeOK, WorkflowTypeOK,
     Alone, ItemSound, Posting, Holds
<1>12. PlanSound'
  BY <1>1, <1>2, <1>3, <1>6 DEF IInv, TypeOK, StoreTypeOK, WorkerTypeOK,
     WorkflowTypeOK, Alone, PlanSound, AttemptedOnce, Holds
<1>13. SentSound'
  BY <1>1, <1>2, <1>3 DEF IInv, TypeOK, StoreTypeOK, WorkerTypeOK,
     WorkflowTypeOK, Alone, SentSound, AttemptedOnce
<1>14. CountSound'
  BY <1>1, <1>2, <1>3, <1>4, <1>5 DEF IInv, TypeOK, StoreTypeOK,
     WorkerTypeOK, WorkflowTypeOK, CountSound, AttemptedOnce
<1>15. SourceSound'
  BY <1>1 DEF IInv, TypeOK, StoreTypeOK, WorkerTypeOK, WorkflowTypeOK,
     Alone, SourceSound
<1>16. AttemptsBounded'
  <2> SUFFICES ASSUME NEW j \in Items PROVE attempts'[j] <= MaxAttempts
    BY DEF AttemptsBounded
  <2>1. attempts[j] <= MaxAttempts /\ attempts[j] \in Nat
    BY DEF IInv, AttemptsBounded, TypeOK, StoreTypeOK
  <2>2. attempts'[j] = IF j = item[w] THEN attempts[j] + 1 ELSE attempts[j]
    BY <1>3 DEF AttemptedOnce
  <2> QED
    BY <1>2, <2>1, <2>2, MaxAttemptsPos
<1> QED
  BY <1>7, <1>8, <1>9, <1>10, <1>11, <1>12, <1>13, <1>14, <1>15, <1>16 DEF
     IInv

LEMMA SelectKeeps ==
  ASSUME IInv, TypeOK', NEW w \in Workers, Select(w), UNCHANGED workflowVars
  PROVE  IInv'
<1> USE DEF Select, At, Goto, storeVars, workflowVars
<1>1. Alone(w)
  BY SoloRun
<1>2. \A j \in Items : item[w] # j
  BY <1>1, EmptyHand DEF IInv, TypeOK, StoreTypeOK, WorkerTypeOK,
     WorkflowTypeOK, Posting
<1>3. \A j \in Items :
       plan'[w][j] # "none" => /\ status[j] = "pending"
                               /\ plan'[w][j] = "resend" => attempts[j] < MaxAttempts
  BY <1>1, MaxAttemptsPos DEF IInv, TypeOK, StoreTypeOK, WorkerTypeOK,
     WorkflowTypeOK, Fate, Unconfirmed
<1>4. SentSound' /\ ExecutionSound' /\ AttemptsBounded' /\
     DeliveredHasLead' /\ LiveOnlyAfterBackfill'
  BY DEF IInv, SentSound, ExecutionSound, AttemptsBounded, DeliveredHasLead,
     LiveOnlyAfterBackfill
<1>5. LockSound'
  BY <1>1 DEF IInv, TypeOK, StoreTypeOK, WorkerTypeOK, WorkflowTypeOK,
     Alone, LockSound
<1>6. OpenSound'
  BY <1>1 DEF IInv, TypeOK, StoreTypeOK, WorkerTypeOK, WorkflowTypeOK,
     Alone, OpenSound
<1>7. BatchSound'
  BY <1>1 DEF IInv, TypeOK, StoreTypeOK, WorkerTypeOK, WorkflowTypeOK,
     Alone, BatchSound
<1>8. ItemSound'
  BY <1>1 DEF IInv, TypeOK, StoreTypeOK, WorkerTypeOK, WorkflowTypeOK,
     Alone, ItemSound, Posting
<1>9. PlanSound'
  BY <1>1, <1>2, <1>3 DEF IInv, TypeOK, StoreTypeOK, WorkerTypeOK,
     WorkflowTypeOK, Alone, PlanSound, Holds, Live
<1>10. CountSound'
  BY <1>1 DEF IInv, TypeOK, StoreTypeOK, WorkerTypeOK, WorkflowTypeOK,
     Alone, CountSound, InHand, Uncounted
<1>11. SourceSound'
  BY <1>1 DEF IInv, TypeOK, StoreTypeOK, WorkerTypeOK, WorkflowTypeOK,
     Alone, SourceSound
<1> QED
  BY <1>4, <1>5, <1>6, <1>7, <1>8, <1>9, <1>10, <1>11 DEF IInv

LEMMA GiveUpKeeps ==
  ASSUME IInv, TypeOK', NEW w \in Workers, NEW i \in Items, GiveUp(w, i),
         UNCHANGED workflowVars
  PROVE  IInv'
<1> USE DEF GiveUp, At, workflowVars
<1>1. Alone(w)
  BY SoloRun
<1>2. \A j \in Items :
       /\ status'[j] \in Live <=> status[j] \in Live
       /\ status'[j] = "none" <=> status[j] = "none"
  BY <1>1, LiveStays DEF IInv, TypeOK, StoreTypeOK, WorkerTypeOK,
     WorkflowTypeOK, PlanSound, Live
<1>3. LockSound' /\ CountSound' /\ ExecutionSound' /\ SourceSound' /\
     AttemptsBounded' /\ DeliveredHasLead'
  BY DEF IInv, LockSound, CountSound, ExecutionSound, SourceSound,
     AttemptsBounded, DeliveredHasLead, InHand
<1>4. OpenSound'
  BY <1>1, <1>2 DEF IInv, TypeOK, StoreTypeOK, WorkerTypeOK, WorkflowTypeOK,
     Alone, OpenSound
<1>5. BatchSound'
  BY <1>1, <1>2 DEF IInv, TypeOK, StoreTypeOK, WorkerTypeOK, WorkflowTypeOK,
     Alone, BatchSound
<1>6. ItemSound'
  BY <1>1, <1>2 DEF IInv, TypeOK, StoreTypeOK, WorkerTypeOK, WorkflowTypeOK,
     Alone, ItemSound, Posting
<1>7. PlanSound'
  BY <1>1, <1>2 DEF IInv, TypeOK, StoreTypeOK, WorkerTypeOK, WorkflowTypeOK,
     Alone, PlanSound
<1>8. SentSound'
  BY <1>1, <1>2 DEF IInv, TypeOK, StoreTypeOK, WorkerTypeOK, WorkflowTypeOK,
     Alone, SentSound
<1>9. LiveOnlyAfterBackfill'
  BY <1>1, <1>2 DEF IInv, TypeOK, StoreTypeOK, WorkerTypeOK, WorkflowTypeOK,
     Alone, LiveOnlyAfterBackfill
<1> QED
  BY <1>3, <1>4, <1>5, <1>6, <1>7, <1>8, <1>9 DEF IInv

LEMMA LeavePendingKeeps ==
  ASSUME IInv, TypeOK', NEW w \in Workers, NEW i \in Items, LeavePending(w,
         i), UNCHANGED workflowVars
  PROVE  IInv'
<1> USE DEF LeavePending, At, storeVars, workflowVars
<1>1. Alone(w)
  BY SoloRun
<1>2. LockSound' /\ OpenSound' /\ BatchSound' /\ ItemSound' /\
     SentSound' /\ CountSound' /\ ExecutionSound' /\ SourceSound' /\
     AttemptsBounded' /\ DeliveredHasLead' /\ LiveOnlyAfterBackfill'
  BY DEF IInv, LockSound, OpenSound, BatchSound, ItemSound, SentSound,
     CountSound, ExecutionSound, SourceSound, AttemptsBounded,
     DeliveredHasLead, LiveOnlyAfterBackfill, InHand
<1>3. PlanSound'
  BY <1>1 DEF IInv, TypeOK, StoreTypeOK, WorkerTypeOK, WorkflowTypeOK,
     Alone, PlanSound
<1> QED
  BY <1>2, <1>3 DEF IInv

LEMMA ResendKeeps ==
  ASSUME IInv, TypeOK', NEW w \in Workers, NEW i \in Items, Resend(w, i),
         UNCHANGED workflowVars
  PROVE  IInv'
<1> USE DEF Resend, At, Goto, workflowVars
<1>1. Alone(w)
  BY SoloRun
<1>2. /\ i \in Items /\ status[i] \in Live
     /\ attempts[i] < MaxAttempts
  BY <1>1 DEF IInv, TypeOK, StoreTypeOK, WorkerTypeOK, WorkflowTypeOK,
     PlanSound
<1>3. PostedOnce(i)
  BY <1>1, <1>2, PostedIsOnce DEF IInv, TypeOK, StoreTypeOK, WorkerTypeOK,
     WorkflowTypeOK
<1>4. \A j \in Items : ~InHand(j)
  BY <1>1 DEF IInv, TypeOK, StoreTypeOK, WorkerTypeOK, WorkflowTypeOK,
     Alone, InHand, Uncounted
<1>5. InHand(i)'
  BY <1>1, <1>2 DEF IInv, TypeOK, StoreTypeOK, WorkerTypeOK, WorkflowTypeOK,
     InHand, Uncounted
<1>6. AttemptsBounded' /\ DeliveredHasLead' /\ LiveOnlyAfterBackfill'
  BY DEF IInv, AttemptsBounded, DeliveredHasLead, LiveOnlyAfterBackfill
<1>7. LockSound'
  BY <1>1 DEF IInv, TypeOK, StoreTypeOK, WorkerTypeOK, WorkflowTypeOK,
     Alone, LockSound
<1>8. OpenSound'
  BY <1>1 DEF IInv, TypeOK, StoreTypeOK, WorkerTypeOK, WorkflowTypeOK,
     Alone, OpenSound
<1>9. BatchSound'
  BY <1>1, <1>2, <1>3 DEF IInv, TypeOK, StoreTypeOK, WorkerTypeOK,
     WorkflowTypeOK, Alone, BatchSound, PostedOnce, Holds
<1>10. ItemSound'
  BY <1>1, <1>2 DEF IInv, TypeOK, StoreTypeOK, WorkerTypeOK, WorkflowTypeOK,
     Alone, ItemSound, Posting
<1>11. PlanSound'
  BY <1>1 DEF IInv, TypeOK, StoreTypeOK, WorkerTypeOK, WorkflowTypeOK,
     Alone, PlanSound
<1>12. SentSound'
  BY <1>1, <1>2, <1>3 DEF IInv, TypeOK, StoreTypeOK, WorkerTypeOK,
     WorkflowTypeOK, Alone, SentSound, PostedOnce
<1>13. CountSound'
  BY SMTT(30), <1>1, <1>2, <1>3, <1>4, <1>5 DEF IInv, TypeOK, StoreTypeOK,
     WorkerTypeOK, WorkflowTypeOK, CountSound, PostedOnce
<1>14. ExecutionSound'
  BY SMTT(30), <1>1, <1>3 DEF IInv, TypeOK, StoreTypeOK, WorkerTypeOK, WorkflowTypeOK,
     Alone, ExecutionSound, PostedOnce
<1>15. SourceSound'
  BY <1>1 DEF IInv, TypeOK, StoreTypeOK, WorkerTypeOK, WorkflowTypeOK,
     Alone, SourceSound
<1> QED
  BY <1>6, <1>7, <1>8, <1>9, <1>10, <1>11, <1>12, <1>13, <1>14, <1>15 DEF
     IInv

LEMMA RecountKeeps ==
  ASSUME IInv, TypeOK', NEW w \in Workers, Recount(w), UNCHANGED
         workflowVars
  PROVE  IInv'
<1> USE DEF Recount, At, Goto, workflowVars
<1>1. Alone(w)
  BY SoloRun
<1>2. /\ item[w] \in Items /\ status[item[w]] \in Live
     /\ attempts[item[w]] < MaxAttempts
  BY <1>1 DEF IInv, TypeOK, StoreTypeOK, WorkerTypeOK, WorkflowTypeOK,
     ItemSound, Posting
<1>3. AttemptedOnce(item[w])
  BY <1>1, <1>2, AttemptedIsOnce DEF IInv, TypeOK, StoreTypeOK,
     WorkerTypeOK, WorkflowTypeOK
<1>4. \A j \in Items : InHand(j) <=> j = item[w]
  BY <1>1, <1>2 DEF IInv, TypeOK, StoreTypeOK, WorkerTypeOK, WorkflowTypeOK,
     Alone, InHand, Uncounted
<1>5. \A j \in Items : ~InHand(j)'
  BY <1>1 DEF IInv, TypeOK, StoreTypeOK, WorkerTypeOK, WorkflowTypeOK,
     Alone, InHand, Uncounted
<1>6. \A j \in Items : item'[w] # j
  BY <1>1, NoneIsNothing DEF IInv, TypeOK, StoreTypeOK, WorkerTypeOK,
     WorkflowTypeOK
<1>7. ExecutionSound' /\ DeliveredHasLead' /\ LiveOnlyAfterBackfill'
  BY DEF IInv, ExecutionSound, DeliveredHasLead, LiveOnlyAfterBackfill
<1>8. LockSound'
  BY <1>1 DEF IInv, TypeOK, StoreTypeOK, WorkerTypeOK, WorkflowTypeOK,
     Alone, LockSound
<1>9. OpenSound'
  BY <1>1 DEF IInv, TypeOK, StoreTypeOK, WorkerTypeOK, WorkflowTypeOK,
     Alone, OpenSound
<1>10. BatchSound'
  BY <1>1, <1>2, <1>3, <1>6 DEF IInv, TypeOK, StoreTypeOK, WorkerTypeOK,
     WorkflowTypeOK, Alone, BatchSound, AttemptedOnce, Holds
<1>11. ItemSound'
  BY <1>1 DEF IInv, TypeOK, StoreTypeOK, WorkerTypeOK, WorkflowTypeOK,
     Alone, ItemSound, Posting, Holds
<1>12. PlanSound'
  BY <1>1, <1>2, <1>3, <1>6 DEF IInv, TypeOK, StoreTypeOK, WorkerTypeOK,
     WorkflowTypeOK, Alone, PlanSound, AttemptedOnce, Holds
<1>13. SentSound'
  BY <1>1, <1>2, <1>3 DEF IInv, TypeOK, StoreTypeOK, WorkerTypeOK,
     WorkflowTypeOK, Alone, SentSound, AttemptedOnce
<1>14. CountSound'
  BY <1>1, <1>2, <1>3, <1>4, <1>5 DEF IInv, TypeOK, StoreTypeOK,
     WorkerTypeOK, WorkflowTypeOK, CountSound, AttemptedOnce
<1>15. SourceSound'
  BY <1>1 DEF IInv, TypeOK, StoreTypeOK, WorkerTypeOK, WorkflowTypeOK,
     Alone, SourceSound
<1>16. AttemptsBounded'
  <2> SUFFICES ASSUME NEW j \in Items PROVE attempts'[j] <= MaxAttempts
    BY DEF AttemptsBounded
  <2>1. attempts[j] <= MaxAttempts /\ attempts[j] \in Nat
    BY DEF IInv, AttemptsBounded, TypeOK, StoreTypeOK
  <2>2. attempts'[j] = IF j = item[w] THEN attempts[j] + 1 ELSE attempts[j]
    BY <1>3 DEF AttemptedOnce
  <2> QED
    BY <1>2, <2>1, <2>2, MaxAttemptsPos
<1> QED
  BY <1>7, <1>8, <1>9, <1>10, <1>11, <1>12, <1>13, <1>14, <1>15, <1>16 DEF
     IInv

LEMMA EndSweepKeeps ==
  ASSUME IInv, TypeOK', NEW w \in Workers, EndSweep(w), UNCHANGED
         workflowVars
  PROVE  IInv'
<1> USE DEF EndSweep, At, Goto, storeVars, workflowVars
<1>1. Alone(w)
  BY SoloRun
<1>2. SentSound' /\ ExecutionSound' /\ AttemptsBounded' /\
     DeliveredHasLead' /\ LiveOnlyAfterBackfill'
  BY DEF IInv, SentSound, ExecutionSound, AttemptsBounded, DeliveredHasLead,
     LiveOnlyAfterBackfill
<1>3. LockSound'
  BY <1>1 DEF IInv, TypeOK, StoreTypeOK, WorkerTypeOK, WorkflowTypeOK,
     Alone, LockSound
<1>4. OpenSound'
  BY <1>1 DEF IInv, TypeOK, StoreTypeOK, WorkerTypeOK, WorkflowTypeOK,
     Alone, OpenSound
<1>5. BatchSound'
  BY <1>1 DEF IInv, TypeOK, StoreTypeOK, WorkerTypeOK, WorkflowTypeOK,
     Alone, BatchSound
<1>6. ItemSound'
  BY <1>1 DEF IInv, TypeOK, StoreTypeOK, WorkerTypeOK, WorkflowTypeOK,
     Alone, ItemSound, Posting
<1>7. PlanSound'
  BY <1>1 DEF IInv, TypeOK, StoreTypeOK, WorkerTypeOK, WorkflowTypeOK,
     Alone, PlanSound, NoRows, Holds
<1>8. CountSound'
  BY <1>1 DEF IInv, TypeOK, StoreTypeOK, WorkerTypeOK, WorkflowTypeOK,
     Alone, CountSound, InHand, Uncounted
<1>9. SourceSound'
  BY <1>1 DEF IInv, TypeOK, StoreTypeOK, WorkerTypeOK, WorkflowTypeOK,
     Alone, SourceSound
<1> QED
  BY <1>2, <1>3, <1>4, <1>5, <1>6, <1>7, <1>8, <1>9 DEF IInv

LEMMA PruneKeeps ==
  ASSUME IInv, TypeOK', NEW w \in Workers, Prune(w), UNCHANGED workflowVars
  PROVE  IInv'
<1> USE DEF Prune, At, Goto, workflowVars
<1>1. Alone(w)
  BY SoloRun
<1>2. SentSound' /\ ExecutionSound' /\ AttemptsBounded' /\
     DeliveredHasLead' /\ LiveOnlyAfterBackfill'
  BY DEF IInv, SentSound, ExecutionSound, AttemptsBounded, DeliveredHasLead,
     LiveOnlyAfterBackfill
<1>3. LockSound'
  BY <1>1 DEF IInv, TypeOK, StoreTypeOK, WorkerTypeOK, WorkflowTypeOK,
     Alone, LockSound
<1>4. OpenSound'
  BY <1>1 DEF IInv, TypeOK, StoreTypeOK, WorkerTypeOK, WorkflowTypeOK,
     Alone, OpenSound
<1>5. BatchSound'
  BY <1>1 DEF IInv, TypeOK, StoreTypeOK, WorkerTypeOK, WorkflowTypeOK,
     Alone, BatchSound
<1>6. ItemSound'
  BY <1>1 DEF IInv, TypeOK, StoreTypeOK, WorkerTypeOK, WorkflowTypeOK,
     Alone, ItemSound, Posting
<1>7. PlanSound'
  BY <1>1 DEF IInv, TypeOK, StoreTypeOK, WorkerTypeOK, WorkflowTypeOK,
     Alone, PlanSound
<1>8. CountSound'
  BY <1>1 DEF IInv, TypeOK, StoreTypeOK, WorkerTypeOK, WorkflowTypeOK,
     Alone, CountSound, InHand, Uncounted
<1>9. SourceSound'
  BY <1>1 DEF IInv, TypeOK, StoreTypeOK, WorkerTypeOK, WorkflowTypeOK,
     Alone, SourceSound
<1> QED
  BY <1>2, <1>3, <1>4, <1>5, <1>6, <1>7, <1>8, <1>9 DEF IInv

LEMMA UnwoundKeeps ==
  ASSUME IInv, TypeOK', NEW w \in Workers, Finish(w) \/ Crash(w), UNCHANGED
         workflowVars
  PROVE  IInv'
<1> USE DEF Finish, Crash, At, Unwind, storeVars, workflowVars
<1>1. Alone(w)
  BY SoloRun
<1>2. Unwind(w) /\ UNCHANGED storeVars
  OBVIOUS
<1>3. crashes' = crashes + 1 \/ (crashes' = crashes /\ pc[w] = "finish")
  OBVIOUS
<1>4. LockSound' /\ OpenSound' /\ BatchSound' /\ ItemSound' /\ PlanSound'
     /\ SourceSound'
  BY <1>1, <1>2, UnwindKeeps DEF IInv, TypeOK, StoreTypeOK, WorkerTypeOK,
     WorkflowTypeOK
<1>5. \A j \in Items : ~InHand(j)'
  BY <1>1, <1>2, UnwindIdles DEF IInv, TypeOK, StoreTypeOK, WorkerTypeOK,
     WorkflowTypeOK, InHand, Uncounted
<1>6. pc[w] = "finish" => \A j \in Items : ~InHand(j)
  BY <1>1 DEF IInv, TypeOK, StoreTypeOK, WorkerTypeOK, WorkflowTypeOK,
     Alone, InHand, Uncounted
<1>7. SentSound' /\ ExecutionSound' /\ AttemptsBounded' /\
     DeliveredHasLead' /\ LiveOnlyAfterBackfill'
  BY DEF IInv, SentSound, ExecutionSound, AttemptsBounded, DeliveredHasLead,
     LiveOnlyAfterBackfill
<1>8. CountSound'
  <2>1. UNCHANGED <<posts, attempts>> /\ crashes \in Nat /\ posts \in [Items -> Nat]
        /\ attempts \in [Items -> Nat]
    BY <1>2 DEF IInv, TypeOK, StoreTypeOK, WorkerTypeOK, storeVars
  <2>2. CASE crashes' = crashes + 1
    BY <1>5, <2>1, <2>2 DEF IInv, CountSound
  <2>3. CASE crashes' = crashes /\ pc[w] = "finish"
    BY <1>5, <1>6, <2>1, <2>3 DEF IInv, CountSound
  <2> QED
    BY <1>3, <2>2, <2>3
<1> QED
  BY <1>7, <1>4, <1>8 DEF IInv

LEMMA AbortKeeps ==
  ASSUME IInv, TypeOK', NEW w \in Workers, Abort(w), UNCHANGED workflowVars
  PROVE  IInv'
<1> USE DEF Abort, At, Unwind, workflowVars
<1>1. Alone(w)
  BY SoloRun
<1>2. /\ \A j \in Items : CommitsAs(w, j)
     /\ SentSound' /\ LiveOnlyAfterBackfill'
  BY <1>1, CommitKeeps DEF IInv, TypeOK, StoreTypeOK, WorkerTypeOK,
     WorkflowTypeOK
<1>3. LockSound' /\ OpenSound' /\ BatchSound' /\ ItemSound' /\ PlanSound'
     /\ SourceSound'
  BY <1>1, UnwindKeeps DEF IInv, TypeOK, StoreTypeOK, WorkerTypeOK,
     WorkflowTypeOK
<1>4. \A j \in Items : ~InHand(j)'
  BY <1>1, UnwindIdles DEF IInv, TypeOK, StoreTypeOK, WorkerTypeOK,
     WorkflowTypeOK, InHand, Uncounted
<1>5. \A j \in Items : ~InHand(j)
  BY <1>1 DEF IInv, TypeOK, StoreTypeOK, WorkerTypeOK, WorkflowTypeOK,
     Alone, InHand, Uncounted
<1>6. ExecutionSound' /\ AttemptsBounded' /\ DeliveredHasLead'
  BY DEF IInv, ExecutionSound, AttemptsBounded, DeliveredHasLead
<1>7. CountSound'
  BY <1>1, <1>4, <1>5 DEF IInv, TypeOK, StoreTypeOK, WorkerTypeOK,
     WorkflowTypeOK, CountSound
<1> QED
  BY <1>6, <1>3, <1>2, <1>7 DEF IInv

LEMMA BeginKeeps ==
  ASSUME IInv, TypeOK', NEW e \in Executions, NEW i \in Items, Begin(e, i),
         UNCHANGED workerVars
  PROVE  IInv'
<1> USE DEF Begin, Taken, NotYetDelivered, workerVars
<1>1. LockSound' /\ OpenSound' /\ BatchSound' /\ ItemSound' /\
     PlanSound' /\ CountSound' /\ SourceSound' /\ AttemptsBounded' /\
     DeliveredHasLead' /\ LiveOnlyAfterBackfill'
  BY DEF IInv, LockSound, OpenSound, BatchSound, ItemSound, PlanSound,
     CountSound, SourceSound, AttemptsBounded, DeliveredHasLead,
     LiveOnlyAfterBackfill, InHand
<1>2. SentSound'
  BY DEF IInv, TypeOK, StoreTypeOK, WorkerTypeOK, WorkflowTypeOK, SentSound
<1>3. ExecutionSound'
  BY DEF IInv, TypeOK, StoreTypeOK, WorkerTypeOK, WorkflowTypeOK,
     ExecutionSound, SentSound
<1> QED
  BY <1>1, <1>2, <1>3 DEF IInv

LEMMA ClassifyKeeps ==
  ASSUME IInv, TypeOK', NEW e \in Executions, Classify(e), UNCHANGED
         workerVars
  PROVE  IInv'
<1> USE DEF Classify, storeVars, workerVars
<1>1. LockSound' /\ OpenSound' /\ BatchSound' /\ ItemSound' /\
     PlanSound' /\ SentSound' /\ CountSound' /\ SourceSound' /\
     AttemptsBounded' /\ DeliveredHasLead' /\ LiveOnlyAfterBackfill'
  BY DEF IInv, LockSound, OpenSound, BatchSound, ItemSound, PlanSound,
     SentSound, CountSound, SourceSound, AttemptsBounded, DeliveredHasLead,
     LiveOnlyAfterBackfill, InHand
<1>2. ExecutionSound'
  BY DEF IInv, TypeOK, StoreTypeOK, WorkerTypeOK, WorkflowTypeOK,
     ExecutionSound
<1> QED
  BY <1>1, <1>2 DEF IInv

LEMMA CreateLeadKeeps ==
  ASSUME IInv, TypeOK', NEW e \in Executions, CreateLead(e), UNCHANGED
         workerVars
  PROVE  IInv'
<1> USE DEF CreateLead, storeVars, workerVars
<1>1. LockSound' /\ OpenSound' /\ BatchSound' /\ ItemSound' /\
     PlanSound' /\ SentSound' /\ CountSound' /\ SourceSound' /\
     AttemptsBounded' /\ LiveOnlyAfterBackfill'
  BY DEF IInv, LockSound, OpenSound, BatchSound, ItemSound, PlanSound,
     SentSound, CountSound, SourceSound, AttemptsBounded,
     LiveOnlyAfterBackfill, InHand
<1>2. ExecutionSound'
  BY DEF IInv, TypeOK, StoreTypeOK, WorkerTypeOK, WorkflowTypeOK,
     ExecutionSound
<1>3. DeliveredHasLead'
  BY DEF IInv, TypeOK, StoreTypeOK, WorkerTypeOK, WorkflowTypeOK,
     DeliveredHasLead
<1> QED
  BY <1>1, <1>2, <1>3 DEF IInv

LEMMA MarkDoneKeeps ==
  ASSUME IInv, TypeOK', NEW e \in Executions, MarkDone(e), UNCHANGED
         workerVars
  PROVE  IInv'
<1> USE DEF MarkDone, End, workerVars
<1>1. subject[e] \in Items /\ posts[subject[e]] > 0
  BY DEF IInv, TypeOK, StoreTypeOK, WorkerTypeOK, WorkflowTypeOK,
     ExecutionSound
<1>2. OpenSound' /\ BatchSound' /\ ItemSound' /\ PlanSound' /\ SentSound'
     /\ LiveOnlyAfterBackfill'
  BY <1>1, FinishedKeeps DEF IInv, TypeOK, StoreTypeOK, WorkerTypeOK,
     WorkflowTypeOK
<1>3. LockSound' /\ CountSound' /\ SourceSound' /\ AttemptsBounded'
  BY DEF IInv, LockSound, CountSound, SourceSound, AttemptsBounded, InHand
<1>4. ExecutionSound'
  BY NoneIsNothing DEF IInv, TypeOK, StoreTypeOK, WorkerTypeOK,
     WorkflowTypeOK, ExecutionSound
<1>5. DeliveredHasLead'
  BY DEF IInv, TypeOK, StoreTypeOK, WorkerTypeOK, WorkflowTypeOK,
     DeliveredHasLead, ExecutionSound
<1> QED
  BY <1>3, <1>2, <1>4, <1>5 DEF IInv

LEMMA MarkHandledKeeps ==
  ASSUME IInv, TypeOK', NEW e \in Executions, MarkHandled(e), UNCHANGED
         workerVars
  PROVE  IInv'
<1> USE DEF MarkHandled, End, workerVars
<1>1. subject[e] \in Items /\ posts[subject[e]] > 0
  BY DEF IInv, TypeOK, StoreTypeOK, WorkerTypeOK, WorkflowTypeOK,
     ExecutionSound
<1>2. OpenSound' /\ BatchSound' /\ ItemSound' /\ PlanSound' /\ SentSound'
     /\ LiveOnlyAfterBackfill'
  BY <1>1, FinishedKeeps DEF IInv, TypeOK, StoreTypeOK, WorkerTypeOK,
     WorkflowTypeOK
<1>3. LockSound' /\ CountSound' /\ SourceSound' /\ AttemptsBounded' /\
     DeliveredHasLead'
  BY DEF IInv, LockSound, CountSound, SourceSound, AttemptsBounded,
     DeliveredHasLead, InHand
<1>4. ExecutionSound'
  BY NoneIsNothing DEF IInv, TypeOK, StoreTypeOK, WorkerTypeOK,
     WorkflowTypeOK, ExecutionSound
<1> QED
  BY <1>3, <1>2, <1>4 DEF IInv

LEMMA FailKeeps ==
  ASSUME IInv, TypeOK', NEW e \in Executions, Fail(e), UNCHANGED workerVars
  PROVE  IInv'
<1> USE DEF Fail, End, storeVars, workerVars
<1>1. LockSound' /\ OpenSound' /\ BatchSound' /\ ItemSound' /\
     PlanSound' /\ SentSound' /\ CountSound' /\ SourceSound' /\
     AttemptsBounded' /\ DeliveredHasLead' /\ LiveOnlyAfterBackfill'
  BY DEF IInv, LockSound, OpenSound, BatchSound, ItemSound, PlanSound,
     SentSound, CountSound, SourceSound, AttemptsBounded, DeliveredHasLead,
     LiveOnlyAfterBackfill, InHand
<1>2. ExecutionSound'
  BY NoneIsNothing DEF IInv, TypeOK, StoreTypeOK, WorkerTypeOK,
     WorkflowTypeOK, ExecutionSound
<1> QED
  BY <1>1, <1>2 DEF IInv

LEMMA TickKeeps ==
  ASSUME IInv, TypeOK', Tick, UNCHANGED <<workerVars, workflowVars>>
  PROVE  IInv'
<1>1. UNCHANGED <<status, attempts, delivered_at, backfilled_at, webhook, posts>>
  BY DEF Tick, RetryWindowEnds, ItemAges, PayloadAges
<1> QED
  BY <1>1 DEF IInv, workerVars, workflowVars, LockSound, OpenSound, BatchSound,
     ItemSound, PlanSound, SentSound, CountSound, InHand, ExecutionSound,
     SourceSound, AttemptsBounded, DeliveredHasLead, LiveOnlyAfterBackfill

LEMMA StepIInv == IInv /\ [Next]_vars => IInv'
<1> SUFFICES ASSUME IInv, [Next]_vars PROVE IInv'
  OBVIOUS
<1>0. TypeOK'
  BY StepTypeOK DEF IInv
<1>1. CASE WorkerNext /\ UNCHANGED workflowVars
  BY <1>0, <1>1, StartKeeps, BeginSourceKeeps, EndSourcesKeeps, RecordKeeps,
     FetcherRequestKeeps, SourceFailsKeeps, FetchDoneKeeps, SourceDoneKeeps,
     RecordPayloadKeeps, PostKeeps, CountKeeps, SelectKeeps, GiveUpKeeps,
     LeavePendingKeeps, ResendKeeps, RecountKeeps, EndSweepKeeps, PruneKeeps,
     UnwoundKeeps, AbortKeeps
     DEF WorkerNext, RunStep, FetchStep, DeliverStep, SweepStep
<1>2. CASE WorkflowNext /\ UNCHANGED workerVars
  BY <1>0, <1>2, BeginKeeps, ClassifyKeeps, CreateLeadKeeps, MarkDoneKeeps,
     MarkHandledKeeps, FailKeeps DEF WorkflowNext
<1>3. CASE Tick /\ UNCHANGED <<workerVars, workflowVars>>
  BY <1>0, <1>3, TickKeeps
<1>4. CASE UNCHANGED vars
  BY <1>4 DEF vars, IInv, TypeOK, StoreTypeOK, WorkerTypeOK, WorkflowTypeOK,
     LockSound, OpenSound, BatchSound, ItemSound, PlanSound, SentSound,
     CountSound, InHand, ExecutionSound, SourceSound, AttemptsBounded,
     DeliveredHasLead, LiveOnlyAfterBackfill
<1> QED
  BY <1>1, <1>2, <1>3, <1>4 DEF Next

LEMMA InvariantHolds == Spec => []IInv
  BY InitIInv, StepIInv, PTL DEF Spec

-----------------------------------------------------------------------------
(***************************************************************************)
(* MAX_DELIVERY_ATTEMPTS bounds what deliver and retry_pending count.      *)
(***************************************************************************)
THEOREM AttemptsStayBounded == Spec => []AttemptsBounded
<1>1. IInv => AttemptsBounded
  BY DEF IInv
<1> QED
  BY <1>1, InvariantHolds, PTL

(***************************************************************************)
(* ... and, with one more POST for each run that died, what they send.     *)
(***************************************************************************)
THEOREM PostsStayBounded == Spec => []PostsBounded
<1>1. ASSUME IInv PROVE PostsBounded
  <2> SUFFICES ASSUME NEW i \in Items PROVE posts[i] <= MaxAttempts + crashes
    BY DEF PostsBounded
  <2>1. /\ posts[i] \in Nat /\ attempts[i] \in Nat /\ crashes \in Nat
        /\ MaxAttempts \in Nat
    BY <1>1, MaxAttemptsPos DEF IInv, TypeOK, StoreTypeOK, WorkerTypeOK
  <2>2. CASE InHand(i)
    <3>1. attempts[i] < MaxAttempts
      BY <1>1, <2>2 DEF IInv, ItemSound, InHand, Posting, Uncounted
    <3> QED
      BY <1>1, <2>1, <2>2, <3>1 DEF IInv, CountSound
  <2>3. CASE ~InHand(i)
    BY <1>1, <2>1, <2>3 DEF IInv, CountSound, AttemptsBounded
  <2> QED
    BY <2>2, <2>3
<1> QED
  BY <1>1, InvariantHolds, PTL

(***************************************************************************)
(* What _record stored as seeded or filtered is never POSTed.              *)
(***************************************************************************)
THEOREM HistoryStaysHome == Spec => []HistoryNeverSent
<1>1. ASSUME IInv PROVE HistoryNeverSent
  BY <1>1 DEF IInv, SentSound, HistoryNeverSent
<1> QED
  BY <1>1, InvariantHolds, PTL

(***************************************************************************)
(* When "FINAL: mark done" has set delivered_at, a lead exists.            *)
(***************************************************************************)
THEOREM DeliveredMeansLead == Spec => []DeliveredHasLead
<1>1. IInv => DeliveredHasLead
  BY DEF IInv
<1> QED
  BY <1>1, InvariantHolds, PTL

(***************************************************************************)
(* run_once's lock keeps a sweep away from items still being delivered.    *)
(***************************************************************************)
THEOREM SweepKeepsAway == Spec => []NotSweptWhileDelivered
<1>1. ASSUME IInv PROVE NotSweptWhileDelivered
  <2> SUFFICES ASSUME NEW v \in Workers, NEW w \in Workers, NEW i \in Items,
                      i \in batch[v] \/ item[v] = i, plan[w][i] # "none"
               PROVE  FALSE
    BY DEF NotSweptWhileDelivered
  <2>1. pc[w] \in {"sweep", "recount"} /\ item[w] # i
    BY <1>1 DEF IInv, PlanSound
  <2>2. Alone(w)
    BY <1>1, <2>1, SoloRun
  <2>3. v = w
    BY <2>2, NoneIsNothing DEF Alone, Holds
  <2> QED
    BY <1>1, <2>1, <2>3 DEF IInv, BatchSound
<1> QED
  BY <1>1, InvariantHolds, PTL

(***************************************************************************)
(* A row becomes deliverable only after its source's backfill.             *)
(***************************************************************************)
THEOREM LiveAfterBackfill == Spec => []LiveOnlyAfterBackfill
<1>1. IInv => LiveOnlyAfterBackfill
  BY DEF IInv
<1> QED
  BY <1>1, InvariantHolds, PTL

(***************************************************************************)
(* No UPDATE takes a row back, or a history row out of its status.         *)
(***************************************************************************)
THEOREM RowsAreForGood == Spec => RecordedForGood
<1> DEFINE Kept(i) == /\ status[i] # "none"   => status'[i] # "none"
                      /\ status[i] \in History => status'[i] = status[i]
<1>1. ASSUME IInv, [Next]_vars PROVE [\A i \in Items : Kept(i)]_vars
  <2> SUFFICES ASSUME NEW i \in Items PROVE Kept(i)
    OBVIOUS
  <2>1. CASE status' = status
    BY <2>1
  <2>2. ASSUME NEW w \in Workers, status' = Committed(w) PROVE Kept(i)
    BY <1>1, <2>2 DEF IInv, OpenSound, Committed, History
  <2>3. ASSUME NEW j \in Items, status[j] \in Live, NEW st \in Live,
               status' = [status EXCEPT ![j] = st]
        PROVE  Kept(i)
    BY <1>1, <2>3 DEF IInv, TypeOK, StoreTypeOK, Live, History
  <2>4. ASSUME NEW w \in Workers, NEW j \in Items, GiveUp(w, j) PROVE Kept(i)
    <3>1. status[j] \in Live /\ "dead" \in Live
      BY <1>1, <2>4 DEF IInv, PlanSound, GiveUp, Live
    <3> QED
      BY <2>3, <2>4, <3>1 DEF GiveUp
  <2>5. ASSUME NEW e \in Executions, MarkDone(e) \/ MarkHandled(e) PROVE Kept(i)
    <3>1. /\ subject[e] \in Items /\ status[subject[e]] \in Live
          /\ "done" \in Live
      BY <1>1, <2>5 DEF IInv, ExecutionSound, SentSound, MarkDone, MarkHandled, Live
    <3> QED
      BY <2>3, <2>5, <3>1 DEF MarkDone, MarkHandled
  <2>6. CASE WorkerNext
    <3>1. ASSUME NEW w \in Workers,
                 \/ \E seed \in BOOLEAN : Start(w, seed)
                 \/ RunStep(w)
                 \/ Crash(w)
                 \/ Abort(w)
          PROVE  \/ status' = status
                 \/ status' = Committed(w)
                 \/ \E j \in Items : GiveUp(w, j)
      BY <3>1 DEF RunStep, FetchStep, DeliverStep, SweepStep, Start, Crash,
         Abort, BeginSource, EndSources, Record, FetcherRequest, SourceFails,
         FetchDone, RecordPayload, Post, Count, SourceDone, Select,
         LeavePending, Resend, Recount, EndSweep, Prune, Finish, storeVars
    <3> QED
      BY <2>1, <2>2, <2>4, <2>6, <3>1 DEF WorkerNext
  <2>7. CASE WorkflowNext
    <3>1. ASSUME NEW e \in Executions,
                 (\E j \in Items : Begin(e, j)) \/ Classify(e) \/ CreateLead(e)
                 \/ Fail(e)
          PROVE  status' = status
      BY <3>1 DEF Begin, Classify, CreateLead, Fail, storeVars
    <3> QED
      BY <2>1, <2>5, <2>7, <3>1 DEF WorkflowNext
  <2>8. CASE Tick \/ UNCHANGED vars
    BY <2>1, <2>8 DEF Tick, RetryWindowEnds, ItemAges, PayloadAges, vars
  <2> QED
    BY <1>1, <2>6, <2>7, <2>8 DEF Next
<1>2. Spec => [][\A i \in Items : Kept(i)]_vars
  BY <1>1, InvariantHolds, PTL DEF Spec
<1> QED
  BY <1>2 DEF RecordedForGood

-----------------------------------------------------------------------------
(***************************************************************************)
(* RfpDelivery implements LeadLifecycle: every step of a worker, of an     *)
(* execution or of time is a step of the item's life as the CRM sees it,   *)
(* or changes nothing in it.                                               *)
(*                                                                         *)
(* Leads answer sends.  What IInv says of executions is too little for     *)
(* that: requests the webhook holds, and executions that may still create  *)
(* a lead, each have a send of their own, too.  How many executions n8n    *)
(* runs is left open; that those at work are finitely many is part of the  *)
(* invariant.                                                              *)
(***************************************************************************)
Awaiting(i) == {e \in Executions : subject[e] = i /\ stage[e] \in {"classify", "enrich"}}

LeadSound ==
    \A i \in Items :
        /\ IsFiniteSet(Awaiting(i))
        /\ leads[i] + Cardinality(Awaiting(i)) + webhook[i] <= posts[i]

\* Nothing is awaited any more that was not, and no request is taken.
LEMMA FewerAwaited ==
  ASSUME LeadSound, TypeOK, UNCHANGED <<leads, webhook, posts>>,
         \A i \in Items : Awaiting(i)' \subseteq Awaiting(i)
  PROVE  LeadSound'
<1> SUFFICES ASSUME NEW i \in Items
             PROVE  /\ IsFiniteSet(Awaiting(i)')
                    /\ leads[i] + Cardinality(Awaiting(i)') + webhook[i] <= posts[i]
  BY DEF LeadSound
<1>1. IsFiniteSet(Awaiting(i)) /\ leads[i] + Cardinality(Awaiting(i)) + webhook[i] <= posts[i]
  BY DEF LeadSound
<1>2. IsFiniteSet(Awaiting(i)') /\ Cardinality(Awaiting(i)') <= Cardinality(Awaiting(i))
  BY <1>1, FS_Subset
<1>3. Cardinality(Awaiting(i)) \in Nat /\ Cardinality(Awaiting(i)') \in Nat
  BY <1>1, <1>2, FS_CardinalityType
<1>4. leads[i] \in Nat /\ webhook[i] \in Nat /\ posts[i] \in Nat
  BY DEF TypeOK, StoreTypeOK, WorkflowTypeOK
<1> QED
  BY <1>1, <1>2, <1>3, <1>4

\* What the webhook accepts was sent.
Accepts(i) ==
    \/ webhook'[i] = webhook[i] /\ posts'[i] = posts[i]
    \/ webhook'[i] <= webhook[i] + 1 /\ posts'[i] = posts[i] + 1

\* Executions stand still.
LEMMA NoExecutionMoves ==
  ASSUME LeadSound, TypeOK, TypeOK', UNCHANGED <<stage, subject, leads>>,
         \A i \in Items : Accepts(i)
  PROVE  LeadSound'
<1> SUFFICES ASSUME NEW i \in Items
             PROVE  /\ IsFiniteSet(Awaiting(i)')
                    /\ leads'[i] + Cardinality(Awaiting(i)') + webhook'[i] <= posts'[i]
  BY DEF LeadSound
<1>1. Awaiting(i)' = Awaiting(i) /\ leads' = leads
  BY DEF Awaiting
<1>2. IsFiniteSet(Awaiting(i)) /\ leads[i] + Cardinality(Awaiting(i)) + webhook[i] <= posts[i]
  BY DEF LeadSound
<1>3. Cardinality(Awaiting(i)) \in Nat
  BY <1>2, FS_CardinalityType
<1>4. /\ leads[i] \in Nat /\ webhook[i] \in Nat /\ posts[i] \in Nat
      /\ webhook'[i] \in Nat /\ posts'[i] \in Nat
  BY DEF TypeOK, StoreTypeOK, WorkflowTypeOK
<1>5. Accepts(i)
  OBVIOUS
<1> QED
  BY <1>1, <1>2, <1>3, <1>4, <1>5 DEF Accepts

LEMMA WorkerStepLeads ==
  ASSUME IInv, LeadSound, TypeOK', WorkerNext, UNCHANGED workflowVars
  PROVE  LeadSound'
<1>0. TypeOK /\ UNCHANGED <<stage, subject, leads>>
  BY DEF IInv, workflowVars
<1>1. ASSUME NEW i \in Items, Posted(i)
      PROVE  LeadSound'
  <2>1. webhook \in [Items -> Nat] /\ posts \in [Items -> Nat]
    BY <1>0 DEF TypeOK, StoreTypeOK
  <2>2. \A j \in Items : posts'[j] = IF j = i THEN posts[j] + 1 ELSE posts[j]
    BY <1>1, <2>1 DEF Posted
  <2>3. \A j \in Items : \/ webhook'[j] = webhook[j]
                         \/ j = i /\ webhook'[j] = webhook[j] + 1
    BY <1>1, <2>1 DEF Posted
  <2>4. ASSUME NEW j \in Items PROVE Accepts(j)
    BY <2>1, <2>2, <2>3 DEF Accepts
  <2> QED
    BY <1>0, <2>4, NoExecutionMoves
<1>2. ASSUME UNCHANGED <<webhook, posts>>
      PROVE  LeadSound'
  <2>1. \A j \in Items : Accepts(j)
    BY <1>2 DEF Accepts
  <2> QED
    BY <1>0, <2>1, NoExecutionMoves
<1>3. PICK w \in Workers : \/ \E seed \in BOOLEAN : Start(w, seed)
                           \/ RunStep(w) \/ Crash(w) \/ Abort(w)
  BY DEF WorkerNext
<1>4. CASE (\E seed \in BOOLEAN : Start(w, seed)) \/ Crash(w) \/ Abort(w)
  BY <1>2, <1>4 DEF Start, Crash, Abort, storeVars
<1>5. CASE RunStep(w)
  <2>1. CASE \/ \E s \in Sources : BeginSource(w, s)
             \/ EndSources(w) \/ FetchStep(w) \/ Prune(w) \/ Finish(w)
    BY <1>2, <2>1 DEF BeginSource, EndSources, FetchStep, Record, FetcherRequest, SourceFails,
       FetchDone, Prune, Finish, storeVars
  <2>2. CASE DeliverStep(w)
    <3>1. CASE Post(w)
      <4>1. item[w] \in Items
        BY <3>1 DEF Post, At, IInv, ItemSound, Posting
      <4> QED
        BY <1>1, <3>1, <4>1 DEF Post
    <3>2. CASE ~Post(w)
      BY <1>2, <2>2, <3>2 DEF DeliverStep, RecordPayload, Count, SourceDone
    <3> QED
      BY <3>1, <3>2
  <2>3. CASE SweepStep(w)
    <3>1. CASE \E i \in Items : Resend(w, i)
      BY <1>1, <3>1 DEF Resend
    <3>2. CASE ~\E i \in Items : Resend(w, i)
      BY <1>2, <2>3, <3>2 DEF SweepStep, Select, GiveUp, LeavePending, Recount, EndSweep,
         storeVars
    <3> QED
      BY <3>1, <3>2
  <2> QED
    BY <1>5, <2>1, <2>2, <2>3 DEF RunStep
<1> QED
  BY <1>3, <1>4, <1>5

\* An execution that begins takes its request's place.
LEMMA BeginLeads ==
  ASSUME IInv, LeadSound, TypeOK', NEW e \in Executions, NEW i \in Items, Begin(e, i)
  PROVE  LeadSound'
<1>0. /\ stage \in [Executions -> Stages] /\ subject \in [Executions -> Items \union {None}]
      /\ webhook \in [Items -> Nat] /\ posts \in [Items -> Nat] /\ leads \in [Items -> Nat]
      /\ webhook' \in [Items -> Nat]
  BY DEF IInv, TypeOK, StoreTypeOK, WorkflowTypeOK
<1>1. /\ \A j \in Items : webhook'[j] = IF j = i THEN webhook[j] - 1 ELSE webhook[j]
      /\ UNCHANGED <<posts, leads>> /\ stage[e] = "free"
  BY <1>0 DEF Begin, Taken
<1>2. Awaiting(i)' \subseteq Awaiting(i) \union {e}
  BY <1>0 DEF Begin, Awaiting
<1>3. \A j \in Items \ {i} : Awaiting(j)' \subseteq Awaiting(j)
  BY <1>0 DEF Begin, Awaiting
<1> SUFFICES ASSUME NEW j \in Items
             PROVE  /\ IsFiniteSet(Awaiting(j)')
                    /\ leads'[j] + Cardinality(Awaiting(j)') + webhook'[j] <= posts'[j]
  BY DEF LeadSound
<1>4. /\ IsFiniteSet(Awaiting(j)) /\ Cardinality(Awaiting(j)) \in Nat
      /\ leads[j] + Cardinality(Awaiting(j)) + webhook[j] <= posts[j]
  BY FS_CardinalityType DEF LeadSound
<1>5. /\ IsFiniteSet(Awaiting(j) \union {e}) /\ Cardinality(Awaiting(j) \union {e}) \in Nat
      /\ Cardinality(Awaiting(j) \union {e}) <= Cardinality(Awaiting(j)) + 1
  <2> DEFINE A == Awaiting(j)
  <2> HIDE DEF A
  <2>1. IsFiniteSet(A) /\ Cardinality(A) \in Nat
    BY <1>4 DEF A
  <2>2. /\ IsFiniteSet(A \union {e})
        /\ Cardinality(A \union {e}) = Cardinality(A) \/ Cardinality(A \union {e}) = Cardinality(A) + 1
    BY <2>1, FS_AddElement
  <2>3. Cardinality(A \union {e}) \in Nat
    BY <2>2, FS_CardinalityType
  <2>4. Cardinality(A \union {e}) <= Cardinality(A) + 1
    BY <2>1, <2>2
  <2> QED
    BY <2>2, <2>3, <2>4 DEF A
<1>6. CASE j = i
  <2>1. IsFiniteSet(Awaiting(j)') /\ Cardinality(Awaiting(j)') <= Cardinality(Awaiting(j) \union {e})
    BY <1>2, <1>5, <1>6, FS_Subset
  <2>2. Cardinality(Awaiting(j)') \in Nat
    BY <2>1, FS_CardinalityType
  <2> QED
    BY <1>0, <1>1, <1>4, <1>5, <1>6, <2>1, <2>2
<1>7. CASE j # i
  <2>1. IsFiniteSet(Awaiting(j)') /\ Cardinality(Awaiting(j)') <= Cardinality(Awaiting(j))
    BY <1>3, <1>4, <1>7, FS_Subset
  <2>2. Cardinality(Awaiting(j)') \in Nat
    BY <2>1, FS_CardinalityType
  <2> QED
    BY <1>0, <1>1, <1>4, <1>7, <2>1, <2>2
<1> QED
  BY <1>6, <1>7

\* A lead takes its execution's place.
LEMMA CreateLeadLeads ==
  ASSUME IInv, LeadSound, TypeOK', NEW e \in Executions, CreateLead(e)
  PROVE  LeadSound'
<1> DEFINE i == subject[e]
<1>0. /\ stage \in [Executions -> Stages] /\ subject \in [Executions -> Items \union {None}]
      /\ webhook \in [Items -> Nat] /\ posts \in [Items -> Nat] /\ leads \in [Items -> Nat]
      /\ stage[e] = "enrich"
  BY DEF IInv, TypeOK, StoreTypeOK, WorkflowTypeOK, CreateLead
<1>1. i \in Items
  BY <1>0 DEF IInv, ExecutionSound
<1>2. /\ \A j \in Items : leads'[j] = IF j = i THEN leads[j] + 1 ELSE leads[j]
      /\ UNCHANGED <<posts, webhook, subject>>
  BY <1>0, <1>1 DEF CreateLead, storeVars
<1>3. /\ e \in Awaiting(i)
      /\ \A j \in Items : Awaiting(j)' \subseteq Awaiting(j) \ {e}
  BY <1>0 DEF CreateLead, Awaiting
<1> HIDE DEF i
<1> SUFFICES ASSUME NEW j \in Items
             PROVE  /\ IsFiniteSet(Awaiting(j)')
                    /\ leads'[j] + Cardinality(Awaiting(j)') + webhook'[j] <= posts'[j]
  BY DEF LeadSound
<1>4. /\ IsFiniteSet(Awaiting(j)) /\ Cardinality(Awaiting(j)) \in Nat
      /\ leads[j] + Cardinality(Awaiting(j)) + webhook[j] <= posts[j]
  BY FS_CardinalityType DEF LeadSound
<1>5. CASE j = i
  <2>1. /\ IsFiniteSet(Awaiting(j) \ {e})
        /\ Cardinality(Awaiting(j) \ {e}) = Cardinality(Awaiting(j)) - 1
    BY <1>3, <1>4, <1>5, FS_RemoveElement
  <2>2. /\ IsFiniteSet(Awaiting(j)')
        /\ Cardinality(Awaiting(j)') <= Cardinality(Awaiting(j) \ {e})
    BY <1>3, <2>1, FS_Subset
  <2>3. Cardinality(Awaiting(j)') \in Nat
    BY <2>2, FS_CardinalityType
  <2> QED
    BY <1>0, <1>2, <1>4, <1>5, <2>1, <2>2, <2>3
<1>6. CASE j # i
  <2>0. Awaiting(j)' \subseteq Awaiting(j)
    BY <1>3
  <2>1. IsFiniteSet(Awaiting(j)') /\ Cardinality(Awaiting(j)') <= Cardinality(Awaiting(j))
    BY <1>4, <2>0, FS_Subset
  <2>2. Cardinality(Awaiting(j)') \in Nat
    BY <2>1, FS_CardinalityType
  <2> QED
    BY <1>0, <1>2, <1>4, <1>6, <2>1, <2>2
<1> QED
  BY <1>5, <1>6

LEMMA StepLeads == IInv /\ LeadSound /\ [Next]_vars => LeadSound'
<1> SUFFICES ASSUME IInv, LeadSound, [Next]_vars PROVE LeadSound'
  OBVIOUS
<1>0. TypeOK /\ TypeOK'
  BY StepTypeOK DEF IInv
<1>1. CASE WorkerNext /\ UNCHANGED workflowVars
  BY <1>0, <1>1, WorkerStepLeads
<1>2. CASE WorkflowNext /\ UNCHANGED workerVars
  <2>1. PICK e \in Executions : \/ \E i \in Items : Begin(e, i)
                                \/ Classify(e) \/ CreateLead(e) \/ MarkDone(e)
                                \/ MarkHandled(e) \/ Fail(e)
    BY <1>2 DEF WorkflowNext
  <2>2. stage \in [Executions -> Stages] /\ subject \in [Executions -> Items \union {None}]
    BY <1>0 DEF TypeOK, WorkflowTypeOK
  <2>3. CASE Classify(e)
    <3>1. UNCHANGED <<leads, webhook, posts>>
      BY <2>3 DEF Classify, storeVars
    <3>2. \A i \in Items : Awaiting(i)' \subseteq Awaiting(i)
      BY <2>2, <2>3 DEF Classify, Awaiting
    <3> QED
      BY <1>0, <3>1, <3>2, FewerAwaited
  <2>4. CASE MarkDone(e) \/ MarkHandled(e) \/ Fail(e)
    <3>1. UNCHANGED <<leads, webhook, posts>> /\ End(e)
      BY <2>4 DEF MarkDone, MarkHandled, Fail, storeVars
    <3>2. \A i \in Items : Awaiting(i)' \subseteq Awaiting(i)
      BY <2>2, <3>1 DEF End, Awaiting
    <3> QED
      BY <1>0, <3>1, <3>2, FewerAwaited
  <2> QED
    BY <1>0, <2>1, <2>3, <2>4, BeginLeads, CreateLeadLeads
<1>3. CASE Tick /\ UNCHANGED <<workerVars, workflowVars>>
  <2>1. UNCHANGED <<webhook, posts, stage, subject, leads>>
    BY <1>3 DEF Tick, RetryWindowEnds, ItemAges, PayloadAges, workflowVars
  <2>2. \A j \in Items : Accepts(j)
    BY <2>1 DEF Accepts
  <2> QED
    BY <1>0, <2>1, <2>2, NoExecutionMoves
<1>4. CASE UNCHANGED vars
  <2>1. UNCHANGED <<webhook, posts, stage, subject, leads>>
    BY <1>4 DEF vars
  <2>2. \A j \in Items : Accepts(j)
    BY <2>1 DEF Accepts
  <2> QED
    BY <1>0, <2>1, <2>2, NoExecutionMoves
<1> QED
  BY <1>1, <1>2, <1>3, <1>4 DEF Next

LEMMA LeadsAnswerSends == Spec => []LeadSound
<1>1. Init => LeadSound
  <2> SUFFICES ASSUME Init PROVE LeadSound
    OBVIOUS
  <2>1. \A i \in Items : Awaiting(i) = {}
    BY DEF Init, WorkflowInit, Awaiting
  <2>2. IsFiniteSet({}) /\ Cardinality({}) = 0
    BY FS_EmptySet
  <2>3. \A i \in Items : leads[i] = 0 /\ webhook[i] = 0 /\ posts[i] = 0
    BY DEF Init, WorkflowInit, StoreInit
  <2> QED
    BY <2>1, <2>2, <2>3 DEF LeadSound
<1> QED
  BY <1>1, StepLeads, InvariantHolds, PTL DEF Spec

-----------------------------------------------------------------------------
(***************************************************************************)
(* Step by step.  Each lemma maps the steps that share an outcome.         *)
(***************************************************************************)
ItemStanding == [i \in Items |-> Standing(i)]

\* What the CRM sees of a worker's commit is that items get their standing.
LEMMA CommitIsRecorded ==
  ASSUME IInv, NEW w \in Workers, status' = Committed(w),
         UNCHANGED <<posts, leads>>, crashes' \in {crashes, crashes + 1}
  PROVE  Lifecycle!Recorded
<1>1. /\ status \in [Items -> Status]
      /\ open[w] \in [Items -> {"none", "pending"} \union History]
  BY DEF IInv, TypeOK, StoreTypeOK, WorkerTypeOK
<1>2. \A i \in Items : open[w][i] # "none" => status[i] = "none"
  BY DEF IInv, OpenSound
<1>3. status' \in [Items -> Status]
  BY <1>1 DEF Committed, Status, Live
<1>4. \A i \in Items :
        \/ status'[i] = status[i]
        \/ status[i] = "none" /\ status'[i] \in {"pending"} \union History
  BY <1>1, <1>2 DEF Committed
<1>5. ItemStanding' \in [Items -> Lifecycle!Recordable \union Lifecycle!Sendable \union {"unseen"}]
  BY <1>3 DEF ItemStanding, Standing, Status, Live, History, Lifecycle!Recordable,
     Lifecycle!Sendable
<1>6. \A i \in Items :
        \/ ItemStanding'[i] = ItemStanding[i]
        \/ ItemStanding[i] = "unseen" /\ ItemStanding'[i] \in Lifecycle!Recordable
  BY <1>4 DEF ItemStanding, Standing, History, Lifecycle!Recordable
<1> QED
  BY <1>5, <1>6 DEF ItemStanding, Lifecycle!Recorded

\* A run that ends early without a commit is a loss and nothing else.
LEMMA CrashIsRecorded ==
  ASSUME IInv, UNCHANGED <<status, posts, leads>>, crashes' = crashes + 1
  PROVE  Lifecycle!Recorded
<1>1. status \in [Items -> Status]
  BY DEF IInv, TypeOK, StoreTypeOK
<1>2. ItemStanding' = ItemStanding
  BY DEF ItemStanding, Standing
<1>3. ItemStanding \in [Items -> Lifecycle!Recordable \union Lifecycle!Sendable \union {"unseen"}]
  BY <1>1 DEF ItemStanding, Standing, Status, Live, History, Lifecycle!Recordable,
     Lifecycle!Sendable
<1> QED
  BY <1>2, <1>3 DEF ItemStanding, Lifecycle!Recorded

\* A request for an item nobody holds as sent: there is room for it.
LEMMA PostIsSend ==
  ASSUME IInv, NEW i \in Items, status[i] \in Live, attempts[i] < MaxAttempts,
         ~InHand(i), Posted(i), UNCHANGED <<status, leads, crashes>>
  PROVE  Lifecycle!Send(i)
<1>1. /\ posts \in [Items -> Nat] /\ posts[i] \in Nat
      /\ attempts[i] \in Nat /\ crashes \in Nat /\ MaxAttempts \in Nat
  BY MaxAttemptsPos DEF IInv, TypeOK, StoreTypeOK, WorkerTypeOK
<1>2. posts[i] <= attempts[i] + crashes
  BY <1>1 DEF IInv, CountSound
<1>3. posts[i] < MaxAttempts + crashes
  BY <1>1, <1>2
<1>4. ItemStanding[i] \in Lifecycle!Sendable
  BY DEF ItemStanding, Standing, Live, History, Lifecycle!Sendable
<1>5. ItemStanding' = ItemStanding
  BY DEF ItemStanding, Standing
<1> QED
  BY <1>3, <1>4, <1>5 DEF ItemStanding, Posted, Lifecycle!Send

LEMMA LeadIsLead ==
  ASSUME IInv, LeadSound, NEW e \in Executions, CreateLead(e), UNCHANGED crashes
  PROVE  \E i \in Items : Lifecycle!Lead(i)
<1> DEFINE i == subject[e]
<1>1. i \in Items /\ e \in Awaiting(i)
  BY DEF IInv, ExecutionSound, CreateLead, Awaiting
<1> HIDE DEF i
<1>2. /\ IsFiniteSet(Awaiting(i)) /\ Cardinality(Awaiting(i)) \in Nat
      /\ leads[i] + Cardinality(Awaiting(i)) + webhook[i] <= posts[i]
  BY <1>1, FS_CardinalityType DEF LeadSound
<1>3. Cardinality(Awaiting(i)) # 0
  BY <1>1, <1>2, FS_EmptySet
<1>4. leads[i] \in Nat /\ webhook[i] \in Nat /\ posts[i] \in Nat
  BY <1>1 DEF IInv, TypeOK, StoreTypeOK, WorkflowTypeOK
<1>5. leads[i] < posts[i]
  BY <1>2, <1>3, <1>4
<1>6. ItemStanding' = ItemStanding
  BY DEF CreateLead, storeVars, ItemStanding, Standing
<1>7. leads' = [leads EXCEPT ![i] = @ + 1] /\ posts' = posts
  BY DEF CreateLead, storeVars, i
<1> QED
  BY <1>1, <1>5, <1>6, <1>7 DEF ItemStanding, Lifecycle!Lead

\* A live row keeps being live: what becomes of it, the CRM is told.
LEMMA LiveRowMoves ==
  ASSUME IInv, NEW i \in Items, status[i] \in Live, NEW st \in Live,
         status' = [status EXCEPT ![i] = st]
  PROVE  /\ ItemStanding[i] \in Lifecycle!Sendable
         /\ ItemStanding' = [ItemStanding EXCEPT ![i] = st]
<1>1. status \in [Items -> Status]
  BY DEF IInv, TypeOK, StoreTypeOK
<1>2. st \notin History /\ st # "none"
  BY DEF Live, History
<1>3. \A j \in Items : status'[j] = IF j = i THEN st ELSE status[j]
  BY <1>1
<1>4. \A j \in Items : Standing(j)' = IF j = i THEN st ELSE Standing(j)
  BY <1>2, <1>3 DEF Standing
<1>5. ItemStanding[i] \in Lifecycle!Sendable
  BY DEF ItemStanding, Standing, Live, History, Lifecycle!Sendable
<1>6. ItemStanding' = [j \in Items |-> IF j = i THEN st ELSE Standing(j)]
  BY <1>4 DEF ItemStanding
<1>7. [ItemStanding EXCEPT ![i] = st] = [j \in Items |-> IF j = i THEN st ELSE Standing(j)]
  BY DEF ItemStanding
<1> QED
  BY <1>5, <1>6, <1>7

LEMMA GiveUpIsAbandon ==
  ASSUME IInv, NEW w \in Workers, NEW i \in Items, GiveUp(w, i), UNCHANGED leads
  PROVE  Lifecycle!Abandon(i)
<1>1. status[i] \in Live /\ "dead" \in Live
  BY DEF IInv, PlanSound, GiveUp, Live
<1>2. status' = [status EXCEPT ![i] = "dead"] /\ UNCHANGED <<posts, leads, crashes>>
  BY DEF GiveUp
<1>3. /\ ItemStanding[i] \in Lifecycle!Sendable
      /\ ItemStanding' = [ItemStanding EXCEPT ![i] = "dead"]
  BY <1>1, <1>2, LiveRowMoves
<1> QED
  BY <1>2, <1>3 DEF ItemStanding, Lifecycle!Abandon

LEMMA MarkIsSettle ==
  ASSUME IInv, NEW e \in Executions, MarkDone(e) \/ MarkHandled(e), UNCHANGED crashes
  PROVE  \E i \in Items : Lifecycle!Settle(i)
<1> DEFINE i == subject[e]
<1>1. i \in Items /\ posts[i] > 0
  BY DEF IInv, ExecutionSound, MarkDone, MarkHandled
<1>2. status[i] \in Live /\ "done" \in Live
  BY <1>1 DEF IInv, SentSound, Live
<1>3. status' = [status EXCEPT ![i] = "done"] /\ UNCHANGED <<posts, leads>>
  BY DEF MarkDone, MarkHandled
<1> HIDE DEF i
<1>4. /\ ItemStanding[i] \in Lifecycle!Sendable
      /\ ItemStanding' = [ItemStanding EXCEPT ![i] = "done"]
  BY <1>1, <1>2, <1>3, LiveRowMoves
<1> QED
  BY <1>1, <1>3, <1>4 DEF ItemStanding, Lifecycle!Settle

LEMMA UnseenByTheCRM ==
  ASSUME UNCHANGED <<status, posts, leads, crashes>>
  PROVE  UNCHANGED Lifecycle!lifecycleVars
<1>1. ItemStanding' = ItemStanding
  BY DEF ItemStanding, Standing
<1> QED
  BY <1>1 DEF ItemStanding, Lifecycle!lifecycleVars

LEMMA WorkerStepRefines ==
  ASSUME IInv, NEW w \in Workers, UNCHANGED workflowVars,
         \/ \E seed \in BOOLEAN : Start(w, seed)
         \/ RunStep(w) \/ Crash(w) \/ Abort(w)
  PROVE  [Lifecycle!Next]_(Lifecycle!lifecycleVars)
<1>0. UNCHANGED leads
  BY DEF workflowVars
<1>1. ASSUME UNCHANGED <<status, posts, crashes>>
      PROVE  [Lifecycle!Next]_(Lifecycle!lifecycleVars)
  BY <1>0, <1>1, UnseenByTheCRM
<1>2. CASE (\E seed \in BOOLEAN : Start(w, seed))
  BY <1>1, <1>2 DEF Start, storeVars
<1>3. CASE Crash(w)
  <2>1. UNCHANGED <<status, posts, leads>> /\ crashes' = crashes + 1
    BY <1>0, <1>3 DEF Crash, storeVars
  <2> QED
    BY <2>1, CrashIsRecorded DEF Lifecycle!Next
<1>4. CASE Abort(w)
  <2>1. /\ status' = Committed(w) /\ UNCHANGED <<posts, leads>>
        /\ crashes' \in {crashes, crashes + 1}
    BY <1>0, <1>4 DEF Abort
  <2> QED
    BY <2>1, CommitIsRecorded DEF Lifecycle!Next
<1>5. CASE FetchStep(w)
  <2>1. CASE \E i \in Items : Record(w, i)
    BY <1>1, <2>1 DEF Record, storeVars
  <2>2. CASE FetcherRequest(w) \/ SourceFails(w) \/ FetchDone(w)
    <3>1. /\ status' = Committed(w) /\ UNCHANGED <<posts, leads>>
          /\ crashes' \in {crashes, crashes + 1}
      BY <1>0, <2>2 DEF FetcherRequest, SourceFails, FetchDone
    <3> QED
      BY <3>1, CommitIsRecorded DEF Lifecycle!Next
  <2> QED
    BY <1>5, <2>1, <2>2 DEF FetchStep
<1>6. CASE Post(w)
  <2> DEFINE i == item[w]
  <2>1. pc[w] = "post" /\ Posted(i) /\ UNCHANGED <<status, crashes>>
    BY <1>6 DEF Post, At
  <2>2. /\ i \in Items /\ status[i] \in Live /\ attempts[i] < MaxAttempts
    BY <2>1 DEF IInv, ItemSound, Posting
  <2>3. Alone(w)
    BY <2>1, SoloRun
  <2>4. ~InHand(i)
    BY <2>1, <2>3 DEF Alone, InHand, Uncounted
  <2> HIDE DEF i
  <2>5. Lifecycle!Send(i)
    BY <1>0, <2>1, <2>2, <2>4, PostIsSend
  <2> QED
    BY <2>2, <2>5 DEF Lifecycle!Next
<1>7. ASSUME NEW i \in Items, Resend(w, i)
      PROVE  [Lifecycle!Next]_(Lifecycle!lifecycleVars)
  <2>1. pc[w] = "sweep" /\ Posted(i) /\ UNCHANGED <<status, crashes>>
    BY <1>7 DEF Resend, At
  <2>2. status[i] \in Live /\ attempts[i] < MaxAttempts
    BY <1>7 DEF Resend, IInv, PlanSound
  <2>3. Alone(w)
    BY <2>1, SoloRun
  <2>4. ~InHand(i)
    BY <2>1, <2>3 DEF Alone, InHand, Uncounted
  <2>5. Lifecycle!Send(i)
    BY <1>0, <2>1, <2>2, <2>4, PostIsSend
  <2> QED
    BY <2>5 DEF Lifecycle!Next
<1>8. ASSUME NEW i \in Items, GiveUp(w, i)
      PROVE  [Lifecycle!Next]_(Lifecycle!lifecycleVars)
  BY <1>0, <1>8, GiveUpIsAbandon DEF Lifecycle!Next
<1>9. CASE \/ \E s \in Sources : BeginSource(w, s)
           \/ EndSources(w) \/ Prune(w) \/ Finish(w)
           \/ \E i \in Items : RecordPayload(w, i) \/ LeavePending(w, i)
           \/ Count(w) \/ SourceDone(w) \/ Select(w) \/ Recount(w) \/ EndSweep(w)
  <2>1. UNCHANGED <<status, posts, crashes>>
    BY <1>9 DEF BeginSource, EndSources, Prune, Finish, RecordPayload, LeavePending, Count,
       SourceDone, Select, Recount, EndSweep, storeVars
  <2> QED
    BY <1>1, <2>1
<1> QED
  BY <1>2, <1>3, <1>4, <1>5, <1>6, <1>7, <1>8, <1>9 DEF RunStep, DeliverStep, SweepStep

LEMMA StepRefines ==
  ASSUME IInv, LeadSound, [Next]_vars
  PROVE  [Lifecycle!Next]_(Lifecycle!lifecycleVars)
<1>1. CASE WorkerNext /\ UNCHANGED workflowVars
  BY <1>1, WorkerStepRefines DEF WorkerNext
<1>2. CASE WorkflowNext /\ UNCHANGED workerVars
  <2>1. PICK e \in Executions : \/ \E i \in Items : Begin(e, i)
                                \/ Classify(e) \/ CreateLead(e) \/ MarkDone(e)
                                \/ MarkHandled(e) \/ Fail(e)
    BY <1>2 DEF WorkflowNext
  <2>2. UNCHANGED crashes
    BY <1>2 DEF workerVars
  <2>3. CASE (\E i \in Items : Begin(e, i)) \/ Classify(e) \/ Fail(e)
    <3>1. UNCHANGED <<status, posts, leads>>
      BY <2>3 DEF Begin, Classify, Fail, storeVars
    <3> QED
      BY <2>2, <3>1, UnseenByTheCRM
  <2>4. CASE CreateLead(e)
    BY <2>2, <2>4, LeadIsLead DEF Lifecycle!Next
  <2>5. CASE MarkDone(e) \/ MarkHandled(e)
    BY <2>2, <2>5, MarkIsSettle DEF Lifecycle!Next
  <2> QED
    BY <2>1, <2>3, <2>4, <2>5
<1>3. CASE Tick /\ UNCHANGED <<workerVars, workflowVars>>
  <2>1. UNCHANGED <<status, posts, leads, crashes>>
    BY <1>3 DEF Tick, RetryWindowEnds, ItemAges, PayloadAges, workerVars, workflowVars
  <2> QED
    BY <2>1, UnseenByTheCRM
<1>4. CASE UNCHANGED vars
  BY <1>4, UnseenByTheCRM DEF vars
<1> QED
  BY <1>1, <1>2, <1>3, <1>4 DEF Next

(***************************************************************************)
(* Worker and workflow together implement LeadLifecycle: every lead has a  *)
(* send of its own (retry_pending and the executions it starts overlap as  *)
(* they may), sends stay within their bound, and history stays history.    *)
(***************************************************************************)
THEOREM DeliveryImplementsLifecycle == Spec => ImplementsLifecycle
<1>1. Init => Lifecycle!Init
  BY DEF Init, StoreInit, WorkerInit, WorkflowInit, Standing, Lifecycle!Init
<1>2. IInv /\ LeadSound /\ [Next]_vars => [Lifecycle!Next]_(Lifecycle!lifecycleVars)
  BY StepRefines
<1> QED
  BY <1>1, <1>2, InvariantHolds, LeadsAnswerSends, PTL DEF Spec, Lifecycle!Spec,
     ImplementsLifecycle
=============================================================================
