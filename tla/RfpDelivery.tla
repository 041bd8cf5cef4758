----------------------------- MODULE RfpDelivery -----------------------------
(***************************************************************************)
(* Delivery of an item from the worker to a lead: worker processes and     *)
(* n8n executions over one database.  Neither waits for the other; what    *)
(* the worker knows of the workflow's outcome is the row's status, and     *)
(* what it sends is decided on a status that may be out of date.           *)
(***************************************************************************)
EXTENDS WorkerRun, RfpMain

vars == <<status, attempts, delivered_at, due, aged, payload, backfilled_at,
          webhook, posts,
          lock, pc, seedRun, todo, source, seeding, open, batch, item, plan,
          crashes,
          stage, subject, leads>>

Init == StoreInit /\ WorkerInit /\ WorkflowInit

Next ==
    \/ WorkerNext   /\ UNCHANGED workflowVars
    \/ WorkflowNext /\ UNCHANGED workerVars
    \/ Tick         /\ UNCHANGED <<workerVars, workflowVars>>

Spec == Init /\ [][Next]_vars

(***************************************************************************)
(* Fairness.  A run that has begun goes on (its HTTP calls have timeouts,  *)
(* and a fetcher's walk is finite), the loop begins another one as long as *)
(* the lock is free, and time passes.  n8n owes nothing: an execution may  *)
(* be lost.                                                                *)
(***************************************************************************)
Advance(w) ==
    \/ \E s \in Sources : BeginSource(w, s)
    \/ EndSources(w)
    \/ SourceFails(w)
    \/ FetchDone(w)
    \/ DeliverStep(w)
    \/ SweepStep(w)
    \/ Prune(w)
    \/ Finish(w)

Fairness ==
    /\ \A w \in Workers :
         /\ WF_vars(Advance(w) /\ UNCHANGED workflowVars)
         /\ SF_vars(Start(w, FALSE) /\ UNCHANGED workflowVars)
    /\ \A i \in Items :
         /\ WF_vars(RetryWindowEnds(i) /\ UNCHANGED <<workerVars, workflowVars>>)
         /\ WF_vars(ItemAges(i) /\ UNCHANGED <<workerVars, workflowVars>>)

FairSpec == Spec /\ Fairness

-----------------------------------------------------------------------------
TypeOK == StoreTypeOK /\ WorkerTypeOK /\ WorkflowTypeOK

(***************************************************************************)
(* MAX_DELIVERY_ATTEMPTS is a bound on what is counted: the sweep decides  *)
(* on the attempts it SELECTed, so a second run sweeping the same rows     *)
(* would count past the limit.                                             *)
(***************************************************************************)
AttemptsBounded == \A i \in Items : attempts[i] <= MaxAttempts

(***************************************************************************)
(* ... and on what is sent: a POST escapes the count only where a run died *)
(* between the request and its UPDATE, so n8n never sees more than         *)
(* MaxAttempts requests for an item and one for each such run.             *)
(***************************************************************************)
PostsBounded == \A i \in Items : posts[i] <= MaxAttempts + crashes

(***************************************************************************)
(* Pre-launch history and what the keywords dropped are never sent to the  *)
(* workflow, in whatever order backfills fail, are repeated and are        *)
(* followed by normal runs of the same source.                             *)
(***************************************************************************)
HistoryNeverSent ==
    \A i \in Items : posts[i] > 0 => status[i] \in Live

(***************************************************************************)
(* delivered_at tells of a lead: when it is set the lead exists, whichever *)
(* of the item's executions set it and whatever became of the others.      *)
(***************************************************************************)
DeliveredHasLead == \A i \in Items : delivered_at[i] => leads[i] > 0

(***************************************************************************)
(* What run_once's lock is for: an item one run has still to deliver is    *)
(* never among the rows another run is sweeping.                           *)
(***************************************************************************)
NotSweptWhileDelivered ==
    \A v, w \in Workers : \A i \in Items :
        (i \in batch[v] \/ item[v] = i) => plan[w][i] = "none"

(***************************************************************************)
(* Dedup for ever: a row that exists keeps existing, and one recorded as   *)
(* history or as filtered keeps that status, although both the sweep's and *)
(* the workflow's UPDATE would overwrite anything.                         *)
(***************************************************************************)
RecordedForGood ==
    [][\A i \in Items :
         /\ status[i] # "none"   => status'[i] # "none"
         /\ status[i] \in History => status'[i] = status[i]]_vars

(***************************************************************************)
(* The sweep's promise: an item waiting for n8n does not wait for ever,    *)
(* whatever fails; in the end it is done or it is dead.                    *)
(***************************************************************************)
PendingIsSettled ==
    \A i \in Items : status[i] = "pending" ~> status[i] \in {"done", "dead"}

(***************************************************************************)
(* Nothing becomes deliverable while its source still owes its backfill:   *)
(* what a first walk, a failed one or a repeated one records is history.   *)
(***************************************************************************)
LiveOnlyAfterBackfill ==
    \A i \in Items : status[i] \in Live => backfilled_at[SourceOf[i]]

(***************************************************************************)
(* Worker and workflow together keep LeadLifecycle's promise: no lead      *)
(* without a send of its own, sends within their bound, whatever overlaps. *)
(***************************************************************************)
Standing(i) ==
    IF status[i] = "none" THEN "unseen"
    ELSE IF status[i] \in History THEN "shelved"
    ELSE status[i]

Lifecycle == INSTANCE LeadLifecycle WITH
                 standing <- [i \in Items |-> Standing(i)],
                 sends    <- posts,
                 losses   <- crashes

ImplementsLifecycle == Lifecycle!Spec

\* A run never keeps the lock: the next one can begin.
LockIsReleased == lock # None ~> lock = None

-----------------------------------------------------------------------------
(***************************************************************************)
(* What the repository says of itself and the code does not keep.          *)
(***************************************************************************)

(***************************************************************************)
(* README.md:263-264: until done is written "the worker re-sends the item  *)
(* (up to MAX_DELIVERY_ATTEMPTS, then `dead` + alert)".  A row committed   *)
(* before its payload (mid-walk, then the walk fails) is never sent.       *)
(***************************************************************************)
DeadWasSent == \A i \in Items : status[i] = "dead" => posts[i] > 0

(***************************************************************************)
(* worker/delivery.py:5-7: the item "gets re-sent; the workflow's          *)
(* idempotency check on item_uid makes that safe".  The check reads a      *)
(* status that is written last.                                            *)
(***************************************************************************)
OneLeadPerItem == \A i \in Items : leads[i] <= 1

(***************************************************************************)
(* worker/delivery.py:154-156 alerts that the items just marked dead "will *)
(* never reach Pipedrive without manual action".  The sweep's UPDATE also  *)
(* overwrites a done written since its SELECT.                             *)
(***************************************************************************)
DeadNotDelivered == \A i \in Items : status[i] = "dead" => ~delivered_at[i]
=============================================================================
