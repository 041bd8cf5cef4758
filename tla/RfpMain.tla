------------------------------- MODULE RfpMain -------------------------------
(***************************************************************************)
(* The n8n workflow rfp-main.  The webhook answers at once (responseMode   *)
(* onReceived) and every request becomes an execution of its own; several  *)
(* run side by side, each can fail at any node, and nothing but the rows   *)
(* of Postgres is shared between them.                                     *)
(*                                                                         *)
(* "Lead" is what stands between enrichment and the alerts: in the         *)
(* exported workflow the mock_lead row, the Pipedrive nodes being switched *)
(* off.                                                                    *)
(***************************************************************************)
EXTENDS SeenItems

CONSTANTS Executions      \* executions n8n runs side by side

VARIABLES stage,          \* the node an execution has reached
          subject,        \* the item it is about
          leads           \* leads created for an item

workflowVars == <<stage, subject, leads>>

Stages == {"free", "classify", "enrich", "alert", "handled"}

WorkflowTypeOK ==
    /\ stage \in [Executions -> Stages]
    /\ subject \in [Executions -> Items \union {None}]
    /\ leads \in [Items -> Nat]

WorkflowInit ==
    /\ stage = [e \in Executions |-> "free"]
    /\ subject = [e \in Executions |-> None]
    /\ leads = [i \in Items |-> 0]

End(e) ==
    /\ stage' = [stage EXCEPT ![e] = "free"]
    /\ subject' = [subject EXCEPT ![e] = None]

-----------------------------------------------------------------------------
\* "Not yet delivered?": what the local check lets through.
NotYetDelivered(i) == status[i] # "done"

\* Mutant: the request is replayed after it was taken.
TakenTwice(i) == webhook' \in {webhook, [webhook EXCEPT ![i] = @ - 1]}

\* The webhook's request becomes this execution, once.
Taken(i) == webhook' = [webhook EXCEPT ![i] = @ - 1]

\* Webhook, secret, unwrap and "Already done? (local check)".
Begin(e, i) ==
    /\ stage[e] = "free"
    /\ webhook[i] > 0
    /\ Taken(i)
    /\ IF NotYetDelivered(i)
         THEN /\ stage' = [stage EXCEPT ![e] = "classify"]
              /\ subject' = [subject EXCEPT ![e] = i]
         ELSE UNCHANGED <<stage, subject>>
    /\ UNCHANGED <<status, attempts, delivered_at, due, aged, payload,
                   backfilled_at, posts, leads>>

\* Haiku, the thresholds of this moment, the verdict: deliver or not.
Classify(e) ==
    /\ stage[e] = "classify"
    /\ \E next \in {"enrich", "handled"} :
         stage' = [stage EXCEPT ![e] = next]
    /\ UNCHANGED <<subject, leads>>
    /\ UNCHANGED storeVars

\* Sonnet, the organisation, the lead.
CreateLead(e) ==
    /\ stage[e] = "enrich"
    /\ leads' = [leads EXCEPT ![subject[e]] = @ + 1]
    /\ stage' = [stage EXCEPT ![e] = "alert"]
    /\ UNCHANGED subject
    /\ UNCHANGED storeVars

\* Mutant: the status write is moved ahead of the lead.
MarkDoneEarly(e) ==
    /\ stage[e] = "enrich"
    /\ status' = [status EXCEPT ![subject[e]] = "done"]
    /\ delivered_at' = [delivered_at EXCEPT ![subject[e]] = TRUE]
    /\ End(e)
    /\ UNCHANGED <<attempts, due, aged, payload, backfilled_at, webhook,
                   posts, leads>>

\* "FINAL: mark done": the UPDATE asks nothing about the status it replaces.
MarkDone(e) ==
    /\ stage[e] = "alert"
    /\ status' = [status EXCEPT ![subject[e]] = "done"]
    /\ delivered_at' = [delivered_at EXCEPT ![subject[e]] = TRUE]
    /\ End(e)
    /\ UNCHANGED <<attempts, due, aged, payload, backfilled_at, webhook,
                   posts, leads>>

\* "Mark handled (no lead)": both exits of the review band lead here.
MarkHandled(e) ==
    /\ stage[e] = "handled"
    /\ status' = [status EXCEPT ![subject[e]] = "done"]
    /\ End(e)
    /\ UNCHANGED <<attempts, delivered_at, due, aged, payload, backfilled_at,
                   webhook, posts, leads>>

\* A node throws (or n8n restarts): the error workflow, the row untouched.
Fail(e) ==
    /\ stage[e] # "free"
    /\ End(e)
    /\ UNCHANGED leads
    /\ UNCHANGED storeVars

WorkflowNext ==
    \E e \in Executions :
        \/ \E i \in Items : Begin(e, i)
        \/ Classify(e)
        \/ CreateLead(e)
        \/ MarkDone(e)
        \/ MarkHandled(e)
        \/ Fail(e)
=============================================================================
