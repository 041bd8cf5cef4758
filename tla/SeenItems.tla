------------------------------ MODULE SeenItems ------------------------------
(***************************************************************************)
(* The rows the worker and the n8n workflow share: seen_items, the payload *)
(* rows of items_log, sources.backfilled_at, and the webhook between the   *)
(* two.  Only committed data is here; a worker's open transaction is       *)
(* state of the worker (module WorkerRun).                                 *)
(*                                                                         *)
(* Timestamps are kept as the answers the code asks of them: due[i] is     *)
(* "last_attempt_at is NULL or older than the retry window", aged[i] is    *)
(* "first_seen is older than the retention of items_log".                  *)
(***************************************************************************)
EXTENDS Naturals, FiniteSets

CONSTANTS Items,          \* item_uids
          Sources,        \* rows of the sources table
          SourceOf,       \* the source that lists an item
          MaxAttempts,    \* config.max_delivery_attempts
          None            \* no worker, source or item

ASSUME SourceOfType == SourceOf \in [Items -> Sources]
ASSUME NoneIsNothing == None \notin Items \union Sources

\* At least one attempt: deliver() posts a new item without asking.
ASSUME MaxAttemptsPos == MaxAttempts \in Nat /\ MaxAttempts > 0

VARIABLES status,         \* seen_items.status, "none" when there is no row
          attempts,       \* seen_items.attempts
          delivered_at,   \* seen_items.delivered_at IS NOT NULL
          due,            \* the retry window of the row is over
          aged,           \* the row is older than items_log keeps payloads
          payload,        \* the item's 'fetched' row of items_log
          backfilled_at,  \* sources.backfilled_at IS NOT NULL
          webhook,        \* requests the webhook accepted and n8n has not begun
          posts           \* history: POSTs made for the item

storeVars == <<status, attempts, delivered_at, due, aged, payload,
               backfilled_at, webhook, posts>>

\* The life of a row that may be delivered, and of one that never is.
Live    == {"pending", "done", "dead"}
History == {"seeded", "filtered"}
Status  == {"none"} \union Live \union History

StoreTypeOK ==
    /\ status \in [Items -> Status]
    /\ attempts \in [Items -> Nat]
    /\ delivered_at \in [Items -> BOOLEAN]
    /\ due \in [Items -> BOOLEAN]
    /\ aged \in [Items -> BOOLEAN]
    /\ payload \in [Items -> {"none", "fresh", "old"}]
    /\ backfilled_at \in [Sources -> BOOLEAN]
    /\ webhook \in [Items -> Nat]
    /\ posts \in [Items -> Nat]

(***************************************************************************)
(* An empty seen_items.  A source may already be past its backfill (one    *)
(* that found nothing) or still owe it.                                    *)
(***************************************************************************)
StoreInit ==
    /\ status = [i \in Items |-> "none"]
    /\ attempts = [i \in Items |-> 0]
    /\ delivered_at = [i \in Items |-> FALSE]
    /\ due = [i \in Items |-> TRUE]
    /\ aged = [i \in Items |-> FALSE]
    /\ payload = [i \in Items |-> "none"]
    /\ backfilled_at \in [Sources -> BOOLEAN]
    /\ webhook = [i \in Items |-> 0]
    /\ posts = [i \in Items |-> 0]

-----------------------------------------------------------------------------
(***************************************************************************)
(* Time.  Each step makes one of the comparisons of retry_pending or       *)
(* _prune_items_log come out the other way.  A payload row is written      *)
(* after its item's row, so it is not old before the item is.              *)
(***************************************************************************)
RetryWindowEnds(i) ==
    /\ ~due[i]
    /\ due' = [due EXCEPT ![i] = TRUE]
    /\ UNCHANGED <<status, attempts, delivered_at, aged, payload,
                   backfilled_at, webhook, posts>>

ItemAges(i) ==
    /\ status[i] # "none"
    /\ ~aged[i]
    /\ aged' = [aged EXCEPT ![i] = TRUE]
    /\ UNCHANGED <<status, attempts, delivered_at, due, payload,
                   backfilled_at, webhook, posts>>

PayloadAges(i) ==
    /\ aged[i]
    /\ payload[i] = "fresh"
    /\ payload' = [payload EXCEPT ![i] = "old"]
    /\ UNCHANGED <<status, attempts, delivered_at, due, aged,
                   backfilled_at, webhook, posts>>

Tick == \E i \in Items : RetryWindowEnds(i) \/ ItemAges(i) \/ PayloadAges(i)
=============================================================================
