------------------------------ MODULE WorkerRun ------------------------------
(***************************************************************************)
(* worker processes against one database: pipeline.run_once (the loop, a   *)
(* manual `worker run`, a `worker seed`), delivery.deliver and             *)
(* delivery.retry_pending.                                                 *)
(*                                                                         *)
(* A run takes the advisory lock, walks its sources, sweeps what n8n never *)
(* confirmed, prunes items_log and gives the lock back.  An action is the  *)
(* code between two points where another process can be seen: a commit, an *)
(* HTTP request, or the sweep's SELECT, whose rows are used long after     *)
(* they were read.                                                         *)
(***************************************************************************)
EXTENDS SeenItems

CONSTANTS Workers,        \* worker processes
          SweepLimit,     \* LIMIT of the sweep's SELECT
          MaxCrashes      \* bound on runs that end early

ASSUME NoneIsNoWorker == None \notin Workers
ASSUME WorkerBounds == SweepLimit \in Nat /\ MaxCrashes \in Nat

VARIABLES lock,           \* holder of advisory lock RUN_LOCK_KEY
          pc,             \* where each worker is
          seedRun,        \* run_once's seed argument
          todo,           \* sources the run has still to visit
          source,         \* the source being fetched
          seeding,        \* _fetch_source's seed argument: seed or backfill
          open,           \* rows INSERTed and not yet committed, by item
          batch,          \* to_deliver
          item,           \* the item being posted
          plan,           \* sweep: what the row as SELECTed asks for, by item
          crashes         \* history: runs that ended early

workerVars == <<lock, pc, seedRun, todo, source, seeding, open, batch, item,
                plan, crashes>>

\* Where a run can be: before its next commit, request or SELECT.
Steps   == {"idle", "source", "fetch", "deliver", "post", "count", "select",
            "sweep", "recount", "prune", "finish"}
Fates   == {"none", "resend", "skip", "dead"}
NoRows  == [i \in Items |-> "none"]

WorkerTypeOK ==
    /\ lock \in Workers \union {None}
    /\ pc \in [Workers -> Steps]
    /\ seedRun \in [Workers -> BOOLEAN]
    /\ todo \in [Workers -> SUBSET Sources]
    /\ source \in [Workers -> Sources \union {None}]
    /\ seeding \in [Workers -> BOOLEAN]
    /\ open \in [Workers -> [Items -> {"none", "pending"} \union History]]
    /\ batch \in [Workers -> SUBSET Items]
    /\ item \in [Workers -> Items \union {None}]
    /\ plan \in [Workers -> [Items -> Fates]]
    /\ crashes \in 0 .. MaxCrashes

WorkerInit ==
    /\ lock = None
    /\ pc = [w \in Workers |-> "idle"]
    /\ seedRun = [w \in Workers |-> FALSE]
    /\ todo = [w \in Workers |-> {}]
    /\ source = [w \in Workers |-> None]
    /\ seeding = [w \in Workers |-> FALSE]
    /\ open = [w \in Workers |-> NoRows]
    /\ batch = [w \in Workers |-> {}]
    /\ item = [w \in Workers |-> None]
    /\ plan = [w \in Workers |-> NoRows]
    /\ crashes = 0

-----------------------------------------------------------------------------
(***************************************************************************)
(* Helpers.                                                                *)
(***************************************************************************)

\* seen_items after w commits: ON CONFLICT DO NOTHING never touches a row.
Committed(w) ==
    [i \in Items |-> IF open[w][i] # "none" THEN open[w][i] ELSE status[i]]

\* Mutant: a finished item may be recorded as such.
RecordStatusDone(w) == IF seeding[w] THEN {"seeded"} ELSE {"pending", "done"}

\* The statuses _record may give: keywords decide between the last two.
RecordStatus(w) == IF seeding[w] THEN {"seeded"} ELSE {"pending", "filtered"}

\* Mutant: whatever is new is delivered.
ToDeliverNew(st) == TRUE

\* Which new rows _fetch_source keeps for deliver().
ToDeliver(st) == st = "pending"

\* Mutant: the backfill of a source enabled after go-live is forgotten.
SeedsOnlySeedRun(w, s) == seedRun[w]

\* seed or backfill: a source without history is seeded whatever the run is.
Seeds(w, s) == seedRun[w] \/ ~backfilled_at[s]

\* Mutant: the answer of pg_try_advisory_lock is not looked at.
LockIgnored == TRUE

\* pg_try_advisory_lock
LockFree == lock = None

\* Mutant: WHERE status NOT IN ('done', 'dead').
UnconfirmedNotClosed ==
    {i \in Items : status[i] \in {"pending"} \union History /\ due[i]}

\* The rows the sweep's WHERE clause lets through.
Unconfirmed == {i \in Items : status[i] = "pending" /\ due[i]}

\* Mutant: a missing payload is never terminal.
FateWithoutEnd(i) ==
    IF attempts[i] >= MaxAttempts THEN "dead"
    ELSE IF payload[i] # "none" THEN "resend" ELSE "skip"

\* What the loop body of retry_pending does with a row that reads like this.
Fate(i) ==
    IF attempts[i] >= MaxAttempts THEN "dead"
    ELSE IF payload[i] # "none"   THEN "resend"
    ELSE IF aged[i]               THEN "dead"
    ELSE "skip"

\* attempts = attempts + 1, last_attempt_at = now()
Attempted(i) ==
    /\ attempts' = [attempts EXCEPT ![i] = @ + 1]
    /\ due' = [due EXCEPT ![i] = FALSE]

\* A POST: the webhook may accept it whatever answer reaches the worker.
Posted(i) ==
    /\ posts' = [posts EXCEPT ![i] = @ + 1]
    /\ webhook' \in {webhook, [webhook EXCEPT ![i] = @ + 1]}

\* Mutant: no finally around the run, the session stays open.
UnwindKeepsLock(w) ==
    /\ UNCHANGED lock
    /\ pc' = [pc EXCEPT ![w] = "idle"]
    /\ seedRun' = [seedRun EXCEPT ![w] = FALSE]
    /\ todo' = [todo EXCEPT ![w] = {}]
    /\ source' = [source EXCEPT ![w] = None]
    /\ seeding' = [seeding EXCEPT ![w] = FALSE]
    /\ open' = [open EXCEPT ![w] = NoRows]
    /\ batch' = [batch EXCEPT ![w] = {}]
    /\ item' = [item EXCEPT ![w] = None]
    /\ plan' = [plan EXCEPT ![w] = NoRows]

\* The worker's stack is gone and its session lock with it.
Unwind(w) ==
    /\ lock' = IF lock = w THEN None ELSE lock
    /\ pc' = [pc EXCEPT ![w] = "idle"]
    /\ seedRun' = [seedRun EXCEPT ![w] = FALSE]
    /\ todo' = [todo EXCEPT ![w] = {}]
    /\ source' = [source EXCEPT ![w] = None]
    /\ seeding' = [seeding EXCEPT ![w] = FALSE]
    /\ open' = [open EXCEPT ![w] = NoRows]
    /\ batch' = [batch EXCEPT ![w] = {}]
    /\ item' = [item EXCEPT ![w] = None]
    /\ plan' = [plan EXCEPT ![w] = NoRows]

At(w, step)   == pc[w] = step
Goto(w, step) == pc' = [pc EXCEPT ![w] = step]

-----------------------------------------------------------------------------
(***************************************************************************)
(* run_once, _run_once_locked                                              *)
(***************************************************************************)

\* Take the lock and load the sources enabled at this moment.
Start(w, seed) ==
    /\ At(w, "idle")
    /\ LockFree
    /\ lock' = w
    /\ Goto(w, "source")
    /\ seedRun' = [seedRun EXCEPT ![w] = seed]
    /\ \E enabled \in SUBSET Sources : todo' = [todo EXCEPT ![w] = enabled]
    /\ UNCHANGED <<source, seeding, open, batch, item, plan, crashes>>
    /\ UNCHANGED storeVars

\* The source's row is read here; backfill is decided on what it says now.
BeginSource(w, s) ==
    /\ At(w, "source")
    /\ s \in todo[w]
    /\ source' = [source EXCEPT ![w] = s]
    /\ seeding' = [seeding EXCEPT ![w] = Seeds(w, s)]
    /\ Goto(w, "fetch")
    /\ UNCHANGED <<lock, seedRun, todo, open, batch, item, plan, crashes>>
    /\ UNCHANGED storeVars

\* A seed run delivers nothing, not even what earlier runs left pending.
EndSources(w) ==
    /\ At(w, "source")
    /\ todo[w] = {}
    /\ Goto(w, IF seedRun[w] THEN "prune" ELSE "select")
    /\ UNCHANGED <<lock, seedRun, todo, source, seeding, open, batch, item,
                   plan, crashes>>
    /\ UNCHANGED storeVars

Prune(w) ==
    /\ At(w, "prune")
    /\ payload' = [i \in Items |->
                     IF payload[i] = "old" THEN "none" ELSE payload[i]]
    /\ Goto(w, "finish")
    /\ UNCHANGED <<status, attempts, delivered_at, due, aged, backfilled_at,
                   webhook, posts>>
    /\ UNCHANGED <<lock, seedRun, todo, source, seeding, open, batch, item,
                   plan, crashes>>

Finish(w) ==
    /\ At(w, "finish")
    /\ Unwind(w)
    /\ UNCHANGED crashes
    /\ UNCHANGED storeVars

(***************************************************************************)
(* The run dies: the process or its connection is lost and the open        *)
(* transaction is rolled back, ...                                         *)
(***************************************************************************)
Crash(w) ==
    /\ ~At(w, "idle")
    /\ crashes < MaxCrashes
    /\ crashes' = crashes + 1
    /\ Unwind(w)
    /\ UNCHANGED storeVars

(***************************************************************************)
(* ... or an exception no handler names leaves _run_once_locked (a type    *)
(* error in a fetcher, a keyboard interrupt): run_once's finally unlocks   *)
(* and commits, and the open transaction is kept.                          *)
(***************************************************************************)
Abort(w) ==
    /\ At(w, "fetch")
    /\ crashes < MaxCrashes
    /\ crashes' = crashes + 1
    /\ status' = Committed(w)
    /\ Unwind(w)
    /\ UNCHANGED <<attempts, delivered_at, due, aged, payload, backfilled_at,
                   webhook, posts>>

-----------------------------------------------------------------------------
(***************************************************************************)
(* _fetch_source                                                           *)
(***************************************************************************)

(***************************************************************************)
(* The fetcher yields an item the table does not have: INSERT it.  An item *)
(* already there, committed or not, is skipped without a trace.  (A row    *)
(* another transaction is inserting makes the INSERT wait.)                *)
(***************************************************************************)
Record(w, i) ==
    /\ At(w, "fetch")
    /\ SourceOf[i] = source[w]
    /\ status[i] = "none"
    /\ \A v \in Workers : open[v][i] = "none"
    /\ \E st \in RecordStatus(w) :
         /\ open' = [open EXCEPT ![w][i] = st]
         /\ batch' = [batch EXCEPT
                        ![w] = IF ToDeliver(st) THEN @ \union {i} ELSE @]
    /\ UNCHANGED <<lock, pc, seedRun, todo, source, seeding, item, plan,
                   crashes>>
    /\ UNCHANGED storeVars

(***************************************************************************)
(* Between two yields the fetcher asks for another page or topic, and      *)
(* ratelimit.acquire commits whatever the connection has open.             *)
(***************************************************************************)
FetcherRequest(w) ==
    /\ At(w, "fetch")
    /\ open[w] # NoRows
    /\ status' = Committed(w)
    /\ open' = [open EXCEPT ![w] = NoRows]
    /\ UNCHANGED <<attempts, delivered_at, due, aged, payload, backfilled_at,
                   webhook, posts>>
    /\ UNCHANGED <<lock, pc, seedRun, todo, source, seeding, batch, item,
                   plan, crashes>>

(***************************************************************************)
(* SourceBlocked, FetchError, ValueError or KeyError in mid-walk:          *)
(* _record_failure commits on the same connection, so the rows recorded so *)
(* far stay; the items to deliver are dropped with the frame.              *)
(***************************************************************************)
SourceFails(w) ==
    /\ At(w, "fetch")
    /\ status' = Committed(w)
    /\ open' = [open EXCEPT ![w] = NoRows]
    /\ batch' = [batch EXCEPT ![w] = {}]
    /\ todo' = [todo EXCEPT ![w] = @ \ {source[w]}]
    /\ source' = [source EXCEPT ![w] = None]
    /\ Goto(w, "source")
    /\ UNCHANGED <<attempts, delivered_at, due, aged, payload, backfilled_at,
                   webhook, posts>>
    /\ UNCHANGED <<lock, seedRun, seeding, item, plan, crashes>>

FetchDone(w) ==
    /\ At(w, "fetch")
    /\ status' = Committed(w)
    /\ open' = [open EXCEPT ![w] = NoRows]
    /\ Goto(w, "deliver")
    /\ UNCHANGED <<attempts, delivered_at, due, aged, payload, backfilled_at,
                   webhook, posts>>
    /\ UNCHANGED <<lock, seedRun, todo, source, seeding, batch, item, plan,
                   crashes>>

\* deliver() has returned: the source succeeded and owes no backfill.
SourceDone(w) ==
    /\ At(w, "deliver")
    /\ batch[w] = {}
    /\ backfilled_at' = [backfilled_at EXCEPT ![source[w]] = TRUE]
    /\ todo' = [todo EXCEPT ![w] = @ \ {source[w]}]
    /\ source' = [source EXCEPT ![w] = None]
    /\ Goto(w, "source")
    /\ UNCHANGED <<status, attempts, delivered_at, due, aged, payload,
                   webhook, posts>>
    /\ UNCHANGED <<lock, seedRun, seeding, open, batch, item, plan, crashes>>

-----------------------------------------------------------------------------
(***************************************************************************)
(* delivery.deliver: record the payload, post, count the attempt           *)
(***************************************************************************)
RecordPayload(w, i) ==
    /\ At(w, "deliver")
    /\ i \in batch[w]
    /\ payload' = [payload EXCEPT ![i] = "fresh"]
    /\ batch' = [batch EXCEPT ![w] = @ \ {i}]
    /\ item' = [item EXCEPT ![w] = i]
    /\ Goto(w, "post")
    /\ UNCHANGED <<status, attempts, delivered_at, due, aged, backfilled_at,
                   webhook, posts>>
    /\ UNCHANGED <<lock, seedRun, todo, source, seeding, open, plan, crashes>>

Post(w) ==
    /\ At(w, "post")
    /\ Posted(item[w])
    /\ Goto(w, "count")
    /\ UNCHANGED <<status, attempts, delivered_at, due, aged, payload,
                   backfilled_at>>
    /\ UNCHANGED <<lock, seedRun, todo, source, seeding, open, batch, item,
                   plan, crashes>>

\* The same UPDATE whether the POST was accepted or refused.
Count(w) ==
    /\ At(w, "count")
    /\ Attempted(item[w])
    /\ item' = [item EXCEPT ![w] = None]
    /\ Goto(w, "deliver")
    /\ UNCHANGED <<status, delivered_at, aged, payload, backfilled_at,
                   webhook, posts>>
    /\ UNCHANGED <<lock, seedRun, todo, source, seeding, open, batch, plan,
                   crashes>>

-----------------------------------------------------------------------------
(***************************************************************************)
(* delivery.retry_pending: one SELECT, then its rows one by one            *)
(***************************************************************************)

\* Oldest first matters only beyond LIMIT: any SweepLimit of the rows here.
Select(w) ==
    /\ At(w, "select")
    /\ \E rows \in SUBSET Unconfirmed :
         /\ \/ rows = Unconfirmed /\ Cardinality(rows) <= SweepLimit
            \/ Cardinality(rows) = SweepLimit
         /\ plan' = [plan EXCEPT
                       ![w] = [i \in Items |->
                                 IF i \in rows THEN Fate(i) ELSE "none"]]
    /\ Goto(w, "sweep")
    /\ UNCHANGED <<lock, seedRun, todo, source, seeding, open, batch, item,
                   crashes>>
    /\ UNCHANGED storeVars

\* UPDATE ... SET status = 'dead' WHERE item_uid = ...: no other condition.
GiveUp(w, i) ==
    /\ At(w, "sweep")
    /\ plan[w][i] = "dead"
    /\ status' = [status EXCEPT ![i] = "dead"]
    /\ plan' = [plan EXCEPT ![w][i] = "none"]
    /\ UNCHANGED <<attempts, delivered_at, due, aged, payload, backfilled_at,
                   webhook, posts>>
    /\ UNCHANGED <<lock, pc, seedRun, todo, source, seeding, open, batch,
                   item, crashes>>

\* No payload yet and too young to have lost one: left as it is.
LeavePending(w, i) ==
    /\ At(w, "sweep")
    /\ plan[w][i] = "skip"
    /\ plan' = [plan EXCEPT ![w][i] = "none"]
    /\ UNCHANGED <<lock, pc, seedRun, todo, source, seeding, open, batch,
                   item, crashes>>
    /\ UNCHANGED storeVars

Resend(w, i) ==
    /\ At(w, "sweep")
    /\ plan[w][i] = "resend"
    /\ Posted(i)
    /\ plan' = [plan EXCEPT ![w][i] = "none"]
    /\ item' = [item EXCEPT ![w] = i]
    /\ Goto(w, "recount")
    /\ UNCHANGED <<status, attempts, delivered_at, due, aged, payload,
                   backfilled_at>>
    /\ UNCHANGED <<lock, seedRun, todo, source, seeding, open, batch, crashes>>

\* Mutant: a refused retry is not an attempt.
RecountAccepted(w) ==
    /\ At(w, "recount")
    /\ \/ Attempted(item[w])
       \/ UNCHANGED attempts /\ due' = [due EXCEPT ![item[w]] = FALSE]
    /\ item' = [item EXCEPT ![w] = None]
    /\ Goto(w, "sweep")
    /\ UNCHANGED <<status, delivered_at, aged, payload, backfilled_at,
                   webhook, posts>>
    /\ UNCHANGED <<lock, seedRun, todo, source, seeding, open, batch, plan,
                   crashes>>

Recount(w) ==
    /\ At(w, "recount")
    /\ Attempted(item[w])
    /\ item' = [item EXCEPT ![w] = None]
    /\ Goto(w, "sweep")
    /\ UNCHANGED <<status, delivered_at, aged, payload, backfilled_at,
                   webhook, posts>>
    /\ UNCHANGED <<lock, seedRun, todo, source, seeding, open, batch, plan,
                   crashes>>

EndSweep(w) ==
    /\ At(w, "sweep")
    /\ plan[w] = NoRows
    /\ Goto(w, "prune")
    /\ UNCHANGED <<lock, seedRun, todo, source, seeding, open, batch, item,
                   plan, crashes>>
    /\ UNCHANGED storeVars

-----------------------------------------------------------------------------
\* A run going forward; what a fetcher finds and when it fails is left open.
FetchStep(w) ==
    \/ \E i \in Items : Record(w, i)
    \/ FetcherRequest(w)
    \/ SourceFails(w)
    \/ FetchDone(w)

DeliverStep(w) ==
    \/ \E i \in Items : RecordPayload(w, i)
    \/ Post(w)
    \/ Count(w)
    \/ SourceDone(w)

SweepStep(w) ==
    \/ Select(w)
    \/ \E i \in Items : GiveUp(w, i) \/ LeavePending(w, i) \/ Resend(w, i)
    \/ Recount(w)
    \/ EndSweep(w)

RunStep(w) ==
    \/ \E s \in Sources : BeginSource(w, s)
    \/ EndSources(w)
    \/ FetchStep(w)
    \/ DeliverStep(w)
    \/ SweepStep(w)
    \/ Prune(w)
    \/ Finish(w)

WorkerNext ==
    \E w \in Workers :
        \/ \E seed \in BOOLEAN : Start(w, seed)
        \/ RunStep(w)
        \/ Crash(w)
        \/ Abort(w)
=============================================================================
