# A TLA+ model of the RFP tracking system

The repository watches governance forums and grant listings, filters what it
finds, hands candidate items to an n8n workflow that classifies them and creates
leads, and keeps a knowledge base with a chat beside it.  This directory models
the parts whose correctness depends on the order of steps of several actors.

## 1. Inventory

| Part | Source | State it keeps | Operations |
|---|---|---|---|
| Worker run | `worker/pipeline.py`, `worker/main.py` | advisory lock, one open transaction, the walk's local `to_deliver` | `run_once`, `_fetch_source`, `_record`, `_record_failure`, prune; started by the loop, by hand, or as a seed run |
| Delivery | `worker/delivery.py` | `seen_items.attempts`, `last_attempt_at`, payload rows of `items_log` | `deliver`, `retry_pending` |
| Workflow rfp-main | `n8n/workflows/rfp-main.json` | `seen_items.status`, `delivered_at`, `mock_lead` rows | one execution per webhook request |
| HTTP client | `worker/http.py` | `http_cache` (validators per URL) | `get`, `post_json` |
| Fetchers | `worker/fetchers/` | none | one generator per source type |
| Rate limiter | `worker/ratelimit.py` | `host_rate_limits` (token bucket per host) | `acquire`, shared with the KB crawlers |
| Items, filters | `worker/items.py`, `filters.py` | none | identities, keyword match |
| Alerts | `worker/alerts.py`, dark-source checks of `pipeline.py` | `alerts`, `sources.quarantined` | store and push, six-hour dedup, digest |
| KB crawlers | `worker/kb.py`, `kb_github.py`, `kb_snapshot.py` | `kb.topics`, `kb.posts`, cursors and watermarks in `kb.forums` | backfill, incremental, repair |
| Chat | `mcp/chat.py` | `kb.chat_messages`, `kb.chat_cache` | one turn: limits, history, cache, model call, answer; reports of a conversation |
| Weekly report | `mcp/weekly.py`, `rfp-weekly.json` | `kb.briefs`, `kb.deadlines` | generate |
| Telegram bot | `tgbot/main.py` | `allowlist.json`, update offset | long poll, invites, revocation, drain at start |
| Admin panel | `admin/app.py`, `admin/auth.py` | session cookie, `settings.session_epoch`; edits rows of all others | login, logout, new chat, forms |

How they interact: everything meets in one Postgres database.  The worker writes
`seen_items` and POSTs items to the n8n webhook, which answers before it has done
anything.  The workflow's only way back to the worker is the row's `status`.  The
fetchers call the HTTP client on the worker's own connection; the client calls
the rate limiter, which commits on that connection.  Nothing waits for anything
else except a run for the advisory lock, which is tried and not waited for.
The panel and the bot call the chat server over HTTP and wait for a turn to end;
the panel deletes the chat's rows and toggles the worker's sources under them, and
its test fetch uses the worker's HTTP cache.

What is hard here:

* the worker's picture of an item is a row read long before it is used (the
  sweep SELECTs up to 200 rows and then makes up to 200 POSTs);
* executions of one item overlap, finish in any order or never;
* transactions are closed by code that does not know what they hold (the rate
  limiter, the bookkeeping of a failed source, the `finally` of a run);
* processes die between a request and the UPDATE that counts it;
* a source's first walk must be treated differently from all later ones, and
  walks fail;
* what is already read is remembered in several places that are written at
  different moments: validators, watermarks, cursors, the rows themselves;
* requests that last minutes (a chat turn, a weekly report) carry what they read at
  their start (a cookie, a date, a history) to a commit at their end.

What makes each part correct is said property by property in section 3.

## 2. Modules

| Module | What it is |
|---|---|
| `SeenItems` | the shared rows: `seen_items`, `items_log` payloads, `sources.backfilled_at`, the webhook's queue; the passing of time |
| `WorkerRun` | worker processes: lock, source walk, `deliver`, `retry_pending`, prune, crashes |
| `RfpMain` | executions of the n8n workflow |
| `RfpDelivery` | the two together: `Spec`, fairness, properties |
| `LeadLifecycle` | abstract specification: what delivery promises of one item, without runs, locks and executions |
| `MCRfpDelivery` | instances for TLC |
| `RateLimit` | `ratelimit.acquire` for one host: row, transactions, sleeps, clock |
| `SourceWalk` | one source: its remote listing, walks, validators, date watermark |
| `KbForum` | one forum of the knowledge base: the site's log, the archive's rows, cursor and watermark; what the three crawlers share |
| `KbDiscourse`, `KbGithub`, `KbSnapshot` | the crawlers |
| `KbCrawl` | the forum with the crawler of its kind, and the properties |
| `Archive` | abstract specification: what the archive of a forum promises, without pages, cursors and jobs |
| `MCKbCrawl` | instance for TLC |
| `ChatTurn` | turns of the chat, statement by statement, and what the panel does to its rows |
| `MCChatTurn` | its symmetry |
| `TgBot` | the bot's process, its state file, Telegram's queue |
| `AdminSession` | cookies, epoch, requests under way |
| `Weekly` | generations of the weekly reports and their transactions |
| `Alerts` | a run of the worker as far as people are told of it |
| `Dashboard` | the last three beside each other, one scene per behaviour |
| `MCDashboard` | instance for TLC |
| `RfpDeliveryProofs` | typing, inductive invariant, safety theorems and refinement of `RfpDelivery` |
| `RateLimitProofs` | invariant and theorems of `RateLimit` |
| `SourceWalkProofs` | the same of `SourceWalk` |
| `KbCrawlProofs` | what each action of the crawlers changes, typing of `KbCrawl` |
| `KbPassProofs` | invariants and theorems of forum, repository and space; refinement of `Archive` |
| `ChatTurnProofs` | invariant and theorems of `ChatTurn` |
| `TgBotProofs` | the same of `TgBot` |
| `DashboardProofs` | typing, invariants and theorems of the three parts of `Dashboard` |

### From code to model

*Rows.*  `status[i]` is the column, with `"none"` for a missing row.  Timestamps
are the answers of the comparisons made with them: `due` (the retry window is
over), `aged` (older than `items_log_retention_days`), `backfilled_at` (not
NULL).  They change by steps of time (`RetryWindowEnds`, `ItemAges`,
`PayloadAges`).  A payload row is younger than its item's row, so it does not age
first.  `posts` counts requests and is read by no action.

*Grain.*  One action is the code between two points where another process can see
or change something: a commit, an HTTP request, or the sweep's SELECT.  Writes in
an open transaction are kept apart in `open[w]` and become rows when anything
commits: the end of the walk (`FetchDone`), the rate limiter at the fetcher's
next request (`FetcherRequest`), the bookkeeping of a failure (`SourceFails`), the
`finally` of `run_once` after an unexpected exception (`Abort`).  A dead process or
connection rolls back (`Crash`).

| Code | Action |
|---|---|
| `run_once`, `load_sources` | `Start(w, seed)`: try the lock, any set of sources is enabled |
| row of the source, `seed or backfill` | `BeginSource` |
| `_record` | `Record`: keywords may accept or drop any item |
| `deliver` | `RecordPayload`, `Post`, `Count`, per item |
| final UPDATE of `_fetch_source` | `SourceDone` |
| `retry_pending` | `Select`; then per row `GiveUp`, `LeavePending`, or `Resend` and `Recount`; `EndSweep` |
| `_prune_items_log` | `Prune` |
| webhook, unwrap, local check | `Begin` |
| Haiku, thresholds, verdict, review band | `Classify` |
| enrichment, lead | `CreateLead` |
| `FINAL: mark done (A1)` | `MarkDone` |
| `Mark handled (no lead)` | `MarkHandled` |
| a node throws | `Fail` |

*Abstractions.*  The order in which sources, items of a batch and rows of a sweep
are taken is left open; beyond its LIMIT the sweep takes any `SweepLimit` rows.
What a fetcher lists is left open: any item of its source, any number of
requests, failure at any moment.  Date watermarks, quarantine, dark-source alerts
and the bookkeeping of `worker_runs` are left out.  "Lead" is the `mock_lead` row of
the exported workflow, whose Pipedrive nodes are switched off; it stands where
the real lead would.  The KB brief after the final node writes nothing the
model has.  The webhook may accept a request whatever answer the worker sees, so
`Post` has two outcomes for n8n and one for the worker.

*Rate limiter.*  `RateLimit` stands beside the delivery modules: they meet in the
commit of `FetcherRequest` only.  A consumer is a connection inside `acquire`: `Ask`
begins the first pass, `NoRow` and `Insert` are the two statements of a first
request, `Take` and `Short` the two outcomes of a pass (the row's lock makes each one
step), `Again` the second pass, `GiveUp` the way out after it.  Time is counted in
ticks, tokens in what a tick refills.  `began` is `now()`, the start of the
transaction and not the time of the UPDATE.  A step that is due comes at most
`MaxLag` ticks late; in the code this is the wait for a lock held for three
statements and the scheduler.  `spent`, `unpaid`, `rewound` and `asked` are history.

*Source walk.*  A date is a tick, a validator is the page it came with, so a page that
changed in any way changes its validator.  The three `kind`s are the three ways the
fetchers read: cached pages newest first (`discourse`), one cached page (`rss`,
`rest_aggregator`), one uncached query (`snapshot`, `github_discussions`).

| Code | Action |
|---|---|
| `_watermark`, backfill or seed | `StartWalk(seed)` |
| `HttpClient.get` answered 304 | `GetUnchanged`: the fetcher returns |
| `HttpClient.get`, `post_json` | `Get`: the validator is committed here |
| a page is read and recorded, stop at a stale page | `Read` |
| final UPDATE of `_fetch_source` | `Complete` |
| any failure of the walk | `Fail`: recorded rows and validators stay |
| `_test_fetch` | `TestFetch` |

`excused`, `owed` and `shadowed` are history.  An item is excused when it was listed too
late for the overlap, beyond the pages that are read, or below a front page that it
left unchanged.  It is shadowed while it lies behind a validator that a failed walk
or a test fetch has left: on that page or on one behind it, since a walk that is
answered 304 returns and reads none of the later pages.

*Knowledge base.*  The site is one sequence: `log[k]` is the topic that got its `k`-th
post, and `k` is the time.  A row knows how many posts it has (`have`), how many the
site said there are (`count`) and when it was bumped.  A blank post makes no row and a
tail chunk may answer null or with less than was asked (`Rows`); a page may answer null,
which stores nothing (`GetNull`).  All three count as complete in the code, and here; each
takes a fault of the site (`faults`).  A listing that answers null reads as the end of its
category (`ListNull`).  What the code keeps in memory of the rows during a backfill is read
from the rows, which nobody else writes then.  The transaction of a topic is
one step (`Store`, `Upsert`); a job may stop where the code looks at `should_stop`, and
die anywhere (`Lose`).  `promised` is the prefix of the log the forum's row claims to
have archived: all up to the beginning of the backfill once it is done, and all up to
`last_post_seen_at`.

| Code | Actions |
|---|---|
| `kb.backfill` | `BeginBackfill`, `ListPageOf`, `ListNull`, `Pick`, `PageDone`, `StopBackfill`, `EndBackfill` |
| `kb.crawl_topic` | `Unchanged` (304), `Get`, `GetNull`, `GetFails`, `Store`, `Chunks`, `ChunkFails` |
| `kb.incremental` | `BeginUpdate`, `NewPosts`, `Latest`, `UpdateNull`, `EndUpdate` |
| `kb.repair` | `BeginRepair`, `EndRepair`, `StopRepair` |
| `kb_github.backfill` | `BeginRepo`, `RepoPage`, `RepoItem`, `RepoPageDone`, `RepoStop`, `EndRepo` |
| `kb_github.incremental` | `BeginRepoUpdate`, `NewestPage`, `NewestItem`, `NewestPageDone`, `EndRepoUpdate` |
| `kb_snapshot`, both | `BeginSpace`, `BeginSpaceUpdate`, `SpacePage`, `SpaceItem`, `SpacePageDone`, `SpaceStop`, `EndSpace`, `EndSpaceUpdate` |

*Chat.*  A row of `kb.chat_messages` has its session, role, tier, whether it has tokens
(`paid`), and `turn`, the id of the question it belongs to, which the table does not have:
it is what `HistoryPaired` speaks of.  Time is two marks in the ids, `minute` and `day`.
A turn goes through `Send`, `CheckRate`, `CheckBudget`, `Ask`, `LoadHistory`, then `CacheHit`
or `CacheMiss` and `Reply` or `ReplyFails`, `CacheStore`, `StubReply`, and `Answer`; each is the
code between two statements of the database or calls of the model.  `SaveBrief`, `Report`,
`DeleteSession` and `Prune` are the panel's.

*Telegram bot.*  `queue` is what Telegram keeps until a poll with a higher offset
confirms it.  `HandleUpdate` changes the state in memory, `SaveState` writes it,
`SendMessage` tells it: a kill can come between any two.

*Panel.*  A request is judged by `session_guard` when it is sent and keeps its cookie;
`Login`, `Logout`, `LogoutAll`, `NewChat` and `Handle` make the answer's cookie; `Deliver`
puts it into the browser, in any order with other answers.  `left`, `out` and `cut` are
the promises made: a browser that signed out, was cut off, or left a conversation,
with nothing else of it under way.

*Weekly report.*  `Generate` is the guard, `Synthesise` the model's answer with its block of
deadlines, `StoreDeadline` one upsert of the transaction with its row lock, `File` the
insert and commit.  Postgres or psycopg refuses a row (`Refused`: a date that does not
exist, a NUL or a lone surrogate in a title), Postgres ends one of two transactions that
wait for each other (`Deadlock`), and anything else that can end a generation at any point
does (`Fails`: the synthesis, the second connection, a statement, the commit, the process).
All of them roll back, and the report is lost.  `began` is how many reports had been
stored when a generation passed the guard; `backed` collects the blocks of those stored.

*Alerts.*  `LoadSources`, `Walks`, `CheckDead`, `CheckQuiet`, `ReportFailures` are the parts of a
run in their order.  Each may call `Alert`, after which `Store` and `Push` are steps of
their own.  A text is its kind, the number of sources it is about, and those it names.

## 3. What the runs check

`delivery_item` (`RfpDelivery_Item.cfg`): one item and one source, two worker
processes, two executions, `MaxAttempts = 2`, one run that may die.  About 160,000
states.

* `TypeOK`.
* `AttemptsBounded`, `PostsBounded`: `MAX_DELIVERY_ATTEMPTS` bounds what is counted, and
  what is sent up to one request for each run that died between a POST and its
  UPDATE.
* `NotSweptWhileDelivered`: the purpose `run_once`'s docstring gives for the lock.
* `DeliveredHasLead`: `delivered_at` only with a lead.
* `ImplementsLifecycle`: worker and workflow together implement `LeadLifecycle`
  (`standing` from `status`, `sends` from `posts`, `losses` from `crashes`): a lead
  answers a send of its own, and what is shelved stays shelved, though no UPDATE
  asks for the status it replaces.
* `PendingIsSettled`, `LockIsReleased` (liveness).

`delivery_pair` (`RfpDelivery_Pair.cfg`): two items of two sources, each source with or
without its backfill, one worker, `MaxAttempts = 1`.  About 3.2 million states.

* `HistoryNeverSent`, `LiveOnlyAfterBackfill`: the promise of `worker seed` and of the
  automatic backfill, in every order of failed, aborted and repeated walks.

`rate_limit` (`RateLimit.cfg`): two consumers of one host, a burst of two requests,
`MaxWait` no shorter than a request's refill (as in the code: 30 s against 1 s).
About 610,000 states.

* `BucketAccounts`: tokens handed out are covered by burst and refills, where a
  transaction that waited for the lock may write `last_refill` back and refill the
  same time twice; `rewound` says how much.
* `NeverDouble`: the schema's promise for the table, requests that were let through
  without a token included.  It rests on there being two consumers, which is what
  the schema's comment names: first requests that race on the INSERT can all go out
  unpaid at once, and so can requests whose sleep is capped below what they wait
  for, and with more consumers there are more of them (`RateShared` in section 5).
* `CallBounded`: what `MAX_WAIT_SECONDS` is for.

`source_walk` (`SourceWalk.cfg`): three items of one source of any kind, two pages of one
item, an overlap of one tick, one fault.  About 3.1 million states.

* `CompletedWalkReadAll`: a completed walk has read all that was listed when it began,
  except what is excused or shadowed.
* `NothingBehindWatermark`: `last_item_at` is the newest date of a walk, not of what is
  contiguous; with the overlap it passes over nothing all the same, though the site
  chooses the dates and some lie in the future.

`kb_crawl` (`KbCrawl.cfg`): a forum of any kind, three topics in two categories, four
posts and two faults; of a Discourse forum two posts and two faults, or three posts and
one, or none where the site has validators as well.  About 3.6 million states.

* `ForumAccounted`: behind `backfill_done` and `last_post_seen_at` lies only what the archive
  knows, through stops, deaths and resumptions.  Given up, on a Discourse site alone,
  are topics whose page could not be had in a backfill (kb.py:525) or answered null outside
  a repair (kb.py:232), that a null listing left out (kb.py:488), that moved while it listed, that fell out of `/posts.json`, or whose crawl died after the validator was
  kept.
* `ImplementsArchive`: the crawlers, each in its way, implement `Archive` (`site` from `log`,
  `known` from `rec[t].count`, `given` from `excused`, `claim` from `promised`).  Beyond
  `ForumAccounted` it says that a claim never goes back, that a row is never replaced by
  an older state of its topic, and that a topic is given up only while it is not read.
* `PassAccounted`: nothing is stale behind the point where the next pass of a repository
  stops, and no proposal of a space is missing behind its watermark.  Given up in a
  repository is what a pass that was cut short had not reached when `max(bumped_at)` of
  the archive took the place of `since`: a first incremental pass, or one that died
  before a backfill with `--again` dropped `since`.
* `RepairRestores`: a repair that reports nothing left over has left only topics that
  answered 304, and those of which the site itself left something out in this very pass
  (`spared`: a null page, blank posts, chunks that answered null or less): crawl_topic calls
  all of these complete.  A page or chunk that could not be had is always reported.

`chat_turn` (`ChatTurn.cfg`): one conversation, two threads, limit and budget of one, a
window of three rows, six rows in all, one death, one act of the panel.  About 2.9
million states.

* `RateBound`, `BudgetBound`: count and insert are apart, so limits are passed, but by no
  more than the turns of the pool.
* `NoStubHeard`, `HistoryPaired`: what the model is handed, after truncation, dropped stub
  pairs, deletions and pruning.  Conversations where turns overlapped or died are
  excluded from the second: there two questions may stand side by side, and the
  code does not sort them out.
* `CacheFirstTurn`: a cached answer is given in mid-conversation only where every question
  that the window holds got a stub reply.  A reply whose question the window's LIMIT has cut
  off is cut as well before the code looks (`_repair_window`), so it does not keep a
  cached answer away, even where it came from a model.
* `QuestionKept`: a stored question gets an answer unless its turn died.

`tg_bot` (`TgBot.cfg`): one admin, two guests, two codes, three updates in batches of two,
one end of the process, one fault.  About 170,000 states.

* `WelcomedOnce`, `RevokedStaysOut`: the state file against kills between change, save and
  answer.  Excluded is a save that failed and was then lost, or an unreadable file.
* `HandledOnce`: an update is handled again only when the drain of a start failed.
* `AllSettle` (liveness): an update is handled or drained.

`dashboard` (`Dashboard.cfg`): sessions with two browsers and three requests under way,
reports with two generations and a midnight, alerts with two sources and three
hours.  About 2.2 million states.

* `SignedOutStays`, `NewChatSticks`: late answers re-sign old cookies; a logout, a logout of
  all and a new chat hold against them, as far as the code can hold: a browser
  with a request past the guard at that moment is promised nothing, and
  `/logout/all` nothing while the database could not be written, since then the epochs
  differ and a number may come back.
* `OneReportADay`: beside an older report of its kind and day a report stands only if it was
  forced, or was under way when the older one was stored.  Two generations side by side
  do file two.
* `DeadlinesBacked`: the stored deadlines are those of the stored reports, all of theirs and
  no others, wherever a generation is refused, waits, fails or dies.
* `TroubleTold`: what an alert was about was named in a push, or its push failed, or
  its text only counted it.

Four runs show a sentence of the repository that the code does not keep:

* `dead_never_sent` (`DeadWasSent`): README.md:263-264 says an item is re-sent until
  `done` or `dead`.  A walk fails after one of its rows was committed; the row has no
  payload, the next walk skips it as known, and it ends dead without one POST.
* `two_leads` (`OneLeadPerItem`): delivery.py:5-7 relies on the workflow's idempotency
  check; the exported check reads a status written at the very end.  Two
  overlapping executions, or one that failed after its lead, give two leads.
* `done_then_dead` (`DeadNotDelivered`): the sweep's alert says dead items will not
  reach the CRM; its UPDATE overwrites a `done` written since its SELECT.
* `backfill_unread` (`BackfillReadHistory`): pipeline.py:200-202 says a failure leaves
  `backfilled_at` empty, and `_test_fetch` calls itself read-only.  Both leave validators
  behind; the next walk is answered 304, reads nothing and sets `backfilled_at`.

More divergences were met and have no run:

* README.md:271-274 says that items of equal `fingerprint` collapse into one lead, but
  nothing reads the column;
* 001_core_schema.sql:67 says `done` means a confirmed lead, while `Mark handled (no lead)`
  writes `done` as well;
* `_parse_deadlines` (weekly.py:441-443) says it never throws and that a crooked answer of
  the model must not bring down a report already synthesised.  A date like 2026-02-31, a
  NUL or a lone surrogate in a title passes it, is refused in the transaction of the
  report (weekly.py:580) and takes the report with it: `Refused`.  No property excuses this
  and none forbids it; that it can happen is plain from the one action;
* README.md:299 says the crawl can be interrupted freely.  The first incremental pass of
  a repository stores its newest topic first and has no `since` yet (kb_github.py:577); cut
  short there, it leaves a newest date that hides the topics it had not reached from
  the next pass: without the excused topics `RepoAccounted` does not hold;
* the docstring of `kb_github.backfill` (491-497) says a crash costs at most one page of
  listing again; a backfill with `--again` drops `since` with its first saved cursor, and if
  an update had died midway, what that had not reached is passed over as well;
* `bump_epoch` says all cookies die at once; after a bump in memory only, the next one
  in the database may set the number the process has already: the case `diverged` of
  `SignedOutStays`.

### Bounds

| Bound | Why it is enough |
|---|---|
| 1 or 2 items | items share the lock, the batch, the plan and the executions; a second one shows what one item's steps do to another's |
| 2 sources | one past its backfill and one not, in either order |
| 2 workers | a loop and a manual run; the lock admits one, so a third only repeats the second |
| 2 executions | an overlap of two is the shortest way to a second lead |
| `MaxAttempts` 1, 2 | below, at and beyond the limit |
| `SweepLimit` 1, 2 | the sweep sees part or all of the rows |
| 2 consumers | the pipeline and the KB crawler; enough for the INSERT race and for a late `now()` |
| `Burst` 4, `Cost` 2, `Horizon` 6, `LastTick` 14 | the bucket runs empty, refills past a request and is contended again before the last call ends |
| `MaxLag` 1 | one tick is enough for two transactions to swap order |
| `MaxCrashes` 1 | one early end at any step; later ones begin from states the first already leaves |
| `SourceWalk`: 3 items, 2 pages of 1, `LastTick` 3, `Overlap` = `MaxWalk` = 1, `MaxFaults` 1 | an item on each page and one beyond; a walk, a change under it, and a walk after the overlap has passed |
| `KbCrawl`: 3 topics, 2 categories, `MaxLog` 4, `MaxFaults` 2 (of a Discourse forum 2 posts and 2 faults, or 3 and 1, and 3 and none with validators), `QueryPage` 2, `ListPage` 1, `Embedded` 1, `Window` 2 | pages shift within a category, a topic has a tail, a post falls out of `/posts.json`, a topic moves across a full page; a stop and a resumption that fails again |
| `ChatTurn`: `MaxId` 6, 2 threads, `HistoryRows` 3, `TranscriptRows` 3 | three whole turns, or two that overlap twice; window and transcript cut a pair |
| `TgBot`: 3 updates, 2 codes | an invite, two people with its code; a revocation and a return with the second code |
| `Dashboard`: 3 requests, 2 session ids, 2 epochs; 2 generations, 2 days, 3 reports; 2 sources, 1 named, 3 hours, 1 trouble | two tabs of one browser against another browser; both orders of two deadlines, one followed by an absurd one, or an absurd one alone; a window of silence that has not passed and one that has |

The theorems of section 5 hold without these bounds (the clock of `RateLimit` stays
bounded, by any number).

### Fairness

`FairSpec` assumes of each worker that a run goes on (`Advance`, weak: HTTP calls
have timeouts, a walk is finite, every loop in the code is bounded), that a
normal run starts again and again (`Start`, strong: the loop of `cmd_loop` tries
every interval, and another process holding the lock at one attempt does not hold
it at all of them), and that time passes.  It assumes nothing of n8n: executions
may be lost, and `PendingIsSettled` holds all the same, because the sweep ends in
`dead`.  Which items a walk records, requests in mid-walk and crashes are never
forced.

`TgBot` assumes that its process goes on, which includes that it is started again:
compose says `restart: unless-stopped`, requests have timeouts, and the loop tries
again after an error.  Nobody is made to write to the bot.  The other modules
state no fairness and no liveness.

Deadlock checking is on but for `chat_turn`, `tg_bot` and `dashboard`, which stop when their
bounds are used up: no id, update, report or hour is left.

## 4. Abstract specifications

`LeadLifecycle` has five actions on what the CRM sees of an item: it is recorded
(pending or shelved), sent, gets a lead, is settled, is abandoned.  A send is
bounded by `MaxAttempts + losses`, a lead by the number of sends.  `Settle` and
`Abandon` may follow each other: that the code lets a settled item be abandoned
is one of the findings, not a promise.

`Archive` has four actions.  The site gets a post (`Post`); a topic is read as it was at
a time no earlier than the claim (`Read`), which is what makes a reread harmless; topics
are given up (`GiveUp`); and the claim is raised over what is accounted for (`Claim`).
That a claim, once made, stays true (`ClaimKept`) follows from these actions alone.

## 5. What is proved

TLAPS checks the following for any values of the constants that the named
assumptions of the modules allow: any sets of items, sources, workers, executions,
users, codes, topics, conversations, browsers and tabs, and any bounds.  Every module
with a state machine has its typing and all its safety properties proved, and both
abstract specifications are shown to be implemented.

| Theorem | Module | Property |
|---|---|---|
| `TypeCorrect` | `RfpDeliveryProofs` | `TypeOK` of `RfpDelivery` |
| `AttemptsStayBounded` | | `AttemptsBounded` |
| `PostsStayBounded` | | `PostsBounded` |
| `HistoryStaysHome` | | `HistoryNeverSent` |
| `DeliveredMeansLead` | | `DeliveredHasLead` |
| `SweepKeepsAway` | | `NotSweptWhileDelivered` |
| `LiveAfterBackfill` | | `LiveOnlyAfterBackfill` |
| `RowsAreForGood` | | `RecordedForGood`: rows never disappear, history keeps its status |
| `DeliveryImplementsLifecycle` | | `ImplementsLifecycle` |
| `BucketTyped` | `RateLimitProofs` | `TypeOK` of `RateLimit` |
| `BooksBalance` | | `BucketAccounts` |
| `NoStall` | | `CallBounded` |
| `RateShared` | | any number of consumers get at most that many times the intended rate |
| `NotDoubled` | | `NeverDouble`, for two consumers |
| `TypeCorrect` | `SourceWalkProofs` | `TypeOK` of `SourceWalk` |
| `CompletedWalks` | | `CompletedWalkReadAll` |
| `WatermarkPassesNothing` | | `NothingBehindWatermark` |
| `TypeCorrect` | `KbCrawlProofs` | `TypeOK` of `KbCrawl` |
| `RepairIsHonest` | `KbPassProofs` | `RepairRestores` |
| `PassesAreAccounted` | | `PassAccounted` |
| `ForumIsAccounted` | | `ForumAccounted` |
| `CrawlImplementsArchive` | | `ImplementsArchive` |
| `ArchiveKeepsClaims` | | `ClaimKept` of `Archive`, by itself |
| `TypeCorrect` | `ChatTurnProofs` | `TypeOK` of `ChatTurn` |
| `RateBounded` | | `RateBound` |
| `BudgetBounded` | | `BudgetBound` |
| `StubsUnheard` | | `NoStubHeard` |
| `HistoryInTurn` | | `HistoryPaired` |
| `CacheForFirstTurn` | | `CacheFirstTurn` |
| `QuestionsKept` | | `QuestionKept` |
| `TypeCorrect` | `TgBotProofs` | `TypeOK` of `TgBot` |
| `UpdatesHandledOnce` | | `HandledOnce` |
| `CodesWelcomeOnce` | | `WelcomedOnce` |
| `RevokedStayOut` | | `RevokedStaysOut` |
| `TypeCorrect` | `DashboardProofs` | `TypeOK` of `Dashboard` |
| `SignedOutForGood` | | `SignedOutStays` |
| `NewChatForGood` | | `NewChatSticks` |
| `OneReportOnly` | | `OneReportADay` |
| `AllDeadlinesBacked` | | `DeadlinesBacked` |
| `TroublesTold` | | `TroubleTold` |

Hardly any of the properties is inductive.  Each module of proofs has an invariant
that is, in named parts, and one lemma or one step per action.  Most of the
invariants were checked by TLC on instances of section 3 before they were proved.

### Assumptions

| Assumption | Why the code justifies it |
|---|---|
| `SourceOf` maps items to sources, `CategoryOf` topics to categories, `BrowserOf` tabs to browsers | a row has one source, a topic one category, a tab is of one browser |
| `None` is no item, source or worker; categories and codes are not 0 | 0 and `None` stand for NULL |
| `MaxAttempts` and the limits of pages, windows, budgets are positive, `Cost <= Burst` | constants of the code |
| `Topics`, the chat's `Workers` are finite | a forum has so many topics, a pool so many threads |
| `HistoryRows >= 2`, `TranscriptRows` positive | `MAX_HISTORY_ROWS` is 6, the transcript's LIMIT 200 |
| `Absurd` is no programme | it names the rows that Postgres or psycopg refuses |
| `LockIsBrief` (`RateShared`, `NotDoubled` only): finitely many consumers, `Cost <= MaxWait`, and a queue of all of them for the row's lock passes within the refill of one request | `MAX_WAIT_SECONDS` is 30, a request refills in about a second at the default rate (`host_rate_limit_rps`), and the lock is held for three statements |
| `MaxWalk <= Overlap` | `WATERMARK_OVERLAP` is an hour, a walk takes minutes; the property is about walks that keep to it |
| `LastTick`, `MaxDay`, `MaxHour`, `MaxEpoch` positive, all other bounds numbers | the bounds of the models; any are allowed |

### Delivery

That a recount stays within the limit rests on the attempts the sweep SELECTed being
still the attempts in the row; this rests on nobody else counting, and this on the
lock.  `IInv` says so part by part: `LockSound` (a worker is inside a run exactly when it
holds the lock), `OpenSound` (open rows are new and belong to a fetch), `BatchSound` (what
is to be delivered was never sent), `ItemSound` (the item in hand may be counted once
more), `PlanSound` (the fates of the sweep are still true), `SentSound` (only live rows
were sent), `CountSound` (a POST is counted, in hand, or lost with a run),
`ExecutionSound` (an execution is about a sent item, and its lead precedes its alert),
`SourceSound` (a normal fetch belongs to a source past its backfill).  From `LockSound`,
`SoloRun` gives the fact nearly every step uses: while one worker runs, all others
are idle and hold nothing.  One lemma per action then shows that the action keeps
`IInv`; helper lemmas say what a commit, a POST, a count and the end of a run do.

*Refinement.*  `DeliveryImplementsLifecycle` needs one more part, `LeadSound`: the leads of
an item and the executions that may still create one are together no more than
its requests, so that each lead answers a request of its own.  Then every action is
mapped to a step of items' lives, or to a stutter: whatever commits the open
transaction (`FetcherRequest`, `SourceFails`, `FetchDone`, `Abort`) records its items, which
the abstract specification does together, and `Crash` is a loss; `Post` and `Resend`
are sends, `CreateLead` a lead, `MarkDone` and `MarkHandled` settle, `GiveUp` abandons, and
all else the CRM does not see.  What is shelved stays so because only live rows were
sent (`SentSound`), hence only they have executions.

### Rate limiter

The invariant has the books, an untouched row before the first request (`Untouched`),
and for each point of a call how late it can be (`Schedule`): `CallBounded` alone says
nothing of when a sleep ends.

`NeverDouble` is about what is let through without a token, and this happens in two
ways: a first request that loses the INSERT race, and a second pass that finds too
little.  `ShareInv` counts both before they happen.  `Owing` are the consumers that may
still go through unpaid; `Given` is what the bucket has handed out by its own clock,
that is, burst and time up to `last_refill` less what is left; and `Share` says
that what went unpaid or was refilled twice, with a `Cost` for each of `Owing`, is at
most `Crowd - 1` times what the bucket has `Given`.  It is kept
because a call that is short has seen the bucket give less than a request
short of what it needs, so whoever finds too little after its sleep was overtaken by
others who did pay (`Orderly`).  This needs `LockIsBrief`: were the lock held for longer
than a request's refill, each commit in the queue could write `last_refill` back past
a whole request, and two consumers could get more than double.

### Source walk

The ranks of a listing have no gaps (`RankFill`).  A page never gets
an earlier content again (`Once`, `EntryIsNew`): what moves to the front has a new date, and
what it pushes back stays behind it.  So a validator that matches now has matched
ever since it was kept, and nothing a walk owes lies behind it (`NothingHidden`);
while a walk is at work, everything it owes is on the page it is at or behind it
(`Coming`, `WalkReaches`).  For the watermark, `NewcomersCovered` says of an item that
came in during a walk that the overlap covers its date.  A first attempt counted as hidden only the page itself that
was answered 304; TLC refuted it with three pages, and `shadowed` is since then all
that lies behind.

### Knowledge base

`KbCrawlProofs` says of each action what it changes, field by field, and proves that
archive, validators, cursor and watermark are never ahead of the site (`Sound`).

*Forum.*  `Known(k)` is what `ForumAccounted` promises of a post, and `Awaited` are the
topics a job has still to crawl.  `CursorKept` (what the saved cursor is past is known),
`WalkKept` (so is what the running backfill is past, or awaited), `PassKept` (the same of
an incremental pass and its new watermark), `ValidatorKept` (a validator is
backed by rows, or its topic is given up), `RepairKept` (of a clean repair: what is
incomplete is still awaited, has answered 304 or was spared) together keep `PromiseKept`.
They hold because the rank of a topic in its category only grows while others
move, because a topic that moves forward during a listing is given up, and because
an empty page ends a category.

*Repository.*  A backfill walks up the order of bumps and an incremental pass down.
`RepoMoved` says that a topic that has moved since it was listed has moved past all
that the job knows; `BehindAfter`, `BehindSince`, `BehindNewest` say what lies behind the cursor,
behind `since`, and behind the archive's newest date when that takes its place;
`RepoWalk` and `RepoPass` say the same of a job at work, with `Remaining` for what it has
still to list.  Pages have no gaps in either direction (`AboveIs`, `BelowIs`).

*Space.*  A proposal is posted once, so that its place in the order never changes
(`AppendSeats`).  `SpaceCursor`, `SpaceItems`: what `skip` has passed is a prefix of the
proposals, all of them stored or listed; this is where page and skip count the
same (`SliceSize`).

*All three.*  `ClaimInv` is for repository and space what `PromiseKept` is for a forum: a row
of theirs is written whole (`Whole`), so a post is in the archive (`Got`) or still before
the backfill.  In a repository it lies past the saved position, on the page under way or
behind it (`RepoDue`); in a space it is on the last page or stored (`SpaceDue`), since
behind a page that is not full there is nothing (`SliceRest`).  `CrawlInv` is all of it.

*Refinement.*  `CrawlImplementsArchive` maps what writes a row (`Store`, `RepoItem`,
`NewestItem`, `SpaceItem`) to `Read`, the ends of backfills and updates to `Claim`, a post
to `Post`, and all else to `GiveUp`, which may give up nothing.  For `Read` a time has to be
named that is not before the claim: the version in hand, or, where the claim has gone
past it, the claim, because no post of the topic lies between.  Of a forum `Sound` says
so; of the others it follows from `Got`, since a row never counts less than before.

### Chat

`RateSound` and `BudgetSound` count rows together with the turns that have passed a
check: a turn is in one of the two counts until it ends.  `AnswerSound` says that an answer
comes after a question of its conversation; `SessionSound` that in a conversation where
turns neither overlapped nor died the rows alternate, but for the one turn under
way; `SoundSeen` and `SoundCached` say of the window what was true of the rows it was
read from.  A deletion or a pruning takes from a window only what it removes
(`RemovalCutsWindow`), so a window whose questions all got a stub reply when the turn
read it is of that kind still (`OnlyStubs`).

### Telegram bot

`OffsetSound`, `BatchSound` place each update in the queue, in the batch or behind the
offset.  `WelcomeSound` and `RevokeSound` tie what people were told to what the file says,
or will say when the save under way succeeds; `UsedOnDisk` and `OutOfDisk` are what a
restart reads.

### Panel

One invariant per part, and the steps of one part leave the other two alone
(`PartsStay`).  `SessionInv` says what answers still on their way may carry: no chat
session id and, while process and database agree, no epoch that does not exist yet;
nothing of a browser that is out but logins (`OutIsOut`), nothing of one that was cut
off that would set a live cookie (`CutIsCut`), no conversation its browser has left
(`LeftIsLeft`).  One lemma, `RequestMoves`, serves the eight actions that change one request
only; signing out of all, restart, expiry and delivery have their own.  `WeeklyInv`
says that while a generation is under way that was not forced, whatever report of its
kind and day is there was stored since it passed the guard (`GuardStood`), and that the
block of one that stores is what its transaction has written and what is left to
write (`BlockWhole`), so that at the commit nothing of it is missing.  `AlertInv` says that a text is logged only for
sources that were told or missed, or are about to be: this is why its repetition
may be silent.  For the typing, every epoch is at most what is stored plus what was
set in memory only.

The three are proved for every behaviour of `Dashboard`, whose scenes are parallel
parts without common state.

### Only model-checked

* `PendingIsSettled`, `LockIsReleased`, `AllSettle`: fairness and ENABLED are outside the
  prover's reach.
* The four violations of section 3, which are counterexamples.

## 6. Not modelled

* `items.py`, `filters.py`: text functions without state; the models leave their outcome
  open.
* Search tools of the MCP server and `make_brief`: queries and one insert.  The timed
  n8n reports other than the weekly one: queries and a message.
* Migrations, configuration, deployment, backups.
* Of the panel: the password throttle, forms that are one UPDATE of a row, the archive of
  briefs, `dismissed_at` of deadlines, cookie names.  The age of a form's token is
  left open: any form may be refused.
* Of the walk: several categories of one forum (one stops without the others), the
  five-second limit of the test of all sources, `defillama`, whose items are a ranking
  of the moment.
* Of the crawlers: two jobs on one forum at once, bumps that add no post, caps on
  pages, dates of one second's resolution, a forum without token.
* Of the chat: the tool loop and its web research, whose tokens are not counted, and
  wording.  The numbering of the bot's conversations (`/new`) is lost at a restart; it
  only chooses a `Sessions` element.
* The order of the retry sweep under its LIMIT of 200.

## 7. Plan

1. `RetrySweep`: the order of the sweep under its LIMIT.
2. Two jobs on one forum at once, in `KbCrawl`.
3. Several categories in `SourceWalk`.

Each of them widens a module whose proofs exist, and has them extended with it.
