----------------------------- MODULE SourceWalk -----------------------------
(***************************************************************************)
(* One source of the worker: its remote listing, the walks of              *)
(* _fetch_source over it, the validators http_cache keeps between them,    *)
(* and the date watermark.                                                 *)
(*                                                                         *)
(* The kind of the source decides how it is read: "pages" is discourse     *)
(* (cached pages, newest first), "feed" is rss and rest_aggregator (one    *)
(* cached page), "query" is snapshot and github_discussions (one POST,     *)
(* never cached).  A validator stands for the content it was sent with.    *)
(***************************************************************************)
EXTENDS Integers, FiniteSets

CONSTANTS Items,          \* numbers: ties of date are listed by number
          MaxPages,       \* MAX_PAGES
          PageSize,       \* topics of a page
          Overlap,        \* WATERMARK_OVERLAP
          MaxWalk,        \* bound: ticks a walk lasts
          MaxFaults,      \* bound: walks that fail, test fetches
          LastTick        \* bound: the clock stops here

\* A walk is over long before the overlap is.
ASSUME WalkBounds ==
    /\ Items \subseteq Nat
    /\ {MaxPages, PageSize, LastTick} \subseteq Nat \ {0}
    /\ {Overlap, MaxWalk, MaxFaults} \subseteq Nat
    /\ MaxWalk <= Overlap

Kinds == {"pages", "feed", "query"}

VARIABLES kind, clock,
          date,           \* what is listed: [item -> its date], 0 if undated
          validator,      \* http_cache: [page -> content it was sent with]
          last_item_at, last_success_at,  \* 0 is NULL
          backfilled,     \* backfilled_at is not NULL
          seen,           \* items that have their row
          walk,           \* the walk at work
          faults,
          excused,        \* history: unseen, and no promise is made for them
          owed,           \* history: unseen and not excused, though a walk that
                          \* began after they were listed has completed
          shadowed        \* history: unseen, behind the validator of a walk
                          \* that failed or of a test fetch

remote  == <<kind, date>>
row     == <<last_item_at, last_success_at, backfilled>>
history == <<excused, owed, shadowed>>
vars    == <<kind, clock, date, validator, row, seen, walk, faults, history>>

Listed == DOMAIN date
Pages  == 0 .. (IF kind = "pages" THEN MaxPages - 1 ELSE 0)
Height == IF kind = "pages" THEN PageSize ELSE MaxPages * PageSize

Before(d, i, j) == d[i] > d[j] \/ (d[i] = d[j] /\ i < j)
Rank(d, i)      == Cardinality({j \in DOMAIN d : Before(d, j, i)})
OnPage(d, p)    == {i \in DOMAIN d : Rank(d, i) \in p * Height .. (p + 1) * Height - 1}
Page(d, p)      == {<<i, d[i]>> : i \in OnPage(d, p)}
Beyond(d)       == {i \in DOMAIN d : Rank(d, i) >= Height * Cardinality(Pages)}
Newest(S)       == CHOOSE t \in S \cup {0} : \A u \in S : u <= t

Idle == [pc |-> "idle", page |-> 0, since |-> 0, began |-> 0, newest |-> 0,
         got |-> {}, listed |-> {}]

TypeOK ==
    /\ kind \in Kinds
    /\ clock \in 1 .. LastTick
    /\ Listed \subseteq Items
    /\ \A i \in Listed : date[i] \in 0 .. LastTick + 1
    /\ \A p \in Pages : validator[p] \subseteq Items \X (0 .. LastTick + 1)
    /\ {last_item_at, last_success_at} \subseteq 0 .. clock
    /\ backfilled \in BOOLEAN
    /\ seen \subseteq Listed
    /\ walk.pc \in {"idle", "get", "read", "end"}
    /\ walk.since <= clock
    /\ faults \in 0 .. MaxFaults
    /\ (owed \cup excused \cup shadowed) \subseteq Listed

Init ==
    /\ kind \in Kinds
    /\ clock = 1
    /\ date = [i \in {} |-> 0]
    /\ validator = [p \in Pages |-> {}]
    /\ last_item_at = 0 /\ last_success_at = 0
    /\ backfilled = FALSE
    /\ seen = {}
    /\ walk = Idle
    /\ faults = 0
    /\ owed = {} /\ excused = {} /\ shadowed = {}

-----------------------------------------------------------------------------
\* The site.  An item is listed with today's date, late with an earlier one,
\* undated, or with a deadline ahead for a date.
\* The books: who has its row now, and for whom nothing is promised.
Account(s, given, hidden) ==
    /\ excused' = (excused \cup given) \ s
    /\ shadowed' = (shadowed \cup hidden) \ (s \cup excused')
    /\ owed' = owed \ (s \cup excused')

List(d, given) ==
    /\ date' = d
    /\ Account(seen, given, {})
    /\ UNCHANGED <<kind, clock, validator, row, seen, faults>>

\* The overlap forgives a late listing; but an unchanged front page stops the
\* walk, so what changes in the pages must change the front too.
OnTime(d, i) == /\ d[i] = 0 \/ d[i] >= clock - (Overlap - MaxWalk)
                /\ kind = "pages" => Rank(d, i) = 0

Late(d, i) == IF OnTime(d, i) THEN {} ELSE {i}

Publish(i, t) ==
    /\ i \notin Listed
    /\ t \in (1 .. clock) \cup (IF kind = "feed" THEN {0, clock + 1} ELSE {})
    /\ LET d == [j \in Listed \cup {i} |-> IF j = i THEN t ELSE date[j]]
       IN  /\ List(d, Beyond(d) \cup Late(d, i))
           /\ UNCHANGED walk

\* A topic that moves under a walk is for the next one.
Bump(i) ==
    /\ kind = "pages"
    /\ i \in Listed
    /\ date[i] < clock
    /\ LET d == [date EXCEPT ![i] = clock]
       IN  /\ List(d, Beyond(d) \cup Late(d, i))
           /\ walk' = [walk EXCEPT !.listed = @ \ {i}]

Tick ==
    /\ clock < LastTick
    /\ walk.pc # "idle" => clock < walk.began + MaxWalk
    /\ clock' = clock + 1
    /\ UNCHANGED <<remote, validator, row, seen, walk, faults, history>>

-----------------------------------------------------------------------------
\* Mutant: no overlap.
WatermarkBare(seed) ==
    IF seed THEN 0
    ELSE IF last_item_at # 0 THEN last_item_at ELSE last_success_at

\* Mutant: the first walk starts where any other does.
WatermarkSeedless(seed) ==
    (IF last_item_at # 0 THEN last_item_at ELSE clock) - Overlap

\* _watermark; a seed or backfill walk reaches back past everything.
Watermark(seed) ==
    IF seed THEN 0
    ELSE (IF last_item_at # 0 THEN last_item_at ELSE last_success_at) - Overlap

\* Mutant: dates of the future are taken.
CredibleAny(t, now) == t # 0

\* _watermark_marker
Credible(t, now) == t # 0 /\ t <= now

\* The CASE of the final UPDATE: GREATEST, and NULL changes nothing.
LastItem(t) == IF t > last_item_at THEN t ELSE last_item_at

StartWalk(seed) ==
    /\ walk.pc = "idle"
    /\ walk' = [Idle EXCEPT !.pc = "get", !.began = clock, !.listed = Listed \ seen,
                            !.since = Watermark(seed \/ ~backfilled)]
    /\ UNCHANGED <<remote, clock, validator, row, seen, faults, history>>

\* The walk answers its caller with what it has.
Stop == walk' = [walk EXCEPT !.pc = "end", !.got = {}]

\* HttpClient.get: 304, or the page and its validator, which is committed.
GetUnchanged ==
    /\ walk.pc = "get"
    /\ kind # "query"
    /\ validator[walk.page] # {}
    /\ validator[walk.page] = Page(date, walk.page)
    /\ Stop
    /\ UNCHANGED <<remote, clock, validator, row, seen, faults, history>>

Get ==
    /\ walk.pc = "get"
    /\ kind # "query" => validator[walk.page] = {}
                         \/ validator[walk.page] # Page(date, walk.page)
    /\ LET content == Page(date, walk.page)
       IN  /\ walk' = [walk EXCEPT !.pc = "read", !.got = content]
           /\ validator' = IF kind = "query" THEN validator
                           ELSE [validator EXCEPT ![walk.page] = content]
    /\ UNCHANGED <<remote, clock, row, seen, faults, history>>

\* What a page yields: dated items behind since are passed over, undated
\* topics too.
Yield == {e \in walk.got : e[2] >= walk.since \/ (e[2] = 0 /\ kind # "pages")}

\* The page is recorded; on to the next one unless it was stale.
Read ==
    /\ walk.pc = "read"
    /\ seen' = seen \cup {e[1] : e \in Yield}
    /\ LET now == walk.began
           t   == Newest({walk.newest} \cup
                         {e[2] : e \in {f \in Yield : Credible(f[2], now)}})
       IN  IF Yield # {} /\ walk.page + 1 \in Pages
           THEN walk' = [walk EXCEPT !.pc = "get", !.page = @ + 1,
                                     !.newest = t, !.got = {},
                                     !.listed = @ \ seen']
           ELSE walk' = [walk EXCEPT !.pc = "end", !.newest = t, !.got = {},
                                     !.listed = @ \ seen']
    /\ Account(seen', {}, {})
    /\ UNCHANGED <<remote, clock, validator, row, faults>>

\* The final UPDATE, after the items were handed on.
Complete ==
    /\ walk.pc = "end"
    /\ last_success_at' = clock
    /\ backfilled' = TRUE
    /\ last_item_at' = LastItem(walk.newest)
    /\ walk' = Idle
    /\ owed' = owed \cup (walk.listed \ (seen \cup excused))
    /\ UNCHANGED <<remote, clock, validator, seen, faults, excused, shadowed>>

\* What validators v hide from the next walk, of what is not in s: it stops at
\* a page that has not changed, and reads none of those behind it.
Hidden(v, s) ==
    {i \in Listed \ s : \E p \in Pages : /\ v[p] # {} /\ v[p] = Page(date, p)
                                       /\ Rank(date, i) >= p * Height}

\* A request fails, a page cannot be parsed, a topic halfway down is blocked,
\* the final UPDATE fails, or the process dies.  Rows recorded so far stay, and
\* so do validators.
Fail ==
    /\ faults < MaxFaults
    /\ walk.pc # "idle"
    /\ faults' = faults + 1
    /\ \E part \in SUBSET {e[1] : e \in Yield} :
          /\ seen' = seen \cup part
          /\ Account(seen', {}, Hidden(validator, seen'))
    /\ walk' = Idle
    /\ UNCHANGED <<remote, clock, validator, row>>

\* _test_fetch of the admin panel, before a source is added and from "Test all
\* sources": the same fetcher, which keeps validators, and no row.  It stops
\* at some page, with five items at the latest.
TestFetch ==
    /\ faults < MaxFaults
    /\ kind # "query"
    /\ validator[0] # Page(date, 0)
    /\ faults' = faults + 1
    /\ \E last \in Pages :
          validator' = [p \in Pages |-> IF p <= last THEN Page(date, p) ELSE validator[p]]
    /\ Account(seen, {}, Hidden(validator', seen))
    /\ UNCHANGED <<remote, clock, row, seen, walk>>

Site == \/ \E i \in Items : Bump(i) \/ \E t \in 0 .. LastTick + 1 : Publish(i, t)
        \/ Tick

Walk == \/ \E seed \in BOOLEAN : StartWalk(seed)
        \/ GetUnchanged \/ Get \/ Read \/ Complete \/ Fail

Next == Site \/ Walk \/ TestFetch

Spec == Init /\ [][Next]_vars

-----------------------------------------------------------------------------
\* What a completed walk stands for: all that was listed when it began has
\* its row, down to the last page, unless it was listed late or lies behind
\* the validator of a walk that failed, or of a test fetch.  _watermark, the
\* stop at a stale page and the 304 of HttpClient.get may not skip anything
\* else.
CompletedWalkReadAll == owed \subseteq shadowed

\* The watermark never passes over an item: what is older than the next
\* walk's since has its row, though dates come from the site, items appear
\* while a walk is at work, and last_item_at is the newest of them only.
NothingBehindWatermark ==
    backfilled =>
        \A i \in Listed : date[i] # 0 /\ date[i] < Watermark(FALSE)
                            => i \in seen \cup excused \cup shadowed

\* Comment at the final UPDATE of _fetch_source: a failure does not reach it,
\* so the backfill is done again, and backfilled_at means that it was done;
\* and _test_fetch calls itself read-only.
BackfillReadHistory == owed = {}
=============================================================================
