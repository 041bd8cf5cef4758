------------------------------ MODULE KbForum ------------------------------
(***************************************************************************)
(* One row of kb.forums, its topics in the archive, and the remote site.   *)
(* worker/main.py picks the crawler by the row's kind; modules KbDiscourse,*)
(* KbGithub and KbSnapshot are the crawlers, one job at a time.            *)
(*                                                                         *)
(* The site is the log of its activity: log[k] is the topic that got its   *)
(* k-th post, and k is the time of it.  A topic's bumped_at is the time of *)
(* its newest post; a proposal has one post, its creation.                 *)
(***************************************************************************)
EXTENDS Integers, Sequences, FiniteSets

CONSTANTS Topics,         \* numbers of topics, discussions, proposals
          Categories,     \* numbers of the forum's categories
          CategoryOf,     \* [Topics -> Categories]
          ListPage,       \* topics of a listing page of a forum
          QueryPage,      \* PAGE_SIZE of a GraphQL page
          Embedded,           \* posts embedded in /t/<id>.json
          Tolerance,      \* REPAIR_TOLERANCE
          Window,         \* posts of /posts.json
          MaxLog,         \* bound: activity of the site
          MaxFaults       \* bound: requests that fail, answers that leave posts or
                          \* topics out, jobs that die

ASSUME ForumBounds ==
    /\ CategoryOf \in [Topics -> Categories]
    /\ Categories \subseteq Nat \ {0}
    /\ IsFiniteSet(Topics)
    /\ {ListPage, QueryPage, Embedded, Window} \subseteq Nat \ {0}
    /\ {Tolerance, MaxLog, MaxFaults} \subseteq Nat

VARIABLES kind, log,
          rec,            \* kb.topics with the number of its kb.posts
          etags,          \* the site sends validators
          validator,      \* http_cache of /t/<id>.json: time of the answer
          done,           \* backfill_done
          cursor,         \* backfill_cursor
          mark,           \* last_post_seen_at, 0 is NULL
          job,            \* the crawler process
          faults,
          base,           \* history: length of log when the backfill began
          promised,       \* history: the archive claims log[1 .. promised]
          excused         \* history: topics the crawlers give up on

forum   == <<done, cursor, mark>>
cache   == <<etags, validator>>
history == <<base, promised, excused>>
vars    == <<kind, log, rec, cache, forum, job, faults, history>>

Least(S)   == CHOOSE x \in S : \A y \in S : x <= y
Newest(S)  == CHOOSE x \in S \cup {0} : \A y \in S : y <= x

Bumps(t, v) == {k \in 1 .. v : log[k] = t}
Posts(t, v) == Cardinality(Bumps(t, v))
Bump(t)     == Newest(Bumps(t, Len(log)))
Exists(t)   == Bump(t) # 0

NoTopic == [have |-> 0, count |-> 0, bumped |-> 0]
NoCursor == [done |-> {}, category |-> 0, page |-> 0, after |-> 0, since |-> 0,
             skip |-> 0]

\* spared is history: topics that a repair counts as complete although the site
\* left out some of their posts, or all.
Idle == [mode |-> "idle", pc |-> "idle", category |-> 0, page |-> 0, after |-> 0,
         skip |-> 0, todo |-> {}, topic |-> 0, listed |-> 0, version |-> 0,
         newest |-> 0, failed |-> FALSE, more |-> FALSE, spared |-> {}]

\* kb._known_topics, find_incomplete_topics: fewer rows than post_count says
Incomplete(t) == rec[t].have < rec[t].count - Tolerance

\* max(bumped_at), max(created_at)
NewestArchived == Newest({rec[t].bumped : t \in Topics})

Later(old, new) == IF new > old THEN new ELSE old
Lesser(a, b)    == IF a < b THEN a ELSE b

TypeOK ==
    /\ kind \in {"discourse", "github", "snapshot"}
    /\ log \in Seq(Topics) /\ Len(log) <= MaxLog
    /\ \A t \in Topics : /\ rec[t].have \in 0 .. rec[t].count
                         /\ rec[t].bumped \in 0 .. Len(log)
                         /\ validator[t] \in 0 .. Len(log)
    /\ etags \in BOOLEAN
    /\ done \in BOOLEAN
    /\ cursor.done \subseteq Categories
    /\ mark \in 0 .. Len(log)
    /\ job.mode \in {"idle", "backfill", "update", "repair"}
    /\ faults \in 0 .. MaxFaults
    /\ {base, promised} \subseteq 0 .. Len(log)
    /\ excused \subseteq Topics

Init ==
    /\ kind \in {"discourse", "github", "snapshot"}
    /\ log = <<>>
    /\ rec = [t \in Topics |-> NoTopic]
    /\ validator = [t \in Topics |-> 0]
    /\ etags \in (IF kind = "discourse" THEN BOOLEAN ELSE {FALSE})
    /\ done = FALSE
    /\ cursor = NoCursor
    /\ mark = 0
    /\ job = Idle
    /\ faults = 0
    /\ base = 0 /\ promised = 0
    /\ excused = {}

-----------------------------------------------------------------------------
\* A page is listed by newest activity: a topic that is bumped during a
\* backfill jumps to pages already read.
Walking == kind = "discourse" /\ (job.mode = "backfill" \/ cursor # NoCursor)

SitePost(t) ==
    /\ Len(log) < MaxLog
    /\ kind = "snapshot" => ~Exists(t)
    /\ log' = Append(log, t)
    /\ excused' = IF Walking THEN excused \cup {t} ELSE excused
    /\ UNCHANGED <<kind, rec, cache, forum, job, faults, base, promised>>

\* cmd_kb_backfill: forums not done, or any with --again; cmd_kb_update: only
\* those done; cmd_kb_repair: any whose crawler has a repair.
MayBegin(mode) ==
    /\ job = Idle
    /\ mode = "update" => done
    /\ mode = "repair" => kind = "discourse"

\* The pass starts over, so from here on it promises what is there.
Rebase == base' = IF cursor.category = 0 /\ cursor.done = {} /\ cursor.after = 0
                     /\ cursor.skip = 0 THEN Len(log) ELSE base

\* UPDATE kb.forums SET backfill_done = true
Finish ==
    /\ done' = TRUE
    /\ cursor' = NoCursor
    /\ promised' = Later(promised, base)
    /\ base' = 0
    /\ job' = Idle

\* A topic and its posts are written in one transaction.
Upsert(t, version) ==
    /\ rec' = [rec EXCEPT ![t] = [have |-> Posts(t, version), count |-> Posts(t, version),
                                  bumped |-> version]]
    /\ excused' = excused \ {t}

\* Changed topics older than the newest one that was stored: max(bumped_at)
\* hides them from a pass that has no saved since.
Overtaken == {t \in Topics : rec[t].bumped < Bump(t) /\ Bump(t) < NewestArchived}

CutOff == IF kind = "github" /\ job.mode = "update" /\ cursor.since = 0
          THEN Overtaken ELSE {}

\* What a validator hides that was committed before its page was stored.
Unstored == IF job.pc = "store" /\ validator[job.topic] = job.version
            THEN {job.topic} ELSE {}

\* The process dies, or an exception ends the job: record_failure rolls back.
\* The cursor it saves first, if any, is where the last page ended anyway.
Lose ==
    /\ job # Idle
    /\ faults < MaxFaults
    /\ faults' = faults + 1
    /\ job' = Idle
    /\ excused' = excused \cup CutOff \cup Unstored
    /\ UNCHANGED <<kind, log, rec, cache, forum, base, promised>>
=============================================================================
