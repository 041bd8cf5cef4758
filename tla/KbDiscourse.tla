----------------------------- MODULE KbDiscourse -----------------------------
(***************************************************************************)
(* worker/kb.py: backfill, incremental and repair of a Discourse forum.    *)
(* A topic is crawled in three steps: the page (whose validator is         *)
(* committed at once), its rows (committed by the next request or at the   *)
(* end), the tail of a long topic.                                         *)
(***************************************************************************)
EXTENDS KbForum

Rank(t) == Cardinality({u \in Topics : /\ CategoryOf[u] = CategoryOf[t]
                                       /\ Bump(u) > Bump(t)})
Listing(c, p) == {t \in Topics : /\ CategoryOf[t] = c /\ Exists(t)
                                 /\ Rank(t) \in p * ListPage .. (p + 1) * ListPage - 1}

\* Mutant: the page that was interrupted is not listed again.
CursorNext(c, p) == [NoCursor EXCEPT !.done = cursor.done, !.category = c, !.page = p + 1]

\* cursor_at
CursorAt(c, p) == [NoCursor EXCEPT !.done = cursor.done, !.category = c, !.page = p]

\* The first category that is not done, at the page where the cursor left it.
Enter(doneIds) ==
    LET rest == Categories \ doneIds
        c    == Least(rest)
    IN  IF rest = {} THEN [Idle EXCEPT !.mode = "backfill", !.pc = "finish"]
        ELSE [Idle EXCEPT !.mode = "backfill", !.pc = "list", !.category = c,
                          !.page = IF c = cursor.category THEN cursor.page ELSE 0]

\* cmd_kb_backfill: the cursor says where to go on.
BeginBackfill ==
    /\ MayBegin("backfill")
    /\ job' = Enter(cursor.done)
    /\ Rebase
    /\ UNCHANGED <<kind, log, rec, cache, forum, faults, promised, excused>>

\* done_ids.add, and on to the next category
CategoryDone ==
    /\ cursor' = [NoCursor EXCEPT !.done = cursor.done \cup {job.category}]
    /\ job' = Enter(cursor.done \cup {job.category})

ListPageOf ==
    /\ job.pc = "list"
    /\ LET page == Listing(job.category, job.page)
       IN  IF page # {}
           THEN /\ job' = [job EXCEPT !.pc = "pick",
                                      !.todo = {<<t, Bump(t)>> : t \in page}]
                /\ UNCHANGED cursor
           ELSE CategoryDone
    /\ UNCHANGED <<kind, log, rec, cache, done, mark, faults, history>>

\* What the listing of a category shows from a page on
Unlisted(c, p) == {t \in Topics : CategoryOf[t] = c /\ Rank(t) >= p * ListPage}

\* A listing answered with null reads as the end of the category.
ListNull ==
    /\ job.pc = "list"
    /\ faults < MaxFaults
    /\ faults' = faults + 1
    /\ CategoryDone
    /\ excused' = excused \cup Unlisted(job.category, job.page)
    /\ UNCHANGED <<kind, log, rec, cache, done, mark, base, promised>>

PageDone ==
    /\ job.pc = "pick" /\ job.mode = "backfill"
    /\ job.todo = {}
    /\ cursor' = CursorAt(job.category, job.page + 1)
    /\ job' = [job EXCEPT !.pc = "list", !.page = @ + 1]
    /\ UNCHANGED <<kind, log, rec, cache, done, mark, faults, history>>

\* should_stop or max_topics, before a page or in the middle of it
StopBackfill ==
    /\ job.mode = "backfill"
    /\ job.pc = "list" \/ (job.pc = "pick" /\ job.todo # {})
    /\ cursor' = CursorAt(job.category, job.page)
    /\ job' = Idle
    /\ UNCHANGED <<kind, log, rec, cache, done, mark, faults, history>>

EndBackfill ==
    /\ job.pc = "finish"
    /\ Finish
    /\ UNCHANGED <<kind, log, rec, cache, mark, faults, excused>>

-----------------------------------------------------------------------------
\* crawl_topic

\* The backfill's skip check: stored whole, and not bumped since.
Settled(e) == ~Incomplete(e[1]) /\ rec[e[1]].bumped # 0 /\ e[2] <= rec[e[1]].bumped

Pick(e) ==
    /\ job.pc = "pick"
    /\ e \in job.todo
    /\ job' = IF job.mode = "backfill" /\ Settled(e)
              THEN [job EXCEPT !.todo = @ \ {e}]
              ELSE [job EXCEPT !.todo = @ \ {e}, !.pc = "get", !.topic = e[1],
                               !.listed = e[2]]
    /\ UNCHANGED <<kind, log, rec, cache, forum, faults, history>>

Back == [job EXCEPT !.pc = "pick", !.topic = 0, !.listed = 0, !.version = 0]

\* 304: nothing is stored, and the topic counts as complete.
Unchanged ==
    /\ job.pc = "get"
    /\ validator[job.topic] = Bump(job.topic)
    /\ job' = Back
    /\ UNCHANGED <<kind, log, rec, cache, forum, faults, history>>

Get ==
    /\ job.pc = "get"
    /\ validator[job.topic] # Bump(job.topic)
    /\ validator' = [validator EXCEPT ![job.topic] = IF etags THEN Bump(job.topic) ELSE @]
    /\ job' = [job EXCEPT !.pc = "store", !.version = Bump(job.topic)]
    /\ UNCHANGED <<kind, log, rec, etags, forum, faults, history>>

\* Complete, with fewer rows than posts.
Short == [Back EXCEPT !.spared = IF job.mode = "repair" THEN @ \cup {job.topic} ELSE @]

\* A hidden or deleted topic: 200 with null, or 304 to that. Nothing is stored,
\* and the topic counts as complete.
GetNull ==
    /\ job.pc = "get"
    /\ faults < MaxFaults
    /\ faults' = faults + 1
    /\ validator' = [validator EXCEPT ![job.topic] = IF etags THEN 0 ELSE @]
    /\ job' = Short
    /\ excused' = IF job.mode = "repair" THEN excused ELSE excused \cup {job.topic}
    /\ UNCHANGED <<kind, log, rec, etags, forum, base, promised>>

\* Mutant: the counter of failures is not kept.
FailingQuietly == Back

\* stats["failed"], still_incomplete
Failing == [Back EXCEPT !.failed = TRUE]

\* A topic that cannot be had: the backfill goes on without it, the others
\* count it.
GetFails ==
    /\ job.pc = "get"
    /\ faults < MaxFaults
    /\ faults' = faults + 1
    /\ job' = Failing
    /\ excused' = IF job.mode = "backfill" THEN excused \cup {job.topic} ELSE excused
    /\ UNCHANGED <<kind, log, rec, cache, forum, base, promised>>

\* listing_bumped_at or last_posted_at
BumpedAt == IF job.listed # 0 THEN job.listed ELSE job.version

\* How many rows there are when some posts have come: what is stored stays, a
\* blank post, or one left out, makes no row, and a blank one may have been edited.
Rows(have, come, count) == have .. Lesser(have + come, count)

\* An unusual number of rows is counted as a fault of the site.
Unusual(n, usual) ==
    /\ n # usual => faults < MaxFaults
    /\ faults' = IF n = usual THEN faults ELSE faults + 1

\* The row and the embedded posts.
Store ==
    /\ job.pc = "store"
    /\ LET t     == job.topic
           count == Posts(t, job.version)
           head  == Lesser(count, Embedded)
       IN  \E have \in Rows(rec[t].have, head, count) :
              /\ Unusual(have, Later(rec[t].have, head))
              /\ rec' = [rec EXCEPT ![t] = [have |-> have, count |-> count,
                                            bumped |-> BumpedAt]]
              /\ job' = IF count > Embedded THEN [job EXCEPT !.pc = "tail"]
                        ELSE IF have < count THEN Short ELSE Back
              /\ excused' = excused \ {t}
    /\ UNCHANGED <<kind, log, cache, forum, base, promised>>

\* The tail, in chunks that may answer null or without some of the posts.
Chunks ==
    /\ job.pc = "tail"
    /\ LET row  == rec[job.topic]
           come == row.count - Embedded
       IN  \E have \in Rows(row.have, come, row.count) :
              /\ Unusual(have, Lesser(row.have + come, row.count))
              /\ rec' = [rec EXCEPT ![job.topic].have = have]
              /\ job' = IF have < row.count THEN Short ELSE Back
    /\ UNCHANGED <<kind, log, cache, forum, history>>

\* A chunk cannot be had: complete = False, which repair reports as
\* still_incomplete and the other two do not count.
ChunkFails ==
    /\ job.pc = "tail"
    /\ faults < MaxFaults
    /\ faults' = faults + 1
    /\ job' = IF job.mode = "repair" THEN Failing ELSE Back
    /\ UNCHANGED <<kind, log, rec, cache, forum, history>>

-----------------------------------------------------------------------------
\* incremental: /posts.json, then the first page of /latest.json.
BeginUpdate ==
    /\ kind = "discourse"
    /\ MayBegin("update")
    /\ job' = [Idle EXCEPT !.mode = "update", !.pc = "posts"]
    /\ UNCHANGED <<kind, log, rec, cache, forum, faults, history>>

\* The posts of the page behind the watermark are passed over.
Fresh == {k \in 1 .. Len(log) : k > Len(log) - Window /\ k > mark}

NewPosts ==
    /\ job.pc = "posts"
    /\ job' = [job EXCEPT !.pc = "latest", !.todo = {<<log[k], 0>> : k \in Fresh},
                          !.newest = Newest(Fresh)]
    /\ excused' = excused \cup
          {log[k] : k \in {n \in mark + 1 .. Len(log) - Window :
                               rec[log[n]].count < Posts(log[n], n)}}
    /\ UNCHANGED <<kind, log, rec, cache, forum, faults, base, promised>>

\* /posts.json or /latest.json answers null: nothing is on the page.
UpdateNull ==
    /\ faults < MaxFaults
    /\ faults' = faults + 1
    /\ \/ job.pc = "posts" /\ job' = [job EXCEPT !.pc = "latest"]
       \/ job.pc = "latest" /\ job' = [job EXCEPT !.pc = "pick"]
    /\ UNCHANGED <<kind, log, rec, cache, forum, history>>

Latest ==
    /\ job.pc = "latest"
    /\ LET first == {t \in Topics : /\ Exists(t)
                                    /\ Cardinality({u \in Topics : Bump(u) > Bump(t)})
                                         < ListPage}
           moved == {t \in first : Incomplete(t) \/ Bump(t) > rec[t].bumped}
       IN  job' = [job EXCEPT !.pc = "pick",
                              !.todo = {e \in @ : e[1] \notin moved}
                                       \cup {<<t, Bump(t)>> : t \in moved}]
    /\ UNCHANGED <<kind, log, rec, cache, forum, faults, history>>

\* Mutant: the watermark is put past the newest post.
MarkPast == IF job.failed THEN mark ELSE Later(mark, job.newest + 1)

\* The watermark advances only on a clean pass.
Mark == IF job.failed THEN mark ELSE Later(mark, job.newest)

EndUpdate ==
    /\ kind = "discourse"
    /\ job.mode = "update" /\ job.pc = "pick"
    /\ job.todo = {}
    /\ mark' = Mark
    /\ promised' = Later(promised, mark')
    /\ job' = Idle
    /\ UNCHANGED <<kind, log, rec, cache, done, cursor, faults, base, excused>>

-----------------------------------------------------------------------------
\* repair: the candidates are read once, from the rows.
BeginRepair ==
    /\ MayBegin("repair")
    /\ LET candidates == {t \in Topics : Incomplete(t)}
       IN  /\ candidates # {}
           /\ job' = [Idle EXCEPT !.mode = "repair", !.pc = "pick",
                                  !.todo = {<<t, 0>> : t \in candidates}]
    /\ UNCHANGED <<kind, log, rec, cache, forum, faults, history>>

EndRepair ==
    /\ job.mode = "repair" /\ job.pc = "pick"
    /\ job.todo = {}
    /\ job' = Idle
    /\ UNCHANGED <<kind, log, rec, cache, forum, faults, history>>

StopRepair ==
    /\ job.mode = "repair" /\ job.pc = "pick"
    /\ job.todo # {}
    /\ job' = Idle
    /\ UNCHANGED <<kind, log, rec, cache, forum, faults, history>>

DiscourseNext ==
    /\ kind = "discourse"
    /\ \/ BeginBackfill \/ ListPageOf \/ ListNull \/ PageDone \/ StopBackfill \/ EndBackfill
       \/ \E e \in job.todo : Pick(e)
       \/ Unchanged \/ Get \/ GetNull \/ GetFails \/ Store \/ Chunks \/ ChunkFails
       \/ BeginUpdate \/ NewPosts \/ Latest \/ UpdateNull \/ EndUpdate
       \/ BeginRepair \/ EndRepair \/ StopRepair
=============================================================================
