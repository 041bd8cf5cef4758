----------------------------- MODULE KbPassProofs -----------------------------
(***************************************************************************)
(* What the passes of KbCrawl account for, by the kind of the forum: an    *)
(* inductive invariant for each, the theorems that follow from it, and     *)
(* that KbCrawl implements Archive.                                        *)
(***************************************************************************)
EXTENDS KbCrawlProofs

-----------------------------------------------------------------------------
(***************************************************************************)
(* A Discourse forum.  A post is known if the archive's row counts it, or  *)
(* its topic is given up; a topic is awaited while a job has it listed or  *)
(* in hand.                                                                *)
(***************************************************************************)
Known(k) == rec[log[k]].count >= Tally(log, log[k], k) \/ log[k] \in excused

Awaited == {t \in Topics : \/ \E e \in job.todo : e[1] = t
                           \/ job.pc \in {"get", "store"} /\ job.topic = t}

\* What a job or the forum's row can claim
Claimed(k) == k <= base \/ k <= promised \/ k <= job.newest

\* The two steps of a crawl that end it, and those between
Crawl == \/ \E e \in job.todo : Pick(e)
         \/ Unchanged \/ Get \/ GetNull \/ GetFails \/ Store \/ Chunks \/ ChunkFails

LEMMA KnownFrame ==
  ASSUME NEW k \in 1 .. Len(log), Known(k), log' = log, excused \subseteq excused',
         rec'[log[k]].count = rec[log[k]].count
  PROVE  Known(k)'
  BY DEF Known

LEMMA StoreKnows ==
  ASSUME Shapes, Sound, Store, NEW k \in 1 .. Len(log), log[k] = job.topic, Claimed(k)
  PROVE  Known(k)'
<1>1. /\ job.pc = "store" /\ log' = log /\ job.topic \in Topics
      /\ rec'[job.topic].count = Tally(log, job.topic, job.version)
  BY StoreIs, PostsIs
<1>2. /\ job.version \in Nat /\ k \in Nat /\ base \in Nat /\ promised \in Nat
      /\ job.newest \in Nat /\ SiteShape
  BY DEF Shapes, JobShape, Jobs, RowShape
<1>3. k <= job.version
  BY <1>1, <1>2 DEF Sound, StoreSound, Claimed
<1>4. \A i \in 1 .. k : log[i] = job.topic => i <= job.version
  BY <1>2, <1>3
<1>5. Tally(log, job.topic, k) <= Tally(log, job.topic, job.version)
  BY <1>2, <1>4, TallyGrows
<1>6. Tally(log, job.topic, k) \in Nat /\ Tally(log, job.topic, job.version) \in Nat
  BY <1>2, SpotsType
<1> QED
  BY <1>1, <1>5, <1>6 DEF Known

LEMMA StoreKeepsKnown ==
  ASSUME Shapes, Sound, Store, NEW k \in 1 .. Len(log), Claimed(k), Known(k)
  PROVE  Known(k)'
<1>1. CASE log[k] = job.topic
  BY <1>1, StoreKnows
<1>2. CASE log[k] # job.topic
  <2>1. /\ log' = log /\ \A t \in Topics \ {job.topic} : rec'[t] = rec[t]
        /\ excused' = excused \ {job.topic}
    BY StoreIs
  <2>2. log[k] \in Topics
    BY LogType DEF Shapes
  <2> QED
    BY <1>2, <2>1, <2>2 DEF Known
<1> QED
  BY <1>1, <1>2

LEMMA SitePostKeepsKnown ==
  ASSUME Shapes, NEW x \in Topics, SitePost(x), NEW k \in 1 .. Len(log), Known(k)
  PROVE  Known(k)'
<1>1. log'[k] = log[k] /\ rec' = rec /\ excused \subseteq excused'
  BY SitePostIs
<1>2. Tally(log', log[k], k) = Tally(log, log[k], k)
  BY PostGrows
<1> QED
  BY <1>1, <1>2 DEF Known

\* What the steps of a forum's crawler leave alone
LEMMA DiscourseTouches ==
  ASSUME Shapes, kind = "discourse", DiscourseNext
  PROVE  /\ log' = log /\ kind' = kind
         /\ Store \/ (excused \subseteq excused' /\ \A t \in Topics : rec'[t].count = rec[t].count)
         /\ promised' = promised \/ EndBackfill \/ EndUpdate
         /\ mark' = mark \/ EndUpdate
         /\ \/ base' = base /\ cursor' = cursor
            \/ BeginBackfill \/ ListPageOf \/ ListNull \/ PageDone \/ StopBackfill
            \/ EndBackfill
         /\ validator' = validator \/ Get \/ GetNull
<1>1. CASE Crawl
  <2>1. CASE \E e \in job.todo : Pick(e)
    BY <2>1, PickIs
  <2>2. CASE Unchanged
    BY <2>2, UnchangedIs
  <2>3. CASE Get
    BY <2>3, GetIs
  <2>4. CASE GetFails
    BY <2>4, GetFailsIs
  <2>5. CASE Store
    BY <2>5, StoreIs
  <2>6. CASE Chunks
    <3>1. job.topic \in Topics /\ rec \in [Topics -> Recs]
      BY <2>6, ChunksIs DEF Shapes, JobShape, RowShape
    <3>2. \A t \in Topics : rec'[t].count = rec[t].count
      <4>1. PICK have \in Nat : rec' = [rec EXCEPT ![job.topic].have = have]
        BY <2>6, ChunksIs
      <4> QED
        BY <3>1, <4>1 DEF Recs
    <3> QED
      BY <2>6, <3>2, ChunksIs
  <2>7. CASE ChunkFails
    BY <2>7, ChunkFailsIs
  <2>8. CASE GetNull
    BY <2>8, GetNullIs
  <2> QED
    BY <1>1, <2>1, <2>2, <2>3, <2>4, <2>5, <2>6, <2>7, <2>8 DEF Crawl
<1>2. CASE BeginBackfill
  BY <1>2, BeginBackfillIs
<1>3. CASE ListPageOf
  BY <1>3, ListPageOfIs
<1>4. CASE PageDone
  BY <1>4, PageDoneIs
<1>5. CASE StopBackfill
  BY <1>5, StopBackfillIs
<1>6. CASE EndBackfill
  BY <1>6, EndBackfillIs
<1>7. CASE BeginUpdate
  BY <1>7, BeginUpdateIs
<1>8. CASE NewPosts
  BY <1>8, NewPostsIs
<1>9. CASE Latest
  BY <1>9, LatestIs
<1>10. CASE EndUpdate
  BY <1>10, EndUpdateIs
<1>11. CASE BeginRepair
  BY <1>11, BeginRepairIs
<1>12. CASE EndRepair
  BY <1>12, EndRepairIs
<1>13. CASE StopRepair
  BY <1>13, StopRepairIs
<1>14. CASE ListNull
  BY <1>14, ListNullIs
<1>15. CASE UpdateNull
  BY <1>15, UpdateNullIs
<1> QED
  BY <1>1, <1>2, <1>3, <1>4, <1>5, <1>6, <1>7, <1>8, <1>9, <1>10, <1>11, <1>12, <1>13,
     <1>14, <1>15 DEF DiscourseNext, Crawl

LEMMA KnownStays ==
  ASSUME Shapes, Sound, kind = "discourse", DiscourseNext,
         NEW k \in 1 .. Len(log), Claimed(k), Known(k)
  PROVE  Known(k)'
<1>1. log[k] \in Topics
  BY LogType DEF Shapes
<1>2. CASE Store
  BY <1>2, StoreKeepsKnown
<1>3. CASE ~Store
  <2>1. /\ log' = log /\ excused \subseteq excused'
        /\ rec'[log[k]].count = rec[log[k]].count
    BY <1>1, <1>3, DiscourseTouches
  <2> QED
    BY <2>1, KnownFrame
<1> QED
  BY <1>2, <1>3

\* Where a job is tells its mode, and a walk ends when all categories are done.
PlaceSound ==
    /\ job.pc = "finish" => job.mode = "backfill"
    /\ job.mode = "backfill" /\ job.pc = "finish" => Categories \subseteq cursor.done
    /\ job.pc \in {"posts", "latest"} => job.mode = "update"
    /\ job.pc = "posts" => job.newest = 0

\* What the backfill has still to come to: a category that is not done, no page
\* before the given one
ToCome(s, t, D, c, p) ==
    CategoryOf[t] \notin D /\ (CategoryOf[t] = c => From(p) <= RankIn(s, t))

\* A resumption loses nothing,
CursorKept == \A k \in 1 .. base :
    Known(k) \/ ToCome(log, log[k], cursor.done, cursor.category, cursor.page)

\* and neither does a page under way.
WalkKept == job.mode = "backfill" =>
    /\ \A e \in job.todo : \A k \in 1 .. base : log[k] = e[1] => k <= e[2]
    /\ \A k \in 1 .. base :
         Known(k) \/ /\ ToCome(log, log[k], cursor.done, job.category, job.page)
                     /\ CategoryOf[log[k]] = job.category =>
                          \/ job.pc = "list" \/ log[k] \in Awaited
                          \/ From(job.page + 1) <= RankIn(log, log[k])

PromiseKept == \A k \in 1 .. promised : Known(k)

PassKept ==
    /\ mark <= promised
    /\ job.mode = "update" /\ job.pc # "posts" /\ ~job.failed =>
         \A k \in 1 .. job.newest : Known(k) \/ log[k] \in Awaited

\* A validator stands for rows that are stored, or about to be.
ValidatorKept == \A t \in Topics :
    \/ Tally(log, t, validator[t]) <= rec[t].count
    \/ t \in excused
    \/ job.pc = "store" /\ job.topic = t /\ validator[t] = job.version

RepairKept == job.mode = "repair" /\ ~job.failed =>
    \A t \in Topics : Incomplete(t) =>
        \/ t \in Awaited
        \/ job.pc = "tail" /\ job.topic = t
        \/ rec[t].count <= Tally(log, t, validator[t])
        \/ t \in job.spared

ForumInv == kind = "discourse" =>
    /\ PlaceSound /\ CursorKept /\ WalkKept /\ PromiseKept /\ PassKept
    /\ ValidatorKept /\ RepairKept

LEMMA ClaimedType ==
  ASSUME Shapes, NEW k \in Nat, k > 0, Claimed(k)
  PROVE  /\ k \in 1 .. Len(log) /\ log[k] \in Topics /\ CategoryOf[log[k]] \in Categories
         /\ CategoryOf[log[k]] \in Nat /\ CategoryOf[log[k]] # 0
<1>1. /\ base \in Nat /\ promised \in Nat /\ job.newest \in Nat /\ Len(log) \in Nat
      /\ base <= Len(log) /\ promised <= Len(log) /\ job.newest <= Len(log)
  BY LogType DEF Shapes, JobShape, Jobs, RowShape
<1>2. k \in 1 .. Len(log)
  BY <1>1 DEF Claimed
<1>3. log[k] \in Topics
  BY <1>2, LogType DEF Shapes
<1> QED
  BY <1>2, <1>3, ForumBounds

LEMMA InitForum == Init => ForumInv
<1> SUFFICES ASSUME Init PROVE ForumInv
  OBVIOUS
<1>1. /\ job.mode = "idle" /\ job.pc = "idle" /\ base = 0 /\ promised = 0 /\ mark = 0
      /\ \A t \in Topics : validator[t] = 0 /\ rec[t].count = 0
  BY IdleType DEF Init, NoTopic
<1>2. \A t : Tally(log, t, 0) = 0
  <2>1. \A t : Spots(log, t, 0) = {}
    BY DEF Spots
  <2> QED
    BY <2>1, FS_EmptySet DEF Tally
<1>3. PlaceSound /\ CursorKept /\ WalkKept /\ PromiseKept /\ PassKept /\ RepairKept
  BY <1>1 DEF PlaceSound, CursorKept, WalkKept, PromiseKept, PassKept, RepairKept
<1>4. ValidatorKept
  BY <1>1, <1>2 DEF ValidatorKept
<1> QED
  BY <1>3, <1>4 DEF ForumInv

\* A crawl moves neither the walk nor the pass; what is taken off the list is
\* known, unless the pass has failed.
LEMMA CrawlMoves ==
  ASSUME Shapes, kind = "discourse", Crawl
  PROVE  /\ job.pc \in {"pick", "get", "store", "tail"}
         /\ job'.pc \in {"pick", "get", "store", "tail"}
         /\ job'.mode = job.mode /\ job'.category = job.category /\ job'.page = job.page
         /\ job'.newest = job.newest /\ job'.todo \subseteq job.todo
         /\ ~job'.failed => ~job.failed
         /\ UNCHANGED <<log, base, promised, cursor, mark>>
<1>1. CASE \E e \in job.todo : Pick(e)
  BY <1>1, PickIs DEF Sets, Fields
<1>2. CASE Unchanged
  BY <1>2, UnchangedIs DEF Sets, Fields
<1>3. CASE Get
  BY <1>3, GetIs DEF Sets, Fields
<1>4. CASE GetFails
  BY <1>4, GetFailsIs DEF Sets, Fields
<1>5. CASE Store
  BY <1>5, StoreIs DEF Sets, Fields
<1>6. CASE Chunks
  BY <1>6, ChunksIs DEF Sets, Fields
<1>7. CASE ChunkFails
  BY <1>7, ChunkFailsIs DEF Sets, Fields
<1>8. CASE GetNull
  BY <1>8, GetNullIs DEF Sets, Fields
<1> QED
  BY <1>1, <1>2, <1>3, <1>4, <1>5, <1>6, <1>7, <1>8 DEF Crawl

\* 304: the rows are those of the page that is still there.
LEMMA NotModifiedKnown ==
  ASSUME Shapes, Sound, ValidatorKept, Unchanged, NEW k \in 1 .. Len(log), log[k] = job.topic
  PROVE  Known(k)
<1>1. job.pc = "get" /\ job.topic \in Topics /\ validator[job.topic] = Top(log, job.topic)
  BY UnchangedIs, BumpIs DEF Shapes, JobShape
<1>2. CASE job.topic \in excused
  BY <1>2 DEF Known
<1>3. CASE Tally(log, job.topic, validator[job.topic]) <= rec[job.topic].count
  <2>1. /\ Len(log) \in Nat /\ Top(log, job.topic) \in Nat /\ rec[job.topic].count \in Nat
        /\ \A i \in 1 .. Len(log) : log[i] = job.topic => i <= Top(log, job.topic)
    BY <1>1, LogType, TopIs DEF Shapes, RowShape, Recs
  <2>2. Tally(log, job.topic, k) <= Tally(log, job.topic, Top(log, job.topic))
    BY <2>1, TallyGrows
  <2>3. Tally(log, job.topic, k) \in Nat /\ Tally(log, job.topic, Top(log, job.topic)) \in Nat
    BY <2>1, SpotsType
  <2> QED
    BY <1>1, <1>3, <2>1, <2>2, <2>3 DEF Known
<1> QED
  BY <1>1, <1>2, <1>3 DEF ValidatorKept

\* The backfill's skip check: a topic that was not bumped since is stored whole.
LEMMA SettledKnown ==
  ASSUME Shapes, Sound, NEW e \in job.todo, Settled(e), NEW k \in 1 .. Len(log),
         log[k] = e[1], k <= e[2]
  PROVE  Known(k)
<1>1. /\ e[1] \in Topics /\ e[2] \in Nat /\ rec[e[1]].bumped \in Nat /\ rec[e[1]].count \in Nat
  BY DEF Shapes, JobShape, Jobs, RowShape, Recs
<1>2. k <= rec[e[1]].bumped
  BY <1>1 DEF Settled
<1>3. \A i \in 1 .. k : log[i] = e[1] => i <= rec[e[1]].bumped
  BY <1>1, <1>2
<1>4. Tally(log, e[1], k) <= Tally(log, e[1], rec[e[1]].bumped)
  BY <1>1, <1>3, TallyGrows
<1>5. Tally(log, e[1], k) \in Nat /\ Tally(log, e[1], rec[e[1]].bumped) \in Nat
  BY <1>1, SpotsType
<1>6. Tally(log, e[1], rec[e[1]].bumped) <= rec[e[1]].count
  BY <1>1 DEF Sound, RecSound
<1> QED
  BY <1>1, <1>4, <1>5, <1>6 DEF Known

LEMMA CrawlKnows ==
  ASSUME Shapes, Sound, ForumInv, kind = "discourse", Crawl, NEW k \in 1 .. Len(log),
         log[k] \in Awaited,
         \/ job.mode = "backfill" /\ k <= base
         \/ job.mode = "update" /\ k <= job.newest /\ ~job'.failed
  PROVE  Known(k)' \/ log[k] \in Awaited'
<1> DEFINE t == log[k]
<1>1. /\ Claimed(k) /\ t \in Topics
      /\ PlaceSound /\ WalkKept /\ ValidatorKept
  BY LogType DEF Claimed, Shapes, ForumInv
<1>2. CASE \E e \in job.todo : Pick(e)
  <2>1. PICK e \in job.todo : Pick(e)
    BY <1>2
  <2>2. /\ job.pc = "pick" /\ job'.todo = job.todo \ {e} /\ UNCHANGED <<log, rec, excused>>
        /\ \/ job.mode = "backfill" /\ Settled(e)
           \/ job'.pc = "get" /\ job'.topic = e[1]
    BY <2>1, PickIs
  <2>3. CASE e[1] = t
    <3>1. CASE job.mode = "backfill" /\ Settled(e)
      <4>1. k <= e[2]
        BY <1>1, <2>3, <3>1 DEF WalkKept
      <4>2. Known(k)
        BY <2>3, <3>1, <4>1, SettledKnown
      <4> QED
        BY <2>2, <4>2, KnownFrame
    <3>2. CASE job'.pc = "get" /\ job'.topic = e[1]
      BY <1>1, <2>2, <2>3, <3>2 DEF Awaited
    <3> QED
      BY <2>2, <3>1, <3>2
  <2>4. CASE e[1] # t
    BY <1>1, <2>2, <2>4 DEF Awaited
  <2> QED
    BY <2>3, <2>4
<1>3. CASE Unchanged
  <2>1. /\ job'.todo = job.todo /\ UNCHANGED <<log, rec, excused>>
    BY <1>3, UnchangedIs DEF Sets, Fields
  <2>2. CASE job.topic = t
    BY <1>1, <1>3, <2>1, <2>2, NotModifiedKnown, KnownFrame
  <2>3. CASE job.topic # t
    BY <1>1, <2>1, <2>3 DEF Awaited
  <2> QED
    BY <2>2, <2>3
<1>4. CASE Get
  <2>1. job'.todo = job.todo /\ job'.pc = "store" /\ job'.topic = job.topic /\ log' = log
    BY <1>4, GetIs DEF Sets, Fields
  <2> QED
    BY <1>1, <2>1 DEF Awaited
<1>5. CASE GetFails
  <2>1. /\ job'.todo = job.todo /\ job.pc = "get" /\ job'.failed = TRUE
        /\ UNCHANGED <<log, rec>>
        /\ excused' = IF job.mode = "backfill" THEN excused \cup {job.topic} ELSE excused
    BY <1>5, GetFailsIs DEF Sets, Fields
  <2>2. CASE job.topic = t /\ job.mode = "backfill"
    BY <2>1, <2>2 DEF Known
  <2>3. CASE job.topic # t
    BY <1>1, <2>1, <2>3 DEF Awaited
  <2> QED
    BY <2>1, <2>2, <2>3
<1>6. CASE Store
  <2>1. job'.todo = job.todo /\ log' = log
    BY <1>6, StoreIs DEF Sets, Fields
  <2>2. CASE job.topic = t
    BY <1>1, <1>6, <2>2, StoreKnows
  <2>3. CASE job.topic # t
    BY <1>1, <2>1, <2>3 DEF Awaited
  <2> QED
    BY <2>2, <2>3
<1>7. CASE Chunks
  <2>1. job'.todo = job.todo /\ job.pc = "tail" /\ log' = log
    BY <1>7, ChunksIs DEF Sets, Fields
  <2> QED
    BY <1>1, <2>1 DEF Awaited
<1>8. CASE ChunkFails
  <2>1. job'.todo = job.todo /\ job.pc = "tail" /\ log' = log
    BY <1>8, ChunkFailsIs DEF Sets, Fields
  <2> QED
    BY <1>1, <2>1 DEF Awaited
<1>9. CASE GetNull
  <2>1. /\ job'.todo = job.todo /\ job.pc = "get" /\ log' = log
        /\ job.mode # "repair" => excused' = excused \cup {job.topic}
    BY <1>9, GetNullIs DEF Sets, Fields
  <2>2. CASE job.topic = t
    BY <2>1, <2>2 DEF Known
  <2>3. CASE job.topic # t
    BY <1>1, <2>1, <2>3 DEF Awaited
  <2> QED
    BY <2>2, <2>3
<1> QED
  BY <1>2, <1>3, <1>4, <1>5, <1>6, <1>7, <1>8, <1>9 DEF Crawl

LEMMA PlaceStays ==
  ASSUME Shapes, kind = "discourse", DiscourseNext, PlaceSound
  PROVE  PlaceSound'
<1>0. cursor \in Cursors /\ cursor.done \in SUBSET Categories
  BY DEF Shapes, CursorShape, Cursors
<1>1. CASE Crawl
  BY <1>1, CrawlMoves DEF PlaceSound
<1>2. CASE BeginBackfill
  <2>1. job' = Enter(cursor.done) /\ cursor' = cursor
    BY <1>2, BeginBackfillIs
  <2> QED
    BY <1>0, <2>1, EnterIs DEF PlaceSound
<1>3. CASE ListPageOf
  <2>1. CASE job' = Enter(cursor.done \cup {job.category})
             /\ cursor' = [NoCursor EXCEPT !.done = cursor.done \cup {job.category}]
    <3> DEFINE D == cursor.done \cup {job.category}
    <3>1. D \in SUBSET Categories /\ job' = Enter(D) /\ cursor' = [NoCursor EXCEPT !.done = D]
      BY <1>0, <1>3, <2>1, ListPageOfIs
    <3> HIDE DEF D
    <3>2. cursor'.done = D
      BY <1>0, <3>1, CursorsAre
    <3>3. /\ job'.mode = "backfill" /\ job'.pc \in {"finish", "list"}
          /\ job'.pc = "finish" => Categories = D
      BY <1>0, <3>1, EnterIs
    <3> QED
      BY <3>2, <3>3 DEF PlaceSound
  <2>2. CASE job'.pc = "pick"
    BY <2>2 DEF PlaceSound
  <2> QED
    BY <1>3, <2>1, <2>2, ListPageOfIs
<1>4. CASE PageDone
  BY <1>4, PageDoneIs DEF PlaceSound
<1>5. CASE StopBackfill
  BY <1>5, StopBackfillIs, IdleType DEF PlaceSound, Starts, Fields
<1>6. CASE EndBackfill
  BY <1>6, EndBackfillIs, IdleType DEF PlaceSound, Starts, Fields
<1>7. CASE BeginUpdate
  BY <1>7, BeginUpdateIs, IdleType DEF PlaceSound, Starts, Fields
<1>8. CASE NewPosts
  BY <1>8, NewPostsIs DEF PlaceSound, Sets, Fields
<1>9. CASE Latest
  BY <1>9, LatestIs DEF PlaceSound
<1>10. CASE EndUpdate
  BY <1>10, EndUpdateIs, IdleType DEF PlaceSound, Starts, Fields
<1>11. CASE BeginRepair
  BY <1>11, BeginRepairIs DEF PlaceSound
<1>12. CASE EndRepair
  BY <1>12, EndRepairIs, IdleType DEF PlaceSound, Starts, Fields
<1>13. CASE StopRepair
  BY <1>13, StopRepairIs, IdleType DEF PlaceSound, Starts, Fields
<1>14. CASE ListNull
  <2> DEFINE D == cursor.done \cup {job.category}
  <2>1. D \in SUBSET Categories /\ job' = Enter(D) /\ cursor' = [NoCursor EXCEPT !.done = D]
    BY <1>0, <1>14, ListNullIs
  <2> HIDE DEF D
  <2>2. cursor'.done = D
    BY <1>0, <2>1, CursorsAre
  <2>3. /\ job'.mode = "backfill" /\ job'.pc \in {"finish", "list"}
        /\ job'.pc = "finish" => Categories = D
    BY <1>0, <2>1, EnterIs
  <2> QED
    BY <2>2, <2>3 DEF PlaceSound
<1>15. CASE UpdateNull
  <2>1. job'.mode = job.mode /\ job'.pc \in {"latest", "pick"} /\ job.pc \in {"posts", "latest"}
    BY <1>15, UpdateNullIs DEF Sets, Fields
  <2> QED
    BY <2>1 DEF PlaceSound
<1> QED
  BY <1>1, <1>2, <1>3, <1>4, <1>5, <1>6, <1>7, <1>8, <1>9, <1>10, <1>11, <1>12, <1>13,
     <1>14, <1>15 DEF DiscourseNext, Crawl

\* Behind the category that was listed to its end there is nothing to come.
LEMMA CategoryEnds ==
  ASSUME Shapes, kind = "discourse", WalkKept, job.mode = "backfill", job.pc = "list",
         Listing(job.category, job.page) = {}, NEW k \in 1 .. base, ~Known(k)
  PROVE  CategoryOf[log[k]] \notin cursor.done \cup {job.category}
<1> DEFINE t == log[k]
<1>1. /\ k \in 1 .. Len(log) /\ t \in Topics /\ Len(log) \in Nat /\ job.page \in Nat
  <2>1. base \in Nat /\ base <= Len(log) /\ Len(log) \in Nat
    BY LogType DEF Shapes, RowShape
  <2>2. k \in 1 .. Len(log)
    BY <2>1
  <2> QED
    BY <2>1, <2>2, LogType DEF Shapes, JobShape, Jobs
<1>2. Top(log, t) # 0
  <2>1. k <= Top(log, t) /\ Top(log, t) \in Nat
    BY <1>1, TopIs
  <2> QED
    BY <1>1, <2>1
<1>3. CASE CategoryOf[t] = job.category
  <2>1. RankIn(log, t) < From(job.page)
    BY <1>1, <1>2, <1>3, EmptyPage
  <2>2. From(job.page) <= RankIn(log, t)
    BY <1>3 DEF WalkKept, ToCome
  <2>3. From(job.page) \in Nat /\ RankIn(log, t) \in Nat
    BY <1>1, FromType, RankType
  <2> QED
    BY <2>1, <2>2, <2>3
<1>4. CASE CategoryOf[t] # job.category
  BY <1>4 DEF WalkKept, ToCome
<1> QED
  BY <1>3, <1>4

\* Nor behind the category whose listing answered null, but for what is given up.
LEMMA NullEnds ==
  ASSUME Shapes, Sound, kind = "discourse", WalkKept, ListNull, NEW k \in 1 .. base
  PROVE  Known(k)' \/ CategoryOf[log[k]] \notin cursor.done \cup {job.category}
<1> DEFINE t == log[k]
<1>1. /\ job.pc = "list" /\ job.mode = "backfill" /\ log' = log /\ rec' = rec
      /\ excused' = excused \cup Unlisted(job.category, job.page)
  BY ListNullIs
<1>2. /\ k \in 1 .. Len(log) /\ t \in Topics /\ job.page \in Nat
  <2>1. base \in Nat /\ base <= Len(log) /\ Len(log) \in Nat
    BY LogType DEF Shapes, RowShape
  <2>2. k \in 1 .. Len(log)
    BY <2>1
  <2> QED
    BY <2>2, LogType DEF Shapes, JobShape, Jobs
<1>3. CASE Known(k)
  BY <1>1, <1>3 DEF Known
<1>4. CASE ~Known(k) /\ CategoryOf[t] = job.category
  <2>1. From(job.page) <= RankIn(log, t)
    BY <1>1, <1>4 DEF WalkKept, ToCome
  <2>2. From(job.page) \in Nat /\ RankIn(log, t) \in Nat /\ Rank(t) = RankIn(log, t)
    BY <1>2, FromType, RankType, RankIs
  <2>3. Rank(t) >= job.page * ListPage
    BY <2>1, <2>2 DEF From
  <2>4. t \in Unlisted(job.category, job.page)
    BY <1>2, <1>4, <2>3 DEF Unlisted
  <2> QED
    BY <1>1, <2>4 DEF Known
<1>5. CASE ~Known(k) /\ CategoryOf[t] # job.category
  BY <1>1, <1>5 DEF WalkKept, ToCome
<1> QED
  BY <1>3, <1>4, <1>5

LEMMA CursorStays ==
  ASSUME Shapes, Sound, kind = "discourse", DiscourseNext, CursorKept, WalkKept
  PROVE  CursorKept'
<1>0. /\ cursor \in Cursors /\ cursor.done \in SUBSET Categories /\ log' = log
      /\ base \in Nat /\ base <= Len(log) /\ Len(log) \in Nat
      /\ job.page \in Nat /\ job.category \in Nat
  BY LogType, DiscourseTouches DEF Shapes, RowShape, CursorShape, Cursors, JobShape, Jobs
<1>1. \A k \in 1 .. base : Known(k) => Known(k)'
  <2> SUFFICES ASSUME NEW k \in 1 .. base, Known(k) PROVE Known(k)'
    OBVIOUS
  <2>1. k \in 1 .. Len(log) /\ Claimed(k)
    BY <1>0 DEF Claimed
  <2> QED
    BY <2>1, KnownStays
<1>2. CASE base' = base /\ cursor' = cursor
  BY <1>0, <1>1, <1>2 DEF CursorKept
<1>3. CASE BeginBackfill
  <2>1. cursor' = cursor /\ Rebase
    BY <1>3, BeginBackfillIs
  <2>2. CASE base' = base
    BY <1>0, <1>1, <2>1, <2>2 DEF CursorKept
  <2>3. CASE cursor.category = 0 /\ cursor.done = {} /\ base' = Len(log)
    <3>1. \A k \in 1 .. Len(log) : CategoryOf[log[k]] # 0
      BY LogType, ForumBounds DEF Shapes
    <3> QED
      BY <1>0, <2>1, <2>3, <3>1 DEF CursorKept, ToCome
  <2> QED
    BY <2>1, <2>2, <2>3 DEF Rebase
<1>4. CASE ListPageOf
  <2>1. CASE cursor' = cursor
    BY <1>0, <1>1, <1>4, <2>1, ListPageOfIs DEF CursorKept
  <2>2. CASE /\ Listing(job.category, job.page) = {}
             /\ cursor' = [NoCursor EXCEPT !.done = cursor.done \cup {job.category}]
    <3> DEFINE D == cursor.done \cup {job.category}
    <3>1. /\ job.pc = "list" /\ job.mode = "backfill" /\ D \in SUBSET Categories
          /\ cursor' = [NoCursor EXCEPT !.done = D] /\ base' = base
      BY <1>0, <1>4, <2>2, ListPageOfIs
    <3>2. \A k \in 1 .. base : Known(k) \/ CategoryOf[log[k]] \notin D
      BY <2>2, <3>1, CategoryEnds
    <3> HIDE DEF D
    <3>3. cursor'.done = D /\ cursor'.category = 0
      BY <1>0, <3>1, CursorsAre
    <3>4. \A k \in 1 .. base : CategoryOf[log[k]] # 0
      <4>1. \A k \in 1 .. base : k \in 1 .. Len(log)
        BY <1>0
      <4> QED
        BY <4>1, LogType, ForumBounds DEF Shapes
    <3> QED
      BY <1>0, <1>1, <3>1, <3>2, <3>3, <3>4 DEF CursorKept, ToCome
  <2> QED
    BY <1>4, <2>1, <2>2, ListPageOfIs
<1>5. CASE PageDone
  <2>1. /\ job.mode = "backfill" /\ job.pc = "pick" /\ job.todo = {} /\ base' = base
        /\ cursor' = CursorAt(job.category, job.page + 1)
    BY <1>5, PageDoneIs
  <2>2. /\ cursor'.done = cursor.done /\ cursor'.category = job.category
        /\ cursor'.page = job.page + 1
    BY <1>0, <2>1, CursorsAre
  <2>3. Awaited = {}
    BY <2>1 DEF Awaited
  <2>4. \A k \in 1 .. base :
          Known(k) \/ ToCome(log, log[k], cursor.done, job.category, job.page + 1)
    BY <2>1, <2>3 DEF WalkKept, ToCome
  <2> QED
    BY <1>0, <1>1, <2>1, <2>2, <2>4 DEF CursorKept
<1>6. CASE StopBackfill
  <2>1. /\ job.mode = "backfill" /\ base' = base
        /\ cursor' = CursorAt(job.category, job.page)
    BY <1>6, StopBackfillIs
  <2>2. /\ cursor'.done = cursor.done /\ cursor'.category = job.category
        /\ cursor'.page = job.page
    BY <1>0, <2>1, CursorsAre
  <2> QED
    BY <1>0, <1>1, <2>1, <2>2 DEF CursorKept, WalkKept
<1>7. CASE EndBackfill
  <2>1. base' = 0
    BY <1>7, EndBackfillIs
  <2> QED
    BY <2>1 DEF CursorKept
<1>8. CASE ListNull
  <2> DEFINE D == cursor.done \cup {job.category}
  <2>1. D \in SUBSET Categories /\ cursor' = [NoCursor EXCEPT !.done = D] /\ base' = base
    BY <1>0, <1>8, ListNullIs
  <2>2. \A k \in 1 .. base : Known(k)' \/ CategoryOf[log[k]] \notin D
    BY <1>8, NullEnds
  <2> HIDE DEF D
  <2>3. cursor'.done = D /\ cursor'.category = 0
    BY <1>0, <2>1, CursorsAre
  <2>4. \A k \in 1 .. base : CategoryOf[log[k]] # 0
    <3>1. \A k \in 1 .. base : k \in 1 .. Len(log)
      BY <1>0
    <3> QED
      BY <3>1, LogType, ForumBounds DEF Shapes
  <2> QED
    BY <1>0, <2>1, <2>2, <2>3, <2>4 DEF CursorKept, ToCome
<1> QED
  BY <1>2, <1>3, <1>4, <1>5, <1>6, <1>7, <1>8, DiscourseTouches

\* A walk that enters a category begins where the cursor left it.
LEMMA EnterKept ==
  ASSUME Shapes, NEW D \in SUBSET Categories, job' = Enter(D), log' = log, cursor'.done = D,
         base' \in Nat, base' <= Len(log),
         \A k \in 1 .. base' :
            \/ Known(k)'
            \/ /\ CategoryOf[log[k]] \notin D
               /\ CategoryOf[log[k]] = cursor.category => From(cursor.page) <= RankIn(log, log[k])
  PROVE  WalkKept'
<1>0. cursor \in Cursors
  BY DEF Shapes, CursorShape
<1>1. /\ job'.mode = "backfill" /\ job'.todo = {}
      /\ \/ /\ job'.pc = "finish" /\ Categories = D
         \/ /\ job'.pc = "list"
            /\ job'.page = IF job'.category = cursor.category THEN cursor.page ELSE 0
  BY <1>0, EnterIs, IdleType DEF Fields
<1>2. \A k : From(0) <= RankIn(log, log[k])
  <2>1. From(0) = 0
    BY FromType
  <2>2. \A k : RankIn(log, log[k]) \in Nat
    BY RankType
  <2> QED
    BY <2>1, <2>2
<1>3. ASSUME NEW k \in 1 .. base', ~Known(k)'
      PROVE  job'.pc = "list" /\ ToCome(log, log[k], D, job'.category, job'.page)
  <2>1. /\ CategoryOf[log[k]] \notin D /\ CategoryOf[log[k]] \in Categories
        /\ CategoryOf[log[k]] = cursor.category => From(cursor.page) <= RankIn(log, log[k])
    <3>1. k \in 1 .. Len(log) /\ Len(log) \in Nat
      BY LogType DEF Shapes
    <3> QED
      BY <1>3, <3>1, LogType, ForumBounds DEF Shapes
  <2>2. /\ job'.pc = "list"
        /\ job'.page = IF job'.category = cursor.category THEN cursor.page ELSE 0
    BY <1>1, <2>1
  <2> QED
    BY <1>2, <2>1, <2>2 DEF ToCome
<1> QED
  BY <1>1, <1>3 DEF WalkKept

LEMMA WalkStays ==
  ASSUME Shapes, Sound, kind = "discourse", DiscourseNext, ForumInv
  PROVE  WalkKept'
<1>0. /\ cursor \in Cursors /\ cursor.done \in SUBSET Categories /\ log' = log
      /\ base \in Nat /\ base <= Len(log) /\ Len(log) \in Nat
      /\ job.page \in Nat /\ job.category \in Nat
      /\ PlaceSound /\ CursorKept /\ WalkKept /\ CursorKept'
  BY LogType, DiscourseTouches, CursorStays
  DEF Shapes, RowShape, CursorShape, Cursors, JobShape, Jobs, ForumInv
<1>1. \A k \in 1 .. base : Known(k) => Known(k)'
  <2> SUFFICES ASSUME NEW k \in 1 .. base, Known(k) PROVE Known(k)'
    OBVIOUS
  <2>1. k \in 1 .. Len(log) /\ Claimed(k)
    BY <1>0 DEF Claimed
  <2> QED
    BY <2>1, KnownStays
<1>2. CASE Crawl
  <2> SUFFICES ASSUME job.mode = "backfill" PROVE WalkKept'
    BY <1>2, CrawlMoves DEF WalkKept
  <2>1. /\ job'.mode = job.mode /\ job'.category = job.category /\ job'.page = job.page
        /\ job'.todo \subseteq job.todo /\ base' = base /\ cursor' = cursor
        /\ job.pc # "list"
    BY <1>2, CrawlMoves
  <2>2. \A k \in 1 .. base : log[k] \in Awaited => Known(k)' \/ log[k] \in Awaited'
    <3> SUFFICES ASSUME NEW k \in 1 .. base, log[k] \in Awaited
                 PROVE  Known(k)' \/ log[k] \in Awaited'
      OBVIOUS
    <3>1. k \in 1 .. Len(log) /\ k <= base
      BY <1>0
    <3> QED
      BY <1>2, <3>1, CrawlKnows
  <2>3. \A e \in job'.todo : \A k \in 1 .. base : log[k] = e[1] => k <= e[2]
    BY <1>0, <2>1 DEF WalkKept
  <2>4. ASSUME NEW k \in 1 .. base
        PROVE  Known(k)' \/ /\ ToCome(log, log[k], cursor.done, job.category, job.page)
                            /\ CategoryOf[log[k]] = job.category =>
                                 \/ log[k] \in Awaited'
                                 \/ From(job.page + 1) <= RankIn(log, log[k])
    <3>1. CASE Known(k)
      BY <1>1, <3>1
    <3>2. CASE log[k] \in Awaited
      BY <1>0, <1>1, <2>2, <3>2 DEF WalkKept
    <3>3. CASE ~Known(k) /\ log[k] \notin Awaited
      BY <1>0, <2>1, <3>3 DEF WalkKept
    <3> QED
      BY <3>1, <3>2, <3>3
  <2> QED
    BY <1>0, <2>1, <2>3, <2>4 DEF WalkKept
<1>3. CASE BeginBackfill
  <2>1. cursor' = cursor /\ Rebase /\ job' = Enter(cursor.done)
    BY <1>3, BeginBackfillIs
  <2>2. base' \in Nat /\ base' <= Len(log)
    BY <1>0, <2>1 DEF Rebase
  <2>3. \A k \in 1 .. base' :
            \/ Known(k)'
            \/ /\ CategoryOf[log[k]] \notin cursor.done
               /\ CategoryOf[log[k]] = cursor.category => From(cursor.page) <= RankIn(log, log[k])
    BY <1>0, <2>1 DEF CursorKept, ToCome
  <2> QED
    BY <1>0, <2>1, <2>2, <2>3, EnterKept
<1>4. CASE ListPageOf
  <2>0. job.pc = "list" /\ job.mode = "backfill" /\ base' = base
    BY <1>4, ListPageOfIs
  <2>1. CASE /\ Sets({"pc", "todo"}) /\ job'.pc = "pick" /\ cursor' = cursor
             /\ job'.todo = {<<t, Bump(t)>> : t \in Listing(job.category, job.page)}
    <3>1. /\ job'.mode = "backfill" /\ job'.category = job.category /\ job'.page = job.page
      BY <2>0, <2>1 DEF Sets, Fields
    <3>2. \A k \in 1 .. base : k \in 1 .. Len(log) /\ log[k] \in Topics /\ k <= Top(log, log[k])
                               /\ Top(log, log[k]) \in Nat
      <4> SUFFICES ASSUME NEW k \in 1 .. base
                   PROVE  k \in 1 .. Len(log) /\ log[k] \in Topics /\ k <= Top(log, log[k])
                          /\ Top(log, log[k]) \in Nat
        OBVIOUS
      <4>1. k \in 1 .. Len(log)
        BY <1>0
      <4> QED
        BY <1>0, <4>1, LogType, TopIs DEF Shapes
    <3>3. ASSUME NEW e \in job'.todo, NEW k \in 1 .. base, log[k] = e[1]
          PROVE  k <= e[2]
      <4>1. e[2] = Top(log, e[1])
        BY <2>1, <3>3, BumpIs
      <4> QED
        BY <3>2, <3>3, <4>1
    <3>4. ASSUME NEW k \in 1 .. base, ~Known(k)'
          PROVE  /\ ToCome(log, log[k], cursor.done, job.category, job.page)
                 /\ CategoryOf[log[k]] = job.category =>
                      log[k] \in Awaited' \/ From(job.page + 1) <= RankIn(log, log[k])
      <4>1. ToCome(log, log[k], cursor.done, job.category, job.page)
        BY <1>0, <1>1, <2>0, <3>4 DEF WalkKept
      <4>2. ASSUME CategoryOf[log[k]] = job.category,
                   ~(From(job.page + 1) <= RankIn(log, log[k]))
            PROVE  log[k] \in Awaited'
        <5>1. /\ From(job.page) <= RankIn(log, log[k]) /\ log[k] \in Topics
              /\ Top(log, log[k]) # 0
          BY <3>2, <4>1, <4>2 DEF ToCome
        <5>2. From(job.page + 1) \in Nat /\ RankIn(log, log[k]) \in Nat
          <6>1. job.page + 1 \in Nat
            BY <1>0
          <6> QED
            BY <6>1, FromType, RankType
        <5>3. RankIn(log, log[k]) < From(job.page + 1)
          BY <4>2, <5>2
        <5>4. log[k] \in Listing(job.category, job.page)
          BY <1>0, <4>2, <5>1, <5>3, InListing
        <5>5. <<log[k], Bump(log[k])>> \in job'.todo
          BY <2>1, <5>4
        <5> QED
          BY <5>1, <5>5 DEF Awaited
      <4> QED
        BY <4>1, <4>2
    <3> QED
      BY <1>0, <2>0, <2>1, <3>1, <3>3, <3>4 DEF WalkKept
  <2>2. CASE /\ Listing(job.category, job.page) = {}
             /\ cursor' = [NoCursor EXCEPT !.done = cursor.done \cup {job.category}]
             /\ job' = Enter(cursor.done \cup {job.category})
    <3> DEFINE D == cursor.done \cup {job.category}
    <3>1. /\ D \in SUBSET Categories /\ job' = Enter(D)
          /\ cursor' = [NoCursor EXCEPT !.done = D]
      BY <1>0, <1>4, <2>2, ListPageOfIs
    <3>2. \A k \in 1 .. base : Known(k) \/ CategoryOf[log[k]] \notin D
      BY <1>0, <2>0, <2>2, CategoryEnds
    <3> HIDE DEF D
    <3>3. cursor'.done = D
      BY <1>0, <3>1, CursorsAre
    <3>4. \A k \in 1 .. base' :
            \/ Known(k)'
            \/ /\ CategoryOf[log[k]] \notin D
               /\ CategoryOf[log[k]] = cursor.category => From(cursor.page) <= RankIn(log, log[k])
      BY <1>0, <1>1, <2>0, <3>2 DEF CursorKept, ToCome
    <3> QED
      BY <1>0, <2>0, <3>1, <3>3, <3>4, EnterKept
  <2> QED
    BY <1>4, <2>1, <2>2, ListPageOfIs
<1>5. CASE PageDone
  <2>1. /\ job.mode = "backfill" /\ job.pc = "pick" /\ job.todo = {} /\ base' = base
        /\ cursor' = CursorAt(job.category, job.page + 1)
        /\ job'.mode = "backfill" /\ job'.pc = "list" /\ job'.todo = {}
        /\ job'.category = job.category /\ job'.page = job.page + 1
    BY <1>5, PageDoneIs DEF Sets, Fields
  <2>2. /\ cursor'.done = cursor.done /\ cursor'.category = job.category
        /\ cursor'.page = job.page + 1
    BY <1>0, <2>1, CursorsAre
  <2> QED
    BY <1>0, <2>1, <2>2 DEF CursorKept, WalkKept
<1>6. CASE job'.mode # "backfill"
  BY <1>6 DEF WalkKept
<1>7. CASE StopBackfill \/ EndBackfill \/ EndUpdate \/ EndRepair \/ StopRepair
  <2>1. Starts({})
    BY <1>7, StopBackfillIs, EndBackfillIs, EndUpdateIs, EndRepairIs, StopRepairIs
  <2> QED
    BY <1>6, <2>1, IdleType DEF Starts, Fields
<1>8. CASE BeginUpdate \/ BeginRepair
  BY <1>6, <1>8, BeginUpdateIs, BeginRepairIs
<1>9. CASE NewPosts
  <2>1. job.pc = "posts" /\ job'.mode = job.mode
    BY <1>9, NewPostsIs DEF Sets, Fields
  <2> QED
    BY <1>0, <1>6, <2>1 DEF PlaceSound
<1>10. CASE Latest \/ UpdateNull
  <2>1. job.pc \in {"posts", "latest"} /\ job'.mode = job.mode
    BY <1>10, LatestIs, UpdateNullIs DEF Sets, Fields
  <2> QED
    BY <1>0, <1>6, <2>1 DEF PlaceSound
<1>11. CASE ListNull
  <2> DEFINE D == cursor.done \cup {job.category}
  <2>1. /\ D \in SUBSET Categories /\ job' = Enter(D) /\ base' = base
        /\ cursor' = [NoCursor EXCEPT !.done = D]
    BY <1>0, <1>11, ListNullIs
  <2>2. \A k \in 1 .. base : Known(k)' \/ CategoryOf[log[k]] \notin D
    BY <1>0, <1>11, NullEnds
  <2> HIDE DEF D
  <2>3. cursor'.done = D /\ cursor'.category = 0
    BY <1>0, <2>1, CursorsAre
  <2>4. \A k \in 1 .. base' :
          \/ Known(k)'
          \/ /\ CategoryOf[log[k]] \notin D
             /\ CategoryOf[log[k]] = cursor.category => From(cursor.page) <= RankIn(log, log[k])
    <3> SUFFICES ASSUME NEW k \in 1 .. base, ~Known(k)', CategoryOf[log[k]] = cursor.category
                 PROVE  From(cursor.page) <= RankIn(log, log[k])
      BY <2>1, <2>2
    <3>1. ~Known(k)
      BY <1>1
    <3> QED
      BY <1>0, <3>1 DEF CursorKept, ToCome
  <2> QED
    BY <1>0, <2>1, <2>3, <2>4, EnterKept
<1> QED
  BY <1>2, <1>3, <1>4, <1>5, <1>7, <1>8, <1>9, <1>10, <1>11 DEF DiscourseNext, Crawl

LEMMA PromiseStays ==
  ASSUME Shapes, Sound, kind = "discourse", DiscourseNext, ForumInv
  PROVE  PromiseKept'
<1>0. /\ PlaceSound /\ WalkKept /\ PromiseKept /\ PassKept /\ log' = log
      /\ base \in Nat /\ base <= Len(log) /\ Len(log) \in Nat
      /\ promised \in Nat /\ promised <= Len(log) /\ mark \in Nat
      /\ job.newest \in Nat /\ job.newest <= Len(log)
  BY LogType, DiscourseTouches DEF Shapes, RowShape, JobShape, Jobs, ForumInv
<1>1. ASSUME NEW k \in Nat, k > 0, Claimed(k), Known(k) PROVE Known(k)'
  <2>1. k \in 1 .. Len(log)
    BY <1>1, ClaimedType
  <2> QED
    BY <1>1, <2>1, KnownStays
<1>2. CASE promised' = promised
  BY <1>0, <1>1, <1>2 DEF PromiseKept, Claimed
<1>3. CASE EndBackfill
  <2>1. job.pc = "finish" /\ promised' = Later(promised, base)
    BY <1>3, EndBackfillIs
  <2>2. job.mode = "backfill" /\ Categories \subseteq cursor.done
    BY <1>0, <2>1 DEF PlaceSound
  <2>3. \A k \in 1 .. base : Known(k)
    <3> SUFFICES ASSUME NEW k \in 1 .. base PROVE Known(k)
      OBVIOUS
    <3>1. CategoryOf[log[k]] \in cursor.done
      <4>1. k \in Nat /\ k > 0 /\ Claimed(k)
        BY <1>0 DEF Claimed
      <4> QED
        BY <2>2, <4>1, ClaimedType
    <3> QED
      BY <1>0, <2>2, <3>1 DEF WalkKept, ToCome
  <2>4. promised' \in {promised, base}
    BY <1>0, <2>1, LaterIs
  <2>5. \A k \in 1 .. promised' : k \in Nat /\ k > 0 /\ Claimed(k) /\ Known(k)
    BY <1>0, <2>3, <2>4 DEF PromiseKept, Claimed
  <2> QED
    BY <1>1, <2>5 DEF PromiseKept
<1>4. CASE EndUpdate
  <2>1. /\ job.mode = "update" /\ job.pc = "pick" /\ job.todo = {}
        /\ promised' = Later(promised, Mark)
    BY <1>4, EndUpdateIs
  <2>2. Mark \in Nat /\ (Mark = mark \/ (~job.failed /\ Mark = job.newest))
    BY <1>0, LaterIs DEF Mark
  <2>3. promised' = promised \/ (~job.failed /\ promised' = job.newest)
    <3>1. promised' \in {promised, Mark} /\ promised <= promised' /\ promised' \in Nat
      BY <1>0, <2>1, <2>2, LaterIs
    <3>2. mark <= promised
      BY <1>0 DEF PassKept
    <3> QED
      BY <1>0, <2>2, <3>1, <3>2
  <2>4. ~job.failed => \A k \in 1 .. job.newest : Known(k)
    <3>1. Awaited = {}
      BY <2>1 DEF Awaited
    <3> QED
      BY <1>0, <2>1, <3>1 DEF PassKept
  <2>5. \A k \in 1 .. promised' : k \in Nat /\ k > 0 /\ Claimed(k) /\ Known(k)
    BY <1>0, <2>3, <2>4 DEF PromiseKept, Claimed
  <2> QED
    BY <1>1, <2>5 DEF PromiseKept
<1> QED
  BY <1>2, <1>3, <1>4, DiscourseTouches

LEMMA WalkMode ==
  ASSUME Shapes, kind = "discourse", BeginBackfill \/ ListPageOf \/ ListNull \/ PageDone
  PROVE  job'.mode = "backfill"
<1>1. cursor \in Cursors /\ cursor.done \in SUBSET Categories
  BY DEF Shapes, CursorShape, Cursors
<1>2. CASE BeginBackfill
  BY <1>1, <1>2, BeginBackfillIs, EnterIs
<1>3. CASE PageDone
  BY <1>3, PageDoneIs DEF Sets, Fields
<1>4. CASE ListPageOf
  <2> DEFINE D == cursor.done \cup {job.category}
  <2>1. job.mode = "backfill" /\ D \in SUBSET Categories
    BY <1>1, <1>4, ListPageOfIs
  <2>2. Sets({"pc", "todo"}) \/ job' = Enter(D)
    BY <1>4, ListPageOfIs
  <2> HIDE DEF D
  <2>3. CASE Sets({"pc", "todo"})
    BY <2>1, <2>3 DEF Sets, Fields
  <2>4. CASE job' = Enter(D)
    BY <1>1, <2>1, <2>4, EnterIs
  <2> QED
    BY <2>2, <2>3, <2>4
<1>5. CASE ListNull
  <2> DEFINE D == cursor.done \cup {job.category}
  <2>1. D \in SUBSET Categories /\ job' = Enter(D)
    BY <1>1, <1>5, ListNullIs
  <2> HIDE DEF D
  <2> QED
    BY <1>1, <2>1, EnterIs
<1> QED
  BY <1>2, <1>3, <1>4, <1>5

LEMMA PassStays ==
  ASSUME Shapes, Sound, kind = "discourse", DiscourseNext, ForumInv
  PROVE  PassKept'
<1>0. /\ PlaceSound /\ PromiseKept /\ PassKept /\ log' = log
      /\ base \in Nat /\ Len(log) \in Nat
      /\ promised \in Nat /\ promised <= Len(log) /\ mark \in Nat /\ mark <= promised
      /\ job.newest \in Nat /\ job.newest <= Len(log)
  BY LogType, DiscourseTouches DEF Shapes, RowShape, JobShape, Jobs, ForumInv, PassKept
<1>1. ASSUME NEW k \in Nat, k > 0, Claimed(k), Known(k) PROVE Known(k)'
  <2>1. k \in 1 .. Len(log)
    BY <1>1, ClaimedType
  <2> QED
    BY <1>1, <2>1, KnownStays
<1>2. mark' <= promised'
  <2>1. CASE mark' = mark /\ promised' = promised
    BY <1>0, <2>1
  <2>2. CASE EndBackfill
    <3>1. mark' = mark /\ promised' = Later(promised, base)
      BY <2>2, EndBackfillIs
    <3>2. promised <= promised' /\ promised' \in Nat
      BY <1>0, <3>1, LaterIs
    <3> QED
      BY <1>0, <3>1, <3>2
  <2>3. CASE EndUpdate
    <3>1. mark' = Mark /\ promised' = Later(promised, Mark)
      BY <2>3, EndUpdateIs
    <3>2. Mark \in Nat
      BY <1>0, LaterIs DEF Mark
    <3> QED
      BY <1>0, <3>1, <3>2, LaterIs
  <2> QED
    BY <2>1, <2>2, <2>3, DiscourseTouches
<1>3. CASE job'.mode # "update" \/ job'.pc = "posts"
  BY <1>2, <1>3 DEF PassKept
<1>4. CASE Crawl
  <2> SUFFICES ASSUME job.mode = "update", ~job'.failed
               PROVE  \A k \in 1 .. job'.newest : Known(k)' \/ log'[k] \in Awaited'
    BY <1>2, <1>4, CrawlMoves DEF PassKept
  <2>1. job'.newest = job.newest /\ ~job.failed /\ job.pc # "posts"
    BY <1>4, CrawlMoves
  <2>2. \A k \in 1 .. job.newest : Known(k) \/ log[k] \in Awaited
    BY <1>0, <2>1 DEF PassKept
  <2>3. ASSUME NEW k \in 1 .. job.newest
        PROVE  Known(k)' \/ log[k] \in Awaited'
    <3>1. k \in 1 .. Len(log) /\ k \in Nat /\ k > 0 /\ k <= job.newest /\ Claimed(k)
      BY <1>0 DEF Claimed
    <3>2. CASE Known(k)
      BY <1>1, <3>1, <3>2
    <3>3. CASE log[k] \in Awaited
      BY <1>4, <3>1, <3>3, CrawlKnows
    <3> QED
      BY <2>2, <3>2, <3>3
  <2> QED
    BY <1>0, <2>1, <2>3
<1>5. CASE NewPosts
  <2>1. /\ job.pc = "posts" /\ rec' = rec
        /\ job'.todo = {<<log[n], 0>> : n \in Fresh} /\ job'.newest = Newest(Fresh)
        /\ excused' = excused \cup {log[n] : n \in {m \in mark + 1 .. Len(log) - Window :
                                                  rec[log[m]].count < Posts(log[m], m)}}
    BY <1>5, NewPostsIs
  <2>2. Fresh \in SUBSET Nat /\ \A n \in Fresh : n <= Len(log)
    BY <1>0 DEF Fresh
  <2>3. Newest(Fresh) \in Nat /\ Newest(Fresh) <= Len(log)
    BY <1>0, <2>2, NewestIs
  <2>4. ASSUME NEW k \in 1 .. Newest(Fresh)
        PROVE  Known(k)' \/ log[k] \in Awaited'
    <3>1. k \in 1 .. Len(log) /\ log[k] \in Topics
      BY <1>0, <2>3, LogType DEF Shapes
    <3>2. CASE k \in Fresh
      <4>1. <<log[k], 0>> \in job'.todo
        BY <2>1, <3>2
      <4> QED
        BY <3>1, <4>1 DEF Awaited
    <3>3. CASE k <= mark
      <4>1. k \in Nat /\ k > 0 /\ Claimed(k) /\ Known(k)
        BY <1>0, <3>1, <3>3 DEF PromiseKept, Claimed
      <4> QED
        BY <1>1, <4>1
    <3>4. CASE k > mark /\ k <= Len(log) - Window
      <4>1. k \in mark + 1 .. Len(log) - Window
        BY <1>0, <3>1, <3>4, ForumBounds
      <4>2. CASE rec[log[k]].count < Posts(log[k], k)
        <5>1. log[k] \in excused'
          BY <2>1, <4>1, <4>2
        <5> QED
          BY <1>0, <5>1 DEF Known
      <4>3. CASE ~(rec[log[k]].count < Posts(log[k], k))
        <5>1. rec[log[k]].count \in Nat /\ Posts(log[k], k) \in Nat
          BY <3>1, PostsType DEF Shapes, RowShape, Recs
        <5>2. rec[log[k]].count >= Tally(log, log[k], k)
          BY <4>3, <5>1, PostsIs
        <5> QED
          BY <1>0, <2>1, <5>2 DEF Known
      <4> QED
        BY <4>2, <4>3
    <3> QED
      BY <1>0, <3>1, <3>2, <3>3, <3>4, ForumBounds DEF Fresh
  <2> QED
    BY <1>0, <1>2, <2>1, <2>4 DEF PassKept
<1>6. CASE Latest
  <2>1. /\ job.pc = "latest" /\ Sets({"pc", "todo"}) /\ job'.pc = "pick"
        /\ job'.todo = {e \in job.todo : e[1] \notin Moved} \cup {<<t, Bump(t)>> : t \in Moved}
    BY <1>6, LatestIs
  <2>2. job'.mode = job.mode /\ job'.failed = job.failed /\ job'.newest = job.newest
    BY <2>1 DEF Sets, Fields
  <2>3. Awaited \subseteq Awaited'
    <3> SUFFICES ASSUME NEW t \in Awaited PROVE t \in Awaited'
      OBVIOUS
    <3>1. t \in Topics /\ \E e \in job.todo : e[1] = t
      BY <2>1 DEF Awaited
    <3>2. CASE t \in Moved
      <4>1. <<t, Bump(t)>> \in job'.todo
        BY <2>1, <3>2
      <4> QED
        BY <3>1, <4>1 DEF Awaited
    <3>3. CASE t \notin Moved
      BY <2>1, <3>1, <3>3 DEF Awaited
    <3> QED
      BY <3>2, <3>3
  <2>4. job.mode = "update" /\ ~job.failed =>
            \A k \in 1 .. job.newest : Known(k)' \/ log[k] \in Awaited'
    BY <1>0, <1>1, <2>1, <2>3 DEF PassKept, Claimed
  <2> QED
    BY <1>0, <1>2, <2>2, <2>4 DEF PassKept
<1>7. CASE StopBackfill \/ EndBackfill \/ EndUpdate \/ EndRepair \/ StopRepair
  <2>1. Starts({})
    BY <1>7, StopBackfillIs, EndBackfillIs, EndUpdateIs, EndRepairIs, StopRepairIs
  <2> QED
    BY <1>3, <2>1, IdleType DEF Starts, Fields
<1>8. CASE BeginUpdate \/ BeginRepair
  BY <1>3, <1>8, BeginUpdateIs, BeginRepairIs
<1>9. CASE BeginBackfill \/ ListPageOf \/ ListNull \/ PageDone
  BY <1>3, <1>9, WalkMode
<1>10. CASE UpdateNull
  <2>1. /\ job'.mode = job.mode /\ job'.failed = job.failed /\ job'.newest = job.newest
        /\ job'.todo = job.todo /\ job.pc \in {"posts", "latest"} /\ job'.pc # "get"
        /\ job.pc = "latest" => job'.pc = "pick"
        /\ rec' = rec /\ excused' = excused
    BY <1>10, UpdateNullIs DEF Sets, Fields
  <2>2. CASE job.pc = "posts"
    BY <1>0, <1>2, <2>1, <2>2 DEF PassKept, PlaceSound
  <2>3. CASE job.pc = "latest"
    <3>1. Awaited' = Awaited
      BY <2>1, <2>3 DEF Awaited
    <3>2. job.mode = "update" /\ ~job.failed =>
            \A k \in 1 .. job.newest : Known(k)' \/ log[k] \in Awaited'
      BY <1>0, <1>1, <2>3, <3>1 DEF PassKept, Claimed
    <3> QED
      BY <1>0, <1>2, <2>1, <3>2 DEF PassKept
  <2> QED
    BY <2>1, <2>2, <2>3
<1> QED
  BY <1>4, <1>5, <1>6, <1>7, <1>8, <1>9, <1>10 DEF DiscourseNext, Crawl

LEMMA ValidatorStays ==
  ASSUME Shapes, Sound, kind = "discourse", DiscourseNext, ForumInv
  PROVE  ValidatorKept'
<1>0. ValidatorKept /\ log' = log /\ Len(log) \in Nat
  BY LogType, DiscourseTouches DEF Shapes, ForumInv
<1>1. CASE Get
  <2>1. /\ job.pc = "get" /\ job'.pc = "store" /\ job'.version = Top(log, job.topic)
        /\ job'.topic = job.topic /\ job.topic \in Topics /\ validator \in [Topics -> Nat]
        /\ validator' = [validator EXCEPT ![job.topic] = IF etags THEN Top(log, job.topic) ELSE @]
        /\ UNCHANGED <<rec, excused>>
    BY <1>1, GetIs, BumpIs DEF Sets, Fields, Shapes, JobShape, RowShape
  <2> SUFFICES ASSUME NEW t \in Topics
               PROVE  \/ Tally(log, t, validator'[t]) <= rec[t].count
                      \/ t \in excused
                      \/ job'.topic = t /\ validator'[t] = job'.version
    BY <1>0, <2>1 DEF ValidatorKept
  <2>2. CASE t = job.topic /\ etags
    BY <2>1, <2>2
  <2>3. CASE ~(t = job.topic /\ etags)
    <3>1. validator'[t] = validator[t]
      BY <2>1, <2>3
    <3> QED
      BY <1>0, <2>1, <3>1 DEF ValidatorKept
  <2> QED
    BY <2>2, <2>3
<1>2. CASE Store
  <2>1. /\ job.pc = "store" /\ job.topic \in Topics /\ validator' = validator
        /\ rec'[job.topic].count = Tally(log, job.topic, job.version)
        /\ \A u \in Topics \ {job.topic} : rec'[u] = rec[u]
        /\ excused' = excused \ {job.topic}
    BY <1>2, StoreIs, PostsIs
  <2>2. /\ validator[job.topic] <= job.version /\ validator[job.topic] \in Nat
        /\ job.version \in Nat
    BY <2>1 DEF Sound, StoreSound, Shapes, RowShape, JobShape, Jobs
  <2>3. \A k \in 1 .. validator[job.topic] : log[k] = job.topic => k <= job.version
    BY <2>2
  <2>4. Tally(log, job.topic, validator[job.topic]) <= Tally(log, job.topic, job.version)
    BY <2>2, <2>3, TallyGrows
  <2>5. \A t \in Topics : t # job.topic =>
          Tally(log, t, validator[t]) <= rec[t].count \/ t \in excused
    BY <1>0 DEF ValidatorKept
  <2> QED
    BY <1>0, <2>1, <2>4, <2>5 DEF ValidatorKept
<1>3. CASE ~Get /\ ~GetNull /\ ~Store
  <2>1. /\ validator' = validator /\ excused \subseteq excused'
        /\ \A t \in Topics : rec'[t].count = rec[t].count
    BY <1>3, DiscourseTouches
  <2>2. job.pc # "store"
    <3> SUFFICES ASSUME job.pc = "store" PROVE FALSE
      OBVIOUS
    <3>1. CASE Crawl
      BY <1>3, <3>1, PickIs, UnchangedIs, GetFailsIs, ChunksIs, ChunkFailsIs DEF Crawl
    <3>2. CASE BeginBackfill \/ BeginUpdate \/ BeginRepair
      BY <3>2, BeginBackfillIs, BeginUpdateIs, BeginRepairIs, IdleType
    <3>3. CASE ListPageOf \/ ListNull \/ PageDone \/ StopBackfill \/ EndBackfill
      BY <3>3, ListPageOfIs, ListNullIs, PageDoneIs, StopBackfillIs, EndBackfillIs
    <3>4. CASE NewPosts \/ Latest \/ UpdateNull \/ EndUpdate \/ EndRepair \/ StopRepair
      BY <3>4, NewPostsIs, LatestIs, UpdateNullIs, EndUpdateIs, EndRepairIs, StopRepairIs
    <3> QED
      BY <3>1, <3>2, <3>3, <3>4 DEF DiscourseNext, Crawl
  <2> QED
    BY <1>0, <2>1, <2>2 DEF ValidatorKept
<1>4. CASE GetNull
  <2>1. /\ job.pc = "get" /\ rec' = rec /\ excused \subseteq excused'
        /\ validator \in [Topics -> Nat] /\ job.topic \in Topics
        /\ validator' = [validator EXCEPT ![job.topic] = IF etags THEN 0 ELSE @]
    BY <1>4, GetNullIs DEF Shapes, RowShape
  <2> SUFFICES ASSUME NEW t \in Topics
               PROVE  Tally(log, t, validator'[t]) <= rec[t].count \/ t \in excused'
    BY <1>0, <2>1 DEF ValidatorKept
  <2>2. CASE validator'[t] = validator[t]
    BY <1>0, <2>1, <2>2 DEF ValidatorKept
  <2>3. CASE validator'[t] = 0
    <3>1. Spots(log, t, 0) = {}
      BY DEF Spots
    <3>2. Tally(log, t, 0) = 0
      BY <3>1, FS_EmptySet DEF Tally
    <3>3. rec[t].count \in Nat
      BY DEF Shapes, RowShape, Recs
    <3> QED
      BY <2>3, <3>2, <3>3
  <2> QED
    BY <2>1, <2>2, <2>3
<1> QED
  BY <1>1, <1>2, <1>3, <1>4

\* What a repair counted as complete it does not take back.
LEMMA CrawlSpares ==
  ASSUME Shapes, Crawl
  PROVE  job.spared \subseteq job'.spared
<1>1. CASE \E e \in job.todo : Pick(e)
  BY <1>1, PickIs DEF Sets, Fields
<1>2. CASE Unchanged \/ Get \/ GetFails \/ ChunkFails
  BY <1>2, UnchangedIs, GetIs, GetFailsIs, ChunkFailsIs DEF Sets, Fields
<1>3. CASE Store
  BY <1>3, StoreIs DEF Sets, Fields
<1>4. CASE Chunks \/ GetNull
  BY <1>4, ChunksIs, GetNullIs
<1> QED
  BY <1>1, <1>2, <1>3, <1>4 DEF Crawl

LEMMA RepairStays ==
  ASSUME Shapes, Sound, kind = "discourse", DiscourseNext, ForumInv
  PROVE  RepairKept'
<1>0. PlaceSound /\ RepairKept /\ log' = log /\ Len(log) \in Nat
  BY LogType, DiscourseTouches DEF Shapes, ForumInv
<1>1. CASE job'.mode # "repair"
  BY <1>1 DEF RepairKept
<1>2. CASE Crawl
  <2> SUFFICES ASSUME job.mode = "repair", ~job'.failed, NEW t \in Topics, Incomplete(t)'
               PROVE  \/ t \in Awaited'
                      \/ job'.pc = "tail" /\ job'.topic = t
                      \/ rec'[t].count <= Tally(log, t, validator'[t])
                      \/ t \in job'.spared
    BY <1>0, <1>2, CrawlMoves DEF RepairKept
  <2>0. ~job.failed /\ job.spared \subseteq job'.spared
    BY <1>2, CrawlMoves, CrawlSpares
  <2>1. Incomplete(t) => \/ t \in Awaited
                         \/ job.pc = "tail" /\ job.topic = t
                         \/ rec[t].count <= Tally(log, t, validator[t])
                         \/ t \in job.spared
    BY <1>0, <2>0 DEF RepairKept
  <2>2. CASE \E e \in job.todo : Pick(e)
    <3>1. PICK e \in job.todo : Pick(e)
      BY <2>2
    <3>2. /\ job.pc = "pick" /\ job'.todo = job.todo \ {e} /\ UNCHANGED <<rec, validator>>
          /\ job'.pc = "get" /\ job'.topic = e[1]
      BY <3>1, PickIs
    <3>3. t \in Awaited => t \in Awaited'
      BY <3>2 DEF Awaited
    <3> QED
      BY <2>0, <2>1, <3>2, <3>3 DEF Incomplete
  <2>3. CASE Unchanged
    <3>1. /\ job.pc = "get" /\ job'.todo = job.todo /\ UNCHANGED <<rec, validator>>
          /\ validator[job.topic] = Top(log, job.topic)
      BY <2>3, UnchangedIs, BumpIs DEF Sets, Fields
    <3>2. CASE t = job.topic
      <4>1. rec[t].count <= Tally(log, t, Len(log))
        BY DEF Sound, RecSound
      <4>2. Tally(log, t, Top(log, t)) = Tally(log, t, Len(log))
        BY <1>0, TallyAtTop
      <4> QED
        BY <3>1, <3>2, <4>1, <4>2
    <3>3. CASE t # job.topic
      <4>1. t \in Awaited => t \in Awaited'
        BY <3>1, <3>3 DEF Awaited
      <4> QED
        BY <2>0, <2>1, <3>1, <4>1 DEF Incomplete
    <3> QED
      BY <3>2, <3>3
  <2>4. CASE Get
    <3>1. /\ job.pc = "get" /\ job'.todo = job.todo /\ rec' = rec /\ job'.pc = "store"
          /\ job'.topic = job.topic /\ validator \in [Topics -> Nat]
          /\ validator' = [validator EXCEPT ![job.topic] = IF etags THEN Bump(job.topic) ELSE @]
      BY <2>4, GetIs DEF Sets, Fields, Shapes, RowShape
    <3>2. CASE t = job.topic
      BY <3>1, <3>2 DEF Awaited
    <3>3. CASE t # job.topic
      <4>1. (t \in Awaited => t \in Awaited') /\ validator'[t] = validator[t]
        BY <3>1, <3>3 DEF Awaited
      <4> QED
        BY <2>0, <2>1, <3>1, <4>1 DEF Incomplete
    <3> QED
      BY <3>2, <3>3
  <2>5. CASE GetFails
    BY <2>5, GetFailsIs
  <2>6. CASE Store
    <3>1. /\ job.pc = "store" /\ job'.todo = job.todo /\ validator' = validator
          /\ \A u \in Topics \ {job.topic} : rec'[u] = rec[u]
          /\ job.topic \in Topics /\ rec' \in [Topics -> Recs]
          /\ \/ job'.pc = "tail" /\ job'.topic = job.topic
             \/ rec'[job.topic].count = rec'[job.topic].have
             \/ job.topic \in job'.spared
      BY <2>6, StoreIs DEF Sets, Fields
    <3>2. CASE t = job.topic
      <4>1. rec'[t].count \in Nat /\ rec'[t].have \in Nat /\ Tolerance \in Nat
        BY <3>1, ForumBounds DEF Recs
      <4>2. rec'[t].count # rec'[t].have
        BY <4>1 DEF Incomplete
      <4> QED
        BY <3>1, <3>2, <4>2
    <3>3. CASE t # job.topic
      <4>1. (t \in Awaited => t \in Awaited') /\ rec'[t] = rec[t]
        BY <3>1, <3>3 DEF Awaited
      <4> QED
        BY <2>0, <2>1, <3>1, <4>1 DEF Incomplete
    <3> QED
      BY <3>2, <3>3
  <2>7. CASE Chunks
    <3>1. /\ job.pc = "tail" /\ job'.todo = job.todo /\ validator' = validator
          /\ job.topic \in Topics /\ rec \in [Topics -> Recs]
      BY <2>7, ChunksIs DEF Sets, Fields, Shapes, RowShape, JobShape
    <3>2. PICK have \in Nat :
             /\ rec' = [rec EXCEPT ![job.topic].have = have]
             /\ have = rec[job.topic].count \/ job.topic \in job'.spared
      BY <2>7, ChunksIs
    <3>3. CASE t = job.topic
      <4>1. rec'[t].have = have /\ rec'[t].count = rec[t].count /\ rec[t].count \in Nat
            /\ Tolerance \in Nat
        BY <3>1, <3>2, <3>3, ForumBounds DEF Recs
      <4>2. have # rec[t].count
        BY <4>1 DEF Incomplete
      <4> QED
        BY <3>2, <3>3, <4>2
    <3>4. CASE t # job.topic
      <4>1. (t \in Awaited => t \in Awaited') /\ rec'[t] = rec[t]
        BY <3>1, <3>2, <3>4 DEF Awaited
      <4> QED
        BY <2>0, <2>1, <3>1, <3>4, <4>1 DEF Incomplete
    <3> QED
      BY <3>3, <3>4
  <2>8. CASE ChunkFails
    BY <2>8, ChunkFailsIs
  <2>9. CASE GetNull
    <3>1. /\ job.pc = "get" /\ job'.todo = job.todo /\ rec' = rec
          /\ job.topic \in job'.spared /\ validator \in [Topics -> Nat]
          /\ validator' = [validator EXCEPT ![job.topic] = IF etags THEN 0 ELSE @]
      BY <2>9, GetNullIs DEF Sets, Fields, Shapes, RowShape
    <3>2. CASE t # job.topic
      <4>1. (t \in Awaited => t \in Awaited') /\ validator'[t] = validator[t]
        BY <3>1, <3>2 DEF Awaited
      <4> QED
        BY <2>0, <2>1, <3>1, <4>1 DEF Incomplete
    <3> QED
      BY <3>1, <3>2
  <2> QED
    BY <1>2, <2>2, <2>3, <2>4, <2>5, <2>6, <2>7, <2>8, <2>9 DEF Crawl
<1>3. CASE BeginRepair
  <2>1. job'.todo = {<<t, 0>> : t \in {u \in Topics : Incomplete(u)}} /\ rec' = rec
    BY <1>3, BeginRepairIs
  <2>2. \A t \in Topics : Incomplete(t) => t \in Awaited'
    <3> SUFFICES ASSUME NEW t \in Topics, Incomplete(t) PROVE t \in Awaited'
      OBVIOUS
    <3>1. <<t, 0>> \in job'.todo
      BY <2>1
    <3> QED
      BY <3>1 DEF Awaited
  <2>3. \A t \in Topics : Incomplete(t)' => Incomplete(t)
    BY <2>1 DEF Incomplete
  <2> QED
    BY <2>2, <2>3 DEF RepairKept
<1>4. CASE StopBackfill \/ EndBackfill \/ EndUpdate \/ EndRepair \/ StopRepair
  <2>1. Starts({})
    BY <1>4, StopBackfillIs, EndBackfillIs, EndUpdateIs, EndRepairIs, StopRepairIs
  <2> QED
    BY <1>1, <2>1, IdleType DEF Starts, Fields
<1>5. CASE BeginUpdate
  BY <1>1, <1>5, BeginUpdateIs
<1>6. CASE NewPosts \/ Latest \/ UpdateNull
  <2>1. job'.mode = job.mode /\ job.pc \in {"posts", "latest"}
    BY <1>6, NewPostsIs, LatestIs, UpdateNullIs DEF Sets, Fields
  <2> QED
    BY <1>0, <1>1, <2>1 DEF PlaceSound
<1>7. CASE BeginBackfill \/ ListPageOf \/ ListNull \/ PageDone
  BY <1>1, <1>7, WalkMode
<1> QED
  BY <1>2, <1>3, <1>4, <1>5, <1>6, <1>7 DEF DiscourseNext, Crawl

LEMMA PostKeepsForum ==
  ASSUME Shapes, Sound, kind = "discourse", ForumInv, NEW x \in Topics, SitePost(x)
  PROVE  ForumInv'
<1>0. /\ PlaceSound /\ CursorKept /\ WalkKept /\ PromiseKept /\ PassKept
      /\ ValidatorKept /\ RepairKept
      /\ Len(log) \in Nat /\ base \in Nat /\ base <= Len(log) /\ promised \in Nat
      /\ promised <= Len(log) /\ job.newest \in Nat /\ job.newest <= Len(log)
      /\ validator \in [Topics -> Nat] /\ \A t \in Topics : validator[t] <= Len(log)
  BY LogType DEF ForumInv, Shapes, RowShape, JobShape, Jobs
<1>1. /\ UNCHANGED <<kind, rec, etags, validator, done, cursor, mark, job, faults, base,
                     promised>>
      /\ excused' = IF Walking THEN excused \cup {x} ELSE excused
      /\ \A k \in 1 .. Len(log) : log'[k] = log[k]
      /\ log' = Append(log, x) /\ log \in Seq(Topics)
  BY SitePostIs DEF Shapes, SiteShape
<1>2. \A k \in 1 .. Len(log) : Known(k) => Known(k)'
  BY SitePostKeepsKnown
<1>3. Awaited' = Awaited
  BY <1>1 DEF Awaited
<1>4. \A t \in Topics : t # x => RankIn(log, t) <= RankIn(log', t)
  BY <1>1, AppendRank
<1>5. \A t \in Topics : RankIn(log, t) \in Nat /\ RankIn(log', t) \in Nat
  BY RankType
<1>6. ASSUME NEW t \in Topics, t # x, NEW D, NEW c, NEW p \in Nat, ToCome(log, t, D, c, p)
      PROVE  ToCome(log', t, D, c, p)
  <2>1. From(p) \in Nat
    BY FromType
  <2> QED
    BY <1>4, <1>5, <1>6, <2>1 DEF ToCome
<1>7. cursor.page \in Nat /\ job.page \in Nat /\ job.page + 1 \in Nat
  BY DEF Shapes, CursorShape, Cursors, JobShape, Jobs
<1>8. Walking => \A k \in 1 .. Len(log) : log[k] = x => Known(k)'
  BY <1>1 DEF Known
<1>9. \A k \in 1 .. base : k \in 1 .. Len(log) /\ log[k] \in Topics
                           /\ CategoryOf[log[k]] # 0
  <2>1. \A k \in 1 .. base : k \in 1 .. Len(log)
    BY <1>0
  <2> QED
    BY <2>1, LogType, ForumBounds DEF Shapes
<1>10. CursorKept'
  <2>1. CASE Walking
    <3> SUFFICES ASSUME NEW k \in 1 .. base, ~Known(k)'
                 PROVE  ToCome(log', log[k], cursor.done, cursor.category, cursor.page)
      BY <1>1, <1>9 DEF CursorKept
    <3>1. log[k] # x /\ log[k] \in Topics /\ ~Known(k)
      BY <1>2, <1>8, <1>9, <2>1
    <3> QED
      BY <1>0, <1>6, <1>7, <3>1 DEF CursorKept
  <2>2. CASE ~Walking
    <3>1. cursor.done = {} /\ cursor.category = 0
      BY <2>2, IdleType DEF Walking
    <3> QED
      BY <1>1, <1>9, <3>1 DEF CursorKept, ToCome
  <2> QED
    BY <2>1, <2>2
<1>11. WalkKept'
  <2> SUFFICES ASSUME job.mode = "backfill" PROVE WalkKept'
    BY <1>1 DEF WalkKept
  <2>1. Walking
    BY DEF Walking
  <2>2. ASSUME NEW k \in 1 .. base, ~Known(k)'
        PROVE  /\ ToCome(log', log[k], cursor.done, job.category, job.page)
               /\ CategoryOf[log[k]] = job.category =>
                    \/ job.pc = "list" \/ log[k] \in Awaited
                    \/ From(job.page + 1) <= RankIn(log', log[k])
    <3>1. log[k] # x /\ log[k] \in Topics /\ ~Known(k)
      BY <1>2, <1>8, <1>9, <2>1, <2>2
    <3>2. ToCome(log, log[k], cursor.done, job.category, job.page)
      BY <1>0, <3>1 DEF WalkKept
    <3>3. ToCome(log', log[k], cursor.done, job.category, job.page)
      BY <1>6, <1>7, <3>1, <3>2
    <3>4. From(job.page + 1) <= RankIn(log, log[k]) => From(job.page + 1) <= RankIn(log', log[k])
      <4>1. From(job.page + 1) \in Nat
        BY <1>7, FromType
      <4> QED
        BY <1>4, <1>5, <3>1, <4>1
    <3> QED
      BY <1>0, <3>1, <3>3, <3>4 DEF WalkKept
  <2>3. \A e \in job.todo : \A k \in 1 .. base : log'[k] = e[1] => k <= e[2]
    BY <1>0, <1>1, <1>9 DEF WalkKept
  <2> QED
    BY <1>1, <1>3, <1>9, <2>2, <2>3 DEF WalkKept
<1>12. PromiseKept'
  <2>1. \A k \in 1 .. promised : k \in 1 .. Len(log)
    BY <1>0
  <2> QED
    BY <1>0, <1>1, <1>2, <2>1 DEF PromiseKept
<1>13. PassKept'
  <2>1. \A k \in 1 .. job.newest : k \in 1 .. Len(log)
    BY <1>0
  <2> QED
    BY <1>0, <1>1, <1>2, <1>3, <2>1 DEF PassKept
<1>14. \A t \in Topics : Tally(log', t, validator[t]) = Tally(log, t, validator[t])
  <2>1. \A t : \A v \in 0 .. Len(log) : Tally(log', t, v) = Tally(log, t, v)
    BY PostGrows
  <2> QED
    BY <1>0, <2>1
<1>15. ValidatorKept'
  BY <1>0, <1>1, <1>14 DEF ValidatorKept
<1>16. RepairKept'
  BY <1>0, <1>1, <1>3, <1>14 DEF RepairKept, Incomplete
<1>17. PlaceSound'
  BY <1>0, <1>1 DEF PlaceSound
<1> QED
  BY <1>10, <1>11, <1>12, <1>13, <1>15, <1>16, <1>17 DEF ForumInv

LEMMA LoseKeepsForum ==
  ASSUME Shapes, Sound, kind = "discourse", ForumInv, Lose
  PROVE  ForumInv'
<1>0. /\ CursorKept /\ PromiseKept /\ PassKept /\ ValidatorKept
      /\ Len(log) \in Nat /\ base \in Nat /\ base <= Len(log) /\ promised \in Nat
      /\ promised <= Len(log)
  BY LogType DEF ForumInv, Shapes, RowShape
<1>1. /\ UNCHANGED <<kind, log, rec, etags, validator, done, cursor, mark, base, promised>>
      /\ excused' = excused \cup CutOff \cup Unstored
      /\ job'.mode = "idle" /\ job'.pc = "idle"
  BY LoseIs, IdleType DEF Starts, Fields
<1>2. \A k \in 1 .. Len(log) : Known(k) => Known(k)'
  BY <1>1 DEF Known
<1>3. PlaceSound' /\ WalkKept' /\ RepairKept'
  BY <1>1 DEF PlaceSound, WalkKept, RepairKept
<1>4. CursorKept' /\ PromiseKept'
  <2>1. \A k \in 1 .. base : k \in 1 .. Len(log)
    BY <1>0
  <2>2. \A k \in 1 .. promised : k \in 1 .. Len(log)
    BY <1>0
  <2> QED
    BY <1>0, <1>1, <1>2, <2>1, <2>2 DEF CursorKept, PromiseKept
<1>5. PassKept'
  BY <1>0, <1>1 DEF PassKept
<1>6. ValidatorKept'
  BY <1>0, <1>1 DEF ValidatorKept, Unstored
<1> QED
  BY <1>3, <1>4, <1>5, <1>6 DEF ForumInv

LEMMA KindStays == Shapes /\ [Next]_vars => kind' = kind
<1> SUFFICES ASSUME Shapes, [Next]_vars PROVE kind' = kind
  OBVIOUS
<1>1. CASE \E t \in Topics : SitePost(t)
  BY <1>1, SitePostIs
<1>2. CASE Lose
  BY <1>2, LoseIs
<1>3. CASE DiscourseNext
  BY <1>3, DiscourseTouches DEF DiscourseNext
<1>4. CASE GithubNext
  BY <1>4 DEF GithubNext, BeginRepo, RepoPage, RepoItem, RepoStop, RepoPageDone, EndRepo,
     BeginRepoUpdate, NewestPage, NewestItem, NewestPageDone, EndRepoUpdate
<1>5. CASE SnapshotNext
  BY <1>5 DEF SnapshotNext, BeginSpace, BeginSpaceUpdate, SpacePage, SpaceItem, SpaceStop,
     SpacePageDone, EndSpace, EndSpaceUpdate
<1>6. CASE UNCHANGED vars
  BY <1>6 DEF vars
<1> QED
  BY <1>1, <1>2, <1>3, <1>4, <1>5, <1>6 DEF Next

LEMMA NextForum == Shapes /\ Sound /\ ForumInv /\ [Next]_vars => ForumInv'
<1> SUFFICES ASSUME Shapes, Sound, ForumInv, [Next]_vars PROVE ForumInv'
  OBVIOUS
<1>1. CASE UNCHANGED vars
  BY <1>1 DEF vars, cache, forum, history, ForumInv, PlaceSound, CursorKept, WalkKept,
     PromiseKept, PassKept, ValidatorKept, RepairKept, Known, Awaited, Incomplete
<1>2. kind' = kind
  BY KindStays
<1>3. CASE kind # "discourse"
  BY <1>2, <1>3 DEF ForumInv
<1>4. CASE kind = "discourse"
  <2>1. CASE \E t \in Topics : SitePost(t)
    BY <1>4, <2>1, PostKeepsForum
  <2>2. CASE Lose
    BY <1>4, <2>2, LoseKeepsForum
  <2>3. CASE DiscourseNext
    <3>1. PlaceSound /\ CursorKept /\ WalkKept
      BY <1>4 DEF ForumInv
    <3>2. PlaceSound' /\ CursorKept'
      BY <1>4, <2>3, <3>1, PlaceStays, CursorStays
    <3>3. WalkKept' /\ PromiseKept' /\ PassKept'
      BY <1>4, <2>3, WalkStays, PromiseStays, PassStays
    <3>4. ValidatorKept' /\ RepairKept'
      BY <1>4, <2>3, ValidatorStays, RepairStays
    <3> QED
      BY <3>2, <3>3, <3>4 DEF ForumInv
  <2>4. CASE GithubNext \/ SnapshotNext
    BY <1>4, <2>4 DEF GithubNext, SnapshotNext
  <2> QED
    BY <1>1, <2>1, <2>2, <2>3, <2>4 DEF Next
<1> QED
  BY <1>3, <1>4

\* Only a Discourse forum is ever repaired.
OnlyForums == job.mode = "repair" => kind = "discourse"

LEMMA OnlyForumsStays == Shapes /\ OnlyForums /\ [Next]_vars => OnlyForums'
<1> SUFFICES ASSUME Shapes, OnlyForums, [Next]_vars, kind # "discourse",
                    job.mode # "repair"
             PROVE  job'.mode # "repair"
  BY KindStays DEF OnlyForums
<1>1. CASE \E t \in Topics : SitePost(t)
  BY <1>1, SitePostIs
<1>2. CASE Lose
  BY <1>2, LoseIs, IdleType DEF Starts, Fields
<1>3. CASE GithubNext
  <2>1. CASE BeginRepo \/ BeginRepoUpdate
    BY <2>1, BeginRepoIs, BeginRepoUpdateIs
  <2>2. CASE RepoPage \/ NewestPage \/ RepoPageDone \/ NewestPageDone
    BY <2>2, RepoPageIs, NewestPageIs, RepoPageDoneIs, NewestPageDoneIs DEF Sets, Fields
  <2>3. CASE RepoItem \/ NewestItem
    BY <2>3, RepoItemIs, NewestItemIs DEF Sets, Fields
  <2>4. CASE RepoStop \/ EndRepo \/ EndRepoUpdate
    BY <2>4, RepoStopIs, EndRepoIs, EndRepoUpdateIs, IdleType DEF Starts, Fields
  <2> QED
    BY <1>3, <2>1, <2>2, <2>3, <2>4 DEF GithubNext
<1>4. CASE SnapshotNext
  <2>1. CASE BeginSpace \/ BeginSpaceUpdate
    BY <2>1, BeginSpaceIs, BeginSpaceUpdateIs
  <2>2. CASE SpacePage \/ SpaceItem \/ SpacePageDone
    BY <2>2, SpacePageIs, SpaceItemIs, SpacePageDoneIs DEF Sets, Fields
  <2>3. CASE SpaceStop \/ EndSpace \/ EndSpaceUpdate
    BY <2>3, SpaceStopIs, EndSpaceIs, EndSpaceUpdateIs, IdleType DEF Starts, Fields
  <2> QED
    BY <1>4, <2>1, <2>2, <2>3 DEF SnapshotNext
<1>5. CASE UNCHANGED vars
  BY <1>5 DEF vars
<1> QED
  BY <1>1, <1>2, <1>3, <1>4, <1>5 DEF Next, DiscourseNext

\* KbCrawler.repair: a pass that reports nothing failed and nothing left leaves
\* incomplete only topics whose page answered 304, and those of which the site left
\* out posts during the pass.
THEOREM RepairIsHonest == Spec => RepairRestores
<1>1. Init => Shapes /\ Sound /\ ForumInv /\ OnlyForums
  BY InitShapes, InitSound, InitForum, IdleType DEF OnlyForums, Init
<1>2. /\ Shapes /\ Sound /\ ForumInv /\ OnlyForums /\ [Next]_vars
      => Shapes' /\ Sound' /\ ForumInv' /\ OnlyForums'
  BY NextShapes, NextSound, NextForum, OnlyForumsStays
<1>3. Shapes /\ ForumInv /\ OnlyForums
      => (job.mode = "repair" /\ job.pc = "pick" /\ job.todo = {} /\ ~job.failed
          => \A t \in Topics : Incomplete(t) => \/ Posts(t, validator[t]) >= rec[t].count
                                                \/ t \in job.spared)
  <2> SUFFICES ASSUME Shapes, ForumInv, OnlyForums, job.mode = "repair", job.pc = "pick",
                      job.todo = {}, ~job.failed, NEW t \in Topics, Incomplete(t),
                      t \notin job.spared
               PROVE  Posts(t, validator[t]) >= rec[t].count
    OBVIOUS
  <2>1. RepairKept
    BY DEF ForumInv, OnlyForums
  <2>2. t \notin Awaited
    BY DEF Awaited
  <2>3. rec[t].count <= Tally(log, t, validator[t])
    BY <2>1, <2>2 DEF RepairKept
  <2>4. /\ rec[t].count \in Nat /\ validator[t] \in Nat
        /\ Tally(log, t, validator[t]) \in Nat
    BY SpotsType DEF Shapes, RowShape, Recs
  <2> QED
    BY <2>3, <2>4, PostsIs
<1> QED
  BY <1>1, <1>2, <1>3, PTL DEF Spec, RepairRestores

-----------------------------------------------------------------------------
(***************************************************************************)
(* A repository.  A topic is up to date if the archive has its newest      *)
(* activity, or if it is given up.                                         *)
(***************************************************************************)
UpToDate(t) == rec[t].bumped = Top(log, t) \/ t \in excused

RepoPlace ==
    /\ job.mode \in {"idle", "backfill", "update"} /\ job.pc \in {"idle", "list", "item", "end"}
    /\ job.mode = "idle" <=> job.pc = "idle"
    /\ job.pc # "item" => job.todo = {}
    /\ cursor.since = 0 \/ cursor.after = 0
    /\ cursor.since <= NewestArchived /\ cursor.after <= Len(log)

\* What is stored and what is listed was the newest activity of its topic once.
RepoTimes ==
    /\ \A t \in Topics : rec[t].bumped # 0 => log[rec[t].bumped] = t
    /\ \A e \in job.todo : rec[e[1]].bumped <= e[2] /\ e[2] > 0 /\ log[e[2]] = e[1]

\* A topic that moved since it was listed moved past whatever the passes know.
RepoMoved == \A e \in job.todo : Top(log, e[1]) # e[2] =>
    /\ Top(log, e[1]) > NewestArchived /\ Top(log, e[1]) > cursor.after
    /\ job.mode = "backfill" => Top(log, e[1]) > job.after
    /\ \A f \in job.todo : Top(log, e[1]) > f[2]

\* The saved position, the saved watermark, and the newest date of the archive
\* where that is the watermark, have nothing stale behind them.
BehindAfter  == \A t \in Topics : Top(log, t) <= cursor.after => UpToDate(t)
BehindSince  == \A t \in Topics : Top(log, t) <= cursor.since => UpToDate(t)
BehindNewest == cursor.since = 0 /\ job.mode # "update" =>
    \A t \in Topics : Top(log, t) <= NewestArchived => UpToDate(t)

\* The backfill under way, to the end of its page
RepoWalk == job.mode = "backfill" =>
    /\ job.after <= Len(log)
    /\ job.pc = "list" => job.after = cursor.after
    /\ job.pc = "end" => cursor.since = 0
    /\ \A e \in job.todo : e[2] <= job.after
    /\ \A t \in Topics : Top(log, t) <= job.after
          => UpToDate(t) \/ <<t, Top(log, t)>> \in job.todo

\* What the incremental pass has still to come to
Remaining(t) ==
    \/ <<t, Top(log, t)>> \in job.todo
    \/ /\ Top(log, t) < job.after /\ \A e \in job.todo : Top(log, t) < e[2]
       /\ job.pc = "list" \/ (job.pc = "item" /\ job.more)

\* The incremental pass: what it has passed, from the newest topic down, is
\* up to date, and so is what lies behind the point it stops at.
RepoPass == job.mode = "update" =>
    /\ job.version <= job.newest /\ job.newest <= NewestArchived
    /\ cursor.since <= job.version
    /\ cursor.since = 0 => NewestArchived <= job.newest
    /\ \A e \in job.todo : e[2] < job.after
    /\ \A t \in Topics : Top(log, t) <= job.version => UpToDate(t)
    /\ \A t \in Topics : Top(log, t) <= job.newest \/ (\E e \in job.todo : Top(log, t) <= e[2])
          => UpToDate(t) \/ Remaining(t)

RepoInv == kind = "github" =>
    /\ RepoPlace /\ RepoTimes /\ RepoMoved
    /\ BehindAfter /\ BehindSince /\ BehindNewest /\ RepoWalk /\ RepoPass

\* The newest date of an archive
Peak(r) == Newest({r[t].bumped : t \in Topics})

LEMMA PeakIs == NewestArchived = Peak(rec)
  BY DEF NewestArchived, Peak

LEMMA PeakType ==
  ASSUME NEW r \in [Topics -> Recs], NEW b \in Nat, \A t \in Topics : r[t].bumped <= b
  PROVE  /\ Peak(r) \in Nat /\ Peak(r) <= b
         /\ \A t \in Topics : r[t].bumped <= Peak(r) /\ r[t].bumped \in Nat
         /\ Peak(r) = 0 \/ \E t \in Topics : Peak(r) = r[t].bumped
<1> DEFINE S == {r[t].bumped : t \in Topics}
<1>1. S \in SUBSET Nat /\ \A n \in S : n <= b
  BY DEF Recs
<1>2. /\ Newest(S) \in S \cup {0} /\ Newest(S) \in Nat /\ Newest(S) <= b
      /\ \A n \in S : n <= Newest(S)
  BY <1>1, NewestIs
<1> QED
  BY <1>1, <1>2 DEF Peak

\* What one row more or a newer one makes of it
LEMMA PeakGrows ==
  ASSUME NEW r \in [Topics -> Recs], NEW q \in [Topics -> Recs], NEW b \in Nat,
         \A t \in Topics : r[t].bumped <= b /\ q[t].bumped <= b,
         NEW u \in Topics, r[u].bumped <= q[u].bumped, \A t \in Topics \ {u} : q[t] = r[t]
  PROVE  /\ Peak(q) \in {Peak(r), q[u].bumped} /\ Peak(q) \in Nat /\ Peak(r) \in Nat
         /\ Peak(r) <= Peak(q) /\ q[u].bumped <= Peak(q)
<1>1. /\ Peak(q) \in Nat /\ \A t \in Topics : q[t].bumped <= Peak(q) /\ q[t].bumped \in Nat
      /\ Peak(q) = 0 \/ \E t \in Topics : Peak(q) = q[t].bumped
  BY PeakType
<1>2. /\ Peak(r) \in Nat /\ \A t \in Topics : r[t].bumped <= Peak(r) /\ r[t].bumped \in Nat
      /\ Peak(r) = 0 \/ \E t \in Topics : Peak(r) = r[t].bumped
  BY PeakType
<1>3. \A t \in Topics : r[t].bumped <= q[t].bumped
  BY <1>1
<1>4. Peak(r) <= Peak(q)
  BY <1>1, <1>2, <1>3
<1>5. CASE Peak(q) = 0
  BY <1>1, <1>2, <1>4, <1>5
<1>6. CASE \E t \in Topics : Peak(q) = q[t].bumped
  <2>1. PICK t \in Topics : Peak(q) = q[t].bumped
    BY <1>6
  <2>2. CASE t = u
    BY <1>1, <1>2, <1>4, <2>1, <2>2
  <2>3. CASE t # u
    BY <1>1, <1>2, <1>4, <2>1, <2>3
  <2> QED
    BY <2>2, <2>3
<1> QED
  BY <1>1, <1>5, <1>6

\* The newest activity of the topics is a number of the log.
LEMMA TopsType ==
  ASSUME SiteShape
  PROVE  /\ Len(log) \in Nat
         /\ \A t : /\ Top(log, t) \in Nat /\ Top(log, t) <= Len(log)
                   /\ Top(log, t) # 0 => log[Top(log, t)] = t
  BY LogType, TopIs

LEMMA BetweenIs ==
  ASSUME SiteShape, NEW p \in Nat, NEW q \in Nat
  PROVE  /\ IsFiniteSet(Between(p, q))
         /\ \A t : t \in Between(p, q) <=> t \in Topics /\ p < Top(log, t) /\ Top(log, t) < q
<1>1. \A t \in Topics : Bump(t) = Top(log, t) /\ Top(log, t) \in Nat
  BY TopsType, BumpIs
<1>2. \A t : t \in Between(p, q) <=> t \in Topics /\ p < Top(log, t) /\ Top(log, t) < q
  BY <1>1 DEF Between
<1>3. Between(p, q) \subseteq Topics
  BY DEF Between
<1> QED
  BY <1>2, <1>3, ForumBounds, FS_Subset

LEMMA BetweenGrows ==
  ASSUME SiteShape, NEW p \in Nat, NEW q \in Nat, NEW m \in Nat, NEW n \in Nat,
         m <= p, q <= n
  PROVE  /\ Cardinality(Between(p, q)) \in Nat /\ Cardinality(Between(m, n)) \in Nat
         /\ Cardinality(Between(p, q)) <= Cardinality(Between(m, n))
<1>1. Between(p, q) \subseteq Between(m, n)
  <2> SUFFICES ASSUME NEW t \in Between(p, q) PROVE t \in Between(m, n)
    OBVIOUS
  <2>1. t \in Topics /\ Top(log, t) \in Nat /\ p < Top(log, t) /\ Top(log, t) < q
    BY BetweenIs, TopsType
  <2>2. m < Top(log, t) /\ Top(log, t) < n
    BY <2>1
  <2> QED
    BY <2>1, <2>2, BetweenIs
<1>2. IsFiniteSet(Between(m, n)) /\ IsFiniteSet(Between(p, q))
  BY BetweenIs
<1> QED
  BY <1>1, <1>2, FS_Subset, FS_CardinalityType

\* A page read upwards leaves nothing out before its end, and is empty only if
\* nothing is left; so is a page read downwards.
LEMMA AboveIs ==
  ASSUME SiteShape, NEW p \in Nat
  PROVE  /\ \A t \in Above(p) : t \in Topics /\ Top(log, t) > p
         /\ \A t \in Topics : \A u \in Above(p) :
               Top(log, t) > p /\ Top(log, t) <= Top(log, u) => t \in Above(p)
         /\ \A t \in Topics : Top(log, t) > p => Above(p) # {}
<1>1. \A t \in Topics : Bump(t) = Top(log, t) /\ Top(log, t) \in Nat
  BY TopsType, BumpIs
<1>2. \A t : t \in Above(p) <=> /\ t \in Topics /\ Top(log, t) > p
                                /\ Cardinality(Between(p, Top(log, t))) < QueryPage
  BY <1>1 DEF Above
<1>3. ASSUME NEW t \in Topics, NEW u \in Above(p), Top(log, t) > p, Top(log, t) <= Top(log, u)
      PROVE  t \in Above(p)
  <2>1. /\ Cardinality(Between(p, Top(log, t))) \in Nat
        /\ Cardinality(Between(p, Top(log, u))) \in Nat
        /\ Cardinality(Between(p, Top(log, t))) <= Cardinality(Between(p, Top(log, u)))
    BY <1>1, <1>2, <1>3, BetweenGrows
  <2>2. Cardinality(Between(p, Top(log, u))) < QueryPage /\ QueryPage \in Nat
    BY <1>2, ForumBounds
  <2>3. Cardinality(Between(p, Top(log, t))) < QueryPage
    BY <2>1, <2>2
  <2> QED
    BY <1>2, <1>3, <2>3
<1>4. ASSUME NEW t \in Topics, Top(log, t) > p PROVE Above(p) # {}
  <2> DEFINE S == {n \in Nat : n > p /\ \E u \in Topics : n = Top(log, u)}
  <2>1. S \in SUBSET Nat /\ S # {}
    BY <1>1, <1>4
  <2>2. PICK m \in S : \A n \in S : m <= n
    BY <2>1, FirstExists
  <2>3. PICK u \in Topics : m = Top(log, u)
    BY <2>2
  <2>4. Between(p, m) = {}
    <3> SUFFICES ASSUME NEW w \in Between(p, m) PROVE FALSE
      OBVIOUS
    <3>1. w \in Topics /\ p < Top(log, w) /\ Top(log, w) < m /\ m \in Nat
      BY BetweenIs
    <3>2. Top(log, w) \in S
      BY <1>1, <3>1
    <3> QED
      BY <1>1, <2>2, <3>1, <3>2
  <2>5. Cardinality(Between(p, m)) < QueryPage
    BY <2>4, FS_EmptySet, ForumBounds
  <2> QED
    BY <1>2, <2>2, <2>3, <2>5
<1> QED
  BY <1>2, <1>3, <1>4

LEMMA BelowIs ==
  ASSUME SiteShape, NEW p \in Nat
  PROVE  /\ \A t \in Below(p) : t \in Topics /\ 0 < Top(log, t) /\ Top(log, t) < p
         /\ \A t \in Topics : \A u \in Below(p) :
               Top(log, t) < p /\ Top(log, u) <= Top(log, t) => t \in Below(p)
         /\ \A t \in Topics : 0 < Top(log, t) /\ Top(log, t) < p => Below(p) # {}
<1>1. \A t \in Topics : Bump(t) = Top(log, t) /\ Top(log, t) \in Nat
  BY TopsType, BumpIs
<1>2. \A t : t \in Below(p) <=> /\ t \in Topics /\ 0 < Top(log, t) /\ Top(log, t) < p
                                /\ Cardinality(Between(Top(log, t), p)) < QueryPage
  <2>1. \A t : t \in Between(0, p) <=> t \in Topics /\ 0 < Top(log, t) /\ Top(log, t) < p
    BY BetweenIs
  <2> QED
    BY <1>1, <2>1 DEF Below
<1>3. ASSUME NEW t \in Topics, NEW u \in Below(p), Top(log, t) < p, Top(log, u) <= Top(log, t)
      PROVE  t \in Below(p)
  <2>1. /\ Cardinality(Between(Top(log, t), p)) \in Nat
        /\ Cardinality(Between(Top(log, u), p)) \in Nat
        /\ Cardinality(Between(Top(log, t), p)) <= Cardinality(Between(Top(log, u), p))
    BY <1>1, <1>2, <1>3, BetweenGrows
  <2>2. Cardinality(Between(Top(log, u), p)) < QueryPage /\ QueryPage \in Nat
    BY <1>2, ForumBounds
  <2>3. Cardinality(Between(Top(log, t), p)) < QueryPage
    BY <2>1, <2>2
  <2>4. 0 < Top(log, t)
    BY <1>1, <1>2, <1>3
  <2> QED
    BY <1>2, <1>3, <2>3, <2>4
<1>4. ASSUME NEW t \in Topics, 0 < Top(log, t), Top(log, t) < p PROVE Below(p) # {}
  <2> DEFINE S == {n \in Nat : 0 < n /\ n < p /\ \E u \in Topics : n = Top(log, u)}
  <2>1. S \in SUBSET Nat /\ S # {} /\ \A n \in S : n <= p
    BY <1>1, <1>4
  <2>2. PICK m \in S : \A n \in S : n <= m
    BY <2>1, LastExists
  <2>3. PICK u \in Topics : m = Top(log, u)
    BY <2>2
  <2>4. Between(m, p) = {}
    <3> SUFFICES ASSUME NEW w \in Between(m, p) PROVE FALSE
      OBVIOUS
    <3>1. w \in Topics /\ m < Top(log, w) /\ Top(log, w) < p /\ m \in Nat
      BY BetweenIs
    <3>2. Top(log, w) \in S
      BY <1>1, <3>1
    <3> QED
      BY <1>1, <2>2, <3>1, <3>2
  <2>5. Cardinality(Between(m, p)) < QueryPage
    BY <2>4, FS_EmptySet, ForumBounds
  <2> QED
    BY <1>2, <2>2, <2>3, <2>5
<1> QED
  BY <1>2, <1>3, <1>4

LEMMA PeakStays == /\ NewestArchived' = Peak(rec')
                   /\ rec' = rec => NewestArchived' = NewestArchived
  BY DEF NewestArchived, Peak

LEMMA RepoTypes ==
  ASSUME Shapes
  PROVE  /\ SiteShape /\ Len(log) \in Nat
         /\ job.after \in Nat /\ job.version \in Nat /\ job.newest \in Nat /\ job.more \in BOOLEAN
         /\ job.version <= Len(log) /\ job.newest <= Len(log)
         /\ cursor.after \in Nat /\ cursor.since \in Nat /\ cursor.since <= Len(log)
         /\ \A e \in job.todo : e \in Topics \X Nat /\ e[1] \in Topics /\ e[2] \in Nat
                                /\ e[2] <= Len(log)
         /\ NewestArchived \in Nat /\ NewestArchived <= Len(log)
         /\ \A t \in Topics : /\ rec[t].bumped \in Nat /\ rec[t].bumped <= Len(log)
                              /\ rec[t].bumped <= NewestArchived
<1>1. \A e \in job.todo : e \in Topics \X Nat /\ e[2] <= Len(log)
  BY DEF Shapes, JobShape, Jobs
<1>2. \A e \in job.todo : e[1] \in Topics /\ e[2] \in Nat
  BY <1>1
<1>3. /\ job.after \in Nat /\ job.version \in Nat /\ job.newest \in Nat /\ job.more \in BOOLEAN
      /\ job.version <= Len(log) /\ job.newest <= Len(log)
      /\ cursor.after \in Nat /\ cursor.since \in Nat /\ cursor.since <= Len(log)
  BY DEF Shapes, JobShape, Jobs, CursorShape, Cursors
<1>4. SiteShape /\ RowShape
  BY DEF Shapes
<1> QED
  BY <1>1, <1>2, <1>3, <1>4, LogType, ArchivedType DEF RowShape, Recs

\* Topics that do not exist are up to date.
LEMMA NoneIsUpToDate ==
  ASSUME Shapes, Sound, NEW t \in Topics, Top(log, t) = 0
  PROVE  UpToDate(t)
  BY RepoTypes DEF Sound, RecSound, UpToDate

LEMMA InitRepo == Init => RepoInv
<1> SUFFICES ASSUME Init PROVE RepoInv
  OBVIOUS
<1>1. /\ job = Idle /\ cursor = NoCursor /\ Len(log) = 0
      /\ \A t \in Topics : rec[t].bumped = 0
  BY DEF Init, NoTopic
<1>2. \A t : Top(log, t) = 0
  BY <1>1, TopIs
<1>3. Shapes
  BY InitShapes
<1>4. NewestArchived \in Nat
  BY <1>3, RepoTypes
<1>5. \A t \in Topics : UpToDate(t)
  BY <1>1, <1>2 DEF UpToDate
<1>6. RepoPlace /\ RepoTimes /\ RepoMoved /\ RepoWalk /\ RepoPass
  BY <1>1, <1>4, IdleType DEF RepoPlace, RepoTimes, RepoMoved, RepoWalk, RepoPass
<1> QED
  BY <1>5, <1>6 DEF RepoInv, BehindAfter, BehindSince, BehindNewest

LEMMA SitePostRepo ==
  ASSUME Shapes, Sound, RepoInv, kind = "github", NEW x \in Topics, SitePost(x)
  PROVE  RepoInv'
<1> DEFINE L == Len(log)
<1>1. /\ RepoPlace /\ RepoTimes /\ RepoMoved /\ BehindAfter /\ BehindSince /\ BehindNewest
      /\ RepoWalk /\ RepoPass
  BY DEF RepoInv
<1>2. /\ Len(log') = L + 1 /\ L \in Nat /\ rec' = rec /\ cursor' = cursor /\ job' = job
      /\ excused \subseteq excused' /\ \A k \in 1 .. L : log'[k] = log[k]
      /\ Top(log', x) = L + 1 /\ \A t : t # x => Top(log', t) = Top(log, t)
  BY SitePostIs
<1>3. NewestArchived' = NewestArchived
  BY <1>2, PeakStays
<1>4. /\ \A t : Top(log, t) \in Nat /\ Top(log, t) <= L
      /\ job.after \in Nat /\ job.version \in Nat /\ job.newest \in Nat
      /\ job.version <= L /\ job.newest <= L
      /\ cursor.after \in Nat /\ cursor.since \in Nat /\ cursor.since <= L
      /\ NewestArchived \in Nat /\ NewestArchived <= L /\ cursor.after <= L
      /\ \A e \in job.todo : e[1] \in Topics /\ e[2] \in Nat /\ e[2] <= L
      /\ \A t \in Topics : rec[t].bumped \in Nat /\ rec[t].bumped <= L
  BY <1>1, RepoTypes, TopsType DEF RepoPlace
<1>5. \A t \in Topics : t # x /\ UpToDate(t) => UpToDate(t)'
  BY <1>2 DEF UpToDate
<1>6. RepoPlace'
  BY <1>1, <1>2, <1>3, <1>4 DEF RepoPlace
<1>7. RepoTimes'
  BY SMTT(30), <1>1, <1>2, <1>4 DEF RepoTimes
<1>8. RepoMoved'
  <2> SUFFICES ASSUME NEW e \in job.todo, Top(log', e[1]) # e[2]
               PROVE  /\ Top(log', e[1]) > NewestArchived /\ Top(log', e[1]) > cursor.after
                      /\ job.mode = "backfill" => Top(log', e[1]) > job.after
                      /\ \A f \in job.todo : Top(log', e[1]) > f[2]
    BY <1>2, <1>3 DEF RepoMoved
  <2>1. CASE e[1] = x
    <3>1. job.mode = "backfill" => job.after <= L
      BY <1>1 DEF RepoWalk
    <3> QED
      BY <1>2, <1>4, <2>1, <3>1
  <2>2. CASE e[1] # x
    BY <1>1, <1>2, <2>2 DEF RepoMoved
  <2> QED
    BY <2>1, <2>2
<1>9. BehindAfter' /\ BehindSince' /\ BehindNewest'
  <2>1. BehindAfter'
    BY <1>1, <1>2, <1>4, <1>5 DEF BehindAfter
  <2>2. BehindSince'
    BY <1>1, <1>2, <1>4, <1>5 DEF BehindSince
  <2>3. BehindNewest'
    <3> SUFFICES ASSUME cursor.since = 0, job.mode # "update", NEW t \in Topics,
                        Top(log', t) <= NewestArchived
                 PROVE  UpToDate(t)'
      BY <1>2, <1>3 DEF BehindNewest
    <3>1. t # x /\ Top(log, t) <= NewestArchived
      BY <1>2, <1>4
    <3> QED
      BY <1>1, <1>5, <3>1 DEF BehindNewest
  <2> QED
    BY <2>1, <2>2, <2>3
<1>10. RepoWalk'
  <2> SUFFICES ASSUME job.mode = "backfill" PROVE RepoWalk'
    BY <1>2 DEF RepoWalk
  <2>1. /\ job.after <= L
        /\ job.pc = "list" => job.after = cursor.after
        /\ job.pc = "end" => cursor.since = 0
        /\ \A e \in job.todo : e[2] <= job.after
        /\ \A t \in Topics : Top(log, t) <= job.after
              => UpToDate(t) \/ <<t, Top(log, t)>> \in job.todo
    BY <1>1 DEF RepoWalk
  <2>2. job.after <= L + 1
    BY <1>4, <2>1
  <2>3. \A t \in Topics : Top(log', t) <= job.after
              => UpToDate(t)' \/ <<t, Top(log', t)>> \in job.todo
    BY <1>2, <1>4, <1>5, <2>1
  <2> QED
    BY <1>2, <2>1, <2>2, <2>3 DEF RepoWalk
<1>11. RepoPass'
  <2> SUFFICES ASSUME job.mode = "update" PROVE RepoPass'
    BY <1>2 DEF RepoPass
  <2>1. \A t \in Topics : t # x /\ Remaining(t) => Remaining(t)'
    BY <1>2 DEF Remaining
  <2>2. /\ job.version <= job.newest /\ job.newest <= NewestArchived
        /\ cursor.since <= job.version
        /\ cursor.since = 0 => NewestArchived <= job.newest
        /\ \A e \in job.todo : e[2] < job.after
        /\ \A t \in Topics : Top(log, t) <= job.version => UpToDate(t)
        /\ \A t \in Topics : Top(log, t) <= job.newest
                                \/ (\E e \in job.todo : Top(log, t) <= e[2])
              => UpToDate(t) \/ Remaining(t)
    BY <1>1 DEF RepoPass
  <2>3. \A t \in Topics : Top(log', t) <= job.version => UpToDate(t)'
    BY <1>2, <1>4, <1>5, <2>2
  <2>4. \A t \in Topics : Top(log', t) <= job.newest
                             \/ (\E e \in job.todo : Top(log', t) <= e[2])
              => UpToDate(t)' \/ Remaining(t)'
    BY SMTT(30), <1>2, <1>4, <1>5, <2>1, <2>2
  <2> QED
    BY <1>2, <1>3, <2>2, <2>3, <2>4 DEF RepoPass
<1> QED
  BY <1>6, <1>7, <1>8, <1>9, <1>10, <1>11 DEF RepoInv

\* Steps that leave log and archive alone
LEMMA StaysUpToDate ==
  ASSUME log' = log, rec' = rec, excused \subseteq excused', NEW t \in Topics, UpToDate(t)
  PROVE  UpToDate(t)'
  BY DEF UpToDate

LEMMA FreshlyListed ==
  ASSUME Shapes, Sound, RepoTimes, log' = log, rec' = rec,
         \A e \in job'.todo : e[1] \in Topics /\ e[2] = Top(log, e[1]) /\ e[2] > 0
  PROVE  RepoTimes' /\ RepoMoved'
<1>1. \A e \in job'.todo : rec[e[1]].bumped <= e[2] /\ e[2] > 0 /\ log[e[2]] = e[1]
  BY RepoTypes, TopsType DEF Sound, RecSound
<1>2. RepoTimes'
  BY <1>1 DEF RepoTimes
<1>3. RepoMoved'
  BY DEF RepoMoved
<1> QED
  BY <1>2, <1>3

\* With the overtaken topics given up, nothing is stale behind the newest date.
LEMMA OvertakenAreExcused ==
  ASSUME Shapes, Sound, RepoTimes, log' = log, rec' = rec, Overtaken \subseteq excused',
         NEW t \in Topics, Top(log, t) <= NewestArchived
  PROVE  UpToDate(t)'
<1>1. /\ Top(log, t) \in Nat /\ rec[t].bumped \in Nat /\ rec[t].bumped <= Top(log, t)
      /\ Top(log, t) # 0 => log[Top(log, t)] = t
      /\ NewestArchived \in Nat
      /\ NewestArchived = 0 \/ \E u \in Topics : NewestArchived = rec[u].bumped
  BY RepoTypes, TopsType, ArchivedType DEF Sound, RecSound, Shapes
<1>2. CASE rec[t].bumped = Top(log, t)
  BY <1>2 DEF UpToDate
<1>3. CASE rec[t].bumped < Top(log, t) /\ Top(log, t) < NewestArchived
  BY <1>3, BumpIs DEF Overtaken, UpToDate
<1>4. CASE rec[t].bumped < Top(log, t) /\ Top(log, t) = NewestArchived
  <2>1. PICK u \in Topics : NewestArchived = rec[u].bumped
    BY <1>1, <1>4
  <2>2. log[rec[u].bumped] = u
    BY <1>1, <1>4, <2>1 DEF RepoTimes
  <2>3. u = t
    BY <1>1, <1>4, <2>1, <2>2
  <2> QED
    BY <1>1, <1>4, <2>1, <2>3
<1> QED
  BY <1>1, <1>2, <1>3, <1>4

\* A pass that ends leaves a place and a watermark.
LEMMA PassEnds ==
  ASSUME Shapes, Sound, RepoTimes, Starts({}), log' = log, rec' = rec,
         cursor'.since = 0 \/ cursor'.after = 0,
         cursor'.since <= NewestArchived, cursor'.after <= Len(log)
  PROVE  RepoPlace' /\ RepoTimes' /\ RepoMoved' /\ RepoWalk' /\ RepoPass'
<1>1. job'.mode = "idle" /\ job'.pc = "idle" /\ job'.todo = {}
  BY IdleType DEF Starts, Fields
<1>2. NewestArchived' = NewestArchived
  BY PeakStays
<1> QED
  BY <1>1, <1>2, FreshlyListed DEF RepoPlace, RepoWalk, RepoPass

LEMMA LoseRepo ==
  ASSUME Shapes, Sound, RepoInv, kind = "github", Lose
  PROVE  RepoInv'
<1>1. /\ RepoPlace /\ RepoTimes /\ BehindAfter /\ BehindSince /\ BehindNewest
  BY DEF RepoInv
<1>2. /\ Starts({}) /\ log' = log /\ rec' = rec /\ cursor' = cursor
      /\ excused' = excused \cup CutOff \cup Unstored
      /\ job'.mode = "idle" /\ NewestArchived' = NewestArchived
  BY LoseIs, IdleType, PeakStays DEF Starts, Fields
<1>3. RepoPlace' /\ RepoTimes' /\ RepoMoved' /\ RepoWalk' /\ RepoPass'
  BY <1>1, <1>2, PassEnds DEF RepoPlace
<1>4. BehindAfter' /\ BehindSince'
  BY <1>1, <1>2, StaysUpToDate DEF BehindAfter, BehindSince
<1>5. BehindNewest'
  <2> SUFFICES ASSUME cursor.since = 0, NEW t \in Topics, Top(log, t) <= NewestArchived
               PROVE  UpToDate(t)'
    BY <1>2 DEF BehindNewest
  <2>1. CASE job.mode = "update"
    <3>1. Overtaken \subseteq excused'
      BY <1>2, <2>1 DEF CutOff
    <3> QED
      BY <1>1, <1>2, <3>1, OvertakenAreExcused
  <2>2. CASE job.mode # "update"
    BY <1>1, <1>2, <2>2, StaysUpToDate DEF BehindNewest
  <2> QED
    BY <2>1, <2>2
<1> QED
  BY <1>3, <1>4, <1>5 DEF RepoInv

\* RepoStop, EndRepo, EndRepoUpdate
LEMMA EndsRepo ==
  ASSUME Shapes, Sound, RepoInv, kind = "github", RepoStop \/ EndRepo \/ EndRepoUpdate
  PROVE  RepoInv'
<1>1. /\ RepoPlace /\ RepoTimes /\ BehindAfter /\ BehindSince /\ BehindNewest
      /\ RepoWalk /\ RepoPass
  BY DEF RepoInv
<1>2. /\ Starts({}) /\ log' = log /\ rec' = rec /\ excused \subseteq excused'
      /\ job'.mode = "idle" /\ NewestArchived' = NewestArchived
  <2>1. Starts({}) /\ log' = log /\ rec' = rec /\ excused \subseteq excused'
    BY RepoStopIs, EndRepoIs, EndRepoUpdateIs
  <2> QED
    BY <2>1, IdleType, PeakStays DEF Starts, Fields
<1>3. /\ NewestArchived \in Nat /\ cursor.after \in Nat /\ cursor.since \in Nat
      /\ job.version \in Nat /\ job.newest \in Nat /\ Len(log) \in Nat
      /\ \A t : Top(log, t) \in Nat
  BY RepoTypes, TopsType
<1>4. \A t \in Topics : Top(log, t) <= 0 => UpToDate(t)'
  BY <1>2, <1>3, NoneIsUpToDate, StaysUpToDate
<1>5. CASE RepoStop
  <2>1. cursor'.after = cursor.after /\ cursor'.since = 0 /\ Overtaken \subseteq excused'
    BY <1>5, RepoStopIs DEF NoCursor
  <2>2. RepoPlace' /\ RepoTimes' /\ RepoMoved' /\ RepoWalk' /\ RepoPass'
    BY <1>1, <1>2, <1>3, <2>1, PassEnds DEF RepoPlace
  <2>3. BehindAfter' /\ BehindSince'
    BY <1>1, <1>2, <1>4, <2>1, StaysUpToDate DEF BehindAfter, BehindSince
  <2>4. BehindNewest'
    BY <1>1, <1>2, <2>1, OvertakenAreExcused DEF BehindNewest
  <2> QED
    BY <2>2, <2>3, <2>4 DEF RepoInv
<1>6. CASE EndRepo
  <2>1. cursor'.after = 0 /\ cursor'.since = 0 /\ job.mode = "backfill" /\ job.pc = "end"
    BY <1>6, EndRepoIs, IdleType
  <2>2. RepoPlace' /\ RepoTimes' /\ RepoMoved' /\ RepoWalk' /\ RepoPass'
    BY <1>1, <1>2, <1>3, <2>1, PassEnds
  <2>3. BehindAfter' /\ BehindSince'
    BY <1>2, <1>4, <2>1 DEF BehindAfter, BehindSince
  <2>4. BehindNewest'
    <3>1. cursor.since = 0
      BY <1>1, <2>1 DEF RepoWalk
    <3> QED
      BY <1>1, <1>2, <2>1, <3>1, StaysUpToDate DEF BehindNewest
  <2> QED
    BY <2>2, <2>3, <2>4 DEF RepoInv
<1>7. CASE EndRepoUpdate
  <2>1. /\ cursor'.after = 0 /\ cursor'.since = job.newest
        /\ job.mode = "update" /\ job.pc = "end" /\ job.todo = {}
    BY <1>1, <1>7, EndRepoUpdateIs DEF NoCursor, RepoPlace
  <2>2. /\ job.version <= job.newest /\ job.newest <= NewestArchived
        /\ cursor.since <= job.version
        /\ cursor.since = 0 => NewestArchived <= job.newest
        /\ \A t \in Topics : Top(log, t) <= job.newest => UpToDate(t) \/ Remaining(t)
    BY <1>1, <2>1 DEF RepoPass
  <2>3. RepoPlace' /\ RepoTimes' /\ RepoMoved' /\ RepoWalk' /\ RepoPass'
    BY <1>1, <1>2, <1>3, <2>1, <2>2, PassEnds
  <2>4. BehindAfter'
    BY <1>2, <1>4, <2>1 DEF BehindAfter
  <2>5. BehindSince'
    <3>1. \A t : ~Remaining(t)
      BY <2>1 DEF Remaining
    <3> QED
      BY <1>2, <2>1, <2>2, <3>1, StaysUpToDate DEF BehindSince
  <2>6. BehindNewest'
    <3> SUFFICES ASSUME job.newest = 0 PROVE \A t \in Topics : Top(log, t) <= NewestArchived
                                                                  => UpToDate(t)'
      BY <1>2, <2>1 DEF BehindNewest
    <3>1. NewestArchived = 0
      BY <1>3, <2>2
    <3> QED
      BY <1>4, <3>1
  <2> QED
    BY <2>3, <2>4, <2>5, <2>6 DEF RepoInv
<1> QED
  BY <1>5, <1>6, <1>7

\* BeginRepo, BeginRepoUpdate
LEMMA BeginsRepo ==
  ASSUME Shapes, Sound, RepoInv, kind = "github", BeginRepo \/ BeginRepoUpdate
  PROVE  RepoInv'
<1>1. /\ RepoPlace /\ RepoTimes /\ BehindAfter /\ BehindSince /\ BehindNewest
  BY DEF RepoInv
<1>2. /\ log' = log /\ rec' = rec /\ excused' = excused /\ cursor' = cursor
      /\ job.mode = "idle" /\ job'.todo = {} /\ job'.pc = "list"
      /\ job'.mode \in {"backfill", "update"} /\ NewestArchived' = NewestArchived
  <2>1. CASE BeginRepo
    BY <2>1, BeginRepoIs, IdleType, PeakStays DEF Starts, Fields
  <2>2. CASE BeginRepoUpdate
    BY <2>2, BeginRepoUpdateIs, IdleType, PeakStays DEF Starts, Fields
  <2> QED
    BY <2>1, <2>2
<1>3. /\ NewestArchived \in Nat /\ cursor.after \in Nat /\ cursor.since \in Nat
      /\ Len(log) \in Nat /\ \A t : Top(log, t) \in Nat
  BY RepoTypes, TopsType
<1>4. \A t \in Topics : UpToDate(t) => UpToDate(t)'
  BY <1>2, StaysUpToDate
<1>5. RepoPlace' /\ BehindAfter' /\ BehindSince' /\ BehindNewest'
  <2>1. RepoPlace'
    BY <1>1, <1>2 DEF RepoPlace
  <2>2. BehindAfter' /\ BehindSince'
    BY <1>1, <1>2, <1>4 DEF BehindAfter, BehindSince
  <2>3. BehindNewest'
    BY <1>1, <1>2, <1>4 DEF BehindNewest
  <2> QED
    BY <2>1, <2>2, <2>3
<1>6. RepoTimes' /\ RepoMoved'
  BY <1>1, <1>2, FreshlyListed
<1>7. CASE BeginRepo
  <2>1. job'.mode = "backfill" /\ job'.after = cursor.after
    BY <1>7, BeginRepoIs
  <2>2. RepoWalk'
    BY <1>1, <1>2, <1>4, <2>1 DEF RepoWalk, RepoPlace, BehindAfter
  <2>3. RepoPass'
    BY <2>1 DEF RepoPass
  <2> QED
    BY <1>5, <1>6, <2>2, <2>3 DEF RepoInv
<1>8. CASE BeginRepoUpdate
  <2>1. job'.mode = "update" /\ job'.version = Since /\ job'.newest = Since
    BY <1>8, BeginRepoUpdateIs
  <2>2. /\ Since \in {cursor.since, NewestArchived} /\ Since \in Nat
        /\ Since <= NewestArchived /\ cursor.since <= Since
        /\ cursor.since = 0 => Since = NewestArchived
    BY <1>1, <1>3 DEF Since, RepoPlace
  <2>3. \A t \in Topics : Top(log, t) <= Since => UpToDate(t)'
    BY <1>1, <1>2, <1>4, <2>2 DEF BehindSince, BehindNewest, Since
  <2>4. RepoPass'
    BY <1>2, <1>3, <2>1, <2>2, <2>3 DEF RepoPass
  <2>5. RepoWalk'
    BY <2>1 DEF RepoWalk
  <2> QED
    BY <1>5, <1>6, <2>4, <2>5 DEF RepoInv
<1> QED
  BY <1>7, <1>8

LEMMA RepoPageKeeps ==
  ASSUME Shapes, Sound, RepoInv, kind = "github", RepoPage
  PROVE  RepoInv'
<1> DEFINE page == Above(job.after)
<1>1. /\ RepoPlace /\ RepoTimes /\ BehindAfter /\ BehindSince /\ BehindNewest /\ RepoWalk
  BY DEF RepoInv
<1>2. /\ log' = log /\ rec' = rec /\ excused' = excused /\ cursor' = cursor
      /\ job.mode = "backfill" /\ job.pc = "list" /\ job.todo = {}
      /\ job'.mode = "backfill" /\ NewestArchived' = NewestArchived
  <2>1. /\ log' = log /\ rec' = rec /\ excused' = excused /\ cursor' = cursor
        /\ job.mode = "backfill" /\ job.pc = "list" /\ job'.mode = job.mode
    BY RepoPageIs DEF Sets, Fields
  <2> QED
    BY <1>1, <2>1, PeakStays DEF RepoPlace
<1>3. /\ NewestArchived \in Nat /\ cursor.after \in Nat /\ cursor.since \in Nat
      /\ job.after \in Nat /\ Len(log) \in Nat
      /\ \A t : Top(log, t) \in Nat /\ Top(log, t) <= Len(log)
      /\ \A t \in Topics : rec[t].bumped \in Nat /\ rec[t].bumped <= Top(log, t)
  BY RepoTypes, TopsType DEF Sound, RecSound
<1>4. \A t \in Topics : UpToDate(t) => UpToDate(t)'
  BY <1>2, StaysUpToDate
<1>5. BehindAfter' /\ BehindSince' /\ BehindNewest'
  BY <1>1, <1>2, <1>4 DEF BehindAfter, BehindSince, BehindNewest
<1>6. job.after <= Len(log) /\ job.after = cursor.after
      /\ \A t \in Topics : Top(log, t) <= job.after => UpToDate(t)
  BY <1>1, <1>2 DEF RepoWalk
<1>7. RepoPass'
  BY <1>2 DEF RepoPass
<1>8. CASE page = {} /\ Sets({"pc"}) /\ job'.pc = "end"
  <2>1. job'.todo = {} /\ job'.after = job.after
    BY <1>2, <1>8 DEF Sets, Fields
  <2>2. cursor.since = 0
    <3> SUFFICES ASSUME cursor.since # 0 PROVE FALSE
      OBVIOUS
    <3>1. job.after = 0 /\ NewestArchived # 0
      BY <1>1, <1>3, <1>6 DEF RepoPlace
    <3>2. PICK t \in Topics : NewestArchived = rec[t].bumped
      BY <3>1, ArchivedType DEF Shapes
    <3>3. Top(log, t) > job.after
      BY <1>3, <3>1, <3>2
    <3> QED
      BY <1>3, <1>8, <3>3, AboveIs DEF Shapes
  <2>3. RepoPlace' /\ RepoTimes' /\ RepoMoved'
    BY <1>1, <1>2, <1>8, <2>1, FreshlyListed DEF RepoPlace
  <2>4. RepoWalk'
    BY <1>2, <1>4, <1>6, <1>8, <2>1, <2>2 DEF RepoWalk
  <2> QED
    BY <1>5, <1>7, <2>3, <2>4 DEF RepoInv
<1>9. CASE /\ Sets({"pc", "todo", "after", "more"})
           /\ job'.pc = "item" /\ job'.todo = Listed(page)
           /\ job'.after <= Len(log)
           /\ \A e \in job'.todo : e[2] <= job'.after
           /\ \E e \in job'.todo : e[2] = job'.after
  <2>1. page \subseteq Topics /\ \A t \in page : Top(log, t) > job.after
    BY <1>3, AboveIs DEF Shapes
  <2>2. /\ \A e \in job'.todo : e[1] \in page /\ e[2] = Top(log, e[1]) /\ e[2] > 0
        /\ \A t \in page : <<t, Top(log, t)>> \in job'.todo
    BY <1>3, <1>9, <2>1, BumpIs, ListedType DEF Shapes
  <2>3. RepoPlace' /\ RepoTimes' /\ RepoMoved'
    BY <1>1, <1>2, <1>9, <2>1, <2>2, FreshlyListed DEF RepoPlace
  <2>4. job'.after \in Nat
    BY <1>9 DEF Sets, Jobs
  <2>5. ASSUME NEW t \in Topics, Top(log, t) <= job'.after
        PROVE  UpToDate(t)' \/ <<t, Top(log, t)>> \in job'.todo
    <3>1. CASE Top(log, t) <= job.after
      BY <1>4, <1>6, <3>1
    <3>2. CASE Top(log, t) > job.after
      <4>1. PICK e \in job'.todo : e[2] = job'.after
        BY <1>9
      <4>2. e[1] \in page /\ Top(log, t) <= Top(log, e[1])
        BY <2>2, <2>5, <4>1
      <4>3. t \in page
        BY <1>3, <3>2, <4>2, AboveIs DEF Shapes
      <4> QED
        BY <2>2, <4>3
    <3> QED
      BY <1>3, <3>1, <3>2
  <2>6. RepoWalk'
    BY <1>2, <1>9, <2>5 DEF RepoWalk
  <2> QED
    BY <1>5, <1>7, <2>3, <2>6 DEF RepoInv
<1> QED
  BY <1>8, <1>9, RepoPageIs

LEMMA RepoPageDoneKeeps ==
  ASSUME Shapes, Sound, RepoInv, kind = "github", RepoPageDone
  PROVE  RepoInv'
<1>1. /\ RepoPlace /\ RepoTimes /\ RepoWalk
  BY DEF RepoInv
<1>2. /\ job.mode = "backfill" /\ job.todo = {} /\ Sets({"pc"})
      /\ job'.pc \in {"list", "end"} /\ job'.mode = "backfill"
      /\ log' = log /\ rec' = rec /\ excused' = excused \cup Overtaken
      /\ cursor' = [NoCursor EXCEPT !.after = job.after]
      /\ job'.todo = {} /\ job'.after = job.after /\ NewestArchived' = NewestArchived
  BY RepoPageDoneIs, PeakStays DEF Sets, Fields
<1>3. cursor'.after = job.after /\ cursor'.since = 0
  BY <1>2 DEF NoCursor
<1>4. /\ job.after \in Nat /\ NewestArchived \in Nat /\ \A t : Top(log, t) \in Nat
  BY RepoTypes, TopsType
<1>5. \A t \in Topics : UpToDate(t) => UpToDate(t)'
  BY <1>2, StaysUpToDate
<1>6. job.after <= Len(log) /\ \A t \in Topics : Top(log, t) <= job.after => UpToDate(t)
  BY <1>1, <1>2 DEF RepoWalk
<1>7. RepoPlace' /\ RepoTimes' /\ RepoMoved'
  BY <1>1, <1>2, <1>3, <1>4, <1>6, FreshlyListed DEF RepoPlace
<1>8. BehindAfter'
  BY <1>2, <1>3, <1>5, <1>6 DEF BehindAfter
<1>9. BehindSince'
  BY <1>2, <1>3, <1>4, <1>5, NoneIsUpToDate DEF BehindSince
<1>10. BehindNewest'
  BY <1>1, <1>2, OvertakenAreExcused DEF BehindNewest
<1>11. RepoWalk' /\ RepoPass'
  BY <1>2, <1>3, <1>5, <1>6 DEF RepoWalk, RepoPass
<1> QED
  BY <1>7, <1>8, <1>9, <1>10, <1>11 DEF RepoInv

\* A topic off the list into the archive: it is up to date now, or moved past
\* whatever the passes know, and so are those that stay listed.
LEMMA ItemKeeps ==
  ASSUME Shapes, Sound, RepoInv, kind = "github", NEW e \in job.todo, Upsert(e[1], e[2]),
         log' = log, cursor' = cursor, job'.todo = job.todo \ {e}
  PROVE  /\ RepoTimes' /\ BehindAfter' /\ BehindSince'
         /\ \A t \in Topics : t # e[1] /\ UpToDate(t) => UpToDate(t)'
         /\ Top(log, e[1]) = e[2] => UpToDate(e[1])'
         /\ \A f \in job.todo : f[1] = e[1] => f = e
         /\ NewestArchived' \in {NewestArchived, e[2]} /\ NewestArchived' \in Nat
         /\ NewestArchived <= NewestArchived' /\ e[2] <= NewestArchived'
         /\ \A f \in job.todo : Top(log, f[1]) # f[2] =>
               /\ Top(log, f[1]) > NewestArchived' /\ Top(log, f[1]) > cursor.after
               /\ \A g \in job.todo : Top(log, f[1]) > g[2]
<1>1. /\ RepoPlace /\ RepoTimes /\ RepoMoved /\ BehindAfter /\ BehindSince
      /\ \A f \in job.todo : f[1] = e[1] => f = e
  BY DEF RepoInv, Sound, TodoSound
<1>2. /\ e[1] \in Topics /\ e[2] \in Nat /\ e[2] <= Len(log)
      /\ Len(log) \in Nat /\ NewestArchived \in Nat
      /\ cursor.after \in Nat /\ cursor.since \in Nat
      /\ \A f \in job.todo : f[1] \in Topics /\ f[2] \in Nat
      /\ \A t : Top(log, t) \in Nat
      /\ \A t \in Topics : rec[t].bumped \in Nat /\ rec[t].bumped <= Len(log)
  BY RepoTypes, TopsType
<1>3. /\ rec \in [Topics -> Recs] /\ rec' \in [Topics -> Recs]
      /\ \A t \in Topics \ {e[1]} : rec'[t] = rec[t]
      /\ rec'[e[1]].bumped = e[2] /\ excused' = excused \ {e[1]}
  BY <1>2, UpsertIs DEF Shapes, RowShape
<1>4. rec[e[1]].bumped <= e[2] /\ e[2] > 0 /\ log[e[2]] = e[1]
  BY <1>1 DEF RepoTimes
<1>5. /\ NewestArchived' \in {NewestArchived, e[2]} /\ NewestArchived' \in Nat
      /\ NewestArchived <= NewestArchived' /\ e[2] <= NewestArchived'
  <2>1. \A t \in Topics : rec[t].bumped <= Len(log) /\ rec'[t].bumped <= Len(log)
    BY <1>2, <1>3
  <2> QED
    <3> DEFINE q == rec'
    <3>1. q \in [Topics -> Recs] /\ \A t \in Topics \ {e[1]} : q[t] = rec[t]
      BY <1>3
    <3>2. rec[e[1]].bumped <= q[e[1]].bumped /\ q[e[1]].bumped = e[2]
      BY <1>3, <1>4
    <3>3. \A t \in Topics : rec[t].bumped <= Len(log) /\ q[t].bumped <= Len(log)
      BY <2>1
    <3>4. NewestArchived = Peak(rec) /\ NewestArchived' = Peak(q)
      BY PeakIs, PeakStays
    <3> HIDE DEF q
    <3>5. /\ Peak(q) \in {Peak(rec), q[e[1]].bumped} /\ Peak(q) \in Nat
          /\ Peak(rec) <= Peak(q) /\ q[e[1]].bumped <= Peak(q)
      BY SMTT(30), <1>2, <1>3, <3>1, <3>2, <3>3, PeakGrows
    <3> QED
      BY <3>2, <3>4, <3>5
<1>6. /\ \A t \in Topics : t # e[1] /\ UpToDate(t) => UpToDate(t)'
      /\ Top(log, e[1]) = e[2] => UpToDate(e[1])'
  BY <1>3 DEF UpToDate
<1>7. \A f \in job.todo : Top(log, f[1]) # f[2] =>
         /\ Top(log, f[1]) > NewestArchived' /\ Top(log, f[1]) > cursor.after
         /\ \A g \in job.todo : Top(log, f[1]) > g[2]
  BY <1>1, <1>5 DEF RepoMoved
<1>8. RepoTimes'
  <2>1. \A t \in Topics : rec'[t].bumped # 0 => log[rec'[t].bumped] = t
    BY <1>1, <1>3, <1>4 DEF RepoTimes
  <2>2. \A f \in job'.todo : rec'[f[1]].bumped <= f[2] /\ f[2] > 0 /\ log[f[2]] = f[1]
    BY <1>1, <1>2, <1>3 DEF RepoTimes
  <2> QED
    BY <2>1, <2>2 DEF RepoTimes
<1>9. BehindAfter'
  BY <1>1, <1>2, <1>6, <1>7 DEF BehindAfter
<1>10. BehindSince'
  <2>1. cursor.since <= NewestArchived'
    BY <1>1, <1>2, <1>5 DEF RepoPlace
  <2> QED
    BY <1>1, <1>2, <1>5, <1>6, <1>7, <2>1 DEF BehindSince
<1> QED
  BY <1>1, <1>5, <1>6, <1>7, <1>8, <1>9, <1>10

LEMMA RepoItemKeeps ==
  ASSUME Shapes, Sound, RepoInv, kind = "github", RepoItem
  PROVE  RepoInv'
<1>1. /\ RepoPlace /\ RepoTimes /\ RepoMoved /\ BehindNewest /\ RepoWalk
  BY DEF RepoInv
<1>2. PICK e \in job.todo :
           /\ e \in Topics \X Nat /\ job.mode = "backfill" /\ job.pc = "item"
           /\ \A f \in job.todo : e[2] <= f[2]
           /\ Upsert(e[1], e[2])
           /\ Sets({"todo"}) /\ job'.todo = job.todo \ {e}
           /\ UNCHANGED <<kind, log, etags, validator, done, cursor, mark, faults, base,
                          promised>>
  BY RepoItemIs
<1>3. /\ log' = log /\ cursor' = cursor /\ job'.mode = "backfill" /\ job'.pc = "item"
      /\ job'.after = job.after
  BY <1>2 DEF Sets, Fields
<1>4. /\ RepoTimes' /\ BehindAfter' /\ BehindSince'
      /\ \A t \in Topics : t # e[1] /\ UpToDate(t) => UpToDate(t)'
      /\ Top(log, e[1]) = e[2] => UpToDate(e[1])'
      /\ \A f \in job.todo : f[1] = e[1] => f = e
      /\ NewestArchived' \in {NewestArchived, e[2]} /\ NewestArchived' \in Nat
      /\ NewestArchived <= NewestArchived' /\ e[2] <= NewestArchived'
      /\ \A f \in job.todo : Top(log, f[1]) # f[2] =>
               /\ Top(log, f[1]) > NewestArchived' /\ Top(log, f[1]) > cursor.after
               /\ \A g \in job.todo : Top(log, f[1]) > g[2]
  BY <1>2, <1>3, ItemKeeps
<1>5. /\ e[1] \in Topics /\ e[2] \in Nat /\ NewestArchived \in Nat /\ job.after \in Nat
      /\ cursor.since \in Nat /\ Len(log) \in Nat
      /\ \A f \in job.todo : f[1] \in Topics /\ f[2] \in Nat
      /\ \A t : Top(log, t) \in Nat /\ (Top(log, t) # 0 => log[Top(log, t)] = t)
  BY RepoTypes, TopsType
<1>6. /\ job.after <= Len(log)
      /\ \A f \in job.todo : f[2] <= job.after
      /\ \A t \in Topics : Top(log, t) <= job.after
            => UpToDate(t) \/ <<t, Top(log, t)>> \in job.todo
  BY <1>1, <1>2 DEF RepoWalk
<1>7. \A f \in job.todo : Top(log, f[1]) # f[2] => Top(log, f[1]) > job.after
  BY <1>1, <1>2 DEF RepoMoved
<1>8. RepoPlace'
  BY <1>1, <1>3, <1>4, <1>5 DEF RepoPlace
<1>9. RepoMoved'
  BY <1>2, <1>3, <1>4, <1>7 DEF RepoMoved
<1>10. ASSUME NEW t \in Topics, Top(log, t) <= job.after
       PROVE  UpToDate(t)' \/ <<t, Top(log, t)>> \in job'.todo
  <2>1. CASE t = e[1]
    BY <1>2, <1>4, <1>5, <1>7, <1>10, <2>1
  <2>2. CASE t # e[1]
    <3>1. <<t, Top(log, t)>> # e
      BY <2>2
    <3> QED
      BY <1>2, <1>4, <1>6, <1>10, <2>2, <3>1
  <2> QED
    BY <2>1, <2>2
<1>11. RepoWalk' /\ RepoPass'
  <2>1. RepoPass'
    BY <1>3 DEF RepoPass
  <2>2. RepoWalk'
    BY <1>2, <1>3, <1>6, <1>10 DEF RepoWalk
  <2> QED
    BY <2>1, <2>2
<1>12. BehindNewest'
  <2> SUFFICES ASSUME cursor.since = 0, NEW t \in Topics, Top(log, t) <= NewestArchived'
               PROVE  UpToDate(t)'
    BY <1>3 DEF BehindNewest
  <2>1. CASE t = e[1]
    BY <1>2, <1>4, <1>5, <2>1
  <2>2. CASE t # e[1] /\ Top(log, t) <= NewestArchived
    BY <1>1, <1>2, <1>4, <2>2 DEF BehindNewest
  <2>3. CASE t # e[1] /\ Top(log, t) <= e[2]
    <3>1. Top(log, t) <= job.after
      BY <1>5, <1>6, <2>3
    <3>2. CASE <<t, Top(log, t)>> \in job.todo
      <4>1. e[2] <= Top(log, t)
        BY <1>2, <3>2
      <4>2. Top(log, t) = e[2] /\ e[2] > 0 /\ log[e[2]] = e[1]
        BY <1>1, <1>5, <2>3, <4>1 DEF RepoTimes
      <4> QED
        BY <1>5, <2>3, <4>2
    <3> QED
      BY <1>4, <1>6, <2>3, <3>1, <3>2
  <2> QED
    BY <1>4, <2>1, <2>2, <2>3
<1> QED
  BY <1>4, <1>8, <1>9, <1>11, <1>12 DEF RepoInv

LEMMA NewestPageKeeps ==
  ASSUME Shapes, Sound, RepoInv, kind = "github", NewestPage
  PROVE  RepoInv'
<1> DEFINE page == Below(job.after)
<1>1. /\ RepoPlace /\ RepoTimes /\ BehindAfter /\ BehindSince /\ RepoPass
  BY DEF RepoInv
<1>2. /\ log' = log /\ rec' = rec /\ excused' = excused /\ cursor' = cursor
      /\ job.mode = "update" /\ job'.mode = "update" /\ job.todo = {} /\ job.pc = "list"
      /\ job'.pc = (IF page = {} THEN "end" ELSE "item") /\ job'.todo = Listed(page)
      /\ job'.more = (\E t \in Topics : Exists(t) /\ t \notin page /\ Bump(t) < job.after)
      /\ job'.after = job.after /\ job'.version = job.version /\ job'.newest = job.newest
      /\ NewestArchived' = NewestArchived
  <2>1. /\ log' = log /\ rec' = rec /\ excused' = excused /\ cursor' = cursor
        /\ job.mode = "update" /\ job'.mode = job.mode /\ job.pc = "list"
        /\ job'.after = job.after /\ job'.version = job.version /\ job'.newest = job.newest
    BY NewestPageIs DEF Sets, Fields
  <2> QED
    BY <1>1, <2>1, NewestPageIs, PeakStays DEF RepoPlace
<1>3. /\ job.after \in Nat /\ job.version \in Nat /\ job.newest \in Nat
      /\ \A t : Top(log, t) \in Nat /\ Bump(t) = Top(log, t)
  BY RepoTypes, TopsType, BumpIs
<1>4. \A t \in Topics : UpToDate(t) => UpToDate(t)'
  BY <1>2, StaysUpToDate
<1>5. /\ page \subseteq Topics /\ \A t \in page : 0 < Top(log, t) /\ Top(log, t) < job.after
      /\ \A t \in Topics : \A u \in page :
            Top(log, t) < job.after /\ Top(log, u) <= Top(log, t) => t \in page
      /\ \A t \in Topics : 0 < Top(log, t) /\ Top(log, t) < job.after => page # {}
  BY <1>3, BelowIs DEF Shapes
<1>6. /\ \A e \in job'.todo : e[1] \in page /\ e[2] = Top(log, e[1]) /\ e[2] > 0
      /\ \A t \in page : <<t, Top(log, t)>> \in job'.todo
  BY <1>2, <1>3, <1>5, ListedType DEF Shapes
<1>7. page = {} => job'.todo = {}
  BY <1>6
<1>8. RepoPlace' /\ RepoTimes' /\ RepoMoved'
  BY <1>1, <1>2, <1>5, <1>6, <1>7, FreshlyListed DEF RepoPlace
<1>9. BehindAfter' /\ BehindSince' /\ BehindNewest' /\ RepoWalk'
  BY <1>1, <1>2, <1>4 DEF BehindAfter, BehindSince, BehindNewest, RepoWalk
<1>10. ASSUME NEW t \in Topics, ~UpToDate(t), Top(log, t) < job.after
       PROVE  Remaining(t)'
  <2>1. Top(log, t) > 0
    BY <1>3, <1>10, NoneIsUpToDate
  <2>2. CASE t \in page
    BY <1>2, <1>6, <2>2 DEF Remaining
  <2>3. CASE t \notin page
    <3>1. job'.more /\ job'.pc = "item"
      BY <1>2, <1>3, <1>5, <1>10, <2>1, <2>3 DEF Exists
    <3>2. \A e \in job'.todo : Top(log, t) < e[2]
      BY <1>3, <1>5, <1>6, <1>10, <2>3
    <3> QED
      BY <1>2, <1>10, <3>1, <3>2 DEF Remaining
  <2> QED
    BY <2>2, <2>3
<1>11. RepoPass'
  <2>1. /\ job.version <= job.newest /\ job.newest <= NewestArchived
        /\ cursor.since <= job.version
        /\ cursor.since = 0 => NewestArchived <= job.newest
        /\ \A t \in Topics : Top(log, t) <= job.version => UpToDate(t)
        /\ \A t \in Topics : Top(log, t) <= job.newest
              => UpToDate(t) \/ Top(log, t) < job.after
    BY <1>1, <1>2 DEF RepoPass, Remaining
  <2>2. \A e \in job'.todo : e[2] < job.after
    BY <1>5, <1>6
  <2>3. ASSUME NEW t \in Topics,
               Top(log, t) <= job.newest \/ \E e \in job'.todo : Top(log, t) <= e[2]
        PROVE  UpToDate(t)' \/ Remaining(t)'
    <3>1. UpToDate(t) \/ Top(log, t) < job.after
      BY <1>3, <1>5, <1>6, <2>1, <2>3
    <3> QED
      BY <1>4, <1>10, <3>1
  <2> QED
    BY <1>2, <1>4, <2>1, <2>2, <2>3 DEF RepoPass
<1> QED
  BY <1>8, <1>9, <1>11 DEF RepoInv

LEMMA NewestPageDoneKeeps ==
  ASSUME Shapes, Sound, RepoInv, kind = "github", NewestPageDone
  PROVE  RepoInv'
<1>1. /\ RepoPlace /\ RepoTimes /\ BehindAfter /\ BehindSince /\ RepoPass
  BY DEF RepoInv
<1>2. /\ job.mode = "update" /\ job.pc = "item" /\ job.todo = {} /\ Sets({"pc"})
      /\ job'.pc = (IF job.more THEN "list" ELSE "end")
      /\ job'.mode = "update" /\ job'.todo = {} /\ job'.after = job.after
      /\ job'.version = job.version /\ job'.newest = job.newest
      /\ log' = log /\ rec' = rec /\ excused' = excused /\ cursor' = cursor
      /\ NewestArchived' = NewestArchived
  BY NewestPageDoneIs, PeakStays DEF Sets, Fields
<1>3. \A t \in Topics : UpToDate(t) => UpToDate(t)'
  BY <1>2, StaysUpToDate
<1>4. \A t \in Topics : Remaining(t) => Remaining(t)'
  BY <1>2 DEF Remaining
<1>5. RepoPlace' /\ RepoTimes' /\ RepoMoved'
  BY <1>1, <1>2, FreshlyListed DEF RepoPlace
<1>6. BehindAfter' /\ BehindSince' /\ BehindNewest' /\ RepoWalk'
  BY <1>1, <1>2, <1>3 DEF BehindAfter, BehindSince, BehindNewest, RepoWalk
<1>7. RepoPass'
  BY <1>1, <1>2, <1>3, <1>4 DEF RepoPass
<1> QED
  BY <1>5, <1>6, <1>7 DEF RepoInv

LEMMA NewestItemKeeps ==
  ASSUME Shapes, Sound, RepoInv, kind = "github", NewestItem
  PROVE  RepoInv'
<1>1. /\ RepoPlace /\ RepoTimes /\ RepoMoved /\ BehindAfter /\ BehindSince /\ RepoPass
  BY DEF RepoInv
<1>2. PICK e \in job.todo :
         /\ e \in Topics \X Nat /\ job.mode = "update" /\ job.pc = "item"
         /\ \A f \in job.todo : f[2] <= e[2]
         /\ \/ /\ e[2] <= job.version
               /\ Sets({"pc", "todo"}) /\ job'.pc = "end" /\ job'.todo = {}
               /\ rec' = rec /\ excused' = excused
            \/ /\ e[2] > job.version
               /\ Upsert(e[1], e[2])
               /\ Sets({"todo", "newest", "after"})
               /\ job'.todo = job.todo \ {e} /\ job'.after = e[2]
               /\ job'.newest = Later(job.newest, e[2])
         /\ UNCHANGED <<kind, log, etags, validator, done, cursor, mark, faults, base,
                        promised>>
  BY NewestItemIs
<1>3. log' = log /\ cursor' = cursor
  BY <1>2
<1>4. /\ e[1] \in Topics /\ e[2] \in Nat /\ NewestArchived \in Nat /\ job.after \in Nat
      /\ job.version \in Nat /\ job.newest \in Nat /\ cursor.since \in Nat
      /\ Len(log) \in Nat /\ job.more \in BOOLEAN
      /\ \A f \in job.todo : f[1] \in Topics /\ f[2] \in Nat
      /\ \A t : Top(log, t) \in Nat /\ (Top(log, t) # 0 => log[Top(log, t)] = t)
  BY RepoTypes, TopsType
<1>5. /\ job.version <= job.newest /\ job.newest <= NewestArchived
      /\ cursor.since <= job.version
      /\ cursor.since = 0 => NewestArchived <= job.newest
      /\ \A f \in job.todo : f[2] < job.after
      /\ \A t \in Topics : Top(log, t) <= job.version => UpToDate(t)
      /\ \A t \in Topics : Top(log, t) <= job.newest
                              \/ (\E f \in job.todo : Top(log, t) <= f[2])
            => UpToDate(t) \/ Remaining(t)
  BY <1>1, <1>2 DEF RepoPass
<1>6. CASE /\ e[2] <= job.version
           /\ Sets({"pc", "todo"}) /\ job'.pc = "end" /\ job'.todo = {}
           /\ rec' = rec /\ excused' = excused
  <2>1. /\ job'.mode = "update" /\ job'.version = job.version /\ job'.newest = job.newest
        /\ NewestArchived' = NewestArchived
    BY <1>2, <1>6, PeakStays DEF Sets, Fields
  <2>2. \A t \in Topics : UpToDate(t) => UpToDate(t)'
    BY <1>3, <1>6, StaysUpToDate
  <2>3. RepoPlace' /\ RepoTimes' /\ RepoMoved'
    BY <1>1, <1>3, <1>6, <2>1, FreshlyListed DEF RepoPlace
  <2>4. BehindAfter' /\ BehindSince' /\ BehindNewest' /\ RepoWalk'
    BY <1>1, <1>3, <2>1, <2>2 DEF BehindAfter, BehindSince, BehindNewest, RepoWalk
  <2>5. \A t \in Topics : Remaining(t) => Top(log, t) <= e[2]
    BY <1>2, <1>4 DEF Remaining
  <2>6. \A t \in Topics : Top(log, t) <= job.newest => UpToDate(t)'
    BY <1>4, <1>5, <1>6, <2>2, <2>5
  <2>7. RepoPass'
    BY <1>3, <1>5, <1>6, <2>1, <2>2, <2>6 DEF RepoPass
  <2> QED
    BY <2>3, <2>4, <2>7 DEF RepoInv
<1>7. CASE /\ e[2] > job.version
           /\ Upsert(e[1], e[2])
           /\ Sets({"todo", "newest", "after"})
           /\ job'.todo = job.todo \ {e} /\ job'.after = e[2]
           /\ job'.newest = Later(job.newest, e[2])
  <2>1. /\ job'.mode = "update" /\ job'.pc = "item" /\ job'.version = job.version
        /\ job'.more = job.more
    BY <1>2, <1>7 DEF Sets, Fields
  <2>2. /\ RepoTimes' /\ BehindAfter' /\ BehindSince'
        /\ \A t \in Topics : t # e[1] /\ UpToDate(t) => UpToDate(t)'
        /\ Top(log, e[1]) = e[2] => UpToDate(e[1])'
        /\ \A f \in job.todo : f[1] = e[1] => f = e
        /\ NewestArchived' \in {NewestArchived, e[2]} /\ NewestArchived' \in Nat
        /\ NewestArchived <= NewestArchived' /\ e[2] <= NewestArchived'
        /\ \A f \in job.todo : Top(log, f[1]) # f[2] =>
                 /\ Top(log, f[1]) > NewestArchived' /\ Top(log, f[1]) > cursor.after
                 /\ \A g \in job.todo : Top(log, f[1]) > g[2]
    BY <1>3, <1>7, ItemKeeps
  <2>3. /\ job'.newest \in {job.newest, e[2]} /\ job'.newest \in Nat
        /\ job.newest <= job'.newest /\ e[2] <= job'.newest
    <3> DEFINE n == Later(job.newest, e[2])
    <3>1. n \in {job.newest, e[2]} /\ n \in Nat /\ job.newest <= n /\ e[2] <= n
      BY <1>4, LaterIs
    <3>2. job'.newest = n
      BY <1>7
    <3> HIDE DEF n
    <3> QED
      BY <3>1, <3>2
  <2>4. RepoPlace'
    BY <1>1, <1>3, <1>4, <2>1, <2>2 DEF RepoPlace
  <2>5. RepoMoved'
    BY <1>3, <1>7, <2>1, <2>2 DEF RepoMoved
  <2>6. BehindNewest' /\ RepoWalk'
    BY <2>1 DEF BehindNewest, RepoWalk
  <2>7. \A f \in job'.todo : f[2] < e[2]
    <3> SUFFICES ASSUME NEW f \in job'.todo PROVE f[2] < e[2]
      OBVIOUS
    <3>1. f \in job.todo /\ f # e /\ f[2] <= e[2] /\ f[1] # e[1]
      BY <1>2, <1>7, <2>2
    <3>2. log[f[2]] = f[1] /\ log[e[2]] = e[1]
      BY <1>1, <3>1 DEF RepoTimes
    <3>3. f[2] # e[2]
      BY <3>1, <3>2
    <3> QED
      BY <1>4, <3>1, <3>3
  <2>8. \A t \in Topics : Top(log, t) <= job.version => UpToDate(t)'
    <3> SUFFICES ASSUME NEW t \in Topics, Top(log, t) <= job.version PROVE UpToDate(t)'
      OBVIOUS
    <3>1. CASE t = e[1]
      <4>1. Top(log, e[1]) <= NewestArchived
        BY <1>4, <1>5, <3>1
      <4> QED
        BY <1>4, <2>2, <3>1, <4>1
    <3>2. CASE t # e[1]
      BY <1>5, <2>2, <3>2
    <3> QED
      BY <3>1, <3>2
  <2>9. ASSUME NEW t \in Topics,
               Top(log, t) <= job'.newest \/ \E f \in job'.todo : Top(log, t) <= f[2]
        PROVE  UpToDate(t)' \/ Remaining(t)'
    <3>1. Top(log, t) <= job.newest \/ \E f \in job.todo : Top(log, t) <= f[2]
      BY <1>4, <1>7, <2>3, <2>9
    <3>2. CASE t = e[1]
      <4>1. Top(log, e[1]) # e[2] => /\ Top(log, e[1]) > NewestArchived
                                     /\ \A g \in job.todo : Top(log, e[1]) > g[2]
        BY <1>4, <2>2
      <4>2. Top(log, e[1]) = e[2]
        BY <1>4, <1>5, <3>1, <3>2, <4>1
      <4> QED
        BY <2>2, <3>2, <4>2
    <3>3. CASE t # e[1]
      <4>1. CASE UpToDate(t)
        BY <2>2, <3>3, <4>1
      <4>2. CASE <<t, Top(log, t)>> \in job.todo
        <5>1. <<t, Top(log, t)>> # e
          BY <3>3
        <5> QED
          BY <1>3, <1>7, <4>2, <5>1 DEF Remaining
      <4>3. CASE (\A f \in job.todo : Top(log, t) < f[2]) /\ job.more
        <5>1. Top(log, t) < e[2] /\ \A f \in job'.todo : Top(log, t) < f[2]
          BY <1>7, <4>3
        <5> QED
          BY <1>3, <1>7, <2>1, <4>3, <5>1 DEF Remaining
      <4> QED
        BY <1>2, <1>5, <3>1, <4>1, <4>2, <4>3 DEF Remaining
    <3> QED
      BY <3>2, <3>3
  <2>10. RepoPass'
    <3>1. /\ job.version <= job'.newest /\ job'.newest <= NewestArchived'
          /\ cursor.since = 0 => NewestArchived' <= job'.newest
      BY <1>4, <1>5, <2>2, <2>3
    <3> QED
      BY <1>3, <1>5, <1>7, <2>1, <2>7, <2>8, <2>9, <3>1 DEF RepoPass
  <2> QED
    BY <2>2, <2>4, <2>5, <2>6, <2>10 DEF RepoInv
<1> QED
  BY <1>2, <1>6, <1>7

LEMMA NextRepo == Shapes /\ Sound /\ RepoInv /\ [Next]_vars => RepoInv'
<1> SUFFICES ASSUME Shapes, Sound, RepoInv, [Next]_vars PROVE RepoInv'
  OBVIOUS
<1>1. kind' = kind
  BY KindStays
<1>2. CASE kind # "github"
  BY <1>1, <1>2 DEF RepoInv
<1>3. CASE UNCHANGED vars
  <2>1. /\ log' = log /\ rec' = rec /\ excused' = excused /\ job' = job /\ cursor' = cursor
        /\ NewestArchived' = NewestArchived
    BY <1>3, PeakStays DEF vars, forum, history
  <2>2. /\ \A t : UpToDate(t)' <=> UpToDate(t)
        /\ \A t : Remaining(t)' <=> Remaining(t)
    BY <2>1 DEF UpToDate, Remaining
  <2>3. /\ RepoPlace => RepoPlace'
        /\ RepoTimes => RepoTimes'
        /\ RepoMoved => RepoMoved'
    BY <2>1 DEF RepoPlace, RepoTimes, RepoMoved
  <2>4. /\ BehindAfter => BehindAfter'
        /\ BehindSince => BehindSince'
        /\ BehindNewest => BehindNewest'
    BY <2>1, <2>2 DEF BehindAfter, BehindSince, BehindNewest
  <2>5. /\ RepoWalk => RepoWalk'
        /\ RepoPass => RepoPass'
    BY <2>1, <2>2 DEF RepoWalk, RepoPass
  <2> QED
    BY <1>1, <2>3, <2>4, <2>5 DEF RepoInv
<1>4. CASE kind = "github" /\ Next
  <2>1. CASE \E t \in Topics : SitePost(t)
    BY <1>4, <2>1, SitePostRepo
  <2>2. CASE Lose
    BY <1>4, <2>2, LoseRepo
  <2>3. CASE GithubNext
    <3>1. CASE BeginRepo \/ BeginRepoUpdate
      BY <1>4, <3>1, BeginsRepo
    <3>2. CASE RepoPage \/ RepoItem \/ RepoPageDone
      BY <1>4, <3>2, RepoPageKeeps, RepoItemKeeps, RepoPageDoneKeeps
    <3>3. CASE NewestPage \/ NewestItem \/ NewestPageDone
      BY <1>4, <3>3, NewestPageKeeps, NewestItemKeeps, NewestPageDoneKeeps
    <3>4. CASE RepoStop \/ EndRepo \/ EndRepoUpdate
      BY <1>4, <3>4, EndsRepo
    <3> QED
      BY <2>3, <3>1, <3>2, <3>3, <3>4 DEF GithubNext
  <2>4. ~DiscourseNext /\ ~SnapshotNext
    BY <1>4 DEF DiscourseNext, SnapshotNext
  <2> QED
    BY <1>4, <2>1, <2>2, <2>3, <2>4 DEF Next
<1> QED
  BY <1>2, <1>3, <1>4

\* Between passes, then, whichever of the two the next one stops at.
LEMMA RepoIsAccounted == Shapes /\ RepoInv => RepoAccounted
<1> SUFFICES ASSUME Shapes, RepoInv, kind = "github", job = Idle,
                    NEW t \in Topics, Bump(t) <= Since
             PROVE  rec[t].bumped = Bump(t) \/ t \in excused
  BY DEF RepoAccounted
<1>1. BehindSince /\ BehindNewest /\ job.mode = "idle" /\ Top(log, t) <= Since
  BY BumpIs, IdleType DEF RepoInv
<1>2. UpToDate(t)
  BY <1>1 DEF BehindSince, BehindNewest, Since
<1> QED
  BY <1>2, BumpIs DEF UpToDate

-----------------------------------------------------------------------------
(***************************************************************************)
(* A Snapshot space.  A proposal is posted once, so its place among those  *)
(* younger than a date never changes.                                      *)
(***************************************************************************)
Young(s, v)   == {t \in Topics : Top(s, t) > v}
Seat(s, v, t) == Cardinality({w \in Young(s, v) : Top(s, w) < Top(s, t)})

\* Proposals in the archive, and those that are there or on the page under way
Stored  == {t \in Topics : rec[t].bumped = Top(log, t)}
Handled == {t \in Topics : t \in Stored \/ <<t, Top(log, t)>> \in job.todo}

\* There are n proposals younger than v, and the first n of them are in S.
Skipped(s, S, v, n) ==
    /\ n <= Cardinality(Young(s, v))
    /\ \A t \in Young(s, v) : Seat(s, v, t) < n => t \in S

SpacePlace ==
    /\ job.mode \in {"idle", "backfill", "update"} /\ job.pc \in {"idle", "list", "item", "end"}
    /\ job.mode = "idle" <=> job.pc = "idle"
    /\ job.pc # "item" => job.todo = {}
    /\ \A e \in job.todo : e[2] = Top(log, e[1]) /\ e[2] > 0
    /\ mark <= NewestArchived
    /\ job.mode = "update" => job.newest <= NewestArchived /\ job.version <= NewestArchived
    /\ job.mode = "backfill" => job.version = 0

\* Nothing is missing behind the newest date of the archive,
SpaceNewest == \A t \in Topics : Top(log, t) <= NewestArchived => t \in Stored

\* nor among the proposals that a resumption, or the pass under way, skips,
SpaceCursor == Skipped(log, Stored, 0, cursor.skip)
SpaceWalk   == job.mode # "idle" => Skipped(log, Stored, job.version, job.skip)

\* and those of its page are stored or listed.
SpaceItems == job.pc = "item" =>
    /\ Skipped(log, Handled, job.version, job.skip + job.after)
    /\ \A e \in job.todo : \A t \in Topics : Top(log, t) <= e[2] => t \in Handled

SpaceInv == kind = "snapshot" =>
    SpacePlace /\ SpaceNewest /\ SpaceCursor /\ SpaceWalk /\ SpaceItems

LEMMA YoungIs ==
  ASSUME NEW s, NEW v
  PROVE  /\ Young(s, v) \subseteq Topics /\ IsFiniteSet(Young(s, v))
         /\ Cardinality(Young(s, v)) \in Nat
         /\ \A t : Seat(s, v, t) \in Nat
<1>1. Young(s, v) \subseteq Topics
  BY DEF Young
<1>2. IsFiniteSet(Young(s, v))
  BY <1>1, ForumBounds, FS_Subset
<1>3. \A t : IsFiniteSet({w \in Young(s, v) : Top(s, w) < Top(s, t)})
  BY <1>2, FS_Subset
<1> QED
  BY <1>1, <1>2, <1>3, FS_CardinalityType DEF Seat

\* Seats follow the order of the proposals; two proposals do not share one.
LEMMA SeatOrder ==
  ASSUME NEW s, Len(s) \in Nat, NEW v \in Nat, NEW t \in Young(s, v), NEW u \in Young(s, v)
  PROVE  /\ Top(s, t) < Top(s, u) => Seat(s, v, t) < Seat(s, v, u)
         /\ Seat(s, v, t) = Seat(s, v, u) => t = u
<1>1. ASSUME NEW x \in Young(s, v), NEW y \in Young(s, v), Top(s, x) < Top(s, y)
      PROVE  Seat(s, v, x) < Seat(s, v, y)
  <2> DEFINE A == {w \in Young(s, v) : Top(s, w) < Top(s, x)}
             B == {w \in Young(s, v) : Top(s, w) < Top(s, y)}
  <2>1. \A w : Top(s, w) \in Nat
    BY TopIs
  <2>2. IsFiniteSet(A) /\ IsFiniteSet(B)
    BY YoungIs, FS_Subset
  <2>3. A \subseteq B /\ x \in B /\ x \notin A
    BY <1>1, <2>1
  <2>4. Cardinality(A) <= Cardinality(B) /\ Cardinality(A) # Cardinality(B)
    BY <2>2, <2>3, FS_Subset
  <2>5. Cardinality(A) \in Nat /\ Cardinality(B) \in Nat
    BY <2>2, FS_CardinalityType
  <2>6. Seat(s, v, x) = Cardinality(A) /\ Seat(s, v, y) = Cardinality(B)
    BY DEF Seat
  <2> HIDE DEF A, B
  <2> QED
    BY <2>4, <2>5, <2>6
<1>2. Top(s, t) \in Nat /\ Top(s, u) \in Nat /\ Top(s, t) > v /\ t \in Topics /\ u \in Topics
  BY TopIs DEF Young
<1>3. Seat(s, v, t) \in Nat /\ Seat(s, v, u) \in Nat
  BY YoungIs
<1>4. Seat(s, v, t) = Seat(s, v, u) => Top(s, t) = Top(s, u)
  BY <1>1, <1>2, <1>3
<1>5. Top(s, t) = Top(s, u) => t = u
  BY <1>2, TopOfOne
<1> QED
  BY <1>1, <1>4, <1>5

\* A new proposal sits behind all the others.
LEMMA AppendSeats ==
  ASSUME NEW s \in Seq(Topics), NEW x \in Topics, Top(s, x) = 0, NEW v \in Nat, v <= Len(s)
  PROVE  /\ Young(Append(s, x), v) = Young(s, v) \cup {x}
         /\ Cardinality(Young(s, v)) <= Cardinality(Young(Append(s, x), v))
         /\ Seat(Append(s, x), v, x) = Cardinality(Young(s, v))
         /\ \A t \in Young(s, v) : t # x /\ Seat(Append(s, x), v, t) = Seat(s, v, t)
<1> DEFINE a == Append(s, x)
<1>1. /\ Len(s) \in Nat /\ Top(a, x) = Len(s) + 1
      /\ \A t : t # x => Top(a, t) = Top(s, t)
      /\ \A t : Top(s, t) \in Nat /\ Top(s, t) <= Len(s)
  BY AppendType, AppendTop, TopIs
<1> HIDE DEF a
<1>2. \A t : t \in Young(s, v) <=> t \in Topics /\ Top(s, t) > v
  BY DEF Young
<1>3. \A t : t \in Young(a, v) <=> t \in Topics /\ Top(a, t) > v
  BY DEF Young
<1>4. Young(a, v) = Young(s, v) \cup {x} /\ x \notin Young(s, v)
  BY <1>1, <1>2, <1>3
<1>5. Cardinality(Young(s, v)) <= Cardinality(Young(a, v))
  BY <1>4, YoungIs, FS_Subset
<1>6. {w \in Young(a, v) : Top(a, w) < Top(a, x)} = Young(s, v)
  BY <1>1, <1>4
<1>7. ASSUME NEW t \in Young(s, v)
      PROVE  {w \in Young(a, v) : Top(a, w) < Top(a, t)}
                = {w \in Young(s, v) : Top(s, w) < Top(s, t)}
  BY <1>1, <1>4
<1>8. Seat(a, v, x) = Cardinality(Young(s, v))
  BY <1>6 DEF Seat
<1>9. \A t \in Young(s, v) : t # x /\ Seat(a, v, t) = Seat(s, v, t)
  BY <1>4, <1>7 DEF Seat
<1> QED
  BY <1>4, <1>5, <1>8, <1>9 DEF a

\* A page holds the seats from skip on: at most QueryPage of them, and as many
\* as there are proposals behind it.
LEMMA SliceIs ==
  ASSUME SiteShape, NEW v \in Nat, NEW n \in Nat
  PROVE  /\ \A e \in Slice(v, n) : /\ e[1] \in Young(log, v) /\ e[2] = Top(log, e[1])
                                   /\ e = <<e[1], e[2]>>
                                   /\ Seat(log, v, e[1]) \in n .. n + QueryPage - 1
         /\ \A t \in Young(log, v) : Seat(log, v, t) \in n .. n + QueryPage - 1
               => <<t, Top(log, t)>> \in Slice(v, n)
<1>1. \A t : Bump(t) = Top(log, t) /\ Top(log, t) \in Nat
  BY TopsType, BumpIs
<1>2. {t \in Created : Bump(t) > v} = Young(log, v)
  BY <1>1 DEF Created, Exists, Young
<1>3. Slice(v, n) = {<<t, Bump(t)>> : t \in {u \in Young(log, v) :
         Cardinality({w \in Young(log, v) : Bump(w) < Bump(u)}) \in n .. n + QueryPage - 1}}
  BY <1>2 DEF Slice
<1>4. \A t : Cardinality({w \in Young(log, v) : Bump(w) < Bump(t)}) = Seat(log, v, t)
  <2> TAKE t
  <2>1. {w \in Young(log, v) : Bump(w) < Bump(t)}
          = {w \in Young(log, v) : Top(log, w) < Top(log, t)}
    BY <1>1
  <2> QED
    BY <2>1 DEF Seat
<1>5. ASSUME NEW e \in Slice(v, n)
      PROVE  \E t \in Young(log, v) : /\ e = <<t, Top(log, t)>>
                                      /\ Seat(log, v, t) \in n .. n + QueryPage - 1
  <2>1. PICK t \in Young(log, v) :
           /\ e = <<t, Bump(t)>>
           /\ Cardinality({w \in Young(log, v) : Bump(w) < Bump(t)}) \in n .. n + QueryPage - 1
    BY <1>3
  <2> QED
    BY <1>1, <1>4, <2>1
<1>6. ASSUME NEW t \in Young(log, v), Seat(log, v, t) \in n .. n + QueryPage - 1
      PROVE  <<t, Top(log, t)>> \in Slice(v, n)
  <2>1. Cardinality({w \in Young(log, v) : Bump(w) < Bump(t)}) \in n .. n + QueryPage - 1
    BY <1>4, <1>6
  <2>2. <<t, Bump(t)>> \in Slice(v, n)
    BY <1>3, <2>1
  <2> QED
    BY <1>1, <2>2
<1> QED
  BY <1>5, <1>6

LEMMA SliceSize ==
  ASSUME SiteShape, NEW v \in Nat, NEW n \in Nat
  PROVE  /\ Cardinality(Slice(v, n)) \in Nat /\ Cardinality(Slice(v, n)) <= QueryPage
         /\ n <= Cardinality(Young(log, v))
               => n + Cardinality(Slice(v, n)) <= Cardinality(Young(log, v))
<1> DEFINE P == Slice(v, n)
           Y == Young(log, v)
<1>1. /\ \A e \in P : e[1] \in Y /\ e[2] = Top(log, e[1])
                      /\ Seat(log, v, e[1]) \in n .. n + QueryPage - 1
      /\ IsFiniteSet(P) /\ IsFiniteSet(Y) /\ Y \subseteq Topics
      /\ \A e \in P : e = <<e[1], e[2]>>
  BY SliceIs, SliceFinite, YoungIs
<1>2. Len(log) \in Nat /\ QueryPage \in Nat /\ QueryPage > 0
      /\ Cardinality(P) \in Nat /\ Cardinality(Y) \in Nat
  BY <1>1, LogType, ForumBounds, FS_CardinalityType
<1> HIDE DEF P, Y
<1>3. \A e, f \in P : e[1] = f[1] => e = f
  BY <1>1
<1>4. Cardinality(P) <= QueryPage
  <2> DEFINE I == n .. n + QueryPage - 1
             seat == [e \in P |-> Seat(log, v, e[1])]
  <2>1. seat \in [P -> I]
    BY <1>1
  <2>2. \A e, f \in P : Seat(log, v, e[1]) = Seat(log, v, f[1]) => e[1] = f[1]
    BY <1>1, <1>2, SeatOrder DEF Y
  <2>3. \A e, f \in P : seat[e] = seat[f] => e = f
    BY <1>3, <2>2
  <2>4. seat \in Injection(P, I)
    BY <2>1, <2>3 DEF Injection, IsInjective
  <2>5. IsFiniteSet(I) /\ Cardinality(I) = QueryPage
    <3>1. n \in Int /\ n + QueryPage - 1 \in Int /\ ~(n > n + QueryPage - 1)
      BY <1>2
    <3> DEFINE m == n + QueryPage - 1
    <3>2. m - n + 1 = QueryPage
      BY <1>2
    <3> HIDE DEF m
    <3>3. IsFiniteSet(n .. m) /\ Cardinality(n .. m) = IF n > m THEN 0 ELSE m - n + 1
      BY <3>1, FS_Interval DEF m
    <3> QED
      BY <3>1, <3>2, <3>3 DEF m
  <2> HIDE DEF I, seat
  <2>6. Cardinality(P) <= Cardinality(I)
    BY <2>4, <2>5, FS_Injection
  <2> QED
    BY <2>5, <2>6
<1>5. ASSUME n <= Cardinality(Y) PROVE n + Cardinality(P) <= Cardinality(Y)
  <2>1. CASE P = {}
    <3>1. Cardinality(P) = 0
      BY <2>1, FS_EmptySet
    <3> QED
      BY <1>2, <1>5, <3>1
  <2>2. CASE P # {}
    <3> DEFINE T == {e[1] : e \in P}
               S == {Top(log, t) : t \in T}
               first == [e \in P |-> e[1]]
    <3>1. T \subseteq Y
      BY <1>1
    <3>2. \A t \in T : Top(log, t) \in Nat
      BY <1>2, TopIs
    <3>3. S \in SUBSET Nat /\ S # {}
      BY <2>2, <3>2
    <3>4. PICK m \in S : \A k \in S : m <= k
      BY <3>3, FirstExists
    <3>5. PICK u \in T : \A t \in T : Top(log, u) <= Top(log, t)
      BY <3>4
    <3> DEFINE A == {w \in Y : Top(log, w) < Top(log, u)}
    <3>6. Seat(log, v, u) = Cardinality(A) /\ Seat(log, v, u) >= n
      BY <1>1, <3>5 DEF Seat, Y
    <3>7. A \cap T = {}
      BY <1>2, <3>2, <3>5, TopIs
    <3>8. IsFiniteSet(T) /\ IsFiniteSet(A) /\ A \cup T \subseteq Y
      BY <1>1, <3>1, FS_Subset
    <3>9. Cardinality(P) <= Cardinality(T)
      <4>1. first \in [P -> T] /\ \A e, f \in P : first[e] = first[f] => e = f
        BY <1>3
      <4>2. first \in Injection(P, T)
        BY <4>1 DEF Injection, IsInjective
      <4> HIDE DEF first, T
      <4> QED
        BY <3>8, <4>2, FS_Injection
    <3>10. /\ Cardinality(A) \in Nat /\ Cardinality(T) \in Nat
           /\ Cardinality(A \cup T) = Cardinality(A) + Cardinality(T)
           /\ Cardinality(A \cup T) <= Cardinality(Y)
      <4> HIDE DEF A, T
      <4>1. Cardinality(A \cup T) = Cardinality(A) + Cardinality(T) - Cardinality(A \cap T)
        BY <3>8, FS_Union
      <4>2. Cardinality(A \cap T) = 0
        BY <3>7, FS_EmptySet
      <4>3. Cardinality(A) \in Nat /\ Cardinality(T) \in Nat
        BY <3>8, FS_CardinalityType
      <4>4. Cardinality(A \cup T) <= Cardinality(Y)
        BY <1>1, <3>8, FS_Subset
      <4> QED
        BY <4>1, <4>2, <4>3, <4>4
    <3>11. Seat(log, v, u) \in Nat
      BY YoungIs
    <3> HIDE DEF A, T, S
    <3> QED
      BY <1>2, <3>6, <3>9, <3>10, <3>11
  <2> QED
    BY <2>1, <2>2
<1> QED
  BY <1>2, <1>4, <1>5 DEF P, Y

LEMMA SkippedGrows ==
  ASSUME NEW s, NEW S, NEW T, NEW v, NEW n, Skipped(s, S, v, n),
         \A t \in Topics : t \in S => t \in T
  PROVE  Skipped(s, T, v, n)
  BY YoungIs DEF Skipped

LEMMA AppendSkipped ==
  ASSUME NEW s \in Seq(Topics), NEW x \in Topics, Top(s, x) = 0, NEW v \in Nat, v <= Len(s),
         NEW n \in Nat, NEW S, NEW T, \A t \in Topics \ {x} : t \in S => t \in T,
         Skipped(s, S, v, n)
  PROVE  Skipped(Append(s, x), T, v, n)
<1> DEFINE a == Append(s, x)
<1>1. /\ Young(a, v) = Young(s, v) \cup {x}
      /\ Cardinality(Young(s, v)) <= Cardinality(Young(a, v))
      /\ Seat(a, v, x) = Cardinality(Young(s, v))
      /\ \A t \in Young(s, v) : t # x /\ Seat(a, v, t) = Seat(s, v, t)
  BY AppendSeats
<1>2. /\ Cardinality(Young(s, v)) \in Nat /\ Cardinality(Young(a, v)) \in Nat
      /\ Young(s, v) \subseteq Topics
  BY YoungIs
<1>3. n <= Cardinality(Young(s, v)) /\ \A t \in Young(s, v) : Seat(s, v, t) < n => t \in S
  BY DEF Skipped
<1> HIDE DEF a
<1>4. n <= Cardinality(Young(a, v))
  BY <1>1, <1>2, <1>3
<1>5. ASSUME NEW t \in Young(a, v), Seat(a, v, t) < n PROVE t \in T
  <2>1. t # x
    BY <1>1, <1>2, <1>3, <1>5
  <2> QED
    BY <1>1, <1>2, <1>3, <1>5, <2>1
<1>6. Skipped(a, T, v, n)
  BY <1>4, <1>5 DEF Skipped
<1> QED
  BY <1>6 DEF a

LEMMA SpaceTypes ==
  ASSUME Shapes
  PROVE  /\ job.skip \in Nat /\ job.after \in Nat /\ cursor.skip \in Nat
         /\ mark \in Nat /\ mark <= Len(log) /\ log \in Seq(Topics)
  BY DEF Shapes, JobShape, Jobs, CursorShape, Cursors, RowShape, SiteShape

\* What does not exist counts as stored.
LEMMA NoneIsStored ==
  ASSUME Shapes, Sound, NEW t \in Topics, Top(log, t) = 0
  PROVE  t \in Stored
  BY RepoTypes DEF Sound, RecSound, Stored

LEMMA SkipNone ==
  ASSUME NEW s, NEW S, NEW v
  PROVE  Skipped(s, S, v, 0)
<1>1. Cardinality(Young(s, v)) \in Nat /\ \A t : Seat(s, v, t) \in Nat
  BY YoungIs
<1>2. 0 <= Cardinality(Young(s, v)) /\ \A t : ~(Seat(s, v, t) < 0)
  BY <1>1
<1> QED
  BY <1>2 DEF Skipped

LEMMA InitSpace == Init => SpaceInv
<1> SUFFICES ASSUME Init PROVE SpaceInv
  OBVIOUS
<1>1. /\ job = Idle /\ cursor = NoCursor /\ mark = 0 /\ Len(log) = 0
      /\ \A t \in Topics : rec[t].bumped = 0
  BY DEF Init, NoTopic
<1>2. \A t \in Topics : t \in Stored
  BY <1>1, TopIs DEF Stored
<1>3. NewestArchived \in Nat
  BY InitShapes, RepoTypes
<1>4. SpaceCursor
  BY <1>1, SkipNone, IdleType DEF SpaceCursor
<1>5. SpacePlace /\ SpaceWalk /\ SpaceItems
  BY <1>1, <1>3, IdleType DEF SpacePlace, SpaceWalk, SpaceItems
<1> QED
  BY <1>2, <1>4, <1>5 DEF SpaceInv, SpaceNewest

LEMMA StoredStays ==
  ASSUME log' = log, rec' = rec
  PROVE  Stored' = Stored /\ (job'.todo = job.todo => Handled' = Handled)
<1>1. Stored' = Stored
  BY DEF Stored
<1> QED
  BY <1>1 DEF Handled

LEMMA SitePostSpace ==
  ASSUME Shapes, Sound, SpaceInv, kind = "snapshot", NEW x \in Topics, SitePost(x)
  PROVE  SpaceInv'
<1> DEFINE L == Len(log)
           a == Append(log, x)
<1>1. SpacePlace /\ SpaceNewest /\ SpaceCursor /\ SpaceWalk /\ SpaceItems
  BY DEF SpaceInv
<1>2. /\ L \in Nat /\ log' = a /\ rec' = rec /\ cursor' = cursor /\ job' = job /\ mark' = mark
      /\ Top(log, x) = 0 /\ Top(a, x) = L + 1 /\ \A t : t # x => Top(a, t) = Top(log, t)
  BY SitePostIs
<1>3. NewestArchived' = NewestArchived
  BY <1>2, PeakStays
<1>4. /\ log \in Seq(Topics) /\ job.version \in Nat /\ job.version <= L
      /\ job.skip \in Nat /\ job.after \in Nat /\ job.skip + job.after \in Nat
      /\ cursor.skip \in Nat /\ NewestArchived \in Nat /\ NewestArchived <= L
      /\ \A e \in job.todo : e[2] \in Nat /\ e[2] <= L
  BY RepoTypes, SpaceTypes
<1>5. /\ \A t \in Topics \ {x} : t \in Stored => t \in Stored'
      /\ \A t \in Topics \ {x} : t \in Handled => t \in Handled'
  <2>1. \A t \in Topics \ {x} : t \in Stored => t \in Stored'
    BY <1>2 DEF Stored
  <2> QED
    BY <1>2, <2>1 DEF Handled
<1> HIDE DEF a
<1>6. SpacePlace'
  <2>1. \A e \in job.todo : e[1] # x
    BY <1>1, <1>2 DEF SpacePlace
  <2> QED
    BY <1>1, <1>2, <1>3, <2>1 DEF SpacePlace
<1>7. SpaceNewest'
  BY <1>1, <1>2, <1>3, <1>4, <1>5 DEF SpaceNewest
<1>8. \A v, n \in Nat : \A S, T :
         /\ v <= L /\ Skipped(log, S, v, n)
         /\ \A t \in Topics \ {x} : t \in S => t \in T
         => Skipped(a, T, v, n)
  BY <1>2, <1>4, AppendSkipped DEF a
<1>9. SpaceCursor'
  <2>1. Skipped(log, Stored, 0, cursor.skip)
    BY <1>1 DEF SpaceCursor
  <2>2. Skipped(a, Stored', 0, cursor.skip)
    BY <1>2, <1>4, <1>5, <1>8, <2>1
  <2> QED
    BY <1>2, <2>2 DEF SpaceCursor
<1>10. SpaceWalk'
  <2> SUFFICES ASSUME job.mode # "idle" PROVE SpaceWalk'
    BY <1>2 DEF SpaceWalk
  <2>1. Skipped(log, Stored, job.version, job.skip)
    BY <1>1 DEF SpaceWalk
  <2>2. Skipped(a, Stored', job.version, job.skip)
    BY <1>4, <1>5, <1>8, <2>1
  <2> QED
    BY <1>2, <2>2 DEF SpaceWalk
<1>11. SpaceItems'
  <2> SUFFICES ASSUME job.pc = "item" PROVE SpaceItems'
    BY <1>2 DEF SpaceItems
  <2>1. /\ Skipped(log, Handled, job.version, job.skip + job.after)
        /\ \A e \in job.todo : \A t \in Topics : Top(log, t) <= e[2] => t \in Handled
    BY <1>1 DEF SpaceItems
  <2>2. Skipped(a, Handled', job.version, job.skip + job.after)
    BY <1>4, <1>5, <1>8, <2>1
  <2>3. \A e \in job.todo : \A t \in Topics : Top(a, t) <= e[2] => t \in Handled'
    BY <1>2, <1>4, <1>5, <2>1
  <2> QED
    BY <1>2, <2>2, <2>3 DEF SpaceItems
<1> QED
  BY <1>6, <1>7, <1>9, <1>10, <1>11 DEF SpaceInv

\* A pass that ends
LEMMA SpaceEnds ==
  ASSUME Shapes, SpaceNewest, Starts({}), log' = log, rec' = rec,
         mark' <= NewestArchived, Skipped(log, Stored, 0, cursor'.skip)
  PROVE  SpaceInv'
<1>1. job'.mode = "idle" /\ job'.pc = "idle" /\ job'.todo = {}
  BY IdleType DEF Starts, Fields
<1>2. NewestArchived' = NewestArchived /\ Stored' = Stored
  BY PeakStays, StoredStays
<1>3. SpacePlace' /\ SpaceWalk' /\ SpaceItems'
  BY <1>1, <1>2 DEF SpacePlace, SpaceWalk, SpaceItems
<1>4. SpaceNewest' /\ SpaceCursor'
  BY <1>2 DEF SpaceNewest, SpaceCursor
<1> QED
  BY <1>3, <1>4 DEF SpaceInv

\* Lose, SpaceStop, EndSpace, EndSpaceUpdate
LEMMA EndsSpace ==
  ASSUME Shapes, Sound, SpaceInv, kind = "snapshot",
         Lose \/ SpaceStop \/ EndSpace \/ EndSpaceUpdate
  PROVE  SpaceInv'
<1>1. SpacePlace /\ SpaceNewest /\ SpaceCursor /\ SpaceWalk
  BY DEF SpaceInv
<1>2. Starts({}) /\ log' = log /\ rec' = rec
  BY LoseIs, SpaceStopIs, EndSpaceIs, EndSpaceUpdateIs
<1>3. CASE Lose
  <2>1. mark' = mark /\ cursor' = cursor
    BY <1>3, LoseIs
  <2> QED
    BY <1>1, <1>2, <2>1, SpaceEnds DEF SpacePlace, SpaceCursor
<1>4. CASE SpaceStop
  <2>1. mark' = mark /\ cursor'.skip = job.skip /\ job.mode = "backfill"
    BY <1>4, SpaceStopIs DEF NoCursor
  <2>2. Skipped(log, Stored, 0, job.skip)
    BY <1>1, <2>1 DEF SpaceWalk, SpacePlace
  <2> QED
    BY <1>1, <1>2, <2>1, <2>2, SpaceEnds DEF SpacePlace
<1>5. CASE EndSpace
  <2>1. mark' = mark /\ cursor'.skip = 0
    BY <1>5, EndSpaceIs, IdleType
  <2> QED
    BY <1>1, <1>2, <2>1, SkipNone, SpaceEnds DEF SpacePlace
<1>6. CASE EndSpaceUpdate
  <2>1. mark' = Later(mark, job.newest) /\ cursor' = cursor /\ job.mode = "update"
    BY <1>6, EndSpaceUpdateIs DEF SpaceMark
  <2>2. mark' \in {mark, job.newest}
    <3>1. mark \in Nat /\ job.newest \in Nat
      BY RepoTypes, SpaceTypes
    <3> QED
      BY <2>1, <3>1, LaterIs
  <2>3. mark' <= NewestArchived
    BY <1>1, <2>1, <2>2 DEF SpacePlace
  <2> QED
    BY <1>1, <1>2, <2>1, <2>3, SpaceEnds DEF SpaceCursor
<1> QED
  BY <1>3, <1>4, <1>5, <1>6

\* BeginSpace, BeginSpaceUpdate
LEMMA BeginsSpace ==
  ASSUME Shapes, Sound, SpaceInv, kind = "snapshot", BeginSpace \/ BeginSpaceUpdate
  PROVE  SpaceInv'
<1>1. SpacePlace /\ SpaceNewest /\ SpaceCursor
  BY DEF SpaceInv
<1>2. /\ log' = log /\ rec' = rec /\ cursor' = cursor /\ mark' = mark
      /\ job'.todo = {} /\ job'.pc = "list" /\ NewestArchived' = NewestArchived
      /\ Stored' = Stored
      /\ \/ job'.mode = "backfill" /\ job'.version = 0 /\ job'.skip = cursor.skip
         \/ /\ job'.mode = "update" /\ job'.version = SpaceSince /\ job'.newest = mark
            /\ job'.skip = 0
  <2>1. CASE BeginSpace
    BY <2>1, BeginSpaceIs, IdleType, PeakStays, StoredStays DEF Starts, Fields
  <2>2. CASE BeginSpaceUpdate
    BY <2>2, BeginSpaceUpdateIs, IdleType, PeakStays, StoredStays DEF Starts, Fields
  <2> QED
    BY <2>1, <2>2
<1>3. NewestArchived \in Nat /\ mark \in Nat
  BY RepoTypes, SpaceTypes
<1>4. SpaceSince <= NewestArchived
  BY <1>1, <1>3 DEF SpacePlace, SpaceSince
<1>5. SpacePlace'
  BY <1>1, <1>2, <1>4 DEF SpacePlace
<1>6. SpaceNewest' /\ SpaceCursor'
  BY <1>1, <1>2 DEF SpaceNewest, SpaceCursor
<1>7. Skipped(log, Stored, job'.version, job'.skip)
  BY <1>1, <1>2, SkipNone DEF SpaceCursor
<1>8. SpaceWalk' /\ SpaceItems'
  BY <1>2, <1>7 DEF SpaceWalk, SpaceItems
<1> QED
  BY <1>5, <1>6, <1>8 DEF SpaceInv

LEMMA SpacePageKeeps ==
  ASSUME Shapes, Sound, SpaceInv, kind = "snapshot", SpacePage
  PROVE  SpaceInv'
<1> DEFINE v == job.version
           n == job.skip
           page == Slice(v, n)
<1>1. SpacePlace /\ SpaceNewest /\ SpaceCursor /\ SpaceWalk
  BY DEF SpaceInv
<1>2. /\ log' = log /\ rec' = rec /\ cursor' = cursor /\ mark' = mark
      /\ job.pc = "list" /\ job.mode # "idle" /\ job'.mode = job.mode
      /\ job'.pc = (IF page = {} THEN "end" ELSE "item") /\ job'.todo = page
      /\ job'.after = Cardinality(page) /\ job'.version = v /\ job'.skip = n
      /\ job'.newest = job.newest
      /\ NewestArchived' = NewestArchived /\ Stored' = Stored
  <2>1. /\ log' = log /\ rec' = rec /\ cursor' = cursor /\ mark' = mark
        /\ job.pc = "list" /\ job'.mode = job.mode
        /\ job'.pc = (IF page = {} THEN "end" ELSE "item") /\ job'.todo = page
        /\ job'.after = Cardinality(page) /\ job'.version = v /\ job'.skip = n
        /\ job'.newest = job.newest
    BY SpacePageIs DEF Sets, Fields
  <2> QED
    BY <1>1, <2>1, PeakStays, StoredStays DEF SpacePlace
<1>3. /\ v \in Nat /\ n \in Nat /\ Len(log) \in Nat /\ NewestArchived \in Nat /\ SiteShape
      /\ \A t : Top(log, t) \in Nat
      /\ QueryPage \in Nat
  BY RepoTypes, SpaceTypes, TopsType, ForumBounds
<1>4. Skipped(log, Stored, v, n)
  BY <1>1, <1>2 DEF SpaceWalk
<1>5. /\ \A e \in page : /\ e[1] \in Young(log, v) /\ e[2] = Top(log, e[1])
                         /\ Seat(log, v, e[1]) \in n .. n + QueryPage - 1
      /\ \A t \in Young(log, v) : Seat(log, v, t) \in n .. n + QueryPage - 1
            => <<t, Top(log, t)>> \in page
  BY <1>3, SliceIs
<1>6. /\ Cardinality(page) \in Nat /\ Cardinality(page) <= QueryPage
      /\ n + Cardinality(page) <= Cardinality(Young(log, v))
  BY <1>3, <1>4, SliceSize DEF Skipped
<1> DEFINE m == Cardinality(page)
<1> HIDE DEF page, m
<1>7. ASSUME NEW t \in Young(log, v), Seat(log, v, t) <= n + QueryPage - 1
      PROVE  t \in Handled'
  <2>1. Seat(log, v, t) \in Nat /\ t \in Topics
    BY YoungIs
  <2>2. CASE Seat(log, v, t) < n
    BY <1>2, <1>4, <2>1, <2>2 DEF Skipped, Handled
  <2>3. CASE ~(Seat(log, v, t) < n)
    <3>1. Seat(log, v, t) \in n .. n + QueryPage - 1
      BY <1>3, <1>7, <2>1, <2>3
    <3> QED
      BY <1>2, <1>5, <2>1, <3>1 DEF Handled
  <2> QED
    BY <2>2, <2>3
<1>8. SpacePlace'
  <2>1. \A e \in page : e[2] = Top(log, e[1]) /\ e[2] > 0
    BY <1>3, <1>5 DEF Young
  <2> QED
    BY <1>1, <1>2, <2>1 DEF SpacePlace
<1>9. SpaceNewest' /\ SpaceCursor' /\ SpaceWalk'
  BY <1>1, <1>2, <1>4 DEF SpaceNewest, SpaceCursor, SpaceWalk
<1>10. Skipped(log, Handled', v, n + m)
  <2>1. \A t \in Young(log, v) : Seat(log, v, t) < n + m => t \in Handled'
    <3> SUFFICES ASSUME NEW t \in Young(log, v), Seat(log, v, t) < n + m PROVE t \in Handled'
      OBVIOUS
    <3>1. Seat(log, v, t) \in Nat
      BY YoungIs
    <3>2. Seat(log, v, t) <= n + QueryPage - 1
      BY <1>3, <1>6, <3>1 DEF m
    <3> QED
      BY <1>7, <3>2
  <2> QED
    BY <1>6, <2>1 DEF Skipped, m
<1>11. ASSUME NEW e \in page, NEW t \in Topics, Top(log, t) <= e[2]
       PROVE  t \in Handled'
  <2>1. CASE Top(log, t) > v
    <3>1. t \in Young(log, v)
      BY <2>1 DEF Young
    <3>2. Seat(log, v, t) <= Seat(log, v, e[1])
      <4>1. Seat(log, v, t) \in Nat /\ Seat(log, v, e[1]) \in Nat
        BY YoungIs
      <4>2. CASE Top(log, t) < Top(log, e[1])
        BY <1>3, <1>5, <3>1, <4>1, <4>2, SeatOrder
      <4>3. CASE Top(log, t) = Top(log, e[1])
        BY <4>1, <4>3 DEF Seat
      <4> QED
        BY <1>3, <1>5, <1>11, <4>2, <4>3
    <3>3. Seat(log, v, t) <= n + QueryPage - 1
      <4>1. Seat(log, v, t) \in Nat /\ Seat(log, v, e[1]) \in n .. n + QueryPage - 1
        BY <1>5, YoungIs
      <4> QED
        BY <1>3, <3>2, <4>1
    <3> QED
      BY <1>7, <3>1, <3>3
  <2>2. CASE ~(Top(log, t) > v)
    <3>1. t \in Stored
      <4>1. CASE job.mode = "update"
        BY <1>1, <1>3, <2>2, <4>1 DEF SpacePlace, SpaceNewest
      <4>2. CASE job.mode = "backfill"
        BY <1>1, <1>3, <2>2, <4>2, NoneIsStored DEF SpacePlace
      <4> QED
        BY <1>1, <1>2, <4>1, <4>2 DEF SpacePlace
    <3> QED
      BY <1>2, <3>1 DEF Handled
  <2> QED
    BY <2>1, <2>2
<1>12. SpaceItems'
  BY <1>2, <1>10, <1>11 DEF SpaceItems, m
<1> QED
  BY <1>8, <1>9, <1>12 DEF SpaceInv

LEMMA SpaceItemKeeps ==
  ASSUME Shapes, Sound, SpaceInv, kind = "snapshot", SpaceItem
  PROVE  SpaceInv'
<1>1. SpacePlace /\ SpaceNewest /\ SpaceCursor /\ SpaceWalk /\ SpaceItems
  BY DEF SpaceInv
<1>2. PICK e \in job.todo :
         /\ e \in Topics \X Nat /\ job.pc = "item"
         /\ \A f \in job.todo : e[2] <= f[2]
         /\ Upsert(e[1], e[2])
         /\ Sets({"todo", "newest"}) /\ job'.todo = job.todo \ {e}
         /\ job'.newest = IF job.mode = "update" THEN Later(job.newest, e[2]) ELSE job.newest
         /\ UNCHANGED <<kind, log, etags, validator, done, cursor, mark, faults, base,
                        promised>>
  BY SpaceItemIs
<1>3. /\ log' = log /\ cursor' = cursor /\ mark' = mark
      /\ job'.mode = job.mode /\ job'.pc = "item" /\ job'.version = job.version
      /\ job'.skip = job.skip /\ job'.after = job.after
  BY <1>2 DEF Sets, Fields
<1>4. /\ e[1] \in Topics /\ e[2] \in Nat /\ NewestArchived \in Nat /\ Len(log) \in Nat
      /\ mark \in Nat /\ job.newest \in Nat /\ job.version \in Nat /\ e[2] <= Len(log)
      /\ \A t : Top(log, t) \in Nat /\ (Top(log, t) # 0 => log[Top(log, t)] = t)
      /\ \A t \in Topics : rec[t].bumped <= Len(log)
  BY RepoTypes, SpaceTypes, TopsType
<1>5. e[2] = Top(log, e[1]) /\ e[2] > 0
  BY <1>1 DEF SpacePlace
<1>6. /\ rec \in [Topics -> Recs] /\ rec' \in [Topics -> Recs]
      /\ \A t \in Topics \ {e[1]} : rec'[t] = rec[t]
      /\ rec'[e[1]].bumped = e[2]
  BY <1>2, <1>4, UpsertIs DEF Shapes, RowShape
<1>7. /\ NewestArchived' \in {NewestArchived, e[2]} /\ NewestArchived' \in Nat
      /\ NewestArchived <= NewestArchived' /\ e[2] <= NewestArchived'
  <2> DEFINE q == rec'
  <2>1. q \in [Topics -> Recs] /\ \A t \in Topics \ {e[1]} : q[t] = rec[t]
    BY <1>6
  <2>2. rec[e[1]].bumped <= q[e[1]].bumped /\ q[e[1]].bumped = e[2]
    BY <1>4, <1>5, <1>6 DEF Sound, RecSound
  <2>3. \A t \in Topics : rec[t].bumped <= Len(log) /\ q[t].bumped <= Len(log)
    BY <1>4, <1>6
  <2>4. NewestArchived = Peak(rec) /\ NewestArchived' = Peak(q)
    BY PeakIs, PeakStays
  <2> HIDE DEF q
  <2>5. /\ Peak(q) \in {Peak(rec), q[e[1]].bumped} /\ Peak(q) \in Nat
        /\ Peak(rec) <= Peak(q) /\ q[e[1]].bumped <= Peak(q)
    BY <1>4, <1>6, <2>1, <2>2, <2>3, PeakGrows
  <2> QED
    BY <2>2, <2>4, <2>5
<1>8. /\ \A t \in Topics : t \in Stored => t \in Stored'
      /\ e[1] \in Stored'
      /\ \A t \in Topics : t \in Handled => t \in Handled'
  <2>1. /\ \A t \in Topics : t \in Stored => t \in Stored'
        /\ e[1] \in Stored'
    BY <1>3, <1>4, <1>5, <1>6 DEF Stored
  <2>2. ASSUME NEW t \in Topics, t \in Handled PROVE t \in Handled'
    <3>1. CASE t = e[1]
      BY <2>1, <3>1 DEF Handled
    <3>2. CASE t \in Stored
      BY <2>1, <3>2 DEF Handled
    <3>3. CASE t # e[1] /\ <<t, Top(log, t)>> \in job.todo
      <4>1. <<t, Top(log, t)>> # e
        BY <3>3
      <4> QED
        BY <1>2, <1>3, <3>3, <4>1 DEF Handled
    <3> QED
      BY <2>2, <3>1, <3>2, <3>3 DEF Handled
  <2> QED
    BY <2>1, <2>2
<1>9. /\ Skipped(log, Handled, job.version, job.skip + job.after)
      /\ \A f \in job.todo : \A t \in Topics : Top(log, t) <= f[2] => t \in Handled
  BY <1>1, <1>2 DEF SpaceItems
<1>10. SpacePlace'
  <2>1. job'.mode = "update" => job'.newest <= NewestArchived'
    <3> SUFFICES ASSUME job.mode = "update" PROVE job'.newest <= NewestArchived'
      BY <1>3
    <3>1. job'.newest \in {job.newest, e[2]}
      <4>1. Later(job.newest, e[2]) \in {job.newest, e[2]}
        BY <1>4, LaterIs
      <4> QED
        BY <1>2, <4>1
    <3>2. job.newest <= NewestArchived
      BY <1>1 DEF SpacePlace
    <3> QED
      BY <1>4, <1>7, <3>1, <3>2
  <2>2. mark <= NewestArchived' /\ (job.mode = "update" => job.version <= NewestArchived')
    BY <1>1, <1>4, <1>7 DEF SpacePlace
  <2> QED
    BY <1>1, <1>2, <1>3, <2>1, <2>2 DEF SpacePlace
<1>11. SpaceNewest'
  <2> SUFFICES ASSUME NEW t \in Topics, Top(log, t) <= NewestArchived' PROVE t \in Stored'
    BY <1>3 DEF SpaceNewest
  <2>1. CASE Top(log, t) <= NewestArchived
    BY <1>1, <1>8, <2>1 DEF SpaceNewest
  <2>2. CASE Top(log, t) <= e[2]
    <3>1. t \in Handled
      BY <1>9, <2>2
    <3>2. CASE t \in Stored
      BY <1>8, <3>2
    <3>3. CASE <<t, Top(log, t)>> \in job.todo
      <4>1. e[2] <= Top(log, t)
        BY <1>2, <3>3
      <4>2. Top(log, t) = Top(log, e[1]) /\ Top(log, t) # 0
        BY <1>4, <1>5, <2>2, <4>1
      <4>3. t = e[1]
        BY <1>4, <4>2
      <4> QED
        BY <1>8, <4>3
    <3> QED
      BY <3>1, <3>2, <3>3 DEF Handled
  <2> QED
    BY <1>7, <2>1, <2>2
<1>12. SpaceCursor' /\ SpaceWalk'
  <2>1. SpaceCursor'
    BY <1>1, <1>3, <1>8, SkippedGrows DEF SpaceCursor
  <2>2. SpaceWalk'
    BY <1>1, <1>3, <1>8, SkippedGrows DEF SpaceWalk
  <2> QED
    BY <2>1, <2>2
<1>13. SpaceItems'
  <2>1. Skipped(log, Handled', job.version, job.skip + job.after)
    BY <1>8, <1>9, SkippedGrows
  <2> QED
    BY <1>2, <1>3, <1>8, <1>9, <2>1 DEF SpaceItems
<1> QED
  BY <1>10, <1>11, <1>12, <1>13 DEF SpaceInv

LEMMA SpacePageDoneKeeps ==
  ASSUME Shapes, Sound, SpaceInv, kind = "snapshot", SpacePageDone
  PROVE  SpaceInv'
<1>1. SpacePlace /\ SpaceNewest /\ SpaceCursor /\ SpaceItems
  BY DEF SpaceInv
<1>2. /\ job.pc = "item" /\ job.todo = {} /\ Sets({"skip", "pc"})
      /\ job'.skip = job.skip + job.after /\ job'.pc \in {"end", "list"}
      /\ cursor' = IF job.mode = "backfill"
                   THEN [NoCursor EXCEPT !.skip = job.skip + job.after] ELSE cursor
      /\ log' = log /\ rec' = rec /\ mark' = mark
      /\ NewestArchived' = NewestArchived /\ Stored' = Stored
  BY SpacePageDoneIs, PeakStays, StoredStays
<1>3. /\ job'.mode = job.mode /\ job'.todo = {} /\ job'.version = job.version
      /\ job'.newest = job.newest
  BY <1>2 DEF Sets, Fields
<1>4. Handled \subseteq Stored
  BY <1>2 DEF Handled
<1>5. Skipped(log, Stored, job.version, job.skip + job.after)
  <2>1. Skipped(log, Handled, job.version, job.skip + job.after)
    BY <1>1, <1>2 DEF SpaceItems
  <2> QED
    BY <1>4, <2>1, SkippedGrows
<1>6. SpacePlace' /\ SpaceNewest'
  BY <1>1, <1>2, <1>3 DEF SpacePlace, SpaceNewest
<1>7. SpaceWalk' /\ SpaceItems'
  BY <1>2, <1>3, <1>5 DEF SpaceWalk, SpaceItems
<1>8. SpaceCursor'
  <2>1. CASE job.mode = "backfill"
    <3> DEFINE n == job.skip + job.after
    <3>1. cursor' = [NoCursor EXCEPT !.skip = n]
      BY <1>2, <2>1
    <3>2. cursor'.skip = n
      BY <3>1 DEF NoCursor
    <3>3. job.version = 0
      BY <1>1, <2>1 DEF SpacePlace
    <3> QED
      BY <1>2, <1>5, <3>2, <3>3 DEF SpaceCursor
  <2>2. CASE job.mode # "backfill"
    BY <1>1, <1>2, <2>2 DEF SpaceCursor
  <2> QED
    BY <2>1, <2>2
<1> QED
  BY <1>6, <1>7, <1>8 DEF SpaceInv

LEMMA NextSpace == Shapes /\ Sound /\ SpaceInv /\ [Next]_vars => SpaceInv'
<1> SUFFICES ASSUME Shapes, Sound, SpaceInv, [Next]_vars PROVE SpaceInv'
  OBVIOUS
<1>1. kind' = kind
  BY KindStays
<1>2. CASE kind # "snapshot"
  BY <1>1, <1>2 DEF SpaceInv
<1>3. CASE UNCHANGED vars
  <2>1. /\ log' = log /\ rec' = rec /\ job' = job /\ cursor' = cursor /\ mark' = mark
        /\ NewestArchived' = NewestArchived /\ Stored' = Stored /\ Handled' = Handled
    BY <1>3, PeakStays, StoredStays DEF vars, forum
  <2>2. SpacePlace => SpacePlace'
    BY <2>1 DEF SpacePlace
  <2>3. /\ SpaceNewest => SpaceNewest'
        /\ SpaceCursor => SpaceCursor'
        /\ SpaceWalk => SpaceWalk'
        /\ SpaceItems => SpaceItems'
    BY <2>1 DEF SpaceNewest, SpaceCursor, SpaceWalk, SpaceItems
  <2> QED
    BY <1>1, <2>2, <2>3 DEF SpaceInv
<1>4. CASE kind = "snapshot" /\ Next
  <2>1. CASE \E t \in Topics : SitePost(t)
    BY <1>4, <2>1, SitePostSpace
  <2>2. CASE Lose
    BY <1>4, <2>2, EndsSpace
  <2>3. CASE SnapshotNext
    <3>1. CASE BeginSpace \/ BeginSpaceUpdate
      BY <1>4, <3>1, BeginsSpace
    <3>2. CASE SpacePage \/ SpaceItem \/ SpacePageDone
      BY <1>4, <3>2, SpacePageKeeps, SpaceItemKeeps, SpacePageDoneKeeps
    <3>3. CASE SpaceStop \/ EndSpace \/ EndSpaceUpdate
      BY <1>4, <3>3, EndsSpace
    <3> QED
      BY <2>3, <3>1, <3>2, <3>3 DEF SnapshotNext
  <2>4. ~DiscourseNext /\ ~GithubNext
    BY <1>4 DEF DiscourseNext, GithubNext
  <2> QED
    BY <1>4, <2>1, <2>2, <2>3, <2>4 DEF Next
<1> QED
  BY <1>2, <1>3, <1>4

LEMMA SpaceIsAccounted == Shapes /\ SpaceInv => SpaceAccounted
<1> SUFFICES ASSUME Shapes, SpaceInv, kind = "snapshot", NEW t \in Topics,
                    Bump(t) <= SpaceSince
             PROVE  rec[t].bumped = Bump(t)
  BY DEF SpaceAccounted
<1>1. SpacePlace /\ SpaceNewest
  BY DEF SpaceInv
<1>2. mark \in Nat /\ NewestArchived \in Nat /\ Top(log, t) \in Nat /\ Bump(t) = Top(log, t)
  BY RepoTypes, SpaceTypes, TopsType, BumpIs
<1>3. Top(log, t) <= NewestArchived
  BY <1>1, <1>2 DEF SpacePlace, SpaceSince
<1> QED
  BY <1>1, <1>2, <1>3 DEF SpaceNewest, Stored

\* kb_github.py, kb_snapshot.py: between passes nothing is stale or missing
\* behind the point the next pass stops at, skips to or begins with, wherever
\* passes were cut short: in a repository save what a pass cut short had not
\* reached when the archive's newest date took the place of since, and in a
\* space nothing at all.
THEOREM PassesAreAccounted == Spec => []PassAccounted
<1>1. Init => Shapes /\ Sound /\ RepoInv /\ SpaceInv
  BY InitShapes, InitSound, InitRepo, InitSpace
<1>2. /\ Shapes /\ Sound /\ RepoInv /\ SpaceInv /\ [Next]_vars
      => Shapes' /\ Sound' /\ RepoInv' /\ SpaceInv'
  BY NextShapes, NextSound, NextRepo, NextSpace
<1>3. Shapes /\ RepoInv /\ SpaceInv => PassAccounted
  BY RepoIsAccounted, SpaceIsAccounted DEF PassAccounted
<1> QED
  BY <1>1, <1>2, <1>3, PTL DEF Spec
-----------------------------------------------------------------------------
(***************************************************************************)
(* What backfill_done claims of a repository or a space.  A row of theirs  *)
(* is written as a whole, so the archive has a post if its topic's row     *)
(* counts it, and nothing need be given up.                                *)
(***************************************************************************)
Got(k) == rec[log[k]].count >= Tally(log, log[k], k)

Whole == \A t \in Topics : rec[t].count = Tally(log, t, rec[t].bumped)

\* What was there when the backfill of a repository began lies past the saved
\* position, or, while a page is read, past its end or on it.
RepoListed(k) == \E e \in job.todo : e[1] = log[k] /\ k <= e[2]

RepoAhead(k) ==
    /\ Top(log, log[k]) > job.after
    /\ job.pc = "list" \/ (job.pc = "item" /\ job.more)

RepoDue ==
    /\ \A k \in 1 .. base : Got(k) \/ Top(log, log[k]) > cursor.after
    /\ job.mode = "backfill" => \A k \in 1 .. base : Got(k) \/ RepoListed(k) \/ RepoAhead(k)

\* A space's backfill ends with a page that is not full.
SpaceDue == job.mode = "backfill" =>
    /\ job.pc = "end" => \A k \in 1 .. base : Got(k)
    /\ job.pc = "item" /\ job.after < QueryPage => \A k \in 1 .. base : log[k] \in Handled

ClaimInv == kind # "discourse" =>
    /\ Whole
    /\ \A k \in 1 .. promised : Got(k)
    /\ kind = "github" => RepoDue
    /\ kind = "snapshot" => SpaceDue

\* A place in the log is a topic's, no newer than its newest.
LEMMA PlaceIs ==
  ASSUME Shapes, NEW k \in 1 .. Len(log)
  PROVE  /\ k \in Nat /\ k > 0 /\ log[k] \in Topics /\ Len(log) \in Nat
         /\ k <= Top(log, log[k]) /\ Top(log, log[k]) \in Nat
         /\ Tally(log, log[k], k) \in Nat
<1>1. /\ SiteShape /\ Len(log) \in Nat /\ k \in Nat /\ k > 0
  BY LogType DEF Shapes
<1> QED
  BY <1>1, LogType, TopIs, SpotsType

LEMMA BaseType ==
  ASSUME Shapes
  PROVE  /\ Len(log) \in Nat /\ base \in Nat /\ base <= Len(log)
         /\ promised \in Nat /\ promised <= Len(log)
         /\ \A k \in 1 .. base : k \in 1 .. Len(log)
         /\ \A k \in 1 .. promised : k \in 1 .. Len(log)
<1>1. /\ Len(log) \in Nat /\ base \in Nat /\ base <= Len(log)
      /\ promised \in Nat /\ promised <= Len(log)
  BY LogType DEF Shapes, RowShape
<1> QED
  BY <1>1

\* A row as of a later time counts no less.
LEMMA TallyMonotone ==
  ASSUME NEW s, NEW t, NEW v \in Nat, NEW w \in Nat, v <= w
  PROVE  Tally(s, t, v) <= Tally(s, t, w)
  BY TallyGrows

\* Counting strictly: a topic's own post counts.
LEMMA TallyOwn ==
  ASSUME NEW s, NEW v \in Nat, NEW k \in Nat, v < k
  PROVE  Tally(s, s[k], v) < Tally(s, s[k], k)
<1>1. Spots(s, s[k], v) \cup {k} \subseteq Spots(s, s[k], k) /\ k \notin Spots(s, s[k], v)
  BY DEF Spots
<1>2. IsFiniteSet(Spots(s, s[k], v)) /\ IsFiniteSet(Spots(s, s[k], k))
  BY SpotsType
<1>3. Cardinality(Spots(s, s[k], v) \cup {k}) = Cardinality(Spots(s, s[k], v)) + 1
  BY <1>1, <1>2, FS_AddElement
<1>4. Cardinality(Spots(s, s[k], v) \cup {k}) <= Cardinality(Spots(s, s[k], k))
  BY <1>1, <1>2, FS_Subset
<1>5. Tally(s, s[k], v) \in Nat /\ Tally(s, s[k], k) \in Nat
  BY SpotsType
<1> QED
  BY <1>3, <1>4, <1>5 DEF Tally

\* What is stored is had.
LEMMA StoredIsGot ==
  ASSUME Shapes, Whole, NEW k \in 1 .. Len(log), log[k] \in Stored
  PROVE  Got(k)
<1>1. rec[log[k]].count = Tally(log, log[k], Top(log, log[k]))
  BY PlaceIs DEF Whole, Stored
<1>2. Tally(log, log[k], k) <= Tally(log, log[k], Top(log, log[k]))
  BY PlaceIs, TallyMonotone
<1>3. Tally(log, log[k], Top(log, log[k])) \in Nat
  BY PlaceIs, SpotsType
<1> QED
  BY <1>1, <1>2, <1>3, PlaceIs DEF Got

LEMMA InitClaim == Init => ClaimInv
<1> SUFFICES ASSUME Init PROVE ClaimInv
  OBVIOUS
<1>1. /\ job.mode = "idle" /\ base = 0 /\ promised = 0
      /\ \A t \in Topics : rec[t].bumped = 0 /\ rec[t].count = 0
  BY IdleType DEF Init, NoTopic
<1>2. \A t : Tally(log, t, 0) = 0
  <2>1. \A t : Spots(log, t, 0) = {}
    BY DEF Spots
  <2> QED
    BY <2>1, FS_EmptySet DEF Tally
<1>3. Whole
  BY <1>1, <1>2 DEF Whole
<1> QED
  BY <1>1, <1>3 DEF ClaimInv, RepoDue, SpaceDue

\* Without new rows what is had stays had.
LEMMA SameRows ==
  ASSUME log' = log, rec' = rec
  PROVE  /\ Whole => Whole'
         /\ \A k : Got(k)' <=> Got(k)
  BY DEF Whole, Got

LEMMA PostKeepsGot ==
  ASSUME Shapes, NEW x \in Topics, SitePost(x)
  PROVE  /\ Whole => Whole'
         /\ \A k \in 1 .. Len(log) : Got(k)' <=> Got(k)
<1>1. /\ rec' = rec /\ \A k \in 1 .. Len(log) : log'[k] = log[k]
      /\ \A t : \A v \in 0 .. Len(log) : Tally(log', t, v) = Tally(log, t, v)
      /\ Len(log) \in Nat
  BY SitePostIs, PostGrows
<1>2. \A t \in Topics : rec[t].bumped \in 0 .. Len(log)
  BY <1>1, RepoTypes
<1> QED
  BY <1>1, <1>2 DEF Whole, Got

\* A topic written as of a time no earlier than before
LEMMA UpsertGets ==
  ASSUME Shapes, Whole, NEW t \in Topics, NEW v \in Nat, v <= Len(log),
         Upsert(t, v), rec[t].bumped <= v, log' = log
  PROVE  /\ Whole'
         /\ rec'[t].count = Tally(log, t, v) /\ rec[t].count <= Tally(log, t, v)
         /\ \A k \in 1 .. Len(log) : Got(k) \/ (log[k] = t /\ k <= v) => Got(k)'
<1>1. /\ rec' \in [Topics -> Recs] /\ \A u \in Topics \ {t} : rec'[u] = rec[u]
      /\ rec'[t].count = Tally(log, t, v) /\ rec'[t].bumped = v
  BY UpsertIs, PostsIs
<1>2. Whole'
  BY <1>1 DEF Whole
<1>3. /\ rec[t].bumped \in Nat /\ rec[t].count = Tally(log, t, rec[t].bumped)
      /\ Tally(log, t, rec[t].bumped) \in Nat /\ Tally(log, t, v) \in Nat
  BY RepoTypes, SpotsType DEF Whole
<1>4. rec[t].count <= Tally(log, t, v)
  BY <1>3, TallyMonotone
<1>5. ASSUME NEW k \in 1 .. Len(log), Got(k) \/ (log[k] = t /\ k <= v)
      PROVE  Got(k)'
  <2>1. log[k] \in Topics /\ k \in Nat /\ Tally(log, log[k], k) \in Nat
    BY PlaceIs
  <2>2. CASE log[k] # t
    BY <1>1, <1>5, <2>1, <2>2 DEF Got
  <2>3. CASE log[k] = t /\ k <= v
    <3>1. Tally(log, t, k) <= Tally(log, t, v)
      BY <2>1, <2>3, TallyMonotone
    <3> QED
      BY <1>1, <1>3, <2>1, <2>3, <3>1 DEF Got
  <2>4. CASE log[k] = t /\ Got(k)
    BY <1>1, <1>3, <1>4, <2>1, <2>4 DEF Got
  <2> QED
    BY <1>5, <2>2, <2>3, <2>4
<1> QED
  BY <1>1, <1>2, <1>4, <1>5

-----------------------------------------------------------------------------
\* Where nothing is written, read or begun, and the walk is where it was or
\* over, what is due stays due.
LEMMA DueStays ==
  ASSUME RepoDue, log' = log, rec' = rec, base' = base, cursor'.after = cursor.after,
         job' = job \/ job'.mode # "backfill"
  PROVE  RepoDue'
<1>1. \A k : /\ Got(k)' <=> Got(k)
             /\ job' = job => (RepoListed(k)' <=> RepoListed(k)) /\ (RepoAhead(k)' <=> RepoAhead(k))
  BY SameRows DEF RepoListed, RepoAhead
<1> QED
  BY <1>1 DEF RepoDue

LEMMA RepoPostDue ==
  ASSUME Shapes, kind = "github", RepoDue, NEW x \in Topics, SitePost(x)
  PROVE  RepoDue'
<1>1. /\ cursor' = cursor /\ job' = job /\ base' = base
      /\ \A k \in 1 .. Len(log) : log'[k] = log[k]
      /\ \A t : Top(log, t) <= Top(log', t) /\ Top(log, t) \in Nat /\ Top(log', t) \in Nat
  BY SitePostIs, PostGrows
<1>2. cursor.after \in Nat /\ job.after \in Nat
  BY RepoTypes
<1>3. ASSUME NEW k \in 1 .. base
      PROVE  /\ Got(k) => Got(k)'
             /\ Top(log, log[k]) > cursor.after => Top(log', log'[k]) > cursor.after
             /\ RepoListed(k) => RepoListed(k)'
             /\ RepoAhead(k) => RepoAhead(k)'
  <2>1. k \in 1 .. Len(log)
    BY BaseType
  <2>2. log'[k] = log[k] /\ (Got(k) => Got(k)')
    BY <1>1, <2>1, PostKeepsGot
  <2>3. /\ Top(log, log[k]) > cursor.after => Top(log', log'[k]) > cursor.after
        /\ Top(log, log[k]) > job.after => Top(log', log'[k]) > job.after
    BY <1>1, <1>2, <2>2
  <2> QED
    BY <1>1, <2>2, <2>3 DEF RepoListed, RepoAhead
<1> QED
  BY <1>1, <1>3 DEF RepoDue

LEMMA RepoPageMore ==
  ASSUME Shapes, RepoPage, Above(job.after) # {}
  PROVE  job'.more <=> Above(job'.after) # {}
<1> DEFINE page == Above(job.after)
           end  == Newest(Ends(Listed(page)))
           on   == Above(end) # {}
           new  == Listed(page)
<1>1. job' = [job EXCEPT !.pc = "item", !.todo = new, !.after = end, !.more = on]
  BY DEF RepoPage
<1>2. job \in Jobs
  BY DEF Shapes, JobShape
<1> HIDE DEF new, end
<1>3. job'.after = end
  BY <1>1, <1>2 DEF Jobs
<1>4. job'.more <=> on
  BY <1>1, <1>2, Zenon DEF Jobs
<1> QED
  BY <1>3, <1>4

LEMMA RepoPageDue ==
  ASSUME Shapes, RepoInv, kind = "github", RepoDue, RepoPage
  PROVE  RepoDue'
<1> DEFINE page == Above(job.after)
<1>1. /\ log' = log /\ rec' = rec /\ cursor' = cursor /\ base' = base
      /\ job.mode = "backfill" /\ job.pc = "list" /\ job.todo = {}
      /\ job.after \in Nat /\ SiteShape /\ \A t : Top(log, t) \in Nat
  BY RepoPageIs, RepoTypes, TopsType DEF RepoInv, RepoPlace
<1>2. \A k \in 1 .. base : Got(k) \/ Top(log, log[k]) > job.after
  BY <1>1 DEF RepoDue, RepoListed, RepoAhead
<1>3. \A k \in 1 .. base : /\ k \in 1 .. Len(log) /\ log[k] \in Topics
                           /\ k <= Top(log, log[k])
  BY BaseType, PlaceIs
<1>4. ASSUME NEW k \in 1 .. base PROVE Got(k)' \/ RepoListed(k)' \/ RepoAhead(k)'
  <2> SUFFICES ASSUME ~Got(k) PROVE RepoListed(k)' \/ RepoAhead(k)'
    BY <1>1, SameRows
  <2>1. log[k] \in Topics /\ Top(log, log[k]) > job.after /\ page # {}
    BY <1>1, <1>2, <1>3, AboveIs
  <2>2. /\ job'.pc = "item" /\ job'.todo = Listed(page)
        /\ job'.after \in Nat
        /\ \E e \in job'.todo : e[2] = job'.after
    BY <2>1, RepoPageIs DEF Sets, Jobs
  <2>3. page \subseteq Topics
    BY <1>1, AboveIs
  <2>4. CASE log[k] \in page
    <3>1. <<log[k], Bump(log[k])>> \in job'.todo
      BY <1>1, <2>2, <2>3, <2>4, ListedType
    <3> QED
      BY <1>1, <1>3, <3>1, BumpIs DEF RepoListed
  <2>5. CASE log[k] \notin page
    <3>1. PICK e \in job'.todo : e[2] = job'.after
      BY <2>2
    <3>2. e[1] \in page /\ e[2] = Top(log, e[1])
      BY <1>1, <2>2, <2>3, <3>1, ListedType, BumpIs
    <3>3. Top(log, log[k]) > job'.after
      BY <1>1, <2>1, <2>2, <2>5, <3>1, <3>2, AboveIs
    <3>4. job'.more
      BY <1>1, <2>1, <2>2, <3>3, AboveIs, RepoPageMore
    <3> QED
      BY <1>1, <2>2, <3>3, <3>4 DEF RepoAhead
  <2> QED
    BY <2>4, <2>5
<1>5. \A k \in 1 .. base : Got(k)' \/ Top(log, log[k]) > cursor.after
  BY <1>1, SameRows DEF RepoDue
<1> QED
  BY <1>1, <1>4, <1>5 DEF RepoDue

LEMMA RepoPageDoneDue ==
  ASSUME Shapes, kind = "github", RepoDue, RepoPageDone
  PROVE  RepoDue'
<1>1. /\ log' = log /\ rec' = rec /\ base' = base
      /\ job.mode = "backfill" /\ job.pc = "item" /\ job.todo = {}
      /\ job'.after = job.after /\ job'.pc = (IF job.more THEN "list" ELSE "end")
      /\ cursor'.after = job.after
  BY RepoPageDoneIs DEF Sets, Fields, NoCursor
<1>2. \A k \in 1 .. base : Got(k) \/ (Top(log, log[k]) > job.after /\ job.more)
  BY <1>1 DEF RepoDue, RepoListed, RepoAhead
<1>3. \A k \in 1 .. base : Got(k)' \/ (Top(log, log[k]) > job.after /\ job'.pc = "list")
  BY <1>1, <1>2, SameRows
<1> QED
  BY <1>1, <1>3 DEF RepoDue, RepoAhead

LEMMA RepoItemDue ==
  ASSUME Shapes, RepoInv, kind = "github", Whole, RepoDue, RepoItem
  PROVE  Whole' /\ RepoDue' /\ \A k \in 1 .. Len(log) : Got(k) => Got(k)'
<1>1. PICK e \in job.todo :
        /\ e \in Topics \X Nat /\ job.mode = "backfill" /\ job.pc = "item"
        /\ Upsert(e[1], e[2])
        /\ Sets({"todo"}) /\ job'.todo = job.todo \ {e}
        /\ log' = log /\ cursor' = cursor /\ base' = base
  BY RepoItemIs
<1>2. /\ job'.pc = "item" /\ job'.after = job.after
      /\ job'.more = job.more
  BY <1>1 DEF Sets, Fields
<1>3. e[1] \in Topics /\ e[2] \in Nat /\ e[2] <= Len(log) /\ rec[e[1]].bumped <= e[2]
  BY <1>1, RepoTypes DEF RepoInv, RepoTimes
<1>4. /\ Whole'
      /\ \A k \in 1 .. Len(log) : Got(k) \/ (log[k] = e[1] /\ k <= e[2]) => Got(k)'
  BY <1>1, <1>3, UpsertGets
<1>5. ASSUME NEW k \in 1 .. base
      PROVE  /\ Got(k)' \/ Top(log, log[k]) > cursor.after
             /\ Got(k)' \/ RepoListed(k)' \/ RepoAhead(k)'
  <2>1. k \in 1 .. Len(log)
    BY BaseType
  <2>2. Got(k) => Got(k)'
    BY <1>4, <2>1
  <2>3. RepoListed(k) => Got(k)' \/ RepoListed(k)'
    <3> SUFFICES ASSUME NEW f \in job.todo, f[1] = log[k], k <= f[2]
                 PROVE  Got(k)' \/ RepoListed(k)'
      BY DEF RepoListed
    <3>1. CASE f = e
      BY <1>4, <2>1, <3>1
    <3>2. CASE f # e
      BY <1>1, <3>2 DEF RepoListed
    <3> QED
      BY <3>1, <3>2
  <2>4. RepoAhead(k) => RepoAhead(k)'
    BY <1>1, <1>2 DEF RepoAhead
  <2> QED
    BY <1>1, <2>2, <2>3, <2>4 DEF RepoDue
<1> QED
  BY <1>1, <1>4, <1>5 DEF RepoDue

LEMMA NewestItemDue ==
  ASSUME Shapes, RepoInv, kind = "github", Whole, RepoDue, NewestItem
  PROVE  Whole' /\ RepoDue' /\ \A k \in 1 .. Len(log) : Got(k) => Got(k)'
<1>1. PICK e \in job.todo :
        /\ e \in Topics \X Nat /\ job.mode = "update"
        /\ rec' = rec \/ Upsert(e[1], e[2])
        /\ job'.mode = "update"
        /\ log' = log /\ cursor' = cursor /\ base' = base
  BY NewestItemIs DEF Sets, Fields
<1>2. e[1] \in Topics /\ e[2] \in Nat /\ e[2] <= Len(log) /\ rec[e[1]].bumped <= e[2]
  BY <1>1, RepoTypes DEF RepoInv, RepoTimes
<1>3. Whole' /\ \A k \in 1 .. Len(log) : Got(k) => Got(k)'
  <2>1. CASE rec' = rec
    BY <1>1, <2>1, SameRows
  <2>2. CASE Upsert(e[1], e[2])
    BY <1>1, <1>2, <2>2, UpsertGets
  <2> QED
    BY <1>1, <2>1, <2>2
<1>4. \A k \in 1 .. base : Got(k)' \/ Top(log, log[k]) > cursor.after
  BY <1>3, BaseType DEF RepoDue
<1> QED
  BY <1>1, <1>3, <1>4 DEF RepoDue

\* The pass begins where the last one was cut short, or anew.
LEMMA BeginRepoDue ==
  ASSUME Shapes, kind = "github", RepoDue, BeginRepo
  PROVE  RepoDue'
<1>1. /\ log' = log /\ rec' = rec /\ cursor' = cursor /\ Rebase
      /\ job'.mode = "backfill" /\ job'.pc = "list" /\ job'.after = cursor.after
  BY BeginRepoIs
<1>2. base' = base \/ (base' = Len(log) /\ cursor.after = 0)
  BY <1>1 DEF Rebase
<1>3. \A k \in 1 .. base' : Got(k)' \/ Top(log, log[k]) > cursor.after
  <2>1. CASE base' = base
    BY <1>1, <2>1, SameRows DEF RepoDue
  <2>2. CASE base' = Len(log) /\ cursor.after = 0
    <3>1. \A k \in 1 .. Len(log) : Top(log, log[k]) > 0
      BY PlaceIs
    <3> QED
      BY <2>2, <3>1
  <2> QED
    BY <1>2, <2>1, <2>2
<1> QED
  BY <1>1, <1>3 DEF RepoDue, RepoAhead

\* A finished pass, and a watermark in the cursor, put the position to 0.
LEMMA RepoAnew ==
  ASSUME Shapes, log' = log, base' \in 0 .. Len(log), cursor'.after = 0,
         job'.mode # "backfill"
  PROVE  RepoDue'
<1>1. Len(log) \in Nat
  BY BaseType
<1>2. ASSUME NEW k \in 1 .. base' PROVE Top(log, log[k]) > 0
  <2>1. k \in 1 .. Len(log)
    BY <1>1
  <2> QED
    BY <2>1, PlaceIs
<1> QED
  BY <1>2 DEF RepoDue

LEMMA RepoClaim ==
  ASSUME Shapes, Sound, RepoInv, ClaimInv, kind = "github", Next
  PROVE  ClaimInv'
<1>0. /\ Whole /\ RepoDue /\ (\A k \in 1 .. promised : Got(k)) /\ kind' = kind
      /\ [Next]_vars
  BY KindStays DEF ClaimInv
<1>1. base \in 0 .. Len(log) /\ Len(log) \in Nat /\ \A k \in 1 .. promised : k \in 1 .. Len(log)
  BY BaseType
<1>a. ASSUME Whole', RepoDue', promised' = promised,
             \A k \in 1 .. Len(log) : Got(k) => Got(k)'
      PROVE  ClaimInv'
  BY <1>0, <1>1, <1>a DEF ClaimInv
<1>b. ASSUME log' = log, rec' = rec, promised' = promised, RepoDue'
      PROVE  ClaimInv'
  BY <1>0, <1>a, <1>b, SameRows
<1>2. CASE \E x \in Topics : SitePost(x)
  BY <1>0, <1>2, <1>a, RepoPostDue, PostKeepsGot, SitePostIs
<1>3. CASE Lose \/ RepoStop
  <2>1. /\ log' = log /\ rec' = rec /\ promised' = promised /\ base' = base
        /\ job'.mode # "backfill" /\ cursor'.after = cursor.after
    BY <1>3, LoseIs, RepoStopIs, IdleType DEF Starts, Fields, NoCursor
  <2> QED
    BY <1>0, <1>b, <2>1, DueStays
<1>4. CASE RepoPage
  BY <1>0, <1>4, <1>b, RepoPageDue, RepoPageIs
<1>5. CASE RepoItem
  <2>1. promised' = promised
    BY <1>5, RepoItemIs
  <2> QED
    BY <1>0, <1>5, <1>a, <2>1, RepoItemDue
<1>6. CASE RepoPageDone
  BY <1>0, <1>6, <1>b, RepoPageDoneDue, RepoPageDoneIs
<1>7. CASE BeginRepo
  BY <1>0, <1>7, <1>b, BeginRepoDue, BeginRepoIs
<1>8. CASE EndRepo
  <2>1. /\ log' = log /\ rec' = rec /\ base' = 0 /\ job.mode = "backfill" /\ job.pc = "end"
        /\ promised' = Later(promised, base) /\ cursor'.after = 0 /\ job'.mode # "backfill"
    BY <1>8, EndRepoIs, IdleType DEF Starts, Fields
  <2>2. job.todo = {}
    BY <2>1, <1>0 DEF RepoInv, RepoPlace
  <2>3. \A k \in 1 .. base : Got(k)
    BY <1>0, <2>1, <2>2 DEF RepoDue, RepoListed, RepoAhead
  <2>4. promised' \in {promised, base}
    BY <2>1, BaseType, LaterIs
  <2>5. \A k \in 1 .. promised' : Got(k)'
    BY <1>0, <2>1, <2>3, <2>4, SameRows
  <2>6. RepoDue'
    BY <1>1, <2>1, RepoAnew
  <2> QED
    BY <1>0, <2>1, <2>5, <2>6, SameRows DEF ClaimInv
<1>9. CASE BeginRepoUpdate \/ NewestPage \/ NewestPageDone
  <2>1. /\ log' = log /\ rec' = rec /\ promised' = promised /\ base' = base
        /\ cursor' = cursor /\ job'.mode # "backfill"
    <3>1. CASE BeginRepoUpdate
      BY <3>1, BeginRepoUpdateIs
    <3>2. CASE NewestPage
      BY <3>2, NewestPageIs DEF Sets, Fields
    <3>3. CASE NewestPageDone
      BY <3>3, NewestPageDoneIs DEF Sets, Fields
    <3> QED
      BY <1>9, <3>1, <3>2, <3>3
  <2> QED
    BY <1>0, <1>b, <2>1, DueStays
<1>10. CASE NewestItem
  <2>1. promised' = promised
    BY <1>10, NewestItemIs
  <2> QED
    BY <1>0, <1>10, <1>a, <2>1, NewestItemDue
<1>11. CASE EndRepoUpdate
  <2>1. /\ log' = log /\ rec' = rec /\ promised' = promised /\ base' = base
        /\ job'.mode # "backfill" /\ cursor'.after = 0
    BY <1>11, EndRepoUpdateIs, IdleType DEF Starts, Fields, NoCursor
  <2> QED
    BY <1>1, <1>b, <2>1, RepoAnew
<1>12. ~DiscourseNext /\ ~SnapshotNext
  BY <1>0 DEF DiscourseNext, SnapshotNext
<1> QED
  BY <1>2, <1>3, <1>4, <1>5, <1>6, <1>7, <1>8, <1>9, <1>10, <1>11, <1>12
     DEF Next, GithubNext

-----------------------------------------------------------------------------
\* Seats are taken without a gap.
LEMMA SeatFill ==
  ASSUME NEW s, Len(s) \in Nat, NEW v \in Nat, NEW t \in Young(s, v),
         NEW n \in Nat, n <= Seat(s, v, t)
  PROVE  \E u \in Young(s, v) : Seat(s, v, u) = n
<1> DEFINE S == Young(s, v)
           R == {e \in Topics \X Topics : Top(s, e[1]) < Top(s, e[2])}
<1>0. (\A u : Top(s, u) \in Nat) /\ S \subseteq Topics
  BY TopIs, YoungIs
<1>1. Orders(S, R)
  <2>1. IsFiniteSet(S)
    BY YoungIs
  <2>2. \A u, w \in Topics : <<u, w>> \in R <=> Top(s, u) < Top(s, w)
    OBVIOUS
  <2>3. \A u, w \in S : u # w => Top(s, u) # Top(s, w)
    <3>1. \A u \in S : Top(s, u) # 0
      BY <1>0 DEF Young
    <3> HIDE DEF S
    <3> QED
      BY <1>0, <3>1, TopOfOne
  <2> HIDE DEF R, S
  <2> QED
    BY <1>0, <2>1, <2>2, <2>3 DEF Orders
<1>2. ASSUME NEW u \in S PROVE Nth(S, R, u) = Seat(s, v, u)
  <2>1. Ahead(S, R, u) = {w \in Young(s, v) : Top(s, w) < Top(s, u)}
    BY <1>0 DEF Ahead
  <2> QED
    BY <2>1 DEF Nth, Seat
<1>3. t \in S
  OBVIOUS
<1> HIDE DEF R
<1>4. PICK u \in S : Nth(S, R, u) = n
  BY SMTT(30), <1>1, <1>2, <1>3, NthFill
<1> QED
  BY <1>2, <1>4

\* Behind a page that is not full there is nothing.
LEMMA SliceRest ==
  ASSUME SiteShape, NEW v \in Nat, NEW n \in Nat, Cardinality(Slice(v, n)) < QueryPage,
         NEW t \in Young(log, v)
  PROVE  Seat(log, v, t) < n + QueryPage
<1> DEFINE P == Slice(v, n)
           I == n .. n + QueryPage - 1
<1>1. Len(log) \in Nat /\ QueryPage \in Nat /\ QueryPage > 0 /\ Seat(log, v, t) \in Nat
  BY LogType, ForumBounds, YoungIs
<1> SUFFICES ASSUME n + QueryPage <= Seat(log, v, t) PROVE FALSE
  BY <1>1
<1>2. ASSUME NEW i \in I PROVE \E e \in P : Seat(log, v, e[1]) = i
  <2>1. i \in Nat /\ i <= Seat(log, v, t)
    BY <1>1
  <2>2. PICK u \in Young(log, v) : Seat(log, v, u) = i
    BY <1>1, <2>1, SeatFill
  <2>3. <<u, Top(log, u)>> \in P
    BY <2>2, SliceIs
  <2> QED
    BY <2>2, <2>3
<1> DEFINE at == [i \in I |-> CHOOSE e \in P : Seat(log, v, e[1]) = i]
<1>3. \A i \in I : at[i] \in P /\ Seat(log, v, at[i][1]) = i
  BY <1>2
<1>4. at \in Injection(I, P)
  BY <1>3 DEF Injection, IsInjective
<1>5. IsFiniteSet(P)
  BY SliceFinite
<1>6. Cardinality(I) = QueryPage
  <2> DEFINE m == n + QueryPage - 1
  <2>1. n \in Int /\ m \in Int /\ ~(n > m) /\ m - n + 1 = QueryPage
    BY <1>1
  <2> HIDE DEF m
  <2>2. Cardinality(n .. m) = IF n > m THEN 0 ELSE m - n + 1
    BY <2>1, FS_Interval
  <2> QED
    BY <2>1, <2>2 DEF m
<1> HIDE DEF at, I, P
<1>7. Cardinality(I) <= Cardinality(P) /\ Cardinality(P) \in Nat
  BY <1>4, <1>5, FS_Injection, FS_CardinalityType
<1> QED
  BY <1>1, <1>6, <1>7 DEF P

LEMMA SpacePageDue ==
  ASSUME Shapes, Sound, SpaceInv, kind = "snapshot", Whole, SpacePage
  PROVE  SpaceDue'
<1> SUFFICES ASSUME job'.mode = "backfill" PROVE SpaceDue'
  BY DEF SpaceDue
<1> DEFINE n == job.skip
           page == Slice(0, n)
<1>1. /\ log' = log /\ rec' = rec /\ base' = base /\ job.mode = "backfill"
      /\ job'.pc = (IF Slice(job.version, n) = {} THEN "end" ELSE "item")
      /\ job'.todo = Slice(job.version, n)
      /\ job'.after = Cardinality(Slice(job.version, n))
  BY SpacePageIs DEF Sets, Fields
<1>2. job.version = 0 /\ Skipped(log, Stored, 0, n)
  BY <1>1 DEF SpaceInv, SpacePlace, SpaceWalk
<1>3. n \in Nat /\ SiteShape /\ QueryPage \in Nat /\ QueryPage > 0
  BY SpaceTypes, ForumBounds DEF Shapes
<1>4. \A k \in 1 .. base : /\ k \in 1 .. Len(log) /\ log[k] \in Topics
                           /\ log[k] \in Young(log, 0)
  <2>1. \A k \in 1 .. base : k \in 1 .. Len(log)
    BY BaseType
  <2> SUFFICES ASSUME NEW k \in 1 .. base PROVE log[k] \in Topics /\ log[k] \in Young(log, 0)
    BY <2>1
  <2>2. k \in 1 .. Len(log)
    BY <2>1
  <2>3. log[k] \in Topics /\ Top(log, log[k]) > 0
    BY <2>2, PlaceIs
  <2> QED
    BY <2>3 DEF Young
<1>5. Stored' = Stored /\ Cardinality({}) = 0
  BY <1>1, StoredStays, FS_EmptySet
<1>6. ASSUME Cardinality(page) < QueryPage, NEW k \in 1 .. base
      PROVE  log[k] \in Stored \/ <<log[k], Top(log, log[k])>> \in page
  <2>1. log[k] \in Young(log, 0) /\ log[k] \in Topics
    BY <1>4
  <2>2. Seat(log, 0, log[k]) < n + QueryPage /\ Seat(log, 0, log[k]) \in Nat
    BY <1>3, <1>6, <2>1, SliceRest, YoungIs
  <2>3. CASE Seat(log, 0, log[k]) < n
    BY <1>2, <2>1, <2>3 DEF Skipped
  <2>4. CASE ~(Seat(log, 0, log[k]) < n)
    <3>1. Seat(log, 0, log[k]) \in n .. n + QueryPage - 1
      BY <1>3, <2>2, <2>4
    <3> QED
      BY <1>3, <2>1, <3>1, SliceIs
  <2> QED
    BY <2>3, <2>4
<1> HIDE DEF page
<1>7. ASSUME job'.pc = "end", NEW k \in 1 .. base PROVE Got(k)'
  <2>1. page = {} /\ Cardinality(page) < QueryPage
    BY <1>1, <1>2, <1>3, <1>5, <1>7 DEF page
  <2>2. log[k] \in Stored /\ k \in 1 .. Len(log)
    BY <1>4, <1>6, <2>1
  <2> QED
    BY <1>1, <2>2, StoredIsGot, SameRows
<1>8. ASSUME job'.after < QueryPage, NEW k \in 1 .. base PROVE log[k] \in Handled'
  <2>1. Cardinality(page) < QueryPage /\ job'.todo = page
    BY <1>1, <1>2, <1>8 DEF page
  <2>2. log[k] \in Stored \/ <<log[k], Top(log, log[k])>> \in page
    BY <1>6, <2>1
  <2> QED
    BY <1>1, <1>4, <1>5, <2>1, <2>2 DEF Handled
<1> QED
  BY <1>1, <1>7, <1>8 DEF SpaceDue

LEMMA SpaceItemDue ==
  ASSUME Shapes, Sound, SpaceInv, kind = "snapshot", Whole, SpaceDue, SpaceItem
  PROVE  Whole' /\ SpaceDue' /\ \A k \in 1 .. Len(log) : Got(k) => Got(k)'
<1>1. PICK e \in job.todo :
        /\ e \in Topics \X Nat /\ job.pc = "item"
        /\ Upsert(e[1], e[2])
        /\ Sets({"todo", "newest"}) /\ job'.todo = job.todo \ {e}
        /\ log' = log /\ base' = base
  BY SpaceItemIs
<1>2. job'.mode = job.mode /\ job'.pc = "item" /\ job'.after = job.after
  BY <1>1 DEF Sets, Fields
<1>3. e[1] \in Topics /\ e[2] \in Nat /\ e[2] <= Len(log) /\ e[2] = Top(log, e[1])
      /\ e = <<e[1], e[2]>>
  BY <1>1, RepoTypes DEF SpaceInv, SpacePlace
<1>4. /\ rec' \in [Topics -> Recs] /\ \A t \in Topics \ {e[1]} : rec'[t] = rec[t]
      /\ rec'[e[1]].bumped = e[2]
  BY <1>1, <1>3, UpsertIs
<1>5. rec[e[1]].bumped <= e[2]
  BY <1>3 DEF Sound, RecSound
<1>6. /\ Whole'
      /\ \A k \in 1 .. Len(log) : Got(k) => Got(k)'
  BY <1>1, <1>3, <1>5, UpsertGets
<1>7. ASSUME NEW t \in Handled PROVE t \in Handled'
  <2>1. t \in Topics
    BY DEF Handled
  <2>2. CASE t = e[1]
    BY <1>1, <1>3, <1>4, <2>1, <2>2 DEF Handled, Stored
  <2>3. CASE t # e[1] /\ t \in Stored
    BY <1>1, <1>4, <2>1, <2>3 DEF Handled, Stored
  <2>4. CASE t # e[1] /\ <<t, Top(log, t)>> \in job.todo
    <3>1. <<t, Top(log, t)>> # e
      BY <2>4
    <3> QED
      BY <1>1, <2>1, <2>4, <3>1 DEF Handled
  <2> QED
    BY <2>2, <2>3, <2>4 DEF Handled
<1>8. SpaceDue'
  BY <1>1, <1>2, <1>7 DEF SpaceDue
<1> QED
  BY <1>6, <1>8

LEMMA SpacePageDoneDue ==
  ASSUME Shapes, kind = "snapshot", Whole, SpaceDue, SpacePageDone
  PROVE  SpaceDue'
<1>1. /\ log' = log /\ rec' = rec /\ base' = base /\ job.pc = "item" /\ job.todo = {}
      /\ job'.mode = job.mode
      /\ job'.pc = (IF job.after < QueryPage THEN "end" ELSE "list")
  BY SpacePageDoneIs DEF Sets, Fields
<1>2. Handled \subseteq Stored
  BY <1>1 DEF Handled
<1>3. ASSUME job.mode = "backfill", job.after < QueryPage, NEW k \in 1 .. base PROVE Got(k)'
  <2>1. k \in 1 .. Len(log) /\ log[k] \in Stored
    BY <1>1, <1>2, <1>3, BaseType DEF SpaceDue
  <2> QED
    BY <1>1, <2>1, StoredIsGot, SameRows
<1> QED
  BY <1>1, <1>3 DEF SpaceDue

LEMMA SpacePostDue ==
  ASSUME Shapes, kind = "snapshot", SpaceDue, NEW x \in Topics, SitePost(x)
  PROVE  SpaceDue'
<1>1. /\ log' = Append(log, x) /\ rec' = rec /\ job' = job /\ base' = base /\ Top(log, x) = 0
      /\ \A t : t # x => Top(log', t) = Top(log, t)
  BY SitePostIs
<1>2. ASSUME NEW k \in 1 .. base
      PROVE  /\ Got(k) => Got(k)'
             /\ log[k] \in Handled => log'[k] \in Handled'
  <2>1. k \in 1 .. Len(log)
    BY BaseType
  <2>2. log'[k] = log[k] /\ (Got(k) => Got(k)')
    BY <2>1, SitePostIs, PostGrows, PostKeepsGot
  <2>3. Top(log, log[k]) # 0
    BY <2>1, PlaceIs
  <2>4. Top(log', log[k]) = Top(log, log[k])
    BY <1>1, <2>3
  <2> QED
    BY <1>1, <2>2, <2>4 DEF Handled, Stored
<1> QED
  BY <1>1, <1>2 DEF SpaceDue

LEMMA SpaceClaim ==
  ASSUME Shapes, Sound, SpaceInv, ClaimInv, kind = "snapshot", Next
  PROVE  ClaimInv'
<1>0. /\ Whole /\ SpaceDue /\ (\A k \in 1 .. promised : Got(k)) /\ kind' = kind
      /\ [Next]_vars
  BY KindStays DEF ClaimInv
<1>1. \A k \in 1 .. promised : k \in 1 .. Len(log)
  BY BaseType
<1>a. ASSUME Whole', SpaceDue', promised' = promised,
             \A k \in 1 .. Len(log) : Got(k) => Got(k)'
      PROVE  ClaimInv'
  BY <1>0, <1>1, <1>a DEF ClaimInv
<1>b. ASSUME log' = log, rec' = rec, promised' = promised, SpaceDue'
      PROVE  ClaimInv'
  BY <1>0, <1>a, <1>b, SameRows
<1>2. CASE \E x \in Topics : SitePost(x)
  BY <1>0, <1>2, <1>a, SpacePostDue, PostKeepsGot, SitePostIs
<1>3. CASE Lose \/ SpaceStop \/ EndSpaceUpdate
  <2>1. log' = log /\ rec' = rec /\ promised' = promised /\ job'.mode # "backfill"
    BY <1>3, LoseIs, SpaceStopIs, EndSpaceUpdateIs, IdleType DEF Starts, Fields
  <2> QED
    BY <1>b, <2>1 DEF SpaceDue
<1>4. CASE BeginSpace \/ BeginSpaceUpdate
  <2>1. log' = log /\ rec' = rec /\ promised' = promised /\ job'.pc = "list"
    BY <1>4, BeginSpaceIs, BeginSpaceUpdateIs
  <2> QED
    BY <1>b, <2>1 DEF SpaceDue
<1>5. CASE SpacePage
  BY <1>0, <1>5, <1>b, SpacePageDue, SpacePageIs
<1>6. CASE SpaceItem
  <2>1. promised' = promised
    BY <1>6, SpaceItemIs
  <2> QED
    BY <1>0, <1>6, <1>a, <2>1, SpaceItemDue
<1>7. CASE SpacePageDone
  BY <1>0, <1>7, <1>b, SpacePageDoneDue, SpacePageDoneIs
<1>8. CASE EndSpace
  <2>1. /\ log' = log /\ rec' = rec /\ job.mode = "backfill" /\ job.pc = "end"
        /\ promised' = Later(promised, base) /\ job'.mode # "backfill"
    BY <1>8, EndSpaceIs, IdleType DEF Starts, Fields
  <2>2. promised' \in {promised, base}
    BY <2>1, BaseType, LaterIs
  <2>3. \A k \in 1 .. promised' : Got(k)'
    BY <1>0, <2>1, <2>2, SameRows DEF SpaceDue
  <2>4. SpaceDue'
    BY <2>1 DEF SpaceDue
  <2> QED
    BY <1>0, <2>1, <2>3, <2>4, SameRows DEF ClaimInv
<1>9. ~DiscourseNext /\ ~GithubNext
  BY <1>0 DEF DiscourseNext, GithubNext
<1> QED
  BY <1>2, <1>3, <1>4, <1>5, <1>6, <1>7, <1>8, <1>9 DEF Next, SnapshotNext

LEMMA NextClaim ==
  Shapes /\ Sound /\ RepoInv /\ SpaceInv /\ ClaimInv /\ [Next]_vars => ClaimInv'
<1> SUFFICES ASSUME Shapes, Sound, RepoInv, SpaceInv, ClaimInv, [Next]_vars PROVE ClaimInv'
  OBVIOUS
<1>1. kind' = kind /\ kind \in {"discourse", "github", "snapshot"}
  BY KindStays DEF Shapes, SiteShape
<1>2. CASE kind = "discourse"
  BY <1>1, <1>2 DEF ClaimInv
<1>3. CASE UNCHANGED vars
  BY <1>3 DEF vars, forum, history, ClaimInv, Whole, Got, RepoDue, RepoListed, RepoAhead,
     SpaceDue, Handled, Stored
<1>4. CASE kind = "github" /\ Next
  BY <1>4, RepoClaim
<1>5. CASE kind = "snapshot" /\ Next
  BY <1>5, SpaceClaim
<1> QED
  BY <1>1, <1>2, <1>3, <1>4, <1>5

\* What the invariants of the three kinds say together
CrawlInv == /\ Shapes /\ Sound
            /\ ForumInv /\ RepoInv /\ SpaceInv /\ ClaimInv

LEMMA CrawlInvHolds == Spec => []CrawlInv
<1>1. Init => CrawlInv
  BY InitShapes, InitSound, InitForum, InitRepo, InitSpace, InitClaim DEF CrawlInv
<1>2. CrawlInv /\ [Next]_vars => CrawlInv'
  BY NextShapes, NextSound, NextForum, NextRepo, NextSpace, NextClaim DEF CrawlInv
<1> QED
  BY <1>1, <1>2, PTL DEF Spec

\* Whatever the kind, what is claimed is known, and given up only of a forum.
LEMMA PromisesHold ==
  ASSUME CrawlInv, NEW k \in 1 .. promised
  PROVE  /\ Known(k)
         /\ rec[log[k]].count >= Tally(log, log[k], k)
              \/ (kind = "discourse" /\ log[k] \in excused)
  BY DEF CrawlInv, ForumInv, PromiseKept, ClaimInv, Got, Known

\* backfill, incremental of kb.py and the backfills of kb_github.py and
\* kb_snapshot.py: whatever the row of a forum claims to have read is in the
\* archive or, on a Discourse site alone, given up, through stops, deaths and
\* resumptions anywhere and posts at any time.
THEOREM ForumIsAccounted == Spec => []ForumAccounted
<1>1. CrawlInv => ForumAccounted
  BY PromisesHold, PostsIs DEF ForumAccounted, Covered
<1> QED
  BY <1>1, CrawlInvHolds, PTL

-----------------------------------------------------------------------------
(***************************************************************************)
(* KbCrawl implements Archive.  A page that is listed, a cursor that is    *)
(* saved and a job that stops change nothing there or give a topic up; a   *)
(* row that is written is a Read, the end of a pass a Claim.               *)
(***************************************************************************)
LEMMA CountsAgree == \A S : Promise!Cardinality(S) = Cardinality(S)
  BY DEF Promise!Cardinality, Cardinality

LEMMA PostIsPost ==
  ASSUME Shapes, NEW x \in Topics, SitePost(x)
  PROVE  Promise!Post(x)
<1>1. /\ log' = Append(log, x) /\ excused' \in {excused, excused \cup {x}}
      /\ rec' = rec /\ promised' = promised
  BY SitePostIs
<1> QED
  BY <1>1 DEF Promise!Post

LEMMA QuietIsGiveUp ==
  ASSUME Shapes', log' = log, promised' = promised, excused \subseteq excused',
         \A t \in Topics : rec'[t].count = rec[t].count
  PROVE  Promise!GiveUp
<1>1. excused' \subseteq Topics
  BY DEF Shapes, SiteShape
<1> QED
  BY <1>1 DEF Promise!GiveUp

LEMMA EndIsClaim ==
  ASSUME CrawlInv, CrawlInv', log' = log, rec' = rec, excused' = excused,
         promised <= promised'
  PROVE  Promise!Claim
<1>1. promised' \in promised .. Len(log)
  <2>1. promised \in Nat /\ promised' \in Nat /\ promised' <= Len(log') /\ Len(log) \in Nat
    BY BaseType DEF CrawlInv, Shapes, RowShape
  <2> QED
    BY <2>1
<1>2. \A k \in 1 .. promised' : Known(k)'
  BY DEF CrawlInv, ForumInv, PromiseKept, ClaimInv, Got, Known
<1>3. \A k \in 1 .. promised' :
         \/ rec[log[k]].count >= Cardinality({i \in 1 .. k : log[i] = log[k]})
         \/ log[k] \in excused
  BY <1>2 DEF Known, Tally, Spots
<1>4. \A k \in 1 .. promised' : log[k] \in Topics
  <2> SUFFICES ASSUME NEW k \in 1 .. promised' PROVE log[k] \in Topics
    OBVIOUS
  <2>1. k \in 1 .. Len(log)
    BY <1>1, BaseType DEF CrawlInv
  <2> QED
    BY <2>1, PlaceIs DEF CrawlInv
<1> QED
  BY <1>1, <1>3, <1>4, CountsAgree DEF Promise!Claim, Promise!Accounted, Promise!PostsUpTo

\* A row written as of a time behind which the claim has none of its posts
LEMMA WriteIsRead ==
  ASSUME Shapes, NEW t \in Topics, NEW w \in Nat, w <= Len(log),
         log' = log, promised' = promised, excused' = excused \ {t},
         \A u \in Topics \ {t} : rec'[u] = rec[u],
         rec'[t].count = Tally(log, t, w), rec[t].count <= Tally(log, t, w),
         \A k \in 1 .. promised : log[k] = t => k <= w
  PROVE  Promise!Read(t)
<1> DEFINE v == Later(promised, w)
<1>1. promised \in Nat /\ promised <= Len(log) /\ Len(log) \in Nat
  BY BaseType
<1>2. v \in {promised, w} /\ v \in Nat /\ promised <= v /\ w <= v
  BY <1>1, LaterIs
<1> HIDE DEF v
<1>3. v \in promised .. Len(log)
  BY <1>1, <1>2
<1>4. {k \in 1 .. v : log[k] = t} = {k \in 1 .. w : log[k] = t}
  <2>1. CASE v = w
    BY <2>1
  <2>2. CASE v = promised
    BY <1>1, <1>2, <2>2
  <2> QED
    BY <1>2, <2>1, <2>2
<1>5. Cardinality({k \in 1 .. v : log[k] = t}) = Tally(log, t, w)
  BY <1>4 DEF Tally, Spots
<1> DEFINE n == Tally(log, t, w)
           P == Cardinality({k \in 1 .. v : log[k] = t})
<1> HIDE DEF n, P
<1>6. P = n /\ rec'[t].count = n /\ rec[t].count <= n
  BY <1>5 DEF n, P
<1>7. /\ [u \in Topics |-> rec[u].count][t] <= P
      /\ [u \in Topics |-> rec'[u].count]
           = [[u \in Topics |-> rec[u].count] EXCEPT ![t] = P]
  BY <1>6
<1> QED
  BY <1>3, <1>7, CountsAgree DEF P, Promise!Read, Promise!PostsUpTo

\* Store: the answer in hand has all that is claimed of its topic.
LEMMA StoreIsRead ==
  ASSUME Shapes, Sound, Store
  PROVE  \E t \in Topics : Promise!Read(t)
<1>1. PICK t \in Topics, w \in Nat : t = job.topic /\ w = job.version
  BY StoreIs, RepoTypes
<1>2. /\ job.pc = "store" /\ rec'[t].count = Tally(log, t, w)
      /\ \A u \in Topics \ {t} : rec'[u] = rec[u]
      /\ log' = log /\ promised' = promised /\ excused' = excused \ {t} /\ w <= Len(log)
  BY <1>1, StoreIs, PostsIs, RepoTypes
<1>3. /\ rec[t].count <= Tally(log, t, w)
      /\ \A k \in 1 .. Len(log) : log[k] = t /\ k > w => k > promised
  BY <1>1, <1>2 DEF Sound, StoreSound
<1>4. \A k \in 1 .. promised : log[k] = t => k <= w
  <2> SUFFICES ASSUME NEW k \in 1 .. promised, log[k] = t, ~(k <= w) PROVE FALSE
    OBVIOUS
  <2>1. k \in 1 .. Len(log) /\ promised \in Nat
    BY BaseType
  <2>2. k > w /\ ~(k > promised)
    BY <2>1
  <2> QED
    BY <1>3, <2>1, <2>2
<1> QED
  BY <1>2, <1>3, <1>4, WriteIsRead

\* An item of a repository or a space, listed no earlier than it was written
LEMMA UpsertIsRead ==
  ASSUME CrawlInv, kind # "discourse", NEW t \in Topics, NEW w \in Nat, w <= Len(log),
         Upsert(t, w), rec[t].bumped <= w, log' = log, promised' = promised
  PROVE  Promise!Read(t)
<1>1. /\ Shapes /\ Whole /\ \A k \in 1 .. promised : Got(k)
  BY DEF CrawlInv, ClaimInv
<1>2. /\ rec'[t].count = Tally(log, t, w) /\ rec[t].count <= Tally(log, t, w)
      /\ \A u \in Topics \ {t} : rec'[u] = rec[u]
      /\ excused' = excused \ {t}
  BY <1>1, UpsertGets, UpsertIs
<1>3. \A k \in 1 .. promised : log[k] = t => k <= w
  <2> SUFFICES ASSUME NEW k \in 1 .. promised, log[k] = t, ~(k <= w) PROVE FALSE
    OBVIOUS
  <2>1. k \in 1 .. Len(log) /\ k \in Nat
    BY <1>1, BaseType
  <2>2. Tally(log, log[k], w) < Tally(log, log[k], k)
    BY <2>1, TallyOwn
  <2>3. Tally(log, t, w) \in Nat /\ Tally(log, t, k) \in Nat /\ rec[t].count \in Nat
    BY <1>1, <2>1, SpotsType DEF Shapes, RowShape, Recs
  <2>4. rec[t].count >= Tally(log, t, k)
    BY <1>1 DEF Got
  <2> QED
    BY <1>2, <2>2, <2>3, <2>4
<1> QED
  BY <1>1, <1>2, <1>3, WriteIsRead

LEMMA DiscourseReads ==
  ASSUME CrawlInv, CrawlInv', DiscourseNext
  PROVE  Promise!GiveUp \/ Promise!Claim \/ \E t \in Topics : Promise!Read(t)
<1>1. /\ kind = "discourse" /\ Shapes /\ Sound /\ Shapes' /\ base \in Nat /\ promised \in Nat
      /\ mark \in Nat /\ job.newest \in Nat
  BY BaseType, RepoTypes, SpaceTypes DEF DiscourseNext, CrawlInv
<1>2. CASE Store
  BY <1>1, <1>2, StoreIsRead
<1>3. CASE ~Store /\ promised' = promised
  BY <1>1, <1>3, DiscourseTouches, QuietIsGiveUp
<1>4. CASE EndBackfill \/ EndUpdate
  <2>1. log' = log /\ rec' = rec /\ excused' = excused
    BY <1>1, <1>4, EndBackfillIs, EndUpdateIs
  <2>2. promised <= promised'
    <3>1. CASE EndBackfill
      BY <1>1, <3>1, EndBackfillIs, LaterIs
    <3>2. CASE EndUpdate
      <4>1. Mark \in Nat
        BY <1>1, LaterIs DEF Mark
      <4> QED
        BY <1>1, <3>2, <4>1, EndUpdateIs, LaterIs
    <3> QED
      BY <1>4, <3>1, <3>2
  <2> QED
    BY <2>1, <2>2, EndIsClaim
<1> QED
  BY <1>1, <1>2, <1>3, <1>4, DiscourseTouches

LEMMA RepoReads ==
  ASSUME CrawlInv, CrawlInv', GithubNext
  PROVE  Promise!GiveUp \/ Promise!Claim \/ \E t \in Topics : Promise!Read(t)
<1>1. /\ kind = "github" /\ Shapes /\ Shapes' /\ base \in Nat /\ promised \in Nat
  BY BaseType DEF GithubNext, CrawlInv
<1>2. \A e \in job.todo : /\ e[1] \in Topics /\ e[2] \in Nat /\ e[2] <= Len(log)
                          /\ rec[e[1]].bumped <= e[2]
  BY <1>1, RepoTypes DEF CrawlInv, RepoInv, RepoTimes
<1>3. CASE RepoItem
  <2>1. PICK e \in job.todo : Upsert(e[1], e[2]) /\ log' = log /\ promised' = promised
    BY <1>1, <1>3, RepoItemIs
  <2> QED
    BY <1>1, <1>2, <2>1, UpsertIsRead
<1>4. CASE NewestItem
  <2>1. PICK e \in job.todo : /\ (rec' = rec /\ excused' = excused) \/ Upsert(e[1], e[2])
                              /\ log' = log /\ promised' = promised
    BY <1>1, <1>4, NewestItemIs
  <2>2. CASE Upsert(e[1], e[2])
    BY <1>1, <1>2, <2>1, <2>2, UpsertIsRead
  <2>3. CASE rec' = rec /\ excused' = excused
    BY <1>1, <2>1, <2>3, QuietIsGiveUp
  <2> QED
    BY <2>1, <2>2, <2>3
<1>5. CASE EndRepo
  <2>1. log' = log /\ rec' = rec /\ excused' = excused /\ promised' = Later(promised, base)
    BY <1>1, <1>5, EndRepoIs
  <2> QED
    BY <1>1, <2>1, LaterIs, EndIsClaim
<1>6. CASE \/ BeginRepo \/ RepoPage \/ RepoStop \/ RepoPageDone
           \/ BeginRepoUpdate \/ NewestPage \/ NewestPageDone \/ EndRepoUpdate
  <2>1. log' = log /\ rec' = rec /\ promised' = promised /\ excused \subseteq excused'
    <3>1. CASE BeginRepo \/ RepoPage \/ RepoStop \/ RepoPageDone
      BY <1>1, <3>1, BeginRepoIs, RepoPageIs, RepoStopIs, RepoPageDoneIs
    <3>2. CASE BeginRepoUpdate \/ NewestPage \/ NewestPageDone \/ EndRepoUpdate
      BY <1>1, <3>2, BeginRepoUpdateIs, NewestPageIs, NewestPageDoneIs, EndRepoUpdateIs
    <3> QED
      BY <1>6, <3>1, <3>2
  <2> QED
    BY <1>1, <2>1, QuietIsGiveUp
<1> QED
  BY <1>3, <1>4, <1>5, <1>6 DEF GithubNext

LEMMA SpaceReads ==
  ASSUME CrawlInv, CrawlInv', SnapshotNext
  PROVE  Promise!GiveUp \/ Promise!Claim \/ \E t \in Topics : Promise!Read(t)
<1>1. /\ kind = "snapshot" /\ Shapes /\ Shapes' /\ base \in Nat /\ promised \in Nat
  BY BaseType DEF SnapshotNext, CrawlInv
<1>2. CASE SpaceItem
  <2>1. PICK e \in job.todo : Upsert(e[1], e[2]) /\ log' = log /\ promised' = promised
    BY <1>1, <1>2, SpaceItemIs
  <2>2. e[1] \in Topics /\ e[2] \in Nat /\ e[2] <= Len(log) /\ e[2] = Top(log, e[1])
    BY <1>1, RepoTypes DEF CrawlInv, SpaceInv, SpacePlace
  <2>3. rec[e[1]].bumped <= e[2]
    BY <2>2 DEF CrawlInv, Sound, RecSound
  <2> QED
    BY <1>1, <2>1, <2>2, <2>3, UpsertIsRead
<1>3. CASE EndSpace
  <2>1. log' = log /\ rec' = rec /\ excused' = excused /\ promised' = Later(promised, base)
    BY <1>1, <1>3, EndSpaceIs
  <2> QED
    BY <1>1, <2>1, LaterIs, EndIsClaim
<1>4. CASE \/ BeginSpace \/ BeginSpaceUpdate \/ SpacePage \/ SpaceStop
           \/ SpacePageDone \/ EndSpaceUpdate
  <2>1. log' = log /\ rec' = rec /\ promised' = promised /\ excused \subseteq excused'
    BY <1>1, <1>4, BeginSpaceIs, BeginSpaceUpdateIs, SpacePageIs, SpaceStopIs, SpacePageDoneIs,
       EndSpaceUpdateIs
  <2> QED
    BY <1>1, <2>1, QuietIsGiveUp
<1> QED
  BY <1>2, <1>3, <1>4 DEF SnapshotNext

LEMMA NextIsArchive ==
  CrawlInv /\ CrawlInv' /\ [Next]_vars => [Promise!Next]_(Promise!archiveVars)
<1> SUFFICES ASSUME CrawlInv, CrawlInv', [Next]_vars
             PROVE  [Promise!Next]_(Promise!archiveVars)
  OBVIOUS
<1>1. Shapes /\ Shapes'
  BY DEF CrawlInv
<1>2. CASE \E x \in Topics : SitePost(x)
  BY <1>1, <1>2, PostIsPost DEF Promise!Next
<1>3. CASE Lose
  <2>1. log' = log /\ rec' = rec /\ promised' = promised /\ excused \subseteq excused'
    BY <1>1, <1>3, LoseIs
  <2> QED
    BY <1>1, <2>1, QuietIsGiveUp DEF Promise!Next
<1>4. CASE DiscourseNext \/ GithubNext \/ SnapshotNext
  BY <1>4, DiscourseReads, RepoReads, SpaceReads DEF Promise!Next
<1>5. CASE UNCHANGED vars
  BY <1>5 DEF vars, forum, history, Promise!archiveVars
<1> QED
  BY <1>2, <1>3, <1>4, <1>5 DEF Next

\* The crawl of a forum of any kind implements Archive: its row in the
\* database claims nothing that is not in the archive or given up, and every
\* topic is read as it was no earlier than what is claimed.
THEOREM CrawlImplementsArchive == Spec => ImplementsArchive
<1>1. Init => Promise!Init
  <2> SUFFICES ASSUME Init PROVE Promise!Init
    OBVIOUS
  <2>1. /\ log = <<>> /\ excused = {} /\ promised = 0
        /\ \A t \in Topics : rec[t].count = 0
    BY DEF Init, NoTopic
  <2> QED
    BY <2>1 DEF Promise!Init
<1>2. CrawlInv /\ CrawlInv' /\ [Next]_vars => [Promise!Next]_(Promise!archiveVars)
  BY NextIsArchive
<1> QED
  BY <1>1, <1>2, CrawlInvHolds, PTL DEF Spec, Promise!Spec, ImplementsArchive

-----------------------------------------------------------------------------
(***************************************************************************)
(* Archive by itself keeps its claims: what it allows is enough.           *)
(***************************************************************************)
ArchiveType == /\ log \in Seq(Topics)
               /\ promised \in Nat /\ promised <= Len(log)
               /\ \A t \in Topics : rec[t].count \in Nat

Accounts(v) == \A k \in 1 .. v : \/ rec[log[k]].count >= Tally(log, log[k], k)
                                 \/ log[k] \in excused

LEMMA AccountsIs ==
  ASSUME log \in Seq(Topics), NEW v \in 0 .. Len(log)
  PROVE  Promise!Accounted(v) <=> Accounts(v)
<1>1. \A k \in 1 .. v : k \in 1 .. Len(log) /\ log[k] \in Topics
  OBVIOUS
<1>2. Promise!Accounted(v) <=>
        \A k \in 1 .. v : \/ [t \in Topics |-> rec[t].count][log[k]] >= Tally(log, log[k], k)
                          \/ log[k] \in excused
  BY CountsAgree DEF Promise!Accounted, Promise!PostsUpTo, Tally, Spots
<1> QED
  BY <1>1, <1>2 DEF Accounts

LEMMA ArchivePosts ==
  ASSUME ArchiveType, Accounts(promised), NEW x \in Topics, Promise!Post(x)
  PROVE  ArchiveType' /\ Accounts(promised)'
<1>1. /\ log' = Append(log, x) /\ excused \subseteq excused' /\ promised' = promised
      /\ [t \in Topics |-> rec[t].count]' = [t \in Topics |-> rec[t].count]
  BY DEF Promise!Post
<1>2. /\ log' \in Seq(Topics) /\ Len(log') = Len(log) + 1 /\ Len(log) \in Nat
      /\ \A k \in 1 .. Len(log) : log'[k] = log[k] /\ log[k] \in Topics
  BY <1>1 DEF ArchiveType
<1>3. \A t \in Topics : rec'[t].count = rec[t].count
  <2> SUFFICES ASSUME NEW t \in Topics PROVE rec'[t].count = rec[t].count
    OBVIOUS
  <2>1. [u \in Topics |-> rec'[u].count][t] = [u \in Topics |-> rec[u].count][t]
    BY <1>1
  <2> QED
    BY <2>1
<1>4. ArchiveType'
  BY <1>1, <1>2, <1>3 DEF ArchiveType
<1>5. ASSUME NEW k \in 1 .. promised
      PROVE  rec'[log'[k]].count >= Tally(log', log'[k], k) \/ log'[k] \in excused'
  <2>1. k \in 1 .. Len(log) /\ \A i \in 1 .. k : i \in 1 .. Len(log)
    BY <1>2 DEF ArchiveType
  <2>2. log'[k] = log[k] /\ log[k] \in Topics /\ \A i \in 1 .. k : log'[i] = log[i]
    BY <1>2, <2>1
  <2>3. Spots(log', log[k], k) = Spots(log, log[k], k)
    BY <2>2 DEF Spots
  <2>4. rec[log[k]].count >= Tally(log, log[k], k) \/ log[k] \in excused
    BY DEF Accounts
  <2> QED
    BY <1>1, <1>3, <2>2, <2>3, <2>4 DEF Tally
<1> QED
  BY <1>1, <1>4, <1>5 DEF Accounts

LEMMA ArchiveReads ==
  ASSUME ArchiveType, Accounts(promised), NEW t \in Topics, Promise!Read(t)
  PROVE  ArchiveType' /\ Accounts(promised)'
<1>1. PICK v \in promised .. Len(log) :
         /\ rec[t].count <= Tally(log, t, v)
         /\ [u \in Topics |-> rec[u].count]'
              = [[u \in Topics |-> rec[u].count] EXCEPT ![t] = Tally(log, t, v)]
  BY CountsAgree DEF Promise!Read, Promise!PostsUpTo, Tally, Spots
<1>2. log' = log /\ promised' = promised /\ excused' = excused \ {t}
  BY DEF Promise!Read
<1>3. v \in Nat /\ promised <= v /\ Tally(log, t, v) \in Nat
  BY SpotsType DEF ArchiveType
<1> DEFINE n == Tally(log, t, v)
<1> HIDE DEF n
<1>4. rec'[t].count = n /\ \A u \in Topics \ {t} : rec'[u].count = rec[u].count
  <2> SUFFICES ASSUME NEW u \in Topics
               PROVE  rec'[u].count = IF u = t THEN n ELSE rec[u].count
    OBVIOUS
  <2>1. [w \in Topics |-> rec'[w].count][u]
          = [[w \in Topics |-> rec[w].count] EXCEPT ![t] = n][u]
    BY <1>1 DEF n
  <2> QED
    BY <2>1
<1>5. ArchiveType'
  BY <1>2, <1>3, <1>4 DEF ArchiveType, n
<1>6. ASSUME NEW k \in 1 .. promised
      PROVE  rec'[log[k]].count >= Tally(log, log[k], k) \/ log[k] \in excused \ {t}
  <2>1. k \in Nat /\ k <= v /\ log[k] \in Topics
    BY <1>3 DEF ArchiveType
  <2>2. CASE log[k] = t
    <3>1. Tally(log, t, k) <= n /\ Tally(log, t, k) \in Nat
      BY <1>3, <2>1, TallyMonotone, SpotsType DEF n
    <3> QED
      BY <1>3, <1>4, <2>2, <3>1 DEF n
  <2>3. CASE log[k] # t
    BY <1>4, <2>1, <2>3 DEF Accounts
  <2> QED
    BY <2>2, <2>3
<1> QED
  BY <1>2, <1>5, <1>6 DEF Accounts

\* What the archive claims stays accounted for: posts, rereads and topics given
\* up later take nothing away from it.
THEOREM ArchiveKeepsClaims == Promise!Spec => []Promise!ClaimKept
<1> DEFINE Kept == ArchiveType /\ Accounts(promised)
<1>1. Promise!Init => Kept
  <2> SUFFICES ASSUME Promise!Init PROVE Kept
    OBVIOUS
  <2>1. /\ log = <<>> /\ promised = 0
        /\ [t \in Topics |-> rec[t].count] = [t \in Topics |-> 0]
    BY DEF Promise!Init
  <2>2. ASSUME NEW t \in Topics PROVE rec[t].count = 0
    <3>1. [u \in Topics |-> rec[u].count][t] = [u \in Topics |-> 0][t]
      BY <2>1
    <3> QED
      BY <3>1
  <2> QED
    BY <2>1, <2>2 DEF ArchiveType, Accounts
<1>2. Kept /\ [Promise!Next]_(Promise!archiveVars) => Kept'
  <2> SUFFICES ASSUME Kept, [Promise!Next]_(Promise!archiveVars) PROVE Kept'
    OBVIOUS
  <2>a. ASSUME log' = log, excused \subseteq excused', promised' \in Nat, promised' <= Len(log),
               [t \in Topics |-> rec[t].count]' = [t \in Topics |-> rec[t].count],
               Accounts(promised')
        PROVE  Kept'
    <3>1. ASSUME NEW t \in Topics PROVE rec'[t].count = rec[t].count
      <4>1. [u \in Topics |-> rec'[u].count][t] = [u \in Topics |-> rec[u].count][t]
        BY <2>a
      <4> QED
        BY <4>1
    <3>2. \A k \in 1 .. promised' : log[k] \in Topics
      BY <2>a DEF ArchiveType
    <3> QED
      BY <2>a, <3>1, <3>2 DEF ArchiveType, Accounts
  <2>1. CASE Promise!GiveUp \/ UNCHANGED Promise!archiveVars
    <3>1. /\ log' = log /\ excused \subseteq excused' /\ promised' = promised
          /\ [t \in Topics |-> rec[t].count]' = [t \in Topics |-> rec[t].count]
      BY <2>1 DEF Promise!GiveUp, Promise!archiveVars
    <3> QED
      BY <2>a, <3>1 DEF ArchiveType
  <2>2. CASE Promise!Claim
    <3>1. /\ log' = log /\ excused' = excused /\ promised' \in promised .. Len(log)
          /\ [t \in Topics |-> rec[t].count]' = [t \in Topics |-> rec[t].count]
          /\ Promise!Accounted(promised')
      BY <2>2 DEF Promise!Claim
    <3>2. promised' \in 0 .. Len(log) /\ promised' \in Nat /\ promised' <= Len(log)
      BY <3>1 DEF ArchiveType
    <3>3. Accounts(promised')
      BY <3>1, <3>2, AccountsIs DEF ArchiveType
    <3> QED
      BY <2>a, <3>1, <3>2, <3>3
  <2>3. CASE \E t \in Topics : Promise!Post(t) \/ Promise!Read(t)
    BY <2>3, ArchivePosts, ArchiveReads
  <2> QED
    BY <2>1, <2>2, <2>3 DEF Promise!Next
<1>3. Kept => Promise!ClaimKept
  <2> SUFFICES ASSUME Kept PROVE Promise!Accounted(promised)
    BY DEF Promise!ClaimKept
  <2>1. promised \in 0 .. Len(log)
    BY DEF ArchiveType
  <2> QED
    BY <2>1, AccountsIs DEF ArchiveType
<1> QED
  BY <1>1, <1>2, <1>3, PTL DEF Promise!Spec
=============================================================================
