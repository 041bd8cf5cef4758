------------------------------- MODULE KbCrawl -------------------------------
(***************************************************************************)
(* The knowledge base crawl: a forum of any kind, its site, and the jobs   *)
(* of worker/main.py, which stop, fail, die and are started again in any   *)
(* order.                                                                  *)
(***************************************************************************)
EXTENDS KbDiscourse, KbGithub, KbSnapshot

Next ==
    \/ \E t \in Topics : SitePost(t)
    \/ Lose
    \/ DiscourseNext \/ GithubNext \/ SnapshotNext

Spec == Init /\ [][Next]_vars

-----------------------------------------------------------------------------
\* The archive's row of a topic knows of all its activity up to a time.
Covered(k) == rec[log[k]].count >= Posts(log[k], k)

\* kb.py, kb_github.py, kb_snapshot.py, each in its own way: the row of a forum
\* claims nothing that is not in the archive or given up, and a topic is written
\* as it was no earlier than what is claimed, so no later step takes a claim back.
Promise == INSTANCE Archive WITH
    site <- log, known <- [t \in Topics |-> rec[t].count], given <- excused,
    claim <- promised

ImplementsArchive == Promise!Spec

\* backfill, incremental of kb.py and the backfills of the other two: once
\* backfill_done, all activity that was there when the backfill began, or that
\* lies behind last_post_seen_at, is known to the archive, through stops, deaths
\* and resumptions anywhere.  On a Discourse site alone topics are given up:
\* those whose page could not be had in a backfill, or answered null; that lay on
\* or behind a listing that answered null; that moved while pages were listed, fell
\* out of the posts page, or whose rows were lost after their validator was kept.
ForumAccounted ==
    \A k \in 1 .. promised : Covered(k) \/ (kind = "discourse" /\ log[k] \in excused)

\* kb_github.py: between passes no topic is stale whose newest activity lies
\* behind the point the next pass stops at, save what a pass that was cut short
\* had not reached when the archive's newest date took the place of since.
RepoAccounted ==
    kind = "github" /\ done /\ job = Idle =>
        \A t \in Topics : Bump(t) <= Since => rec[t].bumped = Bump(t) \/ t \in excused

\* kb_snapshot.py: between passes no proposal is missing that is older than
\* the watermark, wherever passes were cut short.
SpaceAccounted ==
    kind = "snapshot" /\ done /\ job = Idle =>
        \A t \in Topics : Bump(t) <= SpaceSince => rec[t].bumped = Bump(t)

\* Both of them: what a pass stops at, skips or begins with is never ahead of
\* what the archive has, though every pass can be cut short at every step.
PassAccounted == RepoAccounted /\ SpaceAccounted

\* repair: a pass that ends with nothing failed and nothing reported as still
\* incomplete leaves only topics that answered 304, because the page of the
\* crawl that left them incomplete is in the HTTP cache, and topics of which the
\* site left out posts in this very pass: a null page, blank posts, short chunks.
RepairRestores ==
    [][job.mode = "repair" /\ job.pc = "pick" /\ job.todo = {} /\ ~job.failed
       /\ job' = Idle
       => \A t \in Topics : Incomplete(t) => \/ Posts(t, validator[t]) >= rec[t].count
                                             \/ t \in job.spared]_vars
=============================================================================
