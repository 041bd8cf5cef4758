------------------------------ MODULE KbGithub ------------------------------
(***************************************************************************)
(* worker/kb_github.py: one repository's discussions or issues.  The       *)
(* backfill pages by activity, oldest first; the incremental pass newest   *)
(* first, down to its watermark, which lives in the cursor.                *)
(***************************************************************************)
EXTENDS KbForum

\* The QueryPage topics next to a position, in either direction
Between(p, q) == {t \in Topics : Bump(t) \in p + 1 .. q - 1}
Above(p) == {t \in Topics : Bump(t) > p /\ Cardinality(Between(p, Bump(t))) < QueryPage}
Below(p) == {t \in Between(0, p) : Cardinality(Between(Bump(t), p)) < QueryPage}
Listed(S) == {<<t, Bump(t)>> : t \in S}
Ends(S)   == {e[2] : e \in S}

BeginRepo ==
    /\ MayBegin("backfill")
    /\ job' = [Idle EXCEPT !.mode = "backfill", !.pc = "list", !.after = cursor.after]
    /\ Rebase
    /\ UNCHANGED <<kind, log, rec, cache, forum, faults, promised, excused>>

\* job.after is the end of the page, cursor.after where the page began.
RepoPage ==
    /\ job.mode = "backfill" /\ job.pc = "list"
    /\ LET page == Above(job.after)
           end  == Newest(Ends(Listed(page)))
       IN  job' = IF page = {} THEN [job EXCEPT !.pc = "end"]
                  ELSE [job EXCEPT !.pc = "item", !.todo = Listed(page), !.after = end,
                                   !.more = Above(end) # {}]
    /\ UNCHANGED <<kind, log, rec, cache, forum, faults, history>>

\* _walk_comments, _upsert_topic, commit; the node is as the page had it.
RepoItem ==
    /\ job.mode = "backfill" /\ job.pc = "item"
    /\ \E e \in job.todo :
          /\ \A f \in job.todo : e[2] <= f[2]
          /\ Upsert(e[1], e[2])
          /\ job' = [job EXCEPT !.todo = @ \ {e}]
    /\ UNCHANGED <<kind, log, cache, forum, faults, base, promised>>

\* Mutant: an interrupted page counts as read.
RepoCursorEnd == job.after

\* A stop in mid-page saves the page's beginning; a saved since is dropped.
RepoCursor == cursor.after

RepoStop ==
    /\ job.mode = "backfill"
    /\ job.pc = "list" \/ job.todo # {}
    /\ cursor' = [NoCursor EXCEPT !.after = RepoCursor]
    /\ job' = Idle
    /\ excused' = excused \cup Overtaken
    /\ UNCHANGED <<kind, log, rec, cache, done, mark, faults, base, promised>>

RepoPageDone ==
    /\ job.mode = "backfill" /\ job.pc = "item"
    /\ job.todo = {}
    /\ cursor' = [NoCursor EXCEPT !.after = job.after]
    /\ job' = [job EXCEPT !.pc = IF job.more THEN "list" ELSE "end"]
    /\ excused' = excused \cup Overtaken
    /\ UNCHANGED <<kind, log, rec, cache, done, mark, faults, base, promised>>

EndRepo ==
    /\ job.mode = "backfill" /\ job.pc = "end"
    /\ Finish
    /\ UNCHANGED <<kind, log, rec, cache, mark, faults, excused>>

-----------------------------------------------------------------------------
\* Without a saved since the newest bumped_at of the archive is taken.
Since == IF cursor.since # 0 THEN cursor.since ELSE NewestArchived

BeginRepoUpdate ==
    /\ MayBegin("update")
    /\ job' = [Idle EXCEPT !.mode = "update", !.pc = "list", !.version = Since,
                           !.newest = Since, !.after = MaxLog + 1]
    /\ UNCHANGED <<kind, log, rec, cache, forum, faults, history>>

NewestPage ==
    /\ job.mode = "update" /\ job.pc = "list"
    /\ LET page == Below(job.after)
       IN  job' = [job EXCEPT !.pc = IF page = {} THEN "end" ELSE "item",
                              !.todo = Listed(page),
                              !.more = \E t \in Topics : Exists(t) /\ t \notin page
                                                         /\ Bump(t) < job.after]
    /\ UNCHANGED <<kind, log, rec, cache, forum, faults, history>>

\* newest_seen
NewestSeen(t) == Later(job.newest, t)

NewestItem ==
    /\ job.mode = "update" /\ job.pc = "item"
    /\ \E e \in job.todo :
          /\ \A f \in job.todo : e[2] >= f[2]
          /\ IF e[2] <= job.version
             THEN job' = [job EXCEPT !.pc = "end", !.todo = {}] /\ UNCHANGED <<rec, excused>>
             ELSE /\ Upsert(e[1], e[2])
                  /\ job' = [job EXCEPT !.todo = @ \ {e}, !.newest = NewestSeen(e[2]),
                                        !.after = e[2]]
    /\ UNCHANGED <<kind, log, cache, forum, faults, base, promised>>

NewestPageDone ==
    /\ job.mode = "update" /\ job.pc = "item"
    /\ job.todo = {}
    /\ job' = [job EXCEPT !.pc = IF job.more THEN "list" ELSE "end"]
    /\ UNCHANGED <<kind, log, rec, cache, forum, faults, history>>

\* The watermark is saved at the very end, into the cursor.
EndRepoUpdate ==
    /\ job.mode = "update" /\ job.pc = "end"
    /\ cursor' = [NoCursor EXCEPT !.since = job.newest]
    /\ job' = Idle
    /\ UNCHANGED <<kind, log, rec, cache, done, mark, faults, history>>

GithubNext ==
    /\ kind = "github"
    /\ \/ BeginRepo \/ RepoPage \/ RepoItem \/ RepoStop \/ RepoPageDone
       \/ EndRepo
       \/ BeginRepoUpdate \/ NewestPage \/ NewestItem \/ NewestPageDone
       \/ EndRepoUpdate
=============================================================================
