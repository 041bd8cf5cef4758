----------------------------- MODULE KbSnapshot -----------------------------
(***************************************************************************)
(* worker/kb_snapshot.py: the proposals of one Snapshot space, oldest      *)
(* first, by their number when backfilling and by date afterwards.         *)
(***************************************************************************)
EXTENDS KbForum

Created == {t \in Topics : Exists(t)}

\* Proposals skip+1 .. skip+QueryPage of those created after a date
Slice(since, skip) ==
    LET after == {t \in Created : Bump(t) > since}
    IN  {<<t, Bump(t)>> : t \in {u \in after :
            Cardinality({w \in after : Bump(w) < Bump(u)}) \in skip .. skip + QueryPage - 1}}

BeginSpace ==
    /\ MayBegin("backfill")
    /\ job' = [Idle EXCEPT !.mode = "backfill", !.pc = "list", !.skip = cursor.skip]
    /\ Rebase
    /\ UNCHANGED <<kind, log, rec, cache, forum, faults, promised, excused>>

\* Without last_post_seen_at the newest created_at of the archive is taken.
SpaceSince == IF mark # 0 THEN mark ELSE NewestArchived

BeginSpaceUpdate ==
    /\ MayBegin("update")
    /\ job' = [Idle EXCEPT !.mode = "update", !.pc = "list", !.newest = mark,
                           !.version = SpaceSince]
    /\ UNCHANGED <<kind, log, rec, cache, forum, faults, history>>

\* An empty page ends the pass.
SpacePage ==
    /\ job.pc = "list"
    /\ LET page == Slice(job.version, job.skip)
       IN  job' = [job EXCEPT !.pc = IF page = {} THEN "end" ELSE "item", !.todo = page,
                              !.after = Cardinality(page)]
    /\ UNCHANGED <<kind, log, rec, cache, forum, faults, history>>

SpaceItem ==
    /\ job.pc = "item"
    /\ \E e \in job.todo :
          /\ \A f \in job.todo : e[2] <= f[2]
          /\ Upsert(e[1], e[2])
          /\ job' = [job EXCEPT !.todo = @ \ {e},
                                !.newest = IF job.mode = "update" THEN Later(@, e[2]) ELSE @]
    /\ UNCHANGED <<kind, log, cache, forum, faults, base, promised>>

\* Mutant: the page that was interrupted is skipped.
SkipPage == job.skip + job.after

\* A stop saves where the page began.
SkipSaved == job.skip

SpaceStop ==
    /\ job.mode = "backfill"
    /\ job.pc = "list" \/ job.todo # {}
    /\ cursor' = [NoCursor EXCEPT !.skip = SkipSaved]
    /\ job' = Idle
    /\ UNCHANGED <<kind, log, rec, cache, done, mark, faults, history>>

\* skip += len(page), saved only by the backfill; a short page is the last.
SpacePageDone ==
    /\ job.pc = "item"
    /\ job.todo = {}
    /\ job' = [job EXCEPT !.skip = @ + job.after,
                          !.pc = IF job.after < QueryPage THEN "end" ELSE "list"]
    /\ cursor' = IF job.mode = "backfill"
                 THEN [NoCursor EXCEPT !.skip = job.skip + job.after] ELSE cursor
    /\ UNCHANGED <<kind, log, rec, cache, done, mark, faults, history>>

EndSpace ==
    /\ job.mode = "backfill" /\ job.pc = "end"
    /\ Finish
    /\ UNCHANGED <<kind, log, rec, cache, mark, faults, excused>>

\* COALESCE(newest_seen, last_post_seen_at)
SpaceMark == Later(mark, job.newest)

EndSpaceUpdate ==
    /\ job.mode = "update" /\ job.pc = "end"
    /\ mark' = SpaceMark
    /\ job' = Idle
    /\ UNCHANGED <<kind, log, rec, cache, done, cursor, faults, history>>

SnapshotNext ==
    /\ kind = "snapshot"
    /\ \/ BeginSpace \/ BeginSpaceUpdate \/ SpacePage \/ SpaceItem \/ SpaceStop
       \/ SpacePageDone \/ EndSpace \/ EndSpaceUpdate
=============================================================================
