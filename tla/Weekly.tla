------------------------------- MODULE Weekly -------------------------------
(***************************************************************************)
(* weekly.generate: two weekly reports asked for on a timer, again by      *)
(* hand, or twice, each a minutes-long call between a look for today's     *)
(* report and one transaction that stores deadlines and the report.        *)
(***************************************************************************)
EXTENDS Integers, Sequences, FiniteSets

CONSTANTS Calls,          \* generations that can be under way at once
          Programmes,     \* (title, deadline) of the rows of kb.deadlines
          Absurd,         \* a row that Postgres or psycopg refuses
          MaxDay, MaxReports \* bounds: midnights, reports ever stored

ASSUME WeeklyBounds == /\ Absurd \notin Programmes
                       /\ MaxDay \in Nat \ {0}
                       /\ MaxReports \in Nat

KINDS == {"grants", "discovery"}

VARIABLES day,
          reports,        \* weekly reports in kb.briefs
          deadlines,      \* committed rows of kb.deadlines
          call,           \* the generations
          filed,          \* history: reports ever stored
          backed          \* history: what their deadlines blocks held

weekly == <<day, reports, deadlines, call, filed, backed>>

\* What the model put in the deadlines block: rows in its own order.  An absurd
\* one has the shape of a row all the same: a day that does not exist, a NUL or a
\* lone surrogate in the title.
Blocks == {<<>>, <<Absurd>>} \cup
          {b \in Programmes \X (Programmes \cup {Absurd}) : b[1] # b[2]}

\* began: the reports stored when the guard was passed; block: all that was in it.
Resting == [pc |-> "rest", kind |-> "grants", today |-> 0, forced |-> FALSE, began |-> 0,
            block |-> {}, rows |-> <<>>, held |-> {}]

TypeOKWeekly ==
    /\ day \in 1 .. MaxDay
    /\ filed \in 0 .. MaxReports
    /\ \A r \in reports : r.id \in 1 .. filed /\ r.kind \in KINDS /\ r.title \in 1 .. day
    /\ \A r, s \in reports : r.id = s.id => r = s
    /\ deadlines \subseteq Programmes
    /\ \A c \in Calls : /\ call[c].pc \in {"rest", "think", "store"}
                        /\ call[c].rows \in Seq(Programmes \cup {Absurd})
                        /\ call[c].held \subseteq Programmes
    /\ \A c, d \in Calls : c # d => call[c].held \cap call[d].held = {}

InitWeekly ==
    /\ day = 1
    /\ reports = {} /\ deadlines = {}
    /\ call = [c \in Calls |-> Resting]
    /\ filed = 0
    /\ backed = {}

-----------------------------------------------------------------------------
\* Mutant: only the newest report of the kind is looked at.
RecentNewest(kind, today) ==
    {r \in reports : /\ r.kind = kind /\ r.title = today
                     /\ \A s \in reports : s.kind = kind => s.id <= r.id}

\* _recent: by the whole title, which ends in the day
Recent(kind, today) == {r \in reports : r.kind = kind /\ r.title = today}

\* The day is read once, before the guard.
Title(c) == call[c].today

\* generate, up to the first call of the language model
Generate(c, kind, force) ==
    /\ call[c].pc = "rest"
    /\ filed < MaxReports
    /\ force \/ Recent(kind, day) = {}
    /\ call' = [call EXCEPT ![c] = [Resting EXCEPT !.pc = "think", !.kind = kind, !.today = day,
                                                   !.forced = force, !.began = filed]]
    /\ UNCHANGED <<day, reports, deadlines, filed, backed>>

\* _web_findings never fails; _synthesize gives a report, for grants with a
\* block of deadlines.
Synthesise(c) ==
    /\ call[c].pc = "think"
    /\ \E block \in IF call[c].kind = "grants" THEN Blocks ELSE {<<>>} :
          call' = [call EXCEPT ![c] = [@ EXCEPT !.pc = "store", !.rows = block,
                                                !.block = {block[i] : i \in DOMAIN block}]]
    /\ UNCHANGED <<day, reports, deadlines, filed, backed>>

-----------------------------------------------------------------------------
\* Other transactions that have written the row and not ended
Holders(p, c) == {d \in Calls \ {c} : p \in call[d].held}

\* _store_deadlines: one row, in the transaction of the report.  ON CONFLICT
\* waits for another transaction that has the same row.
StoreDeadline(c) ==
    /\ call[c].pc = "store"
    /\ call[c].rows # <<>>
    /\ LET p == Head(call[c].rows)
       IN  /\ p # Absurd
           /\ Holders(p, c) = {}
           /\ call' = [call EXCEPT ![c].rows = Tail(@), ![c].held = @ \cup {p}]
    /\ UNCHANGED <<day, reports, deadlines, filed, backed>>

\* Mutant: the transaction is left with what it has, as if nothing had failed.
CommitHeld(c) ==
    /\ call' = [call EXCEPT ![c] = Resting]
    /\ deadlines' = deadlines \cup call[c].held
    /\ UNCHANGED <<day, reports, filed, backed>>

\* The block of the connection is left by an exception: nothing is committed,
\* and the synthesised report goes with it.
RollBack(c) ==
    /\ call' = [call EXCEPT ![c] = Resting]
    /\ UNCHANGED <<day, reports, deadlines, filed, backed>>

Refused(c) ==
    /\ call[c].pc = "store"
    /\ call[c].rows # <<>>
    /\ Head(call[c].rows) = Absurd
    /\ RollBack(c)

Waits(c, d) == /\ call[c].pc = "store"
               /\ call[c].rows # <<>>
               /\ d \in Holders(Head(call[c].rows), c)

\* Two transactions that wait for each other: Postgres ends one of them.
Deadlock(c) ==
    /\ \E d \in Calls : Waits(c, d) /\ Waits(d, c)
    /\ RollBack(c)

\* _synthesize fails (502), or the second connection, a statement or the commit,
\* or the process dies, which is this for every call.
Fails(c) ==
    /\ call[c].pc # "rest"
    /\ RollBack(c)

\* INSERT INTO kb.briefs, and the commit
File(c) ==
    /\ call[c].pc = "store"
    /\ call[c].rows = <<>>
    /\ filed < MaxReports
    /\ filed' = filed + 1
    /\ reports' = reports \cup {[id |-> filed + 1, kind |-> call[c].kind, title |-> Title(c),
                                 forced |-> call[c].forced, began |-> call[c].began]}
    /\ deadlines' = deadlines \cup call[c].held
    /\ backed' = backed \cup call[c].block
    /\ call' = [call EXCEPT ![c] = Resting]
    /\ UNCHANGED day

\* admin delete_brief
DeleteBrief ==
    /\ \E r \in reports : reports' = reports \ {r}
    /\ UNCHANGED <<day, deadlines, call, filed, backed>>

Midnight ==
    /\ day < MaxDay
    /\ day' = day + 1
    /\ UNCHANGED <<reports, deadlines, call, filed, backed>>

WeeklyNext ==
    \/ \E c \in Calls : \/ \E kind \in KINDS, force \in BOOLEAN : Generate(c, kind, force)
                        \/ Synthesise(c) \/ StoreDeadline(c)
                        \/ Refused(c) \/ Deadlock(c) \/ Fails(c) \/ File(c)
    \/ DeleteBrief \/ Midnight

-----------------------------------------------------------------------------
\* generate, _recent: beside an older report of its kind with the same day in the
\* title, a report stands only if it was forced, or was already under way when the
\* older one was stored, though calls run past midnight, reports are stored out of
\* the order of their days, and some are deleted.
OneReportADay ==
    \A r, s \in reports :
        r.kind = s.kind /\ r.title = s.title /\ r.id < s.id => s.forced \/ s.began < r.id

\* generate, _store_deadlines: the deadlines of the Overview are those of the
\* reports that were stored, all of theirs and no others, whatever row of a block
\* is refused, whichever generation waits for which, and whenever one fails or dies.
DeadlinesBacked == deadlines = backed
=============================================================================
