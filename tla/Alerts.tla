------------------------------- MODULE Alerts -------------------------------
(***************************************************************************)
(* What a run of the worker tells people: the sources it parks, those that *)
(* are dead, those that failed, and the digest of quiet ones.  alert()     *)
(* stores each message over a connection of its own and pushes to the bot  *)
(* only what was not stored of late, by its text, which names the first    *)
(* few sources and counts the rest.                                        *)
(***************************************************************************)
EXTENDS Integers, FiniteSets

CONSTANTS Sources,        \* numbers, in order of name
          Named,          \* DARK_LISTED
          DarkAfter,      \* source_dark_days
          DedupHours, DigestEvery,
          MaxHour,        \* bound: the clock stops here
          MaxTroubles     \* bound: what fails, and what admins do

ASSUME AlertBounds ==
    /\ Sources \subseteq Nat
    /\ {Named, DarkAfter, DedupHours, DigestEvery} \subseteq Nat \ {0}
    /\ MaxHour \in Nat \ {0}
    /\ MaxTroubles \in Nat

VARIABLES hour,
          source,         \* the rows of sources
          logged,         \* [text of an alert -> hour of its newest row]
          run,            \* the run of the worker
          troubles,
          alerted,        \* history: <<kind, source>> of all alerts
          told,           \* history: those a push named
          missed          \* history: those whose push did not arrive, and
                          \* those a message only counted

alerts == <<hour, source, logged, run, troubles, alerted, told, missed>>

NewSource(valid) == [enabled |-> TRUE, parked |-> FALSE, valid |-> valid,
                     backfilled |-> FALSE, item |-> 0]
On(s)     == source[s].enabled /\ ~source[s].parked
NoRun     == [pc |-> "idle", kind |-> "none", about |-> {}, then |-> "idle",
              todo |-> {}, failed |-> {}]
Steps     == {"walk", "dead", "quiet", "end", "idle"}

TypeOKAlerts ==
    /\ hour \in 1 .. MaxHour
    /\ \A s \in Sources : /\ {source[s].enabled, source[s].parked, source[s].valid} \subseteq BOOLEAN
                          /\ source[s].item \in 0 .. hour
                          /\ source[s].item # 0 => source[s].backfilled
    /\ \A x \in DOMAIN logged : logged[x] \in 1 .. hour
    /\ run.pc \in Steps \cup {"store", "push"}
    /\ run.pc \in {"store", "push"} => run.then \in Steps
    /\ run.todo \subseteq Sources /\ run.failed \subseteq Sources
    /\ troubles \in 0 .. MaxTroubles
    /\ (told \cup missed) \subseteq alerted

\* Some rows may be invalid as they were entered.
StartAlerts(bad) ==
    /\ hour = 1
    /\ source = [s \in Sources |-> NewSource(s \notin bad)]
    /\ logged = [x \in {} |-> 0]
    /\ run = NoRun
    /\ troubles = 0
    /\ alerted = {} /\ told = {} /\ missed = {}

InitAlerts  == \E bad \in SUBSET Sources : StartAlerts(bad)
QuietAlerts == StartAlerts({})

-----------------------------------------------------------------------------
\* _dark_sort_key: never an item first, then the oldest, then by name
Sooner(s, t) == \/ source[s].item < source[t].item
                \/ source[s].item = source[t].item /\ s < t

\* _source_lines; failures are listed by number, and parked rows all.
SourceLines(kind, S) ==
    LET before(t, s) == IF kind = "failed" THEN t < s ELSE Sooner(t, s)
    IN  IF kind = "parked" THEN S
        ELSE {s \in S : Cardinality({t \in S : before(t, s)}) < Named}

\* _dead_message, _quiet_message, and the like of load_sources and the run
Text(kind, S) == [kind |-> kind, count |-> Cardinality(S), lines |-> SourceLines(kind, S)]

\* Mutant: a message of the same kind is a repetition.
RepeatedKind(x) == \E y \in DOMAIN logged : y.kind = x.kind /\ hour - logged[y] < DedupHours

\* _store: dup
Repeated(x) == x \in DOMAIN logged /\ hour - logged[x] < DedupHours

\* _quiet_digest_due: by the prefix, over the rows of a week
DigestDue == \A x \in DOMAIN logged : x.kind = "quiet" => hour - logged[x] >= DigestEvery

About == {run.kind} \X run.about

\* A call of alert(): on to `then' after it.
Alert(kind, S, then) ==
    /\ run' = [run EXCEPT !.pc = "store", !.kind = kind, !.about = S, !.then = then]
    /\ alerted' = alerted \cup ({kind} \X S)

GoOn == [run EXCEPT !.pc = run.then, !.kind = "none", !.about = {}, !.then = "idle"]

\* _store, which never raises: what cannot be stored is pushed.
Store(reached) ==
    LET x == Text(run.kind, run.about) IN
    /\ run.pc = "store"
    /\ reached \/ troubles < MaxTroubles
    /\ troubles' = IF reached THEN troubles ELSE troubles + 1
    /\ logged' = IF reached THEN [y \in DOMAIN logged \cup {x} |-> IF y = x THEN hour ELSE logged[y]]
                 ELSE logged
    /\ run' = IF reached /\ Repeated(x) THEN GoOn ELSE [run EXCEPT !.pc = "push"]
    /\ missed' = missed \cup ({run.kind} \X (run.about \ Text(run.kind, run.about).lines))
    /\ UNCHANGED <<hour, source, alerted, told>>

\* sendMessage: a failure is logged.
Push(arrives) ==
    /\ run.pc = "push"
    /\ arrives \/ troubles < MaxTroubles
    /\ troubles' = IF arrives THEN troubles ELSE troubles + 1
    /\ told' = IF arrives THEN told \cup ({run.kind} \X Text(run.kind, run.about).lines) ELSE told
    /\ missed' = IF arrives THEN missed ELSE missed \cup About
    /\ run' = GoOn
    /\ UNCHANGED <<hour, source, logged, alerted>>

-----------------------------------------------------------------------------
\* load_sources: rows that do not validate are parked, in one transaction,
\* and told after it.
LoadSources ==
    LET broken == {s \in Sources : On(s) /\ ~source[s].valid}
        todo   == {s \in Sources : On(s) /\ source[s].valid}
    IN  /\ run = NoRun
        /\ source' = [s \in Sources |-> IF s \in broken
                                        THEN [source[s] EXCEPT !.parked = TRUE]
                                        ELSE source[s]]
        /\ alerted' = alerted \cup ({"parked"} \X broken)
        /\ run' = IF broken = {} THEN [NoRun EXCEPT !.pc = "walk", !.todo = todo]
                  ELSE [NoRun EXCEPT !.pc = "store", !.kind = "parked", !.about = broken,
                                     !.then = "walk", !.todo = todo]
        /\ UNCHANGED <<hour, logged, troubles, told, missed>>

\* The walks: some sources have something new, some fail.  A seed run does
\* not look for dark sources.
Walks(fresh, failed, seed) ==
    /\ run.pc = "walk"
    /\ source' = [s \in Sources |->
          IF s \in run.todo \ failed
          THEN [source[s] EXCEPT !.backfilled = TRUE,
                                 !.item = IF s \in fresh THEN hour ELSE @]
          ELSE source[s]]
    /\ run' = [run EXCEPT !.pc = IF seed THEN "end" ELSE "dead", !.todo = {}, !.failed = failed]
    /\ UNCHANGED <<hour, logged, troubles, alerted, told, missed>>

\* _check_dark_sources, first half: read whole, and nothing found, or a date ahead
Dead == {s \in Sources : /\ On(s) /\ source[s].backfilled
                         /\ source[s].item = 0 \/ source[s].item > hour}

CheckDead ==
    /\ run.pc = "dead"
    /\ IF Dead # {} THEN Alert("dead", Dead, "quiet")
       ELSE run' = [run EXCEPT !.pc = "quiet"] /\ UNCHANGED alerted
    /\ UNCHANGED <<hour, source, logged, troubles, told, missed>>

QuietSources == {s \in Sources : /\ On(s) /\ source[s].item # 0
                                 /\ hour - source[s].item > DarkAfter}

CheckQuiet ==
    /\ run.pc = "quiet"
    /\ IF QuietSources # {} /\ DigestDue THEN Alert("quiet", QuietSources, "end")
       ELSE run' = [run EXCEPT !.pc = "end"] /\ UNCHANGED alerted
    /\ UNCHANGED <<hour, source, logged, troubles, told, missed>>

ReportFailures ==
    /\ run.pc = "end"
    /\ IF run.failed # {} THEN Alert("failed", run.failed, "idle")
       ELSE run' = NoRun /\ UNCHANGED alerted
    /\ UNCHANGED <<hour, source, logged, troubles, told, missed>>

\* run_with_monitoring: an exception ends the run, and is told.
Crash ==
    /\ run.pc \in Steps \ {"idle"}
    /\ troubles < MaxTroubles
    /\ troubles' = troubles + 1
    /\ run' = [NoRun EXCEPT !.pc = "store", !.kind = "crash"]
    /\ UNCHANGED <<hour, source, logged, alerted, told, missed>>

\* The process is killed, also between a row and its push.
Killed ==
    /\ run # NoRun
    /\ troubles < MaxTroubles
    /\ troubles' = troubles + 1
    /\ run' = NoRun
    /\ missed' = missed \cup About
    /\ UNCHANGED <<hour, source, logged, alerted, told>>

\* toggle_source, which frees a parked row, too
ToggleSource(s) ==
    /\ troubles < MaxTroubles
    /\ troubles' = troubles + 1
    /\ source' = [source EXCEPT ![s].enabled = ~@, ![s].parked = FALSE]
    /\ UNCHANGED <<hour, logged, run, alerted, told, missed>>

\* Somebody edits a row of sources.
EditSource(s) ==
    /\ troubles < MaxTroubles
    /\ troubles' = troubles + 1
    /\ source' = [source EXCEPT ![s].valid = ~@]
    /\ UNCHANGED <<hour, logged, run, alerted, told, missed>>

\* The walks take their time, the rest of a run does not.
HourPasses ==
    /\ run.pc \in {"idle", "walk"}
    /\ hour < MaxHour
    /\ hour' = hour + 1
    /\ UNCHANGED <<source, logged, run, troubles, alerted, told, missed>>

AlertsNext ==
    \/ LoadSources \/ CheckDead \/ CheckQuiet \/ ReportFailures \/ Crash \/ Killed
    \/ \E failed \in SUBSET run.todo : \E fresh \in SUBSET (run.todo \ failed) :
          \E seed \in BOOLEAN : Walks(fresh, failed, seed)
    \/ \E reached \in BOOLEAN : Store(reached)
    \/ \E arrives \in BOOLEAN : Push(arrives)
    \/ \E s \in Sources : ToggleSource(s) \/ EditSource(s)
    \/ HourPasses

-----------------------------------------------------------------------------
\* alert, _store: what an alert was called for, the bot has been told by name,
\* though repetitions are silent and each renews the silence, unless a push
\* failed, the process died before it, or the text only counted the source.
\* A parked row, which no later run looks at, is in this no exception.
TroubleTold ==
    alerted \subseteq told \cup missed \cup About
=============================================================================
