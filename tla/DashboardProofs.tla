--------------------------- MODULE DashboardProofs ---------------------------
(***************************************************************************)
(* Theorems about Dashboard, for any browsers, tabs, calls, programmes and *)
(* sources, and any bounds: each part has an invariant of its own, which   *)
(* the steps of the other two leave alone.                                 *)
(***************************************************************************)
EXTENDS Dashboard, FiniteSetTheorems, TLAPS

-----------------------------------------------------------------------------
\* Alerts.  A row keeps its shape, and so does the run.
SourceRow == [enabled : BOOLEAN, parked : BOOLEAN, valid : BOOLEAN,
              backfilled : BOOLEAN, item : Nat]
RunShape  == [pc : Steps \cup {"store", "push"},
              kind : {"none", "parked", "dead", "quiet", "failed", "crash"},
              about : SUBSET Sources, then : Steps,
              todo : SUBSET Sources, failed : SUBSET Sources]

AlertShapes == /\ hour \in Nat
               /\ source \in [Sources -> SourceRow]
               /\ run \in RunShape
               /\ run.pc \notin {"store", "push"} => run.about = {}

Lines == SourceLines(run.kind, run.about)

\* What a message on its way only counts is noted before it leaves.
CountedIsMissed ==
    run.pc = "push" => {run.kind} \X (run.about \ Lines) \subseteq missed

\* A text is logged for sources that were told or missed, or are about to be.
LoggedIsHeard ==
    \A x \in DOMAIN logged :
        {x.kind} \X x.lines \subseteq
            told \cup missed \cup (IF run.pc = "push" THEN About ELSE {})

AlertInv == AlertShapes /\ CountedIsMissed /\ LoggedIsHeard /\ TroubleTold

LEMMA AlertInit == InitAlerts \/ QuietAlerts => AlertInv
<1> SUFFICES ASSUME NEW bad, StartAlerts(bad) PROVE AlertInv
  BY DEF InitAlerts, QuietAlerts
<1>1. run \in RunShape /\ run.pc = "idle" /\ run.about = {}
  BY DEF StartAlerts, NoRun, RunShape, Steps
<1>2. source \in [Sources -> SourceRow]
  BY DEF StartAlerts, NewSource, SourceRow
<1>3. DOMAIN logged = {}
  BY DEF StartAlerts
<1> QED
  BY <1>1, <1>2, <1>3 DEF AlertInv, AlertShapes, CountedIsMissed, LoggedIsHeard,
     TroubleTold, StartAlerts

-----------------------------------------------------------------------------
\* A call of alert() where no message is on its way
LEMMA CallAlert ==
    ASSUME AlertInv, run.pc \in Steps,
           NEW kind \in {"parked", "dead", "quiet", "failed", "crash"},
           NEW S \in SUBSET Sources,
           alerted' = alerted \cup ({kind} \X S),
           run' \in RunShape, run'.pc = "store", run'.kind = kind, run'.about = S,
           hour' = hour, source' \in [Sources -> SourceRow],
           UNCHANGED <<logged, told, missed>>
    PROVE  AlertInv'
<1>1. run.pc # "push" /\ run.pc # "store" /\ run.about = {}
  BY DEF AlertInv, AlertShapes, Steps
<1>2. alerted \subseteq told \cup missed
  BY <1>1 DEF AlertInv, TroubleTold, About
<1>3. TroubleTold'
  BY <1>2 DEF TroubleTold, About
<1>4. LoggedIsHeard'
  BY <1>1 DEF AlertInv, LoggedIsHeard
<1> QED
  BY <1>3, <1>4 DEF AlertInv, AlertShapes, CountedIsMissed

\* A step of the run that calls nobody
LEMMA NoAlert ==
    ASSUME AlertInv, run.pc \in Steps, run' \in RunShape, run'.pc \in Steps,
           run'.about = {}, hour' \in Nat, source' \in [Sources -> SourceRow],
           UNCHANGED <<logged, alerted, told, missed>>
    PROVE  AlertInv'
<1>1. run.pc # "push" /\ run.pc # "store" /\ run.about = {}
  BY DEF AlertInv, AlertShapes, Steps
<1>2. run'.pc # "push" /\ run'.pc # "store"
  BY DEF Steps
<1>3. TroubleTold'
  BY <1>1 DEF AlertInv, TroubleTold, About
<1>4. LoggedIsHeard'
  BY <1>1, <1>2 DEF AlertInv, LoggedIsHeard
<1> QED
  BY <1>2, <1>3, <1>4 DEF AlertInv, AlertShapes, CountedIsMissed

LEMMA StoreKeeps ==
    ASSUME AlertInv, NEW reached \in BOOLEAN, Store(reached)
    PROVE  AlertInv'
<1> DEFINE x == Text(run.kind, run.about)
<1>1. run.pc = "store" /\ run \in RunShape /\ x.lines = Lines /\ x.kind = run.kind
  BY DEF Store, AlertInv, AlertShapes, Text, Lines
<1>2. missed' = missed \cup ({run.kind} \X (run.about \ Lines))
  BY <1>1 DEF Store
<1>3. UNCHANGED <<hour, source, alerted, told>>
  BY DEF Store
<1>4. \A y \in DOMAIN logged : {y.kind} \X y.lines \subseteq told \cup missed
  BY <1>1 DEF AlertInv, LoggedIsHeard
<1>5. CASE reached /\ Repeated(x)
  <2>1. run' = GoOn /\ x \in DOMAIN logged
    BY <1>5 DEF Store, Repeated
  <2>2. run' \in RunShape /\ run'.about = {} /\ run'.pc \in Steps
    BY <2>1, <1>1 DEF GoOn, RunShape, Steps
  <2>3. {run.kind} \X Lines \subseteq told \cup missed
    BY <2>1, <1>4, <1>1
  <2>4. TroubleTold'
    BY <2>3, <1>2, <1>3, <2>2 DEF TroubleTold, About, AlertInv
  <2>5. DOMAIN logged' = DOMAIN logged
    BY <2>1, <1>5 DEF Store
  <2>6. LoggedIsHeard'
    BY <2>5, <1>4, <1>2, <1>3 DEF LoggedIsHeard
  <2> QED
    BY <2>2, <2>4, <2>6, <1>3 DEF AlertInv, AlertShapes, CountedIsMissed, Steps
<1>6. CASE ~(reached /\ Repeated(x))
  <2>1. run' = [run EXCEPT !.pc = "push"]
    BY <1>6 DEF Store
  <2>2. /\ run' \in RunShape /\ run'.pc = "push"
        /\ run'.about = run.about /\ run'.kind = run.kind
    BY <2>1, <1>1 DEF RunShape
  <2>3. Lines' = Lines /\ About' = About
    BY <2>2, <1>3 DEF Lines, About, SourceLines, Sooner
  <2>4. CountedIsMissed'
    BY <2>2, <2>3, <1>2 DEF CountedIsMissed
  <2>5. TroubleTold'
    BY <2>3, <1>2, <1>3 DEF TroubleTold, AlertInv
  <2>6. DOMAIN logged' \subseteq DOMAIN logged \cup {x}
    BY <1>6 DEF Store
  <2>7. {x.kind} \X x.lines \subseteq About
    BY <1>1 DEF About, Lines, SourceLines
  <2>8. LoggedIsHeard'
    BY <2>6, <2>7, <2>3, <2>2, <1>4, <1>2, <1>3 DEF LoggedIsHeard
  <2> QED
    BY <2>2, <2>4, <2>5, <2>8, <1>3 DEF AlertInv, AlertShapes
<1> QED
  BY <1>5, <1>6

LEMMA PushKeeps ==
    ASSUME AlertInv, NEW arrives \in BOOLEAN, Push(arrives)
    PROVE  AlertInv'
<1>1. run.pc = "push" /\ run \in RunShape
  BY DEF Push, AlertInv, AlertShapes
<1>2. run' \in RunShape /\ run'.about = {} /\ run'.pc \in Steps
  BY <1>1 DEF Push, GoOn, RunShape, Steps
<1>3. UNCHANGED <<hour, source, logged, alerted>>
  BY DEF Push
<1>4. About \subseteq told' \cup missed' /\ told \subseteq told' /\ missed \subseteq missed'
  <2>1. CASE arrives
    <3>1. told' = told \cup ({run.kind} \X Lines) /\ missed' = missed
      BY <2>1 DEF Push, Text, Lines
    <3> QED
      BY <3>1, <1>1 DEF About, AlertInv, CountedIsMissed
  <2>2. CASE ~arrives
    BY <2>2 DEF Push
  <2> QED
    BY <2>1, <2>2
<1>5. TroubleTold'
  BY <1>4, <1>3 DEF AlertInv, TroubleTold
<1>6. LoggedIsHeard'
  BY <1>1, <1>3, <1>4 DEF AlertInv, LoggedIsHeard
<1> QED
  BY <1>2, <1>3, <1>5, <1>6 DEF AlertInv, AlertShapes, CountedIsMissed, Steps

LEMMA KilledKeeps ==
    ASSUME AlertInv, Killed
    PROVE  AlertInv'
<1>1. /\ run' = NoRun /\ missed' = missed \cup About
      /\ UNCHANGED <<hour, source, logged, alerted, told>>
  BY DEF Killed
<1>2. run' \in RunShape /\ run'.pc = "idle" /\ run'.about = {}
  BY <1>1 DEF NoRun, RunShape, Steps
<1>3. TroubleTold' /\ LoggedIsHeard'
  BY <1>1, <1>2 DEF AlertInv, TroubleTold, LoggedIsHeard
<1> QED
  BY <1>1, <1>2, <1>3 DEF AlertInv, AlertShapes, CountedIsMissed

\* A row that somebody changes keeps its date.
LEMMA RowChangeKeeps ==
    ASSUME AlertInv, source' \in [Sources -> SourceRow],
           \A s \in Sources : source'[s].item = source[s].item,
           UNCHANGED <<hour, logged, run, alerted, told, missed>>
    PROVE  AlertInv'
<1>1. run.about \in SUBSET Sources
  BY DEF AlertInv, AlertShapes, RunShape
<1>2. \A s, t \in Sources : Sooner(s, t)' <=> Sooner(s, t)
  BY DEF Sooner
<1>3. \A s \in run.about :
          {t \in run.about : IF run.kind = "failed" THEN t < s ELSE Sooner(t, s)'}
          = {t \in run.about : IF run.kind = "failed" THEN t < s ELSE Sooner(t, s)}
  BY <1>1, <1>2
<1>4. Lines' = Lines
  BY <1>3 DEF Lines, SourceLines
<1> QED
  BY <1>4 DEF AlertInv, AlertShapes, CountedIsMissed, LoggedIsHeard, TroubleTold, About

\* A row of sources as LoadSources, Walks and the panel leave it
LEMMA AlertStep ==
    ASSUME AlertInv, AlertsNext
    PROVE  AlertInv'
<1>0. /\ hour \in Nat /\ source \in [Sources -> SourceRow] /\ run \in RunShape
      /\ run.pc \notin {"store", "push"} => run.about = {}
  BY DEF AlertInv, AlertShapes
<1>1. CASE LoadSources
  <2> DEFINE broken == {s \in Sources : On(s) /\ ~source[s].valid}
             todo   == {s \in Sources : On(s) /\ source[s].valid}
  <2>1. run.pc \in Steps
    BY <1>1 DEF LoadSources, NoRun, Steps
  <2>2. source' \in [Sources -> SourceRow]
    BY <1>0, <1>1 DEF LoadSources, SourceRow
  <2>3. hour' = hour /\ UNCHANGED <<logged, told, missed>>
    BY <1>1 DEF LoadSources
  <2>4. CASE broken = {}
    <3>1. run' = [NoRun EXCEPT !.pc = "walk", !.todo = todo] /\ alerted' = alerted
      BY <1>1, <2>4 DEF LoadSources
    <3>2. run' \in RunShape /\ run'.pc \in Steps /\ run'.about = {}
      BY <3>1 DEF NoRun, RunShape, Steps
    <3> QED
      BY <3>1, <3>2, <2>1, <2>2, <2>3, <1>0, NoAlert
  <2>5. CASE broken # {}
    <3>1. /\ run' = [NoRun EXCEPT !.pc = "store", !.kind = "parked", !.about = broken,
                                  !.then = "walk", !.todo = todo]
          /\ alerted' = alerted \cup ({"parked"} \X broken)
      BY <1>1, <2>5 DEF LoadSources
    <3>2. /\ run' \in RunShape /\ run'.pc = "store" /\ run'.kind = "parked"
          /\ run'.about = broken
      BY <3>1 DEF NoRun, RunShape, Steps
    <3> QED
      BY <3>1, <3>2, <2>1, <2>2, <2>3, CallAlert
  <2> QED
    BY <2>4, <2>5
<1>2. ASSUME NEW failed \in SUBSET run.todo, NEW fresh \in SUBSET (run.todo \ failed),
             NEW seed \in BOOLEAN, Walks(fresh, failed, seed)
      PROVE  AlertInv'
  <2>1. run.pc = "walk" /\ UNCHANGED <<hour, logged, alerted, told, missed>>
    BY <1>2 DEF Walks
  <2>2. source' \in [Sources -> SourceRow]
    BY ZenonT(40), <1>0, <1>2 DEF Walks, SourceRow
  <2>3. run' \in RunShape /\ run'.pc \in Steps /\ run'.about = {}
    BY <1>0, <1>2, <2>1 DEF Walks, RunShape, Steps
  <2> QED
    BY <2>1, <2>2, <2>3, <1>0, NoAlert DEF Steps
<1>3. CASE CheckDead
  <2>1. run.pc = "dead" /\ UNCHANGED <<hour, source, logged, told, missed>>
    BY <1>3 DEF CheckDead
  <2>2. CASE Dead # {}
    <3>1. Alert("dead", Dead, "quiet") /\ Dead \in SUBSET Sources
      BY <1>3, <2>2 DEF CheckDead, Dead
    <3>2. run' \in RunShape /\ run'.pc = "store" /\ run'.kind = "dead" /\ run'.about = Dead
      BY <1>0, <3>1 DEF Alert, RunShape, Steps
    <3> QED
      BY <3>1, <3>2, <2>1, <1>0, CallAlert DEF Alert, Steps
  <2>3. CASE Dead = {}
    <3>1. run' = [run EXCEPT !.pc = "quiet"] /\ alerted' = alerted
      BY <1>3, <2>3 DEF CheckDead
    <3>2. run' \in RunShape /\ run'.pc \in Steps /\ run'.about = {}
      BY <1>0, <2>1, <3>1 DEF RunShape, Steps
    <3> QED
      BY <3>1, <3>2, <2>1, <1>0, NoAlert DEF Steps
  <2> QED
    BY <2>2, <2>3
<1>4. CASE CheckQuiet
  <2>1. run.pc = "quiet" /\ UNCHANGED <<hour, source, logged, told, missed>>
    BY <1>4 DEF CheckQuiet
  <2>2. CASE QuietSources # {} /\ DigestDue
    <3>1. Alert("quiet", QuietSources, "end") /\ QuietSources \in SUBSET Sources
      BY <1>4, <2>2 DEF CheckQuiet, QuietSources
    <3>2. /\ run' \in RunShape /\ run'.pc = "store" /\ run'.kind = "quiet"
          /\ run'.about = QuietSources
      BY <1>0, <3>1 DEF Alert, RunShape, Steps
    <3> QED
      BY <3>1, <3>2, <2>1, <1>0, CallAlert DEF Alert, Steps
  <2>3. CASE ~(QuietSources # {} /\ DigestDue)
    <3>1. run' = [run EXCEPT !.pc = "end"] /\ alerted' = alerted
      BY <1>4, <2>3 DEF CheckQuiet
    <3>2. run' \in RunShape /\ run'.pc \in Steps /\ run'.about = {}
      BY <1>0, <2>1, <3>1 DEF RunShape, Steps
    <3> QED
      BY <3>1, <3>2, <2>1, <1>0, NoAlert DEF Steps
  <2> QED
    BY <2>2, <2>3
<1>5. CASE ReportFailures
  <2>1. run.pc = "end" /\ UNCHANGED <<hour, source, logged, told, missed>>
    BY <1>5 DEF ReportFailures
  <2>2. CASE run.failed # {}
    <3>1. Alert("failed", run.failed, "idle") /\ run.failed \in SUBSET Sources
      BY <1>0, <1>5, <2>2 DEF ReportFailures, RunShape
    <3>2. /\ run' \in RunShape /\ run'.pc = "store" /\ run'.kind = "failed"
          /\ run'.about = run.failed
      BY <1>0, <3>1 DEF Alert, RunShape, Steps
    <3> QED
      BY <3>1, <3>2, <2>1, <1>0, CallAlert DEF Alert, Steps
  <2>3. CASE run.failed = {}
    <3>1. run' = NoRun /\ alerted' = alerted
      BY <1>5, <2>3 DEF ReportFailures
    <3>2. run' \in RunShape /\ run'.pc \in Steps /\ run'.about = {}
      BY <3>1 DEF NoRun, RunShape, Steps
    <3> QED
      BY <3>1, <3>2, <2>1, <1>0, NoAlert DEF Steps
  <2> QED
    BY <2>2, <2>3
<1>6. CASE Crash
  <2>1. run.pc \in Steps /\ UNCHANGED <<hour, source, logged, alerted, told, missed>>
    BY <1>6 DEF Crash
  <2>2. /\ run' \in RunShape /\ run'.pc = "store" /\ run'.kind = "crash"
        /\ run'.about = {}
    BY <1>6 DEF Crash, NoRun, RunShape, Steps
  <2>3. alerted' = alerted \cup ({"crash"} \X {})
    BY <2>1
  <2> QED
    BY <2>1, <2>2, <2>3, <1>0, CallAlert
<1>7. ASSUME NEW s \in Sources, ToggleSource(s) \/ EditSource(s)
      PROVE  AlertInv'
  <2>1. /\ source' \in [Sources -> SourceRow]
        /\ \A t \in Sources : source'[t].item = source[t].item
    <3>1. CASE ToggleSource(s)
      <4>1. source' = [source EXCEPT ![s] = [source[s] EXCEPT !.enabled = ~source[s].enabled,
                                                              !.parked = FALSE]]
        BY <3>1 DEF ToggleSource
      <4>2. [source[s] EXCEPT !.enabled = ~source[s].enabled, !.parked = FALSE] \in SourceRow
        BY <1>0 DEF SourceRow
      <4>3. [source[s] EXCEPT !.enabled = ~source[s].enabled, !.parked = FALSE].item
            = source[s].item
        BY <1>0 DEF SourceRow
      <4> QED
        BY <4>1, <4>2, <4>3, <1>0
    <3>2. CASE EditSource(s)
      <4>1. source' = [source EXCEPT ![s] = [source[s] EXCEPT !.valid = ~source[s].valid]]
        BY <3>2 DEF EditSource
      <4>2. [source[s] EXCEPT !.valid = ~source[s].valid] \in SourceRow
        BY <1>0 DEF SourceRow
      <4>3. [source[s] EXCEPT !.valid = ~source[s].valid].item = source[s].item
        BY <1>0 DEF SourceRow
      <4> QED
        BY <4>1, <4>2, <4>3, <1>0
    <3> QED
      BY <1>7, <3>1, <3>2
  <2>2. UNCHANGED <<hour, logged, run, alerted, told, missed>>
    BY <1>7 DEF ToggleSource, EditSource
  <2> QED
    BY <2>1, <2>2, RowChangeKeeps
<1>8. CASE HourPasses
  <2>1. /\ run.pc \in Steps /\ hour' = hour + 1
        /\ UNCHANGED <<source, logged, run, alerted, told, missed>>
    BY <1>8 DEF HourPasses, Steps
  <2>2. run.about = {}
    BY <2>1, <1>0 DEF Steps
  <2> QED
    BY <2>1, <2>2, <1>0, NoAlert
<1> QED
  BY <1>1, <1>2, <1>3, <1>4, <1>5, <1>6, <1>7, <1>8, StoreKeeps, PushKeeps, KilledKeeps
     DEF AlertsNext

-----------------------------------------------------------------------------
\* Weekly reports.
CallShape == [pc : {"rest", "think", "store"}, kind : KINDS, today : Nat,
              forced : BOOLEAN, began : Nat, block : SUBSET (Programmes \cup {Absurd}),
              rows : Seq(Programmes \cup {Absurd}), held : SUBSET Programmes]

WeeklyShapes == day \in Nat /\ filed \in Nat /\ call \in [Calls -> CallShape]

Busy(c) == call[c].pc # "rest"

\* Reports are numbered as they are stored, and a generation starts among those.
Numbered == /\ \A r \in reports : r.id \in 1 .. filed
            /\ \A c \in Calls : call[c].began <= filed

\* While a generation is under way that was not forced, whatever report of its
\* kind and day is there was stored since it started.
GuardStood ==
    \A c \in Calls : Busy(c) /\ ~call[c].forced
        => \A r \in reports :
               r.kind = call[c].kind /\ r.title = call[c].today => call[c].began < r.id

\* A block is what its transaction has written and what is still to write.
RowsOf(q) == {q[i] : i \in DOMAIN q}

BlockWhole ==
    \A c \in Calls :
        IF call[c].pc = "store" THEN call[c].block = call[c].held \cup RowsOf(call[c].rows)
                                ELSE call[c].held = {}

WeeklyInv == /\ WeeklyShapes /\ Numbered /\ GuardStood /\ BlockWhole
             /\ OneReportADay /\ DeadlinesBacked

LEMMA RestingShape == Resting \in CallShape /\ Resting.pc = "rest" /\ Resting.held = {}
<1>1. <<>> \in Seq(Programmes \cup {Absurd})
  OBVIOUS
<1> QED
  BY <1>1 DEF Resting, CallShape, KINDS

LEMMA WeeklyInit == InitWeekly => WeeklyInv
<1> SUFFICES ASSUME InitWeekly PROVE WeeklyInv
  OBVIOUS
<1>1. \A c \in Calls : call[c] = Resting /\ Resting.began = 0 /\ ~Busy(c)
  BY DEF InitWeekly, Resting, Busy
<1> QED
  BY <1>1, RestingShape DEF InitWeekly, WeeklyInv, WeeklyShapes, Numbered, GuardStood,
     BlockWhole, OneReportADay, DeadlinesBacked

\* A generation that goes on, or ends without a report
LEMMA CallChanges ==
    ASSUME WeeklyInv, NEW c \in Calls, NEW s \in CallShape,
           Busy(c), call' = [call EXCEPT ![c] = s],
           s.pc = "rest" \/ (/\ s.kind = call[c].kind /\ s.today = call[c].today
                             /\ s.forced = call[c].forced),
           s.began = call[c].began \/ (s.pc = "rest" /\ s.began = 0),
           IF s.pc = "store" THEN s.block = s.held \cup RowsOf(s.rows) ELSE s.held = {},
           UNCHANGED <<day, reports, deadlines, filed, backed>>
    PROVE  WeeklyInv'
<1>1. /\ call' \in [Calls -> CallShape] /\ filed \in Nat
      /\ \A d \in Calls : call'[d] = IF d = c THEN s ELSE call[d]
  BY DEF WeeklyInv, WeeklyShapes
<1>2. Numbered'
  BY <1>1 DEF WeeklyInv, Numbered
<1>3. GuardStood'
  <2> SUFFICES ASSUME NEW d \in Calls, Busy(d)', ~call'[d].forced, NEW r \in reports,
                      r.kind = call'[d].kind, r.title = call'[d].today
               PROVE  call'[d].began < r.id
    BY DEF GuardStood
  <2>1. /\ Busy(d) /\ call'[d].kind = call[d].kind /\ call'[d].today = call[d].today
        /\ call'[d].forced = call[d].forced /\ call'[d].began = call[d].began
    BY <1>1 DEF Busy
  <2> QED
    BY <2>1 DEF WeeklyInv, GuardStood
<1>4. BlockWhole'
  BY <1>1 DEF WeeklyInv, BlockWhole
<1> QED
  BY <1>1, <1>2, <1>3, <1>4 DEF WeeklyInv, WeeklyShapes, OneReportADay, DeadlinesBacked

LEMMA CallFalls ==
    ASSUME WeeklyInv, NEW c \in Calls, Busy(c), RollBack(c)
    PROVE  WeeklyInv'
<1>1. Resting.began = 0
  BY DEF Resting
<1> QED
  BY <1>1, RestingShape, CallChanges DEF RollBack

LEMMA GenerateKeeps ==
    ASSUME WeeklyInv, NEW c \in Calls, NEW kind \in KINDS, NEW force \in BOOLEAN,
           Generate(c, kind, force)
    PROVE  WeeklyInv'
<1> DEFINE s == [Resting EXCEPT !.pc = "think", !.kind = kind, !.today = day,
                                !.forced = force, !.began = filed]
<1>1. /\ call' = [call EXCEPT ![c] = s] /\ ~Busy(c)
      /\ UNCHANGED <<day, reports, deadlines, filed, backed>>
      /\ force \/ Recent(kind, day) = {}
  BY DEF Generate, Busy
<1>2. day \in Nat /\ filed \in Nat /\ call \in [Calls -> CallShape]
  BY DEF WeeklyInv, WeeklyShapes
<1>3. /\ s.pc = "think" /\ s.kind = kind /\ s.today = day /\ s.forced = force
      /\ s.began = filed /\ s.held = {}
  BY DEF Resting
<1>4. s \in CallShape
  BY <1>2, RestingShape DEF CallShape
<1> HIDE DEF s
<1>5. call' \in [Calls -> CallShape] /\ \A d \in Calls : call'[d] = IF d = c THEN s ELSE call[d]
  BY <1>1, <1>2, <1>4
<1>6. Numbered'
  BY <1>1, <1>2, <1>3, <1>5 DEF WeeklyInv, Numbered
<1>7. GuardStood'
  <2> SUFFICES ASSUME NEW d \in Calls, Busy(d)', ~call'[d].forced, NEW r \in reports,
                      r.kind = call'[d].kind, r.title = call'[d].today
               PROVE  call'[d].began < r.id
    BY <1>1 DEF GuardStood
  <2>1. CASE d = c
    <3>1. Recent(kind, day) = {} /\ r.kind = kind /\ r.title = day
      BY <2>1, <1>1, <1>3, <1>5
    <3> QED
      BY <3>1 DEF Recent
  <2>2. CASE d # c
    BY <2>2, <1>5 DEF WeeklyInv, GuardStood, Busy
  <2> QED
    BY <2>1, <2>2
<1>8. BlockWhole'
  BY <1>3, <1>5 DEF WeeklyInv, BlockWhole
<1> QED
  BY <1>1, <1>2, <1>5, <1>6, <1>7, <1>8 DEF WeeklyInv, WeeklyShapes, OneReportADay,
     DeadlinesBacked

\* A report is stored: it has the highest number, and its whole block is there.
LEMMA FileKeeps ==
    ASSUME WeeklyInv, NEW c \in Calls, File(c)
    PROVE  WeeklyInv'
<1> DEFINE new == [id |-> filed + 1, kind |-> call[c].kind, title |-> call[c].today,
                   forced |-> call[c].forced, began |-> call[c].began]
<1>1. /\ Busy(c) /\ call[c].pc = "store" /\ call[c].rows = <<>>
      /\ call' = [call EXCEPT ![c] = Resting] /\ day' = day /\ filed' = filed + 1
      /\ reports' = reports \cup {new}
      /\ deadlines' = deadlines \cup call[c].held /\ backed' = backed \cup call[c].block
  BY DEF File, Title, Busy
<1>2. day \in Nat /\ filed \in Nat /\ call \in [Calls -> CallShape]
  BY DEF WeeklyInv, WeeklyShapes
<1>3. /\ new.id = filed + 1 /\ new.kind = call[c].kind /\ new.title = call[c].today
      /\ new.forced = call[c].forced /\ new.began = call[c].began
  OBVIOUS
<1> HIDE DEF new
<1>4. /\ call' \in [Calls -> CallShape]
      /\ \A d \in Calls : call'[d] = IF d = c THEN Resting ELSE call[d]
  BY <1>1, <1>2, RestingShape
<1>5. \A d \in Calls : call[d].began \in Nat /\ call[d].began <= filed
  BY <1>2 DEF WeeklyInv, Numbered, CallShape
<1>6. Numbered'
  <2>1. \A r \in reports' : r.id \in 1 .. filed'
    BY <1>1, <1>2, <1>3 DEF WeeklyInv, Numbered
  <2>2. \A d \in Calls : call'[d].began <= filed'
    <3>1. Resting.began = 0
      BY DEF Resting
    <3> QED
      BY <3>1, <1>1, <1>2, <1>4, <1>5
  <2> QED
    BY <2>1, <2>2 DEF Numbered
<1>7. GuardStood'
  <2> SUFFICES ASSUME NEW d \in Calls, Busy(d)', ~call'[d].forced, NEW r \in reports',
                      r.kind = call'[d].kind, r.title = call'[d].today
               PROVE  call'[d].began < r.id
    BY DEF GuardStood
  <2>1. d # c /\ call'[d] = call[d] /\ Busy(d)
    BY <1>4, RestingShape DEF Busy
  <2>2. CASE r \in reports
    BY <2>1, <2>2 DEF WeeklyInv, GuardStood
  <2>3. CASE r = new
    BY <2>1, <2>3, <1>2, <1>3, <1>5
  <2> QED
    BY <2>2, <2>3, <1>1
<1>8. BlockWhole'
  BY <1>4, RestingShape DEF WeeklyInv, BlockWhole
<1>9. OneReportADay'
  <2> SUFFICES ASSUME NEW r \in reports', NEW s \in reports',
                      r.kind = s.kind, r.title = s.title, r.id < s.id
               PROVE  s.forced \/ s.began < r.id
    BY DEF OneReportADay
  <2>1. \A t \in reports : t.id \in Nat /\ t.id <= filed
    BY <1>2 DEF WeeklyInv, Numbered
  <2>2. CASE s \in reports
    <3>1. r \in reports
      BY <2>1, <2>2, <1>1, <1>2, <1>3
    <3> QED
      BY <3>1, <2>2 DEF WeeklyInv, OneReportADay
  <2>3. CASE s = new
    <3>1. r \in reports
      BY <2>3, <1>1, <1>2, <1>3
    <3> QED
      BY <3>1, <2>3, <1>1, <1>3 DEF WeeklyInv, GuardStood
  <2> QED
    BY <2>2, <2>3, <1>1
<1>10. DeadlinesBacked'
  <2>1. RowsOf(call[c].rows) = {}
    BY <1>1 DEF RowsOf
  <2>2. call[c].block = call[c].held
    BY <2>1, <1>1 DEF WeeklyInv, BlockWhole
  <2> QED
    BY <2>2, <1>1 DEF WeeklyInv, DeadlinesBacked
<1> QED
  BY <1>1, <1>2, <1>4, <1>6, <1>7, <1>8, <1>9, <1>10 DEF WeeklyInv, WeeklyShapes

\* The rows of a sequence are its first and those of the rest.
LEMMA RowsSplit ==
    ASSUME NEW S, NEW q \in Seq(S), q # <<>>
    PROVE  /\ Head(q) \in S /\ Tail(q) \in Seq(S)
           /\ RowsOf(q) = {Head(q)} \cup RowsOf(Tail(q))
<1>1. /\ Head(q) \in S /\ Tail(q) \in Seq(S) /\ Len(q) \in Nat \ {0}
      /\ Len(Tail(q)) = Len(q) - 1 /\ Head(q) = q[1]
      /\ DOMAIN q = 1 .. Len(q) /\ DOMAIN Tail(q) = 1 .. Len(Tail(q))
      /\ \A i \in 1 .. Len(Tail(q)) : Tail(q)[i] = q[i + 1]
  OBVIOUS
<1>2. ASSUME NEW i \in DOMAIN q
      PROVE  q[i] \in {Head(q)} \cup RowsOf(Tail(q))
  <2>1. CASE i = 1
    BY <2>1, <1>1
  <2>2. CASE i # 1
    <3>1. i - 1 \in DOMAIN Tail(q) /\ Tail(q)[i - 1] = q[i]
      BY <2>2, <1>1
    <3> QED
      BY <3>1 DEF RowsOf
  <2> QED
    BY <2>1, <2>2
<1>3. ASSUME NEW i \in DOMAIN Tail(q)
      PROVE  Tail(q)[i] \in RowsOf(q)
  <2>1. i + 1 \in DOMAIN q /\ Tail(q)[i] = q[i + 1]
    BY <1>1
  <2> QED
    BY <2>1 DEF RowsOf
<1>4. Head(q) \in RowsOf(q)
  <2>1. 1 \in DOMAIN q
    BY <1>1
  <2> QED
    BY <2>1, <1>1 DEF RowsOf
<1> QED
  BY <1>1, <1>2, <1>3, <1>4 DEF RowsOf

LEMMA WeeklyStep ==
    ASSUME WeeklyInv, WeeklyNext
    PROVE  WeeklyInv'
<1>0. day \in Nat /\ call \in [Calls -> CallShape]
  BY DEF WeeklyInv, WeeklyShapes
<1>1. ASSUME NEW c \in Calls, Synthesise(c)
      PROVE  WeeklyInv'
  <2>1. PICK block \in IF call[c].kind = "grants" THEN Blocks ELSE {<<>>} :
            call' = [call EXCEPT ![c] = [call[c] EXCEPT !.pc = "store", !.rows = block,
                                             !.block = {block[i] : i \in DOMAIN block}]]
    BY <1>1 DEF Synthesise
  <2>2. block \in Seq(Programmes \cup {Absurd})
    <3>1. block = <<>> \/ block = <<Absurd>>
          \/ \E p, q \in Programmes \cup {Absurd} : block = <<p, q>>
      BY DEF Blocks
    <3> DEFINE S == Programmes \cup {Absurd}
    <3>2. Absurd \in S
      OBVIOUS
    <3> HIDE DEF S
    <3>3. <<>> \in Seq(S) /\ \A p, q \in S : <<p>> \in Seq(S) /\ <<p, q>> \in Seq(S)
      OBVIOUS
    <3> QED
      BY <3>1, <3>2, <3>3 DEF S
  <2>3. RowsOf(block) \subseteq Programmes \cup {Absurd}
    BY <2>2 DEF RowsOf
  <2> DEFINE s == [call[c] EXCEPT !.pc = "store", !.rows = block, !.block = RowsOf(block)]
  <2>4. call' = [call EXCEPT ![c] = s]
    BY <2>1 DEF RowsOf
  <2>5. s \in CallShape
    BY <1>0, <2>2, <2>3 DEF CallShape
  <2>6. /\ s.kind = call[c].kind /\ s.today = call[c].today /\ s.forced = call[c].forced
        /\ s.began = call[c].began /\ s.held = call[c].held /\ s.pc = "store"
        /\ s.block = RowsOf(block) /\ s.rows = block
    BY <1>0 DEF CallShape
  <2>7. /\ Busy(c) /\ call[c].pc # "store"
        /\ UNCHANGED <<day, reports, deadlines, filed, backed>>
    BY <1>1 DEF Synthesise, Busy
  <2>8. call[c].held = {}
    BY <2>7 DEF WeeklyInv, BlockWhole
  <2> HIDE DEF s
  <2> QED
    BY <2>4, <2>5, <2>6, <2>7, <2>8, CallChanges
<1>2. ASSUME NEW c \in Calls, StoreDeadline(c)
      PROVE  WeeklyInv'
  <2> DEFINE p == Head(call[c].rows)
             s == [call[c] EXCEPT !.rows = Tail(call[c].rows),
                                  !.held = call[c].held \cup {p}]
  <2>1. /\ call[c].rows \in Seq(Programmes \cup {Absurd}) /\ call[c].rows # <<>>
        /\ p # Absurd /\ call[c].pc = "store"
        /\ call' = [call EXCEPT ![c] = s]
        /\ UNCHANGED <<day, reports, deadlines, filed, backed>>
    BY <1>0, <1>2 DEF StoreDeadline, CallShape
  <2>2. /\ p \in Programmes /\ Tail(call[c].rows) \in Seq(Programmes \cup {Absurd})
        /\ RowsOf(call[c].rows) = {p} \cup RowsOf(Tail(call[c].rows))
    BY <2>1, RowsSplit
  <2> HIDE DEF p
  <2>3. s \in CallShape
    BY <1>0, <2>2 DEF CallShape
  <2>4. /\ s.kind = call[c].kind /\ s.today = call[c].today /\ s.forced = call[c].forced
        /\ s.began = call[c].began /\ s.pc = "store" /\ s.block = call[c].block
        /\ s.held = call[c].held \cup {p} /\ s.rows = Tail(call[c].rows)
    BY <1>0, <2>1 DEF CallShape
  <2>5. call[c].block = call[c].held \cup RowsOf(call[c].rows)
    BY <2>1 DEF WeeklyInv, BlockWhole
  <2>6. s.block = s.held \cup RowsOf(s.rows)
    BY <2>2, <2>4, <2>5
  <2> HIDE DEF s
  <2> QED
    BY <2>1, <2>3, <2>4, <2>6, CallChanges DEF Busy
<1>3. ASSUME NEW c \in Calls, Refused(c) \/ Deadlock(c) \/ Fails(c)
      PROVE  WeeklyInv'
  <2>1. RollBack(c) /\ Busy(c)
    BY <1>3 DEF Refused, Deadlock, Waits, Fails, Busy
  <2> QED
    BY <2>1, CallFalls
<1>4. CASE DeleteBrief
  <2>1. reports' \subseteq reports /\ UNCHANGED <<day, deadlines, call, filed, backed>>
    BY <1>4 DEF DeleteBrief
  <2> QED
    BY <2>1 DEF WeeklyInv, WeeklyShapes, Numbered, GuardStood, BlockWhole, OneReportADay,
       DeadlinesBacked, Busy
<1>5. CASE Midnight
  <2>1. day' \in Nat /\ UNCHANGED <<reports, deadlines, call, filed, backed>>
    BY <1>0, <1>5 DEF Midnight
  <2> QED
    BY <2>1 DEF WeeklyInv, WeeklyShapes, Numbered, GuardStood, BlockWhole, OneReportADay,
       DeadlinesBacked, Busy
<1> QED
  BY <1>1, <1>2, <1>3, <1>4, <1>5, GenerateKeeps, FileKeeps DEF WeeklyNext

-----------------------------------------------------------------------------
\* Sessions.
CookieShape  == [epoch : Nat, sid : Nat]
RequestShape == [pc : {"quiet", "inside", "answered"}, kind : Kinds,
                 cookie : CookieShape, faded : BOOLEAN, set : CookieShape]

SessionShapes ==
    /\ epoch \in Nat \ {0} /\ stored \in Nat \ {0} /\ minted \in Nat
    /\ jar \in [Browsers -> CookieShape]
    /\ request \in [Tabs -> RequestShape]
    /\ left \in [Browsers -> Nat]
    /\ out \subseteq Browsers /\ cut \subseteq Browsers

\* Process and database have always agreed on the epoch.
Agreed == ~diverged

\* No session id but those minted
SidsMinted ==
    /\ \A b \in Browsers : jar[b].sid <= minted /\ left[b] <= minted
    /\ \A t \in Tabs : request[t].cookie.sid <= minted /\ request[t].set.sid <= minted

\* While process and database agree, no cookie is of an epoch to come.
EpochsKnown ==
    Agreed => /\ epoch = stored
              /\ \A b \in Browsers : jar[b].epoch <= epoch
              /\ \A t \in Tabs : request[t].set.epoch <= epoch

\* What the answers to a logout and to a new chat set
AnswersRight ==
    \A t \in Tabs : request[t].pc = "answered" =>
        /\ request[t].kind \in {"logout", "logoutAll"} => request[t].set = NoCookie
        /\ request[t].kind = "newChat" =>
               request[t].set.sid = NoSid \/ request[t].set.sid > request[t].cookie.sid

\* A browser that is out has nothing but logins under way, and one that was
\* cut off nothing that sets a cookie but logins.
OutIsOut ==
    \A b \in out : /\ jar[b] = NoCookie
                   /\ \A t \in Tabs : BrowserOf[t] = b /\ request[t].pc # "quiet"
                                          => request[t].kind = "login"

CutIsCut ==
    Agreed => \A b \in cut :
        /\ jar[b].epoch < epoch
        /\ \A t \in Tabs : BrowserOf[t] = b /\ request[t].pc # "quiet"
               => \/ request[t].kind = "login"
                  \/ request[t].pc = "answered" /\ request[t].set = NoCookie

\* No request carries the conversation its browser has left.
Past(sid, b) == sid = NoSid \/ sid > left[b]

LeftIsLeft ==
    /\ \A b \in Browsers : Past(jar[b].sid, b)
    /\ \A t \in Tabs :
           /\ request[t].pc = "inside" /\ request[t].kind # "login"
                  => Past(request[t].cookie.sid, BrowserOf[t])
           /\ request[t].pc = "answered" => Past(request[t].set.sid, BrowserOf[t])

SessionInv == /\ SessionShapes /\ SidsMinted /\ EpochsKnown /\ AnswersRight
              /\ OutIsOut /\ CutIsCut /\ LeftIsLeft

LEMMA NoCookieShape ==
    /\ NoCookie \in CookieShape /\ NoCookie.sid = 0 /\ NoCookie.epoch = 0
    /\ Quiet \in RequestShape /\ Quiet.pc = "quiet" /\ Quiet.set = NoCookie
    /\ Quiet.cookie = NoCookie
  BY DEF NoCookie, CookieShape, Quiet, RequestShape, Kinds, NoSid

LEMMA SessionInit == InitSession => SessionInv
<1> SUFFICES ASSUME InitSession PROVE SessionInv
  OBVIOUS
<1>1. /\ epoch = 1 /\ stored = 1 /\ minted = 0 /\ out = {} /\ cut = {} /\ diverged = FALSE
      /\ jar = [b \in Browsers |-> NoCookie] /\ left = [b \in Browsers |-> 0]
      /\ request = [t \in Tabs |-> Quiet]
  BY DEF InitSession, NoSid
<1>2. /\ \A b \in Browsers : jar[b] = NoCookie /\ left[b] = 0
      /\ \A t \in Tabs : request[t] = Quiet
  BY <1>1
<1>3. SessionShapes
  <2>1. /\ jar \in [Browsers -> CookieShape] /\ left \in [Browsers -> Nat]
        /\ request \in [Tabs -> RequestShape]
    BY <1>1, NoCookieShape
  <2> QED
    BY <1>1, <2>1 DEF SessionShapes
<1>4. SidsMinted /\ EpochsKnown
  BY <1>1, <1>2, NoCookieShape DEF SidsMinted, EpochsKnown
<1>5. AnswersRight /\ OutIsOut /\ CutIsCut
  BY <1>1, <1>2, NoCookieShape DEF AnswersRight, OutIsOut, CutIsCut
<1>6. LeftIsLeft
  BY <1>2, NoCookieShape DEF LeftIsLeft, Past, NoSid
<1> QED
  BY <1>3, <1>4, <1>5, <1>6 DEF SessionInv

LEMMA SessionPromises == SessionInv => SignedOutStays /\ NewChatSticks
<1> SUFFICES ASSUME SessionInv PROVE SignedOutStays /\ NewChatSticks
  OBVIOUS
<1>1. \A b \in out : jar[b] = NoCookie
  BY DEF SessionInv, OutIsOut
<1>2. Agreed => \A b \in cut : ~Live(jar[b])
  BY DEF SessionInv, CutIsCut, SessionShapes, CookieShape, Live
<1> QED
  BY <1>1, <1>2 DEF Agreed, SignedOutStays, NewChatSticks, SessionInv, LeftIsLeft, Past

-----------------------------------------------------------------------------
\* One request moves on; jar, epoch and promises stay, and the ids grow.
LEMMA RequestMoves ==
    ASSUME SessionInv, NEW t \in Tabs, NEW r \in RequestShape, BrowserOf[t] \in Browsers,
           request' = [request EXCEPT ![t] = r],
           UNCHANGED <<epoch, stored, jar>>, UNCHANGED <<out, cut, left, diverged>>,
           minted' \in Nat, minted <= minted',
           r.cookie.sid <= minted', r.set.sid <= minted',
           Agreed => r.set.epoch <= epoch,
           r.pc = "answered" /\ r.kind \in {"logout", "logoutAll"} => r.set = NoCookie,
           r.pc = "answered" /\ r.kind = "newChat"
               => r.set.sid = NoSid \/ r.set.sid > r.cookie.sid,
           r.pc # "quiet" => \/ r.kind = "login"
                             \/ request[t].pc # "quiet" /\ r.kind = request[t].kind
                                /\ (request[t].pc = "answered" => r = request[t])
                             \/ Live(jar[BrowserOf[t]]),
           r.pc = "inside" /\ r.kind # "login" => Past(r.cookie.sid, BrowserOf[t]),
           r.pc = "answered" => Past(r.set.sid, BrowserOf[t])
    PROVE  SessionInv'
<1>1. /\ request' \in [Tabs -> RequestShape]
      /\ \A u \in Tabs : request'[u] = IF u = t THEN r ELSE request[u]
  BY DEF SessionInv, SessionShapes
<1>2. UNCHANGED <<epoch, stored, jar, out, cut, left>> /\ Agreed' = Agreed
  BY DEF Agreed
<1>3. SessionShapes'
  BY <1>1, <1>2 DEF SessionInv, SessionShapes
<1>4. SidsMinted'
  <2>1. \A b \in Browsers : jar'[b].sid <= minted' /\ left'[b] <= minted'
    BY <1>2 DEF SessionInv, SidsMinted, SessionShapes, CookieShape
  <2>2. \A u \in Tabs : request'[u].cookie.sid <= minted' /\ request'[u].set.sid <= minted'
    BY <1>1 DEF SessionInv, SidsMinted, SessionShapes, CookieShape, RequestShape
  <2> QED
    BY <2>1, <2>2 DEF SidsMinted
<1>5. EpochsKnown'
  BY <1>1, <1>2 DEF SessionInv, EpochsKnown
<1>6. AnswersRight'
  BY <1>1 DEF SessionInv, AnswersRight
<1>7. OutIsOut'
  BY <1>1, <1>2 DEF SessionInv, OutIsOut, Live
<1>8. CutIsCut'
  <2> SUFFICES ASSUME Agreed, NEW b \in cut, NEW u \in Tabs, BrowserOf[u] = b,
                      request'[u].pc # "quiet"
               PROVE  \/ request'[u].kind = "login"
                      \/ request'[u].pc = "answered" /\ request'[u].set = NoCookie
    BY <1>2 DEF SessionInv, CutIsCut
  <2>1. jar[b].epoch < epoch /\ jar[b].epoch \in Nat /\ epoch \in Nat
    BY DEF SessionInv, CutIsCut, SessionShapes, CookieShape
  <2>2. ~Live(jar[b])
    BY <2>1 DEF Live
  <2>3. CASE u = t
    <3>1. CASE r.kind = "login"
      BY <3>1, <2>3, <1>1
    <3>2. CASE r.kind # "login"
      <4>1. request[t].pc # "quiet" /\ request[t].kind # "login"
            /\ (request[t].pc = "answered" => r = request[t])
        BY <3>2, <2>3, <2>2, <1>1
      <4>2. request[t].pc = "answered" /\ request[t].set = NoCookie
        BY <4>1, <2>3 DEF SessionInv, CutIsCut
      <4> QED
        BY <4>1, <4>2, <2>3, <1>1
    <3> QED
      BY <3>1, <3>2
  <2>4. CASE u # t
    BY <2>4, <1>1 DEF SessionInv, CutIsCut
  <2> QED
    BY <2>3, <2>4
<1>9. LeftIsLeft'
  BY <1>1, <1>2 DEF SessionInv, LeftIsLeft, Past
<1> QED
  BY <1>3, <1>4, <1>5, <1>6, <1>7, <1>8, <1>9 DEF SessionInv

\* What a request may become when an answer to it is made.
LEMMA AnswerShape ==
    ASSUME SessionInv, NEW t \in Tabs, NEW c \in CookieShape
    PROVE  LET r == [Quiet EXCEPT !.pc = "answered", !.kind = request[t].kind, !.set = c,
                          !.cookie = IF request[t].kind = "newChat"
                                     THEN request[t].cookie ELSE @]
           IN  /\ r \in RequestShape /\ r.pc = "answered" /\ r.kind = request[t].kind
               /\ r.set = c /\ r.cookie.sid <= minted /\ r.cookie.sid \in Nat
               /\ r.kind = "newChat" => r.cookie = request[t].cookie
               /\ Answer(t, c) => request' = [request EXCEPT ![t] = r]
<1> DEFINE k == IF request[t].kind = "newChat" THEN request[t].cookie ELSE Quiet.cookie
           r == [Quiet EXCEPT !.pc = "answered", !.kind = request[t].kind, !.set = c,
                              !.cookie = k]
<1>1. /\ request[t] \in RequestShape /\ minted \in Nat /\ request[t].cookie.sid <= minted
      /\ request[t].kind \in Kinds /\ request[t].cookie \in CookieShape
  BY DEF SessionInv, SessionShapes, SidsMinted, RequestShape
<1>2. k \in CookieShape /\ k.sid <= minted
      /\ (request[t].kind = "newChat" => k = request[t].cookie)
  BY <1>1, NoCookieShape
<1>3. Answer(t, c) => request' = [request EXCEPT ![t] = r]
  BY DEF Answer
<1> HIDE DEF k
<1>4. /\ r \in RequestShape /\ r.pc = "answered" /\ r.kind = request[t].kind
      /\ r.set = c /\ r.cookie = k
  BY <1>1, <1>2, NoCookieShape DEF Quiet, RequestShape
<1> QED
  BY <1>2, <1>3, <1>4 DEF k, CookieShape

LEMMA HandlersKeep ==
    ASSUME SessionInv, NEW t \in Tabs,
           \/ \E kind \in Kinds : Send(t, kind)
           \/ Login(t) \/ Handle(t) \/ CsrfRefused(t) \/ Logout(t) \/ NewChat(t)
           \/ Lose(t) \/ Outlive(t)
    PROVE  SessionInv'
<1>0. /\ request[t] \in RequestShape /\ BrowserOf[t] \in Browsers /\ minted \in Nat
      /\ epoch \in Nat /\ jar[BrowserOf[t]] \in CookieShape
      /\ jar[BrowserOf[t]].sid <= minted
      /\ request[t].cookie.sid <= minted /\ request[t].set.sid <= minted
      /\ request[t].cookie \in CookieShape /\ request[t].set \in CookieShape
  BY SessionBounds DEF SessionInv, SessionShapes, SidsMinted, RequestShape
<1>1. ASSUME NEW kind \in Kinds, Send(t, kind)
      PROVE  SessionInv'
  <2> DEFINE c == IF kind = "login" THEN NoCookie ELSE jar[BrowserOf[t]]
             r == [Quiet EXCEPT !.pc = "inside", !.kind = kind, !.cookie = c]
  <2>1. c \in CookieShape /\ c.sid <= minted
    BY <1>0, NoCookieShape
  <2>2. /\ r \in RequestShape /\ r.pc = "inside" /\ r.kind = kind
        /\ r.cookie = c /\ r.set = NoCookie
    BY <2>1, NoCookieShape DEF Quiet, RequestShape
  <2>3. /\ request' = [request EXCEPT ![t] = r]
        /\ kind = "login" \/ Live(jar[BrowserOf[t]])
        /\ minted' = minted
        /\ UNCHANGED <<epoch, stored, jar>> /\ UNCHANGED <<out, cut, left, diverged>>
    BY <1>1 DEF Send, process, promises
  <2>4. kind # "login" => Past(c.sid, BrowserOf[t])
    BY <1>0 DEF SessionInv, LeftIsLeft
  <2> HIDE DEF r, c
  <2>5. /\ r.cookie.sid <= minted' /\ r.set.sid <= minted' /\ r.set.epoch <= epoch
        /\ minted <= minted' /\ minted' \in Nat
    BY <1>0, <2>1, <2>2, <2>3, NoCookieShape
  <2> QED
    BY <1>0, <2>2, <2>3, <2>4, <2>5, RequestMoves
<1>2. ASSUME Login(t)
      PROVE  SessionInv'
  <2> DEFINE c == [epoch |-> epoch, sid |-> minted + 1]
             r == [Quiet EXCEPT !.pc = "answered", !.kind = request[t].kind, !.set = c,
                   !.cookie = IF request[t].kind = "newChat" THEN request[t].cookie ELSE @]
  <2>1. c \in CookieShape /\ c.epoch = epoch /\ c.sid = minted + 1
    BY <1>0 DEF CookieShape
  <2>2. /\ request[t].pc = "inside" /\ request[t].kind = "login" /\ minted' = minted + 1
        /\ Answer(t, c) /\ UNCHANGED <<epoch, stored, jar>>
        /\ UNCHANGED <<out, cut, left, diverged>>
    BY <1>2 DEF Login, promises
  <2> HIDE DEF c
  <2>3. /\ r \in RequestShape /\ r.pc = "answered" /\ r.kind = request[t].kind
        /\ r.set = c /\ r.cookie.sid <= minted /\ r.cookie.sid \in Nat
        /\ request' = [request EXCEPT ![t] = r]
    BY ZenonT(40), <2>1, <2>2, AnswerShape
  <2>4. Past(c.sid, BrowserOf[t])
    BY <1>0, <2>1 DEF Past, SessionInv, SidsMinted, SessionShapes
  <2> HIDE DEF r
  <2>5. /\ r.cookie.sid <= minted' /\ r.set.sid <= minted' /\ r.set.epoch <= epoch
        /\ minted <= minted' /\ minted' \in Nat
    BY <1>0, <2>1, <2>2, <2>3
  <2> QED
    BY <1>0, <2>2, <2>3, <2>4, <2>5, RequestMoves
<1>3. ASSUME Handle(t)
      PROVE  SessionInv'
  <2> DEFINE c == Signed(request[t])
             r == [Quiet EXCEPT !.pc = "answered", !.kind = request[t].kind, !.set = c,
                   !.cookie = IF request[t].kind = "newChat" THEN request[t].cookie ELSE @]
  <2>1. /\ c \in CookieShape /\ c.epoch = epoch
        /\ c.sid = 0 \/ c.sid = request[t].cookie.sid
        /\ c.sid <= minted
    BY <1>0 DEF CookieShape, Signed, NoSid
  <2>2. /\ request[t].pc = "inside" /\ request[t].kind = "other"
        /\ Answer(t, c) /\ minted' = minted
        /\ UNCHANGED <<epoch, stored, jar>> /\ UNCHANGED <<out, cut, left, diverged>>
    BY <1>3 DEF Handle, process, promises
  <2> HIDE DEF c
  <2>3. /\ r \in RequestShape /\ r.pc = "answered" /\ r.kind = request[t].kind
        /\ r.set = c /\ r.cookie.sid <= minted /\ r.cookie.sid \in Nat
        /\ request' = [request EXCEPT ![t] = r]
    BY ZenonT(40), <2>1, <2>2, AnswerShape
  <2>4. Past(c.sid, BrowserOf[t])
    BY <2>1, <2>2 DEF Past, NoSid, SessionInv, LeftIsLeft
  <2> HIDE DEF r
  <2>5. /\ r.cookie.sid <= minted' /\ r.set.sid <= minted' /\ r.set.epoch <= epoch
        /\ minted <= minted' /\ minted' \in Nat
    BY <1>0, <2>1, <2>2, <2>3
  <2> QED
    BY <1>0, <2>2, <2>3, <2>4, <2>5, RequestMoves
<1>4. ASSUME CsrfRefused(t) \/ Lose(t)
      PROVE  SessionInv'
  <2>1. /\ request' = [request EXCEPT ![t] = Quiet]
        /\ minted' = minted
        /\ UNCHANGED <<epoch, stored, jar>> /\ UNCHANGED <<out, cut, left, diverged>>
    BY <1>4 DEF CsrfRefused, Lose, process, promises
  <2>2. /\ Quiet.cookie.sid <= minted' /\ Quiet.set.sid <= minted' /\ Quiet.set.epoch <= epoch
        /\ minted <= minted' /\ minted' \in Nat
    BY <1>0, <2>1, NoCookieShape
  <2> QED
    BY <1>0, <2>1, <2>2, NoCookieShape, RequestMoves
<1>5. ASSUME Logout(t)
      PROVE  SessionInv'
  <2> DEFINE r == [Quiet EXCEPT !.pc = "answered", !.kind = request[t].kind,
                   !.set = NoCookie,
                   !.cookie = IF request[t].kind = "newChat" THEN request[t].cookie ELSE @]
  <2>1. /\ request[t].pc = "inside" /\ request[t].kind = "logout"
        /\ Answer(t, NoCookie) /\ minted' = minted
        /\ UNCHANGED <<epoch, stored, jar>> /\ UNCHANGED <<out, cut, left, diverged>>
    BY <1>5 DEF Logout, OwnAnswer, NoReissue, process, promises
  <2>2. /\ r \in RequestShape /\ r.pc = "answered" /\ r.kind = request[t].kind
        /\ r.set = NoCookie /\ r.cookie.sid <= minted
        /\ request' = [request EXCEPT ![t] = r]
    BY ZenonT(40), <2>1, NoCookieShape, AnswerShape
  <2> HIDE DEF r
  <2>3. /\ r.cookie.sid <= minted' /\ r.set.sid <= minted' /\ r.set.epoch <= epoch
        /\ minted <= minted' /\ minted' \in Nat /\ Past(r.set.sid, BrowserOf[t])
    BY <1>0, <2>1, <2>2, NoCookieShape DEF Past, NoSid
  <2> QED
    BY <1>0, <2>1, <2>2, <2>3, RequestMoves
<1>6. ASSUME NewChat(t)
      PROVE  SessionInv'
  <2> DEFINE c == Rotated(request[t])
             r == [Quiet EXCEPT !.pc = "answered", !.kind = request[t].kind, !.set = c,
                   !.cookie = IF request[t].kind = "newChat" THEN request[t].cookie ELSE @]
  <2>1. /\ c \in CookieShape /\ c.epoch = epoch
        /\ c.sid = 0 \/ c.sid = minted + 1
        /\ c.sid <= minted + 1
    BY <1>0 DEF CookieShape, Rotated, NoSid
  <2>2. /\ request[t].pc = "inside" /\ request[t].kind = "newChat"
        /\ minted' = minted + 1
        /\ Answer(t, c) /\ UNCHANGED <<epoch, stored, jar>>
        /\ UNCHANGED <<out, cut, left, diverged>>
    BY <1>6 DEF NewChat, OwnAnswer, NoReissue, promises
  <2> HIDE DEF c
  <2>3. /\ r \in RequestShape /\ r.pc = "answered" /\ r.kind = request[t].kind
        /\ r.set = c /\ r.cookie.sid <= minted /\ r.cookie.sid \in Nat
        /\ request' = [request EXCEPT ![t] = r]
    BY ZenonT(40), <2>1, <2>2, AnswerShape
  <2>4. Past(c.sid, BrowserOf[t])
    BY <1>0, <2>1 DEF Past, NoSid, SessionInv, SidsMinted, SessionShapes
  <2>5. c.sid = NoSid \/ c.sid > r.cookie.sid
    <3> HIDE DEF r
    <3> QED
      BY <1>0, <2>1, <2>3 DEF NoSid
  <2> HIDE DEF r
  <2>6. /\ r.cookie.sid <= minted' /\ r.set.sid <= minted' /\ r.set.epoch <= epoch
        /\ minted <= minted' /\ minted' \in Nat
    BY <1>0, <2>1, <2>2, <2>3
  <2> QED
    BY <1>0, <2>2, <2>3, <2>4, <2>5, <2>6, RequestMoves
<1>7. ASSUME Outlive(t)
      PROVE  SessionInv'
  <2> DEFINE r == [request[t] EXCEPT !.faded = TRUE]
  <2>1. /\ request[t].pc = "inside" /\ request' = [request EXCEPT ![t] = r]
        /\ minted' = minted
        /\ UNCHANGED <<epoch, stored, jar>> /\ UNCHANGED <<out, cut, left, diverged>>
    BY <1>0, <1>7 DEF Outlive, process, SessionInv, SessionShapes, RequestShape, promises
  <2>2. /\ r \in RequestShape /\ r.pc = request[t].pc /\ r.kind = request[t].kind
        /\ r.cookie = request[t].cookie /\ r.set = request[t].set
    BY <1>0 DEF RequestShape
  <2>3. /\ Agreed => r.set.epoch <= epoch
        /\ r.kind # "login" => Past(r.cookie.sid, BrowserOf[t])
    BY <2>1, <2>2 DEF SessionInv, EpochsKnown, LeftIsLeft
  <2> HIDE DEF r
  <2>4. /\ r.cookie.sid <= minted' /\ r.set.sid <= minted'
        /\ minted <= minted' /\ minted' \in Nat
    BY <1>0, <2>1, <2>2
  <2> QED
    BY <1>0, <2>1, <2>2, <2>3, <2>4, RequestMoves
<1> QED
  BY <1>1, <1>2, <1>3, <1>4, <1>5, <1>6, <1>7

LEMMA LogoutAllKeeps ==
    ASSUME SessionInv, NEW t \in Tabs, NEW reached \in BOOLEAN, LogoutAll(t, reached)
    PROVE  SessionInv'
<1> DEFINE r == [Quiet EXCEPT !.pc = "answered", !.kind = request[t].kind, !.set = NoCookie,
                 !.cookie = IF request[t].kind = "newChat" THEN request[t].cookie ELSE @]
<1>1. /\ request[t].pc = "inside" /\ request[t].kind = "logoutAll" /\ Answer(t, NoCookie)
      /\ jar' = jar /\ minted' = minted /\ out' = out /\ left' = left
      /\ cut' = cut \cup {b \in Browsers : Under(b, t) = {}}
  BY DEF LogoutAll, OwnAnswer, NoReissue
<1>2. /\ reached => epoch' = stored + 1 /\ stored' = stored + 1
      /\ ~reached => epoch' = epoch + 1 /\ stored' = stored
  BY DEF LogoutAll, MemoryAfter
<1>3. Agreed' => Agreed /\ reached
  BY DEF LogoutAll, Agreed
<1>4. /\ r \in RequestShape /\ r.pc = "answered" /\ r.kind = "logoutAll"
      /\ r.set = NoCookie /\ r.cookie.sid <= minted /\ request' = [request EXCEPT ![t] = r]
  BY ZenonT(40), <1>1, NoCookieShape, AnswerShape
<1> HIDE DEF r
<1>5. /\ request' \in [Tabs -> RequestShape]
      /\ \A u \in Tabs : request'[u] = IF u = t THEN r ELSE request[u]
  BY <1>4 DEF SessionInv, SessionShapes
<1>6. /\ epoch \in Nat \ {0} /\ stored \in Nat \ {0} /\ minted \in Nat
      /\ epoch' \in Nat \ {0} /\ stored' \in Nat \ {0}
  BY <1>2 DEF SessionInv, SessionShapes
<1>7. SessionShapes'
  BY <1>1, <1>5, <1>6 DEF SessionInv, SessionShapes
<1>8. SidsMinted'
  BY <1>1, <1>4, <1>5, <1>6, NoCookieShape DEF SessionInv, SidsMinted
<1>9. Agreed' => epoch' = stored' /\ epoch' = epoch + 1 /\ Agreed
  BY <1>2, <1>3 DEF SessionInv, EpochsKnown
<1>10. ASSUME Agreed'
       PROVE  /\ \A b \in Browsers : jar'[b].epoch < epoch'
              /\ \A u \in Tabs : request'[u].set.epoch <= epoch'
  <2>1. \A b \in Browsers : jar[b].epoch <= epoch /\ jar[b].epoch \in Nat
    BY <1>9, <1>10 DEF SessionInv, SessionShapes, EpochsKnown, CookieShape
  <2>2. \A u \in Tabs : request[u].set.epoch <= epoch /\ request[u].set.epoch \in Nat
    BY <1>9, <1>10 DEF SessionInv, SessionShapes, EpochsKnown, CookieShape, RequestShape
  <2>3. r.set.epoch = 0
    BY <1>4, NoCookieShape
  <2>4. \A u \in Tabs : request'[u].set.epoch <= epoch'
    <3> SUFFICES ASSUME NEW u \in Tabs PROVE request'[u].set.epoch <= epoch'
      OBVIOUS
    <3>1. CASE u = t
      BY <3>1, <2>3, <1>5, <1>6
    <3>2. CASE u # t
      BY <3>2, <2>2, <1>5, <1>6, <1>9, <1>10
    <3> QED
      BY <3>1, <3>2
  <2> QED
    BY <2>1, <2>4, <1>1, <1>6, <1>9, <1>10
<1>11. EpochsKnown'
  <2>1. Agreed' => \A b \in Browsers : jar'[b].epoch <= epoch'
    BY <1>7, <1>10 DEF SessionShapes, CookieShape
  <2> QED
    BY <1>9, <1>10, <2>1 DEF EpochsKnown
<1>12. AnswersRight'
  BY <1>4, <1>5 DEF SessionInv, AnswersRight
<1>13. OutIsOut'
  BY <1>1, <1>5 DEF SessionInv, OutIsOut
<1>14. CutIsCut'
  <2> SUFFICES ASSUME Agreed', NEW b \in cut'
               PROVE  /\ jar'[b].epoch < epoch'
                      /\ \A u \in Tabs : BrowserOf[u] = b /\ request'[u].pc # "quiet"
                             => \/ request'[u].kind = "login"
                                \/ request'[u].pc = "answered" /\ request'[u].set = NoCookie
    BY DEF CutIsCut
  <2>1. b \in Browsers
    BY <1>7 DEF SessionShapes
  <2>2. ASSUME NEW u \in Tabs, u # t, BrowserOf[u] = b, request[u].pc # "quiet"
        PROVE  \/ request[u].kind = "login"
               \/ request[u].pc = "answered" /\ request[u].set = NoCookie
    <3>1. u \in Under(b, t)
      BY <2>2 DEF Under
    <3>2. b \in cut
      BY <3>1, <1>1
    <3> QED
      BY <3>2, <2>2, <1>9 DEF SessionInv, CutIsCut
  <2> QED
    BY <2>1, <2>2, <1>4, <1>5, <1>10
<1>15. LeftIsLeft'
  BY <1>1, <1>4, <1>5, NoCookieShape DEF SessionInv, LeftIsLeft, Past, NoSid
<1> QED
  BY <1>7, <1>8, <1>11, <1>12, <1>13, <1>14, <1>15 DEF SessionInv

LEMMA RestartKeeps ==
    ASSUME SessionInv, NEW reached \in BOOLEAN, Restart(reached)
    PROVE  SessionInv'
<1>1. /\ request' = [t \in Tabs |-> Quiet]
      /\ UNCHANGED <<stored, jar, minted, out, cut, left>>
      /\ epoch' = stored \/ epoch' = 1
  BY DEF Restart
<1>2. Agreed' => Agreed /\ epoch' = stored
  BY DEF Restart, Agreed
<1>3. /\ \A u \in Tabs : request'[u] = Quiet
      /\ request' \in [Tabs -> RequestShape]
  BY <1>1, NoCookieShape
<1>4. Agreed' => Agreed /\ epoch' = epoch /\ epoch' = stored'
  BY <1>1, <1>2 DEF SessionInv, EpochsKnown
<1>5. epoch \in Nat \ {0} /\ stored \in Nat \ {0} /\ minted \in Nat /\ epoch' \in Nat \ {0}
  BY <1>1 DEF SessionInv, SessionShapes
<1>6. SessionShapes'
  BY <1>1, <1>3, <1>5 DEF SessionInv, SessionShapes
<1>7. SidsMinted'
  BY <1>1, <1>3, <1>5, NoCookieShape DEF SessionInv, SidsMinted
<1>8. EpochsKnown'
  BY <1>1, <1>3, <1>4, <1>5, NoCookieShape DEF SessionInv, EpochsKnown
<1>9. AnswersRight' /\ OutIsOut' /\ LeftIsLeft'
  BY <1>1, <1>3, NoCookieShape DEF SessionInv, AnswersRight, OutIsOut, LeftIsLeft, Past
<1>10. CutIsCut'
  BY <1>1, <1>3, <1>4, NoCookieShape DEF SessionInv, CutIsCut
<1> QED
  BY <1>6, <1>7, <1>8, <1>9, <1>10 DEF SessionInv

LEMMA FadeKeeps ==
    ASSUME SessionInv, NEW b \in Browsers, Fade(b)
    PROVE  SessionInv'
<1>1. /\ jar' = [jar EXCEPT ![b] = NoCookie]
      /\ UNCHANGED <<epoch, stored, minted, out, cut, left>> /\ Agreed' = Agreed
      /\ request' = [t \in Tabs |->
             IF BrowserOf[t] = b /\ request[t].pc = "inside" /\ request[t].kind # "login"
             THEN [request[t] EXCEPT !.faded = TRUE] ELSE request[t]]
  BY DEF Fade, process, promises, Agreed
<1>2. /\ request' \in [Tabs -> RequestShape]
      /\ \A u \in Tabs : /\ request'[u].pc = request[u].pc /\ request'[u].kind = request[u].kind
                         /\ request'[u].cookie = request[u].cookie
                         /\ request'[u].set = request[u].set
  BY <1>1 DEF SessionInv, SessionShapes, RequestShape
<1>3. /\ jar' \in [Browsers -> CookieShape]
      /\ \A c \in Browsers : jar'[c] = IF c = b THEN NoCookie ELSE jar[c]
  BY <1>1, NoCookieShape DEF SessionInv, SessionShapes
<1>4. epoch \in Nat \ {0} /\ minted \in Nat
  BY DEF SessionInv, SessionShapes
<1>5. SessionShapes'
  BY <1>1, <1>2, <1>3 DEF SessionInv, SessionShapes
<1>6. SidsMinted'
  BY <1>1, <1>2, <1>3, <1>4, NoCookieShape DEF SessionInv, SidsMinted
<1>7. EpochsKnown'
  BY <1>1, <1>2, <1>3, <1>4, NoCookieShape DEF SessionInv, EpochsKnown
<1>8. AnswersRight'
  BY <1>2 DEF SessionInv, AnswersRight
<1>9. OutIsOut'
  BY <1>1, <1>2, <1>3 DEF SessionInv, SessionShapes, OutIsOut
<1>10. CutIsCut'
  BY <1>1, <1>2, <1>3, <1>4, NoCookieShape DEF SessionInv, SessionShapes, CutIsCut
<1>11. LeftIsLeft'
  BY <1>1, <1>2, <1>3, NoCookieShape DEF SessionInv, LeftIsLeft, Past, NoSid
<1> QED
  BY <1>5, <1>6, <1>7, <1>8, <1>9, <1>10, <1>11 DEF SessionInv

LEMMA DeliverKeeps ==
    ASSUME SessionInv, NEW t \in Tabs, Deliver(t)
    PROVE  SessionInv'
<1> DEFINE r == request[t]
           b == BrowserOf[t]
<1> HIDE DEF r, b
<1>1. /\ r.pc = "answered" /\ b \in Browsers
      /\ jar' = [jar EXCEPT ![b] = r.set]
      /\ request' = [request EXCEPT ![t] = Quiet]
      /\ UNCHANGED <<epoch, stored, minted>> /\ Agreed' = Agreed
  BY SessionBounds DEF Deliver, process, Agreed, r, b
<1>2. /\ r \in RequestShape /\ r.set \in CookieShape /\ r.cookie \in CookieShape
      /\ r.set.sid <= minted /\ r.cookie.sid <= minted /\ Past(r.set.sid, b)
      /\ Agreed => r.set.epoch <= epoch
  BY <1>1 DEF SessionInv, SessionShapes, RequestShape, SidsMinted, EpochsKnown, LeftIsLeft, r, b
<1>3. /\ r.kind \in {"logout", "logoutAll"} => r.set = NoCookie
      /\ r.kind = "newChat" => r.set.sid = NoSid \/ r.set.sid > r.cookie.sid
  BY <1>1 DEF SessionInv, AnswersRight, r
<1>4. /\ request' \in [Tabs -> RequestShape]
      /\ \A u \in Tabs : request'[u] = IF u = t THEN Quiet ELSE request[u]
  BY <1>1, NoCookieShape DEF SessionInv, SessionShapes
<1>5. /\ jar' \in [Browsers -> CookieShape]
      /\ \A c \in Browsers : jar'[c] = IF c = b THEN r.set ELSE jar[c]
  BY <1>1, <1>2 DEF SessionInv, SessionShapes
<1>6. Under(b, t) = {} => \A u \in Tabs : BrowserOf[u] = b => request'[u].pc = "quiet"
  BY <1>4, NoCookieShape DEF Under
<1>7. /\ out' \subseteq out \cup {b}
      /\ b \in out' => \/ r.kind \in {"logout", "logoutAll"} /\ Under(b, t) = {}
                       \/ b \in out /\ r.kind # "login"
  BY DEF Deliver, r, b
<1>8. cut' \subseteq cut /\ (r.kind = "login" => b \notin cut')
  BY DEF Deliver, r, b
<1>9. left' = left \/ /\ left' = [left EXCEPT ![b] = r.cookie.sid]
                      /\ r.kind = "newChat" /\ Under(b, t) = {}
  BY DEF Deliver, r, b
<1>10. epoch \in Nat \ {0} /\ minted \in Nat /\ left \in [Browsers -> Nat]
       /\ out \subseteq Browsers /\ cut \subseteq Browsers
  BY DEF SessionInv, SessionShapes
<1>11. /\ left' \in [Browsers -> Nat]
       /\ \A c \in Browsers : left'[c] = left[c] \/ left'[c] = r.cookie.sid
       /\ \A c \in Browsers \ {b} : left'[c] = left[c]
       /\ \/ left'[b] = left[b]
          \/ left'[b] = r.cookie.sid /\ r.kind = "newChat" /\ Under(b, t) = {}
  <2>1. r.cookie.sid \in Nat
    BY <1>2 DEF CookieShape
  <2>2. CASE left' = left
    <3>1. left' \in [Browsers -> Nat]
      BY <2>2, <1>10
    <3> QED
      BY <2>2, <3>1
  <2>3. CASE /\ left' = [left EXCEPT ![b] = r.cookie.sid]
             /\ r.kind = "newChat" /\ Under(b, t) = {}
    BY <2>1, <2>3, <1>1, <1>10
  <2> QED
    BY <2>2, <2>3, <1>9
<1>12. SessionShapes'
  BY <1>1, <1>4, <1>5, <1>7, <1>8, <1>10, <1>11 DEF SessionInv, SessionShapes
<1>13. SidsMinted'
  <2>1. \A c \in Browsers : jar'[c].sid <= minted' /\ left'[c] <= minted'
    BY <1>1, <1>2, <1>5, <1>11 DEF SessionInv, SidsMinted
  <2>2. \A u \in Tabs : request'[u].cookie.sid <= minted' /\ request'[u].set.sid <= minted'
    BY <1>1, <1>4, <1>10, NoCookieShape DEF SessionInv, SidsMinted
  <2> QED
    BY <2>1, <2>2 DEF SidsMinted
<1>14. EpochsKnown'
  BY <1>1, <1>2, <1>4, <1>5, <1>10, NoCookieShape DEF SessionInv, EpochsKnown
<1>15. AnswersRight'
  BY <1>4, NoCookieShape DEF SessionInv, AnswersRight
<1>16. OutIsOut'
  <2> SUFFICES ASSUME NEW c \in out'
               PROVE  /\ jar'[c] = NoCookie
                      /\ \A u \in Tabs : BrowserOf[u] = c /\ request'[u].pc # "quiet"
                                             => request'[u].kind = "login"
    BY DEF OutIsOut
  <2>1. CASE c # b
    BY <2>1, <1>4, <1>5, <1>7, <1>10, NoCookieShape DEF SessionInv, OutIsOut
  <2>2. CASE c = b /\ r.kind \in {"logout", "logoutAll"} /\ Under(b, t) = {}
    BY <2>2, <1>1, <1>3, <1>5, <1>6
  <2>3. CASE c = b /\ b \in out /\ r.kind # "login"
    <3>1. FALSE
      BY <2>3, <1>1 DEF SessionInv, OutIsOut, r, b
    <3> QED
      BY <3>1
  <2> QED
    BY <2>1, <2>2, <2>3, <1>7
<1>17. CutIsCut'
  <2> SUFFICES ASSUME Agreed', NEW c \in cut'
               PROVE  /\ jar'[c].epoch < epoch'
                      /\ \A u \in Tabs : BrowserOf[u] = c /\ request'[u].pc # "quiet"
                             => \/ request'[u].kind = "login"
                                \/ request'[u].pc = "answered" /\ request'[u].set = NoCookie
    BY DEF CutIsCut
  <2>1. c \in cut /\ c \in Browsers /\ Agreed
    BY <1>1, <1>8, <1>10
  <2>2. c = b => r.set = NoCookie
    BY <2>1, <1>1, <1>8 DEF SessionInv, CutIsCut, r, b
  <2>3. jar'[c].epoch < epoch'
    BY <2>1, <2>2, <1>1, <1>5, <1>10, NoCookieShape DEF SessionInv, CutIsCut
  <2> QED
    BY <2>1, <2>3, <1>4, NoCookieShape DEF SessionInv, CutIsCut
<1>18. LeftIsLeft'
  <2>1. \A c \in Browsers : jar'[c].sid = NoSid \/ jar'[c].sid > left'[c]
    <3> SUFFICES ASSUME NEW c \in Browsers
                 PROVE  jar'[c].sid = NoSid \/ jar'[c].sid > left'[c]
      OBVIOUS
    <3>1. CASE c # b
      BY <3>1, <1>5, <1>11 DEF SessionInv, LeftIsLeft, Past
    <3>2. CASE c = b
      BY <3>2, <1>2, <1>3, <1>5, <1>11 DEF Past
    <3> QED
      BY <3>1, <3>2
  <2>2. ASSUME NEW u \in Tabs
        PROVE  /\ request'[u].pc = "inside" /\ request'[u].kind # "login"
                      => \/ request'[u].cookie.sid = NoSid
                         \/ request'[u].cookie.sid > left'[BrowserOf[u]]
               /\ request'[u].pc = "answered"
                      => \/ request'[u].set.sid = NoSid
                         \/ request'[u].set.sid > left'[BrowserOf[u]]
    <3>1. BrowserOf[u] \in Browsers
      BY SessionBounds
    <3>2. CASE BrowserOf[u] = b /\ Under(b, t) = {}
      BY <3>2, <1>6
    <3>3. CASE left'[BrowserOf[u]] = left[BrowserOf[u]]
      BY <3>3, <1>4, NoCookieShape DEF SessionInv, LeftIsLeft, Past
    <3> QED
      BY <3>1, <3>2, <3>3, <1>11
  <2> QED
    BY <2>1, <2>2 DEF LeftIsLeft, Past
<1> QED
  BY <1>12, <1>13, <1>14, <1>15, <1>16, <1>17, <1>18 DEF SessionInv

LEMMA SessionStep ==
    ASSUME SessionInv, SessionNext
    PROVE  SessionInv'
  BY HandlersKeep, LogoutAllKeeps, RestartKeeps, FadeKeeps, DeliverKeeps DEF SessionNext

-----------------------------------------------------------------------------
\* What is not followed stays as it is.
LEMMA PartsStay ==
    /\ SessionInv /\ UNCHANGED session => SessionInv'
    /\ WeeklyInv /\ UNCHANGED weekly => WeeklyInv'
    /\ AlertInv /\ UNCHANGED alerts => AlertInv'
<1>1. ASSUME SessionInv, UNCHANGED session
      PROVE  SessionInv'
  <2>1. /\ UNCHANGED <<epoch, stored, minted, jar, request, out, cut, left>>
        /\ Agreed' = Agreed
    BY <1>1 DEF session, process, promises, Agreed
  <2> QED
    BY <1>1, <2>1 DEF SessionInv, SessionShapes, SidsMinted, EpochsKnown, AnswersRight,
       OutIsOut, CutIsCut, LeftIsLeft, Past
<1>2. ASSUME WeeklyInv, UNCHANGED weekly
      PROVE  WeeklyInv'
  BY <1>2 DEF weekly, WeeklyInv, WeeklyShapes, Numbered, GuardStood, BlockWhole,
     OneReportADay, DeadlinesBacked, Busy
<1>3. ASSUME AlertInv, UNCHANGED alerts
      PROVE  AlertInv'
  BY <1>3 DEF alerts, AlertInv, AlertShapes, CountedIsMissed, LoggedIsHeard, TroubleTold,
     Lines, SourceLines, Sooner, About
<1> QED
  BY <1>1, <1>2, <1>3

DashboardInv == SessionInv /\ WeeklyInv /\ AlertInv

\* In every state of Dashboard the invariants of its three parts hold.
THEOREM PartsHold == Spec => []DashboardInv
<1>1. Init => DashboardInv
  BY SessionInit, WeeklyInit, AlertInit DEF Init, DashboardInv
<1>2. DashboardInv /\ [Next]_vars => DashboardInv'
  <2> SUFFICES ASSUME DashboardInv, [Next]_vars PROVE DashboardInv'
    OBVIOUS
  <2>1. CASE SessionNext /\ UNCHANGED weekly /\ UNCHANGED alerts
    BY <2>1, SessionStep, PartsStay DEF DashboardInv
  <2>2. CASE WeeklyNext /\ UNCHANGED session /\ UNCHANGED alerts
    BY <2>2, WeeklyStep, PartsStay DEF DashboardInv
  <2>3. CASE AlertsNext /\ UNCHANGED session /\ UNCHANGED weekly
    BY <2>3, AlertStep, PartsStay DEF DashboardInv
  <2>4. CASE UNCHANGED vars
    <3>1. UNCHANGED session /\ UNCHANGED weekly /\ UNCHANGED alerts
      BY <2>4 DEF vars
    <3> QED
      BY <3>1, PartsStay DEF DashboardInv
  <2> QED
    BY <2>1, <2>2, <2>3, <2>4 DEF Next
<1> QED
  BY <1>1, <1>2, PTL DEF Spec

\* session_guard, logout, logout_all: no late answer gives a browser that has
\* signed out its cookie back, whatever its requests and in whatever order
\* they are answered, and an ended session stays ended while process and
\* database agree on the epoch.
THEOREM SignedOutForGood == Spec => []SignedOutStays
<1>1. DashboardInv => SignedOutStays
  BY SessionPromises DEF DashboardInv
<1> QED
  BY <1>1, PartsHold, PTL

\* new_chat, issue: nor does one carry it back into a conversation that a new
\* chat ended.
THEOREM NewChatForGood == Spec => []NewChatSticks
<1>1. DashboardInv => NewChatSticks
  BY SessionPromises DEF DashboardInv
<1> QED
  BY <1>1, PartsHold, PTL

\* generate, _recent: beside an older report of its kind and day a report was
\* forced, or under way before the older one was stored.
THEOREM OneReportOnly == Spec => []OneReportADay
<1>1. DashboardInv => OneReportADay
  BY DEF DashboardInv, WeeklyInv
<1> QED
  BY <1>1, PartsHold, PTL

\* generate, _store_deadlines: the stored deadlines are those of the blocks of
\* the stored reports, whatever transaction is refused, waits, fails or dies.
THEOREM AllDeadlinesBacked == Spec => []DeadlinesBacked
<1>1. DashboardInv => DeadlinesBacked
  BY DEF DashboardInv, WeeklyInv
<1> QED
  BY <1>1, PartsHold, PTL

\* alert, _store: what an alert was called for has been told by name, is on
\* its way, or was missed: a push failed, the process died before it, or the
\* text only counted the source.  No text silences another one's trouble.
THEOREM TroublesTold == Spec => []TroubleTold
<1>1. DashboardInv => TroubleTold
  BY DEF DashboardInv, AlertInv
<1> QED
  BY <1>1, PartsHold, PTL

-----------------------------------------------------------------------------
\* The types of the sessions.  The process is ahead of the database by no more
\* than the times it could not be reached; no cookie is of a later epoch.
Latest == stored + outages

Bounded(cookie) == cookie.epoch <= Latest

SessionTypes ==
    /\ stored \in 1 .. MaxEpoch /\ outages \in 0 .. MaxOutages /\ minted \in 0 .. MaxSids
    /\ epoch <= Latest
    /\ \A b \in Browsers : Bounded(jar[b])
    /\ \A t \in Tabs : /\ Bounded(request[t].cookie) /\ Bounded(request[t].set)
                       /\ request[t].pc # "answered" => request[t].set = NoCookie

LEMMA SessionTypesInit == InitSession => SessionTypes
<1> SUFFICES ASSUME InitSession PROVE SessionTypes
  OBVIOUS
<1>1. /\ stored = 1 /\ outages = 0 /\ minted = 0 /\ epoch = 1
      /\ \A b \in Browsers : jar[b] = NoCookie
      /\ \A t \in Tabs : request[t] = Quiet
  BY DEF InitSession
<1> QED
  BY <1>1, NoCookieShape, SessionBounds DEF SessionTypes, Latest, Bounded

LEMMA CookieFits ==
    ASSUME SessionTypes, NEW cookie \in CookieShape, Bounded(cookie), cookie.sid <= minted
    PROVE  cookie \in Cookies
<1>1. /\ stored \in Nat /\ stored <= MaxEpoch /\ outages \in Nat /\ outages <= MaxOutages
      /\ minted \in Nat /\ minted <= MaxSids
      /\ MaxEpoch \in Nat /\ MaxOutages \in Nat /\ MaxSids \in Nat
  BY SessionBounds DEF SessionTypes
<1>2. cookie.epoch \in Nat /\ cookie.sid \in Nat
  BY DEF CookieShape
<1>3. cookie.epoch \in 0 .. MaxEpoch + MaxOutages /\ cookie.sid \in 0 .. MaxSids
  BY <1>1, <1>2 DEF Bounded, Latest
<1>4. cookie = [epoch |-> cookie.epoch, sid |-> cookie.sid]
  BY DEF CookieShape
<1> QED
  BY <1>3, <1>4 DEF Cookies

LEMMA SessionTyped ==
    ASSUME SessionInv, SessionTypes
    PROVE  TypeOKSession
<1>1. /\ stored \in Nat /\ stored <= MaxEpoch /\ outages \in Nat /\ outages <= MaxOutages
      /\ MaxEpoch \in Nat /\ MaxOutages \in Nat /\ epoch \in Nat \ {0} /\ epoch <= stored + outages
  BY SessionBounds DEF SessionTypes, SessionInv, SessionShapes, Latest
<1>2. epoch \in 1 .. MaxEpoch + MaxOutages
  BY <1>1
<1>3. jar \in [Browsers -> Cookies]
  <2>1. \A b \in Browsers : jar[b] \in CookieShape /\ jar[b].sid <= minted /\ Bounded(jar[b])
    BY DEF SessionInv, SessionShapes, SidsMinted, SessionTypes
  <2> QED
    BY <2>1, CookieFits DEF SessionInv, SessionShapes
<1>4. request \in [Tabs -> Requests]
  <2>1. ASSUME NEW t \in Tabs PROVE request[t] \in Requests
    <3>1. request[t] \in RequestShape
      BY DEF SessionInv, SessionShapes
    <3>2. /\ request[t].cookie \in CookieShape /\ request[t].cookie.sid <= minted
          /\ Bounded(request[t].cookie)
          /\ request[t].set \in CookieShape /\ request[t].set.sid <= minted
          /\ Bounded(request[t].set)
      BY <3>1 DEF RequestShape, SessionInv, SidsMinted, SessionTypes
    <3>3. request[t].cookie \in Cookies /\ request[t].set \in Cookies
      BY <3>2, CookieFits
    <3> QED
      BY <3>1, <3>3 DEF RequestShape, Requests
  <2> QED
    BY <2>1 DEF SessionInv, SessionShapes
<1> QED
  BY <1>2, <1>3, <1>4 DEF SessionTypes, TypeOKSession, SessionInv, EpochsKnown, Agreed

\* A step in which no epoch moves: each cookie is an old one, or of this epoch.
LEMMA CookiesStay ==
    ASSUME SessionInv, SessionTypes, UNCHANGED <<epoch, stored, outages>>,
           minted' \in 0 .. MaxSids,
           \A b \in Browsers : Bounded(jar'[b]),
           \A t \in Tabs : /\ Bounded(request'[t].cookie) /\ Bounded(request'[t].set)
                           /\ request'[t].pc # "answered" => request'[t].set = NoCookie
    PROVE  SessionTypes'
  BY DEF SessionTypes, Latest, Bounded

\* A step of one tab, that leaves the jars alone
LEMMA TabStep ==
    ASSUME SessionInv, SessionTypes, UNCHANGED <<epoch, stored, outages, jar>>,
           minted' \in 0 .. MaxSids, NEW t \in Tabs, NEW r,
           request' = [request EXCEPT ![t] = r],
           Bounded(r.cookie), Bounded(r.set), r.pc # "answered" => r.set = NoCookie
    PROVE  SessionTypes'
<1>1. \A u \in Tabs : request'[u] = IF u = t THEN r ELSE request[u]
  BY DEF SessionInv, SessionShapes
<1> QED
  BY <1>1, CookiesStay DEF SessionTypes

LEMMA NoCookieBounded ==
    ASSUME SessionTypes
    PROVE  /\ Bounded(NoCookie) /\ Bounded(Quiet.cookie) /\ Bounded(Quiet.set)
           /\ stored \in Nat /\ outages \in Nat
  BY NoCookieShape, SessionBounds DEF SessionTypes, Bounded, Latest

\* An answer, whatever cookie of this epoch it sets
LEMMA AnswerStep ==
    ASSUME SessionInv, SessionTypes, UNCHANGED <<epoch, stored, outages, jar>>,
           minted' \in 0 .. MaxSids, NEW t \in Tabs, NEW cookie,
           Answer(t, cookie), Bounded(cookie)
    PROVE  SessionTypes'
<1> DEFINE r == [Quiet EXCEPT !.pc = "answered", !.kind = request[t].kind, !.set = cookie,
                    !.cookie = IF request[t].kind = "newChat" THEN request[t].cookie ELSE @]
<1>1. request' = [request EXCEPT ![t] = r]
  BY DEF Answer
<1>2. /\ r.set = cookie /\ r.pc = "answered"
      /\ r.cookie = IF request[t].kind = "newChat" THEN request[t].cookie ELSE NoCookie
  BY DEF Quiet
<1>3. Bounded(r.cookie) /\ Bounded(r.set)
  BY <1>2, NoCookieBounded DEF SessionTypes
<1> HIDE DEF r
<1> QED
  BY <1>1, <1>2, <1>3, TabStep

LEMMA SessionTypesStep ==
    ASSUME SessionInv, SessionTypes, SessionNext
    PROVE  SessionTypes'
<1>0. /\ stored \in 1 .. MaxEpoch /\ outages \in 0 .. MaxOutages /\ minted \in 0 .. MaxSids
      /\ stored \in Nat /\ outages \in Nat /\ minted \in Nat /\ epoch \in Nat \ {0}
      /\ MaxEpoch \in Nat /\ MaxOutages \in Nat /\ MaxSids \in Nat /\ epoch <= Latest
      /\ Latest = stored + outages /\ Latest \in Nat
  BY SessionBounds DEF SessionTypes, SessionInv, SessionShapes, Latest
<1>1. ASSUME NEW t \in Tabs, NEW kind \in Kinds, Send(t, kind)
      PROVE  SessionTypes'
  <2> DEFINE r == [Quiet EXCEPT !.pc = "inside", !.kind = kind,
                       !.cookie = IF kind = "login" THEN NoCookie ELSE jar[BrowserOf[t]]]
  <2>1. request' = [request EXCEPT ![t] = r] /\ UNCHANGED <<epoch, stored, outages, jar, minted>>
    BY <1>1 DEF Send, process
  <2>2. /\ r.pc = "inside" /\ r.set = NoCookie
        /\ r.cookie = IF kind = "login" THEN NoCookie ELSE jar[BrowserOf[t]]
    BY DEF Quiet
  <2>3. Bounded(r.cookie) /\ Bounded(r.set)
    BY <2>2, NoCookieBounded, SessionBounds DEF SessionTypes
  <2> HIDE DEF r
  <2> QED
    BY <1>0, <2>1, <2>2, <2>3, TabStep
<1>2. \A r : Bounded(Signed(r)) /\ Bounded(Rotated(r))
  BY <1>0 DEF Bounded, Signed, Rotated
<1>3. ASSUME NEW t \in Tabs, Login(t)
      PROVE  SessionTypes'
  <2>1. Bounded([epoch |-> epoch, sid |-> minted + 1])
    BY <1>0 DEF Bounded
  <2> QED
    BY <1>0, <1>3, <2>1, AnswerStep DEF Login
<1>4. ASSUME NEW t \in Tabs, Handle(t)
      PROVE  SessionTypes'
  BY <1>0, <1>2, <1>4, AnswerStep DEF Handle, process
<1>5. ASSUME NEW t \in Tabs, CsrfRefused(t) \/ Lose(t)
      PROVE  SessionTypes'
  <2>1. /\ request' = [request EXCEPT ![t] = Quiet]
        /\ UNCHANGED <<epoch, stored, outages, jar, minted>>
    BY <1>5 DEF CsrfRefused, Lose, process
  <2> QED
    BY <1>0, <2>1, NoCookieBounded, NoCookieShape, TabStep
<1>6. ASSUME NEW t \in Tabs, Logout(t)
      PROVE  SessionTypes'
  BY <1>0, <1>2, <1>6, AnswerStep, NoCookieBounded DEF Logout, OwnAnswer, process
<1>7. ASSUME NEW t \in Tabs, NewChat(t)
      PROVE  SessionTypes'
  BY <1>0, <1>2, <1>7, AnswerStep DEF NewChat, OwnAnswer
<1>8. ASSUME NEW t \in Tabs, NEW reached \in BOOLEAN, LogoutAll(t, reached)
      PROVE  SessionTypes'
  <2> DEFINE cookie == IF request[t].kind \in NoReissue THEN NoCookie ELSE Signed(request[t])
             r == [Quiet EXCEPT !.pc = "answered", !.kind = request[t].kind, !.set = cookie,
                       !.cookie = IF request[t].kind = "newChat" THEN request[t].cookie ELSE @]
  <2>1. /\ request' = [request EXCEPT ![t] = r] /\ UNCHANGED <<jar, minted>>
        /\ request[t].kind = "logoutAll"
    BY <1>8 DEF LogoutAll, OwnAnswer, Answer
  <2>2. /\ r.pc = "answered" /\ r.set = NoCookie /\ r.cookie = NoCookie
    BY <2>1 DEF Quiet, NoReissue
  <2>3. \/ stored' = stored + 1 /\ outages' = outages /\ epoch' = stored + 1 /\ stored < MaxEpoch
        \/ stored' = stored /\ outages' = outages + 1 /\ epoch' = epoch + 1 /\ outages < MaxOutages
    BY <1>8 DEF LogoutAll, MemoryAfter
  <2>4. /\ stored' \in 1 .. MaxEpoch /\ outages' \in 0 .. MaxOutages
        /\ epoch' <= Latest' /\ Latest' = Latest + 1
    BY <1>0, <2>3 DEF Latest
  <2> HIDE DEF r, cookie
  <2>5. \A u \in Tabs : request'[u] = IF u = t THEN r ELSE request[u]
    BY <2>1 DEF SessionInv, SessionShapes
  <2>6. /\ \A b \in Browsers : jar[b].epoch \in Nat
        /\ \A u \in Tabs : request[u].cookie.epoch \in Nat /\ request[u].set.epoch \in Nat
    BY DEF SessionInv, SessionShapes, CookieShape, RequestShape
  <2>7. /\ \A b \in Browsers : jar'[b].epoch <= Latest'
        /\ \A u \in Tabs : /\ request'[u].cookie.epoch <= Latest'
                           /\ request'[u].set.epoch <= Latest'
                           /\ request'[u].pc # "answered" => request'[u].set = NoCookie
    BY <1>0, <2>1, <2>2, <2>4, <2>5, <2>6, NoCookieShape DEF SessionTypes, Bounded
  <2> QED
    BY <1>0, <2>1, <2>4, <2>7 DEF SessionTypes, Bounded
<1>9. ASSUME NEW reached \in BOOLEAN, Restart(reached)
      PROVE  SessionTypes'
  <2>1. /\ request' = [t \in Tabs |-> Quiet] /\ UNCHANGED <<stored, jar, minted>>
        /\ epoch' = stored \/ epoch' = 1
        /\ outages' = outages \/ (outages' = outages + 1 /\ outages < MaxOutages)
    BY <1>9 DEF Restart
  <2>2. \A u \in Tabs : request'[u] = Quiet
    BY <2>1
  <2>3. outages' \in 0 .. MaxOutages /\ epoch' <= Latest' /\ Latest' \in Nat /\ Latest <= Latest'
    BY <1>0, <2>1 DEF Latest
  <2>4. \A b \in Browsers : jar[b].epoch \in Nat
    BY DEF SessionInv, SessionShapes, CookieShape
  <2>5. \A b \in Browsers : jar'[b].epoch <= Latest'
    BY <1>0, <2>1, <2>3, <2>4 DEF SessionTypes, Bounded
  <2> QED
    BY <1>0, <2>1, <2>2, <2>3, <2>5, NoCookieShape DEF SessionTypes, Bounded
<1>10. ASSUME NEW t \in Tabs, Deliver(t)
       PROVE  SessionTypes'
  <2>1. /\ jar' = [jar EXCEPT ![BrowserOf[t]] = request[t].set]
        /\ request' = [request EXCEPT ![t] = Quiet]
        /\ UNCHANGED <<epoch, stored, outages, minted>>
    BY <1>10 DEF Deliver, process
  <2>2. /\ \A b \in Browsers : jar'[b] = IF b = BrowserOf[t] THEN request[t].set ELSE jar[b]
        /\ \A u \in Tabs : request'[u] = IF u = t THEN Quiet ELSE request[u]
    BY <2>1 DEF SessionInv, SessionShapes
  <2> QED
    BY <1>0, <2>1, <2>2, NoCookieBounded, NoCookieShape, CookiesStay DEF SessionTypes
<1>11. ASSUME NEW t \in Tabs, Outlive(t)
       PROVE  SessionTypes'
  <2>1. /\ request' = [request EXCEPT ![t].faded = TRUE]
        /\ UNCHANGED <<epoch, stored, outages, jar, minted>>
    BY <1>11 DEF Outlive, process
  <2>2. \A u \in Tabs : /\ request'[u].pc = request[u].pc /\ request'[u].set = request[u].set
                        /\ request'[u].cookie = request[u].cookie
    BY <2>1 DEF SessionInv, SessionShapes, RequestShape
  <2> QED
    BY <1>0, <2>1, <2>2, CookiesStay DEF SessionTypes
<1>12. ASSUME NEW b \in Browsers, Fade(b)
       PROVE  SessionTypes'
  <2>1. /\ jar' = [jar EXCEPT ![b] = NoCookie]
        /\ request' = [t \in Tabs |->
             IF BrowserOf[t] = b /\ request[t].pc = "inside" /\ request[t].kind # "login"
             THEN [request[t] EXCEPT !.faded = TRUE] ELSE request[t]]
        /\ UNCHANGED <<epoch, stored, outages, minted>>
    BY <1>12 DEF Fade, process
  <2>2. /\ \A c \in Browsers : jar'[c] = IF c = b THEN NoCookie ELSE jar[c]
        /\ \A u \in Tabs : /\ request'[u].pc = request[u].pc /\ request'[u].set = request[u].set
                           /\ request'[u].cookie = request[u].cookie
    BY <2>1 DEF SessionInv, SessionShapes, RequestShape
  <2> QED
    BY <1>0, <2>1, <2>2, NoCookieBounded, CookiesStay DEF SessionTypes
<1> QED
  BY <1>1, <1>3, <1>4, <1>5, <1>6, <1>7, <1>8, <1>9, <1>10, <1>11, <1>12 DEF SessionNext

-----------------------------------------------------------------------------
\* The types of the weekly reports: no report of a day to come, none with the
\* number of another, and no deadline two transactions hold at once.
ReportsSound == /\ \A r \in reports : r.kind \in KINDS /\ r.title \in 1 .. day
                /\ \A r, s \in reports : r.id = s.id => r = s

HeldApart == \A c, d \in Calls : c # d => call[c].held \cap call[d].held = {}

TitlesPast == \A c \in Calls : Busy(c) => call[c].today \in 1 .. day

WeeklyTypes == /\ day \in 1 .. MaxDay /\ filed \in 0 .. MaxReports /\ ReportsSound
               /\ deadlines \subseteq Programmes /\ HeldApart /\ TitlesPast

LEMMA WeeklyTypesInit == InitWeekly => WeeklyTypes
<1> SUFFICES ASSUME InitWeekly PROVE WeeklyTypes
  OBVIOUS
<1>1. day \in 1 .. MaxDay /\ filed \in 0 .. MaxReports
  BY WeeklyBounds DEF InitWeekly
<1>2. \A c \in Calls : call[c].held = {} /\ call[c].pc = "rest"
  BY DEF InitWeekly, Resting
<1> QED
  BY <1>1, <1>2 DEF InitWeekly, WeeklyTypes, ReportsSound, HeldApart, TitlesPast, Busy

LEMMA WeeklyTyped ==
    ASSUME WeeklyInv, WeeklyTypes
    PROVE  TypeOKWeekly
  BY DEF WeeklyInv, WeeklyShapes, CallShape, Numbered, WeeklyTypes, ReportsSound, HeldApart,
     TypeOKWeekly

\* What a call does to itself alone
LEMMA CallTypes ==
    ASSUME WeeklyInv, WeeklyInv', WeeklyTypes, NEW c \in Calls,
           \A d \in Calls \ {c} : /\ call'[d].held = call[d].held
                                  /\ Busy(d)' => Busy(d) /\ call'[d].today = call[d].today,
           \/ call'[c].held \subseteq call[c].held
           \/ \E p : call'[c].held \subseteq call[c].held \cup {p} /\ Holders(p, c) = {},
           Busy(c)' => (Busy(c) /\ call'[c].today = call[c].today) \/ call'[c].today = day,
           day' = day
    PROVE  HeldApart' /\ TitlesPast'
<1>1. day \in 1 .. MaxDay /\ MaxDay \in Nat
  BY WeeklyBounds DEF WeeklyTypes
<1>2. TitlesPast'
  BY <1>1 DEF WeeklyTypes, TitlesPast
<1>3. \A d \in Calls \ {c} : call'[c].held \cap call'[d].held = {}
  BY DEF WeeklyTypes, HeldApart, Holders
<1>4. HeldApart'
  BY <1>3 DEF WeeklyTypes, HeldApart
<1> QED
  BY <1>2, <1>4

LEMMA WeeklyTypesStep ==
    ASSUME WeeklyInv, WeeklyInv', WeeklyTypes, WeeklyNext
    PROVE  WeeklyTypes'
<1>0. /\ day \in 1 .. MaxDay /\ day \in Nat /\ MaxDay \in Nat /\ filed \in Nat /\ MaxReports \in Nat
      /\ call \in [Calls -> CallShape] /\ call' \in [Calls -> CallShape]
  BY WeeklyBounds DEF WeeklyTypes, WeeklyInv, WeeklyShapes
<1>1. ASSUME UNCHANGED <<day, reports, deadlines, filed>>, HeldApart', TitlesPast'
      PROVE  WeeklyTypes'
  BY <1>1 DEF WeeklyTypes, ReportsSound
<1>2. ASSUME NEW c \in Calls, NEW kind \in KINDS, NEW force \in BOOLEAN, Generate(c, kind, force)
      PROVE  WeeklyTypes'
  <2>1. /\ call'[c].held = {} /\ call'[c].today = day
        /\ \A d \in Calls \ {c} : call'[d] = call[d]
    BY <1>0, <1>2 DEF Generate, Resting
  <2>2. UNCHANGED <<day, reports, deadlines, filed>>
    BY <1>2 DEF Generate
  <2>3. HeldApart' /\ TitlesPast'
    BY <2>1, <2>2, CallTypes DEF Busy
  <2> QED
    BY <1>1, <2>2, <2>3
<1>3. ASSUME NEW c \in Calls, call' = [call EXCEPT ![c] = Resting],
             UNCHANGED <<day, reports, deadlines, filed>>
      PROVE  WeeklyTypes'
  <2>1. /\ call'[c].held = {} /\ ~Busy(c)'
        /\ \A d \in Calls \ {c} : call'[d] = call[d]
    BY <1>0, <1>3 DEF Resting, Busy
  <2>2. HeldApart' /\ TitlesPast'
    BY <2>1, <1>3, CallTypes DEF Busy
  <2> QED
    BY <1>1, <1>3, <2>2
<1>4. ASSUME NEW c \in Calls, Synthesise(c)
      PROVE  WeeklyTypes'
  <2>1. /\ call'[c].held = call[c].held /\ call'[c].today = call[c].today /\ Busy(c)
        /\ \A d \in Calls \ {c} : call'[d] = call[d]
    <3>1. PICK block \in IF call[c].kind = "grants" THEN Blocks ELSE {<<>>} :
              call' = [call EXCEPT ![c] = [call[c] EXCEPT !.pc = "store", !.rows = block,
                                               !.block = {block[i] : i \in DOMAIN block}]]
      BY <1>4 DEF Synthesise
    <3> DEFINE all == {block[i] : i \in DOMAIN block}
    <3>2. call' = [call EXCEPT ![c] = [call[c] EXCEPT !.pc = "store", !.rows = block,
                                           !.block = all]]
      BY <3>1
    <3> HIDE DEF all
    <3> QED
      BY <1>0, <1>4, <3>2 DEF Synthesise, CallShape, Busy
  <2>2. UNCHANGED <<day, reports, deadlines, filed>>
    BY <1>4 DEF Synthesise
  <2>3. HeldApart' /\ TitlesPast'
    BY <2>1, <2>2, CallTypes DEF Busy
  <2> QED
    BY <1>1, <2>2, <2>3
<1>5. ASSUME NEW c \in Calls, StoreDeadline(c)
      PROVE  WeeklyTypes'
  <2> DEFINE p == Head(call[c].rows)
  <2>1. /\ call' = [call EXCEPT ![c].rows = Tail(@), ![c].held = @ \cup {p}]
        /\ Holders(p, c) = {} /\ Busy(c)
        /\ UNCHANGED <<day, reports, deadlines, filed>>
    BY <1>5 DEF StoreDeadline, Busy
  <2> HIDE DEF p
  <2>2. /\ call'[c].held = call[c].held \cup {p} /\ call'[c].today = call[c].today
        /\ \A d \in Calls \ {c} : call'[d] = call[d]
    BY <1>0, <2>1 DEF CallShape
  <2>3. HeldApart' /\ TitlesPast'
    BY <2>1, <2>2, CallTypes DEF Busy
  <2> QED
    BY <1>1, <2>1, <2>3
<1>6. ASSUME NEW c \in Calls, File(c)
      PROVE  WeeklyTypes'
  <2> DEFINE new == [id |-> filed + 1, kind |-> call[c].kind, title |-> Title(c),
                     forced |-> call[c].forced, began |-> call[c].began]
  <2>1. /\ call' = [call EXCEPT ![c] = Resting] /\ day' = day /\ filed' = filed + 1
        /\ filed < MaxReports /\ reports' = reports \cup {new} /\ Busy(c)
        /\ deadlines' = deadlines \cup call[c].held
    BY <1>6 DEF File, Busy
  <2>2. /\ call'[c].held = {} /\ ~Busy(c)'
        /\ \A d \in Calls \ {c} : call'[d] = call[d]
    BY <1>0, <2>1 DEF Resting, Busy
  <2>3. HeldApart' /\ TitlesPast'
    BY <2>2, <2>1, CallTypes DEF Busy
  <2>4. ReportsSound'
    <3>1. new.kind \in KINDS /\ new.title \in 1 .. day /\ new.id = filed + 1
      BY <1>0, <2>1 DEF CallShape, Title, WeeklyTypes, TitlesPast
    <3>2. \A r \in reports : r.id \in 1 .. filed
      BY DEF WeeklyInv, Numbered
    <3> HIDE DEF new
    <3>3. \A r \in reports' : r.kind \in KINDS /\ r.title \in 1 .. day
      BY <3>1, <2>1 DEF WeeklyTypes, ReportsSound
    <3>4. \A r, s \in reports' : r.id = s.id => r = s
      BY <3>1, <3>2, <2>1, <1>0 DEF WeeklyTypes, ReportsSound
    <3> QED
      BY <3>3, <3>4, <2>1 DEF ReportsSound
  <2>5. filed' \in 0 .. MaxReports
    BY <1>0, <2>1
  <2>6. deadlines' \subseteq Programmes
    BY <1>0, <2>1 DEF CallShape, WeeklyTypes
  <2> QED
    BY <1>0, <2>1, <2>3, <2>4, <2>5, <2>6 DEF WeeklyTypes
<1>7. CASE DeleteBrief
  <2>1. PICK r \in reports : reports' = reports \ {r}
    BY <1>7 DEF DeleteBrief
  <2>2. UNCHANGED <<day, deadlines, call, filed>>
    BY <1>7 DEF DeleteBrief
  <2>3. ReportsSound'
    BY <2>1, <2>2 DEF WeeklyTypes, ReportsSound
  <2> QED
    BY <2>2, <2>3 DEF WeeklyTypes, HeldApart, TitlesPast, Busy
<1>8. CASE Midnight
  <2>1. /\ day' = day + 1 /\ day < MaxDay
        /\ UNCHANGED <<reports, deadlines, call, filed>>
    BY <1>8 DEF Midnight
  <2>2. ReportsSound' /\ TitlesPast'
    BY <2>1, <1>0 DEF WeeklyTypes, ReportsSound, TitlesPast, Busy
  <2>3. day' \in 1 .. MaxDay
    BY <2>1, <1>0
  <2> QED
    BY <2>1, <2>2, <2>3 DEF WeeklyTypes, HeldApart
<1>9. ASSUME NEW c \in Calls, Refused(c) \/ Deadlock(c) \/ Fails(c)
      PROVE  WeeklyTypes'
  <2>1. call' = [call EXCEPT ![c] = Resting] /\ UNCHANGED <<day, reports, deadlines, filed>>
    BY <1>9 DEF Refused, Deadlock, Fails, RollBack
  <2> QED
    BY <2>1, <1>3
<1> QED
  BY <1>2, <1>4, <1>5, <1>6, <1>7, <1>8, <1>9 DEF WeeklyNext

-----------------------------------------------------------------------------
\* The types of the alerts: no date lies ahead, a source with an item has been
\* read, and nobody is told, or misses, what no alert was called for.
AlertTypes == /\ TypeOKAlerts
              /\ About \subseteq alerted

LEMMA AlertTypesInit == InitAlerts \/ QuietAlerts => AlertTypes
<1> SUFFICES ASSUME NEW bad, StartAlerts(bad) PROVE AlertTypes
  BY DEF InitAlerts, QuietAlerts
<1>1. run = NoRun /\ run.pc = "idle" /\ run.about = {} /\ run.todo = {} /\ run.failed = {}
  BY DEF StartAlerts, NoRun
<1>2. \A s \in Sources : /\ {source[s].enabled, source[s].parked, source[s].valid} \subseteq BOOLEAN
                         /\ source[s].item = 0
  BY DEF StartAlerts, NewSource
<1>3. hour \in 1 .. MaxHour /\ troubles \in 0 .. MaxTroubles
  BY AlertBounds DEF StartAlerts
<1>4. DOMAIN logged = {} /\ alerted = {} /\ told = {} /\ missed = {}
  BY DEF StartAlerts
<1> QED
  BY <1>1, <1>2, <1>3, <1>4 DEF AlertTypes, TypeOKAlerts, About, Steps

\* What the rows of sources keep: nothing found before it was read
RowsSound == \A s \in Sources : /\ source[s].item \in 0 .. hour
                                /\ source[s].item # 0 => source[s].backfilled

LEMMA RunTypes ==
    ASSUME AlertInv'
    PROVE  /\ run'.pc \in Steps \cup {"store", "push"}
           /\ run'.pc \in {"store", "push"} => run'.then \in Steps
           /\ run'.todo \subseteq Sources /\ run'.failed \subseteq Sources
           /\ \A s \in Sources : {source'[s].enabled, source'[s].parked, source'[s].valid}
                                     \subseteq BOOLEAN
  BY DEF AlertInv, AlertShapes, RunShape, SourceRow

\* The dates, and what was told, of each step
LEMMA AlertTypesStep ==
    ASSUME AlertInv, AlertInv', AlertTypes, AlertsNext
    PROVE  AlertTypes'
<1> USE DEF AlertTypes
<1>0. /\ hour \in 1 .. MaxHour /\ hour \in Nat /\ source \in [Sources -> SourceRow]
      /\ run \in RunShape /\ (run.pc \notin {"store", "push"} => run.about = {})
      /\ RowsSound /\ troubles \in 0 .. MaxTroubles /\ told \cup missed \subseteq alerted
      /\ \A x \in DOMAIN logged : logged[x] \in 1 .. hour
  BY DEF AlertInv, AlertShapes, TypeOKAlerts, RowsSound
<1>1. hour' \in hour .. MaxHour /\ hour' \in Nat
  <2>1. hour' = hour \/ (hour < MaxHour /\ hour' = hour + 1)
    BY DEF AlertsNext, LoadSources, CheckDead, CheckQuiet, ReportFailures, Crash, Killed,
       Walks, Store, Push, ToggleSource, EditSource, HourPasses
  <2> QED
    BY <2>1, <1>0, AlertBounds
<1>2. troubles' \in 0 .. MaxTroubles
  <2>1. troubles' = troubles \/ (troubles < MaxTroubles /\ troubles' = troubles + 1)
    BY DEF AlertsNext, LoadSources, CheckDead, CheckQuiet, ReportFailures, Crash, Killed,
       Walks, Store, Push, ToggleSource, EditSource, HourPasses
  <2> QED
    BY <2>1, <1>0, AlertBounds
<1>3. \A x \in DOMAIN logged' : logged'[x] \in 1 .. hour'
  <2>1. CASE logged' = logged
    BY <2>1, <1>0, <1>1
  <2>2. ASSUME NEW reached \in BOOLEAN, Store(reached), logged' # logged
        PROVE  \A x \in DOMAIN logged' : logged'[x] \in 1 .. hour'
    <3> DEFINE x == Text(run.kind, run.about)
    <3> HIDE DEF x
    <3>1. /\ logged' = [y \in DOMAIN logged \cup {x} |-> IF y = x THEN hour ELSE logged[y]]
          /\ hour' = hour
      BY <2>2 DEF Store, x
    <3> QED
      BY <3>1, <1>0
  <2> QED
    BY <2>1, <2>2 DEF AlertsNext, LoadSources, CheckDead, CheckQuiet, ReportFailures, Crash,
       Killed, Walks, Push, ToggleSource, EditSource, HourPasses
<1>4. RowsSound'
  <2>1. CASE source' = source
    BY <2>1, <1>0, <1>1 DEF RowsSound
  <2>2. ASSUME NEW failed \in SUBSET run.todo, NEW fresh \in SUBSET (run.todo \ failed),
               NEW seed \in BOOLEAN, Walks(fresh, failed, seed)
        PROVE  RowsSound'
    <3>1. /\ hour' = hour
          /\ \A s \in Sources :
                \/ source'[s] = source[s]
                \/ source'[s].item = source[s].item /\ source'[s].backfilled = TRUE
                \/ source'[s].item = hour /\ source'[s].backfilled = TRUE
      BY <2>2, <1>0 DEF Walks, SourceRow
    <3> QED
      BY <3>1, <1>0 DEF RowsSound
  <2>3. ASSUME hour' = hour,
               \A s \in Sources : /\ source'[s].item = source[s].item
                                  /\ source'[s].backfilled = source[s].backfilled
        PROVE  RowsSound'
    BY <2>3, <1>0 DEF RowsSound
  <2>4. CASE LoadSources
    BY <2>3, <2>4, <1>0 DEF LoadSources, SourceRow
  <2>5. ASSUME NEW s \in Sources, ToggleSource(s)
        PROVE  RowsSound'
    BY <2>3, <2>5, <1>0 DEF ToggleSource, SourceRow
  <2>6. ASSUME NEW s \in Sources, EditSource(s)
        PROVE  RowsSound'
    BY <2>3, <2>6, <1>0 DEF EditSource, SourceRow
  <2> QED
    BY <2>1, <2>2, <2>4, <2>5, <2>6 DEF AlertsNext, CheckDead, CheckQuiet, ReportFailures,
       Crash, Killed, Store, Push, HourPasses
<1>5. told' \cup missed' \subseteq alerted' /\ About' \subseteq alerted'
  <2>1. About \subseteq alerted /\ Text(run.kind, run.about).lines \subseteq run.about
    BY DEF Text, SourceLines
  <2>2. ASSUME run'.about = {}, alerted' = alerted, told' \cup missed' \subseteq alerted
        PROVE  told' \cup missed' \subseteq alerted' /\ About' \subseteq alerted'
    BY <2>2 DEF About
  <2>4. CASE UNCHANGED <<run, alerted, told, missed>>
    BY <2>4, <1>0 DEF About, TypeOKAlerts
  <2>5. ASSUME UNCHANGED <<told, missed>>,
               \/ alerted' = alerted /\ run'.about = {}
               \/ alerted' = alerted \cup ({run'.kind} \X run'.about)
        PROVE  told' \cup missed' \subseteq alerted' /\ About' \subseteq alerted'
    BY <2>5, <1>0 DEF About
  <2>6. CASE LoadSources
    <3> DEFINE broken == {s \in Sources : On(s) /\ ~source[s].valid}
    <3>1. \/ alerted' = alerted /\ run'.about = {}
          \/ alerted' = alerted \cup ({run'.kind} \X run'.about)
      <4> HIDE DEF broken
      <4>1. CASE broken = {}
        BY <2>6, <4>1 DEF LoadSources, NoRun, broken
      <4>2. CASE broken # {}
        BY <2>6, <4>2 DEF LoadSources, NoRun, broken
      <4> QED
        BY <4>1, <4>2
    <3> QED
      BY <3>1, <2>5, <2>6 DEF LoadSources
  <2>7. CASE CheckDead
    <3>1. run.about = {}
      BY <2>7, <1>0 DEF CheckDead
    <3> QED
      BY <3>1, <2>5, <2>7, <1>0 DEF CheckDead, Alert, RunShape
  <2>8. CASE CheckQuiet
    <3>1. run.about = {}
      BY <2>8, <1>0 DEF CheckQuiet
    <3> QED
      BY <3>1, <2>5, <2>8, <1>0 DEF CheckQuiet, Alert, RunShape
  <2>9. CASE ReportFailures
    <3>1. run.about = {}
      BY <2>9, <1>0 DEF ReportFailures
    <3>2. UNCHANGED <<told, missed>>
      BY <2>9 DEF ReportFailures
    <3>3. CASE run.failed = {}
      BY <3>2, <3>3, <2>5, <2>9 DEF ReportFailures, NoRun
    <3>4. CASE run.failed # {}
      BY <3>2, <3>4, <2>5, <2>9, <1>0 DEF ReportFailures, Alert, RunShape
    <3> QED
      BY <3>3, <3>4
  <2>10. CASE Crash
    BY <2>10, <2>5 DEF Crash, NoRun
  <2>11. CASE Killed
    BY <2>11, <2>2, <2>1, <1>0 DEF Killed, NoRun
  <2>12. ASSUME NEW failed \in SUBSET run.todo, NEW fresh \in SUBSET (run.todo \ failed),
               NEW seed \in BOOLEAN, Walks(fresh, failed, seed)
         PROVE  told' \cup missed' \subseteq alerted' /\ About' \subseteq alerted'
    <3>1. run.about = {}
      BY <2>12, <1>0 DEF Walks
    <3> QED
      BY <3>1, <2>5, <2>12, <1>0 DEF Walks, RunShape
  <2>13. ASSUME NEW reached \in BOOLEAN, Store(reached)
         PROVE  told' \cup missed' \subseteq alerted' /\ About' \subseteq alerted'
    <3>1. told' \cup missed' \subseteq alerted /\ alerted' = alerted
      BY <2>13, <2>1, <1>0 DEF Store, About
    <3>2. About' = About \/ run'.about = {}
      BY <2>13, <1>0 DEF Store, About, GoOn, RunShape
    <3> QED
      BY <3>1, <3>2, <2>1, <2>2
  <2>14. ASSUME NEW arrives \in BOOLEAN, Push(arrives)
         PROVE  told' \cup missed' \subseteq alerted' /\ About' \subseteq alerted'
    <3>1. told' \cup missed' \subseteq alerted /\ alerted' = alerted
      BY <2>14, <2>1, <1>0 DEF Push, About
    <3>2. run'.about = {}
      BY <2>14, <1>0 DEF Push, GoOn, RunShape
    <3> QED
      BY <3>1, <3>2, <2>2
  <2> QED
    BY <2>4, <2>6, <2>7, <2>8, <2>9, <2>10, <2>11, <2>12, <2>13, <2>14
       DEF AlertsNext, ToggleSource, EditSource, HourPasses
<1> QED
  BY <1>1, <1>2, <1>3, <1>4, <1>5, <1>0, RunTypes DEF TypeOKAlerts, RowsSound

-----------------------------------------------------------------------------
Types == scene \in Scenes /\ SessionTypes /\ WeeklyTypes /\ AlertTypes

LEMMA TypesStay ==
    /\ SessionTypes /\ UNCHANGED session => SessionTypes'
    /\ WeeklyTypes /\ UNCHANGED weekly => WeeklyTypes'
    /\ AlertTypes /\ UNCHANGED alerts => AlertTypes'
<1>1. SessionTypes /\ UNCHANGED session => SessionTypes'
  BY DEF session, process, SessionTypes, Latest, Bounded
<1>2. WeeklyTypes /\ UNCHANGED weekly => WeeklyTypes'
  BY DEF weekly, WeeklyTypes, ReportsSound, HeldApart, TitlesPast, Busy
<1>3. AlertTypes /\ UNCHANGED alerts => AlertTypes'
  BY DEF alerts, AlertTypes, TypeOKAlerts, About
<1> QED
  BY <1>1, <1>2, <1>3

\* The values of all variables.  Of the three parts in particular: the process
\* is never ahead of the stored epoch by more than the times the database did
\* not answer, and equal to it until then; two transactions never hold one
\* deadline, no report is dated in the future, and no two have one number;
\* a source with an item has been read, and nobody is told of trouble that no
\* alert was called for.
THEOREM TypeCorrect == Spec => []TypeOK
<1>1. Init => Types
  BY SessionTypesInit, WeeklyTypesInit, AlertTypesInit DEF Init, Types
<1>2. DashboardInv /\ DashboardInv' /\ Types /\ [Next]_vars => Types'
  <2> SUFFICES ASSUME DashboardInv, DashboardInv', Types, [Next]_vars PROVE Types'
    OBVIOUS
  <2>1. CASE SessionNext /\ UNCHANGED <<scene, weekly, alerts>>
    BY <2>1, SessionTypesStep, TypesStay DEF DashboardInv, Types
  <2>2. CASE WeeklyNext /\ UNCHANGED <<scene, session, alerts>>
    BY <2>2, WeeklyTypesStep, TypesStay DEF DashboardInv, Types
  <2>3. CASE AlertsNext /\ UNCHANGED <<scene, session, weekly>>
    BY <2>3, AlertTypesStep, TypesStay DEF DashboardInv, Types
  <2>4. CASE UNCHANGED vars
    <3>1. UNCHANGED scene /\ UNCHANGED session /\ UNCHANGED weekly /\ UNCHANGED alerts
      BY <2>4 DEF vars
    <3> QED
      BY <3>1, TypesStay DEF Types
  <2> QED
    BY <2>1, <2>2, <2>3, <2>4 DEF Next
<1>3. DashboardInv /\ Types => TypeOK
  BY SessionTyped, WeeklyTyped DEF DashboardInv, Types, AlertTypes, TypeOK
<1> QED
  BY <1>1, <1>2, <1>3, PartsHold, PTL DEF Spec
=============================================================================
