---------------------------- MODULE ChatTurnProofs ----------------------------
(***************************************************************************)
(* The safety properties of ChatTurn, for any conversations, questions,    *)
(* threads and limits, from one inductive invariant: what a turn knows     *)
(* between two statements stays true under the statements of the others.   *)
(***************************************************************************)
EXTENDS ChatTurn, FiniteSetTheorems, WellFoundedInduction, TLAPS

-----------------------------------------------------------------------------
(***************************************************************************)
(* The inductive invariant.                                                *)
(***************************************************************************)
Unasked == {"idle", "sent", "budget", "ask", "report"}

\* A turn has a question of its own from Ask to Answer, and ends in one tier.
SoundTurn(t) ==
    /\ t.pc \in Unasked <=> t.id = 0
    /\ t.pc = "idle" => t = NoTurn
    /\ t.pc # "idle" => t.session \in Sessions
    /\ t.pc \notin {"idle", "report"} => t.q \in Questions
    /\ t.tier = "cached" => t.pc = "answer"
    /\ t.paid => t.pc \in {"store", "answer"} /\ t.tier = "llm"
    /\ t.pc = "model" => ~t.over

TurnSound == \A w \in Workers : SoundTurn(turn[w])

\* Whose question and whose answer a row is.
AnswerSound ==
    /\ \A w \in Workers : \A r \in rows :
          r.id = turn[w].id => r.role = "user" /\ r.session = turn[w].session
    /\ \A a, r \in rows : a.turn = r.id => r.role = "user" /\ r.session = a.session
    /\ \A r \in rows : r.id \in lost => r.session \in disturbed

\* What the bounds are about is finite; every turn under way has room to answer.
RoomSound ==
    /\ IsFiniteSet(rows)
    /\ lastId + Cardinality(InFlight) <= MaxId

\* Turns past the rate check, not yet among the rows it counts.
Passed(s) == {w \in Workers : turn[w].session = s /\ turn[w].pc \in {"budget", "ask"}}

RateSound ==
    \A s \in Sessions :
        RecentUserCount(s) + Cardinality(Passed(s)) <= Limit + Cardinality(Workers) - 1

\* Turns that the budget let through, or that have spent and not yet booked it.
Spends(t) == t.paid \/ (~t.over /\ t.pc \in {"ask", "load", "lookup", "model"})

Spending == {w \in Workers : Spends(turn[w])}

PaidRows == {r \in rows : r.id > day /\ r.paid}

BudgetSound ==
    Cost * (Cardinality(PaidRows) + Cardinality(Spending)) < Budget + Cost * Cardinality(Workers)

(***************************************************************************)
(* A conversation whose turns neither overlapped nor died: one turn at a   *)
(* time, nothing between a question and its answer, and an answer without  *)
(* its question only where everything before it is gone, too.              *)
(***************************************************************************)
OneTurn(s) == \A v, w \in InFlight : turn[v].session = s /\ turn[w].session = s => v = w

HasQuestion(id) == \E u \in rows : u.id = id /\ u.role = "user"

InTurn(s) ==
    /\ OneTurn(s)
    /\ \A a, x \in rows : a.session = s /\ x.session = s /\ a.role = "assistant" /\ x.id < a.id =>
          x.id <= a.turn /\ HasQuestion(a.turn)
    /\ \A w \in InFlight : \A x \in rows : turn[w].session = s /\ x.session = s =>
          x.id <= turn[w].id /\ HasQuestion(turn[w].id)

SessionSound == \A s \in Sessions \ disturbed : InTurn(s)

\* What a turn has read.
SoundSeen(t) ==
    /\ \A r \in t.seen : r.tier # "stub"
    /\ t.pc \in {"lookup", "model"} /\ t.session \notin disturbed => Paired(t.seen)

SeenSound == \A w \in Workers : SoundSeen(turn[w])

\* Every question of the window before a question got a stub reply.
OnlyStubs(s, before) ==
    LET window == Newest(Earlier(s, before))
    IN  \A u \in window : u.role = "user" =>
            \E a \in window : a.tier = "stub" /\ a.turn = u.id

SoundCached(t) ==
    /\ t.session \notin disturbed
    /\ t.tier = "cached" \/ (t.pc = "lookup" /\ FirstTurn(t))
    => OnlyStubs(t.session, t.id)

CacheSound == \A w \in Workers : SoundCached(turn[w])

BriefSound ==
    \A b \in briefs : b.of # 0 /\ b.session \notin disturbed => b.title \in {0, b.of}

IInv ==
    /\ TypeOK
    /\ TurnSound
    /\ AnswerSound
    /\ RoomSound
    /\ RateSound
    /\ BudgetSound
    /\ SessionSound
    /\ SeenSound
    /\ CacheSound
    /\ BriefSound
    /\ QuestionKept

-----------------------------------------------------------------------------
(***************************************************************************)
(* The first and the last of some ids.                                     *)
(***************************************************************************)
LEMMA FirstExists ==
  ASSUME NEW S \in SUBSET Nat, S # {}
  PROVE  \E m \in S : \A n \in S : m <= n
<1> DEFINE R == OpToRel(<, Nat)
<1>1. IsWellFoundedOn(R, Nat)
  BY NatLessThanWellFounded
<1>2. \A m, n \in Nat : m < n => <<m, n>> \in R
  BY DEF OpToRel
<1> HIDE DEF R
<1>3. PICK m \in S : \A n \in S : ~(<<n, m>> \in R)
  BY <1>1, WFMin
<1>4. \A n \in S : ~(n < m)
  BY <1>2, <1>3
<1>5. \A n \in S : m <= n
  BY <1>4
<1> QED
  BY <1>5

LEMMA LastExists ==
  ASSUME NEW S \in SUBSET Nat, S # {}, NEW b \in Nat, \A n \in S : n <= b
  PROVE  \E m \in S : \A n \in S : n <= m
<1> DEFINE T == {k \in Nat : b - k \in S}
<1>1. \A n \in S : b - n \in T
  <2> SUFFICES ASSUME NEW n \in S PROVE b - n \in T
    OBVIOUS
  <2>1. n \in Nat /\ n <= b
    OBVIOUS
  <2>2. b - n \in Nat /\ b - (b - n) = n
    BY <2>1
  <2> QED
    BY <2>2
<1>2. T \in SUBSET Nat /\ T # {}
  BY <1>1
<1>3. PICK k \in T : \A n \in T : k <= n
  BY <1>2, FirstExists
<1>4. k \in Nat /\ b - k \in S
  BY <1>3
<1>5. \A n \in S : n <= b - k
  <2> SUFFICES ASSUME NEW n \in S PROVE n <= b - k
    OBVIOUS
  <2>1. n \in Nat /\ k <= b - n
    BY <1>1, <1>3
  <2> QED
    BY <1>4, <2>1
<1> QED
  BY <1>4, <1>5

-----------------------------------------------------------------------------
(***************************************************************************)
(* Types.                                                                  *)
(***************************************************************************)
LEMMA RowFacts ==
  ASSUME TypeOK
  PROVE  /\ lastId \in Nat /\ rows \subseteq Row
         /\ \A r \in rows : /\ r.id \in 1 .. lastId /\ r.turn \in 1 .. lastId /\ r.turn <= r.id
                            /\ r.session \in Sessions /\ r.role \in {"user", "assistant"}
                            /\ r.role = "user" <=> r.turn = r.id
                            /\ r.role = "user" => r.tier = "none"
         /\ \A r, x \in rows : r.id = x.id => r = x
  BY ChatBounds DEF TypeOK, Row

Pcs == {"idle", "sent", "budget", "ask", "load", "lookup", "model", "store", "stub", "answer",
        "report"}

Tiers == {"none", "stub", "llm", "cached"}

LEMMA TurnFacts ==
  ASSUME TypeOK, NEW w \in Workers
  PROVE  /\ turn[w] \in Turn
         /\ turn[w].pc \in Pcs
         /\ turn[w].session \in Sessions \cup {0}
         /\ turn[w].q \in Questions \cup {0}
         /\ turn[w].id \in 0 .. lastId
         /\ turn[w].seen \in SUBSET Row
         /\ turn[w].tier \in Tiers
         /\ turn[w].over \in BOOLEAN /\ turn[w].paid \in BOOLEAN
         /\ turn[w] = [pc |-> turn[w].pc, session |-> turn[w].session, q |-> turn[w].q,
                       id |-> turn[w].id, over |-> turn[w].over, seen |-> turn[w].seen,
                       tier |-> turn[w].tier, paid |-> turn[w].paid]
  BY DEF TypeOK, Turn, Pcs, Tiers

LEMMA NoTurnType == TypeOK => NoTurn \in Turn
  BY ChatBounds DEF TypeOK, NoTurn, Turn

LEMMA WindowTypes ==
  ASSUME TypeOK, NEW s, NEW n
  PROVE  History(s, n) \subseteq rows /\ Transcript(s) \subseteq rows
  BY DEF History, Transcript, RepairWindow, DropStubPairs, Newest, Oldest, Earlier

LEMMA PrecedingType ==
  ASSUME TypeOK, NEW a \in rows
  PROVE  /\ Preceding(a) \in 0 .. lastId
         /\ \/ Preceding(a) = 0
            \/ \E u \in Earlier(a.session, a.id) : u.role = "user" /\ u.id = Preceding(a)
         /\ \A u \in Earlier(a.session, a.id) : u.role = "user" => u.id <= Preceding(a)
<1> DEFINE asked == {r.id : r \in {u \in Earlier(a.session, a.id) : u.role = "user"}}
<1>1. \A n \in asked \cup {0} : n \in 0 .. lastId
  BY RowFacts DEF Earlier
<1>2. asked \cup {0} \in SUBSET Nat /\ asked \cup {0} # {} /\ lastId \in Nat
  BY <1>1, RowFacts
<1>3. \E m \in asked \cup {0} : \A n \in asked \cup {0} : n <= m
  <2>1. \A n \in asked \cup {0} : n <= lastId
    BY <1>1
  <2> HIDE DEF asked
  <2> QED
    BY <1>2, <2>1, LastExists
<1>4. /\ Preceding(a) \in asked \cup {0}
      /\ \A k \in asked : k <= Preceding(a)
  BY <1>3 DEF Preceding
<1> QED
  BY <1>1, <1>4

LEMMA OpeningType ==
  ASSUME TypeOK, NEW w \in Workers
  PROVE  Opening(turn[w].seen) \in 0 .. lastId
<1> DEFINE asked == {r.id : r \in {m \in turn[w].seen : m.role = "user"}}
<1>1. \A n \in asked : n \in 1 .. lastId
  BY TurnFacts DEF Row
<1>2. CASE asked = {}
  BY <1>2, RowFacts DEF Opening
<1>3. CASE asked # {}
  <2>1. asked \in SUBSET Nat
    BY <1>1, RowFacts
  <2>2. \E m \in asked : \A n \in asked : m <= n
    BY <1>3, <2>1, FirstExists
  <2>3. Opening(turn[w].seen) \in asked
    BY <1>3, <2>2 DEF Opening
  <2> QED
    BY <1>1, <2>3, RowFacts
<1> QED
  BY <1>2, <1>3

\* Steps that change one turn, and neither rows nor what is told of them.
Quiet(w) ==
    /\ UNCHANGED <<key, rows, lastId, time, faults, past>>
    /\ \A v \in Workers \ {w} : turn'[v] = turn[v]
    /\ turn' \in [Workers -> Turn]

Sends(w, s, q) == \E continued \in BOOLEAN : Send(w, s, q, continued)

\* The steps of a turn between its statements that write rows.
Moves(w) ==
    \/ \E s \in Sessions, q \in Questions : Sends(w, s, q)
    \/ CheckRate(w) \/ CheckBudget(w) \/ LoadHistory(w) \/ CacheHit(w) \/ CacheMiss(w)
    \/ (\E whole \in BOOLEAN : Reply(w, whole)) \/ ReplyFails(w) \/ CacheStore(w)
    \/ StubReply(w)
    \/ (\E s \in Sessions : Report(w, s)) \/ ReportEnds(w)

LEMMA EndingType ==
  ASSUME TypeOK, NEW w \in Workers, NEW pc \in Pcs
  PROVE  /\ Ending(w, pc) \in Turn
         /\ Ending(w, pc).pc = pc
         /\ Ending(w, pc).session = turn[w].session
         /\ Ending(w, pc).q = turn[w].q
         /\ Ending(w, pc).id = turn[w].id
         /\ Ending(w, pc).seen = {}
         /\ Ending(w, pc).tier = turn[w].tier
         /\ Ending(w, pc).paid = turn[w].paid
         /\ Ending(w, pc).over = FALSE
<1>1. turn[w] \in Turn
  BY TurnFacts
<1> QED
  BY <1>1 DEF Ending, Turn, Pcs

\* What a step makes of a turn.
IsTurn(t, pc, session, q, id, over, seen, tier, paid) ==
    /\ t \in Turn
    /\ t.pc = pc /\ t.session = session /\ t.q = q /\ t.id = id /\ t.over = over
    /\ t.seen = seen /\ t.tier = tier /\ t.paid = paid

LEMMA EffectOfSend ==
  ASSUME TypeOK, NEW w \in Workers, NEW s \in Sessions, NEW q \in Questions, Sends(w, s, q)
  PROVE  IsTurn(turn'[w], "sent", s, q, 0, FALSE, {}, "none", FALSE)
<1>1. turn' = [turn EXCEPT ![w] = [NoTurn EXCEPT !.pc = "sent", !.session = s, !.q = q]]
  BY Zenon DEF Sends, Send
<1> QED
  BY <1>1, NoTurnType DEF TypeOK, IsTurn, NoTurn, Turn

LEMMA EffectOfRate ==
  ASSUME TypeOK, NEW w \in Workers, CheckRate(w)
  PROVE  \/ turn'[w] = NoTurn
         \/ IsTurn(turn'[w], "budget", turn[w].session, turn[w].q, turn[w].id, turn[w].over,
                   turn[w].seen, turn[w].tier, turn[w].paid)
<1>1. turn[w] \in Turn /\ turn \in [Workers -> Turn]
  BY TurnFacts DEF TypeOK
<1> QED
  BY <1>1 DEF IsTurn, CheckRate, Turn

LEMMA EffectOfBudget ==
  ASSUME TypeOK, NEW w \in Workers, CheckBudget(w)
  PROVE  IsTurn(turn'[w], "ask", turn[w].session, turn[w].q, turn[w].id, BudgetExceeded,
                turn[w].seen, turn[w].tier, turn[w].paid)
<1>1. turn[w] \in Turn /\ turn \in [Workers -> Turn] /\ BudgetExceeded \in BOOLEAN
  BY TurnFacts DEF TypeOK, BudgetExceeded
<1> QED
  BY <1>1 DEF IsTurn, CheckBudget, Turn

LEMMA EffectOfLoad ==
  ASSUME TypeOK, NEW w \in Workers, LoadHistory(w)
  PROVE  \/ /\ key
            /\ IsTurn(turn'[w], "lookup", turn[w].session, turn[w].q, turn[w].id, turn[w].over,
                      History(turn[w].session, turn[w].id), turn[w].tier, turn[w].paid)
         \/ /\ ~key
            /\ IsTurn(turn'[w], "stub", turn[w].session, turn[w].q, turn[w].id, turn[w].over,
                      {}, turn[w].tier, turn[w].paid)
<1>1. /\ History(turn[w].session, turn[w].id) \in SUBSET Row
      /\ turn[w] \in Turn /\ turn \in [Workers -> Turn]
  BY WindowTypes, RowFacts, TurnFacts DEF TypeOK
<1>2. CASE key
  BY <1>1, <1>2 DEF IsTurn, LoadHistory, Turn
<1>3. CASE ~key
  BY <1>1, <1>3 DEF IsTurn, LoadHistory, Turn
<1> QED
  BY <1>2, <1>3

LEMMA EffectOfHit ==
  ASSUME TypeOK, NEW w \in Workers, CacheHit(w)
  PROVE  IsTurn(turn'[w], "answer", turn[w].session, turn[w].q, turn[w].id, FALSE, {}, "cached",
                turn[w].paid)
<1> DEFINE e == Ending(w, "answer")
<1>1. IsTurn(e, "answer", turn[w].session, turn[w].q, turn[w].id, FALSE, {}, turn[w].tier,
             turn[w].paid)
  BY EndingType DEF IsTurn, Pcs
<1>2. turn'[w] = [e EXCEPT !.tier = "cached"]
  BY DEF CacheHit, TypeOK
<1> HIDE DEF e
<1> QED
  BY <1>1, <1>2 DEF IsTurn, Turn

LEMMA EffectOfMiss ==
  ASSUME TypeOK, NEW w \in Workers, CacheMiss(w)
  PROVE  \/ IsTurn(turn'[w], "stub", turn[w].session, turn[w].q, turn[w].id, FALSE, {},
                   turn[w].tier, turn[w].paid)
         \/ /\ ~turn[w].over
            /\ IsTurn(turn'[w], "model", turn[w].session, turn[w].q, turn[w].id, turn[w].over,
                      turn[w].seen, turn[w].tier, turn[w].paid)
<1> DEFINE e == Ending(w, "stub")
<1>1. IsTurn(e, "stub", turn[w].session, turn[w].q, turn[w].id, FALSE, {}, turn[w].tier,
             turn[w].paid)
  BY EndingType DEF IsTurn, Pcs
<1>2. CASE turn[w].over
  BY <1>1, <1>2 DEF CacheMiss, TypeOK
<1>3. CASE ~turn[w].over
  <2>1. turn[w] \in Turn /\ turn'[w] = [turn[w] EXCEPT !.pc = "model"]
    BY <1>3, TurnFacts DEF CacheMiss, TypeOK
  <2> QED
    BY <1>3, <2>1 DEF IsTurn, Turn
<1> QED
  BY <1>2, <1>3

LEMMA EffectOfReply ==
  ASSUME TypeOK, NEW w \in Workers, NEW whole \in BOOLEAN, Reply(w, whole)
  PROVE  \E pc \in {"store", "answer"} :
            IsTurn(turn'[w], pc, turn[w].session, turn[w].q, turn[w].id, FALSE, {}, "llm", TRUE)
<1>1. PICK pc \in {"store", "answer"} :
              turn'[w] = [Ending(w, pc) EXCEPT !.tier = "llm", !.paid = TRUE]
  BY DEF Reply, TypeOK
<1> DEFINE e == Ending(w, pc)
<1>2. IsTurn(e, pc, turn[w].session, turn[w].q, turn[w].id, FALSE, {}, turn[w].tier,
             turn[w].paid)
  <2>1. pc \in Pcs
    BY DEF Pcs
  <2> QED
    BY <2>1, EndingType DEF IsTurn
<1>3. turn'[w] = [e EXCEPT !.tier = "llm", !.paid = TRUE]
  BY <1>1
<1> HIDE DEF e
<1> QED
  BY <1>2, <1>3 DEF IsTurn, Turn

LEMMA EffectOfFailure ==
  ASSUME TypeOK, NEW w \in Workers, ReplyFails(w)
  PROVE  IsTurn(turn'[w], "stub", turn[w].session, turn[w].q, turn[w].id, FALSE, {},
                turn[w].tier, turn[w].paid)
<1>1. turn'[w] = Ending(w, "stub")
  BY DEF ReplyFails, FallBack, TypeOK
<1>2. "stub" \in Pcs
  BY DEF Pcs
<1>3. IsTurn(Ending(w, "stub"), "stub", turn[w].session, turn[w].q, turn[w].id, FALSE, {},
             turn[w].tier, turn[w].paid)
  BY <1>2, EndingType DEF IsTurn
<1> QED
  BY <1>1, <1>3

LEMMA EffectOfStore ==
  ASSUME TypeOK, NEW w \in Workers, CacheStore(w)
  PROVE  IsTurn(turn'[w], "answer", turn[w].session, turn[w].q, turn[w].id, turn[w].over,
                turn[w].seen, turn[w].tier, turn[w].paid)
<1>1. turn[w] \in Turn /\ turn \in [Workers -> Turn]
  BY TurnFacts DEF TypeOK
<1> QED
  BY <1>1 DEF IsTurn, CacheStore, Turn

LEMMA EffectOfStub ==
  ASSUME TypeOK, NEW w \in Workers, StubReply(w)
  PROVE  IsTurn(turn'[w], "answer", turn[w].session, turn[w].q, turn[w].id, turn[w].over,
                turn[w].seen, "stub", turn[w].paid)
<1>1. turn[w] \in Turn /\ turn \in [Workers -> Turn]
  BY TurnFacts DEF TypeOK
<1> QED
  BY <1>1 DEF IsTurn, StubReply, Turn

LEMMA EffectOfReport ==
  ASSUME TypeOK, NEW w \in Workers, NEW s \in Sessions, Report(w, s)
  PROVE  IsTurn(turn'[w], "report", s, 0, 0, FALSE, Transcript(s), "none", FALSE)
<1>1. Transcript(s) \in SUBSET Row /\ turn \in [Workers -> Turn]
  BY WindowTypes, RowFacts DEF TypeOK
<1> QED
  BY <1>1 DEF IsTurn, Report, NoTurn, Turn

LEMMA MovesQuiet ==
  ASSUME TypeOK, NEW w \in Workers, Moves(w)
  PROVE  Quiet(w)
<1>0. /\ turn \in [Workers -> Turn] /\ NoTurn \in Turn
  BY NoTurnType DEF TypeOK
<1>13. /\ UNCHANGED <<key, rows, lastId, minute, day, faults, lost, disturbed>>
      /\ \E t : turn' = [turn EXCEPT ![w] = t]
  BY <1>0 DEF Moves, time, past, Sends, Send, CheckRate, CheckBudget, LoadHistory, CacheHit,
     CacheMiss, Reply, ReplyFails, CacheStore, StubReply, Report, ReportEnds
<1>1. ASSUME NEW s \in Sessions, NEW q \in Questions, Sends(w, s, q)
      PROVE  turn'[w] \in Turn
  BY <1>0, <1>1, EffectOfSend DEF IsTurn
<1>2. ASSUME CheckRate(w) PROVE turn'[w] \in Turn
  BY <1>0, <1>2, EffectOfRate DEF IsTurn
<1>3. ASSUME CheckBudget(w) PROVE turn'[w] \in Turn
  BY <1>0, <1>3, EffectOfBudget DEF IsTurn
<1>4. ASSUME LoadHistory(w) PROVE turn'[w] \in Turn
  BY <1>0, <1>4, EffectOfLoad DEF IsTurn
<1>5. ASSUME CacheHit(w) PROVE turn'[w] \in Turn
  BY <1>0, <1>5, EffectOfHit DEF IsTurn
<1>6. ASSUME CacheMiss(w) PROVE turn'[w] \in Turn
  BY <1>0, <1>6, EffectOfMiss DEF IsTurn
<1>7. ASSUME NEW whole \in BOOLEAN, Reply(w, whole)
      PROVE  turn'[w] \in Turn
  BY <1>0, <1>7, EffectOfReply DEF IsTurn
<1>8. ASSUME ReplyFails(w) PROVE turn'[w] \in Turn
  BY <1>0, <1>8, EffectOfFailure DEF IsTurn
<1>9. ASSUME CacheStore(w) PROVE turn'[w] \in Turn
  BY <1>0, <1>9, EffectOfStore DEF IsTurn
<1>10. ASSUME StubReply(w) PROVE turn'[w] \in Turn
  BY <1>0, <1>10, EffectOfStub DEF IsTurn
<1>11. ASSUME NEW s \in Sessions, Report(w, s)
      PROVE  turn'[w] \in Turn
  BY <1>0, <1>11, EffectOfReport DEF IsTurn
<1>12. ASSUME ReportEnds(w) PROVE turn'[w] \in Turn
  BY <1>0, <1>12 DEF ReportEnds
<1>14. turn'[w] \in Turn
  BY <1>1, <1>2, <1>3, <1>4, <1>5, <1>6, <1>7, <1>8, <1>9, <1>10, <1>11, <1>12 DEF Moves
<1> QED
  BY <1>0, <1>13, <1>14 DEF Quiet, time, past

LEMMA MoveKeepsId ==
  ASSUME TypeOK, TurnSound, NEW w \in Workers, Moves(w)
  PROVE  /\ turn'[w].id = turn[w].id
         /\ turn[w].id # 0 => turn'[w].session = turn[w].session
<1> DEFINE Kept == /\ turn'[w].id = turn[w].id
                   /\ turn[w].id # 0 => turn'[w].session = turn[w].session
<1>0. turn \in [Workers -> Turn] /\ SoundTurn(turn[w]) /\ NoTurn.id = 0
  BY DEF TypeOK, TurnSound, NoTurn
<1>13. ASSUME NEW s \in Sessions, NEW q \in Questions, Sends(w, s, q)
       PROVE  turn[w].id = 0
  BY <1>0, <1>13, Zenon DEF Sends, Send
<1>1. ASSUME NEW s \in Sessions, NEW q \in Questions, Sends(w, s, q)
      PROVE  Kept
  BY <1>0, <1>1, <1>13, EffectOfSend DEF IsTurn
<1>2. CASE CheckRate(w)
  BY <1>0, <1>2, EffectOfRate DEF IsTurn, CheckRate, SoundTurn, Unasked
<1>3. CASE CheckBudget(w)
  BY <1>0, <1>3, EffectOfBudget DEF IsTurn
<1>4. CASE LoadHistory(w)
  BY <1>0, <1>4, EffectOfLoad DEF IsTurn
<1>5. CASE CacheHit(w)
  BY <1>0, <1>5, EffectOfHit DEF IsTurn
<1>6. CASE CacheMiss(w)
  BY <1>0, <1>6, EffectOfMiss DEF IsTurn
<1>7. ASSUME NEW whole \in BOOLEAN, Reply(w, whole)
      PROVE  Kept
  BY <1>0, <1>7, EffectOfReply DEF IsTurn
<1>8. CASE ReplyFails(w)
  BY <1>0, <1>8, EffectOfFailure DEF IsTurn
<1>9. CASE CacheStore(w)
  BY <1>0, <1>9, EffectOfStore DEF IsTurn
<1>10. CASE StubReply(w)
  BY <1>0, <1>10, EffectOfStub DEF IsTurn
<1>11. ASSUME NEW s \in Sessions, Report(w, s)
      PROVE  Kept
  BY ZenonT(40), <1>0, <1>11, EffectOfReport DEF IsTurn, Report
<1>12. CASE ReportEnds(w)
  BY <1>0, <1>12 DEF ReportEnds, SoundTurn, Unasked
<1> QED
  BY <1>1, <1>2, <1>3, <1>4, <1>5, <1>6, <1>7, <1>8, <1>9, <1>10, <1>11, <1>12 DEF Moves

LEMMA MoveKeepsSound ==
  ASSUME TypeOK, TurnSound, NEW w \in Workers, Moves(w)
  PROVE  TurnSound'
<1>0. /\ turn \in [Workers -> Turn] /\ SoundTurn(turn[w]) /\ SoundTurn(NoTurn)
      /\ turn[w].paid \in BOOLEAN
  BY TurnFacts DEF TypeOK, TurnSound, NoTurn, SoundTurn, Unasked
<1>1. ASSUME NEW s \in Sessions, NEW q \in Questions, Sends(w, s, q)
      PROVE  SoundTurn(turn'[w])
  BY <1>0, <1>1, EffectOfSend DEF IsTurn, SoundTurn, Unasked
<1>2. ASSUME CheckRate(w) PROVE SoundTurn(turn'[w])
  BY <1>0, <1>2, EffectOfRate DEF CheckRate, IsTurn, SoundTurn, Unasked
<1>3. ASSUME CheckBudget(w) PROVE SoundTurn(turn'[w])
  BY <1>0, <1>3, EffectOfBudget DEF CheckBudget, IsTurn, SoundTurn, Unasked
<1>4. ASSUME LoadHistory(w) PROVE SoundTurn(turn'[w])
  BY <1>0, <1>4, EffectOfLoad DEF LoadHistory, IsTurn, SoundTurn, Unasked
<1>5. ASSUME CacheHit(w) PROVE SoundTurn(turn'[w])
  BY <1>0, <1>5, EffectOfHit DEF CacheHit, IsTurn, SoundTurn, Unasked
<1>6. ASSUME CacheMiss(w) PROVE SoundTurn(turn'[w])
  BY <1>0, <1>6, EffectOfMiss DEF CacheMiss, IsTurn, SoundTurn, Unasked
<1>7. ASSUME NEW whole \in BOOLEAN, Reply(w, whole)
      PROVE  SoundTurn(turn'[w])
  BY ZenonT(40), <1>0, <1>7, EffectOfReply DEF Reply, IsTurn, SoundTurn, Unasked
<1>8. ASSUME ReplyFails(w) PROVE SoundTurn(turn'[w])
  BY <1>0, <1>8, EffectOfFailure DEF ReplyFails, IsTurn, SoundTurn, Unasked
<1>9. ASSUME CacheStore(w) PROVE SoundTurn(turn'[w])
  BY <1>0, <1>9, EffectOfStore DEF CacheStore, IsTurn, SoundTurn, Unasked
<1>10. ASSUME StubReply(w) PROVE SoundTurn(turn'[w])
  BY <1>0, <1>10, EffectOfStub DEF StubReply, IsTurn, SoundTurn, Unasked
<1>11. ASSUME NEW s \in Sessions, Report(w, s)
      PROVE  SoundTurn(turn'[w])
  BY <1>0, <1>11, EffectOfReport DEF Report, IsTurn, SoundTurn, Unasked
<1>12. ASSUME ReportEnds(w) PROVE SoundTurn(turn'[w])
  BY <1>0, <1>12 DEF ReportEnds
<1>13. SoundTurn(turn'[w])
  BY <1>1, <1>2, <1>3, <1>4, <1>5, <1>6, <1>7, <1>8, <1>9, <1>10, <1>11, <1>12 DEF Moves
<1> QED
  BY <1>13, MovesQuiet DEF TurnSound, Quiet

-----------------------------------------------------------------------------
(***************************************************************************)
(* What a move leaves as it is.                                            *)
(***************************************************************************)
LEMMA MoveFrame ==
  ASSUME TypeOK, TurnSound, NEW w \in Workers, Moves(w)
  PROVE  /\ rows' = rows /\ lastId' = lastId /\ lost' = lost /\ disturbed' = disturbed
         /\ minute' = minute /\ day' = day /\ key' = key
         /\ \A v \in Workers : /\ turn'[v].id = turn[v].id
                               /\ turn[v].id # 0 => turn'[v].session = turn[v].session
         /\ \A v \in Workers \ {w} : turn'[v] = turn[v]
         /\ InFlight' = InFlight
<1>1. Quiet(w)
  BY MovesQuiet
<1>2. \A v \in Workers : /\ turn'[v].id = turn[v].id
                         /\ turn[v].id # 0 => turn'[v].session = turn[v].session
  BY <1>1, MoveKeepsId DEF Quiet
<1> QED
  BY <1>1, <1>2 DEF Quiet, InFlight, time, past

LEMMA MoveKeepsRows ==
  ASSUME TypeOK, TurnSound, NEW w \in Workers, Moves(w),
         AnswerSound, RoomSound, SessionSound, QuestionKept
  PROVE  AnswerSound' /\ RoomSound' /\ SessionSound' /\ QuestionKept'
<1> DEFINE Same == \A v \in Workers : /\ turn'[v].id = turn[v].id
                                      /\ turn[v].id # 0 => turn'[v].session = turn[v].session
<1>1. /\ rows' = rows /\ lastId' = lastId /\ lost' = lost /\ disturbed' = disturbed
      /\ Same /\ InFlight' = InFlight
  BY MoveFrame
<1>2. \A r \in rows : r.id # 0
  BY RowFacts
<1>3. AnswerSound'
  <2>1. \A v \in Workers : \A r \in rows :
            r.id = turn'[v].id => r.role = "user" /\ r.session = turn'[v].session
    BY <1>1, <1>2 DEF AnswerSound
  <2> QED
    BY <1>1, <2>1 DEF AnswerSound
<1>4. RoomSound'
  BY <1>1 DEF RoomSound
<1>5. SessionSound'
  <2> SUFFICES ASSUME NEW s \in Sessions \ disturbed PROVE InTurn(s)'
    BY <1>1 DEF SessionSound
  <2>1. InTurn(s)
    BY DEF SessionSound
  <2>2. \A v \in InFlight : turn[v].id # 0 /\ v \in Workers
    BY DEF InFlight
  <2>3. OneTurn(s)'
    BY <1>1, <2>1, <2>2 DEF InTurn, OneTurn
  <2>4. \A v \in InFlight : \A x \in rows : turn'[v].session = s /\ x.session = s =>
            x.id <= turn'[v].id /\ HasQuestion(turn'[v].id)
    BY <1>1, <2>1, <2>2 DEF InTurn
  <2> QED
    BY <1>1, <2>1, <2>3, <2>4 DEF InTurn, HasQuestion
<1>6. QuestionKept'
  <2>1. \A v \in InFlight : turn'[v].id = turn[v].id
    BY <1>1 DEF InFlight
  <2> QED
    BY <1>1, <2>1 DEF QuestionKept
<1> QED
  BY <1>3, <1>4, <1>5, <1>6

-----------------------------------------------------------------------------
(***************************************************************************)
(* The two counts.                                                         *)
(***************************************************************************)
LEMMA PartCount ==
  ASSUME NEW T, IsFiniteSet(T), NEW S \in SUBSET T
  PROVE  IsFiniteSet(S) /\ Cardinality(S) \in Nat /\ Cardinality(T) \in Nat
         /\ Cardinality(S) <= Cardinality(T)
  BY FS_Subset, FS_CardinalityType

Recent(s) == {r \in rows : r.session = s /\ r.role = "user" /\ r.id > minute}

LEMMA CountTypes ==
  ASSUME RoomSound, NEW s
  PROVE  /\ IsFiniteSet(Recent(s)) /\ RecentUserCount(s) = Cardinality(Recent(s))
         /\ RecentUserCount(s) \in Nat
         /\ IsFiniteSet(PaidRows) /\ Cardinality(PaidRows) \in Nat
         /\ IsFiniteSet(Workers) /\ Cardinality(Workers) \in Nat
         /\ IsFiniteSet(InFlight) /\ Cardinality(InFlight) \in Nat
         /\ IsFiniteSet(Passed(s)) /\ Cardinality(Passed(s)) \in Nat
         /\ Cardinality(Passed(s)) <= Cardinality(Workers)
         /\ IsFiniteSet(Spending) /\ Cardinality(Spending) \in Nat
         /\ Cardinality(Spending) <= Cardinality(Workers)
<1>1. IsFiniteSet(rows) /\ IsFiniteSet(Workers)
  BY ChatBounds DEF RoomSound
<1>2. Recent(s) \in SUBSET rows /\ PaidRows \in SUBSET rows
  BY DEF Recent, PaidRows
<1>3. /\ InFlight \in SUBSET Workers /\ Passed(s) \in SUBSET Workers
      /\ Spending \in SUBSET Workers
  BY DEF InFlight, Passed, Spending
<1>4. RecentUserCount(s) = Cardinality(Recent(s))
  BY DEF RecentUserCount, Recent
<1> QED
  BY <1>1, <1>2, <1>3, <1>4, PartCount

\* The counts of a conversation and of its turns past the check only fall.
LEMMA RateFalls ==
  ASSUME RoomSound, RoomSound', RateSound,
         \A s \in Sessions : /\ Recent(s)' \subseteq Recent(s) /\ Passed(s)' \subseteq Passed(s)
  PROVE  RateSound'
<1> SUFFICES ASSUME NEW s \in Sessions
             PROVE  RecentUserCount(s)' + Cardinality(Passed(s)')
                    <= Limit + Cardinality(Workers) - 1
  BY DEF RateSound
<1>1. /\ RecentUserCount(s) \in Nat /\ Cardinality(Passed(s)) \in Nat
      /\ RecentUserCount(s) = Cardinality(Recent(s))
      /\ Cardinality(Workers) \in Nat /\ Limit \in Nat
      /\ IsFiniteSet(Recent(s)) /\ IsFiniteSet(Passed(s))
  BY CountTypes, ChatBounds
<1>2. RecentUserCount(s)' = Cardinality(Recent(s)')
  BY DEF RecentUserCount, Recent
<1>3. /\ Cardinality(Recent(s)') \in Nat /\ Cardinality(Recent(s)') <= Cardinality(Recent(s))
      /\ Cardinality(Passed(s)') \in Nat /\ Cardinality(Passed(s)') <= Cardinality(Passed(s))
  BY <1>1, PartCount
<1>4. RecentUserCount(s) + Cardinality(Passed(s)) <= Limit + Cardinality(Workers) - 1
  BY DEF RateSound
<1> QED
  BY <1>1, <1>2, <1>3, <1>4

LEMMA CostMonotone ==
  ASSUME NEW a \in Nat, NEW b \in Nat, a <= b
  PROVE  Cost * a <= Cost * b /\ Cost * a \in Nat /\ Cost * b \in Nat
  BY ChatBounds

LEMMA CostAdds ==
  ASSUME NEW a \in Nat, NEW b \in Nat
  PROVE  Cost * (a + b) = Cost * a + Cost * b
  BY ChatBounds

LEMMA BudgetFalls ==
  ASSUME RoomSound, RoomSound', BudgetSound,
         Cardinality(PaidRows') + Cardinality(Spending')
            <= Cardinality(PaidRows) + Cardinality(Spending)
  PROVE  BudgetSound'
<1>1. /\ Cardinality(PaidRows) \in Nat /\ Cardinality(Spending) \in Nat
      /\ Cardinality(Workers) \in Nat
  BY CountTypes
<1>2. Cardinality(PaidRows') \in Nat /\ Cardinality(Spending') \in Nat
  <2>1. IsFiniteSet(rows') /\ IsFiniteSet(Workers)
    BY ChatBounds DEF RoomSound
  <2>2. PaidRows' \in SUBSET rows' /\ Spending' \in SUBSET Workers
    BY DEF PaidRows, Spending
  <2> QED
    BY <2>1, <2>2, PartCount
<1> DEFINE new == Cardinality(PaidRows') + Cardinality(Spending')
           old == Cardinality(PaidRows) + Cardinality(Spending)
<1>3. new \in Nat /\ old \in Nat /\ new <= old
  BY <1>1, <1>2
<1>4. Cost * old < Budget + Cost * Cardinality(Workers)
  BY DEF BudgetSound
<1> HIDE DEF new, old
<1>5. Cost * new <= Cost * old /\ Cost * new \in Nat /\ Cost * old \in Nat
  BY <1>3, CostMonotone
<1>6. Cost * Cardinality(Workers) \in Nat /\ Budget \in Nat
  BY <1>1, CostMonotone, ChatBounds
<1>7. Cost * new < Budget + Cost * Cardinality(Workers)
  BY <1>4, <1>5, <1>6
<1> QED
  BY <1>7 DEF BudgetSound, new

\* A move lets a turn pass the rate check only below the limit.
RatePassed(w) ==
    turn'[w].pc \in {"budget", "ask"} =>
        \/ (turn[w].pc \in {"budget", "ask"} /\ turn[w].session = turn'[w].session)
        \/ RecentUserCount(turn'[w].session) < Limit

LEMMA MovePasses ==
  ASSUME TypeOK, RoomSound, NEW w \in Workers, Moves(w)
  PROVE  RatePassed(w)
<1>0. /\ turn \in [Workers -> Turn] /\ NoTurn.pc = "idle" /\ Limit \in Nat
      /\ RecentUserCount(turn[w].session) \in Nat
  BY CountTypes, ChatBounds DEF TypeOK, NoTurn
<1>1. ASSUME NEW s \in Sessions, NEW q \in Questions, Sends(w, s, q)
      PROVE  RatePassed(w)
  BY <1>1, EffectOfSend DEF IsTurn, RatePassed
<1>2. ASSUME CheckRate(w) PROVE RatePassed(w)
  <2>1. CASE TooMany(turn[w].session)
    <3>1. turn'[w] = NoTurn
      BY <1>0, <1>2, <2>1 DEF CheckRate
    <3> QED
      BY <1>0, <3>1 DEF RatePassed
  <2>2. CASE ~TooMany(turn[w].session)
    <3>1. RecentUserCount(turn[w].session) < Limit
      BY <1>0, <2>2 DEF TooMany
    <3>2. \/ turn'[w] = NoTurn
          \/ turn'[w].session = turn[w].session
      BY <1>2, EffectOfRate DEF IsTurn
    <3> QED
      BY <1>0, <3>1, <3>2 DEF RatePassed
  <2> QED
    BY <2>1, <2>2
<1>3. ASSUME CheckBudget(w) PROVE RatePassed(w)
  BY <1>3, EffectOfBudget DEF CheckBudget, IsTurn, RatePassed
<1>4. ASSUME LoadHistory(w) PROVE RatePassed(w)
  BY <1>4, EffectOfLoad DEF IsTurn, RatePassed
<1>5. ASSUME CacheHit(w) PROVE RatePassed(w)
  BY <1>5, EffectOfHit DEF IsTurn, RatePassed
<1>6. ASSUME CacheMiss(w) PROVE RatePassed(w)
  BY <1>6, EffectOfMiss DEF IsTurn, RatePassed
<1>7. ASSUME NEW whole \in BOOLEAN, Reply(w, whole)
      PROVE  RatePassed(w)
  BY <1>7, EffectOfReply DEF IsTurn, RatePassed
<1>8. ASSUME ReplyFails(w) PROVE RatePassed(w)
  BY <1>8, EffectOfFailure DEF IsTurn, RatePassed
<1>9. ASSUME CacheStore(w) PROVE RatePassed(w)
  BY <1>9, EffectOfStore DEF IsTurn, RatePassed
<1>10. ASSUME StubReply(w) PROVE RatePassed(w)
  BY <1>10, EffectOfStub DEF IsTurn, RatePassed
<1>11. ASSUME NEW s \in Sessions, Report(w, s)
       PROVE  RatePassed(w)
  BY <1>11, EffectOfReport DEF IsTurn, RatePassed
<1>12. ASSUME ReportEnds(w) PROVE RatePassed(w)
  BY <1>0, <1>12 DEF ReportEnds, RatePassed
<1> QED
  BY <1>1, <1>2, <1>3, <1>4, <1>5, <1>6, <1>7, <1>8, <1>9, <1>10, <1>11, <1>12 DEF Moves

LEMMA MoveKeepsRate ==
  ASSUME TypeOK, TurnSound, RoomSound, RoomSound', RateSound, NEW w \in Workers, Moves(w)
  PROVE  RateSound'
<1> SUFFICES ASSUME NEW s \in Sessions
             PROVE  RecentUserCount(s)' + Cardinality(Passed(s)')
                    <= Limit + Cardinality(Workers) - 1
  BY DEF RateSound
<1>1. /\ RecentUserCount(s)' = RecentUserCount(s)
      /\ \A v \in Workers \ {w} : turn'[v] = turn[v]
  BY MoveFrame DEF RecentUserCount
<1>2. /\ RecentUserCount(s) \in Nat /\ Cardinality(Passed(s)) \in Nat
      /\ Cardinality(Workers) \in Nat /\ Limit \in Nat
      /\ IsFiniteSet(Passed(s)) /\ IsFiniteSet(Workers)
  BY CountTypes, ChatBounds
<1>3. Passed(s)' \in SUBSET Workers
  BY DEF Passed
<1>4. Cardinality(Passed(s)') \in Nat /\ Cardinality(Passed(s)') <= Cardinality(Workers)
  BY <1>2, <1>3, PartCount
<1>5. CASE RecentUserCount(s) < Limit
  BY <1>1, <1>2, <1>4, <1>5
<1>6. CASE ~(RecentUserCount(s) < Limit)
  <2>1. Passed(s)' \in SUBSET Passed(s)
    BY <1>1, <1>6, MovePasses DEF Passed, RatePassed
  <2>2. Cardinality(Passed(s)') <= Cardinality(Passed(s))
    BY <1>2, <2>1, PartCount
  <2>3. RecentUserCount(s) + Cardinality(Passed(s)) <= Limit + Cardinality(Workers) - 1
    BY DEF RateSound
  <2> QED
    BY <1>1, <1>2, <1>4, <2>2, <2>3
<1> QED
  BY <1>5, <1>6

\* A move lets a turn spend only below the budget.
SpendPassed(w) == Spends(turn'[w]) => Spends(turn[w]) \/ ~BudgetExceeded

LEMMA MoveSpends ==
  ASSUME TypeOK, TurnSound, NEW w \in Workers, Moves(w)
  PROVE  SpendPassed(w)
<1>0. /\ turn \in [Workers -> Turn] /\ ~Spends(NoTurn)
      /\ turn[w].paid \in BOOLEAN /\ turn[w].over \in BOOLEAN /\ BudgetExceeded \in BOOLEAN
      /\ SoundTurn(turn[w])
  BY TurnFacts DEF TypeOK, NoTurn, Spends, TurnSound, BudgetExceeded
<1>1. ASSUME NEW s \in Sessions, NEW q \in Questions, Sends(w, s, q)
      PROVE  SpendPassed(w)
  BY <1>0, <1>1, EffectOfSend DEF IsTurn, SpendPassed, Spends
<1>2. ASSUME CheckRate(w) PROVE SpendPassed(w)
  BY <1>0, <1>2, EffectOfRate DEF CheckRate, IsTurn, SpendPassed, Spends
<1>3. ASSUME CheckBudget(w) PROVE SpendPassed(w)
  <2>1. turn'[w].over = BudgetExceeded /\ turn'[w].paid = turn[w].paid
    BY <1>3, EffectOfBudget DEF IsTurn
  <2>2. ~turn'[w].over => ~BudgetExceeded
    BY <2>1
  <2>3. turn'[w].paid => turn[w].paid
    BY <2>1
  <2> QED
    BY <2>2, <2>3, Zenon DEF SpendPassed, Spends
<1>4. ASSUME LoadHistory(w) PROVE SpendPassed(w)
  BY <1>0, <1>4, EffectOfLoad DEF LoadHistory, IsTurn, SpendPassed, Spends
<1>5. ASSUME CacheHit(w) PROVE SpendPassed(w)
  BY <1>0, <1>5, EffectOfHit DEF CacheHit, IsTurn, SpendPassed, Spends
<1>6. ASSUME CacheMiss(w) PROVE SpendPassed(w)
  BY <1>0, <1>6, EffectOfMiss DEF CacheMiss, IsTurn, SpendPassed, Spends
<1>7. ASSUME NEW whole \in BOOLEAN, Reply(w, whole)
      PROVE  SpendPassed(w)
  BY <1>0, <1>7 DEF Reply, SoundTurn, SpendPassed, Spends
<1>8. ASSUME ReplyFails(w) PROVE SpendPassed(w)
  BY <1>0, <1>8, EffectOfFailure DEF ReplyFails, IsTurn, SpendPassed, Spends
<1>9. ASSUME CacheStore(w) PROVE SpendPassed(w)
  BY <1>0, <1>9, EffectOfStore DEF CacheStore, IsTurn, SpendPassed, Spends
<1>10. ASSUME StubReply(w) PROVE SpendPassed(w)
  BY <1>0, <1>10, EffectOfStub DEF StubReply, IsTurn, SpendPassed, Spends
<1>11. ASSUME NEW s \in Sessions, Report(w, s)
       PROVE  SpendPassed(w)
  BY <1>0, <1>11, EffectOfReport DEF IsTurn, SpendPassed, Spends
<1>12. ASSUME ReportEnds(w) PROVE SpendPassed(w)
  BY <1>0, <1>12 DEF ReportEnds, SpendPassed
<1> QED
  BY <1>1, <1>2, <1>3, <1>4, <1>5, <1>6, <1>7, <1>8, <1>9, <1>10, <1>11, <1>12 DEF Moves

LEMMA MoveKeepsBudget ==
  ASSUME TypeOK, TurnSound, RoomSound, RoomSound', BudgetSound, NEW w \in Workers, Moves(w)
  PROVE  BudgetSound'
<1>1. /\ PaidRows' = PaidRows
      /\ \A v \in Workers \ {w} : turn'[v] = turn[v]
  BY MoveFrame DEF PaidRows
<1>2. /\ Cardinality(PaidRows) \in Nat /\ Cardinality(Spending) \in Nat
      /\ Cardinality(Workers) \in Nat /\ IsFiniteSet(Spending) /\ IsFiniteSet(Workers)
  BY CountTypes
<1>3. Spending' \in SUBSET Workers
  BY DEF Spending
<1>4. Cardinality(Spending') \in Nat /\ Cardinality(Spending') <= Cardinality(Workers)
  BY <1>2, <1>3, PartCount
<1>5. CASE BudgetExceeded
  <2>1. Spending' \in SUBSET Spending
    BY <1>1, <1>5, MoveSpends DEF Spending, SpendPassed
  <2>2. Cardinality(Spending') <= Cardinality(Spending)
    BY <1>2, <2>1, PartCount
  <2> QED
    BY <1>1, <1>2, <1>4, <2>2, BudgetFalls
<1>6. CASE ~BudgetExceeded
  <2> DEFINE P == Cardinality(PaidRows)
             S == Cardinality(Spending')
             N == Cardinality(Workers)
  <2>1. P \in Nat /\ S \in Nat /\ N \in Nat /\ S <= N
    BY <1>2, <1>4
  <2>2. ~(Cost * P >= Budget)
    BY <1>6 DEF BudgetExceeded, Used, PaidRows
  <2> HIDE DEF P, S, N
  <2>3. Cost * S \in Nat /\ Cost * N \in Nat /\ Cost * S <= Cost * N
    BY <2>1, CostMonotone
  <2>6. Cost * P \in Nat
    BY <2>1, CostMonotone
  <2>7. Cost * (P + S) = Cost * P + Cost * S
    BY <2>1, CostAdds
  <2>4. Budget \in Nat
    BY ChatBounds
  <2>5. Cost * (P + S) < Budget + Cost * N
    BY <2>2, <2>3, <2>4, <2>6, <2>7
  <2> QED
    BY <1>1, <2>5 DEF BudgetSound, P, S, N
<1> QED
  BY <1>5, <1>6

-----------------------------------------------------------------------------
(***************************************************************************)
(* What a turn reads.                                                      *)
(***************************************************************************)
\* Question and answer in turn, but for an answer at the head whose question
\* is gone.
PairedAfterHead(W) ==
    /\ \A u \in W : u.role = "user" =>
          \E a \in W : a.role = "assistant" /\ a.turn = u.id /\ Follows(W, u, a)
    /\ \A a \in W : a.role = "assistant" =>
          \/ \A x \in W : x.id >= a.id
          \/ \E u \in W : u.role = "user" /\ u.id = a.turn /\ Follows(W, u, a)

LEMMA OneFollows ==
  ASSUME TypeOK, NEW W \in SUBSET rows, NEW r \in W, NEW a, NEW n,
         Follows(W, r, a), Follows(W, r, n)
  PROVE  a = n
<1>1. a \in W /\ n \in W /\ ~(a.id < n.id) /\ ~(n.id < a.id)
  BY DEF Follows
<1>2. a \in rows /\ n \in rows /\ a.id \in Nat /\ n.id \in Nat
  BY <1>1, RowFacts
<1>3. a.id = n.id
  BY <1>1, <1>2
<1> QED
  BY <1>2, <1>3, RowFacts

LEMMA FollowsInPart ==
  ASSUME NEW W, NEW D \in SUBSET W, NEW r, NEW a \in D, Follows(W, r, a)
  PROVE  Follows(D, r, a)
  BY DEF Follows

LEMMA DropKeepsPairs ==
  ASSUME TypeOK, NEW W \in SUBSET rows, PairedAfterHead(W)
  PROVE  PairedAfterHead(DropStubPairs(W))
<1> DEFINE D == DropStubPairs(W)
<1>1. /\ D \in SUBSET W
      /\ \A r \in W : r \in D <=>
            /\ r.tier # "stub"
            /\ r.role = "user" => ~\E n \in W : n.tier = "stub" /\ Follows(W, r, n)
  BY DEF DropStubPairs
<1>2. \A r \in W : r \in rows /\ r.role \in {"user", "assistant"}
                  /\ (r.role = "user" => r.tier = "none")
  BY RowFacts
<1> HIDE DEF D
<1>3. ASSUME NEW u \in D, u.role = "user"
      PROVE  \E a \in D : a.role = "assistant" /\ a.turn = u.id /\ Follows(D, u, a)
  <2>1. PICK a \in W : a.role = "assistant" /\ a.turn = u.id /\ Follows(W, u, a)
    BY <1>1, <1>3 DEF PairedAfterHead
  <2>2. a.tier # "stub"
    BY <1>1, <1>3, <2>1
  <2>3. a \in D
    BY <1>1, <2>1, <2>2
  <2> QED
    BY <1>1, <2>1, <2>3, FollowsInPart
<1>4. ASSUME NEW a \in D, a.role = "assistant"
      PROVE  \/ \A x \in D : x.id >= a.id
             \/ \E u \in D : u.role = "user" /\ u.id = a.turn /\ Follows(D, u, a)
  <2>1. CASE \A x \in W : x.id >= a.id
    BY <1>1, <2>1
  <2>2. CASE ~(\A x \in W : x.id >= a.id)
    <3>1. PICK u \in W : u.role = "user" /\ u.id = a.turn /\ Follows(W, u, a)
      BY <1>1, <1>4, <2>2 DEF PairedAfterHead
    <3>2. ASSUME NEW n \in W, n.tier = "stub", Follows(W, u, n) PROVE FALSE
      <4>1. n = a
        BY <3>1, <3>2, OneFollows
      <4> QED
        BY <1>1, <3>2, <4>1
    <3>3. u.tier # "stub"
      BY <1>2, <3>1
    <3>4. u \in D
      BY <1>1, <3>1, <3>2, <3>3
    <3>5. Follows(D, u, a)
      BY <1>1, <3>1, FollowsInPart
    <3> QED
      BY <3>1, <3>4, <3>5
  <2> QED
    BY <2>1, <2>2
<1> QED
  BY <1>3, <1>4 DEF PairedAfterHead, D

LEMMA RepairPairs ==
  ASSUME TypeOK, NEW W \in SUBSET rows, PairedAfterHead(W)
  PROVE  Paired(RepairWindow(W))
<1> DEFINE R == RepairWindow(W)
<1>1. /\ R \in SUBSET W
      /\ \A r \in W : r \in R <=>
            /\ \E u \in W : u.role = "user" /\ u.id <= r.id
            /\ r.role = "user" => \E n \in W : n.id > r.id
  BY DEF RepairWindow
<1>2. \A r \in W : r \in rows /\ r.role \in {"user", "assistant"} /\ r.id \in Nat
  BY RowFacts
<1> HIDE DEF R
<1>3. ASSUME NEW u \in R, u.role = "user"
      PROVE  \E a \in R : a.role = "assistant" /\ a.turn = u.id /\ Follows(R, u, a)
  <2>1. PICK a \in W : a.role = "assistant" /\ a.turn = u.id /\ Follows(W, u, a)
    BY <1>1, <1>3 DEF PairedAfterHead
  <2>2. u \in W /\ u.id < a.id
    BY <1>1, <2>1 DEF Follows
  <2>3. u.id <= a.id
    BY <1>2, <2>2
  <2>4. a \in R
    BY <1>1, <1>3, <2>1, <2>2, <2>3
  <2> QED
    BY <1>1, <2>1, <2>4, FollowsInPart
<1>4. ASSUME NEW a \in R, a.role # "user"
      PROVE  \E u \in R : u.role = "user" /\ u.id = a.turn /\ Follows(R, u, a)
  <2>1. a \in W /\ a.role = "assistant"
    BY <1>1, <1>2, <1>4
  <2>2. PICK v \in W : v.role = "user" /\ v.id <= a.id
    BY <1>1, <2>1
  <2>3. v.id # a.id
    BY <1>2, <2>1, <2>2, RowFacts
  <2>4. ~(v.id >= a.id)
    BY <1>2, <2>1, <2>2, <2>3
  <2>5. PICK u \in W : u.role = "user" /\ u.id = a.turn /\ Follows(W, u, a)
    BY <2>1, <2>4 DEF PairedAfterHead
  <2>6. u.id < a.id /\ u.id <= u.id /\ a.id > u.id
    BY <1>2, <2>1, <2>5 DEF Follows
  <2>7. u \in R
    BY <1>1, <2>1, <2>5, <2>6
  <2>8. Follows(R, u, a)
    BY <1>1, <2>5, FollowsInPart
  <2> QED
    BY <2>5, <2>7, <2>8
<1> QED
  BY <1>3, <1>4 DEF Paired, R

LEMMA WindowClean ==
  ASSUME NEW s, NEW n
  PROVE  /\ \A r \in History(s, n) : r.tier # "stub"
         /\ \A r \in Transcript(s) : r.tier # "stub"
  BY DEF History, Transcript, RepairWindow, DropStubPairs

\* A row newer than one of the window is in the window.
LEMMA NewestUpward ==
  ASSUME TypeOK, RoomSound, NEW E \in SUBSET rows, NEW r \in Newest(E), NEW x \in E, r.id <= x.id
  PROVE  x \in Newest(E)
<1> DEFINE over(k) == {y \in E : y.id > k}
<1>1. over(r.id) \in SUBSET rows /\ IsFiniteSet(rows)
  BY DEF RoomSound
<1>2. IsFiniteSet(over(r.id))
  BY <1>1, FS_Subset
<1>3. over(x.id) \in SUBSET over(r.id)
  BY RowFacts DEF Newest
<1>4. Cardinality(over(x.id)) <= Cardinality(over(r.id)) /\ Cardinality(over(x.id)) \in Nat
      /\ Cardinality(over(r.id)) \in Nat
  BY <1>2, <1>3, PartCount
<1>5. Cardinality(over(r.id)) < HistoryRows
  BY DEF Newest
<1> HIDE DEF over
<1>6. Cardinality(over(x.id)) < HistoryRows
  BY <1>4, <1>5, ChatBounds
<1> QED
  BY <1>6 DEF Newest, over

\* In an undisturbed conversation, what precedes the question of a turn: every
\* question with its answer right behind it, and a reply without its question
\* only at the head.
LEMMA EarlierPaired ==
  ASSUME TypeOK, AnswerSound, SessionSound, QuestionKept,
         NEW w \in InFlight, turn[w].session \in Sessions, turn[w].session \notin disturbed
  PROVE  PairedAfterHead(Earlier(turn[w].session, turn[w].id))
<1> DEFINE s == turn[w].session
           n == turn[w].id
           E == Earlier(s, n)
<1>1. InTurn(s) /\ w \in Workers
  BY DEF SessionSound, InFlight
<1>2. /\ \A r \in rows : r \in E <=> r.session = s /\ r.id < n
      /\ E \in SUBSET rows /\ n \in Nat
  <2>1. turn[w].id \in 0 .. lastId /\ lastId \in Nat
    BY <1>1, TurnFacts, RowFacts
  <2>2. n \in Nat
    BY <2>1
  <2> QED
    BY <2>2 DEF Earlier
<1> HIDE DEF E
<1>3. ASSUME NEW u \in E, u.role = "user"
      PROVE  \E a \in E : a.role = "assistant" /\ a.turn = u.id /\ Follows(E, u, a)
  <2>1. u \in rows /\ u.session = s /\ u.id < n
    BY <1>2
  <2>2. u.id \notin lost
    BY <2>1 DEF AnswerSound
  <2>3. ASSUME NEW v \in InFlight, turn[v].id = u.id PROVE FALSE
    <3>1. turn[v].session = s
      BY <2>1, <2>3 DEF AnswerSound, InFlight
    <3>2. v = w
      BY <1>1, <3>1 DEF InTurn, OneTurn
    <3> QED
      BY <1>2, <2>1, <2>3, <3>2, RowFacts
  <2>4. PICK a \in rows : a.role = "assistant" /\ a.turn = u.id
    BY <1>3, <2>1, <2>2, <2>3 DEF QuestionKept
  <2>5. a.session = s
    BY <2>1, <2>4 DEF AnswerSound
  <2>6. a.id <= n
    BY <1>1, <2>5 DEF InTurn
  <2>7. a.id # n
    BY <1>1, <2>4 DEF AnswerSound
  <2>8. a.id \in Nat /\ u.id \in Nat /\ a.turn <= a.id /\ a.turn # a.id
    BY <2>1, <2>4, RowFacts
  <2>9. a \in E /\ u.id < a.id
    BY <1>2, <2>4, <2>5, <2>6, <2>7, <2>8
  <2>10. \A x \in E : ~(u.id < x.id /\ x.id < a.id)
    <3> SUFFICES ASSUME NEW x \in E, u.id < x.id, x.id < a.id PROVE FALSE
      OBVIOUS
    <3>1. x \in rows /\ x.session = s /\ x.id \in Nat
      BY <1>2, RowFacts
    <3>2. x.id <= a.turn
      BY <1>1, <2>4, <2>5, <3>1 DEF InTurn
    <3> QED
      BY <2>4, <2>8, <3>1, <3>2
  <2> QED
    BY <2>4, <2>9, <2>10 DEF Follows
<1>4. ASSUME NEW a \in E, a.role = "assistant"
      PROVE  \/ \A x \in E : x.id >= a.id
             \/ \E u \in E : u.role = "user" /\ u.id = a.turn /\ Follows(E, u, a)
  <2> SUFFICES ASSUME NEW y \in E, ~(y.id >= a.id)
               PROVE  \E u \in E : u.role = "user" /\ u.id = a.turn /\ Follows(E, u, a)
    OBVIOUS
  <2>1. /\ a \in rows /\ a.session = s /\ a.id \in Nat /\ a.id < n
        /\ a.turn <= a.id /\ a.turn # a.id /\ a.turn \in Nat
    BY <1>2, <1>4, RowFacts
  <2>2. y \in rows /\ y.session = s /\ y.id < a.id
    BY <1>2, <2>1, RowFacts
  <2>3. HasQuestion(a.turn)
    BY <1>1, <1>4, <2>1, <2>2 DEF InTurn
  <2>4. PICK u \in rows : u.id = a.turn /\ u.role = "user"
    BY <2>3 DEF HasQuestion
  <2>5. u.session = s /\ u.id < a.id /\ u.id < n
    BY <1>2, <2>1, <2>4 DEF AnswerSound
  <2>6. u \in E
    BY <1>2, <2>4, <2>5
  <2>7. \A x \in E : ~(u.id < x.id /\ x.id < a.id)
    <3> SUFFICES ASSUME NEW x \in E, u.id < x.id, x.id < a.id PROVE FALSE
      OBVIOUS
    <3>1. x \in rows /\ x.session = s /\ x.id \in Nat
      BY <1>2, RowFacts
    <3>2. x.id <= a.turn
      BY <1>1, <1>4, <2>1, <3>1 DEF InTurn
    <3> QED
      BY <2>1, <2>4, <3>1, <3>2
  <2> QED
    BY <2>4, <2>5, <2>6, <2>7 DEF Follows
<1> QED
  BY <1>3, <1>4 DEF PairedAfterHead, E

LEMMA NewestKeepsPairs ==
  ASSUME TypeOK, RoomSound, NEW E \in SUBSET rows, PairedAfterHead(E)
  PROVE  PairedAfterHead(Newest(E)) /\ Newest(E) \in SUBSET rows
<1> DEFINE W == Newest(E)
<1>1. W \in SUBSET E
  BY DEF Newest
<1>2. \A r \in W, x \in E : r.id <= x.id => x \in W
  BY NewestUpward
<1> HIDE DEF W
<1>3. ASSUME NEW u \in W, u.role = "user"
      PROVE  \E a \in W : a.role = "assistant" /\ a.turn = u.id /\ Follows(W, u, a)
  <2>1. PICK a \in E : a.role = "assistant" /\ a.turn = u.id /\ Follows(E, u, a)
    BY <1>1, <1>3 DEF PairedAfterHead
  <2>2. u.id <= a.id
    BY <1>1, <2>1, RowFacts DEF Follows
  <2>3. a \in W
    BY <1>2, <2>2
  <2> QED
    BY <1>1, <2>1, <2>3, FollowsInPart
<1>4. ASSUME NEW a \in W, a.role = "assistant"
      PROVE  \/ \A x \in W : x.id >= a.id
             \/ \E u \in W : u.role = "user" /\ u.id = a.turn /\ Follows(W, u, a)
  <2> SUFFICES ASSUME NEW y \in W, ~(y.id >= a.id)
               PROVE  \E u \in W : u.role = "user" /\ u.id = a.turn /\ Follows(W, u, a)
    OBVIOUS
  <2>1. PICK u \in E : u.role = "user" /\ u.id = a.turn /\ Follows(E, u, a)
    BY <1>1, <1>4 DEF PairedAfterHead
  <2>2. y \in E /\ ~(u.id < y.id /\ y.id < a.id)
    BY <1>1, <2>1 DEF Follows
  <2>3. y.id <= u.id
    BY <1>1, <2>1, <2>2, RowFacts
  <2>4. u \in W
    BY <1>2, <2>3
  <2> QED
    BY <1>1, <2>1, <2>4, FollowsInPart
<1> QED
  BY <1>1, <1>3, <1>4 DEF PairedAfterHead, W

\* _load_history: if it comes back empty, the window was stub replies to its questions.
LEMMA EmptyHistory ==
  ASSUME TypeOK, AnswerSound, RoomSound, SessionSound, QuestionKept,
         NEW w \in InFlight, turn[w].session \in Sessions, turn[w].session \notin disturbed,
         History(turn[w].session, turn[w].id) = {}
  PROVE  OnlyStubs(turn[w].session, turn[w].id)
<1> DEFINE E == Earlier(turn[w].session, turn[w].id)
           W == Newest(E)
           D == DropStubPairs(W)
<1>1. W \in SUBSET rows /\ PairedAfterHead(W)
  <2>1. E \in SUBSET rows /\ PairedAfterHead(E)
    BY EarlierPaired DEF Earlier
  <2> HIDE DEF E
  <2> QED
    BY <2>1, NewestKeepsPairs
<1>2. RepairWindow(D) = {}
  BY DEF History
<1> SUFFICES ASSUME NEW u \in W, u.role = "user"
             PROVE  \E a \in W : a.tier = "stub" /\ a.turn = u.id
  BY DEF OnlyStubs
<1> HIDE DEF W
<1>3. PICK a \in W : a.role = "assistant" /\ a.turn = u.id /\ Follows(W, u, a)
  BY <1>1 DEF PairedAfterHead
<1>4. /\ u \in rows /\ a \in rows /\ u.id \in Nat /\ a.id \in Nat /\ u.id < a.id
      /\ u.tier = "none"
  BY <1>1, <1>3, RowFacts DEF Follows
<1>5. CASE a.tier # "stub"
  <2>1. ~\E n \in W : n.tier = "stub" /\ Follows(W, u, n)
    BY <1>1, <1>3, <1>5, OneFollows
  <2>2. u \in D /\ a \in D
    BY <1>3, <1>4, <1>5, <2>1 DEF DropStubPairs
  <2>3. u.id <= a.id
    BY <1>4
  <2>4. a \in RepairWindow(D)
    BY <1>3, <2>2, <2>3 DEF RepairWindow
  <2> QED
    BY <1>2, <2>4
<1> QED
  BY <1>3, <1>5

LEMMA HistoryPairs ==
  ASSUME TypeOK, AnswerSound, RoomSound, SessionSound, QuestionKept,
         NEW w \in InFlight, turn[w].session \in Sessions, turn[w].session \notin disturbed
  PROVE  Paired(History(turn[w].session, turn[w].id))
<1> DEFINE E == Earlier(turn[w].session, turn[w].id)
<1>1. E \in SUBSET rows /\ PairedAfterHead(E)
  BY EarlierPaired DEF Earlier
<1> HIDE DEF E
<1>2. Newest(E) \in SUBSET rows /\ PairedAfterHead(Newest(E))
  BY <1>1, NewestKeepsPairs
<1>3. PairedAfterHead(DropStubPairs(Newest(E)))
  BY <1>2, DropKeepsPairs
<1>4. DropStubPairs(Newest(E)) \in SUBSET rows
  BY <1>2 DEF DropStubPairs
<1>5. Paired(RepairWindow(DropStubPairs(Newest(E))))
  BY <1>3, <1>4, RepairPairs
<1> QED
  BY <1>5 DEF History, E

\* save_chat_message_as_brief: the question right before a reply is its own.
LEMMA PrecedingIsOwn ==
  ASSUME TypeOK, AnswerSound, SessionSound,
         NEW a \in rows, a.tier = "llm", a.session \notin disturbed
  PROVE  Preceding(a) \in {0, a.turn}
<1>1. /\ a.session \in Sessions /\ a.role \in {"user", "assistant"} /\ a.id \in Nat
      /\ a.role = "user" => a.tier = "none"
      /\ a.turn \in Nat /\ a.turn <= a.id /\ (a.role = "user" <=> a.turn = a.id)
  BY RowFacts
<1>2. a.role = "assistant" /\ InTurn(a.session) /\ a.turn < a.id
  BY <1>1 DEF SessionSound
<1> SUFFICES ASSUME Preceding(a) # 0 PROVE Preceding(a) = a.turn
  OBVIOUS
<1>3. PICK u \in Earlier(a.session, a.id) : u.role = "user" /\ u.id = Preceding(a)
  BY PrecedingType
<1>4. u \in rows /\ u.session = a.session /\ u.id < a.id /\ u.id \in Nat
  BY <1>3, RowFacts DEF Earlier
<1>5. u.id <= a.turn /\ HasQuestion(a.turn)
  BY <1>2, <1>4 DEF InTurn
<1>6. PICK v \in rows : v.id = a.turn /\ v.role = "user"
  BY <1>5 DEF HasQuestion
<1>7. v.session = a.session
  BY <1>6 DEF AnswerSound
<1>8. v \in Earlier(a.session, a.id)
  BY <1>2, <1>6, <1>7 DEF Earlier
<1>9. v.id <= Preceding(a)
  BY <1>6, <1>8, PrecedingType
<1> QED
  BY <1>1, <1>3, <1>4, <1>5, <1>6, <1>9

-----------------------------------------------------------------------------
(***************************************************************************)
(* The moves and what was read.                                            *)
(***************************************************************************)
LEMMA MoveKeepsSeen ==
  ASSUME TypeOK, TurnSound, AnswerSound, RoomSound, SessionSound, QuestionKept, SeenSound,
         NEW w \in Workers, Moves(w)
  PROVE  SeenSound'
<1>0. /\ turn \in [Workers -> Turn] /\ SoundTurn(turn[w]) /\ SoundSeen(turn[w])
      /\ SoundSeen(NoTurn)
  BY DEF TypeOK, TurnSound, SeenSound, SoundSeen, NoTurn
<1>1. ASSUME NEW s \in Sessions, NEW q \in Questions, Sends(w, s, q)
      PROVE  SoundSeen(turn'[w])
  BY <1>0, <1>1, EffectOfSend DEF IsTurn, SoundSeen
<1>2. ASSUME CheckRate(w) PROVE SoundSeen(turn'[w])
  BY <1>0, <1>2, EffectOfRate DEF CheckRate, IsTurn, SoundSeen
<1>3. ASSUME CheckBudget(w) PROVE SoundSeen(turn'[w])
  BY <1>0, <1>3, EffectOfBudget DEF CheckBudget, IsTurn, SoundSeen
<1>4. ASSUME LoadHistory(w) PROVE SoundSeen(turn'[w])
  <2>1. CASE ~key
    BY <2>1, <1>4, EffectOfLoad DEF IsTurn, SoundSeen
  <2>2. CASE key
    <3>1. w \in InFlight /\ turn[w].session \in Sessions
      BY <1>0, <1>4 DEF LoadHistory, SoundTurn, InFlight, Unasked
    <3>2. turn[w].session \notin disturbed => Paired(History(turn[w].session, turn[w].id))
      BY <3>1, HistoryPairs
    <3> QED
      BY <2>2, <3>2, <1>4, EffectOfLoad, WindowClean DEF IsTurn, SoundSeen
  <2> QED
    BY <2>1, <2>2
<1>5. ASSUME CacheHit(w) PROVE SoundSeen(turn'[w])
  BY <1>0, <1>5, EffectOfHit DEF CacheHit, IsTurn, SoundSeen
<1>6. ASSUME CacheMiss(w) PROVE SoundSeen(turn'[w])
  BY <1>0, <1>6, EffectOfMiss DEF CacheMiss, IsTurn, SoundSeen
<1>7. ASSUME NEW whole \in BOOLEAN, Reply(w, whole)
      PROVE  SoundSeen(turn'[w])
  BY <1>0, <1>7, EffectOfReply DEF Reply, IsTurn, SoundSeen
<1>8. ASSUME ReplyFails(w) PROVE SoundSeen(turn'[w])
  BY <1>0, <1>8, EffectOfFailure DEF ReplyFails, IsTurn, SoundSeen
<1>9. ASSUME CacheStore(w) PROVE SoundSeen(turn'[w])
  BY <1>0, <1>9, EffectOfStore DEF CacheStore, IsTurn, SoundSeen
<1>10. ASSUME StubReply(w) PROVE SoundSeen(turn'[w])
  BY <1>0, <1>10, EffectOfStub DEF StubReply, IsTurn, SoundSeen
<1>11. ASSUME NEW s \in Sessions, Report(w, s)
       PROVE  SoundSeen(turn'[w])
  BY ZenonT(40), <1>11, EffectOfReport, WindowClean DEF IsTurn, SoundSeen
<1>12. ASSUME ReportEnds(w) PROVE SoundSeen(turn'[w])
  BY <1>0, <1>12 DEF ReportEnds
<1>13. SoundSeen(turn'[w])
  BY <1>1, <1>2, <1>3, <1>4, <1>5, <1>6, <1>7, <1>8, <1>9, <1>10, <1>11, <1>12 DEF Moves
<1>14. disturbed' = disturbed /\ \A v \in Workers \ {w} : turn'[v] = turn[v]
  BY MoveFrame
<1> QED
  BY <1>13, <1>14 DEF SeenSound, SoundSeen

LEMMA MoveKeepsCached ==
  ASSUME TypeOK, TurnSound, AnswerSound, RoomSound, SessionSound, QuestionKept, CacheSound,
         NEW w \in Workers, Moves(w)
  PROVE  CacheSound'
<1>0. /\ turn \in [Workers -> Turn] /\ SoundTurn(turn[w]) /\ SoundCached(turn[w])
      /\ SoundCached(NoTurn)
  BY DEF TypeOK, TurnSound, CacheSound, SoundCached, NoTurn
<1>1. ASSUME NEW s \in Sessions, NEW q \in Questions, Sends(w, s, q)
      PROVE  SoundCached(turn'[w])
  BY <1>0, <1>1, EffectOfSend DEF IsTurn, SoundCached, SoundTurn
<1>2. ASSUME CheckRate(w) PROVE SoundCached(turn'[w])
  BY <1>0, <1>2, EffectOfRate DEF CheckRate, IsTurn, SoundCached, SoundTurn
<1>3. ASSUME CheckBudget(w) PROVE SoundCached(turn'[w])
  BY <1>0, <1>3, EffectOfBudget DEF CheckBudget, IsTurn, SoundCached, SoundTurn
<1>4. ASSUME LoadHistory(w) PROVE SoundCached(turn'[w])
  <2>1. CASE ~key
    BY <1>0, <2>1, <1>4, EffectOfLoad DEF IsTurn, SoundCached, SoundTurn, LoadHistory
  <2>2. CASE key
    <3>1. w \in InFlight /\ turn[w].session \in Sessions /\ turn[w].tier # "cached"
      BY <1>0, <1>4 DEF LoadHistory, SoundTurn, InFlight, Unasked
    <3>2. IsTurn(turn'[w], "lookup", turn[w].session, turn[w].q, turn[w].id, turn[w].over,
                 History(turn[w].session, turn[w].id), turn[w].tier, turn[w].paid)
      BY <2>2, <1>4, EffectOfLoad
    <3>3. turn[w].session \notin disturbed /\ FirstTurn(turn'[w])
          => OnlyStubs(turn[w].session, turn[w].id)
      BY <3>1, <3>2, EmptyHistory DEF IsTurn, FirstTurn
    <3> QED
      BY <3>1, <3>2, <3>3 DEF IsTurn, SoundCached
  <2> QED
    BY <2>1, <2>2
<1>5. ASSUME CacheHit(w) PROVE SoundCached(turn'[w])
  BY <1>0, <1>5, EffectOfHit DEF CacheHit, IsTurn, SoundCached, SoundTurn
<1>6. ASSUME CacheMiss(w) PROVE SoundCached(turn'[w])
  BY <1>0, <1>6, EffectOfMiss DEF CacheMiss, IsTurn, SoundCached, SoundTurn
<1>7. ASSUME NEW whole \in BOOLEAN, Reply(w, whole)
      PROVE  SoundCached(turn'[w])
  BY <1>0, <1>7, EffectOfReply DEF Reply, IsTurn, SoundCached, SoundTurn
<1>8. ASSUME ReplyFails(w) PROVE SoundCached(turn'[w])
  BY <1>0, <1>8, EffectOfFailure DEF ReplyFails, IsTurn, SoundCached, SoundTurn
<1>9. ASSUME CacheStore(w) PROVE SoundCached(turn'[w])
  BY <1>0, <1>9, EffectOfStore DEF CacheStore, IsTurn, SoundCached, SoundTurn
<1>10. ASSUME StubReply(w) PROVE SoundCached(turn'[w])
  BY <1>0, <1>10, EffectOfStub DEF StubReply, IsTurn, SoundCached, SoundTurn
<1>11. ASSUME NEW s \in Sessions, Report(w, s)
       PROVE  SoundCached(turn'[w])
  BY <1>0, <1>11, EffectOfReport DEF IsTurn, SoundCached, SoundTurn
<1>12. ASSUME ReportEnds(w) PROVE SoundCached(turn'[w])
  BY <1>0, <1>12 DEF ReportEnds
<1>13. SoundCached(turn'[w])
  BY <1>1, <1>2, <1>3, <1>4, <1>5, <1>6, <1>7, <1>8, <1>9, <1>10, <1>11, <1>12 DEF Moves
<1>14. /\ rows' = rows /\ disturbed' = disturbed
       /\ \A v \in Workers \ {w} : turn'[v] = turn[v]
  BY MoveFrame
<1>15. \A v \in Workers : SoundCached(turn'[v])
  BY <1>13, <1>14 DEF CacheSound
<1>16. ASSUME NEW v \in Workers PROVE SoundCached(turn[v])'
  <2>1. ASSUME NEW s, NEW n, turn'[v].session = s, turn'[v].id = n
        PROVE  SoundCached(turn[v])'
    <3>1. OnlyStubs(s, n)' <=> OnlyStubs(s, n)
      BY <1>14 DEF OnlyStubs, Newest, Earlier
    <3>2. /\ turn'[v].session \notin disturbed
          /\ turn'[v].tier = "cached" \/ (turn'[v].pc = "lookup" /\ turn'[v].seen = {})
          => OnlyStubs(s, n)
      BY <1>15, <2>1 DEF SoundCached, FirstTurn
    <3>3. OnlyStubs(s, n)' => OnlyStubs(turn[v].session, turn[v].id)'
      BY <2>1 DEF OnlyStubs, Newest, Earlier
    <3> QED
      BY <1>14, <3>1, <3>2, <3>3 DEF SoundCached, FirstTurn
  <2> QED
    BY <2>1
<1> QED
  BY <1>16 DEF CacheSound

LEMMA MoveKeepsBrief ==
  ASSUME TypeOK, TurnSound, BriefSound, NEW w \in Workers, Moves(w)
  PROVE  BriefSound'
<1>1. disturbed' = disturbed
  BY MoveFrame
<1>2. ASSUME NEW b \in briefs' PROVE b \in briefs \/ b.of = 0
  <2>1. \/ briefs' = briefs
        \/ briefs' = briefs \cup {[session |-> turn[w].session, of |-> 0,
                                 title |-> Opening(turn[w].seen)]}
    BY DEF Moves, Sends, Send, CheckRate, CheckBudget, LoadHistory, CacheHit, CacheMiss, Reply,
           ReplyFails, CacheStore, StubReply, Report, ReportEnds, FileBrief
  <2> QED
    BY <1>2, <2>1
<1> QED
  BY <1>1, <1>2 DEF BriefSound

LEMMA MoveKeepsType ==
  ASSUME TypeOK, TurnSound, NEW w \in Workers, Moves(w)
  PROVE  TypeOK'
<1>1. /\ rows' = rows /\ lastId' = lastId /\ lost' = lost /\ disturbed' = disturbed
      /\ minute' = minute /\ day' = day /\ key' = key
  BY MoveFrame
<1>2. faults' = faults /\ turn' \in [Workers -> Turn]
  BY MovesQuiet DEF Quiet
<1>3. cache' \subseteq Questions
  <2>1. CASE CacheStore(w)
    <3>1. turn[w].q \in Questions
      BY <2>1 DEF CacheStore, TurnSound, SoundTurn
    <3> QED
      BY <2>1, <3>1 DEF CacheStore, TypeOK
  <2>2. CASE ~CacheStore(w)
    <3>1. cache' = cache
      BY <2>2 DEF Moves, Sends, Send, CheckRate, CheckBudget, LoadHistory, CacheHit, CacheMiss,
             Reply, ReplyFails, StubReply, Report, ReportEnds
    <3> QED
      BY <3>1 DEF TypeOK
  <2> QED
    BY <2>1, <2>2
<1>4. /\ briefs' \subseteq [session : Sessions, title : 0 .. lastId, of : 0 .. lastId]
      /\ admin' \in 0 .. MaxAdmin
  <2>1. CASE ReportEnds(w) /\ ~UNCHANGED <<briefs, admin>>
    <3>1. turn[w].session \in Sessions
      BY <2>1 DEF ReportEnds, TurnSound, SoundTurn
    <3>2. Opening(turn[w].seen) \in 0 .. lastId /\ 0 \in 0 .. lastId
      BY OpeningType, RowFacts
    <3>3. FileBrief([session |-> turn[w].session, of |-> 0, title |-> Opening(turn[w].seen)])
      BY <2>1 DEF ReportEnds
    <3>4. admin' \in 0 .. MaxAdmin
      BY <3>3, ChatBounds DEF FileBrief, TypeOK
    <3> QED
      BY <3>1, <3>2, <3>3, <3>4 DEF FileBrief, TypeOK
  <2>2. CASE ~(ReportEnds(w) /\ ~UNCHANGED <<briefs, admin>>)
    <3>1. briefs' = briefs /\ admin' = admin
      BY <2>2 DEF Moves, Sends, Send, CheckRate, CheckBudget, LoadHistory, CacheHit, CacheMiss,
             Reply, ReplyFails, CacheStore, StubReply, Report
    <3> QED
      BY <3>1 DEF TypeOK
  <2> QED
    BY <2>1, <2>2
<1>5. Row' = Row /\ Turn' = Turn
  BY <1>1 DEF Row, Turn
<1> QED
  BY <1>1, <1>2, <1>3, <1>4, <1>5 DEF TypeOK

LEMMA MoveKeepsInv ==
  ASSUME IInv, NEW w \in Workers, Moves(w)
  PROVE  IInv'
<1>1. AnswerSound' /\ RoomSound' /\ SessionSound' /\ QuestionKept'
  BY MoveKeepsRows DEF IInv
<1>2. TypeOK' /\ TurnSound'
  BY MoveKeepsType, MoveKeepsSound DEF IInv
<1>3. RateSound' /\ BudgetSound'
  BY <1>1, MoveKeepsRate, MoveKeepsBudget DEF IInv
<1>4. SeenSound' /\ CacheSound' /\ BriefSound'
  BY MoveKeepsSeen, MoveKeepsCached, MoveKeepsBrief DEF IInv
<1> QED
  BY <1>1, <1>2, <1>3, <1>4 DEF IInv

-----------------------------------------------------------------------------
(***************************************************************************)
(* The statements that write rows.                                         *)
(***************************************************************************)
\* What an INSERT leaves as it is.
LEMMA InsertFrame ==
  ASSUME TypeOK, NEW row, InsertMessage(row), row.id = lastId + 1, NEW n \in 0 .. lastId, NEW s
  PROVE  /\ lastId' = lastId + 1 /\ rows' = rows \cup {row}
         /\ \A r \in rows : r.id < row.id /\ r.turn < row.id /\ r # row
         /\ Earlier(s, n)' = Earlier(s, n)
<1>1. lastId' = lastId + 1 /\ rows' = rows \cup {row}
  BY DEF InsertMessage
<1>2. \A r \in rows : r.id \in Nat /\ r.turn \in Nat /\ r.id <= lastId /\ r.turn <= lastId
  BY RowFacts
<1>3. lastId \in Nat /\ n \in Nat /\ n <= lastId
  BY RowFacts
<1>4. \A r \in rows : r.id < row.id /\ r.turn < row.id
  BY <1>2, <1>3
<1>5. ~(row.id < n)
  BY <1>3
<1>6. Earlier(s, n)' = Earlier(s, n)
  BY <1>1, <1>5 DEF Earlier
<1> QED
  BY <1>1, <1>2, <1>4, <1>6

LEMMA InsertTypes ==
  ASSUME TypeOK, NEW row, InsertMessage(row), row.id = lastId + 1,
         row \in [id : 1 .. lastId + 1, session : Sessions, role : {"user", "assistant"},
                  tier : {"none", "stub", "llm"}, paid : BOOLEAN, turn : 1 .. lastId + 1],
         row.role = "user" <=> row.turn = row.id,
         row.role = "user" => row.tier = "none",
         row.paid => row.tier = "llm",
         lastId + 1 <= MaxId, UNCHANGED <<key, minute, day, cache, briefs, admin, faults, lost>>,
         disturbed' \subseteq Sessions, turn' \in [Workers -> Turn']
  PROVE  TypeOK'
<1>1. /\ lastId' = lastId + 1 /\ rows' = rows \cup {row}
      /\ \A r \in rows : r.id < row.id /\ r # row
  BY RowFacts, InsertFrame
<1>2. lastId \in Nat /\ MaxId \in Nat
  BY RowFacts, ChatBounds
<1>3. Row \subseteq Row' /\ row \in Row'
  BY <1>1, <1>2 DEF Row
<1>4. rows' \subseteq Row'
  BY <1>1, <1>3 DEF TypeOK
<1>5. \A r, x \in rows' : r.id = x.id => r = x
  <2>1. \A r \in rows : r.id \in Nat /\ r.id # row.id
    BY <1>1, RowFacts
  <2> QED
    BY <1>1, <2>1 DEF TypeOK
<1>6. row.turn <= row.id
  BY <1>2
<1>7. \A r \in rows' : /\ r.turn <= r.id
                       /\ r.role = "user" <=> r.turn = r.id
                       /\ r.role = "user" => r.tier = "none"
                       /\ r.paid => r.tier = "llm"
  BY <1>1, <1>6 DEF TypeOK
<1>8. lastId' \in 0 .. MaxId
  BY <1>1, <1>2
<1>9. minute' \in day' .. lastId' /\ day' \in 0 .. lastId' /\ lost' \subseteq 1 .. lastId'
  BY <1>1, <1>2 DEF TypeOK
<1>10. briefs' \subseteq [session : Sessions, title : 0 .. lastId', of : 0 .. lastId']
  BY <1>1, <1>2 DEF TypeOK
<1> QED
  BY <1>4, <1>5, <1>7, <1>8, <1>9, <1>10 DEF TypeOK

\* The row of a question.
QuestionRow(w) == [id |-> lastId + 1, session |-> turn[w].session, role |-> "user", tier |-> "none",
                   paid |-> FALSE, turn |-> lastId + 1]

LEMMA AskFacts ==
  ASSUME TypeOK, TurnSound, RoomSound, NEW w \in Workers, Ask(w)
  PROVE  /\ turn[w].id = 0 /\ turn[w].session \in Sessions /\ turn[w].pc = "ask"
         /\ lastId + Cardinality(InFlight) + 2 <= MaxId
         /\ InsertMessage(QuestionRow(w)) /\ QuestionRow(w).id = lastId + 1
         /\ lastId' = lastId + 1 /\ rows' = rows \cup {QuestionRow(w)}
         /\ turn'[w].pc = "load" /\ turn'[w].id = lastId + 1
         /\ turn'[w].session = turn[w].session /\ turn'[w].q = turn[w].q
         /\ turn'[w].seen = turn[w].seen /\ turn'[w].tier = turn[w].tier
         /\ turn'[w].over = turn[w].over /\ turn'[w].paid = turn[w].paid
         /\ turn' = [turn EXCEPT ![w] = turn'[w]]
         /\ \A v \in Workers \ {w} : turn'[v] = turn[v]
         /\ disturbed \subseteq disturbed' /\ disturbed' \subseteq disturbed \cup {turn[w].session}
         /\ (\E v \in InFlight : turn[v].session = turn[w].session)
              => turn[w].session \in disturbed'
         /\ UNCHANGED <<key, minute, day, cache, briefs, admin, faults, lost>>
<1>1. turn[w].pc = "ask" /\ SoundTurn(turn[w]) /\ turn[w] \in Turn /\ turn \in [Workers -> Turn]
  BY TurnFacts DEF Ask, TurnSound, TypeOK
<1>2. turn[w].id = 0 /\ turn[w].session \in Sessions
  BY <1>1 DEF SoundTurn, Unasked
<1>3. InsertMessage(QuestionRow(w)) /\ QuestionRow(w).id = lastId + 1
  BY DEF Ask, QuestionRow
<1>4. lastId' = lastId + 1 /\ rows' = rows \cup {QuestionRow(w)}
  BY <1>3 DEF InsertMessage
<1>5. turn' = [turn EXCEPT ![w].pc = "load", ![w].id = lastId + 1]
  BY DEF Ask
<1>6. /\ turn'[w].pc = "load" /\ turn'[w].id = lastId + 1
      /\ turn'[w].session = turn[w].session /\ turn'[w].q = turn[w].q
      /\ turn'[w].seen = turn[w].seen /\ turn'[w].tier = turn[w].tier
      /\ turn'[w].over = turn[w].over /\ turn'[w].paid = turn[w].paid
  BY <1>1, <1>5 DEF Turn
<1>7. /\ \A v \in Workers \ {w} : turn'[v] = turn[v]
      /\ turn' = [turn EXCEPT ![w] = turn'[w]]
  BY <1>1, <1>5
<1>8. /\ disturbed \subseteq disturbed' /\ disturbed' \subseteq disturbed \cup {turn[w].session}
      /\ (\E v \in InFlight : turn[v].session = turn[w].session) => turn[w].session \in disturbed'
  BY DEF Ask
<1>9. /\ UNCHANGED <<key, minute, day, cache, briefs, admin, faults, lost>>
      /\ lastId + Cardinality(InFlight) + 2 <= MaxId
  BY DEF Ask, time
<1> QED
  BY <1>1, <1>2, <1>3, <1>4, <1>6, <1>7, <1>8, <1>9

LEMMA AskKeepsType ==
  ASSUME TypeOK, TurnSound, RoomSound, NEW w \in Workers, Ask(w)
  PROVE  TypeOK' /\ TurnSound'
<1> DEFINE row == QuestionRow(w)
<1>1. lastId \in Nat /\ MaxId \in Nat /\ Cardinality(InFlight) \in Nat
  BY RowFacts, CountTypes, ChatBounds
<1>2. /\ InsertMessage(row) /\ row.id = lastId + 1 /\ lastId' = lastId + 1
      /\ UNCHANGED <<key, minute, day, cache, briefs, admin, faults, lost>>
      /\ turn[w].session \in Sessions
  BY AskFacts
<1>3. /\ row \in [id : 1 .. lastId + 1, session : Sessions, role : {"user", "assistant"},
                   tier : {"none", "stub", "llm"}, paid : BOOLEAN, turn : 1 .. lastId + 1]
      /\ row.role = "user" <=> row.turn = row.id
      /\ row.role = "user" => row.tier = "none"
      /\ row.paid => row.tier = "llm"
  BY <1>1, <1>2 DEF QuestionRow
<1>4. lastId + 1 <= MaxId
  BY <1>1, AskFacts
<1>5. disturbed' \subseteq Sessions
  BY AskFacts DEF TypeOK
<1>6. turn' \in [Workers -> Turn']
  <2>1. turn[w] \in Turn /\ turn \in [Workers -> Turn]
    BY TurnFacts DEF TypeOK
  <2>2. Row \subseteq Row'
    BY <1>1, <1>2 DEF Row
  <2>3. Turn \subseteq Turn'
    BY <1>1, <1>2, <2>2 DEF Turn
  <2>4. turn[w] \in Turn' /\ turn \in [Workers -> Turn']
    BY <2>1, <2>3
  <2>5. lastId + 1 \in 0 .. lastId'
    BY <1>1, <1>2
  <2>6. turn' = [turn EXCEPT ![w].pc = "load", ![w].id = lastId + 1]
    BY DEF Ask
  <2> QED
    BY <2>4, <2>5, <2>6 DEF Turn
<1> HIDE DEF row
<1>7. TypeOK'
  BY <1>2, <1>3, <1>4, <1>5, <1>6, InsertTypes
<1>8. SoundTurn(turn'[w])
  <2>1. SoundTurn(turn[w]) /\ turn[w].pc = "ask" /\ lastId + 1 # 0
    BY <1>1, AskFacts DEF TurnSound
  <2> QED
    BY <2>1, AskFacts DEF SoundTurn, Unasked
<1>9. TurnSound'
  BY <1>8, AskFacts DEF TurnSound
<1> QED
  BY <1>7, <1>9

\* What a turn read before its question is not touched by later rows.
LEMMA InsertKeepsCached ==
  ASSUME TypeOK, NEW row, InsertMessage(row), row.id = lastId + 1, disturbed \subseteq disturbed',
         NEW v \in Workers, turn'[v] = turn[v], SoundCached(turn[v])
  PROVE  SoundCached(turn[v])'
<1>1. turn[v].id \in 0 .. lastId
  BY TurnFacts
<1>2. ASSUME NEW s, NEW n \in 0 .. lastId, OnlyStubs(s, n) PROVE OnlyStubs(s, n)'
  <2>1. Earlier(s, n)' = Earlier(s, n)
    BY InsertFrame
  <2> QED
    BY <1>2, <2>1 DEF OnlyStubs
<1>3. ASSUME NEW s, NEW n, turn[v].session = s, turn[v].id = n
      PROVE  SoundCached(turn[v])'
  <2>1. turn'[v].session = s /\ turn'[v].id = n /\ n \in 0 .. lastId
    BY <1>1, <1>3
  <2>2. OnlyStubs(s, n) => OnlyStubs(s, n)'
    BY <1>2, <2>1
  <2>3. OnlyStubs(s, n)' => OnlyStubs(turn[v].session, turn[v].id)'
    BY <2>1 DEF OnlyStubs, Newest, Earlier
  <2> QED
    BY <1>3, <2>1, <2>2, <2>3 DEF SoundCached, FirstTurn
<1> QED
  BY <1>3

LEMMA OneMore ==
  ASSUME NEW S, IsFiniteSet(S), NEW x
  PROVE  /\ IsFiniteSet(S \cup {x})
         /\ Cardinality(S \cup {x}) <= Cardinality(S) + 1
<1>1. Cardinality(S) \in Nat
  BY FS_CardinalityType
<1>2. CASE x \in S
  BY <1>1, <1>2, FS_AddElement
<1>3. CASE x \notin S
  BY <1>1, <1>3, FS_AddElement
<1> QED
  BY <1>2, <1>3

LEMMA AskKeepsRows ==
  ASSUME TypeOK, TurnSound, AnswerSound, RoomSound, SessionSound, QuestionKept,
         NEW w \in Workers, Ask(w)
  PROVE  AnswerSound' /\ RoomSound' /\ SessionSound' /\ QuestionKept'
<1> DEFINE row == QuestionRow(w)
           s == turn[w].session
<1>1. /\ lastId' = lastId + 1 /\ rows' = rows \cup {row}
      /\ turn'[w].id = lastId + 1 /\ turn'[w].session = s
      /\ turn[w].id = 0 /\ s \in Sessions
      /\ \A v \in Workers \ {w} : turn'[v] = turn[v]
      /\ lost' = lost /\ disturbed \subseteq disturbed'
      /\ disturbed' \subseteq disturbed \cup {s}
      /\ (\E v \in InFlight : turn[v].session = s) => s \in disturbed'
      /\ lastId + Cardinality(InFlight) + 2 <= MaxId
  BY AskFacts
<1>2. /\ row.id = lastId + 1 /\ row.turn = lastId + 1 /\ row.role = "user" /\ row.session = s
  BY DEF QuestionRow
<1>3. /\ lastId \in Nat /\ MaxId \in Nat
      /\ \A r \in rows : r.id \in Nat /\ r.turn \in Nat /\ r.id <= lastId /\ r.turn <= lastId
                       /\ r.id # 0 /\ r.role \in {"user", "assistant"}
      /\ \A v \in Workers : turn[v].id \in Nat /\ turn[v].id <= lastId
      /\ \A n \in lost : n \in Nat /\ n <= lastId
  <2>1. lastId \in Nat /\ MaxId \in Nat
    BY RowFacts, ChatBounds
  <2>2. \A v \in Workers : turn[v].id \in Nat /\ turn[v].id <= lastId
    <3>1. \A v \in Workers : turn[v].id \in 0 .. lastId
      BY TurnFacts
    <3> QED
      BY <2>1, <3>1
  <2>3. \A n \in lost : n \in Nat /\ n <= lastId
    BY <2>1 DEF TypeOK
  <2> QED
    BY <2>1, <2>2, <2>3, RowFacts
<1> HIDE DEF row, s
<1>4. InFlight' = InFlight \cup {w} /\ w \notin InFlight
  BY <1>1, <1>3 DEF InFlight
<1>5. AnswerSound'
  <2>1. ASSUME NEW v \in Workers, NEW r \in rows', r.id = turn'[v].id
        PROVE  r.role = "user" /\ r.session = turn'[v].session
    <3>1. CASE v = w
      <4>1. r = row
        BY <1>1, <1>2, <1>3, <2>1, <3>1
      <4> QED
        BY <1>1, <1>2, <3>1, <4>1
    <3>2. CASE v # w
      <4>1. turn'[v] = turn[v]
        BY <1>1, <3>2
      <4>2. r \in rows
        BY <1>1, <1>2, <1>3, <2>1, <4>1
      <4> QED
        BY <2>1, <4>1, <4>2 DEF AnswerSound
    <3> QED
      BY <3>1, <3>2
  <2>2. ASSUME NEW a \in rows', NEW r \in rows', a.turn = r.id
        PROVE  r.role = "user" /\ r.session = a.session
    <3>1. CASE r = row
      <4>1. a = row
        BY <1>1, <1>2, <1>3, <2>2, <3>1
      <4> QED
        BY <1>2, <3>1, <4>1
    <3>2. CASE r # row
      <4>1. r \in rows /\ a # row
        BY <1>1, <1>2, <1>3, <2>2, <3>2
      <4>2. a \in rows
        BY <1>1, <4>1
      <4> QED
        BY <2>2, <4>1, <4>2 DEF AnswerSound
    <3> QED
      BY <3>1, <3>2
  <2>3. ASSUME NEW r \in rows', r.id \in lost PROVE r.session \in disturbed'
    <3>1. r \in rows
      BY <1>1, <1>2, <1>3, <2>3
    <3> QED
      BY <1>1, <2>3, <3>1 DEF AnswerSound
  <2> QED
    BY <1>1, <2>1, <2>2, <2>3 DEF AnswerSound
<1>6. RoomSound'
  <2>1. IsFiniteSet(rows')
    BY <1>1, FS_AddElement DEF RoomSound
  <2>2. IsFiniteSet(InFlight) /\ Cardinality(InFlight) \in Nat
    BY CountTypes
  <2>3. Cardinality(InFlight') = Cardinality(InFlight) + 1
    BY <1>4, <2>2, FS_AddElement
  <2>4. lastId' + Cardinality(InFlight') <= MaxId
    BY <1>1, <1>3, <2>2, <2>3
  <2> QED
    BY <2>1, <2>4 DEF RoomSound
<1>7. ASSUME NEW z \in Sessions, z \notin disturbed' PROVE InTurn(z)'
  <2>1. InTurn(z)
    BY <1>1, <1>7 DEF SessionSound
  <2>2. z = s => \A v \in InFlight : turn[v].session # s
    BY <1>1, <1>7
  <2>3. \A v \in InFlight : v \in Workers /\ v # w /\ turn'[v] = turn[v]
    BY <1>1, <1>4 DEF InFlight
  <2>4. OneTurn(z)'
    <3>1. \A v, u \in InFlight' : turn'[v].session = z /\ turn'[u].session = z => v = u
      BY <1>1, <1>4, <2>1, <2>2, <2>3 DEF InTurn, OneTurn
    <3> QED
      BY <3>1 DEF OneTurn
  <2>5. \A n : HasQuestion(n) => HasQuestion(n)'
    BY <1>1 DEF HasQuestion
  <2>6. ASSUME NEW a \in rows', NEW x \in rows', a.session = z, x.session = z,
               a.role = "assistant", x.id < a.id
        PROVE  x.id <= a.turn /\ HasQuestion(a.turn)'
    <3>1. a \in rows
      BY <1>1, <1>2, <2>6
    <3>2. x \in rows
      BY <1>1, <1>2, <1>3, <2>6, <3>1
    <3> QED
      BY <2>1, <2>5, <2>6, <3>1, <3>2 DEF InTurn
  <2>7. ASSUME NEW v \in InFlight', NEW x \in rows', turn'[v].session = z, x.session = z
        PROVE  x.id <= turn'[v].id /\ HasQuestion(turn[v].id)'
    <3>1. CASE v = w
      <4>1. x.id <= lastId + 1
        BY <1>1, <1>2, <1>3
      <4>2. row \in rows' /\ row.id = turn'[v].id /\ row.role = "user"
        BY <1>1, <1>2, <3>1
      <4>3. HasQuestion(turn[v].id)'
        BY <4>2 DEF HasQuestion
      <4> QED
        BY <1>1, <3>1, <4>1, <4>3
    <3>2. CASE v # w
      <4>1. v \in InFlight /\ turn'[v] = turn[v]
        BY <1>1, <1>4, <2>3, <3>2
      <4>2. z # s
        BY <2>2, <2>7, <4>1
      <4>3. x \in rows
        BY <1>1, <1>2, <2>7, <4>2
      <4>4. x.id <= turn[v].id /\ HasQuestion(turn[v].id)
        BY <2>1, <2>7, <4>1, <4>3 DEF InTurn
      <4>5. HasQuestion(turn[v].id)'
        BY <1>1, <4>1, <4>4 DEF HasQuestion
      <4> QED
        BY <4>1, <4>4, <4>5
    <3> QED
      BY <3>1, <3>2
  <2> QED
    BY <2>4, <2>6, <2>7 DEF InTurn
<1>8. QuestionKept'
  <2> SUFFICES ASSUME NEW r \in rows', r.role = "user"
               PROVE  \/ r.id \in lost'
                      \/ \E v \in InFlight' : turn'[v].id = r.id
                      \/ \E a \in rows' : a.role = "assistant" /\ a.turn = r.id
    BY DEF QuestionKept
  <2>1. CASE r = row
    BY <1>1, <1>2, <1>4, <2>1
  <2>2. CASE r \in rows
    <3>1. ASSUME NEW v \in InFlight, turn[v].id = r.id
          PROVE  \E u \in InFlight' : turn'[u].id = r.id
      BY <1>1, <1>4, <3>1 DEF InFlight
    <3>2. \/ r.id \in lost
          \/ \E v \in InFlight : turn[v].id = r.id
          \/ \E a \in rows : a.role = "assistant" /\ a.turn = r.id
      BY <2>2 DEF QuestionKept
    <3> QED
      BY <1>1, <3>1, <3>2
  <2> QED
    BY <1>1, <2>1, <2>2
<1> QED
  BY <1>5, <1>6, <1>7, <1>8 DEF SessionSound

LEMMA AskKeepsCounts ==
  ASSUME TypeOK, TurnSound, RoomSound, RoomSound', RateSound, BudgetSound, NEW w \in Workers, Ask(w)
  PROVE  RateSound' /\ BudgetSound'
<1> DEFINE row == QuestionRow(w)
<1>1. /\ rows' = rows \cup {row} /\ turn[w].pc = "ask"
      /\ turn'[w].pc = "load" /\ turn'[w].session = turn[w].session
      /\ turn'[w].over = turn[w].over /\ turn'[w].paid = turn[w].paid
      /\ \A v \in Workers \ {w} : turn'[v] = turn[v]
      /\ UNCHANGED <<minute, day>>
  BY AskFacts
<1>2. row.session = turn[w].session /\ row.role = "user" /\ row.paid = FALSE
  BY DEF QuestionRow
<1> HIDE DEF row
<1>3. ASSUME NEW s \in Sessions
      PROVE  RecentUserCount(s)' + Cardinality(Passed(s)') <= Limit + Cardinality(Workers) - 1
  <2>1. /\ RecentUserCount(s) \in Nat /\ Cardinality(Passed(s)) \in Nat
        /\ RecentUserCount(s) = Cardinality(Recent(s))
        /\ Cardinality(Workers) \in Nat /\ Limit \in Nat
        /\ IsFiniteSet(Recent(s)) /\ IsFiniteSet(Passed(s))
    BY CountTypes, ChatBounds
  <2>2. RecentUserCount(s)' = Cardinality(Recent(s)')
    BY DEF RecentUserCount, Recent
  <2>3. RecentUserCount(s) + Cardinality(Passed(s)) <= Limit + Cardinality(Workers) - 1
    BY DEF RateSound
  <2>4. CASE s = turn[w].session
    <3>1. Recent(s)' \in SUBSET (Recent(s) \cup {row})
      BY <1>1 DEF Recent
    <3>2. /\ IsFiniteSet(Recent(s) \cup {row})
          /\ Cardinality(Recent(s) \cup {row}) <= Cardinality(Recent(s)) + 1
      BY <2>1, OneMore
    <3>3. /\ Cardinality(Recent(s)') <= Cardinality(Recent(s) \cup {row})
          /\ Cardinality(Recent(s)') \in Nat /\ Cardinality(Recent(s) \cup {row}) \in Nat
      BY <3>1, <3>2, PartCount
    <3>4. w \in Passed(s)
      BY <1>1, <2>4 DEF Passed
    <3>5. Passed(s)' = Passed(s) \ {w}
      BY <1>1 DEF Passed
    <3>6. Cardinality(Passed(s)') = Cardinality(Passed(s)) - 1
      BY <2>1, <3>4, <3>5, FS_RemoveElement
    <3> QED
      BY <2>1, <2>2, <2>3, <3>2, <3>3, <3>6
  <2>5. CASE s # turn[w].session
    <3>1. Recent(s)' = Recent(s)
      BY <1>1, <1>2, <2>5 DEF Recent
    <3>2. Passed(s)' = Passed(s)
      BY <1>1, <2>5 DEF Passed
    <3> QED
      BY <2>1, <2>2, <2>3, <3>1, <3>2
  <2> QED
    BY <2>4, <2>5
<1>4. BudgetSound'
  <2>1. PaidRows' = PaidRows
    BY <1>1, <1>2 DEF PaidRows
  <2>2. turn[w].over \in BOOLEAN /\ turn[w].paid \in BOOLEAN
    BY TurnFacts
  <2>3. Spends(turn'[w]) => Spends(turn[w])
    BY <1>1, <2>2 DEF Spends
  <2>4. Spending' \in SUBSET Spending
    BY <1>1, <2>3 DEF Spending
  <2>5. IsFiniteSet(Spending) /\ Cardinality(PaidRows) \in Nat
    BY CountTypes
  <2>6. /\ Cardinality(Spending') <= Cardinality(Spending)
        /\ Cardinality(Spending') \in Nat /\ Cardinality(Spending) \in Nat
    BY <2>4, <2>5, PartCount
  <2>7. Cardinality(PaidRows') + Cardinality(Spending')
        <= Cardinality(PaidRows) + Cardinality(Spending)
    BY <2>1, <2>5, <2>6
  <2> QED
    BY <2>7, BudgetFalls
<1> QED
  BY <1>3, <1>4 DEF RateSound

LEMMA AskKeepsInv ==
  ASSUME IInv, NEW w \in Workers, Ask(w)
  PROVE  IInv'
<1>1. /\ TypeOK /\ TurnSound /\ AnswerSound /\ RoomSound /\ SessionSound /\ QuestionKept
      /\ RateSound /\ BudgetSound /\ SeenSound /\ CacheSound /\ BriefSound
  BY DEF IInv
<1>2. /\ turn'[w].pc = "load" /\ turn[w].pc = "ask" /\ turn'[w].seen = turn[w].seen
      /\ turn'[w].tier = turn[w].tier
      /\ InsertMessage(QuestionRow(w)) /\ QuestionRow(w).id = lastId + 1
      /\ \A v \in Workers \ {w} : turn'[v] = turn[v]
      /\ disturbed \subseteq disturbed' /\ briefs' = briefs
  BY <1>1, AskFacts
<1>3. SeenSound'
  <2>1. ASSUME NEW v \in Workers PROVE SoundSeen(turn[v])'
    <3>1. SoundSeen(turn[v])
      BY <1>1 DEF SeenSound
    <3>2. /\ turn'[v].seen = turn[v].seen
          /\ turn'[v].pc \in {"lookup", "model"} =>
                turn'[v].pc = turn[v].pc /\ turn'[v].session = turn[v].session
      BY <1>2
    <3> QED
      BY <1>2, <3>1, <3>2 DEF SoundSeen
  <2> QED
    BY <2>1 DEF SeenSound
<1>4. CacheSound'
  <2>1. ASSUME NEW v \in Workers PROVE SoundCached(turn[v])'
    <3>1. CASE v = w
      <4>1. turn'[w].tier # "cached"
        BY <1>1, <1>2 DEF TurnSound, SoundTurn
      <4> QED
        BY <1>2, <3>1, <4>1 DEF SoundCached
    <3>2. CASE v # w
      <4>1. SoundCached(turn[v]) /\ turn'[v] = turn[v]
        BY <1>1, <1>2, <3>2 DEF CacheSound
      <4> QED
        BY <1>1, <1>2, <4>1, InsertKeepsCached
    <3> QED
      BY <3>1, <3>2
  <2> QED
    BY <2>1 DEF CacheSound
<1>5. BriefSound'
  BY <1>1, <1>2 DEF BriefSound
<1> QED
  BY <1>1, <1>3, <1>4, <1>5, AskKeepsType, AskKeepsRows, AskKeepsCounts DEF IInv

\* The row of an answer.
AnswerRow(w) == [id |-> lastId + 1, session |-> turn[w].session, role |-> "assistant",
                 tier |-> IF turn[w].tier = "stub" THEN "stub" ELSE "llm",
                 paid |-> turn[w].paid, turn |-> turn[w].id]

LEMMA AnswerFacts ==
  ASSUME TypeOK, TurnSound, NEW w \in Workers, Answer(w)
  PROVE  /\ turn[w].id # 0 /\ w \in InFlight /\ turn[w].session \in Sessions
         /\ turn[w].pc = "answer" /\ (turn[w].paid => turn[w].tier = "llm")
         /\ InsertMessage(AnswerRow(w)) /\ AnswerRow(w).id = lastId + 1
         /\ lastId' = lastId + 1 /\ rows' = rows \cup {AnswerRow(w)}
         /\ turn' = [turn EXCEPT ![w] = NoTurn] /\ turn'[w] = NoTurn
         /\ \A v \in Workers \ {w} : turn'[v] = turn[v]
         /\ UNCHANGED <<key, minute, day, cache, briefs, admin, faults, lost, disturbed>>
<1>1. turn[w].pc = "answer" /\ SoundTurn(turn[w]) /\ turn \in [Workers -> Turn]
  BY DEF Answer, TurnSound, TypeOK
<1>2. turn[w].id # 0 /\ w \in InFlight /\ turn[w].session \in Sessions
  BY <1>1 DEF SoundTurn, Unasked, InFlight
<1>3. turn[w].paid => turn[w].tier = "llm"
  BY <1>1 DEF SoundTurn
<1>4. InsertMessage(AnswerRow(w)) /\ AnswerRow(w).id = lastId + 1
  BY DEF Answer, AnswerRow
<1>5. lastId' = lastId + 1 /\ rows' = rows \cup {AnswerRow(w)}
  BY <1>4 DEF InsertMessage
<1>6. /\ turn' = [turn EXCEPT ![w] = NoTurn] /\ turn'[w] = NoTurn
      /\ \A v \in Workers \ {w} : turn'[v] = turn[v]
  BY <1>1 DEF Answer
<1>7. UNCHANGED <<key, minute, day, cache, briefs, admin, faults, lost, disturbed>>
  BY DEF Answer, time, past
<1> QED
  BY <1>1, <1>2, <1>3, <1>4, <1>5, <1>6, <1>7

LEMMA AnswerKeepsType ==
  ASSUME TypeOK, TurnSound, RoomSound, NEW w \in Workers, Answer(w)
  PROVE  TypeOK' /\ TurnSound'
<1> DEFINE row == AnswerRow(w)
<1>1. lastId \in Nat /\ MaxId \in Nat /\ Cardinality(InFlight) \in Nat
  BY RowFacts, CountTypes, ChatBounds
<1>2. /\ InsertMessage(row) /\ row.id = lastId + 1 /\ lastId' = lastId + 1
      /\ UNCHANGED <<key, minute, day, cache, briefs, admin, faults, lost, disturbed>>
      /\ turn[w].session \in Sessions /\ turn[w].id # 0
      /\ (turn[w].paid => turn[w].tier = "llm")
  BY AnswerFacts
<1>3. turn[w].id \in 1 .. lastId /\ turn[w].paid \in BOOLEAN
  <2>1. turn[w].id \in 0 .. lastId /\ turn[w].paid \in BOOLEAN
    BY TurnFacts
  <2> QED
    BY <1>1, <1>2, <2>1
<1>4. /\ row.id = lastId + 1 /\ row.session = turn[w].session /\ row.role = "assistant"
      /\ row.tier = IF turn[w].tier = "stub" THEN "stub" ELSE "llm"
      /\ row.paid = turn[w].paid /\ row.turn = turn[w].id
  BY DEF AnswerRow
<1>5. row \in [id : 1 .. lastId + 1, session : Sessions, role : {"user", "assistant"},
               tier : {"none", "stub", "llm"}, paid : BOOLEAN, turn : 1 .. lastId + 1]
  BY <1>1, <1>2, <1>3 DEF AnswerRow
<1>6. /\ row.role = "user" <=> row.turn = row.id
      /\ row.role = "user" => row.tier = "none"
  BY <1>1, <1>3, <1>4
<1>7. row.paid => row.tier = "llm"
  BY <1>2, <1>4
<1>8. lastId + 1 <= MaxId
  <2>1. Cardinality(InFlight) # 0
    BY CountTypes, AnswerFacts, FS_EmptySet
  <2> QED
    BY <1>1, <2>1 DEF RoomSound
<1>9. turn' \in [Workers -> Turn']
  <2>1. turn \in [Workers -> Turn] /\ NoTurn \in Turn
    BY NoTurnType DEF TypeOK
  <2>2. Row \subseteq Row'
    BY <1>1, <1>2 DEF Row
  <2>3. Turn \subseteq Turn'
    BY <1>1, <1>2, <2>2 DEF Turn
  <2>4. NoTurn \in Turn' /\ turn \in [Workers -> Turn']
    BY <2>1, <2>3
  <2> QED
    BY <2>4, AnswerFacts
<1>10. disturbed' \subseteq Sessions
  BY <1>2 DEF TypeOK
<1> HIDE DEF row
<1>11. TypeOK'
  BY <1>2, <1>5, <1>6, <1>7, <1>8, <1>9, <1>10, InsertTypes
<1>12. TurnSound'
  BY AnswerFacts DEF TurnSound, SoundTurn, NoTurn, Unasked
<1> QED
  BY <1>11, <1>12

LEMMA AnswerKeepsRows ==
  ASSUME TypeOK, TurnSound, AnswerSound, RoomSound, SessionSound, QuestionKept,
         NEW w \in Workers, Answer(w)
  PROVE  AnswerSound' /\ RoomSound' /\ SessionSound' /\ QuestionKept'
<1> DEFINE row == AnswerRow(w)
           s == turn[w].session
           n == turn[w].id
<1>1. /\ lastId' = lastId + 1 /\ rows' = rows \cup {row}
      /\ turn'[w].id = 0 /\ n # 0 /\ s \in Sessions /\ w \in InFlight
      /\ \A v \in Workers \ {w} : turn'[v] = turn[v]
      /\ lost' = lost /\ disturbed' = disturbed
  BY AnswerFacts DEF NoTurn
<1>2. row.id = lastId + 1 /\ row.turn = n /\ row.role = "assistant" /\ row.session = s
  BY DEF AnswerRow
<1>3. /\ lastId \in Nat /\ MaxId \in Nat
      /\ \A r \in rows : r.id \in Nat /\ r.turn \in Nat /\ r.id <= lastId /\ r.turn <= lastId
                       /\ r.id # 0 /\ r.role \in {"user", "assistant"}
      /\ \A v \in Workers : turn[v].id \in Nat /\ turn[v].id <= lastId
      /\ \A k \in lost : k \in Nat /\ k <= lastId
  <2>1. lastId \in Nat /\ MaxId \in Nat
    BY RowFacts, ChatBounds
  <2>2. \A v \in Workers : turn[v].id \in Nat /\ turn[v].id <= lastId
    <3>1. \A v \in Workers : turn[v].id \in 0 .. lastId
      BY TurnFacts
    <3> QED
      BY <2>1, <3>1
  <2>3. \A k \in lost : k \in Nat /\ k <= lastId
    BY <2>1 DEF TypeOK
  <2> QED
    BY <2>1, <2>2, <2>3, RowFacts
<1>4. n \in Nat /\ n <= lastId
  BY <1>3
<1> HIDE DEF row
<1>5. InFlight' = InFlight \ {w}
  BY <1>1 DEF InFlight
<1>6. AnswerSound'
  <2>1. ASSUME NEW v \in Workers, NEW r \in rows', r.id = turn'[v].id
        PROVE  r.role = "user" /\ r.session = turn'[v].session
    <3>1. v # w
      BY <1>1, <1>2, <1>3, <2>1
    <3>2. turn'[v] = turn[v]
      BY <1>1, <3>1
    <3>3. r \in rows
      BY <1>1, <1>2, <1>3, <2>1, <3>2
    <3> QED
      BY <2>1, <3>2, <3>3 DEF AnswerSound
  <2>2. ASSUME NEW a \in rows', NEW r \in rows', a.turn = r.id
        PROVE  r.role = "user" /\ r.session = a.session
    <3>1. r \in rows
      BY <1>1, <1>2, <1>3, <1>4, <2>2
    <3>2. CASE a = row
      BY <1>2, <2>2, <3>1, <3>2 DEF AnswerSound
    <3>3. CASE a \in rows
      BY <2>2, <3>1, <3>3 DEF AnswerSound
    <3> QED
      BY <1>1, <3>2, <3>3
  <2>3. ASSUME NEW r \in rows', r.id \in lost PROVE r.session \in disturbed
    <3>1. r \in rows
      BY <1>1, <1>2, <1>3, <2>3
    <3> QED
      BY <2>3, <3>1 DEF AnswerSound
  <2> QED
    BY <1>1, <2>1, <2>2, <2>3 DEF AnswerSound
<1>7. RoomSound'
  <2>1. IsFiniteSet(rows')
    BY <1>1, FS_AddElement DEF RoomSound
  <2>2. IsFiniteSet(InFlight) /\ Cardinality(InFlight) \in Nat
    BY CountTypes
  <2>3. Cardinality(InFlight') = Cardinality(InFlight) - 1
    BY <1>1, <1>5, <2>2, FS_RemoveElement
  <2>4. lastId' + Cardinality(InFlight') <= MaxId
    BY <1>1, <1>3, <2>2, <2>3 DEF RoomSound
  <2> QED
    BY <2>1, <2>4 DEF RoomSound
<1>8. ASSUME NEW z \in Sessions, z \notin disturbed PROVE InTurn(z)'
  <2>1. InTurn(z)
    BY <1>8 DEF SessionSound
  <2>2. \A v \in InFlight' : v \in InFlight /\ v # w /\ turn'[v] = turn[v]
    BY <1>1, <1>5 DEF InFlight
  <2>3. OneTurn(z)'
    <3>1. \A v, u \in InFlight' : turn'[v].session = z /\ turn'[u].session = z => v = u
      BY <2>1, <2>2 DEF InTurn, OneTurn
    <3> QED
      BY <3>1 DEF OneTurn
  <2>4. \A k : HasQuestion(k) => HasQuestion(k)'
    BY <1>1 DEF HasQuestion
  <2>5. ASSUME NEW a \in rows', NEW x \in rows', a.session = z, x.session = z,
               a.role = "assistant", x.id < a.id
        PROVE  x.id <= a.turn /\ HasQuestion(a.turn)'
    <3>1. x \in rows
      BY <1>1, <1>2, <1>3, <2>5
    <3>2. CASE a \in rows
      BY <2>1, <2>4, <2>5, <3>1, <3>2 DEF InTurn
    <3>3. CASE a = row
      <4>1. z = s
        BY <1>2, <2>5, <3>3
      <4>2. x.id <= n /\ HasQuestion(n)
        BY <1>1, <2>1, <2>5, <3>1, <4>1 DEF InTurn
      <4> QED
        BY <1>2, <2>4, <3>3, <4>2
    <3> QED
      BY <1>1, <3>2, <3>3
  <2>6. ASSUME NEW v \in InFlight', NEW x \in rows', turn'[v].session = z, x.session = z
        PROVE  x.id <= turn'[v].id /\ HasQuestion(turn[v].id)'
    <3>1. v \in InFlight /\ v # w /\ turn'[v] = turn[v]
      BY <2>2
    <3>2. z # s
      BY <1>1, <2>1, <2>6, <3>1 DEF InTurn, OneTurn
    <3>3. x \in rows
      BY <1>1, <1>2, <2>6, <3>2
    <3>4. x.id <= turn[v].id /\ HasQuestion(turn[v].id)
      BY <2>1, <2>6, <3>1, <3>3 DEF InTurn
    <3>5. HasQuestion(turn[v].id)'
      BY <1>1, <3>1, <3>4 DEF HasQuestion
    <3> QED
      BY <3>1, <3>4, <3>5
  <2> QED
    BY <2>3, <2>5, <2>6 DEF InTurn
<1>9. QuestionKept'
  <2> SUFFICES ASSUME NEW r \in rows', r.role = "user"
               PROVE  \/ r.id \in lost'
                      \/ \E v \in InFlight' : turn'[v].id = r.id
                      \/ \E a \in rows' : a.role = "assistant" /\ a.turn = r.id
    BY DEF QuestionKept
  <2>1. r \in rows
    BY <1>1, <1>2
  <2>2. ASSUME NEW v \in InFlight, turn[v].id = r.id
        PROVE  \/ \E u \in InFlight' : turn'[u].id = r.id
               \/ \E a \in rows' : a.role = "assistant" /\ a.turn = r.id
    <3>1. CASE v = w
      BY <1>1, <1>2, <2>2, <3>1
    <3>2. CASE v # w
      BY <1>1, <1>5, <2>2, <3>2 DEF InFlight
    <3> QED
      BY <3>1, <3>2
  <2>3. \/ r.id \in lost
        \/ \E v \in InFlight : turn[v].id = r.id
        \/ \E a \in rows : a.role = "assistant" /\ a.turn = r.id
    BY <2>1 DEF QuestionKept
  <2> QED
    BY <1>1, <2>2, <2>3
<1> QED
  BY <1>1, <1>6, <1>7, <1>8, <1>9 DEF SessionSound

LEMMA AnswerKeepsCounts ==
  ASSUME TypeOK, TurnSound, RoomSound, RoomSound', RateSound, BudgetSound,
         NEW w \in Workers, Answer(w)
  PROVE  RateSound' /\ BudgetSound'
<1> DEFINE row == AnswerRow(w)
<1>1. /\ rows' = rows \cup {row} /\ turn'[w] = NoTurn
      /\ \A v \in Workers \ {w} : turn'[v] = turn[v]
      /\ UNCHANGED <<minute, day>>
  BY AnswerFacts
<1>2. row.role = "assistant" /\ row.paid = turn[w].paid
  BY DEF AnswerRow
<1> HIDE DEF row
<1>3. RateSound'
  <2>1. ASSUME NEW s \in Sessions
        PROVE  Recent(s)' \subseteq Recent(s) /\ Passed(s)' \subseteq Passed(s)
    BY <1>1, <1>2 DEF Recent, Passed, NoTurn
  <2> QED
    BY <2>1, RateFalls
<1>4. BudgetSound'
  <2>1. Spending' = Spending \ {w}
    BY <1>1 DEF Spending, Spends, NoTurn
  <2>2. /\ IsFiniteSet(Spending) /\ Cardinality(Spending) \in Nat
        /\ IsFiniteSet(PaidRows) /\ Cardinality(PaidRows) \in Nat
    BY CountTypes
  <2>3. CASE turn[w].paid
    <3>1. w \in Spending
      BY <2>3 DEF Spending, Spends
    <3>2. Cardinality(Spending') = Cardinality(Spending) - 1
      BY <2>1, <2>2, <3>1, FS_RemoveElement
    <3>3. PaidRows' \in SUBSET (PaidRows \cup {row})
      BY <1>1 DEF PaidRows
    <3>4. /\ IsFiniteSet(PaidRows \cup {row})
          /\ Cardinality(PaidRows \cup {row}) <= Cardinality(PaidRows) + 1
      BY <2>2, OneMore
    <3>5. /\ Cardinality(PaidRows') <= Cardinality(PaidRows \cup {row})
          /\ Cardinality(PaidRows') \in Nat /\ Cardinality(PaidRows \cup {row}) \in Nat
      BY <3>3, <3>4, PartCount
    <3>6. Cardinality(PaidRows') + Cardinality(Spending')
          <= Cardinality(PaidRows) + Cardinality(Spending)
      BY <2>2, <3>2, <3>4, <3>5
    <3> QED
      BY <3>6, BudgetFalls
  <2>4. CASE ~turn[w].paid
    <3>1. PaidRows' = PaidRows
      BY <1>1, <1>2, <2>4 DEF PaidRows
    <3>2. /\ Cardinality(Spending') <= Cardinality(Spending)
          /\ Cardinality(Spending') \in Nat
      BY <2>1, <2>2, PartCount
    <3>3. Cardinality(PaidRows') + Cardinality(Spending')
          <= Cardinality(PaidRows) + Cardinality(Spending)
      BY <2>2, <3>1, <3>2
    <3> QED
      BY <3>3, BudgetFalls
  <2> QED
    BY <2>3, <2>4
<1> QED
  BY <1>3, <1>4

LEMMA AnswerKeepsInv ==
  ASSUME IInv, NEW w \in Workers, Answer(w)
  PROVE  IInv'
<1>1. /\ TypeOK /\ TurnSound /\ AnswerSound /\ RoomSound /\ SessionSound /\ QuestionKept
      /\ RateSound /\ BudgetSound /\ SeenSound /\ CacheSound /\ BriefSound
  BY DEF IInv
<1>2. /\ turn'[w] = NoTurn /\ InsertMessage(AnswerRow(w)) /\ AnswerRow(w).id = lastId + 1
      /\ \A v \in Workers \ {w} : turn'[v] = turn[v]
      /\ disturbed' = disturbed /\ briefs' = briefs
  BY <1>1, AnswerFacts
<1>3. SeenSound'
  BY <1>1, <1>2 DEF SeenSound, SoundSeen, NoTurn
<1>4. CacheSound'
  <2>1. ASSUME NEW v \in Workers PROVE SoundCached(turn[v])'
    <3>1. CASE v = w
      BY <1>2, <3>1 DEF SoundCached, NoTurn
    <3>2. CASE v # w
      <4>1. SoundCached(turn[v]) /\ turn'[v] = turn[v]
        BY <1>1, <1>2, <3>2 DEF CacheSound
      <4> QED
        BY <1>1, <1>2, <4>1, InsertKeepsCached
    <3> QED
      BY <3>1, <3>2
  <2> QED
    BY <2>1 DEF CacheSound
<1>5. BriefSound'
  BY <1>1, <1>2 DEF BriefSound
<1> QED
  BY <1>1, <1>3, <1>4, <1>5, AnswerKeepsType, AnswerKeepsRows, AnswerKeepsCounts DEF IInv

-----------------------------------------------------------------------------
(***************************************************************************)
(* The death of turns.                                                     *)
(***************************************************************************)
LEMMA AbandonFacts ==
  ASSUME TypeOK, NEW W \in SUBSET Workers, Abandon(W)
  PROVE  /\ \A v \in W : turn'[v] = NoTurn
         /\ \A v \in Workers \ W : turn'[v] = turn[v]
         /\ turn' \in [Workers -> Turn]
         /\ lost' = lost \cup ({turn[v].id : v \in W} \ {0})
         /\ disturbed' = disturbed \cup {turn[v].session : v \in {u \in W : turn[u].id # 0}}
         /\ UNCHANGED <<rows, lastId, minute, day, cache, briefs, admin>>
         /\ faults < MaxFaults /\ faults' = faults + 1
         /\ InFlight' = InFlight \ W
<1>1. /\ turn' = [v \in Workers |-> IF v \in W THEN NoTurn ELSE turn[v]]
      /\ UNCHANGED <<rows, lastId, minute, day, cache, briefs, admin>>
  BY DEF Abandon, time
<1>2. turn \in [Workers -> Turn] /\ NoTurn \in Turn /\ NoTurn.id = 0
  BY NoTurnType DEF TypeOK, NoTurn
<1>3. InFlight' = InFlight \ W
  BY <1>1, <1>2 DEF InFlight
<1>4. turn' \in [Workers -> Turn]
  BY <1>1, <1>2
<1> QED
  BY <1>1, <1>3, <1>4 DEF Abandon

LEMMA AbandonKeepsType ==
  ASSUME TypeOK, TurnSound, NEW W \in SUBSET Workers, Abandon(W), key' \in BOOLEAN
  PROVE  TypeOK' /\ TurnSound'
<1>1. /\ UNCHANGED <<rows, lastId, minute, day, cache, briefs, admin>>
      /\ turn' \in [Workers -> Turn]
  BY AbandonFacts
<1>2. Row' = Row /\ Turn' = Turn
  BY <1>1 DEF Row, Turn
<1>3. faults' \in 0 .. MaxFaults
  BY AbandonFacts, ChatBounds DEF TypeOK
<1>4. \A v \in Workers : turn[v].id \in 0 .. lastId /\ lastId \in Nat
  BY TurnFacts, RowFacts
<1>5. lost' \subseteq 1 .. lastId
  <2>1. lost' = lost \cup ({turn[v].id : v \in W} \ {0})
    BY AbandonFacts
  <2>2. ASSUME NEW v \in W, turn[v].id # 0 PROVE turn[v].id \in 1 .. lastId
    BY <1>4, <2>2
  <2>3. lost \subseteq 1 .. lastId
    BY DEF TypeOK
  <2> QED
    BY <2>1, <2>2, <2>3
<1>6. disturbed' \subseteq Sessions
  <2>1. disturbed' = disturbed \cup {turn[v].session : v \in {u \in W : turn[u].id # 0}}
    BY AbandonFacts
  <2>2. \A v \in Workers : turn[v].id # 0 => turn[v].session \in Sessions
    BY DEF TurnSound, SoundTurn, Unasked
  <2> QED
    BY <2>1, <2>2 DEF TypeOK
<1>7. TypeOK'
  BY <1>1, <1>2, <1>3, <1>5, <1>6 DEF TypeOK
<1>8. TurnSound'
  <2>1. SoundTurn(NoTurn)
    BY DEF SoundTurn, NoTurn, Unasked
  <2>2. \A v \in Workers : turn'[v] = NoTurn \/ turn'[v] = turn[v]
    BY AbandonFacts
  <2> QED
    BY <2>1, <2>2 DEF TurnSound
<1> QED
  BY <1>7, <1>8

LEMMA AbandonKeepsRows ==
  ASSUME TypeOK, AnswerSound, RoomSound, SessionSound, QuestionKept,
         NEW W \in SUBSET Workers, Abandon(W)
  PROVE  AnswerSound' /\ RoomSound' /\ SessionSound' /\ QuestionKept'
<1>1. /\ \A v \in W : turn'[v] = NoTurn
      /\ \A v \in Workers \ W : turn'[v] = turn[v]
      /\ lost' = lost \cup ({turn[v].id : v \in W} \ {0})
      /\ disturbed' = disturbed \cup {turn[v].session : v \in {u \in W : turn[u].id # 0}}
      /\ rows' = rows /\ lastId' = lastId /\ InFlight' = InFlight \ W
  BY AbandonFacts
<1>2. (\A r \in rows : r.id # 0) /\ NoTurn.id = 0
  BY RowFacts DEF NoTurn
<1>3. AnswerSound'
  <2>1. ASSUME NEW v \in Workers, NEW r \in rows, r.id = turn'[v].id
        PROVE  r.role = "user" /\ r.session = turn'[v].session
    BY <1>1, <1>2, <2>1 DEF AnswerSound
  <2>2. ASSUME NEW r \in rows, r.id \in lost' PROVE r.session \in disturbed'
    <3>1. CASE r.id \in lost
      BY <1>1, <3>1 DEF AnswerSound
    <3>2. CASE r.id \notin lost
      <4>1. PICK v \in W : turn[v].id = r.id
        BY <1>1, <2>2, <3>2
      <4>2. r.session = turn[v].session
        BY <4>1 DEF AnswerSound
      <4> QED
        BY <1>1, <1>2, <4>1, <4>2
    <3> QED
      BY <3>1, <3>2
  <2> QED
    BY <1>1, <2>1, <2>2 DEF AnswerSound
<1>4. RoomSound'
  <2>1. IsFiniteSet(InFlight) /\ Cardinality(InFlight) \in Nat
    BY CountTypes
  <2>2. /\ Cardinality(InFlight \ W) <= Cardinality(InFlight)
        /\ Cardinality(InFlight \ W) \in Nat
    BY <2>1, PartCount
  <2>3. lastId \in Nat /\ MaxId \in Nat
    BY RowFacts, ChatBounds
  <2>4. lastId + Cardinality(InFlight \ W) <= MaxId
    BY <2>1, <2>2, <2>3 DEF RoomSound
  <2> QED
    BY <1>1, <2>4 DEF RoomSound
<1>5. ASSUME NEW z \in Sessions, z \notin disturbed' PROVE InTurn(z)'
  <2>1. InTurn(z)
    BY <1>1, <1>5 DEF SessionSound
  <2>2. \A v \in InFlight' : v \in InFlight /\ turn'[v] = turn[v]
    BY <1>1 DEF InFlight
  <2>3. OneTurn(z)'
    <3>1. \A v, u \in InFlight' : turn'[v].session = z /\ turn'[u].session = z => v = u
      BY <2>1, <2>2 DEF InTurn, OneTurn
    <3> QED
      BY <3>1 DEF OneTurn
  <2>4. ASSUME NEW v \in InFlight', NEW x \in rows, turn'[v].session = z, x.session = z
        PROVE  x.id <= turn'[v].id /\ HasQuestion(turn[v].id)'
    <3>1. x.id <= turn[v].id /\ HasQuestion(turn[v].id)
      BY <2>1, <2>2, <2>4 DEF InTurn
    <3>2. HasQuestion(turn[v].id)'
      BY <1>1, <2>2, <3>1 DEF HasQuestion
    <3> QED
      BY <2>2, <3>1, <3>2
  <2>5. \A k : HasQuestion(k) => HasQuestion(k)'
    BY <1>1 DEF HasQuestion
  <2>6. ASSUME NEW a \in rows', NEW x \in rows', a.session = z, x.session = z,
               a.role = "assistant", x.id < a.id
        PROVE  x.id <= a.turn /\ HasQuestion(a.turn)'
    BY <1>1, <2>1, <2>5, <2>6 DEF InTurn
  <2> QED
    BY <1>1, <2>3, <2>4, <2>6 DEF InTurn
<1>6. QuestionKept'
  <2> SUFFICES ASSUME NEW r \in rows, r.role = "user"
               PROVE  \/ r.id \in lost'
                      \/ \E v \in InFlight' : turn'[v].id = r.id
                      \/ \E a \in rows : a.role = "assistant" /\ a.turn = r.id
    BY <1>1 DEF QuestionKept
  <2>1. ASSUME NEW v \in InFlight, turn[v].id = r.id
        PROVE  r.id \in lost' \/ \E u \in InFlight' : turn'[u].id = r.id
    BY <1>1, <1>2, <2>1 DEF InFlight
  <2>2. \/ r.id \in lost
        \/ \E v \in InFlight : turn[v].id = r.id
        \/ \E a \in rows : a.role = "assistant" /\ a.turn = r.id
    BY DEF QuestionKept
  <2> QED
    BY <1>1, <2>1, <2>2
<1> QED
  BY <1>3, <1>4, <1>5, <1>6 DEF SessionSound

LEMMA AbandonKeepsInv ==
  ASSUME IInv, NEW W \in SUBSET Workers, Abandon(W), key' \in BOOLEAN
  PROVE  IInv'
<1>1. /\ TypeOK /\ TurnSound /\ AnswerSound /\ RoomSound /\ SessionSound /\ QuestionKept
      /\ RateSound /\ BudgetSound /\ SeenSound /\ CacheSound /\ BriefSound
  BY DEF IInv
<1>2. /\ TypeOK' /\ TurnSound' /\ AnswerSound' /\ RoomSound' /\ SessionSound' /\ QuestionKept'
  BY <1>1, AbandonKeepsType, AbandonKeepsRows
<1>3. /\ \A v \in Workers : turn'[v] = NoTurn \/ turn'[v] = turn[v]
      /\ UNCHANGED <<rows, minute, day, briefs>>
      /\ disturbed \subseteq disturbed'
  BY <1>1, AbandonFacts
<1>4. RateSound'
  <2>1. ASSUME NEW s \in Sessions
        PROVE  Recent(s)' \subseteq Recent(s) /\ Passed(s)' \subseteq Passed(s)
    BY <1>3 DEF Recent, Passed, NoTurn
  <2> QED
    BY <1>1, <1>2, <2>1, RateFalls
<1>5. BudgetSound'
  <2>1. PaidRows' = PaidRows
    BY <1>3 DEF PaidRows
  <2>2. ~Spends(NoTurn)
    BY DEF Spends, NoTurn
  <2>3. Spending' \in SUBSET Spending
    BY <1>3, <2>2 DEF Spending
  <2>4. IsFiniteSet(Spending) /\ Cardinality(PaidRows) \in Nat
    BY <1>1, CountTypes
  <2>5. /\ Cardinality(Spending') <= Cardinality(Spending)
        /\ Cardinality(Spending') \in Nat /\ Cardinality(Spending) \in Nat
    BY <2>3, <2>4, PartCount
  <2>6. Cardinality(PaidRows') + Cardinality(Spending')
        <= Cardinality(PaidRows) + Cardinality(Spending)
    BY <2>1, <2>4, <2>5
  <2> QED
    BY <1>1, <1>2, <2>6, BudgetFalls
<1>6. SeenSound'
  BY <1>1, <1>3 DEF SeenSound, SoundSeen, NoTurn
<1>7. CacheSound'
  <2>1. ASSUME NEW v \in Workers PROVE SoundCached(turn[v])'
    <3>1. CASE turn'[v] = NoTurn
      BY <3>1 DEF SoundCached, NoTurn
    <3>2. CASE turn'[v] = turn[v]
      <4>1. SoundCached(turn[v])
        BY <1>1 DEF CacheSound
      <4> QED
        BY <1>3, <3>2, <4>1 DEF SoundCached, OnlyStubs, Newest, Earlier, FirstTurn
    <3> QED
      BY <1>3, <3>1, <3>2
  <2> QED
    BY <2>1 DEF CacheSound
<1>8. BriefSound'
  BY <1>1, <1>3 DEF BriefSound
<1> QED
  BY <1>2, <1>4, <1>5, <1>6, <1>7, <1>8 DEF IInv

-----------------------------------------------------------------------------
(***************************************************************************)
(* The archive: a conversation, or the rows up to some age, are deleted.   *)
(***************************************************************************)
\* In each conversation, the rows up to some point go.
Removal ==
    /\ rows' \subseteq rows
    /\ \A x \in rows', r \in rows : x.session = r.session /\ x.id <= r.id => r \in rows'
    /\ UNCHANGED <<key, lastId, minute, day, cache, briefs, turn, faults, lost, disturbed>>
    /\ admin < MaxAdmin /\ admin' = admin + 1

LEMMA RemovalKeepsRows ==
  ASSUME TypeOK, TurnSound, AnswerSound, RoomSound, SessionSound, QuestionKept, Removal
  PROVE  /\ TypeOK' /\ TurnSound' /\ AnswerSound' /\ RoomSound' /\ SessionSound'
         /\ QuestionKept'
<1>1. /\ rows' \subseteq rows
      /\ \A x \in rows', r \in rows : x.session = r.session /\ x.id <= r.id => r \in rows'
      /\ UNCHANGED <<key, lastId, minute, day, cache, briefs, turn, faults, lost, disturbed>>
      /\ admin' \in 0 .. MaxAdmin
  BY ChatBounds DEF Removal, TypeOK
<1>2. InFlight' = InFlight
  BY <1>1 DEF InFlight
<1>3. TypeOK' /\ TurnSound'
  <2>1. Row' = Row /\ Turn' = Turn
    BY <1>1 DEF Row, Turn
  <2> QED
    BY <1>1, <2>1 DEF TypeOK, TurnSound
<1>4. AnswerSound'
  BY <1>1 DEF AnswerSound
<1>5. RoomSound'
  BY <1>1, <1>2, FS_Subset DEF RoomSound
<1>6. ASSUME NEW z \in Sessions, z \notin disturbed PROVE InTurn(z)'
  <2>1. InTurn(z)
    BY <1>6 DEF SessionSound
  <2>2. OneTurn(z)'
    BY <1>1, <1>2, <2>1 DEF InTurn, OneTurn
  <2>3. ASSUME NEW x \in rows', NEW k, x.session = z, x.id <= k, HasQuestion(k),
               \A u \in rows : u.id = k /\ u.role = "user" => u.session = z
        PROVE  HasQuestion(k)'
    BY <1>1, <2>3 DEF HasQuestion
  <2>4. ASSUME NEW a \in rows', NEW x \in rows', a.session = z, x.session = z,
               a.role = "assistant", x.id < a.id
        PROVE  x.id <= a.turn /\ HasQuestion(a.turn)'
    <3>1. x.id <= a.turn /\ HasQuestion(a.turn)
      BY <1>1, <2>1, <2>4 DEF InTurn
    <3>2. \A u \in rows : u.id = a.turn /\ u.role = "user" => u.session = z
      BY <1>1, <2>4 DEF AnswerSound
    <3> QED
      BY <2>3, <2>4, <3>1, <3>2
  <2>5. ASSUME NEW v \in InFlight, NEW x \in rows', turn[v].session = z, x.session = z
        PROVE  x.id <= turn[v].id /\ HasQuestion(turn[v].id)'
    <3> DEFINE k == turn[v].id
    <3>1. x.id <= k /\ HasQuestion(k)
      BY <1>1, <2>1, <2>5 DEF InTurn
    <3>2. \A u \in rows : u.id = k /\ u.role = "user" => u.session = z
      BY <2>5 DEF AnswerSound, InFlight
    <3>3. PICK u \in rows : u.id = k /\ u.role = "user"
      BY <3>1 DEF HasQuestion
    <3>4. u \in rows'
      BY <1>1, <2>5, <3>1, <3>2, <3>3
    <3> QED
      BY <1>1, <3>1, <3>3, <3>4 DEF HasQuestion
  <2> QED
    BY <1>1, <1>2, <2>2, <2>4, <2>5 DEF InTurn
<1>7. QuestionKept'
  <2> SUFFICES ASSUME NEW r \in rows', r.role = "user"
               PROVE  \/ r.id \in lost
                      \/ \E v \in InFlight : turn[v].id = r.id
                      \/ \E a \in rows' : a.role = "assistant" /\ a.turn = r.id
    BY <1>1, <1>2 DEF QuestionKept
  <2>1. ASSUME NEW a \in rows, a.role = "assistant", a.turn = r.id PROVE a \in rows'
    <3>1. a.session = r.session
      BY <1>1, <2>1 DEF AnswerSound
    <3>2. r.id <= a.id
      BY <1>1, <2>1, RowFacts
    <3> QED
      BY <1>1, <3>1, <3>2
  <2>2. \/ r.id \in lost
        \/ \E v \in InFlight : turn[v].id = r.id
        \/ \E a \in rows : a.role = "assistant" /\ a.turn = r.id
    BY <1>1 DEF QuestionKept
  <2> QED
    BY <2>1, <2>2
<1> QED
  BY <1>1, <1>3, <1>4, <1>5, <1>6, <1>7 DEF SessionSound

\* Of a window, a removal takes only what it removes.
LEMMA RemovalCutsWindow ==
  ASSUME TypeOK, Removal, NEW s, NEW n
  PROVE  /\ Newest(Earlier(s, n))' \subseteq Newest(Earlier(s, n))
         /\ \A r \in rows' : r \in Newest(Earlier(s, n)) => r \in Newest(Earlier(s, n))'
<1> DEFINE E == Earlier(s, n)
<1>1. /\ rows' \subseteq rows
      /\ \A x \in rows', r \in rows : x.session = r.session /\ x.id <= r.id => r \in rows'
  BY DEF Removal
<1>2. E = {r \in rows : r.session = s /\ r.id < n} /\ E' = {r \in rows' : r.session = s /\ r.id < n}
  BY DEF Earlier
<1>3. \A r \in rows : r.id \in Nat
  BY RowFacts
<1> HIDE DEF E
<1>4. ASSUME NEW r \in rows', r.session = s
      PROVE  {x \in E : x.id > r.id} = {x \in E' : x.id > r.id}
  <2>1. \A x \in E : x.id > r.id => x \in E'
    <3> SUFFICES ASSUME NEW x \in E, x.id > r.id PROVE x \in E'
      OBVIOUS
    <3>1. x \in rows /\ x.session = r.session /\ r.id <= x.id
      BY <1>1, <1>2, <1>3, <1>4
    <3> QED
      BY <1>1, <1>2, <3>1
  <2> QED
    BY <1>1, <1>2, <2>1
<1>5. \A r \in rows' : r \in E' <=> r \in E
  BY <1>1, <1>2
<1>6. \A r \in E' : r \in rows' /\ r.session = s
  BY <1>2
<1>7. \A r \in E' : r \in Newest(E)' <=> r \in Newest(E)
  BY <1>4, <1>5, <1>6 DEF Newest
<1>8. Newest(E)' \subseteq E' /\ Newest(E) \subseteq E
  BY DEF Newest
<1> QED
  BY <1>5, <1>7, <1>8 DEF E

LEMMA RemovalKeepsInv ==
  ASSUME IInv, Removal
  PROVE  IInv'
<1>1. /\ TypeOK /\ TurnSound /\ AnswerSound /\ RoomSound /\ SessionSound /\ QuestionKept
      /\ RateSound /\ BudgetSound /\ SeenSound /\ CacheSound /\ BriefSound
  BY DEF IInv
<1>2. /\ TypeOK' /\ TurnSound' /\ AnswerSound' /\ RoomSound' /\ SessionSound'
      /\ QuestionKept'
  BY <1>1, RemovalKeepsRows
<1>3. /\ rows' \subseteq rows
      /\ \A x \in rows', r \in rows : x.session = r.session /\ x.id <= r.id => r \in rows'
      /\ UNCHANGED <<lastId, minute, day, briefs, turn, disturbed>>
  BY DEF Removal
<1>4. RateSound'
  <2>1. ASSUME NEW s \in Sessions
        PROVE  Recent(s)' \subseteq Recent(s) /\ Passed(s)' \subseteq Passed(s)
    BY <1>3 DEF Recent, Passed
  <2> QED
    BY <1>1, <1>2, <2>1, RateFalls
<1>5. BudgetSound'
  <2>1. Spending' = Spending
    BY <1>3 DEF Spending
  <2>2. PaidRows' \in SUBSET PaidRows
    BY <1>3 DEF PaidRows
  <2>3. IsFiniteSet(PaidRows) /\ Cardinality(Spending) \in Nat
    BY <1>1, CountTypes
  <2>4. /\ Cardinality(PaidRows') <= Cardinality(PaidRows)
        /\ Cardinality(PaidRows') \in Nat /\ Cardinality(PaidRows) \in Nat
    BY <2>2, <2>3, PartCount
  <2>5. Cardinality(PaidRows') + Cardinality(Spending')
        <= Cardinality(PaidRows) + Cardinality(Spending)
    BY <2>1, <2>3, <2>4
  <2> QED
    BY <1>1, <1>2, <2>5, BudgetFalls
<1>6. SeenSound' /\ BriefSound'
  BY <1>1, <1>3 DEF SeenSound, SoundSeen, BriefSound
<1>7. ASSUME NEW s, NEW n, OnlyStubs(s, n) PROVE OnlyStubs(s, n)'
  <2> DEFINE W == Newest(Earlier(s, n))
  <2>1. W' \subseteq W
    BY <1>1, RemovalCutsWindow
  <2>2. ASSUME NEW u \in W', u.role = "user"
        PROVE  \E a \in W' : a.tier = "stub" /\ a.turn = u.id
    <3>1. PICK a \in W : a.tier = "stub" /\ a.turn = u.id
      BY <1>7, <2>1, <2>2 DEF OnlyStubs
    <3>2. u \in rows' /\ a \in rows /\ u.session = a.session
      BY <1>3, <2>1 DEF Newest, Earlier
    <3>3. u.id <= a.id
      BY <1>1, <3>1, <3>2, RowFacts
    <3>4. a \in rows'
      BY <1>3, <3>2, <3>3
    <3>5. a \in W'
      BY <1>1, <3>4, RemovalCutsWindow
    <3> QED
      BY <3>1, <3>5
  <2> QED
    BY <2>2 DEF OnlyStubs
<1>8. CacheSound'
  <2>1. ASSUME NEW v \in Workers PROVE SoundCached(turn[v])'
    <3>1. SoundCached(turn[v]) /\ turn'[v] = turn[v]
      BY <1>1, <1>3 DEF CacheSound
    <3>2. OnlyStubs(turn[v].session, turn[v].id) => OnlyStubs(turn[v].session, turn[v].id)'
      <4>1. ASSUME NEW s, NEW n, s = turn[v].session, n = turn[v].id, OnlyStubs(s, n)
            PROVE  OnlyStubs(turn[v].session, turn[v].id)'
        <5>1. OnlyStubs(s, n)' /\ turn'[v].session = s /\ turn'[v].id = n
          BY <1>7, <3>1, <4>1
        <5> QED
          BY <5>1 DEF OnlyStubs, Newest, Earlier
      <4> QED
        BY <4>1
    <3> QED
      BY <1>3, <3>1, <3>2 DEF SoundCached, FirstTurn
  <2> QED
    BY <2>1 DEF CacheSound
<1> QED
  BY <1>2, <1>4, <1>5, <1>6, <1>8 DEF IInv

-----------------------------------------------------------------------------
(***************************************************************************)
(* Time, and the briefs.                                                   *)
(***************************************************************************)
LEMMA TimeKeepsInv ==
  ASSUME IInv, MinutePasses \/ DayPasses
  PROVE  IInv'
<1>1. /\ TypeOK /\ TurnSound /\ AnswerSound /\ RoomSound /\ SessionSound /\ QuestionKept
      /\ RateSound /\ BudgetSound /\ SeenSound /\ CacheSound /\ BriefSound
  BY DEF IInv
<1>2. /\ UNCHANGED <<key, rows, lastId, briefs, turn, admin, faults, lost, disturbed>>
      /\ minute' = lastId /\ day' \in {day, lastId} /\ cache' \in {cache, {}}
  BY DEF MinutePasses, DayPasses, past
<1>3. /\ lastId \in Nat /\ day \in 0 .. lastId /\ minute \in day .. lastId
      /\ \A r \in rows : r.id \in Nat /\ r.id <= lastId
  BY <1>1, RowFacts DEF TypeOK
<1>4. InFlight' = InFlight
  BY <1>2 DEF InFlight
<1>5. TypeOK' /\ TurnSound'
  <2>1. Row' = Row /\ Turn' = Turn
    BY <1>2 DEF Row, Turn
  <2>2. minute' \in day' .. lastId' /\ day' \in 0 .. lastId'
    BY <1>2, <1>3
  <2>3. cache' \subseteq Questions
    BY <1>1, <1>2 DEF TypeOK
  <2> QED
    BY <1>1, <1>2, <2>1, <2>2, <2>3 DEF TypeOK, TurnSound
<1>6. AnswerSound' /\ RoomSound'
  BY <1>1, <1>2, <1>4 DEF AnswerSound, RoomSound
<1>7. SessionSound' /\ QuestionKept'
  BY <1>1, <1>2, <1>4 DEF SessionSound, InTurn, OneTurn, HasQuestion, QuestionKept
<1>8. RateSound'
  <2>1. ASSUME NEW s \in Sessions
        PROVE  Recent(s)' \subseteq Recent(s) /\ Passed(s)' \subseteq Passed(s)
    <3>1. \A r \in rows : ~(r.id > minute')
      BY <1>2, <1>3
    <3>2. Recent(s)' = {}
      BY <1>2, <3>1 DEF Recent
    <3> QED
      BY <1>2, <3>2 DEF Passed
  <2> QED
    BY <1>1, <1>6, <2>1, RateFalls
<1>9. BudgetSound'
  <2>1. Spending' = Spending
    BY <1>2 DEF Spending
  <2>2. \A r \in rows : r.id > day' => r.id > day
    BY <1>2, <1>3
  <2>3. PaidRows' \in SUBSET PaidRows
    BY <1>2, <2>2 DEF PaidRows
  <2>4. IsFiniteSet(PaidRows) /\ Cardinality(Spending) \in Nat
    BY <1>1, CountTypes
  <2>5. /\ Cardinality(PaidRows') <= Cardinality(PaidRows)
        /\ Cardinality(PaidRows') \in Nat /\ Cardinality(PaidRows) \in Nat
    BY <2>3, <2>4, PartCount
  <2>6. Cardinality(PaidRows') + Cardinality(Spending')
        <= Cardinality(PaidRows) + Cardinality(Spending)
    BY <2>1, <2>4, <2>5
  <2> QED
    BY <1>1, <1>6, <2>6, BudgetFalls
<1>10. SeenSound' /\ BriefSound'
  BY <1>1, <1>2 DEF SeenSound, SoundSeen, BriefSound
<1>11. CacheSound'
  BY <1>1, <1>2 DEF CacheSound, SoundCached, OnlyStubs, Newest, Earlier, FirstTurn
<1> QED
  BY <1>5, <1>6, <1>7, <1>8, <1>9, <1>10, <1>11 DEF IInv

LEMMA BriefKeepsInv ==
  ASSUME IInv, NEW a \in rows, SaveBrief(a)
  PROVE  IInv'
<1>1. /\ TypeOK /\ TurnSound /\ AnswerSound /\ RoomSound /\ SessionSound /\ QuestionKept
      /\ RateSound /\ BudgetSound /\ SeenSound /\ CacheSound /\ BriefSound
  BY DEF IInv
<1> DEFINE brief == [session |-> a.session, title |-> Preceding(a), of |-> a.turn]
<1>2. /\ UNCHANGED <<key, rows, lastId, minute, day, cache, turn, faults, lost, disturbed>>
      /\ a.tier = "llm" /\ briefs' = briefs \cup {brief}
      /\ admin < MaxAdmin /\ admin' = admin + 1
  BY DEF SaveBrief, FileBrief, time, past
<1>3. InFlight' = InFlight /\ Row' = Row /\ Turn' = Turn
  BY <1>2 DEF InFlight, Row, Turn
<1>4. TypeOK' /\ TurnSound'
  <2>1. admin' \in 0 .. MaxAdmin
    BY <1>1, <1>2, ChatBounds DEF TypeOK
  <2>2. a.session \in Sessions /\ a.turn \in 0 .. lastId /\ Preceding(a) \in 0 .. lastId
    BY <1>1, RowFacts, PrecedingType
  <2>3. briefs' \subseteq [session : Sessions, title : 0 .. lastId, of : 0 .. lastId]
    BY <1>1, <1>2, <2>2 DEF TypeOK
  <2> QED
    BY <1>1, <1>2, <1>3, <2>1, <2>3 DEF TypeOK, TurnSound
<1>5. AnswerSound' /\ RoomSound'
  BY <1>1, <1>2, <1>3 DEF AnswerSound, RoomSound
<1>6. SessionSound' /\ QuestionKept'
  BY <1>1, <1>2, <1>3 DEF SessionSound, InTurn, OneTurn, HasQuestion, QuestionKept
<1>7. RateSound' /\ BudgetSound'
  BY <1>1, <1>2 DEF RateSound, BudgetSound, RecentUserCount, Passed, PaidRows, Spending
<1>8. SeenSound' /\ CacheSound'
  BY <1>1, <1>2 DEF SeenSound, SoundSeen, CacheSound, SoundCached, OnlyStubs, Newest, Earlier, FirstTurn
<1>9. BriefSound'
  <2>1. a.session \notin disturbed => Preceding(a) \in {0, a.turn}
    BY <1>1, <1>2, PrecedingIsOwn
  <2> QED
    BY <1>1, <1>2, <2>1 DEF BriefSound
<1> QED
  BY <1>4, <1>5, <1>6, <1>7, <1>8, <1>9 DEF IInv

-----------------------------------------------------------------------------
(***************************************************************************)
(* The invariant of the specification.                                     *)
(***************************************************************************)
LEMMA InitSound == Init => IInv
<1> SUFFICES ASSUME Init PROVE IInv
  OBVIOUS
<1>1. /\ rows = {} /\ lastId = 0 /\ lost = {} /\ disturbed = {} /\ briefs = {}
      /\ turn = [w \in Workers |-> NoTurn] /\ NoTurn.id = 0
      /\ \A w \in Workers : turn[w] = NoTurn
  BY DEF Init, NoTurn
<1>2. InFlight = {}
  BY <1>1 DEF InFlight
<1>3. TypeOK
  <2>1. NoTurn \in Turn
    BY <1>1 DEF NoTurn, Turn
  <2> QED
    BY <1>1, <2>1, ChatBounds DEF Init, TypeOK
<1>4. RoomSound
  BY <1>1, <1>2, FS_EmptySet, ChatBounds DEF RoomSound
<1>5. TurnSound /\ AnswerSound /\ QuestionKept /\ SeenSound /\ BriefSound
  BY <1>1 DEF TurnSound, SoundTurn, Unasked, AnswerSound, QuestionKept, SeenSound, SoundSeen,
     BriefSound, NoTurn
<1>6. SessionSound
  BY <1>1, <1>2 DEF SessionSound, InTurn, OneTurn
<1>7. CacheSound
  BY <1>1 DEF CacheSound, SoundCached, NoTurn
<1>8. RateSound
  <2> SUFFICES ASSUME NEW s \in Sessions
               PROVE  RecentUserCount(s) + Cardinality(Passed(s))
                      <= Limit + Cardinality(Workers) - 1
    BY DEF RateSound
  <2>1. RecentUserCount(s) = 0 /\ Cardinality(Passed(s)) \in Nat
        /\ Cardinality(Workers) \in Nat /\ Cardinality(Passed(s)) <= Cardinality(Workers)
    <3>1. Recent(s) = {}
      BY <1>1 DEF Recent
    <3> QED
      BY <1>4, <3>1, CountTypes, FS_EmptySet
  <2> QED
    BY <2>1, ChatBounds
<1>9. BudgetSound
  <2>1. PaidRows = {} /\ Spending = {}
    BY <1>1 DEF PaidRows, Spending, Spends, NoTurn
  <2>2. Cardinality(PaidRows) = 0 /\ Cardinality(Spending) = 0
    BY <2>1, FS_EmptySet
  <2>3. Cost * Cardinality(Workers) \in Nat
    BY <1>4, CountTypes, CostMonotone
  <2> QED
    BY <2>2, <2>3, ChatBounds DEF BudgetSound
<1> QED
  BY <1>3, <1>4, <1>5, <1>6, <1>7, <1>8, <1>9 DEF IInv

LEMMA NextKeepsInv ==
  ASSUME IInv, [Next]_vars
  PROVE  IInv'
<1>1. ASSUME NEW w \in Workers, Moves(w) PROVE IInv'
  BY <1>1, MoveKeepsInv
<1>2. ASSUME NEW w \in Workers, NEW s \in Sessions, NEW q \in Questions,
             NEW continued \in BOOLEAN, Send(w, s, q, continued)
      PROVE  IInv'
  BY <1>1, <1>2, Zenon DEF Moves, Sends
<1>3. ASSUME NEW a \in rows, SaveBrief(a) PROVE IInv'
  BY <1>3, BriefKeepsInv
<1>4. ASSUME NEW w \in Workers, NEW s \in Sessions, Report(w, s) PROVE IInv'
  BY <1>1, <1>4, Zenon DEF Moves
<1>5. ASSUME NEW w \in Workers, Step(w) PROVE IInv'
  <2>1. CASE Ask(w)
    BY <2>1, AskKeepsInv
  <2>2. CASE Answer(w)
    BY <2>2, AnswerKeepsInv
  <2>3. CASE ~Ask(w) /\ ~Answer(w)
    <3>1. Moves(w)
      BY <1>5, <2>3, Zenon DEF Step, Moves
    <3> QED
      BY <1>1, <3>1
  <2> QED
    BY <2>1, <2>2, <2>3
<1>6. ASSUME NEW w \in Workers, Die(w) PROVE IInv'
  <2>1. Abandon({w}) /\ key' \in BOOLEAN
    BY <1>6 DEF Die, IInv, TypeOK
  <2> QED
    BY <2>1, AbandonKeepsInv
<1>7. CASE Restart
  BY <1>7, AbandonKeepsInv DEF Restart
<1>8. ASSUME NEW s \in Sessions, DeleteSession(s) PROVE IInv'
  <2>1. Removal
    BY <1>8 DEF DeleteSession, Removal, time, past
  <2> QED
    BY <2>1, RemovalKeepsInv
<1>9. ASSUME NEW n \in 1 .. day, Prune(n) PROVE IInv'
  <2>1. n \in Int /\ \A r \in rows : r.id \in Int
    BY RowFacts DEF IInv
  <2>2. Removal
    BY <1>9, <2>1 DEF Prune, Removal, time, past
  <2> QED
    BY <2>2, RemovalKeepsInv
<1>10. CASE MinutePasses \/ DayPasses
  BY <1>10, TimeKeepsInv
<1>11. CASE UNCHANGED vars
  <2>1. UNCHANGED <<key, rows, lastId, minute, day, cache, briefs, turn, admin, faults, lost,
                    disturbed>>
    BY <1>11 DEF vars, time, past
  <2>2. InFlight' = InFlight /\ Row' = Row /\ Turn' = Turn
    BY <2>1 DEF InFlight, Row, Turn
  <2>3. TypeOK' /\ TurnSound' /\ AnswerSound' /\ RoomSound'
    BY <2>1, <2>2 DEF IInv, TypeOK, TurnSound, AnswerSound, RoomSound
  <2>4. SessionSound' /\ QuestionKept'
    BY <2>1, <2>2 DEF IInv, SessionSound, InTurn, OneTurn, HasQuestion, QuestionKept
  <2>5. RateSound' /\ BudgetSound'
    BY <2>1 DEF IInv, RateSound, BudgetSound, RecentUserCount, Passed, PaidRows, Spending
  <2>6. SeenSound' /\ BriefSound'
    BY <2>1 DEF IInv, SeenSound, SoundSeen, BriefSound
  <2>7. CacheSound'
    BY <2>1 DEF IInv, CacheSound, SoundCached, OnlyStubs, Newest, Earlier, FirstTurn
  <2> QED
    BY <2>3, <2>4, <2>5, <2>6, <2>7 DEF IInv
<1> QED
  BY <1>2, <1>3, <1>4, <1>5, <1>6, <1>7, <1>8, <1>9, <1>10, <1>11 DEF Next

LEMMA InvHolds == Spec => []IInv
  BY InitSound, NextKeepsInv, PTL DEF Spec

-----------------------------------------------------------------------------
\* The types of the rows and turns: above all, _insert_message gives an id to
\* one row only, an answer refers back to an earlier row, and only a reply of
\* the model has cost tokens.
THEOREM TypeCorrect == Spec => []TypeOK
<1>1. IInv => TypeOK
  BY DEF IInv
<1> QED
  BY <1>1, InvHolds, PTL

\* answer, _recent_user_count: a conversation passes its limit per minute by
\* the other threads of the pool at most.
THEOREM RateBounded == Spec => []RateBound
<1>1. IInv => RateBound
  <2> SUFFICES ASSUME IInv, NEW s \in Sessions
               PROVE  RecentUserCount(s) <= Limit + Cardinality(Workers) - 1
    BY DEF RateBound
  <2>1. /\ RecentUserCount(s) \in Nat /\ Cardinality(Passed(s)) \in Nat
        /\ Cardinality(Workers) \in Nat /\ Limit \in Nat
    BY CountTypes, ChatBounds DEF IInv
  <2>2. RecentUserCount(s) + Cardinality(Passed(s)) <= Limit + Cardinality(Workers) - 1
    BY DEF IInv, RateSound
  <2> QED
    BY <2>1, <2>2
<1> QED
  BY <1>1, InvHolds, PTL

\* answer, _daily_budget_exceeded: the budget of a day is passed by the
\* replies in flight at most.
THEOREM BudgetBounded == Spec => []BudgetBound
<1>1. IInv => BudgetBound
  <2> SUFFICES ASSUME IInv PROVE BudgetBound
    OBVIOUS
  <2> DEFINE P == Cardinality(PaidRows)
             S == Cardinality(Spending)
             N == Cardinality(Workers)
  <2>1. P \in Nat /\ S \in Nat /\ N \in Nat
    BY CountTypes DEF IInv
  <2>2. Cost * (P + S) < Budget + Cost * N
    BY DEF IInv, BudgetSound
  <2>3. Used = Cost * P
    BY DEF Used, PaidRows
  <2> HIDE DEF P, S, N
  <2>4. Cost * P <= Cost * (P + S) /\ Cost * P \in Nat /\ Cost * (P + S) \in Nat
    BY <2>1, CostMonotone
  <2>5. Cost * N = N * Cost /\ Cost * N \in Nat /\ Budget \in Nat
    BY <2>1, ChatBounds
  <2>6. Used < Budget + N * Cost
    BY <2>2, <2>3, <2>4, <2>5
  <2> QED
    BY <2>6 DEF BudgetBound, N
<1> QED
  BY <1>1, InvHolds, PTL

\* _drop_stub_pairs: no stub reply reaches a model.
THEOREM StubsUnheard == Spec => []NoStubHeard
<1>1. IInv => NoStubHeard
  BY DEF IInv, SeenSound, SoundSeen, NoStubHeard, Heard
<1> QED
  BY <1>1, InvHolds, PTL

\* _load_history, save_chat_message_as_brief: where turns neither overlapped
\* nor died, a model is handed question and answer in turn, and a brief is
\* titled by its own question.
THEOREM HistoryInTurn == Spec => []HistoryPaired
<1>1. IInv => HistoryPaired
  BY DEF IInv, SeenSound, SoundSeen, BriefSound, HistoryPaired, Heard
<1> QED
  BY <1>1, InvHolds, PTL

\* _cache_lookup: there, a reply of the cache stands where every question of the
\* window, if there is one, got a stub reply.
THEOREM CacheForFirstTurn == Spec => []CacheFirstTurn
<1>1. IInv => CacheFirstTurn
  BY DEF IInv, CacheSound, SoundCached, OnlyStubs, CacheFirstTurn
<1> QED
  BY <1>1, InvHolds, PTL

\* answer: a stored question is answered, or its turn is under way or died.
THEOREM QuestionsKept == Spec => []QuestionKept
<1>1. IInv => QuestionKept
  BY DEF IInv
<1> QED
  BY <1>1, InvHolds, PTL
=============================================================================
