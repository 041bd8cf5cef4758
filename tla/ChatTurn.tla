------------------------------ MODULE ChatTurn ------------------------------
(***************************************************************************)
(* mcp/chat.py: the turns of the AI chat.  The /chat route runs answer()   *)
(* in a thread pool, so turns of one conversation overlap; each statement  *)
(* has a connection of its own.  The archive admin/app.py deletes rows     *)
(* under them.                                                             *)
(***************************************************************************)
EXTENDS Integers, FiniteSets

CONSTANTS Sessions,       \* channel:session_key
          Questions,      \* keys of kb.chat_cache: question, scope, web
          Workers,        \* threads of the pool
          Limit,          \* RATE_LIMIT_PER_MINUTE
          HistoryRows,    \* MAX_HISTORY_ROWS
          TranscriptRows, \* LIMIT 200 of _load_all_messages
          Budget,         \* chat_daily_token_budget
          Cost,           \* tokens of a reply
          MaxId,          \* bound: rows ever written
          MaxAdmin,       \* bound: deletions, and briefs made
          MaxFaults       \* bound: deaths of turns and of the server

ASSUME ChatBounds ==
    /\ IsFiniteSet(Workers)
    /\ {Limit, Budget, Cost, TranscriptRows} \subseteq Nat \ {0}
    /\ HistoryRows \in Nat \ {0, 1}       \* a question and its answer fit
    /\ {MaxId, MaxAdmin, MaxFaults} \subseteq Nat

VARIABLES key,            \* ANTHROPIC_API_KEY is set
          rows,           \* kb.chat_messages, ordered by id
          lastId,
          minute, day,    \* the newest id older than a minute, than a day
          cache,          \* fresh keys of kb.chat_cache
          briefs,         \* kb.briefs made of conversations
          turn,           \* [Workers -> one run of answer() or chat_brief()]
          admin, faults,
          lost,           \* history: questions whose turn died
          disturbed       \* history: sessions where a turn died or overlapped

time == <<minute, day>>
past == <<lost, disturbed>>
vars == <<key, rows, lastId, time, cache, briefs, turn, admin, faults, past>>

NoTurn == [pc |-> "idle", session |-> 0, q |-> 0, id |-> 0, over |-> FALSE,
           seen |-> {}, tier |-> "none", paid |-> FALSE]

InFlight == {w \in Workers : turn[w].id # 0}

Row == [id : 1 .. lastId, session : Sessions, role : {"user", "assistant"},
        tier : {"none", "stub", "llm"}, paid : BOOLEAN, turn : 1 .. lastId]

Turn == [pc : {"idle", "sent", "budget", "ask", "load", "lookup", "model", "store", "stub",
               "answer", "report"},
         session : Sessions \cup {0}, q : Questions \cup {0}, id : 0 .. lastId,
         over : BOOLEAN, seen : SUBSET Row, tier : {"none", "stub", "llm", "cached"},
         paid : BOOLEAN]

TypeOK ==
    /\ key \in BOOLEAN
    /\ lastId \in 0 .. MaxId
    /\ rows \subseteq Row
    /\ turn \in [Workers -> Turn]
    /\ \A r, x \in rows : r.id = x.id => r = x
    /\ \A r \in rows : /\ r.turn <= r.id
                       /\ r.role = "user" <=> r.turn = r.id
                       /\ r.role = "user" => r.tier = "none"
                       /\ r.paid => r.tier = "llm"
    /\ minute \in day .. lastId /\ day \in 0 .. lastId
    /\ cache \subseteq Questions
    /\ briefs \subseteq [session : Sessions, title : 0 .. lastId, of : 0 .. lastId]
    /\ admin \in 0 .. MaxAdmin /\ faults \in 0 .. MaxFaults
    /\ lost \subseteq 1 .. lastId
    /\ disturbed \subseteq Sessions

Init ==
    /\ key \in BOOLEAN
    /\ rows = {} /\ lastId = 0
    /\ minute = 0 /\ day = 0
    /\ cache = {}
    /\ briefs = {}
    /\ turn = [w \in Workers |-> NoTurn]
    /\ admin = 0 /\ faults = 0
    /\ lost = {} /\ disturbed = {}

-----------------------------------------------------------------------------
\* _recent_user_count
RecentUserCount(s) ==
    Cardinality({r \in rows : r.session = s /\ r.role = "user" /\ r.id > minute})

\* Mutant: one too many.
TooManyOff(s) == RecentUserCount(s) > Limit

TooMany(s) == RecentUserCount(s) >= Limit

\* sum(tokens_in + tokens_out) of the last day
Used == Cost * Cardinality({r \in rows : r.id > day /\ r.paid})

\* Mutant: the last token of the budget may still be spent.
BudgetExceededOff == Used > Budget

\* _daily_budget_exceeded
BudgetExceeded == Used >= Budget

\* n comes right after r in a window.
Follows(W, r, n) ==
    /\ n \in W /\ r.id < n.id
    /\ \A x \in W : ~(r.id < x.id /\ x.id < n.id)

\* Mutant: only whole pairs are dropped.
DropPairsOnly(W) ==
    LET answered == {a \in W : a.tier = "stub" /\ \E u \in W : u.role = "user" /\ Follows(W, u, a)}
    IN  {r \in W \ answered : ~\E a \in answered : Follows(W, r, a)}

\* _drop_stub_pairs: stub replies, with the question right before them
DropStubPairs(W) ==
    {r \in W : /\ r.tier # "stub"
               /\ r.role = "user" => ~\E n \in W : n.tier = "stub" /\ Follows(W, r, n)}

\* Mutant: the window is not cut to begin with a question.
RepairTail(W) == {r \in W : r.role = "user" => \E n \in W : n.id > r.id}

\* _repair_window: from the first question on, without a last one unanswered
RepairWindow(W) ==
    {r \in W : /\ \E u \in W : u.role = "user" /\ u.id <= r.id
               /\ r.role = "user" => \E n \in W : n.id > r.id}

Earlier(s, before) == {r \in rows : r.session = s /\ r.id < before}

\* ORDER BY id DESC LIMIT
Newest(W) == {r \in W : Cardinality({x \in W : x.id > r.id}) < HistoryRows}

\* _load_history
History(s, before) == RepairWindow(DropStubPairs(Newest(Earlier(s, before))))

\* ORDER BY id LIMIT
Oldest(W) == {r \in W : Cardinality({x \in W : x.id < r.id}) < TranscriptRows}

\* _load_all_messages
Transcript(s) == DropStubPairs(Oldest({r \in rows : r.session = s}))

\* _insert_message
InsertMessage(row) ==
    /\ lastId' = lastId + 1
    /\ rows' = rows \cup {row}

-----------------------------------------------------------------------------
\* send_chat_message, or ask_kbmcp of the bot.  A conversation of the archive
\* goes on only if it has rows, which may be gone when its turn begins.
Send(w, s, q, continued) ==
    /\ turn[w] = NoTurn
    /\ continued => \E r \in rows : r.session = s
    /\ turn' = [turn EXCEPT ![w] = [NoTurn EXCEPT !.pc = "sent", !.session = s, !.q = q]]
    /\ UNCHANGED <<key, rows, lastId, time, cache, briefs, admin, faults, past>>

\* answer: 429, or on to the budget
CheckRate(w) ==
    /\ turn[w].pc = "sent"
    /\ turn' = [turn EXCEPT ![w] = IF TooMany(@.session) THEN NoTurn ELSE [@ EXCEPT !.pc = "budget"]]
    /\ UNCHANGED <<key, rows, lastId, time, cache, briefs, admin, faults, past>>

CheckBudget(w) ==
    /\ turn[w].pc = "budget"
    /\ turn' = [turn EXCEPT ![w].pc = "ask", ![w].over = BudgetExceeded]
    /\ UNCHANGED <<key, rows, lastId, time, cache, briefs, admin, faults, past>>

\* The question is stored before any work on its answer.
Ask(w) ==
    LET s == turn[w].session IN
    /\ turn[w].pc = "ask"
    /\ lastId + Cardinality(InFlight) + 2 <= MaxId
    /\ InsertMessage([id |-> lastId + 1, session |-> s, role |-> "user", tier |-> "none",
                      paid |-> FALSE, turn |-> lastId + 1])
    /\ turn' = [turn EXCEPT ![w].pc = "load", ![w].id = lastId + 1]
    /\ disturbed' = IF \E v \in InFlight : turn[v].session = s THEN disturbed \cup {s} ELSE disturbed
    /\ UNCHANGED <<key, time, cache, briefs, admin, faults, lost>>

LoadHistory(w) ==
    /\ turn[w].pc = "load"
    /\ turn' = [turn EXCEPT ![w].pc = IF key THEN "lookup" ELSE "stub",
                            ![w].seen = IF key THEN History(turn[w].session, turn[w].id) ELSE {}]
    /\ UNCHANGED <<key, rows, lastId, time, cache, briefs, admin, faults, past>>

\* Mutant: any turn is looked up.
FirstTurnAny(t) == TRUE

\* first_turn = not history
FirstTurn(t) == t.seen = {}

\* A turn in its last steps: what it has read is not used any more.
Ending(w, pc) == [turn[w] EXCEPT !.pc = pc, !.seen = {}, !.over = FALSE]

\* _cache_lookup, before the budget barrier: a ready answer costs nothing.
CacheHit(w) ==
    /\ turn[w].pc = "lookup"
    /\ FirstTurn(turn[w]) /\ turn[w].q \in cache
    /\ turn' = [turn EXCEPT ![w] = [Ending(w, "answer") EXCEPT !.tier = "cached"]]
    /\ UNCHANGED <<key, rows, lastId, time, cache, briefs, admin, faults, past>>

\* A lookup never raises; one that fails has found nothing.
CacheMiss(w) ==
    /\ turn[w].pc = "lookup"
    /\ turn' = [turn EXCEPT ![w] = IF turn[w].over THEN Ending(w, "stub")
                                   ELSE [turn[w] EXCEPT !.pc = "model"]]
    /\ UNCHANGED <<key, rows, lastId, time, cache, briefs, admin, faults, past>>

\* _llm_reply: the answer is whole, or refused, truncated or empty, which is
\* not cached.
Reply(w, whole) ==
    /\ turn[w].pc = "model"
    /\ LET next == IF whole /\ FirstTurn(turn[w]) THEN "store" ELSE "answer"
       IN  turn' = [turn EXCEPT ![w] = [Ending(w, next) EXCEPT !.tier = "llm",
                                                              !.paid = TRUE]]
    /\ UNCHANGED <<key, rows, lastId, time, cache, briefs, admin, faults, past>>

\* Mutant: the exception leaves answer().
FallBackNone(w) == NoTurn

\* Mutant: the tokens of the refused call are booked on the stub reply.
FallBackPaid(w) == [Ending(w, "stub") EXCEPT !.paid = TRUE]

\* reply_md = None: on to the stub tier
FallBack(w) == Ending(w, "stub")

\* _llm_reply raises: its tokens are not counted.
ReplyFails(w) ==
    /\ turn[w].pc = "model"
    /\ turn' = [turn EXCEPT ![w] = FallBack(w)]
    /\ UNCHANGED <<key, rows, lastId, time, cache, briefs, admin, faults, past>>

\* _cache_store never raises; what fails is not cached.
CacheStore(w) ==
    /\ turn[w].pc = "store"
    /\ cache' \in {cache, cache \cup {turn[w].q}}
    /\ turn' = [turn EXCEPT ![w].pc = "answer"]
    /\ UNCHANGED <<key, rows, lastId, time, briefs, admin, faults, past>>

StubReply(w) ==
    /\ turn[w].pc = "stub"
    /\ turn' = [turn EXCEPT ![w].pc = "answer", ![w].tier = "stub"]
    /\ UNCHANGED <<key, rows, lastId, time, cache, briefs, admin, faults, past>>

\* A cached reply is stored as tier llm with no tokens.
Answer(w) ==
    LET t == turn[w] IN
    /\ t.pc = "answer"
    /\ InsertMessage([id |-> lastId + 1, session |-> t.session, role |-> "assistant",
                      tier |-> IF t.tier = "stub" THEN "stub" ELSE "llm",
                      paid |-> t.paid, turn |-> t.id])
    /\ turn' = [turn EXCEPT ![w] = NoTurn]
    /\ UNCHANGED <<key, time, cache, briefs, admin, faults, past>>

-----------------------------------------------------------------------------
\* save_chat_message_as_brief: a reply of the model, under the question right
\* before it
Preceding(a) ==
    LET asked == {r.id : r \in {u \in Earlier(a.session, a.id) : u.role = "user"}}
    IN  CHOOSE n \in asked \cup {0} : \A k \in asked : k <= n

\* INSERT INTO kb.briefs
FileBrief(brief) ==
    /\ admin < MaxAdmin
    /\ admin' = admin + 1
    /\ briefs' = briefs \cup {brief}

SaveBrief(a) ==
    /\ a.tier = "llm"
    /\ FileBrief([session |-> a.session, title |-> Preceding(a), of |-> a.turn])
    /\ UNCHANGED <<key, rows, lastId, time, cache, turn, faults, past>>

\* save_chat_report, chat_brief: no stub tier, no budget.
Report(w, s) ==
    /\ turn[w] = NoTurn
    /\ key
    /\ Cardinality(Transcript(s)) >= 2
    /\ turn' = [turn EXCEPT ![w] = [NoTurn EXCEPT !.pc = "report", !.session = s,
                                                  !.seen = Transcript(s)]]
    /\ UNCHANGED <<key, rows, lastId, time, cache, briefs, admin, faults, past>>

Opening(seen) ==
    LET asked == {r.id : r \in {m \in seen : m.role = "user"}}
    IN  IF asked = {} THEN 0 ELSE CHOOSE n \in asked : \A k \in asked : n <= k

\* 502, or kb.briefs takes the report, under its first question.
ReportEnds(w) ==
    /\ turn[w].pc = "report"
    /\ turn' = [turn EXCEPT ![w] = NoTurn]
    /\ \/ UNCHANGED <<briefs, admin>>
       \/ FileBrief([session |-> turn[w].session, of |-> 0, title |-> Opening(turn[w].seen)])
    /\ UNCHANGED <<key, rows, lastId, time, cache, faults, past>>

-----------------------------------------------------------------------------
\* What the death of a set of turns leaves behind
Abandon(W) ==
    /\ faults < MaxFaults
    /\ faults' = faults + 1
    /\ lost' = lost \cup ({turn[w].id : w \in W} \ {0})
    /\ disturbed' = disturbed \cup {turn[w].session : w \in {v \in W : turn[v].id # 0}}
    /\ turn' = [w \in Workers |-> IF w \in W THEN NoTurn ELSE turn[w]]
    /\ UNCHANGED <<rows, lastId, time, cache, briefs, admin>>

\* A statement outside any try fails: the route answers 500.
Die(w) == turn[w] # NoTurn /\ Abandon({w}) /\ UNCHANGED key

\* The server restarts, with or without a key.
Restart == Abandon(Workers) /\ key' \in BOOLEAN

\* chats_delete: a conversation goes, whatever is in flight in it.
DeleteSession(s) ==
    /\ admin < MaxAdmin
    /\ admin' = admin + 1
    /\ rows' = {r \in rows : r.session # s}
    /\ UNCHANGED <<key, lastId, time, cache, briefs, turn, faults, past>>

\* chats_prune: rows go by their age, which may part a question from its answer.
Prune(n) ==
    /\ admin < MaxAdmin
    /\ admin' = admin + 1
    /\ rows' = {r \in rows : r.id > n}
    /\ UNCHANGED <<key, lastId, time, cache, briefs, turn, faults, past>>

MinutePasses ==
    /\ minute # lastId
    /\ minute' = lastId
    /\ UNCHANGED <<key, rows, lastId, day, cache, briefs, turn, admin, faults, past>>

\* The cached replies expire, too.
DayPasses ==
    /\ day # lastId
    /\ minute' = lastId /\ day' = lastId
    /\ cache' = {}
    /\ UNCHANGED <<key, rows, lastId, briefs, turn, admin, faults, past>>

Step(w) ==
    \/ CheckRate(w) \/ CheckBudget(w) \/ Ask(w) \/ LoadHistory(w) \/ CacheHit(w) \/ CacheMiss(w)
    \/ (\E whole \in BOOLEAN : Reply(w, whole)) \/ ReplyFails(w) \/ CacheStore(w)
    \/ StubReply(w) \/ Answer(w) \/ ReportEnds(w)

Next ==
    \/ \E w \in Workers, s \in Sessions, q \in Questions, continued \in BOOLEAN :
          Send(w, s, q, continued)
    \/ \E a \in rows : SaveBrief(a)
    \/ \E w \in Workers, s \in Sessions : Report(w, s)
    \/ \E w \in Workers : Step(w) \/ Die(w)
    \/ Restart
    \/ \E s \in Sessions : DeleteSession(s)
    \/ \E n \in 1 .. day : Prune(n)
    \/ MinutePasses \/ DayPasses

Spec == Init /\ [][Next]_vars

-----------------------------------------------------------------------------
\* What a model is about to be handed
Heard == {turn[w] : w \in {v \in Workers : turn[v].pc \in {"model", "report"}}}

\* answer, _recent_user_count: the count and the insert are separate, so a
\* conversation passes its limit by the other turns of the pool, and no more.
RateBound == \A s \in Sessions : RecentUserCount(s) <= Limit + Cardinality(Workers) - 1

\* answer, _daily_budget_exceeded: the tokens are counted when a turn ends, so
\* the day's budget is passed by the replies in flight, and no more.
BudgetBound == Used < Budget + Cardinality(Workers) * Cost

\* _drop_stub_pairs: no stub reply reaches a model, whatever overlapped, died
\* or was deleted.
NoStubHeard == \A t \in Heard : \A r \in t.seen : r.tier # "stub"

\* _repair_window, _drop_stub_pairs: in a conversation whose turns neither
\* overlapped nor died, the history handed over is question and answer in turn,
\* each answer to its own question; and a reply saved as a brief bears its own
\* question for a title, if any.
Paired(W) ==
    \A r \in W :
        IF r.role = "user"
        THEN \E a \in W : a.role = "assistant" /\ a.turn = r.id /\ Follows(W, r, a)
        ELSE \E u \in W : u.role = "user" /\ u.id = r.turn /\ Follows(W, u, r)

HistoryPaired ==
    /\ \A b \in briefs : b.of # 0 /\ b.session \notin disturbed => b.title \in {0, b.of}
    /\ \A t \in Heard : t.pc = "model" /\ t.session \notin disturbed => Paired(t.seen)

\* answer: in such a conversation a reply is taken from the cache only for its
\* first question, or where every question that the window shows got a stub reply.
\* A reply cut off from its question is not shown to the model, and counts for
\* nothing here, of whatever tier.
CacheFirstTurn ==
    \A w \in Workers : LET t == turn[w] IN
        t.tier = "cached" /\ t.session \notin disturbed =>
            LET window == Newest(Earlier(t.session, t.id))
            IN  \A u \in window : u.role = "user" =>
                    \E a \in window : a.tier = "stub" /\ a.turn = u.id

\* answer: a question that was stored has an answer, of one tier or another,
\* or its turn is under way or died.
QuestionKept ==
    \A r \in rows : r.role = "user" =>
        \/ r.id \in lost
        \/ \E w \in InFlight : turn[w].id = r.id
        \/ \E a \in rows : a.role = "assistant" /\ a.turn = r.id
=============================================================================
