-------------------------------- MODULE TgBot --------------------------------
(***************************************************************************)
(* tgbot/main.py: the Telegram bot.  One process polls getUpdates and      *)
(* handles update after update; who may write to it is kept in memory and, *)
(* after each change, in allowlist.json.  Telegram, which keeps updates    *)
(* until a poll with a higher offset confirms them, is external.           *)
(***************************************************************************)
EXTENDS Integers, FiniteSets

CONSTANTS Admins,         \* CHAT_TELEGRAM_ALLOWED_IDS
          Guests,         \* other people
          Codes,          \* invite codes
          BatchLimit,     \* updates of one answer to getUpdates
          MaxUpdates,     \* bound: updates sent to the bot
          MaxStops,       \* bound: ends of the process
          MaxFaults       \* bound: drains, loads and saves that fail

ASSUME BotBounds ==
    /\ Admins \cap Guests = {}
    /\ Codes \cup {BatchLimit} \subseteq Nat \ {0}
    /\ {MaxUpdates, MaxStops, MaxFaults} \subseteq Nat

Users == Admins \cup Guests

VARIABLES queue,          \* Telegram: updates not confirmed, by id
          lastId,         \* Telegram: update_id of the newest
          disk,           \* allowlist.json
          mem,            \* AllowlistState
          bot,            \* the process
          expired,        \* codes older than INVITE_TTL_DAYS
          told,           \* codes that reached somebody
          stops, faults,
          handled,        \* history: updates handled
          twice,          \* history: updates handled again
          skipped,        \* history: updates drained at a start
          again,          \* history: handled updates that a start let in again
          welcomed,       \* history: <<code, user>> told welcome
          revoked,        \* history: users an admin was told are out
          dirty, tainted  \* history: a save failed; and its state was lost

telegram == <<queue, lastId, told, expired>>
ledger   == <<handled, twice, skipped, again>>
word     == <<welcomed, revoked, dirty, tainted>>
vars     == <<telegram, disk, mem, bot, stops, faults, ledger, word>>

\* invited: the code of each guest, 0 for nobody's; invites: the codes' states
Empty == [invited |-> [u \in Guests |-> 0], invites |-> [c \in Codes |-> "none"]]

NoReply == [kind |-> "none", code |-> 0, user |-> 0]
Down    == [pc |-> "down", offset |-> 0, batch |-> {}, reply |-> NoReply]
Ids(q)  == {u.id : u \in q}

AllowlistState == [invited : [Guests -> Codes \cup {0}],
                   invites : [Codes -> {"none", "open", "used"}]]

Update == [id : 1 .. lastId, from : Users, cmd : {"start", "invite", "chat", "revoke"},
           code : Codes \cup {0}, target : Guests \cup {0}]

Reply == [kind : {"none", "welcome", "invite", "revoked"}, code : Codes \cup {0},
          user : Guests \cup Admins \cup {0}]

TypeOK ==
    /\ {mem, disk} \subseteq AllowlistState
    /\ queue \subseteq Update
    /\ \A u, v \in queue : u.id = v.id => u = v
    /\ \A u \in queue : /\ u.cmd = "start" => u.code \in Codes
                        /\ u.cmd = "revoke" => u.target \in Guests
    /\ bot \in [pc : {"down", "drain", "poll", "save", "reply"},
                offset : 0 .. lastId + 1, batch : SUBSET queue, reply : Reply]
    /\ expired \cup told \subseteq Codes
    /\ handled \cup skipped \subseteq 1 .. lastId
    /\ twice \cup again \subseteq handled
    /\ welcomed \subseteq Codes \X Guests /\ revoked \subseteq Guests
    /\ {dirty, tainted} \subseteq BOOLEAN

Init ==
    /\ queue = {} /\ lastId = 0
    /\ disk = Empty /\ mem = Empty
    /\ bot = Down
    /\ expired = {} /\ told = {}
    /\ stops = 0 /\ faults = 0
    /\ handled = {} /\ twice = {} /\ skipped = {} /\ again = {}
    /\ welcomed = {} /\ revoked = {}
    /\ dirty = FALSE /\ tainted = FALSE

-----------------------------------------------------------------------------
\* Somebody writes to the bot.
Say(user, cmd, code, target) ==
    /\ lastId < MaxUpdates
    /\ lastId' = lastId + 1
    /\ queue' = queue \cup {[id |-> lastId + 1, from |-> user, cmd |-> cmd,
                              code |-> code, target |-> target]}
    /\ UNCHANGED <<disk, mem, bot, expired, told, stops, faults, ledger, word>>

Write ==
    \/ \E u \in Users, c \in told : Say(u, "start", c, 0)
    \/ \E u \in Users : Say(u, "invite", 0, 0)
    \/ \E a \in Admins : Say(a, "chat", 0, 0)
    \/ \E a \in Admins, g \in Guests : Say(a, "revoke", 0, g)

\* A week passes.
Expire(c) ==
    /\ c \in told \ expired
    /\ expired' = expired \cup {c}
    /\ UNCHANGED <<queue, lastId, told, disk, mem, bot, stops, faults,
                   ledger, word>>

-----------------------------------------------------------------------------
\* Mutant: only who was invited is read back, the codes as issued.
LoadedOpen == [disk EXCEPT !.invites = [c \in Codes |-> IF disk.invites[c] = "none" THEN "none" ELSE "open"]]

\* load_state
Loaded == disk

Start ==
    /\ bot.pc = "down"
    /\ bot' = [Down EXCEPT !.pc = "drain"]
    /\ mem' = Loaded
    /\ UNCHANGED <<telegram, disk, stops, faults, ledger, word>>

\* allowlist.json is unreadable: the bot starts with nobody invited.
StartEmpty ==
    /\ bot.pc = "down"
    /\ disk # Empty
    /\ faults < MaxFaults
    /\ faults' = faults + 1
    /\ bot' = [Down EXCEPT !.pc = "drain"]
    /\ mem' = Empty
    /\ tainted' = TRUE
    /\ UNCHANGED <<telegram, disk, stops, ledger, welcomed, revoked, dirty>>

\* drain_backlog: the poll goes on behind the newest update there is.
ResumeAfter(q) ==
    IF q = {} THEN 0 ELSE 1 + CHOOSE n \in Ids(q) : \A k \in Ids(q) : k <= n

Drain ==
    /\ bot.pc = "drain"
    /\ bot' = [bot EXCEPT !.pc = "poll", !.offset = ResumeAfter(queue)]
    /\ skipped' = skipped \cup Ids(queue)
    /\ UNCHANGED <<telegram, disk, mem, stops, faults, handled, twice, again,
                   word>>

\* The drain fails: offset 0, and Telegram serves all that is not confirmed.
DrainFails ==
    /\ bot.pc = "drain"
    /\ faults < MaxFaults
    /\ faults' = faults + 1
    /\ bot' = [bot EXCEPT !.pc = "poll"]
    /\ again' = again \cup (handled \cap Ids(queue))
    /\ UNCHANGED <<telegram, disk, mem, stops, handled, twice, skipped, word>>

\* What an answer holds: the oldest of the updates that wait.
Oldest(q) == {u \in q : Cardinality({v \in q : v.id < u.id}) < BatchLimit}

\* get_updates: ids below the offset are confirmed, the next ones are the batch.
Poll ==
    /\ bot.pc = "poll" /\ bot.batch = {}
    /\ queue # {}
    /\ queue' = {u \in queue : u.id >= bot.offset}
    /\ bot' = [bot EXCEPT !.batch = Oldest(queue')]
    /\ UNCHANGED <<lastId, told, expired, disk, mem, stops, faults, ledger, word>>

-----------------------------------------------------------------------------
Allowed(u) == u \in Admins \/ (u \in Guests /\ mem.invited[u] # 0)

\* redeem_invite: used_by and invited change together.
Redeemed(u, c) == [mem EXCEPT !.invited[u] = c, !.invites[c] = "used"]

\* create_invite, revoke_invited
Created(c) == [mem EXCEPT !.invites[c] = "open"]
Revoked(g) == [mem EXCEPT !.invited[g] = 0]

\* Mutant: the offset runs one ahead.
OffsetAhead(m) == m.id + 2

\* Mutant: the offset is not moved.
OffsetStuck(m) == bot.offset

\* offset = update_id + 1: with the next poll the update is gone.
Offset(m) == m.id + 1

\* What a handler of update m leaves to be saved, and to be told
Changes(m, state, reply) ==
    /\ mem' = state
    /\ bot' = [bot EXCEPT !.pc = "save", !.batch = @ \ {m}, !.offset = Offset(m),
                          !.reply = reply]

Says(m) ==
    /\ UNCHANGED mem
    /\ bot' = [bot EXCEPT !.pc = "reply", !.batch = @ \ {m}, !.offset = Offset(m)]

\* handle_start_command: who is allowed spends no code.
StartCommand(m) ==
    IF ~Allowed(m.from) /\ mem.invites[m.code] = "open" /\ m.code \notin expired
    THEN Changes(m, Redeemed(m.from, m.code),
                 [kind |-> "welcome", code |-> m.code, user |-> m.from])
    ELSE Says(m)

\* handle_invite_command: a code never issued before (here, the least of them)
FreshCodes == {c \in Codes \ told : mem.invites[c] = "none" /\ disk.invites[c] = "none"}

InviteCommand(m) ==
    IF m.from \in Admins /\ FreshCodes # {}
    THEN \E c \in FreshCodes :
            /\ \A x \in FreshCodes : c <= x
            /\ Changes(m, Created(c), [kind |-> "invite", code |-> c, user |-> m.from])
    ELSE Says(m)

\* Mutant: the change is told, not saved.
RevokeUnsaved(m) ==
    IF m.from \in Admins /\ mem.invited[m.target] # 0
    THEN /\ mem' = Revoked(m.target)
         /\ bot' = [bot EXCEPT !.pc = "reply", !.batch = @ \ {m}, !.offset = Offset(m),
                               !.reply = [kind |-> "revoked", code |-> 0, user |-> m.target]]
    ELSE Says(m)

\* handle_revoke_command
RevokeCommand(m) ==
    IF m.from \in Admins /\ mem.invited[m.target] # 0
    THEN Changes(m, Revoked(m.target), [kind |-> "revoked", code |-> 0, user |-> m.target])
    ELSE Says(m)

\* /start comes before the gate; a stranger's other messages are ignored.
\* The rest, "chat": /new, /who, questions to ask_kbmcp, change no saved state.
Command(m) ==
    IF m.cmd = "start" THEN StartCommand(m)
    ELSE IF Allowed(m.from) /\ m.cmd = "invite" THEN InviteCommand(m)
    ELSE IF Allowed(m.from) /\ m.cmd = "revoke" THEN RevokeCommand(m)
    ELSE Says(m)

\* handle_update, of the next update of the batch
HandleUpdate ==
    /\ bot.pc = "poll"
    /\ \E m \in bot.batch :
          /\ \A v \in bot.batch : m.id <= v.id
          /\ Command(m)
          /\ handled' = handled \cup {m.id}
          /\ twice' = twice \cup ({m.id} \cap handled)
          /\ revoked' = IF m.cmd = "start" /\ mem' # mem THEN revoked \ {m.from} ELSE revoked
    /\ UNCHANGED <<telegram, disk, stops, faults, skipped, again, welcomed, dirty, tainted>>

\* save_state: the file is replaced in one step.
SaveState ==
    /\ bot.pc = "save"
    /\ disk' = mem
    /\ dirty' = FALSE
    /\ bot' = [bot EXCEPT !.pc = "reply"]
    /\ UNCHANGED <<telegram, mem, stops, faults, ledger, welcomed, revoked, tainted>>

\* An OSError is logged, and the answer goes out all the same.
SaveFails ==
    /\ bot.pc = "save"
    /\ faults < MaxFaults
    /\ faults' = faults + 1
    /\ dirty' = TRUE
    /\ bot' = [bot EXCEPT !.pc = "reply"]
    /\ UNCHANGED <<telegram, disk, mem, stops, ledger, welcomed, revoked, tainted>>

\* send_message is best effort: the words may not arrive.
SendMessage(arrives) ==
    LET r == bot.reply IN
    /\ bot.pc = "reply"
    /\ arrives \/ r # NoReply
    /\ told' = IF arrives /\ r.kind = "invite" THEN told \cup {r.code} ELSE told
    /\ welcomed' = IF arrives /\ r.kind = "welcome" THEN welcomed \cup {<<r.code, r.user>>}
                   ELSE welcomed
    /\ revoked' = IF arrives /\ r.kind = "revoked" THEN revoked \cup {r.user} ELSE revoked
    /\ bot' = [bot EXCEPT !.pc = "poll", !.reply = NoReply]
    /\ UNCHANGED <<queue, lastId, expired, disk, mem, stops, faults, ledger,
                   dirty, tainted>>

Ends ==
    /\ stops < MaxStops
    /\ stops' = stops + 1
    /\ bot' = Down
    /\ tainted' = (tainted \/ dirty)
    /\ dirty' = FALSE
    /\ mem' = Empty
    /\ UNCHANGED <<telegram, disk, faults, ledger, welcomed, revoked>>

\* SIGTERM: the loop ends after the batch, which no poll has confirmed.
Stop == bot.pc = "poll" /\ bot.batch = {} /\ Ends

\* The process is killed, anywhere.
Killed == bot.pc # "down" /\ Ends

Step == \/ Start \/ StartEmpty \/ Drain \/ DrainFails \/ Poll \/ HandleUpdate
        \/ SaveState \/ SaveFails
        \/ \E arrives \in BOOLEAN : SendMessage(arrives)

Next == Write \/ (\E c \in Codes : Expire(c)) \/ Step \/ Stop \/ Killed

\* restart: unless-stopped brings the process back; requests time out and the
\* loop tries again.
Spec == Init /\ [][Next]_vars /\ WF_vars(Step)

-----------------------------------------------------------------------------
\* handle_start_command: at most one person is ever welcomed with a code,
\* unless a save failed and its state was lost, or the file was unreadable.
WelcomedOnce ==
    tainted \/ \A x, y \in welcomed : x[1] = y[1] => x[2] = y[2]

\* handle_revoke_command: who was reported revoked stays out, over restarts,
\* until let in again with another code.
RevokedStaysOut ==
    tainted \/ \A g \in revoked : mem.invited[g] = 0

\* run: no update is handled twice, unless a drain failed after it had been
\* handled and before a poll confirmed it.
HandledOnce == twice \subseteq again

\* run: an update is handled, or drained, in the end.
AllSettle ==
    \A id \in 1 .. MaxUpdates : lastId >= id ~> id \in handled \cup skipped
=============================================================================
