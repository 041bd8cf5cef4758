----------------------------- MODULE TgBotProofs -----------------------------
(***************************************************************************)
(* The safety properties of TgBot, for any admins, guests, codes and       *)
(* bounds, from one inductive invariant: what the bot forgot or never      *)
(* saved is told from what it keeps, and what a poll may still serve from  *)
(* what it has confirmed.                                                  *)
(***************************************************************************)
EXTENDS TgBot, TLAPS

\* The process is past its drain: it has an offset to go by.
Polling == bot.pc \in {"poll", "save", "reply"}

\* Something is left to be saved or told.
Pending == bot.pc \in {"save", "reply"}

\* The newest update waits for as long as any does.
QueueSound == queue # {} => lastId \in Ids(queue)

\* A poll cannot serve what was handled, but for what a start let in again.
OffsetSound ==
    Polling => \A u \in queue : u.id \in handled => u.id < bot.offset \/ u.id \in again

\* The batch lies ahead of the offset.
BatchSound ==
    /\ ~Polling => bot.batch = {}
    /\ \A u \in bot.batch : u.id >= bot.offset

\* An answer waits only between a handler and its message.
ReplySound ==
    /\ ~Pending => bot.reply = NoReply
    /\ bot.reply.kind \in {"welcome", "invite"} => bot.reply.code \in Codes
    /\ bot.reply.kind \in {"welcome", "revoked"} => bot.reply.user \in Guests

\* What a save failed to write is still in memory.
DirtySound == dirty => bot.pc # "down" /\ bot.pc # "drain"

\* A code that somebody was welcomed with is used up, in memory and on disk;
\* one that somebody is about to be, in memory, and on disk once saved.
UsedInMem(c)  == mem.invites[c] = "used"
UsedOnDisk(c) == disk.invites[c] = "used" \/ dirty

WelcomeSound ==
    tainted \/
    /\ \A x, y \in welcomed : x[1] = y[1] => x[2] = y[2]
    /\ \A x \in welcomed : (bot.pc # "down" => UsedInMem(x[1])) /\ UsedOnDisk(x[1])
    /\ bot.reply.kind = "welcome" =>
         /\ UsedInMem(bot.reply.code)
         /\ bot.pc = "reply" => UsedOnDisk(bot.reply.code)
         /\ \A x \in welcomed : x[1] # bot.reply.code

\* So is a revoked guest out, and one about to be reported revoked.
OutOfMem(g)  == mem.invited[g] = 0
OutOfDisk(g) == disk.invited[g] = 0 \/ dirty

RevokeSound ==
    tainted \/
    /\ \A g \in revoked : OutOfMem(g) /\ OutOfDisk(g)
    /\ bot.reply.kind = "revoked" =>
         /\ OutOfMem(bot.reply.user)
         /\ bot.pc = "reply" => OutOfDisk(bot.reply.user)

-----------------------------------------------------------------------------
(***************************************************************************)
(* Types.                                                                  *)
(***************************************************************************)
StateType == mem \in AllowlistState /\ disk \in AllowlistState

QueueType ==
    /\ queue \subseteq Update
    /\ \A u, v \in queue : u.id = v.id => u = v
    /\ \A u \in queue : /\ u.cmd = "start" => u.code \in Codes
                        /\ u.cmd = "revoke" => u.target \in Guests

BotType ==
    bot \in [pc : {"down", "drain", "poll", "save", "reply"},
             offset : 0 .. lastId + 1, batch : SUBSET queue, reply : Reply]

LedgerType ==
    /\ handled \subseteq 1 .. lastId /\ skipped \subseteq 1 .. lastId
    /\ twice \subseteq handled /\ again \subseteq handled

WordType ==
    /\ expired \subseteq Codes /\ told \subseteq Codes
    /\ welcomed \subseteq Codes \X Guests /\ revoked \subseteq Guests
    /\ dirty \in BOOLEAN /\ tainted \in BOOLEAN

\* TypeOK with the range of lastId it implies nowhere.
TypeInv ==
    lastId \in Nat /\ StateType /\ QueueType /\ BotType /\ LedgerType /\ WordType

LEMMA TypeInvIsTypeOK == TypeInv => TypeOK
  BY DEF TypeInv, TypeOK, StateType, QueueType, BotType, LedgerType, WordType

LEMMA InitType == Init => TypeInv
<1> SUFFICES ASSUME Init PROVE TypeInv
  OBVIOUS
<1>1. StateType
  BY BotBounds DEF Init, StateType, AllowlistState, Empty
<1>2. BotType
  BY DEF Init, BotType, Down, NoReply, Reply
<1> QED
  BY <1>1, <1>2 DEF Init, TypeInv, QueueType, LedgerType, WordType

\* What the commands make of the state is a state.
LEMMA RedeemedType ==
  ASSUME StateType, NEW u \in Guests, NEW c \in Codes
  PROVE  /\ Redeemed(u, c) \in AllowlistState
         /\ Redeemed(u, c).invited = [mem.invited EXCEPT ![u] = c]
         /\ Redeemed(u, c).invites = [mem.invites EXCEPT ![c] = "used"]
  BY DEF StateType, AllowlistState, Redeemed

LEMMA CreatedType ==
  ASSUME StateType, NEW c \in Codes
  PROVE  /\ Created(c) \in AllowlistState
         /\ Created(c).invited = mem.invited
         /\ Created(c).invites = [mem.invites EXCEPT ![c] = "open"]
  BY DEF StateType, AllowlistState, Created

LEMMA RevokedType ==
  ASSUME StateType, NEW g \in Guests
  PROVE  /\ Revoked(g) \in AllowlistState
         /\ Revoked(g).invited = [mem.invited EXCEPT ![g] = 0]
         /\ Revoked(g).invites = mem.invites
  BY DEF StateType, AllowlistState, Revoked

LEMMA LoadedType == StateType => Loaded \in AllowlistState /\ Empty \in AllowlistState
  BY BotBounds DEF StateType, Loaded, Empty, AllowlistState

\* The offset behind the newest update, which waits if any does.
LEMMA ResumeBounds ==
  ASSUME TypeInv, QueueSound
  PROVE  /\ ResumeAfter(queue) \in 0 .. lastId + 1
         /\ \A u \in queue : u.id < ResumeAfter(queue)
<1>1. \A u \in queue : u.id \in 1 .. lastId
  BY DEF TypeInv, QueueType, Update
<1>2. CASE queue = {}
  BY <1>2 DEF ResumeAfter, TypeInv
<1>3. CASE queue # {}
  <2> DEFINE Newest(n) == n \in Ids(queue) /\ \A k \in Ids(queue) : k <= n
  <2>1. \A k \in Ids(queue) : k \in 1 .. lastId
    BY <1>1 DEF Ids
  <2>2. Newest(lastId)
    BY <1>3, <2>1 DEF QueueSound
  <2>3. PICK n : n = (CHOOSE x \in Ids(queue) : \A k \in Ids(queue) : k <= x)
    OBVIOUS
  <2>4. Newest(n)
    BY <2>2, <2>3
  <2>5. n = lastId
    BY <2>1, <2>2, <2>4 DEF TypeInv
  <2>6. ResumeAfter(queue) = 1 + lastId
    BY <1>3, <2>3, <2>5 DEF ResumeAfter
  <2> QED
    BY <1>1, <2>6 DEF TypeInv
<1> QED
  BY <1>2, <1>3

LEMMA SayType ==
  ASSUME TypeInv, NEW user \in Users, NEW cmd \in {"start", "invite", "chat", "revoke"},
         NEW code \in Codes \cup {0}, NEW target \in Guests \cup {0},
         cmd = "start" => code \in Codes, cmd = "revoke" => target \in Guests,
         Say(user, cmd, code, target)
  PROVE  TypeInv'
<1> DEFINE new == [id |-> lastId + 1, from |-> user, cmd |-> cmd, code |-> code, target |-> target]
<1>0. lastId \in Nat /\ lastId' = lastId + 1 /\ queue' = queue \cup {new}
  BY DEF Say, TypeInv
<1>1. \A u \in queue : u \in Update /\ u.id \in 1 .. lastId
  BY DEF TypeInv, QueueType, Update
<1>2. Update \subseteq Update'
  BY <1>0 DEF Update
<1>3. new \in Update'
  BY <1>0 DEF Update
<1>4. QueueType'
  <2>1. queue' \subseteq Update'
    BY <1>0, <1>1, <1>2, <1>3
  <2>2. \A u \in queue : u.id # new.id
    BY <1>0, <1>1
  <2>3. \A u, v \in queue' : u.id = v.id => u = v
    BY <1>0, <2>2 DEF TypeInv, QueueType
  <2>4. \A u \in queue' : /\ u.cmd = "start" => u.code \in Codes
                          /\ u.cmd = "revoke" => u.target \in Guests
    BY <1>0 DEF TypeInv, QueueType
  <2> QED
    BY <2>1, <2>3, <2>4 DEF QueueType
<1>5. BotType'
  BY <1>0 DEF Say, TypeInv, BotType
<1>6. LedgerType'
  BY <1>0 DEF Say, ledger, TypeInv, LedgerType
<1>7. StateType' /\ WordType'
  BY DEF Say, word, TypeInv, StateType, WordType
<1> QED
  BY <1>0, <1>4, <1>5, <1>6, <1>7 DEF TypeInv

\* Who is not allowed is a guest.
LEMMA StrangerIsGuest == \A u \in Users : ~Allowed(u) => u \in Guests
  BY DEF Users, Allowed

LEMMA CommandType ==
  ASSUME TypeInv, NEW m \in bot.batch, Command(m), UNCHANGED <<queue, lastId, disk>>
  PROVE  StateType' /\ BotType'
<1>1. m \in queue /\ m \in Update /\ m.from \in Users /\ m.id \in 1 .. lastId
  BY DEF TypeInv, BotType, QueueType, Update
<1>2. m.cmd = "start" => m.code \in Codes
  BY <1>1 DEF TypeInv, QueueType
<1>3. m.cmd = "revoke" => m.target \in Guests
  BY <1>1 DEF TypeInv, QueueType
<1>4. Offset(m) \in 0 .. lastId + 1 /\ bot.batch \ {m} \in SUBSET queue
  BY <1>1 DEF Offset, TypeInv, BotType
<1>5. CASE Says(m)
  BY <1>4, <1>5 DEF Says, TypeInv, StateType, BotType
<1>6. ASSUME NEW state \in AllowlistState, NEW reply \in Reply, Changes(m, state, reply)
      PROVE  StateType' /\ BotType'
  BY <1>4, <1>6 DEF Changes, TypeInv, StateType, BotType
<1>7. CASE m.cmd = "start"
  <2>1. ASSUME ~Allowed(m.from), Changes(m, Redeemed(m.from, m.code),
                 [kind |-> "welcome", code |-> m.code, user |-> m.from])
        PROVE  StateType' /\ BotType'
    <3>1. m.from \in Guests /\ m.code \in Codes
      BY <1>1, <1>2, <1>7, <2>1, StrangerIsGuest
    <3>2. Redeemed(m.from, m.code) \in AllowlistState
      BY <3>1, RedeemedType DEF TypeInv
    <3>3. [kind |-> "welcome", code |-> m.code, user |-> m.from] \in Reply
      BY <3>1 DEF Reply
    <3> QED
      BY <1>6, <2>1, <3>2, <3>3
  <2> QED
    BY <1>5, <1>7, <2>1 DEF Command, StartCommand
<1>8. ASSUME NEW c \in Codes,
             Changes(m, Created(c), [kind |-> "invite", code |-> c, user |-> m.from])
      PROVE  StateType' /\ BotType'
  <2>1. Created(c) \in AllowlistState
    BY CreatedType DEF TypeInv
  <2>2. [kind |-> "invite", code |-> c, user |-> m.from] \in Reply
    BY <1>1 DEF Reply, Users
  <2> QED
    BY <1>6, <1>8, <2>1, <2>2
<1>9. ASSUME m.cmd = "revoke",
             Changes(m, Revoked(m.target), [kind |-> "revoked", code |-> 0, user |-> m.target])
      PROVE  StateType' /\ BotType'
  <2>1. Revoked(m.target) \in AllowlistState
    BY <1>3, <1>9, RevokedType DEF TypeInv
  <2>2. [kind |-> "revoked", code |-> 0, user |-> m.target] \in Reply
    BY <1>3, <1>9 DEF Reply
  <2> QED
    BY <1>6, <1>9, <2>1, <2>2
<1> QED
  BY <1>5, <1>7, <1>8, <1>9 DEF Command, InviteCommand, RevokeCommand, FreshCodes

LEMMA DownType ==
  ASSUME lastId \in Nat
  PROVE  /\ Down \in [pc : {"down"}, offset : 0 .. lastId + 1, batch : {{}}, reply : Reply]
         /\ [Down EXCEPT !.pc = "drain"]
              \in [pc : {"drain"}, offset : 0 .. lastId + 1, batch : {{}}, reply : Reply]
<1>1. NoReply \in Reply /\ 0 \in 0 .. lastId + 1
  BY DEF NoReply, Reply
<1> QED
  BY <1>1 DEF Down

LEMMA StepType == TypeInv /\ QueueSound /\ ReplySound /\ [Next]_vars => TypeInv'
<1> SUFFICES ASSUME TypeInv, QueueSound, ReplySound, [Next]_vars PROVE TypeInv'
  OBVIOUS
<1> USE DEF TypeInv, StateType, QueueType, BotType, LedgerType, WordType,
            telegram, ledger, word
<1>1. CASE Write
  <2>1. ASSUME NEW u \in Users, NEW c \in told, Say(u, "start", c, 0) PROVE TypeInv'
    BY <2>1, SayType
  <2>2. ASSUME NEW u \in Users, Say(u, "invite", 0, 0) \/ Say(u, "chat", 0, 0) PROVE TypeInv'
    BY <2>2, SayType
  <2>3. ASSUME NEW u \in Users, NEW g \in Guests, Say(u, "revoke", 0, g) PROVE TypeInv'
    BY <2>3, SayType
  <2> QED
    BY <1>1, <2>1, <2>2, <2>3 DEF Write, Users
<1>2. CASE \E c \in Codes : Expire(c)
  BY <1>2 DEF Expire, Update
<1>3. CASE Start \/ StartEmpty
  <2>1. BotType'
    BY <1>3, DownType DEF Start, StartEmpty
  <2> QED
    BY <1>3, <2>1, LoadedType DEF Start, StartEmpty, Update
<1>4. CASE Drain
  <2>1. ResumeAfter(queue) \in 0 .. lastId + 1
    BY ResumeBounds
  <2>2. Ids(queue) \subseteq 1 .. lastId
    BY DEF Ids, Update
  <2> QED
    BY <1>4, <2>1, <2>2 DEF Drain, Update
<1>5. CASE DrainFails
  BY <1>5 DEF DrainFails, Update
<1>6. CASE Poll
  <2>1. queue' \subseteq queue /\ Oldest(queue') \subseteq queue'
    BY <1>6 DEF Poll, Oldest
  <2> QED
    BY <1>6, <2>1 DEF Poll, Update
<1>7. CASE HandleUpdate
  <2>1. PICK m \in bot.batch :
          /\ Command(m)
          /\ handled' = handled \cup {m.id}
          /\ twice' = twice \cup ({m.id} \cap handled)
          /\ revoked' = IF m.cmd = "start" /\ mem' # mem THEN revoked \ {m.from} ELSE revoked
    BY <1>7 DEF HandleUpdate
  <2>2. /\ UNCHANGED <<queue, lastId, told, expired, disk, skipped, again, welcomed,
                      dirty, tainted>>
    BY <1>7 DEF HandleUpdate
  <2>3. StateType' /\ BotType'
    BY <2>1, <2>2, CommandType
  <2>4. m.id \in 1 .. lastId
    BY DEF Update
  <2>5. LedgerType'
    BY <2>1, <2>2, <2>4
  <2>6. WordType'
    BY <2>1, <2>2
  <2>7. QueueType' /\ lastId' \in Nat
    BY <2>2 DEF Update
  <2> QED
    BY <2>3, <2>5, <2>6, <2>7
<1>8. CASE SaveState \/ SaveFails
  BY <1>8 DEF SaveState, SaveFails, Update
<1>9. ASSUME NEW arrives \in BOOLEAN, SendMessage(arrives) PROVE TypeInv'
  <2>1. NoReply \in Reply
    BY DEF NoReply, Reply
  <2>2. BotType'
    BY <1>9, <2>1 DEF SendMessage
  <2>3. bot.reply.kind = "invite" => bot.reply.code \in Codes
    BY DEF ReplySound
  <2>4. bot.reply.kind = "welcome" => <<bot.reply.code, bot.reply.user>> \in Codes \X Guests
    BY DEF ReplySound
  <2>5. bot.reply.kind = "revoked" => bot.reply.user \in Guests
    BY DEF ReplySound
  <2>6. WordType'
    BY <1>9, <2>3, <2>4, <2>5 DEF SendMessage
  <2> QED
    BY <1>9, <2>2, <2>6 DEF SendMessage, Update
<1>10. CASE Stop \/ Killed
  <2>1. BotType'
    BY <1>10, DownType DEF Stop, Killed, Ends
  <2> QED
    BY <1>10, <2>1, LoadedType DEF Stop, Killed, Ends, Update
<1>11. CASE UNCHANGED vars
  BY <1>11 DEF vars, Update
<1> QED
  BY <1>1, <1>2, <1>3, <1>4, <1>5, <1>6, <1>7, <1>8, <1>9, <1>10, <1>11 DEF Next, Step

-----------------------------------------------------------------------------
(***************************************************************************)
(* The inductive invariant.                                                *)
(***************************************************************************)
IInv ==
    /\ TypeInv
    /\ QueueSound
    /\ OffsetSound
    /\ BatchSound
    /\ ReplySound
    /\ DirtySound
    /\ WelcomeSound
    /\ RevokeSound
    /\ HandledOnce

LEMMA InitIInv == Init => IInv
<1> SUFFICES ASSUME Init PROVE IInv
  OBVIOUS
<1>1. TypeInv
  BY InitType
<1>2. QueueSound /\ OffsetSound /\ BatchSound /\ ReplySound
  BY DEF Init, Down, NoReply, QueueSound, OffsetSound, BatchSound, ReplySound, Polling, Pending
<1>3. DirtySound /\ WelcomeSound /\ RevokeSound /\ HandledOnce
  BY DEF Init, Down, NoReply, DirtySound, WelcomeSound, RevokeSound, HandledOnce
<1> QED
  BY <1>1, <1>2, <1>3 DEF IInv

\* What a handler does, in the terms of the invariant.
Moves(m) ==
    /\ bot'.offset = m.id + 1
    /\ bot'.batch = bot.batch \ {m}
    /\ bot'.pc \in {"save", "reply"}

SaysOnly == mem' = mem /\ bot'.reply = bot.reply /\ bot'.pc = "reply"

LetsIn(u, c) ==
    /\ bot'.pc = "save" /\ bot'.reply = [kind |-> "welcome", code |-> c, user |-> u]
    /\ mem.invites[c] = "open" /\ mem' = Redeemed(u, c)

Invites(c) ==
    /\ bot'.pc = "save" /\ bot'.reply.kind = "invite" /\ bot'.reply.code = c
    /\ mem.invites[c] = "none" /\ mem' = Created(c)

Revokes(g) ==
    /\ bot'.pc = "save" /\ bot'.reply.kind = "revoked" /\ bot'.reply.user = g
    /\ mem' = Revoked(g)

LEMMA CommandEffect ==
  ASSUME TypeInv, NEW m \in bot.batch, Command(m)
  PROVE  /\ Moves(m)
         /\ \/ SaysOnly
            \/ m.cmd = "start" /\ m.from \in Guests /\ m.code \in Codes /\ LetsIn(m.from, m.code)
            \/ \E c \in Codes : Invites(c)
            \/ \E g \in Guests : Revokes(g)
<1>1. m \in queue /\ m \in Update /\ m.from \in Users
  BY DEF TypeInv, BotType, QueueType, Update
<1>2. m.cmd = "start" => m.code \in Codes
  BY <1>1 DEF TypeInv, QueueType
<1>3. m.cmd = "revoke" => m.target \in Guests
  BY <1>1 DEF TypeInv, QueueType
<1>4. bot = [pc |-> bot.pc, offset |-> bot.offset, batch |-> bot.batch, reply |-> bot.reply]
  BY DEF TypeInv, BotType
<1>5. Says(m) => Moves(m) /\ SaysOnly
  BY <1>4 DEF Says, Offset, Moves, SaysOnly
<1>6. \A state, reply : Changes(m, state, reply) =>
        Moves(m) /\ mem' = state /\ bot'.reply = reply /\ bot'.pc = "save"
  BY <1>4 DEF Changes, Offset, Moves
<1>7. CASE m.cmd = "start"
  BY <1>1, <1>2, <1>5, <1>6, <1>7, StrangerIsGuest DEF Command, StartCommand, LetsIn
<1>8. CASE m.cmd # "start"
  <2>1. InviteCommand(m) => Moves(m) /\ (SaysOnly \/ \E c \in Codes : Invites(c))
    <3>1. ASSUME NEW c \in FreshCodes,
                 Changes(m, Created(c), [kind |-> "invite", code |-> c, user |-> m.from])
          PROVE  Moves(m) /\ \E d \in Codes : Invites(d)
      <4>1. c \in Codes /\ mem.invites[c] = "none"
        BY DEF FreshCodes
      <4>2. Moves(m) /\ Invites(c)
        BY <1>6, <3>1, <4>1 DEF Invites
      <4> QED
        BY <4>1, <4>2
    <3> QED
      BY <1>5, <3>1 DEF InviteCommand
  <2>2. m.cmd = "revoke" /\ RevokeCommand(m) =>
          Moves(m) /\ (SaysOnly \/ \E g \in Guests : Revokes(g))
    BY <1>3, <1>5, <1>6 DEF RevokeCommand, Revokes
  <2> QED
    BY <1>5, <1>8, <2>1, <2>2 DEF Command
<1> QED
  BY <1>7, <1>8

\* Telegram takes in an update the bot cannot have handled, and nothing else happens.
Arrives ==
    \E new \in Update' :
       /\ new.id = lastId + 1 /\ lastId' = lastId + 1
       /\ queue' = queue \cup {new}
       /\ UNCHANGED <<disk, mem, bot, ledger, word>>

LEMMA WriteArrives == TypeInv /\ Write => Arrives
<1> SUFFICES ASSUME TypeInv, Write PROVE Arrives
  OBVIOUS
<1>1. ASSUME NEW u \in Users, NEW cmd \in {"start", "invite", "chat", "revoke"},
             NEW code \in Codes \cup {0}, NEW target \in Guests \cup {0},
             Say(u, cmd, code, target)
      PROVE  Arrives
  <2> DEFINE new == [id |-> lastId + 1, from |-> u, cmd |-> cmd, code |-> code, target |-> target]
  <2>1. lastId' = lastId + 1 /\ lastId + 1 \in 1 .. lastId'
    BY <1>1 DEF Say, TypeInv
  <2>2. new \in Update'
    BY <2>1 DEF Update
  <2> QED
    BY <1>1, <2>1, <2>2 DEF Say, Arrives
<1> QED
  BY <1>1 DEF Write, Users, TypeInv, WordType

\* Steps that leave queue and process as they are.
Quiet == UNCHANGED <<queue, lastId, disk, mem, bot, ledger, word>>

-----------------------------------------------------------------------------
(***************************************************************************)
(* One lemma per part of the invariant.                                    *)
(***************************************************************************)
LEMMA QueueStep ==
  ASSUME IInv, TypeInv', [Next]_vars
  PROVE  QueueSound'
<1> USE DEF telegram, ledger, word
<1>1. CASE Arrives
  BY <1>1 DEF Arrives, QueueSound, Ids
<1>2. CASE Poll
  <2> SUFFICES ASSUME queue' # {} PROVE lastId' \in Ids(queue)'
    BY DEF QueueSound
  <2>1. queue' = {u \in queue : u.id >= bot.offset} /\ lastId' = lastId
    BY <1>2 DEF Poll
  <2>2. PICK u \in queue : u.id >= bot.offset
    BY <2>1
  <2>3. PICK v \in queue : v.id = lastId
    BY <2>2 DEF IInv, QueueSound, Ids
  <2>4. u.id \in 1 .. lastId /\ lastId \in Nat /\ bot.offset \in 0 .. lastId + 1
    BY DEF IInv, TypeInv, QueueType, BotType, Update
  <2>5. v \in queue'
    BY <2>1, <2>2, <2>3, <2>4
  <2> QED
    BY <2>1, <2>3, <2>5 DEF Ids
<1>3. CASE UNCHANGED <<queue, lastId>>
  BY <1>3 DEF IInv, QueueSound, Ids
<1> QED
  BY <1>1, <1>2, <1>3, WriteArrives DEF IInv, Next, Step, Expire, Start, StartEmpty, Drain,
     DrainFails, HandleUpdate, SaveState, SaveFails, SendMessage, Stop, Killed, Ends, vars

\* Steps that keep queue, offset, batch and what was handled, or stop the process.
SamePlace ==
    /\ UNCHANGED <<queue, handled, again, twice>>
    /\ bot'.offset = bot.offset /\ bot'.batch = bot.batch
    /\ Polling' <=> Polling

LEMMA PlaceStep ==
  ASSUME IInv, TypeInv', [Next]_vars
  PROVE  OffsetSound' /\ BatchSound' /\ HandledOnce'
<1> USE DEF telegram, ledger, word
<1>0. /\ bot = [pc |-> bot.pc, offset |-> bot.offset, batch |-> bot.batch, reply |-> bot.reply]
      /\ lastId \in Nat /\ bot.offset \in Int
      /\ \A u \in queue : u.id \in 1 .. lastId
      /\ handled \subseteq 1 .. lastId /\ bot.batch \subseteq queue
  BY DEF IInv, TypeInv, QueueType, BotType, LedgerType, Update
<1>1. CASE Arrives
  <2>1. PICK new : new.id = lastId + 1 /\ queue' = queue \cup {new}
                   /\ UNCHANGED <<bot, handled, again, twice>>
    BY <1>1 DEF Arrives
  <2>2. new.id \notin handled
    BY <1>0, <2>1
  <2> QED
    BY <2>1, <2>2 DEF IInv, OffsetSound, BatchSound, HandledOnce, Polling
<1>2. CASE SamePlace
  BY <1>2 DEF SamePlace, IInv, OffsetSound, BatchSound, HandledOnce
<1>3. ASSUME ~Polling', bot'.batch = {}, UNCHANGED <<again, twice>>
      PROVE  OffsetSound' /\ BatchSound' /\ HandledOnce'
  BY <1>3 DEF IInv, OffsetSound, BatchSound, HandledOnce
<1>4. CASE Start \/ StartEmpty \/ Stop \/ Killed
  BY <1>3, <1>4 DEF Start, StartEmpty, Stop, Killed, Ends, Down, Polling
<1>5. CASE Drain
  <2>1. \A u \in queue : u.id < ResumeAfter(queue)
    BY ResumeBounds DEF IInv
  <2>2. bot'.offset = ResumeAfter(queue) /\ bot'.batch = {} /\ UNCHANGED <<queue, again, twice>>
    BY <1>0, <1>5 DEF Drain, IInv, BatchSound, Polling
  <2> QED
    BY <2>1, <2>2 DEF IInv, OffsetSound, BatchSound, HandledOnce
<1>6. CASE DrainFails
  <2>1. /\ bot'.batch = {} /\ UNCHANGED <<queue, handled, twice>>
        /\ again' = again \cup (handled \cap Ids(queue))
    BY <1>0, <1>6 DEF DrainFails, IInv, BatchSound, Polling
  <2> QED
    BY <2>1 DEF IInv, OffsetSound, BatchSound, HandledOnce, Ids
<1>7. CASE Poll
  <2>1. /\ Polling /\ queue' = {u \in queue : u.id >= bot.offset}
        /\ bot'.batch \subseteq queue' /\ bot'.offset = bot.offset
        /\ UNCHANGED <<handled, again, twice>>
    BY <1>0, <1>7 DEF Poll, Oldest, Polling
  <2> QED
    <3>1. \A u \in queue' : u \in queue /\ u.id >= bot.offset
      BY <2>1
    <3>2. OffsetSound'
      BY <2>1, <3>1 DEF IInv, OffsetSound
    <3>3. BatchSound'
      BY <1>7, <2>1, <3>1 DEF BatchSound, Polling, Poll
    <3> QED
      BY <2>1, <3>2, <3>3 DEF IInv, HandledOnce
<1>8. CASE HandleUpdate
  <2>1. PICK m \in bot.batch :
          /\ \A v \in bot.batch : m.id <= v.id
          /\ Command(m)
          /\ handled' = handled \cup {m.id}
          /\ twice' = twice \cup ({m.id} \cap handled)
    BY <1>8 DEF HandleUpdate
  <2>2. UNCHANGED <<queue, again>> /\ Polling
    BY <1>8 DEF HandleUpdate, Polling
  <2>3. Moves(m)
    BY <2>1, CommandEffect DEF IInv
  <2>4. m \in queue /\ m.id \in 1 .. lastId /\ m.id >= bot.offset
    BY <1>0 DEF IInv, BatchSound
  <2>5. OffsetSound'
    <3> SUFFICES ASSUME NEW u \in queue, u.id \in handled \cup {m.id}
                 PROVE  u.id < m.id + 1 \/ u.id \in again
      BY <2>1, <2>2, <2>3 DEF OffsetSound, Moves
    <3>1. u.id \in 1 .. lastId
      BY <1>0
    <3>2. CASE u.id \in handled
      BY <1>0, <2>2, <2>4, <3>1, <3>2 DEF IInv, OffsetSound
    <3>3. CASE u.id = m.id
      BY <2>4, <3>3
    <3> QED
      BY <3>2, <3>3
  <2>6. BatchSound'
    <3>1. \A u \in bot.batch \ {m} : u.id >= m.id + 1
      <4> SUFFICES ASSUME NEW u \in bot.batch, u # m PROVE u.id >= m.id + 1
        OBVIOUS
      <4>1. u.id # m.id
        BY <1>0, <2>4 DEF IInv, TypeInv, QueueType
      <4>2. u.id \in 1 .. lastId /\ m.id <= u.id
        BY <1>0, <2>1
      <4> QED
        BY <1>0, <2>4, <4>1, <4>2
    <3> QED
      BY <2>3, <3>1 DEF BatchSound, Moves, Polling
  <2>7. HandledOnce'
    <3>1. m.id \in handled => m.id \in again
      BY <1>0, <2>2, <2>4 DEF IInv, OffsetSound
    <3> QED
      BY <2>1, <2>2, <3>1 DEF IInv, HandledOnce
  <2> QED
    BY <2>5, <2>6, <2>7
<1>9. CASE \/ \E c \in Codes : Expire(c)
           \/ SaveState \/ SaveFails
           \/ \E arrives \in BOOLEAN : SendMessage(arrives)
           \/ UNCHANGED vars
  BY <1>0, <1>2, <1>9 DEF Expire, SaveState, SaveFails, SendMessage, vars, SamePlace, Polling
<1> QED
  BY <1>1, <1>4, <1>5, <1>6, <1>7, <1>8, <1>9, WriteArrives DEF IInv, Next, Step

\* Steps that keep what the files, the memory and the messages say.
SameWord == UNCHANGED <<disk, mem, welcomed, revoked, dirty, tainted>>

LEMMA ReplyStep ==
  ASSUME IInv, TypeInv', [Next]_vars
  PROVE  ReplySound' /\ DirtySound'
<1> USE DEF telegram, ledger, word
<1>0. bot = [pc |-> bot.pc, offset |-> bot.offset, batch |-> bot.batch, reply |-> bot.reply]
  BY DEF IInv, TypeInv, BotType
<1>1. CASE bot'.pc = bot.pc /\ bot'.reply = bot.reply /\ dirty' = dirty
  BY <1>1 DEF IInv, ReplySound, DirtySound, Pending
<1>2. CASE bot'.reply = NoReply /\ dirty' = FALSE
  BY <1>2 DEF ReplySound, DirtySound, NoReply
<1>3. CASE Arrives \/ Poll \/ (\E c \in Codes : Expire(c)) \/ UNCHANGED vars
  BY <1>0, <1>1, <1>3 DEF Arrives, Poll, Expire, vars
<1>4. CASE Start \/ StartEmpty \/ Stop \/ Killed
  <2>1. bot'.reply = NoReply
    BY <1>4 DEF Start, StartEmpty, Stop, Killed, Ends, Down
  <2>2. ~dirty'
    BY <1>4 DEF Start, StartEmpty, Stop, Killed, Ends, IInv, DirtySound
  <2> QED
    BY <2>1, <2>2 DEF ReplySound, DirtySound, NoReply
<1>5. CASE Drain \/ DrainFails
  <2>1. bot'.reply = bot.reply /\ bot.reply = NoReply /\ dirty' = dirty /\ bot'.pc = "poll"
    BY <1>0, <1>5 DEF Drain, DrainFails, IInv, ReplySound, Pending
  <2> QED
    BY <2>1 DEF ReplySound, DirtySound, NoReply
<1>6. CASE HandleUpdate
  <2>1. PICK m \in bot.batch : Command(m)
    BY <1>6 DEF HandleUpdate
  <2>2. dirty' = dirty /\ bot.reply = NoReply
    BY <1>6 DEF HandleUpdate, IInv, ReplySound, Pending
  <2>3. CASE SaysOnly
    BY <2>2, <2>3 DEF SaysOnly, ReplySound, DirtySound, NoReply, Pending
  <2>4. ASSUME NEW u \in Guests, NEW c \in Codes, LetsIn(u, c)
        PROVE  ReplySound' /\ DirtySound'
    BY <2>4 DEF LetsIn, ReplySound, DirtySound, Pending
  <2>5. ASSUME NEW c \in Codes, Invites(c)
        PROVE  ReplySound' /\ DirtySound'
    BY <2>5 DEF Invites, ReplySound, DirtySound, Pending
  <2>6. ASSUME NEW g \in Guests, Revokes(g)
        PROVE  ReplySound' /\ DirtySound'
    BY <2>6 DEF Revokes, ReplySound, DirtySound, Pending
  <2> QED
    BY <2>1, <2>3, <2>4, <2>5, <2>6, CommandEffect DEF IInv
<1>7. CASE SaveState \/ SaveFails
  <2>1. bot'.pc = "reply" /\ bot'.reply = bot.reply /\ Pending
    BY <1>0, <1>7 DEF SaveState, SaveFails, Pending
  <2> QED
    BY <2>1 DEF IInv, ReplySound, DirtySound, Pending
<1>8. ASSUME NEW arrives \in BOOLEAN, SendMessage(arrives)
      PROVE  ReplySound' /\ DirtySound'
  <2>1. bot'.pc = "poll" /\ bot'.reply = NoReply
    BY <1>0, <1>8 DEF SendMessage
  <2> QED
    BY <2>1 DEF ReplySound, DirtySound, NoReply
<1> QED
  BY <1>3, <1>4, <1>5, <1>6, <1>7, <1>8, WriteArrives DEF IInv, Next, Step

\* What was not saved when the process ends taints.
LEMMA EndsClean == Stop \/ Killed => (~tainted' => ~tainted /\ ~dirty)
  BY Zenon DEF Stop, Killed, Ends

\* Welcomed with a code: no other with the same one, and it is used up.
LEMMA WelcomeStep ==
  ASSUME IInv, TypeInv', [Next]_vars
  PROVE  WelcomeSound'
<1> USE DEF telegram, ledger, word
<1> SUFFICES ASSUME ~tainted'
             PROVE  WelcomeSound'
  BY DEF WelcomeSound
<1>0. /\ bot = [pc |-> bot.pc, offset |-> bot.offset, batch |-> bot.batch, reply |-> bot.reply]
      /\ welcomed \subseteq Codes \X Guests
      /\ mem.invites \in [Codes -> {"none", "open", "used"}]
  BY DEF IInv, TypeInv, BotType, WordType, StateType, AllowlistState
<1>1. CASE SameWord /\ bot'.pc = bot.pc /\ bot'.reply = bot.reply
  BY <1>1 DEF SameWord, IInv, WelcomeSound, UsedInMem, UsedOnDisk
<1>2. CASE Arrives \/ Poll \/ (\E c \in Codes : Expire(c)) \/ UNCHANGED vars
  BY <1>0, <1>1, <1>2 DEF Arrives, Poll, Expire, vars, SameWord
<1>3. CASE Drain \/ DrainFails
  <2>1. SameWord /\ bot'.pc = "poll" /\ bot.pc # "down" /\ bot'.reply = bot.reply
        /\ bot.reply = NoReply
    BY <1>0, <1>3 DEF Drain, DrainFails, SameWord, IInv, ReplySound, Pending
  <2> QED
    BY <2>1 DEF SameWord, IInv, WelcomeSound, UsedInMem, UsedOnDisk, NoReply
<1>4. CASE Start
  <2>1. /\ mem' = disk /\ ~dirty /\ bot'.reply = NoReply
        /\ UNCHANGED <<disk, welcomed, dirty, tainted>>
    BY <1>4 DEF Start, Loaded, Down, IInv, DirtySound
  <2> QED
    BY <2>1 DEF IInv, WelcomeSound, UsedInMem, UsedOnDisk, NoReply
<1>5. CASE StartEmpty
  BY <1>5 DEF StartEmpty
<1>6. CASE Stop \/ Killed
  <2>1. bot'.pc = "down" /\ bot'.reply = NoReply /\ UNCHANGED <<disk, welcomed>>
    BY <1>6 DEF Stop, Killed, Ends, Down
  <2>2. ~tainted /\ ~dirty
    BY <1>6, EndsClean
  <2> QED
    BY <2>1, <2>2 DEF IInv, WelcomeSound, UsedInMem, UsedOnDisk, NoReply
<1>7. CASE HandleUpdate
  <2>1. PICK m \in bot.batch : Command(m)
    BY <1>7 DEF HandleUpdate
  <2>2. /\ bot.pc = "poll" /\ bot.reply = NoReply /\ ~tainted
        /\ UNCHANGED <<disk, welcomed, dirty>>
    BY <1>7 DEF HandleUpdate, IInv, ReplySound, Pending
  <2>3. /\ \A x, y \in welcomed : x[1] = y[1] => x[2] = y[2]
        /\ \A x \in welcomed : mem.invites[x[1]] = "used" /\ UsedOnDisk(x[1])
    BY <2>2 DEF IInv, WelcomeSound, UsedInMem
  <2>4. \A x \in welcomed : UsedOnDisk(x[1])'
    BY <2>2, <2>3 DEF UsedOnDisk
  <2>5. CASE SaysOnly
    BY <2>2, <2>3, <2>4, <2>5 DEF SaysOnly, WelcomeSound, UsedInMem, NoReply
  <2>6. ASSUME NEW u \in Guests, NEW c \in Codes, LetsIn(u, c)
        PROVE  WelcomeSound'
    <3>1. mem'.invites = [mem.invites EXCEPT ![c] = "used"]
      BY <2>6, RedeemedType DEF LetsIn, IInv, TypeInv
    <3>2. \A x \in welcomed : x[1] # c
      BY <2>3, <2>6 DEF LetsIn
    <3>3. \A x \in welcomed : mem'.invites[x[1]] = "used"
      BY <1>0, <2>3, <3>1
    <3>4. mem'.invites[c] = "used"
      BY <1>0, <3>1
    <3>5. bot'.pc = "save" /\ bot'.reply.kind = "welcome" /\ bot'.reply.code = c
      BY <2>6 DEF LetsIn
    <3> QED
      BY <2>2, <2>3, <2>4, <3>2, <3>3, <3>4, <3>5 DEF WelcomeSound, UsedInMem
  <2>7. ASSUME NEW c \in Codes, Invites(c)
        PROVE  WelcomeSound'
    <3>1. mem'.invites = [mem.invites EXCEPT ![c] = "open"]
      BY <2>7, CreatedType DEF Invites, IInv, TypeInv
    <3>2. \A x \in welcomed : x[1] # c
      BY <2>3, <2>7 DEF Invites
    <3>3. \A x \in welcomed : mem'.invites[x[1]] = "used"
      BY <1>0, <2>3, <3>1, <3>2
    <3> QED
      BY <2>2, <2>3, <2>4, <2>7, <3>3 DEF WelcomeSound, UsedInMem, Invites
  <2>8. ASSUME NEW g \in Guests, Revokes(g)
        PROVE  WelcomeSound'
    <3>1. mem'.invites = mem.invites
      BY <2>8, RevokedType DEF Revokes, IInv, TypeInv
    <3> QED
      BY <2>2, <2>3, <2>4, <2>8, <3>1 DEF WelcomeSound, UsedInMem, Revokes
  <2> QED
    BY <2>1, <2>5, <2>6, <2>7, <2>8, CommandEffect DEF IInv
<1>8. CASE SaveState \/ SaveFails
  <2>1. /\ bot.pc = "save" /\ bot'.pc = "reply" /\ bot'.reply = bot.reply
        /\ UNCHANGED <<mem, welcomed, tainted>>
        /\ disk' = mem \/ dirty'
    BY <1>0, <1>8 DEF SaveState, SaveFails
  <2> QED
    BY <2>1 DEF IInv, WelcomeSound, UsedInMem, UsedOnDisk
<1>9. ASSUME NEW arrives \in BOOLEAN, SendMessage(arrives)
      PROVE  WelcomeSound'
  <2>1. /\ bot.pc = "reply" /\ bot'.pc = "poll" /\ bot'.reply = NoReply /\ ~tainted
        /\ UNCHANGED <<disk, mem, dirty>>
    BY <1>0, <1>9 DEF SendMessage
  <2>2. \/ welcomed' = welcomed
        \/ /\ bot.reply.kind = "welcome"
           /\ welcomed' = welcomed \cup {<<bot.reply.code, bot.reply.user>>}
    BY <1>9 DEF SendMessage
  <2>3. CASE welcomed' = welcomed
    BY <2>1, <2>3 DEF IInv, WelcomeSound, UsedInMem, UsedOnDisk, NoReply
  <2>4. CASE bot.reply.kind = "welcome" /\ welcomed' = welcomed \cup {<<bot.reply.code, bot.reply.user>>}
    <3>1. /\ UsedInMem(bot.reply.code) /\ UsedOnDisk(bot.reply.code)
          /\ \A x \in welcomed : x[1] # bot.reply.code
          /\ \A x, y \in welcomed : x[1] = y[1] => x[2] = y[2]
          /\ \A x \in welcomed : UsedInMem(x[1]) /\ UsedOnDisk(x[1])
      BY <2>1, <2>4 DEF IInv, WelcomeSound
    <3>2. \A x \in welcomed' : UsedInMem(x[1]) /\ UsedOnDisk(x[1])
      BY <2>4, <3>1
    <3>3. \A x \in welcomed' : UsedInMem(x[1])' /\ UsedOnDisk(x[1])'
      BY <2>1, <3>2 DEF UsedInMem, UsedOnDisk
    <3>4. \A x, y \in welcomed' : x[1] = y[1] => x[2] = y[2]
      BY <2>4, <3>1
    <3> QED
      BY <2>1, <3>3, <3>4 DEF WelcomeSound, NoReply
  <2> QED
    BY <2>2, <2>3, <2>4
<1> QED
  BY <1>2, <1>3, <1>4, <1>5, <1>6, <1>7, <1>8, <1>9, WriteArrives DEF IInv, Next, Step

\* Revoked: out of memory and of the file, until let in again.
LEMMA RevokeStep ==
  ASSUME IInv, TypeInv', [Next]_vars
  PROVE  RevokeSound'
<1> USE DEF telegram, ledger, word
<1> SUFFICES ASSUME ~tainted'
             PROVE  RevokeSound'
  BY DEF RevokeSound
<1>0. /\ bot = [pc |-> bot.pc, offset |-> bot.offset, batch |-> bot.batch, reply |-> bot.reply]
      /\ revoked \subseteq Guests
      /\ mem.invited \in [Guests -> Codes \cup {0}]
  BY DEF IInv, TypeInv, BotType, WordType, StateType, AllowlistState
<1>1. CASE SameWord /\ bot'.pc = bot.pc /\ bot'.reply = bot.reply
  BY <1>1 DEF SameWord, IInv, RevokeSound, OutOfMem, OutOfDisk
<1>2. CASE Arrives \/ Poll \/ (\E c \in Codes : Expire(c)) \/ UNCHANGED vars
  BY <1>0, <1>1, <1>2 DEF Arrives, Poll, Expire, vars, SameWord
<1>3. CASE Drain \/ DrainFails
  <2>1. SameWord /\ bot'.pc = "poll" /\ bot'.reply = bot.reply /\ bot.reply = NoReply
    BY <1>0, <1>3 DEF Drain, DrainFails, SameWord, IInv, ReplySound, Pending
  <2> QED
    BY <2>1 DEF SameWord, IInv, RevokeSound, OutOfMem, OutOfDisk, NoReply
<1>4. CASE Start
  <2>1. /\ mem' = disk /\ ~dirty /\ bot'.reply = NoReply
        /\ UNCHANGED <<disk, revoked, dirty, tainted>>
    BY <1>4 DEF Start, Loaded, Down, IInv, DirtySound
  <2> QED
    BY <2>1 DEF IInv, RevokeSound, OutOfMem, OutOfDisk, NoReply
<1>5. CASE StartEmpty
  BY <1>5 DEF StartEmpty
<1>6. CASE Stop \/ Killed
  <2>1. /\ bot'.reply = NoReply /\ mem' = Empty /\ UNCHANGED <<disk, revoked>>
    BY <1>6 DEF Stop, Killed, Ends, Down
  <2>2. ~tainted /\ ~dirty
    BY <1>6, EndsClean
  <2>3. \A g \in Guests : Empty.invited[g] = 0
    BY DEF Empty
  <2> QED
    BY <1>0, <2>1, <2>2, <2>3 DEF IInv, RevokeSound, OutOfMem, OutOfDisk, NoReply
<1>7. CASE HandleUpdate
  <2>1. PICK m \in bot.batch :
          /\ Command(m)
          /\ revoked' = IF m.cmd = "start" /\ mem' # mem THEN revoked \ {m.from} ELSE revoked
    BY <1>7 DEF HandleUpdate
  <2>2. /\ bot.pc = "poll" /\ bot.reply = NoReply /\ ~tainted
        /\ UNCHANGED <<disk, dirty>>
    BY <1>7 DEF HandleUpdate, IInv, ReplySound, Pending
  <2>3. \A g \in revoked : mem.invited[g] = 0 /\ OutOfDisk(g)
    BY <2>2 DEF IInv, RevokeSound, OutOfMem
  <2>4. revoked' \subseteq revoked
    BY <2>1
  <2>5. \A g \in revoked' : mem.invited[g] = 0 /\ OutOfDisk(g)'
    BY <2>2, <2>3, <2>4 DEF OutOfDisk
  <2>6. CASE SaysOnly
    BY <2>2, <2>5, <2>6 DEF SaysOnly, RevokeSound, OutOfMem, NoReply
  <2>7. CASE m.cmd = "start" /\ m.from \in Guests /\ m.code \in Codes /\ LetsIn(m.from, m.code)
    <3>1. mem'.invites = [mem.invites EXCEPT ![m.code] = "used"]
          /\ mem'.invited = [mem.invited EXCEPT ![m.from] = m.code]
      BY <2>7, RedeemedType DEF LetsIn, IInv, TypeInv
    <3>2. mem.invites[m.code] = "open" /\ mem.invites \in [Codes -> {"none", "open", "used"}]
      BY <2>7 DEF LetsIn, IInv, TypeInv, StateType, AllowlistState
    <3>3. mem' # mem
      BY <2>7, <3>1, <3>2
    <3>4. m.from \notin revoked'
      BY <2>1, <2>7, <3>3
    <3>5. \A g \in revoked' : mem'.invited[g] = 0
      BY <1>0, <2>4, <2>5, <3>1, <3>4
    <3> QED
      BY <2>5, <2>7, <3>5 DEF RevokeSound, OutOfMem, LetsIn
  <2>8. ASSUME NEW c \in Codes, Invites(c)
        PROVE  RevokeSound'
    <3>1. mem'.invited = mem.invited
      BY <2>8, CreatedType DEF Invites, IInv, TypeInv
    <3> QED
      BY <2>5, <2>8, <3>1 DEF RevokeSound, OutOfMem, Invites
  <2>9. ASSUME NEW g \in Guests, Revokes(g)
        PROVE  RevokeSound'
    <3>1. mem'.invited = [mem.invited EXCEPT ![g] = 0]
      BY <2>9, RevokedType DEF Revokes, IInv, TypeInv
    <3>2. mem'.invited[g] = 0 /\ \A h \in revoked' : mem'.invited[h] = 0
      BY <1>0, <2>4, <2>5, <3>1
    <3>3. bot'.pc = "save" /\ bot'.reply.user = g
      BY <2>9 DEF Revokes
    <3> QED
      BY <2>5, <3>2, <3>3 DEF RevokeSound, OutOfMem
  <2> QED
    BY <2>1, <2>6, <2>7, <2>8, <2>9, CommandEffect DEF IInv
<1>8. CASE SaveState \/ SaveFails
  <2>1. /\ bot.pc = "save" /\ bot'.pc = "reply" /\ bot'.reply = bot.reply
        /\ UNCHANGED <<mem, revoked, tainted>>
        /\ disk' = mem \/ dirty'
    BY <1>0, <1>8 DEF SaveState, SaveFails
  <2> QED
    BY <2>1 DEF IInv, RevokeSound, OutOfMem, OutOfDisk
<1>9. ASSUME NEW arrives \in BOOLEAN, SendMessage(arrives)
      PROVE  RevokeSound'
  <2>1. /\ bot.pc = "reply" /\ bot'.reply = NoReply /\ ~tainted
        /\ UNCHANGED <<disk, mem, dirty>>
    BY <1>0, <1>9 DEF SendMessage
  <2>2. \A g \in revoked' : g \in revoked \/ (bot.reply.kind = "revoked" /\ g = bot.reply.user)
    BY <1>9 DEF SendMessage
  <2>3. \A g \in revoked' : OutOfMem(g) /\ OutOfDisk(g)
    BY <2>1, <2>2 DEF IInv, RevokeSound
  <2>4. \A g \in revoked' : OutOfMem(g)' /\ OutOfDisk(g)'
    BY <2>1, <2>3 DEF OutOfMem, OutOfDisk
  <2> QED
    BY <2>1, <2>4 DEF RevokeSound, NoReply
<1> QED
  BY <1>2, <1>3, <1>4, <1>5, <1>6, <1>7, <1>8, <1>9, WriteArrives DEF IInv, Next, Step

LEMMA StepIInv == IInv /\ [Next]_vars => IInv'
<1> SUFFICES ASSUME IInv, [Next]_vars PROVE IInv'
  OBVIOUS
<1>1. TypeInv'
  BY StepType DEF IInv
<1> QED
  BY <1>1, QueueStep, PlaceStep, ReplyStep, WelcomeStep, RevokeStep DEF IInv

LEMMA InvariantHolds == Spec => []IInv
  BY InitIInv, StepIInv, PTL DEF Spec

-----------------------------------------------------------------------------
(***************************************************************************)
(* Allowlist, offset, batch and messages have their types: the offset      *)
(* stays behind the newest update or right after it.                       *)
(***************************************************************************)
THEOREM TypeCorrect == Spec => []TypeOK
<1>1. IInv => TypeOK
  BY TypeInvIsTypeOK DEF IInv
<1> QED
  BY <1>1, InvariantHolds, PTL

(***************************************************************************)
(* run, drain_backlog: no update is handled twice, over any ends, starts   *)
(* and drains, but those a failed drain lets in again.                     *)
(***************************************************************************)
THEOREM UpdatesHandledOnce == Spec => []HandledOnce
<1>1. IInv => HandledOnce
  BY DEF IInv
<1> QED
  BY <1>1, InvariantHolds, PTL

(***************************************************************************)
(* redeem_invite: a code welcomes one person, unless its use was lost.     *)
(***************************************************************************)
THEOREM CodesWelcomeOnce == Spec => []WelcomedOnce
<1>1. IInv => WelcomedOnce
  BY DEF IInv, WelcomeSound, WelcomedOnce
<1> QED
  BY <1>1, InvariantHolds, PTL

(***************************************************************************)
(* revoke_invited: out is out, over restarts, unless a save was lost.      *)
(***************************************************************************)
THEOREM RevokedStayOut == Spec => []RevokedStaysOut
<1>1. IInv => RevokedStaysOut
  BY DEF IInv, RevokeSound, OutOfMem, RevokedStaysOut
<1> QED
  BY <1>1, InvariantHolds, PTL
=============================================================================
