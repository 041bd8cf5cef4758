------------------------------ MODULE RateLimit ------------------------------
(***************************************************************************)
(* ratelimit.acquire: the token bucket of one host, a row of               *)
(* host_rate_limits, shared by the fetchers of the pipeline and the        *)
(* crawlers of the knowledge base.                                         *)
(*                                                                         *)
(* Tokens are counted in units of what one tick of the clock refills, so   *)
(* rate_per_sec is 1 and a request costs Cost.  now() is the time at which *)
(* a transaction began: who waits for the row's lock uses an old one.      *)
(***************************************************************************)
EXTENDS Integers

CONSTANTS Consumers,      \* connections that ask for the host
          Burst,          \* config.host_rate_limit_burst
          Cost,           \* acquire's tokens argument
          MaxWait,        \* MAX_WAIT_SECONDS
          MaxLag,         \* ticks a step may come late: a lock, a scheduler
          Horizon,        \* bound: no request begins later
          LastTick        \* bound: the clock stops here

\* The bucket holds at least one request; sleeping takes time.
ASSUME RateBounds ==
    /\ {Burst, Cost, MaxWait, MaxLag, Horizon, LastTick} \subseteq Nat
    /\ 0 < Cost /\ Cost <= Burst
    /\ 0 < MaxWait

\* Every request that has begun can end before the clock stops.
ASSUME ClockOutlivesRequests ==
    Horizon + 2 * (MaxWait + 2 * MaxLag) <= LastTick

VARIABLES clock,
          present,        \* the host has its row
          tokens,
          last_refill,
          pc,             \* where each consumer is in acquire
          began,          \* now() of its transaction
          pass,           \* passes of the loop begun
          wake,           \* when its sleep ends
          asked,          \* history: when the call began
          spent,          \* history: units taken from the bucket
          unpaid,         \* history: units of requests let through without
          rewound         \* history: how far last_refill was set back

bucket == <<present, tokens, last_refill>>
vars   == <<clock, present, tokens, last_refill, pc, began, pass, wake, asked,
            spent, unpaid, rewound>>

TypeOK ==
    /\ clock \in 0 .. LastTick
    /\ present \in BOOLEAN
    /\ tokens \in 0 .. Burst
    /\ last_refill \in 0 .. LastTick
    /\ pc \in [Consumers -> {"idle", "lock", "insert", "sleep"}]
    /\ began \in [Consumers -> 0 .. LastTick]
    /\ pass \in [Consumers -> 0 .. 2]
    /\ wake \in [Consumers -> Nat]
    /\ asked \in [Consumers -> 0 .. LastTick]
    /\ spent \in Nat
    /\ unpaid \in Nat
    /\ rewound \in Nat

Init ==
    /\ clock = 0
    /\ present = FALSE
    /\ tokens = Burst
    /\ last_refill = 0
    /\ pc = [c \in Consumers |-> "idle"]
    /\ began = [c \in Consumers |-> 0]
    /\ pass = [c \in Consumers |-> 0]
    /\ wake = [c \in Consumers |-> 0]
    /\ asked = [c \in Consumers |-> 0]
    /\ spent = 0
    /\ unpaid = 0
    /\ rewound = 0

-----------------------------------------------------------------------------
Least(a, b) == IF a <= b THEN a ELSE b

\* EXTRACT(EPOCH FROM (now() - last_refill)), never below 0
Elapsed(c) == IF began[c] >= last_refill THEN began[c] - last_refill ELSE 0

\* Mutant: refilled past the burst.
AvailableUncapped(c) == tokens + Elapsed(c)

\* What the bucket holds at the consumer's now()
Available(c) == Least(Burst, tokens + Elapsed(c))

\* acquire returns.
Return(c) ==
    /\ pc' = [pc EXCEPT ![c] = "idle"]
    /\ pass' = [pass EXCEPT ![c] = 0]

\* A pass begins: commit, BEGIN, and now() is fixed.
BeginPass(c) ==
    /\ pc' = [pc EXCEPT ![c] = "lock"]
    /\ pass' = [pass EXCEPT ![c] = @ + 1]
    /\ began' = [began EXCEPT ![c] = clock]

Ask(c) ==
    /\ pc[c] = "idle"
    /\ clock <= Horizon
    /\ BeginPass(c)
    /\ asked' = [asked EXCEPT ![c] = clock]
    /\ UNCHANGED <<clock, bucket, wake, spent, unpaid, rewound>>

\* SELECT ... FOR UPDATE finds no row: a host asked for the first time.
NoRow(c) ==
    /\ pc[c] = "lock"
    /\ ~present
    /\ pc' = [pc EXCEPT ![c] = "insert"]
    /\ UNCHANGED <<clock, bucket, began, pass, wake, asked, spent, unpaid, rewound>>

\* ON CONFLICT DO NOTHING: the second of two first requests pays nothing.
Insert(c) ==
    /\ pc[c] = "insert"
    /\ IF present
         THEN /\ unpaid' = unpaid + Cost
              /\ UNCHANGED <<bucket, spent>>
         ELSE /\ present' = TRUE
              /\ tokens' = Burst - Cost
              /\ last_refill' = began[c]
              /\ spent' = spent + Cost
              /\ UNCHANGED unpaid
    /\ Return(c)
    /\ UNCHANGED <<clock, began, wake, asked, rewound>>

\* Mutant: the UPDATE forgets last_refill.
TakeSameRefill(c) ==
    /\ pc[c] = "lock"
    /\ present
    /\ Available(c) >= Cost
    /\ tokens' = Available(c) - Cost
    /\ spent' = spent + Cost
    /\ Return(c)
    /\ UNCHANGED <<clock, present, last_refill, began, wake, asked, unpaid, rewound>>

\* The lock is held from the SELECT to the end of the block: one step.
Take(c) ==
    /\ pc[c] = "lock"
    /\ present
    /\ Available(c) >= Cost
    /\ tokens' = Available(c) - Cost
    /\ last_refill' = began[c]
    /\ spent' = spent + Cost
    /\ rewound' = IF began[c] < last_refill
                    THEN rewound + (last_refill - began[c]) ELSE rewound
    /\ Return(c)
    /\ UNCHANGED <<clock, present, began, wake, asked, unpaid>>

\* Not enough: sleep outside the transaction until the deficit is refilled.
Short(c) ==
    /\ pc[c] = "lock"
    /\ present
    /\ Available(c) < Cost
    /\ wake' = [wake EXCEPT
                  ![c] = clock + Least(MaxWait, Cost - Available(c))]
    /\ pc' = [pc EXCEPT ![c] = "sleep"]
    /\ UNCHANGED <<clock, bucket, began, pass, asked, spent, unpaid,
                   rewound>>

\* Mutant: as many passes as it takes.
AgainAlways(c) ==
    /\ pc[c] = "sleep"
    /\ clock >= wake[c]
    /\ pc' = [pc EXCEPT ![c] = "lock"]
    /\ began' = [began EXCEPT ![c] = clock]
    /\ UNCHANGED <<clock, bucket, pass, wake, asked, spent, unpaid, rewound>>

\* The second pass.
Again(c) ==
    /\ pc[c] = "sleep"
    /\ clock >= wake[c]
    /\ pass[c] < 2
    /\ BeginPass(c)
    /\ UNCHANGED <<clock, bucket, wake, asked, spent, unpaid, rewound>>

\* "Two passes and still short": the request goes out unpaid.
GiveUp(c) ==
    /\ pc[c] = "sleep"
    /\ clock >= wake[c]
    /\ pass[c] = 2
    /\ unpaid' = unpaid + Cost
    /\ Return(c)
    /\ UNCHANGED <<clock, bucket, began, wake, asked, spent, rewound>>

\* Database steps and wake-ups come at most MaxLag late.
OnTime(c) ==
    /\ pc[c] \in {"lock", "insert"} => clock < began[c] + MaxLag
    /\ pc[c] = "sleep" => clock < wake[c] + MaxLag

Tick ==
    /\ clock < LastTick
    /\ \A c \in Consumers : OnTime(c)
    /\ clock' = clock + 1
    /\ UNCHANGED <<bucket, pc, began, pass, wake, asked, spent, unpaid, rewound>>

\* The bounded clock has stopped and nobody is waiting.
Stop ==
    /\ clock = LastTick
    /\ \A c \in Consumers : pc[c] = "idle"
    /\ UNCHANGED vars

Acquire(c) ==
    \/ NoRow(c) \/ Insert(c) \/ Take(c) \/ Short(c) \/ Again(c) \/ GiveUp(c)

Next ==
    \/ \E c \in Consumers : Ask(c) \/ Acquire(c)
    \/ Tick
    \/ Stop

Spec == Init /\ [][Next]_vars

-----------------------------------------------------------------------------
(***************************************************************************)
(* The bucket's books: what was taken and what is left is never more than  *)
(* the burst, the time that was refilled, and the time refilled twice      *)
(* because a transaction that had waited for the lock set last_refill      *)
(* back.                                                                   *)
(***************************************************************************)
BucketAccounts == spent + tokens <= Burst + last_refill + rewound

(***************************************************************************)
(* 001_core_schema.sql:135-136: consulted by the fetchers and the crawler  *)
(* "so one forum never sees double our intended rate", the unpaid requests *)
(* included.                                                               *)
(***************************************************************************)
NeverDouble == spent + unpaid <= 2 * (Burst + clock)

(***************************************************************************)
(* ratelimit.py:21: a wait is capped "so a misconfigured bucket cannot     *)
(* stall a run".  However many consumers want the host, a call ends within *)
(* two capped sleeps and the lateness of four steps.                       *)
(***************************************************************************)
CallBounded ==
    \A c \in Consumers :
        pc[c] # "idle" => clock <= asked[c] + 2 * MaxWait + 4 * MaxLag
=============================================================================
