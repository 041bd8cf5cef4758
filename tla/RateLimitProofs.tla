--------------------------- MODULE RateLimitProofs ---------------------------
(***************************************************************************)
(* Theorems about RateLimit, for any number of consumers of a host and any *)
(* burst, cost, cap and lateness.                                          *)
(***************************************************************************)
EXTENDS RateLimit, FiniteSetTheorems, TLAPS

-----------------------------------------------------------------------------
\* A database where the host has no row has given nothing away.
Untouched == ~present => spent = 0 /\ last_refill = 0 /\ rewound = 0

\* How late each point of the call can be.
InTransaction(c) ==
    pc[c] \in {"lock", "insert"} =>
        /\ pass[c] \in 1 .. 2
        /\ clock <= began[c] + MaxLag
        /\ pass[c] = 1 => began[c] = asked[c]
        /\ pass[c] = 2 => began[c] <= asked[c] + MaxWait + 2 * MaxLag

Asleep(c) ==
    pc[c] = "sleep" =>
        /\ pass[c] \in 1 .. 2
        /\ clock <= wake[c] + MaxLag
        /\ pass[c] = 1 => wake[c] <= asked[c] + MaxWait + MaxLag
        /\ pass[c] = 2 => wake[c] <= asked[c] + 2 * MaxWait + 3 * MaxLag

Idle(c) == pc[c] = "idle" => pass[c] = 0

Schedule == \A c \in Consumers : InTransaction(c) /\ Asleep(c) /\ Idle(c)

IInv == TypeOK /\ Untouched /\ BucketAccounts /\ Schedule

-----------------------------------------------------------------------------
\* The constants one by one.
LEMMA Bounds ==
    /\ Burst \in Nat /\ Cost \in Nat /\ MaxWait \in Nat /\ MaxLag \in Nat
    /\ Horizon \in Nat /\ LastTick \in Nat
    /\ 0 < Cost /\ Cost <= Burst /\ 0 < MaxWait
  BY RateBounds

LEMMA InitIInv == Init => IInv
<1> SUFFICES ASSUME Init PROVE IInv
  OBVIOUS
<1>1. TypeOK
  <2>0. present \in BOOLEAN
    BY Zenon DEF Init
  <2>1. clock \in 0 .. LastTick /\ tokens \in 0 .. Burst
    BY Bounds DEF Init
  <2>2. /\ last_refill \in 0 .. LastTick
        /\ spent \in Nat /\ unpaid \in Nat /\ rewound \in Nat
    BY Bounds DEF Init
  <2>3. /\ began \in [Consumers -> 0 .. LastTick]
        /\ asked \in [Consumers -> 0 .. LastTick]
    BY Bounds DEF Init
  <2>4. /\ pass \in [Consumers -> 0 .. 2] /\ wake \in [Consumers -> Nat]
        /\ pc \in [Consumers -> {"idle", "lock", "insert", "sleep"}]
    BY DEF Init
  <2> QED
    BY <2>0, <2>1, <2>2, <2>3, <2>4 DEF TypeOK
<1>2. Untouched /\ BucketAccounts
  BY Bounds DEF Init, Untouched, BucketAccounts
<1>3. Schedule
  BY DEF Init, Schedule, InTransaction, Asleep, Idle
<1> QED
  BY <1>1, <1>2, <1>3 DEF IInv

\* What a consumer finds in the bucket is a number of tokens of the bucket.
LEMMA AvailableType ==
  ASSUME NEW c \in Consumers, TypeOK
  PROVE  /\ Available(c) \in 0 .. Burst
         /\ Elapsed(c) \in Nat
         /\ Available(c) <= tokens + Elapsed(c)
         /\ began[c] \in 0 .. LastTick
  BY Bounds DEF Available, Elapsed, Least, TypeOK

LEMMA TypeStep == IInv /\ [Next]_vars => TypeOK'
<1> SUFFICES ASSUME IInv, [Next]_vars PROVE TypeOK'
  OBVIOUS
<1> USE Bounds DEF TypeOK, bucket
<1>0. TypeOK /\ Schedule
  BY DEF IInv
<1>1. ASSUME NEW c \in Consumers, Ask(c) PROVE TypeOK'
  BY <1>0, <1>1 DEF Ask, BeginPass, Schedule, Idle
<1>2. ASSUME NEW c \in Consumers, NoRow(c) PROVE TypeOK'
  BY <1>0, <1>2 DEF NoRow
<1>3. ASSUME NEW c \in Consumers, Insert(c) PROVE TypeOK'
  <2>1. CASE present
    BY <1>0, <1>3, <2>1 DEF Insert, Return
  <2>2. CASE ~present
    BY <1>0, <1>3, <2>2 DEF Insert, Return
  <2> QED
    BY <2>1, <2>2
<1>4. ASSUME NEW c \in Consumers, Take(c) PROVE TypeOK'
  BY <1>0, <1>4, AvailableType DEF Take, Return
<1>5. ASSUME NEW c \in Consumers, Short(c) PROVE TypeOK'
  <2>1. clock + Least(MaxWait, Cost - Available(c)) \in Nat
    BY <1>0, <1>5, AvailableType DEF Short, Least
  <2> QED
    BY <1>0, <1>5, <2>1 DEF Short
<1>6. ASSUME NEW c \in Consumers, Again(c) PROVE TypeOK'
  BY <1>0, <1>6 DEF Again, BeginPass
<1>7. ASSUME NEW c \in Consumers, GiveUp(c) PROVE TypeOK'
  BY <1>0, <1>7 DEF GiveUp, Return
<1>8. ASSUME Tick PROVE TypeOK'
  BY <1>0, <1>8 DEF Tick
<1>9. ASSUME UNCHANGED vars PROVE TypeOK'
  BY <1>0, <1>9 DEF vars
<1> QED
  BY <1>1, <1>2, <1>3, <1>4, <1>5, <1>6, <1>7, <1>8, <1>9
     DEF Next, Acquire, Stop

\* Only Insert and Take touch the books.
LEMMA AccountsStep ==
    IInv /\ [Next]_vars => Untouched' /\ BucketAccounts'
<1> SUFFICES ASSUME IInv, [Next]_vars PROVE Untouched' /\ BucketAccounts'
  OBVIOUS
<1>0. TypeOK /\ Untouched /\ BucketAccounts
  BY DEF IInv
<1>1. ASSUME NEW c \in Consumers, Insert(c)
      PROVE  Untouched' /\ BucketAccounts'
  BY <1>0, <1>1, Bounds, AvailableType
     DEF Insert, Untouched, BucketAccounts, TypeOK, bucket
<1>2. ASSUME NEW c \in Consumers, Take(c)
      PROVE  Untouched' /\ BucketAccounts'
  <2>1. /\ present' /\ last_refill' = began[c]
        /\ spent' + tokens' = spent + Available(c)
    BY <1>0, <1>2, Bounds, AvailableType DEF Take, TypeOK
  <2>2. CASE began[c] < last_refill
    BY <1>0, <1>2, <2>1, <2>2, Bounds, AvailableType
       DEF Take, Elapsed, Untouched, BucketAccounts, TypeOK
  <2>3. CASE ~ (began[c] < last_refill)
    BY <1>0, <1>2, <2>1, <2>3, Bounds, AvailableType
       DEF Take, Elapsed, Untouched, BucketAccounts, TypeOK
  <2> QED
    BY <2>2, <2>3
<1>3. ASSUME UNCHANGED <<bucket, spent, rewound>>
      PROVE  Untouched' /\ BucketAccounts'
  BY <1>0, <1>3 DEF Untouched, BucketAccounts, bucket
<1> QED
  BY <1>1, <1>2, <1>3
     DEF Next, Acquire, Ask, NoRow, Short, Again, GiveUp, Tick, Stop, vars,
         bucket

\* What one consumer does leaves every other consumer's schedule alone.
LEMMA OthersStep ==
  ASSUME TypeOK, Schedule, NEW c \in Consumers, Ask(c) \/ Acquire(c),
         InTransaction(c)', Asleep(c)', Idle(c)'
  PROVE  Schedule'
<1>1. /\ clock' = clock
      /\ \A d \in Consumers \ {c} :
            /\ pc'[d] = pc[d] /\ began'[d] = began[d] /\ pass'[d] = pass[d]
            /\ wake'[d] = wake[d] /\ asked'[d] = asked[d]
  BY DEF TypeOK, Acquire, Ask, NoRow, Insert, Take, Short, Again, GiveUp,
         BeginPass, Return
<1>2. ASSUME NEW d \in Consumers, d # c
      PROVE  (InTransaction(d) /\ Asleep(d) /\ Idle(d))'
  BY <1>1, <1>2 DEF Schedule, InTransaction, Asleep, Idle
<1> QED
  BY <1>2 DEF Schedule

LEMMA ScheduleStep == IInv /\ [Next]_vars => Schedule'
<1> SUFFICES ASSUME IInv, [Next]_vars PROVE Schedule'
  OBVIOUS
<1> USE Bounds DEF TypeOK, InTransaction, Asleep, Idle
<1>0. TypeOK /\ Schedule
  BY DEF IInv
<1>1. ASSUME NEW c \in Consumers, Ask(c) \/ Acquire(c) PROVE Schedule'
  <2>0. InTransaction(c) /\ Asleep(c) /\ Idle(c)
    BY <1>0 DEF Schedule
  <2>1. CASE Ask(c)
    <3>1. /\ pc'[c] = "lock" /\ pass'[c] = pass[c] + 1 /\ pc[c] = "idle"
          /\ began'[c] = clock /\ asked'[c] = clock /\ clock' = clock
      BY <1>0, <2>1 DEF Ask, BeginPass
    <3> QED
      BY <1>0, <1>1, <2>0, <3>1, OthersStep
  <2>2. CASE NoRow(c)
    BY <1>0, <1>1, <2>0, <2>2, OthersStep DEF NoRow
  <2>3. CASE Insert(c) \/ Take(c) \/ GiveUp(c)
    <3>1. pc'[c] = "idle" /\ pass'[c] = 0
      BY <1>0, <2>3 DEF Insert, Take, GiveUp, Return
    <3> QED
      BY <1>0, <1>1, <3>1, OthersStep
  <2>4. CASE Short(c)
    <3>1. /\ Least(MaxWait, Cost - Available(c)) \in 0 .. MaxWait
          /\ wake'[c] = clock + Least(MaxWait, Cost - Available(c))
          /\ pc'[c] = "sleep" /\ pass'[c] = pass[c] /\ asked'[c] = asked[c]
          /\ clock' = clock
      BY <1>0, <2>4, AvailableType DEF Short, Least
    <3> QED
      BY <1>0, <1>1, <2>0, <2>4, <3>1, OthersStep DEF Short
  <2>5. CASE Again(c)
    <3>1. /\ pc'[c] = "lock" /\ pass'[c] = pass[c] + 1 /\ pass[c] < 2
          /\ began'[c] = clock /\ asked'[c] = asked[c] /\ clock' = clock
          /\ pc[c] = "sleep"
      BY <1>0, <2>5 DEF Again, BeginPass
    <3> QED
      BY <1>0, <1>1, <2>0, <3>1, OthersStep
  <2> QED
    BY <1>1, <2>1, <2>2, <2>3, <2>4, <2>5 DEF Acquire
<1>2. ASSUME Tick PROVE Schedule'
  <2>1. ASSUME NEW c \in Consumers
        PROVE  (InTransaction(c) /\ Asleep(c) /\ Idle(c))'
    BY <1>0, <1>2 DEF Tick, OnTime, Schedule
  <2> QED
    BY <2>1 DEF Schedule
<1>3. ASSUME UNCHANGED vars PROVE Schedule'
  BY <1>0, <1>3 DEF vars, Schedule
<1> QED
  BY <1>1, <1>2, <1>3 DEF Next, Stop

LEMMA Inductive == Spec => []IInv
<1>1. IInv /\ [Next]_vars => IInv'
  BY TypeStep, AccountsStep, ScheduleStep DEF IInv
<1> QED
  BY <1>1, InitIInv, PTL DEF Spec

-----------------------------------------------------------------------------
(***************************************************************************)
(* The bucket never holds more than its burst nor less than nothing, and   *)
(* the loop makes at most two passes.                                      *)
(***************************************************************************)
THEOREM BucketTyped == Spec => []TypeOK
  BY Inductive, PTL DEF IInv

(***************************************************************************)
(* However the transactions of acquire overlap, the tokens handed out are  *)
(* covered by the burst, the time refilled and the time refilled twice.    *)
(***************************************************************************)
THEOREM BooksBalance == Spec => []BucketAccounts
  BY Inductive, PTL DEF IInv

(***************************************************************************)
(* No crowd of consumers stalls a call of acquire: it ends within two      *)
(* capped sleeps and the lateness of four steps.                           *)
(***************************************************************************)
THEOREM NoStall == Spec => []CallBounded
<1>1. IInv => CallBounded
  <2> SUFFICES ASSUME IInv, NEW c \in Consumers, pc[c] # "idle"
               PROVE  clock <= asked[c] + 2 * MaxWait + 4 * MaxLag
    BY DEF CallBounded
  <2>1. InTransaction(c) /\ Asleep(c) /\ pc[c] \in {"lock", "insert", "sleep"}
    BY DEF IInv, Schedule, TypeOK
  <2> QED
    BY <2>1, Bounds DEF IInv, TypeOK, InTransaction, Asleep
<1> QED
  BY <1>1, Inductive, PTL

-----------------------------------------------------------------------------
(***************************************************************************)
(* The share of the host.  A request can pass the bucket by in two ways:   *)
(* unpaid, or by setting last_refill back so that time is refilled twice.  *)
(* Whoever may still do either is "owed" a request, and what has been and  *)
(* may yet be let through is covered by what the bucket has given out to   *)
(* the other consumers meanwhile.                                          *)
(***************************************************************************)
Crowd == Cardinality(Consumers)

(***************************************************************************)
(* What the share rests on: MAX_WAIT_SECONDS (30) is longer than one       *)
(* request's refill, and the row's lock, held for three statements, is so  *)
(* short that a queue of all the consumers for it passes within the refill *)
(* of one request.                                                         *)
(***************************************************************************)
LockIsBrief ==
    /\ IsFiniteSet(Consumers)
    /\ Cost <= MaxWait
    /\ Crowd * MaxLag <= Cost

Owed(c) ==
    \/ pc[c] = "insert" /\ present
    \/ /\ pc[c] = "lock" /\ present
       /\ began[c] < last_refill \/ (pass[c] = 2 /\ Available(c) < Cost)
    \/ /\ pc[c] = "sleep"
       /\ pass[c] = 1 => tokens + wake[c] - last_refill < Cost

Owing == {c \in Consumers : Owed(c)}

\* The time and the burst the bucket has given out so far.
Given == last_refill - tokens + Burst

Share == unpaid + rewound + Cost * Cardinality(Owing) <= (Crowd - 1) * Given

\* No clock runs ahead, and only a host with a row makes anybody wait.
Orderly ==
    /\ last_refill <= clock
    /\ ~present => unpaid = 0
    /\ \A c \in Consumers :
          /\ began[c] <= clock
          /\ pass[c] = 2 \/ pc[c] = "sleep" => present

ShareInv == Share /\ Orderly

-----------------------------------------------------------------------------
\* How many owe what, out of how many.
LEMMA Counting ==
  ASSUME IsFiniteSet(Consumers), NEW S \in SUBSET Consumers
  PROVE  /\ Crowd \in Nat /\ Cardinality(S) \in Nat
         /\ Cardinality(S) <= Crowd
         /\ \A c \in Consumers \ S : Cardinality(S) <= Crowd - 1
         /\ \A T \in SUBSET S :
               /\ Cardinality(T) \in Nat
               /\ Cardinality(T) <= Cardinality(S)
               /\ \A c \in S \ T : Cardinality(T) <= Cardinality(S) - 1
<1>1. ASSUME NEW A \in SUBSET Consumers, NEW B \in SUBSET A
      PROVE  /\ IsFiniteSet(A) /\ Cardinality(A) \in Nat
             /\ Cardinality(B) \in Nat
             /\ Cardinality(B) <= Cardinality(A)
             /\ \A c \in A \ B : Cardinality(B) <= Cardinality(A) - 1
  <2>1. IsFiniteSet(A) /\ IsFiniteSet(B)
    BY <1>1, FS_Subset
  <2>2. Cardinality(A) \in Nat /\ Cardinality(B) \in Nat
    BY <2>1, FS_CardinalityType
  <2>3. Cardinality(B) <= Cardinality(A)
    BY <1>1, <2>1, FS_Subset
  <2>4. ASSUME NEW c \in A \ B PROVE Cardinality(B) <= Cardinality(A) - 1
    <3>1. B \cup {c} \in SUBSET A
      BY <1>1
    <3>2. Cardinality(B \cup {c}) = Cardinality(B) + 1
      BY <2>1, <2>4, FS_AddElement
    <3>3. Cardinality(B \cup {c}) <= Cardinality(A)
      BY <2>1, <3>1, FS_Subset
    <3> QED
      BY <2>2, <3>2, <3>3
  <2> QED
    BY <2>1, <2>2, <2>3, <2>4
<1>2. Consumers \in SUBSET Consumers
  OBVIOUS
<1> QED
  BY <1>1, <1>2 DEF Crowd

LEMMA ScaleUp ==
  ASSUME NEW k \in Nat, NEW a \in Int, NEW b \in Int, a <= b
  PROVE  k * a <= k * b /\ k * a \in Int /\ k * b \in Int
<1>1. b - a \in Nat
  OBVIOUS
<1>2. k * (b - a) \in Nat
  BY <1>1
<1>3. k * (b - a) = k * b - k * a
  OBVIOUS
<1> QED
  BY <1>2, <1>3

\* Nothing is let through, and nobody new is owed.
LEMMA ShareKept ==
  ASSUME LockIsBrief, TypeOK, Share,
         UNCHANGED <<bucket, unpaid, rewound>>, Owing' \subseteq Owing
  PROVE  Share'
<1>1. /\ Cardinality(Owing) \in Nat /\ Cardinality(Owing') \in Nat
      /\ Cardinality(Owing') <= Cardinality(Owing)
  BY Counting DEF LockIsBrief, Owing
<1>2. Cost * Cardinality(Owing') <= Cost * Cardinality(Owing)
  BY <1>1, ScaleUp, Bounds
<1>3. Given' = Given /\ Given \in Int /\ Crowd \in Nat
  BY Bounds, Counting DEF Given, bucket, TypeOK, LockIsBrief
<1>4. (Crowd - 1) * Given \in Int
  BY <1>3
<1>5. Cost * Cardinality(Owing) \in Int /\ Cost * Cardinality(Owing') \in Int
  BY <1>1, Bounds
<1>6. unpaid' = unpaid /\ rewound' = rewound /\ unpaid \in Int /\ rewound \in Int
  BY DEF TypeOK
<1> QED
  BY <1>2, <1>3, <1>4, <1>5, <1>6 DEF Share

\* Who was owed goes through unpaid and is owed no longer.
LEMMA ShareSpent ==
  ASSUME LockIsBrief, TypeOK, Share, UNCHANGED <<bucket, rewound>>,
         unpaid' = unpaid + Cost,
         NEW c \in Owing, Owing' \subseteq Owing \ {c}
  PROVE  Share'
<1>1. /\ Cardinality(Owing) \in Nat /\ Cardinality(Owing') \in Nat
      /\ Cardinality(Owing') <= Cardinality(Owing) - 1
  BY Counting DEF LockIsBrief, Owing
<1>2. Cost * Cardinality(Owing') <= Cost * (Cardinality(Owing) - 1)
  BY <1>1, ScaleUp, Bounds
<1>3. Cost * (Cardinality(Owing) - 1) = Cost * Cardinality(Owing) - Cost
  BY <1>1, Bounds
<1>4. Given' = Given /\ Given \in Int /\ Crowd \in Nat
  BY Bounds, Counting DEF Given, bucket, TypeOK, LockIsBrief
<1>5. (Crowd - 1) * Given \in Int
  BY <1>4
<1>6. Cost * Cardinality(Owing) \in Int /\ Cost * Cardinality(Owing') \in Int
  BY <1>1, Bounds
<1>7. rewound' = rewound /\ unpaid \in Int /\ rewound \in Int /\ Cost \in Int
  BY Bounds DEF TypeOK
<1> QED
  BY <1>2, <1>3, <1>4, <1>5, <1>6, <1>7 DEF Share

(***************************************************************************)
(* A request is paid for.  The bucket has given out a request more, all of *)
(* the other consumers may now be owed one, and a last_refill set back     *)
(* costs at most what its consumer was owed.                               *)
(***************************************************************************)
LEMMA SharePaid ==
  ASSUME LockIsBrief, TypeOK, Share, NEW c \in Consumers, c \notin Owing',
         NEW r \in 0 .. MaxLag, unpaid' = unpaid, rewound' = rewound + r,
         Given' \in Int, Given' >= Given + Cost - r,
         r > 0 => c \in Owing
  PROVE  Share'
<1> DEFINE n == Crowd
           w == Cardinality(Owing)
           v == Cardinality(Owing')
<1>1. n \in Nat /\ n >= 1 /\ w \in Nat /\ v \in Nat /\ v <= n - 1
  <2>1. /\ IsFiniteSet(Consumers) /\ c \in Consumers \ Owing'
        /\ Owing \in SUBSET Consumers /\ Owing' \in SUBSET Consumers
    BY DEF LockIsBrief, Owing
  <2>2. n \in Nat /\ w \in Nat /\ v \in Nat
    BY <2>1, Counting
  <2>3. v <= n - 1
    BY <2>1, Counting
  <2> QED
    BY <2>2, <2>3
<1>2. r > 0 => w >= 1
  <2> SUFFICES ASSUME c \in Owing PROVE w >= 1
    OBVIOUS
  <2>1. Owing \in SUBSET Consumers /\ {} \in SUBSET Owing /\ c \in Owing \ {}
    BY DEF Owing
  <2>2. Cardinality({}) \in Nat /\ Cardinality({}) <= w - 1
    BY <2>1, Counting DEF LockIsBrief
  <2> QED
    BY <1>1, <2>2
<1>3. /\ Given \in Int /\ unpaid \in Int /\ rewound \in Int
      /\ Cost \in Nat /\ MaxLag \in Nat /\ r \in Int /\ r >= 0 /\ r <= MaxLag
  BY Bounds DEF Given, TypeOK
<1>4. n * MaxLag <= Cost
  BY DEF LockIsBrief
<1>5. unpaid + rewound + Cost * w <= (n - 1) * Given
  BY DEF Share
<1> SUFFICES unpaid + rewound + r + Cost * v <= (n - 1) * Given'
  BY <1>3 DEF Share
<1> HIDE DEF n, w, v
<1>6. n - 1 \in Nat
  BY <1>1
<1>7. n * r <= Cost /\ n * r \in Int
  <2>1. n * r <= n * MaxLag /\ n * r \in Int /\ n * MaxLag \in Int
    BY <1>1, <1>3, ScaleUp
  <2> QED
    BY <1>3, <1>4, <2>1
<1>8. Cost * v <= Cost * (n - 1)
  BY <1>1, <1>3, <1>6, ScaleUp
<1>9. (n - 1) * (Given + Cost - r) <= (n - 1) * Given'
  BY <1>3, <1>6, ScaleUp
<1>10. (n - 1) * (Given + Cost - r)
         = (n - 1) * Given + Cost * (n - 1) - (n * r - r)
  BY <1>1, <1>3
<1>11. r > 0 => Cost * w >= Cost
  BY <1>1, <1>2, <1>3, ScaleUp
<1>12. /\ Cost * w \in Nat /\ Cost * v \in Int /\ Cost * (n - 1) \in Int
       /\ (n - 1) * Given \in Int /\ (n - 1) * Given' \in Int
  BY <1>1, <1>3
<1>13. r = 0 => n * r = 0
  BY <1>1
<1> QED
  BY <1>3, <1>5, <1>7, <1>8, <1>9, <1>10, <1>11, <1>12, <1>13

-----------------------------------------------------------------------------
\* What one consumer does leaves what every other one is owed alone, unless
\* it touches the bucket.
LEMMA OthersOwed ==
  ASSUME TypeOK, NEW c \in Consumers, Ask(c) \/ Acquire(c),
         UNCHANGED bucket, NEW d \in Consumers, d # c
  PROVE  Owed(d)' <=> Owed(d)
<1>1. /\ pc'[d] = pc[d] /\ began'[d] = began[d] /\ pass'[d] = pass[d]
      /\ wake'[d] = wake[d]
  BY DEF TypeOK, Acquire, Ask, NoRow, Insert, Take, Short, Again, GiveUp,
         BeginPass, Return
<1>2. present' = present /\ tokens' = tokens /\ last_refill' = last_refill
  BY DEF bucket
<1>3. Available(d)' = Available(d)
  BY <1>1, <1>2 DEF Available, Elapsed
<1> QED
  BY <1>1, <1>2, <1>3, Zenon DEF Owed

LEMMA OwingAfter ==
  ASSUME TypeOK, NEW c \in Consumers, Ask(c) \/ Acquire(c), UNCHANGED bucket
  PROVE  /\ (Owed(c)' => Owed(c)) => Owing' \subseteq Owing
         /\ ~Owed(c)' => Owing' \subseteq Owing \ {c}
  BY OthersOwed DEF Owing

\* Who has returned is owed nothing.
LEMMA ReturnOwed ==
  ASSUME TypeOK, NEW c \in Consumers, Return(c)
  PROVE  ~Owed(c)' /\ c \notin Owing'
<1>1. pc'[c] = "idle"
  BY DEF Return, TypeOK
<1> QED
  BY <1>1 DEF Owed, Owing

LEMMA OrderlyStep == IInv /\ Orderly /\ [Next]_vars => Orderly'
<1> SUFFICES ASSUME IInv, Orderly, [Next]_vars PROVE Orderly'
  OBVIOUS
<1>0. TypeOK /\ Schedule
  BY DEF IInv
<1> USE DEF bucket
<1>1. ASSUME NEW c \in Consumers, Ask(c) PROVE Orderly'
  BY <1>0, <1>1 DEF Ask, BeginPass, Orderly, TypeOK, Schedule, Idle
<1>2. ASSUME NEW c \in Consumers, NoRow(c) PROVE Orderly'
  BY <1>0, <1>2 DEF NoRow, Orderly, TypeOK
<1>3. ASSUME NEW c \in Consumers, Insert(c) PROVE Orderly'
  <2>1. CASE present
    BY <1>0, <1>3, <2>1 DEF Insert, Return, Orderly, TypeOK
  <2>2. CASE ~present
    BY <1>0, <1>3, <2>2 DEF Insert, Return, Orderly, TypeOK
  <2> QED
    BY <2>1, <2>2
<1>4. ASSUME NEW c \in Consumers, Take(c) PROVE Orderly'
  BY <1>0, <1>4 DEF Take, Return, Orderly, TypeOK
<1>5. ASSUME NEW c \in Consumers, Short(c) PROVE Orderly'
  BY <1>0, <1>5 DEF Short, Orderly, TypeOK
<1>6. ASSUME NEW c \in Consumers, Again(c) PROVE Orderly'
  BY <1>0, <1>6 DEF Again, BeginPass, Orderly, TypeOK
<1>7. ASSUME NEW c \in Consumers, GiveUp(c) PROVE Orderly'
  BY <1>0, <1>7 DEF GiveUp, Return, Orderly, TypeOK
<1>8. ASSUME Tick PROVE Orderly'
  BY <1>0, <1>8 DEF Tick, Orderly, TypeOK
<1>9. ASSUME UNCHANGED vars PROVE Orderly'
  BY <1>9 DEF vars, Orderly
<1> QED
  BY <1>1, <1>2, <1>3, <1>4, <1>5, <1>6, <1>7, <1>8, <1>9
     DEF Next, Acquire, Stop

LEMMA ShareTake ==
  ASSUME LockIsBrief, IInv, ShareInv, NEW c \in Consumers, Take(c)
  PROVE  Share'
<1> DEFINE r == IF began[c] < last_refill THEN last_refill - began[c] ELSE 0
<1>0. TypeOK /\ Share /\ Orderly /\ InTransaction(c)
  BY DEF IInv, Schedule, ShareInv
<1>1. c \notin Owing'
  BY <1>0, ReturnOwed DEF Take
<1>2. r \in 0 .. MaxLag
  BY <1>0, Bounds DEF TypeOK, InTransaction, Orderly, Take
<1>3. /\ unpaid' = unpaid /\ last_refill' = began[c]
      /\ tokens' = Available(c) - Cost /\ rewound' = rewound + r
  BY <1>0 DEF Take, TypeOK
<1>4. Available(c) <= tokens + Elapsed(c) /\ Elapsed(c) = began[c] - last_refill + r
  BY <1>0, AvailableType DEF Elapsed, TypeOK
<1>5. Given' \in Int /\ Given' >= Given + Cost - r
  BY <1>0, <1>2, <1>3, <1>4, AvailableType, Bounds DEF Given, TypeOK
<1>6. r > 0 => c \in Owing
  BY DEF Take, Owing, Owed
<1> HIDE DEF r
<1> QED
  BY <1>0, <1>1, <1>2, <1>3, <1>5, <1>6, SharePaid

LEMMA ShareInsert ==
  ASSUME LockIsBrief, IInv, ShareInv, NEW c \in Consumers, Insert(c)
  PROVE  Share'
<1>0. TypeOK /\ Share /\ Orderly /\ Untouched
  BY DEF IInv, ShareInv
<1>1. c \notin Owing' /\ ~Owed(c)'
  BY <1>0, ReturnOwed DEF Insert
<1>2. CASE present
  <2>1. c \in Owing /\ UNCHANGED <<bucket, rewound>> /\ unpaid' = unpaid + Cost
    BY <1>2 DEF Insert, Owing, Owed
  <2>2. Owing' \subseteq Owing \ {c}
    BY <1>0, <1>1, <2>1, OwingAfter DEF Acquire
  <2> QED
    BY <1>0, <2>1, <2>2, ShareSpent
<1>3. CASE ~present
  <2> DEFINE v == Cardinality(Owing')
             n == Crowd
  <2>1. /\ unpaid' = 0 /\ rewound' = 0
        /\ Given' = began[c] + Cost
        /\ began[c] \in Nat
    BY <1>0, <1>3, Bounds DEF Insert, Orderly, Untouched, TypeOK, Given
  <2>2. n \in Nat /\ v \in Nat /\ v <= n - 1
    <3>1. IsFiniteSet(Consumers) /\ Owing' \in SUBSET Consumers
      BY DEF LockIsBrief, Owing
    <3>2. n \in Nat /\ v \in Nat
      BY <3>1, Counting
    <3>3. v <= n - 1
      BY <1>1, <3>1, Counting
    <3> QED
      BY <3>2, <3>3
  <2> SUFFICES unpaid' + rewound' + Cost * v <= (n - 1) * Given'
    BY DEF Share
  <2> HIDE DEF n, v
  <2>3. n - 1 \in Nat /\ Cost \in Nat /\ Cost <= began[c] + Cost
    BY <2>1, <2>2, Bounds
  <2>4. Cost * v <= Cost * (n - 1) /\ Cost * v \in Int
    BY <2>2, <2>3, ScaleUp
  <2>5. (n - 1) * Cost <= (n - 1) * (began[c] + Cost)
    BY <2>1, <2>3, ScaleUp
  <2>6. (n - 1) * Cost = Cost * (n - 1)
    BY <2>2, <2>3
  <2> QED
    BY <2>1, <2>2, <2>3, <2>4, <2>5, <2>6
<1> QED
  BY <1>2, <1>3

LEMMA ShareStep == LockIsBrief /\ IInv /\ ShareInv /\ [Next]_vars => Share'
<1> SUFFICES ASSUME LockIsBrief, IInv, ShareInv, [Next]_vars PROVE Share'
  OBVIOUS
<1>0. TypeOK /\ Schedule /\ Share /\ Orderly
  BY DEF IInv, ShareInv
<1> USE Bounds DEF bucket
<1>a. ASSUME NEW c \in Consumers, Ask(c) \/ Acquire(c),
             UNCHANGED <<bucket, unpaid, rewound>>, Owed(c)' => Owed(c)
      PROVE  Share'
  BY <1>0, <1>a, OwingAfter, ShareKept
<1>1. ASSUME NEW c \in Consumers, Ask(c) PROVE Share'
  <2>1. /\ pc'[c] = "lock" /\ pass'[c] = 1 /\ began'[c] = clock
        /\ last_refill' = last_refill
    BY <1>0, <1>1 DEF Ask, BeginPass, TypeOK, Schedule, Idle
  <2>2. ~Owed(c)'
    BY <1>0, <2>1 DEF Owed, Orderly, TypeOK
  <2> QED
    BY <1>1, <1>a, <2>2 DEF Ask
<1>2. ASSUME NEW c \in Consumers, NoRow(c) PROVE Share'
  <2>1. pc'[c] = "insert" /\ ~present'
    BY <1>0, <1>2 DEF NoRow, TypeOK
  <2>2. ~Owed(c)'
    BY <2>1 DEF Owed
  <2> QED
    BY <1>2, <1>a, <2>2 DEF NoRow, Acquire
<1>3. ASSUME NEW c \in Consumers, Short(c) PROVE Share'
  <2>1. /\ pc[c] = "lock" /\ present /\ Available(c) < Cost
        /\ pc'[c] = "sleep" /\ pass'[c] = pass[c] /\ pass[c] \in 1 .. 2
    BY <1>0, <1>3 DEF Short, TypeOK, Schedule, InTransaction
  <2>2. CASE pass[c] = 2
    <3>1. Owed(c)
      BY <2>1, <2>2 DEF Owed
    <3> QED
      BY <1>3, <1>a, <3>1 DEF Short, Acquire
  <2>3. CASE pass[c] = 1
    <3>1. wake'[c] = clock + Cost - Available(c)
      <4>1. Least(MaxWait, Cost - Available(c)) = Cost - Available(c)
        BY <1>0, <2>1, AvailableType DEF Least, LockIsBrief
      <4>2. wake'[c] = clock + Least(MaxWait, Cost - Available(c))
        BY <1>0, <1>3 DEF Short, TypeOK
      <4> QED
        BY <1>0, <4>1, <4>2, AvailableType DEF TypeOK
    <3>2. Available(c) <= tokens + clock - last_refill
      BY <1>0, AvailableType DEF Elapsed, Orderly, TypeOK
    <3>3. tokens' + wake'[c] - last_refill' >= Cost
      BY <1>0, <1>3, <3>1, <3>2, AvailableType DEF Short, TypeOK
    <3>4. /\ wake'[c] \in Int /\ tokens' \in Int /\ last_refill' \in Int
      BY <1>0, <1>3, <3>1, AvailableType DEF Short, TypeOK
    <3>5. ~Owed(c)'
      BY <2>1, <2>3, <3>3, <3>4 DEF Owed
    <3> QED
      BY <1>3, <1>a, <3>5 DEF Short, Acquire
  <2> QED
    BY <2>1, <2>2, <2>3
<1>4. ASSUME NEW c \in Consumers, Again(c) PROVE Share'
  <2>1. /\ pc[c] = "sleep" /\ pass[c] = 1 /\ clock >= wake[c]
        /\ pc'[c] = "lock" /\ began'[c] = clock
        /\ tokens' = tokens /\ last_refill' = last_refill
    BY <1>0, <1>4 DEF Again, BeginPass, TypeOK, Schedule, Asleep
  <2>2. ASSUME ~Owed(c) PROVE ~Owed(c)'
    <3>1. tokens + wake[c] - last_refill >= Cost
      BY <1>0, <2>1, <2>2 DEF Owed, TypeOK
    <3>2. Available(c)' >= Cost /\ ~(began'[c] < last_refill')
      BY <1>0, <2>1, <3>1 DEF Available, Elapsed, Least, Orderly, TypeOK
    <3>3. ~(Available(c)' < Cost)
      BY <1>0, <2>1, <3>2 DEF Available, Elapsed, Least, Orderly, TypeOK
    <3> QED
      BY <2>1, <3>2, <3>3 DEF Owed
  <2> QED
    BY <1>4, <1>a, <2>2 DEF Again, Acquire
<1>5. ASSUME NEW c \in Consumers, GiveUp(c) PROVE Share'
  <2>1. c \in Owing
    BY <1>5 DEF GiveUp, Owing, Owed
  <2>2. ~Owed(c)'
    BY <1>0, <1>5, ReturnOwed DEF GiveUp
  <2>3. Owing' \subseteq Owing \ {c}
    BY <1>0, <1>5, <2>2, OwingAfter DEF GiveUp, Acquire
  <2> QED
    BY <1>0, <1>5, <2>1, <2>3, ShareSpent DEF GiveUp
<1>6. ASSUME UNCHANGED <<bucket, unpaid, rewound, pc, began, pass, wake>>
      PROVE  Share'
  <2>1. Owing' = Owing
    BY <1>6 DEF Owing, Owed, Available, Elapsed
  <2> QED
    BY <1>0, <1>6, <2>1, ShareKept
<1> QED
  BY <1>0, <1>1, <1>2, <1>3, <1>4, <1>5, <1>6, ShareTake, ShareInsert
     DEF Next, Acquire, Tick, Stop, vars

LEMMA ShareInit ==
  ASSUME LockIsBrief, Init
  PROVE  ShareInv
<1>1. Orderly
  BY DEF Init, Orderly
<1>2. Owing = {}
  BY DEF Init, Owing, Owed
<1>3. Cardinality(Owing) = 0
  BY <1>2, FS_EmptySet
<1>4. Given = 0 /\ Crowd \in Nat /\ unpaid = 0 /\ rewound = 0
  <2>1. Crowd \in Nat
    BY <1>2, Counting DEF LockIsBrief
  <2> QED
    BY <2>1, Bounds DEF Init, Given
<1>5. (Crowd - 1) * 0 = 0 /\ Cost * 0 = 0
  BY <1>4, Bounds
<1> QED
  BY <1>1, <1>3, <1>4, <1>5 DEF ShareInv, Share

LEMMA ShareInductive ==
  ASSUME LockIsBrief
  PROVE  Spec => [](IInv /\ ShareInv)
<1>1. Init => ShareInv
  BY ShareInit
<1>2. IInv /\ ShareInv /\ [Next]_vars => ShareInv'
  BY ShareStep, OrderlyStep DEF ShareInv
<1> QED
  BY <1>1, <1>2, Inductive, PTL DEF Spec

(***************************************************************************)
(* However many consumers share a host, what they send it, the requests    *)
(* that went through unpaid included, stays within one intended rate for   *)
(* each of them.                                                           *)
(***************************************************************************)
THEOREM RateShared ==
  ASSUME LockIsBrief
  PROVE  Spec => [](spent + unpaid <= Crowd * (Burst + clock))
<1>1. IInv /\ ShareInv => spent + unpaid <= Crowd * (Burst + clock)
  <2> SUFFICES ASSUME IInv, ShareInv
               PROVE  spent + unpaid <= Crowd * (Burst + clock)
    OBVIOUS
  <2> DEFINE n == Crowd
             w == Cardinality(Owing)
  <2>1. n \in Nat /\ w \in Nat
    BY Counting DEF LockIsBrief, Owing
  <2>2. unpaid + rewound + Cost * w <= (n - 1) * Given
    BY DEF ShareInv, Share
  <2> HIDE DEF n, w
  <2>3. Cost * w \in Nat
    BY <2>1, Bounds
  <2>4. spent + tokens <= Burst + last_refill + rewound
    BY DEF IInv, BucketAccounts
  <2>5. /\ Given \in Int /\ Given <= Burst + clock
        /\ Given = last_refill - tokens + Burst
        /\ Burst + clock \in Int
        /\ spent \in Int /\ unpaid \in Int /\ rewound \in Int
        /\ last_refill \in Int /\ tokens \in Int /\ Burst \in Int
    BY Bounds DEF IInv, ShareInv, Orderly, TypeOK, Given
  <2>6. (n - 1) * Given = n * Given - Given /\ n * Given \in Int
    BY <2>1, <2>5
  <2>7. n * Given <= n * (Burst + clock) /\ n * (Burst + clock) \in Int
    BY <2>1, <2>5, ScaleUp
  <2>8. spent + unpaid <= n * Given
    BY <2>2, <2>3, <2>4, <2>5, <2>6
  <2>9. spent + unpaid <= n * (Burst + clock)
    BY <2>5, <2>6, <2>7, <2>8
  <2> QED
    BY <2>9 DEF n
<1> QED
  BY <1>1, ShareInductive, PTL

(***************************************************************************)
(* 001_core_schema.sql:135-136: the fetchers and the crawler together      *)
(* never show a forum double the intended rate.                            *)
(***************************************************************************)
THEOREM NotDoubled ==
  ASSUME LockIsBrief, Crowd = 2
  PROVE  Spec => []NeverDouble
<1>1. spent + unpaid <= Crowd * (Burst + clock) => NeverDouble
  BY DEF NeverDouble
<1> QED
  BY <1>1, RateShared, PTL
=============================================================================
