---------------------------- MODULE KbCrawlProofs ----------------------------
(***************************************************************************)
(* KbCrawl, for a forum of any kind with any number of topics and posts,   *)
(* any sizes of pages and any number of faults: what the definitions on    *)
(* the log amount to, what each action changes, typing, and that nothing   *)
(* the archive or a job knows is ahead of the site.                        *)
(***************************************************************************)
EXTENDS KbCrawl, FiniteSetTheorems, WellFoundedInduction, TLAPS

-----------------------------------------------------------------------------
\* Sets of numbers have a least element, bounded ones a greatest.
LEMMA FirstExists ==
  ASSUME NEW S \in SUBSET Nat, S # {}
  PROVE  \E m \in S : \A n \in S : m <= n
<1> DEFINE R == OpToRel(<, Nat)
<1>1. IsWellFoundedOn(R, Nat)
  BY NatLessThanWellFounded
<1>2. \A m, n \in Nat : m < n => <<m, n>> \in R
  BY DEF OpToRel
<1> HIDE DEF R
<1>3. PICK m \in S : \A n \in S : ~(<<n, m>> \in R)
  BY <1>1, WFMin
<1>4. \A n \in S : ~(n < m)
  BY <1>2, <1>3
<1>5. \A n \in S : m <= n
  BY <1>4
<1> QED
  BY <1>5

LEMMA LastExists ==
  ASSUME NEW S \in SUBSET Nat, S # {}, NEW b \in Nat, \A n \in S : n <= b
  PROVE  \E m \in S : \A n \in S : n <= m
<1> DEFINE T == {k \in Nat : b - k \in S}
<1>1. \A n \in S : b - n \in T
  <2> SUFFICES ASSUME NEW n \in S PROVE b - n \in T
    OBVIOUS
  <2>1. n \in Nat /\ n <= b
    OBVIOUS
  <2>2. b - n \in Nat /\ b - (b - n) = n
    BY <2>1
  <2> QED
    BY <2>2
<1>2. T \in SUBSET Nat /\ T # {}
  BY <1>1
<1>3. PICK k \in T : \A n \in T : k <= n
  BY <1>2, FirstExists
<1>4. k \in Nat /\ b - k \in S
  BY <1>3
<1>5. \A n \in S : n <= b - k
  <2> SUFFICES ASSUME NEW n \in S PROVE n <= b - k
    OBVIOUS
  <2>1. n \in Nat /\ k <= b - n
    BY <1>1, <1>3
  <2> QED
    BY <1>4, <2>1
<1> QED
  BY <1>4, <1>5

LEMMA LeastIs ==
  ASSUME NEW S \in SUBSET Nat, S # {}
  PROVE  Least(S) \in S /\ \A n \in S : Least(S) <= n
  BY FirstExists DEF Least

LEMMA NewestIs ==
  ASSUME NEW S \in SUBSET Nat, NEW b \in Nat, \A n \in S : n <= b
  PROVE  /\ Newest(S) \in S \cup {0} /\ Newest(S) \in Nat /\ Newest(S) <= b
         /\ \A n \in S : n <= Newest(S)
<1>1. CASE S = {}
  <2>1. \E x \in S \cup {0} : \A y \in S : y <= x
    BY <1>1
  <2>2. Newest(S) \in S \cup {0}
    BY <2>1 DEF Newest
  <2> QED
    BY <2>2, <1>1
<1>2. CASE S # {}
  <2>1. \E x \in S \cup {0} : \A y \in S : y <= x
    BY <1>2, LastExists
  <2>2. Newest(S) \in S \cup {0} /\ \A y \in S : y <= Newest(S)
    BY <2>1 DEF Newest
  <2>3. Newest(S) \in Nat
    <3>1. S \cup {0} \subseteq Nat
      OBVIOUS
    <3> QED
      BY <2>2, <3>1
  <2>4. CASE Newest(S) = 0
    BY <2>2, <2>4
  <2>5. CASE Newest(S) \in S
    BY <2>2, <2>3, <2>5
  <2> QED
    BY <2>2, <2>4, <2>5
<1> QED
  BY <1>1, <1>2

\* It is the only number that is a member, or 0, and has none above it.
LEMMA NewestOnly ==
  ASSUME NEW S \in SUBSET Nat, NEW m \in S \cup {0}, \A n \in S : n <= m
  PROVE  Newest(S) = m
<1>1. m \in Nat
  OBVIOUS
<1>2. Newest(S) \in S \cup {0} /\ Newest(S) \in Nat /\ \A n \in S : n <= Newest(S)
  BY <1>1, NewestIs
<1>3. Newest(S) <= m
  BY <1>1, <1>2
<1>4. m <= Newest(S)
  BY <1>1, <1>2
<1> QED
  BY <1>1, <1>2, <1>3, <1>4

LEMMA LaterIs ==
  ASSUME NEW a \in Nat, NEW b \in Nat
  PROVE  /\ Later(a, b) \in {a, b} /\ Later(a, b) \in Nat
         /\ a <= Later(a, b) /\ b <= Later(a, b)
  BY DEF Later

-----------------------------------------------------------------------------
(***************************************************************************)
(* Ranks in a finite set that a relation orders are the numbers from 0 on  *)
(* without a gap.                                                          *)
(***************************************************************************)
Orders(S, R) ==
    /\ IsFiniteSet(S)
    /\ \A x \in S : <<x, x>> \notin R
    /\ \A x, y \in S : x # y => <<x, y>> \in R \/ <<y, x>> \in R
    /\ \A x, y, z \in S : <<x, y>> \in R /\ <<y, z>> \in R => <<x, z>> \in R

Ahead(S, R, x) == {y \in S : <<y, x>> \in R}
Nth(S, R, x)   == Cardinality(Ahead(S, R, x))

LEMMA NthType ==
  ASSUME NEW S, NEW R, Orders(S, R), NEW x
  PROVE  IsFiniteSet(Ahead(S, R, x)) /\ Nth(S, R, x) \in Nat
<1>1. IsFiniteSet(Ahead(S, R, x))
  BY FS_Subset DEF Orders, Ahead
<1> QED
  BY <1>1, FS_CardinalityType DEF Nth

LEMMA NthOrder ==
  ASSUME NEW S, NEW R, Orders(S, R), NEW x \in S, NEW y \in S
  PROVE  <<x, y>> \in R <=> Nth(S, R, x) < Nth(S, R, y)
<1>1. ASSUME NEW u \in S, NEW v \in S, <<u, v>> \in R
      PROVE  Nth(S, R, u) < Nth(S, R, v)
  <2>1. Ahead(S, R, u) \cup {u} \subseteq Ahead(S, R, v) /\ u \notin Ahead(S, R, u)
    BY <1>1 DEF Ahead, Orders
  <2>2. /\ IsFiniteSet(Ahead(S, R, u) \cup {u})
        /\ Cardinality(Ahead(S, R, u) \cup {u}) = Nth(S, R, u) + 1
    BY <2>1, NthType, FS_AddElement DEF Nth
  <2>3. Cardinality(Ahead(S, R, u) \cup {u}) <= Nth(S, R, v)
    BY <2>1, NthType, FS_Subset DEF Nth
  <2> QED
    BY <2>2, <2>3, NthType
<1>2. Nth(S, R, x) \in Nat /\ Nth(S, R, y) \in Nat
  BY NthType
<1>3. CASE x = y
  BY <1>2, <1>3 DEF Orders
<1>4. CASE x # y
  <2>1. <<x, y>> \in R \/ <<y, x>> \in R
    BY <1>4 DEF Orders
  <2>2. <<y, x>> \in R => ~(Nth(S, R, x) < Nth(S, R, y))
    BY <1>1, <1>2
  <2> QED
    BY <1>1, <2>1, <2>2
<1> QED
  BY <1>3, <1>4

\* What has others ahead of it has one right ahead of it.
LEMMA NthBefore ==
  ASSUME NEW S, NEW R, Orders(S, R), NEW x \in S, Nth(S, R, x) > 0
  PROVE  \E y \in S : Nth(S, R, y) = Nth(S, R, x) - 1
<1>0. Nth(S, R, x) \in Nat
  BY NthType
<1> DEFINE N == {Nth(S, R, y) : y \in Ahead(S, R, x)}
<1>1. N \in SUBSET Nat /\ \A n \in N : n <= Nth(S, R, x)
  <2>1. ASSUME NEW y \in Ahead(S, R, x)
        PROVE Nth(S, R, y) \in Nat /\ Nth(S, R, y) <= Nth(S, R, x)
    <3>1. y \in S /\ <<y, x>> \in R /\ Nth(S, R, y) \in Nat
      BY <2>1, NthType DEF Ahead
    <3> QED
      BY <3>1, <1>0, NthOrder
  <2> QED
    BY <2>1
<1>2. N # {}
  <2>1. Ahead(S, R, x) # {}
    BY NthType, FS_EmptySet DEF Nth
  <2> QED
    BY <2>1
<1>3. PICK m \in N : \A n \in N : n <= m
  BY <1>0, <1>1, <1>2, LastExists
<1>4. PICK y \in Ahead(S, R, x) : Nth(S, R, y) = m
  BY <1>3
<1>5. y \in S /\ <<y, x>> \in R
  BY <1>4 DEF Ahead
<1>6. Ahead(S, R, y) = Ahead(S, R, x) \ {y}
  <2>1. ASSUME NEW z \in Ahead(S, R, y) PROVE z \in Ahead(S, R, x) /\ z # y
    BY <2>1, <1>5 DEF Ahead, Orders
  <2>2. ASSUME NEW z \in Ahead(S, R, x), z # y PROVE z \in Ahead(S, R, y)
    <3>1. z \in S /\ Nth(S, R, z) <= Nth(S, R, y) /\ Nth(S, R, z) \in Nat /\ Nth(S, R, y) \in Nat
      BY <1>3, <1>4, NthType DEF Ahead
    <3>2. <<y, z>> \notin R
      BY <3>1, <1>5, NthOrder
    <3> QED
      BY <3>1, <3>2, <2>2, <1>5 DEF Ahead, Orders
  <2> QED
    BY <2>1, <2>2
<1>7. Nth(S, R, y) = Nth(S, R, x) - 1
  BY <1>4, <1>6, NthType, FS_RemoveElement DEF Nth
<1> QED
  BY <1>5, <1>7

LEMMA NthFill ==
  ASSUME NEW S, NEW R, Orders(S, R), NEW x \in S, NEW n \in Nat, n <= Nth(S, R, x)
  PROVE  \E y \in S : Nth(S, R, y) = n
<1> DEFINE N == {m \in Nat : n <= m /\ \E y \in S : Nth(S, R, y) = m}
<1>1. N \in SUBSET Nat /\ N # {}
  BY NthType
<1>2. PICK m \in N : \A k \in N : m <= k
  BY <1>1, FirstExists
<1>3. PICK y \in S : Nth(S, R, y) = m
  BY <1>2
<1>4. CASE m = n
  BY <1>3, <1>4
<1>5. CASE m # n
  <2>1. m \in Nat /\ n < m
    BY <1>2, <1>5
  <2>2. PICK z \in S : Nth(S, R, z) = m - 1
    BY <1>3, <2>1, NthBefore
  <2>3. m - 1 \in N
    BY <2>1, <2>2
  <2> QED
    BY <1>2, <2>1, <2>3
<1> QED
  BY <1>4, <1>5

LEMMA NthAll ==
  ASSUME NEW S, NEW R, Orders(S, R), NEW n \in Nat, n < Cardinality(S)
  PROVE  \E y \in S : Nth(S, R, y) = n
<1>0. IsFiniteSet(S) /\ Cardinality(S) \in Nat
  BY FS_CardinalityType DEF Orders
<1>1. S # {}
  BY <1>0, FS_EmptySet
<1> DEFINE N == {Nth(S, R, y) : y \in S}
<1>2. N \in SUBSET Nat /\ N # {} /\ \A m \in N : m <= Cardinality(S)
  <2>1. ASSUME NEW y \in S PROVE Nth(S, R, y) \in Nat /\ Nth(S, R, y) <= Cardinality(S)
    <3>1. Ahead(S, R, y) \subseteq S
      BY DEF Ahead
    <3>2. Cardinality(Ahead(S, R, y)) <= Cardinality(S)
      BY <1>0, <3>1, FS_Subset
    <3> QED
      BY <3>2, NthType DEF Nth
  <2> QED
    BY <2>1, <1>1
<1>3. PICK m \in N : \A k \in N : k <= m
  BY <1>0, <1>2, LastExists
<1>4. PICK x \in S : Nth(S, R, x) = m
  BY <1>3
<1>5. \A y \in S : <<x, y>> \notin R
  <2> SUFFICES ASSUME NEW y \in S, <<x, y>> \in R PROVE FALSE
    OBVIOUS
  <2>1. Nth(S, R, x) < Nth(S, R, y) /\ Nth(S, R, x) \in Nat /\ Nth(S, R, y) \in Nat
    BY NthOrder, NthType
  <2> QED
    BY <1>3, <1>4, <2>1
<1>6. Ahead(S, R, x) = S \ {x}
  BY <1>5 DEF Ahead, Orders
<1>7. Nth(S, R, x) = Cardinality(S) - 1
  BY <1>0, <1>6, FS_RemoveElement DEF Nth
<1>8. n <= Nth(S, R, x)
  BY <1>0, <1>7
<1> QED
  BY <1>8, NthFill

-----------------------------------------------------------------------------
(***************************************************************************)
(* The site's log s: where a topic t got posts, how many up to a time, and *)
(* the newest.  Posts and Bump are these of the variable log.              *)
(***************************************************************************)
Spots(s, t, v) == {k \in 1 .. v : s[k] = t}
Tally(s, t, v) == Cardinality(Spots(s, t, v))
Top(s, t)      == Newest(Spots(s, t, Len(s)))

LEMMA PostsIs == \A t, v : Posts(t, v) = Tally(log, t, v)
  BY DEF Posts, Bumps, Tally, Spots

LEMMA BumpIs == \A t : Bump(t) = Top(log, t)
  BY DEF Bump, Bumps, Top, Spots

LEMMA SpotsType ==
  ASSUME NEW s, NEW t, NEW v \in Nat
  PROVE  /\ IsFiniteSet(Spots(s, t, v)) /\ Spots(s, t, v) \in SUBSET Nat
         /\ \A k \in Spots(s, t, v) : k <= v
         /\ Tally(s, t, v) \in Nat
<1>1. Spots(s, t, v) \subseteq 1 .. v
  BY DEF Spots
<1>2. IsFiniteSet(Spots(s, t, v))
  BY <1>1, FS_Interval, FS_Subset
<1>3. Tally(s, t, v) \in Nat
  BY <1>2, FS_CardinalityType DEF Tally
<1> QED
  BY <1>1, <1>2, <1>3

LEMMA TallyGrows ==
  ASSUME NEW s, NEW t, NEW v \in Nat, NEW w \in Nat,
         \A k \in 1 .. v : s[k] = t => k <= w
  PROVE  Tally(s, t, v) <= Tally(s, t, w)
<1>1. Spots(s, t, v) \subseteq Spots(s, t, w)
  BY DEF Spots
<1> QED
  BY <1>1, SpotsType, FS_Subset DEF Tally

LEMMA TopIs ==
  ASSUME NEW s, NEW t, Len(s) \in Nat
  PROVE  /\ Top(s, t) \in Nat /\ Top(s, t) <= Len(s)
         /\ Top(s, t) # 0 => Top(s, t) \in 1 .. Len(s) /\ s[Top(s, t)] = t
         /\ \A k \in 1 .. Len(s) : s[k] = t => k <= Top(s, t)
<1>1. /\ Top(s, t) \in Spots(s, t, Len(s)) \cup {0} /\ Top(s, t) \in Nat
      /\ Top(s, t) <= Len(s)
      /\ \A k \in Spots(s, t, Len(s)) : k <= Top(s, t)
  BY SpotsType, NewestIs DEF Top
<1> QED
  BY <1>1 DEF Spots

LEMMA TopOfOne ==
  ASSUME NEW s, NEW t, NEW u, Len(s) \in Nat, Top(s, t) = Top(s, u), Top(s, t) # 0
  PROVE  t = u
  BY TopIs

LEMMA TopOnly ==
  ASSUME NEW s, NEW t, Len(s) \in Nat, NEW m \in 1 .. Len(s), s[m] = t,
         \A k \in 1 .. Len(s) : s[k] = t => k <= m
  PROVE  Top(s, t) = m
<1>1. m \in Spots(s, t, Len(s)) \cup {0} /\ \A k \in Spots(s, t, Len(s)) : k <= m
  BY DEF Spots
<1> QED
  BY <1>1, SpotsType, NewestOnly DEF Top

LEMMA TallyAtTop ==
  ASSUME NEW s, NEW t, Len(s) \in Nat
  PROVE  Tally(s, t, Top(s, t)) = Tally(s, t, Len(s))
<1>1. Top(s, t) \in Nat /\ \A k \in 1 .. Len(s) : s[k] = t => k <= Top(s, t)
  BY TopIs
<1>2. Tally(s, t, Len(s)) <= Tally(s, t, Top(s, t))
  BY <1>1, TallyGrows
<1>3. \A k \in 1 .. Top(s, t) : s[k] = t => k <= Len(s)
  BY <1>1, TopIs
<1>4. Tally(s, t, Top(s, t)) <= Tally(s, t, Len(s))
  BY <1>1, <1>3, TallyGrows
<1>5. Tally(s, t, Top(s, t)) \in Nat /\ Tally(s, t, Len(s)) \in Nat
  BY <1>1, SpotsType
<1> QED
  BY <1>2, <1>4, <1>5

LEMMA AppendType ==
  ASSUME NEW s \in Seq(Topics), NEW x \in Topics
  PROVE  /\ Append(s, x) \in Seq(Topics) /\ Len(s) \in Nat
         /\ Len(Append(s, x)) = Len(s) + 1
         /\ Append(s, x)[Len(s) + 1] = x
         /\ \A k \in 1 .. Len(s) : Append(s, x)[k] = s[k] /\ s[k] \in Topics
  OBVIOUS

\* What a post changes: the newest of its topic, and nothing of the past.
LEMMA AppendTally ==
  ASSUME NEW s \in Seq(Topics), NEW x \in Topics, NEW t, NEW v \in Nat, v <= Len(s)
  PROVE  Tally(Append(s, x), t, v) = Tally(s, t, v)
<1>1. \A k \in 1 .. v : Append(s, x)[k] = s[k]
  BY AppendType
<1>2. Spots(Append(s, x), t, v) = Spots(s, t, v)
  BY <1>1 DEF Spots
<1> QED
  BY <1>2 DEF Tally

LEMMA AppendTop ==
  ASSUME NEW s \in Seq(Topics), NEW x \in Topics
  PROVE  /\ Top(Append(s, x), x) = Len(s) + 1
         /\ \A t : t # x => Top(Append(s, x), t) = Top(s, t)
<1> DEFINE a == Append(s, x)
<1>0. /\ Len(s) \in Nat /\ Len(a) = Len(s) + 1 /\ Len(a) \in Nat /\ a[Len(s) + 1] = x
      /\ \A k \in 1 .. Len(s) : a[k] = s[k]
  BY AppendType
<1> HIDE DEF a
<1>1. Top(a, x) = Len(s) + 1
  BY <1>0, TopOnly
<1>2. ASSUME NEW t, t # x PROVE Top(a, t) = Top(s, t)
  <2>1. Spots(a, t, Len(a)) = Spots(s, t, Len(s))
    BY <1>0, <1>2 DEF Spots
  <2> QED
    BY <2>1 DEF Top
<1> QED
  BY <1>1, <1>2 DEF a

-----------------------------------------------------------------------------
\* The listing of a category, newest activity first.
RankIn(s, t) == Cardinality({u \in Topics : /\ CategoryOf[u] = CategoryOf[t]
                                            /\ Top(s, u) > Top(s, t)})

LEMMA RankIs == \A t : Rank(t) = RankIn(log, t)
  BY BumpIs DEF Rank, RankIn

LEMMA RankType ==
  ASSUME NEW s, NEW t
  PROVE  RankIn(s, t) \in Nat
<1> DEFINE A == {u \in Topics : CategoryOf[u] = CategoryOf[t] /\ Top(s, u) > Top(s, t)}
<1>1. IsFiniteSet(A)
  BY ForumBounds, FS_Subset
<1>2. Cardinality(A) \in Nat
  BY <1>1, FS_CardinalityType
<1> QED
  BY <1>2 DEF RankIn

\* No post moves up a topic other than its own.
LEMMA AppendRank ==
  ASSUME NEW s \in Seq(Topics), NEW x \in Topics, NEW t \in Topics, t # x
  PROVE  RankIn(s, t) <= RankIn(Append(s, x), t)
<1> DEFINE a == Append(s, x)
           A == {u \in Topics : CategoryOf[u] = CategoryOf[t] /\ Top(s, u) > Top(s, t)}
           B == {u \in Topics : CategoryOf[u] = CategoryOf[t] /\ Top(a, u) > Top(a, t)}
<1>1. /\ Len(s) \in Nat /\ Top(s, t) \in Nat /\ Top(s, t) <= Len(s)
      /\ Top(a, t) = Top(s, t) /\ Top(a, x) = Len(s) + 1
      /\ \A u : u # x => Top(a, u) = Top(s, u)
  BY AppendType, AppendTop, TopIs
<1>2. A \subseteq B
  BY <1>1
<1>3. IsFiniteSet(B)
  BY ForumBounds, FS_Subset
<1>4. Cardinality(A) <= Cardinality(B)
  BY <1>2, <1>3, FS_Subset
<1> QED
  BY <1>4 DEF RankIn

LEMMA RankFill ==
  ASSUME NEW s, Len(s) \in Nat, NEW t \in Topics, Top(s, t) # 0,
         NEW n \in Nat, n <= RankIn(s, t)
  PROVE  \E u \in Topics : CategoryOf[u] = CategoryOf[t] /\ Top(s, u) # 0 /\ RankIn(s, u) = n
<1> DEFINE S == {u \in Topics : CategoryOf[u] = CategoryOf[t] /\ Top(s, u) # 0}
           R == {e \in Topics \X Topics : Top(s, e[1]) > Top(s, e[2])}
<1>0. \A u : Top(s, u) \in Nat
  BY TopIs
<1>1. Orders(S, R)
  <2>1. IsFiniteSet(S)
    BY ForumBounds, FS_Subset
  <2>2. \A u, w \in Topics : <<u, w>> \in R <=> Top(s, u) > Top(s, w)
    OBVIOUS
  <2> HIDE DEF R
  <2>3. \A u, w \in S : u # w => Top(s, u) # Top(s, w)
    BY TopOfOne
  <2> QED
    BY <1>0, <2>1, <2>2, <2>3 DEF Orders
<1>2. ASSUME NEW u \in S PROVE Nth(S, R, u) = RankIn(s, u)
  <2>1. Ahead(S, R, u) = {w \in Topics : CategoryOf[w] = CategoryOf[u] /\ Top(s, w) > Top(s, u)}
    BY <1>0 DEF Ahead
  <2> QED
    BY <2>1 DEF Nth, RankIn
<1>3. t \in S
  OBVIOUS
<1> HIDE DEF R
<1>4. PICK u \in S : Nth(S, R, u) = n
  BY SMTT(30), <1>1, <1>2, <1>3, NthFill
<1> QED
  BY <1>2, <1>4

\* The topics from a rank on
From(p) == p * ListPage

LEMMA FromType ==
  ASSUME NEW p \in Nat
  PROVE  /\ From(p) \in Nat /\ From(p + 1) = From(p) + ListPage
         /\ ListPage \in Nat /\ ListPage > 0 /\ From(0) = 0
  BY ForumBounds DEF From

LEMMA InListing ==
  ASSUME NEW p \in Nat, NEW c, NEW t
  PROVE  t \in Listing(c, p) <=> /\ t \in Topics /\ CategoryOf[t] = c /\ Top(log, t) # 0
                                 /\ From(p) <= RankIn(log, t) /\ RankIn(log, t) < From(p + 1)
<1>1. RankIn(log, t) \in Nat /\ From(p) \in Nat /\ From(p + 1) \in Nat
  BY RankType, FromType
<1>2. t \in Listing(c, p) <=> /\ t \in Topics /\ CategoryOf[t] = c /\ Top(log, t) # 0
                              /\ RankIn(log, t) \in From(p) .. From(p + 1) - 1
  BY BumpIs, RankIs DEF Listing, Exists, From
<1> HIDE DEF From
<1> QED
  BY <1>1, <1>2

\* Behind an empty page there is nothing.
LEMMA EmptyPage ==
  ASSUME Len(log) \in Nat, NEW p \in Nat, NEW c, Listing(c, p) = {},
         NEW t \in Topics, CategoryOf[t] = c, Top(log, t) # 0
  PROVE  RankIn(log, t) < From(p)
<1>1. RankIn(log, t) \in Nat /\ From(p) \in Nat /\ From(p) < From(p + 1) /\ From(p + 1) \in Nat
  <2>1. RankIn(log, t) \in Nat
    BY RankType
  <2>2. From(p) \in Nat /\ From(p + 1) = From(p) + ListPage /\ ListPage \in Nat /\ ListPage > 0
    BY FromType
  <2> QED
    BY <2>1, <2>2
<1> SUFFICES ASSUME From(p) <= RankIn(log, t) PROVE FALSE
  BY <1>1
<1>2. PICK u \in Topics : /\ CategoryOf[u] = CategoryOf[t] /\ Top(log, u) # 0
                          /\ RankIn(log, u) = From(p)
  BY <1>1, RankFill
<1> QED
  BY SMTT(30), <1>1, <1>2, InListing

-----------------------------------------------------------------------------
(***************************************************************************)
(* Typing, with what every number of a job, a row or a cursor is bounded   *)
(* by: the length of the log.                                              *)
(***************************************************************************)
Jobs == [mode : {"idle", "backfill", "update", "repair"},
         pc : {"idle", "list", "pick", "item", "end", "finish", "get", "store", "tail",
               "posts", "latest"},
         category : Nat, page : Nat, after : Nat, skip : Nat,
         todo : SUBSET (Topics \X Nat), topic : Topics \cup {0},
         listed : Nat, version : Nat, newest : Nat, failed : BOOLEAN, more : BOOLEAN,
         spared : SUBSET Topics]
Cursors == [done : SUBSET Categories, category : Nat, page : Nat, after : Nat,
            since : Nat, skip : Nat]
Recs == [have : Nat, count : Nat, bumped : Nat]

SiteShape ==
    /\ kind \in {"discourse", "github", "snapshot"}
    /\ log \in Seq(Topics) /\ Len(log) <= MaxLog
    /\ faults \in 0 .. MaxFaults
    /\ excused \subseteq Topics

RowShape ==
    /\ rec \in [Topics -> Recs] /\ \A t \in Topics : rec[t].bumped <= Len(log)
    /\ validator \in [Topics -> Nat] /\ \A t \in Topics : validator[t] <= Len(log)
    /\ etags \in BOOLEAN /\ done \in BOOLEAN
    /\ mark \in Nat /\ mark <= Len(log)
    /\ base \in Nat /\ base <= Len(log)
    /\ promised \in Nat /\ promised <= Len(log)

CursorShape == cursor \in Cursors /\ cursor.since <= Len(log)

JobShape ==
    /\ job \in Jobs
    /\ job.listed <= Len(log) /\ job.version <= Len(log) /\ job.newest <= Len(log)
    /\ \A e \in job.todo : e[2] <= Len(log)
    /\ job.pc \in {"get", "store", "tail"} => job.topic \in Topics
    /\ kind = "discourse" /\ job.mode = "backfill" /\ job.pc # "finish"
          => job.category \in Categories
    /\ kind = "discourse" /\ job.pc = "list" => job.mode = "backfill"

Shapes == SiteShape /\ RowShape /\ CursorShape /\ JobShape

LEMMA LogType == SiteShape => Len(log) \in Nat /\ \A k \in 1 .. Len(log) : log[k] \in Topics
  BY DEF SiteShape

LEMMA IdleType ==
  /\ Idle \in Jobs /\ NoCursor \in Cursors
  /\ Idle.mode = "idle" /\ Idle.pc = "idle" /\ Idle.category = 0 /\ Idle.page = 0
  /\ Idle.after = 0 /\ Idle.skip = 0 /\ Idle.todo = {} /\ Idle.topic = 0
  /\ Idle.listed = 0 /\ Idle.version = 0 /\ Idle.newest = 0
  /\ Idle.failed = FALSE /\ Idle.more = FALSE /\ Idle.spared = {}
  /\ NoCursor.done = {} /\ NoCursor.category = 0 /\ NoCursor.page = 0
  /\ NoCursor.after = 0 /\ NoCursor.since = 0 /\ NoCursor.skip = 0
<1>1. Idle \in Jobs
  BY DEF Idle, Jobs
<1>2. NoCursor \in Cursors
  BY DEF NoCursor, Cursors
<1> QED
  BY <1>1, <1>2 DEF Idle, NoCursor

LEMMA BumpType ==
  ASSUME SiteShape, NEW t
  PROVE  Bump(t) \in Nat /\ Bump(t) <= Len(log)
  BY LogType, BumpIs, TopIs

LEMMA PostsType ==
  ASSUME NEW t, NEW v \in Nat
  PROVE  Posts(t, v) \in Nat
  BY PostsIs, SpotsType

LEMMA ArchivedType ==
  ASSUME SiteShape, RowShape
  PROVE  /\ NewestArchived \in Nat /\ NewestArchived <= Len(log)
         /\ \A t \in Topics : rec[t].bumped <= NewestArchived
         /\ NewestArchived = 0 \/ \E t \in Topics : NewestArchived = rec[t].bumped
<1> DEFINE S == {rec[t].bumped : t \in Topics}
<1>1. S \in SUBSET Nat /\ \A n \in S : n <= Len(log)
  BY DEF RowShape, Recs
<1>2. /\ Newest(S) \in S \cup {0} /\ Newest(S) \in Nat /\ Newest(S) <= Len(log)
      /\ \A n \in S : n <= Newest(S)
  BY <1>1, LogType, NewestIs
<1> QED
  BY <1>2 DEF NewestArchived

\* What a step does to the job: fields in F are set, the others stay or start.
Fields == {"mode", "pc", "category", "page", "after", "skip", "todo", "topic", "listed",
           "version", "newest", "failed", "more", "spared"}
Sets(F)   == job' \in Jobs /\ \A f \in Fields \ F : job'[f] = job[f]
Starts(F) == job' \in Jobs /\ \A f \in Fields \ F : job'[f] = Idle[f]

LEMMA BeginBackfillIs ==
  ASSUME Shapes, BeginBackfill
  PROVE  /\ job = Idle
         /\ job' = Enter(cursor.done)
         /\ Rebase
         /\ UNCHANGED <<kind, log, rec, etags, validator, done, cursor, mark, faults,
                        promised, excused>>
  BY IdleType DEF BeginBackfill, Shapes, SiteShape, RowShape, CursorShape, JobShape, Jobs,
       Cursors, Recs, Sets, Starts, Fields, Idle, Back, Failing, MayBegin, Finish, forum,
       cache, history

LEMMA PageDoneIs ==
  ASSUME Shapes, PageDone
  PROVE  /\ job.mode = "backfill"
         /\ job.pc = "pick"
         /\ job.todo = {}
         /\ Sets({"pc", "page"})
         /\ job'.pc = "list"
         /\ job'.page = job.page + 1
         /\ cursor' = CursorAt(job.category, job.page + 1)
         /\ UNCHANGED <<kind, log, rec, etags, validator, done, mark, faults, base,
                        promised, excused>>
<1>1. job.page + 1 \in Nat
  BY DEF Shapes, JobShape, Jobs
<1> DEFINE p == job.page + 1
<1>2. job' = [job EXCEPT !.pc = "list", !.page = p] /\ p \in Nat /\ job \in Jobs
  BY <1>1 DEF PageDone, Shapes, JobShape
<1> HIDE DEF p
<1>3. Sets({"pc", "page"}) /\ job'.pc = "list" /\ job'.page = p
  BY <1>2 DEF Jobs, Sets, Fields
<1> QED
  BY <1>3 DEF PageDone, p, cache, history

LEMMA StopBackfillIs ==
  ASSUME Shapes, StopBackfill
  PROVE  /\ job.mode = "backfill"
         /\ job.pc \in {"list", "pick"}
         /\ Starts({})
         /\ cursor' = CursorAt(job.category, job.page)
         /\ UNCHANGED <<kind, log, rec, etags, validator, done, mark, faults, base,
                        promised, excused>>
  BY IdleType DEF StopBackfill, Shapes, SiteShape, RowShape, CursorShape, JobShape, Jobs,
       Cursors, Recs, Sets, Starts, Fields, Idle, Back, Failing, MayBegin, Finish, forum,
       cache, history

LEMMA EndBackfillIs ==
  ASSUME Shapes, EndBackfill
  PROVE  /\ job.pc = "finish"
         /\ Starts({})
         /\ done' = TRUE
         /\ cursor' = NoCursor
         /\ promised' = Later(promised, base)
         /\ base' = 0
         /\ UNCHANGED <<kind, log, rec, etags, validator, mark, faults, excused>>
  BY IdleType DEF EndBackfill, Shapes, SiteShape, RowShape, CursorShape, JobShape, Jobs,
       Cursors, Recs, Sets, Starts, Fields, Idle, Back, Failing, MayBegin, Finish, forum,
       cache, history

LEMMA UnchangedIs ==
  ASSUME Shapes, Unchanged
  PROVE  /\ job.pc = "get"
         /\ validator[job.topic] = Bump(job.topic)
         /\ Sets({"pc", "topic", "listed", "version"})
         /\ job'.pc = "pick"
         /\ job'.topic = 0
         /\ job'.listed = 0
         /\ job'.version = 0
         /\ UNCHANGED <<kind, log, rec, etags, validator, done, cursor, mark, faults, base,
                        promised, excused>>
  BY IdleType DEF Unchanged, Shapes, SiteShape, RowShape, CursorShape, JobShape, Jobs,
       Cursors, Recs, Sets, Starts, Fields, Idle, Back, Failing, MayBegin, Finish, forum,
       cache, history

LEMMA GetIs ==
  ASSUME Shapes, Get
  PROVE  /\ job.pc = "get"
         /\ Sets({"pc", "version"})
         /\ job'.pc = "store"
         /\ job'.version = Bump(job.topic)
         /\ validator' = [validator EXCEPT ![job.topic] = IF etags THEN Bump(job.topic) ELSE @]
         /\ UNCHANGED <<kind, log, rec, etags, done, cursor, mark, faults, base, promised,
                        excused>>
<1>1. Bump(job.topic) \in Nat /\ job \in Jobs
  BY BumpType DEF Shapes, JobShape
<1>2. job' = [job EXCEPT !.pc = "store", !.version = Bump(job.topic)]
  BY DEF Get
<1>3. Sets({"pc", "version"}) /\ job'.pc = "store" /\ job'.version = Bump(job.topic)
  BY <1>1, <1>2 DEF Jobs, Sets, Fields
<1> QED
  BY <1>3 DEF Get, forum, history

LEMMA GetFailsIs ==
  ASSUME Shapes, GetFails
  PROVE  /\ job.pc = "get"
         /\ faults < MaxFaults
         /\ Sets({"pc", "topic", "listed", "version", "failed"})
         /\ job'.pc = "pick"
         /\ job'.topic = 0
         /\ job'.listed = 0
         /\ job'.version = 0
         /\ job'.failed = TRUE
         /\ faults' = faults + 1
         /\ excused' = IF job.mode = "backfill" THEN excused \cup {job.topic} ELSE excused
         /\ UNCHANGED <<kind, log, rec, etags, validator, done, cursor, mark, base,
                        promised>>
  BY IdleType DEF GetFails, Shapes, SiteShape, RowShape, CursorShape, JobShape, Jobs,
       Cursors, Recs, Sets, Starts, Fields, Idle, Back, Failing, MayBegin, Finish, forum,
       cache, history

\* A crawl that ends as complete, with fewer rows than posts.
LEMMA ShortIs ==
  ASSUME job \in Jobs, job.topic \in Topics, job' = Short
  PROVE  /\ Sets({"pc", "topic", "listed", "version", "spared"})
         /\ job'.pc = "pick" /\ job'.topic = 0 /\ job'.listed = 0 /\ job'.version = 0
         /\ job'.spared = IF job.mode = "repair" THEN job.spared \cup {job.topic}
                          ELSE job.spared
<1> DEFINE new == IF job.mode = "repair" THEN job.spared \cup {job.topic} ELSE job.spared
<1>1. new \in SUBSET Topics
  BY DEF Jobs
<1>2. job' = [job EXCEPT !.pc = "pick", !.topic = 0, !.listed = 0, !.version = 0,
                        !.spared = new]
  BY DEF Short, Back, Jobs
<1> HIDE DEF new
<1>3. job' \in Jobs
  <2> DEFINE j == [job EXCEPT !.pc = "pick", !.topic = 0, !.listed = 0, !.version = 0]
  <2>1. j \in Jobs
    BY DEF Jobs
  <2>2. job' = [j EXCEPT !.spared = new]
    BY <1>2 DEF Jobs
  <2> HIDE DEF j
  <2>3. \A x \in SUBSET Topics : [j EXCEPT !.spared = x] \in Jobs
    BY <2>1 DEF Jobs
  <2> QED
    BY <1>1, <2>2, <2>3
<1>4. job'.pc = "pick" /\ job'.topic = 0 /\ job'.listed = 0 /\ job'.version = 0
  BY <1>2 DEF Jobs
<1>5. job'.spared = new
  BY <1>2 DEF Jobs
<1>6. \A f \in Fields \ {"pc", "topic", "listed", "version", "spared"} : job'[f] = job[f]
  BY <1>2 DEF Jobs, Fields
<1> QED
  BY <1>3, <1>4, <1>5, <1>6 DEF new, Sets

LEMMA GetNullIs ==
  ASSUME Shapes, GetNull
  PROVE  /\ job.pc = "get" /\ job.topic \in Topics
         /\ faults < MaxFaults /\ faults' = faults + 1
         /\ Sets({"pc", "topic", "listed", "version", "spared"})
         /\ job'.pc = "pick" /\ job'.topic = 0 /\ job'.listed = 0 /\ job'.version = 0
         /\ job'.spared = IF job.mode = "repair" THEN job.spared \cup {job.topic}
                          ELSE job.spared
         /\ validator' = [validator EXCEPT ![job.topic] = IF etags THEN 0 ELSE @]
         /\ excused' = IF job.mode = "repair" THEN excused ELSE excused \cup {job.topic}
         /\ UNCHANGED <<kind, log, rec, etags, done, cursor, mark, base, promised>>
<1>1. job \in Jobs /\ job.pc = "get" /\ job.topic \in Topics /\ job' = Short
  BY DEF GetNull, Shapes, JobShape
<1>2. /\ faults < MaxFaults /\ faults' = faults + 1
      /\ validator' = [validator EXCEPT ![job.topic] = IF etags THEN 0 ELSE @]
      /\ excused' = IF job.mode = "repair" THEN excused ELSE excused \cup {job.topic}
      /\ UNCHANGED <<kind, log, rec, etags, done, cursor, mark, base, promised>>
  BY DEF GetNull, forum
<1> QED
  BY <1>1, <1>2, ShortIs

LEMMA UpdateNullIs ==
  ASSUME Shapes, UpdateNull
  PROVE  /\ job.pc \in {"posts", "latest"}
         /\ faults < MaxFaults /\ faults' = faults + 1
         /\ Sets({"pc"})
         /\ job'.pc = IF job.pc = "posts" THEN "latest" ELSE "pick"
         /\ UNCHANGED <<kind, log, rec, etags, validator, done, cursor, mark, base,
                        promised, excused>>
<1>1. CASE job.pc = "posts" /\ job' = [job EXCEPT !.pc = "latest"]
  BY <1>1 DEF UpdateNull, Shapes, JobShape, Jobs, Sets, Fields, forum, cache, history
<1>2. CASE job.pc = "latest" /\ job' = [job EXCEPT !.pc = "pick"]
  BY <1>2 DEF UpdateNull, Shapes, JobShape, Jobs, Sets, Fields, forum, cache, history
<1> QED
  BY <1>1, <1>2 DEF UpdateNull

\* However many rows come of an answer, they are no fewer than before and no more
\* than the posts, and the faults stay in bounds.
LEMMA RowsAre ==
  ASSUME NEW have \in Nat, NEW come \in Int, NEW count \in Nat, NEW n \in Rows(have, come, count)
  PROVE  n \in Nat /\ have <= n /\ n <= count
  BY DEF Rows, Lesser

LEMMA UnusualIs ==
  ASSUME SiteShape, NEW n, NEW u, Unusual(n, u)
  PROVE  faults' \in 0 .. MaxFaults
  BY ForumBounds DEF Unusual, SiteShape

LEMMA ChunksIs ==
  ASSUME Shapes, Chunks
  PROVE  /\ job.pc = "tail" /\ job.topic \in Topics
         /\ Sets({"pc", "topic", "listed", "version", "spared"})
         /\ job'.pc = "pick" /\ job'.topic = 0 /\ job'.listed = 0 /\ job'.version = 0
         /\ \E have \in Nat :
               /\ rec[job.topic].have <= have /\ have <= rec[job.topic].count
               /\ rec' = [rec EXCEPT ![job.topic].have = have]
               /\ \/ have = rec[job.topic].count /\ job'.spared = job.spared
                  \/ job'.spared = IF job.mode = "repair" THEN job.spared \cup {job.topic}
                                   ELSE job.spared
         /\ faults' \in 0 .. MaxFaults
         /\ UNCHANGED <<kind, log, etags, validator, done, cursor, mark, base, promised,
                        excused>>
<1> DEFINE row  == rec[job.topic]
           come == row.count - Embedded
<1>0. /\ job \in Jobs /\ job.pc = "tail" /\ job.topic \in Topics
      /\ row.have \in Nat /\ row.count \in Nat /\ come \in Int
  BY ForumBounds DEF Shapes, JobShape, RowShape, Chunks, Recs
<1>1. PICK have \in Rows(row.have, come, row.count) :
          /\ Unusual(have, Lesser(row.have + come, row.count))
          /\ rec' = [rec EXCEPT ![job.topic].have = have]
          /\ job' = IF have < row.count THEN Short ELSE Back
  BY DEF Chunks
<1> HIDE DEF come
<1>2. have \in Nat /\ row.have <= have /\ have <= row.count
  BY <1>0, RowsAre
<1>3. faults' \in 0 .. MaxFaults
  BY <1>1, UnusualIs DEF Shapes
<1>4. UNCHANGED <<kind, log, etags, validator, done, cursor, mark, base, promised, excused>>
  BY DEF Chunks, cache, forum, history
<1>5. CASE have < row.count
  <2>1. job' = Short
    BY <1>1, <1>5
  <2> QED
    BY <1>0, <1>1, <1>2, <1>3, <1>4, <2>1, ShortIs
<1>6. CASE ~(have < row.count)
  <2>1. job' = Back /\ have = row.count
    BY <1>0, <1>1, <1>2, <1>6
  <2>2. /\ Sets({"pc", "topic", "listed", "version", "spared"})
        /\ job'.pc = "pick" /\ job'.topic = 0 /\ job'.listed = 0 /\ job'.version = 0
        /\ job'.spared = job.spared
    BY <1>0, <2>1 DEF Back, Jobs, Sets, Fields
  <2> QED
    BY <1>0, <1>1, <1>2, <1>3, <1>4, <2>1, <2>2
<1> QED
  BY <1>5, <1>6

LEMMA BeginUpdateIs ==
  ASSUME Shapes, BeginUpdate
  PROVE  /\ job = Idle
         /\ Starts({"mode", "pc"})
         /\ job'.mode = "update"
         /\ job'.pc = "posts"
         /\ UNCHANGED <<kind, log, rec, etags, validator, done, cursor, mark, faults, base,
                        promised, excused>>
  BY IdleType DEF BeginUpdate, Shapes, SiteShape, RowShape, CursorShape, JobShape, Jobs,
       Cursors, Recs, Sets, Starts, Fields, Idle, Back, Failing, MayBegin, Finish, forum,
       cache, history

LEMMA NewPostsIs ==
  ASSUME Shapes, NewPosts
  PROVE  /\ job.pc = "posts"
         /\ Sets({"pc", "todo", "newest"})
         /\ job'.pc = "latest"
         /\ job'.todo = {<<log[k], 0>> : k \in Fresh}
         /\ job'.newest = Newest(Fresh)
         /\ excused' = excused \cup
               {log[k] : k \in {n \in mark + 1 .. Len(log) - Window :
                                   rec[log[n]].count < Posts(log[n], n)}}
         /\ UNCHANGED <<kind, log, rec, etags, validator, done, cursor, mark, faults, base,
                        promised>>
<1> DEFINE new == {<<log[k], 0>> : k \in Fresh}
           n == Newest(Fresh)
<1>0. Len(log) \in Nat /\ (\A k \in 1 .. Len(log) : log[k] \in Topics) /\ job \in Jobs
  BY LogType DEF Shapes, JobShape
<1>1. Fresh \in SUBSET Nat /\ \A k \in Fresh : k \in 1 .. Len(log) /\ k <= Len(log)
  BY <1>0 DEF Fresh
<1>2. new \in SUBSET (Topics \X Nat)
  BY <1>0, <1>1
<1>3. n \in Nat
  BY <1>0, <1>1, NewestIs
<1>4. job' = [job EXCEPT !.pc = "latest", !.todo = new, !.newest = n]
  BY DEF NewPosts
<1> HIDE DEF new, n
<1>5. /\ Sets({"pc", "todo", "newest"})
      /\ job'.pc = "latest" /\ job'.todo = new /\ job'.newest = n
  BY <1>0, <1>2, <1>3, <1>4 DEF Jobs, Sets, Fields
<1> QED
  BY <1>5 DEF new, n, NewPosts, forum, cache

LEMMA EndUpdateIs ==
  ASSUME Shapes, EndUpdate
  PROVE  /\ job.mode = "update"
         /\ job.pc = "pick"
         /\ job.todo = {}
         /\ Starts({})
         /\ mark' = Mark
         /\ promised' = Later(promised, Mark)
         /\ UNCHANGED <<kind, log, rec, etags, validator, done, cursor, faults, base,
                        excused>>
  BY IdleType DEF EndUpdate, Shapes, SiteShape, RowShape, CursorShape, JobShape, Jobs,
       Cursors, Recs, Sets, Starts, Fields, Idle, Back, Failing, MayBegin, Finish, forum,
       cache, history

LEMMA BeginRepairIs ==
  ASSUME Shapes, BeginRepair
  PROVE  /\ job = Idle
         /\ Starts({"mode", "pc", "todo"})
         /\ job'.mode = "repair"
         /\ job'.pc = "pick"
         /\ job'.todo = {<<t, 0>> : t \in {u \in Topics : Incomplete(u)}}
         /\ UNCHANGED <<kind, log, rec, etags, validator, done, cursor, mark, faults, base,
                        promised, excused>>
<1> DEFINE new == {<<t, 0>> : t \in {u \in Topics : Incomplete(u)}}
<1>1. new \in SUBSET (Topics \X Nat)
  OBVIOUS
<1>2. job' = [Idle EXCEPT !.mode = "repair", !.pc = "pick", !.todo = new]
  BY DEF BeginRepair
<1> HIDE DEF new
<1>3. /\ Starts({"mode", "pc", "todo"})
      /\ job'.mode = "repair" /\ job'.pc = "pick" /\ job'.todo = new
  BY <1>1, <1>2, IdleType DEF Jobs, Starts, Fields
<1> QED
  BY <1>3 DEF new, BeginRepair, MayBegin, forum, cache, history

LEMMA EndRepairIs ==
  ASSUME Shapes, EndRepair
  PROVE  /\ job.mode = "repair"
         /\ job.pc = "pick"
         /\ job.todo = {}
         /\ Starts({})
         /\ UNCHANGED <<kind, log, rec, etags, validator, done, cursor, mark, faults, base,
                        promised, excused>>
  BY IdleType DEF EndRepair, Shapes, SiteShape, RowShape, CursorShape, JobShape, Jobs,
       Cursors, Recs, Sets, Starts, Fields, Idle, Back, Failing, MayBegin, Finish, forum,
       cache, history

LEMMA StopRepairIs ==
  ASSUME Shapes, StopRepair
  PROVE  /\ job.mode = "repair"
         /\ job.pc = "pick"
         /\ Starts({})
         /\ UNCHANGED <<kind, log, rec, etags, validator, done, cursor, mark, faults, base,
                        promised, excused>>
  BY IdleType DEF StopRepair, Shapes, SiteShape, RowShape, CursorShape, JobShape, Jobs,
       Cursors, Recs, Sets, Starts, Fields, Idle, Back, Failing, MayBegin, Finish, forum,
       cache, history

LEMMA BeginRepoIs ==
  ASSUME Shapes, BeginRepo
  PROVE  /\ job = Idle
         /\ Starts({"mode", "pc", "after"})
         /\ job'.mode = "backfill"
         /\ job'.pc = "list"
         /\ job'.after = cursor.after
         /\ Rebase
         /\ UNCHANGED <<kind, log, rec, etags, validator, done, cursor, mark, faults,
                        promised, excused>>
  BY IdleType DEF BeginRepo, Shapes, SiteShape, RowShape, CursorShape, JobShape, Jobs,
       Cursors, Recs, Sets, Starts, Fields, Idle, Back, Failing, MayBegin, Finish, forum,
       cache, history

LEMMA RepoStopIs ==
  ASSUME Shapes, RepoStop
  PROVE  /\ job.mode = "backfill"
         /\ Starts({})
         /\ cursor' = [NoCursor EXCEPT !.after = cursor.after]
         /\ excused' = excused \cup Overtaken
         /\ UNCHANGED <<kind, log, rec, etags, validator, done, mark, faults, base,
                        promised>>
  BY IdleType DEF RepoStop, Shapes, SiteShape, RowShape, CursorShape, JobShape, Jobs,
       Cursors, Recs, Sets, Starts, Fields, Idle, Back, Failing, MayBegin, Finish, forum,
       cache, history, RepoCursor

LEMMA RepoPageDoneIs ==
  ASSUME Shapes, RepoPageDone
  PROVE  /\ job.mode = "backfill"
         /\ job.pc = "item"
         /\ job.todo = {}
         /\ Sets({"pc"})
         /\ job'.pc = (IF job.more THEN "list" ELSE "end")
         /\ cursor' = [NoCursor EXCEPT !.after = job.after]
         /\ excused' = excused \cup Overtaken
         /\ UNCHANGED <<kind, log, rec, etags, validator, done, mark, faults, base,
                        promised>>
  BY ZenonT(60), IdleType DEF RepoPageDone, Shapes, SiteShape, RowShape, CursorShape,
       JobShape, Jobs, Cursors, Recs, Sets, Starts, Fields, Idle, Back, Failing, MayBegin,
       Finish, forum, cache, history

LEMMA EndRepoIs ==
  ASSUME Shapes, EndRepo
  PROVE  /\ job.mode = "backfill"
         /\ job.pc = "end"
         /\ Starts({})
         /\ cursor' = NoCursor
         /\ done' = TRUE
         /\ promised' = Later(promised, base)
         /\ base' = 0
         /\ UNCHANGED <<kind, log, rec, etags, validator, mark, faults, excused>>
  BY IdleType DEF EndRepo, Shapes, SiteShape, RowShape, CursorShape, JobShape, Jobs,
       Cursors, Recs, Sets, Starts, Fields, Idle, Back, Failing, MayBegin, Finish, forum,
       cache, history

LEMMA BeginRepoUpdateIs ==
  ASSUME Shapes, BeginRepoUpdate
  PROVE  /\ job = Idle
         /\ done
         /\ Starts({"mode", "pc", "version", "newest", "after"})
         /\ job'.mode = "update"
         /\ job'.pc = "list"
         /\ job'.version = Since
         /\ job'.newest = Since
         /\ job'.after = MaxLog + 1
         /\ UNCHANGED <<kind, log, rec, etags, validator, done, cursor, mark, faults, base,
                        promised, excused>>
<1>1. Since \in Nat /\ MaxLog + 1 \in Nat
  BY ArchivedType, ForumBounds DEF Since, Shapes, CursorShape, Cursors
<1>2. job' = [Idle EXCEPT !.mode = "update", !.pc = "list", !.version = Since,
                          !.newest = Since, !.after = MaxLog + 1]
  BY DEF BeginRepoUpdate
<1> DEFINE m == MaxLog + 1
<1> HIDE DEF m
<1>3. /\ Starts({"mode", "pc", "version", "newest", "after"})
      /\ job'.mode = "update" /\ job'.pc = "list" /\ job'.version = Since
      /\ job'.newest = Since /\ job'.after = m
  BY <1>1, <1>2, IdleType DEF Jobs, Starts, Fields, m
<1> QED
  BY <1>3 DEF m, BeginRepoUpdate, MayBegin, forum, cache, history

LEMMA NewestPageIs ==
  ASSUME Shapes, NewestPage
  PROVE  /\ job.mode = "update"
         /\ job.pc = "list"
         /\ Sets({"pc", "todo", "more"})
         /\ job'.pc = (IF Below(job.after) = {} THEN "end" ELSE "item")
         /\ job'.todo = Listed(Below(job.after))
         /\ job'.more = (\E t \in Topics : Exists(t) /\ t \notin Below(job.after)
                                             /\ Bump(t) < job.after)
         /\ UNCHANGED <<kind, log, rec, etags, validator, done, cursor, mark, faults, base,
                        promised, excused>>
<1> DEFINE page == Below(job.after)
           new  == Listed(page)
           on   == \E t \in Topics : Exists(t) /\ t \notin page /\ Bump(t) < job.after
           pc   == IF page = {} THEN "end" ELSE "item"
<1>0. job \in Jobs
  BY DEF Shapes, JobShape
<1>1. new \in SUBSET (Topics \X Nat)
  <2>1. page \subseteq Topics
    BY DEF Below, Between
  <2> QED
    BY <2>1, BumpType DEF Listed, Shapes
<1>2. on \in BOOLEAN /\ pc \in {"end", "item"}
  OBVIOUS
<1>3. job' = [job EXCEPT !.pc = pc, !.todo = new, !.more = on]
  BY DEF NewestPage
<1> HIDE DEF new, on, pc, page
<1>4. /\ Sets({"pc", "todo", "more"})
      /\ job'.pc = pc /\ job'.todo = new /\ job'.more = on
  BY <1>0, <1>1, <1>2, <1>3 DEF Jobs, Sets, Fields
<1> QED
  BY <1>4 DEF new, on, pc, page, NewestPage, forum, cache, history

LEMMA NewestPageDoneIs ==
  ASSUME Shapes, NewestPageDone
  PROVE  /\ job.mode = "update"
         /\ job.pc = "item"
         /\ job.todo = {}
         /\ Sets({"pc"})
         /\ job'.pc = (IF job.more THEN "list" ELSE "end")
         /\ UNCHANGED <<kind, log, rec, etags, validator, done, cursor, mark, faults, base,
                        promised, excused>>
  BY ZenonT(60), IdleType DEF NewestPageDone, Shapes, SiteShape, RowShape, CursorShape,
       JobShape, Jobs, Cursors, Recs, Sets, Starts, Fields, Idle, Back, Failing, MayBegin,
       Finish, forum, cache, history

LEMMA EndRepoUpdateIs ==
  ASSUME Shapes, EndRepoUpdate
  PROVE  /\ job.mode = "update"
         /\ job.pc = "end"
         /\ Starts({})
         /\ cursor' = [NoCursor EXCEPT !.since = job.newest]
         /\ UNCHANGED <<kind, log, rec, etags, validator, done, mark, faults, base,
                        promised, excused>>
  BY IdleType DEF EndRepoUpdate, Shapes, SiteShape, RowShape, CursorShape, JobShape, Jobs,
       Cursors, Recs, Sets, Starts, Fields, Idle, Back, Failing, MayBegin, Finish, forum,
       cache, history

LEMMA BeginSpaceIs ==
  ASSUME Shapes, BeginSpace
  PROVE  /\ job = Idle
         /\ Starts({"mode", "pc", "skip"})
         /\ job'.mode = "backfill"
         /\ job'.pc = "list"
         /\ job'.skip = cursor.skip
         /\ Rebase
         /\ UNCHANGED <<kind, log, rec, etags, validator, done, cursor, mark, faults,
                        promised, excused>>
  BY IdleType DEF BeginSpace, Shapes, SiteShape, RowShape, CursorShape, JobShape, Jobs,
       Cursors, Recs, Sets, Starts, Fields, Idle, Back, Failing, MayBegin, Finish, forum,
       cache, history

LEMMA BeginSpaceUpdateIs ==
  ASSUME Shapes, BeginSpaceUpdate
  PROVE  /\ job = Idle
         /\ Starts({"mode", "pc", "newest", "version"})
         /\ job'.mode = "update"
         /\ job'.pc = "list"
         /\ job'.newest = mark
         /\ job'.version = SpaceSince
         /\ UNCHANGED <<kind, log, rec, etags, validator, done, cursor, mark, faults, base,
                        promised, excused>>
<1>1. SpaceSince \in Nat /\ mark \in Nat
  BY ArchivedType DEF SpaceSince, Shapes, RowShape
<1>2. job' = [Idle EXCEPT !.mode = "update", !.pc = "list", !.newest = mark,
                          !.version = SpaceSince]
  BY DEF BeginSpaceUpdate
<1>3. /\ Starts({"mode", "pc", "newest", "version"})
      /\ job'.mode = "update" /\ job'.pc = "list" /\ job'.newest = mark
      /\ job'.version = SpaceSince
  BY <1>1, <1>2, IdleType DEF Jobs, Starts, Fields
<1> QED
  BY <1>3 DEF BeginSpaceUpdate, MayBegin, forum, cache, history

LEMMA SliceFinite == \A v, n : IsFiniteSet(Slice(v, n))
<1> TAKE v, n
<1> DEFINE U == {u \in {t \in Created : Bump(t) > v} :
                  Cardinality({w \in {t \in Created : Bump(t) > v} : Bump(w) < Bump(u)})
                      \in n .. n + QueryPage - 1}
<1>1. IsFiniteSet(U)
  BY ForumBounds, FS_Subset DEF Created
<1>2. Slice(v, n) = {<<t, Bump(t)>> : t \in U}
  BY DEF Slice
<1> HIDE DEF U
<1> DEFINE f == [t \in U |-> <<t, Bump(t)>>]
<1>3. f \in Surjection(U, Slice(v, n))
  BY <1>2 DEF Surjection
<1> QED
  BY <1>1, <1>3, FS_Surjection

LEMMA SpacePageIs ==
  ASSUME Shapes, SpacePage
  PROVE  /\ job.pc = "list"
         /\ Sets({"pc", "todo", "after"})
         /\ job'.pc = (IF Slice(job.version, job.skip) = {} THEN "end" ELSE "item")
         /\ job'.todo = Slice(job.version, job.skip)
         /\ job'.after = Cardinality(Slice(job.version, job.skip))
         /\ UNCHANGED <<kind, log, rec, etags, validator, done, cursor, mark, faults, base,
                        promised, excused>>
<1> DEFINE page == Slice(job.version, job.skip)
           n    == Cardinality(page)
           pc   == IF page = {} THEN "end" ELSE "item"
<1>0. job \in Jobs
  BY DEF Shapes, JobShape
<1>1. page \in SUBSET (Topics \X Nat)
  <2> SUFFICES ASSUME NEW e \in page PROVE e \in Topics \X Nat
    OBVIOUS
  <2>1. PICK t \in Topics : e = <<t, Bump(t)>>
    BY DEF Slice, Created
  <2> QED
    BY <2>1, BumpType DEF Shapes
<1>2. n \in Nat /\ pc \in {"end", "item"}
  <2>1. IsFiniteSet(page)
    BY SliceFinite
  <2> QED
    BY <2>1, FS_CardinalityType
<1>3. job' = [job EXCEPT !.pc = pc, !.todo = page, !.after = n]
  BY DEF SpacePage
<1> HIDE DEF n, pc, page
<1>4. /\ Sets({"pc", "todo", "after"})
      /\ job'.pc = pc /\ job'.todo = page /\ job'.after = n
  BY <1>0, <1>1, <1>2, <1>3 DEF Jobs, Sets, Fields
<1> QED
  BY <1>4 DEF n, pc, page, SpacePage, forum, cache, history

LEMMA SpaceStopIs ==
  ASSUME Shapes, SpaceStop
  PROVE  /\ job.mode = "backfill"
         /\ Starts({})
         /\ cursor' = [NoCursor EXCEPT !.skip = job.skip]
         /\ UNCHANGED <<kind, log, rec, etags, validator, done, mark, faults, base,
                        promised, excused>>
  BY IdleType DEF SpaceStop, Shapes, SiteShape, RowShape, CursorShape, JobShape, Jobs,
       Cursors, Recs, Sets, Starts, Fields, Idle, Back, Failing, MayBegin, Finish, forum,
       cache, history, SkipSaved

LEMMA SpacePageDoneIs ==
  ASSUME Shapes, SpacePageDone
  PROVE  /\ job.pc = "item"
         /\ job.todo = {}
         /\ Sets({"skip", "pc"})
         /\ job'.skip = job.skip + job.after
         /\ job'.pc = (IF job.after < QueryPage THEN "end" ELSE "list")
         /\ cursor' = IF job.mode = "backfill"
                      THEN [NoCursor EXCEPT !.skip = job.skip + job.after] ELSE cursor
         /\ UNCHANGED <<kind, log, rec, etags, validator, done, mark, faults, base,
                        promised, excused>>
<1> DEFINE n  == job.skip + job.after
           pc == IF job.after < QueryPage THEN "end" ELSE "list"
<1>0. job \in Jobs /\ n \in Nat /\ pc \in {"end", "list"}
  BY DEF Shapes, JobShape, Jobs
<1>1. job' = [job EXCEPT !.skip = n, !.pc = pc]
  BY DEF SpacePageDone
<1> HIDE DEF n, pc
<1>2. Sets({"skip", "pc"}) /\ job'.skip = n /\ job'.pc = pc
  BY <1>0, <1>1 DEF Jobs, Sets, Fields
<1> QED
  BY <1>2 DEF n, pc, SpacePageDone, cache, history

LEMMA EndSpaceIs ==
  ASSUME Shapes, EndSpace
  PROVE  /\ job.mode = "backfill"
         /\ job.pc = "end"
         /\ Starts({})
         /\ cursor' = NoCursor
         /\ done' = TRUE
         /\ promised' = Later(promised, base)
         /\ base' = 0
         /\ UNCHANGED <<kind, log, rec, etags, validator, mark, faults, excused>>
  BY IdleType DEF EndSpace, Shapes, SiteShape, RowShape, CursorShape, JobShape, Jobs,
       Cursors, Recs, Sets, Starts, Fields, Idle, Back, Failing, MayBegin, Finish, forum,
       cache, history

LEMMA EndSpaceUpdateIs ==
  ASSUME Shapes, EndSpaceUpdate
  PROVE  /\ job.mode = "update"
         /\ job.pc = "end"
         /\ Starts({})
         /\ mark' = SpaceMark
         /\ UNCHANGED <<kind, log, rec, etags, validator, done, cursor, faults, base,
                        promised, excused>>
  BY IdleType DEF EndSpaceUpdate, Shapes, SiteShape, RowShape, CursorShape, JobShape, Jobs,
       Cursors, Recs, Sets, Starts, Fields, Idle, Back, Failing, MayBegin, Finish, forum,
       cache, history

LEMMA LoseIs ==
  ASSUME Shapes, Lose
  PROVE  /\ job # Idle
         /\ Starts({})
         /\ faults' = faults + 1
         /\ faults < MaxFaults
         /\ excused' = excused \cup CutOff \cup Unstored
         /\ UNCHANGED <<kind, log, rec, etags, validator, done, cursor, mark, base,
                        promised>>
  BY IdleType DEF Lose, Shapes, SiteShape, RowShape, CursorShape, JobShape, Jobs, Cursors,
       Recs, Sets, Starts, Fields, Idle, Back, Failing, MayBegin, Finish, forum, cache,
       history

LEMMA EnterIs ==
  ASSUME cursor \in Cursors, NEW D \in SUBSET Categories
  PROVE  /\ Enter(D) \in Jobs
         /\ \A f \in Fields \ {"mode", "pc", "category", "page"} : Enter(D)[f] = Idle[f]
         /\ Enter(D).mode = "backfill"
         /\ \/ /\ Categories = D /\ Enter(D).pc = "finish"
               /\ Enter(D).category = 0 /\ Enter(D).page = 0
            \/ /\ Enter(D).pc = "list" /\ Enter(D).category \in Categories \ D
               /\ Enter(D).page = IF Enter(D).category = cursor.category THEN cursor.page ELSE 0
<1>1. CASE Categories \ D = {}
  <2>1. Enter(D) = [Idle EXCEPT !.mode = "backfill", !.pc = "finish"]
    BY <1>1 DEF Enter
  <2> QED
    BY <1>1, <2>1, IdleType DEF Jobs, Fields
<1>2. CASE Categories \ D # {}
  <2> DEFINE c == Least(Categories \ D)
             p == IF c = cursor.category THEN cursor.page ELSE 0
  <2>1. c \in Categories \ D /\ c \in Nat
    BY <1>2, ForumBounds, LeastIs
  <2>2. p \in Nat
    BY DEF Cursors
  <2>3. Enter(D) = [Idle EXCEPT !.mode = "backfill", !.pc = "list", !.category = c, !.page = p]
    BY <1>2 DEF Enter
  <2>4. p = IF c = cursor.category THEN cursor.page ELSE 0
    OBVIOUS
  <2> HIDE DEF c, p
  <2> QED
    BY ZenonT(40), <2>1, <2>2, <2>3, <2>4, IdleType DEF Jobs, Fields
<1> QED
  BY <1>1, <1>2

LEMMA ListPageOfIs ==
  ASSUME Shapes, kind = "discourse", ListPageOf
  PROVE  /\ job.pc = "list" /\ job.mode = "backfill" /\ job.category \in Categories
         /\ \/ /\ Sets({"pc", "todo"})
               /\ job'.pc = "pick"
               /\ job'.todo = {<<t, Bump(t)>> : t \in Listing(job.category, job.page)}
               /\ cursor' = cursor
            \/ /\ Listing(job.category, job.page) = {}
               /\ cursor' = [NoCursor EXCEPT !.done = cursor.done \cup {job.category}]
               /\ job' = Enter(cursor.done \cup {job.category})
         /\ UNCHANGED <<kind, log, rec, etags, validator, done, mark, faults, base,
                        promised, excused>>
<1> DEFINE page == Listing(job.category, job.page)
           new  == {<<t, Bump(t)>> : t \in page}
<1>0. job \in Jobs /\ job.pc = "list"
  BY DEF Shapes, JobShape, ListPageOf
<1>1. job.mode = "backfill" /\ job.category \in Categories
  BY <1>0 DEF Shapes, JobShape
<1>2. UNCHANGED <<kind, log, rec, etags, validator, done, mark, faults, base, promised,
                  excused>>
  BY DEF ListPageOf, cache, history
<1>3. CASE page # {}
  <2>1. new \in SUBSET (Topics \X Nat)
    <3>1. page \subseteq Topics
      BY DEF Listing
    <3> QED
      BY <3>1, BumpType DEF Shapes
  <2>2. job' = [job EXCEPT !.pc = "pick", !.todo = new] /\ cursor' = cursor
    BY <1>3 DEF ListPageOf
  <2> HIDE DEF new
  <2>3. Sets({"pc", "todo"}) /\ job'.pc = "pick" /\ job'.todo = new
    BY <1>0, <2>1, <2>2 DEF Jobs, Sets, Fields
  <2> QED
    BY <1>0, <1>1, <1>2, <2>2, <2>3 DEF new
<1>4. CASE page = {}
  BY <1>0, <1>1, <1>2, <1>4 DEF ListPageOf, CategoryDone
<1> QED
  BY <1>3, <1>4

LEMMA ListNullIs ==
  ASSUME Shapes, kind = "discourse", ListNull
  PROVE  /\ job.pc = "list" /\ job.mode = "backfill" /\ job.category \in Categories
         /\ faults < MaxFaults /\ faults' = faults + 1
         /\ cursor' = [NoCursor EXCEPT !.done = cursor.done \cup {job.category}]
         /\ job' = Enter(cursor.done \cup {job.category})
         /\ excused' = excused \cup Unlisted(job.category, job.page)
         /\ UNCHANGED <<kind, log, rec, etags, validator, done, mark, base, promised>>
<1>1. job.pc = "list"
  BY DEF ListNull
<1>2. job.mode = "backfill" /\ job.category \in Categories
  BY <1>1 DEF Shapes, JobShape
<1> QED
  BY <1>1, <1>2 DEF ListNull, CategoryDone, cache

LEMMA PickIs ==
  ASSUME Shapes, NEW e \in job.todo, Pick(e)
  PROVE  /\ job.pc = "pick" /\ e \in Topics \X Nat
         /\ \/ /\ job.mode = "backfill" /\ Settled(e)
               /\ Sets({"todo"}) /\ job'.todo = job.todo \ {e}
            \/ /\ Sets({"todo", "pc", "topic", "listed"})
               /\ job'.todo = job.todo \ {e} /\ job'.pc = "get" /\ job'.topic = e[1]
               /\ job'.listed = e[2]
         /\ UNCHANGED <<kind, log, rec, etags, validator, done, cursor, mark, faults, base,
                        promised, excused>>
<1>0. job \in Jobs /\ e \in Topics \X Nat /\ job.pc = "pick"
  BY DEF Shapes, JobShape, Jobs, Pick
<1>1. UNCHANGED <<kind, log, rec, etags, validator, done, cursor, mark, faults, base,
                  promised, excused>>
  BY DEF Pick, forum, cache, history
<1>2. CASE job.mode = "backfill" /\ Settled(e)
  <2>1. job' = [job EXCEPT !.todo = job.todo \ {e}]
    BY <1>2 DEF Pick
  <2>2. Sets({"todo"}) /\ job'.todo = job.todo \ {e}
    BY <1>0, <2>1 DEF Jobs, Sets, Fields
  <2> QED
    BY <1>0, <1>1, <1>2, <2>2
<1>3. CASE ~(job.mode = "backfill" /\ Settled(e))
  <2>1. job' = [job EXCEPT !.todo = job.todo \ {e}, !.pc = "get", !.topic = e[1],
                           !.listed = e[2]]
    BY <1>3 DEF Pick
  <2>2. /\ Sets({"todo", "pc", "topic", "listed"})
        /\ job'.todo = job.todo \ {e} /\ job'.pc = "get" /\ job'.topic = e[1]
        /\ job'.listed = e[2]
    BY <1>0, <2>1 DEF Jobs, Sets, Fields
  <2> QED
    BY <1>0, <1>1, <2>2
<1> QED
  BY <1>2, <1>3

\* The row of job.topic gets the answer's count, and back to the list or on
\* to the tail.
LEMMA StoreIs ==
  ASSUME Shapes, Store
  PROVE  /\ job.pc = "store" /\ job.topic \in Topics
         /\ rec' \in [Topics -> Recs]
         /\ \A t \in Topics \ {job.topic} : rec'[t] = rec[t]
         /\ rec'[job.topic].count = Posts(job.topic, job.version)
         /\ rec'[job.topic].bumped = BumpedAt
         /\ rec[job.topic].have <= rec'[job.topic].have
         /\ rec'[job.topic].have <= rec'[job.topic].count
         /\ \/ Sets({"pc"}) /\ job'.pc = "tail"
            \/ /\ Sets({"pc", "topic", "listed", "version", "spared"})
               /\ job'.pc = "pick" /\ job'.topic = 0 /\ job'.listed = 0 /\ job'.version = 0
               /\ \/ /\ rec'[job.topic].count = rec'[job.topic].have
                     /\ job'.spared = job.spared
                  \/ job'.spared = IF job.mode = "repair" THEN job.spared \cup {job.topic}
                                   ELSE job.spared
         /\ excused' = excused \ {job.topic}
         /\ faults' \in 0 .. MaxFaults
         /\ UNCHANGED <<kind, log, etags, validator, done, cursor, mark, base, promised>>
<1> DEFINE t     == job.topic
           count == Posts(t, job.version)
           head  == Lesser(count, Embedded)
<1>0. /\ job \in Jobs /\ job.pc = "store" /\ t \in Topics /\ rec \in [Topics -> Recs]
      /\ job.listed \in Nat /\ job.version \in Nat /\ rec[t].have \in Nat
  BY DEF Shapes, JobShape, RowShape, Jobs, Store, Recs
<1>1. count \in Nat /\ BumpedAt \in Nat /\ Embedded \in Nat /\ head \in Int
  BY <1>0, PostsType, ForumBounds DEF BumpedAt, Lesser
<1>2. PICK have \in Rows(rec[t].have, head, count) :
          /\ Unusual(have, Later(rec[t].have, head))
          /\ rec' = [rec EXCEPT ![t] = [have |-> have, count |-> count, bumped |-> BumpedAt]]
          /\ job' = IF count > Embedded THEN [job EXCEPT !.pc = "tail"]
                    ELSE IF have < count THEN Short ELSE Back
          /\ excused' = excused \ {t}
  BY DEF Store
<1> HIDE DEF head, count
<1>3. have \in Nat /\ rec[t].have <= have /\ have <= count
  BY <1>0, <1>1, RowsAre
<1>4. UNCHANGED <<kind, log, etags, validator, done, cursor, mark, base, promised>>
  BY DEF Store, cache, forum
<1>5. /\ rec' \in [Topics -> Recs] /\ \A u \in Topics \ {t} : rec'[u] = rec[u]
      /\ rec'[t].count = count /\ rec'[t].bumped = BumpedAt /\ rec'[t].have = have
  BY <1>0, <1>1, <1>2, <1>3 DEF Recs
<1>6. \/ Sets({"pc"}) /\ job'.pc = "tail"
      \/ /\ Sets({"pc", "topic", "listed", "version", "spared"})
         /\ job'.pc = "pick" /\ job'.topic = 0 /\ job'.listed = 0 /\ job'.version = 0
         /\ \/ count = have /\ job'.spared = job.spared
            \/ job'.spared = IF job.mode = "repair" THEN job.spared \cup {t} ELSE job.spared
  <2>1. CASE count > Embedded
    BY <1>0, <1>2, <2>1 DEF Jobs, Sets, Fields
  <2>2. CASE ~(count > Embedded) /\ have < count
    <3>1. job' = Short
      BY <1>2, <2>2
    <3> QED
      BY <1>0, <3>1, ShortIs
  <2>3. CASE ~(count > Embedded) /\ ~(have < count)
    <3>1. count = have
      BY <1>1, <1>3, <2>3
    <3>2. job' = Back
      BY <1>2, <2>3
    <3>3. /\ Sets({"pc", "topic", "listed", "version", "spared"})
          /\ job'.pc = "pick" /\ job'.topic = 0 /\ job'.listed = 0 /\ job'.version = 0
          /\ job'.spared = job.spared
      BY <1>0, <3>2 DEF Back, Jobs, Sets, Fields
    <3> QED
      BY <3>1, <3>3
  <2> QED
    BY <2>1, <2>2, <2>3
<1>7. faults' \in 0 .. MaxFaults
  BY <1>2, UnusualIs DEF Shapes
<1> QED
  BY <1>0, <1>2, <1>3, <1>4, <1>5, <1>6, <1>7 DEF count

LEMMA ChunkFailsIs ==
  ASSUME Shapes, ChunkFails
  PROVE  /\ job.pc = "tail" /\ faults < MaxFaults /\ faults' = faults + 1
         /\ Sets({"pc", "topic", "listed", "version", "failed"})
         /\ job'.pc = "pick" /\ job'.topic = 0 /\ job'.listed = 0 /\ job'.version = 0
         /\ job'.failed = (job.failed \/ job.mode = "repair")
         /\ UNCHANGED <<kind, log, rec, etags, validator, done, cursor, mark, base,
                        promised,
                        excused>>
<1>1. CASE job.mode = "repair"
  BY <1>1 DEF ChunkFails, Shapes, JobShape, Jobs, Sets, Fields, Back, Failing, forum,
       cache, history
<1>2. CASE job.mode # "repair"
  BY <1>2 DEF ChunkFails, Shapes, JobShape, Jobs, Sets, Fields, Back, Failing, forum,
       cache, history
<1> QED
  BY <1>1, <1>2

\* The first page of /latest.json: topics in FirstPage take a place of their own
FirstPage == {t \in Topics : /\ Exists(t)
                             /\ Cardinality({u \in Topics : Bump(u) > Bump(t)}) < ListPage}
Moved == {t \in FirstPage : Incomplete(t) \/ Bump(t) > rec[t].bumped}

LEMMA LatestIs ==
  ASSUME Shapes, Latest
  PROVE  /\ job.pc = "latest" /\ Moved \subseteq Topics
         /\ Sets({"pc", "todo"}) /\ job'.pc = "pick"
         /\ job'.todo = {e \in job.todo : e[1] \notin Moved} \cup {<<t, Bump(t)>> : t \in Moved}
         /\ UNCHANGED <<kind, log, rec, etags, validator, done, cursor, mark, faults, base,
                        promised, excused>>
<1> DEFINE new == {e \in job.todo : e[1] \notin Moved} \cup {<<t, Bump(t)>> : t \in Moved}
<1>0. job \in Jobs /\ job.pc = "latest" /\ job.todo \in SUBSET (Topics \X Nat)
  BY DEF Shapes, JobShape, Jobs, Latest
<1>1. Moved \subseteq Topics
  BY DEF Moved, FirstPage
<1>2. new \in SUBSET (Topics \X Nat)
  BY <1>0, <1>1, BumpType DEF Shapes
<1>3. job' = [job EXCEPT !.pc = "pick", !.todo = new]
  BY DEF Latest, Moved, FirstPage
<1>4. UNCHANGED <<kind, log, rec, etags, validator, done, cursor, mark, faults, base,
                  promised, excused>>
  BY DEF Latest, forum, cache, history
<1> HIDE DEF new
<1>5. Sets({"pc", "todo"}) /\ job'.pc = "pick" /\ job'.todo = new
  BY <1>0, <1>2, <1>3 DEF Jobs, Sets, Fields
<1> QED
  BY <1>0, <1>1, <1>4, <1>5 DEF new

LEMMA ListedType ==
  ASSUME SiteShape, NEW S \in SUBSET Topics
  PROVE  /\ Listed(S) \in SUBSET (Topics \X Nat)
         /\ \A e \in Listed(S) : e[1] \in S /\ e[2] = Bump(e[1]) /\ e[2] <= Len(log)
         /\ \A t \in S : <<t, Bump(t)>> \in Listed(S)
<1>1. \A t \in S : t \in Topics /\ Bump(t) \in Nat /\ Bump(t) <= Len(log)
  BY BumpType
<1> QED
  BY <1>1 DEF Listed

LEMMA RepoPageIs ==
  ASSUME Shapes, RepoPage
  PROVE  /\ job.mode = "backfill" /\ job.pc = "list"
         /\ \/ Above(job.after) = {} /\ Sets({"pc"}) /\ job'.pc = "end"
            \/ /\ Sets({"pc", "todo", "after", "more"})
               /\ job'.pc = "item" /\ job'.todo = Listed(Above(job.after))
               /\ job'.after <= Len(log)
               /\ \A e \in job'.todo : e[2] <= job'.after
               /\ \E e \in job'.todo : e[2] = job'.after
         /\ UNCHANGED <<kind, log, rec, etags, validator, done, cursor, mark, faults, base,
                        promised, excused>>
<1> DEFINE page == Above(job.after)
           end  == Newest(Ends(Listed(page)))
           on   == Above(end) # {}
           new  == Listed(page)
<1>0. job \in Jobs /\ job.mode = "backfill" /\ job.pc = "list" /\ Len(log) \in Nat
  BY LogType DEF Shapes, JobShape, RepoPage
<1>1. UNCHANGED <<kind, log, rec, etags, validator, done, cursor, mark, faults, base,
                  promised, excused>>
  BY DEF RepoPage, forum, cache, history
<1>2. CASE page = {}
  <2>1. job' = [job EXCEPT !.pc = "end"]
    BY <1>2 DEF RepoPage
  <2> QED
    BY <1>0, <1>1, <1>2, <2>1 DEF Jobs, Sets, Fields
<1>3. CASE page # {}
  <2>1. page \subseteq Topics
    BY DEF Above
  <2>2. new \in SUBSET (Topics \X Nat) /\ \A e \in new : e[2] \in Nat /\ e[2] <= Len(log)
    BY <2>1, ListedType DEF Shapes
  <2>3. new # {}
    BY <2>1, <1>3, ListedType DEF Shapes
  <2>4. Ends(new) \in SUBSET Nat /\ \A n \in Ends(new) : n <= Len(log)
    BY <2>2 DEF Ends
  <2>5. /\ end \in Ends(new) \cup {0} /\ end \in Nat /\ end <= Len(log)
        /\ \A n \in Ends(new) : n <= end
    BY <1>0, <2>4, NewestIs
  <2>6. \A e \in new : e[2] \in Ends(new) /\ e[2] > 0
    <3>1. \A e \in new : e[1] \in page /\ e[2] = Bump(e[1])
      BY <2>1, ListedType DEF Shapes
    <3>2. \A t \in page : Bump(t) > job.after /\ Bump(t) \in Nat /\ job.after \in Nat
      BY <1>0, BumpType DEF Above, Shapes, Jobs
    <3>3. \A e \in new : e[2] > 0
      BY <3>1, <3>2
    <3> QED
      BY <3>3 DEF Ends
  <2>7. (\A e \in new : e[2] <= end) /\ \E e \in new : e[2] = end
    <3>1. PICK e \in new : TRUE
      BY <2>3
    <3>2. end # 0
      BY <3>1, <2>2, <2>5, <2>6
    <3>3. end \in Ends(new)
      BY <3>2, <2>5
    <3> QED
      BY <3>3, <2>5, <2>6 DEF Ends
  <2>8. job' = [job EXCEPT !.pc = "item", !.todo = new, !.after = end, !.more = on]
    BY <1>3 DEF RepoPage
  <2>9. on \in BOOLEAN
    OBVIOUS
  <2> HIDE DEF new, end, on
  <2>10. /\ Sets({"pc", "todo", "after", "more"})
         /\ job'.pc = "item" /\ job'.todo = new /\ job'.after = end
    BY <1>0, <2>2, <2>5, <2>8, <2>9 DEF Jobs, Sets, Fields
  <2> QED
    BY <1>0, <1>1, <2>5, <2>7, <2>10 DEF new
<1> QED
  BY <1>2, <1>3

LEMMA UpsertIs ==
  ASSUME Shapes, NEW t \in Topics, NEW v \in Nat, Upsert(t, v)
  PROVE  /\ rec' \in [Topics -> Recs] /\ \A u \in Topics \ {t} : rec'[u] = rec[u]
         /\ rec'[t].have = Posts(t, v) /\ rec'[t].count = Posts(t, v) /\ rec'[t].bumped = v
         /\ excused' = excused \ {t}
  BY PostsType DEF Upsert, Shapes, RowShape, Recs

LEMMA RepoItemIs ==
  ASSUME Shapes, RepoItem
  PROVE  \E e \in job.todo :
           /\ e \in Topics \X Nat /\ job.mode = "backfill" /\ job.pc = "item"
           /\ \A f \in job.todo : e[2] <= f[2]
           /\ Upsert(e[1], e[2])
           /\ Sets({"todo"}) /\ job'.todo = job.todo \ {e}
           /\ UNCHANGED <<kind, log, etags, validator, done, cursor, mark, faults, base,
                          promised>>
<1>0. job \in Jobs /\ \A e \in job.todo : e \in Topics \X Nat
  BY DEF Shapes, JobShape, Jobs
<1>1. PICK e \in job.todo : /\ \A f \in job.todo : e[2] <= f[2]
                            /\ Upsert(e[1], e[2])
                            /\ job' = [job EXCEPT !.todo = job.todo \ {e}]
  BY DEF RepoItem
<1>2. Sets({"todo"}) /\ job'.todo = job.todo \ {e}
  BY <1>0, <1>1 DEF Jobs, Sets, Fields
<1>3. /\ job.mode = "backfill" /\ job.pc = "item"
      /\ UNCHANGED <<kind, log, etags, validator, done, cursor, mark, faults, base,
                     promised>>
  BY DEF RepoItem, cache, forum
<1> QED
  BY <1>0, <1>1, <1>2, <1>3

LEMMA NewestItemIs ==
  ASSUME Shapes, NewestItem
  PROVE  \E e \in job.todo :
           /\ e \in Topics \X Nat /\ job.mode = "update" /\ job.pc = "item"
           /\ \A f \in job.todo : f[2] <= e[2]
           /\ \/ /\ e[2] <= job.version
                 /\ Sets({"pc", "todo"}) /\ job'.pc = "end" /\ job'.todo = {}
                 /\ rec' = rec /\ excused' = excused
              \/ /\ e[2] > job.version
                 /\ Upsert(e[1], e[2])
                 /\ Sets({"todo", "newest", "after"})
                 /\ job'.todo = job.todo \ {e} /\ job'.after = e[2]
                 /\ job'.newest = Later(job.newest, e[2])
           /\ UNCHANGED <<kind, log, etags, validator, done, cursor, mark, faults, base,
                          promised>>
<1>0. job \in Jobs /\ \A e \in job.todo : e \in Topics \X Nat
  BY DEF Shapes, JobShape, Jobs
<1>1. PICK e \in job.todo :
          /\ \A f \in job.todo : e[2] >= f[2]
          /\ IF e[2] <= job.version
             THEN job' = [job EXCEPT !.pc = "end", !.todo = {}] /\ UNCHANGED <<rec,
                                                                               excused>>
             ELSE /\ Upsert(e[1], e[2])
                  /\ job' = [job EXCEPT !.todo = job.todo \ {e}, !.newest = NewestSeen(e[2]),
                                        !.after = e[2]]
  BY DEF NewestItem
<1>2. /\ job.mode = "update" /\ job.pc = "item"
      /\ UNCHANGED <<kind, log, etags, validator, done, cursor, mark, faults, base,
                     promised>>
  BY DEF NewestItem, cache, forum
<1>3. e \in Topics \X Nat /\ \A f \in job.todo : f[2] <= e[2]
  BY <1>0, <1>1
<1>4. CASE e[2] <= job.version
  <2>1. job' = [job EXCEPT !.pc = "end", !.todo = {}] /\ rec' = rec /\ excused' = excused
    BY <1>1, <1>4
  <2>2. Sets({"pc", "todo"}) /\ job'.pc = "end" /\ job'.todo = {}
    BY <1>0, <2>1 DEF Jobs, Sets, Fields
  <2> QED
    BY <1>2, <1>3, <1>4, <2>1, <2>2
<1>5. CASE ~(e[2] <= job.version)
  <2> DEFINE n == Later(job.newest, e[2])
  <2>0. job.newest \in Nat /\ e[2] \in Nat /\ job.version \in Nat
    BY <1>0, <1>3 DEF Jobs
  <2>1. n \in Nat
    BY <2>0, LaterIs
  <2>2. /\ Upsert(e[1], e[2])
        /\ job' = [job EXCEPT !.todo = job.todo \ {e}, !.newest = n, !.after = e[2]]
    BY <1>1, <1>5 DEF NewestSeen
  <2> HIDE DEF n
  <2>3. /\ Sets({"todo", "newest", "after"})
        /\ job'.todo = job.todo \ {e} /\ job'.after = e[2] /\ job'.newest = n
    BY <1>0, <2>0, <2>1, <2>2 DEF Jobs, Sets, Fields
  <2>4. e[2] > job.version
    BY <2>0, <1>5
  <2> QED
    BY <1>2, <1>3, <2>2, <2>3, <2>4 DEF n
<1> QED
  BY <1>4, <1>5

LEMMA SpaceItemIs ==
  ASSUME Shapes, SpaceItem
  PROVE  \E e \in job.todo :
           /\ e \in Topics \X Nat /\ job.pc = "item"
           /\ \A f \in job.todo : e[2] <= f[2]
           /\ Upsert(e[1], e[2])
           /\ Sets({"todo", "newest"}) /\ job'.todo = job.todo \ {e}
           /\ job'.newest = IF job.mode = "update" THEN Later(job.newest, e[2]) ELSE job.newest
           /\ UNCHANGED <<kind, log, etags, validator, done, cursor, mark, faults, base,
                          promised>>
<1>0. job \in Jobs /\ \A e \in job.todo : e \in Topics \X Nat
  BY DEF Shapes, JobShape, Jobs
<1>1. PICK e \in job.todo :
         /\ \A f \in job.todo : e[2] <= f[2]
         /\ Upsert(e[1], e[2])
         /\ job' = [job EXCEPT !.todo = job.todo \ {e},
              !.newest = IF job.mode = "update" THEN Later(job.newest, e[2]) ELSE job.newest]
  BY DEF SpaceItem
<1> DEFINE n == IF job.mode = "update" THEN Later(job.newest, e[2]) ELSE job.newest
<1>2. n \in Nat
  <2>1. job.newest \in Nat /\ e[2] \in Nat
    BY <1>0 DEF Jobs
  <2> QED
    BY <2>1, LaterIs
<1>3. job' = [job EXCEPT !.todo = job.todo \ {e}, !.newest = n]
  BY <1>1
<1> HIDE DEF n
<1>4. Sets({"todo", "newest"}) /\ job'.todo = job.todo \ {e} /\ job'.newest = n
  BY <1>0, <1>2, <1>3 DEF Jobs, Sets, Fields
<1>5. /\ job.pc = "item"
      /\ UNCHANGED <<kind, log, etags, validator, done, cursor, mark, faults, base,
                     promised>>
  BY DEF SpaceItem, cache, forum
<1> QED
  BY <1>0, <1>1, <1>4, <1>5 DEF n

\* A post, in terms of where the newest posts of the topics are.
LEMMA SitePostIs ==
  ASSUME Shapes, NEW x \in Topics, SitePost(x)
  PROVE  /\ Len(log) < MaxLog /\ Len(log') = Len(log) + 1 /\ Len(log) \in Nat
         /\ log' \in Seq(Topics) /\ log' = Append(log, x)
         /\ kind = "snapshot" => Top(log, x) = 0
         /\ excused' = IF Walking THEN excused \cup {x} ELSE excused
         /\ UNCHANGED <<kind, rec, etags, validator, done, cursor, mark, job, faults, base,
                        promised>>
         /\ \A k \in 1 .. Len(log) : log'[k] = log[k]
         /\ Top(log', x) = Len(log) + 1
         /\ \A t : t # x => Top(log', t) = Top(log, t)
<1>1. log \in Seq(Topics)
  BY DEF Shapes, SiteShape
<1>2. /\ log' = Append(log, x) /\ Len(log) < MaxLog
      /\ kind = "snapshot" => Top(log, x) = 0
      /\ excused' = IF Walking THEN excused \cup {x} ELSE excused
      /\ UNCHANGED <<kind, rec, etags, validator, done, cursor, mark, job, faults, base,
                     promised>>
  BY BumpIs DEF SitePost, Exists, cache, forum
<1>3. /\ Len(log') = Len(log) + 1 /\ Len(log) \in Nat /\ log' \in Seq(Topics)
      /\ \A k \in 1 .. Len(log) : log'[k] = log[k]
  BY <1>1, <1>2, AppendType
<1>4. Top(log', x) = Len(log) + 1 /\ \A t : t # x => Top(log', t) = Top(log, t)
  BY <1>1, <1>2, AppendTop
<1> QED
  BY <1>2, <1>3, <1>4

-----------------------------------------------------------------------------
\* The cursors that are saved
LEMMA CursorsAre ==
  ASSUME cursor \in Cursors
  PROVE  /\ \A c, p \in Nat :
              /\ CursorAt(c, p) \in Cursors /\ CursorAt(c, p).done = cursor.done
              /\ CursorAt(c, p).category = c /\ CursorAt(c, p).page = p
              /\ CursorAt(c, p).after = 0 /\ CursorAt(c, p).since = 0 /\ CursorAt(c, p).skip = 0
         /\ \A D \in SUBSET Categories :
              /\ [NoCursor EXCEPT !.done = D] \in Cursors
              /\ [NoCursor EXCEPT !.done = D].done = D
              /\ [NoCursor EXCEPT !.done = D].category = 0
              /\ [NoCursor EXCEPT !.done = D].since = 0
         /\ \A n \in Nat :
              /\ [NoCursor EXCEPT !.after = n] \in Cursors
              /\ [NoCursor EXCEPT !.after = n].after = n
              /\ [NoCursor EXCEPT !.after = n].since = 0
              /\ [NoCursor EXCEPT !.since = n] \in Cursors
              /\ [NoCursor EXCEPT !.since = n].since = n
              /\ [NoCursor EXCEPT !.since = n].after = 0
              /\ [NoCursor EXCEPT !.skip = n] \in Cursors
              /\ [NoCursor EXCEPT !.skip = n].skip = n
              /\ [NoCursor EXCEPT !.skip = n].since = 0
<1>1. ASSUME NEW c \in Nat, NEW p \in Nat
      PROVE  /\ CursorAt(c, p) \in Cursors /\ CursorAt(c, p).done = cursor.done
             /\ CursorAt(c, p).category = c /\ CursorAt(c, p).page = p
             /\ CursorAt(c, p).after = 0 /\ CursorAt(c, p).since = 0 /\ CursorAt(c, p).skip = 0
  BY DEF CursorAt, Cursors, NoCursor
<1>2. ASSUME NEW D \in SUBSET Categories
      PROVE  /\ [NoCursor EXCEPT !.done = D] \in Cursors
             /\ [NoCursor EXCEPT !.done = D].done = D
             /\ [NoCursor EXCEPT !.done = D].category = 0
             /\ [NoCursor EXCEPT !.done = D].since = 0
  BY DEF Cursors, NoCursor
<1>3. ASSUME NEW n \in Nat
      PROVE  /\ [NoCursor EXCEPT !.after = n] \in Cursors
             /\ [NoCursor EXCEPT !.after = n].after = n
             /\ [NoCursor EXCEPT !.after = n].since = 0
             /\ [NoCursor EXCEPT !.since = n] \in Cursors
             /\ [NoCursor EXCEPT !.since = n].since = n
             /\ [NoCursor EXCEPT !.since = n].after = 0
             /\ [NoCursor EXCEPT !.skip = n] \in Cursors
             /\ [NoCursor EXCEPT !.skip = n].skip = n
             /\ [NoCursor EXCEPT !.skip = n].since = 0
  BY DEF Cursors, NoCursor
<1> QED
  BY <1>1, <1>2, <1>3

LEMMA CategoryType == Categories \subseteq Nat \ {0}
  BY ForumBounds

LEMMA InitShapes == Init => Shapes
<1> SUFFICES ASSUME Init PROVE Shapes
  OBVIOUS
<1>1. SiteShape
  BY ForumBounds DEF Init, SiteShape
<1>2. Len(log) = 0
  BY DEF Init
<1>3. RowShape
  <2>1. rec \in [Topics -> Recs]
    BY DEF Init, NoTopic, Recs
  <2>2. \A t \in Topics : rec[t].bumped = 0
    BY DEF Init, NoTopic
  <2>3. etags \in BOOLEAN /\ done \in BOOLEAN
    BY DEF Init
  <2> QED
    BY <1>2, <2>1, <2>2, <2>3 DEF Init, RowShape
<1>4. CursorShape
  BY <1>2, IdleType DEF Init, CursorShape
<1>5. JobShape
  BY <1>2, IdleType DEF Init, JobShape
<1> QED
  BY <1>1, <1>3, <1>4, <1>5 DEF Shapes

LEMMA DiscourseShapes == Shapes /\ kind = "discourse" /\ DiscourseNext => Shapes'
<1> SUFFICES ASSUME Shapes, kind = "discourse", DiscourseNext PROVE Shapes'
  OBVIOUS
<1>0. /\ SiteShape /\ RowShape /\ CursorShape /\ JobShape
      /\ Len(log) \in Nat /\ (\A i \in 1 .. Len(log) : log[i] \in Topics)
      /\ \A t : Bump(t) \in Nat /\ Bump(t) <= Len(log)
  BY LogType, BumpType DEF Shapes
<1>1. CASE \E e \in job.todo : Pick(e)
  <2>1. SiteShape'
    BY <1>0, <1>1, PickIs DEF SiteShape
  <2>2. RowShape'
    BY <1>0, <1>1, PickIs DEF RowShape
  <2>3. CursorShape'
    BY SMTT(30), <1>0, <1>1, PickIs DEF CursorShape, Cursors, NoCursor
  <2>4. JobShape'
    BY SMTT(30), <1>0, <1>1, PickIs DEF JobShape, Jobs, Cursors, Idle, Sets, Starts, Fields
  <2> QED
    BY <2>1, <2>2, <2>3, <2>4 DEF Shapes
<1>2. CASE BeginBackfill
  <2>1. SiteShape'
    BY <1>0, <1>2, BeginBackfillIs DEF SiteShape
  <2>2. RowShape'
    BY <1>0, <1>2, BeginBackfillIs DEF RowShape, Rebase
  <2>3. CursorShape'
    BY SMTT(30), <1>0, <1>2, BeginBackfillIs DEF CursorShape, Cursors, NoCursor
  <2>4. JobShape'
    <3>1. cursor \in Cursors /\ cursor.done \in SUBSET Categories
      BY <1>0 DEF CursorShape, Cursors
    <3>2. job' = Enter(cursor.done) /\ UNCHANGED <<kind, log>>
      BY <1>2, BeginBackfillIs
    <3>3. /\ job' \in Jobs /\ job'.mode = "backfill" /\ job'.pc \in {"list", "finish"}
          /\ job'.pc = "list" => job'.category \in Categories
          /\ job'.todo = {} /\ job'.listed = 0 /\ job'.version = 0 /\ job'.newest = 0
      BY <3>1, <3>2, EnterIs, IdleType DEF Fields
    <3> QED
      BY <1>0, <3>2, <3>3 DEF JobShape
  <2> QED
    BY <2>1, <2>2, <2>3, <2>4 DEF Shapes
<1>3. CASE ListPageOf
  <2>1. SiteShape'
    BY <1>0, <1>3, ListPageOfIs DEF SiteShape
  <2>2. RowShape'
    BY <1>0, <1>3, ListPageOfIs DEF RowShape
  <2>3. CursorShape'
    BY SMTT(30), <1>0, <1>3, ListPageOfIs DEF CursorShape, Cursors, NoCursor
  <2>4. JobShape'
    <3>1. cursor \in Cursors /\ cursor.done \in SUBSET Categories
      BY <1>0 DEF CursorShape, Cursors
    <3>2. job.category \in Categories /\ UNCHANGED <<kind, log>>
      BY <1>3, ListPageOfIs
    <3> DEFINE D == cursor.done \cup {job.category}
    <3>3. CASE job' = Enter(D)
      <4>1. D \in SUBSET Categories
        BY <3>1, <3>2
      <4> HIDE DEF D
      <4>2. /\ job' \in Jobs /\ job'.mode = "backfill" /\ job'.pc \in {"list", "finish"}
            /\ job'.pc = "list" => job'.category \in Categories
            /\ job'.todo = {} /\ job'.listed = 0 /\ job'.version = 0 /\ job'.newest = 0
        BY <3>1, <3>3, <4>1, EnterIs, IdleType DEF Fields
      <4> QED
        BY <1>0, <3>2, <4>2 DEF JobShape
    <3>4. CASE /\ Sets({"pc", "todo"}) /\ job'.pc = "pick"
               /\ job'.todo = {<<t, Bump(t)>> : t \in Listing(job.category, job.page)}
      <4>1. /\ job' \in Jobs /\ job'.pc = "pick" /\ job'.category = job.category
            /\ job'.listed = job.listed /\ job'.version = job.version
            /\ job'.newest = job.newest
        BY <3>4 DEF Sets, Fields
      <4>2. \A e \in job'.todo : e[2] <= Len(log)
        BY <1>0, <3>4
      <4> QED
        BY <1>0, <3>2, <4>1, <4>2 DEF JobShape
    <3> QED
      BY <1>3, <3>3, <3>4, ListPageOfIs
  <2> QED
    BY <2>1, <2>2, <2>3, <2>4 DEF Shapes
<1>4. CASE PageDone
  <2>1. SiteShape'
    BY <1>0, <1>4, PageDoneIs DEF SiteShape
  <2>2. RowShape'
    BY <1>0, <1>4, PageDoneIs DEF RowShape
  <2>3. CursorShape'
    <3>1. job.page + 1 \in Nat /\ job.page \in Nat /\ job.category \in Nat
      BY <1>0 DEF JobShape, Jobs
    <3>2. /\ log' = log
          /\ cursor' = CursorAt(job.category, job.page + 1)
      BY <1>4, PageDoneIs
    <3> QED
      BY <1>0, <3>1, <3>2, CursorsAre DEF CursorShape
  <2>4. JobShape'
    BY SMTT(30), <1>0, <1>4, PageDoneIs DEF JobShape, Jobs, Cursors, Idle, Sets, Starts, Fields
  <2> QED
    BY <2>1, <2>2, <2>3, <2>4 DEF Shapes
<1>5. CASE StopBackfill
  <2>1. SiteShape'
    BY <1>0, <1>5, StopBackfillIs DEF SiteShape
  <2>2. RowShape'
    BY <1>0, <1>5, StopBackfillIs DEF RowShape
  <2>3. CursorShape'
    <3>1. job.page + 1 \in Nat /\ job.page \in Nat /\ job.category \in Nat
      BY <1>0 DEF JobShape, Jobs
    <3>2. /\ log' = log
          /\ cursor' = CursorAt(job.category, job.page)
      BY <1>5, StopBackfillIs
    <3> QED
      BY <1>0, <3>1, <3>2, CursorsAre DEF CursorShape
  <2>4. JobShape'
    BY SMTT(30), <1>0, <1>5, StopBackfillIs DEF JobShape, Jobs, Cursors, Idle, Sets, Starts, Fields
  <2> QED
    BY <2>1, <2>2, <2>3, <2>4 DEF Shapes
<1>6. CASE EndBackfill
  <2>1. SiteShape'
    BY <1>0, <1>6, EndBackfillIs DEF SiteShape
  <2>2. RowShape'
    <3>1. /\ UNCHANGED <<log, rec, validator, etags, mark>> /\ base' = 0 /\ done' = TRUE
          /\ promised' = Later(promised, base)
      BY <1>6, EndBackfillIs
    <3>2. promised' \in {promised, base} /\ promised' \in Nat
      BY <1>0, <3>1, LaterIs DEF RowShape
    <3> QED
      BY <1>0, <3>1, <3>2 DEF RowShape
  <2>3. CursorShape'
    BY SMTT(30), <1>0, <1>6, EndBackfillIs DEF CursorShape, Cursors, NoCursor
  <2>4. JobShape'
    BY SMTT(30), <1>0, <1>6, EndBackfillIs DEF JobShape, Jobs, Cursors, Idle, Sets, Starts, Fields
  <2> QED
    BY <2>1, <2>2, <2>3, <2>4 DEF Shapes
<1>7. CASE Unchanged
  <2>1. SiteShape'
    BY <1>0, <1>7, UnchangedIs DEF SiteShape
  <2>2. RowShape'
    BY <1>0, <1>7, UnchangedIs DEF RowShape
  <2>3. CursorShape'
    BY SMTT(30), <1>0, <1>7, UnchangedIs DEF CursorShape, Cursors, NoCursor
  <2>4. JobShape'
    BY SMTT(30), <1>0, <1>7, UnchangedIs DEF JobShape, Jobs, Cursors, Idle, Sets, Starts, Fields
  <2> QED
    BY <2>1, <2>2, <2>3, <2>4 DEF Shapes
<1>8. CASE Get
  <2>1. SiteShape'
    BY <1>0, <1>8, GetIs DEF SiteShape
  <2>2. RowShape'
    <3> DEFINE new == IF etags THEN Bump(job.topic) ELSE validator[job.topic]
    <3>1. /\ UNCHANGED <<log, rec, etags, done, mark, base, promised>>
          /\ validator' = [validator EXCEPT ![job.topic] = new] /\ job.pc = "get"
      BY <1>8, GetIs
    <3>2. job.topic \in Topics
      BY <1>0, <3>1 DEF JobShape
    <3>3. new \in Nat /\ new <= Len(log)
      BY <1>0, <3>2 DEF RowShape
    <3> HIDE DEF new
    <3> QED
      BY <1>0, <3>1, <3>2, <3>3 DEF RowShape
  <2>3. CursorShape'
    BY SMTT(30), <1>0, <1>8, GetIs DEF CursorShape, Cursors, NoCursor
  <2>4. JobShape'
    BY SMTT(30), <1>0, <1>8, GetIs DEF JobShape, Jobs, Cursors, Idle, Sets, Starts, Fields
  <2> QED
    BY <2>1, <2>2, <2>3, <2>4 DEF Shapes
<1>9. CASE GetFails
  <2>1. SiteShape'
    <3>1. /\ UNCHANGED <<kind, log>> /\ faults' = faults + 1 /\ faults < MaxFaults
          /\ excused' \subseteq excused \cup {job.topic} /\ job.pc = "get"
      BY <1>9, GetFailsIs
    <3>2. job.topic \in Topics
      BY <1>0, <3>1 DEF JobShape
    <3> QED
      BY <1>0, <3>1, <3>2, ForumBounds DEF SiteShape
  <2>2. RowShape'
    BY <1>0, <1>9, GetFailsIs DEF RowShape
  <2>3. CursorShape'
    BY SMTT(30), <1>0, <1>9, GetFailsIs DEF CursorShape, Cursors, NoCursor
  <2>4. JobShape'
    BY SMTT(30), <1>0, <1>9, GetFailsIs DEF JobShape, Jobs, Cursors, Idle, Sets, Starts, Fields
  <2> QED
    BY <2>1, <2>2, <2>3, <2>4 DEF Shapes
<1>10. CASE Store
  <2>1. SiteShape'
    BY <1>0, <1>10, StoreIs DEF SiteShape
  <2>2. RowShape'
    <3>1. /\ UNCHANGED <<log, etags, validator, done, mark, base, promised>>
          /\ job.topic \in Topics /\ rec' \in [Topics -> Recs]
          /\ \A t \in Topics \ {job.topic} : rec'[t] = rec[t]
          /\ rec'[job.topic].bumped = BumpedAt
      BY <1>10, StoreIs
    <3>2. BumpedAt <= Len(log)
      BY <1>0 DEF BumpedAt, JobShape
    <3>3. \A t \in Topics : rec'[t].bumped <= Len(log)
      BY <1>0, <3>1, <3>2 DEF RowShape
    <3> QED
      BY <1>0, <3>1, <3>3 DEF RowShape
  <2>3. CursorShape'
    BY SMTT(30), <1>0, <1>10, StoreIs DEF CursorShape, Cursors, NoCursor
  <2>4. JobShape'
    BY SMTT(30), <1>0, <1>10, StoreIs DEF JobShape, Jobs, Cursors, Idle, Sets, Starts, Fields
  <2> QED
    BY <2>1, <2>2, <2>3, <2>4 DEF Shapes
<1>11. CASE Chunks
  <2>1. SiteShape'
    BY <1>0, <1>11, ChunksIs DEF SiteShape
  <2>2. RowShape'
    <3>1. /\ UNCHANGED <<log, etags, validator, done, mark, base, promised>>
          /\ job.topic \in Topics
          /\ \E have \in Nat : rec' = [rec EXCEPT ![job.topic].have = have]
      BY <1>11, ChunksIs
    <3>2. rec \in [Topics -> Recs]
      BY <1>0 DEF RowShape
    <3>3. rec' \in [Topics -> Recs] /\ \A t \in Topics : rec'[t].bumped = rec[t].bumped
      BY <3>1, <3>2 DEF Recs
    <3> QED
      BY <1>0, <3>1, <3>3 DEF RowShape
  <2>3. CursorShape'
    BY SMTT(30), <1>0, <1>11, ChunksIs DEF CursorShape, Cursors, NoCursor
  <2>4. JobShape'
    <3>1. /\ UNCHANGED <<kind, log>> /\ job'.pc = "pick" /\ job.pc = "tail"
          /\ Sets({"pc", "topic", "listed", "version", "spared"})
          /\ job'.listed = 0 /\ job'.version = 0
      BY <1>11, ChunksIs
    <3>2. /\ job' \in Jobs /\ job'.mode = job.mode /\ job'.category = job.category
          /\ job'.todo = job.todo /\ job'.newest = job.newest
      BY <3>1 DEF Sets, Fields
    <3> QED
      BY <1>0, <3>1, <3>2 DEF JobShape
  <2> QED
    BY <2>1, <2>2, <2>3, <2>4 DEF Shapes
<1>12. CASE ChunkFails
  <2>1. SiteShape'
    <3>1. /\ UNCHANGED <<kind, log, excused>> /\ faults' = faults + 1 /\ faults < MaxFaults
      BY <1>12, ChunkFailsIs
    <3> QED
      BY <1>0, <3>1, ForumBounds DEF SiteShape
  <2>2. RowShape'
    BY <1>0, <1>12, ChunkFailsIs DEF RowShape
  <2>3. CursorShape'
    BY SMTT(30), <1>0, <1>12, ChunkFailsIs DEF CursorShape, Cursors, NoCursor
  <2>4. JobShape'
    BY SMTT(30), <1>0, <1>12, ChunkFailsIs DEF JobShape, Jobs, Cursors, Idle, Sets, Starts, Fields
  <2> QED
    BY <2>1, <2>2, <2>3, <2>4 DEF Shapes
<1>13. CASE BeginUpdate
  <2>1. SiteShape'
    BY <1>0, <1>13, BeginUpdateIs DEF SiteShape
  <2>2. RowShape'
    BY <1>0, <1>13, BeginUpdateIs DEF RowShape
  <2>3. CursorShape'
    BY SMTT(30), <1>0, <1>13, BeginUpdateIs DEF CursorShape, Cursors, NoCursor
  <2>4. JobShape'
    BY SMTT(30), <1>0, <1>13, BeginUpdateIs DEF JobShape, Jobs, Cursors, Idle, Sets, Starts, Fields
  <2> QED
    BY <2>1, <2>2, <2>3, <2>4 DEF Shapes
<1>14. CASE NewPosts
  <2>1. SiteShape'
    <3> DEFINE gone == {n \in mark + 1 .. Len(log) - Window :
                          rec[log[n]].count < Posts(log[n], n)}
    <3>1. /\ UNCHANGED <<kind, log,
                         faults>> /\ excused' = excused \cup {log[n] : n \in gone}
      BY <1>14, NewPostsIs
    <3>2. \A n \in gone : n \in 1 .. Len(log)
      BY <1>0, ForumBounds DEF RowShape
    <3> HIDE DEF gone
    <3> QED
      BY <1>0, <3>1, <3>2 DEF SiteShape
  <2>2. RowShape'
    BY <1>0, <1>14, NewPostsIs DEF RowShape
  <2>3. CursorShape'
    BY SMTT(30), <1>0, <1>14, NewPostsIs DEF CursorShape, Cursors, NoCursor
  <2>4. JobShape'
    <3>1. /\ UNCHANGED <<kind, log>> /\ job'.pc = "latest" /\ job.pc = "posts"
          /\ Sets({"pc", "todo", "newest"})
          /\ job'.todo = {<<log[n], 0>> : n \in Fresh} /\ job'.newest = Newest(Fresh)
      BY <1>14, NewPostsIs
    <3>2. Fresh \in SUBSET Nat /\ \A n \in Fresh : n <= Len(log)
      BY <1>0 DEF Fresh
    <3>3. Newest(Fresh) <= Len(log)
      BY <1>0, <3>2, NewestIs
    <3>4. \A e \in job'.todo : e[2] <= Len(log)
      BY <1>0, <3>1
    <3>5. /\ job' \in Jobs /\ job'.mode = job.mode /\ job'.category = job.category
          /\ job'.listed = job.listed /\ job'.version = job.version
      BY <3>1 DEF Sets, Fields
    <3> QED
      BY <1>0, <3>1, <3>3, <3>4, <3>5 DEF JobShape
  <2> QED
    BY <2>1, <2>2, <2>3, <2>4 DEF Shapes
<1>15. CASE Latest
  <2>1. SiteShape'
    BY <1>0, <1>15, LatestIs DEF SiteShape
  <2>2. RowShape'
    BY <1>0, <1>15, LatestIs DEF RowShape
  <2>3. CursorShape'
    BY SMTT(30), <1>0, <1>15, LatestIs DEF CursorShape, Cursors, NoCursor
  <2>4. JobShape'
    BY SMTT(30), <1>0, <1>15, LatestIs DEF JobShape, Jobs, Cursors, Idle, Sets, Starts, Fields
  <2> QED
    BY <2>1, <2>2, <2>3, <2>4 DEF Shapes
<1>16. CASE EndUpdate
  <2>1. SiteShape'
    BY <1>0, <1>16, EndUpdateIs DEF SiteShape
  <2>2. RowShape'
    <3>1. /\ UNCHANGED <<log, rec, validator, etags, done, base>>
          /\ mark' = Mark /\ promised' = Later(promised, Mark)
      BY <1>16, EndUpdateIs
    <3>2. job.newest \in Nat /\ job.newest <= Len(log)
      BY <1>0 DEF JobShape, Jobs
    <3>3. Mark \in Nat /\ Mark \in {mark, job.newest}
      BY <1>0, <3>2, LaterIs DEF Mark, RowShape
    <3>4. promised' \in {promised, Mark}
      BY <1>0, <3>1, <3>3, LaterIs DEF RowShape
    <3> QED
      BY <1>0, <3>1, <3>2, <3>3, <3>4 DEF RowShape
  <2>3. CursorShape'
    BY SMTT(30), <1>0, <1>16, EndUpdateIs DEF CursorShape, Cursors, NoCursor
  <2>4. JobShape'
    BY SMTT(30), <1>0, <1>16, EndUpdateIs DEF JobShape, Jobs, Cursors, Idle, Sets, Starts, Fields
  <2> QED
    BY <2>1, <2>2, <2>3, <2>4 DEF Shapes
<1>17. CASE BeginRepair
  <2>1. SiteShape'
    BY <1>0, <1>17, BeginRepairIs DEF SiteShape
  <2>2. RowShape'
    BY <1>0, <1>17, BeginRepairIs DEF RowShape
  <2>3. CursorShape'
    BY SMTT(30), <1>0, <1>17, BeginRepairIs DEF CursorShape, Cursors, NoCursor
  <2>4. JobShape'
    BY SMTT(30), <1>0, <1>17, BeginRepairIs DEF JobShape, Jobs, Cursors, Idle, Sets, Starts, Fields
  <2> QED
    BY <2>1, <2>2, <2>3, <2>4 DEF Shapes
<1>18. CASE EndRepair
  <2>1. SiteShape'
    BY <1>0, <1>18, EndRepairIs DEF SiteShape
  <2>2. RowShape'
    BY <1>0, <1>18, EndRepairIs DEF RowShape
  <2>3. CursorShape'
    BY SMTT(30), <1>0, <1>18, EndRepairIs DEF CursorShape, Cursors, NoCursor
  <2>4. JobShape'
    BY SMTT(30), <1>0, <1>18, EndRepairIs DEF JobShape, Jobs, Cursors, Idle, Sets, Starts, Fields
  <2> QED
    BY <2>1, <2>2, <2>3, <2>4 DEF Shapes
<1>19. CASE StopRepair
  <2>1. SiteShape'
    BY <1>0, <1>19, StopRepairIs DEF SiteShape
  <2>2. RowShape'
    BY <1>0, <1>19, StopRepairIs DEF RowShape
  <2>3. CursorShape'
    BY SMTT(30), <1>0, <1>19, StopRepairIs DEF CursorShape, Cursors, NoCursor
  <2>4. JobShape'
    BY SMTT(30), <1>0, <1>19, StopRepairIs DEF JobShape, Jobs, Cursors, Idle, Sets, Starts, Fields
  <2> QED
    BY <2>1, <2>2, <2>3, <2>4 DEF Shapes
<1>20. CASE ListNull
  <2>1. SiteShape'
    <3>1. /\ UNCHANGED <<kind, log>> /\ faults' = faults + 1 /\ faults < MaxFaults
          /\ excused' = excused \cup Unlisted(job.category, job.page)
      BY <1>20, ListNullIs
    <3>2. Unlisted(job.category, job.page) \subseteq Topics
      BY DEF Unlisted
    <3> QED
      BY <1>0, <3>1, <3>2, ForumBounds DEF SiteShape
  <2>2. RowShape'
    BY <1>0, <1>20, ListNullIs DEF RowShape
  <2>3. CursorShape'
    BY SMTT(30), <1>0, <1>20, ListNullIs DEF CursorShape, Cursors, NoCursor
  <2>4. JobShape'
    <3>1. cursor \in Cursors /\ cursor.done \in SUBSET Categories
      BY <1>0 DEF CursorShape, Cursors
    <3> DEFINE D == cursor.done \cup {job.category}
    <3>2. job.category \in Categories /\ UNCHANGED <<kind, log>> /\ job' = Enter(D)
      BY <1>20, ListNullIs
    <3>3. D \in SUBSET Categories
      BY <3>1, <3>2
    <3> HIDE DEF D
    <3>4. /\ job' \in Jobs /\ job'.mode = "backfill" /\ job'.pc \in {"list", "finish"}
          /\ job'.pc = "list" => job'.category \in Categories
          /\ job'.todo = {} /\ job'.listed = 0 /\ job'.version = 0 /\ job'.newest = 0
      BY <3>1, <3>2, <3>3, EnterIs, IdleType DEF Fields
    <3> QED
      BY <1>0, <3>2, <3>4 DEF JobShape
  <2> QED
    BY <2>1, <2>2, <2>3, <2>4 DEF Shapes
<1>21. CASE GetNull
  <2>1. SiteShape'
    <3>1. /\ UNCHANGED <<kind, log>> /\ faults' = faults + 1 /\ faults < MaxFaults
          /\ excused' \subseteq excused \cup {job.topic} /\ job.topic \in Topics
      BY <1>21, GetNullIs
    <3> QED
      BY <1>0, <3>1, ForumBounds DEF SiteShape
  <2>2. RowShape'
    <3> DEFINE new == IF etags THEN 0 ELSE validator[job.topic]
    <3>1. /\ UNCHANGED <<log, rec, etags, done, mark, base, promised>>
          /\ validator' = [validator EXCEPT ![job.topic] = new] /\ job.topic \in Topics
      BY <1>21, GetNullIs
    <3>2. new \in Nat /\ new <= Len(log)
      BY <1>0, <3>1 DEF RowShape
    <3> HIDE DEF new
    <3> QED
      BY <1>0, <3>1, <3>2 DEF RowShape
  <2>3. CursorShape'
    BY SMTT(30), <1>0, <1>21, GetNullIs DEF CursorShape, Cursors, NoCursor
  <2>4. JobShape'
    <3>1. /\ UNCHANGED <<kind, log>> /\ job'.pc = "pick"
          /\ Sets({"pc", "topic", "listed", "version", "spared"})
          /\ job'.listed = 0 /\ job'.version = 0 /\ job.pc = "get"
      BY <1>21, GetNullIs
    <3>2. /\ job' \in Jobs /\ job'.mode = job.mode /\ job'.category = job.category
          /\ job'.todo = job.todo /\ job'.newest = job.newest
      BY <3>1 DEF Sets, Fields
    <3> QED
      BY <1>0, <3>1, <3>2 DEF JobShape
  <2> QED
    BY <2>1, <2>2, <2>3, <2>4 DEF Shapes
<1>22. CASE UpdateNull
  <2>1. SiteShape'
    BY <1>0, <1>22, UpdateNullIs, ForumBounds DEF SiteShape
  <2>2. RowShape'
    BY <1>0, <1>22, UpdateNullIs DEF RowShape
  <2>3. CursorShape'
    BY SMTT(30), <1>0, <1>22, UpdateNullIs DEF CursorShape, Cursors, NoCursor
  <2>4. JobShape'
    BY SMTT(30), <1>0, <1>22, UpdateNullIs DEF JobShape, Jobs, Cursors, Idle, Sets, Starts, Fields
  <2> QED
    BY <2>1, <2>2, <2>3, <2>4 DEF Shapes
<1> QED
  BY <1>1, <1>2, <1>3, <1>4, <1>5, <1>6, <1>7, <1>8, <1>9, <1>10, <1>11, <1>12, <1>13,
       <1>14, <1>15, <1>16, <1>17, <1>18, <1>19, <1>20, <1>21, <1>22 DEF DiscourseNext

LEMMA UpsertedRows ==
  ASSUME Shapes, NEW t \in Topics, NEW v \in Nat, v <= Len(log), Upsert(t, v),
         UNCHANGED <<log, etags, validator, done, mark, base, promised>>
  PROVE  RowShape'
<1>1. RowShape
  BY DEF Shapes
<1>2. /\ rec' \in [Topics -> Recs] /\ rec'[t].bumped = v
      /\ \A u \in Topics \ {t} : rec'[u] = rec[u]
  BY UpsertIs
<1> QED
  BY <1>1, <1>2 DEF RowShape

LEMMA GithubShapes == Shapes /\ kind = "github" /\ GithubNext => Shapes'
<1> SUFFICES ASSUME Shapes, kind = "github", GithubNext PROVE Shapes'
  OBVIOUS
<1>0. /\ SiteShape /\ RowShape /\ CursorShape /\ JobShape
      /\ Len(log) \in Nat /\ (\A i \in 1 .. Len(log) : log[i] \in Topics)
      /\ \A t : Bump(t) \in Nat /\ Bump(t) <= Len(log)
  BY LogType, BumpType DEF Shapes
<1>1. CASE BeginRepo
  <2>1. SiteShape'
    BY <1>0, <1>1, BeginRepoIs DEF SiteShape
  <2>2. RowShape'
    BY <1>0, <1>1, BeginRepoIs DEF RowShape, Rebase
  <2>3. CursorShape'
    BY SMTT(30), <1>0, <1>1, BeginRepoIs DEF CursorShape, Cursors, NoCursor
  <2>4. JobShape'
    BY SMTT(30), <1>0, <1>1, BeginRepoIs DEF JobShape, Jobs, Cursors, Idle, Sets, Starts, Fields
  <2> QED
    BY <2>1, <2>2, <2>3, <2>4 DEF Shapes
<1>2. CASE RepoPage
  <2>1. SiteShape'
    BY <1>0, <1>2, RepoPageIs DEF SiteShape
  <2>2. RowShape'
    BY <1>0, <1>2, RepoPageIs DEF RowShape
  <2>3. CursorShape'
    BY SMTT(30), <1>0, <1>2, RepoPageIs DEF CursorShape, Cursors, NoCursor
  <2>4. JobShape'
    BY SMTT(30), <1>0, <1>2, RepoPageIs DEF JobShape, Jobs, Cursors, Idle, Sets, Starts, Fields
  <2> QED
    BY <2>1, <2>2, <2>3, <2>4 DEF Shapes
<1>3. CASE RepoItem
  <2>1. SiteShape'
    <3>1. PICK e \in job.todo : e \in Topics \X Nat /\ Upsert(e[1], e[2])
                                /\ UNCHANGED <<kind, log, faults>>
      BY <1>3, RepoItemIs
    <3>2. excused' \subseteq excused
      BY <3>1, UpsertIs
    <3> QED
      BY <1>0, <3>1, <3>2 DEF SiteShape
  <2>2. RowShape'
    <3>1. PICK e \in job.todo : /\ e \in Topics \X Nat /\ Upsert(e[1], e[2])
                                /\ UNCHANGED <<log, etags, validator, done, mark, base,
                                               promised>>
      BY <1>3, RepoItemIs
    <3>2. e[1] \in Topics /\ e[2] \in Nat /\ e[2] <= Len(log)
      BY <1>0, <3>1 DEF JobShape
    <3> QED
      BY <3>1, <3>2, UpsertedRows
  <2>3. CursorShape'
    BY SMTT(30), <1>0, <1>3, RepoItemIs DEF CursorShape, Cursors, NoCursor
  <2>4. JobShape'
    BY SMTT(30), <1>0, <1>3, RepoItemIs DEF JobShape, Jobs, Cursors, Idle, Sets, Starts, Fields
  <2> QED
    BY <2>1, <2>2, <2>3, <2>4 DEF Shapes
<1>4. CASE RepoStop
  <2>1. SiteShape'
    BY <1>0, <1>4, RepoStopIs DEF SiteShape, Overtaken
  <2>2. RowShape'
    BY <1>0, <1>4, RepoStopIs DEF RowShape
  <2>3. CursorShape'
    BY SMTT(30), <1>0, <1>4, RepoStopIs DEF CursorShape, Cursors, NoCursor
  <2>4. JobShape'
    BY SMTT(30), <1>0, <1>4, RepoStopIs DEF JobShape, Jobs, Cursors, Idle, Sets, Starts, Fields
  <2> QED
    BY <2>1, <2>2, <2>3, <2>4 DEF Shapes
<1>5. CASE RepoPageDone
  <2>1. SiteShape'
    BY <1>0, <1>5, RepoPageDoneIs DEF SiteShape, Overtaken
  <2>2. RowShape'
    BY <1>0, <1>5, RepoPageDoneIs DEF RowShape
  <2>3. CursorShape'
    <3>1. log' = log /\ cursor' = [NoCursor EXCEPT !.after = job.after]
      BY <1>5, RepoPageDoneIs
    <3>2. job.after \in Nat /\ job.newest <= Len(log)
      BY <1>0 DEF JobShape, Jobs
    <3>3. cursor' \in Cursors /\ cursor'.since \in {0, cursor.since}
      <4>1. /\ [NoCursor EXCEPT !.after = job.after] \in Cursors
            /\ [NoCursor EXCEPT !.after = job.after].since = 0
        BY <1>0, <3>2, CursorsAre DEF CursorShape
      <4> QED
        BY <3>1, <4>1
    <3> QED
      BY <1>0, <3>1, <3>3 DEF CursorShape
  <2>4. JobShape'
    BY SMTT(30), <1>0, <1>5, RepoPageDoneIs DEF JobShape, Jobs, Cursors, Idle, Sets, Starts, Fields
  <2> QED
    BY <2>1, <2>2, <2>3, <2>4 DEF Shapes
<1>6. CASE EndRepo
  <2>1. SiteShape'
    BY <1>0, <1>6, EndRepoIs DEF SiteShape
  <2>2. RowShape'
    <3>1. /\ UNCHANGED <<log, rec, validator, etags, mark>> /\ base' = 0 /\ done' = TRUE
          /\ promised' = Later(promised, base)
      BY <1>6, EndRepoIs
    <3>2. promised' \in {promised, base} /\ promised' \in Nat
      BY <1>0, <3>1, LaterIs DEF RowShape
    <3> QED
      BY <1>0, <3>1, <3>2 DEF RowShape
  <2>3. CursorShape'
    BY SMTT(30), <1>0, <1>6, EndRepoIs DEF CursorShape, Cursors, NoCursor
  <2>4. JobShape'
    BY SMTT(30), <1>0, <1>6, EndRepoIs DEF JobShape, Jobs, Cursors, Idle, Sets, Starts, Fields
  <2> QED
    BY <2>1, <2>2, <2>3, <2>4 DEF Shapes
<1>7. CASE BeginRepoUpdate
  <2>1. SiteShape'
    BY <1>0, <1>7, BeginRepoUpdateIs DEF SiteShape
  <2>2. RowShape'
    BY <1>0, <1>7, BeginRepoUpdateIs DEF RowShape
  <2>3. CursorShape'
    BY SMTT(30), <1>0, <1>7, BeginRepoUpdateIs DEF CursorShape, Cursors, NoCursor
  <2>4. JobShape'
    <3>1. /\ UNCHANGED <<kind, log>> /\ Starts({"mode", "pc", "version", "newest", "after"})
          /\ job'.mode = "update" /\ job'.pc = "list" /\ job'.version = Since
          /\ job'.newest = Since
      BY <1>7, BeginRepoUpdateIs
    <3>2. Since <= Len(log)
      BY <1>0, ArchivedType DEF Since, CursorShape
    <3>3. job' \in Jobs /\ job'.todo = {} /\ job'.listed = 0
      BY <3>1, IdleType DEF Starts, Fields
    <3> QED
      BY <1>0, <3>1, <3>2, <3>3 DEF JobShape
  <2> QED
    BY <2>1, <2>2, <2>3, <2>4 DEF Shapes
<1>8. CASE NewestPage
  <2>1. SiteShape'
    BY <1>0, <1>8, NewestPageIs DEF SiteShape
  <2>2. RowShape'
    BY <1>0, <1>8, NewestPageIs DEF RowShape
  <2>3. CursorShape'
    BY SMTT(30), <1>0, <1>8, NewestPageIs DEF CursorShape, Cursors, NoCursor
  <2>4. JobShape'
    <3>1. /\ UNCHANGED <<kind, log>> /\ Sets({"pc", "todo", "more"})
          /\ job'.pc \in {"item", "end"} /\ job'.todo = Listed(Below(job.after))
      BY <1>8, NewestPageIs
    <3>2. Below(job.after) \in SUBSET Topics
      BY DEF Below, Between
    <3>3. \A e \in job'.todo : e[2] <= Len(log)
      BY <1>0, <3>1, <3>2, ListedType
    <3>4. /\ job' \in Jobs /\ job'.newest = job.newest
          /\ job'.listed = job.listed /\ job'.version = job.version
      BY <3>1 DEF Sets, Fields
    <3> QED
      BY <1>0, <3>1, <3>3, <3>4 DEF JobShape
  <2> QED
    BY <2>1, <2>2, <2>3, <2>4 DEF Shapes
<1>9. CASE NewestItem
  <2>1. SiteShape'
    <3>1. PICK e \in job.todo : /\ e \in Topics \X Nat /\ UNCHANGED <<kind, log, faults>>
                                /\ Upsert(e[1], e[2]) \/ excused' = excused
      BY <1>9, NewestItemIs
    <3>2. excused' \subseteq excused
      BY <3>1, UpsertIs
    <3> QED
      BY <1>0, <3>1, <3>2 DEF SiteShape
  <2>2. RowShape'
    <3>1. PICK e \in job.todo : /\ e \in Topics \X Nat
                                /\ Upsert(e[1], e[2]) \/ rec' = rec
                                /\ UNCHANGED <<log, etags, validator, done, mark, base,
                                               promised>>
      BY <1>9, NewestItemIs
    <3>2. CASE rec' = rec
      BY <1>0, <3>1, <3>2 DEF RowShape
    <3>3. CASE Upsert(e[1], e[2])
      <4>1. e[1] \in Topics /\ e[2] \in Nat /\ e[2] <= Len(log)
        BY <1>0, <3>1 DEF JobShape
      <4> QED
        BY <3>1, <3>3, <4>1, UpsertedRows
    <3> QED
      BY <3>1, <3>2, <3>3
  <2>3. CursorShape'
    BY SMTT(30), <1>0, <1>9, NewestItemIs DEF CursorShape, Cursors, NoCursor
  <2>4. JobShape'
    <3>1. PICK e \in job.todo :
             /\ e \in Topics \X Nat /\ UNCHANGED <<kind, log>>
             /\ \/ Sets({"pc", "todo"}) /\ job'.pc = "end" /\ job'.todo = {}
                \/ /\ Sets({"todo", "newest", "after"}) /\ job'.todo = job.todo \ {e}
                   /\ job'.newest = Later(job.newest, e[2])
      BY <1>9, NewestItemIs
    <3>2. CASE Sets({"pc", "todo"}) /\ job'.pc = "end" /\ job'.todo = {}
      BY <1>0, <3>1, <3>2 DEF JobShape, Sets, Fields
    <3>3. CASE /\ Sets({"todo", "newest", "after"}) /\ job'.todo = job.todo \ {e}
               /\ job'.newest = Later(job.newest, e[2])
      <4>1. job.newest \in Nat /\ job.newest <= Len(log) /\ e[2] \in Nat /\ e[2] <= Len(log)
        BY <1>0, <3>1 DEF JobShape, Jobs
      <4>2. job'.newest \in {job.newest, e[2]}
        BY <3>3, <4>1, LaterIs
      <4>3. job'.newest <= Len(log)
        BY <4>1, <4>2
      <4>4. /\ job' \in Jobs /\ job'.mode = job.mode /\ job'.pc = job.pc
            /\ job'.topic = job.topic /\ job'.category = job.category
            /\ job'.listed = job.listed /\ job'.version = job.version
        BY <3>3 DEF Sets, Fields
      <4> QED
        BY <1>0, <3>1, <3>3, <4>3, <4>4 DEF JobShape
    <3> QED
      BY <3>1, <3>2, <3>3
  <2> QED
    BY <2>1, <2>2, <2>3, <2>4 DEF Shapes
<1>10. CASE NewestPageDone
  <2>1. SiteShape'
    BY <1>0, <1>10, NewestPageDoneIs DEF SiteShape
  <2>2. RowShape'
    BY <1>0, <1>10, NewestPageDoneIs DEF RowShape
  <2>3. CursorShape'
    BY SMTT(30), <1>0, <1>10, NewestPageDoneIs DEF CursorShape, Cursors, NoCursor
  <2>4. JobShape'
    BY SMTT(30), <1>0, <1>10, NewestPageDoneIs DEF JobShape, Jobs, Cursors, Idle, Sets, Starts,
       Fields
  <2> QED
    BY <2>1, <2>2, <2>3, <2>4 DEF Shapes
<1>11. CASE EndRepoUpdate
  <2>1. SiteShape'
    BY <1>0, <1>11, EndRepoUpdateIs DEF SiteShape
  <2>2. RowShape'
    BY <1>0, <1>11, EndRepoUpdateIs DEF RowShape
  <2>3. CursorShape'
    <3>1. log' = log /\ cursor' = [NoCursor EXCEPT !.since = job.newest]
      BY <1>11, EndRepoUpdateIs
    <3>2. job.newest \in Nat /\ job.newest <= Len(log)
      BY <1>0 DEF JobShape, Jobs
    <3> QED
      <4>1. /\ [NoCursor EXCEPT !.since = job.newest] \in Cursors
            /\ [NoCursor EXCEPT !.since = job.newest].since = job.newest
        BY <1>0, <3>2, CursorsAre DEF CursorShape
      <4> QED
        BY <3>1, <3>2, <4>1 DEF CursorShape
  <2>4. JobShape'
    BY SMTT(30), <1>0, <1>11, EndRepoUpdateIs DEF JobShape, Jobs, Cursors, Idle, Sets, Starts,
       Fields
  <2> QED
    BY <2>1, <2>2, <2>3, <2>4 DEF Shapes
<1> QED
  BY <1>1, <1>2, <1>3, <1>4, <1>5, <1>6, <1>7, <1>8, <1>9, <1>10, <1>11 DEF GithubNext

LEMMA SnapshotShapes == Shapes /\ kind = "snapshot" /\ SnapshotNext => Shapes'
<1> SUFFICES ASSUME Shapes, kind = "snapshot", SnapshotNext PROVE Shapes'
  OBVIOUS
<1>0. /\ SiteShape /\ RowShape /\ CursorShape /\ JobShape
      /\ Len(log) \in Nat /\ (\A i \in 1 .. Len(log) : log[i] \in Topics)
      /\ \A t : Bump(t) \in Nat /\ Bump(t) <= Len(log)
  BY LogType, BumpType DEF Shapes
<1>1. CASE BeginSpace
  <2>1. SiteShape'
    BY <1>0, <1>1, BeginSpaceIs DEF SiteShape
  <2>2. RowShape'
    BY <1>0, <1>1, BeginSpaceIs DEF RowShape, Rebase
  <2>3. CursorShape'
    BY SMTT(30), <1>0, <1>1, BeginSpaceIs DEF CursorShape, Cursors, NoCursor
  <2>4. JobShape'
    BY SMTT(30), <1>0, <1>1, BeginSpaceIs DEF JobShape, Jobs, Cursors, Idle, Sets, Starts, Fields
  <2> QED
    BY <2>1, <2>2, <2>3, <2>4 DEF Shapes
<1>2. CASE BeginSpaceUpdate
  <2>1. SiteShape'
    BY <1>0, <1>2, BeginSpaceUpdateIs DEF SiteShape
  <2>2. RowShape'
    BY <1>0, <1>2, BeginSpaceUpdateIs DEF RowShape
  <2>3. CursorShape'
    BY SMTT(30), <1>0, <1>2, BeginSpaceUpdateIs DEF CursorShape, Cursors, NoCursor
  <2>4. JobShape'
    <3>1. /\ UNCHANGED <<kind, log>> /\ Starts({"mode", "pc", "newest", "version"})
          /\ job'.mode = "update" /\ job'.pc = "list" /\ job'.version = SpaceSince
          /\ job'.newest = mark
      BY <1>2, BeginSpaceUpdateIs
    <3>2. SpaceSince <= Len(log) /\ mark <= Len(log)
      BY <1>0, ArchivedType DEF SpaceSince, RowShape
    <3>3. job' \in Jobs /\ job'.todo = {} /\ job'.listed = 0
      BY <3>1, IdleType DEF Starts, Fields
    <3> QED
      BY <1>0, <3>1, <3>2, <3>3 DEF JobShape
  <2> QED
    BY <2>1, <2>2, <2>3, <2>4 DEF Shapes
<1>3. CASE SpacePage
  <2>1. SiteShape'
    BY <1>0, <1>3, SpacePageIs DEF SiteShape
  <2>2. RowShape'
    BY <1>0, <1>3, SpacePageIs DEF RowShape
  <2>3. CursorShape'
    BY SMTT(30), <1>0, <1>3, SpacePageIs DEF CursorShape, Cursors, NoCursor
  <2>4. JobShape'
    <3>1. /\ UNCHANGED <<kind, log>> /\ Sets({"pc", "todo", "after"})
          /\ job'.pc \in {"item", "end"} /\ job'.todo = Slice(job.version, job.skip)
      BY <1>3, SpacePageIs
    <3>2. \A e \in Slice(job.version, job.skip) : e[2] <= Len(log)
      <4> SUFFICES ASSUME NEW e \in Slice(job.version, job.skip) PROVE e[2] <= Len(log)
        OBVIOUS
      <4>1. PICK t \in Topics : e = <<t, Bump(t)>>
        BY DEF Slice, Created
      <4> QED
        BY <1>0, <4>1
    <3>3. /\ job' \in Jobs /\ job'.newest = job.newest
          /\ job'.listed = job.listed /\ job'.version = job.version
      BY <3>1 DEF Sets, Fields
    <3> QED
      BY <1>0, <3>1, <3>2, <3>3 DEF JobShape
  <2> QED
    BY <2>1, <2>2, <2>3, <2>4 DEF Shapes
<1>4. CASE SpaceItem
  <2>1. SiteShape'
    <3>1. PICK e \in job.todo : e \in Topics \X Nat /\ Upsert(e[1], e[2])
                                /\ UNCHANGED <<kind, log, faults>>
      BY <1>4, SpaceItemIs
    <3>2. excused' \subseteq excused
      BY <3>1, UpsertIs
    <3> QED
      BY <1>0, <3>1, <3>2 DEF SiteShape
  <2>2. RowShape'
    <3>1. PICK e \in job.todo : /\ e \in Topics \X Nat /\ Upsert(e[1], e[2])
                                /\ UNCHANGED <<log, etags, validator, done, mark, base,
                                               promised>>
      BY <1>4, SpaceItemIs
    <3>2. e[1] \in Topics /\ e[2] \in Nat /\ e[2] <= Len(log)
      BY <1>0, <3>1 DEF JobShape
    <3> QED
      BY <3>1, <3>2, UpsertedRows
  <2>3. CursorShape'
    BY SMTT(30), <1>0, <1>4, SpaceItemIs DEF CursorShape, Cursors, NoCursor
  <2>4. JobShape'
    <3>1. PICK e \in job.todo :
             /\ e \in Topics \X Nat /\ UNCHANGED <<kind, log>>
             /\ Sets({"todo", "newest"}) /\ job'.todo = job.todo \ {e}
             /\ job'.newest = IF job.mode = "update" THEN Later(job.newest, e[2]) ELSE job.newest
      BY <1>4, SpaceItemIs
    <3>2. job.newest \in Nat /\ job.newest <= Len(log) /\ e[2] \in Nat /\ e[2] <= Len(log)
      BY <1>0, <3>1 DEF JobShape, Jobs
    <3>3. job'.newest \in {job.newest, e[2]}
      BY <3>1, <3>2, LaterIs
    <3>4. job'.newest <= Len(log)
      BY <3>2, <3>3
    <3>5. /\ job' \in Jobs /\ job'.mode = job.mode /\ job'.pc = job.pc
          /\ job'.topic = job.topic /\ job'.category = job.category
          /\ job'.listed = job.listed /\ job'.version = job.version
      BY <3>1 DEF Sets, Fields
    <3> QED
      BY <1>0, <3>1, <3>4, <3>5 DEF JobShape
  <2> QED
    BY <2>1, <2>2, <2>3, <2>4 DEF Shapes
<1>5. CASE SpaceStop
  <2>1. SiteShape'
    BY <1>0, <1>5, SpaceStopIs DEF SiteShape
  <2>2. RowShape'
    BY <1>0, <1>5, SpaceStopIs DEF RowShape
  <2>3. CursorShape'
    <3>1. log' = log /\ cursor' = [NoCursor EXCEPT !.skip = job.skip]
      BY <1>5, SpaceStopIs
    <3>2. job.skip \in Nat /\ job.newest <= Len(log)
      BY <1>0 DEF JobShape, Jobs
    <3>3. cursor' \in Cursors /\ cursor'.since \in {0, cursor.since}
      <4>1. /\ [NoCursor EXCEPT !.skip = job.skip] \in Cursors
            /\ [NoCursor EXCEPT !.skip = job.skip].since = 0
        BY <1>0, <3>2, CursorsAre DEF CursorShape
      <4> QED
        BY <3>1, <4>1
    <3> QED
      BY <1>0, <3>1, <3>3 DEF CursorShape
  <2>4. JobShape'
    BY SMTT(30), <1>0, <1>5, SpaceStopIs DEF JobShape, Jobs, Cursors, Idle, Sets, Starts, Fields
  <2> QED
    BY <2>1, <2>2, <2>3, <2>4 DEF Shapes
<1>6. CASE SpacePageDone
  <2>1. SiteShape'
    BY <1>0, <1>6, SpacePageDoneIs DEF SiteShape
  <2>2. RowShape'
    BY <1>0, <1>6, SpacePageDoneIs DEF RowShape
  <2>3. CursorShape'
    <3> DEFINE n == job.skip + job.after
    <3>1. log' = log /\ (cursor' = [NoCursor EXCEPT !.skip = n] \/ cursor' = cursor)
      BY <1>6, SpacePageDoneIs
    <3>2. n \in Nat
      BY <1>0 DEF JobShape, Jobs
    <3> HIDE DEF n
    <3>3. cursor' \in Cursors /\ cursor'.since \in {0, cursor.since}
      <4>1. CASE cursor' = [NoCursor EXCEPT !.skip = n]
        <5>1. /\ [NoCursor EXCEPT !.skip = n] \in Cursors
              /\ [NoCursor EXCEPT !.skip = n].since = 0
          BY <1>0, <3>2, CursorsAre DEF CursorShape
        <5> QED
          BY <4>1, <5>1
      <4>2. CASE cursor' = cursor
        BY <1>0, <4>2 DEF CursorShape
      <4> QED
        BY <3>1, <4>1, <4>2
    <3> QED
      BY <1>0, <3>1, <3>3 DEF CursorShape
  <2>4. JobShape'
    BY ZenonT(40), <1>0, <1>6, SpacePageDoneIs DEF JobShape, Jobs, Cursors, Idle, Sets, Starts,
       Fields
  <2> QED
    BY <2>1, <2>2, <2>3, <2>4 DEF Shapes
<1>7. CASE EndSpace
  <2>1. SiteShape'
    BY <1>0, <1>7, EndSpaceIs DEF SiteShape
  <2>2. RowShape'
    <3>1. /\ UNCHANGED <<log, rec, validator, etags, mark>> /\ base' = 0 /\ done' = TRUE
          /\ promised' = Later(promised, base)
      BY <1>7, EndSpaceIs
    <3>2. promised' \in {promised, base} /\ promised' \in Nat
      BY <1>0, <3>1, LaterIs DEF RowShape
    <3> QED
      BY <1>0, <3>1, <3>2 DEF RowShape
  <2>3. CursorShape'
    BY SMTT(30), <1>0, <1>7, EndSpaceIs DEF CursorShape, Cursors, NoCursor
  <2>4. JobShape'
    BY SMTT(30), <1>0, <1>7, EndSpaceIs DEF JobShape, Jobs, Cursors, Idle, Sets, Starts, Fields
  <2> QED
    BY <2>1, <2>2, <2>3, <2>4 DEF Shapes
<1>8. CASE EndSpaceUpdate
  <2>1. SiteShape'
    BY <1>0, <1>8, EndSpaceUpdateIs DEF SiteShape
  <2>2. RowShape'
    <3>1. UNCHANGED <<log, rec, validator, etags, done, base,
                      promised>> /\ mark' = SpaceMark
      BY <1>8, EndSpaceUpdateIs
    <3>2. job.newest \in Nat /\ job.newest <= Len(log)
      BY <1>0 DEF JobShape, Jobs
    <3>3. SpaceMark \in Nat /\ SpaceMark \in {mark, job.newest}
      BY <1>0, <3>2, LaterIs DEF SpaceMark, RowShape
    <3> QED
      BY <1>0, <3>1, <3>2, <3>3 DEF RowShape
  <2>3. CursorShape'
    BY SMTT(30), <1>0, <1>8, EndSpaceUpdateIs DEF CursorShape, Cursors, NoCursor
  <2>4. JobShape'
    BY SMTT(30), <1>0, <1>8, EndSpaceUpdateIs DEF JobShape, Jobs, Cursors, Idle, Sets, Starts,
       Fields
  <2> QED
    BY <2>1, <2>2, <2>3, <2>4 DEF Shapes
<1> QED
  BY <1>1, <1>2, <1>3, <1>4, <1>5, <1>6, <1>7, <1>8 DEF SnapshotNext

LEMMA SitePostShapes ==
  ASSUME Shapes, NEW x \in Topics, SitePost(x)
  PROVE  Shapes'
<1>0. SiteShape /\ RowShape /\ CursorShape /\ JobShape
  BY DEF Shapes
<1>1. /\ Len(log) < MaxLog /\ Len(log') = Len(log) + 1 /\ Len(log) \in Nat
      /\ log' \in Seq(Topics)
      /\ excused' = IF Walking THEN excused \cup {x} ELSE excused
      /\ UNCHANGED <<kind, rec, etags, validator, done, cursor, mark, job, faults, base,
                     promised>>
  BY SitePostIs
<1>2. Len(log') <= MaxLog
  BY <1>1, ForumBounds
<1>3. SiteShape'
  BY <1>0, <1>1, <1>2 DEF SiteShape
<1>4. \A n \in Nat : n <= Len(log) => n <= Len(log')
  BY <1>1
<1>5. RowShape'
  BY <1>0, <1>1, <1>4 DEF RowShape, Recs
<1>6. CursorShape'
  BY <1>0, <1>1, <1>4 DEF CursorShape, Cursors
<1>7. JobShape'
  <2>1. \A e \in job.todo : e[2] \in Nat
    BY <1>0 DEF JobShape, Jobs
  <2>2. job.listed \in Nat /\ job.version \in Nat /\ job.newest \in Nat
    BY <1>0 DEF JobShape, Jobs
  <2> QED
    BY <1>0, <1>1, <1>4, <2>1, <2>2 DEF JobShape
<1> QED
  BY <1>3, <1>5, <1>6, <1>7 DEF Shapes

LEMMA LoseShapes ==
  ASSUME Shapes, Lose
  PROVE  Shapes'
<1>0. SiteShape /\ RowShape /\ CursorShape /\ JobShape
  BY DEF Shapes
<1>1. /\ Starts({}) /\ faults' = faults + 1 /\ faults < MaxFaults
      /\ excused' = excused \cup CutOff \cup Unstored
      /\ UNCHANGED <<kind, log, rec, etags, validator, done, cursor, mark, base, promised>>
  BY LoseIs
<1>2. CutOff \cup Unstored \subseteq Topics
  BY <1>0 DEF CutOff, Overtaken, Unstored, JobShape
<1>3. SiteShape'
  BY <1>0, <1>1, <1>2, ForumBounds DEF SiteShape
<1>4. RowShape'
  BY <1>0, <1>1 DEF RowShape
<1>5. CursorShape'
  BY <1>0, <1>1 DEF CursorShape
<1>6. JobShape'
  BY <1>0, <1>1, IdleType, LogType DEF JobShape, Starts, Fields
<1> QED
  BY <1>3, <1>4, <1>5, <1>6 DEF Shapes

LEMMA NextShapes == Shapes /\ [Next]_vars => Shapes'
<1> SUFFICES ASSUME Shapes, [Next]_vars PROVE Shapes'
  OBVIOUS
<1>1. CASE \E t \in Topics : SitePost(t)
  BY <1>1, SitePostShapes
<1>2. CASE Lose
  BY <1>2, LoseShapes
<1>3. CASE DiscourseNext
  BY <1>3, DiscourseShapes DEF DiscourseNext
<1>4. CASE GithubNext
  BY <1>4, GithubShapes DEF GithubNext
<1>5. CASE SnapshotNext
  BY <1>5, SnapshotShapes DEF SnapshotNext
<1>6. CASE UNCHANGED vars
  BY <1>6 DEF vars, cache, forum, history, Shapes, SiteShape, RowShape, CursorShape,
       JobShape
<1> QED
  BY <1>1, <1>2, <1>3, <1>4, <1>5, <1>6 DEF Next

-----------------------------------------------------------------------------
(***************************************************************************)
(* What is known of a topic is never ahead of the site: the archive's row, *)
(* the list of a job, the validator, the answer in hand.                   *)
(***************************************************************************)
RecSound == \A t \in Topics :
    /\ rec[t].have <= rec[t].count
    /\ rec[t].bumped <= Top(log, t)
    /\ rec[t].count <= Tally(log, t, Len(log))
    /\ Tally(log, t, rec[t].bumped) <= rec[t].count

TodoSound ==
    /\ \A e \in job.todo : e[2] <= Top(log, e[1])
    /\ \A e, f \in job.todo : e[1] = f[1] => e = f

ValidSound == \A t \in Topics : validator[t] <= Top(log, t)

GetSound == job.pc = "get" => job.listed <= Top(log, job.topic)

\* The answer in hand has all that the forum's row or the job can claim.
StoreSound == job.pc = "store" =>
    /\ job.version <= Top(log, job.topic)
    /\ job.listed <= job.version
    /\ validator[job.topic] <= job.version
    /\ rec[job.topic].count <= Tally(log, job.topic, job.version)
    /\ rec[job.topic].bumped <= job.version
    /\ \A k \in 1 .. Len(log) : log[k] = job.topic /\ k > job.version
                                    => k > base /\ k > promised /\ k > job.newest

Sound == RecSound /\ TodoSound /\ ValidSound /\ GetSound /\ StoreSound

LEMMA InitSound == Init => Sound
<1> SUFFICES ASSUME Init PROVE Sound
  OBVIOUS
<1>1. Len(log) = 0 /\ (\A t \in Topics : rec[t] = NoTopic /\ validator[t] = 0) /\ job = Idle
  BY DEF Init
<1>2. \A t : Top(log, t) \in Nat /\ Tally(log, t, 0) \in Nat
  BY <1>1, TopIs, SpotsType
<1>3. \A t : Tally(log, t, 0) = 0
  <2>1. \A t : Spots(log, t, 0) = {}
    BY DEF Spots
  <2> QED
    BY <2>1, FS_EmptySet DEF Tally
<1>4. RecSound
  BY <1>1, <1>2, <1>3 DEF RecSound, NoTopic
<1>5. TodoSound /\ GetSound /\ StoreSound
  BY <1>1, IdleType DEF TodoSound, GetSound, StoreSound
<1>6. ValidSound
  BY <1>1, <1>2 DEF ValidSound
<1> QED
  BY <1>4, <1>5, <1>6 DEF Sound

LEMMA TodoShrinks ==
  ASSUME TodoSound, log' = log, job'.todo \subseteq job.todo
  PROVE  TodoSound'
  BY DEF TodoSound

\* Topics listed each at the time of its newest post
LEMMA TodoListed ==
  ASSUME Shapes, NEW S \in SUBSET Topics, log' = log, job'.todo = {<<t, Bump(t)>> : t \in S}
  PROVE  TodoSound'
<1>1. \A t \in S : Bump(t) = Top(log, t) /\ Bump(t) \in Nat
  BY BumpIs, BumpType DEF Shapes
<1> QED
  BY <1>1 DEF TodoSound

\* Topics to be had without a date
LEMMA TodoUndated ==
  ASSUME Shapes, NEW S \in SUBSET Topics, log' = log, job'.todo = {<<t, 0>> : t \in S}
  PROVE  TodoSound'
<1>1. \A t : Top(log, t) \in Nat
  BY LogType, TopIs DEF Shapes
<1> QED
  BY <1>1 DEF TodoSound

LEMMA QuietSound ==
  ASSUME Sound, UNCHANGED <<log, rec, validator>>, job'.pc \notin {"get", "store"},
                            TodoSound'
  PROVE  Sound'
<1>1. RecSound' /\ ValidSound'
  BY DEF Sound, RecSound, ValidSound
<1>2. GetSound' /\ StoreSound'
  BY DEF GetSound, StoreSound
<1> QED
  BY <1>1, <1>2 DEF Sound

LEMMA SpotIsTop ==
  ASSUME SiteShape, NEW t, NEW v \in Nat
  PROVE  /\ Len(log) \in Nat /\ Top(log, t) \in Nat /\ Top(log, t) <= Len(log)
         /\ \A k \in 1 .. Len(log) : log[k] = t => k <= Top(log, t)
         /\ Tally(log, t, v) \in Nat
         /\ Tally(log, t, Top(log, t)) = Tally(log, t, Len(log))
<1>1. Len(log) \in Nat
  BY LogType
<1> QED
  BY <1>1, TopIs, SpotsType, TallyAtTop

LEMMA PickSound ==
  ASSUME Shapes, Sound, NEW e \in job.todo, Pick(e)
  PROVE  Sound'
<1>1. /\ UNCHANGED <<log, rec, validator>> /\ job'.todo = job.todo \ {e} /\ job.pc = "pick"
      /\ \/ Sets({"todo"})
         \/ job'.pc = "get" /\ job'.topic = e[1] /\ job'.listed = e[2]
  BY PickIs
<1>2. TodoSound'
  BY <1>1, TodoShrinks DEF Sound
<1>3. RecSound' /\ ValidSound'
  BY <1>1 DEF Sound, RecSound, ValidSound
<1>4. GetSound' /\ StoreSound'
  <2>1. CASE Sets({"todo"})
    <3>1. job'.pc = "pick"
      BY <1>1, <2>1 DEF Sets, Fields
    <3> QED
      BY <3>1 DEF GetSound, StoreSound
  <2>2. CASE job'.pc = "get" /\ job'.topic = e[1] /\ job'.listed = e[2]
    <3>1. e[2] <= Top(log, e[1])
      BY DEF Sound, TodoSound
    <3> QED
      BY <1>1, <2>2, <3>1 DEF GetSound, StoreSound
  <2> QED
    BY <1>1, <2>1, <2>2
<1> QED
  BY <1>2, <1>3, <1>4 DEF Sound

LEMMA GetIsSound ==
  ASSUME Shapes, Sound, Get
  PROVE  Sound'
<1> DEFINE t == job.topic
           v == Top(log, t)
<1>1. /\ job.pc = "get" /\ Sets({"pc", "version"}) /\ job'.pc = "store"
      /\ job'.version = v
      /\ validator' = [validator EXCEPT ![t] = IF etags THEN v ELSE @]
      /\ UNCHANGED <<log, rec, base, promised>>
  BY GetIs, BumpIs
<1>2. /\ job'.todo = job.todo /\ job'.topic = t /\ job'.listed = job.listed
      /\ job'.newest = job.newest
  BY <1>1 DEF Sets, Fields
<1>3. t \in Topics /\ SiteShape /\ validator \in [Topics -> Nat]
  BY <1>1 DEF Shapes, JobShape, RowShape
<1>4. /\ Len(log) \in Nat /\ v \in Nat /\ v <= Len(log)
      /\ \A k \in 1 .. Len(log) : log[k] = t => k <= v
      /\ Tally(log, t, v) = Tally(log, t, Len(log))
  <2>1. Len(log) \in Nat
    BY <1>3, LogType
  <2> QED
    BY <1>3, <2>1, SpotIsTop
<1>5. /\ job.listed <= v /\ rec[t].count <= Tally(log, t, v) /\ rec[t].bumped <= v
      /\ validator[t] <= v
  BY <1>1, <1>3, <1>4 DEF Sound, RecSound, GetSound, ValidSound
<1> HIDE DEF v, t
<1>6. TodoSound'
  BY <1>1, <1>2, TodoShrinks DEF Sound
<1>7. RecSound'
  BY <1>1 DEF Sound, RecSound
<1>8. validator'[t] <= v /\ \A u \in Topics \ {t} : validator'[u] = validator[u]
  BY <1>1, <1>3, <1>4, <1>5
<1>9. ValidSound'
  BY <1>1, <1>8 DEF Sound, ValidSound, v
<1>10. GetSound'
  BY <1>1 DEF GetSound
<1>11. StoreSound'
  <2>1. \A k \in 1 .. Len(log') : log'[k] = job'.topic => ~(k > job'.version)
    BY <1>1, <1>2, <1>4
  <2>2. /\ job'.version <= Top(log', job'.topic) /\ job'.listed <= job'.version
        /\ validator'[job'.topic] <= job'.version
        /\ rec'[job'.topic].count <= Tally(log', job'.topic, job'.version)
        /\ rec'[job'.topic].bumped <= job'.version
    BY <1>1, <1>2, <1>4, <1>5, <1>8 DEF v
  <2> QED
    BY <2>1, <2>2 DEF StoreSound
<1> QED
  BY <1>6, <1>7, <1>9, <1>10, <1>11 DEF Sound

LEMMA StoreIsSound ==
  ASSUME Shapes, Sound, Store
  PROVE  Sound'
<1> DEFINE t == job.topic
           n == Tally(log, t, job.version)
           b == BumpedAt
<1>1. /\ job.pc = "store" /\ t \in Topics /\ rec' \in [Topics -> Recs]
      /\ \A u \in Topics \ {t} : rec'[u] = rec[u]
      /\ rec'[t].count = n /\ rec'[t].bumped = b
      /\ rec[t].have <= rec'[t].have /\ rec'[t].have <= n
      /\ job'.pc \in {"tail", "pick"}
      /\ Sets({"pc"}) \/ Sets({"pc", "topic", "listed", "version", "spared"})
      /\ UNCHANGED <<log, validator>>
  BY StoreIs, PostsIs
<1>2. job'.todo = job.todo
  BY <1>1 DEF Sets, Fields
<1>3. /\ job.version \in Nat /\ job.listed \in Nat /\ rec[t].have \in Nat /\ rec[t].count \in Nat
      /\ SiteShape /\ job.version <= Len(log)
  BY <1>1 DEF Shapes, JobShape, Jobs, RowShape, Recs
<1>4. /\ job.version <= Top(log, t) /\ job.listed <= job.version /\ rec[t].count <= n
      /\ rec[t].have <= rec[t].count
  BY <1>1 DEF Sound, StoreSound, RecSound
<1>5. b \in Nat /\ b <= job.version
  BY <1>3, <1>4 DEF BumpedAt
<1>6. /\ n \in Nat /\ Len(log) \in Nat /\ Top(log, t) \in Nat
      /\ Tally(log, t, Len(log)) \in Nat /\ Tally(log, t, b) \in Nat
  <2>1. Len(log) \in Nat
    BY <1>3, LogType
  <2> QED
    BY <1>3, <1>5, <2>1, SpotIsTop
<1>7. n <= Tally(log, t, Len(log))
  <2>1. \A k \in 1 .. job.version : log[k] = t => k <= Len(log)
    BY <1>3, <1>6
  <2> QED
    BY <1>3, <1>6, <2>1, TallyGrows
<1>8. Tally(log, t, b) <= n
  <2>1. \A k \in 1 .. b : log[k] = t => k <= job.version
    BY <1>3, <1>5
  <2> QED
    BY <1>3, <1>5, <2>1, TallyGrows
<1> HIDE DEF n, b, t
<1>9. rec'[t].have <= n
  BY <1>1
<1>10. RecSound'
  <2> SUFFICES ASSUME NEW u \in Topics
               PROVE  /\ rec'[u].have <= rec'[u].count
                      /\ rec'[u].bumped <= Top(log, u)
                      /\ rec'[u].count <= Tally(log, u, Len(log))
                      /\ Tally(log, u, rec'[u].bumped) <= rec'[u].count
    BY <1>1 DEF RecSound
  <2>1. CASE u = t
    BY <1>1, <1>3, <1>4, <1>5, <1>6, <1>7, <1>8, <1>9, <2>1 DEF t
  <2>2. CASE u # t
    <3>1. rec'[u] = rec[u]
      BY <1>1, <2>2
    <3> QED
      BY <3>1 DEF Sound, RecSound
  <2> QED
    BY <2>1, <2>2
<1>11. TodoSound'
  BY <1>1, <1>2, TodoShrinks DEF Sound
<1>12. ValidSound'
  BY <1>1 DEF Sound, ValidSound
<1>13. GetSound' /\ StoreSound'
  BY <1>1 DEF GetSound, StoreSound
<1> QED
  BY <1>10, <1>11, <1>12, <1>13 DEF Sound

LEMMA ChunksSound ==
  ASSUME Shapes, Sound, Chunks
  PROVE  Sound'
<1>1. /\ job.pc = "tail" /\ UNCHANGED <<log, validator>> /\ job'.pc = "pick"
      /\ Sets({"pc", "topic", "listed", "version", "spared"})
      /\ \E have \in Nat : /\ have <= rec[job.topic].count
                          /\ rec' = [rec EXCEPT ![job.topic].have = have]
  BY ChunksIs
<1>2. job'.todo = job.todo
  BY <1>1 DEF Sets, Fields
<1>3. job.topic \in Topics /\ rec \in [Topics -> Recs]
  BY <1>1 DEF Shapes, JobShape, RowShape
<1>4. \A t \in Topics : /\ rec'[t].count = rec[t].count /\ rec'[t].bumped = rec[t].bumped
                        /\ rec'[t].have = rec[t].have \/ rec'[t].have <= rec[t].count
  BY <1>1, <1>3 DEF Recs
<1>5. RecSound'
  BY <1>1, <1>4 DEF Sound, RecSound
<1>6. TodoSound'
  BY <1>1, <1>2, TodoShrinks DEF Sound
<1>7. ValidSound'
  BY <1>1 DEF Sound, ValidSound
<1>8. GetSound' /\ StoreSound'
  BY <1>1 DEF GetSound, StoreSound
<1> QED
  BY <1>5, <1>6, <1>7, <1>8 DEF Sound

LEMMA GetNullSound ==
  ASSUME Shapes, Sound, GetNull
  PROVE  Sound'
<1>1. /\ job.topic \in Topics /\ UNCHANGED <<log, rec>> /\ job'.pc = "pick"
      /\ Sets({"pc", "topic", "listed", "version", "spared"})
      /\ validator' = [validator EXCEPT ![job.topic] = IF etags THEN 0 ELSE @]
  BY GetNullIs
<1>2. job'.todo = job.todo
  BY <1>1 DEF Sets, Fields
<1>3. \A t \in Topics : validator'[t] = validator[t] \/ validator'[t] = 0
  BY <1>1 DEF Shapes, RowShape
<1>4. \A t : Top(log, t) \in Nat
  BY LogType, TopIs DEF Shapes
<1>5. RecSound' /\ ValidSound'
  BY <1>1, <1>3, <1>4 DEF Sound, RecSound, ValidSound
<1>6. TodoSound'
  BY <1>1, <1>2, TodoShrinks DEF Sound
<1>7. GetSound' /\ StoreSound'
  BY <1>1 DEF GetSound, StoreSound
<1> QED
  BY <1>5, <1>6, <1>7 DEF Sound

LEMMA UpsertSound ==
  ASSUME Shapes, Sound, NEW e \in job.todo, Upsert(e[1], e[2]), UNCHANGED <<log,
                                                                            validator>>,
         job'.pc \notin {"get", "store"}, job'.todo \subseteq job.todo
  PROVE  Sound'
<1> DEFINE t == e[1]
           v == e[2]
           n == Tally(log, t, v)
<1>0. t \in Topics /\ v \in Nat /\ v <= Len(log) /\ SiteShape
  BY DEF Shapes, JobShape, Jobs
<1>1. v <= Top(log, t)
  BY DEF Sound, TodoSound
<1>2. /\ rec'[t].have = n /\ rec'[t].count = n /\ rec'[t].bumped = v
      /\ \A u \in Topics \ {t} : rec'[u] = rec[u]
  BY <1>0, UpsertIs, PostsIs
<1>3. n \in Nat /\ Len(log) \in Nat
  BY <1>0, LogType, SpotIsTop
<1>4. n <= Tally(log, t, Len(log))
  <2>1. \A k \in 1 .. v : log[k] = t => k <= Len(log)
    BY <1>0, <1>3
  <2> QED
    BY <1>0, <1>3, <2>1, TallyGrows
<1> HIDE DEF n, t, v
<1>5. RecSound'
  <2> SUFFICES ASSUME NEW u \in Topics
               PROVE  /\ rec'[u].have <= rec'[u].count
                      /\ rec'[u].bumped <= Top(log, u)
                      /\ rec'[u].count <= Tally(log, u, Len(log))
                      /\ Tally(log, u, rec'[u].bumped) <= rec'[u].count
    BY DEF RecSound
  <2>1. CASE u = t
    BY <1>1, <1>2, <1>3, <1>4, <2>1 DEF n
  <2>2. CASE u # t
    <3>1. rec'[u] = rec[u]
      BY <1>2, <2>2
    <3> QED
      BY <3>1 DEF Sound, RecSound
  <2> QED
    BY <2>1, <2>2
<1>6. TodoSound'
  BY TodoShrinks DEF Sound
<1>7. ValidSound'
  BY DEF Sound, ValidSound
<1>8. GetSound' /\ StoreSound'
  BY DEF GetSound, StoreSound
<1> QED
  BY <1>5, <1>6, <1>7, <1>8 DEF Sound

\* A post moves its topic's newest up, and leaves the past as it was.
LEMMA PostGrows ==
  ASSUME Shapes, NEW x \in Topics, SitePost(x)
  PROVE  /\ \A t : Top(log, t) <= Top(log', t) /\ Top(log, t) \in Nat /\ Top(log', t) \in Nat
         /\ \A t : \A v \in 0 .. Len(log) : Tally(log', t, v) = Tally(log, t, v)
         /\ \A t : Tally(log, t, Len(log)) <= Tally(log', t, Len(log'))
         /\ \A t : Tally(log, t, Len(log)) \in Nat /\ Tally(log', t, Len(log')) \in Nat
<1>1. /\ log \in Seq(Topics) /\ log' = Append(log, x) /\ Len(log') = Len(log) + 1
      /\ Len(log) \in Nat /\ Top(log', x) = Len(log) + 1
      /\ \A t : t # x => Top(log', t) = Top(log, t)
  BY SitePostIs DEF Shapes, SiteShape
<1>2. \A t : Top(log, t) \in Nat /\ Top(log, t) <= Len(log)
  BY <1>1, TopIs
<1>3. \A t : Top(log, t) <= Top(log', t) /\ Top(log', t) \in Nat
  BY <1>1, <1>2
<1>4. \A t : \A v \in 0 .. Len(log) : Tally(log', t, v) = Tally(log, t, v)
  BY <1>1, AppendTally
<1>5. ASSUME NEW t
      PROVE  /\ Tally(log, t, Len(log)) <= Tally(log', t, Len(log'))
             /\ Tally(log, t, Len(log)) \in Nat /\ Tally(log', t, Len(log')) \in Nat
  <2>1. Tally(log', t, Len(log)) = Tally(log, t, Len(log))
    BY <1>1, <1>4
  <2>2. \A k \in 1 .. Len(log) : log'[k] = t => k <= Len(log')
    BY <1>1
  <2>3. Tally(log', t, Len(log)) <= Tally(log', t, Len(log'))
    BY <1>1, <2>2, TallyGrows
  <2>4. Tally(log, t, Len(log)) \in Nat /\ Tally(log', t, Len(log')) \in Nat
    BY <1>1, SpotsType
  <2> QED
    BY <2>1, <2>3, <2>4
<1> QED
  BY <1>2, <1>3, <1>4, <1>5

LEMMA SitePostSound ==
  ASSUME Shapes, Sound, NEW x \in Topics, SitePost(x)
  PROVE  Sound'
<1>0. SiteShape /\ RowShape /\ JobShape
  BY DEF Shapes
<1>1. /\ Len(log') = Len(log) + 1 /\ Len(log) \in Nat
      /\ UNCHANGED <<rec, validator, job, base, promised>>
      /\ \A k \in 1 .. Len(log) : log'[k] = log[k]
  BY SitePostIs
<1>2. /\ \A t : Top(log, t) <= Top(log', t) /\ Top(log, t) \in Nat /\ Top(log', t) \in Nat
      /\ \A t : \A v \in 0 .. Len(log) : Tally(log', t, v) = Tally(log, t, v)
      /\ \A t : Tally(log, t, Len(log)) <= Tally(log', t, Len(log'))
      /\ \A t : Tally(log, t, Len(log)) \in Nat /\ Tally(log', t, Len(log')) \in Nat
  BY PostGrows
<1>3. RecSound'
  <2> SUFFICES ASSUME NEW t \in Topics
               PROVE  /\ rec[t].have <= rec[t].count
                      /\ rec[t].bumped <= Top(log', t)
                      /\ rec[t].count <= Tally(log', t, Len(log'))
                      /\ Tally(log', t, rec[t].bumped) <= rec[t].count
    BY <1>1 DEF RecSound
  <2>1. rec[t].bumped \in Nat /\ rec[t].bumped <= Len(log) /\ rec[t].count \in Nat
    BY <1>0 DEF RowShape, Recs
  <2>2. /\ rec[t].have <= rec[t].count /\ rec[t].bumped <= Top(log, t)
        /\ rec[t].count <= Tally(log, t, Len(log))
        /\ Tally(log, t, rec[t].bumped) <= rec[t].count
    BY DEF Sound, RecSound
  <2>3. Tally(log', t, rec[t].bumped) = Tally(log, t, rec[t].bumped)
    BY <1>1, <1>2, <2>1
  <2>4. rec[t].bumped <= Top(log', t)
    BY <1>2, <2>1, <2>2
  <2>5. rec[t].count <= Tally(log', t, Len(log'))
    BY <1>2, <2>1, <2>2
  <2> QED
    BY <2>2, <2>3, <2>4, <2>5
<1>4. TodoSound'
  <2>1. \A e \in job.todo : e[2] \in Nat
    BY <1>0 DEF JobShape, Jobs
  <2>2. \A e \in job.todo : e[2] <= Top(log, e[1])
    BY DEF Sound, TodoSound
  <2>3. ASSUME NEW e \in job.todo PROVE e[2] <= Top(log', e[1])
    BY <1>2, <2>1, <2>2
  <2> QED
    BY <1>1, <2>3 DEF Sound, TodoSound
<1>5. ValidSound'
  <2> SUFFICES ASSUME NEW t \in Topics PROVE validator[t] <= Top(log', t)
    BY <1>1 DEF ValidSound
  <2>1. validator[t] \in Nat /\ validator[t] <= Top(log, t)
    BY <1>0 DEF RowShape, Sound, ValidSound
  <2> QED
    BY <1>2, <2>1
<1>6. GetSound'
  <2> SUFFICES ASSUME job.pc = "get" PROVE job.listed <= Top(log', job.topic)
    BY <1>1 DEF GetSound
  <2>1. job.listed \in Nat /\ job.listed <= Top(log, job.topic)
    BY <1>0 DEF JobShape, Jobs, Sound, GetSound
  <2> QED
    BY <1>2, <2>1
<1>7. StoreSound'
  <2> SUFFICES ASSUME job.pc = "store"
               PROVE  /\ job.version <= Top(log', job.topic)
                      /\ job.listed <= job.version
                      /\ validator[job.topic] <= job.version
                      /\ rec[job.topic].count <= Tally(log', job.topic, job.version)
                      /\ rec[job.topic].bumped <= job.version
                      /\ \A k \in 1 .. Len(log') : log'[k] = job.topic /\ k > job.version
                                        => k > base /\ k > promised /\ k > job.newest
    BY <1>1 DEF StoreSound
  <2>1. /\ job.version \in Nat /\ job.version <= Len(log)
        /\ job.newest \in Nat /\ job.newest <= Len(log) /\ base \in Nat /\ base <= Len(log)
        /\ promised \in Nat /\ promised <= Len(log)
    BY <1>0 DEF JobShape, RowShape, Jobs
  <2>2. /\ job.version <= Top(log, job.topic) /\ job.listed <= job.version
        /\ validator[job.topic] <= job.version
        /\ rec[job.topic].count <= Tally(log, job.topic, job.version)
        /\ rec[job.topic].bumped <= job.version
        /\ \A k \in 1 .. Len(log) : log[k] = job.topic /\ k > job.version
                                        => k > base /\ k > promised /\ k > job.newest
    BY DEF Sound, StoreSound
  <2>3. job.version <= Top(log', job.topic)
    BY <1>2, <2>1, <2>2
  <2>4. Tally(log', job.topic, job.version) = Tally(log, job.topic, job.version)
    BY <1>1, <1>2, <2>1
  <2>5. ASSUME NEW k \in 1 .. Len(log'), log'[k] = job.topic, k > job.version
        PROVE  k > base /\ k > promised /\ k > job.newest
    <3>1. CASE k = Len(log) + 1
      BY <1>1, <2>1, <3>1
    <3>2. CASE k \in 1 .. Len(log)
      BY <1>1, <2>2, <2>5, <3>2
    <3> QED
      BY <1>1, <3>1, <3>2
  <2> QED
    BY <2>2, <2>3, <2>4, <2>5
<1> QED
  BY <1>3, <1>4, <1>5, <1>6, <1>7 DEF Sound

\* A job that starts, or ends, has nothing listed.
LEMMA StartsSound ==
  ASSUME Sound, UNCHANGED <<log, rec, validator>>, job'.pc \notin {"get", "store"},
         job'.todo = {}
  PROVE  Sound'
<1>1. TodoSound'
  BY DEF TodoSound
<1> QED
  BY <1>1, QuietSound

LEMMA DiscourseSound ==
  ASSUME Shapes, Sound, kind = "discourse", DiscourseNext
  PROVE  Sound'
<1>0. /\ SiteShape /\ RowShape /\ CursorShape /\ JobShape /\ TodoSound
      /\ cursor \in Cursors /\ cursor.done \in SUBSET Categories
  BY DEF Shapes, CursorShape, Cursors, Sound
<1>1. CASE \E e \in job.todo : Pick(e)
  BY <1>1, PickSound
<1>2. CASE BeginBackfill
  <2>1. job' = Enter(cursor.done) /\ UNCHANGED <<log, rec, validator>>
    BY <1>2, BeginBackfillIs
  <2>2. job'.pc \in {"finish", "list"} /\ job'.todo = {}
    BY <1>0, <2>1, EnterIs, IdleType DEF Fields
  <2> QED
    BY <2>1, <2>2, StartsSound
<1>3. CASE ListPageOf
  <2>1. UNCHANGED <<log, rec, validator>> /\ job.category \in Categories
    BY <1>3, ListPageOfIs
  <2>2. CASE job' = Enter(cursor.done \cup {job.category})
    <3> DEFINE D == cursor.done \cup {job.category}
    <3>1. D \in SUBSET Categories /\ job' = Enter(D)
      BY <1>0, <2>1, <2>2
    <3> HIDE DEF D
    <3>2. job'.pc \in {"finish", "list"} /\ job'.todo = {}
      BY <1>0, <3>1, EnterIs, IdleType DEF Fields
    <3> QED
      BY <2>1, <3>2, StartsSound
  <2>3. CASE /\ job'.pc = "pick"
             /\ job'.todo = {<<t, Bump(t)>> : t \in Listing(job.category, job.page)}
    <3> DEFINE L == Listing(job.category, job.page)
    <3>1. L \in SUBSET Topics /\ job'.todo = {<<t, Bump(t)>> : t \in L}
      BY <2>3 DEF Listing
    <3> HIDE DEF L
    <3>2. TodoSound'
      BY <2>1, <3>1, TodoListed
    <3> QED
      BY <2>1, <2>3, <3>2, QuietSound
  <2> QED
    BY <1>3, <2>2, <2>3, ListPageOfIs
<1>4. CASE PageDone
  <2>1. UNCHANGED <<log, rec, validator>> /\ job'.pc = "list" /\ job'.todo = {}
    BY <1>4, PageDoneIs DEF Sets, Fields
  <2> QED
    BY <2>1, StartsSound
<1>5. CASE StopBackfill
  <2>1. UNCHANGED <<log, rec, validator>> /\ job'.pc = "idle" /\ job'.todo = {}
    BY <1>5, StopBackfillIs, IdleType DEF Starts, Fields
  <2> QED
    BY <2>1, StartsSound
<1>6. CASE EndBackfill
  <2>1. UNCHANGED <<log, rec, validator>> /\ job'.pc = "idle" /\ job'.todo = {}
    BY <1>6, EndBackfillIs, IdleType DEF Starts, Fields
  <2> QED
    BY <2>1, StartsSound
<1>7. CASE Unchanged
  <2>1. UNCHANGED <<log, rec, validator>> /\ job'.pc = "pick" /\ job'.todo = job.todo
    BY <1>7, UnchangedIs DEF Sets, Fields
  <2> QED
    BY <1>0, <2>1, TodoShrinks, QuietSound
<1>8. CASE Get
  BY <1>8, GetIsSound
<1>9. CASE GetFails
  <2>1. UNCHANGED <<log, rec, validator>> /\ job'.pc = "pick" /\ job'.todo = job.todo
    BY <1>9, GetFailsIs DEF Sets, Fields
  <2> QED
    BY <1>0, <2>1, TodoShrinks, QuietSound
<1>10. CASE Store
  BY <1>10, StoreIsSound
<1>11. CASE Chunks
  BY <1>11, ChunksSound
<1>12. CASE ChunkFails
  <2>1. UNCHANGED <<log, rec, validator>> /\ job'.pc = "pick" /\ job'.todo = job.todo
    BY <1>12, ChunkFailsIs DEF Sets, Fields
  <2> QED
    BY <1>0, <2>1, TodoShrinks, QuietSound
<1>13. CASE BeginUpdate
  <2>1. UNCHANGED <<log, rec, validator>> /\ job'.pc = "posts" /\ job'.todo = {}
    BY <1>13, BeginUpdateIs, IdleType DEF Starts, Fields
  <2> QED
    BY <2>1, StartsSound
<1>14. CASE NewPosts
  <2> DEFINE S == {log[k] : k \in Fresh}
  <2>1. UNCHANGED <<log, rec, validator>> /\ job'.pc = "latest" /\ S \in SUBSET Topics
    BY <1>0, <1>14, NewPostsIs, LogType DEF Fresh
  <2>2. job'.todo = {<<t, 0>> : t \in S}
    BY <1>14, NewPostsIs
  <2> HIDE DEF S
  <2>3. TodoSound'
    BY <2>1, <2>2, TodoUndated
  <2> QED
    BY <2>1, <2>3, QuietSound
<1>15. CASE Latest
  <2>1. /\ UNCHANGED <<log, rec, validator>> /\ job'.pc = "pick" /\ Moved \subseteq Topics
        /\ job'.todo = {e \in job.todo : e[1] \notin Moved} \cup {<<t, Bump(t)>> : t \in Moved}
    BY <1>15, LatestIs
  <2>2. \A t \in Moved : Bump(t) = Top(log, t) /\ Bump(t) \in Nat
    BY <1>0, BumpIs, BumpType
  <2>3. TodoSound'
    BY <1>0, <2>1, <2>2 DEF TodoSound
  <2> QED
    BY <2>1, <2>3, QuietSound
<1>16. CASE EndUpdate
  <2>1. UNCHANGED <<log, rec, validator>> /\ job'.pc = "idle" /\ job'.todo = {}
    BY <1>16, EndUpdateIs, IdleType DEF Starts, Fields
  <2> QED
    BY <2>1, StartsSound
<1>17. CASE BeginRepair
  <2> DEFINE S == {u \in Topics : Incomplete(u)}
  <2>1. /\ UNCHANGED <<log, rec, validator>> /\ job'.pc = "pick" /\ S \in SUBSET Topics
        /\ job'.todo = {<<t, 0>> : t \in S}
    BY <1>17, BeginRepairIs
  <2> HIDE DEF S
  <2>3. TodoSound'
    BY <2>1, TodoUndated
  <2> QED
    BY <2>1, <2>3, QuietSound
<1>18. CASE EndRepair
  <2>1. UNCHANGED <<log, rec, validator>> /\ job'.pc = "idle" /\ job'.todo = {}
    BY <1>18, EndRepairIs, IdleType DEF Starts, Fields
  <2> QED
    BY <2>1, StartsSound
<1>19. CASE StopRepair
  <2>1. UNCHANGED <<log, rec, validator>> /\ job'.pc = "idle" /\ job'.todo = {}
    BY <1>19, StopRepairIs, IdleType DEF Starts, Fields
  <2> QED
    BY <2>1, StartsSound
<1>20. CASE ListNull
  <2> DEFINE D == cursor.done \cup {job.category}
  <2>1. UNCHANGED <<log, rec, validator>> /\ D \in SUBSET Categories /\ job' = Enter(D)
    BY <1>0, <1>20, ListNullIs
  <2> HIDE DEF D
  <2>2. job'.pc \in {"finish", "list"} /\ job'.todo = {}
    BY <1>0, <2>1, EnterIs, IdleType DEF Fields
  <2> QED
    BY <2>1, <2>2, StartsSound
<1>21. CASE GetNull
  BY <1>21, GetNullSound
<1>22. CASE UpdateNull
  <2>1. /\ UNCHANGED <<log, rec, validator>> /\ job'.pc \in {"latest", "pick"}
        /\ job'.todo = job.todo
    BY <1>22, UpdateNullIs DEF Sets, Fields
  <2> QED
    BY <1>0, <2>1, TodoShrinks, QuietSound
<1> QED
  BY <1>1, <1>2, <1>3, <1>4, <1>5, <1>6, <1>7, <1>8, <1>9, <1>10, <1>11, <1>12, <1>13,
       <1>14, <1>15, <1>16, <1>17, <1>18, <1>19, <1>20, <1>21, <1>22 DEF DiscourseNext

\* The pages of the other two kinds
LEMMA PagesListed ==
  /\ \A p : Above(p) \in SUBSET Topics
  /\ \A p : Below(p) \in SUBSET Topics
  /\ \A v, n : \E S \in SUBSET Topics : Slice(v, n) = {<<t, Bump(t)>> : t \in S}
<1>1. \A p : Above(p) \in SUBSET Topics /\ Below(p) \in SUBSET Topics
  BY DEF Above, Below, Between
<1>2. ASSUME NEW v, NEW n
      PROVE  \E S \in SUBSET Topics : Slice(v, n) = {<<t, Bump(t)>> : t \in S}
  <2> DEFINE U == {u \in {t \in Created : Bump(t) > v} :
                    Cardinality({w \in {t \in Created : Bump(t) > v} : Bump(w) < Bump(u)})
                        \in n .. n + QueryPage - 1}
  <2>1. U \in SUBSET Topics
    BY DEF Created
  <2>2. Slice(v, n) = {<<t, Bump(t)>> : t \in U}
    BY DEF Slice
  <2> HIDE DEF U
  <2> QED
    BY <2>1, <2>2
<1> QED
  BY <1>1, <1>2

LEMMA GithubSound ==
  ASSUME Shapes, Sound, kind = "github", GithubNext
  PROVE  Sound'
<1>0. SiteShape /\ RowShape /\ CursorShape /\ JobShape /\ TodoSound
  BY DEF Shapes, Sound
<1>1. CASE BeginRepo
  <2>1. UNCHANGED <<log, rec, validator>> /\ job'.pc = "list" /\ job'.todo = {}
    BY <1>1, BeginRepoIs, IdleType DEF Starts, Fields
  <2> QED
    BY <2>1, StartsSound
<1>2. CASE RepoPage
  <2>1. UNCHANGED <<log, rec, validator>> /\ job'.pc \in {"end", "item"}
    BY <1>2, RepoPageIs
  <2>2. job'.todo = job.todo \/ job'.todo = Listed(Above(job.after))
    BY <1>2, RepoPageIs DEF Sets, Fields
  <2> DEFINE S == Above(job.after)
  <2>3. S \in SUBSET Topics
    BY PagesListed
  <2>4. job'.todo = job.todo \/ job'.todo = {<<t, Bump(t)>> : t \in S}
    BY <2>2 DEF Listed
  <2> HIDE DEF S
  <2>5. TodoSound'
    BY <1>0, <2>1, <2>3, <2>4, TodoListed, TodoShrinks
  <2> QED
    BY <2>1, <2>5, QuietSound
<1>3. CASE RepoItem
  <2>1. PICK e \in job.todo : /\ Upsert(e[1], e[2]) /\ job.pc = "item" /\ Sets({"todo"})
                              /\ job'.todo = job.todo \ {e} /\ UNCHANGED <<log, validator>>
    BY <1>3, RepoItemIs
  <2>2. job'.pc = "item" /\ job'.todo \subseteq job.todo
    BY <2>1 DEF Sets, Fields
  <2> QED
    BY <2>1, <2>2, UpsertSound
<1>4. CASE RepoStop
  <2>1. UNCHANGED <<log, rec, validator>> /\ job'.pc = "idle" /\ job'.todo = {}
    BY <1>4, RepoStopIs, IdleType DEF Starts, Fields
  <2> QED
    BY <2>1, StartsSound
<1>5. CASE RepoPageDone
  <2>1. UNCHANGED <<log, rec, validator>> /\ job'.pc \in {"list", "end"} /\ job'.todo = {}
    BY <1>5, RepoPageDoneIs DEF Sets, Fields
  <2> QED
    BY <2>1, StartsSound
<1>6. CASE EndRepo
  <2>1. UNCHANGED <<log, rec, validator>> /\ job'.pc = "idle" /\ job'.todo = {}
    BY <1>6, EndRepoIs, IdleType DEF Starts, Fields
  <2> QED
    BY <2>1, StartsSound
<1>7. CASE BeginRepoUpdate
  <2>1. UNCHANGED <<log, rec, validator>> /\ job'.pc = "list" /\ job'.todo = {}
    BY <1>7, BeginRepoUpdateIs, IdleType DEF Starts, Fields
  <2> QED
    BY <2>1, StartsSound
<1>8. CASE NewestPage
  <2> DEFINE S == Below(job.after)
  <2>1. /\ UNCHANGED <<log, rec, validator>> /\ job'.pc \in {"end", "item"}
        /\ job'.todo = {<<t, Bump(t)>> : t \in S} /\ S \in SUBSET Topics
    BY <1>8, NewestPageIs, PagesListed DEF Listed
  <2> HIDE DEF S
  <2>2. TodoSound'
    BY <2>1, TodoListed
  <2> QED
    BY <2>1, <2>2, QuietSound
<1>9. CASE NewestItem
  <2>1. PICK e \in job.todo :
           /\ job.pc = "item" /\ UNCHANGED <<log, validator>>
           /\ \/ Sets({"pc", "todo"}) /\ job'.pc = "end" /\ job'.todo = {} /\ rec' = rec
              \/ /\ Upsert(e[1], e[2])
                 /\ Sets({"todo", "newest", "after"}) /\ job'.todo = job.todo \ {e}
    BY <1>9, NewestItemIs
  <2>2. CASE job'.pc = "end" /\ job'.todo = {} /\ rec' = rec
    BY <2>1, <2>2, StartsSound
  <2>3. CASE /\ Upsert(e[1], e[2])
             /\ Sets({"todo", "newest", "after"}) /\ job'.todo = job.todo \ {e}
    <3>1. job'.pc = "item" /\ job'.todo \subseteq job.todo
      BY <2>1, <2>3 DEF Sets, Fields
    <3> QED
      BY <2>1, <2>3, <3>1, UpsertSound
  <2> QED
    BY <2>1, <2>2, <2>3
<1>10. CASE NewestPageDone
  <2>1. UNCHANGED <<log, rec, validator>> /\ job'.pc \in {"list", "end"} /\ job'.todo = {}
    BY <1>10, NewestPageDoneIs DEF Sets, Fields
  <2> QED
    BY <2>1, StartsSound
<1>11. CASE EndRepoUpdate
  <2>1. UNCHANGED <<log, rec, validator>> /\ job'.pc = "idle" /\ job'.todo = {}
    BY <1>11, EndRepoUpdateIs, IdleType DEF Starts, Fields
  <2> QED
    BY <2>1, StartsSound
<1> QED
  BY <1>1, <1>2, <1>3, <1>4, <1>5, <1>6, <1>7, <1>8, <1>9, <1>10, <1>11 DEF GithubNext

LEMMA SnapshotSound ==
  ASSUME Shapes, Sound, kind = "snapshot", SnapshotNext
  PROVE  Sound'
<1>0. SiteShape /\ RowShape /\ CursorShape /\ JobShape /\ TodoSound
  BY DEF Shapes, Sound
<1>1. CASE BeginSpace
  <2>1. UNCHANGED <<log, rec, validator>> /\ job'.pc = "list" /\ job'.todo = {}
    BY <1>1, BeginSpaceIs, IdleType DEF Starts, Fields
  <2> QED
    BY <2>1, StartsSound
<1>2. CASE BeginSpaceUpdate
  <2>1. UNCHANGED <<log, rec, validator>> /\ job'.pc = "list" /\ job'.todo = {}
    BY <1>2, BeginSpaceUpdateIs, IdleType DEF Starts, Fields
  <2> QED
    BY <2>1, StartsSound
<1>3. CASE SpacePage
  <2>1. /\ UNCHANGED <<log, rec, validator>> /\ job'.pc \in {"item", "end"}
        /\ job'.todo = Slice(job.version, job.skip)
    BY <1>3, SpacePageIs
  <2>2. PICK S \in SUBSET Topics : Slice(job.version, job.skip) = {<<t, Bump(t)>> : t \in S}
    BY PagesListed
  <2>3. TodoSound'
    BY <2>1, <2>2, TodoListed
  <2> QED
    BY <2>1, <2>3, QuietSound
<1>4. CASE SpaceItem
  <2>1. PICK e \in job.todo : /\ Upsert(e[1], e[2]) /\ job.pc = "item"
                              /\ Sets({"todo", "newest"})
                              /\ job'.todo = job.todo \ {e} /\ UNCHANGED <<log, validator>>
    BY <1>4, SpaceItemIs
  <2>2. job'.pc = "item" /\ job'.todo \subseteq job.todo
    BY <2>1 DEF Sets, Fields
  <2> QED
    BY <2>1, <2>2, UpsertSound
<1>5. CASE SpaceStop
  <2>1. UNCHANGED <<log, rec, validator>> /\ job'.pc = "idle" /\ job'.todo = {}
    BY <1>5, SpaceStopIs, IdleType DEF Starts, Fields
  <2> QED
    BY <2>1, StartsSound
<1>6. CASE SpacePageDone
  <2>1. UNCHANGED <<log, rec, validator>> /\ job'.pc \in {"list", "end"} /\ job'.todo = {}
    BY <1>6, SpacePageDoneIs DEF Sets, Fields
  <2> QED
    BY <2>1, StartsSound
<1>7. CASE EndSpace
  <2>1. UNCHANGED <<log, rec, validator>> /\ job'.pc = "idle" /\ job'.todo = {}
    BY <1>7, EndSpaceIs, IdleType DEF Starts, Fields
  <2> QED
    BY <2>1, StartsSound
<1>8. CASE EndSpaceUpdate
  <2>1. UNCHANGED <<log, rec, validator>> /\ job'.pc = "idle" /\ job'.todo = {}
    BY <1>8, EndSpaceUpdateIs, IdleType DEF Starts, Fields
  <2> QED
    BY <2>1, StartsSound
<1> QED
  BY <1>1, <1>2, <1>3, <1>4, <1>5, <1>6, <1>7, <1>8 DEF SnapshotNext

LEMMA NextSound == Shapes /\ Sound /\ [Next]_vars => Sound'
<1> SUFFICES ASSUME Shapes, Sound, [Next]_vars PROVE Sound'
  OBVIOUS
<1>1. CASE \E t \in Topics : SitePost(t)
  BY <1>1, SitePostSound
<1>2. CASE Lose
  <2>1. UNCHANGED <<log, rec, validator>> /\ job'.pc = "idle" /\ job'.todo = {}
    BY <1>2, LoseIs, IdleType DEF Starts, Fields
  <2> QED
    BY <2>1, StartsSound
<1>3. CASE DiscourseNext
  BY <1>3, DiscourseSound DEF DiscourseNext
<1>4. CASE GithubNext
  BY <1>4, GithubSound DEF GithubNext
<1>5. CASE SnapshotNext
  BY <1>5, SnapshotSound DEF SnapshotNext
<1>6. CASE UNCHANGED vars
  BY <1>6 DEF vars, cache, forum, history, Sound, RecSound, TodoSound, ValidSound, GetSound,
     StoreSound
<1> QED
  BY <1>1, <1>2, <1>3, <1>4, <1>5, <1>6 DEF Next

LEMMA ShapesAreType ==
  ASSUME Shapes, Sound
  PROVE  TypeOK
<1>1. /\ SiteShape /\ RowShape /\ CursorShape /\ JobShape /\ Len(log) \in Nat
  BY LogType DEF Shapes
<1>2. ASSUME NEW t \in Topics
      PROVE  /\ rec[t].have \in 0 .. rec[t].count /\ rec[t].bumped \in 0 .. Len(log)
             /\ validator[t] \in 0 .. Len(log)
  BY <1>1 DEF RowShape, Recs, Sound, RecSound
<1>3. cursor.done \subseteq Categories /\ job.mode \in {"idle", "backfill", "update", "repair"}
  BY <1>1 DEF CursorShape, Cursors, JobShape, Jobs
<1>4. mark \in 0 .. Len(log) /\ {base, promised} \subseteq 0 .. Len(log)
  BY <1>1 DEF RowShape
<1> QED
  BY <1>1, <1>2, <1>3, <1>4 DEF TypeOK, SiteShape, RowShape

\* TypeOK of KbForum: rows, cursor, watermark and job keep their types, and no
\* row, validator or watermark is ahead of what the site has.
THEOREM TypeCorrect == Spec => []TypeOK
<1>1. Init => Shapes /\ Sound
  BY InitShapes, InitSound
<1>2. Shapes /\ Sound /\ [Next]_vars => Shapes' /\ Sound'
  BY NextShapes, NextSound
<1>3. Shapes /\ Sound => TypeOK
  BY ShapesAreType
<1> QED
  BY <1>1, <1>2, <1>3, PTL DEF Spec
=============================================================================
