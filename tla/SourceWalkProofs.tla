--------------------------- MODULE SourceWalkProofs ---------------------------
(***************************************************************************)
(* Theorems about SourceWalk, for a source of any kind with any number of  *)
(* items and pages, and any overlap.                                       *)
(***************************************************************************)
EXTENDS SourceWalk, FiniteSetTheorems, WellFoundedInduction, TLAPS

-----------------------------------------------------------------------------
\* Sets of numbers have a least element, bounded ones a greatest.
LEMMA FirstExists ==
  ASSUME NEW S \in SUBSET Nat, S # {}
  PROVE  \E m \in S : \A n \in S : m <= n
<1> DEFINE R == OpToRel(<, Nat)
<1>1. IsWellFoundedOn(R, Nat)
  BY NatLessThanWellFounded
<1>2. \A m, n \in Nat : m < n => <<m, n>> \in R
  BY DEF OpToRel
<1> HIDE DEF R
<1>3. PICK m \in S : \A n \in S : ~(<<n, m>> \in R)
  BY <1>1, WFMin
<1>4. \A n \in S : ~(n < m)
  BY <1>2, <1>3
<1>5. \A n \in S : m <= n
  BY <1>4
<1> QED
  BY <1>5

LEMMA LastExists ==
  ASSUME NEW S \in SUBSET Nat, S # {}, NEW b \in Nat, \A n \in S : n <= b
  PROVE  \E m \in S : \A n \in S : n <= m
<1> DEFINE T == {k \in Nat : b - k \in S}
<1>1. \A n \in S : b - n \in T
  <2> SUFFICES ASSUME NEW n \in S PROVE b - n \in T
    OBVIOUS
  <2>1. n \in Nat /\ n <= b
    OBVIOUS
  <2>2. b - n \in Nat /\ b - (b - n) = n
    BY <2>1
  <2> QED
    BY <2>2
<1>2. T \in SUBSET Nat /\ T # {}
  BY <1>1
<1>3. PICK k \in T : \A n \in T : k <= n
  BY <1>2, FirstExists
<1>4. k \in Nat /\ b - k \in S
  BY <1>3
<1>5. \A n \in S : n <= b - k
  <2> SUFFICES ASSUME NEW n \in S PROVE n <= b - k
    OBVIOUS
  <2>1. n \in Nat /\ k <= b - n
    BY <1>1, <1>3
  <2> QED
    BY <1>4, <2>1
<1> QED
  BY <1>4, <1>5

-----------------------------------------------------------------------------
(***************************************************************************)
(* Ranks.  A listing orders its items totally, and their ranks are the     *)
(* numbers from 0 on without a gap.                                        *)
(***************************************************************************)
Listing(d) == /\ IsFiniteSet(DOMAIN d) /\ DOMAIN d \subseteq Nat
              /\ \A i \in DOMAIN d : d[i] \in Nat

LEMMA BeforeIsOrder ==
  ASSUME NEW d, Listing(d)
  PROVE  /\ \A i \in DOMAIN d : ~Before(d, i, i)
         /\ \A i, j \in DOMAIN d : Before(d, i, j) => d[i] >= d[j] /\ i # j
         /\ \A i, j \in DOMAIN d : i # j => Before(d, i, j) \/ Before(d, j, i)
         /\ \A i, j, k \in DOMAIN d : Before(d, i, j) /\ Before(d, j, k) => Before(d, i, k)
  BY DEF Listing, Before

Ahead(d, i) == {j \in DOMAIN d : Before(d, j, i)}

LEMMA RankType ==
  ASSUME NEW d, Listing(d), NEW i
  PROVE  /\ IsFiniteSet(Ahead(d, i)) /\ Rank(d, i) = Cardinality(Ahead(d, i))
         /\ Rank(d, i) \in Nat
<1>1. IsFiniteSet(Ahead(d, i))
  BY FS_Subset DEF Listing, Ahead
<1> QED
  BY <1>1, FS_CardinalityType DEF Rank, Ahead

LEMMA RankOrder ==
  ASSUME NEW d, Listing(d), NEW i \in DOMAIN d, NEW j \in DOMAIN d
  PROVE  Before(d, i, j) <=> Rank(d, i) < Rank(d, j)
<1>1. ASSUME NEW x \in DOMAIN d, NEW y \in DOMAIN d, Before(d, x, y)
      PROVE  Rank(d, x) < Rank(d, y)
  <2>1. Ahead(d, x) \cup {x} \subseteq Ahead(d, y) /\ x \notin Ahead(d, x)
    BY <1>1, BeforeIsOrder DEF Ahead
  <2>2. /\ IsFiniteSet(Ahead(d, x) \cup {x})
        /\ Cardinality(Ahead(d, x) \cup {x}) = Rank(d, x) + 1
    BY <2>1, RankType, FS_AddElement
  <2>3. Cardinality(Ahead(d, x) \cup {x}) <= Rank(d, y)
    BY <2>1, RankType, FS_Subset
  <2> QED
    BY <2>2, <2>3, RankType
<1>2. i = j => ~Before(d, i, j) /\ ~(Rank(d, i) < Rank(d, j))
  BY BeforeIsOrder, RankType
<1>3. i # j => Before(d, i, j) \/ Before(d, j, i)
  BY BeforeIsOrder
<1>4. Before(d, j, i) => ~(Rank(d, i) < Rank(d, j))
  BY <1>1, RankType
<1> QED
  BY <1>1, <1>2, <1>3, <1>4

\* An item that others are listed before has one right before it.
LEMMA RankBelow ==
  ASSUME NEW d, Listing(d), NEW j \in DOMAIN d, Rank(d, j) > 0
  PROVE  \E y \in DOMAIN d : Rank(d, y) = Rank(d, j) - 1
<1>0. Rank(d, j) \in Nat
  BY RankType
<1> DEFINE R == {Rank(d, y) : y \in Ahead(d, j)}
<1>1. R \in SUBSET Nat /\ \A n \in R : n <= Rank(d, j)
  <2>1. ASSUME NEW y \in Ahead(d, j) PROVE Rank(d, y) \in Nat /\ Rank(d, y) <= Rank(d, j)
    <3>1. y \in DOMAIN d /\ Before(d, y, j) /\ Rank(d, y) \in Nat
      BY <2>1, RankType DEF Ahead
    <3> QED
      BY <3>1, <1>0, RankOrder
  <2> QED
    BY <2>1
<1>2. R # {}
  <2>1. Ahead(d, j) # {}
    BY RankType, FS_EmptySet
  <2> QED
    BY <2>1
<1>3. PICK m \in R : \A n \in R : n <= m
  BY <1>0, <1>1, <1>2, LastExists
<1>4. PICK y \in Ahead(d, j) : Rank(d, y) = m
  BY <1>3
<1>5. y \in DOMAIN d /\ Before(d, y, j)
  BY <1>4 DEF Ahead
<1>6. Ahead(d, y) = Ahead(d, j) \ {y}
  <2>1. ASSUME NEW x \in Ahead(d, y) PROVE x \in Ahead(d, j) /\ x # y
    BY <2>1, <1>5, BeforeIsOrder DEF Ahead
  <2>2. ASSUME NEW x \in Ahead(d, j), x # y PROVE x \in Ahead(d, y)
    <3>1. x \in DOMAIN d /\ Rank(d, x) <= Rank(d, y) /\ Rank(d, x) \in Nat /\ Rank(d, y) \in Nat
      BY <1>3, <1>4, RankType DEF Ahead
    <3>2. ~Before(d, y, x)
      BY <3>1, <1>5, RankOrder
    <3> QED
      BY <3>1, <3>2, <2>2, <1>5, BeforeIsOrder DEF Ahead
  <2> QED
    BY <2>1, <2>2
<1>7. Rank(d, y) = Rank(d, j) - 1
  BY <1>4, <1>6, RankType, FS_RemoveElement
<1> QED
  BY <1>5, <1>7

LEMMA RankFill ==
  ASSUME NEW d, Listing(d), NEW j \in DOMAIN d, NEW n \in Nat, n <= Rank(d, j)
  PROVE  \E y \in DOMAIN d : Rank(d, y) = n
<1> DEFINE R == {m \in Nat : n <= m /\ \E y \in DOMAIN d : Rank(d, y) = m}
<1>1. R \in SUBSET Nat /\ R # {}
  BY RankType
<1>2. PICK m \in R : \A k \in R : m <= k
  BY <1>1, FirstExists
<1>3. PICK x \in DOMAIN d : Rank(d, x) = m
  BY <1>2
<1>4. CASE m = n
  BY <1>3, <1>4
<1>5. CASE m # n
  <2>1. m \in Nat /\ n < m
    BY <1>2, <1>5
  <2>2. PICK y \in DOMAIN d : Rank(d, y) = m - 1
    BY <1>3, <2>1, RankBelow
  <2>3. m - 1 \in R
    BY <2>1, <2>2
  <2> QED
    BY <1>2, <2>1, <2>3
<1> QED
  BY <1>4, <1>5

-----------------------------------------------------------------------------
(***************************************************************************)
(* A listing moves: one item is new, or gets a later date.  The others     *)
(* never move up, and a page that loses something gets something else.     *)
(***************************************************************************)
Moves(d, e, i) ==
    /\ Listing(d) /\ Listing(e)
    /\ DOMAIN e = DOMAIN d \cup {i}
    /\ \A j \in DOMAIN d \ {i} : e[j] = d[j]
    /\ i \in DOMAIN d => e[i] > d[i]

\* Moving, i overtakes j.
Overtakes(d, e, i, j) == Before(e, i, j) /\ ~(i \in DOMAIN d /\ Before(d, i, j))

LEMMA RankMoves ==
  ASSUME NEW d, NEW e, NEW i, Moves(d, e, i), NEW j \in DOMAIN d, j # i
  PROVE  /\ j \in DOMAIN e /\ e[j] = d[j]
         /\ Rank(e, j) = IF Overtakes(d, e, i, j) THEN Rank(d, j) + 1 ELSE Rank(d, j)
         /\ Rank(d, j) \in Nat
<1>0. /\ Listing(d) /\ Listing(e) /\ DOMAIN e = DOMAIN d \cup {i} /\ i \in DOMAIN e
      /\ j \in DOMAIN e /\ e[j] = d[j] /\ i \in Nat /\ j \in Nat
      /\ d[j] \in Nat /\ e[i] \in Nat
      /\ i \in DOMAIN d => d[i] \in Nat /\ e[i] > d[i]
  BY DEF Moves, Listing
<1>1. \A k \in DOMAIN d \ {i} : Before(e, k, j) <=> Before(d, k, j)
  BY <1>0 DEF Moves, Before
<1>2. i \in DOMAIN d /\ Before(d, i, j) => Before(e, i, j)
  BY <1>0 DEF Before
<1>3. CASE Overtakes(d, e, i, j)
  <2>1. Ahead(e, j) = Ahead(d, j) \cup {i} /\ i \notin Ahead(d, j)
    BY <1>0, <1>1, <1>3 DEF Ahead, Overtakes
  <2> QED
    BY <2>1, <1>0, <1>3, RankType, FS_AddElement
<1>4. CASE ~Overtakes(d, e, i, j)
  <2>1. Ahead(e, j) = Ahead(d, j)
    BY <1>0, <1>1, <1>2, <1>4 DEF Ahead, Overtakes
  <2> QED
    BY <2>1, <1>0, <1>4, RankType
<1> QED
  BY <1>0, <1>3, <1>4, RankType

LEMMA RankNeverLess ==
  ASSUME NEW d, NEW e, NEW i, Moves(d, e, i), NEW j \in DOMAIN d, j # i
  PROVE  /\ j \in DOMAIN e /\ e[j] = d[j]
         /\ Rank(d, j) \in Nat /\ Rank(e, j) \in Nat /\ Rank(d, j) <= Rank(e, j)
  BY RankMoves

\* The mover itself moves up.
LEMMA MoverRank ==
  ASSUME NEW d, NEW e, NEW i, Moves(d, e, i), i \in DOMAIN d
  PROVE  /\ Rank(e, i) <= Rank(d, i) /\ Rank(e, i) \in Nat /\ Rank(d, i) \in Nat
<1>1. Ahead(e, i) \subseteq Ahead(d, i)
  BY DEF Ahead, Before, Moves, Listing
<1> QED
  BY <1>1, RankType, FS_Subset DEF Moves

-----------------------------------------------------------------------------
\* Pages
LEMMA HeightType == kind \in Kinds => Height \in Nat \ {0}
  BY WalkBounds DEF Height

Start(p) == p * Height

LEMMA Starts ==
  ASSUME kind \in Kinds, NEW p \in Nat
  PROVE  Start(p) \in Nat /\ Start(p + 1) = Start(p) + Height /\ Height \in Nat \ {0}
  BY HeightType DEF Start

LEMMA OnPageIff ==
  ASSUME kind \in Kinds, NEW p \in Nat, NEW d, Listing(d), NEW i
  PROVE  i \in OnPage(d, p) <=> /\ i \in DOMAIN d
                                /\ Start(p) <= Rank(d, i) /\ Rank(d, i) < Start(p + 1)
<1>1. Rank(d, i) \in Nat /\ Start(p) \in Nat /\ Start(p + 1) \in Nat
  BY RankType, Starts
<1>2. i \in OnPage(d, p) <=> i \in DOMAIN d /\ Rank(d, i) \in Start(p) .. Start(p + 1) - 1
  BY DEF OnPage, Start
<1> HIDE DEF Start
<1> QED
  BY <1>1, <1>2


\* What has a page of d, and what has not
LEMMA InPage ==
  ASSUME kind \in Kinds, NEW p \in Nat, NEW d, Listing(d), NEW i, NEW t
  PROVE  <<i, t>> \in Page(d, p) <=> /\ i \in DOMAIN d /\ t = d[i]
                                     /\ Start(p) <= Rank(d, i) /\ Rank(d, i) < Start(p + 1)
<1>1. <<i, t>> \in Page(d, p) <=> i \in OnPage(d, p) /\ t = d[i]
  BY DEF Page
<1> QED
  BY <1>1, OnPageIff

LEMMA PageOfPairs ==
  ASSUME NEW d, NEW p, NEW x \in Page(d, p)
  PROVE  x = <<x[1], x[2]>> /\ x[1] \in DOMAIN d /\ x[2] = d[x[1]]
  BY DEF Page, OnPage

LEMMA PageLoses ==
  ASSUME kind \in Kinds, NEW p \in Nat, NEW d, NEW e, NEW i, Moves(d, e, i),
         NEW x \in Page(d, p), x \notin Page(e, p)
  PROVE  \E y \in Page(e, p) : y \notin Page(d, p)
<1>0. /\ Listing(d) /\ Listing(e) /\ i \in DOMAIN e
      /\ i \in DOMAIN d => e[i] > d[i] /\ d[i] \in Nat
      /\ e[i] \in Nat /\ Rank(e, i) \in Nat
      /\ Start(p) \in Nat /\ Start(p + 1) \in Nat /\ Start(p) < Start(p + 1)
  <2>1. /\ Listing(d) /\ Listing(e) /\ i \in DOMAIN e
        /\ i \in DOMAIN d => e[i] > d[i] /\ d[i] \in Nat
        /\ e[i] \in Nat
    BY DEF Moves, Listing
  <2>2. Rank(e, i) \in Nat
    BY <2>1, RankType
  <2>3. /\ Start(p) \in Nat /\ Start(p + 1) \in Nat /\ Start(p) < Start(p + 1)
    BY Starts
  <2> QED
    BY <2>1, <2>2, <2>3
<1> DEFINE k == x[1]
<1>1. /\ k \in DOMAIN d /\ x = <<k, d[k]>> /\ Rank(d, k) \in Nat
      /\ Start(p) <= Rank(d, k) /\ Rank(d, k) < Start(p + 1)
  BY <1>0, PageOfPairs, InPage, RankType
<1> HIDE DEF k
\* The item that moved has come to this page ...
<1>2. CASE Start(p) <= Rank(e, i) /\ Rank(e, i) < Start(p + 1)
  <2>1. <<i, e[i]>> \in Page(e, p)
    BY <1>0, <1>2, InPage
  <2>2. <<i, e[i]>> \notin Page(d, p)
    BY <1>0, InPage
  <2> QED
    BY <2>1, <2>2
\* ... or passed it, and so it has pushed an item over its beginning.
<1>3. CASE Rank(e, i) < Start(p) /\ ~(i \in DOMAIN d /\ Rank(d, i) < Start(p))
  <2>1. Start(p) - 1 \in Nat /\ Start(p) - 1 <= Rank(d, k)
    BY <1>0, <1>1, <1>3
  <2>2. PICK y \in DOMAIN d : Rank(d, y) = Start(p) - 1
    BY <1>0, <1>1, <2>1, RankFill
  <2>3. y # i
    BY <1>0, <1>3, <2>2
  <2>4. y \in DOMAIN e /\ e[y] = d[y] /\ Rank(e, y) \in Nat
        /\ Rank(d, y) <= Rank(e, y)
    BY <2>3, RankNeverLess
  <2>5. Before(e, i, y)
    <3>1. Rank(e, i) <= Rank(e, y) /\ i # y
      BY <1>0, <1>3, <2>2, <2>3, <2>4
    <3>2. ~Before(e, y, i)
      BY <3>1, <1>0, <2>4, RankOrder
    <3> QED
      BY <3>1, <3>2, <1>0, <2>4, BeforeIsOrder
  <2>6. ~(i \in DOMAIN d /\ Before(d, i, y))
    <3> SUFFICES ASSUME i \in DOMAIN d, Before(d, i, y) PROVE FALSE
      OBVIOUS
    <3>1. Rank(d, i) < Start(p) - 1 /\ Rank(d, i) \in Nat
      BY <1>0, <2>2, RankOrder, RankType
    <3> QED
      BY <3>1, <1>0, <1>3
  <2>7. Rank(e, y) = Start(p)
    BY <2>2, <2>3, <2>5, <2>6, <1>0, RankMoves DEF Overtakes
  <2>8. <<y, e[y]>> \in Page(e, p)
    BY <1>0, <2>4, <2>7, InPage
  <2>9. <<y, e[y]>> \notin Page(d, p)
    BY <1>0, <2>1, <2>2, InPage
  <2> QED
    BY <2>8, <2>9
\* Nothing else can make an item leave the page.
<1>4. CASE Rank(e, i) >= Start(p + 1) \/ (i \in DOMAIN d /\ Rank(d, i) < Start(p))
  <2>1. k # i
    <3> SUFFICES ASSUME k = i PROVE FALSE
      OBVIOUS
    <3>1. Rank(e, i) <= Rank(d, i)
      BY <1>1, MoverRank
    <3> QED
      BY <3>1, <1>0, <1>1, <1>4
  <2>2. k \in DOMAIN e /\ e[k] = d[k] /\ Rank(e, k) \in Nat /\ Rank(d, k) <= Rank(e, k)
    BY <1>1, <2>1, RankNeverLess
  <2>3. Rank(e, k) >= Start(p + 1)
    <3>1. ~(Rank(e, k) < Start(p + 1))
      BY <1>0, <1>1, <2>2, InPage
    <3> QED
      BY <3>1, <1>0, <2>2
  <2>4. Overtakes(d, e, i, k)
    BY <1>0, <1>1, <2>1, <2>3, RankMoves
  <2>5. Rank(e, i) < Rank(e, k) /\ Rank(e, k) = Rank(d, k) + 1
    BY <2>4, <1>0, <1>1, <2>1, <2>2, RankOrder, RankMoves DEF Overtakes
  <2>6. i \in DOMAIN d => Rank(d, k) < Rank(d, i)
    <3> SUFFICES ASSUME i \in DOMAIN d PROVE Rank(d, k) < Rank(d, i)
      OBVIOUS
    <3>1. Before(d, k, i)
      BY <2>1, <2>4, <1>0, <1>1, BeforeIsOrder DEF Overtakes
    <3> QED
      BY <3>1, <1>0, <1>1, RankOrder
  <2>7. Rank(e, i) < Start(p + 1)
    BY <2>5, <1>0, <1>1, <2>2
  <2> QED
    BY <2>6, <2>7, <1>0, <1>1, <1>4, RankType
<1>5. (i \in DOMAIN d => Rank(d, i) \in Nat)
  BY <1>0, RankType
<1> QED
  BY <1>0, <1>2, <1>3, <1>4, <1>5

-----------------------------------------------------------------------------
(***************************************************************************)
(* Contents.  What a page once had, and has no longer, it never has again. *)
(***************************************************************************)
Once(C, d, p) ==
    \A c \in C : /\ c = <<c[1], c[2]>> /\ c[1] \in DOMAIN d /\ c[2] \in Nat /\ c[2] <= d[c[1]]
                 /\ c[2] = d[c[1]] => Start(p) <= Rank(d, c[1])

LEMMA PageIsOnce ==
  ASSUME kind \in Kinds, NEW p \in Nat, NEW d, Listing(d)
  PROVE  Once(Page(d, p), d, p)
<1> SUFFICES ASSUME NEW c \in Page(d, p)
             PROVE  /\ c = <<c[1], c[2]>> /\ c[1] \in DOMAIN d /\ c[2] \in Nat
                    /\ c[2] <= d[c[1]] /\ Start(p) <= Rank(d, c[1])
  BY DEF Once
<1>1. c = <<c[1], c[2]>> /\ c[1] \in DOMAIN d /\ c[2] = d[c[1]] /\ d[c[1]] \in Nat
  BY PageOfPairs DEF Listing
<1> QED
  BY <1>1, InPage

LEMMA OnceStays ==
  ASSUME NEW p \in Nat, kind \in Kinds, NEW d, NEW e, NEW i, Moves(d, e, i),
         NEW C, Once(C, d, p)
  PROVE  Once(C, e, p)
<1> SUFFICES ASSUME NEW c \in C
             PROVE  /\ c = <<c[1], c[2]>> /\ c[1] \in DOMAIN e /\ c[2] \in Nat
                    /\ c[2] <= e[c[1]] /\ (c[2] = e[c[1]] => Start(p) <= Rank(e, c[1]))
  BY DEF Once
<1>1. /\ c = <<c[1], c[2]>> /\ c[1] \in DOMAIN d /\ c[2] \in Nat /\ c[2] <= d[c[1]]
      /\ c[2] = d[c[1]] => Start(p) <= Rank(d, c[1])
  BY DEF Once
<1>2. CASE c[1] = i
  BY <1>1, <1>2 DEF Moves, Listing
<1>3. CASE c[1] # i
  BY <1>1, <1>3, RankNeverLess, Starts
<1> QED
  BY <1>2, <1>3

LEMMA NoReturn ==
  ASSUME NEW p \in Nat, kind \in Kinds, NEW d, NEW e, NEW i, Moves(d, e, i),
         NEW C, Once(C, d, p), C = Page(e, p)
  PROVE  C = Page(d, p)
<1>0. Listing(d) /\ Listing(e)
  BY DEF Moves
<1>1. ASSUME NEW c \in C PROVE c \in Page(d, p)
  <2> DEFINE j == c[1]
  <2>1. c = <<j, e[j]>> /\ j \in DOMAIN e /\ j \in DOMAIN d /\ e[j] <= d[j]
        /\ (e[j] = d[j] => Start(p) <= Rank(d, j))
    BY <1>1, PageOfPairs DEF Once
  <2> HIDE DEF j
  <2>2. Rank(e, j) < Start(p + 1)
    BY <1>0, <1>1, <2>1, InPage
  <2>3. j # i
    BY <2>1 DEF Moves, Listing
  <2>4. e[j] = d[j] /\ Rank(d, j) \in Nat /\ Rank(e, j) \in Nat /\ Rank(d, j) <= Rank(e, j)
    BY <2>1, <2>3, RankNeverLess
  <2>5. Start(p + 1) \in Nat
    BY Starts
  <2> QED
    BY <1>0, <2>1, <2>2, <2>4, <2>5, InPage
<1>2. ASSUME NEW x \in Page(d, p), x \notin C PROVE FALSE
  BY <1>1, <1>2, PageLoses
<1> QED
  BY <1>1, <1>2

\* So a page that an item enters has a content it never had.
LEMMA EntryIsNew ==
  ASSUME NEW p \in Nat, kind \in Kinds, NEW d, NEW e, NEW i, Moves(d, e, i),
         NEW C, Once(C, d, p),
         \/ <<i, e[i]>> \in Page(e, p)
         \/ \E k \in DOMAIN d \ {i} : Rank(d, k) < Start(p) /\ Start(p) <= Rank(e, k)
  PROVE  C # Page(e, p)
<1> SUFFICES ASSUME C = Page(e, p) PROVE FALSE
  OBVIOUS
<1>0. /\ Listing(d) /\ Listing(e) /\ Start(p) \in Nat /\ Start(p + 1) \in Nat
      /\ Start(p) < Start(p + 1)
  BY Starts DEF Moves
<1>1. C = Page(d, p)
  BY NoReturn
<1>2. CASE <<i, e[i]>> \in Page(e, p)
  BY <1>0, <1>1, <1>2, InPage DEF Moves, Listing
<1>3. ASSUME NEW k \in DOMAIN d \ {i}, Rank(d, k) < Start(p), Start(p) <= Rank(e, k)
      PROVE  FALSE
  <2>1. k \in DOMAIN e /\ e[k] = d[k] /\ Rank(e, k) = Rank(d, k) + 1 /\ Rank(d, k) \in Nat
    BY <1>0, <1>3, RankMoves
  <2>2. Rank(e, k) < Start(p + 1)
    BY <1>0, <1>3, <2>1
  <2>3. <<k, e[k]>> \in Page(e, p)
    BY <1>0, <1>3, <2>1, <2>2, InPage
  <2>4. <<k, e[k]>> \notin Page(d, p)
    BY <1>0, <1>3, <2>1, InPage
  <2> QED
    BY <2>3, <2>4, <1>1
<1> QED
  BY <1>2, <1>3

-----------------------------------------------------------------------------
(***************************************************************************)
(* The inductive invariant.                                                *)
(***************************************************************************)
\* Items without a row for which a promise is made
Open == Listed \ (seen \cup excused \cup shadowed)

Match(p) == validator[p] # {} /\ validator[p] = Page(date, p)

\* What the walk will still come to: behind the pages it has read, or on the
\* one it holds and of no later date than something there.
Coming(i) ==
    \/ walk.pc = "get" /\ Start(walk.page) <= Rank(date, i)
    \/ /\ walk.pc = "read"
       /\ \/ <<i, date[i]>> \in walk.got
          \/ /\ Start(walk.page + 1) <= Rank(date, i)
             /\ \E e \in walk.got : date[i] <= e[2]

\* The walk has this page's validator from its own request.
Fetched(p) == p < walk.page \/ (p = walk.page /\ walk.pc = "read")

ValidatorsOnce == \A p \in Pages : Once(validator[p], date, p)

\* No validator that still holds stands before an open item, save those of the
\* walk at work, and then it is coming to that item.
NothingHidden ==
    \A i \in Open, p \in Pages :
        Match(p) /\ Start(p) <= Rank(date, i) => Coming(i) /\ Fetched(p)

WalkReaches == walk.pc # "idle" => \A i \in walk.listed \cap Open : Coming(i)

OpenOnPages == \A i \in Open : Rank(date, i) < Start(Cardinality(Pages))

TopicsDated == kind = "pages" => \A i \in Listed : date[i] # 0

\* What came in during the walk has a date the overlap covers.
NewcomersCovered ==
    walk.pc # "idle" =>
        \A i \in Open \ walk.listed :
            date[i] = 0 \/ date[i] >= walk.began - (Overlap - MaxWalk)

WalkSound ==
    walk.pc # "idle" =>
        /\ walk.began \in Nat /\ walk.began <= clock /\ clock <= walk.began + MaxWalk
        /\ last_item_at <= walk.began
        /\ walk.newest \in Nat /\ walk.newest <= walk.began
        /\ walk.page \in Pages
        /\ walk.listed \subseteq Listed
        /\ walk.since = 0 \/ (backfilled /\ walk.since = Watermark(FALSE))
        /\ IsFiniteSet(walk.got)
        /\ walk.got \subseteq Listed \X (0 .. LastTick + 1)

Shapes ==
    /\ TypeOK
    /\ IsFiniteSet(Listed) /\ date \in [Listed -> 0 .. LastTick + 1]
    /\ validator \in [Pages -> SUBSET (Items \X (0 .. LastTick + 1))]
    /\ walk \in [pc : {"idle", "get", "read", "end"}, page : Nat, since : Int,
                 began : Nat, newest : Nat, got : SUBSET (Items \X (0 .. LastTick + 1)),
                 listed : SUBSET Items]
    /\ kind = "query" => \A p \in Pages : validator[p] = {}

IInv == /\ Shapes /\ ValidatorsOnce /\ NothingHidden /\ WalkReaches /\ OpenOnPages
        /\ TopicsDated /\ NewcomersCovered /\ WalkSound
        /\ CompletedWalkReadAll /\ NothingBehindWatermark

-----------------------------------------------------------------------------
LEMMA Bounds ==
    /\ Items \subseteq Nat /\ MaxPages \in Nat \ {0} /\ PageSize \in Nat \ {0}
    /\ Overlap \in Nat /\ MaxWalk \in Nat /\ MaxFaults \in Nat /\ LastTick \in Nat \ {0}
    /\ MaxWalk <= Overlap
  BY WalkBounds

\* The listing and its pages
LEMMA PageFacts ==
  ASSUME Shapes
  PROVE  /\ Listing(date) /\ Listed \subseteq Nat /\ kind \in Kinds
         /\ Pages \subseteq Nat /\ 0 \in Pages
         /\ Cardinality(Pages) \in Nat
         /\ \A p \in Pages : p + 1 \in Pages \/ p + 1 = Cardinality(Pages)
         /\ kind # "pages" => Pages = {0} /\ Cardinality(Pages) = 1
<1>1. Items \subseteq Nat /\ MaxPages \in Nat \ {0} /\ LastTick \in Nat
  BY Bounds
<1>2. Listed \subseteq Nat /\ kind \in Kinds /\ DOMAIN date = Listed
  BY <1>1 DEF Shapes, TypeOK, Listed
<1>3. IsFiniteSet(Listed) /\ date \in [Listed -> 0 .. LastTick + 1]
  BY DEF Shapes
<1>4. Listing(date)
  BY <1>1, <1>2, <1>3 DEF Listing
<1>5. PICK n \in Nat : Pages = 0 .. n /\ (kind # "pages" => n = 0)
  <2>1. CASE kind = "pages"
    <3>1. Pages = 0 .. MaxPages - 1 /\ MaxPages - 1 \in Nat
      BY <1>1, <2>1 DEF Pages
    <3> QED
      BY <3>1, <2>1
  <2>2. CASE kind # "pages"
    BY <2>2 DEF Pages
  <2> QED
    BY <2>1, <2>2
<1>6. Cardinality(0 .. n) = n + 1
  BY <1>5, FS_Interval
<1>7. /\ Pages \subseteq Nat /\ 0 \in Pages /\ Cardinality(Pages) = n + 1
      /\ \A p \in Pages : p + 1 \in Pages \/ p + 1 = n + 1
      /\ kind # "pages" => Pages = {0} /\ n + 1 = 1
  BY <1>5, <1>6
<1> QED
  BY <1>2, <1>4, <1>5, <1>7

LEMMA InitIInv == Init => IInv
<1> SUFFICES ASSUME Init PROVE IInv
  OBVIOUS
<1>1. /\ DOMAIN date = {} /\ Listed = {} /\ IsFiniteSet(Listed)
      /\ date \in [Listed -> 0 .. LastTick + 1]
  BY FS_EmptySet DEF Init, Listed
<1>2. walk = Idle /\ walk.pc = "idle" /\ walk.since = 0
  BY DEF Init, Idle
<1>3. walk \in [pc : {"idle", "get", "read", "end"}, page : Nat, since : Int,
                began : Nat, newest : Nat, got : SUBSET (Items \X (0 .. LastTick + 1)),
                listed : SUBSET Items]
  BY DEF Init, Idle
<1>4. /\ validator \in [Pages -> SUBSET (Items \X (0 .. LastTick + 1))]
      /\ \A p \in Pages : validator[p] = {}
  BY DEF Init
<1>5. clock \in 1 .. LastTick /\ 0 \in 0 .. MaxFaults /\ 0 \in 0 .. clock
  BY Bounds DEF Init
<1>6. TypeOK
  <2>1. /\ kind \in Kinds /\ clock = 1 /\ backfilled = FALSE /\ seen = {} /\ faults = 0
        /\ owed = {} /\ excused = {} /\ shadowed = {}
        /\ last_item_at = 0 /\ last_success_at = 0
    BY DEF Init
  <2>2. \A p \in Pages : validator[p] \subseteq Items \X (0 .. LastTick + 1)
    BY <1>4
  <2>3. walk.since <= clock /\ {last_item_at, last_success_at} \subseteq 0 .. clock
    BY <1>2, <1>5, <2>1
  <2> QED
    BY <1>1, <1>2, <1>5, <2>1, <2>2, <2>3 DEF TypeOK
<1>7. Open = {} /\ owed = {} /\ backfilled = FALSE
  BY <1>1 DEF Init, Open
<1>8. Shapes
  BY <1>1, <1>3, <1>4, <1>6 DEF Shapes
<1>9. ValidatorsOnce
  BY <1>4 DEF ValidatorsOnce, Once
<1>10. NothingHidden /\ WalkReaches /\ OpenOnPages /\ NewcomersCovered /\ WalkSound
  BY <1>2, <1>7 DEF NothingHidden, WalkReaches, OpenOnPages, NewcomersCovered, WalkSound
<1>11. TopicsDated /\ CompletedWalkReadAll /\ NothingBehindWatermark
  BY <1>1, <1>7 DEF TopicsDated, CompletedWalkReadAll, NothingBehindWatermark
<1> QED
  BY <1>8, <1>9, <1>10, <1>11 DEF IInv

-----------------------------------------------------------------------------
(***************************************************************************)
(* What a step leaves as it is.                                            *)
(***************************************************************************)
LEMMA KindStays ==
  ASSUME kind' = kind
  PROVE  /\ Height' = Height /\ Pages' = Pages
         /\ \A p : Start(p)' = Start(p) /\ Page(date, p)' = Page(date', p)
  BY DEF Height, Pages, Start, Page, OnPage

LEMMA SiteStays ==
  ASSUME remote' = remote
  PROVE  /\ kind' = kind /\ date' = date /\ Listed' = Listed
         /\ Height' = Height /\ Pages' = Pages
         /\ \A p : Start(p)' = Start(p) /\ Page(date, p)' = Page(date, p)
         /\ \A i : Rank(date, i)' = Rank(date, i)
<1>1. kind' = kind /\ date' = date
  BY DEF remote
<1> QED
  BY <1>1, KindStays DEF Listed

-----------------------------------------------------------------------------
(***************************************************************************)
(* An item is listed, or moves up.  It gets in front, on time, where no    *)
(* validator can stand before it, or no promise is made for it.            *)
(***************************************************************************)
Relisted(d, i) ==
    /\ i \in Items /\ Moves(date, d, i)
    /\ d \in [Listed \cup {i} -> 0 .. LastTick + 1] /\ (kind = "pages" => d[i] # 0)
    /\ List(d, Beyond(d) \cup Late(d, i))
    /\ walk' \in [pc : {"idle", "get", "read", "end"}, page : Nat, since : Int,
                  began : Nat, newest : Nat, got : SUBSET (Items \X (0 .. LastTick + 1)),
                  listed : SUBSET Items]
    /\ walk'.pc = walk.pc /\ walk'.page = walk.page /\ walk'.since = walk.since
    /\ walk'.began = walk.began /\ walk'.newest = walk.newest /\ walk'.got = walk.got
    /\ walk.pc # "idle" => walk'.listed = walk.listed \ {i}

LEMMA RelistedFrame ==
  ASSUME IInv, NEW d, NEW i, Relisted(d, i)
  PROVE  /\ date' = d /\ kind' = kind /\ clock' = clock /\ validator' = validator
         /\ row' = row /\ seen' = seen /\ faults' = faults
         /\ last_item_at' = last_item_at /\ last_success_at' = last_success_at
         /\ backfilled' = backfilled
         /\ Listing(date) /\ Listing(d) /\ Moves(date, d, i) /\ i \in Items
         /\ Listed' = Listed \cup {i} /\ DOMAIN d = Listed \cup {i} /\ DOMAIN date = Listed
         /\ Pages \subseteq Nat /\ kind \in Kinds
  BY PageFacts DEF IInv, Relisted, List, row, Moves, Listed

LEMMA RelistedOpen ==
  ASSUME IInv, NEW d, NEW i, Relisted(d, i), NEW k \in Open'
  PROVE  /\ k \in DOMAIN d /\ Rank(d, k) < Start(Cardinality(Pages))
         /\ k # i => k \in Open /\ k \in DOMAIN date /\ k \in Listed
         /\ k = i => OnTime(d, i)
<1>0. /\ Listing(d) /\ DOMAIN d = Listed \cup {i} /\ DOMAIN date = Listed
      /\ Pages \subseteq Nat /\ kind \in Kinds
  BY RelistedFrame
<1>1. /\ k \in DOMAIN d /\ k \notin seen /\ k \notin excused /\ k \notin shadowed
      /\ k \notin Beyond(d) \cup Late(d, i)
  BY <1>0, RelistedFrame DEF Relisted, List, Account, Open
<1>2. Rank(d, k) < Start(Cardinality(Pages))
  <2>1. Rank(d, k) \in Nat /\ Start(Cardinality(Pages)) \in Nat
    BY <1>0, RankType, Starts, PageFacts DEF IInv
  <2>2. ~(Rank(d, k) >= Start(Cardinality(Pages)))
    BY <1>0, <1>1, HeightType, PageFacts DEF IInv, Beyond, Start
  <2> QED
    BY <2>1, <2>2
<1>3. k # i => k \in Open /\ k \in DOMAIN date /\ k \in Listed
  BY <1>0, <1>1 DEF Open
<1>4. k = i => OnTime(d, i)
  BY <1>1 DEF Late
<1> QED
  BY <1>1, <1>2, <1>3, <1>4

\* A validator that stands before k stood there already.
LEMMA RelistedMatch ==
  ASSUME IInv, NEW d, NEW i, Relisted(d, i), NEW k \in Open', NEW p \in Pages,
         validator[p] = Page(d, p), Start(p) <= Rank(d, k)
  PROVE  /\ k # i /\ k \in Open /\ Start(p) <= Rank(date, k)
         /\ validator[p] = Page(date, p)
<1>1. Once(validator[p], date, p)
  BY DEF IInv, ValidatorsOnce
<1>2. p \in Nat /\ kind \in Kinds /\ Moves(date, d, i) /\ Listing(d) /\ Listing(date)
  BY RelistedFrame
<1>3. validator[p] = Page(date, p)
  BY <1>1, <1>2, NoReturn
<1>4. <<i, d[i]>> \notin Page(d, p)
  BY <1>1, <1>2, EntryIsNew
<1>5. k # i
  <2> SUFFICES ASSUME k = i PROVE FALSE
    OBVIOUS
  <2>1. OnTime(d, i) /\ i \in DOMAIN d /\ Rank(d, i) < Start(Cardinality(Pages))
    BY RelistedOpen
  <2>2. Rank(d, i) \in Nat /\ Start(p) \in Nat /\ Height \in Nat \ {0}
        /\ Start(p + 1) = Start(p) + Height
    BY <1>2, RankType, Starts
  <2>3. Rank(d, i) < Start(p + 1)
    <3>1. CASE kind = "pages"
      BY <3>1, <2>1, <2>2 DEF OnTime
    <3>2. CASE kind # "pages"
      <4>1. p + 1 = Cardinality(Pages)
        BY <3>2, PageFacts DEF IInv
      <4> QED
        BY <4>1, <2>1
    <3> QED
      BY <3>1, <3>2
  <2>4. <<i, d[i]>> \in Page(d, p)
    BY <1>2, <2>1, <2>3, InPage
  <2> QED
    BY <2>4, <1>4
<1>6. k \in Open /\ k \in DOMAIN date
  BY <1>5, RelistedOpen
<1>7. ~(Rank(date, k) < Start(p))
  BY <1>1, <1>2, <1>5, <1>6, EntryIsNew
<1>8. Rank(date, k) \in Nat /\ Start(p) \in Nat
  BY <1>2, RankType, Starts
<1> QED
  BY <1>3, <1>5, <1>6, <1>7, <1>8

LEMMA RelistedComing ==
  ASSUME IInv, NEW d, NEW i, Relisted(d, i), NEW k \in Listed, k # i,
         Coming(k), walk.pc # "idle"
  PROVE  Coming(k)'
<1>1. /\ k \in DOMAIN date /\ Moves(date, d, i) /\ kind' = kind /\ date' = d
      /\ kind \in Kinds /\ Pages \subseteq Nat
  BY RelistedFrame
<1>2. /\ d[k] = date[k] /\ Rank(date, k) \in Nat /\ Rank(d, k) \in Nat
      /\ Rank(date, k) <= Rank(d, k)
  BY <1>1, RankNeverLess
<1>3. /\ walk'.pc = walk.pc /\ walk'.page = walk.page /\ walk'.got = walk.got
  BY DEF Relisted
<1>4. walk.page \in Nat
  BY DEF IInv, Shapes
<1>5. /\ Start(walk.page)' = Start(walk.page) /\ Start(walk.page + 1)' = Start(walk.page + 1)
      /\ Start(walk.page) \in Nat /\ Start(walk.page + 1) \in Nat
  <2>1. Height' = Height
    BY <1>1, KindStays
  <2>2. Start(walk.page) \in Nat /\ Start(walk.page + 1) \in Nat
    BY <1>1, <1>4, Starts
  <2> QED
    BY <2>1, <2>2, <1>3 DEF Start
<1>6. Rank(date, k)' = Rank(d, k) /\ date'[k] = d[k]
  BY <1>1
<1> QED
  BY <1>2, <1>3, <1>5, <1>6 DEF Coming

LEMMA RelistedShapes ==
  ASSUME IInv, NEW d, NEW i, Relisted(d, i)
  PROVE  Shapes'
<1>0. /\ date' = d /\ kind' = kind /\ clock' = clock /\ validator' = validator
      /\ seen' = seen /\ faults' = faults /\ last_item_at' = last_item_at
      /\ last_success_at' = last_success_at /\ backfilled' = backfilled
      /\ i \in Items /\ Listed' = Listed \cup {i} /\ DOMAIN d = Listed \cup {i}
      /\ Pages' = Pages
  BY RelistedFrame, KindStays
<1>1. /\ kind \in Kinds /\ clock \in 1 .. LastTick /\ Listed \subseteq Items
      /\ \A p \in Pages : validator[p] \subseteq Items \X (0 .. LastTick + 1)
      /\ {last_item_at, last_success_at} \subseteq 0 .. clock
      /\ backfilled \in BOOLEAN /\ seen \subseteq Listed
      /\ walk.pc \in {"idle", "get", "read", "end"} /\ walk.since <= clock
      /\ faults \in 0 .. MaxFaults
      /\ owed \subseteq Listed /\ excused \subseteq Listed /\ shadowed \subseteq Listed
      /\ IsFiniteSet(Listed)
      /\ validator \in [Pages -> SUBSET (Items \X (0 .. LastTick + 1))]
      /\ kind = "query" => \A p \in Pages : validator[p] = {}
  BY DEF IInv, Shapes, TypeOK
<1>2. d \in [Listed \cup {i} -> 0 .. LastTick + 1]
  BY DEF Relisted
<1>3. IsFiniteSet(Listed \cup {i})
  BY <1>1, FS_AddElement
<1>4. /\ excused' \subseteq Listed' /\ owed' \subseteq Listed' /\ shadowed' \subseteq Listed'
  BY <1>0, <1>1 DEF Relisted, List, Account, Beyond, Late
<1>5. walk'.pc \in {"idle", "get", "read", "end"} /\ walk'.since <= clock
  BY <1>1 DEF Relisted
<1>6. TypeOK'
  <2>1. \A j \in Listed' : date'[j] \in 0 .. LastTick + 1
    BY <1>0, <1>2
  <2> QED
    BY <1>0, <1>1, <1>4, <1>5, <2>1 DEF TypeOK
<1> QED
  BY <1>0, <1>1, <1>2, <1>3, <1>6 DEF Shapes, Relisted

LEMMA RelistedIInv ==
  ASSUME IInv, NEW d, NEW i, Relisted(d, i)
  PROVE  IInv'
<1>0. /\ date' = d /\ kind' = kind /\ clock' = clock /\ validator' = validator
      /\ seen' = seen /\ last_item_at' = last_item_at
      /\ last_success_at' = last_success_at /\ backfilled' = backfilled
      /\ i \in Items /\ Listed' = Listed \cup {i} /\ DOMAIN d = Listed \cup {i}
      /\ Moves(date, d, i) /\ kind \in Kinds /\ Pages \subseteq Nat
      /\ DOMAIN date = Listed
  BY RelistedFrame
<1>1. /\ Height' = Height /\ Pages' = Pages
      /\ \A p : Start(p)' = Start(p) /\ Page(date, p)' = Page(d, p)
  BY <1>0, KindStays
<1>2. /\ walk'.pc = walk.pc /\ walk'.page = walk.page /\ walk'.since = walk.since
      /\ walk'.began = walk.began /\ walk'.newest = walk.newest /\ walk'.got = walk.got
      /\ walk.pc # "idle" => walk'.listed = walk.listed \ {i}
  BY DEF Relisted
<1>3. \A k \in Listed \ {i} : d[k] = date[k]
  BY <1>0 DEF Moves
<1>4. Open' \subseteq Open \cup {i}
  BY RelistedOpen
<1>5. i \in Open' => d[i] = 0 \/ d[i] >= clock - (Overlap - MaxWalk)
  BY RelistedOpen DEF OnTime
<1>6. Shapes'
  BY RelistedShapes
<1>7. ValidatorsOnce'
  <2>1. \A p \in Pages : Once(validator[p], d, p)
    BY <1>0, OnceStays DEF IInv, ValidatorsOnce
  <2>2. \A p \in Pages : Once(validator[p], d, p) => Once(validator[p], date, p)'
    BY <1>0, <1>1 DEF Once
  <2> QED
    BY <1>0, <1>1, <2>1, <2>2 DEF ValidatorsOnce
<1>8. NothingHidden'
  <2>1. ASSUME NEW k \in Open', NEW p \in Pages, Match(p)', Start(p) <= Rank(d, k)
        PROVE  Coming(k)' /\ Fetched(p)'
    <3>1. validator[p] = Page(d, p) /\ validator[p] # {}
      BY <2>1, <1>0, <1>1 DEF Match
    <3>2. k # i /\ k \in Open /\ Start(p) <= Rank(date, k) /\ Match(p)
      BY <2>1, <3>1, RelistedMatch DEF Match
    <3>3. Coming(k) /\ Fetched(p)
      BY <3>2 DEF IInv, NothingHidden
    <3>4. Fetched(p)'
      BY <3>3, <1>2 DEF Fetched
    <3>5. k \in Listed /\ walk.pc # "idle"
      BY <3>2, <3>3 DEF Open, Coming
    <3> QED
      BY <3>2, <3>3, <3>4, <3>5, RelistedComing
  <2>2. \A k : Rank(date, k)' = Rank(d, k)
    BY <1>0
  <2> QED
    BY <2>1, <2>2, <1>1 DEF NothingHidden
<1>9. WalkReaches'
  <2>1. ASSUME walk.pc # "idle", NEW k \in walk.listed \ {i}, k \in Open'
        PROVE  Coming(k)'
    <3>1. k \in Open /\ k # i /\ k \in Listed
      BY <2>1, <1>4 DEF Open
    <3>2. Coming(k)
      BY <2>1, <3>1 DEF IInv, WalkReaches
    <3> QED
      BY <2>1, <3>1, <3>2, RelistedComing
  <2> QED
    BY <2>1, <1>2 DEF WalkReaches
<1>10. OpenOnPages'
  <2>1. \A k \in Open' : Rank(d, k) < Start(Cardinality(Pages))
    BY RelistedOpen
  <2>2. Start(Cardinality(Pages))' = Start(Cardinality(Pages))
    BY <1>1 DEF Start
  <2>3. \A k : Rank(date, k)' = Rank(d, k)
    BY <1>0
  <2> QED
    BY <2>1, <2>2, <2>3 DEF OpenOnPages
<1>11. TopicsDated'
  <2>1. kind = "pages" => d[i] # 0
    BY DEF Relisted
  <2> QED
    BY <2>1, <1>0, <1>3 DEF IInv, TopicsDated
<1>12. NewcomersCovered'
  <2>1. ASSUME walk.pc # "idle", NEW k \in Open', k \notin walk.listed \ {i}
        PROVE  d[k] = 0 \/ d[k] >= walk.began - (Overlap - MaxWalk)
    <3>1. CASE k = i
      <4>1. /\ walk.began \in Nat /\ walk.began <= clock
        BY <2>1 DEF IInv, WalkSound
      <4>2. clock \in Nat
        BY Bounds DEF IInv, Shapes, TypeOK
      <4>3. d[i] \in Nat
        BY Bounds DEF Relisted
      <4> QED
        BY <3>1, <2>1, <1>5, <4>1, <4>2, <4>3, Bounds
    <3>2. CASE k # i
      <4>1. k \in Open \ walk.listed /\ k \in Listed /\ d[k] = date[k]
        BY <3>2, <2>1, <1>3, <1>4 DEF Open
      <4> QED
        BY <4>1, <2>1 DEF IInv, NewcomersCovered
    <3> QED
      BY <3>1, <3>2
  <2> QED
    BY <2>1, <1>0, <1>2 DEF NewcomersCovered
<1>13. WalkSound'
  <2>1. Watermark(FALSE)' = Watermark(FALSE)
    BY <1>0 DEF Watermark
  <2>2. SUFFICES ASSUME walk.pc # "idle" PROVE WalkSound'
    BY <1>2 DEF WalkSound
  <2>3. /\ walk.began \in Nat /\ walk.began <= clock /\ clock <= walk.began + MaxWalk
        /\ last_item_at <= walk.began
        /\ walk.newest \in Nat /\ walk.newest <= walk.began
        /\ walk.page \in Pages
        /\ IsFiniteSet(walk.got)
    BY <2>2 DEF IInv, WalkSound
  <2>4. walk.since = 0 \/ (backfilled /\ walk.since = Watermark(FALSE))
    BY <2>2 DEF IInv, WalkSound
  <2>5. walk'.since = 0 \/ (backfilled' /\ walk'.since = Watermark(FALSE)')
    BY <2>1, <2>4, <1>0, <1>2
  <2>6. walk.listed \ {i} \subseteq Listed' /\ walk.got \subseteq Listed' \X (0 .. LastTick + 1)
    BY <2>2, <1>0 DEF IInv, WalkSound
  <2> QED
    BY <2>2, <2>3, <2>5, <2>6, <1>0, <1>1, <1>2 DEF WalkSound
<1>14. CompletedWalkReadAll'
  BY DEF IInv, CompletedWalkReadAll, Relisted, List, Account
<1>15. NothingBehindWatermark'
  <2>1. Watermark(FALSE)' = Watermark(FALSE)
    BY <1>0 DEF Watermark
  <2>2. ASSUME backfilled, NEW k \in Open', d[k] # 0, d[k] < Watermark(FALSE)
        PROVE  FALSE
    <3>1. CASE k = i
      <4>1. d[i] \in Nat /\ clock \in Nat
        BY Bounds DEF IInv, Relisted, Shapes, TypeOK
      <4>2. Watermark(FALSE) <= clock - Overlap /\ Watermark(FALSE) \in Int
        <5>1. /\ last_item_at \in Nat /\ last_item_at <= clock
              /\ last_success_at \in Nat /\ last_success_at <= clock
          BY <4>1 DEF IInv, Shapes, TypeOK
        <5> QED
          BY <4>1, <5>1, Bounds DEF Watermark
      <4>3. d[i] # 0 /\ d[i] < Watermark(FALSE) /\ i \in Open'
        BY <3>1, <2>2
      <4>4. d[i] >= clock - (Overlap - MaxWalk)
        BY <4>3, <1>5
      <4>5. PICK w \in Int : w = Watermark(FALSE)
        BY <4>2
      <4>6. w <= clock - Overlap /\ d[i] < w
        BY <4>2, <4>3, <4>5
      <4> QED
        BY <4>1, <4>4, <4>6, Bounds
    <3>2. CASE k # i
      <4>1. k \in Open /\ k \in Listed /\ d[k] = date[k]
        BY <3>2, <2>2, <1>3, <1>4 DEF Open
      <4> QED
        BY <4>1, <2>2 DEF IInv, NothingBehindWatermark, Open
    <3> QED
      BY <3>1, <3>2
  <2> QED
    BY <2>1, <2>2, <1>0 DEF NothingBehindWatermark, Open
<1> QED
  BY <1>6, <1>7, <1>8, <1>9, <1>10, <1>11, <1>12, <1>13, <1>14, <1>15 DEF IInv

LEMMA PublishIInv ==
  ASSUME IInv, NEW i \in Items, NEW t \in 0 .. LastTick + 1, Publish(i, t)
  PROVE  IInv'
<1> DEFINE d == [j \in Listed \cup {i} |-> IF j = i THEN t ELSE date[j]]
<1>1. /\ i \notin Listed /\ List(d, Beyond(d) \cup Late(d, i)) /\ walk' = walk
      /\ kind = "pages" => t # 0
  BY Bounds DEF Publish, IInv, Shapes, TypeOK
<1>2. Listing(date) /\ Items \subseteq Nat /\ LastTick \in Nat
  BY PageFacts, Bounds DEF IInv
<1>3. date \in [Listed -> 0 .. LastTick + 1] /\ DOMAIN date = Listed /\ IsFiniteSet(Listed)
      /\ Listed \subseteq Items
  BY DEF IInv, Shapes, TypeOK
<1>4. d \in [Listed \cup {i} -> 0 .. LastTick + 1] /\ d[i] = t
  BY <1>3
<1>5. DOMAIN d = Listed \cup {i} /\ \A j \in Listed \ {i} : d[j] = date[j]
  OBVIOUS
<1> HIDE DEF d
<1>6. Listing(d)
  <2>1. IsFiniteSet(Listed \cup {i})
    BY <1>3, FS_AddElement
  <2> QED
    BY <2>1, <1>2, <1>3, <1>4, <1>5 DEF Listing
<1>7. Moves(date, d, i)
  BY <1>1, <1>2, <1>3, <1>5, <1>6 DEF Moves
<1>8. walk.pc # "idle" => walk.listed = walk.listed \ {i}
  BY <1>1 DEF IInv, WalkSound
<1>9. Relisted(d, i)
  BY <1>1, <1>4, <1>7, <1>8 DEF Relisted, IInv, Shapes
<1> QED
  BY <1>9, RelistedIInv

LEMMA BumpIInv ==
  ASSUME IInv, NEW i \in Items, Bump(i)
  PROVE  IInv'
<1> DEFINE d == [date EXCEPT ![i] = clock]
<1>1. /\ i \in Listed /\ List(d, Beyond(d) \cup Late(d, i))
      /\ walk' = [walk EXCEPT !.listed = @ \ {i}]
      /\ date[i] < clock
  BY DEF Bump
<1>2. Listing(date) /\ Items \subseteq Nat /\ LastTick \in Nat /\ clock \in 1 .. LastTick
  BY PageFacts, Bounds DEF IInv, Shapes, TypeOK
<1>3. date \in [Listed -> 0 .. LastTick + 1] /\ DOMAIN date = Listed /\ IsFiniteSet(Listed)
  BY DEF IInv, Shapes
<1>4. d \in [Listed -> 0 .. LastTick + 1] /\ d[i] = clock
      /\ \A j \in Listed \ {i} : d[j] = date[j]
  BY <1>1, <1>2, <1>3
<1>5. DOMAIN d = Listed /\ Listed \cup {i} = Listed
  BY <1>1, <1>3
<1> HIDE DEF d
<1>6. Listing(d)
  BY <1>2, <1>3, <1>4, <1>5 DEF Listing
<1>7. Moves(date, d, i)
  BY <1>1, <1>2, <1>3, <1>4, <1>5, <1>6 DEF Moves
<1>8. /\ walk' \in [pc : {"idle", "get", "read", "end"}, page : Nat, since : Int,
                    began : Nat, newest : Nat, got : SUBSET (Items \X (0 .. LastTick + 1)),
                    listed : SUBSET Items]
      /\ walk'.pc = walk.pc /\ walk'.page = walk.page /\ walk'.since = walk.since
      /\ walk'.began = walk.began /\ walk'.newest = walk.newest /\ walk'.got = walk.got
      /\ walk'.listed = walk.listed \ {i}
  BY <1>1 DEF IInv, Shapes
<1>9. clock # 0
  BY <1>2
<1>10. Relisted(d, i)
  BY <1>1, <1>4, <1>5, <1>7, <1>8, <1>9 DEF Relisted
<1> QED
  BY <1>10, RelistedIInv

-----------------------------------------------------------------------------
(***************************************************************************)
(* The site stands still.                                                  *)
(***************************************************************************)
LEMMA SiteStill ==
  ASSUME IInv, remote' = remote
  PROVE  /\ TopicsDated'
         /\ Open' \subseteq Open => OpenOnPages'
         /\ (\A p \in Pages : Once(validator'[p], date, p)) => ValidatorsOnce'
<1>1. /\ kind' = kind /\ date' = date /\ Listed' = Listed
      /\ Height' = Height /\ Pages' = Pages
      /\ \A p : Start(p)' = Start(p)
      /\ \A i : Rank(date, i)' = Rank(date, i)
  BY SiteStays
<1>2. TopicsDated'
  BY <1>1 DEF IInv, TopicsDated
<1>3. ASSUME Open' \subseteq Open PROVE OpenOnPages'
  <2>1. Start(Cardinality(Pages))' = Start(Cardinality(Pages))
    BY <1>1 DEF Start
  <2> QED
    BY <1>1, <1>3, <2>1 DEF IInv, OpenOnPages
<1>4. ASSUME \A p \in Pages : Once(validator'[p], date, p) PROVE ValidatorsOnce'
  <2>1. \A p \in Pages : Once(validator'[p], date, p) => Once(validator[p], date, p)'
    BY <1>1 DEF Once
  <2> QED
    BY <1>1, <1>4, <2>1 DEF ValidatorsOnce
<1> QED
  BY <1>2, <1>3, <1>4

LEMMA StartStays ==
  ASSUME remote' = remote, walk'.page = walk.page
  PROVE  /\ Start(walk.page)' = Start(walk.page)
         /\ Start(walk.page + 1)' = Start(walk.page + 1)
<1>1. Height' = Height
  BY SiteStays
<1> QED
  BY <1>1 DEF Start

\* Time passes, or nothing happens.
LEMMA RestIInv ==
  ASSUME IInv, UNCHANGED <<remote, validator, row, seen, walk, faults, history>>,
         clock' \in 1 .. LastTick, clock <= clock',
         walk.pc # "idle" => clock' <= walk.began + MaxWalk
  PROVE  IInv'
<1>0. /\ kind' = kind /\ date' = date /\ Listed' = Listed /\ validator' = validator
      /\ last_item_at' = last_item_at /\ last_success_at' = last_success_at
      /\ backfilled' = backfilled /\ seen' = seen /\ walk' = walk /\ faults' = faults
      /\ excused' = excused /\ owed' = owed /\ shadowed' = shadowed /\ remote' = remote
      /\ Pages' = Pages /\ \A p : Start(p)' = Start(p) /\ Page(date, p)' = Page(date, p)
      /\ \A i : Rank(date, i)' = Rank(date, i)
      /\ Open' = Open
  BY SiteStays DEF row, history, Open
<1>1. clock \in Nat /\ clock' \in Nat /\ clock <= clock'
  BY Bounds DEF IInv, Shapes, TypeOK
<1>2. Shapes'
  <2>1. /\ {last_item_at, last_success_at} \subseteq 0 .. clock /\ walk.since <= clock
        /\ walk.since \in Int
    BY DEF IInv, Shapes, TypeOK
  <2>2. {last_item_at, last_success_at} \subseteq 0 .. clock' /\ walk.since <= clock'
    BY <1>1, <2>1
  <2>3. TypeOK'
    BY <2>2, <1>0 DEF IInv, Shapes, TypeOK
  <2> QED
    BY <2>3, <1>0 DEF IInv, Shapes
<1>3. ValidatorsOnce' /\ OpenOnPages' /\ TopicsDated'
  BY <1>0, SiteStill DEF IInv, ValidatorsOnce
<1>4. \A i : Coming(i)' <=> Coming(i)
  <2>1. /\ Start(walk.page)' = Start(walk.page)
        /\ Start(walk.page + 1)' = Start(walk.page + 1)
    BY <1>0, StartStays
  <2> QED
    BY <2>1, <1>0 DEF Coming
<1>5. NothingHidden'
  <2>1. \A p : (Match(p)' <=> Match(p)) /\ (Fetched(p)' <=> Fetched(p))
    BY <1>0 DEF Match, Fetched
  <2> QED
    BY <2>1, <1>0, <1>4 DEF IInv, NothingHidden
<1>6. WalkReaches' /\ NewcomersCovered'
  BY <1>0, <1>4 DEF IInv, WalkReaches, NewcomersCovered
<1>7. Watermark(FALSE)' = Watermark(FALSE)
  BY <1>0 DEF Watermark
<1>8. WalkSound'
  <2> SUFFICES ASSUME walk.pc # "idle" PROVE WalkSound'
    BY <1>0 DEF WalkSound
  <2>1. /\ walk.began \in Nat /\ walk.began <= clock'
    <3>1. walk.began \in Nat /\ walk.began <= clock
      BY DEF IInv, WalkSound
    <3> QED
      BY <1>1, <3>1
  <2> QED
    BY <2>1, <1>0, <1>7 DEF IInv, WalkSound
<1>9. CompletedWalkReadAll' /\ NothingBehindWatermark'
  BY <1>0, <1>7 DEF IInv, CompletedWalkReadAll, NothingBehindWatermark
<1> QED
  BY <1>2, <1>3, <1>5, <1>6, <1>8, <1>9 DEF IInv

LEMMA TickIInv == IInv /\ Tick => IInv'
<1> SUFFICES ASSUME IInv, Tick PROVE IInv'
  OBVIOUS
<1>1. clock \in 1 .. LastTick /\ LastTick \in Nat
  BY Bounds DEF IInv, Shapes, TypeOK
<1>2. /\ UNCHANGED <<remote, validator, row, seen, walk, faults, history>>
      /\ clock' = clock + 1 /\ clock < LastTick
  BY DEF Tick
<1>3. walk.pc # "idle" => clock' <= walk.began + MaxWalk
  <2> SUFFICES ASSUME walk.pc # "idle" PROVE clock' <= walk.began + MaxWalk
    OBVIOUS
  <2>1. clock < walk.began + MaxWalk
    BY DEF Tick
  <2>2. walk.began \in Nat /\ MaxWalk \in Nat
    BY Bounds DEF IInv, WalkSound
  <2> QED
    BY <1>1, <1>2, <2>1, <2>2
<1>4. clock' \in 1 .. LastTick /\ clock <= clock'
  BY <1>1, <1>2
<1> QED
  BY <1>2, <1>3, <1>4, RestIInv

LEMMA StutterIInv == IInv /\ UNCHANGED vars => IInv'
<1> SUFFICES ASSUME IInv, UNCHANGED vars PROVE IInv'
  OBVIOUS
<1>1. clock \in 1 .. LastTick /\ clock \in Nat
  BY Bounds DEF IInv, Shapes, TypeOK
<1>2. /\ UNCHANGED <<remote, validator, row, seen, walk, faults, history>>
      /\ clock' = clock
  BY DEF vars, remote, row, history
<1>3. walk.pc # "idle" => clock <= walk.began + MaxWalk
  BY DEF IInv, WalkSound
<1> QED
  BY <1>1, <1>2, <1>3, RestIInv

-----------------------------------------------------------------------------
(***************************************************************************)
(* The walk.                                                               *)
(***************************************************************************)
LEMMA WatermarkType ==
  ASSUME IInv
  PROVE  /\ Watermark(TRUE) = 0
         /\ Watermark(FALSE) \in Int /\ Watermark(FALSE) <= clock - Overlap
         /\ clock \in Nat
<1>1. clock \in Nat
  BY Bounds DEF IInv, Shapes, TypeOK
<1>2. /\ last_item_at \in Nat /\ last_item_at <= clock
      /\ last_success_at \in Nat /\ last_success_at <= clock
  BY <1>1 DEF IInv, Shapes, TypeOK
<1> QED
  BY <1>1, <1>2, Bounds DEF Watermark

\* A step of the walk that leaves the site, its validators and all rows.
LEMMA WalkOnly ==
  ASSUME IInv, UNCHANGED <<remote, clock, validator, row, seen, faults, history>>
  PROVE  /\ kind' = kind /\ date' = date /\ Listed' = Listed /\ clock' = clock
         /\ validator' = validator /\ seen' = seen /\ excused' = excused
         /\ last_item_at' = last_item_at /\ backfilled' = backfilled
         /\ Pages' = Pages /\ Height' = Height /\ Open' = Open
         /\ \A i : Rank(date, i)' = Rank(date, i)
         /\ \A p : Match(p)' <=> Match(p)
         /\ ValidatorsOnce' /\ OpenOnPages' /\ TopicsDated'
         /\ CompletedWalkReadAll' /\ NothingBehindWatermark'
         /\ Watermark(FALSE)' = Watermark(FALSE)
         /\ walk'.since <= clock /\
            walk' \in [pc : {"idle", "get", "read", "end"}, page : Nat, since : Int,
                 began : Nat, newest : Nat, got : SUBSET (Items \X (0 .. LastTick + 1)),
                 listed : SUBSET Items]
            => Shapes'
<1>0. /\ kind' = kind /\ date' = date /\ Listed' = Listed /\ validator' = validator
      /\ last_item_at' = last_item_at /\ last_success_at' = last_success_at
      /\ backfilled' = backfilled /\ seen' = seen /\ faults' = faults /\ clock' = clock
      /\ excused' = excused /\ owed' = owed /\ shadowed' = shadowed /\ remote' = remote
      /\ Pages' = Pages /\ Height' = Height /\ \A p : Page(date, p)' = Page(date, p)
      /\ \A i : Rank(date, i)' = Rank(date, i)
      /\ Open' = Open
  BY SiteStays DEF row, history, Open
<1>1. \A p : Match(p)' <=> Match(p)
  BY <1>0 DEF Match
<1>2. ValidatorsOnce' /\ OpenOnPages' /\ TopicsDated'
  BY <1>0, SiteStill DEF IInv, ValidatorsOnce
<1>3. Watermark(FALSE)' = Watermark(FALSE)
  BY <1>0 DEF Watermark
<1>4. CompletedWalkReadAll' /\ NothingBehindWatermark'
  BY <1>0, <1>3 DEF IInv, CompletedWalkReadAll, NothingBehindWatermark
<1>5. ASSUME walk'.since <= clock,
             walk' \in [pc : {"idle", "get", "read", "end"}, page : Nat, since : Int,
                 began : Nat, newest : Nat, got : SUBSET (Items \X (0 .. LastTick + 1)),
                 listed : SUBSET Items]
      PROVE  Shapes'
  <2>1. walk'.pc \in {"idle", "get", "read", "end"}
    BY <1>5
  <2>2. TypeOK'
    BY <2>1, <1>5, <1>0 DEF IInv, Shapes, TypeOK
  <2> QED
    BY <2>2, <1>5, <1>0 DEF IInv, Shapes
<1> QED
  BY <1>0, <1>1, <1>2, <1>3, <1>4, <1>5

LEMMA StartIInv ==
  ASSUME IInv, NEW seed \in BOOLEAN, StartWalk(seed)
  PROVE  IInv'
<1>1. /\ UNCHANGED <<remote, clock, validator, row, seen, faults, history>>
      /\ walk.pc = "idle"
  BY DEF StartWalk
<1>2. /\ walk'.pc = "get" /\ walk'.page = 0 /\ walk'.newest = 0 /\ walk'.got = {}
      /\ walk'.began = clock /\ walk'.listed = Listed \ seen
      /\ walk'.since = Watermark(seed \/ ~backfilled)
      /\ walk' = [pc |-> "get", page |-> 0, since |-> walk'.since, began |-> clock,
                  newest |-> 0, got |-> {}, listed |-> Listed \ seen]
  BY DEF StartWalk, Idle
<1>3. walk'.since = 0 \/ (backfilled /\ walk'.since = Watermark(FALSE))
  <2>1. backfilled \in BOOLEAN
    BY DEF IInv, Shapes, TypeOK
  <2>2. CASE seed \/ ~backfilled
    <3>1. (seed \/ ~backfilled) = TRUE
      BY <2>1, <2>2
    <3> QED
      BY <3>1, <1>2, WatermarkType
  <2>3. CASE ~(seed \/ ~backfilled)
    <3>1. (seed \/ ~backfilled) = FALSE /\ backfilled
      BY <2>1, <2>3
    <3> QED
      BY <3>1, <1>2
  <2> QED
    BY <2>2, <2>3
<1>4. walk'.since \in Int /\ walk'.since <= clock
  <2>1. CASE walk'.since = 0
    BY <2>1, WatermarkType
  <2>2. CASE walk'.since = Watermark(FALSE)
    <3>1. PICK w \in Int : w = Watermark(FALSE)
      BY WatermarkType
    <3>2. w <= clock - Overlap /\ clock \in Nat
      BY <3>1, WatermarkType
    <3>3. walk'.since = w
      BY <2>2, <3>1
    <3>4. w <= clock
      BY <3>2, Bounds
    <3> QED
      BY <3>3, <3>4
  <2> QED
    BY <1>3, <2>1, <2>2
<1>5. walk' \in [pc : {"idle", "get", "read", "end"}, page : Nat, since : Int,
                 began : Nat, newest : Nat, got : SUBSET (Items \X (0 .. LastTick + 1)),
                 listed : SUBSET Items]
  <2>1. Listed \subseteq Items /\ clock \in Nat
    BY WatermarkType DEF IInv, Shapes, TypeOK
  <2> HIDE <1>3
  <2> QED
    BY <2>1, <1>2, <1>4
<1>6. Shapes' /\ ValidatorsOnce' /\ OpenOnPages' /\ TopicsDated'
      /\ CompletedWalkReadAll' /\ NothingBehindWatermark'
  BY <1>1, <1>4, <1>5, WalkOnly
<1>7. NothingHidden'
  <2>1. \A k \in Open, p \in Pages : ~(Match(p) /\ Start(p) <= Rank(date, k))
    BY <1>1 DEF IInv, NothingHidden, Coming
  <2> QED
    BY <2>1, <1>1, WalkOnly, SiteStays DEF NothingHidden
<1>8. WalkReaches'
  <2>1. ASSUME NEW k \in Open' PROVE Coming(k)'
    <3>1. Start(walk.page)' = 0
      BY <1>2, HeightType, WalkOnly, <1>1, PageFacts DEF Start, IInv
    <3>2. Rank(date, k)' \in Nat
      BY <1>1, WalkOnly, RankType, PageFacts DEF IInv
    <3> QED
      BY <3>1, <3>2, <1>2 DEF Coming
  <2> QED
    BY <2>1 DEF WalkReaches
<1>9. NewcomersCovered'
  BY <1>1, <1>2, WalkOnly DEF NewcomersCovered, Open
<1>10. WalkSound'
  <2>1. /\ 0 \in Pages /\ clock \in Nat /\ last_item_at <= clock /\ clock <= clock + MaxWalk
        /\ 0 <= clock
    BY WatermarkType, PageFacts, Bounds DEF IInv, Shapes, TypeOK
  <2>2. IsFiniteSet({})
    BY FS_EmptySet
  <2>3. walk'.since = 0 \/ (backfilled' /\ walk'.since = Watermark(FALSE)')
    BY <1>1, <1>3, WalkOnly
  <2>4. /\ Listed' = Listed /\ clock' = clock /\ last_item_at' = last_item_at
        /\ Pages' = Pages
    BY <1>1, WalkOnly
  <2>5. /\ walk'.listed \subseteq Listed' /\ walk'.page \in Pages'
        /\ IsFiniteSet(walk'.got) /\ walk'.got \subseteq Listed' \X (0 .. LastTick + 1)
    BY <1>2, <2>1, <2>2, <2>4
  <2>6. /\ walk'.began \in Nat /\ walk'.began <= clock' /\ clock' <= walk'.began + MaxWalk
        /\ last_item_at' <= walk'.began
        /\ walk'.newest \in Nat /\ walk'.newest <= walk'.began
    BY <1>2, <2>1, <2>4
  <2> QED
    BY <2>3, <2>5, <2>6 DEF WalkSound
<1> QED
  BY <1>6, <1>7, <1>8, <1>9, <1>10 DEF IInv

LEMMA WalkState ==
  ASSUME IInv, walk.pc # "idle"
  PROVE  /\ walk.page \in Pages /\ walk.page \in Nat /\ kind \in Kinds
         /\ Start(walk.page) \in Nat /\ Start(walk.page + 1) \in Nat
         /\ Height \in Nat \ {0} /\ Start(walk.page + 1) = Start(walk.page) + Height
         /\ Listing(date) /\ Pages \subseteq Nat
<1>1. walk.page \in Pages /\ Pages \subseteq Nat /\ kind \in Kinds /\ Listing(date)
  BY PageFacts DEF IInv, WalkSound
<1>2. walk.page \in Nat
  BY <1>1
<1>3. /\ Start(walk.page) \in Nat /\ Height \in Nat \ {0}
      /\ Start(walk.page + 1) = Start(walk.page) + Height
  BY <1>1, <1>2, Starts
<1> QED
  BY <1>1, <1>2, <1>3

LEMMA UnchangedIInv == IInv /\ GetUnchanged => IInv'
<1> SUFFICES ASSUME IInv, GetUnchanged PROVE IInv'
  OBVIOUS
<1>1. /\ UNCHANGED <<remote, clock, validator, row, seen, faults, history>>
      /\ walk.pc = "get" /\ Match(walk.page)
  BY DEF GetUnchanged, Match
<1>2. /\ walk' = [walk EXCEPT !.pc = "end", !.got = {}]
  BY DEF GetUnchanged, Stop
<1>3. walk \in [pc : {"idle", "get", "read", "end"}, page : Nat, since : Int,
                 began : Nat, newest : Nat, got : SUBSET (Items \X (0 .. LastTick + 1)),
                 listed : SUBSET Items]
  BY DEF IInv, Shapes
<1>4. /\ walk' \in [pc : {"idle", "get", "read", "end"}, page : Nat, since : Int,
                 began : Nat, newest : Nat, got : SUBSET (Items \X (0 .. LastTick + 1)),
                 listed : SUBSET Items]
      /\ walk'.pc = "end" /\ walk'.got = {} /\ walk'.page = walk.page
      /\ walk'.since = walk.since /\ walk'.began = walk.began
      /\ walk'.newest = walk.newest /\ walk'.listed = walk.listed
  BY <1>2, <1>3
<1>5. walk'.since <= clock
  BY <1>4 DEF IInv, Shapes, TypeOK
<1>6. Shapes' /\ ValidatorsOnce' /\ OpenOnPages' /\ TopicsDated'
      /\ CompletedWalkReadAll' /\ NothingBehindWatermark'
  BY <1>1, <1>4, <1>5, WalkOnly
\* Nothing open lies where the walk was going.
<1>7. \A k \in Open : ~Coming(k)
  <2> SUFFICES ASSUME NEW k \in Open, Coming(k) PROVE FALSE
    OBVIOUS
  <2>1. Start(walk.page) <= Rank(date, k) /\ walk.page \in Pages /\ walk.page \in Nat
    BY <1>1, WalkState DEF Coming
  <2>2. Fetched(walk.page)
    BY <1>1, <2>1 DEF IInv, NothingHidden
  <2> QED
    BY <1>1, <2>1, <2>2 DEF Fetched
<1>8. Open' = Open
  BY <1>1, WalkOnly
<1>9. NothingHidden'
  <2>1. \A k \in Open, p \in Pages : ~(Match(p) /\ Start(p) <= Rank(date, k))
    BY <1>7 DEF IInv, NothingHidden
  <2> QED
    BY <2>1, <1>1, WalkOnly, SiteStays DEF NothingHidden
<1>10. WalkReaches'
  BY <1>1, <1>4, <1>7, <1>8 DEF IInv, WalkReaches
<1>11. NewcomersCovered'
  BY <1>1, <1>4, <1>8, WalkOnly DEF IInv, NewcomersCovered
<1>12. WalkSound'
  <2>1. IsFiniteSet({})
    BY FS_EmptySet
  <2>2. /\ Listed' = Listed /\ clock' = clock /\ last_item_at' = last_item_at
        /\ Pages' = Pages /\ backfilled' = backfilled
        /\ Watermark(FALSE)' = Watermark(FALSE)
    BY <1>1, WalkOnly
  <2> QED
    BY <2>1, <2>2, <1>1, <1>4 DEF IInv, WalkSound
<1> QED
  BY <1>6, <1>9, <1>10, <1>11, <1>12 DEF IInv

\* The page in hand has all that the walk comes to, or something that is
\* listed before it.
LEMMA PageReaches ==
  ASSUME IInv, walk.pc = "get", NEW k \in Listed, Start(walk.page) <= Rank(date, k)
  PROVE  \/ <<k, date[k]>> \in Page(date, walk.page)
         \/ /\ Start(walk.page + 1) <= Rank(date, k)
            /\ \E e \in Page(date, walk.page) : date[k] <= e[2]
<1>1. /\ walk.page \in Pages /\ walk.page \in Nat /\ kind \in Kinds
      /\ Start(walk.page) \in Nat /\ Start(walk.page + 1) \in Nat
      /\ Height \in Nat \ {0} /\ Start(walk.page + 1) = Start(walk.page) + Height
      /\ Listing(date) /\ Pages \subseteq Nat
  BY WalkState
<1>2. k \in DOMAIN date /\ Rank(date, k) \in Nat
  BY <1>1, RankType DEF Listed
<1>3. CASE Rank(date, k) < Start(walk.page + 1)
  BY <1>1, <1>2, <1>3, InPage
<1>4. CASE Start(walk.page + 1) <= Rank(date, k)
  <2>1. PICK y \in DOMAIN date : Rank(date, y) = Start(walk.page)
    BY <1>1, <1>2, RankFill
  <2>2. <<y, date[y]>> \in Page(date, walk.page)
    BY <1>1, <2>1, InPage
  <2>3. Before(date, y, k)
    <3>1. Rank(date, y) < Rank(date, k)
      BY <1>1, <1>2, <1>4, <2>1
    <3> QED
      BY <1>1, <1>2, <3>1, RankOrder
  <2>4. date[k] <= date[y]
    BY <1>1, <1>2, <2>3 DEF Listing, Before
  <2> QED
    BY <1>4, <2>2, <2>4
<1> QED
  BY <1>1, <1>2, <1>3, <1>4

LEMMA PageType ==
  ASSUME IInv, NEW p
  PROVE  /\ IsFiniteSet(Page(date, p))
         /\ Page(date, p) \subseteq Listed \X (0 .. LastTick + 1)
<1> DEFINE f == [i \in OnPage(date, p) |-> <<i, date[i]>>]
<1>1. OnPage(date, p) \subseteq Listed /\ IsFiniteSet(Listed)
      /\ date \in [Listed -> 0 .. LastTick + 1]
  BY DEF IInv, Shapes, OnPage, Listed
<1>2. IsFiniteSet(OnPage(date, p))
  BY <1>1, FS_Subset
<1>3. Page(date, p) = {<<i, date[i]>> : i \in OnPage(date, p)}
  BY DEF Page
<1>4. f \in Surjection(OnPage(date, p), Page(date, p))
  BY <1>3 DEF Surjection
<1>5. IsFiniteSet(Page(date, p))
  BY <1>2, <1>4, FS_Surjection
<1>6. \A i \in OnPage(date, p) : <<i, date[i]>> \in Listed \X (0 .. LastTick + 1)
  BY <1>1
<1> QED
  BY <1>3, <1>5, <1>6

LEMMA GetIInv == IInv /\ Get => IInv'
<1> SUFFICES ASSUME IInv, Get PROVE IInv'
  OBVIOUS
<1> DEFINE n == walk.page
           content == Page(date, n)
<1>1. /\ UNCHANGED <<remote, clock, row, seen, faults, history>> /\ walk.pc = "get"
      /\ walk' = [walk EXCEPT !.pc = "read", !.got = content]
      /\ validator' = IF kind = "query" THEN validator
                      ELSE [validator EXCEPT ![n] = content]
  BY DEF Get
<1>2. /\ n \in Pages /\ n \in Nat /\ kind \in Kinds /\ Listing(date) /\ Pages \subseteq Nat
  BY <1>1, WalkState
<1>3. IsFiniteSet(content) /\ content \subseteq Listed \X (0 .. LastTick + 1)
  BY PageType
<1>4. content \subseteq Items \X (0 .. LastTick + 1)
  BY <1>3 DEF IInv, Shapes, TypeOK
<1>5. walk \in [pc : {"idle", "get", "read", "end"}, page : Nat, since : Int,
                 began : Nat, newest : Nat, got : SUBSET (Items \X (0 .. LastTick + 1)),
                 listed : SUBSET Items]
  BY DEF IInv, Shapes
<1> HIDE DEF content
<1>6. /\ walk' \in [pc : {"idle", "get", "read", "end"}, page : Nat, since : Int,
                 began : Nat, newest : Nat, got : SUBSET (Items \X (0 .. LastTick + 1)),
                 listed : SUBSET Items]
      /\ walk'.pc = "read" /\ walk'.got = content /\ walk'.page = n
      /\ walk'.since = walk.since /\ walk'.began = walk.began
      /\ walk'.newest = walk.newest /\ walk'.listed = walk.listed
  BY <1>1, <1>4, <1>5
<1>7. /\ kind' = kind /\ date' = date /\ Listed' = Listed /\ remote' = remote
      /\ last_item_at' = last_item_at /\ last_success_at' = last_success_at
      /\ backfilled' = backfilled /\ seen' = seen /\ faults' = faults /\ clock' = clock
      /\ excused' = excused /\ owed' = owed /\ shadowed' = shadowed
      /\ Pages' = Pages /\ Open' = Open
      /\ \A i : Rank(date, i)' = Rank(date, i)
      /\ \A p : Start(p)' = Start(p) /\ Page(date, p)' = Page(date, p)
  BY <1>1, SiteStays DEF row, history, Open
<1>8. validator \in [Pages -> SUBSET (Items \X (0 .. LastTick + 1))]
  BY DEF IInv, Shapes
<1>9. /\ validator' \in [Pages -> SUBSET (Items \X (0 .. LastTick + 1))]
      /\ \A p \in Pages : validator'[p] = validator[p] \/ (p = n /\ validator'[p] = content)
      /\ kind = "query" => validator' = validator
  BY <1>1, <1>2, <1>4, <1>8
<1>10. Shapes'
  <2>1. walk'.pc \in {"idle", "get", "read", "end"} /\ walk'.since <= clock
    BY <1>6 DEF IInv, Shapes, TypeOK
  <2>2. \A p \in Pages : validator'[p] \subseteq Items \X (0 .. LastTick + 1)
    BY <1>9
  <2>3. TypeOK'
    BY <2>1, <2>2, <1>7 DEF IInv, Shapes, TypeOK
  <2> QED
    BY <2>3, <1>6, <1>7, <1>9 DEF IInv, Shapes
<1>11. ValidatorsOnce' /\ OpenOnPages' /\ TopicsDated'
  <2>1. Once(content, date, n)
    BY <1>2, PageIsOnce DEF content
  <2>2. \A p \in Pages : Once(validator'[p], date, p)
    BY <2>1, <1>9 DEF IInv, ValidatorsOnce
  <2> QED
    BY <2>2, <1>7, SiteStill
<1>12. ASSUME NEW k \in Open, Start(n) <= Rank(date, k) PROVE Coming(k)'
  <2>1. k \in Listed
    BY DEF Open
  <2>2. \/ <<k, date[k]>> \in content
        \/ /\ Start(n + 1) <= Rank(date, k)
           /\ \E e \in content : date[k] <= e[2]
    BY <2>1, <1>1, <1>12, PageReaches DEF content
  <2>3. Start(walk.page + 1)' = Start(n + 1)
    BY <1>6, <1>7, StartStays
  <2> QED
    BY <2>2, <2>3, <1>6, <1>7 DEF Coming
<1>13. \A k \in Open : Coming(k) => Coming(k)'
  BY <1>1, <1>12 DEF Coming
<1>14. NothingHidden'
  <2>1. ASSUME NEW k \in Open, NEW p \in Pages, Match(p)', Start(p) <= Rank(date, k)
        PROVE  Coming(k)' /\ Fetched(p)'
    <3>1. CASE p = n
      BY <3>1, <2>1, <1>6, <1>12 DEF Fetched
    <3>2. CASE p # n
      <4>1. Match(p)
        BY <3>2, <2>1, <1>7, <1>9 DEF Match
      <4>2. Coming(k) /\ Fetched(p)
        BY <2>1, <4>1 DEF IInv, NothingHidden
      <4> QED
        BY <4>2, <1>1, <1>6, <1>13 DEF Fetched
    <3> QED
      BY <3>1, <3>2
  <2> QED
    BY <2>1, <1>7 DEF NothingHidden
<1>15. WalkReaches'
  <2>1. \A k \in walk.listed \cap Open : Coming(k)
    BY <1>1 DEF IInv, WalkReaches
  <2> QED
    BY <2>1, <1>6, <1>7, <1>13 DEF WalkReaches
<1>16. NewcomersCovered'
  BY <1>1, <1>6, <1>7 DEF IInv, NewcomersCovered
<1>17. Watermark(FALSE)' = Watermark(FALSE)
  BY <1>7 DEF Watermark
<1>18. WalkSound'
  BY <1>1, <1>3, <1>6, <1>7, <1>17 DEF IInv, WalkSound
<1>19. CompletedWalkReadAll' /\ NothingBehindWatermark'
  BY <1>7, <1>17 DEF IInv, CompletedWalkReadAll, NothingBehindWatermark
<1> QED
  BY <1>10, <1>11, <1>14, <1>15, <1>16, <1>18, <1>19 DEF IInv

\* The watermark moves; what it passes over came in late, and is excused.
LEMMA CompleteIInv == IInv /\ Complete => IInv'
<1> SUFFICES ASSUME IInv, Complete PROVE IInv'
  OBVIOUS
<1>1. /\ walk.pc = "end" /\ last_success_at' = clock /\ backfilled' = TRUE
      /\ last_item_at' = LastItem(walk.newest) /\ walk' = Idle
      /\ owed' = owed \cup (walk.listed \ (seen \cup excused))
      /\ UNCHANGED <<remote, clock, validator, seen, faults, excused, shadowed>>
  BY DEF Complete
<1>2. /\ kind' = kind /\ date' = date /\ Listed' = Listed /\ validator' = validator
      /\ seen' = seen /\ faults' = faults /\ clock' = clock
      /\ excused' = excused /\ shadowed' = shadowed /\ remote' = remote
      /\ Pages' = Pages /\ \A p : Start(p)' = Start(p) /\ Page(date, p)' = Page(date, p)
      /\ \A i : Rank(date, i)' = Rank(date, i)
      /\ Open' = Open
  BY <1>1, SiteStays DEF Open
<1>3. /\ clock \in Nat /\ walk.began \in Nat /\ walk.began <= clock
      /\ clock <= walk.began + MaxWalk
      /\ last_item_at \in Nat /\ last_item_at <= walk.began
      /\ walk.newest \in Nat /\ walk.newest <= walk.began
      /\ walk.listed \subseteq Listed
  <2>1. last_item_at \in Nat
    BY Bounds DEF IInv, Shapes, TypeOK
  <2> QED
    BY <2>1, <1>1, WatermarkType DEF IInv, WalkSound
<1>4. last_item_at' \in Nat /\ last_item_at' <= walk.began
  BY <1>1, <1>3 DEF LastItem
<1>5. walk'.pc = "idle" /\ walk'.since = 0
      /\ walk' \in [pc : {"idle", "get", "read", "end"}, page : Nat, since : Int,
                 began : Nat, newest : Nat, got : SUBSET (Items \X (0 .. LastTick + 1)),
                 listed : SUBSET Items]
  BY <1>1 DEF Idle
<1>6. Shapes'
  <2>1. /\ {last_item_at', last_success_at'} \subseteq 0 .. clock /\ walk'.since <= clock
    BY <1>1, <1>3, <1>4, <1>5
  <2>2. owed' \subseteq Listed
    BY <1>1, <1>3 DEF IInv, Shapes, TypeOK
  <2>3. TypeOK'
    BY <2>1, <2>2, <1>1, <1>2, <1>5 DEF IInv, Shapes, TypeOK
  <2> QED
    BY <2>3, <1>2, <1>5 DEF IInv, Shapes
<1>7. ValidatorsOnce' /\ OpenOnPages' /\ TopicsDated'
  BY <1>2, SiteStill DEF IInv, ValidatorsOnce
<1>8. \A k : ~Coming(k)
  BY <1>1 DEF Coming
<1>9. NothingHidden'
  <2>1. \A k \in Open, p \in Pages : ~(Match(p) /\ Start(p) <= Rank(date, k))
    BY <1>8 DEF IInv, NothingHidden
  <2> QED
    BY <2>1, <1>2 DEF NothingHidden, Match
<1>10. WalkReaches' /\ NewcomersCovered' /\ WalkSound'
  BY <1>5 DEF WalkReaches, NewcomersCovered, WalkSound
<1>11. walk.listed \cap Open = {}
  BY <1>1, <1>8 DEF IInv, WalkReaches
<1>12. CompletedWalkReadAll'
  BY <1>1, <1>2, <1>3, <1>11 DEF IInv, CompletedWalkReadAll, Open
<1>13. NothingBehindWatermark'
  <2>1. PICK w \in Int : w = Watermark(FALSE)' /\ w <= walk.began + MaxWalk - Overlap
    <3> DEFINE u == (IF last_item_at' # 0 THEN last_item_at' ELSE clock) - Overlap
    <3>1. Watermark(FALSE)' = u
      BY <1>1 DEF Watermark
    <3>2. u \in Int /\ u <= walk.began + MaxWalk - Overlap
      BY <1>3, <1>4, Bounds
    <3> HIDE DEF u
    <3> QED
      BY <3>1, <3>2, Zenon
  <2>2. ASSUME NEW k \in Open, date[k] # 0, date[k] < w PROVE FALSE
    <3>1. k \notin walk.listed /\ k \in Listed
      BY <1>11 DEF Open
    <3>2. date[k] >= walk.began - (Overlap - MaxWalk)
      BY <3>1, <2>2, <1>1 DEF IInv, NewcomersCovered
    <3>3. date[k] \in Nat
      BY <3>1, Bounds DEF IInv, Shapes, TypeOK
    <3>4. w \in Int /\ w <= walk.began + MaxWalk - Overlap /\ date[k] < w
      BY <2>1, <2>2
    <3> QED
      BY <3>2, <3>3, <3>4, <1>3, Bounds
  <2> QED
    BY <2>1, <2>2, <1>2 DEF NothingBehindWatermark, Open
<1> QED
  BY <1>6, <1>7, <1>9, <1>10, <1>12, <1>13 DEF IInv

\* The books of a step that leaves the site and the row of the source.
LEMMA AccountKept ==
  ASSUME IInv, UNCHANGED <<remote, row>>, seen \subseteq seen', seen' \subseteq Listed,
         NEW hidden, hidden \subseteq Listed, Account(seen', {}, hidden)
  PROVE  /\ Open' \subseteq Open \ (hidden \cup seen')
         /\ excused' \subseteq Listed /\ owed' \subseteq Listed /\ shadowed' \subseteq Listed
         /\ CompletedWalkReadAll' /\ NothingBehindWatermark'
<1>1. /\ date' = date /\ Listed' = Listed /\ last_item_at' = last_item_at
      /\ last_success_at' = last_success_at /\ backfilled' = backfilled
  BY SiteStays DEF row
<1>2. /\ excused' = excused \ seen'
      /\ shadowed' = (shadowed \cup hidden) \ (seen' \cup excused')
      /\ owed' = owed \ (seen' \cup excused')
  BY DEF Account
<1>3. owed \subseteq Listed /\ excused \subseteq Listed /\ shadowed \subseteq Listed
      /\ owed \subseteq shadowed
  BY DEF IInv, Shapes, TypeOK, CompletedWalkReadAll
<1>4. Watermark(FALSE)' = Watermark(FALSE)
  BY <1>1 DEF Watermark
<1>5. seen \cup excused \cup shadowed \subseteq seen' \cup excused' \cup shadowed'
  BY <1>2
<1>6. NothingBehindWatermark'
  BY <1>1, <1>4, <1>5 DEF IInv, NothingBehindWatermark
<1>7. CompletedWalkReadAll'
  BY <1>2, <1>3 DEF CompletedWalkReadAll
<1>8. Open' \subseteq Open \ (hidden \cup seen')
  BY <1>1, <1>2, <1>5 DEF Open
<1> QED
  BY <1>2, <1>3, <1>6, <1>7, <1>8

LEMMA NewestType ==
  ASSUME NEW b \in Nat, NEW S, S \subseteq 0 .. b
  PROVE  Newest(S) \in Nat /\ Newest(S) <= b
<1>1. S \cup {0} \in SUBSET Nat /\ S \cup {0} # {} /\ \A u \in S \cup {0} : u <= b
  OBVIOUS
<1>2. PICK t \in S \cup {0} : \A u \in S \cup {0} : u <= t
  BY <1>1, LastExists
<1>3. Newest(S) \in S \cup {0}
  <2>1. \A u \in S : u <= t
    BY <1>2
  <2> QED
    BY <1>2, <2>1 DEF Newest
<1> QED
  BY <1>1, <1>3

\* The page in hand yields all open items on it, and if there are any behind
\* it, the walk goes on.
LEMMA PageYields ==
  ASSUME IInv, walk.pc = "read", NEW k \in Open, Coming(k),
         k \notin {e[1] : e \in Yield}
  PROVE  /\ Start(walk.page + 1) <= Rank(date, k)
         /\ Yield # {} /\ walk.page + 1 \in Pages
<1>1. k \in Listed /\ date[k] \in Nat
  BY Bounds DEF Open, IInv, Shapes, TypeOK
<1>2. walk.since = 0 \/ (backfilled /\ walk.since = Watermark(FALSE))
  BY DEF IInv, WalkSound
<1>3. ~(date[k] < walk.since /\ date[k] # 0)
  <2> SUFFICES ASSUME date[k] < walk.since, date[k] # 0 PROVE FALSE
    OBVIOUS
  <2>1. CASE walk.since = 0
    BY <1>1, <2>1
  <2>2. CASE backfilled /\ walk.since = Watermark(FALSE)
    <3>1. date[k] < Watermark(FALSE)
      BY <2>2
    <3> QED
      BY <3>1, <2>2, <1>1 DEF IInv, NothingBehindWatermark, Open
  <2> QED
    BY <1>2, <2>1, <2>2
<1>4. kind = "pages" => date[k] # 0
  BY <1>1 DEF IInv, TopicsDated
<1>5. walk.since \in Int /\ walk.got \subseteq Listed \X (0 .. LastTick + 1)
      /\ LastTick \in Nat
  BY Bounds DEF IInv, Shapes, WalkSound
<1>6. <<k, date[k]>> \notin walk.got
  <2> SUFFICES ASSUME <<k, date[k]>> \in walk.got PROVE FALSE
    OBVIOUS
  <2>1. date[k] >= walk.since \/ (date[k] = 0 /\ kind # "pages")
    BY <1>1, <1>3, <1>4, <1>5
  <2>2. <<k, date[k]>> \in Yield /\ <<k, date[k]>>[1] = k
    BY <2>1 DEF Yield
  <2> QED
    BY <2>2
<1>7. PICK e \in walk.got : /\ Start(walk.page + 1) <= Rank(date, k)
                            /\ date[k] <= e[2]
  BY <1>6 DEF Coming
<1>8. walk.page + 1 \in Pages
  <2> SUFFICES ASSUME walk.page + 1 = Cardinality(Pages) PROVE FALSE
    BY WalkState, PageFacts DEF IInv
  <2>1. Rank(date, k) < Start(walk.page + 1)
    BY DEF IInv, OpenOnPages
  <2>2. Rank(date, k) \in Nat /\ Start(walk.page + 1) \in Nat
    BY WalkState, RankType
  <2> QED
    BY <1>7, <2>1, <2>2
<1>9. kind = "pages"
  <2> SUFFICES ASSUME kind # "pages" PROVE FALSE
    OBVIOUS
  <2>1. Pages = {0}
    BY PageFacts DEF IInv
  <2>2. walk.page = 0
    BY <2>1, WalkState
  <2> QED
    BY <1>8, <2>1, <2>2
<1>10. e \in Yield
  <2>1. e[2] \in Nat
    BY <1>5
  <2>2. e[2] >= walk.since
    BY <1>1, <1>3, <1>4, <1>5, <1>7, <1>9, <2>1
  <2> QED
    BY <2>2 DEF Yield
<1> QED
  BY <1>7, <1>8, <1>10

LEMMA YieldType ==
  ASSUME IInv, walk.pc # "idle"
  PROVE  /\ {e[1] : e \in Yield} \subseteq Listed
         /\ \A e \in Yield : e[2] \in Nat
<1>1. Yield \subseteq Listed \X (0 .. LastTick + 1)
  BY DEF IInv, WalkSound, Yield
<1> QED
  BY <1>1, Bounds

LEMMA ReadIInv == IInv /\ Read => IInv'
<1> SUFFICES ASSUME IInv, Read PROVE IInv'
  OBVIOUS
<1> DEFINE n == walk.page
           t == Newest({walk.newest} \cup
                       {e[2] : e \in {f \in Yield : Credible(f[2], walk.began)}})
           more == Yield # {} /\ n + 1 \in Pages
<1>1. /\ walk.pc = "read" /\ seen' = seen \cup {e[1] : e \in Yield}
      /\ Account(seen', {}, {})
      /\ UNCHANGED <<remote, clock, validator, row, faults>>
      /\ walk' = IF more
                 THEN [walk EXCEPT !.pc = "get", !.page = @ + 1, !.newest = t,
                                   !.got = {}, !.listed = @ \ seen']
                 ELSE [walk EXCEPT !.pc = "end", !.newest = t,
                                   !.got = {}, !.listed = @ \ seen']
  BY DEF Read
<1>2. /\ walk.began \in Nat /\ walk.newest \in Nat /\ walk.newest <= walk.began
      /\ walk.listed \subseteq Listed
  BY <1>1 DEF IInv, WalkSound
<1>3. t \in Nat /\ t <= walk.began
  <2>1. \A e \in Yield : e[2] \in Nat
    BY <1>1, YieldType
  <2>2. {e[2] : e \in {f \in Yield : Credible(f[2], walk.began)}} \subseteq 0 .. walk.began
    BY <2>1, <1>2 DEF Credible
  <2>3. {walk.newest} \cup
        {e[2] : e \in {f \in Yield : Credible(f[2], walk.began)}} \subseteq 0 .. walk.began
    BY <2>2, <1>2
  <2> QED
    BY <2>3, <1>2, NewestType
<1>4. n \in Pages /\ n \in Nat
  BY <1>1, WalkState
<1>5. more \in BOOLEAN /\ (more <=> Yield # {} /\ n + 1 \in Pages)
  OBVIOUS
<1>6. walk \in [pc : {"idle", "get", "read", "end"}, page : Nat, since : Int,
                 began : Nat, newest : Nat, got : SUBSET (Items \X (0 .. LastTick + 1)),
                 listed : SUBSET Items]
  BY DEF IInv, Shapes
<1> HIDE DEF t, more
<1>7. /\ walk' \in [pc : {"idle", "get", "read", "end"}, page : Nat, since : Int,
                 began : Nat, newest : Nat, got : SUBSET (Items \X (0 .. LastTick + 1)),
                 listed : SUBSET Items]
      /\ walk'.got = {} /\ walk'.since = walk.since /\ walk'.began = walk.began
      /\ walk'.newest = t /\ walk'.listed = walk.listed \ seen'
      /\ walk'.pc # "idle"
      /\ more => walk'.pc = "get" /\ walk'.page = n + 1
      /\ ~more => walk'.pc = "end" /\ walk'.page = n
  <2>0. walk.listed \ seen' \in SUBSET Items /\ n + 1 \in Nat
    BY <1>4, <1>6
  <2>1. CASE more
    <3>1. walk' = [walk EXCEPT !.pc = "get", !.page = @ + 1, !.newest = t,
                               !.got = {}, !.listed = @ \ seen']
      BY <1>1, <2>1
    <3>2. walk'.pc = "get" /\ walk'.page = n + 1 /\ walk'.newest = t /\ walk'.got = {}
          /\ walk'.listed = walk.listed \ seen'
          /\ walk'.since = walk.since /\ walk'.began = walk.began
      BY <3>1, <1>6
    <3> QED
      BY <2>0, <2>1, <3>1, <3>2, <1>3, <1>6
  <2>2. CASE ~more
    <3>1. walk' = [walk EXCEPT !.pc = "end", !.newest = t,
                               !.got = {}, !.listed = @ \ seen']
      BY <1>1, <2>2
    <3>2. walk'.pc = "end" /\ walk'.page = n /\ walk'.newest = t /\ walk'.got = {}
          /\ walk'.listed = walk.listed \ seen'
          /\ walk'.since = walk.since /\ walk'.began = walk.began
      BY <3>1, <1>6
    <3> QED
      BY <2>0, <2>2, <3>1, <3>2, <1>3, <1>6
  <2> QED
    BY <2>1, <2>2
<1>8. /\ kind' = kind /\ date' = date /\ Listed' = Listed /\ remote' = remote
      /\ last_item_at' = last_item_at /\ last_success_at' = last_success_at
      /\ backfilled' = backfilled /\ faults' = faults /\ clock' = clock
      /\ validator' = validator /\ Pages' = Pages /\ Height' = Height
      /\ \A i : Rank(date, i)' = Rank(date, i)
      /\ \A p : Start(p)' = Start(p) /\ Page(date, p)' = Page(date, p)
  BY <1>1, SiteStays DEF row
<1>9. seen \subseteq seen' /\ seen' \subseteq Listed
  BY <1>1, YieldType DEF IInv, Shapes, TypeOK
<1>10. /\ Open' \subseteq Open \ seen'
       /\ excused' \subseteq Listed /\ owed' \subseteq Listed /\ shadowed' \subseteq Listed
       /\ CompletedWalkReadAll' /\ NothingBehindWatermark'
  BY <1>1, <1>9, AccountKept
<1>11. Shapes'
  <2>1. walk'.pc \in {"idle", "get", "read", "end"} /\ walk'.since <= clock
    BY <1>7 DEF IInv, Shapes, TypeOK
  <2>2. TypeOK'
    BY <2>1, <1>8, <1>9, <1>10 DEF IInv, Shapes, TypeOK
  <2> QED
    BY <2>2, <1>7, <1>8 DEF IInv, Shapes
<1>12. ValidatorsOnce' /\ OpenOnPages' /\ TopicsDated'
  BY <1>8, <1>10, SiteStill DEF IInv, ValidatorsOnce
<1>13. ASSUME NEW k \in Open', Coming(k) PROVE Coming(k)' /\ more
  <2>1. k \in Open /\ k \notin {e[1] : e \in Yield}
    BY <1>1, <1>10
  <2>2. Start(n + 1) <= Rank(date, k) /\ more
    BY <2>1, <1>1, <1>5, <1>13, PageYields
  <2>3. Start(walk.page)' = Start(n + 1)
    BY <2>2, <1>7, <1>8 DEF Start
  <2> QED
    BY <2>2, <2>3, <1>7, <1>8 DEF Coming
<1>14. NothingHidden'
  <2>1. ASSUME NEW k \in Open', NEW p \in Pages, Match(p), Start(p) <= Rank(date, k)
        PROVE  Coming(k)' /\ Fetched(p)'
    <3>1. Coming(k) /\ Fetched(p)
      BY <2>1, <1>10 DEF IInv, NothingHidden
    <3>2. Coming(k)' /\ more
      BY <3>1, <1>13
    <3>3. p \in Nat
      BY WalkState, <1>1
    <3> QED
      BY <3>1, <3>2, <3>3, <1>4, <1>7 DEF Fetched
  <2>2. \A p : Match(p)' <=> Match(p)
    BY <1>8 DEF Match
  <2> QED
    BY <2>1, <2>2, <1>8 DEF NothingHidden
<1>15. WalkReaches'
  <2>1. \A k \in walk.listed \cap Open : Coming(k)
    BY <1>1 DEF IInv, WalkReaches
  <2> QED
    BY <2>1, <1>7, <1>10, <1>13 DEF WalkReaches
<1>16. NewcomersCovered'
  <2>1. \A k \in Open \ walk.listed :
            date[k] = 0 \/ date[k] >= walk.began - (Overlap - MaxWalk)
    BY <1>1 DEF IInv, NewcomersCovered
  <2>2. Open' \ walk'.listed \subseteq Open \ walk.listed
    BY <1>7, <1>10
  <2> QED
    BY <2>1, <2>2, <1>7, <1>8 DEF NewcomersCovered
<1>17. WalkSound'
  <2>1. Watermark(FALSE)' = Watermark(FALSE)
    BY <1>8 DEF Watermark
  <2>2. walk'.page \in Pages
    BY <1>4, <1>5, <1>7
  <2>3. IsFiniteSet({})
    BY FS_EmptySet
  <2>4. /\ walk'.began \in Nat /\ walk'.began <= clock /\ clock <= walk'.began + MaxWalk
        /\ last_item_at <= walk'.began
        /\ walk'.newest \in Nat /\ walk'.newest <= walk'.began
    BY <1>1, <1>2, <1>3, <1>7 DEF IInv, WalkSound
  <2>5. walk'.since = 0 \/ (backfilled' /\ walk'.since = Watermark(FALSE)')
    BY <1>1, <1>7, <1>8, <2>1 DEF IInv, WalkSound
  <2>6. walk'.listed \subseteq Listed'
    BY <1>2, <1>7, <1>8
  <2>7. /\ IsFiniteSet(walk'.got) /\ walk'.got \subseteq Listed' \X (0 .. LastTick + 1)
        /\ walk'.page \in Pages'
    BY <2>2, <2>3, <1>7, <1>8
  <2> QED
    BY <2>4, <2>5, <2>6, <2>7, <1>8 DEF WalkSound
<1> QED
  BY <1>10, <1>11, <1>12, <1>14, <1>15, <1>16, <1>17 DEF IInv

\* A walk that fails leaves validators, and the books say what they hide.
LEMMA FailIInv == IInv /\ Fail => IInv'
<1> SUFFICES ASSUME IInv, Fail PROVE IInv'
  OBVIOUS
<1>1. /\ faults < MaxFaults /\ faults' = faults + 1 /\ walk.pc # "idle"
      /\ UNCHANGED <<remote, clock, validator, row>>
      /\ walk' = Idle
  BY DEF Fail
<1>2. PICK part \in SUBSET {e[1] : e \in Yield} :
          seen' = seen \cup part /\ Account(seen', {}, Hidden(validator, seen'))
  BY DEF Fail
<1>3. /\ kind' = kind /\ date' = date /\ Listed' = Listed /\ remote' = remote
      /\ last_item_at' = last_item_at /\ last_success_at' = last_success_at
      /\ backfilled' = backfilled /\ clock' = clock
      /\ validator' = validator /\ Pages' = Pages
      /\ \A i : Rank(date, i)' = Rank(date, i)
      /\ \A p : Start(p)' = Start(p) /\ Page(date, p)' = Page(date, p)
  BY <1>1, SiteStays DEF row
<1>4. seen \subseteq seen' /\ seen' \subseteq Listed
  BY <1>1, <1>2, YieldType DEF IInv, Shapes, TypeOK
<1>5. Hidden(validator, seen') \subseteq Listed
  BY DEF Hidden
<1>6. /\ Open' \subseteq Open \ (Hidden(validator, seen') \cup seen')
      /\ excused' \subseteq Listed /\ owed' \subseteq Listed /\ shadowed' \subseteq Listed
      /\ CompletedWalkReadAll' /\ NothingBehindWatermark'
  BY <1>1, <1>2, <1>4, <1>5, AccountKept
<1>7. walk'.pc = "idle" /\ walk'.since = 0
      /\ walk' \in [pc : {"idle", "get", "read", "end"}, page : Nat, since : Int,
                 began : Nat, newest : Nat, got : SUBSET (Items \X (0 .. LastTick + 1)),
                 listed : SUBSET Items]
  BY <1>1 DEF Idle
<1>8. Shapes'
  <2>1. faults' \in 0 .. MaxFaults
    BY <1>1, Bounds DEF IInv, Shapes, TypeOK
  <2>2. walk'.pc \in {"idle", "get", "read", "end"} /\ walk'.since <= clock
    BY <1>7, WatermarkType
  <2>3. TypeOK'
    BY <2>1, <2>2, <1>3, <1>4, <1>6 DEF IInv, Shapes, TypeOK
  <2> QED
    BY <2>3, <1>3, <1>7 DEF IInv, Shapes
<1>9. ValidatorsOnce' /\ OpenOnPages' /\ TopicsDated'
  BY <1>3, <1>6, SiteStill DEF IInv, ValidatorsOnce
<1>10. NothingHidden'
  <2>1. ASSUME NEW k \in Open', NEW p \in Pages, Match(p), Start(p) <= Rank(date, k)
        PROVE  FALSE
    <3>1. k \in Listed /\ k \notin seen' /\ k \notin Hidden(validator, seen')
      BY <1>6 DEF Open
    <3>2. Rank(date, k) \in Nat /\ p * Height = Start(p) /\ Start(p) \in Nat
      BY <1>1, WalkState, RankType, Starts DEF Start
    <3>3. Rank(date, k) >= p * Height
      BY <2>1, <3>2
    <3> QED
      BY <2>1, <3>1, <3>3 DEF Hidden, Match
  <2>2. \A p : Match(p)' <=> Match(p)
    BY <1>3 DEF Match
  <2> QED
    BY <2>1, <2>2, <1>3 DEF NothingHidden
<1>11. WalkReaches' /\ NewcomersCovered' /\ WalkSound'
  BY <1>7 DEF WalkReaches, NewcomersCovered, WalkSound
<1> QED
  BY <1>6, <1>8, <1>9, <1>10, <1>11 DEF IInv

\* So does a test fetch, for a walk at work too.
LEMMA TestFetchIInv == IInv /\ TestFetch => IInv'
<1> SUFFICES ASSUME IInv, TestFetch PROVE IInv'
  OBVIOUS
<1>1. /\ faults < MaxFaults /\ faults' = faults + 1 /\ kind # "query"
      /\ Account(seen, {}, Hidden(validator', seen))
      /\ UNCHANGED <<remote, clock, row, seen, walk>>
  BY DEF TestFetch
<1>2. PICK last \in Pages :
          validator' = [p \in Pages |-> IF p <= last THEN Page(date, p) ELSE validator[p]]
  BY DEF TestFetch
<1>3. /\ kind' = kind /\ date' = date /\ Listed' = Listed /\ remote' = remote
      /\ last_item_at' = last_item_at /\ last_success_at' = last_success_at
      /\ backfilled' = backfilled /\ clock' = clock /\ seen' = seen /\ walk' = walk
      /\ Pages' = Pages
      /\ \A i : Rank(date, i)' = Rank(date, i)
      /\ \A p : Start(p)' = Start(p) /\ Page(date, p)' = Page(date, p)
  BY <1>1, SiteStays DEF row
<1>4. /\ Listing(date) /\ Pages \subseteq Nat /\ kind \in Kinds
  BY PageFacts DEF IInv
<1>5. seen \subseteq Listed /\ Listed \subseteq Items
  BY DEF IInv, Shapes, TypeOK
<1>6. Hidden(validator', seen) \subseteq Listed
  BY DEF Hidden
<1>7. /\ Open' \subseteq Open \ (Hidden(validator', seen) \cup seen)
      /\ excused' \subseteq Listed /\ owed' \subseteq Listed /\ shadowed' \subseteq Listed
      /\ CompletedWalkReadAll' /\ NothingBehindWatermark'
  <2>1. Account(seen', {}, Hidden(validator', seen))
    BY <1>1, <1>3
  <2> QED
    BY <2>1, <1>1, <1>3, <1>5, <1>6, AccountKept
<1>8. /\ validator' \in [Pages -> SUBSET (Items \X (0 .. LastTick + 1))]
      /\ \A p \in Pages : validator'[p] = Page(date, p) \/ validator'[p] = validator[p]
  <2>1. \A p \in Pages : Page(date, p) \in SUBSET (Items \X (0 .. LastTick + 1))
    BY PageType, <1>5
  <2>2. \A p \in Pages : validator[p] \in SUBSET (Items \X (0 .. LastTick + 1))
    BY DEF IInv, Shapes
  <2>3. \A p \in Pages : validator'[p] = Page(date, p) \/ validator'[p] = validator[p]
    BY <1>2
  <2>4. DOMAIN validator' = Pages /\ validator' = [p \in Pages |-> validator'[p]]
    BY <1>2
  <2> QED
    BY <2>1, <2>2, <2>3, <2>4
<1>9. Shapes'
  <2>1. faults' \in 0 .. MaxFaults
    BY <1>1, Bounds DEF IInv, Shapes, TypeOK
  <2>2. \A p \in Pages : validator'[p] \subseteq Items \X (0 .. LastTick + 1)
    BY <1>8
  <2>3. TypeOK'
    BY <2>1, <2>2, <1>3, <1>7 DEF IInv, Shapes, TypeOK
  <2> QED
    BY <2>3, <1>1, <1>3, <1>8 DEF IInv, Shapes
<1>10. ValidatorsOnce' /\ OpenOnPages' /\ TopicsDated'
  <2>1. \A p \in Pages : Once(Page(date, p), date, p)
    BY <1>4, PageIsOnce
  <2>2. \A p \in Pages : Once(validator'[p], date, p)
    BY <2>1, <1>8 DEF IInv, ValidatorsOnce
  <2> QED
    BY <2>2, <1>3, <1>7, SiteStill
<1>11. NothingHidden'
  <2>1. ASSUME NEW k \in Open', NEW p \in Pages, Match(p)', Start(p) <= Rank(date, k)
        PROVE  FALSE
    <3>1. k \in Listed /\ k \notin seen /\ k \notin Hidden(validator', seen)
      BY <1>5, <1>7 DEF Open
    <3>2. Rank(date, k) \in Nat /\ p * Height = Start(p) /\ Start(p) \in Nat
      BY <1>4, RankType, Starts DEF Start
    <3>3. Rank(date, k) >= p * Height
      BY <2>1, <3>2
    <3>4. validator'[p] # {} /\ validator'[p] = Page(date, p)
      BY <2>1, <1>3 DEF Match
    <3> QED
      BY <3>1, <3>3, <3>4 DEF Hidden
  <2> QED
    BY <2>1, <1>3 DEF NothingHidden
<1>12. WalkReaches'
  <2>1. /\ Start(walk.page)' = Start(walk.page)
        /\ Start(walk.page + 1)' = Start(walk.page + 1)
    BY <1>3, StartStays
  <2>2. \A k : Coming(k)' <=> Coming(k)
    BY <2>1, <1>3 DEF Coming
  <2> QED
    BY <2>2, <1>3, <1>7 DEF IInv, WalkReaches
<1>13. NewcomersCovered'
  BY <1>3, <1>7 DEF IInv, NewcomersCovered
<1>14. WalkSound'
  <2>1. Watermark(FALSE)' = Watermark(FALSE)
    BY <1>3 DEF Watermark
  <2> QED
    BY <2>1, <1>3 DEF IInv, WalkSound
<1> QED
  BY <1>7, <1>9, <1>10, <1>11, <1>12, <1>13, <1>14 DEF IInv

-----------------------------------------------------------------------------
LEMMA NextIInv == IInv /\ [Next]_vars => IInv'
<1> SUFFICES ASSUME IInv, [Next]_vars PROVE IInv'
  OBVIOUS
<1>1. ASSUME NEW i \in Items, Bump(i) PROVE IInv'
  BY <1>1, BumpIInv
<1>2. ASSUME NEW i \in Items, NEW t \in 0 .. LastTick + 1, Publish(i, t) PROVE IInv'
  BY <1>2, PublishIInv
<1>3. CASE Tick
  BY <1>3, TickIInv
<1>4. ASSUME NEW seed \in BOOLEAN, StartWalk(seed) PROVE IInv'
  BY <1>4, StartIInv
<1>5. CASE GetUnchanged
  BY <1>5, UnchangedIInv
<1>6. CASE Get
  BY <1>6, GetIInv
<1>7. CASE Read
  BY <1>7, ReadIInv
<1>8. CASE Complete
  BY <1>8, CompleteIInv
<1>9. CASE Fail
  BY <1>9, FailIInv
<1>10. CASE TestFetch
  BY <1>10, TestFetchIInv
<1>11. CASE UNCHANGED vars
  BY <1>11, StutterIInv
<1> QED
  BY <1>1, <1>2, <1>3, <1>4, <1>5, <1>6, <1>7, <1>8, <1>9, <1>10, <1>11
     DEF Next, Site, Walk

\* The invariant, of every behaviour of the specification
THEOREM WalkInvariant == Spec => []IInv
  BY InitIInv, NextIInv, PTL DEF Spec

\* Every variable of a source keeps its type: the watermark never passes the
\* clock, and only what is listed has a row.
THEOREM TypeCorrect == Spec => []TypeOK
<1>1. IInv => TypeOK
  BY DEF IInv, Shapes
<1> QED
  BY <1>1, WalkInvariant, PTL

\* A walk of _fetch_source that completes has read all that was listed when
\* it began, save what came in late and what lies behind the validator of a
\* walk that failed or of a test fetch: with any number of items and pages,
\* topics that move while it walks, and 304 answers of HttpClient.get.
THEOREM CompletedWalks == Spec => []CompletedWalkReadAll
<1>1. IInv => CompletedWalkReadAll
  BY DEF IInv
<1> QED
  BY <1>1, WalkInvariant, PTL

\* _watermark passes over no item without a row, for any overlap that is no
\* shorter than a walk.
THEOREM WatermarkPassesNothing == Spec => []NothingBehindWatermark
<1>1. IInv => NothingBehindWatermark
  BY DEF IInv
<1> QED
  BY <1>1, WalkInvariant, PTL
=============================================================================
