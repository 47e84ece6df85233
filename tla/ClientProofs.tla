---------------------------- MODULE ClientProofs ----------------------------
(***************************************************************************)
(* Two machines of the client programs, proved for every value of their    *)
(* constants: the queue of delayed datagrams keeps its time and order, and *)
(* the bot client's report is honest whatever the lobby, the host and the  *)
(* game servers say.                                                       *)
(***************************************************************************)
EXTENDS DatagramQueue, BotClient, FiniteSetTheorems, SequenceTheorems,
        WellFoundedInduction, TLAPS

-----------------------------------------------------------------------------
(* The queue of delayed datagrams. *)

Handler == [generation : Nat, failed : BOOLEAN]

QueueTypes ==
    /\ now \in Nat /\ nextOrdinal \in Nat \ {0}
    /\ items \in Seq(Item)
    /\ timer \in [at : Nat, generation : Nat]
    /\ timerArmed \in BOOLEAN /\ timerGeneration \in Nat
    /\ handlers \subseteq Handler
    /\ stopped \in BOOLEAN
    /\ delivered \in Seq([item : Item, at : Nat])

\* No handler and no timer is ahead of the generation, and what was cancelled is of
\* an earlier one, but for the cancellation by Stop.
Generations ==
    /\ timer # NotWaiting => timer.generation <= timerGeneration
    /\ \A h \in handlers : h.generation <= timerGeneration
    /\ \A h \in handlers : h.failed /\ h.generation = timerGeneration => stopped
    /\ stopped => items = <<>>

\* The items are in the order they will be delivered in, and after all that were.
InOrder ==
    /\ \A i, j \in 1 .. Len(items) : i < j => Before(items[i], items[j])
    /\ \A i \in 1 .. Len(items) : items[i].ordinal < nextOrdinal
    /\ \A i \in 1 .. Len(delivered), j \in 1 .. Len(items) :
          Before(delivered[i].item, items[j])
    /\ \A i \in 1 .. Len(delivered) : delivered[i].at <= now

QueueInv == QueueTypes /\ Generations /\ InOrder /\ DatagramsKeepTime

-----------------------------------------------------------------------------
(* Sets of positions. *)

LEMMA LeastPosition ==
    ASSUME NEW X, X \subseteq Nat, X # {}
    PROVE  \E x \in X : \A y \in X : x <= y
<1> DEFINE R == OpToRel(<, Nat)
<1>1. PICK x \in X : \A y \in X : ~ (<<y, x>> \in R)
  <2> HIDE DEF R
  <2> IsWellFoundedOn(R, Nat)  BY NatLessThanWellFounded DEF R
  <2> QED  BY WFMin
<1>2. ASSUME NEW y \in X PROVE x <= y
  <2>1. ~ (y < x)  BY <1>1 DEF OpToRel
  <2> QED  BY <2>1
<1> QED  BY <1>2

\* A set of positions that has every smaller one is the first so many.
LEMMA FirstPositions ==
    ASSUME NEW n \in Nat, NEW S \in SUBSET (1 .. n),
           \A i \in S, j \in 1 .. n : j < i => j \in S
    PROVE  Cardinality(S) \in 0 .. n /\ S = 1 .. Cardinality(S)
<1>1. CASE S = 1 .. n
  <2>1. Cardinality(1 .. n) = n  BY FS_Interval
  <2> QED  BY <1>1, <2>1
<1>2. CASE S # 1 .. n
  <2> DEFINE X == (1 .. n) \ S
  <2>1. X \subseteq Nat /\ X # {}
    <3>1. X \subseteq Nat  OBVIOUS
    <3>2. \E i \in 1 .. n : i \notin S  BY <1>2
    <3> QED  BY <3>1, <3>2
  <2>2. PICK e \in X : \A y \in X : e <= y
    <3> HIDE DEF X
    <3> QED  BY <2>1, LeastPosition
  <2>3. e \in 1 .. n /\ e \notin S  BY <2>2
  <2>4. S = 1 .. e - 1
    <3>1. ASSUME NEW i \in S  PROVE i \in 1 .. e - 1
      <4>1. i \in 1 .. n /\ ~(e < i)  BY <2>3
      <4>2. i # e  BY <2>3
      <4> QED  BY <2>3, <4>1, <4>2
    <3>2. ASSUME NEW i \in 1 .. e - 1  PROVE i \in S
      <4>1. i \in 1 .. n /\ ~(e <= i)  BY <2>3
      <4> QED  BY <2>2, <4>1
    <3> QED  BY <3>1, <3>2
  <2>5. Cardinality(1 .. e - 1) = e - 1  BY <2>3, FS_Interval
  <2> QED  BY <2>3, <2>4, <2>5
<1> QED  BY <1>1, <1>2

-----------------------------------------------------------------------------
(* Where an item is inserted, and which ones are due. *)

LEMMA BeforeIsAnOrder ==
    ASSUME NEW x \in Item, NEW y \in Item, NEW z \in Item
    PROVE  /\ Before(x, y) /\ Before(y, z) => Before(x, z)
           /\ ~Before(x, y) /\ Before(z, y) => Before(z, x) \/ z = x
           /\ Before(x, y) => ~Before(y, x)
           /\ ~Before(x, y) => Before(y, x) \/ x.ordinal = y.ordinal
BY DEF Item, Before

\* The items that are not after a new one are the first so many.
LEMMA PlaceIs ==
    ASSUME QueueTypes, InOrder, NEW item \in Item
    PROVE  /\ Place(item) \in 1 .. Len(items) + 1
           /\ \A i \in 1 .. Len(items) :
                 i < Place(item) <=> ~Before(item, items[i])
<1> DEFINE S == {i \in DOMAIN items : ~Before(item, items[i])}
           n == Len(items)
<1>1. n \in Nat /\ DOMAIN items = 1 .. n /\ \A i \in 1 .. n : items[i] \in Item
  BY LenProperties, ElementOfSeq DEF QueueTypes
<1>2. S \in SUBSET (1 .. n)  BY <1>1
<1>3. ASSUME NEW i \in S, NEW j \in 1 .. n, j < i  PROVE j \in S
  <2>1. Before(items[j], items[i])  BY <1>1, <1>3 DEF InOrder
  <2>2. ~Before(item, items[i])  OBVIOUS
  <2>3. ~Before(item, items[j])  BY <1>1, <2>1, <2>2, BeforeIsAnOrder
  <2> QED  BY <1>1, <2>3
<1>4. Cardinality(S) \in 0 .. n /\ S = 1 .. Cardinality(S)
  <2> HIDE DEF S, n
  <2> QED  BY <1>1, <1>2, <1>3, FirstPositions
<1>5. Place(item) = Cardinality(S) + 1  BY DEF Place
<1>6. \A i \in 1 .. n : i \in S <=> ~Before(item, items[i])  BY <1>1
<1> HIDE DEF S, n
<1>7. Place(item) \in 1 .. n + 1  BY <1>1, <1>4, <1>5
<1>8. \A i \in 1 .. n : i < Place(item) <=> i \in S  BY <1>1, <1>4, <1>5
<1> QED  BY <1>6, <1>7, <1>8 DEF n

\* The items that are due are the first so many.
LEMMA DueIs ==
    ASSUME QueueTypes, InOrder
    PROVE  /\ Cardinality(Due) \in 0 .. Len(items)
           /\ \A i \in 1 .. Len(items) : i <= Cardinality(Due) <=> items[i].time <= now
<1> DEFINE n == Len(items)
<1>1. n \in Nat /\ DOMAIN items = 1 .. n /\ \A i \in 1 .. n : items[i] \in Item
  BY LenProperties, ElementOfSeq DEF QueueTypes
<1>2. Due \in SUBSET (1 .. n)  BY <1>1 DEF Due
<1>3. ASSUME NEW i \in Due, NEW j \in 1 .. n, j < i  PROVE j \in Due
  <2>1. i \in 1 .. n /\ items[i].time <= now  BY <1>1 DEF Due
  <2>2. Before(items[j], items[i])  BY <1>3, <2>1 DEF InOrder
  <2>3. items[j].time <= items[i].time  BY <1>1, <2>1, <2>2 DEF Before, Item
  <2>4. items[j].time <= now  BY <1>1, <2>1, <2>3 DEF Item, QueueTypes
  <2> QED  BY <1>1, <2>4 DEF Due
<1>4. Cardinality(Due) \in 0 .. n /\ Due = 1 .. Cardinality(Due)
  <2> HIDE DEF n
  <2> QED  BY <1>1, <1>2, <1>3, FirstPositions
<1>5. \A i \in 1 .. n : i \in Due <=> items[i].time <= now  BY <1>1 DEF Due
<1> HIDE DEF n
<1>6. \A i \in 1 .. n : i <= Cardinality(Due) <=> i \in Due  BY <1>1, <1>4
<1> QED  BY <1>4, <1>5, <1>6 DEF n

LEMMA InsertIs ==
    ASSUME QueueTypes, NEW item \in Item, NEW k \in 1 .. Len(items) + 1
    PROVE  /\ InsertAt(items, k, item) \in Seq(Item)
           /\ Len(InsertAt(items, k, item)) = Len(items) + 1
           /\ \A i \in 1 .. Len(items) + 1 :
                 InsertAt(items, k, item)[i] =
                    IF i < k THEN items[i] ELSE IF i = k THEN item ELSE items[i - 1]
<1> DEFINE n == Len(items)
           l == SubSeq(items, 1, k - 1)
           r == SubSeq(items, k, n)
           m == l \o <<item>>
<1>1. n \in Nat /\ items \in Seq(Item) /\ \A i \in 1 .. n : items[i] \in Item
  BY LenProperties, ElementOfSeq DEF QueueTypes
<1>0. k \in 1 .. n + 1  OBVIOUS
<1> HIDE DEF n
<1>2. l \in Seq(Item) /\ Len(l) = k - 1 /\ \A i \in 1 .. k - 1 : l[i] = items[i]
  <2>1. 1 \in Int /\ k - 1 \in Int /\ \A i \in 1 .. k - 1 : items[i] \in Item
    BY <1>0, <1>1
  <2>2. /\ l \in Seq(Item) /\ Len(l) = IF 1 <= k - 1 THEN k - 1 - 1 + 1 ELSE 0
        /\ \A i \in 1 .. k - 1 - 1 + 1 : l[i] = items[1 + i - 1]
    BY <2>1, SubSeqProperties
  <2> HIDE DEF l
  <2>3. 1 .. k - 1 - 1 + 1 = 1 .. k - 1  BY <1>0, <1>1
  <2>4. \A i \in 1 .. k - 1 : 1 + i - 1 = i  OBVIOUS
  <2> QED  BY <1>0, <1>1, <2>2, <2>3, <2>4
<1>3. r \in Seq(Item) /\ Len(r) = n - k + 1 /\ \A i \in 1 .. n - k + 1 : r[i] = items[k + i - 1]
  <2>1. k \in Int /\ n \in Int /\ \A i \in k .. n : items[i] \in Item
    BY <1>0, <1>1
  <2>2. /\ r \in Seq(Item) /\ Len(r) = IF k <= n THEN n - k + 1 ELSE 0
        /\ \A i \in 1 .. n - k + 1 : r[i] = items[k + i - 1]
    BY <2>1, SubSeqProperties
  <2> HIDE DEF r
  <2> QED  BY <1>0, <1>1, <2>2
<1>4. <<item>> \in Seq(Item) /\ Len(<<item>>) = 1 /\ <<item>>[1] = item  OBVIOUS
<1>5. InsertAt(items, k, item) = m \o r  BY DEF InsertAt, n
<1> HIDE DEF l, r
<1>6. m \in Seq(Item) /\ Len(m) = k /\ \A i \in 1 .. k : m[i] = IF i < k THEN items[i] ELSE item
  <2>1. m \in Seq(Item) /\ Len(m) = k  BY <1>2, <1>4, ConcatProperties
  <2>2. ASSUME NEW i \in 1 .. k  PROVE m[i] = IF i < k THEN items[i] ELSE item
    <3>0. i \in 1 .. Len(l) + Len(<<item>>)  BY <1>0, <1>1, <1>2, <1>4
    <3>1. m[i] = IF i <= Len(l) THEN l[i] ELSE <<item>>[i - Len(l)]
      BY <1>2, <1>4, <3>0, ConcatProperties
    <3>2. CASE i < k
      <4>1. i \in 1 .. k - 1 /\ i <= Len(l)  BY <1>0, <1>1, <1>2, <3>2
      <4> QED  BY <1>2, <3>1, <3>2, <4>1
    <3>3. CASE i = k
      <4>1. i - Len(l) = 1 /\ ~(i <= Len(l))  BY <1>0, <1>1, <1>2, <3>3
      <4> QED  BY <1>4, <3>1, <3>3, <4>1
    <3>4. i < k \/ i = k  BY <1>0, <1>1
    <3> QED  BY <3>2, <3>3, <3>4
  <2> QED  BY <2>1, <2>2
<1> HIDE DEF m
<1>7. m \o r \in Seq(Item) /\ Len(m \o r) = n + 1
  <2>1. m \o r \in Seq(Item) /\ Len(m \o r) = Len(m) + Len(r)
    BY <1>3, <1>6, ConcatProperties
  <2> QED  BY <1>0, <1>1, <1>3, <1>6, <2>1
<1>8. ASSUME NEW i \in 1 .. n + 1
      PROVE  (m \o r)[i] = IF i < k THEN items[i] ELSE IF i = k THEN item ELSE items[i - 1]
  <2>0. i \in 1 .. Len(m) + Len(r)  BY <1>0, <1>1, <1>3, <1>6
  <2>1. (m \o r)[i] = IF i <= k THEN m[i] ELSE r[i - k]
    BY <1>3, <1>6, <2>0, ConcatProperties
  <2>2. CASE i <= k
    <3>1. i \in 1 .. k /\ (~(i < k) => i = k)  BY <1>0, <1>1, <2>2
    <3> QED  BY <1>6, <2>1, <2>2, <3>1
  <2>3. CASE i > k
    <3>1. i - k \in 1 .. n - k + 1 /\ k + (i - k) - 1 = i - 1
          /\ ~(i < k) /\ i # k
      BY <1>0, <1>1, <2>3
    <3>2. r[i - k] = items[k + (i - k) - 1]  BY <1>3, <3>1
    <3>3. ~(i <= k)  BY <1>0, <1>1, <2>3
    <3>4. (m \o r)[i] = r[i - k]  BY <2>1, <3>3
    <3>5. (m \o r)[i] = items[i - 1]  BY <3>1, <3>2, <3>4
    <3> QED  BY <3>1, <3>5
  <2>4. i <= k \/ i > k  BY <1>0, <1>1
  <2> QED  BY <2>2, <2>3, <2>4
<1> QED  BY <1>1, <1>5, <1>7, <1>8 DEF n

LEMMA RestIs ==
    ASSUME QueueTypes, NEW k \in 0 .. Len(items)
    PROVE  /\ SubSeq(items, k + 1, Len(items)) \in Seq(Item)
           /\ Len(SubSeq(items, k + 1, Len(items))) = Len(items) - k
           /\ \A i \in 1 .. Len(items) - k :
                 SubSeq(items, k + 1, Len(items))[i] = items[k + i]
<1>1. Len(items) \in Nat /\ \A i \in 1 .. Len(items) : items[i] \in Item
  BY LenProperties, ElementOfSeq DEF QueueTypes
<1> QED  BY <1>1, SubSeqProperties

\* What is passed on: the first n of the items that are due, behind everything
\* that was passed on before.
Passed == [item : Item, at : Nat]

LEMMA PassedOnIs ==
    ASSUME QueueTypes, InOrder, NEW n \in 0 .. Cardinality(Due)
    PROVE  /\ PassedOn(n) \in Seq(Passed) /\ Len(PassedOn(n)) = n
           /\ \A i \in 1 .. n : /\ i \in 1 .. Len(items)
                                /\ PassedOn(n)[i].item = items[i]
                                /\ PassedOn(n)[i].at = now
                                /\ items[i].time <= now
<1> DEFINE c == Cardinality(Due)
<1>1. /\ Len(items) \in Nat /\ c \in 0 .. Len(items)
      /\ \A i \in 1 .. Len(items) : items[i] \in Item
      /\ \A i \in 1 .. Len(items) : i <= c <=> items[i].time <= now
  BY LenProperties, ElementOfSeq, DueIs DEF QueueTypes
<1>2. \A i \in 1 .. c : DueItems[i] = items[i]
  <2>1. \A i \in 1 .. c : items[i] \in Item  BY <1>1
  <2> HIDE DEF c
  <2>2. 1 \in Int /\ c \in Int /\ \A i \in 1 .. c - 1 + 1 : SubSeq(items, 1, c)[i] = items[1 + i - 1]
    BY <1>1, <2>1, SubSeqProperties
  <2>3. \A i \in 1 .. c : i \in 1 .. c - 1 + 1 /\ 1 + i - 1 = i  BY <1>1
  <2>4. \A i \in 1 .. c : SubSeq(items, 1, c)[i] = items[i]  BY <2>2, <2>3
  <2> QED  BY <2>4 DEF DueItems, c
<1>3. n \in 0 .. c  OBVIOUS
<1> HIDE DEF c
<1>4. \A i \in 1 .. n : i \in 1 .. c /\ i \in 1 .. Len(items)  BY <1>1, <1>3
<1>5. PassedOn(n) = [i \in 1 .. n |-> [item |-> DueItems[i], at |-> now]]  BY DEF PassedOn
<1>6. ASSUME NEW i \in 1 .. n
      PROVE  /\ PassedOn(n)[i] = [item |-> items[i], at |-> now]
             /\ items[i].time <= now /\ items[i] \in Item
  BY <1>1, <1>2, <1>4, <1>5
<1>7. PassedOn(n) \in Seq(Passed) /\ Len(PassedOn(n)) = n
  <2>1. now \in Nat  BY DEF QueueTypes
  <2>2. ASSUME NEW i \in 1 .. n  PROVE PassedOn(n)[i] \in Passed
    <3>1. PassedOn(n)[i] = [item |-> items[i], at |-> now] /\ items[i] \in Item
      BY <1>6
    <3> QED  BY <2>1, <3>1 DEF Passed
  <2>3. PassedOn(n) \in [1 .. n -> Passed]  BY <1>5, <2>2
  <2>4. n \in Nat  BY <1>1, <1>3
  <2> QED  BY <2>3, <2>4
<1> QED  BY <1>4, <1>6, <1>7

LEMMA PassOn ==
    ASSUME QueueTypes, InOrder, DeliveriesInOrder, NEW n \in 0 .. Cardinality(Due),
           delivered' = delivered \o PassedOn(n), now' = now
    PROVE  /\ delivered' \in Seq(Passed)
           /\ DeliveriesInOrder'
           /\ \A i \in 1 .. Len(delivered') : delivered'[i].at <= now
           /\ \A i \in 1 .. Len(delivered'), j \in 1 .. Len(items) :
                 n < j => Before(delivered'[i].item, items[j])
<1> DEFINE d == Len(delivered)
<1>1. /\ delivered \in Seq(Passed) /\ d \in Nat /\ DOMAIN delivered = 1 .. d
      /\ now \in Nat /\ n \in Nat
  <2>1. Cardinality(Due) \in 0 .. Len(items) /\ Len(items) \in Nat
    BY DueIs, LenProperties DEF QueueTypes
  <2> QED  BY <2>1, LenProperties DEF QueueTypes, Passed
<1>2. /\ PassedOn(n) \in Seq(Passed) /\ Len(PassedOn(n)) = n
      /\ \A i \in 1 .. n : /\ i \in 1 .. Len(items)
                           /\ PassedOn(n)[i].item = items[i]
                           /\ PassedOn(n)[i].at = now
                           /\ items[i].time <= now
  BY PassedOnIs
<1>3. delivered' \in Seq(Passed) /\ Len(delivered') = d + n /\ DOMAIN delivered' = 1 .. d + n
  <2>1. /\ delivered \o PassedOn(n) \in Seq(Passed)
        /\ Len(delivered \o PassedOn(n)) = Len(delivered) + Len(PassedOn(n))
    BY <1>1, <1>2, ConcatProperties
  <2>2. delivered' \in Seq(Passed) /\ Len(delivered') = d + n  BY <1>2, <2>1
  <2> QED  BY <2>2, LenProperties
<1>4. \A i \in 1 .. d + n :
         delivered'[i] = IF i <= d THEN delivered[i] ELSE PassedOn(n)[i - d]
  BY <1>1, <1>2, ConcatProperties
<1> HIDE DEF d
<1>13. d \in Nat /\ n \in Nat /\ now \in Nat  BY <1>1
<1>12. \A i \in 1 .. d + n : i \in Int /\ (i <= d \/ i > d) /\ (i <= d => i \in 1 .. d)  BY <1>13
<1>5. \A i \in 1 .. d : i \in 1 .. d + n /\ i <= d /\ delivered'[i] = delivered[i]
  BY <1>1, <1>4
<1>6. ASSUME NEW i \in 1 .. d + n, i > d
      PROVE  /\ i - d \in 1 .. n /\ i - d \in 1 .. Len(items)
             /\ delivered'[i].item = items[i - d]
             /\ delivered'[i].at = now /\ items[i - d].time <= now
  <2>1. i - d \in 1 .. n /\ ~(i <= d)  BY <1>1, <1>6
  <2> QED  BY <1>2, <1>4, <2>1
<1>7. \A i \in 1 .. d : /\ delivered[i].item.time <= delivered[i].at
                        /\ delivered[i].at <= now
                        /\ \A j \in 1 .. d :
                              i < j => Before(delivered[i].item, delivered[j].item)
                        /\ \A j \in 1 .. Len(items) : Before(delivered[i].item, items[j])
  BY <1>1 DEF InOrder, DeliveriesInOrder, d
<1>8. ASSUME NEW i \in 1 .. d + n
      PROVE  delivered'[i].item.time <= delivered'[i].at /\ delivered'[i].at <= now
  <2>1. CASE i <= d
    <3>1. i \in 1 .. d  BY <1>12, <2>1
    <3> QED  BY <1>5, <1>7, <3>1
  <2>2. CASE i > d
    <3>1. /\ i - d \in 1 .. Len(items) /\ delivered'[i].item = items[i - d]
          /\ delivered'[i].at = now /\ items[i - d].time <= now
      BY <1>6, <2>2
    <3> QED  BY <1>13, <3>1
  <2> QED  BY <1>12, <2>1, <2>2
<1>9. ASSUME NEW i \in 1 .. d + n, NEW j \in 1 .. d + n, i < j
      PROVE  Before(delivered'[i].item, delivered'[j].item)
  <2>1. CASE j <= d
    <3>1. i \in 1 .. d /\ j \in 1 .. d  BY <1>1, <1>9, <2>1
    <3> QED  BY <1>5, <1>7, <1>9, <3>1
  <2>2. CASE i <= d /\ j > d
    <3>1. i \in 1 .. d  BY <1>12, <2>2
    <3> QED  BY <1>5, <1>6, <1>7, <2>2, <3>1
  <2>3. CASE i > d
    <3>1. j > d /\ i - d < j - d  BY <1>1, <1>9, <2>3
    <3> QED  BY <1>6, <2>3, <3>1 DEF InOrder
  <2> QED  BY <1>12, <2>1, <2>2, <2>3
<1>10. ASSUME NEW i \in 1 .. d + n, NEW j \in 1 .. Len(items), n < j
       PROVE  Before(delivered'[i].item, items[j])
  <2>1. CASE i <= d
    <3>1. i \in 1 .. d  BY <1>12, <2>1
    <3> QED  BY <1>5, <1>7, <3>1
  <2>2. CASE i > d
    <3>1. i - d \in 1 .. n /\ i - d \in 1 .. Len(items) /\ delivered'[i].item = items[i - d]
      BY <1>6, <2>2
    <3>2. i - d < j  BY <1>1, <1>10, <3>1, LenProperties DEF QueueTypes
    <3> QED  BY <3>1, <3>2 DEF InOrder
  <2> QED  BY <1>12, <2>1, <2>2
<1>11. DeliveriesInOrder'  BY <1>3, <1>8, <1>9 DEF DeliveriesInOrder
<1> QED  BY <1>3, <1>8, <1>10, <1>11

-----------------------------------------------------------------------------
\* Arming the timer, for what is left, leaves it covered.
LEMMA ArmCovers ==
    ASSUME QueueTypes, Generations, ~stopped, stopped' = stopped,
           NEW left \in Seq(Item), NEW ready \in SUBSET handlers,
           items' = left, Arm(left, ready)
    PROVE  /\ timer' \in [at : Nat, generation : Nat] /\ timerArmed' \in BOOLEAN
           /\ timerGeneration' \in Nat /\ handlers' \subseteq Handler
           /\ Generations' /\ TimerCoversFront'
<1>1. CASE left = <<>>
  <2>1. timerArmed' = FALSE /\ handlers' = ready /\ UNCHANGED <<timer, timerGeneration>>
    BY <1>1 DEF Arm
  <2>2. Generations'  BY <1>1, <2>1 DEF Generations
  <2>3. TimerCoversFront'  BY <1>1 DEF TimerCoversFront
  <2> QED  BY <2>1, <2>2, <2>3 DEF QueueTypes
<1>2. CASE left # <<>>
  <2>1. /\ timerGeneration' = timerGeneration + 1
        /\ timer' = [at |-> left[1].time, generation |-> timerGeneration + 1]
        /\ timerArmed' = TRUE
        /\ handlers' = ready \cup (Cancelled \ handlers)
    BY <1>2 DEF Arm
  <2>2. left[1] \in Item  BY <1>2, EmptySeq, ElementOfSeq
  <2>3. timerGeneration \in Nat /\ timerGeneration' \in Nat
    BY <2>1 DEF QueueTypes
  <2>4. ASSUME NEW h \in handlers'
        PROVE  h \in Handler /\ h.generation <= timerGeneration
    <3>1. CASE h \in handlers  BY <3>1 DEF QueueTypes, Generations
    <3>2. CASE h \in Cancelled /\ h \notin handlers
      <4>1. h = [generation |-> timer.generation, failed |-> TRUE] /\ timer # NotWaiting
        BY <3>2 DEF Cancelled
      <4>2. timer.generation \in Nat /\ timer.generation <= timerGeneration
        BY <4>1 DEF QueueTypes, Generations
      <4> QED  BY <4>1, <4>2 DEF Handler
    <3> QED  BY <2>1, <3>1, <3>2
  <2>5. timer' \in [at : Nat, generation : Nat]  BY <2>1, <2>2, <2>3 DEF Item
  <2>6. timer'.generation = timerGeneration'  BY <2>1
  <2>7. \A h \in handlers' : h.generation <= timerGeneration' /\ h.generation # timerGeneration'
    BY <2>1, <2>3, <2>4 DEF Handler
  <2>8. Generations'  BY <2>3, <2>6, <2>7 DEF Generations
  <2>9. TimerCoversFront'  BY <2>1 DEF TimerCoversFront
  <2> QED  BY <2>1, <2>3, <2>4, <2>5, <2>8, <2>9
<1> QED  BY <1>1, <1>2

LEMMA EnqueueInv ==
    ASSUME QueueInv, NEW drop \in BOOLEAN, NEW delay \in Delays, Enqueue(drop, delay)
    PROVE  QueueInv'
<1>1. /\ QueueTypes /\ Generations /\ InOrder /\ TimerCoversFront /\ DeliveriesInOrder
      /\ ~stopped /\ nextOrdinal' = nextOrdinal + 1 /\ delay \in Nat
      /\ now' = now /\ stopped' = stopped /\ delivered' = delivered
  BY QueueAssumption DEF QueueInv, DatagramsKeepTime, Enqueue
<1>2. DeliveriesInOrder'  BY <1>1 DEF DeliveriesInOrder
<1>3. CASE UNCHANGED <<items, timerVars>>
  <2>1. UNCHANGED <<items, timer, timerArmed, timerGeneration, handlers>>
    BY <1>3 DEF timerVars
  <2>2. nextOrdinal' \in Nat \ {0}  BY <1>1 DEF QueueTypes
  <2>3. QueueTypes'  BY <1>1, <2>1, <2>2 DEF QueueTypes
  <2>4. Generations' /\ TimerCoversFront'
    BY <1>1, <2>1 DEF Generations, TimerCoversFront
  <2>5. \A i \in 1 .. Len(items) : items[i].ordinal < nextOrdinal'
    <3>1. \A i \in 1 .. Len(items) : items[i] \in Item  BY <1>1, ElementOfSeq DEF QueueTypes
    <3> QED  BY <1>1, <3>1 DEF InOrder, Item, QueueTypes
  <2>6. InOrder'  BY <1>1, <2>1, <2>5 DEF InOrder
  <2> QED  BY <1>2, <2>3, <2>4, <2>6 DEF QueueInv, DatagramsKeepTime
<1>4. CASE delay # 0 /\ ~UNCHANGED <<items, timerVars>>
  <2> DEFINE item == [time |-> now + delay, ordinal |-> nextOrdinal]
             k == Place(item)
             n == Len(items)
  <2>1. item \in Item /\ item.time = now + delay /\ item.ordinal = nextOrdinal
    BY <1>1 DEF Item, QueueTypes
  <2>2. /\ items' = InsertAt(items, k, item)
        /\ IF items'[1] = item \/ ~timerArmed
             THEN Arm(items', handlers) ELSE UNCHANGED timerVars
    BY <1>4 DEF Enqueue, Insert
  <2> HIDE DEF item
  <2>3. k \in 1 .. n + 1 /\ \A i \in 1 .. n : i < k <=> ~Before(item, items[i])
    BY <1>1, <2>1, PlaceIs
  <2> HIDE DEF k
  <2>4. /\ items' \in Seq(Item) /\ Len(items') = n + 1
        /\ \A i \in 1 .. n + 1 : items'[i] =
              IF i < k THEN items[i] ELSE IF i = k THEN item ELSE items[i - 1]
    BY <1>1, <2>1, <2>2, <2>3, InsertIs
  <2>5. n \in Nat /\ \A i \in 1 .. n : items[i] \in Item
    BY <1>1, LenProperties, ElementOfSeq DEF QueueTypes
  <2> HIDE DEF n
  <2>6. \A i \in 1 .. n : /\ items[i].ordinal < nextOrdinal
                          /\ \A j \in 1 .. n : i < j => Before(items[i], items[j])
    BY <1>1 DEF InOrder, n
  <2>7. ASSUME NEW i \in 1 .. n + 1
        PROVE  \/ i < k /\ i \in 1 .. n /\ items'[i] = items[i] /\ Before(items[i], item)
               \/ i = k /\ items'[i] = item
               \/ i > k /\ i - 1 \in 1 .. n /\ i - 1 >= k /\ items'[i] = items[i - 1]
                  /\ Before(item, items[i - 1])
    <3>1. CASE i < k
      <4>1. i \in 1 .. n /\ items'[i] = items[i]  BY <2>3, <2>4, <2>5, <3>1
      <4>2. ~Before(item, items[i])  BY <2>3, <3>1, <4>1
      <4>3. items[i].ordinal # item.ordinal
        BY <1>1, <2>1, <2>5, <2>6, <4>1 DEF Item, QueueTypes
      <4>4. Before(items[i], item)  BY <2>1, <2>5, <4>1, <4>2, <4>3, BeforeIsAnOrder
      <4> QED  BY <3>1, <4>1, <4>4
    <3>2. CASE i = k
      <4>1. items'[k] = item  BY <2>3, <2>4
      <4> QED  BY <3>2, <4>1
    <3>3. CASE i > k
      <4>1. i - 1 \in 1 .. n /\ i - 1 >= k /\ ~(i < k) /\ i # k /\ ~(i - 1 < k)
        BY <2>3, <2>5, <3>3
      <4>2. items'[i] = items[i - 1]  BY <2>4, <4>1
      <4>3. Before(item, items[i - 1])  BY <2>3, <4>1
      <4> QED  BY <3>3, <4>1, <4>2, <4>3
    <3> QED  BY <2>3, <2>5, <3>1, <3>2, <3>3
  <2>8. ASSUME NEW i \in 1 .. n + 1, NEW j \in 1 .. n + 1, i < j
        PROVE  Before(items'[i], items'[j])
    <3>1. CASE j < k
      <4>1. i < k  BY <2>3, <2>5, <2>8, <3>1
      <4> QED  BY <2>3, <2>5, <2>6, <2>7, <2>8, <3>1, <4>1
    <3>2. CASE j = k
      <4>1. i < k  BY <2>8, <3>2
      <4> QED  BY <2>3, <2>5, <2>7, <3>2, <4>1
    <3>3. CASE j > k
      <4>1. /\ j - 1 \in 1 .. n /\ j - 1 >= k /\ items'[j] = items[j - 1]
            /\ Before(item, items[j - 1])
        BY <2>3, <2>5, <2>7, <3>3
      <4>2. CASE i < k
        <5>1. i \in 1 .. n /\ items'[i] = items[i] /\ i < j - 1
          BY <2>3, <2>5, <2>7, <4>1, <4>2
        <5> QED  BY <2>6, <4>1, <5>1
      <4>3. CASE i = k
        <5>1. items'[i] = item  BY <2>3, <2>4, <4>3
        <5> QED  BY <4>1, <5>1
      <4>4. CASE i > k
        <5>1. i - 1 \in 1 .. n /\ items'[i] = items[i - 1] /\ i - 1 < j - 1
          BY <2>3, <2>5, <2>7, <2>8, <4>4
        <5> QED  BY <2>6, <4>1, <5>1
      <4> QED  BY <2>3, <2>5, <4>2, <4>3, <4>4
    <3> QED  BY <2>3, <2>5, <3>1, <3>2, <3>3
  <2>9. ASSUME NEW i \in 1 .. n + 1  PROVE items'[i].ordinal < nextOrdinal + 1
    <3>1. nextOrdinal \in Nat /\ \A j \in 1 .. n : items[j].ordinal \in Nat
      BY <1>1, <2>5 DEF QueueTypes, Item
    <3> QED  BY <2>1, <2>6, <2>7, <3>1
  <2>10. ASSUME NEW i \in 1 .. Len(delivered), NEW j \in 1 .. n + 1
         PROVE  Before(delivered[i].item, items'[j])
    <3>1. /\ delivered[i].item.time <= delivered[i].at /\ delivered[i].at <= now
          /\ \A x \in 1 .. n : Before(delivered[i].item, items[x])
      BY <1>1, LenProperties DEF QueueTypes, InOrder, DeliveriesInOrder, n
    <3>2. delivered[i] \in [item : Item, at : Nat]  BY <1>1, ElementOfSeq DEF QueueTypes
    <3>3. /\ delivered[i].item.time \in Nat /\ delivered[i].at \in Nat
          /\ now \in Nat /\ delay \in Nat /\ delay # 0
      BY <1>1, <1>4, <3>2 DEF Item, QueueTypes
    <3>4. delivered[i].item.time < item.time  BY <2>1, <3>1, <3>3
    <3>5. Before(delivered[i].item, item)  BY <3>4 DEF Before
    <3> QED  BY <2>7, <3>1, <3>5
  <2>11. InOrder'
    BY <1>1, <2>4, <2>8, <2>9, <2>10 DEF InOrder
  <2>12. nextOrdinal' \in Nat \ {0}  BY <1>1 DEF QueueTypes
  <2>13. CASE items'[1] = item \/ ~timerArmed
    <3>1. Arm(items', handlers)  BY <2>2, <2>13
    <3>2. handlers \in SUBSET handlers  OBVIOUS
    <3>3. /\ timer' \in [at : Nat, generation : Nat] /\ timerArmed' \in BOOLEAN
          /\ timerGeneration' \in Nat /\ handlers' \subseteq Handler
          /\ Generations' /\ TimerCoversFront'
      BY <1>1, <2>4, <3>1, <3>2, ArmCovers
    <3>4. QueueTypes'  BY <1>1, <2>4, <2>12, <3>3 DEF QueueTypes
    <3> QED  BY <1>2, <2>11, <3>3, <3>4 DEF QueueInv, DatagramsKeepTime
  <2>14. CASE items'[1] # item /\ timerArmed
    <3>1. UNCHANGED <<timer, timerArmed, timerGeneration, handlers>>
      BY <2>2, <2>14 DEF timerVars
    <3>2. k # 1 /\ 1 \in 1 .. n + 1  BY <2>3, <2>4, <2>5, <2>14
    <3>3. items # <<>> /\ items'[1] = items[1]
      <4>1. 1 < k  BY <2>3, <2>5, <3>2
      <4>2. 1 \in 1 .. n /\ items'[1] = items[1]  BY <2>7, <3>2, <4>1, <2>3, <2>5
      <4>3. items # <<>>  BY <4>2, EmptySeq DEF n
      <4> QED  BY <4>2, <4>3
    <3>4. QueueTypes'  BY <1>1, <2>4, <2>12, <3>1 DEF QueueTypes
    <3>5. Generations'  BY <1>1, <3>1 DEF Generations
    <3>6. TimerCoversFront'  BY <1>1, <3>1, <3>3 DEF TimerCoversFront
    <3> QED  BY <1>2, <2>11, <3>4, <3>5, <3>6 DEF QueueInv, DatagramsKeepTime
  <2> QED  BY <1>1, <2>13, <2>14 DEF QueueTypes
<1> QED  BY <1>3, <1>4 DEF Enqueue

LEMMA QueueTick ==
    ASSUME QueueInv, Tick
    PROVE  QueueInv'
<1>1. /\ QueueTypes /\ Generations /\ InOrder /\ TimerCoversFront /\ DeliveriesInOrder
      /\ now' = now + 1
      /\ UNCHANGED <<nextOrdinal, items, timer, timerArmed, timerGeneration, handlers,
                     stopped, delivered>>
  BY DEF QueueInv, DatagramsKeepTime, Tick, timerVars
<1>2. now \in Nat /\ now' \in Nat /\ \A x \in Nat : x <= now => x <= now'
  BY <1>1 DEF QueueTypes
<1>3. QueueTypes' /\ Generations' /\ DeliveriesInOrder'
  BY <1>1, <1>2 DEF QueueTypes, Generations, DeliveriesInOrder
<1>4. InOrder'
  <2>1. \A i \in 1 .. Len(delivered) : delivered[i].at \in Nat
    <3>1. \A i \in 1 .. Len(delivered) : delivered[i] \in [item : Item, at : Nat]
      BY <1>1, ElementOfSeq DEF QueueTypes
    <3> QED  BY <3>1
  <2> QED  BY <1>1, <1>2, <2>1 DEF InOrder
<1>5. TimerCoversFront'
  <2>1. items # <<>> => items[1].time \in Nat
    <3> SUFFICES ASSUME items # <<>>  PROVE items[1].time \in Nat  OBVIOUS
    <3>1. items \in Seq(Item)  BY <1>1 DEF QueueTypes
    <3>2. 1 \in 1 .. Len(items)  BY <3>1, EmptySeq
    <3>3. items[1] \in Item  BY <3>1, <3>2, ElementOfSeq
    <3> QED  BY <3>3 DEF Item
  <2> QED  BY <1>1, <1>2, <2>1 DEF TimerCoversFront
<1> QED  BY <1>3, <1>4, <1>5 DEF QueueInv, DatagramsKeepTime

LEMMA ExpireInv ==
    ASSUME QueueInv, Expire
    PROVE  QueueInv'
<1> DEFINE h == [generation |-> timer.generation, failed |-> FALSE]
<1>1. /\ QueueTypes /\ Generations /\ InOrder /\ TimerCoversFront /\ DeliveriesInOrder
      /\ timer # NotWaiting /\ timer.at <= now
      /\ handlers' = handlers \cup {h} /\ timer' = NotWaiting
      /\ UNCHANGED <<now, nextOrdinal, items, timerArmed, timerGeneration, stopped, delivered>>
  BY DEF QueueInv, DatagramsKeepTime, Expire
<1>2. NotWaiting \in [at : Nat, generation : Nat] /\ h \in Handler
  BY <1>1 DEF NotWaiting, Handler, QueueTypes
<1>3. QueueTypes'  BY <1>1, <1>2 DEF QueueTypes
<1>4. Generations'
  <2>1. h.failed = FALSE /\ h.generation <= timerGeneration  BY <1>1 DEF Generations
  <2> HIDE DEF h
  <2> QED  BY <1>1, <2>1 DEF Generations
<1>5. InOrder' /\ DeliveriesInOrder'  BY <1>1 DEF InOrder, DeliveriesInOrder
<1>6. TimerCoversFront'
  <2>1. ASSUME items # <<>>
        PROVE  timer.generation = timerGeneration /\ items[1].time <= now
    <3>1. timer = [at |-> items[1].time, generation |-> timerGeneration]
      BY <1>1, <2>1 DEF TimerCoversFront
    <3> QED  BY <1>1, <3>1
  <2> QED  BY <1>1, <2>1 DEF TimerCoversFront
<1> QED  BY <1>3, <1>4, <1>5, <1>6 DEF QueueInv, DatagramsKeepTime

LEMMA IgnoreInv ==
    ASSUME QueueInv, NEW h \in handlers, Ignore(h)
    PROVE  QueueInv'
<1>1. /\ QueueTypes /\ Generations /\ InOrder /\ TimerCoversFront /\ DeliveriesInOrder
      /\ h.generation # timerGeneration \/ h.failed \/ stopped
      /\ handlers' = handlers \ {h}
      /\ timerArmed' = IF h.generation = timerGeneration THEN FALSE ELSE timerArmed
      /\ UNCHANGED <<now, nextOrdinal, items, timer, timerGeneration, stopped, delivered>>
  BY DEF QueueInv, DatagramsKeepTime, Ignore
<1>2. QueueTypes'  BY <1>1 DEF QueueTypes
<1>3. Generations' /\ InOrder' /\ DeliveriesInOrder'
  BY <1>1 DEF Generations, InOrder, DeliveriesInOrder
<1>4. TimerCoversFront'
  <2>1. ASSUME items # <<>>  PROVE h.generation # timerGeneration
    BY <1>1, <2>1 DEF Generations
  <2> QED  BY <1>1, <2>1 DEF TimerCoversFront
<1> QED  BY <1>2, <1>3, <1>4 DEF QueueInv, DatagramsKeepTime

\* Stopping leaves nothing to cover, and passes nothing on but what it is told to.
LEMMA StopWithInv ==
    ASSUME QueueInv, NEW ready \in SUBSET handlers, StopWith(ready),
           UNCHANGED <<now, nextOrdinal>>,
           delivered' \in Seq([item : Item, at : Nat]), DeliveriesInOrder',
           \A i \in 1 .. Len(delivered') : delivered'[i].at <= now
    PROVE  QueueInv'
<1>1. /\ QueueTypes /\ Generations
      /\ stopped' = TRUE /\ items' = <<>> /\ timer' = NotWaiting /\ timerArmed' = FALSE
      /\ handlers' = ready \cup (Cancelled \ handlers) /\ UNCHANGED timerGeneration
  BY DEF QueueInv, StopWith
<1>2. NotWaiting \in [at : Nat, generation : Nat]  BY DEF NotWaiting
<1>3. ASSUME NEW h \in handlers'
      PROVE  h \in Handler /\ h.generation <= timerGeneration
  <2>1. CASE h \in handlers  BY <1>1, <2>1 DEF QueueTypes, Generations
  <2>2. CASE h \in Cancelled
    <3>1. \/ h \in handlers
          \/ h = [generation |-> timer.generation, failed |-> TRUE] /\ timer # NotWaiting
      <4>1. CASE timer = NotWaiting  BY <2>2, <4>1 DEF Cancelled
      <4>2. CASE timer # NotWaiting  BY <2>2, <4>2 DEF Cancelled
      <4> QED  BY <4>1, <4>2
    <3>3. CASE h \in handlers  BY <2>1, <3>3
    <3>4. CASE h = [generation |-> timer.generation, failed |-> TRUE] /\ timer # NotWaiting
      <4>1. timer.generation \in Nat /\ timer.generation <= timerGeneration
        BY <1>1, <3>4 DEF QueueTypes, Generations
      <4> QED  BY <3>4, <4>1 DEF Handler
    <3> QED  BY <3>1, <3>3, <3>4
  <2> QED  BY <1>1, <2>1, <2>2
<1>4. QueueTypes'
  <2>1. <<>> \in Seq(Item)  BY EmptySeq
  <2>2. handlers' \subseteq Handler  BY <1>3
  <2> QED  BY <1>1, <1>2, <2>1, <2>2 DEF QueueTypes
<1>5. Generations'  BY <1>1, <1>3 DEF Generations
<1>6. TimerCoversFront'  BY <1>1 DEF TimerCoversFront
<1>7. InOrder'
  <2>1. Len(items') = 0  BY <1>1, EmptySeq
  <2> QED  BY <2>1 DEF InOrder
<1> QED  BY <1>4, <1>5, <1>6, <1>7 DEF QueueInv, DatagramsKeepTime

LEMMA QueueStops ==
    ASSUME QueueInv, Stop
    PROVE  QueueInv'
<1>1. /\ StopWith(handlers) /\ UNCHANGED <<now, nextOrdinal, delivered>>
      /\ QueueTypes /\ InOrder /\ DeliveriesInOrder
  BY DEF Stop, QueueInv, DatagramsKeepTime
<1>2. delivered' \in Seq([item : Item, at : Nat]) /\ DeliveriesInOrder'
  BY <1>1 DEF QueueTypes, DeliveriesInOrder
<1>3. \A i \in 1 .. Len(delivered') : delivered'[i].at <= now  BY <1>1 DEF InOrder
<1>4. handlers \in SUBSET handlers  OBVIOUS
<1> QED  BY <1>1, <1>2, <1>3, <1>4, StopWithInv

LEMMA DeliverAndStopInv ==
    ASSUME QueueInv, NEW h \in handlers, NEW n \in Nat, DeliverAndStop(h, n)
    PROVE  QueueInv'
<1>1. /\ n \in 1 .. Cardinality(Due) /\ StopWith(handlers \ {h})
      /\ delivered' = delivered \o PassedOn(n) /\ UNCHANGED <<now, nextOrdinal>>
      /\ QueueTypes /\ InOrder /\ DeliveriesInOrder
  BY DEF DeliverAndStop, QueueInv, DatagramsKeepTime
<1>2. n \in 0 .. Cardinality(Due)
  <2>1. Cardinality(Due) \in 0 .. Len(items) /\ Len(items) \in Nat
    BY <1>1, DueIs, LenProperties DEF QueueTypes
  <2> QED  BY <1>1, <2>1
<1>3. /\ delivered' \in Seq(Passed) /\ DeliveriesInOrder'
      /\ \A i \in 1 .. Len(delivered') : delivered'[i].at <= now
  BY <1>1, <1>2, PassOn
<1>4. handlers \ {h} \in SUBSET handlers  OBVIOUS
<1> QED  BY <1>1, <1>3, <1>4, StopWithInv DEF Passed

LEMMA DeliverDueInv ==
    ASSUME QueueInv, NEW h \in handlers, DeliverDue(h)
    PROVE  QueueInv'
<1> DEFINE c == Cardinality(Due)
<1>1. /\ QueueTypes /\ Generations /\ InOrder /\ DeliveriesInOrder /\ ~stopped
      /\ items' = RestItems /\ Arm(RestItems, handlers \ {h})
      /\ delivered' = delivered \o PassedOn(c) /\ UNCHANGED <<now, nextOrdinal, stopped>>
  BY DEF DeliverDue, Rearm, QueueInv, DatagramsKeepTime
<1>2. c \in 0 .. Len(items) /\ Len(items) \in Nat /\ c \in 0 .. c
  <2>1. c \in 0 .. Len(items) /\ Len(items) \in Nat
    BY <1>1, DueIs, LenProperties DEF QueueTypes
  <2> QED  BY <2>1
<1>3. /\ delivered' \in Seq(Passed) /\ DeliveriesInOrder'
      /\ \A i \in 1 .. Len(delivered') : delivered'[i].at <= now
      /\ \A i \in 1 .. Len(delivered'), j \in 1 .. Len(items) :
            c < j => Before(delivered'[i].item, items[j])
  BY <1>1, <1>2, PassOn
<1> HIDE DEF c
<1>4. /\ RestItems \in Seq(Item) /\ Len(RestItems) = Len(items) - c
      /\ \A i \in 1 .. Len(items) - c : RestItems[i] = items[c + i]
  BY <1>1, <1>2, RestIs DEF RestItems, c
<1>5. handlers \ {h} \in SUBSET handlers  OBVIOUS
<1>6. /\ timer' \in [at : Nat, generation : Nat] /\ timerArmed' \in BOOLEAN
      /\ timerGeneration' \in Nat /\ handlers' \subseteq Handler
      /\ Generations' /\ TimerCoversFront'
  BY <1>1, <1>4, <1>5, ArmCovers
<1>7. QueueTypes'  BY <1>1, <1>3, <1>4, <1>6 DEF QueueTypes, Passed
<1>8. ASSUME NEW i \in 1 .. Len(items')
      PROVE  c + i \in 1 .. Len(items) /\ c < c + i /\ items'[i] = items[c + i]
  BY <1>1, <1>2, <1>4
<1>9. InOrder'
  <2>1. \A i, j \in 1 .. Len(items') : i < j => Before(items'[i], items'[j])
    <3>1. ASSUME NEW i \in 1 .. Len(items'), NEW j \in 1 .. Len(items'), i < j
          PROVE  Before(items'[i], items'[j])
      <4>1. c + i < c + j  BY <1>2, <3>1
      <4> QED  BY <1>1, <1>8, <4>1 DEF InOrder
    <3> QED  BY <3>1
  <2>2. \A i \in 1 .. Len(items') : items'[i].ordinal < nextOrdinal'
    BY <1>1, <1>8 DEF InOrder
  <2>3. \A i \in 1 .. Len(delivered'), j \in 1 .. Len(items') :
           Before(delivered'[i].item, items'[j])
    BY <1>3, <1>8
  <2>4. \A i \in 1 .. Len(delivered') : delivered'[i].at <= now'  BY <1>1, <1>3
  <2> QED  BY <2>1, <2>2, <2>3, <2>4 DEF InOrder
<1> QED  BY <1>3, <1>6, <1>7, <1>9 DEF QueueInv, DatagramsKeepTime

-----------------------------------------------------------------------------
LEMMA QueueInit ==
    ASSUME Init
    PROVE  QueueInv
<1>1. Len(<<>>) = 0 /\ <<>> \in Seq(Item) /\ <<>> \in Seq(Passed)  BY EmptySeq
<1>2. QueueTypes
  <2>1. NotWaiting \in [at : Nat, generation : Nat]  BY DEF NotWaiting
  <2>2. delivered \in Seq([item : Item, at : Nat])  BY <1>1 DEF Init, Passed
  <2>3. items \in Seq(Item) /\ handlers \subseteq Handler /\ timer \in [at : Nat, generation : Nat]
    BY <1>1, <2>1 DEF Init
  <2>4. now \in Nat /\ nextOrdinal \in Nat \ {0} /\ timerGeneration \in Nat
    <3>1. now = 0 /\ nextOrdinal = 1 /\ timerGeneration = 0  BY DEF Init
    <3> QED  BY <3>1
  <2>5. timerArmed \in BOOLEAN /\ stopped \in BOOLEAN  BY DEF Init
  <2> QED  BY <2>2, <2>3, <2>4, <2>5 DEF QueueTypes
<1>3. Generations  BY DEF Init, Generations
<1>4. InOrder  BY <1>1 DEF Init, InOrder
<1>5. DatagramsKeepTime
  <2>1. DOMAIN <<>> = 1 .. Len(<<>>)  BY <1>1, LenProperties
  <2> QED  BY <1>1, <2>1 DEF Init, DatagramsKeepTime, TimerCoversFront, DeliveriesInOrder
<1> QED  BY <1>2, <1>3, <1>4, <1>5 DEF QueueInv

LEMMA QueueStep ==
    ASSUME QueueInv, [Next]_vars
    PROVE  QueueInv'
<1>1. ASSUME NEW drop \in BOOLEAN, NEW delay \in Delays, Enqueue(drop, delay)
      PROVE  QueueInv'
  BY <1>1, EnqueueInv
<1>2. CASE Tick  BY <1>2, QueueTick
<1>3. CASE Expire  BY <1>3, ExpireInv
<1>4. ASSUME NEW h \in handlers, RunHandler(h)  PROVE QueueInv'
  <2>1. CASE Ignore(h)  BY <2>1, IgnoreInv
  <2>2. CASE DeliverDue(h)  BY <2>2, DeliverDueInv
  <2>3. ASSUME NEW n \in 1 .. Capacity, DeliverAndStop(h, n)  PROVE QueueInv'
    <3>1. n \in Nat  BY QueueAssumption
    <3> QED  BY <2>3, <3>1, DeliverAndStopInv
  <2> QED  BY <1>4, <2>1, <2>2, <2>3 DEF RunHandler
<1>5. CASE Stop  BY <1>5, QueueStops
<1>6. CASE UNCHANGED vars
  BY <1>6 DEF vars, QueueInv, QueueTypes, Generations, InOrder, DatagramsKeepTime,
              TimerCoversFront, DeliveriesInOrder
<1> QED  BY <1>1, <1>2, <1>3, <1>4, <1>5, <1>6 DEF Next

\* Datagrams that are held back have a timer, and are passed on in order and not
\* before their time (UdpDatagramQueue.cpp:84-237), whatever the delays, the
\* capacity and the moments at which timers expire and handlers run.
THEOREM DatagramsAlwaysKeepTime == Spec => []DatagramsKeepTime
<1>1. Init => QueueInv  BY QueueInit
<1>2. QueueInv /\ [Next]_vars => QueueInv'  BY QueueStep
<1>3. QueueInv => DatagramsKeepTime  BY DEF QueueInv
<1> QED  BY <1>1, <1>2, <1>3, PTL DEF Spec

-----------------------------------------------------------------------------
(* The bot client. *)

Finished == {b \in Bot : bot[b].finished}
Ticketed == {b \in Bot : bot[b].ticket # 0}

\* Why it ended: co.why.
Reason == {"None", "Stopped", "Timeout", "Tickets", "Results",
           "Error", "Closed", "Confused", "Session", "Destination", "Disagree"}

MatchResult == [match : Nat, outcome : Nat]
BotState == [player : Nat, readySent : BOOLEAN, ticket : Nat, game : GameState,
             result : MatchResult, finished : BOOLEAN, exit : Nat]
CoordinatorState == [started : BOOLEAN, done : BOOLEAN, exit : Nat, why : Reason,
                     tickets : Nat, sessions : Nat, match : Nat, ticking : BOOLEAN,
                     result : MatchResult]

ReportTypes ==
    /\ play \in BOOLEAN
    /\ bot \in [Bot -> BotState]
    /\ co \in CoordinatorState
    /\ moving \in Bot \cup {0}

\* While it runs, the coordinator's two counters are of the bots with a result and
\* of those with a ticket, and there is always a bot without a result.
Counted ==
    ~co.done =>
      /\ co.exit = 3
      /\ \A b \in Bot : bot[b].exit = 0 <=> bot[b].finished
      /\ \A b \in Bot : bot[b].game # "None" \/ bot[b].finished => bot[b].ticket # 0
      /\ co.sessions = Cardinality(Finished) /\ co.sessions < Bots
      /\ co.tickets = Cardinality(Ticketed)

\* While it runs, the result kept is that of every bot with one, and of its match;
\* no such bot's session moves any more.
Agreed ==
    ~co.done => \A b \in Bot : bot[b].finished =>
        /\ bot[b].game = "Finished"
        /\ bot[b].result = co.result
        /\ co.result.match = bot[b].ticket

Ended == co.done => moving = 0

ReportInv == ReportTypes /\ Counted /\ Agreed /\ Ended /\ ReportIsHonest

-----------------------------------------------------------------------------
LEMMA BotsAreFinite ==
    /\ IsFiniteSet(Bot) /\ Cardinality(Bot) = Bots
    /\ \A S \in SUBSET Bot : IsFiniteSet(S) /\ Cardinality(S) \in Nat
    /\ \A S \in SUBSET Bot : Cardinality(S) < Bots => \E b \in Bot : b \notin S
<1>1. IsFiniteSet(Bot) /\ Cardinality(Bot) = Bots
  <2>1. Bots \in Nat  BY BotAssumption
  <2> QED  BY <2>1, FS_Interval DEF Bot
<1>2. ASSUME NEW S \in SUBSET Bot
      PROVE  IsFiniteSet(S) /\ Cardinality(S) \in Nat
  BY <1>1, FS_Subset, FS_CardinalityType
<1>3. ASSUME NEW S \in SUBSET Bot, Cardinality(S) < Bots
      PROVE  \E b \in Bot : b \notin S
  <2>1. Cardinality(S) # Bots  BY <1>2, <1>3, BotAssumption
  <2>2. S # Bot  BY <2>1, <1>1
  <2> QED  BY <2>2
<1> QED  BY <1>1, <1>2, <1>3

\* One more in a set of all but one of the bots makes it all of them.
LEMMA LastOfTheBots ==
    ASSUME NEW S \in SUBSET Bot, NEW b \in Bot, b \notin S, Cardinality(S) + 1 = Bots
    PROVE  \A a \in Bot : a = b \/ a \in S
<1> DEFINE T == S \cup {b}
<1>1. IsFiniteSet(S) /\ Cardinality(S) \in Nat  BY BotsAreFinite
<1>2. IsFiniteSet(T) /\ Cardinality(T) = Bots  BY <1>1, FS_AddElement
<1>3. T \subseteq Bot  OBVIOUS
<1>4. IsFiniteSet(Bot) /\ Cardinality(Bot) = Bots  BY BotsAreFinite
<1>5. T = Bot
  <2> HIDE DEF T
  <2> QED  BY <1>2, <1>3, <1>4, FS_Subset
<1> QED  BY <1>5

-----------------------------------------------------------------------------
\* An end with a code other than zero is an honest one, if some bot's code is.
LEMMA ShutdownInv ==
    ASSUME ReportTypes, NEW code \in Nat, NEW why \in Reason, NEW codes \in [Bot -> BotState],
           NEW result \in MatchResult, Shutdown(code, why, codes, result),
           code = 0 <=> \A b \in Bot : codes[b].exit = 0,
           code = 0 => \A b \in Bot : codes[b].ticket # 0,
           code = 0 /\ play => \A b \in Bot : /\ codes[b].finished
                                             /\ codes[b].result = result
                                             /\ result.match = codes[b].ticket
    PROVE  ReportInv'
<1>1. bot' = [b \in Bot |-> [codes[b] EXCEPT !.game = Stopped(@)]]  BY DEF Shutdown
<1>2. \A b \in Bot : bot'[b] = [codes[b] EXCEPT !.game = Stopped(@)]  BY <1>1
<1>3. \A b \in Bot : /\ bot'[b].exit = codes[b].exit
                     /\ bot'[b].ticket = codes[b].ticket
                     /\ bot'[b].finished = codes[b].finished
                     /\ bot'[b].result = codes[b].result
  BY <1>2 DEF BotState
<1>4. co' = [co EXCEPT !.done = TRUE, !.exit = code, !.why = why, !.result = result]
      /\ moving' = 0 /\ play' = play
  BY DEF Shutdown, Unset
<1>5. co'.done /\ co'.exit = code /\ co'.result = result
  BY <1>4 DEF ReportTypes, CoordinatorState
<1>6. ReportTypes'
  <2>1. \A b \in Bot : Stopped(codes[b].game) \in GameState
    BY DEF Stopped, GameState, BotState
  <2>2. ASSUME NEW b \in Bot  PROVE bot'[b] \in BotState
    <3>1. codes[b] \in BotState /\ Stopped(codes[b].game) \in GameState  BY <2>1
    <3> HIDE DEF GameState
    <3> QED  BY <1>2, <3>1 DEF BotState
  <2>3. bot' \in [Bot -> BotState]  BY <1>1, <2>2
  <2>4. co' \in CoordinatorState  BY <1>4 DEF ReportTypes, CoordinatorState
  <2> QED  BY <2>3, <2>4, <1>4 DEF ReportTypes
<1>7. ReportIsHonest'  BY <1>3, <1>4, <1>5 DEF ReportIsHonest
<1> QED  BY <1>4, <1>5, <1>6, <1>7 DEF ReportInv, Counted, Agreed, Ended

\* A bot without a result is given a code that is not zero.
LEMMA UnfinishedInv ==
    ASSUME ReportInv, ~co.done, NEW code \in Nat \ {0}, NEW why \in Reason,
           Shutdown(code, why, SetUnfinished(code), co.result)
    PROVE  ReportInv'
<1> DEFINE codes == SetUnfinished(code)
<1>1. codes \in [Bot -> BotState]
  BY DEF SetUnfinished, ReportInv, ReportTypes, BotState
<1>2. PICK b \in Bot : ~bot[b].finished
  <2>1. Cardinality(Finished) < Bots /\ Finished \in SUBSET Bot
    BY DEF ReportInv, Counted, Finished
  <2> QED  BY <2>1, BotsAreFinite DEF Finished
<1>3. codes[b].exit # 0
  BY <1>2 DEF SetUnfinished, ReportInv, ReportTypes, BotState
<1>4. code \in Nat /\ code # 0 /\ ReportTypes /\ co.result \in MatchResult
  BY DEF ReportInv, ReportTypes, CoordinatorState
<1> HIDE DEF codes
<1>5. Shutdown(code, why, codes, co.result)  BY DEF codes
<1> QED  BY <1>1, <1>3, <1>4, <1>5, ShutdownInv

LEMMA FailInv ==
    ASSUME ReportInv, ~co.done, NEW why \in Reason, Fail(why)
    PROVE  ReportInv'
<1>1. 3 \in Nat \ {0} /\ Shutdown(3, why, SetUnfinished(3), co.result)  BY DEF Fail
<1> QED  BY <1>1, UnfinishedInv

LEMMA TimeoutInv ==
    ASSUME ReportInv, ~co.done, Timeout
    PROVE  ReportInv'
<1>1. 4 \in Nat \ {0} /\ Shutdown(4, "Timeout", SetUnfinished(4), co.result)  BY DEF Timeout
<1>2. "Timeout" \in Reason  BY DEF Reason
<1> QED  BY <1>1, <1>2, UnfinishedInv

LEMMA ReportStops ==
    ASSUME ReportInv, StopBots
    PROVE  ReportInv'
<1>1. PICK b \in Bot : ~bot[b].finished
  <2>1. Cardinality(Finished) < Bots /\ Finished \in SUBSET Bot
    BY DEF ReportInv, Counted, Finished, StopBots
  <2> QED  BY <2>1, BotsAreFinite DEF Finished
<1>2. bot[b].exit # 0 /\ co.exit = 3  BY <1>1 DEF ReportInv, Counted, StopBots
<1>3. Shutdown(3, "Stopped", bot, co.result)  BY <1>2 DEF StopBots
<1>4. ReportTypes /\ bot \in [Bot -> BotState] /\ co.result \in MatchResult
  BY DEF ReportInv, ReportTypes, CoordinatorState
<1>5. 3 \in Nat /\ 3 # 0 /\ "Stopped" \in Reason  BY DEF Reason
<1>6. ~(\A a \in Bot : bot[a].exit = 0)  BY <1>2
<1> QED  BY <1>3, <1>4, <1>5, <1>6, ShutdownInv

\* The steps that set nothing the invariant speaks of.
LEMMA QuietInv ==
    ASSUME ReportInv, ReportTypes', co'.done = co.done, co'.exit = co.exit,
           co'.sessions = co.sessions, co'.tickets = co.tickets,
           co'.result = co.result, play' = play,
           \A b \in Bot : /\ bot'[b].exit = bot[b].exit
                          /\ bot'[b].ticket = bot[b].ticket
                          /\ bot'[b].finished = bot[b].finished
                          /\ ~co.done /\ bot'[b].game # "None" => bot[b].ticket # 0
                          /\ bot'[b].result # bot[b].result => ~co.done /\ ~bot[b].finished
                          /\ ~co.done /\ bot[b].finished => bot'[b].game = bot[b].game,
           co.done => moving' = 0
    PROVE  ReportInv'
<1>1. Finished' = Finished /\ Ticketed' = Ticketed  BY DEF Finished, Ticketed
<1>2. Counted'  BY <1>1 DEF ReportInv, Counted
<1>3. Ended'  BY DEF Ended
<1>4. ReportIsHonest'  BY DEF ReportInv, ReportIsHonest
<1>5. Agreed'  BY DEF ReportInv, Agreed
<1> QED  BY <1>2, <1>3, <1>4, <1>5 DEF ReportInv

LEMMA StartInv ==
    ASSUME ReportInv, Start
    PROVE  ReportInv'
<1>1. co' = [co EXCEPT !.started = TRUE] /\ bot' = bot /\ moving' = moving /\ play' = play
  BY DEF Start
<1>2. ReportTypes'  BY <1>1 DEF ReportInv, ReportTypes, CoordinatorState
<1>3. /\ co'.done = co.done /\ co'.exit = co.exit
      /\ co'.sessions = co.sessions /\ co'.tickets = co.tickets
      /\ co'.result = co.result
  BY <1>1 DEF ReportInv, ReportTypes, CoordinatorState
<1>4. \A b \in Bot : ~co.done /\ bot[b].game # "None" => bot[b].ticket # 0
  BY DEF ReportInv, Counted
<1>5. co.done => moving = 0  BY DEF ReportInv, Ended
<1> QED  BY <1>1, <1>2, <1>3, <1>4, <1>5, QuietInv

LEMMA StutterInv ==
    ASSUME ReportInv, UNCHANGED <<play, bot, co, moving>>
    PROVE  ReportInv'
<1>1. ReportTypes'  BY DEF ReportInv, ReportTypes
<1>2. \A b \in Bot : ~co.done /\ bot[b].game # "None" => bot[b].ticket # 0
  BY DEF ReportInv, Counted
<1>3. co.done => moving = 0  BY DEF ReportInv, Ended
<1> QED  BY <1>1, <1>2, <1>3, QuietInv

\* The network threads change what a session's state is, of bots with a ticket.
LEMMA SessionInv ==
    ASSUME ReportInv, NEW b \in Bot, SessionMoves(b, Id) \/ SessionFails(b)
    PROVE  ReportInv'
<1>1. PICK g \in GameState, v \in MatchResult :
         bot' = [bot EXCEPT ![b].game = g, ![b].result = v]
  <2>1. bot[b] \in BotState  BY DEF ReportInv, ReportTypes
  <2>2. ASSUME NEW g \in GameState, bot' = [bot EXCEPT ![b].game = g]
        PROVE  bot' = [bot EXCEPT ![b].game = g, ![b].result = bot[b].result]
    <3>1. [bot[b] EXCEPT !.game = g] = [bot[b] EXCEPT !.game = g, !.result = bot[b].result]
      BY <2>1 DEF BotState
    <3> QED  BY <2>2, <3>1 DEF ReportInv, ReportTypes
  <2>3. ASSUME NEW o \in Id  PROVE Result(bot[b].ticket, o) \in MatchResult
    BY <2>1 DEF Id, Result, MatchResult, BotState
  <2>4. bot[b].result \in MatchResult /\ {"Running", "Finished", "Failed"} \subseteq GameState
    BY <2>1 DEF BotState, GameState
  <2>5. CASE bot' = [bot EXCEPT ![b].game = "Running"] \/ bot' = [bot EXCEPT ![b].game = "Failed"]
    BY <2>2, <2>4, <2>5
  <2>6. ASSUME NEW o \in Id,
               bot' = [bot EXCEPT ![b].game = "Finished", ![b].result = Result(bot[b].ticket, o)]
        PROVE  \E g \in GameState, v \in MatchResult :
                  bot' = [bot EXCEPT ![b].game = g, ![b].result = v]
    BY <2>3, <2>4, <2>6
  <2> QED  BY <2>5, <2>6 DEF SessionMoves, SessionFails
<1>2. /\ UNCHANGED <<play, co, moving>> /\ ~co.done /\ bot[b].game # "None"
      /\ bot[b].game # "Finished"
  BY DEF SessionMoves, SessionFails
<1>3. \A a \in Bot : bot'[a] = IF a = b THEN [bot[b] EXCEPT !.game = g, !.result = v]
                              ELSE bot[a]
  BY <1>1 DEF ReportInv, ReportTypes
<1>4. bot' \in [Bot -> BotState]
  <2>1. bot[b] \in BotState  BY DEF ReportInv, ReportTypes
  <2>2. [bot[b] EXCEPT !.game = g, !.result = v] \in BotState  BY <2>1 DEF BotState
  <2> QED  BY <1>1, <2>2 DEF ReportInv, ReportTypes
<1>5. ReportTypes'  BY <1>2, <1>4 DEF ReportInv, ReportTypes
<1>6. \A a \in Bot : /\ bot'[a].exit = bot[a].exit
                     /\ bot'[a].ticket = bot[a].ticket
                     /\ bot'[a].finished = bot[a].finished
                     /\ a # b => bot'[a].game = bot[a].game /\ bot'[a].result = bot[a].result
  BY <1>3 DEF ReportInv, ReportTypes, BotState
<1>7. \A a \in Bot : bot[a].game # "None" => bot[a].ticket # 0
  BY <1>2 DEF ReportInv, Counted
<1>8. ~bot[b].finished  BY <1>2 DEF ReportInv, Agreed
<1> QED  BY <1>2, <1>5, <1>6, <1>7, <1>8, QuietInv

\* What a bot learns of itself before its ticket.
LEMMA LearnsInv ==
    ASSUME ReportInv, NEW b \in Bot, NEW p \in Nat, NEW r \in BOOLEAN,
           bot' = [bot EXCEPT ![b].player = p] \/ bot' = [bot EXCEPT ![b].readySent = r],
           UNCHANGED <<play, co, moving>>
    PROVE  ReportInv'
<1>1. bot[b] \in BotState  BY DEF ReportInv, ReportTypes
<1>2. PICK s \in BotState : /\ bot' = [bot EXCEPT ![b] = s]
                            /\ s.exit = bot[b].exit /\ s.ticket = bot[b].ticket
                            /\ s.finished = bot[b].finished /\ s.game = bot[b].game
                            /\ s.result = bot[b].result
  <2>1. CASE bot' = [bot EXCEPT ![b].player = p]
    <3> DEFINE s == [bot[b] EXCEPT !.player = p]
    <3>1. s \in BotState /\ s.exit = bot[b].exit /\ s.ticket = bot[b].ticket
          /\ s.finished = bot[b].finished /\ s.game = bot[b].game
          /\ s.result = bot[b].result
      BY <1>1 DEF BotState
    <3> QED  BY <2>1, <3>1
  <2>2. CASE bot' = [bot EXCEPT ![b].readySent = r]
    <3> DEFINE s == [bot[b] EXCEPT !.readySent = r]
    <3>1. s \in BotState /\ s.exit = bot[b].exit /\ s.ticket = bot[b].ticket
          /\ s.finished = bot[b].finished /\ s.game = bot[b].game
          /\ s.result = bot[b].result
      BY <1>1 DEF BotState
    <3> QED  BY <2>2, <3>1
  <2> QED  BY <2>1, <2>2
<1>3. ReportTypes'  BY <1>2 DEF ReportInv, ReportTypes
<1>4. \A a \in Bot : /\ bot'[a].exit = bot[a].exit
                     /\ bot'[a].ticket = bot[a].ticket
                     /\ bot'[a].finished = bot[a].finished
                     /\ bot'[a].game = bot[a].game
                     /\ bot'[a].result = bot[a].result
  BY <1>2 DEF ReportInv, ReportTypes
<1>5. \A a \in Bot : ~co.done /\ bot[a].game # "None" => bot[a].ticket # 0
  BY DEF ReportInv, Counted
<1>6. co.done => moving = 0  BY DEF ReportInv, Ended
<1> QED  BY <1>3, <1>4, <1>5, <1>6, QuietInv

\* A bot's ticket is counted, with a session for it or without.
LEMMA TicketInv ==
    ASSUME ReportInv, ~co.done, NEW b \in Bot, NEW m \in Nat \ {0}, bot[b].ticket = 0,
           NEW g \in GameState,
           bot' = [bot EXCEPT ![b].ticket = m, ![b].game = g],
           co' \in CoordinatorState, co'.done = co.done, co'.exit = co.exit,
           co'.sessions = co.sessions, co'.tickets = co.tickets + 1,
           co'.result = co.result, UNCHANGED <<play, moving>>
    PROVE  ReportInv'
<1>1. bot[b] \in BotState  BY DEF ReportInv, ReportTypes
<1>2. [bot[b] EXCEPT !.ticket = m, !.game = g] \in BotState  BY <1>1 DEF BotState
<1>3. bot' = [bot EXCEPT ![b] = [bot[b] EXCEPT !.ticket = m, !.game = g]]
  BY DEF ReportInv, ReportTypes
<1>4. ReportTypes'  BY <1>2, <1>3 DEF ReportInv, ReportTypes
<1>5. \A a \in Bot : /\ bot'[a].exit = bot[a].exit
                     /\ bot'[a].finished = bot[a].finished
                     /\ bot'[a].ticket = IF a = b THEN m ELSE bot[a].ticket
                     /\ bot'[a].result = bot[a].result
                     /\ a # b => bot'[a].game = bot[a].game
  BY <1>1, <1>3 DEF ReportInv, ReportTypes, BotState
<1>6. Finished' = Finished  BY <1>5 DEF Finished
<1>7. Cardinality(Ticketed') = Cardinality(Ticketed) + 1
  <2>1. Ticketed' = Ticketed \cup {b}  BY <1>5 DEF Ticketed
  <2>2. b \notin Ticketed /\ Ticketed \in SUBSET Bot  BY DEF Ticketed
  <2>3. IsFiniteSet(Ticketed)  BY <2>2, BotsAreFinite
  <2> QED  BY <2>1, <2>2, <2>3, FS_AddElement
<1>8. Counted'
  <2>1. \A a \in Bot : bot'[a].exit = 0 <=> bot'[a].finished
    BY <1>5 DEF ReportInv, Counted
  <2>2. \A a \in Bot : bot'[a].game # "None" \/ bot'[a].finished => bot'[a].ticket # 0
    BY <1>5 DEF ReportInv, Counted
  <2> QED  BY <1>6, <1>7, <2>1, <2>2 DEF ReportInv, Counted
<1>9. Agreed'
  <2>1. ~bot[b].finished  BY DEF ReportInv, Counted
  <2>2. ASSUME ~co.done, NEW a \in Bot, bot'[a].finished
        PROVE  /\ bot'[a].game = "Finished" /\ bot'[a].result = co'.result
               /\ co'.result.match = bot'[a].ticket
    <3>1. a # b /\ bot[a].finished  BY <1>5, <2>1, <2>2
    <3>2. /\ bot[a].game = "Finished" /\ bot[a].result = co.result
          /\ co.result.match = bot[a].ticket
      BY <2>2, <3>1 DEF ReportInv, Agreed
    <3> QED  BY <1>5, <3>1, <3>2
  <2> QED  BY <2>2 DEF Agreed
<1> QED  BY <1>4, <1>8, <1>9 DEF ReportInv, Ended, ReportIsHonest

LEMMA FinishLobbyInv ==
    ASSUME ReportInv, ~co.done, ~play, NEW b \in Bot, NEW m \in Nat \ {0},
           bot[b].ticket = 0, co.tickets + 1 = Bots, FinishLobby(b, m)
    PROVE  ReportInv'
<1> DEFINE codes == [a \in Bot |-> [bot[a] EXCEPT
                        !.exit = 0, !.ticket = IF a = b THEN m ELSE @]]
<1>1. bot \in [Bot -> BotState] /\ ReportTypes  BY DEF ReportInv, ReportTypes
<1>2. codes \in [Bot -> BotState]  BY <1>1 DEF BotState
<1>3. \A a \in Bot : codes[a].exit = 0  BY <1>1 DEF BotState
<1>4. \A a \in Bot : codes[a].ticket # 0
  <2>1. Ticketed \in SUBSET Bot /\ b \notin Ticketed  BY DEF Ticketed
  <2>2. Cardinality(Ticketed) + 1 = Bots  BY DEF ReportInv, Counted
  <2>3. \A a \in Bot : a = b \/ a \in Ticketed  BY <2>1, <2>2, LastOfTheBots
  <2> QED  BY <1>1, <2>3 DEF Ticketed, BotState
<1>5. Shutdown(0, "Tickets", codes, co.result)  BY DEF FinishLobby
<1>6. "Tickets" \in Reason /\ 0 \in Nat /\ co.result \in MatchResult
  BY <1>1 DEF Reason, ReportTypes, CoordinatorState
<1> HIDE DEF codes
<1> QED  BY <1>1, <1>2, <1>3, <1>4, <1>5, <1>6, ShutdownInv

LEMMA TookTicketInv ==
    ASSUME ReportInv, Ready, NEW b \in Bot, NEW m \in Id, TookTicket(b, m)
    PROVE  ReportInv'
<1>1. m \in Nat \ {0} /\ ~co.done /\ co \in CoordinatorState /\ bot \in [Bot -> BotState]
  BY DEF Id, Ready, ReportInv, ReportTypes
<1>2. CASE Fail("Confused")
  <2>1. "Confused" \in Reason  BY DEF Reason
  <2> QED  BY <1>1, <1>2, <2>1, FailInv
<1>3. CASE UNCHANGED botVars  BY <1>3, StutterInv DEF botVars
<1>4. CASE bot[b].ticket = 0 /\ StartGame(b, m)
  <2>1. /\ co' = [co EXCEPT !.tickets = @ + 1, !.match = m, !.ticking = TRUE]
        /\ bot' = [bot EXCEPT ![b].ticket = m, ![b].game = "Connecting"]
        /\ UNCHANGED <<play, moving>>
    BY <1>4 DEF StartGame
  <2>2. /\ co' \in CoordinatorState /\ co'.done = co.done /\ co'.exit = co.exit
        /\ co'.sessions = co.sessions /\ co'.tickets = co.tickets + 1
        /\ co'.result = co.result
    <3>1. m \in Nat /\ co.tickets + 1 \in Nat  BY <1>1 DEF CoordinatorState
    <3>2. co' \in CoordinatorState  BY <1>1, <2>1, <3>1 DEF CoordinatorState
    <3>3. /\ co'.done = co.done /\ co'.exit = co.exit
          /\ co'.sessions = co.sessions /\ co'.tickets = co.tickets + 1
          /\ co'.result = co.result
      BY <1>1, <2>1 DEF CoordinatorState
    <3> QED  BY <3>2, <3>3
  <2>3. "Connecting" \in GameState  BY DEF GameState
  <2> QED  BY <1>1, <1>4, <2>1, <2>2, <2>3, TicketInv
<1>5. CASE ~play /\ bot[b].ticket = 0 /\ co.tickets + 1 = Bots /\ FinishLobby(b, m)
  BY <1>1, <1>5, FinishLobbyInv
<1>6. CASE /\ bot[b].ticket = 0
           /\ bot' = [bot EXCEPT ![b].ticket = m]
           /\ co' = [co EXCEPT !.tickets = @ + 1]
           /\ UNCHANGED <<play, moving>>
  <2>1. /\ co' \in CoordinatorState /\ co'.done = co.done /\ co'.exit = co.exit
        /\ co'.sessions = co.sessions /\ co'.tickets = co.tickets + 1
        /\ co'.result = co.result
    BY <1>1, <1>6 DEF CoordinatorState
  <2>2. bot[b] \in BotState /\ bot[b].game \in GameState  BY <1>1 DEF BotState
  <2>3. [bot[b] EXCEPT !.ticket = m] = [bot[b] EXCEPT !.ticket = m, !.game = bot[b].game]
    BY <2>2 DEF BotState
  <2>4. bot' = [bot EXCEPT ![b].ticket = m, ![b].game = bot[b].game]
    BY <1>1, <1>6, <2>3
  <2>5. play' = play /\ moving' = moving /\ bot[b].ticket = 0  BY <1>6
  <2> QED  BY <1>1, <2>1, <2>2, <2>4, <2>5, TicketInv
<1> QED  BY <1>2, <1>3, <1>4, <1>5, <1>6 DEF TookTicket, Unset

LEMMA HearsInv ==
    ASSUME ReportInv, NEW b \in Bot, Hears(b)
    PROVE  ReportInv'
<1>1. Ready /\ ~co.done  BY DEF Hears, Ready
<1>2. "Confused" \in Reason /\ "Error" \in Reason /\ "Closed" \in Reason  BY DEF Reason
<1>3. ASSUME NEW p \in Id, Welcomed(b, p)  PROVE ReportInv'
  <2>1. CASE Fail("Confused")  BY <1>1, <1>2, <2>1, FailInv
  <2>2. CASE /\ bot' = [bot EXCEPT ![b].player = p]
             /\ UNCHANGED <<play, co, lobbyTimer, gameTimer, moving>>
    <3>1. p \in Nat  BY DEF Id
    <3> QED  BY <2>2, <3>1, LearnsInv
  <2> QED  BY <1>3, <2>1, <2>2 DEF Welcomed
<1>4. ASSUME NEW who \in SUBSET Id, SawRoom(b, [members |-> who])
      PROVE  ReportInv'
  <2> DEFINE r == bot[b].readySent \/ MustReady(b, [members |-> who])
  <2>1. CASE Fail("Confused")  BY <1>1, <1>2, <2>1, FailInv
  <2>2. CASE /\ bot' = [bot EXCEPT ![b].readySent = r]
             /\ UNCHANGED <<play, co, lobbyTimer, gameTimer, moving>>
    <3>1. r \in BOOLEAN  OBVIOUS
    <3> HIDE DEF r
    <3>2. 0 \in Nat  OBVIOUS
    <3> QED  BY <2>2, <3>1, <3>2, LearnsInv
  <2> QED  BY <1>4, <2>1, <2>2 DEF SawRoom
<1>5. ASSUME NEW m \in Id, TookTicket(b, m)  PROVE ReportInv'
  BY <1>1, <1>5, TookTicketInv
<1>6. CASE Fail("Error")  BY <1>1, <1>2, <1>6, FailInv
<1>7. CASE LobbyClosed(b)
  <2>1. CASE Fail("Closed")  BY <1>1, <1>2, <2>1, FailInv
  <2>2. CASE UNCHANGED botVars  BY <2>2, StutterInv DEF botVars
  <2> QED  BY <1>7, <2>1, <2>2 DEF LobbyClosed
<1> QED  BY <1>3, <1>4, <1>5, <1>6, <1>7 DEF Hears

-----------------------------------------------------------------------------
LEMMA CountSessionInv ==
    ASSUME ReportInv, Ready, NEW b \in Bot, ~bot[b].finished, bot[b].game = "Finished",
           ~Disagrees(b), CountSession(b)
    PROVE  ReportInv'
<1> DEFINE done == [bot EXCEPT ![b].finished = TRUE, ![b].exit = 0]
<1>1. /\ bot \in [Bot -> BotState] /\ co \in CoordinatorState /\ ReportTypes
      /\ ~co.done /\ bot[b].ticket # 0
  BY DEF ReportInv, ReportTypes, Counted, Ready
<1>2. done \in [Bot -> BotState]
      /\ \A a \in Bot : /\ done[a].finished <=> a = b \/ bot[a].finished
                        /\ done[a].exit = IF a = b THEN 0 ELSE bot[a].exit
                        /\ done[a].ticket = bot[a].ticket
                        /\ done[a].game = bot[a].game
                        /\ done[a].result = bot[a].result
  <2>1. [bot[b] EXCEPT !.finished = TRUE, !.exit = 0] \in BotState  BY <1>1 DEF BotState
  <2>2. done = [bot EXCEPT ![b] = [bot[b] EXCEPT !.finished = TRUE, !.exit = 0]]
    BY <1>1
  <2> QED  BY <1>1, <2>1, <2>2 DEF BotState
<1>3. Finished \in SUBSET Bot /\ b \notin Finished /\ IsFiniteSet(Finished)
      /\ Cardinality(Finished) \in Nat /\ co.sessions = Cardinality(Finished)
      /\ co.sessions < Bots
  <2>1. Finished \in SUBSET Bot /\ b \notin Finished  BY DEF Finished
  <2> QED  BY <1>1, <2>1, BotsAreFinite DEF ReportInv, Counted
<1>6. /\ bot[b].result \in MatchResult /\ bot[b].result.match = bot[b].ticket
      /\ \A a \in Bot : bot[a].finished =>
            bot[a].result = bot[b].result /\ bot[a].ticket = bot[b].ticket
  <2>1. bot[b].result \in MatchResult  BY <1>1 DEF BotState
  <2>2. bot[b].result.match = bot[b].ticket /\ co.result \in {NoResult, bot[b].result}
    BY DEF Disagrees
  <2>3. ASSUME NEW a \in Bot, bot[a].finished
        PROVE  bot[a].result = bot[b].result /\ bot[a].ticket = bot[b].ticket
    <3>1. /\ bot[a].result = co.result /\ co.result.match = bot[a].ticket
          /\ bot[a].ticket # 0
      BY <1>1, <2>3 DEF ReportInv, Agreed, Counted
    <3>2. co.result # NoResult  BY <3>1 DEF NoResult, Result, Unset
    <3> QED  BY <2>2, <3>1, <3>2
  <2> QED  BY <2>1, <2>2, <2>3
<1>4. CASE co.sessions + 1 = Bots /\ Shutdown(0, "Results", done, bot[b].result)
  <2>1. \A a \in Bot : a = b \/ a \in Finished  BY <1>3, <1>4, LastOfTheBots
  <2>2. \A a \in Bot : done[a].finished /\ done[a].exit = 0 /\ done[a].ticket # 0
    BY <1>1, <1>2, <2>1 DEF Finished, ReportInv, Counted
  <2>3. "Results" \in Reason /\ 0 \in Nat  BY DEF Reason
  <2>4. \A a \in Bot : /\ done[a].result = bot[b].result
                       /\ bot[b].result.match = done[a].ticket
    BY <1>2, <1>6, <2>1 DEF Finished
  <2> HIDE DEF done
  <2> QED  BY <1>1, <1>2, <1>4, <1>6, <2>2, <2>3, <2>4, ShutdownInv
<1>5. CASE /\ co.sessions + 1 # Bots /\ bot' = done
           /\ co' = [co EXCEPT !.sessions = @ + 1, !.result = bot[b].result]
           /\ UNCHANGED <<play, moving>>
  <2>1. /\ co' \in CoordinatorState /\ co'.done = co.done /\ co'.exit = co.exit
        /\ co'.sessions = co.sessions + 1 /\ co'.tickets = co.tickets
        /\ co'.result = bot[b].result
    <3>1. co.sessions + 1 \in Nat /\ bot[b].result \in MatchResult
      BY <1>3, <1>6
    <3>2. co' = [co EXCEPT !.sessions = @ + 1, !.result = bot[b].result]  BY <1>5
    <3> HIDE DEF done
    <3> QED  BY <1>1, <3>1, <3>2 DEF CoordinatorState
  <2> HIDE DEF done
  <2>2. ReportTypes'  BY <1>1, <1>2, <1>5, <2>1 DEF ReportTypes
  <2>3. Ticketed' = Ticketed  BY <1>2, <1>5 DEF Ticketed
  <2>4. Cardinality(Finished') = Cardinality(Finished) + 1
    <3>1. Finished' = Finished \cup {b}  BY <1>2, <1>5 DEF Finished
    <3> QED  BY <1>3, <3>1, FS_AddElement
  <2>5. co'.sessions = Cardinality(Finished') /\ co'.sessions < Bots
    BY <1>3, <1>5, <2>1, <2>4, BotAssumption
  <2>6. \A a \in Bot : bot'[a].exit = 0 <=> bot'[a].finished
    BY <1>1, <1>2, <1>5 DEF ReportInv, Counted
  <2>7. \A a \in Bot : bot'[a].game # "None" \/ bot'[a].finished => bot'[a].ticket # 0
    BY <1>1, <1>2, <1>5 DEF ReportInv, Counted
  <2>8. Counted'
    BY <1>1, <2>1, <2>3, <2>5, <2>6, <2>7 DEF ReportInv, Counted
  <2>9. Agreed'
    BY <1>1, <1>2, <1>5, <1>6, <2>1 DEF ReportInv, Agreed
  <2> QED  BY <1>1, <2>1, <2>2, <2>8, <2>9 DEF ReportInv, Ended, ReportIsHonest
<1> QED  BY <1>4, <1>5 DEF CountSession

LEMMA FinishGameInv ==
    ASSUME ReportInv, Ready, NEW b \in Bot, ~bot[b].finished, bot[b].game = "Finished",
           FinishGame(b)
    PROVE  ReportInv'
<1>1. CASE Disagrees(b)
  <2>1. ~co.done /\ "Disagree" \in Reason  BY DEF Ready, Reason
  <2> QED  BY <1>1, <2>1, FailInv DEF FinishGame
<1>2. CASE ~Disagrees(b)  BY <1>2, CountSessionInv DEF FinishGame
<1> QED  BY <1>1, <1>2

LEMMA ReportTick ==
    ASSUME ReportInv, NEW b \in Bot, TickBot(b)
    PROVE  ReportInv'
<1>1. Ready /\ ~co.done /\ ~bot[b].finished  BY DEF TickBot, Ready
<1>2. CASE moving' = b /\ UNCHANGED <<play, bot, co, lobbyTimer, gameTimer>>
  <2>1. ReportTypes'  BY <1>2 DEF ReportInv, ReportTypes
  <2>2. \A a \in Bot : ~co.done /\ bot[a].game # "None" => bot[a].ticket # 0
    BY DEF ReportInv, Counted
  <2> QED  BY <1>1, <1>2, <2>1, <2>2, QuietInv
<1>3. CASE bot[b].game = "Finished" /\ FinishGame(b)  BY <1>1, <1>3, FinishGameInv
<1>4. CASE Fail("Session")
  <2>1. "Session" \in Reason  BY DEF Reason
  <2> QED  BY <1>1, <1>4, <2>1, FailInv
<1> QED  BY <1>2, <1>3, <1>4 DEF TickBot

LEMMA DestinationInv ==
    ASSUME ReportInv, TickSetsDestination
    PROVE  ReportInv'
<1>1. ~co.done  BY DEF TickSetsDestination, Unset, ReportInv, Ended
<1>2. CASE moving' = 0 /\ UNCHANGED <<play, bot, co, lobbyTimer, gameTimer>>
  <2>1. ReportTypes'  BY <1>2 DEF ReportInv, ReportTypes
  <2>2. \A a \in Bot : ~co.done /\ bot[a].game # "None" => bot[a].ticket # 0
    BY DEF ReportInv, Counted
  <2> QED  BY <1>2, <2>1, <2>2, QuietInv
<1>3. CASE Fail("Destination")
  <2>1. "Destination" \in Reason  BY DEF Reason
  <2> QED  BY <1>1, <1>3, <2>1, FailInv
<1> QED  BY <1>2, <1>3 DEF TickSetsDestination, Unset

-----------------------------------------------------------------------------
LEMMA ReportInit ==
    ASSUME BotInit
    PROVE  ReportInv
<1>1. /\ play \in BOOLEAN /\ moving = 0
      /\ bot = [b \in Bot |-> [player |-> 0, readySent |-> FALSE, ticket |-> 0,
                               game |-> "None", result |-> NoResult,
                               finished |-> FALSE, exit |-> 3]]
      /\ co = [started |-> FALSE, done |-> FALSE, exit |-> 3, why |-> "None",
               tickets |-> 0, sessions |-> 0, match |-> 0, ticking |-> FALSE,
               result |-> NoResult]
  BY DEF BotInit, Unset
<1>2. ReportTypes
  <2>0. NoResult \in MatchResult  BY DEF NoResult, Result, Unset, MatchResult
  <2>1. [player |-> 0, readySent |-> FALSE, ticket |-> 0, game |-> "None",
         result |-> NoResult, finished |-> FALSE, exit |-> 3] \in BotState
    BY <2>0 DEF BotState, GameState
  <2>2. bot \in [Bot -> BotState]  BY <1>1, <2>1
  <2>3. co \in CoordinatorState  BY <1>1, <2>0 DEF CoordinatorState, Reason
  <2> QED  BY <1>1, <2>2, <2>3 DEF ReportTypes
<1>3. \A b \in Bot : /\ bot[b].exit = 3 /\ bot[b].finished = FALSE
                     /\ bot[b].game = "None" /\ bot[b].ticket = 0
  BY <1>1
<1>4. Cardinality(Finished) = 0 /\ Cardinality(Ticketed) = 0
  <2>1. Finished = {} /\ Ticketed = {}  BY <1>3 DEF Finished, Ticketed
  <2> QED  BY <2>1, FS_EmptySet
<1>5. co.done = FALSE /\ co.exit = 3 /\ co.sessions = 0 /\ co.tickets = 0  BY <1>1
<1>6. Counted  BY <1>3, <1>4, <1>5, BotAssumption DEF Counted
<1>7. Agreed  BY <1>3 DEF Agreed
<1> QED  BY <1>2, <1>5, <1>6, <1>7 DEF ReportInv, Ended, ReportIsHonest

LEMMA ReportStep ==
    ASSUME ReportInv, [BotNext]_botVars
    PROVE  ReportInv'
<1>1. CASE Start  BY <1>1, StartInv
<1>2. CASE StopBots  BY <1>2, ReportStops
<1>3. ASSUME NEW b \in Bot, Hears(b)  PROVE ReportInv'  BY <1>3, HearsInv
<1>4. ASSUME NEW b \in Bot, TickBot(b)  PROVE ReportInv'  BY <1>4, ReportTick
<1>5. ASSUME NEW b \in Bot, SessionMoves(b, Id) \/ SessionFails(b)  PROVE ReportInv'
  BY <1>5, SessionInv
<1>6. CASE TickSetsDestination  BY <1>6, DestinationInv
<1>7. CASE LobbyTimerExpires \/ GameTimerExpires
  <2>1. UNCHANGED <<play, bot, co, moving>>
    BY <1>7 DEF LobbyTimerExpires, GameTimerExpires
  <2> QED  BY <2>1, StutterInv
<1>8. CASE TimerRuns
  <2>1. ~co.done /\ Timeout  BY <1>8 DEF TimerRuns, Ready
  <2> QED  BY <2>1, TimeoutInv
<1>9. CASE UNCHANGED botVars  BY <1>9, StutterInv DEF botVars
<1> QED  BY <1>1, <1>2, <1>3, <1>4, <1>5, <1>6, <1>7, <1>8, <1>9 DEF BotNext

\* The invariant: two counters that always fit the bots, and honest ends
\* (BotCoordinator.cpp:538-657).
THEOREM ReportInvHolds == BotSpec => []ReportInv
<1>1. BotInit => ReportInv  BY ReportInit
<1>2. ReportInv /\ [BotNext]_botVars => ReportInv'  BY ReportStep
<1> QED  BY <1>1, <1>2, PTL DEF BotSpec

\* The exit code of the bot client is zero exactly when every one of its bots has
\* what it came for, for any number of bots and whatever comes between them.
THEOREM ReportsAreHonest == BotSpec => []ReportIsHonest
<1>1. ReportInv => ReportIsHonest  BY DEF ReportInv
<1> QED  BY <1>1, ReportInvHolds, PTL
=============================================================================
