------------------------- MODULE JThreadQueueProofs -------------------------
(***************************************************************************)
(* Theorems about the queue between the threads, for any number of takers, *)
(* any length and any range of the cursors.                                *)
(***************************************************************************)
EXTENDS JThreadQueue, FiniteSetTheorems, SequenceTheorems, TLAPS

(* A cursor modulo the length is a slot of the ring. *)
LEMMA SlotOfCursor ==
  ASSUME NEW c \in Cursors
  PROVE  Before(c) \in Cursors /\ Before(c) % Length \in Slots
<1>1. Before(c) \in Cursors
  BY JQueueAssumption DEF Before, Cursors
<1>2. Before(c) \in Int /\ Length \in Nat /\ Length > 0
  BY <1>1, JQueueAssumption DEF Cursors
<1>3. Before(c) % Length \in 0..(Length - 1)
  BY <1>2
<1> QED
  BY <1>1, <1>3 DEF Slots

(* The takers, and so the woken and the sleeping ones, are finitely many. *)
LEMMA TakersFinite ==
  /\ IsFiniteSet(Takers)
  /\ IsFiniteSet(Woken) /\ Cardinality(Woken) \in Nat
<1>1. Woken \subseteq Takers
  BY DEF Woken
<1> QED
  BY <1>1, JThreadQueueAssumption, FS_Subset, FS_CardinalityType

(* Popping keeps the types of the ring and of the taker. *)
LEMMA PopType ==
  ASSUME TypeOK, NEW t \in Takers, Pop(t)
  PROVE  TypeOK'
<1>1. Before(queue.write) \in Cursors /\ Before(queue.write) % Length \in Slots
  BY SlotOfCursor DEF TypeOK
<1>2. queue.count \in 0..Length /\ queue.count # 0
  BY DEF TypeOK, Pop, Empty
<1>3. PopEnd(queue).item \in Items \cup {NoItem}
  BY <1>1 DEF TypeOK, PopEnd
<1>4. /\ queue'.read \in Cursors
      /\ queue'.write \in Cursors
      /\ queue'.count \in 0..Length
      /\ queue'.list \in [Slots -> Items \cup {NoItem}]
  BY <1>1, <1>2, JQueueAssumption DEF TypeOK, Pop, PopEnd
<1> QED
  BY <1>3, <1>4 DEF TypeOK, Pop

(* The type invariant holds at the start, *)
LEMMA TypeInit ==
  ASSUME Init
  PROVE  TypeOK
<1>1. 0 \in Cursors /\ 0 \in 0..Length
  BY JQueueAssumption DEF Cursors
<1>2. queue = EmptyQueue
  BY DEF Init
<1>3. queue.list = [i \in Slots |-> NoItem]
  BY <1>2 DEF EmptyQueue
<1>4. queue.list \in [Slots -> Items \cup {NoItem}]
  BY <1>3
<1>5. /\ queue.read \in Cursors
      /\ queue.write \in Cursors
      /\ queue.count \in 0..Length
  BY <1>1, <1>2 DEF EmptyQueue
<1>6. /\ pc \in [Takers -> {"outside", "asleep", "woken"}]
      /\ held \in [Takers -> Items \cup {NoItem}]
      /\ aborted \in BOOLEAN
  BY DEF Init
<1> QED
  BY <1>4, <1>5, <1>6 DEF TypeOK

(* and every step keeps it. *)
LEMMA TypeStep ==
  ASSUME TypeOK, [Next]_vars
  PROVE  TypeOK'
<1>1. ASSUME NEW item \in Items, Post(item)
      PROVE  TypeOK'
  <2>1. Before(queue.read) \in Cursors
    BY SlotOfCursor DEF TypeOK
  <2>2. /\ queue'.read \in Cursors
        /\ queue'.write \in Cursors
        /\ queue'.count \in 0..Length
        /\ queue'.list \in [Slots -> Items \cup {NoItem}]
    <3>1. queue' = PushBegin(queue, item) /\ queue.count # Length
      BY <1>1 DEF Post, Full
    <3>2. queue'.read \in Cursors /\ queue'.write \in Cursors
      BY <2>1, <3>1 DEF TypeOK, PushBegin
    <3>3. queue'.count \in 0..Length
      BY <3>1, JQueueAssumption DEF TypeOK, PushBegin
    <3>4. queue'.list = [queue.list EXCEPT ![Before(queue.read) % Length] = item]
      BY <3>1 DEF PushBegin
    <3>5. queue'.list \in [Slots -> Items \cup {NoItem}]
      BY <3>4 DEF TypeOK
    <3> QED
      BY <3>2, <3>3, <3>5
  <2>3. pc' \in [Takers -> {"outside", "asleep", "woken"}]
    BY <1>1 DEF TypeOK, Post, Signal
  <2> QED
    BY <1>1, <2>2, <2>3 DEF TypeOK, Post
<1>2. CASE PostAborts
  BY <1>2 DEF TypeOK, PostAborts
<1>3. ASSUME NEW t \in Takers, WaitForItem(t)
      PROVE  TypeOK'
  <2>1. CASE Pop(t)
    BY <2>1, PopType
  <2>2. CASE ~Pop(t)
    BY <1>3, <2>2 DEF TypeOK, WaitForItem
  <2> QED
    BY <2>1, <2>2
<1>4. ASSUME NEW t \in Takers, Resume(t)
      PROVE  TypeOK'
  <2>1. CASE Pop(t)
    BY <2>1, PopType
  <2>2. CASE ~Pop(t)
    BY <1>4, <2>2 DEF TypeOK, Resume
  <2> QED
    BY <2>1, <2>2
<1>5. ASSUME NEW t \in Takers, Done(t)
      PROVE  TypeOK'
  BY <1>5 DEF TypeOK, Done
<1>6. ASSUME NEW t \in Takers, WakeUp(t)
      PROVE  TypeOK'
  BY <1>6 DEF TypeOK, WakeUp
<1>7. CASE UNCHANGED vars
  BY <1>7 DEF TypeOK, vars
<1> QED
  BY <1>1, <1>2, <1>3, <1>4, <1>5, <1>6, <1>7 DEF Next, Step

(* JThreadQueue.h: the cursors, the count and the slots keep their types, and
   every taker is outside the wait, asleep in it or woken. *)
THEOREM QueueTypeCorrect == Spec => []TypeOK
<1>1. Init => TypeOK
  BY TypeInit
<1>2. TypeOK /\ [Next]_vars => TypeOK'
  BY TypeStep
<1> QED
  BY <1>1, <1>2, PTL DEF Spec

(* A popper leaves at most one item less and one woken taker less. *)
LEMMA PopKeepsWakeups ==
  ASSUME TypeOK, NoLostWakeup, NEW t \in Takers, Pop(t)
  PROVE  NoLostWakeup'
<1>1. Woken' = Woken \ {t} /\ Sleepers' \subseteq Sleepers
  BY DEF TypeOK, Pop, Woken, Sleepers
<1>2. queue'.count = queue.count - 1 /\ queue.count \in Nat
  BY JQueueAssumption DEF TypeOK, Pop, PopEnd
<1>3. /\ Cardinality(Woken \ {t}) \in Nat
      /\ Cardinality(Woken) <= Cardinality(Woken \ {t}) + 1
  <2>1. /\ IsFiniteSet(Woken \ {t})
        /\ Cardinality(Woken \ {t})
             = IF t \in Woken THEN Cardinality(Woken) - 1 ELSE Cardinality(Woken)
    BY TakersFinite, FS_RemoveElement
  <2>2. Cardinality(Woken \ {t}) \in Nat
    BY <2>1, FS_CardinalityType
  <2> QED
    BY <2>1, <2>2, TakersFinite
<1> QED
  BY <1>1, <1>2, <1>3, TakersFinite DEF NoLostWakeup

(* Every step keeps enough takers awake. *)
LEMMA WakeupStep ==
  ASSUME TypeOK, NoLostWakeup, [Next]_vars
  PROVE  NoLostWakeup'
<1>a. queue.count \in Nat
  BY JQueueAssumption DEF TypeOK
<1>1. ASSUME NEW item \in Items, Post(item)
      PROVE  NoLostWakeup'
  <2>1. queue'.count = queue.count + 1
    BY <1>1 DEF Post, PushBegin
  <2>2. CASE Sleepers = {}
    BY <1>1, <2>2 DEF Post, Signal, Sleepers, NoLostWakeup
  <2>3. CASE Sleepers # {}
    <3>1. PICK t \in Sleepers : pc' = [pc EXCEPT ![t] = "woken"]
      BY <1>1, <2>3 DEF Post, Signal
    <3>2. Woken' = Woken \cup {t} /\ t \notin Woken
      BY <3>1 DEF TypeOK, Woken, Sleepers
    <3>3. Cardinality(Woken') = Cardinality(Woken) + 1
      BY <3>2, TakersFinite, FS_AddElement
    <3> QED
      BY <1>a, <2>1, <2>3, <3>3, TakersFinite DEF NoLostWakeup
  <2> QED
    BY <2>2, <2>3
<1>2. CASE PostAborts
  BY <1>2 DEF PostAborts, NoLostWakeup, Sleepers, Woken
<1>3. ASSUME NEW t \in Takers, WaitForItem(t)
      PROVE  NoLostWakeup'
  <2>1. CASE Pop(t)
    BY <2>1, PopKeepsWakeups
  <2>2. CASE ~Pop(t)
    <3>1. queue'.count = 0
      BY <1>3, <2>2 DEF WaitForItem, Empty
    <3>2. Woken' = Woken
      BY <1>3, <2>2 DEF TypeOK, WaitForItem, Woken
    <3> QED
      BY <3>1, <3>2, TakersFinite DEF NoLostWakeup
  <2> QED
    BY <2>1, <2>2
<1>4. ASSUME NEW t \in Takers, Resume(t)
      PROVE  NoLostWakeup'
  <2>1. CASE Pop(t)
    BY <2>1, PopKeepsWakeups
  <2>2. CASE ~Pop(t)
    <3>1. queue'.count = 0
      BY <1>4, <2>2 DEF Resume, Empty
    <3>2. Woken' = Woken \ {t}
      BY <1>4, <2>2 DEF TypeOK, Resume, Woken
    <3>3. Cardinality(Woken \ {t}) \in Nat
      BY TakersFinite, FS_RemoveElement, FS_CardinalityType
    <3> QED
      BY <3>1, <3>2, <3>3 DEF NoLostWakeup
  <2> QED
    BY <2>1, <2>2
<1>5. ASSUME NEW t \in Takers, Done(t)
      PROVE  NoLostWakeup'
  BY <1>5 DEF Done, NoLostWakeup, Sleepers, Woken
<1>6. ASSUME NEW t \in Takers, WakeUp(t)
      PROVE  NoLostWakeup'
  <2>1. /\ Woken' = Woken \cup {t}
        /\ t \notin Woken
        /\ Sleepers' \subseteq Sleepers
    BY <1>6 DEF TypeOK, WakeUp, Woken, Sleepers
  <2>2. Cardinality(Woken') = Cardinality(Woken) + 1
    BY <2>1, TakersFinite, FS_AddElement
  <2> QED
    BY <1>6, <1>a, <2>1, <2>2, TakersFinite DEF WakeUp, NoLostWakeup
<1>7. CASE UNCHANGED vars
  BY <1>7 DEF vars, NoLostWakeup, Sleepers, Woken
<1> QED
  BY <1>1, <1>2, <1>3, <1>4, <1>5, <1>6, <1>7 DEF Next, Step

(* JThreadQueue.h, PostItem and WaitForItem: a taker that sleeps while there
   are items sleeps only because enough others have been woken to take them. *)
THEOREM QueueNoLostWakeup == Spec => []NoLostWakeup
<1>1. Init => TypeOK /\ NoLostWakeup
  <2>1. Init => TypeOK
    BY TypeInit
  <2>2. Init => Sleepers = {}
    BY DEF Init, Sleepers
  <2> QED
    BY <2>1, <2>2 DEF NoLostWakeup
<1>2. TypeOK /\ NoLostWakeup /\ [Next]_vars => TypeOK' /\ NoLostWakeup'
  BY TypeStep, WakeupStep
<1> QED
  BY <1>1, <1>2, PTL DEF Spec

-----------------------------------------------------------------------------

\* The cursor of the i-th item in a ring whose write cursor is w.
CursorOf(w, i) == (w + (CursorRange - i)) % CursorRange

(* A cursor that passes zero goes on from the top. *)
LEMMA CursorValue ==
  ASSUME NEW w \in Cursors, NEW i \in 1..CursorRange
  PROVE  /\ CursorOf(w, i) \in Cursors
         /\ CursorOf(w, i) = IF i <= w THEN w - i ELSE w - i + CursorRange
<1> DEFINE x == w + (CursorRange - i)
<1>1. CursorRange \in Nat /\ CursorRange > 0 /\ w \in 0..(CursorRange - 1) /\ i \in 1..CursorRange
  BY JQueueAssumption DEF Cursors
<1>2. x \in Nat /\ x < CursorRange + CursorRange
  BY <1>1
<1>3. CASE i <= w
  <2>1. x = CursorRange + (w - i) /\ w - i \in 0..(CursorRange - 1)
    BY <1>1, <1>3
  <2>2. x % CursorRange = w - i
    BY <1>1, <2>1
  <2> QED
    BY <1>3, <2>1, <2>2 DEF CursorOf, Cursors
<1>4. CASE ~(i <= w)
  <2>1. x \in 0..(CursorRange - 1)
    BY <1>1, <1>4
  <2>2. x % CursorRange = x
    BY <1>1, <2>1
  <2>3. x = w - i + CursorRange
    BY <1>1
  <2> QED
    BY <1>4, <2>1, <2>2, <2>3 DEF CursorOf, Cursors
<1> QED
  BY <1>3, <1>4

(* No multiple of the length lies strictly between zero and the length. *)
LEMMA NoMultipleBetween ==
  ASSUME NEW n \in Nat \ {0}, NEW m \in Int
  PROVE  ~(0 < n * m /\ n * m < n)
<1>1. CASE m <= 0
  <2>1. n * m <= 0
    BY <1>1
  <2> QED
    BY <2>1
<1>2. CASE m >= 1
  <2>1. n * m >= n
    BY <1>2
  <2> QED
    BY <2>1
<1> QED
  BY <1>1, <1>2

(* Different items of a ring lie in different slots, also when the cursors
   have wrapped between them: the range is a multiple of the length. *)
LEMMA SlotsDiffer ==
  ASSUME NEW w \in Cursors, NEW i \in 1..Length, NEW j \in 1..Length, i # j,
         Length <= CursorRange
  PROVE  CursorOf(w, i) % Length # CursorOf(w, j) % Length
<1>1. ASSUME NEW a \in 1..Length, NEW b \in 1..Length, a < b,
             CursorOf(w, a) % Length = CursorOf(w, b) % Length
      PROVE  FALSE
  <2> DEFINE ca == CursorOf(w, a)
             cb == CursorOf(w, b)
             L  == Length
             R  == CursorRange
  <2>1. L \in Nat \ {0} /\ R \in Nat \ {0} /\ R % L = 0 /\ L <= R
    BY JQueueAssumption
  <2>2. a \in 1..R /\ b \in 1..R
    BY <2>1
  <2>3. /\ ca \in Cursors /\ cb \in Cursors
        /\ ca = (IF a <= w THEN w - a ELSE w - a + R)
        /\ cb = (IF b <= w THEN w - b ELSE w - b + R)
    BY <2>2, CursorValue
  <2>4. ca \in Nat /\ cb \in Nat /\ w \in Nat
    BY <2>1, <2>3 DEF Cursors
  <2>5. ca - cb = b - a \/ ca - cb = b - a - R
    <3> HIDE DEF ca, cb, L, R
    <3> QED
      BY <2>1, <2>3, <2>4, <1>1
  <2>6. ca % L = cb % L
    BY <1>1
  <2>7. b - a \in Int /\ 0 < b - a /\ b - a < L
    BY <1>1, <2>1
  <2> HIDE DEF ca, cb, L, R
  <2>8. /\ ca \div L \in Int /\ cb \div L \in Int /\ R \div L \in Int
        /\ ca % L \in Int
        /\ ca = L * (ca \div L) + (ca % L)
        /\ cb = L * (cb \div L) + (cb % L)
        /\ R = L * (R \div L)
    BY <2>1, <2>4
  <2>9. ca - cb = L * ((ca \div L) - (cb \div L))
    BY <2>1, <2>4, <2>6, <2>8
  <2>10. CASE ca - cb = b - a
    <3>1. b - a = L * ((ca \div L) - (cb \div L))
      BY <2>9, <2>10
    <3>2. (ca \div L) - (cb \div L) \in Int
      BY <2>8
    <3> QED
      BY <2>1, <2>7, <3>1, <3>2, NoMultipleBetween
  <2>11. CASE ca - cb = b - a - R
    <3> DEFINE m == ((ca \div L) - (cb \div L)) + (R \div L)
    <3>1. b - a = L * m
      <4>1. L * m = L * ((ca \div L) - (cb \div L)) + L * (R \div L)
        <5>1. \A n, x, y \in Int : n * (x + y) = n * x + n * y
          OBVIOUS
        <5>2. (ca \div L) - (cb \div L) \in Int /\ R \div L \in Int /\ L \in Int
          BY <2>1, <2>8
        <5> QED
          BY <5>1, <5>2, Zenon
      <4>2. b - a = (ca - cb) + R
        BY <2>1, <2>4, <2>7, <2>11, <1>1
      <4> QED
        BY <2>8, <2>9, <4>1, <4>2
    <3>2. m \in Int
      BY <2>8
    <3> HIDE DEF m
    <3> QED
      BY <2>1, <2>7, <3>1, <3>2, NoMultipleBetween
  <2> QED
    BY <2>5, <2>10, <2>11
<1> QED
  <2>1. i < j \/ j < i
    OBVIOUS
  <2> QED
    BY <1>1, <2>1

\* The cursors are as far apart as there are items, around the wrap; every
\* item of the ring was posted; a taker that waits has nothing.
RingOK ==
  /\ queue.write = queue.read + queue.count
     \/ queue.write = queue.read + queue.count - CursorRange
  /\ \A i \in 1..queue.count : ItemsOf(queue)[i] \in Items
WaitersHoldNothing == \A t \in Takers : pc[t] # "outside" => held[t] = NoItem

(* The length of the ring fits its cursors. *)
LEMMA LengthFits == Length <= CursorRange
<1> DEFINE L == Length
           R == CursorRange
<1>1. L \in Nat \ {0} /\ R \in Nat \ {0} /\ R % L = 0
  BY JQueueAssumption
<1> SUFFICES ASSUME R < L PROVE FALSE
  BY <1>1
<1> HIDE DEF L, R
<1>2. R % L = R
  BY <1>1
<1> QED
  BY <1>1, <1>2

(* The items of a ring, by their cursors. *)
LEMMA ItemsValue ==
  ASSUME TypeOK
  PROVE  /\ DOMAIN ItemsOf(queue) = 1..queue.count
         /\ \A i \in 1..queue.count :
              /\ i \in 1..Length /\ i \in 1..CursorRange
              /\ CursorOf(queue.write, i) % Length \in Slots
              /\ ItemsOf(queue)[i] = queue.list[CursorOf(queue.write, i) % Length]
<1>1. /\ queue.count \in 0..Length /\ queue.write \in Cursors
      /\ Length \in Nat \ {0} /\ CursorRange \in Nat \ {0}
  BY JQueueAssumption DEF TypeOK
<1>2. ASSUME NEW i \in 1..queue.count
      PROVE  /\ i \in 1..Length /\ i \in 1..CursorRange
             /\ CursorOf(queue.write, i) % Length \in Slots
  <2>1. i \in 1..Length /\ i \in 1..CursorRange
    BY <1>1, LengthFits
  <2>2. CursorOf(queue.write, i) \in Cursors
    BY <1>1, <2>1, CursorValue
  <2>3. CursorOf(queue.write, i) \in Int
    BY <2>2 DEF Cursors
  <2>4. CursorOf(queue.write, i) % Length \in 0..(Length - 1)
    BY <1>1, <2>3
  <2> QED
    BY <2>1, <2>4 DEF Slots
<1> QED
  BY <1>2 DEF ItemsOf, CursorOf

(* A post appends its item. *)
LEMMA PostAppends ==
  ASSUME TypeOK, RingOK, NEW item \in Items, Post(item)
  PROVE  /\ ItemsOf(queue)' = Append(ItemsOf(queue), item)
         /\ RingOK'
<1> DEFINE w == queue.write
           r == queue.read
           n == queue.count
           s == ItemsOf(queue)
           z == ItemsOf(queue)'
<1>1. /\ queue' = PushBegin(queue, item) /\ n # Length
      /\ queue'.write = w /\ queue'.count = n + 1 /\ queue'.read = Before(r)
      /\ queue'.list = [queue.list EXCEPT ![Before(r) % Length] = item]
  BY DEF Post, Full, PushBegin
<1>2. /\ n \in 0..Length /\ w \in Cursors /\ r \in Cursors
      /\ Length \in Nat \ {0} /\ CursorRange \in Nat \ {0}
      /\ Length <= CursorRange
      /\ queue.list \in [Slots -> Items \cup {NoItem}]
  BY JQueueAssumption, LengthFits DEF TypeOK
<1>3. n + 1 \in 1..Length /\ n + 1 \in 1..CursorRange /\ n \in Nat
  BY <1>1, <1>2
<1>4. CursorOf(w, n + 1) = Before(r)
  <2>1. CursorOf(w, n + 1) = IF n + 1 <= w THEN w - (n + 1) ELSE w - (n + 1) + CursorRange
    BY <1>2, <1>3, CursorValue
  <2>2. w = r + n \/ w = r + n - CursorRange
    BY DEF RingOK
  <2>3. w \in 0..(CursorRange - 1) /\ r \in 0..(CursorRange - 1)
    BY <1>2 DEF Cursors
  <2> HIDE DEF w, r, n
  <2> QED
    BY <1>2, <1>3, <2>1, <2>2, <2>3 DEF Before
<1>5. DOMAIN z = 1..(n + 1) /\ \A i \in 1..(n + 1) :
        z[i] = queue'.list[CursorOf(w, i) % Length]
  BY <1>1 DEF ItemsOf, CursorOf
<1>6. z[n + 1] = item
  <2>1. Before(r) % Length \in Slots
    BY <1>2, SlotOfCursor
  <2>2. queue'.list[Before(r) % Length] = item
    BY <1>1, <1>2, <2>1
  <2> QED
    BY <1>3, <1>4, <1>5, <2>2
<1>7. ASSUME NEW i \in 1..n
      PROVE  z[i] = s[i]
  <2>1. i \in 1..Length /\ i # n + 1 /\ i \in 1..(n + 1)
    BY <1>2, <1>3
  <2>2. CursorOf(w, i) % Length # Before(r) % Length
    BY <1>2, <1>3, <1>4, <2>1, SlotsDiffer
  <2>3. s[i] = queue.list[CursorOf(w, i) % Length] /\ CursorOf(w, i) % Length \in Slots
    BY ItemsValue
  <2>4. queue'.list[CursorOf(w, i) % Length] = queue.list[CursorOf(w, i) % Length]
    BY <1>1, <1>2, <2>2, <2>3
  <2> QED
    BY <1>5, <2>1, <2>3, <2>4
<1>8. \A i \in 1..n : s[i] \in Items
  BY DEF RingOK
<1>9. s \in Seq(Items) /\ Len(s) = n
  <2>1. s = [i \in 1..n |-> s[i]]
    BY DEF ItemsOf
  <2> HIDE DEF s, n
  <2>2. s \in Seq(Items)
    BY <1>3, <1>8, <2>1
  <2> QED
    BY <1>3, <2>1, <2>2
<1>10. z = Append(s, item)
  <2>1. z = [i \in 1..(n + 1) |-> z[i]]
    BY <1>1 DEF ItemsOf
  <2> HIDE DEF s, n, z
  <2>2. \A i \in 1..(n + 1) : z[i] \in Items
    <3>1. \A i \in 1..(n + 1) : i \in 1..n \/ i = n + 1
      BY <1>3
    <3> QED
      BY <1>6, <1>7, <1>8, <3>1
  <2>3. z \in Seq(Items) /\ Len(z) = n + 1
    BY <1>3, <2>1, <2>2
  <2>4. /\ Append(s, item) \in Seq(Items) /\ Len(Append(s, item)) = n + 1
        /\ \A i \in 1..n : Append(s, item)[i] = s[i]
        /\ Append(s, item)[n + 1] = item
    BY <1>9, <1>3
  <2>5. \A i \in 1..Len(z) : z[i] = Append(s, item)[i]
    <3>1. \A i \in 1..(n + 1) : i \in 1..n \/ i = n + 1
      BY <1>3
    <3> QED
      BY <1>6, <1>7, <2>3, <2>4, <3>1
  <2> QED
    BY <2>3, <2>4, <2>5, SeqEqual
<1>11. RingOK'
  <2>1. \A i \in 1..(n + 1) : z[i] \in Items
    <3>1. \A i \in 1..(n + 1) : i \in 1..n \/ i = n + 1
      BY <1>3
    <3> QED
      BY <1>6, <1>7, <1>8, <3>1
  <2>2. w = r + n \/ w = r + n - CursorRange
    BY DEF RingOK
  <2>3. w \in 0..(CursorRange - 1) /\ r \in 0..(CursorRange - 1)
    BY <1>2 DEF Cursors
  <2>4. w = Before(r) + (n + 1) \/ w = Before(r) + (n + 1) - CursorRange
    <3> HIDE DEF w, r, n
    <3> QED
      BY <1>2, <1>3, <2>2, <2>3 DEF Before
  <2> QED
    BY <1>1, <2>1, <2>4 DEF RingOK
<1> QED
  BY <1>10, <1>11

(* A pop takes the first item, and the rest moves up. *)
LEMMA PopTakesFirst ==
  ASSUME TypeOK, RingOK, NEW t \in Takers, Pop(t)
  PROVE  /\ ItemsOf(queue) # <<>>
         /\ ItemsOf(queue)' = Tail(ItemsOf(queue))
         /\ held' = [held EXCEPT ![t] = Head(ItemsOf(queue))]
         /\ RingOK'
<1> DEFINE w == queue.write
           r == queue.read
           n == queue.count
           s == ItemsOf(queue)
           z == ItemsOf(queue)'
<1>1. /\ n # 0
      /\ queue'.write = Before(w) /\ queue'.count = n - 1 /\ queue'.read = r
      /\ queue'.list = [queue.list EXCEPT ![Before(w) % Length] = NoItem]
      /\ held' = [held EXCEPT ![t] = queue.list[Before(w) % Length]]
  BY DEF Pop, Empty, PopEnd
<1>2. /\ n \in 0..Length /\ w \in Cursors /\ r \in Cursors
      /\ Length \in Nat \ {0} /\ CursorRange \in Nat \ {0}
      /\ Length <= CursorRange
      /\ queue.list \in [Slots -> Items \cup {NoItem}]
  BY JQueueAssumption, LengthFits DEF TypeOK
<1>3. /\ n \in Nat /\ n >= 1 /\ 1 \in 1..n /\ 1 \in 1..Length /\ 1 \in 1..CursorRange
      /\ n - 1 \in Nat
      /\ \A i \in 1..(n - 1) :
           /\ i \in 1..n /\ i + 1 \in 1..n /\ i + 1 # 1
           /\ i \in 1..CursorRange /\ i + 1 \in 1..CursorRange /\ i + 1 \in 1..Length
  BY <1>1, <1>2
<1>4. /\ CursorOf(w, 1) = Before(w) /\ Before(w) \in Cursors
  <2>1. /\ CursorOf(w, 1) = IF 1 <= w THEN w - 1 ELSE w - 1 + CursorRange
    BY <1>2, <1>3, CursorValue
  <2>2. w \in 0..(CursorRange - 1)
    BY <1>2 DEF Cursors
  <2> HIDE DEF w
  <2>3. CursorOf(w, 1) = Before(w)
    BY <1>2, <2>1, <2>2 DEF Before
  <2> QED
    BY <1>2, <2>3, SlotOfCursor
<1>5. s[1] = queue.list[Before(w) % Length]
  BY <1>3, <1>4, ItemsValue
<1>6. \A i \in 1..n : s[i] \in Items
  BY DEF RingOK
<1>7. s \in Seq(Items) /\ Len(s) = n
  <2>1. s = [i \in 1..n |-> s[i]]
    BY DEF ItemsOf
  <2> HIDE DEF s, n
  <2>2. s \in Seq(Items)
    BY <1>3, <1>6, <2>1
  <2> QED
    BY <1>3, <2>1, <2>2
<1>8. DOMAIN z = 1..(n - 1) /\ \A i \in 1..(n - 1) :
        z[i] = queue'.list[CursorOf(Before(w), i) % Length]
  BY <1>1 DEF ItemsOf, CursorOf
<1>9. ASSUME NEW i \in 1..(n - 1)
      PROVE  z[i] = s[i + 1]
  <2>1. CursorOf(Before(w), i) = CursorOf(w, i + 1)
    <3>1. /\ CursorOf(w, i + 1)
               = IF i + 1 <= w THEN w - (i + 1) ELSE w - (i + 1) + CursorRange
      BY <1>2, <1>3, CursorValue
    <3>2. /\ CursorOf(Before(w), i)
               = IF i <= Before(w) THEN Before(w) - i ELSE Before(w) - i + CursorRange
      BY <1>2, <1>3, <1>4, CursorValue
    <3>3. w \in 0..(CursorRange - 1) /\ i \in 1..CursorRange
      BY <1>2, <1>3 DEF Cursors
    <3>4. Before(w) = IF w = 0 THEN CursorRange - 1 ELSE w - 1
      BY DEF Before
    <3> DEFINE b == Before(w)
    <3> HIDE DEF w, n, b
    <3>5. i + 1 \in 1..CursorRange
      BY <1>3
    <3>6. b = IF w = 0 THEN CursorRange - 1 ELSE w - 1
      BY <3>4 DEF b
    <3>7. CursorOf(b, i) = IF i <= b THEN b - i ELSE b - i + CursorRange
      BY <3>2 DEF b
    <3>8. CursorOf(b, i) = CursorOf(w, i + 1)
      <4> DEFINE u == CursorOf(b, i)
                 v == CursorOf(w, i + 1)
      <4>1. /\ u = (IF i <= b THEN b - i ELSE b - i + CursorRange)
            /\ v = (IF i + 1 <= w THEN w - (i + 1) ELSE w - (i + 1) + CursorRange)
        BY <3>1, <3>7
      <4> HIDE DEF u, v
      <4>2. u = v
        BY <1>2, <3>3, <3>5, <3>6, <4>1
      <4> QED
        BY <4>2 DEF u, v
    <3> QED
      BY <3>8 DEF b
  <2>2. CursorOf(w, i + 1) % Length # Before(w) % Length
    BY <1>2, <1>3, <1>4, SlotsDiffer
  <2>3. /\ s[i + 1] = queue.list[CursorOf(w, i + 1) % Length]
        /\ CursorOf(w, i + 1) % Length \in Slots
    BY <1>3, ItemsValue
  <2>4. queue'.list[CursorOf(w, i + 1) % Length] = queue.list[CursorOf(w, i + 1) % Length]
    BY <1>1, <1>2, <2>2, <2>3
  <2> QED
    BY <1>8, <2>1, <2>3, <2>4
<1>10. s # <<>>
  <2> HIDE DEF s, n
  <2> QED
    BY <1>3, <1>7, EmptySeq
<1>11. /\ Head(s) = s[1]
       /\ Tail(s) \in Seq(Items) /\ Len(Tail(s)) = n - 1
       /\ \A i \in 1..(n - 1) : Tail(s)[i] = s[i + 1]
  <2> HIDE DEF s, n
  <2> QED
    BY <1>3, <1>7, <1>10, HeadTailProperties
<1>12. \A i \in 1..(n - 1) : z[i] \in Items
  <2>1. \A i \in 1..(n - 1) : s[i + 1] \in Items
    BY <1>3, <1>6
  <2> QED
    BY <1>9, <2>1
<1>13. z = Tail(s)
  <2>1. z = [i \in 1..(n - 1) |-> z[i]]
    BY <1>1 DEF ItemsOf
  <2> HIDE DEF s, n, z
  <2>2. z \in Seq(Items) /\ Len(z) = n - 1
    BY <1>3, <1>12, <2>1
  <2>3. \A i \in 1..Len(z) : z[i] = Tail(s)[i]
    BY <1>9, <1>11, <2>2
  <2> QED
    BY <1>11, <2>2, <2>3, SeqEqual
<1>14. RingOK'
  <2>1. w = r + n \/ w = r + n - CursorRange
    BY DEF RingOK
  <2>2. w \in 0..(CursorRange - 1) /\ r \in 0..(CursorRange - 1)
    BY <1>2 DEF Cursors
  <2>3. Before(w) = r + (n - 1) \/ Before(w) = r + (n - 1) - CursorRange
    <3> HIDE DEF w, r, n
    <3> QED
      BY <1>2, <1>3, <2>1, <2>2 DEF Before
  <2> QED
    BY <1>1, <1>12, <2>3 DEF RingOK
<1>15. held' = [held EXCEPT ![t] = Head(s)]
  BY <1>1, <1>5, <1>11
<1> QED
  BY <1>10, <1>13, <1>14, <1>15

(* The queue is empty, or full, as the ring's count says. *)
LEMMA ItemsCount ==
  ASSUME TypeOK, RingOK
  PROVE  /\ ItemsOf(queue) \in Seq(Items)
         /\ Len(ItemsOf(queue)) = queue.count
<1> DEFINE s == ItemsOf(queue)
           n == queue.count
<1>1. n \in Nat
  BY JQueueAssumption DEF TypeOK
<1>2. s = [i \in 1..n |-> s[i]]
  BY DEF ItemsOf
<1>3. \A i \in 1..n : s[i] \in Items
  BY DEF RingOK
<1> HIDE DEF s, n
<1>4. s \in Seq(Items)
  BY <1>1, <1>2, <1>3
<1>5. Len(s) = n
  BY <1>1, <1>2, <1>4
<1> QED
  BY <1>4, <1>5 DEF s, n

(* Every step of the threads is a step of the queue they implement, or none. *)
LEMMA FifoStep ==
  ASSUME TypeOK, RingOK, WaitersHoldNothing, [Next]_vars
  PROVE  [Queue!Next]_(Queue!vars) /\ RingOK' /\ WaitersHoldNothing'
<1>a. ItemsOf(queue) \in Seq(Items) /\ Len(ItemsOf(queue)) = queue.count
  BY ItemsCount
<1>b. ASSUME UNCHANGED queue PROVE UNCHANGED ItemsOf(queue) /\ RingOK'
  BY <1>b DEF RingOK, ItemsOf
<1>1. ASSUME NEW item \in Items, Post(item)
      PROVE  Queue!Next /\ RingOK' /\ WaitersHoldNothing'
  <2>1. ItemsOf(queue)' = Append(ItemsOf(queue), item) /\ RingOK'
    BY <1>1, PostAppends
  <2>2. Len(ItemsOf(queue)) < Length
    BY <1>1, <1>a, JQueueAssumption DEF Post, Full, TypeOK
  <2>3. Queue!Put(item)
    BY <1>1, <2>1, <2>2 DEF Post, Queue!Put
  <2>4. WaitersHoldNothing'
    BY <1>1 DEF Post, Signal, Sleepers, WaitersHoldNothing, TypeOK
  <2> QED
    BY <2>1, <2>3, <2>4 DEF Queue!Next
<1>2. CASE PostAborts
  <2>1. UNCHANGED ItemsOf(queue) /\ RingOK'
    BY <1>2, <1>b DEF PostAborts
  <2>2. Queue!PutFails
    BY <1>2, <1>a, <2>1 DEF PostAborts, Full, Queue!PutFails
  <2>3. WaitersHoldNothing'
    BY <1>2 DEF PostAborts, WaitersHoldNothing
  <2> QED
    BY <2>1, <2>2, <2>3 DEF Queue!Next
<1>3. ASSUME NEW t \in Takers, Pop(t), ~aborted, held[t] = NoItem
      PROVE  Queue!Next /\ RingOK' /\ WaitersHoldNothing'
  <2>1. /\ ItemsOf(queue) # <<>>
        /\ ItemsOf(queue)' = Tail(ItemsOf(queue))
        /\ held' = [held EXCEPT ![t] = Head(ItemsOf(queue))]
        /\ RingOK'
    BY <1>3, PopTakesFirst
  <2>2. Queue!Take(t)
    BY <1>3, <2>1 DEF Pop, Queue!Take
  <2>3. WaitersHoldNothing'
    BY <1>3, <2>1 DEF Pop, WaitersHoldNothing, TypeOK
  <2> QED
    BY <2>1, <2>2, <2>3 DEF Queue!Next, Queue!SomeTake
<1>4. ASSUME NEW t \in Takers, WaitForItem(t)
      PROVE  [Queue!Next]_(Queue!vars) /\ RingOK' /\ WaitersHoldNothing'
  <2>1. CASE Pop(t)
    BY <1>3, <1>4, <2>1 DEF WaitForItem
  <2>2. CASE ~Pop(t)
    <3>1. UNCHANGED <<queue, held, aborted>> /\ pc' = [pc EXCEPT ![t] = "asleep"]
      BY <1>4, <2>2 DEF WaitForItem
    <3>2. held[t] = NoItem
      BY <1>4 DEF WaitForItem
    <3>3. WaitersHoldNothing'
      BY <3>1, <3>2 DEF WaitersHoldNothing, TypeOK
    <3> QED
      BY <1>b, <3>1, <3>3 DEF Queue!vars
  <2> QED
    BY <2>1, <2>2
<1>5. ASSUME NEW t \in Takers, Resume(t)
      PROVE  [Queue!Next]_(Queue!vars) /\ RingOK' /\ WaitersHoldNothing'
  <2>1. CASE Pop(t)
    <3>1. held[t] = NoItem /\ ~aborted
      BY <1>5 DEF Resume, WaitersHoldNothing
    <3> QED
      BY <1>3, <2>1, <3>1
  <2>2. CASE ~Pop(t)
    <3>1. UNCHANGED <<queue, held, aborted>> /\ pc' = [pc EXCEPT ![t] = "outside"]
      BY <1>5, <2>2 DEF Resume
    <3>2. WaitersHoldNothing'
      BY <3>1 DEF WaitersHoldNothing, TypeOK
    <3> QED
      BY <1>b, <3>1, <3>2 DEF Queue!vars
  <2> QED
    BY <2>1, <2>2
<1>6. ASSUME NEW t \in Takers, Done(t)
      PROVE  Queue!Next /\ RingOK' /\ WaitersHoldNothing'
  <2>1. UNCHANGED ItemsOf(queue) /\ RingOK'
    BY <1>6, <1>b DEF Done
  <2>2. Queue!Done(t)
    BY <1>6, <2>1 DEF Done, Queue!Done
  <2>3. WaitersHoldNothing'
    BY <1>6 DEF Done, WaitersHoldNothing, TypeOK
  <2> QED
    BY <2>1, <2>2, <2>3 DEF Queue!Next
<1>7. ASSUME NEW t \in Takers, WakeUp(t)
      PROVE  [Queue!Next]_(Queue!vars) /\ RingOK' /\ WaitersHoldNothing'
  <2>1. UNCHANGED <<queue, held, aborted>>
    BY <1>7 DEF WakeUp
  <2>2. WaitersHoldNothing'
    BY <1>7 DEF WakeUp, WaitersHoldNothing, TypeOK
  <2> QED
    BY <1>b, <2>1, <2>2 DEF Queue!vars
<1>8. CASE UNCHANGED vars
  <2>1. UNCHANGED <<queue, held, aborted>> /\ WaitersHoldNothing'
    BY <1>8 DEF vars, WaitersHoldNothing
  <2> QED
    BY <1>b, <2>1 DEF Queue!vars
<1> QED
  BY <1>1, <1>2, <1>4, <1>5, <1>6, <1>7, <1>8 DEF Next, Step

(* JQueue.h and JThreadQueue.h: whatever the threads do and wherever the
   cursors wrap, the ring with its mutex and condition gives each item to one
   taker, in the order of the posts.  This is the safety part of
   ImplementsFifo; that an item is taken in the end needs fairness. *)
THEOREM QueueImplementsFifo == Spec => Queue!SafeSpec
<1>1. Init => TypeOK /\ RingOK /\ WaitersHoldNothing /\ Queue!Init
  <2> SUFFICES ASSUME Init PROVE TypeOK /\ RingOK /\ WaitersHoldNothing /\ Queue!Init
    OBVIOUS
  <2>1. TypeOK
    BY TypeInit
  <2>2. queue.count = 0 /\ queue.read = 0 /\ queue.write = 0
    BY DEF Init, EmptyQueue
  <2>3. RingOK
    BY <2>2 DEF RingOK
  <2>4. ItemsOf(queue) = <<>>
    BY <2>1, <2>2, <2>3, ItemsCount, EmptySeq
  <2> QED
    BY <2>1, <2>3, <2>4 DEF Init, WaitersHoldNothing, Queue!Init
<1>2. TypeOK /\ RingOK /\ WaitersHoldNothing /\ [Next]_vars
        => /\ TypeOK' /\ RingOK' /\ WaitersHoldNothing'
           /\ [Queue!Next]_(Queue!vars)
  BY TypeStep, FifoStep
<1> QED
  BY <1>1, <1>2, PTL DEF Spec, Queue!SafeSpec
=============================================================================
