----------------------------- MODULE HeapProofs -----------------------------
(***************************************************************************)
(* Theorems about the allocator: memory is handed out to one owner at a    *)
(* time and never overlaps, whatever the arena, the alignment, the shape   *)
(* of the free lists and the sizes requested.                              *)
(***************************************************************************)
EXTENDS Heap, BasicFacts, SequenceTheorems, TLAPS

(* Rounding up to the alignment never shrinks a request. *)
LEMMA AlignBound ==
  ASSUME NEW v \in Nat
  PROVE  Align(v) \in Nat /\ v <= Align(v)
<1>1. ALIGNMENT \in Nat \ {0}
  BY HeapAssumption
<1>2. v % ALIGNMENT \in 0..(ALIGNMENT - 1)
  BY <1>1
<1>3. (ALIGNMENT - (v % ALIGNMENT)) \in Nat
  BY <1>1, <1>2
<1>4. (ALIGNMENT - (v % ALIGNMENT)) % ALIGNMENT \in Nat
  BY <1>1, <1>3
<1> QED
  BY <1>4 DEF Align

(* Every size a block can have lies in one row of the free lists.          *)
LEMMA LoghProperties ==
  ASSUME NEW v \in Nat \ {0}, v < 2^30
  PROVE  /\ logh(v) \in 0..29
         /\ 2^logh(v) <= v
         /\ v < 2 * 2^logh(v)
<1>1. logh(v) = HighBit(v)
  BY DEF logh, HighBit
<1> QED
  BY <1>1, HighestBit

(* The slots of a row keep the order of the sizes, and no slot lies in the *)
(* next row, because a row is a power of two wide.                         *)
LEMMA SlotProperties ==
  ASSUME NEW w \in Nat \ {0}, NEW x \in Nat, x < w,
         w < HEAP_ALLOC_SLOTS \/ w % HEAP_ALLOC_SLOTS = 0
  PROVE  LET div == w \div HEAP_ALLOC_SLOTS
         IN  /\ div = 0 \/ div \in Nat \ {0}
             /\ div # 0 => /\ x \div div \in 0..(HEAP_ALLOC_SLOTS - 1)
                           /\ \A y \in 0..x : y \div div <= x \div div
BY HeapAssumption, SlotsOfRow

(* A larger size is in the same class or in a later one, and the class of  *)
(* a size exists when its row does: the search that starts in the class of *)
(* a request meets every block that is large enough.                       *)
LEMMA ClassProperties ==
  ASSUME NEW v \in Nat \ {0}, v < 2^30
  PROVE  /\ logh(v) < HEAP_ALLOC_BITS => Class(v) \in Classes
         /\ \A u \in Nat \ {0} : u <= v => Class(u) \in Int /\ Class(u) <= Class(v)
<1> DEFINE P(k) == 2^k
<1>1. /\ \A k \in 0..30 : P(k) \in Nat \ {0}
      /\ \A k \in 0..30 : P(k) < HEAP_ALLOC_SLOTS \/ P(k) % HEAP_ALLOC_SLOTS = 0
      /\ \A k, l \in 0..30 : k < l => 2 * P(k) <= P(l)
  BY Doubling, SlotsAssumption, PowersGrow
<1>2. PICK s \in Nat \ {0} : s = HEAP_ALLOC_SLOTS
  BY HeapAssumption
<1>3. \A u \in Nat \ {0} : u <= v => u < 2^30
  <2>1. 2^30 \in Nat
    BY Doubling
  <2> HIDE DEF P
  <2> QED
    BY <2>1
<1>4. ASSUME NEW u \in Nat \ {0}, u <= v
      PROVE  /\ logh(u) \in 0..29
             /\ P(logh(u)) <= u
             /\ u < 2 * P(logh(u))
             /\ SlotOf(u) \in 0..(s - 1)
             /\ Class(u) = logh(u) * s + SlotOf(u)
  <2>1. logh(u) \in 0..29 /\ P(logh(u)) <= u /\ u < 2 * P(logh(u))
    BY <1>3, <1>4, LoghProperties
  <2>2. PICK w : w = P(logh(u))
    OBVIOUS
  <2>3. w \in Nat \ {0}
    BY <1>1, <2>1, <2>2
  <2>4. w < HEAP_ALLOC_SLOTS \/ w % HEAP_ALLOC_SLOTS = 0
    <3> HIDE DEF P
    <3> QED
      BY <1>1, <2>1, <2>2
  <2>5. u - w \in Nat /\ u - w < w
    BY <2>1, <2>2, <2>3
  <2>6. LET div == w \div HEAP_ALLOC_SLOTS
        IN  div # 0 => (u - w) \div div \in 0..(HEAP_ALLOC_SLOTS - 1)
    BY <2>3, <2>4, <2>5, SlotProperties
  <2>7. SlotOf(u) = LET div == w \div HEAP_ALLOC_SLOTS
                    IN  IF div = 0 THEN 0 ELSE (u - w) \div div
    BY <2>2 DEF SlotOf
  <2>8. SlotOf(u) \in 0..(s - 1)
    BY <1>2, <2>6, <2>7
  <2>9. Class(u) = logh(u) * s + SlotOf(u)
    BY <1>2 DEF Class
  <2> QED
    BY <2>1, <2>8, <2>9
<1>5. logh(v) < HEAP_ALLOC_BITS => Class(v) \in Classes
  <2>1. PICK l, t, b : l = logh(v) /\ t = SlotOf(v) /\ b = HEAP_ALLOC_BITS
    OBVIOUS
  <2>2. l \in Nat /\ t \in 0..(s - 1) /\ b \in Nat
    BY <1>4, <2>1, HeapAssumption
  <2>3. Class(v) = l * s + t
    BY <1>4, <2>1
  <2>4. ASSUME l < b PROVE l * s + t \in 0..(b * s - 1)
    BY <1>2, <2>2, <2>4, RowMajor
  <2> QED
    BY <1>2, <2>1, <2>3, <2>4 DEF Classes
<1>6. ASSUME NEW u \in Nat \ {0}, u <= v
      PROVE  Class(u) \in Int /\ Class(u) <= Class(v)
  <2>1. PICK lu, lv, tu, tv : /\ lu = logh(u) /\ lv = logh(v)
                              /\ tu = SlotOf(u) /\ tv = SlotOf(v)
    OBVIOUS
  <2>2. /\ lu \in 0..29 /\ P(lu) <= u /\ u < 2 * P(lu) /\ tu \in 0..(s - 1)
        /\ Class(u) = lu * s + tu
    BY <1>4, <1>6, <2>1
  <2>3. /\ lv \in 0..29 /\ P(lv) <= v /\ v < 2 * P(lv) /\ tv \in 0..(s - 1)
        /\ Class(v) = lv * s + tv
    BY <1>4, <2>1
  <2>4. CASE lu = lv
    <3>1. PICK w : w = P(lv)
      OBVIOUS
    <3>2. w \in Nat \ {0} /\ (w < HEAP_ALLOC_SLOTS \/ w % HEAP_ALLOC_SLOTS = 0)
      <4> HIDE DEF P
      <4> QED
        BY <1>1, <2>3, <3>1
    <3>3. v - w \in Nat /\ v - w < w /\ u - w \in 0..(v - w)
      BY <1>6, <2>2, <2>3, <2>4, <3>1, <3>2
    <3>4. LET div == w \div HEAP_ALLOC_SLOTS
          IN  div # 0 => (u - w) \div div <= (v - w) \div div
      BY <3>2, <3>3, SlotProperties
    <3>5. /\ tu = LET div == w \div HEAP_ALLOC_SLOTS
                  IN  IF div = 0 THEN 0 ELSE (u - w) \div div
          /\ tv = LET div == w \div HEAP_ALLOC_SLOTS
                  IN  IF div = 0 THEN 0 ELSE (v - w) \div div
      BY <2>1, <2>4, <3>1 DEF SlotOf
    <3>6. tu <= tv
      BY <3>4, <3>5
    <3>7. lu * s = lv * s /\ lv * s \in Nat
      BY <1>2, <2>3, <2>4
    <3> QED
      BY <2>2, <2>3, <3>6, <3>7
  <2>5. CASE lu < lv
    <3>1. lu * s \in Nat /\ lv * s \in Nat /\ lu * s + s = (lu + 1) * s
      BY <1>2, <2>2, <2>3
    <3>2. (lu + 1) * s <= lv * s
      BY <1>2, <2>2, <2>3, <2>5
    <3> QED
      BY <1>2, <2>2, <2>3, <3>1, <3>2
  <2>6. CASE lv < lu
    <3> HIDE DEF P
    <3>1. 2 * P(lv) <= P(lu)
      BY <1>1, <2>2, <2>3, <2>6
    <3>2. P(lu) \in Nat /\ P(lv) \in Nat
      BY <1>1, <2>2, <2>3
    <3> QED
      BY <1>6, <2>2, <2>3, <3>1, <3>2
  <2> QED
    BY <2>2, <2>3, <2>4, <2>5, <2>6
<1> QED
  BY <1>5, <1>6

-----------------------------------------------------------------------------

\* The inductive invariant: carving needs every block below the offset, and
\* recycling and freeing need the lists to hold only blocks nobody holds.
IInv == TypeOK /\ Exclusive /\ NotHandedOutTwice

LEMMA InitIInv == Init => IInv
<1> SUFFICES ASSUME Init PROVE IInv
  OBVIOUS
<1> USE HeapAssumption DEF Init, EmptyHeap
<1>1. TypeOK
  <2>1. \A c \in Classes : heap.free[c] = <<>> /\ heap.free[c] \in Seq(Blocks)
    OBVIOUS
  <2>2. heap.free \in [Classes -> Seq(Blocks)]
    BY <2>1
  <2> QED
    BY <2>2 DEF TypeOK, Blocks
<1>2. Exclusive
  BY DEF Exclusive, Blocks
<1>3. NotHandedOutTwice
  BY DEF NotHandedOutTwice
<1> QED
  BY <1>1, <1>2, <1>3 DEF IInv

(* What carving a new block from the arena does to the invariant. *)
LEMMA CarveStep ==
  ASSUME IInv, NEW cbSize \in Nat \ {0}, FitsBase(heap, Align(cbSize)),
         heap' = Carve(heap, Align(cbSize)).heap,
         live' = [p \in DOMAIN live \cup {Carve(heap, Align(cbSize)).ptr} |->
                    IF p = Carve(heap, Align(cbSize)).ptr THEN cbSize ELSE live[p]],
         aborted' = aborted
  PROVE  IInv'
<1> DEFINE n == Align(cbSize)
<1>0. PICK new : new = heap.offset + EntrySize
  OBVIOUS
<1>1. n \in Nat /\ cbSize <= n
  BY AlignBound
<1>2. /\ EntrySize \in Nat \ {0}
      /\ ArenaSize \in Nat
  BY HeapAssumption
<1>3. /\ heap'.offset = new + n
      /\ heap'.size = [q \in Blocks \cup {new} |-> IF q = new THEN n ELSE heap.size[q]]
      /\ heap'.free = heap.free
      /\ live' = [p \in DOMAIN live \cup {new} |-> IF p = new THEN cbSize ELSE live[p]]
  BY <1>0 DEF Carve, Blocks
<1>4. new + n < ArenaSize
  BY <1>0, <1>1, <1>2 DEF FitsBase, IInv, TypeOK
<1> HIDE DEF n
<1>5. TypeOK /\ Exclusive /\ NotHandedOutTwice
  BY DEF IInv
<1>6. new \in Nat \ {0} /\ new \notin Blocks
  BY <1>0, <1>2, <1>5 DEF TypeOK, Exclusive
<1>7. Blocks' = Blocks \cup {new}
  BY <1>3 DEF Blocks
<1>8. \A q \in Blocks : heap'.size[q] = heap.size[q]
  BY <1>3, <1>6
<1>9. heap'.size[new] = n
  BY <1>3
<1>10. TypeOK'
  <2>1. heap'.free \in [Classes -> Seq(Blocks')]
    <3>1. \A c \in Classes : heap.free[c] \in Seq(Blocks')
      BY <1>5, <1>7 DEF TypeOK
    <3> QED
      BY <1>3, <1>5, <3>1 DEF TypeOK
  <2>2. heap'.size \in [Blocks' -> Nat]
    BY <1>1, <1>3, <1>5, <1>7 DEF TypeOK
  <2>3. heap'.offset \in Nat
    BY <1>1, <1>3, <1>6
  <2>4. DOMAIN live' \subseteq Blocks' /\ live' \in [DOMAIN live' -> Nat]
    BY <1>3, <1>5, <1>7 DEF TypeOK
  <2> QED
    BY <1>5, <1>6, <1>7, <2>1, <2>2, <2>3, <2>4 DEF TypeOK
<1>11. Exclusive'
  <2>1. ASSUME NEW q \in Blocks
        PROVE  q + heap'.size[q] + EntrySize <= new /\ EntrySize <= q
               /\ q + heap'.size[q] <= heap.offset
    BY <1>0, <1>2, <1>5, <1>8 DEF Exclusive, TypeOK
  <2>2. \A p, q \in Blocks : p # q => Apart(p, q)'
    BY <1>5, <1>8 DEF Exclusive, Apart
  <2>3. \A q \in Blocks : Apart(q, new)' /\ Apart(new, q)'
    BY <2>1 DEF Apart
  <2>4. \A p, q \in Blocks' : p # q => Apart(p, q)'
    BY <1>7, <2>2, <2>3
  <2>5. \A p \in Blocks' : EntrySize <= p /\ p + heap'.size[p] <= heap'.offset
    <3>1. ASSUME NEW p \in Blocks
          PROVE  p + heap'.size[p] <= heap'.offset
      BY <1>0, <1>1, <1>2, <1>3, <1>5, <1>8, <2>1 DEF TypeOK
    <3>2. EntrySize <= new /\ new + heap'.size[new] <= heap'.offset
      BY <1>0, <1>1, <1>2, <1>3, <1>5, <1>9 DEF TypeOK
    <3> QED
      BY <1>7, <2>1, <3>1, <3>2
  <2>6. heap'.offset <= ArenaSize
    BY <1>1, <1>2, <1>3, <1>4, <1>6
  <2>7. \A p \in DOMAIN live' : live'[p] <= heap'.size[p]
    <3>1. ASSUME NEW p \in DOMAIN live
          PROVE  p \in Blocks /\ p # new /\ live'[p] <= heap'.size[p]
      BY <1>3, <1>5, <1>6, <1>8 DEF Exclusive, TypeOK
    <3>2. live'[new] <= heap'.size[new]
      BY <1>1, <1>3, <1>9
    <3> QED
      BY <1>3, <3>1, <3>2
  <2> QED
    BY <2>4, <2>5, <2>6, <2>7 DEF Exclusive
<1>12. NotHandedOutTwice'
  <2>1. \A c \in Classes : \A i \in DOMAIN heap.free[c] : heap.free[c][i] \in Blocks
    BY <1>5 DEF TypeOK
  <2> QED
    BY <1>3, <1>5, <1>6, <2>1 DEF NotHandedOutTwice
<1> QED
  BY <1>10, <1>11, <1>12 DEF IInv

(* What taking a block off a free list does to the invariant. *)
LEMMA RecycleStep ==
  ASSUME IInv, NEW cbSize \in Nat \ {0},
         FittingClasses(heap, Align(cbSize)) # {},
         heap' = Recycle(heap, Align(cbSize)).heap,
         live' = [p \in DOMAIN live \cup {Recycle(heap, Align(cbSize)).ptr} |->
                    IF p = Recycle(heap, Align(cbSize)).ptr THEN cbSize ELSE live[p]],
         aborted' = aborted
  PROVE  IInv'
<1> DEFINE n == Align(cbSize)
<1>1. n \in Nat /\ cbSize <= n
  BY AlignBound
<1> HIDE DEF n
<1>2. TypeOK /\ Exclusive /\ NotHandedOutTwice
  BY DEF IInv
<1>3. PICK c : c = Min(FittingClasses(heap, n))
  OBVIOUS
<1>4. c \in Classes /\ Fits(heap, n, c) # {}
  <2>1. Classes \subseteq Nat
    BY DEF Classes
  <2>2. FittingClasses(heap, n) \in SUBSET Nat
    BY <2>1 DEF FittingClasses
  <2>3. c \in FittingClasses(heap, n)
    BY <1>3, <2>2, MinIsMember DEF n
  <2> QED
    BY <2>3 DEF FittingClasses
<1>5. PICK i : i = Min(Fits(heap, n, c))
  OBVIOUS
<1>6. heap.free[c] \in Seq(Blocks)
  BY <1>2, <1>4 DEF TypeOK
<1>7. i \in 1..Len(heap.free[c]) /\ heap.size[heap.free[c][i]] >= n
  <2>1. DOMAIN heap.free[c] = 1..Len(heap.free[c]) /\ Len(heap.free[c]) \in Nat
    BY <1>6
  <2>2. Fits(heap, n, c) \in SUBSET Nat
    BY <2>1 DEF Fits
  <2>3. i \in Fits(heap, n, c)
    BY <1>4, <1>5, <2>2, MinIsMember
  <2> QED
    BY <2>1, <2>3 DEF Fits
<1>8. PICK new : new = heap.free[c][i]
  OBVIOUS
<1>9. new \in Blocks
  BY <1>6, <1>7, <1>8
<1>10. /\ heap'.offset = heap.offset
       /\ heap'.size = heap.size
       /\ heap'.free = [heap.free EXCEPT ![c] = RemoveAt(heap.free[c], i)]
       /\ live' = [p \in DOMAIN live \cup {new} |-> IF p = new THEN cbSize ELSE live[p]]
  BY <1>3, <1>5, <1>8 DEF Recycle, n
<1>11. Blocks' = Blocks
  BY <1>10 DEF Blocks
<1>12. /\ RemoveAt(heap.free[c], i) \in Seq(Blocks)
       /\ Len(RemoveAt(heap.free[c], i)) = Len(heap.free[c]) - 1
       /\ \A j \in 1..(Len(heap.free[c]) - 1) :
            RemoveAt(heap.free[c], i)[j] =
              IF j < i THEN heap.free[c][j] ELSE heap.free[c][j + 1]
  BY <1>6, <1>7, RemoveAtProperties
<1>13. TypeOK'
  <2>1. heap'.free \in [Classes -> Seq(Blocks')]
    BY <1>2, <1>10, <1>11, <1>12 DEF TypeOK
  <2>2. DOMAIN live' = DOMAIN live \cup {new} /\ DOMAIN live' \subseteq Blocks'
    BY <1>2, <1>9, <1>10, <1>11 DEF TypeOK
  <2>3. \A p \in DOMAIN live' : live'[p] \in Nat
    BY <1>2, <1>10 DEF TypeOK
  <2>4. live' \in [DOMAIN live' -> Nat]
    BY <1>10, <2>2, <2>3
  <2> QED
    BY <1>2, <1>10, <1>11, <2>1, <2>2, <2>4 DEF TypeOK
<1>14. Exclusive'
  <2>1. \A p, q \in Blocks' : p # q => Apart(p, q)'
    BY <1>2, <1>10, <1>11 DEF Exclusive, Apart
  <2>2. ASSUME NEW p \in DOMAIN live'
        PROVE  live'[p] <= heap'.size[p]
    <3>1. CASE p = new
      <4>1. heap.size[new] \in Nat
        BY <1>2, <1>9 DEF TypeOK
      <4> QED
        BY <1>1, <1>7, <1>8, <1>10, <3>1, <4>1
    <3>2. CASE p # new
      BY <1>2, <1>10, <3>2 DEF Exclusive
    <3> QED
      BY <3>1, <3>2
  <2> QED
    BY <1>2, <1>10, <1>11, <2>1, <2>2 DEF Exclusive
<1>15. NotHandedOutTwice'
  <2> DEFINE was(d, j) == IF d = c /\ j >= i THEN j + 1 ELSE j
  <2>1. ASSUME NEW d \in Classes, NEW j \in DOMAIN heap'.free[d]
        PROVE  /\ j \in Nat
               /\ was(d, j) \in DOMAIN heap.free[d]
               /\ heap'.free[d][j] = heap.free[d][was(d, j)]
               /\ ~(d = c /\ was(d, j) = i)
    <3>1. CASE d # c
      <4>1. heap'.free[d] = heap.free[d]
        BY <1>2, <1>10, <3>1 DEF TypeOK
      <4>2. heap.free[d] \in Seq(Blocks)
        BY <1>2 DEF TypeOK
      <4> QED
        BY <3>1, <4>1, <4>2
    <3>2. CASE d = c
      <4>1. heap'.free[d] = RemoveAt(heap.free[c], i)
        BY <1>2, <1>4, <1>10, <3>2 DEF TypeOK
      <4>2. Len(heap.free[c]) \in Nat /\ DOMAIN heap.free[c] = 1..Len(heap.free[c])
        BY <1>6
      <4>3. j \in 1..(Len(heap.free[c]) - 1)
        BY <1>12, <4>1, <4>2
      <4>4. heap'.free[d][j] = IF j < i THEN heap.free[c][j] ELSE heap.free[c][j + 1]
        BY <1>12, <4>1, <4>3
      <4>5. was(d, j) = IF j < i THEN j ELSE j + 1
        BY <1>7, <3>2, <4>2, <4>3
      <4> HIDE DEF was
      <4>6. heap'.free[d][j] = heap.free[d][was(d, j)]
        BY <3>2, <4>3, <4>4, <4>5
      <4> QED
        BY <1>7, <3>2, <4>2, <4>3, <4>5, <4>6
    <3> QED
      BY <3>1, <3>2
  <2> HIDE DEF was
  <2>2. \A d \in Classes : \A j \in DOMAIN heap'.free[d] :
          heap'.free[d][j] \notin DOMAIN live'
    <3> SUFFICES ASSUME NEW d \in Classes, NEW j \in DOMAIN heap'.free[d]
                 PROVE  heap'.free[d][j] \notin DOMAIN live \cup {new}
      BY <1>10
    <3>1. heap.free[d][was(d, j)] \notin DOMAIN live
      BY <1>2, <2>1 DEF NotHandedOutTwice
    <3>2. heap.free[d][was(d, j)] # heap.free[c][i]
      BY <1>2, <1>4, <1>6, <1>7, <2>1 DEF NotHandedOutTwice
    <3> QED
      BY <1>8, <2>1, <3>1, <3>2
  <2>3. ASSUME NEW d \in Classes, NEW e \in Classes,
               NEW j \in DOMAIN heap'.free[d], NEW k \in DOMAIN heap'.free[e],
               heap'.free[d][j] = heap'.free[e][k]
        PROVE  d = e /\ j = k
    <3>1. heap.free[d][was(d, j)] = heap.free[e][was(e, k)]
      BY <2>1, <2>3
    <3>2. d = e /\ was(d, j) = was(e, k)
      BY <1>2, <2>1, <3>1 DEF NotHandedOutTwice
    <3>3. j \in Nat /\ k \in Nat /\ i \in Nat
      BY <1>7, <2>1
    <3> QED
      BY <3>2, <3>3 DEF was
  <2> QED
    BY <2>2, <2>3 DEF NotHandedOutTwice
<1> QED
  BY <1>13, <1>14, <1>15 DEF IInv

(* What giving a block back does to the invariant. The class of the block   *)
(* need not be known: if m_free had no such list the block would be lost.   *)
LEMMA FreeStep ==
  ASSUME IInv, NEW p \in DOMAIN live,
         heap' = HeapFree(heap, p),
         live' = [q \in DOMAIN live \ {p} |-> live[q]],
         aborted' = aborted
  PROVE  IInv'
<1>1. TypeOK /\ Exclusive /\ NotHandedOutTwice
  BY DEF IInv
<1>2. PICK c : c = Class(heap.size[p])
  OBVIOUS
<1>3. /\ heap'.offset = heap.offset
      /\ heap'.size = heap.size
      /\ heap'.free = [heap.free EXCEPT ![c] = <<p>> \o heap.free[c]]
  BY <1>2 DEF HeapFree
<1>4. Blocks' = Blocks /\ p \in Blocks
  BY <1>1, <1>3 DEF Blocks, TypeOK
<1>5. ASSUME c \in Classes
      PROVE  /\ heap.free[c] \in Seq(Blocks)
             /\ <<p>> \o heap.free[c] \in Seq(Blocks)
             /\ Len(<<p>> \o heap.free[c]) = Len(heap.free[c]) + 1
             /\ \A i \in 1..(Len(heap.free[c]) + 1) :
                  (<<p>> \o heap.free[c])[i] =
                    IF i = 1 THEN p ELSE heap.free[c][i - 1]
  <2>1. heap.free[c] \in Seq(Blocks)
    BY <1>1, <1>5 DEF TypeOK
  <2> QED
    BY <1>4, <2>1, PushProperties
<1>6. TypeOK'
  <2>1. heap'.free \in [Classes -> Seq(Blocks')]
    BY <1>1, <1>3, <1>4, <1>5 DEF TypeOK
  <2>2. DOMAIN live' = DOMAIN live \ {p} /\ DOMAIN live' \subseteq Blocks'
    BY <1>1, <1>4 DEF TypeOK
  <2>3. live' \in [DOMAIN live' -> Nat]
    BY <1>1 DEF TypeOK
  <2> QED
    BY <1>1, <1>3, <1>4, <2>1, <2>2, <2>3 DEF TypeOK
<1>7. Exclusive'
  <2>1. \A q, r \in Blocks' : q # r => Apart(q, r)'
    BY <1>1, <1>3, <1>4 DEF Exclusive, Apart
  <2> QED
    BY <1>1, <1>3, <1>4, <2>1 DEF Exclusive
<1>8. NotHandedOutTwice'
  <2> DEFINE pushed(d, j) == d = c /\ j = 1
             was(d, j)    == IF d = c THEN j - 1 ELSE j
  <2>1. ASSUME NEW d \in Classes, NEW j \in DOMAIN heap'.free[d]
        PROVE  /\ j \in Nat
               /\ IF pushed(d, j) THEN heap'.free[d][j] = p
                  ELSE /\ was(d, j) \in DOMAIN heap.free[d]
                       /\ heap'.free[d][j] = heap.free[d][was(d, j)]
    <3>1. CASE d # c
      <4>1. heap'.free[d] = heap.free[d] /\ heap.free[d] \in Seq(Blocks)
        BY <1>1, <1>3, <3>1 DEF TypeOK
      <4> QED
        BY <3>1, <4>1
    <3>2. CASE d = c
      <4>1. heap'.free[d] = <<p>> \o heap.free[c] /\ heap.free[c] \in Seq(Blocks)
        BY <1>1, <1>3, <3>2 DEF TypeOK
      <4>2. Len(heap.free[c]) \in Nat /\ DOMAIN heap.free[c] = 1..Len(heap.free[c])
        BY <4>1
      <4>3. j \in 1..(Len(heap.free[c]) + 1)
        BY <1>5, <3>2, <4>1, <4>2
      <4>4. heap'.free[d][j] = IF j = 1 THEN p ELSE heap.free[c][j - 1]
        BY <1>5, <3>2, <4>1, <4>3
      <4> QED
        BY <3>2, <4>2, <4>3, <4>4
    <3> QED
      BY <3>1, <3>2
  <2>2. \A d \in Classes : \A j \in DOMAIN heap.free[d] : heap.free[d][j] # p
    BY <1>1 DEF NotHandedOutTwice
  <2> HIDE DEF pushed, was
  <2>3. \A d \in Classes : \A j \in DOMAIN heap'.free[d] :
          heap'.free[d][j] \notin DOMAIN live'
    <3> SUFFICES ASSUME NEW d \in Classes, NEW j \in DOMAIN heap'.free[d]
                 PROVE  heap'.free[d][j] \notin DOMAIN live \ {p}
      OBVIOUS
    <3> QED
      BY <1>1, <2>1 DEF NotHandedOutTwice
  <2>4. ASSUME NEW d \in Classes, NEW e \in Classes,
               NEW j \in DOMAIN heap'.free[d], NEW k \in DOMAIN heap'.free[e],
               heap'.free[d][j] = heap'.free[e][k]
        PROVE  d = e /\ j = k
    <3>1. pushed(d, j) <=> pushed(e, k)
      BY <2>1, <2>2, <2>4
    <3>2. CASE pushed(d, j)
      BY <3>1, <3>2 DEF pushed
    <3>3. CASE ~pushed(d, j)
      <4>1. heap.free[d][was(d, j)] = heap.free[e][was(e, k)]
        BY <2>1, <2>4, <3>1, <3>3
      <4>2. d = e /\ was(d, j) = was(e, k)
        BY <1>1, <2>1, <3>1, <3>3, <4>1 DEF NotHandedOutTwice
      <4>3. j \in Nat /\ k \in Nat
        BY <2>1
      <4> QED
        BY <4>2, <4>3 DEF was
    <3> QED
      BY <3>2, <3>3
  <2> QED
    BY <2>3, <2>4 DEF NotHandedOutTwice
<1> QED
  BY <1>6, <1>7, <1>8 DEF IInv

(* What comes off a free list is a block.                                   *)
LEMMA RecycledIsBlock ==
  ASSUME TypeOK, NEW n, FittingClasses(heap, n) # {}
  PROVE  Recycle(heap, n).ptr \in Blocks
<1> DEFINE c == Min(FittingClasses(heap, n))
           i == Min(Fits(heap, n, c))
<1>1. FittingClasses(heap, n) \in SUBSET Nat
  BY DEF FittingClasses, Classes
<1>2. c \in FittingClasses(heap, n)
  BY <1>1, MinIsMember
<1>3. c \in Classes /\ Fits(heap, n, c) # {} /\ heap.free[c] \in Seq(Blocks)
  BY <1>2 DEF FittingClasses, TypeOK
<1>4. DOMAIN heap.free[c] = 1..Len(heap.free[c]) /\ Len(heap.free[c]) \in Nat
  BY <1>3
<1>5. Fits(heap, n, c) \in SUBSET Nat
  BY <1>4 DEF Fits
<1>6. i \in DOMAIN heap.free[c]
  BY <1>3, <1>5, MinIsMember DEF Fits
<1>7. heap.free[c][i] \in Blocks
  BY <1>3, <1>6
<1> QED
  BY <1>7 DEF Recycle

LEMMA NextIInv == IInv /\ [Next]_vars => IInv'
<1> SUFFICES ASSUME IInv, [Next]_vars PROVE IInv'
  OBVIOUS
<1>1. ASSUME NEW cbSize \in Requests, Alloc(cbSize) PROVE IInv'
  <2>1. cbSize \in Nat \ {0}
    BY RequestsAssumption
  <2> DEFINE n == Align(cbSize)
  <2>2. CASE FitsBase(heap, n)
    <3>1. Carve(heap, n).ptr # NULL
      BY HeapAssumption DEF IInv, TypeOK, Carve, NULL
    <3> QED
      BY <1>1, <2>1, <2>2, <3>1, CarveStep DEF Alloc, HeapAlloc
  <2>3. CASE ~FitsBase(heap, n) /\ FittingClasses(heap, n) # {}
    <3>1. CASE Recycle(heap, n).ptr # NULL
      BY <1>1, <2>1, <2>3, <3>1, RecycleStep DEF Alloc, HeapAlloc
    <3>2. CASE Recycle(heap, n).ptr = NULL
      <4>1. Recycle(heap, n).ptr \in Blocks
        BY <2>3, RecycledIsBlock DEF IInv
      <4> QED
        BY <3>2, <4>1 DEF IInv, TypeOK, NULL
    <3> QED
      BY <3>1, <3>2
  <2>4. CASE ~FitsBase(heap, n) /\ FittingClasses(heap, n) = {}
    BY <1>1, <2>4 DEF Alloc, HeapAlloc, IInv, TypeOK, Exclusive, Apart,
                      NotHandedOutTwice, Blocks
  <2> QED
    BY <2>2, <2>3, <2>4
<1>2. ASSUME NEW p \in DOMAIN live, Free(p) PROVE IInv'
  BY <1>2, FreeStep DEF Free
<1>3. ASSUME NEW p \in DOMAIN live, FreeAborts(p) PROVE IInv'
  BY <1>3 DEF FreeAborts, IInv, TypeOK, Exclusive, Apart, NotHandedOutTwice, Blocks
<1>4. CASE UNCHANGED vars
  BY <1>4 DEF vars, IInv, TypeOK, Exclusive, Apart, NotHandedOutTwice, Blocks
<1> QED
  BY <1>1, <1>2, <1>3, <1>4 DEF Next

-----------------------------------------------------------------------------

(* The type invariant of the allocator, for every arena and request size. *)
THEOREM HeapTypeCorrect == Spec => []TypeOK
<1>1. IInv => TypeOK
  BY DEF IInv
<1> QED
  BY <1>1, InitIInv, NextIInv, PTL DEF Spec

(* What Heap::alloc returns is large enough, lies inside the arena and     *)
(* overlaps no other block and no block's header.                          *)
THEOREM HeapExclusive == Spec => []Exclusive
<1>1. IInv => Exclusive
  BY DEF IInv
<1> QED
  BY <1>1, InitIInv, NextIInv, PTL DEF Spec

(* A block the client holds is on no free list, and no block is on the     *)
(* free lists twice, so no memory has two owners.                          *)
THEOREM HeapNotHandedOutTwice == Spec => []NotHandedOutTwice
<1>1. IInv => NotHandedOutTwice
  BY DEF IInv
<1> QED
  BY <1>1, InitIInv, NextIInv, PTL DEF Spec

-----------------------------------------------------------------------------
(* Nothing that was given back is lost.                                    *)

\* A block nobody holds is on the free list of its class, and the class is one
\* the search visits.
Reusable(p) ==
  LET c == Class(heap.size[p])
  IN  c \in Classes /\ \E i \in DOMAIN heap.free[c] : heap.free[c][i] = p

\* The invariant RefusedOnlyWhenFull needs, on top of IInv.
NothingLost ==
  /\ \A p \in Blocks : heap.size[p] \in Nat \ {0} /\ heap.size[p] < 2^30
  /\ \A p \in Blocks \ DOMAIN live : Reusable(p)

LEMMA InitNothingLost == Init => NothingLost
BY DEF Init, EmptyHeap, NothingLost, Blocks

(* Carving adds a block that is held.                                       *)
LEMMA CarveLosesNothing ==
  ASSUME IInv, NothingLost, NEW cbSize \in Requests,
         heap' = Carve(heap, Align(cbSize)).heap,
         live' = [p \in DOMAIN live \cup {Carve(heap, Align(cbSize)).ptr} |->
                    IF p = Carve(heap, Align(cbSize)).ptr THEN cbSize ELSE live[p]]
  PROVE  NothingLost'
<1>1. PICK n : n = Align(cbSize)
  OBVIOUS
<1>2. n \in Nat \ {0} /\ n < 2^30
  <2>1. cbSize \in Nat \ {0} /\ Align(cbSize) < 2^30
    BY RequestsAssumption
  <2>2. Align(cbSize) \in Nat /\ cbSize <= Align(cbSize)
    BY <2>1, AlignBound
  <2> QED
    BY <1>1, <2>1, <2>2
<1>3. PICK new : new = heap.offset + EntrySize
  OBVIOUS
<1>4. /\ heap'.size = [q \in Blocks \cup {new} |-> IF q = new THEN n ELSE heap.size[q]]
      /\ heap'.free = heap.free
      /\ DOMAIN live' = DOMAIN live \cup {new}
  BY <1>1, <1>3 DEF Carve, Blocks
<1>5. Blocks' = Blocks \cup {new}
  BY <1>4 DEF Blocks
<1>6. ASSUME NEW p \in Blocks'
      PROVE  heap'.size[p] \in Nat \ {0} /\ heap'.size[p] < 2^30
  BY <1>2, <1>4, <1>5, <1>6 DEF NothingLost
<1>7. ASSUME NEW p \in Blocks' \ DOMAIN live'
      PROVE  Reusable(p)'
  <2>1. p \in Blocks \ DOMAIN live /\ heap'.size[p] = heap.size[p]
    BY <1>4, <1>5, <1>7
  <2>2. Reusable(p)
    BY <2>1 DEF NothingLost
  <2> QED
    BY <1>4, <2>1, <2>2 DEF Reusable
<1> QED
  BY <1>6, <1>7 DEF NothingLost

(* Unlinking one block leaves the others of its list on it.                 *)
LEMMA RecycleLosesNothing ==
  ASSUME IInv, NothingLost, NEW cbSize \in Requests,
         FittingClasses(heap, Align(cbSize)) # {},
         heap' = Recycle(heap, Align(cbSize)).heap,
         live' = [p \in DOMAIN live \cup {Recycle(heap, Align(cbSize)).ptr} |->
                    IF p = Recycle(heap, Align(cbSize)).ptr THEN cbSize ELSE live[p]]
  PROVE  NothingLost'
<1>1. PICK n : n = Align(cbSize)
  OBVIOUS
<1>2. PICK c : c = Min(FittingClasses(heap, n))
  OBVIOUS
<1>3. c \in Classes /\ Fits(heap, n, c) # {}
  <2>1. FittingClasses(heap, n) \in SUBSET Nat
    BY DEF FittingClasses, Classes
  <2>2. c \in FittingClasses(heap, n)
    BY <1>1, <1>2, <2>1, MinIsMember
  <2> QED
    BY <2>2 DEF FittingClasses
<1>4. PICK i : i = Min(Fits(heap, n, c))
  OBVIOUS
<1>5. heap.free \in [Classes -> Seq(Blocks)] /\ heap.free[c] \in Seq(Blocks)
  BY <1>3 DEF IInv, TypeOK
<1>6. /\ DOMAIN heap.free[c] = 1..Len(heap.free[c])
      /\ Len(heap.free[c]) \in Nat
  BY <1>5
<1>7. i \in 1..Len(heap.free[c])
  <2>1. Fits(heap, n, c) \in SUBSET Nat
    BY <1>6 DEF Fits
  <2>2. i \in Fits(heap, n, c)
    BY <1>3, <1>4, <2>1, MinIsMember
  <2> QED
    BY <1>6, <2>2 DEF Fits
<1>8. PICK new : new = heap.free[c][i]
  OBVIOUS
<1>9. /\ heap'.size = heap.size
      /\ heap'.free = [heap.free EXCEPT ![c] = RemoveAt(heap.free[c], i)]
      /\ DOMAIN live' = DOMAIN live \cup {new}
  BY <1>1, <1>2, <1>4, <1>8 DEF Recycle
<1>10. Blocks' = Blocks
  BY <1>9 DEF Blocks
<1>11. /\ RemoveAt(heap.free[c], i) \in Seq(Blocks)
       /\ Len(RemoveAt(heap.free[c], i)) = Len(heap.free[c]) - 1
       /\ \A j \in 1..(Len(heap.free[c]) - 1) :
            RemoveAt(heap.free[c], i)[j] =
              IF j < i THEN heap.free[c][j] ELSE heap.free[c][j + 1]
  BY <1>5, <1>7, RemoveAtProperties
<1>12. ASSUME NEW p \in Blocks' \ DOMAIN live'
       PROVE  Reusable(p)'
  <2>1. p \in Blocks \ DOMAIN live /\ p # new
    BY <1>9, <1>10, <1>12
  <2>2. PICK d : d = Class(heap.size[p])
    OBVIOUS
  <2>3. d \in Classes /\ \E j \in DOMAIN heap.free[d] : heap.free[d][j] = p
    BY <2>1, <2>2 DEF NothingLost, Reusable
  <2>4. PICK j \in DOMAIN heap.free[d] : heap.free[d][j] = p
    BY <2>3
  <2>5. CASE d # c
    <3>1. heap'.free[d] = heap.free[d]
      BY <1>5, <1>9, <2>3, <2>5
    <3> QED
      BY <1>9, <2>2, <2>3, <2>4, <3>1 DEF Reusable
  <2>6. CASE d = c
    <3>1. heap'.free[d] = RemoveAt(heap.free[c], i)
      BY <1>5, <1>9, <2>3, <2>6
    <3>2. j \in 1..Len(heap.free[c]) /\ j # i
      BY <1>6, <1>8, <2>1, <2>4, <2>6
    <3>3. PICK k : k = IF j < i THEN j ELSE j - 1
      OBVIOUS
    <3>4. k \in 1..(Len(heap.free[c]) - 1) /\ (IF k < i THEN k ELSE k + 1) = j
      BY <1>6, <1>7, <3>2, <3>3
    <3>5. RemoveAt(heap.free[c], i)[k] = p
      BY <1>11, <2>4, <2>6, <3>4
    <3>6. k \in DOMAIN heap'.free[d] /\ heap'.free[d][k] = p
      BY <1>11, <3>1, <3>4, <3>5
    <3> QED
      BY <1>9, <2>2, <2>3, <3>6 DEF Reusable
  <2> QED
    BY <2>5, <2>6
<1> QED
  BY <1>9, <1>10, <1>12 DEF NothingLost

(* A block that is given back goes on the list of its class: its assertion  *)
(* has made sure there is one.                                              *)
LEMMA FreeLosesNothing ==
  ASSUME IInv, NothingLost, NEW p \in DOMAIN live, FreeAsserts(heap, p),
         heap' = HeapFree(heap, p),
         live' = [q \in DOMAIN live \ {p} |-> live[q]]
  PROVE  NothingLost'
<1>1. PICK c : c = Class(heap.size[p])
  OBVIOUS
<1>2. /\ heap'.size = heap.size
      /\ heap'.free = [heap.free EXCEPT ![c] = <<p>> \o heap.free[c]]
      /\ DOMAIN live' = DOMAIN live \ {p}
  BY <1>1 DEF HeapFree
<1>3. Blocks' = Blocks /\ p \in Blocks
  BY <1>2 DEF Blocks, IInv, TypeOK
<1>4. c \in Classes
  <2>1. heap.size[p] \in Nat \ {0} /\ heap.size[p] < 2^30
    BY <1>3 DEF NothingLost
  <2> QED
    BY <1>1, <2>1, ClassProperties DEF FreeAsserts
<1>5. heap.free \in [Classes -> Seq(Blocks)] /\ heap.free[c] \in Seq(Blocks)
  BY <1>4 DEF IInv, TypeOK
<1>6. /\ <<p>> \o heap.free[c] \in Seq(Blocks)
      /\ Len(<<p>> \o heap.free[c]) = Len(heap.free[c]) + 1
      /\ \A i \in 1..(Len(heap.free[c]) + 1) :
           (<<p>> \o heap.free[c])[i] = IF i = 1 THEN p ELSE heap.free[c][i - 1]
  BY <1>3, <1>5, PushProperties
<1>7. DOMAIN heap.free[c] = 1..Len(heap.free[c]) /\ Len(heap.free[c]) \in Nat
  BY <1>5
<1>8. heap'.free[c] = <<p>> \o heap.free[c]
  BY <1>2, <1>4, <1>5
<1>9. DOMAIN heap'.free[c] = 1..(Len(heap.free[c]) + 1)
  BY <1>6, <1>8
<1>10. ASSUME NEW q \in Blocks' \ DOMAIN live'
       PROVE  Reusable(q)'
  <2>1. CASE q = p
    <3>1. 1 \in DOMAIN heap'.free[c] /\ heap'.free[c][1] = p
      BY <1>6, <1>7, <1>8, <1>9
    <3> QED
      BY <1>1, <1>2, <1>4, <2>1, <3>1 DEF Reusable
  <2>2. CASE q # p
    <3>1. PICK d : d = Class(heap.size[q])
      OBVIOUS
    <3>2. d \in Classes /\ \E j \in DOMAIN heap.free[d] : heap.free[d][j] = q
      BY <1>2, <1>3, <1>10, <2>2, <3>1 DEF NothingLost, Reusable
    <3>3. PICK j \in DOMAIN heap.free[d] : heap.free[d][j] = q
      BY <3>2
    <3>4. CASE d # c
      <4>1. heap'.free[d] = heap.free[d]
        BY <1>2, <1>5, <3>2, <3>4
      <4> QED
        BY <1>2, <3>1, <3>2, <3>3, <4>1 DEF Reusable
    <3>5. CASE d = c
      <4>1. j \in 1..Len(heap.free[c])
        BY <1>7, <3>5
      <4>2. j + 1 \in 1..(Len(heap.free[c]) + 1) /\ j + 1 # 1 /\ (j + 1) - 1 = j
        BY <1>7, <4>1
      <4>3. j + 1 \in DOMAIN heap'.free[d] /\ heap'.free[d][j + 1] = q
        BY <1>6, <1>8, <1>9, <3>3, <3>5, <4>2
      <4> QED
        BY <1>2, <3>1, <3>2, <4>3 DEF Reusable
    <3> QED
      BY <3>4, <3>5
  <2> QED
    BY <2>1, <2>2
<1> QED
  BY <1>2, <1>3, <1>10 DEF NothingLost

LEMMA NextNothingLost == IInv /\ NothingLost /\ [Next]_vars => NothingLost'
<1> SUFFICES ASSUME IInv, NothingLost, [Next]_vars PROVE NothingLost'
  OBVIOUS
<1>1. ASSUME heap' = heap, live' = live PROVE NothingLost'
  BY <1>1 DEF NothingLost, Reusable, Blocks
<1>2. ASSUME NEW cbSize \in Requests, Alloc(cbSize) PROVE NothingLost'
  <2> DEFINE n == Align(cbSize)
  <2>1. CASE FitsBase(heap, n)
    <3>1. Carve(heap, n).ptr # NULL
      BY HeapAssumption DEF IInv, TypeOK, Carve, NULL
    <3> QED
      BY <1>2, <2>1, <3>1, CarveLosesNothing DEF Alloc, HeapAlloc
  <2>2. CASE ~FitsBase(heap, n) /\ FittingClasses(heap, n) # {}
    <3>1. Recycle(heap, n).ptr # NULL
      BY <2>2, RecycledIsBlock DEF IInv, TypeOK, NULL
    <3> QED
      BY <1>2, <2>2, <3>1, RecycleLosesNothing DEF Alloc, HeapAlloc
  <2>3. CASE ~FitsBase(heap, n) /\ FittingClasses(heap, n) = {}
    BY <1>1, <1>2, <2>3 DEF Alloc, HeapAlloc
  <2> QED
    BY <2>1, <2>2, <2>3
<1>3. ASSUME NEW p \in DOMAIN live, Free(p) PROVE NothingLost'
  BY <1>3, FreeLosesNothing DEF Free
<1>4. ASSUME NEW p \in DOMAIN live, FreeAborts(p) PROVE NothingLost'
  BY <1>1, <1>4 DEF FreeAborts
<1>5. CASE UNCHANGED vars
  BY <1>1, <1>5 DEF vars
<1> QED
  BY <1>2, <1>3, <1>4, <1>5 DEF Next

(* Heap::alloc returns NULL only when the arena is used up and no block    *)
(* that was given back is large enough: the search from the class of the   *)
(* request upwards misses none.                                            *)
THEOREM HeapRefusedOnlyWhenFull == Spec => []RefusedOnlyWhenFull
<1>1. ASSUME IInv, NothingLost PROVE RefusedOnlyWhenFull
  <2> SUFFICES ASSUME NEW cbSize \in Requests,
                      HeapAlloc(heap, cbSize).ptr = NULL,
                      NEW p \in Blocks \ DOMAIN live,
                      ~(heap.size[p] < Align(cbSize))
               PROVE  FALSE
    BY DEF RefusedOnlyWhenFull
  <2>1. PICK n : n = Align(cbSize)
    OBVIOUS
  <2>2. n \in Nat \ {0}
    <3>1. cbSize \in Nat \ {0}
      BY RequestsAssumption
    <3>2. Align(cbSize) \in Nat /\ cbSize <= Align(cbSize)
      BY <3>1, AlignBound
    <3> QED
      BY <2>1, <3>1, <3>2
  <2>3. FittingClasses(heap, n) = {}
    <3>1. Carve(heap, n).ptr # NULL
      BY HeapAssumption, <1>1 DEF IInv, TypeOK, Carve, NULL
    <3>2. FittingClasses(heap, n) # {} => Recycle(heap, n).ptr # NULL
      BY <1>1, RecycledIsBlock DEF IInv, TypeOK, NULL
    <3> QED
      BY <2>1, <3>1, <3>2 DEF HeapAlloc
  <2>4. heap.size[p] \in Nat \ {0} /\ heap.size[p] < 2^30 /\ Reusable(p)
    BY <1>1 DEF NothingLost
  <2>5. n <= heap.size[p]
    BY <2>1, <2>2, <2>4
  <2>6. PICK c : c = Class(heap.size[p])
    OBVIOUS
  <2>7. Class(n) <= c
    BY <2>2, <2>4, <2>5, <2>6, ClassProperties
  <2>8. c \in Classes /\ \E i \in DOMAIN heap.free[c] : heap.free[c][i] = p
    BY <2>4, <2>6 DEF Reusable
  <2>9. Fits(heap, n, c) # {}
    BY <2>5, <2>8 DEF Fits
  <2>10. c >= Class(n)
    <3>1. c \in Int /\ Class(n) \in Int
      BY <2>2, <2>4, <2>5, <2>8, ClassProperties DEF Classes
    <3> QED
      BY <2>7, <3>1
  <2> QED
    BY <2>3, <2>8, <2>9, <2>10 DEF FittingClasses
<1> QED
  BY <1>1, InitIInv, NextIInv, InitNothingLost, NextNothingLost, PTL DEF Spec
=============================================================================
