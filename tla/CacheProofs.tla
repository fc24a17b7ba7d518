----------------------------- MODULE CacheProofs -----------------------------
(***************************************************************************)
(* Theorems about the cache: whatever the keys, the bins, the hash, the    *)
(* arena, the values and the order of the operations, the chains stay      *)
(* whole, items never share memory, values stay inside their blocks, and   *)
(* what clients find changes as CacheContract says, but for append.        *)
(***************************************************************************)
EXTENDS Cache, BasicFacts, FiniteSetTheorems, SequenceTheorems, TLAPS

(* The heap                                                                *)

\* p is on a free list of h.
IsFree(h, p) == \E c \in Classes : \E i \in DOMAIN h.free[c] : h.free[c][i] = p

\* What the cache relies on: blocks lie below what has never been carved, and
\* are on the free lists at most once.
HeapOK(h) ==
  /\ h.offset \in 0..ArenaSize
  /\ DOMAIN h.size \subseteq Nat \ {0}
  /\ h.size \in [DOMAIN h.size -> Nat]
  /\ \A p \in DOMAIN h.size : p + h.size[p] <= h.offset
  /\ h.free \in [Classes -> Seq(DOMAIN h.size)]
  /\ \A c, d \in Classes : \A i \in DOMAIN h.free[c], j \in DOMAIN h.free[d] :
       h.free[c][i] = h.free[d][j] => c = d /\ i = j

(* Rounding up to the alignment never shrinks a length. *)
LEMMA AlignGrows ==
  ASSUME NEW v \in Nat
  PROVE  Align(v) \in Nat /\ v <= Align(v)
<1>1. ALIGNMENT \in Nat \ {0}
  BY HeapAssumption
<1>2. (ALIGNMENT - (v % ALIGNMENT)) \in Nat
  BY <1>1
<1>3. (ALIGNMENT - (v % ALIGNMENT)) % ALIGNMENT \in Nat
  BY <1>1, <1>2
<1> QED
  BY <1>3 DEF Align

(* What an allocation that succeeds does, carved or recycled: p is the     *)
(* block, n its size, h the heap before and g the one after.               *)
Allocated(h, g, p, n) ==
  /\ HeapOK(g)
  /\ p \in Nat \ {0}
  /\ DOMAIN g.size = DOMAIN h.size \cup {p}
  /\ g.size[p] \in Nat /\ n <= g.size[p]
  /\ \A q \in DOMAIN h.size : g.size[q] = h.size[q]
  /\ \A q : IsFree(g, q) => IsFree(h, q) /\ q # p
  /\ \A q : IsFree(h, q) /\ q # p => IsFree(g, q)
  /\ p \in DOMAIN h.size => IsFree(h, p)

LEMMA CarveAllocates ==
  ASSUME NEW h, HeapOK(h), NEW n \in Nat, FitsBase(h, n)
  PROVE  LET r == Carve(h, n) IN Allocated(h, r.heap, r.ptr, n)
<1>1. PICK p : p = h.offset + EntrySize
  OBVIOUS
<1>2. PICK g : g = Carve(h, n).heap
  OBVIOUS
<1>3. /\ Carve(h, n).ptr = p
      /\ g.offset = p + n
      /\ g.size = [q \in DOMAIN h.size \cup {p} |-> IF q = p THEN n ELSE h.size[q]]
      /\ g.free = h.free
  BY <1>1, <1>2 DEF Carve
<1>4. p \in Nat \ {0} /\ p \notin DOMAIN h.size /\ h.offset <= p
  BY <1>1, HeapAssumption DEF HeapOK
<1>5. DOMAIN g.size = DOMAIN h.size \cup {p}
  BY <1>3
<1>6. g.size[p] = n /\ \A q \in DOMAIN h.size : g.size[q] = h.size[q]
  BY <1>3, <1>4
<1>7. HeapOK(g)
  <2>1. g.size \in [DOMAIN g.size -> Nat]
    BY <1>3 DEF HeapOK
  <2>2. \A q \in DOMAIN g.size : q + g.size[q] <= g.offset
    <3>1. ASSUME NEW q \in DOMAIN h.size PROVE q + g.size[q] <= g.offset
      <4>1. q + h.size[q] <= h.offset /\ q + h.size[q] \in Nat /\ h.offset \in Nat
        BY DEF HeapOK
      <4> QED
        BY <1>3, <1>4, <1>6, <4>1
    <3>2. p + g.size[p] <= g.offset
      BY <1>3, <1>4, <1>6
    <3> QED
      BY <1>5, <3>1, <3>2
  <2>3. g.free \in [Classes -> Seq(DOMAIN g.size)]
    <3>1. \A c \in Classes : h.free[c] \in Seq(DOMAIN g.size)
      BY <1>5 DEF HeapOK
    <3> QED
      BY <1>3, <3>1 DEF HeapOK
  <2>4. DOMAIN g.size \subseteq Nat \ {0}
    BY <1>3, <1>4, <1>5 DEF HeapOK
  <2>5. g.offset \in 0..ArenaSize
    BY <1>1, <1>3, <1>4, HeapAssumption DEF FitsBase, HeapOK
  <2>6. \A c, d \in Classes : \A i \in DOMAIN g.free[c], j \in DOMAIN g.free[d] :
          g.free[c][i] = g.free[d][j] => c = d /\ i = j
    BY <1>3 DEF HeapOK
  <2> QED
    BY <2>1, <2>2, <2>3, <2>4, <2>5, <2>6 DEF HeapOK
<1>8. \A q : IsFree(h, q) => q \in DOMAIN h.size
  BY DEF IsFree, HeapOK
<1>9. \A q : IsFree(g, q) <=> IsFree(h, q)
  BY <1>3 DEF IsFree
<1> QED
  BY <1>2, <1>3, <1>4, <1>5, <1>6, <1>7, <1>8, <1>9 DEF Allocated

LEMMA RecycleAllocates ==
  ASSUME NEW h, HeapOK(h), NEW n \in Nat, FittingClasses(h, n) # {}
  PROVE  LET r == Recycle(h, n) IN Allocated(h, r.heap, r.ptr, n)
<1>1. PICK c : c = Min(FittingClasses(h, n))
  OBVIOUS
<1>2. c \in Classes /\ Fits(h, n, c) # {}
  <2>1. FittingClasses(h, n) \in SUBSET Nat
    BY DEF FittingClasses, Classes
  <2>2. c \in FittingClasses(h, n)
    BY <1>1, <2>1, MinIsMember
  <2> QED
    BY <2>2 DEF FittingClasses
<1>3. PICK k : k = Min(Fits(h, n, c))
  OBVIOUS
<1>4. PICK s \in Seq(DOMAIN h.size) : s = h.free[c]
  BY <1>2 DEF HeapOK
<1>5. DOMAIN s = 1..Len(s) /\ Len(s) \in Nat
  OBVIOUS
<1>6. k \in 1..Len(s) /\ h.size[s[k]] >= n
  <2>1. Fits(h, n, c) \in SUBSET Nat
    BY <1>4, <1>5 DEF Fits
  <2>2. k \in Fits(h, n, c)
    BY <1>2, <1>3, <2>1, MinIsMember
  <2> QED
    BY <1>4, <1>5, <2>2 DEF Fits
<1>7. PICK p : p = s[k]
  OBVIOUS
<1>8. p \in DOMAIN h.size /\ p \in Nat \ {0} /\ h.size[p] \in Nat
  BY <1>6, <1>7 DEF HeapOK
<1>9. PICK g : g = Recycle(h, n).heap
  OBVIOUS
<1>10. /\ Recycle(h, n).ptr = p
       /\ g.offset = h.offset
       /\ g.size = h.size
       /\ g.free = [h.free EXCEPT ![c] = RemoveAt(s, k)]
  BY <1>1, <1>3, <1>4, <1>7, <1>9 DEF Recycle
<1>11. PICK t : t = RemoveAt(s, k)
  OBVIOUS
<1>12. /\ t \in Seq(DOMAIN h.size)
       /\ Len(t) = Len(s) - 1
       /\ \A j \in 1..(Len(s) - 1) : t[j] = IF j < k THEN s[j] ELSE s[j + 1]
  BY <1>6, <1>11, RemoveAtProperties
<1>13. DOMAIN t = 1..(Len(s) - 1)
  BY <1>12
<1>14. h.free \in [Classes -> Seq(DOMAIN h.size)]
  BY DEF HeapOK
<1>15. g.free[c] = t /\ \A d \in Classes : d # c => g.free[d] = h.free[d]
  BY <1>2, <1>10, <1>11, <1>14
<1>16. g.free \in [Classes -> Seq(DOMAIN g.size)]
  BY <1>10, <1>11, <1>12, <1>14
<1> DEFINE was(d, j) == IF d = c /\ j >= k THEN j + 1 ELSE j
<1>17. ASSUME NEW d \in Classes, NEW j \in DOMAIN g.free[d]
       PROVE  /\ j \in Nat
              /\ was(d, j) \in DOMAIN h.free[d]
              /\ g.free[d][j] = h.free[d][was(d, j)]
              /\ ~(d = c /\ was(d, j) = k)
  <2>1. CASE d # c
    <3>1. g.free[d] = h.free[d] /\ h.free[d] \in Seq(DOMAIN h.size)
      BY <1>14, <1>15, <2>1
    <3> QED
      BY <2>1, <3>1
  <2>2. CASE d = c
    <3>1. j \in 1..(Len(s) - 1)
      BY <1>13, <1>15, <2>2
    <3>2. g.free[d][j] = IF j < k THEN s[j] ELSE s[j + 1]
      BY <1>12, <1>15, <2>2, <3>1
    <3>3. was(d, j) = IF j < k THEN j ELSE j + 1
      BY <1>6, <2>2, <3>1
    <3>4. was(d, j) \in 1..Len(s) /\ was(d, j) # k
      BY <1>5, <1>6, <3>1, <3>3
    <3> HIDE DEF was
    <3> QED
      BY <1>4, <1>5, <2>2, <3>1, <3>2, <3>3, <3>4
  <2> QED
    BY <2>1, <2>2
<1> HIDE DEF was
<1>18. \A d, e \in Classes : \A i \in DOMAIN h.free[d], j \in DOMAIN h.free[e] :
         h.free[d][i] = h.free[e][j] => d = e /\ i = j
  BY DEF HeapOK
<1>19. HeapOK(g)
  <2>1. ASSUME NEW d \in Classes, NEW e \in Classes,
               NEW i \in DOMAIN g.free[d], NEW j \in DOMAIN g.free[e],
               g.free[d][i] = g.free[e][j]
        PROVE  d = e /\ i = j
    <3>1. h.free[d][was(d, i)] = h.free[e][was(e, j)]
      BY <1>17, <2>1
    <3>2. d = e /\ was(d, i) = was(e, j)
      BY <1>17, <1>18, <3>1
    <3>3. i \in Nat /\ j \in Nat
      BY <1>17
    <3> QED
      BY <1>6, <3>2, <3>3 DEF was
  <2> QED
    BY <1>10, <1>16, <2>1 DEF HeapOK
<1>20. ASSUME NEW q, IsFree(g, q) PROVE IsFree(h, q) /\ q # p
  <2>1. PICK d \in Classes : \E j \in DOMAIN g.free[d] : g.free[d][j] = q
    BY <1>20 DEF IsFree
  <2>2. PICK j \in DOMAIN g.free[d] : g.free[d][j] = q
    BY <2>1
  <2>3. was(d, j) \in DOMAIN h.free[d] /\ h.free[d][was(d, j)] = q
        /\ ~(d = c /\ was(d, j) = k)
    BY <1>17, <2>2
  <2>4. q # p
    BY <1>2, <1>4, <1>5, <1>6, <1>7, <1>18, <2>3
  <2> QED
    BY <2>3, <2>4 DEF IsFree
<1>21. ASSUME NEW q, IsFree(h, q), q # p PROVE IsFree(g, q)
  <2>1. PICK d \in Classes : \E j \in DOMAIN h.free[d] : h.free[d][j] = q
    BY <1>21 DEF IsFree
  <2>2. PICK j \in DOMAIN h.free[d] : h.free[d][j] = q
    BY <2>1
  <2>3. CASE d # c
    BY <1>15, <2>2, <2>3 DEF IsFree
  <2>4. CASE d = c
    <3>1. j \in 1..Len(s) /\ s[j] = q /\ j # k
      BY <1>4, <1>5, <1>7, <1>21, <2>2, <2>4
    <3>2. PICK i : i = IF j < k THEN j ELSE j - 1
      OBVIOUS
    <3>3. i \in 1..(Len(s) - 1) /\ (IF i < k THEN i ELSE i + 1) = j
      BY <1>5, <1>6, <3>1, <3>2
    <3>4. i \in DOMAIN t /\ t[i] = q
      BY <1>12, <1>13, <3>1, <3>3
    <3> QED
      BY <1>2, <1>15, <3>4 DEF IsFree
  <2> QED
    BY <2>3, <2>4
<1>22. IsFree(h, p)
  BY <1>2, <1>4, <1>5, <1>6, <1>7 DEF IsFree
<1> QED
  BY <1>6, <1>7, <1>8, <1>9, <1>10, <1>19, <1>20, <1>21, <1>22 DEF Allocated

(* Heap::alloc: a block as large as asked for that nobody has, or NULL and *)
(* the heap as it was.                                                     *)
LEMMA AllocProperties ==
  ASSUME NEW h, HeapOK(h), NEW n \in Nat
  PROVE  LET r == HeapAlloc(h, n)
         IN  IF r.ptr = NULL THEN r.heap = h ELSE Allocated(h, r.heap, r.ptr, n)
<1>1. PICK m : m = Align(n)
  OBVIOUS
<1>2. m \in Nat /\ n <= m
  BY <1>1, AlignGrows
<1>3. ASSUME NEW g, NEW p, Allocated(h, g, p, m) PROVE Allocated(h, g, p, n) /\ p # NULL
  BY <1>2, <1>3 DEF Allocated, NULL
<1>4. CASE FitsBase(h, m)
  <2>1. PICK r : r = Carve(h, m)
    OBVIOUS
  <2>2. Allocated(h, r.heap, r.ptr, m)
    BY <1>2, <1>4, <2>1, CarveAllocates
  <2>3. HeapAlloc(h, n) = r
    BY <1>1, <1>4, <2>1 DEF HeapAlloc
  <2> QED
    BY <1>3, <2>2, <2>3
<1>5. CASE ~FitsBase(h, m) /\ FittingClasses(h, m) # {}
  <2>1. PICK r : r = Recycle(h, m)
    OBVIOUS
  <2>2. Allocated(h, r.heap, r.ptr, m)
    BY <1>2, <1>5, <2>1, RecycleAllocates
  <2>3. HeapAlloc(h, n) = r
    BY <1>1, <1>5, <2>1 DEF HeapAlloc
  <2> QED
    BY <1>3, <2>2, <2>3
<1>6. CASE ~FitsBase(h, m) /\ FittingClasses(h, m) = {}
  BY <1>1, <1>6 DEF HeapAlloc, NULL
<1> QED
  BY <1>4, <1>5, <1>6

(* Heap::free: the block is free, and nothing else that was not.           *)
LEMMA FreeProperties ==
  ASSUME NEW h, HeapOK(h), NEW p \in DOMAIN h.size, ~IsFree(h, p)
  PROVE  LET g == HeapFree(h, p)
         IN  /\ HeapOK(g)
             /\ g.size = h.size
             /\ \A q : IsFree(g, q) => IsFree(h, q) \/ q = p
<1>1. PICK c : c = Class(h.size[p])
  OBVIOUS
<1>2. PICK g : g = HeapFree(h, p)
  OBVIOUS
<1>3. /\ g.offset = h.offset
      /\ g.size = h.size
      /\ g.free = [h.free EXCEPT ![c] = <<p>> \o h.free[c]]
  BY <1>1, <1>2 DEF HeapFree
<1>4. h.free \in [Classes -> Seq(DOMAIN h.size)]
  BY DEF HeapOK
<1>5. ASSUME c \in Classes
      PROVE  /\ h.free[c] \in Seq(DOMAIN h.size)
             /\ <<p>> \o h.free[c] \in Seq(DOMAIN h.size)
             /\ Len(<<p>> \o h.free[c]) = Len(h.free[c]) + 1
             /\ \A i \in 1..(Len(h.free[c]) + 1) :
                  (<<p>> \o h.free[c])[i] = IF i = 1 THEN p ELSE h.free[c][i - 1]
  <2>1. PICK f \in Seq(DOMAIN h.size) : f = h.free[c]
    BY <1>4, <1>5
  <2>2. /\ <<p>> \o f \in Seq(DOMAIN h.size)
        /\ Len(<<p>> \o f) = Len(f) + 1
        /\ \A i \in 1..(Len(f) + 1) : (<<p>> \o f)[i] = IF i = 1 THEN p ELSE f[i - 1]
    <3>1. PICK S : S = DOMAIN h.size
      OBVIOUS
    <3>2. f \in Seq(S) /\ p \in S
      BY <3>1
    <3>3. /\ <<p>> \o f \in Seq(S)
          /\ Len(<<p>> \o f) = Len(f) + 1
          /\ \A i \in 1..(Len(f) + 1) : (<<p>> \o f)[i] = IF i = 1 THEN p ELSE f[i - 1]
      BY <3>2, PushProperties
    <3> QED
      BY <3>1, <3>3
  <2> QED
    BY <2>1, <2>2
<1>6. g.free \in [Classes -> Seq(DOMAIN g.size)]
  BY <1>3, <1>4, <1>5
<1> DEFINE pushed(d, j) == d = c /\ j = 1
           was(d, j)    == IF d = c THEN j - 1 ELSE j
<1>7. ASSUME NEW d \in Classes, NEW j \in DOMAIN g.free[d]
      PROVE  /\ j \in Nat
             /\ IF pushed(d, j) THEN g.free[d][j] = p
                ELSE /\ was(d, j) \in DOMAIN h.free[d]
                     /\ g.free[d][j] = h.free[d][was(d, j)]
  <2>1. CASE d # c
    <3>1. g.free[d] = h.free[d] /\ h.free[d] \in Seq(DOMAIN h.size)
      BY <1>3, <1>4, <2>1
    <3> QED
      BY <2>1, <3>1
  <2>2. CASE d = c
    <3>1. g.free[d] = <<p>> \o h.free[c] /\ h.free[c] \in Seq(DOMAIN h.size)
      BY <1>3, <1>4, <2>2
    <3>2. Len(h.free[c]) \in Nat /\ DOMAIN h.free[c] = 1..Len(h.free[c])
      BY <3>1
    <3>3. j \in 1..(Len(h.free[c]) + 1)
      BY <1>5, <2>2, <3>1, <3>2
    <3>4. g.free[d][j] = IF j = 1 THEN p ELSE h.free[c][j - 1]
      BY <1>5, <2>2, <3>1, <3>3
    <3> QED
      BY <2>2, <3>2, <3>3, <3>4
  <2> QED
    BY <2>1, <2>2
<1> HIDE DEF pushed, was
<1>8. ASSUME NEW d \in Classes, NEW e \in Classes,
             NEW i \in DOMAIN g.free[d], NEW j \in DOMAIN g.free[e],
             g.free[d][i] = g.free[e][j]
      PROVE  d = e /\ i = j
  <2>1. \A b \in Classes : \A k \in DOMAIN h.free[b] : h.free[b][k] # p
    BY DEF IsFree
  <2>2. pushed(d, i) <=> pushed(e, j)
    BY <1>7, <1>8, <2>1
  <2>3. CASE pushed(d, i)
    BY <2>2, <2>3 DEF pushed
  <2>4. CASE ~pushed(d, i)
    <3>1. h.free[d][was(d, i)] = h.free[e][was(e, j)]
      BY <1>7, <1>8, <2>2, <2>4
    <3>2. d = e /\ was(d, i) = was(e, j)
      BY <1>7, <2>2, <2>4, <3>1 DEF HeapOK
    <3>3. i \in Nat /\ j \in Nat
      BY <1>7
    <3> QED
      BY <3>2, <3>3 DEF was
  <2> QED
    BY <2>3, <2>4
<1>9. HeapOK(g)
  BY <1>3, <1>6, <1>8 DEF HeapOK
<1>10. \A q : IsFree(g, q) => IsFree(h, q) \/ q = p
  BY <1>7 DEF IsFree
<1> QED
  BY <1>2, <1>3, <1>9, <1>10

\* The arena is not too large for logh: a block has fewer than 2^30 bytes.
SmallArena == ArenaSize <= 2^30

(* The class of a size exists when its row does.                           *)
LEMMA ClassExists ==
  ASSUME NEW v \in Nat \ {0}, v < 2^30, logh(v) < HEAP_ALLOC_BITS
  PROVE  Class(v) \in Classes
<1>1. /\ \A k \in 0..30 : 2^k \in Nat \ {0}
      /\ \A k \in 0..30 : 2^k < HEAP_ALLOC_SLOTS \/ 2^k % HEAP_ALLOC_SLOTS = 0
  BY Doubling, SlotsAssumption
<1>2. PICK s \in Nat \ {0}, b \in Nat : s = HEAP_ALLOC_SLOTS /\ b = HEAP_ALLOC_BITS
  BY HeapAssumption
<1>3. PICK l : l = HighBit(v)
  OBVIOUS
<1>4. l = logh(v)
  BY <1>3 DEF logh, HighBit
<1>5. l \in 0..29 /\ 2^l <= v /\ v < 2 * 2^l
  BY <1>3, HighestBit, Zenon
<1>6. PICK w : w = 2^l
  OBVIOUS
<1>7. w \in Nat \ {0} /\ (w < s \/ w % s = 0)
  <2>1. l \in 0..30
    BY <1>5
  <2>2. 2^l \in Nat \ {0} /\ (2^l < HEAP_ALLOC_SLOTS \/ 2^l % HEAP_ALLOC_SLOTS = 0)
    BY <1>1, <2>1, Zenon
  <2> QED
    BY <1>2, <1>6, <2>2
<1>8. PICK x : x = v - w
  OBVIOUS
<1>9. x \in Nat /\ x < w
  BY <1>5, <1>6, <1>7, <1>8
<1>10. PICK div : div = w \div s
  OBVIOUS
<1>11. div # 0 => x \div div \in 0..(s - 1)
  BY <1>2, <1>7, <1>9, <1>10, SlotsOfRow
<1>12. SlotOf(v) = IF div = 0 THEN 0 ELSE x \div div
  BY <1>2, <1>4, <1>6, <1>8, <1>10 DEF SlotOf
<1>13. PICK t \in 0..(s - 1) : t = SlotOf(v)
  BY <1>2, <1>11, <1>12
<1>14. l * s + t \in 0..(b * s - 1)
  <2>1. l \in 0..(b - 1)
    BY <1>2, <1>4, <1>5
  <2> QED
    BY <1>2, <1>13, <2>1, RowMajor
<1> QED
  BY <1>2, <1>4, <1>13, <1>14 DEF Class, Classes

(* Heap::free loses nothing: what was free is, and so is the block.        *)
LEMMA FreeReturns ==
  ASSUME SmallArena, NEW h, HeapOK(h), NEW p \in DOMAIN h.size, ~IsFree(h, p),
         h.size[p] # 0, FreeAsserts(h, p)
  PROVE  \A q : IsFree(HeapFree(h, p), q) <=> IsFree(h, q) \/ q = p
<1>1. PICK c : c = Class(h.size[p])
  OBVIOUS
<1>2. PICK g : g = HeapFree(h, p)
  OBVIOUS
<1>3. g.free = [h.free EXCEPT ![c] = <<p>> \o h.free[c]]
  BY <1>1, <1>2 DEF HeapFree
<1>4. PICK S : S = DOMAIN h.size
  OBVIOUS
<1>5. h.free \in [Classes -> Seq(S)] /\ p \in S
  BY <1>4 DEF HeapOK
<1>6. c \in Classes
  <2>1. PICK v : v = h.size[p]
    OBVIOUS
  <2>2. /\ v \in Nat \ {0} /\ p \in Nat \ {0}
        /\ p + v <= h.offset /\ h.offset \in 0..ArenaSize
    BY <2>1 DEF HeapOK
  <2>3. v < ArenaSize /\ ArenaSize \in Nat
    BY <2>2, HeapAssumption
  <2>4. v < 2^30
    <3>1. 2^30 \in Nat
      BY Doubling
    <3> QED
      BY <2>2, <2>3, <3>1 DEF SmallArena
  <2> QED
    BY <1>1, <2>1, <2>2, <2>4, ClassExists DEF FreeAsserts
<1>7. PICK f \in Seq(S) : f = h.free[c]
  BY <1>5, <1>6
<1>8. /\ Len(<<p>> \o f) = Len(f) + 1
      /\ \A i \in 1..(Len(f) + 1) : (<<p>> \o f)[i] = IF i = 1 THEN p ELSE f[i - 1]
      /\ <<p>> \o f \in Seq(S)
  BY <1>5, <1>7, PushProperties
<1>9. g.free[c] = <<p>> \o f /\ \A d \in Classes : d # c => g.free[d] = h.free[d]
  BY <1>3, <1>5, <1>6, <1>7
<1>10. IsFree(g, p)
  <2>1. 1 \in DOMAIN g.free[c] /\ g.free[c][1] = p
    BY <1>8, <1>9
  <2> QED
    BY <1>6, <2>1 DEF IsFree
<1>11. ASSUME NEW q, IsFree(h, q) PROVE IsFree(g, q)
  <2>1. PICK d \in Classes : \E i \in DOMAIN h.free[d] : h.free[d][i] = q
    BY <1>11 DEF IsFree
  <2>2. PICK i \in DOMAIN h.free[d] : h.free[d][i] = q
    BY <2>1
  <2>3. CASE d # c
    BY <1>9, <2>1, <2>2, <2>3 DEF IsFree
  <2>4. CASE d = c
    <3>1. i \in 1..Len(f) /\ f[i] = q
      BY <1>7, <2>2, <2>4
    <3>2. i + 1 \in DOMAIN g.free[c] /\ g.free[c][i + 1] = q
      BY <1>8, <1>9, <3>1
    <3> QED
      BY <1>6, <3>2 DEF IsFree
  <2> QED
    BY <2>3, <2>4
<1>12. \A q : IsFree(g, q) => IsFree(h, q) \/ q = p
  BY <1>2, FreeProperties
<1> QED
  BY <1>2, <1>10, <1>11, <1>12

-----------------------------------------------------------------------------
(* Chains                                                                  *)

\* ch lists the items of the chains of c, bin by bin: they are the ones the
\* pointers lead to, and none is in two places.
Shape(c, ch) ==
  /\ ch \in [Bins -> Seq(Items(c))]
  /\ \A b \in Bins : c.bin[b] = IF Len(ch[b]) = 0 THEN NULL ELSE ch[b][1]
  /\ \A b \in Bins : \A i \in 1..Len(ch[b]) :
       c.item[ch[b][i]].next = IF i = Len(ch[b]) THEN NULL ELSE ch[b][i + 1]
  /\ \A a, b \in Bins : \A i \in 1..Len(ch[a]), j \in 1..Len(ch[b]) :
       ch[a][i] = ch[b][j] => a = b /\ i = j

(* A chain that holds nothing twice is not longer than there are items.    *)
LEMMA ChainLength ==
  ASSUME NEW S, IsFiniteSet(S), NEW s \in Seq(S),
         \A i, j \in 1..Len(s) : s[i] = s[j] => i = j
  PROVE  Cardinality(S) \in Nat /\ Len(s) <= Cardinality(S)
<1>1. Cardinality(S) \in Nat
  BY FS_CardinalityType
<1>2. Len(s) \in Nat /\ s \in [1..Len(s) -> S]
  OBVIOUS
<1>3. s \in Injection(1..Len(s), S)
  BY <1>2 DEF Injection, IsInjective
<1>4. Cardinality(1..Len(s)) <= Cardinality(S)
  BY <1>3, FS_Injection
<1>5. Cardinality(1..Len(s)) = Len(s)
  BY <1>2, FS_Interval
<1> QED
  BY <1>1, <1>4, <1>5

\* Items are in memory, and so is what their pointers hold.
Addressed(c) ==
  /\ IsFiniteSet(Items(c))
  /\ Items(c) \subseteq Nat \ {0}
  /\ \A p \in Items(c) : c.item[p].next \in Nat

(* The function that follows the pointers is what its definition says.     *)
LEMMA ChainUnfolds ==
  ASSUME NEW c, Addressed(c), NEW b \in Bins, NEW n, n = Cardinality(Items(c))
  PROVE  \E from :
           /\ Chain(c, b) = from[n][c.bin[b]]
           /\ \A p \in Nat : from[0][p] = <<>>
           /\ \A left \in 1..n : \A p \in Nat :
                from[left][p] = IF p \notin Items(c) THEN <<>>
                                ELSE <<p>> \o from[left - 1][c.item[p].next]
<1>1. n = Cardinality(Items(c))
  OBVIOUS
<1>2. n \in Nat
  BY <1>1, FS_CardinalityType DEF Addressed
<1> DEFINE I == Items(c)
           S == [Nat -> Seq(I)]
           Shown(f) == f = [left \in 0..n |-> [p \in Nat |->
                         IF left = 0 \/ p \notin I THEN <<>>
                         ELSE <<p>> \o f[left - 1][c.item[p].next]]]
           a == [p \in Nat |-> <<>>]
           follow(h) == [p \in Nat |-> IF p \notin I THEN <<>>
                                       ELSE <<p>> \o h[c.item[p].next]]
           g == [i \in 1..n |-> [h \in S |-> follow(h)]]
<1>3. a \in S
  OBVIOUS
<1>4. ASSUME NEW h \in S PROVE follow(h) \in S
  <2>1. ASSUME NEW p \in Nat
        PROVE  (IF p \notin I THEN <<>> ELSE <<p>> \o h[c.item[p].next]) \in Seq(I)
    <3>1. CASE p \notin I
      BY <3>1
    <3>2. CASE p \in I
      <4>1. c.item[p].next \in Nat
        BY <3>2 DEF Addressed
      <4>2. PICK s \in Seq(I) : s = h[c.item[p].next]
        BY <4>1
      <4> HIDE DEF I
      <4>3. <<p>> \o s \in Seq(I)
        BY <3>2, PushProperties
      <4> QED
        BY <3>2, <4>2, <4>3
    <3> QED
      BY <3>1, <3>2
  <2> HIDE DEF I
  <2> QED
    BY <2>1
<1> HIDE DEF S, a
<1>5. g \in [1..n -> [S -> S]]
  BY <1>4
<1> HIDE DEF g
<1>6. PICK f \in [0..n -> S] : f[0] = a /\ \A i \in 1..n : f[i] = g[i][f[i - 1]]
  <2>1. \E f : Iterates(S, a, n, g, f)
    BY <1>2, <1>3, <1>5, Recursion, Zenon
  <2> QED
    BY <2>1 DEF Iterates
<1>7. ASSUME NEW left \in 1..n PROVE f[left] = follow(f[left - 1])
  <2>1. left - 1 \in 0..n /\ left \in 0..n /\ left # 0
    BY <1>2
  <2>2. f[left - 1] \in S
    BY <2>1
  <2>3. f[left] = g[left][f[left - 1]]
    BY <1>6, <2>1
  <2> HIDE DEF follow
  <2> QED
    BY <2>2, <2>3 DEF g
<1>8. f[0] = a
  BY <1>6
<1>9. Shown(f)
  <2>1. ASSUME NEW left \in 0..n
        PROVE  f[left] = [p \in Nat |-> IF left = 0 \/ p \notin I THEN <<>>
                                        ELSE <<p>> \o f[left - 1][c.item[p].next]]
    <3>1. CASE left = 0
      BY <1>8, <3>1 DEF a
    <3>2. CASE left # 0
      <4>1. left \in 1..n
        BY <1>2, <3>2
      <4> QED
        BY <1>7, <3>2, <4>1
    <3> QED
      BY <3>1, <3>2
  <2> QED
    BY <2>1
<1>10. PICK from : from = CHOOSE e : Shown(e)
  OBVIOUS
<1>11. Shown(from)
  <2> HIDE DEF Shown
  <2> QED
    BY <1>9, <1>10
<1>12. Chain(c, b) = from[n][c.bin[b]]
  BY <1>1, <1>10 DEF Chain
<1>13. \A p \in Nat : from[0][p] = <<>>
  BY <1>2, <1>11
<1>14. ASSUME NEW left \in 1..n, NEW p \in Nat
       PROVE  from[left][p] = IF p \notin I THEN <<>>
                              ELSE <<p>> \o from[left - 1][c.item[p].next]
  <2>1. left \in 0..n /\ left # 0
    BY <1>2
  <2>2. from[left] = [q \in Nat |-> IF left = 0 \/ q \notin I THEN <<>>
                                   ELSE <<q>> \o from[left - 1][c.item[q].next]]
    BY <1>11, <2>1
  <2> QED
    BY <2>1, <2>2
<1> QED
  BY <1>1, <1>12, <1>13, <1>14

(* Whatever lists the chains of a cache, Chain returns it.                 *)
LEMMA ChainIs ==
  ASSUME NEW c, Addressed(c), NEW ch, Shape(c, ch), NEW b \in Bins
  PROVE  Chain(c, b) = ch[b]
<1>1. PICK n : n = Cardinality(Items(c))
  OBVIOUS
<1>2. PICK s \in Seq(Items(c)) : s = ch[b]
  BY DEF Shape
<1>3. PICK L \in Nat : L = Len(s)
  OBVIOUS
<1>4. /\ c.bin[b] = IF L = 0 THEN NULL ELSE s[1]
      /\ \A i \in 1..L : c.item[s[i]].next = IF i = L THEN NULL ELSE s[i + 1]
      /\ \A i, j \in 1..L : s[i] = s[j] => i = j
  BY <1>2, <1>3 DEF Shape
<1>5. n \in Nat /\ L <= n
  BY <1>1, <1>3, <1>4, ChainLength DEF Addressed
<1>6. PICK from : /\ Chain(c, b) = from[n][c.bin[b]]
                  /\ \A p \in Nat : from[0][p] = <<>>
                  /\ \A left \in 1..n : \A p \in Nat :
                       from[left][p] = IF p \notin Items(c) THEN <<>>
                                       ELSE <<p>> \o from[left - 1][c.item[p].next]
  BY <1>1, ChainUnfolds
<1>7. PICK I : I = Items(c)
  OBVIOUS
<1>8. I \subseteq Nat \ {0} /\ s \in Seq(I) /\ \A i \in 1..L : s[i] \in I
  BY <1>3, <1>7 DEF Addressed
<1> DEFINE P(i) == IF i <= L THEN s[i] ELSE NULL
           Rest(i) == [j \in 1..(L + 1 - i) |-> s[i + j - 1]]
           Right(k) == \A left \in k..n : from[left][P(L + 1 - k)] = Rest(L + 1 - k)
           Bad == {k \in 0..L : ~Right(k)}
<1>9. Right(0)
  <2> SUFFICES ASSUME NEW left \in 0..n PROVE from[left][P(L + 1)] = Rest(L + 1)
    OBVIOUS
  <2>1. P(L + 1) = NULL /\ NULL \in Nat /\ NULL \notin I
    BY <1>8 DEF NULL
  <2>2. Rest(L + 1) = <<>>
    <3>1. L + 1 - (L + 1) = 0
      OBVIOUS
    <3> QED
      BY <3>1
  <2>3. from[left][NULL] = <<>>
    <3>1. CASE left = 0
      BY <1>6, <2>1, <3>1
    <3>2. CASE left # 0
      <4>1. left \in 1..n
        BY <1>5, <3>2
      <4> QED
        BY <1>6, <1>7, <2>1, <4>1
    <3> QED
      BY <3>1, <3>2
  <2> QED
    BY <2>1, <2>2, <2>3
<1>10. ASSUME NEW k \in 1..L, Right(k - 1) PROVE Right(k)
  <2> SUFFICES ASSUME NEW left \in k..n
               PROVE  from[left][P(L + 1 - k)] = Rest(L + 1 - k)
    OBVIOUS
  <2>1. PICK i \in 1..L : i = L + 1 - k
    OBVIOUS
  <2>2. left \in 1..n /\ left - 1 \in (k - 1)..n /\ L + 1 - (k - 1) = i + 1
    BY <1>5, <2>1
  <2>3. s[i] \in I /\ s[i] \in Nat /\ P(i) = s[i]
    <3>1. s[i] \in I /\ i <= L
      BY <1>8
    <3>2. s[i] \in Nat
      BY <1>8, <3>1
    <3> QED
      BY <3>1, <3>2
  <2>4. c.item[s[i]].next = P(i + 1)
    BY <1>4
  <2>5. from[left - 1][P(i + 1)] = Rest(i + 1)
    BY <1>10, <2>2
  <2>6. PICK t : t = Rest(i + 1)
    OBVIOUS
  <2>7. t \in Seq(I) /\ Len(t) = L - i /\ \A j \in 1..(L - i) : t[j] = s[i + j]
    <3>1. L + 1 - (i + 1) = L - i /\ L - i \in Nat
      OBVIOUS
    <3>2. t = [j \in 1..(L - i) |-> s[i + 1 + j - 1]]
      BY <2>6, <3>1
    <3>3. \A j \in 1..(L - i) : i + 1 + j - 1 = i + j /\ i + j \in 1..L
      OBVIOUS
    <3>4. t = [j \in 1..(L - i) |-> s[i + j]]
      BY <3>2, <3>3
    <3>5. \A j \in 1..(L - i) : s[i + j] \in I
      BY <1>8, <3>3
    <3> QED
      BY <3>1, <3>4, <3>5
  <2>8. from[left][s[i]] = <<s[i]>> \o t
    <3>1. from[left][s[i]] = IF s[i] \notin Items(c) THEN <<>>
                             ELSE <<s[i]>> \o from[left - 1][c.item[s[i]].next]
      BY <1>6, <2>2, <2>3
    <3> HIDE DEF P, Rest
    <3> QED
      BY <1>7, <2>3, <2>4, <2>5, <2>6, <3>1
  <2>9. PICK u : u = <<s[i]>> \o t
    OBVIOUS
  <2>10. /\ u \in Seq(I)
         /\ Len(u) = L - i + 1
         /\ \A j \in 1..(L - i + 1) : u[j] = IF j = 1 THEN s[i] ELSE t[j - 1]
    <3>1. /\ <<s[i]>> \o t \in Seq(I)
          /\ Len(<<s[i]>> \o t) = Len(t) + 1
          /\ \A j \in 1..(Len(t) + 1) :
               (<<s[i]>> \o t)[j] = IF j = 1 THEN s[i] ELSE t[j - 1]
      BY <2>3, <2>7, PushProperties
    <3> QED
      BY <2>7, <2>9, <3>1
  <2>11. \A j \in 1..(L - i + 1) : u[j] = s[i + j - 1]
    <3> SUFFICES ASSUME NEW j \in 1..(L - i + 1) PROVE u[j] = s[i + j - 1]
      OBVIOUS
    <3>1. CASE j = 1
      BY <2>10, <3>1
    <3>2. CASE j # 1
      <4>1. j - 1 \in 1..(L - i) /\ i + (j - 1) = i + j - 1
        BY <3>2
      <4> QED
        BY <2>7, <2>10, <3>2, <4>1
    <3> QED
      BY <3>1, <3>2
  <2>12. u = [j \in 1..(L - i + 1) |-> s[i + j - 1]]
    <3>1. u \in [1..(L - i + 1) -> I]
      BY <2>10
    <3> QED
      BY <2>11, <3>1
  <2>13. u = Rest(i)
    <3>1. L - i + 1 = L + 1 - i
      OBVIOUS
    <3> QED
      BY <2>12, <3>1
  <2> QED
    BY <2>1, <2>3, <2>8, <2>9, <2>13
<1> HIDE DEF Right
<1>11. Bad = {}
  <2> SUFFICES ASSUME Bad # {} PROVE FALSE
    OBVIOUS
  <2>1. Bad \in SUBSET Nat
    OBVIOUS
  <2>2. PICK k \in Bad : \A j \in Bad : k <= j
    BY <2>1, LeastMember
  <2>3. k \in 0..L /\ ~Right(k)
    OBVIOUS
  <2>4. k # 0
    BY <1>9, <2>3
  <2>5. k \in 1..L /\ k - 1 \in 0..L /\ k - 1 \notin Bad
    <3>1. k \in 1..L /\ k - 1 \in 0..L /\ ~(k <= k - 1)
      BY <2>3, <2>4
    <3> HIDE DEF Bad
    <3> QED
      BY <2>2, <3>1
  <2>6. Right(k - 1)
    BY <2>5
  <2> QED
    BY <1>10, <2>3, <2>5, <2>6
<1>12. Right(L)
  BY <1>11
<1>13. from[n][P(1)] = Rest(1)
  <2>1. n \in L..n /\ L + 1 - L = 1
    BY <1>5
  <2> QED
    BY <1>12, <2>1 DEF Right
<1>14. P(1) = c.bin[b]
  BY <1>4
<1>15. Rest(1) = s
  <2>1. L + 1 - 1 = L /\ \A j \in 1..L : 1 + j - 1 = j
    OBVIOUS
  <2>2. Rest(1) = [j \in 1..L |-> s[j]]
    BY <2>1
  <2>3. s = [j \in 1..L |-> s[j]]
    BY <1>3
  <2> QED
    BY <2>2, <2>3
<1> QED
  BY <1>2, <1>6, <1>13, <1>14, <1>15

-----------------------------------------------------------------------------
(* The inductive invariant                                                 *)

ItemRecord == [key : Keys \cup {Garbled}, value : Seq(Bytes), cas : Nat \ {0},
               expire : Nat, next : Nat]

Fitting(size, value) == Align(KeyLength) + Len(value) + HeaderSize <= size

\* The items of c are in blocks of their own that are large enough, whether a
\* chain leads to them or not, and have stamps that were given out.
Store(c) ==
  /\ c = [heap |-> c.heap, bin |-> c.bin, item |-> c.item, cas |-> c.cas]
  /\ HeapOK(c.heap)
  /\ c.bin \in [Bins -> Nat]
  /\ c.item \in [Items(c) -> ItemRecord]
  /\ c.cas \in Nat \ {0}
  /\ IsFiniteSet(Items(c)) /\ Items(c) \subseteq DOMAIN c.heap.size
  /\ \A p \in Items(c) : /\ ~IsFree(c.heap, p)
                         /\ c.item[p].cas < c.cas
                         /\ Fitting(c.heap.size[p], c.item[p].value)

\* Items are in the chain their key hashes to, and a key is there once.
Keyed(Odd, c, ch) ==
  /\ \A b \in Bins : \A i \in 1..Len(ch[b]) :
       c.item[ch[b][i]].key \notin Odd => HashOf[c.item[ch[b][i]].key] = b
  /\ \A b \in Bins : \A i, j \in 1..Len(ch[b]) :
       /\ c.item[ch[b][i]].key \notin Odd
       /\ c.item[ch[b][i]].key = c.item[ch[b][j]].key
       => i = j

Sound(Odd, c, ch) == Store(c) /\ Shape(c, ch) /\ Keyed(Odd, c, ch)

\* The item that the one at position k of a chain is linked to.
Before(s, k) == IF k = 1 THEN NULL ELSE s[k - 1]

LEMMA StoreAddressed ==
  ASSUME NEW c, Store(c)
  PROVE  Addressed(c)
<1>1. Items(c) \subseteq Nat \ {0}
  BY DEF Store, HeapOK
<1>2. \A p \in Items(c) : c.item[p].next \in Nat
  BY DEF Store, ItemRecord
<1> QED
  BY <1>1, <1>2 DEF Store, Addressed

\* f is what a search for the key ends with: at position k of its chain.
FoundAt(c, s, key, f, k) ==
  /\ k \in 1..(Len(s) + 1)
  /\ \A i \in 1..(k - 1) : c.item[s[i]].key # key
  /\ f.previous = Before(s, k)
  /\ f.item = IF k = Len(s) + 1 THEN NULL ELSE s[k]
  /\ k # Len(s) + 1 => c.item[s[k]].key = key

(* Hash::get searches the whole chain.                                     *)
LEMMA FindPosition ==
  ASSUME NEW Odd, NEW c, NEW ch, Sound(Odd, c, ch), NEW key \in Keys
  PROVE  /\ HashOf[key] \in Bins
         /\ \E k : FoundAt(c, ch[HashOf[key]], key, Find(c, key), k)
<1>1. HashOf[key] \in Bins
  BY CacheAssumption
<1>2. PICK b \in Bins : b = HashOf[key]
  BY <1>1
<1>3. PICK s \in Seq(Items(c)) : s = ch[b]
  BY DEF Sound, Shape
<1>4. Chain(c, HashOf[key]) = s
  BY <1>2, <1>3, StoreAddressed, ChainIs DEF Sound
<1>5. DOMAIN s = 1..Len(s) /\ Len(s) \in Nat
  OBVIOUS
<1>6. PICK hits : hits = {i \in 1..Len(s) : c.item[s[i]].key = key}
  OBVIOUS
<1>7. PICK stop : stop = IF hits = {} THEN Len(s) + 1 ELSE Min(hits)
  OBVIOUS
<1>8. PICK f : f = Find(c, key)
  OBVIOUS
<1>9. /\ f.item = IF hits = {} THEN NULL ELSE s[stop]
      /\ f.previous = Before(s, stop)
  BY <1>4, <1>5, <1>6, <1>7, <1>8 DEF Find, Before
<1>10. CASE hits = {}
  <2>1. \A i \in 1..Len(s) : c.item[s[i]].key # key
    BY <1>6, <1>10
  <2>2. stop = Len(s) + 1 /\ f.item = NULL
    BY <1>7, <1>9, <1>10
  <2>3. FoundAt(c, s, key, f, stop)
    BY <1>5, <1>9, <2>1, <2>2 DEF FoundAt
  <2> QED
    BY <1>1, <1>2, <1>3, <1>8, <2>3
<1>11. CASE hits # {}
  <2>1. hits \in SUBSET Nat
    BY <1>5, <1>6
  <2>2. PICK k \in hits : \A j \in hits : k <= j
    BY <1>11, <2>1, LeastMember
  <2>3. stop \in hits /\ \A j \in hits : stop <= j
    BY <1>7, <1>11, <2>2 DEF Min
  <2>4. stop \in 1..Len(s) /\ c.item[s[stop]].key = key
    BY <1>6, <2>3
  <2>5. \A i \in 1..(stop - 1) : c.item[s[i]].key # key
    <3> SUFFICES ASSUME NEW i \in 1..(stop - 1), c.item[s[i]].key = key PROVE FALSE
      OBVIOUS
    <3>1. i \in hits /\ ~(stop <= i)
      BY <1>5, <1>6, <2>4
    <3> QED
      BY <2>3, <3>1
  <2>6. FoundAt(c, s, key, f, stop)
    BY <1>5, <1>9, <1>11, <2>4, <2>5 DEF FoundAt
  <2> QED
    BY <1>1, <1>2, <1>3, <1>8, <2>6
<1> QED
  BY <1>10, <1>11

-----------------------------------------------------------------------------
(* Linking                                                                 *)

\* c and d have the same items, apart from the pointers.
SameItems(c, d) ==
  /\ d.heap = c.heap /\ d.cas = c.cas /\ Items(d) = Items(c)
  /\ \A q \in Items(c) : /\ d.item[q].key = c.item[q].key
                         /\ d.item[q].value = c.item[q].value
                         /\ d.item[q].cas = c.item[q].cas
                         /\ d.item[q].expire = c.item[q].expire

(* One pointer is written: that of the bin or that of the item before.     *)
LEMMA LinkProperties ==
  ASSUME NEW c, Store(c), NEW b \in Bins, NEW p \in Nat,
         NEW previous \in Items(c) \cup {NULL},
         NEW d, d = Link(c, b, p, previous)
  PROVE  /\ Store(d) /\ SameItems(c, d)
         /\ \A a \in Bins :
              d.bin[a] = IF previous = NULL /\ a = b THEN p ELSE c.bin[a]
         /\ \A q \in Items(c) :
              d.item[q].next = IF q = previous THEN p ELSE c.item[q].next
<1>1. NULL \notin Items(c)
  BY StoreAddressed DEF Addressed, NULL
<1>2. PICK h, bin, item, cas : c = [heap |-> h, bin |-> bin, item |-> item, cas |-> cas]
  BY DEF Store
<1>3. /\ c.heap = h /\ c.bin = bin /\ c.item = item /\ c.cas = cas
  BY <1>2
<1>4. bin \in [Bins -> Nat] /\ item \in [Items(c) -> ItemRecord]
  BY <1>3 DEF Store
<1>5. CASE previous = NULL
  <2>1. d = [heap |-> h, bin |-> [bin EXCEPT ![b] = p], item |-> item, cas |-> cas]
    BY <1>2, <1>5 DEF Link
  <2>2. d.heap = h /\ d.bin = [bin EXCEPT ![b] = p] /\ d.item = item /\ d.cas = cas
    BY <2>1
  <2>3. Items(d) = Items(c)
    BY <1>3, <2>2 DEF Items
  <2>4. d.bin \in [Bins -> Nat]
    BY <1>4, <2>2
  <2>5. Store(d)
    <3>1. d = [heap |-> d.heap, bin |-> d.bin, item |-> d.item, cas |-> d.cas]
      BY <2>1, <2>2
    <3> QED
      BY <1>3, <2>2, <2>3, <2>4, <3>1 DEF Store
  <2> QED
    BY <1>1, <1>3, <1>4, <1>5, <2>2, <2>3, <2>5 DEF SameItems
<1>6. CASE previous # NULL
  <2>1. previous \in Items(c)
    BY <1>6
  <2>2. d = [heap |-> h, bin |-> bin, item |-> [item EXCEPT ![previous].next = p],
             cas |-> cas]
    BY <1>2, <1>6 DEF Link
  <2>3. /\ d.heap = h /\ d.bin = bin /\ d.cas = cas
        /\ d.item = [item EXCEPT ![previous].next = p]
    BY <2>2
  <2>4. Items(d) = Items(c)
    BY <1>3, <2>3 DEF Items
  <2>5. ASSUME NEW q \in Items(c)
        PROVE  /\ d.item[q] \in ItemRecord
               /\ d.item[q].key = c.item[q].key
               /\ d.item[q].value = c.item[q].value
               /\ d.item[q].cas = c.item[q].cas
               /\ d.item[q].expire = c.item[q].expire
               /\ d.item[q].next = IF q = previous THEN p ELSE c.item[q].next
    <3>1. item[q] \in ItemRecord
      BY <1>4
    <3>2. d.item[q] = IF q = previous THEN [item[q] EXCEPT !.next = p] ELSE item[q]
      BY <1>4, <2>3
    <3> QED
      BY <1>3, <3>1, <3>2 DEF ItemRecord
  <2>6. d.item \in [Items(d) -> ItemRecord]
    <3>1. DOMAIN d.item = Items(c) /\ d.item = [q \in Items(c) |-> d.item[q]]
      BY <1>4, <2>3
    <3> QED
      BY <2>4, <2>5, <3>1
  <2>7. Store(d)
    <3>1. d = [heap |-> d.heap, bin |-> d.bin, item |-> d.item, cas |-> d.cas]
      BY <2>2, <2>3
    <3>2. \A q \in Items(d) : /\ ~IsFree(d.heap, q)
                              /\ d.item[q].cas < d.cas
                              /\ Fitting(d.heap.size[q], d.item[q].value)
      BY <1>3, <2>3, <2>4, <2>5 DEF Store
    <3> QED
      BY <1>3, <1>4, <2>3, <2>4, <2>6, <3>1, <3>2 DEF Store
  <2> QED
    BY <1>3, <1>6, <2>3, <2>4, <2>5, <2>7 DEF SameItems
<1> QED
  BY <1>5, <1>6

\* The chain s up to k, without position k, continued with t; what follows k.
Splice(s, k, t) == [i \in 1..(k - 1 + Len(t)) |-> IF i < k THEN s[i] ELSE t[i - k + 1]]
After(s, k) == [i \in 1..(Len(s) - k) |-> s[k + i]]

Spliced(S, s, k, t, u) ==
  /\ u \in Seq(S)
  /\ Len(u) = k - 1 + Len(t)
  /\ \A i \in 1..(k - 1) : i \in 1..Len(s) /\ i \in 1..Len(u) /\ u[i] = s[i]
  /\ \A i \in 1..Len(t) : k - 1 + i \in 1..Len(u) /\ u[k - 1 + i] = t[i]
  /\ \A i \in 1..Len(u) : i >= k => i - k + 1 \in 1..Len(t) /\ u[i] = t[i - k + 1]

LEMMA SpliceProperties ==
  ASSUME NEW S, NEW s \in Seq(S), NEW t \in Seq(S), NEW k \in 1..(Len(s) + 1),
         NEW u, u = Splice(s, k, t)
  PROVE  Spliced(S, s, k, t, u)
<1>1. Len(s) \in Nat /\ Len(t) \in Nat /\ k - 1 + Len(t) \in Nat
  OBVIOUS
<1>2. PICK l \in Nat : l = k - 1 + Len(t)
  BY <1>1
<1>3. \A i \in 1..l : IF i < k THEN i \in 1..Len(s) ELSE i - k + 1 \in 1..Len(t)
  BY <1>1, <1>2
<1>4. u = [i \in 1..l |-> IF i < k THEN s[i] ELSE t[i - k + 1]]
  BY <1>2 DEF Splice
<1>5. \A i \in 1..l : u[i] \in S
  BY <1>3, <1>4
<1>6. u \in Seq(S) /\ Len(u) = l
  <2>1. u \in [1..l -> S]
    BY <1>4, <1>5
  <2> QED
    BY <2>1
<1>7. \A i \in 1..(k - 1) : i \in 1..Len(s) /\ i \in 1..l /\ u[i] = s[i]
  BY <1>1, <1>2, <1>4
<1>8. ASSUME NEW i \in 1..Len(t)
      PROVE  k - 1 + i \in 1..l /\ u[k - 1 + i] = t[i]
  <2>1. k - 1 + i \in 1..l /\ ~(k - 1 + i < k) /\ (k - 1 + i) - k + 1 = i
    BY <1>1, <1>2
  <2> QED
    BY <1>4, <2>1
<1>9. \A i \in 1..l : i >= k =>
        i - k + 1 \in 1..Len(t) /\ u[i] = t[i - k + 1]
  BY <1>1, <1>2, <1>3, <1>4
<1> QED
  BY <1>2, <1>6, <1>7, <1>8, <1>9 DEF Spliced

\* t is what the pointers lead to from p on, and has nothing twice.
Leads(c, p, t) ==
  /\ t \in Seq(Items(c))
  /\ p = IF Len(t) = 0 THEN NULL ELSE t[1]
  /\ \A i \in 1..Len(t) : c.item[t[i]].next = IF i = Len(t) THEN NULL ELSE t[i + 1]
  /\ \A i, j \in 1..Len(t) : t[i] = t[j] => i = j

(* Hash::link makes what p leads to the end of the chain, when nothing of  *)
(* it is elsewhere.                                                        *)
LEMMA LinkShape ==
  ASSUME NEW c, Store(c), NEW ch, Shape(c, ch), NEW b \in Bins,
         NEW k \in 1..(Len(ch[b]) + 1), NEW p, NEW t, Leads(c, p, t),
         \A i \in 1..Len(t) : \A a \in Bins : \A j \in 1..Len(ch[a]) :
           t[i] = ch[a][j] => a = b /\ j >= k,
         NEW d, d = Link(c, b, p, Before(ch[b], k))
  PROVE  /\ Store(d) /\ SameItems(c, d)
         /\ Shape(d, [ch EXCEPT ![b] = Splice(ch[b], k, t)])
         /\ \A q \in Items(c) :
              d.item[q].next = IF q = Before(ch[b], k) THEN p ELSE c.item[q].next
<1>1. PICK s \in Seq(Items(c)) : s = ch[b]
  BY DEF Shape
<1>2. PICK previous : previous = Before(s, k)
  OBVIOUS
<1>3. NULL \notin Items(c) /\ Items(c) \subseteq Nat
  BY StoreAddressed DEF Addressed, NULL
<1>4. Len(s) \in Nat /\ \A i \in 1..Len(s) : s[i] \in Items(c)
  OBVIOUS
<1>5. Len(t) \in Nat /\ \A i \in 1..Len(t) : t[i] \in Items(c)
  BY DEF Leads
<1>6. previous \in Items(c) \cup {NULL} /\ p \in Nat
  <2>1. previous \in Items(c) \cup {NULL}
    BY <1>1, <1>2, <1>4 DEF Before
  <2>2. p \in Nat
    BY <1>3, <1>5 DEF Leads, NULL
  <2> QED
    BY <2>1, <2>2
<1>7. /\ Store(d) /\ SameItems(c, d)
      /\ \A a \in Bins : d.bin[a] = IF previous = NULL /\ a = b THEN p ELSE c.bin[a]
      /\ \A q \in Items(c) : d.item[q].next = IF q = previous THEN p ELSE c.item[q].next
  BY <1>1, <1>2, <1>6, LinkProperties
<1>8. Items(d) = Items(c)
  BY <1>7 DEF SameItems
<1>9. PICK u : u = Splice(s, k, t)
  OBVIOUS
<1>10. /\ u \in Seq(Items(c))
       /\ Len(u) = k - 1 + Len(t)
       /\ \A i \in 1..(k - 1) : i \in 1..Len(s) /\ i \in 1..Len(u) /\ u[i] = s[i]
       /\ \A i \in 1..Len(t) : k - 1 + i \in 1..Len(u) /\ u[k - 1 + i] = t[i]
       /\ \A i \in 1..Len(u) : i >= k =>
              i - k + 1 \in 1..Len(t) /\ u[i] = t[i - k + 1]
  <2>1. PICK S : S = Items(c)
    OBVIOUS
  <2>2. s \in Seq(S) /\ t \in Seq(S) /\ k \in 1..(Len(s) + 1)
    BY <1>1, <2>1 DEF Leads
  <2>3. Spliced(S, s, k, t, u)
    BY <1>9, <2>2, SpliceProperties
  <2> QED
    BY <2>1, <2>3 DEF Spliced
<1>11. PICK e : e = [ch EXCEPT ![b] = u]
  OBVIOUS
<1>12. /\ e \in [Bins -> Seq(Items(d))]
       /\ e[b] = u /\ \A a \in Bins : a # b => e[a] = ch[a]
  BY <1>8, <1>10, <1>11 DEF Shape
<1>13. /\ \A a \in Bins : c.bin[a] = IF Len(ch[a]) = 0 THEN NULL ELSE ch[a][1]
       /\ \A a \in Bins : \A i \in 1..Len(ch[a]) :
            c.item[ch[a][i]].next = IF i = Len(ch[a]) THEN NULL ELSE ch[a][i + 1]
       /\ \A x, y \in Bins : \A i \in 1..Len(ch[x]), j \in 1..Len(ch[y]) :
            ch[x][i] = ch[y][j] => x = y /\ i = j
  BY DEF Shape
<1>14. previous = NULL <=> k = 1
  BY <1>1, <1>2, <1>3, <1>4 DEF Before
<1>15. \A a \in Bins : d.bin[a] = IF Len(e[a]) = 0 THEN NULL ELSE e[a][1]
  <2>1. ASSUME NEW a \in Bins, a # b PROVE d.bin[a] = IF Len(e[a]) = 0 THEN NULL ELSE e[a][1]
    BY <1>7, <1>12, <1>13, <2>1
  <2>2. CASE k = 1
    <3>1. d.bin[b] = p
      BY <1>7, <1>14, <2>2
    <3>2. Len(u) = Len(t) /\ (Len(t) # 0 => u[1] = t[1])
      BY <1>5, <1>10, <2>2
    <3> QED
      BY <1>12, <2>1, <3>1, <3>2 DEF Leads
  <2>3. CASE k # 1
    <3>1. d.bin[b] = c.bin[b] /\ c.bin[b] = s[1] /\ Len(s) # 0
      BY <1>1, <1>4, <1>7, <1>13, <1>14, <2>3
    <3>2. Len(u) # 0 /\ u[1] = s[1]
      BY <1>5, <1>10, <2>3
    <3> QED
      BY <1>12, <2>1, <3>1, <3>2
  <2> QED
    BY <2>2, <2>3
<1>16. ASSUME NEW a \in Bins, NEW i \in 1..Len(e[a])
       PROVE  d.item[e[a][i]].next = IF i = Len(e[a]) THEN NULL ELSE e[a][i + 1]
  <2>1. CASE a # b
    <3>1. ch[a] \in Seq(Items(c)) /\ i \in 1..Len(ch[a]) /\ e[a] = ch[a]
      BY <1>12, <2>1 DEF Shape
    <3>2. ch[a][i] \in Items(c) /\ ch[a][i] # previous
      <4>1. CASE k = 1
        BY <1>3, <1>14, <3>1, <4>1
      <4>2. CASE k # 1
        <5>1. k - 1 \in 1..Len(s) /\ previous = s[k - 1]
          BY <1>1, <1>2, <1>4, <4>2 DEF Before
        <5> QED
          BY <1>1, <1>13, <2>1, <3>1, <5>1
      <4> QED
        BY <4>1, <4>2
    <3> QED
      BY <1>7, <1>13, <3>1, <3>2
  <2>2. CASE a = b /\ i \in 1..(k - 1)
    <3>1. i \in 1..Len(s) /\ e[a][i] = s[i] /\ s[i] \in Items(c)
      BY <1>4, <1>10, <1>12, <2>2
    <3>2. c.item[s[i]].next = IF i = Len(s) THEN NULL ELSE s[i + 1]
      BY <1>1, <1>13, <3>1
    <3>3. CASE i = k - 1
      <4>1. previous = s[i]
        BY <1>2, <2>2, <3>3 DEF Before
      <4>2. d.item[s[i]].next = p
        BY <1>7, <3>1, <4>1
      <4>3. IF Len(t) = 0 THEN i = Len(u) /\ p = NULL
                          ELSE i # Len(u) /\ u[i + 1] = t[1] /\ p = t[1]
        <5>1. CASE Len(t) = 0
          BY <1>5, <1>10, <2>2, <3>3, <5>1 DEF Leads
        <5>2. CASE Len(t) # 0
          <6>1. 1 \in 1..Len(t) /\ k - 1 + 1 = i + 1 /\ Len(u) # i
            BY <1>5, <1>10, <2>2, <3>3, <5>2
          <6> QED
            BY <1>10, <5>2, <6>1 DEF Leads
        <5> QED
          BY <5>1, <5>2
      <4> QED
        BY <1>12, <2>2, <3>1, <4>2, <4>3
    <3>4. CASE i # k - 1
      <4>1. i + 1 \in 1..(k - 1) /\ i # Len(s) /\ i # Len(u)
        BY <1>1, <1>4, <1>5, <1>10, <2>2, <3>1, <3>4
      <4>2. u[i + 1] = s[i + 1]
        BY <1>10, <4>1
      <4>3. k - 1 \in 1..Len(s) /\ previous = s[k - 1]
        BY <1>1, <1>2, <1>4, <2>2 DEF Before
      <4>4. s[i] # previous
        BY <1>1, <1>13, <3>1, <3>4, <4>3
      <4>5. d.item[s[i]].next = s[i + 1]
        BY <1>7, <3>1, <3>2, <4>1, <4>4
      <4> QED
        BY <1>12, <2>2, <3>1, <4>1, <4>2, <4>5
    <3> QED
      BY <3>3, <3>4
  <2>3. CASE a = b /\ i \notin 1..(k - 1)
    <3>1. PICK j \in 1..Len(t) : j = i - k + 1 /\ u[i] = t[j]
      BY <1>10, <1>12, <2>3
    <3>2. t[j] \in Items(c) /\ t[j] # previous
      <4>1. CASE k = 1
        BY <1>3, <1>5, <1>14, <4>1
      <4>2. CASE k # 1
        <5>1. k - 1 \in 1..Len(s) /\ previous = s[k - 1] /\ ~(k - 1 >= k)
          BY <1>1, <1>2, <1>4, <4>2 DEF Before
        <5> QED
          BY <1>1, <1>5, <5>1
      <4> QED
        BY <4>1, <4>2
    <3>3. d.item[t[j]].next = IF j = Len(t) THEN NULL ELSE t[j + 1]
      BY <1>7, <3>2 DEF Leads
    <3>4. i = Len(u) <=> j = Len(t)
      BY <1>5, <1>10, <1>12, <2>3, <3>1
    <3>5. j # Len(t) => u[i + 1] = t[j + 1]
      <4> SUFFICES ASSUME j # Len(t) PROVE u[i + 1] = t[j + 1]
        OBVIOUS
      <4>1. j + 1 \in 1..Len(t) /\ k - 1 + (j + 1) = i + 1
        BY <1>5, <1>10, <1>12, <2>3, <3>1
      <4> QED
        BY <1>10, <4>1
    <3> QED
      BY <1>12, <2>3, <3>1, <3>3, <3>4, <3>5
  <2> QED
    BY <2>1, <2>2, <2>3
<1>17. ASSUME NEW x \in Bins, NEW y \in Bins,
              NEW i \in 1..Len(e[x]), NEW j \in 1..Len(e[y]), e[x][i] = e[y][j]
       PROVE  x = y /\ i = j
  <2>1. ASSUME NEW v \in 1..Len(u)
        PROVE  \/ v \in 1..(k - 1) /\ v \in 1..Len(s) /\ u[v] = s[v]
               \/ ~(v \in 1..(k - 1)) /\ v - k + 1 \in 1..Len(t) /\ u[v] = t[v - k + 1]
    BY <1>1, <1>4, <1>5, <1>10
  <2>2. ASSUME NEW a \in Bins, a # b, NEW v \in 1..Len(ch[a]), NEW w \in 1..Len(u)
        PROVE  ch[a][v] # u[w]
    <3>1. CASE w \in 1..(k - 1)
      <4>1. w \in 1..Len(s) /\ u[w] = s[w]
        BY <1>10, <3>1
      <4> QED
        BY <1>1, <1>13, <2>2, <4>1
    <3>2. CASE ~(w \in 1..(k - 1))
      <4>1. w - k + 1 \in 1..Len(t) /\ u[w] = t[w - k + 1]
        BY <2>1, <3>2
      <4> QED
        BY <2>2, <4>1
    <3> QED
      BY <3>1, <3>2
  <2>3. ASSUME NEW v \in 1..Len(u), NEW w \in 1..Len(u), u[v] = u[w]
        PROVE  v = w
    <3>1. CASE v \in 1..(k - 1) /\ w \in 1..(k - 1)
      BY <1>1, <1>13, <2>1, <2>3, <3>1
    <3>2. CASE ~(v \in 1..(k - 1)) /\ ~(w \in 1..(k - 1))
      <4>1. v - k + 1 = w - k + 1
        BY <2>1, <2>3, <3>2 DEF Leads
      <4> QED
        BY <1>5, <1>10, <4>1
    <3>3. CASE v \in 1..(k - 1) /\ ~(w \in 1..(k - 1))
      <4>1. v >= k
        BY <1>1, <2>1, <2>3, <3>3
      <4> QED
        BY <3>3, <4>1
    <3>4. CASE ~(v \in 1..(k - 1)) /\ w \in 1..(k - 1)
      <4>1. w >= k
        BY <1>1, <2>1, <2>3, <3>4
      <4> QED
        BY <3>4, <4>1
    <3> QED
      BY <3>1, <3>2, <3>3, <3>4
  <2>4. CASE x # b /\ y # b
    BY <1>12, <1>13, <1>17, <2>4
  <2>5. CASE x = b /\ y # b
    BY <1>12, <1>17, <2>2, <2>5
  <2>6. CASE x # b /\ y = b
    BY <1>12, <1>17, <2>2, <2>6
  <2>7. CASE x = b /\ y = b
    BY <1>12, <1>17, <2>3, <2>7
  <2> QED
    BY <2>4, <2>5, <2>6, <2>7
<1>18. Shape(d, e)
  BY <1>12, <1>15, <1>16, <1>17 DEF Shape
<1> QED
  BY <1>1, <1>2, <1>7, <1>9, <1>11, <1>18

\* The item at position i of chain a was in that chain before and has its key
\* still, or none that a client can name; or it has a key that belongs there
\* and that nothing else there has.
Stayed(Odd, c, ch, d, e, a, i) ==
  \E j \in 1..Len(ch[a]) :
    /\ e[a][i] = ch[a][j]
    /\ d.item[e[a][i]].key \in {c.item[ch[a][j]].key} \cup Odd

Belongs(Odd, d, e, a, i) ==
  d.item[e[a][i]].key \notin Odd =>
    /\ HashOf[d.item[e[a][i]].key] = a
    /\ \A j \in 1..Len(e[a]) : j # i => d.item[e[a][j]].key # d.item[e[a][i]].key

(* Then the keys are where they belong.                                    *)
LEMMA KeyedKept ==
  ASSUME NEW Odd, NEW c, NEW ch, Keyed(Odd, c, ch), NEW d, NEW e, Shape(d, e),
         \A a \in Bins : \A i \in 1..Len(e[a]) :
           Stayed(Odd, c, ch, d, e, a, i) \/ Belongs(Odd, d, e, a, i)
  PROVE  Keyed(Odd, d, e)
<1>1. ASSUME NEW a \in Bins, NEW i \in 1..Len(e[a]), d.item[e[a][i]].key \notin Odd
      PROVE  HashOf[d.item[e[a][i]].key] = a
  <2>1. CASE Stayed(Odd, c, ch, d, e, a, i)
    <3>1. PICK j \in 1..Len(ch[a]) : d.item[e[a][i]].key = c.item[ch[a][j]].key
      BY <1>1, <2>1 DEF Stayed
    <3> QED
      BY <1>1, <3>1 DEF Keyed
  <2>2. CASE Belongs(Odd, d, e, a, i)
    BY <1>1, <2>2 DEF Belongs
  <2> QED
    BY <2>1, <2>2
<1>2. ASSUME NEW a \in Bins, NEW i \in 1..Len(e[a]), NEW j \in 1..Len(e[a]),
             d.item[e[a][i]].key \notin Odd,
             d.item[e[a][i]].key = d.item[e[a][j]].key
      PROVE  i = j
  <2>1. CASE Stayed(Odd, c, ch, d, e, a, i) /\ Stayed(Odd, c, ch, d, e, a, j)
    <3>1. PICK v \in 1..Len(ch[a]) :
            e[a][i] = ch[a][v] /\ d.item[e[a][i]].key = c.item[ch[a][v]].key
      BY <1>2, <2>1 DEF Stayed
    <3>2. PICK w \in 1..Len(ch[a]) :
            e[a][j] = ch[a][w] /\ d.item[e[a][j]].key = c.item[ch[a][w]].key
      BY <1>2, <2>1 DEF Stayed
    <3>3. v = w
      <4>1. /\ c.item[ch[a][v]].key \notin Odd
            /\ c.item[ch[a][v]].key = c.item[ch[a][w]].key
        BY <1>2, <3>1, <3>2
      <4> QED
        BY <4>1 DEF Keyed
    <3>4. e[a][i] = e[a][j]
      BY <3>1, <3>2, <3>3
    <3> QED
      BY <3>4 DEF Shape
  <2>2. CASE Belongs(Odd, d, e, a, i)
    BY <1>2, <2>2 DEF Belongs
  <2>3. CASE Belongs(Odd, d, e, a, j)
    BY <1>2, <2>3 DEF Belongs
  <2> QED
    BY <2>1, <2>2, <2>3
<1> QED
  BY <1>1, <1>2 DEF Keyed

\* No chain leads to p.
Apart(ch, p) == \A a \in Bins : \A i \in 1..Len(ch[a]) : ch[a][i] # p

\* Item p is the same in c and in d, apart from the pointer.
Stays(c, d, p) ==
  /\ d.item[p].key = c.item[p].key
  /\ d.item[p].value = c.item[p].value
  /\ d.item[p].cas = c.item[p].cas
  /\ d.item[p].expire = c.item[p].expire

\* What the chains e of d lead to, but for y, is what those of c led to, but for x.
OnlyOld(c, ch, d, e, x, y) ==
  \A p : ~Apart(e, p) /\ p # y => ~Apart(ch, p) /\ p # x /\ Stays(c, d, p)

\* They lead to all of it, but for x.
AllOld(ch, e, x, y) == \A p : ~Apart(ch, p) /\ p # x => ~Apart(e, p) /\ p # y

\* Items that a chain leads to are in memory.
LEMMA LinkedItems ==
  ASSUME NEW c, NEW ch, Shape(c, ch), NEW p, ~Apart(ch, p)
  PROVE  p \in Items(c)
BY DEF Apart, Shape

\* The chains without the item at position k of bin b.
Without(ch, b, k) == [ch EXCEPT ![b] = Splice(ch[b], k, After(ch[b], k))]

\* t is what follows position k of the chain s.
Follows(c, s, k, t) ==
  /\ Leads(c, c.item[s[k]].next, t)
  /\ Len(t) = Len(s) - k
  /\ \A i \in 1..(Len(s) - k) : k + i \in 1..Len(s) /\ t[i] = s[k + i]

(* What follows the item at position k is what its pointer leads to.       *)
LEMMA AfterLeads ==
  ASSUME NEW c, NEW ch, Shape(c, ch), NEW b \in Bins, NEW k \in 1..Len(ch[b])
  PROVE  Follows(c, ch[b], k, After(ch[b], k))
<1>1. PICK s \in Seq(Items(c)) : s = ch[b]
  BY DEF Shape
<1>2. PICK l \in Nat : l = Len(s) - k
  BY <1>1
<1>3. PICK t : t = After(s, k)
  OBVIOUS
<1>4. t = [i \in 1..l |-> s[k + i]]
  BY <1>2, <1>3 DEF After
<1>5. Len(s) \in Nat /\ k \in 1..Len(s) /\ \A i \in 1..Len(s) : s[i] \in Items(c)
  BY <1>1
<1>6. \A i \in 1..l : k + i \in 1..Len(s) /\ t[i] = s[k + i]
  BY <1>2, <1>4, <1>5
<1>7. t \in Seq(Items(c)) /\ Len(t) = l
  <2>1. t \in [1..l -> Items(c)]
    BY <1>4, <1>5, <1>6
  <2> QED
    BY <1>4, <2>1
<1>8. /\ \A i \in 1..Len(s) :
           c.item[s[i]].next = IF i = Len(s) THEN NULL ELSE s[i + 1]
      /\ \A i, j \in 1..Len(s) : s[i] = s[j] => i = j
  BY <1>1 DEF Shape
<1>9. c.item[s[k]].next = IF l = 0 THEN NULL ELSE t[1]
  <2>1. l # 0 => 1 \in 1..l
    BY <1>2
  <2> QED
    BY <1>2, <1>5, <1>6, <1>8, <2>1
<1>10. ASSUME NEW i \in 1..l
       PROVE  c.item[t[i]].next = IF i = l THEN NULL ELSE t[i + 1]
  <2>1. k + i \in 1..Len(s) /\ t[i] = s[k + i]
    BY <1>6
  <2>2. CASE i = l
    <3>1. k + i = Len(s)
      BY <1>2, <1>5, <2>2
    <3> QED
      BY <1>8, <2>1, <2>2, <3>1
  <2>3. CASE i # l
    <3>1. i + 1 \in 1..l /\ k + i # Len(s) /\ k + (i + 1) = k + i + 1
      BY <1>2, <1>5, <2>3
    <3>2. t[i + 1] = s[k + i + 1]
      BY <1>6, <3>1
    <3> QED
      BY <1>8, <2>1, <2>3, <3>1, <3>2
  <2> QED
    BY <2>2, <2>3
<1>11. ASSUME NEW i \in 1..l, NEW j \in 1..l, t[i] = t[j] PROVE i = j
  <2>1. k + i = k + j
    <3>1. k + i \in 1..Len(s) /\ k + j \in 1..Len(s) /\ s[k + i] = s[k + j]
      BY <1>6, <1>11
    <3> QED
      BY <1>8, <3>1
  <2> QED
    BY <1>5, <2>1
<1>12. Leads(c, c.item[s[k]].next, t)
  BY <1>7, <1>9, <1>10, <1>11 DEF Leads
<1> QED
  BY <1>1, <1>2, <1>3, <1>6, <1>7, <1>12 DEF Follows

(* Hash::unlink takes out the item at position k, and nothing else.        *)
LEMMA UnlinkSound ==
  ASSUME NEW Odd, NEW c, NEW ch, Sound(Odd, c, ch), NEW b \in Bins, NEW k \in 1..Len(ch[b]),
         NEW p, p = ch[b][k], NEW d, d = Unlink(c, b, p, Before(ch[b], k))
  PROVE  /\ Sound(Odd, d, Without(ch, b, k))
         /\ SameItems(c, d)
         /\ Apart(Without(ch, b, k), p)
         /\ \A q \in Items(c) :
              q # Before(ch[b], k) => d.item[q].next = c.item[q].next
         /\ \A q : q # p => (Apart(Without(ch, b, k), q) <=> Apart(ch, q))
         /\ k = Len(ch[b]) => Len(Without(ch, b, k)[b]) = k - 1
<1>1. PICK s \in Seq(Items(c)) : s = ch[b]
  BY DEF Sound, Shape
<1>2. Len(s) \in Nat /\ k \in 1..Len(s)
  BY <1>1
<1>3. PICK t : t = After(s, k)
  OBVIOUS
<1>4. /\ Leads(c, c.item[p].next, t)
      /\ Len(t) = Len(s) - k
      /\ \A i \in 1..(Len(s) - k) : k + i \in 1..Len(s) /\ t[i] = s[k + i]
  <2>1. Follows(c, ch[b], k, After(ch[b], k))
    BY AfterLeads DEF Sound
  <2> QED
    BY <1>1, <1>3, <2>1 DEF Follows
<1>5. \A x, y \in Bins : \A i \in 1..Len(ch[x]), j \in 1..Len(ch[y]) :
        ch[x][i] = ch[y][j] => x = y /\ i = j
  BY DEF Sound, Shape
<1>6. \A i \in 1..Len(t) : \A a \in Bins : \A j \in 1..Len(ch[a]) :
        t[i] = ch[a][j] => a = b /\ j >= k
  <2> SUFFICES ASSUME NEW i \in 1..Len(t), NEW a \in Bins, NEW j \in 1..Len(ch[a]),
                      t[i] = ch[a][j]
               PROVE  a = b /\ j >= k
    OBVIOUS
  <2>1. k + i \in 1..Len(ch[b]) /\ ch[b][k + i] = ch[a][j]
    BY <1>1, <1>4
  <2>2. a = b /\ j = k + i
    BY <1>5, <2>1
  <2> QED
    BY <1>2, <1>4, <2>2
<1>7. k \in 1..(Len(ch[b]) + 1)
  BY <1>1, <1>2
<1>8. d = Link(c, b, c.item[p].next, Before(ch[b], k))
  BY DEF Unlink
<1>9. PICK e : e = Without(ch, b, k)
  OBVIOUS
<1>10. e = [ch EXCEPT ![b] = Splice(ch[b], k, t)]
  BY <1>1, <1>3, <1>9 DEF Without
<1>11. /\ Store(d) /\ SameItems(c, d) /\ Shape(d, e)
       /\ \A q \in Items(c) :
            d.item[q].next = IF q = Before(ch[b], k) THEN c.item[p].next
                             ELSE c.item[q].next
  <2>1. PICK x : x = c.item[p].next
    OBVIOUS
  <2>2. Leads(c, x, t) /\ d = Link(c, b, x, Before(ch[b], k))
    BY <1>4, <1>8, <2>1
  <2>3. /\ Store(d) /\ SameItems(c, d)
        /\ Shape(d, [ch EXCEPT ![b] = Splice(ch[b], k, t)])
        /\ \A q \in Items(c) :
             d.item[q].next = IF q = Before(ch[b], k) THEN x ELSE c.item[q].next
    BY <1>6, <1>7, <2>2, LinkShape DEF Sound
  <2> QED
    BY <1>10, <2>1, <2>3
<1>12. PICK u : u = Splice(s, k, t)
  OBVIOUS
<1>13. /\ Len(u) = k - 1 + Len(t)
       /\ \A i \in 1..(k - 1) : i \in 1..Len(s) /\ i \in 1..Len(u) /\ u[i] = s[i]
       /\ \A i \in 1..Len(u) : i >= k =>
            i - k + 1 \in 1..Len(t) /\ u[i] = t[i - k + 1]
       /\ \A i \in 1..Len(t) : k - 1 + i \in 1..Len(u) /\ u[k - 1 + i] = t[i]
  <2>1. PICK S : S = Items(c)
    OBVIOUS
  <2>2. s \in Seq(S) /\ t \in Seq(S) /\ k \in 1..(Len(s) + 1)
    BY <1>2, <1>4, <2>1 DEF Leads
  <2>3. Spliced(S, s, k, t, u)
    BY <1>12, <2>2, SpliceProperties
  <2> QED
    BY <2>3 DEF Spliced
<1>14. e[b] = u /\ \A a \in Bins : a # b => e[a] = ch[a]
  BY <1>1, <1>10, <1>12 DEF Sound, Shape
<1>15. ASSUME NEW a \in Bins, NEW i \in 1..Len(e[a])
       PROVE  \E j \in 1..Len(ch[a]) : e[a][i] = ch[a][j] /\ ch[a][j] # p
  <2>1. CASE a # b
    <3>1. i \in 1..Len(ch[a]) /\ e[a][i] = ch[a][i]
      BY <1>14, <2>1
    <3>2. ch[a][i] # ch[b][k]
      BY <1>5, <2>1, <3>1
    <3> QED
      BY <3>1, <3>2
  <2>2. CASE a = b /\ i < k
    <3>1. i \in 1..(k - 1)
      BY <1>2, <1>13, <1>14, <2>2
    <3>2. i \in 1..Len(ch[a]) /\ e[a][i] = ch[a][i] /\ i # k
      BY <1>1, <1>2, <1>13, <1>14, <2>2, <3>1
    <3> QED
      BY <1>5, <2>2, <3>2
  <2>3. CASE a = b /\ ~(i < k)
    <3>1. i \in 1..Len(u) /\ i >= k
      BY <1>2, <1>14, <2>3
    <3>2. i - k + 1 \in 1..Len(t) /\ u[i] = t[i - k + 1]
      BY <1>13, <3>1
    <3>3. PICK j \in 1..Len(t) : j = i - k + 1 /\ u[i] = t[j]
      BY <3>2
    <3>4. k + j \in 1..Len(ch[a]) /\ e[a][i] = ch[a][k + j] /\ k + j # k
      BY <1>1, <1>2, <1>4, <1>14, <2>3, <3>3
    <3>5. PICK n \in 1..Len(ch[a]) : e[a][i] = ch[a][n] /\ n # k
      BY <3>4
    <3> QED
      BY <1>5, <2>3, <3>5
  <2> QED
    BY <2>1, <2>2, <2>3
<1>16. Keyed(Odd, d, e)
  <2>1. \A a \in Bins : \A i \in 1..Len(ch[a]) : ch[a][i] \in Items(c)
    BY DEF Sound, Shape
  <2>2. ASSUME NEW a \in Bins, NEW i \in 1..Len(e[a])
        PROVE  Stayed(Odd, c, ch, d, e, a, i)
    <3>1. PICK j \in 1..Len(ch[a]) : e[a][i] = ch[a][j]
      BY <1>15
    <3>2. d.item[ch[a][j]].key = c.item[ch[a][j]].key
      BY <1>11, <2>1 DEF SameItems
    <3> QED
      BY <3>1, <3>2 DEF Stayed
  <2>3. Keyed(Odd, c, ch) /\ Shape(d, e)
    BY <1>11 DEF Sound
  <2> QED
    BY <2>2, <2>3, KeyedKept
<1>17. ASSUME NEW a \in Bins, NEW j \in 1..Len(ch[a]), ch[a][j] # p
       PROVE  \E i \in 1..Len(e[a]) : e[a][i] = ch[a][j]
  <2>1. CASE a # b
    BY <1>14, <2>1
  <2>2. CASE a = b /\ j < k
    <3>1. j \in 1..(k - 1)
      BY <1>1, <1>2, <2>2
    <3> QED
      BY <1>1, <1>13, <1>14, <2>2, <3>1
  <2>3. CASE a = b /\ ~(j < k)
    <3>1. PICK i \in 1..Len(t) : j = k + i
      <4>1. j # k /\ j \in 1..Len(s)
        BY <1>1, <1>17, <2>3
      <4>2. j - k \in 1..Len(t) /\ j = k + (j - k)
        BY <1>2, <1>4, <2>3, <4>1
      <4> QED
        BY <4>2
    <3>2. t[i] = s[j] /\ k - 1 + i \in 1..Len(u) /\ u[k - 1 + i] = t[i]
      BY <1>4, <1>13, <3>1
    <3> QED
      BY <1>1, <1>14, <2>3, <3>2
  <2> QED
    BY <2>1, <2>2, <2>3
<1>18. ASSUME NEW q, q # p
       PROVE  Apart(e, q) <=> Apart(ch, q)
  <2>1. ASSUME Apart(e, q), NEW a \in Bins, NEW j \in 1..Len(ch[a]), ch[a][j] = q
        PROVE  FALSE
    <3>1. PICK i \in 1..Len(e[a]) : e[a][i] = q
      BY <1>17, <1>18, <2>1
    <3> QED
      BY <2>1, <3>1 DEF Apart
  <2>2. ASSUME Apart(ch, q), NEW a \in Bins, NEW i \in 1..Len(e[a]), e[a][i] = q
        PROVE  FALSE
    <3>1. PICK j \in 1..Len(ch[a]) : ch[a][j] = q
      BY <1>15, <2>2
    <3> QED
      BY <2>2, <3>1 DEF Apart
  <2> QED
    BY <2>1, <2>2 DEF Apart
<1>19. k = Len(ch[b]) => Len(e[b]) = k - 1
  BY <1>1, <1>2, <1>4, <1>13, <1>14
<1>20. Sound(Odd, d, e) /\ SameItems(c, d) /\ Apart(e, p)
  BY <1>11, <1>15, <1>16 DEF Sound, Apart
<1>21. \A q \in Items(c) : q # Before(ch[b], k) => d.item[q].next = c.item[q].next
  BY <1>11
<1> QED
  BY <1>9, <1>18, <1>19, <1>20, <1>21

-----------------------------------------------------------------------------
(* Freeing and writing items                                               *)

(* An item that no chain leads to may be freed.                            *)
LEMMA FreeSound ==
  ASSUME NEW Odd, NEW c, NEW ch, Sound(Odd, c, ch), NEW p \in Items(c), Apart(ch, p),
         NEW d, d = FreeItem(c, p)
  PROVE  /\ Sound(Odd, d, ch) /\ d.cas = c.cas
         /\ \A q \in Items(d) : q \in Items(c) /\ d.item[q] = c.item[q]
<1>1. PICK h, bin, item, cas : c = [heap |-> h, bin |-> bin, item |-> item, cas |-> cas]
  BY DEF Sound, Store
<1>2. c.heap = h /\ c.bin = bin /\ c.item = item /\ c.cas = cas
  BY <1>1
<1>3. PICK g : g = HeapFree(h, p)
  OBVIOUS
<1>4. PICK new : new = [q \in Items(c) \ {p} |-> c.item[q]]
  OBVIOUS
<1>5. d = [heap |-> g, bin |-> bin, item |-> new, cas |-> cas]
  BY <1>1, <1>2, <1>3, <1>4 DEF FreeItem
<1>6. d.heap = g /\ d.bin = bin /\ d.item = new /\ d.cas = cas
  BY <1>5
<1>7. /\ Items(d) = Items(c) \ {p}
      /\ \A q \in Items(d) : q \in Items(c) /\ q # p /\ d.item[q] = c.item[q]
  BY <1>4, <1>6 DEF Items
<1>8. HeapOK(g) /\ g.size = h.size /\ \A q : IsFree(g, q) => IsFree(h, q) \/ q = p
  <2>1. HeapOK(h) /\ p \in DOMAIN h.size /\ ~IsFree(h, p)
    BY <1>2 DEF Sound, Store
  <2> QED
    BY <1>3, <2>1, FreeProperties
<1>9. d.item \in [Items(d) -> ItemRecord]
  <2>1. \A q \in Items(d) : d.item[q] \in ItemRecord
    BY <1>7 DEF Sound, Store
  <2>2. d.item = [q \in Items(d) |-> d.item[q]]
    BY <1>4, <1>6, <1>7
  <2> QED
    BY <2>1, <2>2
<1>10. Store(d)
  <2>1. d = [heap |-> d.heap, bin |-> d.bin, item |-> d.item, cas |-> d.cas]
    BY <1>5, <1>6
  <2>2. IsFiniteSet(Items(d)) /\ Items(d) \subseteq DOMAIN d.heap.size
    <3>1. IsFiniteSet(Items(c)) /\ Items(c) \subseteq DOMAIN h.size
      BY <1>2 DEF Sound, Store
    <3>2. IsFiniteSet(Items(c) \ {p})
      BY <3>1, FS_RemoveElement
    <3> QED
      BY <1>6, <1>7, <1>8, <3>1, <3>2
  <2>3. \A q \in Items(d) : /\ ~IsFree(d.heap, q)
                            /\ d.item[q].cas < d.cas
                            /\ Fitting(d.heap.size[q], d.item[q].value)
    BY <1>2, <1>6, <1>7, <1>8 DEF Sound, Store
  <2>4. d.bin \in [Bins -> Nat] /\ d.cas \in Nat \ {0}
    BY <1>2, <1>6 DEF Sound, Store
  <2> QED
    BY <1>6, <1>8, <1>9, <2>1, <2>2, <2>3, <2>4 DEF Store
<1>11. \A a \in Bins : \A i \in 1..Len(ch[a]) :
         ch[a][i] \in Items(d) /\ d.item[ch[a][i]] = c.item[ch[a][i]]
  <2>1. \A a \in Bins : \A i \in 1..Len(ch[a]) : ch[a][i] \in Items(c) /\ ch[a][i] # p
    BY DEF Sound, Shape, Apart
  <2> QED
    BY <1>7, <2>1
<1>12. Shape(d, ch)
  <2>1. ch \in [Bins -> Seq(Items(d))]
    <3>1. ASSUME NEW a \in Bins PROVE ch[a] \in Seq(Items(d))
      <4>1. ch[a] \in Seq(Items(c))
        BY DEF Sound, Shape
      <4>2. \A i \in 1..Len(ch[a]) : ch[a][i] \in Items(d)
        BY <1>11
      <4> QED
        BY <4>1, <4>2
    <3> QED
      BY <3>1 DEF Sound, Shape
  <2> QED
    BY <1>2, <1>6, <1>11, <2>1 DEF Sound, Shape
<1>13. Keyed(Odd, d, ch)
  <2>1. \A a \in Bins : \A i \in 1..Len(ch[a]) : Stayed(Odd, c, ch, d, ch, a, i)
    BY <1>11 DEF Stayed
  <2> QED
    BY <1>12, <2>1, KeyedKept DEF Sound
<1> QED
  BY <1>2, <1>6, <1>7, <1>10, <1>12, <1>13 DEF Sound

\* d is c but for the record of item q.
Rewritten(c, d, q, rec) ==
  \A p \in Items(c) : d.item[p] = IF p = q THEN rec ELSE c.item[p]

\* c with another record for the item q and another next stamp
Written(c, q, rec, stamp) ==
  [heap |-> c.heap, bin |-> c.bin, item |-> [c.item EXCEPT ![q] = rec], cas |-> stamp]

\* Item q of c may become rec when the next stamp is the one given.
Writable(Odd, c, q, rec, stamp) ==
  /\ c.cas <= stamp /\ rec.cas < stamp /\ rec.next = c.item[q].next
  /\ rec.key \in {c.item[q].key} \cup Odd
  /\ Fitting(c.heap.size[q], rec.value)

(* The fields of an item may be written, but for the pointer, as long as   *)
(* its value has room and its key stays or is lost.                        *)
LEMMA WriteSound ==
  ASSUME NEW Odd, NEW c, NEW ch, Sound(Odd, c, ch), NEW q \in Items(c),
         NEW d, NEW rec \in ItemRecord, NEW stamp \in Nat,
         d = Written(c, q, rec, stamp), Writable(Odd, c, q, rec, stamp)
  PROVE  /\ Sound(Odd, d, ch) /\ d.cas = stamp /\ Items(d) = Items(c)
         /\ Rewritten(c, d, q, rec)
<1>0. /\ c.cas <= stamp /\ rec.cas < stamp /\ rec.next = c.item[q].next
      /\ rec.key \in {c.item[q].key} \cup Odd
      /\ Fitting(c.heap.size[q], rec.value)
  BY DEF Writable
<1>1. PICK h, bin, item, cas : c = [heap |-> h, bin |-> bin, item |-> item, cas |-> cas]
  BY DEF Sound, Store
<1>2. c.heap = h /\ c.bin = bin /\ c.item = item /\ c.cas = cas
  BY <1>1
<1>3. item \in [Items(c) -> ItemRecord]
  BY <1>2 DEF Sound, Store
<1>4. PICK new : new = [item EXCEPT ![q] = rec]
  OBVIOUS
<1>5. d = [heap |-> h, bin |-> bin, item |-> new, cas |-> stamp]
  BY <1>2, <1>4 DEF Written
<1>6. d.heap = h /\ d.bin = bin /\ d.item = new /\ d.cas = stamp
  <2>1. PICK r : r = [heap |-> h, bin |-> bin, item |-> new, cas |-> stamp]
    OBVIOUS
  <2>2. r.heap = h /\ r.bin = bin /\ r.item = new /\ r.cas = stamp
    BY <2>1
  <2> QED
    BY <1>5, <2>1, <2>2, Zenon
<1>7. Items(d) = Items(c)
  BY <1>2, <1>3, <1>4, <1>6 DEF Items
<1>8. \A p \in Items(c) : d.item[p] = IF p = q THEN rec ELSE c.item[p]
  BY <1>2, <1>3, <1>4, <1>6
<1>9. Store(d)
  <2>1. d = [heap |-> d.heap, bin |-> d.bin, item |-> d.item, cas |-> d.cas]
    BY <1>5, <1>6
  <2>2. d.item \in [Items(d) -> ItemRecord]
    BY <1>3, <1>4, <1>6, <1>7
  <2>3. ASSUME NEW p \in Items(d)
        PROVE  /\ ~IsFree(d.heap, p)
               /\ d.item[p].cas < d.cas
               /\ Fitting(d.heap.size[p], d.item[p].value)
    <3>1. CASE p = q
      BY <1>0, <1>2, <1>6, <1>7, <1>8, <3>1 DEF Sound, Store
    <3>2. CASE p # q
      <4>1. /\ ~IsFree(c.heap, p) /\ c.item[p].cas < c.cas
            /\ Fitting(c.heap.size[p], c.item[p].value)
            /\ c.item[p].cas \in Nat /\ c.cas \in Nat
        BY <1>7 DEF Sound, Store, ItemRecord
      <4>2. c.item[p].cas < stamp
        BY <1>0, <4>1
      <4> QED
        BY <1>2, <1>6, <1>7, <1>8, <3>2, <4>1, <4>2
    <3> QED
      BY <3>1, <3>2
  <2>4. stamp \in Nat \ {0}
    BY <1>0 DEF Sound, Store
  <2> QED
    BY <1>2, <1>6, <1>7, <2>1, <2>2, <2>3, <2>4 DEF Sound, Store
<1>10. \A a \in Bins : \A i \in 1..Len(ch[a]) : ch[a][i] \in Items(c)
  BY DEF Sound, Shape
<1>11. \A p \in Items(c) : /\ d.item[p].next = c.item[p].next
                           /\ d.item[p].key \in {c.item[p].key} \cup Odd
  BY <1>0, <1>8
<1>12. Shape(d, ch)
  <2>1. ch \in [Bins -> Seq(Items(d))]
    BY <1>7 DEF Sound, Shape
  <2>2. \A a \in Bins : d.bin[a] = IF Len(ch[a]) = 0 THEN NULL ELSE ch[a][1]
    BY <1>2, <1>6 DEF Sound, Shape
  <2>3. \A a \in Bins : \A i \in 1..Len(ch[a]) :
          d.item[ch[a][i]].next = IF i = Len(ch[a]) THEN NULL ELSE ch[a][i + 1]
    BY <1>10, <1>11 DEF Sound, Shape
  <2> QED
    BY <2>1, <2>2, <2>3 DEF Sound, Shape
<1>13. Keyed(Odd, d, ch)
  <2>1. \A a \in Bins : \A i \in 1..Len(ch[a]) : Stayed(Odd, c, ch, d, ch, a, i)
    BY <1>10, <1>11 DEF Stayed
  <2> QED
    BY <1>12, <2>1, KeyedKept DEF Sound
<1>14. Rewritten(c, d, q, rec)
  BY <1>8 DEF Rewritten
<1> QED
  BY <1>6, <1>7, <1>9, <1>12, <1>13, <1>14 DEF Sound

\* d is c with an item at p, a block that the heap g has and that of c had not.
Holds(Odd, c, ch, g, p, rec, d) ==
  /\ Sound(Odd, d, ch)
  /\ Items(d) = Items(c) \cup {p} /\ p \notin Items(c)
  /\ Apart(ch, p)
  /\ d.item[p] = rec /\ \A q \in Items(c) : d.item[q] = c.item[q]
  /\ d.heap = g /\ d.cas = c.cas + 1

(* An item written to a block just allocated is in no chain yet.           *)
LEMMA PutSound ==
  ASSUME NEW Odd, NEW c, NEW ch, Sound(Odd, c, ch), NEW g, NEW p, NEW n \in Nat,
         Allocated(c.heap, g, p, n),
         NEW rec \in ItemRecord, rec.cas = c.cas, Fitting(n, rec.value),
         NEW d, d = [PutItem(c, g, p, rec) EXCEPT !.cas = c.cas + 1]
  PROVE  Holds(Odd, c, ch, g, p, rec, d)
<1>1. PICK h, bin, item, cas : c = [heap |-> h, bin |-> bin, item |-> item, cas |-> cas]
  BY DEF Sound, Store
<1>2. c.heap = h /\ c.bin = bin /\ c.item = item /\ c.cas = cas
  BY <1>1
<1>3. PICK new : new = [q \in Items(c) \cup {p} |-> IF q = p THEN rec ELSE c.item[q]]
  OBVIOUS
<1>4. d = [heap |-> g, bin |-> bin, item |-> new, cas |-> cas + 1]
  BY <1>1, <1>2, <1>3 DEF PutItem
<1>5. d.heap = g /\ d.bin = bin /\ d.item = new /\ d.cas = cas + 1
  <2>1. PICK r : r = [heap |-> g, bin |-> bin, item |-> new, cas |-> cas + 1]
    OBVIOUS
  <2>2. r.heap = g /\ r.bin = bin /\ r.item = new /\ r.cas = cas + 1
    BY <2>1
  <2> QED
    BY <1>4, <2>1, <2>2, Zenon
<1>6. /\ c.item \in [Items(c) -> ItemRecord] /\ c.cas \in Nat \ {0}
      /\ IsFiniteSet(Items(c)) /\ Items(c) \subseteq DOMAIN c.heap.size
      /\ \A q \in Items(c) : /\ ~IsFree(c.heap, q)
                             /\ c.item[q].cas < c.cas
                             /\ Fitting(c.heap.size[q], c.item[q].value)
  BY DEF Sound, Store
<1>7. /\ HeapOK(g) /\ DOMAIN g.size = DOMAIN c.heap.size \cup {p}
      /\ g.size[p] \in Nat /\ n <= g.size[p]
      /\ \A q \in DOMAIN c.heap.size : g.size[q] = c.heap.size[q]
      /\ \A q : IsFree(g, q) => IsFree(c.heap, q) /\ q # p
      /\ p \in DOMAIN c.heap.size => IsFree(c.heap, p)
  BY DEF Allocated
<1>8. p \notin Items(c)
  BY <1>6, <1>7
<1>9. /\ Items(d) = Items(c) \cup {p}
      /\ d.item[p] = rec
      /\ \A q \in Items(c) : d.item[q] = c.item[q]
  BY <1>3, <1>5, <1>8 DEF Items
<1>10. d.item \in [Items(d) -> ItemRecord]
  <2>1. \A q \in Items(d) : d.item[q] \in ItemRecord
    BY <1>6, <1>9
  <2>2. d.item = [q \in Items(d) |-> d.item[q]]
    BY <1>3, <1>5, <1>9
  <2> QED
    BY <2>1, <2>2
<1>11. Store(d)
  <2>1. d = [heap |-> d.heap, bin |-> d.bin, item |-> d.item, cas |-> d.cas]
    BY <1>4, <1>5
  <2>2. IsFiniteSet(Items(d)) /\ Items(d) \subseteq DOMAIN d.heap.size
    <3>1. IsFiniteSet(Items(c) \cup {p})
      BY <1>6, FS_AddElement
    <3> QED
      BY <1>5, <1>6, <1>7, <1>9, <3>1
  <2>3. ASSUME NEW q \in Items(d)
        PROVE  /\ ~IsFree(d.heap, q)
               /\ d.item[q].cas < d.cas
               /\ Fitting(d.heap.size[q], d.item[q].value)
    <3>1. CASE q = p
      <4>1. ~IsFree(g, q) /\ rec.cas < cas + 1
        BY <1>2, <1>6, <1>7, <3>1
      <4>2. Fitting(g.size[p], rec.value)
        <5>1. Len(rec.value) \in Nat /\ Align(KeyLength) \in Nat /\ HeaderSize \in Nat
          BY CacheAssumption, AlignGrows DEF ItemRecord
        <5> QED
          BY <1>7, <5>1 DEF Fitting
      <4> QED
        BY <1>5, <1>9, <3>1, <4>1, <4>2
    <3>2. CASE q # p
      <4>1. q \in Items(c) /\ d.item[q] = c.item[q] /\ q \in DOMAIN c.heap.size
        BY <1>6, <1>9, <3>2
      <4>2. c.item[q].cas < c.cas /\ c.item[q].cas \in Nat
        BY <1>6, <4>1 DEF ItemRecord
      <4>3. c.item[q].cas < cas + 1
        BY <1>2, <1>6, <4>2
      <4>4. ~IsFree(g, q) /\ Fitting(g.size[q], c.item[q].value)
        BY <1>6, <1>7, <4>1
      <4> QED
        BY <1>5, <4>1, <4>3, <4>4
    <3> QED
      BY <3>1, <3>2
  <2>4. d.bin \in [Bins -> Nat] /\ d.cas \in Nat \ {0}
    BY <1>2, <1>5, <1>6 DEF Sound, Store
  <2> QED
    BY <1>5, <1>7, <1>10, <2>1, <2>2, <2>3, <2>4 DEF Store
<1>12. \A a \in Bins : \A i \in 1..Len(ch[a]) : ch[a][i] \in Items(c) /\ ch[a][i] # p
  BY <1>8 DEF Sound, Shape
<1>13. Shape(d, ch)
  <2>1. ch \in [Bins -> Seq(Items(d))]
    <3>1. ASSUME NEW a \in Bins PROVE ch[a] \in Seq(Items(d))
      <4>1. PICK S : S = Items(d)
        OBVIOUS
      <4>2. ch[a] \in Seq(Items(c))
        BY DEF Sound, Shape
      <4>3. \A i \in 1..Len(ch[a]) : ch[a][i] \in S
        BY <1>9, <1>12, <4>1
      <4>4. ch[a] \in Seq(S)
        BY <4>2, <4>3
      <4> QED
        BY <4>1, <4>4
    <3> QED
      BY <3>1 DEF Sound, Shape
  <2>2. \A a \in Bins : \A i \in 1..Len(ch[a]) : d.item[ch[a][i]] = c.item[ch[a][i]]
    BY <1>9, <1>12
  <2>3. \A a \in Bins : d.bin[a] = IF Len(ch[a]) = 0 THEN NULL ELSE ch[a][1]
    BY <1>2, <1>5 DEF Sound, Shape
  <2>4. \A a \in Bins : \A i \in 1..Len(ch[a]) :
          d.item[ch[a][i]].next = IF i = Len(ch[a]) THEN NULL ELSE ch[a][i + 1]
    BY <2>2 DEF Sound, Shape
  <2> QED
    BY <1>2, <1>5, <2>1, <2>3, <2>4 DEF Sound, Shape
<1>14. Keyed(Odd, d, ch)
  <2>1. \A a \in Bins : \A i \in 1..Len(ch[a]) : Stayed(Odd, c, ch, d, ch, a, i)
    BY <1>9, <1>12 DEF Stayed
  <2> QED
    BY <1>13, <2>1, KeyedKept DEF Sound
<1> QED
  BY <1>2, <1>5, <1>8, <1>9, <1>11, <1>12, <1>13, <1>14 DEF Sound, Apart, Holds

\* The key is not in the chain s in front of k, and t goes on after its first
\* item with items from there whose keys are others.
OnlyThere(Odd, c, s, k, t, key) ==
  /\ \A i \in 1..Len(s) : i < k => c.item[s[i]].key # key \/ key \in Odd
  /\ \A i \in 1..Len(t) : i # 1 =>
       /\ k + i - 1 \in 1..Len(s) /\ t[i] = s[k + i - 1]
       /\ c.item[s[k + i - 1]].key # key \/ key \in Odd

\* The chains e that linking p at position k of chain b leaves: they lead to p,
\* and not to what was there, nor to anything that nothing led to.  What they
\* lead to no longer was there or behind, and is not in t.
LinkedOver(Odd, c, ch, b, k, t, p, d, e) ==
  /\ Sound(Odd, d, e) /\ SameItems(c, d)
  /\ \A q : Apart(ch, q) /\ q # p => Apart(e, q)
  /\ k \in 1..Len(ch[b]) /\ ch[b][k] # p => Apart(e, ch[b][k])
  /\ ~Apart(e, p)
  /\ \A q : ~Apart(ch, q) /\ Apart(e, q) =>
       \E j \in k..Len(ch[b]) : q = ch[b][j] /\ \A i \in 1..Len(t) : t[i] # q

(* An item is linked over what the pointer there had led to: with nothing  *)
(* behind it, or with all that had been behind the item it stands for.     *)
LEMMA LinkSound ==
  ASSUME NEW Odd, NEW c, NEW ch, Sound(Odd, c, ch), NEW b \in Bins,
         NEW k \in 1..(Len(ch[b]) + 1),
         NEW p \in Items(c), Apart(ch, p),
         NEW key, c.item[p].key = key, key \notin Odd => HashOf[key] = b,
         NEW t, Leads(c, p, t), OnlyThere(Odd, c, ch[b], k, t, key),
         NEW d, d = Link(c, b, p, Before(ch[b], k))
  PROVE  \E e : LinkedOver(Odd, c, ch, b, k, t, p, d, e)
<1>1. PICK s \in Seq(Items(c)) : s = ch[b]
  BY DEF Sound, Shape
<1>2. Len(s) \in Nat /\ k \in 1..(Len(s) + 1)
  BY <1>1
<1>3. Len(t) \in Nat /\ t # <<>> /\ 1 \in 1..Len(t) /\ t[1] = p
  <2>1. Len(t) \in Nat
    BY DEF Leads
  <2>2. Len(t) # 0
    BY StoreAddressed DEF Leads, Sound, Addressed, NULL
  <2> QED
    BY <2>1, <2>2 DEF Leads
<1>4. \A i \in 1..Len(t) : i # 1 =>
        /\ k + i - 1 \in 1..Len(s) /\ t[i] = s[k + i - 1]
        /\ c.item[s[k + i - 1]].key # key \/ key \in Odd
  BY <1>1 DEF OnlyThere
<1>5. \A x, y \in Bins : \A i \in 1..Len(ch[x]), j \in 1..Len(ch[y]) :
        ch[x][i] = ch[y][j] => x = y /\ i = j
  BY DEF Sound, Shape
<1>6. \A i \in 1..Len(t) : \A a \in Bins : \A j \in 1..Len(ch[a]) :
        t[i] = ch[a][j] => a = b /\ j >= k
  <2> SUFFICES ASSUME NEW i \in 1..Len(t), NEW a \in Bins, NEW j \in 1..Len(ch[a]),
                      t[i] = ch[a][j]
               PROVE  a = b /\ j >= k
    OBVIOUS
  <2>1. i # 1
    BY <1>3 DEF Apart
  <2>2. k + i - 1 \in 1..Len(ch[b]) /\ ch[b][k + i - 1] = ch[a][j]
    BY <1>1, <1>4, <2>1
  <2>3. a = b /\ j = k + i - 1
    BY <1>5, <2>2
  <2> QED
    BY <1>2, <1>3, <2>3
<1>7. PICK e : e = [ch EXCEPT ![b] = Splice(ch[b], k, t)]
  OBVIOUS
<1>8. Store(d) /\ SameItems(c, d) /\ Shape(d, e)
  <2>1. /\ Store(d) /\ SameItems(c, d)
        /\ Shape(d, [ch EXCEPT ![b] = Splice(ch[b], k, t)])
        /\ \A q \in Items(c) :
             d.item[q].next = IF q = Before(ch[b], k) THEN p ELSE c.item[q].next
    <3>1. Store(c) /\ Shape(c, ch)
      BY DEF Sound
    <3>2. k \in 1..(Len(ch[b]) + 1) /\ d = Link(c, b, p, Before(ch[b], k))
      OBVIOUS
    <3> QED
      BY <1>6, <3>1, <3>2, LinkShape
  <2> QED
    BY <1>7, <2>1
<1>9. PICK u : u = Splice(s, k, t)
  OBVIOUS
<1>10. /\ Len(u) = k - 1 + Len(t)
       /\ \A i \in 1..Len(t) : k - 1 + i \in 1..Len(u) /\ u[k - 1 + i] = t[i]
       /\ \A i \in 1..(k - 1) : i \in 1..Len(s) /\ i \in 1..Len(u) /\ u[i] = s[i]
       /\ \A i \in 1..Len(u) : i >= k =>
            i - k + 1 \in 1..Len(t) /\ u[i] = t[i - k + 1]
  <2>1. PICK S : S = Items(c)
    OBVIOUS
  <2>2. s \in Seq(S) /\ t \in Seq(S) /\ k \in 1..(Len(s) + 1)
    BY <1>2, <2>1 DEF Leads
  <2>3. Spliced(S, s, k, t, u)
    BY <1>9, <2>2, SpliceProperties
  <2> QED
    BY <2>3 DEF Spliced
<1>11. e[b] = u /\ \A a \in Bins : a # b => e[a] = ch[a]
  BY <1>1, <1>7, <1>9 DEF Sound, Shape
<1>12. \A a \in Bins : \A i \in 1..Len(ch[a]) : ch[a][i] \in Items(c)
  BY DEF Sound, Shape
<1>13. \A q \in Items(c) : d.item[q].key = c.item[q].key
  BY <1>8 DEF SameItems
\* where the items of the new chain come from
<1>14. ASSUME NEW i \in 1..Len(u)
       PROVE  \/ i = k /\ u[i] = p
              \/ /\ i # k /\ i \in 1..Len(s) /\ u[i] = s[i]
                 /\ c.item[s[i]].key # key \/ key \in Odd
  <2>1. CASE i < k
    <3>1. i \in 1..(k - 1) /\ i # k
      BY <1>2, <1>3, <1>10, <2>1
    <3> QED
      BY <1>1, <1>10, <2>1, <3>1 DEF OnlyThere
  <2>2. CASE ~(i < k)
    <3>1. i >= k /\ i \in Nat
      BY <1>2, <1>3, <1>10, <2>2
    <3>2. PICK j \in 1..Len(t) : j = i - k + 1 /\ u[i] = t[j]
      BY <1>10, <3>1
    <3>3. CASE j = 1
      BY <1>2, <1>3, <3>1, <3>2, <3>3
    <3>4. CASE j # 1
      <4>1. k + j - 1 = i /\ i # k
        BY <1>2, <3>1, <3>2, <3>4
      <4> QED
        BY <1>4, <3>2, <3>4, <4>1
    <3> QED
      BY <3>3, <3>4
  <2> QED
    BY <2>1, <2>2
<1>15. Keyed(Odd, d, e)
  <2>1. ASSUME NEW a \in Bins, NEW i \in 1..Len(e[a])
        PROVE  Stayed(Odd, c, ch, d, e, a, i) \/ Belongs(Odd, d, e, a, i)
    <3>1. CASE a # b
      BY <1>11, <1>12, <1>13, <3>1 DEF Stayed
    <3>2. CASE a = b /\ i # k
      <4>1. i \in 1..Len(ch[a]) /\ e[a][i] = ch[a][i]
        BY <1>1, <1>11, <1>14, <3>2
      <4> QED
        BY <1>12, <1>13, <4>1 DEF Stayed
    <3>3. CASE a = b /\ i = k
      <4>1. e[a][i] = p /\ d.item[e[a][i]].key = key
        BY <1>11, <1>13, <1>14, <3>3
      <4>2. ASSUME key \notin Odd, NEW j \in 1..Len(e[a]), j # i
            PROVE  d.item[e[a][j]].key # key
        <5>1. /\ j \in 1..Len(s) /\ e[a][j] = s[j]
              /\ c.item[s[j]].key # key
          BY <1>11, <1>14, <3>3, <4>2
        <5>2. s[j] \in Items(c)
          BY <5>1
        <5> QED
          BY <1>13, <5>1, <5>2
      <4>3. key \notin Odd => HashOf[key] = a
        BY <3>3
      <4> QED
        BY <4>1, <4>2, <4>3 DEF Belongs
    <3> QED
      BY <3>1, <3>2, <3>3
  <2> QED
    BY <1>8, <2>1, KeyedKept DEF Sound
<1>16. ASSUME NEW q, Apart(ch, q) \/ (k \in 1..Len(ch[b]) /\ q = ch[b][k]), q # p
       PROVE  Apart(e, q)
  <2> SUFFICES ASSUME NEW a \in Bins, NEW i \in 1..Len(e[a]) PROVE e[a][i] # q
    BY DEF Apart
  <2>1. CASE a # b
    <3>1. i \in 1..Len(ch[a]) /\ e[a][i] = ch[a][i]
      BY <1>11, <2>1
    <3> QED
      BY <1>5, <1>16, <2>1, <3>1 DEF Apart
  <2>2. CASE a = b
    <3>1. i \in 1..Len(u) /\ e[a][i] = u[i]
      BY <1>11, <2>2
    <3>2. CASE u[i] = p
      BY <1>16, <3>1, <3>2
    <3>3. CASE u[i] # p
      <4>1. i # k /\ i \in 1..Len(s) /\ u[i] = s[i]
        BY <1>14, <3>1, <3>3
      <4> QED
        BY <1>1, <1>5, <1>16, <3>1, <4>1 DEF Apart
    <3> QED
      BY <3>2, <3>3
  <2> QED
    BY <2>1, <2>2
<1>17. \A q : Apart(ch, q) /\ q # p => Apart(e, q)
  BY <1>16
<1>18. k \in 1..Len(ch[b]) /\ ch[b][k] # p => Apart(e, ch[b][k])
  BY <1>16
<1>19. ~Apart(e, p)
  <2>1. k \in 1..Len(u) /\ u[k] = p
    BY <1>2, <1>3, <1>10
  <2> QED
    BY <1>11, <2>1 DEF Apart
<1>20. ASSUME NEW q, ~Apart(ch, q), Apart(e, q)
       PROVE  \E j \in k..Len(ch[b]) : q = ch[b][j] /\ \A i \in 1..Len(t) : t[i] # q
  <2>1. PICK a \in Bins : \E j \in 1..Len(ch[a]) : ch[a][j] = q
    BY <1>20 DEF Apart
  <2>2. PICK j \in 1..Len(ch[a]) : ch[a][j] = q
    BY <2>1
  <2>3. a = b
    BY <1>11, <1>20, <2>2 DEF Apart
  <2>4. j \in 1..Len(s) /\ s[j] = q
    BY <1>1, <2>2, <2>3
  <2>5. ~(j < k)
    <3> SUFFICES ASSUME j < k PROVE FALSE
      OBVIOUS
    <3>1. j \in 1..(k - 1)
      BY <1>2, <2>4
    <3>2. j \in 1..Len(u) /\ u[j] = q
      BY <1>10, <2>4, <3>1
    <3> QED
      BY <1>11, <1>20, <3>2 DEF Apart
  <2>6. ASSUME NEW i \in 1..Len(t) PROVE t[i] # q
    <3>1. PICK n \in 1..Len(u) : u[n] = t[i]
      BY <1>10
    <3> QED
      BY <1>11, <1>20, <3>1 DEF Apart
  <2>7. j \in k..Len(ch[b])
    BY <1>1, <1>2, <2>4, <2>5
  <2> QED
    BY <1>1, <2>4, <2>6, <2>7
<1>21. \A q : ~Apart(ch, q) /\ Apart(e, q) =>
         \E j \in k..Len(ch[b]) : q = ch[b][j] /\ \A i \in 1..Len(t) : t[i] # q
  BY <1>20
<1>22. Sound(Odd, d, e) /\ SameItems(c, d)
  BY <1>8, <1>15 DEF Sound
<1>23. LinkedOver(Odd, c, ch, b, k, t, p, d, e)
  BY <1>17, <1>18, <1>19, <1>21, <1>22, Zenon DEF LinkedOver
<1> QED
  BY <1>23

-----------------------------------------------------------------------------
(* The private operations of the cache                                     *)

(* The room an item asks for is enough for its value.                      *)
LEMMA AllocItemProperties ==
  ASSUME NEW Odd, NEW c, NEW ch, Sound(Odd, c, ch), NEW cbValue \in Nat,
         NEW r, r = AllocItem(c, cbValue)
  PROVE  LET n == Align(KeyLength) + cbValue + HeaderSize
         IN  /\ n \in Nat
             /\ IF r.ptr = NULL THEN r.heap = c.heap
                ELSE Allocated(c.heap, r.heap, r.ptr, n)
<1>1. PICK n : n = Align(KeyLength) + cbValue + HeaderSize
  OBVIOUS
<1>2. n \in Nat
  <2>1. KeyLength \in Nat /\ HeaderSize \in Nat
    BY CacheAssumption
  <2>2. Align(KeyLength) \in Nat
    BY <2>1, AlignGrows
  <2> QED
    BY <1>1, <2>1, <2>2
<1>3. PICK h : h = c.heap
  OBVIOUS
<1>4. HeapOK(h)
  BY <1>3 DEF Sound, Store
<1>5. r = HeapAlloc(h, n)
  BY <1>1, <1>3 DEF AllocItem
<1>6. IF r.ptr = NULL THEN r.heap = h ELSE Allocated(h, r.heap, r.ptr, n)
  BY <1>2, <1>4, <1>5, AllocProperties
<1> QED
  BY <1>1, <1>2, <1>3, <1>6

\* d is c without the item that was at k in chain b, and e its chains.
Discarded(Odd, c, ch, b, k, d, e) ==
  /\ Sound(Odd, d, e) /\ d.cas = c.cas
  /\ k \in 1..(Len(e[b]) + 1)
  /\ Before(e[b], k) = Before(ch[b], k)
  /\ \A i \in 1..(k - 1) : /\ e[b][i] = ch[b][i]
                          /\ d.item[e[b][i]].key = c.item[ch[b][i]].key
  /\ OnlyOld(c, ch, d, e, ch[b][k], NULL) /\ AllOld(ch, e, ch[b][k], NULL)
  /\ k = Len(ch[b]) => Len(e[b]) = k - 1

(* Unlinking and freeing: the keys that are left stay in front of k.       *)
LEMMA DiscardSound ==
  ASSUME NEW Odd, NEW c, NEW ch, Sound(Odd, c, ch), NEW b \in Bins, NEW k \in 1..Len(ch[b]),
         NEW p, p = ch[b][k],
         NEW d, d = FreeItem(Unlink(c, b, p, Before(ch[b], k)), p)
  PROVE  Discarded(Odd, c, ch, b, k, d, Without(ch, b, k))
<1>1. PICK s \in Seq(Items(c)) : s = ch[b]
  BY DEF Sound, Shape
<1>2. Len(s) \in Nat /\ k \in 1..Len(s) /\ \A i \in 1..Len(s) : s[i] \in Items(c)
  BY <1>1
<1>3. PICK u : u = Unlink(c, b, p, Before(ch[b], k))
  OBVIOUS
<1>4. PICK e : e = Without(ch, b, k)
  OBVIOUS
<1>5. /\ Sound(Odd, u, e) /\ SameItems(c, u) /\ Apart(e, p)
      /\ \A q : q # p => (Apart(e, q) <=> Apart(ch, q))
      /\ k = Len(ch[b]) => Len(e[b]) = k - 1
  <2>1. /\ Sound(Odd, u, Without(ch, b, k)) /\ SameItems(c, u) /\ Apart(Without(ch, b, k), p)
        /\ \A q \in Items(c) : q # Before(ch[b], k) => u.item[q].next = c.item[q].next
        /\ \A q : q # p => (Apart(Without(ch, b, k), q) <=> Apart(ch, q))
        /\ k = Len(ch[b]) => Len(Without(ch, b, k)[b]) = k - 1
    BY <1>3, UnlinkSound
  <2> QED
    BY <1>4, <2>1
<1>6. p \in Items(u)
  BY <1>1, <1>2, <1>5 DEF SameItems
<1>7. /\ Sound(Odd, d, e) /\ d.cas = u.cas
      /\ \A q \in Items(d) : q \in Items(u) /\ d.item[q] = u.item[q]
  BY <1>3, <1>5, <1>6, FreeSound
<1>8. d.cas = c.cas
  BY <1>5, <1>7 DEF SameItems
<1>9. PICK t : t = After(s, k)
  OBVIOUS
<1>10. t \in Seq(Items(c)) /\ Len(t) \in Nat
  <2>0. Shape(c, ch)
    BY DEF Sound
  <2>1. Follows(c, ch[b], k, After(ch[b], k))
    BY <2>0, AfterLeads
  <2>2. t \in Seq(Items(c))
    BY <1>1, <1>9, <2>1 DEF Leads, Follows
  <2> QED
    BY <2>2
<1>11. PICK x : x = Splice(s, k, t)
  OBVIOUS
<1>12. e[b] = x
  BY <1>1, <1>4, <1>9, <1>11 DEF Without, Sound, Shape
<1>13. /\ Len(x) = k - 1 + Len(t)
       /\ \A i \in 1..(k - 1) : i \in 1..Len(s) /\ i \in 1..Len(x) /\ x[i] = s[i]
  <2>1. PICK S : S = Items(c)
    OBVIOUS
  <2>2. s \in Seq(S) /\ t \in Seq(S) /\ k \in 1..(Len(s) + 1)
    BY <1>2, <1>10, <2>1
  <2>3. Spliced(S, s, k, t, x)
    BY <1>11, <2>2, SpliceProperties
  <2> QED
    BY <2>3 DEF Spliced
<1>14. k \in 1..(Len(e[b]) + 1) /\ Before(e[b], k) = Before(ch[b], k)
  <2>1. k \in 1..(Len(x) + 1)
    BY <1>2, <1>10, <1>13
  <2>2. k # 1 => x[k - 1] = s[k - 1]
    BY <1>2, <1>13
  <2> QED
    BY <1>1, <1>12, <2>1, <2>2 DEF Before
<1>15. ASSUME NEW i \in 1..(k - 1)
       PROVE  e[b][i] = ch[b][i] /\ d.item[e[b][i]].key = c.item[ch[b][i]].key
  <2>1. i \in 1..Len(s) /\ e[b][i] = s[i] /\ s[i] \in Items(c)
    BY <1>2, <1>12, <1>13
  <2>2. s[i] # p
    <3>1. i \in 1..Len(e[b]) /\ e[b][i] = s[i]
      BY <1>12, <1>13
    <3> QED
      BY <1>5, <3>1 DEF Apart
  <2>3. ~Apart(e, s[i])
    <3>1. i \in 1..Len(e[b]) /\ e[b][i] = s[i]
      BY <1>12, <1>13
    <3> QED
      BY <3>1 DEF Apart
  <2>4. d.item[s[i]] = u.item[s[i]]
    BY <1>7, <2>3, LinkedItems DEF Sound
  <2> QED
    BY <1>1, <1>5, <2>1, <2>4 DEF SameItems
<1>16. ASSUME NEW q, ~Apart(e, q)
       PROVE  ~Apart(ch, q) /\ q # p /\ Stays(c, d, q)
  <2>1. ~Apart(ch, q) /\ q # p
    BY <1>5, <1>16
  <2>2. q \in Items(d) /\ q \in Items(c)
    BY <1>7, <1>16, <2>1, LinkedItems DEF Sound
  <2> QED
    BY <1>5, <1>7, <2>1, <2>2 DEF SameItems, Stays
<1>17. ASSUME NEW q, ~Apart(ch, q), q # p
       PROVE  ~Apart(e, q) /\ q # NULL
  <2>1. q \in Items(c)
    BY <1>17, LinkedItems DEF Sound
  <2> QED
    BY <1>5, <1>17, <2>1, StoreAddressed DEF Sound, Addressed, NULL
<1>18. OnlyOld(c, ch, d, e, p, NULL) /\ AllOld(ch, e, p, NULL)
  BY <1>16, <1>17, Zenon DEF OnlyOld, AllOld
<1> QED
  BY <1>4, <1>5, <1>7, <1>8, <1>14, <1>15, <1>18 DEF Discarded

(* An item of its own is all that its pointer leads to.                    *)
LEMMA LeadsAlone ==
  ASSUME NEW c, NEW p \in Items(c), c.item[p].next = NULL
  PROVE  Leads(c, p, <<p>>)
<1>1. <<p>> \in Seq(Items(c)) /\ Len(<<p>>) = 1 /\ <<p>>[1] = p
  OBVIOUS
<1> QED
  BY <1>1 DEF Leads

\* What the fields of item q of d hold.
Reads(d, q, key, value, expire, stamp) ==
  /\ d.item[q].key = key /\ d.item[q].value = value
  /\ d.item[q].expire = expire /\ d.item[q].cas = stamp

\* d is c with a new item q at position k of chain b, in a block the heap
\* gave; what had been there and behind is lost.
Granted(c, d, q) == \E n : Allocated(c.heap, d.heap, q, n)

Entered(Odd, c, ch, b, k, d, q) ==
  \E e : /\ Sound(Odd, d, e) /\ ~Apart(e, q) /\ Granted(c, d, q)
         /\ OnlyOld(c, ch, d, e, NULL, q)
         /\ k = Len(ch[b]) + 1 => AllOld(ch, e, NULL, q)

(* Cache::insert, at a position in front of which the key is not found.    *)
LEMMA InsertSound ==
  ASSUME NEW Odd, NEW c, NEW ch, Sound(Odd, c, ch), NEW key \in Keys,
         NEW k \in 1..(Len(ch[HashOf[key]]) + 1),
         \A i \in 1..(k - 1) : c.item[ch[HashOf[key]][i]].key # key,
         NEW data \in Seq(Bytes), NEW expiration, SetupExpire(expiration) \in Nat,
         NEW r, r = Insert(c, key, data, expiration, Before(ch[HashOf[key]], k))
  PROVE  IF r.item = NULL THEN r.cache = c
         ELSE /\ Entered(Odd, c, ch, HashOf[key], k, r.cache, r.item)
              /\ Reads(r.cache, r.item, key, data, SetupExpire(expiration), c.cas)
              /\ r.cache.cas = c.cas + 1
<1>1. PICK b \in Bins : b = HashOf[key]
  BY CacheAssumption
<1>2. PICK a : a = AllocItem(c, Len(data))
  OBVIOUS
<1>3. PICK n : n = Align(KeyLength) + Len(data) + HeaderSize
  OBVIOUS
<1>4. n \in Nat /\ (a.ptr = NULL \/ Allocated(c.heap, a.heap, a.ptr, n))
  <2>1. Len(data) \in Nat
    OBVIOUS
  <2> QED
    BY <1>2, <1>3, <2>1, AllocItemProperties
<1>5. PICK expire \in Nat : expire = SetupExpire(expiration)
  OBVIOUS
<1>6. PICK rec : rec = [key |-> key, value |-> data, cas |-> c.cas,
                        expire |-> expire, next |-> NULL]
  OBVIOUS
<1>7. PICK p : p = a.ptr
  OBVIOUS
<1>8. PICK new : new = [PutItem(c, a.heap, p, rec) EXCEPT !.cas = c.cas + 1]
  OBVIOUS
<1>9. r = IF p = NULL THEN [cache |-> c, item |-> NULL]
          ELSE [cache |-> Link(new, b, p, Before(ch[b], k)), item |-> p]
  BY <1>1, <1>2, <1>5, <1>6, <1>7, <1>8 DEF Insert
<1>10. CASE p = NULL
  BY <1>9, <1>10
<1>11. CASE p # NULL
  <2>1. /\ rec \in ItemRecord /\ rec.cas = c.cas /\ rec.value = data
        /\ rec.next = NULL /\ rec.key = key /\ rec.expire = expire
    BY <1>6 DEF ItemRecord, NULL, Sound, Store
  <2>2. Fitting(n, rec.value)
    BY <1>3, <1>4, <2>1 DEF Fitting
  <2>3. PICK g : g = a.heap
    OBVIOUS
  <2>4. Allocated(c.heap, g, p, n)
    BY <1>4, <1>7, <1>11, <2>3
  <2>5. new = [PutItem(c, g, p, rec) EXCEPT !.cas = c.cas + 1]
    BY <1>8, <2>3
  <2>6. Holds(Odd, c, ch, g, p, rec, new)
    BY <1>4, <2>1, <2>2, <2>4, <2>5, PutSound
  <2>20. /\ Sound(Odd, new, ch)
         /\ Items(new) = Items(c) \cup {p} /\ p \notin Items(c)
         /\ Apart(ch, p)
         /\ new.item[p] = rec /\ \A q \in Items(c) : new.item[q] = c.item[q]
         /\ new.heap = g /\ new.cas = c.cas + 1
    BY <2>6 DEF Holds
  <2>7. PICK d : d = Link(new, b, p, Before(ch[b], k))
    OBVIOUS
  <2>8. PICK t : t = <<p>>
    OBVIOUS
  <2>9. p \in Items(new) /\ new.item[p].key = key /\ new.item[p].next = NULL
    BY <2>1, <2>20
  <2>10. Leads(new, p, t) /\ Len(t) = 1
    BY <2>8, <2>9, LeadsAlone
  <2>11. ASSUME NEW i \in 1..Len(ch[b]), i < k PROVE new.item[ch[b][i]].key # key
    <3>1. i \in 1..(k - 1) /\ ch[b][i] \in Items(c)
      BY <1>1, <2>11 DEF Sound, Shape
    <3> QED
      BY <1>1, <2>20, <3>1
  <2>12. k \in 1..(Len(ch[b]) + 1)
    BY <1>1
  <2>13. PICK e : LinkedOver(Odd, new, ch, b, k, t, p, d, e)
    <3>1. OnlyThere(Odd, new, ch[b], k, t, key)
      BY <2>10, <2>11 DEF OnlyThere
    <3>2. Sound(Odd, new, ch) /\ Apart(ch, p)
      BY <2>20
    <3> QED
      BY <1>1, <2>7, <2>9, <2>10, <2>12, <3>1, <3>2, LinkSound
  <2>21. /\ Sound(Odd, d, e) /\ SameItems(new, d) /\ ~Apart(e, p)
         /\ \A q : Apart(ch, q) /\ q # p => Apart(e, q)
         /\ \A q : ~Apart(ch, q) /\ Apart(e, q) => k..Len(ch[b]) # {}
    BY <2>13 DEF LinkedOver
  <2>14. r.cache = d /\ r.item = p /\ r.item # NULL
    BY <1>9, <1>11, <2>7
  <2>15. d.cas = c.cas + 1
    <3>1. d.cas = new.cas
      BY <2>21 DEF SameItems
    <3>2. new.cas = c.cas + 1
      BY <2>20
    <3> QED
      BY <3>1, <3>2
  <2>16. Reads(d, p, key, data, expire, c.cas)
    <3>1. new.item[p] = rec /\ p \in Items(new)
      BY <2>9, <2>20
    <3> QED
      BY <2>1, <2>21, <3>1 DEF SameItems, Reads
  <2>17. ASSUME NEW q, ~Apart(e, q), q # p
         PROVE  ~Apart(ch, q) /\ q # NULL /\ Stays(c, d, q)
    <3>1. ~Apart(ch, q)
      BY <2>17, <2>21
    <3>2. q \in Items(c)
      BY <3>1, LinkedItems DEF Sound
    <3>3. q # NULL
      BY <3>2, StoreAddressed DEF Sound, Addressed, NULL
    <3>4. q \in Items(new) /\ new.item[q] = c.item[q]
      BY <2>20, <3>2
    <3> QED
      BY <2>21, <3>1, <3>3, <3>4 DEF SameItems, Stays
  <2>18. ASSUME NEW q, k = Len(ch[b]) + 1, ~Apart(ch, q)
         PROVE  ~Apart(e, q) /\ q # p
    <3>1. ch[b] \in Seq(Items(c))
      BY DEF Sound, Shape
    <3>2. k..Len(ch[b]) = {}
      BY <2>18, <3>1
    <3> QED
      BY <2>18, <2>20, <2>21, <3>2
  <2>22. Granted(c, d, p)
    <3>1. new.heap = g
      BY <2>20
    <3>2. d.heap = new.heap
      BY <2>21 DEF SameItems
    <3> QED
      BY <2>4, <3>1, <3>2 DEF Granted
  <2>19. Entered(Odd, c, ch, b, k, d, p)
    <3>1. OnlyOld(c, ch, d, e, NULL, p)
      BY <2>17, Zenon DEF OnlyOld
    <3>2. k = Len(ch[b]) + 1 => AllOld(ch, e, NULL, p)
      BY <2>18, Zenon DEF AllOld
    <3> QED
      BY <2>21, <2>22, <3>1, <3>2 DEF Entered
  <2> QED
    BY <1>1, <1>5, <2>14, <2>15, <2>16, <2>19
<1> QED
  BY <1>10, <1>11

(* Writing the same pointer twice leaves what was written last.            *)
LEMMA LinkTwice ==
  ASSUME NEW c, Store(c), NEW b \in Bins, NEW x, NEW y,
         NEW previous \in Items(c) \cup {NULL}
  PROVE  Link(Link(c, b, x, previous), b, y, previous) = Link(c, b, y, previous)
<1>1. PICK h, bin, item, cas : c = [heap |-> h, bin |-> bin, item |-> item, cas |-> cas]
  BY DEF Store
<1>2. c.bin = bin /\ c.item = item
  BY <1>1
<1>3. bin \in [Bins -> Nat] /\ item \in [Items(c) -> ItemRecord]
  BY <1>2 DEF Store
<1>4. PICK d : d = Link(c, b, x, previous)
  OBVIOUS
<1>5. CASE previous = NULL
  <2>1. PICK one : one = [bin EXCEPT ![b] = x]
    OBVIOUS
  <2>2. d = [heap |-> h, bin |-> one, item |-> item, cas |-> cas]
    BY <1>1, <1>4, <1>5, <2>1 DEF Link
  <2>3. Link(d, b, y, previous)
          = [heap |-> h, bin |-> [one EXCEPT ![b] = y], item |-> item, cas |-> cas]
    BY <1>5, <2>2 DEF Link
  <2>4. Link(c, b, y, previous)
          = [heap |-> h, bin |-> [bin EXCEPT ![b] = y], item |-> item, cas |-> cas]
    BY <1>1, <1>5 DEF Link
  <2>5. [one EXCEPT ![b] = y] = [bin EXCEPT ![b] = y]
    BY <1>3, <2>1
  <2> QED
    BY <1>4, <2>3, <2>4, <2>5
<1>6. CASE previous # NULL
  <2>1. PICK one : one = [item EXCEPT ![previous].next = x]
    OBVIOUS
  <2>2. d = [heap |-> h, bin |-> bin, item |-> one, cas |-> cas]
    BY <1>1, <1>4, <1>6, <2>1 DEF Link
  <2>3. Link(d, b, y, previous)
          = [heap |-> h, bin |-> bin, item |-> [one EXCEPT ![previous].next = y],
             cas |-> cas]
    BY <1>6, <2>2 DEF Link
  <2>4. Link(c, b, y, previous)
          = [heap |-> h, bin |-> bin, item |-> [item EXCEPT ![previous].next = y],
             cas |-> cas]
    BY <1>1, <1>6 DEF Link
  <2>5. [one EXCEPT ![previous].next = y] = [item EXCEPT ![previous].next = y]
    <3>1. previous \in Items(c) /\ item[previous] \in ItemRecord
      BY <1>3, <1>6
    <3>2. one[previous] = [item[previous] EXCEPT !.next = x]
      BY <1>3, <2>1, <3>1
    <3>3. [one[previous] EXCEPT !.next = y] = [item[previous] EXCEPT !.next = y]
      BY <3>1, <3>2 DEF ItemRecord
    <3> QED
      BY <1>3, <2>1, <3>1, <3>2, <3>3
  <2> QED
    BY <1>4, <2>3, <2>4, <2>5
<1> QED
  BY <1>5, <1>6

(* An item whose pointer leads to t leads to itself and t.                 *)
LEMMA LeadsOn ==
  ASSUME NEW c, NEW p \in Items(c), NEW t, Leads(c, c.item[p].next, t),
         \A i \in 1..Len(t) : t[i] # p
  PROVE  \E u : /\ Leads(c, p, u) /\ Len(u) = Len(t) + 1
                /\ \A i \in 1..Len(u) : i # 1 => i - 1 \in 1..Len(t) /\ u[i] = t[i - 1]
<1>1. PICK S : S = Items(c)
  OBVIOUS
<1>2. t \in Seq(S) /\ p \in S /\ Len(t) \in Nat
  BY <1>1 DEF Leads
<1>3. PICK u : u = <<p>> \o t
  OBVIOUS
<1>4. /\ u \in Seq(S)
      /\ Len(u) = Len(t) + 1
      /\ \A i \in 1..(Len(t) + 1) : u[i] = IF i = 1 THEN p ELSE t[i - 1]
  BY <1>2, <1>3, PushProperties
<1>5. u[1] = p
  BY <1>2, <1>4
<1>6. \A i \in 1..Len(u) : i # 1 => i - 1 \in 1..Len(t) /\ u[i] = t[i - 1]
  BY <1>2, <1>4
<1>7. /\ c.item[p].next = IF Len(t) = 0 THEN NULL ELSE t[1]
      /\ \A i \in 1..Len(t) : c.item[t[i]].next = IF i = Len(t) THEN NULL ELSE t[i + 1]
      /\ \A i, j \in 1..Len(t) : t[i] = t[j] => i = j
  BY DEF Leads
<1>8. ASSUME NEW i \in 1..Len(u)
      PROVE  c.item[u[i]].next = IF i = Len(u) THEN NULL ELSE u[i + 1]
  <2>1. CASE i = 1
    <3>1. Len(t) # 0 => u[2] = t[1]
      BY <1>2, <1>4
    <3> QED
      BY <1>2, <1>4, <1>5, <1>7, <2>1, <3>1
  <2>2. CASE i # 1
    <3>1. i - 1 \in 1..Len(t) /\ u[i] = t[i - 1]
      BY <1>6, <2>2
    <3>2. CASE i = Len(u)
      <4>1. i - 1 = Len(t)
        BY <1>2, <1>4, <3>2
      <4> QED
        BY <1>7, <3>1, <3>2, <4>1
    <3>3. CASE i # Len(u)
      <4>1. i - 1 # Len(t) /\ i + 1 \in 1..(Len(t) + 1) /\ i + 1 # 1
        BY <1>2, <1>4, <3>3
      <4>2. u[i + 1] = t[(i - 1) + 1]
        <5>1. u[i + 1] = t[(i + 1) - 1] /\ (i + 1) - 1 = (i - 1) + 1
          BY <1>4, <4>1
        <5> QED
          BY <5>1
      <4> QED
        BY <1>7, <3>1, <3>3, <4>1, <4>2
    <3> QED
      BY <3>2, <3>3
  <2> QED
    BY <2>1, <2>2
<1>9. ASSUME NEW i \in 1..Len(u), NEW j \in 1..Len(u), u[i] = u[j] PROVE i = j
  <2>1. CASE i = 1 \/ j = 1
    BY <1>2, <1>4, <1>5, <1>6, <1>9, <2>1
  <2>2. CASE i # 1 /\ j # 1
    <3>1. i - 1 \in 1..Len(t) /\ j - 1 \in 1..Len(t) /\ t[i - 1] = t[j - 1]
      BY <1>6, <1>9, <2>2
    <3>2. i - 1 = j - 1
      BY <1>7, <3>1
    <3> QED
      BY <1>2, <1>4, <3>2
  <2> QED
    BY <2>1, <2>2
<1>10. Leads(c, p, u)
  <2>1. Len(u) # 0
    BY <1>2, <1>4
  <2> QED
    BY <1>1, <1>4, <1>5, <1>8, <1>9, <2>1 DEF Leads
<1> QED
  BY <1>4, <1>6, <1>10

\* What an item asks the heap for, the copy of an item that moves, and the
\* cache with an item that grows in place.
Room(cbValue) == Align(KeyLength) + cbValue + HeaderSize
Copied(c, p) == [c.item[p] EXCEPT !.cas = c.cas]
Stamped(c, p) == [c EXCEPT !.item[p].cas = c.cas, !.cas = c.cas + 1]

\* The cache d has in its chains e an item q with the key and the room asked
\* for; when q is not p, no chain leads to p, which is still to be freed.
Grew(Odd, d, e, q, p, key, cbValue) ==
  /\ Sound(Odd, d, e)
  /\ q \in Items(d) /\ d.item[q].key = key
  /\ Room(cbValue) <= d.heap.size[q]
  /\ q # p => p \in Items(d) /\ Apart(e, p)

\* In d the item q has the place and the fields that p has in c, and a new stamp.
Replaced(c, ch, d, e, p, q) ==
  /\ OnlyOld(c, ch, d, e, p, q) /\ AllOld(ch, e, p, q) /\ ~Apart(e, q)
  /\ d.item[q].value = c.item[p].value /\ d.item[q].expire = c.item[p].expire
  /\ d.item[q].cas = c.cas

(* growAndReplace in place                                                 *)
LEMMA GrowInPlace ==
  ASSUME NEW Odd, NEW c, NEW ch, Sound(Odd, c, ch), NEW b \in Bins, NEW k \in 1..Len(ch[b]),
         NEW p, p = ch[b][k], NEW cbValue \in Nat, cbValue <= Capacity(c, p),
         NEW d, d = Stamped(c, p)
  PROVE  /\ Grew(Odd, d, ch, p, p, c.item[p].key, cbValue) /\ d.cas = c.cas + 1
         /\ Replaced(c, ch, d, ch, p, p)
<1>1. p \in Items(c)
  BY DEF Sound, Shape
<1>2. PICK h, bin, item, cas : c = [heap |-> h, bin |-> bin, item |-> item, cas |-> cas]
  BY DEF Sound, Store
<1>3. c.heap = h /\ c.bin = bin /\ c.item = item /\ c.cas = cas
  BY <1>2
<1>4. /\ c.item \in [Items(c) -> ItemRecord] /\ c.cas \in Nat \ {0}
      /\ Fitting(c.heap.size[p], c.item[p].value)
      /\ c.heap.size[p] \in Nat
  BY <1>1 DEF Sound, Store, HeapOK
<1>5. PICK rec : rec = [c.item[p] EXCEPT !.cas = c.cas]
  OBVIOUS
<1>6. /\ rec \in ItemRecord /\ rec.cas = c.cas
      /\ rec.next = c.item[p].next /\ rec.key = c.item[p].key
      /\ rec.value = c.item[p].value /\ rec.expire = c.item[p].expire
  BY <1>1, <1>4, <1>5 DEF ItemRecord
<1>7. PICK stamp \in Nat : stamp = c.cas + 1
  BY <1>4
<1>8. d = Written(c, p, rec, stamp)
  <2>1. [item EXCEPT ![p].cas = cas] = [item EXCEPT ![p] = rec]
    BY <1>1, <1>3, <1>4, <1>5
  <2>2. d = [heap |-> h, bin |-> bin, item |-> [item EXCEPT ![p].cas = cas],
             cas |-> cas + 1]
    BY <1>2, <1>3 DEF Stamped
  <2> QED
    BY <1>3, <1>7, <2>1, <2>2 DEF Written
<1>9. c.cas <= stamp /\ rec.cas < stamp /\ rec.key \in {c.item[p].key} \cup Odd
      /\ Fitting(c.heap.size[p], rec.value)
  BY <1>4, <1>6, <1>7
<1>10. /\ Sound(Odd, d, ch) /\ d.cas = stamp /\ Items(d) = Items(c)
       /\ \A q \in Items(c) : d.item[q] = IF q = p THEN rec ELSE c.item[q]
  <2>1. rec \in ItemRecord /\ Writable(Odd, c, p, rec, stamp)
    BY <1>6, <1>9 DEF Writable
  <2>2. /\ Sound(Odd, d, ch) /\ d.cas = stamp /\ Items(d) = Items(c)
        /\ Rewritten(c, d, p, rec)
    BY <1>1, <1>8, <2>1, WriteSound, SMTT(60)
  <2> QED
    BY <2>2 DEF Rewritten
<1>11. d.heap = c.heap /\ d.item[p].key = c.item[p].key
  <2>1. PICK r : r = [heap |-> h, bin |-> bin, item |-> [item EXCEPT ![p] = rec],
                      cas |-> stamp]
    OBVIOUS
  <2>2. r.heap = h /\ r.item[p] = rec
    BY <1>1, <1>3, <1>4, <2>1
  <2>3. d = r
    BY <1>3, <1>8, <2>1 DEF Written
  <2> QED
    BY <1>3, <1>6, <2>2, <2>3
<1>12. Room(cbValue) <= d.heap.size[p]
  <2>1. KeyLength \in Nat /\ HeaderSize \in Nat
    BY CacheAssumption
  <2>2. Align(KeyLength) \in Nat
    BY <2>1, AlignGrows
  <2> QED
    BY <1>4, <1>11, <2>1, <2>2 DEF Capacity, Room
<1>13. Grew(Odd, d, ch, p, p, c.item[p].key, cbValue)
  BY <1>1, <1>10, <1>11, <1>12 DEF Grew
<1>14. ~Apart(ch, p)
  BY DEF Apart
<1>15. ASSUME NEW q, ~Apart(ch, q), q # p PROVE Stays(c, d, q)
  <2>1. q \in Items(c)
    BY <1>15, LinkedItems DEF Sound
  <2> QED
    BY <1>10, <1>15, <2>1 DEF Stays
<1>16. OnlyOld(c, ch, d, ch, p, p) /\ AllOld(ch, ch, p, p)
  BY <1>15, Zenon DEF OnlyOld, AllOld
<1>17. Replaced(c, ch, d, ch, p, p)
  BY <1>1, <1>6, <1>10, <1>14, <1>16 DEF Replaced
<1> QED
  BY <1>7, <1>10, <1>13, <1>17

(* growAndReplace copies an item only when its block is too small, so the  *)
(* larger one has room for the value the item has.                         *)
LEMMA CopyProperties ==
  ASSUME NEW c, Store(c), NEW p \in Items(c),
         NEW cbValue \in Nat, ~(cbValue <= Capacity(c, p)),
         NEW rec, rec = Copied(c, p)
  PROVE  /\ rec \in ItemRecord /\ rec.cas = c.cas
         /\ rec.next = c.item[p].next /\ rec.key = c.item[p].key
         /\ rec.value = c.item[p].value /\ rec.expire = c.item[p].expire
         /\ Fitting(Room(cbValue), rec.value)
<1>1. /\ c.item[p] \in ItemRecord /\ c.cas \in Nat \ {0}
      /\ Fitting(c.heap.size[p], c.item[p].value)
      /\ c.heap.size[p] \in Nat
  BY DEF Store, HeapOK
<1>2. /\ rec \in ItemRecord /\ rec.cas = c.cas
      /\ rec.next = c.item[p].next /\ rec.key = c.item[p].key
      /\ rec.value = c.item[p].value /\ rec.expire = c.item[p].expire
  BY <1>1 DEF ItemRecord, Copied
<1>3. PICK l \in Nat : l = Len(c.item[p].value)
  <2>1. PICK v \in Seq(Bytes) : v = c.item[p].value
    BY <1>1 DEF ItemRecord
  <2> QED
    BY <2>1
<1>4. Fitting(Room(cbValue), rec.value)
  <2>1. KeyLength \in Nat /\ HeaderSize \in Nat
    BY CacheAssumption
  <2>2. Align(KeyLength) \in Nat
    BY <2>1, AlignGrows
  <2>3. PICK size \in Nat : size = c.heap.size[p]
    BY <1>1
  <2>4. Align(KeyLength) + l + HeaderSize <= size
    BY <1>1, <1>3, <2>3 DEF Fitting
  <2>5. ~(cbValue <= size - HeaderSize - Align(KeyLength))
    BY <2>3 DEF Capacity
  <2>6. Len(rec.value) = l
    BY <1>2, <1>3
  <2>7. Align(KeyLength) + l + HeaderSize <= Align(KeyLength) + cbValue + HeaderSize
    BY <2>1, <2>2, <2>4, <2>5
  <2> QED
    BY <2>6, <2>7 DEF Fitting, Room
<1> QED
  BY <1>2, <1>4

(* growAndReplace into a larger block                                      *)
LEMMA GrowMoved ==
  ASSUME NEW Odd, NEW c, NEW ch, Sound(Odd, c, ch), NEW b \in Bins, NEW k \in 1..Len(ch[b]),
         NEW p, p = ch[b][k], NEW cbValue \in Nat,
         NEW g, NEW q, Room(cbValue) <= g.size[q],
         NEW rec, rec.next = c.item[p].next, rec.key = c.item[p].key,
         rec.value = c.item[p].value, rec.expire = c.item[p].expire, rec.cas = c.cas,
         NEW new, Holds(Odd, c, ch, g, q, rec, new),
         NEW d, d = Link(Unlink(new, b, p, Before(ch[b], k)), b, q, Before(ch[b], k))
  PROVE  /\ \E e : /\ Grew(Odd, d, e, q, p, c.item[p].key, cbValue)
                  /\ Replaced(c, ch, d, e, p, q)
         /\ d.cas = c.cas + 1
<1>1. PICK s \in Seq(Items(c)) : s = ch[b]
  BY DEF Sound, Shape
<1>2. Len(s) \in Nat /\ k \in 1..Len(s) /\ p = s[k] /\ \A i \in 1..Len(s) : s[i] \in Items(c)
  BY <1>1
<1>7. /\ Sound(Odd, new, ch) /\ Apart(ch, q)
      /\ Items(new) = Items(c) \cup {q} /\ q \notin Items(c)
      /\ new.item[q] = rec /\ \A r \in Items(c) : new.item[r] = c.item[r]
      /\ new.heap = g /\ new.cas = c.cas + 1
  BY DEF Holds
<1>8. Store(new) /\ Shape(new, ch) /\ Keyed(Odd, new, ch)
  BY <1>7 DEF Sound
<1>9. PICK previous : previous = Before(ch[b], k)
  OBVIOUS
<1>10. previous \in Items(new) \cup {NULL}
  BY <1>1, <1>2, <1>7, <1>9 DEF Before
<1>11. d = Link(new, b, q, previous)
  <2>1. PICK x : x = new.item[p].next
    OBVIOUS
  <2>2. d = Link(Link(new, b, x, previous), b, q, previous)
    BY <1>9, <2>1 DEF Unlink
  <2>3. Link(Link(new, b, x, previous), b, q, previous) = Link(new, b, q, previous)
    BY <1>8, <1>10, LinkTwice
  <2> QED
    BY <2>2, <2>3
<1>12. PICK key : key = c.item[p].key
  OBVIOUS
<1>13. PICK t : t = After(ch[b], k)
  OBVIOUS
<1>14. /\ Leads(new, new.item[p].next, t)
       /\ Len(t) = Len(s) - k
       /\ \A i \in 1..(Len(s) - k) : k + i \in 1..Len(s) /\ t[i] = s[k + i]
  <2>1. Follows(new, ch[b], k, After(ch[b], k))
    BY <1>8, AfterLeads
  <2> QED
    BY <1>1, <1>13, <2>1 DEF Follows
<1>15. Leads(new, new.item[q].next, t)
  BY <1>2, <1>7, <1>14
<1>16. \A i \in 1..Len(t) : t[i] # q
  BY <1>2, <1>7, <1>14
<1>17. q \in Items(new)
  BY <1>7
<1>18. PICK u : /\ Leads(new, q, u) /\ Len(u) = Len(t) + 1
                /\ \A i \in 1..Len(u) : i # 1 => i - 1 \in 1..Len(t) /\ u[i] = t[i - 1]
  BY <1>15, <1>16, <1>17, LeadsOn
<1>19. ASSUME NEW i \in 1..Len(s), i # k
       PROVE  new.item[s[i]].key # key \/ key \in Odd
  <2>1. new.item[s[k]].key = key
    BY <1>2, <1>7, <1>12
  <2> QED
    BY <1>1, <1>2, <1>8, <1>19, <2>1 DEF Keyed
<1>20. OnlyThere(Odd, new, s, k, u, key)
  <2>1. ASSUME NEW i \in 1..Len(u), i # 1
        PROVE  /\ k + i - 1 \in 1..Len(s) /\ u[i] = s[k + i - 1]
               /\ new.item[s[k + i - 1]].key # key \/ key \in Odd
    <3>1. PICK j \in 1..Len(t) : j = i - 1 /\ u[i] = t[j]
      BY <1>18, <2>1
    <3>2. k + j \in 1..Len(s) /\ t[j] = s[k + j] /\ k + j = k + i - 1 /\ k + j # k
      BY <1>2, <1>14, <3>1
    <3> QED
      BY <1>19, <3>1, <3>2
  <2>2. \A i \in 1..Len(s) : i < k => new.item[s[i]].key # key \/ key \in Odd
    BY <1>2, <1>19
  <2> QED
    BY <2>1, <2>2 DEF OnlyThere
<1>21. new.item[q].key = key /\ (key \notin Odd => HashOf[key] = b)
  <2>1. new.item[q].key = key
    BY <1>7, <1>12
  <2>2. new.item[ch[b][k]].key = key
    BY <1>1, <1>2, <1>7, <1>12
  <2> QED
    BY <1>8, <2>1, <2>2 DEF Keyed
<1>22. PICK e : LinkedOver(Odd, new, ch, b, k, u, q, d, e)
  <2>1. k \in 1..(Len(ch[b]) + 1)
    BY <1>1, <1>2
  <2>2. OnlyThere(Odd, new, ch[b], k, u, key) /\ d = Link(new, b, q, Before(ch[b], k))
    BY <1>1, <1>9, <1>11, <1>20
  <2> QED
    BY <1>7, <1>17, <1>18, <1>21, <2>1, <2>2, LinkSound
<1>a. /\ Sound(Odd, d, e) /\ SameItems(new, d)
      /\ ch[b][k] # q => Apart(e, ch[b][k])
      /\ \A r : Apart(ch, r) /\ r # q => Apart(e, r)
      /\ ~Apart(e, q)
      /\ \A r : ~Apart(ch, r) /\ Apart(e, r) =>
           \E j \in k..Len(ch[b]) : r = ch[b][j] /\ \A i \in 1..Len(u) : u[i] # r
  BY <1>1, <1>2, <1>22 DEF LinkedOver
<1>23. d.cas = c.cas + 1 /\ d.heap = g /\ Items(d) = Items(new) /\ d.item[q].key = key
  <2>1. d.cas = new.cas /\ d.heap = new.heap /\ Items(d) = Items(new)
        /\ d.item[q].key = new.item[q].key
    BY <1>17, <1>a DEF SameItems
  <2> QED
    BY <1>7, <1>21, <2>1
<1>24. p \in Items(d) /\ q \in Items(d) /\ (q # p => Apart(e, p))
  BY <1>1, <1>2, <1>7, <1>17, <1>a, <1>23
<1>25. Room(cbValue) <= d.heap.size[q]
  BY <1>23
<1>26. Grew(Odd, d, e, q, p, key, cbValue)
  BY <1>a, <1>23, <1>24, <1>25 DEF Grew
<1>27. p # q /\ p \in Items(c)
  BY <1>2, <1>7
<1>28. ASSUME NEW r, ~Apart(e, r), r # q
       PROVE  ~Apart(ch, r) /\ r # p /\ Stays(c, d, r)
  <2>1. ~Apart(ch, r) /\ r # p
    BY <1>1, <1>2, <1>a, <1>27, <1>28
  <2>2. r \in Items(c) /\ r \in Items(new) /\ new.item[r] = c.item[r]
    BY <1>7, <2>1, LinkedItems DEF Sound
  <2> QED
    BY <1>a, <2>1, <2>2 DEF SameItems, Stays
<1>29. ASSUME NEW r, ~Apart(ch, r), r # p
       PROVE  ~Apart(e, r) /\ r # q
  <2>1. ASSUME Apart(e, r) PROVE FALSE
    <3>1. PICK j \in k..Len(s) : r = s[j] /\ \A i \in 1..Len(u) : u[i] # r
      BY <1>1, <1>29, <1>a, <2>1
    <3>2. j # k
      BY <1>2, <1>29, <3>1
    <3>3. PICK m \in 1..(Len(s) - k) : j = k + m
      <4>1. j - k \in 1..(Len(s) - k) /\ j = k + (j - k)
        BY <1>2, <3>1, <3>2
      <4> QED
        BY <4>1
    <3>4. t[m] = s[j] /\ m \in 1..Len(t)
      BY <1>14, <3>3
    <3>5. (m + 1) - 1 = m /\ m + 1 \in 1..Len(u) /\ m + 1 # 1
      BY <1>2, <1>14, <1>18, <3>3
    <3>6. u[m + 1] = t[m]
      BY <1>18, <3>5
    <3> QED
      BY <3>1, <3>4, <3>5, <3>6
  <2>2. r # q
    BY <1>7, <1>29
  <2> QED
    BY <2>1, <2>2
<1>30. OnlyOld(c, ch, d, e, p, q) /\ AllOld(ch, e, p, q)
  BY <1>28, <1>29, Zenon DEF OnlyOld, AllOld
<1>31. Replaced(c, ch, d, e, p, q)
  <2>1. /\ d.item[q].value = new.item[q].value /\ d.item[q].expire = new.item[q].expire
        /\ d.item[q].cas = new.item[q].cas
    BY <1>17, <1>a DEF SameItems
  <2> QED
    BY <1>7, <1>a, <1>30, <2>1 DEF Replaced
<1> QED
  BY <1>12, <1>23, <1>26, <1>31

\* g is what growAndReplace returns for the item p of c when it succeeds.
Grows(Odd, c, ch, p, cbValue, g) ==
  /\ \E e : /\ Grew(Odd, g.cache, e, g.item, p, c.item[p].key, cbValue)
            /\ Replaced(c, ch, g.cache, e, p, g.item)
  /\ g.cache.cas = c.cas + 1

(* growAndReplace, unless it runs out of memory                            *)
LEMMA GrowSound ==
  ASSUME NEW Odd, NEW c, NEW ch, Sound(Odd, c, ch), NEW b \in Bins, NEW k \in 1..Len(ch[b]),
         NEW p, p = ch[b][k], NEW cbValue \in Nat,
         NEW g, g = GrowAndReplace(c, b, p, Before(ch[b], k), cbValue),
         g.item # NULL
  PROVE  Grows(Odd, c, ch, p, cbValue, g)
<1>1. PICK a : a = AllocItem(c, cbValue)
  OBVIOUS
<1>2. PICK h, q : h = a.heap /\ q = a.ptr
  OBVIOUS
<1>3. PICK rec : rec = Copied(c, p)
  OBVIOUS
<1>4. PICK new : new = [PutItem(c, h, q, rec) EXCEPT !.cas = c.cas + 1]
  OBVIOUS
<1>5. PICK x : x = Stamped(c, p)
  OBVIOUS
<1>6. PICK y : y = Link(Unlink(new, b, p, Before(ch[b], k)), b, q, Before(ch[b], k))
  OBVIOUS
<1>7. g = IF cbValue <= Capacity(c, p) THEN [cache |-> x, item |-> p]
          ELSE IF q = NULL THEN [cache |-> c, item |-> NULL]
          ELSE [cache |-> y, item |-> q]
  BY <1>1, <1>2, <1>3, <1>4, <1>5, <1>6 DEF GrowAndReplace, Stamped, Copied
<1>8. CASE cbValue <= Capacity(c, p)
  <2>1. g.cache = x /\ g.item = p
    BY <1>7, <1>8
  <2>2. /\ Grew(Odd, x, ch, p, p, c.item[p].key, cbValue) /\ x.cas = c.cas + 1
        /\ Replaced(c, ch, x, ch, p, p)
    BY <1>5, <1>8, GrowInPlace
  <2> QED
    BY <2>1, <2>2 DEF Grows
<1>9. CASE ~(cbValue <= Capacity(c, p))
  <2>1. g.cache = y /\ g.item = q /\ q # NULL
    BY <1>7, <1>9
  <2>2. Room(cbValue) \in Nat /\ Allocated(c.heap, h, q, Room(cbValue))
    BY <1>1, <1>2, <2>1, AllocItemProperties DEF Room
  <2>3. PICK n \in Nat : n = Room(cbValue)
    BY <2>2
  <2>4. p \in Items(c) /\ Store(c)
    BY DEF Sound, Shape
  <2>5. /\ rec \in ItemRecord /\ rec.cas = c.cas
        /\ rec.next = c.item[p].next /\ rec.key = c.item[p].key
        /\ rec.value = c.item[p].value /\ rec.expire = c.item[p].expire
        /\ Fitting(Room(cbValue), rec.value)
    BY <1>3, <1>9, <2>4, CopyProperties
  <2>6. Holds(Odd, c, ch, h, q, rec, new)
    BY <1>4, <2>2, <2>3, <2>5, PutSound
  <2>7. Room(cbValue) <= h.size[q]
    BY <2>2 DEF Allocated
  <2>8. /\ \E e : /\ Grew(Odd, y, e, q, p, c.item[p].key, cbValue)
                 /\ Replaced(c, ch, y, e, p, q)
        /\ y.cas = c.cas + 1
    BY <1>6, <2>5, <2>6, <2>7, GrowMoved
  <2> QED
    BY <2>1, <2>8 DEF Grows
<1> QED
  BY <1>8, <1>9

-----------------------------------------------------------------------------
(* Values                                                                  *)

(* The powers of the base are positive.                                    *)
LEMMA Powers == \A k \in 0..UINT64_STRING_LENGTH : PowerOfBase[k] \in Nat \ {0}
<1>1. PICK n \in Nat : n = UINT64_STRING_LENGTH
  BY CacheAssumption
<1>2. PICK B \in Nat \ {0} : B = Base
  BY CacheAssumption
<1> DEFINE S == Nat \ {0}
           step == [x \in S |-> B * x]
           g == [i \in 1..n |-> step]
           Shown(f) == f = [k \in 0..n |-> IF k = 0 THEN 1 ELSE B * f[k - 1]]
<1>3. step \in [S -> S]
  OBVIOUS
<1>4. 1 \in S
  OBVIOUS
<1> HIDE DEF S
<1>5. g \in [1..n -> [S -> S]]
  <2> HIDE DEF step
  <2> QED
    BY <1>3
<1> HIDE DEF g
<1>6. PICK f \in [0..n -> S] : f[0] = 1 /\ \A i \in 1..n : f[i] = g[i][f[i - 1]]
  <2>1. \E f : Iterates(S, 1, n, g, f)
    BY <1>4, <1>5, Recursion, Zenon
  <2> QED
    BY <2>1 DEF Iterates
<1>7. Shown(f)
  <2>1. ASSUME NEW k \in 0..n PROVE f[k] = IF k = 0 THEN 1 ELSE B * f[k - 1]
    <3>1. CASE k = 0
      BY <1>6, <3>1
    <3>2. CASE k # 0
      <4>1. k \in 1..n /\ k - 1 \in 0..n
        BY <3>2
      <4>2. f[k - 1] \in S
        BY <4>1
      <4>3. f[k] = step[f[k - 1]]
        BY <1>6, <4>1 DEF g
      <4> QED
        BY <3>2, <4>2, <4>3
    <3> QED
      BY <3>1, <3>2
  <2> QED
    BY <2>1
<1>8. PowerOfBase = CHOOSE e : Shown(e)
  BY <1>1, <1>2 DEF PowerOfBase
<1>9. PICK e : e = PowerOfBase
  OBVIOUS
<1>10. Shown(e)
  <2> HIDE DEF Shown
  <2> QED
    BY <1>7, <1>8, <1>9
<1> DEFINE Bad == {k \in 0..n : e[k] \notin Nat \ {0}}
<1>11. Bad = {}
  <2> SUFFICES ASSUME Bad # {} PROVE FALSE
    OBVIOUS
  <2>1. Bad \in SUBSET Nat
    OBVIOUS
  <2>2. PICK k \in Bad : \A j \in Bad : k <= j
    BY <2>1, LeastMember
  <2>3. k \in 0..n /\ e[k] \notin Nat \ {0}
    OBVIOUS
  <2>4. k # 0
    BY <1>10, <2>3
  <2>5. k - 1 \in 0..n /\ ~(k <= k - 1)
    BY <2>3, <2>4
  <2>6. e[k - 1] \in Nat \ {0}
    BY <2>2, <2>5
  <2>7. e[k] = B * e[k - 1]
    BY <1>10, <2>3, <2>4
  <2> QED
    BY <2>3, <2>6, <2>7
<1> QED
  BY <1>1, <1>9, <1>11

(* StringToInteger returns a number, whatever the bytes.                   *)
LEMMA NumberType ==
  ASSUME NEW value \in Seq(Bytes)
  PROVE  Number(value) \in Nat
<1>1. PICK n \in Nat : n = Len(value)
  OBVIOUS
<1>2. PICK B \in Nat \ {0} : B = Base
  BY CacheAssumption
<1>3. PICK M \in Nat \ {0} : M = Modulus
  BY CacheAssumption, Powers DEF Modulus
<1>4. \A i \in 1..n : value[i] \in Nat
  BY <1>1, <1>2 DEF Bytes
<1> DEFINE step(i) == [x \in Nat |-> (x * B + value[i]) % M]
           g == [i \in 1..n |-> step(i)]
           Shown(f) == f = [i \in 0..n |-> IF i = 0 THEN 0
                                           ELSE (f[i - 1] * B + value[i]) % M]
<1>5. ASSUME NEW i \in 1..n PROVE step(i) \in [Nat -> Nat]
  <2>1. ASSUME NEW x \in Nat PROVE (x * B + value[i]) % M \in Nat
    <3>1. x * B \in Nat
      OBVIOUS
    <3> QED
      BY <1>4, <3>1
  <2> QED
    BY <2>1
<1>6. g \in [1..n -> [Nat -> Nat]]
  <2> HIDE DEF step
  <2> QED
    BY <1>5
<1> HIDE DEF g
<1>7. PICK f \in [0..n -> Nat] : f[0] = 0 /\ \A i \in 1..n : f[i] = g[i][f[i - 1]]
  <2> DEFINE S == Nat
  <2>1. 0 \in S
    OBVIOUS
  <2>2. g \in [1..n -> [S -> S]]
    BY <1>6
  <2> HIDE DEF S
  <2>3. \E f : Iterates(S, 0, n, g, f)
    BY <2>1, <2>2, Recursion, Zenon
  <2> QED
    BY <2>3 DEF Iterates, S
<1>8. Shown(f)
  <2>1. ASSUME NEW i \in 0..n
        PROVE  f[i] = IF i = 0 THEN 0 ELSE (f[i - 1] * B + value[i]) % M
    <3>1. CASE i = 0
      BY <1>7, <3>1
    <3>2. CASE i # 0
      <4>1. i \in 1..n /\ i - 1 \in 0..n
        BY <3>2
      <4>2. f[i - 1] \in Nat
        BY <4>1
      <4>3. f[i] = step(i)[f[i - 1]]
        BY <1>7, <4>1 DEF g
      <4> QED
        BY <3>2, <4>2, <4>3
    <3> QED
      BY <3>1, <3>2
  <2> QED
    BY <2>1
<1>9. PICK e : e = CHOOSE x : Shown(x)
  OBVIOUS
<1>10. Shown(e)
  <2> HIDE DEF Shown
  <2> QED
    BY <1>8, <1>9
<1>11. Number(value) = IF \E i \in DOMAIN value : value[i] = Base THEN 0 ELSE e[n]
  BY <1>1, <1>2, <1>3, <1>9 DEF Number
<1> DEFINE Bad == {i \in 0..n : e[i] \notin Nat}
<1>12. Bad = {}
  <2> SUFFICES ASSUME Bad # {} PROVE FALSE
    OBVIOUS
  <2>1. Bad \in SUBSET Nat
    OBVIOUS
  <2>2. PICK k \in Bad : \A j \in Bad : k <= j
    BY <2>1, LeastMember
  <2>3. k \in 0..n /\ e[k] \notin Nat
    OBVIOUS
  <2>4. k # 0
    BY <1>10, <2>3
  <2>5. k \in 1..n /\ k - 1 \in 0..n /\ ~(k <= k - 1)
    BY <2>3, <2>4
  <2>6. e[k - 1] \in Nat
    BY <2>2, <2>5
  <2>7. e[k] = (e[k - 1] * B + value[k]) % M
    BY <1>10, <2>3, <2>4
  <2>8. PICK x \in Nat : x = e[k - 1] * B
    BY <2>6
  <2>9. (x + value[k]) % M \in Nat
    BY <1>4, <2>5
  <2> QED
    BY <2>3, <2>7, <2>8, <2>9
<1>13. e[n] \in Nat
  BY <1>12
<1> QED
  BY <1>11, <1>13

(* IntegerToString writes bytes, as many as the longest number at most.    *)
LEMMA DigitsType ==
  ASSUME NEW n \in Nat
  PROVE  Digits(n) \in Seq(Bytes) /\ Len(Digits(n)) <= UINT64_STRING_LENGTH
<1>1. PICK U \in Nat \ {0} : U = UINT64_STRING_LENGTH
  BY CacheAssumption
<1>2. PICK S : S = {1} \cup {i \in 1..U : PowerOfBase[i - 1] <= n}
  OBVIOUS
<1>3. S \subseteq 1..U /\ 1 \in S
  BY <1>2
<1>4. PICK l : l = Max(S)
  OBVIOUS
<1>5. l \in S
  <2> DEFINE T == {j \in 0..U : U - j \in S}
  <2>1. T \in SUBSET Nat
    OBVIOUS
  <2>2. U - 1 \in T
    <3>1. U - 1 \in 0..U /\ U - (U - 1) = 1
      OBVIOUS
    <3> QED
      BY <1>3, <3>1
  <2>3. PICK j \in T : \A i \in T : j <= i
    BY <2>1, <2>2, LeastMember
  <2>4. j \in 0..U /\ U - j \in S
    OBVIOUS
  <2>5. ASSUME NEW x \in S PROVE U - j >= x
    <3>1. U - x \in 0..U /\ U - (U - x) = x
      BY <1>3
    <3>2. U - x \in T
      BY <3>1
    <3> HIDE DEF T
    <3>3. j <= U - x
      BY <2>3, <3>2
    <3> QED
      BY <1>3, <2>4, <3>3
  <2>6. \E y \in S : \A x \in S : y >= x
    BY <2>4, <2>5
  <2> QED
    BY <1>4, <2>6 DEF Max
<1>6. l \in 1..U
  BY <1>3, <1>5
<1>7. PICK B \in Nat \ {0} : B = Base
  BY CacheAssumption
<1>8. ASSUME NEW i \in 1..l PROVE (n \div PowerOfBase[l - i]) % Base \in Bytes
  <2>1. l - i \in 0..U
    BY <1>6
  <2>2. PICK d \in Nat \ {0} : d = PowerOfBase[l - i]
    BY <1>1, <2>1, Powers
  <2>3. PICK x \in Nat : x = n \div d
    OBVIOUS
  <2>4. x % B \in 0..(B - 1)
    OBVIOUS
  <2> QED
    BY <1>7, <2>2, <2>3, <2>4 DEF Bytes
<1>9. Digits(n) = [i \in 1..l |-> (n \div PowerOfBase[l - i]) % Base]
  BY <1>1, <1>2, <1>4 DEF Digits
<1>10. PICK v : v = Digits(n)
  OBVIOUS
<1>11. v \in [1..l -> Bytes]
  BY <1>8, <1>9, <1>10
<1>12. v \in Seq(Bytes) /\ Len(v) = l
  BY <1>6, <1>11
<1> QED
  BY <1>1, <1>6, <1>10, <1>12

(* What append leaves in an item that moves is as long as both values.     *)
LEMMA AppendedType ==
  ASSUME NEW old \in Seq(Bytes), NEW data \in Seq(Bytes),
         NEW junk \in [1..Len(data) -> Bytes]
  PROVE  /\ MisplacedAppend(old, data, junk) \in Seq(Bytes)
         /\ Len(MisplacedAppend(old, data, junk)) <= Len(old) + Len(data)
<1>1. PICK m \in Nat : m = Len(old)
  OBVIOUS
<1>2. PICK n \in Nat : n = Len(data)
  OBVIOUS
<1>3. PICK k \in Nat : k = Max({0, n - m}) /\ k = IF n <= m THEN 0 ELSE n - m
  <2>1. Max({0, n - m}) = IF n <= m THEN 0 ELSE n - m
    <3> DEFINE S == {0, n - m}
               w == IF n <= m THEN 0 ELSE n - m
    <3>1. w \in S /\ \A y \in S : w >= y
      OBVIOUS
    <3>2. \A x \in S : (\A y \in S : x >= y) => x = w
      OBVIOUS
    <3> HIDE DEF S, w
    <3>3. Max(S) = w
      BY <3>1, <3>2 DEF Max
    <3> QED
      BY <3>3 DEF S, w
  <2> QED
    BY <2>1
<1>4. PICK a : a = SubSeq(old, 1, m - n)
  OBVIOUS
<1>5. PICK b : b = SubSeq(data, k + 1, n)
  OBVIOUS
<1>6. a \in Seq(Bytes) /\ Len(a) = IF n <= m THEN m - n ELSE 0
  <2>1. \A i \in 1..(m - n) : old[i] \in Bytes
    BY <1>1, <1>2
  <2>2. /\ a \in Seq(Bytes)
        /\ Len(a) = IF 1 <= m - n THEN m - n - 1 + 1 ELSE 0
    BY <1>4, <2>1, SubSeqProperties
  <2> QED
    BY <2>2
<1>7. b \in Seq(Bytes) /\ Len(b) = n - k
  <2>1. k <= n
    BY <1>3
  <2>2. \A i \in (k + 1)..n : data[i] \in Bytes
    BY <1>2, <2>1
  <2>3. /\ b \in Seq(Bytes)
        /\ Len(b) = IF k + 1 <= n THEN n - (k + 1) + 1 ELSE 0
    BY <1>5, <2>2, SubSeqProperties
  <2> QED
    BY <2>1, <2>3
<1>8. junk \in Seq(Bytes) /\ Len(junk) = n
  BY <1>2
<1>9. MisplacedAppend(old, data, junk) = a \o b \o junk
  BY <1>1, <1>2, <1>3, <1>4, <1>5 DEF MisplacedAppend
<1>10. PICK ab : ab = a \o b
  OBVIOUS
<1>11. ab \in Seq(Bytes) /\ Len(ab) = Len(a) + Len(b)
  BY <1>6, <1>7, <1>10, ConcatProperties
<1>12. ab \o junk \in Seq(Bytes) /\ Len(ab \o junk) = Len(ab) + Len(junk)
  BY <1>8, <1>11, ConcatProperties
<1>13. Len(ab \o junk) <= m + n
  BY <1>3, <1>6, <1>7, <1>8, <1>11, <1>12
<1> QED
  BY <1>1, <1>2, <1>9, <1>10, <1>12, <1>13

-----------------------------------------------------------------------------
(* Steps                                                                   *)

\* What the caller of growAndReplace writes to the item.
Filled(d, q, item) ==
  [d EXCEPT !.item[q].key = item.key,
            !.item[q].value = item.value,
            !.item[q].expire = item.expire]

\* What the chains lead to is the same in d and w, but for the new fields of q.
Edited(d, e, w, q, key, value, expire) ==
  /\ Reads(w, q, key, value, expire, d.item[q].cas)
  /\ \A r : ~Apart(e, r) /\ r # q => Stays(d, w, r)

(* There is room for what is written, in the old block or in the new one,  *)
(* and the old one may be freed.                                           *)
LEMMA FillSound ==
  ASSUME NEW Odd, NEW d, NEW e, NEW q, NEW p, NEW key, NEW cbValue \in Nat,
         Grew(Odd, d, e, q, p, key, cbValue), ~Apart(e, q),
         NEW item, item.key \in Keys \cup {Garbled}, item.key \in {key} \cup Odd,
         item.value \in Seq(Bytes), Len(item.value) <= cbValue, item.expire \in Nat,
         NEW w, w = Filled(d, q, item)
  PROVE  /\ Sound(Odd, w, e) /\ w.cas = d.cas
         /\ Edited(d, e, w, q, item.key, item.value, item.expire)
         /\ q # p => /\ Sound(Odd, FreeItem(w, p), e) /\ FreeItem(w, p).cas = d.cas
                     /\ Edited(d, e, FreeItem(w, p), q, item.key, item.value, item.expire)
<1>1. /\ Sound(Odd, d, e) /\ q \in Items(d) /\ d.item[q].key = key
      /\ Room(cbValue) <= d.heap.size[q]
      /\ q # p => p \in Items(d) /\ Apart(e, p)
  BY DEF Grew
<1>2. PICK h, bin, items, cas :
        d = [heap |-> h, bin |-> bin, item |-> items, cas |-> cas]
  BY <1>1 DEF Sound, Store
<1>3. d.heap = h /\ d.bin = bin /\ d.item = items /\ d.cas = cas
  BY <1>2
<1>4. /\ d.item \in [Items(d) -> ItemRecord] /\ d.cas \in Nat \ {0}
      /\ d.item[q] \in ItemRecord /\ d.item[q].cas < d.cas
      /\ d.heap.size[q] \in Nat
  BY <1>1 DEF Sound, Store, HeapOK
<1>5. PICK k, v, x : k = item.key /\ v = item.value /\ x = item.expire
  OBVIOUS
<1>6. /\ k \in Keys \cup {Garbled} /\ k \in {d.item[q].key} \cup Odd
      /\ v \in Seq(Bytes) /\ x \in Nat
  BY <1>1, <1>4, <1>5 DEF ItemRecord
<1>7. PICK rec : rec = [d.item[q] EXCEPT !.key = k, !.value = v, !.expire = x]
  OBVIOUS
<1>8. /\ rec \in ItemRecord /\ rec.cas = d.item[q].cas
      /\ rec.next = d.item[q].next /\ rec.key = k /\ rec.value = v /\ rec.expire = x
  BY <1>4, <1>6, <1>7 DEF ItemRecord
<1>9. Fitting(d.heap.size[q], rec.value)
  <2>1. KeyLength \in Nat /\ HeaderSize \in Nat
    BY CacheAssumption
  <2>2. Align(KeyLength) \in Nat
    BY <2>1, AlignGrows
  <2>3. PICK l \in Nat : l = Len(v)
    BY <1>6
  <2>4. l <= cbValue
    BY <1>5, <2>3
  <2> QED
    BY <1>1, <1>4, <1>8, <2>1, <2>2, <2>3, <2>4 DEF Fitting, Room
<1>10. w = Written(d, q, rec, cas)
  <2>1. [[[items EXCEPT ![q].key = k] EXCEPT ![q].value = v] EXCEPT ![q].expire = x]
          = [items EXCEPT ![q] = rec]
    <3>1. PICK a : a = [items EXCEPT ![q].key = k]
      OBVIOUS
    <3>2. PICK b : b = [a EXCEPT ![q].value = v]
      OBVIOUS
    <3>3. PICK f : f = [b EXCEPT ![q].expire = x]
      OBVIOUS
    <3>4. PICK n : n = [items EXCEPT ![q] = rec]
      OBVIOUS
    <3>5. /\ a[q] = [items[q] EXCEPT !.key = k]
          /\ DOMAIN a = Items(d) /\ a = [y \in Items(d) |-> a[y]]
          /\ \A y \in Items(d) : y # q => a[y] = items[y]
      BY <1>1, <1>3, <1>4, <3>1
    <3>6. /\ b[q] = [a[q] EXCEPT !.value = v]
          /\ DOMAIN b = Items(d) /\ b = [y \in Items(d) |-> b[y]]
          /\ \A y \in Items(d) : y # q => b[y] = items[y]
      BY <1>1, <3>2, <3>5
    <3>7. /\ f[q] = [b[q] EXCEPT !.expire = x]
          /\ f = [y \in Items(d) |-> f[y]]
          /\ \A y \in Items(d) : y # q => f[y] = items[y]
      BY <1>1, <3>3, <3>6
    <3>8. f[q] = rec
      BY <1>3, <1>4, <1>6, <1>7, <3>5, <3>6, <3>7 DEF ItemRecord
    <3>9. n = [y \in Items(d) |-> f[y]]
      BY <1>1, <1>3, <1>4, <3>4, <3>7, <3>8
    <3> QED
      BY <3>1, <3>2, <3>3, <3>4, <3>7, <3>9
  <2>2. w = [heap |-> h, bin |-> bin,
             item |-> [[[items EXCEPT ![q].key = k] EXCEPT ![q].value = v]
                         EXCEPT ![q].expire = x],
             cas |-> cas]
    BY <1>2, <1>5 DEF Filled
  <2> QED
    BY <1>3, <2>1, <2>2 DEF Written
<1>11. /\ Sound(Odd, w, e) /\ w.cas = cas /\ Items(w) = Items(d)
       /\ \A r \in Items(d) : w.item[r] = IF r = q THEN rec ELSE d.item[r]
  <2>1. cas \in Nat /\ d.cas <= cas /\ rec.cas < cas /\ rec.key \in {d.item[q].key} \cup Odd
    BY <1>3, <1>4, <1>6, <1>8
  <2>2. Writable(Odd, d, q, rec, cas)
    BY <1>8, <1>9, <2>1 DEF Writable
  <2>3. rec \in ItemRecord
    BY <1>8
  <2>4. /\ Sound(Odd, w, e) /\ w.cas = cas /\ Items(w) = Items(d)
        /\ Rewritten(d, w, q, rec)
    BY <1>1, <1>10, <2>1, <2>2, <2>3, WriteSound, Zenon
  <2> QED
    BY <2>4 DEF Rewritten
<1>13. Edited(d, e, w, q, k, v, x)
  <2>1. Reads(w, q, k, v, x, d.item[q].cas)
    BY <1>1, <1>8, <1>11 DEF Reads
  <2>2. ASSUME NEW r, ~Apart(e, r), r # q PROVE Stays(d, w, r)
    <3>1. r \in Items(d)
      BY <1>1, <2>2, LinkedItems DEF Sound
    <3> QED
      BY <1>11, <2>2, <3>1 DEF Stays
  <2> QED
    BY <2>1, <2>2, Zenon DEF Edited
<1>12. ASSUME q # p
       PROVE  /\ Sound(Odd, FreeItem(w, p), e) /\ FreeItem(w, p).cas = d.cas
              /\ Edited(d, e, FreeItem(w, p), q, k, v, x)
  <2>1. PICK z : z = FreeItem(w, p)
    OBVIOUS
  <2>2. p \in Items(w) /\ Apart(e, p)
    BY <1>1, <1>11, <1>12
  <2>3. /\ Sound(Odd, z, e) /\ z.cas = w.cas
        /\ \A r \in Items(z) : r \in Items(w) /\ z.item[r] = w.item[r]
    BY <1>11, <2>1, <2>2, FreeSound
  <2>4. \A r : ~Apart(e, r) => z.item[r] = w.item[r]
    BY <2>3, LinkedItems DEF Sound
  <2>5. Edited(d, e, z, q, k, v, x)
    BY <1>12, <1>13, <2>4 DEF Edited, Reads, Stays
  <2> QED
    BY <1>3, <1>11, <2>1, <2>3, <2>5
<1> QED
  BY <1>3, <1>5, <1>11, <1>12, <1>13

\* f is what the search for the key ends with: position k of chain b.
Search(c, ch, key, f, b, k) ==
  /\ b \in Bins /\ b = HashOf[key] /\ k \in 1..(Len(ch[b]) + 1)
  /\ \A i \in 1..(k - 1) : c.item[ch[b][i]].key # key
  /\ f.previous = Before(ch[b], k)
  /\ f.item # NULL => /\ k \in 1..Len(ch[b]) /\ f.item = ch[b][k]
                      /\ f.item \in Items(c) /\ c.item[f.item].key = key
  /\ f.item = NULL => k = Len(ch[b]) + 1

LEMMA SearchEnds ==
  ASSUME NEW Odd, NEW c, NEW ch, Sound(Odd, c, ch), NEW key \in Keys, NEW f, f = Find(c,
         key)
  PROVE  \E b, k : Search(c, ch, key, f, b, k)
<1>1. PICK b \in Bins : b = HashOf[key]
  BY FindPosition
<1>2. PICK k : FoundAt(c, ch[b], key, f, k)
  BY <1>1, FindPosition
<1>3. PICK s \in Seq(Items(c)) : s = ch[b]
  BY DEF Sound, Shape
<1>4. /\ k \in 1..(Len(s) + 1)
      /\ \A i \in 1..(k - 1) : c.item[s[i]].key # key
      /\ f.previous = Before(s, k)
      /\ f.item = IF k = Len(s) + 1 THEN NULL ELSE s[k]
      /\ k # Len(s) + 1 => c.item[s[k]].key = key
  BY <1>2, <1>3 DEF FoundAt
<1>5. f.item # NULL => /\ k \in 1..Len(s) /\ f.item = s[k]
                       /\ f.item \in Items(c) /\ c.item[f.item].key = key
  <2> SUFFICES ASSUME f.item # NULL
               PROVE  /\ k \in 1..Len(s) /\ f.item = s[k]
                      /\ f.item \in Items(c) /\ c.item[f.item].key = key
    OBVIOUS
  <2>1. k # Len(s) + 1
    BY <1>4
  <2>2. k \in 1..Len(s) /\ f.item = s[k] /\ c.item[f.item].key = key
    BY <1>4, <2>1
  <2>3. s[k] \in Items(c)
    BY <2>2
  <2> QED
    BY <2>2, <2>3
<1>6. f.item = NULL => k = Len(s) + 1
  <2>1. Items(c) \subseteq Nat \ {0}
    BY StoreAddressed DEF Sound, Addressed
  <2>2. ASSUME k # Len(s) + 1 PROVE f.item # NULL
    <3>1. k \in 1..Len(s) /\ f.item = s[k]
      BY <1>4, <2>2
    <3>2. s[k] \in Items(c)
      BY <3>1
    <3> QED
      BY <2>1, <3>1, <3>2 DEF NULL
  <2> QED
    BY <2>2
<1>7. Search(c, ch, key, f, b, k)
  BY <1>1, <1>3, <1>4, <1>5, <1>6 DEF Search
<1> QED
  BY <1>7

(* The item found and what its fields hold. *)
LEMMA FoundItem ==
  ASSUME NEW Odd, NEW c, NEW ch, Sound(Odd, c, ch), NEW key \in Keys,
         NEW f, NEW b, NEW k, Search(c, ch, key, f, b, k), f.item # NULL,
         NEW old, old = c.item[f.item]
  PROVE  old \in ItemRecord /\ old.key = key /\ f.item \in Items(c)
<1>1. f.item \in Items(c) /\ old.key = key
  BY DEF Search
<1> QED
  BY <1>1 DEF Sound, Store

(* Naming the key an item has changes nothing. *)
LEMMA SameName ==
  ASSUME NEW old \in ItemRecord, NEW value
  PROVE  [old EXCEPT !.value = value] = [old EXCEPT !.key = old.key, !.value = value]
BY DEF ItemRecord

(* incr and decr write a number over the value, and free nothing. *)
LEMMA NumberSound ==
  ASSUME NEW Odd, NEW d, NEW e, NEW q, NEW p, NEW key, NEW cbValue \in Nat,
         Grew(Odd, d, e, q, p, key, cbValue),
         NEW value \in Seq(Bytes), Len(value) <= cbValue,
         NEW w, w = [d EXCEPT !.item[q].value = value]
  PROVE  /\ Sound(Odd, w, e) /\ w.cas = d.cas
         /\ Edited(d, e, w, q, key, value, d.item[q].expire)
<1>1. /\ Sound(Odd, d, e) /\ q \in Items(d)
      /\ Room(cbValue) <= d.heap.size[q]
      /\ d.item[q].key = key
  BY DEF Grew
<1>2. PICK h, bin, items, cas :
        d = [heap |-> h, bin |-> bin, item |-> items, cas |-> cas]
  BY <1>1 DEF Sound, Store
<1>3. d.heap = h /\ d.bin = bin /\ d.item = items /\ d.cas = cas
  BY <1>2
<1>4. /\ d.item \in [Items(d) -> ItemRecord] /\ d.cas \in Nat \ {0}
      /\ d.item[q] \in ItemRecord /\ d.item[q].cas < d.cas
      /\ d.heap.size[q] \in Nat
  BY <1>1 DEF Sound, Store, HeapOK
<1>5. PICK rec : rec = [d.item[q] EXCEPT !.value = value]
  OBVIOUS
<1>6. /\ rec \in ItemRecord /\ rec.cas = d.item[q].cas
      /\ rec.next = d.item[q].next /\ rec.key = d.item[q].key /\ rec.value = value
      /\ rec.expire = d.item[q].expire
  BY <1>4, <1>5 DEF ItemRecord
<1>7. Fitting(d.heap.size[q], rec.value)
  <2>1. KeyLength \in Nat /\ HeaderSize \in Nat
    BY CacheAssumption
  <2>2. Align(KeyLength) \in Nat
    BY <2>1, AlignGrows
  <2>3. PICK l \in Nat : l = Len(value)
    OBVIOUS
  <2>4. l <= cbValue
    BY <2>3
  <2> QED
    BY <1>1, <1>4, <1>6, <2>1, <2>2, <2>3, <2>4 DEF Fitting, Room
<1>8. w = Written(d, q, rec, cas)
  <2>1. [items EXCEPT ![q].value = value] = [items EXCEPT ![q] = rec]
    BY <1>3, <1>5
  <2>2. w = [heap |-> h, bin |-> bin, item |-> [items EXCEPT ![q].value = value], cas |-> cas]
    BY <1>2
  <2> QED
    BY <1>3, <2>1, <2>2 DEF Written
<1>9. d.cas <= cas /\ rec.cas < cas /\ rec.key \in {d.item[q].key} \cup Odd
  BY <1>3, <1>4, <1>6
<1>10. cas \in Nat
  BY <1>3, <1>4
<1>11. /\ Sound(Odd, w, e) /\ w.cas = cas
       /\ \A r \in Items(d) : w.item[r] = IF r = q THEN rec ELSE d.item[r]
  <2>1. PICK s : s = rec
    OBVIOUS
  <2>2. /\ s \in ItemRecord /\ w = Written(d, q, s, cas)
        /\ Writable(Odd, d, q, s, cas)
    BY <1>6, <1>7, <1>8, <1>9, <2>1 DEF Writable
  <2>3. /\ Sound(Odd, w, e) /\ w.cas = cas /\ Items(w) = Items(d)
        /\ Rewritten(d, w, q, s)
    BY <1>1, <1>10, <2>2, WriteSound, Zenon
  <2> QED
    BY <2>1, <2>3 DEF Rewritten
<1>12. Edited(d, e, w, q, key, value, d.item[q].expire)
  <2>1. Reads(w, q, key, value, d.item[q].expire, d.item[q].cas)
    BY <1>1, <1>6, <1>11 DEF Reads
  <2>2. ASSUME NEW r, ~Apart(e, r), r # q PROVE Stays(d, w, r)
    <3>1. r \in Items(d)
      BY <1>1, <2>2, LinkedItems DEF Sound
    <3> QED
      BY <1>11, <2>2, <3>1 DEF Stays
  <2> QED
    BY <2>1, <2>2, Zenon DEF Edited
<1> QED
  BY <1>3, <1>11, <1>12

-----------------------------------------------------------------------------
(* Where the blocks are                                                    *)

LEMMA SoundChain ==
  ASSUME NEW Odd, NEW c, NEW ch, Sound(Odd, c, ch), NEW b \in Bins
  PROVE  Chain(c, b) = ch[b]
<1>1. Addressed(c) /\ Shape(c, ch)
  BY StoreAddressed DEF Sound
<1> QED
  BY <1>1, ChainIs

LEMMA LinkedIs ==
  ASSUME NEW Odd, NEW c, NEW ch, Sound(Odd, c, ch), NEW p
  PROVE  p \in Linked(c) <=> \E b \in Bins : \E i \in 1..Len(ch[b]) : p = ch[b][i]
<1>1. \A b \in Bins : Chain(c, b) = ch[b] /\ DOMAIN ch[b] = 1..Len(ch[b])
  BY SoundChain DEF Sound, Shape
<1>2. p \in Linked(c) <=> \E b \in Bins : p \in Range(ch[b])
  BY <1>1 DEF Linked
<1>3. \A b \in Bins : p \in Range(ch[b]) <=> \E i \in 1..Len(ch[b]) : p = ch[b][i]
  BY <1>1 DEF Range
<1> QED
  BY <1>2, <1>3

\* q is a block of c that neither a chain nor a free list leads to.
Lost(c, ch, q) == q \in DOMAIN c.heap.size /\ Apart(ch, q) /\ ~IsFree(c.heap, q)

LEMMA LeakedIs ==
  ASSUME NEW Odd, NEW c, NEW ch, Sound(Odd, c, ch), NEW q
  PROVE  q \in Leaked(c) <=> Lost(c, ch, q)
<1>1. q \in Linked(c) <=> ~Apart(ch, q)
  BY LinkedIs DEF Apart
<1>2. q \in OnFreeList(c) <=> IsFree(c.heap, q)
  BY DEF OnFreeList, IsFree, Range
<1> QED
  BY <1>1, <1>2 DEF Leaked, Lost

\* Of the blocks of h, y has been handed out in g, and x given back.
Traded(h, g, x, y) ==
  /\ \A q : q # y => (q \in DOMAIN g.size <=> q \in DOMAIN h.size)
  /\ \A q : q # x /\ q # y => (IsFree(g, q) <=> IsFree(h, q))
  /\ x # y /\ x # NULL => IsFree(g, x)
  /\ x # y /\ y \in DOMAIN h.size => IsFree(h, y)

(* No block is lost when the chains and the heap agree on what has gone    *)
(* and what has come.                                                      *)
LEMMA TradeLosesNothing ==
  ASSUME NEW Odd, NEW c, NEW ch, Sound(Odd, c, ch), NEW d, NEW e, Sound(Odd, d, e),
         NEW x, NEW y,
         OnlyOld(c, ch, d, e, x, y), AllOld(ch, e, x, y),
         x # NULL => ~Apart(ch, x), y # NULL => ~Apart(e, y),
         Traded(c.heap, d.heap, x, y)
  PROVE  Leaked(d) = Leaked(c)
<1>1. ASSUME NEW q PROVE Lost(d, e, q) <=> Lost(c, ch, q)
  <2>1. CASE q = NULL
    <3>1. NULL \notin DOMAIN c.heap.size /\ NULL \notin DOMAIN d.heap.size
      BY DEF Sound, Store, HeapOK, NULL
    <3> QED
      BY <2>1, <3>1 DEF Lost
  <2>2. CASE q # NULL /\ q # x /\ q # y
    <3>1. Apart(e, q) <=> Apart(ch, q)
      BY <2>2, Zenon DEF OnlyOld, AllOld
    <3> QED
      BY <2>2, <3>1, Zenon DEF Lost, Traded
  <2>3. CASE q # NULL /\ q = x /\ q = y
    BY <2>3 DEF Lost
  <2>4. CASE q # NULL /\ q = x /\ q # y
    BY <2>4 DEF Lost, Traded
  <2>5. CASE q # NULL /\ q # x /\ q = y
    BY <2>5 DEF Lost, Traded
  <2> QED
    BY <2>1, <2>2, <2>3, <2>4, <2>5
<1>2. \A q : q \in Leaked(d) <=> q \in Leaked(c)
  BY <1>1, LeakedIs
<1> QED
  BY <1>2

\* The fields of a cache, and none of its items, are what an operation on
\* pointers changes.
Record(c) == c = [heap |-> c.heap, bin |-> c.bin, item |-> c.item, cas |-> c.cas]

LEMMA LinkHeap ==
  ASSUME NEW c, Record(c), NEW b, NEW p, NEW previous
  PROVE  /\ Record(Link(c, b, p, previous))
         /\ Link(c, b, p, previous).heap = c.heap
<1>1. PICK h, bin, item, cas : c = [heap |-> h, bin |-> bin, item |-> item, cas |-> cas]
  BY DEF Record
<1> QED
  BY <1>1 DEF Record, Link

LEMMA UnlinkHeap ==
  ASSUME NEW c, Record(c), NEW b, NEW p, NEW previous
  PROVE  /\ Record(Unlink(c, b, p, previous))
         /\ Unlink(c, b, p, previous).heap = c.heap
BY LinkHeap DEF Unlink

\* An item is put in a block, and the next stamp taken.
Entry(c, h, p, item) == [PutItem(c, h, p, item) EXCEPT !.cas = c.cas + 1]

LEMMA PutHeap ==
  ASSUME NEW c, Record(c), NEW h, NEW p, NEW item,
         NEW d, d = Entry(c, h, p, item)
  PROVE  Record(d) /\ d.heap = h
<1>1. PICK g, bin, items, cas :
        c = [heap |-> g, bin |-> bin, item |-> items, cas |-> cas]
  BY DEF Record
<1>2. PICK new : new = [q \in Items(c) \cup {p} |-> IF q = p THEN item ELSE c.item[q]]
  OBVIOUS
<1>3. PICK r : r = [heap |-> h, bin |-> bin, item |-> new, cas |-> cas + 1]
  OBVIOUS
<1>4. d = r
  <2>1. PICK x : x = PutItem(c, h, p, item)
    OBVIOUS
  <2>2. x = [[c EXCEPT !.heap = h] EXCEPT !.item = new]
    BY <1>2, <2>1 DEF PutItem
  <2>3. x = [heap |-> h, bin |-> bin, item |-> new, cas |-> cas]
    BY <1>1, <2>2
  <2>4. c.cas = cas /\ d = [x EXCEPT !.cas = c.cas + 1]
    BY <1>1, <2>1 DEF Entry
  <2> QED
    BY <1>3, <2>3, <2>4
<1>5. Record(r) /\ r.heap = h
  BY <1>3 DEF Record
<1> QED
  BY <1>4, <1>5

LEMMA FreeHeap ==
  ASSUME NEW c, Record(c), NEW p
  PROVE  FreeItem(c, p).heap = HeapFree(c.heap, p)
<1>1. PICK g, bin, items, cas :
        c = [heap |-> g, bin |-> bin, item |-> items, cas |-> cas]
  BY DEF Record
<1>2. PICK h : h = HeapFree(c.heap, p)
  OBVIOUS
<1> QED
  BY <1>1, <1>2 DEF FreeItem

LEMMA FillHeap ==
  ASSUME NEW c, Record(c), NEW q, NEW item
  PROVE  Record(Filled(c, q, item)) /\ Filled(c, q, item).heap = c.heap
<1>1. PICK h, bin, items, cas :
        c = [heap |-> h, bin |-> bin, item |-> items, cas |-> cas]
  BY DEF Record
<1>2. PICK k, v, t : k = item.key /\ v = item.value /\ t = item.expire
  OBVIOUS
<1>3. PICK new : new = [[[items EXCEPT ![q].key = k] EXCEPT ![q].value = v]
                                                    EXCEPT ![q].expire = t]
  OBVIOUS
<1>4. PICK w : w = Filled(c, q, item)
  OBVIOUS
<1>5. w = [heap |-> h, bin |-> bin,
           item |-> [[[items EXCEPT ![q].key = k] EXCEPT ![q].value = v]
                       EXCEPT ![q].expire = t],
           cas |-> cas]
  BY <1>1, <1>2, <1>4 DEF Filled
<1>6. w = [heap |-> h, bin |-> bin, item |-> new, cas |-> cas]
  BY <1>3, <1>5
<1>7. Record(w) /\ w.heap = h
  BY <1>6 DEF Record
<1> QED
  BY <1>1, <1>4, <1>7

LEMMA ItemBlock ==
  ASSUME NEW Odd, NEW c, NEW ch, Sound(Odd, c, ch), NEW p \in Items(c)
  PROVE  /\ p \in DOMAIN c.heap.size /\ p # NULL
         /\ ~IsFree(c.heap, p) /\ c.heap.size[p] # 0
<1>1. /\ Store(c) /\ HeapOK(c.heap)
  BY DEF Sound, Store
<1>2. p \in DOMAIN c.heap.size /\ ~IsFree(c.heap, p)
  BY <1>1 DEF Store
<1>3. p # NULL
  BY <1>1, <1>2 DEF HeapOK, NULL
<1>4. PICK s, v : s = c.heap.size[p] /\ v = c.item[p].value
  OBVIOUS
<1>5. s \in Nat /\ v \in Seq(Bytes) /\ Fitting(s, v)
  BY <1>1, <1>2, <1>4 DEF Store, HeapOK, ItemRecord
<1>6. KeyLength \in Nat /\ HeaderSize \in Nat \ {0}
  BY CacheAssumption
<1>7. Align(KeyLength) \in Nat /\ Len(v) \in Nat
  BY <1>5, <1>6, AlignGrows
<1>8. s # 0
  BY <1>5, <1>6, <1>7 DEF Fitting
<1> QED
  BY <1>2, <1>3, <1>4, <1>8

(* What an item is freed, put in a block, or moved to another one for.     *)
LEMMA FreeTrades ==
  ASSUME SmallArena, NEW h, HeapOK(h), NEW p \in DOMAIN h.size, ~IsFree(h, p),
         h.size[p] # 0, FreeAsserts(h, p)
  PROVE  Traded(h, HeapFree(h, p), p, NULL)
<1>1. PICK g : g = HeapFree(h, p)
  OBVIOUS
<1>2. g.size = h.size /\ \A q : IsFree(g, q) <=> IsFree(h, q) \/ q = p
  BY <1>1, FreeProperties, FreeReturns
<1>3. NULL \notin DOMAIN h.size
  BY DEF HeapOK, NULL
<1> QED
  BY <1>1, <1>2, <1>3 DEF Traded

LEMMA AllocTrades ==
  ASSUME NEW h, NEW g, NEW q, NEW n, Allocated(h, g, q, n)
  PROVE  Traded(h, g, NULL, q)
BY DEF Allocated, Traded

LEMMA MoveTrades ==
  ASSUME SmallArena, NEW h, NEW g, NEW q, NEW n, Allocated(h, g, q, n),
         NEW p \in DOMAIN h.size, ~IsFree(h, p), h.size[p] # 0, FreeAsserts(h, p)
  PROVE  Traded(h, HeapFree(g, p), p, q)
<1>1. /\ HeapOK(g) /\ DOMAIN g.size = DOMAIN h.size \cup {q}
      /\ g.size[p] = h.size[p]
      /\ \A r : IsFree(g, r) => IsFree(h, r) /\ r # q
      /\ \A r : IsFree(h, r) /\ r # q => IsFree(g, r)
      /\ q \in DOMAIN h.size => IsFree(h, q)
  BY DEF Allocated
<1>2. /\ p \in DOMAIN g.size /\ ~IsFree(g, p) /\ g.size[p] # 0 /\ FreeAsserts(g, p)
  BY <1>1 DEF FreeAsserts
<1>3. PICK f : f = HeapFree(g, p)
  OBVIOUS
<1>4. f.size = g.size /\ \A r : IsFree(f, r) <=> IsFree(g, r) \/ r = p
  BY <1>1, <1>2, <1>3, FreeProperties, FreeReturns
<1>5. \A r : r # q => (r \in DOMAIN f.size <=> r \in DOMAIN h.size)
  BY <1>1, <1>4
<1>6. \A r : r # p /\ r # q => (IsFree(f, r) <=> IsFree(h, r))
  BY <1>1, <1>4, Zenon
<1> QED
  BY <1>1, <1>3, <1>4, <1>5, <1>6 DEF Traded

(* Discarding an item gives its block back.                                *)
LEMMA DiscardBalanced ==
  ASSUME SmallArena, NEW Odd, NEW c, NEW ch, Sound(Odd, c, ch), NEW b \in Bins,
         NEW k \in 1..Len(ch[b]),
         NEW p, p = ch[b][k], FreeAsserts(c.heap, p),
         NEW d, d = FreeItem(Unlink(c, b, p, Before(ch[b], k)), p),
         NEW e, Discarded(Odd, c, ch, b, k, d, e)
  PROVE  Leaked(d) = Leaked(c)
<1>1. Record(c)
  BY DEF Sound, Store, Record
<1>2. PICK u : u = Unlink(c, b, p, Before(ch[b], k))
  OBVIOUS
<1>3. Record(u) /\ u.heap = c.heap
  BY <1>1, <1>2, UnlinkHeap
<1>4. d.heap = HeapFree(c.heap, p)
  BY <1>2, <1>3, FreeHeap
<1>5. p \in Items(c) /\ ~Apart(ch, p)
  BY DEF Sound, Shape, Apart
<1>6. /\ p \in DOMAIN c.heap.size /\ p # NULL
      /\ ~IsFree(c.heap, p) /\ c.heap.size[p] # 0 /\ HeapOK(c.heap)
  BY <1>5, ItemBlock DEF Sound, Store
<1>7. Traded(c.heap, d.heap, p, NULL)
  BY <1>4, <1>6, FreeTrades
<1>8. /\ Sound(Odd, d, e) /\ OnlyOld(c, ch, d, e, p, NULL) /\ AllOld(ch, e, p, NULL)
  BY DEF Discarded
<1> QED
  BY <1>5, <1>7, <1>8, TradeLosesNothing

\* The heap after growAndReplace has found room in the block of p, or in q.
GrownHeap(c, g, p, q) ==
  /\ Record(g)
  /\ \/ q = p /\ g.heap = c.heap
     \/ \E n : Allocated(c.heap, g.heap, q, n)

LEMMA GrowHeap ==
  ASSUME NEW Odd, NEW c, NEW ch, Sound(Odd, c, ch), NEW b, NEW p, NEW previous,
         NEW cbValue \in Nat,
         NEW g, g = GrowAndReplace(c, b, p, previous, cbValue), g.item # NULL
  PROVE  GrownHeap(c, g.cache, p, g.item)
<1>1. Record(c)
  BY DEF Sound, Store, Record
<1>2. PICK a : a = AllocItem(c, cbValue)
  OBVIOUS
<1>3. PICK h, q : h = a.heap /\ q = a.ptr
  OBVIOUS
<1>4. PICK rec : rec = Copied(c, p)
  OBVIOUS
<1>5. PICK new : new = Entry(c, h, q, rec)
  OBVIOUS
<1>6. PICK x : x = Stamped(c, p)
  OBVIOUS
<1>7. PICK u : u = Unlink(new, b, p, previous)
  OBVIOUS
<1>8. PICK y : y = Link(u, b, q, previous)
  OBVIOUS
<1>9. g = IF cbValue <= Capacity(c, p) THEN [cache |-> x, item |-> p]
          ELSE IF q = NULL THEN [cache |-> c, item |-> NULL]
          ELSE [cache |-> y, item |-> q]
  BY <1>2, <1>3, <1>4, <1>5, <1>6, <1>7, <1>8 DEF GrowAndReplace, Stamped, Copied, Entry
<1>10. CASE cbValue <= Capacity(c, p)
  <2>1. g.cache = x /\ g.item = p
    BY <1>9, <1>10
  <2>2. Record(x) /\ x.heap = c.heap
    <3>1. PICK f, bin, items, cas :
            c = [heap |-> f, bin |-> bin, item |-> items, cas |-> cas]
      BY <1>1 DEF Record
    <3>2. PICK z : z = [items EXCEPT ![p].cas = cas]
      OBVIOUS
    <3>3. x = [heap |-> f, bin |-> bin, item |-> z, cas |-> cas + 1]
      BY <1>6, <3>1, <3>2 DEF Stamped
    <3> QED
      BY <3>1, <3>3 DEF Record
  <2> QED
    BY <2>1, <2>2 DEF GrownHeap
<1>11. CASE ~(cbValue <= Capacity(c, p))
  <2>1. g.cache = y /\ g.item = q /\ q # NULL
    <3>1. CASE q = NULL
      <4>1. g = [cache |-> c, item |-> NULL]
        BY <1>9, <1>11, <3>1
      <4> QED
        BY <4>1
    <3>2. CASE q # NULL
      <4>1. g = [cache |-> y, item |-> q]
        BY <1>9, <1>11, <3>2
      <4> QED
        BY <3>2, <4>1
    <3> QED
      BY <3>1, <3>2
  <2>2. Record(new) /\ new.heap = h
    BY <1>1, <1>5, PutHeap
  <2>3. Record(u) /\ u.heap = h
    BY <1>7, <2>2, UnlinkHeap
  <2>4. Record(y) /\ y.heap = h
    BY <1>8, <2>3, LinkHeap
  <2>5. PICK n : Allocated(c.heap, h, q, n)
    BY <1>2, <1>3, <2>1, AllocItemProperties
  <2> QED
    BY <2>1, <2>4, <2>5 DEF GrownHeap
<1> QED
  BY <1>10, <1>11

(* Rewriting an item, with its old block given back if it has moved.       *)
LEMMA RewriteBalanced ==
  ASSUME SmallArena, NEW Odd, NEW c, NEW ch, Sound(Odd, c, ch), NEW p, p \in Items(c),
         ~Apart(ch, p),
         NEW d, NEW q, GrownHeap(c, d, p, q), q # NULL,
         NEW item, NEW w, w = Filled(d, q, item), NEW z,
         \/ q = p /\ z = w
         \/ q # p /\ FreeAsserts(c.heap, p) /\ z = FreeItem(w, p),
         NEW e, Sound(Odd, z, e), ~Apart(e, q), OnlyOld(c, ch, z, e, p, q), AllOld(ch, e,
         p, q)
  PROVE  Leaked(z) = Leaked(c)
<1>1. /\ p \in DOMAIN c.heap.size /\ p # NULL
      /\ ~IsFree(c.heap, p) /\ c.heap.size[p] # 0
  BY ItemBlock
<1>2. Record(w) /\ w.heap = d.heap
  BY FillHeap DEF GrownHeap
<1>3. CASE q = p /\ z = w
  <2>1. z.heap = c.heap
    <3>1. ASSUME NEW n PROVE ~Allocated(c.heap, d.heap, q, n)
      BY <1>1, <1>3 DEF Allocated
    <3> QED
      BY <1>2, <1>3, <3>1 DEF GrownHeap
  <2>2. Traded(c.heap, z.heap, p, q)
    BY <1>3, <2>1 DEF Traded
  <2> QED
    BY <1>1, <2>2, TradeLosesNothing
<1>4. CASE q # p /\ FreeAsserts(c.heap, p) /\ z = FreeItem(w, p)
  <2>1. z.heap = HeapFree(d.heap, p)
    BY <1>2, <1>4, FreeHeap
  <2>2. PICK n : Allocated(c.heap, d.heap, q, n)
    BY <1>4 DEF GrownHeap
  <2>3. Traded(c.heap, z.heap, p, q)
    BY <1>1, <1>4, <2>1, <2>2, MoveTrades
  <2> QED
    BY <1>1, <2>3, TradeLosesNothing
<1> QED
  BY <1>3, <1>4

-----------------------------------------------------------------------------
(* What the cache holds                                                    *)

\* What a client finds of item p, and that p is the item of a key.
Content(c, p) == [value  |-> c.item[p].value,
                  expire |-> c.item[p].expire,
                  cas    |-> c.item[p].cas]

HasItem(c, ch, key, p) == ~Apart(ch, p) /\ c.item[p].key = key

(* A key that is not odd has one item, in the chain it hashes to.          *)
LEMMA ItemsChain ==
  ASSUME NEW Odd, NEW c, NEW ch, Sound(Odd, c, ch), NEW key \in Keys \ Odd,
         NEW p, HasItem(c, ch, key, p)
  PROVE  \E i \in 1..Len(ch[HashOf[key]]) : p = ch[HashOf[key]][i]
<1>1. PICK a \in Bins : \E i \in 1..Len(ch[a]) : ch[a][i] = p
  BY DEF HasItem, Apart
<1>2. PICK i \in 1..Len(ch[a]) : ch[a][i] = p
  BY <1>1
<1>3. c.item[ch[a][i]].key = key /\ key \notin Odd
  BY <1>2 DEF HasItem
<1>4. HashOf[key] = a
  BY <1>3 DEF Sound, Keyed
<1> QED
  BY <1>2, <1>4

LEMMA OneItem ==
  ASSUME NEW Odd, NEW c, NEW ch, Sound(Odd, c, ch), NEW key \in Keys \ Odd,
         NEW p, HasItem(c, ch, key, p), NEW q, HasItem(c, ch, key, q)
  PROVE  p = q
<1>1. PICK b \in Bins : b = HashOf[key]
  BY CacheAssumption
<1>2. PICK i \in 1..Len(ch[b]) : p = ch[b][i]
  BY <1>1, ItemsChain
<1>3. PICK j \in 1..Len(ch[b]) : q = ch[b][j]
  BY <1>1, ItemsChain
<1>4. c.item[ch[b][i]].key = key /\ c.item[ch[b][j]].key = key /\ key \notin Odd
  BY <1>2, <1>3 DEF HasItem
<1>5. i = j
  BY <1>4 DEF Sound, Keyed
<1> QED
  BY <1>2, <1>3, <1>5

(* A search ends at an item of the key, or the key has none or is odd.     *)
LEMMA SearchFinds ==
  ASSUME NEW Odd, NEW c, NEW ch, Sound(Odd, c, ch), NEW key \in Keys, NEW f, f = Find(c,
         key)
  PROVE  /\ f.item # NULL => HasItem(c, ch, key, f.item)
         /\ f.item = NULL /\ key \notin Odd => \A p : ~HasItem(c, ch, key, p)
<1>1. PICK b \in Bins : b = HashOf[key]
  BY CacheAssumption
<1>2. PICK s \in Seq(Items(c)) : s = ch[b]
  BY DEF Sound, Shape
<1>3. PICK k : FoundAt(c, s, key, f, k)
  BY <1>1, <1>2, FindPosition
<1>4. Items(c) \subseteq Nat \ {0}
  BY StoreAddressed DEF Sound, Addressed
<1>5. CASE k = Len(s) + 1
  <2>1. f.item = NULL /\ \A i \in 1..Len(s) : c.item[s[i]].key # key
    BY <1>3, <1>5 DEF FoundAt
  <2>2. key \notin Odd => \A p : ~HasItem(c, ch, key, p)
    <3> SUFFICES ASSUME key \notin Odd, NEW p, HasItem(c, ch, key, p) PROVE FALSE
      OBVIOUS
    <3>1. PICK i \in 1..Len(s) : p = s[i]
      BY <1>1, <1>2, ItemsChain
    <3> QED
      BY <2>1, <3>1 DEF HasItem
  <2> QED
    BY <2>1, <2>2
<1>6. CASE k # Len(s) + 1
  <2>1. k \in 1..Len(s) /\ f.item = s[k] /\ c.item[s[k]].key = key
    BY <1>3, <1>6 DEF FoundAt
  <2>2. f.item # NULL
    <3>1. s[k] \in Items(c)
      BY <2>1
    <3> QED
      BY <1>4, <2>1, <3>1 DEF NULL
  <2>3. HasItem(c, ch, key, f.item)
    BY <1>1, <1>2, <2>1 DEF HasItem, Apart
  <2> QED
    BY <2>2, <2>3
<1> QED
  BY <1>5, <1>6

(* The content of a key is that of the item a search for it ends at.       *)
LEMMA FoundContent ==
  ASSUME NEW Odd, NEW c, NEW ch, Sound(Odd, c, ch), NEW key \in Keys,
         NEW f, f = Find(c, key)
  PROVE  /\ f.item = NULL => Contents(c)[key] = Absent
         /\ f.item # NULL => /\ Contents(c)[key] = Content(c, f.item)
                             /\ HasItem(c, ch, key, f.item)
         /\ \A p : HasItem(c, ch, key, p) => /\ Content(c, p).cas \in 1..(c.cas - 1)
                                            /\ Content(c, p) # Absent
<1>1. Contents(c)[key] = IF f.item = NULL THEN Absent ELSE Content(c, f.item)
  BY DEF Contents, Content
<1>2. f.item # NULL => HasItem(c, ch, key, f.item)
  BY SearchFinds
<1>3. ASSUME NEW p, HasItem(c, ch, key, p)
      PROVE  /\ Content(c, p).cas \in 1..(c.cas - 1)
             /\ Content(c, p) # Absent
  <2>1. p \in Items(c)
    BY <1>3, LinkedItems DEF HasItem, Sound
  <2>2. c.item[p].cas \in Nat \ {0} /\ c.item[p].cas < c.cas /\ c.cas \in Nat
    BY <2>1 DEF Sound, Store, ItemRecord
  <2>3. Content(c, p).cas = c.item[p].cas
    BY DEF Content
  <2>4. Absent.cas = 0
    BY DEF Absent
  <2> QED
    BY <2>2, <2>3, <2>4
<1> QED
  BY <1>1, <1>2, <1>3

LEMMA ContentsOf ==
  ASSUME NEW Odd, NEW c, NEW ch, Sound(Odd, c, ch), NEW key \in Keys \ Odd
  PROVE  /\ \A p : HasItem(c, ch, key, p) => Contents(c)[key] = Content(c, p)
         /\ (\A p : ~HasItem(c, ch, key, p)) => Contents(c)[key] = Absent
<1>1. PICK f : f = Find(c, key)
  OBVIOUS
<1>2. /\ f.item # NULL => HasItem(c, ch, key, f.item)
      /\ f.item = NULL => \A p : ~HasItem(c, ch, key, p)
  BY <1>1, SearchFinds
<1>3. /\ f.item = NULL => Contents(c)[key] = Absent
      /\ f.item # NULL => Contents(c)[key] = Content(c, f.item)
  BY <1>1, FoundContent
<1>4. ASSUME NEW p, HasItem(c, ch, key, p) PROVE Contents(c)[key] = Content(c, p)
  <2>1. f.item # NULL /\ HasItem(c, ch, key, f.item)
    BY <1>2, <1>4
  <2>2. p = f.item
    BY <1>4, <2>1, OneItem
  <2> QED
    BY <1>3, <2>1, <2>2
<1> QED
  BY <1>2, <1>3, <1>4

\* x is in no chain, or an item with one of these keys.
Named(c, ch, x, keys) == ~Apart(ch, x) => c.item[x].key \in keys

\* Keys other than these may only lose their contents.
FewerBut(keys, before, after) ==
  \A other \in Keys \ keys : after[other] \in {before[other], Absent}

(* What an operation does to the items decides what it does to the contents *)
(* of the other keys ...                                                    *)
LEMMA OtherContents ==
  ASSUME NEW Odd, NEW c, NEW ch, Sound(Odd, c, ch), NEW d, NEW e, Sound(Odd, d, e),
         NEW key, NEW x, NEW y, OnlyOld(c, ch, d, e, x, y),
         Named(c, ch, x, {key}), Named(d, e, y, {key} \cup Odd)
  PROVE  /\ FewerBut({key} \cup Odd, Contents(c), Contents(d))
         /\ AllOld(ch, e, x, y) => SameBut({key} \cup Odd, Contents(c), Contents(d))
<1> SUFFICES ASSUME NEW other \in Keys \ ({key} \cup Odd)
             PROVE  /\ Contents(d)[other] \in {Contents(c)[other], Absent}
                    /\ AllOld(ch, e, x, y) => Contents(d)[other] = Contents(c)[other]
  BY DEF FewerBut, SameBut
<1>1. ASSUME NEW p, HasItem(d, e, other, p)
      PROVE  HasItem(c, ch, other, p) /\ Content(d, p) = Content(c, p)
  <2>1. ~Apart(e, p) /\ d.item[p].key = other
    BY <1>1 DEF HasItem
  <2>2. p # y
    BY <2>1 DEF Named
  <2>3. ~Apart(ch, p) /\ Stays(c, d, p)
    BY <2>1, <2>2 DEF OnlyOld
  <2> QED
    BY <2>1, <2>3 DEF HasItem, Stays, Content
<1>2. CASE \E p : HasItem(d, e, other, p)
  <2>1. PICK p : HasItem(d, e, other, p)
    BY <1>2
  <2>2. Contents(d)[other] = Content(d, p)
    BY <2>1, ContentsOf
  <2>3. HasItem(c, ch, other, p) /\ Content(d, p) = Content(c, p)
    BY <1>1, <2>1
  <2>4. Contents(c)[other] = Content(c, p)
    BY <2>3, ContentsOf
  <2> QED
    BY <2>2, <2>3, <2>4
<1>3. CASE \A p : ~HasItem(d, e, other, p)
  <2>1. Contents(d)[other] = Absent
    BY <1>3, ContentsOf
  <2>2. ASSUME AllOld(ch, e, x, y), NEW p, HasItem(c, ch, other, p) PROVE FALSE
    <3>1. ~Apart(ch, p) /\ c.item[p].key = other
      BY <2>2 DEF HasItem
    <3>2. p # x
      BY <3>1 DEF Named
    <3>3. ~Apart(e, p) /\ p # y
      BY <2>2, <3>1, <3>2 DEF AllOld
    <3>4. Stays(c, d, p)
      BY <3>3 DEF OnlyOld
    <3>5. HasItem(d, e, other, p)
      BY <3>1, <3>3, <3>4 DEF HasItem, Stays
    <3> QED
      BY <1>3, <3>5
  <2>3. AllOld(ch, e, x, y) => Contents(c)[other] = Absent
    BY <2>2, ContentsOf
  <2> QED
    BY <2>1, <2>3
<1> QED
  BY <1>2, <1>3

(* ... and of its own: it is gone with the item, or that of the new item.  *)
LEMMA OwnContent ==
  ASSUME NEW Odd, NEW c, NEW ch, Sound(Odd, c, ch), NEW d, NEW e, Sound(Odd, d, e),
         NEW key \in Keys \ Odd, NEW x, NEW y, OnlyOld(c, ch, d, e, x, y),
         \A p : HasItem(c, ch, key, p) => p = x
  PROVE  /\ HasItem(d, e, key, y) => Contents(d)[key] = Content(d, y)
         /\ ~HasItem(d, e, key, y) => Contents(d)[key] = Absent
<1>1. ASSUME ~HasItem(d, e, key, y), NEW p, HasItem(d, e, key, p) PROVE FALSE
  <2>1. ~Apart(e, p) /\ d.item[p].key = key /\ p # y
    BY <1>1 DEF HasItem
  <2>2. ~Apart(ch, p) /\ p # x /\ Stays(c, d, p)
    BY <2>1 DEF OnlyOld
  <2>3. HasItem(c, ch, key, p)
    BY <2>1, <2>2 DEF HasItem, Stays
  <2> QED
    BY <2>2, <2>3
<1> QED
  BY <1>1, ContentsOf

\* x is an item of the key, the only one of a key that is not odd.
Target(Odd, c, ch, key, x) ==
  /\ ~Apart(ch, x) => c.item[x].key = key
  /\ key \notin Odd => \A p : HasItem(c, ch, key, p) => p = x

\* What an operation on the key makes of the contents of c: new is what the
\* key has then, and the other keys keep theirs, or may lose them.
Becomes(Odd, c, d, key, new) ==
  /\ key \notin Odd => Contents(d)[key] = new
  /\ SameBut({key} \cup Odd, Contents(c), Contents(d))

Lessens(Odd, c, d, key, new) ==
  /\ key \notin Odd => Contents(d)[key] = new
  /\ FewerBut({key} \cup Odd, Contents(c), Contents(d))

\* The content that a field by field description gives.
Holding(value, expire, stamp) == [value |-> value, expire |-> expire, cas |-> stamp]

LEMMA NothingAtNull ==
  ASSUME NEW Odd, NEW c, NEW ch, Sound(Odd, c, ch)
  PROVE  Apart(ch, NULL)
<1>1. Items(c) \subseteq Nat \ {0}
  BY StoreAddressed DEF Sound, Addressed
<1>2. ~Apart(ch, NULL) => NULL \in Items(c)
  BY LinkedItems DEF Sound
<1> QED
  BY <1>1, <1>2 DEF NULL

(* A search ends at the target, whose content is what the key has.         *)
LEMMA SearchTarget ==
  ASSUME NEW Odd, NEW c, NEW ch, Sound(Odd, c, ch), NEW key \in Keys,
         NEW f, f = Find(c, key)
  PROVE  /\ Target(Odd, c, ch, key, f.item)
         /\ f.item = NULL => Contents(c)[key] = Absent
         /\ f.item # NULL => /\ Contents(c)[key] = Content(c, f.item)
                             /\ Contents(c)[key] # Absent
<1>1. PICK x : x = f.item
  OBVIOUS
<1>2. /\ x # NULL => HasItem(c, ch, key, x)
      /\ x = NULL /\ key \notin Odd => \A p : ~HasItem(c, ch, key, p)
  BY <1>1, SearchFinds
<1>3. CASE x = NULL
  <2>1. Apart(ch, x)
    BY <1>3, NothingAtNull
  <2>2. Target(Odd, c, ch, key, x)
    BY <1>2, <1>3, <2>1 DEF Target
  <2>3. Contents(c)[key] = Absent
    BY <1>1, <1>3, FoundContent
  <2> QED
    BY <1>1, <1>3, <2>2, <2>3
<1>4. CASE x # NULL
  <2>1. HasItem(c, ch, key, x)
    BY <1>2, <1>4
  <2>2. key \notin Odd => \A p : HasItem(c, ch, key, p) => p = x
    BY <2>1, OneItem
  <2>3. Target(Odd, c, ch, key, x)
    BY <2>1, <2>2 DEF Target, HasItem
  <2>4. Contents(c)[key] = Content(c, x) /\ Content(c, x) # Absent
    BY <1>1, <1>4, <2>1, FoundContent
  <2> QED
    BY <1>1, <1>4, <2>3, <2>4
<1> QED
  BY <1>3, <1>4

LEMMA ItemGone ==
  ASSUME NEW Odd, NEW c, NEW ch, Sound(Odd, c, ch), NEW d, NEW e, Sound(Odd, d, e),
         NEW key \in Keys, NEW x, Target(Odd, c, ch, key, x),
         OnlyOld(c, ch, d, e, x, NULL), AllOld(ch, e, x, NULL)
  PROVE  Becomes(Odd, c, d, key, Absent)
<1>1. PICK y : y = NULL
  OBVIOUS
<1>2. Apart(e, y)
  BY <1>1, NothingAtNull
<1>3. OnlyOld(c, ch, d, e, x, y) /\ AllOld(ch, e, x, y)
  BY <1>1
<1>4. ASSUME key \notin Odd PROVE Contents(d)[key] = Absent
  <2>1. ~HasItem(d, e, key, y)
    BY <1>2 DEF HasItem
  <2>2. \A p : HasItem(c, ch, key, p) => p = x
    BY <1>4 DEF Target
  <2>3. key \in Keys \ Odd
    BY <1>4
  <2> QED
    BY <1>3, <2>1, <2>2, <2>3, OwnContent
<1>5. SameBut({key} \cup Odd, Contents(c), Contents(d))
  <2>1. Named(c, ch, x, {key}) /\ Named(d, e, y, {key} \cup Odd)
    BY <1>2 DEF Target, Named
  <2> QED
    BY <1>3, <2>1, OtherContents
<1> QED
  BY <1>4, <1>5 DEF Becomes

LEMMA ItemChanged ==
  ASSUME NEW Odd, NEW c, NEW ch, Sound(Odd, c, ch), NEW d, NEW e, Sound(Odd, d, e),
         NEW key \in Keys, NEW x, Target(Odd, c, ch, key, x),
         NEW y, OnlyOld(c, ch, d, e, x, y),
         ~Apart(e, y), NEW name \in {key} \cup Odd, NEW value, NEW expire, NEW stamp,
         Reads(d, y, name, value, expire, stamp),
         NEW new, new = IF name = key THEN Holding(value, expire, stamp) ELSE Absent
  PROVE  /\ Lessens(Odd, c, d, key, new)
         /\ AllOld(ch, e, x, y) => Becomes(Odd, c, d, key, new)
<1>1. d.item[y].key = name
  BY DEF Reads
<1>2. ASSUME key \notin Odd PROVE Contents(d)[key] = new
  <2>0. key \in Keys \ Odd
    BY <1>2
  <2>1. \A p : HasItem(c, ch, key, p) => p = x
    BY <1>2 DEF Target
  <2>2. CASE name = key
    <3>1. HasItem(d, e, key, y)
      BY <1>1, <2>2 DEF HasItem
    <3>2. Contents(d)[key] = Content(d, y)
      BY <2>0, <2>1, <3>1, OwnContent
    <3>3. Content(d, y) = Holding(value, expire, stamp)
      BY DEF Content, Reads, Holding
    <3> QED
      BY <2>2, <3>2, <3>3
  <2>3. CASE name # key
    <3>1. ~HasItem(d, e, key, y)
      BY <1>1, <2>3 DEF HasItem
    <3>2. Contents(d)[key] = Absent
      BY <2>0, <2>1, <3>1, OwnContent
    <3> QED
      BY <2>3, <3>2
  <2> QED
    BY <2>2, <2>3
<1>3. /\ FewerBut({key} \cup Odd, Contents(c), Contents(d))
      /\ AllOld(ch, e, x, y) => SameBut({key} \cup Odd, Contents(c), Contents(d))
  <2>1. Named(c, ch, x, {key}) /\ Named(d, e, y, {key} \cup Odd)
    BY <1>1 DEF Target, Named
  <2> QED
    BY <2>1, OtherContents
<1> QED
  BY <1>2, <1>3 DEF Lessens, Becomes

LEMMA LessThanBecomes ==
  ASSUME NEW Odd, NEW c, NEW d, NEW key, NEW new, Becomes(Odd, c, d, key, new)
  PROVE  Lessens(Odd, c, d, key, new)
BY DEF Becomes, Lessens, SameBut, FewerBut

\* Of the items the chains of d lead to, all but one at most, which has the next
\* stamp of c, are items that the chains of c led to, unchanged.
OneStamped(c, d) ==
  \E y : \A p \in Linked(d) : \/ p = y /\ d.item[p].cas = c.cas
                              \/ p \in Linked(c) /\ Stays(c, d, p)

LEMMA LinkedNotApart ==
  ASSUME NEW Odd, NEW c, NEW ch, Sound(Odd, c, ch), NEW p
  PROVE  p \in Linked(c) <=> ~Apart(ch, p)
BY LinkedIs DEF Apart

LEMMA StampedOnce ==
  ASSUME NEW Odd, NEW c, NEW ch, Sound(Odd, c, ch), NEW d, NEW e, Sound(Odd, d, e),
         NEW x, NEW y, OnlyOld(c, ch, d, e, x, y),
         ~Apart(e, y) => d.item[y].cas = c.cas
  PROVE  OneStamped(c, d)
<1>1. ASSUME NEW p \in Linked(d), p # y
      PROVE  p \in Linked(c) /\ Stays(c, d, p)
  <2>1. ~Apart(e, p)
    BY LinkedNotApart
  <2>2. ~Apart(ch, p) /\ Stays(c, d, p)
    BY <1>1, <2>1, Zenon DEF OnlyOld
  <2> QED
    BY <2>2, LinkedNotApart
<1>2. y \in Linked(d) => d.item[y].cas = c.cas
  BY LinkedNotApart
<1> QED
  BY <1>1, <1>2 DEF OneStamped

LEMMA NoneStamped ==
  ASSUME NEW c
  PROVE  OneStamped(c, c)
BY DEF OneStamped, Stays

-----------------------------------------------------------------------------
(* Steps                                                                   *)

\* The last position of a chain is the one whose item leads nowhere.
LEMMA LastPosition ==
  ASSUME NEW Odd, NEW c, NEW ch, Sound(Odd, c, ch), NEW b \in Bins, NEW k \in 1..Len(ch[b]),
         c.item[ch[b][k]].next = NULL
  PROVE  k = Len(ch[b])
<1>1. PICK s \in Seq(Items(c)) : s = ch[b]
  BY DEF Sound, Shape
<1>2. Items(c) \subseteq Nat \ {0}
  BY StoreAddressed DEF Sound, Addressed
<1>3. c.item[s[k]].next = IF k = Len(s) THEN NULL ELSE s[k + 1]
  BY <1>1 DEF Sound, Shape
<1>4. ASSUME k # Len(s) PROVE FALSE
  <2>1. k + 1 \in 1..Len(s)
    BY <1>1, <1>4
  <2>2. s[k + 1] \in Items(c)
    BY <2>1
  <2> QED
    BY <1>1, <1>2, <1>3, <1>4, <2>2 DEF NULL
<1> QED
  BY <1>1, <1>4

\* The places where memory may be lost: where add cuts a chain, where cas does
\* not link, and where incr and decr do not free.
MayLeak ==
  \/ CutsChain
  \/ answer'.op = "cas" /\ answer'.ok /\ Find(cache, answer'.key).item = NULL
  \/ answer'.op \in {"incr", "decr"} /\ answer'.ok

\* d has lost no block that c had, unless it may have.
Balanced(c, d) == SmallArena => Leaked(d) = Leaked(c) \/ MayLeak

\* The request of op has been served and has left whole chains; the other keys
\* have what they had, unless the chain has been cut.
Done(Odd, op, key, ok, value, new) ==
  /\ answer' = Answer(op, key, ok, value)
  /\ time' = clock /\ crashed' = crashed
  /\ \E e : Sound(Odd, cache', e)
  /\ OneStamped(cache, cache') /\ cache'.cas \in {cache.cas, cache.cas + 1}
  /\ Lessens(Odd, cache, cache', key, new)
  /\ Becomes(Odd, cache, cache', key, new) \/ CutsChain
  /\ Balanced(cache, cache')

\* It has given the key a new content, under the next stamp.
Wrote(Odd, op, key, new) ==
  Done(Odd, op, key, TRUE, <<>>, new) /\ cache'.cas = cache.cas + 1

LEMMA WholeDone ==
  ASSUME NEW Odd, NEW c, c = cache, NEW d, d = cache', NEW e, Sound(Odd, d, e),
         NEW op, NEW key, NEW ok, NEW value, NEW new, Becomes(Odd, c, d, key, new),
         OneStamped(c, d), d.cas \in {c.cas, c.cas + 1}, Balanced(c, d),
         answer' = Answer(op, key, ok, value), time' = clock, crashed' = crashed
  PROVE  Done(Odd, op, key, ok, value, new)
<1>1. Lessens(Odd, c, d, key, new)
  BY LessThanBecomes
<1> QED
  BY <1>1 DEF Done

LEMMA RefuseDone ==
  ASSUME NEW Odd, NEW ch, Sound(Odd, cache, ch), NEW op, NEW key, Refuse(op, key)
  PROVE  /\ Done(Odd, op, key, FALSE, <<>>, Contents(cache)[key])
         /\ cache'.cas = cache.cas
<1>1. PICK c : c = cache
  OBVIOUS
<1>2. cache' = c /\ answer' = Answer(op, key, FALSE, <<>>)
      /\ time' = clock /\ crashed' = crashed
  BY <1>1 DEF Refuse, Update
<1>3. PICK new : new = Contents(c)[key]
  OBVIOUS
<1>4. Becomes(Odd, c, c, key, new)
  BY <1>3 DEF Becomes, SameBut
<1>5. Sound(Odd, c, ch) /\ Balanced(c, c) /\ OneStamped(c, c)
  BY <1>1, NoneStamped DEF Balanced
<1>6. Done(Odd, op, key, FALSE, <<>>, new)
  BY <1>1, <1>2, <1>4, <1>5, WholeDone
<1> QED
  BY <1>1, <1>2, <1>3, <1>6

LEMMA WroteWhole ==
  ASSUME NEW Odd, NEW c, c = cache, NEW ch, Sound(Odd, c, ch),
         NEW w, NEW e, Sound(Odd, w, e),
         NEW key \in Keys, NEW x, Target(Odd, c, ch, key, x), NEW y,
         OnlyOld(c, ch, w, e, x, y), AllOld(ch, e, x, y), ~Apart(e, y),
         NEW name \in {key} \cup Odd, NEW value, NEW expire,
         Reads(w, y, name, value, expire, c.cas), w.cas = c.cas + 1,
         NEW new, new = IF name = key THEN Holding(value, expire, c.cas) ELSE Absent,
         NEW op, Accept(op, key, w), Balanced(c, w)
  PROVE  Wrote(Odd, op, key, new)
<1>1. Becomes(Odd, c, w, key, new)
  BY ItemChanged
<1>2. cache' = w /\ answer' = Answer(op, key, TRUE, <<>>)
      /\ time' = clock /\ crashed' = crashed
  BY DEF Accept, Update
<1>3. OneStamped(c, w)
  <2>1. w.item[y].cas = c.cas
    BY DEF Reads
  <2> QED
    BY <2>1, StampedOnce
<1>4. Done(Odd, op, key, TRUE, <<>>, new)
  BY <1>1, <1>2, <1>3, WholeDone
<1> QED
  BY <1>2, <1>4 DEF Wrote

(* What growAndReplace and the fields written then make of an item.        *)
LEMMA ReplacedEdited ==
  ASSUME NEW c, NEW ch, NEW d, NEW e, NEW p, NEW q, Replaced(c, ch, d, e, p, q),
         NEW w, NEW name, NEW value, NEW expire,
         Edited(d, e, w, q, name, value, expire)
  PROVE  /\ OnlyOld(c, ch, w, e, p, q) /\ AllOld(ch, e, p, q) /\ ~Apart(e, q)
         /\ Reads(w, q, name, value, expire, c.cas)
<1>1. /\ OnlyOld(c, ch, d, e, p, q) /\ AllOld(ch, e, p, q) /\ ~Apart(e, q)
      /\ d.item[q].cas = c.cas
  BY DEF Replaced
<1>2. ASSUME NEW r, ~Apart(e, r), r # q
      PROVE  ~Apart(ch, r) /\ r # p /\ Stays(c, w, r)
  <2>1. ~Apart(ch, r) /\ r # p /\ Stays(c, d, r)
    BY <1>1, <1>2, Zenon DEF OnlyOld
  <2>2. Stays(d, w, r)
    BY <1>2, Zenon DEF Edited
  <2> QED
    BY <2>1, <2>2 DEF Stays
<1>3. OnlyOld(c, ch, w, e, p, q)
  BY <1>2, Zenon DEF OnlyOld
<1> QED
  BY <1>1, <1>3 DEF Edited

(* growAndReplace has found room, and its caller has written the item.     *)
LEMMA RewriteDone ==
  ASSUME NEW Odd, NEW c, c = cache, NEW ch, Sound(Odd, c, ch), NEW key \in Keys,
         NEW f, f = Find(c, key), f.item # NULL,
         NEW b, NEW k, Search(c, ch, key, f, b, k),
         NEW cbValue \in Nat, NEW g, g = Grown(key, f, cbValue),
         NEW item, item.key \in Keys \cup {Garbled}, item.key \in {key} \cup Odd,
         item.value \in Seq(Bytes), Len(item.value) <= cbValue, item.expire \in Nat,
         NEW op, Rewrite(op, key, f, g, item),
         NEW new, new = IF item.key = key THEN Holding(item.value, item.expire, c.cas)
                                          ELSE Absent
  PROVE  Crash \/ Wrote(Odd, op, key, new)
<1>1. PICK p : p = f.item
  OBVIOUS
<1>2. /\ b \in Bins /\ b = HashOf[key] /\ k \in 1..Len(ch[b]) /\ p = ch[b][k]
      /\ c.item[p].key = key /\ f.previous = Before(ch[b], k)
  BY <1>1 DEF Search
<1>3. Target(Odd, c, ch, key, p)
  BY <1>1, SearchTarget
<1>4. CASE g.item # NULL
  <2>1. PICK d, q : d = g.cache /\ q = g.item
    OBVIOUS
  <2>2. g = GrowAndReplace(c, b, p, Before(ch[b], k), cbValue)
    BY <1>1, <1>2 DEF Grown
  <2>3. Grows(Odd, c, ch, p, cbValue, g)
    BY <1>2, <1>4, <2>2, GrowSound
  <2>4. PICK e : Grew(Odd, d, e, q, p, key, cbValue) /\ Replaced(c, ch, d, e, p, q)
    BY <1>2, <2>1, <2>3 DEF Grows
  <2>5. d.cas = c.cas + 1 /\ ~Apart(e, q)
    BY <2>1, <2>3, <2>4 DEF Grows, Replaced
  <2>6. PICK w : w = Filled(d, q, item)
    OBVIOUS
  <2>7. PICK name, value, expire :
          name = item.key /\ value = item.value /\ expire = item.expire
    OBVIOUS
  <2>8. name \in {key} \cup Odd
        /\ new = IF name = key THEN Holding(value, expire, c.cas) ELSE Absent
    BY <2>7
  <2>9. /\ Sound(Odd, w, e) /\ w.cas = d.cas /\ Edited(d, e, w, q, name, value, expire)
        /\ q # p => /\ Sound(Odd, FreeItem(w, p), e) /\ FreeItem(w, p).cas = d.cas
                    /\ Edited(d, e, FreeItem(w, p), q, name, value, expire)
    BY <2>4, <2>5, <2>6, <2>7, FillSound
  <2>10. ASSUME NEW z, Sound(Odd, z, e), z.cas = d.cas, Accept(op, key, z),
                Edited(d, e, z, q, name, value, expire),
                \/ q = p /\ z = w
                \/ q # p /\ FreeAsserts(c.heap, p) /\ z = FreeItem(w, p)
         PROVE  Wrote(Odd, op, key, new)
    <3>1. /\ OnlyOld(c, ch, z, e, p, q) /\ AllOld(ch, e, p, q) /\ ~Apart(e, q)
          /\ Reads(z, q, name, value, expire, c.cas)
      BY <2>4, <2>10, ReplacedEdited
    <3>2. z.cas = c.cas + 1
      BY <2>5, <2>10
    <3>3. GrownHeap(c, d, p, q)
      BY <1>4, <2>1, <2>2, GrowHeap
    <3>4. p \in Items(c) /\ ~Apart(ch, p)
      BY <1>1, <1>2 DEF Search, Apart
    <3>5. q # NULL
      BY <1>4, <2>1
    <3>6. SmallArena => Leaked(z) = Leaked(c)
      BY <2>6, <2>10, <3>1, <3>3, <3>4, <3>5, RewriteBalanced
    <3>7. Balanced(c, z)
      BY <3>6 DEF Balanced
    <3> QED
      BY <1>3, <2>8, <2>10, <3>1, <3>2, <3>7, WroteWhole
  <2>11. \/ q = p /\ Accept(op, key, w)
         \/ q # p /\ FreeAsserts(c.heap, p) /\ Accept(op, key, FreeItem(w, p))
         \/ Crash
    BY <1>1, <1>4, <2>1, <2>6 DEF Rewrite, Filled, CanFree
  <2>12. CASE q = p /\ Accept(op, key, w)
    BY <2>9, <2>10, <2>12
  <2>13. CASE q # p /\ FreeAsserts(c.heap, p) /\ Accept(op, key, FreeItem(w, p))
    <3>1. PICK z : z = FreeItem(w, p)
      OBVIOUS
    <3>2. /\ Sound(Odd, z, e) /\ z.cas = d.cas /\ Accept(op, key, z)
          /\ Edited(d, e, z, q, name, value, expire)
      BY <2>9, <2>13, <3>1
    <3> QED
      BY <2>10, <2>13, <3>1, <3>2
  <2> QED
    BY <2>11, <2>12, <2>13
<1> QED
  BY <1>4 DEF Rewrite

LEMMA OverwriteDone ==
  ASSUME NEW Odd, NEW c, c = cache, NEW ch, Sound(Odd, c, ch), NEW key \in Keys,
         NEW f, f = Find(c, key), f.item # NULL,
         NEW b, NEW k, Search(c, ch, key, f, b, k),
         NEW data \in Data, NEW expiration \in Expirations,
         NEW op, Overwrite(op, key, f, data, expiration)
  PROVE  Crash \/ Wrote(Odd, op, key, Holding(data, expiration, c.cas))
<1>1. data \in Seq(Bytes) /\ expiration \in Nat
  BY CacheAssumption
<1>2. PICK n \in Nat : n = Len(data)
  BY <1>1
<1>3. PICK item : item = [key |-> key, value |-> data, expire |-> expiration]
  OBVIOUS
<1>4. PICK g : g = Grown(key, f, n)
  OBVIOUS
<1>5. Rewrite(op, key, f, g, item)
  BY <1>2, <1>3, <1>4 DEF Overwrite
<1>6. /\ item.key = key /\ item.value = data /\ item.expire = expiration
  BY <1>3
<1>7. /\ item.key \in Keys \cup {Garbled} /\ item.key \in {key} \cup Odd
      /\ item.value \in Seq(Bytes)
      /\ Len(item.value) <= n /\ item.expire \in Nat
  BY <1>1, <1>2, <1>6
<1>8. PICK new : new = Holding(data, expiration, c.cas)
  OBVIOUS
<1>9. new = IF item.key = key THEN Holding(item.value, item.expire, c.cas) ELSE Absent
  BY <1>6, <1>8
<1>10. Crash \/ Wrote(Odd, op, key, new)
  BY <1>4, <1>5, <1>7, <1>9, RewriteDone
<1> QED
  BY <1>8, <1>10

(* processExpiration, and del                                              *)
LEMMA DiscardDone ==
  ASSUME NEW Odd, NEW c, c = cache, NEW ch, Sound(Odd, c, ch), NEW key \in Keys,
         NEW f, f = Find(c, key), f.item # NULL,
         NEW b, NEW k, Search(c, ch, key, f, b, k),
         NEW d, d = Discard(key, f)
  PROVE  /\ \E e : Discarded(Odd, c, ch, b, k, d, e)
         /\ Becomes(Odd, c, d, key, Absent) /\ OneStamped(c, d)
         /\ SmallArena /\ CanFree(f.item) => Leaked(d) = Leaked(c)
<1>1. PICK p : p = f.item
  OBVIOUS
<1>2. /\ b \in Bins /\ b = HashOf[key] /\ k \in 1..Len(ch[b]) /\ p = ch[b][k]
      /\ f.previous = Before(ch[b], k)
  BY <1>1 DEF Search
<1>3. d = FreeItem(Unlink(c, b, p, Before(ch[b], k)), p)
  BY <1>1, <1>2 DEF Discard
<1>4. PICK e : e = Without(ch, b, k)
  OBVIOUS
<1>5. Discarded(Odd, c, ch, b, k, d, e)
  BY <1>2, <1>3, <1>4, DiscardSound
<1>6. Sound(Odd, d, e) /\ OnlyOld(c, ch, d, e, p, NULL) /\ AllOld(ch, e, p, NULL)
  BY <1>2, <1>5 DEF Discarded
<1>7. Target(Odd, c, ch, key, p)
  BY <1>1, SearchTarget
<1>8. Becomes(Odd, c, d, key, Absent)
  BY <1>6, <1>7, ItemGone
<1>9. ASSUME SmallArena, FreeAsserts(c.heap, p) PROVE Leaked(d) = Leaked(c)
  BY <1>2, <1>3, <1>5, <1>9, DiscardBalanced
<1>10. OneStamped(c, d)
  <2>1. PICK y : y = NULL
    OBVIOUS
  <2>2. OnlyOld(c, ch, d, e, p, y) /\ Apart(e, y)
    BY <1>6, <2>1, NothingAtNull
  <2> QED
    BY <1>6, <2>2, StampedOnce
<1> QED
  BY <1>1, <1>5, <1>8, <1>9, <1>10 DEF CanFree

\* The item of the key has been given back.
Removed(Odd, op, key, ok) ==
  Done(Odd, op, key, ok, <<>>, Absent) /\ cache'.cas = cache.cas

LEMMA RemoveDone ==
  ASSUME NEW Odd, NEW c, c = cache, NEW ch, Sound(Odd, c, ch), NEW key \in Keys,
         NEW f, f = Find(c, key), f.item # NULL, NEW op, NEW ok,
         RemoveFound(op, key, f, ok)
  PROVE  Crash \/ Removed(Odd, op, key, ok)
<1>1. PICK d : d = Discard(key, f)
  OBVIOUS
<1>2. PICK b, k : Search(c, ch, key, f, b, k)
  BY SearchEnds
<1>3. PICK e : Discarded(Odd, c, ch, b, k, d, e)
  BY <1>1, <1>2, DiscardDone
<1>4. Sound(Odd, d, e) /\ d.cas = c.cas
  BY <1>3 DEF Discarded
<1>5. /\ Becomes(Odd, c, d, key, Absent) /\ OneStamped(c, d)
      /\ d.cas \in {c.cas, c.cas + 1}
  BY <1>1, <1>2, <1>4, DiscardDone
<1>6. Crash \/ (/\ CanFree(f.item)
                /\ cache' = d /\ answer' = Answer(op, key, ok, <<>>)
                /\ time' = clock /\ crashed' = crashed)
  BY <1>1 DEF RemoveFound, Update
<1>7. CASE /\ CanFree(f.item)
           /\ cache' = d /\ answer' = Answer(op, key, ok, <<>>)
           /\ time' = clock /\ crashed' = crashed
  <2>0. Balanced(c, d)
    BY <1>1, <1>2, <1>7, DiscardDone DEF Balanced
  <2>1. Done(Odd, op, key, ok, <<>>, Absent)
    BY <1>4, <1>5, <1>7, <2>0, WholeDone
  <2> QED
    BY <1>4, <1>7, <2>1 DEF Removed
<1> QED
  BY <1>6, <1>7

\* What every request leaves that has not crashed.
Whole(Odd, op, key) ==
  /\ answer'.op = op /\ answer'.key = key
  /\ \E e : Sound(Odd, cache', e)
  /\ time' = clock /\ crashed' = crashed
  /\ OneStamped(cache, cache') /\ cache'.cas \in {cache.cas, cache.cas + 1}
  /\ SameBut({answer'.key} \cup Odd, Contents(cache), Contents(cache')) \/ CutsChain
  /\ Balanced(cache, cache')

\* No append has written a key over another one: every key is where it belongs.
Plain(Odd) == \A key \in Keys : key \notin Odd

\* The time only moves on.
Timed == time \in Nat /\ clock \in Nat /\ time <= clock

LEMMA DoneReturns ==
  ASSUME Timed, NEW Odd, NEW op, NEW key \in Keys, NEW ok, NEW value, NEW new,
         Done(Odd, op, key, ok, value, new)
  PROVE  /\ Whole(Odd, op, key)
         /\ Plain(Odd) => Contract!Returns(op, key, ok, value) /\ Contents(cache')[key] = new
<1>1. /\ answer'.op = op /\ answer'.key = key /\ answer'.ok = ok /\ answer'.value = value
  BY DEF Done, Answer
<1>2. time' >= time
  BY DEF Timed, Done
<1>3. /\ FewerBut({key} \cup Odd, Contents(cache), Contents(cache'))
      /\ key \notin Odd => Contents(cache')[key] = new
      /\ SameBut({key} \cup Odd, Contents(cache), Contents(cache')) \/ CutsChain
  BY DEF Done, Lessens, Becomes
<1>4. Plain(Odd) => Contract!OthersOnlyLost(key) /\ Contents(cache')[key] = new
  BY <1>3 DEF Plain, FewerBut, Contract!OthersOnlyLost
<1>5. Plain(Odd) => Contract!Returns(op, key, ok, value)
  BY <1>1, <1>2, <1>4 DEF Contract!Returns
<1>6. Whole(Odd, op, key)
  <2>1. SameBut({answer'.key} \cup Odd, Contents(cache), Contents(cache')) \/ CutsChain
    BY <1>1, <1>3
  <2> QED
    BY <1>1, <2>1 DEF Whole, Done
<1> QED
  BY <1>4, <1>5, <1>6

LEMMA WroteStores ==
  ASSUME Timed, NEW Odd, NEW op, NEW key \in Keys, NEW value, NEW expire,
         NEW stamp, stamp = cache.cas,
         Wrote(Odd, op, key, Holding(value, expire, stamp))
  PROVE  Whole(Odd, op, key) /\ (Plain(Odd) => Contract!Stores(op, key, value, expire))
<1>1. PICK new : new = Holding(value, expire, stamp)
  OBVIOUS
<1>2. Done(Odd, op, key, TRUE, <<>>, new) /\ cache'.cas = cache.cas + 1
  BY <1>1 DEF Wrote
<1>3. /\ Whole(Odd, op, key)
      /\ Plain(Odd) => Contract!Returns(op, key, TRUE, <<>>) /\ Contents(cache')[key] = new
  BY <1>2, DoneReturns
<1> QED
  BY <1>1, <1>2, <1>3 DEF Holding, Contract!Stores

LEMMA RefuseDeclines ==
  ASSUME Timed, NEW Odd, NEW ch, Sound(Odd, cache, ch), NEW op, NEW key \in Keys,
         Refuse(op, key)
  PROVE  Whole(Odd, op, key) /\ (Plain(Odd) => Contract!Declines(op, key))
<1>1. PICK new : new = Contents(cache)[key]
  OBVIOUS
<1>2. Done(Odd, op, key, FALSE, <<>>, new) /\ cache'.cas = cache.cas
  BY <1>1, RefuseDone
<1>3. /\ Whole(Odd, op, key)
      /\ Plain(Odd) => Contract!Returns(op, key, FALSE, <<>>) /\ Contents(cache')[key] = new
  BY <1>2, DoneReturns
<1> QED
  BY <1>1, <1>2, <1>3 DEF Contract!Declines

LEMMA RemovedDeclines ==
  ASSUME Timed, NEW Odd, NEW op, NEW key \in Keys,
         Removed(Odd, op, key, FALSE), ~Contract!Fresh(key)
  PROVE  Whole(Odd, op, key) /\ (Plain(Odd) => Contract!Declines(op, key))
<1>1. Done(Odd, op, key, FALSE, <<>>, Absent) /\ cache'.cas = cache.cas
  BY DEF Removed
<1>2. /\ Whole(Odd, op, key)
      /\ Plain(Odd) => Contract!Returns(op, key, FALSE, <<>>) /\ Contents(cache')[key] = Absent
  BY <1>1, DoneReturns
<1> QED
  BY <1>1, <1>2 DEF Contract!Declines

(* What the search finds is what the contract speaks of.                   *)
LEMMA SearchMeans ==
  ASSUME NEW Odd, NEW c, c = cache, NEW ch, Sound(Odd, c, ch), NEW key \in Keys,
         NEW f, f = Find(c, key)
  PROVE  /\ f.item = NULL => ~Contract!Present(key)
         /\ f.item # NULL => /\ Contract!Present(key)
                             /\ Expired(f.item) <=> Contract!Past(key)
                             /\ Contents(cache)[key] = Content(c, f.item)
<1>1. /\ f.item = NULL => Contents(c)[key] = Absent
      /\ f.item # NULL => /\ Contents(c)[key] = Content(c, f.item)
                          /\ Contents(c)[key] # Absent
  BY SearchTarget
<1>2. Content(c, f.item).expire = c.item[f.item].expire
  BY DEF Content
<1>3. f.item # NULL => (Expired(f.item) <=> Contract!Past(key))
  BY <1>1, <1>2 DEF Expired, Contract!Past
<1> QED
  BY <1>1, <1>3 DEF Contract!Present

LEMMA GetServed ==
  ASSUME Timed, NEW Odd, NEW ch, Sound(Odd, cache, ch), NEW key \in Keys, Get(key)
  PROVE  \/ Crash
         \/ /\ Whole(Odd, "get", key)
            /\ Plain(Odd) => Contract!Get(key)
            /\ answer'.ok => Contract!Fresh(key)
            /\ cache'.cas = cache.cas
<1>1. PICK c : c = cache
  OBVIOUS
<1>2. Sound(Odd, c, ch)
  BY <1>1
<1>3. PICK f : f = Find(c, key)
  OBVIOUS
<1>4. /\ f.item = NULL => ~Contract!Present(key)
      /\ f.item # NULL => /\ Contract!Present(key)
                          /\ Expired(f.item) <=> Contract!Past(key)
                          /\ Contents(cache)[key] = Content(c, f.item)
  BY <1>1, <1>2, <1>3, SearchMeans
<1>5. \/ f.item = NULL /\ Refuse("get", key)
      \/ f.item # NULL /\ Expired(f.item) /\ RemoveFound("get", key, f, FALSE)
      \/ /\ f.item # NULL /\ ~Expired(f.item)
         /\ answer' = Answer("get", key, TRUE, c.item[f.item].value)
         /\ cache' = c /\ time' = clock /\ crashed' = crashed
  BY <1>1, <1>3 DEF Get, RefuseExpired, Update
<1>6. CASE f.item = NULL /\ Refuse("get", key)
  <2>1. ~Contract!Fresh(key)
    BY <1>4, <1>6 DEF Contract!Fresh
  <2> QED
    BY <1>6, <2>1, RefuseDeclines DEF Contract!Get, Refuse, Answer
<1>7. CASE f.item # NULL /\ Expired(f.item) /\ RemoveFound("get", key, f, FALSE)
  <2>1. Crash \/ Removed(Odd, "get", key, FALSE)
    BY <1>1, <1>2, <1>3, <1>7, RemoveDone
  <2>2. ~Contract!Fresh(key)
    BY <1>4, <1>7 DEF Contract!Fresh
  <2>3. Removed(Odd, "get", key, FALSE) => ~answer'.ok /\ cache'.cas = cache.cas
    BY DEF Removed, Done, Answer
  <2> QED
    BY <2>1, <2>2, <2>3, RemovedDeclines DEF Contract!Get
<1>8. CASE /\ f.item # NULL /\ ~Expired(f.item)
           /\ answer' = Answer("get", key, TRUE, c.item[f.item].value)
           /\ cache' = c /\ time' = clock /\ crashed' = crashed
  <2>1. PICK new, value : new = Contents(c)[key] /\ value = c.item[f.item].value
    OBVIOUS
  <2>2. Becomes(Odd, c, c, key, new) /\ Balanced(c, c) /\ OneStamped(c, c)
    BY <2>1, NoneStamped DEF Becomes, SameBut, Balanced
  <2>3. Done(Odd, "get", key, TRUE, value, new)
    BY <1>1, <1>2, <1>8, <2>1, <2>2, WholeDone
  <2>4. /\ Whole(Odd, "get", key)
        /\ Plain(Odd) => /\ Contract!Returns("get", key, TRUE, value)
                         /\ Contents(cache')[key] = new
    BY <2>3, DoneReturns
  <2>5. Contract!Fresh(key)
    BY <1>4, <1>8 DEF Contract!Fresh
  <2>6. value = Contents(cache)[key].value
    BY <1>4, <1>8, <2>1 DEF Content
  <2>7. cache'.cas = cache.cas /\ Contents(cache')[key] = Contents(cache)[key]
    BY <1>1, <1>8
  <2> QED
    BY <2>4, <2>5, <2>6, <2>7 DEF Contract!Get
<1> QED
  BY <1>5, <1>6, <1>7, <1>8

LEMMA DelServed ==
  ASSUME Timed, NEW Odd, NEW ch, Sound(Odd, cache, ch), NEW key \in Keys, Del(key)
  PROVE  \/ Crash
         \/ /\ Whole(Odd, "del", key)
            /\ Plain(Odd) => Contract!Del(key)
            /\ cache'.cas = cache.cas
<1>1. PICK c : c = cache
  OBVIOUS
<1>2. Sound(Odd, c, ch)
  BY <1>1
<1>3. PICK f : f = Find(c, key)
  OBVIOUS
<1>4. /\ f.item = NULL => ~Contract!Present(key)
      /\ f.item # NULL => /\ Contract!Present(key)
                          /\ Expired(f.item) <=> Contract!Past(key)
  BY <1>1, <1>2, <1>3, SearchMeans
<1>5. \/ f.item = NULL /\ Refuse("del", key)
      \/ f.item # NULL /\ Expired(f.item) /\ RemoveFound("del", key, f, FALSE)
      \/ f.item # NULL /\ ~Expired(f.item) /\ RemoveFound("del", key, f, TRUE)
  <2>1. \/ f.item = NULL /\ Refuse("del", key)
        \/ f.item # NULL /\ RemoveFound("del", key, f, ~Expired(f.item))
    BY <1>1, <1>3 DEF Del
  <2>2. PICK ok \in BOOLEAN : ok = ~Expired(f.item)
    OBVIOUS
  <2> QED
    BY <2>1, <2>2
<1>6. CASE f.item = NULL /\ Refuse("del", key)
  <2>1. ~Contract!Fresh(key)
    BY <1>4, <1>6 DEF Contract!Fresh
  <2> QED
    BY <1>6, <2>1, RefuseDeclines DEF Contract!Del, Refuse
<1>7. CASE f.item # NULL /\ Expired(f.item) /\ RemoveFound("del", key, f, FALSE)
  <2>1. Crash \/ Removed(Odd, "del", key, FALSE)
    BY <1>1, <1>2, <1>3, <1>7, RemoveDone
  <2>2. ~Contract!Fresh(key)
    BY <1>4, <1>7 DEF Contract!Fresh
  <2> QED
    BY <2>1, <2>2, RemovedDeclines DEF Contract!Del, Removed
<1>8. CASE f.item # NULL /\ ~Expired(f.item) /\ RemoveFound("del", key, f, TRUE)
  <2>1. Crash \/ Removed(Odd, "del", key, TRUE)
    BY <1>1, <1>2, <1>3, <1>8, RemoveDone
  <2>2. Contract!Fresh(key)
    BY <1>4, <1>8 DEF Contract!Fresh
  <2>3. ASSUME Removed(Odd, "del", key, TRUE)
        PROVE  /\ Whole(Odd, "del", key) /\ cache'.cas = cache.cas
               /\ Plain(Odd) => Contract!Del(key)
    <3>1. Done(Odd, "del", key, TRUE, <<>>, Absent) /\ cache'.cas = cache.cas
      BY <2>3 DEF Removed
    <3>2. /\ Whole(Odd, "del", key)
          /\ Plain(Odd) => /\ Contract!Returns("del", key, TRUE, <<>>)
                           /\ Contents(cache')[key] = Absent
      BY <3>1, DoneReturns
    <3> QED
      BY <2>2, <3>1, <3>2 DEF Contract!Del
  <2> QED
    BY <2>1, <2>3
<1> QED
  BY <1>5, <1>6, <1>7, <1>8

(* insert behind the last item, for a key that is not found.               *)
LEMMA InsertDone ==
  ASSUME NEW Odd, NEW c, c = cache, NEW ch, Sound(Odd, c, ch), NEW key \in Keys,
         NEW f, f = Find(c, key), f.item = NULL,
         NEW data \in Data, NEW expiration \in Expirations, time \in Nat,
         NEW r, r = Insert(c, key, data, expiration, f.previous),
         NEW op, AcceptInsert(op, key, r)
  PROVE  Wrote(Odd, op, key, Holding(data, SetupExpire(expiration), c.cas))
<1>1. PICK b, k : Search(c, ch, key, f, b, k)
  BY SearchEnds
<1>2. /\ b \in Bins /\ b = HashOf[key] /\ k \in 1..(Len(ch[b]) + 1) /\ k = Len(ch[b]) + 1
      /\ \A i \in 1..(k - 1) : c.item[ch[b][i]].key # key
      /\ f.previous = Before(ch[b], k)
  BY <1>1 DEF Search
<1>3. data \in Seq(Bytes) /\ SetupExpire(expiration) \in Nat
  BY CacheAssumption DEF SetupExpire
<1>4. PICK expire : expire = SetupExpire(expiration)
  OBVIOUS
<1>5. PICK w, y : w = r.cache /\ y = r.item
  OBVIOUS
<1>6. y # NULL /\ Accept(op, key, w)
  BY <1>5 DEF AcceptInsert
<1>7. /\ Entered(Odd, c, ch, b, k, w, y)
      /\ Reads(w, y, key, data, expire, c.cas)
      /\ w.cas = c.cas + 1
  <2>1. \A i \in 1..(k - 1) : c.item[ch[HashOf[key]][i]].key # key
    BY <1>2
  <2>2. k \in 1..(Len(ch[HashOf[key]]) + 1)
    BY <1>2
  <2>3. r = Insert(c, key, data, expiration, Before(ch[HashOf[key]], k))
    BY <1>2
  <2>4. r.item # NULL
    BY <1>5, <1>6
  <2>5. IF r.item = NULL THEN r.cache = c
        ELSE /\ Entered(Odd, c, ch, HashOf[key], k, r.cache, r.item)
             /\ Reads(r.cache, r.item, key, data, SetupExpire(expiration), c.cas)
             /\ r.cache.cas = c.cas + 1
    BY <1>3, <2>1, <2>2, <2>3, InsertSound
  <2> QED
    BY <1>2, <1>4, <1>5, <2>4, <2>5
<1>8. PICK e : /\ Sound(Odd, w, e) /\ ~Apart(e, y) /\ Granted(c, w, y)
               /\ OnlyOld(c, ch, w, e, NULL, y)
               /\ k = Len(ch[b]) + 1 => AllOld(ch, e, NULL, y)
  BY <1>7 DEF Entered
<1>9. PICK x : x = NULL
  OBVIOUS
<1>10. OnlyOld(c, ch, w, e, x, y) /\ AllOld(ch, e, x, y) /\ Target(Odd, c, ch, key, x)
  <2>1. Target(Odd, c, ch, key, f.item)
    BY SearchTarget
  <2> QED
    BY <1>2, <1>8, <1>9, <2>1
<1>11. PICK new : new = Holding(data, expire, c.cas)
  OBVIOUS
<1>12. new = IF key = key THEN Holding(data, expire, c.cas) ELSE Absent
  BY <1>11
<1>13. key \in {key} \cup Odd
  OBVIOUS
<1>14. Leaked(w) = Leaked(c)
  <2>1. OnlyOld(c, ch, w, e, NULL, y) /\ AllOld(ch, e, NULL, y)
    BY <1>2, <1>8
  <2>2. Traded(c.heap, w.heap, NULL, y)
    BY <1>8, AllocTrades DEF Granted
  <2> QED
    BY <1>8, <2>1, <2>2, TradeLosesNothing
<1>15. Balanced(c, w)
  BY <1>14 DEF Balanced
<1>16. Wrote(Odd, op, key, new)
  BY <1>6, <1>7, <1>8, <1>10, <1>12, <1>13, <1>15, WroteWhole
<1> QED
  BY <1>4, <1>11, <1>16

LEMMA SetServed ==
  ASSUME Timed, NEW Odd, NEW ch, Sound(Odd, cache, ch), NEW key \in Keys,
         NEW data \in Data, NEW expiration \in Expirations,
         Set(key, data, expiration)
  PROVE  Crash \/ (/\ Whole(Odd, "set", key)
                   /\ Plain(Odd) => Contract!Set(key, data, expiration))
<1>1. PICK c : c = cache
  OBVIOUS
<1>2. Sound(Odd, c, ch)
  BY <1>1
<1>3. PICK f : f = Find(c, key)
  OBVIOUS
<1>4. /\ f.item = NULL => ~Contract!Present(key)
      /\ f.item # NULL => Contract!Present(key)
  BY <1>1, <1>2, <1>3, SearchMeans
<1>5. PICK r : r = Insert(c, key, data, expiration, f.previous)
  OBVIOUS
<1>6. \/ f.item # NULL /\ Overwrite("set", key, f, data, expiration)
      \/ f.item = NULL /\ Refuse("set", key)
      \/ f.item = NULL /\ AcceptInsert("set", key, r)
  BY <1>1, <1>3, <1>5 DEF Set
<1>7. CASE f.item # NULL /\ Overwrite("set", key, f, data, expiration)
  <2>1. PICK b, k : Search(c, ch, key, f, b, k)
    BY <1>2, <1>3, SearchEnds
  <2>2. Crash \/ Wrote(Odd, "set", key, Holding(data, expiration, c.cas))
    BY <1>1, <1>2, <1>3, <1>7, <2>1, OverwriteDone
  <2>3. Crash \/ (/\ Whole(Odd, "set", key)
                  /\ Plain(Odd) => Contract!Stores("set", key, data, expiration))
    BY <1>1, <2>2, WroteStores
  <2> QED
    BY <1>4, <1>7, <2>3 DEF Contract!Set
<1>8. CASE f.item = NULL /\ Refuse("set", key)
  BY <1>4, <1>8, RefuseDeclines DEF Contract!Set
<1>9. CASE f.item = NULL /\ AcceptInsert("set", key, r)
  <2>1. PICK expire : expire = SetupExpire(expiration)
    OBVIOUS
  <2>2. Wrote(Odd, "set", key, Holding(data, expire, c.cas))
    BY <1>1, <1>2, <1>3, <1>5, <1>9, <2>1, InsertDone DEF Timed
  <2>3. /\ Whole(Odd, "set", key)
        /\ Plain(Odd) => Contract!Stores("set", key, data, expire)
    BY <1>1, <2>2, WroteStores
  <2>4. expire = Contract!Deadline(expiration)
    BY <2>1 DEF SetupExpire, Contract!Deadline
  <2> QED
    BY <1>4, <1>9, <2>3, <2>4 DEF Contract!Set
<1> QED
  BY <1>6, <1>7, <1>8, <1>9

LEMMA ReplaceServed ==
  ASSUME Timed, NEW Odd, NEW ch, Sound(Odd, cache, ch), NEW key \in Keys,
         NEW data \in Data, NEW expiration \in Expirations,
         Replace(key, data, expiration)
  PROVE  Crash \/ (/\ Whole(Odd, "replace", key)
                   /\ Plain(Odd) => Contract!Replace(key, data, expiration))
<1>1. PICK c : c = cache
  OBVIOUS
<1>2. Sound(Odd, c, ch)
  BY <1>1
<1>3. PICK f : f = Find(c, key)
  OBVIOUS
<1>4. /\ f.item = NULL => ~Contract!Present(key)
      /\ f.item # NULL => /\ Contract!Present(key)
                          /\ Expired(f.item) <=> Contract!Past(key)
  BY <1>1, <1>2, <1>3, SearchMeans
<1>5. \/ f.item = NULL /\ Refuse("replace", key)
      \/ f.item # NULL /\ Expired(f.item) /\ RemoveFound("replace", key, f, FALSE)
      \/ /\ f.item # NULL /\ ~Expired(f.item)
         /\ Overwrite("replace", key, f, data, expiration)
  BY <1>1, <1>3 DEF Replace, RefuseExpired
<1>6. CASE f.item = NULL /\ Refuse("replace", key)
  <2>1. ~Contract!Fresh(key)
    BY <1>4, <1>6 DEF Contract!Fresh
  <2> QED
    BY <1>6, <2>1, RefuseDeclines DEF Contract!Replace
<1>7. CASE f.item # NULL /\ Expired(f.item) /\ RemoveFound("replace", key, f, FALSE)
  <2>1. Crash \/ Removed(Odd, "replace", key, FALSE)
    BY <1>1, <1>2, <1>3, <1>7, RemoveDone
  <2>2. ~Contract!Fresh(key)
    BY <1>4, <1>7 DEF Contract!Fresh
  <2> QED
    BY <2>1, <2>2, RemovedDeclines DEF Contract!Replace
<1>8. CASE /\ f.item # NULL /\ ~Expired(f.item)
           /\ Overwrite("replace", key, f, data, expiration)
  <2>1. PICK b, k : Search(c, ch, key, f, b, k)
    BY <1>2, <1>3, SearchEnds
  <2>2. Crash \/ Wrote(Odd, "replace", key, Holding(data, expiration, c.cas))
    BY <1>1, <1>2, <1>3, <1>8, <2>1, OverwriteDone
  <2>3. Crash \/ (/\ Whole(Odd, "replace", key)
                  /\ Plain(Odd) => Contract!Stores("replace", key, data, expiration))
    BY <1>1, <2>2, WroteStores
  <2>4. Contract!Fresh(key)
    BY <1>4, <1>8 DEF Contract!Fresh
  <2> QED
    BY <2>3, <2>4 DEF Contract!Replace
<1> QED
  BY <1>5, <1>6, <1>7, <1>8

(* Leading to what was there before is transitive.                         *)
LEMMA OldAgain ==
  ASSUME NEW c, NEW ch, NEW d, NEW e, NEW x, OnlyOld(c, ch, d, e, x, NULL),
         AllOld(ch, e, x, NULL), NEW w, NEW v, NEW y, OnlyOld(d, e, w, v, NULL, y)
  PROVE  /\ OnlyOld(c, ch, w, v, x, y)
         /\ AllOld(e, v, NULL, y) => AllOld(ch, v, x, y)
<1>1. ASSUME NEW p, ~Apart(v, p), p # y
      PROVE  ~Apart(ch, p) /\ p # x /\ Stays(c, w, p)
  <2>1. ~Apart(e, p) /\ p # NULL /\ Stays(d, w, p)
    BY <1>1, Zenon DEF OnlyOld
  <2>2. ~Apart(ch, p) /\ p # x /\ Stays(c, d, p)
    BY <2>1, Zenon DEF OnlyOld
  <2> QED
    BY <2>1, <2>2 DEF Stays
<1>2. OnlyOld(c, ch, w, v, x, y)
  BY <1>1, Zenon DEF OnlyOld
<1>3. ASSUME AllOld(e, v, NULL, y), NEW p, ~Apart(ch, p), p # x
      PROVE  ~Apart(v, p) /\ p # y
  <2>1. ~Apart(e, p) /\ p # NULL
    BY <1>3, Zenon DEF AllOld
  <2> QED
    BY <1>3, <2>1, Zenon DEF AllOld
<1>4. AllOld(e, v, NULL, y) => AllOld(ch, v, x, y)
  BY <1>3, Zenon DEF AllOld
<1> QED
  BY <1>2, <1>4

(* add in the place of an expired item: the new one takes the position of  *)
(* the old one, and what came behind it is cut off.                        *)
LEMMA AddOverDone ==
  ASSUME NEW Odd, NEW c, c = cache, NEW ch, Sound(Odd, c, ch), NEW key \in Keys,
         NEW f, f = Find(c, key), f.item # NULL,
         NEW data \in Data, NEW expiration \in Expirations, time \in Nat,
         NEW d, d = Discard(key, f),
         NEW r, r = Insert(d, key, data, expiration, f.previous)
  PROVE  /\ r.item = NULL => r.cache = d
         /\ CanFree(f.item) /\ AcceptInsert("add", key, r) =>
              Wrote(Odd, "add", key, Holding(data, SetupExpire(expiration), c.cas))
<1>1. PICK b, k : Search(c, ch, key, f, b, k)
  BY SearchEnds
<1>2. PICK x : x = f.item
  OBVIOUS
<1>3. /\ b \in Bins /\ b = HashOf[key] /\ k \in 1..Len(ch[b]) /\ x = ch[b][k]
      /\ \A i \in 1..(k - 1) : c.item[ch[b][i]].key # key
      /\ f.previous = Before(ch[b], k)
  BY <1>1, <1>2 DEF Search
<1>4. PICK e : Discarded(Odd, c, ch, b, k, d, e)
  BY <1>1, DiscardDone
<1>5. /\ Sound(Odd, d, e) /\ d.cas = c.cas
      /\ k \in 1..(Len(e[b]) + 1) /\ f.previous = Before(e[b], k)
      /\ OnlyOld(c, ch, d, e, x, NULL) /\ AllOld(ch, e, x, NULL)
      /\ k = Len(ch[b]) => Len(e[b]) = k - 1
  BY <1>3, <1>4 DEF Discarded
<1>6. \A i \in 1..(k - 1) : d.item[e[b][i]].key # key
  BY <1>3, <1>4 DEF Discarded
<1>7. PICK w, y : w = r.cache /\ y = r.item
  OBVIOUS
<1>8. PICK expire : expire = SetupExpire(expiration)
  OBVIOUS
<1>9. IF y = NULL THEN w = d
      ELSE /\ Entered(Odd, d, e, b, k, w, y)
           /\ Reads(w, y, key, data, expire, c.cas)
           /\ w.cas = c.cas + 1
  <2>1. data \in Seq(Bytes) /\ SetupExpire(expiration) \in Nat
    BY CacheAssumption DEF SetupExpire
  <2>2. \A i \in 1..(k - 1) : d.item[e[HashOf[key]][i]].key # key
    BY <1>3, <1>6
  <2>3. k \in 1..(Len(e[HashOf[key]]) + 1)
    BY <1>3, <1>5
  <2>4. r = Insert(d, key, data, expiration, Before(e[HashOf[key]], k))
    BY <1>3, <1>5
  <2>5. Sound(Odd, d, e)
    BY <1>5
  <2>6. IF r.item = NULL THEN r.cache = d
        ELSE /\ Entered(Odd, d, e, HashOf[key], k, r.cache, r.item)
             /\ Reads(r.cache, r.item, key, data, SetupExpire(expiration), d.cas)
             /\ r.cache.cas = d.cas + 1
    BY <2>1, <2>2, <2>3, <2>4, <2>5, InsertSound
  <2> QED
    BY <1>3, <1>5, <1>7, <1>8, <2>6
<1>10. ASSUME CanFree(f.item), y # NULL, Accept("add", key, w)
       PROVE  Wrote(Odd, "add", key, Holding(data, expire, c.cas))
  <2>1. PICK v : /\ Sound(Odd, w, v) /\ ~Apart(v, y) /\ Granted(d, w, y)
                 /\ OnlyOld(d, e, w, v, NULL, y)
                 /\ k = Len(e[b]) + 1 => AllOld(e, v, NULL, y)
    BY <1>9, <1>10 DEF Entered
  <2>2. /\ OnlyOld(c, ch, w, v, x, y)
        /\ AllOld(e, v, NULL, y) => AllOld(ch, v, x, y)
    BY <1>5, <2>1, OldAgain
  <2>3. PICK new : new = Holding(data, expire, c.cas)
    OBVIOUS
  <2>4. /\ Lessens(Odd, c, w, key, new)
        /\ AllOld(ch, v, x, y) => Becomes(Odd, c, w, key, new)
    <3>1. Target(Odd, c, ch, key, x)
      BY <1>2, SearchTarget
    <3>2. new = IF key = key THEN Holding(data, expire, c.cas) ELSE Absent
      BY <2>3
    <3>3. key \in {key} \cup Odd
      OBVIOUS
    <3>4. Reads(w, y, key, data, expire, c.cas)
      BY <1>9, <1>10
    <3> QED
      BY <2>1, <2>2, <3>1, <3>2, <3>3, <3>4, ItemChanged
  <2>5. /\ cache' = w /\ answer' = Answer("add", key, TRUE, <<>>)
        /\ time' = clock /\ crashed' = crashed
    BY <1>10 DEF Accept, Update
  <2>6. c.item[x].next = NULL => k = Len(ch[b]) /\ k = Len(e[b]) + 1
    <3> SUFFICES ASSUME c.item[x].next = NULL PROVE k = Len(ch[b]) /\ k = Len(e[b]) + 1
      OBVIOUS
    <3>1. k = Len(ch[b])
      BY <1>3, LastPosition
    <3>2. e[b] \in Seq(Items(d))
      BY <1>3, <1>5 DEF Sound, Shape
    <3>3. Len(e[b]) \in Nat /\ Len(e[b]) = k - 1
      BY <1>5, <3>1, <3>2
    <3> QED
      BY <1>5, <3>1, <3>3
  <2>7. c.item[x].next # NULL => CutsChain
    <3>1. answer'.op = "add" /\ answer'.ok /\ answer'.key = key
      BY <2>5 DEF Answer
    <3>2. Find(cache, answer'.key) = f
      BY <3>1
    <3> QED
      BY <1>2, <3>1, <3>2 DEF CutsChain
  <2>8. Becomes(Odd, c, w, key, new) \/ CutsChain
    BY <2>1, <2>2, <2>4, <2>6, <2>7
  <2>9. Balanced(c, w)
    <3>1. CASE c.item[x].next = NULL
      <4>1. OnlyOld(d, e, w, v, NULL, y) /\ AllOld(e, v, NULL, y)
        BY <2>1, <2>6, <3>1
      <4>2. Sound(Odd, d, e) /\ Sound(Odd, w, v) /\ ~Apart(v, y)
        BY <1>5, <2>1
      <4>5. Traded(d.heap, w.heap, NULL, y)
        BY <2>1, AllocTrades DEF Granted
      <4>3. Leaked(w) = Leaked(d)
        BY <4>1, <4>2, <4>5, TradeLosesNothing
      <4>4. SmallArena => Leaked(d) = Leaked(c)
        BY <1>1, <1>10, DiscardDone
      <4> QED
        BY <4>3, <4>4 DEF Balanced
    <3>2. CASE c.item[x].next # NULL
      BY <2>7, <3>2 DEF Balanced, MayLeak
    <3> QED
      BY <3>1, <3>2
  <2>10. OneStamped(c, w) /\ w.cas = c.cas + 1
    <3>1. w.item[y].cas = c.cas /\ w.cas = c.cas + 1
      BY <1>9, <1>10 DEF Reads
    <3> QED
      BY <2>1, <2>2, <3>1, StampedOnce
  <2>11. Done(Odd, "add", key, TRUE, <<>>, new)
    BY <2>1, <2>4, <2>5, <2>8, <2>9, <2>10 DEF Done
  <2> QED
    BY <1>9, <1>10, <2>3, <2>5, <2>11 DEF Wrote
<1> QED
  BY <1>7, <1>8, <1>9, <1>10 DEF AcceptInsert

LEMMA AddServed ==
  ASSUME Timed, NEW Odd, NEW ch, Sound(Odd, cache, ch), NEW key \in Keys,
         NEW data \in Data, NEW expiration \in Expirations,
         Add(key, data, expiration)
  PROVE  Crash \/ (/\ Whole(Odd, "add", key)
                   /\ Plain(Odd) => Contract!Add(key, data, expiration))
<1>1. PICK c : c = cache
  OBVIOUS
<1>2. Sound(Odd, c, ch)
  BY <1>1
<1>3. PICK f : f = Find(c, key)
  OBVIOUS
<1>4. /\ f.item = NULL => ~Contract!Present(key)
      /\ f.item # NULL => /\ Contract!Present(key)
                          /\ Expired(f.item) <=> Contract!Past(key)
  BY <1>1, <1>2, <1>3, SearchMeans
<1>5. PICK d : d = IF f.item = NULL THEN c ELSE Discard(key, f)
  OBVIOUS
<1>6. PICK r : r = Insert(d, key, data, expiration, f.previous)
  OBVIOUS
<1>7. PICK expire : expire = SetupExpire(expiration)
  OBVIOUS
<1>8. \/ Refuse("add", key)
      \/ Crash
      \/ /\ f.item # NULL => Expired(f.item) /\ CanFree(f.item)
         /\ r.item = NULL /\ cache' = r.cache
         /\ answer' = Answer("add", key, FALSE, <<>>)
         /\ time' = clock /\ crashed' = crashed
      \/ /\ f.item # NULL => Expired(f.item) /\ CanFree(f.item)
         /\ AcceptInsert("add", key, r)
  BY <1>1, <1>3, <1>5, <1>6 DEF Add, Update
<1>9. /\ r.item = NULL => r.cache = d
      /\ (f.item # NULL => CanFree(f.item)) /\ AcceptInsert("add", key, r)
           => Wrote(Odd, "add", key, Holding(data, expire, c.cas))
  <2>1. time \in Nat
    BY DEF Timed
  <2>2. CASE f.item = NULL
    <3>1. d = c /\ r = Insert(c, key, data, expiration, f.previous)
      BY <1>5, <1>6, <2>2
    <3>2. r.item = NULL => r.cache = d
      BY <1>6 DEF Insert
    <3>3. AcceptInsert("add", key, r) =>
            Wrote(Odd, "add", key, Holding(data, SetupExpire(expiration), c.cas))
      BY <1>1, <1>2, <1>3, <2>1, <2>2, <3>1, InsertDone
    <3> QED
      BY <1>7, <3>2, <3>3
  <2>3. CASE f.item # NULL
    <3>1. d = Discard(key, f)
      BY <1>5, <2>3
    <3>2. /\ r.item = NULL => r.cache = d
          /\ CanFree(f.item) /\ AcceptInsert("add", key, r) =>
               Wrote(Odd, "add", key, Holding(data, SetupExpire(expiration), c.cas))
      BY <1>1, <1>2, <1>3, <1>6, <2>1, <2>3, <3>1, AddOverDone
    <3> QED
      BY <1>7, <2>3, <3>2
  <2> QED
    BY <2>2, <2>3
<1>10. (f.item # NULL => Expired(f.item)) => ~Contract!Fresh(key)
  BY <1>4 DEF Contract!Fresh
<1>11. CASE Refuse("add", key)
  BY <1>11, RefuseDeclines DEF Contract!Add
<1>12. CASE /\ f.item # NULL => Expired(f.item) /\ CanFree(f.item)
            /\ r.item = NULL /\ cache' = r.cache
            /\ answer' = Answer("add", key, FALSE, <<>>)
            /\ time' = clock /\ crashed' = crashed
  <2>1. cache' = d /\ ~Contract!Fresh(key)
    BY <1>9, <1>10, <1>12
  <2>2. CASE f.item = NULL
    <3>1. Refuse("add", key)
      BY <1>1, <1>5, <1>12, <2>1, <2>2 DEF Refuse, Update
    <3> QED
      BY <3>1, RefuseDeclines DEF Contract!Add
  <2>3. CASE f.item # NULL
    <3>1. d = Discard(key, f)
      BY <1>5, <2>3
    <3>2. PICK b, k : Search(c, ch, key, f, b, k)
      BY <1>2, <1>3, SearchEnds
    <3>3. PICK e : Discarded(Odd, c, ch, b, k, d, e)
      BY <1>1, <1>2, <1>3, <2>3, <3>1, <3>2, DiscardDone
    <3>4. Sound(Odd, d, e) /\ d.cas = c.cas
      BY <3>3 DEF Discarded
    <3>5. /\ Becomes(Odd, c, d, key, Absent) /\ OneStamped(c, d)
          /\ d.cas \in {c.cas, c.cas + 1}
      BY <1>1, <1>2, <1>3, <2>3, <3>1, <3>2, <3>4, DiscardDone
    <3>6. Balanced(c, d)
      BY <1>1, <1>2, <1>3, <1>12, <2>3, <3>1, <3>2, DiscardDone DEF Balanced
    <3>7. Done(Odd, "add", key, FALSE, <<>>, Absent)
      BY <1>1, <1>12, <2>1, <3>4, <3>5, <3>6, WholeDone
    <3>8. Removed(Odd, "add", key, FALSE)
      BY <1>1, <2>1, <3>4, <3>7 DEF Removed
    <3> QED
      BY <2>1, <3>8, RemovedDeclines DEF Contract!Add
  <2> QED
    BY <2>2, <2>3
<1>13. CASE /\ f.item # NULL => Expired(f.item) /\ CanFree(f.item)
            /\ AcceptInsert("add", key, r)
  <2>1. /\ Whole(Odd, "add", key)
        /\ Plain(Odd) => Contract!Stores("add", key, data, expire)
    BY <1>1, <1>9, <1>13, WroteStores
  <2>2. expire = Contract!Deadline(expiration)
    BY <1>7 DEF SetupExpire, Contract!Deadline
  <2> QED
    BY <1>10, <1>13, <2>1, <2>2 DEF Contract!Add
<1> QED
  BY <1>8, <1>11, <1>12, <1>13

(* What cas writes for an absent key is led to by no chain.                *)
LEMMA HeldIsLost ==
  ASSUME NEW Odd, NEW c, NEW ch, Sound(Odd, c, ch), NEW key \in Keys, NEW f, f = Find(c,
         key),
         f.item = NULL, NEW g, NEW p, NEW rec, NEW d, Holds(Odd, c, ch, g, p, rec, d)
  PROVE  /\ Sound(Odd, d, ch) /\ Becomes(Odd, c, d, key, Absent)
         /\ OneStamped(c, d) /\ d.cas = c.cas + 1
<1>1. /\ Sound(Odd, d, ch) /\ d.cas = c.cas + 1
      /\ \A q \in Items(c) : d.item[q] = c.item[q]
  BY DEF Holds
<1>2. PICK x : x = NULL
  OBVIOUS
<1>3. Target(Odd, c, ch, key, x)
  <2>1. Target(Odd, c, ch, key, f.item)
    BY SearchTarget
  <2> QED
    BY <1>2, <2>1
<1>4. ASSUME NEW q, ~Apart(ch, q), q # NULL
      PROVE  q # x /\ Stays(c, d, q)
  <2>1. q \in Items(c)
    BY <1>4, LinkedItems DEF Sound
  <2> QED
    BY <1>1, <1>2, <1>4, <2>1 DEF Stays
<1>5. OnlyOld(c, ch, d, ch, x, NULL)
  BY <1>4, Zenon DEF OnlyOld
<1>6. AllOld(ch, ch, x, NULL)
  BY <1>2, Zenon DEF AllOld
<1>7. Becomes(Odd, c, d, key, Absent)
  BY <1>1, <1>3, <1>5, <1>6, ItemGone
<1>8. OneStamped(c, d)
  <2>1. PICK y : y = NULL
    OBVIOUS
  <2>2. OnlyOld(c, ch, d, ch, x, y) /\ Apart(ch, y)
    BY <1>5, <2>1, NothingAtNull
  <2> QED
    BY <1>1, <2>2, StampedOnce
<1> QED
  BY <1>1, <1>7, <1>8

LEMMA CasServed ==
  ASSUME Timed, NEW Odd, NEW ch, Sound(Odd, cache, ch), NEW key \in Keys, NEW casUnique,
         NEW data \in Data, NEW expiration \in Expirations,
         Cas(key, casUnique, data, expiration)
  PROVE  Crash \/ (/\ Whole(Odd, "cas", key)
                   /\ Plain(Odd) => Contract!Cas(key, casUnique, data, expiration))
<1>1. PICK c : c = cache
  OBVIOUS
<1>2. Sound(Odd, c, ch)
  BY <1>1
<1>3. PICK f : f = Find(c, key)
  OBVIOUS
<1>4. /\ f.item = NULL => ~Contract!Present(key)
      /\ f.item # NULL => /\ Contract!Present(key)
                          /\ Contents(cache)[key] = Content(c, f.item)
  BY <1>1, <1>2, <1>3, SearchMeans
<1>5. Content(c, f.item).cas = c.item[f.item].cas
  BY DEF Content
<1>6. data \in Seq(Bytes) /\ SetupExpire(expiration) \in Nat
  BY CacheAssumption DEF SetupExpire, Timed
<1>7. PICK n \in Nat : n = Len(data)
  BY <1>6
<1>8. PICK expire \in Nat : expire = SetupExpire(expiration)
  BY <1>6
<1>9. PICK r : r = AllocItem(c, n)
  OBVIOUS
<1>10. PICK g, p : g = r.heap /\ p = r.ptr
  OBVIOUS
<1>11. PICK rec : rec = [key |-> key, value |-> data, cas |-> c.cas,
                         expire |-> expire, next |-> NULL]
  OBVIOUS
<1>12. PICK d : d = [PutItem(c, g, p, rec) EXCEPT !.cas = c.cas + 1]
  OBVIOUS
<1>13. \/ f.item # NULL /\ c.item[f.item].cas # casUnique /\ Refuse("cas", key)
       \/ /\ f.item # NULL /\ c.item[f.item].cas = casUnique
          /\ Overwrite("cas", key, f, data, expiration)
       \/ Crash
       \/ f.item = NULL /\ p # NULL /\ Accept("cas", key, d)
  BY <1>1, <1>3, <1>7, <1>8, <1>9, <1>10, <1>11, <1>12 DEF Cas
<1>14. CASE f.item # NULL /\ c.item[f.item].cas # casUnique /\ Refuse("cas", key)
  <2>1. Whole(Odd, "cas", key) /\ (Plain(Odd) => Contract!Declines("cas", key))
    BY <1>14, RefuseDeclines
  <2> QED
    BY <1>4, <1>5, <1>14, <2>1 DEF Contract!Cas
<1>15. CASE /\ f.item # NULL /\ c.item[f.item].cas = casUnique
            /\ Overwrite("cas", key, f, data, expiration)
  <2>1. PICK b, k : Search(c, ch, key, f, b, k)
    BY <1>2, <1>3, SearchEnds
  <2>2. Crash \/ Wrote(Odd, "cas", key, Holding(data, expiration, c.cas))
    BY <1>1, <1>2, <1>3, <1>15, <2>1, OverwriteDone
  <2>3. Crash \/ (/\ Whole(Odd, "cas", key)
                  /\ Plain(Odd) => Contract!Stores("cas", key, data, expiration))
    BY <1>1, <2>2, WroteStores
  <2> QED
    BY <1>4, <1>5, <1>15, <2>3 DEF Contract!Cas
<1>16. CASE f.item = NULL /\ p # NULL /\ Accept("cas", key, d)
  <2>1. Room(n) \in Nat /\ Allocated(c.heap, g, p, Room(n))
    BY <1>2, <1>9, <1>10, <1>16, AllocItemProperties DEF Room
  <2>2. PICK m \in Nat : m = Room(n)
    BY <2>1
  <2>3. rec \in ItemRecord /\ rec.cas = c.cas /\ rec.value = data
    BY <1>2, <1>6, <1>11 DEF ItemRecord, NULL, Sound, Store
  <2>4. Fitting(m, rec.value)
    BY <1>7, <2>1, <2>2, <2>3 DEF Fitting, Room
  <2>5. Holds(Odd, c, ch, g, p, rec, d)
    BY <1>2, <1>12, <2>1, <2>2, <2>3, <2>4, PutSound
  <2>6. /\ Sound(Odd, d, ch) /\ Becomes(Odd, c, d, key, Absent)
        /\ OneStamped(c, d) /\ d.cas = c.cas + 1
    BY <1>2, <1>3, <1>16, <2>5, HeldIsLost
  <2>7. /\ cache' = d /\ answer' = Answer("cas", key, TRUE, <<>>)
        /\ time' = clock /\ crashed' = crashed
    BY <1>16 DEF Accept, Update
  <2>8. Balanced(c, d)
    <3>1. answer'.op = "cas" /\ answer'.ok /\ answer'.key = key
      BY <2>7 DEF Answer
    <3>2. Find(cache, answer'.key).item = NULL
      BY <1>1, <1>3, <1>16, <3>1
    <3> QED
      BY <3>1, <3>2 DEF Balanced, MayLeak
  <2>9. Done(Odd, "cas", key, TRUE, <<>>, Absent)
    BY <1>1, <2>6, <2>7, <2>8, WholeDone
  <2>10. /\ Whole(Odd, "cas", key)
         /\ Plain(Odd) => /\ Contract!Returns("cas", key, TRUE, <<>>)
                          /\ Contents(cache')[key] = Absent
    BY <2>9, DoneReturns
  <2>11. cache'.cas = cache.cas + 1
    BY <1>1, <2>6, <2>7
  <2> QED
    BY <1>4, <1>16, <2>10, <2>11 DEF Contract!Cas
<1> QED
  BY <1>13, <1>14, <1>15, <1>16

\* The item is a copy of old with a new value and a key that may be odd; new is
\* what the key has then.
Edits(Odd, c, key, old, name, value, cbValue, item, new) ==
  /\ name \in Keys \cup {Garbled} /\ name \in {key} \cup Odd
  /\ value \in Seq(Bytes) /\ Len(value) <= cbValue
  /\ item = [old EXCEPT !.key = name, !.value = value]
  /\ new = IF name = key THEN Holding(value, old.expire, c.cas) ELSE Absent

(* A caller of growAndReplace that keeps the time to expire.               *)
LEMMA EditDone ==
  ASSUME NEW Odd, NEW c, c = cache, NEW ch, Sound(Odd, c, ch), NEW key \in Keys,
         NEW f, f = Find(c, key), f.item # NULL,
         NEW old, old = c.item[f.item], NEW name, NEW value, NEW cbValue \in Nat,
         NEW item, NEW new, Edits(Odd, c, key, old, name, value, cbValue, item, new),
         NEW op, Rewrite(op, key, f, Grown(key, f, cbValue), item)
  PROVE  Crash \/ Wrote(Odd, op, key, new)
<1>1. PICK b, k : Search(c, ch, key, f, b, k)
  BY SearchEnds
<1>2. old \in ItemRecord
  BY <1>1, FoundItem
<1>3. /\ item.key = name /\ item.value = value /\ item.expire = old.expire
      /\ old.expire \in Nat
  BY <1>2 DEF ItemRecord, Edits
<1>4. PICK g : g = Grown(key, f, cbValue)
  OBVIOUS
<1>5. PICK i : i = item
  OBVIOUS
<1>6. /\ i.key \in Keys \cup {Garbled} /\ i.key \in {key} \cup Odd
      /\ i.value \in Seq(Bytes)
      /\ Len(i.value) <= cbValue /\ i.expire \in Nat
      /\ Rewrite(op, key, f, g, i)
  BY <1>3, <1>4, <1>5 DEF Edits
<1>7. new = IF i.key = key THEN Holding(i.value, i.expire, c.cas) ELSE Absent
  BY <1>3, <1>5 DEF Edits
<1> QED
  BY <1>1, <1>4, <1>6, <1>7, RewriteDone

LEMMA PrependServed ==
  ASSUME Timed, NEW Odd, NEW ch, Sound(Odd, cache, ch), NEW key \in Keys, NEW data \in Data,
         Prepend(key, data)
  PROVE  Crash \/ (/\ Whole(Odd, "prepend", key)
                   /\ Plain(Odd) => Contract!Prepend(key, data))
<1>1. PICK c : c = cache
  OBVIOUS
<1>2. Sound(Odd, c, ch)
  BY <1>1
<1>3. PICK f : f = Find(c, key)
  OBVIOUS
<1>4. /\ f.item = NULL => ~Contract!Present(key)
      /\ f.item # NULL => /\ Contract!Present(key)
                          /\ Contents(cache)[key] = Content(c, f.item)
  BY <1>1, <1>2, <1>3, SearchMeans
<1>5. CASE f.item = NULL
  <2>1. Refuse("prepend", key)
    BY <1>1, <1>3, <1>5 DEF Prepend
  <2>2. Whole(Odd, "prepend", key) /\ (Plain(Odd) => Contract!Declines("prepend", key))
    BY <2>1, RefuseDeclines
  <2> QED
    BY <1>4, <1>5, <2>2 DEF Contract!Prepend, Contract!Change
<1>6. CASE f.item # NULL
  <2>1. PICK old : old = c.item[f.item]
    OBVIOUS
  <2>2. old \in ItemRecord /\ old.key = key
    <3>1. PICK b, k : Search(c, ch, key, f, b, k)
      BY <1>2, <1>3, SearchEnds
    <3> QED
      BY <1>2, <1>6, <2>1, <3>1, FoundItem
  <2>3. PICK value \in Seq(Bytes) : value = old.value
    BY <2>2 DEF ItemRecord
  <2>4. data \in Seq(Bytes)
    BY CacheAssumption
  <2>5. PICK m \in Nat : m = Len(data) + Len(value)
    BY <2>4
  <2>6. Rewrite("prepend", key, f, Grown(key, f, m), [old EXCEPT !.value = data \o value])
    BY <1>1, <1>3, <1>6, <2>1, <2>3, <2>5 DEF Prepend
  <2>7. PICK v : v = data \o value
    OBVIOUS
  <2>8. v \in Seq(Bytes) /\ Len(v) <= m
    BY <2>4, <2>5, <2>7
  <2>9. PICK item : item = [old EXCEPT !.key = key, !.value = v]
    OBVIOUS
  <2>10. Rewrite("prepend", key, f, Grown(key, f, m), item)
    <3>1. [old EXCEPT !.value = data \o value] = item
      BY <2>2, <2>7, <2>9, SameName
    <3> QED
      BY <2>6, <3>1
  <2>11. PICK new : new = Holding(v, old.expire, c.cas)
    OBVIOUS
  <2>12. key \in Keys \cup {Garbled} /\ key \in {key} \cup Odd
         /\ new = IF key = key THEN Holding(v, old.expire, c.cas) ELSE Absent
    BY <2>11
  <2>13. Crash \/ Wrote(Odd, "prepend", key, new)
    <3>1. Edits(Odd, c, key, old, key, v, m, item, new)
      BY <2>8, <2>9, <2>12 DEF Edits
    <3> QED
      BY <1>1, <1>2, <1>3, <1>6, <2>1, <2>10, <3>1, EditDone
  <2>14. PICK expire : expire = old.expire
    OBVIOUS
  <2>15. Crash \/ (/\ Whole(Odd, "prepend", key)
                   /\ Plain(Odd) => Contract!Stores("prepend", key, v, expire))
    BY <1>1, <2>11, <2>13, <2>14, WroteStores
  <2>16. v = data \o Contents(cache)[key].value /\ expire = Contents(cache)[key].expire
    <3>1. /\ Content(c, f.item).value = c.item[f.item].value
          /\ Content(c, f.item).expire = c.item[f.item].expire
      BY DEF Content
    <3> QED
      BY <1>4, <1>6, <2>1, <2>3, <2>7, <2>14, <3>1
  <2> QED
    BY <1>4, <1>6, <2>15, <2>16 DEF Contract!Prepend, Contract!Change
<1> QED
  BY <1>5, <1>6

\* The keys that appends have written, this one too, are odd.
HasSpelled(Odd) == spelled' \cup {Garbled} \subseteq Odd

(* append: the copy of an item that has moved may have an odd key.         *)
LEMMA AppendServed ==
  ASSUME Timed, NEW Odd, HasSpelled(Odd), NEW ch, Sound(Odd, cache, ch),
         NEW key \in Keys, NEW data \in Data,
         Append_(key, data)
  PROVE  Crash \/ Whole(Odd, "append", key)
<1>1. PICK c : c = cache
  OBVIOUS
<1>2. Sound(Odd, c, ch)
  BY <1>1
<1>3. PICK f : f = Find(c, key)
  OBVIOUS
<1>4. CASE f.item = NULL
  <2>1. Refuse("append", key)
    BY <1>1, <1>3, <1>4 DEF Append_
  <2> QED
    BY <2>1, RefuseDeclines
<1>5. CASE f.item # NULL
  <2>1. PICK old : old = c.item[f.item]
    OBVIOUS
  <2>2. old \in ItemRecord /\ old.key = key
    <3>1. PICK b, k : Search(c, ch, key, f, b, k)
      BY <1>2, <1>3, SearchEnds
    <3> QED
      BY <1>2, <1>5, <2>1, <3>1, FoundItem
  <2>3. PICK value \in Seq(Bytes) : value = old.value
    BY <2>2 DEF ItemRecord
  <2>4. data \in Seq(Bytes)
    BY CacheAssumption
  <2>5. PICK m \in Nat : m = Len(value) + Len(data)
    BY <2>4
  <2>6. PICK g : g = Grown(key, f, m)
    OBVIOUS
  <2>7. \/ Crash
        \/ Rewrite("append", key, f, g, [old EXCEPT !.value = value \o data])
        \/ \E junk \in [1..Len(data) -> Bytes],
              name \in Overwritten(key, Len(data) - Len(value)) :
             /\ Rewrite("append", key, f, g,
                  [old EXCEPT !.key = name, !.value = MisplacedAppend(value, data, junk)])
             /\ spelled' = spelled \cup ({name} \ {key, Garbled})
    BY <1>1, <1>3, <1>5, <2>1, <2>3, <2>5, <2>6 DEF Append_
  <2>8. ASSUME NEW name \in Keys \cup {Garbled}, name \in {key} \cup Odd,
               NEW v \in Seq(Bytes), Len(v) <= m,
               NEW item, item = [old EXCEPT !.key = name, !.value = v],
               Rewrite("append", key, f, g, item)
        PROVE  Crash \/ Whole(Odd, "append", key)
    <3>1. PICK new :
            new = IF name = key THEN Holding(v, old.expire, c.cas) ELSE Absent
      OBVIOUS
    <3>2. Rewrite("append", key, f, Grown(key, f, m), item)
      BY <2>6, <2>8
    <3>3. Crash \/ Wrote(Odd, "append", key, new)
      <4>1. Edits(Odd, c, key, old, name, v, m, item, new)
        BY <2>8, <3>1 DEF Edits
      <4> QED
        BY <1>1, <1>2, <1>3, <1>5, <2>1, <3>2, <4>1, EditDone
    <3>4. Wrote(Odd, "append", key, new) => Done(Odd, "append", key, TRUE, <<>>, new)
      BY DEF Wrote
    <3> QED
      BY <3>3, <3>4, DoneReturns
  <2>9. CASE Rewrite("append", key, f, g, [old EXCEPT !.value = value \o data])
    <3>1. PICK v : v = value \o data
      OBVIOUS
    <3>2. v \in Seq(Bytes) /\ Len(v) <= m
      BY <2>4, <2>5, <3>1
    <3>3. PICK item : item = [old EXCEPT !.key = key, !.value = v]
      OBVIOUS
    <3>4. [old EXCEPT !.value = value \o data] = item
      BY <2>2, <3>1, <3>3, SameName
    <3>5. Rewrite("append", key, f, g, item)
      BY <2>9, <3>4
    <3>6. key \in Keys \cup {Garbled} /\ key \in {key} \cup Odd
      OBVIOUS
    <3> QED
      BY <2>8, <3>2, <3>3, <3>5, <3>6
  <2>10. ASSUME NEW junk \in [1..Len(data) -> Bytes],
                NEW name \in Overwritten(key, Len(data) - Len(value)),
                Rewrite("append", key, f, g,
                  [old EXCEPT !.key = name, !.value = MisplacedAppend(value, data, junk)]),
                spelled' = spelled \cup ({name} \ {key, Garbled})
         PROVE  Crash \/ Whole(Odd, "append", key)
    <3>1. PICK v : v = MisplacedAppend(value, data, junk)
      OBVIOUS
    <3>2. v \in Seq(Bytes) /\ Len(v) <= m
      BY <2>4, <2>5, <3>1, AppendedType
    <3>3. name \in Keys \cup {Garbled}
      BY DEF Overwritten
    <3>4. name \in {key} \cup Odd
      BY <2>10 DEF HasSpelled
    <3>5. PICK item : item = [old EXCEPT !.key = name, !.value = v]
      OBVIOUS
    <3>6. Rewrite("append", key, f, g, item)
      BY <2>10, <3>1, <3>5
    <3> QED
      BY <2>8, <3>2, <3>3, <3>4, <3>5, <3>6
  <2> QED
    BY <2>7, <2>9, <2>10
<1> QED
  BY <1>4, <1>5

(* incr and decr: the number goes over the old value, and an item that has *)
(* moved is led to from the old one's place.                               *)
LEMMA CountServed ==
  ASSUME Timed, NEW Odd, NEW ch, Sound(Odd, cache, ch), NEW key \in Keys,
         NEW op \in {"incr", "decr"}, NEW increment \in Nat,
         IncrementDecrement(op, key, increment),
         NEW n, n = (Number(Contents(cache)[key].value) + increment) % Modulus
  PROVE  Crash \/ (/\ Whole(Odd, op, key)
                   /\ Plain(Odd) => Contract!Change(op, key, Digits(n)))
<1>1. PICK c : c = cache
  OBVIOUS
<1>2. Sound(Odd, c, ch)
  BY <1>1
<1>3. PICK f : f = Find(c, key)
  OBVIOUS
<1>4. /\ f.item = NULL => ~Contract!Present(key)
      /\ f.item # NULL => /\ Contract!Present(key)
                          /\ Contents(cache)[key] = Content(c, f.item)
  BY <1>1, <1>2, <1>3, SearchMeans
<1>5. PICK U \in Nat : U = UINT64_STRING_LENGTH
  BY CacheAssumption
<1>6. PICK g : g = Grown(key, f, U)
  OBVIOUS
<1>7. /\ Content(c, f.item).value = c.item[f.item].value
      /\ Content(c, f.item).expire = c.item[f.item].expire
  BY DEF Content
<1>8. f.item # NULL => n = (Number(c.item[f.item].value) + increment) % Modulus
  BY <1>4, <1>7
<1>9. \/ f.item = NULL /\ Refuse(op, key)
      \/ Crash
      \/ /\ f.item # NULL /\ g.item # NULL
         /\ Accept(op, key, [g.cache EXCEPT !.item[g.item].value = Digits(n)])
  BY <1>1, <1>3, <1>5, <1>6, <1>8 DEF IncrementDecrement
<1>10. CASE f.item = NULL /\ Refuse(op, key)
  <2>1. Whole(Odd, op, key) /\ (Plain(Odd) => Contract!Declines(op, key))
    BY <1>10, RefuseDeclines
  <2> QED
    BY <1>4, <1>10, <2>1 DEF Contract!Change
<1>11. CASE /\ f.item # NULL /\ g.item # NULL
            /\ Accept(op, key, [g.cache EXCEPT !.item[g.item].value = Digits(n)])
  <2>1. PICK p : p = f.item
    OBVIOUS
  <2>2. PICK b, k : Search(c, ch, key, f, b, k)
    BY <1>2, <1>3, SearchEnds
  <2>3. /\ b \in Bins /\ b = HashOf[key] /\ k \in 1..Len(ch[b]) /\ p = ch[b][k]
        /\ c.item[p].key = key /\ f.previous = Before(ch[b], k)
    BY <1>11, <2>1, <2>2 DEF Search
  <2>4. n \in Nat
    <3>1. PICK old \in ItemRecord : old = c.item[p]
      BY <1>2, <1>11, <2>1, <2>2, FoundItem
    <3>2. old.value \in Seq(Bytes)
      BY DEF ItemRecord
    <3>3. PICK i \in Nat : i = Number(old.value)
      BY <3>2, NumberType
    <3>4. PICK M \in Nat \ {0} : M = Modulus
      BY <1>5, Powers DEF Modulus
    <3>5. n = (i + increment) % M
      BY <1>8, <1>11, <2>1, <3>1, <3>3, <3>4
    <3> QED
      BY <3>5
  <2>5. PICK value \in Seq(Bytes) : value = Digits(n) /\ Len(value) <= U
    BY <1>5, <2>4, DigitsType
  <2>6. PICK d, q : d = g.cache /\ q = g.item
    OBVIOUS
  <2>7. g = GrowAndReplace(c, b, p, Before(ch[b], k), U)
    BY <1>1, <1>6, <2>1, <2>3 DEF Grown
  <2>8. Grows(Odd, c, ch, p, U, g)
    BY <1>2, <1>11, <2>3, <2>7, GrowSound
  <2>9. PICK e : Grew(Odd, d, e, q, p, key, U) /\ Replaced(c, ch, d, e, p, q)
    BY <2>3, <2>6, <2>8 DEF Grows
  <2>10. PICK w : w = [d EXCEPT !.item[q].value = value]
    OBVIOUS
  <2>11. PICK expire : expire = d.item[q].expire
    OBVIOUS
  <2>12. /\ Sound(Odd, w, e) /\ w.cas = d.cas /\ Edited(d, e, w, q, key, value, expire)
    BY <2>5, <2>9, <2>10, <2>11, NumberSound
  <2>13. /\ OnlyOld(c, ch, w, e, p, q) /\ AllOld(ch, e, p, q) /\ ~Apart(e, q)
         /\ Reads(w, q, key, value, expire, c.cas)
    BY <2>9, <2>12, ReplacedEdited
  <2>14. w.cas = c.cas + 1
    BY <2>6, <2>8, <2>12 DEF Grows
  <2>15. PICK new : new = Holding(value, expire, c.cas)
    OBVIOUS
  <2>16. Wrote(Odd, op, key, new)
    <3>1. Target(Odd, c, ch, key, p)
      BY <1>2, <1>3, <2>1, SearchTarget
    <3>2. key \in {key} \cup Odd
          /\ new = IF key = key THEN Holding(value, expire, c.cas) ELSE Absent
      BY <2>15
    <3>3. Accept(op, key, w)
      BY <1>11, <2>5, <2>6, <2>10
    <3>4. Balanced(c, w)
      BY <3>3 DEF Accept, Answer, Balanced, MayLeak
    <3> QED
      BY <1>1, <1>2, <2>12, <2>13, <2>14, <3>1, <3>2, <3>3, <3>4, WroteWhole
  <2>17. Whole(Odd, op, key) /\ (Plain(Odd) => Contract!Stores(op, key, value, expire))
    BY <1>1, <2>15, <2>16, WroteStores
  <2>18. expire = Contents(cache)[key].expire
    <3>1. d.item[q].expire = c.item[p].expire
      BY <2>9 DEF Replaced
    <3> QED
      BY <1>4, <1>7, <1>11, <2>1, <2>11, <3>1
  <2> QED
    BY <1>4, <1>11, <2>5, <2>17, <2>18 DEF Contract!Change
<1> QED
  BY <1>9, <1>10, <1>11

-----------------------------------------------------------------------------
(* What the steps keep                                                     *)

\* The keys that an item may have and be in another key's place: those that an
\* append has written over that of an item it moved, and those nobody can name.
Strange == spelled \cup {Garbled}

\* The inductive invariant of the cache.
CacheInv ==
  /\ \E ch : Sound(Strange, cache, ch)
  /\ clock \in 0..MaxTime /\ ended \in 0..clock /\ time \in 0..clock
  /\ cache.cas \in 1..(MaxCas + 1)
  /\ crashed \in BOOLEAN
  /\ spelled \subseteq Keys
  /\ "append" \notin Ops => spelled = {}

\* What a request does that has not crashed.
Serves(Odd) ==
  \E op, key :
    /\ key \in Keys /\ Whole(Odd, op, key)
    /\ op = "get" /\ answer'.ok => Contract!Fresh(key)
    /\ Plain(Odd) => Contract!Next \/ ("append" \in Ops /\ op = "append")

LEMMA SoundMore ==
  ASSUME NEW A, NEW B, A \subseteq B, NEW c, NEW ch, Sound(A, c, ch)
  PROVE  Sound(B, c, ch)
BY DEF Sound, Keyed

(* The operations, apart from what a get promises.                         *)
LEMMA ServedServes ==
  ASSUME NEW Odd, NEW op, op # "get", NEW key \in Keys, Whole(Odd, op, key),
         Plain(Odd) => Contract!Next \/ ("append" \in Ops /\ op = "append")
  PROVE  Serves(Odd)
BY DEF Serves

LEMMA ReadServed ==
  ASSUME Timed, NEW Odd, NEW ch, Sound(Odd, cache, ch), Read
  PROVE  Crash \/ (Serves(Odd) /\ cache'.cas = cache.cas)
<1>1. PICK key \in Keys : Get(key) \/ Del(key)
  BY DEF Read
<1>2. CASE Get(key)
  <2>1. \/ Crash
        \/ /\ Whole(Odd, "get", key)
           /\ Plain(Odd) => Contract!Get(key)
           /\ answer'.ok => Contract!Fresh(key)
           /\ cache'.cas = cache.cas
    BY <1>2, GetServed
  <2>2. Contract!Get(key) => Contract!Next
    BY DEF Contract!Next
  <2> QED
    BY <2>1, <2>2 DEF Serves
<1>3. CASE Del(key)
  <2>1. \/ Crash
        \/ /\ Whole(Odd, "del", key)
           /\ Plain(Odd) => Contract!Del(key)
           /\ cache'.cas = cache.cas
    BY <1>3, DelServed
  <2>2. Contract!Del(key) => Contract!Next
    BY DEF Contract!Next
  <2> QED
    BY <2>1, <2>2, ServedServes
<1> QED
  BY <1>1, <1>2, <1>3

LEMMA WriteServed ==
  ASSUME Timed, NEW Odd, HasSpelled(Odd), NEW ch, Sound(Odd, cache, ch), Write
  PROVE  Crash \/ Serves(Odd)
<1>1. PICK key \in Keys, data \in Data :
        \/ "append" \in Ops /\ Append_(key, data)
        \/ Prepend(key, data)
        \/ \E expiration \in Expirations :
             \/ Set(key, data, expiration)
             \/ Add(key, data, expiration)
             \/ Replace(key, data, expiration)
             \/ \E casUnique \in 1..cache.cas : Cas(key, casUnique, data, expiration)
  BY DEF Write
<1>2. CASE "append" \in Ops /\ Append_(key, data)
  <2>1. Crash \/ Whole(Odd, "append", key)
    BY <1>2, AppendServed
  <2> QED
    BY <1>2, <2>1, ServedServes
<1>3. CASE Prepend(key, data)
  <2>1. Crash \/ (/\ Whole(Odd, "prepend", key)
                  /\ Plain(Odd) => Contract!Prepend(key, data))
    BY <1>3, PrependServed
  <2>2. Contract!Prepend(key, data) => Contract!Next
    BY DEF Contract!Next
  <2> QED
    BY <2>1, <2>2, ServedServes
<1>4. ASSUME NEW expiration \in Expirations, Set(key, data, expiration)
      PROVE  Crash \/ Serves(Odd)
  <2>1. Crash \/ (/\ Whole(Odd, "set", key)
                  /\ Plain(Odd) => Contract!Set(key, data, expiration))
    BY <1>4, SetServed
  <2>2. Contract!Set(key, data, expiration) => Contract!Next
    BY DEF Contract!Next
  <2> QED
    BY <2>1, <2>2, ServedServes
<1>5. ASSUME NEW expiration \in Expirations, Add(key, data, expiration)
      PROVE  Crash \/ Serves(Odd)
  <2>1. Crash \/ (/\ Whole(Odd, "add", key)
                  /\ Plain(Odd) => Contract!Add(key, data, expiration))
    BY <1>5, AddServed
  <2>2. Contract!Add(key, data, expiration) => Contract!Next
    BY DEF Contract!Next
  <2> QED
    BY <2>1, <2>2, ServedServes
<1>6. ASSUME NEW expiration \in Expirations, Replace(key, data, expiration)
      PROVE  Crash \/ Serves(Odd)
  <2>1. Crash \/ (/\ Whole(Odd, "replace", key)
                  /\ Plain(Odd) => Contract!Replace(key, data, expiration))
    BY <1>6, ReplaceServed
  <2>2. Contract!Replace(key, data, expiration) => Contract!Next
    BY DEF Contract!Next
  <2> QED
    BY <2>1, <2>2, ServedServes
<1>7. ASSUME NEW expiration \in Expirations, NEW casUnique \in 1..cache.cas,
             Cas(key, casUnique, data, expiration)
      PROVE  Crash \/ Serves(Odd)
  <2>1. Crash \/ (/\ Whole(Odd, "cas", key)
                  /\ Plain(Odd) => Contract!Cas(key, casUnique, data, expiration))
    BY <1>7, CasServed
  <2>2. Contract!Cas(key, casUnique, data, expiration) => Contract!Next
    BY DEF Contract!Next
  <2> QED
    BY <2>1, <2>2, ServedServes
<1> QED
  BY <1>1, <1>2, <1>3, <1>4, <1>5, <1>6, <1>7

LEMMA NumbersServed ==
  ASSUME Timed, NEW Odd, NEW ch, Sound(Odd, cache, ch), Count
  PROVE  Crash \/ Serves(Odd)
<1>1. PICK M \in Nat \ {0} : M = Modulus
  BY CacheAssumption, Powers DEF Modulus
<1>2. PICK key \in Keys, number \in Numbers :
        \/ "incr" \in Ops /\ Incr(key, number)
        \/ "decr" \in Ops /\ Decr(key, number)
  BY DEF Count
<1>3. number \in 0..(M - 1)
  BY <1>1, CacheAssumption
<1>4. CASE Incr(key, number)
  <2>1. number \in Nat /\ IncrementDecrement("incr", key, number)
    BY <1>3, <1>4 DEF Incr
  <2>2. PICK n : n = (Number(Contents(cache)[key].value) + number) % Modulus
    OBVIOUS
  <2>3. Crash \/ (/\ Whole(Odd, "incr", key)
                  /\ Plain(Odd) => Contract!Change("incr", key, Digits(n)))
    BY <2>1, <2>2, CountServed
  <2>4. Contract!Change("incr", key, Digits(n)) => Contract!Next
    BY <2>2 DEF Contract!Next, Contract!Incr
  <2> QED
    BY <2>3, <2>4, ServedServes
<1>5. CASE Decr(key, number)
  <2>1. PICK i \in Nat : i = M - number
    BY <1>3
  <2>2. IncrementDecrement("decr", key, i)
    BY <1>1, <1>5, <2>1 DEF Decr
  <2>3. PICK n : n = (Number(Contents(cache)[key].value) + i) % Modulus
    OBVIOUS
  <2>4. Crash \/ (/\ Whole(Odd, "decr", key)
                  /\ Plain(Odd) => Contract!Change("decr", key, Digits(n)))
    BY <2>2, <2>3, CountServed
  <2>5. Contract!Change("decr", key, Digits(n)) => Contract!Next
    BY <1>1, <2>1, <2>3 DEF Contract!Next, Contract!Decr
  <2> QED
    BY <2>4, <2>5, ServedServes
<1> QED
  BY <1>2, <1>4, <1>5

(* Only append spells keys, and it spells keys that clients can name.      *)
LEMMA SpelledByAppend ==
  ASSUME Request, spelled \subseteq Keys
  PROVE  /\ spelled \subseteq spelled' /\ spelled' \subseteq Keys
         /\ "append" \notin Ops => spelled' = spelled
         /\ spelled' = spelled \/ answer'.op = "append" \/ Crash
<1>1. CASE UNCHANGED spelled
  BY <1>1
<1>2. ASSUME NEW key \in Keys, NEW data, "append" \in Ops, Append_(key, data)
      PROVE  /\ spelled \subseteq spelled' /\ spelled' \subseteq Keys
             /\ spelled' = spelled \/ answer'.op = "append" \/ Crash
  <2>1. \/ spelled' = spelled
        \/ \E op, f, g, item, name :
             /\ Rewrite("append", key, f, g, item)
             /\ name \in Overwritten(key, Len(data) - Len(cache.item[f.item].value))
             /\ spelled' = spelled \cup ({name} \ {key, Garbled})
    BY <1>2, Zenon DEF Append_
  <2>2. ASSUME NEW f, NEW g, NEW item, NEW name, NEW n,
               Rewrite("append", key, f, g, item), name \in Overwritten(key, n),
               spelled' = spelled \cup ({name} \ {key, Garbled})
        PROVE  /\ spelled \subseteq spelled' /\ spelled' \subseteq Keys
               /\ answer'.op = "append" \/ Crash
    <3>1. name \in Keys \cup {Garbled}
      BY <2>2 DEF Overwritten
    <3>2. answer'.op = "append" \/ Crash
      BY <2>2 DEF Rewrite, Accept, Answer
    <3> QED
      BY <2>2, <3>1, <3>2
  <2> QED
    BY <2>1, <2>2
<1>3. UNCHANGED spelled
      \/ \E key \in Keys, data \in Data : "append" \in Ops /\ Append_(key, data)
  BY DEF Request, Write
<1> QED
  BY <1>1, <1>2, <1>3

(* A request leaves whole chains; only reads are served without a stamp.   *)
LEMMA RequestServed ==
  ASSUME CacheInv, Request
  PROVE  Crash \/ (Serves(Strange') /\ cache'.cas \in 1..(MaxCas + 1))
<1>1. PICK Odd : Odd = spelled' \cup {Garbled}
  OBVIOUS
<1>2. Strange' = Odd
  BY <1>1 DEF Strange
<1>3. PICK ch : Sound(Odd, cache, ch)
  <2>1. PICK ch : Sound(Strange, cache, ch)
    BY DEF CacheInv
  <2>2. Strange \subseteq Odd
    BY <1>1, SpelledByAppend DEF CacheInv, Strange
  <2>3. Sound(Odd, cache, ch)
    BY <2>1, <2>2, SoundMore
  <2> QED
    BY <2>3
<1>4. Timed /\ cache.cas \in 1..(MaxCas + 1) /\ MaxCas \in Nat
  BY CacheAssumption DEF CacheInv, Timed
<1>5. Read \/ (cache.cas <= MaxCas /\ (Write \/ Count))
  BY DEF Request
<1>6. CASE Read
  <2>1. Crash \/ (Serves(Odd) /\ cache'.cas = cache.cas)
    BY <1>3, <1>4, <1>6, ReadServed
  <2> QED
    BY <1>2, <1>4, <2>1
<1>7. CASE cache.cas <= MaxCas /\ (Write \/ Count)
  <2>0. HasSpelled(Odd)
    BY <1>1 DEF HasSpelled
  <2>1. Crash \/ Serves(Odd)
    BY <1>3, <1>4, <1>7, <2>0, WriteServed, NumbersServed
  <2>2. ASSUME Serves(Odd) PROVE cache'.cas \in 1..(MaxCas + 1)
    <3>1. cache'.cas \in {cache.cas, cache.cas + 1}
      BY <2>2 DEF Serves, Whole
    <3>2. PICK n, m : n = cache.cas /\ m = cache'.cas
      OBVIOUS
    <3> QED
      BY <1>4, <1>7, <3>1, <3>2
  <2> QED
    BY <1>2, <2>1, <2>2
<1> QED
  BY <1>5, <1>6, <1>7

LEMMA EmptySound ==
  ASSUME NEW Odd, NEW c, c = EmptyCache
  PROVE  \E ch : Sound(Odd, c, ch)
<1>1. PICK ch : ch = [b \in Bins |-> <<>>]
  OBVIOUS
<1>2. PICK h : h = EmptyHeap
  OBVIOUS
<1>3. /\ c = [heap |-> h, bin |-> [b \in Bins |-> NULL], item |-> [p \in {} |-> NULL], cas |-> 1]
      /\ c.heap = h /\ c.bin = [b \in Bins |-> NULL]
      /\ c.item = [p \in {} |-> NULL] /\ c.cas = 1
  BY <1>2 DEF EmptyCache
<1>4. HeapOK(h)
  BY <1>2, HeapAssumption DEF HeapOK, EmptyHeap
<1>5. Items(c) = {}
  BY <1>3 DEF Items
<1>6. Store(c)
  <2>1. IsFiniteSet(Items(c))
    BY <1>5, FS_EmptySet
  <2>2. c.item \in [Items(c) -> ItemRecord]
    BY <1>3, <1>5
  <2>3. c.bin \in [Bins -> Nat]
    BY <1>3 DEF NULL
  <2> QED
    BY <1>3, <1>4, <1>5, <2>1, <2>2, <2>3 DEF Store
<1>7. \A b \in Bins : ch[b] = <<>> /\ Len(ch[b]) = 0
  BY <1>1
<1>8. Shape(c, ch)
  <2>1. ch \in [Bins -> Seq(Items(c))]
    BY <1>1
  <2>2. \A b \in Bins : c.bin[b] = NULL
    BY <1>3
  <2> QED
    BY <1>7, <2>1, <2>2 DEF Shape
<1>9. Keyed(Odd, c, ch)
  BY <1>7 DEF Keyed
<1> QED
  BY <1>6, <1>8, <1>9 DEF Sound

LEMMA CacheInvInductive == Spec => []CacheInv
<1>1. Init => CacheInv
  <2> SUFFICES ASSUME Init PROVE CacheInv
    OBVIOUS
  <2>1. PICK c : c = cache
    OBVIOUS
  <2>2. \E ch : Sound(Strange, c, ch)
    BY <2>1, EmptySound DEF Init
  <2>3. cache.cas = 1
    BY DEF Init, EmptyCache
  <2>4. MaxTime \in Nat /\ MaxCas \in Nat
    BY CacheAssumption
  <2>5. clock \in 0..MaxTime /\ ended \in 0..clock /\ time \in 0..clock
    BY <2>4 DEF Init
  <2>6. cache.cas \in 1..(MaxCas + 1)
    BY <2>3, <2>4
  <2>7. \E ch : Sound(Strange, cache, ch)
    BY <2>1, <2>2
  <2>8. crashed \in BOOLEAN /\ spelled = {}
    BY DEF Init
  <2> QED
    BY <2>5, <2>6, <2>7, <2>8 DEF CacheInv
<1>2. CacheInv /\ [Next]_vars => CacheInv'
  <2> SUFFICES ASSUME CacheInv, [Next]_vars PROVE CacheInv'
    OBVIOUS
  <2>1. MaxTime \in Nat /\ clock \in 0..MaxTime /\ ended \in 0..clock /\ time \in 0..clock
    BY CacheAssumption DEF CacheInv
  <2>2. CASE Request
    <3>1. clock' = clock /\ ended' = clock
      BY <2>2 DEF Request
    <3>2. spelled' \subseteq Keys /\ ("append" \notin Ops => spelled' = {})
      BY <2>2, SpelledByAppend DEF CacheInv
    <3>3. Strange \subseteq Strange'
      BY <2>2, SpelledByAppend DEF CacheInv, Strange
    <3>4. CASE Crash
      <4>1. cache' = cache /\ time' = time /\ crashed' \in BOOLEAN
        BY <3>4 DEF Crash
      <4>2. \E ch : Sound(Strange', cache', ch)
        <5>1. PICK A, B : A = Strange /\ B = Strange'
          OBVIOUS
        <5>2. PICK ch : Sound(A, cache, ch)
          BY <5>1 DEF CacheInv
        <5>3. Sound(B, cache, ch)
          BY <3>3, <5>1, <5>2, SoundMore
        <5> QED
          BY <4>1, <5>1, <5>3
      <4> QED
        BY <2>1, <3>1, <3>2, <4>1, <4>2 DEF CacheInv
    <3>5. CASE Serves(Strange') /\ cache'.cas \in 1..(MaxCas + 1)
      <4>1. (\E ch : Sound(Strange', cache', ch)) /\ time' = clock /\ crashed' = crashed
        BY <3>5 DEF Serves, Whole
      <4> QED
        BY <2>1, <3>1, <3>2, <3>5, <4>1 DEF CacheInv
    <3> QED
      BY <2>2, <3>4, <3>5, RequestServed
  <2>3. CASE Tick
    <3>1. /\ clock' \in (clock + 1)..MaxTime
          /\ UNCHANGED <<cache, time, ended, answer, spelled, crashed>>
      BY <2>3 DEF Tick
    <3>2. clock' \in 0..MaxTime /\ ended' \in 0..clock' /\ time' \in 0..clock'
      BY <2>1, <3>1
    <3> QED
      BY <3>1, <3>2 DEF CacheInv, Strange
  <2>4. CASE UNCHANGED vars
    BY <2>4 DEF CacheInv, Strange, vars
  <2> QED
    BY <2>2, <2>3, <2>4 DEF Next
<1> QED
  BY <1>1, <1>2, PTL DEF Spec

(* The chains that the code reads by following pointers are those of the   *)
(* invariant.                                                              *)
LEMMA SoundTypes ==
  ASSUME CacheInv
  PROVE  TypeOK
<1>1. PICK c : c = cache
  OBVIOUS
<1>2. PICK ch : Sound(Strange, c, ch)
  BY <1>1 DEF CacheInv
<1>3. c.heap.free \in [Classes -> Seq(DOMAIN c.heap.size)]
  BY <1>2 DEF Sound, Store, HeapOK
<1>4. c.bin \in [Bins -> Items(c) \cup {NULL}]
  <2>1. \A b \in Bins : c.bin[b] \in Items(c) \cup {NULL}
    <3> SUFFICES ASSUME NEW b \in Bins PROVE c.bin[b] \in Items(c) \cup {NULL}
      OBVIOUS
    <3>1. PICK s \in Seq(Items(c)) : s = ch[b]
      BY <1>2 DEF Sound, Shape
    <3>2. c.bin[b] = IF Len(s) = 0 THEN NULL ELSE s[1]
      BY <1>2, <3>1 DEF Sound, Shape
    <3> QED
      BY <3>2
  <2>2. c.bin = [b \in Bins |-> c.bin[b]]
    BY <1>2 DEF Sound, Store
  <2> QED
    BY <2>1, <2>2
<1>5. Items(c) \subseteq DOMAIN c.heap.size
  BY <1>2 DEF Sound, Store
<1>6. ASSUME NEW p \in Items(c)
      PROVE  /\ c.item[p].key \in Keys \cup {Garbled}
             /\ c.item[p].value \in Seq(Bytes)
             /\ c.item[p].cas \in 1..(c.cas - 1)
             /\ c.item[p].expire \in Nat
  <2>1. c.item[p] \in ItemRecord /\ c.item[p].cas < c.cas /\ c.cas \in Nat
    BY <1>2 DEF Sound, Store
  <2>2. /\ c.item[p].key \in Keys \cup {Garbled} /\ c.item[p].value \in Seq(Bytes)
        /\ c.item[p].cas \in Nat \ {0} /\ c.item[p].expire \in Nat
    BY <2>1 DEF ItemRecord
  <2>3. PICK n, m : n = c.item[p].cas /\ m = c.cas
    OBVIOUS
  <2>4. n \in 1..(m - 1)
    BY <2>1, <2>2, <2>3
  <2> QED
    BY <2>2, <2>3, <2>4
<1> QED
  BY <1>1, <1>3, <1>4, <1>5, <1>6 DEF CacheInv, TypeOK

LEMMA SoundBlocks ==
  ASSUME CacheInv
  PROVE  ItemsInTheirBlocks
<1>1. PICK c : c = cache
  OBVIOUS
<1>2. PICK ch : Sound(Strange, c, ch)
  BY <1>1 DEF CacheInv
<1>3. ASSUME NEW p \in Linked(c)
      PROVE  /\ p \notin OnFreeList(c)
             /\ Align(KeyLength) + Len(c.item[p].value) + HeaderSize <= c.heap.size[p]
  <2>1. PICK b \in Bins : \E i \in 1..Len(ch[b]) : p = ch[b][i]
    BY <1>2, LinkedIs
  <2>2. PICK s \in Seq(Items(c)) : s = ch[b]
    BY <1>2 DEF Sound, Shape
  <2>3. p \in Items(c)
    BY <2>1, <2>2
  <2>4. ~IsFree(c.heap, p) /\ Fitting(c.heap.size[p], c.item[p].value)
    BY <1>2, <2>3 DEF Sound, Store
  <2>5. p \notin OnFreeList(c)
    BY <2>4 DEF OnFreeList, IsFree, Range
  <2> QED
    BY <2>4, <2>5 DEF Fitting
<1> QED
  BY <1>1, <1>3 DEF ItemsInTheirBlocks

LEMMA SoundIsSound ==
  ASSUME CacheInv
  PROVE  ChainsSound
<1>1. PICK c : c = cache
  OBVIOUS
<1>2. PICK ch : Sound(Strange, c, ch)
  BY <1>1 DEF CacheInv
<1>3. [b \in Bins |-> Chain(c, b)] = ch
  <2>1. \A b \in Bins : Chain(c, b) = ch[b]
    BY <1>2, SoundChain
  <2>2. ch = [b \in Bins |-> ch[b]]
    BY <1>2 DEF Sound, Shape
  <2> QED
    BY <2>1, <2>2
<1>4. PICK place : place = UNION {{<<b, i>> : i \in DOMAIN ch[b]} : b \in Bins}
  OBVIOUS
<1>5. ASSUME NEW x \in place
      PROVE  /\ x[1] \in Bins /\ x[2] \in 1..Len(ch[x[1]]) /\ x = <<x[1], x[2]>>
  <2>1. PICK b \in Bins : x \in {<<b, i>> : i \in DOMAIN ch[b]}
    BY <1>4
  <2>2. PICK i \in DOMAIN ch[b] : x = <<b, i>>
    BY <2>1
  <2>3. DOMAIN ch[b] = 1..Len(ch[b])
    BY <1>2 DEF Sound, Shape
  <2> QED
    BY <2>2, <2>3
<1>6. ASSUME NEW p \in Linked(c) PROVE c.item[p].next \in Linked(c) \cup {NULL}
  <2>0. PICK b \in Bins : \E i \in 1..Len(ch[b]) : p = ch[b][i]
    BY <1>2, LinkedIs
  <2>1. PICK i \in 1..Len(ch[b]) : p = ch[b][i]
    BY <2>0
  <2>2. PICK s \in Seq(Items(c)) : s = ch[b]
    BY <1>2 DEF Sound, Shape
  <2>3. c.item[p].next = IF i = Len(s) THEN NULL ELSE s[i + 1]
    BY <1>2, <2>1, <2>2 DEF Sound, Shape
  <2>4. CASE i # Len(s)
    <3>1. i + 1 \in 1..Len(s)
      BY <2>1, <2>2, <2>4
    <3>2. s[i + 1] \in Linked(c)
      BY <1>2, <2>2, <3>1, LinkedIs
    <3> QED
      BY <2>3, <2>4, <3>2
  <2> QED
    BY <2>3, <2>4
<1>7. ASSUME NEW x \in place, NEW y \in place, ch[x[1]][x[2]] = ch[y[1]][y[2]]
      PROVE  x = y
  <2>1. x[1] = y[1] /\ x[2] = y[2]
    BY <1>2, <1>5, <1>7 DEF Sound, Shape
  <2> QED
    BY <1>5, <2>1
<1>8. ASSUME NEW x \in place, c.item[ch[x[1]][x[2]]].key \notin spelled \cup {Garbled}
      PROVE  HashOf[c.item[ch[x[1]][x[2]]].key] = x[1]
  BY <1>2, <1>5, <1>8 DEF Sound, Keyed, Strange
<1>9. ASSUME NEW x \in place, NEW y \in place,
             c.item[ch[x[1]][x[2]]].key \notin spelled \cup {Garbled},
             c.item[ch[x[1]][x[2]]].key = c.item[ch[y[1]][y[2]]].key
      PROVE  x = y
  <2>1. PICK name : name = c.item[ch[x[1]][x[2]]].key
    OBVIOUS
  <2>2. name = c.item[ch[y[1]][y[2]]].key /\ name \notin spelled \cup {Garbled}
    BY <1>9, <2>1
  <2>3. HashOf[name] = x[1] /\ HashOf[name] = y[1]
    BY <1>8, <2>1, <2>2
  <2>4. PICK b, i, j : b = x[1] /\ i = x[2] /\ j = y[2]
    OBVIOUS
  <2>5. b \in Bins /\ i \in 1..Len(ch[b]) /\ j \in 1..Len(ch[b]) /\ y[1] = b
    BY <1>5, <2>3, <2>4
  <2>6. c.item[ch[b][i]].key = name /\ c.item[ch[b][j]].key = name
    BY <2>1, <2>2, <2>4, <2>5
  <2>7. i = j
    BY <1>2, <2>2, <2>5, <2>6 DEF Sound, Keyed, Strange
  <2> QED
    BY <1>5, <2>4, <2>5, <2>7
<1> DEFINE chains == [b \in Bins |-> Chain(cache, b)]
           places == UNION {{<<b, i>> : i \in DOMAIN chains[b]} : b \in Bins}
           at(x)  == chains[x[1]][x[2]]
           key(x) == cache.item[at(x)].key
           own    == {x \in places : key(x) \notin spelled \cup {Garbled}}
<1>10. chains = ch
  BY <1>1, <1>3
<1> HIDE DEF chains
<1>11. places = place
  BY <1>4, <1>10
<1> HIDE DEF places
<1>12. \A p \in Linked(cache) : cache.item[p].next \in Linked(cache) \cup {NULL}
  BY <1>1, <1>6
<1>13. \A x, y \in places : at(x) = at(y) => x = y
  BY <1>7, <1>10, <1>11
<1>14. \A x \in own : HashOf[key(x)] = x[1]
  BY <1>1, <1>8, <1>10, <1>11
<1>15. \A x, y \in own : key(x) = key(y) => x = y
  BY <1>1, <1>9, <1>10, <1>11
<1> QED
  BY <1>12, <1>13, <1>14, <1>15, Zenon DEF ChainsSound, chains, places

(* The cache keeps its types, whatever the keys, the values and the order  *)
(* of the operations: items only at addresses the heap has carved, stamps  *)
(* below the next one, and a clock ahead of the time served.               *)
THEOREM CacheTypes == Spec => []TypeOK
BY CacheInvInductive, SoundTypes, PTL

(* Chains never dangle, cross or run in a circle, whatever is appended.    *)
(* Every item is in the chain its key hashes to, and a key has one item,   *)
(* but for keys that an append has written over that of an item it moved   *)
(* (Cache.cpp, append): such a key may be found twice, or not at all.      *)
THEOREM ChainsStaySound == Spec => []ChainsSound
BY CacheInvInductive, SoundIsSound, PTL

(* An item in use is in no free block, and its value in its own block: no  *)
(* operation writes past what Cache::alloc gave the item.                  *)
THEOREM ItemsKeepTheirBlocks == Spec => []ItemsInTheirBlocks
BY CacheInvInductive, SoundBlocks, PTL

LEMMA StepServed ==
  ASSUME CacheInv, [Next]_vars
  PROVE  \/ UNCHANGED <<cache, time, answer>> /\ (crashed' \/ clock' # clock \/ UNCHANGED vars)
         \/ Serves(Strange') /\ Request
<1>1. CASE Request
  <2>1. Crash \/ Serves(Strange')
    BY <1>1, RequestServed
  <2> QED
    BY <1>1, <2>1 DEF Crash
<1>2. CASE Tick
  <2>1. clock' \in (clock + 1)..MaxTime /\ UNCHANGED <<cache, time, answer>>
    BY <1>2 DEF Tick
  <2>2. clock \in Nat /\ clock' # clock
    BY <2>1, CacheAssumption DEF CacheInv
  <2> QED
    BY <2>1, <2>2
<1>3. CASE UNCHANGED vars
  BY <1>3 DEF vars
<1> QED
  BY <1>1, <1>2, <1>3 DEF Next

(* An operation changes nothing under another key than its own, but for    *)
(* the add that cuts a chain, and for the keys that appends have written   *)
(* over those of items they moved.                                         *)
THEOREM OthersAreKept == Spec => OthersKept
<1>1. CacheInv /\ [Next]_vars =>
        [\/ SameBut({answer'.key} \cup spelled', Contents(cache), Contents(cache'))
         \/ CutsChain]_vars
  <2> SUFFICES ASSUME CacheInv, [Next]_vars
               PROVE  \/ SameBut({answer'.key} \cup spelled',
                                 Contents(cache), Contents(cache'))
                      \/ CutsChain
    OBVIOUS
  <2>1. CASE UNCHANGED <<cache, time, answer>>
    BY <2>1 DEF SameBut
  <2>2. CASE Serves(Strange')
    <3>1. \/ SameBut({answer'.key} \cup (spelled' \cup {Garbled}),
                     Contents(cache), Contents(cache'))
          \/ CutsChain
      BY <2>2 DEF Serves, Whole, Strange
    <3>2. Keys \ ({answer'.key} \cup (spelled' \cup {Garbled}))
            = Keys \ ({answer'.key} \cup spelled')
      BY CacheAssumption
    <3> QED
      BY <3>1, <3>2 DEF SameBut
  <2> QED
    BY <2>1, <2>2, StepServed
<1> QED
  BY <1>1, CacheInvInductive, PTL DEF Spec, OthersKept

\* No two items have the same stamp.
Distinct(c) == \A p, q \in Linked(c) : c.item[p].cas = c.item[q].cas => p = q

StampsDiffer == Distinct(cache)

(* Whatever an operation moves, no content gets the stamp of another one.  *)
LEMMA StampsMove ==
  ASSUME NEW Odd, NEW c, NEW ch, Sound(Odd, c, ch), NEW d, NEW e, Sound(Odd, d, e),
         Distinct(c), OneStamped(c, d)
  PROVE  StampsKept(Contents(c), Contents(d)) /\ Distinct(d)
<1>1. PICK y : \A p \in Linked(d) : \/ p = y /\ d.item[p].cas = c.cas
                                    \/ p \in Linked(c) /\ Stays(c, d, p)
  BY DEF OneStamped
<1>2. ASSUME NEW p \in Linked(c) PROVE c.item[p].cas # c.cas
  <2>1. p \in Items(c)
    BY LinkedNotApart, LinkedItems DEF Sound
  <2>2. c.item[p].cas \in Nat /\ c.item[p].cas < c.cas /\ c.cas \in Nat
    BY <2>1 DEF Sound, Store, ItemRecord
  <2> QED
    BY <2>2
<1>3. ASSUME NEW p \in Linked(d), NEW q \in Linked(d), d.item[p].cas = d.item[q].cas
      PROVE  p = q
  BY <1>1, <1>2, <1>3 DEF Stays, Distinct
<1>4. ASSUME NEW key \in Keys, NEW other \in Keys, Contents(c)[key] # Absent,
             Contents(d)[other].cas = Contents(c)[key].cas
      PROVE  key = other /\ Contents(d)[key] = Contents(c)[key]
  <2>1. PICK f, g : f = Find(c, key) /\ g = Find(d, other)
    OBVIOUS
  <2>2. PICK p, q : p = f.item /\ q = g.item
    OBVIOUS
  <2>3. Contents(c)[key] = Content(c, p) /\ HasItem(c, ch, key, p)
    BY <1>4, <2>1, <2>2, FoundContent
  <2>4. Contents(c)[key].cas \in 1..(c.cas - 1) /\ Absent.cas = 0
    BY <2>1, <2>3, FoundContent DEF Absent
  <2>5. Contents(d)[other] # Absent
    BY <1>4, <2>4
  <2>6. Contents(d)[other] = Content(d, q) /\ HasItem(d, e, other, q)
    BY <2>1, <2>2, <2>5, FoundContent
  <2>7. p \in Linked(c) /\ c.item[p].key = key
    BY <2>3, LinkedNotApart DEF HasItem
  <2>8. q \in Linked(d) /\ d.item[q].key = other
    BY <2>6, LinkedNotApart DEF HasItem
  <2>9. d.item[q].cas = c.item[p].cas
    BY <1>4, <2>3, <2>6 DEF Content
  <2>10. q \in Linked(c) /\ Stays(c, d, q)
    BY <1>1, <1>2, <2>7, <2>8, <2>9
  <2>11. q = p
    BY <2>7, <2>9, <2>10 DEF Stays, Distinct
  <2>12. Content(d, q) = Content(c, q) /\ key = other
    BY <2>7, <2>8, <2>10, <2>11 DEF Stays, Content
  <2> QED
    BY <2>3, <2>6, <2>11, <2>12
<1>5. StampsKept(Contents(c), Contents(d))
  BY <1>4 DEF StampsKept
<1> QED
  BY <1>3, <1>5 DEF Distinct

(* A stamp names one content: no two items have the same stamp, and an     *)
(* item that is found with the stamp it had before has the same value and  *)
(* time to expire, whatever was appended.                                  *)
THEOREM StampsName == Spec => StampNamesContent
<1>1. Init => StampsDiffer
  <2> SUFFICES ASSUME Init PROVE StampsDiffer
    OBVIOUS
  <2>1. PICK c : c = cache
    OBVIOUS
  <2>2. PICK ch : Sound(Strange, c, ch)
    BY <2>1, EmptySound DEF Init
  <2>3. Items(c) = {}
    BY <2>1 DEF Init, EmptyCache, Items
  <2>4. Linked(c) = {}
    BY <2>2, <2>3, LinkedNotApart, LinkedItems DEF Sound
  <2> QED
    BY <2>1, <2>4 DEF StampsDiffer, Distinct
<1>2. CacheInv /\ StampsDiffer /\ [Next]_vars =>
        StampsDiffer' /\ [StampsKept(Contents(cache), Contents(cache'))]_vars
  <2> SUFFICES ASSUME CacheInv, StampsDiffer, [Next]_vars
               PROVE  StampsDiffer' /\ StampsKept(Contents(cache), Contents(cache'))
    OBVIOUS
  <2>1. PICK c, d : c = cache /\ d = cache'
    OBVIOUS
  <2>2. PICK ch : Sound(Strange, c, ch)
    BY <2>1 DEF CacheInv
  <2>3. Distinct(c)
    BY <2>1 DEF StampsDiffer
  <2>4. StampsKept(Contents(c), Contents(d)) /\ Distinct(d)
    <3>1. CASE UNCHANGED <<cache, time, answer>>
      <4>1. d = c /\ OneStamped(c, c)
        BY <2>1, <3>1, NoneStamped
      <4> QED
        BY <2>2, <2>3, <4>1, StampsMove
    <3>2. CASE Serves(Strange') /\ Request
      <4>1. PICK Odd : Odd = Strange'
        OBVIOUS
      <4>2. PICK e : Sound(Odd, d, e)
        BY <2>1, <3>2, <4>1 DEF Serves, Whole
      <4>3. Strange \subseteq Odd
        BY <3>2, <4>1, SpelledByAppend DEF CacheInv, Strange
      <4>4. Sound(Odd, c, ch)
        BY <2>2, <4>3, SoundMore
      <4>5. OneStamped(c, d)
        BY <2>1, <3>2 DEF Serves, Whole
      <4> QED
        BY <2>3, <4>2, <4>4, <4>5, StampsMove
    <3> QED
      BY <3>1, <3>2, StepServed
  <2>5. StampsDiffer'
    BY <2>1, <2>4 DEF StampsDiffer, Distinct
  <2> QED
    BY <2>1, <2>4, <2>5
<1> QED
  BY <1>1, <1>2, CacheInvInductive, PTL DEF Spec, StampNamesContent

\* While the program runs, the time is that of the end of the last request.
OnTime == ~crashed => time = ended

(* No value is returned that had run out when the last request was done.   *)
THEOREM StaleOnlyAfterAPause == Spec => StaleOnlyAfterPause
<1> DEFINE Fair ==
      clock' = clock /\ ~crashed' /\ answer'.op = "get" /\ answer'.ok =>
        LET deadline == Contents(cache)[answer'.key].expire
        IN  deadline = 0 \/ ended <= deadline
<1>1. Init => OnTime
  BY DEF Init, OnTime
<1>2. CacheInv /\ OnTime /\ [Next]_vars => OnTime'
  <2> SUFFICES ASSUME CacheInv, OnTime, [Next]_vars PROVE OnTime'
    OBVIOUS
  <2>1. CASE Request
    <3>1. Crash \/ Serves(Strange')
      BY <2>1, RequestServed
    <3> QED
      BY <2>1, <3>1 DEF Crash, Serves, Whole, Request, OnTime
  <2>2. CASE Tick
    BY <2>2 DEF Tick, OnTime
  <2>3. CASE UNCHANGED vars
    BY <2>3 DEF vars, OnTime
  <2> QED
    BY <2>1, <2>2, <2>3 DEF Next
<1>3. CacheInv /\ OnTime /\ [Next]_vars => [Fair]_vars
  <2> SUFFICES ASSUME CacheInv, OnTime, [Next]_vars, ~UNCHANGED vars, clock' = clock,
                      ~crashed', answer'.op = "get", answer'.ok,
                      NEW deadline, deadline = Contents(cache)[answer'.key].expire
               PROVE  deadline = 0 \/ ended <= deadline
    OBVIOUS
  <2>1. Serves(Strange') /\ Request
    BY StepServed
  <2>2. PICK key \in Keys : answer'.key = key /\ Contract!Fresh(key)
    BY <2>1 DEF Serves, Whole
  <2>3. Contract!Fresh(key)
    BY <2>2
  <2>4. deadline = 0 \/ ~(time > deadline)
    BY <2>2, <2>3 DEF Contract!Fresh, Contract!Past
  <2>5. time = ended /\ ended \in Nat
    BY <2>1 DEF Request, OnTime, CacheInv
  <2>6. deadline \in Nat
    <3>1. PICK ch : Sound(Strange, cache, ch)
      BY DEF CacheInv
    <3>2. PICK c : c = cache
      OBVIOUS
    <3>3. Contents(c)[key] # Absent
      BY <2>3, <3>2 DEF Contract!Fresh, Contract!Present
    <3>4. PICK f, p : f = Find(c, key) /\ p = f.item
      OBVIOUS
    <3>5. Contents(c)[key] = Content(c, p) /\ p \in Items(c)
      <4>1. Contents(c)[key] = Content(c, p) /\ HasItem(c, ch, key, p)
        BY <3>1, <3>2, <3>3, <3>4, FoundContent
      <4> QED
        BY <3>1, <3>2, <4>1, LinkedItems DEF HasItem, Sound
    <3>6. c.item[p].expire \in Nat
      BY <3>1, <3>2, <3>5 DEF Sound, Store, ItemRecord
    <3>7. Content(c, p).expire = c.item[p].expire
      BY DEF Content
    <3> QED
      BY <2>2, <3>2, <3>5, <3>6, <3>7
  <2> QED
    BY <2>4, <2>5, <2>6
<1> QED
  BY <1>1, <1>2, <1>3, CacheInvInductive, PTL DEF Spec, StaleOnlyAfterPause

(* An empty cache is an empty contract.                                    *)
LEMMA ContractStarts ==
  ASSUME Init
  PROVE  Contract!Init
<1>1. PICK c : c = cache
  OBVIOUS
<1>2. PICK ch : Sound({}, c, ch)
  BY <1>1, EmptySound DEF Init
<1>3. Items(c) = {} /\ c.cas = 1
  BY <1>1 DEF Init, EmptyCache, Items
<1>4. ASSUME NEW key \in Keys PROVE Contents(c)[key] = Absent
  <2>1. \A p : ~HasItem(c, ch, key, p)
    BY <1>2, <1>3, LinkedItems DEF HasItem, Sound
  <2>2. key \in Keys \ {}
    OBVIOUS
  <2> QED
    BY <1>2, <2>1, <2>2, ContentsOf
<1>5. Contents(c) = [key \in Keys |-> Absent]
  BY <1>4 DEF Contents
<1> QED
  BY <1>1, <1>3, <1>5 DEF Init, Answer, Contract!Init

(* In every step that is not an append the contents, the stamps, the time  *)
(* and the answer are those of the contract, as long as no append has      *)
(* written a key over that of another item; a crash leaves them alone.     *)
LEMMA ContractSteps ==
  ASSUME CacheInv, [Next]_vars, spelled = {}
  PROVE  [Contract!Next \/ ("append" \in Ops /\ answer'.op = "append")]_(Contract!vars)
<1>1. CASE UNCHANGED <<cache, time, answer>>
  BY <1>1 DEF Contract!vars
<1>2. CASE Serves(Strange') /\ Request
  <2>1. PICK Odd : Odd = Strange'
    OBVIOUS
  <2>2. PICK op, key : /\ key \in Keys /\ answer'.op = op
                       /\ Plain(Odd) => Contract!Next \/ ("append" \in Ops /\ op = "append")
    BY <1>2, <2>1 DEF Serves, Whole
  <2>3. /\ "append" \notin Ops => spelled' = {}
        /\ spelled' = {} \/ answer'.op = "append" \/ Crash
    BY <1>2, SpelledByAppend DEF CacheInv
  <2>4. spelled' = {} => Plain(Odd)
    BY <2>1, CacheAssumption DEF Strange, Plain
  <2>5. Crash => UNCHANGED <<cache, time, answer>>
    BY DEF Crash
  <2> QED
    BY <1>1, <2>2, <2>3, <2>4, <2>5
<1> QED
  BY <1>1, <1>2, StepServed

(* Every operation does what IUltraCache.h lets a caller expect, append    *)
(* excepted, until an append has written another key over that of an item  *)
(* it moved: what is found, what is stored, evicted or refused, and the    *)
(* stamps are those of the contract.                                       *)
THEOREM AppendAloneBreaksContract ==
  Spec => /\ Contract!Init
          /\ [][spelled = {} => Contract!Next \/ answer'.op = "append"]_(Contract!vars)
<1>1. Init => Contract!Init
  BY ContractStarts
<1>2. CacheInv /\ [Next]_vars =>
        [spelled = {} => Contract!Next \/ answer'.op = "append"]_(Contract!vars)
  BY ContractSteps
<1> QED
  BY <1>1, <1>2, CacheInvInductive, PTL DEF Spec

(* Without append the cache implements its contract.                       *)
THEOREM CacheKeepsContract ==
  ASSUME "append" \notin Ops
  PROVE  Spec => KeepsContract
<1>1. Init => Contract!Init
  BY ContractStarts
<1>2. CacheInv /\ [Next]_vars => [Contract!Next]_(Contract!vars)
  BY ContractSteps DEF CacheInv
<1> QED
  BY <1>1, <1>2, CacheInvInductive, PTL DEF Spec, KeepsContract, Contract!Spec

(* Memory is lost where an add cuts a chain, where a cas of an absent key  *)
(* writes an item that it does not link, and where incr and decr move an   *)
(* item and do not free the old block; in no other step is a block left    *)
(* that neither a chain nor a free list leads to.  In an arena of up to a   *)
(* gigabyte every block has a class of the heap's lists to be found in.     *)
THEOREM LeaksAreThere ==
  ASSUME ArenaSize <= 2^30
  PROVE  Spec => LeaksWhere
<1>1. CacheInv /\ [Next]_vars => [Leaked(cache') # Leaked(cache) => MayLeak]_vars
  <2> SUFFICES ASSUME CacheInv, [Next]_vars
               PROVE  Leaked(cache') # Leaked(cache) => MayLeak
    OBVIOUS
  <2>1. CASE UNCHANGED <<cache, time, answer>>
    BY <2>1
  <2>2. CASE Serves(Strange')
    BY <2>2 DEF Serves, Whole, Balanced, SmallArena
  <2> QED
    BY <2>1, <2>2, StepServed
<1>2. CacheInv /\ [Next]_vars =>
        [Leaked(cache') # Leaked(cache) =>
           \/ CutsChain
           \/ answer'.op = "cas" /\ answer'.ok /\ Find(cache, answer'.key).item = NULL
           \/ answer'.op \in {"incr", "decr"} /\ answer'.ok]_vars
  BY <1>1 DEF MayLeak
<1> QED
  BY <1>2, CacheInvInductive, PTL DEF Spec, LeaksWhere
=============================================================================
