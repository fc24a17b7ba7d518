------------------------------ MODULE HeapOps ------------------------------
(***************************************************************************)
(* The allocator of ultracache/Heap.cpp as operators on a heap value.      *)
(*                                                                         *)
(* A heap is a record                                                      *)
(*   offset : m_pOffset - m_pStart, everything below it has been carved    *)
(*   size   : HeapEntry::cbSize of every block carved so far, by the       *)
(*            address of its payload (the pointer Heap::alloc returns)     *)
(*   free   : m_free, the free lists, as sequences of payload addresses    *)
(* Addresses count from m_pStart, so no payload is at 0: NULL is 0.        *)
(* The [lg][slot] matrix m_free is indexed by Class == lg * SLOTS + slot,  *)
(* its row-major position, which is also the order the search visits.      *)
(* m_cbAllocSize is left out: nothing in the program reads it.             *)
(***************************************************************************)
EXTENDS Integers, Sequences, SequencesExt, FiniteSetsExt

CONSTANTS
  ArenaSize,         \* bytes between m_pStart and m_pEnd
  EntrySize,         \* sizeof(HeapEntry), 16 in the 64-bit build
  ALIGNMENT,         \* 8 in the code
  HEAP_ALLOC_BITS,   \* 20 in the code
  HEAP_ALLOC_SLOTS   \* 128 in the code

ASSUME HeapAssumption ==
  /\ ArenaSize \in Nat
  /\ EntrySize \in Nat \ {0}
  /\ ALIGNMENT \in Nat \ {0}
  /\ HEAP_ALLOC_BITS \in Nat \ {0}
  /\ HEAP_ALLOC_SLOTS \in Nat \ {0}

\* HEAP_ALLOC_SLOTS is a power of two: it divides those it does not exceed.
\* With another width the last slot of a row would lie in the next row.
ASSUME SlotsAssumption ==
  \A n \in 0..30 : 2^n < HEAP_ALLOC_SLOTS \/ 2^n % HEAP_ALLOC_SLOTS = 0

NULL == 0

\* Heap::align(8, value)
Align(value) == value + ((ALIGNMENT - (value % ALIGNMENT)) % ALIGNMENT)

\* logh: the position of the highest bit of a positive value
logh(value) == CHOOSE n \in 0..30 : 2^n <= value /\ value < 2^(n+1)

SlotOf(value) ==
  LET div == 2^logh(value) \div HEAP_ALLOC_SLOTS
  IN  IF div = 0 THEN 0 ELSE (value - 2^logh(value)) \div div

Class(value) == logh(value) * HEAP_ALLOC_SLOTS + SlotOf(value)

Classes == 0..(HEAP_ALLOC_BITS * HEAP_ALLOC_SLOTS - 1)

EmptyHeap ==
  [offset |-> 0, size |-> [p \in {} |-> 0], free |-> [c \in Classes |-> <<>>]]

-----------------------------------------------------------------------------
(* Heap::alloc, with n the aligned size.                                   *)

\* allocFromBase refuses when m_pOffset + allocSize >= m_pEnd.
FitsBase(h, n) == h.offset + n + EntrySize < ArenaSize

\* Mutant: the header of the block is not written.
CarveNoHeader(h, n) ==
  [heap |-> [offset |-> h.offset + EntrySize + n, size |-> h.size, free |-> h.free],
   ptr  |-> h.offset + EntrySize]

Carve(h, n) ==
  LET p == h.offset + EntrySize
  IN  [heap |-> [offset |-> p + n,
                 size   |-> [q \in DOMAIN h.size \cup {p} |->
                               IF q = p THEN n ELSE h.size[q]],
                 free   |-> h.free],
       ptr  |-> p]

\* Mutant: the first block of the list is taken, whatever its size.
FitsAny(h, n, c) == DOMAIN h.free[c]

\* The positions of free list c whose block is large enough.
Fits(h, n, c) == {i \in DOMAIN h.free[c] : h.size[h.free[c][i]] >= n}

\* Mutant: the search starts behind the class of the request.
FittingClassesAbove(h, n) == {c \in Classes : c > Class(n) /\ Fits(h, n, c) # {}}

FittingClasses(h, n) == {c \in Classes : c >= Class(n) /\ Fits(h, n, c) # {}}

\* Mutant: the block is not unlinked from its list.
RecycleLinked(h, n) ==
  LET c == Min(FittingClasses(h, n))
  IN  [heap |-> h, ptr |-> h.free[c][Min(Fits(h, n, c))]]

\* allocFromFree: the first list with a fit, and the first fit in that list.
Recycle(h, n) ==
  LET c == Min(FittingClasses(h, n))
      i == Min(Fits(h, n, c))
  IN  [heap |-> [offset |-> h.offset,
                 size   |-> h.size,
                 free   |-> [h.free EXCEPT ![c] = RemoveAt(@, i)]],
       ptr  |-> h.free[c][i]]

HeapAlloc(h, cbSize) ==
  LET n == Align(cbSize)
  IN  IF FitsBase(h, n) THEN Carve(h, n)
      ELSE IF FittingClasses(h, n) # {} THEN Recycle(h, n)
      ELSE [heap |-> h, ptr |-> NULL]

-----------------------------------------------------------------------------
(* Heap::free pushes the block on the list of its class, once it has       *)
(* asserted that the class exists.                                         *)

FreeAsserts(h, p) == logh(h.size[p]) < HEAP_ALLOC_BITS

HeapFree(h, p) ==
  [offset |-> h.offset,
   size   |-> h.size,
   free   |-> [h.free EXCEPT ![Class(h.size[p])] = <<p>> \o @]]
=============================================================================
