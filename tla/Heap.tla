-------------------------------- MODULE Heap --------------------------------
(***************************************************************************)
(* The allocator on its own: a client that asks for memory in any of a set *)
(* of sizes and gives back, once, what it was given.                       *)
(***************************************************************************)
EXTENDS HeapOps

CONSTANT Requests   \* the sizes the client asks for

\* Every size is one logh has a position for. The program's are far smaller:
\* an item is its header, a key and a value whose length is a field of 20 bits.
ASSUME RequestsAssumption ==
  /\ Requests \subseteq Nat \ {0}
  /\ \A cbSize \in Requests : Align(cbSize) < 2^30

VARIABLES
  heap,     \* the Heap object
  live,     \* the memory the client holds: address |-> size it asked for
  aborted   \* an assert of Heap.cpp has failed and the process is gone

vars == <<heap, live, aborted>>

Init ==
  /\ heap = EmptyHeap
  /\ live = [p \in {} |-> 0]
  /\ aborted = FALSE

Alloc(cbSize) ==
  LET r == HeapAlloc(heap, cbSize)
  IN  /\ ~aborted
      /\ heap' = r.heap
      /\ live' = IF r.ptr = NULL THEN live
                 ELSE [p \in DOMAIN live \cup {r.ptr} |->
                         IF p = r.ptr THEN cbSize ELSE live[p]]
      /\ UNCHANGED aborted

Free(p) ==
  /\ ~aborted
  /\ FreeAsserts(heap, p)
  /\ heap' = HeapFree(heap, p)
  /\ live' = [q \in DOMAIN live \ {p} |-> live[q]]
  /\ UNCHANGED aborted

FreeAborts(p) ==
  /\ ~aborted
  /\ ~FreeAsserts(heap, p)
  /\ aborted' = TRUE
  /\ UNCHANGED <<heap, live>>

Next ==
  \/ \E cbSize \in Requests : Alloc(cbSize)
  \/ \E p \in DOMAIN live : Free(p)
  \/ \E p \in DOMAIN live : FreeAborts(p)

Spec == Init /\ [][Next]_vars

-----------------------------------------------------------------------------

Blocks == DOMAIN heap.size

\* Type invariant of the Heap object and of its client.
TypeOK ==
  /\ heap.offset \in Nat
  /\ Blocks \subseteq Nat \ {0}
  /\ heap.size \in [Blocks -> Nat]
  /\ heap.free \in [Classes -> Seq(Blocks)]
  /\ DOMAIN live \subseteq Blocks
  /\ live \in [DOMAIN live -> Nat]
  /\ aborted \in BOOLEAN

\* p's bytes, as far as it may be used, end before the header of q begins,
\* or the other way around.
Apart(p, q) ==
  \/ p + heap.size[p] + EntrySize <= q
  \/ q + heap.size[q] + EntrySize <= p

\* The memory Heap::alloc hands out is as large as asked for, lies inside the
\* arena, and shares no byte with any other block or any block's header, so
\* two items of the cache never overwrite one another (Heap.cpp, alloc).
Exclusive ==
  /\ \A p, q \in Blocks : p # q => Apart(p, q)
  /\ \A p \in Blocks : EntrySize <= p /\ p + heap.size[p] <= heap.offset
  /\ heap.offset <= ArenaSize
  /\ \A p \in DOMAIN live : live[p] <= heap.size[p]

\* No block is handed out twice: what the client holds is on no free list, and
\* a block is on one list, once (Heap.cpp, alloc and free).
NotHandedOutTwice ==
  /\ \A c \in Classes : \A i \in DOMAIN heap.free[c] :
       heap.free[c][i] \notin DOMAIN live
  /\ \A c, d \in Classes : \A i \in DOMAIN heap.free[c], j \in DOMAIN heap.free[d] :
       heap.free[c][i] = heap.free[d][j] => c = d /\ i = j

\* A request is refused only when the arena is exhausted and no block that has
\* been given back is large enough: the search that starts in the class of the
\* request and goes up misses nothing (Heap.cpp, allocFromFree).
RefusedOnlyWhenFull ==
  \A cbSize \in Requests :
    HeapAlloc(heap, cbSize).ptr = NULL =>
      \A p \in Blocks \ DOMAIN live : heap.size[p] < Align(cbSize)

\* The assert of Heap::free, index < HEAP_ALLOC_BITS, does not fail.
NeverAborts == ~aborted
=============================================================================
