------------------------------ MODULE PacketPool ------------------------------
(***************************************************************************)
(* The packets of a server: the free list they are taken from and given    *)
(* back to (JAllocator.h, Packet.cpp), and the lists threads make of them  *)
(* and delete again (PacketReader.cpp, PacketWriter.cpp).                  *)
(*                                                                         *)
(* A packet keeps its next pointer when it is deleted, until it has been   *)
(* allocated again and constructed.  The destructor of PacketReader and    *)
(* put count on that: they delete a packet and then read its next, without *)
(* a lock.  copyToBuffer and send read it first.                           *)
(*                                                                         *)
(* list, lost and raced are not in the code.                               *)
(***************************************************************************)
EXTENDS Integers, Sequences, FiniteSets, Functions

CONSTANTS
  Threads,
  Packets,     \* the memory for packets; as many as there may ever be
  PreAlloc,    \* those the allocator has from the start
  NULL

ASSUME PacketPoolAssumption ==
  /\ PreAlloc \subseteq Packets /\ IsFiniteSet(PreAlloc)
  /\ NULL \notin Packets

VARIABLES
  free,      \* m_pFreeList, from its first item on
  items,     \* the packets there are; m_cItems is their number
  next,      \* Packet::next of every packet
  pc,        \* what a thread is doing
  packet,    \* the packet it has in hand, or NULL
  cur,       \* where it is in the list it deletes
  head, tail,   \* m_head and m_tail of the list it makes
  list,      \* the packets it has linked and not deleted
  lost,      \* the packets that were neither linked nor deleted
  raced      \* a thread has constructed a packet whose next is still to be read

threadVars == <<pc, packet, cur, head, tail, list>>
vars == <<free, items, next, threadVars, lost, raced>>

\* The free list at the start, in some order.
Init ==
  /\ free \in {s \in [1..Cardinality(PreAlloc) -> PreAlloc] : Range(s) = PreAlloc}
  /\ items = PreAlloc
  /\ next = [p \in Packets |-> NULL]
  /\ pc = [t \in Threads |-> "idle"]
  /\ packet = [t \in Threads |-> NULL]
  /\ cur = [t \in Threads |-> NULL]
  /\ head = [t \in Threads |-> NULL]
  /\ tail = [t \in Threads |-> NULL]
  /\ list = [t \in Threads |-> <<>>]
  /\ lost = {}
  /\ raced = FALSE

-----------------------------------------------------------------------------
(* JAllocator, under packetSL                                              *)

\* Mutant: the item stays on the free list.
AllocKeeps(p) ==
  \/ /\ free # <<>>
     /\ p = Head(free)
     /\ UNCHANGED <<free, items>>
  \/ /\ free = <<>>
     /\ p \in Packets \ items
     /\ items' = items \cup {p}
     /\ UNCHANGED free

\* Mutant: a new item is not counted.
AllocUncounted(p) ==
  \/ /\ free # <<>>
     /\ p = Head(free)
     /\ free' = Tail(free)
     /\ UNCHANGED items
  \/ /\ free = <<>>
     /\ p \in Packets \ items
     /\ UNCHANGED <<free, items>>

\* JAllocator::Alloc: the first item of the free list, or a new one.
Alloc(p) ==
  \/ /\ free # <<>>
     /\ p = Head(free)
     /\ free' = Tail(free)
     /\ UNCHANGED items
  \/ /\ free = <<>>
     /\ p \in Packets \ items
     /\ items' = items \cup {p}
     /\ UNCHANGED free

\* JAllocator::Free
Free(p) ==
  /\ free' = <<p>> \o free
  /\ UNCHANGED items

-----------------------------------------------------------------------------
(* The threads                                                             *)

Goto(t, label) == pc' = [pc EXCEPT ![t] = label]

\* The thread is done with the packet it had in hand.
LetGo(t) ==
  /\ packet' = [packet EXCEPT ![t] = NULL]
  /\ Goto(t, "idle")

\* Packet::operator new
New(t) ==
  /\ pc[t] = "idle"
  /\ \E p \in Packets :
       /\ Alloc(p)
       /\ packet' = [packet EXCEPT ![t] = p]
  /\ Goto(t, "allocated")
  /\ UNCHANGED <<next, cur, head, tail, list, lost, raced>>

\* new Packet() sets every member to zero.
Construct(t) ==
  /\ pc[t] = "allocated"
  /\ next' = [next EXCEPT ![packet[t]] = NULL]
  /\ raced' = (raced \/ \E u \in Threads : pc[u] = "dropped" /\ cur[u] = packet[t])
  /\ Goto(t, "filled")
  /\ UNCHANGED <<free, items, packet, cur, head, tail, list, lost>>

\* Mutant: the last packet is not told of its successor.
LinkTail(t) ==
  /\ pc[t] = "filled"
  /\ head' = [head EXCEPT ![t] = IF tail[t] = NULL THEN packet[t] ELSE @]
  /\ tail' = [tail EXCEPT ![t] = packet[t]]
  /\ list' = [list EXCEPT ![t] = Append(@, packet[t])]
  /\ LetGo(t)
  /\ UNCHANGED <<free, items, next, cur, lost, raced>>

\* put and preparePacket link the packet.
Link(t) ==
  /\ pc[t] = "filled"
  /\ head' = [head EXCEPT ![t] = IF tail[t] = NULL THEN packet[t] ELSE @]
  /\ next' = IF tail[t] = NULL THEN next ELSE [next EXCEPT ![tail[t]] = packet[t]]
  /\ tail' = [tail EXCEPT ![t] = packet[t]]
  /\ list' = [list EXCEPT ![t] = Append(@, packet[t])]
  /\ LetGo(t)
  /\ UNCHANGED <<free, items, cur, lost, raced>>

\* A packet that is too short, or not the one the client waits for, is deleted.
DeleteUnlinked(t) ==
  /\ pc[t] = "filled"
  /\ Free(packet[t])
  /\ LetGo(t)
  /\ UNCHANGED <<next, cur, head, tail, list, lost, raced>>

\* put returns FAILED before it has linked the packet.
Refuse(t) ==
  /\ pc[t] = "filled"
  /\ lost' = lost \cup {packet[t]}
  /\ LetGo(t)
  /\ UNCHANGED <<free, items, next, cur, head, tail, list, raced>>

\* A loop that deletes the list starts at m_head.
StartWalk(t, label) ==
  /\ head[t] # NULL
  /\ cur' = [cur EXCEPT ![t] = head[t]]
  /\ Goto(t, label)
  /\ UNCHANGED <<free, items, next, packet, head, tail, list, lost, raced>>

\* ~PacketReader, and put for a first packet in the middle of a request.
StartDrop(t) == pc[t] \in {"idle", "filled"} /\ StartWalk(t, "drop")

\* copyToBuffer and PacketWriter::send
StartKeep(t) == pc[t] = "idle" /\ StartWalk(t, "keep")

\* delete free: it leaves the list of t if it was the first of it.
DeleteCurrent(t) ==
  /\ Free(cur[t])
  /\ list' = [list EXCEPT ![t] = IF @ # <<>> /\ cur[t] = Head(@) THEN Tail(@) ELSE @]

\* packet = packet->next.  After the loop m_head and m_tail are NULL, or gone
\* with their Request.
Follow(t, label) ==
  LET p == next[cur[t]]
  IN  /\ cur' = [cur EXCEPT ![t] = p]
      /\ Goto(t, IF p # NULL THEN label ELSE IF packet[t] = NULL THEN "idle" ELSE "filled")
      /\ head' = [head EXCEPT ![t] = IF p = NULL THEN NULL ELSE @]
      /\ tail' = [tail EXCEPT ![t] = IF p = NULL THEN NULL ELSE @]

\* delete free; then packet = packet->next
Drop(t) ==
  /\ pc[t] = "drop"
  /\ DeleteCurrent(t)
  /\ Goto(t, "dropped")
  /\ UNCHANGED <<next, packet, cur, head, tail, lost, raced>>

DropNext(t) ==
  /\ pc[t] = "dropped"
  /\ Follow(t, "drop")
  /\ UNCHANGED <<free, items, next, packet, list, lost, raced>>

\* packet = packet->next; delete free
Keep(t) ==
  /\ pc[t] = "keep"
  /\ DeleteCurrent(t)
  /\ Follow(t, "keep")
  /\ UNCHANGED <<next, packet, lost, raced>>

Step(t) ==
  \/ New(t)
  \/ Construct(t)
  \/ Link(t)
  \/ DeleteUnlinked(t)
  \/ Refuse(t)
  \/ StartDrop(t)
  \/ StartKeep(t)
  \/ Drop(t)
  \/ DropNext(t)
  \/ Keep(t)

\* When a deleted packet has been read too late, nothing is known any more.
Next == ~raced /\ \E t \in Threads : Step(t)

Spec == Init /\ [][Next]_vars

-----------------------------------------------------------------------------

\* Type invariant of the pool.
TypeOK ==
  /\ free \in Seq(items) /\ items \subseteq Packets /\ lost \subseteq items
  /\ next \in [Packets -> Packets \cup {NULL}]
  /\ pc \in [Threads -> {"idle", "allocated", "filled", "drop", "dropped", "keep"}]
  /\ packet \in [Threads -> items \cup {NULL}]
  /\ cur \in [Threads -> items \cup {NULL}]
  /\ head \in [Threads -> items \cup {NULL}]
  /\ tail \in [Threads -> items \cup {NULL}]
  /\ list \in [Threads -> Seq(items)]
  /\ raced \in BOOLEAN

\* A packet is on the free list, in the list of a thread, in the hand of one, or
\* was refused; it is in one of these places, and there once.  So none is
\* deleted twice or used by two threads, and of all packets only those put has
\* refused are missing when the allocator counts them at the end (JAllocator.h;
\* PacketReader.cpp, put).
InOnePlace ==
  LET places ==
        {<<"free", i, free[i]>> : i \in DOMAIN free}
          \cup (UNION {{<<t, i, list[t][i]>> : i \in DOMAIN list[t]} : t \in Threads})
          \cup {<<t, 0, packet[t]>> : t \in {u \in Threads : packet[u] # NULL}}
          \cup {<<"lost", 0, p>> : p \in lost}
  IN  raced \/ /\ {x[3] : x \in places} = items
               /\ \A x, y \in places : x[3] = y[3] => x = y

\* A thread deletes the packets it has linked and no other, in their order, and
\* leaves none behind: the pointer it reads from a packet it has already deleted
\* is the right one unless another thread has constructed that packet in between
\* (PacketReader.cpp, ~PacketReader and put).
DeletesItsOwn ==
  raced \/ \A t \in Threads :
             /\ pc[t] \in {"drop", "keep"} => list[t] # <<>> /\ cur[t] = Head(list[t])
             /\ head[t] = NULL => list[t] = <<>>
=============================================================================
