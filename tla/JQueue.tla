------------------------------- MODULE JQueue -------------------------------
(***************************************************************************)
(* The ring of ultracache/JQueue.h as operators on a record                *)
(*   read, write : m_iReadCursor and m_iWriteCursor                        *)
(*   count       : m_cItems                                                *)
(*   list        : m_pQueueList                                            *)
(* The program pushes at the beginning and pops at the end, so both        *)
(* cursors only ever count down, and wrap below zero.                      *)
(***************************************************************************)
EXTENDS Integers, Sequences

CONSTANTS
  Length,        \* m_cQueueLength, 2^20 in the server
  CursorRange,   \* the values of an unsigned int, 2^32: a multiple of Length
  NoItem         \* what a slot holds before it is used

ASSUME JQueueAssumption ==
  /\ Length \in Nat \ {0}
  /\ CursorRange \in Nat \ {0}
  /\ CursorRange % Length = 0

Cursors == 0..(CursorRange - 1)
Slots   == 0..(Length - 1)

Before(cursor) == IF cursor = 0 THEN CursorRange - 1 ELSE cursor - 1

EmptyQueue ==
  [read |-> 0, write |-> 0, count |-> 0, list |-> [i \in Slots |-> NoItem]]

Full(q)  == q.count = Length
Empty(q) == q.count = 0

\* PushBegin, when there is room: the cursor is moved, then the slot written.
PushBegin(q, item) ==
  [read  |-> Before(q.read),
   write |-> q.write,
   count |-> q.count + 1,
   list  |-> [q.list EXCEPT ![Before(q.read) % Length] = item]]

\* Mutant: the slot is written before the cursor is moved.
PopEndLate(q) ==
  [queue |-> [read  |-> q.read,
              write |-> Before(q.write),
              count |-> q.count - 1,
              list  |-> [q.list EXCEPT ![q.write % Length] = NoItem]],
   item  |-> q.list[q.write % Length]]

\* PopEnd, when there is an item: the cursor is moved, then the slot read.
PopEnd(q) ==
  [queue |-> [read  |-> q.read,
              write |-> Before(q.write),
              count |-> q.count - 1,
              list  |-> [q.list EXCEPT ![Before(q.write) % Length] = NoItem]],
   item  |-> q.list[Before(q.write) % Length]]

\* The items in the ring, the one PopEnd returns next first.
ItemsOf(q) ==
  [i \in 1..q.count |->
     q.list[((q.write + (CursorRange - i)) % CursorRange) % Length]]
=============================================================================
