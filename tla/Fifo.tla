-------------------------------- MODULE Fifo --------------------------------
(***************************************************************************)
(* What the threads of the server expect of a queue between them: items    *)
(* come out in the order they went in, each to one thread, and while the   *)
(* process lives an item does not stay in the queue for ever.              *)
(***************************************************************************)
EXTENDS Integers, Sequences

CONSTANTS Items, Takers, NoItem, Length

VARIABLES
  items,     \* the items in the queue, oldest first
  held,      \* the item a taker works on, or NoItem
  aborted    \* a put has failed for want of room, and the process is gone

vars == <<items, held, aborted>>

Init ==
  /\ items = <<>>
  /\ held = [t \in Takers |-> NoItem]
  /\ aborted = FALSE

Put(item) ==
  /\ ~aborted
  /\ Len(items) < Length
  /\ items' = Append(items, item)
  /\ UNCHANGED <<held, aborted>>

PutFails ==
  /\ ~aborted
  /\ Len(items) = Length
  /\ aborted' = TRUE
  /\ UNCHANGED <<items, held>>

Take(t) ==
  /\ ~aborted
  /\ held[t] = NoItem
  /\ items # <<>>
  /\ items' = Tail(items)
  /\ held' = [held EXCEPT ![t] = Head(items)]
  /\ UNCHANGED aborted

Done(t) ==
  /\ ~aborted
  /\ held[t] # NoItem
  /\ held' = [held EXCEPT ![t] = NoItem]
  /\ UNCHANGED <<items, aborted>>

SomeTake == \E t \in Takers : Take(t)

Next ==
  \/ \E item \in Items : Put(item)
  \/ PutFails
  \/ SomeTake
  \/ \E t \in Takers : Done(t)

\* What may happen, without what must.
SafeSpec == Init /\ [][Next]_vars

\* The queue never rests while it has an item and a taker is free to take it.
Spec == SafeSpec /\ WF_vars(SomeTake)
=============================================================================
