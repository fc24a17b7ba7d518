---------------------------- MODULE JThreadQueue ----------------------------
(***************************************************************************)
(* The queue between the threads of the server, ultracache/JThreadQueue.h: *)
(* a ring, the mutex that protects it and the condition its takers sleep   *)
(* on.  Everything a thread does while it holds the mutex is one step; a   *)
(* taker that sleeps has released it and must get it again to go on.       *)
(*                                                                         *)
(* What the condition variable does follows POSIX: a signal wakes a sleeper *)
(* if there is one and is forgotten otherwise, and a sleeper may wake up   *)
(* without any.                                                            *)
(***************************************************************************)
EXTENDS JQueue, FiniteSets

CONSTANTS
  Items,    \* what is posted, pointers in the code; NULL may be one
  Takers    \* the threads that call WaitForItem, in an endless loop

ASSUME JThreadQueueAssumption ==
  /\ NoItem \notin Items
  /\ IsFiniteSet(Takers)

VARIABLES
  queue,    \* m_queue
  pc,       \* where a taker is: "outside" the wait, "asleep" in it or "woken"
  held,     \* the item WaitForItem has returned to a taker, or NoItem
  aborted   \* the assert of PostItem has failed

vars == <<queue, pc, held, aborted>>

Init ==
  /\ queue = EmptyQueue
  /\ pc = [t \in Takers |-> "outside"]
  /\ held = [t \in Takers |-> NoItem]
  /\ aborted = FALSE

Sleepers == {t \in Takers : pc[t] = "asleep"}
Woken    == {t \in Takers : pc[t] = "woken"}

\* Mutant: no signal.
SignalForgotten == UNCHANGED pc

\* JCondition::Signal
Signal ==
  \/ Sleepers = {} /\ UNCHANGED pc
  \/ \E t \in Sleepers : pc' = [pc EXCEPT ![t] = "woken"]

\* PostItem, by any thread
Post(item) ==
  /\ ~aborted
  /\ ~Full(queue)
  /\ queue' = PushBegin(queue, item)
  /\ Signal
  /\ UNCHANGED <<held, aborted>>

\* PostItem on a full queue: its assert(bResult) fails.
PostAborts ==
  /\ ~aborted
  /\ Full(queue)
  /\ aborted' = TRUE
  /\ UNCHANGED <<queue, pc, held>>

\* A taker leaves WaitForItem with the item PopEnd has given it.
Pop(t) ==
  /\ ~Empty(queue)
  /\ queue' = PopEnd(queue).queue
  /\ held' = [held EXCEPT ![t] = PopEnd(queue).item]
  /\ pc' = [pc EXCEPT ![t] = "outside"]
  /\ UNCHANGED aborted

\* WaitForItem up to its first PopEnd, and to sleep if that finds nothing.
WaitForItem(t) ==
  /\ ~aborted
  /\ pc[t] = "outside" /\ held[t] = NoItem
  /\ \/ Pop(t)
     \/ /\ Empty(queue)
        /\ pc' = [pc EXCEPT ![t] = "asleep"]
        /\ UNCHANGED <<queue, held, aborted>>

\* Mutant: a woken taker that finds nothing goes on without an item.
ResumeOnce(t) ==
  /\ ~aborted
  /\ pc[t] = "woken"
  /\ queue' = PopEnd(queue).queue
  /\ held' = [held EXCEPT ![t] = PopEnd(queue).item]
  /\ pc' = [pc EXCEPT ![t] = "outside"]
  /\ UNCHANGED aborted

\* A woken taker has the mutex again: the second PopEnd, and RETRY_WAIT if
\* another taker has been faster.
Resume(t) ==
  /\ ~aborted
  /\ pc[t] = "woken"
  /\ \/ Pop(t)
     \/ /\ Empty(queue)
        /\ pc' = [pc EXCEPT ![t] = "outside"]
        /\ UNCHANGED <<queue, held, aborted>>

WakeUp(t) ==
  /\ ~aborted
  /\ pc[t] = "asleep"
  /\ pc' = [pc EXCEPT ![t] = "woken"]
  /\ UNCHANGED <<queue, held, aborted>>

\* The body of the taker's loop ends (Server::txThread, Server::main).
Done(t) ==
  /\ ~aborted
  /\ held[t] # NoItem
  /\ held' = [held EXCEPT ![t] = NoItem]
  /\ UNCHANGED <<queue, pc, aborted>>

Step(t) == WaitForItem(t) \/ Resume(t) \/ Done(t)

Next ==
  \/ \E item \in Items : Post(item)
  \/ PostAborts
  \/ \E t \in Takers : Step(t) \/ WakeUp(t)

Spec == Init /\ [][Next]_vars

\* Every taker that can run does; nobody has to post and no sleeper has to
\* wake by itself.
FairSpec == Spec /\ \A t \in Takers : WF_vars(Step(t))

-----------------------------------------------------------------------------

\* Type invariant of the queue and its threads.
TypeOK ==
  /\ queue.read \in Cursors
  /\ queue.write \in Cursors
  /\ queue.count \in 0..Length
  /\ queue.list \in [Slots -> Items \cup {NoItem}]
  /\ pc \in [Takers -> {"outside", "asleep", "woken"}]
  /\ held \in [Takers -> Items \cup {NoItem}]
  /\ aborted \in BOOLEAN

\* No wake-up is lost: as long as a taker sleeps, at least as many takers have
\* been woken as there are items, so none of them waits for a taker that will
\* not come (JThreadQueue.h, PostItem and WaitForItem).
NoLostWakeup ==
  Sleepers # {} => queue.count <= Cardinality(Woken)

Queue == INSTANCE Fifo WITH items <- ItemsOf(queue)

\* Through every interleaving of the threads, and when the cursors wrap, the
\* ring, the mutex and the condition make a first-in-first-out queue in which
\* no item is lost, given twice or left behind.
ImplementsFifo == Queue!Spec
=============================================================================
