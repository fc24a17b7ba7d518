------------------------------ MODULE Lifecycle ------------------------------
(***************************************************************************)
(* The threads of a server from start to end (Server.cpp: main, rxThread,  *)
(* txThread and shutdown; JThread.cpp): how a stop reaches each of them,   *)
(* and what becomes of the packets, requests and responses on the way.     *)
(*                                                                         *)
(* A datagram is known by what put and decodeRequest make of it; all that  *)
(* an rx thread does with it is one step here, Receive.tla has the rest.   *)
(* The queues are what JThreadQueue.tla shows them to be.                  *)
(*                                                                         *)
(* arrived, parts, refused and unanswered are not in the code.             *)
(***************************************************************************)
EXTENDS Integers, Sequences, FiniteSets

CONSTANTS
  N,             \* m_cThreads, the rx threads and the tx threads each
  MaxDatagrams,  \* bound: how many datagrams arrive
  Kinds,         \* what may arrive, of AllKinds
  NULL

AllKinds == {"short",    \* less than a header
             "refused",  \* a new request, but not the first packet of one
             "part",     \* the first packet of more, and no other comes
             "async",    \* a whole request that gets no answer, or cannot be decoded
             "sync",     \* a whole one that gets one
             "version"}  \* a whole one whose answer is made, and not posted

ASSUME LifecycleAssumption ==
  /\ N \in Nat \ {0}
  /\ Kinds \subseteq AllKinds
  /\ NULL \notin AllKinds

Threads == 1..N

VARIABLES
  running,      \* m_bIsRunning
  stopper,      \* how far the thread is that calls shutdown
  socketOpen,   \* main has not closed m_sockfd
  closeWakes,   \* to close the socket wakes up who waits in recvfrom (Windows)
  net,          \* how many datagrams are in the socket's buffer
  arrived,      \* how many have arrived
  main, job,    \* where main is, and the request it has, or NULL
  turn,         \* the index of main's last two loops
  rx,           \* where each rx thread is
  tx,           \* where each tx thread is
  rxQueue,      \* m_rxQueue, requests and NULLs
  txQueue,      \* m_txQueue, responses and NULLs
  packets, requests, responses,   \* how many have been made and not deleted
  parts,        \* how many requests are in m_rmap, with one packet each
  refused,      \* how many packets put has not taken
  unanswered    \* how many responses were not posted

socketVars == <<socketOpen, closeWakes, net, arrived>>
stopVars   == <<running, stopper>>
mainVars   == <<main, job, turn>>
queueVars  == <<rxQueue, txQueue>>
objectVars == <<packets, requests, responses, parts, refused, unanswered>>
vars == <<stopVars, socketVars, mainVars, rx, tx, queueVars, objectVars>>

\* main has made its socket, its cache and its threads.
Init ==
  /\ running = TRUE
  /\ stopper = "idle"
  /\ socketOpen = TRUE
  /\ closeWakes \in BOOLEAN
  /\ net = 0
  /\ arrived = 0
  /\ main = "test" /\ job = NULL /\ turn = 1
  /\ rx = [t \in Threads |-> "test"]
  /\ tx = [t \in Threads |-> "wait"]
  /\ rxQueue = <<>>
  /\ txQueue = <<>>
  /\ packets = 0 /\ requests = 0 /\ responses = 0
  /\ parts = 0 /\ refused = 0 /\ unanswered = 0

-----------------------------------------------------------------------------
(* The network, and the thread that ends the server                        *)

\* Where the socket is closed under them, those inside recvfrom keep it alive.
Listening(t) == rx[t] = "inside" /\ (socketOpen \/ ~closeWakes)

Arrive ==
  /\ arrived < MaxDatagrams
  /\ socketOpen \/ \E t \in Threads : Listening(t)
  /\ net' = net + 1
  /\ arrived' = arrived + 1
  /\ UNCHANGED <<socketOpen, closeWakes, stopVars, mainVars, rx, tx, queueVars,
                 objectVars>>

\* Mutant: the NULL is posted before the flag is cleared.
ShutdownPostsFirst ==
  /\ \/ /\ stopper = "idle"
        /\ stopper' = "cleared"
        /\ rxQueue' = Append(rxQueue, NULL)
        /\ UNCHANGED running
     \/ /\ stopper = "cleared"
        /\ stopper' = "done"
        /\ running' = FALSE
        /\ UNCHANGED rxQueue
  /\ UNCHANGED <<socketVars, mainVars, rx, tx, txQueue, objectVars>>

\* shutdown
Shutdown ==
  /\ \/ /\ stopper = "idle"
        /\ stopper' = "cleared"
        /\ running' = FALSE
        /\ UNCHANGED rxQueue
     \/ /\ stopper = "cleared"
        /\ stopper' = "done"
        /\ rxQueue' = Append(rxQueue, NULL)
        /\ UNCHANGED running
  /\ UNCHANGED <<socketVars, mainVars, rx, tx, txQueue, objectVars>>

-----------------------------------------------------------------------------
(* rxThread                                                                *)

\* while (m_bIsRunning), and new Packet()
RxTest(t) ==
  /\ rx[t] = "test"
  /\ \/ /\ running
        /\ rx' = [rx EXCEPT ![t] = "entering"]
        /\ packets' = packets + 1
     \/ /\ ~running
        /\ rx' = [rx EXCEPT ![t] = "ended"]
        /\ UNCHANGED packets
  /\ UNCHANGED <<stopVars, socketVars, mainVars, tx, queueVars, requests,
                 responses, parts, refused, unanswered>>

\* Mutant: the packet of a failed recvfrom is not deleted.
RxFailsKeeps(t) ==
  /\ rx' = [rx EXCEPT ![t] = "test"]
  /\ UNCHANGED packets

\* recvfrom has returned -1: delete packet, continue
RxFails(t) ==
  /\ rx' = [rx EXCEPT ![t] = "test"]
  /\ packets' = packets - 1

\* The thread calls recvfrom.
RxEnter(t) ==
  /\ rx[t] = "entering"
  /\ \/ /\ socketOpen
        /\ rx' = [rx EXCEPT ![t] = "inside"]
        /\ UNCHANGED packets
     \/ ~socketOpen /\ RxFails(t)
  /\ UNCHANGED <<stopVars, socketVars, mainVars, tx, queueVars, requests,
                 responses, parts, refused, unanswered>>

RxWoken(t) ==
  /\ rx[t] = "inside" /\ ~Listening(t)
  /\ RxFails(t)
  /\ UNCHANGED <<stopVars, socketVars, mainVars, tx, queueVars, requests,
                 responses, parts, refused, unanswered>>

RxRecv(t) ==
  /\ Listening(t)
  /\ net > 0
  /\ rx' = [rx EXCEPT ![t] = "received"]
  /\ net' = net - 1
  /\ UNCHANGED <<stopVars, socketOpen, closeWakes, arrived, mainVars, tx, queueVars,
                 objectVars>>

\* The rest of the loop: new Request(), put, and what its result demands.
RxHandle(t, datagram) ==
  /\ rx[t] = "received"
  /\ rx' = [rx EXCEPT ![t] = "test"]
  /\ \/ /\ datagram = "short"
        /\ packets' = packets - 1
        /\ UNCHANGED <<rxQueue, requests, parts, refused>>
     \/ /\ datagram = "refused"
        /\ refused' = refused + 1
        /\ UNCHANGED <<rxQueue, packets, requests, parts>>
     \/ /\ datagram = "part"
        /\ parts' = parts + 1
        /\ requests' = requests + 1
        /\ UNCHANGED <<rxQueue, packets, refused>>
     \/ /\ datagram \in {"async", "sync", "version"}
        /\ rxQueue' = Append(rxQueue, datagram)
        /\ requests' = requests + 1
        /\ UNCHANGED <<packets, parts, refused>>
  /\ UNCHANGED <<stopVars, socketVars, mainVars, tx, txQueue, responses, unanswered>>

-----------------------------------------------------------------------------
(* txThread                                                                *)

\* while (m_bIsRunning).  What a thread does before it comes here is seen by no
\* other thread before the next test, so the test is part of the same step.
TxTest(t) == tx' = [tx EXCEPT ![t] = IF running THEN "wait" ELSE "ended"]

\* m_txQueue.WaitForItem
TxTake(t) ==
  /\ tx[t] = "wait"
  /\ txQueue # <<>>
  /\ txQueue' = Tail(txQueue)
  /\ \/ Head(txQueue) = NULL /\ TxTest(t)
     \/ Head(txQueue) # NULL /\ tx' = [tx EXCEPT ![t] = "send"]
  /\ UNCHANGED <<stopVars, socketVars, mainVars, rx, rxQueue, objectVars>>

\* Mutant: send deletes its packet, and the destructor does again.
TxSendTwice(t) ==
  /\ tx[t] = "send"
  /\ TxTest(t)
  /\ packets' = packets - 2
  /\ responses' = responses - 1
  /\ UNCHANGED <<stopVars, socketVars, mainVars, rx, queueVars, requests, parts,
                 refused, unanswered>>

\* send deletes the packet, whether sendto succeeds or not; delete response
TxSend(t) ==
  /\ tx[t] = "send"
  /\ TxTest(t)
  /\ packets' = packets - 1
  /\ responses' = responses - 1
  /\ UNCHANGED <<stopVars, socketVars, mainVars, rx, queueVars, requests, parts,
                 refused, unanswered>>

-----------------------------------------------------------------------------
(* main                                                                    *)

\* while (m_bIsRunning)
MainTest ==
  /\ main = "test"
  /\ main' = IF running THEN "wait" ELSE "close"
  /\ UNCHANGED <<job, turn, stopVars, socketVars, rx, tx, queueVars, objectVars>>

\* m_rxQueue.WaitForItem
MainTake ==
  /\ main = "wait"
  /\ rxQueue # <<>>
  /\ rxQueue' = Tail(rxQueue)
  /\ job' = Head(rxQueue)
  /\ main' = IF Head(rxQueue) = NULL THEN "test" ELSE "serve"
  /\ UNCHANGED <<turn, stopVars, socketVars, rx, tx, txQueue, objectVars>>

\* decodeRequest, delete request
MainServe ==
  /\ main = "serve"
  /\ main' = "test"
  /\ job' = NULL
  /\ requests' = requests - 1
  /\ \/ /\ job = "async"
        /\ packets' = packets - 1
        /\ UNCHANGED <<txQueue, responses, unanswered>>
     \/ /\ job = "sync"
        /\ txQueue' = Append(txQueue, job)
        /\ responses' = responses + 1
        /\ UNCHANGED <<packets, unanswered>>
     \/ /\ job = "version"
        /\ unanswered' = unanswered + 1
        /\ responses' = responses + 1
        /\ UNCHANGED <<packets, txQueue>>
  /\ UNCHANGED <<turn, stopVars, socketVars, rx, tx, rxQueue, parts, refused>>

\* SocketClose.  Where nobody is kept inside recvfrom, what was not received
\* is gone.
MainClose ==
  /\ main = "close"
  /\ main' = "post"
  /\ socketOpen' = FALSE
  /\ net' = IF ~closeWakes /\ \E t \in Threads : rx[t] = "inside" THEN net ELSE 0
  /\ UNCHANGED <<closeWakes, arrived, job, turn, stopVars, rx, tx, queueVars,
                 objectVars>>

\* for (index = 0; index < m_cThreads; index ++)
EndLoop(next) ==
  /\ turn' = IF turn < N THEN turn + 1 ELSE 1
  /\ main' = IF turn < N THEN main ELSE next

\* Mutant: one NULL for all threads.
MainPostOnce ==
  /\ main = "post"
  /\ main' = "join rx"
  /\ txQueue' = Append(txQueue, NULL)
  /\ rxQueue' = Append(rxQueue, NULL)
  /\ UNCHANGED <<job, turn, stopVars, socketVars, rx, tx, objectVars>>

MainPost ==
  /\ main = "post"
  /\ txQueue' = Append(txQueue, NULL)
  /\ rxQueue' = Append(rxQueue, NULL)
  /\ EndLoop("join rx")
  /\ UNCHANGED <<job, stopVars, socketVars, rx, tx, objectVars>>

MainJoinRx ==
  /\ main = "join rx"
  /\ rx[turn] = "ended"
  /\ main' = "join tx"
  /\ UNCHANGED <<job, turn, stopVars, socketVars, rx, tx, queueVars, objectVars>>

\* Mutant: the loop ends one thread early.
MainJoinTxShort ==
  /\ main = "join tx"
  /\ tx[turn] = "ended"
  /\ turn' = IF turn < N - 1 THEN turn + 1 ELSE 1
  /\ main' = IF turn < N - 1 THEN "join rx" ELSE "ended"
  /\ UNCHANGED <<job, stopVars, socketVars, rx, tx, queueVars, objectVars>>

MainJoinTx ==
  /\ main = "join tx"
  /\ tx[turn] = "ended"
  /\ turn' = IF turn < N THEN turn + 1 ELSE 1
  /\ main' = IF turn < N THEN "join rx" ELSE "ended"
  /\ UNCHANGED <<job, stopVars, socketVars, rx, tx, queueVars, objectVars>>

-----------------------------------------------------------------------------

MainStep == \/ MainTest \/ MainTake \/ MainServe \/ MainClose \/ MainPost
            \/ MainJoinRx \/ MainJoinTx

RxStep(t) ==
  \/ RxTest(t) \/ RxEnter(t) \/ RxWoken(t) \/ RxRecv(t)
  \/ \E kind \in Kinds : RxHandle(t, kind)

TxStep(t) == TxTake(t) \/ TxSend(t)

Next ==
  \/ Arrive
  \/ Shutdown
  \/ MainStep
  \/ \E t \in Threads : RxStep(t) \/ TxStep(t)

Spec == Init /\ [][Next]_vars

\* Every thread that can run does; shutdown, once called, is finished; nothing
\* has to arrive.
FairSpec ==
  /\ Spec
  /\ WF_vars(MainStep)
  /\ WF_vars(stopper = "cleared" /\ Shutdown)
  /\ \A t \in Threads : WF_vars(RxStep(t)) /\ WF_vars(TxStep(t))

-----------------------------------------------------------------------------

ControlType ==
  /\ running \in BOOLEAN /\ socketOpen \in BOOLEAN /\ closeWakes \in BOOLEAN
  /\ stopper \in {"idle", "cleared", "done"}
  /\ main \in {"test", "wait", "serve", "close", "post", "join rx", "join tx", "ended"}
  /\ turn \in Threads
  /\ rx \in [Threads -> {"test", "entering", "inside", "received", "ended"}]
  /\ tx \in [Threads -> {"wait", "send", "ended"}]

QueueType ==
  /\ job \in AllKinds \cup {NULL}
  /\ rxQueue \in Seq(AllKinds \cup {NULL})
  /\ txQueue \in Seq(AllKinds \cup {NULL})

CountType ==
  /\ net \in Nat /\ arrived \in Nat
  /\ packets \in Nat /\ requests \in Nat /\ responses \in Nat
  /\ parts \in Nat /\ refused \in Nat /\ unanswered \in Nat

\* Type invariant of the server's life: nothing is deleted that is not there.
TypeOK == ControlType /\ QueueType /\ CountType

\* When main has returned nothing happens in the server any more, unless main has
\* overtaken the thread in shutdown, which still has its NULL to post
\* (Server.cpp:569): a caller may destroy the server when both have returned
\* (Server.cpp, main and shutdown).
NothingRunsAfterReturn == [][main = "ended" => stopper = "cleared" /\ Shutdown]_vars

\* The requests or responses in a queue, the packets rx threads have in hand, the
\* responses tx threads have in hand, the request main has in hand
Objects(queue) == Cardinality({i \in DOMAIN queue : queue[i] # NULL})
Holding == {t \in Threads : rx[t] \in {"entering", "inside", "received"}}
Sending == {t \in Threads : tx[t] = "send"}
Serving == IF job = NULL THEN 0 ELSE 1

\* What the allocators miss at any time, and count as leaked when the process
\* ends (JAllocator.h), is what a thread has in hand, what is in a queue, what
\* is in m_rmap, and two leaks: the packets put refuses and the answers to
\* VERSION.  Whatever the moment of the stop, it adds nothing but the items
\* still in the queues (Server.cpp, main, rxThread and txThread).
Accounted ==
  /\ requests = parts + Objects(rxQueue) + Serving
  /\ responses = Objects(txQueue) + Cardinality(Sending) + unanswered
  /\ packets = Cardinality(Holding) + refused + requests + responses

\* The allocators assert when the process ends that everything made has been
\* deleted (JAllocator.h:54; Packet.cpp, Request.cpp and Response.cpp).
NothingLeaks == main = "ended" => packets = 0 /\ requests = 0 /\ responses = 0

\* A thread main waits for is in a recvfrom that the closing of the socket does
\* not end.
HeldUp == main = "join rx" /\ rx[turn] = "inside" /\ Listening(turn)

\* A call of shutdown ends the server, wherever main and the threads are; but
\* on Linux main may wait for a thread that waits for one more datagram
\* (Server.cpp, shutdown, main and rxThread).
StopEnds == ~running ~> (main = "ended" \/ (~closeWakes /\ HeldUp))

\* The tx threads end in any case: one NULL for each is enough, whatever is in
\* the queue before them and whoever takes them (Server.cpp, main and txThread).
TxThreadsEnd == ~running ~> \A t \in Threads : tx[t] = "ended"
=============================================================================
