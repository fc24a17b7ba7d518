--------------------------- MODULE LifecycleProofs ---------------------------
(***************************************************************************)
(* Theorems about the threads of a server, for any number of them, any     *)
(* number of datagrams and any moment of the stop.                         *)
(***************************************************************************)
EXTENDS Lifecycle, FiniteSetTheorems, SequenceTheorems, TLAPS

Entry == AllKinds \cup {NULL}

(* The items in a queue are a finite number. *)
LEMMA ObjectsFinite ==
  ASSUME NEW q \in Seq(Entry)
  PROVE  /\ IsFiniteSet({i \in DOMAIN q : q[i] # NULL})
         /\ Objects(q) \in Nat
<1>1. IsFiniteSet(1..Len(q))
  BY FS_Interval
<1>2. {i \in DOMAIN q : q[i] # NULL} \in SUBSET (1..Len(q))
  OBVIOUS
<1>3. IsFiniteSet({i \in DOMAIN q : q[i] # NULL})
  BY <1>1, <1>2, FS_Subset
<1> QED
  BY <1>3, FS_CardinalityType DEF Objects

(* An item put into a queue counts there unless it is NULL. *)
LEMMA ObjectsAppend ==
  ASSUME NEW q \in Seq(Entry), NEW x \in Entry
  PROVE  /\ Append(q, x) \in Seq(Entry)
         /\ Objects(Append(q, x)) = Objects(q) + (IF x = NULL THEN 0 ELSE 1)
<1> DEFINE D == {i \in DOMAIN q : q[i] # NULL}
           E == {i \in DOMAIN Append(q, x) : Append(q, x)[i] # NULL}
<1>1. /\ DOMAIN Append(q, x) = 1..(Len(q) + 1)
      /\ Append(q, x)[Len(q) + 1] = x
      /\ \A i \in 1..Len(q) : Append(q, x)[i] = q[i]
      /\ DOMAIN q = 1..Len(q) /\ Len(q) \in Nat
  OBVIOUS
<1>2. E = IF x = NULL THEN D ELSE D \cup {Len(q) + 1}
  BY <1>1
<1>3. IsFiniteSet(D)
  BY ObjectsFinite
<1>a. Len(q) + 1 \notin D
  BY <1>1
<1>4. Cardinality(D \cup {Len(q) + 1}) = Cardinality(D) + 1
  BY <1>3, <1>a, FS_AddElement
<1>5. Objects(q) = Cardinality(D) /\ Objects(Append(q, x)) = Cardinality(E)
  BY DEF Objects
<1>6. Cardinality(D) \in Nat
  BY <1>3, FS_CardinalityType
<1>7. Append(q, x) \in Seq(Entry)
  OBVIOUS
<1> HIDE DEF D, E
<1> QED
  BY <1>2, <1>4, <1>5, <1>6, <1>7

(* And the one taken from it counted there unless it is NULL. *)
LEMMA ObjectsTail ==
  ASSUME NEW q \in Seq(Entry), q # <<>>
  PROVE  /\ Tail(q) \in Seq(Entry) /\ Head(q) \in Entry
         /\ Objects(q) = Objects(Tail(q)) + (IF Head(q) = NULL THEN 0 ELSE 1)
<1> DEFINE D == {i \in DOMAIN q : q[i] # NULL}
           E == {i \in DOMAIN Tail(q) : Tail(q)[i] # NULL}
           F == D \ {1}
           shift == [i \in E |-> i + 1]
<1>1. /\ DOMAIN q = 1..Len(q) /\ Len(q) \in Nat /\ Len(q) > 0 /\ Head(q) = q[1]
      /\ Tail(q) \in Seq(Entry)
      /\ DOMAIN Tail(q) = 1..(Len(q) - 1)
      /\ \A i \in 1..(Len(q) - 1) : Tail(q)[i] = q[i + 1]
  OBVIOUS
<1>2. shift \in [E -> F]
  BY <1>1
<1>3. \A a, b \in E : shift[a] = shift[b] => a = b
  BY <1>1
<1>4. \A j \in F : \E i \in E : shift[i] = j
  <2> SUFFICES ASSUME NEW j \in F PROVE \E i \in E : shift[i] = j
    OBVIOUS
  <2>1. j - 1 \in E /\ shift[j - 1] = j
    BY <1>1
  <2> QED
    BY <2>1
<1>5. ExistsBijection(E, F)
  <2>1. shift \in Bijection(E, F)
    BY <1>2, <1>3, <1>4 DEF Bijection, Injection, Surjection, IsInjective
  <2> QED
    BY <2>1 DEF ExistsBijection
<1>6. IsFiniteSet(E) /\ IsFiniteSet(D)
  BY <1>1, ObjectsFinite
<1>7. Cardinality(F) = Cardinality(E)
  BY <1>5, <1>6, FS_Bijection
<1>8. Cardinality(F) = IF 1 \in D THEN Cardinality(D) - 1 ELSE Cardinality(D)
  BY <1>6, FS_RemoveElement
<1>9. 1 \in D <=> Head(q) # NULL
  BY <1>1
<1>10. Objects(q) = Cardinality(D) /\ Objects(Tail(q)) = Cardinality(E)
  BY DEF Objects
<1>11. Cardinality(D) \in Nat /\ Cardinality(E) \in Nat
  BY <1>6, FS_CardinalityType
<1>12. Head(q) \in Entry
  BY <1>1
<1> HIDE DEF D, E, F
<1> QED
  BY <1>1, <1>7, <1>8, <1>9, <1>10, <1>11, <1>12

-----------------------------------------------------------------------------

InHand == {"entering", "inside", "received"}

(* The threads that have something in hand are a finite number, *)
LEMMA HandsFinite ==
  /\ IsFiniteSet(Holding) /\ Cardinality(Holding) \in Nat
  /\ IsFiniteSet(Sending) /\ Cardinality(Sending) \in Nat
<1>1. IsFiniteSet(Threads)
  BY FS_Interval, LifecycleAssumption DEF Threads
<1>2. Holding \in SUBSET Threads /\ Sending \in SUBSET Threads
  BY DEF Holding, Sending
<1>3. IsFiniteSet(Holding) /\ IsFiniteSet(Sending)
  BY <1>1, <1>2, FS_Subset
<1> QED
  BY <1>3, FS_CardinalityType

(* and a step of one thread changes it by that thread. *)
LEMMA HoldingStep ==
  ASSUME ControlType, NEW t \in Threads, NEW to, rx' = [rx EXCEPT ![t] = to]
  PROVE  Cardinality(Holding') = Cardinality(Holding)
           + (IF to \in InHand THEN 1 ELSE 0) - (IF rx[t] \in InHand THEN 1 ELSE 0)
<1>1. Holding' = IF to \in InHand THEN Holding \cup {t} ELSE Holding \ {t}
  BY DEF ControlType, Holding, InHand
<1>2. t \in Holding <=> rx[t] \in InHand
  BY DEF Holding, InHand
<1>3. /\ Cardinality(Holding \cup {t})
           = IF t \in Holding THEN Cardinality(Holding) ELSE Cardinality(Holding) + 1
      /\ Cardinality(Holding \ {t})
           = IF t \in Holding THEN Cardinality(Holding) - 1 ELSE Cardinality(Holding)
  BY HandsFinite, FS_AddElement, FS_RemoveElement
<1> QED
  BY <1>1, <1>2, <1>3, HandsFinite

LEMMA SendingStep ==
  ASSUME ControlType, NEW t \in Threads, NEW to, tx' = [tx EXCEPT ![t] = to]
  PROVE  Cardinality(Sending') = Cardinality(Sending)
           + (IF to = "send" THEN 1 ELSE 0) - (IF tx[t] = "send" THEN 1 ELSE 0)
<1>1. Sending' = IF to = "send" THEN Sending \cup {t} ELSE Sending \ {t}
  BY DEF ControlType, Sending
<1>2. t \in Sending <=> tx[t] = "send"
  BY DEF Sending
<1>3. /\ Cardinality(Sending \cup {t})
           = IF t \in Sending THEN Cardinality(Sending) ELSE Cardinality(Sending) + 1
      /\ Cardinality(Sending \ {t})
           = IF t \in Sending THEN Cardinality(Sending) - 1 ELSE Cardinality(Sending)
  BY HandsFinite, FS_AddElement, FS_RemoveElement
<1> QED
  BY <1>1, <1>2, <1>3, HandsFinite

(* What is counted is never negative. *)
LEMMA CountsNat ==
  ASSUME QueueType
  PROVE  /\ Objects(rxQueue) \in Nat /\ Objects(txQueue) \in Nat
         /\ Serving \in {0, 1}
  BY ObjectsFinite DEF QueueType, Entry, Serving

\* main has a request in hand only while it serves it.
JobServed == main # "serve" => job = NULL

Books == ControlType /\ QueueType /\ CountType /\ Accounted /\ JobServed

(* Nothing exists at the start. *)
LEMMA BooksInit ==
  ASSUME Init
  PROVE  Books
<1>1. ControlType
  BY LifecycleAssumption DEF Init, ControlType, Threads
<1>2. QueueType /\ CountType
  BY DEF Init, QueueType, CountType
<1>3. Holding = {} /\ Sending = {}
  BY DEF Init, Holding, Sending
<1>4. Objects(rxQueue) = 0 /\ Objects(txQueue) = 0
  <2>1. {i \in DOMAIN << >> : << >>[i] # NULL} = {}
    OBVIOUS
  <2> QED
    BY <2>1, FS_EmptySet DEF Init, Objects
<1>5. Accounted
  BY <1>3, <1>4, FS_EmptySet DEF Init, Accounted, Serving
<1> QED
  BY <1>1, <1>2, <1>5 DEF Init, Books, JobServed

(* What the network does is not in the books. *)
LEMMA BooksArrive ==
  ASSUME Books, Arrive
  PROVE  Books'
<1>1. UNCHANGED <<stopVars, mainVars, rx, tx, queueVars, objectVars>>
  BY DEF Arrive
<1>2. ControlType' /\ QueueType'
  BY <1>1 DEF Books, ControlType, QueueType, Arrive, stopVars, mainVars, queueVars
<1>3. CountType'
  BY <1>1 DEF Books, CountType, Arrive, objectVars
<1>4. Accounted' /\ JobServed'
  BY <1>1 DEF Books, Accounted, JobServed, Objects, Holding, Sending, Serving,
              mainVars, queueVars, objectVars
<1> QED
  BY <1>2, <1>3, <1>4 DEF Books

(* Nor is the NULL of shutdown. *)
LEMMA BooksShutdown ==
  ASSUME Books, Shutdown
  PROVE  Books'
<1>1. /\ UNCHANGED <<mainVars, rx, tx, txQueue, objectVars, socketVars>>
      /\ rxQueue' = rxQueue \/ rxQueue' = Append(rxQueue, NULL)
  BY DEF Shutdown
<1>2. rxQueue' \in Seq(Entry) /\ Objects(rxQueue)' = Objects(rxQueue)
  <2>1. rxQueue \in Seq(Entry) /\ NULL \in Entry /\ Objects(rxQueue) \in Nat
    BY CountsNat DEF Books, QueueType, Entry
  <2>2. /\ Append(rxQueue, NULL) \in Seq(Entry)
        /\ Objects(Append(rxQueue, NULL)) = Objects(rxQueue) + 0
    BY <2>1, ObjectsAppend, Zenon
  <2>3. Objects(rxQueue)' = Objects(rxQueue')
    BY DEF Objects
  <2>4. CASE rxQueue' = rxQueue
    BY <2>1, <2>3, <2>4
  <2>5. CASE rxQueue' = Append(rxQueue, NULL)
    <3>1. Objects(rxQueue') = Objects(rxQueue) + 0
      BY <2>2, <2>5
    <3> QED
      BY <2>1, <2>2, <2>3, <2>5, <3>1
  <2> QED
    BY <1>1, <2>4, <2>5
<1>3. ControlType'
  BY <1>1 DEF Books, ControlType, Shutdown, mainVars, socketVars
<1>4. QueueType'
  BY <1>1, <1>2 DEF Books, QueueType, Entry, mainVars
<1>5. CountType'
  BY <1>1 DEF Books, CountType, objectVars, socketVars
<1>6. Accounted' /\ JobServed'
  <2>1. Objects(txQueue)' = Objects(txQueue) /\ Holding' = Holding /\ Sending' = Sending
    BY <1>1 DEF Objects, Holding, Sending
  <2> QED
    BY <1>1, <1>2, <2>1 DEF Books, Accounted, JobServed, Serving, mainVars, objectVars
<1> QED
  BY <1>3, <1>4, <1>5, <1>6 DEF Books

-----------------------------------------------------------------------------

(* The steps of an rx thread that touch no queue: it makes a packet, deletes
   it, or waits for one. *)
LEMMA BooksRxAlone ==
  ASSUME Books, NEW t \in Threads, RxTest(t) \/ RxEnter(t) \/ RxWoken(t) \/ RxRecv(t)
  PROVE  Books'
<1>1. /\ UNCHANGED <<stopVars, mainVars, tx, queueVars, requests, responses, parts,
                     refused, unanswered, socketOpen, closeWakes, arrived>>
      /\ net' = net \/ (net > 0 /\ net' = net - 1)
  BY DEF RxTest, RxEnter, RxWoken, RxRecv, RxFails, socketVars, objectVars
<1>2. PICK to \in {"test", "entering", "inside", "received", "ended"} :
        /\ rx' = [rx EXCEPT ![t] = to]
        /\ packets' = packets + (IF to \in InHand THEN 1 ELSE 0)
                              - (IF rx[t] \in InHand THEN 1 ELSE 0)
  BY DEF Books, CountType, RxTest, RxEnter, RxWoken, RxRecv, RxFails, Listening,
         objectVars, InHand
<1>3. Cardinality(Holding') = Cardinality(Holding)
        + (IF to \in InHand THEN 1 ELSE 0) - (IF rx[t] \in InHand THEN 1 ELSE 0)
  BY <1>2, HoldingStep DEF Books
<1>4. rx[t] \in InHand => Cardinality(Holding) > 0
  <2>1. rx[t] \in InHand => t \in Holding
    BY DEF Holding, InHand
  <2> QED
    BY <2>1, HandsFinite, FS_EmptySet
<1>5. ControlType' /\ QueueType'
  BY <1>1, <1>2 DEF Books, ControlType, QueueType, stopVars, mainVars, queueVars
<1>6. /\ Objects(rxQueue)' = Objects(rxQueue) /\ Objects(txQueue)' = Objects(txQueue)
      /\ Sending' = Sending /\ Serving' = Serving /\ JobServed'
  BY <1>1 DEF Books, JobServed, Objects, Sending, Serving, mainVars, queueVars
<1>7. Accounted'
  BY <1>1, <1>2, <1>3, <1>6, HandsFinite DEF Books, Accounted, CountType
<1>8. CountType'
  <2>1. packets' \in Nat
    BY <1>2, <1>4, HandsFinite DEF Books, Accounted, CountType
  <2> QED
    BY <1>1, <2>1 DEF Books, CountType
<1> QED
  BY <1>5, <1>6, <1>7, <1>8 DEF Books

(* An rx thread gives up its packet, or turns it into a request in the map or
   in the queue. *)
LEMMA BooksRxHandle ==
  ASSUME Books, NEW t \in Threads, NEW datagram \in Kinds, RxHandle(t, datagram)
  PROVE  Books'
<1>1. /\ UNCHANGED <<stopVars, socketVars, mainVars, tx, txQueue, responses, unanswered>>
      /\ rx[t] = "received" /\ rx' = [rx EXCEPT ![t] = "test"]
  BY DEF RxHandle
<1>2. Cardinality(Holding') = Cardinality(Holding) - 1
  <2>1. Cardinality(Holding') = Cardinality(Holding)
          + (IF "test" \in InHand THEN 1 ELSE 0) - (IF rx[t] \in InHand THEN 1 ELSE 0)
    BY <1>1, HoldingStep DEF Books
  <2>2. "test" \notin InHand /\ rx[t] \in InHand
    BY <1>1 DEF InHand
  <2> QED
    BY <2>1, <2>2, HandsFinite
<1>3. Cardinality(Holding) > 0
  <2>1. t \in Holding
    BY <1>1 DEF Holding
  <2> QED
    BY <2>1, HandsFinite, FS_EmptySet
<1>4. /\ rxQueue' \in Seq(Entry)
      /\ \/ /\ Objects(rxQueue)' = Objects(rxQueue)
            /\ \/ packets' = packets - 1 /\ UNCHANGED <<requests, parts, refused>>
               \/ refused' = refused + 1 /\ UNCHANGED <<packets, requests, parts>>
               \/ /\ parts' = parts + 1 /\ requests' = requests + 1
                  /\ UNCHANGED <<packets, refused>>
         \/ /\ Objects(rxQueue)' = Objects(rxQueue) + 1
            /\ requests' = requests + 1 /\ UNCHANGED <<packets, parts, refused>>
  <2>1. rxQueue \in Seq(Entry) /\ datagram \in Entry /\ datagram # NULL
    BY LifecycleAssumption DEF Books, QueueType, Entry
  <2>2. /\ Append(rxQueue, datagram) \in Seq(Entry)
        /\ Objects(Append(rxQueue, datagram)) = Objects(rxQueue) + 1
    BY <2>1, ObjectsAppend
  <2>3. Objects(rxQueue)' = Objects(rxQueue')
    BY DEF Objects
  <2>4. CASE rxQueue' = rxQueue
    BY <2>1, <2>3, <2>4 DEF RxHandle
  <2>5. CASE /\ rxQueue' = Append(rxQueue, datagram)
             /\ requests' = requests + 1 /\ UNCHANGED <<packets, parts, refused>>
    <3>1. Objects(rxQueue)' = Objects(rxQueue) + 1 /\ rxQueue' \in Seq(Entry)
      BY <2>2, <2>3, <2>5
    <3> QED
      BY <2>5, <3>1
  <2> QED
    BY <2>4, <2>5 DEF RxHandle
<1>5. ControlType' /\ QueueType'
  BY <1>1, <1>4 DEF Books, ControlType, QueueType, Entry, stopVars, socketVars, mainVars
<1>6. /\ Objects(txQueue)' = Objects(txQueue) /\ Sending' = Sending
      /\ Serving' = Serving /\ JobServed'
  BY <1>1 DEF Books, JobServed, Objects, Sending, Serving, mainVars
<1>7. Objects(rxQueue) \in Nat /\ Objects(txQueue) \in Nat /\ Serving \in {0, 1}
  BY CountsNat DEF Books
<1>8. CountType'
  <2>1. packets - 1 \in Nat
    BY <1>3, HandsFinite DEF Books, Accounted, CountType
  <2> QED
    BY <1>1, <1>4, <2>1 DEF Books, CountType, socketVars
<1>9. Accounted'
  <2>1. /\ requests = parts + Objects(rxQueue) + Serving
        /\ responses = Objects(txQueue) + Cardinality(Sending) + unanswered
        /\ packets = Cardinality(Holding) + refused + requests + responses
        /\ packets \in Nat /\ requests \in Nat /\ parts \in Nat /\ refused \in Nat
        /\ responses \in Nat
    BY DEF Books, Accounted, CountType
  <2>2. responses' = Objects(txQueue)' + Cardinality(Sending)' + unanswered'
    BY <1>1, <1>6, <2>1
  <2>3. requests' = parts' + Objects(rxQueue)' + Serving'
    BY <1>4, <1>6, <1>7, <2>1
  <2>4. packets' = Cardinality(Holding') + refused' + requests' + responses'
    <3>1. responses' = responses /\ Cardinality(Holding) \in Nat
      BY <1>1, HandsFinite
    <3>2. \/ packets' = packets - 1 /\ UNCHANGED <<requests, refused>>
          \/ refused' = refused + 1 /\ UNCHANGED <<packets, requests>>
          \/ requests' = requests + 1 /\ UNCHANGED <<packets, refused>>
      BY <1>4
    <3> QED
      BY <1>2, <2>1, <3>1, <3>2
  <2> QED
    BY <2>2, <2>3, <2>4 DEF Accounted
<1> QED
  BY <1>5, <1>6, <1>8, <1>9 DEF Books

(* A tx thread takes a response, or a NULL, *)
LEMMA BooksTxTake ==
  ASSUME Books, NEW t \in Threads, TxTake(t)
  PROVE  Books'
<1>1. /\ UNCHANGED <<stopVars, socketVars, mainVars, rx, rxQueue, objectVars>>
      /\ tx[t] = "wait" /\ txQueue # << >> /\ txQueue' = Tail(txQueue)
  BY DEF TxTake
<1>2. PICK to \in {"wait", "send", "ended"} :
        tx' = [tx EXCEPT ![t] = to] /\ (to = "send" <=> Head(txQueue) # NULL)
  BY DEF TxTake, TxTest
<1>3. Cardinality(Sending') = Cardinality(Sending) + (IF to = "send" THEN 1 ELSE 0)
  <2>1. Cardinality(Sending') = Cardinality(Sending)
          + (IF to = "send" THEN 1 ELSE 0) - (IF tx[t] = "send" THEN 1 ELSE 0)
    BY <1>2, SendingStep DEF Books
  <2> QED
    BY <1>1, <2>1, HandsFinite
<1>4. txQueue \in Seq(Entry)
  BY DEF Books, QueueType, Entry
<1>5. /\ Tail(txQueue) \in Seq(Entry)
      /\ Objects(txQueue) = Objects(Tail(txQueue)) + (IF to = "send" THEN 1 ELSE 0)
      /\ Objects(Tail(txQueue)) \in Nat
  BY <1>1, <1>2, <1>4, ObjectsTail, ObjectsFinite
<1>6. Objects(txQueue)' = Objects(Tail(txQueue))
  BY <1>1 DEF Objects
<1>7. ControlType' /\ QueueType' /\ CountType'
  BY <1>1, <1>2, <1>5 DEF Books, ControlType, QueueType, CountType, Entry, stopVars,
                          socketVars, mainVars, objectVars
<1>8. /\ Objects(rxQueue)' = Objects(rxQueue) /\ Holding' = Holding
      /\ Serving' = Serving /\ JobServed'
  BY <1>1 DEF Books, JobServed, Objects, Holding, Serving, mainVars
<1>9. Accounted'
  BY <1>1, <1>3, <1>5, <1>6, <1>8, HandsFinite DEF Books, Accounted, CountType, objectVars
<1> QED
  BY <1>7, <1>8, <1>9 DEF Books

(* and deletes the response with its packet. *)
LEMMA BooksTxSend ==
  ASSUME Books, NEW t \in Threads, TxSend(t)
  PROVE  Books'
<1>1. /\ UNCHANGED <<stopVars, socketVars, mainVars, rx, queueVars, requests, parts,
                     refused, unanswered>>
      /\ tx[t] = "send" /\ packets' = packets - 1 /\ responses' = responses - 1
  BY DEF TxSend
<1>2. PICK to \in {"wait", "ended"} : tx' = [tx EXCEPT ![t] = to]
  BY DEF TxSend, TxTest
<1>3. Cardinality(Sending') = Cardinality(Sending) - 1
  <2>1. Cardinality(Sending') = Cardinality(Sending)
          + (IF to = "send" THEN 1 ELSE 0) - (IF tx[t] = "send" THEN 1 ELSE 0)
    BY <1>2, SendingStep DEF Books
  <2>2. to # "send"
    BY <1>2
  <2> QED
    BY <1>1, <2>1, <2>2, HandsFinite
<1>4. Cardinality(Sending) > 0
  <2>1. t \in Sending
    BY <1>1 DEF Sending
  <2> QED
    BY <2>1, HandsFinite, FS_EmptySet
<1>5. ControlType' /\ QueueType'
  BY <1>1, <1>2 DEF Books, ControlType, QueueType, stopVars, socketVars, mainVars, queueVars
<1>6. /\ Objects(rxQueue)' = Objects(rxQueue) /\ Objects(txQueue)' = Objects(txQueue)
      /\ Holding' = Holding /\ Serving' = Serving /\ JobServed'
  BY <1>1 DEF Books, JobServed, Objects, Holding, Serving, mainVars, queueVars
<1>7. Objects(rxQueue) \in Nat /\ Objects(txQueue) \in Nat /\ Serving \in {0, 1}
  BY CountsNat DEF Books
<1>8. CountType'
  <2>1. packets - 1 \in Nat /\ responses - 1 \in Nat
    BY <1>4, <1>7, HandsFinite DEF Books, Accounted, CountType
  <2> QED
    BY <1>1, <2>1 DEF Books, CountType, socketVars
<1>9. Accounted'
  BY <1>1, <1>3, <1>6, <1>7, HandsFinite DEF Books, Accounted, CountType
<1> QED
  BY <1>5, <1>6, <1>8, <1>9 DEF Books

-----------------------------------------------------------------------------

(* The index of a loop stays in its bounds. *)
LEMMA TurnsStay ==
  ASSUME turn \in Threads, turn' = IF turn < N THEN turn + 1 ELSE 1
  PROVE  turn' \in Threads
BY LifecycleAssumption DEF Threads

(* Where main is changes nothing, nor does the closing of the socket or the end
   of a thread. *)
LEMMA BooksMainAlone ==
  ASSUME Books, MainTest \/ MainClose \/ MainJoinRx \/ MainJoinTx \/ UNCHANGED vars
  PROVE  Books'
<1>1. /\ UNCHANGED <<job, stopVars, closeWakes, arrived, rx, tx, queueVars, objectVars>>
      /\ main # "serve" => job = NULL
      /\ main' = main \/ main # "serve"
  BY DEF Books, JobServed, MainTest, MainClose, MainJoinRx, MainJoinTx, vars, mainVars,
         socketVars
<1>2. ControlType'
  <2>1. socketOpen' \in BOOLEAN
    BY DEF Books, ControlType, MainTest, MainClose, MainJoinRx, MainJoinTx, vars, socketVars
  <2>2. main' \in {"test", "wait", "serve", "close", "post", "join rx", "join tx", "ended"}
    BY DEF Books, ControlType, MainTest, MainClose, MainJoinRx, MainJoinTx, vars, mainVars
  <2>3. turn \in Threads /\ (turn' = turn \/ turn' = IF turn < N THEN turn + 1 ELSE 1)
    BY DEF Books, ControlType, MainTest, MainClose, MainJoinRx, MainJoinTx, vars, mainVars
  <2>4. turn' \in Threads
    BY <2>3, TurnsStay
  <2> QED
    BY <1>1, <2>1, <2>2, <2>4 DEF Books, ControlType, stopVars
<1>3. QueueType' /\ CountType'
  <2>1. net' \in Nat
    <3>1. net' = net \/ net' = 0
      BY DEF MainTest, MainClose, MainJoinRx, MainJoinTx, vars, socketVars
    <3> QED
      BY <3>1 DEF Books, CountType
  <2> QED
    BY <1>1, <2>1 DEF Books, QueueType, CountType, queueVars, objectVars
<1>4. Accounted' /\ JobServed'
  BY <1>1 DEF Books, Accounted, JobServed, Objects, Holding, Sending, Serving,
              queueVars, objectVars
<1> QED
  BY <1>2, <1>3, <1>4 DEF Books

(* main takes a request, or a NULL, *)
LEMMA BooksMainTake ==
  ASSUME Books, MainTake
  PROVE  Books'
<1>1. /\ UNCHANGED <<turn, stopVars, socketVars, rx, tx, txQueue, objectVars>>
      /\ main = "wait" /\ rxQueue # << >> /\ rxQueue' = Tail(rxQueue)
      /\ job' = Head(rxQueue)
      /\ main' = IF Head(rxQueue) = NULL THEN "test" ELSE "serve"
  BY DEF MainTake
<1>2. rxQueue \in Seq(Entry)
  BY DEF Books, QueueType, Entry
<1>3. /\ Tail(rxQueue) \in Seq(Entry) /\ Head(rxQueue) \in Entry
      /\ Objects(rxQueue) = Objects(Tail(rxQueue)) + (IF Head(rxQueue) = NULL THEN 0 ELSE 1)
      /\ Objects(Tail(rxQueue)) \in Nat
  BY <1>1, <1>2, ObjectsTail, ObjectsFinite
<1>4. Serving = 0 /\ Serving' = IF Head(rxQueue) = NULL THEN 0 ELSE 1
  BY <1>1 DEF Books, JobServed, Serving
<1>5. Objects(rxQueue)' = Objects(Tail(rxQueue))
  BY <1>1 DEF Objects
<1>6. ControlType' /\ QueueType' /\ CountType'
  BY <1>1, <1>3 DEF Books, ControlType, QueueType, CountType, Entry, stopVars,
                    socketVars, objectVars
<1>7. /\ Objects(txQueue)' = Objects(txQueue) /\ Holding' = Holding /\ Sending' = Sending
      /\ JobServed'
  BY <1>1 DEF JobServed, Objects, Holding, Sending
<1>8. Accounted'
  BY <1>1, <1>3, <1>4, <1>5, <1>7 DEF Books, Accounted, CountType, objectVars
<1> QED
  BY <1>6, <1>7, <1>8 DEF Books

(* and deletes it: its packet goes with it, or becomes that of a response. *)
LEMMA BooksMainServe ==
  ASSUME Books, MainServe
  PROVE  Books'
<1>1. /\ UNCHANGED <<turn, stopVars, socketVars, rx, tx, rxQueue, parts, refused>>
      /\ main = "serve" /\ main' = "test" /\ job' = NULL /\ requests' = requests - 1
      /\ job \in AllKinds
  BY DEF MainServe, AllKinds
<1>2. Serving = 1 /\ Serving' = 0
  BY <1>1, LifecycleAssumption DEF Serving
<1>3. Objects(rxQueue) \in Nat /\ Objects(txQueue) \in Nat
  BY CountsNat DEF Books
<1>4. /\ txQueue' \in Seq(Entry)
      /\ \/ /\ Objects(txQueue)' = Objects(txQueue)
            /\ \/ packets' = packets - 1 /\ UNCHANGED <<responses, unanswered>>
               \/ /\ unanswered' = unanswered + 1 /\ responses' = responses + 1
                  /\ UNCHANGED packets
         \/ /\ Objects(txQueue)' = Objects(txQueue) + 1
            /\ responses' = responses + 1 /\ UNCHANGED <<packets, unanswered>>
  <2>1. txQueue \in Seq(Entry) /\ job \in Entry /\ job # NULL
    BY <1>1, LifecycleAssumption DEF Books, QueueType, Entry
  <2>2. /\ Append(txQueue, job) \in Seq(Entry)
        /\ Objects(Append(txQueue, job)) = Objects(txQueue) + 1
    BY <2>1, ObjectsAppend
  <2>3. Objects(txQueue)' = Objects(txQueue')
    BY DEF Objects
  <2>4. CASE txQueue' = txQueue
    BY <2>1, <2>3, <2>4 DEF MainServe
  <2>5. CASE /\ txQueue' = Append(txQueue, job)
             /\ responses' = responses + 1 /\ UNCHANGED <<packets, unanswered>>
    <3>1. Objects(txQueue)' = Objects(txQueue) + 1 /\ txQueue' \in Seq(Entry)
      BY <2>2, <2>3, <2>5
    <3> QED
      BY <2>5, <3>1
  <2> QED
    BY <2>4, <2>5 DEF MainServe
<1>5. ControlType' /\ QueueType'
  BY <1>1, <1>4 DEF Books, ControlType, QueueType, Entry, stopVars, socketVars
<1>6. /\ Objects(rxQueue)' = Objects(rxQueue) /\ Holding' = Holding /\ Sending' = Sending
      /\ JobServed'
  BY <1>1 DEF JobServed, Objects, Holding, Sending
<1>7. /\ requests = parts + Objects(rxQueue) + Serving
      /\ responses = Objects(txQueue) + Cardinality(Sending) + unanswered
      /\ packets = Cardinality(Holding) + refused + requests + responses
      /\ packets \in Nat /\ requests \in Nat /\ parts \in Nat /\ refused \in Nat
      /\ responses \in Nat /\ unanswered \in Nat
      /\ Cardinality(Holding) \in Nat /\ Cardinality(Sending) \in Nat
  BY HandsFinite DEF Books, Accounted, CountType
<1>8. CountType'
  <2>1. requests - 1 \in Nat /\ packets - 1 \in Nat
    BY <1>2, <1>3, <1>7
  <2> QED
    BY <1>1, <1>4, <2>1 DEF Books, CountType, socketVars
<1>9. Accounted'
  <2>1. requests' = parts' + Objects(rxQueue)' + Serving'
    BY <1>1, <1>2, <1>3, <1>6, <1>7
  <2>2. responses' = Objects(txQueue)' + Cardinality(Sending)' + unanswered'
    <3>1. Cardinality(Sending)' = Cardinality(Sending)
      BY <1>6
    <3>2. \/ /\ Objects(txQueue)' = Objects(txQueue) /\ responses' = responses
             /\ unanswered' = unanswered
          \/ /\ Objects(txQueue)' = Objects(txQueue) /\ responses' = responses + 1
             /\ unanswered' = unanswered + 1
          \/ /\ Objects(txQueue)' = Objects(txQueue) + 1 /\ responses' = responses + 1
             /\ unanswered' = unanswered
      BY <1>4
    <3> QED
      BY <1>3, <1>7, <3>1, <3>2
  <2>3. packets' = Cardinality(Holding)' + refused' + requests' + responses'
    <3>1. /\ Cardinality(Holding)' = Cardinality(Holding)
          /\ refused' = refused /\ requests' = requests - 1
      BY <1>1, <1>6
    <3>2. packets' + 1 = packets + responses' - responses
      <4>1. \/ packets' = packets - 1 /\ responses' = responses
            \/ packets' = packets /\ responses' = responses + 1
        BY <1>4
      <4> QED
        BY <1>7, <4>1
    <3>3. packets' \in Nat /\ responses' \in Nat
      BY <1>8 DEF CountType
    <3> QED
      BY <1>7, <3>1, <3>2, <3>3
  <2> QED
    BY <2>1, <2>2, <2>3 DEF Accounted
<1> QED
  BY <1>5, <1>6, <1>8, <1>9 DEF Books

(* The NULLs that end the threads do not count. *)
LEMMA BooksMainPost ==
  ASSUME Books, MainPost
  PROVE  Books'
<1>1. /\ UNCHANGED <<job, stopVars, socketVars, rx, tx, objectVars>>
      /\ main = "post" /\ main' \in {"post", "join rx"}
      /\ rxQueue' = Append(rxQueue, NULL) /\ txQueue' = Append(txQueue, NULL)
  BY DEF MainPost, EndLoop
<1>2. turn' \in Threads
  <2>1. turn \in Threads /\ turn' = IF turn < N THEN turn + 1 ELSE 1
    BY DEF Books, ControlType, MainPost, EndLoop
  <2> QED
    BY <2>1, TurnsStay
<1>3. /\ rxQueue' \in Seq(Entry) /\ txQueue' \in Seq(Entry)
      /\ Objects(rxQueue') = Objects(rxQueue) /\ Objects(txQueue') = Objects(txQueue)
  <2>1. rxQueue \in Seq(Entry) /\ txQueue \in Seq(Entry) /\ NULL \in Entry
    BY DEF Books, QueueType, Entry
  <2>2. /\ Append(rxQueue, NULL) \in Seq(Entry)
        /\ Objects(Append(rxQueue, NULL)) = Objects(rxQueue) + 0
        /\ Append(txQueue, NULL) \in Seq(Entry)
        /\ Objects(Append(txQueue, NULL)) = Objects(txQueue) + 0
    BY <2>1, ObjectsAppend, Zenon
  <2>3. Objects(rxQueue) \in Nat /\ Objects(txQueue) \in Nat
    BY CountsNat DEF Books
  <2>4. Objects(rxQueue') = Objects(rxQueue) + 0 /\ Objects(txQueue') = Objects(txQueue) + 0
    BY <1>1, <2>2, Zenon
  <2>5. Objects(rxQueue') = Objects(rxQueue) /\ Objects(txQueue') = Objects(txQueue)
    BY <2>3, <2>4
  <2> QED
    BY <1>1, <2>2, <2>5, Zenon
<1>4. Objects(rxQueue)' = Objects(rxQueue') /\ Objects(txQueue)' = Objects(txQueue')
  BY DEF Objects
<1>5. ControlType' /\ QueueType' /\ CountType'
  BY <1>1, <1>2, <1>3 DEF Books, ControlType, QueueType, CountType, Entry, stopVars,
                          socketVars, objectVars
<1>6. Holding' = Holding /\ Sending' = Sending /\ Serving' = Serving /\ JobServed'
  BY <1>1 DEF Books, JobServed, Holding, Sending, Serving
<1>7. Accounted'
  BY <1>1, <1>3, <1>4, <1>6 DEF Books, Accounted, objectVars
<1> QED
  BY <1>5, <1>6, <1>7 DEF Books

-----------------------------------------------------------------------------

LEMMA BooksStep ==
  ASSUME Books, [Next]_vars
  PROVE  Books'
<1>1. CASE Arrive
  BY <1>1, BooksArrive
<1>2. CASE Shutdown
  BY <1>2, BooksShutdown
<1>3. CASE MainTest \/ MainClose \/ MainJoinRx \/ MainJoinTx \/ UNCHANGED vars
  BY <1>3, BooksMainAlone
<1>4. CASE MainTake \/ MainServe \/ MainPost
  BY <1>4, BooksMainTake, BooksMainServe, BooksMainPost
<1>5. CASE \E t \in Threads : RxTest(t) \/ RxEnter(t) \/ RxWoken(t) \/ RxRecv(t)
  BY <1>5, BooksRxAlone
<1>6. CASE \E t \in Threads : \E kind \in Kinds : RxHandle(t, kind)
  BY <1>6, BooksRxHandle
<1>7. CASE \E t \in Threads : TxTake(t) \/ TxSend(t)
  BY <1>7, BooksTxTake, BooksTxSend
<1> QED
  BY <1>1, <1>2, <1>3, <1>4, <1>5, <1>6, <1>7 DEF Next, MainStep, RxStep, TxStep

LEMMA BooksAlways == Spec => []Books
<1>1. Init => Books
  BY BooksInit
<1>2. Books /\ [Next]_vars => Books'
  BY BooksStep
<1> QED
  BY <1>1, <1>2, PTL DEF Spec

(* No counter goes below nought and nobody is where the code has no place: for
   any number of threads, of datagrams, and a stop at any moment. *)
THEOREM LifecycleTypeCorrect == Spec => []TypeOK
<1>1. Books => TypeOK
  BY DEF Books, TypeOK
<1> QED
  BY <1>1, BooksAlways, PTL

(* What exists at any moment is in somebody's hand, in a queue, in m_rmap or one
   of the two leaks (Server.cpp, main, rxThread and txThread). *)
THEOREM NothingElseLeaks == Spec => []Accounted
<1>1. Books => Accounted
  BY DEF Books
<1> QED
  BY <1>1, BooksAlways, PTL

-----------------------------------------------------------------------------

AllJoined == main = "ended" => \A t \in Threads : rx[t] = "ended" /\ tx[t] = "ended"

\* Those main has waited for have ended.
Joined ==
  /\ main \in {"test", "wait", "serve", "close"} => turn = 1
  /\ main \in {"join rx", "join tx"} =>
       \A t \in 1..(turn - 1) : rx[t] = "ended" /\ tx[t] = "ended"
  /\ main = "join tx" => rx[turn] = "ended"
  /\ AllJoined

(* An ended thread takes no step. *)
LEMMA EndedStays ==
  ASSUME ControlType, NEW t \in Threads, RxStep(t) \/ TxStep(t)
  PROVE  /\ \A s \in Threads : rx[s] = "ended" => rx'[s] = "ended"
         /\ \A s \in Threads : tx[s] = "ended" => tx'[s] = "ended"
         /\ UNCHANGED <<main, turn>>
<1>1. CASE RxStep(t)
  <2>1. /\ rx[t] # "ended" /\ \E to : rx' = [rx EXCEPT ![t] = to]
        /\ UNCHANGED <<tx, mainVars>>
    BY <1>1 DEF RxStep, RxTest, RxEnter, RxWoken, RxRecv, RxHandle, RxFails, Listening
  <2> QED
    BY <2>1 DEF ControlType, mainVars
<1>2. CASE TxStep(t)
  <2>1. /\ tx[t] # "ended" /\ \E to : tx' = [tx EXCEPT ![t] = to]
        /\ UNCHANGED <<rx, mainVars>>
    BY <1>2 DEF TxStep, TxTake, TxSend, TxTest
  <2> QED
    BY <2>1 DEF ControlType, mainVars
<1> QED
  BY <1>1, <1>2

LEMMA JoinedStep ==
  ASSUME ControlType, Joined, [Next]_vars
  PROVE  Joined'
<1>1. CASE UNCHANGED <<main, turn, rx, tx>>
  BY <1>1 DEF Joined, AllJoined
<1>2. ASSUME NEW t \in Threads, RxStep(t) \/ TxStep(t)
      PROVE  Joined'
  <2>1. UNCHANGED <<main, turn>>
    BY <1>2, EndedStays
  <2>2. /\ \A s \in Threads : rx[s] = "ended" => rx'[s] = "ended"
        /\ \A s \in Threads : tx[s] = "ended" => tx'[s] = "ended"
    BY <1>2, EndedStays
  <2>3. turn \in Threads /\ \A s \in 1..(turn - 1) : s \in Threads
    <3>1. turn \in 1..N
      BY DEF ControlType, Threads
    <3> QED
      BY <3>1, LifecycleAssumption DEF Threads
  <2> QED
    BY <2>1, <2>2, <2>3 DEF Joined, AllJoined
<1>3. CASE MainTest \/ MainTake \/ MainServe \/ MainClose
  <2>1. main' \in {"test", "wait", "serve", "close", "post"} /\ turn' = turn
    BY <1>3 DEF MainTest, MainTake, MainServe, MainClose
  <2>2. main' \in {"test", "wait", "serve", "close"} => turn' = 1
    BY <1>3 DEF Joined, MainTest, MainTake, MainServe, MainClose
  <2> QED
    BY <2>1, <2>2 DEF Joined, AllJoined
<1>4. CASE MainPost
  <2>1. /\ turn \in 1..N /\ main = "post"
        /\ turn' = IF turn < N THEN turn + 1 ELSE 1
        /\ main' = IF turn < N THEN "post" ELSE "join rx"
    BY <1>4 DEF ControlType, MainPost, EndLoop, Threads
  <2>2. main' \notin {"test", "wait", "serve", "close", "join tx", "ended"}
    BY <2>1
  <2>3. main' = "join rx" => turn' = 1
    BY <2>1
  <2>4. \A s \in 1..(1 - 1) : FALSE
    OBVIOUS
  <2> QED
    BY <2>2, <2>3, <2>4 DEF Joined, AllJoined
<1>5. CASE MainJoinRx
  BY <1>5 DEF Joined, MainJoinRx, AllJoined
<1>6. CASE MainJoinTx
  <2>1. /\ turn \in 1..N /\ rx[turn] = "ended" /\ tx[turn] = "ended"
        /\ \A t \in 1..(turn - 1) : rx[t] = "ended" /\ tx[t] = "ended"
        /\ UNCHANGED <<rx, tx>>
        /\ turn' = IF turn < N THEN turn + 1 ELSE 1
        /\ main' = IF turn < N THEN "join rx" ELSE "ended"
    BY <1>6 DEF ControlType, Joined, MainJoinTx, Threads
  <2>a. turn \in 1..N
    BY <2>1
  <2>b. turn \in Nat /\ N \in Nat /\ (turn < N \/ turn = N)
    BY <2>a, LifecycleAssumption
  <2>2. \A t \in 1..turn : rx'[t] = "ended" /\ tx'[t] = "ended"
    <3>1. \A t \in 1..turn : t \in 1..(turn - 1) \/ t = turn
      BY <2>b
    <3> QED
      BY <2>1, <3>1, Zenon
  <2>3. main' = "join rx" => turn' = turn + 1
    BY <2>1, <2>b
  <2>c. 1..((turn + 1) - 1) = 1..turn
    BY <2>b
  <2>4. main' = "ended" => turn = N
    BY <2>1, <2>b
  <2>5. main' \in {"join rx", "ended"}
    BY <2>1
  <2> QED
    BY <2>2, <2>3, <2>4, <2>5, <2>c DEF Joined, AllJoined, Threads
<1> QED
  BY <1>1, <1>2, <1>3, <1>4, <1>5, <1>6
  DEF Next, MainStep, Arrive, Shutdown, vars, mainVars

\* The flag stays cleared, and the socket closed.
Closed ==
  /\ running <=> stopper = "idle"
  /\ main \in {"close", "post", "join rx", "join tx", "ended"} => ~running
  /\ main \in {"post", "join rx", "join tx", "ended"} => ~socketOpen

LEMMA ClosedStep ==
  ASSUME ControlType, Closed, [Next]_vars
  PROVE  Closed'
<1>1. CASE UNCHANGED <<main, running, stopper, socketOpen>>
  BY <1>1 DEF Closed
<1>2. CASE Shutdown
  <2>1. UNCHANGED <<main, socketOpen>>
    BY <1>2 DEF Shutdown, socketVars, mainVars
  <2>2. ~running' /\ stopper' # "idle"
    <3>1. CASE stopper = "idle"
      BY <1>2, <3>1 DEF Shutdown
    <3>2. CASE stopper = "cleared"
      <4>1. running' = running /\ stopper' = "done"
        BY <1>2, <3>2 DEF Shutdown
      <4>2. ~running
        BY <3>2 DEF Closed
      <4> QED
        BY <4>1, <4>2
    <3> QED
      BY <1>2, <3>1, <3>2 DEF Shutdown
  <2> QED
    BY <2>1, <2>2, Zenon DEF Closed
<1>3. CASE MainStep
  <2>1. UNCHANGED <<running, stopper>>
    BY <1>3 DEF MainStep, MainTest, MainTake, MainServe, MainClose, MainPost, MainJoinRx,
                MainJoinTx, stopVars
  <2>2. CASE MainTest \/ MainTake \/ MainServe
    BY <2>1, <2>2 DEF Closed, MainTest, MainTake, MainServe, socketVars
  <2>3. CASE MainClose
    BY <2>1, <2>3 DEF Closed, MainClose
  <2>4. CASE MainPost \/ MainJoinRx \/ MainJoinTx
    <3>1. main \in {"post", "join rx", "join tx", "ended"} /\ socketOpen' = socketOpen
      BY <2>4 DEF MainPost, MainJoinRx, MainJoinTx, socketVars
    <3>2. ~running /\ ~socketOpen
      BY <3>1 DEF Closed
    <3>3. ~running' /\ ~socketOpen'
      BY <2>1, <3>1, <3>2
    <3>4. (running <=> stopper = "idle")'
      BY <2>1 DEF Closed
    <3> QED
      BY <3>3, <3>4 DEF Closed
  <2> QED
    BY <1>3, <2>2, <2>3, <2>4 DEF MainStep
<1>4. ASSUME NEW t \in Threads, RxStep(t) \/ TxStep(t)
      PROVE  UNCHANGED <<main, running, stopper, socketOpen>>
  <2>1. CASE RxStep(t)
    BY <2>1 DEF RxStep, RxTest, RxEnter, RxWoken, RxRecv, RxHandle, stopVars, socketVars,
                mainVars
  <2>2. CASE TxStep(t)
    BY <2>2 DEF TxStep, TxTake, TxSend, stopVars, socketVars, mainVars
  <2> QED
    BY <1>4, <2>1, <2>2
<1>5. Arrive \/ UNCHANGED vars => UNCHANGED <<main, running, stopper, socketOpen>>
  BY DEF Arrive, vars, stopVars, socketVars, mainVars
<1> QED
  BY <1>1, <1>2, <1>3, <1>4, <1>5 DEF Next

(* Once main has returned, the thread in shutdown is the only one left, and only
   where it has cleared the flag and not yet posted its NULL. *)
LEMMA EndedStep ==
  ASSUME ControlType, Joined, Closed, Next, main = "ended"
  PROVE  stopper = "cleared" /\ Shutdown
<1>1. /\ \A t \in Threads : rx[t] = "ended" /\ tx[t] = "ended"
      /\ ~running /\ ~socketOpen /\ stopper # "idle"
  BY DEF Joined, AllJoined, Closed
<1>2. ~Arrive
  BY <1>1 DEF Arrive, Listening
<1>3. ~MainStep
  BY DEF MainStep, MainTest, MainTake, MainServe, MainClose, MainPost, MainJoinRx, MainJoinTx
<1>4. ASSUME NEW t \in Threads
      PROVE  ~RxStep(t) /\ ~TxStep(t)
  <2>1. rx[t] = "ended" /\ tx[t] = "ended"
    BY <1>1
  <2> QED
    BY <2>1 DEF RxStep, RxTest, RxEnter, RxWoken, RxRecv, RxHandle, Listening,
                TxStep, TxTake, TxSend
<1>5. Shutdown
  BY <1>2, <1>3, <1>4 DEF Next
<1> QED
  BY <1>1, <1>5 DEF Shutdown

(* When main has returned, nothing happens in the server any more but the post of
   a shutdown that main has overtaken, for any number of threads (Server.cpp, main
   and shutdown). *)
THEOREM ReturnIsLast == Spec => NothingRunsAfterReturn
<1>1. Init => Joined /\ Closed
  BY DEF Init, Joined, AllJoined, Closed
<1>2. ControlType /\ Joined /\ Closed /\ [Next]_vars => Joined' /\ Closed'
  BY JoinedStep, ClosedStep
<1>3. ControlType /\ Joined /\ Closed /\ [Next]_vars
        => [main = "ended" => stopper = "cleared" /\ Shutdown]_vars
  BY EndedStep
<1>4. Books => ControlType
  BY DEF Books
<1> QED
  BY <1>1, <1>2, <1>3, <1>4, BooksAlways, PTL DEF Spec, NothingRunsAfterReturn
=============================================================================
