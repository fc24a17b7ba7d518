------------------------------- MODULE Receive -------------------------------
(***************************************************************************)
(* How requests get from the network to the server's main thread           *)
(* (Server.cpp, rxThread and the loop of main): threads that receive       *)
(* datagrams from one socket, the map m_rmap of the requests that are not  *)
(* complete, protected by a spinlock, and the queue m_rxQueue.             *)
(*                                                                         *)
(* A thread looks a request up under the lock and puts its packet into the *)
(* request after it has released the lock.  put is one step here.          *)
(*                                                                         *)
(* The network may lose, duplicate and reorder datagrams; the spinlock and *)
(* the queue are taken as what they promise (JThreadQueue.tla).            *)
(***************************************************************************)
EXTENDS Packets, ByteStream, FiniteSets

CONSTANTS
  Threads,       \* the rx threads
  Messages,      \* the requests clients send
  Rid,           \* message |-> node and request id, the key of m_rmap
  Seq0,          \* message |-> its first sequence number
  Asked,         \* message |-> the request its client makes, see ByteStream
  Reorder,       \* the network may deliver any datagram next
  Lossy,         \* the network may lose datagrams
  MaxCopies      \* bound: how often the network duplicates a datagram

\* What PacketWriter makes of every request.
Cut == [m \in Messages |-> Datagrams(m, Rid[m], Seq0[m], RequestWrites(Asked[m]))]

\* A request is one packet at least, and not endless, and packets hold bytes.
ASSUME ReceiveAssumption ==
  /\ MaxCopies \in Nat
  /\ Seq0 \in [Messages -> 0..(SeqRange - 1)]
  /\ \A m \in Messages : /\ Payloads(RequestWrites(Asked[m])) \in Seq(Seq(Int))
                          /\ Payloads(RequestWrites(Asked[m])) # <<>>

VARIABLES
  unsent,     \* messages not sent yet
  net,        \* the datagrams on their way, in the order they were sent
  copies,     \* how many duplicates there have been
  rmap,       \* m_rmap: key |-> Request, for the keys it has
  request,    \* every Request ever made, by number
  freed,      \* the Requests that have been deleted
  pc, packet, iter, req,   \* of every rx thread: where it is, its packet, the
                           \* entry of m_rmap it found or made, its Request
  rxQueue,    \* the Requests posted to the main thread
  served,     \* the Requests the main thread has decoded
  lost,       \* the request ids of which a datagram has been lost, duplicated or
              \* overtaken by another
  raced,      \* the request ids of which two threads have had packets at once
  corrupt     \* a deleted Request or an erased entry has been used

threadVars == <<pc, packet, iter, req>>
netVars    == <<unsent, net, copies, lost>>
vars == <<netVars, rmap, request, freed, threadVars, rxQueue, served, raced, corrupt>>

Keys == {Rid[m] : m \in Messages}

None == 0    \* no Request; they are numbered from 1

Init ==
  /\ unsent = Messages
  /\ net = <<>>
  /\ copies = 0
  /\ rmap = [key \in Keys |-> None]
  /\ request = <<>>
  /\ freed = {}
  /\ pc = [t \in Threads |-> "recv"]
  /\ packet = [t \in Threads |-> <<>>]
  /\ iter = [t \in Threads |-> None]
  /\ req = [t \in Threads |-> None]
  /\ rxQueue = <<>>
  /\ served = <<>>
  /\ lost = {}
  /\ raced = {}
  /\ corrupt = FALSE

-----------------------------------------------------------------------------
(* Clients and the network                                                 *)

\* PacketWriter::send
Send(m) ==
  /\ m \in unsent
  /\ unsent' = unsent \ {m}
  /\ net' = net \o Cut[m]
  /\ UNCHANGED <<copies, lost, rmap, request, freed, threadVars, rxQueue, served,
                 raced, corrupt>>

Lose(i) ==
  /\ Lossy
  /\ net' = RemoveAt(net, i)
  /\ lost' = lost \cup {net[i].rid}
  /\ UNCHANGED <<unsent, copies, rmap, request, freed, threadVars, rxQueue, served,
                 raced, corrupt>>

Duplicate(i) ==
  /\ copies < MaxCopies
  /\ copies' = copies + 1
  /\ net' = Append(net, net[i])
  /\ lost' = lost \cup {net[i].rid}
  /\ UNCHANGED <<unsent, rmap, request, freed, threadVars, rxQueue, served,
                 raced, corrupt>>

-----------------------------------------------------------------------------
(* The rx threads; a thread that has run into memory that is not there any *)
(* more has made the whole program unpredictable, and nothing follows.     *)

Key(t) == packet[t].rid

\* The thread has a packet of the request and no lock that keeps others from
\* having one, too.
Handles(t, key) ==
  pc[t] \in {"find", "deref", "put", "complete", "failed"} /\ Key(t) = key

\* recvfrom returns datagram i.
Recv(t, i) ==
  /\ ~corrupt
  /\ pc[t] = "recv"
  /\ i = 1 \/ Reorder
  /\ packet' = [packet EXCEPT ![t] = Received(net[i])]
  /\ net' = RemoveAt(net, i)
  /\ lost' = lost \cup {net[j].rid : j \in {k \in 1..(i - 1) : net[k].rid = net[i].rid}}
  /\ raced' = raced \cup {Key(u) : u \in {v \in Threads : Handles(v, net[i].rid)}}
  /\ pc' = [pc EXCEPT ![t] = "find"]
  /\ UNCHANGED <<unsent, copies, rmap, request, freed, iter, req, rxQueue, served,
                 corrupt>>

\* Under the lock: m_rmap.find, and a new Request if there is none.
Find(t) ==
  /\ ~corrupt
  /\ pc[t] = "find"
  /\ \/ /\ rmap[Key(t)] = None
        /\ request' = Append(request, NewReader)
        /\ rmap' = [rmap EXCEPT ![Key(t)] = Len(request')]
        /\ iter' = [iter EXCEPT ![t] = Len(request')]
        /\ req' = [req EXCEPT ![t] = Len(request')]
        /\ pc' = [pc EXCEPT ![t] = "put"]
     \/ /\ rmap[Key(t)] # None
        /\ iter' = [iter EXCEPT ![t] = rmap[Key(t)]]
        /\ pc' = [pc EXCEPT ![t] = "deref"]
        /\ UNCHANGED <<rmap, request, req>>
  /\ UNCHANGED <<netVars, freed, packet, rxQueue, served, raced, corrupt>>

\* The entry the thread's iterator points to has not been erased since.
IterValid(t) == rmap[Key(t)] = iter[t]

\* Without the lock: iter->second
Deref(t) ==
  /\ ~corrupt
  /\ pc[t] = "deref"
  /\ corrupt' = ~IterValid(t)
  /\ req' = [req EXCEPT ![t] = iter[t]]
  /\ pc' = [pc EXCEPT ![t] = "put"]
  /\ UNCHANGED <<netVars, rmap, request, freed, packet, iter, rxQueue, served, raced>>

\* The loop of rxThread starts over with new local variables.
Loop(t) ==
  /\ pc' = [pc EXCEPT ![t] = "recv"]
  /\ packet' = [packet EXCEPT ![t] = <<>>]
  /\ iter' = [iter EXCEPT ![t] = None]
  /\ req' = [req EXCEPT ![t] = None]

PutPacket(t) ==
  LET p == Put(request[req[t]], packet[t])
  IN  /\ ~corrupt
      /\ pc[t] = "put"
      /\ corrupt' = (req[t] \in freed)
      /\ request' = [request EXCEPT ![req[t]] = p.reader]
      /\ \/ p.result = "NEXTPACKET" /\ Loop(t)
         \/ /\ p.result # "NEXTPACKET"
            /\ pc' = [pc EXCEPT ![t] = IF p.result = "COMPLETE" THEN "complete"
                                                                ELSE "failed"]
            /\ UNCHANGED <<packet, iter, req>>
      /\ UNCHANGED <<netVars, rmap, freed, rxQueue, served, raced>>

\* Mutant: the entry of a complete request stays.
EraseNot(t) == corrupt' = ~IterValid(t) /\ UNCHANGED rmap

\* Under the lock: m_rmap.erase(iter)
Erase(t) ==
  /\ corrupt' = ~IterValid(t)
  /\ rmap' = [rmap EXCEPT ![Key(t)] = None]

EraseComplete(t) ==
  /\ ~corrupt
  /\ pc[t] = "complete"
  /\ Erase(t)
  /\ pc' = [pc EXCEPT ![t] = "post"]
  /\ UNCHANGED <<netVars, request, freed, packet, iter, req, rxQueue, served, raced>>

\* Mutant: the loop starts over before the request is posted.
PostNothing(t) ==
  /\ ~corrupt
  /\ pc[t] = "post"
  /\ Loop(t)
  /\ rxQueue' = Append(rxQueue, req'[t])
  /\ UNCHANGED <<netVars, rmap, request, freed, served, raced, corrupt>>

\* m_rxQueue.PostItem
PostRequest(t) ==
  /\ ~corrupt
  /\ pc[t] = "post"
  /\ rxQueue' = Append(rxQueue, req[t])
  /\ Loop(t)
  /\ UNCHANGED <<netVars, rmap, request, freed, served, raced, corrupt>>

EraseFailed(t) ==
  /\ ~corrupt
  /\ pc[t] = "failed"
  /\ Erase(t)
  /\ pc' = [pc EXCEPT ![t] = "delete"]
  /\ UNCHANGED <<netVars, request, freed, packet, iter, req, rxQueue, served, raced>>

DeleteRequest(t) ==
  /\ ~corrupt
  /\ pc[t] = "delete"
  /\ corrupt' = (req[t] \in freed)
  /\ freed' = freed \cup {req[t]}
  /\ Loop(t)
  /\ UNCHANGED <<netVars, rmap, request, rxQueue, served, raced>>

\* The loop of main: WaitForItem, decodeRequest, delete.
Serve ==
  /\ ~corrupt
  /\ rxQueue # <<>>
  /\ LET r == Head(rxQueue)
     IN  /\ corrupt' = (r \in freed)
         /\ served' = Append(served, request[r])
         /\ freed' = freed \cup {r}
  /\ rxQueue' = Tail(rxQueue)
  /\ UNCHANGED <<netVars, rmap, request, threadVars, raced>>

Step(t) ==
  \/ \E i \in DOMAIN net : Recv(t, i)
  \/ Find(t)
  \/ Deref(t)
  \/ PutPacket(t)
  \/ EraseComplete(t)
  \/ PostRequest(t)
  \/ EraseFailed(t)
  \/ DeleteRequest(t)

Next ==
  \/ \E m \in Messages : Send(m)
  \/ \E i \in DOMAIN net : Lose(i) \/ Duplicate(i)
  \/ \E t \in Threads : Step(t)
  \/ Serve

Spec == Init /\ [][Next]_vars

\* Every rx thread that can run does, and so does the main thread.
FairSpec ==
  /\ Spec
  /\ \A t \in Threads : WF_vars(Step(t))
  /\ WF_vars(Serve)

-----------------------------------------------------------------------------

Requests == 1..Len(request)

\* Type invariant of the receiving side.
TypeOK ==
  /\ unsent \subseteq Messages
  /\ copies \in 0..MaxCopies
  /\ rmap \in [Keys -> Requests \cup {None}]
  /\ freed \subseteq Requests
  /\ pc \in [Threads -> {"recv", "find", "deref", "put", "complete", "post",
                         "failed", "delete"}]
  /\ iter \in [Threads -> Requests \cup {None}]
  /\ req \in [Threads -> Requests \cup {None}]
  /\ rxQueue \in Seq(Requests)

\* The packets are those of one message, all of them, in the order of the
\* message.
Whole(packets) ==
  /\ packets # <<>>
  /\ Len(packets) = packets[1].of
  /\ \A i \in DOMAIN packets :
       packets[i].message = packets[1].message /\ packets[i].index = i

\* Whatever the network loses, duplicates and reorders, the main thread never
\* gets a part of a request or parts of two: it gets whole requests, and they fit
\* in its buffer; otherwise copyToBuffer would give up half way, and the packets
\* it has copied would be deleted twice (PacketReader.cpp, put and copyToBuffer;
\* Server.cpp, rxThread and decodeRequest).
ServesWholeRequests ==
  \A i \in DOMAIN served :
    Whole(served[i].packets) /\ Len(Contents(served[i])) <= MaxRequestSize

\* Where a Request is kept.
Places(r) ==
  {<<"map", key>> : key \in {k \in Keys : rmap[k] = r}}
    \cup {<<"queue", i>> : i \in {j \in DOMAIN rxQueue : rxQueue[j] = r}}
    \cup {<<"thread", t>> : t \in {u \in Threads : pc[u] \in {"post", "delete"} /\ req[u] = r}}

\* A Request is in the map, or in the queue, or in the hands of the one thread
\* that has taken it out of the map; it is in one of these places, once, until
\* it is deleted, so none is lost and none is deleted under somebody's hands,
\* as long as no two rx threads have packets of one request at the same time
\* (Server.cpp, rxThread and main).
OnePlace ==
  raced # {} \/ \A r \in Requests : Cardinality(Places(r)) = IF r \in freed THEN 0 ELSE 1

\* No thread uses a Request that has been deleted, or an entry of the map that
\* has been erased, unless two rx threads have had packets of one request at the
\* same time: nothing keeps a Request alive between the lock and put (Server.cpp,
\* rxThread and main).
MemorySafe == corrupt => raced # {}

\* What recvfrom has returned of m up to packet i.
SizeUpTo(m) ==
  LET size[i \in 0..Len(Cut[m])] ==
        IF i = 0 THEN 0 ELSE size[i - 1] + Len(Received(Cut[m][i]).payload)
  IN  size

TooLong(m) == \E i \in DOMAIN Cut[m] : SizeUpTo(m)[i] > MaxRequestSize

\* The packets with the request id have come as they were sent, each once, and no
\* two threads have had them at once.
Calm(key) == key \notin lost \cup raced

\* A request is given up only if packets with its request id were lost, duplicated
\* or overtaken, or two rx threads have had them at once, or it is longer than the
\* buffer of the main thread; what happens to other requests does not matter.  The
\* packets need not be its own: where a client uses the id again, those of an
\* earlier request that was left unfinished count as well, for put starts over and
\* keeps the size it has counted (PacketReader.cpp:32; Server.cpp, rxThread).
FailureHasCause ==
  \A t \in Threads : pc[t] = "failed" => ~Calm(Key(t)) \/ TooLong(packet[t].message)

ServedMessage(i)  == served[i].packets[1].message
ServedMessages    == {ServedMessage(i) : i \in DOMAIN served}

\* A request that has been sent reaches the main thread, exactly once, if the
\* network delivers the packets with its request id each once and in order and no
\* two threads have them at once, whatever happens to other requests; unless the
\* race of another one makes a thread use memory that is not there any more, which
\* is the end of the program (Server.cpp, rxThread and main).
ServedExactlyOnce ==
  /\ [](Len(served) = Cardinality(ServedMessages))
  /\ \A m \in Messages :
       (m \notin unsent) ~> (m \in ServedMessages \/ ~Calm(Rid[m]) \/ corrupt)

\* The packets of a message that are longer than what recvfrom takes of them
CutOff(m) == {i \in DOMAIN Cut[m] : Received(Cut[m][i]) # Cut[m][i]}

\* A cas is read as a set that expires at the low half of its stamp and has the
\* high half for flags.
ReadAs(r) ==
  IF r.cmd = "CAS"
  THEN [r EXCEPT !.cmd = "SET",
                 !.words = <<@[1] % ByteRange^Size32, @[1] \div ByteRange^Size32>>]
  ELSE r

\* The server executes what the client has asked for, or drops the request: it
\* drops those that fill a packet, whose last bytes do not arrive because a
\* packet is filled as if it had no header, and never takes a part of one for
\* another request.  A cas is read as a set, which is as many bytes shorter as one
\* full packet loses, so with one such packet it is executed all the same: as it
\* is if it has no other packet, else with the right key and as many bytes as
\* there should be, though not the right ones (PacketWriter.cpp, preparePacket;
\* Server.cpp, decodeRequest).
ServedAsWritten ==
  \A i \in DOMAIN served :
    LET m == ServedMessage(i)
        asked == Asked[m]
        read  == Decode(CommandSent(asked.cmd), Contents(served[i]))
        cas   == asked.cmd = "CAS" /\ Cardinality(CutOff(m)) = 1
    IN  IF CutOff(m) = {} \/ (cas /\ Len(Cut[m]) = 1) THEN read = ReadAs(asked)
        ELSE IF cas THEN read.key = asked.key /\ Len(read.data) = Len(asked.data)
        ELSE read = Dropped
=============================================================================
