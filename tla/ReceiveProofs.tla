---------------------------- MODULE ReceiveProofs ----------------------------
(***************************************************************************)
(* Theorems about the rx threads and the map of requests, for any number   *)
(* of threads, of requests, and whatever the network does.                 *)
(***************************************************************************)
EXTENDS Receive, BasicFacts, FiniteSetTheorems, SequenceTheorems, TLAPS

-----------------------------------------------------------------------------
(* Sequences                                                               *)

LEMMA ExceptIsSeq ==
  ASSUME NEW S, NEW s \in Seq(S), NEW i, NEW x
  PROVE  /\ [s EXCEPT ![i] = x] \in Seq(S \cup {x})
         /\ Len([s EXCEPT ![i] = x]) = Len(s)
<1> DEFINE e == [s EXCEPT ![i] = x]
<1>1. Len(s) \in Nat /\ s \in [1..Len(s) -> S]
  BY LenProperties
<1>2. DOMAIN e = 1..Len(s) /\ \A j \in 1..Len(s) : e[j] \in S \cup {x}
  BY <1>1
<1>3. e = [j \in 1..Len(s) |-> e[j]]
  BY <1>1
<1>4. e \in Seq(S \cup {x})
  <2> HIDE DEF e
  <2> QED
    BY <1>1, <1>2, <1>3
<1>5. Len(e) = Len(s)
  <2> HIDE DEF e
  <2> QED
    BY <1>1, <1>2, <1>4, LenProperties
<1> QED
  BY <1>4, <1>5

LEMMA RemoveIsSeq ==
  ASSUME NEW S, NEW s \in Seq(S), NEW i \in DOMAIN s
  PROVE  RemoveAt(s, i) \in Seq(S)
<1>1. SubSeq(s, 1, i - 1) \in Seq(S) /\ SubSeq(s, i + 1, Len(s)) \in Seq(S)
  OBVIOUS
<1> QED
  BY <1>1 DEF RemoveAt

-----------------------------------------------------------------------------
(* Types                                                                   *)

\* The key of a datagram is one of those m_rmap may have.
Keyed(d) == "rid" \in DOMAIN d /\ d.rid \in Keys

Carried == \E D : net \in Seq(D) /\ \A d \in D : Keyed(d)

NetTypes ==
  /\ unsent \subseteq Messages
  /\ copies \in 0..MaxCopies
  /\ Carried

StoreTypes ==
  /\ \E S : request \in Seq(S)
  /\ rmap \in [Keys -> Requests \cup {None}]
  /\ freed \subseteq Requests
  /\ rxQueue \in Seq(Requests)

\* Where a thread has an entry of the map, and where it has a Request
Looking == {"deref", "put", "complete", "failed"}
Having  == {"put", "complete", "failed", "post", "delete"}

ThreadTypes ==
  /\ pc \in [Threads -> {"recv", "find", "deref", "put", "complete", "post",
                         "failed", "delete"}]
  /\ iter \in [Threads -> Requests \cup {None}]
  /\ req \in [Threads -> Requests \cup {None}]
  /\ DOMAIN packet = Threads
  /\ \A t \in Threads : /\ pc[t] # "recv" => Key(t) \in Keys
                        /\ pc[t] \in Looking => iter[t] \in Requests
                        /\ pc[t] \in Having => req[t] \in Requests

Types == NetTypes /\ StoreTypes /\ ThreadTypes

LEMMA CutKeyed ==
  ASSUME NEW m \in Messages
  PROVE  \E D : Cut[m] \in Seq(D) /\ \A d \in D : Keyed(d)
<1> DEFINE payloads == Payloads(RequestWrites(Asked[m]))
           n == Len(payloads)
           D == {Cut[m][i] : i \in 1..n}
<1>1. n \in Nat
  BY ReceiveAssumption
<1>2. Cut[m] = Datagrams(m, Rid[m], Seq0[m], RequestWrites(Asked[m]))
  BY DEF Cut
<1>3. DOMAIN Cut[m] = 1..n /\ Cut[m] = [i \in 1..n |-> Cut[m][i]]
  BY <1>2 DEF Datagrams
<1>4. Cut[m] \in Seq(D)
  <2>1. \A i \in 1..n : Cut[m][i] \in D
    OBVIOUS
  <2> HIDE DEF D, n
  <2> QED
    BY <1>1, <1>3, <2>1
<1>5. ASSUME NEW i \in 1..n
      PROVE  Keyed(Cut[m][i])
  <2>1. /\ "rid" \in DOMAIN Cut[m][i]
        /\ Cut[m][i].rid = Rid[m]
    BY <1>2, <1>5 DEF Datagrams
  <2> QED
    BY <2>1 DEF Keyed, Keys
<1>6. \A d \in D : Keyed(d)
  BY <1>5
<1> HIDE DEF D
<1> QED
  BY <1>4, <1>6

(* The network changes no key. *)
LEMMA CarriedStep ==
  ASSUME Carried,
         \/ \E m \in Messages : net' = net \o Cut[m]
         \/ \E i \in DOMAIN net : net' = RemoveAt(net, i) \/ net' = Append(net, net[i])
         \/ net' = net
  PROVE  Carried'
<1>1. PICK D : net \in Seq(D) /\ \A d \in D : Keyed(d)
  BY DEF Carried
<1> USE DEF Carried, Keyed
<1>2. ASSUME NEW m \in Messages, net' = net \o Cut[m]
      PROVE  Carried'
  <2>1. PICK E : Cut[m] \in Seq(E) /\ \A d \in E : Keyed(d)
    BY CutKeyed
  <2>2. net' \in Seq(D \cup E)
    <3>1. net \in Seq(D \cup E) /\ Cut[m] \in Seq(D \cup E)
      BY <1>1, <2>1, SeqMonotonic, Zenon
    <3> QED
      BY <1>2, <3>1
  <2>3. \A d \in D \cup E : Keyed(d)
    BY <1>1, <2>1, Zenon
  <2> QED
    BY <2>2, <2>3, Zenon DEF Keys
<1>3. ASSUME NEW i \in DOMAIN net, net' = RemoveAt(net, i)
      PROVE  Carried'
  <2>1. net' \in Seq(D)
    BY <1>1, <1>3, RemoveIsSeq
  <2> QED
    BY <1>1, <2>1, Zenon DEF Keys
<1>4. ASSUME NEW i \in DOMAIN net, net' = Append(net, net[i])
      PROVE  Carried'
  <2>1. net' \in Seq(D)
    BY <1>1, <1>4
  <2> QED
    BY <1>1, <2>1, Zenon DEF Keys
<1> QED
  BY <1>2, <1>3, <1>4

(* What recvfrom returns has the key of what was sent. *)
LEMMA ReceivedKeyed ==
  ASSUME Carried, NEW i \in DOMAIN net
  PROVE  Received(net[i]).rid = net[i].rid /\ net[i].rid \in Keys
<1>1. Keyed(net[i])
  BY DEF Carried
<1>2. net[i].rid \in Keys /\ "rid" \in DOMAIN net[i]
  BY <1>1 DEF Keyed
<1>3. Received(net[i]).rid = net[i].rid
  BY <1>2 DEF Received
<1> QED
  BY <1>2, <1>3

LEMMA NetTypesStep ==
  ASSUME NetTypes, [Next]_vars
  PROVE  NetTypes'
<1>1. Carried'
  <2>1. \/ \E m \in Messages : net' = net \o Cut[m]
        \/ \E i \in DOMAIN net : net' = RemoveAt(net, i) \/ net' = Append(net, net[i])
        \/ net' = net
    BY DEF Next, Send, Lose, Duplicate, Step, Recv, Find, Deref, PutPacket, EraseComplete,
           PostRequest, EraseFailed, DeleteRequest, Serve, vars, netVars
  <2> QED
    BY <2>1, CarriedStep DEF NetTypes
<1>2. unsent' \subseteq unsent
  BY DEF Next, Send, Lose, Duplicate, Step, Recv, Find, Deref, PutPacket, EraseComplete,
         PostRequest, EraseFailed, DeleteRequest, Serve, vars, netVars
<1>3. copies' = copies \/ (copies < MaxCopies /\ copies' = copies + 1)
  BY DEF Next, Send, Lose, Duplicate, Step, Recv, Find, Deref, PutPacket, EraseComplete,
         PostRequest, EraseFailed, DeleteRequest, Serve, vars, netVars
<1> QED
  BY <1>1, <1>2, <1>3, ReceiveAssumption DEF NetTypes

(* There are never fewer Requests, and the sets they are in grow with them. *)
LEMMA StoreGrows ==
  ASSUME StoreTypes, Len(request') \in Nat, Len(request') >= Len(request)
  PROVE  /\ Requests \subseteq Requests' /\ None \notin Requests
         /\ rxQueue \in Seq(Requests')
         /\ rmap \in [Keys -> Requests' \cup {None}]
<1>1. Len(request) \in Nat
  BY DEF StoreTypes
<1>2. Requests \subseteq Requests' /\ None \notin Requests
  BY <1>1 DEF Requests, None
<1> QED
  BY <1>2, SeqMonotonic DEF StoreTypes

(* The steps of a thread, as far as the types of its variables go *)
LEMMA ThreadTypesStep ==
  ASSUME ThreadTypes, NEW t \in Threads, NEW to, NEW i, NEW r,
         Requests \subseteq Requests',
         pc' = [pc EXCEPT ![t] = to],
         to \in {"recv", "find", "deref", "put", "complete", "post", "failed", "delete"},
         DOMAIN packet' = Threads, \A u \in Threads \ {t} : packet'[u] = packet[u],
         to # "recv" => packet'[t].rid \in Keys,
         iter' = [iter EXCEPT ![t] = i], i \in Requests' \cup {None},
         to \in Looking => i \in Requests',
         req' = [req EXCEPT ![t] = r], r \in Requests' \cup {None},
         to \in Having => r \in Requests'
  PROVE  ThreadTypes'
<1>1. /\ pc' \in [Threads -> {"recv", "find", "deref", "put", "complete", "post",
                              "failed", "delete"}]
      /\ DOMAIN packet' = Threads
  BY DEF ThreadTypes
<1>2. iter' \in [Threads -> Requests' \cup {None}] /\ req' \in [Threads -> Requests' \cup {None}]
  BY DEF ThreadTypes
<1>3. ASSUME NEW u \in Threads
      PROVE  /\ pc'[u] # "recv" => packet'[u].rid \in Keys
             /\ pc'[u] \in Looking => iter'[u] \in Requests'
             /\ pc'[u] \in Having => req'[u] \in Requests'
  <2>1. CASE u = t
    BY <2>1 DEF ThreadTypes
  <2>2. CASE u # t
    <3>1. pc'[u] = pc[u] /\ packet'[u] = packet[u] /\ iter'[u] = iter[u] /\ req'[u] = req[u]
      BY <2>2 DEF ThreadTypes
    <3> QED
      BY <3>1 DEF ThreadTypes, Key
  <2> QED
    BY <2>1, <2>2
<1> QED
  BY <1>1, <1>2, <1>3 DEF ThreadTypes, Key

LEMMA LoopTypes ==
  ASSUME ThreadTypes, NEW t \in Threads, Loop(t), Requests \subseteq Requests'
  PROVE  ThreadTypes'
<1>1. /\ DOMAIN packet' = Threads
      /\ \A u \in Threads \ {t} : packet'[u] = packet[u]
  BY DEF ThreadTypes, Loop
<1> QED
  BY <1>1, ThreadTypesStep DEF Loop, Looking, Having

LEMMA TypesStep ==
  ASSUME Types, [Next]_vars
  PROVE  Types'
<1>1. NetTypes'
  BY NetTypesStep DEF Types
<1>2. /\ StoreTypes /\ ThreadTypes /\ Len(request) \in Nat /\ None \notin Requests
      /\ \E S : request \in Seq(S)
  BY DEF Types, StoreTypes, Requests, None
<1>3. ASSUME UNCHANGED <<rmap, request, freed, threadVars, rxQueue>>
      PROVE  StoreTypes' /\ ThreadTypes'
  BY <1>2, <1>3 DEF StoreTypes, ThreadTypes, Requests, Key, threadVars
<1>4. ASSUME NEW t \in Threads, NEW i \in DOMAIN net, Recv(t, i)
      PROVE  StoreTypes' /\ ThreadTypes'
  <2>1. /\ UNCHANGED <<request, rmap, freed, rxQueue, iter, req>> /\ Requests' = Requests
        /\ pc' = [pc EXCEPT ![t] = "find"] /\ packet' = [packet EXCEPT ![t] = Received(net[i])]
    BY <1>4 DEF Recv, Requests
  <2>2. Received(net[i]).rid \in Keys
    BY ReceivedKeyed DEF Types, NetTypes
  <2>3. DOMAIN packet' = Threads /\ packet'[t].rid \in Keys
    BY <1>2, <2>1, <2>2 DEF ThreadTypes
  <2>4. \A u \in Threads \ {t} : packet'[u] = packet[u]
    BY <1>2, <2>1 DEF ThreadTypes
  <2>5. /\ iter' = [iter EXCEPT ![t] = iter[t]] /\ iter[t] \in Requests' \cup {None}
        /\ req' = [req EXCEPT ![t] = req[t]] /\ req[t] \in Requests' \cup {None}
    BY <1>2, <2>1 DEF ThreadTypes
  <2>6. ThreadTypes'
    BY <1>2, <2>1, <2>3, <2>4, <2>5, ThreadTypesStep DEF Looking, Having
  <2> QED
    BY <1>2, <2>1, <2>6 DEF StoreTypes
<1>5. ASSUME NEW t \in Threads, Find(t), rmap[Key(t)] = None, request' = Append(request, NewReader),
             rmap' = [rmap EXCEPT ![Key(t)] = Len(request')],
             iter' = [iter EXCEPT ![t] = Len(request')],
             req' = [req EXCEPT ![t] = Len(request')],
             pc' = [pc EXCEPT ![t] = "put"]
      PROVE  StoreTypes' /\ ThreadTypes'
  <2>1. Len(request') = Len(request) + 1 /\ \E S : request' \in Seq(S)
    <3>1. PICK S : request \in Seq(S)
      BY <1>2
    <3>2. request \in Seq(S \cup {NewReader})
      BY <3>1, SeqMonotonic, Zenon
    <3> QED
      BY <1>5, <3>2
  <2>2. Requests \subseteq Requests' /\ Len(request') \in Requests' /\ freed' = freed
    BY <1>2, <1>5, <2>1 DEF Requests, Find
  <2>3. rxQueue' \in Seq(Requests') /\ rmap \in [Keys -> Requests' \cup {None}]
    BY <1>2, <1>5, <2>1, StoreGrows DEF Find
  <2>4. StoreTypes'
    BY <1>2, <1>5, <2>1, <2>2, <2>3 DEF StoreTypes
  <2>5. /\ packet' = packet /\ DOMAIN packet' = Threads /\ packet'[t].rid \in Keys
        /\ \A u \in Threads \ {t} : packet'[u] = packet[u]
    BY <1>2, <1>5 DEF Find, ThreadTypes, Key
  <2>6. ThreadTypes'
    BY <1>2, <1>5, <2>2, <2>5, ThreadTypesStep
  <2> QED
    BY <2>4, <2>6
<1>6. ASSUME NEW t \in Threads, Find(t), rmap[Key(t)] # None,
             iter' = [iter EXCEPT ![t] = rmap[Key(t)]],
             pc' = [pc EXCEPT ![t] = "deref"],
             UNCHANGED <<rmap, request, req>>
      PROVE  StoreTypes' /\ ThreadTypes'
  <2>1. /\ StoreTypes' /\ Requests' = Requests
    BY <1>2, <1>6 DEF Find, StoreTypes, Requests
  <2>2. /\ packet' = packet /\ DOMAIN packet' = Threads /\ Key(t) \in Keys
        /\ packet'[t].rid \in Keys /\ \A u \in Threads \ {t} : packet'[u] = packet[u]
    BY <1>2, <1>6 DEF Find, ThreadTypes, Key
  <2>3. rmap[Key(t)] \in Requests'
    BY <1>2, <1>6, <2>1, <2>2 DEF StoreTypes
  <2>4. req' = [req EXCEPT ![t] = req[t]] /\ req[t] \in Requests' \cup {None}
    BY <1>2, <1>6, <2>1 DEF ThreadTypes
  <2>5. ThreadTypes'
    BY <1>2, <1>6, <2>1, <2>2, <2>3, <2>4, ThreadTypesStep DEF Looking, Having
  <2> QED
    BY <2>1, <2>5
<1>7. ASSUME NEW t \in Threads, Deref(t)
      PROVE  StoreTypes' /\ ThreadTypes'
  <2>1. /\ StoreTypes' /\ Requests' = Requests
    BY <1>2, <1>7 DEF Deref, StoreTypes, Requests
  <2>2. /\ packet' = packet /\ DOMAIN packet' = Threads
        /\ packet'[t].rid \in Keys /\ \A u \in Threads \ {t} : packet'[u] = packet[u]
    BY <1>2, <1>7 DEF Deref, ThreadTypes, Key
  <2>3. iter[t] \in Requests' /\ iter' = [iter EXCEPT ![t] = iter[t]]
    BY <1>2, <1>7, <2>1 DEF ThreadTypes, Deref, Looking
  <2>4. req' = [req EXCEPT ![t] = iter[t]] /\ pc' = [pc EXCEPT ![t] = "put"]
    BY <1>7 DEF Deref
  <2>5. ThreadTypes'
    BY <1>2, <2>1, <2>2, <2>3, <2>4, ThreadTypesStep
  <2> QED
    BY <2>1, <2>5
<1>8. ASSUME NEW t \in Threads, PutPacket(t)
      PROVE  StoreTypes' /\ ThreadTypes'
  <2> DEFINE q == Put(request[req[t]], packet[t])
  <2>1. /\ request' = [request EXCEPT ![req[t]] = q.reader] /\ pc[t] = "put"
        /\ UNCHANGED <<rmap, freed, rxQueue>>
        /\ \/ Loop(t)
           \/ /\ \E to \in {"complete", "failed"} : pc' = [pc EXCEPT ![t] = to]
              /\ UNCHANGED <<packet, iter, req>>
    BY <1>8 DEF PutPacket
  <2> HIDE DEF q
  <2>2. /\ Len(request') = Len(request) /\ \E S : request' \in Seq(S)
        /\ Requests' = Requests
    <3>1. PICK S : request \in Seq(S)
      BY <1>2
    <3>2. /\ request' \in Seq(S \cup {q.reader})
          /\ Len(request') = Len(request)
      BY <2>1, <3>1, ExceptIsSeq, Zenon
    <3> QED
      BY <3>2 DEF Requests
  <2>3. StoreTypes'
    BY <1>2, <2>1, <2>2 DEF StoreTypes
  <2>4. CASE Loop(t)
    BY <1>2, <2>2, <2>3, <2>4, LoopTypes
  <2>5. ASSUME NEW to \in {"complete", "failed"}, pc' = [pc EXCEPT ![t] = to],
               UNCHANGED <<packet, iter, req>>
        PROVE  ThreadTypes'
    <3>1. /\ DOMAIN packet' = Threads /\ packet'[t].rid \in Keys
          /\ \A u \in Threads \ {t} : packet'[u] = packet[u]
      BY <1>2, <2>1, <2>5 DEF ThreadTypes, Key
    <3>2. /\ iter' = [iter EXCEPT ![t] = iter[t]] /\ iter[t] \in Requests'
          /\ req' = [req EXCEPT ![t] = req[t]] /\ req[t] \in Requests'
      BY <1>2, <2>1, <2>2, <2>5 DEF ThreadTypes, Looking, Having
    <3> QED
      BY <1>2, <2>2, <2>5, <3>1, <3>2, ThreadTypesStep
  <2> QED
    BY <2>1, <2>3, <2>4, <2>5
<1>9. ASSUME NEW t \in Threads, EraseComplete(t) \/ EraseFailed(t)
      PROVE  StoreTypes' /\ ThreadTypes'
  <2>1. /\ rmap' = [rmap EXCEPT ![Key(t)] = None] /\ pc[t] \in {"complete", "failed"}
        /\ \E to \in {"post", "delete"} : pc' = [pc EXCEPT ![t] = to]
        /\ UNCHANGED <<request, freed, packet, iter, req, rxQueue>> /\ Requests' = Requests
    BY <1>9 DEF EraseComplete, EraseFailed, Erase, Requests
  <2>2. StoreTypes'
    BY <1>2, <2>1 DEF StoreTypes
  <2>3. PICK to \in {"post", "delete"} : pc' = [pc EXCEPT ![t] = to]
    BY <2>1
  <2>4. /\ DOMAIN packet' = Threads /\ packet'[t].rid \in Keys
        /\ \A u \in Threads \ {t} : packet'[u] = packet[u]
    BY <1>2, <2>1 DEF ThreadTypes, Key
  <2>5. /\ iter' = [iter EXCEPT ![t] = iter[t]] /\ iter[t] \in Requests'
        /\ req' = [req EXCEPT ![t] = req[t]] /\ req[t] \in Requests'
    BY <1>2, <2>1 DEF ThreadTypes, Looking, Having
  <2>6. ThreadTypes'
    BY <1>2, <2>1, <2>3, <2>4, <2>5, ThreadTypesStep
  <2> QED
    BY <2>2, <2>6
<1>10. ASSUME NEW t \in Threads, PostRequest(t) \/ DeleteRequest(t)
       PROVE  StoreTypes' /\ ThreadTypes'
  <2>1. /\ UNCHANGED <<rmap, request>> /\ Loop(t) /\ Requests' = Requests
        /\ pc[t] \in {"post", "delete"}
        /\ \/ rxQueue' = Append(rxQueue, req[t]) /\ freed' = freed
           \/ freed' = freed \cup {req[t]} /\ rxQueue' = rxQueue
    BY <1>10 DEF PostRequest, DeleteRequest, Requests
  <2>2. req[t] \in Requests
    BY <1>2, <2>1 DEF ThreadTypes, Having
  <2>3. rxQueue' \in Seq(Requests) /\ freed' \subseteq Requests
    <3>1. rxQueue \in Seq(Requests) /\ freed \subseteq Requests
      BY <1>2 DEF StoreTypes
    <3>2. Append(rxQueue, req[t]) \in Seq(Requests)
      BY <2>2, <3>1
    <3> QED
      BY <2>1, <2>2, <3>1, <3>2, Zenon
  <2>4. StoreTypes'
    BY <1>2, <2>1, <2>3 DEF StoreTypes
  <2>5. ThreadTypes'
    BY <1>2, <2>1, LoopTypes
  <2> QED
    BY <2>4, <2>5
<1>11. ASSUME Serve
       PROVE  StoreTypes' /\ ThreadTypes'
  <2>1. /\ UNCHANGED <<rmap, request, threadVars>> /\ Requests' = Requests
        /\ rxQueue # << >> /\ rxQueue' = Tail(rxQueue)
        /\ freed' = freed \cup {Head(rxQueue)}
    BY <1>11 DEF Serve, Requests
  <2>2. rxQueue' \in Seq(Requests) /\ freed' \subseteq Requests
    <3>1. rxQueue \in Seq(Requests) /\ freed \subseteq Requests
      BY <1>2 DEF StoreTypes
    <3>2. Tail(rxQueue) \in Seq(Requests) /\ Head(rxQueue) \in Requests
      BY <2>1, <3>1
    <3> QED
      BY <2>1, <3>1, <3>2, Zenon
  <2>3. StoreTypes'
    BY <1>2, <2>1, <2>2 DEF StoreTypes
  <2>4. ThreadTypes'
    BY <1>2, <2>1 DEF ThreadTypes, Key, threadVars
  <2> QED
    BY <2>3, <2>4
<1>12. StoreTypes' /\ ThreadTypes'
  <2>1. CASE (\E m \in Messages : Send(m)) \/ (\E i \in DOMAIN net : Lose(i) \/ Duplicate(i))
               \/ UNCHANGED vars
    BY <1>3, <2>1 DEF Send, Lose, Duplicate, vars
  <2>2. ASSUME NEW t \in Threads, Find(t)
        PROVE  StoreTypes' /\ ThreadTypes'
    BY <1>5, <1>6, <2>2 DEF Find
  <2>3. ASSUME NEW t \in Threads, Step(t)
        PROVE  StoreTypes' /\ ThreadTypes'
    BY <1>4, <1>7, <1>8, <1>9, <1>10, <2>2, <2>3 DEF Step
  <2> QED
    BY <1>11, <2>1, <2>3 DEF Next
<1> QED
  BY <1>1, <1>12 DEF Types

-----------------------------------------------------------------------------
(* Who owns a Request                                                      *)

Taken == {"post", "delete"}

InMap(r)    == \E key \in Keys : rmap[key] = r
InQueue(r)  == Occurs(r, rxQueue)
InThread(r) == \E t \in Threads : pc[t] \in Taken /\ req[t] = r

\* A Request is somewhere as long as it is not deleted,
Kept == \A r \in Requests : r \notin freed <=> InMap(r) \/ InQueue(r) \/ InThread(r)

\* not in two places of different kinds,
Apart == \A r \in Requests : /\ ~(InMap(r) /\ InQueue(r))
                            /\ ~(InMap(r) /\ InThread(r))
                            /\ ~(InQueue(r) /\ InThread(r))

\* nor in two of the same kind.
MapOnce    == \A k, l \in Keys : rmap[k] # None /\ rmap[k] = rmap[l] => k = l
QueueOnce  == NoRepeats(rxQueue)
ThreadOnce == \A t, u \in Threads :
                pc[t] \in Taken /\ pc[u] \in Taken /\ req[t] = req[u] => t = u

Placed == Kept /\ Apart /\ MapOnce /\ QueueOnce /\ ThreadOnce

\* Only one thread at a time has packets of a request,
Alone == \A t, u \in Threads : Handles(t, Key(t)) /\ Handles(u, Key(t)) => t = u

\* so the entry it has found stays.
Found ==
  \A t \in Threads :
    /\ pc[t] \in Looking => iter[t] = rmap[Key(t)]
    /\ pc[t] \in {"put", "complete", "failed"} => req[t] = iter[t]

Owned == Placed /\ Alone /\ Found

(* Steps that take nothing out of a place and put nothing into one *)
LEMMA PlacesStay ==
  ASSUME Placed, UNCHANGED <<rmap, rxQueue, freed>>, Requests' = Requests,
         \A u \in Threads : /\ pc'[u] \in Taken <=> pc[u] \in Taken
                            /\ pc[u] \in Taken => req'[u] = req[u]
  PROVE  Placed'
<1>1. \A r : /\ InMap(r)' <=> InMap(r)
             /\ InQueue(r)' <=> InQueue(r)
             /\ InThread(r)' <=> InThread(r)
  BY DEF InMap, InQueue, InThread
<1>2. Kept' /\ Apart'
  BY <1>1 DEF Placed, Kept, Apart
<1>3. MapOnce' /\ QueueOnce'
  BY DEF Placed, MapOnce, QueueOnce
<1>4. ThreadOnce'
  BY DEF Placed, ThreadOnce
<1> QED
  BY <1>2, <1>3, <1>4 DEF Placed

\* A step of thread t changes only its own variables, and the map only at its
\* own key.
Others(t) ==
  /\ \A u \in Threads \ {t} : /\ pc'[u] = pc[u] /\ packet'[u] = packet[u]
                              /\ iter'[u] = iter[u] /\ req'[u] = req[u]
  /\ \/ rmap' = rmap
     \/ /\ Handles(t, Key(t))
        /\ \A key \in Keys \ {Key(t)} : rmap'[key] = rmap[key]

(* What other threads have found is not touched. *)
LEMMA OthersStay ==
  ASSUME ThreadTypes, Alone, Found, NEW t \in Threads, Others(t),
         Handles(t, Key(t))' => Handles(t, Key(t)) /\ packet'[t] = packet[t],
         /\ pc'[t] \in Looking => iter'[t] = rmap'[Key(t)']
         /\ pc'[t] \in {"put", "complete", "failed"} => req'[t] = iter'[t]
  PROVE  Alone' /\ Found'
<1>1. \A u \in Threads : Handles(u, Key(u))' => Handles(u, Key(u)) /\ packet'[u] = packet[u]
  BY DEF Others, Handles, Key
<1>2. Alone'
  BY <1>1 DEF Alone, Handles, Key
<1>3. ASSUME NEW u \in Threads \ {t}, pc[u] \in Looking
      PROVE  rmap'[Key(u)] = rmap[Key(u)]
  <2>1. Handles(u, Key(u)) /\ Key(u) \in Keys
    BY <1>3 DEF Looking, Handles, ThreadTypes
  <2>2. Handles(t, Key(t)) => Key(u) # Key(t)
    BY <2>1 DEF Alone
  <2> QED
    BY <2>1, <2>2 DEF Others
<1>4. ASSUME NEW u \in Threads \ {t}
      PROVE  /\ pc'[u] \in Looking => iter'[u] = rmap'[Key(u)']
             /\ pc'[u] \in {"put", "complete", "failed"} => req'[u] = iter'[u]
  <2>1. Key(u)' = Key(u)
    BY DEF Others, Key
  <2> QED
    BY <1>3, <2>1 DEF Others, Found
<1>5. Found'
  BY <1>4 DEF Found
<1> QED
  BY <1>2, <1>5

(* The step of a thread that changes no place: it looks a request up or puts its
   packet into one. *)
LEMMA OwnedLook ==
  ASSUME Types, Owned, NEW t \in Threads,
         \/ Find(t) /\ rmap[Key(t)] # None
         \/ Deref(t)
         \/ PutPacket(t)
  PROVE  Owned' /\ (~corrupt => ~corrupt')
<1>1. ThreadTypes /\ StoreTypes /\ Placed /\ Alone /\ Found
  BY DEF Types, Owned
<1>2. ASSUME Find(t), rmap[Key(t)] # None
      PROVE  Owned' /\ (~corrupt => ~corrupt')
  <2>1. /\ pc[t] = "find" /\ pc' = [pc EXCEPT ![t] = "deref"]
        /\ iter' = [iter EXCEPT ![t] = rmap[Key(t)]]
        /\ UNCHANGED <<rmap, rxQueue, freed, request, req, packet, corrupt>>
    BY <1>2 DEF Find
  <2>2. Placed'
    BY <1>1, <2>1, PlacesStay DEF ThreadTypes, Requests, Taken
  <2>3. Alone' /\ Found'
    BY <1>1, <2>1, OthersStay DEF ThreadTypes, Others, Handles, Key
  <2> QED
    BY <2>1, <2>2, <2>3 DEF Owned
<1>3. ASSUME Deref(t)
      PROVE  Owned' /\ (~corrupt => ~corrupt')
  <2>1. /\ pc[t] = "deref" /\ pc' = [pc EXCEPT ![t] = "put"]
        /\ req' = [req EXCEPT ![t] = iter[t]] /\ corrupt' = ~IterValid(t)
        /\ UNCHANGED <<rmap, rxQueue, freed, request, iter, packet>>
    BY <1>3 DEF Deref
  <2>2. Placed'
    BY <1>1, <2>1, PlacesStay DEF ThreadTypes, Requests, Taken
  <2>3. iter[t] = rmap[Key(t)]
    BY <1>1, <2>1 DEF Found, Looking
  <2>4. Alone' /\ Found'
    BY <1>1, <2>1, <2>3, OthersStay DEF ThreadTypes, Others, Handles, Key, Looking
  <2> QED
    BY <2>1, <2>2, <2>3, <2>4 DEF Owned, IterValid
<1>4. ASSUME PutPacket(t)
      PROVE  Owned' /\ (~corrupt => ~corrupt')
  <2> DEFINE q == Put(request[req[t]], packet[t])
  <2>1. /\ pc[t] = "put" /\ request' = [request EXCEPT ![req[t]] = q.reader]
        /\ corrupt' = (req[t] \in freed) /\ UNCHANGED <<rmap, rxQueue, freed>>
        /\ \/ Loop(t)
           \/ /\ \E to \in {"complete", "failed"} : pc' = [pc EXCEPT ![t] = to]
              /\ UNCHANGED <<packet, iter, req>>
    BY <1>4 DEF PutPacket
  <2> HIDE DEF q
  <2>2. Requests' = Requests
    <3>1. PICK S : request \in Seq(S)
      BY <1>1 DEF StoreTypes
    <3>2. /\ request' \in Seq(S \cup {q.reader})
          /\ Len(request') = Len(request)
      BY <2>1, <3>1, ExceptIsSeq, Zenon
    <3> QED
      BY <3>2 DEF Requests
  <2>3. Placed'
    BY <1>1, <2>1, <2>2, PlacesStay DEF ThreadTypes, Taken, Loop
  <2>4. iter[t] = rmap[Key(t)] /\ req[t] = iter[t] /\ Key(t) \in Keys /\ req[t] \in Requests
    BY <1>1, <2>1 DEF Found, Looking, Having, ThreadTypes
  <2>5. Alone' /\ Found'
    BY <1>1, <2>1, <2>4, OthersStay DEF ThreadTypes, Others, Handles, Key, Looking, Loop
  <2>6. req[t] \notin freed
    BY <1>1, <2>4 DEF Placed, Kept, InMap
  <2> QED
    BY <2>1, <2>3, <2>5, <2>6 DEF Owned
<1> QED
  BY <1>2, <1>3, <1>4

(* recvfrom gives a thread a packet of a request of which no other has one. *)
LEMMA OwnedRecv ==
  ASSUME Types, Owned, NEW t \in Threads, NEW i \in DOMAIN net, Recv(t, i), raced' = {}
  PROVE  Owned' /\ ~corrupt'
<1>1. ThreadTypes /\ StoreTypes /\ Placed /\ Alone /\ Found
  BY DEF Types, Owned
<1>2. /\ pc[t] = "recv" /\ pc' = [pc EXCEPT ![t] = "find"] /\ ~corrupt
      /\ packet' = [packet EXCEPT ![t] = Received(net[i])]
      /\ UNCHANGED <<rmap, rxQueue, freed, request, iter, req, corrupt>>
      /\ \A u \in Threads : ~Handles(u, net[i].rid)
  BY DEF Recv
<1>3. Received(net[i]).rid = net[i].rid
  BY ReceivedKeyed DEF Types, NetTypes
<1>4. Placed'
  BY <1>1, <1>2, PlacesStay DEF ThreadTypes, Requests, Taken
<1>5. \A u \in Threads \ {t} : pc'[u] = pc[u] /\ Key(u)' = Key(u)
  BY <1>1, <1>2 DEF ThreadTypes, Key
<1>6. Key(t)' = net[i].rid /\ pc'[t] = "find"
  BY <1>1, <1>2, <1>3 DEF ThreadTypes, Key
<1>7. Alone'
  <2>1. \A u \in Threads \ {t} : ~Handles(u, Key(t))'
    BY <1>2, <1>5, <1>6 DEF Handles
  <2>2. \A u \in Threads \ {t} : ~(Handles(t, Key(u)) /\ Handles(u, Key(u)))'
    BY <2>1 DEF Handles
  <2>3. \A u, v \in Threads \ {t} : (Handles(u, Key(u)) /\ Handles(v, Key(u)))' => u = v
    BY <1>1, <1>5 DEF Alone, Handles
  <2> QED
    BY <2>1, <2>2, <2>3 DEF Alone
<1>8. Found'
  BY <1>1, <1>2, <1>5, <1>6 DEF Found, Looking
<1> QED
  BY <1>2, <1>4, <1>7, <1>8 DEF Owned

(* A new Request is in the map and nowhere else. *)
LEMMA OwnedNew ==
  ASSUME Types, Owned, NEW t \in Threads, Find(t), rmap[Key(t)] = None,
         request' = Append(request, NewReader),
         rmap' = [rmap EXCEPT ![Key(t)] = Len(request')],
         iter' = [iter EXCEPT ![t] = Len(request')],
         req' = [req EXCEPT ![t] = Len(request')],
         pc' = [pc EXCEPT ![t] = "put"]
  PROVE  Owned'
<1>1. ThreadTypes /\ StoreTypes /\ Placed /\ Alone /\ Found
  BY DEF Types, Owned
<1>2. pc[t] = "find" /\ UNCHANGED <<rxQueue, freed, packet>> /\ Key(t) \in Keys
  BY <1>1 DEF Find, ThreadTypes
<1> DEFINE new == Len(request) + 1
<1>3. Len(request') = new /\ Len(request) \in Nat
  <2>1. PICK S : request \in Seq(S)
    BY <1>1 DEF StoreTypes
  <2>2. request \in Seq(S \cup {NewReader})
    BY <2>1, SeqMonotonic, Zenon
  <2> QED
    BY <2>2
<1>4. Requests' = Requests \cup {new} /\ new \notin Requests /\ new # None
  BY <1>3 DEF Requests, None
<1> HIDE DEF new
<1>5. /\ rmap' = [rmap EXCEPT ![Key(t)] = new] /\ iter' = [iter EXCEPT ![t] = new]
      /\ req' = [req EXCEPT ![t] = new]
  BY <1>3
<1>6. ~InMap(new) /\ ~InQueue(new) /\ ~InThread(new) /\ new \notin freed
  <2>1. ~InMap(new) /\ new \notin freed
    BY <1>1, <1>4 DEF StoreTypes, InMap
  <2>2. ~InQueue(new)
    <3>1. \A i \in DOMAIN rxQueue : rxQueue[i] \in Requests
      BY <1>1 DEF StoreTypes
    <3> QED
      BY <1>4, <3>1 DEF InQueue, Occurs
  <2>3. ~InThread(new)
    BY <1>1, <1>4 DEF ThreadTypes, InThread, Taken, Having
  <2> QED
    BY <2>1, <2>2, <2>3
<1>7. \A r \in Requests : InMap(r)' <=> InMap(r)
  <2>1. None \notin Requests
    BY <1>1 DEF Requests, None
  <2> QED
    BY <1>1, <1>2, <1>4, <1>5, <2>1 DEF StoreTypes, InMap
<1>8. \A r : r = new => InMap(r)'
  BY <1>1, <1>2, <1>5 DEF StoreTypes, InMap
<1>9. \A r : (InQueue(r)' <=> InQueue(r)) /\ (InThread(r)' <=> InThread(r))
  <2>1. \A u \in Threads : /\ pc'[u] \in Taken <=> pc[u] \in Taken
                           /\ pc[u] \in Taken => req'[u] = req[u]
    BY <1>1, <1>2, <1>5 DEF ThreadTypes, Taken
  <2> QED
    BY <1>2, <2>1 DEF InQueue, InThread
<1>10. Kept' /\ Apart'
  BY <1>1, <1>2, <1>4, <1>6, <1>7, <1>8, <1>9 DEF Placed, Kept, Apart
<1>11. MapOnce'
  BY <1>1, <1>2, <1>5, <1>6 DEF Placed, MapOnce, StoreTypes, InMap
<1>12. QueueOnce' /\ ThreadOnce'
  BY <1>1, <1>2, <1>5 DEF Placed, QueueOnce, ThreadOnce, ThreadTypes, Taken
<1>13. Alone' /\ Found'
  BY <1>1, <1>2, <1>5, OthersStay
  DEF ThreadTypes, StoreTypes, Others, Handles, Key, Looking
<1> QED
  BY <1>10, <1>11, <1>12, <1>13 DEF Owned, Placed

(* The thread that has completed a request, or given it up, takes it out of the
   map; *)
LEMMA OwnedErase ==
  ASSUME Types, Owned, NEW t \in Threads, EraseComplete(t) \/ EraseFailed(t)
  PROVE  Owned' /\ ~corrupt'
<1>1. ThreadTypes /\ StoreTypes /\ Placed /\ Alone /\ Found
  BY DEF Types, Owned
<1>2. /\ pc[t] \in {"complete", "failed"}
      /\ rmap' = [rmap EXCEPT ![Key(t)] = None] /\ corrupt' = ~IterValid(t)
      /\ \E to \in Taken : pc' = [pc EXCEPT ![t] = to]
      /\ UNCHANGED <<request, rxQueue, freed, packet, iter, req>>
      /\ Requests' = Requests
  BY DEF EraseComplete, EraseFailed, Erase, Taken, Requests
<1> DEFINE r == req[t]
<1>3. r = rmap[Key(t)] /\ r \in Requests /\ Key(t) \in Keys /\ r # None /\ iter[t] = r
  BY <1>1, <1>2 DEF Found, ThreadTypes, Looking, Having, Requests, None
<1>4. \A x \in Requests : InMap(x)' <=> InMap(x) /\ x # r
  <2>1. \A key \in Keys : rmap'[key] = IF key = Key(t) THEN None ELSE rmap[key]
    BY <1>1, <1>2 DEF StoreTypes
  <2>2. \A key \in Keys : rmap[key] = r => key = Key(t)
    BY <1>1, <1>3 DEF Placed, MapOnce
  <2>3. None \notin Requests
    BY DEF Requests, None
  <2> QED
    BY <1>3, <2>1, <2>2, <2>3 DEF InMap
<1>5. \A x : (InThread(x)' <=> InThread(x) \/ x = r) /\ (InQueue(x)' <=> InQueue(x))
  <2>1. pc'[t] \in Taken /\ pc[t] \notin Taken /\ \A u \in Threads \ {t} : pc'[u] = pc[u]
    BY <1>1, <1>2 DEF ThreadTypes, Taken
  <2> QED
    BY <1>2, <2>1 DEF InThread, InQueue
<1>6. InMap(r) /\ ~InQueue(r) /\ ~InThread(r) /\ r \notin freed
  BY <1>1, <1>3 DEF Placed, Kept, Apart, InMap
<1> HIDE DEF r
<1>7. Kept' /\ Apart'
  BY <1>1, <1>2, <1>3, <1>4, <1>5, <1>6 DEF Placed, Kept, Apart
<1>8. MapOnce' /\ QueueOnce'
  BY <1>1, <1>2 DEF Placed, MapOnce, QueueOnce, StoreTypes
<1>9. ThreadOnce'
  <2>1. \A u \in Threads \ {t} : pc'[u] = pc[u] /\ (pc[u] \in Taken => req[u] # r)
    BY <1>1, <1>2, <1>6 DEF ThreadTypes, InThread
  <2>2. req[t] = r
    BY DEF r
  <2> QED
    BY <1>1, <1>2, <2>1, <2>2 DEF Placed, ThreadOnce
<1>10. Alone' /\ Found'
  BY <1>1, <1>2, OthersStay
  DEF ThreadTypes, StoreTypes, Others, Handles, Key, Looking, Taken
<1> QED
  BY <1>2, <1>3, <1>7, <1>8, <1>9, <1>10 DEF Owned, Placed, IterValid

(* it puts it into the queue, *)
LEMMA OwnedPost ==
  ASSUME Types, Owned, NEW t \in Threads, PostRequest(t)
  PROVE  Owned' /\ ~corrupt'
<1>1. ThreadTypes /\ StoreTypes /\ Placed /\ Alone /\ Found
  BY DEF Types, Owned
<1>2. /\ pc[t] = "post" /\ rxQueue' = Append(rxQueue, req[t]) /\ Loop(t) /\ ~corrupt'
      /\ UNCHANGED <<rmap, request, freed>> /\ Requests' = Requests
  BY DEF PostRequest, Requests
<1>3. /\ req[t] \in Requests /\ InThread(req[t])
      /\ \A u \in Threads \ {t} : /\ pc'[u] = pc[u] /\ req'[u] = req[u] /\ iter'[u] = iter[u]
                                 /\ packet'[u] = packet[u]
      /\ pc'[t] = "recv"
  BY <1>1, <1>2 DEF ThreadTypes, Having, InThread, Taken, Loop
<1>4. /\ \A x : InQueue(x)' <=> InQueue(x) \/ x = req[t]
      /\ ~InQueue(req[t]) => QueueOnce'
  <2>1. rxQueue \in Seq(Requests) /\ NoRepeats(rxQueue)
    BY <1>1 DEF StoreTypes, Placed, QueueOnce
  <2>2. /\ \A y : Occurs(y, Append(rxQueue, req[t])) <=> Occurs(y, rxQueue) \/ y = req[t]
        /\ ~Occurs(req[t], rxQueue) => NoRepeats(Append(rxQueue, req[t]))
    BY <1>3, <2>1, AppendOccurs, Zenon
  <2>3. /\ \A y : InQueue(y)' <=> Occurs(y, rxQueue')
        /\ QueueOnce' <=> NoRepeats(rxQueue')
    BY DEF InQueue, Occurs, QueueOnce, NoRepeats
  <2> QED
    BY <1>2, <2>2, <2>3, Zenon DEF InQueue
<1>5. \A x : (InThread(x)' <=> InThread(x) /\ x # req[t]) /\ (InMap(x)' <=> InMap(x))
  <2>1. \A u \in Threads \ {t} : pc[u] \in Taken => req[u] # req[t]
    BY <1>1, <1>2 DEF Placed, ThreadOnce, Taken
  <2> QED
    BY <1>2, <1>3, <2>1 DEF InThread, InMap, Taken
<1>6. Kept' /\ Apart'
  BY <1>1, <1>2, <1>3, <1>4, <1>5 DEF Placed, Kept, Apart
<1>7. QueueOnce'
  BY <1>1, <1>3, <1>4 DEF Placed, Apart
<1>8. MapOnce' /\ ThreadOnce'
  BY <1>1, <1>2, <1>3 DEF Placed, MapOnce, ThreadOnce, Taken
<1>9. Alone' /\ Found'
  BY <1>1, <1>2, <1>3, OthersStay DEF Others, Handles, Looking
<1> QED
  BY <1>2, <1>6, <1>7, <1>8, <1>9 DEF Owned, Placed

(* or deletes it; *)
LEMMA OwnedDelete ==
  ASSUME Types, Owned, NEW t \in Threads, DeleteRequest(t)
  PROVE  Owned' /\ ~corrupt'
<1>1. ThreadTypes /\ StoreTypes /\ Placed /\ Alone /\ Found
  BY DEF Types, Owned
<1>2. /\ pc[t] = "delete" /\ freed' = freed \cup {req[t]} /\ Loop(t)
      /\ corrupt' = (req[t] \in freed)
      /\ UNCHANGED <<rmap, request, rxQueue>> /\ Requests' = Requests
  BY DEF DeleteRequest, Requests
<1>3. /\ req[t] \in Requests /\ InThread(req[t])
      /\ \A u \in Threads \ {t} : /\ pc'[u] = pc[u] /\ req'[u] = req[u] /\ iter'[u] = iter[u]
                                 /\ packet'[u] = packet[u]
      /\ pc'[t] = "recv"
  BY <1>1, <1>2 DEF ThreadTypes, Having, InThread, Taken, Loop
<1>4. \A x : /\ InThread(x)' <=> InThread(x) /\ x # req[t]
             /\ InMap(x)' <=> InMap(x)
             /\ InQueue(x)' <=> InQueue(x)
  <2>1. \A u \in Threads \ {t} : pc[u] \in Taken => req[u] # req[t]
    BY <1>1, <1>2 DEF Placed, ThreadOnce, Taken
  <2> QED
    BY <1>2, <1>3, <2>1 DEF InThread, InMap, InQueue, Taken
<1>5. Kept' /\ Apart'
  BY <1>1, <1>2, <1>3, <1>4 DEF Placed, Kept, Apart
<1>6. MapOnce' /\ QueueOnce' /\ ThreadOnce'
  BY <1>1, <1>2, <1>3 DEF Placed, MapOnce, QueueOnce, ThreadOnce, Taken
<1>7. Alone' /\ Found'
  BY <1>1, <1>2, <1>3, OthersStay DEF Others, Handles, Looking
<1>8. req[t] \notin freed
  BY <1>1, <1>3 DEF Placed, Kept
<1> QED
  BY <1>2, <1>5, <1>6, <1>7, <1>8 DEF Owned, Placed

(* and main deletes what it takes from the queue. *)
LEMMA OwnedServe ==
  ASSUME Types, Owned, Serve
  PROVE  Owned' /\ ~corrupt'
<1>1. ThreadTypes /\ StoreTypes /\ Placed /\ Alone /\ Found
  BY DEF Types, Owned
<1>2. /\ rxQueue # << >> /\ rxQueue' = Tail(rxQueue)
      /\ freed' = freed \cup {Head(rxQueue)} /\ corrupt' = (Head(rxQueue) \in freed)
      /\ UNCHANGED <<rmap, request, pc, packet, iter, req>> /\ Requests' = Requests
  BY DEF Serve, Requests, threadVars
<1>3. /\ Head(rxQueue) \in Requests /\ InQueue(Head(rxQueue))
      /\ \A x : InQueue(x)' <=> InQueue(x) /\ x # Head(rxQueue)
      /\ QueueOnce'
  <2>1. rxQueue \in Seq(Requests) /\ NoRepeats(rxQueue)
    BY <1>1 DEF StoreTypes, Placed, QueueOnce
  <2>2. /\ Occurs(Head(rxQueue), rxQueue) /\ Head(rxQueue) \in Requests
        /\ \A y : Occurs(y, Tail(rxQueue)) <=> Occurs(y, rxQueue) /\ y # Head(rxQueue)
        /\ NoRepeats(Tail(rxQueue))
    BY <1>2, <2>1, TailOccurs, Zenon
  <2>3. /\ \A y : InQueue(y)' <=> Occurs(y, rxQueue')
        /\ QueueOnce' <=> NoRepeats(rxQueue')
    BY DEF InQueue, Occurs, QueueOnce, NoRepeats
  <2> QED
    BY <1>2, <2>2, <2>3, Zenon DEF InQueue
<1>4. \A x : (InThread(x)' <=> InThread(x)) /\ (InMap(x)' <=> InMap(x))
  BY <1>2 DEF InThread, InMap
<1>5. Kept' /\ Apart'
  BY <1>1, <1>2, <1>3, <1>4 DEF Placed, Kept, Apart
<1>6. MapOnce' /\ ThreadOnce'
  BY <1>1, <1>2 DEF Placed, MapOnce, ThreadOnce
<1>7. Alone' /\ Found'
  BY <1>1, <1>2 DEF Alone, Found, Handles, Key
<1>8. Head(rxQueue) \notin freed
  BY <1>1, <1>3 DEF Placed, Kept
<1> QED
  BY <1>2, <1>3, <1>5, <1>6, <1>7, <1>8 DEF Owned, Placed

LEMMA OwnedStep ==
  ASSUME Types, Owned, ~corrupt, [Next]_vars, raced' = {}
  PROVE  Owned' /\ ~corrupt'
<1>1. ASSUME UNCHANGED <<rmap, request, freed, threadVars, rxQueue, corrupt>>
      PROVE  Owned' /\ ~corrupt'
  <2>1. Placed'
    BY <1>1, PlacesStay DEF Owned, threadVars, Requests
  <2>2. Alone' /\ Found'
    BY <1>1 DEF Owned, Alone, Found, Handles, Key, threadVars
  <2> QED
    BY <1>1, <2>1, <2>2 DEF Owned
<1>2. CASE (\E m \in Messages : Send(m)) \/ (\E i \in DOMAIN net : Lose(i) \/ Duplicate(i))
             \/ UNCHANGED vars
  BY <1>1, <1>2 DEF Send, Lose, Duplicate, vars
<1>3. ASSUME NEW t \in Threads, Step(t)
      PROVE  Owned' /\ ~corrupt'
  <2>1. CASE \E i \in DOMAIN net : Recv(t, i)
    BY <2>1, OwnedRecv
  <2>2. CASE Find(t)
    <3>1. CASE rmap[Key(t)] # None
      BY <2>2, <3>1, OwnedLook
    <3>2. CASE rmap[Key(t)] = None
      <4>1. /\ request' = Append(request, NewReader) /\ corrupt' = corrupt
            /\ rmap' = [rmap EXCEPT ![Key(t)] = Len(request')]
            /\ iter' = [iter EXCEPT ![t] = Len(request')]
            /\ req' = [req EXCEPT ![t] = Len(request')]
            /\ pc' = [pc EXCEPT ![t] = "put"]
        BY <2>2, <3>2 DEF Find
      <4> QED
        BY <2>2, <3>2, <4>1, OwnedNew
    <3> QED
      BY <3>1, <3>2
  <2>3. CASE Deref(t) \/ PutPacket(t)
    BY <2>3, OwnedLook
  <2>4. CASE EraseComplete(t) \/ EraseFailed(t)
    BY <2>4, OwnedErase
  <2>5. CASE PostRequest(t) \/ DeleteRequest(t)
    BY <2>5, OwnedPost, OwnedDelete
  <2> QED
    BY <1>3, <2>1, <2>2, <2>3, <2>4, <2>5 DEF Step
<1>4. CASE Serve
  BY <1>4, OwnedServe
<1> QED
  BY <1>2, <1>3, <1>4 DEF Next

-----------------------------------------------------------------------------

Safe == Types /\ MemorySafe /\ (raced # {} \/ Owned)

(* What has happened to packets with a request id is not forgotten. *)
LEMMA CausesStay ==
  ASSUME [Next]_vars
  PROVE  lost \subseteq lost' /\ raced \subseteq raced'
BY DEF Next, Send, Lose, Duplicate, Step, Recv, Find, Deref, PutPacket, EraseComplete,
       PostRequest, EraseFailed, DeleteRequest, Serve, vars, netVars

LEMMA SafeInit ==
  ASSUME Init
  PROVE  Safe
<1>1. request = << >> /\ Requests = {} /\ rxQueue = << >> /\ rxQueue \in Seq(Requests)
      /\ request \in Seq({})
  BY DEF Init, Requests
<1>2. Carried
  <2>1. net \in Seq({}) /\ \A d \in {} : Keyed(d)
    BY DEF Init
  <2> SUFFICES \E D : net \in Seq(D) /\ \A d \in D : Keyed(d)
    BY DEF Carried
  <2> WITNESS {}
  <2> QED
    BY <2>1
<1>3. NetTypes
  BY <1>2, ReceiveAssumption DEF Init, NetTypes
<1>4. StoreTypes
  BY <1>1 DEF Init, StoreTypes
<1>5. ThreadTypes
  BY DEF Init, ThreadTypes, Looking, Having
<1>6. Placed
  BY <1>1 DEF Init, Placed, Kept, Apart, MapOnce, QueueOnce, ThreadOnce, NoRepeats, Taken
<1>7. Alone /\ Found
  BY DEF Init, Alone, Found, Handles, Looking
<1> QED
  BY <1>3, <1>4, <1>5, <1>6, <1>7 DEF Init, Safe, Types, Owned, MemorySafe

LEMMA SafeAlways == Spec => []Safe
<1>1. Init => Safe
  BY SafeInit
<1>2. Safe /\ [Next]_vars => Safe'
  <2> SUFFICES ASSUME Safe, [Next]_vars PROVE Safe'
    OBVIOUS
  <2>1. Types'
    BY TypesStep DEF Safe
  <2>2. CASE raced' # {}
    BY <2>1, <2>2 DEF Safe, MemorySafe
  <2>3. CASE raced' = {}
    <3>1. raced = {}
      BY <2>3, CausesStay
    <3>2. Owned' /\ ~corrupt'
      BY <2>3, <3>1, OwnedStep DEF Safe, MemorySafe
    <3> QED
      BY <2>1, <3>2 DEF Safe, MemorySafe
  <2> QED
    BY <2>2, <2>3
<1> QED
  BY <1>1, <1>2, PTL DEF Spec

(* The map, the queue and the threads hold Requests that exist. *)
THEOREM ReceiveTypeCorrect == Spec => []TypeOK
<1>1. Safe => TypeOK
  BY DEF Safe, Types, NetTypes, StoreTypes, ThreadTypes, TypeOK
<1> QED
  BY <1>1, SafeAlways, PTL

(* No thread uses what has been deleted or erased, for any number of threads and
   requests and whatever the network loses, duplicates and reorders, as long as
   no two threads have packets of one request at the same time (Server.cpp,
   rxThread and main). *)
THEOREM RacesAreTheOnlyDanger == Spec => []MemorySafe
<1>1. Safe => MemorySafe
  BY DEF Safe
<1> QED
  BY <1>1, SafeAlways, PTL

(* Under the same condition no Request is lost, and none is in two places
   (Server.cpp, rxThread and main). *)
THEOREM RequestsInOnePlace == Spec => []OnePlace
<1>1. ASSUME Safe PROVE OnePlace
  <2> SUFFICES ASSUME raced = {}, NEW r \in Requests
               PROVE  Cardinality(Places(r)) = IF r \in freed THEN 0 ELSE 1
    BY DEF OnePlace
  <2>1. Placed /\ None \notin Requests
    BY <1>1 DEF Safe, Owned, Requests, None
  <2>2. CASE r \in freed
    <3>1. Places(r) = {}
      BY <2>1, <2>2 DEF Placed, Kept, InMap, InQueue, InThread, Occurs, Taken, Places
    <3> QED
      BY <2>2, <3>1, FS_EmptySet
  <2>3. CASE r \notin freed
    <3>1. ASSUME InMap(r) PROVE \E x : Places(r) = {x}
      <4>1. PICK key \in Keys : rmap[key] = r
        BY <3>1 DEF InMap
      <4>2. {k \in Keys : rmap[k] = r} = {key}
        BY <2>1, <4>1 DEF Placed, MapOnce
      <4>3. ~InQueue(r) /\ ~InThread(r)
        BY <2>1, <3>1 DEF Placed, Apart
      <4>4. Places(r) = {<<"map", key>>}
        BY <4>2, <4>3 DEF Places, InQueue, InThread, Occurs, Taken
      <4> QED
        BY <4>4
    <3>2. ASSUME InQueue(r) PROVE \E x : Places(r) = {x}
      <4>1. PICK i \in DOMAIN rxQueue : rxQueue[i] = r
        BY <3>2 DEF InQueue, Occurs
      <4>2. {j \in DOMAIN rxQueue : rxQueue[j] = r} = {i}
        BY <2>1, <4>1 DEF Placed, QueueOnce, NoRepeats
      <4>3. ~InMap(r) /\ ~InThread(r)
        BY <2>1, <3>2 DEF Placed, Apart
      <4>4. Places(r) = {<<"queue", i>>}
        BY <4>2, <4>3 DEF Places, InMap, InThread, Taken
      <4> QED
        BY <4>4
    <3>3. ASSUME InThread(r) PROVE \E x : Places(r) = {x}
      <4>1. PICK t \in Threads : pc[t] \in Taken /\ req[t] = r
        BY <3>3 DEF InThread
      <4>2. {u \in Threads : pc[u] \in {"post", "delete"} /\ req[u] = r} = {t}
        BY <2>1, <4>1 DEF Placed, ThreadOnce, Taken
      <4>3. ~InMap(r) /\ ~InQueue(r)
        BY <2>1, <3>3 DEF Placed, Apart
      <4>4. Places(r) = {<<"thread", t>>}
        BY <4>2, <4>3 DEF Places, InMap, InQueue, Occurs
      <4> QED
        BY <4>4
    <3>4. PICK x : Places(r) = {x}
      BY <2>1, <2>3, <3>1, <3>2, <3>3 DEF Placed, Kept
    <3> QED
      BY <2>3, <3>4, FS_Singleton
  <2> QED
    BY <2>2, <2>3
<1> QED
  BY <1>1, SafeAlways, PTL
-----------------------------------------------------------------------------
(* Why requests fail                                                       *)

Parts(m) == Len(Cut[m])

\* d is a packet of a request that was sent, whole, or as recvfrom returns it.
Sent(d) == /\ d.message \in Messages /\ d.index \in 1..Parts(d.message)
           /\ d = Cut[d.message][d.index]
Came(d) == /\ d.message \in Messages /\ d.index \in 1..Parts(d.message)
           /\ d = Received(Cut[d.message][d.index])

\* e is the packet after d: of the same request, or the first of another one
\* with the same key.
Follows(d, e) == \/ e.message = d.message /\ e.index = d.index + 1
                 \/ e.index = 1 /\ d.index = Parts(d.message)

FirstOf(key, i) == /\ i \in DOMAIN net /\ net[i].rid = key
                   /\ \A j \in DOMAIN net : j < i => net[j].rid # key
NoneOf(key) == \A i \in DOMAIN net : net[i].rid # key

\* The packets with the key are on their way in the order of their requests, the
\* last of each request included.
NetOrder(key) ==
  /\ \A i \in DOMAIN net : net[i].rid = key => Sent(net[i])
  /\ \A i, j \in DOMAIN net :
       /\ i < j /\ net[i].rid = key /\ net[j].rid = key
       /\ \A k \in DOMAIN net : i < k /\ k < j => net[k].rid # key
       => Follows(net[i], net[j])
  /\ \A i \in DOMAIN net :
       net[i].rid = key /\ (\A j \in DOMAIN net : i < j => net[j].rid # key)
       => net[i].index = Parts(net[i].message)

\* Nothing has been put into entry r of the map.
Fresh(r) == r = None \/ request[r] = NewReader

\* A reader that has the first i packets of m and waits for the next.
Waiting(x, m, i) ==
  /\ x.started
  /\ x.nextSeq = Cut[m][i + 1].seq
  /\ x.left = Parts(m) - i
  /\ x.size = SizeUpTo(m)[i]

\* Packet i of m is the next for entry r of the map.  If the packets before it
\* have been too long, the request has been given up.
Awaits(r, m, i) ==
  IF i = 1 \/ SizeUpTo(m)[i - 1] > MaxRequestSize THEN Fresh(r)
  ELSE r # None /\ Waiting(request[r], m, i - 1)

\* The first packet with the key on its way is the next for its entry,
Ready(key) ==
  /\ \A i \in DOMAIN net : FirstOf(key, i) => Awaits(rmap[key], net[i].message, net[i].index)
  /\ NoneOf(key) => Fresh(rmap[key])

\* or follows packet d.
Trails(d, key) ==
  /\ \A i \in DOMAIN net : FirstOf(key, i) => Follows(d, net[i])
  /\ NoneOf(key) => d.index = Parts(d.message)

AtRest(key) == (\A t \in Threads : ~Handles(t, key)) => Ready(key)

\* Where a thread has a packet that has not been put yet, and where it has one that
\* others may have, too
Carrying == {"find", "deref", "put"}
Handling == Carrying \cup {"complete", "failed"}

Hand(t, key) ==
  Handles(t, key) =>
    /\ Came(packet[t])
    /\ Trails(packet[t], key)
    /\ pc[t] \in Carrying => Awaits(rmap[key], packet[t].message, packet[t].index)
    /\ pc[t] = "complete" => packet[t].index = Parts(packet[t].message)
    /\ pc[t] = "failed" => SizeUpTo(packet[t].message)[packet[t].index] > MaxRequestSize

InHand(key) == \A t \in Threads : Hand(t, key)

Ordered(key) == NetOrder(key) /\ AtRest(key) /\ InHand(key)

-----------------------------------------------------------------------------
(* Packets and readers                                                     *)

LEMMA NextModulo ==
  ASSUME NEW R \in Nat \ {0}, NEW a \in Nat
  PROVE  ((a % R) + 1) % R = (a + 1) % R
<1> DEFINE q == a \div R
           x == a % R
<1>1. q \in Int /\ x \in 0..(R - 1) /\ a = R * q + x
  OBVIOUS
<1> HIDE DEF q, x
<1>2. CASE x + 1 < R
  <2>1. (x + 1) % R = x + 1
    BY <1>1, <1>2
  <2>2. (a + 1) % R = x + 1
    BY <1>1, <1>2
  <2> QED
    BY <2>1, <2>2 DEF x
<1>3. CASE x + 1 = R
  <2>1. (x + 1) % R = 0
    BY <1>1, <1>3
  <2>2. a + 1 = R * (q + 1)
    BY <1>1, <1>3
  <2>3. (a + 1) % R = 0
    BY <1>1, <2>2
  <2> QED
    BY <2>1, <2>3 DEF x
<1> QED
  BY <1>1, <1>2, <1>3

\* Packet i of m, as send makes it, and as recvfrom returns it but for its payload
Made(m, i, d) ==
  /\ d.message = m /\ d.index = i /\ d.of = Parts(m) /\ d.rid = Rid[m]
  /\ d.seq = (Seq0[m] + i - 1) % SeqRange
  /\ d.packets = IF i = 1 THEN Parts(m) ELSE 0
  /\ d.first <=> i = 1
  /\ d.last <=> i = Parts(m)
  /\ d.last \in BOOLEAN

LEMMA CutMade ==
  ASSUME NEW m \in Messages
  PROVE  /\ Parts(m) \in Nat \ {0} /\ DOMAIN Cut[m] = 1..Parts(m)
         /\ \A i \in 1..Parts(m) : /\ Made(m, i, Cut[m][i]) /\ Made(m, i, Received(Cut[m][i]))
                                   /\ Cut[m][i].payload \in Seq(Int)
                                   /\ Sent(Cut[m][i])
<1> DEFINE payloads == Payloads(RequestWrites(Asked[m]))
           n == Len(payloads)
<1>1. n \in Nat \ {0} /\ payloads \in Seq(Seq(Int))
  BY ReceiveAssumption
<1>2. Cut[m] = Datagrams(m, Rid[m], Seq0[m], RequestWrites(Asked[m]))
  BY DEF Cut
<1>3. /\ DOMAIN Cut[m] = 1..n
      /\ Cut[m] = [i \in 1..n |-> Cut[m][i]]
  BY <1>2 DEF Datagrams
<1>4. Len(Cut[m]) = n
  <2> HIDE DEF n
  <2> QED
    BY <1>1, <1>3
<1>5. ASSUME NEW i \in 1..n
      PROVE  Cut[m][i] = [message |-> m, index |-> i, of |-> n,
                          rid     |-> Rid[m],
                          seq     |-> (Seq0[m] + i - 1) % SeqRange,
                          packets |-> IF i = 1 THEN n ELSE 0,
                          first   |-> i = 1,
                          last    |-> i = n,
                          payload |-> payloads[i]]
  BY <1>2 DEF Datagrams
<1>6. ASSUME NEW i \in 1..n
      PROVE  payloads[i] \in Seq(Int)
  BY <1>1
<1> HIDE DEF n, payloads
<1>7. ASSUME NEW i \in 1..n
      PROVE  /\ Made(m, i, Cut[m][i]) /\ Made(m, i, Received(Cut[m][i]))
             /\ Cut[m][i].payload \in Seq(Int)
  <2>1. PICK d : d = Cut[m][i]
    OBVIOUS
  <2>2. d = [message |-> m, index |-> i, of |-> n,
             rid     |-> Rid[m],
             seq     |-> (Seq0[m] + i - 1) % SeqRange,
             packets |-> IF i = 1 THEN n ELSE 0,
             first   |-> i = 1,
             last    |-> i = n,
             payload |-> payloads[i]]
    BY <1>5, <2>1
  <2>3. (d.first <=> i = 1) /\ (d.last <=> i = n) /\ d.last \in BOOLEAN
    BY <2>2, Zenon
  <2>4. /\ d.message = m /\ d.index = i /\ d.of = n /\ d.rid = Rid[m]
        /\ d.seq = (Seq0[m] + i - 1) % SeqRange
        /\ d.packets = IF i = 1 THEN n ELSE 0
        /\ d.payload = payloads[i]
    BY <2>2
  <2>5. PICK e : e = Received(d)
    OBVIOUS
  <2>6. /\ e.message = d.message /\ e.index = d.index /\ e.of = d.of /\ e.rid = d.rid
        /\ e.seq = d.seq /\ e.packets = d.packets
        /\ e.first = d.first /\ e.last = d.last
    BY <2>2, <2>5 DEF Received
  <2>7. Made(m, i, d)
    BY <1>4, <2>3, <2>4 DEF Made, Parts
  <2>8. Made(m, i, e)
    BY <2>6, <2>7 DEF Made
  <2> QED
    BY <1>6, <2>1, <2>4, <2>5, <2>7, <2>8
<1> QED
  BY <1>1, <1>3, <1>4, <1>7 DEF Parts, Sent, Made

LEMMA SizeFollows ==
  ASSUME NEW m \in Messages
  PROVE  /\ SizeUpTo(m)[0] = 0
         /\ \A i \in 1..Parts(m) :
              /\ Received(Cut[m][i]).payload \in Seq(Int)
              /\ Len(Received(Cut[m][i]).payload) \in Nat
              /\ SizeUpTo(m)[i - 1] \in Nat
              /\ SizeUpTo(m)[i] = SizeUpTo(m)[i - 1] + Len(Received(Cut[m][i]).payload)
<1>1. PICK n \in Nat \ {0} : n = Len(Cut[m])
  BY CutMade DEF Parts
<1> DEFINE len(i) == Len(Received(Cut[m][i]).payload)
           step(i) == [x \in Nat |-> x + len(i)]
           g == [i \in 1..n |-> step(i)]
           Shown(f) == f = [i \in 0..n |-> IF i = 0 THEN 0 ELSE f[i - 1] + len(i)]
<1>2. ASSUME NEW i \in 1..n
      PROVE  len(i) \in Nat /\ Received(Cut[m][i]).payload \in Seq(Int)
  <2>1. PICK d : d = Cut[m][i]
    OBVIOUS
  <2>2. d.payload \in Seq(Int) /\ d = Cut[m][i]
    BY <1>1, <2>1, CutMade DEF Parts
  <2>3. "payload" \in DOMAIN d
    BY <1>1, <2>1 DEF Cut, Datagrams
  <2>4. Received(d).payload \in Seq(Int)
    BY <2>2, <2>3, PacketsAssumption DEF Received
  <2> QED
    BY <2>1, <2>4
<1> HIDE DEF len
<1>3. g \in [1..n -> [Nat -> Nat]]
  BY <1>2
<1> HIDE DEF g
<1>4. PICK f \in [0..n -> Nat] : f[0] = 0 /\ \A i \in 1..n : f[i] = g[i][f[i - 1]]
  <2>1. \E f : Iterates(Nat, 0, n, g, f)
    BY <1>3, Recursion
  <2> QED
    BY <2>1 DEF Iterates
<1>5. ASSUME NEW i \in 1..n
      PROVE  f[i - 1] \in Nat /\ f[i] = f[i - 1] + len(i)
  <2>1. i - 1 \in 0..n
    OBVIOUS
  <2>2. f[i - 1] \in Nat
    BY <2>1
  <2> QED
    BY <1>4, <2>2 DEF g
<1>6. Shown(f)
  <2>1. ASSUME NEW i \in 0..n PROVE f[i] = IF i = 0 THEN 0 ELSE f[i - 1] + len(i)
    <3>1. i # 0 => i \in 1..n
      OBVIOUS
    <3> QED
      BY <1>4, <1>5, <3>1
  <2> QED
    BY <2>1
<1>7. SizeUpTo(m) = CHOOSE e : Shown(e)
  BY <1>1 DEF SizeUpTo, len
<1>8. PICK e : e = SizeUpTo(m)
  OBVIOUS
<1>9. Shown(e)
  <2> HIDE DEF Shown
  <2> QED
    BY <1>6, <1>7, <1>8
<1>10. e = [i \in 0..n |-> IF i = 0 THEN 0 ELSE e[i - 1] + len(i)]
  BY <1>9
<1>11. e = f
  <2> DEFINE Bad == {i \in 0..n : e[i] # f[i]}
  <2>1. Bad = {}
    <3> SUFFICES ASSUME Bad # {} PROVE FALSE
      OBVIOUS
    <3>1. Bad \in SUBSET Nat
      OBVIOUS
    <3>2. PICK k \in Bad : \A j \in Bad : k <= j
      BY <3>1, LeastMember
    <3>3. k \in 0..n /\ e[k] # f[k]
      OBVIOUS
    <3>4. k \in 1..n
      BY <1>4, <1>10, <3>3
    <3>5. k - 1 \in 0..n /\ ~(k <= k - 1)
      BY <3>4
    <3>6. e[k - 1] = f[k - 1]
      BY <3>2, <3>5
    <3> QED
      BY <1>5, <1>10, <3>3, <3>4, <3>6
  <2>2. \A i \in 0..n : e[i] = f[i]
    BY <2>1
  <2>3. e = [i \in 0..n |-> e[i]]
    <3> DEFINE body(i) == IF i = 0 THEN 0 ELSE e[i - 1] + len(i)
    <3> HIDE DEF body
    <3>1. e = [i \in 0..n |-> body(i)]
      BY <1>10 DEF body
    <3> QED
      BY <3>1
  <2>4. f = [i \in 0..n |-> f[i]]
    OBVIOUS
  <2> QED
    BY <2>2, <2>3, <2>4
<1> QED
  BY <1>1, <1>2, <1>4, <1>5, <1>8, <1>11 DEF Parts, len

LEMMA NextSequence ==
  ASSUME NEW m \in Messages, NEW i \in 1..Parts(m), i + 1 \in 1..Parts(m),
         NEW d, d = Received(Cut[m][i])
  PROVE  (d.seq + 1) % SeqRange = Cut[m][i + 1].seq
<1>1. Cut[m][i + 1].seq = (Seq0[m] + (i + 1) - 1) % SeqRange
  BY CutMade DEF Made
<1>2. d.seq = (Seq0[m] + i - 1) % SeqRange /\ i \in Nat \ {0}
  BY CutMade DEF Made
<1>3. Seq0[m] \in Nat /\ SeqRange \in Nat \ {0}
  BY ReceiveAssumption, PacketsAssumption
<1>4. PICK a \in Nat : a = Seq0[m] + i - 1
  BY <1>2, <1>3
<1>5. ((a % SeqRange) + 1) % SeqRange = (a + 1) % SeqRange
  BY <1>3, NextModulo
<1>6. a + 1 = Seq0[m] + (i + 1) - 1
  BY <1>2, <1>3, <1>4
<1> QED
  BY <1>1, <1>2, <1>4, <1>5, <1>6

(* What put makes of the next packet of a request: the request is given up only
   if it is too long, and complete with its last packet. *)
PutWell(m, i, p) ==
  /\ p.result \in {"NEXTPACKET", "COMPLETE", "FAILED"}
  /\ p.result = "FAILED" => SizeUpTo(m)[i] > MaxRequestSize
  /\ p.result = "COMPLETE" => i = Parts(m)
  /\ p.result = "NEXTPACKET" => /\ i + 1 \in 1..Parts(m)
                                /\ ~(SizeUpTo(m)[i] > MaxRequestSize)
                                /\ Waiting(p.reader, m, i)

LEMMA PutFollows ==
  ASSUME NEW m \in Messages, NEW i \in 1..Parts(m),
         NEW d, d = Received(Cut[m][i]), NEW x,
         IF i = 1 \/ SizeUpTo(m)[i - 1] > MaxRequestSize THEN x = NewReader
         ELSE Waiting(x, m, i - 1)
  PROVE  PutWell(m, i, Put(x, d))
<1>1. /\ Parts(m) \in Nat \ {0} /\ i \in Nat \ {0} /\ i <= Parts(m)
      /\ Made(m, i, d) /\ Made(m, i, Cut[m][i])
  BY CutMade
<1>2. /\ SizeUpTo(m)[0] = 0 /\ SizeUpTo(m)[i - 1] \in Nat /\ Len(d.payload) \in Nat
      /\ SizeUpTo(m)[i] = SizeUpTo(m)[i - 1] + Len(d.payload)
  BY SizeFollows
<1>3. MaxRequestSize \in Nat
  BY PacketsAssumption
<1> DEFINE y == Restart(x, d)
           next == Linked(y, d)
           p == Put(x, d)
<1>4. CASE i # 1 /\ SizeUpTo(m)[i - 1] > MaxRequestSize
  <2>1. ~d.first /\ x = NewReader
    BY <1>1, <1>4 DEF Made
  <2>2. y = x /\ ~x.started
    BY <2>1 DEF Restart, NewReader
  <2>3. p.result = "FAILED"
    BY <2>1, <2>2 DEF Put
  <2>4. SizeUpTo(m)[i] > MaxRequestSize
    BY <1>2, <1>3, <1>4
  <2> QED
    BY <2>3, <2>4 DEF PutWell
<1>5. CASE i = 1 \/ ~(SizeUpTo(m)[i - 1] > MaxRequestSize)
  <2>1. /\ y = x
        /\ ~(~y.started /\ ~d.first)
        /\ ~(y.started /\ ~InSequence(y, d))
    <3>1. CASE i = 1
      BY <1>1, <3>1 DEF Restart, NewReader, Made
    <3>2. CASE i # 1
      <4>1. x.started /\ x.nextSeq = d.seq /\ ~d.first
        BY <1>1, <1>5, <3>2 DEF Waiting, Made
      <4> QED
        BY <4>1 DEF Restart, InSequence
    <3> QED
      BY <3>1, <3>2
  <2>2. next.size = SizeUpTo(m)[i]
    <3>1. x.size = SizeUpTo(m)[i - 1]
      <4>1. CASE i = 1
        BY <1>2, <4>1 DEF NewReader
      <4>2. CASE i # 1
        BY <1>5, <4>2 DEF Waiting
      <4> QED
        BY <4>1, <4>2
    <3> QED
      BY <1>2, <2>1, <3>1 DEF Linked
  <2>3. next.left = Parts(m) - i
    <3>1. CASE i = 1
      BY <1>1, <2>1, <3>1 DEF NewReader, Linked, Made
    <3>2. CASE i # 1
      <4>1. x.started /\ x.left = Parts(m) - (i - 1)
        BY <1>5, <3>2 DEF Waiting
      <4> QED
        BY <1>1, <2>1, <4>1 DEF Linked
    <3> QED
      BY <3>1, <3>2
  <2>4. d.last <=> next.left = 0
    BY <1>1, <2>3 DEF Made
  <2>5. next.started /\ next.nextSeq = (d.seq + 1) % SeqRange
    BY DEF Linked
  <2>6. p = IF next.size > MaxRequestSize
            THEN [reader |-> next, result |-> "FAILED"]
            ELSE [reader |-> next, result |-> IF d.last THEN "COMPLETE" ELSE "NEXTPACKET"]
    <3>1. p = IF next.size > MaxRequestSize \/ (d.last # (next.left = 0))
              THEN [reader |-> next, result |-> "FAILED"]
              ELSE [reader |-> next, result |-> IF d.last THEN "COMPLETE" ELSE "NEXTPACKET"]
      BY <2>1, Zenon DEF Put
    <3>2. d.last \in BOOLEAN
      BY <1>1 DEF Made
    <3>3. ~(d.last # (next.left = 0))
      BY <2>4, <3>2, Zenon
    <3> QED
      BY <3>1, <3>3, Zenon
  <2> HIDE DEF next, y, p
  <2>7. ASSUME next.size > MaxRequestSize
        PROVE  PutWell(m, i, p)
    BY <2>2, <2>6, <2>7 DEF PutWell
  <2>8. ASSUME ~(next.size > MaxRequestSize), d.last
        PROVE  PutWell(m, i, p)
    <3>1. p.result = "COMPLETE"
      BY <2>4, <2>6, <2>8
    <3> QED
      BY <1>1, <2>8, <3>1 DEF PutWell, Made
  <2>9. ASSUME ~(next.size > MaxRequestSize), ~d.last
        PROVE  PutWell(m, i, p)
    <3>1. p.result = "NEXTPACKET" /\ p.reader = next
      BY <2>4, <2>6, <2>9
    <3>2. i + 1 \in 1..Parts(m)
      BY <1>1, <2>9 DEF Made
    <3>3. (d.seq + 1) % SeqRange = Cut[m][i + 1].seq
      BY <3>2, NextSequence
    <3>4. Waiting(p.reader, m, i)
      BY <2>2, <2>3, <2>5, <3>1, <3>3 DEF Waiting
    <3> QED
      BY <2>2, <2>9, <3>1, <3>2, <3>4 DEF PutWell
  <2> QED
    BY <2>7, <2>8, <2>9 DEF p
<1> QED
  BY <1>4, <1>5

-----------------------------------------------------------------------------
(* Keys do not disturb each other                                          *)

\* Only one thread at a time has packets with the key, so the entry it has found
\* stays.
Mine(key) ==
  /\ \A t, u \in Threads : Handles(t, key) /\ Handles(u, key) => t = u
  /\ \A t \in Threads : Handles(t, key) =>
       /\ pc[t] \in Looking => iter[t] = rmap[key]
       /\ pc[t] \in {"put", "complete", "failed"} => req[t] = iter[t]

\* Request r is the entry of the key, or a thread has found it there.
Seen(key, r) ==
  \/ rmap[key] = r
  \/ \E t \in Threads : /\ Handles(t, key)
                        /\ \/ pc[t] \in Looking /\ iter[t] = r
                           \/ pc[t] \in {"put", "complete", "failed"} /\ req[t] = r

\* No Request is seen with two keys.
Separate == \A k, l \in Keys : \A r \in Requests : Seen(k, r) /\ Seen(l, r) => k = l

\* The entry of a key is as it was, and so is what has been put into it.
SameEntry(key) ==
  rmap'[key] = rmap[key] /\ (rmap[key] # None => request'[rmap[key]] = request[rmap[key]])

\* A step of thread t with the packet it has
Own(t) ==
  /\ net' = net
  /\ \A u \in Threads \ {t} : /\ pc'[u] = pc[u] /\ packet'[u] = packet[u]
                              /\ iter'[u] = iter[u] /\ req'[u] = req[u]
  /\ \A key : Handles(t, key)' => Handles(t, key) /\ packet'[t] = packet[t]
  /\ \A key \in Keys : ~Handles(t, key) => rmap'[key] = rmap[key]
  /\ \A r \in Requests : (pc[t] = "put" /\ req[t] = r) \/ request'[r] = request[r]

LEMMA OwnIs ==
  ASSUME Types, NEW t \in Threads,
         \/ Find(t) \/ Deref(t) \/ PutPacket(t) \/ EraseComplete(t) \/ EraseFailed(t)
         \/ PostRequest(t) \/ DeleteRequest(t)
  PROVE  Own(t)
<1>1. /\ ThreadTypes /\ rmap \in [Keys -> Requests \cup {None}]
      /\ \E S : request \in Seq(S)
  BY DEF Types, StoreTypes
<1>2. CASE Find(t)
  <2>1. /\ net' = net /\ packet' = packet /\ pc[t] = "find"
        /\ \E to \in Carrying : pc' = [pc EXCEPT ![t] = to]
        /\ \E i : iter' = [iter EXCEPT ![t] = i]
        /\ req' = req \/ \E q : req' = [req EXCEPT ![t] = q]
        /\ rmap' = rmap \/ \E q : rmap' = [rmap EXCEPT ![Key(t)] = q]
        /\ request' = request \/ request' = Append(request, NewReader)
    BY <1>2 DEF Find, netVars, Carrying
  <2>2. \A r \in Requests : request'[r] = request[r]
    BY <1>1, <2>1 DEF Requests
  <2>3. \A u \in Threads \ {t} : /\ pc'[u] = pc[u] /\ packet'[u] = packet[u]
                                 /\ iter'[u] = iter[u] /\ req'[u] = req[u]
    BY <1>1, <2>1 DEF ThreadTypes
  <2>4. \A key \in Keys : ~Handles(t, key) => rmap'[key] = rmap[key]
    BY <1>1, <2>1 DEF Handles
  <2>5. \A key : Handles(t, key)' => Handles(t, key)
    BY <2>1 DEF Handles, Key
  <2> QED
    BY <2>1, <2>2, <2>3, <2>4, <2>5 DEF Own
<1>3. CASE Deref(t)
  <2>1. /\ UNCHANGED <<net, packet, iter, rmap, request>> /\ pc[t] = "deref"
        /\ pc' = [pc EXCEPT ![t] = "put"] /\ req' = [req EXCEPT ![t] = iter[t]]
    BY <1>3 DEF Deref, netVars
  <2>2. \A key : Handles(t, key)' => Handles(t, key)
    BY <2>1 DEF Handles, Key
  <2> QED
    BY <1>1, <2>1, <2>2 DEF Own, ThreadTypes
<1>4. CASE PutPacket(t)
  <2> DEFINE q == Put(request[req[t]], packet[t])
  <2>1. /\ UNCHANGED <<net, rmap>> /\ pc[t] = "put"
        /\ request' = [request EXCEPT ![req[t]] = q.reader]
        /\ \/ Loop(t)
           \/ /\ \E to \in Handling : pc' = [pc EXCEPT ![t] = to]
              /\ UNCHANGED <<packet, iter, req>>
    BY <1>4 DEF PutPacket, netVars, Handling
  <2> HIDE DEF q
  <2>2. \A r \in Requests : req[t] = r \/ request'[r] = request[r]
    BY <1>1, <2>1 DEF Requests
  <2>3. \A u \in Threads \ {t} : /\ pc'[u] = pc[u] /\ packet'[u] = packet[u]
                                 /\ iter'[u] = iter[u] /\ req'[u] = req[u]
    BY <1>1, <2>1 DEF ThreadTypes, Loop
  <2>4. \A key : Handles(t, key)' => Handles(t, key) /\ packet'[t] = packet[t]
    BY <1>1, <2>1 DEF Handles, Key, Loop, ThreadTypes
  <2> QED
    BY <2>1, <2>2, <2>3, <2>4 DEF Own
<1>5. CASE EraseComplete(t) \/ EraseFailed(t)
  <2>1. /\ UNCHANGED <<net, packet, iter, req, request>> /\ pc[t] \in {"complete", "failed"}
        /\ rmap' = [rmap EXCEPT ![Key(t)] = None]
        /\ \E to \in Taken : pc' = [pc EXCEPT ![t] = to]
    BY <1>5 DEF EraseComplete, EraseFailed, Erase, Taken, netVars
  <2>2. \A key : ~Handles(t, key)'
    BY <1>1, <2>1 DEF Handles, Taken, ThreadTypes
  <2>3. \A key \in Keys : ~Handles(t, key) => rmap'[key] = rmap[key]
    BY <1>1, <2>1 DEF Handles
  <2>4. \A u \in Threads \ {t} : pc'[u] = pc[u]
    BY <1>1, <2>1 DEF ThreadTypes
  <2> QED
    BY <2>1, <2>2, <2>3, <2>4 DEF Own
<1>6. CASE PostRequest(t) \/ DeleteRequest(t)
  <2>1. UNCHANGED <<net, rmap, request>> /\ Loop(t)
    BY <1>6 DEF PostRequest, DeleteRequest, netVars
  <2>2. \A u \in Threads \ {t} : /\ pc'[u] = pc[u] /\ packet'[u] = packet[u]
                                 /\ iter'[u] = iter[u] /\ req'[u] = req[u]
    BY <1>1, <2>1 DEF ThreadTypes, Loop
  <2>3. \A key : ~Handles(t, key)'
    BY <1>1, <2>1 DEF Handles, Loop, ThreadTypes
  <2> QED
    BY <2>1, <2>2, <2>3 DEF Own
<1> QED
  BY <1>2, <1>3, <1>4, <1>5, <1>6

\* Nothing is seen that has not been, but for a new Request with the key.
SeenBefore(key) ==
  \A k \in Keys, r \in Requests' :
    Seen(k, r)' => IF r \in Requests THEN Seen(k, r) ELSE k = key

(* What thread t sees after its step is seen before, or new. *)
LEMMA SeenByOne ==
  ASSUME NEW t \in Threads, Own(t), NEW key,
         \A k \in Keys, r \in Requests' :
           rmap'[k] = r => IF r \in Requests THEN Seen(k, r) ELSE k = key,
         \A k \in Keys, r \in Requests' :
           /\ Handles(t, k)'
           /\ \/ pc'[t] \in Looking /\ iter'[t] = r
              \/ pc'[t] \in {"put", "complete", "failed"} /\ req'[t] = r
           => IF r \in Requests THEN Seen(k, r) ELSE k = key,
         ThreadTypes
  PROVE  SeenBefore(key)
<1> SUFFICES ASSUME NEW k \in Keys, NEW r \in Requests', Seen(k, r)'
             PROVE  IF r \in Requests THEN Seen(k, r) ELSE k = key
  BY DEF SeenBefore
<1>1. CASE rmap'[k] = r
  BY <1>1
<1>2. ASSUME NEW u \in Threads, Handles(u, k)',
             \/ pc'[u] \in Looking /\ iter'[u] = r
             \/ pc'[u] \in {"put", "complete", "failed"} /\ req'[u] = r
      PROVE  IF r \in Requests THEN Seen(k, r) ELSE k = key
  <2>1. CASE u = t
    BY <1>2, <2>1
  <2>2. CASE u # t
    <3>1. pc'[u] = pc[u] /\ packet'[u] = packet[u] /\ iter'[u] = iter[u] /\ req'[u] = req[u]
      BY <2>2 DEF Own
    <3>2. /\ Handles(u, k)
          /\ \/ pc[u] \in Looking /\ iter[u] = r
             \/ pc[u] \in {"put", "complete", "failed"} /\ req[u] = r
      BY <1>2, <3>1 DEF Handles, Key
    <3>3. Seen(k, r)
      BY <3>2 DEF Seen
    <3>4. r \in Requests
      BY <3>2 DEF ThreadTypes, Having
    <3> QED
      BY <3>3, <3>4
  <2> QED
    BY <2>1, <2>2
<1> QED
  BY <1>1, <1>2 DEF Seen

LEMMA SeenStep ==
  ASSUME Types, [Next]_vars
  PROVE  \E key : SeenBefore(key)
<1>1. /\ ThreadTypes /\ StoreTypes /\ Len(request) \in Nat /\ None \notin Requests
      /\ rmap \in [Keys -> Requests \cup {None}]
  BY DEF Types, StoreTypes, Requests, None
<1>2. CASE UNCHANGED <<rmap, request, threadVars>>
  BY <1>2 DEF SeenBefore, Seen, Handles, Key, Requests, threadVars
<1>3. ASSUME NEW t \in Threads, NEW i \in DOMAIN net, Recv(t, i)
      PROVE  \E key : SeenBefore(key)
  <2>1. /\ UNCHANGED <<rmap, request, iter, req>> /\ Requests' = Requests
        /\ pc'[t] = "find"
        /\ \A u \in Threads \ {t} : pc'[u] = pc[u] /\ packet'[u] = packet[u]
    BY <1>1, <1>3 DEF Recv, ThreadTypes, Requests
  <2>2. \A k \in Keys, r \in Requests : Seen(k, r)' => Seen(k, r)
    <3> SUFFICES ASSUME NEW k \in Keys, NEW r \in Requests, Seen(k, r)'
                 PROVE  Seen(k, r)
      OBVIOUS
    <3>1. CASE rmap[k] = r
      BY <3>1 DEF Seen
    <3>2. CASE rmap[k] # r
      <4>1. PICK u \in Threads : /\ Handles(u, k)'
                                 /\ \/ pc'[u] \in Looking /\ iter'[u] = r
                                    \/ pc'[u] \in {"put", "complete", "failed"} /\ req'[u] = r
        BY <2>1, <3>2 DEF Seen
      <4>2. u # t
        BY <2>1, <4>1 DEF Looking
      <4>3. /\ Handles(u, k)
            /\ \/ pc[u] \in Looking /\ iter[u] = r
               \/ pc[u] \in {"put", "complete", "failed"} /\ req[u] = r
        BY <2>1, <4>1, <4>2 DEF Handles, Key
      <4> QED
        BY <4>3 DEF Seen
    <3> QED
      BY <3>1, <3>2
  <2> QED
    BY <2>1, <2>2 DEF SeenBefore
<1>4. ASSUME NEW t \in Threads, Find(t), rmap[Key(t)] = None
      PROVE  SeenBefore(Key(t))
  <2>1. /\ Own(t) /\ Key(t) \in Keys /\ pc[t] = "find"
        /\ request' = Append(request, NewReader)
        /\ rmap' = [rmap EXCEPT ![Key(t)] = Len(request')]
        /\ iter' = [iter EXCEPT ![t] = Len(request')]
        /\ req' = [req EXCEPT ![t] = Len(request')]
        /\ packet' = packet
    BY <1>1, <1>4, OwnIs DEF Find, ThreadTypes
  <2>2. Len(request') \notin Requests
    <3>1. PICK S : request \in Seq(S)
      BY <1>1 DEF StoreTypes
    <3>2. Len(request') = Len(request) + 1
      BY <2>1, <3>1
    <3> QED
      BY <1>1, <3>2 DEF Requests
  <2>3. ASSUME NEW k \in Keys, NEW r \in Requests', rmap'[k] = r
        PROVE  IF r \in Requests THEN Seen(k, r) ELSE k = Key(t)
    <3>1. k # Key(t) => rmap[k] = r /\ r # None
      BY <1>1, <2>1, <2>3 DEF Requests, None
    <3>2. k = Key(t) => r = Len(request')
      BY <1>1, <2>1, <2>3
    <3> QED
      BY <1>1, <2>2, <3>1, <3>2 DEF Seen
  <2>4. ASSUME NEW k \in Keys, NEW r \in Requests', Handles(t, k)',
               iter'[t] = r \/ req'[t] = r
        PROVE  IF r \in Requests THEN Seen(k, r) ELSE k = Key(t)
    <3>1. k = Key(t) /\ r = Len(request')
      BY <1>1, <2>1, <2>4 DEF Handles, Key, ThreadTypes
    <3> QED
      BY <2>2, <3>1
  <2> QED
    BY <1>1, <2>1, <2>3, <2>4, SeenByOne
<1>5. ASSUME NEW t \in Threads, Own(t), Requests' = Requests,
             \A k \in Keys : rmap'[k] \in {rmap[k], None},
             \A k \in Keys, r \in Requests :
               /\ Handles(t, k)'
               /\ \/ pc'[t] \in Looking /\ iter'[t] = r
                  \/ pc'[t] \in {"put", "complete", "failed"} /\ req'[t] = r
               => Seen(k, r)
      PROVE  SeenBefore(Key(t))
  <2>1. \A k \in Keys, r \in Requests : rmap'[k] = r => Seen(k, r)
    BY <1>1, <1>5 DEF Seen
  <2> QED
    BY <1>1, <1>5, <2>1, SeenByOne
<1>6. ASSUME NEW t \in Threads, Find(t), rmap[Key(t)] # None
      PROVE  SeenBefore(Key(t))
  <2>1. /\ Own(t) /\ UNCHANGED <<rmap, packet, req>> /\ Requests' = Requests
        /\ iter' = [iter EXCEPT ![t] = rmap[Key(t)]]
        /\ pc' = [pc EXCEPT ![t] = "deref"]
    BY <1>1, <1>6, OwnIs DEF Find, Requests
  <2>2. /\ pc'[t] = "deref" /\ iter'[t] = rmap[Key(t)] /\ \A k : Handles(t, k)' => k = Key(t)
    BY <1>1, <2>1 DEF ThreadTypes, Handles, Key
  <2>3. \A k \in Keys, r \in Requests :
               /\ Handles(t, k)'
               /\ \/ pc'[t] \in Looking /\ iter'[t] = r
                  \/ pc'[t] \in {"put", "complete", "failed"} /\ req'[t] = r
               => Seen(k, r)
    BY <2>2 DEF Seen
  <2> QED
    BY <1>5, <2>1, <2>3
<1>7. ASSUME NEW t \in Threads, Deref(t)
      PROVE  SeenBefore(Key(t))
  <2>1. /\ Own(t) /\ UNCHANGED <<rmap, packet, iter>> /\ Requests' = Requests
        /\ req' = [req EXCEPT ![t] = iter[t]] /\ pc[t] = "deref"
    BY <1>1, <1>7, OwnIs DEF Deref, Requests
  <2>2. /\ req'[t] = iter[t] /\ iter'[t] = iter[t] /\ pc[t] \in Looking
        /\ \A k : Handles(t, k)' => Handles(t, k)
    BY <1>1, <2>1 DEF ThreadTypes, Own, Looking
  <2>3. \A k \in Keys, r \in Requests :
               /\ Handles(t, k)'
               /\ \/ pc'[t] \in Looking /\ iter'[t] = r
                  \/ pc'[t] \in {"put", "complete", "failed"} /\ req'[t] = r
               => Seen(k, r)
    BY <2>2 DEF Seen
  <2> QED
    BY <1>5, <2>1, <2>3
<1>8. ASSUME NEW t \in Threads, PutPacket(t)
      PROVE  SeenBefore(Key(t))
  <2> DEFINE q == Put(request[req[t]], packet[t])
  <2>1. /\ Own(t) /\ rmap' = rmap /\ pc[t] = "put"
        /\ request' = [request EXCEPT ![req[t]] = q.reader]
        /\ Loop(t) \/ UNCHANGED <<iter, req>>
    BY <1>1, <1>8, OwnIs DEF PutPacket
  <2> HIDE DEF q
  <2>2. Requests' = Requests
    <3>1. PICK S : request \in Seq(S)
      BY <1>1 DEF StoreTypes
    <3>2. Len(request') = Len(request)
      BY <2>1, <3>1, ExceptIsSeq, Zenon
    <3> QED
      BY <3>2 DEF Requests
  <2>3. CASE Loop(t)
    <3>1. \A k : ~Handles(t, k)'
      BY <1>1, <2>3 DEF Loop, Handles, ThreadTypes
    <3> QED
      BY <1>5, <2>1, <2>2, <3>1
  <2>4. CASE UNCHANGED <<iter, req>>
    <3>1. \A k : Handles(t, k)' => Handles(t, k)
      BY <2>1 DEF Own
    <3>2. pc[t] \in Looking /\ pc[t] \in {"put", "complete", "failed"}
      BY <2>1 DEF Looking
    <3>3. \A k \in Keys, r \in Requests :
               /\ Handles(t, k)'
               /\ \/ pc'[t] \in Looking /\ iter'[t] = r
                  \/ pc'[t] \in {"put", "complete", "failed"} /\ req'[t] = r
               => Seen(k, r)
      BY <2>4, <3>1, <3>2 DEF Seen
    <3> QED
      BY <1>5, <2>1, <2>2, <3>3
  <2> QED
    BY <2>1, <2>3, <2>4
<1>9. ASSUME NEW t \in Threads,
             \/ EraseComplete(t) \/ EraseFailed(t) \/ PostRequest(t) \/ DeleteRequest(t)
      PROVE  SeenBefore(Key(t))
  <2>1. /\ Own(t) /\ Requests' = Requests
        /\ rmap' = rmap \/ rmap' = [rmap EXCEPT ![Key(t)] = None]
        /\ \E to \in {"post", "delete", "recv"} : pc' = [pc EXCEPT ![t] = to]
    BY <1>1, <1>9, OwnIs DEF EraseComplete, EraseFailed, Erase, PostRequest, DeleteRequest,
                             Loop, Requests
  <2>2. \A k : ~Handles(t, k)'
    BY <1>1, <2>1 DEF Handles, ThreadTypes
  <2>3. \A k \in Keys : rmap'[k] \in {rmap[k], None}
    BY <1>1, <2>1
  <2> QED
    BY <1>5, <2>1, <2>2, <2>3
<1>10. CASE UNCHANGED vars \/ Serve \/ (\E m \in Messages : Send(m))
              \/ (\E i \in DOMAIN net : Lose(i) \/ Duplicate(i))
  <2>1. UNCHANGED <<rmap, request, threadVars>>
    BY <1>10 DEF vars, threadVars, Serve, Send, Lose, Duplicate
  <2> QED
    BY <1>2, <2>1
<1> QED
  BY <1>3, <1>4, <1>6, <1>7, <1>8, <1>9, <1>10 DEF Next, Step

LEMMA SeparateStep ==
  ASSUME Types, Separate, [Next]_vars
  PROVE  Separate'
<1>1. PICK key : SeenBefore(key)
  BY SeenStep
<1>2. ASSUME NEW k \in Keys, NEW l \in Keys, NEW r \in Requests', Seen(k, r)', Seen(l, r)'
      PROVE  k = l
  <2>1. CASE r \in Requests
    BY <1>1, <1>2, <2>1 DEF SeenBefore, Separate
  <2>2. CASE r \notin Requests
    BY <1>1, <1>2, <2>2 DEF SeenBefore
  <2> QED
    BY <2>1, <2>2
<1> QED
  BY <1>2 DEF Separate

(* As long as no two threads have packets with the key at once, this stays so. *)
LEMMA MineStep ==
  ASSUME Types, NEW key \in Keys, Mine(key), [Next]_vars, key \notin raced'
  PROVE  Mine(key)'
<1>1. ThreadTypes /\ rmap \in [Keys -> Requests \cup {None}]
  BY DEF Types, StoreTypes
<1>2. ASSUME UNCHANGED <<rmap, threadVars>>
      PROVE  Mine(key)'
  BY <1>2 DEF Mine, Handles, Key, threadVars
<1>3. CASE UNCHANGED vars \/ Serve \/ (\E m \in Messages : Send(m))
             \/ (\E i \in DOMAIN net : Lose(i) \/ Duplicate(i))
  <2>1. UNCHANGED <<rmap, threadVars>>
    BY <1>3 DEF vars, threadVars, Serve, Send, Lose, Duplicate
  <2> QED
    BY <1>2, <2>1
<1>4. ASSUME NEW t \in Threads, NEW i \in DOMAIN net, Recv(t, i)
      PROVE  Mine(key)'
  <2>1. /\ UNCHANGED <<rmap, iter, req>> /\ pc'[t] = "find"
        /\ \A u \in Threads \ {t} : pc'[u] = pc[u] /\ packet'[u] = packet[u]
    BY <1>1, <1>4 DEF Recv, ThreadTypes
  <2>2. \A u \in Threads \ {t} : Handles(u, key)' <=> Handles(u, key)
    BY <2>1 DEF Handles, Key
  <2>3. CASE Handles(t, key)'
    <3>1. net[i].rid = key
      <4>1. Received(net[i]).rid = net[i].rid
        BY ReceivedKeyed DEF Types, NetTypes
      <4>2. packet'[t] = Received(net[i])
        BY <1>1, <1>4 DEF Recv, ThreadTypes
      <4> QED
        BY <2>3, <4>1, <4>2 DEF Handles, Key
    <3>2. \A u \in Threads : ~Handles(u, key)
      BY <1>4, <3>1 DEF Recv, Handles
    <3> QED
      BY <2>1, <2>2, <3>2 DEF Mine, Looking
  <2>4. CASE ~Handles(t, key)'
    BY <2>1, <2>2, <2>4 DEF Mine
  <2> QED
    BY <2>3, <2>4
<1>5. ASSUME NEW t \in Threads, Own(t), Handles(t, key),
             Handles(t, key)' =>
               /\ pc'[t] \in Looking => iter'[t] = rmap'[key]
               /\ pc'[t] \in {"put", "complete", "failed"} => req'[t] = iter'[t]
      PROVE  Mine(key)'
  <2>1. \A u \in Threads \ {t} : ~Handles(u, key)'
    BY <1>5 DEF Mine, Own, Handles, Key
  <2> QED
    BY <1>5, <2>1 DEF Mine
<1>6. ASSUME NEW t \in Threads, Own(t), ~Handles(t, key)
      PROVE  Mine(key)'
  <2>1. ~Handles(t, key)' /\ rmap'[key] = rmap[key]
    BY <1>6 DEF Own
  <2>2. \A u \in Threads \ {t} : Handles(u, key)' <=> Handles(u, key)
    BY <1>6 DEF Own, Handles, Key
  <2> QED
    BY <1>6, <2>1, <2>2 DEF Mine, Own
<1>7. ASSUME NEW t \in Threads,
             \/ Find(t) \/ Deref(t) \/ PutPacket(t) \/ EraseComplete(t) \/ EraseFailed(t)
             \/ PostRequest(t) \/ DeleteRequest(t)
      PROVE  Mine(key)'
  <2>1. Own(t)
    BY <1>7, OwnIs
  <2>2. ASSUME Handles(t, key), Handles(t, key)'
        PROVE  /\ pc'[t] \in Looking => iter'[t] = rmap'[key]
               /\ pc'[t] \in {"put", "complete", "failed"} => req'[t] = iter'[t]
    <3>0. Key(t) = key
      BY <2>2 DEF Handles
    <3>1. CASE Find(t)
      BY <1>1, <3>0, <3>1 DEF Find, ThreadTypes
    <3>2. CASE Deref(t)
      BY <1>1, <2>2, <3>2 DEF Deref, ThreadTypes, Mine, Looking
    <3>3. CASE PutPacket(t)
      <4>1. ~Loop(t)
        BY <1>1, <2>2 DEF Loop, Handles, ThreadTypes
      <4>2. UNCHANGED <<rmap, iter, req>> /\ pc[t] = "put"
        BY <3>3, <4>1 DEF PutPacket
      <4> QED
        BY <2>2, <4>2 DEF Mine, Looking
    <3>4. CASE EraseComplete(t) \/ EraseFailed(t) \/ PostRequest(t) \/ DeleteRequest(t)
      BY <1>1, <2>2, <3>4 DEF EraseComplete, EraseFailed, PostRequest, DeleteRequest, Loop,
                              Handles, ThreadTypes
    <3> QED
      BY <1>7, <3>1, <3>2, <3>3, <3>4
  <2> QED
    BY <1>5, <1>6, <2>1, <2>2
<1> QED
  BY <1>3, <1>4, <1>7 DEF Next, Step

(* A step of a thread that has no packet with the key leaves its entry alone. *)
LEMMA OwnSameEntry ==
  ASSUME Types, Separate, NEW t \in Threads, Own(t), NEW key \in Keys, ~Handles(t, key)
  PROVE  SameEntry(key)
<1>1. /\ ThreadTypes /\ rmap[key] \in Requests \cup {None}
  BY DEF Types, StoreTypes
<1>2. rmap'[key] = rmap[key]
  BY DEF Own
<1>3. ASSUME rmap[key] # None, pc[t] = "put", req[t] = rmap[key]
      PROVE  FALSE
  <2>1. Key(t) \in Keys /\ Handles(t, Key(t)) /\ rmap[key] \in Requests
    BY <1>1, <1>3 DEF ThreadTypes, Handles
  <2>2. Seen(Key(t), rmap[key]) /\ Seen(key, rmap[key])
    BY <1>3, <2>1 DEF Seen
  <2>3. Key(t) = key
    BY <2>1, <2>2 DEF Separate
  <2> QED
    BY <2>1, <2>3
<1>4. rmap[key] # None => request'[rmap[key]] = request[rmap[key]]
  BY <1>1, <1>3 DEF Own
<1> QED
  BY <1>2, <1>4 DEF SameEntry

-----------------------------------------------------------------------------
(* Steps that leave the packets with a key alone                           *)

LEMMA NetStays ==
  ASSUME NEW key, NetOrder(key), net' = net
  PROVE  /\ NetOrder(key)'
         /\ \A i : FirstOf(key, i)' <=> FirstOf(key, i)
         /\ NoneOf(key)' <=> NoneOf(key)
         /\ \A d : Trails(d, key)' <=> Trails(d, key)
<1>1. NetOrder(key)'
  BY DEF NetOrder, Sent, Follows
<1>2. \A i : FirstOf(key, i)' <=> FirstOf(key, i)
  BY DEF FirstOf
<1>3. NoneOf(key)' <=> NoneOf(key)
  BY DEF NoneOf
<1>4. \A d : Trails(d, key)' <=> Trails(d, key)
  BY <1>2, <1>3 DEF Trails, Follows
<1> QED
  BY <1>1, <1>2, <1>3, <1>4

LEMMA EntryStays ==
  ASSUME NEW key, SameEntry(key)
  PROVE  /\ Fresh(rmap[key])' <=> Fresh(rmap[key])
         /\ \A m, i : Awaits(rmap[key], m, i)' <=> Awaits(rmap[key], m, i)
<1>1. Fresh(rmap[key])' <=> Fresh(rmap[key])
  BY DEF Fresh, SameEntry
<1>2. ASSUME NEW m, NEW i
      PROVE  Awaits(rmap[key], m, i)' <=> Awaits(rmap[key], m, i)
  BY <1>1 DEF Awaits, SameEntry, Waiting, Parts, SizeUpTo
<1> QED
  BY <1>1, <1>2

\* The first packet with the key is the one it was, or the first of a request.
FirstStays(key) ==
  /\ \A i \in DOMAIN net' : FirstOf(key, i)' =>
       \/ \E j \in DOMAIN net : FirstOf(key, j) /\ net'[i] = net[j]
       \/ NoneOf(key) /\ net'[i].index = 1
  /\ NoneOf(key)' => NoneOf(key)

(* A step that takes no packet with the key from the network or from a thread *)
LEMMA OrderedBeside ==
  ASSUME NEW key, Ordered(key), NetOrder(key)', FirstStays(key), SameEntry(key),
         \A u \in Threads : Handles(u, key) \/ Handles(u, key)'
                              => pc'[u] = pc[u] /\ packet'[u] = packet[u]
  PROVE  Ordered(key)'
<1>1. AtRest(key) /\ InHand(key)
  BY DEF Ordered
<1>2. \A u \in Threads : Handles(u, key)' <=> Handles(u, key)
  BY DEF Handles, Key
<1>3. /\ Fresh(rmap[key])' <=> Fresh(rmap[key])
      /\ \A m, i : Awaits(rmap[key], m, i)' <=> Awaits(rmap[key], m, i)
  BY EntryStays
<1>4. AtRest(key)'
  <2> SUFFICES ASSUME \A u \in Threads : ~Handles(u, key)'
               PROVE  Ready(key)'
    BY DEF AtRest
  <2>1. Ready(key)
    BY <1>1, <1>2 DEF AtRest
  <2>2. ASSUME NEW i \in DOMAIN net', FirstOf(key, i)'
        PROVE  Awaits(rmap[key], net[i].message, net[i].index)'
    <3>1. \/ \E j \in DOMAIN net : FirstOf(key, j) /\ net'[i] = net[j]
          \/ NoneOf(key) /\ net'[i].index = 1
      BY <2>2 DEF FirstStays
    <3>2. PICK e : e = net'[i]
      OBVIOUS
    <3>3. Awaits(rmap[key], e.message, e.index)
      BY <2>1, <3>1, <3>2 DEF Ready, Awaits
    <3>4. Awaits(rmap[key], e.message, e.index)'
      BY <1>3, <3>3
    <3> QED
      BY <3>2, <3>4
  <2>3. NoneOf(key)' => Fresh(rmap[key])'
    BY <1>3, <2>1 DEF FirstStays, Ready
  <2> QED
    BY <2>2, <2>3 DEF Ready
<1>5. InHand(key)'
  <2> SUFFICES ASSUME NEW u \in Threads, Handles(u, key)'
               PROVE  Hand(u, key)'
    BY DEF InHand, Hand
  <2>1. pc'[u] = pc[u] /\ packet'[u] = packet[u] /\ Handles(u, key)
    BY <1>2
  <2>2. PICK d : d = packet[u]
    OBVIOUS
  <2>3. /\ Came(d)
        /\ Trails(d, key)
        /\ pc[u] \in Carrying => Awaits(rmap[key], d.message, d.index)
        /\ pc[u] = "complete" => d.index = Parts(d.message)
        /\ pc[u] = "failed" => SizeUpTo(d.message)[d.index] > MaxRequestSize
    BY <1>1, <2>1, <2>2 DEF InHand, Hand
  <2>4. Trails(d, key)'
    <3>1. ASSUME NEW i \in DOMAIN net', FirstOf(key, i)'
          PROVE  Follows(d, net'[i])
      <4>1. \/ \E j \in DOMAIN net : FirstOf(key, j) /\ net'[i] = net[j]
            \/ NoneOf(key) /\ net'[i].index = 1
        BY <3>1 DEF FirstStays
      <4> QED
        BY <2>3, <4>1 DEF Trails, Follows
    <3>2. NoneOf(key)' => NoneOf(key)
      BY DEF FirstStays
    <3> QED
      BY <2>3, <3>1, <3>2 DEF Trails, Follows, Parts
  <2>5. Came(d)' /\ (Parts(d.message))' = Parts(d.message)
        /\ SizeUpTo(d.message)' = SizeUpTo(d.message)
    BY <2>3 DEF Came, Parts, SizeUpTo
  <2> QED
    BY <1>3, <2>1, <2>2, <2>3, <2>4, <2>5 DEF Hand
<1> QED
  BY <1>4, <1>5 DEF Ordered

(* The same, where the network does not change *)
LEMMA OrderedStays ==
  ASSUME NEW key, Ordered(key), net' = net, SameEntry(key),
         \A u \in Threads : Handles(u, key) \/ Handles(u, key)'
                              => pc'[u] = pc[u] /\ packet'[u] = packet[u]
  PROVE  Ordered(key)'
<1>1. NetOrder(key)'
  BY NetStays DEF Ordered
<1>2. FirstStays(key)
  <2>1. (\A i : FirstOf(key, i)' <=> FirstOf(key, i)) /\ (NoneOf(key)' <=> NoneOf(key))
    BY NetStays DEF Ordered
  <2> QED
    BY <2>1 DEF FirstStays
<1> QED
  BY <1>1, <1>2, OrderedBeside

(* The one thread that has a packet with the key takes a step with it. *)
LEMMA OrderedByOne ==
  ASSUME NEW key, Mine(key), Ordered(key), NEW t \in Threads, Handles(t, key), Own(t),
         pc'[t] \in Handling => Hand(t, key)',
         pc'[t] \notin Handling => Ready(key)'
  PROVE  Ordered(key)'
<1>1. NetOrder(key)'
  BY NetStays DEF Ordered, Own
<1>2. \A u \in Threads : Handles(u, key)' => u = t
  BY DEF Own, Mine, Handles, Key
<1>3. Handles(t, key)' <=> pc'[t] \in Handling
  <2>1. pc'[t] \in Handling => Key(t)' = key
    <3> SUFFICES ASSUME pc'[t] \in Handling PROVE Key(t)' = key
      OBVIOUS
    <3>1. PICK k : k = Key(t)'
      OBVIOUS
    <3>2. Handles(t, k)'
      BY <3>1 DEF Handles, Handling, Carrying
    <3>3. Handles(t, k)
      BY <3>2 DEF Own
    <3> QED
      BY <3>1, <3>3 DEF Handles
  <2> QED
    BY <2>1 DEF Handles, Handling, Carrying
<1>4. AtRest(key)'
  BY <1>3 DEF AtRest
<1>5. InHand(key)'
  BY <1>2, <1>3 DEF InHand, Hand
<1> QED
  BY <1>1, <1>4, <1>5 DEF Ordered

(* When a packet has been put, the entry of its key is ready for the next. *)
LEMMA ReadyNext ==
  ASSUME NEW key, NetOrder(key), net' = net, NEW d, Came(d), Trails(d, key),
         d.index = Parts(d.message) => Fresh(rmap[key])',
         d.index + 1 \in 1..Parts(d.message)
           => Awaits(rmap[key], d.message, d.index + 1)'
  PROVE  Ready(key)'
<1>1. /\ Parts(d.message) \in Nat \ {0} /\ d.index \in 1..Parts(d.message)
      /\ Parts(d.message)' = Parts(d.message)
  BY CutMade DEF Came, Parts
<1>2. ASSUME NEW i \in DOMAIN net, FirstOf(key, i)
      PROVE  Awaits(rmap[key], net[i].message, net[i].index)'
  <2>1. PICK e : e = net[i]
    OBVIOUS
  <2>2. Follows(d, e) /\ Sent(e)
    BY <1>2, <2>1 DEF Trails, NetOrder, FirstOf
  <2>3. /\ e.index \in 1..Parts(e.message)
        /\ \/ e.message = d.message /\ e.index = d.index + 1
           \/ e.index = 1 /\ d.index = Parts(d.message)
    BY <2>2 DEF Sent, Follows
  <2>4. CASE e.message = d.message /\ e.index = d.index + 1
    BY <2>1, <2>3, <2>4
  <2>5. CASE e.index = 1 /\ d.index = Parts(d.message)
    <3>1. Fresh(rmap[key])'
      BY <2>5
    <3>2. Awaits(rmap[key], e.message, 1)'
      BY <3>1 DEF Awaits
    <3> QED
      BY <2>1, <2>5, <3>2
  <2> QED
    BY <2>3, <2>4, <2>5
<1>3. NoneOf(key) => Fresh(rmap[key])'
  BY DEF Trails
<1>4. /\ \A i : FirstOf(key, i)' <=> FirstOf(key, i)
      /\ NoneOf(key)' <=> NoneOf(key)
  BY NetStays
<1> QED
  BY <1>2, <1>3, <1>4 DEF Ready

\* What the thread that carries a packet knows of it
LEMMA CarriedIs ==
  ASSUME NEW key, Ordered(key), NEW t \in Threads, Handles(t, key), NEW d, d = packet[t]
  PROVE  /\ Came(d) /\ Trails(d, key)
         /\ pc[t] \in Carrying => Awaits(rmap[key], d.message, d.index)
         /\ pc[t] = "complete" => d.index = Parts(d.message)
         /\ pc[t] = "failed" => SizeUpTo(d.message)[d.index] > MaxRequestSize
BY DEF Ordered, InHand, Hand

(* Steps of a thread that has looked nothing up, or has not put its packet yet:
   the entry its packet waits for may be new, but nothing is put into it. *)
LEMMA OrderedLook ==
  ASSUME Types, NEW key \in Keys, Mine(key), Ordered(key), NEW t \in Threads,
         Find(t) \/ Deref(t), Handles(t, key)
  PROVE  Ordered(key)'
<1>1. /\ ThreadTypes /\ StoreTypes /\ None \notin Requests
      /\ rmap[key] \in Requests \cup {None}
  BY DEF Types, Requests, None, StoreTypes
<1>2. Own(t) /\ key = Key(t)
  BY OwnIs DEF Handles
<1>3. PICK d : d = packet[t]
  OBVIOUS
<1>4. pc[t] \in Carrying /\ pc'[t] \in Carrying /\ net' = net /\ packet' = packet
  BY <1>1 DEF Find, Deref, Carrying, ThreadTypes, netVars
<1>6. Came(d) /\ Trails(d, key) /\ Awaits(rmap[key], d.message, d.index)
  BY <1>3, <1>4, CarriedIs
<1>7. \/ UNCHANGED <<rmap, request>>
      \/ /\ rmap[key] = None
         /\ request' = Append(request, NewReader)
         /\ rmap' = [rmap EXCEPT ![key] = Len(request')]
  BY <1>2 DEF Find, Deref
<1>8. Awaits(rmap[key], d.message, d.index)'
  <2>1. CASE UNCHANGED <<rmap, request>>
    <3>1. SameEntry(key)
      BY <2>1 DEF SameEntry
    <3> QED
      BY <1>6, <3>1, EntryStays
  <2>2. ASSUME rmap[key] = None, request' = Append(request, NewReader),
               rmap' = [rmap EXCEPT ![key] = Len(request')]
        PROVE  Awaits(rmap[key], d.message, d.index)'
    <3>1. PICK S : request \in Seq(S)
      BY <1>1 DEF StoreTypes
    <3>2. request'[Len(request')] = NewReader
      BY <2>2, <3>1
    <3>3. rmap'[key] = Len(request')
      BY <1>1, <2>2 DEF StoreTypes
    <3>5. Fresh(rmap[key])'
      BY <3>2, <3>3 DEF Fresh
    <3> QED
      BY <1>6, <2>2, <3>5 DEF Awaits, Parts, SizeUpTo
  <2> QED
    BY <1>7, <2>1, <2>2
<1>9. Hand(t, key)'
  <2>1. Came(d)' /\ packet'[t] = d
    BY <1>3, <1>4, <1>6 DEF Came, Parts
  <2>2. Trails(d, key)'
    BY <1>4, <1>6, NetStays DEF Ordered
  <2>3. pc'[t] \notin {"complete", "failed"}
    BY <1>4 DEF Carrying
  <2> QED
    BY <1>8, <2>1, <2>2, <2>3 DEF Hand
<1>10. pc'[t] \in Handling
  BY <1>4 DEF Handling
<1> QED
  BY <1>2, <1>9, <1>10, OrderedByOne

(* The packet is put, into the entry that waits for it; *)
LEMMA OrderedPut ==
  ASSUME Types, NEW key \in Keys, Mine(key), Ordered(key), NEW t \in Threads,
         PutPacket(t), Handles(t, key)
  PROVE  Ordered(key)'
<1>1. ThreadTypes /\ StoreTypes /\ None \notin Requests
  BY DEF Types, Requests, None, StoreTypes
<1>2. Own(t) /\ key = Key(t)
  BY OwnIs DEF Handles
<1>3. PICK d : d = packet[t]
  OBVIOUS
<1>4. PICK p : p = Put(request[req[t]], d)
  OBVIOUS
<1>5. PICK r : r = req[t]
  OBVIOUS
<1>6. /\ pc[t] = "put" /\ net' = net /\ rmap' = rmap
      /\ request' = [request EXCEPT ![r] = p.reader]
      /\ \/ p.result = "NEXTPACKET" /\ Loop(t)
         \/ /\ p.result # "NEXTPACKET"
            /\ pc' = [pc EXCEPT ![t] = IF p.result = "COMPLETE" THEN "complete"
                                                                ELSE "failed"]
            /\ UNCHANGED <<packet, iter, req>>
  BY <1>3, <1>4, <1>5 DEF PutPacket, netVars
<1>7. pc[t] \in Carrying
  BY <1>6 DEF Carrying
<1>8. Came(d) /\ Trails(d, key) /\ Awaits(rmap[key], d.message, d.index)
  BY <1>3, <1>7, CarriedIs
<1>9. r = rmap[key] /\ r \in Requests /\ r # None
  BY <1>1, <1>5, <1>6 DEF Mine, ThreadTypes, Looking, Having
<1>10. PICK m \in Messages : m = d.message
  BY <1>8 DEF Came
<1>11. PICK i \in 1..Parts(m) : i = d.index
  BY <1>8, <1>10 DEF Came
<1>12. /\ d = Received(Cut[m][i])
       /\ IF i = 1 \/ SizeUpTo(m)[i - 1] > MaxRequestSize THEN request[r] = NewReader
          ELSE Waiting(request[r], m, i - 1)
  BY <1>8, <1>9, <1>10, <1>11 DEF Came, Awaits, Fresh
<1>13. PutWell(m, i, p)
  <2>1. PICK x : x = request[r]
    OBVIOUS
  <2>2. p = Put(x, d)
    BY <1>4, <1>5, <2>1
  <2> QED
    BY <1>12, <2>1, <2>2, PutFollows
<1>14. request'[r] = p.reader
  <2>1. PICK S : request \in Seq(S)
    BY <1>1 DEF StoreTypes
  <2>2. DOMAIN request = Requests
    BY <2>1 DEF Requests
  <2> QED
    BY <1>6, <1>9, <2>2
<1>16. /\ pc'[t] = IF p.result = "NEXTPACKET" THEN "recv"
                   ELSE IF p.result = "COMPLETE" THEN "complete" ELSE "failed"
       /\ p.result # "NEXTPACKET" => packet'[t] = packet[t]
  BY <1>1, <1>6 DEF ThreadTypes, Loop
<1>17. CASE p.result = "NEXTPACKET"
  <2>1. pc'[t] \notin Handling
    BY <1>16, <1>17 DEF Carrying, Handling
  <2>3. i + 1 \in 1..Parts(m) /\ Waiting(p.reader, m, i)
        /\ ~(SizeUpTo(m)[i] > MaxRequestSize)
    BY <1>13, <1>17 DEF PutWell
  <2>4. Awaits(rmap[key], m, i + 1)'
    <3>1. i \in Nat \ {0} /\ Parts(m)' = Parts(m) /\ SizeUpTo(m)' = SizeUpTo(m)
      BY DEF Parts, SizeUpTo
    <3>2. (i + 1) - 1 = i /\ i + 1 # 1
      BY <3>1
    <3>3. Waiting(request[r], m, i)'
      BY <1>14, <2>3 DEF Waiting, Parts, SizeUpTo
    <3>4. rmap'[key] = r
      BY <1>6, <1>9
    <3> QED
      BY <1>9, <2>3, <3>1, <3>2, <3>3, <3>4 DEF Awaits
  <2>5. d.index # Parts(d.message)
    <3>1. Parts(m) \in Nat /\ i \in Nat /\ i + 1 <= Parts(m)
      BY <2>3, CutMade
    <3> QED
      BY <1>10, <1>11, <3>1
  <2>6. Ready(key)'
    BY <1>6, <1>8, <1>10, <1>11, <2>4, <2>5, ReadyNext DEF Ordered
  <2> QED
    BY <1>2, <2>1, <2>6, OrderedByOne
<1>18. CASE p.result # "NEXTPACKET"
  <2>1. /\ pc'[t] \in {"complete", "failed"} /\ packet'[t] = d
        /\ pc'[t] = "complete" => i = Parts(m)
        /\ pc'[t] = "failed" => SizeUpTo(m)[i] > MaxRequestSize
    BY <1>3, <1>13, <1>16, <1>18 DEF PutWell
  <2>2. Came(d)' /\ Parts(m)' = Parts(m) /\ SizeUpTo(m)' = SizeUpTo(m)
    BY <1>8 DEF Came, Parts, SizeUpTo
  <2>3. Trails(d, key)'
    BY <1>6, <1>8, NetStays DEF Ordered
  <2>4. Hand(t, key)'
    BY <1>10, <1>11, <2>1, <2>2, <2>3 DEF Hand, Carrying
  <2>5. pc'[t] \in Handling
    BY <2>1 DEF Handling
  <2> QED
    BY <1>2, <2>4, <2>5, OrderedByOne
<1> QED
  BY <1>17, <1>18

(* and the entry of a request that is complete or given up goes. *)
LEMMA OrderedErase ==
  ASSUME Types, NEW key \in Keys, Mine(key), Ordered(key), NEW t \in Threads,
         EraseComplete(t) \/ EraseFailed(t), Handles(t, key)
  PROVE  Ordered(key)'
<1>1. /\ ThreadTypes /\ StoreTypes
  BY DEF Types
<1>2. Own(t) /\ key = Key(t)
  BY OwnIs DEF Handles
<1>3. PICK d : d = packet[t]
  OBVIOUS
<1>4. /\ pc[t] \in {"complete", "failed"} /\ net' = net
      /\ rmap' = [rmap EXCEPT ![key] = None]
      /\ \E to \in Taken : pc' = [pc EXCEPT ![t] = to]
  BY <1>2 DEF EraseComplete, EraseFailed, Erase, Taken, netVars
<1>6. /\ Came(d) /\ Trails(d, key)
      /\ pc[t] = "complete" => d.index = Parts(d.message)
      /\ pc[t] = "failed" => SizeUpTo(d.message)[d.index] > MaxRequestSize
  BY <1>3, CarriedIs
<1>7. rmap'[key] = None
  BY <1>1, <1>4 DEF StoreTypes
<1>8. Fresh(rmap[key])'
  BY <1>7 DEF Fresh
<1>9. d.index + 1 \in 1..Parts(d.message) => Awaits(rmap[key], d.message, d.index + 1)'
  <2> SUFFICES ASSUME d.index + 1 \in 1..Parts(d.message)
               PROVE  Awaits(rmap[key], d.message, d.index + 1)'
    OBVIOUS
  <2>1. /\ Parts(d.message) \in Nat /\ d.index \in Nat
        /\ (d.index + 1) - 1 = d.index /\ d.index # Parts(d.message)
    BY <1>6, CutMade DEF Came
  <2>2. SizeUpTo(d.message)[(d.index + 1) - 1] > MaxRequestSize
    BY <1>4, <1>6, <2>1
  <2> QED
    BY <1>8, <2>2 DEF Awaits, SizeUpTo
<1>10. Ready(key)'
  BY <1>4, <1>6, <1>8, <1>9, ReadyNext DEF Ordered
<1>11. pc'[t] \notin Handling
  BY <1>1, <1>4 DEF ThreadTypes, Taken, Carrying, Handling
<1> QED
  BY <1>2, <1>10, <1>11, OrderedByOne

-----------------------------------------------------------------------------
(* Steps of the network                                                    *)

LEMMA AppendedAre ==
  ASSUME NEW D, NEW s \in Seq(D), NEW E, NEW c \in Seq(E), NEW u, u = s \o c
  PROVE  /\ Len(s) \in Nat /\ Len(c) \in Nat
         /\ DOMAIN s = 1..Len(s) /\ DOMAIN u = 1..(Len(s) + Len(c))
         /\ \A i \in 1..Len(s) : u[i] = s[i]
         /\ \A i \in 1..Len(c) : u[Len(s) + i] = c[i]
         /\ \A i \in DOMAIN u : i \in 1..Len(s) \/ i - Len(s) \in 1..Len(c)
<1>1. s \in Seq(D \cup E) /\ c \in Seq(D \cup E)
  BY SeqMonotonic, Zenon
<1>2. /\ u \in Seq(D \cup E) /\ Len(u) = Len(s) + Len(c)
      /\ \A i \in 1..(Len(s) + Len(c)) : u[i] = IF i <= Len(s) THEN s[i] ELSE c[i - Len(s)]
  BY <1>1, ConcatProperties
<1>3. Len(s) \in Nat /\ Len(c) \in Nat
  OBVIOUS
<1>4. ASSUME NEW i \in 1..Len(c) PROVE u[Len(s) + i] = c[i]
  <2>1. Len(s) + i \in 1..(Len(s) + Len(c)) /\ ~(Len(s) + i <= Len(s))
        /\ (Len(s) + i) - Len(s) = i
    BY <1>3
  <2> QED
    BY <1>2, <2>1
<1> QED
  BY <1>2, <1>3, <1>4

\* What Send makes of the network: n packets of m with the key behind those there were
Sends(m, key, L, n) ==
  /\ L \in Nat /\ n \in Nat \ {0} /\ n = Parts(m)
  /\ DOMAIN net = 1..L /\ DOMAIN net' = 1..(L + n)
  /\ \A i \in 1..L : net'[i] = net[i]
  /\ \A i \in 1..n : /\ net'[L + i].rid = key /\ net'[L + i].message = m
                     /\ net'[L + i].index = i /\ Sent(net'[L + i])

LEMMA SendsIs ==
  ASSUME NetTypes, NEW m \in Messages, net' = net \o Cut[m]
  PROVE  Rid[m] \in Keys /\ \E L, n : Sends(m, Rid[m], L, n)
<1>1. PICK D : net \in Seq(D)
  BY DEF NetTypes, Carried
<1>2. PICK E : Cut[m] \in Seq(E)
  BY CutKeyed
<1>3. /\ Len(net) \in Nat
      /\ DOMAIN net = 1..Len(net) /\ DOMAIN net' = 1..(Len(net) + Parts(m))
      /\ \A i \in 1..Len(net) : net'[i] = net[i]
      /\ \A i \in 1..Parts(m) : net'[Len(net) + i] = Cut[m][i]
  BY <1>1, <1>2, AppendedAre DEF Parts
<1>4. /\ Parts(m) \in Nat \ {0}
      /\ \A i \in 1..Parts(m) : Made(m, i, Cut[m][i]) /\ Sent(Cut[m][i])
  BY CutMade
<1>5. Sends(m, Rid[m], Len(net), Parts(m))
  BY <1>3, <1>4 DEF Sends, Made
<1> QED
  BY <1>5 DEF Keys

(* The first packet with a key stays the first, or there was none. *)
LEMMA SendFirst ==
  ASSUME NEW m, NEW key, NEW L, NEW n, Sends(m, key, L, n), NEW k
  PROVE  /\ \A i \in DOMAIN net' : FirstOf(k, i)' =>
              \/ i \in DOMAIN net /\ FirstOf(k, i) /\ net'[i] = net[i]
              \/ NoneOf(k) /\ net'[i].index = 1 /\ net'[i].message = m
         /\ NoneOf(k)' => NoneOf(k)
<1>1. ASSUME NEW i \in DOMAIN net', FirstOf(k, i)', i \in 1..L
      PROVE  i \in DOMAIN net /\ FirstOf(k, i) /\ net'[i] = net[i]
  <2>1. i \in DOMAIN net /\ net'[i] = net[i] /\ net[i].rid = k
    BY <1>1 DEF FirstOf, Sends
  <2>2. \A j \in DOMAIN net : j \in DOMAIN net' /\ net'[j] = net[j]
    BY DEF Sends
  <2> QED
    BY <1>1, <2>1, <2>2 DEF FirstOf
<1>2. ASSUME NEW i \in DOMAIN net', FirstOf(k, i)', i \notin 1..L
      PROVE  NoneOf(k) /\ net'[i].index = 1 /\ net'[i].message = m
  <2>1. PICK x \in 1..n : i = L + x
    <3>1. i - L \in 1..n /\ i = L + (i - L)
      BY <1>2 DEF Sends
    <3> QED
      BY <3>1
  <2>2. NoneOf(k)
    <3> SUFFICES ASSUME NEW j \in DOMAIN net, net[j].rid = k PROVE FALSE
      BY DEF NoneOf
    <3>1. j \in DOMAIN net' /\ net'[j] = net[j] /\ j < i
      BY <2>1 DEF Sends
    <3> QED
      BY <1>2, <3>1 DEF FirstOf
  <2>3. net'[i].rid = k /\ net'[i].rid = key
    BY <1>2, <2>1 DEF FirstOf, Sends
  <2>4. 1 \in 1..n /\ L + 1 \in DOMAIN net' /\ net'[L + 1].rid = k
    BY <2>3 DEF Sends
  <2>5. ~(L + 1 < i)
    BY <1>2, <2>4 DEF FirstOf
  <2>6. x = 1
    BY <2>1, <2>5 DEF Sends
  <2> QED
    BY <2>1, <2>2, <2>6 DEF Sends
<1>3. NoneOf(k)' => NoneOf(k)
  BY DEF NoneOf, Sends
<1> QED
  BY <1>1, <1>2, <1>3

LEMMA SendOrder ==
  ASSUME NEW k, NetOrder(k), NEW m, NEW key, NEW L, NEW n, Sends(m, key, L, n)
  PROVE  NetOrder(k)'
<1>0. /\ L \in Nat /\ n \in Nat \ {0} /\ n = Parts(m) /\ Parts(m)' = Parts(m)
      /\ DOMAIN net = 1..L /\ DOMAIN net' = 1..(L + n)
      /\ \A i \in 1..L : i \in DOMAIN net' /\ net'[i] = net[i]
  BY DEF Sends, Parts
<1>1. ASSUME NEW i \in DOMAIN net', i \notin 1..L
      PROVE  /\ i - L \in 1..n
             /\ net'[i].rid = key /\ net'[i].message = m
             /\ net'[i].index = i - L /\ Sent(net'[i])
  <2>1. i - L \in 1..n /\ i = L + (i - L)
    BY <1>0, <1>1
  <2>2. PICK x \in 1..n : x = i - L
    BY <2>1
  <2>3. i = L + x
    BY <2>1, <2>2
  <2> QED
    BY <2>2, <2>3 DEF Sends
<1>2. ASSUME NEW i \in DOMAIN net', net'[i].rid = k
      PROVE  Sent(net[i])'
  <2>1. Sent(net'[i])
    BY <1>0, <1>1, <1>2 DEF NetOrder
  <2> QED
    BY <2>1 DEF Sent, Parts
<1>3. ASSUME NEW i \in DOMAIN net', NEW j \in DOMAIN net',
             i < j, net'[i].rid = k, net'[j].rid = k,
             \A x \in DOMAIN net' : i < x /\ x < j => net'[x].rid # k
      PROVE  Follows(net'[i], net'[j])
  <2>1. CASE j \in 1..L
    <3>1. /\ i \in DOMAIN net /\ j \in DOMAIN net
          /\ net'[i] = net[i] /\ net'[j] = net[j]
          /\ \A x \in DOMAIN net : i < x /\ x < j => net[x].rid # k
      BY <1>0, <1>3, <2>1
    <3> QED
      BY <1>3, <3>1 DEF NetOrder
  <2>2. CASE j \notin 1..L /\ i \notin 1..L
    <3>1. /\ i - L \in 1..n /\ net'[i].index = i - L /\ net'[i].message = m
          /\ j - L \in 1..n /\ net'[j].index = j - L /\ net'[j].message = m
          /\ net'[i].rid = key
      BY <1>1, <2>2
    <3>2. i + 1 \in DOMAIN net' /\ i + 1 \notin 1..L
      BY <1>0, <1>3, <3>1
    <3>3. net'[i + 1].rid = key
      BY <1>1, <3>2
    <3>4. j = i + 1
      BY <1>0, <1>3, <3>1, <3>2, <3>3
    <3> QED
      BY <1>0, <3>1, <3>4 DEF Follows
  <2>3. CASE j \notin 1..L /\ i \in 1..L
    <3>1. /\ j - L \in 1..n /\ net'[j].index = j - L /\ net'[j].rid = key
      BY <1>1, <2>3
    <3>2. L + 1 \in DOMAIN net' /\ L + 1 \notin 1..L
      BY <1>0
    <3>3. net'[L + 1].rid = key
      BY <1>1, <3>2
    <3>4. j = L + 1
      BY <1>0, <1>3, <2>3, <3>1, <3>2, <3>3
    <3>5. net'[i] = net[i] /\ i \in DOMAIN net
      BY <1>0, <2>3
    <3>6. \A x \in DOMAIN net : i < x => net[x].rid # k
      BY <1>0, <1>3, <3>4, <3>5
    <3>7. net[i].index = Parts(net[i].message)
      BY <1>3, <3>5, <3>6 DEF NetOrder
    <3>8. net'[j].index = 1
      BY <1>0, <3>1, <3>4
    <3> QED
      BY <3>5, <3>7, <3>8 DEF Follows
  <2> QED
    BY <2>1, <2>2, <2>3
<1>4. ASSUME NEW i \in DOMAIN net', net'[i].rid = k,
             \A j \in DOMAIN net' : i < j => net'[j].rid # k
      PROVE  net'[i].index = Parts(net'[i].message)
  <2>1. CASE i \in 1..L
    <3>1. /\ i \in DOMAIN net /\ net'[i] = net[i]
          /\ \A j \in DOMAIN net : i < j => net[j].rid # k
      BY <1>0, <1>4, <2>1
    <3> QED
      BY <1>4, <3>1 DEF NetOrder
  <2>2. CASE i \notin 1..L
    <3>1. /\ i - L \in 1..n /\ net'[i].index = i - L /\ net'[i].message = m
          /\ net'[i].rid = key
      BY <1>1, <2>2
    <3>2. CASE i - L = n
      BY <1>0, <3>1, <3>2
    <3>3. CASE i - L # n
      <4>1. i + 1 \in DOMAIN net' /\ i + 1 \notin 1..L /\ i < i + 1
        BY <1>0, <3>1, <3>3
      <4>2. net'[i + 1].rid = key
        BY <1>1, <4>1
      <4> QED
        BY <1>4, <3>1, <4>1, <4>2
    <3> QED
      BY <3>2, <3>3
  <2> QED
    BY <2>1, <2>2
<1> QED
  BY <1>2, <1>3, <1>4 DEF NetOrder, Follows, Parts

(* The packets of a new request come after all others with its key. *)
LEMMA OrderedSend ==
  ASSUME Types, NEW key, Ordered(key), NEW m \in Messages, Send(m)
  PROVE  Ordered(key)'
<1>1. /\ net' = net \o Cut[m]
      /\ UNCHANGED <<rmap, request, pc, packet>>
  BY DEF Send, threadVars
<1>2. PICK k, L, n : Sends(m, k, L, n)
  BY <1>1, SendsIs DEF Types
<1>3. NetOrder(key)'
  BY <1>2, SendOrder DEF Ordered
<1>4. FirstStays(key)
  BY <1>2, SendFirst DEF FirstStays
<1> QED
  BY <1>1, <1>3, <1>4, OrderedBeside DEF SameEntry

(* A datagram that is sent twice comes after all others, whatever its key. *)
LEMMA OrderedDuplicate ==
  ASSUME Types, NEW key, Ordered(key), NEW i \in DOMAIN net, Duplicate(i),
         net[i].rid # key
  PROVE  Ordered(key)'
<1>1. /\ net' = Append(net, net[i])
      /\ UNCHANGED <<rmap, request, pc, packet>>
  BY DEF Duplicate, threadVars
<1>2. PICK D : net \in Seq(D)
  BY DEF Types, NetTypes, Carried
<1>3. PICK L \in Nat : L = Len(net)
  BY <1>2
<1>4. /\ DOMAIN net = 1..L /\ DOMAIN net' = 1..(L + 1)
      /\ \A j \in 1..L : net'[j] = net[j]
      /\ net'[L + 1].rid # key
  BY <1>1, <1>2, <1>3
<1>5. \A j \in DOMAIN net' : net'[j].rid = key => j \in DOMAIN net /\ net'[j] = net[j]
  <2>1. \A j \in 1..(L + 1) : j \in 1..L \/ j = L + 1
    OBVIOUS
  <2> QED
    BY <1>4, <2>1
<1>6. \A j \in DOMAIN net : j \in DOMAIN net' /\ net'[j] = net[j]
  BY <1>4
<1>7. NetOrder(key)'
  <2>0. NetOrder(key)
    BY DEF Ordered
  <2>1. ASSUME NEW j \in DOMAIN net', net'[j].rid = key
        PROVE  Sent(net[j])'
    <3>1. Sent(net'[j])
      BY <1>5, <2>0, <2>1 DEF NetOrder
    <3> QED
      BY <3>1 DEF Sent, Parts
  <2>2. ASSUME NEW j \in DOMAIN net', NEW k \in DOMAIN net', j < k,
               net'[j].rid = key, net'[k].rid = key,
               \A x \in DOMAIN net' : j < x /\ x < k => net'[x].rid # key
        PROVE  Follows(net'[j], net'[k])
    <3>1. /\ j \in DOMAIN net /\ net'[j] = net[j] /\ k \in DOMAIN net /\ net'[k] = net[k]
          /\ \A x \in DOMAIN net : j < x /\ x < k => net[x].rid # key
      BY <1>5, <1>6, <2>2
    <3> QED
      BY <2>0, <2>2, <3>1 DEF NetOrder
  <2>3. ASSUME NEW j \in DOMAIN net', net'[j].rid = key,
               \A k \in DOMAIN net' : j < k => net'[k].rid # key
        PROVE  net'[j].index = Parts(net'[j].message)
    <3>1. /\ j \in DOMAIN net /\ net'[j] = net[j]
          /\ \A k \in DOMAIN net : j < k => net[k].rid # key
      BY <1>5, <1>6, <2>3
    <3> QED
      BY <2>0, <2>3, <3>1 DEF NetOrder
  <2> QED
    BY <2>1, <2>2, <2>3 DEF NetOrder, Follows, Parts
<1>8. FirstStays(key)
  <2>1. ASSUME NEW j \in DOMAIN net', FirstOf(key, j)'
        PROVE  FirstOf(key, j) /\ j \in DOMAIN net /\ net'[j] = net[j]
    BY <1>5, <1>6, <2>1 DEF FirstOf
  <2>2. NoneOf(key)' => NoneOf(key)
    BY <1>6 DEF NoneOf
  <2> QED
    BY <2>1, <2>2 DEF FirstStays
<1> QED
  BY <1>1, <1>7, <1>8, OrderedBeside DEF SameEntry

\* Where datagram j has been before datagram i was taken away
Was(i, j) == IF j < i THEN j ELSE j + 1

\* What recvfrom makes of the network when it returns datagram i.
Takes(i, L) ==
  /\ L \in Nat /\ DOMAIN net = 1..L /\ DOMAIN net' = 1..(L - 1) /\ i \in 1..L
  /\ \A j \in 1..(L - 1) : Was(i, j) \in 1..L /\ net'[j] = net[Was(i, j)]
  /\ \A j, k \in 1..(L - 1) : j < k <=> Was(i, j) < Was(i, k)
  /\ \A k \in 1..L : k # i => \E j \in 1..(L - 1) : Was(i, j) = k
  /\ \A j \in 1..(L - 1) : Was(i, j) # i

LEMMA TakesIs ==
  ASSUME NetTypes, NEW i \in DOMAIN net, net' = RemoveAt(net, i)
  PROVE  Takes(i, Len(net))
<1>1. PICK D : net \in Seq(D)
  BY DEF NetTypes, Carried
<1>2. Len(net) \in Nat /\ DOMAIN net = 1..Len(net) /\ i \in 1..Len(net)
  BY <1>1
<1>3. /\ net' \in Seq(D) /\ Len(net') = Len(net) - 1
      /\ \A j \in 1..(Len(net) - 1) : net'[j] = IF j < i THEN net[j] ELSE net[j + 1]
  BY <1>1, <1>2, RemoveAtProperties
<1>4. PICK L \in Nat : L = Len(net)
  BY <1>2
<1>5. DOMAIN net' = 1..(L - 1)
  BY <1>3, <1>4
<1>6. \A j \in 1..(L - 1) : Was(i, j) \in 1..L /\ net'[j] = net[Was(i, j)]
  BY <1>2, <1>3, <1>4 DEF Was
<1>7. \A j, k \in 1..(L - 1) : j < k <=> Was(i, j) < Was(i, k)
  BY <1>2, <1>4 DEF Was
<1>8. ASSUME NEW k \in 1..L, k # i
      PROVE  \E j \in 1..(L - 1) : Was(i, j) = k
  <2>1. CASE k < i
    <3>1. k \in 1..(L - 1) /\ Was(i, k) = k
      BY <1>2, <1>4, <2>1 DEF Was
    <3> QED
      BY <3>1
  <2>2. CASE ~(k < i)
    <3>1. k - 1 \in 1..(L - 1) /\ Was(i, k - 1) = k
      BY <1>2, <1>4, <1>8, <2>2 DEF Was
    <3> QED
      BY <3>1
  <2> QED
    BY <2>1, <2>2
<1>9. \A j \in 1..(L - 1) : Was(i, j) # i
  BY <1>2, <1>4 DEF Was
<1> QED
  BY <1>2, <1>4, <1>5, <1>6, <1>7, <1>8, <1>9, Zenon DEF Takes

LEMMA TakeOrder ==
  ASSUME NEW key, NetOrder(key), NEW i, NEW L, Takes(i, L),
         net[i].rid # key \/ FirstOf(key, i)
  PROVE  NetOrder(key)'
<1>1. ASSUME NEW j \in DOMAIN net', net'[j].rid = key
      PROVE  Sent(net[j])'
  <2>1. Sent(net'[j])
    BY <1>1 DEF NetOrder, Takes
  <2> QED
    BY <2>1 DEF Sent, Parts
<1>2. ASSUME NEW j \in DOMAIN net', NEW k \in DOMAIN net',
             j < k, net'[j].rid = key, net'[k].rid = key,
             \A x \in DOMAIN net' : j < x /\ x < k => net'[x].rid # key
      PROVE  Follows(net'[j], net'[k])
  <2>1. PICK a \in DOMAIN net : a = Was(i, j)
    BY DEF Takes
  <2>2. PICK b \in DOMAIN net : b = Was(i, k)
    BY DEF Takes
  <2>3. a < b /\ net'[j] = net[a] /\ net'[k] = net[b]
    BY <1>2, <2>1, <2>2 DEF Takes
  <2>4. ASSUME NEW c \in DOMAIN net, a < c, c < b
        PROVE  net[c].rid # key
    <3>1. CASE c = i
      BY <1>2, <2>3, <2>4, <3>1 DEF FirstOf
    <3>2. CASE c # i
      <4>1. PICK x \in DOMAIN net' : Was(i, x) = c
        BY <3>2 DEF Takes
      <4>2. j < x /\ x < k /\ net'[x] = net[c]
        BY <2>1, <2>2, <2>4, <4>1 DEF Takes
      <4> QED
        BY <1>2, <2>3, <4>2
    <3> QED
      BY <3>1, <3>2
  <2> QED
    BY <1>2, <2>3, <2>4 DEF NetOrder
<1>3. ASSUME NEW j \in DOMAIN net', net'[j].rid = key,
             \A k \in DOMAIN net' : j < k => net'[k].rid # key
      PROVE  net'[j].index = Parts(net'[j].message)
  <2>1. PICK a \in DOMAIN net : a = Was(i, j)
    BY DEF Takes
  <2>2. net'[j] = net[a]
    BY <2>1 DEF Takes
  <2>3. ASSUME NEW c \in DOMAIN net, a < c
        PROVE  net[c].rid # key
    <3>1. CASE c = i
      BY <1>3, <2>2, <2>3, <3>1 DEF FirstOf
    <3>2. CASE c # i
      <4>1. PICK x \in DOMAIN net' : Was(i, x) = c
        BY <3>2 DEF Takes
      <4>2. j < x /\ net'[x] = net[c]
        BY <2>1, <2>3, <4>1 DEF Takes
      <4> QED
        BY <1>3, <2>2, <4>2
    <3> QED
      BY <3>1, <3>2
  <2> QED
    BY <1>3, <2>2, <2>3 DEF NetOrder
<1> QED
  BY <1>1, <1>2, <1>3 DEF NetOrder, Follows, Parts

(* The first packets with other keys stay the first. *)
LEMMA TakeOthers ==
  ASSUME NEW i, NEW L, Takes(i, L), NEW k, k # net[i].rid
  PROVE  /\ \A j \in DOMAIN net' : FirstOf(k, j)' =>
              Was(i, j) \in DOMAIN net /\ FirstOf(k, Was(i, j)) /\ net'[j] = net[Was(i, j)]
         /\ NoneOf(k)' => NoneOf(k)
<1>1. ASSUME NEW j \in DOMAIN net', FirstOf(k, j)'
      PROVE  Was(i, j) \in DOMAIN net /\ FirstOf(k, Was(i, j)) /\ net'[j] = net[Was(i, j)]
  <2>1. PICK a \in DOMAIN net : a = Was(i, j)
    BY DEF Takes
  <2>2. net'[j] = net[a] /\ net[a].rid = k
    BY <1>1, <2>1 DEF Takes, FirstOf
  <2>3. ASSUME NEW c \in DOMAIN net, c < a, net[c].rid = k
        PROVE  FALSE
    <3>1. PICK x \in DOMAIN net' : Was(i, x) = c
      BY <2>3 DEF Takes
    <3>2. x < j /\ net'[x] = net[c]
      BY <2>1, <2>3, <3>1 DEF Takes
    <3> QED
      BY <1>1, <2>3, <3>2 DEF FirstOf
  <2> QED
    BY <2>1, <2>2, <2>3 DEF FirstOf
<1>2. ASSUME NoneOf(k)', NEW c \in DOMAIN net, net[c].rid = k
      PROVE  FALSE
  <2>1. PICK x \in DOMAIN net' : Was(i, x) = c
    BY <1>2 DEF Takes
  <2>2. net'[x] = net[c]
    BY <2>1 DEF Takes
  <2> QED
    BY <1>2, <2>2 DEF NoneOf
<1> QED
  BY <1>1, <1>2 DEF NoneOf

(* What was behind the datagram that is taken follows it. *)
LEMMA TakeTrails ==
  ASSUME NEW key, NetOrder(key), NEW i, NEW L, Takes(i, L), NEW e, e = net[i],
         FirstOf(key, i)
  PROVE  Trails(e, key)'
<1>1. ASSUME NEW j \in DOMAIN net', FirstOf(key, j)'
      PROVE  Follows(e, net'[j])
  <2>1. PICK a \in DOMAIN net : a = Was(i, j)
    BY DEF Takes
  <2>2. net'[j] = net[a] /\ net[a].rid = key /\ a # i
    BY <1>1, <2>1 DEF Takes, FirstOf
  <2>3. i < a
    <3>1. ~(a < i)
      BY <2>2 DEF FirstOf
    <3>2. a \in Nat /\ i \in Nat
      BY DEF Takes
    <3> QED
      BY <2>2, <3>1, <3>2
  <2>4. ASSUME NEW c \in DOMAIN net, i < c, c < a
        PROVE  net[c].rid # key
    <3>0. c \in 1..L /\ c # i
      BY <2>4 DEF Takes
    <3>1. PICK x \in DOMAIN net' : Was(i, x) = c
      BY <3>0 DEF Takes
    <3>2. x < j /\ net'[x] = net[c]
      BY <2>1, <2>4, <3>1 DEF Takes
    <3> QED
      BY <1>1, <3>2 DEF FirstOf
  <2>5. i \in DOMAIN net
    BY DEF Takes
  <2> QED
    BY <2>2, <2>3, <2>4, <2>5 DEF NetOrder, FirstOf
<1>2. ASSUME NoneOf(key)'
      PROVE  e.index = Parts(e.message)
  <2>1. ASSUME NEW c \in DOMAIN net, i < c
        PROVE  net[c].rid # key
    <3>1. PICK x \in DOMAIN net' : Was(i, x) = c
      BY <2>1 DEF Takes
    <3>2. net'[x] = net[c]
      BY <3>1 DEF Takes
    <3> QED
      BY <1>2, <3>2 DEF NoneOf
  <2>2. i \in DOMAIN net
    BY DEF Takes
  <2> QED
    BY <2>1, <2>2 DEF NetOrder, FirstOf
<1> QED
  BY <1>1, <1>2 DEF Trails, Follows, Parts

(* What happens to other packets leaves those with the key in order, *)
LEMMA OrderedTake ==
  ASSUME Types, NEW key, Ordered(key), NEW i \in DOMAIN net, net[i].rid # key,
         net' = RemoveAt(net, i), UNCHANGED <<rmap, request>>,
         \A u \in Threads : Handles(u, key) \/ Handles(u, key)'
                              => pc'[u] = pc[u] /\ packet'[u] = packet[u]
  PROVE  Ordered(key)'
<1>1. PICK L : Takes(i, L)
  BY TakesIs DEF Types
<1>2. NetOrder(key)'
  BY <1>1, TakeOrder DEF Ordered
<1>3. FirstStays(key)
  BY <1>1, TakeOthers DEF FirstStays
<1> QED
  BY <1>2, <1>3, OrderedBeside DEF SameEntry

(* and as long as no packet overtakes one with the key, a thread gets the one that
   the request waits for, unless another thread has one. *)
LEMMA OrderedRecv ==
  ASSUME Types, NEW key \in Keys, Ordered(key),
         NEW t \in Threads, NEW i \in DOMAIN net, Recv(t, i),
         key \notin lost', key \notin raced'
  PROVE  Ordered(key)'
<1>1. /\ pc[t] = "recv" /\ net' = RemoveAt(net, i)
      /\ packet' = [packet EXCEPT ![t] = Received(net[i])]
      /\ pc' = [pc EXCEPT ![t] = "find"]
      /\ UNCHANGED <<rmap, request>>
  BY DEF Recv
<1>2. PICK L : Takes(i, L)
  BY <1>1, TakesIs DEF Types
<1>3. PICK e : e = net[i]
  OBVIOUS
<1>4. PICK d : d = Received(e)
  OBVIOUS
<1>5. NetOrder(key) /\ AtRest(key) /\ InHand(key)
  BY DEF Ordered
<1>6. d.rid = e.rid
  BY <1>3, <1>4, ReceivedKeyed DEF Types, NetTypes
<1>7. /\ pc'[t] = "find" /\ packet'[t] = d
      /\ \A u \in Threads \ {t} : pc'[u] = pc[u] /\ packet'[u] = packet[u]
  BY <1>1, <1>3, <1>4 DEF Types, ThreadTypes
<1>8. CASE e.rid # key
  <2>1. ~Handles(t, key) /\ ~Handles(t, key)'
    BY <1>1, <1>6, <1>7, <1>8 DEF Handles, Key
  <2> QED
    BY <1>1, <1>3, <1>7, <1>8, <2>1, OrderedTake
<1>9. CASE e.rid = key
  <2>1. \A u \in Threads : ~Handles(u, key)
    <3>1. ASSUME NEW u \in Threads, Handles(u, key)
          PROVE  key \in raced'
      BY <1>3, <1>9, <3>1 DEF Recv, Handles
    <3> QED
      BY <3>1
  <2>2. FirstOf(key, i)
    <3>1. ASSUME NEW j \in DOMAIN net, j < i, net[j].rid = key
          PROVE  key \in lost'
      <4>1. j \in 1..(i - 1)
        BY <1>2, <3>1 DEF Takes
      <4>2. j \in {k \in 1..(i - 1) : net[k].rid = net[i].rid}
        BY <1>3, <1>9, <3>1, <4>1
      <4> QED
        BY <3>1, <4>2 DEF Recv
    <3> QED
      BY <1>3, <1>9, <3>1 DEF FirstOf
  <2>3. NetOrder(key)'
    BY <1>2, <1>5, <2>2, TakeOrder
  <2>4. Sent(e) /\ Came(d) /\ d.message = e.message /\ d.index = e.index
    <3>1. Sent(e)
      BY <1>3, <1>5, <1>9 DEF NetOrder
    <3>2. /\ Made(e.message, e.index, e)
          /\ Made(e.message, e.index, d)
      BY <1>4, <3>1, CutMade DEF Sent
    <3> QED
      BY <1>4, <3>1, <3>2 DEF Made, Sent, Came
  <2>5. Awaits(rmap[key], d.message, d.index)
    <3>1. Ready(key)
      BY <1>5, <2>1 DEF AtRest
    <3> QED
      BY <1>3, <2>2, <2>4, <3>1 DEF Ready, FirstOf
  <2>6. SameEntry(key)
    BY <1>1 DEF SameEntry
  <2>7. Handles(t, key)' /\ \A u \in Threads \ {t} : ~Handles(u, key)'
    BY <1>6, <1>7, <1>9, <2>1 DEF Handles, Key
  <2>8. Hand(t, key)'
    <3>1. Trails(e, key)'
      BY <1>2, <1>3, <1>5, <2>2, TakeTrails
    <3>2. Trails(d, key)'
      BY <2>4, <3>1 DEF Trails, Follows, Parts
    <3>3. Came(d)'
      BY <2>4 DEF Came, Parts
    <3>4. Awaits(rmap[key], d.message, d.index)'
      BY <2>5, <2>6, EntryStays
    <3> QED
      BY <1>7, <3>2, <3>3, <3>4 DEF Hand
  <2> QED
    BY <2>3, <2>7, <2>8 DEF Ordered, AtRest, InHand, Hand
<1> QED
  BY <1>8, <1>9

-----------------------------------------------------------------------------

LEMMA OrderedStep ==
  ASSUME Types, Separate, NEW key \in Keys, Mine(key), Ordered(key), [Next]_vars,
         key \notin lost', key \notin raced'
  PROVE  Ordered(key)'
<1>1. CASE \E m \in Messages : Send(m)
  BY <1>1, OrderedSend
<1>2. ASSUME NEW i \in DOMAIN net, Lose(i) \/ Duplicate(i)
      PROVE  Ordered(key)'
  <2>1. net[i].rid # key /\ UNCHANGED <<rmap, request, pc, packet>>
    BY <1>2 DEF Lose, Duplicate, threadVars
  <2>2. CASE Lose(i)
    BY <2>1, <2>2, OrderedTake DEF Lose
  <2>3. CASE Duplicate(i)
    BY <2>1, <2>3, OrderedDuplicate
  <2> QED
    BY <1>2, <2>2, <2>3
<1>3. ASSUME NEW t \in Threads,
             \/ Find(t) \/ Deref(t) \/ PutPacket(t) \/ EraseComplete(t) \/ EraseFailed(t)
             \/ PostRequest(t) \/ DeleteRequest(t)
      PROVE  Ordered(key)'
  <2>1. CASE Handles(t, key)
    <3>1. ~PostRequest(t) /\ ~DeleteRequest(t)
      BY <2>1 DEF Handles, PostRequest, DeleteRequest
    <3> QED
      BY <1>3, <2>1, <3>1, OrderedLook, OrderedPut, OrderedErase
  <2>2. CASE ~Handles(t, key)
    <3>1. Own(t)
      BY <1>3, OwnIs
    <3>2. SameEntry(key)
      BY <2>2, <3>1, OwnSameEntry
    <3>3. net' = net /\ \A u \in Threads : Handles(u, key) \/ Handles(u, key)'
                              => pc'[u] = pc[u] /\ packet'[u] = packet[u]
      BY <2>2, <3>1 DEF Own
    <3> QED
      BY <3>2, <3>3, OrderedStays
  <2> QED
    BY <2>1, <2>2
<1>4. CASE Serve \/ UNCHANGED vars
  <2>1. UNCHANGED <<net, rmap, request, pc, packet>>
    BY <1>4 DEF Serve, vars, netVars, threadVars
  <2> QED
    BY <2>1, OrderedStays DEF SameEntry
<1>5. CASE \E t \in Threads : \E i \in DOMAIN net : Recv(t, i)
  BY <1>5, OrderedRecv
<1> QED
  BY <1>1, <1>2, <1>3, <1>4, <1>5 DEF Next, Step

\* The request ids that nothing has happened to keep their packets in order.
CalmOrdered == \A key \in Keys : Calm(key) => Mine(key) /\ Ordered(key)

LEMMA CalmOrderedInit ==
  ASSUME Init
  PROVE  Separate /\ CalmOrdered
<1>1. Separate
  BY DEF Init, Separate, Seen, Handles, Requests
<1>2. ASSUME NEW key \in Keys
      PROVE  Mine(key) /\ Ordered(key)
  <2>1. Mine(key)
    BY DEF Init, Mine, Handles
  <2>2. NetOrder(key)
    BY DEF Init, NetOrder
  <2>3. AtRest(key)
    BY <1>2 DEF Init, AtRest, Ready, Fresh, FirstOf
  <2>4. InHand(key)
    BY DEF Init, InHand, Hand, Handles
  <2> QED
    BY <2>1, <2>2, <2>3, <2>4 DEF Ordered
<1> QED
  BY <1>1, <1>2 DEF CalmOrdered

(* The server gives a request up only if a packet with its request id has been
   lost, duplicated or overtaken, two threads have had packets with it at the same
   time, or the request is longer than the buffer of the main thread, whatever
   happens to the packets of other ids, for any number of threads and requests
   (Server.cpp, rxThread; PacketReader.cpp, put). *)
THEOREM FailuresHaveCauses == Spec => []FailureHasCause
<1>1. Init => Separate /\ CalmOrdered
  BY CalmOrderedInit
<1>2. Separate /\ CalmOrdered /\ Safe /\ [Next]_vars => (Separate /\ CalmOrdered)'
  <2> SUFFICES ASSUME Separate, CalmOrdered, Safe, [Next]_vars
               PROVE  Separate' /\ CalmOrdered'
    OBVIOUS
  <2>1. Separate'
    BY SeparateStep DEF Safe
  <2>2. Keys' = Keys
    BY DEF Keys
  <2>3. ASSUME NEW key \in Keys, Calm(key)'
        PROVE  Mine(key)' /\ Ordered(key)'
    <3>1. key \notin lost' /\ key \notin raced' /\ Calm(key)
      BY <2>3, CausesStay DEF Calm
    <3>2. Mine(key) /\ Ordered(key)
      BY <3>1 DEF CalmOrdered
    <3> QED
      BY <3>1, <3>2, MineStep, OrderedStep DEF Safe
  <2> QED
    BY <2>1, <2>2, <2>3 DEF CalmOrdered
<1>3. CalmOrdered /\ Safe => FailureHasCause
  <2> SUFFICES ASSUME CalmOrdered, Safe, NEW t \in Threads, pc[t] = "failed", Calm(Key(t))
               PROVE  TooLong(packet[t].message)
    BY DEF FailureHasCause
  <2>1. PICK d : d = packet[t]
    OBVIOUS
  <2>2. Key(t) \in Keys /\ Handles(t, Key(t))
    BY DEF Safe, Types, ThreadTypes, Handles
  <2>3. Ordered(Key(t))
    BY <2>2 DEF CalmOrdered
  <2>4. Came(d) /\ SizeUpTo(d.message)[d.index] > MaxRequestSize
    BY <2>1, <2>2, <2>3, CarriedIs
  <2>5. d.index \in DOMAIN Cut[d.message]
    BY <2>4, CutMade DEF Came
  <2> QED
    BY <2>1, <2>4, <2>5 DEF TooLong
<1> QED
  BY <1>1, <1>2, <1>3, SafeAlways, PTL DEF Spec

-----------------------------------------------------------------------------
(* What is served                                                          *)

\* The packets of requests with one key can be told from each other by their
\* sequence numbers: a writer starts at rand () (PacketWriter.cpp), so this is
\* likely and not certain.
Tellable ==
  \A m, n \in Messages : \A i \in 1..Parts(m), j \in 1..Parts(n) :
    Rid[m] = Rid[n] /\ Cut[m][i].seq = Cut[n][j].seq => m = n /\ i = j

PacketsOf(m) == {Received(Cut[m][i]) : i \in 1..Parts(m)}

\* Reader x has the first k packets of m, and has counted their bytes at least:
\* a request that is started over is not counted anew.
Gathered(x, m, k) ==
  /\ m \in Messages /\ k \in 1..Parts(m)
  /\ x.packets \in Seq(PacketsOf(m)) /\ Len(x.packets) = k
  /\ \A i \in 1..k : x.packets[i] = Received(Cut[m][i])
  /\ x.size \in Nat /\ SizeUpTo(m)[k] <= x.size /\ x.size <= MaxRequestSize

\* It is new, or it has some of the packets of a request with the key and waits
\* for the next of them.
Gathers(x, m, k) ==
  /\ Gathered(x, m, k) /\ k + 1 \in 1..Parts(m)
  /\ x.started /\ x.nextSeq = Cut[m][k + 1].seq /\ x.left = Parts(m) - k
  /\ DOMAIN x = DOMAIN NewReader

Partial(x, key) ==
  \/ x = NewReader
  \/ \E m \in Messages : \E k \in 1..Parts(m) : Rid[m] = key /\ Gathers(x, m, k)

\* It has all packets of a request.
Full(x) == \E m \in Messages : Gathered(x, m, Parts(m))

\* Every packet is one that was sent.
Genuine ==
  /\ \A i \in DOMAIN net : Sent(net[i])
  /\ \A t \in Threads : Handles(t, Key(t)) => Came(packet[t])

Done == {"complete", "failed"}

\* What the entries of the map, the threads, the queue and the main thread have
Filled ==
  /\ \A key \in Keys :
       rmap[key] # None /\ (\A t \in Threads : pc[t] \in Done => Key(t) # key)
       => Partial(request[rmap[key]], key)
  /\ \A t \in Threads : pc[t] \in {"complete", "post"} => Full(request[req[t]])
  /\ \A i \in DOMAIN rxQueue : Full(request[rxQueue[i]])
  /\ \A i \in DOMAIN served : Full(served[i])
  /\ \E S : served \in Seq(S)

(* What put makes of a packet that was sent, in a reader for its key *)
LEMMA PutGathers ==
  ASSUME Tellable, NEW m \in Messages, NEW i \in 1..Parts(m),
         NEW d, d = Received(Cut[m][i]), NEW x, Partial(x, Rid[m]),
         NEW p, p = Put(x, d)
  PROVE  /\ p.result \in {"NEXTPACKET", "COMPLETE", "FAILED"}
         /\ p.result = "NEXTPACKET" => Partial(p.reader, Rid[m])
         /\ p.result = "COMPLETE" => Full(p.reader)
<1>1. /\ Parts(m) \in Nat \ {0} /\ i \in Nat \ {0} /\ i <= Parts(m)
      /\ Made(m, i, d) /\ Made(m, i, Cut[m][i])
  BY CutMade
<1>2. /\ SizeUpTo(m)[0] = 0 /\ SizeUpTo(m)[i - 1] \in Nat /\ Len(d.payload) \in Nat
      /\ SizeUpTo(m)[i] = SizeUpTo(m)[i - 1] + Len(d.payload)
  BY SizeFollows
<1>3. MaxRequestSize \in Nat /\ d \in PacketsOf(m)
  BY PacketsAssumption DEF PacketsOf
<1> DEFINE y == Restart(x, d)
           next == Linked(y, d)
<1>4. /\ p.result \in {"NEXTPACKET", "COMPLETE", "FAILED"}
      /\ p.result # "FAILED" =>
           /\ y.started \/ d.first
           /\ y.started => y.nextSeq = d.seq
           /\ ~(next.size > MaxRequestSize) /\ d.last = (next.left = 0)
           /\ p.reader = next /\ p.result = IF d.last THEN "COMPLETE" ELSE "NEXTPACKET"
  BY Zenon DEF Put, InSequence
<1>5. /\ next.packets = Append(y.packets, d) /\ next.started
      /\ next.nextSeq = (d.seq + 1) % SeqRange
      /\ next.left = (IF y.started THEN y.left ELSE d.packets) - 1
      /\ next.size = y.size + Len(d.payload)
  BY DEF Linked
<1>6. /\ y.size = x.size
      /\ ~d.first \/ ~x.started => y = x
      /\ d.first /\ x.started => y.packets = << >> /\ ~y.started
  <2>1. DOMAIN x = DOMAIN NewReader
    BY DEF Partial, Gathers
  <2>2. /\ "packets" \in DOMAIN x /\ "started" \in DOMAIN x /\ "size" \in DOMAIN x
    BY <2>1 DEF NewReader
  <2> QED
    BY <2>2 DEF Restart
<1>7. DOMAIN next = DOMAIN NewReader
  BY DEF Linked, NewReader
<1> HIDE DEF y, next
\* The first packet starts a request, or starts it over,
<1>8. ASSUME d.first, p.result # "FAILED"
      PROVE  Gathered(next, m, 1) /\ i = 1 /\ next.left = Parts(m) - 1
  <2>1. i = 1 /\ d.packets = Parts(m)
    BY <1>1, <1>8 DEF Made
  <2>2. x.size \in Nat
    BY DEF Partial, Gathers, Gathered, NewReader
  <2>3. y.packets = << >> /\ ~y.started
    <3>1. CASE x.started
      BY <1>6, <1>8, <3>1
    <3>2. CASE ~x.started
      <4>1. x = NewReader
        BY <3>2 DEF Partial, Gathers
      <4> QED
        BY <1>6, <3>2, <4>1 DEF NewReader
    <3> QED
      BY <3>1, <3>2
  <2>4. next.packets = <<d>>
    BY <1>5, <2>3
  <2>5. /\ next.packets \in Seq(PacketsOf(m)) /\ Len(next.packets) = 1
        /\ next.packets[1] = Received(Cut[m][1])
    BY <1>3, <2>1, <2>4
  <2>6. next.size \in Nat /\ SizeUpTo(m)[1] <= next.size /\ next.size <= MaxRequestSize
    BY <1>2, <1>3, <1>4, <1>5, <1>6, <1>8, <2>1, <2>2
  <2>7. next.left = Parts(m) - 1
    BY <1>5, <2>1, <2>3
  <2> QED
    BY <1>1, <2>1, <2>5, <2>6, <2>7 DEF Gathered
\* any other continues the request that it is a packet of.
<1>9. ASSUME ~d.first, p.result # "FAILED"
      PROVE  Gathered(next, m, i) /\ next.left = Parts(m) - i
  <2>1. y = x /\ x.started /\ x.nextSeq = d.seq
    BY <1>4, <1>6, <1>9
  <2>2. PICK n \in Messages : \E k \in 1..Parts(n) : Rid[n] = Rid[m] /\ Gathers(x, n, k)
    BY <2>1 DEF Partial, NewReader
  <2>3. PICK k \in 1..Parts(n) : Rid[n] = Rid[m] /\ Gathers(x, n, k)
    BY <2>2
  <2>4. k + 1 \in 1..Parts(n) /\ Cut[n][k + 1].seq = Cut[m][i].seq
    BY <1>1, <2>1, <2>3 DEF Gathers, Made
  <2>5. PICK j \in 1..Parts(n) : j = k + 1
    BY <2>4
  <2>6. n = m /\ j = i
    BY <2>3, <2>4, <2>5 DEF Tellable
  <2>7. n = m /\ k = i - 1 /\ k \in Nat \ {0}
    BY <1>1, <2>3, <2>5, <2>6
  <2>8. Gathered(x, m, k) /\ x.left = Parts(m) - k
    BY <2>3, <2>7 DEF Gathers
  <2>9. /\ next.packets \in Seq(PacketsOf(m)) /\ Len(next.packets) = i
        /\ \A q \in 1..i : next.packets[q] = Received(Cut[m][q])
    <3>1. /\ x.packets \in Seq(PacketsOf(m)) /\ Len(x.packets) = k
          /\ \A q \in 1..k : x.packets[q] = Received(Cut[m][q])
      BY <2>8 DEF Gathered
    <3>2. next.packets = Append(x.packets, d)
      BY <1>5, <2>1
    <3>3. /\ next.packets \in Seq(PacketsOf(m)) /\ Len(next.packets) = i
          /\ next.packets[i] = d /\ \A q \in 1..k : next.packets[q] = x.packets[q]
      BY <1>1, <1>3, <2>7, <3>1, <3>2
    <3>4. \A q \in 1..i : q = i \/ q \in 1..k
      BY <1>1, <2>7
    <3> QED
      BY <3>1, <3>3, <3>4
  <2>10. next.size \in Nat /\ SizeUpTo(m)[i] <= next.size /\ next.size <= MaxRequestSize
    <3>1. x.size \in Nat /\ SizeUpTo(m)[i - 1] <= x.size
      BY <2>7, <2>8 DEF Gathered
    <3> QED
      BY <1>2, <1>3, <1>4, <1>5, <1>6, <1>9, <3>1
  <2>11. next.left = Parts(m) - i
    BY <1>1, <1>5, <2>1, <2>7, <2>8
  <2> QED
    BY <2>9, <2>10, <2>11 DEF Gathered
<1>10. ASSUME p.result # "FAILED"
       PROVE  Gathered(next, m, i) /\ next.left = Parts(m) - i
  BY <1>8, <1>9, <1>10
<1>11. ASSUME p.result = "COMPLETE"
       PROVE  Full(p.reader)
  <2>1. d.last
    BY <1>4, <1>11
  <2>2. i = Parts(m)
    BY <1>1, <2>1 DEF Made
  <2> QED
    BY <1>4, <1>10, <1>11, <2>2 DEF Full
<1>12. ASSUME p.result = "NEXTPACKET"
       PROVE  Partial(p.reader, Rid[m])
  <2>1. ~d.last /\ p.reader = next
    BY <1>4, <1>12
  <2>2. i + 1 \in 1..Parts(m)
    BY <1>1, <2>1 DEF Made
  <2>3. (d.seq + 1) % SeqRange = Cut[m][i + 1].seq
    BY <2>2, NextSequence
  <2>4. Gathers(next, m, i)
    BY <1>5, <1>7, <1>10, <1>12, <2>2, <2>3 DEF Gathers
  <2> QED
    BY <2>1, <2>4 DEF Partial
<1> QED
  BY <1>4, <1>11, <1>12

LEMMA FlattenLength ==
  ASSUME NEW n \in Nat \ {0}, NEW s \in Seq(Seq(Int)), Len(s) = n,
         NEW size, size[0] = 0,
         \A i \in 1..n : size[i] = size[i - 1] + Len(s[i])
  PROVE  Len(FlattenSeq(s)) = size[n]
<1> DEFINE S == Seq(Int)
           step(i) == [x \in S |-> x \o s[i]]
           g == [i \in 1..n |-> step(i)]
           Shown(h) == h = [i \in 1..n |-> IF i = 1 THEN s[i] ELSE h[i - 1] \o s[i]]
<1>1. \A i \in 1..n : s[i] \in Seq(Int)
  OBVIOUS
<1>2. << >> \in Seq(Int) /\ \A x \in Seq(Int) : << >> \o x = x
  OBVIOUS
<1>3. ASSUME NEW x \in Seq(Int), NEW y \in Seq(Int)
      PROVE  x \o y \in Seq(Int) /\ Len(x \o y) = Len(x) + Len(y)
  OBVIOUS
<1> HIDE DEF S
<1>4. g \in [1..n -> [S -> S]]
  BY <1>1, <1>3 DEF S
<1> HIDE DEF g
<1>5. PICK f \in [0..n -> S] : f[0] = << >> /\ \A i \in 1..n : f[i] = g[i][f[i - 1]]
  <2>1. << >> \in S
    BY <1>2 DEF S
  <2>2. \E f : Iterates(S, << >>, n, g, f)
    BY <1>4, <2>1, Recursion, Zenon
  <2> QED
    BY <2>2 DEF Iterates
<1>6. ASSUME NEW i \in 1..n
      PROVE  f[i] = IF i = 1 THEN s[i] ELSE f[i - 1] \o s[i]
  <2>1. i - 1 \in 0..n
    OBVIOUS
  <2>2. f[i - 1] \in S
    BY <2>1
  <2>3. f[i] = f[i - 1] \o s[i]
    BY <1>5, <2>2 DEF g
  <2>4. i = 1 => f[i - 1] = << >>
    BY <1>5
  <2> QED
    BY <1>1, <1>2, <2>3, <2>4
<1> DEFINE h == [i \in 1..n |-> f[i]]
<1>7. Shown(h)
  <2>1. ASSUME NEW i \in 1..n PROVE h[i] = IF i = 1 THEN s[i] ELSE h[i - 1] \o s[i]
    <3>1. i # 1 => i - 1 \in 1..n
      OBVIOUS
    <3> QED
      BY <1>6, <3>1
  <2> QED
    BY <2>1
<1> HIDE DEF h
<1>8. PICK e : e = CHOOSE x : Shown(x)
  OBVIOUS
<1>9. Shown(e)
  <2> HIDE DEF Shown
  <2> QED
    BY <1>7, <1>8
<1>10. FlattenSeq(s) = e[n]
  BY <1>8 DEF FlattenSeq
<1> DEFINE Bad == {i \in 1..n : ~(e[i] \in Seq(Int) /\ Len(e[i]) = size[i])}
<1>11. Bad = {}
  <2> SUFFICES ASSUME Bad # {} PROVE FALSE
    OBVIOUS
  <2>1. Bad \in SUBSET Nat
    OBVIOUS
  <2>2. PICK k \in Bad : \A j \in Bad : k <= j
    BY <2>1, LeastMember
  <2>3. k \in 1..n /\ ~(e[k] \in Seq(Int) /\ Len(e[k]) = size[k])
    OBVIOUS
  <2>4. e[k] = IF k = 1 THEN s[k] ELSE e[k - 1] \o s[k]
    BY <1>9, <2>3
  <2>5. s[k] \in Seq(Int) /\ Len(s[k]) \in Nat
    BY <1>1, <2>3
  <2>6. size[k] = size[k - 1] + Len(s[k])
    BY <2>3
  <2>7. CASE k = 1
    <3>1. e[k] = s[k] /\ size[k] = 0 + Len(s[k])
      BY <2>4, <2>6, <2>7
    <3> QED
      BY <2>3, <2>5, <3>1
  <2>8. CASE k # 1
    <3>1. k - 1 \in 1..n /\ ~(k <= k - 1)
      BY <2>3, <2>8
    <3>2. e[k - 1] \in Seq(Int) /\ Len(e[k - 1]) = size[k - 1]
      BY <2>2, <3>1
    <3> QED
      BY <1>3, <2>3, <2>4, <2>5, <2>6, <2>8, <3>2
  <2> QED
    BY <2>7, <2>8
<1>12. e[n] \in Seq(Int) /\ Len(e[n]) = size[n]
  <2>1. n \in 1..n
    OBVIOUS
  <2> QED
    BY <1>11, <2>1
<1> QED
  BY <1>10, <1>12

(* A reader with all packets has a whole request, which fits in the buffer. *)
LEMMA FullWhole ==
  ASSUME NEW x, Full(x)
  PROVE  Whole(x.packets) /\ Len(Contents(x)) <= MaxRequestSize
<1>1. PICK m \in Messages : Gathered(x, m, Parts(m))
  BY DEF Full
<1>2. PICK n \in Nat \ {0} : n = Parts(m)
  BY CutMade
<1>3. PICK s : s = x.packets
  OBVIOUS
<1>4. /\ s \in Seq(PacketsOf(m)) /\ Len(s) = n /\ DOMAIN s = 1..n
      /\ \A i \in 1..n : s[i] = Received(Cut[m][i])
      /\ SizeUpTo(m)[n] <= x.size /\ x.size <= MaxRequestSize /\ x.size \in Nat
  BY <1>1, <1>2, <1>3 DEF Gathered
<1>5. ASSUME NEW i \in 1..n
      PROVE  /\ s[i].message = m /\ s[i].index = i /\ s[i].of = n
             /\ Len(s[i].payload) \in Nat /\ s[i].payload \in Seq(Int)
             /\ SizeUpTo(m)[i] = SizeUpTo(m)[i - 1] + Len(s[i].payload)
             /\ SizeUpTo(m)[i - 1] \in Nat
  <2>1. PICK d : d = s[i]
    OBVIOUS
  <2>2. d = Received(Cut[m][i]) /\ i \in 1..Parts(m)
    BY <1>2, <1>4, <2>1
  <2>3. Made(m, i, d)
    BY <2>2, CutMade
  <2>4. /\ d.payload \in Seq(Int) /\ Len(d.payload) \in Nat
        /\ SizeUpTo(m)[i - 1] \in Nat
        /\ SizeUpTo(m)[i] = SizeUpTo(m)[i - 1] + Len(d.payload)
    BY <2>2, SizeFollows
  <2> QED
    BY <1>2, <2>1, <2>3, <2>4 DEF Made
<1>6. Whole(s)
  BY <1>4, <1>5 DEF Whole
<1>7. PICK c : c = [i \in DOMAIN s |-> s[i].payload]
  OBVIOUS
<1>8. c \in Seq(Seq(Int)) /\ Len(c) = n /\ \A i \in 1..n : c[i] = s[i].payload
  BY <1>4, <1>5, <1>7
<1>9. PICK size : size = SizeUpTo(m)
  OBVIOUS
<1>10. size[0] = 0 /\ \A i \in 1..n : size[i] = size[i - 1] + Len(c[i])
  BY <1>5, <1>8, <1>9, SizeFollows
<1>11. Len(FlattenSeq(c)) = size[n]
  BY <1>8, <1>10, FlattenLength
<1>12. Contents(x) = FlattenSeq(c)
  BY <1>3, <1>7 DEF Contents
<1>13. size[n] \in Nat
  <2>1. n \in 1..n
    BY <1>2
  <2>2. /\ SizeUpTo(m)[n] = SizeUpTo(m)[n - 1] + Len(s[n].payload)
        /\ SizeUpTo(m)[n - 1] \in Nat /\ Len(s[n].payload) \in Nat
    BY <1>5, <2>1
  <2> QED
    BY <1>9, <2>2
<1>14. Len(Contents(x)) <= MaxRequestSize
  BY <1>4, <1>9, <1>11, <1>12, <1>13, PacketsAssumption
<1> QED
  BY <1>3, <1>6, <1>14

LEMMA GenuineStep ==
  ASSUME Types, Genuine, [Next]_vars
  PROVE  Genuine'
<1>1. \A i \in DOMAIN net' : Sent(net'[i])
  <2>1. CASE net' = net
    BY <2>1 DEF Genuine
  <2>2. ASSUME NEW m \in Messages, Send(m)
        PROVE  \A i \in DOMAIN net' : Sent(net'[i])
    <3>1. net' = net \o Cut[m]
      BY <2>2 DEF Send
    <3>2. PICK key, L, n : Sends(m, key, L, n)
      BY <3>1, SendsIs DEF Types
    <3>3. ASSUME NEW i \in DOMAIN net', i \notin 1..L
          PROVE  Sent(net'[i])
      <4>1. i - L \in 1..n /\ i = L + (i - L)
        BY <3>2, <3>3 DEF Sends
      <4>2. PICK x \in 1..n : i = L + x
        BY <4>1
      <4> QED
        BY <3>2, <4>2 DEF Sends
    <3> QED
      BY <3>2, <3>3 DEF Sends, Genuine
  <2>3. ASSUME NEW i \in DOMAIN net, net' = RemoveAt(net, i)
        PROVE  \A j \in DOMAIN net' : Sent(net'[j])
    <3>1. Takes(i, Len(net))
      BY <2>3, TakesIs DEF Types
    <3> QED
      BY <3>1 DEF Takes, Genuine
  <2>4. ASSUME NEW i \in DOMAIN net, Duplicate(i)
        PROVE  \A j \in DOMAIN net' : Sent(net'[j])
    <3>1. PICK D : net \in Seq(D)
      BY DEF Types, NetTypes, Carried
    <3>2. net' = Append(net, net[i])
      BY <2>4 DEF Duplicate
    <3>3. \A j \in DOMAIN net' : \E k \in DOMAIN net : net'[j] = net[k]
      BY <3>1, <3>2
    <3> QED
      BY <3>3 DEF Genuine
  <2>5. \/ net' = net
        \/ \E m \in Messages : Send(m)
        \/ \E i \in DOMAIN net : Duplicate(i)
        \/ \E i \in DOMAIN net : net' = RemoveAt(net, i)
    BY DEF Next, Lose, Step, Recv, Find, Deref, PutPacket, EraseComplete, PostRequest,
           EraseFailed, DeleteRequest, Serve, vars, netVars
  <2> QED
    BY <2>1, <2>2, <2>3, <2>4, <2>5
<1>2. ASSUME NEW t \in Threads, Handles(t, Key(t))'
      PROVE  Came(packet'[t])
  <2>1. CASE Handles(t, Key(t)) /\ packet'[t] = packet[t]
    BY <2>1 DEF Genuine
  <2>2. ASSUME NEW i \in DOMAIN net, Recv(t, i)
        PROVE  Came(packet'[t])
    <3>1. packet'[t] = Received(net[i]) /\ Sent(net[i])
      BY <2>2 DEF Recv, Types, ThreadTypes, Genuine
    <3>2. PICK e : e = net[i]
      OBVIOUS
    <3>3. PICK d : d = Received(e)
      OBVIOUS
    <3>4. Made(e.message, e.index, e) /\ Made(e.message, e.index, d) /\ Sent(e)
      BY <3>1, <3>2, <3>3, CutMade DEF Sent
    <3>5. Came(d)
      BY <3>3, <3>4 DEF Made, Sent, Came
    <3> QED
      BY <3>1, <3>2, <3>3, <3>5
  <2>3. ASSUME NEW u \in Threads, Step(u)
        PROVE  \/ Handles(t, Key(t)) /\ packet'[t] = packet[t]
               \/ \E i \in DOMAIN net : Recv(t, i)
    <3>1. CASE u = t
      BY <1>2, <2>3, <3>1
      DEF Step, Find, Deref, PutPacket, EraseComplete, PostRequest, EraseFailed,
          DeleteRequest, Loop, Handles, Key, Types, ThreadTypes
    <3>2. CASE u # t
      BY <1>2, <2>3, <3>2
      DEF Step, Recv, Find, Deref, PutPacket, EraseComplete, PostRequest, EraseFailed,
          DeleteRequest, Loop, Handles, Key, Types, ThreadTypes
    <3> QED
      BY <3>1, <3>2
  <2>4. CASE UNCHANGED <<pc, packet>>
    BY <1>2, <2>1, <2>4 DEF Handles, Key
  <2>5. (\E u \in Threads : Step(u)) \/ UNCHANGED <<pc, packet>>
    BY DEF Next, Send, Lose, Duplicate, Serve, vars, threadVars
  <2> QED
    BY <2>1, <2>2, <2>3, <2>4, <2>5
<1> QED
  BY <1>1, <1>2 DEF Genuine, Sent, Came, Parts

(* A step that touches no Request there is *)
LEMMA FilledStays ==
  ASSUME Types, Filled, UNCHANGED <<rmap, rxQueue, served>>,
         \A r \in Requests : request'[r] = request[r],
         \A u \in Threads :
           /\ pc[u] \in Done => pc'[u] = pc[u] /\ packet'[u] = packet[u]
           /\ pc'[u] \in {"complete", "post"} => pc'[u] = pc[u] /\ req'[u] = req[u]
  PROVE  Filled'
<1>1. /\ \A key \in Keys : rmap[key] # None => rmap[key] \in Requests
      /\ \A u \in Threads : pc[u] \in {"complete", "post"} => req[u] \in Requests
      /\ \A i \in DOMAIN rxQueue : rxQueue[i] \in Requests
  BY DEF Types, StoreTypes, ThreadTypes, Having
<1>2. ASSUME NEW key \in Keys, rmap'[key] # None,
             \A t \in Threads : pc'[t] \in Done => Key(t)' # key
      PROVE  Partial(request'[rmap'[key]], key)
  <2>1. \A t \in Threads : pc[t] \in Done => Key(t) # key
    BY <1>2 DEF Key
  <2> QED
    BY <1>1, <1>2, <2>1 DEF Filled
<1>3. \A t \in Threads : pc'[t] \in {"complete", "post"} => Full(request'[req'[t]])
  BY <1>1 DEF Filled
<1>4. \A i \in DOMAIN rxQueue' : Full(request'[rxQueue'[i]])
  BY <1>1 DEF Filled
<1> QED
  BY <1>2, <1>3, <1>4 DEF Filled

LEMMA FilledNew ==
  ASSUME Types, Filled, NEW t \in Threads, Find(t), rmap[Key(t)] = None
  PROVE  Filled'
<1>1. PICK key : key = Key(t)
  OBVIOUS
<1>2. /\ key \in Keys /\ pc[t] = "find"
      /\ request' = Append(request, NewReader)
      /\ rmap' = [rmap EXCEPT ![key] = Len(request')]
      /\ pc' = [pc EXCEPT ![t] = "put"] /\ req' = [req EXCEPT ![t] = Len(request')]
      /\ UNCHANGED <<packet, rxQueue, served>>
  <2>1. None \notin Requests
    BY DEF Requests, None
  <2> QED
    BY <1>1, <2>1 DEF Types, ThreadTypes, Find
<1>3. PICK S : request \in Seq(S)
  BY DEF Types, StoreTypes
<1>4. /\ Len(request') = Len(request) + 1 /\ request'[Len(request')] = NewReader
      /\ \A r \in Requests : request'[r] = request[r]
  BY <1>2, <1>3 DEF Requests
<1>5. /\ \A k \in Keys : rmap[k] # None => rmap[k] \in Requests
      /\ \A u \in Threads : pc[u] \in {"complete", "post"} => req[u] \in Requests
      /\ \A i \in DOMAIN rxQueue : rxQueue[i] \in Requests
      /\ rmap'[key] = Len(request') /\ \A k \in Keys \ {key} : rmap'[k] = rmap[k]
      /\ \A u \in Threads \ {t} : pc'[u] = pc[u] /\ req'[u] = req[u]
      /\ pc'[t] = "put"
  BY <1>2 DEF Types, StoreTypes, ThreadTypes, Having
<1>6. ASSUME NEW k \in Keys, rmap'[k] # None,
             \A u \in Threads : pc'[u] \in Done => Key(u)' # k
      PROVE  Partial(request'[rmap'[k]], k)
  <2>1. CASE k = key
    BY <1>4, <1>5, <2>1 DEF Partial
  <2>2. CASE k # key
    <3>1. \A u \in Threads : pc[u] \in Done => Key(u) # k
      BY <1>2, <1>5, <1>6 DEF Key, Done
    <3> QED
      BY <1>4, <1>5, <1>6, <2>2, <3>1 DEF Filled
  <2> QED
    BY <2>1, <2>2
<1>7. \A u \in Threads : pc'[u] \in {"complete", "post"} => Full(request'[req'[u]])
  BY <1>4, <1>5 DEF Filled
<1>8. \A i \in DOMAIN rxQueue' : Full(request'[rxQueue'[i]])
  BY <1>2, <1>4, <1>5 DEF Filled
<1> QED
  BY <1>2, <1>6, <1>7, <1>8 DEF Filled

LEMMA FilledPut ==
  ASSUME Tellable, Types, Owned, Genuine, Filled, NEW t \in Threads, PutPacket(t)
  PROVE  Filled'
<1>1. /\ ThreadTypes /\ StoreTypes /\ Alone /\ MapOnce /\ Apart /\ None \notin Requests
      /\ \A key \in Keys : rmap[key] # None => rmap[key] \in Requests
  BY DEF Types, Owned, Placed, Requests, None, StoreTypes
<1>2. PICK key : key = Key(t)
  OBVIOUS
<1>3. PICK d : d = packet[t]
  OBVIOUS
<1>4. PICK p : p = Put(request[req[t]], d)
  OBVIOUS
<1>5. PICK r : r = req[t]
  OBVIOUS
<1>6. /\ pc[t] = "put" /\ UNCHANGED <<rmap, rxQueue, served>>
      /\ request' = [request EXCEPT ![r] = p.reader]
      /\ \/ p.result = "NEXTPACKET" /\ Loop(t)
         \/ /\ p.result # "NEXTPACKET"
            /\ pc' = [pc EXCEPT ![t] = IF p.result = "COMPLETE" THEN "complete"
                                                                ELSE "failed"]
            /\ UNCHANGED <<packet, iter, req>>
  BY <1>3, <1>4, <1>5 DEF PutPacket
<1>7. Handles(t, key) /\ key \in Keys
  BY <1>1, <1>2, <1>6 DEF Handles, ThreadTypes
<1>8. Came(d)
  BY <1>2, <1>3, <1>7 DEF Genuine
<1>9. r = rmap[key] /\ r \in Requests /\ r # None
  BY <1>1, <1>2, <1>5, <1>6 DEF Owned, Found, ThreadTypes, Looking, Having
<1>10. PICK m \in Messages : m = d.message
  BY <1>8 DEF Came
<1>11. PICK i \in 1..Parts(m) : i = d.index
  BY <1>8, <1>10 DEF Came
<1>12. d = Received(Cut[m][i]) /\ key = Rid[m]
  <2>1. d = Received(Cut[m][i])
    BY <1>8, <1>10, <1>11 DEF Came
  <2>2. d.rid = Rid[m]
    BY <2>1, CutMade DEF Made
  <2> QED
    BY <1>2, <1>3, <2>1, <2>2 DEF Key
<1>13. Partial(request[r], key)
  <2>1. \A u \in Threads : pc[u] \in Done => Key(u) # key
    BY <1>1, <1>2, <1>6, <1>7 DEF Alone, Handles, Done
  <2> QED
    BY <1>7, <1>9, <2>1 DEF Filled
<1>14. /\ p.result \in {"NEXTPACKET", "COMPLETE", "FAILED"}
       /\ p.result = "NEXTPACKET" => Partial(p.reader, key)
       /\ p.result = "COMPLETE" => Full(p.reader)
  <2>1. PICK x : x = request[r]
    OBVIOUS
  <2>2. Partial(x, Rid[m]) /\ p = Put(x, d)
    BY <1>4, <1>5, <1>12, <1>13, <2>1
  <2> QED
    BY <1>12, <2>2, PutGathers
<1>15. request'[r] = p.reader /\ \A q \in Requests : q # r => request'[q] = request[q]
  <2>1. PICK S : request \in Seq(S)
    BY <1>1 DEF StoreTypes
  <2>2. DOMAIN request = Requests
    BY <2>1 DEF Requests
  <2> QED
    BY <1>6, <1>9, <2>2
<1>16. /\ \A u \in Threads \ {t} : pc'[u] = pc[u] /\ packet'[u] = packet[u] /\ req'[u] = req[u]
       /\ pc'[t] = IF p.result = "NEXTPACKET" THEN "recv"
                   ELSE IF p.result = "COMPLETE" THEN "complete" ELSE "failed"
       /\ p.result # "NEXTPACKET" => packet'[t] = packet[t] /\ req'[t] = r
  BY <1>1, <1>5, <1>6 DEF ThreadTypes, Loop
<1>17. ASSUME NEW k \in Keys, rmap'[k] # None,
              \A u \in Threads : pc'[u] \in Done => Key(u)' # k
       PROVE  Partial(request'[rmap'[k]], k)
  <2>1. CASE k = key
    <3>1. pc'[t] \notin Done
      BY <1>2, <1>3, <1>16, <1>17, <2>1 DEF Key, Done
    <3>2. p.result = "NEXTPACKET"
      BY <1>16, <3>1 DEF Done
    <3> QED
      BY <1>6, <1>9, <1>14, <1>15, <2>1, <3>2
  <2>2. CASE k # key
    <3>1. \A u \in Threads : pc[u] \in Done => Key(u) # k
      BY <1>2, <1>16, <1>17, <2>2 DEF Key
    <3>2. rmap[k] \in Requests /\ rmap[k] # r
      BY <1>1, <1>6, <1>7, <1>9, <1>17, <2>2 DEF MapOnce
    <3> QED
      BY <1>6, <1>15, <1>17, <3>1, <3>2 DEF Filled
  <2> QED
    BY <2>1, <2>2
<1>18. InMap(r)
  BY <1>7, <1>9 DEF InMap
<1>19. ASSUME NEW u \in Threads, pc'[u] \in {"complete", "post"}
       PROVE  Full(request'[req'[u]])
  <2>1. CASE u = t
    BY <1>14, <1>15, <1>16, <1>19, <2>1
  <2>2. CASE u # t
    <3>1. pc[u] \in {"complete", "post"} /\ req'[u] = req[u] /\ req[u] \in Requests
      BY <1>1, <1>16, <1>19, <2>2 DEF ThreadTypes, Having
    <3>2. req[u] # r
      <4>1. CASE pc[u] = "post"
        BY <1>1, <1>9, <1>18, <4>1 DEF Apart, InThread, Taken
      <4>2. CASE pc[u] = "complete"
        <5>1. req[u] = rmap[Key(u)] /\ Key(u) \in Keys /\ Handles(u, Key(u))
          BY <1>1, <4>2 DEF Owned, Found, Looking, ThreadTypes, Handles
        <5>2. Key(u) # key
          BY <1>1, <1>2, <1>7, <2>2, <5>1 DEF Alone
        <5> QED
          BY <1>1, <1>7, <1>9, <5>1, <5>2 DEF MapOnce
      <4> QED
        BY <3>1, <4>1, <4>2
    <3> QED
      BY <1>15, <3>1, <3>2 DEF Filled
  <2> QED
    BY <2>1, <2>2
<1>20. ASSUME NEW j \in DOMAIN rxQueue'
       PROVE  Full(request'[rxQueue'[j]])
  <2>1. rxQueue[j] \in Requests /\ InQueue(rxQueue[j]) /\ j \in DOMAIN rxQueue
    BY <1>1, <1>6, <1>20 DEF StoreTypes, InQueue, Occurs
  <2>2. rxQueue[j] # r
    BY <1>1, <1>9, <1>18, <2>1 DEF Apart
  <2> QED
    BY <1>6, <1>15, <2>1, <2>2 DEF Filled
<1> QED
  BY <1>6, <1>17, <1>19, <1>20 DEF Filled

LEMMA FilledErase ==
  ASSUME Types, Owned, Filled, NEW t \in Threads, EraseComplete(t) \/ EraseFailed(t)
  PROVE  Filled'
<1>1. ThreadTypes /\ StoreTypes
  BY DEF Types
<1>2. PICK key : key = Key(t)
  OBVIOUS
<1>3. /\ pc[t] \in Done /\ UNCHANGED <<request, packet, req, rxQueue, served>>
      /\ rmap' = [rmap EXCEPT ![key] = None]
      /\ pc' = [pc EXCEPT ![t] = IF pc[t] = "complete" THEN "post" ELSE "delete"]
  BY <1>2 DEF EraseComplete, EraseFailed, Erase, Done
<1>4. /\ key \in Keys /\ rmap'[key] = None /\ \A k \in Keys \ {key} : rmap'[k] = rmap[k]
      /\ \A u \in Threads \ {t} : pc'[u] = pc[u]
      /\ pc'[t] = IF pc[t] = "complete" THEN "post" ELSE "delete"
  BY <1>1, <1>2, <1>3 DEF ThreadTypes, StoreTypes, Done
<1>5. ASSUME NEW k \in Keys, rmap'[k] # None,
             \A u \in Threads : pc'[u] \in Done => Key(u)' # k
      PROVE  Partial(request'[rmap'[k]], k)
  <2>1. k # key
    BY <1>4, <1>5
  <2>2. \A u \in Threads : pc[u] \in Done => Key(u) # k
    BY <1>2, <1>3, <1>4, <1>5, <2>1 DEF Key
  <2> QED
    BY <1>3, <1>4, <1>5, <2>1, <2>2 DEF Filled
<1>6. \A u \in Threads : pc'[u] \in {"complete", "post"} => Full(request'[req'[u]])
  BY <1>3, <1>4 DEF Filled, Done
<1>7. \A i \in DOMAIN rxQueue' : Full(request'[rxQueue'[i]])
  BY <1>3 DEF Filled
<1> QED
  BY <1>3, <1>5, <1>6, <1>7 DEF Filled

LEMMA FilledPost ==
  ASSUME Types, Filled, NEW t \in Threads, PostRequest(t)
  PROVE  Filled'
<1>1. ThreadTypes /\ StoreTypes
  BY DEF Types
<1>2. /\ pc[t] = "post" /\ Loop(t) /\ rxQueue' = Append(rxQueue, req[t])
      /\ UNCHANGED <<request, rmap, served>>
  BY DEF PostRequest
<1>3. /\ pc'[t] = "recv"
      /\ \A u \in Threads \ {t} : pc'[u] = pc[u] /\ packet'[u] = packet[u] /\ req'[u] = req[u]
  BY <1>1, <1>2 DEF ThreadTypes, Loop
<1>4. ASSUME NEW k \in Keys, rmap'[k] # None,
             \A u \in Threads : pc'[u] \in Done => Key(u)' # k
      PROVE  Partial(request'[rmap'[k]], k)
  <2>1. \A u \in Threads : pc[u] \in Done => Key(u) # k
    BY <1>2, <1>3, <1>4 DEF Key, Done
  <2> QED
    BY <1>2, <1>4, <2>1 DEF Filled
<1>5. \A u \in Threads : pc'[u] \in {"complete", "post"} => Full(request'[req'[u]])
  BY <1>2, <1>3 DEF Filled
<1>6. ASSUME NEW i \in DOMAIN rxQueue'
      PROVE  Full(request'[rxQueue'[i]])
  <2>1. rxQueue'[i] = req[t] \/ \E j \in DOMAIN rxQueue : rxQueue'[i] = rxQueue[j]
    BY <1>1, <1>2, <1>6 DEF StoreTypes
  <2> QED
    BY <1>2, <2>1 DEF Filled
<1> QED
  BY <1>2, <1>4, <1>5, <1>6 DEF Filled

LEMMA FilledServe ==
  ASSUME Types, Filled, Serve
  PROVE  Filled'
<1>1. /\ UNCHANGED <<pc, packet, req, request, rmap>> /\ rxQueue # << >>
      /\ rxQueue' = Tail(rxQueue) /\ served' = Append(served, request[Head(rxQueue)])
  BY DEF Serve, threadVars
<1>2. rxQueue \in Seq(Requests)
  BY DEF Types, StoreTypes
<1>3. PICK S : served \in Seq(S)
  BY DEF Filled
<1>4. PICK x : x = request[Head(rxQueue)]
  OBVIOUS
<1>5. Full(x)
  <2>1. Head(rxQueue) = rxQueue[1] /\ 1 \in DOMAIN rxQueue
    BY <1>1, <1>2
  <2> QED
    BY <1>4, <2>1 DEF Filled
<1>6. /\ \E T : served' \in Seq(T)
      /\ \A i \in DOMAIN served' :
           served'[i] = x \/ (i \in DOMAIN served /\ served'[i] = served[i])
  <2>1. served \in Seq(S \cup {x})
    BY <1>3, SeqMonotonic, Zenon
  <2>2. served' = Append(served, x)
    BY <1>1, <1>4
  <2>3. served' \in Seq(S \cup {x})
    BY <2>1, <2>2
  <2>4. ASSUME NEW i \in DOMAIN served'
        PROVE  served'[i] = x \/ (i \in DOMAIN served /\ served'[i] = served[i])
    <3>1. /\ Len(served) \in Nat /\ DOMAIN served = 1..Len(served)
          /\ DOMAIN Append(served, x) = 1..(Len(served) + 1)
      BY <2>1
    <3>2. CASE i = Len(served) + 1
      BY <2>1, <2>2, <3>2
    <3>3. CASE i # Len(served) + 1
      <4>1. i \in 1..Len(served)
        BY <2>2, <2>4, <3>1, <3>3
      <4> QED
        BY <2>1, <2>2, <4>1
    <3> QED
      BY <3>2, <3>3
  <2> QED
    BY <2>3, <2>4
<1>7. \A i \in DOMAIN served' : Full(served'[i])
  BY <1>5, <1>6 DEF Filled
<1>8. ASSUME NEW i \in DOMAIN rxQueue'
      PROVE  Full(request'[rxQueue'[i]])
  <2>1. \E j \in DOMAIN rxQueue : rxQueue'[i] = rxQueue[j]
    BY <1>1, <1>2, <1>8
  <2> QED
    BY <1>1, <2>1 DEF Filled
<1>9. ASSUME NEW k \in Keys, rmap'[k] # None,
             \A u \in Threads : pc'[u] \in Done => Key(u)' # k
      PROVE  Partial(request'[rmap'[k]], k)
  BY <1>1, <1>9 DEF Filled, Key
<1>10. \A u \in Threads : pc'[u] \in {"complete", "post"} => Full(request'[req'[u]])
  BY <1>1 DEF Filled
<1> QED
  BY <1>6, <1>7, <1>8, <1>9, <1>10 DEF Filled

LEMMA FilledStep ==
  ASSUME Tellable, Types, Owned, Genuine, Filled, [Next]_vars
  PROVE  Filled'
<1>1. CASE (\E m \in Messages : Send(m)) \/ (\E i \in DOMAIN net : Lose(i) \/ Duplicate(i))
             \/ UNCHANGED vars
  BY <1>1, FilledStays DEF Send, Lose, Duplicate, vars, threadVars
<1>2. ASSUME NEW t \in Threads, Step(t)
      PROVE  Filled'
  <2>1. CASE \E i \in DOMAIN net : Recv(t, i)
    <3>1. /\ pc[t] = "recv" /\ pc' = [pc EXCEPT ![t] = "find"]
          /\ \E x : packet' = [packet EXCEPT ![t] = x]
          /\ UNCHANGED <<rmap, request, rxQueue, served, req>>
      BY <2>1 DEF Recv
    <3> QED
      BY <3>1, FilledStays DEF Types, ThreadTypes, Done
  <2>2. CASE Find(t)
    <3>1. CASE rmap[Key(t)] = None
      BY <2>2, <3>1, FilledNew
    <3>2. CASE rmap[Key(t)] # None
      <4>1. /\ pc[t] = "find" /\ pc' = [pc EXCEPT ![t] = "deref"]
            /\ UNCHANGED <<rmap, request, rxQueue, served, req, packet>>
        BY <2>2, <3>2 DEF Find
      <4> QED
        BY <4>1, FilledStays DEF Types, ThreadTypes, Done
    <3> QED
      BY <3>1, <3>2
  <2>3. CASE Deref(t)
    <3>1. /\ pc[t] = "deref" /\ pc' = [pc EXCEPT ![t] = "put"]
          /\ req' = [req EXCEPT ![t] = iter[t]]
          /\ UNCHANGED <<rmap, request, rxQueue, served, packet>>
      BY <2>3 DEF Deref
    <3> QED
      BY <3>1, FilledStays DEF Types, ThreadTypes, Done
  <2>4. CASE PutPacket(t)
    BY <2>4, FilledPut
  <2>5. CASE EraseComplete(t) \/ EraseFailed(t)
    BY <2>5, FilledErase
  <2>6. CASE PostRequest(t)
    BY <2>6, FilledPost
  <2>7. CASE DeleteRequest(t)
    <3>1. /\ pc[t] = "delete" /\ Loop(t)
          /\ UNCHANGED <<rmap, request, rxQueue, served>>
      BY <2>7 DEF DeleteRequest
    <3> QED
      BY <3>1, FilledStays DEF Types, ThreadTypes, Done, Loop
  <2> QED
    BY <1>2, <2>1, <2>2, <2>3, <2>4, <2>5, <2>6, <2>7 DEF Step
<1>3. CASE Serve
  BY <1>3, FilledServe
<1> QED
  BY <1>1, <1>2, <1>3 DEF Next

LEMMA FilledInit ==
  ASSUME Init
  PROVE  Genuine /\ Filled
<1>1. Genuine
  BY DEF Init, Genuine, Handles
<1>2. served = << >> /\ served \in Seq({})
  BY DEF Init
<1>3. Filled
  BY <1>2 DEF Init, Filled
<1> QED
  BY <1>1, <1>3

LEMMA FilledAlways == Spec /\ Tellable => [](raced # {} \/ Filled)
<1> DEFINE Told == Tellable /\ Genuine /\ (raced # {} \/ Filled)
<1>1. Init /\ Tellable => Told
  BY FilledInit
<1>2. Told /\ Safe /\ [Next]_vars => Told'
  <2> SUFFICES ASSUME Told, Safe, [Next]_vars
               PROVE  Genuine' /\ (raced' # {} \/ Filled')
    BY DEF Tellable, Parts
  <2>1. Genuine'
    BY GenuineStep DEF Safe
  <2>2. CASE raced # {}
    BY <2>1, <2>2, CausesStay
  <2>3. CASE raced = {}
    BY <2>1, <2>3, FilledStep DEF Safe
  <2> QED
    BY <2>2, <2>3
<1>3. Told => raced # {} \/ Filled
  OBVIOUS
<1> QED
  BY <1>1, <1>2, <1>3, SafeAlways, PTL DEF Spec

LEMMA FilledServesWhole ==
  ASSUME Filled
  PROVE  ServesWholeRequests
BY FullWhole DEF Filled, ServesWholeRequests

(* Whatever the network loses, duplicates and reorders, the main thread gets
   whole requests, which fit in its buffer, for any number of rx threads and
   requests, if the packets of requests with one key differ in their sequence
   numbers, and up to the moment two threads have packets of one request at the
   same time (PacketReader.cpp, put; Server.cpp, rxThread and decodeRequest). *)
THEOREM OnlyWholeRequestsAreServed ==
  Spec /\ Tellable => [](raced # {} \/ ServesWholeRequests)
<1>1. raced # {} \/ Filled => raced # {} \/ ServesWholeRequests
  BY FilledServesWhole
<1> QED
  BY <1>1, FilledAlways, PTL

(* A server with one rx thread has no such moment. *)
THEOREM OneThreadServesWholeRequests ==
  Spec /\ Tellable /\ (\A t, u \in Threads : t = u) => []ServesWholeRequests
<1> DEFINE One == \A t, u \in Threads : t = u
           Still == One /\ raced = {}
<1>1. Init /\ One => Still
  BY DEF Init
<1>2. Still /\ [Next]_vars => Still'
  <2> SUFFICES ASSUME Still, [Next]_vars, raced' # {} PROVE FALSE
    OBVIOUS
  <2>1. \E t \in Threads : \E i \in DOMAIN net : Recv(t, i)
    BY DEF Next, Send, Lose, Duplicate, Step, Find, Deref, PutPacket,
           EraseComplete, PostRequest, EraseFailed, DeleteRequest, Serve, vars
  <2>2. PICK t \in Threads, i \in DOMAIN net : Recv(t, i)
    BY <2>1
  <2>3. \E u \in Threads : Handles(u, net[i].rid)
    BY <2>2 DEF Recv
  <2> QED
    BY <2>2, <2>3 DEF Recv, Handles
<1>3. Still /\ (raced # {} \/ ServesWholeRequests) => ServesWholeRequests
  OBVIOUS
<1> QED
  BY <1>1, <1>2, <1>3, OnlyWholeRequestsAreServed, PTL DEF Spec
=============================================================================
