---------------------------- MODULE ClientProofs ----------------------------
(***************************************************************************)
(* Theorems about the calls of the clients, for any number of clients, tx  *)
(* threads and calls, any range of the request ids and any network.        *)
(***************************************************************************)
EXTENDS Client, BasicFacts, SequenceTheorems, TLAPS

\* The request ids that are given out.
GivenRids == 1..(RidRange - 1)

\* How many request ids before r the id s has been given out.
Back(r, s) == IF s <= r THEN r - s ELSE r - s + (RidRange - 1)

\* How many calls its client has made since request or response x; fewer than
\* there are request ids.
Age(x)   == number[x.client] - x.number
Young(x) == Age(x) < RidRange - 1

\* The calls a client has made for the answer it is about to wait for.
Current(c) ==
  IF handles[c] # <<>> THEN Len(handles[c]) ELSE IF pc[c] = "waiting" THEN 1 ELSE 0

\* A request or a response x bears a request id of its client that is at most
\* as old as its call, and, if it is one of the current calls, just as old: the
\* calls without a socket, which take no request id, are never among those.
Traced(x) ==
  /\ x.client \in Clients
  /\ x.number \in 1..number[x.client]
  /\ x.rid \in GivenRids /\ rid[x.client] \in GivenRids
  /\ Young(x) =>
       /\ Back(rid[x.client], x.rid) <= Age(x)
       /\ Back(rid[x.client], x.rid) < Current(x.client)
            => Back(rid[x.client], x.rid) = Age(x)

\* A datagram is a part of a response that is traced.
TracedPacket(d) ==
  /\ Traced(d.message) /\ d.rid = d.message.rid
  /\ {"message", "rid", "payload"} \subseteq DOMAIN d

\* Everything on its way is traced; what is on its way to a client is for it.
InFlightOK ==
  /\ \A m \in toServer : Traced(m)
  /\ \A x \in Range(txQueue) : Traced(x)
  /\ \A t \in TxThreads : \A d \in Range(sending[t]) : TracedPacket(d)
  /\ \A c \in Clients : \A d \in Range(toClient[c]) :
       TracedPacket(d) /\ d.message.client = c

\* The handles of getMulti bear the latest request ids, in order.
HandlesOK ==
  \A c \in Clients : \A i \in DOMAIN handles[c] :
    handles[c][i] # 0 =>
      /\ handles[c][i] \in GivenRids /\ rid[c] \in GivenRids
      /\ Back(rid[c], handles[c][i]) <= Len(handles[c]) - i

\* What a client has read so far is young and, unless it reads for readMulti,
\* bears its request id.
ReadersOK ==
  \A c \in Clients : Reading(c) =>
    \A d \in Range(reader[c].packets) :
      /\ Traced(d.message) /\ Young(d.message)
      /\ d.message.client = c
      /\ pc[c] = "waiting" => d.message.rid = rid[c]

\* A sequence of whatever it has.
IsSequence(s) == s \in Seq(Range(s))

\* A packet reader, as far as the proofs need it.
IsReader(r) == {"packets", "started"} \subseteq DOMAIN r /\ IsSequence(r.packets)

\* The types the proofs need.
ClientsTyped ==
  /\ pc \in [Clients -> {"idle", "waiting", "multi"}]
  /\ number \in [Clients -> 0..MaxCalls]
  /\ rid \in [Clients -> Rid]
  /\ handles \in [Clients -> Seq(Rid)]
  /\ \A c \in Clients : pc[c] = "waiting" => handles[c] = <<>>
  /\ \A c \in Clients : pc[c] = "multi" => handles[c] # <<>>
  /\ DOMAIN answer = Clients /\ DOMAIN reader = Clients
  /\ DOMAIN toClient = Clients /\ DOMAIN sending = TxThreads
  /\ IsSequence(txQueue)
  /\ \A t \in TxThreads : IsSequence(sending[t])
  /\ \A c \in Clients : IsSequence(toClient[c]) /\ IsReader(reader[c])

\* No packet is on its way to a client, or left in its socket, for as long as
\* the request ids take to come round.
Prompt ==
  \A c \in Clients : \A d \in Range(toClient[c]) : Young(d.message)

-----------------------------------------------------------------------------
(* Sequences *)

(* What is appended is added to the elements. *)
LEMMA AppendElements ==
  ASSUME NEW s, IsSequence(s), NEW x
  PROVE  /\ IsSequence(Append(s, x))
         /\ \A y \in Range(Append(s, x)) : y \in Range(s) \/ y = x
         /\ Len(Append(s, x)) \in Nat /\ Append(s, x)[1] \in Range(Append(s, x))
<1> DEFINE S == Range(s) \cup {x}
           a == Append(s, x)
<1>1. s \in Seq(S) /\ x \in S
  BY SeqMonotonic DEF IsSequence
<1> HIDE DEF S
<1>2. /\ a \in Seq(S) /\ Len(a) = Len(s) + 1 /\ DOMAIN a = 1..(Len(s) + 1)
      /\ Len(s) \in Nat /\ Len(a) \in Nat /\ 1 \in DOMAIN a
  BY <1>1
<1> HIDE DEF a
<1>3. a \in Seq(Range(a)) /\ Range(a) \subseteq S
  BY <1>2, SeqOfRange, RangeOfSeq
<1>4. a[1] \in Range(a)
  BY <1>2 DEF Range
<1> QED
  BY <1>2, <1>3, <1>4 DEF a, S, IsSequence

(* The first element, and the rest. *)
LEMMA TailElements ==
  ASSUME NEW s, IsSequence(s), s # <<>>
  PROVE  /\ IsSequence(Tail(s)) /\ Range(Tail(s)) \subseteq Range(s)
         /\ Head(s) \in Range(s)
<1>1. Head(s) \in Range(s) /\ Tail(s) \in Seq(Range(s))
  BY HeadTailProperties DEF IsSequence
<1> QED
  BY <1>1, SeqOfRange, RangeOfSeq DEF IsSequence

(* What is left without an element. *)
LEMMA RemoveAtElements ==
  ASSUME NEW s, IsSequence(s), NEW i \in DOMAIN s
  PROVE  /\ IsSequence(RemoveAt(s, i)) /\ Range(RemoveAt(s, i)) \subseteq Range(s)
         /\ s[i] \in Range(s)
<1> DEFINE S == Range(s)
           a == SubSeq(s, 1, i - 1)
           b == SubSeq(s, i + 1, Len(s))
<1>1. s \in Seq(S)
  BY DEF IsSequence
<1>2. Len(s) \in Nat /\ i \in 1..Len(s) /\ \A j \in 1..Len(s) : s[j] \in S
  BY <1>1
<1> HIDE DEF S
<1>3. \A j \in 1..(i - 1) : s[j] \in S
  BY <1>2
<1>4. \A j \in (i + 1)..Len(s) : s[j] \in S
  BY <1>2
<1>5. a \in Seq(S)
  BY <1>1, <1>2, <1>3, SubSeqProperties
<1>6. b \in Seq(S)
  BY <1>1, <1>2, <1>4, SubSeqProperties
<1>7. RemoveAt(s, i) \in Seq(S)
  BY <1>5, <1>6, ConcatProperties DEF RemoveAt
<1>8. s[i] \in S
  BY <1>2
<1> QED
  BY <1>7, <1>8, SeqOfRange, RangeOfSeq DEF IsSequence, S

-----------------------------------------------------------------------------
(* The packets of a response *)

\* A received packet has room for the value of a hit, behind its header.
ValuesFit == ValueLength <= BufferSize - HeaderLength

LEMMA MaxOfOne == Max({1}) = 1
<1>1. \E x \in {1} : \A y \in {1} : x >= y
  OBVIOUS
<1>2. Max({1}) \in {1}
  BY <1>1 DEF Max
<1> QED
  BY <1>2

(* A message without writes is one packet without payload. *)
LEMMA PayloadsOfNone == Payloads(<<>>) = << <<>> >>
<1>1. DOMAIN <<>> = {}
  OBVIOUS
<1> QED
  BY <1>1 DEF Payloads, FoldLeft, MapThenFoldSet

(* And one with one write has the packets that this one fills. *)
LEMMA PayloadsOfOne ==
  ASSUME NEW w
  PROVE  Payloads(<<w>>) = IF w.small THEN WriteSmall(<< <<>> >>, w.bytes)
                                      ELSE WriteBlock(<< <<>> >>, w.bytes)
<1> DEFINE Write(p, x) == IF x.small THEN WriteSmall(p, x.bytes) ELSE WriteBlock(p, x.bytes)
           D == DOMAIN <<w>>
           F(g) == [s \in SUBSET (DOMAIN <<w>>) |->
                      IF s = {} THEN << <<>> >>
                      ELSE Write(g[s \ {Max(s)}], <<w>>[Max(s)])]
           f == CHOOSE g : g = F(g)
           h == [s \in SUBSET D |-> IF s = {} THEN << <<>> >> ELSE Write(<< <<>> >>, w)]
<1>1. Payloads(<<w>>) = f[DOMAIN <<w>>]
  BY DEF Payloads, FoldLeft, MapThenFoldSet
<1>2. D = {1} /\ <<w>>[1] = w
  OBVIOUS
<1>3. SUBSET D = {{}, {1}} /\ {1} \ {1} = {} /\ {1} # {}
  BY <1>2
<1> HIDE DEF Write
<1>4. h = F(h)
  <2>1. h[{}] = << <<>> >>
    BY <1>3
  <2>2. \A s \in SUBSET D : s # {} => s = {1} /\ s \ {Max(s)} = {} /\ <<w>>[Max(s)] = w
    BY <1>2, <1>3, MaxOfOne
  <2>3. \A s \in SUBSET D : h[s] = IF s = {} THEN << <<>> >>
                                            ELSE Write(h[s \ {Max(s)}], <<w>>[Max(s)])
    BY <2>1, <2>2
  <2> QED
    BY <2>3
<1>5. f = F(f)
  <2>1. \E g : g = F(g)
    BY <1>4
  <2> HIDE DEF F
  <2> QED
    BY <2>1
<1> HIDE DEF f
<1>6. \A s \in SUBSET D : f[s] = IF s = {} THEN << <<>> >>
                                          ELSE Write(f[s \ {Max(s)}], <<w>>[Max(s)])
  BY <1>5
<1>7. f[{}] = << <<>> >>
  BY <1>3, <1>6
<1>8. f[{1}] = Write(f[{1} \ {Max({1})}], <<w>>[Max({1})])
  BY <1>3, <1>6
<1>9. f[{1}] = Write(f[{}], w)
  BY <1>2, <1>3, <1>8, MaxOfOne
<1> QED
  BY <1>1, <1>2, <1>7, <1>9 DEF Write

(* A response is one packet at least; a hit that fits is in one, and so is a
   response without a value. *)
LEMMA ResponsePayloads ==
  ASSUME NEW reply
  PROVE  LET ps == Payloads(ResponseWrites(reply))
         IN  /\ Len(ps) \in Nat \ {0}
             /\ reply.cmd # "RESULT_GET" => ps = << <<>> >>
             /\ reply.cmd = "RESULT_GET" /\ ValuesFit =>
                  Len(ps) = 1 /\ Len(ps[1]) = ValueLength
<1>1. CASE reply.cmd # "RESULT_GET"
  <2>1. Payloads(ResponseWrites(reply)) = << <<>> >>
    BY <1>1, PayloadsOfNone DEF ResponseWrites
  <2>2. Len(<< <<>> >>) = 1
    OBVIOUS
  <2> QED
    BY <1>1, <2>1, <2>2
<1>2. CASE reply.cmd = "RESULT_GET"
  <2> DEFINE bytes == [i \in 1..ValueLength |-> 0]
             ps == Payloads(ResponseWrites(reply))
             needed == (ValueLength + Space - 1) \div Space
  <2>1. ValueLength \in Nat /\ Space \in Nat \ {0}
    BY ClientAssumption, PacketsAssumption DEF Space
  <2>2. bytes \in Seq({0}) /\ Len(bytes) = ValueLength
    BY <2>1
  <2>3. ps = WriteBlock(<< <<>> >>, bytes)
    <3>1. ps = Payloads(<<[small |-> FALSE, bytes |-> bytes]>>)
      BY <1>2 DEF ResponseWrites
    <3>2. PICK w : w = [small |-> FALSE, bytes |-> bytes]
      OBVIOUS
    <3>3. w.small = FALSE /\ w.bytes = bytes
      BY <3>2
    <3> HIDE DEF ps, bytes
    <3> QED
      BY <3>1, <3>2, <3>3, PayloadsOfOne
  <2> HIDE DEF ps, bytes
  <2>4. Last(<< <<>> >>) \o bytes = bytes /\ Front(<< <<>> >>) = <<>>
    BY <2>2 DEF Last, Front
  <2>5. CASE bytes = <<>>
    <3>1. ps = << <<>> >>
      BY <2>3, <2>5 DEF WriteBlock
    <3>2. Len(ps) = 1 /\ ps[1] = <<>>
      BY <3>1
    <3> QED
      BY <1>2, <2>2, <2>5, <3>2 DEF ps
  <2>6. CASE bytes # <<>>
    <3>1. ValueLength # 0
      BY <2>2, <2>6, EmptySeq
    <3>2. needed \in Nat \ {0}
      BY <2>1, <3>1
    <3> DEFINE p(i) == SubSeq(bytes, (i - 1) * Space + 1,
                              IF i = needed THEN Len(bytes) ELSE i * Space)
               cut == [i \in 1..needed |-> p(i)]
    <3>3. ps = <<>> \o cut
      BY <2>2, <2>3, <2>4, <2>6 DEF WriteBlock
    <3> HIDE DEF needed, p
    <3>4. cut \in Seq({p(i) : i \in 1..needed}) /\ Len(cut) = needed
      BY <3>2
    <3>5. ps = cut
      BY <3>3, <3>4
    <3>6. ASSUME ValuesFit PROVE Len(ps) = 1 /\ Len(ps[1]) = ValueLength
      <4>1. ValueLength <= Space
        BY <2>1, <3>6, PacketsAssumption DEF ValuesFit, Space
      <4>2. needed = 1
        BY <2>1, <3>1, <4>1 DEF needed
      <4>3. cut[1] = SubSeq(bytes, (1 - 1) * Space + 1, Len(bytes))
        <5>1. cut[1] = p(1)
          BY <4>2
        <5> QED
          BY <4>2, <5>1 DEF p
      <4>4. cut[1] = bytes
        BY <2>1, <2>2, <4>3
      <4> QED
        BY <2>2, <3>4, <3>5, <4>2, <4>4
    <3> QED
      BY <1>2, <3>2, <3>4, <3>5, <3>6 DEF ps
  <2> QED
    BY <2>5, <2>6
<1> QED
  BY <1>1, <1>2

(* The packets of a response are about it. *)
LEMMA DatagramsElements ==
  ASSUME NEW x, NEW seq
  PROVE  LET ds == Datagrams(x, x.rid, seq, ResponseWrites(x.reply))
         IN  /\ IsSequence(ds)
             /\ \A d \in Range(ds) :
                  /\ d.message = x /\ d.rid = x.rid
                  /\ {"message", "rid", "payload"} \subseteq DOMAIN d
<1> DEFINE ps == Payloads(ResponseWrites(x.reply))
           n  == Len(ps)
           ds == Datagrams(x, x.rid, seq, ResponseWrites(x.reply))
<1>1. n \in Nat
  BY ResponsePayloads
<1>2. ds = [i \in 1..n |->
         [message |-> x, index |-> i, of |-> n,
          rid     |-> x.rid,
          seq     |-> (seq + i - 1) % SeqRange,
          packets |-> IF i = 1 THEN n ELSE 0,
          first   |-> i = 1,
          last    |-> i = n,
          payload |-> ps[i]]]
  BY DEF Datagrams
<1> HIDE DEF ps, n, ds
<1>3. DOMAIN ds = 1..n
  BY <1>2
<1>4. \A i \in 1..n : /\ ds[i].message = x /\ ds[i].rid = x.rid
                     /\ {"message", "rid", "payload"} \subseteq DOMAIN ds[i]
  BY <1>2
<1>5. \A i \in 1..n : ds[i] \in Range(ds)
  BY <1>3 DEF Range
<1>6. ds = [i \in 1..n |-> ds[i]]
  BY <1>2
<1>7. ds \in [1..n -> Range(ds)]
  BY <1>5, <1>6
<1>8. ds \in Seq(Range(ds))
  BY <1>1, <1>7, SeqDef
<1>9. \A d \in Range(ds) : \E i \in 1..n : d = ds[i]
  BY <1>3 DEF Range
<1> QED
  BY <1>4, <1>8, <1>9 DEF ds, IsSequence

(* recvfrom keeps the message and the request id. *)
LEMMA ReceivedFields ==
  ASSUME NEW d, {"message", "rid", "payload"} \subseteq DOMAIN d
  PROVE  Received(d).message = d.message /\ Received(d).rid = d.rid
BY DEF Received

(* A reader that accepts a packet has it besides those it had. *)
LEMMA PutElements ==
  ASSUME NEW r, IsReader(r), NEW d, Put(r, d).result \in {"NEXTPACKET", "COMPLETE"}
  PROVE  LET q == Put(r, d).reader
         IN  /\ IsReader(q)
             /\ \A y \in Range(q.packets) : y \in Range(r.packets) \/ y = d
             /\ q.packets[1] \in Range(q.packets)
<1> DEFINE q == Put(r, d).reader
           s == Restart(r, d)
<1>1. q = Linked(s, d)
  BY DEF Put
<1>2. IsSequence(s.packets) /\ Range(s.packets) \subseteq Range(r.packets)
  <2>1. CASE d.first /\ r.started
    <3>1. s.packets = <<>>
      BY <2>1 DEF Restart, IsReader
    <3>2. Range(<<>>) = {} /\ <<>> \in Seq({})
      BY DEF Range
    <3> QED
      BY <3>1, <3>2 DEF IsSequence
  <2>2. CASE ~(d.first /\ r.started)
    BY <2>2 DEF Restart, IsReader
  <2> QED
    BY <2>1, <2>2
<1>3. q.packets = Append(s.packets, d) /\ {"packets", "started"} \subseteq DOMAIN q
  BY <1>1 DEF Linked
<1> HIDE DEF q, s
<1>4. /\ IsSequence(Append(s.packets, d))
      /\ \A y \in Range(Append(s.packets, d)) : y \in Range(s.packets) \/ y = d
      /\ Append(s.packets, d)[1] \in Range(Append(s.packets, d))
  BY <1>2, AppendElements
<1> QED
  BY <1>2, <1>3, <1>4 DEF q, IsReader

-----------------------------------------------------------------------------
(* Request ids *)

(* The next request id is not zero, and the last one given out. *)
LEMMA NextRidValue ==
  ASSUME NEW r \in Rid
  PROVE  /\ NextRid(r) \in GivenRids
         /\ NextRid(r) = IF r + 1 = RidRange THEN 1 ELSE r + 1
<1>1. RidRange \in Nat /\ RidRange > 1 /\ r \in 0..(RidRange - 1)
  BY ClientAssumption DEF Rid
<1>2. CASE r + 1 = RidRange
  <2>1. (r + 1) % RidRange = 0
    BY <1>1, <1>2
  <2> QED
    BY <1>1, <1>2, <2>1 DEF NextRid, GivenRids
<1>3. CASE r + 1 # RidRange
  <2>1. (r + 1) % RidRange = r + 1
    BY <1>1, <1>3
  <2> QED
    BY <1>1, <1>3, <2>1 DEF NextRid, GivenRids
<1> QED
  BY <1>2, <1>3

(* With it, every other one is one further back, and the oldest comes round. *)
LEMMA BackOfNext ==
  ASSUME NEW r \in GivenRids, NEW s \in GivenRids
  PROVE  /\ Back(r, s) \in 0..(RidRange - 2)
         /\ Back(r, s) < RidRange - 2 => Back(NextRid(r), s) = Back(r, s) + 1
         /\ Back(NextRid(r), s) <= Back(r, s) + 1
         /\ Back(r, s) = 0 <=> r = s
<1>1. /\ RidRange \in Nat /\ RidRange > 1
      /\ r \in 1..(RidRange - 1) /\ s \in 1..(RidRange - 1)
  BY ClientAssumption DEF GivenRids
<1>2. NextRid(r) = IF r + 1 = RidRange THEN 1 ELSE r + 1
  BY <1>1, NextRidValue DEF Rid
<1> QED
  BY <1>1, <1>2 DEF Back

-----------------------------------------------------------------------------
(* What a step does to the calls of a client *)

\* Client c makes no call, makes one, or makes one without a socket.
Rests(c) ==
  /\ number'[c] = number[c] /\ rid'[c] = rid[c]
  /\ Current(c)' <= Current(c)
Sends(c) ==
  /\ number'[c] = number[c] + 1 /\ rid'[c] = NextRid(rid[c])
  /\ Current(c)' <= Current(c) + 1
SendsNothing(c) ==
  /\ number'[c] = number[c] + 1 /\ rid'[c] = rid[c]
  /\ Current(c)' = 0
Moves(c) == Rests(c) \/ Sends(c) \/ SendsNothing(c)

(* What is traced remains so. *)
LEMMA MovesTraced ==
  ASSUME ClientsTyped, ClientsTyped', NEW x, Traced(x), Moves(x.client)
  PROVE  Traced(x)'
<1> DEFINE c == x.client
           n == number[c]
           r == rid[c]
           k == Current(c)
           l == Current(c)'
<1>1. /\ c \in Clients /\ x.number \in 1..n /\ x.rid \in GivenRids /\ r \in GivenRids
      /\ n - x.number < RidRange - 1 =>
           /\ Back(r, x.rid) <= n - x.number
           /\ Back(r, x.rid) < k => Back(r, x.rid) = n - x.number
  BY DEF Traced, Young, Age
<1>2. /\ n \in Nat /\ k \in Nat /\ l \in Nat /\ RidRange \in Nat /\ RidRange > 1
  <2>1. n \in Nat
    BY <1>1, ClientAssumption DEF ClientsTyped
  <2>2. k \in Nat
    BY <1>1 DEF ClientsTyped, Current
  <2>3. l \in Nat
    BY <1>1 DEF ClientsTyped, Current
  <2> QED
    BY <2>1, <2>2, <2>3, ClientAssumption
<1>3. Traced(x)' <=>
        /\ x.number \in 1..number'[c] /\ rid'[c] \in GivenRids
        /\ number'[c] - x.number < RidRange - 1 =>
             /\ Back(rid'[c], x.rid) <= number'[c] - x.number
             /\ Back(rid'[c], x.rid) < l => Back(rid'[c], x.rid) = number'[c] - x.number
  BY <1>1 DEF Traced, Young, Age
<1>4. /\ Back(r, x.rid) \in 0..(RidRange - 2)
      /\ Back(r, x.rid) < RidRange - 2 => Back(NextRid(r), x.rid) = Back(r, x.rid) + 1
  BY <1>1, BackOfNext
<1>5. NextRid(r) \in GivenRids
  BY <1>1, NextRidValue DEF GivenRids, Rid
<1> HIDE DEF c, n, r, k, l
<1>6. CASE number'[c] = n /\ rid'[c] = r /\ l <= k
  BY <1>1, <1>2, <1>3, <1>4, <1>6
<1>7. CASE number'[c] = n + 1 /\ rid'[c] = NextRid(r) /\ l <= k + 1
  <2>1. x.number \in 1..(n + 1)
    BY <1>1, <1>2
  <2>2. ASSUME n + 1 - x.number < RidRange - 1
        PROVE  /\ Back(NextRid(r), x.rid) <= n + 1 - x.number
               /\ Back(NextRid(r), x.rid) < l
                    => Back(NextRid(r), x.rid) = n + 1 - x.number
    <3>1. n - x.number < RidRange - 1 /\ n - x.number < RidRange - 2
      BY <1>1, <1>2, <2>2
    <3>2. Back(NextRid(r), x.rid) = Back(r, x.rid) + 1
      BY <1>1, <1>2, <1>4, <3>1
    <3> QED
      BY <1>1, <1>2, <1>4, <1>7, <3>1, <3>2
  <2>3. number'[c] - x.number = n + 1 - x.number
    BY <1>1, <1>2, <1>7
  <2> QED
    BY <1>3, <1>5, <1>7, <2>1, <2>2, <2>3
<1>8. CASE number'[c] = n + 1 /\ rid'[c] = r /\ l = 0
  BY <1>1, <1>2, <1>3, <1>4, <1>8
<1> QED
  BY <1>6, <1>7, <1>8 DEF Moves, Rests, Sends, SendsNothing, c, n, r, k, l

(* A request that is sent is traced. *)
LEMMA RequestTraced ==
  ASSUME ClientsTyped, ClientsTyped', NEW c \in Clients, Sends(c),
         NEW x, x.client = c, x.number = number[c] + 1, x.rid = NextRid(rid[c])
  PROVE  Traced(x)'
<1> DEFINE n == number[c]
           r == NextRid(rid[c])
           l == Current(c)'
<1>1. n \in Nat /\ RidRange \in Nat /\ RidRange > 1
  BY ClientAssumption DEF ClientsTyped
<1>2. r \in GivenRids
  BY NextRidValue DEF ClientsTyped
<1>3. Back(r, r) = 0
  BY <1>1, <1>2 DEF Back, GivenRids
<1>4. Traced(x)' <=>
        /\ x.number \in 1..(n + 1) /\ x.rid \in GivenRids /\ r \in GivenRids
        /\ n + 1 - x.number < RidRange - 1 =>
             /\ Back(r, x.rid) <= n + 1 - x.number
             /\ Back(r, x.rid) < l => Back(r, x.rid) = n + 1 - x.number
  <2>1. x.client = c
    OBVIOUS
  <2>2. number'[c] = n + 1 /\ rid'[c] = r
    BY DEF Sends
  <2>3. Traced(x)' <=>
          /\ x.number \in 1..number'[c] /\ x.rid \in GivenRids /\ rid'[c] \in GivenRids
          /\ number'[c] - x.number < RidRange - 1 =>
               /\ Back(rid'[c], x.rid) <= number'[c] - x.number
               /\ Back(rid'[c], x.rid) < l => Back(rid'[c], x.rid) = number'[c] - x.number
    BY <2>1 DEF Traced, Young, Age
  <2>4. number'[c] - x.number = n + 1 - x.number
    BY <1>1, <2>2
  <2> QED
    BY <2>2, <2>3, <2>4
<1> HIDE DEF n, r, l
<1>5. x.number = n + 1 /\ x.rid = r
  BY DEF n, r
<1> QED
  BY <1>1, <1>2, <1>3, <1>4, <1>5

-----------------------------------------------------------------------------
(* What a packet does to the client that reads it *)

\* The call returns with a response, or readMulti has one and goes on.
Answers(c, response) ==
  \E ok : answer' = [answer EXCEPT ![c] = Returned(FirstCall(c), number[c], ok, response)]
Returns(c, response) ==
  /\ pc' = [pc EXCEPT ![c] = "idle"]
  /\ reader' = [reader EXCEPT ![c] = NewReader]
  /\ handles' = [handles EXCEPT ![c] = <<>>]
  /\ Answers(c, response)
GoesOn(c, response) ==
  /\ pc[c] = "multi"
  /\ UNCHANGED pc
  /\ reader' = [reader EXCEPT ![c] = NewReader]
  /\ \E hs : /\ handles' = [handles EXCEPT ![c] = hs]
            /\ hs = [j \in DOMAIN handles[c] |-> hs[j]]
            /\ \A j \in DOMAIN handles[c] : hs[j] \in {0, handles[c][j]}
  /\ Answers(c, response)

\* The reader takes the packet, or has the whole response with it.
ReadsOn(c, d) ==
  /\ Expects(c, d) /\ Put(reader[c], Received(d)).result = "NEXTPACKET"
  /\ reader' = [reader EXCEPT ![c] = Put(reader[c], Received(d)).reader]
  /\ UNCHANGED <<pc, handles, answer>>
HasResponse(c, d) ==
  /\ Expects(c, d) /\ Put(reader[c], Received(d)).result = "COMPLETE"
  /\ LET response == Put(reader[c], Received(d)).reader.packets[1].message
     IN  /\ pc[c] = "multi" =>
              \E j \in DOMAIN handles[c] : handles[c][j] = response.rid
         /\ Returns(c, response) \/ GoesOn(c, response)

Dropped == UNCHANGED <<pc, reader, handles, answer>>

LEMMA FinishOutcome ==
  ASSUME NEW c, NEW r, Complete(c, r)
  PROVE  \/ Dropped \/ Returns(c, NoResponse)
         \/ /\ pc[c] = "multi" =>
                \E j \in DOMAIN handles[c] : handles[c][j] = r.packets[1].message.rid
            /\ Returns(c, r.packets[1].message) \/ GoesOn(c, r.packets[1].message)
<1> DEFINE response == r.packets[1].message
<1>1. CASE pc[c] # "multi"
  <2>1. CASE Abort
    BY <2>1 DEF Abort, Dropped
  <2>2. CASE ~Abort
    <3>1. \E ok, err : Return(c, ok, response, err)
      BY <1>1, <2>2 DEF Complete, FinishCall
    <3>2. Returns(c, response)
      BY <3>1, Zenon DEF Return, Returns, Answers
    <3> QED
      BY <1>1, <3>2
  <2> QED
    BY <2>1, <2>2
<1>2. CASE pc[c] = "multi"
  <2> DEFINE matches == {i \in DOMAIN handles[c] : handles[c][i] = response.rid}
             hs == [i \in DOMAIN handles[c] |->
                      IF i \in matches /\ i = Min(matches) THEN 0 ELSE handles[c][i]]
  <2>1. CASE matches = {}
    <3>1. \E ok, err : Return(c, ok, NoResponse, err)
      BY <1>2, <2>1 DEF Complete, FinishMulti
    <3> QED
      BY <3>1, Zenon DEF Return, Returns, Answers
  <2>2. CASE matches # {}
    <3>1. \E j \in DOMAIN handles[c] : handles[c][j] = response.rid
      BY <2>2
    <3>2. hs = [j \in DOMAIN handles[c] |-> hs[j]]
      OBVIOUS
    <3>3. \A j \in DOMAIN handles[c] : hs[j] \in {0, handles[c][j]}
      OBVIOUS
    <3>4. \/ Abort
          \/ \E ok, err : Return(c, ok, response, err)
          \/ /\ handles' = [handles EXCEPT ![c] = hs]
             /\ reader' = [reader EXCEPT ![c] = NewReader]
             /\ answer' = [answer EXCEPT
                             ![c] = Returned(FirstCall(c), number[c], TRUE, response)]
             /\ UNCHANGED pc
      <4>1. FinishMulti(c, r)
        BY <1>2 DEF Complete
      <4>2. \/ matches = {}
            \/ Abort
            \/ Return(c, TRUE, response, error[c])
            \/ /\ handles' = [handles EXCEPT ![c] = hs]
               /\ reader' = [reader EXCEPT ![c] = NewReader]
               /\ answer' = [answer EXCEPT
                               ![c] = Returned(FirstCall(c), number[c], TRUE, response)]
               /\ UNCHANGED <<pc, error, aborted>>
        BY <4>1, Zenon DEF FinishMulti
      <4> HIDE DEF matches, hs, response
      <4> QED
        BY <2>2, <4>2
    <3> HIDE DEF hs, matches, response
    <3>5. CASE Abort
      BY <3>5 DEF Abort, Dropped
    <3>6. CASE \E ok, err : Return(c, ok, response, err)
      <4>1. Returns(c, response)
        BY <3>6, Zenon DEF Return, Returns, Answers
      <4> QED
        BY <3>1, <4>1 DEF response
    <3>7. CASE /\ handles' = [handles EXCEPT ![c] = hs]
               /\ reader' = [reader EXCEPT ![c] = NewReader]
               /\ answer' = [answer EXCEPT
                               ![c] = Returned(FirstCall(c), number[c], TRUE, response)]
               /\ UNCHANGED pc
      <4>1. Answers(c, response)
        BY <3>7, Zenon DEF Answers
      <4>2. GoesOn(c, response)
        BY <1>2, <3>2, <3>3, <3>7, <4>1, Zenon DEF GoesOn
      <4> QED
        BY <3>1, <4>2 DEF response
    <3> QED
      BY <3>4, <3>5, <3>6, <3>7
  <2> QED
    BY <2>1, <2>2
<1> QED
  BY <1>1, <1>2

LEMMA ReceiveOutcome ==
  ASSUME NEW c \in Clients, NEW i \in DOMAIN toClient[c], ReceivePacket(c, i)
  PROVE  /\ Reading(c)
         /\ toClient' = [toClient EXCEPT ![c] = RemoveAt(@, i)]
         /\ UNCHANGED <<serverVars, number, rid>>
         /\ \/ Dropped \/ Returns(c, NoResponse)
            \/ ReadsOn(c, toClient[c][i]) \/ HasResponse(c, toClient[c][i])
<1> DEFINE d == toClient[c][i]
           p == Put(reader[c], Received(d))
           response == p.reader.packets[1].message
<1>1. /\ Reading(c)
      /\ toClient' = [toClient EXCEPT ![c] = RemoveAt(@, i)]
      /\ UNCHANGED <<serverVars, number, rid>>
  BY DEF ReceivePacket
<1>2. \/ \E err : Fail(c, err)
      \/ /\ Expects(c, d) /\ p.result = "NEXTPACKET"
         /\ reader' = [reader EXCEPT ![c] = p.reader]
         /\ UNCHANGED <<pc, handles, answer>>
      \/ Expects(c, d) /\ p.result = "COMPLETE" /\ Complete(c, p.reader)
  BY DEF ReceivePacket
<1>3. ASSUME \E err : Fail(c, err) PROVE Returns(c, NoResponse)
  BY <1>3, Zenon DEF Fail, Return, Returns, Answers
<1>5. ASSUME Abort PROVE Dropped
  BY <1>5 DEF Abort, Dropped
<1>6. ASSUME Expects(c, d), p.result = "COMPLETE", Complete(c, p.reader)
      PROVE  Dropped \/ Returns(c, NoResponse) \/ HasResponse(c, d)
  <2>1. \/ Dropped \/ Returns(c, NoResponse)
        \/ /\ pc[c] = "multi" =>
               \E j \in DOMAIN handles[c] : handles[c][j] = response.rid
           /\ Returns(c, response) \/ GoesOn(c, response)
    BY <1>6, FinishOutcome
  <2> QED
    BY <1>6, <2>1, Zenon DEF HasResponse
<1>7. ASSUME Expects(c, d), p.result = "NEXTPACKET",
             reader' = [reader EXCEPT ![c] = p.reader],
             UNCHANGED <<pc, handles, answer>>
      PROVE  ReadsOn(c, d)
  BY <1>7, Zenon DEF ReadsOn
<1> HIDE DEF d, p, response
<1>8. Dropped \/ Returns(c, NoResponse) \/ ReadsOn(c, d) \/ HasResponse(c, d)
  BY <1>2, <1>3, <1>5, <1>6, <1>7
<1> QED
  BY <1>1, <1>8 DEF d

-----------------------------------------------------------------------------
(* Types *)

(* A new reader has nothing. *)
LEMMA NewReaderTyped == IsReader(NewReader) /\ Range(NewReader.packets) = {}
  BY DEF IsReader, IsSequence, NewReader, Range

(* Typed variables that no step but a client's changes, and the network's. *)
LEMMA ReturnsTyped ==
  ASSUME ClientsTyped, NEW c \in Clients, NEW response, Returns(c, response) \/ GoesOn(c, response),
         UNCHANGED <<number, rid, txQueue, sending>>,
         DOMAIN toClient' = Clients, \A b \in Clients : IsSequence(toClient'[b])
  PROVE  ClientsTyped'
<1>1. CASE Returns(c, response)
  <2>1. /\ pc' = [pc EXCEPT ![c] = "idle"]
        /\ reader' = [reader EXCEPT ![c] = NewReader]
        /\ handles' = [handles EXCEPT ![c] = <<>>]
    BY <1>1 DEF Returns
  <2>2. DOMAIN answer' = Clients
    BY <1>1 DEF Returns, Answers, ClientsTyped
  <2>3. /\ pc' \in [Clients -> {"idle", "waiting", "multi"}]
        /\ DOMAIN reader' = Clients
        /\ \A b \in Clients : IsReader(reader'[b])
    BY <2>1, NewReaderTyped DEF ClientsTyped
  <2>4. handles' \in [Clients -> Seq(Rid)]
    <3>1. <<>> \in Seq(Rid)
      OBVIOUS
    <3> QED
      BY <2>1, <3>1 DEF ClientsTyped
  <2>5. /\ \A b \in Clients : pc'[b] = "waiting" => handles'[b] = <<>>
        /\ \A b \in Clients : pc'[b] = "multi" => handles'[b] # <<>>
    BY <2>1 DEF ClientsTyped
  <2> QED
    BY <2>2, <2>3, <2>4, <2>5 DEF ClientsTyped
<1>2. CASE GoesOn(c, response)
  <2>1. /\ pc[c] = "multi" /\ pc' = pc
        /\ reader' = [reader EXCEPT ![c] = NewReader]
    BY <1>2 DEF GoesOn
  <2>2. DOMAIN answer' = Clients
    BY <1>2 DEF GoesOn, Answers, ClientsTyped
  <2>3. DOMAIN reader' = Clients /\ \A b \in Clients : IsReader(reader'[b])
    BY <2>1, NewReaderTyped DEF ClientsTyped
  <2>4. PICK hs : /\ handles' = [handles EXCEPT ![c] = hs]
                  /\ hs = [j \in DOMAIN handles[c] |-> hs[j]]
                  /\ \A j \in DOMAIN handles[c] : hs[j] \in {0, handles[c][j]}
    BY <1>2 DEF GoesOn
  <2>5. hs \in Seq(Rid) /\ Len(hs) = Len(handles[c])
    <3>1. handles[c] \in Seq(Rid) /\ 0 \in Rid
      BY ClientAssumption DEF ClientsTyped, Rid
    <3>2. /\ DOMAIN handles[c] = 1..Len(handles[c]) /\ Len(handles[c]) \in Nat
          /\ \A j \in 1..Len(handles[c]) : handles[c][j] \in Rid
      BY <3>1
    <3>3. \A j \in 1..Len(handles[c]) : hs[j] \in Rid
      BY <2>4, <3>1, <3>2
    <3>4. hs \in [1..Len(handles[c]) -> Rid]
      BY <2>4, <3>2, <3>3
    <3>5. hs \in Seq(Rid)
      BY <3>2, <3>4, SeqDef
    <3> QED
      BY <3>2, <3>4, <3>5
  <2>6. handles'[c] # <<>>
    <3>1. Len(handles[c]) # 0
      BY <2>1, EmptySeq DEF ClientsTyped
    <3>2. handles'[c] = hs
      BY <2>4 DEF ClientsTyped
    <3> QED
      BY <2>5, <3>1, <3>2, EmptySeq
  <2>7. handles' \in [Clients -> Seq(Rid)]
    BY <2>4, <2>5 DEF ClientsTyped
  <2>8. \A b \in Clients : b # c => handles'[b] = handles[b]
    BY <2>4 DEF ClientsTyped
  <2>9. /\ \A b \in Clients : pc'[b] = "waiting" => handles'[b] = <<>>
        /\ \A b \in Clients : pc'[b] = "multi" => handles'[b] # <<>>
    BY <2>1, <2>6, <2>8 DEF ClientsTyped
  <2> QED
    BY <2>1, <2>2, <2>3, <2>7, <2>9 DEF ClientsTyped
<1> QED
  BY <1>1, <1>2

(* A request that is sent takes the next request id. *)
LEMMA SendTyped ==
  ASSUME ClientsTyped, NEW c \in Clients, NEW cl, SendRequest(c, cl)
  PROVE  /\ number' \in [Clients -> 0..MaxCalls] /\ rid' \in [Clients -> Rid]
         /\ number'[c] = number[c] + 1 /\ rid'[c] = NextRid(rid[c])
         /\ \A b \in Clients : b # c => number'[b] = number[b] /\ rid'[b] = rid[b]
<1>1. /\ number' = [number EXCEPT ![c] = @ + 1]
      /\ rid' = [rid EXCEPT ![c] = NextRid(@)]
      /\ number[c] < MaxCalls
  BY DEF SendRequest
<1>2. NextRid(rid[c]) \in Rid
  <2>1. NextRid(rid[c]) \in GivenRids
    BY NextRidValue DEF ClientsTyped
  <2> QED
    BY <2>1, ClientAssumption DEF GivenRids, Rid
<1>3. number[c] + 1 \in 0..MaxCalls
  BY <1>1, ClientAssumption DEF ClientsTyped
<1> QED
  BY <1>1, <1>2, <1>3 DEF ClientsTyped

(* Every step keeps the types. *)
LEMMA TypedStep ==
  ASSUME ClientsTyped, [Next]_vars
  PROVE  ClientsTyped'
<1>1. ASSUME NEW c \in Clients, NEW cl, StartCall(c, cl)
      PROVE  ClientsTyped'
  <2>1. /\ number' \in [Clients -> 0..MaxCalls] /\ rid' \in [Clients -> Rid]
    BY <1>1, SendTyped DEF StartCall
  <2>2. /\ pc' = [pc EXCEPT ![c] = "waiting"] /\ handles[c] = <<>>
        /\ reader' = [reader EXCEPT ![c] = NewReader]
        /\ UNCHANGED <<txQueue, sending, toClient, handles, answer>>
    BY <1>1 DEF StartCall
  <2>3. /\ pc' \in [Clients -> {"idle", "waiting", "multi"}]
        /\ \A b \in Clients : pc'[b] = "waiting" => handles'[b] = <<>>
        /\ \A b \in Clients : pc'[b] = "multi" => handles'[b] # <<>>
    BY <2>2 DEF ClientsTyped
  <2>4. DOMAIN reader' = Clients /\ \A b \in Clients : IsReader(reader'[b])
    BY <2>2, NewReaderTyped DEF ClientsTyped
  <2> QED
    BY <2>1, <2>2, <2>3, <2>4 DEF ClientsTyped
<1>2. ASSUME NEW c \in Clients, NEW cl, AsyncCall(c, cl)
      PROVE  ClientsTyped'
  <2>1. /\ number' \in [Clients -> 0..MaxCalls] /\ rid' \in [Clients -> Rid]
    BY <1>2, SendTyped DEF AsyncCall
  <2>2. /\ UNCHANGED <<txQueue, sending, toClient, handles, reader, pc>>
        /\ DOMAIN answer' = DOMAIN answer
    BY <1>2 DEF AsyncCall
  <2> QED
    BY <2>1, <2>2 DEF ClientsTyped
<1>3. ASSUME NEW c \in Clients, CallTooLong(c)
      PROVE  ClientsTyped'
  <2>1. /\ number' = [number EXCEPT ![c] = @ + 1]
        /\ rid' = [rid EXCEPT ![c] = NextRid(@)]
        /\ number[c] < MaxCalls
        /\ UNCHANGED <<txQueue, sending, toClient, handles, reader, pc, answer>>
    BY <1>3 DEF CallTooLong, serverVars
  <2>2. NextRid(rid[c]) \in Rid
    <3>1. NextRid(rid[c]) \in GivenRids
      BY NextRidValue DEF ClientsTyped
    <3> QED
      BY <3>1, ClientAssumption DEF GivenRids, Rid
  <2>3. number[c] + 1 \in 0..MaxCalls
    BY <2>1, ClientAssumption DEF ClientsTyped
  <2>4. number' \in [Clients -> 0..MaxCalls] /\ rid' \in [Clients -> Rid]
    BY <2>1, <2>2, <2>3 DEF ClientsTyped
  <2> QED
    BY <2>1, <2>4 DEF ClientsTyped
<1>4. ASSUME NEW c \in Clients, CallNotConnected(c)
      PROVE  ClientsTyped'
  <2>1. /\ number' = [number EXCEPT ![c] = @ + 1] /\ number[c] < MaxCalls
        /\ UNCHANGED <<txQueue, sending, toClient, handles, reader, pc, rid>>
        /\ DOMAIN answer' = DOMAIN answer
    BY <1>4 DEF CallNotConnected, serverVars
  <2>2. number[c] + 1 \in 0..MaxCalls
    BY <2>1, ClientAssumption DEF ClientsTyped
  <2>3. number' \in [Clients -> 0..MaxCalls]
    BY <2>1, <2>2 DEF ClientsTyped
  <2> QED
    BY <2>1, <2>3 DEF ClientsTyped
<1>5. ASSUME NEW c \in Clients, Disconnect(c) \/ Connect(c)
      PROVE  ClientsTyped'
  <2>1. /\ toClient' = [toClient EXCEPT ![c] = <<>>]
        /\ UNCHANGED <<txQueue, sending, number, rid, handles, reader, pc, answer>>
    BY <1>5 DEF Disconnect, Connect, serverVars
  <2>2. IsSequence(<<>>)
    BY DEF IsSequence
  <2>3. DOMAIN toClient' = Clients /\ \A b \in Clients : IsSequence(toClient'[b])
    BY <2>1, <2>2 DEF ClientsTyped
  <2> QED
    BY <2>1, <2>3 DEF ClientsTyped
<1>6. ASSUME NEW c \in Clients, GetMulti(c)
      PROVE  ClientsTyped'
  <2>1. PICK cl : SendRequest(c, cl)
    BY <1>6 DEF GetMulti
  <2>2. number' \in [Clients -> 0..MaxCalls] /\ rid' \in [Clients -> Rid] /\ pc[c] = "idle"
    BY <2>1, SendTyped DEF SendRequest
  <2>3. /\ handles' = [handles EXCEPT ![c] = Append(@, rid'[c])]
        /\ UNCHANGED <<txQueue, sending, toClient, reader, pc, answer>>
    BY <1>6 DEF GetMulti
  <2>4. Append(handles[c], rid'[c]) \in Seq(Rid)
    BY <2>2 DEF ClientsTyped
  <2>5. /\ handles' \in [Clients -> Seq(Rid)]
        /\ \A b \in Clients : b # c => handles'[b] = handles[b]
    BY <2>3, <2>4 DEF ClientsTyped
  <2>6. /\ \A b \in Clients : pc'[b] = "waiting" => handles'[b] = <<>>
        /\ \A b \in Clients : pc'[b] = "multi" => handles'[b] # <<>>
    BY <2>2, <2>3, <2>5 DEF ClientsTyped
  <2> QED
    BY <2>2, <2>3, <2>5, <2>6 DEF ClientsTyped
<1>7. ASSUME NEW c \in Clients, StartMulti(c)
      PROVE  ClientsTyped'
  <2>1. /\ pc' = [pc EXCEPT ![c] = "multi"] /\ handles[c] # <<>>
        /\ reader' = [reader EXCEPT ![c] = NewReader]
        /\ UNCHANGED <<txQueue, sending, toClient, number, rid, handles, answer>>
    BY <1>7 DEF StartMulti, serverVars
  <2>2. /\ pc' \in [Clients -> {"idle", "waiting", "multi"}]
        /\ \A b \in Clients : pc'[b] = "waiting" => handles'[b] = <<>>
        /\ \A b \in Clients : pc'[b] = "multi" => handles'[b] # <<>>
    BY <2>1 DEF ClientsTyped
  <2>3. DOMAIN reader' = Clients /\ \A b \in Clients : IsReader(reader'[b])
    BY <2>1, NewReaderTyped DEF ClientsTyped
  <2> QED
    BY <2>1, <2>2, <2>3 DEF ClientsTyped
<1>8. ASSUME NEW c \in Clients, NEW i \in DOMAIN toClient[c], ReceivePacket(c, i)
      PROVE  ClientsTyped'
  <2>1. /\ toClient' = [toClient EXCEPT ![c] = RemoveAt(@, i)]
        /\ UNCHANGED <<serverVars, number, rid>>
        /\ \/ Dropped \/ Returns(c, NoResponse)
           \/ ReadsOn(c, toClient[c][i]) \/ HasResponse(c, toClient[c][i])
    BY <1>8, ReceiveOutcome
  <2>2. IsSequence(RemoveAt(toClient[c], i))
    BY RemoveAtElements DEF ClientsTyped
  <2>3. DOMAIN toClient' = Clients /\ \A b \in Clients : IsSequence(toClient'[b])
    BY <2>1, <2>2 DEF ClientsTyped
  <2>4. UNCHANGED <<number, rid, txQueue, sending>>
    BY <2>1 DEF serverVars
  <2>5. CASE Dropped
    BY <2>3, <2>4, <2>5 DEF Dropped, ClientsTyped
  <2>6. ASSUME NEW response, Returns(c, response) \/ GoesOn(c, response)
        PROVE  ClientsTyped'
    BY <2>3, <2>4, <2>6, ReturnsTyped
  <2>7. CASE ReadsOn(c, toClient[c][i])
    <3>1. IsReader(Put(reader[c], Received(toClient[c][i])).reader)
      BY <2>7, PutElements DEF ReadsOn, ClientsTyped
    <3>2. DOMAIN reader' = Clients /\ \A b \in Clients : IsReader(reader'[b])
      BY <2>7, <3>1 DEF ReadsOn, ClientsTyped
    <3> QED
      BY <2>3, <2>4, <2>7, <3>2 DEF ReadsOn, ClientsTyped
  <2>8. CASE HasResponse(c, toClient[c][i])
    BY <2>6, <2>8 DEF HasResponse
  <2> QED
    BY <2>1, <2>5, <2>6, <2>7, <2>8
<1>9. ASSUME NEW c \in Clients, Timeout(c)
      PROVE  ClientsTyped'
  <2>1. Returns(c, NoResponse) /\ UNCHANGED <<number, rid, txQueue, sending, toClient>>
    BY <1>9, Zenon DEF Timeout, Fail, Return, Returns, Answers, serverVars
  <2> QED
    BY <2>1, ReturnsTyped DEF ClientsTyped
<1>10. ASSUME NEW c \in Clients, NEW i \in DOMAIN toClient[c], LosePacket(c, i)
      PROVE  ClientsTyped'
  <2>1. /\ toClient' = [toClient EXCEPT ![c] = RemoveAt(@, i)]
        /\ UNCHANGED <<txQueue, sending, number, rid, handles, reader, pc, answer>>
    BY <1>10 DEF LosePacket, serverVars, clientVars
  <2>2. IsSequence(RemoveAt(toClient[c], i))
    BY RemoveAtElements DEF ClientsTyped
  <2>3. DOMAIN toClient' = Clients /\ \A b \in Clients : IsSequence(toClient'[b])
    BY <2>1, <2>2 DEF ClientsTyped
  <2> QED
    BY <2>1, <2>3 DEF ClientsTyped
<1>11. ASSUME NEW m, NEW oom, NEW again, ServeRequest(m, oom, again)
      PROVE  ClientsTyped'
  <2>1. /\ \/ txQueue' = txQueue \/ \E x : txQueue' = Append(txQueue, x)
        /\ UNCHANGED <<sending, toClient, number, rid, handles, reader, pc, answer>>
    BY <1>11 DEF ServeRequest, clientVars
  <2>2. IsSequence(txQueue')
    <3>1. CASE txQueue' = txQueue
      BY <3>1 DEF ClientsTyped
    <3>2. CASE \E x : txQueue' = Append(txQueue, x)
      <4>1. IsSequence(txQueue)
        BY DEF ClientsTyped
      <4>2. PICK x : txQueue' = Append(txQueue, x)
        BY <3>2
      <4>3. IsSequence(Append(txQueue, x))
        BY <4>1, AppendElements
      <4> QED
        BY <4>2, <4>3
    <3> QED
      BY <2>1, <3>1, <3>2
  <2> QED
    BY <2>1, <2>2 DEF ClientsTyped
<1>12. ASSUME NEW t \in TxThreads, TakeResponse(t)
      PROVE  ClientsTyped'
  <2>1. PICK seq : sending' = [sending EXCEPT ![t] =
            Datagrams(Head(txQueue), Head(txQueue).rid, seq,
                      ResponseWrites(Head(txQueue).reply))]
    BY <1>12 DEF TakeResponse
  <2>2. IsSequence(Datagrams(Head(txQueue), Head(txQueue).rid, seq,
                             ResponseWrites(Head(txQueue).reply)))
    BY DatagramsElements
  <2>3. /\ txQueue # <<>> /\ txQueue' = Tail(txQueue)
        /\ UNCHANGED <<toClient, number, rid, handles, reader, pc, answer>>
    BY <1>12 DEF TakeResponse, clientVars
  <2>4. DOMAIN sending' = TxThreads /\ \A u \in TxThreads : IsSequence(sending'[u])
    BY <2>1, <2>2 DEF ClientsTyped
  <2>5. IsSequence(txQueue')
    BY <2>3, TailElements DEF ClientsTyped
  <2> QED
    BY <2>3, <2>4, <2>5 DEF ClientsTyped
<1>13. ASSUME NEW t \in TxThreads, SendPacket(t)
      PROVE  ClientsTyped'
  <2>1. /\ sending[t] # <<>> /\ sending' = [sending EXCEPT ![t] = Tail(@)]
        /\ UNCHANGED <<txQueue, number, rid, handles, reader, pc, answer>>
        /\ \/ toClient' = toClient
           \/ \E b, d : toClient' = [toClient EXCEPT ![b] = Append(@, d)]
    BY <1>13 DEF SendPacket, clientVars
  <2>2. IsSequence(Tail(sending[t]))
    BY <2>1, TailElements DEF ClientsTyped
  <2>3. DOMAIN sending' = TxThreads /\ \A u \in TxThreads : IsSequence(sending'[u])
    BY <2>1, <2>2 DEF ClientsTyped
  <2>4. DOMAIN toClient' = Clients /\ \A b \in Clients : IsSequence(toClient'[b])
    <3>1. CASE toClient' = toClient
      BY <3>1 DEF ClientsTyped
    <3>2. CASE \E b, d : toClient' = [toClient EXCEPT ![b] = Append(@, d)]
      <4>1. PICK b, d : toClient' = [toClient EXCEPT ![b] = Append(@, d)]
        BY <3>2
      <4>2. b \in Clients => IsSequence(Append(toClient[b], d))
        BY AppendElements DEF ClientsTyped
      <4> QED
        BY <4>1, <4>2 DEF ClientsTyped
    <3> QED
      BY <2>1, <3>1, <3>2
  <2> QED
    BY <2>1, <2>3, <2>4 DEF ClientsTyped
<1>14. ASSUME NEW m, LoseRequest(m)
      PROVE  ClientsTyped'
  BY <1>14 DEF LoseRequest, clientVars, ClientsTyped
<1>15. CASE UNCHANGED vars
  BY <1>15 DEF vars, serverVars, clientVars, ClientsTyped
<1> QED
  BY <1>1, <1>2, <1>3, <1>4, <1>5, <1>6, <1>7, <1>8, <1>9, <1>10, <1>11, <1>12, <1>13,
     <1>14, <1>15 DEF Next, ClientStep, Serving, Sending

-----------------------------------------------------------------------------
(* What is on its way *)

\* What a step does to the calls of a client that it does not concern.
StaysPut(b) == number'[b] = number[b] /\ rid'[b] = rid[b] /\ Current(b)' = Current(b)

LEMMA StaysPutMoves ==
  ASSUME ClientsTyped, NEW b \in Clients, StaysPut(b)
  PROVE  Moves(b)
<1>1. Current(b) \in Nat
  BY DEF ClientsTyped, Current
<1> QED
  BY <1>1 DEF StaysPut, Moves, Rests

(* The calls of every client move on, or not, in every step. *)
LEMMA StepMoves ==
  ASSUME ClientsTyped, Next, NEW b \in Clients
  PROVE  Moves(b)
<1>a. Current(b) \in Nat
  BY DEF ClientsTyped, Current
<1>s. ASSUME UNCHANGED <<number, rid, handles, pc>> PROVE Moves(b)
  <2>1. StaysPut(b)
    BY <1>s DEF StaysPut, Current
  <2> QED
    BY <2>1, StaysPutMoves
<1>r. ASSUME NEW c \in Clients, NEW response, Returns(c, response) \/ GoesOn(c, response),
             UNCHANGED <<number, rid>>
      PROVE  Moves(b)
  <2>1. CASE b # c
    <3>1. pc'[b] = pc[b] /\ handles'[b] = handles[b]
      BY <1>r, <2>1 DEF Returns, GoesOn, ClientsTyped
    <3>2. StaysPut(b)
      BY <1>r, <3>1 DEF StaysPut, Current
    <3> QED
      BY <3>2, StaysPutMoves
  <2>2. CASE b = c /\ Returns(c, response)
    <3>1. pc'[b] = "idle" /\ handles'[b] = <<>>
      BY <2>2 DEF Returns, ClientsTyped
    <3>2. Current(b)' = 0
      BY <3>1 DEF Current
    <3> QED
      BY <1>r, <1>a, <3>2 DEF Moves, Rests
  <2>3. CASE b = c /\ GoesOn(c, response)
    <3>1. PICK hs : /\ handles' = [handles EXCEPT ![c] = hs]
                    /\ hs = [j \in DOMAIN handles[c] |-> hs[j]]
                    /\ \A j \in DOMAIN handles[c] : hs[j] \in {0, handles[c][j]}
      BY <2>3 DEF GoesOn
    <3>2. handles[c] \in Seq(Rid) /\ handles[c] # <<>>
      BY <2>3 DEF ClientsTyped, GoesOn
    <3>3. DOMAIN handles[c] = 1..Len(handles[c]) /\ Len(handles[c]) \in Nat /\ Len(handles[c]) # 0
      BY <3>2, EmptySeq
    <3>4. hs \in [1..Len(handles[c]) -> {0} \cup Rid]
      <4>1. \A j \in 1..Len(handles[c]) : handles[c][j] \in Rid
        BY <3>2
      <4> QED
        BY <3>1, <3>3, <4>1
    <3>5. hs \in Seq({0} \cup Rid)
      BY <3>3, <3>4, SeqDef
    <3>6. Len(hs) = Len(handles[c])
      BY <3>1, <3>3, <3>5
    <3>7. handles'[c] = hs
      BY <3>1 DEF ClientsTyped
    <3>8. hs # <<>>
      BY <3>3, <3>5, <3>6, EmptySeq
    <3>9. Current(b)' = Current(b)
      BY <2>3, <3>2, <3>6, <3>7, <3>8 DEF Current
    <3> QED
      BY <1>r, <1>a, <3>9 DEF Moves, Rests
  <2> QED
    BY <1>r, <2>1, <2>2, <2>3
<1>1. ASSUME NEW c \in Clients, NEW cl, StartCall(c, cl)
      PROVE  Moves(b)
  <2>1. /\ number'[c] = number[c] + 1 /\ rid'[c] = NextRid(rid[c])
        /\ b # c => number'[b] = number[b] /\ rid'[b] = rid[b]
    BY <1>1, SendTyped DEF StartCall
  <2>2. pc' = [pc EXCEPT ![c] = "waiting"] /\ handles[c] = <<>> /\ handles' = handles
    BY <1>1 DEF StartCall
  <2>3. CASE b = c
    <3>1. Current(b)' = 1
      BY <2>2, <2>3 DEF Current, ClientsTyped
    <3> QED
      BY <1>a, <2>1, <2>3, <3>1 DEF Moves, Sends
  <2>4. CASE b # c
    <3>1. StaysPut(b)
      BY <2>1, <2>2, <2>4 DEF StaysPut, Current, ClientsTyped
    <3> QED
      BY <3>1, StaysPutMoves
  <2> QED
    BY <2>3, <2>4
<1>2. ASSUME NEW c \in Clients, NEW cl, AsyncCall(c, cl)
      PROVE  Moves(b)
  <2>1. /\ number'[c] = number[c] + 1 /\ rid'[c] = NextRid(rid[c])
        /\ b # c => number'[b] = number[b] /\ rid'[b] = rid[b]
    BY <1>2, SendTyped DEF AsyncCall
  <2>2. UNCHANGED <<pc, handles>>
    BY <1>2 DEF AsyncCall
  <2>3. Current(b)' = Current(b)
    BY <2>2 DEF Current
  <2> QED
    BY <1>a, <2>1, <2>3, StaysPutMoves DEF Moves, Sends, StaysPut
<1>3. ASSUME NEW c \in Clients, CallTooLong(c)
      PROVE  Moves(b)
  <2>1. /\ number' = [number EXCEPT ![c] = @ + 1]
        /\ rid' = [rid EXCEPT ![c] = NextRid(@)]
        /\ UNCHANGED <<pc, handles>>
    BY <1>3 DEF CallTooLong
  <2>2. Current(b)' = Current(b)
    BY <2>1 DEF Current
  <2>3. /\ number'[c] = number[c] + 1 /\ rid'[c] = NextRid(rid[c])
        /\ b # c => number'[b] = number[b] /\ rid'[b] = rid[b]
    BY <2>1 DEF ClientsTyped
  <2> QED
    BY <1>a, <2>2, <2>3, StaysPutMoves DEF Moves, Sends, StaysPut
<1>4. ASSUME NEW c \in Clients, CallNotConnected(c)
      PROVE  Moves(b)
  <2>1. /\ number' = [number EXCEPT ![c] = @ + 1] /\ rid' = rid
        /\ UNCHANGED <<pc, handles>>
        /\ pc[c] = "idle" /\ handles[c] = <<>>
    BY <1>4 DEF CallNotConnected
  <2>2. Current(b)' = Current(b)
    BY <2>1 DEF Current
  <2>3. CASE b = c
    <3>1. Current(b)' = 0 /\ number'[b] = number[b] + 1
      BY <2>1, <2>2, <2>3 DEF Current, ClientsTyped
    <3> QED
      BY <2>1, <3>1 DEF Moves, SendsNothing
  <2>4. CASE b # c
    <3>1. StaysPut(b)
      BY <2>1, <2>2, <2>4 DEF StaysPut, ClientsTyped
    <3> QED
      BY <3>1, StaysPutMoves
  <2> QED
    BY <2>3, <2>4
<1>5. ASSUME NEW c \in Clients, Disconnect(c) \/ Connect(c)
      PROVE  Moves(b)
  BY <1>5, <1>s DEF Disconnect, Connect
<1>6. ASSUME NEW c \in Clients, GetMulti(c)
      PROVE  Moves(b)
  <2>1. PICK cl : SendRequest(c, cl)
    BY <1>6 DEF GetMulti
  <2>2. /\ number'[c] = number[c] + 1 /\ rid'[c] = NextRid(rid[c]) /\ rid'[c] \in Rid
        /\ b # c => number'[b] = number[b] /\ rid'[b] = rid[b]
    BY <2>1, SendTyped
  <2>3. handles' = [handles EXCEPT ![c] = Append(@, rid'[c])] /\ pc' = pc /\ pc[c] = "idle"
    BY <1>6, <2>1 DEF GetMulti, SendRequest
  <2>4. CASE b = c
    <3>1. handles[c] \in Seq(Rid) /\ handles'[c] = Append(handles[c], rid'[c])
      BY <2>3 DEF ClientsTyped
    <3>2. Len(handles'[c]) = Len(handles[c]) + 1 /\ handles'[c] # <<>>
      <4>1. /\ handles'[c] \in Seq(Rid) /\ Len(handles'[c]) = Len(handles[c]) + 1
            /\ Len(handles[c]) \in Nat
        BY <2>2, <3>1
      <4> QED
        BY <4>1, EmptySeq
    <3>3. Current(b)' = Len(handles[c]) + 1
      BY <2>4, <3>2 DEF Current
    <3>4. Len(handles[c]) <= Current(b)
      <4>1. CASE handles[c] = <<>>
        BY <2>4, <4>1, EmptySeq DEF Current
      <4>2. CASE handles[c] # <<>>
        BY <2>4, <3>1, <4>2 DEF Current
      <4> QED
        BY <4>1, <4>2
    <3>5. Len(handles[c]) \in Nat
      BY <3>1
    <3>6. Current(b)' <= Current(b) + 1
      BY <1>a, <3>3, <3>4, <3>5
    <3> QED
      BY <2>2, <2>4, <3>6 DEF Moves, Sends
  <2>5. CASE b # c
    <3>1. StaysPut(b)
      BY <2>2, <2>3, <2>5 DEF StaysPut, Current, ClientsTyped
    <3> QED
      BY <3>1, StaysPutMoves
  <2> QED
    BY <2>4, <2>5
<1>7. ASSUME NEW c \in Clients, StartMulti(c)
      PROVE  Moves(b)
  <2>1. /\ pc' = [pc EXCEPT ![c] = "multi"] /\ handles[c] # <<>>
        /\ UNCHANGED <<number, rid, handles>>
    BY <1>7 DEF StartMulti
  <2>2. StaysPut(b)
    BY <2>1 DEF StaysPut, Current, ClientsTyped
  <2> QED
    BY <2>2, StaysPutMoves
<1>8. ASSUME NEW c \in Clients, NEW i \in DOMAIN toClient[c], ReceivePacket(c, i)
      PROVE  Moves(b)
  <2>1. /\ UNCHANGED <<serverVars, number, rid>>
        /\ \/ Dropped \/ Returns(c, NoResponse)
           \/ ReadsOn(c, toClient[c][i]) \/ HasResponse(c, toClient[c][i])
    BY <1>8, ReceiveOutcome
  <2>2. CASE Dropped \/ ReadsOn(c, toClient[c][i])
    BY <1>s, <2>1, <2>2 DEF Dropped, ReadsOn
  <2>3. CASE Returns(c, NoResponse) \/ HasResponse(c, toClient[c][i])
    BY <1>r, <2>1, <2>3 DEF HasResponse
  <2> QED
    BY <2>1, <2>2, <2>3
<1>9. ASSUME NEW c \in Clients, Timeout(c)
      PROVE  Moves(b)
  <2>1. Returns(c, NoResponse) /\ UNCHANGED <<number, rid>>
    BY <1>9, Zenon DEF Timeout, Fail, Return, Returns, Answers
  <2> QED
    BY <1>r, <2>1
<1>10. ASSUME NEW c \in Clients, NEW i \in DOMAIN toClient[c], LosePacket(c, i)
      PROVE  Moves(b)
  BY <1>10, <1>s DEF LosePacket, clientVars
<1>11. ASSUME NEW m, NEW oom, NEW again, ServeRequest(m, oom, again)
      PROVE  Moves(b)
  BY <1>11, <1>s DEF ServeRequest, clientVars
<1>12. ASSUME NEW t \in TxThreads, Sending(t)
      PROVE  Moves(b)
  BY <1>12, <1>s DEF Sending, TakeResponse, SendPacket, clientVars
<1>13. ASSUME NEW m, LoseRequest(m)
      PROVE  Moves(b)
  BY <1>13, <1>s DEF LoseRequest, clientVars
<1> QED
  BY <1>1, <1>2, <1>3, <1>4, <1>5, <1>6, <1>7, <1>8, <1>9, <1>10, <1>11, <1>12, <1>13
     DEF Next, ClientStep, Serving

(* Everything on its way remains traced, and what a client sends is. *)
LEMMA InFlightStep ==
  ASSUME ClientsTyped, ClientsTyped', InFlightOK, Next
  PROVE  InFlightOK'
<1>a. ASSUME NEW x, Traced(x) PROVE Traced(x)'
  <2>1. Moves(x.client)
    BY <1>a, StepMoves DEF Traced
  <2> QED
    BY <1>a, <2>1, MovesTraced
<1>b. ASSUME NEW d, TracedPacket(d) PROVE TracedPacket(d)'
  <2>1. Traced(d.message)'
    BY <1>b, <1>a DEF TracedPacket
  <2> QED
    BY <1>b, <2>1 DEF TracedPacket
<1>c. /\ \A m \in toServer : Traced(m)'
      /\ \A x \in Range(txQueue) : Traced(x)'
      /\ \A t \in TxThreads : \A d \in Range(sending[t]) : TracedPacket(d)'
      /\ \A c \in Clients : \A d \in Range(toClient[c]) :
           TracedPacket(d)' /\ d.message.client = c
  BY <1>a, <1>b DEF InFlightOK
<1>d. ASSUME toServer' \subseteq toServer, UNCHANGED <<txQueue, sending>>,
             \A c \in Clients : Range(toClient'[c]) \subseteq Range(toClient[c])
      PROVE  InFlightOK'
  <2>1. \A m \in toServer' : Traced(m)'
    BY <1>c, <1>d
  <2>2. \A x \in Range(txQueue') : Traced(x)'
    BY <1>c, <1>d
  <2>3. \A t \in TxThreads : \A d \in Range(sending'[t]) : TracedPacket(d)'
    BY <1>c, <1>d
  <2>4. \A c \in Clients : \A d \in Range(toClient'[c]) :
          TracedPacket(d)' /\ d.message.client = c
    BY <1>c, <1>d
  <2> QED
    BY <2>1, <2>2, <2>3, <2>4 DEF InFlightOK
<1>e. ASSUME NEW c \in Clients, NEW cl, SendRequest(c, cl),
             UNCHANGED <<txQueue, sending, toClient>>, Current(c)' <= Current(c) + 1
      PROVE  InFlightOK'
  <2>1. Sends(c)
    BY <1>e, SendTyped DEF Sends
  <2>0. PICK x : x = Request(c, cl)
    OBVIOUS
  <2>2. x.client = c /\ x.number = number[c] + 1 /\ x.rid = NextRid(rid[c])
    BY <2>0 DEF Request
  <2>3. toServer' = toServer \cup {x}
    BY <1>e, <2>0 DEF SendRequest
  <2>4. Traced(x)'
    BY <2>1, <2>2, RequestTraced
  <2>5. \A m \in toServer' : Traced(m)'
    BY <1>c, <2>3, <2>4
  <2> QED
    BY <1>c, <1>e, <2>5 DEF InFlightOK
<1>1. ASSUME NEW c \in Clients, NEW cl, StartCall(c, cl) \/ AsyncCall(c, cl)
      PROVE  InFlightOK'
  <2>1. SendRequest(c, cl) /\ UNCHANGED <<txQueue, sending, toClient>>
    BY <1>1 DEF StartCall, AsyncCall
  <2>2. Moves(c)
    BY StepMoves
  <2>3. number'[c] = number[c] + 1
    BY <2>1, SendTyped
  <2>4. Current(c)' <= Current(c) + 1
    <3>1. number[c] \in Nat /\ Current(c) \in Nat
      BY ClientAssumption DEF ClientsTyped, Current
    <3> QED
      BY <2>2, <2>3, <3>1 DEF Moves, Rests, Sends, SendsNothing
  <2> QED
    BY <1>e, <2>1, <2>4
<1>2. ASSUME NEW c \in Clients, GetMulti(c)
      PROVE  InFlightOK'
  <2>1. PICK cl : SendRequest(c, cl)
    BY <1>2 DEF GetMulti
  <2>2. UNCHANGED <<txQueue, sending, toClient>>
    BY <1>2 DEF GetMulti
  <2>3. Moves(c)
    BY StepMoves
  <2>4. number'[c] = number[c] + 1
    BY <2>1, SendTyped
  <2>5. Current(c)' <= Current(c) + 1
    <3>1. number[c] \in Nat /\ Current(c) \in Nat
      BY ClientAssumption DEF ClientsTyped, Current
    <3> QED
      BY <2>3, <2>4, <3>1 DEF Moves, Rests, Sends, SendsNothing
  <2> QED
    BY <1>e, <2>1, <2>2, <2>5
<1>3. ASSUME NEW c \in Clients,
             CallTooLong(c) \/ CallNotConnected(c) \/ StartMulti(c) \/ Timeout(c)
      PROVE  InFlightOK'
  <2>1. UNCHANGED <<toServer, txQueue, sending, toClient>>
    BY <1>3 DEF CallTooLong, CallNotConnected, StartMulti, Timeout, serverVars
  <2> QED
    BY <1>d, <2>1
<1>4. ASSUME NEW c \in Clients, Disconnect(c) \/ Connect(c)
      PROVE  InFlightOK'
  <2>1. UNCHANGED <<toServer, txQueue, sending>> /\ toClient' = [toClient EXCEPT ![c] = <<>>]
    BY <1>4 DEF Disconnect, Connect, serverVars
  <2>2. Range(<<>>) = {}
    BY DEF Range
  <2>3. \A b \in Clients : Range(toClient'[b]) \subseteq Range(toClient[b])
    BY <2>1, <2>2 DEF ClientsTyped
  <2> QED
    BY <1>d, <2>1, <2>3
<1>5. ASSUME NEW c \in Clients, NEW i \in DOMAIN toClient[c],
             ReceivePacket(c, i) \/ LosePacket(c, i)
      PROVE  InFlightOK'
  <2>1. /\ UNCHANGED <<toServer, txQueue, sending>>
        /\ toClient' = [toClient EXCEPT ![c] = RemoveAt(@, i)]
    BY <1>5 DEF ReceivePacket, LosePacket, serverVars
  <2>2. Range(RemoveAt(toClient[c], i)) \subseteq Range(toClient[c])
    BY RemoveAtElements DEF ClientsTyped
  <2>3. \A b \in Clients : Range(toClient'[b]) \subseteq Range(toClient[b])
    BY <2>1, <2>2 DEF ClientsTyped
  <2> QED
    BY <1>d, <2>1, <2>3
<1>6. ASSUME NEW m \in toServer, NEW oom, NEW again, ServeRequest(m, oom, again)
      PROVE  InFlightOK'
  <2>1. /\ toServer' \subseteq toServer /\ UNCHANGED <<sending, toClient>>
        /\ \/ txQueue' = txQueue
           \/ \E reply : txQueue' = Append(txQueue, Response(m, reply))
    BY <1>6 DEF ServeRequest
  <2>2. CASE txQueue' = txQueue
    BY <1>d, <2>1, <2>2
  <2>3. CASE \E reply : txQueue' = Append(txQueue, Response(m, reply))
    <3>1. PICK reply : txQueue' = Append(txQueue, Response(m, reply))
      BY <2>3
    <3> DEFINE x == Response(m, reply)
    <3>2. x.client = m.client /\ x.number = m.number /\ x.rid = m.rid
      BY DEF Response
    <3> HIDE DEF x
    <3>3. Traced(m)
      BY DEF InFlightOK
    <3>4. Traced(x)
      BY <3>2, <3>3 DEF Traced, Young, Age
    <3>5. Traced(x)'
      BY <1>a, <3>4
    <3>6. \A y \in Range(Append(txQueue, x)) : y \in Range(txQueue) \/ y = x
      BY AppendElements DEF ClientsTyped
    <3>7. \A y \in Range(txQueue') : Traced(y)'
      BY <1>c, <3>1, <3>5, <3>6 DEF x
    <3> QED
      BY <1>c, <2>1, <3>7 DEF InFlightOK
  <2> QED
    BY <2>1, <2>2, <2>3
<1>7. ASSUME NEW t \in TxThreads, TakeResponse(t)
      PROVE  InFlightOK'
  <2>0. PICK x : x = Head(txQueue)
    OBVIOUS
  <2>1. PICK seq : sending' = [sending EXCEPT ![t] =
                      Datagrams(x, x.rid, seq, ResponseWrites(x.reply))]
    BY <1>7, <2>0 DEF TakeResponse
  <2>2. txQueue # <<>> /\ txQueue' = Tail(txQueue) /\ UNCHANGED <<toServer, toClient>>
    BY <1>7 DEF TakeResponse
  <2>3. Range(txQueue') \subseteq Range(txQueue) /\ x \in Range(txQueue)
    BY <2>0, <2>2, TailElements DEF ClientsTyped
  <2>4. \A d \in Range(Datagrams(x, x.rid, seq, ResponseWrites(x.reply))) : TracedPacket(d)'
    <3>1. Traced(x)'
      BY <1>c, <2>3
    <3>2. \A d \in Range(Datagrams(x, x.rid, seq, ResponseWrites(x.reply))) :
             /\ d.message = x /\ d.rid = x.rid
             /\ {"message", "rid", "payload"} \subseteq DOMAIN d
      BY DatagramsElements
    <3> QED
      BY <3>1, <3>2 DEF TracedPacket
  <2>5. \A u \in TxThreads : \A d \in Range(sending'[u]) : TracedPacket(d)'
    BY <1>c, <2>1, <2>4 DEF ClientsTyped
  <2>6. \A y \in Range(txQueue') : Traced(y)'
    BY <1>c, <2>3
  <2> QED
    BY <1>c, <2>2, <2>5, <2>6 DEF InFlightOK
<1>8. ASSUME NEW t \in TxThreads, SendPacket(t)
      PROVE  InFlightOK'
  <2>0. PICK h, b : h = Head(sending[t]) /\ b = h.message.client
    OBVIOUS
  <2>1. /\ sending[t] # <<>> /\ sending' = [sending EXCEPT ![t] = Tail(@)]
        /\ UNCHANGED <<toServer, txQueue>>
        /\ \/ toClient' = toClient
           \/ toClient' = [toClient EXCEPT ![b] = Append(@, h)]
    BY <1>8, <2>0 DEF SendPacket
  <2>2. Range(Tail(sending[t])) \subseteq Range(sending[t]) /\ h \in Range(sending[t])
    BY <2>0, <2>1, TailElements DEF ClientsTyped
  <2>3. \A u \in TxThreads : \A d \in Range(sending'[u]) : TracedPacket(d)'
    BY <1>c, <2>1, <2>2 DEF ClientsTyped
  <2>4. TracedPacket(h)' /\ b \in Clients
    BY <1>c, <2>0, <2>2 DEF InFlightOK, TracedPacket, Traced
  <2>5. \A c \in Clients : \A d \in Range(toClient'[c]) :
          TracedPacket(d)' /\ d.message.client = c
    <3>1. CASE toClient' = toClient
      BY <1>c, <3>1
    <3>2. CASE toClient' = [toClient EXCEPT ![b] = Append(@, h)]
      <4>1. \A d \in Range(Append(toClient[b], h)) : d \in Range(toClient[b]) \/ d = h
        BY <2>4, AppendElements DEF ClientsTyped
      <4>2. h.message.client = b
        BY <2>0
      <4>3. ASSUME NEW c \in Clients, NEW d \in Range(toClient'[c])
            PROVE  TracedPacket(d)' /\ d.message.client = c
        <5>1. CASE c = b
          <6>1. d \in Range(toClient[b]) \/ d = h
            BY <3>2, <4>1, <4>3, <5>1 DEF ClientsTyped
          <6> QED
            BY <1>c, <2>4, <4>2, <5>1, <6>1
        <5>2. CASE c # b
          BY <1>c, <3>2, <4>3, <5>2 DEF ClientsTyped
        <5> QED
          BY <5>1, <5>2
      <4> QED
        BY <4>3
    <3> QED
      BY <2>1, <3>1, <3>2
  <2> QED
    BY <1>c, <2>1, <2>3, <2>5 DEF InFlightOK
<1>9. ASSUME NEW m, LoseRequest(m)
      PROVE  InFlightOK'
  <2>1. toServer' \subseteq toServer /\ UNCHANGED <<txQueue, sending, toClient>>
    BY <1>9 DEF LoseRequest
  <2> QED
    BY <1>d, <2>1
<1> QED
  BY <1>1, <1>2, <1>3, <1>4, <1>5, <1>6, <1>7, <1>8, <1>9 DEF Next, ClientStep, Serving, Sending

-----------------------------------------------------------------------------
(* Handles *)

LEMMA HandlesStep ==
  ASSUME ClientsTyped, HandlesOK, [Next]_vars
  PROVE  HandlesOK'
<1> SUFFICES ASSUME NEW b \in Clients, NEW i \in DOMAIN handles'[b], handles'[b][i] # 0
             PROVE  /\ handles'[b][i] \in GivenRids /\ rid'[b] \in GivenRids
                    /\ Back(rid'[b], handles'[b][i]) <= Len(handles'[b]) - i
  BY DEF HandlesOK
<1> DEFINE Goal == /\ handles'[b][i] \in GivenRids /\ rid'[b] \in GivenRids
                   /\ Back(rid'[b], handles'[b][i]) <= Len(handles'[b]) - i
<1>h. handles[b] \in Seq(Rid) /\ rid[b] \in Rid
  BY DEF ClientsTyped
<1>e. handles'[b] # <<>>
  OBVIOUS
<1>s. ASSUME handles'[b] = handles[b], rid'[b] = rid[b] PROVE Goal
  BY <1>s DEF HandlesOK
<1>r. ASSUME NEW c \in Clients, NEW response, Returns(c, response) \/ GoesOn(c, response),
             UNCHANGED rid
      PROVE  Goal
  <2>1. CASE b # c
    <3>1. handles'[b] = handles[b]
      BY <1>r, <2>1 DEF Returns, GoesOn, ClientsTyped
    <3> QED
      BY <1>r, <1>s, <3>1
  <2>2. CASE b = c /\ Returns(c, response)
    BY <1>e, <2>2 DEF Returns, ClientsTyped
  <2>3. CASE b = c /\ GoesOn(c, response)
    <3>1. PICK hs : /\ handles' = [handles EXCEPT ![c] = hs]
                    /\ hs = [j \in DOMAIN handles[c] |-> hs[j]]
                    /\ \A j \in DOMAIN handles[c] : hs[j] \in {0, handles[c][j]}
      BY <2>3 DEF GoesOn
    <3>2. handles'[b] = hs
      BY <2>3, <3>1 DEF ClientsTyped
    <3>3. i \in DOMAIN handles[b] /\ handles'[b][i] = handles[b][i]
      BY <2>3, <3>1, <3>2
    <3>4. Len(hs) = Len(handles[b])
      <4>1. DOMAIN hs = 1..Len(handles[b]) /\ Len(handles[b]) \in Nat
        BY <1>h, <2>3, <3>1
      <4>2. hs \in [1..Len(handles[b]) -> Rid \cup {0}]
        <5>1. \A j \in 1..Len(handles[b]) : handles[b][j] \in Rid
          BY <1>h
        <5>2. \A j \in 1..Len(handles[b]) : hs[j] \in Rid \cup {0}
          BY <2>3, <3>1, <4>1, <5>1
        <5> QED
          BY <2>3, <3>1, <4>1, <5>2
      <4>3. hs \in Seq(Rid \cup {0})
        BY <4>1, <4>2, SeqDef
      <4> QED
        BY <4>1, <4>3
    <3>5. rid'[b] = rid[b]
      BY <1>r
    <3> QED
      BY <3>2, <3>3, <3>4, <3>5 DEF HandlesOK
  <2> QED
    BY <1>r, <2>1, <2>2, <2>3
<1>1. ASSUME NEW c \in Clients, NEW cl, StartCall(c, cl) \/ AsyncCall(c, cl)
      PROVE  Goal
  <2>1. handles[c] = <<>> /\ handles' = handles /\ SendRequest(c, cl)
    BY <1>1 DEF StartCall, AsyncCall
  <2>2. b # c
    BY <1>e, <2>1
  <2>3. rid'[b] = rid[b]
    BY <2>1, <2>2, SendTyped
  <2> QED
    BY <1>s, <2>1, <2>3
<1>2. ASSUME NEW c \in Clients, CallTooLong(c)
      PROVE  Goal
  <2>1. handles[c] = <<>> /\ handles' = handles /\ rid' = [rid EXCEPT ![c] = NextRid(@)]
    BY <1>2 DEF CallTooLong
  <2>2. b # c
    BY <1>e, <2>1
  <2>3. rid'[b] = rid[b]
    BY <2>1, <2>2 DEF ClientsTyped
  <2> QED
    BY <1>s, <2>1, <2>3
<1>3. ASSUME NEW c \in Clients, CallNotConnected(c) \/ Disconnect(c) \/ Connect(c) \/ StartMulti(c)
      PROVE  Goal
  BY <1>3, <1>s DEF CallNotConnected, Disconnect, Connect, StartMulti
<1>4. ASSUME NEW c \in Clients, GetMulti(c)
      PROVE  Goal
  <2>1. PICK cl : SendRequest(c, cl)
    BY <1>4 DEF GetMulti
  <2>2. handles' = [handles EXCEPT ![c] = Append(@, rid'[c])]
    BY <1>4 DEF GetMulti
  <2>3. rid'[c] = NextRid(rid[c])
    BY <2>1, SendTyped
  <2>4. CASE b # c
    <3>1. handles'[b] = handles[b] /\ rid'[b] = rid[b]
      BY <2>1, <2>2, <2>4, SendTyped DEF ClientsTyped
    <3> QED
      BY <1>s, <3>1
  <2>5. CASE b = c
    <3> DEFINE h == handles[b]
               r == NextRid(rid[b])
    <3>1. handles'[b] = Append(h, r) /\ rid'[b] = r
      BY <2>2, <2>3, <2>5 DEF ClientsTyped
    <3>2. r \in GivenRids /\ r \in Rid
      <4>1. r \in GivenRids
        BY <1>h, NextRidValue
      <4> QED
        BY <4>1, ClientAssumption DEF GivenRids, Rid
    <3>3. h \in Seq(Rid)
      BY <1>h
    <3>i. i \in DOMAIN Append(h, r)
      BY <3>1
    <3> HIDE DEF h, r
    <3>4. /\ Len(h) \in Nat /\ Len(Append(h, r)) = Len(h) + 1 /\ i \in 1..(Len(h) + 1)
          /\ i = Len(h) + 1 => Append(h, r)[i] = r
          /\ i # Len(h) + 1 => i \in DOMAIN h /\ Append(h, r)[i] = h[i]
      BY <3>2, <3>3, <3>i
    <3>5. CASE i = Len(h) + 1
      <4>1. Back(r, r) = 0
        BY <3>2 DEF Back, GivenRids
      <4>2. handles'[b][i] = r /\ Len(handles'[b]) = i
        BY <3>1, <3>4, <3>5
      <4>3. Len(handles'[b]) - i = 0
        BY <3>4, <3>5, <4>2
      <4> QED
        BY <3>1, <3>2, <4>1, <4>2, <4>3
    <3>6. CASE i # Len(h) + 1
      <4>1. i \in DOMAIN handles[b] /\ handles[b][i] = handles'[b][i] /\ handles'[b][i] = h[i]
        BY <3>1, <3>4, <3>6 DEF h
      <4>2. /\ h[i] \in GivenRids /\ rid[b] \in GivenRids
            /\ Back(rid[b], h[i]) <= Len(h) - i
        BY <4>1 DEF HandlesOK, h
      <4>3. /\ Back(rid[b], h[i]) \in 0..(RidRange - 2)
            /\ Back(r, h[i]) <= Back(rid[b], h[i]) + 1
        BY <4>2, BackOfNext DEF r
      <4>4. Back(r, h[i]) \in Int
        BY <3>2, <4>2, ClientAssumption DEF Back, GivenRids
      <4>5. Back(r, h[i]) <= (Len(h) + 1) - i
        BY <3>4, <4>2, <4>3, <4>4
      <4> QED
        BY <3>1, <3>2, <3>4, <4>1, <4>2, <4>5
    <3> QED
      BY <3>5, <3>6
  <2> QED
    BY <2>4, <2>5
<1>5. ASSUME NEW c \in Clients, NEW j \in DOMAIN toClient[c], ReceivePacket(c, j)
      PROVE  Goal
  <2>1. /\ UNCHANGED <<serverVars, number, rid>>
        /\ \/ Dropped \/ Returns(c, NoResponse)
           \/ ReadsOn(c, toClient[c][j]) \/ HasResponse(c, toClient[c][j])
    BY <1>5, ReceiveOutcome
  <2>2. CASE Dropped \/ ReadsOn(c, toClient[c][j])
    BY <1>s, <2>1, <2>2 DEF Dropped, ReadsOn
  <2>3. CASE Returns(c, NoResponse) \/ HasResponse(c, toClient[c][j])
    BY <1>r, <2>1, <2>3 DEF HasResponse
  <2> QED
    BY <2>1, <2>2, <2>3
<1>6. ASSUME NEW c \in Clients, Timeout(c)
      PROVE  Goal
  <2>1. Returns(c, NoResponse) /\ UNCHANGED rid
    BY <1>6, Zenon DEF Timeout, Fail, Return, Returns, Answers
  <2> QED
    BY <1>r, <2>1
<1>7. CASE UNCHANGED <<handles, rid>>
  BY <1>7, <1>s
<1>8. ASSUME NEW c \in Clients, NEW j \in DOMAIN toClient[c], LosePacket(c, j)
      PROVE  Goal
  BY <1>7, <1>8 DEF LosePacket, clientVars
<1>9. CASE Serving \/ (\E t \in TxThreads : Sending(t)) \/ (\E m \in toServer : LoseRequest(m))
           \/ UNCHANGED vars
  <2>1. UNCHANGED clientVars
    BY <1>9 DEF Serving, ServeRequest, Sending, TakeResponse, SendPacket, LoseRequest, vars
  <2> QED
    BY <1>7, <2>1 DEF clientVars
<1> QED
  BY <1>1, <1>2, <1>3, <1>4, <1>5, <1>6, <1>8, <1>9 DEF Next, ClientStep

-----------------------------------------------------------------------------
(* Readers and answers *)

\* A packet of client c that its reader may take.
Readable(c, d) ==
  /\ Traced(d.message) /\ Young(d.message)
  /\ d.message.client = c
  /\ pc[c] = "waiting" => d.message.rid = rid[c]

(* What a reader takes is like what it has. *)
LEMMA ReadsReadable ==
  ASSUME ClientsTyped, InFlightOK, ReadersOK, Prompt,
         NEW c \in Clients, NEW i \in DOMAIN toClient[c], Reading(c),
         Expects(c, toClient[c][i]),
         Put(reader[c], Received(toClient[c][i])).result \in {"NEXTPACKET", "COMPLETE"}
  PROVE  LET q == Put(reader[c], Received(toClient[c][i])).reader
         IN  /\ \A d \in Range(q.packets) : Readable(c, d)
             /\ q.packets[1] \in Range(q.packets)
<1> DEFINE d == toClient[c][i]
           q == Put(reader[c], Received(d)).reader
<1>1. d \in Range(toClient[c])
  BY DEF Range
<1>2. TracedPacket(d) /\ d.message.client = c /\ Young(d.message)
  BY <1>1 DEF InFlightOK, Prompt
<1>3. Received(d).message = d.message /\ Received(d).rid = d.rid
  BY <1>2, ReceivedFields DEF TracedPacket
<1>4. Readable(c, Received(d))
  BY <1>2, <1>3 DEF Readable, TracedPacket, Expects
<1>5. \A y \in Range(reader[c].packets) : Readable(c, y)
  BY DEF ReadersOK, Readable
<1>6. /\ \A y \in Range(q.packets) : y \in Range(reader[c].packets) \/ y = Received(d)
      /\ q.packets[1] \in Range(q.packets)
  <2>1. IsReader(reader[c]) /\ Put(reader[c], Received(d)).result \in {"NEXTPACKET", "COMPLETE"}
    BY DEF ClientsTyped
  <2>2. PICK r, e : r = reader[c] /\ e = Received(d)
    OBVIOUS
  <2>3. IsReader(r) /\ Put(r, e).result \in {"NEXTPACKET", "COMPLETE"}
    BY <2>1, <2>2
  <2>4. \A y \in Range(Put(r, e).reader.packets) : y \in Range(r.packets) \/ y = e
    BY <2>3, PutElements
  <2>5. Put(r, e).reader.packets[1] \in Range(Put(r, e).reader.packets)
    BY <2>3, PutElements
  <2> QED
    BY <2>2, <2>4, <2>5
<1> HIDE DEF q, d
<1>7. \A y \in Range(q.packets) : Readable(c, y)
  BY <1>4, <1>5, <1>6
<1> QED
  BY <1>6, <1>7 DEF q, d

(* A response whose packets were readable is that of a current call. *)
LEMMA ReadableIsOwn ==
  ASSUME ClientsTyped, HandlesOK, NEW c \in Clients, NEW d, Readable(c, d), Reading(c),
         pc[c] = "multi" => \E j \in DOMAIN handles[c] : handles[c][j] = d.message.rid
  PROVE  d.message.client = c /\ d.message.number \in FirstCall(c)..number[c]
<1> DEFINE x == d.message
           b == Back(rid[c], x.rid)
           n == number[c]
<1>1. /\ x.client = c /\ x.number \in 1..n /\ x.rid \in GivenRids /\ rid[c] \in GivenRids
      /\ b < Current(c) => b = n - x.number
  BY DEF Readable, Traced, Young, Age
<1>2. n \in Nat
  BY ClientAssumption DEF ClientsTyped
<1>3. CASE pc[c] = "waiting"
  <2>1. b = 0
    BY <1>1, <1>3, BackOfNext DEF Readable
  <2>2. Current(c) = 1
    BY <1>3 DEF ClientsTyped, Current
  <2>3. n - x.number = 0
    BY <1>1, <2>1, <2>2
  <2>4. FirstCall(c) = n
    BY <1>3 DEF FirstCall
  <2> HIDE DEF n, x
  <2> QED
    BY <1>1, <1>2, <2>3, <2>4 DEF n, x
<1>4. CASE pc[c] = "multi"
  <2>1. PICK j \in DOMAIN handles[c] : handles[c][j] = x.rid
    BY <1>4
  <2>2. handles[c] \in Seq(Rid) /\ handles[c] # <<>>
    BY <1>4 DEF ClientsTyped
  <2>3. j \in 1..Len(handles[c]) /\ Len(handles[c]) \in Nat
    BY <2>1, <2>2
  <2>4. x.rid # 0
    BY <1>1 DEF GivenRids
  <2>5. b <= Len(handles[c]) - j
    BY <2>1, <2>4 DEF HandlesOK
  <2>6. b \in Nat
    BY <1>1, ClientAssumption DEF Back, GivenRids
  <2>7. Current(c) = Len(handles[c])
    BY <2>2 DEF Current
  <2>8. FirstCall(c) = n - Len(handles[c]) + 1
    BY <1>4 DEF FirstCall
  <2>9. b = n - x.number
    BY <1>1, <2>3, <2>5, <2>6, <2>7
  <2> HIDE DEF n, x, b
  <2>10. x.number \in FirstCall(c)..n
    BY <1>1, <1>2, <2>3, <2>5, <2>8, <2>9
  <2> QED
    BY <1>1, <2>10 DEF n, x
<1> QED
  BY <1>3, <1>4 DEF Reading

(* The answers, and what is read for the next, in every step. *)
LEMMA ReadersStep ==
  ASSUME ClientsTyped, ClientsTyped', InFlightOK, ReadersOK, Prompt, Next
  PROVE  ReadersOK'
<1> SUFFICES ASSUME NEW b \in Clients, Reading(b)',
                    NEW d, d \in Range(reader'[b].packets)
             PROVE  /\ Traced(d.message)' /\ Young(d.message)'
                    /\ d.message.client = b
                    /\ pc'[b] = "waiting" => d.message.rid = rid'[b]
  BY DEF ReadersOK
<1> DEFINE Goal == /\ Traced(d.message)' /\ Young(d.message)'
                   /\ d.message.client = b
                   /\ pc'[b] = "waiting" => d.message.rid = rid'[b]
<1>a. ASSUME NEW x, Traced(x) PROVE Traced(x)'
  <2>1. Moves(x.client)
    BY <1>a, StepMoves DEF Traced
  <2> QED
    BY <1>a, <2>1, MovesTraced
<1>n. reader'[b] # NewReader
  BY NewReaderTyped
<1>s. ASSUME Readable(b, d), pc'[b] = pc[b], number'[b] = number[b], rid'[b] = rid[b]
      PROVE  Goal
  <2>1. Traced(d.message)'
    BY <1>a, <1>s DEF Readable
  <2>2. Young(d.message)'
    BY <1>s DEF Readable, Young, Age
  <2> QED
    BY <1>s, <2>1, <2>2 DEF Readable
<1>k. ASSUME pc'[b] = pc[b], reader'[b] = reader[b], number'[b] = number[b], rid'[b] = rid[b]
      PROVE  Goal
  <2>1. Readable(b, d)
    BY <1>k DEF ReadersOK, Readable, Reading
  <2> QED
    BY <1>k, <1>s, <2>1
<1>1. ASSUME NEW c \in Clients, NEW cl, StartCall(c, cl)
      PROVE  Goal
  <2>1. /\ SendRequest(c, cl) /\ pc' = [pc EXCEPT ![c] = "waiting"]
        /\ reader' = [reader EXCEPT ![c] = NewReader]
    BY <1>1 DEF StartCall
  <2>2. b # c
    BY <1>n, <2>1 DEF ClientsTyped
  <2> QED
    BY <1>k, <2>1, <2>2, SendTyped DEF ClientsTyped
<1>2. ASSUME NEW c \in Clients, NEW cl, SendRequest(c, cl), UNCHANGED <<pc, reader>>
      PROVE  Goal
  <2>1. pc[c] = "idle"
    BY <1>2 DEF SendRequest
  <2>2. b # c
    BY <1>2, <2>1 DEF Reading
  <2> QED
    BY <1>2, <1>k, <2>2, SendTyped
<1>3. ASSUME NEW c \in Clients, CallTooLong(c) \/ CallNotConnected(c)
      PROVE  Goal
  <2>1. /\ pc[c] = "idle" /\ UNCHANGED <<pc, reader>>
        /\ number' = [number EXCEPT ![c] = @ + 1]
        /\ rid' = rid \/ rid' = [rid EXCEPT ![c] = NextRid(@)]
    BY <1>3 DEF CallTooLong, CallNotConnected
  <2>2. b # c
    BY <2>1 DEF Reading
  <2> QED
    BY <1>k, <2>1, <2>2 DEF ClientsTyped
<1>4. ASSUME NEW c \in Clients, Disconnect(c) \/ Connect(c)
      PROVE  Goal
  BY <1>4, <1>k DEF Disconnect, Connect
<1>5. ASSUME NEW c \in Clients, StartMulti(c)
      PROVE  Goal
  <2>1. /\ pc' = [pc EXCEPT ![c] = "multi"]
        /\ reader' = [reader EXCEPT ![c] = NewReader]
        /\ UNCHANGED <<number, rid>>
    BY <1>5 DEF StartMulti
  <2>2. b # c
    BY <1>n, <2>1 DEF ClientsTyped
  <2> QED
    BY <1>k, <2>1, <2>2 DEF ClientsTyped
<1>6. ASSUME NEW c \in Clients, NEW i \in DOMAIN toClient[c], ReceivePacket(c, i)
      PROVE  Goal
  <2>1. /\ Reading(c) /\ UNCHANGED <<number, rid>>
        /\ \/ Dropped \/ Returns(c, NoResponse)
           \/ ReadsOn(c, toClient[c][i]) \/ HasResponse(c, toClient[c][i])
    BY <1>6, ReceiveOutcome
  <2>2. CASE Dropped
    BY <1>k, <2>1, <2>2 DEF Dropped
  <2>3. ASSUME NEW response, Returns(c, response) \/ GoesOn(c, response)
        PROVE  Goal
    <3>1. /\ reader' = [reader EXCEPT ![c] = NewReader]
          /\ pc' = [pc EXCEPT ![c] = "idle"] \/ pc' = pc
      BY <2>3 DEF Returns, GoesOn
    <3>2. b # c
      BY <1>n, <3>1 DEF ClientsTyped
    <3> QED
      BY <1>k, <2>1, <3>1, <3>2 DEF ClientsTyped
  <2>4. CASE ReadsOn(c, toClient[c][i])
    <3>1. /\ UNCHANGED pc
          /\ reader' = [reader EXCEPT
                           ![c] = Put(reader[c], Received(toClient[c][i])).reader]
      BY <2>4 DEF ReadsOn
    <3>2. CASE b = c
      <4>1. \A y \in Range(Put(reader[c], Received(toClient[c][i])).reader.packets) :
              Readable(c, y)
        BY <2>1, <2>4, ReadsReadable DEF ReadsOn
      <4>2. Readable(b, d)
        BY <3>1, <3>2, <4>1 DEF ClientsTyped
      <4> QED
        BY <1>s, <2>1, <3>1, <4>2
    <3>3. CASE b # c
      BY <1>k, <2>1, <3>1, <3>3 DEF ClientsTyped
    <3> QED
      BY <3>2, <3>3
  <2> QED
    BY <2>1, <2>2, <2>3, <2>4 DEF HasResponse
<1>7. ASSUME NEW c \in Clients, Timeout(c)
      PROVE  Goal
  <2>1. /\ reader' = [reader EXCEPT ![c] = NewReader]
        /\ pc' = [pc EXCEPT ![c] = "idle"]
        /\ UNCHANGED <<number, rid>>
    BY <1>7 DEF Timeout, Fail, Return
  <2>2. b # c
    BY <1>n, <2>1 DEF ClientsTyped
  <2> QED
    BY <1>k, <2>1, <2>2 DEF ClientsTyped
<1>8. CASE UNCHANGED clientVars
  BY <1>8, <1>k DEF clientVars
<1>9. ASSUME NEW c \in Clients, NEW i \in DOMAIN toClient[c], LosePacket(c, i)
      PROVE  Goal
  BY <1>8, <1>9 DEF LosePacket
<1>10. CASE Serving \/ (\E t \in TxThreads : Sending(t)) \/ (\E m \in toServer : LoseRequest(m))
  BY <1>8, <1>10 DEF Serving, ServeRequest, Sending, TakeResponse, SendPacket, LoseRequest
<1> QED
  BY <1>1, <1>2, <1>3, <1>4, <1>5, <1>6, <1>7, <1>9, <1>10
     DEF Next, ClientStep, AsyncCall, GetMulti

LEMMA AnswersStep ==
  ASSUME ClientsTyped, InFlightOK, HandlesOK, ReadersOK, Prompt, AnswerIsOwn, Next
  PROVE  AnswerIsOwn'
<1>1. ASSUME UNCHANGED answer PROVE AnswerIsOwn'
  BY <1>1 DEF AnswerIsOwn
<1>2. ASSUME NEW c \in Clients, NEW response, Answers(c, response),
             response = NoResponse
               \/ (response.client = c /\ response.number \in FirstCall(c)..number[c])
      PROVE  AnswerIsOwn'
  <2>1. PICK ok : answer' = [answer EXCEPT ![c] = Returned(FirstCall(c), number[c], ok, response)]
    BY <1>2 DEF Answers
  <2>2. answer'[c] = Returned(FirstCall(c), number[c], ok, response)
    BY <2>1 DEF ClientsTyped
  <2>3. /\ answer'[c].response = response /\ answer'[c].first = FirstCall(c)
        /\ answer'[c].last = number[c]
    BY <2>2 DEF Returned
  <2>4. \A b \in Clients : b # c => answer'[b] = answer[b]
    BY <2>1 DEF ClientsTyped
  <2> QED
    BY <1>2, <2>3, <2>4 DEF AnswerIsOwn
<1>3. ASSUME NEW c \in Clients, NEW i \in DOMAIN toClient[c], ReceivePacket(c, i)
      PROVE  AnswerIsOwn'
  <2>1. /\ Reading(c)
        /\ \/ Dropped \/ Returns(c, NoResponse)
           \/ ReadsOn(c, toClient[c][i]) \/ HasResponse(c, toClient[c][i])
    BY <1>3, ReceiveOutcome
  <2>2. CASE Dropped \/ ReadsOn(c, toClient[c][i])
    BY <1>1, <2>2 DEF Dropped, ReadsOn
  <2>3. CASE Returns(c, NoResponse)
    BY <1>2, <2>3 DEF Returns
  <2>4. CASE HasResponse(c, toClient[c][i])
    <3> DEFINE p == Put(reader[c], Received(toClient[c][i])).reader.packets
    <3>1. p[1] \in Range(p) /\ Readable(c, p[1])
      BY <2>1, <2>4, ReadsReadable DEF HasResponse
    <3>2. /\ pc[c] = "multi" =>
               \E j \in DOMAIN handles[c] : handles[c][j] = p[1].message.rid
          /\ Returns(c, p[1].message) \/ GoesOn(c, p[1].message)
      BY <2>4 DEF HasResponse
    <3> HIDE DEF p
    <3>3. p[1].message.client = c /\ p[1].message.number \in FirstCall(c)..number[c]
      BY <2>1, <3>1, <3>2, ReadableIsOwn
    <3> QED
      BY <1>2, <3>2, <3>3 DEF Returns, GoesOn
  <2> QED
    BY <2>1, <2>2, <2>3, <2>4
<1>4. ASSUME NEW c \in Clients, Timeout(c)
      PROVE  AnswerIsOwn'
  <2>1. Answers(c, NoResponse)
    BY <1>4, Zenon DEF Timeout, Fail, Return, Answers
  <2> QED
    BY <1>2, <2>1
<1>5. ASSUME NEW c \in Clients,
             (\E cl : AsyncCall(c, cl)) \/ CallNotConnected(c)
      PROVE  AnswerIsOwn'
  <2>1. PICK n, ok : answer' = [answer EXCEPT ![c] = Returned(n, n, ok, NoResponse)]
    BY <1>5 DEF AsyncCall, CallNotConnected
  <2>2. answer'[c].response = NoResponse
    BY <2>1 DEF ClientsTyped, Returned
  <2>3. \A b \in Clients : b # c => answer'[b] = answer[b]
    BY <2>1 DEF ClientsTyped
  <2> QED
    BY <2>2, <2>3 DEF AnswerIsOwn
<1>6. CASE UNCHANGED clientVars
  BY <1>1, <1>6 DEF clientVars
<1>7. ASSUME NEW c \in Clients,
             \/ \E cl : StartCall(c, cl)
             \/ CallTooLong(c) \/ Disconnect(c) \/ Connect(c) \/ GetMulti(c) \/ StartMulti(c)
             \/ \E i \in DOMAIN toClient[c] : LosePacket(c, i)
      PROVE  AnswerIsOwn'
  BY <1>7, <1>1 DEF StartCall, CallTooLong, Disconnect, Connect, GetMulti, StartMulti,
                    LosePacket, clientVars
<1>8. CASE Serving \/ (\E t \in TxThreads : Sending(t)) \/ (\E m \in toServer : LoseRequest(m))
  BY <1>6, <1>8 DEF Serving, ServeRequest, Sending, TakeResponse, SendPacket, LoseRequest
<1> QED
  BY <1>3, <1>4, <1>5, <1>7, <1>8 DEF Next, ClientStep

-----------------------------------------------------------------------------

\* The inductive invariant.
CallsInv ==
  ClientsTyped /\ InFlightOK /\ HandlesOK /\ ReadersOK /\ AnswerIsOwn

LEMMA CallsInit ==
  ASSUME Init
  PROVE  CallsInv
<1>1. ClientsTyped
  <2>1. IsSequence(<<>>)
    BY DEF IsSequence
  <2>2. /\ pc \in [Clients -> {"idle", "waiting", "multi"}]
        /\ number \in [Clients -> 0..MaxCalls]
    BY ClientAssumption DEF Init
  <2>3. rid \in [Clients -> Rid]
    BY ClientAssumption DEF Init, Rid
  <2>4. handles \in [Clients -> Seq(Rid)]
    BY DEF Init
  <2>5. /\ \A c \in Clients : pc[c] = "idle"
        /\ DOMAIN answer = Clients /\ DOMAIN reader = Clients
        /\ DOMAIN toClient = Clients /\ DOMAIN sending = TxThreads
    BY DEF Init
  <2>6. /\ IsSequence(txQueue)
        /\ \A t \in TxThreads : IsSequence(sending[t])
        /\ \A c \in Clients : IsSequence(toClient[c]) /\ IsReader(reader[c])
    BY <2>1, NewReaderTyped DEF Init
  <2> QED
    BY <2>2, <2>3, <2>4, <2>5, <2>6 DEF ClientsTyped
<1>2. InFlightOK
  <2>1. Range(<<>>) = {}
    BY DEF Range
  <2> QED
    BY <2>1 DEF Init, InFlightOK
<1>3. HandlesOK
  BY DEF Init, HandlesOK
<1>4. ReadersOK
  BY DEF Init, ReadersOK, Reading
<1>5. AnswerIsOwn
  BY DEF Init, AnswerIsOwn, Returned
<1> QED
  BY <1>1, <1>2, <1>3, <1>4, <1>5 DEF CallsInv

LEMMA CallsStep ==
  ASSUME CallsInv, Prompt, [Next]_vars
  PROVE  CallsInv'
<1>1. CASE Next
  <2>1. ClientsTyped'
    BY <1>1, TypedStep DEF CallsInv
  <2>2. InFlightOK' /\ HandlesOK' /\ ReadersOK' /\ AnswerIsOwn'
    BY <1>1, <2>1, InFlightStep, HandlesStep, ReadersStep, AnswersStep DEF CallsInv
  <2> QED
    BY <2>1, <2>2 DEF CallsInv
<1>2. CASE UNCHANGED vars
  <2>1. /\ UNCHANGED <<toServer, txQueue, sending, toClient, pc, number, rid, reader,
                       handles, answer>>
    BY <1>2 DEF vars, serverVars, clientVars
  <2>2. ClientsTyped'
    BY <2>1 DEF CallsInv, ClientsTyped
  <2>3. \A x : Traced(x) => Traced(x)'
    BY <2>1 DEF Traced, Young, Age, Current
  <2>4. InFlightOK'
    BY <2>1, <2>3 DEF CallsInv, InFlightOK, TracedPacket
  <2>5. HandlesOK'
    BY <2>1 DEF CallsInv, HandlesOK
  <2>6. ReadersOK'
    BY <2>1, <2>3 DEF CallsInv, ReadersOK, Reading, Young, Age
  <2>7. AnswerIsOwn'
    BY <2>1 DEF CallsInv, AnswerIsOwn
  <2> QED
    BY <2>2, <2>4, <2>5, <2>6, <2>7 DEF CallsInv
<1> QED
  BY <1>1, <1>2

(* A client that makes fewer calls than there are request ids never sees them
   come round. *)
LEMMA FewArePrompt ==
  ASSUME MaxCalls < RidRange, CallsInv
  PROVE  Prompt
<1> SUFFICES ASSUME NEW c \in Clients, NEW d \in Range(toClient[c])
             PROVE  Young(d.message)
  BY DEF Prompt
<1>1. d.message.number \in 1..number[c] /\ d.message.client = c
  BY DEF CallsInv, InFlightOK, TracedPacket, Traced
<1>2. number[c] \in 0..MaxCalls
  BY DEF CallsInv, ClientsTyped
<1> QED
  BY <1>1, <1>2, ClientAssumption DEF Young, Age

(* waitForPacket, readResponse and readMulti of Client.cpp: as long as no packet
   outlives the request ids, a call returns with its own response or with none,
   and readMulti with one of its gets: whatever is lost, late, duplicated or out
   of order, and however calls with and without a response, handles, timeouts
   and reconnections have come before. *)
THEOREM AnswersAreOwn == Spec /\ []Prompt => []AnswerIsOwn
<1>1. Init => CallsInv
  BY CallsInit
<1>2. CallsInv /\ Prompt /\ [Next]_vars => CallsInv'
  BY CallsStep
<1>3. CallsInv => AnswerIsOwn
  BY DEF CallsInv
<1> QED
  BY <1>1, <1>2, <1>3, PTL DEF Spec

(* Client.cpp, getNextRid: a client that makes fewer calls than there are
   request ids needs no such promise of the network. *)
THEOREM FewAnswersAreOwn ==
  ASSUME MaxCalls < RidRange
  PROVE  Spec => []AnswerIsOwn
<1>1. CallsInv => Prompt
  BY FewArePrompt
<1>2. Init => CallsInv
  BY CallsInit
<1>3. CallsInv /\ [Next]_vars => CallsInv'
  BY <1>1, CallsStep
<1>4. CallsInv => AnswerIsOwn
  BY DEF CallsInv
<1> QED
  BY <1>2, <1>3, <1>4, PTL DEF Spec
-----------------------------------------------------------------------------
(* Replies *)

GetReplies == {"RESULT_GET", "RESULT_NOT_FOUND"}

\* A call has a case for such a reply, or it is the one that cas has none for.
Known(cl, cmd) ==
  \/ cl.cmd = "SET"
  \/ cmd \in Made(cl).understood
  \/ cl.cmd = "CAS" /\ cmd = "RESULT_ERROR_OOM"

\* What an operation leaves, with a reply its call knows or with none.
Answered(cl, outcome) ==
  \E i, p :
    /\ outcome = Outcome(i, p)
    /\ \/ p = NoReply
       \/ Known(cl, p.cmd) /\ (cl.cmd = "GET" => p.cmd \in GetReplies)

LEMMA OperateAnswers ==
  ASSUME NEW cl, cl.cmd \in Commands, NEW it, NEW st, NEW oom
  PROVE  Answered(cl, Operate(it, st, Made(cl).request, oom))
<1> SUFFICES ASSUME NEW r, r = Made(cl).request, NEW o, o = Operate(it, st, r, oom)
             PROVE  Answered(cl, o)
  OBVIOUS
<1>a. ASSUME NEW i, NEW p, o = Outcome(i, p), Known(cl, p.cmd),
             cl.cmd = "GET" => p.cmd \in GetReplies
      PROVE  Answered(cl, o)
  BY <1>a DEF Answered
<1>1. CASE cl.cmd = "SET"
  <2>1. r.cmd = "SET"
    BY <1>1 DEF Made, SetCall, Exchange
  <2>2. o = ServeSet(it, st, r, oom)
    BY <2>1 DEF Operate
  <2>3. \A p : Known(cl, p)
    BY <1>1 DEF Known
  <2>4. \E i, p : o = Outcome(i, p)
    BY <2>2, Zenon DEF ServeSet
  <2> QED
    BY <1>1, <1>a, <2>3, <2>4
<1>2. CASE cl.cmd = "ADD"
  <2>1. r.cmd = "ADD" /\ Made(cl).understood = StoredOr("RESULT_NOT_STORED")
    BY <1>2 DEF Made, AddCall, Exchange
  <2>2. o = ServeAdd(it, st, r, oom)
    BY <2>1 DEF Operate
  <2>3. \E i, p : o = Outcome(i, p) /\ p.cmd \in StoredOr("RESULT_NOT_STORED")
    BY <2>2 DEF ServeAdd, Reply, StoredOr
  <2> QED
    BY <1>2, <1>a, <2>1, <2>3 DEF Known
<1>3. CASE cl.cmd = "REPLACE"
  <2>1. r.cmd = "REPLACE" /\ Made(cl).understood = StoredOr("RESULT_NOT_STORED")
    BY <1>3 DEF Made, ReplaceCall, Exchange
  <2>2. o = ServeReplace(it, st, r)
    BY <2>1 DEF Operate
  <2>3. \E i, p : o = Outcome(i, p) /\ p.cmd \in StoredOr("RESULT_NOT_STORED")
    BY <2>2 DEF ServeReplace, Reply, StoredOr
  <2> QED
    BY <1>3, <1>a, <2>1, <2>3 DEF Known
<1>4. CASE cl.cmd = "APPEND"
  <2>1. r.cmd = "APPEND" /\ Made(cl).understood = StoredOr("RESULT_ERROR_OOM")
    BY <1>4 DEF Made, AppendCall, Exchange
  <2>2. o = ServeAppend(it, st, r)
    BY <2>1 DEF Operate
  <2>3. \E i, p : o = Outcome(i, p) /\ p.cmd \in StoredOr("RESULT_ERROR_OOM")
    BY <2>2 DEF ServeAppend, Reply, StoredOr
  <2> QED
    BY <1>4, <1>a, <2>1, <2>3 DEF Known
<1>5. CASE cl.cmd = "PREPEND"
  <2>1. r.cmd = "PREPEND" /\ Made(cl).understood = StoredOr("RESULT_ERROR_OOM")
    BY <1>5 DEF Made, PrependCall, Exchange
  <2>2. o = ServePrepend(it, st, r)
    BY <2>1 DEF Operate
  <2>3. \E i, p : o = Outcome(i, p) /\ p.cmd \in StoredOr("RESULT_ERROR_OOM")
    BY <2>2 DEF ServePrepend, Reply, StoredOr
  <2> QED
    BY <1>5, <1>a, <2>1, <2>3 DEF Known
<1>6. CASE cl.cmd \in {"INCR", "DECR"}
  <2>1. r.cmd = cl.cmd /\ Made(cl).understood = StoredOr("RESULT_NOT_FOUND")
    BY <1>6 DEF Made, IncrCall, DecrCall, Exchange
  <2>2. \E sum : o = ServeCount(it, st, r, sum)
    <3>1. CASE cl.cmd = "INCR"
      <4>1. o = ServeIncr(it, st, r)
        BY <2>1, <3>1 DEF Operate
      <4> QED
        BY <4>1 DEF ServeIncr
    <3>2. CASE cl.cmd = "DECR"
      <4>1. o = ServeDecr(it, st, r)
        BY <2>1, <3>2 DEF Operate
      <4> QED
        BY <4>1 DEF ServeDecr
    <3> QED
      BY <1>6, <3>1, <3>2
  <2>3. \E i, p : o = Outcome(i, p) /\ p.cmd \in StoredOr("RESULT_NOT_FOUND")
    <3>1. PICK sum : o = ServeCount(it, st, r, sum)
      BY <2>2
    <3> QED
      BY <3>1 DEF ServeCount, ReplyWith, StoredOr
  <2> QED
    BY <1>6, <1>a, <2>1, <2>3 DEF Known
<1>7. CASE cl.cmd = "DEL"
  <2>1. r.cmd = "DEL" /\ Made(cl).understood = {"RESULT_DELETED", "RESULT_NOT_FOUND"}
    BY <1>7 DEF Made, DelCall, Exchange
  <2>2. o = ServeDel(it)
    BY <2>1 DEF Operate
  <2>3. \E i, p : o = Outcome(i, p) /\ p.cmd \in {"RESULT_DELETED", "RESULT_NOT_FOUND"}
    BY <2>2 DEF ServeDel, Reply
  <2> QED
    BY <1>7, <1>a, <2>1, <2>3 DEF Known
<1>8. CASE cl.cmd = "GET"
  <2>1. r.cmd = "GET" /\ Made(cl).understood = GetReplies
    BY <1>8 DEF Made, GetCall, Exchange, GetReplies
  <2>2. o = ServeGet(it)
    BY <2>1 DEF Operate
  <2>3. \E i, p : o = Outcome(i, p) /\ p.cmd \in GetReplies
    BY <2>2 DEF ServeGet, Reply, GetReplies
  <2> QED
    BY <1>8, <1>a, <2>1, <2>3 DEF Known
<1>9. CASE cl.cmd = "VERSION"
  <2>1. r.cmd = "VERSION"
    BY <1>9 DEF Made, VersionCall, Exchange
  <2>2. o = Outcome(it, NoReply)
    BY <2>1 DEF Operate, ServeVersion
  <2>3. Answered(cl, o)
    BY <2>2 DEF Answered
  <2> QED
    BY <2>3
<1>10. CASE cl.cmd = "CAS"
  <2>1. r.cmd = "SET" /\ Made(cl).understood = StoredOr("RESULT_EXISTS")
    BY <1>10 DEF Made, CasCall, Exchange
  <2>2. o = ServeSet(it, st, r, oom)
    BY <2>1 DEF Operate
  <2>3. \E i, p : o = Outcome(i, p) /\ p.cmd \in {"RESULT_STORED", "RESULT_ERROR_OOM"}
    BY <2>2 DEF ServeSet, Reply
  <2> QED
    BY <1>10, <1>a, <2>1, <2>3 DEF Known, StoredOr
<1> QED
  BY <1>1, <1>2, <1>3, <1>4, <1>5, <1>6, <1>7, <1>8, <1>9, <1>10 DEF Commands

(* The server answers a call with what the call knows, or not at all. *)
LEMMA ServeAnswers ==
  ASSUME NEW cl, cl.cmd \in Commands, NEW it, NEW st, NEW oom,
         Serve(it, st, Made(cl).request, oom).reply # NoReply
  PROVE  LET p == Serve(it, st, Made(cl).request, oom).reply
         IN  Known(cl, p.cmd) /\ (cl.cmd = "GET" => p.cmd \in GetReplies)
<1> DEFINE r == Made(cl).request
           o == Operate(it, st, r, oom)
<1>1. PICK i, p :
        /\ o = Outcome(i, p)
        /\ \/ p = NoReply
           \/ Known(cl, p.cmd) /\ (cl.cmd = "GET" => p.cmd \in GetReplies)
  BY OperateAnswers DEF Answered
<1>2. Serve(it, st, r, oom) = IF r.async /\ r.cmd # "GET" THEN [o EXCEPT !.reply = NoReply] ELSE o
  BY DEF Serve
<1> HIDE DEF r, o
<1>3. o.reply = p /\ [o EXCEPT !.reply = NoReply].reply = NoReply
  BY <1>1 DEF Outcome
<1>4. Serve(it, st, r, oom).reply \in {p, NoReply}
  BY <1>2, <1>3
<1> QED
  BY <1>1, <1>4 DEF r

-----------------------------------------------------------------------------
(* Packets and readers, as far as replies show *)

\* Only a hit that does not fit has several packets.
PacketOfReply(d) ==
  /\ {"message", "payload", "first", "last"} \subseteq DOMAIN d
  /\ d.message.reply.cmd # "RESULT_GET" => d.first /\ d.last /\ d.payload = <<>>
  /\ ValuesFit => d.first /\ d.last
  /\ ValuesFit /\ d.message.reply.cmd = "RESULT_GET" => Len(d.payload) = ValueLength

LEMMA DatagramsOfReply ==
  ASSUME NEW x, NEW seq
  PROVE  \A d \in Range(Datagrams(x, x.rid, seq, ResponseWrites(x.reply))) :
           PacketOfReply(d) /\ d.message = x
<1> DEFINE ps == Payloads(ResponseWrites(x.reply))
           n  == Len(ps)
           ds == Datagrams(x, x.rid, seq, ResponseWrites(x.reply))
<1>1. /\ n \in Nat \ {0}
      /\ x.reply.cmd # "RESULT_GET" => ps = << <<>> >>
      /\ x.reply.cmd = "RESULT_GET" /\ ValuesFit => n = 1 /\ Len(ps[1]) = ValueLength
  BY ResponsePayloads
<1>2. ds = [i \in 1..n |->
         [message |-> x, index |-> i, of |-> n,
          rid     |-> x.rid,
          seq     |-> (seq + i - 1) % SeqRange,
          packets |-> IF i = 1 THEN n ELSE 0,
          first   |-> i = 1,
          last    |-> i = n,
          payload |-> ps[i]]]
  BY DEF Datagrams
<1>3. x.reply.cmd # "RESULT_GET" => n = 1 /\ ps[1] = <<>>
  BY <1>1
<1> HIDE DEF ps, n, ds
<1>4. SUFFICES ASSUME NEW i \in 1..n
               PROVE  PacketOfReply(ds[i]) /\ ds[i].message = x
  BY <1>2 DEF Range, ds
<1>5. /\ ds[i].message = x /\ ds[i].first = (i = 1) /\ ds[i].last = (i = n)
      /\ ds[i].payload = ps[i]
      /\ {"message", "payload", "first", "last"} \subseteq DOMAIN ds[i]
  BY <1>2
<1>6. n = 1 => i = 1
  BY <1>1
<1>7. x.reply.cmd # "RESULT_GET" => ds[i].first /\ ds[i].last /\ ds[i].payload = <<>>
  BY <1>3, <1>5, <1>6
<1>8. ValuesFit => n = 1
  BY <1>1, <1>3
<1>9. ValuesFit => ds[i].first /\ ds[i].last
  BY <1>5, <1>6, <1>8
<1>10. ValuesFit /\ x.reply.cmd = "RESULT_GET" => Len(ds[i].payload) = ValueLength
  BY <1>1, <1>5, <1>6
<1> QED
  BY <1>5, <1>7, <1>9, <1>10 DEF PacketOfReply

(* recvfrom cuts off nothing that fits. *)
LEMMA ReceivedOfReply ==
  ASSUME NEW d, PacketOfReply(d)
  PROVE  /\ Received(d).message = d.message
         /\ Received(d).first = d.first /\ Received(d).last = d.last
         /\ d.message.reply.cmd # "RESULT_GET" => Received(d).payload = <<>>
         /\ ValuesFit /\ d.message.reply.cmd = "RESULT_GET"
              => Len(Received(d).payload) = ValueLength
<1>1. /\ Received(d).message = d.message
      /\ Received(d).first = d.first /\ Received(d).last = d.last
      /\ Received(d).payload = IF Len(d.payload) > BufferSize - HeaderLength
                               THEN SubSeq(d.payload, 1, BufferSize - HeaderLength)
                               ELSE d.payload
  BY DEF Received, PacketOfReply
<1>2. ASSUME d.message.reply.cmd # "RESULT_GET" PROVE Received(d).payload = <<>>
  <2>1. d.payload = <<>> /\ Len(<<>>) = 0
    BY <1>2 DEF PacketOfReply
  <2> QED
    BY <1>1, <2>1, PacketsAssumption
<1>3. ASSUME ValuesFit, d.message.reply.cmd = "RESULT_GET"
      PROVE  Len(Received(d).payload) = ValueLength
  <2>1. Len(d.payload) = ValueLength
    BY <1>3 DEF PacketOfReply
  <2>2. ~(Len(d.payload) > BufferSize - HeaderLength)
    BY <1>3, <2>1, PacketsAssumption, ClientAssumption DEF ValuesFit
  <2> QED
    BY <1>1, <2>1, <2>2
<1> QED
  BY <1>1, <1>2, <1>3

\* A reader in the middle of a response has packets of hits only.
ReaderOfHits(r) ==
  /\ ~r.started => r.packets = <<>>
  /\ \A y \in Range(r.packets) : y.message.reply.cmd = "RESULT_GET"

LEMMA PutOfReply ==
  ASSUME NEW r, IsReader(r), ReaderOfHits(r),
         NEW e, e.message.reply.cmd # "RESULT_GET" => e.last,
         Put(r, e).result = "NEXTPACKET"
  PROVE  ReaderOfHits(Put(r, e).reader)
<1> DEFINE q == Put(r, e).reader
<1>1. q = Linked(Restart(r, e), e) /\ ~e.last
  BY DEF Put
<1>2. q.started
  BY <1>1 DEF Linked
<1>3. \A y \in Range(q.packets) : y \in Range(r.packets) \/ y = e
  BY PutElements
<1> HIDE DEF q
<1>4. e.message.reply.cmd = "RESULT_GET"
  BY <1>1
<1>5. ReaderOfHits(q)
  BY <1>2, <1>3, <1>4 DEF ReaderOfHits
<1> QED
  BY <1>5 DEF q

(* With a first packet, a response starts over. *)
LEMMA PutFirst ==
  ASSUME NEW r, IsReader(r), ReaderOfHits(r), NEW e, e.first,
         Put(r, e).result = "COMPLETE"
  PROVE  Put(r, e).reader.packets = <<e>>
<1>1. Put(r, e).reader = Linked(Restart(r, e), e)
  BY DEF Put
<1>2. Restart(r, e).packets = <<>>
  BY DEF Restart, IsReader, ReaderOfHits
<1>3. Linked(Restart(r, e), e).packets = Append(Restart(r, e).packets, e)
  BY DEF Linked
<1>4. Append(<<>>, e) = <<e>>
  OBVIOUS
<1> QED
  BY <1>1, <1>2, <1>3, <1>4

(* The contents of one packet are its payload. *)
LEMMA ContentsOfOne ==
  ASSUME NEW r, NEW e, r.packets = <<e>>
  PROVE  Contents(r) = e.payload
<1>1. [i \in DOMAIN r.packets |-> r.packets[i].payload] = <<e.payload>>
  OBVIOUS
<1>2. FlattenSeq(<<e.payload>>) = e.payload
  <2>1. Len(<<e.payload>>) = 1 /\ <<e.payload>>[1] = e.payload
    OBVIOUS
  <2> QED
    BY <2>1 DEF FlattenSeq
<1> QED
  BY <1>1, <1>2 DEF Contents

-----------------------------------------------------------------------------
(* Calls and their replies *)

\* Request or response x is of one of the gets that client c waits for, or
\* will wait for, with readMulti.
OfGets(x) ==
  /\ handles[x.client] # <<>>
  /\ x.number > number[x.client] - Len(handles[x.client])

\* It is of the call that its client waits for.
OfCall(x) == pc[x.client] = "waiting" /\ x.number = number[x.client]

\* A request has the call that its client waits for, and a response answers it.
RequestKnown(m) ==
  /\ m.call.cmd \in Commands
  /\ OfCall(m) => m.call = call[m.client]
  /\ OfGets(m) => m.call.cmd = "GET"
ResponseKnown(x) ==
  /\ OfCall(x) => Known(call[x.client], x.reply.cmd)
  /\ OfGets(x) => x.reply.cmd \in GetReplies
PacketKnown(d) == PacketOfReply(d) /\ ResponseKnown(d.message)

\* The invariant of replies.
RepliesOK ==
  /\ DOMAIN call = Clients /\ DOMAIN error = Clients
  /\ \A m \in toServer : RequestKnown(m)
  /\ \A x \in Range(txQueue) : ResponseKnown(x)
  /\ \A t \in TxThreads : \A d \in Range(sending[t]) : PacketKnown(d)
  /\ \A c \in Clients : \A d \in Range(toClient[c]) : PacketKnown(d)
  /\ \A c \in Clients : Reading(c) =>
       /\ ReaderOfHits(reader[c])
       /\ \A d \in Range(reader[c].packets) : ResponseKnown(d.message)

\* A step leaves client b with the calls it waits for, or with less, or begins
\* another one.
KeepsCalls(b) ==
  \/ /\ number'[b] = number[b]
     /\ pc'[b] = "waiting" => pc[b] = "waiting" /\ call'[b] = call[b]
     /\ handles'[b] # <<>> => handles[b] # <<>> /\ Len(handles'[b]) = Len(handles[b])
  \/ /\ number'[b] = number[b] + 1
     /\ handles'[b] # <<>> => Len(handles'[b]) = Len(handles[b]) + 1

(* Then what is on its way is of no other call than before. *)
LEMMA KeepsOf ==
  ASSUME ClientsTyped, ClientsTyped', NEW x, Traced(x), KeepsCalls(x.client)
  PROVE  /\ OfCall(x)' => OfCall(x) /\ call'[x.client] = call[x.client]
         /\ OfGets(x)' => OfGets(x)
<1> DEFINE b == x.client
<1>1. /\ b \in Clients /\ x.number \in 1..number[b]
      /\ number[b] \in Nat /\ Len(handles[b]) \in Nat
      /\ handles[b] \in Seq(Rid)
  BY ClientAssumption DEF Traced, ClientsTyped
<1>2. CASE /\ number'[b] = number[b]
           /\ pc'[b] = "waiting" => pc[b] = "waiting" /\ call'[b] = call[b]
           /\ handles'[b] # <<>> => handles[b] # <<>> /\ Len(handles'[b]) = Len(handles[b])
  BY <1>2 DEF OfCall, OfGets
<1>3. CASE /\ number'[b] = number[b] + 1
           /\ handles'[b] # <<>> => Len(handles'[b]) = Len(handles[b]) + 1
  <2>1. ~(x.number = number'[b])
    BY <1>1, <1>3
  <2>2. ASSUME handles'[b] # <<>>, x.number > number'[b] - Len(handles'[b])
        PROVE  OfGets(x)
    <3>1. x.number > number[b] - Len(handles[b])
      BY <1>1, <1>3, <2>2
    <3>2. Len(handles[b]) # 0
      BY <1>1, <3>1
    <3>3. handles[b] # <<>>
      BY <3>2, EmptySeq
    <3> QED
      BY <3>1, <3>3 DEF OfGets
  <2> QED
    BY <2>1, <2>2 DEF OfCall, OfGets
<1> QED
  BY <1>2, <1>3 DEF KeepsCalls

LEMMA KeepsKnown ==
  ASSUME ClientsTyped, ClientsTyped', NEW x, Traced(x), KeepsCalls(x.client)
  PROVE  /\ RequestKnown(x) => RequestKnown(x)'
         /\ ResponseKnown(x) => ResponseKnown(x)'
<1>1. /\ OfCall(x)' => OfCall(x) /\ call'[x.client] = call[x.client]
      /\ OfGets(x)' => OfGets(x)
  BY KeepsOf
<1> QED
  BY <1>1 DEF RequestKnown, ResponseKnown

(* Going on with readMulti, a client keeps as many handles. *)
LEMMA GoesOnHandles ==
  ASSUME ClientsTyped, NEW c \in Clients, NEW response, GoesOn(c, response)
  PROVE  /\ Len(handles'[c]) = Len(handles[c]) /\ handles[c] # <<>>
         /\ \A b \in Clients : b # c => handles'[b] = handles[b]
<1>1. PICK hs : /\ handles' = [handles EXCEPT ![c] = hs]
                /\ hs = [j \in DOMAIN handles[c] |-> hs[j]]
                /\ \A j \in DOMAIN handles[c] : hs[j] \in {0, handles[c][j]}
  BY DEF GoesOn
<1>2. handles[c] \in Seq(Rid) /\ handles[c] # <<>>
  BY DEF ClientsTyped, GoesOn
<1>3. DOMAIN handles[c] = 1..Len(handles[c]) /\ Len(handles[c]) \in Nat
  BY <1>2
<1>4. hs \in [1..Len(handles[c]) -> {0} \cup Rid]
  <2>1. \A j \in 1..Len(handles[c]) : handles[c][j] \in Rid
    BY <1>2
  <2> QED
    BY <1>1, <1>3, <2>1
<1>5. hs \in Seq({0} \cup Rid)
  BY <1>3, <1>4, SeqDef
<1>6. Len(hs) = Len(handles[c])
  BY <1>1, <1>3, <1>5
<1>7. handles'[c] = hs /\ \A b \in Clients : b # c => handles'[b] = handles[b]
  BY <1>1 DEF ClientsTyped
<1> QED
  BY <1>2, <1>6, <1>7

LEMMA StepKeepsCalls ==
  ASSUME ClientsTyped, RepliesOK, Next, NEW b \in Clients
  PROVE  KeepsCalls(b)
<1>s. ASSUME number'[b] = number[b], handles'[b] = handles[b], pc'[b] = pc[b],
             call'[b] = call[b]
      PROVE  KeepsCalls(b)
  BY <1>s DEF KeepsCalls
<1>r. ASSUME NEW c \in Clients, NEW response, Returns(c, response) \/ GoesOn(c, response),
             UNCHANGED <<number, call>>
      PROVE  KeepsCalls(b)
  <2>1. CASE b # c
    BY <1>r, <1>s, <2>1 DEF Returns, GoesOn, ClientsTyped
  <2>2. CASE b = c /\ Returns(c, response)
    <3>1. pc'[b] = "idle" /\ handles'[b] = <<>>
      BY <2>2 DEF Returns, ClientsTyped
    <3> QED
      BY <1>r, <3>1 DEF KeepsCalls
  <2>3. CASE b = c /\ GoesOn(c, response)
    <3>1. Len(handles'[b]) = Len(handles[b]) /\ handles[b] # <<>>
      BY <2>3, GoesOnHandles
    <3>2. pc' = pc
      BY <2>3 DEF GoesOn
    <3> QED
      BY <1>r, <3>1, <3>2 DEF KeepsCalls
  <2> QED
    BY <1>r, <2>1, <2>2, <2>3
<1>1. ASSUME NEW c \in Clients, NEW cl, StartCall(c, cl)
      PROVE  KeepsCalls(b)
  <2>1. /\ number'[c] = number[c] + 1
        /\ b # c => number'[b] = number[b]
    BY <1>1, SendTyped DEF StartCall
  <2>2. /\ pc' = [pc EXCEPT ![c] = "waiting"] /\ call' = [call EXCEPT ![c] = cl]
        /\ handles[c] = <<>> /\ handles' = handles
    BY <1>1 DEF StartCall
  <2>3. CASE b = c
    BY <2>1, <2>2, <2>3 DEF KeepsCalls
  <2>4. CASE b # c
    BY <1>s, <2>1, <2>2, <2>4 DEF ClientsTyped, RepliesOK
  <2> QED
    BY <2>3, <2>4
<1>2. ASSUME NEW c \in Clients,
             (\E cl : AsyncCall(c, cl)) \/ CallTooLong(c) \/ CallNotConnected(c)
      PROVE  KeepsCalls(b)
  <2>1. /\ number' = [number EXCEPT ![c] = @ + 1]
        /\ handles[c] = <<>> /\ UNCHANGED <<pc, call, handles>>
    BY <1>2 DEF AsyncCall, SendRequest, CallTooLong, CallNotConnected
  <2>2. CASE b = c
    BY <2>1, <2>2 DEF KeepsCalls, ClientsTyped
  <2>3. CASE b # c
    BY <1>s, <2>1, <2>3 DEF ClientsTyped
  <2> QED
    BY <2>2, <2>3
<1>3. ASSUME NEW c \in Clients, Disconnect(c) \/ Connect(c)
      PROVE  KeepsCalls(b)
  BY <1>3, <1>s DEF Disconnect, Connect
<1>4. ASSUME NEW c \in Clients, GetMulti(c)
      PROVE  KeepsCalls(b)
  <2>1. PICK cl : SendRequest(c, cl)
    BY <1>4 DEF GetMulti
  <2>2. /\ number'[c] = number[c] + 1 /\ rid'[c] = NextRid(rid[c]) /\ rid'[c] \in Rid
        /\ b # c => number'[b] = number[b]
    BY <2>1, SendTyped
  <2>3. handles' = [handles EXCEPT ![c] = Append(@, rid'[c])] /\ UNCHANGED <<pc, call>>
    BY <1>4 DEF GetMulti
  <2>4. CASE b = c
    <3>1. handles[c] \in Seq(Rid) /\ handles'[c] = Append(handles[c], rid'[c])
      BY <2>3 DEF ClientsTyped
    <3>2. Len(handles'[c]) = Len(handles[c]) + 1
      BY <2>2, <3>1
    <3> QED
      BY <2>2, <2>4, <3>2 DEF KeepsCalls
  <2>5. CASE b # c
    BY <1>s, <2>2, <2>3, <2>5 DEF ClientsTyped
  <2> QED
    BY <2>4, <2>5
<1>5. ASSUME NEW c \in Clients, StartMulti(c)
      PROVE  KeepsCalls(b)
  <2>1. /\ pc' = [pc EXCEPT ![c] = "multi"] /\ UNCHANGED <<number, call, handles>>
    BY <1>5 DEF StartMulti
  <2>2. pc'[b] = "waiting" => pc[b] = "waiting"
    BY <2>1 DEF ClientsTyped
  <2> QED
    BY <2>1, <2>2 DEF KeepsCalls
<1>6. ASSUME NEW c \in Clients, NEW i \in DOMAIN toClient[c], ReceivePacket(c, i)
      PROVE  KeepsCalls(b)
  <2>1. /\ UNCHANGED <<number, call>>
        /\ \/ Dropped \/ Returns(c, NoResponse)
           \/ ReadsOn(c, toClient[c][i]) \/ HasResponse(c, toClient[c][i])
    BY <1>6, ReceiveOutcome DEF ReceivePacket
  <2>2. CASE Dropped \/ ReadsOn(c, toClient[c][i])
    BY <1>s, <2>1, <2>2 DEF Dropped, ReadsOn
  <2>3. CASE Returns(c, NoResponse) \/ HasResponse(c, toClient[c][i])
    BY <1>r, <2>1, <2>3 DEF HasResponse
  <2> QED
    BY <2>1, <2>2, <2>3
<1>7. ASSUME NEW c \in Clients, Timeout(c)
      PROVE  KeepsCalls(b)
  <2>1. Returns(c, NoResponse) /\ UNCHANGED <<number, call>>
    BY <1>7, Zenon DEF Timeout, Fail, Return, Returns, Answers
  <2> QED
    BY <1>r, <2>1
<1>8. ASSUME NEW c \in Clients, NEW i \in DOMAIN toClient[c], LosePacket(c, i)
      PROVE  KeepsCalls(b)
  BY <1>8, <1>s DEF LosePacket, clientVars
<1>9. CASE Serving \/ (\E t \in TxThreads : Sending(t)) \/ (\E m \in toServer : LoseRequest(m))
  <2>1. UNCHANGED clientVars
    BY <1>9 DEF Serving, ServeRequest, Sending, TakeResponse, SendPacket, LoseRequest
  <2> QED
    BY <1>s, <2>1 DEF clientVars
<1> QED
  BY <1>1, <1>2, <1>3, <1>4, <1>5, <1>6, <1>7, <1>8, <1>9 DEF Next, ClientStep

(* Every reply on its way, and every one that is read, is to its call. *)
LEMMA InFlightKnown ==
  ASSUME ClientsTyped, ClientsTyped', InFlightOK, RepliesOK, Next
  PROVE  /\ \A m \in toServer' : RequestKnown(m)'
         /\ \A x \in Range(txQueue') : ResponseKnown(x)'
         /\ \A t \in TxThreads : \A d \in Range(sending'[t]) : PacketKnown(d)'
         /\ \A c \in Clients : \A d \in Range(toClient'[c]) : PacketKnown(d)'
<1> DEFINE Goal == /\ \A m \in toServer' : RequestKnown(m)'
                   /\ \A x \in Range(txQueue') : ResponseKnown(x)'
                   /\ \A t \in TxThreads : \A d \in Range(sending'[t]) : PacketKnown(d)'
                   /\ \A c \in Clients : \A d \in Range(toClient'[c]) : PacketKnown(d)'
<1>a. ASSUME NEW x, Traced(x)
      PROVE  /\ RequestKnown(x) => RequestKnown(x)'
             /\ ResponseKnown(x) => ResponseKnown(x)'
  <2>1. KeepsCalls(x.client)
    BY <1>a, StepKeepsCalls DEF Traced
  <2> QED
    BY <1>a, <2>1, KeepsKnown
<1>b. ASSUME NEW d, Traced(d.message), PacketKnown(d) PROVE PacketKnown(d)'
  <2>1. ResponseKnown(d.message)'
    BY <1>a, <1>b DEF PacketKnown
  <2> QED
    BY <1>b, <2>1 DEF PacketKnown, PacketOfReply
<1>c. /\ \A m \in toServer : RequestKnown(m)'
      /\ \A x \in Range(txQueue) : ResponseKnown(x)'
      /\ \A t \in TxThreads : \A d \in Range(sending[t]) : PacketKnown(d)'
      /\ \A c \in Clients : \A d \in Range(toClient[c]) : PacketKnown(d)'
  <2>1. \A m \in toServer : RequestKnown(m)'
    BY <1>a DEF InFlightOK, RepliesOK
  <2>2. \A x \in Range(txQueue) : ResponseKnown(x)'
    BY <1>a DEF InFlightOK, RepliesOK
  <2>3. \A t \in TxThreads : \A d \in Range(sending[t]) : PacketKnown(d)'
    BY <1>b DEF InFlightOK, RepliesOK, TracedPacket
  <2>4. \A c \in Clients : \A d \in Range(toClient[c]) : PacketKnown(d)'
    BY <1>b DEF InFlightOK, RepliesOK, TracedPacket
  <2> QED
    BY <2>1, <2>2, <2>3, <2>4
<1>d. ASSUME toServer' \subseteq toServer, UNCHANGED <<txQueue, sending>>,
             \A c \in Clients : Range(toClient'[c]) \subseteq Range(toClient[c])
      PROVE  Goal
  <2>1. \A m \in toServer' : RequestKnown(m)'
    BY <1>c, <1>d
  <2>2. \A x \in Range(txQueue') : ResponseKnown(x)'
    BY <1>c, <1>d
  <2>3. \A t \in TxThreads : \A d \in Range(sending'[t]) : PacketKnown(d)'
    BY <1>c, <1>d
  <2>4. \A c \in Clients : \A d \in Range(toClient'[c]) : PacketKnown(d)'
    BY <1>c, <1>d
  <2> QED
    BY <2>1, <2>2, <2>3, <2>4
<1>e. ASSUME NEW c \in Clients, NEW cl, SendRequest(c, cl),
             UNCHANGED <<txQueue, sending, toClient>>,
             cl.cmd \in Commands,
             pc'[c] = "waiting" => call'[c] = cl,
             handles'[c] # <<>> => cl.cmd = "GET"
      PROVE  Goal
  <2>0. PICK x : x = Request(c, cl)
    OBVIOUS
  <2>1. x.client = c /\ x.call = cl
    BY <2>0 DEF Request
  <2>2. toServer' = toServer \cup {x}
    BY <1>e, <2>0 DEF SendRequest
  <2>3. RequestKnown(x)'
    BY <1>e, <2>1 DEF RequestKnown, OfCall, OfGets
  <2>4. \A m \in toServer' : RequestKnown(m)'
    BY <1>c, <2>2, <2>3
  <2> QED
    BY <1>c, <1>e, <2>4
<1>1. ASSUME NEW c \in Clients, NEW cl \in Calls, StartCall(c, cl)
      PROVE  Goal
  <2>1. /\ SendRequest(c, cl) /\ UNCHANGED <<txQueue, sending, toClient>>
        /\ handles[c] = <<>> /\ handles' = handles
        /\ call' = [call EXCEPT ![c] = cl]
    BY <1>1 DEF StartCall
  <2>2. call'[c] = cl
    BY <2>1 DEF RepliesOK
  <2>3. cl.cmd \in Commands
    BY ClientAssumption
  <2> QED
    BY <1>e, <2>1, <2>2, <2>3
<1>2. ASSUME NEW c \in Clients, NEW cl \in Calls, AsyncCall(c, cl)
      PROVE  Goal
  <2>1. /\ SendRequest(c, cl) /\ UNCHANGED <<txQueue, sending, toClient, pc>>
        /\ handles[c] = <<>> /\ handles' = handles
    BY <1>2 DEF AsyncCall
  <2>2. pc'[c] # "waiting"
    BY <2>1 DEF SendRequest
  <2>3. cl.cmd \in Commands
    BY ClientAssumption
  <2> QED
    BY <1>e, <2>1, <2>2, <2>3
<1>3. ASSUME NEW c \in Clients, GetMulti(c)
      PROVE  Goal
  <2>1. PICK cl : SendRequest(c, cl) /\ cl.cmd = "GET"
    BY <1>3 DEF GetMulti, Call
  <2>2. UNCHANGED <<txQueue, sending, toClient, pc>>
    BY <1>3 DEF GetMulti
  <2>3. pc'[c] # "waiting"
    BY <2>1, <2>2 DEF SendRequest
  <2>4. cl.cmd \in Commands
    BY <2>1 DEF Commands
  <2> QED
    BY <1>e, <2>1, <2>2, <2>3, <2>4
<1>4. ASSUME NEW c \in Clients,
             CallTooLong(c) \/ CallNotConnected(c) \/ StartMulti(c) \/ Timeout(c)
      PROVE  Goal
  <2>1. UNCHANGED <<toServer, txQueue, sending, toClient>>
    BY <1>4 DEF CallTooLong, CallNotConnected, StartMulti, Timeout, serverVars
  <2> QED
    BY <1>d, <2>1
<1>5. ASSUME NEW c \in Clients, Disconnect(c) \/ Connect(c)
      PROVE  Goal
  <2>1. UNCHANGED <<toServer, txQueue, sending>> /\ toClient' = [toClient EXCEPT ![c] = <<>>]
    BY <1>5 DEF Disconnect, Connect, serverVars
  <2>2. Range(<<>>) = {}
    BY DEF Range
  <2>3. \A b \in Clients : Range(toClient'[b]) \subseteq Range(toClient[b])
    BY <2>1, <2>2 DEF ClientsTyped
  <2> QED
    BY <1>d, <2>1, <2>3
<1>6. ASSUME NEW c \in Clients, NEW i \in DOMAIN toClient[c],
             ReceivePacket(c, i) \/ LosePacket(c, i)
      PROVE  Goal
  <2>1. /\ UNCHANGED <<toServer, txQueue, sending>>
        /\ toClient' = [toClient EXCEPT ![c] = RemoveAt(@, i)]
    BY <1>6 DEF ReceivePacket, LosePacket, serverVars
  <2>2. Range(RemoveAt(toClient[c], i)) \subseteq Range(toClient[c])
    BY RemoveAtElements DEF ClientsTyped
  <2>3. \A b \in Clients : Range(toClient'[b]) \subseteq Range(toClient[b])
    BY <2>1, <2>2 DEF ClientsTyped
  <2> QED
    BY <1>d, <2>1, <2>3
<1>7. ASSUME NEW m \in toServer, NEW oom, NEW again, ServeRequest(m, oom, again)
      PROVE  Goal
  <2> DEFINE r == Made(m.call).request
  <2>1. PICK p : p = Serve(item[r.key], stamp, r, oom).reply
    OBVIOUS
  <2>2. /\ toServer' \subseteq toServer /\ UNCHANGED <<sending, toClient>>
        /\ txQueue' = IF p = NoReply THEN txQueue ELSE Append(txQueue, Response(m, p))
    BY <1>7, <2>1 DEF ServeRequest
  <2>3. CASE p = NoReply
    BY <1>d, <2>2, <2>3
  <2>4. CASE p # NoReply
    <3>1. PICK x : x = Response(m, p)
      OBVIOUS
    <3>2. x.client = m.client /\ x.number = m.number /\ x.rid = m.rid /\ x.reply = p
      BY <3>1 DEF Response
    <3>3. Traced(m) /\ RequestKnown(m)
      BY DEF InFlightOK, RepliesOK
    <3>4. Known(m.call, p.cmd) /\ (m.call.cmd = "GET" => p.cmd \in GetReplies)
      <4>1. m.call.cmd \in Commands
        BY <3>3 DEF RequestKnown
      <4> QED
        BY <2>1, <2>4, <4>1, ServeAnswers
    <3>5. ResponseKnown(x)
      BY <3>2, <3>3, <3>4 DEF ResponseKnown, RequestKnown, OfCall, OfGets
    <3>6. Traced(x)
      BY <3>2, <3>3 DEF Traced, Young, Age
    <3>7. ResponseKnown(x)'
      BY <1>a, <3>5, <3>6
    <3>8. \A y \in Range(Append(txQueue, x)) : y \in Range(txQueue) \/ y = x
      BY AppendElements DEF ClientsTyped
    <3>9. \A y \in Range(txQueue') : ResponseKnown(y)'
      BY <1>c, <2>2, <2>4, <3>1, <3>7, <3>8
    <3> QED
      BY <1>c, <2>2, <3>9
  <2> QED
    BY <2>3, <2>4
<1>8. ASSUME NEW t \in TxThreads, TakeResponse(t)
      PROVE  Goal
  <2>0. PICK x : x = Head(txQueue)
    OBVIOUS
  <2>1. PICK seq : sending' = [sending EXCEPT ![t] =
                      Datagrams(x, x.rid, seq, ResponseWrites(x.reply))]
    BY <1>8, <2>0 DEF TakeResponse
  <2>2. txQueue # <<>> /\ txQueue' = Tail(txQueue) /\ UNCHANGED <<toServer, toClient>>
    BY <1>8 DEF TakeResponse
  <2>3. Range(txQueue') \subseteq Range(txQueue) /\ x \in Range(txQueue)
    BY <2>0, <2>2, TailElements DEF ClientsTyped
  <2>4. \A d \in Range(Datagrams(x, x.rid, seq, ResponseWrites(x.reply))) : PacketKnown(d)'
    <3>1. ResponseKnown(x)'
      BY <1>c, <2>3
    <3>2. \A d \in Range(Datagrams(x, x.rid, seq, ResponseWrites(x.reply))) :
             PacketOfReply(d) /\ d.message = x
      BY DatagramsOfReply
    <3> QED
      BY <3>1, <3>2 DEF PacketKnown, PacketOfReply
  <2>5. \A u \in TxThreads : \A d \in Range(sending'[u]) : PacketKnown(d)'
    BY <1>c, <2>1, <2>4 DEF ClientsTyped
  <2>6. \A y \in Range(txQueue') : ResponseKnown(y)'
    BY <1>c, <2>3
  <2> QED
    BY <1>c, <2>2, <2>5, <2>6
<1>9. ASSUME NEW t \in TxThreads, SendPacket(t)
      PROVE  Goal
  <2>0. PICK h, b : h = Head(sending[t]) /\ b = h.message.client
    OBVIOUS
  <2>1. /\ sending[t] # <<>> /\ sending' = [sending EXCEPT ![t] = Tail(@)]
        /\ UNCHANGED <<toServer, txQueue>>
        /\ \/ toClient' = toClient
           \/ toClient' = [toClient EXCEPT ![b] = Append(@, h)]
    BY <1>9, <2>0 DEF SendPacket
  <2>2. Range(Tail(sending[t])) \subseteq Range(sending[t]) /\ h \in Range(sending[t])
    BY <2>0, <2>1, TailElements DEF ClientsTyped
  <2>3. \A u \in TxThreads : \A d \in Range(sending'[u]) : PacketKnown(d)'
    BY <1>c, <2>1, <2>2 DEF ClientsTyped
  <2>4. PacketKnown(h)' /\ b \in Clients
    BY <1>c, <2>0, <2>2 DEF InFlightOK, TracedPacket, Traced
  <2>5. ASSUME NEW c \in Clients, NEW d \in Range(toClient'[c])
        PROVE  PacketKnown(d)'
    <3>1. d \in Range(toClient[c]) \/ d = h
      <4>1. \A e \in Range(Append(toClient[b], h)) : e \in Range(toClient[b]) \/ e = h
        BY <2>4, AppendElements DEF ClientsTyped
      <4>2. toClient'[c] \in {toClient[c], Append(toClient[b], h)}
            /\ (toClient'[c] # toClient[c] => c = b)
        BY <2>1, <2>4 DEF ClientsTyped
      <4> QED
        BY <2>5, <4>1, <4>2
    <3> QED
      BY <1>c, <2>4, <3>1
  <2> QED
    BY <1>c, <2>1, <2>3, <2>5
<1>10. ASSUME NEW m, LoseRequest(m)
      PROVE  Goal
  <2>1. toServer' \subseteq toServer /\ UNCHANGED <<txQueue, sending, toClient>>
    BY <1>10 DEF LoseRequest
  <2> QED
    BY <1>d, <2>1
<1> QED
  BY <1>1, <1>2, <1>3, <1>4, <1>5, <1>6, <1>7, <1>8, <1>9, <1>10
     DEF Next, ClientStep, Serving, Sending

LEMMA ReadersKnown ==
  ASSUME ClientsTyped, ClientsTyped', InFlightOK, ReadersOK, RepliesOK, Next,
         NEW b \in Clients, Reading(b)'
  PROVE  /\ ReaderOfHits(reader'[b])
         /\ \A d \in Range(reader'[b].packets) : ResponseKnown(d.message)'
<1> DEFINE Goal == /\ ReaderOfHits(reader'[b])
                   /\ \A d \in Range(reader'[b].packets) : ResponseKnown(d.message)'
<1>a. ASSUME NEW x, Traced(x), ResponseKnown(x) PROVE ResponseKnown(x)'
  <2>1. KeepsCalls(x.client)
    BY <1>a, StepKeepsCalls DEF Traced
  <2> QED
    BY <1>a, <2>1, KeepsKnown
<1>k. ASSUME pc'[b] = pc[b], reader'[b] = reader[b] PROVE Goal
  <2>1. Reading(b)
    BY <1>k DEF Reading
  <2>2. /\ ReaderOfHits(reader[b])
        /\ \A d \in Range(reader[b].packets) : ResponseKnown(d.message) /\ Traced(d.message)
    BY <2>1 DEF RepliesOK, ReadersOK
  <2>3. \A d \in Range(reader[b].packets) : ResponseKnown(d.message)'
    BY <1>a, <2>2
  <2> QED
    BY <1>k, <2>2, <2>3
<1>n. ASSUME reader'[b] = NewReader PROVE Goal
  <2>1. ReaderOfHits(NewReader)
    BY NewReaderTyped DEF ReaderOfHits, NewReader
  <2> QED
    BY <1>n, <2>1, NewReaderTyped
<1>1. ASSUME NEW c \in Clients, (\E cl : StartCall(c, cl)) \/ StartMulti(c)
      PROVE  Goal
  <2>1. /\ reader' = [reader EXCEPT ![c] = NewReader]
        /\ pc' = [pc EXCEPT ![c] = "waiting"] \/ pc' = [pc EXCEPT ![c] = "multi"]
    BY <1>1 DEF StartCall, StartMulti
  <2>2. CASE b = c
    BY <1>n, <2>1, <2>2 DEF ClientsTyped
  <2>3. CASE b # c
    BY <1>k, <2>1, <2>3 DEF ClientsTyped
  <2> QED
    BY <2>2, <2>3
<1>2. CASE UNCHANGED <<pc, reader>>
  BY <1>2, <1>k
<1>3. ASSUME NEW c \in Clients,
             \/ \E cl : AsyncCall(c, cl)
             \/ CallTooLong(c) \/ CallNotConnected(c) \/ Disconnect(c) \/ Connect(c)
             \/ GetMulti(c)
      PROVE  Goal
  BY <1>2, <1>3 DEF AsyncCall, CallTooLong, CallNotConnected, Disconnect, Connect, GetMulti
<1>r. ASSUME NEW c \in Clients, NEW response, Returns(c, response) \/ GoesOn(c, response)
      PROVE  Goal
  <2>1. /\ reader' = [reader EXCEPT ![c] = NewReader]
        /\ pc' = [pc EXCEPT ![c] = "idle"] \/ pc' = pc
    BY <1>r DEF Returns, GoesOn
  <2>2. CASE b = c
    BY <1>n, <2>1, <2>2 DEF ClientsTyped
  <2>3. CASE b # c
    BY <1>k, <2>1, <2>3 DEF ClientsTyped
  <2> QED
    BY <2>2, <2>3
<1>4. ASSUME NEW c \in Clients, NEW i \in DOMAIN toClient[c], ReceivePacket(c, i)
      PROVE  Goal
  <2>1. /\ Reading(c)
        /\ \/ Dropped \/ Returns(c, NoResponse)
           \/ ReadsOn(c, toClient[c][i]) \/ HasResponse(c, toClient[c][i])
    BY <1>4, ReceiveOutcome
  <2>2. CASE Dropped
    BY <1>2, <2>2 DEF Dropped
  <2>3. CASE Returns(c, NoResponse) \/ HasResponse(c, toClient[c][i])
    BY <1>r, <2>3 DEF HasResponse
  <2>4. CASE ReadsOn(c, toClient[c][i])
    <3>1. PICK r, d, e : r = reader[c] /\ d = toClient[c][i] /\ e = Received(d)
      OBVIOUS
    <3>2. /\ UNCHANGED pc /\ Put(r, e).result = "NEXTPACKET"
          /\ reader' = [reader EXCEPT ![c] = Put(r, e).reader]
      BY <2>4, <3>1 DEF ReadsOn
    <3>3. CASE b # c
      BY <1>k, <3>2, <3>3 DEF ClientsTyped
    <3>4. CASE b = c
      <4>1. d \in Range(toClient[c])
        BY <3>1 DEF Range
      <4>2. PacketKnown(d) /\ Traced(d.message)
        BY <4>1 DEF RepliesOK, InFlightOK, TracedPacket
      <4>3. /\ e.message = d.message
            /\ e.message.reply.cmd # "RESULT_GET" => e.last
        BY <3>1, <4>2, ReceivedOfReply DEF PacketKnown, PacketOfReply
      <4>4. IsReader(r) /\ ReaderOfHits(r)
        BY <2>1, <3>1 DEF ClientsTyped, RepliesOK
      <4>5. ReaderOfHits(Put(r, e).reader)
        BY <3>2, <4>3, <4>4, PutOfReply
      <4>6. \A y \in Range(Put(r, e).reader.packets) : y \in Range(r.packets) \/ y = e
        BY <3>2, <4>4, PutElements
      <4>7. \A y \in Range(r.packets) : ResponseKnown(y.message)'
        BY <1>a, <2>1, <3>1 DEF RepliesOK, ReadersOK
      <4>8. ResponseKnown(e.message)'
        BY <1>a, <4>2, <4>3 DEF PacketKnown
      <4>9. \A y \in Range(Put(r, e).reader.packets) : ResponseKnown(y.message)'
        BY <4>6, <4>7, <4>8
      <4>10. reader'[b] = Put(r, e).reader
        BY <3>2, <3>4 DEF ClientsTyped
      <4> QED
        BY <4>5, <4>9, <4>10
    <3> QED
      BY <3>3, <3>4
  <2> QED
    BY <2>1, <2>2, <2>3, <2>4
<1>5. ASSUME NEW c \in Clients, Timeout(c)
      PROVE  Goal
  <2>1. Returns(c, NoResponse)
    BY <1>5, Zenon DEF Timeout, Fail, Return, Returns, Answers
  <2> QED
    BY <1>r, <2>1
<1>6. ASSUME UNCHANGED clientVars PROVE Goal
  BY <1>2, <1>6 DEF clientVars
<1>7. ASSUME NEW c \in Clients, NEW i \in DOMAIN toClient[c], LosePacket(c, i)
      PROVE  Goal
  BY <1>6, <1>7 DEF LosePacket
<1>8. CASE Serving \/ (\E t \in TxThreads : Sending(t)) \/ (\E m \in toServer : LoseRequest(m))
  BY <1>6, <1>8 DEF Serving, ServeRequest, Sending, TakeResponse, SendPacket, LoseRequest
<1> QED
  BY <1>1, <1>3, <1>4, <1>5, <1>7, <1>8 DEF Next, ClientStep

LEMMA RepliesInit ==
  ASSUME Init
  PROVE  RepliesOK
<1>1. Range(<<>>) = {}
  BY DEF Range
<1> QED
  BY <1>1 DEF Init, RepliesOK, Reading

LEMMA RepliesStep ==
  ASSUME ClientsTyped, ClientsTyped', InFlightOK, ReadersOK, RepliesOK, [Next]_vars
  PROVE  RepliesOK'
<1>1. DOMAIN call' = Clients /\ DOMAIN error' = Clients
  <2>1. \A c : Abort => error' = error
    BY DEF Abort
  <2>2. ASSUME NEW c, NEW ok, NEW response, NEW err, Return(c, ok, response, err)
        PROVE  DOMAIN error' = Clients
    BY <2>2 DEF Return, RepliesOK
  <2>3. ASSUME NEW c, NEW r, FinishCall(c, r) \/ FinishMulti(c, r)
        PROVE  DOMAIN error' = Clients
    BY <2>3, <2>2 DEF FinishCall, FinishMulti, Abort, RepliesOK
  <2>4. ASSUME NEW c, NEW r, Complete(c, r)
        PROVE  DOMAIN error' = Clients
    BY <2>4, <2>3 DEF Complete, Abort, RepliesOK
  <2>5. ASSUME NEW c \in Clients, NEW i \in DOMAIN toClient[c], ReceivePacket(c, i)
        PROVE  DOMAIN call' = Clients /\ DOMAIN error' = Clients
    <3>1. call' = call
      BY <2>5 DEF ReceivePacket
    <3>2. (\E err : Fail(c, err)) \/ (\E r : Complete(c, r)) \/ error' = error
      BY <2>5, Zenon DEF ReceivePacket
    <3> QED
      BY <3>1, <3>2, <2>2, <2>4 DEF Fail, RepliesOK
  <2>6. ASSUME NEW c \in Clients, Timeout(c)
        PROVE  DOMAIN call' = Clients /\ DOMAIN error' = Clients
    BY <2>6, <2>2 DEF Timeout, Fail, RepliesOK
  <2>7. ASSUME NEW c \in Clients, NEW cl, StartCall(c, cl) \/ AsyncCall(c, cl)
        PROVE  DOMAIN call' = Clients /\ DOMAIN error' = Clients
    BY <2>7 DEF StartCall, AsyncCall, ResetError, RepliesOK
  <2>8. ASSUME NEW c \in Clients,
               CallTooLong(c) \/ CallNotConnected(c) \/ Disconnect(c) \/ Connect(c)
                 \/ GetMulti(c) \/ StartMulti(c)
        PROVE  DOMAIN call' = Clients /\ DOMAIN error' = Clients
    BY <2>8 DEF CallTooLong, CallNotConnected, Disconnect, Connect, GetMulti, StartMulti,
                RepliesOK
  <2>9. CASE UNCHANGED clientVars
    BY <2>9 DEF clientVars, RepliesOK
  <2>10. ASSUME NEW c \in Clients, NEW i \in DOMAIN toClient[c], LosePacket(c, i)
         PROVE  DOMAIN call' = Clients /\ DOMAIN error' = Clients
    BY <2>9, <2>10 DEF LosePacket
  <2>11. CASE \/ Serving \/ (\E t \in TxThreads : Sending(t))
              \/ (\E m \in toServer : LoseRequest(m)) \/ UNCHANGED vars
    BY <2>9, <2>11 DEF Serving, ServeRequest, Sending, TakeResponse, SendPacket,
                       LoseRequest, vars
  <2> QED
    BY <2>5, <2>6, <2>7, <2>8, <2>10, <2>11 DEF Next, ClientStep
<1>2. CASE Next
  <2>1. /\ \A m \in toServer' : RequestKnown(m)'
        /\ \A x \in Range(txQueue') : ResponseKnown(x)'
        /\ \A t \in TxThreads : \A d \in Range(sending'[t]) : PacketKnown(d)'
        /\ \A c \in Clients : \A d \in Range(toClient'[c]) : PacketKnown(d)'
    BY <1>2, InFlightKnown
  <2>2. \A c \in Clients : Reading(c)' =>
          /\ ReaderOfHits(reader'[c])
          /\ \A d \in Range(reader'[c].packets) : ResponseKnown(d.message)'
    BY <1>2, ReadersKnown
  <2>3. \A c \in Clients : ReaderOfHits(reader'[c]) = ReaderOfHits(reader[c])'
    BY DEF ReaderOfHits
  <2> QED
    BY <1>1, <2>1, <2>2, <2>3 DEF RepliesOK
<1>3. CASE UNCHANGED vars
  <2>1. /\ UNCHANGED <<toServer, txQueue, sending, toClient, pc, number, reader, handles,
                       call>>
    BY <1>3 DEF vars, serverVars, clientVars
  <2>2. /\ \A x : ResponseKnown(x) => ResponseKnown(x)'
        /\ \A x : RequestKnown(x) => RequestKnown(x)'
    BY <2>1 DEF ResponseKnown, RequestKnown, OfCall, OfGets
  <2>3. \A d : PacketKnown(d) => PacketKnown(d)'
    BY <2>2 DEF PacketKnown, PacketOfReply
  <2> QED
    BY <1>1, <2>1, <2>2, <2>3 DEF RepliesOK, Reading, ReaderOfHits
<1> QED
  BY <1>2, <1>3

-----------------------------------------------------------------------------
(* Where a client aborts *)

\* Client c aborts with packet d: the value of a hit has no room in it, or a cas
\* gets the reply it has no case for.
AbortsWith(c, d) ==
  \/ d.message.reply.cmd = "RESULT_GET" /\ ValueLength > BufferSize - HeaderLength
  \/ call[c].cmd = "CAS" /\ d.message.reply.cmd = "RESULT_ERROR_OOM"

(* A call that returns does not abort. *)
LEMMA FinishAborts ==
  ASSUME NEW c, NEW r, NEW response, response = r.packets[1].message,
         aborted' # aborted, ~Truncated(r)
  PROVE  /\ FinishCall(c, r) =>
              /\ call[c].cmd # "SET"
              /\ response.reply.cmd \notin Made(call[c]).understood
         /\ FinishMulti(c, r) =>
              /\ \E j \in DOMAIN handles[c] : handles[c][j] = response.rid
              /\ response.reply.cmd \notin GetReplies
<1>1. ASSUME NEW ok, NEW x, NEW err, Return(c, ok, x, err) PROVE FALSE
  BY <1>1 DEF Return
<1>2. ASSUME FinishCall(c, r)
      PROVE  /\ call[c].cmd # "SET"
             /\ response.reply.cmd \notin Made(call[c]).understood
  BY <1>1, <1>2 DEF FinishCall
<1>3. ASSUME FinishMulti(c, r)
      PROVE  /\ \E j \in DOMAIN handles[c] : handles[c][j] = response.rid
             /\ response.reply.cmd \notin GetReplies
  <2> DEFINE matches == {i \in DOMAIN handles[c] : handles[c][i] = response.rid}
             hs == [i \in DOMAIN handles[c] |->
                      IF i \in matches /\ i = Min(matches) THEN 0 ELSE handles[c][i]]
  <2>1. \/ matches = {} /\ Return(c, FALSE, NoResponse, error[c])
        \/ matches # {} /\ (response.reply.cmd \notin GetCall(NoCall).understood \/ Truncated(r))
        \/ Return(c, TRUE, response, error[c])
        \/ aborted' = aborted
    BY <1>3 DEF FinishMulti
  <2>2. matches # {} /\ response.reply.cmd \notin GetCall(NoCall).understood
    BY <1>1, <2>1
  <2>3. GetCall(NoCall).understood = GetReplies
    BY DEF GetCall, Exchange, GetReplies
  <2> QED
    BY <2>2, <2>3
<1> QED
  BY <1>2, <1>3

LEMMA ReceiveAborts ==
  ASSUME CallsInv, RepliesOK, Prompt, aborted' # aborted,
         NEW c \in Clients, NEW i \in DOMAIN toClient[c], ReceivePacket(c, i)
  PROVE  AbortsWith(c, toClient[c][i])
<1>1. PICK r, d, e : r = reader[c] /\ d = toClient[c][i] /\ e = Received(d)
  OBVIOUS
<1>2. PICK q : q = Put(r, e).reader
  OBVIOUS
<1>3. PICK response : response = q.packets[1].message
  OBVIOUS
<1>4. Reading(c) /\ Expects(c, d) /\ Put(r, e).result = "COMPLETE" /\ Complete(c, q)
  <2>1. /\ Reading(c)
        /\ \/ \E err : Fail(c, err)
           \/ UNCHANGED aborted
           \/ Expects(c, d) /\ Put(r, e).result = "COMPLETE" /\ Complete(c, q)
    BY <1>1, <1>2 DEF ReceivePacket
  <2>2. ASSUME NEW err, Fail(c, err) PROVE FALSE
    BY <2>2 DEF Fail, Return
  <2> QED
    BY <2>1, <2>2
<1>5. IsReader(r) /\ ReaderOfHits(r)
  BY <1>1, <1>4 DEF CallsInv, ClientsTyped, RepliesOK
<1>6. PacketKnown(d)
  <2>1. d \in Range(toClient[c])
    BY <1>1 DEF Range
  <2> QED
    BY <2>1 DEF RepliesOK
<1>7. /\ e.message = d.message /\ e.first = d.first
      /\ d.message.reply.cmd # "RESULT_GET" => e.payload = <<>>
      /\ ValuesFit /\ d.message.reply.cmd = "RESULT_GET" => Len(e.payload) = ValueLength
  BY <1>1, <1>6, ReceivedOfReply DEF PacketKnown
<1>8. /\ \A y \in Range(q.packets) : y \in Range(r.packets) \/ y = e
      /\ q.packets[1] \in Range(q.packets)
  BY <1>2, <1>4, <1>5, PutElements
<1>9. Readable(c, q.packets[1])
  <2>1. /\ \A y \in Range(q.packets) : Readable(c, y)
        /\ q.packets[1] \in Range(q.packets)
    BY <1>1, <1>2, <1>4, ReadsReadable DEF CallsInv
  <2> QED
    BY <2>1
<1>10. ResponseKnown(response)
  BY <1>1, <1>3, <1>4, <1>6, <1>7, <1>8 DEF RepliesOK, PacketKnown
<1>11. CASE ~d.first
  <2>1. d.message.reply.cmd = "RESULT_GET" /\ ~ValuesFit
    BY <1>6, <1>11 DEF PacketKnown, PacketOfReply
  <2> QED
    BY <1>1, <2>1, ClientAssumption, PacketsAssumption DEF AbortsWith, ValuesFit
<1>12. CASE d.first
  <2>1. q.packets = <<e>>
    BY <1>2, <1>4, <1>5, <1>7, <1>12, PutFirst
  <2>2. response = d.message
    <3>1. q.packets[1] = e
      BY <2>1
    <3> QED
      BY <1>3, <1>7, <3>1
  <2>3. Contents(q) = e.payload
    BY <2>1, ContentsOfOne
  <2>4. CASE Truncated(q)
    <3>1. d.message.reply.cmd = "RESULT_GET"
      <4>1. SUFFICES ASSUME d.message.reply.cmd # "RESULT_GET" PROVE FALSE
        OBVIOUS
      <4>2. ResponseLength(response.reply) = 0
        BY <2>2, <4>1 DEF ResponseLength
      <4>3. Contents(q) = <<>> /\ Len(<<>>) = 0
        BY <1>7, <2>3, <4>1
      <4> QED
        BY <1>3, <2>4, <4>2, <4>3 DEF Truncated
    <3>2. ~ValuesFit
      <4>1. ResponseLength(response.reply) = ValueLength
        BY <2>2, <3>1 DEF ResponseLength
      <4> QED
        BY <1>3, <1>7, <2>3, <2>4, <3>1, <4>1, ClientAssumption DEF Truncated
    <3> QED
      BY <1>1, <3>1, <3>2, ClientAssumption, PacketsAssumption DEF AbortsWith, ValuesFit
  <2>5. CASE ~Truncated(q)
    <3>1. IF pc[c] = "multi" THEN FinishMulti(c, q) ELSE FinishCall(c, q)
      BY <1>4 DEF Complete
    <3>2. CASE pc[c] = "multi"
      <4>1. /\ \E j \in DOMAIN handles[c] : handles[c][j] = response.rid
            /\ response.reply.cmd \notin GetReplies
        BY <1>3, <2>5, <3>1, <3>2, FinishAborts
      <4>2. response.client = c /\ response.number \in FirstCall(c)..number[c]
        BY <1>3, <1>4, <1>9, <4>1, ReadableIsOwn DEF CallsInv
      <4>3. handles[c] # <<>> /\ handles[c] \in Seq(Rid) /\ number[c] \in Nat
        BY <3>2, ClientAssumption DEF CallsInv, ClientsTyped
      <4>4. FirstCall(c) = number[c] - Len(handles[c]) + 1 /\ Len(handles[c]) \in Nat
        BY <3>2, <4>3 DEF FirstCall
      <4>5. response.number > number[c] - Len(handles[c])
        BY <4>2, <4>3, <4>4
      <4>6. OfGets(response)
        BY <4>2, <4>3, <4>5 DEF OfGets
      <4> QED
        BY <1>10, <4>1, <4>6 DEF ResponseKnown
    <3>3. CASE pc[c] # "multi"
      <4>1. /\ call[c].cmd # "SET"
            /\ response.reply.cmd \notin Made(call[c]).understood
        BY <1>3, <2>5, <3>1, <3>3, FinishAborts
      <4>2. pc[c] = "waiting"
        BY <1>4, <3>3 DEF Reading
      <4>3. response.client = c /\ response.number \in FirstCall(c)..number[c]
        BY <1>3, <1>4, <1>9, <3>3, ReadableIsOwn DEF CallsInv
      <4>4. FirstCall(c) = number[c] /\ number[c] \in Nat
        BY <3>3, ClientAssumption DEF FirstCall, CallsInv, ClientsTyped
      <4>5. response.number = number[c]
        BY <4>3, <4>4
      <4>6. Known(call[c], response.reply.cmd)
        BY <1>10, <4>2, <4>3, <4>5 DEF ResponseKnown, OfCall
      <4> QED
        BY <1>1, <2>2, <4>1, <4>6 DEF Known, AbortsWith
    <3> QED
      BY <3>2, <3>3
  <2> QED
    BY <2>4, <2>5
<1> QED
  BY <1>11, <1>12

LEMMA AbortsStep ==
  ASSUME CallsInv, RepliesOK, Prompt, [Next]_vars, aborted' # aborted
  PROVE  \E c \in Clients :
           \/ number'[c] # number[c] /\ error'[c] \in {"KEY_TOO_LONG", "VALUE_TO_LONG"}
           \/ \E d \in Range(toClient[c]) : Takes(c, d) /\ AbortsWith(c, d)
<1>1. ASSUME NEW c \in Clients, CallTooLong(c)
      PROVE  number'[c] # number[c] /\ error'[c] \in {"KEY_TOO_LONG", "VALUE_TO_LONG"}
  <2>1. PICK err \in {"KEY_TOO_LONG", "VALUE_TO_LONG"} : error' = [error EXCEPT ![c] = err]
    BY <1>1 DEF CallTooLong
  <2>2. error'[c] = err
    BY <2>1 DEF RepliesOK
  <2>3. number'[c] = number[c] + 1 /\ number[c] \in Nat
    BY <1>1, ClientAssumption DEF CallTooLong, CallsInv, ClientsTyped
  <2> QED
    BY <2>1, <2>2, <2>3
<1>2. ASSUME NEW c \in Clients, NEW i \in DOMAIN toClient[c], ReceivePacket(c, i)
      PROVE  \E d \in Range(toClient[c]) : Takes(c, d) /\ AbortsWith(c, d)
  <2>1. AbortsWith(c, toClient[c][i])
    BY <1>2, ReceiveAborts
  <2>2. toClient'[c] = RemoveAt(toClient[c], i)
    BY <1>2 DEF ReceivePacket, CallsInv, ClientsTyped
  <2>3. toClient[c][i] \in Range(toClient[c])
    BY DEF Range
  <2> QED
    BY <2>1, <2>2, <2>3 DEF Takes
<1>3. ASSUME NEW c \in Clients,
             \/ \E cl : StartCall(c, cl) \/ AsyncCall(c, cl)
             \/ CallNotConnected(c) \/ Disconnect(c) \/ Connect(c)
             \/ GetMulti(c) \/ StartMulti(c) \/ Timeout(c)
             \/ \E i \in DOMAIN toClient[c] : LosePacket(c, i)
      PROVE  FALSE
  BY <1>3 DEF StartCall, AsyncCall, CallNotConnected, Disconnect, Connect, GetMulti,
              StartMulti, Timeout, Fail, Return, LosePacket, clientVars
<1>4. CASE \/ Serving \/ (\E t \in TxThreads : Sending(t))
           \/ (\E m \in toServer : LoseRequest(m)) \/ UNCHANGED vars
  BY <1>4 DEF Serving, ServeRequest, Sending, TakeResponse, SendPacket, LoseRequest,
              clientVars, vars
<1> QED
  BY <1>1, <1>2, <1>3, <1>4 DEF Next, ClientStep

LEMMA AbortsInv ==
  /\ Init => CallsInv /\ RepliesOK
  /\ CallsInv /\ RepliesOK /\ Prompt /\ [Next]_vars => (CallsInv /\ RepliesOK)'
<1>1. ASSUME CallsInv, RepliesOK, Prompt, [Next]_vars
      PROVE  (CallsInv /\ RepliesOK)'
  <2>1. CallsInv'
    BY <1>1, CallsStep
  <2>2. RepliesOK'
    BY <1>1, <2>1, RepliesStep DEF CallsInv
  <2> QED
    BY <2>1, <2>2
<1> QED
  BY <1>1, CallsInit, RepliesInit

(* readResponse, the calls and readMulti of Client.cpp: as long as no packet
   outlives the request ids, a call aborts with a key or a value that is too
   long, a cas for which there is no memory, or a value that does not fit in a
   packet with its header, and never because of what the network does. *)
THEOREM AbortsAreKnown == Spec /\ []Prompt => AbortsWhere
<1>1. CallsInv /\ RepliesOK /\ Prompt /\ [Next]_vars =>
        [aborted' # aborted =>
           \E c \in Clients :
             \/ number'[c] # number[c] /\ error'[c] \in {"KEY_TOO_LONG", "VALUE_TO_LONG"}
             \/ \E d \in Range(toClient[c]) :
                  /\ Takes(c, d)
                  /\ \/ /\ d.message.reply.cmd = "RESULT_GET"
                        /\ ValueLength > BufferSize - HeaderLength
                     \/ call[c].cmd = "CAS" /\ d.message.reply.cmd = "RESULT_ERROR_OOM"]_vars
  BY AbortsStep DEF AbortsWith
<1> QED
  BY <1>1, AbortsInv, PTL DEF Spec, AbortsWhere

(* Client.cpp, getNextRid: and with fewer calls than request ids, in any case. *)
THEOREM FewAbortsAreKnown ==
  ASSUME MaxCalls < RidRange
  PROVE  Spec => AbortsWhere
<1>1. CallsInv => Prompt
  BY FewArePrompt
<1>2. CallsInv /\ RepliesOK /\ [Next]_vars =>
        [aborted' # aborted =>
           \E c \in Clients :
             \/ number'[c] # number[c] /\ error'[c] \in {"KEY_TOO_LONG", "VALUE_TO_LONG"}
             \/ \E d \in Range(toClient[c]) :
                  /\ Takes(c, d)
                  /\ \/ /\ d.message.reply.cmd = "RESULT_GET"
                        /\ ValueLength > BufferSize - HeaderLength
                     \/ call[c].cmd = "CAS" /\ d.message.reply.cmd = "RESULT_ERROR_OOM"]_vars
  BY <1>1, AbortsStep DEF AbortsWith
<1> QED
  BY <1>1, <1>2, AbortsInv, PTL DEF Spec, AbortsWhere
=============================================================================
