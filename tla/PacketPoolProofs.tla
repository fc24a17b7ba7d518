--------------------------- MODULE PacketPoolProofs ---------------------------
(***************************************************************************)
(* Theorems about the free list of packets and the lists threads make and  *)
(* delete, for any number of threads and of packets.                       *)
(***************************************************************************)
EXTENDS PacketPool, BasicFacts, FiniteSetTheorems, FunctionTheorems,
        SequenceTheorems, TLAPS

-----------------------------------------------------------------------------
(* Sequences                                                               *)

LEMMA SeqOfMore ==
  ASSUME NEW S, NEW T, S \subseteq T, NEW s \in Seq(S)
  PROVE  s \in Seq(T)
  OBVIOUS

LEMMA OccursType ==
  ASSUME NEW S, NEW s \in Seq(S), NEW x, Occurs(x, s)
  PROVE  x \in S
  BY DEF Occurs

LEMMA EmptyOccurs ==
  /\ NoRepeats(<<>>)
  /\ \A x : ~Occurs(x, <<>>)
  BY DEF Occurs, NoRepeats

LEMMA EndsOfAppend ==
  ASSUME NEW S, NEW s \in Seq(S), NEW x \in S
  PROVE  /\ Append(s, x) # <<>>
         /\ Append(s, x)[Len(Append(s, x))] = x
         /\ Head(Append(s, x)) = IF s = <<>> THEN x ELSE Head(s)
<1>1. Append(s, x) \in Seq(S) /\ Len(Append(s, x)) = Len(s) + 1 /\ Len(s) \in Nat
  OBVIOUS
<1>2. Append(s, x) # <<>> /\ Head(Append(s, x)) = Append(s, x)[1]
  OBVIOUS
<1>3. Append(s, x)[Len(s) + 1] = x
  OBVIOUS
<1>4. s # <<>> => Head(s) = s[1] /\ Append(s, x)[1] = s[1]
  OBVIOUS
<1>5. s = <<>> => Len(s) = 0
  OBVIOUS
<1> QED
  BY <1>1, <1>2, <1>3, <1>4, <1>5

\* Every packet of s has the next one of s for its successor, the last one none.
Chained(s, successor) ==
  \A i \in 1..Len(s) : successor[s[i]] = IF i = Len(s) THEN NULL ELSE s[i + 1]

(* Without its first packet the list is still one.                         *)
LEMMA ChainedTail ==
  ASSUME NEW S, NEW s \in Seq(S), s # <<>>, NEW successor, Chained(s, successor)
  PROVE  /\ Chained(Tail(s), successor)
         /\ successor[Head(s)] = IF Tail(s) = <<>> THEN NULL ELSE Head(Tail(s))
<1> DEFINE r == Tail(s)
           n == Len(s)
<1>1. n \in Nat /\ n > 0 /\ Len(r) = n - 1 /\ (r = <<>> <=> n = 1)
  <2>1. n \in Nat /\ n > 0
    OBVIOUS
  <2>2. r \in Seq(S) /\ Len(r) = n - 1
    OBVIOUS
  <2>3. r = <<>> <=> Len(r) = 0
    BY <2>2, EmptySeq
  <2> QED
    BY <2>1, <2>2, <2>3
<1>2. \A i \in 1..(n - 1) : r[i] = s[i + 1]
  OBVIOUS
<1>3. Head(s) = s[1] /\ (n # 1 => Head(r) = r[1])
  <2>1. r \in Seq(S)
    OBVIOUS
  <2>2. Head(s) = s[1]
    OBVIOUS
  <2>3. r # <<>> => Head(r) = r[1]
    <3> HIDE DEF r
    <3> QED
      BY <2>1
  <2> QED
    BY <1>1, <2>2, <2>3
<1>4. \A i \in 1..n : successor[s[i]] = IF i = n THEN NULL ELSE s[i + 1]
  BY DEF Chained
<1> HIDE DEF r, n
<1>5. \A i \in 1..(n - 1) : successor[r[i]] = IF i = n - 1 THEN NULL ELSE r[i + 1]
  <2> SUFFICES ASSUME NEW i \in 1..(n - 1)
               PROVE  successor[r[i]] = IF i = n - 1 THEN NULL ELSE r[i + 1]
    OBVIOUS
  <2>1. i + 1 \in 1..n /\ (i + 1 = n <=> i = n - 1) /\ (i # n - 1 => i + 1 \in 1..(n - 1))
    BY <1>1
  <2> QED
    BY <1>2, <1>4, <2>1
<1>6. successor[s[1]] = IF n = 1 THEN NULL ELSE r[1]
  <2>1. 1 \in 1..n /\ (n # 1 => 1 \in 1..(n - 1))
    BY <1>1
  <2>2. n # 1 => r[1] = s[1 + 1]
    BY <1>2, <2>1
  <2> QED
    BY <1>4, <2>1, <2>2
<1>7. Chained(r, successor)
  BY <1>1, <1>5 DEF Chained
<1> QED
  BY <1>1, <1>3, <1>6, <1>7 DEF r

(* A packet is linked behind the last one.                                 *)
LEMMA ChainedAppend ==
  ASSUME NEW S, NEW s \in Seq(S), s # <<>>, NoRepeats(s), NEW p \in S, ~Occurs(p, s),
         NEW successor, S \subseteq DOMAIN successor,
         Chained(s, successor), successor[p] = NULL
  PROVE  Chained(Append(s, p), [successor EXCEPT ![s[Len(s)]] = p])
<1> DEFINE n == Len(s)
           a == Append(s, p)
           e == [successor EXCEPT ![s[n]] = p]
<1>1. n \in Nat /\ n > 0 /\ Len(a) = n + 1
  OBVIOUS
<1>2. \A i \in 1..n : a[i] = s[i] /\ s[i] \in S /\ s[i] # p
  BY DEF Occurs
<1>3. a[n + 1] = p
  OBVIOUS
<1>4. \A i \in 1..n : s[i] = s[n] => i = n
  <2>1. DOMAIN s = 1..n /\ n \in 1..n
    BY <1>1
  <2> QED
    BY <2>1 DEF NoRepeats
<1>5. \A q \in S : e[q] = IF q = s[n] THEN p ELSE successor[q]
  OBVIOUS
<1>6. \A i \in 1..n : successor[s[i]] = IF i = n THEN NULL ELSE s[i + 1]
  BY DEF Chained
<1> HIDE DEF n, a, e
<1>7. \A i \in 1..(n + 1) : e[a[i]] = IF i = n + 1 THEN NULL ELSE a[i + 1]
  <2> SUFFICES ASSUME NEW i \in 1..(n + 1)
               PROVE  e[a[i]] = IF i = n + 1 THEN NULL ELSE a[i + 1]
    OBVIOUS
  <2>1. CASE i = n + 1
    <3>1. n \in 1..n /\ a[i] = p
      BY <1>1, <1>3, <2>1
    <3>2. p # s[n]
      BY <1>2, <3>1
    <3> QED
      BY <1>5, <2>1, <3>1, <3>2
  <2>2. CASE i = n
    <3>1. n \in 1..n /\ n # n + 1
      BY <1>1
    <3>2. a[n] = s[n] /\ s[n] \in S
      BY <1>2, <3>1
    <3> QED
      BY <1>3, <1>5, <2>2, <3>1, <3>2
  <2>3. CASE i # n + 1 /\ i # n
    <3>1. i \in 1..n /\ i + 1 \in 1..n
      BY <1>1, <2>3
    <3>2. e[a[i]] = successor[s[i]]
      BY <1>2, <1>4, <1>5, <2>3, <3>1
    <3> QED
      BY <1>2, <1>6, <2>3, <3>1, <3>2
  <2> QED
    BY <2>1, <2>2, <2>3
<1>8. Chained(a, e)
  BY <1>1, <1>7 DEF Chained
<1> QED
  BY <1>8 DEF a, e, n

(* One packet is a list.                                                   *)
LEMMA ChainedOne ==
  ASSUME NEW p, NEW successor, successor[p] = NULL
  PROVE  Chained(Append(<<>>, p), successor)
  BY DEF Chained

(* The successor of another packet does not matter.                        *)
LEMMA ChainedOther ==
  ASSUME NEW S, NEW s \in Seq(S), NEW successor, S \subseteq DOMAIN successor,
         NEW q, NEW x, ~Occurs(q, s), Chained(s, successor)
  PROVE  Chained(s, [successor EXCEPT ![q] = x])
<1>1. \A i \in 1..Len(s) : s[i] \in S /\ s[i] # q
  BY DEF Occurs
<1>2. \A i \in 1..Len(s) : [successor EXCEPT ![q] = x][s[i]] = successor[s[i]]
  BY <1>1
<1> QED
  BY <1>2 DEF Chained

-----------------------------------------------------------------------------
(* The invariant                                                           *)

\* A packet is not twice on the free list or in one list; every packet is
\* somewhere; and what is in one place is in no other.
Once ==
  /\ NoRepeats(free)
  /\ \A t \in Threads : NoRepeats(list[t])

Covered ==
  \A p \in items : \/ Occurs(p, free)
                   \/ p \in lost
                   \/ \E t \in Threads : Occurs(p, list[t]) \/ packet[t] = p

FreeApart ==
  \A p \in items : Occurs(p, free) =>
    p \notin lost /\ \A t \in Threads : ~Occurs(p, list[t]) /\ packet[t] # p

ListsApart ==
  \A p \in items, t \in Threads : Occurs(p, list[t]) =>
    /\ p \notin lost
    /\ \A u \in Threads : packet[u] # p /\ (u # t => ~Occurs(p, list[u]))

HandsApart ==
  \A p \in items, t \in Threads : packet[t] = p =>
    p \notin lost /\ \A u \in Threads : u # t => packet[u] # p

Placed == Once /\ Covered /\ FreeApart /\ ListsApart /\ HandsApart

\* Nobody has constructed or linked a deleted packet whose successor is still to
\* be read.
Stale ==
  \A t, u \in Threads : pc[t] = "dropped" =>
    ~Occurs(cur[t], list[u]) /\ (packet[u] = cur[t] => pc[u] = "allocated")

\* The packet a thread has in hand, and the pointers that lead through its list
InHand(t) ==
  /\ pc[t] = "idle" => packet[t] = NULL
  /\ pc[t] \in {"allocated", "filled"} => packet[t] # NULL
  /\ pc[t] # "allocated" /\ packet[t] # NULL => next[packet[t]] = NULL

Making(t) ==
  pc[t] \in {"idle", "allocated", "filled"} =>
    IF list[t] = <<>> THEN head[t] = NULL /\ tail[t] = NULL
                      ELSE head[t] = Head(list[t]) /\ tail[t] = list[t][Len(list[t])]

Deleting(t) ==
  /\ pc[t] \in {"drop", "keep"} => list[t] # <<>> /\ cur[t] = Head(list[t])
  /\ pc[t] = "dropped" =>
       /\ cur[t] # NULL
       /\ next[cur[t]] = IF list[t] = <<>> THEN NULL ELSE Head(list[t])
  /\ pc[t] \in {"drop", "dropped", "keep"} => head[t] # NULL

Shaped ==
  \A t \in Threads : Chained(list[t], next) /\ InHand(t) /\ Making(t) /\ Deleting(t)

Sound == Placed /\ Stale /\ Shaped

(* What the types say of one thread                                        *)
LEMMA TypesOfThread ==
  ASSUME TypeOK, NEW t \in Threads
  PROVE  /\ packet[t] \in items \cup {NULL} /\ cur[t] \in items \cup {NULL}
         /\ head[t] \in items \cup {NULL} /\ tail[t] \in items \cup {NULL}
         /\ list[t] \in Seq(items) /\ NULL \notin items
         /\ items \subseteq DOMAIN next
  BY PacketPoolAssumption DEF TypeOK

-----------------------------------------------------------------------------
(* Steps that move no packet                                               *)

LEMMA StillTypes ==
  ASSUME TypeOK, NEW t \in Threads,
         Construct(t) \/ StartDrop(t) \/ StartKeep(t)
  PROVE  TypeOK'
<1>1. CASE Construct(t)
  BY <1>1, PacketPoolAssumption DEF TypeOK, Construct, Goto
<1>2. ASSUME NEW label \in {"drop", "keep"}, StartWalk(t, label)
      PROVE  TypeOK'
  BY <1>2 DEF TypeOK, StartWalk, Goto
<1> QED
  BY <1>1, <1>2 DEF StartDrop, StartKeep

LEMMA StillPlaced ==
  ASSUME Placed, UNCHANGED <<free, items, packet, list, lost>>
  PROVE  Placed'
  BY Zenon DEF Placed, Once, Covered, FreeApart, ListsApart, HandsApart

LEMMA ConstructStep ==
  ASSUME TypeOK, Sound, NEW t \in Threads, Construct(t), ~raced'
  PROVE  Sound'
<1>1. Placed'
  BY StillPlaced DEF Sound, Construct
<1>2. /\ packet' = packet /\ cur' = cur /\ list' = list /\ head' = head /\ tail' = tail
      /\ pc[t] = "allocated" /\ pc'[t] = "filled" /\ packet[t] # NULL
      /\ \A u \in Threads : u # t => pc'[u] = pc[u]
      /\ \A u \in Threads : pc[u] = "dropped" => cur[u] # packet[t]
      /\ next' = [next EXCEPT ![packet[t]] = NULL]
  BY DEF Construct, Goto, TypeOK, Sound, Shaped, InHand
<1>3. packet[t] \in items /\ packet[t] \in DOMAIN next
  BY <1>2, TypesOfThread
<1>4. \A u \in Threads : ~Occurs(packet[t], list[u]) /\ (u # t => packet[u] # packet[t])
  BY <1>3 DEF Sound, Placed, ListsApart, HandsApart
<1>5. Stale'
  <2> SUFFICES ASSUME NEW u \in Threads, NEW v \in Threads, pc'[u] = "dropped"
               PROVE  ~Occurs(cur[u], list[v])
                        /\ (packet[v] = cur[u] => pc'[v] = "allocated")
    BY <1>2 DEF Stale
  <2>1. pc[u] = "dropped"
    BY <1>2
  <2>2. packet[t] # cur[u]
    BY <1>2, <2>1
  <2> QED
    BY <1>2, <2>1, <2>2 DEF Sound, Stale
<1>6. ASSUME NEW u \in Threads
      PROVE  (Chained(list[u], next) /\ InHand(u) /\ Making(u) /\ Deleting(u))'
  <2>1. Chained(list[u], next')
    BY <1>2, <1>4, TypesOfThread, ChainedOther DEF Sound, Shaped
  <2>2. InHand(u)'
    BY <1>2, <1>3, <1>4, TypesOfThread DEF Sound, Shaped, InHand
  <2>3. Making(u)'
    BY <1>2 DEF Sound, Shaped, Making
  <2>4. Deleting(u)'
    BY <1>2 DEF Sound, Shaped, Deleting
  <2> QED
    BY <1>2, <2>1, <2>2, <2>3, <2>4
<1> QED
  BY <1>1, <1>5, <1>6 DEF Sound, Shaped

LEMMA StartStep ==
  ASSUME TypeOK, Sound, NEW t \in Threads, StartDrop(t) \/ StartKeep(t)
  PROVE  Sound'
<1>1. /\ UNCHANGED <<free, items, next, packet, head, tail, list, lost>>
      /\ pc[t] \in {"idle", "filled"} /\ head[t] # NULL
      /\ cur' = [cur EXCEPT ![t] = head[t]]
      /\ pc'[t] \in {"drop", "keep"} /\ cur'[t] = head[t]
      /\ \A u \in Threads : u # t => pc'[u] = pc[u] /\ cur'[u] = cur[u]
  BY DEF StartDrop, StartKeep, StartWalk, Goto, TypeOK
<1>2. Placed'
  BY <1>1, StillPlaced DEF Sound
<1>3. Stale'
  BY <1>1 DEF Sound, Stale
<1>4. ASSUME NEW u \in Threads
      PROVE  (Chained(list[u], next) /\ InHand(u) /\ Making(u) /\ Deleting(u))'
  <2>1. InHand(u)'
    BY <1>1 DEF Sound, Shaped, InHand
  <2>2. Making(u)'
    BY <1>1 DEF Sound, Shaped, Making
  <2>3. Deleting(u)'
    BY <1>1 DEF Sound, Shaped, Making, Deleting
  <2> QED
    BY <1>1, <2>1, <2>2, <2>3 DEF Sound, Shaped
<1> QED
  BY <1>2, <1>3, <1>4 DEF Sound, Shaped

-----------------------------------------------------------------------------
(* Steps that move one                                                     *)

(* A packet leaves the free list, or is one there was not: it is in hand.  *)
LEMMA NewStep ==
  ASSUME TypeOK, Sound, NEW t \in Threads, New(t)
  PROVE  TypeOK' /\ Sound'
<1>1. PICK p \in Packets : Alloc(p) /\ packet' = [packet EXCEPT ![t] = p]
  BY DEF New
<1>2. /\ UNCHANGED <<next, cur, head, tail, list, lost>>
      /\ pc[t] = "idle" /\ packet[t] = NULL
      /\ pc' = [pc EXCEPT ![t] = "allocated"] /\ pc'[t] = "allocated"
      /\ \A u \in Threads : u # t => pc'[u] = pc[u]
  BY DEF New, Goto, TypeOK, Sound, Shaped, InHand
<1>3. /\ free' \in Seq(items') /\ items \subseteq items' /\ items' \subseteq Packets
      /\ items' \subseteq items \cup {p} /\ p \in items'
      /\ NoRepeats(free')
      /\ \A y : Occurs(y, free') <=> Occurs(y, free) /\ y # p
      /\ p \notin lost
      /\ \A u \in Threads : ~Occurs(p, list[u]) /\ packet[u] # p
  <2>1. CASE free # <<>> /\ p = Head(free) /\ free' = Tail(free) /\ UNCHANGED items
    <3>1. NoRepeats(free) /\ free \in Seq(items) /\ items \subseteq Packets
      BY DEF Sound, Placed, Once, TypeOK
    <3>2. /\ Tail(free) \in Seq(items) /\ Occurs(p, free) /\ p \in items
          /\ \A y : Occurs(y, Tail(free)) <=> Occurs(y, free) /\ y # p
          /\ NoRepeats(Tail(free))
      BY <2>1, <3>1, TailOccurs
    <3>3. p \notin lost /\ \A u \in Threads : ~Occurs(p, list[u]) /\ packet[u] # p
      BY <3>2, Zenon DEF Sound, Placed, FreeApart
    <3> QED
      BY <2>1, <3>1, <3>2, <3>3
  <2>2. CASE free = <<>> /\ p \in Packets \ items /\ items' = items \cup {p} /\ UNCHANGED free
    <3>1. free' \in Seq(items')
      BY <2>2
    <3>2. NoRepeats(free') /\ \A y : Occurs(y, free') <=> Occurs(y, free) /\ y # p
      BY <2>2, EmptyOccurs
    <3>3. ASSUME NEW u \in Threads PROVE ~Occurs(p, list[u]) /\ packet[u] # p
      <4>1. list[u] \in Seq(items) /\ packet[u] \in items \cup {NULL}
        BY TypesOfThread
      <4>2. ~Occurs(p, list[u])
        BY <2>2, <4>1, OccursType
      <4> QED
        BY <2>2, <4>1, <4>2, PacketPoolAssumption
    <3>4. p \notin lost /\ items \subseteq Packets
      BY <2>2 DEF TypeOK
    <3> QED
      BY <2>2, <3>1, <3>2, <3>3, <3>4
  <2> QED
    BY <1>1, <2>1, <2>2 DEF Alloc
<1>4. TypeOK'
  <2>1. list' \in [Threads -> Seq(items')]
    <3>1. \A u \in Threads : list[u] \in Seq(items')
      BY <1>3, TypesOfThread, SeqOfMore
    <3> QED
      BY <1>2, <3>1 DEF TypeOK
  <2> QED
    BY <1>1, <1>2, <1>3, <2>1, PacketPoolAssumption DEF TypeOK, New
<1>5. packet'[t] = p /\ \A u \in Threads : u # t => packet'[u] = packet[u]
  BY <1>1 DEF TypeOK
<1>6. p # NULL
  BY <1>1, PacketPoolAssumption
<1>7. Placed'
  <2>1. Once'
    BY <1>2, <1>3, Zenon DEF Sound, Placed, Once
  <2>2. Covered'
    <3> SUFFICES ASSUME NEW q \in items', q # p
                 PROVE  \/ Occurs(q, free') \/ q \in lost
                        \/ \E u \in Threads : Occurs(q, list[u]) \/ packet'[u] = q
      BY <1>2, <1>5 DEF Covered
    <3>1. q \in items /\ q # NULL
      BY <1>3, PacketPoolAssumption
    <3>2. \A u \in Threads : packet[u] = q => packet'[u] = q
      BY <1>2, <1>5, <3>1
    <3> QED
      BY <1>3, <3>1, <3>2 DEF Sound, Placed, Covered
  <2>3. FreeApart'
    <3> SUFFICES ASSUME NEW q \in items', Occurs(q, free')
                 PROVE  q \notin lost /\ \A u \in Threads : ~Occurs(q, list[u]) /\ packet'[u] # q
      BY <1>2 DEF FreeApart
    <3>1. Occurs(q, free) /\ q # p /\ q \in items
      BY <1>3
    <3> QED
      BY <1>5, <3>1 DEF Sound, Placed, FreeApart
  <2>4. ListsApart'
    <3> SUFFICES ASSUME NEW q \in items', NEW u \in Threads, Occurs(q, list[u])
                 PROVE  /\ q \notin lost
                        /\ \A v \in Threads : packet'[v] # q /\ (v # u => ~Occurs(q, list[v]))
      BY <1>2 DEF ListsApart
    <3>1. q # p /\ q \in items
      BY <1>3
    <3> QED
      BY <1>5, <3>1 DEF Sound, Placed, ListsApart
  <2>5. HandsApart'
    <3> SUFFICES ASSUME NEW q \in items', NEW u \in Threads, packet'[u] = q
                 PROVE  q \notin lost /\ \A v \in Threads : v # u => packet'[v] # q
      BY <1>2 DEF HandsApart
    <3>1. CASE q = p
      BY <1>3, <1>5, <3>1
    <3>2. CASE q # p
      BY <1>3, <1>5, <3>2 DEF Sound, Placed, HandsApart
    <3> QED
      BY <3>1, <3>2
  <2> QED
    BY <2>1, <2>2, <2>3, <2>4, <2>5 DEF Placed
<1>8. Stale'
  <2> SUFFICES ASSUME NEW u \in Threads, NEW v \in Threads, pc'[u] = "dropped"
               PROVE  ~Occurs(cur[u], list[v])
                        /\ (packet'[v] = cur[u] => pc'[v] = "allocated")
    BY <1>2 DEF Stale
  <2> QED
    BY <1>2, <1>5 DEF Sound, Stale
<1>9. ASSUME NEW u \in Threads
      PROVE  (Chained(list[u], next) /\ InHand(u) /\ Making(u) /\ Deleting(u))'
  <2>1. InHand(u)'
    BY <1>2, <1>5, <1>6 DEF Sound, Shaped, InHand
  <2>2. Making(u)'
    BY <1>2 DEF Sound, Shaped, Making
  <2>3. Deleting(u)'
    BY <1>2 DEF Sound, Shaped, Deleting
  <2> QED
    BY <1>2, <2>1, <2>2, <2>3 DEF Sound, Shaped
<1> QED
  BY <1>4, <1>7, <1>8, <1>9 DEF Sound, Shaped

(* The packet in hand is linked.                                           *)
LEMMA LinkStep ==
  ASSUME TypeOK, Sound, NEW t \in Threads, Link(t)
  PROVE  TypeOK' /\ Sound'
<1> DEFINE p == packet[t]
<1>1. /\ UNCHANGED <<free, items, cur, lost>>
      /\ pc[t] = "filled" /\ pc'[t] = "idle"
      /\ \A u \in Threads : u # t => pc'[u] = pc[u]
      /\ packet'[t] = NULL
      /\ \A u \in Threads : u # t => packet'[u] = packet[u]
      /\ list'[t] = Append(list[t], p)
      /\ \A u \in Threads : u # t => list'[u] = list[u]
      /\ head'[t] = (IF tail[t] = NULL THEN p ELSE head[t])
      /\ tail'[t] = p
      /\ \A u \in Threads : u # t => head'[u] = head[u] /\ tail'[u] = tail[u]
      /\ next' = IF tail[t] = NULL THEN next ELSE [next EXCEPT ![tail[t]] = p]
  BY DEF Link, LetGo, Goto, TypeOK
<1>2. p \in items /\ p # NULL /\ next[p] = NULL /\ p \in Packets
  BY <1>1, TypesOfThread DEF Sound, Shaped, InHand, TypeOK
<1>3. /\ \A u \in Threads : ~Occurs(p, list[u]) /\ (u # t => packet[u] # p)
      /\ p \notin lost /\ ~Occurs(p, free)
  BY <1>2 DEF Sound, Placed, ListsApart, HandsApart, FreeApart
<1>4. list[t] \in Seq(items) /\ NoRepeats(list[t])
  BY TypesOfThread DEF Sound, Placed, Once
<1>5. /\ list'[t] \in Seq(items)
      /\ \A y : Occurs(y, list'[t]) <=> Occurs(y, list[t]) \/ y = p
      /\ NoRepeats(list'[t])
  BY <1>1, <1>2, <1>3, <1>4, AppendOccurs
<1>6. IF list[t] = <<>> THEN tail[t] = NULL /\ head[t] = NULL
      ELSE /\ tail[t] = list[t][Len(list[t])] /\ head[t] = Head(list[t])
           /\ tail[t] # NULL /\ Occurs(tail[t], list[t]) /\ tail[t] \in items
  <2>1. CASE list[t] = <<>>
    BY <1>1, <2>1 DEF Sound, Shaped, Making
  <2>2. CASE list[t] # <<>>
    <3>1. tail[t] = list[t][Len(list[t])] /\ head[t] = Head(list[t])
      BY <1>1, <2>2 DEF Sound, Shaped, Making
    <3>2. Len(list[t]) \in DOMAIN list[t]
      BY <1>4, <2>2
    <3>3. Occurs(tail[t], list[t])
      BY <3>1, <3>2 DEF Occurs
    <3>4. tail[t] \in items
      BY <1>4, <3>3, OccursType
    <3> QED
      BY <2>2, <3>1, <3>3, <3>4, TypesOfThread
  <2> QED
    BY <2>1, <2>2
<1> HIDE DEF p
<1>7. TypeOK'
  <2>1. list' \in [Threads -> Seq(items)]
    BY <1>2, <1>4 DEF Link, TypeOK, p
  <2>2. next' \in [Packets -> Packets \cup {NULL}]
    BY <1>1, <1>2 DEF TypeOK
  <2>3. /\ pc' \in [Threads -> {"idle", "allocated", "filled", "drop", "dropped", "keep"}]
        /\ packet' \in [Threads -> items \cup {NULL}]
        /\ raced' \in BOOLEAN
    BY DEF Link, LetGo, Goto, TypeOK
  <2>4. /\ head' \in [Threads -> items \cup {NULL}]
        /\ tail' \in [Threads -> items \cup {NULL}]
    BY <1>2 DEF Link, TypeOK, p
  <2> QED
    BY <1>1, <2>1, <2>2, <2>3, <2>4 DEF TypeOK
<1>8. Placed'
  <2>1. Once'
    BY <1>1, <1>5, Zenon DEF Sound, Placed, Once
  <2>2. Covered'
    <3> SUFFICES ASSUME NEW q \in items
                 PROVE  \/ Occurs(q, free) \/ q \in lost
                        \/ \E u \in Threads : Occurs(q, list'[u]) \/ packet'[u] = q
      BY <1>1 DEF Covered
    <3>1. \A u \in Threads : Occurs(q, list[u]) => Occurs(q, list'[u])
      BY <1>1, <1>5
    <3>2. \A u \in Threads : packet[u] = q => packet'[u] = q \/ Occurs(q, list'[t])
      BY <1>1, <1>5 DEF p
    <3> QED
      BY <3>1, <3>2 DEF Sound, Placed, Covered
  <2>3. FreeApart'
    <3> SUFFICES ASSUME NEW q \in items, Occurs(q, free)
                 PROVE  q \notin lost /\ \A u \in Threads : ~Occurs(q, list'[u]) /\ packet'[u] # q
      BY <1>1 DEF FreeApart
    <3>1. q # p /\ q # NULL
      BY <1>3, TypesOfThread
    <3> QED
      BY <1>1, <1>5, <3>1 DEF Sound, Placed, FreeApart
  <2>4. ListsApart'
    <3> SUFFICES ASSUME NEW q \in items, NEW u \in Threads, Occurs(q, list'[u])
                 PROVE  /\ q \notin lost
                        /\ \A v \in Threads : packet'[v] # q /\ (v # u => ~Occurs(q, list'[v]))
      BY <1>1 DEF ListsApart
    <3>1. q # NULL
      BY TypesOfThread
    <3>2. CASE q = p
      BY <1>1, <1>3, <1>5, <3>1, <3>2
    <3>3. CASE q # p
      <4>1. \A v \in Threads : Occurs(q, list'[v]) <=> Occurs(q, list[v])
        BY <1>1, <1>5, <3>3
      <4> QED
        BY <1>1, <3>1, <4>1 DEF Sound, Placed, ListsApart
    <3> QED
      BY <3>2, <3>3
  <2>5. HandsApart'
    <3> SUFFICES ASSUME NEW q \in items, NEW u \in Threads, packet'[u] = q
                 PROVE  q \notin lost /\ \A v \in Threads : v # u => packet'[v] # q
      BY <1>1 DEF HandsApart
    <3>1. q # NULL
      BY TypesOfThread
    <3> QED
      BY <1>1, <3>1 DEF Sound, Placed, HandsApart
  <2> QED
    BY <2>1, <2>2, <2>3, <2>4, <2>5 DEF Placed
<1>9. Stale'
  <2> SUFFICES ASSUME NEW u \in Threads, NEW v \in Threads, pc'[u] = "dropped"
               PROVE  ~Occurs(cur[u], list'[v])
                        /\ (packet'[v] = cur[u] => pc'[v] = "allocated")
    BY <1>1 DEF Stale
  <2>1. pc[u] = "dropped"
    BY <1>1
  <2>2. cur[u] # p /\ cur[u] # NULL
    BY <1>1, <2>1 DEF Sound, Stale, Shaped, Deleting, p
  <2> QED
    BY <1>1, <1>5, <2>1, <2>2 DEF Sound, Stale
<1>10. ASSUME NEW u \in Threads
       PROVE  (Chained(list[u], next) /\ InHand(u) /\ Making(u) /\ Deleting(u))'
  <2>1. Chained(list'[u], next')
    <3>1. CASE u # t /\ tail[t] = NULL
      BY <1>1, <3>1 DEF Sound, Shaped
    <3>2. CASE u # t /\ tail[t] # NULL
      <4>1. ~Occurs(tail[t], list[u])
        BY <1>6, <3>2, Zenon DEF Sound, Placed, ListsApart
      <4>2. Chained(list[u], next)
        BY DEF Sound, Shaped
      <4>3. Chained(list[u], [next EXCEPT ![tail[t]] = p])
        BY <4>1, <4>2, TypesOfThread, ChainedOther
      <4> QED
        BY <1>1, <3>2, <4>3
    <3>3. CASE u = t /\ list[t] = <<>>
      BY <1>1, <1>2, <1>6, <3>3, ChainedOne
    <3>4. CASE u = t /\ list[t] # <<>>
      <4>1. Chained(list[t], next)
        BY DEF Sound, Shaped
      <4>2. Chained(Append(list[t], p), [next EXCEPT ![list[t][Len(list[t])]] = p])
        BY <1>2, <1>3, <1>4, <3>4, <4>1, TypesOfThread, ChainedAppend
      <4> QED
        BY <1>1, <1>6, <3>4, <4>2
    <3> QED
      BY <3>1, <3>2, <3>3, <3>4
  <2>2. InHand(u)'
    <3>1. CASE u = t
      BY <1>1, <3>1 DEF InHand
    <3>2. ASSUME u # t, packet[u] # NULL, pc[u] # "allocated"
          PROVE  next'[packet[u]] = NULL
      <4>1. packet[u] \in items /\ packet[u] \in DOMAIN next
        BY <3>2, TypesOfThread
      <4>2. tail[t] # NULL => packet[u] # tail[t]
        BY <1>6, <4>1 DEF Sound, Placed, ListsApart
      <4>3. next[packet[u]] = NULL
        BY <3>2 DEF Sound, Shaped, InHand
      <4> QED
        BY <1>1, <4>1, <4>2, <4>3
    <3> QED
      BY <1>1, <3>1, <3>2 DEF Sound, Shaped, InHand
  <2>3. Making(u)'
    <3>1. CASE u # t
      BY <1>1, <3>1 DEF Sound, Shaped, Making
    <3>2. CASE u = t
      <4>1. /\ list'[t] # <<>> /\ list'[t][Len(list'[t])] = p
            /\ Head(list'[t]) = IF list[t] = <<>> THEN p ELSE Head(list[t])
        BY <1>1, <1>2, <1>4, EndsOfAppend
      <4> QED
        BY <1>1, <1>6, <3>2, <4>1 DEF Making
    <3> QED
      BY <3>1, <3>2
  <2>4. Deleting(u)'
    <3>1. CASE u # t
      <4>1. pc[u] = "dropped" => next'[cur[u]] = next[cur[u]]
        <5> SUFFICES ASSUME pc[u] = "dropped" PROVE next'[cur[u]] = next[cur[u]]
          OBVIOUS
        <5>1. cur[u] \in items /\ cur[u] \in DOMAIN next
          BY TypesOfThread DEF Sound, Shaped, Deleting
        <5>2. tail[t] # NULL => cur[u] # tail[t]
          BY <1>6 DEF Sound, Stale
        <5> QED
          BY <1>1, <5>1, <5>2
      <4> QED
        BY <1>1, <3>1, <4>1 DEF Sound, Shaped, Deleting
    <3>2. CASE u = t
      BY <1>1, <3>2 DEF Deleting
    <3> QED
      BY <3>1, <3>2
  <2> QED
    BY <2>1, <2>2, <2>3, <2>4
<1> QED
  BY <1>7, <1>8, <1>9, <1>10 DEF Sound, Shaped

(* A packet that was in hand, and with no thread's list to lead to it,     *)
(* goes to the free list or is lost.                                       *)
LEMMA HandedOn ==
  ASSUME TypeOK, Sound, NEW t \in Threads, pc[t] = "filled", LetGo(t),
         UNCHANGED <<items, next, cur, head, tail, list>>,
         \/ free' = <<packet[t]>> \o free /\ lost' = lost
         \/ free' = free /\ lost' = lost \cup {packet[t]},
         raced' = raced
  PROVE  TypeOK' /\ Sound'
<1> DEFINE p == packet[t]
<1>1. /\ pc'[t] = "idle" /\ packet'[t] = NULL
      /\ \A u \in Threads : u # t => pc'[u] = pc[u] /\ packet'[u] = packet[u]
  BY DEF LetGo, Goto, TypeOK
<1>2. p \in items /\ p # NULL
  BY TypesOfThread DEF Sound, Shaped, InHand
<1>3. /\ \A u \in Threads : ~Occurs(p, list[u]) /\ (u # t => packet[u] # p)
      /\ p \notin lost /\ ~Occurs(p, free)
  BY <1>2 DEF Sound, Placed, ListsApart, HandsApart, FreeApart
<1>4. /\ free' \in Seq(items) /\ lost' \subseteq items
      /\ NoRepeats(free')
      /\ \A y : Occurs(y, free') \/ y \in lost' <=> Occurs(y, free) \/ y \in lost \/ y = p
      /\ \A y : ~(Occurs(y, free') /\ y \in lost') \/ (Occurs(y, free) /\ y \in lost)
  <2>1. free \in Seq(items) /\ NoRepeats(free) /\ lost \subseteq items
    BY DEF TypeOK, Sound, Placed, Once
  <2>2. CASE free' = <<p>> \o free /\ lost' = lost
    <3>1. /\ <<p>> \o free \in Seq(items)
          /\ \A y : Occurs(y, <<p>> \o free) <=> Occurs(y, free) \/ y = p
          /\ NoRepeats(<<p>> \o free)
      BY <1>2, <1>3, <2>1, ConsOccurs
    <3> QED
      BY <1>3, <2>1, <2>2, <3>1, Zenon
  <2>3. CASE free' = free /\ lost' = lost \cup {p}
    BY <1>2, <1>3, <2>1, <2>3
  <2> QED
    BY <2>2, <2>3
<1>5. TypeOK'
  BY <1>4 DEF TypeOK, LetGo, Goto
<1> HIDE DEF p
<1>6. Placed'
  <2>1. Once'
    BY <1>4, Zenon DEF Sound, Placed, Once
  <2>2. Covered'
    <3> SUFFICES ASSUME NEW q \in items
                 PROVE  \/ Occurs(q, free') \/ q \in lost'
                        \/ \E u \in Threads : Occurs(q, list[u]) \/ packet'[u] = q
      BY DEF Covered
    <3>1. \A u \in Threads : packet[u] = q => packet'[u] = q \/ q = p
      BY <1>1 DEF p
    <3> QED
      BY <1>4, <3>1 DEF Sound, Placed, Covered
  <2>3. ASSUME NEW q \in items, Occurs(q, free') \/ q \in lost'
        PROVE  \A u \in Threads : ~Occurs(q, list[u]) /\ packet'[u] # q
    <3>1. CASE q = p
      BY <1>1, <1>2, <1>3, <3>1
    <3>2. CASE q # p
      <4>1. Occurs(q, free) \/ q \in lost
        BY <1>4, <2>3, <3>2
      <4>2. \A u \in Threads : ~Occurs(q, list[u]) /\ packet[u] # q
        BY <4>1, Zenon DEF Sound, Placed, FreeApart, ListsApart, HandsApart
      <4> QED
        BY <1>1, <4>2, TypesOfThread
    <3> QED
      BY <3>1, <3>2
  <2>4. FreeApart'
    <3> SUFFICES ASSUME NEW q \in items, Occurs(q, free')
                 PROVE  q \notin lost' /\ \A u \in Threads : ~Occurs(q, list[u]) /\ packet'[u] # q
      BY DEF FreeApart
    <3>1. ~(Occurs(q, free) /\ q \in lost)
      BY DEF Sound, Placed, FreeApart
    <3> QED
      BY <1>4, <2>3, <3>1
  <2>5. ListsApart'
    <3> SUFFICES ASSUME NEW q \in items, NEW u \in Threads, Occurs(q, list[u])
                 PROVE  /\ q \notin lost'
                        /\ \A v \in Threads : packet'[v] # q /\ (v # u => ~Occurs(q, list[v]))
      BY DEF ListsApart
    <3>1. q # NULL
      BY TypesOfThread
    <3> QED
      BY <1>1, <2>3, <3>1 DEF Sound, Placed, ListsApart
  <2>6. HandsApart'
    <3> SUFFICES ASSUME NEW q \in items, NEW u \in Threads, packet'[u] = q
                 PROVE  q \notin lost' /\ \A v \in Threads : v # u => packet'[v] # q
      BY DEF HandsApart
    <3>1. q # NULL
      BY TypesOfThread
    <3> QED
      BY <1>1, <2>3, <3>1 DEF Sound, Placed, HandsApart
  <2> QED
    BY <2>1, <2>2, <2>4, <2>5, <2>6 DEF Placed
<1>7. Stale'
  <2> SUFFICES ASSUME NEW u \in Threads, NEW v \in Threads, pc'[u] = "dropped"
               PROVE  ~Occurs(cur[u], list[v])
                        /\ (packet'[v] = cur[u] => pc'[v] = "allocated")
    BY DEF Stale
  <2>1. pc[u] = "dropped"
    BY <1>1
  <2>2. cur[u] # NULL
    BY <2>1 DEF Sound, Shaped, Deleting
  <2> QED
    BY <1>1, <2>1, <2>2 DEF Sound, Stale
<1>8. ASSUME NEW u \in Threads
      PROVE  (Chained(list[u], next) /\ InHand(u) /\ Making(u) /\ Deleting(u))'
  <2>1. InHand(u)'
    BY <1>1 DEF Sound, Shaped, InHand
  <2>2. Making(u)'
    BY <1>1 DEF Sound, Shaped, Making
  <2>3. Deleting(u)'
    BY <1>1 DEF Sound, Shaped, Deleting
  <2> QED
    BY <2>1, <2>2, <2>3 DEF Sound, Shaped
<1> QED
  BY <1>5, <1>6, <1>7, <1>8 DEF Sound, Shaped

LEMMA LetGoStep ==
  ASSUME TypeOK, Sound, NEW t \in Threads, DeleteUnlinked(t) \/ Refuse(t)
  PROVE  TypeOK' /\ Sound'
  BY HandedOn DEF DeleteUnlinked, Refuse, Free

-----------------------------------------------------------------------------
(* The loops that delete a list                                            *)

(* The first packet of a thread's list goes to the free list.              *)
LEMMA DeleteFirst ==
  ASSUME TypeOK, Sound, NEW t \in Threads, pc[t] \in {"drop", "keep"},
         DeleteCurrent(t), UNCHANGED <<next, packet, lost>>
  PROVE  /\ Placed'
         /\ items' = items /\ free' \in Seq(items) /\ list' \in [Threads -> Seq(items)]
         /\ \A u \in Threads : u # t => list'[u] = list[u]
         /\ \A y : \A u \in Threads : Occurs(y, list'[u]) => Occurs(y, list[u])
         /\ \A u \in Threads : ~Occurs(cur[t], list'[u]) /\ packet[u] # cur[t]
         /\ \A u \in Threads : Chained(list'[u], next)
         /\ next[cur[t]] = IF list'[t] = <<>> THEN NULL ELSE Head(list'[t])
<1> DEFINE p == cur[t]
<1>1. list[t] # <<>> /\ p = Head(list[t]) /\ Chained(list[t], next)
  BY DEF Sound, Shaped, Deleting
<1>2. /\ list[t] \in Seq(items) /\ free \in Seq(items)
      /\ NoRepeats(list[t]) /\ NoRepeats(free)
  BY TypesOfThread DEF TypeOK, Sound, Placed, Once
<1>3. /\ items' = items /\ free' = <<p>> \o free /\ list'[t] = Tail(list[t])
      /\ \A u \in Threads : u # t => list'[u] = list[u]
  BY <1>1 DEF DeleteCurrent, Free, TypeOK
<1>4. /\ list'[t] \in Seq(items) /\ Occurs(p, list[t]) /\ p \in items
      /\ \A y : Occurs(y, list'[t]) <=> Occurs(y, list[t]) /\ y # p
      /\ NoRepeats(list'[t])
  BY <1>1, <1>2, <1>3, TailOccurs
<1>5. /\ \A u \in Threads : packet[u] # p /\ (u # t => ~Occurs(p, list[u]))
      /\ p \notin lost /\ ~Occurs(p, free)
  BY <1>4, Zenon DEF Sound, Placed, ListsApart, FreeApart
<1>6. /\ free' \in Seq(items) /\ NoRepeats(free')
      /\ \A y : Occurs(y, free') <=> Occurs(y, free) \/ y = p
  BY <1>2, <1>3, <1>4, <1>5, ConsOccurs
<1>7. /\ Chained(list'[t], next)
      /\ next[p] = IF list'[t] = <<>> THEN NULL ELSE Head(list'[t])
  BY <1>1, <1>2, <1>3, ChainedTail
<1>8. list' \in [Threads -> Seq(items)]
  <2>1. Tail(list[t]) \in Seq(items)
    BY <1>3, <1>4
  <2> QED
    BY <1>1, <2>1 DEF DeleteCurrent, TypeOK
<1> HIDE DEF p
<1>9. \A y : \A u \in Threads : Occurs(y, list'[u]) <=> Occurs(y, list[u]) /\ y # p
  BY <1>3, <1>4, <1>5
<1>10. Placed'
  <2>1. Once'
    BY <1>3, <1>4, <1>6, Zenon DEF Sound, Placed, Once
  <2>2. Covered'
    <3> SUFFICES ASSUME NEW q \in items
                 PROVE  \/ Occurs(q, free') \/ q \in lost
                        \/ \E u \in Threads : Occurs(q, list'[u]) \/ packet[u] = q
      BY <1>3 DEF Covered
    <3> QED
      BY <1>6, <1>9, Zenon DEF Sound, Placed, Covered
  <2>3. FreeApart'
    <3> SUFFICES ASSUME NEW q \in items, Occurs(q, free')
                 PROVE  q \notin lost /\ \A u \in Threads : ~Occurs(q, list'[u]) /\ packet[u] # q
      BY <1>3 DEF FreeApart
    <3>1. CASE q = p
      BY <1>5, <1>9, <3>1
    <3>2. CASE q # p
      BY <1>6, <1>9, <3>2 DEF Sound, Placed, FreeApart
    <3> QED
      BY <3>1, <3>2
  <2>4. ListsApart'
    BY <1>3, <1>9 DEF Sound, Placed, ListsApart
  <2>5. HandsApart'
    BY <1>3 DEF Sound, Placed, HandsApart
  <2> QED
    BY <2>1, <2>2, <2>3, <2>4, <2>5 DEF Placed
<1>11. \A u \in Threads : Chained(list'[u], next)
  BY <1>3, <1>7 DEF Sound, Shaped
<1>12. \A u \in Threads : ~Occurs(p, list'[u])
  BY <1>9
<1> QED
  BY <1>3, <1>5, <1>6, <1>7, <1>8, <1>9, <1>10, <1>11, <1>12 DEF p

(* After packet = packet->next the thread is at the next packet of its     *)
(* list, or the list is empty and so are its pointers.                     *)
LEMMA FollowShapes ==
  ASSUME TypeOK, NEW t \in Threads, NEW label \in {"drop", "keep"}, Follow(t, label),
         pc[t] \in {"dropped", "keep"}, InHand(t), UNCHANGED <<next, packet>>,
         items' = items, head[t] # NULL, list'[t] \in Seq(items),
         next[cur[t]] = IF list'[t] = <<>> THEN NULL ELSE Head(list'[t])
  PROVE  /\ (InHand(t) /\ Making(t) /\ Deleting(t))'
         /\ pc' \in [Threads -> {"idle", "allocated", "filled", "drop", "dropped", "keep"}]
         /\ cur' \in [Threads -> items \cup {NULL}]
         /\ head' \in [Threads -> items \cup {NULL}]
         /\ tail' \in [Threads -> items \cup {NULL}]
         /\ pc'[t] \notin {"allocated", "dropped"}
         /\ \A u \in Threads : u # t => /\ pc'[u] = pc[u] /\ cur'[u] = cur[u]
                                        /\ head'[u] = head[u] /\ tail'[u] = tail[u]
<1> DEFINE p == next[cur[t]]
<1>1. /\ cur' = [cur EXCEPT ![t] = p]
      /\ pc' = [pc EXCEPT ![t] = IF p # NULL THEN label
                                 ELSE IF packet[t] = NULL THEN "idle" ELSE "filled"]
      /\ head' = [head EXCEPT ![t] = IF p = NULL THEN NULL ELSE head[t]]
      /\ tail' = [tail EXCEPT ![t] = IF p = NULL THEN NULL ELSE tail[t]]
  BY DEF Follow, Goto
<1>2. NULL \notin items /\ (list'[t] # <<>> => Head(list'[t]) \in items)
  BY TypesOfThread
<1>3. p \in items \cup {NULL} /\ (p = NULL <=> list'[t] = <<>>)
      /\ (p # NULL => p = Head(list'[t]))
  BY <1>2
<1> HIDE DEF p
<1>4. /\ cur'[t] = p /\ head'[t] = (IF p = NULL THEN NULL ELSE head[t])
      /\ tail'[t] = (IF p = NULL THEN NULL ELSE tail[t])
      /\ pc'[t] = IF p # NULL THEN label ELSE IF packet[t] = NULL THEN "idle" ELSE "filled"
      /\ \A u \in Threads : u # t => /\ pc'[u] = pc[u] /\ cur'[u] = cur[u]
                                     /\ head'[u] = head[u] /\ tail'[u] = tail[u]
  BY <1>1 DEF TypeOK
<1>5. /\ pc' \in [Threads -> {"idle", "allocated", "filled", "drop", "dropped", "keep"}]
      /\ cur' \in [Threads -> items \cup {NULL}]
      /\ head' \in [Threads -> items \cup {NULL}]
      /\ tail' \in [Threads -> items \cup {NULL}]
  BY <1>1, <1>3 DEF TypeOK
<1>6. (InHand(t) /\ Making(t) /\ Deleting(t))'
  <2>1. InHand(t)'
    BY <1>4 DEF InHand
  <2>2. Making(t)'
    BY <1>3, <1>4 DEF Making
  <2>3. Deleting(t)'
    BY <1>3, <1>4 DEF Deleting
  <2> QED
    BY <2>1, <2>2, <2>3
<1> QED
  BY <1>4, <1>5, <1>6

LEMMA DropStep ==
  ASSUME TypeOK, Sound, NEW t \in Threads, Drop(t)
  PROVE  TypeOK' /\ Sound'
<1>1. /\ UNCHANGED <<next, packet, cur, head, tail, lost, raced>>
      /\ pc[t] = "drop" /\ pc'[t] = "dropped" /\ DeleteCurrent(t)
      /\ \A u \in Threads : u # t => pc'[u] = pc[u]
      /\ pc' \in [Threads -> {"idle", "allocated", "filled", "drop", "dropped", "keep"}]
  BY DEF Drop, Goto, TypeOK
<1>2. /\ Placed'
      /\ items' = items /\ free' \in Seq(items) /\ list' \in [Threads -> Seq(items)]
      /\ \A u \in Threads : u # t => list'[u] = list[u]
      /\ \A y : \A u \in Threads : Occurs(y, list'[u]) => Occurs(y, list[u])
      /\ \A u \in Threads : ~Occurs(cur[t], list'[u]) /\ packet[u] # cur[t]
      /\ \A u \in Threads : Chained(list'[u], next)
      /\ next[cur[t]] = IF list'[t] = <<>> THEN NULL ELSE Head(list'[t])
  BY <1>1, DeleteFirst
<1>3. TypeOK'
  BY <1>1, <1>2 DEF TypeOK
<1>4. Stale'
  <2> SUFFICES ASSUME NEW u \in Threads, NEW v \in Threads, pc'[u] = "dropped"
               PROVE  ~Occurs(cur[u], list'[v])
                        /\ (packet[v] = cur[u] => pc'[v] = "allocated")
    BY <1>1 DEF Stale
  <2>1. CASE u = t
    BY <1>2, <2>1
  <2>2. CASE u # t
    <3>1. pc[u] = "dropped"
      BY <1>1, <2>2
    <3>2. ~Occurs(cur[u], list[v]) /\ (packet[v] = cur[u] => pc[v] = "allocated")
      BY <3>1 DEF Sound, Stale
    <3>3. Occurs(cur[u], list'[v]) => Occurs(cur[u], list[v])
      BY <1>2
    <3>4. pc[v] = "allocated" => pc'[v] = "allocated"
      BY <1>1
    <3> QED
      BY <3>2, <3>3, <3>4
  <2> QED
    BY <2>1, <2>2
<1>5. ASSUME NEW u \in Threads
      PROVE  (Chained(list[u], next) /\ InHand(u) /\ Making(u) /\ Deleting(u))'
  <2>1. InHand(u)'
    BY <1>1 DEF Sound, Shaped, InHand
  <2>2. Making(u)'
    BY <1>1, <1>2 DEF Sound, Shaped, Making
  <2>3. Deleting(u)'
    <3>1. CASE u = t
      <4>1. cur[t] # NULL /\ head[t] # NULL
        <5>1. list[t] # <<>> /\ cur[t] = Head(list[t]) /\ head[t] # NULL
          BY <1>1 DEF Sound, Shaped, Deleting
        <5>2. Head(list[t]) \in items
          BY <5>1, TypesOfThread
        <5> QED
          BY <5>1, <5>2, TypesOfThread
      <4> QED
        BY <1>1, <1>2, <3>1, <4>1 DEF Deleting
    <3>2. CASE u # t
      BY <1>1, <1>2, <3>2 DEF Sound, Shaped, Deleting
    <3> QED
      BY <3>1, <3>2
  <2> QED
    BY <1>1, <1>2, <2>1, <2>2, <2>3
<1> QED
  BY <1>2, <1>3, <1>4, <1>5 DEF Sound, Shaped

LEMMA DropNextStep ==
  ASSUME TypeOK, Sound, NEW t \in Threads, DropNext(t)
  PROVE  TypeOK' /\ Sound'
<1>1. UNCHANGED <<free, items, next, packet, list, lost, raced>>
      /\ pc[t] = "dropped" /\ Follow(t, "drop")
  BY DEF DropNext
<1>2. /\ (InHand(t) /\ Making(t) /\ Deleting(t))'
      /\ pc' \in [Threads -> {"idle", "allocated", "filled", "drop", "dropped", "keep"}]
      /\ cur' \in [Threads -> items \cup {NULL}]
      /\ head' \in [Threads -> items \cup {NULL}]
      /\ tail' \in [Threads -> items \cup {NULL}]
      /\ pc'[t] \notin {"allocated", "dropped"}
      /\ \A u \in Threads : u # t => /\ pc'[u] = pc[u] /\ cur'[u] = cur[u]
                                     /\ head'[u] = head[u] /\ tail'[u] = tail[u]
  <2>1. InHand(t) /\ head[t] # NULL
        /\ next[cur[t]] = IF list[t] = <<>> THEN NULL ELSE Head(list[t])
    BY <1>1 DEF Sound, Shaped, Deleting
  <2>2. list'[t] \in Seq(items)
    BY <1>1, TypesOfThread
  <2> QED
    BY <1>1, <2>1, <2>2, FollowShapes
<1>3. TypeOK'
  BY <1>1, <1>2 DEF TypeOK
<1>4. Placed'
  BY <1>1, StillPlaced DEF Sound
<1>5. Stale'
  BY <1>1, <1>2 DEF Sound, Stale
<1>6. ASSUME NEW u \in Threads
      PROVE  (Chained(list[u], next) /\ InHand(u) /\ Making(u) /\ Deleting(u))'
  <2>1. CASE u = t
    BY <1>1, <1>2, <2>1 DEF Sound, Shaped
  <2>2. CASE u # t
    BY <1>1, <1>2, <2>2 DEF Sound, Shaped, InHand, Making, Deleting
  <2> QED
    BY <2>1, <2>2
<1> QED
  BY <1>3, <1>4, <1>5, <1>6 DEF Sound, Shaped

LEMMA KeepStep ==
  ASSUME TypeOK, Sound, NEW t \in Threads, Keep(t)
  PROVE  TypeOK' /\ Sound'
<1>1. UNCHANGED <<next, packet, lost, raced>>
      /\ pc[t] = "keep" /\ DeleteCurrent(t) /\ Follow(t, "keep")
  BY DEF Keep
<1>2. /\ Placed'
      /\ items' = items /\ free' \in Seq(items) /\ list' \in [Threads -> Seq(items)]
      /\ \A u \in Threads : u # t => list'[u] = list[u]
      /\ \A y : \A u \in Threads : Occurs(y, list'[u]) => Occurs(y, list[u])
      /\ \A u \in Threads : Chained(list'[u], next)
      /\ next[cur[t]] = IF list'[t] = <<>> THEN NULL ELSE Head(list'[t])
  BY <1>1, DeleteFirst
<1>3. /\ (InHand(t) /\ Making(t) /\ Deleting(t))'
      /\ pc' \in [Threads -> {"idle", "allocated", "filled", "drop", "dropped", "keep"}]
      /\ cur' \in [Threads -> items \cup {NULL}]
      /\ head' \in [Threads -> items \cup {NULL}]
      /\ tail' \in [Threads -> items \cup {NULL}]
      /\ pc'[t] \notin {"allocated", "dropped"}
      /\ \A u \in Threads : u # t => /\ pc'[u] = pc[u] /\ cur'[u] = cur[u]
                                     /\ head'[u] = head[u] /\ tail'[u] = tail[u]
  <2>1. InHand(t) /\ head[t] # NULL
    BY <1>1 DEF Sound, Shaped, Deleting
  <2>2. list'[t] \in Seq(items)
    BY <1>2
  <2> QED
    BY <1>1, <1>2, <2>1, <2>2, FollowShapes
<1>4. TypeOK'
  BY <1>1, <1>2, <1>3 DEF TypeOK
<1>5. Stale'
  <2> SUFFICES ASSUME NEW u \in Threads, NEW v \in Threads, pc'[u] = "dropped"
               PROVE  ~Occurs(cur'[u], list'[v])
                        /\ (packet[v] = cur'[u] => pc'[v] = "allocated")
    BY <1>1 DEF Stale
  <2>1. u # t /\ pc[u] = "dropped" /\ cur'[u] = cur[u]
    BY <1>3
  <2>2. ~Occurs(cur[u], list[v]) /\ (packet[v] = cur[u] => pc[v] = "allocated")
    BY <2>1 DEF Sound, Stale
  <2>3. pc[v] = "allocated" => pc'[v] = "allocated"
    BY <1>1, <1>3
  <2> QED
    BY <1>2, <2>1, <2>2, <2>3
<1>6. ASSUME NEW u \in Threads
      PROVE  (Chained(list[u], next) /\ InHand(u) /\ Making(u) /\ Deleting(u))'
  <2>1. CASE u = t
    BY <1>1, <1>2, <1>3, <2>1
  <2>2. CASE u # t
    BY <1>1, <1>2, <1>3, <2>2 DEF Sound, Shaped, InHand, Making, Deleting
  <2> QED
    BY <2>1, <2>2
<1> QED
  BY <1>2, <1>4, <1>5, <1>6 DEF Sound, Shaped

-----------------------------------------------------------------------------
(* The invariant holds                                                     *)

\* Once a deleted packet has been read too late nothing but the types is known.
PoolInv == TypeOK /\ (raced \/ Sound)

(* The free list the allocator starts with has every packet once.          *)
LEMMA FreeListAtStart ==
  ASSUME Init
  PROVE  /\ free \in Seq(PreAlloc) /\ NoRepeats(free)
         /\ \A p \in PreAlloc : Occurs(p, free)
<1> DEFINE n == Cardinality(PreAlloc)
<1>1. n \in Nat
  BY PacketPoolAssumption, FS_CardinalityType
<1>2. IsFiniteSet(1..n) /\ Cardinality(1..n) = n
  <2>1. /\ IsFiniteSet(1..n)
        /\ Cardinality(1..n) = IF 1 > n THEN 0 ELSE n - 1 + 1
    BY <1>1, FS_Interval
  <2> HIDE DEF n
  <2> QED
    BY <1>1, <2>1
<1>3. free \in [1..n -> PreAlloc] /\ Range(free) = PreAlloc
  BY DEF Init
<1> HIDE DEF n
<1>4. free \in Seq(PreAlloc) /\ DOMAIN free = 1..n
  BY <1>1, <1>3
<1>5. \A p \in PreAlloc : \E i \in 1..n : free[i] = p
  BY <1>3, <1>4 DEF Range
<1>6. free \in Surjection(1..n, PreAlloc)
  BY <1>3, <1>5 DEF Surjection
<1>7. free \in Injection(1..n, PreAlloc)
  <2>1. Cardinality(1..n) = Cardinality(PreAlloc)
    BY <1>2 DEF n
  <2> QED
    BY <1>2, <1>6, <2>1, FS_SurjSameCardinalityImpliesInj
<1> QED
  BY <1>4, <1>5, <1>7 DEF NoRepeats, Occurs, Injection, IsInjective

LEMMA PoolInit ==
  ASSUME Init
  PROVE  PoolInv
<1>1. /\ free \in Seq(PreAlloc) /\ NoRepeats(free)
      /\ \A p \in PreAlloc : Occurs(p, free)
  BY FreeListAtStart
<1>2. \A t \in Threads : /\ list[t] = <<>> /\ packet[t] = NULL /\ pc[t] = "idle"
                         /\ head[t] = NULL /\ tail[t] = NULL
  BY DEF Init
<1>3. items = PreAlloc /\ lost = {} /\ NULL \notin items
  BY PacketPoolAssumption DEF Init
<1>4. TypeOK
  <2>1. list \in [Threads -> Seq(items)]
    BY DEF Init
  <2> QED
    BY <1>1, <1>3, <2>1, PacketPoolAssumption DEF Init, TypeOK
<1>5. Placed
  <2>1. Once
    BY <1>1, <1>2, EmptyOccurs DEF Once
  <2>2. Covered
    BY <1>1, <1>3 DEF Covered
  <2>3. FreeApart /\ ListsApart /\ HandsApart
    BY <1>2, <1>3, EmptyOccurs DEF FreeApart, ListsApart, HandsApart
  <2> QED
    BY <2>1, <2>2, <2>3 DEF Placed
<1>6. Stale
  BY <1>2 DEF Stale
<1>7. ASSUME NEW t \in Threads
      PROVE  Chained(list[t], next) /\ InHand(t) /\ Making(t) /\ Deleting(t)
  <2>1. Chained(<<>>, next)
    BY DEF Chained
  <2> QED
    BY <1>2, <2>1 DEF InHand, Making, Deleting
<1> QED
  BY <1>4, <1>5, <1>6, <1>7 DEF PoolInv, Sound, Shaped

LEMMA PoolStep ==
  ASSUME PoolInv, [Next]_vars
  PROVE  PoolInv'
<1>1. CASE UNCHANGED vars
  <2>1. TypeOK'
    BY <1>1 DEF PoolInv, TypeOK, vars, threadVars
  <2>2. ASSUME Sound PROVE Sound'
    <3>1. Placed'
      BY <1>1, <2>2, StillPlaced DEF vars, threadVars, Sound
    <3>2. Stale' /\ Shaped'
      BY <1>1, <2>2 DEF Sound, Stale, Shaped, InHand, Making, Deleting, vars, threadVars
    <3> QED
      BY <3>1, <3>2 DEF Sound
  <2> QED
    BY <1>1, <2>1, <2>2 DEF PoolInv, vars
<1>2. ASSUME NEW t \in Threads, ~raced, Step(t)
      PROVE  PoolInv'
  <2> USE DEF PoolInv
  <2>0. TypeOK /\ Sound
    BY <1>2
  <2>1. CASE New(t)
    BY <2>0, <2>1, NewStep
  <2>2. CASE Construct(t)
    <3>1. TypeOK'
      BY <2>0, <2>2, StillTypes
    <3>2. raced' \/ Sound'
      BY <2>0, <2>2, ConstructStep
    <3> QED
      BY <3>1, <3>2
  <2>3. CASE Link(t)
    BY <2>0, <2>3, LinkStep
  <2>4. CASE DeleteUnlinked(t) \/ Refuse(t)
    BY <2>0, <2>4, LetGoStep
  <2>5. CASE StartDrop(t) \/ StartKeep(t)
    BY <2>0, <2>5, StillTypes, StartStep
  <2>6. CASE Drop(t)
    BY <2>0, <2>6, DropStep
  <2>7. CASE DropNext(t)
    BY <2>0, <2>7, DropNextStep
  <2>8. CASE Keep(t)
    BY <2>0, <2>8, KeepStep
  <2> QED
    BY <1>2, <2>1, <2>2, <2>3, <2>4, <2>5, <2>6, <2>7, <2>8 DEF Step
<1> QED
  BY <1>1, <1>2 DEF Next

LEMMA PoolInvariant == Spec => []PoolInv
  BY PoolInit, PoolStep, PTL DEF Spec

-----------------------------------------------------------------------------
(* The theorems                                                            *)

(* The variables of the allocator and of the threads have their types,     *)
(* also after a packet was read too late: the free list and the threads    *)
(* hold only packets that were made (JAllocator.h, PacketReader.cpp,       *)
(* PacketWriter.cpp).                                                      *)
THEOREM PacketPoolTypeCorrect == Spec => []TypeOK
  BY PoolInvariant, PTL DEF PoolInv

LEMMA PlacedOnce ==
  ASSUME TypeOK, Sound
  PROVE  InOnePlace
<1> DEFINE onFree == {<<"free", i, free[i]>> : i \in DOMAIN free}
           onList == UNION {{<<t, i, list[t][i]>> : i \in DOMAIN list[t]} : t \in Threads}
           inHand == {<<t, 0, packet[t]>> : t \in {u \in Threads : packet[u] # NULL}}
           isLost == {<<"lost", 0, p>> : p \in lost}
           places == onFree \cup onList \cup inHand \cup isLost
<1>1. ASSUME NEW x \in onFree
      PROVE  /\ x[3] \in items /\ Occurs(x[3], free)
             /\ \A y \in onFree : x[3] = y[3] => x = y
  <2>1. PICK i \in DOMAIN free : x = <<"free", i, free[i]>>
    OBVIOUS
  <2>2. x[3] = free[i] /\ Occurs(x[3], free) /\ free \in Seq(items)
    BY <2>1 DEF Occurs, TypeOK
  <2>3. ASSUME NEW y \in onFree, x[3] = y[3] PROVE x = y
    <3>1. PICK j \in DOMAIN free : y = <<"free", j, free[j]>>
      OBVIOUS
    <3>2. i = j
      BY <2>1, <2>3, <3>1 DEF Sound, Placed, Once, NoRepeats
    <3> QED
      BY <2>1, <3>1, <3>2
  <2> QED
    BY <2>2, <2>3, OccursType
<1>2. ASSUME NEW x \in onList
      PROVE  /\ x[3] \in items /\ \E t \in Threads : Occurs(x[3], list[t])
             /\ \A y \in onList : x[3] = y[3] => x = y
  <2>1. PICK t \in Threads : \E i \in DOMAIN list[t] : x = <<t, i, list[t][i]>>
    OBVIOUS
  <2>2. PICK i \in DOMAIN list[t] : x = <<t, i, list[t][i]>>
    BY <2>1
  <2>3. x[3] = list[t][i] /\ Occurs(x[3], list[t]) /\ list[t] \in Seq(items)
    BY <2>2, TypesOfThread DEF Occurs
  <2>4. x[3] \in items
    BY <2>3, OccursType
  <2>5. ASSUME NEW y \in onList, x[3] = y[3] PROVE x = y
    <3>1. PICK u \in Threads : \E j \in DOMAIN list[u] : y = <<u, j, list[u][j]>>
      OBVIOUS
    <3>2. PICK j \in DOMAIN list[u] : y = <<u, j, list[u][j]>>
      BY <3>1
    <3>3. Occurs(x[3], list[u])
      BY <2>5, <3>2 DEF Occurs
    <3>4. t = u
      BY <2>3, <2>4, <3>3, Zenon DEF Sound, Placed, ListsApart
    <3>5. i = j
      BY <2>2, <2>5, <3>2, <3>4 DEF Sound, Placed, Once, NoRepeats
    <3> QED
      BY <2>2, <3>2, <3>4, <3>5
  <2> QED
    BY <2>3, <2>4, <2>5
<1>3. ASSUME NEW x \in inHand
      PROVE  /\ x[3] \in items /\ \E t \in Threads : packet[t] = x[3]
             /\ \A y \in inHand : x[3] = y[3] => x = y
  <2>1. PICK t \in Threads : packet[t] # NULL /\ x = <<t, 0, packet[t]>>
    OBVIOUS
  <2>2. x[3] = packet[t] /\ x[3] \in items
    BY <2>1, TypesOfThread
  <2>3. ASSUME NEW y \in inHand, x[3] = y[3] PROVE x = y
    <3>1. PICK u \in Threads : packet[u] # NULL /\ y = <<u, 0, packet[u]>>
      OBVIOUS
    <3>2. t = u
      BY <2>2, <2>3, <3>1 DEF Sound, Placed, HandsApart
    <3> QED
      BY <2>1, <3>1, <3>2
  <2> QED
    BY <2>2, <2>3
<1>4. ASSUME NEW x \in isLost
      PROVE  x[3] \in items /\ x[3] \in lost /\ \A y \in isLost : x[3] = y[3] => x = y
  <2>1. PICK p \in lost : x = <<"lost", 0, p>>
    OBVIOUS
  <2>2. x[3] = p /\ p \in items
    BY <2>1 DEF TypeOK
  <2>3. ASSUME NEW y \in isLost, x[3] = y[3] PROVE x = y
    <3>1. PICK q \in lost : y = <<"lost", 0, q>>
      OBVIOUS
    <3> QED
      BY <2>1, <2>3, <3>1
  <2> QED
    BY <2>1, <2>2, <2>3
<1>5. \A p \in items : \E x \in places : x[3] = p
  <2> SUFFICES ASSUME NEW p \in items PROVE \E x \in places : x[3] = p
    OBVIOUS
  <2>1. CASE Occurs(p, free)
    <3>1. PICK i \in DOMAIN free : free[i] = p
      BY <2>1 DEF Occurs
    <3>2. <<"free", i, free[i]>> \in places /\ <<"free", i, free[i]>>[3] = p
      BY <3>1
    <3> QED
      BY <3>2
  <2>2. CASE p \in lost
    <3>1. <<"lost", 0, p>> \in places /\ <<"lost", 0, p>>[3] = p
      BY <2>2
    <3> QED
      BY <3>1
  <2>3. ASSUME NEW t \in Threads, Occurs(p, list[t]) PROVE \E x \in places : x[3] = p
    <3>1. PICK i \in DOMAIN list[t] : list[t][i] = p
      BY <2>3 DEF Occurs
    <3>2. <<t, i, list[t][i]>> \in places /\ <<t, i, list[t][i]>>[3] = p
      BY <3>1
    <3> QED
      BY <3>2
  <2>4. ASSUME NEW t \in Threads, packet[t] = p PROVE \E x \in places : x[3] = p
    <3>1. packet[t] # NULL
      BY <2>4, TypesOfThread
    <3>2. <<t, 0, packet[t]>> \in places /\ <<t, 0, packet[t]>>[3] = p
      BY <2>4, <3>1
    <3> QED
      BY <3>2
  <2> QED
    BY <2>1, <2>2, <2>3, <2>4 DEF Sound, Placed, Covered
<1>6. \A x \in places : x \in onFree \/ x \in onList \/ x \in inHand \/ x \in isLost
  OBVIOUS
<1>7. InOnePlace <=> (raced \/ /\ {x[3] : x \in places} = items
                               /\ \A x, y \in places : x[3] = y[3] => x = y)
  BY DEF InOnePlace
<1> HIDE DEF onFree, onList, inHand, isLost, places
<1>8. {x[3] : x \in places} = items
  BY <1>1, <1>2, <1>3, <1>4, <1>5, <1>6
<1>9. ASSUME NEW x \in places, NEW y \in places, x[3] = y[3]
      PROVE  x = y
  <2> DEFINE p == x[3]
  <2>1. p \in items
    BY <1>8
  <2>2. /\ Occurs(p, free) => /\ p \notin lost
                              /\ \A t \in Threads : ~Occurs(p, list[t]) /\ packet[t] # p
        /\ \A t \in Threads : Occurs(p, list[t]) =>
              p \notin lost /\ \A u \in Threads : packet[u] # p
        /\ \A t \in Threads : packet[t] = p => p \notin lost
    BY <2>1 DEF Sound, Placed, FreeApart, ListsApart, HandsApart
  <2> HIDE DEF p
  <2>3. CASE x \in onFree
    BY <1>1, <1>2, <1>3, <1>4, <1>6, <1>9, <2>2, <2>3 DEF p
  <2>4. CASE x \in onList
    BY <1>1, <1>2, <1>3, <1>4, <1>6, <1>9, <2>2, <2>4 DEF p
  <2>5. CASE x \in inHand
    BY <1>1, <1>2, <1>3, <1>4, <1>6, <1>9, <2>2, <2>5 DEF p
  <2>6. CASE x \in isLost
    BY <1>1, <1>2, <1>3, <1>4, <1>6, <1>9, <2>2, <2>6 DEF p
  <2> QED
    BY <1>6, <2>3, <2>4, <2>5, <2>6
<1> QED
  BY <1>7, <1>8, <1>9

(* Whatever the threads do, a packet is in one place and there once: on    *)
(* the free list, in one list, in one hand, or refused; so none is deleted *)
(* twice and none is shared (JAllocator.h, PacketReader.cpp,               *)
(* PacketWriter.cpp).                                                      *)
THEOREM PacketsInOnePlace == Spec => []InOnePlace
<1>1. PoolInv => InOnePlace
  <2>1. raced => InOnePlace
    BY DEF InOnePlace
  <2> QED
    BY <2>1, PlacedOnce DEF PoolInv
<1> QED
  BY <1>1, PoolInvariant, PTL

(* A loop deletes the packets its thread has linked, in their order, and   *)
(* all of them, as long as no other thread has constructed a packet whose  *)
(* next it had still to read (PacketReader.cpp, ~PacketReader and put).    *)
THEOREM PacketPoolDeletesItsOwn == Spec => []DeletesItsOwn
<1>1. PoolInv => DeletesItsOwn
  <2> SUFFICES ASSUME TypeOK, Sound, NEW t \in Threads
               PROVE  /\ pc[t] \in {"drop", "keep"} => list[t] # <<>> /\ cur[t] = Head(list[t])
                      /\ head[t] = NULL => list[t] = <<>>
    BY DEF PoolInv, DeletesItsOwn
  <2>1. pc[t] \in {"drop", "keep"} => list[t] # <<>> /\ cur[t] = Head(list[t])
    BY DEF Sound, Shaped, Deleting
  <2>2. ASSUME head[t] = NULL, list[t] # <<>> PROVE FALSE
    <3>1. pc[t] \in {"idle", "allocated", "filled"}
      BY <2>2 DEF Sound, Shaped, Deleting, TypeOK
    <3>2. head[t] = Head(list[t])
      BY <2>2, <3>1 DEF Sound, Shaped, Making
    <3>3. Head(list[t]) \in items
      BY <2>2, TypesOfThread
    <3> QED
      BY <2>2, <3>2, <3>3, TypesOfThread
  <2> QED
    BY <2>1, <2>2
<1> QED
  BY <1>1, PoolInvariant, PTL
=============================================================================
