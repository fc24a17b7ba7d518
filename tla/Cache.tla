-------------------------------- MODULE Cache --------------------------------
(***************************************************************************)
(* The cache of ultracache/Cache.cpp on the hash table of Hash.cpp and the *)
(* allocator of Heap.cpp: items in chains linked by pointers, blocks taken *)
(* from and given back to the heap, the time items expire at and the stamp *)
(* that cas compares.  One thread, the server's main thread, runs every    *)
(* operation to its end, so an operation is one step.                      *)
(*                                                                         *)
(* A byte is a digit below Base or, Base itself, any other byte.  The      *)
(* flags of an item are left out: they are stored and returned unread.     *)
(***************************************************************************)
EXTENDS HeapOps

CONSTANTS
  Keys,
  Bins,              \* the indices of Hash::m_bin
  HashOf,            \* hash % m_binSize of every key
  KeyLength,         \* every key is this long
  HeaderSize,        \* sizeof(HashItem)
  Data,              \* the values clients store, sequences of bytes
  Base,              \* numbers are written in this base, 10 in the code
  UINT64_STRING_LENGTH,   \* digits of the largest number, 20 in the code
  Numbers,           \* what clients increment and decrement by
  EXPTIME_OFFSET,    \* an expiration up to this is relative to the time
  Expirations,       \* the expirations clients ask for
  Ops,               \* the operations clients use
  Garbled,           \* a key that no client can name
  MaxTime,           \* bound: the last time the clock shows
  MaxCas             \* bound: the last stamp given out

\* Base^digits
PowerOfBase[digits \in 0..UINT64_STRING_LENGTH] ==
  IF digits = 0 THEN 1 ELSE Base * PowerOfBase[digits - 1]

\* Numbers are kept modulo Modulus, 2^64 in the code.
Modulus == PowerOfBase[UINT64_STRING_LENGTH]

Bytes == 0..Base

ASSUME CacheAssumption ==
  /\ HashOf \in [Keys -> Bins]
  /\ KeyLength \in Nat \ {0} /\ HeaderSize \in Nat \ {0}
  /\ Base \in Nat \ {0, 1} /\ UINT64_STRING_LENGTH \in Nat \ {0}
  /\ Data \subseteq Seq(Bytes) /\ Numbers \subseteq 0..(Modulus - 1)
  /\ EXPTIME_OFFSET \in Nat /\ Expirations \subseteq Nat
  /\ Garbled \notin Keys
  /\ MaxTime \in Nat /\ MaxCas \in Nat

VARIABLES
  cache,    \* the Cache object, see below
  time,     \* TimeProvider::m_time
  clock,    \* what time(0) returns
  ended,    \* what it returned when the last request had been served
  answer,   \* what the last operation returned, and to which request
  spelled,  \* history: the keys that an append has written over that of an item
  crashed   \* a NULL item or the header of an item has been written to, or an
            \* assert has failed: nothing is said of the program from then on

vars == <<cache, time, clock, ended, answer, spelled, crashed>>

\* cache.heap : the Heap object
\* cache.bin  : m_bin, the first item of every chain, or NULL
\* cache.item : the items in memory, by the address of their block
\* cache.cas  : m_cas, the stamp of the next change
EmptyCache ==
  [heap |-> EmptyHeap,
   bin  |-> [b \in Bins |-> NULL],
   item |-> [p \in {} |-> NULL],
   cas  |-> 1]

Answer(op, key, ok, value) == [op |-> op, key |-> key, ok |-> ok, value |-> value]

Init ==
  /\ cache = EmptyCache
  /\ time = 0
  /\ clock = 0
  /\ ended = 0
  /\ answer = Answer("none", Garbled, FALSE, <<>>)
  /\ spelled = {}
  /\ crashed = FALSE

-----------------------------------------------------------------------------
(* Hash.cpp                                                                *)

Items(c) == DOMAIN c.item

\* The items of a chain from its bin on, followed through pNext until NULL or
\* an address that holds no item.
Chain(c, b) ==
  LET n == Cardinality(Items(c))
      \* the first items of the chain that begins at p, as many as left
      from[left \in 0..n] == [p \in Nat |->
        IF left = 0 \/ p \notin Items(c) THEN <<>>
        ELSE <<p>> \o from[left - 1][c.item[p].next]]
  IN  from[n][c.bin[b]]

\* Hash::get: the first item with the key and the one before it, or NULL and
\* the last item of the chain.
Find(c, key) ==
  LET chain == Chain(c, HashOf[key])
      hits  == {i \in DOMAIN chain : c.item[chain[i]].key = key}
      stop  == IF hits = {} THEN Len(chain) + 1 ELSE Min(hits)
  IN  [item     |-> IF hits = {} THEN NULL ELSE chain[stop],
       previous |-> IF stop = 1 THEN NULL ELSE chain[stop - 1]]

\* Mutant: the item before is ignored.
LinkFirst(c, b, p, previous) == [c EXCEPT !.bin[b] = p]

\* Hash::link
Link(c, b, p, previous) ==
  IF previous = NULL THEN [c EXCEPT !.bin[b] = p]
                     ELSE [c EXCEPT !.item[previous].next = p]

\* Hash::unlink
Unlink(c, b, p, previous) == Link(c, b, c.item[p].next, previous)

\* The expire field HashItem::setup stores.
SetupExpire(expiration) ==
  IF expiration = 0 THEN 0
  ELSE IF expiration <= EXPTIME_OFFSET THEN time + expiration
  ELSE expiration

-----------------------------------------------------------------------------
(* The private operations of Cache.cpp                                     *)

\* Cache::alloc; an item is known once its fields have been written.
AllocItem(c, cbValue) == HeapAlloc(c.heap, Align(KeyLength) + cbValue + HeaderSize)

PutItem(c, h, p, item) ==
  [c EXCEPT !.heap = h,
            !.item = [q \in Items(c) \cup {p} |-> IF q = p THEN item ELSE c.item[q]]]

FreeItem(c, p) ==
  [c EXCEPT !.heap = HeapFree(@, p), !.item = [q \in Items(c) \ {p} |-> c.item[q]]]

\* Mutant: m_cas is read and not advanced.
InsertSameStamp(c, key, data, expiration, previous) ==
  LET r    == AllocItem(c, Len(data))
      item == [key |-> key, value |-> data, cas |-> c.cas,
               expire |-> SetupExpire(expiration), next |-> NULL]
  IN  IF r.ptr = NULL THEN [cache |-> c, item |-> NULL]
      ELSE [cache |-> Link(PutItem(c, r.heap, r.ptr, item),
                           HashOf[key], r.ptr, previous),
            item  |-> r.ptr]

\* alloc, setup with the next stamp, and link after previous; setup writes
\* NULL to pNext.
Insert(c, key, data, expiration, previous) ==
  LET r    == AllocItem(c, Len(data))
      item == [key |-> key, value |-> data, cas |-> c.cas,
               expire |-> SetupExpire(expiration), next |-> NULL]
      new  == [PutItem(c, r.heap, r.ptr, item) EXCEPT !.cas = c.cas + 1]
  IN  IF r.ptr = NULL THEN [cache |-> c, item |-> NULL]
      ELSE [cache |-> Link(new, HashOf[key], r.ptr, previous), item |-> r.ptr]

\* Mutant: the room the key takes is forgotten.
CapacityWithKey(c, p) == c.heap.size[p] - HeaderSize

\* The longest value the block of item p has room for.
Capacity(c, p) == c.heap.size[p] - HeaderSize - Align(KeyLength)

\* Mutant: a value written in place keeps its stamp.
GrowSameStamp(c, b, p, previous, cbValue) ==
  LET r    == AllocItem(c, cbValue)
      copy == [c.item[p] EXCEPT !.cas = c.cas]
      new  == [PutItem(c, r.heap, r.ptr, copy) EXCEPT !.cas = c.cas + 1]
  IN  IF cbValue <= Capacity(c, p) THEN [cache |-> c, item |-> p]
      ELSE IF r.ptr = NULL THEN [cache |-> c, item |-> NULL]
      ELSE [cache |-> Link(Unlink(new, b, p, previous), b, r.ptr, previous),
            item  |-> r.ptr]

\* Mutant: the old item is unlinked after the new one has been linked.
GrowUnlinkLast(c, b, p, previous, cbValue) ==
  LET r    == AllocItem(c, cbValue)
      copy == [c.item[p] EXCEPT !.cas = c.cas]
      new  == [PutItem(c, r.heap, r.ptr, copy) EXCEPT !.cas = c.cas + 1]
  IN  IF cbValue <= Capacity(c, p)
        THEN [cache |-> [c EXCEPT !.item[p].cas = c.cas, !.cas = c.cas + 1],
              item  |-> p]
      ELSE IF r.ptr = NULL THEN [cache |-> c, item |-> NULL]
      ELSE [cache |-> Unlink(Link(new, b, r.ptr, previous), b, p, previous),
            item  |-> r.ptr]

\* growAndReplace: the same item if its block has room for cbValue bytes, else
\* a copy of it in a larger block and in its place in the chain.
GrowAndReplace(c, b, p, previous, cbValue) ==
  LET r    == AllocItem(c, cbValue)
      copy == [c.item[p] EXCEPT !.cas = c.cas]
      new  == [PutItem(c, r.heap, r.ptr, copy) EXCEPT !.cas = c.cas + 1]
  IN  IF cbValue <= Capacity(c, p)
        THEN [cache |-> [c EXCEPT !.item[p].cas = c.cas, !.cas = c.cas + 1],
              item  |-> p]
      ELSE IF r.ptr = NULL THEN [cache |-> c, item |-> NULL]
      ELSE [cache |-> Link(Unlink(new, b, p, previous), b, r.ptr, previous),
            item  |-> r.ptr]

Grown(key, f, cbValue) ==
  GrowAndReplace(cache, HashOf[key], f.item, f.previous, cbValue)

\* The condition processExpiration tests.
Expired(p) == cache.item[p].expire # 0 /\ time > cache.item[p].expire

\* Mutant: the item is freed and stays in its chain.
DiscardLinked(key, f) == FreeItem(cache, f.item)

\* What processExpiration does then: unlink and free.
Discard(key, f) == FreeItem(Unlink(cache, HashOf[key], f.item, f.previous), f.item)

\* StringToInteger: 0 if any byte is no digit, and no overflow check.
Number(value) ==
  LET ret[i \in 0..Len(value)] ==
        IF i = 0 THEN 0 ELSE (ret[i - 1] * Base + value[i]) % Modulus
  IN  IF \E i \in DOMAIN value : value[i] = Base THEN 0 ELSE ret[Len(value)]

\* IntegerToString: without leading zeros, "0" for zero.
Digits(n) ==
  LET length == Max({1} \cup {i \in 1..UINT64_STRING_LENGTH : PowerOfBase[i - 1] <= n})
  IN  [i \in 1..length |-> (n \div PowerOfBase[length - i]) % Base]

-----------------------------------------------------------------------------
(* The operations: how each ends, then what each does.                     *)

\* Mutant: the clock is only looked at after a request that has failed.
UpdateFailed == IF answer'.ok THEN UNCHANGED time ELSE time' = clock

\* TimeProvider::update, which main calls when a request has been served: while
\* one is served, the time is that of the end of the one before.
Update == time' = clock

Refuse(op, key) ==
  /\ answer' = Answer(op, key, FALSE, <<>>)
  /\ Update
  /\ UNCHANGED <<cache, crashed>>

Accept(op, key, c) ==
  /\ cache' = c
  /\ answer' = Answer(op, key, TRUE, <<>>)
  /\ Update
  /\ UNCHANGED crashed

\* What happens to an item that alloc or growAndReplace has failed to provide
\* when the caller does not check, and when an assert fails.
Crash ==
  /\ crashed' = TRUE
  /\ UNCHANGED <<cache, time, answer>>

\* The assert of Heap::free, for the block of item p.
CanFree(p) == FreeAsserts(cache.heap, p)

\* The item found is unlinked and freed, by del or because it has expired.
RemoveFound(op, key, f, ok) ==
  \/ ~CanFree(f.item) /\ Crash
  \/ /\ CanFree(f.item)
     /\ cache' = Discard(key, f)
     /\ answer' = Answer(op, key, ok, <<>>)
     /\ Update
     /\ UNCHANGED crashed

RefuseExpired(op, key, f) == RemoveFound(op, key, f, FALSE)

AcceptInsert(op, key, r) ==
  /\ r.item # NULL
  /\ Accept(op, key, r.cache)

\* Mutant: the old item is not freed.
RewriteKeepsOld(op, key, f, g, item) ==
  LET c == [g.cache EXCEPT !.item[g.item].key = item.key,
                           !.item[g.item].value = item.value,
                           !.item[g.item].expire = item.expire]
  IN  \/ g.item = NULL /\ Crash
      \/ g.item # NULL /\ Accept(op, key, c)

\* g is what growAndReplace did to the item found; its caller writes the value
\* and the expire field, append perhaps the key, and frees the old item when the
\* item has moved.
Rewrite(op, key, f, g, item) ==
  LET c == [g.cache EXCEPT !.item[g.item].key = item.key,
                           !.item[g.item].value = item.value,
                           !.item[g.item].expire = item.expire]
  IN  \/ g.item = NULL /\ Crash
      \/ g.item = f.item /\ Accept(op, key, c)
      \/ g.item \notin {NULL, f.item} /\ ~CanFree(f.item) /\ Crash
      \/ /\ g.item \notin {NULL, f.item} /\ CanFree(f.item)
         /\ Accept(op, key, FreeItem(c, f.item))

\* The expiration is stored as it was given.
Overwrite(op, key, f, data, expiration) ==
  Rewrite(op, key, f, Grown(key, f, Len(data)),
          [key |-> key, value |-> data, expire |-> expiration])

Get(key) ==
  LET f == Find(cache, key)
  IN  \/ f.item = NULL /\ Refuse("get", key)
      \/ f.item # NULL /\ Expired(f.item) /\ RefuseExpired("get", key, f)
      \/ /\ f.item # NULL /\ ~Expired(f.item)
         /\ answer' = Answer("get", key, TRUE, cache.item[f.item].value)
         /\ Update
         /\ UNCHANGED <<cache, crashed>>

Set(key, data, expiration) ==
  LET f == Find(cache, key)
      r == Insert(cache, key, data, expiration, f.previous)
  IN  \/ f.item # NULL /\ Overwrite("set", key, f, data, expiration)
      \/ f.item = NULL /\ r.item = NULL /\ Refuse("set", key)
      \/ f.item = NULL /\ AcceptInsert("set", key, r)

Del(key) ==
  LET f == Find(cache, key)
  IN  \/ f.item = NULL /\ Refuse("del", key)
      \/ f.item # NULL /\ RemoveFound("del", key, f, ~Expired(f.item))

\* An expired item makes room for the new one, which is linked where the
\* search had ended: after the item before the expired one.
Add(key, data, expiration) ==
  LET f == Find(cache, key)
      c == IF f.item = NULL THEN cache ELSE Discard(key, f)
      r == Insert(c, key, data, expiration, f.previous)
      free == f.item # NULL => Expired(f.item) /\ CanFree(f.item)
  IN  \/ f.item # NULL /\ ~Expired(f.item) /\ Refuse("add", key)
      \/ f.item # NULL /\ Expired(f.item) /\ ~CanFree(f.item) /\ Crash
      \/ /\ free
         /\ r.item = NULL
         /\ cache' = r.cache
         /\ answer' = Answer("add", key, FALSE, <<>>)
         /\ Update
         /\ UNCHANGED crashed
      \/ free /\ AcceptInsert("add", key, r)

Replace(key, data, expiration) ==
  LET f == Find(cache, key)
  IN  \/ f.item = NULL /\ Refuse("replace", key)
      \/ f.item # NULL /\ Expired(f.item) /\ RefuseExpired("replace", key, f)
      \/ /\ f.item # NULL /\ ~Expired(f.item)
         /\ Overwrite("replace", key, f, data, expiration)

\* What append leaves in a moved item: the length of the old value is taken
\* from the old item, so the data ends where the old value ended, or begins
\* before it in the key, and what follows is what the memory held before.  Data
\* that begins before the key overwrites the header.
MisplacedAppend(old, data, junk) ==
  SubSeq(old, 1, Len(old) - Len(data))
    \o SubSeq(data, Max({0, Len(data) - Len(old)}) + 1, Len(data))
    \o junk

\* What the key of an item is when n bytes of a client's choice have been written
\* over its end: the last of them are the zeros that fill it up to a whole number
\* of words, then come bytes of the key itself.
Overwritten(key, n) ==
  IF n <= 0 THEN {key}
  ELSE IF n <= Align(KeyLength) - KeyLength THEN {key, Garbled}
  ELSE Keys \cup {Garbled}

Append_(key, data) ==
  LET f     == Find(cache, key)
      old   == cache.item[f.item]
      g     == Grown(key, f, Len(old.value) + Len(data))
      moves == f.item # NULL /\ g.item \notin {NULL, f.item}
  IN  \/ /\ UNCHANGED spelled
         /\ \/ f.item = NULL /\ Refuse("append", key)
            \/ /\ f.item # NULL /\ ~moves
               /\ Rewrite("append", key, f, g,
                          [old EXCEPT !.value = old.value \o data])
            \/ moves /\ Len(data) > Len(old.value) + Align(KeyLength) /\ Crash
      \/ /\ moves /\ Len(data) <= Len(old.value) + Align(KeyLength)
         /\ \E junk \in [1..Len(data) -> Bytes],
               name \in Overwritten(key, Len(data) - Len(old.value)) :
              /\ Rewrite("append", key, f, g,
                   [old EXCEPT !.key = name,
                               !.value = MisplacedAppend(old.value, data, junk)])
              /\ spelled' = spelled \cup ({name} \ {key, Garbled})

Prepend(key, data) ==
  LET f   == Find(cache, key)
      old == cache.item[f.item]
      g   == Grown(key, f, Len(data) + Len(old.value))
  IN  \/ f.item = NULL /\ Refuse("prepend", key)
      \/ /\ f.item # NULL
         /\ Rewrite("prepend", key, f, g,
                    [old EXCEPT !.value = data \o old.value])

\* For an absent key an item is allocated and written, and never linked.
Cas(key, casUnique, data, expiration) ==
  LET f    == Find(cache, key)
      r    == AllocItem(cache, Len(data))
      item == [key |-> key, value |-> data, cas |-> cache.cas,
               expire |-> SetupExpire(expiration), next |-> NULL]
  IN  \/ /\ f.item # NULL /\ cache.item[f.item].cas # casUnique
         /\ Refuse("cas", key)
      \/ /\ f.item # NULL /\ cache.item[f.item].cas = casUnique
         /\ Overwrite("cas", key, f, data, expiration)
      \/ f.item = NULL /\ r.ptr = NULL /\ Crash
      \/ /\ f.item = NULL /\ r.ptr # NULL
         /\ Accept("cas", key,
              [PutItem(cache, r.heap, r.ptr, item) EXCEPT !.cas = cache.cas + 1])

\* Room for the longest number is made first, whatever the number; an item
\* that moves leaves its old block behind.
IncrementDecrement(op, key, increment) ==
  LET f == Find(cache, key)
      g == Grown(key, f, UINT64_STRING_LENGTH)
      n == (Number(cache.item[f.item].value) + increment) % Modulus
  IN  \/ f.item = NULL /\ Refuse(op, key)
      \/ f.item # NULL /\ g.item = NULL /\ Crash
      \/ /\ f.item # NULL /\ g.item # NULL
         /\ Accept(op, key, [g.cache EXCEPT !.item[g.item].value = Digits(n)])

Incr(key, number) == IncrementDecrement("incr", key, number)

Decr(key, number) == IncrementDecrement("decr", key, Modulus - number)

\* Time passes between two requests.
Tick ==
  /\ ~crashed
  /\ \E now \in (clock + 1)..MaxTime : clock' = now
  /\ UNCHANGED <<cache, time, ended, answer, spelled, crashed>>

Read == \E key \in Keys :
  \/ "get" \in Ops /\ Get(key)
  \/ "del" \in Ops /\ Del(key)

Write == \E key \in Keys, data \in Data :
  \/ "append" \in Ops /\ Append_(key, data)
  \/ /\ UNCHANGED spelled
     /\ \/ "prepend" \in Ops /\ Prepend(key, data)
        \/ \E expiration \in Expirations :
             \/ "set" \in Ops /\ Set(key, data, expiration)
             \/ "add" \in Ops /\ Add(key, data, expiration)
             \/ "replace" \in Ops /\ Replace(key, data, expiration)
             \/ /\ "cas" \in Ops
                /\ \E casUnique \in 1..cache.cas : Cas(key, casUnique, data, expiration)

Count == \E key \in Keys, number \in Numbers :
  \/ "incr" \in Ops /\ Incr(key, number)
  \/ "decr" \in Ops /\ Decr(key, number)

Request ==
  /\ ~crashed
  /\ ended' = clock
  /\ UNCHANGED clock
  /\ \/ UNCHANGED spelled /\ Read
     \/ cache.cas <= MaxCas /\ Write
     \/ cache.cas <= MaxCas /\ UNCHANGED spelled /\ Count

Next == Request \/ Tick

Spec == Init /\ [][Next]_vars

-----------------------------------------------------------------------------
(* What the cache holds                                                    *)

Linked(c) == UNION {Range(Chain(c, b)) : b \in Bins}

OnFreeList(c) == UNION {Range(c.heap.free[i]) : i \in Classes}

\* The blocks that are neither in use nor free, gone until the server ends.
Leaked(c) == DOMAIN c.heap.size \ (Linked(c) \cup OnFreeList(c))

Absent == [value |-> <<>>, expire |-> 0, cas |-> 0]

\* What a client can find under every key.
Contents(c) ==
  [key \in Keys |->
     LET p == Find(c, key).item
     IN  IF p = NULL THEN Absent
         ELSE [value  |-> c.item[p].value,
               expire |-> c.item[p].expire,
               cas    |-> c.item[p].cas]]

\* Type invariant of the cache.
TypeOK ==
  /\ cache.heap.free \in [Classes -> Seq(DOMAIN cache.heap.size)]
  /\ cache.bin \in [Bins -> Items(cache) \cup {NULL}]
  /\ Items(cache) \subseteq DOMAIN cache.heap.size
  /\ \A p \in Items(cache) :
       /\ cache.item[p].key \in Keys \cup {Garbled}
       /\ cache.item[p].value \in Seq(Bytes)
       /\ cache.item[p].cas \in 1..(cache.cas - 1)
       /\ cache.item[p].expire \in Nat
  /\ clock \in 0..MaxTime /\ ended \in 0..clock /\ time \in 0..clock
  /\ cache.cas \in 1..(MaxCas + 1)
  /\ spelled \subseteq Keys
  /\ crashed \in BOOLEAN

\* No pointer of a chain leads to memory that has been given back, and no chain
\* runs in a circle or into another one, whatever happens.  Every item is in the
\* chain its key hashes to, and a key has one item, but for the keys that an
\* append has written over that of an item it moved: such an item stays where it
\* was, and another one may have the key.  So unlinking, linking and moving items
\* keep the table of Hash.cpp whole (Hash.cpp, link and unlink; Cache.cpp,
\* growAndReplace, processExpiration and append).
ChainsSound ==
  LET chains == [b \in Bins |-> Chain(cache, b)]
      items  == Linked(cache)
      place  == UNION {{<<b, i>> : i \in DOMAIN chains[b]} : b \in Bins}
      at(x)  == chains[x[1]][x[2]]
      key(x) == cache.item[at(x)].key
      own    == {x \in place : key(x) \notin spelled \cup {Garbled}}
  IN  /\ \A p \in items : cache.item[p].next \in items \cup {NULL}
      /\ \A x, y \in place : at(x) = at(y) => x = y
      /\ \A x \in own : HashOf[key(x)] = x[1]
      /\ \A x, y \in own : key(x) = key(y) => x = y

\* An item in use is in a block that is not free and has room for its value,
\* so no operation writes into memory that is not the item's own.
ItemsInTheirBlocks ==
  LET free == OnFreeList(cache)
  IN  \A p \in Linked(cache) :
        /\ p \notin free
        /\ Align(KeyLength) + Len(cache.item[p].value) + HeaderSize
             <= cache.heap.size[p]

\* An item that is found with a stamp it had before is the same item.
StampsKept(before, after) ==
  \A key, other \in Keys :
    (before[key] # Absent /\ after[other].cas = before[key].cas)
      => key = other /\ after[key] = before[key]

\* A stamp names one content: two items never have the same stamp, and an item
\* that is found with the stamp it had before has the same value and time to
\* expire.  So a cas that succeeds overwrites what its client has seen
\* (Cache.cpp, growAndReplace, getNextCas and cas).
StampNamesContent == [][StampsKept(Contents(cache), Contents(cache'))]_vars

\* add over an expired item that others follow in the chain
CutsChain ==
  LET f == Find(cache, answer'.key)
  IN  /\ answer'.op = "add" /\ answer'.ok
      /\ f.item # NULL
      /\ cache.item[f.item].next # NULL

SameBut(keys, before, after) ==
  \A other \in Keys \ keys : after[other] = before[other]

\* An operation changes nothing under another key than its own, except for an
\* add that takes the place of an expired item, which unlinks the items behind it,
\* and for the keys that an append has written over those of items it moved, when
\* its data was longer than the value before (Cache.cpp, add and append).
OthersKept ==
  [][\/ SameBut({answer'.key} \cup spelled', Contents(cache), Contents(cache'))
     \/ CutsChain]_vars

\* Memory is lost in three places and no other: cas on an absent key, incr and
\* decr when the item moves, and an add that cuts the chain.
LeaksWhere ==
  [][Leaked(cache') # Leaked(cache) =>
       \/ CutsChain
       \/ answer'.op = "cas" /\ answer'.ok /\ Find(cache, answer'.key).item = NULL
       \/ answer'.op \in {"incr", "decr"} /\ answer'.ok]_vars

\* A request never gets a value whose time had run out when the request before
\* it was done.  It may get one whose time has run out since: after a pause the
\* first request is served at the old time (Server.cpp, main; Cache.cpp,
\* processExpiration).
StaleOnlyAfterPause ==
  [][clock' = clock /\ ~crashed' /\ answer'.op = "get" /\ answer'.ok =>
       LET deadline == Contents(cache)[answer'.key].expire
       IN  deadline = 0 \/ ended <= deadline]_vars

Contract == INSTANCE CacheContract WITH store <- Contents(cache), stamp <- cache.cas

\* Every operation does to the contents what IUltraCache.h lets a caller
\* expect: a hit returns the value stored last, whatever moved, was freed or
\* recycled in between, and no key is ever found that was not stored.
KeepsContract == Contract!Spec
=============================================================================
