---------------------------- MODULE CacheContract ----------------------------
(***************************************************************************)
(* What the operations of IUltraCache.h promise their callers, without     *)
(* memory, chains or pointers: every key has at most one content, and a    *)
(* cache may lose a content at any time but never make one up.             *)
(*                                                                         *)
(* Every content has a deadline.  get, del, add and replace treat one that *)
(* is past its deadline as absent; the operations that continue from the   *)
(* content they find do so even then, and cas may give it a new deadline.  *)
(***************************************************************************)
EXTENDS Integers, Sequences

CONSTANTS Keys, Data, Numbers, Expirations, EXPTIME_OFFSET,
          Absent, Number(_), Digits(_), Modulus

VARIABLES
  store,    \* the content of every key, or Absent
  stamp,    \* the stamp of the next change
  time,     \* what deadlines are compared with; it moves on with any operation
  answer    \* what the last operation returned

vars == <<store, stamp, time, answer>>

Init ==
  /\ store = [key \in Keys |-> Absent]
  /\ stamp = 1
  /\ time = 0
  /\ answer.ok = FALSE

Present(key) == store[key] # Absent
Past(key)    == store[key].expire # 0 /\ time > store[key].expire
Fresh(key)   == Present(key) /\ ~Past(key)

\* The deadline a new content gets.  A content that takes the place of another
\* one gets its expiration as it is, in set, replace and cas.
Deadline(expiration) ==
  IF expiration = 0 THEN 0
  ELSE IF expiration <= EXPTIME_OFFSET THEN time + expiration
  ELSE expiration

\* The other keys keep their contents, or lose them.
OthersOnlyLost(key) ==
  \A other \in Keys \ {key} : store'[other] \in {store[other], Absent}

Returns(op, key, ok, value) ==
  /\ answer'.op = op /\ answer'.key = key
  /\ answer'.ok = ok /\ answer'.value = value
  /\ OthersOnlyLost(key)
  /\ time' >= time

\* The key has the new content, under a stamp never used before.
Stores(op, key, value, deadline) ==
  /\ Returns(op, key, TRUE, <<>>)
  /\ store'[key] = [value |-> value, expire |-> deadline, cas |-> stamp]
  /\ stamp' = stamp + 1

\* Nothing changes, or what was past its deadline is dropped.
Declines(op, key) ==
  /\ Returns(op, key, FALSE, <<>>)
  /\ store'[key] \in {store[key]} \cup (IF Fresh(key) THEN {} ELSE {Absent})
  /\ stamp' = stamp

\* A hit returns the content stored last, and nothing fresh is missed.
Get(key) ==
  \/ /\ Returns("get", key, TRUE, store[key].value)
     /\ Fresh(key)
     /\ store'[key] = store[key]
     /\ stamp' = stamp
  \/ Declines("get", key) /\ ~Fresh(key)

Del(key) ==
  \/ /\ Returns("del", key, TRUE, <<>>)
     /\ Fresh(key)
     /\ store'[key] = Absent
     /\ stamp' = stamp
  \/ Declines("del", key) /\ ~Fresh(key)

\* A set is declined for want of memory, and only for a key that is absent.
Set(key, data, expiration) ==
  \/ Stores("set", key, data, IF Present(key) THEN expiration ELSE Deadline(expiration))
  \/ Declines("set", key) /\ ~Present(key)

Add(key, data, expiration) ==
  \/ Stores("add", key, data, Deadline(expiration)) /\ ~Fresh(key)
  \/ Declines("add", key)

Replace(key, data, expiration) ==
  \/ Stores("replace", key, data, expiration) /\ Fresh(key)
  \/ Declines("replace", key) /\ ~Fresh(key)

\* A cas of an absent key is answered as a success and stores nothing.
Cas(key, casUnique, data, expiration) ==
  \/ /\ Stores("cas", key, data, expiration)
     /\ Present(key) /\ store[key].cas = casUnique
  \/ /\ Declines("cas", key)
     /\ Present(key) /\ store[key].cas # casUnique
  \/ /\ Returns("cas", key, TRUE, <<>>)
     /\ ~Present(key)
     /\ store'[key] = Absent
     /\ stamp' = stamp + 1

\* The operations that make a new value of the old one.
Change(op, key, value) ==
  \/ Stores(op, key, value, store[key].expire) /\ Present(key)
  \/ Declines(op, key) /\ ~Present(key)

Append_(key, data) == Change("append", key, store[key].value \o data)
Prepend(key, data) == Change("prepend", key, data \o store[key].value)

Incr(key, number) ==
  Change("incr", key, Digits((Number(store[key].value) + number) % Modulus))
Decr(key, number) ==
  Change("decr", key,
         Digits((Number(store[key].value) + (Modulus - number)) % Modulus))

Next ==
  \E key \in Keys :
    \/ Get(key)
    \/ Del(key)
    \/ \E number \in Numbers : Incr(key, number) \/ Decr(key, number)
    \/ \E data \in Data :
         \/ Append_(key, data)
         \/ Prepend(key, data)
         \/ \E expiration \in Expirations :
              \/ Set(key, data, expiration)
              \/ Add(key, data, expiration)
              \/ Replace(key, data, expiration)
              \/ \E casUnique \in 1..stamp : Cas(key, casUnique, data, expiration)

Spec == Init /\ [][Next]_vars
=============================================================================
