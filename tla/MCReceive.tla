----------------------------- MODULE MCReceive -----------------------------
(* Instances of Receive for TLC. *)
EXTENDS Receive

CONSTANTS long, short, again   \* model values for messages

\* A request id of its own for every message, and one that is used again.
OwnRid    == [m \in Messages |-> m]
SharedRid == [m \in Messages |-> IF m = again THEN long ELSE m]

\* The sequence numbers of two messages do not overlap.
MCSeq0 == [m \in Messages |-> IF m = long THEN 3 ELSE IF m = short THEN 0 ELSE 6]

Set(data)        == [cmd |-> "SET", key |-> <<1>>, data |-> data, words |-> <<9, 2>>]
Cas(stamp, data) == [cmd |-> "CAS", key |-> <<1>>, data |-> data, words |-> <<stamp, 5, 3>>]

\* With packets of twelve bytes, of which eight arrive, set and cas fill the first
\* of two packets and incr takes a part of one.
SmallAsked == [m \in Messages |->
  CASE m = long  -> Set(<<3, 4, 5, 6, 7>>)
    [] m = short -> [cmd |-> "INCR", key |-> <<2>>, data |-> <<>>, words |-> <<77>>]
    [] m = again -> Cas(129, <<6>>)]

\* With packets of eighteen, of which fourteen arrive, one set arrives as it is,
\* another fills the first of two packets, and a cas fills its only one.
LargeAsked == [m \in Messages |->
  CASE m = long  -> Set([i \in 1..14 |-> i % ByteRange])
    [] m = short -> Set(<<3, 4, 5, 6, 7>>)
    [] m = again -> Cas(129, <<6, 5, 4, 3>>)]
=============================================================================
