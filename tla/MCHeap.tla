------------------------------- MODULE MCHeap -------------------------------
(* Instances of Heap for TLC. *)
EXTENDS Heap

\* Sizes that share a slot, sit in neighbouring slots and in neighbouring
\* rows, and one that is too large to be freed.
SmallRequests == {5, 8, 9, 15}

\* With the constants of the code: an item with a one-byte key and a value of
\* 60 bytes, of 1000 bytes, and of CONFIG_VALUE_LENGTH bytes.
ItemSize(cbKey, cbValue) == Align(cbKey) + cbValue + 32
RealRequests == {ItemSize(1, 60), ItemSize(1, 1000), ItemSize(1, 1048575)}
=============================================================================
