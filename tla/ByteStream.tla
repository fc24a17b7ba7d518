------------------------------ MODULE ByteStream ------------------------------
(***************************************************************************)
(* The bytes of a request: how the calls of Client.cpp write their fields, *)
(* and how the server's decodeRequest (Server.cpp) reads them back with a  *)
(* ByteStream, which throws at a read beyond the end.                      *)
(*                                                                         *)
(* A request is [cmd, key, data, words]: words are the integers behind the *)
(* data, or behind the key when the command has no data.                   *)
(***************************************************************************)
EXTENDS Integers, Sequences, SequencesExt

CONSTANTS
  ByteRange,    \* a byte is below this, 256
  Size32,       \* the bytes of a UINT32, 4
  Size64        \* the bytes of a UINT64, 8

ASSUME ByteStreamAssumption ==
  /\ ByteRange \in Nat \ {0, 1}
  /\ Size32 \in Nat \ {0} /\ Size64 \in Nat \ {0}

-----------------------------------------------------------------------------
(* Writing                                                                 *)

\* An integer in memory, low byte first.
ToBytes(size, n) == [i \in 1..size |-> (n \div ByteRange^(i - 1)) % ByteRange]

WriteInteger(size, n) == [small |-> TRUE, bytes |-> ToBytes(size, n)]
WriteBytes(bytes)     == [small |-> FALSE, bytes |-> bytes]

\* The sizes of the integers set, cas, incr and the other calls end with.
WordsWritten(cmd) ==
  CASE cmd \in {"SET", "ADD", "REPLACE"} -> <<Size32, Size32>>
    [] cmd = "CAS"                       -> <<Size64, Size32, Size32>>
    [] cmd \in {"INCR", "DECR"}          -> <<Size64>>
    [] OTHER                             -> <<>>

Stored == {"SET", "ADD", "REPLACE", "APPEND", "PREPEND", "CAS"}

\* What a call writes.
RequestWrites(r) ==
  <<WriteInteger(1, Len(r.key)), WriteBytes(r.key)>>
    \o (IF r.cmd \in Stored THEN <<WriteInteger(Size32, Len(r.data)), WriteBytes(r.data)>>
                            ELSE <<>>)
    \o [i \in DOMAIN r.words |-> WriteInteger(WordsWritten(r.cmd)[i], r.words[i])]

\* The command in the header: cas is sent as a SET.
CommandSent(cmd) == IF cmd = "CAS" THEN "SET" ELSE cmd

-----------------------------------------------------------------------------
(* Reading.  A stream is what there is to read, how much of it has been    *)
(* read, and whether a read has thrown; nothing is read after that.        *)

Stream(bytes) == [bytes |-> bytes, offset |-> 0, thrown |-> FALSE]

\* There are size more bytes.
Has(s, size) == Len(s.bytes) - s.offset >= size

\* ByteStream::read, and readUINT8, readUINT32 and readUINT64 before they make
\* a number of what they have read.
Read(s, size) ==
  IF ~s.thrown /\ Has(s, size) THEN [s EXCEPT !.offset = @ + size]
                               ELSE [s EXCEPT !.thrown = TRUE]

\* The bytes read between two states of a stream.
Between(s, t) == SubSeq(s.bytes, s.offset + 1, t.offset)

ToInteger(bytes) ==
  FoldRight(LAMBDA byte, n : n * ByteRange + byte, bytes, 0)

\* An integer read from s, and the stream after it; 0 when the read throws.
Integer(s, size) ==
  LET t == Read(s, size)
  IN  [value |-> IF t.thrown THEN 0 ELSE ToInteger(Between(s, t)), stream |-> t]

\* Mutant: the length is read as a UINT8.
BlockNarrow(s, size) ==
  LET length == Integer(s, 1)
      t      == Read(length.stream, length.value)
  IN  [value |-> IF t.thrown THEN <<>> ELSE Between(length.stream, t), stream |-> t]

\* The length of a block, then the block.
Block(s, size) ==
  LET length == Integer(s, size)
      t      == Read(length.stream, length.value)
  IN  [value |-> IF t.thrown THEN <<>> ELSE Between(length.stream, t), stream |-> t]

\* Mutant: the number of incr and decr is read as a UINT32.
WordsReadNarrow(cmd) ==
  CASE cmd \in {"SET", "ADD", "REPLACE"} -> <<Size32, Size32>>
    [] cmd = "CAS"                       -> <<Size64, Size32, Size32>>
    [] cmd \in {"INCR", "DECR"}          -> <<Size32>>
    [] OTHER                             -> <<>>

\* The sizes of the integers decodeRequest reads behind the blocks.
WordsRead(cmd) ==
  CASE cmd \in {"SET", "ADD", "REPLACE"} -> <<Size32, Size32>>
    [] cmd = "CAS"                       -> <<Size64, Size32, Size32>>
    [] cmd \in {"INCR", "DECR"}          -> <<Size64>>
    [] OTHER                             -> <<>>

\* decodeRequest has caught an Exception and returned.
Dropped == [cmd |-> "none", key |-> <<>>, data |-> <<>>, words |-> <<>>]

\* What decodeRequest passes to the cache.
Decode(cmd, bytes) ==
  LET key   == Block(Stream(bytes), 1)
      data  == IF cmd \in Stored THEN Block(key.stream, Size32)
               ELSE [value |-> <<>>, stream |-> key.stream]
      words == FoldLeft(
                 LAMBDA w, size :
                   LET i == Integer(w.stream, size)
                   IN  [value |-> Append(w.value, i.value), stream |-> i.stream],
                 [value |-> <<>>, stream |-> data.stream], WordsRead(cmd))
  IN  IF words.stream.thrown THEN Dropped
      ELSE [cmd |-> cmd, key |-> key.value, data |-> data.value, words |-> words.value]
=============================================================================
