------------------------------- MODULE Packets -------------------------------
(***************************************************************************)
(* How PacketWriter.cpp cuts what is written to it into datagrams, and how *)
(* PacketReader.cpp puts datagrams together again, as operators.           *)
(*                                                                         *)
(* A message is the sequence of writes that make it up; a write has its    *)
(* bytes and tells whether it must not be split (the integers) or may be   *)
(* (keys and values).  A datagram carries, besides its header and payload, *)
(* the message it is a part of, which no code looks at.                    *)
(***************************************************************************)
EXTENDS Integers, Sequences, SequencesExt

CONSTANTS
  BufferSize,      \* sizeof(Packet::m_buffer), header and payload, 1472
  HeaderLength,    \* sizeof(protocol::Header), 8
  MaxRequestSize,  \* CONFIG_MAX_REQUEST_SIZE
  SeqRange         \* sequence numbers are 16 bits wide

ASSUME PacketsAssumption ==
  /\ BufferSize \in Nat /\ HeaderLength \in Nat /\ HeaderLength < BufferSize
  /\ MaxRequestSize \in Nat
  /\ SeqRange \in Nat \ {0}

-----------------------------------------------------------------------------
(* PacketWriter: payloads is the payload of every packet prepared so far.  *)

\* m_end - m_start of a packet: preparePacket adds the size of the whole
\* buffer to the address of the payload.
Space == BufferSize

\* write(UINT8), write(UINT32) and write(UINT64)
WriteSmall(payloads, bytes) ==
  IF Space - Len(Last(payloads)) >= Len(bytes)
  THEN Front(payloads) \o <<Last(payloads) \o bytes>>
  ELSE Append(payloads, bytes)

\* write(data, cbData): the packet is filled to the brim before the next.
WriteBlock(payloads, bytes) ==
  LET all    == Last(payloads) \o bytes
      needed == (Len(all) + Space - 1) \div Space
  IN  IF bytes = <<>> THEN payloads
      ELSE Front(payloads) \o
           [i \in 1..needed |->
              SubSeq(all, (i - 1) * Space + 1,
                     IF i = needed THEN Len(all) ELSE i * Space)]

Payloads(writes) ==
  FoldLeft(LAMBDA payloads, w : IF w.small THEN WriteSmall(payloads, w.bytes)
                                           ELSE WriteBlock(payloads, w.bytes),
           << <<>> >>, writes)

\* The datagrams send puts on the wire, in order.  Sequence numbers count up
\* from a random one; the first packet says how many there are.
Datagrams(message, rid, seq, writes) ==
  LET payloads == Payloads(writes)
      n        == Len(payloads)
  IN  [i \in 1..n |->
         [message |-> message, index |-> i, of |-> n,
          rid     |-> rid,
          seq     |-> (seq + i - 1) % SeqRange,
          packets |-> IF i = 1 THEN n ELSE 0,
          first   |-> i = 1,
          last    |-> i = n,
          payload |-> payloads[i]]]

\* recvfrom cuts a datagram off at the size of the buffer it is given.
Received(d) ==
  [d EXCEPT !.payload = IF Len(@) > BufferSize - HeaderLength
                        THEN SubSeq(@, 1, BufferSize - HeaderLength) ELSE @]

-----------------------------------------------------------------------------
(* PacketReader                                                            *)

\* packets is the list from m_head to m_tail, started is m_cPackets # 0,
\* left is m_packetsLeft and size is m_cbSize.
NewReader ==
  [packets |-> <<>>, started |-> FALSE, nextSeq |-> 0, left |-> 0, size |-> 0]

\* A first packet in the middle of a request starts the request over.
Restart(r, d) ==
  IF d.first /\ r.started THEN [r EXCEPT !.packets = <<>>, !.started = FALSE] ELSE r

\* Mutant: any packet continues the request.
InSequenceAlways(r, d) == r.started

\* The packet continues the request that has been started.
InSequence(r, d) == r.started /\ r.nextSeq = d.seq

\* Mutant: m_packetsLeft does not count the first packet.
LinkedNotCounted(r, d) ==
  [packets |-> Append(r.packets, d),
   started |-> TRUE,
   nextSeq |-> (d.seq + 1) % SeqRange,
   left    |-> IF r.started THEN r.left - 1 ELSE d.packets,
   size    |-> r.size + Len(d.payload)]

\* The reader after a packet that starts or continues its request.
Linked(r, d) ==
  [packets |-> Append(r.packets, d),
   started |-> TRUE,
   nextSeq |-> (d.seq + 1) % SeqRange,
   left    |-> (IF r.started THEN r.left ELSE d.packets) - 1,
   size    |-> r.size + Len(d.payload)]

\* PacketReader::put
Put(reader, d) ==
  LET r    == Restart(reader, d)
      next == Linked(r, d)
  IN  IF ~r.started /\ ~d.first
        THEN [reader |-> [r EXCEPT !.started = TRUE], result |-> "FAILED"]
      ELSE IF r.started /\ ~InSequence(r, d)
        THEN [reader |-> r, result |-> "FAILED"]
      ELSE IF next.size > MaxRequestSize \/ (d.last # (next.left = 0))
        THEN [reader |-> next, result |-> "FAILED"]
      ELSE [reader |-> next,
            result |-> IF d.last THEN "COMPLETE" ELSE "NEXTPACKET"]

\* copyToBuffer: the payloads, one behind the other.
Contents(r) == FlattenSeq([i \in DOMAIN r.packets |-> r.packets[i].payload])
=============================================================================
