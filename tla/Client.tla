------------------------------- MODULE Client -------------------------------
(***************************************************************************)
(* Calls of Client.cpp to a server over UDP.  A client makes one call at a *)
(* time: it sends a request under a new request id and reads packets until *)
(* the response is complete, a packet is not what it expects, or poll has  *)
(* timed out; or it sends several gets (getMulti) and reads the responses  *)
(* in whatever order they come (readMulti).                                *)
(*                                                                         *)
(* The server is its cache, a main thread that serves one request at a     *)
(* time (Requests.tla), and tx threads that send the packets of responses. *)
(* Requests are short and reach the main thread whole and in any order,    *)
(* which is what Receive.tla is about.                                     *)
(***************************************************************************)
EXTENDS Packets, FiniteSets, Requests

CONSTANTS
  Clients, TxThreads, Keys,
  Calls,         \* what clients call, made with Call
  MultiKeys,     \* the keys a client asks for with getMulti, one after another
  ValueLength,   \* the bytes of a value
  RidRange,      \* the values of m_rid, 2^16
  Rids, Seqs,    \* the request ids and sequence numbers rand returns
  Lossy,         \* the network may lose datagrams
  Reorder,       \* the network may deliver any datagram of the server next
  Timeouts,      \* the server or the network may be slower than the timeout
  TooLong,       \* clients use keys or values that are too long
  MayRunOut,     \* the cache may run out of memory
  MaxCopies,     \* bound: how many requests the network duplicates
  MaxCalls,      \* bound: the calls of a client
  MaxSockets     \* bound: the sockets of a client, the first one included

ASSUME ClientAssumption ==
  /\ RidRange \in Nat \ {0, 1}
  /\ ValueLength \in Nat /\ MaxCopies \in Nat /\ MaxCalls \in Nat
  /\ MaxSockets \in Nat \ {0}
  /\ \A cl \in Calls : cl.cmd \in Commands
  /\ Rids \subseteq 0..(RidRange - 1) /\ Seqs \subseteq 0..(SeqRange - 1)

VARIABLES
  item, stamp,   \* the cache: the item of every key, and its next stamp
  toServer,      \* the requests on their way to the main thread
  copies,        \* how many of them have been duplicates
  txQueue,       \* the responses posted to the tx threads
  sending,       \* the packets a tx thread still has to send
  toClient,      \* the packets on their way to a client, or in its socket
  pc,            \* a client is "idle", "waiting" or reading a "multi"
  number,        \* the calls it has made
  rid,           \* m_rid
  sockfd,        \* m_sockfd: the number of its socket, or 0 for -1
  sockets,       \* how many sockets it has had
  call,          \* the call it waits for
  reader,        \* the PacketReader of that call
  handles,       \* the handles of its getMulti calls; 0 once it is answered
  error,         \* m_error
  answer,        \* what the last call has returned, and from which response
  aborted        \* an assert has failed or an exception has not been caught

serverVars == <<item, stamp, toServer, copies, txQueue, sending>>
socketVars == <<sockfd, sockets>>
clientVars == <<pc, number, rid, socketVars, call, reader, handles, error, answer, aborted>>
vars == <<serverVars, toClient, clientVars>>

NoCall == Call("none", "none", 0, 0, FALSE)

NoResponse == [client |-> "none", socket |-> 0, number |-> 0, rid |-> 0, reply |-> NoReply]

\* The result of the calls from first to last, which are one unless they are
\* those of a getMulti.
Returned(first, last, ok, response) ==
  [first |-> first, last |-> last, ok |-> ok, response |-> response]

Init ==
  /\ item = [key \in Keys |-> Absent]
  /\ stamp = 1
  /\ toServer = {}
  /\ copies = 0
  /\ txQueue = <<>>
  /\ sending = [t \in TxThreads |-> <<>>]
  /\ toClient = [c \in Clients |-> <<>>]
  /\ pc = [c \in Clients |-> "idle"]
  /\ number = [c \in Clients |-> 0]
  /\ rid \in [Clients -> Rids]
  /\ sockfd = [c \in Clients |-> 1]
  /\ sockets = [c \in Clients |-> 1]
  /\ call = [c \in Clients |-> NoCall]
  /\ reader = [c \in Clients |-> NewReader]
  /\ handles = [c \in Clients |-> <<>>]
  /\ error = [c \in Clients |-> "SUCCESS"]
  /\ answer = [c \in Clients |-> Returned(0, 0, TRUE, NoResponse)]
  /\ aborted = FALSE

-----------------------------------------------------------------------------
(* The client, up to its first wait                                        *)

\* Mutant: m_rid is not 16 bits wide.
NextRidWide(r) == r + 1

\* getNextRid: zero is skipped.
NextRid(r) == IF (r + 1) % RidRange = 0 THEN 1 ELSE (r + 1) % RidRange

Request(c, cl) ==
  [client |-> c, socket |-> sockfd[c], number |-> number[c] + 1,
   rid |-> NextRid(rid[c]), call |-> cl]

SendRequest(c, cl) ==
  /\ ~aborted
  /\ pc[c] = "idle" /\ number[c] < MaxCalls
  /\ sockfd[c] # 0
  /\ number' = [number EXCEPT ![c] = @ + 1]
  /\ rid' = [rid EXCEPT ![c] = NextRid(@)]
  /\ UNCHANGED socketVars
  /\ toServer' = toServer \cup {Request(c, cl)}

\* set resets m_error, the other calls do not.
ResetError(c, cl) ==
  error' = IF cl.cmd = "SET" THEN [error EXCEPT ![c] = "SUCCESS"] ELSE error

\* A synchronous call, up to readResponse.
StartCall(c, cl) ==
  /\ ~cl.async /\ handles[c] = <<>>
  /\ SendRequest(c, cl)
  /\ ResetError(c, cl)
  /\ pc' = [pc EXCEPT ![c] = "waiting"]
  /\ call' = [call EXCEPT ![c] = cl]
  /\ reader' = [reader EXCEPT ![c] = NewReader]
  /\ UNCHANGED <<item, stamp, copies, txQueue, sending, toClient, handles,
                 answer, aborted>>

\* An asynchronous call returns when it has sent its request.
AsyncCall(c, cl) ==
  /\ cl.async /\ handles[c] = <<>>
  /\ SendRequest(c, cl)
  /\ ResetError(c, cl)
  /\ answer' = [answer EXCEPT ![c] = Returned(number'[c], number'[c], TRUE, NoResponse)]
  /\ UNCHANGED <<item, stamp, copies, txQueue, sending, toClient, pc, call,
                 reader, handles, aborted>>

\* getMulti for the next of MultiKeys
GetMulti(c) ==
  LET asked == Len(handles[c])
  IN  /\ asked < Len(MultiKeys)
      /\ asked = 0 => number[c] + Len(MultiKeys) <= MaxCalls
      /\ SendRequest(c, Call("GET", MultiKeys[asked + 1], 0, 0, FALSE))
      /\ handles' = [handles EXCEPT ![c] = Append(@, rid'[c])]
      /\ UNCHANGED <<item, stamp, copies, txQueue, sending, toClient, pc, call,
                     reader, error, answer, aborted>>

\* The first readMulti, once every get has been sent.
StartMulti(c) ==
  /\ ~aborted
  /\ pc[c] = "idle"
  /\ handles[c] # <<>> /\ Len(handles[c]) = Len(MultiKeys)
  /\ pc' = [pc EXCEPT ![c] = "multi"]
  /\ reader' = [reader EXCEPT ![c] = NewReader]
  /\ UNCHANGED <<serverVars, toClient, number, rid, socketVars, call, handles, error,
                 answer, aborted>>

\* A call with a key or a value that is too long returns before it has sent
\* anything, and the assert in the destructor of its PacketWriter fails.
CallTooLong(c) ==
  /\ ~aborted
  /\ TooLong
  /\ pc[c] = "idle" /\ handles[c] = <<>> /\ number[c] < MaxCalls
  /\ sockfd[c] # 0
  /\ number' = [number EXCEPT ![c] = @ + 1]
  /\ rid' = [rid EXCEPT ![c] = NextRid(@)]
  /\ \E err \in {"KEY_TOO_LONG", "VALUE_TO_LONG"} : error' = [error EXCEPT ![c] = err]
  /\ aborted' = TRUE
  /\ UNCHANGED <<serverVars, toClient, pc, socketVars, call, reader, handles, answer>>

\* A call without a socket
CallNotConnected(c) ==
  /\ ~aborted
  /\ pc[c] = "idle" /\ handles[c] = <<>> /\ number[c] < MaxCalls
  /\ sockfd[c] = 0
  /\ number' = [number EXCEPT ![c] = @ + 1]
  /\ error' = [error EXCEPT ![c] = "NOT_CONNECTED"]
  /\ answer' = [answer EXCEPT ![c] = Returned(number'[c], number'[c], FALSE, NoResponse)]
  /\ UNCHANGED <<serverVars, toClient, pc, rid, socketVars, call, reader, handles, aborted>>

\* disconnect: what comes for the socket is gone.
Disconnect(c) ==
  /\ ~aborted
  /\ pc[c] = "idle" /\ sockfd[c] # 0 /\ sockets[c] < MaxSockets
  /\ sockfd' = [sockfd EXCEPT ![c] = 0]
  /\ toClient' = [toClient EXCEPT ![c] = <<>>]
  /\ UNCHANGED <<serverVars, pc, number, rid, sockets, call, reader, handles, error,
                 answer, aborted>>

\* connect, which begins with a disconnect.  If there is no new socket, that is all.
Connect(c) ==
  /\ ~aborted
  /\ pc[c] = "idle" /\ sockets[c] < MaxSockets
  /\ sockets' = [sockets EXCEPT ![c] = @ + 1]
  /\ sockfd' = [sockfd EXCEPT ![c] = sockets'[c]]
  /\ toClient' = [toClient EXCEPT ![c] = <<>>]
  /\ UNCHANGED <<serverVars, pc, number, rid, call, reader, handles, error, answer,
                 aborted>>

-----------------------------------------------------------------------------
(* The server                                                              *)

Response(m, reply) ==
  [client |-> m.client, socket |-> m.socket, number |-> m.number, rid |-> m.rid,
   reply |-> reply]

\* The loop of main: decodeRequest.  If again, the network has made a copy.
ServeRequest(m, oom, again) ==
  LET r == Made(m.call).request
      o == Serve(item[r.key], stamp, r, oom)
  IN  /\ ~aborted
      /\ item' = [item EXCEPT ![r.key] = o.item]
      /\ stamp' = IF o.item.cas = stamp THEN stamp + 1 ELSE stamp
      /\ txQueue' = IF o.reply = NoReply THEN txQueue
                    ELSE Append(txQueue, Response(m, o.reply))
      /\ \/ ~again /\ toServer' = toServer \ {m} /\ UNCHANGED copies
         \/ again /\ copies < MaxCopies /\ copies' = copies + 1 /\ UNCHANGED toServer
      /\ UNCHANGED <<sending, toClient, clientVars>>

\* A hit carries the value, the other responses fit in one packet.
ResponseWrites(reply) ==
  IF reply.cmd = "RESULT_GET"
  THEN <<[small |-> FALSE, bytes |-> [i \in 1..ValueLength |-> 0]]>>
  ELSE <<>>

\* txThread: WaitForItem.
TakeResponse(t) ==
  /\ ~aborted
  /\ sending[t] = <<>> /\ txQueue # <<>>
  /\ \E seq \in Seqs :
       sending' = [sending EXCEPT ![t] =
         Datagrams(Head(txQueue), Head(txQueue).rid, seq,
                   ResponseWrites(Head(txQueue).reply))]
  /\ txQueue' = Tail(txQueue)
  /\ UNCHANGED <<item, stamp, toServer, copies, toClient, clientVars>>

\* txThread: one sendto of Response::send.  It reaches the client if that still
\* has the socket its request came from.
SendPacket(t) ==
  /\ ~aborted
  /\ sending[t] # <<>>
  /\ LET response == Head(sending[t]).message
     IN  toClient' = IF response.socket = sockfd[response.client]
                     THEN [toClient EXCEPT ![response.client] = Append(@, Head(sending[t]))]
                     ELSE toClient
  /\ sending' = [sending EXCEPT ![t] = Tail(@)]
  /\ UNCHANGED <<item, stamp, toServer, copies, txQueue, clientVars>>

LoseRequest(m) ==
  /\ Lossy
  /\ toServer' = toServer \ {m}
  /\ UNCHANGED <<item, stamp, copies, txQueue, sending, toClient, clientVars>>

LosePacket(c, i) ==
  /\ Lossy
  /\ toClient' = [toClient EXCEPT ![c] = RemoveAt(@, i)]
  /\ UNCHANGED <<serverVars, clientVars>>

-----------------------------------------------------------------------------
(* The client, from its wait on                                            *)

Reading(c) == pc[c] \in {"waiting", "multi"}

FirstCall(c) == IF pc[c] = "multi" THEN number[c] - Len(handles[c]) + 1 ELSE number[c]

\* The call returns, or the loop of readMulti calls ends.
Return(c, ok, response, err) ==
  /\ pc' = [pc EXCEPT ![c] = "idle"]
  /\ answer' = [answer EXCEPT ![c] = Returned(FirstCall(c), number[c], ok, response)]
  /\ error' = [error EXCEPT ![c] = err]
  /\ reader' = [reader EXCEPT ![c] = NewReader]
  /\ handles' = [handles EXCEPT ![c] = <<>>]
  /\ UNCHANGED aborted

Fail(c, err) == Return(c, FALSE, NoResponse, err)

\* Mutant: readMulti waits without a timeout.
TimeoutOfCall(c) ==
  /\ ~aborted
  /\ pc[c] = "waiting" /\ Timeouts
  /\ Fail(c, "CONNECTION_TIMEDOUT")
  /\ UNCHANGED <<serverVars, toClient, number, rid, socketVars, call>>

\* poll has returned 0, or there is no socket to read from.
Timeout(c) ==
  /\ ~aborted
  /\ Reading(c)
  /\ Timeouts \/ sockfd[c] = 0
  /\ Fail(c, "CONNECTION_TIMEDOUT")
  /\ UNCHANGED <<serverVars, toClient, number, rid, socketVars, call>>

Abort ==
  /\ aborted' = TRUE
  /\ UNCHANGED <<pc, reader, handles, error, answer>>

Successes == {"RESULT_STORED", "RESULT_DELETED", "RESULT_GET", "RESULT_VERSION"}

\* The bytes a call reads from its response; where it is shorter than it says,
\* ByteStream throws.
ResponseLength(reply) == IF reply.cmd = "RESULT_GET" THEN ValueLength ELSE 0

Truncated(r) == Len(Contents(r)) < ResponseLength(r.packets[1].message.reply)

\* The call acts on its response; set understands every response, and reads none.
FinishCall(c, r) ==
  LET response == r.packets[1].message
      cmd == response.reply.cmd
      err == IF call[c].cmd # "SET" \/ cmd = "RESULT_STORED" THEN error[c]
             ELSE IF cmd = "RESULT_ERROR_OOM" THEN "SERVER_ERROR_OOM"
             ELSE "SERVER_ERROR_UNKNOWN"
  IN  IF call[c].cmd = "SET" \/ (cmd \in Made(call[c]).understood /\ ~Truncated(r))
      THEN Return(c, cmd \in Successes, response, err)
      ELSE Abort

\* readMulti has a response.  One without a handle ends the loop, and its bytes are
\* not read; else the handle is cleared and, unless that was the last one, readMulti
\* is called again.
FinishMulti(c, r) ==
  LET response == r.packets[1].message
      matches  == {i \in DOMAIN handles[c] : handles[c][i] = response.rid}
      hs       == [i \in DOMAIN handles[c] |->
                     IF i \in matches /\ i = Min(matches) THEN 0 ELSE handles[c][i]]
  IN  IF matches = {} THEN Return(c, FALSE, NoResponse, error[c])
      ELSE IF response.reply.cmd \notin GetCall(NoCall).understood \/ Truncated(r) THEN Abort
      ELSE IF \A i \in DOMAIN hs : hs[i] = 0 THEN Return(c, TRUE, response, error[c])
      ELSE /\ handles' = [handles EXCEPT ![c] = hs]
           /\ reader' = [reader EXCEPT ![c] = NewReader]
           /\ answer' = [answer EXCEPT
                           ![c] = Returned(FirstCall(c), number[c], TRUE, response)]
           /\ UNCHANGED <<pc, error, aborted>>

Complete(c, r) == IF pc[c] = "multi" THEN FinishMulti(c, r) ELSE FinishCall(c, r)

\* Mutant: any packet will do.
ExpectsAny(c, d) == TRUE

\* Mutant: readMulti compares, too.
ExpectsLast(c, d) == d.rid = rid[c]

\* waitForPacket compares request ids, except for readMulti.
Expects(c, d) == pc[c] = "waiting" => d.rid = rid[c]

\* waitForPacket gets packet i, and readResponse puts it into the reader.
ReceivePacket(c, i) ==
  LET d == toClient[c][i]
      p == Put(reader[c], Received(d))
  IN  /\ ~aborted
      /\ Reading(c)
      /\ i = 1 \/ Reorder
      /\ toClient' = [toClient EXCEPT ![c] = RemoveAt(@, i)]
      /\ \/ ~Expects(c, d) /\ Fail(c, "CONNECTION_TIMEDOUT")
         \/ Expects(c, d) /\ p.result = "FAILED" /\ Fail(c, "PROTOCOL_ERROR_SEQUENCE")
         \/ /\ Expects(c, d) /\ p.result = "NEXTPACKET"
            /\ reader' = [reader EXCEPT ![c] = p.reader]
            /\ UNCHANGED <<pc, handles, error, answer, aborted>>
         \/ Expects(c, d) /\ p.result = "COMPLETE" /\ Complete(c, p.reader)
      /\ UNCHANGED <<serverVars, number, rid, socketVars, call>>

ClientStep(c) ==
  \/ \E i \in DOMAIN toClient[c] : ReceivePacket(c, i)
  \/ Timeout(c)

Serving ==
  \E m \in toServer, oom \in (IF MayRunOut THEN BOOLEAN ELSE {FALSE}),
     again \in BOOLEAN : ServeRequest(m, oom, again)

Sending(t) == TakeResponse(t) \/ SendPacket(t)

Next ==
  \/ \E c \in Clients :
       \/ \E cl \in Calls : StartCall(c, cl) \/ AsyncCall(c, cl)
       \/ CallTooLong(c) \/ CallNotConnected(c)
       \/ Disconnect(c) \/ Connect(c)
       \/ GetMulti(c)
       \/ StartMulti(c)
       \/ ClientStep(c)
       \/ \E i \in DOMAIN toClient[c] : LosePacket(c, i)
  \/ Serving
  \/ \E t \in TxThreads : Sending(t)
  \/ \E m \in toServer : LoseRequest(m)

Spec == Init /\ [][Next]_vars

\* A client that waits goes on: it reads what there is, or poll times out.
ClientFair == Spec /\ \A c \in Clients : WF_vars(ClientStep(c))

\* And the threads of the server run.
FairSpec ==
  /\ ClientFair
  /\ WF_vars(Serving)
  /\ \A t \in TxThreads : WF_vars(Sending(t))

-----------------------------------------------------------------------------

Rid == 0..(RidRange - 1)

Errors == {"SUCCESS", "NOT_CONNECTED", "KEY_TOO_LONG", "VALUE_TO_LONG", 
           "CONNECTION_TIMEDOUT", "SERVER_ERROR_OOM", "SERVER_ERROR_UNKNOWN",
           "PROTOCOL_ERROR_SEQUENCE"}

\* Type invariant of the clients and the server.
TypeOK ==
  /\ \A key \in Keys : item[key].value \in Nat /\ item[key].cas \in 0..(stamp - 1)
  /\ stamp \in Nat \ {0}
  /\ copies \in 0..MaxCopies
  /\ pc \in [Clients -> {"idle", "waiting", "multi"}]
  /\ number \in [Clients -> 0..MaxCalls]
  /\ rid \in [Clients -> Rid]
  /\ sockets \in [Clients -> 1..MaxSockets]
  /\ \A c \in Clients : sockfd[c] \in {0, sockets[c]}
  /\ \A c \in Clients : handles[c] \in Seq(Rid) /\ Len(handles[c]) <= Len(MultiKeys)
  /\ error \in [Clients -> Errors]
  /\ aborted \in BOOLEAN

\* A call never returns with the response of another call, late, duplicated or
\* out of order as it may be, as long as fewer than RidRange calls are made
\* while a packet is on its way (Client.cpp, waitForPacket and readMulti).
AnswerIsOwn ==
  \A c \in Clients :
    LET a == answer[c]
    IN  a.response # NoResponse =>
          a.response.client = c /\ a.response.number \in a.first..a.last

\* Client c takes packet d, the next or any other.
Takes(c, d) ==
  \E i \in DOMAIN toClient[c] :
    toClient[c][i] = d /\ toClient'[c] = RemoveAt(toClient[c], i)

\* A client aborts in three places and no other: an argument that is too long, a cas
\* the server has no memory for, and a value for which a packet has no room
\* behind its header, whose bytes do not all arrive.  Whatever the network does, no other response fails an
\* assert or makes ByteStream throw: a call only gets replies it has a case for
\* (Client.cpp, readResponse and the calls).
AbortsWhere ==
  [][aborted' # aborted =>
       \E c \in Clients :
         \/ number'[c] # number[c] /\ error'[c] \in {"KEY_TOO_LONG", "VALUE_TO_LONG"}
         \/ \E d \in Range(toClient[c]) :
              /\ Takes(c, d)
              /\ \/ /\ d.message.reply.cmd = "RESULT_GET"
                    /\ ValueLength > BufferSize - HeaderLength
                 \/ call[c].cmd = "CAS" /\ d.message.reply.cmd = "RESULT_ERROR_OOM"]_vars

\* No call waits for ever: it gets its response, or poll times out
\* (Client.cpp, waitForPacket).
CallsReturn == \A c \in Clients : Reading(c) ~> (~Reading(c) \/ aborted)

\* A version the client waits for: the server makes the response and does not
\* post it (Server.cpp:286-297).
NeverAnswered(c) == pc[c] = "waiting" /\ call[c].cmd = "VERSION"

\* With a network that loses nothing and no timeouts, every call but version
\* returns with its response (Client.cpp, readResponse; Server.cpp, decodeRequest,
\* txThread).
CallsAnswered ==
  \A c \in Clients :
    Reading(c) /\ ~NeverAnswered(c) ~> (~Reading(c) /\ answer[c].response # NoResponse)

\* With such a network and responses of one packet, readMulti gets the answer
\* to every get of getMulti, in whatever order they come (Client.cpp,
\* readMulti).
MultiAnswersAll ==
  \A c \in Clients : answer[c].first < answer[c].last => answer[c].ok
=============================================================================
