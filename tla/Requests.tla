------------------------------ MODULE Requests ------------------------------
(***************************************************************************)
(* What a call of Client.cpp puts into its request, and what the server's  *)
(* decodeRequest (Server.cpp) makes of a request: an operation on the item *)
(* of its key, and a reply.                                                *)
(*                                                                         *)
(* A value is a decimal number, which stands for its digits; a request     *)
(* carries, behind the key and the data, 32-bit words.  The cache answers  *)
(* as Cache.tla has it; items have room for what is appended to them.      *)
(***************************************************************************)
EXTENDS Integers, Sequences

CONSTANTS
  WordRange,         \* the values of a UINT32, 2^32
  Now,               \* the time of the cache, constant here
  EXPTIME_OFFSET     \* an expiration up to this is relative to the time

ASSUME RequestsAssumption ==
  /\ WordRange \in Nat \ {0}
  /\ Now \in Nat /\ EXPTIME_OFFSET \in Nat

\* A call of the client: data is the value or the number it passes.
Call(cmd, key, data, casUnique, async) ==
  [cmd |-> cmd, key |-> key, data |-> data, casUnique |-> casUnique, async |-> async]

\* A UINT64, low half first.
Words64(n) == <<n % WordRange, n \div WordRange>>

\* The calls there are.
Commands == {"SET", "ADD", "REPLACE", "APPEND", "PREPEND", "INCR", "DECR", "DEL",
             "GET", "VERSION", "CAS"}

\* What a call sends, and the replies it has a case for; any other one fails an
\* assert, except in set.  Callers pass neither expiration nor flags.
Exchange(call, cmd, words, understood) ==
  [request |-> [cmd |-> cmd, key |-> call.key, data |-> call.data, words |-> words,
                async |-> call.async],
   understood |-> understood]

StoredOr(reply) == {"RESULT_STORED", reply}

SetCall(call)     == Exchange(call, "SET", <<0, 0>>, StoredOr("RESULT_ERROR_OOM"))
AddCall(call)     == Exchange(call, "ADD", <<0, 0>>, StoredOr("RESULT_NOT_STORED"))
ReplaceCall(call) == Exchange(call, "REPLACE", <<0, 0>>, StoredOr("RESULT_NOT_STORED"))
AppendCall(call)  == Exchange(call, "APPEND", <<>>, StoredOr("RESULT_ERROR_OOM"))
PrependCall(call) == Exchange(call, "PREPEND", <<>>, StoredOr("RESULT_ERROR_OOM"))
IncrCall(call) ==
  Exchange(call, "INCR", Words64(call.data), StoredOr("RESULT_NOT_FOUND"))
DecrCall(call) ==
  Exchange(call, "DECR", Words64(call.data), StoredOr("RESULT_NOT_FOUND"))
DelCall(call) == Exchange(call, "DEL", <<>>, {"RESULT_DELETED", "RESULT_NOT_FOUND"})
GetCall(call) == Exchange(call, "GET", <<>>, {"RESULT_GET", "RESULT_NOT_FOUND"})
VersionCall(call) == Exchange(call, "VERSION", <<>>, {"RESULT_VERSION"})

\* cas is sent as a SET.
CasCall(call) ==
  Exchange(call, "SET", Words64(call.casUnique) \o <<0, 0>>, StoredOr("RESULT_EXISTS"))

Made(call) ==
  CASE call.cmd = "SET"     -> SetCall(call)
    [] call.cmd = "ADD"     -> AddCall(call)
    [] call.cmd = "REPLACE" -> ReplaceCall(call)
    [] call.cmd = "APPEND"  -> AppendCall(call)
    [] call.cmd = "PREPEND" -> PrependCall(call)
    [] call.cmd = "INCR"    -> IncrCall(call)
    [] call.cmd = "DECR"    -> DecrCall(call)
    [] call.cmd = "DEL"     -> DelCall(call)
    [] call.cmd = "GET"     -> GetCall(call)
    [] call.cmd = "VERSION" -> VersionCall(call)
    [] call.cmd = "CAS"     -> CasCall(call)

-----------------------------------------------------------------------------
(* decodeRequest                                                           *)

\* An item; a key without one has the item Absent.
Absent == [value |-> 0, cas |-> 0, expire |-> 0]

Item(value, cas, expire) == [value |-> value, cas |-> cas, expire |-> expire]

Expired(item) == item.expire # 0 /\ Now > item.expire
Fresh(item)   == item # Absent /\ ~Expired(item)

NoReply == [cmd |-> "none", value |-> 0, cas |-> 0]

Reply(cmd)             == [cmd |-> cmd, value |-> 0, cas |-> 0]
ReplyWith(cmd, value)  == [cmd |-> cmd, value |-> value, cas |-> 0]

\* The item and the reply an operation leaves.
Outcome(item, reply) == [item |-> item, reply |-> reply]

\* HashItem::setup
Deadline(expiration) ==
  IF expiration # 0 /\ expiration <= EXPTIME_OFFSET THEN Now + expiration ELSE expiration

\* oom tells that the heap has no room for a new item.
ServeSet(item, stamp, r, oom) ==
  IF item # Absent
    THEN Outcome(Item(r.data, stamp, r.words[1]), Reply("RESULT_STORED"))
  ELSE IF oom THEN Outcome(Absent, Reply("RESULT_ERROR_OOM"))
  ELSE Outcome(Item(r.data, stamp, Deadline(r.words[1])), Reply("RESULT_STORED"))

ServeAdd(item, stamp, r, oom) ==
  IF Fresh(item) THEN Outcome(item, Reply("RESULT_NOT_STORED"))
  ELSE IF oom THEN Outcome(Absent, Reply("RESULT_NOT_STORED"))
  ELSE Outcome(Item(r.data, stamp, Deadline(r.words[1])), Reply("RESULT_STORED"))

ServeReplace(item, stamp, r) ==
  IF Fresh(item)
    THEN Outcome(Item(r.data, stamp, r.words[1]), Reply("RESULT_STORED"))
    ELSE Outcome(Absent, Reply("RESULT_NOT_STORED"))

\* The digits of x before those of y.
Concat(x, y) ==
  x * (CHOOSE p \in {10, 100, 1000, 10000, 100000} : p > y /\ (p = 10 \/ p <= 10 * y)) + y

ServeAppend(item, stamp, r) ==
  IF item = Absent THEN Outcome(Absent, Reply("RESULT_ERROR_OOM"))
  ELSE Outcome(Item(Concat(item.value, r.data), stamp, item.expire),
               Reply("RESULT_STORED"))

ServePrepend(item, stamp, r) ==
  IF item = Absent THEN Outcome(Absent, Reply("RESULT_ERROR_OOM"))
  ELSE Outcome(Item(Concat(r.data, item.value), stamp, item.expire),
               Reply("RESULT_STORED"))

Number64(words) == words[1] + WordRange * words[2]

\* Both replies carry the number of the request.
ServeCount(item, stamp, r, sum) ==
  LET n == Number64(r.words)
  IN  IF item = Absent THEN Outcome(Absent, ReplyWith("RESULT_NOT_FOUND", n))
      ELSE Outcome(Item(sum % (WordRange * WordRange), stamp, item.expire),
                   ReplyWith("RESULT_STORED", n))

ServeIncr(item, stamp, r) ==
  ServeCount(item, stamp, r, item.value + Number64(r.words))

ServeDecr(item, stamp, r) ==
  ServeCount(item, stamp, r, item.value + WordRange * WordRange - Number64(r.words))

ServeDel(item) ==
  Outcome(Absent, Reply(IF Fresh(item) THEN "RESULT_DELETED" ELSE "RESULT_NOT_FOUND"))

ServeGet(item) ==
  IF Fresh(item)
    THEN Outcome(item, [cmd |-> "RESULT_GET", value |-> item.value, cas |-> item.cas])
    ELSE Outcome(Absent, Reply("RESULT_NOT_FOUND"))

\* The response is made and not posted.
ServeVersion(item) == Outcome(item, NoReply)

Operate(item, stamp, r, oom) ==
  CASE r.cmd = "SET"     -> ServeSet(item, stamp, r, oom)
    [] r.cmd = "ADD"     -> ServeAdd(item, stamp, r, oom)
    [] r.cmd = "REPLACE" -> ServeReplace(item, stamp, r)
    [] r.cmd = "APPEND"  -> ServeAppend(item, stamp, r)
    [] r.cmd = "PREPEND" -> ServePrepend(item, stamp, r)
    [] r.cmd = "INCR"    -> ServeIncr(item, stamp, r)
    [] r.cmd = "DECR"    -> ServeDecr(item, stamp, r)
    [] r.cmd = "DEL"     -> ServeDel(item)
    [] r.cmd = "GET"     -> ServeGet(item)
    [] r.cmd = "VERSION" -> ServeVersion(item)

\* Mutant: isAsync is taken the wrong way round.
ServeAsync(item, stamp, r, oom) ==
  LET outcome == Operate(item, stamp, r, oom)
  IN  IF r.async THEN outcome ELSE [outcome EXCEPT !.reply = NoReply]

\* decodeRequest: an asynchronous request gets no reply, unless it is a GET.
Serve(item, stamp, r, oom) ==
  LET outcome == Operate(item, stamp, r, oom)
  IN  IF r.async /\ r.cmd # "GET" THEN [outcome EXCEPT !.reply = NoReply] ELSE outcome

=============================================================================
