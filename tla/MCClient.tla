------------------------------ MODULE MCClient ------------------------------
(* Instances of Client for TLC. *)
EXTENDS Client

CONSTANTS k, j   \* model values for keys

Sync(cmd, data)  == Call(cmd, k, data, 0, FALSE)
Async(cmd, data) == Call(cmd, k, data, 0, TRUE)
CasOf(casUnique, data) == Call("CAS", k, data, casUnique, FALSE)

TwoKeys == <<k, j>>

\* Every call that waits, and one that does not.
CalmCalls ==
  {Sync(cmd, 1) : cmd \in {"SET", "ADD", "REPLACE", "APPEND", "PREPEND", "INCR",
                           "DECR", "DEL", "GET", "VERSION"}}
    \cup {CasOf(1, 4), Async("SET", 1)}

\* Everything a client may call.
RoughCalls ==
  {Sync(cmd, 1) : cmd \in {"SET", "ADD", "REPLACE", "APPEND", "PREPEND", "INCR",
                           "DECR", "DEL", "GET", "VERSION"}} \cup {CasOf(1, 4)}
=============================================================================
