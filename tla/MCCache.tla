------------------------------ MODULE MCCache ------------------------------
(* Instances of Cache for TLC. *)
EXTENDS Cache

CONSTANTS ka, kb, kc, kz   \* model values for keys

\* Two bins: kz hashes to one, every other key to the other.
MCHashOf == [key \in Keys |-> IF key = kz THEN 1 ELSE 0]

\* Keys of one bin may be exchanged.
Colliding == Permutations(Keys \ {kz})

AllOps   == {"get", "set", "del", "add", "replace", "append", "prepend", "cas", "incr",
             "decr"}
ExactOps == {"get", "set", "del", "add", "replace", "prepend", "cas", "incr", "decr"}

\* A digit, and a longer value that is no number.
ShortLong == {<<1>>, <<0, 2, 1>>}

\* Appended to the empty value, the second reaches back over the whole key, and the
\* third over the header.
EmptyLong == {<<>>, <<0, 2>>, <<0, 2, 1>>}

\* What an operation does depends on all but the last answer, and the properties
\* checked with this view do not look at the answer before a step.
AllButAnswer == <<cache, time, clock, ended, spelled, crashed>>
=============================================================================
