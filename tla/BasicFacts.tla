----------------------------- MODULE BasicFacts -----------------------------
(***************************************************************************)
(* Facts about what occurs in a sequence, and how often, for the proofs    *)
(* that an object is in one place: at a position of a queue or of a list;  *)
(* about the least number of a set, which stands in for induction; about   *)
(* functions defined by how one value follows from the one before; and     *)
(* about powers of two.                                                    *)
(***************************************************************************)
EXTENDS Integers, Sequences, SequencesExt, FiniteSetsExt, SequenceTheorems,
        WellFoundedInduction, TLAPS

\* x occurs in s; s has nothing twice
Occurs(x, s) == \E i \in DOMAIN s : s[i] = x
NoRepeats(s) == \A i, j \in DOMAIN s : s[i] = s[j] => i = j

(* What is put at the end occurs, besides what did before. *)
LEMMA AppendOccurs ==
  ASSUME NEW S, NEW s \in Seq(S), NEW x \in S
  PROVE  /\ Append(s, x) \in Seq(S)
         /\ \A y : Occurs(y, Append(s, x)) <=> Occurs(y, s) \/ y = x
         /\ NoRepeats(s) /\ ~Occurs(x, s) => NoRepeats(Append(s, x))
<1>1. /\ Append(s, x) \in Seq(S) /\ Len(s) \in Nat /\ DOMAIN s = 1..Len(s)
      /\ DOMAIN Append(s, x) = 1..(Len(s) + 1)
      /\ \A i \in 1..Len(s) : Append(s, x)[i] = s[i]
      /\ Append(s, x)[Len(s) + 1] = x
  OBVIOUS
<1> DEFINE a == Append(s, x)
<1>2. \A i \in DOMAIN a : i = Len(s) + 1 \/ i \in DOMAIN s
  BY <1>1
<1>3. DOMAIN s \subseteq DOMAIN a /\ Len(s) + 1 \in DOMAIN a
  BY <1>1
<1> HIDE DEF a
<1>4. (\A i \in DOMAIN s : a[i] = s[i]) /\ a[Len(s) + 1] = x /\ a = Append(s, x)
  BY <1>1 DEF a
<1> QED
  BY <1>1, <1>2, <1>3, <1>4, Zenon DEF Occurs, NoRepeats

(* What is taken from the front does not occur in the rest. *)
LEMMA TailOccurs ==
  ASSUME NEW S, NEW s \in Seq(S), s # << >>, NoRepeats(s)
  PROVE  /\ Tail(s) \in Seq(S) /\ Occurs(Head(s), s) /\ Head(s) \in S
         /\ \A y : Occurs(y, Tail(s)) <=> Occurs(y, s) /\ y # Head(s)
         /\ NoRepeats(Tail(s))
<1>1. /\ Tail(s) \in Seq(S) /\ Len(s) \in Nat /\ Len(s) > 0 /\ DOMAIN s = 1..Len(s)
      /\ DOMAIN Tail(s) = 1..(Len(s) - 1) /\ Head(s) = s[1] /\ Head(s) \in S
      /\ \A i \in 1..(Len(s) - 1) : Tail(s)[i] = s[i + 1]
  OBVIOUS
<1>2. Occurs(Head(s), s)
  BY <1>1 DEF Occurs
<1>3. \A y : Occurs(y, Tail(s)) <=> Occurs(y, s) /\ y # Head(s)
  <2> SUFFICES ASSUME NEW y PROVE Occurs(y, Tail(s)) <=> Occurs(y, s) /\ y # Head(s)
    OBVIOUS
  <2>1. ASSUME NEW i \in DOMAIN Tail(s), Tail(s)[i] = y
        PROVE  Occurs(y, s) /\ y # Head(s)
    <3>1. i + 1 \in DOMAIN s /\ 1 \in DOMAIN s /\ s[i + 1] = y /\ i + 1 # 1
      BY <1>1, <2>1
    <3> QED
      BY <1>1, <3>1, Zenon DEF Occurs, NoRepeats
  <2>2. ASSUME NEW i \in DOMAIN s, s[i] = y, y # Head(s)
        PROVE  Occurs(y, Tail(s))
    <3>1. i # 1
      BY <1>1, <2>2
    <3>2. i - 1 \in DOMAIN Tail(s) /\ Tail(s)[i - 1] = s[i]
      BY <1>1, <3>1
    <3> QED
      BY <2>2, <3>2 DEF Occurs
  <2> QED
    BY <2>1, <2>2 DEF Occurs
<1>4. NoRepeats(Tail(s))
  <2> SUFFICES ASSUME NEW i \in DOMAIN Tail(s), NEW j \in DOMAIN Tail(s),
                      Tail(s)[i] = Tail(s)[j]
               PROVE  i = j
    BY DEF NoRepeats
  <2>1. i + 1 \in DOMAIN s /\ j + 1 \in DOMAIN s /\ s[i + 1] = s[j + 1]
    BY <1>1
  <2>2. i + 1 = j + 1
    BY <2>1 DEF NoRepeats
  <2> QED
    BY <1>1, <2>2
<1> QED
  BY <1>1, <1>2, <1>3, <1>4

(* What is put at the front occurs, besides what did before. *)
LEMMA ConsOccurs ==
  ASSUME NEW S, NEW s \in Seq(S), NEW x \in S
  PROVE  /\ <<x>> \o s \in Seq(S)
         /\ \A y : Occurs(y, <<x>> \o s) <=> Occurs(y, s) \/ y = x
         /\ NoRepeats(s) /\ ~Occurs(x, s) => NoRepeats(<<x>> \o s)
<1> DEFINE c == <<x>> \o s
<1>1. /\ c \in Seq(S) /\ Len(s) \in Nat /\ DOMAIN s = 1..Len(s)
      /\ DOMAIN c = 1..(Len(s) + 1)
      /\ c[1] = x
      /\ \A i \in 1..Len(s) : c[i + 1] = s[i]
  OBVIOUS
<1> HIDE DEF c
<1>2. \A i \in DOMAIN c : i = 1 \/ (i - 1 \in DOMAIN s /\ c[i] = s[i - 1])
  <2> SUFFICES ASSUME NEW i \in DOMAIN c, i # 1
               PROVE  i - 1 \in DOMAIN s /\ c[i] = s[i - 1]
    OBVIOUS
  <2>1. i - 1 \in 1..Len(s) /\ (i - 1) + 1 = i
    BY <1>1
  <2> QED
    BY <1>1, <2>1
<1>3. \A i \in DOMAIN s : i + 1 \in DOMAIN c /\ c[i + 1] = s[i]
  BY <1>1
<1>4. 1 \in DOMAIN c
  BY <1>1
<1>5. \A y : Occurs(y, c) <=> Occurs(y, s) \/ y = x
  <2>1. ASSUME NEW y, Occurs(y, c) PROVE Occurs(y, s) \/ y = x
    BY <1>1, <1>2, <2>1 DEF Occurs
  <2>2. ASSUME NEW y, Occurs(y, s) \/ y = x PROVE Occurs(y, c)
    BY <1>1, <1>3, <1>4, <2>2 DEF Occurs
  <2> QED
    BY <2>1, <2>2
<1>6. NoRepeats(s) /\ ~Occurs(x, s) => NoRepeats(c)
  <2> SUFFICES ASSUME NoRepeats(s), ~Occurs(x, s),
                      NEW i \in DOMAIN c, NEW j \in DOMAIN c, c[i] = c[j]
               PROVE  i = j
    BY DEF NoRepeats
  <2>1. CASE i = 1 \/ j = 1
    BY <1>1, <1>2, <2>1 DEF Occurs
  <2>2. CASE i # 1 /\ j # 1
    <3>1. i - 1 \in DOMAIN s /\ j - 1 \in DOMAIN s /\ s[i - 1] = s[j - 1]
      BY <1>2, <2>2
    <3>2. i - 1 = j - 1
      BY <3>1 DEF NoRepeats
    <3> QED
      BY <1>1, <3>2
  <2> QED
    BY <2>1, <2>2
<1> QED
  BY <1>1, <1>5, <1>6 DEF c

-----------------------------------------------------------------------------

(* A non-empty set of natural numbers has a least element...               *)
LEMMA LeastMember ==
  ASSUME NEW S \in SUBSET Nat, S # {}
  PROVE  \E x \in S : \A y \in S : x <= y
<1>1. PICK x \in S : \A y \in S : <<y, x>> \notin OpToRel(<, Nat)
  BY NatLessThanWellFounded, WFMin
<1>2. \A y \in S : ~(y < x)
  BY <1>1 DEF OpToRel
<1>3. \A y \in S : x <= y
  BY <1>2
<1> QED
  BY <1>3

(* ... which Min picks.                                                    *)
LEMMA MinIsMember ==
  ASSUME NEW S \in SUBSET Nat, S # {}
  PROVE  Min(S) \in S
BY LeastMember DEF Min

\* f is a at 0 and goes on as the g's say.
Iterates(S, a, n, g, f) ==
  f \in [0..n -> S] /\ f[0] = a /\ \A i \in 1..n : f[i] = g[i][f[i - 1]]

(* A function of the numbers up to n may be defined by its first value and *)
(* what follows a value.                                                   *)
LEMMA Recursion ==
  ASSUME NEW S, NEW a \in S, NEW n \in Nat, NEW g \in [1..n -> [S -> S]]
  PROVE  \E f : Iterates(S, a, n, g, f)
<1> DEFINE Defines(f, k) == /\ f \in [0..k -> S] /\ f[0] = a
                            /\ \A i \in 1..k : f[i] = g[i][f[i - 1]]
           Bad == {k \in 0..n : ~ \E f : Defines(f, k)}
<1>1. Bad = {}
  <2> SUFFICES ASSUME Bad # {} PROVE FALSE
    OBVIOUS
  <2>1. Bad \in SUBSET Nat
    OBVIOUS
  <2>2. PICK k \in Bad : \A j \in Bad : k <= j
    BY <2>1, LeastMember
  <2>3. k \in 0..n
    OBVIOUS
  <2>4. CASE k = 0
    <3>1. Defines([i \in 0..0 |-> a], 0)
      OBVIOUS
    <3> QED
      BY <2>4, <3>1
  <2>5. CASE k # 0
    <3>1. k - 1 \in 0..n /\ k - 1 \notin Bad
      <4> HIDE DEF Bad
      <4> QED
        BY <2>2, <2>3, <2>5
    <3>2. PICK f : Defines(f, k - 1)
      BY <3>1
    <3> DEFINE e == [i \in 0..k |-> IF i = k THEN g[k][f[k - 1]] ELSE f[i]]
    <3>3. k \in 1..n /\ g[k][f[k - 1]] \in S
      <4>1. k \in 1..n /\ k - 1 \in 0..(k - 1)
        BY <2>3, <2>5
      <4>2. f[k - 1] \in S /\ g[k] \in [S -> S]
        BY <3>2, <4>1
      <4> QED
        BY <4>1, <4>2
    <3>4. \A i \in 0..k : i # k => i \in 0..(k - 1)
      BY <2>3
    <3>5. e \in [0..k -> S]
      BY <3>2, <3>3, <3>4
    <3>6. e[0] = a
      BY <2>3, <2>5, <3>2
    <3>7. ASSUME NEW i \in 1..k PROVE e[i] = g[i][e[i - 1]]
      <4>1. i - 1 \in 0..k /\ i - 1 # k /\ i \in 0..k
        BY <2>3
      <4>2. e[i - 1] = f[i - 1]
        BY <4>1
      <4>3. CASE i = k
        BY <4>1, <4>2, <4>3
      <4>4. CASE i # k
        <5>1. i \in 1..(k - 1)
          BY <2>3, <4>4
        <5>2. e[i] = f[i]
          BY <4>1, <4>4
        <5> QED
          BY <3>2, <4>2, <5>1, <5>2
      <4> QED
        BY <4>3, <4>4
    <3> HIDE DEF e
    <3>8. Defines(e, k)
      BY <3>5, <3>6, <3>7
    <3> QED
      BY <3>8
  <2> QED
    BY <2>4, <2>5
<1>2. PICK f : Defines(f, n)
  BY <1>1
<1> QED
  BY <1>2 DEF Iterates

(* Pushing on a free list: one more element, at the front. *)
LEMMA PushProperties ==
  ASSUME NEW S, NEW s \in Seq(S), NEW e \in S
  PROVE  /\ <<e>> \o s \in Seq(S)
         /\ Len(<<e>> \o s) = Len(s) + 1
         /\ \A i \in 1..(Len(s) + 1) :
              (<<e>> \o s)[i] = IF i = 1 THEN e ELSE s[i - 1]
<1>1. <<e>> \in Seq(S) /\ Len(<<e>>) = 1 /\ <<e>>[1] = e
  OBVIOUS
<1> QED
  BY <1>1, ConcatProperties

(* Unlinking from a free list: every other element stays, in order. *)
LEMMA RemoveAtProperties ==
  ASSUME NEW S, NEW s \in Seq(S), NEW i \in 1..Len(s)
  PROVE  /\ RemoveAt(s, i) \in Seq(S)
         /\ Len(RemoveAt(s, i)) = Len(s) - 1
         /\ \A j \in 1..(Len(s) - 1) :
              RemoveAt(s, i)[j] = IF j < i THEN s[j] ELSE s[j + 1]
<1> DEFINE a == SubSeq(s, 1, i - 1)
           b == SubSeq(s, i + 1, Len(s))
<1>0. Len(s) \in Nat /\ \A j \in 1..Len(s) : s[j] \in S
  OBVIOUS
<1>1. /\ a \in Seq(S)
      /\ Len(a) = i - 1
      /\ \A j \in 1..(i - 1) : a[j] = s[j]
  <2>1. \A j \in 1..(i - 1) : s[j] \in S
    BY <1>0
  <2>2. /\ a \in Seq(S)
        /\ Len(a) = IF 1 <= i - 1 THEN (i - 1) - 1 + 1 ELSE 0
        /\ \A j \in 1..((i - 1) - 1 + 1) : a[j] = s[1 + j - 1]
    BY <2>1, SubSeqProperties
  <2> QED
    BY <2>2
<1>2. /\ b \in Seq(S)
      /\ Len(b) = Len(s) - i
      /\ \A j \in 1..(Len(s) - i) : b[j] = s[i + j]
  <2>1. \A j \in (i + 1)..Len(s) : s[j] \in S
    BY <1>0
  <2>2. /\ b \in Seq(S)
        /\ Len(b) = IF i + 1 <= Len(s) THEN Len(s) - (i + 1) + 1 ELSE 0
        /\ \A j \in 1..(Len(s) - (i + 1) + 1) : b[j] = s[(i + 1) + j - 1]
    BY <1>0, <2>1, SubSeqProperties
  <2> QED
    BY <1>0, <2>2
<1>3. RemoveAt(s, i) = a \o b
  BY DEF RemoveAt
<1> HIDE DEF a, b
<1>4. /\ a \o b \in Seq(S)
      /\ Len(a \o b) = Len(a) + Len(b)
      /\ \A j \in 1..(Len(a) + Len(b)) :
           (a \o b)[j] = IF j <= Len(a) THEN a[j] ELSE b[j - Len(a)]
  BY <1>1, <1>2, ConcatProperties
<1>5. ASSUME NEW j \in 1..(Len(s) - 1)
      PROVE  RemoveAt(s, i)[j] = IF j < i THEN s[j] ELSE s[j + 1]
  <2>1. CASE j < i
    BY <1>0, <1>1, <1>2, <1>3, <1>4, <2>1
  <2>2. CASE ~(j < i)
    <3>1. j - Len(a) \in 1..(Len(s) - i) /\ i + (j - Len(a)) = j + 1
      BY <1>0, <1>1, <2>2
    <3>2. RemoveAt(s, i)[j] = b[j - Len(a)]
      BY <1>0, <1>1, <1>2, <1>3, <1>4, <2>2
    <3> QED
      BY <1>2, <2>2, <3>1, <3>2
  <2> QED
    BY <2>1, <2>2
<1> QED
  BY <1>0, <1>1, <1>2, <1>3, <1>4, <1>5

-----------------------------------------------------------------------------
(* Powers of two, and the matrix of free lists they span                   *)

(* The powers of two a size can have.  The provers evaluate each of them,  *)
(* but have no law for 2^n.                                                *)
LEMMA Doubling ==
  /\ 2^0 = 1
  /\ \A n \in 0..30 : 2^n \in Nat \ {0}
  /\ \A n \in 0..29 : 2^(n + 1) = 2 * 2^n
<1> DEFINE P(n) == 2^n
<1>1. /\ P(0) = 1 /\ P(1) = 2 /\ P(2) = 4 /\ P(3) = 8 /\ P(4) = 16 /\ P(5) = 32
      /\ P(6) = 64 /\ P(7) = 128 /\ P(8) = 256 /\ P(9) = 512 /\ P(10) = 1024
      /\ P(11) = 2048 /\ P(12) = 4096 /\ P(13) = 8192 /\ P(14) = 16384
      /\ P(15) = 32768 /\ P(16) = 65536 /\ P(17) = 131072 /\ P(18) = 262144
      /\ P(19) = 524288 /\ P(20) = 1048576 /\ P(21) = 2097152 /\ P(22) = 4194304
      /\ P(23) = 8388608 /\ P(24) = 16777216 /\ P(25) = 33554432
      /\ P(26) = 67108864 /\ P(27) = 134217728 /\ P(28) = 268435456
      /\ P(29) = 536870912 /\ P(30) = 1073741824
  OBVIOUS
<1> HIDE DEF P
<1>2. \A n \in 0..29 : P(n + 1) = 2 * P(n)
  BY <1>1
<1>3. \A n \in 0..30 : P(n) \in Nat \ {0}
  BY <1>1
<1> QED
  BY <1>1, <1>2, <1>3 DEF P

(* The next power is at least the double.                                  *)
LEMMA PowersGrow ==
  ASSUME NEW m \in 0..30, NEW n \in 0..30, m < n
  PROVE  2 * 2^m <= 2^n
<1> DEFINE P(k) == 2^k
<1>1. /\ \A k \in 0..30 : P(k) \in Nat \ {0}
      /\ \A k \in 0..29 : P(k + 1) = 2 * P(k)
  BY Doubling
<1> HIDE DEF P
<1> DEFINE S == {k \in (m + 1)..30 : ~(2 * P(m) <= P(k))}
<1>2. S = {}
  <2> SUFFICES ASSUME S # {} PROVE FALSE
    OBVIOUS
  <2>1. S \in SUBSET Nat
    OBVIOUS
  <2>2. PICK k \in S : \A j \in S : k <= j
    BY <2>1, LeastMember
  <2>3. k # m + 1
    BY <1>1
  <2>4. k - 1 \in (m + 1)..30
    BY <2>3
  <2>5. k - 1 \notin S
    BY <2>1, <2>2
  <2>6. P(k) = 2 * P(k - 1)
    <3>1. k - 1 \in 0..29 /\ (k - 1) + 1 = k
      BY <2>4
    <3> QED
      BY <1>1, <3>1
  <2> QED
    BY <1>1, <2>4, <2>5, <2>6
<1>3. 2 * P(m) <= P(n)
  BY <1>2
<1> QED
  BY <1>3 DEF P

\* The position of the highest bit of a number.
HighBit(v) == CHOOSE n \in 0..30 : 2^n <= v /\ v < 2^(n + 1)

(* A number is between the power of its highest bit and the double.        *)
LEMMA HighestBit ==
  ASSUME NEW v \in Nat \ {0}, v < 2^30
  PROVE  /\ HighBit(v) \in 0..29
         /\ 2^HighBit(v) <= v
         /\ v < 2 * 2^HighBit(v)
<1> DEFINE P(k) == 2^k
<1>1. /\ P(0) = 1
      /\ \A k \in 0..30 : P(k) \in Nat \ {0}
      /\ \A k \in 0..29 : P(k + 1) = 2 * P(k)
  BY Doubling
<1>2. v < P(30)
  OBVIOUS
<1>3. HighBit(v) = CHOOSE n \in 0..30 : P(n) <= v /\ v < P(n + 1)
  BY DEF HighBit
<1> HIDE DEF P
<1>4. \E n \in 0..30 : P(n) <= v /\ v < P(n + 1)
  <2> DEFINE S == {k \in 0..29 : v < P(k + 1)}
  <2>1. 29 \in S /\ S \in SUBSET Nat
    BY <1>2
  <2>2. PICK k \in S : \A j \in S : k <= j
    BY <2>1, LeastMember
  <2>3. CASE k = 0
    BY <1>1, <2>2, <2>3
  <2>4. CASE k # 0
    <3>1. k - 1 \in 0..29 /\ k - 1 \notin S /\ (k - 1) + 1 = k
      BY <2>1, <2>2, <2>4
    <3> QED
      BY <1>1, <2>2, <3>1
  <2> QED
    BY <2>3, <2>4
<1>5. HighBit(v) \in 0..30 /\ P(HighBit(v)) <= v /\ v < P(HighBit(v) + 1)
  BY <1>3, <1>4
<1>6. HighBit(v) # 30
  BY <1>1, <1>2, <1>5
<1>7. HighBit(v) \in 0..29 /\ P(HighBit(v) + 1) = 2 * P(HighBit(v))
  BY <1>1, <1>5, <1>6
<1> QED
  BY <1>5, <1>7 DEF P

(* A row of w numbers cut into s slots: the slots keep the order of the    *)
(* numbers, and none lies in the next row.                                 *)
LEMMA SlotsOfRow ==
  ASSUME NEW s \in Nat \ {0}, NEW w \in Nat \ {0}, NEW x \in Nat, x < w,
         w < s \/ w % s = 0
  PROVE  LET div == w \div s
         IN  /\ div = 0 \/ div \in Nat \ {0}
             /\ div # 0 => /\ x \div div \in 0..(s - 1)
                           /\ \A y \in 0..x : y \div div <= x \div div
<1> DEFINE div == w \div s
<1>1. s \in Nat \ {0}
  OBVIOUS
<1>2. PICK d \in Nat : d = w \div s
  BY <1>1
<1>3. w = s * d + (w % s) /\ w % s \in 0..(s - 1)
  BY <1>1, <1>2
<1>4. ASSUME d # 0
      PROVE  x \div d \in 0..(s - 1) /\ \A y \in 0..x : y \div d <= x \div d
  <2>1. w % s = 0
    <3>1. s * d >= s
      BY <1>1, <1>2, <1>4
    <3> QED
      BY <1>1, <1>3, <3>1
  <2>2. w = s * d
    BY <1>1, <1>2, <1>3, <2>1
  <2>3. ASSUME NEW y \in 0..x PROVE y \div d <= x \div d
    <3>1. PICK a, b : a = y \div d /\ b = x \div d
      OBVIOUS
    <3>2. a \in Nat /\ b \in Nat
      BY <1>2, <1>4, <3>1
    <3>3. d * a <= y /\ x < d * b + d
      BY <1>2, <1>4, <3>1
    <3>4. SUFFICES ASSUME b + 1 <= a PROVE FALSE
      BY <3>1, <3>2
    <3>5. d * (b + 1) <= d * a
      BY <1>2, <3>2, <3>4
    <3>6. d * (b + 1) = d * b + d
      BY <1>2, <3>2
    <3> QED
      BY <1>2, <3>2, <3>3, <3>5, <3>6
  <2>4. x \div d \in 0..(s - 1)
    <3>1. PICK b : b = x \div d
      OBVIOUS
    <3>2. b \in Nat /\ d * b <= x
      BY <1>2, <1>4, <3>1
    <3>3. SUFFICES ASSUME s <= b PROVE FALSE
      BY <1>1, <3>1, <3>2
    <3>4. s * d <= d * b
      BY <1>1, <1>2, <3>2, <3>3
    <3> QED
      BY <1>1, <1>2, <2>2, <3>2, <3>4
  <2> QED
    BY <2>3, <2>4
<1> QED
  BY <1>1, <1>2, <1>4

(* Positions of a matrix with b rows of s slots, row by row.               *)
LEMMA RowMajor ==
  ASSUME NEW s \in Nat \ {0}, NEW b \in Nat, NEW l \in 0..(b - 1), NEW t \in 0..(s - 1)
  PROVE  l * s + t \in 0..(b * s - 1)
<1>1. l * s \in Nat /\ b * s \in Nat
  OBVIOUS
<1>2. l * s + s = (l + 1) * s
  OBVIOUS
<1>3. (l + 1) * s <= b * s
  OBVIOUS
<1> QED
  BY <1>1, <1>2, <1>3
=============================================================================
