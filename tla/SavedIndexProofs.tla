-------------------------- MODULE SavedIndexProofs --------------------------
(***************************************************************************)
(* The theorems about fanout trees and saved indexes, for all key spaces,  *)
(* fanouts, depths and loads: the nodes in use tile the space (FanoutInv), *)
(* the index built of them routes every key to the leaf that has it, and   *)
(* updates, saving, loading and copies keep it so (IInv), with exceptions. *)
(***************************************************************************)
EXTENDS SavedIndex, FiniteSetTheorems, FunctionTheorems, WellFoundedInduction, TLAPS

-----------------------------------------------------------------------------
(* Powers of two.                                                          *)

\* A set of natural numbers that is not empty has a least element.
LEMMA LeastElement ==
    ASSUME NEW S \in SUBSET Nat, S # {}
    PROVE  \E i \in S : \A j \in S : i <= j
<1>1. PICK i \in S : \A j \in S : ~(<<j, i>> \in OpToRel(<, Nat))
  BY NatLessThanWellFounded, WFMin
<1> SUFFICES ASSUME NEW j \in S, j < i PROVE FALSE
  OBVIOUS
<1>2. <<j, i>> \in OpToRel(<, Nat)
  BY DEF OpToRel
<1> QED
  BY <1>1, <1>2

\* The next power is twice the last one: the sets that hold a new element are as
\* many as those that do not.
LEMMA PowerDoubles == ASSUME NEW n \in Nat PROVE 2^(n + 1) = 2^n + 2^n
<1> DEFINE old == SUBSET (1 .. n)
           new == {s \cup {n + 1} : s \in old}
           f == [s \in old |-> s \cup {n + 1}]
<1>1. /\ IsFiniteSet(1 .. n) /\ Cardinality(1 .. n) = n
      /\ IsFiniteSet(1 .. (n + 1)) /\ Cardinality(1 .. (n + 1)) = n + 1
  BY FS_Interval
<1>2. IsFiniteSet(old) /\ Cardinality(old) = 2^n
  BY <1>1, FS_SUBSET
<1>3. Cardinality(SUBSET (1 .. (n + 1))) = 2^(n + 1)
  BY <1>1, FS_SUBSET
<1>4. f \in Bijection(old, new)
  <2>1. f \in [old -> new]
    OBVIOUS
  <2>2. ASSUME NEW s \in old, NEW t \in old, f[s] = f[t] PROVE s = t
    <3>1. s \cup {n + 1} = t \cup {n + 1} /\ n + 1 \notin s /\ n + 1 \notin t
      BY <2>2
    <3> QED
      BY <3>1
  <2>3. \A u \in new : \E s \in old : f[s] = u
    OBVIOUS
  <2> QED
    BY <2>1, <2>2, <2>3 DEF Bijection, Injection, Surjection, IsInjective
<1>5. IsFiniteSet(new) /\ Cardinality(new) = Cardinality(old)
  BY <1>2, <1>4, FS_Bijection DEF ExistsBijection
<1>6. old \cap new = {}
  <2> SUFFICES ASSUME NEW s \in old, NEW t \in old, s = t \cup {n + 1} PROVE FALSE
    OBVIOUS
  <2> QED
    OBVIOUS
<1>7. old \cup new = SUBSET (1 .. (n + 1))
  <2>1. ASSUME NEW s \in SUBSET (1 .. (n + 1)) PROVE s \in old \cup new
    <3>1. CASE n + 1 \notin s
      <4>1. \A i \in s : i \in 1 .. n
        BY <3>1
      <4> QED
        BY <4>1
    <3>2. CASE n + 1 \in s
      <4>1. s \ {n + 1} \in old
        OBVIOUS
      <4>2. s = (s \ {n + 1}) \cup {n + 1}
        BY <3>2
      <4> QED
        BY <4>1, <4>2
    <3> QED
      BY <3>1, <3>2
  <2>2. ASSUME NEW s \in old \cup new PROVE s \in SUBSET (1 .. (n + 1))
    OBVIOUS
  <2> QED
    BY <2>1, <2>2
<1>8. Cardinality(old \cap new) = 0
  BY <1>6, FS_EmptySet
<1>9. Cardinality(old) \in Nat
  BY <1>2, FS_CardinalityType
<1> HIDE DEF old, new, f
<1>10. Cardinality(old \cup new) = Cardinality(old) + Cardinality(new) - 0
  BY <1>2, <1>5, <1>8, FS_Union
<1> QED
  BY <1>2, <1>3, <1>5, <1>7, <1>9, <1>10

\* Powers of two are positive, and the first is one.
LEMMA PowerFacts ==
    /\ 2^0 = 1
    /\ \A n \in Nat : 2^n \in Nat /\ 2^n > 0 /\ 2^(n + 1) = 2 * 2^n
<1>1. ASSUME NEW n \in Nat PROVE 2^n \in Nat /\ 2^n > 0 /\ 2^(n + 1) = 2 * 2^n
  <2>1. /\ IsFiniteSet(1 .. n) /\ Cardinality(1 .. n) = n
    BY FS_Interval
  <2>2. IsFiniteSet(SUBSET (1 .. n)) /\ Cardinality(SUBSET (1 .. n)) = 2^n
    BY <2>1, FS_SUBSET
  <2>3. 2^n \in Nat /\ 2^n # 0
    BY <2>2, FS_CardinalityType, FS_EmptySet
  <2>4. 2^(n + 1) = 2^n + 2^n
    BY PowerDoubles
  <2> QED
    BY <2>3, <2>4
<1>2. 2^0 = 1
  <2>1. IsFiniteSet({}) /\ Cardinality({}) = 0
    BY FS_EmptySet
  <2>2. Cardinality(SUBSET {}) = 2^0
    BY <2>1, FS_SUBSET
  <2>3. SUBSET {} = {{}}
    OBVIOUS
  <2> QED
    BY <2>2, <2>3, FS_Singleton
<1> QED
  BY <1>1, <1>2

\* Powers multiply as their exponents add.
LEMMA PowerOfSum ==
    ASSUME NEW a \in Nat, NEW b \in Nat
    PROVE  2^(a + b) = 2^a * 2^b
<1> DEFINE wrong == {j \in Nat : 2^(a + j) # 2^a * 2^j}
<1> SUFFICES ASSUME wrong # {} PROVE FALSE
  OBVIOUS
<1>1. PICK i \in wrong : \A j \in wrong : i <= j
  BY LeastElement
<1>2. i # 0
  <2>1. a + 0 = a /\ 2^a * 1 = 2^a
    BY PowerFacts
  <2> QED
    BY <2>1, PowerFacts
<1>3. i - 1 \in Nat /\ i - 1 \notin wrong
  BY <1>1, <1>2
<1>4. 2^(a + (i - 1)) = 2^a * 2^(i - 1)
  BY <1>3
<1>5. (a + (i - 1)) + 1 = a + i /\ (i - 1) + 1 = i /\ a + (i - 1) \in Nat
  BY <1>3
<1>6. 2^(a + i) = 2 * 2^(a + (i - 1)) /\ 2^i = 2 * 2^(i - 1)
  BY <1>3, <1>5, PowerFacts
<1>7. \A x, y \in Nat : 2 * (x * y) = x * (2 * y)
  OBVIOUS
<1>8. 2^a * 2^i = 2 * (2^a * 2^(i - 1))
  BY <1>3, <1>6, <1>7, PowerFacts
<1> QED
  BY <1>1, <1>4, <1>6, <1>8

\* A power exceeds its exponent.
LEMMA PowerExceeds == ASSUME NEW n \in Nat PROVE n < 2^n
<1> DEFINE wrong == {j \in Nat : ~(j < 2^j)}
<1> SUFFICES ASSUME wrong # {} PROVE FALSE
  OBVIOUS
<1>1. PICK i \in wrong : \A j \in wrong : i <= j
  BY LeastElement
<1>2. i # 0
  BY PowerFacts
<1>3. i - 1 \in Nat /\ i - 1 \notin wrong
  BY <1>1, <1>2
<1>4. i - 1 < 2^(i - 1) /\ (i - 1) + 1 = i
  BY <1>3
<1>5. 2^i = 2 * 2^(i - 1) /\ 2^(i - 1) \in Nat
  BY <1>3, <1>4, PowerFacts
<1>6. i \in Nat /\ ~(i < 2^i)
  BY <1>1
<1>7. \A x, y, z \in Nat : x # 0 /\ x - 1 < y /\ z = 2 * y => x < z
  OBVIOUS
<1>8. 2^i \in Nat
  BY <1>6, PowerFacts
<1> QED
  BY <1>2, <1>4, <1>5, <1>6, <1>7, <1>8

\* A greater exponent gives a multiple, greater by a factor of two at least.
LEMMA PowerGrows ==
    ASSUME NEW a \in Nat, NEW b \in Nat, a < b
    PROVE  2^b = 2^a * 2^(b - a) /\ 2^(b - a) >= 2 /\ 2^a < 2^b
<1>1. b - a \in Nat /\ a + (b - a) = b /\ b - a >= 1
  OBVIOUS
<1>2. 2^b = 2^a * 2^(b - a)
  BY <1>1, PowerOfSum
<1>3. b - a < 2^(b - a) /\ 2^(b - a) \in Nat /\ 2^a \in Nat /\ 2^a > 0
  BY <1>1, PowerExceeds, PowerFacts
<1>4. \A x, y \in Nat : x > 0 /\ y >= 2 => x < x * y
  OBVIOUS
<1> QED
  BY <1>1, <1>2, <1>3, <1>4

-----------------------------------------------------------------------------
(* Where the nodes of a fanout tree lie.                                   *)

\* The cells of a node are those from Lo to Hi, exclusive.
Lo(n) == n[2] * Width(n[1])
Hi(n) == (n[2] + 1) * Width(n[1])

AllNodes(d) == UNION {NodesOf(j) : j \in 0 .. d}

Holds(n, p) == Lo(n) <= p /\ p < Hi(n)

\* Every cell is in one node of U.
Tiled(U, d) ==
    /\ U \subseteq AllNodes(d)
    /\ \A p \in 0 .. (Span - 1) :
           /\ \E n \in U : Holds(n, p)
           /\ \A m, n \in U : Holds(m, p) /\ Holds(n, p) => m = n

\* Dividing a multiple.
LEMMA DivisionIsExact ==
    ASSUME NEW a \in Nat, NEW b \in Nat, b > 0
    PROVE  (a * b) \div b = a /\ (a * b) % b = 0
<1>1. a * b \in Nat
  OBVIOUS
<1>2. \A x \in Nat : x \div b \in Nat /\ x % b \in 0 .. (b - 1) /\ x = b * (x \div b) + (x % b)
  OBVIOUS
<1>3. \A q \in Nat, r \in 0 .. (b - 1) : a * b = b * q + r => q = a /\ r = 0
  <2> SUFFICES ASSUME NEW q \in Nat, NEW r \in 0 .. (b - 1), a * b = b * q + r
               PROVE  q = a /\ r = 0
    OBVIOUS
  <2>1. ~(q < a)
    <3> SUFFICES ASSUME q < a PROVE FALSE
      OBVIOUS
    <3>1. PICK c \in Nat : a = q + 1 + c
      <4>1. a - q - 1 \in Nat /\ a = q + 1 + (a - q - 1)
        OBVIOUS
      <4> QED
        BY <4>1
    <3>2. a * b = q * b + b + c * b /\ c * b >= 0
      BY <3>1
    <3> QED
      BY <3>2
  <2>2. ~(q > a)
    <3> SUFFICES ASSUME q > a PROVE FALSE
      OBVIOUS
    <3>1. PICK c \in Nat : q = a + 1 + c
      <4>1. q - a - 1 \in Nat /\ q = a + 1 + (q - a - 1)
        OBVIOUS
      <4> QED
        BY <4>1
    <3>2. b * q = a * b + b + c * b /\ c * b >= 0
      BY <3>1
    <3> QED
      BY <3>2
  <2> QED
    BY <2>1, <2>2
<1> QED
  BY <1>1, <1>2, <1>3

\* The levels divide the space exactly, each twice as finely as the one above.
LEMMA WidthFacts ==
    /\ Span \in Nat /\ Span > 0 /\ MaxLevel \in Nat
    /\ \A j \in 0 .. MaxLevel :
           /\ Width(j) \in Nat /\ Width(j) > 0 /\ Span = 2^j * Width(j)
           /\ Span % 2^j = 0
<1>1. MaxLevel \in Nat /\ Span \in Nat /\ Span > 0 /\ Span % 2^MaxLevel = 0
  BY SpanIsDivisible
<1> SUFFICES ASSUME NEW j \in 0 .. MaxLevel
             PROVE  /\ Width(j) \in Nat /\ Width(j) > 0 /\ Span = 2^j * Width(j)
                    /\ Span % 2^j = 0
  BY <1>1
<1>2. j \in Nat /\ MaxLevel - j \in Nat /\ j + (MaxLevel - j) = MaxLevel
  BY <1>1
<1> DEFINE a == 2^j
           b == 2^(MaxLevel - j)
           q == Span \div 2^MaxLevel
<1>3. a \in Nat /\ a > 0 /\ b \in Nat /\ b > 0 /\ 2^MaxLevel = a * b
  <2>1. a \in Nat /\ a > 0 /\ b \in Nat /\ b > 0
    BY <1>2, PowerFacts
  <2>2. 2^(j + (MaxLevel - j)) = a * b
    BY <1>2, PowerOfSum
  <2> QED
    BY <1>2, <2>1, <2>2
<1>4. Span % (a * b) = 0 /\ a * b \in Nat /\ a * b > 0
  <2>1. \A x, y \in Nat : x > 0 /\ y > 0 => x * y \in Nat /\ x * y > 0
    OBVIOUS
  <2> QED
    BY <1>1, <1>3, <2>1
<1>5. q \in Nat /\ Span = q * (a * b)
  <2>1. \A x, y \in Nat : y > 0 /\ x % y = 0 => x \div y \in Nat /\ x = (x \div y) * y
    OBVIOUS
  <2> QED
    BY <1>1, <1>3, <1>4, <2>1
<1> HIDE DEF q
<1>6. q * (a * b) = (q * b) * a /\ q * b \in Nat
  <2>1. \A x, y, z \in Nat : x * (y * z) = (x * z) * y /\ x * z \in Nat
    OBVIOUS
  <2> QED
    BY <1>3, <1>5, <2>1
<1>7. Span \div a = q * b /\ Span % a = 0
  BY <1>3, <1>5, <1>6, DivisionIsExact
<1>8. Width(j) = q * b
  BY <1>7 DEF Width
<1>9. q * b > 0
  BY <1>1, <1>3, <1>5, <1>6
<1> QED
  BY <1>3, <1>5, <1>6, <1>7, <1>8, <1>9

\* The width of a part on a level above another.
LEMMA WidthScales ==
    ASSUME NEW d \in 0 .. MaxLevel, NEW j \in 0 .. d
    PROVE  Width(j) = 2^(d - j) * Width(d)
<1>1. /\ d \in Nat /\ j \in Nat /\ d - j \in Nat /\ j + (d - j) = d /\ j \in 0 .. MaxLevel
  BY WidthFacts
<1> DEFINE a == 2^j
           b == 2^(d - j)
           u == Width(j)
           v == Width(d)
<1>2. a \in Nat /\ a > 0 /\ b \in Nat /\ 2^d = a * b
  BY <1>1, PowerFacts, PowerOfSum
<1>3. u \in Nat /\ v \in Nat /\ Span = a * u /\ Span = 2^d * v
  BY <1>1, WidthFacts
<1> HIDE DEF a, b, u, v
<1>4. a * u = (a * b) * v
  BY <1>2, <1>3
<1>5. (a * b) * v = a * (b * v) /\ b * v \in Nat
  BY <1>2, <1>3
<1>6. \A x, y \in Nat : a * x = a * y => x = y
  BY <1>2
<1>7. u = b * v
  BY <1>3, <1>4, <1>5, <1>6
<1> QED
  BY <1>7 DEF b, u, v

\* A part and its halves.
LEMMA WidthHalves ==
    ASSUME NEW j \in 0 .. MaxLevel, j < MaxLevel
    PROVE  Width(j) = 2 * Width(j + 1)
<1>1. j + 1 \in 0 .. MaxLevel /\ j \in 0 .. (j + 1) /\ (j + 1) - j = 1 /\ 0 + 1 = 1
  BY WidthFacts
<1>2. 2^1 = 2
  BY <1>1, PowerFacts
<1> QED
  BY <1>1, <1>2, WidthScales

\* What a node of a fanout tree is.
LEMMA NodeIsPart ==
    ASSUME NEW d \in 0 .. MaxLevel, NEW n \in AllNodes(d)
    PROVE  /\ n = <<n[1], n[2]>> /\ n[1] \in 0 .. d /\ n[2] \in 0 .. (2^n[1] - 1)
           /\ n[1] \in 0 .. MaxLevel /\ n \in NodesOf(n[1])
<1>1. PICK j \in 0 .. d : n \in NodesOf(j)
  BY DEF AllNodes
<1>2. PICK i \in 0 .. (2^j - 1) : n = <<j, i>>
  BY <1>1, Zenon DEF NodesOf
<1>3. j \in 0 .. MaxLevel
  BY WidthFacts
<1> QED
  BY <1>1, <1>2, <1>3

\* Nodes lie in the space, and end where others of their level start.
LEMMA NodeLies ==
    ASSUME NEW d \in 0 .. MaxLevel, NEW n \in AllNodes(d)
    PROVE  /\ Lo(n) \in Nat /\ Hi(n) \in Nat /\ Lo(n) < Hi(n) /\ Hi(n) <= Span
           /\ Lo(n) = 0 <=> n[2] = 0
           /\ Hi(n) = Span <=> n[2] = 2^n[1] - 1
<1> DEFINE i == n[2]
           w == Width(n[1])
           c == 2^n[1]
<1>1. n[1] \in 0 .. MaxLevel /\ i \in 0 .. (c - 1) /\ n[1] \in Nat
  BY NodeIsPart, WidthFacts
<1>2. w \in Nat /\ w > 0 /\ Span = c * w /\ c \in Nat
  BY <1>1, WidthFacts, PowerFacts
<1>3. Lo(n) = i * w /\ Hi(n) = (i + 1) * w
  BY DEF Lo, Hi
<1> HIDE DEF i, w, c
<1>4. (i + 1) * w = i * w + w /\ i * w \in Nat
  BY <1>1, <1>2
<1>5. i * w = 0 <=> i = 0
  BY <1>1, <1>2
<1>6. c * w = (i + 1) * w + (c - (i + 1)) * w /\ (c - (i + 1)) * w >= 0
  BY <1>1, <1>2
<1>7. (c - (i + 1)) * w = 0 <=> i = c - 1
  <2>1. c - (i + 1) \in Nat /\ (c - (i + 1) = 0 <=> i = c - 1)
    BY <1>1, <1>2
  <2>2. \A x \in Nat : x * w = 0 <=> x = 0
    BY <1>2
  <2> QED
    BY <2>1, <2>2
<1>8. (c - (i + 1)) * w \in Int
  BY <1>1, <1>2
<1> QED
  BY <1>2, <1>3, <1>4, <1>5, <1>6, <1>7, <1>8 DEF i, c

\* A node takes up the parts of the last level from Start to End.
LEMMA NodeTakesParts ==
    ASSUME NEW d \in 0 .. MaxLevel, NEW n \in AllNodes(d)
    PROVE  LET Start == n[2] * 2^(d - n[1])
               End == (n[2] + 1) * 2^(d - n[1])
           IN  /\ Start \in Nat /\ End \in Nat /\ End = Start + 2^(d - n[1])
               /\ Start * Width(d) = Lo(n) /\ End * Width(d) = Hi(n)
<1> DEFINE i == n[2]
           b == 2^(d - n[1])
           v == Width(d)
<1>1. n[1] \in 0 .. d /\ i \in Nat /\ d - n[1] \in Nat
  BY NodeIsPart, WidthFacts
<1>2. b \in Nat /\ v \in Nat /\ Width(n[1]) = b * v
  BY <1>1, WidthFacts, WidthScales, PowerFacts
<1>3. Lo(n) = i * (b * v) /\ Hi(n) = (i + 1) * (b * v)
  BY <1>2 DEF Lo, Hi
<1> HIDE DEF i, b, v
<1>4. \A x \in Nat : x * b \in Nat /\ x * (b * v) = (x * b) * v
  BY <1>2
<1>5. (i + 1) * b = i * b + b /\ i + 1 \in Nat
  BY <1>1, <1>2
<1> QED
  BY <1>1, <1>3, <1>4, <1>5 DEF i, b, v

\* The part of a level that a cell is in.
LEMMA PartOfCell ==
    ASSUME NEW d \in 0 .. MaxLevel, NEW p \in 0 .. (Span - 1)
    PROVE  \E n \in NodesOf(d) :
               Holds(n, p) /\ \A m \in NodesOf(d) : Holds(m, p) => m = n
<1> DEFINE w == Width(d)
           c == 2^d
           i == p \div w
<1>1. w \in Nat /\ w > 0 /\ c \in Nat /\ Span = c * w /\ p \in Nat /\ p < c * w
  BY WidthFacts, PowerFacts
<1>2. i \in Nat /\ i * w <= p /\ p < (i + 1) * w
  <2>1. \A x, y \in Nat : y > 0 => x \div y \in Nat /\ (x \div y) * y <= x
                                   /\ x < ((x \div y) + 1) * y
    OBVIOUS
  <2> QED
    BY <1>1, <2>1
<1> HIDE DEF w, c, i
<1>3. \A x, y \in Nat : x * w <= p /\ p < (y + 1) * w => x <= y
  <2> SUFFICES ASSUME NEW x \in Nat, NEW y \in Nat, x * w <= p, p < (y + 1) * w, x > y
               PROVE  FALSE
    BY <1>1
  <2>1. x - y - 1 \in Nat /\ x = (y + 1) + (x - y - 1)
    OBVIOUS
  <2>2. x * w = (y + 1) * w + (x - y - 1) * w /\ (x - y - 1) * w >= 0
    BY <1>1, <2>1
  <2>3. x * w \in Nat /\ (y + 1) * w \in Nat /\ (x - y - 1) * w \in Nat
    BY <1>1, <2>1
  <2> QED
    BY <1>1, <2>2, <2>3
<1>4. i < c
  <2> SUFFICES ASSUME c <= i PROVE FALSE
    BY <1>1, <1>2
  <2>1. i * w = c * w + (i - c) * w /\ (i - c) * w >= 0
    BY <1>1, <1>2
  <2>2. i * w \in Nat /\ c * w \in Nat /\ (i - c) * w \in Int
    BY <1>1, <1>2
  <2> QED
    BY <1>1, <1>2, <2>1, <2>2
<1>5. \A m \in NodesOf(d) :
          \E j \in Nat : m = <<d, j>> /\ Lo(m) = j * w /\ Hi(m) = (j + 1) * w
  <2> SUFFICES ASSUME NEW m \in NodesOf(d)
               PROVE  \E j \in Nat : m = <<d, j>> /\ Lo(m) = j * w /\ Hi(m) = (j + 1) * w
    OBVIOUS
  <2>1. PICK j \in 0 .. (2^d - 1) : m = <<d, j>>
    BY Zenon DEF NodesOf
  <2> QED
    BY <2>1 DEF Lo, Hi, w
<1>6. <<d, i>> \in NodesOf(d)
  <2>1. i \in 0 .. (2^d - 1)
    BY <1>1, <1>2, <1>4 DEF c
  <2> QED
    BY <2>1 DEF NodesOf
<1>7. Holds(<<d, i>>, p)
  BY <1>2 DEF Holds, Lo, Hi, w
<1>8. ASSUME NEW m \in NodesOf(d), Holds(m, p) PROVE m = <<d, i>>
  <2>1. PICK j \in Nat : m = <<d, j>> /\ Lo(m) = j * w /\ Hi(m) = (j + 1) * w
    BY <1>5
  <2>2. j <= i /\ i <= j
    BY <1>2, <1>3, <1>8, <2>1 DEF Holds
  <2> QED
    BY <1>2, <2>1, <2>2
<1> QED
  BY <1>6, <1>7, <1>8

\* The nodes of a level.
LEMMA LevelIsTiled ==
    ASSUME NEW d \in 0 .. MaxLevel
    PROVE  Tiled(NodesOf(d), d)
<1>1. NodesOf(d) \subseteq AllNodes(d)
  BY WidthFacts DEF AllNodes
<1>2. ASSUME NEW p \in 0 .. (Span - 1)
      PROVE  /\ \E n \in NodesOf(d) : Holds(n, p)
             /\ \A m, n \in NodesOf(d) : Holds(m, p) /\ Holds(n, p) => m = n
  BY PartOfCell
<1> QED
  BY <1>1, <1>2 DEF Tiled

\* The halves of a node divide its cells.
LEMMA HalvesFacts ==
    ASSUME NEW j \in 0 .. MaxLevel, j < MaxLevel, NEW i \in 0 .. (2^j - 1)
    PROVE  /\ <<j, i>> \in NodesOf(j)
           /\ <<j + 1, 2 * i>> \in NodesOf(j + 1) /\ <<j + 1, (2 * i) + 1>> \in NodesOf(j + 1)
           /\ \A p \in Nat :
                  /\ Holds(<<j, i>>, p) <=> \/ Holds(<<j + 1, 2 * i>>, p)
                                            \/ Holds(<<j + 1, (2 * i) + 1>>, p)
                  /\ ~(Holds(<<j + 1, 2 * i>>, p) /\ Holds(<<j + 1, (2 * i) + 1>>, p))
<1> DEFINE w == Width(j)
           v == Width(j + 1)
           c == 2^j
           e == 2^(j + 1)
<1>1. j \in Nat /\ j + 1 \in 0 .. MaxLevel /\ i \in Nat /\ i < c
  BY WidthFacts, PowerFacts
<1>2. w \in Nat /\ v \in Nat /\ v > 0 /\ w = 2 * v /\ c \in Nat /\ e = 2 * c /\ e \in Nat
  BY <1>1, WidthFacts, WidthHalves, PowerFacts
<1>3. /\ Lo(<<j, i>>) = i * w /\ Hi(<<j, i>>) = (i + 1) * w
      /\ Lo(<<j + 1, 2 * i>>) = (2 * i) * v /\ Hi(<<j + 1, 2 * i>>) = ((2 * i) + 1) * v
      /\ Lo(<<j + 1, (2 * i) + 1>>) = ((2 * i) + 1) * v
      /\ Hi(<<j + 1, (2 * i) + 1>>) = (((2 * i) + 1) + 1) * v
  BY DEF Lo, Hi
<1>4. /\ i \in 0 .. (2^j - 1) /\ 2 * i \in 0 .. (2^(j + 1) - 1)
      /\ (2 * i) + 1 \in 0 .. (2^(j + 1) - 1)
  BY <1>1, <1>2
<1> HIDE DEF w, v, c, e
<1>5. /\ i * w = 2 * (i * v) /\ (2 * i) * v = 2 * (i * v)
      /\ ((2 * i) + 1) * v = 2 * (i * v) + v
      /\ (((2 * i) + 1) + 1) * v = 2 * (i * v) + 2 * v
      /\ (i + 1) * w = 2 * (i * v) + 2 * v /\ i * v \in Nat
  BY <1>1, <1>2
<1>6. \A p \in Nat :
          /\ Holds(<<j, i>>, p) <=> \/ Holds(<<j + 1, 2 * i>>, p)
                                    \/ Holds(<<j + 1, (2 * i) + 1>>, p)
          /\ ~(Holds(<<j + 1, 2 * i>>, p) /\ Holds(<<j + 1, (2 * i) + 1>>, p))
  BY <1>2, <1>3, <1>5 DEF Holds
<1> QED
  BY <1>4, <1>6 DEF NodesOf

\* merge_nodes_upwards: a pair of nodes makes room for their parent.
LEMMA MergeKeepsTiled ==
    ASSUME NEW d \in 0 .. MaxLevel, NEW U, Tiled(U, d), NEW j \in 1 .. d,
           NEW i \in 0 .. (2^(j - 1) - 1),
           <<j, 2 * i>> \in U, <<j, (2 * i) + 1>> \in U
    PROVE  Tiled((U \ {<<j, 2 * i>>, <<j, (2 * i) + 1>>}) \cup {<<j - 1, i>>}, d)
<1> DEFINE L == <<j, 2 * i>>
           R == <<j, (2 * i) + 1>>
           P == <<j - 1, i>>
           V == (U \ {L, R}) \cup {P}
<1>1. j - 1 \in 0 .. MaxLevel /\ j - 1 < MaxLevel /\ (j - 1) + 1 = j /\ j - 1 \in 0 .. d
  BY WidthFacts
<1>2. /\ P \in NodesOf(j - 1)
      /\ \A p \in Nat : /\ Holds(P, p) <=> Holds(L, p) \/ Holds(R, p)
                        /\ ~(Holds(L, p) /\ Holds(R, p))
  BY <1>1, HalvesFacts
<1>3. V \subseteq AllNodes(d)
  BY <1>1, <1>2 DEF Tiled, AllNodes
<1> HIDE DEF L, R, P
<1>4. L \in U /\ R \in U
  BY DEF L, R
<1>5. ASSUME NEW p \in 0 .. (Span - 1)
      PROVE  /\ \E n \in V : Holds(n, p)
             /\ \A m, n \in V : Holds(m, p) /\ Holds(n, p) => m = n
  <2>1. /\ \E n \in U : Holds(n, p)
        /\ \A m, n \in U : Holds(m, p) /\ Holds(n, p) => m = n
    BY DEF Tiled
  <2>2. Holds(P, p) <=> Holds(L, p) \/ Holds(R, p)
    BY <1>2, WidthFacts
  <2> QED
    BY <1>4, <2>1, <2>2
<1>6. Tiled(V, d)
  BY <1>3, <1>5 DEF Tiled
<1> QED
  BY <1>6 DEF L, R, P

\* The last level of a tree that grows: some of its nodes are split.
LEMMA GrowthKeepsTiled ==
    ASSUME NEW j \in 0 .. MaxLevel, j < MaxLevel, NEW U, Tiled(U, j),
           NEW split \in SUBSET {n \in U : n[1] = j}
    PROVE  Tiled((U \ split) \cup {<<j + 1, (2 * n[2]) + h>> : n \in split, h \in {0, 1}},
                 j + 1)
<1> DEFINE halves == {<<j + 1, (2 * n[2]) + h>> : n \in split, h \in {0, 1}}
           V == (U \ split) \cup halves
           L(n) == <<j + 1, 2 * n[2]>>
           R(n) == <<j + 1, (2 * n[2]) + 1>>
<1>1. j \in Nat /\ j + 1 \in 0 .. MaxLevel
  BY WidthFacts
<1>2. ASSUME NEW s \in split
      PROVE  /\ s \in U /\ L(s) \in NodesOf(j + 1) /\ R(s) \in NodesOf(j + 1)
             /\ \A p \in Nat : /\ Holds(s, p) <=> Holds(L(s), p) \/ Holds(R(s), p)
                               /\ ~(Holds(L(s), p) /\ Holds(R(s), p))
  <2>1. s \in AllNodes(j) /\ s[1] = j /\ s \in U
    BY DEF Tiled
  <2>2. s = <<j, s[2]>> /\ s[2] \in 0 .. (2^j - 1)
    BY <2>1, NodeIsPart
  <2> HIDE DEF L, R
  <2>3. /\ L(s) \in NodesOf(j + 1) /\ R(s) \in NodesOf(j + 1)
        /\ \A p \in Nat :
               /\ Holds(<<j, s[2]>>, p) <=> Holds(L(s), p) \/ Holds(R(s), p)
               /\ ~(Holds(L(s), p) /\ Holds(R(s), p))
    BY <2>2, HalvesFacts DEF L, R
  <2> QED
    BY <2>1, <2>2, <2>3
<1>3. \A m : m \in halves <=> \E s \in split : m = L(s) \/ m = R(s)
  <2>1. ASSUME NEW s \in split
        PROVE  s[2] \in Nat /\ (2 * s[2]) + 0 = 2 * s[2]
    <3>1. s \in AllNodes(j)
      BY DEF Tiled
    <3> QED
      BY <1>1, <3>1, NodeIsPart, PowerFacts
  <2>2. \A m : m \in halves <=> \E s \in split, h \in {0, 1} : m = <<j + 1, (2 * s[2]) + h>>
    OBVIOUS
  <2> QED
    BY <2>1, <2>2
<1> HIDE DEF halves, L, R
<1>4. V \subseteq AllNodes(j + 1)
  <2>1. U \subseteq AllNodes(j + 1)
    <3>1. 0 .. j \subseteq 0 .. (j + 1)
      BY <1>1
    <3> QED
      BY <3>1 DEF Tiled, AllNodes
  <2>2. NodesOf(j + 1) \subseteq AllNodes(j + 1)
    BY <1>1 DEF AllNodes
  <2> QED
    BY <1>2, <1>3, <2>1, <2>2
<1>5. ASSUME NEW p \in 0 .. (Span - 1)
      PROVE  /\ \E n \in V : Holds(n, p)
             /\ \A m, n \in V : Holds(m, p) /\ Holds(n, p) => m = n
  <2>1. /\ \E n \in U : Holds(n, p)
        /\ \A m, n \in U : Holds(m, p) /\ Holds(n, p) => m = n
    BY DEF Tiled
  <2>2. p \in Nat
    BY WidthFacts
  <2>3. \E n \in V : Holds(n, p)
    <3>1. PICK n \in U : Holds(n, p)
      BY <2>1
    <3>2. CASE n \notin split
      BY <3>1, <3>2
    <3>3. CASE n \in split
      <4>1. Holds(L(n), p) \/ Holds(R(n), p)
        BY <1>2, <2>2, <3>1, <3>3
      <4> QED
        BY <1>3, <3>3, <4>1
    <3> QED
      BY <3>2, <3>3
  <2>4. ASSUME NEW m \in V, NEW n \in V, Holds(m, p), Holds(n, p) PROVE m = n
    <3>1. \A x \in V : Holds(x, p) =>
              \/ x \in U /\ x \notin split
              \/ \E s \in split : s \in U /\ Holds(s, p) /\ (x = L(s) \/ x = R(s))
      BY <1>2, <1>3, <2>2
    <3>2. CASE m \in U /\ m \notin split
      BY <2>1, <2>4, <3>1, <3>2
    <3>3. CASE n \in U /\ n \notin split
      BY <2>1, <2>4, <3>1, <3>3
    <3>4. ASSUME NEW s \in split, s \in U, Holds(s, p), m = L(s) \/ m = R(s),
                 NEW t \in split, t \in U, Holds(t, p), n = L(t) \/ n = R(t)
          PROVE  m = n
      <4>1. s = t
        BY <2>1, <3>4
      <4>2. ~(Holds(L(s), p) /\ Holds(R(s), p))
        BY <1>2, <2>2
      <4> QED
        BY <2>4, <3>4, <4>1, <4>2
    <3> QED
      BY <2>4, <3>1, <3>2, <3>3, <3>4
  <2> QED
    BY <2>3, <2>4
<1>6. Tiled(V, j + 1)
  BY <1>4, <1>5 DEF Tiled
<1> QED
  BY <1>6 DEF halves

-----------------------------------------------------------------------------
(* The nodes in their order.                                               *)

\* No two nodes start together, so that order by Start is order by Lo.
LEMMA OrderOfNodes ==
    ASSUME NEW d \in 0 .. MaxLevel, NEW U, Tiled(U, d)
    PROVE  /\ \A m, n \in U : Lo(m) = Lo(n) => m = n
           /\ \A m, n \in U :
                  LET S(x) == x[2] * 2^(d - x[1])
                  IN  (S(m) < S(n) \/ (S(m) = S(n) /\ m[1] < n[1])) <=> Lo(m) < Lo(n)
<1> DEFINE S(x) == x[2] * 2^(d - x[1])
           w == Width(d)
<1>1. \A n \in U : n \in AllNodes(d)
  BY DEF Tiled
<1>2. \A n \in U : S(n) \in Nat /\ S(n) * w = Lo(n)
  BY <1>1, NodeTakesParts
<1>3. w \in Nat /\ w > 0
  BY WidthFacts
<1>4. ASSUME NEW m \in U, NEW n \in U, Lo(m) = Lo(n) PROVE m = n
  <2>1. /\ Lo(m) \in Nat /\ Lo(m) < Hi(m) /\ Hi(m) <= Span /\ Hi(m) \in Nat
        /\ Lo(n) \in Nat /\ Lo(n) < Hi(n)
    BY <1>1, NodeLies
  <2>2. Lo(m) \in 0 .. (Span - 1) /\ Holds(m, Lo(m)) /\ Holds(n, Lo(m))
    BY <1>4, <2>1, WidthFacts DEF Holds
  <2> QED
    BY <2>2 DEF Tiled
<1> HIDE DEF S, w
<1>5. ASSUME NEW m \in U, NEW n \in U
      PROVE  (S(m) < S(n) \/ (S(m) = S(n) /\ m[1] < n[1])) <=> Lo(m) < Lo(n)
  <2>1. \A x, y \in Nat : x < y <=> x * w < y * w
    <3> SUFFICES ASSUME NEW x \in Nat, NEW y \in Nat PROVE x < y <=> x * w < y * w
      OBVIOUS
    <3>1. y * w = x * w + (y - x) * w /\ x * w \in Nat /\ y * w \in Nat
      BY <1>3
    <3>2. x < y => (y - x) * w > 0
      BY <1>3
    <3>3. ~(x < y) => (y - x) * w <= 0
      BY <1>3
    <3>4. (y - x) * w \in Int
      BY <1>3
    <3> QED
      BY <3>1, <3>2, <3>3, <3>4
  <2>2. S(m) < S(n) <=> Lo(m) < Lo(n)
    BY <1>2, <2>1
  <2>3. S(m) = S(n) /\ m[1] < n[1] => FALSE
    <3> SUFFICES ASSUME S(m) = S(n), m[1] < n[1] PROVE FALSE
      OBVIOUS
    <3>1. Lo(m) = Lo(n)
      BY <1>2
    <3>2. m = n /\ m[1] \in Int
      BY <1>1, <1>4, <3>1, NodeIsPart
    <3> QED
      BY <3>2
  <2> QED
    BY <2>2, <2>3
<1> QED
  BY <1>4, <1>5 DEF S

\* There are finitely many nodes, and one at least.
LEMMA FiniteNodes ==
    ASSUME NEW d \in 0 .. MaxLevel, NEW U, Tiled(U, d)
    PROVE  IsFiniteSet(U) /\ Cardinality(U) \in Nat /\ Cardinality(U) > 0
<1> DEFINE box == (0 .. d) \X (0 .. (2^d - 1))
<1>1. d \in Nat /\ 2^d \in Nat
  BY WidthFacts, PowerFacts
<1>2. IsFiniteSet(box)
  <2>1. IsFiniteSet(0 .. d) /\ IsFiniteSet(0 .. (2^d - 1))
    <3>1. 0 \in Int /\ d \in Int /\ 2^d - 1 \in Int
      BY <1>1
    <3> QED
      BY <3>1, FS_Interval
  <2> QED
    BY <2>1, FS_Product
<1>3. U \subseteq box
  <2> SUFFICES ASSUME NEW n \in U PROVE n \in box
    OBVIOUS
  <2>1. n \in AllNodes(d)
    BY DEF Tiled
  <2>2. n = <<n[1], n[2]>> /\ n[1] \in 0 .. d /\ n[2] \in 0 .. (2^n[1] - 1)
    BY <2>1, NodeIsPart
  <2>3. 2^n[1] <= 2^d /\ 2^n[1] \in Nat
    <3>1. n[1] \in Nat
      BY <1>1, <2>2
    <3>2. CASE n[1] = d
      BY <1>1, <3>2
    <3>3. CASE n[1] < d
      BY <1>1, <3>1, <3>3, PowerGrows, PowerFacts
    <3> QED
      BY <1>1, <2>2, <3>1, <3>2, <3>3
  <2>4. n[2] \in 0 .. (2^d - 1)
    BY <1>1, <2>2, <2>3
  <2> QED
    BY <2>2, <2>4
<1>4. IsFiniteSet(U)
  BY <1>2, <1>3, FS_Subset
<1>5. U # {}
  <2>1. 0 \in 0 .. (Span - 1)
    BY WidthFacts
  <2> QED
    BY <2>1 DEF Tiled
<1> QED
  BY <1>4, <1>5, FS_CardinalityType, FS_EmptySet

\* collect_used_nodes: each node once, by where it lies.
LEMMA CollectedInOrder ==
    ASSUME NEW d \in 0 .. MaxLevel, NEW U, Tiled(U, d)
    PROVE  LET s == collect_used_nodes(U, d)
           IN  /\ s \in [1 .. Cardinality(U) -> U]
               /\ \A n \in U : \E j \in 1 .. Cardinality(U) : s[j] = n
               /\ \A i, j \in 1 .. Cardinality(U) : i < j => Lo(s[i]) < Lo(s[j])
<1> DEFINE N == Cardinality(U)
           S(x) == x[2] * 2^(d - x[1])
           Before(m, n) == S(m) < S(n) \/ (S(m) = S(n) /\ m[1] < n[1])
           below(n) == {m \in U : Before(m, n)}
           rank(n) == Cardinality(below(n))
           f == [n \in U |-> rank(n) + 1]
           s == collect_used_nodes(U, d)
<1>1. s = [j \in 1 .. N |-> CHOOSE n \in U : rank(n) = j - 1]
  BY DEF collect_used_nodes
<1>2. IsFiniteSet(U) /\ N \in Nat
  BY FiniteNodes
<1>3. /\ \A n \in U : Lo(n) \in Nat
      /\ \A m, n \in U : Lo(m) = Lo(n) => m = n
      /\ \A m, n \in U : Before(m, n) <=> Lo(m) < Lo(n)
  <2>1. \A n \in U : Lo(n) \in Nat
    BY NodeLies DEF Tiled
  <2> QED
    BY <2>1, OrderOfNodes
<1> HIDE DEF S, Before
<1>4. \A n \in U : below(n) \subseteq U /\ IsFiniteSet(below(n)) /\ rank(n) \in Nat /\ rank(n) < N
  <2> SUFFICES ASSUME NEW n \in U
               PROVE  IsFiniteSet(below(n)) /\ rank(n) \in Nat /\ rank(n) < N
    OBVIOUS
  <2>1. IsFiniteSet(below(n)) /\ rank(n) \in Nat /\ rank(n) <= N
        /\ (N = rank(n) => U = below(n))
    BY <1>2, FS_Subset, FS_CardinalityType
  <2>2. n \notin below(n)
    BY <1>3
  <2> QED
    BY <1>2, <2>1, <2>2
<1>5. ASSUME NEW m \in U, NEW n \in U, Lo(m) < Lo(n) PROVE rank(m) < rank(n)
  <2>1. below(m) \subseteq below(n)
    BY <1>3, <1>5
  <2>2. m \in below(n) /\ m \notin below(m)
    BY <1>3, <1>5
  <2>3. rank(m) <= rank(n) /\ (rank(n) = rank(m) => below(n) = below(m))
    BY <1>4, <2>1, FS_Subset
  <2> QED
    BY <1>4, <2>2, <2>3
<1> HIDE DEF below
<1>6. \A m, n \in U : rank(m) = rank(n) => m = n
  <2> SUFFICES ASSUME NEW m \in U, NEW n \in U, rank(m) = rank(n) PROVE m = n
    OBVIOUS
  <2>1. Lo(m) \in Nat /\ Lo(n) \in Nat /\ rank(m) \in Nat /\ rank(n) \in Nat
    BY <1>3, <1>4
  <2>2. ~(Lo(m) < Lo(n)) /\ ~(Lo(n) < Lo(m))
    BY <1>5, <2>1
  <2> QED
    BY <1>3, <2>1, <2>2
<1> HIDE DEF rank
<1>7. f \in Injection(U, 1 .. N)
  <2>1. f \in [U -> 1 .. N]
    BY <1>2, <1>4
  <2>2. \A m, n \in U : f[m] = f[n] => m = n
    BY <1>4, <1>6
  <2> QED
    BY <2>1, <2>2 DEF Injection, IsInjective
<1>8. f \in Surjection(U, 1 .. N)
  <2>1. IsFiniteSet(1 .. N) /\ Cardinality(1 .. N) = N
    BY <1>2, FS_Interval
  <2> QED
    BY <1>7, <2>1, FS_Injection
<1>9. \A j \in 1 .. N : s[j] \in U /\ rank(s[j]) = j - 1
  <2> SUFFICES ASSUME NEW j \in 1 .. N PROVE s[j] \in U /\ rank(s[j]) = j - 1
    OBVIOUS
  <2>1. PICK n \in U : f[n] = j
    BY <1>8 DEF Surjection
  <2>2. rank(n) = j - 1
    BY <1>4, <2>1
  <2>3. s[j] = CHOOSE x \in U : rank(x) = j - 1
    BY <1>1
  <2> HIDE DEF s
  <2> QED
    BY <2>2, <2>3
<1>10. DOMAIN s = 1 .. N /\ s = [j \in 1 .. N |-> s[j]]
  BY <1>1
<1> HIDE DEF s
<1>11. s \in [1 .. N -> U]
  BY <1>9, <1>10
<1>12. ASSUME NEW n \in U PROVE \E j \in 1 .. N : s[j] = n
  <2>1. rank(n) + 1 \in 1 .. N /\ (rank(n) + 1) - 1 = rank(n)
    BY <1>2, <1>4
  <2>2. s[rank(n) + 1] = n
    BY <1>6, <1>9, <2>1
  <2> QED
    BY <2>1, <2>2
<1>13. ASSUME NEW i \in 1 .. N, NEW j \in 1 .. N, i < j PROVE Lo(s[i]) < Lo(s[j])
  <2>1. /\ s[i] \in U /\ s[j] \in U /\ rank(s[i]) = i - 1 /\ rank(s[j]) = j - 1
        /\ Lo(s[i]) \in Nat /\ Lo(s[j]) \in Nat
    BY <1>3, <1>9
  <2>2. ~(Lo(s[j]) < Lo(s[i]))
    BY <1>5, <1>13, <2>1
  <2>3. Lo(s[i]) # Lo(s[j])
    BY <1>3, <1>13, <2>1
  <2> QED
    BY <2>1, <2>2, <2>3
<1> QED
  BY <1>11, <1>12, <1>13 DEF s

\* In their order, the nodes take up the space from end to end.
LEMMA NodesAreAdjacent ==
    ASSUME NEW d \in 0 .. MaxLevel, NEW U, Tiled(U, d)
    PROVE  LET s == collect_used_nodes(U, d)
               N == Cardinality(U)
           IN  /\ Lo(s[1]) = 0 /\ Hi(s[N]) = Span
               /\ \A j \in 2 .. N : Hi(s[j - 1]) = Lo(s[j])
<1> DEFINE s == collect_used_nodes(U, d)
           N == Cardinality(U)
<1>1. N \in Nat /\ N > 0
  BY FiniteNodes
<1>2. /\ \A j \in 1 .. N : s[j] \in U
      /\ \A n \in U : \E j \in 1 .. N : s[j] = n
      /\ \A i, j \in 1 .. N : i < j => Lo(s[i]) < Lo(s[j])
  BY CollectedInOrder
<1> HIDE DEF s, N
<1>3. \A n \in U : /\ Lo(n) \in Nat /\ Hi(n) \in Nat /\ Lo(n) < Hi(n) /\ Hi(n) <= Span
  BY NodeLies DEF Tiled
<1>4. \A p \in 0 .. (Span - 1) : \E j \in 1 .. N : Holds(s[j], p)
  BY <1>2 DEF Tiled
<1>5. \A p \in 0 .. (Span - 1) : \A i, j \in 1 .. N : Holds(s[i], p) /\ Holds(s[j], p) => i = j
  <2> SUFFICES ASSUME NEW p \in 0 .. (Span - 1), NEW i \in 1 .. N, NEW j \in 1 .. N,
                      Holds(s[i], p), Holds(s[j], p)
               PROVE  i = j
    OBVIOUS
  <2>1. s[i] = s[j]
    BY <1>2 DEF Tiled
  <2>2. ~(i < j) /\ ~(j < i)
    BY <1>2, <1>3, <2>1
  <2> QED
    BY <1>1, <2>2
<1>6. Lo(s[1]) = 0
  <2>1. 0 \in 0 .. (Span - 1) /\ 1 \in 1 .. N
    BY <1>1, WidthFacts
  <2>2. PICK j \in 1 .. N : Holds(s[j], 0)
    BY <1>4, <2>1
  <2>3. Lo(s[j]) = 0
    BY <1>2, <1>3, <2>2 DEF Holds
  <2>4. ~(1 < j)
    BY <1>2, <1>3, <2>1, <2>3
  <2> QED
    BY <1>1, <2>3, <2>4
\* What comes after a node starts where it ends.
<1>7. ASSUME NEW i \in 1 .. N, Hi(s[i]) < Span
      PROVE  i + 1 \in 1 .. N /\ Lo(s[i + 1]) = Hi(s[i])
  <2> DEFINE p == Hi(s[i])
  <2>1. /\ p \in 0 .. (Span - 1) /\ p - 1 \in 0 .. (Span - 1) /\ p \in Nat /\ p > 0
        /\ Holds(s[i], p - 1) /\ Lo(s[i]) < p
    <3>1. Lo(s[i]) \in Nat /\ Hi(s[i]) \in Nat /\ Lo(s[i]) < Hi(s[i])
      BY <1>2, <1>3
    <3> QED
      BY <1>7, <3>1, WidthFacts DEF Holds
  <2>2. PICK j \in 1 .. N : Holds(s[j], p)
    BY <1>4, <2>1
  <2>3. j # i
    BY <1>2, <1>3, <2>2 DEF Holds
  <2>4. Lo(s[j]) = p
    <3> SUFFICES ASSUME Lo(s[j]) # p PROVE FALSE
      OBVIOUS
    <3>1. Holds(s[j], p - 1)
      BY <1>2, <1>3, <2>1, <2>2 DEF Holds
    <3> QED
      BY <1>5, <2>1, <2>3, <3>1
  <2>5. ~(j < i)
    BY <1>2, <1>3, <2>1, <2>4
  <2>6. j = i + 1
    <3> SUFFICES ASSUME i + 1 < j PROVE FALSE
      BY <1>1, <2>3, <2>5
    <3>1. i + 1 \in 1 .. N /\ i < i + 1
      BY <1>1
    <3>2. Lo(s[i]) < Lo(s[i + 1]) /\ Lo(s[i + 1]) < p /\ s[i + 1] \in U
      BY <1>2, <2>4, <3>1
    <3>3. Holds(s[i], Lo(s[i + 1])) /\ Holds(s[i + 1], Lo(s[i + 1]))
          /\ Lo(s[i + 1]) \in 0 .. (Span - 1)
      <4>1. /\ Lo(s[i]) \in Nat /\ Lo(s[i + 1]) \in Nat
            /\ Lo(s[i + 1]) < Hi(s[i + 1])
        BY <1>2, <1>3, <3>2
      <4> QED
        BY <1>7, <2>1, <3>2, <4>1, WidthFacts DEF Holds
    <3> QED
      BY <1>5, <3>1, <3>3
  <2> QED
    BY <2>4, <2>6
<1>8. Hi(s[N]) = Span
  <2>1. N \in 1 .. N /\ ~(N + 1 \in 1 .. N)
    BY <1>1
  <2>2. ~(Hi(s[N]) < Span)
    BY <1>7, <2>1
  <2> QED
    BY <1>2, <1>3, <2>1, <2>2, WidthFacts
<1>9. ASSUME NEW j \in 2 .. N PROVE Hi(s[j - 1]) = Lo(s[j])
  <2>1. j - 1 \in 1 .. N /\ j \in 1 .. N /\ j - 1 < j /\ (j - 1) + 1 = j
    BY <1>1
  <2>2. Hi(s[j - 1]) < Span
    <3> SUFFICES ASSUME Hi(s[j - 1]) = Span PROVE FALSE
      BY <1>2, <1>3, <2>1, WidthFacts
    <3>1. Lo(s[j - 1]) < Lo(s[j]) /\ Lo(s[j]) \in 0 .. (Span - 1)
      BY <1>2, <1>3, <2>1, WidthFacts
    <3>2. Holds(s[j - 1], Lo(s[j])) /\ Holds(s[j], Lo(s[j]))
      BY <1>2, <1>3, <2>1, <3>1 DEF Holds
    <3> QED
      BY <1>5, <2>1, <3>1, <3>2
  <2> QED
    BY <1>7, <2>1, <2>2
<1> QED
  BY <1>6, <1>8, <1>9 DEF s, N

\* Where a node starts and ends in the array hangs on its cells only.
LEMMA BoundariesOfCells ==
    ASSUME NEW d \in 0 .. MaxLevel, NEW n \in AllNodes(d)
    PROVE  /\ left_boundary(n) = IF Lo(n) = 0 THEN 0 ELSE Boundary(Lo(n))
           /\ right_boundary(n) =
                  IF Hi(n) = Span THEN Cardinality(values) ELSE Boundary(Hi(n))
<1>1. (Lo(n) = 0 <=> n[2] = 0) /\ (Hi(n) = Span <=> n[2] = 2^n[1] - 1)
  BY NodeLies
<1> QED
  BY <1>1, Zenon DEF left_boundary, right_boundary, Lo, Hi

\* Nodes that tile the space are what the users of a fanout tree ask for.
LEMMA TiledIsPartition ==
    ASSUME depth \in 0 .. MaxLevel, Tiled(use, depth), depth > 0 => <<0, 0>> \notin use
    PROVE  UsedNodesPartition
<1> DEFINE s == collect_used_nodes(use, depth)
           N == Cardinality(use)
           Start(n) == n[2] * 2^(depth - n[1])
           End(n) == (n[2] + 1) * 2^(depth - n[1])
           w == Width(depth)
<1>1. N \in Nat /\ N > 0
  BY FiniteNodes
<1>2. /\ s \in [1 .. N -> use]
      /\ \A i, j \in 1 .. N : i < j => Lo(s[i]) < Lo(s[j])
  BY CollectedInOrder
<1>3. /\ Lo(s[1]) = 0 /\ Hi(s[N]) = Span
      /\ \A j \in 2 .. N : Hi(s[j - 1]) = Lo(s[j])
  BY NodesAreAdjacent
<1>4. s \in Seq(use) /\ Len(s) = N
  BY <1>1, <1>2
<1> HIDE DEF s, N
<1>5. \A n \in use :
          /\ Lo(n) \in Nat /\ Hi(n) \in Nat /\ Lo(n) < Hi(n) /\ Hi(n) <= Span
          /\ Start(n) \in Nat /\ End(n) \in Nat
          /\ Start(n) * w = Lo(n) /\ End(n) * w = Hi(n)
          /\ left_boundary(n) = IF Lo(n) = 0 THEN 0 ELSE Boundary(Lo(n))
          /\ right_boundary(n) = IF Hi(n) = Span THEN Cardinality(values) ELSE Boundary(Hi(n))
  <2> SUFFICES ASSUME NEW n \in use
               PROVE  /\ Lo(n) \in Nat /\ Hi(n) \in Nat /\ Lo(n) < Hi(n) /\ Hi(n) <= Span
                      /\ Start(n) \in Nat /\ End(n) \in Nat
                      /\ Start(n) * w = Lo(n) /\ End(n) * w = Hi(n)
                      /\ left_boundary(n) = IF Lo(n) = 0 THEN 0 ELSE Boundary(Lo(n))
                      /\ right_boundary(n) = IF Hi(n) = Span THEN Cardinality(values)
                                             ELSE Boundary(Hi(n))
    OBVIOUS
  <2>1. n \in AllNodes(depth)
    BY DEF Tiled
  <2> QED
    BY <2>1, NodeLies, NodeTakesParts, BoundariesOfCells
<1>6. w \in Nat /\ w > 0 /\ 2^depth \in Nat /\ Span = 2^depth * w
  BY WidthFacts, PowerFacts
<1>7. \A x, y \in Nat : x * w = y * w => x = y
  BY <1>6
<1>8. \A j \in 1 .. N : s[j] \in use
  BY <1>2
<1>9. depth > 0 => N > 1
  <2> SUFFICES ASSUME depth > 0, N = 1 PROVE FALSE
    BY <1>1
  <2>1. s[1] \in use /\ s[1] \in AllNodes(depth) /\ Lo(s[1]) = 0 /\ Hi(s[1]) = Span
    BY <1>1, <1>3, <1>8 DEF Tiled
  <2>2. /\ s[1][2] = 0 /\ s[1][2] = 2^s[1][1] - 1
        /\ s[1] = <<s[1][1], s[1][2]>> /\ s[1][1] \in 0 .. depth
    BY <2>1, NodeLies, NodeIsPart
  <2>3. s[1][1] = 0
    <3>1. s[1][1] \in Nat /\ 2^s[1][1] \in Nat
      BY <2>2, WidthFacts, PowerFacts
    <3>2. s[1][1] < 2^s[1][1]
      BY <3>1, PowerExceeds
    <3> QED
      BY <2>2, <3>1, <3>2
  <2> QED
    BY <2>1, <2>2, <2>3
<1> HIDE DEF Start, End, w
<1>10. Start(s[1]) = 0 /\ left_boundary(s[1]) = 0
  <2>1. s[1] \in use /\ Start(s[1]) * w = 0 * w
    BY <1>1, <1>3, <1>5, <1>6, <1>8
  <2> QED
    BY <1>3, <1>5, <1>7, <2>1
<1>11. ASSUME NEW j \in 2 .. N
       PROVE  Start(s[j]) = End(s[j - 1]) /\ left_boundary(s[j]) = right_boundary(s[j - 1])
  <2>1. /\ j - 1 \in 1 .. N /\ j \in 1 .. N /\ j - 1 < j
        /\ s[j] \in use /\ s[j - 1] \in use
    BY <1>1, <1>8
  <2>2. Hi(s[j - 1]) = Lo(s[j]) /\ Lo(s[j - 1]) < Lo(s[j])
    BY <1>2, <1>3, <2>1
  <2>3. Start(s[j]) * w = End(s[j - 1]) * w /\ Start(s[j]) \in Nat /\ End(s[j - 1]) \in Nat
    BY <1>5, <2>1, <2>2
  <2>4. Start(s[j]) = End(s[j - 1])
    BY <1>7, <2>3
  <2>5. Lo(s[j]) # 0 /\ Hi(s[j - 1]) # Span
    BY <1>5, <2>1, <2>2, WidthFacts
  <2> QED
    BY <1>5, <2>1, <2>2, <2>4, <2>5
<1>12. End(s[N]) = 2^depth /\ right_boundary(s[N]) = Cardinality(values)
  <2>1. s[N] \in use /\ End(s[N]) * w = 2^depth * w
    BY <1>1, <1>3, <1>5, <1>6, <1>8
  <2> QED
    BY <1>3, <1>5, <1>6, <1>7, <2>1
<1> QED
  BY <1>4, <1>9, <1>10, <1>11, <1>12 DEF UsedNodesPartition, s, N, Start, End

-----------------------------------------------------------------------------
(* Fanout trees at work.                                                   *)

\* The nodes in use tile the space at all times, down to the level reached, and
\* the root is not among them once it was divided; the merge loop is at a pair
\* of nodes of its level.
FanoutInv ==
    /\ values \subseteq 0 .. (Span - 1)
    /\ phase # "over" => values \in Load
    /\ method \in {"bottom_up", "top_down", "existing", "whole_level"}
    /\ depth \in 0 .. MaxLevel /\ level \in 0 .. MaxLevel
    /\ phase \in {"levels", "merging", "growing", "collected", "over"}
    /\ phase = "levels" => pair = 0
    /\ phase = "merging" =>
           /\ level <= depth
           /\ pair \in Nat
           /\ level >= 1 => pair < 2^(level - 1)
    /\ phase \in {"merging", "collected"} =>
           Tiled(use, depth) /\ (depth > 0 => <<0, 0>> \notin use)
    /\ phase = "growing" =>
           Tiled(use, level) /\ (level > 0 => <<0, 0>> \notin use)

\* The root alone.
LEMMA RootIsTiled == NodesOf(0) = {<<0, 0>>} /\ Tiled({<<0, 0>>}, 0)
<1>1. 0 .. (2^0 - 1) = {0} /\ 0 \in 0 .. MaxLevel
  BY PowerFacts, WidthFacts
<1>2. NodesOf(0) = {<<0, 0>>}
  BY <1>1 DEF NodesOf
<1> QED
  BY <1>1, <1>2, LevelIsTiled

\* The start of a fanout tree.
LEMMA InitFanoutInv == InitFanout => FanoutInv
<1> SUFFICES ASSUME InitFanout PROVE FanoutInv
  OBVIOUS
<1>1. values \in Load /\ values \subseteq 0 .. (Span - 1) /\ 0 \in 0 .. MaxLevel
  BY SpanIsDivisible DEF InitFanout
<1>2. /\ method \in {"bottom_up", "top_down", "existing"}
      /\ depth = 0 /\ level = 0 /\ pair = 0
  BY DEF InitFanout
<1>3. phase \in {"growing", "levels"} /\ (phase = "growing" => use = {<<0, 0>>})
  BY DEF InitFanout
<1> QED
  BY <1>1, <1>2, <1>3, RootIsTiled DEF FanoutInv

\* The choice of a level.
LEMMA ChooseLevelKeepsInv ==
    ASSUME FanoutInv, NEW d \in 0 .. MaxLevel, ChooseLevel(d)
    PROVE  FanoutInv'
<1>1. /\ phase = "levels" /\ depth' = d /\ level' = d /\ use' = NodesOf(d)
      /\ phase' = "merging" /\ values' = values /\ method' = method /\ pair' = pair
  BY DEF ChooseLevel
<1>2. Tiled(NodesOf(d), d)
  BY LevelIsTiled
<1>3. d > 0 => <<0, 0>> \notin NodesOf(d)
  BY DEF NodesOf
<1>4. pair = 0 /\ d \in Nat /\ (d >= 1 => 0 < 2^(d - 1))
  BY <1>1, WidthFacts, PowerFacts DEF FanoutInv
<1> QED
  BY <1>1, <1>2, <1>3, <1>4 DEF FanoutInv

\* One turn of the merge loop.
LEMMA MergePairKeepsInv ==
    ASSUME FanoutInv, MergePair
    PROVE  FanoutInv'
<1>1. /\ phase = "merging" /\ level >= 1 /\ level <= depth
      /\ pair \in Nat /\ pair < 2^(level - 1)
      /\ Tiled(use, depth) /\ (depth > 0 => <<0, 0>> \notin use)
      /\ values' = values /\ method' = method /\ depth' = depth /\ phase' = phase
      /\ level \in Nat /\ depth \in 0 .. MaxLevel /\ depth \in Nat /\ MaxLevel \in Nat
  BY WidthFacts DEF FanoutInv, MergePair
<1>2. level - 1 \in Nat /\ 2^(level - 1) \in Nat /\ level \in 1 .. depth
      /\ pair \in 0 .. (2^(level - 1) - 1)
  BY <1>1, PowerFacts
<1>3. Tiled(use', depth) /\ <<0, 0>> \notin use'
  <2>1. CASE use' = use
    BY <1>1, <1>2, <2>1
  <2>2. CASE BothAreUsed /\ level > 1 /\ use' = (use \ {Left, Right}) \cup {Parent}
    <3>1. Left \in use /\ Right \in use
      BY <2>2 DEF BothAreUsed
    <3>2. Tiled((use \ {Left, Right}) \cup {Parent}, depth)
      BY <1>1, <1>2, <3>1, MergeKeepsTiled DEF Left, Right, Parent
    <3>3. Parent # <<0, 0>>
      BY <1>2, <2>2 DEF Parent
    <3> QED
      BY <1>1, <1>2, <2>2, <3>2, <3>3
  <2> QED
    BY <2>1, <2>2 DEF MergePair
<1>4. \/ pair + 1 < 2^(level - 1) /\ pair' = pair + 1 /\ level' = level
      \/ pair' = 0 /\ level' \in {level - 1, 0}
  BY DEF MergePair
<1>5. /\ level' \in 0 .. MaxLevel /\ level' <= depth /\ pair' \in Nat
      /\ level' >= 1 => pair' < 2^(level' - 1)
  <2>1. CASE pair + 1 < 2^(level - 1) /\ pair' = pair + 1 /\ level' = level
    BY <1>1, <1>2, <2>1
  <2>2. CASE pair' = 0 /\ level' \in {level - 1, 0}
    <3>1. level' \in Nat /\ level' <= depth /\ level' \in 0 .. MaxLevel
      BY <1>1, <1>2, <2>2
    <3>2. ASSUME level' >= 1 PROVE pair' < 2^(level' - 1)
      <4>1. level' - 1 \in Nat
        <5>1. \A x \in Nat : x >= 1 => x - 1 \in Nat
          OBVIOUS
        <5> QED
          BY <3>1, <3>2, <5>1
      <4>2. 2^(level' - 1) \in Nat /\ 2^(level' - 1) > 0
        BY <4>1, PowerFacts
      <4> QED
        BY <2>2, <4>2
    <3> QED
      BY <2>2, <3>1, <3>2
  <2> QED
    BY <1>4, <2>1, <2>2
<1> QED
  BY <1>1, <1>3, <1>5 DEF FanoutInv, Tiled

\* One turn of the top-down search.
LEMMA GrowKeepsInv ==
    ASSUME FanoutInv, Grow
    PROVE  FanoutInv'
<1> DEFINE last == {n \in use : n[1] = level}
           halves(split) == {<<level + 1, (2 * n[2]) + h>> : n \in split, h \in {0, 1}}
<1>1. /\ phase = "growing" /\ level \in 0 .. MaxLevel /\ level \in Nat
      /\ Tiled(use, level) /\ (level > 0 => <<0, 0>> \notin use)
      /\ values' = values /\ method' = method
  BY WidthFacts DEF FanoutInv, Grow
<1>2. PICK split \in SUBSET {n \in last : num_keys(n) > 0} :
          \/ /\ split # {} /\ level < MaxLevel
             /\ use' = (use \ split) \cup halves(split)
             /\ level' = level + 1
             /\ UNCHANGED <<phase, depth>>
          \/ /\ use' = (use \ split) \cup last
             /\ phase' = "collected" /\ depth' = level
             /\ UNCHANGED level
  BY DEF Grow
<1>3. split \in SUBSET last
  BY <1>2
<1>4. CASE /\ split # {} /\ level < MaxLevel
           /\ use' = (use \ split) \cup halves(split)
           /\ level' = level + 1
           /\ UNCHANGED <<phase, depth>>
  <2>1. Tiled(use', level + 1)
    BY <1>1, <1>3, <1>4, GrowthKeepsTiled
  <2>2. <<0, 0>> \notin use'
    <3>1. <<0, 0>> \notin halves(split)
      BY <1>1
    <3>2. level = 0 => <<0, 0>> \notin use \ split
      <4> SUFFICES ASSUME level = 0 PROVE <<0, 0>> \in split
        OBVIOUS
      <4>1. PICK n \in split : n \in use
        BY <1>3, <1>4
      <4>2. n \in AllNodes(0)
        BY <1>1, <4>1 DEF Tiled
      <4>3. n = <<0, 0>>
        <5>1. n = <<n[1], n[2]>> /\ n[1] \in 0 .. 0 /\ n[2] \in 0 .. (2^n[1] - 1)
          BY <1>1, <4>2, NodeIsPart
        <5>2. n[1] = 0
          BY <5>1
        <5>3. n[2] \in 0 .. (2^0 - 1)
          BY <5>1, <5>2
        <5> QED
          BY <5>1, <5>2, <5>3, PowerFacts
      <4> QED
        BY <4>1, <4>3
    <3> QED
      BY <1>1, <1>4, <3>1, <3>2
  <2>3. level + 1 \in 0 .. MaxLevel
    BY <1>1, <1>4, WidthFacts
  <2> QED
    BY <1>1, <1>4, <2>1, <2>2, <2>3 DEF FanoutInv, Tiled
<1>5. CASE /\ use' = (use \ split) \cup last
           /\ phase' = "collected" /\ depth' = level
           /\ UNCHANGED level
  <2>1. use' = use
    BY <1>3, <1>5
  <2> QED
    BY <1>1, <1>5, <2>1 DEF FanoutInv, Tiled
<1> QED
  BY <1>2, <1>4, <1>5

\* The steps of the searches for a fanout.
LEMMA NextFanoutKeepsInv == FanoutInv /\ NextFanout => FanoutInv'
<1> SUFFICES ASSUME FanoutInv, NextFanout PROVE FanoutInv'
  OBVIOUS
<1>1. ASSUME EndMerging PROVE FanoutInv'
  BY <1>1 DEF EndMerging, FanoutInv, Tiled
<1> QED
  BY <1>1, ChooseLevelKeepsInv, MergePairKeepsInv, GrowKeepsInv DEF NextFanout

\* What a user of a fanout tree is given.
LEMMA InvGivesPartition == FanoutInv => UsedNodesPartition
<1>1. CASE phase = "collected"
  BY <1>1, TiledIsPartition DEF FanoutInv
<1>2. CASE phase # "collected"
  BY <1>2 DEF UsedNodesPartition
<1> QED
  BY <1>1, <1>2

-----------------------------------------------------------------------------
(* The invariant of a saved index.                                         *)

Buckets(x) == 0 .. (x.fanout - 1)

\* Runs are intervals of buckets, named by their first; a lazy node is named by
\* the first bucket that points to it.
Shaped(x) ==
    /\ x = [root_is_leaf |-> x.root_is_leaf, fanout |-> x.fanout, run |-> x.run,
            lazy |-> x.lazy, leaf |-> x.leaf, data |-> x.data]
    /\ IsIndex(x)
    /\ \A b \in Buckets(x) :
           /\ x.run[b] <= b /\ x.lazy[x.lazy[b]] = x.lazy[b]
           /\ \A c \in x.run[b] .. b : x.run[c] = x.run[b]

\* The bucket that a cell is in.
BucketIn(x, k) == (k * x.fanout) \div Span

\* Each key of K is where a lookup looks for it, and no other key is.
Routed(x, K) ==
    \A k \in 0 .. (Span - 1) : k \in x.data[x.leaf[BucketIn(x, k)]].keys <=> k \in K

\* One leaf for each run.
LeafForRun(x) == x.leaf = x.run

\* The runs of x are those of y, some of them divided.
Divided(x, y) ==
    /\ x.run # y.run
    /\ \/ x.fanout > y.fanout
       \/ x.fanout = y.fanout /\ \A b \in Buckets(x) : y.run[b] <= x.run[b]

\* A leaf that shares its chunk or its neighbours with another index, destroyed
\* since; and a leaf that never did, and was not loaded or saved.
Shares(data) == data.chunk = "freed" \/ data.links = "foreign"
Unshared(data) ==
    data.arrays = "heap" /\ data.chunk = "none" /\ data.links # "foreign"

LoadingInv ==
    process = "loading" =>
        /\ phase # "over" /\ fault = "none"
        /\ index = RootLeaf({}) /\ archive = Saved(RootLeaf({}), {})
        /\ keys = {} /\ forgotten = FALSE
        /\ copied = 0 /\ root_chunk = "none"

BuildingInv ==
    process = "building" =>
        /\ forgotten = FALSE /\ keys # {}
        /\ LeafForRun(index) /\ Routed(index, keys)
        /\ \A b \in DOMAIN index.data : index.data[b].arrays = "heap"

\* What was saved.
ArchiveInv ==
    /\ archive.keys \subseteq 0 .. (Span - 1)
    /\ Shaped(archive.index) /\ LeafForRun(archive.index)
    /\ archive.keys # {} => Routed(archive.index, archive.keys)
    /\ \A b \in DOMAIN archive.index.data : archive.index.data[b].chunk # "freed"

\* What was loaded.  An index not copied since then has the keys it was loaded
\* with and others.  If its children were saved with several lazy nodes each, it
\* is complete as long as no run is divided; the first division adds a key.
ReadingInv ==
    process = "reading" =>
        /\ archive.keys # {}
        /\ index.root_is_leaf = archive.index.root_is_leaf
        /\ has_pager /\ ~index.root_is_leaf =>
               \A b \in DOMAIN index.data : index.data[b].arrays # "none"
        /\ ~apart => LeafForRun(index) /\ (~forgotten => Routed(index, keys))
        /\ apart =>
               /\ has_pager /\ ~forgotten /\ archive.keys \subseteq keys
               /\ archive.index.lazy = archive.index.run =>
                      LeafForRun(index) /\ Routed(index, keys)
               /\ archive.index.lazy # archive.index.run =>
                      \/ index.run = archive.index.run /\ Routed(index, keys)
                      \/ Divided(index, archive.index) /\ keys # archive.keys

\* Where chunks come from, and which copies share them: the first copy of a loaded
\* index is of leaves that are nobody else's.
SharingInv ==
    /\ root_chunk # "none" => process = "building" /\ has_pager /\ archive.keys # {}
    /\ \A b \in DOMAIN index.data :
           /\ index.data[b].chunk # "none" => has_pager /\ archive.keys # {}
           /\ Shares(index.data[b]) => copied >= 1 /\ (process = "reading" => copied = 2)
           /\ process = "reading" /\ copied >= 1 => index.data[b].arrays = "heap"
           /\ process = "reading" /\ ~has_pager => index.data[b].arrays = "none"

\* All of it.
IInv ==
    /\ FanoutInv
    /\ method = "top_down" => low = {}
    /\ process \in {"loading", "building", "reading"}
    /\ has_pager \in BOOLEAN /\ closed \in BOOLEAN
    /\ root_chunk \in {"none", "fresh", "freed"}
    /\ copied \in 0 .. 2 /\ forgotten \in BOOLEAN
    /\ fault \in {"none", "read", "resize", "expand", "chunk", "links"}
    /\ keys \subseteq 0 .. (Span - 1)
    /\ Shaped(index)
    /\ LoadingInv /\ BuildingInv /\ ArchiveInv /\ ReadingInv /\ SharingInv
    /\ FaultsHaveCauses

-----------------------------------------------------------------------------
(* Indexes.                                                                *)

DataType == [keys : SUBSET (0 .. (Span - 1)),
             arrays : {"heap", "mapped", "page", "none"},
             chunk : {"none", "fresh", "stale", "freed"},
             links : {"none", "own", "foreign"}]

\* What IsIndex and Shaped say, part by part.
LEMMA ShapedFacts ==
    ASSUME NEW x, Shaped(x)
    PROVE  /\ x = [root_is_leaf |-> x.root_is_leaf, fanout |-> x.fanout, run |-> x.run,
                   lazy |-> x.lazy, leaf |-> x.leaf, data |-> x.data]
           /\ x.root_is_leaf \in BOOLEAN
           /\ x.fanout \in {2^n : n \in 0 .. MaxFanout}
           /\ x.fanout \in Nat /\ x.fanout > 0 /\ Span % x.fanout = 0
           /\ x.run \in [Buckets(x) -> Buckets(x)]
           /\ x.lazy \in [Buckets(x) -> Buckets(x)]
           /\ x.leaf \in [Buckets(x) -> Buckets(x)]
           /\ \A b \in Buckets(x) :
                  /\ b \in Nat /\ x.run[b] \in Nat
                  /\ x.run[x.lazy[b]] = x.run[b] /\ x.run[x.leaf[b]] = x.run[b]
                  /\ x.leaf[x.lazy[b]] = x.leaf[b]
                  /\ x.run[b] <= b /\ x.lazy[x.lazy[b]] = x.lazy[b]
                  /\ \A c \in x.run[b] .. b : x.run[c] = x.run[b]
                  /\ x.run[x.run[b]] = x.run[b]
           /\ DOMAIN x.data = {x.leaf[b] : b \in Buckets(x)}
           /\ \A b \in DOMAIN x.data : x.data[b] \in DataType
<1>1. IsIndex(x)
  BY DEF Shaped
<1>2. x.fanout \in Nat /\ x.fanout > 0
  <2>1. PICK n \in 0 .. MaxFanout : x.fanout = 2^n
    BY <1>1 DEF IsIndex
  <2>2. n \in Nat
    OBVIOUS
  <2> QED
    BY <2>1, <2>2, PowerFacts
<1>3. /\ x.run \in [Buckets(x) -> Buckets(x)]
      /\ x.lazy \in [Buckets(x) -> Buckets(x)]
      /\ x.leaf \in [Buckets(x) -> Buckets(x)]
      /\ DOMAIN x.data = {x.leaf[b] : b \in Buckets(x)}
      /\ \A b \in Buckets(x) :
             /\ x.run[x.lazy[b]] = x.run[b] /\ x.run[x.leaf[b]] = x.run[b]
             /\ x.leaf[x.lazy[b]] = x.leaf[b]
      /\ \A b \in DOMAIN x.data : x.data[b] \in DataType
  BY <1>1, Zenon DEF IsIndex, Buckets, DataType
<1>4. \A b \in Buckets(x) :
          /\ x.run[b] <= b /\ x.lazy[x.lazy[b]] = x.lazy[b]
          /\ \A c \in x.run[b] .. b : x.run[c] = x.run[b]
  BY DEF Shaped
<1>5. \A b \in Buckets(x) : b \in Nat /\ x.run[b] \in Nat
  <2>1. \A b \in Buckets(x) : b \in Nat
    BY <1>2 DEF Buckets
  <2>2. \A b \in Buckets(x) : x.run[b] \in Buckets(x)
    BY <1>3
  <2> QED
    BY <2>1, <2>2
<1>6. \A b \in Buckets(x) : x.run[x.run[b]] = x.run[b]
  <2> SUFFICES ASSUME NEW b \in Buckets(x) PROVE x.run[x.run[b]] = x.run[b]
    OBVIOUS
  <2>1. x.run[b] \in x.run[b] .. b
    BY <1>4, <1>5
  <2> QED
    BY <1>4, <2>1
<1>7. /\ x.root_is_leaf \in BOOLEAN /\ x.fanout \in {2^n : n \in 0 .. MaxFanout}
      /\ Span % x.fanout = 0
  BY <1>1, Zenon DEF IsIndex
<1>8. x = [root_is_leaf |-> x.root_is_leaf, fanout |-> x.fanout, run |-> x.run,
           lazy |-> x.lazy, leaf |-> x.leaf, data |-> x.data]
  BY DEF Shaped
<1> QED
  BY <1>2, <1>3, <1>4, <1>5, <1>6, <1>7, <1>8

\* The converse, with all there is to show.
LEMMA ShapedByParts ==
    ASSUME NEW r \in BOOLEAN, NEW f, NEW run, NEW lazy, NEW leaf, NEW data,
           f \in {2^n : n \in 0 .. MaxFanout}, Span % f = 0,
           run \in [0 .. (f - 1) -> 0 .. (f - 1)],
           lazy \in [0 .. (f - 1) -> 0 .. (f - 1)],
           leaf \in [0 .. (f - 1) -> 0 .. (f - 1)],
           \A b \in 0 .. (f - 1) :
               /\ run[lazy[b]] = run[b] /\ run[leaf[b]] = run[b]
               /\ leaf[lazy[b]] = leaf[b]
               /\ run[b] <= b /\ lazy[lazy[b]] = lazy[b]
               /\ \A c \in run[b] .. b : run[c] = run[b],
           DOMAIN data = {leaf[b] : b \in 0 .. (f - 1)},
           \A b \in DOMAIN data : data[b] \in DataType
    PROVE  Shaped([root_is_leaf |-> r, fanout |-> f, run |-> run,
                   lazy |-> lazy, leaf |-> leaf, data |-> data])
<1> DEFINE x == [root_is_leaf |-> r, fanout |-> f, run |-> run,
                 lazy |-> lazy, leaf |-> leaf, data |-> data]
<1>1. /\ x.root_is_leaf = r /\ x.fanout = f /\ x.run = run /\ x.lazy = lazy
      /\ x.leaf = leaf /\ x.data = data
  OBVIOUS
<1>2. x = [root_is_leaf |-> x.root_is_leaf, fanout |-> x.fanout, run |-> x.run,
           lazy |-> x.lazy, leaf |-> x.leaf, data |-> x.data]
  BY <1>1
<1> HIDE DEF x
<1>3. IsIndex(x)
  <2>1. /\ x.root_is_leaf \in BOOLEAN
        /\ x.fanout \in {2^n : n \in 0 .. MaxFanout} /\ Span % x.fanout = 0
    BY <1>1, Zenon
  <2>2. /\ x.run \in [0 .. (x.fanout - 1) -> 0 .. (x.fanout - 1)]
        /\ x.lazy \in [0 .. (x.fanout - 1) -> 0 .. (x.fanout - 1)]
        /\ x.leaf \in [0 .. (x.fanout - 1) -> 0 .. (x.fanout - 1)]
    BY <1>1
  <2>3. \A b \in 0 .. (x.fanout - 1) :
            /\ x.run[x.lazy[b]] = x.run[b] /\ x.run[x.leaf[b]] = x.run[b]
            /\ x.leaf[x.lazy[b]] = x.leaf[b]
    BY <1>1
  <2>4. DOMAIN x.data = {x.leaf[b] : b \in 0 .. (x.fanout - 1)}
    BY <1>1
  <2>5. \A b \in DOMAIN x.data : x.data[b] \in DataType
    BY <1>1
  <2> QED
    BY <2>1, <2>2, <2>3, <2>4, <2>5, Zenon DEF IsIndex, DataType
<1>4. \A b \in Buckets(x) :
          /\ x.run[b] <= b /\ x.lazy[x.lazy[b]] = x.lazy[b]
          /\ \A c \in x.run[b] .. b : x.run[c] = x.run[b]
  BY <1>1 DEF Buckets
<1>5. Shaped(x)
  BY <1>2, <1>3, <1>4 DEF Shaped
<1> QED
  BY <1>5 DEF x

\* New data for the leaves.
LEMMA NewDataKeepsShape ==
    ASSUME NEW x, Shaped(x), NEW D, DOMAIN D = DOMAIN x.data,
           \A b \in DOMAIN D : D[b] \in DataType
    PROVE  LET y == [x EXCEPT !.data = D]
           IN  /\ Shaped(y) /\ y.data = D
               /\ y.root_is_leaf = x.root_is_leaf /\ y.fanout = x.fanout
               /\ y.run = x.run /\ y.lazy = x.lazy /\ y.leaf = x.leaf
<1> DEFINE y == [x EXCEPT !.data = D]
<1>1. /\ x = [root_is_leaf |-> x.root_is_leaf, fanout |-> x.fanout, run |-> x.run,
              lazy |-> x.lazy, leaf |-> x.leaf, data |-> x.data]
      /\ x.root_is_leaf \in BOOLEAN
      /\ x.fanout \in {2^n : n \in 0 .. MaxFanout} /\ Span % x.fanout = 0
      /\ x.run \in [0 .. (x.fanout - 1) -> 0 .. (x.fanout - 1)]
      /\ x.lazy \in [0 .. (x.fanout - 1) -> 0 .. (x.fanout - 1)]
      /\ x.leaf \in [0 .. (x.fanout - 1) -> 0 .. (x.fanout - 1)]
      /\ \A b \in 0 .. (x.fanout - 1) :
             /\ x.run[x.lazy[b]] = x.run[b] /\ x.run[x.leaf[b]] = x.run[b]
             /\ x.leaf[x.lazy[b]] = x.leaf[b]
             /\ x.run[b] <= b /\ x.lazy[x.lazy[b]] = x.lazy[b]
             /\ \A c \in x.run[b] .. b : x.run[c] = x.run[b]
      /\ DOMAIN x.data = {x.leaf[b] : b \in 0 .. (x.fanout - 1)}
  BY ShapedFacts, Zenon DEF Buckets
<1>2. y = [root_is_leaf |-> x.root_is_leaf, fanout |-> x.fanout, run |-> x.run,
           lazy |-> x.lazy, leaf |-> x.leaf, data |-> D]
  <2>1. x = [root_is_leaf |-> x.root_is_leaf, fanout |-> x.fanout, run |-> x.run,
             lazy |-> x.lazy, leaf |-> x.leaf, data |-> x.data]
    BY ShapedFacts
  <2>2. ASSUME NEW a, NEW b, NEW c, NEW d, NEW e, NEW g,
               x = [root_is_leaf |-> a, fanout |-> b, run |-> c,
                    lazy |-> d, leaf |-> e, data |-> g]
        PROVE  y = [root_is_leaf |-> a, fanout |-> b, run |-> c,
                    lazy |-> d, leaf |-> e, data |-> D]
    BY <2>2
  <2> HIDE DEF y
  <2> QED
    BY <2>1, <2>2
<1>3. Shaped([root_is_leaf |-> x.root_is_leaf, fanout |-> x.fanout, run |-> x.run,
              lazy |-> x.lazy, leaf |-> x.leaf, data |-> D])
  BY <1>1, ShapedByParts
<1> QED
  BY <1>2, <1>3

\* The bucket of a cell.
LEMMA BucketOfCell ==
    ASSUME NEW x, Shaped(x), NEW k \in 0 .. (Span - 1)
    PROVE  /\ BucketIn(x, k) \in Buckets(x)
           /\ \A q \in Nat : BucketIn(x, k) = q <=>
                                 /\ q * Span <= k * x.fanout
                                 /\ k * x.fanout < (q + 1) * Span
<1> DEFINE f == x.fanout
           p == k * f
<1>1. f \in Nat /\ f > 0 /\ Span \in Nat /\ Span > 0 /\ k \in Nat /\ k < Span
  BY ShapedFacts, WidthFacts
<1>2. p \in Nat /\ p < f * Span
  <2>1. \A u, v, w \in Nat : u < v /\ w > 0 => u * w < v * w
    <3> SUFFICES ASSUME NEW u \in Nat, NEW v \in Nat, NEW w \in Nat, u < v, w > 0
                 PROVE  u * w < v * w
      OBVIOUS
    <3>1. v * w = u * w + (v - u) * w /\ (v - u) * w > 0 /\ u * w \in Nat
      OBVIOUS
    <3>2. (v - u) * w \in Int
      OBVIOUS
    <3> QED
      BY <3>1, <3>2
  <2>2. k * f < Span * f /\ Span * f = f * Span /\ k * f \in Nat
    BY <1>1, <2>1
  <2> QED
    BY <2>2
<1>3. /\ p \div Span \in Nat /\ (p \div Span) * Span <= p
      /\ p < ((p \div Span) + 1) * Span
  <2>1. \A u, v \in Nat : v > 0 => u \div v \in Nat /\ (u \div v) * v <= u
                                   /\ u < ((u \div v) + 1) * v
    OBVIOUS
  <2> QED
    BY <1>1, <1>2, <2>1
<1> DEFINE b == p \div Span
<1>4. BucketIn(x, k) = b
  BY DEF BucketIn
<1> HIDE DEF p, b, f
<1>5. b \in Nat /\ b * Span <= p /\ p < (b + 1) * Span
  BY <1>3 DEF b
<1>6. \A u, v \in Nat : u * Span <= p /\ p < (v + 1) * Span => u <= v
  <2> SUFFICES ASSUME NEW u \in Nat, NEW v \in Nat, u * Span <= p, p < (v + 1) * Span, u > v
               PROVE  FALSE
    BY <1>1
  <2>1. u * Span = (v + 1) * Span + (u - v - 1) * Span /\ (u - v - 1) * Span >= 0
    BY <1>1
  <2>2. u * Span \in Nat /\ (v + 1) * Span \in Nat /\ (u - v - 1) * Span \in Int
    BY <1>1
  <2> QED
    BY <1>2, <2>1, <2>2
<1>7. b < f
  <2> SUFFICES ASSUME f <= b PROVE FALSE
    BY <1>1, <1>5
  <2>1. b * Span = f * Span + (b - f) * Span /\ (b - f) * Span >= 0
    BY <1>1, <1>5
  <2>2. b * Span \in Nat /\ f * Span \in Nat /\ (b - f) * Span \in Int
    BY <1>1, <1>5
  <2> QED
    BY <1>2, <1>5, <2>1, <2>2
<1>8. \A q \in Nat : b = q <=> q * Span <= p /\ p < (q + 1) * Span
  <2> SUFFICES ASSUME NEW q \in Nat, q * Span <= p, p < (q + 1) * Span PROVE b = q
    BY <1>5
  <2>1. b <= q /\ q <= b
    BY <1>5, <1>6
  <2> QED
    BY <1>5, <2>1
<1>9. b \in Buckets(x)
  BY <1>1, <1>5, <1>7 DEF Buckets, f
<1> QED
  BY <1>4, <1>8, <1>9 DEF p, f

\* An index that is a leaf.
LEMMA RootLeafFacts ==
    ASSUME NEW K \in SUBSET (0 .. (Span - 1))
    PROVE  LET x == RootLeaf(K)
           IN  /\ Shaped(x) /\ LeafForRun(x) /\ Routed(x, K)
               /\ \A b \in DOMAIN x.data :
                      Unshared(x.data[b])
<1> DEFINE zero == [b \in {0} |-> 0]
           data == [b \in {0} |-> NewLeaf(K, "none")]
           x == RootLeaf(K)
<1>1. x = [root_is_leaf |-> TRUE, fanout |-> 1, run |-> zero, lazy |-> zero,
           leaf |-> zero, data |-> data]
  BY DEF RootLeaf
<1>2. 0 .. (1 - 1) = {0}
  OBVIOUS
<1>3. 1 \in {2^n : n \in 0 .. MaxFanout} /\ Span % 1 = 0
  <2>1. 0 \in 0 .. MaxFanout
    <3>1. PICK n \in 0 .. MaxFanout : MaxFanout = 2^n
      BY FanoutsAreBounded
    <3> QED
      BY <3>1
  <2>2. 1 = 2^0
    BY PowerFacts
  <2>3. 1 \in {2^n : n \in 0 .. MaxFanout}
    BY <2>1, <2>2, Zenon
  <2>4. Span % 1 = 0
    BY WidthFacts
  <2> QED
    BY <2>3, <2>4
<1>4. NewLeaf(K, "none") \in DataType
  BY DEF NewLeaf, DataType
<1>5. Shaped(x)
  <2>1. /\ zero \in [0 .. (1 - 1) -> 0 .. (1 - 1)]
        /\ DOMAIN data = {zero[b] : b \in 0 .. (1 - 1)}
        /\ \A b \in DOMAIN data : data[b] \in DataType
    BY <1>2, <1>4
  <2>2. \A b \in 0 .. (1 - 1) :
            /\ zero[zero[b]] = zero[b] /\ zero[b] <= b
            /\ \A c \in zero[b] .. b : zero[c] = zero[b]
    BY <1>2
  <2> HIDE DEF zero, data
  <2>3. Shaped([root_is_leaf |-> TRUE, fanout |-> 1, run |-> zero, lazy |-> zero,
                leaf |-> zero, data |-> data])
    BY <1>3, <2>1, <2>2, ShapedByParts
  <2> QED
    BY <1>1, <2>3
<1>6. x.fanout = 1 /\ x.leaf = zero /\ x.run = zero /\ x.data = data
  BY <1>1
<1>7. Routed(x, K)
  <2> SUFFICES ASSUME NEW k \in 0 .. (Span - 1)
               PROVE  k \in x.data[x.leaf[BucketIn(x, k)]].keys <=> k \in K
    BY DEF Routed
  <2>1. BucketIn(x, k) = 0
    BY <1>2, <1>5, <1>6, BucketOfCell DEF Buckets
  <2> QED
    BY <1>6, <2>1 DEF NewLeaf
<1>8. \A b \in DOMAIN x.data : Unshared(x.data[b])
  BY <1>6 DEF NewLeaf, Unshared
<1>9. LeafForRun(x)
  BY <1>6 DEF LeafForRun
<1> QED
  BY <1>5, <1>7, <1>8, <1>9

\* An index with the same keys in its leaves.
LEMMA SameKeysAreRouted ==
    ASSUME NEW x, Shaped(x), NEW y, y.fanout = x.fanout, y.leaf = x.leaf,
           \A b \in DOMAIN x.data : y.data[b].keys = x.data[b].keys,
           NEW K, Routed(x, K)
    PROVE  Routed(y, K)
<1> SUFFICES ASSUME NEW k \in 0 .. (Span - 1)
             PROVE  k \in y.data[y.leaf[BucketIn(y, k)]].keys <=> k \in K
  BY DEF Routed
<1>1. BucketIn(y, k) = BucketIn(x, k)
  BY DEF BucketIn
<1>2. x.leaf[BucketIn(x, k)] \in DOMAIN x.data
  BY BucketOfCell, ShapedFacts
<1> QED
  BY <1>1, <1>2 DEF Routed

\* An index with a key more in the leaf that is its.
LEMMA AddedKeyIsRouted ==
    ASSUME NEW x, Shaped(x), NEW y, y.fanout = x.fanout, y.leaf = x.leaf,
           NEW key \in 0 .. (Span - 1),
           \A b \in DOMAIN x.data :
               y.data[b].keys = IF b = x.leaf[BucketIn(x, key)]
                                THEN x.data[b].keys \cup {key} ELSE x.data[b].keys,
           NEW K, Routed(x, K)
    PROVE  Routed(y, K \cup {key})
<1> SUFFICES ASSUME NEW k \in 0 .. (Span - 1)
             PROVE  k \in y.data[y.leaf[BucketIn(y, k)]].keys <=> k \in K \cup {key}
  BY DEF Routed
<1>1. BucketIn(y, k) = BucketIn(x, k)
  BY DEF BucketIn
<1>2. x.leaf[BucketIn(x, k)] \in DOMAIN x.data
  BY BucketOfCell, ShapedFacts
<1>3. k \in x.data[x.leaf[BucketIn(x, k)]].keys <=> k \in K
  BY DEF Routed
<1> QED
  BY <1>1, <1>2, <1>3

\* What consume_chunk leaves alone.
LEMMA ConsumedFacts ==
    ASSUME NEW data \in DataType
    PROVE  /\ Consumed(data) \in DataType
           /\ Consumed(data).keys = data.keys /\ Consumed(data).chunk = data.chunk
           /\ Consumed(data).links = data.links
           /\ Consumed(data).arrays = IF data.arrays = "page" THEN "mapped" ELSE data.arrays
BY DEF Consumed, DataType

\* The index after the child in a bucket was recovered.
LEMMA GotFacts ==
    ASSUME Shaped(index), NEW b \in Buckets(index)
    PROVE  LET got == Got(b)
           IN  /\ Shaped(got)
               /\ got.root_is_leaf = index.root_is_leaf /\ got.fanout = index.fanout
               /\ got.run = index.run /\ got.lazy = index.lazy /\ got.leaf = index.leaf
               /\ DOMAIN got.data = DOMAIN index.data
               /\ \A i \in DOMAIN index.data :
                      got.data[i] = IF i = index.leaf[b] THEN Consumed(index.data[i])
                                    ELSE index.data[i]
<1> DEFINE i == index.leaf[b]
           D == [index.data EXCEPT ![i] = Consumed(index.data[i])]
<1>1. i \in DOMAIN index.data /\ index.data[i] \in DataType
      /\ \A j \in DOMAIN index.data : index.data[j] \in DataType
  BY ShapedFacts
<1>2. "data" \in DOMAIN index
  <2>1. index = [root_is_leaf |-> index.root_is_leaf, fanout |-> index.fanout,
                 run |-> index.run, lazy |-> index.lazy, leaf |-> index.leaf,
                 data |-> index.data]
    BY ShapedFacts
  <2> QED
    BY <2>1
<1>3. Got(b) = [index EXCEPT !.data = D]
  BY <1>1, <1>2 DEF Got
<1>4. DOMAIN D = DOMAIN index.data
      /\ \A j \in DOMAIN D : D[j] = IF j = i THEN Consumed(index.data[j]) ELSE index.data[j]
  BY <1>1
<1>5. \A j \in DOMAIN D : D[j] \in DataType
  BY <1>1, <1>4, ConsumedFacts
<1> HIDE DEF D
<1> QED
  BY <1>3, <1>4, <1>5, NewDataKeepsShape

\* The other lazy nodes and leaves that an index may get.
LEMMA RenamedKeepsShape ==
    ASSUME NEW x, Shaped(x), NEW lazy, NEW leaf, NEW D,
           lazy \in [Buckets(x) -> Buckets(x)], leaf \in [Buckets(x) -> Buckets(x)],
           \A b \in Buckets(x) : /\ x.run[lazy[b]] = x.run[b] /\ x.run[leaf[b]] = x.run[b]
                                 /\ leaf[lazy[b]] = leaf[b] /\ lazy[lazy[b]] = lazy[b],
           \A i : i \in DOMAIN D <=> \E b \in Buckets(x) : i = leaf[b],
           \A b \in DOMAIN D : D[b] \in DataType,
           NEW y, y = [root_is_leaf |-> x.root_is_leaf, fanout |-> x.fanout, run |-> x.run,
                       lazy |-> lazy, leaf |-> leaf, data |-> D]
    PROVE  /\ Shaped(y) /\ y.data = D /\ y.lazy = lazy /\ y.leaf = leaf
           /\ y.root_is_leaf = x.root_is_leaf /\ y.fanout = x.fanout /\ y.run = x.run
<1> DEFINE f == x.fanout
<1>1. /\ x.root_is_leaf \in BOOLEAN
      /\ f \in {2^n : n \in 0 .. MaxFanout} /\ Span % f = 0
      /\ x.run \in [0 .. (f - 1) -> 0 .. (f - 1)]
      /\ x.lazy \in [0 .. (f - 1) -> 0 .. (f - 1)]
      /\ x.leaf \in [0 .. (f - 1) -> 0 .. (f - 1)]
      /\ DOMAIN x.run = 0 .. (f - 1)
  <2>1. /\ x.root_is_leaf \in BOOLEAN
        /\ f \in {2^n : n \in 0 .. MaxFanout} /\ Span % f = 0
        /\ x.run \in [0 .. (f - 1) -> 0 .. (f - 1)]
        /\ x.lazy \in [0 .. (f - 1) -> 0 .. (f - 1)]
        /\ x.leaf \in [0 .. (f - 1) -> 0 .. (f - 1)]
    BY ShapedFacts, Zenon DEF Buckets
  <2> QED
    BY <2>1
<1>2. \A b \in 0 .. (f - 1) :
          x.run[b] <= b /\ \A c \in x.run[b] .. b : x.run[c] = x.run[b]
  <2>1. \A b \in Buckets(x) :
            x.run[b] <= b /\ \A c \in x.run[b] .. b : x.run[c] = x.run[b]
    BY ShapedFacts
  <2> QED
    BY <2>1, Zenon DEF Buckets
<1>3. y = [root_is_leaf |-> x.root_is_leaf, fanout |-> f, run |-> x.run,
           lazy |-> lazy, leaf |-> leaf, data |-> D]
  OBVIOUS
<1> HIDE DEF f
<1>4. /\ lazy \in [0 .. (f - 1) -> 0 .. (f - 1)] /\ leaf \in [0 .. (f - 1) -> 0 .. (f - 1)]
  BY Zenon DEF f, Buckets
<1>5. \A b \in 0 .. (f - 1) :
          /\ x.run[lazy[b]] = x.run[b] /\ x.run[leaf[b]] = x.run[b]
          /\ leaf[lazy[b]] = leaf[b] /\ lazy[lazy[b]] = lazy[b]
  BY Zenon DEF f, Buckets
<1>6. DOMAIN D = {leaf[b] : b \in 0 .. (f - 1)}
  BY DEF Buckets, f
<1>7. Shaped([root_is_leaf |-> x.root_is_leaf, fanout |-> f, run |-> x.run,
              lazy |-> lazy, leaf |-> leaf, data |-> D])
  <2>1. \A b \in 0 .. (f - 1) :
            /\ x.run[lazy[b]] = x.run[b] /\ x.run[leaf[b]] = x.run[b]
            /\ leaf[lazy[b]] = leaf[b]
            /\ x.run[b] <= b /\ lazy[lazy[b]] = lazy[b]
            /\ \A c \in x.run[b] .. b : x.run[c] = x.run[b]
    BY <1>2, <1>5, Zenon
  <2> QED
    BY <1>1, <1>4, <1>6, <2>1, ShapedByParts
<1>8. Shaped(y)
  BY <1>3, <1>7, Zenon
<1> QED
  BY <1>3, <1>8 DEF f

\* copy_tree_recursive: a leaf for each run, with the keys it had.
LEMMA CopyFacts ==
    ASSUME NEW x, Shaped(x), LeafForRun(x)
    PROVE  LET y == copy_tree_recursive(x)
           IN  /\ Shaped(y) /\ LeafForRun(y) /\ y.root_is_leaf = x.root_is_leaf
               /\ y.run = x.run
               /\ \A K : Routed(x, K) => Routed(y, K)
               /\ \A b \in DOMAIN y.data :
                      /\ b \in DOMAIN x.data /\ y.data[b].arrays = "heap"
                      /\ y.data[b].chunk = x.data[b].chunk
                      /\ y.data[b].links = x.data[b].links
<1> DEFINE lazy == [b \in DOMAIN x.run |-> b]
           CopyOf(b) == [x.data[x.leaf[b]] EXCEPT !.arrays = "heap"]
           D == [b \in {x.run[c] : c \in DOMAIN x.run} |-> CopyOf(b)]
           y == copy_tree_recursive(x)
<1>1. y = [root_is_leaf |-> x.root_is_leaf, fanout |-> x.fanout, run |-> x.run,
           lazy |-> lazy, leaf |-> x.run, data |-> D]
  <2> DEFINE leaf == x.run
             x1 == [x EXCEPT !.lazy = lazy]
             x2 == [x1 EXCEPT !.leaf = leaf]
             x3 == [x2 EXCEPT !.data = D]
  <2>1. y = [x EXCEPT !.lazy = lazy, !.leaf = leaf, !.data = D]
    BY DEF copy_tree_recursive
  <2> HIDE DEF lazy, leaf, D, y
  <2>2. y = x3
    BY <2>1
  <2>3. x = [root_is_leaf |-> x.root_is_leaf, fanout |-> x.fanout, run |-> x.run,
             lazy |-> x.lazy, leaf |-> x.leaf, data |-> x.data]
    BY ShapedFacts
  <2>4. x1 = [root_is_leaf |-> x.root_is_leaf, fanout |-> x.fanout, run |-> x.run,
              lazy |-> lazy, leaf |-> x.leaf, data |-> x.data]
    BY <2>3
  <2> HIDE DEF x1
  <2>5. x2 = [root_is_leaf |-> x.root_is_leaf, fanout |-> x.fanout, run |-> x.run,
              lazy |-> lazy, leaf |-> leaf, data |-> x.data]
    BY <2>4
  <2> HIDE DEF x2
  <2>6. x3 = [root_is_leaf |-> x.root_is_leaf, fanout |-> x.fanout, run |-> x.run,
              lazy |-> lazy, leaf |-> leaf, data |-> D]
    BY <2>5
  <2> QED
    BY <2>2, <2>6 DEF leaf
<1>2. /\ x.leaf = x.run /\ DOMAIN x.run = Buckets(x)
      /\ DOMAIN x.data = {x.run[b] : b \in Buckets(x)}
      /\ \A b \in Buckets(x) : x.run[b] \in Buckets(x) /\ x.run[x.run[b]] = x.run[b]
      /\ \A b \in DOMAIN x.data : x.data[b] \in DataType
  <2>1. /\ x.leaf = x.run /\ x.run \in [Buckets(x) -> Buckets(x)]
        /\ DOMAIN x.data = {x.run[b] : b \in Buckets(x)}
        /\ \A b \in Buckets(x) : x.run[x.run[b]] = x.run[b]
        /\ \A b \in DOMAIN x.data : x.data[b] \in DataType
    BY ShapedFacts DEF LeafForRun
  <2> QED
    BY <2>1
<1>3. DOMAIN D = DOMAIN x.data /\ DOMAIN D = {x.run[b] : b \in Buckets(x)}
  BY <1>2
<1>4. \A b \in DOMAIN D : x.leaf[b] = b /\ b \in DOMAIN x.data
  BY <1>2, <1>3
<1>5. \A b \in DOMAIN D :
          /\ D[b] \in DataType /\ D[b].keys = x.data[b].keys /\ D[b].arrays = "heap"
          /\ D[b].chunk = x.data[b].chunk /\ D[b].links = x.data[b].links
  <2> SUFFICES ASSUME NEW b \in DOMAIN D
               PROVE  /\ D[b] \in DataType /\ D[b].keys = x.data[b].keys
                      /\ D[b].arrays = "heap"
                      /\ D[b].chunk = x.data[b].chunk /\ D[b].links = x.data[b].links
    OBVIOUS
  <2>1. x.leaf[b] = b /\ x.data[b] \in DataType
    BY <1>2, <1>4
  <2>2. D[b] = CopyOf(b)
    BY <1>3
  <2> QED
    BY <2>1, <2>2 DEF DataType
<1> HIDE DEF lazy, D, y
<1>6. /\ Shaped(y) /\ y.data = D /\ y.leaf = x.run
      /\ y.root_is_leaf = x.root_is_leaf /\ y.fanout = x.fanout /\ y.run = x.run
  <2>1. /\ lazy \in [Buckets(x) -> Buckets(x)] /\ x.run \in [Buckets(x) -> Buckets(x)]
        /\ \A b \in Buckets(x) :
               /\ x.run[lazy[b]] = x.run[b] /\ x.run[x.run[b]] = x.run[b]
               /\ lazy[lazy[b]] = lazy[b]
    <3>1. x.run \in [Buckets(x) -> Buckets(x)]
      BY ShapedFacts
    <3> QED
      BY <1>2, <3>1 DEF lazy
  <2>2. \A b \in DOMAIN D : D[b] \in DataType
    BY <1>5
  <2>3. \A i : i \in DOMAIN D <=> \E b \in Buckets(x) : i = x.run[b]
    BY <1>3
  <2> QED
    BY <1>1, <2>1, <2>2, <2>3, RenamedKeepsShape
<1>7. ASSUME NEW K, Routed(x, K) PROVE Routed(y, K)
  <2>1. /\ y.fanout = x.fanout /\ y.leaf = x.leaf
        /\ \A b \in DOMAIN x.data : y.data[b].keys = x.data[b].keys
    BY <1>2, <1>3, <1>5, <1>6
  <2> QED
    BY <1>7, <2>1, SameKeysAreRouted
<1> QED
  BY <1>3, <1>4, <1>5, <1>6, <1>7 DEF LeafForRun, y

\* An index as it is loaded: a leaf for each lazy node, with the keys that its
\* run had when it was saved.
LEMMA LoadedFacts ==
    ASSUME Shaped(archive.index), LeafForRun(archive.index)
    PROVE  LET y == [archive.index EXCEPT
                        !.leaf = LoadedLeaf,
                        !.data = [b \in {LoadedLeaf[c] : c \in DOMAIN LoadedLeaf} |->
                                     LoadedData(archive.index.data[archive.index.leaf[b]])]]
           IN  /\ Shaped(y) /\ y.root_is_leaf = archive.index.root_is_leaf
               /\ y.run = archive.index.run /\ y.fanout = archive.index.fanout
               /\ y.leaf = LoadedLeaf
               /\ \A K : Routed(archive.index, K) => Routed(y, K)
               /\ has_pager /\ ~y.root_is_leaf =>
                      \A b \in DOMAIN y.data : y.data[b].arrays # "none"
               /\ \A b \in DOMAIN y.data :
                      /\ ~Shares(y.data[b]) /\ (y.data[b].chunk # "none" => has_pager)
                      /\ ~has_pager => y.data[b].arrays = "none"
<1> DEFINE y == [archive.index EXCEPT
                    !.leaf = LoadedLeaf,
                    !.data = [b \in {LoadedLeaf[c] : c \in DOMAIN LoadedLeaf} |->
                                 LoadedData(archive.index.data[archive.index.leaf[b]])]]
           x == archive.index
           leaf == LoadedLeaf
           D == [b \in {leaf[c] : c \in DOMAIN leaf} |-> LoadedData(x.data[x.leaf[b]])]
<1>1. y = [root_is_leaf |-> x.root_is_leaf, fanout |-> x.fanout, run |-> x.run,
           lazy |-> x.lazy, leaf |-> leaf, data |-> D]
  <2> DEFINE x1 == [x EXCEPT !.leaf = leaf]
             x2 == [x1 EXCEPT !.data = D]
  <2>1. y = [x EXCEPT !.leaf = leaf, !.data = D]
    OBVIOUS
  <2>2. Shaped(x)
    OBVIOUS
  <2> HIDE DEF x, leaf, D, y
  <2>3. y = x2
    BY <2>1
  <2>4. x = [root_is_leaf |-> x.root_is_leaf, fanout |-> x.fanout, run |-> x.run,
             lazy |-> x.lazy, leaf |-> x.leaf, data |-> x.data]
    BY <2>2, ShapedFacts
  <2>5. x1 = [root_is_leaf |-> x.root_is_leaf, fanout |-> x.fanout, run |-> x.run,
              lazy |-> x.lazy, leaf |-> leaf, data |-> x.data]
    BY <2>4
  <2> HIDE DEF x1
  <2>6. x2 = [root_is_leaf |-> x.root_is_leaf, fanout |-> x.fanout, run |-> x.run,
              lazy |-> x.lazy, leaf |-> leaf, data |-> D]
    BY <2>5
  <2> QED
    BY <2>3, <2>6
<1>2. Shaped(x) /\ LeafForRun(x)
  OBVIOUS
<1>3. leaf \in {x.lazy, x.leaf}
  BY DEF LoadedLeaf
<1> HIDE DEF x
<1>4. /\ x.lazy \in [Buckets(x) -> Buckets(x)] /\ x.leaf \in [Buckets(x) -> Buckets(x)]
      /\ x.leaf = x.run
      /\ DOMAIN x.data = {x.leaf[b] : b \in Buckets(x)}
      /\ \A b \in DOMAIN x.data : x.data[b] \in DataType
      /\ \A b \in Buckets(x) :
             /\ x.run[x.lazy[b]] = x.run[b] /\ x.run[x.leaf[b]] = x.run[b]
             /\ x.leaf[x.lazy[b]] = x.leaf[b] /\ x.lazy[x.lazy[b]] = x.lazy[b]
             /\ x.run[x.run[b]] = x.run[b]
  BY <1>2, ShapedFacts DEF LeafForRun
<1> HIDE DEF leaf
<1>5. leaf \in [Buckets(x) -> Buckets(x)]
  BY <1>3, <1>4
<1>6. \A b \in Buckets(x) :
          /\ x.run[leaf[b]] = x.run[b] /\ leaf[x.lazy[b]] = leaf[b]
          /\ x.leaf[leaf[b]] = x.leaf[b]
  <2>1. CASE leaf = x.lazy
    BY <1>4, <2>1
  <2>2. CASE leaf = x.leaf
    BY <1>4, <2>2
  <2> QED
    BY <1>3, <2>1, <2>2
<1>7. \A i : i \in DOMAIN D <=> \E b \in Buckets(x) : i = leaf[b]
  BY <1>5
<1>8. ASSUME NEW i \in DOMAIN D
      PROVE  /\ x.leaf[i] \in DOMAIN x.data /\ D[i] \in DataType
             /\ D[i].keys = x.data[x.leaf[i]].keys
             /\ has_pager /\ ~x.root_is_leaf => D[i].arrays # "none"
             /\ ~Shares(D[i]) /\ (D[i].chunk # "none" => has_pager)
             /\ ~has_pager => D[i].arrays = "none"
  <2>1. PICK b \in Buckets(x) : i = leaf[b]
    BY <1>7
  <2>2. i \in Buckets(x)
    BY <1>5, <2>1
  <2>3. x.leaf[i] \in DOMAIN x.data /\ x.data[x.leaf[i]] \in DataType
    BY <1>4, <2>2
  <2>4. D[i] = LoadedData(x.data[x.leaf[i]])
    BY <1>7
  <2> QED
    BY <2>3, <2>4 DEF LoadedData, DataType, Shares, x
<1> HIDE DEF D, y
<1>9. /\ Shaped(y) /\ y.data = D /\ y.leaf = leaf
      /\ y.root_is_leaf = x.root_is_leaf /\ y.fanout = x.fanout /\ y.run = x.run
  <2>1. \A b \in Buckets(x) :
            /\ x.run[x.lazy[b]] = x.run[b] /\ x.run[leaf[b]] = x.run[b]
            /\ leaf[x.lazy[b]] = leaf[b] /\ x.lazy[x.lazy[b]] = x.lazy[b]
    BY <1>4, <1>6
  <2>2. \A b \in DOMAIN D : D[b] \in DataType
    BY <1>8
  <2>3. x.lazy \in [Buckets(x) -> Buckets(x)]
    BY <1>4
  <2> QED
    BY <1>1, <1>2, <1>5, <1>7, <2>1, <2>2, <2>3, RenamedKeepsShape
<1>10. ASSUME NEW K, Routed(x, K) PROVE Routed(y, K)
  <2> SUFFICES ASSUME NEW k \in 0 .. (Span - 1)
               PROVE  k \in y.data[y.leaf[BucketIn(y, k)]].keys <=> k \in K
    BY DEF Routed
  <2> DEFINE b == BucketIn(x, k)
  <2>1. BucketIn(y, k) = b
    BY <1>9 DEF BucketIn
  <2>2. b \in Buckets(x)
    BY <1>2, BucketOfCell
  <2> HIDE DEF b
  <2>3. leaf[b] \in DOMAIN D /\ x.leaf[leaf[b]] = x.leaf[b]
    BY <1>6, <1>7, <2>2
  <2>4. y.data[y.leaf[b]].keys = x.data[x.leaf[b]].keys
    BY <1>8, <1>9, <2>3
  <2> QED
    BY <1>10, <2>1, <2>4 DEF Routed, b
<1> QED
  BY <1>8, <1>9, <1>10 DEF x, leaf, y

\* The chunks made when an index is saved.
LEMMA SavedFacts ==
    ASSUME NEW x, Shaped(x)
    PROVE  LET y == [x EXCEPT !.data = [b \in DOMAIN @ |-> to_chunk(@[b])]]
           IN  /\ Shaped(y) /\ y.run = x.run /\ y.leaf = x.leaf
               /\ y.root_is_leaf = x.root_is_leaf /\ y.fanout = x.fanout
               /\ \A K : Routed(x, K) => Routed(y, K)
               /\ DOMAIN y.data = DOMAIN x.data
               /\ \A b \in DOMAIN y.data :
                      /\ y.data[b].arrays = x.data[b].arrays
                      /\ y.data[b].links = x.data[b].links
                      /\ y.data[b].chunk = IF has_pager THEN "fresh" ELSE x.data[b].chunk
<1> DEFINE D == [b \in DOMAIN x.data |-> to_chunk(x.data[b])]
           y == [x EXCEPT !.data = [b \in DOMAIN @ |-> to_chunk(@[b])]]
<1>1. y = [x EXCEPT !.data = D]
  OBVIOUS
<1>2. \A b \in DOMAIN x.data : x.data[b] \in DataType
  BY ShapedFacts
<1>3. \A b \in DOMAIN x.data :
          /\ D[b] \in DataType /\ D[b].keys = x.data[b].keys
          /\ D[b].arrays = x.data[b].arrays /\ D[b].links = x.data[b].links
          /\ D[b].chunk = IF has_pager THEN "fresh" ELSE x.data[b].chunk
  BY <1>2 DEF to_chunk, DataType
<1>4. DOMAIN D = DOMAIN x.data
  OBVIOUS
<1> HIDE DEF D, y
<1>5. /\ Shaped(y) /\ y.data = D
      /\ y.root_is_leaf = x.root_is_leaf /\ y.fanout = x.fanout
      /\ y.run = x.run /\ y.leaf = x.leaf
  <2>1. \A b \in DOMAIN D : D[b] \in DataType
    BY <1>3, <1>4
  <2> QED
    BY <1>1, <1>4, <2>1, NewDataKeepsShape
<1>6. \A K : Routed(x, K) => Routed(y, K)
  <2>1. \A b \in DOMAIN x.data : y.data[b].keys = x.data[b].keys
    BY <1>3, <1>5
  <2> QED
    BY <1>5, <2>1, SameKeysAreRouted
<1> QED
  BY <1>3, <1>4, <1>5, <1>6 DEF y

\* An index whose leaves have lost their links.
LEMMA UnlinkedFacts ==
    ASSUME NEW x, Shaped(x)
    PROVE  LET y == Unlinked(x)
           IN  /\ Shaped(y) /\ y.run = x.run /\ y.leaf = x.leaf
               /\ y.root_is_leaf = x.root_is_leaf
               /\ \A K : Routed(x, K) => Routed(y, K)
               /\ DOMAIN y.data = DOMAIN x.data
               /\ \A b \in DOMAIN y.data :
                      y.data[b].links = "none" /\ y.data[b].chunk = x.data[b].chunk
<1> DEFINE D == [b \in DOMAIN x.data |-> [x.data[b] EXCEPT !.links = "none"]]
           y == Unlinked(x)
<1>1. y = [x EXCEPT !.data = D]
  BY DEF Unlinked
<1>2. \A b \in DOMAIN x.data : x.data[b] \in DataType
  BY ShapedFacts
<1>3. \A b \in DOMAIN x.data :
          /\ D[b] \in DataType /\ D[b].keys = x.data[b].keys
          /\ D[b].links = "none" /\ D[b].chunk = x.data[b].chunk
  BY <1>2 DEF DataType
<1>4. DOMAIN D = DOMAIN x.data
  OBVIOUS
<1> HIDE DEF D, y
<1>5. /\ Shaped(y) /\ y.data = D
      /\ y.root_is_leaf = x.root_is_leaf /\ y.fanout = x.fanout
      /\ y.run = x.run /\ y.leaf = x.leaf
  BY <1>1, <1>3, <1>4, NewDataKeepsShape
<1>6. \A K : Routed(x, K) => Routed(y, K)
  BY <1>3, <1>5, SameKeysAreRouted
<1> QED
  BY <1>3, <1>4, <1>5, <1>6 DEF y

\* An index whose original was destroyed.
LEMMA OrphanedFacts ==
    ASSUME NEW x, Shaped(x)
    PROVE  LET y == [x EXCEPT !.data = [b \in DOMAIN @ |-> Orphaned(@[b])]]
           IN  /\ Shaped(y) /\ y.run = x.run /\ y.leaf = x.leaf
               /\ y.root_is_leaf = x.root_is_leaf
               /\ \A K : Routed(x, K) => Routed(y, K)
               /\ DOMAIN y.data = DOMAIN x.data
               /\ \A b \in DOMAIN y.data :
                      /\ y.data[b].arrays = x.data[b].arrays
                      /\ y.data[b].chunk # "none" => x.data[b].chunk # "none"
<1> DEFINE D == [b \in DOMAIN x.data |-> Orphaned(x.data[b])]
           y == [x EXCEPT !.data = [b \in DOMAIN @ |-> Orphaned(@[b])]]
<1>1. y = [x EXCEPT !.data = D]
  OBVIOUS
<1>2. \A b \in DOMAIN x.data : x.data[b] \in DataType
  BY ShapedFacts
<1>3. \A b \in DOMAIN x.data :
          /\ D[b] \in DataType /\ D[b].keys = x.data[b].keys
          /\ D[b].arrays = x.data[b].arrays
          /\ D[b].chunk # "none" => x.data[b].chunk # "none"
  BY <1>2 DEF Orphaned, AfterDelete, DataType
<1>4. DOMAIN D = DOMAIN x.data
  OBVIOUS
<1> HIDE DEF D, y
<1>5. /\ Shaped(y) /\ y.data = D
      /\ y.root_is_leaf = x.root_is_leaf /\ y.fanout = x.fanout
      /\ y.run = x.run /\ y.leaf = x.leaf
  BY <1>1, <1>3, <1>4, NewDataKeepsShape
<1>6. \A K : Routed(x, K) => Routed(y, K)
  BY <1>3, <1>5, SameKeysAreRouted
<1> QED
  BY <1>3, <1>4, <1>5, <1>6 DEF y

\* Twice the fanout is a fanout.
LEMMA FanoutDoubles ==
    ASSUME NEW f, f \in {2^n : n \in 0 .. MaxFanout}, 2 * f <= MaxFanout
    PROVE  2 * f \in {2^n : n \in 0 .. MaxFanout} /\ Span % (2 * f) = 0
<1>1. PICK n \in 0 .. MaxFanout : f = 2^n
  OBVIOUS
<1>2. PICK m \in 0 .. MaxFanout : MaxFanout = 2^m
  BY FanoutsAreBounded
<1>3. n \in Nat /\ m \in Nat /\ n + 1 \in Nat
  OBVIOUS
<1>4. 2 * f = 2^(n + 1) /\ f \in Nat /\ 2^m \in Nat
  BY <1>1, <1>3, PowerFacts
<1>5. n + 1 < 2^(n + 1)
  BY <1>3, PowerExceeds
<1>6. n + 1 \in 0 .. MaxFanout
  BY <1>2, <1>3, <1>4, <1>5
<1>7. n + 1 <= m
  <2> SUFFICES ASSUME m < n + 1 PROVE FALSE
    BY <1>3
  <2>1. 2^m < 2^(n + 1)
    BY <1>3, PowerGrows
  <2> QED
    BY <1>2, <1>4, <2>1
<1>8. 2^m = 2^(n + 1) * 2^(m - (n + 1)) /\ m - (n + 1) \in Nat
  <2>1. CASE n + 1 = m
    <3>1. m - (n + 1) = 0 /\ 2^m = 2^(n + 1)
      BY <1>3, <2>1
    <3>2. 2^0 = 1
      BY PowerFacts
    <3> QED
      BY <1>4, <3>1, <3>2
  <2>2. CASE n + 1 < m
    BY <1>3, <2>2, PowerGrows
  <2> QED
    BY <1>3, <1>7, <2>1, <2>2
<1> DEFINE g == 2 * f
           c == 2^(m - (n + 1))
           q == Span \div MaxFanout
<1>9. c \in Nat /\ g \in Nat /\ g > 0 /\ MaxFanout = g * c /\ MaxFanout \in Nat
      /\ MaxFanout > 0
  BY <1>2, <1>3, <1>4, <1>8, PowerFacts
<1>10. q \in Nat /\ Span = q * MaxFanout
  <2>1. \A u, v \in Nat : v > 0 /\ u % v = 0 => u \div v \in Nat /\ u = (u \div v) * v
    OBVIOUS
  <2>2. Span \in Nat /\ Span % MaxFanout = 0
    BY WidthFacts, FanoutsAreBounded
  <2> HIDE DEF c, g
  <2> QED
    BY <1>9, <2>1, <2>2
<1> HIDE DEF c, g, q
<1>11. Span % g = 0
  <2>1. Span = (q * c) * g /\ q * c \in Nat
    BY <1>9, <1>10
  <2> QED
    BY <1>9, <2>1, DivisionIsExact
<1>12. g \in {2^i : i \in 0 .. MaxFanout}
  BY <1>4, <1>6, Zenon DEF g
<1> QED
  BY <1>11, <1>12 DEF g

\* expand: each bucket becomes two, with a leaf for each run.
LEMMA ExpandFacts ==
    ASSUME NEW x, Shaped(x), 2 * x.fanout <= MaxFanout
    PROVE  LET y == expand(x)
           IN  /\ Shaped(y) /\ LeafForRun(y)
               /\ y.root_is_leaf = FALSE /\ y.fanout = 2 * x.fanout
               /\ \A b \in Buckets(y) :
                      b \div 2 \in Buckets(x) /\ y.run[b] = 2 * x.run[b \div 2]
               /\ \A b \in DOMAIN y.data : \E c \in DOMAIN x.data : y.data[b] = x.data[c]
               /\ \A k \in 0 .. (Span - 1) : BucketIn(y, k) \div 2 = BucketIn(x, k)
               /\ LeafForRun(x) => \A K : Routed(x, K) => Routed(y, K)
<1> DEFINE f == x.fanout
           F == 2 * x.fanout
           r == x.run
           run == [b \in 0 .. (F - 1) |-> 2 * x.run[b \div 2]]
           lazy == [b \in DOMAIN run |-> b]
           D == [b \in {run[c] : c \in DOMAIN run} |-> x.data[x.leaf[b \div 2]]]
           y == expand(x)
<1>1. y = [root_is_leaf |-> FALSE, fanout |-> F, run |-> run, lazy |-> lazy,
           leaf |-> run, data |-> D]
  BY DEF expand
<1>2. /\ f \in Nat /\ f > 0 /\ r \in [0 .. (f - 1) -> 0 .. (f - 1)]
      /\ x.leaf \in [0 .. (f - 1) -> 0 .. (f - 1)]
      /\ \A b \in 0 .. (f - 1) :
             /\ r[b] \in 0 .. (f - 1) /\ r[b] <= b /\ r[r[b]] = r[b] /\ r[x.leaf[b]] = r[b]
             /\ \A c \in r[b] .. b : r[c] = r[b]
             /\ x.leaf[b] \in DOMAIN x.data
      /\ \A b \in DOMAIN x.data : x.data[b] \in DataType
  <2>1. /\ f \in Nat /\ f > 0 /\ r \in [Buckets(x) -> Buckets(x)]
        /\ x.leaf \in [Buckets(x) -> Buckets(x)]
        /\ \A b \in Buckets(x) :
               /\ r[b] <= b /\ r[r[b]] = r[b] /\ r[x.leaf[b]] = r[b]
               /\ \A c \in r[b] .. b : r[c] = r[b]
        /\ DOMAIN x.data = {x.leaf[b] : b \in Buckets(x)}
        /\ \A b \in DOMAIN x.data : x.data[b] \in DataType
    BY ShapedFacts
  <2>2. \A b \in Buckets(x) : r[b] \in Buckets(x) /\ x.leaf[b] \in DOMAIN x.data
    BY <2>1
  <2> HIDE DEF r, f
  <2> QED
    BY <2>1, <2>2 DEF Buckets, f
<1>3. F \in {2^n : n \in 0 .. MaxFanout} /\ Span % F = 0
  <2>1. f \in {2^n : n \in 0 .. MaxFanout}
    BY ShapedFacts, Zenon
  <2> QED
    BY <2>1, FanoutDoubles
<1>4. \A b \in 0 .. (F - 1) :
          /\ b \div 2 \in 0 .. (f - 1) /\ 2 * (b \div 2) <= b
          /\ b <= 2 * (b \div 2) + 1 /\ b \in Nat
  BY <1>2
<1>5. \A c \in Nat : (2 * c) \div 2 = c
  OBVIOUS
<1>6. \A b \in 0 .. (F - 1) : run[b] = 2 * r[b \div 2]
  OBVIOUS
<1>7. DOMAIN run = 0 .. (F - 1) /\ F \in Nat /\ F = 2 * f
  BY <1>2
<1>8. \A i : i \in DOMAIN D <=> \E b \in 0 .. (F - 1) : i = run[b]
  OBVIOUS
<1>9. \A i \in DOMAIN D : D[i] = x.data[x.leaf[i \div 2]]
  OBVIOUS
<1>10. \A b \in 0 .. (F - 1) : lazy[b] = b
  OBVIOUS
<1>11. DOMAIN D = {run[b] : b \in 0 .. (F - 1)}
  BY <1>7
<1>12. lazy \in [0 .. (F - 1) -> 0 .. (F - 1)]
  BY <1>7
<1>13. \A b \in 0 .. (F - 1) : run[b] \in 0 .. (F - 1)
  <2> HIDE DEF F, f, r, run
  <2> TAKE b \in 0 .. (F - 1)
  <2>1. r[b \div 2] \in 0 .. (f - 1)
    BY <1>2, <1>4
  <2>2. \A c \in 0 .. (f - 1) : 2 * c \in 0 .. (F - 1)
    BY <1>2, <1>7
  <2> QED
    BY <1>6, <2>1, <2>2
<1>14. run \in [0 .. (F - 1) -> 0 .. (F - 1)]
  <2>1. run = [b \in 0 .. (F - 1) |-> run[b]]
    BY <1>7
  <2> HIDE DEF run, F
  <2> QED
    BY <1>13, <2>1
<1> HIDE DEF f, F, r, run, lazy, D, y
<1>15. \A b \in 0 .. (F - 1) :
           /\ run[b] <= b /\ run[run[b]] = run[b]
           /\ \A c \in run[b] .. b : run[c] = run[b]
  <2> SUFFICES ASSUME NEW b \in 0 .. (F - 1)
               PROVE  /\ run[b] <= b /\ run[run[b]] = run[b]
                      /\ \A c \in run[b] .. b : run[c] = run[b]
    OBVIOUS
  <2> DEFINE h == b \div 2
  <2>1. h \in 0 .. (f - 1) /\ 2 * h <= b /\ b <= 2 * h + 1 /\ run[b] = 2 * r[h]
        /\ b \in Nat
    BY <1>4, <1>6
  <2> HIDE DEF h
  <2>2. r[h] \in 0 .. (f - 1) /\ r[h] <= h /\ r[r[h]] = r[h]
    BY <1>2, <2>1
  <2>3. h \in Nat /\ r[h] \in Nat
    BY <1>2, <2>1, <2>2
  <2>4. run[b] <= b
    BY <2>1, <2>2, <2>3
  <2>5. run[run[b]] = run[b]
    <3>1. run[b] \div 2 = r[h]
      BY <1>5, <2>1, <2>3
    <3> QED
      BY <1>6, <1>13, <2>1, <2>2, <3>1
  <2>6. ASSUME NEW c \in run[b] .. b PROVE run[c] = run[b]
    <3>1. c \in 0 .. (F - 1)
      BY <1>2, <1>7, <2>1, <2>3
    <3>2. c \div 2 \in r[h] .. h
      <4>1. 2 * (c \div 2) <= c /\ c <= 2 * (c \div 2) + 1 /\ c \div 2 \in Nat
        BY <1>2, <1>4, <3>1
      <4>2. 2 * r[h] <= c /\ c <= b
        BY <2>1, <2>3
      <4> QED
        BY <2>1, <2>3, <4>1, <4>2, <3>1, <1>4
    <3>3. r[c \div 2] = r[h]
      BY <1>2, <2>1, <3>2
    <3> QED
      BY <1>6, <2>1, <3>1, <3>3
  <2> QED
    BY <2>4, <2>5, <2>6
<1>16. \A i \in DOMAIN D : i \div 2 \in 0 .. (f - 1) /\ x.leaf[i \div 2] \in DOMAIN x.data
                           /\ D[i] \in DataType
  <2> SUFFICES ASSUME NEW i \in DOMAIN D
               PROVE  i \div 2 \in 0 .. (f - 1) /\ x.leaf[i \div 2] \in DOMAIN x.data
                      /\ D[i] \in DataType
    OBVIOUS
  <2>1. i \in 0 .. (F - 1)
    BY <1>8, <1>13
  <2> QED
    BY <1>2, <1>4, <1>9, <2>1
<1>17. Shaped(y)
  <2>1. \A b \in 0 .. (F - 1) :
            /\ run[lazy[b]] = run[b] /\ run[run[b]] = run[b] /\ run[lazy[b]] = run[b]
            /\ run[b] <= b /\ lazy[lazy[b]] = lazy[b]
            /\ \A c \in run[b] .. b : run[c] = run[b]
    BY <1>10, <1>15
  <2>2. \A i \in DOMAIN D : D[i] \in DataType
    BY <1>16
  <2>3. Shaped([root_is_leaf |-> FALSE, fanout |-> F, run |-> run, lazy |-> lazy,
                leaf |-> run, data |-> D])
    BY <1>3, <1>11, <1>12, <1>14, <2>1, <2>2, ShapedByParts
  <2> QED
    BY <1>1, <2>3
<1>18. /\ y.root_is_leaf = FALSE /\ y.fanout = F /\ y.run = run /\ y.leaf = run
       /\ y.data = D
  BY <1>1
<1>19. \A b \in Buckets(y) : b \div 2 \in Buckets(x) /\ y.run[b] = 2 * x.run[b \div 2]
  BY <1>4, <1>6, <1>18 DEF Buckets, f, r
<1>20. \A b \in DOMAIN y.data : \E c \in DOMAIN x.data : y.data[b] = x.data[c]
  BY <1>9, <1>16, <1>18
<1>21. ASSUME NEW k \in 0 .. (Span - 1) PROVE BucketIn(y, k) \div 2 = BucketIn(x, k)
  <2> DEFINE b == BucketIn(y, k)
             p == k * f
             h == b \div 2
  <2>1. b \in 0 .. (F - 1) /\ b * Span <= k * F /\ k * F < (b + 1) * Span
    <3>1. b \in Buckets(y)
      BY <1>17, BucketOfCell
    <3>2. b \in 0 .. (F - 1) /\ b \in Nat
      BY <1>4, <1>18, <3>1 DEF Buckets
    <3>3. b * Span <= k * y.fanout /\ k * y.fanout < (b + 1) * Span
      BY <1>17, <3>2, BucketOfCell
    <3> QED
      BY <1>18, <3>2, <3>3
  <2> HIDE DEF b
  <2>2. /\ h \in 0 .. (f - 1) /\ 2 * h <= b /\ b <= 2 * h + 1 /\ b \in Nat
    BY <1>4, <2>1
  <2> HIDE DEF h
  <2>3. h \in Nat /\ k \in Nat /\ Span \in Nat /\ f \in Nat /\ Span > 0
    BY <1>2, <2>2, WidthFacts
  <2>4. k * F = 2 * p /\ p \in Nat
    BY <1>7, <2>3
  <2> HIDE DEF p
  <2>5. 2 * (h * Span) <= b * Span
    <3>1. b = 2 * h \/ b = 2 * h + 1
      BY <2>2, <2>3
    <3>2. (2 * h) * Span = 2 * (h * Span) /\ (2 * h + 1) * Span = 2 * (h * Span) + Span
          /\ h * Span \in Nat
      BY <2>3
    <3> QED
      BY <2>3, <3>1, <3>2
  <2>6. (b + 1) * Span <= 2 * ((h + 1) * Span)
    <3>1. b = 2 * h \/ b = 2 * h + 1
      BY <2>2, <2>3
    <3>2. (2 * h + 1) * Span = 2 * (h * Span) + Span
          /\ (2 * h + 2) * Span = 2 * (h * Span) + 2 * Span
          /\ h * Span \in Nat /\ (h + 1) * Span = h * Span + Span
      BY <2>3
    <3>3. b + 1 = 2 * h + 1 \/ b + 1 = 2 * h + 2
      BY <2>2, <2>3, <3>1
    <3> QED
      BY <2>3, <3>2, <3>3
  <2>7. h * Span <= p /\ p < (h + 1) * Span
    <3>1. h * Span \in Nat /\ (h + 1) * Span \in Nat /\ b * Span \in Nat
          /\ (b + 1) * Span \in Nat
      BY <2>2, <2>3
    <3> QED
      BY <2>1, <2>4, <2>5, <2>6, <3>1
  <2>8. BucketIn(x, k) = h
    BY <2>3, <2>7, BucketOfCell DEF p, f
  <2> QED
    BY <2>8 DEF h, b
<1>22. ASSUME LeafForRun(x), NEW K, Routed(x, K) PROVE Routed(y, K)
  <2> SUFFICES ASSUME NEW k \in 0 .. (Span - 1)
               PROVE  k \in y.data[y.leaf[BucketIn(y, k)]].keys <=> k \in K
    BY DEF Routed
  <2> DEFINE b == BucketIn(y, k)
             h == BucketIn(x, k)
  <2>1. b \in 0 .. (F - 1) /\ b \div 2 = h
    BY <1>17, <1>18, <1>21, BucketOfCell DEF Buckets
  <2>2. k \in x.data[x.leaf[h]].keys <=> k \in K
    BY <1>22 DEF Routed
  <2> HIDE DEF b, h
  <2>3. run[b] = 2 * r[h] /\ h \in 0 .. (f - 1)
    BY <1>4, <1>6, <2>1
  <2>4. r[h] \in Nat /\ r[r[h]] = r[h] /\ x.leaf = r
    BY <1>2, <1>22, <2>3 DEF LeafForRun, r
  <2>5. run[b] \div 2 = r[h] /\ run[b] \in DOMAIN D
    BY <1>5, <1>8, <2>1, <2>3, <2>4
  <2>6. D[run[b]] = x.data[x.leaf[h]]
    BY <1>9, <2>4, <2>5
  <2> QED
    BY <1>18, <2>2, <2>6 DEF b
<1>23. LeafForRun(y)
  BY <1>18 DEF LeafForRun
<1> QED
  BY <1>17, <1>18, <1>19, <1>20, <1>21, <1>22, <1>23 DEF y, F

\* The middle of a run of two buckets or more is in the run, and not its first.
LEMMA MiddleOfRun ==
    ASSUME NEW x, Shaped(x), NEW b \in Buckets(x),
           \E c \in Buckets(x) : c # b /\ x.run[c] = x.run[b]
    PROVE  LET buckets == {c \in DOMAIN x.run : x.run[c] = x.run[b]}
               mid == x.run[b] + Cardinality(buckets) \div 2
           IN  /\ buckets = {c \in Buckets(x) : x.run[c] = x.run[b]}
               /\ mid \in Buckets(x) /\ x.run[mid] = x.run[b] /\ x.run[b] < mid
<1> DEFINE buckets == {c \in DOMAIN x.run : x.run[c] = x.run[b]}
           n == Cardinality(buckets)
           s == x.run[b]
           mid == s + n \div 2
<1>1. /\ x.fanout \in Nat /\ x.run \in [Buckets(x) -> Buckets(x)]
      /\ \A c \in Buckets(x) :
             /\ c \in Nat /\ x.run[c] \in Nat /\ x.run[c] <= c
             /\ \A d \in x.run[c] .. c : x.run[d] = x.run[c]
  BY ShapedFacts
<1>2. buckets = {c \in Buckets(x) : x.run[c] = s}
  BY <1>1
<1>3. IsFiniteSet(Buckets(x))
  <2>1. 0 \in Int /\ x.fanout - 1 \in Int
    BY <1>1
  <2> QED
    BY <2>1, FS_Interval DEF Buckets
<1>4. IsFiniteSet(buckets) /\ n \in Nat
  BY <1>2, <1>3, FS_Subset, FS_CardinalityType
<1>5. n >= 2
  <2>1. PICK c \in Buckets(x) : c # b /\ x.run[c] = x.run[b]
    OBVIOUS
  <2>2. {b, c} \subseteq buckets
    BY <1>2, <2>1
  <2>3. Cardinality({b, c}) = 2
    <3>1. IsFiniteSet({b}) /\ Cardinality({b}) = 1
      BY FS_Singleton
    <3>2. {b, c} = {b} \cup {c} /\ c \notin {b}
      BY <2>1
    <3> QED
      BY <3>1, <3>2, FS_AddElement
  <2> QED
    BY <1>4, <2>2, <2>3, FS_Subset
<1>6. \A c \in buckets : c \in Nat /\ s <= c /\ \A d \in s .. c : x.run[d] = s
  BY <1>1, <1>2
<1>7. s \in Nat
  BY <1>1
<1> HIDE DEF n, s
<1>8. mid \in Nat /\ s < mid /\ mid - s < n
  BY <1>4, <1>5, <1>7
<1> HIDE DEF mid
<1>9. \E c \in buckets : mid <= c
  <2> SUFFICES ASSUME \A c \in buckets : ~(mid <= c) PROVE FALSE
    OBVIOUS
  <2>1. buckets \subseteq s .. (mid - 1)
    BY <1>6, <1>7, <1>8
  <2>2. IsFiniteSet(s .. (mid - 1)) /\ Cardinality(s .. (mid - 1)) = mid - s
    BY <1>7, <1>8, FS_Interval
  <2>3. n <= mid - s
    BY <2>1, <2>2, FS_Subset DEF n
  <2> QED
    BY <1>4, <1>7, <1>8, <2>3
<1>10. PICK c \in buckets : mid <= c
  BY <1>9
<1>11. mid \in s .. c
  BY <1>6, <1>7, <1>8, <1>10
<1>12. x.run[mid] = s
  BY <1>6, <1>10, <1>11
<1>13. mid \in Buckets(x)
  <2>1. c \in Buckets(x)
    BY <1>2
  <2> QED
    BY <1>1, <1>8, <1>10, <2>1 DEF Buckets
<1> QED
  BY <1>2, <1>8, <1>12, <1>13 DEF mid, s, n

\* A run divided in two, each half with a leaf of its own for its keys.
LEMMA SplitFacts ==
    ASSUME NEW x, Shaped(x), NEW b \in Buckets(x),
           \E c \in Buckets(x) : c # b /\ x.run[c] = x.run[b],
           NEW key \in 0 .. (Span - 1), x.run[BucketIn(x, key)] = x.run[b]
    PROVE  LET y == SplitInTwo(x, b, key)
           IN  /\ Shaped(y) /\ y.root_is_leaf = x.root_is_leaf /\ y.fanout = x.fanout
               /\ y.run # x.run /\ \A c \in Buckets(x) : x.run[c] <= y.run[c]
               /\ \A i \in DOMAIN y.data :
                      \/ Unshared(y.data[i])
                      \/ i \in DOMAIN x.data /\ y.data[i] = x.data[i]
               /\ LeafForRun(x) =>
                      LeafForRun(y) /\ \A K : Routed(x, K) => Routed(y, K \cup {key})
<1> DEFINE r == x.run
           s == r[b]
           B == Buckets(x)
           buckets == {c \in DOMAIN x.run : x.run[c] = x.run[b]}
           mid == x.run[b] + Cardinality(buckets) \div 2
           K == x.data[x.leaf[b]].keys \cup {key}
           start == [c \in DOMAIN x.run |->
                        IF c \in buckets /\ c >= mid THEN mid ELSE x.run[c]]
           lazy == [c \in DOMAIN x.run |-> IF c \in buckets THEN c ELSE x.lazy[c]]
           leaf == [c \in DOMAIN x.run |-> IF c \in buckets THEN start[c] ELSE x.leaf[c]]
           part(c) == {k \in K : (k * x.fanout) \div Span >= mid <=> c >= mid}
           D == [c \in {leaf[d] : d \in DOMAIN leaf} |->
                    IF c \notin buckets THEN x.data[c] ELSE NewLeaf(part(c), "own")]
           y == SplitInTwo(x, b, key)
<1>1. y = [root_is_leaf |-> x.root_is_leaf, fanout |-> x.fanout, run |-> start,
           lazy |-> lazy, leaf |-> leaf, data |-> D]
  <2> DEFINE x1 == [x EXCEPT !.run = start]
             x2 == [x1 EXCEPT !.lazy = lazy]
             x3 == [x2 EXCEPT !.leaf = leaf]
             x4 == [x3 EXCEPT !.data = D]
  <2>1. y = [x EXCEPT !.run = start, !.lazy = lazy, !.leaf = leaf, !.data = D]
    BY DEF SplitInTwo
  <2> HIDE DEF start, lazy, leaf, D, y
  <2>2. y = x4
    BY <2>1
  <2>3. x = [root_is_leaf |-> x.root_is_leaf, fanout |-> x.fanout, run |-> x.run,
             lazy |-> x.lazy, leaf |-> x.leaf, data |-> x.data]
    BY ShapedFacts
  <2>4. x1 = [root_is_leaf |-> x.root_is_leaf, fanout |-> x.fanout, run |-> start,
              lazy |-> x.lazy, leaf |-> x.leaf, data |-> x.data]
    BY <2>3
  <2> HIDE DEF x1
  <2>5. x2 = [root_is_leaf |-> x.root_is_leaf, fanout |-> x.fanout, run |-> start,
              lazy |-> lazy, leaf |-> x.leaf, data |-> x.data]
    BY <2>4
  <2> HIDE DEF x2
  <2>6. x3 = [root_is_leaf |-> x.root_is_leaf, fanout |-> x.fanout, run |-> start,
              lazy |-> lazy, leaf |-> leaf, data |-> x.data]
    BY <2>5
  <2> HIDE DEF x3
  <2>7. x4 = [root_is_leaf |-> x.root_is_leaf, fanout |-> x.fanout, run |-> start,
              lazy |-> lazy, leaf |-> leaf, data |-> D]
    BY <2>6
  <2> QED
    BY <2>2, <2>7
<1>2. /\ r \in [B -> B] /\ x.lazy \in [B -> B] /\ x.leaf \in [B -> B] /\ DOMAIN x.run = B
      /\ \A c \in B :
             /\ c \in Nat /\ r[c] \in Nat /\ r[c] \in B /\ x.lazy[c] \in B /\ x.leaf[c] \in B
             /\ r[c] <= c /\ \A d \in r[c] .. c : r[d] = r[c]
             /\ r[x.lazy[c]] = r[c] /\ r[x.leaf[c]] = r[c] /\ r[r[c]] = r[c]
             /\ x.leaf[x.lazy[c]] = x.leaf[c] /\ x.lazy[x.lazy[c]] = x.lazy[c]
             /\ x.leaf[c] \in DOMAIN x.data
      /\ \A i \in DOMAIN x.data : x.data[i] \in DataType
  <2>1. /\ r \in [B -> B] /\ x.lazy \in [B -> B] /\ x.leaf \in [B -> B]
        /\ \A c \in B :
               /\ c \in Nat /\ r[c] \in Nat
               /\ r[c] <= c /\ \A d \in r[c] .. c : r[d] = r[c]
               /\ r[x.lazy[c]] = r[c] /\ r[x.leaf[c]] = r[c] /\ r[r[c]] = r[c]
               /\ x.leaf[x.lazy[c]] = x.leaf[c] /\ x.lazy[x.lazy[c]] = x.lazy[c]
        /\ DOMAIN x.data = {x.leaf[c] : c \in B}
        /\ \A i \in DOMAIN x.data : x.data[i] \in DataType
    BY ShapedFacts
  <2> HIDE DEF B, r
  <2>2. \A c \in B : r[c] \in B /\ x.lazy[c] \in B /\ x.leaf[c] \in B
    BY <2>1
  <2> QED
    BY <2>1, <2>2 DEF r
<1>3. \A c : c \in buckets <=> c \in B /\ r[c] = s
  BY <1>2
<1>4. mid \in B /\ r[mid] = s /\ s < mid /\ mid \in Nat /\ s \in Nat
  <2>1. mid \in B /\ r[mid] = s /\ s < mid
    BY MiddleOfRun
  <2> HIDE DEF mid, s, B, r
  <2>2. s \in Nat
    BY <1>2 DEF s, B, r
  <2> QED
    BY <1>2, <2>1, <2>2
<1>5. \A c \in B : /\ start[c] = IF r[c] = s /\ c >= mid THEN mid ELSE r[c]
                   /\ lazy[c] = IF r[c] = s THEN c ELSE x.lazy[c]
                   /\ leaf[c] = IF r[c] = s THEN start[c] ELSE x.leaf[c]
  BY <1>2, <1>3
<1>6. DOMAIN start = B /\ DOMAIN lazy = B /\ DOMAIN leaf = B
  BY <1>2
<1>7. DOMAIN D = {leaf[c] : c \in B}
  BY <1>6
<1>8. \A i : i \in DOMAIN D <=> \E c \in B : i = leaf[c]
  BY <1>7
<1>9. \A i \in DOMAIN D : D[i] = IF i \notin buckets THEN x.data[i]
                                 ELSE NewLeaf(part(i), "own")
  BY <1>7
<1>10. \A c : \A k \in 0 .. (Span - 1) :
           k \in part(c) <=> k \in K /\ (BucketIn(x, k) >= mid <=> c >= mid)
  BY DEF BucketIn
<1>11. /\ start = [c \in B |-> start[c]] /\ lazy = [c \in B |-> lazy[c]]
       /\ leaf = [c \in B |-> leaf[c]]
  BY <1>6
<1>12. \A c : part(c) \subseteq K
  OBVIOUS
<1>13. K \subseteq 0 .. (Span - 1)
  <2>1. x.data[x.leaf[b]] \in DataType
    BY <1>2
  <2> QED
    BY <2>1 DEF DataType
<1>14. \E c \in B : c # b /\ r[c] = s
  OBVIOUS
<1>15. b \in B /\ r[BucketIn(x, key)] = s
  OBVIOUS
<1>16. x.root_is_leaf \in BOOLEAN /\ x.fanout \in {2^n : n \in 0 .. MaxFanout}
       /\ Span % x.fanout = 0 /\ B = 0 .. (x.fanout - 1) /\ x.fanout \in Nat
  BY ShapedFacts, Zenon DEF Buckets
<1>17. r[b] = s
  OBVIOUS
<1> HIDE DEF r, s, B, buckets, mid, start, lazy, leaf, D, y, part
<1>18. \A c \in B :
           /\ start[c] \in B /\ start[c] <= c /\ r[start[c]] = r[c] /\ r[c] <= start[c]
           /\ \A d \in start[c] .. c : start[d] = start[c]
  <2> SUFFICES ASSUME NEW c \in B
               PROVE  /\ start[c] \in B /\ start[c] <= c /\ r[start[c]] = r[c]
                      /\ r[c] <= start[c]
                      /\ \A d \in start[c] .. c : start[d] = start[c]
    OBVIOUS
  <2>1. /\ c \in Nat /\ r[c] \in Nat /\ r[c] \in B /\ r[c] <= c /\ r[r[c]] = r[c]
        /\ \A d \in r[c] .. c : r[d] = r[c] /\ d \in B
    <3>1. \A d \in r[c] .. c : d \in B
      <4>1. c \in 0 .. (x.fanout - 1) /\ x.fanout \in Nat /\ r[c] \in Nat
        BY <1>2, <1>16
      <4> QED
        BY <1>16, <4>1
    <3> QED
      BY <1>2, <3>1
  <2>2. CASE r[c] = s /\ c >= mid
    <3>1. start[c] = mid
      BY <1>5, <2>2
    <3>2. ASSUME NEW d \in mid .. c PROVE start[d] = mid
      <4>1. d \in r[c] .. c /\ d >= mid
        BY <1>4, <2>1, <2>2, <3>2
      <4> QED
        BY <1>5, <2>1, <2>2, <4>1
    <3> QED
      BY <1>4, <2>2, <3>1, <3>2
  <2>3. CASE r[c] = s /\ ~(c >= mid)
    <3>1. start[c] = s
      BY <1>5, <2>3
    <3>2. ASSUME NEW d \in s .. c PROVE start[d] = s
      <4>1. d \in r[c] .. c /\ ~(d >= mid)
        BY <1>4, <2>1, <2>3, <3>2
      <4> QED
        BY <1>5, <2>1, <2>3, <4>1
    <3> QED
      BY <2>1, <2>3, <3>1, <3>2
  <2>4. CASE r[c] # s
    <3>1. start[c] = r[c]
      BY <1>5, <2>4
    <3>2. ASSUME NEW d \in r[c] .. c PROVE start[d] = r[c]
      BY <1>5, <2>1, <2>4, <3>2
    <3> QED
      BY <2>1, <3>1, <3>2
  <2> QED
    BY <2>2, <2>3, <2>4
<1>19. \A c \in B : start[start[c]] = start[c]
  <2> SUFFICES ASSUME NEW c \in B PROVE start[start[c]] = start[c]
    OBVIOUS
  <2>1. start[c] \in start[c] .. c
    BY <1>2, <1>18
  <2> QED
    BY <1>18, <2>1
<1>20. \A c \in B : lazy[c] \in B /\ leaf[c] \in B /\ r[lazy[c]] = r[c] /\ r[leaf[c]] = r[c]
  <2> SUFFICES ASSUME NEW c \in B
               PROVE  /\ lazy[c] \in B /\ leaf[c] \in B
                      /\ r[lazy[c]] = r[c] /\ r[leaf[c]] = r[c]
    OBVIOUS
  <2>1. /\ x.lazy[c] \in B /\ x.leaf[c] \in B
        /\ r[x.lazy[c]] = r[c] /\ r[x.leaf[c]] = r[c]
    BY <1>2
  <2>2. start[c] \in B /\ r[start[c]] = r[c]
    BY <1>18
  <2>3. /\ lazy[c] = IF r[c] = s THEN c ELSE x.lazy[c]
        /\ leaf[c] = IF r[c] = s THEN start[c] ELSE x.leaf[c]
    BY <1>5
  <2> QED
    BY <2>1, <2>2, <2>3
<1>21. \A c \in B :
           /\ start[lazy[c]] = start[c] /\ start[leaf[c]] = start[c]
           /\ leaf[lazy[c]] = leaf[c] /\ lazy[lazy[c]] = lazy[c]
  <2> SUFFICES ASSUME NEW c \in B
               PROVE  /\ start[lazy[c]] = start[c] /\ start[leaf[c]] = start[c]
                      /\ leaf[lazy[c]] = leaf[c] /\ lazy[lazy[c]] = lazy[c]
    OBVIOUS
  <2>1. CASE r[c] = s
    BY <1>5, <1>19, <2>1
  <2>2. CASE r[c] # s
    <3>1. lazy[c] = x.lazy[c] /\ leaf[c] = x.leaf[c] /\ start[c] = r[c]
      BY <1>5, <2>2
    <3>2. x.lazy[c] \in B /\ x.leaf[c] \in B /\ r[x.lazy[c]] = r[c] /\ r[x.leaf[c]] = r[c]
      BY <1>2
    <3>3. start[x.lazy[c]] = r[c] /\ start[x.leaf[c]] = r[c]
      BY <1>5, <2>2, <3>2
    <3>4. leaf[x.lazy[c]] = x.leaf[c] /\ lazy[x.lazy[c]] = x.lazy[c]
      BY <1>2, <1>5, <2>2, <3>2
    <3> QED
      BY <3>1, <3>3, <3>4
  <2> QED
    BY <2>1, <2>2
<1>22. /\ start \in [B -> B] /\ lazy \in [B -> B] /\ leaf \in [B -> B]
  BY <1>11, <1>18, <1>20
<1>23. \A i \in DOMAIN D :
           /\ D[i] \in DataType
           /\ \/ Unshared(D[i])
              \/ i \in DOMAIN x.data /\ D[i] = x.data[i]
  <2> SUFFICES ASSUME NEW i \in DOMAIN D
               PROVE  /\ D[i] \in DataType
                      /\ \/ Unshared(D[i])
                         \/ i \in DOMAIN x.data /\ D[i] = x.data[i]
    OBVIOUS
  <2>1. PICK c \in B : i = leaf[c]
    BY <1>8
  <2>2. CASE r[c] = s
    <3>1. i \in buckets
      BY <1>3, <1>20, <2>1, <2>2
    <3>2. D[i] = NewLeaf(part(i), "own")
      BY <1>9, <3>1
    <3>3. part(i) \subseteq 0 .. (Span - 1)
      BY <1>12, <1>13
    <3> QED
      BY <3>2, <3>3 DEF NewLeaf, DataType, Unshared
  <2>3. CASE r[c] # s
    <3>1. i = x.leaf[c] /\ i \notin buckets
      BY <1>3, <1>5, <1>20, <2>1, <2>3
    <3>2. i \in DOMAIN x.data /\ D[i] = x.data[i]
      BY <1>2, <1>9, <3>1
    <3> QED
      BY <1>2, <3>2
  <2> QED
    BY <2>2, <2>3
<1>24. Shaped(y)
  <2> DEFINE f == x.fanout
  <2> HIDE DEF f
  <2>1. B = 0 .. (f - 1) /\ f \in {2^n : n \in 0 .. MaxFanout} /\ Span % f = 0
    BY <1>16, Zenon DEF f
  <2>2. \A c \in 0 .. (f - 1) :
            /\ start[lazy[c]] = start[c] /\ start[leaf[c]] = start[c]
            /\ leaf[lazy[c]] = leaf[c]
            /\ start[c] <= c /\ lazy[lazy[c]] = lazy[c]
            /\ \A d \in start[c] .. c : start[d] = start[c]
    BY <1>18, <1>21, <2>1
  <2>3. \A i \in DOMAIN D : D[i] \in DataType
    BY <1>23
  <2>4. Shaped([root_is_leaf |-> x.root_is_leaf, fanout |-> f, run |-> start,
                lazy |-> lazy, leaf |-> leaf, data |-> D])
    BY <1>7, <1>16, <1>22, <2>1, <2>2, <2>3, ShapedByParts
  <2> QED
    BY <1>1, <2>4 DEF f
<1>25. /\ y.root_is_leaf = x.root_is_leaf /\ y.fanout = x.fanout /\ y.run = start
       /\ y.lazy = lazy /\ y.leaf = leaf /\ y.data = D
  BY <1>1
<1>26. start # r
  <2>1. start[mid] = mid
    BY <1>4, <1>5
  <2> QED
    BY <1>4, <2>1
<1>27. ASSUME LeafForRun(x) PROVE LeafForRun(y)
  <2>1. x.leaf = r
    BY <1>27 DEF LeafForRun, r
  <2>2. \A c \in B : leaf[c] = start[c]
    BY <1>5, <2>1
  <2>3. leaf = start
    BY <1>11, <2>2
  <2> QED
    BY <1>25, <2>3 DEF LeafForRun
<1>28. ASSUME LeafForRun(x), NEW L, Routed(x, L) PROVE Routed(y, L \cup {key})
  <2> SUFFICES ASSUME NEW k \in 0 .. (Span - 1)
               PROVE  k \in y.data[y.leaf[BucketIn(y, k)]].keys <=> k \in L \cup {key}
    BY DEF Routed
  <2> DEFINE c == BucketIn(x, k)
  <2>1. BucketIn(y, k) = c
    BY <1>25 DEF BucketIn
  <2>2. c \in B
    BY BucketOfCell DEF B
  <2>3. k \in x.data[x.leaf[c]].keys <=> k \in L
    BY <1>28 DEF Routed
  <2>4. x.leaf = r
    BY <1>28 DEF LeafForRun, r
  <2>5. \A d : k \in part(d) <=> k \in K /\ (c >= mid <=> d >= mid)
    BY <1>10
  <2>6. k = key => r[c] = s
    BY <1>15
  <2> HIDE DEF c, K
  <2>7. CASE r[c] = s
    <3>1. leaf[c] = start[c] /\ start[c] \in B /\ r[start[c]] = s
      BY <1>5, <1>18, <2>2, <2>7
    <3>2. start[c] \in buckets /\ start[c] \in DOMAIN D
      BY <1>3, <1>8, <2>2, <3>1
    <3>3. D[leaf[c]] = NewLeaf(part(start[c]), "own")
      BY <1>9, <3>1, <3>2
    <3>4. c >= mid <=> start[c] >= mid
      <4>1. start[c] = IF c >= mid THEN mid ELSE s
        BY <1>5, <2>2, <2>7
      <4> QED
        BY <1>4, <4>1
    <3>5. k \in K <=> k \in L \cup {key}
      <4>1. x.leaf[b] = x.leaf[c]
        BY <1>17, <2>4, <2>7
      <4> QED
        BY <2>3, <4>1 DEF K
    <3>6. k \in D[leaf[c]].keys <=> k \in K
      BY <2>5, <3>3, <3>4 DEF NewLeaf
    <3> QED
      BY <1>25, <2>1, <3>5, <3>6
  <2>8. CASE r[c] # s
    <3>1. leaf[c] = x.leaf[c] /\ leaf[c] \notin buckets /\ leaf[c] \in DOMAIN D
      BY <1>3, <1>5, <1>8, <1>20, <2>2, <2>8
    <3>2. D[leaf[c]] = x.data[x.leaf[c]]
      BY <1>9, <3>1
    <3> QED
      BY <1>25, <2>1, <2>3, <2>6, <2>8, <3>2
  <2> QED
    BY <2>7, <2>8
<1> QED
  BY <1>18, <1>23, <1>24, <1>25, <1>26, <1>27, <1>28 DEF y, r, B

\* The nodes collected take up the buckets of their level, each its own part.
LEMMA NodesTakeBuckets ==
    ASSUME NEW d \in 0 .. MaxLevel, NEW U, Tiled(U, d)
    PROVE  LET s == collect_used_nodes(U, d)
               N == Cardinality(U)
               Start(j) == s[j][2] * 2^(d - s[j][1])
               Size(j) == 2^(d - s[j][1])
           IN  /\ N \in Nat /\ N > 0 /\ Len(s) = N
               /\ \A j \in 1 .. N :
                      /\ s[j] \in U /\ Start(j) \in Nat /\ Size(j) \in Nat
                      /\ Start(j) * Width(d) = Lo(s[j])
                      /\ (Start(j) + Size(j)) * Width(d) = Hi(s[j])
               /\ Start(1) = 0 /\ \A j \in 2 .. N : Start(j) = Start(j - 1) + Size(j - 1)
               /\ \A b \in 0 .. (2^d - 1) :
                      \E j \in 1 .. N : Start(j) <= b /\ b < Start(j) + Size(j)
               /\ \A b \in Nat, i, j \in 1 .. N :
                      /\ Start(i) <= b /\ b < Start(i) + Size(i)
                      /\ Start(j) <= b /\ b < Start(j) + Size(j)
                      => i = j
<1> DEFINE s == collect_used_nodes(U, d)
           N == Cardinality(U)
           Start(j) == s[j][2] * 2^(d - s[j][1])
           Size(j) == 2^(d - s[j][1])
           w == Width(d)
<1>1. N \in Nat /\ N > 0
  BY FiniteNodes
<1>2. /\ s \in [1 .. N -> U]
      /\ \A n \in U : \E j \in 1 .. N : s[j] = n
      /\ \A i, j \in 1 .. N : i < j => Lo(s[i]) < Lo(s[j])
  BY CollectedInOrder
<1>3. /\ Lo(s[1]) = 0
      /\ \A j \in 2 .. N : Hi(s[j - 1]) = Lo(s[j])
  BY NodesAreAdjacent
<1>4. Len(s) = N
  BY <1>1, <1>2
<1>5. /\ w \in Nat /\ w > 0 /\ 2^d \in Nat /\ 2^d > 0 /\ Span = 2^d * w
  BY WidthFacts, PowerFacts
<1> HIDE DEF s, N
<1>6. \A j \in 1 .. N :
          /\ s[j] \in U /\ Start(j) \in Nat /\ Size(j) \in Nat
          /\ Start(j) * w = Lo(s[j]) /\ (Start(j) + Size(j)) * w = Hi(s[j])
  <2> SUFFICES ASSUME NEW j \in 1 .. N
               PROVE  /\ s[j] \in U /\ Start(j) \in Nat /\ Size(j) \in Nat
                      /\ Start(j) * w = Lo(s[j]) /\ (Start(j) + Size(j)) * w = Hi(s[j])
    OBVIOUS
  <2>1. s[j] \in U /\ s[j] \in AllNodes(d)
    BY <1>2 DEF Tiled
  <2>2. /\ Start(j) \in Nat /\ Start(j) * w = Lo(s[j])
        /\ (s[j][2] + 1) * 2^(d - s[j][1]) = Start(j) + Size(j)
        /\ ((s[j][2] + 1) * 2^(d - s[j][1])) * w = Hi(s[j])
    BY <2>1, NodeTakesParts
  <2>3. Size(j) \in Nat
    <3>1. s[j][1] \in 0 .. d
      BY <2>1, NodeIsPart
    <3>2. d - s[j][1] \in Nat
      BY <3>1, WidthFacts
    <3> QED
      BY <3>2, PowerFacts
  <2> HIDE DEF Start, Size
  <2> QED
    BY <2>1, <2>2, <2>3
<1> HIDE DEF Start, Size, w
<1>7. \A u, v \in Nat : u * w = v * w => u = v
  BY <1>5
<1>8. \A u, v \in Nat : (u * w <= v * w <=> u <= v) /\ (u * w < v * w <=> u < v)
  <2> SUFFICES ASSUME NEW u \in Nat, NEW v \in Nat
               PROVE  (u * w <= v * w <=> u <= v) /\ (u * w < v * w <=> u < v)
    OBVIOUS
  <2>1. CASE u <= v
    <3>1. v * w = u * w + (v - u) * w /\ (v - u) * w >= 0 /\ u * w \in Nat /\ (v - u) * w \in Int
      BY <1>5, <2>1
    <3>2. u < v => (v - u) * w > 0
      BY <1>5
    <3>3. u = v => u * w = v * w
      OBVIOUS
    <3> QED
      BY <2>1, <3>1, <3>2, <3>3
  <2>2. CASE v < u
    <3>1. u * w = v * w + (u - v) * w /\ (u - v) * w > 0 /\ v * w \in Nat /\ (u - v) * w \in Int
      BY <1>5, <2>2
    <3> QED
      BY <2>2, <3>1
  <2> QED
    BY <2>1, <2>2
<1>9. Start(1) = 0
  <2>1. Start(1) * w = 0 * w /\ Start(1) \in Nat
    BY <1>1, <1>3, <1>5, <1>6
  <2> QED
    BY <1>7, <2>1
<1>10. ASSUME NEW j \in 2 .. N PROVE Start(j) = Start(j - 1) + Size(j - 1)
  <2>1. j - 1 \in 1 .. N /\ j \in 1 .. N
    BY <1>1
  <2>2. Start(j) * w = (Start(j - 1) + Size(j - 1)) * w
    BY <1>3, <1>6, <2>1
  <2>3. Start(j) \in Nat /\ Start(j - 1) + Size(j - 1) \in Nat
    BY <1>6, <2>1
  <2> QED
    BY <1>7, <2>2, <2>3
<1>11. \A b \in Nat, j \in 1 .. N :
           Start(j) <= b /\ b < Start(j) + Size(j) <=> Holds(s[j], b * w)
  <2> SUFFICES ASSUME NEW b \in Nat, NEW j \in 1 .. N
               PROVE  Start(j) <= b /\ b < Start(j) + Size(j) <=> Holds(s[j], b * w)
    OBVIOUS
  <2>1. /\ Start(j) \in Nat /\ Start(j) + Size(j) \in Nat
        /\ Start(j) * w = Lo(s[j]) /\ (Start(j) + Size(j)) * w = Hi(s[j])
    BY <1>6
  <2>2. Start(j) * w <= b * w <=> Start(j) <= b
    BY <1>8, <2>1
  <2>3. b * w < (Start(j) + Size(j)) * w <=> b < Start(j) + Size(j)
    BY <1>8, <2>1
  <2> QED
    BY <2>1, <2>2, <2>3 DEF Holds
<1>12. \A b \in Nat : b < 2^d <=> b * w \in 0 .. (Span - 1)
  <2> SUFFICES ASSUME NEW b \in Nat PROVE b < 2^d <=> b * w \in 0 .. (Span - 1)
    OBVIOUS
  <2>1. b * w < 2^d * w <=> b < 2^d
    BY <1>5, <1>8
  <2>2. b * w \in Nat
    BY <1>5
  <2> QED
    BY <1>5, <2>1, <2>2, WidthFacts
<1>13. ASSUME NEW b \in 0 .. (2^d - 1)
       PROVE  \E j \in 1 .. N : Start(j) <= b /\ b < Start(j) + Size(j)
  <2>1. b \in Nat /\ b * w \in 0 .. (Span - 1)
    BY <1>5, <1>12
  <2>2. PICK n \in U : Holds(n, b * w)
    BY <2>1 DEF Tiled
  <2>3. PICK j \in 1 .. N : s[j] = n
    BY <1>2
  <2> QED
    BY <1>11, <2>1, <2>2, <2>3
<1>14. ASSUME NEW b \in Nat, NEW i \in 1 .. N, NEW j \in 1 .. N,
              Start(i) <= b, b < Start(i) + Size(i),
              Start(j) <= b, b < Start(j) + Size(j)
       PROVE  i = j
  <2>1. Holds(s[i], b * w) /\ Holds(s[j], b * w) /\ s[i] \in U /\ s[j] \in U
    BY <1>6, <1>11, <1>14
  <2>2. b * w \in 0 .. (Span - 1)
    <3>1. Hi(s[i]) <= Span /\ Hi(s[i]) \in Nat
      BY <2>1, NodeLies DEF Tiled
    <3>2. b * w \in Nat
      BY <1>5
    <3> QED
      BY <2>1, <3>1, <3>2, WidthFacts DEF Holds
  <2>3. s[i] = s[j]
    BY <2>1, <2>2 DEF Tiled
  <2>4. Lo(s[i]) \in Nat
    BY <1>5, <1>6
  <2> QED
    BY <1>1, <1>2, <2>3, <2>4
<1> QED
  BY <1>1, <1>4, <1>6, <1>9, <1>10, <1>13, <1>14 DEF s, N, Start, Size, w

\* The keys at the positions of a node are those in its cells.
LEMMA KeysOfNodeLie ==
    ASSUME values \subseteq 0 .. (Span - 1), method # "existing",
           method \in {"bottom_up", "top_down", "existing", "whole_level"},
           method = "top_down" => low = {},
           NEW d \in 0 .. MaxLevel, NEW n \in AllNodes(d),
           NEW k \in values, Lo(n) <= k, k < Hi(n)
    PROVE  k \in KeysOfNode(n)
<1> DEFINE below(c) == {j \in values : j < c}
<1>1. IsFiniteSet(values) /\ k \in Nat
  <2>1. IsFiniteSet(0 .. (Span - 1))
    <3>1. 0 \in Int /\ Span - 1 \in Int
      BY WidthFacts
    <3> QED
      BY <3>1, FS_Interval
  <2>2. values \in SUBSET (0 .. (Span - 1))
    OBVIOUS
  <2>3. IsFiniteSet(values)
    BY <2>1, <2>2, FS_Subset
  <2> QED
    BY <2>3, WidthFacts
<1>2. \A c : /\ IsFiniteSet(below(c)) /\ Cardinality(below(c)) \in Nat
             /\ Cardinality(below(c)) <= Cardinality(values)
             /\ below(c) \subseteq values
  BY <1>1, FS_Subset, FS_CardinalityType
<1>3. \A c : Boundary(c) = Cardinality(below(c))
  BY DEF Boundary
<1>4. /\ left_boundary(n) = IF Lo(n) = 0 THEN 0 ELSE Cardinality(below(Lo(n)))
      /\ right_boundary(n) =
             IF Hi(n) = Span THEN Cardinality(values) ELSE Cardinality(below(Hi(n)))
  BY <1>3, BoundariesOfCells
<1>5. Lo(n) \in Nat /\ Hi(n) \in Nat
  BY NodeLies
<1>6. \A j \in values : j \in Nat
  BY WidthFacts
<1> DEFINE rank == Cardinality(below(k))
<1>7. left_boundary(n) <= rank /\ left_boundary(n) \in Nat
  <2>1. below(Lo(n)) \subseteq below(k)
    <3>1. \A j \in Nat : j < Lo(n) => j < k
      BY <1>1, <1>5
    <3> QED
      BY <1>6, <3>1
  <2>2. Cardinality(below(Lo(n))) <= rank
    BY <1>2, <2>1, FS_Subset
  <2> HIDE DEF below
  <2> QED
    BY <1>2, <1>4, <2>2
<1>8. ASSUME NEW T, T \subseteq values, below(k) \subseteq T, k \in T
      PROVE  rank < Cardinality(T)
  <2>1. IsFiniteSet(T) /\ Cardinality(T) \in Nat
    BY <1>1, <1>8, FS_Subset, FS_CardinalityType
  <2>2. rank <= Cardinality(T) /\ (rank = Cardinality(T) => T = below(k))
    BY <1>8, <2>1, FS_Subset
  <2>3. k \notin below(k)
    BY <1>1
  <2> HIDE DEF below
  <2> QED
    BY <1>2, <1>8, <2>1, <2>2, <2>3
<1>9. rank < right_boundary(n) /\ right_boundary(n) \in Nat
  <2>1. rank < Cardinality(values) /\ Cardinality(values) \in Nat
    BY <1>1, <1>2, <1>8, FS_CardinalityType
  <2>2. rank < Cardinality(below(Hi(n)))
    <3>1. below(k) \subseteq below(Hi(n)) /\ k \in below(Hi(n))
      <4>1. \A j \in Nat : j < k => j < Hi(n)
        BY <1>1, <1>5
      <4> QED
        BY <1>6, <4>1
    <3> QED
      BY <1>2, <1>8, <3>1
  <2> HIDE DEF below
  <2> QED
    BY <1>2, <1>4, <2>1, <2>2
<1>10. rank \in left_boundary(n) .. (right_boundary(n) - 1)
  <2> HIDE DEF below
  <2> QED
    BY <1>2, <1>7, <1>9
<1> QED
  BY <1>10 DEF KeysOfNode

\* The first buckets of the children are where their nodes start.
LEMMA FirstBuckets ==
    ASSUME NEW N \in Nat, NEW S, NEW R, NEW first,
           S[1] = 0, \A j \in 2 .. N : S[j] = S[j - 1] + R[j - 1],
           first[1] = 0, \A j \in 2 .. N : first[j] = first[j - 1] + R[j - 1]
    PROVE  \A j \in 1 .. N : first[j] = S[j]
<1> DEFINE wrong == {j \in 1 .. N : first[j] # S[j]}
<1>1. wrong = {}
  <2> SUFFICES ASSUME wrong # {} PROVE FALSE
    OBVIOUS
  <2>1. wrong \in SUBSET Nat
    OBVIOUS
  <2>2. PICK j \in wrong : \A i \in wrong : j <= i
    BY <2>1, LeastElement
  <2>3. j \in 1 .. N /\ first[j] # S[j]
    OBVIOUS
  <2>4. CASE j = 1
    BY <2>3, <2>4
  <2>5. CASE j # 1
    <3>1. j - 1 \in 1 .. N /\ j \in 2 .. N /\ ~(j <= j - 1)
      BY <2>3, <2>5
    <3>2. first[j - 1] = S[j - 1]
      BY <2>2, <3>1
    <3>3. first[j] = first[j - 1] + R[j - 1]
      BY <3>1
    <3>4. S[j] = S[j - 1] + R[j - 1]
      BY <3>1
    <3>5. first[j] = S[j]
      BY <3>2, <3>3, <3>4, Zenon
    <3> QED
      BY <2>3, <3>5
  <2> QED
    BY <2>4, <2>5
<1> QED
  BY <1>1

\* The index that bulk_load makes of a fanout tree has the keys loaded.
LEMMA ChildrenFacts ==
    ASSUME FanoutInv, phase = "collected", method # "existing",
           method = "top_down" => low = {}, depth \in 1 .. MaxSaved
    PROVE  LET y == Children
           IN  /\ Shaped(y) /\ LeafForRun(y) /\ Routed(y, values)
               /\ \A b \in DOMAIN y.data :
                      Unshared(y.data[b])
<1> DEFINE s == collect_used_nodes(use, depth)
           N == Cardinality(use)
           S == [j \in 1 .. N |-> s[j][2] * 2^(depth - s[j][1])]
           R == [j \in 1 .. N |-> Repeats(s[j])]
           first[j \in 1 .. Len(s)] ==
               IF j = 1 THEN 0 ELSE first[j - 1] + Repeats(s[j - 1])
           NodeAt(b) == CHOOSE j \in DOMAIN s :
                            first[j] <= b /\ b < first[j] + Repeats(s[j])
           F == 2^depth
           start == [b \in 0 .. (F - 1) |-> first[NodeAt(b)]]
           D == [b \in {start[c] : c \in DOMAIN start} |->
                    NewLeaf(KeysOfNode(s[NodeAt(b)]), "own")]
           y == Children
           w == Width(depth)
<1>1. y = [root_is_leaf |-> FALSE, fanout |-> F, run |-> start, lazy |-> start,
           leaf |-> start, data |-> D]
  BY DEF Children
<1>2. depth \in 0 .. MaxLevel /\ Tiled(use, depth) /\ depth \in Nat
  BY WidthFacts DEF FanoutInv
<1>3. /\ N \in Nat /\ N > 0 /\ Len(s) = N
      /\ \A j \in 1 .. N :
             /\ s[j] \in use /\ S[j] \in Nat /\ R[j] \in Nat
             /\ S[j] * w = Lo(s[j]) /\ (S[j] + R[j]) * w = Hi(s[j])
      /\ S[1] = 0 /\ \A j \in 2 .. N : S[j] = S[j - 1] + R[j - 1]
      /\ \A b \in 0 .. (F - 1) : \E j \in 1 .. N : S[j] <= b /\ b < S[j] + R[j]
      /\ \A b \in Nat, i, j \in 1 .. N :
             /\ S[i] <= b /\ b < S[i] + R[i]
             /\ S[j] <= b /\ b < S[j] + R[j]
             => i = j
  <2> DEFINE St(j) == s[j][2] * 2^(depth - s[j][1])
             Sz(j) == 2^(depth - s[j][1])
  <2>1. /\ N \in Nat /\ N > 0 /\ Len(s) = N
        /\ \A j \in 1 .. N :
               /\ s[j] \in use /\ St(j) \in Nat /\ Sz(j) \in Nat
               /\ St(j) * w = Lo(s[j]) /\ (St(j) + Sz(j)) * w = Hi(s[j])
        /\ St(1) = 0 /\ \A j \in 2 .. N : St(j) = St(j - 1) + Sz(j - 1)
        /\ \A b \in 0 .. (F - 1) : \E j \in 1 .. N : St(j) <= b /\ b < St(j) + Sz(j)
        /\ \A b \in Nat, i, j \in 1 .. N :
               /\ St(i) <= b /\ b < St(i) + Sz(i)
               /\ St(j) <= b /\ b < St(j) + Sz(j)
               => i = j
    BY <1>2, NodesTakeBuckets
  <2>2. \A j \in 1 .. N : S[j] = St(j) /\ R[j] = Sz(j)
    BY DEF Repeats
  <2> HIDE DEF St, Sz, S, R, s, N, F, w
  <2>3. 1 \in 1 .. N /\ \A j \in 2 .. N : j \in 1 .. N /\ j - 1 \in 1 .. N
    BY <2>1
  <2>4. \A j \in 1 .. N :
            /\ s[j] \in use /\ S[j] \in Nat /\ R[j] \in Nat
            /\ S[j] * w = Lo(s[j]) /\ (S[j] + R[j]) * w = Hi(s[j])
    BY <2>1, <2>2
  <2>5. S[1] = 0 /\ \A j \in 2 .. N : S[j] = S[j - 1] + R[j - 1]
    BY <2>1, <2>2, <2>3
  <2>6. ASSUME NEW b \in 0 .. (F - 1) PROVE \E j \in 1 .. N : S[j] <= b /\ b < S[j] + R[j]
    BY <2>1, <2>2
  <2>7. ASSUME NEW b \in Nat, NEW i \in 1 .. N, NEW j \in 1 .. N,
               S[i] <= b, b < S[i] + R[i], S[j] <= b, b < S[j] + R[j]
        PROVE  i = j
    <3>1. /\ St(i) <= b /\ b < St(i) + Sz(i)
          /\ St(j) <= b /\ b < St(j) + Sz(j)
      BY <2>2, <2>7
    <3> QED
      BY <2>1, <3>1
  <2> QED
    BY <2>1, <2>4, <2>5, <2>6, <2>7
<1>4. S \in [1 .. N -> Nat] /\ R \in [1 .. N -> Nat]
  BY <1>3
<1>5. DOMAIN s = 1 .. N
  <2>1. s \in [1 .. N -> use]
    BY <1>2, CollectedInOrder
  <2> QED
    BY <2>1
<1>6. \A j \in 1 .. N : Repeats(s[j]) = R[j]
  OBVIOUS
<1>7. \A j \in 1 .. N : first[j] = S[j]
  <2>1. S = [j \in 1 .. Len(s) |-> IF j = 1 THEN 0 ELSE S[j - 1] + Repeats(s[j - 1])]
    <3>1. \A j \in 1 .. N : S[j] = IF j = 1 THEN 0 ELSE S[j - 1] + Repeats(s[j - 1])
      <4> SUFFICES ASSUME NEW j \in 1 .. N
                   PROVE  S[j] = IF j = 1 THEN 0 ELSE S[j - 1] + Repeats(s[j - 1])
        OBVIOUS
      <4>1. j # 1 => j - 1 \in 1 .. N /\ j \in 2 .. N
        BY <1>3
      <4> HIDE DEF S, R, s, N
      <4> QED
        BY <1>3, <1>6, <4>1
    <3>2. S = [j \in 1 .. N |-> S[j]]
      OBVIOUS
    <3> HIDE DEF S, R, s, N
    <3> QED
      BY <1>3, <3>1, <3>2
  <2>2. first = CHOOSE f : f = [j \in 1 .. Len(s) |-> IF j = 1 THEN 0
                                               ELSE f[j - 1] + Repeats(s[j - 1])]
    OBVIOUS
  <2> DEFINE g == [j \in 1 .. Len(s) |-> IF j = 1 THEN 0
                                         ELSE first[j - 1] + Repeats(s[j - 1])]
  <2> HIDE DEF first, S, R, s, N, F, w
  <2>3. first = g
    BY <2>1, <2>2
  <2>4. \A j \in 1 .. N : g[j] = IF j = 1 THEN 0 ELSE first[j - 1] + Repeats(s[j - 1])
    BY <1>3
  <2> HIDE DEF g
  <2>5. first[1] = 0
    <3>1. 1 \in 1 .. N
      BY <1>3
    <3> QED
      BY <2>3, <2>4, <3>1
  <2>6. \A j \in 2 .. N : first[j] = first[j - 1] + R[j - 1]
    <3> SUFFICES ASSUME NEW j \in 2 .. N PROVE first[j] = first[j - 1] + R[j - 1]
      OBVIOUS
    <3>1. j - 1 \in 1 .. N /\ j \in 1 .. N /\ j # 1
      BY <1>3
    <3>2. Repeats(s[j - 1]) = R[j - 1]
      BY <1>6, <3>1
    <3> QED
      BY <2>3, <2>4, <3>1, <3>2
  <2>7. N \in Nat /\ S[1] = 0 /\ \A j \in 2 .. N : S[j] = S[j - 1] + R[j - 1]
    BY <1>3
  <2> QED
    BY <2>5, <2>6, <2>7, FirstBuckets
<1>8. F \in Nat /\ F > 0 /\ w \in Nat /\ w > 0 /\ Span = F * w /\ Span % F = 0
      /\ F \in {2^n : n \in 0 .. MaxFanout}
  <2>1. F \in Nat /\ F > 0
    BY <1>2, PowerFacts
  <2>2. depth \in 0 .. MaxFanout
    <3>1. MaxSaved \in Nat /\ depth <= MaxSaved /\ 2^MaxSaved <= MaxFanout
      BY FanoutsAreBounded, WidthFacts
    <3>2. 2^depth <= 2^MaxSaved
      <4>1. CASE depth = MaxSaved
        BY <2>1, <4>1
      <4>2. CASE depth < MaxSaved
        <5>1. 2^depth < 2^MaxSaved
          BY <1>2, <3>1, <4>2, PowerGrows
        <5>2. 2^MaxSaved \in Nat
          BY <3>1, PowerFacts
        <5> QED
          BY <2>1, <5>1, <5>2
      <4> QED
        BY <1>2, <3>1, <4>1, <4>2
    <3>3. PICK m \in 0 .. MaxFanout : MaxFanout = 2^m
      BY FanoutsAreBounded
    <3>4. MaxFanout \in Nat
      <4>1. m \in Nat
        OBVIOUS
      <4> QED
        BY <3>3, <4>1, PowerFacts
    <3>5. depth < 2^depth /\ 2^MaxSaved \in Nat
      BY <1>2, <3>1, PowerExceeds, PowerFacts
    <3> QED
      BY <1>2, <2>1, <3>1, <3>2, <3>4, <3>5
  <2>3. F \in {2^n : n \in 0 .. MaxFanout}
    BY <2>2, Zenon
  <2> QED
    BY <1>2, <2>1, <2>3, WidthFacts
<1>9. \A j \in 1 .. N : S[j] \in Nat /\ R[j] \in Nat /\ s[j] \in use
  BY <1>3
<1> DEFINE Here(b, j) == S[j] <= b /\ b < S[j] + R[j]
<1>10. \A b : NodeAt(b) = CHOOSE j \in 1 .. N : Here(b, j)
  <2>1. ASSUME NEW b, NEW j \in 1 .. N
        PROVE  Here(b, j) <=> first[j] <= b /\ b < first[j] + Repeats(s[j])
    <3>1. first[j] = S[j] /\ Repeats(s[j]) = R[j]
      BY <1>6, <1>7
    <3> HIDE DEF first, S, R
    <3> QED
      BY <3>1
  <2> HIDE DEF first, s, N, Here
  <2> QED
    BY <1>5, <2>1, Zenon
<1>11. \A b \in 0 .. (F - 1) : \E j \in 1 .. N : Here(b, j)
  BY <1>3
<1>12. \A b \in Nat, i, j \in 1 .. N : Here(b, i) /\ Here(b, j) => i = j
  BY <1>3
<1>13. \A b \in 0 .. (F - 1) : start[b] = first[NodeAt(b)]
  OBVIOUS
<1>14. start = [b \in 0 .. (F - 1) |-> start[b]] /\ DOMAIN start = 0 .. (F - 1)
  OBVIOUS
<1>15. DOMAIN D = {start[b] : b \in 0 .. (F - 1)}
  OBVIOUS
<1>16. \A i \in DOMAIN D : D[i] = NewLeaf(KeysOfNode(s[NodeAt(i)]), "own")
  OBVIOUS
<1> HIDE DEF NodeAt, start, D, y, F, w, S, R, s, N, first
<1>17. \A b \in 0 .. (F - 1) : NodeAt(b) \in 1 .. N /\ Here(b, NodeAt(b))
                                /\ start[b] = S[NodeAt(b)]
  <2> SUFFICES ASSUME NEW b \in 0 .. (F - 1)
               PROVE  NodeAt(b) \in 1 .. N /\ Here(b, NodeAt(b))
                      /\ start[b] = S[NodeAt(b)]
    OBVIOUS
  <2>1. NodeAt(b) \in 1 .. N /\ Here(b, NodeAt(b))
    <3> HIDE DEF Here
    <3> QED
      BY <1>10, <1>11
  <2> QED
    BY <1>7, <1>13, <2>1
<1>18. ASSUME NEW b \in 0 .. (F - 1), NEW c \in start[b] .. b
       PROVE  /\ start[b] \in Nat /\ start[b] <= b /\ c \in 0 .. (F - 1)
              /\ NodeAt(c) = NodeAt(b) /\ start[c] = start[b]
  <2> DEFINE j == NodeAt(b)
  <2>1. j \in 1 .. N /\ S[j] <= b /\ b < S[j] + R[j] /\ start[b] = S[j]
    BY <1>17
  <2>2. S[j] \in Nat /\ R[j] \in Nat /\ b \in Nat /\ b < F
    BY <1>8, <1>9, <2>1
  <2> HIDE DEF j
  <2>3. c \in Nat /\ S[j] <= c /\ c <= b /\ c < S[j] + R[j] /\ c \in 0 .. (F - 1)
    BY <1>8, <2>1, <2>2
  <2>4. NodeAt(c) = j
    BY <1>12, <1>17, <2>1, <2>3
  <2> QED
    BY <1>17, <2>1, <2>2, <2>3, <2>4 DEF j
<1>19. \A b \in 0 .. (F - 1) :
           /\ start[b] \in 0 .. (F - 1) /\ start[b] <= b /\ start[start[b]] = start[b]
           /\ NodeAt(start[b]) = NodeAt(b)
           /\ \A c \in start[b] .. b : start[c] = start[b]
  <2> SUFFICES ASSUME NEW b \in 0 .. (F - 1)
               PROVE  /\ start[b] \in 0 .. (F - 1) /\ start[b] <= b
                      /\ start[start[b]] = start[b] /\ NodeAt(start[b]) = NodeAt(b)
                      /\ \A c \in start[b] .. b : start[c] = start[b]
    OBVIOUS
  <2>1. start[b] \in Nat /\ start[b] <= b
    <3>1. S[NodeAt(b)] \in Nat /\ S[NodeAt(b)] <= b /\ start[b] = S[NodeAt(b)]
      BY <1>9, <1>17
    <3> QED
      BY <3>1
  <2>2. start[b] \in start[b] .. b
    BY <2>1
  <2> QED
    BY <1>18, <2>1, <2>2
<1>20. start \in [0 .. (F - 1) -> 0 .. (F - 1)]
  BY <1>14, <1>19
<1>21. \A i \in DOMAIN D : D[i] \in DataType /\ Unshared(D[i])
  <2>1. values \subseteq 0 .. (Span - 1)
    BY DEF FanoutInv
  <2>2. \A n : KeysOfNode(n) \subseteq 0 .. (Span - 1)
    BY <2>1 DEF KeysOfNode
  <2> QED
    BY <1>16, <2>2 DEF NewLeaf, DataType, Unshared
<1>22. Shaped(y)
  <2>1. \A b \in 0 .. (F - 1) :
            /\ start[start[b]] = start[b] /\ start[start[b]] = start[b]
            /\ start[start[b]] = start[b]
            /\ start[b] <= b /\ start[start[b]] = start[b]
            /\ \A c \in start[b] .. b : start[c] = start[b]
    BY <1>19
  <2>2. \A i \in DOMAIN D : D[i] \in DataType
    BY <1>21
  <2>3. Shaped([root_is_leaf |-> FALSE, fanout |-> F, run |-> start, lazy |-> start,
                leaf |-> start, data |-> D])
    BY <1>8, <1>15, <1>20, <2>1, <2>2, ShapedByParts
  <2> QED
    BY <1>1, <2>3
<1>23. y.fanout = F /\ y.run = start /\ y.leaf = start /\ y.data = D
  BY <1>1
<1>24. Routed(y, values)
  <2> SUFFICES ASSUME NEW k \in 0 .. (Span - 1)
               PROVE  k \in y.data[y.leaf[BucketIn(y, k)]].keys <=> k \in values
    BY DEF Routed
  <2> DEFINE b == BucketIn(y, k)
             j == NodeAt(b)
  <2>1. b \in 0 .. (F - 1) /\ b * Span <= k * F /\ k * F < (b + 1) * Span
    <3>1. b \in 0 .. (F - 1)
      BY <1>22, <1>23, BucketOfCell DEF Buckets
    <3>2. b \in Nat
      BY <3>1
    <3>3. b * Span <= k * y.fanout /\ k * y.fanout < (b + 1) * Span
      BY <1>22, <3>2, BucketOfCell
    <3> QED
      BY <1>23, <3>1, <3>3
  <2> HIDE DEF b
  <2>2. j \in 1 .. N /\ S[j] <= b /\ b < S[j] + R[j] /\ start[b] = S[j]
    BY <1>17, <2>1
  <2>3. D[start[b]] = NewLeaf(KeysOfNode(s[j]), "own")
    <3>1. start[b] \in DOMAIN D
      BY <1>15, <2>1
    <3> QED
      BY <1>16, <1>19, <2>1, <3>1
  <2>4. k \in Nat /\ b \in Nat /\ S[j] \in Nat /\ R[j] \in Nat
    BY <1>9, <2>1, <2>2, WidthFacts
  <2> HIDE DEF j
  <2>5. b * w <= k /\ k < (b + 1) * w
    <3>1. \A u, v \in Nat : u * F <= v * F => u <= v
      <4> SUFFICES ASSUME NEW u \in Nat, NEW v \in Nat, v < u PROVE v * F < u * F
        BY <1>8
      <4>1. u * F = v * F + (u - v) * F /\ (u - v) * F > 0 /\ v * F \in Nat /\ (u - v) * F \in Int
        BY <1>8
      <4> QED
        BY <4>1
    <3>2. b * Span = (b * w) * F /\ (b + 1) * Span = ((b + 1) * w) * F
      BY <1>8, <2>4
    <3>3. b * w \in Nat /\ (b + 1) * w \in Nat
      BY <1>8, <2>4
    <3>4. b * w <= k
      BY <2>1, <2>4, <3>1, <3>2, <3>3
    <3>5. ~((b + 1) * w <= k)
      <4> SUFFICES ASSUME (b + 1) * w <= k PROVE FALSE
        OBVIOUS
      <4> DEFINE e == (b + 1) * w
      <4>1. e \in Nat /\ e <= k /\ k * F < e * F
        BY <2>1, <3>2, <3>3
      <4> HIDE DEF e
      <4>2. k * F = e * F + (k - e) * F /\ (k - e) * F >= 0 /\ e * F \in Nat
            /\ (k - e) * F \in Int
        BY <1>8, <2>4, <4>1
      <4> QED
        BY <4>1, <4>2
    <3> QED
      BY <2>4, <3>3, <3>4, <3>5
  <2>6. Lo(s[j]) <= k /\ k < Hi(s[j])
    <3>1. S[j] * w = Lo(s[j]) /\ (S[j] + R[j]) * w = Hi(s[j])
      BY <1>3, <2>2
    <3>2. S[j] * w <= b * w
      <4>1. b * w = S[j] * w + (b - S[j]) * w /\ (b - S[j]) * w >= 0 /\ S[j] * w \in Nat
            /\ (b - S[j]) * w \in Int
        BY <1>8, <2>2, <2>4
      <4> QED
        BY <4>1
    <3>3. (b + 1) * w <= (S[j] + R[j]) * w
      <4> DEFINE e == S[j] + R[j]
      <4>1. e \in Nat /\ b + 1 <= e
        BY <2>2, <2>4
      <4> HIDE DEF e
      <4>2. e * w = (b + 1) * w + (e - (b + 1)) * w /\ (e - (b + 1)) * w >= 0
            /\ (b + 1) * w \in Nat /\ (e - (b + 1)) * w \in Int
        BY <1>8, <2>4, <4>1
      <4> QED
        BY <4>2 DEF e
    <3>4. S[j] * w \in Nat /\ b * w \in Nat /\ (b + 1) * w \in Nat
          /\ (S[j] + R[j]) * w \in Nat
      BY <1>8, <2>4
    <3> QED
      BY <2>4, <2>5, <3>1, <3>2, <3>3, <3>4
  <2>7. k \in values => k \in KeysOfNode(s[j])
    <3>1. s[j] \in AllNodes(depth) /\ values \subseteq 0 .. (Span - 1)
          /\ method \in {"bottom_up", "top_down", "existing", "whole_level"}
      BY <1>2, <1>9, <2>2 DEF FanoutInv, Tiled
    <3> QED
      BY <1>2, <2>6, <3>1, KeysOfNodeLie
  <2>8. k \in KeysOfNode(s[j]) => k \in values
    BY DEF KeysOfNode
  <2> QED
    BY <1>23, <2>3, <2>7, <2>8 DEF NewLeaf, b
<1>25. LeafForRun(y)
  BY <1>23 DEF LeafForRun
<1> QED
  BY <1>21, <1>22, <1>23, <1>24, <1>25 DEF y

\* The level that is fallen back to is one of the tree.
LEMMA FallbackIsALevel ==
    ASSUME values \in Load
    PROVE  FallbackDepth \in 1 .. MaxLevel
<1> DEFINE n == Cardinality(values)
           P(d) == 2^d * max_slots_
           Fit(d) == (d = 0 \/ P(d) <= n) /\ n < P(d + 1)
<1>1. IsFiniteSet(values) /\ n \in Nat /\ n < P(MaxLevel)
  <2>1. values \in SUBSET (0 .. (Span - 1)) /\ n < P(MaxLevel)
    BY SpanIsDivisible, FanoutsAreBounded
  <2>2. IsFiniteSet(0 .. (Span - 1))
    <3>1. 0 \in Int /\ Span - 1 \in Int
      BY WidthFacts
    <3> QED
      BY <3>1, FS_Interval
  <2> HIDE DEF P
  <2> QED
    BY <2>1, <2>2, FS_Subset, FS_CardinalityType
<1>2. \A d \in Nat : P(d) \in Nat
  BY FanoutsAreBounded, PowerFacts
<1>3. MaxLevel \in Nat /\ MaxLevel >= 1
  BY SpanIsDivisible
<1>4. FallbackDepth = 1 + CHOOSE d \in 0 .. MaxLevel : Fit(d)
  BY DEF FallbackDepth
<1> HIDE DEF P, n
<1>5. \E d \in 0 .. MaxLevel : Fit(d)
  <2> DEFINE D == {d \in Nat : n < P(d + 1)}
  <2>1. MaxLevel - 1 \in D
    <3>1. MaxLevel - 1 \in Nat /\ (MaxLevel - 1) + 1 = MaxLevel
      BY <1>3
    <3> QED
      BY <1>1, <3>1
  <2>2. PICK d \in D : \A c \in D : d <= c
    BY <2>1, LeastElement
  <2>3. d \in Nat /\ d <= MaxLevel - 1 /\ n < P(d + 1)
    BY <2>1, <2>2
  <2>4. d = 0 \/ P(d) <= n
    <3> SUFFICES ASSUME d # 0, ~(P(d) <= n) PROVE FALSE
      OBVIOUS
    <3>1. d - 1 \in Nat /\ (d - 1) + 1 = d /\ ~(d <= d - 1)
      BY <2>3
    <3>2. n < P(d)
      BY <1>1, <1>2, <2>3
    <3>3. d - 1 \in D
      BY <3>1, <3>2
    <3> QED
      BY <2>2, <3>1, <3>3
  <2>5. d \in 0 .. MaxLevel
    BY <1>3, <2>3
  <2> QED
    BY <2>3, <2>4, <2>5
<1>6. PICK d \in 0 .. MaxLevel : Fit(d) /\ FallbackDepth = 1 + d
  <2> HIDE DEF Fit
  <2> QED
    BY <1>4, <1>5
<1>7. d # MaxLevel
  BY <1>1, <1>2, <1>3, <1>6
<1> QED
  BY <1>3, <1>6, <1>7

-----------------------------------------------------------------------------
(* The steps.                                                              *)

\* A step that leaves all alone but what the program died of.
LEMMA DeathKeepsInv ==
    ASSUME IInv, Alive, UNCHANGED fanoutVars, UNCHANGED <<index, archive, keys, Rest>>,
           fault' \in {"read", "resize", "expand", "chunk", "links"},
           fault' \in {"read", "resize", "expand"} => process = "reading" /\ copied = 0,
           fault' = "read" => ~has_pager \/ ~closed \/ index.root_is_leaf,
           fault' = "chunk" => has_pager /\ archive.keys # {},
           fault' = "links" => copied >= 1,
           fault' \in {"chunk", "links"} /\ process = "reading" => copied = 2
    PROVE  IInv'
<1>1. FanoutInv'
  BY DEF IInv, FanoutInv, fanoutVars, Tiled, AllNodes, NodesOf, Holds, Lo, Hi, Width
<1>2. BuildingInv' /\ ArchiveInv' /\ ReadingInv' /\ LoadingInv'
  BY DEF IInv, BuildingInv, ArchiveInv, ReadingInv, LoadingInv, Rest, Alive, apart
<1>3. SharingInv'
  BY DEF IInv, SharingInv, Rest
<1>4. FaultsHaveCauses'
  BY DEF FaultsHaveCauses, Rest
<1>5. Shaped(index)'
  BY DEF IInv
<1> QED
  BY <1>1, <1>2, <1>3, <1>4, <1>5 DEF IInv, Rest, fanoutVars

\* A step at one leaf.
LEMMA LeafStepKeepsInv ==
    ASSUME IInv, Alive, UNCHANGED fanoutVars, UNCHANGED <<archive, fault, Rest>>,
           keys \subseteq keys', keys' \subseteq 0 .. (Span - 1),
           process = "reading" => has_pager,
           Shaped(index'), index'.root_is_leaf = index.root_is_leaf,
           index'.fanout = index.fanout, index'.run = index.run, index'.leaf = index.leaf,
           DOMAIN index'.data = DOMAIN index.data,
           \A b \in DOMAIN index.data :
               /\ index.data[b].arrays = "heap" => index'.data[b].arrays = "heap"
               /\ index.data[b].arrays # "none" => index'.data[b].arrays # "none"
               /\ index'.data[b].chunk # "none" => index.data[b].chunk # "none"
               /\ Shares(index'.data[b]) => Shares(index.data[b]),
           Routed(index, keys) => Routed(index', keys')
    PROVE  IInv'
<1>1. FanoutInv'
  BY DEF IInv, FanoutInv, fanoutVars, Tiled, AllNodes, NodesOf, Holds, Lo, Hi, Width
<1>2. LeafForRun(index) => LeafForRun(index')
  BY DEF LeafForRun
<1>3. LoadingInv' /\ ArchiveInv'
  BY DEF IInv, ArchiveInv, LoadingInv, Rest, Alive
<1>4. BuildingInv'
  BY <1>2 DEF IInv, BuildingInv, Rest
<1>5. Divided(index, archive.index) => Divided(index', archive.index)
  BY DEF Divided, Buckets
<1>6. ReadingInv'
  BY <1>2, <1>5 DEF IInv, ReadingInv, Rest, apart
<1>7. FaultsHaveCauses'
  BY DEF Alive, FaultsHaveCauses
<1>8. SharingInv'
  BY DEF IInv, SharingInv, Rest
<1> QED
  BY <1>1, <1>3, <1>4, <1>6, <1>7, <1>8 DEF IInv, Rest, fanoutVars

\* A step that divides a run.
LEMMA SplitStepKeepsInv ==
    ASSUME IInv, Alive, UNCHANGED fanoutVars, UNCHANGED <<archive, fault, Rest>>,
           NEW key \in 0 .. (Span - 1), key \notin DataOf(key).keys,
           keys' = keys \cup {key}, process = "reading" => has_pager,
           Shaped(index'), index'.root_is_leaf = index.root_is_leaf,
           Divided(index', index),
           \A b \in DOMAIN index'.data :
               \/ Unshared(index'.data[b])
               \/ \E c \in DOMAIN index.data :
                      /\ index.data[c].arrays = "heap" => index'.data[b].arrays = "heap"
                      /\ index.data[c].arrays # "none" => index'.data[b].arrays # "none"
                      /\ index'.data[b].chunk # "none" => index.data[c].chunk # "none"
                      /\ Shares(index'.data[b]) => Shares(index.data[c]),
           LeafForRun(index) =>
               LeafForRun(index') /\ \A K : Routed(index, K) => Routed(index', K \cup {key})
    PROVE  IInv'
<1>1. FanoutInv'
  BY DEF IInv, FanoutInv, fanoutVars, Tiled, AllNodes, NodesOf, Holds, Lo, Hi, Width
<1>2. LoadingInv' /\ ArchiveInv'
  BY DEF IInv, ArchiveInv, LoadingInv, Rest, Alive
<1>3. BuildingInv'
  <2> SUFFICES ASSUME process = "building" PROVE BuildingInv'
    BY DEF BuildingInv, Rest
  <2>1. /\ LeafForRun(index') /\ Routed(index', keys')
        /\ forgotten = FALSE
        /\ \A b \in DOMAIN index.data : index.data[b].arrays = "heap"
    BY DEF IInv, BuildingInv
  <2> QED
    BY <2>1 DEF BuildingInv, Rest, Unshared
<1>4. Routed(index, keys) => keys' # archive.keys \/ ~(archive.keys \subseteq keys)
  <2> SUFFICES ASSUME Routed(index, keys), keys' = archive.keys, archive.keys \subseteq keys
               PROVE  FALSE
    OBVIOUS
  <2>1. key \in keys
    OBVIOUS
  <2> QED
    BY <2>1 DEF Routed, DataOf, Bucket, BucketIn
<1>5. archive.keys \subseteq keys /\ keys # archive.keys => keys' # archive.keys
  OBVIOUS
<1>6. Shaped(index) /\ Shaped(archive.index)
  BY DEF IInv, ArchiveInv
<1>7. index.run = archive.index.run => index.fanout = archive.index.fanout
  <2>1. \A x : Shaped(x) => x.fanout \in Nat /\ x.fanout > 0 /\ DOMAIN x.run = 0 .. (x.fanout - 1)
    <3> SUFFICES ASSUME NEW x, Shaped(x)
                 PROVE  x.fanout \in Nat /\ x.fanout > 0 /\ DOMAIN x.run = 0 .. (x.fanout - 1)
      OBVIOUS
    <3>1. x.fanout \in Nat /\ x.fanout > 0 /\ x.run \in [Buckets(x) -> Buckets(x)]
      BY ShapedFacts
    <3> QED
      BY <3>1 DEF Buckets
  <2>2. \A f, g \in Nat : f > 0 /\ g > 0 /\ 0 .. (f - 1) = 0 .. (g - 1) => f = g
    <3> SUFFICES ASSUME NEW f \in Nat, NEW g \in Nat, f > 0, g > 0,
                        0 .. (f - 1) = 0 .. (g - 1)
                 PROVE  f = g
      OBVIOUS
    <3>1. f - 1 \in 0 .. (g - 1) /\ g - 1 \in 0 .. (f - 1)
      OBVIOUS
    <3> QED
      BY <3>1
  <2> QED
    BY <1>6, <2>1, <2>2
<1>8. index.run = archive.index.run => Divided(index', archive.index)
  BY <1>7 DEF Divided
<1>9. Divided(index, archive.index) => Divided(index', archive.index)
  <2> DEFINE a == archive.index
             x == index
             y == index'
  <2> SUFFICES ASSUME Divided(x, a) PROVE Divided(y, a)
    OBVIOUS
  <2>0. Divided(y, x) /\ Shaped(y) /\ Shaped(x) /\ Shaped(a)
    BY <1>6
  <2> HIDE DEF a, x, y
  <2>1. \A z \in {a, x, y} :
            /\ z.fanout \in Nat /\ z.fanout > 0 /\ DOMAIN z.run = Buckets(z)
            /\ z.run = [b \in Buckets(z) |-> z.run[b]]
            /\ Buckets(z) = 0 .. (z.fanout - 1)
            /\ \A b \in Buckets(z) : z.run[b] \in Nat
    <3> SUFFICES ASSUME NEW z, Shaped(z)
                 PROVE  /\ z.fanout \in Nat /\ z.fanout > 0 /\ DOMAIN z.run = Buckets(z)
                        /\ z.run = [b \in Buckets(z) |-> z.run[b]]
                        /\ Buckets(z) = 0 .. (z.fanout - 1)
                        /\ \A b \in Buckets(z) : z.run[b] \in Nat
      BY <2>0
    <3>1. /\ z.fanout \in Nat /\ z.fanout > 0 /\ z.run \in [Buckets(z) -> Buckets(z)]
          /\ \A b \in Buckets(z) : z.run[b] \in Nat
      BY ShapedFacts
    <3> QED
      BY <3>1 DEF Buckets
  <2>2. CASE y.fanout > a.fanout
    <3>1. a.fanout \in DOMAIN y.run /\ a.fanout \notin DOMAIN a.run
      BY <2>1, <2>2
    <3> QED
      BY <2>2, <3>1 DEF Divided
  <2>3. CASE y.fanout = a.fanout
    <3>1. x.fanout = a.fanout /\ y.fanout = x.fanout
      BY <2>0, <2>1, <2>3 DEF Divided
    <3>2. /\ \A b \in Buckets(x) : a.run[b] <= x.run[b]
          /\ \A b \in Buckets(x) : x.run[b] <= y.run[b]
          /\ Buckets(y) = Buckets(x) /\ Buckets(a) = Buckets(x)
      BY <2>0, <2>1, <3>1 DEF Divided
    <3>3. \A b \in Buckets(x) : a.run[b] \in Nat /\ x.run[b] \in Nat /\ y.run[b] \in Nat
      BY <2>1, <3>2
    <3>4. \A b \in Buckets(x) : a.run[b] <= y.run[b]
      BY <3>2, <3>3
    <3>5. PICK b \in Buckets(x) : a.run[b] # x.run[b]
      <4>1. x.run # a.run
        BY DEF Divided
      <4> QED
        BY <2>1, <3>2, <4>1
    <3>6. a.run[b] # y.run[b]
      BY <3>2, <3>3, <3>5
    <3>7. a.run # y.run
      BY <3>6
    <3> QED
      BY <2>3, <3>2, <3>4, <3>7 DEF Divided
  <2>4. y.fanout > a.fanout \/ y.fanout = a.fanout
    <3>1. x.fanout >= a.fanout /\ y.fanout >= x.fanout
      BY <2>0, <2>1 DEF Divided
    <3> QED
      BY <2>1, <3>1
  <2> QED
    BY <2>2, <2>3, <2>4
<1>10. ReadingInv'
  <2> SUFFICES ASSUME process = "reading" PROVE ReadingInv'
    BY DEF ReadingInv, Rest
  <2>1. ReadingInv
    BY DEF IInv
  <2>2. has_pager /\ ~index'.root_is_leaf => \A b \in DOMAIN index'.data :
                                                 index'.data[b].arrays # "none"
    BY <2>1 DEF ReadingInv, Rest, Unshared
  <2>3. LeafForRun(index) /\ Routed(index, keys) => LeafForRun(index') /\ Routed(index', keys')
    OBVIOUS
  <2>4. LeafForRun(index) => LeafForRun(index')
    OBVIOUS
  <2>5. apart => archive.keys \subseteq keys
    BY <2>1 DEF ReadingInv
  <2>6. apart /\ archive.index.lazy # archive.index.run =>
            Divided(index', archive.index) /\ keys' # archive.keys
    BY <1>4, <1>5, <1>8, <1>9, <2>1, <2>5 DEF ReadingInv
  <2> QED
    BY <2>1, <2>2, <2>3, <2>4, <2>5, <2>6 DEF ReadingInv, Rest, apart
<1>11. FaultsHaveCauses'
  BY DEF Alive, FaultsHaveCauses
<1>12. keys' \subseteq 0 .. (Span - 1)
  BY DEF IInv
<1>13. SharingInv'
  <2>1. \A d : Unshared(d) => d.chunk = "none" /\ d.arrays = "heap" /\ ~Shares(d)
    BY DEF Unshared, Shares
  <2> QED
    BY <2>1 DEF IInv, SharingInv, Rest
<1> QED
  BY <1>1, <1>2, <1>3, <1>10, <1>11, <1>12, <1>13 DEF IInv, Rest, fanoutVars

\* What a call finds at the bucket of its key.
LEMMA BucketFacts ==
    ASSUME IInv, NEW key \in Key
    PROVE  LET b == Bucket(key)
               i == index.leaf[b]
           IN  /\ key \in 0 .. (Span - 1) /\ b = BucketIn(index, key) /\ b \in Buckets(index)
               /\ i \in DOMAIN index.data /\ DataOf(key) = index.data[i]
               /\ index.data[i] \in DataType
<1>1. key \in 0 .. (Span - 1) /\ Shaped(index)
  BY FanoutsAreBounded DEF IInv
<1>2. Bucket(key) = BucketIn(index, key)
  BY DEF Bucket, BucketIn
<1>3. BucketIn(index, key) \in Buckets(index)
  BY <1>1, BucketOfCell
<1> DEFINE b == BucketIn(index, key)
<1> HIDE DEF b
<1>4. index.leaf[b] \in DOMAIN index.data /\ index.data[index.leaf[b]] \in DataType
  <2>1. /\ DOMAIN index.data = {index.leaf[c] : c \in Buckets(index)}
        /\ \A c \in DOMAIN index.data : index.data[c] \in DataType
    BY <1>1, ShapedFacts
  <2> QED
    BY <1>3, <2>1 DEF b
<1> QED
  BY <1>1, <1>2, <1>3, <1>4 DEF b, DataOf

\* Reading fails for the reasons that FaultsHaveCauses gives.
LEMMA ReadFails ==
    ASSUME IInv, Alive, NEW key \in Key, MayFail(key) \/ Fails(key)
    PROVE  process = "reading" /\ copied = 0 /\ (~has_pager \/ ~closed \/ index.root_is_leaf)
<1> DEFINE i == index.leaf[Bucket(key)]
<1>1. i \in DOMAIN index.data /\ DataOf(key) = index.data[i] /\ index.data[i] \in DataType
  BY BucketFacts
<1> HIDE DEF i
<1>2. (DataOf(key).arrays = "page" /\ ~closed) \/ DataOf(key).arrays = "none"
  BY <1>1, ConsumedFacts DEF MayFail, Fails
<1>3. process = "reading"
  BY <1>1, <1>2 DEF IInv, Alive, BuildingInv
<1>4. copied = 0
  BY <1>1, <1>2, <1>3 DEF IInv, SharingInv
<1> QED
  BY <1>1, <1>2, <1>3, <1>4 DEF IInv, ReadingInv

\* An index loaded without a pager has no arrays to read.
LEMMA ReadSucceeds ==
    ASSUME IInv, NEW key \in Key, ~Fails(key)
    PROVE  process = "reading" => has_pager
<1> SUFFICES ASSUME process = "reading", ~has_pager PROVE FALSE
  OBVIOUS
<1>1. PICK i \in DOMAIN index.data : DataOf(key) = index.data[i] /\ index.data[i] \in DataType
  BY BucketFacts
<1>2. DataOf(key).arrays = "none"
  BY <1>1 DEF IInv, SharingInv
<1> QED
  BY <1>1, <1>2, ConsumedFacts DEF Fails

\* Lookups keep the invariant.
LEMMA LookupKeepsInv ==
    ASSUME IInv, NEW key \in Key, Lookup(key)
    PROVE  IInv'
<1>1. CASE (MayFail(key) \/ Fails(key)) /\ Die("read")
  BY <1>1, ReadFails, DeathKeepsInv DEF Lookup, Die
<1>2. CASE /\ ~Fails(key)
           /\ index' = Got(Bucket(key))
           /\ UNCHANGED <<archive, keys, fault, Rest>>
  <2> DEFINE b == Bucket(key)
             i == index.leaf[b]
  <2>1. Shaped(index) /\ b \in Buckets(index) /\ keys \subseteq 0 .. (Span - 1)
    BY BucketFacts DEF IInv
  <2> HIDE DEF b
  <2>2. /\ Shaped(index')
        /\ index'.root_is_leaf = index.root_is_leaf /\ index'.fanout = index.fanout
        /\ index'.run = index.run /\ index'.lazy = index.lazy /\ index'.leaf = index.leaf
        /\ DOMAIN index'.data = DOMAIN index.data
        /\ \A j \in DOMAIN index.data :
               index'.data[j] = IF j = i THEN Consumed(index.data[j]) ELSE index.data[j]
    BY <1>2, <2>1, GotFacts DEF b
  <2>3. \A j \in DOMAIN index.data : index.data[j] \in DataType
    BY <2>1, ShapedFacts
  <2>4. \A j \in DOMAIN index.data :
            /\ index.data[j].arrays = "heap" => index'.data[j].arrays = "heap"
            /\ index.data[j].arrays # "none" => index'.data[j].arrays # "none"
            /\ index'.data[j].chunk # "none" => index.data[j].chunk # "none"
            /\ Shares(index'.data[j]) => Shares(index.data[j])
            /\ index'.data[j].keys = index.data[j].keys
    BY <2>2, <2>3, ConsumedFacts DEF Shares
  <2>5. Routed(index, keys) => Routed(index', keys)
    BY <2>1, <2>2, <2>4, SameKeysAreRouted
  <2> QED
    BY <1>2, <2>1, <2>2, <2>4, <2>5, ReadSucceeds, LeafStepKeepsInv DEF Lookup
<1> QED
  BY <1>1, <1>2 DEF Lookup

\* Inserts keep the invariant.
LEMMA InsertKeepsInv ==
    ASSUME IInv, NEW key \in Key, Insert(key)
    PROVE  IInv'
<1> DEFINE c == Bucket(key)
           b == index.leaf[c]
           got == Got(c)
           add == [got EXCEPT !.data[b].keys = @ \cup {key}]
           grown == [got EXCEPT !.data[b] = Resized(@, key)]
<1>1. /\ Shaped(index) /\ c \in Buckets(index) /\ keys \subseteq 0 .. (Span - 1)
      /\ key \in 0 .. (Span - 1) /\ b \in DOMAIN index.data /\ index.data[b] \in DataType
      /\ c = BucketIn(index, key)
  BY BucketFacts DEF IInv
<1>2. /\ Shaped(got)
      /\ got.root_is_leaf = index.root_is_leaf /\ got.fanout = index.fanout
      /\ got.run = index.run /\ got.lazy = index.lazy /\ got.leaf = index.leaf
      /\ DOMAIN got.data = DOMAIN index.data
      /\ \A j \in DOMAIN index.data :
             got.data[j] = IF j = b THEN Consumed(index.data[j]) ELSE index.data[j]
  <2> HIDE DEF c
  <2> QED
    BY <1>1, GotFacts
<1>3. \A j \in DOMAIN index.data : got.data[j] \in DataType /\ index.data[j] \in DataType
  BY <1>1, <1>2, ShapedFacts
<1>4. Alive /\ UNCHANGED fanoutVars
  BY DEF Insert
<1>5. CASE (MayFail(key) \/ Fails(key)) /\ Die("read")
  BY <1>4, <1>5, ReadFails, DeathKeepsInv DEF Die
<1>6. CASE got.data[b].arrays = "mapped" /\ Die("resize")
  <2>1. Consumed(index.data[b]).arrays = "mapped"
    BY <1>1, <1>2, <1>6
  <2>2. index.data[b].arrays # "heap"
    BY <1>1, <2>1, ConsumedFacts
  <2>3. process = "reading" /\ copied = 0
    BY <1>1, <1>4, <2>2 DEF IInv, Alive, BuildingInv, SharingInv
  <2> QED
    BY <1>4, <1>6, <2>3, DeathKeepsInv DEF Die
<1>7. ASSUME ~Fails(key), keys' = keys \cup {key}, UNCHANGED <<archive, fault, Rest>>,
             NEW v \in DataType, v.keys = got.data[b].keys \cup {key},
             v.arrays \in {"heap", got.data[b].arrays},
             v.chunk # "none" => got.data[b].chunk # "none",
             Shares(v) => Shares(got.data[b]),
             NEW D, D = [got.data EXCEPT ![b] = v],
             index' = [got EXCEPT !.data = D]
      PROVE  IInv'
  <2>1. DOMAIN D = DOMAIN got.data
        /\ \A j \in DOMAIN D : D[j] = IF j = b THEN v ELSE got.data[j]
    BY <1>7
  <2>2. \A j \in DOMAIN D : D[j] \in DataType
    BY <1>2, <1>3, <1>7, <2>1
  <2> HIDE DEF got, c
  <2>3. /\ Shaped(index') /\ index'.data = D
        /\ index'.root_is_leaf = got.root_is_leaf /\ index'.fanout = got.fanout
        /\ index'.run = got.run /\ index'.lazy = got.lazy /\ index'.leaf = got.leaf
    BY <1>2, <1>7, <2>1, <2>2, NewDataKeepsShape
  <2>4. \A j \in DOMAIN index.data :
            /\ index.data[j].arrays = "heap" => index'.data[j].arrays = "heap"
            /\ index.data[j].arrays # "none" => index'.data[j].arrays # "none"
            /\ index'.data[j].chunk # "none" => index.data[j].chunk # "none"
            /\ Shares(index'.data[j]) => Shares(index.data[j])
            /\ index'.data[j].keys = IF j = b THEN index.data[j].keys \cup {key}
                                     ELSE index.data[j].keys
    <3> SUFFICES ASSUME NEW j \in DOMAIN index.data
                 PROVE  /\ index.data[j].arrays = "heap" => index'.data[j].arrays = "heap"
                        /\ index.data[j].arrays # "none" => index'.data[j].arrays # "none"
                        /\ index'.data[j].chunk # "none" => index.data[j].chunk # "none"
                        /\ Shares(index'.data[j]) => Shares(index.data[j])
                        /\ index'.data[j].keys = IF j = b THEN index.data[j].keys \cup {key}
                                                 ELSE index.data[j].keys
      OBVIOUS
    <3>1. CASE j = b
      <4>1. /\ index'.data[j] = v /\ got.data[j] = Consumed(index.data[j])
            /\ index.data[j] \in DataType
        BY <1>2, <1>3, <2>1, <2>3, <3>1
      <4>2. /\ got.data[j].keys = index.data[j].keys
            /\ got.data[j].chunk = index.data[j].chunk
            /\ got.data[j].links = index.data[j].links
            /\ index.data[j].arrays = "heap" => got.data[j].arrays = "heap"
            /\ index.data[j].arrays # "none" => got.data[j].arrays # "none"
        BY <4>1, ConsumedFacts
      <4> QED
        BY <1>7, <3>1, <4>1, <4>2 DEF Shares
    <3>2. CASE j # b
      <4>1. index'.data[j] = index.data[j]
        BY <1>2, <2>1, <2>3, <3>2
      <4> QED
        BY <3>2, <4>1
    <3> QED
      BY <3>1, <3>2
  <2>5. Routed(index, keys) => Routed(index', keys')
    <3>1. /\ index'.fanout = index.fanout /\ index'.leaf = index.leaf
          /\ \A j \in DOMAIN index.data :
                 index'.data[j].keys = IF j = index.leaf[BucketIn(index, key)]
                                       THEN index.data[j].keys \cup {key}
                                       ELSE index.data[j].keys
      BY <1>1, <1>2, <2>3, <2>4
    <3>2. ASSUME Routed(index, keys) PROVE Routed(index', keys \cup {key})
      BY <1>1, <3>1, <3>2, AddedKeyIsRouted
    <3> QED
      BY <1>7, <3>2
  <2>6. keys \subseteq keys' /\ keys' \subseteq 0 .. (Span - 1)
    BY <1>1, <1>7
  <2> QED
    BY <1>2, <1>4, <1>7, <2>1, <2>3, <2>4, <2>5, <2>6, ReadSucceeds, LeafStepKeepsInv
<1>8. CASE /\ ~Fails(key)
           /\ \/ index' = add
              \/ got.data[b].arrays = "heap" /\ index' = grown
           /\ keys' = keys \cup {key}
           /\ UNCHANGED <<archive, fault, Rest>>
  <2> DEFINE old == got.data[b]
             v1 == [old EXCEPT !.keys = @ \cup {key}]
             v2 == Resized(old, key)
  <2>1. "data" \in DOMAIN got /\ b \in DOMAIN got.data /\ old \in DataType
    <3>1. got = [root_is_leaf |-> got.root_is_leaf, fanout |-> got.fanout,
                 run |-> got.run, lazy |-> got.lazy, leaf |-> got.leaf,
                 data |-> got.data]
      BY <1>2, ShapedFacts
    <3> HIDE DEF got
    <3>2. "data" \in DOMAIN got
      BY <3>1
    <3> QED
      BY <1>1, <1>2, <1>3, <3>2
  <2>2. /\ v1 \in DataType /\ v1.keys = old.keys \cup {key} /\ v1.arrays = old.arrays
        /\ v1.chunk = old.chunk
        /\ v2 \in DataType /\ v2.keys = old.keys \cup {key} /\ v2.arrays = "heap"
        /\ v2.chunk # "none" => old.chunk # "none"
        /\ Shares(v1) => Shares(old)
        /\ Shares(v2) => Shares(old)
    <3> HIDE DEF old
    <3> QED
      BY <1>1, <2>1 DEF Resized, DataType, Shares
  <2>3. add = [got EXCEPT !.data = [got.data EXCEPT ![b] = v1]]
        /\ grown = [got EXCEPT !.data = [got.data EXCEPT ![b] = v2]]
    <3> HIDE DEF got, b
    <3> QED
      BY <2>1
  <2>4. CASE index' = add
    BY <1>7, <1>8, <2>2, <2>3, <2>4
  <2>5. CASE index' = grown
    BY <1>7, <1>8, <2>2, <2>3, <2>5
  <2> QED
    BY <1>8, <2>4, <2>5
<1> QED
  BY <1>5, <1>6, <1>8 DEF Insert

\* Splits keep the invariant.
LEMMA SplitKeepsInv ==
    ASSUME IInv, NEW key \in Key, SplitSideways(key)
    PROVE  IInv'
<1> DEFINE b == Bucket(key)
           alone == \A c \in DOMAIN index.run : index.run[c] = index.run[b] => c = b
           got == Got(b)
           big == expand(got)
<1>1. /\ Shaped(index) /\ b \in Buckets(index) /\ b = BucketIn(index, key)
      /\ key \in 0 .. (Span - 1) /\ keys \subseteq 0 .. (Span - 1)
      /\ index.leaf[b] \in DOMAIN index.data
  BY BucketFacts DEF IInv
<1>2. /\ Shaped(got)
      /\ got.root_is_leaf = index.root_is_leaf /\ got.fanout = index.fanout
      /\ got.run = index.run /\ got.lazy = index.lazy /\ got.leaf = index.leaf
      /\ DOMAIN got.data = DOMAIN index.data
      /\ \A j \in DOMAIN index.data :
             got.data[j] = IF j = index.leaf[b] THEN Consumed(index.data[j])
                           ELSE index.data[j]
  <2> HIDE DEF b
  <2> QED
    BY <1>1, GotFacts
<1>3. \A j \in DOMAIN index.data :
          /\ index.data[j] \in DataType
          /\ index.data[j].arrays = "heap" => got.data[j].arrays = "heap"
          /\ index.data[j].arrays # "none" => got.data[j].arrays # "none"
          /\ got.data[j].chunk # "none" => index.data[j].chunk # "none"
          /\ Shares(got.data[j]) => Shares(index.data[j])
          /\ got.data[j].keys = index.data[j].keys
  <2>1. \A j \in DOMAIN index.data : index.data[j] \in DataType
    BY <1>1, ShapedFacts
  <2> HIDE DEF got
  <2> QED
    BY <1>2, <2>1, ConsumedFacts DEF Shares
<1>4. /\ index.fanout \in Nat /\ index.fanout > 0 /\ DOMAIN index.run = Buckets(index)
      /\ Buckets(got) = Buckets(index) /\ Buckets(index) = 0 .. (index.fanout - 1)
  <2>1. index.fanout \in Nat /\ index.fanout > 0 /\ index.run \in [Buckets(index) -> Buckets(index)]
    BY <1>1, ShapedFacts
  <2> HIDE DEF got
  <2> QED
    BY <1>2, <2>1 DEF Buckets
<1>5. LeafForRun(index) => LeafForRun(got) /\ \A K : Routed(index, K) => Routed(got, K)
  <2>1. ASSUME NEW K, Routed(index, K) PROVE Routed(got, K)
    <3> HIDE DEF got
    <3> QED
      BY <1>1, <1>2, <1>3, <2>1, SameKeysAreRouted
  <2> HIDE DEF got
  <2> QED
    BY <1>2, <2>1 DEF LeafForRun
<1>6. Alive /\ UNCHANGED fanoutVars /\ key \notin DataOf(key).keys
      /\ (alone => 2 * index.fanout <= MaxFanout) /\ ~index.root_is_leaf
  BY DEF SplitSideways
<1>7. CASE (MayFail(key) \/ Fails(key)) /\ Die("read")
  BY <1>6, <1>7, ReadFails, DeathKeepsInv DEF Die
<1>8. CASE alone /\ Unreachable(b) # {} /\ Die("expand")
  <2>1. PICK c \in DOMAIN index.run : index.data[index.leaf[c]].arrays = "page"
    BY <1>8 DEF Unreachable
  <2>2. index.leaf[c] \in DOMAIN index.data
    BY <1>1, <1>4, ShapedFacts
  <2>3. process = "reading" /\ copied = 0
    BY <1>6, <2>1, <2>2 DEF IInv, Alive, BuildingInv, SharingInv
  <2> QED
    BY <1>6, <1>8, <2>3, DeathKeepsInv DEF Die
<1>9. CASE \/ DataOf(key).links = "foreign" /\ Die("links")
           \/ DataOf(key).chunk = "freed" /\ Die("chunk")
  <2>1. PICK i \in DOMAIN index.data : DataOf(key) = index.data[i]
    BY BucketFacts
  <2>2. /\ copied >= 1 /\ (process = "reading" => copied = 2)
        /\ DataOf(key).chunk = "freed" => has_pager /\ archive.keys # {}
    BY <1>9, <2>1 DEF IInv, SharingInv, Shares
  <2>3. CASE DataOf(key).links = "foreign" /\ Die("links")
    BY <1>6, <2>2, <2>3, DeathKeepsInv DEF Die
  <2>4. CASE DataOf(key).chunk = "freed" /\ Die("chunk")
    BY <1>6, <2>2, <2>4, DeathKeepsInv DEF Die
  <2> QED
    BY <1>9, <2>3, <2>4
<1> HIDE DEF b, got, big
<1>10. CASE /\ ~Fails(key) /\ ~alone /\ index' = SplitInTwo(got, b, key)
            /\ keys' = keys \cup {key}
            /\ UNCHANGED <<archive, fault, Rest>>
  <2> DEFINE y == SplitInTwo(got, b, key)
  <2>1. \E c \in Buckets(got) : c # b /\ got.run[c] = got.run[b]
    BY <1>2, <1>4, <1>10
  <2>2. b \in Buckets(got) /\ got.run[BucketIn(got, key)] = got.run[b]
    BY <1>1, <1>2, <1>4 DEF BucketIn
  <2>3. /\ Shaped(y) /\ y.root_is_leaf = got.root_is_leaf /\ y.fanout = got.fanout
        /\ y.run # got.run /\ \A c \in Buckets(got) : got.run[c] <= y.run[c]
        /\ \A i \in DOMAIN y.data :
               \/ Unshared(y.data[i])
               \/ i \in DOMAIN got.data /\ y.data[i] = got.data[i]
        /\ LeafForRun(got) =>
               LeafForRun(y) /\ \A K : Routed(got, K) => Routed(y, K \cup {key})
    BY <1>1, <1>2, <2>1, <2>2, SplitFacts
  <2> HIDE DEF y
  <2>4. Divided(y, index)
    BY <1>2, <1>4, <2>3 DEF Divided, Buckets
  <2>5. \A i \in DOMAIN y.data :
            \/ Unshared(y.data[i])
            \/ \E c \in DOMAIN index.data :
                   /\ index.data[c].arrays = "heap" => y.data[i].arrays = "heap"
                   /\ index.data[c].arrays # "none" => y.data[i].arrays # "none"
                   /\ y.data[i].chunk # "none" => index.data[c].chunk # "none"
                   /\ Shares(y.data[i]) => Shares(index.data[c])
    BY <1>2, <1>3, <2>3
  <2>6. LeafForRun(index) =>
            LeafForRun(y) /\ \A K : Routed(index, K) => Routed(y, K \cup {key})
    BY <1>5, <2>3
  <2>7. index' = y
    BY <1>10 DEF y
  <2> QED
    BY <1>1, <1>2, <1>6, <1>10, <2>3, <2>4, <2>5, <2>6, <2>7, ReadSucceeds, SplitStepKeepsInv
<1>11. CASE /\ ~Fails(key) /\ alone /\ index' = SplitInTwo(expand(got), 2 * b, key)
            /\ keys' = keys \cup {key}
            /\ UNCHANGED <<archive, fault, Rest>>
  <2>1. /\ Shaped(big) /\ LeafForRun(big)
        /\ big.root_is_leaf = FALSE /\ big.fanout = 2 * got.fanout
        /\ \A c \in Buckets(big) :
               c \div 2 \in Buckets(got) /\ big.run[c] = 2 * got.run[c \div 2]
        /\ \A i \in DOMAIN big.data : \E c \in DOMAIN got.data : big.data[i] = got.data[c]
        /\ \A k \in 0 .. (Span - 1) : BucketIn(big, k) \div 2 = BucketIn(got, k)
        /\ LeafForRun(got) => \A K : Routed(got, K) => Routed(big, K)
    BY <1>2, <1>6, <1>11, ExpandFacts DEF big
  <2> DEFINE y == SplitInTwo(big, 2 * b, key)
             k2 == BucketIn(big, key)
  <2>2. /\ 2 * b \in Buckets(big) /\ 2 * b + 1 \in Buckets(big) /\ b \in Nat
        /\ (2 * b) \div 2 = b /\ (2 * b + 1) \div 2 = b /\ 2 * b + 1 # 2 * b
    <3> DEFINE f == index.fanout
    <3>1. b \in 0 .. (f - 1) /\ f \in Nat
      BY <1>1, <1>4
    <3>2. Buckets(big) = 0 .. (2 * f - 1)
      BY <1>2, <2>1 DEF Buckets
    <3> HIDE DEF f
    <3>3. b \in Nat /\ 2 * b \in 0 .. (2 * f - 1) /\ 2 * b + 1 \in 0 .. (2 * f - 1)
      BY <3>1
    <3>4. (2 * b) \div 2 = b /\ (2 * b + 1) \div 2 = b /\ 2 * b + 1 # 2 * b
      BY <3>3
    <3> QED
      BY <3>2, <3>3, <3>4
  <2>3. k2 \in Buckets(big) /\ k2 \div 2 = b
    <3>1. BucketIn(got, key) = b
      BY <1>1, <1>2 DEF BucketIn
    <3> QED
      BY <1>1, <2>1, <3>1, BucketOfCell
  <2> HIDE DEF k2
  <2>4. /\ big.run[2 * b] = 2 * got.run[b] /\ big.run[2 * b + 1] = 2 * got.run[b]
        /\ big.run[k2] = 2 * got.run[b]
    BY <2>1, <2>2, <2>3
  <2>5. \E c \in Buckets(big) : c # 2 * b /\ big.run[c] = big.run[2 * b]
    BY <2>2, <2>4
  <2>6. big.run[BucketIn(big, key)] = big.run[2 * b]
    BY <2>4 DEF k2
  <2>7. /\ Shaped(y) /\ y.root_is_leaf = big.root_is_leaf /\ y.fanout = big.fanout
        /\ y.run # big.run /\ \A c \in Buckets(big) : big.run[c] <= y.run[c]
        /\ \A i \in DOMAIN y.data :
               \/ Unshared(y.data[i])
               \/ i \in DOMAIN big.data /\ y.data[i] = big.data[i]
        /\ LeafForRun(big) =>
               LeafForRun(y) /\ \A K : Routed(big, K) => Routed(y, K \cup {key})
    BY <1>1, <2>1, <2>2, <2>5, <2>6, SplitFacts
  <2> HIDE DEF y
  <2>8. y.fanout > index.fanout
    BY <1>2, <1>4, <2>1, <2>7
  <2>9. Divided(y, index)
    <3>1. /\ y.fanout \in Nat /\ y.fanout > 0 /\ y.run \in [Buckets(y) -> Buckets(y)]
      BY <2>7, ShapedFacts
    <3>2. index.fanout \in DOMAIN y.run /\ index.fanout \notin DOMAIN index.run
      BY <1>4, <2>8, <3>1 DEF Buckets
    <3> QED
      BY <2>8, <3>2 DEF Divided
  <2>10. \A i \in DOMAIN y.data :
            \/ Unshared(y.data[i])
            \/ \E c \in DOMAIN index.data :
                   /\ index.data[c].arrays = "heap" => y.data[i].arrays = "heap"
                   /\ index.data[c].arrays # "none" => y.data[i].arrays # "none"
                   /\ y.data[i].chunk # "none" => index.data[c].chunk # "none"
                   /\ Shares(y.data[i]) => Shares(index.data[c])
    <3> SUFFICES ASSUME NEW i \in DOMAIN y.data,
                        ~(Unshared(y.data[i]))
                 PROVE  \E c \in DOMAIN index.data :
                            /\ index.data[c].arrays = "heap" => y.data[i].arrays = "heap"
                            /\ index.data[c].arrays # "none" => y.data[i].arrays # "none"
                            /\ y.data[i].chunk # "none" => index.data[c].chunk # "none"
                            /\ Shares(y.data[i]) => Shares(index.data[c])
      OBVIOUS
    <3>1. PICK c \in DOMAIN got.data : y.data[i] = got.data[c]
      BY <2>1, <2>7
    <3> QED
      BY <1>2, <1>3, <3>1
  <2>11. LeafForRun(index) =>
            LeafForRun(y) /\ \A K : Routed(index, K) => Routed(y, K \cup {key})
    BY <1>5, <2>1, <2>7
  <2>12. index' = y
    BY <1>11 DEF y, big
  <2>13. index'.root_is_leaf = index.root_is_leaf
    <3>1. index.root_is_leaf \in BOOLEAN
      BY <1>1, ShapedFacts
    <3> QED
      BY <1>6, <2>1, <2>7, <2>12, <3>1
  <2> QED
    BY <1>1, <1>6, <1>11, <2>7, <2>9, <2>10, <2>11, <2>12, <2>13, ReadSucceeds,
       SplitStepKeepsInv
<1> QED
  BY <1>7, <1>8, <1>9, <1>10, <1>11 DEF SplitSideways, b, got

\* Saving keeps the invariant.
LEMMA SaveKeepsInv ==
    ASSUME IInv, SaveIndex
    PROVE  IInv'
<1>1. /\ Alive /\ process = "building" /\ UNCHANGED fanoutVars
      /\ Shaped(index) /\ LeafForRun(index) /\ Routed(index, keys) /\ keys # {}
      /\ keys \subseteq 0 .. (Span - 1) /\ forgotten = FALSE
      /\ \A b \in DOMAIN index.data :
             /\ index.data[b].arrays = "heap"
             /\ index.data[b].chunk # "none" => has_pager /\ archive.keys # {}
             /\ Shares(index.data[b]) => copied >= 1
      /\ root_chunk # "none" => has_pager /\ archive.keys # {}
  BY DEF SaveIndex, IInv, BuildingInv, SharingInv
<1>2. CASE /\ \/ has_pager /\ root_chunk = "freed"
              \/ \E b \in DOMAIN index.data : WritesFreedArrays(index.data[b])
           /\ Die("chunk")
  <2>1. has_pager /\ archive.keys # {}
    BY <1>1, <1>2 DEF WritesFreedArrays
  <2> QED
    BY <1>1, <1>2, <2>1, DeathKeepsInv DEF Die
<1>3. CASE /\ index' = [index EXCEPT !.data = [b \in DOMAIN @ |-> to_chunk(@[b])]]
           /\ root_chunk' = IF has_pager /\ ~index.root_is_leaf THEN "fresh" ELSE "none"
           /\ archive' = Saved(index', keys)
           /\ UNCHANGED <<process, has_pager, closed, keys, copied, forgotten, fault>>
  <2>1. /\ Shaped(index') /\ index'.run = index.run /\ index'.leaf = index.leaf
        /\ Routed(index', keys)
        /\ DOMAIN index'.data = DOMAIN index.data
        /\ \A b \in DOMAIN index'.data :
               /\ index'.data[b].arrays = index.data[b].arrays
               /\ index'.data[b].links = index.data[b].links
               /\ index'.data[b].chunk = IF has_pager THEN "fresh" ELSE index.data[b].chunk
    BY <1>1, <1>3, SavedFacts
  <2>2. archive'.index = index' /\ archive'.keys = keys
    BY <1>3 DEF Saved
  <2>3. LeafForRun(index')
    BY <1>1, <2>1 DEF LeafForRun
  <2>4. FanoutInv'
    BY <1>1 DEF IInv, FanoutInv, fanoutVars, Tiled, AllNodes, NodesOf, Holds, Lo, Hi, Width
  <2>5. \A b \in DOMAIN index'.data :
            /\ index'.data[b].chunk # "none" => has_pager
            /\ index'.data[b].chunk # "freed"
            /\ Shares(index'.data[b]) => Shares(index.data[b])
    BY <1>1, <2>1 DEF Shares
  <2>6. BuildingInv' /\ LoadingInv' /\ ReadingInv'
    BY <1>1, <1>3, <2>1, <2>2, <2>3 DEF BuildingInv, LoadingInv, ReadingInv
  <2>7. ArchiveInv'
    BY <1>1, <1>3, <2>1, <2>2, <2>3, <2>5 DEF ArchiveInv
  <2>8. SharingInv'
    BY <1>1, <1>3, <2>1, <2>2, <2>5 DEF SharingInv
  <2>9. FaultsHaveCauses'
    BY <1>1, <1>3 DEF Alive, FaultsHaveCauses
  <2>10. root_chunk' \in {"none", "fresh", "freed"}
    BY <1>3
  <2> QED
    BY <1>1, <1>3, <2>1, <2>4, <2>6, <2>7, <2>8, <2>9, <2>10 DEF IInv, fanoutVars
<1> QED
  BY <1>2, <1>3 DEF SaveIndex

\* Loading keeps the invariant.
LEMMA LoadKeepsInv ==
    ASSUME IInv, NEW is_closed \in BOOLEAN, LoadIndex(is_closed)
    PROVE  IInv'
<1>1. /\ Alive /\ process = "building" /\ process' = "reading" /\ closed' = is_closed
      /\ UNCHANGED fanoutVars /\ UNCHANGED <<has_pager, archive, forgotten, fault>>
      /\ keys' = archive.keys /\ root_chunk' = "none" /\ copied' = 0
      /\ archive.keys # {} /\ forgotten = FALSE
      /\ Shaped(archive.index) /\ LeafForRun(archive.index)
      /\ Routed(archive.index, archive.keys) /\ archive.keys \subseteq 0 .. (Span - 1)
  BY DEF LoadIndex, IInv, BuildingInv, ArchiveInv
<1>2. /\ Shaped(index') /\ index'.root_is_leaf = archive.index.root_is_leaf
      /\ index'.run = archive.index.run /\ index'.leaf = LoadedLeaf
      /\ Routed(index', archive.keys)
      /\ has_pager /\ ~index'.root_is_leaf =>
             \A b \in DOMAIN index'.data : index'.data[b].arrays # "none"
      /\ \A b \in DOMAIN index'.data :
             /\ ~Shares(index'.data[b]) /\ (index'.data[b].chunk # "none" => has_pager)
             /\ ~has_pager => index'.data[b].arrays = "none"
  BY <1>1, LoadedFacts DEF LoadIndex
<1>3. ~has_pager => LeafForRun(index')
  BY <1>1, <1>2 DEF LoadedLeaf, LeafForRun
<1>4. has_pager /\ archive.index.lazy = archive.index.run => LeafForRun(index')
  BY <1>2 DEF LoadedLeaf, LeafForRun
<1>5. FanoutInv'
  BY <1>1 DEF IInv, FanoutInv, fanoutVars, Tiled, AllNodes, NodesOf, Holds, Lo, Hi, Width
<1>6. BuildingInv' /\ LoadingInv'
  BY <1>1 DEF BuildingInv, LoadingInv
<1>7. ReadingInv'
  BY <1>1, <1>2, <1>3, <1>4 DEF ReadingInv, apart
<1>8. ArchiveInv'
  BY <1>1 DEF IInv, ArchiveInv
<1>9. FaultsHaveCauses'
  BY <1>1 DEF Alive, FaultsHaveCauses
<1>10. SharingInv'
  BY <1>1, <1>2 DEF SharingInv
<1> QED
  BY <1>1, <1>2, <1>5, <1>6, <1>7, <1>8, <1>9, <1>10 DEF IInv, fanoutVars

\* Copying keeps the invariant.
LEMMA CopyKeepsInv ==
    ASSUME IInv, CopyIndex
    PROVE  IInv'
<1>1. /\ Alive /\ UNCHANGED fanoutVars /\ Shaped(index) /\ keys \subseteq 0 .. (Span - 1)
      /\ Shaped(archive.index) /\ LeafForRun(archive.index)
      /\ BuildingInv /\ ReadingInv /\ SharingInv /\ process \in {"building", "reading"}
      /\ copied \in 0 .. 2
  BY DEF CopyIndex, Alive, IInv, ArchiveInv
<1>2. CASE /\ IF apart THEN ~closed
              ELSE \E b \in DOMAIN index.data : index.data[b].arrays = "none"
           /\ Die("read")
  <2>1. process = "reading" /\ copied = 0
        /\ (~has_pager \/ ~closed \/ index.root_is_leaf)
    <3>1. CASE process = "building"
      BY <1>1, <1>2, <3>1 DEF BuildingInv, apart
    <3>2. CASE process = "reading"
      <4>1. CASE apart
        BY <1>2, <3>2, <4>1 DEF apart
      <4>2. CASE ~apart
        <5>1. PICK b \in DOMAIN index.data : index.data[b].arrays = "none"
          BY <1>2, <4>2
        <5>2. copied = 0
          BY <1>1, <3>2, <5>1 DEF SharingInv
        <5> QED
          BY <3>2, <4>2, <5>2 DEF apart
      <4> QED
        BY <4>1, <4>2
    <3> QED
      BY <1>1, <3>1, <3>2
  <2> QED
    BY <1>1, <1>2, <2>1, DeathKeepsInv DEF Die
<1>3. CASE DeletesChunkAgain /\ Die("chunk")
  <2>1. has_pager /\ archive.keys # {} /\ (process = "reading" => copied = 2)
    BY <1>1, <1>3 DEF DeletesChunkAgain, SharingInv, Shares
  <2> QED
    BY <1>1, <1>3, <2>1, DeathKeepsInv DEF Die
<1>4. CASE /\ apart \/ \A b \in DOMAIN index.data : index.data[b].arrays # "none"
           /\ index' = CopyOfIndex
           /\ root_chunk' = AfterDelete(root_chunk)
           /\ forgotten' = (forgotten \/ (apart /\ keys # archive.keys))
           /\ copied' = IF copied = 2 THEN 2 ELSE copied + 1
           /\ UNCHANGED <<process, has_pager, archive, closed, keys, fault>>
  <2>1. FanoutInv'
    BY <1>1 DEF IInv, FanoutInv, fanoutVars, Tiled, AllNodes, NodesOf, Holds, Lo, Hi, Width
  <2>2. LoadingInv' /\ ArchiveInv'
    BY <1>1, <1>4 DEF Alive, LoadingInv, IInv, ArchiveInv
  <2>3. FaultsHaveCauses'
    BY <1>1, <1>4 DEF Alive, FaultsHaveCauses
  <2>4. /\ forgotten' \in BOOLEAN /\ root_chunk' \in {"none", "fresh", "freed"}
        /\ copied' \in 1 .. 2 /\ (copied # 0 => copied' = 2)
        /\ root_chunk' # "none" => root_chunk # "none"
    BY <1>1, <1>4 DEF IInv, AfterDelete
  <2>5. ~apart'
    BY <2>4 DEF apart
  <2>6. CASE ~apart
    <3> DEFINE x == copy_tree_recursive(index)
    <3>1. LeafForRun(index)
      BY <1>1, <2>6 DEF BuildingInv, ReadingInv
    <3>2. /\ Shaped(x) /\ LeafForRun(x) /\ x.root_is_leaf = index.root_is_leaf
          /\ Routed(index, keys) => Routed(x, keys)
          /\ \A b \in DOMAIN x.data :
                 /\ b \in DOMAIN index.data /\ x.data[b].arrays = "heap"
                 /\ x.data[b].chunk = index.data[b].chunk
      BY <1>1, <3>1, CopyFacts
    <3>3. index' = [x EXCEPT !.data = [b \in DOMAIN @ |-> Orphaned(@[b])]]
      BY <1>4, <2>6 DEF CopyOfIndex
    <3> HIDE DEF x
    <3>4. /\ Shaped(index') /\ index'.run = x.run /\ index'.leaf = x.leaf
          /\ index'.root_is_leaf = index.root_is_leaf
          /\ Routed(index, keys) => Routed(index', keys)
          /\ \A b \in DOMAIN index'.data :
                 /\ b \in DOMAIN index.data /\ index'.data[b].arrays = "heap"
                 /\ index'.data[b].chunk # "none" => index.data[b].chunk # "none"
      <4> DEFINE y == [x EXCEPT !.data = [b \in DOMAIN @ |-> Orphaned(@[b])]]
      <4>1. /\ Shaped(y) /\ y.run = x.run /\ y.leaf = x.leaf
            /\ y.root_is_leaf = x.root_is_leaf
            /\ \A K : Routed(x, K) => Routed(y, K)
            /\ DOMAIN y.data = DOMAIN x.data
            /\ \A b \in DOMAIN y.data :
                   /\ y.data[b].arrays = x.data[b].arrays
                   /\ y.data[b].chunk # "none" => x.data[b].chunk # "none"
        BY <3>2, OrphanedFacts
      <4>2. index' = y
        BY <3>3
      <4> HIDE DEF y
      <4> QED
        BY <3>2, <4>1, <4>2
    <3>5. LeafForRun(index')
      BY <3>2, <3>4 DEF LeafForRun
    <3>6. forgotten' <=> forgotten
      BY <1>4, <2>6 DEF IInv
    <3>7. BuildingInv'
      BY <1>1, <1>4, <3>4, <3>5, <3>6 DEF BuildingInv
    <3>8. ReadingInv'
      BY <1>1, <1>4, <2>5, <2>6, <3>4, <3>5, <3>6 DEF ReadingInv
    <3>9. process = "reading" => copied' = 2
      <4> SUFFICES ASSUME process = "reading", copied = 0 PROVE FALSE
        BY <2>4
      <4>1. ~has_pager
        BY <2>6 DEF apart
      <4>2. PICK b \in DOMAIN index.data : TRUE
        <5>1. DOMAIN index.data = {index.leaf[b] : b \in Buckets(index)} /\ 0 \in Buckets(index)
          BY <1>1, ShapedFacts DEF Buckets
        <5> QED
          BY <5>1
      <4> QED
        BY <1>1, <1>4, <2>6, <4>1, <4>2 DEF SharingInv
    <3>10. SharingInv'
      BY <1>1, <1>4, <2>4, <3>4, <3>9 DEF SharingInv
    <3> QED
      BY <1>1, <1>4, <2>1, <2>2, <2>3, <2>4, <3>4, <3>7, <3>8, <3>10 DEF IInv, fanoutVars
  <2>7. CASE apart
    <3> DEFINE x == Unlinked(archive.index)
    <3>1. /\ process = "reading" /\ has_pager /\ archive.keys # {}
          /\ index.root_is_leaf = archive.index.root_is_leaf
      BY <1>1, <2>7 DEF ReadingInv, apart
    <3>2. /\ Routed(archive.index, archive.keys)
          /\ \A b \in DOMAIN archive.index.data : archive.index.data[b].chunk # "freed"
      BY <3>1 DEF IInv, ArchiveInv
    <3>3. /\ Shaped(x) /\ LeafForRun(x) /\ x.root_is_leaf = archive.index.root_is_leaf
          /\ Routed(x, archive.keys)
          /\ \A b \in DOMAIN x.data : ~Shares(x.data[b])
      <4>1. /\ Shaped(x) /\ x.run = archive.index.run /\ x.leaf = archive.index.leaf
            /\ x.root_is_leaf = archive.index.root_is_leaf /\ Routed(x, archive.keys)
            /\ DOMAIN x.data = DOMAIN archive.index.data
            /\ \A b \in DOMAIN x.data :
                   x.data[b].links = "none" /\ x.data[b].chunk = archive.index.data[b].chunk
        BY <1>1, <3>2, UnlinkedFacts
      <4> HIDE DEF x
      <4> QED
        BY <1>1, <3>2, <4>1 DEF LeafForRun, Shares
    <3>4. index' = copy_tree_recursive(x)
      BY <1>4, <2>7 DEF CopyOfIndex
    <3> HIDE DEF x
    <3>5. /\ Shaped(index') /\ LeafForRun(index') /\ index'.root_is_leaf = x.root_is_leaf
          /\ Routed(index', archive.keys)
          /\ \A b \in DOMAIN index'.data :
                 /\ b \in DOMAIN x.data /\ index'.data[b].arrays = "heap"
                 /\ index'.data[b].chunk = x.data[b].chunk
                 /\ index'.data[b].links = x.data[b].links
      BY <3>3, <3>4, CopyFacts
    <3>6. ~forgotten' => keys = archive.keys
      BY <1>4, <2>7
    <3>7. BuildingInv'
      BY <1>4, <3>1 DEF BuildingInv
    <3>8. ReadingInv'
      BY <1>4, <2>5, <3>1, <3>3, <3>5, <3>6 DEF ReadingInv
    <3>9. \A b \in DOMAIN index'.data : ~Shares(index'.data[b])
      BY <3>3, <3>5 DEF Shares
    <3>10. SharingInv'
      BY <1>1, <1>4, <2>4, <3>1, <3>5, <3>9 DEF SharingInv
    <3> QED
      BY <1>1, <1>4, <2>1, <2>2, <2>3, <2>4, <3>5, <3>7, <3>8, <3>10 DEF IInv, fanoutVars
  <2> QED
    BY <2>6, <2>7
<1> QED
  BY <1>2, <1>3, <1>4 DEF CopyIndex

\* Steps of the fanout tree leave the index alone.
LEMMA FanoutStepKeepsInv ==
    ASSUME IInv, NextFanout, UNCHANGED indexVars
    PROVE  IInv'
<1>1. FanoutInv'
  BY NextFanoutKeepsInv DEF IInv
<1>2. method' = method /\ low' = low
  BY DEF NextFanout, ChooseLevel, MergePair, EndMerging, Grow
<1>3. phase' # "over" \/ phase' = phase
  BY DEF NextFanout, ChooseLevel, MergePair, EndMerging, Grow
<1>4. LoadingInv'
  BY <1>3 DEF IInv, LoadingInv, indexVars
<1>5. BuildingInv' /\ ArchiveInv' /\ ReadingInv' /\ SharingInv' /\ FaultsHaveCauses'
  BY DEF IInv, BuildingInv, ArchiveInv, ReadingInv, SharingInv, FaultsHaveCauses,
         indexVars, apart
<1> QED
  BY <1>1, <1>2, <1>4, <1>5 DEF IInv, indexVars

\* The fallback takes all nodes of a level.
LEMMA FallbackKeepsInv ==
    ASSUME IInv, ComputeLevel
    PROVE  IInv'
<1>1. /\ process = "loading" /\ phase = "collected" /\ phase' = phase /\ values' = values
      /\ low' = low /\ level' = level /\ UNCHANGED indexVars
      /\ depth' = FallbackDepth /\ use' = NodesOf(FallbackDepth) /\ method' = "whole_level"
      /\ pair' = pair /\ merged' = merged
  BY DEF ComputeLevel
<1>2. FanoutInv /\ values \in Load
  BY <1>1 DEF IInv, FanoutInv
<1>3. FallbackDepth \in 1 .. MaxLevel
  BY <1>2, FallbackIsALevel
<1> DEFINE d == FallbackDepth
<1>4. d \in 0 .. MaxLevel /\ d > 0 /\ d \in Nat
  BY <1>3, WidthFacts
<1> HIDE DEF d
<1>5. Tiled(NodesOf(d), d)
  BY <1>4, LevelIsTiled
<1>6. <<0, 0>> \notin NodesOf(d)
  BY <1>4 DEF NodesOf
<1>7. depth' = d /\ use' = NodesOf(d)
  BY <1>1 DEF d
<1>8. Tiled(use', depth')
  BY <1>5, <1>7
<1>9. Tiled(use, depth)'
  BY <1>8 DEF Tiled, AllNodes, NodesOf, Holds, Lo, Hi, Width
<1>10. FanoutInv'
  BY <1>1, <1>2, <1>4, <1>6, <1>7, <1>9 DEF FanoutInv
<1>11. /\ LoadingInv' /\ BuildingInv' /\ ArchiveInv' /\ ReadingInv' /\ SharingInv'
       /\ FaultsHaveCauses'
  BY <1>1 DEF IInv, LoadingInv, BuildingInv, ArchiveInv, ReadingInv, SharingInv,
              FaultsHaveCauses, indexVars, apart
<1> QED
  BY <1>1, <1>10, <1>11 DEF IInv, indexVars

\* bulk_load makes an index of the keys loaded.
LEMMA BulkLoadKeepsInv ==
    ASSUME IInv, BulkLoad
    PROVE  IInv'
<1>1. /\ process = "loading" /\ phase = "collected" /\ method # "existing"
      /\ process' = "building" /\ keys' = values /\ values' = {} /\ low' = {}
      /\ method' = "existing" /\ use' = {} /\ depth' = 0 /\ level' = 0 /\ pair' = 0
      /\ merged' = FALSE /\ phase' = "over"
      /\ UNCHANGED <<has_pager, root_chunk, archive, closed, copied, forgotten, fault>>
      /\ (index' = RootLeaf(values) \/ (depth \in 1 .. MaxSaved /\ index' = Children))
  BY DEF BulkLoad
<1>2. /\ FanoutInv /\ values \in Load /\ (method = "top_down" => low = {})
      /\ copied = 0 /\ root_chunk = "none" /\ forgotten = FALSE /\ fault = "none"
      /\ archive = Saved(RootLeaf({}), {})
  BY <1>1 DEF IInv, FanoutInv, LoadingInv
<1>3. values \subseteq 0 .. (Span - 1) /\ values # {}
  BY <1>2, SpanIsDivisible DEF FanoutInv
<1>4. /\ Shaped(index') /\ LeafForRun(index') /\ Routed(index', values)
      /\ \A b \in DOMAIN index'.data :
             Unshared(index'.data[b])
  <2>1. CASE index' = RootLeaf(values)
    BY <1>3, <2>1, RootLeafFacts
  <2>2. CASE depth \in 1 .. MaxSaved /\ index' = Children
    BY <1>1, <1>2, <2>2, ChildrenFacts
  <2> QED
    BY <1>1, <2>1, <2>2
<1>5. FanoutInv'
  <2>1. MaxLevel \in Nat
    BY WidthFacts
  <2> QED
    BY <1>1, <2>1 DEF FanoutInv
<1>6. BuildingInv' /\ LoadingInv' /\ ReadingInv'
  BY <1>1, <1>2, <1>3, <1>4 DEF BuildingInv, LoadingInv, ReadingInv, Unshared
<1>7. ArchiveInv'
  BY <1>1 DEF IInv, ArchiveInv
<1>8. FaultsHaveCauses'
  BY <1>1, <1>2 DEF FaultsHaveCauses
<1>9. SharingInv'
  BY <1>1, <1>2, <1>4 DEF SharingInv, Shares, Unshared
<1> QED
  BY <1>1, <1>2, <1>3, <1>4, <1>5, <1>6, <1>7, <1>8, <1>9 DEF IInv

\* Initially.
LEMMA InitIInv == Init => IInv
<1> SUFFICES ASSUME Init PROVE IInv
  OBVIOUS
<1>1. /\ InitFanout /\ (method = "top_down" => low = {})
      /\ process = "loading" /\ has_pager \in BOOLEAN
      /\ index = RootLeaf({}) /\ archive = Saved(RootLeaf({}), {})
      /\ closed = FALSE /\ keys = {} /\ copied = 0 /\ root_chunk = "none"
      /\ forgotten = FALSE /\ fault = "none"
  BY DEF Init
<1>2. FanoutInv
  BY <1>1, InitFanoutInv
<1>3. /\ Shaped(RootLeaf({})) /\ LeafForRun(RootLeaf({}))
      /\ \A b \in DOMAIN RootLeaf({}).data : Unshared(RootLeaf({}).data[b])
  BY RootLeafFacts
<1>4. phase # "over"
  BY <1>1 DEF InitFanout
<1>5. LoadingInv /\ BuildingInv /\ ReadingInv /\ FaultsHaveCauses
  BY <1>1, <1>4 DEF LoadingInv, BuildingInv, ReadingInv, FaultsHaveCauses
<1>6. archive.index = RootLeaf({}) /\ archive.keys = {}
  BY <1>1 DEF Saved
<1>7. ArchiveInv
  BY <1>3, <1>6 DEF ArchiveInv, Unshared
<1>8. SharingInv
  BY <1>1, <1>3 DEF SharingInv, Shares, Unshared
<1>9. Shaped(index) /\ (method = "top_down" => low = {}) /\ keys \subseteq 0 .. (Span - 1)
  BY <1>1, <1>3
<1>10. /\ process \in {"loading", "building", "reading"}
       /\ has_pager \in BOOLEAN /\ closed \in BOOLEAN
       /\ root_chunk \in {"none", "fresh", "freed"}
       /\ copied \in 0 .. 2 /\ forgotten \in BOOLEAN
       /\ fault \in {"none", "read", "resize", "expand", "chunk", "links"}
  <2>1. has_pager \in BOOLEAN
    BY <1>1
  <2>2. process = "loading" /\ root_chunk = "none" /\ fault = "none"
    BY <1>1
  <2>3. closed \in BOOLEAN /\ forgotten \in BOOLEAN
    BY <1>1
  <2>4. copied \in 0 .. 2
    <3>1. copied = 0
      BY <1>1
    <3> QED
      BY <3>1
  <2> QED
    BY <2>1, <2>2, <2>3, <2>4
<1> QED
  BY <1>2, <1>5, <1>7, <1>8, <1>9, <1>10 DEF IInv

\* Every step keeps the invariant.
LEMMA NextKeepsInv == IInv /\ [Next]_allVars => IInv'
<1> SUFFICES ASSUME IInv, [Next]_allVars PROVE IInv'
  OBVIOUS
<1>1. CASE NextFanout /\ UNCHANGED indexVars
  BY <1>1, FanoutStepKeepsInv
<1>2. CASE ComputeLevel
  BY <1>2, FallbackKeepsInv
<1>3. CASE BulkLoad
  BY <1>3, BulkLoadKeepsInv
<1>4. ASSUME NEW key \in Key, Lookup(key) PROVE IInv'
  BY <1>4, LookupKeepsInv
<1>5. ASSUME NEW key \in Key, Insert(key) PROVE IInv'
  BY <1>5, InsertKeepsInv
<1>6. ASSUME NEW key \in Key, SplitSideways(key) PROVE IInv'
  BY <1>6, SplitKeepsInv
<1>7. CASE SaveIndex
  BY <1>7, SaveKeepsInv
<1>8. CASE CopyIndex
  BY <1>8, CopyKeepsInv
<1>9. ASSUME NEW is_closed \in BOOLEAN, LoadIndex(is_closed) PROVE IInv'
  BY <1>9, LoadKeepsInv
<1>10. CASE UNCHANGED allVars
  <2>1. UNCHANGED fanoutVars /\ UNCHANGED indexVars
    BY <1>10 DEF allVars
  <2>2. FanoutInv'
    BY <2>1 DEF IInv, FanoutInv, fanoutVars, Tiled, AllNodes, NodesOf, Holds, Lo, Hi, Width
  <2>3. /\ LoadingInv' /\ BuildingInv' /\ ArchiveInv' /\ ReadingInv' /\ SharingInv'
        /\ FaultsHaveCauses'
    BY <2>1 DEF IInv, LoadingInv, BuildingInv, ArchiveInv, ReadingInv, SharingInv,
                FaultsHaveCauses, indexVars, fanoutVars, apart
  <2> QED
    BY <2>1, <2>2, <2>3 DEF IInv, indexVars, fanoutVars
<1> QED
  BY <1>1, <1>2, <1>3, <1>4, <1>5, <1>6, <1>7, <1>8, <1>9, <1>10 DEF Next

-----------------------------------------------------------------------------
(* The theorems.                                                           *)

\* Together: every state of the specification satisfies the invariant.
LEMMA InvAlways == Spec => []IInv
<1>1. Init => IInv
  BY InitIInv
<1>2. IInv /\ [Next]_allVars => IInv'
  BY NextKeepsInv
<1> QED
  BY <1>1, <1>2, PTL DEF Spec

\* What the users of a fanout tree take for granted (alex_fanout_tree.h): after
\* any choice of level, merges, growth and the fallback of bulk_load, the nodes
\* in use are a partition of the fanout and of the array, in order.
THEOREM FanoutsArePartitions == Spec => []UsedNodesPartition
<1>1. IInv => UsedNodesPartition
  BY InvGivesPartition DEF IInv
<1> QED
  BY <1>1, InvAlways, PTL

\* An index, built, loaded or copied, and the one last saved are well formed: in
\* particular the lazy nodes (LazyAlexNode) that pointers share lead to one leaf.
THEOREM IndexTypesAreKept == Spec => []TypeOK
<1>1. IInv => TypeOK
  <2> SUFFICES ASSUME IInv PROVE TypeOK
    OBVIOUS
  <2>1. IsIndex(index) /\ IsIndex(archive.index)
    BY DEF IInv, ArchiveInv, Shaped
  <2> QED
    BY <2>1 DEF IInv, TypeOK
<1> QED
  BY <1>1, InvAlways, PTL

\* Bulk load, inserts, splits, serialize, the loading constructor and the copy
\* constructor of Alex lose no key and invent none, but in the two cases that
\* IndexHasItsKeys names.
THEOREM LoadedIndexHasItsKeys == Spec => []IndexHasItsKeys
<1>1. IInv => IndexHasItsKeys
  <2> SUFFICES ASSUME IInv, process # "loading", ~CopiesWereDropped, ~forgotten
               PROVE  \A k \in Key \cup keys : k \in DataOf(k).keys <=> k \in keys
    BY DEF IndexHasItsKeys
  <2>1. Routed(index, keys)
    <3>1. CASE process = "building"
      BY <3>1 DEF IInv, BuildingInv
    <3>2. CASE process = "reading" /\ ~apart
      BY <3>2 DEF IInv, ReadingInv
    <3>3. CASE process = "reading" /\ apart
      <4>1. CASE archive.index.lazy = archive.index.run
        BY <3>3, <4>1 DEF IInv, ReadingInv
      <4>2. CASE archive.index.lazy # archive.index.run
        <5>1. index.run = archive.index.run
          BY <3>3, <4>2 DEF CopiesWereDropped
        <5> QED
          BY <3>3, <4>2, <5>1 DEF IInv, ReadingInv, Divided
      <4> QED
        BY <4>1, <4>2
    <3> QED
      BY <3>1, <3>2, <3>3 DEF IInv
  <2>2. Key \cup keys \subseteq 0 .. (Span - 1)
    BY FanoutsAreBounded DEF IInv
  <2> QED
    BY <2>1, <2>2 DEF Routed, DataOf, Bucket, BucketIn
<1> QED
  BY <1>1, InvAlways, PTL

\* What recover, the chunks and the pagers can make a program die of, and when:
\* reading, resizing and expanding in an index just loaded, chunks deleted twice
\* and foreign links in copies, of a loaded index in the second at the earliest.
THEOREM DeathsHaveCauses == Spec => []FaultsHaveCauses
<1>1. IInv => FaultsHaveCauses
  BY DEF IInv
<1> QED
  BY <1>1, InvAlways, PTL
=============================================================================
