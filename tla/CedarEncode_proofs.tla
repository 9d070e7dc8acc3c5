-------------------------- MODULE CedarEncode_proofs --------------------------
(***************************************************************************)
(* What decode() gives back of what encode() was given, for texts and      *)
(* blocks of every length, characters of every width and every cipher.     *)
(*                                                                         *)
(* The invariant says what the buffers hold of the blocks that the         *)
(* recursion has returned from.  The rest is about numbers: what the       *)
(* weights of a character's bits add up to, and which cell belongs to      *)
(* which block.                                                            *)
(***************************************************************************)
EXTENDS CedarEncode, WellFoundedInduction, TLAPS

-----------------------------------------------------------------------------
(*****************************************************************************)
(* Numbers.  An induction here is a set of numbers that has 0 and the        *)
(* next of each of its members, and a least counterexample.                  *)
(*****************************************************************************)

\* A set of numbers has a least member.
LEMMA Least == ASSUME NEW T, T \subseteq Nat, T # {} PROVE \E x \in T : \A y \in T : x <= y
<1>1. IsWellFoundedOn(OpToRel(<,Nat), Nat)
  BY NatLessThanWellFounded
<1>2. PICK x \in T : \A y \in T : <<y, x>> \notin OpToRel(<,Nat)
  BY <1>1, WFMin
<1>3. \A y \in T : ~(y < x)
  BY <1>2 DEF OpToRel
<1> QED BY <1>3

\* Induction up to m, with a set for the predicate.
LEMMA UpTo ==
  ASSUME NEW m \in Nat, NEW T, 0 \in T,
         \A j \in 0..(m - 1) : j \in T => j + 1 \in T
  PROVE  0..m \subseteq T
<1> SUFFICES ASSUME ~(0..m \subseteq T) PROVE FALSE
  OBVIOUS
<1> DEFINE S == (0..m) \ T
<1>1. S \subseteq Nat /\ S # {}
  OBVIOUS
<1>2. PICK x \in S : \A y \in S : x <= y
  BY <1>1, Least
<1>3. x # 0 /\ x - 1 \in 0..(m - 1)
  OBVIOUS
<1>4. x - 1 \in T
  BY <1>2, <1>3
<1> QED BY <1>3, <1>4

\* A function that is defined by what it is at the number before.
LEMMA Recursion ==
  ASSUME NEW m \in Nat, NEW a \in Nat, NEW F \in [1..m -> [Nat -> Nat]]
  PROVE  \E g \in [0..m -> Nat] : g[0] = a /\ \A j \in 1..m : g[j] = F[j][g[j - 1]]
<1> DEFINE IsUpTo(n, g) == g[0] = a /\ \A j \in 1..n : g[j] = F[j][g[j - 1]]
           T == {n \in 0..m : \E g \in [0..n -> Nat] : IsUpTo(n, g)}
<1>1. 0 \in T
  <2>1. [j \in 0..0 |-> a] \in [0..0 -> Nat] /\ IsUpTo(0, [j \in 0..0 |-> a])
    OBVIOUS
  <2>2. 0 \in 0..m
    OBVIOUS
  <2> HIDE DEF IsUpTo
  <2> QED BY <2>1, <2>2
<1>2. ASSUME NEW n \in 0..(m - 1), n \in T PROVE n + 1 \in T
  <2>1. PICK g \in [0..n -> Nat] : IsUpTo(n, g)
    BY <1>2
  <2> DEFINE h == [j \in 0..(n + 1) |-> IF j = n + 1 THEN F[n + 1][g[n]] ELSE g[j]]
  <2>2. n + 1 \in 1..m /\ n \in 0..n /\ n \in Nat
    OBVIOUS
  <2>3. F[n + 1][g[n]] \in Nat
    BY <2>2
  <2>4. h \in [0..(n + 1) -> Nat]
    <3>1. \A j \in 0..(n + 1) : j # n + 1 => j \in 0..n
      OBVIOUS
    <3>2. \A j \in 0..(n + 1) : (IF j = n + 1 THEN F[n + 1][g[n]] ELSE g[j]) \in Nat
      BY <2>3, <3>1
    <3> QED BY <3>2
  <2>5. h[0] = a
    BY <2>1
  <2>6. ASSUME NEW j \in 1..(n + 1) PROVE h[j] = F[j][h[j - 1]]
    <3>1. j - 1 \in 0..n /\ j - 1 # n + 1 /\ j \in 0..(n + 1)
      OBVIOUS
    <3>2. h[j - 1] = g[j - 1]
      BY <3>1
    <3>3. CASE j = n + 1
      <4>1. h[j] = F[n + 1][g[n]]
        BY <3>1, <3>3
      <4> QED BY <3>2, <3>3, <4>1
    <3>4. CASE j # n + 1
      <4>1. j \in 1..n /\ h[j] = g[j]
        BY <3>1, <3>4
      <4> HIDE DEF h
      <4> QED BY <2>1, <3>2, <4>1
    <3> QED BY <3>3, <3>4
  <2> HIDE DEF h
  <2>7. IsUpTo(n + 1, h)
    BY <2>5, <2>6
  <2>8. n + 1 \in 0..m
    OBVIOUS
  <2> HIDE DEF IsUpTo
  <2> QED BY <2>4, <2>7, <2>8
<1>3. m \in T
  <2> HIDE DEF T
  <2>1. 0..m \subseteq T
    BY <1>1, <1>2, UpTo
  <2> QED BY <2>1
<1> QED BY <1>3

LEMMA Above ==
  ASSUME NEW a \in Int, NEW b \in Int, NEW w \in Nat, a < b
  PROVE  a * w + w <= b * w
<1>1. b - a - 1 \in Nat /\ (b - a - 1) * w >= 0
  OBVIOUS
<1>2. b * w = a * w + w + (b - a - 1) * w
  OBVIOUS
<1> QED BY <1>1, <1>2

LEMMA Times ==
  ASSUME NEW a \in Nat, NEW b \in Nat, NEW w \in Nat, a <= b
  PROVE  a * w <= b * w /\ a * w \in Nat /\ b * w \in Nat
<1>1. a * w \in Nat /\ b * w \in Nat
  OBVIOUS
<1>2. CASE a = b
  BY <1>1, <1>2
<1>3. CASE a < b
  BY <1>1, <1>3, Above
<1> QED BY <1>1, <1>2, <1>3

LEMMA Division ==
  ASSUME NEW v \in Nat, NEW w \in Nat \ {0}
  PROVE  /\ v \div w \in Nat /\ v % w \in 0..(w - 1)
         /\ v = (v \div w) * w + (v % w)
OBVIOUS

LEMMA Quotient ==
  ASSUME NEW q \in Nat, NEW w \in Nat \ {0}, NEW r \in 0..(w - 1)
  PROVE  (q * w + r) \div w = q /\ (q * w + r) % w = r
OBVIOUS

LEMMA QuotientBounds ==
  ASSUME NEW v \in Nat, NEW w \in Nat \ {0}
  PROVE  /\ v \div w \in Nat /\ (v \div w) * w \in Nat
         /\ (v \div w) * w <= v /\ v < (v \div w) * w + w
<1> DEFINE q == v \div w
           r == v % w
<1>1. q \in Nat /\ r \in 0..(w - 1) /\ v = q * w + r
  BY Division
<1> HIDE DEF q, r
<1>2. q * w \in Nat
  BY <1>1
<1>3. q * w <= v /\ v < q * w + w
  BY <1>1, <1>2
<1> QED BY <1>1, <1>2, <1>3 DEF q

LEMMA QuotientBelow ==
  ASSUME NEW v \in Nat, NEW w \in Nat \ {0}, NEW n \in Nat, v < n * w
  PROVE  v \div w < n
<1> DEFINE q == v \div w
<1>1. q \in Nat /\ q * w \in Nat /\ q * w <= v
  BY QuotientBounds
<1> HIDE DEF q
<1> SUFFICES ASSUME n <= q PROVE FALSE
  BY <1>1 DEF q
<1>2. n * w <= q * w /\ n * w \in Nat
  BY <1>1, Times
<1> QED BY <1>1, <1>2

\* A cell of one of n blocks of w cells.
LEMMA CellOfBlock ==
  ASSUME NEW w \in Nat \ {0}, NEW n \in Nat, NEW b \in 0..(n - 1), NEW i \in 0..(w - 1)
  PROVE  b * w + i \in 0..(n * w - 1) /\ b * w \in Nat
<1>1. b * w + w <= n * w
  BY Above
<1>2. b * w \in Nat /\ n * w \in Nat
  OBVIOUS
<1> QED BY <1>1, <1>2

\* A set of integers that has a bound has a greatest member.
LEMMA Greatest ==
  ASSUME NEW T, NEW n \in Int, T # {}, T \subseteq Int, \A x \in T : x <= n
  PROVE  Max(T) \in T /\ \A x \in T : x <= Max(T)
<1> DEFINE U == {n - x : x \in T}
<1>1. U \subseteq Nat /\ U # {}
  <2>1. \A x \in T : n - x \in Nat
    OBVIOUS
  <2> QED BY <2>1
<1>2. PICK u \in U : \A y \in U : u <= y
  <2> HIDE DEF U
  <2> QED BY <1>1, Least
<1>3. PICK x \in T : u = n - x
  OBVIOUS
<1>4. \A y \in T : x >= y
  <2> TAKE y \in T
  <2>1. u <= n - y
    BY <1>2
  <2>2. x \in Int /\ y \in Int
    OBVIOUS
  <2> QED BY <1>3, <2>1, <2>2
<1>5. Max(T) \in T /\ \A y \in T : Max(T) >= y
  BY <1>4 DEF Max
<1> QED BY <1>5

-----------------------------------------------------------------------------
(*****************************************************************************)
(* Bits and characters.                                                      *)
(*****************************************************************************)

LEMMA Sizes ==
  /\ Width \in Nat \ {0} /\ Bits \in Nat \ {0} /\ N \in Nat \ {0}
  /\ Size \in Nat \ {0} /\ MaxText \in Nat
  /\ N = Width * Bits
BY EncodeAssumption DEF N

\* The weights are what their recursion says.
LEMMA Weights ==
  /\ Weight \in [0..Bits -> Nat]
  /\ Weight[0] = 1
  /\ \A j \in 1..Bits : Weight[j] = 2 * Weight[j - 1]
<1> DEFINE F == [j \in 1..Bits |-> [x \in Nat |-> 2 * x]]
           Def(g) == [j \in 0..Bits |-> IF j = 0 THEN 1 ELSE 2 * g[j - 1]]
<1>1. F \in [1..Bits -> [Nat -> Nat]]
  OBVIOUS
<1>2. PICK g \in [0..Bits -> Nat] : g[0] = 1 /\ \A j \in 1..Bits : g[j] = F[j][g[j - 1]]
  <2>1. Bits \in Nat /\ 1 \in Nat
    BY EncodeAssumption
  <2> HIDE DEF F, Def
  <2> QED BY <1>1, <2>1, Recursion, Zenon
<1>3. g = Def(g)
  <2>1. \A j \in 0..Bits : g[j] = Def(g)[j]
    <3> TAKE j \in 0..Bits
    <3>1. CASE j = 0
      BY <1>2, <3>1
    <3>2. CASE j # 0
      <4>1. j \in 1..Bits /\ j - 1 \in 0..Bits
        BY EncodeAssumption, <3>2
      <4> QED BY <1>2, <4>1, <3>2
    <3> QED BY <3>1, <3>2
  <2> QED BY <2>1
<1>4. Weight = Def(Weight)
  <2> HIDE DEF Def
  <2>1. Weight = CHOOSE f : f = Def(f)
    BY DEF Weight, Def
  <2> QED BY <1>3, <2>1
<1>5. \A j \in 0..Bits : Weight[j] = IF j = 0 THEN 1 ELSE 2 * Weight[j - 1]
  <2> HIDE DEF Weight
  <2> QED BY <1>4
<1>6. \A j \in 0..Bits : Weight[j] \in Nat
  <2> DEFINE T == {j \in 0..Bits : Weight[j] \in Nat}
  <2> HIDE DEF Weight
  <2>1. 0 \in T
    BY EncodeAssumption, <1>5
  <2>2. ASSUME NEW j \in 0..(Bits - 1), j \in T PROVE j + 1 \in T
    <3>1. j + 1 \in 0..Bits /\ j + 1 # 0 /\ (j + 1) - 1 = j
      BY EncodeAssumption
    <3>2. Weight[j + 1] = 2 * Weight[j]
      BY <1>5, <3>1
    <3> QED BY <2>2, <3>1, <3>2
  <2>3. Bits \in Nat
    BY EncodeAssumption
  <2> HIDE DEF T
  <2>4. 0..Bits \subseteq T
    BY <2>1, <2>2, <2>3, UpTo
  <2> QED BY <2>4 DEF T
<1>7. Weight = [j \in 0..Bits |-> Weight[j]]
  <2> HIDE DEF Weight
  <2> QED BY <1>4
<1> HIDE DEF Weight
<1>8. Weight \in [0..Bits -> Nat]
  <2>1. [j \in 0..Bits |-> Weight[j]] \in [0..Bits -> Nat]
    BY <1>6
  <2> QED BY <1>7, <2>1, Zenon
<1>9. Bits \in Nat /\ \A j \in 1..Bits : j \in 0..Bits /\ j # 0
  BY EncodeAssumption
<1>10. \A j \in 1..Bits : Weight[j] = 2 * Weight[j - 1]
  BY <1>5, <1>9
<1>11. Weight[0] = 1
  BY <1>5, <1>9
<1> QED BY <1>8, <1>10, <1>11

LEMMA WeightsGrow ==
  \A j \in 0..Bits : Weight[j] \in Nat \ {0}
<1> DEFINE T == {j \in 0..Bits : Weight[j] # 0}
<1>1. 0 \in T
  BY Sizes, Weights
<1>2. ASSUME NEW j \in 0..(Bits - 1), j \in T PROVE j + 1 \in T
  <2>1. j + 1 \in 1..Bits /\ (j + 1) - 1 = j /\ j \in 0..Bits /\ j + 1 \in 0..Bits
    BY Sizes
  <2>2. Weight[j + 1] = 2 * Weight[j] /\ Weight[j] \in Nat
    BY <2>1, Weights
  <2> QED BY <1>2, <2>1, <2>2
<1>3. Bits \in Nat
  BY Sizes
<1>4. 0..Bits \subseteq T
  <2> HIDE DEF T
  <2> QED BY <1>1, <1>2, <1>3, UpTo
<1> QED BY <1>4, Weights

LEMMA BitsAreBits ==
  ASSUME NEW v \in Nat, NEW j \in 0..Bits
  PROVE  sap_bit(v, j) \in {0, 1}
<1>1. v \div Weight[j] \in Nat
  BY WeightsGrow, Division
<1>2. \A x \in Nat : x % 2 \in {0, 1}
  OBVIOUS
<1> QED BY <1>1, <1>2 DEF sap_bit

\* What is left of a number after one more of its bits.
LEMMA OneMoreBit ==
  ASSUME NEW v \in Nat, NEW w \in Nat \ {0}
  PROVE  v % (2 * w) = (v % w) + w * ((v \div w) % 2)
<1> DEFINE q == v \div w
           r == v % w
           p == q \div 2
           b == q % 2
<1>1. q \in Nat /\ r \in 0..(w - 1) /\ v = q * w + r
  BY Division
<1>2. p \in Nat /\ b \in 0..1 /\ q = p * 2 + b
  BY <1>1, Division
<1> HIDE DEF q, r, p, b
<1>3. q * w = p * (2 * w) + w * b
  BY <1>1, <1>2
<1>4. v = p * (2 * w) + (w * b + r)
  BY <1>1, <1>2, <1>3
<1>5. w * b + r \in 0..(2 * w - 1)
  <2>1. CASE b = 0
    BY <1>1, <2>1
  <2>2. CASE b = 1
    BY <1>1, <2>2
  <2> QED BY <1>2, <2>1, <2>2
<1>6. 2 * w \in Nat \ {0}
  OBVIOUS
<1>7. v % (2 * w) = w * b + r
  BY <1>2, <1>4, <1>5, <1>6, Quotient
<1> QED BY <1>1, <1>2, <1>7 DEF q, r, p, b

\* my_decode's total is what its recursion says.
LEMMA TotalUpTo ==
  ASSUME NEW bits \in [0..(N - 1) -> {0, 1}], NEW c \in 0..(Width - 1)
  PROVE  \E upTo \in [0..Bits -> Nat] :
           /\ upTo[0] = 0
           /\ \A j \in 1..Bits :
                upTo[j] = upTo[j - 1] + Weight[j - 1] * bits[c * Bits + (j - 1)]
           /\ Total(bits, c) = upTo[Bits]
<1> DEFINE One(j) == Weight[j - 1] * bits[c * Bits + (j - 1)]
           F == [j \in 1..Bits |-> [x \in Nat |-> x + One(j)]]
           Def(g) == [j \in 0..Bits |-> IF j = 0 THEN 0 ELSE g[j - 1] + One(j)]
           upTo == CHOOSE g : g = Def(g)
<1>1. Bits \in Nat /\ 0 \in Nat
  BY Sizes
<1>2. \A j \in 1..Bits : One(j) \in Nat
  <2> TAKE j \in 1..Bits
  <2>1. j - 1 \in 0..Bits /\ j - 1 \in 0..(Bits - 1)
    BY Sizes
  <2>2. c * Bits + (j - 1) \in 0..(N - 1)
    <3>1. c * Bits + Bits <= N
      BY Sizes, Above
    <3> QED BY <2>1, <3>1, Sizes
  <2> QED BY <2>1, <2>2, WeightsGrow
<1> HIDE DEF One
<1>3. F \in [1..Bits -> [Nat -> Nat]]
  BY <1>2
<1>4. PICK g \in [0..Bits -> Nat] : g[0] = 0 /\ \A j \in 1..Bits : g[j] = F[j][g[j - 1]]
  <2> HIDE DEF F, Def
  <2> QED BY <1>1, <1>3, Recursion, Zenon
<1>5. g = Def(g)
  <2>1. \A j \in 0..Bits : g[j] = Def(g)[j]
    <3> TAKE j \in 0..Bits
    <3>1. CASE j = 0
      BY <1>4, <3>1
    <3>2. CASE j # 0
      <4>1. j \in 1..Bits /\ j - 1 \in 0..Bits
        BY Sizes, <3>2
      <4>2. F[j][g[j - 1]] = g[j - 1] + One(j)
        BY <4>1
      <4> QED BY <1>4, <4>1, <4>2, <3>2
    <3> QED BY <3>1, <3>2
  <2> QED BY <2>1
<1>6. upTo = Def(upTo)
  <2> HIDE DEF Def
  <2> QED BY <1>5
<1>7. Total(bits, c) = upTo[Bits]
  BY DEF Total, One
<1> HIDE DEF upTo
<1>8. \A j \in 0..Bits : upTo[j] = IF j = 0 THEN 0 ELSE upTo[j - 1] + One(j)
  BY <1>6
<1>9. upTo = [j \in 0..Bits |-> upTo[j]]
  BY <1>6
<1>10. \A j \in 0..Bits : upTo[j] \in Nat
  <2> DEFINE T == {j \in 0..Bits : upTo[j] \in Nat}
  <2>1. 0 \in T
    BY <1>1, <1>8
  <2>2. ASSUME NEW j \in 0..(Bits - 1), j \in T PROVE j + 1 \in T
    <3>1. j + 1 \in 0..Bits /\ j + 1 # 0 /\ (j + 1) - 1 = j /\ j + 1 \in 1..Bits
      BY Sizes
    <3>2. upTo[j + 1] = upTo[j] + One(j + 1) /\ One(j + 1) \in Nat
      BY <1>2, <1>8, <3>1
    <3> QED BY <2>2, <3>1, <3>2
  <2> HIDE DEF T
  <2>3. 0..Bits \subseteq T
    BY <2>1, <2>2, <1>1, UpTo
  <2> QED BY <2>3 DEF T
<1>11. upTo \in [0..Bits -> Nat]
  <2>1. [j \in 0..Bits |-> upTo[j]] \in [0..Bits -> Nat]
    BY <1>10
  <2> QED BY <1>9, <2>1, Zenon
<1>12. upTo[0] = 0 /\ \A j \in 1..Bits : upTo[j] = upTo[j - 1] + One(j)
  <2>1. 0 \in 0..Bits /\ \A j \in 1..Bits : j \in 0..Bits /\ j # 0
    BY <1>1
  <2> QED BY <1>8, <2>1
<1> QED BY <1>7, <1>11, <1>12 DEF One

\* The bits that sap_bit takes of a character add up to the character.
LEMMA TotalOfBits ==
  ASSUME NEW bits \in [0..(N - 1) -> {0, 1}], NEW c \in 0..(Width - 1), NEW v \in Char,
         \A j \in 0..(Bits - 1) : bits[c * Bits + j] = sap_bit(v, j)
  PROVE  Total(bits, c) = v
<1>1. PICK upTo \in [0..Bits -> Nat] :
           /\ upTo[0] = 0
           /\ \A j \in 1..Bits :
                upTo[j] = upTo[j - 1] + Weight[j - 1] * bits[c * Bits + (j - 1)]
           /\ Total(bits, c) = upTo[Bits]
  BY TotalUpTo
<1>2. Bits \in Nat /\ Bits \in 0..Bits /\ v \in Nat /\ v < Weight[Bits]
  BY Sizes, WeightsGrow DEF Char
<1> DEFINE T == {j \in 0..Bits : upTo[j] = v % Weight[j]}
<1>3. 0 \in T
  <2>1. Weight[0] = 1 /\ v % 1 = 0
    BY <1>2, Weights
  <2> QED BY <1>1, <1>2, <2>1
<1>4. ASSUME NEW j \in 0..(Bits - 1), j \in T PROVE j + 1 \in T
  <2>1. j + 1 \in 1..Bits /\ (j + 1) - 1 = j /\ j \in 0..Bits /\ j + 1 \in 0..Bits
    BY <1>2
  <2>2. upTo[j + 1] = upTo[j] + Weight[j] * sap_bit(v, j)
    BY <1>1, <2>1
  <2>3. Weight[j + 1] = 2 * Weight[j] /\ Weight[j] \in Nat \ {0}
    BY <2>1, Weights, WeightsGrow
  <2>4. v % Weight[j + 1] = (v % Weight[j]) + Weight[j] * sap_bit(v, j)
    BY <1>2, <2>3, OneMoreBit DEF sap_bit
  <2> QED BY <1>4, <2>1, <2>2, <2>4
<1>5. 0..Bits \subseteq T
  <2> HIDE DEF T
  <2> QED BY <1>2, <1>3, <1>4, UpTo
<1>6. upTo[Bits] = v % Weight[Bits]
  BY <1>2, <1>5
<1>7. v % Weight[Bits] = v
  <2>1. Weight[Bits] \in Nat \ {0}
    BY <1>2, WeightsGrow
  <2>2. v = 0 * Weight[Bits] + v /\ v \in 0..(Weight[Bits] - 1)
    BY <1>2, <2>1
  <2> QED BY <2>1, <2>2, Quotient
<1> QED BY <1>1, <1>6, <1>7

(* sap_bit takes a block of characters apart into bits, and my_decode's    *)
(* totals put the same characters together, for characters of any width.   *)
THEOREM CharsOfBits ==
  ASSUME NEW chars \in [0..(Width - 1) -> Char]
  PROVE  BitsOf(chars) \in BitBlock /\ CharsOf(BitsOf(chars)) = chars
<1> DEFINE bits == BitsOf(chars)
<1>1. \A i \in 0..(N - 1) : i \div Bits \in 0..(Width - 1) /\ i % Bits \in 0..(Bits - 1)
  <2> TAKE i \in 0..(N - 1)
  <2>0. i \in Nat /\ Bits \in Nat \ {0}
    BY Sizes
  <2>1. /\ i \div Bits \in Nat /\ i % Bits \in 0..(Bits - 1)
        /\ i = (i \div Bits) * Bits + (i % Bits)
    BY <2>0, Division
  <2>2. i \div Bits < Width
    <3> SUFFICES ASSUME ~(i \div Bits < Width) PROVE FALSE
      OBVIOUS
    <3>1. Width * Bits <= (i \div Bits) * Bits
      <4>1. CASE i \div Bits = Width
        BY <4>1, Sizes
      <4>2. CASE Width < i \div Bits
        BY <2>1, <4>2, Sizes, Above
      <4> QED BY <2>1, <4>1, <4>2, Sizes
    <3> QED BY <2>1, <3>1, Sizes
  <2> QED BY <2>1, <2>2, Sizes
<1>2. \A c \in 0..(Width - 1) : chars[c] \in Nat
  BY WeightsGrow, Sizes DEF Char
<1>3. bits \in [0..(N - 1) -> {0, 1}]
  <2>1. \A i \in 0..(N - 1) : sap_bit(chars[i \div Bits], i % Bits) \in {0, 1}
    <3> TAKE i \in 0..(N - 1)
    <3>1. chars[i \div Bits] \in Nat
      BY <1>1, <1>2, Zenon
    <3>2. i % Bits \in 0..(Bits - 1) /\ Bits \in Nat
      BY <1>1, Sizes, Zenon
    <3>3. \A j \in 0..(Bits - 1) : j \in 0..Bits
      BY <3>2
    <3> QED BY <3>1, <3>2, <3>3, BitsAreBits
  <2> QED BY <2>1 DEF BitsOf
<1>4. \A c \in 0..(Width - 1) : Total(bits, c) = chars[c]
  <2> TAKE c \in 0..(Width - 1)
  <2>1. \A j \in 0..(Bits - 1) : bits[c * Bits + j] = sap_bit(chars[c], j)
    <3> TAKE j \in 0..(Bits - 1)
    <3>1. c * Bits + Bits <= N
      BY Sizes, Above
    <3>2. c * Bits + j \in 0..(N - 1)
      BY <3>1, Sizes
    <3>3. (c * Bits + j) \div Bits = c /\ (c * Bits + j) % Bits = j
      BY Sizes, Quotient
    <3> QED BY <3>2, <3>3 DEF BitsOf
  <2> HIDE DEF bits
  <2> QED BY <1>3, <2>1, TotalOfBits
<1> QED BY <1>3, <1>4 DEF CharsOf, BitBlock

(* my_decode undoes my_encode with the same key, whatever permutation of   *)
(* blocks a key stands for, and my_encode writes nothing but digits.       *)
THEOREM DecodeEncode ==
  ASSUME NEW chars \in [0..(Width - 1) -> Char], key \in [0..(Width - 1) -> Letter]
  PROVE  /\ my_encode(chars) \in [0..(N - 1) -> Digit]
         /\ \A digits \in [0..(N - 1) -> Digit] :
              digits = my_encode(chars) => my_decode(digits) = chars
<1> DEFINE k == BitsOf(key)
           b == BitsOf(chars)
           code == Cipher[k][b]
<1>1. k \in BitBlock /\ b \in BitBlock
  <2>1. key \in [0..(Width - 1) -> Char]
    BY DEF Letter
  <2> QED BY <2>1, CharsOfBits
<1> HIDE DEF k, b
<1>2. code \in BitBlock
  BY <1>1, EncodeAssumption
<1>3. my_encode(chars) = [i \in 0..(N - 1) |-> 48 + code[i]]
  BY DEF my_encode, k, b
<1> HIDE DEF code
<1>4. \A i \in 0..(N - 1) : 48 + code[i] \in Digit /\ (48 + code[i]) - 48 = code[i]
  <2>1. \A i \in 0..(N - 1) : code[i] \in {0, 1}
    BY <1>2 DEF BitBlock
  <2> QED BY <2>1 DEF Digit
<1>5. my_encode(chars) \in [0..(N - 1) -> Digit]
  BY <1>3, <1>4
<1>6. ASSUME NEW digits \in [0..(N - 1) -> Digit], digits = my_encode(chars)
      PROVE  my_decode(digits) = chars
  <2> DEFINE bits == [i \in 0..(N - 1) |-> digits[i] - 48]
  <2>1. bits = code
    <3>1. \A i \in 0..(N - 1) : digits[i] - 48 = code[i]
      BY <1>3, <1>4, <1>6
    <3> QED BY <1>2, <3>1 DEF BitBlock
  <2> DEFINE found == CHOOSE x \in BitBlock : Cipher[k][x] = bits
  <2>2. found = b
    <3> HIDE DEF bits
    <3>1. b \in BitBlock /\ Cipher[k][b] = bits
      BY <1>1, <2>1 DEF code
    <3>2. found \in BitBlock /\ Cipher[k][found] = bits
      BY <3>1, Zenon
    <3> HIDE DEF found
    <3>3. Cipher[k][found] = Cipher[k][b]
      BY <3>1, <3>2, Zenon
    <3> QED BY <1>1, <3>1, <3>2, <3>3, EncodeAssumption, Zenon
  <2>3. my_decode(digits) = CharsOf(found)
    BY DEF my_decode, k
  <2> QED BY <2>2, <2>3, CharsOfBits DEF b
<1> QED BY <1>5, <1>6

-----------------------------------------------------------------------------
(*****************************************************************************)
(* Texts, blocks and buffers.                                                *)
(*****************************************************************************)

LEMMA TextsAreSequences ==
  ASSUME NEW s \in Text
  PROVE  Len(s) \in 0..MaxText /\ s \in Seq(Letter) /\ s \in [1..Len(s) -> Letter]
<1>1. PICK l \in 0..MaxText : s \in [1..l -> Letter]
  BY DEF Text
<1>2. l \in Nat
  BY Sizes
<1>3. s \in Seq(Letter) /\ Len(s) = l
  BY <1>1, <1>2
<1> QED BY <1>1, <1>3

LEMMA LettersAreNotZero ==
  /\ Blank \in Letter
  /\ \A c \in Letter : c \in Char /\ c \in Nat /\ c # 0 /\ c # Wild
  /\ \A c \in Char : c \in Nat
BY EncodeAssumption, WeightsGrow, Sizes DEF Letter, Char, Wild

LEMMA DigitsAreNotZero == \A d \in Digit : d \in Nat /\ d # 0 /\ d # Wild
BY DEF Digit, Wild

\* There are enough blocks for a text, and no empty one but for no text.
LEMMA BlocksCover ==
  ASSUME NEW l \in Nat
  PROVE  /\ Blocks(l) \in Nat \ {0} /\ l <= Blocks(l) * Width
         /\ l # 0 => (Blocks(l) - 1) * Width < l
<1>1. CASE l = 0
  BY <1>1, Sizes DEF Blocks
<1>2. CASE l # 0
  <2> DEFINE b == Blocks(l)
             r == (l + Width - 1) % Width
  <2>1. b = (l + Width - 1) \div Width /\ l + Width - 1 \in Nat
    BY <1>2, Sizes DEF Blocks
  <2>2. b \in Nat /\ r \in 0..(Width - 1) /\ l + Width - 1 = b * Width + r
    BY <2>1, Sizes, Division
  <2> HIDE DEF b, r
  <2>3. (b - 1) * Width = b * Width - Width
    BY <2>2, Sizes
  <2>4. l <= b * Width /\ (b - 1) * Width < l
    BY <2>2, <2>3, Sizes
  <2>5. b # 0
    BY <1>2, <2>4, Sizes
  <2> QED BY <2>2, <2>4, <2>5 DEF b
<1> QED BY <1>1, <1>2

LEMMA BlocksGrow ==
  ASSUME NEW l \in Nat, NEW m \in Nat, l <= m
  PROVE  Blocks(l) <= Blocks(m)
<1>1. Blocks(l) \in Nat \ {0} /\ Blocks(m) \in Nat \ {0} /\ m <= Blocks(m) * Width
  BY BlocksCover
<1>2. CASE l = 0
  BY <1>1, <1>2 DEF Blocks
<1>3. CASE l # 0
  <2> SUFFICES ASSUME Blocks(m) < Blocks(l) PROVE FALSE
    BY <1>1
  <2>1. Blocks(m) * Width + Width <= Blocks(l) * Width
    BY <1>1, Sizes, Above
  <2>2. (Blocks(l) - 1) * Width = Blocks(l) * Width - Width
    BY <1>1, Sizes
  <2>3. (Blocks(l) - 1) * Width < l
    BY <1>3, BlocksCover
  <2> QED BY <1>1, <2>1, <2>2, <2>3, Sizes
<1> QED BY <1>2, <1>3

\* The test that encode() makes finds the last block.
LEMMA LastBlock ==
  ASSUME NEW l \in Nat, NEW b \in 0..(Blocks(l) - 1)
  PROVE  (b + 1) * Width >= l <=> b + 1 = Blocks(l)
<1> DEFINE last == Blocks(l)
<1>2. last \in Nat \ {0} /\ l <= last * Width
  BY BlocksCover
<1>3. l # 0 => (last - 1) * Width < l
  BY BlocksCover
<1>4. l = 0 => last = 1
  BY DEF Blocks
<1> HIDE DEF last
<1>5. CASE b + 1 = last
  <2>1. (b + 1) * Width >= l
    <3>1. (b + 1) * Width = last * Width
      BY <1>5
    <3>2. last * Width \in Nat
      BY <1>2, Sizes
    <3> QED BY <1>2, <3>1, <3>2
  <2> QED BY <1>5, <2>1 DEF last
<1>6. CASE b + 1 # last
  <2>1. b + 1 < last /\ b + 1 \in Int /\ last - 1 \in Int
    BY <1>2, <1>6 DEF last
  <2>2. l # 0
    BY <1>4, <2>1
  <2>3. (b + 1) * Width <= (last - 1) * Width
    <3>1. CASE b + 1 = last - 1
      <4>1. (last - 1) * Width \in Int
        BY <2>1, Sizes
      <4> QED BY <3>1, <4>1
    <3>2. CASE b + 1 < last - 1
      <4>1. (b + 1) * Width + Width <= (last - 1) * Width
        BY <2>1, <3>2, Sizes, Above
      <4>2. (b + 1) * Width \in Int /\ (last - 1) * Width \in Int /\ Width \in Nat
        BY <2>1, Sizes
      <4> QED BY <4>1, <4>2
    <3>3. b + 1 <= last - 1
      BY <1>2, <2>1
    <3> QED BY <2>1, <3>1, <3>2, <3>3
  <2>4. ~((b + 1) * Width >= l)
    BY <1>2, <1>3, <2>1, <2>2, <2>3, Sizes
  <2> QED BY <1>6, <2>4 DEF last
<1> QED BY <1>5, <1>6

LEMMA BlocksBound ==
  ASSUME NEW s \in Text
  PROVE  /\ Blocks(Len(s)) \in Nat \ {0} /\ Blocks(MaxText) \in Nat
         /\ Blocks(Len(s)) <= Blocks(MaxText)
<1>1. Len(s) \in Nat /\ MaxText \in Nat /\ Len(s) <= MaxText
  BY TextsAreSequences, Sizes
<1> QED BY <1>1, BlocksCover, BlocksGrow

\* What encode and decode write of a text that fits has its cells.
LEMMA LastCell ==
  ASSUME NEW s \in Text, Fits(s), NEW w \in {N, Width}, NEW n \in Nat, n <= Blocks(Len(s))
  PROVE  /\ n * w \in Nat /\ n * w <= Blocks(Len(s)) * w
         /\ \A c \in 0..(n * w) : c \in Cells
<1> DEFINE last == Blocks(Len(s))
<1>1. last \in Nat \ {0} /\ w \in Nat \ {0} /\ Size \in Nat
  BY BlocksBound, Sizes
<1>2. n <= last /\ N * last < Size
  BY DEF Fits
<1> HIDE DEF last
<1>3. n * w \in Nat /\ last * w \in Nat /\ N * last \in Nat
  BY <1>1, Sizes
<1>4. n * w <= last * w
  BY <1>1, <1>2, Times
<1>5. last * w <= N * last
  <2>1. Width <= N
    <3>1. 1 * Width <= Bits * Width
      BY Sizes, Times
    <3>2. 1 * Width = Width /\ Bits * Width = N
      BY Sizes
    <3> QED BY <3>1, <3>2
  <2>2. w <= N
    BY <1>1, <2>1, Sizes
  <2>3. w * last <= N * last
    BY <1>1, <2>2, Sizes, Times
  <2>4. w * last = last * w
    BY <1>1
  <2> QED BY <2>3, <2>4
<1>6. n * w < Size
  BY <1>1, <1>2, <1>3, <1>4, <1>5
<1>7. \A c \in 0..(n * w) : c \in Cells
  BY <1>1, <1>3, <1>6 DEF Cells
<1> QED BY <1>3, <1>4, <1>7 DEF last

\* A terminator inside the buffer.
LEMMA TerminatedInside ==
  ASSUME NEW buffer, DOMAIN buffer = Cells, NEW o \in Cells
  PROVE  Terminated(buffer, o) = [c \in Cells |-> IF c = o THEN 0 ELSE buffer[c]]
<1>1. \A c \in Cells : c \in Int
  BY DEF Cells
<1>2. Cells \cup {o + i : i \in {0}} = Cells
  BY <1>1
<1>3. \A c \in Cells : c - o \in {0} <=> c = o
  BY <1>1
<1> QED BY <1>2, <1>3 DEF Terminated, Put

\* A character of a text that is filled up with blanks.
Filled(s, i) == IF i <= Len(s) THEN s[i] ELSE Blank

LEMMA BlocksAreChars ==
  ASSUME NEW s \in Text, NEW b \in Nat
  PROVE  /\ BlockOf(s, b) \in [0..(Width - 1) -> Letter]
         /\ BlockOf(s, b) \in [0..(Width - 1) -> Char]
         /\ \A i \in 0..(Width - 1) : BlockOf(s, b)[i] = Filled(s, b * Width + i + 1)
<1>1. Len(s) \in Nat /\ s \in [1..Len(s) -> Letter]
  BY TextsAreSequences, Sizes
<1>2. b * Width \in Nat
  BY Sizes
<1>3. \A i \in 0..(Width - 1) : BlockOf(s, b)[i] = Filled(s, b * Width + i + 1)
  <2> TAKE i \in 0..(Width - 1)
  <2>1. b * Width + i < Len(s) <=> b * Width + i + 1 <= Len(s)
    BY <1>1, <1>2
  <2> QED BY <2>1 DEF BlockOf, Filled
<1>4. \A i \in 0..(Width - 1) : Filled(s, b * Width + i + 1) \in Letter
  BY <1>1, <1>2, LettersAreNotZero DEF Filled
<1>5. BlockOf(s, b) = [i \in 0..(Width - 1) |-> BlockOf(s, b)[i]]
  BY DEF BlockOf
<1>6. BlockOf(s, b) \in [0..(Width - 1) -> Letter]
  BY <1>3, <1>4, <1>5
<1> QED BY <1>3, <1>6 DEF Letter

\* A string ends at the first terminator.
LEMMA AsStringEnds ==
  ASSUME NEW m \in Nat, NEW buffer, DOMAIN buffer = 0..m, NEW e \in 0..m,
         buffer[e] = 0, \A c \in 0..(e - 1) : buffer[c] # 0
  PROVE  AsString(buffer) = [i \in 1..e |-> buffer[i - 1]]
<1> DEFINE ends == {c \in DOMAIN buffer : buffer[c] = 0}
<1>1. e \in ends /\ \A c \in ends : e <= c /\ c \in Int
  OBVIOUS
<1>2. Min(ends) = e
  <2> HIDE DEF ends
  <2>1. \E x \in ends : \A y \in ends : x <= y
    BY <1>1
  <2>2. Min(ends) \in ends /\ \A y \in ends : Min(ends) <= y
    BY <2>1 DEF Min
  <2>3. Min(ends) <= e /\ e <= Min(ends) /\ Min(ends) \in Int
    BY <1>1, <2>2
  <2> QED BY <2>3
<1>3. ends # {}
  BY <1>1
<1> QED BY <1>2, <1>3 DEF AsString

\* What is expected is the text but for the blanks of the last block.
LEMMA ExpectedText ==
  ASSUME NEW s \in Text, NEW n \in Nat \ {0}, NEW e, e = Expected(s, Width * n)
  PROVE  /\ Len(e) \in ((n - 1) * Width)..(n * Width)
         /\ e = [i \in 1..Len(e) |-> Filled(s, i)]
         /\ \A i \in (Len(e) + 1)..(n * Width) : Filled(s, i) = Blank
         /\ Len(e) > (n - 1) * Width => Filled(s, Len(e)) # Blank
         /\ \A i \in 1..Len(e) : e[i] \in Letter
<1> DEFINE size == Width * n
           full == [i \in 1..size |-> IF i <= Len(s) THEN s[i] ELSE Blank]
           kept == {i \in 1..size : full[i] # Blank} \cup {size - Width}
           cut == Max(kept)
<1>1. Len(s) \in Nat /\ s \in [1..Len(s) -> Letter] /\ Blank \in Letter
  BY TextsAreSequences, LettersAreNotZero, Sizes
<1>2. size \in Nat /\ size = n * Width /\ size - Width = (n - 1) * Width /\ size - Width \in 0..size
  <2>1. size = n * Width /\ size - Width = (n - 1) * Width
    BY Sizes
  <2>2. (n - 1) * Width \in Nat /\ size \in Nat /\ Width \in Nat
    BY Sizes
  <2> HIDE DEF size
  <2> QED BY <2>1, <2>2
<1>3. e = SubSeq(full, 1, cut)
  BY DEF Expected
<1> HIDE DEF size
<1>4. \A i \in 1..size : full[i] = Filled(s, i) /\ Filled(s, i) \in Letter
  BY <1>1, <1>2 DEF Filled
<1>5. full \in Seq(Letter) /\ Len(full) = size
  <2>1. full \in [1..size -> Letter]
    <3>1. \A i \in 1..size : full[i] \in Letter
      BY <1>4, Zenon
    <3> QED BY <3>1
  <2> HIDE DEF full
  <2> QED BY <1>2, <2>1
<1> HIDE DEF full
<1>6. kept # {} /\ kept \subseteq Int /\ \A i \in kept : i <= size /\ i >= 0
  BY <1>2
<1>7. cut \in kept /\ \A i \in kept : i <= cut
  <2>1. size \in Int /\ \A i \in kept : i <= size
    BY <1>2, <1>6
  <2> HIDE DEF kept
  <2>2. Max(kept) \in kept /\ \A i \in kept : i <= Max(kept)
    BY <1>6, <2>1, Greatest
  <2> QED BY <2>2
<1>8. cut \in (size - Width)..size /\ cut \in Int
  BY <1>2, <1>6, <1>7
<1> HIDE DEF cut
<1>9. Len(e) = cut /\ e = [i \in 1..cut |-> full[i]]
  <2>1. cut \in Nat /\ cut <= size
    BY <1>2, <1>8
  <2> QED BY <1>2, <1>3, <1>5, <2>1
<1>10. \A i \in 1..cut : i \in 1..size
  BY <1>2, <1>8
<1>11. e = [i \in 1..cut |-> Filled(s, i)] /\ \A i \in 1..cut : e[i] \in Letter
  BY <1>4, <1>9, <1>10
<1>12. ASSUME NEW i \in (cut + 1)..size PROVE Filled(s, i) = Blank
  <2>1. i \in 1..size /\ ~(i <= cut)
    BY <1>2, <1>8
  <2>2. i \notin kept
    BY <1>7, <2>1
  <2> QED BY <1>4, <2>1, <2>2
<1>13. ASSUME cut > size - Width PROVE Filled(s, cut) # Blank
  <2>1. cut # size - Width
    BY <1>2, <1>8, <1>13
  <2>2. cut \in 1..size /\ full[cut] # Blank
    BY <1>7, <2>1
  <2> QED BY <1>4, <2>2
<1> HIDE DEF kept
<1> QED BY <1>2, <1>8, <1>9, <1>11, <1>12, <1>13

-----------------------------------------------------------------------------
(*****************************************************************************)
(* The invariant, step by step.                                              *)
(*****************************************************************************)

LEMMA EncInitIInv == EncInit => EncIInv
<1> SUFFICES ASSUME EncInit PROVE EncIInv
  OBVIOUS
<1> DEFINE last == Blocks(Len(text))
<1>1. last \in Nat \ {0} /\ Blocks(MaxText) \in Nat /\ last <= Blocks(MaxText)
  BY BlocksBound DEF EncInit
<1>2. block = last - 1 /\ pc = "encode" /\ configured = <<>>
  BY DEF EncInit
<1> HIDE DEF last
<1>3. EncTypeOK
  <2>1. block \in 0..(Blocks(MaxText) - 1)
    BY <1>1, <1>2
  <2>2. b1 \in [Cells -> Digit \cup {0, Wild}] /\ b2 \in [Cells -> Char \cup {Wild}]
    BY DEF EncInit
  <2>3. configured \in Seq(Digit)
    BY <1>2
  <2> QED BY <1>2, <2>1, <2>2, <2>3 DEF EncInit, EncTypeOK
<1>4. EncodedSoFar
  <2>1. block + 1 = last /\ block < last
    BY <1>1, <1>2
  <2> QED BY <1>1, <1>2, <2>1 DEF EncodedSoFar, last
<1> QED BY <1>2, <1>3, <1>4 DEF EncIInv, DecodedSoFar, CutSoFar, OnlyBlanksRunOver

\* What encode() writes for a block is inside the buffer if the text fits;
\* the last block is there at all only if it does.
LEMMA EncodedBlock ==
  ASSUME EncIInv, pc = "encode",
         NEW last, last = Blocks(Len(text)),
         NEW written, written = Encoded((block + 1) * Width >= Len(text))
  PROVE  /\ Fits(text) <=> DOMAIN written = Cells
         /\ Fits(text) => last * N \in Cells
         /\ Fits(text) =>
              written = [c \in Cells |->
                IF c - block * N \in 0..(N - 1) THEN my_encode(BlockOf(text, block))[c - block * N]
                ELSE IF c = last * N /\ block + 1 = last THEN 0 ELSE b1[c]]
<1> DEFINE code == my_encode(BlockOf(text, block))
           isLast == (block + 1) * Width >= Len(text)
           ended == IF isLast THEN Terminated(b1, (block + 1) * N) ELSE b1
           put == {block * N + i : i \in 0..(N - 1)}
<1>1. /\ key \in [0..(Width - 1) -> Letter] /\ text \in Text /\ block \in Nat
      /\ DOMAIN b1 = Cells
  BY DEF EncIInv, EncTypeOK
<1>2. last \in Nat \ {0} /\ block < last /\ (block + 1 = last \/ Fits(text)) /\ N \in Nat \ {0}
  BY <1>1, BlocksBound, Sizes DEF EncIInv, EncodedSoFar
<1>3. DOMAIN code = 0..(N - 1)
  <2>1. BlockOf(text, block) \in [0..(Width - 1) -> Char]
    BY <1>1, BlocksAreChars
  <2>2. code \in [0..(N - 1) -> Digit]
    BY <1>1, <2>1, DecodeEncode
  <2> QED BY <2>2
<1>4. isLast <=> block + 1 = last
  <2>1. Len(text) \in Nat /\ block \in 0..(last - 1)
    BY <1>1, <1>2, TextsAreSequences, Sizes
  <2> QED BY <2>1, LastBlock
<1>5. written = [c \in DOMAIN ended \cup put |->
                   IF c - block * N \in 0..(N - 1) THEN code[c - block * N] ELSE ended[c]]
  BY <1>3 DEF Encoded, Put
<1> HIDE DEF code, isLast
<1>6. block * N \in Nat /\ last * N \in Nat /\ block * N + N <= last * N /\ N * last = last * N
  <2>1. block * N \in Nat /\ last * N \in Nat /\ N * last = last * N
    BY <1>1, <1>2
  <2> QED BY <1>1, <1>2, <2>1, Above
<1>7. Fits(text) <=> last * N \in Cells
  BY <1>2, <1>6, Sizes DEF Fits, Cells
<1>8. CASE Fits(text)
  <2>1. put \subseteq Cells
    <3>1. \A i \in 0..(N - 1) : block * N + i \in 0..(last * N)
      BY <1>2, <1>6
    <3>2. \A c \in 0..(last * N) : c \in Cells
      BY <1>6, <1>7, <1>8, Sizes DEF Cells
    <3> QED BY <3>1, <3>2
  <2>2. ended = [c \in Cells |-> IF c = last * N /\ block + 1 = last THEN 0 ELSE b1[c]]
    <3>1. CASE block + 1 = last
      <4>1. ended = Terminated(b1, last * N)
        BY <1>4, <3>1
      <4> HIDE DEF ended
      <4>2. Terminated(b1, last * N) = [c \in Cells |-> IF c = last * N THEN 0 ELSE b1[c]]
        BY <1>1, <1>7, <1>8, TerminatedInside
      <4>3. [c \in Cells |-> IF c = last * N /\ block + 1 = last THEN 0 ELSE b1[c]]
              = [c \in Cells |-> IF c = last * N THEN 0 ELSE b1[c]]
        BY <3>1
      <4> QED BY <4>1, <4>2, <4>3
    <3>2. CASE block + 1 # last
      <4> DEFINE same == [c \in Cells |-> IF c = last * N /\ block + 1 = last THEN 0 ELSE b1[c]]
      <4>1. ended = b1
        BY <1>4, <3>2
      <4>2. b1 = [c \in Cells |-> b1[c]]
        BY <1>1 DEF EncIInv, EncTypeOK
      <4>3. same = [c \in Cells |-> b1[c]]
        BY <3>2
      <4> HIDE DEF ended, same
      <4>4. ended = same
        BY <4>1, <4>2, <4>3
      <4> QED BY <4>4 DEF same
    <3> QED BY <3>1, <3>2
  <2> HIDE DEF ended, put
  <2>3. DOMAIN ended \cup put = Cells
    BY <2>1, <2>2
  <2> QED BY <1>5, <1>7, <1>8, <2>2, <2>3 DEF code
<1>9. CASE ~Fits(text)
  <2>1. ended = Terminated(b1, last * N)
    BY <1>2, <1>4, <1>9
  <2>2. last * N \in DOMAIN ended
    <3>1. last * N \in {last * N + i : i \in {0}}
      BY <1>6
    <3> QED BY <2>1, <3>1 DEF Terminated, Put
  <2> HIDE DEF ended, put
  <2>3. DOMAIN written # Cells
    BY <1>5, <1>7, <1>9, <2>2
  <2> QED BY <1>9, <2>3
<1> QED BY <1>8, <1>9

\* A text that does not fit makes encode() undefined as it first writes.
LEMMA RunsOverIInv ==
  ASSUME EncIInv, pc = "encode", ~Fits(text), pc' = "undefined",
         UNCHANGED <<key, text, b1, configured, b2, block>>
  PROVE  EncIInv'
<1>1. EncTypeOK' /\ ~Fits(text)'
  BY DEF EncIInv, EncTypeOK, Fits
<1>2. EncodedSoFar'
  BY <1>1 DEF EncIInv, EncodedSoFar
<1> QED BY <1>1, <1>2 DEF EncIInv, DecodedSoFar, CutSoFar, OnlyBlanksRunOver

LEMMA EncodeBlockIInv ==
  ASSUME EncIInv, EncodeBlock, Fits(text)
  PROVE  EncIInv'
<1> DEFINE last == Blocks(Len(text))
           code == my_encode(BlockOf(text, block))
           written == Encoded((block + 1) * Width >= Len(text))
<1>1. /\ pc = "encode" /\ UNCHANGED <<key, text, configured, b2>>
      /\ b1' = written
      /\ \/ block > 0 /\ block' = block - 1 /\ pc' = "encode"
         \/ block = 0 /\ block' = 0 /\ pc' = "configure"
  <2>1. block \in Nat
    BY DEF EncIInv, EncTypeOK
  <2>2. pc = "encode" /\ EncodeTo(written)
    BY DEF EncodeBlock
  <2>3. DOMAIN written = Cells
    BY <2>2, EncodedBlock
  <2> HIDE DEF written
  <2> QED BY <2>1, <2>2, <2>3 DEF EncodeTo
<1>2. /\ key \in [0..(Width - 1) -> Letter] /\ text \in Text /\ block \in Nat
      /\ b1 \in [Cells -> Digit \cup {0, Wild}]
  BY DEF EncIInv, EncTypeOK
<1>3. /\ last \in Nat \ {0} /\ Blocks(MaxText) \in Nat /\ last <= Blocks(MaxText)
      /\ block < last
  BY <1>2, BlocksBound DEF EncIInv, EncodedSoFar
<1>4. /\ \A b \in (block + 1)..(last - 1) : \A i \in 0..(N - 1) :
           b1[b * N + i] = my_encode(BlockOf(text, b))[i]
      /\ block + 1 < last => b1[last * N] = 0
  BY <1>1 DEF EncIInv, EncodedSoFar
<1>5. code \in [0..(N - 1) -> Digit]
  <2>1. BlockOf(text, block) \in [0..(Width - 1) -> Char]
    BY <1>2, BlocksAreChars
  <2> QED BY <1>2, <2>1, DecodeEncode
<1>6. /\ last * N \in Cells
      /\ b1' = [c \in Cells |-> IF c - block * N \in 0..(N - 1) THEN code[c - block * N]
                                ELSE IF c = last * N /\ block + 1 = last THEN 0 ELSE b1[c]]
  BY <1>1, EncodedBlock
<1> DEFINE ended == [c \in Cells |-> IF c = last * N /\ block + 1 = last THEN 0 ELSE b1[c]]
<1>7. \A c \in Cells : c \in Int
  BY DEF Cells
<1>8. /\ ended \in [Cells -> Digit \cup {0, Wild}]
      /\ block + 1 # last => ended = b1
      /\ \A c \in Cells : c # last * N => ended[c] = b1[c]
      /\ block + 1 = last => ended[last * N] = 0
  <2> HIDE DEF last
  <2> QED BY <1>2, <1>6
<1>9. b1' = [c \in Cells |-> IF c - block * N \in 0..(N - 1) THEN code[c - block * N] ELSE ended[c]]
  BY <1>6
<1> HIDE DEF last, code, written, ended
<1>10. b1' \in [Cells -> Digit \cup {0, Wild}]
  <2>1. \A c \in Cells : (IF c - block * N \in 0..(N - 1) THEN code[c - block * N] ELSE ended[c])
                              \in Digit \cup {0, Wild}
    BY <1>5, <1>8
  <2> QED BY <1>9, <2>1
<1>11. block * N \in Nat /\ last * N \in Nat /\ N \in Nat \ {0} /\ block * N + N <= last * N
  <2>1. block * N \in Nat /\ last * N \in Nat /\ N \in Nat \ {0}
    BY <1>2, <1>3, Sizes
  <2> QED BY <1>2, <1>3, <2>1, Above
<1>12. \A c \in 0..(last * N) : c \in Cells
  BY <1>6, <1>11, Sizes DEF Cells
<1>13. ASSUME NEW b \in block..(last - 1), NEW i \in 0..(N - 1)
       PROVE  b1'[b * N + i] = my_encode(BlockOf(text, b))[i]
  <2>1. b \in 0..(last - 1) /\ i \in Int
    BY <1>2
  <2>2. b * N \in Nat /\ b * N + i \in 0..(last * N - 1)
    BY <1>3, <1>11, <2>1, CellOfBlock
  <2>3. b * N + i \in Cells /\ b * N + i # last * N
    BY <1>11, <1>12, <2>2
  <2>4. CASE b = block
    <3>1. (b * N + i) - block * N = i
      BY <1>11, <2>1, <2>4
    <3> QED BY <1>9, <2>3, <2>4, <3>1 DEF code
  <2>5. CASE b # block
    <3>1. block < b /\ b \in (block + 1)..(last - 1)
      BY <1>2, <1>3, <2>5
    <3>2. block * N + N <= b * N
      BY <1>2, <1>11, <2>1, <3>1, Above
    <3>3. (b * N + i) - block * N \notin 0..(N - 1)
      BY <1>11, <2>1, <2>2, <3>2
    <3>4. b1'[b * N + i] = b1[b * N + i]
      BY <1>8, <1>9, <2>3, <3>3
    <3> QED BY <1>4, <3>1, <3>4
  <2> QED BY <2>4, <2>5
<1>14. b1'[last * N] = 0
  <2>1. last * N - block * N \notin 0..(N - 1)
    BY <1>11
  <2>2. b1'[last * N] = ended[last * N]
    BY <1>6, <1>9, <2>1
  <2>3. CASE block + 1 = last
    BY <1>8, <1>11, <2>2, <2>3
  <2>4. CASE block + 1 # last
    BY <1>2, <1>3, <1>4, <1>8, <2>2, <2>4
  <2> QED BY <2>3, <2>4
<1>15. EncTypeOK'
  <2>1. block' \in 0..(Blocks(MaxText) - 1)
    BY <1>1, <1>2, <1>3
  <2>2. pc' \in {"encode", "configure", "decode", "done", "undefined"}
    BY <1>1
  <2> QED BY <1>1, <1>10, <2>1, <2>2 DEF EncIInv, EncTypeOK
<1>16. EncodedSoFar'
  <2>1. (IF pc' = "encode" THEN block' + 1 ELSE 0) = block /\ block' < last
    BY <1>1, <1>2, <1>3
  <2>2. last' = last /\ text' = text
    BY <1>1 DEF last
  <2>3. Fits(text)'
    BY <2>2 DEF Fits
  <2> QED BY <1>1, <1>13, <1>14, <2>1, <2>2, <2>3 DEF EncodedSoFar, last, my_encode, BlockOf
<1> QED BY <1>1, <1>15, <1>16 DEF EncIInv, DecodedSoFar, CutSoFar, OnlyBlanksRunOver

\* What encode() has left is digits up to the terminator.
LEMMA EncodedString ==
  ASSUME EncTypeOK, EncodedSoFar, pc # "encode", Fits(text)
  PROVE  /\ \A c \in 0..(N * Blocks(Len(text)) - 1) : b1[c] \in Digit
         /\ AsString(b1) = [i \in 1..(N * Blocks(Len(text))) |-> b1[i - 1]]
         /\ AsString(b1) \in Seq(Digit)
         /\ Len(AsString(b1)) = N * Blocks(Len(text))
<1> DEFINE last == Blocks(Len(text))
           size == N * last
<1>1. /\ key \in [0..(Width - 1) -> Letter] /\ text \in Text
      /\ b1 \in [Cells -> Digit \cup {0, Wild}]
  BY DEF EncTypeOK
<1>2. last \in Nat \ {0} /\ Blocks(MaxText) \in Nat /\ N \in Nat \ {0}
  BY <1>1, BlocksBound, Sizes
<1>3. /\ \A b \in 0..(last - 1) : \A i \in 0..(N - 1) :
           b1[b * N + i] = my_encode(BlockOf(text, b))[i]
      /\ b1[last * N] = 0
  BY <1>2 DEF EncodedSoFar
<1>4. \A c \in 0..(last * N) : c \in Cells
  <2>1. last \in Nat /\ last <= last
    BY <1>2
  <2> QED BY <1>1, <1>2, <2>1, LastCell
<1>5. size \in Nat /\ size = last * N
  BY <1>2
<1>6. \A b \in 0..(last - 1) : my_encode(BlockOf(text, b)) \in [0..(N - 1) -> Digit]
  <2> TAKE b \in 0..(last - 1)
  <2>1. b \in Nat
    OBVIOUS
  <2>2. BlockOf(text, b) \in [0..(Width - 1) -> Char]
    BY <1>1, <2>1, BlocksAreChars
  <2> QED BY <1>1, <2>2, DecodeEncode
<1> HIDE DEF last, size
<1>7. \A c \in 0..(size - 1) : b1[c] \in Digit
  <2> TAKE c \in 0..(size - 1)
  <2>1. c \in Nat
    OBVIOUS
  <2>2. c \div N \in Nat /\ c % N \in 0..(N - 1) /\ c = (c \div N) * N + (c % N)
    BY <1>2, <2>1, Division
  <2>3. c \div N < last
    <3>1. c < last * N
      BY <1>5
    <3> QED BY <1>2, <2>1, <3>1, QuotientBelow
  <2>4. c \div N \in 0..(last - 1)
    BY <1>2, <2>2, <2>3
  <2> HIDE DEF last
  <2>5. b1[(c \div N) * N + (c % N)] = my_encode(BlockOf(text, c \div N))[c % N]
    BY <1>3, <2>2, <2>4
  <2> QED BY <1>6, <2>2, <2>4, <2>5
<1>8. \A c \in 0..size : c \in Cells /\ b1[size] = 0
  BY <1>3, <1>4, <1>5
<1>9. AsString(b1) = [i \in 1..size |-> b1[i - 1]]
  <2> DEFINE m == Size - 1
  <2>1. m \in Nat
    BY Sizes
  <2>2. DOMAIN b1 = 0..m /\ size \in 0..m
    BY <1>1, <1>5, <1>8 DEF Cells
  <2>3. b1[size] = 0 /\ \A c \in 0..(size - 1) : b1[c] # 0
    BY <1>5, <1>7, <1>8, DigitsAreNotZero
  <2> HIDE DEF m
  <2> QED BY <2>1, <2>2, <2>3, AsStringEnds
<1>10. AsString(b1) \in Seq(Digit) /\ Len(AsString(b1)) = size
  <2>1. \A i \in 1..size : b1[i - 1] \in Digit
    BY <1>5, <1>7
  <2> QED BY <1>5, <1>9, <2>1
<1> QED BY <1>7, <1>9, <1>10 DEF size, last

LEMMA ConfigureIInv ==
  ASSUME EncIInv, NEW l \in 0..Len(AsString(b1)), Configure(l)
  PROVE  EncIInv'
<1> DEFINE last == Blocks(Len(text))
           printed == AsString(b1)
<1>1. /\ pc = "configure" /\ UNCHANGED <<key, text, b1, b2>>
      /\ configured' = SubSeq(printed, 1, l)
      /\ \/ l = 0 /\ pc' = "done" /\ block' = block
         \/ l # 0 /\ pc' = "decode" /\ block' = (l - 1) \div N
  BY DEF Configure
<1>2. EncTypeOK /\ EncodedSoFar
  BY DEF EncIInv
<1>3. text \in Text /\ last \in Nat \ {0} /\ Blocks(MaxText) \in Nat /\ last <= Blocks(MaxText)
      /\ N \in Nat \ {0}
  BY <1>2, BlocksBound, Sizes DEF EncTypeOK
<1>4. /\ printed \in Seq(Digit) /\ Len(printed) = N * last
      /\ \A i \in 1..(N * last) : printed[i] = b1[i - 1]
  BY <1>1, <1>2, EncodedString DEF EncodedSoFar
<1> HIDE DEF printed
<1>5. N * last \in Nat /\ N * last = last * N
  BY <1>3
<1>6. l \in Nat /\ l <= N * last
  BY <1>4, <1>5 DEF printed
<1>7. /\ configured' \in Seq(Digit) /\ Len(configured') = l
      /\ \A i \in 1..l : configured'[i] = b1[i - 1]
  BY <1>1, <1>4, <1>5, <1>6
<1> HIDE DEF last
<1>8. ASSUME l # 0
      PROVE  block' \in Nat /\ block' < last /\ block' * N < l /\ l <= (block' + 1) * N
  <2> DEFINE q == (l - 1) \div N
  <2>1. l - 1 \in Nat /\ l - 1 < last * N
    BY <1>5, <1>6, <1>8
  <2>2. q \in Nat /\ q * N \in Nat /\ q * N <= l - 1 /\ l - 1 < q * N + N
    BY <1>3, <2>1, QuotientBounds
  <2>3. q < last
    BY <1>3, <2>1, QuotientBelow
  <2> HIDE DEF q
  <2>4. (q + 1) * N = q * N + N
    BY <1>3, <2>2
  <2>5. q * N < l /\ l <= (q + 1) * N
    BY <1>3, <1>6, <2>2, <2>4
  <2> QED BY <1>1, <1>8, <2>2, <2>3, <2>5 DEF q
<1>9. EncTypeOK'
  <2>1. block' \in 0..(Blocks(MaxText) - 1)
    BY <1>1, <1>2, <1>3, <1>8 DEF EncTypeOK
  <2> QED BY <1>1, <1>2, <1>7, <2>1 DEF EncTypeOK
<1>10. block' < last
  BY <1>1, <1>2, <1>8 DEF EncodedSoFar, last
<1>11. last' = last /\ text' = text
  BY <1>1 DEF last
<1>12. EncodedSoFar'
  <2>1. Fits(text) /\ Fits(text)'
    BY <1>1, <1>2 DEF EncodedSoFar, Fits
  <2> QED BY <1>1, <1>2, <1>10, <1>11, <2>1 DEF EncodedSoFar, last, my_encode, BlockOf
<1>13. ConfiguredIsPrefix'
  BY <1>1, <1>6, <1>7, <1>8, <1>11 DEF ConfiguredIsPrefix, last
<1>14. DecodedSoFar'
  <2> SUFFICES ASSUME Len(configured') % N = 0
               PROVE  ~((IF pc' = "decode" THEN block' + 1 ELSE 0) < Len(configured') \div N)
    BY DEF DecodedSoFar
  <2>1. CASE l = 0
    <3>1. 0 \div N = 0
      <4>1. 0 * N + 0 = 0 /\ 0 \in 0..(N - 1)
        BY <1>3
      <4> QED BY <1>3, <4>1, Quotient
    <3> QED BY <1>1, <1>7, <2>1, <3>1
  <2>2. CASE l # 0
    <3>1. l \div N \in Nat /\ l = (l \div N) * N + (l % N)
      BY <1>3, <1>6, Division
    <3>2. l = (l \div N) * N
      BY <1>3, <1>7, <3>1
    <3>3. ~(block' + 1 < l \div N)
      <4> SUFFICES ASSUME block' + 1 < l \div N PROVE FALSE
        OBVIOUS
      <4>1. (block' + 1) * N + N <= (l \div N) * N
        BY <1>3, <1>8, <2>2, <3>1, Above
      <4>2. (block' + 1) * N \in Nat
        BY <1>3, <1>8, <2>2
      <4> QED BY <1>3, <1>6, <1>8, <2>2, <3>2, <4>1, <4>2
    <3> QED BY <1>1, <1>7, <2>2, <3>3
  <2> QED BY <2>1, <2>2
<1>15. CutSoFar'
  <2> DEFINE n == l \div N
             next == IF pc' = "decode" THEN block' + 1 ELSE 0
  <2>1. n \in Nat /\ n * N \in Nat /\ n * N <= l
    BY <1>3, <1>6, QuotientBounds
  <2>2. CASE l = 0
    <3>1. 0 % N = 0
      <4>1. 0 * N + 0 = 0 /\ 0 \in 0..(N - 1)
        BY <1>3
      <4> QED BY <1>3, <4>1, Quotient
    <3> QED BY <1>7, <2>2, <3>1 DEF CutSoFar
  <2>3. CASE l # 0
    <3>1. next = block' + 1 /\ next \in Nat /\ l <= next * N /\ next * N \in Nat
      BY <1>1, <1>3, <1>8, <2>3
    <3> HIDE DEF next, n
    <3>2. n <= next
      <4> SUFFICES ASSUME next < n PROVE FALSE
        BY <2>1, <3>1
      <4>1. next * N + N <= n * N
        BY <1>3, <2>1, <3>1, Above
      <4> QED BY <1>3, <1>6, <2>1, <3>1, <4>1
    <3>3. n * Width <= next * Width /\ n * Width \in Nat /\ next * Width \in Nat
      BY <2>1, <3>1, <3>2, Sizes, Times
    <3>4. (next * Width)..(n * Width - 1) = {}
      BY <3>3
    <3> QED BY <1>7, <3>4 DEF CutSoFar, n, next
  <2> QED BY <2>2, <2>3
<1>16. OnlyBlanksRunOver'
  BY <1>1 DEF OnlyBlanksRunOver
<1> QED BY <1>9, <1>12, <1>13, <1>14, <1>15, <1>16 DEF EncIInv

\* A block of digits becomes the block of the text that it was.
LEMMA DecodedBlock ==
  ASSUME EncIInv, pc = "decode", (block + 1) * N <= Len(configured)
  PROVE  /\ block + 1 <= Blocks(Len(text))
         /\ Decoded \in [Cells -> Char \cup {Wild}]
         /\ \A c \in Cells :
              IF block * Width <= c /\ c < block * Width + Width
              THEN Decoded[c] = Filled(text, c + 1) /\ Decoded[c] \in Letter
              ELSE Decoded[c] = b2[c]
<1> DEFINE last == Blocks(Len(text))
           digits == [i \in 0..(N - 1) |-> configured[block * N + i + 1]]
           chars == BlockOf(text, block)
<1>1. /\ EncTypeOK /\ EncodedSoFar /\ ConfiguredIsPrefix
  BY DEF EncIInv
<1>2. /\ key \in [0..(Width - 1) -> Letter] /\ text \in Text /\ block \in Nat
      /\ configured \in Seq(Digit) /\ b2 \in [Cells -> Char \cup {Wild}]
      /\ N \in Nat \ {0} /\ Width \in Nat \ {0}
  BY <1>1, Sizes DEF EncTypeOK
<1>3. last \in Nat \ {0} /\ block < last /\ Fits(text)
  BY <1>1, <1>2, BlocksBound DEF EncodedSoFar
<1>4. /\ chars \in [0..(Width - 1) -> Letter] /\ chars \in [0..(Width - 1) -> Char]
      /\ \A i \in 0..(Width - 1) : chars[i] = Filled(text, block * Width + i + 1)
  BY <1>2, BlocksAreChars
<1>5. my_encode(chars) \in [0..(N - 1) -> Digit]
  BY <1>2, <1>4, DecodeEncode
<1> HIDE DEF chars
<1>6. \A i \in 0..(N - 1) : digits[i] = my_encode(chars)[i]
  <2> TAKE i \in 0..(N - 1)
  <2>1. block * N \in Nat /\ (block + 1) * N = block * N + N
    BY <1>2
  <2>2. block * N + i + 1 \in 1..Len(configured) /\ (block * N + i + 1) - 1 = block * N + i
    BY <1>2, <2>1
  <2>3. configured[block * N + i + 1] = b1[block * N + i]
    BY <1>1, <2>2 DEF ConfiguredIsPrefix
  <2>4. block \in 0..(last - 1)
    BY <1>2, <1>3
  <2>5. b1[block * N + i] = my_encode(chars)[i]
    BY <1>1, <1>3, <2>4 DEF EncodedSoFar, last, chars
  <2> QED BY <2>3, <2>5
<1>7. digits = my_encode(chars)
  <2>1. my_encode(chars) = [i \in 0..(N - 1) |-> my_encode(chars)[i]]
    BY <1>5
  <2> QED BY <1>6, <2>1
<1>8. my_decode(digits) = chars
  <2>1. digits \in [0..(N - 1) -> Digit]
    BY <1>5, <1>7
  <2> HIDE DEF digits
  <2> QED BY <1>2, <1>4, <1>7, <2>1, DecodeEncode
<1>9. Decoded = [c \in Cells |-> IF c - block * Width \in 0..(Width - 1)
                                         THEN chars[c - block * Width] ELSE b2[c]]
  <2> DEFINE put == {block * Width + i : i \in 0..(Width - 1)}
  <2>1. Decoded = [c \in Cells \cup put |-> IF c - block * Width \in 0..(Width - 1)
                                           THEN chars[c - block * Width] ELSE b2[c]]
    BY <1>2, <1>4, <1>8 DEF Decoded, Put
  <2>2. \A c \in 0..((block + 1) * Width) : c \in Cells
    <3>1. block + 1 \in Nat /\ block + 1 <= last
      BY <1>2, <1>3
    <3> QED BY <1>2, <1>3, <3>1, LastCell
  <2>3. block * Width \in Nat /\ (block + 1) * Width = block * Width + Width
    BY <1>2
  <2>4. put \subseteq Cells
    <3>1. \A i \in 0..(Width - 1) : block * Width + i \in 0..((block + 1) * Width)
      BY <1>2, <2>3
    <3> QED BY <2>2, <3>1
  <2> HIDE DEF put
  <2>5. Cells \cup put = Cells
    BY <2>4
  <2> QED BY <2>1, <2>5
<1>10. block * Width \in Nat /\ \A c \in Cells : c \in Nat
  BY <1>2 DEF Cells
<1>11. \A c \in Cells :
         IF block * Width <= c /\ c < block * Width + Width
         THEN Decoded[c] = Filled(text, c + 1) /\ Decoded[c] \in Letter
         ELSE Decoded[c] = b2[c]
  <2> TAKE c \in Cells
  <2>1. c - block * Width \in 0..(Width - 1) <=> block * Width <= c /\ c < block * Width + Width
    BY <1>2, <1>10
  <2>2. CASE c - block * Width \in 0..(Width - 1)
    <3>1. Decoded[c] = chars[c - block * Width]
      BY <1>9, <2>2
    <3>2. block * Width + (c - block * Width) + 1 = c + 1
      BY <1>10
    <3>3. chars[c - block * Width] = Filled(text, c + 1) /\ chars[c - block * Width] \in Letter
      BY <1>4, <2>2, <3>2
    <3> QED BY <2>1, <2>2, <3>1, <3>3
  <2>3. CASE c - block * Width \notin 0..(Width - 1)
    BY <1>9, <2>1, <2>3
  <2> QED BY <2>2, <2>3
<1>12. Decoded \in [Cells -> Char \cup {Wild}]
  <2>1. \A c \in Cells : Decoded[c] \in Char \cup {Wild}
    BY <1>2, <1>11, LettersAreNotZero
  <2>2. Decoded = [c \in Cells |-> Decoded[c]]
    BY <1>9
  <2> QED BY <2>1, <2>2
<1> QED BY <1>2, <1>3, <1>11, <1>12

LEMMA ReturnsOnce ==
  ASSUME EncIInv, pc = "decode", Returns
  PROVE  \/ block # 0 /\ block' = block - 1 /\ pc' = "decode"
         \/ block = 0 /\ block' = block /\ pc' = "done"
<1>1. block \in Nat
  BY DEF EncIInv, EncTypeOK
<1> QED BY <1>1 DEF Returns

LEMMA DecodingKeeps ==
  ASSUME EncIInv, pc = "decode", UNCHANGED <<key, text, b1, configured>>,
         b2' \in [Cells -> Char \cup {Wild}],
         \/ block # 0 /\ block' = block - 1 /\ pc' = "decode"
         \/ block' = block /\ pc' \in {"done", "undefined"}
  PROVE  EncTypeOK' /\ EncodedSoFar' /\ ConfiguredIsPrefix'
<1>1. /\ EncTypeOK /\ EncodedSoFar /\ ConfiguredIsPrefix
  BY DEF EncIInv
<1>2. block \in Nat /\ block' \in Nat /\ block' <= block
  BY <1>1 DEF EncTypeOK
<1>3. EncTypeOK'
  <2>1. block' \in 0..(Blocks(MaxText) - 1)
    <3>1. Blocks(MaxText) \in Nat /\ block < Blocks(MaxText)
      BY <1>1, BlocksBound DEF EncTypeOK
    <3> QED BY <1>2, <3>1
  <2>2. pc' \in {"encode", "configure", "decode", "done", "undefined"}
    OBVIOUS
  <2> QED BY <1>1, <2>1, <2>2 DEF EncTypeOK
<1>4. EncodedSoFar'
  <2>1. block' < Blocks(Len(text))
    <3>1. Blocks(Len(text)) \in Nat /\ block < Blocks(Len(text))
      BY <1>1, BlocksBound DEF EncTypeOK, EncodedSoFar
    <3> QED BY <1>2, <3>1
  <2>2. Fits(text) /\ Fits(text)'
    BY <1>1 DEF EncodedSoFar, Fits
  <2> QED BY <1>1, <2>1, <2>2 DEF EncodedSoFar, my_encode, BlockOf
<1>5. ConfiguredIsPrefix'
  <2>1. block' * N < Len(configured)
    <3>1. block * N < Len(configured) /\ Len(configured) \in Nat /\ N \in Nat
      BY <1>1, Sizes DEF ConfiguredIsPrefix, EncTypeOK
    <3>2. block' * N <= block * N /\ block * N \in Nat /\ block' * N \in Nat
      BY <1>2, <3>1, Times
    <3> QED BY <3>1, <3>2
  <2> QED BY <1>1, <2>1 DEF ConfiguredIsPrefix
<1> QED BY <1>3, <1>4, <1>5

\* A last block that is not whole: nothing is said of what comes of it.
LEMMA SkipBlockIInv ==
  ASSUME EncIInv, pc = "decode", UNCHANGED <<key, text, b1, configured, b2>>, Returns,
         (block + 1) * N > Len(configured)
  PROVE  EncIInv'
<1>1. /\ EncTypeOK /\ ConfiguredIsPrefix
  BY DEF EncIInv
<1>2. /\ block \in Nat /\ Len(configured) \in Nat /\ N \in Nat \ {0}
      /\ block * N < Len(configured)
  BY <1>1, Sizes DEF EncTypeOK, ConfiguredIsPrefix
<1>3. Len(configured) % N # 0
  <2> DEFINE r == Len(configured) - block * N
  <2>1. block * N \in Nat /\ (block + 1) * N = block * N + N
    BY <1>2
  <2>2. r \in 1..(N - 1) /\ Len(configured) = block * N + r
    BY <1>2, <2>1
  <2> HIDE DEF r
  <2>3. (block * N + r) % N = r
    BY <1>2, <2>2, Quotient
  <2> QED BY <2>2, <2>3
<1>4. \/ block # 0 /\ block' = block - 1 /\ pc' = "decode"
      \/ block' = block /\ pc' = "done"
  BY ReturnsOnce
<1>5. EncTypeOK' /\ EncodedSoFar' /\ ConfiguredIsPrefix'
  <2>1. b2' \in [Cells -> Char \cup {Wild}]
    BY <1>1 DEF EncTypeOK
  <2> QED BY <1>4, <2>1, DecodingKeeps
<1>6. DecodedSoFar'
  BY <1>3 DEF DecodedSoFar
<1>7. CutSoFar'
  <2> DEFINE n == Len(configured) \div N
  <2>1. n \in Nat
    BY <1>2, QuotientBounds
  <2>2. n < block + 1
    <3>1. block + 1 \in Nat /\ Len(configured) < (block + 1) * N
      <4>1. (block + 1) * N \in Nat
        BY <1>2
      <4> QED BY <1>2, <4>1
    <3> QED BY <1>2, <3>1, QuotientBelow
  <2>3. (IF pc' = "decode" THEN block' + 1 ELSE 0) = block
    BY <1>2, ReturnsOnce
  <2> HIDE DEF n
  <2>4. n <= block
    BY <1>2, <2>1, <2>2
  <2>5. n * Width <= block * Width /\ n * Width \in Nat /\ block * Width \in Nat
    BY <1>2, <2>1, <2>4, Sizes, Times
  <2>6. (block * Width)..(n * Width - 1) = {}
    BY <2>5
  <2> QED BY <2>3, <2>6 DEF CutSoFar, n
<1>8. OnlyBlanksRunOver'
  BY <1>4 DEF OnlyBlanksRunOver
<1> QED BY <1>5, <1>6, <1>7, <1>8 DEF EncIInv

LEMMA WholePart ==
  ASSUME EncIInv, pc \in {"decode", "done"},
         NEW n, n = Len(configured) \div N
  PROVE  /\ n \in Nat /\ n <= Blocks(Len(text))
         /\ Len(configured) % N = 0 => Len(configured) = n * N
         /\ Len(configured) % N # 0 => n < Blocks(Len(text))
         /\ n * Width \in Nat /\ \A c \in 0..(n * Width) : c \in Cells
<1> DEFINE last == Blocks(Len(text))
           l == Len(configured)
           r == l % N
<1>1. /\ EncTypeOK /\ ConfiguredIsPrefix
  BY DEF EncIInv
<1>2. l \in Nat /\ l <= N * last /\ N \in Nat \ {0} /\ Width \in Nat \ {0} /\ text \in Text
  BY <1>1, Sizes DEF EncTypeOK, ConfiguredIsPrefix
<1>3. last \in Nat \ {0}
  BY <1>2, BlocksBound
<1> HIDE DEF last, l
<1>4. n \in Nat /\ l = n * N + r /\ r \in 0..(N - 1)
  BY <1>2, Division DEF l
<1> HIDE DEF r
<1>5. n * N \in Nat /\ N * last = last * N /\ last * N \in Nat /\ n * N <= l
  <2>1. n * N \in Nat /\ N * last = last * N /\ last * N \in Nat
    BY <1>2, <1>3, <1>4
  <2> QED BY <1>4, <2>1
<1>6. n <= last
  <2> SUFFICES ASSUME last < n PROVE FALSE
    BY <1>3, <1>4
  <2>1. last * N + N <= n * N
    BY <1>2, <1>3, <1>4, Above
  <2> QED BY <1>2, <1>5, <2>1
<1>7. n * Width \in Nat /\ \A c \in 0..(n * Width) : c \in Cells
  <2>1. Fits(text)
    BY DEF EncIInv, EncodedSoFar
  <2> QED BY <1>2, <1>4, <1>6, <2>1, LastCell DEF last
<1>8. r = 0 => l = n * N
  BY <1>4, <1>5
<1>9. r # 0 => n < last
  <2> SUFFICES ASSUME r # 0 PROVE n # last
    BY <1>3, <1>4, <1>6
  <2>1. n * N < l
    BY <1>4, <1>5
  <2> QED BY <1>2, <1>5, <2>1
<1> QED BY <1>4, <1>6, <1>7, <1>8, <1>9 DEF last, l, r

\* A block that has another one after it.
LEMMA MiddleBlockIInv ==
  ASSUME EncIInv, pc = "decode", UNCHANGED <<key, text, b1, configured>>, Returns,
         (block + 1) * N < Len(configured), b2' = Decoded
  PROVE  EncIInv'
<1>1. /\ EncTypeOK /\ ConfiguredIsPrefix /\ DecodedSoFar /\ CutSoFar
  BY DEF EncIInv
<1>2. /\ block \in Nat /\ Len(configured) \in Nat /\ N \in Nat \ {0} /\ Width \in Nat \ {0}
      /\ text \in Text
  BY <1>1, Sizes DEF EncTypeOK
<1>3. (block + 1) * N <= Len(configured)
  <2>1. (block + 1) * N \in Nat
    BY <1>2
  <2> QED BY <1>2, <2>1
<1>4. \/ block # 0 /\ block' = block - 1 /\ pc' = "decode"
      \/ block = 0 /\ block' = block /\ pc' = "done"
  BY ReturnsOnce
<1>5. EncTypeOK' /\ EncodedSoFar' /\ ConfiguredIsPrefix'
  <2>1. b2' \in [Cells -> Char \cup {Wild}]
    BY <1>3, DecodedBlock
  <2> QED BY <1>4, <2>1, DecodingKeeps
<1>6. DecodedSoFar'
  <2> DEFINE n == Len(configured) \div N
             e == Expected(text, Width * n)
  <2> SUFFICES ASSUME Len(configured) % N = 0, NEW c \in (block * Width)..(n * Width)
               PROVE  b2'[c] = IF c < Len(e) THEN e[c + 1] ELSE 0
    <3>1. (IF pc' = "decode" THEN block' + 1 ELSE 0) = block
      BY <1>2, <1>4
    <3>2. configured' = configured /\ text' = text
      OBVIOUS
    <3> QED BY <3>1, <3>2 DEF DecodedSoFar, Expected
  <2>1. /\ n \in Nat /\ Len(configured) = n * N /\ n * Width \in Nat
        /\ \A i \in 0..(n * Width) : i \in Cells
    BY WholePart
  <2>2. e = Expected(text, Width * n)
    OBVIOUS
  <2>3. \A i \in (block * Width + Width)..(n * Width) :
          block + 1 < n => b2[i] = IF i < Len(e) THEN e[i + 1] ELSE 0
    <3>1. (block + 1) * Width = block * Width + Width
      BY <1>2
    <3> QED BY <1>1, <3>1 DEF DecodedSoFar
  <2> HIDE DEF n, e
  <2>4. block + 1 < n
    <3> SUFFICES ASSUME n <= block + 1 PROVE FALSE
      BY <1>2, <2>1
    <3>1. n * N <= (block + 1) * N /\ n * N \in Nat /\ (block + 1) * N \in Nat
      BY <1>2, <2>1, Times
    <3> QED BY <2>1, <3>1
  <2>5. /\ Len(e) \in ((n - 1) * Width)..(n * Width)
        /\ e = [i \in 1..Len(e) |-> Filled(text, i)]
    BY <1>2, <2>1, <2>2, <2>4, ExpectedText
  <2>6. block * Width + Width <= (n - 1) * Width /\ block * Width \in Nat /\ (n - 1) * Width \in Nat
    <3>1. block < n - 1 /\ n - 1 \in Nat
      BY <1>2, <2>1, <2>4
    <3> QED BY <1>2, <3>1, Above
  <2>7. c \in Nat /\ c \in Cells
    BY <2>1, <2>6
  <2>8. CASE c < block * Width + Width
    <3>1. b2'[c] = Filled(text, c + 1)
      BY <1>3, <2>6, <2>7, <2>8, DecodedBlock
    <3>2. c < Len(e) /\ c + 1 \in 1..Len(e)
      BY <1>2, <2>1, <2>5, <2>6, <2>7, <2>8
    <3> QED BY <2>5, <3>1, <3>2
  <2>9. CASE ~(c < block * Width + Width)
    <3>1. b2'[c] = b2[c]
      BY <1>3, <2>7, <2>9, DecodedBlock
    <3>2. c \in (block * Width + Width)..(n * Width)
      BY <1>2, <2>1, <2>6, <2>7, <2>9
    <3> QED BY <2>3, <2>4, <3>1, <3>2
  <2> QED BY <2>8, <2>9
<1>7. CutSoFar'
  <2> DEFINE n == Len(configured) \div N
             last == Blocks(Len(text))
  <2> SUFFICES ASSUME Len(configured) % N # 0, NEW c \in (block * Width)..(n * Width - 1)
               PROVE  b2'[c] = text[c + 1]
    <3>1. (IF pc' = "decode" THEN block' + 1 ELSE 0) = block
      BY <1>2, <1>4
    <3>2. configured' = configured /\ text' = text
      OBVIOUS
    <3> QED BY <3>1, <3>2 DEF CutSoFar
  <2>1. /\ n \in Nat /\ n < last /\ n * Width \in Nat
        /\ \A i \in 0..(n * Width) : i \in Cells
    BY WholePart
  <2>2. \A i \in (block * Width + Width)..(n * Width - 1) : b2[i] = text[i + 1]
    <3>1. (block + 1) * Width = block * Width + Width
      BY <1>2
    <3> QED BY <1>1, <3>1 DEF CutSoFar
  <2>3. last \in Nat \ {0} /\ Len(text) \in Nat
    BY <1>2, BlocksBound, TextsAreSequences, Sizes
  <2>4. Len(text) # 0 => (last - 1) * Width < Len(text)
    BY <2>3, BlocksCover
  <2>5. Len(text) = 0 => last = 1
    BY DEF Blocks
  <2> HIDE DEF n, last
  <2>6. n * Width <= (last - 1) * Width /\ (last - 1) * Width \in Nat
    <3>1. last - 1 \in Nat /\ n <= last - 1
      BY <2>1, <2>3
    <3> QED BY <1>2, <2>1, <3>1, Times
  <2>7. n * Width <= Len(text)
    <3>1. CASE Len(text) = 0
      <4>1. n = 0
        BY <2>1, <2>5, <3>1
      <4> QED BY <1>2, <3>1, <4>1
    <3>2. CASE Len(text) # 0
      BY <2>1, <2>3, <2>4, <2>6, <3>2
    <3> QED BY <3>1, <3>2
  <2>8. block * Width \in Nat
    BY <1>2
  <2>9. c \in Nat /\ c \in Cells /\ c + 1 <= Len(text)
    BY <2>1, <2>3, <2>7, <2>8
  <2>10. CASE c < block * Width + Width
    <3>1. b2'[c] = Filled(text, c + 1)
      BY <1>3, <2>8, <2>9, <2>10, DecodedBlock
    <3> QED BY <2>9, <3>1 DEF Filled
  <2>11. CASE ~(c < block * Width + Width)
    <3>1. b2'[c] = b2[c]
      BY <1>3, <2>9, <2>11, DecodedBlock
    <3>2. c \in (block * Width + Width)..(n * Width - 1)
      BY <1>2, <2>1, <2>8, <2>9, <2>11
    <3> QED BY <2>2, <3>1, <3>2
  <2> QED BY <2>10, <2>11
<1>8. OnlyBlanksRunOver'
  BY <1>4 DEF OnlyBlanksRunOver
<1> QED BY <1>5, <1>6, <1>7, <1>8 DEF EncIInv

\* The block that decode() returns from first: the blanks at its end go.
LEMMA LastBlockIInv ==
  ASSUME EncIInv, pc = "decode", UNCHANGED <<key, text, b1, configured>>, IsLast,
         NEW full, full = Terminated(Decoded, (block + 1) * Width),
         NEW m \in StopsAt(full, (block + 1) * Width - 1),
         b2' = Stripped(full, (block + 1) * Width - 1, m),
         Returns \/ (m = -1 /\ pc' = "undefined" /\ UNCHANGED block)
  PROVE  EncIInv'
<1> DEFINE n == Len(configured) \div N
           end == (block + 1) * Width
           lo == block * Width
           e == Expected(text, Width * n)
<1>1. /\ EncTypeOK /\ ConfiguredIsPrefix
  BY DEF EncIInv
<1>2. /\ block \in Nat /\ Len(configured) \in Nat /\ N \in Nat \ {0} /\ Width \in Nat \ {0}
      /\ text \in Text
  BY <1>1, Sizes DEF EncTypeOK
<1>3. (block + 1) * N <= Len(configured) /\ (block + 1) * N + 0 = Len(configured)
  <2>1. (block + 1) * N \in Nat
    BY <1>2
  <2> QED BY <2>1 DEF IsLast
<1>4. n = block + 1 /\ Len(configured) % N = 0
  <2>1. block + 1 \in Nat /\ 0 \in 0..(N - 1)
    BY <1>2
  <2>2. ((block + 1) * N + 0) \div N = block + 1 /\ ((block + 1) * N + 0) % N = 0
    BY <1>2, <2>1, Quotient
  <2> QED BY <1>3, <2>2
<1>5. \/ block # 0 /\ block' = block - 1 /\ pc' = "decode"
      \/ block = 0 /\ block' = block /\ pc' = "done"
      \/ block' = block /\ pc' = "undefined" /\ m = -1
  BY ReturnsOnce
<1>6. /\ n \in Nat /\ \A c \in 0..(n * Width) : c \in Cells
  BY <1>4, WholePart
<1>7. e = Expected(text, Width * n)
  OBVIOUS
<1> HIDE DEF n, e
<1>8. /\ lo \in Nat /\ end = lo + Width /\ end \in Nat
      /\ lo = (n - 1) * Width /\ end = n * Width
  BY <1>2, <1>4
<1>9. /\ Len(e) \in lo..end
      /\ e = [i \in 1..Len(e) |-> Filled(text, i)]
      /\ \A i \in (Len(e) + 1)..end : Filled(text, i) = Blank
      /\ Len(e) > lo => Filled(text, Len(e)) # Blank
  <2>1. n \in Nat \ {0}
    BY <1>2, <1>4
  <2> QED BY <1>2, <1>7, <1>8, <2>1, ExpectedText
<1>10. /\ Decoded \in [Cells -> Char \cup {Wild}]
       /\ \A c \in Cells : lo <= c /\ c < end =>
            Decoded[c] = Filled(text, c + 1) /\ Decoded[c] \in Letter
  BY <1>3, <1>8, DecodedBlock
<1> HIDE DEF lo, end
<1>11. end \in Cells /\ \A c \in lo..end : c \in Cells
  BY <1>6, <1>8
<1>12. full = [c \in Cells |-> IF c = end THEN 0 ELSE Decoded[c]]
  <2>1. full = Terminated(Decoded, end) /\ DOMAIN Decoded = Cells
    BY <1>10 DEF end
  <2> QED BY <1>11, <2>1, TerminatedInside
<1>13. /\ full \in [Cells -> Char \cup {Wild}] /\ full[end] = 0
       /\ \A c \in lo..(end - 1) : full[c] = Filled(text, c + 1) /\ full[c] # Wild
  <2>1. 0 \in Char
    BY WeightsGrow, Sizes DEF Char
  <2>2. full \in [Cells -> Char \cup {Wild}] /\ full[end] = 0
    BY <1>10, <1>11, <1>12, <2>1
  <2>3. ASSUME NEW c \in lo..(end - 1) PROVE full[c] = Filled(text, c + 1) /\ full[c] # Wild
    <3>1. c \in lo..end /\ c # end /\ lo <= c /\ c < end
      BY <1>8
    <3>2. c \in Cells
      BY <1>11, <3>1
    <3>3. full[c] = Decoded[c]
      BY <1>10, <1>12, <3>1, <3>2
    <3> QED BY <1>10, <3>1, <3>2, <3>3, LettersAreNotZero
  <2> QED BY <2>2, <2>3
<1>14. /\ m \in -1..(end - 1)
       /\ \A c \in (m + 1)..(end - 1) : full[c] \in {Blank, Wild}
       /\ m = -1 \/ full[m] # Blank
  BY DEF StopsAt, end
<1>15. b2' = [c \in Cells |-> IF c \in (m + 1)..(end - 1) THEN 0 ELSE full[c]]
  BY <1>13 DEF Stripped, end
<1>16. b2' \in [Cells -> Char \cup {Wild}]
  <2>1. 0 \in Char
    BY WeightsGrow, Sizes DEF Char
  <2>2. \A c \in Cells : (IF c \in (m + 1)..(end - 1) THEN 0 ELSE full[c]) \in Char \cup {Wild}
    BY <1>13, <2>1
  <2> QED BY <1>15, <2>2
<1>17. EncTypeOK' /\ EncodedSoFar' /\ ConfiguredIsPrefix'
  BY <1>5, <1>16, DecodingKeeps
\* Above the place where the loop stops there is nothing but blanks.
<1>18. ASSUME NEW c \in lo..(end - 1), c > m PROVE c >= Len(e)
  <2> SUFFICES ASSUME c < Len(e) PROVE FALSE
    BY <1>8, <1>9
  <2>1. Len(e) > lo /\ Len(e) - 1 \in lo..(end - 1) /\ Len(e) - 1 \in (m + 1)..(end - 1)
    BY <1>8, <1>9, <1>14, <1>18
  <2>2. full[Len(e) - 1] = Filled(text, (Len(e) - 1) + 1) /\ full[Len(e) - 1] # Wild
    BY <1>13, <2>1
  <2>3. full[Len(e) - 1] = Blank
    BY <1>14, <2>1, <2>2
  <2>4. (Len(e) - 1) + 1 = Len(e)
    BY <1>8, <1>9
  <2> QED BY <1>9, <2>1, <2>2, <2>3, <2>4
<1>19. ASSUME NEW c \in lo..(end - 1), c <= m PROVE c < Len(e)
  <2>1. m \in lo..(end - 1) /\ m # -1
    BY <1>8, <1>14, <1>19
  <2>2. Filled(text, m + 1) # Blank
    BY <1>13, <1>14, <2>1
  <2>3. ~(m + 1 \in (Len(e) + 1)..end)
    BY <1>9, <2>2
  <2> QED BY <1>8, <1>9, <1>19, <2>1, <2>3
<1>20. ASSUME NEW c \in lo..end PROVE b2'[c] = IF c < Len(e) THEN e[c + 1] ELSE 0
  <2>1. c \in Cells /\ c \in Nat
    BY <1>8, <1>11
  <2>2. CASE c = end
    <3>1. c \notin (m + 1)..(end - 1) /\ ~(c < Len(e))
      BY <1>8, <1>9, <1>14, <2>2
    <3> QED BY <1>13, <1>15, <2>1, <2>2, <3>1
  <2>3. CASE c # end /\ c > m
    <3>1. c \in lo..(end - 1) /\ c \in (m + 1)..(end - 1)
      BY <1>8, <1>14, <2>3
    <3>2. ~(c < Len(e))
      BY <1>8, <1>9, <1>18, <2>1, <2>3, <3>1
    <3> QED BY <1>15, <2>1, <3>1, <3>2
  <2>4. CASE c # end /\ ~(c > m)
    <3>1. c \in lo..(end - 1) /\ c \notin (m + 1)..(end - 1) /\ c <= m
      BY <1>8, <1>14, <2>4
    <3>2. c < Len(e) /\ c + 1 \in 1..Len(e)
      BY <1>8, <1>9, <1>19, <2>1, <3>1
    <3>3. b2'[c] = Filled(text, c + 1)
      BY <1>13, <1>15, <2>1, <3>1
    <3> QED BY <1>9, <3>2, <3>3
  <2> QED BY <2>2, <2>3, <2>4
<1>21. DecodedSoFar'
  <2> SUFFICES ASSUME pc' # "undefined"
               PROVE  DecodedSoFar'
    BY DEF DecodedSoFar
  <2>1. (IF pc' = "decode" THEN block' + 1 ELSE 0) = block
    BY <1>2, <1>5
  <2>2. configured' = configured /\ text' = text
    OBVIOUS
  <2>3. \A c \in (block * Width)..(n * Width) : b2'[c] = IF c < Len(e) THEN e[c + 1] ELSE 0
    BY <1>8, <1>20 DEF lo
  <2> QED BY <2>1, <2>2, <2>3 DEF DecodedSoFar, Expected, n, e
<1>22. OnlyBlanksRunOver'
  <2> SUFFICES ASSUME pc' = "undefined"
               PROVE  Len(e) = Width * n - Width
    BY DEF OnlyBlanksRunOver, Expected, n, e
  <2>1. m = -1
    BY <1>5
  <2>2. lo \in lo..(end - 1) /\ lo > m
    BY <1>2, <1>8, <2>1
  <2>3. lo >= Len(e)
    BY <1>18, <2>2
  <2>4. lo = Width * n - Width
    <3>1. Width * n = n * Width
      BY <1>2, <1>6
    <3> QED BY <1>2, <1>8, <3>1
  <2> QED BY <1>8, <1>9, <2>3, <2>4
<1>23. CutSoFar'
  BY <1>4 DEF CutSoFar
<1> QED BY <1>17, <1>21, <1>22, <1>23 DEF EncIInv

LEMMA DecodeBlockIInv ==
  ASSUME EncIInv, DecodeBlock
  PROVE  EncIInv'
<1>1. pc = "decode" /\ UNCHANGED <<key, text, b1, configured>>
  BY DEF DecodeBlock
<1>2. CASE (block + 1) * N > Len(configured) /\ UNCHANGED b2 /\ Returns
  BY <1>1, <1>2, SkipBlockIInv
<1>3. CASE (block + 1) * N < Len(configured) /\ b2' = Decoded /\ Returns
  BY <1>1, <1>3, MiddleBlockIInv
<1>4. CASE /\ IsLast
           /\ LET end == (block + 1) * Width
                  full == Terminated(Decoded, end)
              IN \E m \in StopsAt(full, end - 1) :
                   /\ b2' = Stripped(full, end - 1, m)
                   /\ \/ Returns
                      \/ m = -1 /\ pc' = "undefined" /\ UNCHANGED block
  <2> DEFINE full == Terminated(Decoded, (block + 1) * Width)
  <2>1. PICK m \in StopsAt(full, (block + 1) * Width - 1) :
          /\ b2' = Stripped(full, (block + 1) * Width - 1, m)
          /\ Returns \/ (m = -1 /\ pc' = "undefined" /\ UNCHANGED block)
    BY <1>4
  <2>2. full = Terminated(Decoded, (block + 1) * Width)
    OBVIOUS
  <2> HIDE DEF full
  <2> QED BY <1>1, <1>4, <2>1, <2>2, LastBlockIInv
<1> QED BY <1>2, <1>3, <1>4 DEF DecodeBlock

LEMMA EncNextIInv == EncIInv /\ [EncNext]_encVars => EncIInv'
<1> SUFFICES ASSUME EncIInv, [EncNext]_encVars PROVE EncIInv'
  OBVIOUS
<1>1. CASE UNCHANGED encVars
  <2>1. UNCHANGED <<key, text, b1, configured, b2, block, pc>>
    BY <1>1 DEF encVars
  <2>2. EncTypeOK' /\ EncodedSoFar'
    BY <2>1 DEF EncIInv, EncTypeOK, EncodedSoFar, my_encode, BlockOf, Fits
  <2>3. pc' \in {"decode", "done"} => ConfiguredIsPrefix'
    BY <2>1 DEF EncIInv, ConfiguredIsPrefix
  <2>4. DecodedSoFar' /\ CutSoFar' /\ OnlyBlanksRunOver'
    BY <2>1 DEF EncIInv, DecodedSoFar, CutSoFar, OnlyBlanksRunOver, Expected, Fits
  <2> QED BY <2>2, <2>3, <2>4 DEF EncIInv
<1>2. CASE EncodeBlock /\ ~Fits(text)
  <2>1. pc = "encode" /\ EncodeTo(Encoded((block + 1) * Width >= Len(text)))
    BY <1>2 DEF EncodeBlock
  <2>2. DOMAIN Encoded((block + 1) * Width >= Len(text)) # Cells
    BY <1>2, <2>1, EncodedBlock
  <2>3. pc' = "undefined" /\ UNCHANGED <<key, text, b1, configured, b2, block>>
    BY <2>1, <2>2 DEF EncodeTo
  <2> QED BY <1>2, <2>1, <2>3, RunsOverIInv
<1> QED BY <1>1, <1>2, EncodeBlockIInv, ConfigureIInv, DecodeBlockIInv DEF EncNext

LEMMA EncInvariance == EncSpec => []EncIInv
BY EncInitIInv, EncNextIInv, PTL DEF EncSpec

-----------------------------------------------------------------------------
(* Type correctness: for buffers of any size, whatever is encoded and how  *)
(* it is cut, decode writes no cell that its buffer does not have, and     *)
(* encode none without having become undefined.                            *)
THEOREM EncTypeCorrect == EncSpec => []EncTypeOK
<1>1. EncIInv => EncTypeOK
  BY DEF EncIInv
<1> QED BY <1>1, EncInvariance, PTL

(* What the tool prints is whole blocks, one for each block of the text,   *)
(* and nothing after them, whatever the buffer held before.                *)
THEOREM EncodedIsWholeHolds == EncSpec => []EncodedIsWhole
<1>1. EncIInv => EncodedIsWhole
  BY EncodedString DEF EncIInv, EncodedIsWhole, EncodedSoFar
<1> QED BY <1>1, EncInvariance, PTL

(* Of a text that fits, the loop that strips blanks runs off the buffer    *)
(* only if the last block is nothing but blanks; nothing else is ever      *)
(* undefined.                                                              *)
THEOREM OnlyBlanksAreStripped == EncSpec => []OnlyBlanksRunOver
<1>1. EncIInv => OnlyBlanksRunOver
  BY DEF EncIInv
<1> QED BY <1>1, EncInvariance, PTL

(* What was encoded is what is decoded, but for the blanks at its end, for *)
(* texts and blocks of every length and for every cipher; and what is left *)
(* of a text that lost whole blocks is what they were.                     *)
THEOREM DecodeUndoesEncode == EncSpec => []RoundTrip
<1>1. EncIInv => RoundTrip
  <2> SUFFICES ASSUME EncIInv, pc = "done", configured # <<>>, Len(configured) % N = 0
               PROVE  AsString(b2) = Expected(text, Width * (Len(configured) \div N))
    BY DEF RoundTrip
  <2> DEFINE n == Len(configured) \div N
             e == Expected(text, Width * n)
  <2>1. /\ n \in Nat /\ Len(configured) = n * N
        /\ n * Width \in Nat /\ \A c \in 0..(n * Width) : c \in Cells
    BY WholePart
  <2>2. /\ text \in Text /\ b2 \in [Cells -> Char \cup {Wild}] /\ Len(configured) # 0
        /\ Width \in Nat \ {0} /\ N \in Nat \ {0}
    BY Sizes DEF EncIInv, EncTypeOK
  <2>3. n # 0
    BY <2>1, <2>2
  <2>4. \A c \in 0..(n * Width) : b2[c] = IF c < Len(e) THEN e[c + 1] ELSE 0
    <3>1. 0 < n /\ 0 * Width = 0
      BY <2>1, <2>2, <2>3
    <3> QED BY <3>1 DEF EncIInv, DecodedSoFar
  <2>5. e = Expected(text, Width * n)
    OBVIOUS
  <2> HIDE DEF n, e
  <2>6. /\ Len(e) \in ((n - 1) * Width)..(n * Width)
        /\ e = [i \in 1..Len(e) |-> Filled(text, i)]
        /\ \A i \in 1..Len(e) : e[i] \in Letter
    BY <2>1, <2>2, <2>3, <2>5, ExpectedText
  <2>7. Len(e) \in 0..(n * Width) /\ Len(e) \in Nat
    <3>1. (n - 1) * Width \in Nat
      BY <2>1, <2>2, <2>3
    <3> QED BY <2>1, <2>6, <3>1
  <2>8. \A c \in 0..(Len(e) - 1) : c \in 0..(n * Width) /\ c < Len(e) /\ c + 1 \in 1..Len(e)
    BY <2>1, <2>7
  <2>9. b2[Len(e)] = 0 /\ \A c \in 0..(Len(e) - 1) : b2[c] = e[c + 1] /\ b2[c] # 0
    BY <2>4, <2>6, <2>7, <2>8, LettersAreNotZero
  <2>10. AsString(b2) = [i \in 1..Len(e) |-> b2[i - 1]]
    <3> DEFINE most == Size - 1
    <3>1. most \in Nat /\ DOMAIN b2 = 0..most /\ Len(e) \in 0..most
      <4>1. most \in Nat
        BY Sizes
      <4>2. DOMAIN b2 = 0..most
        BY <2>2 DEF Cells
      <4>3. Len(e) \in Cells
        BY <2>1, <2>7
      <4> QED BY <4>1, <4>2, <4>3 DEF Cells
    <3> HIDE DEF most
    <3> QED BY <2>9, <3>1, AsStringEnds
  <2>11. \A i \in 1..Len(e) : b2[i - 1] = e[i]
    <3> TAKE i \in 1..Len(e)
    <3>1. i - 1 \in 0..(Len(e) - 1) /\ (i - 1) + 1 = i
      BY <2>7
    <3> QED BY <2>9, <3>1
  <2>12. e = [i \in 1..Len(e) |-> e[i]]
    BY <2>6
  <2>13. AsString(b2) = e
    BY <2>10, <2>11, <2>12
  <2> QED BY <2>13 DEF e, n
<1> QED BY <1>1, EncInvariance, PTL

(* Of a text that was cut inside a block, the blocks before that one are   *)
(* decoded as they were.                                                   *)
THEOREM CutLosesOneBlock == EncSpec => []CutCostsOneBlock
<1>1. EncIInv => CutCostsOneBlock
  <2> SUFFICES ASSUME EncIInv, pc = "done", Len(configured) % N # 0,
                      NEW c \in 0..((Len(configured) \div N) * Width - 1)
               PROVE  b2[c] = text[c + 1]
    BY DEF CutCostsOneBlock
  <2>1. 0 * Width = 0
    BY Sizes
  <2> QED BY <2>1 DEF EncIInv, CutSoFar
<1> QED BY <1>1, EncInvariance, PTL

=============================================================================
