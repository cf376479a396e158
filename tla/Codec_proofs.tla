---------------------------- MODULE Codec_proofs ----------------------------
(***************************************************************************)
(* Theorems about the packet code, about the control law, and about the    *)
(* exchanges of Payload that go through both: what is put into a packet    *)
(* comes out of it, every float of a call of get_u arrives where the       *)
(* server reads it, and the thrusts that come back close the loop.         *)
(***************************************************************************)
EXTENDS Payload, FiniteSetTheorems, FunctionTheorems, TLAPS

-----------------------------------------------------------------------------
(* Powers of two, and the bits of a number.                                *)

\* Every set of numbers has a least one.
LEMMA LeastNumber ==
  ASSUME NEW T, T \subseteq Nat, T # {}
  PROVE  \E a \in T : \A b \in T : a <= b
<1>1. PICK a \in T : \A b \in T : ~ (<<b, a>> \in OpToRel(<, Nat))
  BY NatLessThanWellFounded, WFMin
<1>2. ASSUME NEW b \in T  PROVE a <= b
  <2>1. a \in Nat /\ b \in Nat
    OBVIOUS
  <2>2. ~ (b < a)
    BY <1>1, <2>1 DEF OpToRel
  <2>. QED  BY <2>1, <2>2
<1>. QED  BY <1>2

\* The powers of two, from the number of the subsets of a set.
LEMMA PowerIsNumber ==
  ASSUME NEW n \in Nat
  PROVE  2 ^ n = Cardinality(SUBSET (1 .. n)) /\ IsFiniteSet(SUBSET (1 .. n)) /\ 2 ^ n \in Nat
<1>1. IsFiniteSet(1 .. n) /\ Cardinality(1 .. n) = n
  BY FS_Interval
<1>2. IsFiniteSet(SUBSET (1 .. n)) /\ Cardinality(SUBSET (1 .. n)) = 2 ^ n
  BY <1>1, FS_SUBSET
<1>. QED  BY <1>2, FS_CardinalityType

\* There is one subset of the empty set, and twice as many for every further element.
LEMMA PowerOfZero == 2 ^ 0 = 1
<1>1. SUBSET (1 .. 0) = {{}}
  OBVIOUS
<1>2. Cardinality({{}}) = 1
  BY FS_Singleton
<1>. QED  BY <1>1, <1>2, PowerIsNumber

\* The subsets of 1 .. n + 1 are those of 1 .. n, each without n + 1 and with it.
LEMMA PowerOfNext ==
  ASSUME NEW n \in Nat
  PROVE  2 ^ (n + 1) = 2 * 2 ^ n
<1>. DEFINE without == SUBSET (1 .. n)
            with == {A \cup {n + 1} : A \in without}
            f == [A \in without |-> A \cup {n + 1}]
<1>1. IsFiniteSet(without) /\ Cardinality(without) = 2 ^ n /\ 2 ^ n \in Nat
  BY PowerIsNumber
<1>2. f \in Bijection(without, with)
  <2>1. f \in [without -> with]
    OBVIOUS
  <2>2. ASSUME NEW A \in without, NEW B \in without, f[A] = f[B]
        PROVE  A = B
    <3>1. A \cup {n + 1} = B \cup {n + 1}
      BY <2>2
    <3>2. n + 1 \notin A /\ n + 1 \notin B
      OBVIOUS
    <3>. QED  BY <3>1, <3>2
  <2>3. \A W \in with : \E A \in without : f[A] = W
    OBVIOUS
  <2>. HIDE DEF f, with, without
  <2>. QED  BY <2>1, <2>2, <2>3, Fun_IsBij
<1>3. IsFiniteSet(with) /\ Cardinality(with) = 2 ^ n
  <2>. HIDE DEF f, with, without
  <2>. QED  BY <1>1, <1>2, FS_Bijection DEF ExistsBijection
<1>4. without \cap with = {}
  <2>1. \A A \in without : n + 1 \notin A
    OBVIOUS
  <2>2. ASSUME NEW W \in with  PROVE n + 1 \in W
    <3>1. PICK A \in without : W = A \cup {n + 1}
      OBVIOUS
    <3>. QED  BY <3>1
  <2>. QED  BY <2>1, <2>2
<1>5. without \cup with = SUBSET (1 .. n + 1)
  <2>1. \A A \in without : A \subseteq 1 .. n + 1
    OBVIOUS
  <2>2. ASSUME NEW W \in with  PROVE W \subseteq 1 .. n + 1
    <3>1. PICK A \in without : W = A \cup {n + 1}
      OBVIOUS
    <3>. QED  BY <3>1
  <2>3. ASSUME NEW A \in SUBSET (1 .. n + 1), A \notin without
        PROVE  A \in with
    <3>1. n + 1 \in A
      BY <2>3
    <3>2. A \ {n + 1} \in without
      OBVIOUS
    <3>3. A = (A \ {n + 1}) \cup {n + 1}
      BY <3>1
    <3>. QED  BY <3>2, <3>3
  <2>. QED  BY <2>1, <2>2, <2>3
<1>6. Cardinality(without \cup with) = 2 ^ n + 2 ^ n
  <2>. HIDE DEF with, without
  <2>1. Cardinality({}) = 0
    BY FS_EmptySet
  <2>. QED  BY <1>1, <1>3, <1>4, <2>1, FS_Union
<1>7. 2 ^ (n + 1) = Cardinality(SUBSET (1 .. n + 1))
  BY PowerIsNumber
<1>8. 2 ^ (n + 1) = 2 ^ n + 2 ^ n
  BY <1>5, <1>6, <1>7, Zenon
<1>. HIDE DEF with, without
<1>9. ASSUME NEW a \in Nat  PROVE a + a = 2 * a
  OBVIOUS
<1>. QED  BY <1>1, <1>8, <1>9, Zenon

\* By induction: the least exponent at which it fails is none.
LEMMA PowerOfSum ==
  ASSUME NEW a \in Nat, NEW b \in Nat
  PROVE  2 ^ (a + b) = 2 ^ a * 2 ^ b
<1>. DEFINE Fails == {n \in Nat : 2 ^ (a + n) # 2 ^ a * 2 ^ n}
<1>. SUFFICES ASSUME Fails # {}  PROVE FALSE
  OBVIOUS
<1>1. PICK n \in Fails : \A k \in Fails : n <= k
  <2>. HIDE DEF Fails
  <2>1. Fails \subseteq Nat
    BY DEF Fails
  <2>. QED  BY <2>1, LeastNumber
<1>2. 2 ^ a \in Nat /\ \A k \in Nat : 2 ^ k \in Nat
  BY PowerIsNumber
<1>3. n # 0
  <2>1. a + 0 = a
    OBVIOUS
  <2>2. 2 ^ a * 1 = 2 ^ a
    BY <1>2
  <2>. QED  BY <2>1, <2>2, PowerOfZero
<1>4. PICK k \in Nat : n = k + 1
  <2>1. n - 1 \in Nat /\ n = (n - 1) + 1
    BY <1>3
  <2>. QED  BY <2>1
<1>5. 2 ^ (a + k) = 2 ^ a * 2 ^ k
  <2>. HIDE DEF Fails
  <2>1. k \notin Fails
    <3>. ~ (n <= k)
      BY <1>4
    <3>. QED  BY <1>1
  <2>. QED  BY <2>1 DEF Fails
<1>6. a + n = (a + k) + 1 /\ a + k \in Nat
  BY <1>4
<1>7. 2 ^ (a + n) = 2 * 2 ^ (a + k)
  BY <1>6, PowerOfNext, Zenon
<1>8. 2 ^ n = 2 * 2 ^ k
  BY <1>4, PowerOfNext, Zenon
<1>9. 2 * (2 ^ a * 2 ^ k) = 2 ^ a * (2 * 2 ^ k)
  <2>1. \A u, v \in Nat : 2 * (u * v) = u * (2 * v)
    OBVIOUS
  <2>. QED  BY <1>2, <2>1
<1>. QED  BY <1>5, <1>7, <1>8, <1>9, Zenon

\* A power is at least one, and no less than a smaller one.
LEMMA PowersGrow ==
  ASSUME NEW a \in Nat, NEW b \in Nat, a <= b
  PROVE  1 <= 2 ^ a /\ 2 ^ a <= 2 ^ b
<1>1. ASSUME NEW n \in Nat  PROVE 2 ^ n \in Nat /\ 1 <= 2 ^ n
  <2>1. IsFiniteSet(SUBSET (1 .. n)) /\ Cardinality(SUBSET (1 .. n)) = 2 ^ n /\ 2 ^ n \in Nat
    BY PowerIsNumber
  <2>2. Cardinality(SUBSET (1 .. n)) # 0
    BY <2>1, FS_EmptySet
  <2>. QED  BY <2>1, <2>2
<1>2. b - a \in Nat /\ a + (b - a) = b
  OBVIOUS
<1>3. 2 ^ b = 2 ^ a * 2 ^ (b - a)
  BY <1>2, PowerOfSum, Zenon
<1>4. \A u, v \in Nat : 1 <= v => u <= u * v
  OBVIOUS
<1>. QED  BY <1>1, <1>2, <1>3, <1>4

\* The quotient and the rest of a division.
LEMMA Division ==
  ASSUME NEW a \in Nat, NEW d \in Nat \ {0}
  PROVE  /\ a \div d \in Nat /\ a % d \in 0 .. d - 1
         /\ a = d * (a \div d) + (a % d)
BY SMT

\* There is one of each.
LEMMA QuotientIsUnique ==
  ASSUME NEW a \in Nat, NEW d \in Nat \ {0}, NEW q \in Nat, NEW r \in 0 .. d - 1,
         a = d * q + r
  PROVE  a \div d = q
<1>. DEFINE p == a \div d
            s == a % d
<1>1. p \in Nat /\ s \in 0 .. d - 1 /\ a = d * p + s
  BY Division
<1>. HIDE DEF p, s
<1>2. d * (p - q) = r - s
  <2>1. d * (p - q) = d * p - d * q
    BY <1>1, SMT
  <2>2. d * p \in Nat /\ d * q \in Nat
    BY <1>1, SMT
  <2>. QED  BY <1>1, <2>1, <2>2
<1>3. p - q = 0
  <2>. DEFINE k == p - q
  <2>1. k \in Int /\ d * k = r - s
    BY <1>1, <1>2
  <2>. HIDE DEF k
  <2>2. k >= 1 => d * k >= d
    BY <2>1, SMT
  <2>3. k <= -1 => d * k <= -d
    BY <2>1, SMT
  <2>4. k = 0
    BY <1>1, <2>1, <2>2, <2>3
  <2>. QED  BY <2>4 DEF k
<1>4. p = q
  BY <1>1, <1>3
<1>. QED  BY <1>4 DEF p

\* The bits of a number but the lowest are those of its half.
LEMMA HalvedQuotient ==
  ASSUME NEW n \in Nat, NEW d \in Nat \ {0}
  PROVE  n \div (2 * d) = (n \div 2) \div d
<1>. DEFINE h == n \div 2
            s == n % 2
            q == h \div d
            r == h % d
<1>1. h \in Nat /\ s \in 0 .. 1 /\ n = 2 * h + s
  BY SMT
<1>2. q \in Nat /\ r \in 0 .. d - 1 /\ h = d * q + r
  BY <1>1, Division
<1>. HIDE DEF h, s, q, r
<1>3. n = (2 * d) * q + (2 * r + s)
  <2>1. (2 * d) * q = 2 * (d * q) /\ d * q \in Nat
    BY <1>2, SMT
  <2>. QED  BY <1>1, <1>2, <2>1
<1>4. 2 * d \in Nat \ {0} /\ 2 * r + s \in 0 .. 2 * d - 1
  BY <1>1, <1>2
<1>5. n \div (2 * d) = q
  BY <1>2, <1>3, <1>4, QuotientIsUnique
<1>. QED  BY <1>5 DEF q, h

\* Numbers of w bits with the same bits are the same.
SameBits(n, k, w) == \A b \in 0 .. w - 1 : (n \div 2 ^ b) % 2 = (k \div 2 ^ b) % 2

\* By induction: numbers of v bits that differ in none differ, if at all, in their halves.
LEMMA BitsTellApart ==
  ASSUME NEW w \in Nat, NEW n \in Nat, NEW k \in Nat, n < 2 ^ w, k < 2 ^ w, SameBits(n, k, w)
  PROVE  n = k
<1>. DEFINE Differ(v) == \E i, j \in Nat : /\ i < 2 ^ v /\ j < 2 ^ v
                                           /\ SameBits(i, j, v) /\ i # j
            Fails == {v \in Nat : Differ(v)}
<1>. SUFFICES ASSUME Fails # {}  PROVE FALSE
  OBVIOUS
<1>1. PICK v \in Fails : \A u \in Fails : v <= u
  <2>. HIDE DEF Fails
  <2>1. Fails \subseteq Nat
    BY DEF Fails
  <2>. QED  BY <2>1, LeastNumber
<1>2. PICK i \in Nat, j \in Nat : i < 2 ^ v /\ j < 2 ^ v /\ SameBits(i, j, v) /\ i # j
  OBVIOUS
<1>3. v \in Nat
  OBVIOUS
<1>4. v # 0
  <2>1. ASSUME v = 0  PROVE FALSE
    <3>1. 2 ^ v = 1
      BY <2>1, PowerOfZero, Zenon
    <3>. DEFINE power == 2 ^ v
    <3>2. i < power /\ j < power /\ power = 1
      BY <1>2, <3>1
    <3>. HIDE DEF power
    <3>. QED  BY <1>2, <3>2
  <2>. QED  BY <2>1
<1>. DEFINE u == v - 1
            hi == i \div 2
            hj == j \div 2
<1>5. u \in Nat /\ v = u + 1
  BY <1>3, <1>4
<1>. HIDE DEF u
<1>6. 2 ^ v = 2 * 2 ^ u /\ 2 ^ u \in Nat
  BY <1>5, PowerOfNext, PowerIsNumber
<1>7. /\ hi \in Nat /\ i = 2 * hi + (i % 2) /\ i % 2 \in 0 .. 1
      /\ hj \in Nat /\ j = 2 * hj + (j % 2) /\ j % 2 \in 0 .. 1
  BY SMT
<1>8. hi < 2 ^ u /\ hj < 2 ^ u
  <2>. DEFINE power == 2 ^ u
              wide == 2 ^ v
              i0 == i % 2
              j0 == j % 2
  <2>1. i < wide /\ j < wide /\ wide = 2 * power /\ power \in Nat
    BY <1>2, <1>6
  <2>2. i = 2 * hi + i0 /\ j = 2 * hj + j0 /\ i0 \in 0 .. 1 /\ j0 \in 0 .. 1
        /\ hi \in Nat /\ hj \in Nat
    BY <1>7
  <2>. HIDE DEF power, wide, hi, hj, i0, j0
  <2>3. hi < power /\ hj < power
    BY <2>1, <2>2
  <2>. QED  BY <2>3 DEF power
<1>9. SameBits(hi, hj, u)
  <2>. SUFFICES ASSUME NEW b \in 0 .. u - 1
                PROVE  (hi \div 2 ^ b) % 2 = (hj \div 2 ^ b) % 2
    BY DEF SameBits
  <2>1. b \in Nat /\ b + 1 \in 0 .. v - 1
    BY <1>5
  <2>. DEFINE d == 2 ^ b
  <2>2. 2 ^ (b + 1) = 2 * d /\ d \in Nat \ {0}
    BY <2>1, PowerOfNext, PowerIsNumber, PowersGrow
  <2>3. (i \div 2 ^ (b + 1)) % 2 = (j \div 2 ^ (b + 1)) % 2
    BY <1>2, <2>1 DEF SameBits
  <2>. HIDE DEF d
  <2>4. i \div (2 * d) = hi \div d /\ j \div (2 * d) = hj \div d
    BY <2>2, HalvedQuotient
  <2>5. (hi \div d) % 2 = (hj \div d) % 2
    BY <2>2, <2>3, <2>4
  <2>. QED  BY <2>5 DEF d
<1>10. i % 2 = j % 2
  <2>1. 0 \in 0 .. v - 1
    BY <1>5
  <2>2. (i \div 2 ^ 0) % 2 = (j \div 2 ^ 0) % 2
    BY <1>2, <2>1 DEF SameBits
  <2>3. i \div 1 = i /\ j \div 1 = j
    BY SMT
  <2>. QED  BY <2>2, <2>3, PowerOfZero
<1>11. hi # hj
  <2>. HIDE DEF hi, hj
  <2>. QED  BY <1>2, <1>7, <1>10
<1>12. u \in Fails
  <2>1. Differ(u)
    <3>. HIDE DEF hi, hj
    <3>. QED  BY <1>7, <1>8, <1>9, <1>11
  <2>. HIDE DEF Differ
  <2>. QED  BY <1>5, <2>1
<1>13. ~ (v <= u)
  BY <1>5
<1>. QED  BY <1>1, <1>12, <1>13

\* WordOf and NumberOf, the C compiler's two ways between an unsigned int and its bits, are
\* inverse on every number that a word holds, whatever the width of a byte: so a packet's
\* type and length, and a float of the field, come out of a word as they went into it.
THEOREM NumberRoundTrip ==
  \A n \in 0 .. BitValue(WordBits) - 1 : WordOf(n) \in Words /\ NumberOf(WordOf(n)) = n
<1>. SUFFICES ASSUME NEW n \in 0 .. BitValue(WordBits) - 1
              PROVE  WordOf(n) \in Words /\ NumberOf(WordOf(n)) = n
  OBVIOUS
<1>1. WordBits \in Nat
  BY CodecAssumption DEF WordBits
<1>2. BitValue(WordBits) = 2 ^ WordBits /\ 2 ^ WordBits \in Nat
  BY <1>1, PowerIsNumber DEF BitValue
<1>3. ASSUME NEW k \in 0 .. BitValue(WordBits) - 1, WordOf(k) = WordOf(n)
      PROVE  k = n
  <2>1. n \in Nat /\ k \in Nat /\ n < 2 ^ WordBits /\ k < 2 ^ WordBits
    BY <1>2
  <2>2. SameBits(n, k, WordBits)
    <3>. SUFFICES ASSUME NEW b \in 0 .. WordBits - 1
                  PROVE  (n \div 2 ^ b) % 2 = (k \div 2 ^ b) % 2
      BY DEF SameBits
    <3>1. b \in WordOf(n) <=> b \in WordOf(k)
      BY <1>3
    <3>2. (n \div 2 ^ b) % 2 = 1 <=> (k \div 2 ^ b) % 2 = 1
      BY <3>1 DEF WordOf, BitValue
    <3>. DEFINE d == 2 ^ b
    <3>3. d \in Nat \ {0}
      BY <1>1, PowerIsNumber, PowersGrow
    <3>4. (n \div d) % 2 = 1 <=> (k \div d) % 2 = 1
      BY <3>2
    <3>. HIDE DEF d
    <3>. DEFINE x == n \div d
                y == k \div d
    <3>5. x \in Nat /\ y \in Nat
      BY <2>1, <3>3, Division
    <3>6. x % 2 = 1 <=> y % 2 = 1
      BY <3>4
    <3>. HIDE DEF x, y
    <3>7. x % 2 \in 0 .. 1 /\ y % 2 \in 0 .. 1
      BY <3>5
    <3>8. x % 2 = y % 2
      BY <3>6, <3>7
    <3>. QED  BY <3>8 DEF d, x, y
  <2>. QED  BY <1>1, <2>1, <2>2, BitsTellApart
<1>4. NumberOf(WordOf(n)) = n
  <2>. DEFINE C == CHOOSE k \in 0 .. BitValue(WordBits) - 1 : WordOf(k) = WordOf(n)
  <2>1. C \in 0 .. BitValue(WordBits) - 1 /\ WordOf(C) = WordOf(n)
    OBVIOUS
  <2>2. C = n
    BY <1>3, <2>1
  <2>. QED  BY <2>2 DEF NumberOf
<1>5. WordOf(n) \in Words
  BY DEF WordOf, Words
<1>. QED  BY <1>4, <1>5

-----------------------------------------------------------------------------
(* The packet code.                                                        *)

\* uint_to_bytes_arr followed by bytes_arr_to_uint.
THEOREM WordRoundTrip ==
  \A w \in Words : bytes_arr_to_uint(uint_to_bytes_arr(w)) = w
<1> SUFFICES ASSUME NEW w \in Words
             PROVE  bytes_arr_to_uint(uint_to_bytes_arr(w)) = w
  OBVIOUS
<1> DEFINE ca == uint_to_bytes_arr(w)
<1> USE CodecAssumption
<1>1. ASSUME NEW i \in 0 .. 3
      PROVE  ShiftLeft(Promoted(ca[i]), ByteBits * i) \cap ShiftLeft(Mask, ByteBits * i)
               = {b \in w : ByteBits * i <= b /\ b < ByteBits * (i + 1)}
  <2> DEFINE B == ByteBits
             N == ByteBits * i
  <2>1. /\ B \in Nat /\ B >= 1 /\ N \in Nat /\ N + B <= WordBits
        /\ ByteBits * (i + 1) = N + B
    BY SMT DEF WordBits
  <2>2. ca[i] = {b \in 0 .. B - 1 : b + N \in w}
    <3>1. ca[i] = ShiftRight(w, N) \cap (0 .. B - 1)
      BY Zenon DEF uint_to_bytes_arr, Mask
    <3>2. \A b \in 0 .. B - 1 : b \in 0 .. WordBits - 1
      BY <2>1, SMT DEF WordBits
    <3> QED BY <3>1, <3>2, Zenon DEF ShiftRight
  <2>3. ShiftLeft(Mask, N) = {b \in 0 .. WordBits - 1 : b - N \in 0 .. B - 1}
    BY DEF ShiftLeft, Mask
  <2>4. ASSUME NEW b \in 0 .. WordBits - 1, b - N \in 0 .. B - 1
        PROVE  b - N \in Promoted(ca[i]) <=> b \in w
    <3>1. b - N \in Promoted(ca[i]) <=> b - N \in ca[i]
      BY <2>1, <2>4, SMT DEF Promoted
    <3>2. b - N + N = b
      BY <2>1, SMT
    <3> QED BY <2>2, <2>4, <3>1, <3>2, Zenon
  <2>5. ShiftLeft(Promoted(ca[i]), N) \cap ShiftLeft(Mask, N)
          = {b \in 0 .. WordBits - 1 : b - N \in Promoted(ca[i]) /\ b - N \in 0 .. B - 1}
    BY <2>3, Zenon DEF ShiftLeft
  <2>6. w \subseteq 0 .. WordBits - 1
    BY DEF Words
  <2> HIDE DEF N, B
  <2>7. ASSUME NEW b \in 0 .. WordBits - 1
        PROVE  b - N \in 0 .. B - 1 <=> N <= b /\ b < N + B
    BY <2>1, SMT DEF WordBits, B
  <2> QED BY <2>1, <2>4, <2>5, <2>6, <2>7 DEF N, B
<1>2. ASSUME NEW b \in w
      PROVE  \E i \in 0 .. 3 : ByteBits * i <= b /\ b < ByteBits * (i + 1)
  <2>1. b \in 0 .. 4 * ByteBits - 1
    BY DEF Words, WordBits
  <2>2. CASE b < ByteBits
    BY <2>1, <2>2, ByteBits * 0 <= b /\ b < ByteBits * (0 + 1)
  <2>3. CASE ByteBits <= b /\ b < 2 * ByteBits
    BY <2>1, <2>3, ByteBits * 1 <= b /\ b < ByteBits * (1 + 1)
  <2>4. CASE 2 * ByteBits <= b /\ b < 3 * ByteBits
    BY <2>1, <2>4, ByteBits * 2 <= b /\ b < ByteBits * (2 + 1)
  <2>5. CASE 3 * ByteBits <= b
    BY <2>1, <2>5, ByteBits * 3 <= b /\ b < ByteBits * (3 + 1)
  <2> QED BY <2>1, <2>2, <2>3, <2>4, <2>5
<1> HIDE DEF ca
<1>3. bytes_arr_to_uint(ca)
        = UNION {{b \in w : ByteBits * i <= b /\ b < ByteBits * (i + 1)} : i \in 0 .. 3}
  BY <1>1 DEF bytes_arr_to_uint
<1>4. UNION {{b \in w : ByteBits * i <= b /\ b < ByteBits * (i + 1)} : i \in 0 .. 3} = w
  <2> DEFINE Part(i) == {b \in w : ByteBits * i <= b /\ b < ByteBits * (i + 1)}
  <2>1. \A b \in w : \E i \in 0 .. 3 : b \in Part(i)
    BY <1>2
  <2>2. \A i \in 0 .. 3 : Part(i) \subseteq w
    OBVIOUS
  <2> HIDE DEF Part
  <2>3. UNION {Part(i) : i \in 0 .. 3} = w
    BY <2>1, <2>2, Zenon
  <2> QED BY <2>3 DEF Part
<1> QED BY <1>3, <1>4 DEF ca

\* get_floats gets back what fill_packet wrote, whatever the number of floats.
THEOREM FloatsRoundTrip ==
  \A len \in Nat : \A floats \in [0 .. len - 1 -> Words] :
    get_floats(gen_packet_from_floats(floats, len)) = floats
<1> SUFFICES ASSUME NEW len \in Nat, NEW floats \in [0 .. len - 1 -> Words]
             PROVE  get_floats(gen_packet_from_floats(floats, len)) = floats
  OBVIOUS
<1> DEFINE pack == gen_packet_from_floats(floats, len)
<1>1. /\ pack.length = len * 4
      /\ pack.buf = Flatten(floats, len)
  BY DEF gen_packet_from_floats, fill_packet
<1>2. pack.length \div 4 = len
  BY <1>1, SMT
<1> HIDE DEF pack
<1>3. ASSUME NEW i \in 0 .. len - 1
      PROVE  bytes_arr_to_uint(get_slice(pack.buf, 4 * i)) = floats[i]
  <2>1. ASSUME NEW j \in 0 .. 3
        PROVE  pack.buf[4 * i + j] = uint_to_bytes_arr(floats[i])[j]
    <3>1. /\ 4 * i + j \in 0 .. 4 * len - 1
          /\ (4 * i + j) \div 4 = i
          /\ (4 * i + j) % 4 = j
      BY SMT
    <3> QED BY <1>1, <3>1 DEF Flatten
  <2>2. get_slice(pack.buf, 4 * i) = [j \in 0 .. 3 |-> uint_to_bytes_arr(floats[i])[j]]
    BY <2>1 DEF get_slice
  <2>3. [j \in 0 .. 3 |-> uint_to_bytes_arr(floats[i])[j]] = uint_to_bytes_arr(floats[i])
    BY DEF uint_to_bytes_arr
  <2>4. floats[i] \in Words
    OBVIOUS
  <2> QED BY <2>2, <2>3, <2>4, WordRoundTrip
<1>4. get_floats(pack) = [i \in 0 .. len - 1 |-> floats[i]]
  BY <1>2, <1>3 DEF get_floats
<1> QED BY <1>4 DEF pack

\* The receiver gets the packet that was sent, whatever the datagrams before have
\* left in its receive buffer, as long as a word holds its length in bytes.
THEOREM PacketRoundTrip ==
  ASSUME NEW len \in Nat, NEW floats \in [0 .. len - 1 -> Words],
         NEW size \in Nat, NEW old, DOMAIN old = 0 .. size - 1,
         8 + 4 * len <= size, 4 * len < BitValue(WordBits)
  PROVE  LET pack == gen_packet_from_floats(floats, len)
             ca == recvfrom(old, pack_to_bytes(pack))
         IN  KnownType(ca) /\ bytes_to_pack(ca) = pack
<1> DEFINE pack == gen_packet_from_floats(floats, len)
           bytes == pack_to_bytes(pack)
           ca == recvfrom(old, bytes)
<1>1. pack = [type |-> PACK_OF_FLOATS, length |-> 4 * len, buf |-> Flatten(floats, len)]
  <2>1. len * 4 = 4 * len
    BY SMT
  <2> QED BY <2>1, Zenon DEF gen_packet_from_floats, fill_packet, FloatsType
<1>2. /\ pack.type = PACK_OF_FLOATS
      /\ pack.length = 4 * len
      /\ pack.buf = Flatten(floats, len)
  BY <1>1
<1> HIDE DEF pack
<1>0. \A n \in {PACK_OF_FLOATS, 4 * len} : WordOf(n) \in Words /\ NumberOf(WordOf(n)) = n
  <2>1. BitValue(WordBits) \in Nat
    BY CodecAssumption, PowerIsNumber DEF BitValue, WordBits
  <2>2. \A n \in {PACK_OF_FLOATS, 4 * len} : n \in 0 .. BitValue(WordBits) - 1
    BY <2>1 DEF PACK_OF_FLOATS
  <2>. QED  BY <2>2, NumberRoundTrip
<1>3. get_pack_bytes_size(pack) = 8 + 4 * len
  BY <1>2, SMT DEF get_pack_bytes_size
<1>4. DOMAIN bytes = 0 .. 8 + 4 * len - 1
  BY <1>3 DEF pack_to_bytes
<1>5. ASSUME NEW k \in 0 .. 8 + 4 * len - 1
      PROVE  ca[k] = bytes[k]
  <2>1. k \in 0 .. size - 1
    BY SMT
  <2> QED BY <1>4, <2>1 DEF recvfrom
<1>6. ASSUME NEW k \in 0 .. 3
      PROVE  /\ ca[0 + k] = uint_to_bytes_arr(WordOf(pack.type))[k]
             /\ ca[4 + k] = uint_to_bytes_arr(WordOf(pack.length))[k]
  <2>1. /\ 0 + k = k /\ k < 4 /\ k \in 0 .. 8 + 4 * len - 1
        /\ 4 + k \in 0 .. 8 + 4 * len - 1 /\ ~(4 + k < 4)
        /\ 4 + k < 8 /\ 4 + k - 4 = k
    BY SMT
  <2>2. bytes[k] = uint_to_bytes_arr(WordOf(pack.type))[k]
    BY <1>3, <2>1 DEF pack_to_bytes
  <2>3. bytes[4 + k] = uint_to_bytes_arr(WordOf(pack.length))[k]
    BY <1>3, <2>1 DEF pack_to_bytes
  <2> QED BY <1>5, <2>1, <2>2, <2>3
<1>7. ASSUME NEW k \in 0 .. 4 * len - 1
      PROVE  ca[8 + k] = pack.buf[k]
  <2>1. /\ 8 + k \in 0 .. 8 + 4 * len - 1 /\ ~(8 + k < 4)
        /\ ~(8 + k < 8) /\ 8 + k - 8 = k
    BY SMT
  <2>2. bytes[8 + k] = pack.buf[k]
    BY <1>3, <2>1 DEF pack_to_bytes
  <2> QED BY <1>5, <2>1, <2>2
<1> HIDE DEF ca, bytes
<1>8. packet_type(ca) = PACK_OF_FLOATS
  <2>1. get_slice(ca, 0) = [k \in 0 .. 3 |-> uint_to_bytes_arr(WordOf(pack.type))[k]]
    BY <1>6 DEF get_slice
  <2>2. get_slice(ca, 0) = uint_to_bytes_arr(WordOf(PACK_OF_FLOATS))
    BY <1>2, <2>1 DEF uint_to_bytes_arr
  <2> QED BY <1>0, <2>2, WordRoundTrip DEF packet_type
<1>9. packet_length(ca) = 4 * len
  <2>1. get_slice(ca, 4) = [k \in 0 .. 3 |-> uint_to_bytes_arr(WordOf(pack.length))[k]]
    BY <1>6 DEF get_slice
  <2>2. get_slice(ca, 4) = uint_to_bytes_arr(WordOf(4 * len))
    BY <1>2, <2>1 DEF uint_to_bytes_arr
  <2> QED BY <1>0, <2>2, WordRoundTrip DEF packet_length
<1>10. [k \in 0 .. packet_length(ca) - 1 |-> ca[8 + k]] = Flatten(floats, len)
  <2>1. [k \in 0 .. 4 * len - 1 |-> ca[8 + k]] = [k \in 0 .. 4 * len - 1 |-> pack.buf[k]]
    BY <1>7
  <2> QED BY <1>2, <1>9, <2>1 DEF Flatten
<1>11. KnownType(ca)
  BY <1>8 DEF KnownType
<1>12. bytes_to_pack(ca) = pack
  BY <1>1, <1>8, <1>9, <1>10, Zenon DEF bytes_to_pack
<1> QED BY <1>11, <1>12 DEF ca, bytes, pack

-----------------------------------------------------------------------------
(* The field that stands for the floats.                                   *)

\* P is a number of at least six, and division by it leaves an element of Field.
LEMMA FieldIs ==
  /\ P \in Nat /\ 5 < P /\ Field = 0 .. P - 1
  /\ {0, 1, 2, 3, 5} \subseteq Field
BY ControlAssumption DEF Field

\* Division with a remainder, also of negative numbers.
LEMMA RemainderIs ==
  ASSUME NEW z \in Int
  PROVE  /\ z % P \in Field
         /\ \E q \in Int : z = P * q + (z % P)
<1>1. /\ z \div P \in Int /\ z % P \in 0 .. P - 1
      /\ z = P * (z \div P) + (z % P)
  BY FieldIs, SMT
<1>. QED  BY <1>1 DEF Field

\* The remainder is the only element of Field that differs by a multiple of P.
LEMMA RemainderIsUnique ==
  ASSUME NEW z \in Int, NEW q \in Int, NEW r \in Field, z = P * q + r
  PROVE  z % P = r
<1>1. PICK q2 \in Int : z = P * q2 + (z % P)
  BY RemainderIs
<1>. DEFINE s == z % P
<1>2. s \in Field /\ s \in 0 .. P - 1 /\ r \in 0 .. P - 1
  BY RemainderIs DEF Field
<1>3. P * q2 + s = P * q + r
  BY <1>1
<1>. HIDE DEF s
<1>4. P * (q2 - q) = r - s
  <2>1. P * (q2 - q) = P * q2 - P * q
    BY FieldIs, SMT
  <2>2. P * q2 \in Int /\ P * q \in Int
    BY FieldIs, SMT
  <2>. QED  BY <1>2, <1>3, <2>1, <2>2
<1>5. q2 - q = 0
  <2>. DEFINE k == q2 - q
  <2>1. k \in Int
    OBVIOUS
  <2>. HIDE DEF k
  <2>2. k >= 1 => P * k >= P
    BY <2>1, FieldIs, SMT
  <2>3. k <= -1 => P * k <= -P
    BY <2>1, FieldIs, SMT
  <2>4. P * k = r - s
    BY <1>4 DEF k
  <2>5. k = 0
    BY <1>2, <2>1, <2>2, <2>3, <2>4, FieldIs
  <2>. QED  BY <2>5 DEF k
<1>6. q2 = q
  BY <1>5
<1>7. s = r
  BY <1>2, <1>3, <1>6, FieldIs, SMT
<1>. QED  BY <1>7 DEF s

\* Multiples of P may be left out.
LEMMA MultiplesVanish ==
  ASSUME NEW z \in Int, NEW k \in Int
  PROVE  (z + P * k) % P = z % P
<1>1. PICK q \in Int : z = P * q + (z % P)
  BY RemainderIs
<1>. DEFINE r == z % P
<1>2. r \in Field /\ r \in Int
  BY RemainderIs, FieldIs DEF Field
<1>3. z = P * q + r
  BY <1>1
<1>. HIDE DEF r
<1>4. z + P * k = P * (q + k) + r
  BY <1>2, <1>3, FieldIs, SMT
<1>5. z + P * k \in Int /\ q + k \in Int
  BY FieldIs, SMT
<1>6. (z + P * k) % P = r
  BY <1>2, <1>4, <1>5, RemainderIsUnique
<1>. QED  BY <1>6 DEF r

\* An element is its own remainder.
LEMMA ElementStays ==
  ASSUME NEW a \in Field
  PROVE  a % P = a
<1>1. a \in Int /\ a = P * 0 + a
  BY FieldIs, SMT DEF Field
<1>. QED  BY <1>1, RemainderIsUnique

\* Sums and differences without remainders.
LEMMA SumIs ==
  ASSUME NEW a \in Field, NEW b \in Field
  PROVE  /\ a \oplus b \in Field
         /\ a \oplus b = IF a + b < P THEN a + b ELSE a + b - P
<1>1. a \in 0 .. P - 1 /\ b \in 0 .. P - 1
  BY DEF Field
<1>2. CASE a + b < P
  <2>1. a + b \in Field
    BY <1>1, <1>2, FieldIs
  <2>. QED  BY <1>2, <2>1, ElementStays DEF \oplus
<1>3. CASE ~(a + b < P)
  <2>1. a + b - P \in Field /\ a + b \in Int /\ a + b = P * 1 + (a + b - P)
    BY <1>1, <1>3, FieldIs
  <2>. QED  BY <1>3, <2>1, RemainderIsUnique DEF \oplus
<1>. QED  BY <1>2, <1>3

\* The same of differences.
LEMMA DifferenceIs ==
  ASSUME NEW a \in Field, NEW b \in Field
  PROVE  /\ a \ominus b \in Field
         /\ a \ominus b = IF a < b THEN a - b + P ELSE a - b
<1>1. a \in 0 .. P - 1 /\ b \in 0 .. P - 1
  BY DEF Field
<1>2. CASE ~(a < b)
  <2>1. a - b \in Field
    BY <1>1, <1>2, FieldIs
  <2>. QED  BY <1>2, <2>1, ElementStays DEF \ominus
<1>3. CASE a < b
  <2>1. a - b + P \in Field /\ a - b \in Int /\ a - b = P * (-1) + (a - b + P)
    BY <1>1, <1>3, FieldIs
  <2>. QED  BY <1>3, <2>1, RemainderIsUnique DEF \ominus
<1>. QED  BY <1>2, <1>3

\* The same of the unary minus.
LEMMA NegativeIs ==
  ASSUME NEW a \in Field
  PROVE  /\ Negative(a) \in Field
         /\ Negative(a) = IF a = 0 THEN 0 ELSE P - a
<1>1. 0 \in Field /\ a \in 0 .. P - 1
  BY FieldIs
<1>2. Negative(a) \in Field /\ Negative(a) = IF 0 < a THEN 0 - a + P ELSE 0 - a
  BY <1>1, DifferenceIs DEF Negative
<1>. QED  BY <1>1, <1>2, FieldIs

\* A product of any numbers is an element.
LEMMA ProductIsElement ==
  ASSUME NEW a \in Int, NEW b \in Int
  PROVE  a \otimes b \in Field
<1>1. a * b \in Int
  BY SMT
<1>. QED  BY <1>1, RemainderIs DEF \otimes

\* Products are elements.
LEMMA ProductCloses ==
  ASSUME NEW a \in Field, NEW b \in Field
  PROVE  a \otimes b \in Field
<1>1. a \in Int /\ b \in Int
  BY FieldIs
<1>. QED  BY <1>1, ProductIsElement

\* The remainder of a factor may be taken before or after.
LEMMA ProductOfRemainder ==
  ASSUME NEW z \in Int, NEW b \in Int
  PROVE  (z % P) \otimes b = (z * b) % P
<1>1. PICK q \in Int : z = P * q + (z % P)
  BY RemainderIs
<1>. DEFINE r == z % P
<1>2. r \in Int
  BY RemainderIs, FieldIs DEF Field
<1>3. z = P * q + r
  BY <1>1
<1>. HIDE DEF r
<1>4. z * b = r * b + P * (q * b)
  BY <1>2, <1>3, FieldIs, SMT
<1>5. r * b \in Int /\ q * b \in Int
  BY <1>2, SMT
<1>6. (z * b) % P = (r * b) % P
  <2>1. (r * b + P * (q * b)) % P = (r * b) % P
    BY <1>5, MultiplesVanish
  <2>. QED  BY <1>4, <2>1
<1>. QED  BY <1>6 DEF r, \otimes

\* The laws of a commutative ring, one by one.
LEMMA ProductCommutes ==
  ASSUME NEW a \in Field, NEW b \in Field
  PROVE  a \otimes b = b \otimes a
<1>1. a * b = b * a
  BY FieldIs, SMT
<1>. QED  BY <1>1 DEF \otimes

\* Factors may be grouped.
LEMMA ProductAssociates ==
  ASSUME NEW a \in Field, NEW b \in Field, NEW c \in Field
  PROVE  (a \otimes b) \otimes c = a \otimes (b \otimes c)
<1>1. a \in Int /\ b \in Int /\ c \in Int /\ a * b \in Int /\ b * c \in Int
  BY FieldIs, SMT
<1>2. (a \otimes b) \otimes c = ((a * b) * c) % P
  BY <1>1, ProductOfRemainder DEF \otimes
<1>3. (b \otimes c) \otimes a = ((b * c) * a) % P
  BY <1>1, ProductOfRemainder DEF \otimes
<1>4. (a * b) * c = (b * c) * a
  BY <1>1, SMT
<1>5. a \otimes (b \otimes c) = (b \otimes c) \otimes a
  BY <1>1, ProductIsElement, ProductCommutes
<1>. QED  BY <1>2, <1>3, <1>4, <1>5

\* A product distributes over a sum.
LEMMA ProductDistributes ==
  ASSUME NEW a \in Field, NEW b \in Field, NEW c \in Field
  PROVE  (a \oplus b) \otimes c = (a \otimes c) \oplus (b \otimes c)
<1>1. a \in Int /\ b \in Int /\ c \in Int /\ a + b \in Int /\ a * c \in Int /\ b * c \in Int
  BY FieldIs, SMT
<1>2. (a \oplus b) \otimes c = ((a + b) * c) % P
  BY <1>1, ProductOfRemainder DEF \oplus
<1>3. (a + b) * c = a * c + b * c
  BY <1>1, SMT
<1>4. PICK q1 \in Int, q2 \in Int : /\ a * c = P * q1 + ((a * c) % P)
                                    /\ b * c = P * q2 + ((b * c) % P)
  BY <1>1, RemainderIs
<1>. DEFINE r1 == (a * c) % P
            r2 == (b * c) % P
            ac == a * c
            bc == b * c
<1>5. r1 \in Int /\ r2 \in Int /\ ac \in Int /\ bc \in Int
      /\ ac = P * q1 + r1 /\ bc = P * q2 + r2
  BY <1>1, <1>4, RemainderIs, FieldIs
<1>. HIDE DEF r1, r2, ac, bc
<1>6. ac + bc = (r1 + r2) + P * (q1 + q2)
  BY <1>5, FieldIs, SMT
<1>7. (ac + bc) % P = (r1 + r2) % P
  <2>1. ((r1 + r2) + P * (q1 + q2)) % P = (r1 + r2) % P
    <3>1. r1 + r2 \in Int /\ q1 + q2 \in Int
      BY <1>5
    <3>. QED  BY <3>1, MultiplesVanish
  <2>. QED  BY <1>6, <2>1
<1>. QED  BY <1>2, <1>3, <1>7 DEF r1, r2, ac, bc, \oplus, \otimes

\* The sign of a product is the sign of its factor.
LEMMA ProductWithNegative ==
  ASSUME NEW a \in Field, NEW b \in Field
  PROVE  Negative(a) \otimes b = Negative(a \otimes b)
<1>1. Negative(a) \in Field /\ a \otimes b \in Field /\ Negative(a) \otimes b \in Field
  BY NegativeIs, ProductCloses
<1>2. Negative(a) \oplus a = 0
  <2>. DEFINE n == Negative(a)
  <2>1. n \in Field /\ n = IF a = 0 THEN 0 ELSE P - a
    BY NegativeIs
  <2>. HIDE DEF n
  <2>2. n \oplus a = IF n + a < P THEN n + a ELSE n + a - P
    BY <2>1, SumIs
  <2>3. n \oplus a = 0
    BY <2>1, <2>2, FieldIs
  <2>. QED  BY <2>3 DEF n
<1>3. (Negative(a) \otimes b) \oplus (a \otimes b) = 0 \otimes b
  BY <1>1, <1>2, ProductDistributes
<1>4. 0 \otimes b = 0
  <2>1. 0 * b = 0
    BY FieldIs, SMT
  <2>2. 0 \in Field
    BY FieldIs
  <2>. QED  BY <2>1, <2>2, ElementStays DEF \otimes
<1>. DEFINE u == Negative(a) \otimes b
            v == a \otimes b
<1>5. u \oplus v = 0 /\ u \in Field /\ v \in Field
  BY <1>1, <1>3, <1>4
<1>. HIDE DEF u, v
<1>6. u = Negative(v)
  <2>1. u \oplus v = IF u + v < P THEN u + v ELSE u + v - P
    BY <1>5, SumIs
  <2>2. Negative(v) = IF v = 0 THEN 0 ELSE P - v
    BY <1>5, NegativeIs
  <2>. QED  BY <1>5, <2>1, <2>2, FieldIs
<1>. QED  BY <1>6 DEF u, v

\* One is neutral.
LEMMA ProductWithOne ==
  ASSUME NEW a \in Field
  PROVE  a \otimes 1 = a
<1>1. a * 1 = a
  BY FieldIs
<1>. QED  BY <1>1, ElementStays DEF \otimes

\* Multiplication by an element other than 0 is injective, and so it comes by 1.
LEMMA ReciprocalExists ==
  ASSUME NEW a \in Field \ {0}
  PROVE  Reciprocal[a] \in Field /\ a \otimes Reciprocal[a] = 1
<1>. DEFINE f == [b \in Field |-> a \otimes b]
<1>1. f \in [Field -> Field]
  BY ProductCloses
<1>2. ASSUME NEW b \in Field, NEW c \in Field, f[b] = f[c], c < b
      PROVE  FALSE
  <2>1. b - c \in Field \ {0}
    BY <1>2, FieldIs
  <2>2. PICK q1 \in Int, q2 \in Int : /\ a * b = P * q1 + ((a * b) % P)
                                      /\ a * c = P * q2 + ((a * c) % P)
    <3>1. a * b \in Int /\ a * c \in Int
      BY FieldIs, SMT
    <3>. QED  BY <3>1, RemainderIs
  <2>. DEFINE r == (a * b) % P
              ab == a * b
              ac == a * c
  <2>3. ab = P * q1 + r /\ ac = P * q2 + r /\ r \in Int /\ ab \in Int /\ ac \in Int
    <3>1. (a * b) % P = (a * c) % P
      BY <1>2 DEF \otimes
    <3>2. a * b \in Int /\ a * c \in Int
      BY FieldIs, SMT
    <3>. QED  BY <2>2, <3>1, <3>2, RemainderIs, FieldIs
  <2>4. a * (b - c) = ab - ac
    BY FieldIs, SMT
  <2>. HIDE DEF r, ab, ac
  <2>5. ab - ac = P * (q1 - q2) + 0
    BY <2>3, FieldIs, SMT
  <2>6. (a * (b - c)) % P = 0
    <3>1. ab - ac \in Int /\ q1 - q2 \in Int /\ 0 \in Field
      BY <2>3, FieldIs
    <3>. QED  BY <2>4, <2>5, <3>1, RemainderIsUnique
  <2>. QED  BY <2>1, <2>6, ControlAssumption
<1>3. ASSUME NEW b \in Field, NEW c \in Field, f[b] = f[c]
      PROVE  b = c
  <2>. HIDE DEF f
  <2>1. ~(b < c) /\ ~(c < b)
    BY <1>2, <1>3
  <2>. QED  BY <2>1, FieldIs
<1>4. f \in Injection(Field, Field)
  <2>. HIDE DEF f
  <2>. QED  BY <1>1, <1>3, Fun_IsInj
<1>5. IsFiniteSet(Field)
  <2>1. 0 \in Int /\ P - 1 \in Int
    BY FieldIs
  <2>. QED  BY <2>1, FS_Interval DEF Field
<1>6. f \in Surjection(Field, Field)
  <2>. HIDE DEF f
  <2>. QED  BY <1>4, <1>5, FS_Injection
<1>7. PICK b \in Field : f[b] = 1
  <2>1. 1 \in Field
    BY FieldIs
  <2>. HIDE DEF f
  <2>. QED  BY <1>6, <2>1, Fun_SurjectionProperties
<1>8. (a * b) % P = 1
  BY <1>7 DEF \otimes
<1>9. Reciprocal[a] = CHOOSE c \in Field : (a * c) % P = 1
  BY DEF Reciprocal
<1>. QED  BY <1>8, <1>9 DEF \otimes

\* Division by an element, zero included, gives an element.
LEMMA QuotientCloses ==
  ASSUME NEW a \in Field, NEW b \in Field
  PROVE  a \oslash b \in Field
<1>1. CASE b = 0
  BY <1>1, FieldIs DEF \oslash
<1>2. CASE b # 0
  <2>1. Reciprocal[b] \in Field
    BY <1>2, ReciprocalExists
  <2>. QED  BY <1>2, <2>1, ProductCloses DEF \oslash
<1>. QED  BY <1>1, <1>2

\* The operations of the field stay in it.
LEMMA FieldCloses ==
  \A a, b \in Field : /\ a \oplus b \in Field /\ a \ominus b \in Field
                      /\ a \otimes b \in Field /\ a \oslash b \in Field
                      /\ Negative(a) \in Field
BY SumIs, DifferenceIs, NegativeIs, ProductCloses, QuotientCloses

\* Division undoes multiplication.
LEMMA QuotientUndoes ==
  ASSUME NEW c \in Field \ {0}, NEW a \in Field
  PROVE  (c \otimes a) \oslash c = a
<1>1. Reciprocal[c] \in Field /\ c \otimes Reciprocal[c] = 1
  BY ReciprocalExists
<1>2. (c \otimes a) \oslash c = (c \otimes a) \otimes Reciprocal[c]
  BY DEF \oslash
<1>3. c \otimes a = a \otimes c
  BY ProductCommutes
<1>4. (a \otimes c) \otimes Reciprocal[c] = a \otimes (c \otimes Reciprocal[c])
  BY <1>1, ProductAssociates
<1>. QED  BY <1>1, <1>2, <1>3, <1>4, ProductWithOne

\* (c / a) * w, divided by c and multiplied by a, is w.
LEMMA QuotientsCancel ==
  ASSUME NEW c \in Field \ {0}, NEW a \in Field \ {0}, NEW w \in Field
  PROVE  (((c \oslash a) \otimes w) \oslash c) \otimes a = w
<1>. DEFINE ra == Reciprocal[a]
<1>1. ra \in Field /\ a \otimes ra = 1
  BY ReciprocalExists
<1>2. c \oslash a = c \otimes ra
  BY DEF \oslash
<1>. HIDE DEF ra
<1>3. (c \otimes ra) \otimes w = c \otimes (ra \otimes w)
  BY <1>1, ProductAssociates
<1>4. ra \otimes w \in Field
  BY <1>1, ProductCloses
<1>5. (c \otimes (ra \otimes w)) \oslash c = ra \otimes w
  BY <1>4, QuotientUndoes
<1>6. (ra \otimes w) \otimes a = w
  <2>1. ra \otimes w = w \otimes ra
    BY <1>1, ProductCommutes
  <2>2. (w \otimes ra) \otimes a = w \otimes (ra \otimes a)
    BY <1>1, ProductAssociates
  <2>3. ra \otimes a = 1
    BY <1>1, ProductCommutes
  <2>. QED  BY <2>1, <2>2, <2>3, ProductWithOne
<1>. QED  BY <1>2, <1>3, <1>5, <1>6

\* The sums that cancel.
LEMMA SumsCancel ==
  ASSUME NEW a \in Field, NEW b \in Field
  PROVE  /\ (a \oplus b) \ominus a = b
         /\ (a \ominus b) \oplus b = a
         /\ (a \oplus b) \oplus Negative(b) = a
         /\ (a \ominus b) \ominus a = Negative(b)
         /\ Negative(a \oplus b) \oplus b = Negative(a)
         /\ 0 \oplus a = a /\ Negative(a) \oplus a = 0
         /\ Negative(Negative(a)) = a
         /\ Negative(a \oplus b) = Negative(a) \oplus Negative(b)
         /\ a \oplus b = b \oplus a
<1>. DEFINE s == a \oplus b
            d == a \ominus b
            na == Negative(a)
            nb == Negative(b)
            ns == Negative(s)
<1>0. a \in 0 .. P - 1 /\ b \in 0 .. P - 1 /\ 0 \in Field
  BY FieldIs
<1>1. s \in Field /\ s = IF a + b < P THEN a + b ELSE a + b - P
  BY SumIs
<1>2. d \in Field /\ d = IF a < b THEN a - b + P ELSE a - b
  BY DifferenceIs
<1>3. na \in Field /\ na = IF a = 0 THEN 0 ELSE P - a
  BY NegativeIs
<1>4. nb \in Field /\ nb = IF b = 0 THEN 0 ELSE P - b
  BY NegativeIs
<1>. HIDE DEF s, d, na, nb
<1>5. ns \in Field /\ ns = IF s = 0 THEN 0 ELSE P - s
  BY <1>1, NegativeIs
<1>. HIDE DEF ns
<1>6. s \ominus a = b
  <2>1. s \ominus a = IF s < a THEN s - a + P ELSE s - a
    BY <1>1, DifferenceIs
  <2>. QED  BY <1>0, <1>1, <2>1, FieldIs
<1>7. d \oplus b = a
  <2>1. d \oplus b = IF d + b < P THEN d + b ELSE d + b - P
    BY <1>2, SumIs
  <2>. QED  BY <1>0, <1>2, <2>1, FieldIs
<1>8. s \oplus nb = a
  <2>1. s \oplus nb = IF s + nb < P THEN s + nb ELSE s + nb - P
    BY <1>1, <1>4, SumIs
  <2>. QED  BY <1>0, <1>1, <1>4, <2>1, FieldIs
<1>9. d \ominus a = nb
  <2>1. d \ominus a = IF d < a THEN d - a + P ELSE d - a
    BY <1>2, DifferenceIs
  <2>. QED  BY <1>0, <1>2, <1>4, <2>1, FieldIs
<1>10. ns \oplus b = na
  <2>1. ns \oplus b = IF ns + b < P THEN ns + b ELSE ns + b - P
    BY <1>5, SumIs
  <2>. QED  BY <1>0, <1>1, <1>3, <1>5, <2>1, FieldIs
<1>11. 0 \oplus a = a /\ na \oplus a = 0
  <2>1. 0 \oplus a = IF 0 + a < P THEN 0 + a ELSE 0 + a - P
    BY <1>0, SumIs
  <2>2. na \oplus a = IF na + a < P THEN na + a ELSE na + a - P
    BY <1>3, SumIs
  <2>. QED  BY <1>0, <1>3, <2>1, <2>2, FieldIs
<1>12. Negative(na) = a
  <2>1. Negative(na) = IF na = 0 THEN 0 ELSE P - na
    BY <1>3, NegativeIs
  <2>. QED  BY <1>0, <1>3, <2>1, FieldIs
<1>13. ns = na \oplus nb
  <2>1. na \oplus nb = IF na + nb < P THEN na + nb ELSE na + nb - P
    BY <1>3, <1>4, SumIs
  <2>. QED  BY <1>0, <1>1, <1>3, <1>4, <1>5, <2>1, FieldIs
<1>14. a \oplus b = b \oplus a
  <2>1. b \oplus a = IF b + a < P THEN b + a ELSE b + a - P
    BY SumIs
  <2>. QED  BY <1>0, <1>1, <2>1, FieldIs DEF s
<1>. QED  BY <1>6, <1>7, <1>8, <1>9, <1>10, <1>11, <1>12, <1>13, <1>14 DEF s, d, na, nb, ns

\* The last two terms of a sum may change places.
LEMMA SumsExchange ==
  ASSUME NEW a \in Field, NEW b \in Field, NEW c \in Field
  PROVE  (a \oplus b) \oplus c = (a \oplus c) \oplus b
<1>. DEFINE ab == a \oplus b
            ac == a \oplus c
<1>0. a \in 0 .. P - 1 /\ b \in 0 .. P - 1 /\ c \in 0 .. P - 1
  BY FieldIs
<1>1. ab \in Field /\ ab = IF a + b < P THEN a + b ELSE a + b - P
  BY SumIs
<1>2. ac \in Field /\ ac = IF a + c < P THEN a + c ELSE a + c - P
  BY SumIs
<1>. HIDE DEF ab, ac
<1>3. ab \oplus c = IF ab + c < P THEN ab + c ELSE ab + c - P
  BY <1>1, SumIs
<1>4. ac \oplus b = IF ac + b < P THEN ac + b ELSE ac + b - P
  BY <1>2, SumIs
<1>5. ab \oplus c = ac \oplus b
  BY <1>0, <1>1, <1>2, <1>3, <1>4, FieldIs
<1>. QED  BY <1>5 DEF ab, ac

\* An error that the wanted value takes away, the equation of second order adds again.
LEMMA SecondOrderHolds ==
  ASSUME NEW d \in Field, NEW a \in Field, NEW b \in Field
  PROVE  (((d \ominus a) \ominus b) \ominus d) \oplus b \oplus a = 0
<1>. DEFINE da == d \ominus a
            dab == da \ominus b
            left == dab \ominus d
<1>0. a \in 0 .. P - 1 /\ b \in 0 .. P - 1 /\ d \in 0 .. P - 1 /\ 0 \in Field
  BY FieldIs
<1>1. da \in Field /\ da = IF d < a THEN d - a + P ELSE d - a
  BY DifferenceIs
<1>. HIDE DEF da
<1>2. dab \in Field /\ dab = IF da < b THEN da - b + P ELSE da - b
  BY <1>1, DifferenceIs
<1>. HIDE DEF dab
<1>3. left \in Field /\ left = IF dab < d THEN dab - d + P ELSE dab - d
  BY <1>2, DifferenceIs
<1>. HIDE DEF left
<1>. DEFINE lb == left \oplus b
<1>4. lb \in Field /\ lb = IF left + b < P THEN left + b ELSE left + b - P
  BY <1>3, SumIs
<1>5. lb = Negative(a)
  <2>1. Negative(a) = IF a = 0 THEN 0 ELSE P - a
    BY NegativeIs
  <2>. HIDE DEF lb
  <2>. QED  BY <1>0, <1>1, <1>2, <1>3, <1>4, <2>1, FieldIs
<1>6. lb \oplus a = 0
  BY <1>5, SumsCancel
<1>. QED  BY <1>6 DEF lb, left, dab, da

\* The same of four errors.
LEMMA FourthOrderHolds ==
  ASSUME NEW d \in Field, NEW t1 \in Field, NEW t2 \in Field, NEW t3 \in Field, NEW t4 \in Field
  PROVE  ((d \ominus (((t1 \oplus t2) \oplus t3) \oplus t4)) \ominus d)
            \oplus t4 \oplus t3 \oplus t2 \oplus t1 = 0
<1>. DEFINE s2 == t1 \oplus t2
            s3 == s2 \oplus t3
            s4 == s3 \oplus t4
<1>1. s2 \in Field /\ s3 \in Field /\ s4 \in Field
  BY FieldCloses
<1>2. (d \ominus s4) \ominus d = Negative(s4)
  <2>. HIDE DEF s4
  <2>. QED  BY <1>1, SumsCancel
<1>3. Negative(s4) \oplus t4 = Negative(s3)
  <2>. HIDE DEF s3
  <2>. QED  BY <1>1, SumsCancel
<1>4. Negative(s3) \oplus t3 = Negative(s2)
  <2>. HIDE DEF s2
  <2>. QED  BY <1>1, SumsCancel
<1>5. Negative(s2) \oplus t2 = Negative(t1) /\ Negative(t1) \oplus t1 = 0
  BY SumsCancel
<1>6. ((d \ominus s4) \ominus d) \oplus t4 \oplus t3 \oplus t2 \oplus t1 = 0
  <2>. HIDE DEF s4, s3, s2
  <2>. QED  BY <1>2, <1>3, <1>4, <1>5
<1>. QED  BY <1>6

\* The definition of Weighted, its recursion undone.
LEMMA WeightedIs ==
  ASSUME NEW k1, NEW k2, NEW k3, NEW k4, NEW e1, NEW e2, NEW e3, NEW e4
  PROVE  Weighted(<<k1, k2, k3, k4>>, <<e1, e2, e3, e4>>) =
           (((0 \oplus (k1 \otimes e1)) \oplus (k2 \otimes e2)) \oplus (k3 \otimes e3))
             \oplus (k4 \otimes e4)
<1>. DEFINE gains == <<k1, k2, k3, k4>>
            errors == <<e1, e2, e3, e4>>
            Body(f) == [i \in 0 .. 4 |-> IF i = 0 THEN 0
                                         ELSE f[i - 1] \oplus (gains[i] \otimes errors[i])]
            sum == CHOOSE f : f = Body(f)
            s1 == 0 \oplus (k1 \otimes e1)
            s2 == s1 \oplus (k2 \otimes e2)
            s3 == s2 \oplus (k3 \otimes e3)
            s4 == s3 \oplus (k4 \otimes e4)
            h == [i \in 0 .. 4 |-> IF i = 0 THEN 0 ELSE IF i = 1 THEN s1
                                   ELSE IF i = 2 THEN s2 ELSE IF i = 3 THEN s3 ELSE s4]
<1>1. h = Body(h)
  <2>. SUFFICES ASSUME NEW i \in 0 .. 4
                PROVE  h[i] = IF i = 0 THEN 0
                              ELSE h[i - 1] \oplus (gains[i] \otimes errors[i])
    OBVIOUS
  <2>1. h[0] = 0 /\ h[1] = s1 /\ h[2] = s2 /\ h[3] = s3 /\ h[4] = s4
    OBVIOUS
  <2>2. /\ gains[1] = k1 /\ gains[2] = k2 /\ gains[3] = k3 /\ gains[4] = k4
        /\ errors[1] = e1 /\ errors[2] = e2 /\ errors[3] = e3 /\ errors[4] = e4
    OBVIOUS
  <2>3. i = 0 \/ i = 1 \/ i = 2 \/ i = 3 \/ i = 4
    OBVIOUS
  <2>. HIDE DEF h, gains, errors
  <2>. QED  BY <2>1, <2>2, <2>3
<1>2. sum = Body(sum)
  <2>. HIDE DEF Body, h
  <2>. QED  BY <1>1
<1>3. sum[0] = 0 /\ \A i \in 1 .. 4 : sum[i] = sum[i - 1] \oplus (gains[i] \otimes errors[i])
  <2>. HIDE DEF sum
  <2>. QED  BY <1>2
<1>4. Weighted(gains, errors) = sum[4]
  BY DEF Weighted
<1>. HIDE DEF sum
<1>5. sum[1] = s1
  BY <1>3
<1>6. sum[2] = s2
  BY <1>3, <1>5
<1>7. sum[3] = s3
  BY <1>3, <1>6
<1>8. sum[4] = s4
  BY <1>3, <1>7
<1>. QED  BY <1>4, <1>8

-----------------------------------------------------------------------------
(* The control law.                                                        *)

\* The five numbers of tanRh are elements.
LEMMA ReferenceCloses ==
  ASSUME NEW t \in Field
  PROVE  /\ tanRh(t).ref \in Field /\ tanRh(t).dotref \in Field /\ tanRh(t).ddotref \in Field
         /\ tanRh(t).d3dotref \in Field /\ tanRh(t).d4dotref \in Field
<1>. DEFINE phi == phiAt(t)
            phiSquared == phi \otimes phi
            phi2_1 == 1 \ominus phiSquared
            st2 == sigma \otimes sigma
            st3 == st2 \otimes sigma
            st4 == st3 \otimes sigma
            five == 5 \otimes phiSquared
            three == 3 \otimes (phiSquared \otimes phiSquared)
            four == aR \otimes (st4 \otimes (phi \otimes (three \ominus five \oplus 2)))
<1>0. {0, 1, 2, 3, 5} \subseteq Field
  BY FieldIs
<1>1. sigma \in Field /\ TRaise \in Field /\ LowVal \in Field /\ HighVal \in Field
  BY ControlAssumption
<1>2. phi \in Field
  BY <1>1, FieldCloses, ControlAssumption DEF phiAt
<1>3. aR \in Field
  BY <1>0, <1>1, FieldCloses DEF aR
<1>4. phiSquared \in Field /\ st2 \in Field
  BY <1>1, <1>2, FieldCloses
<1>5. phi2_1 \in Field /\ st3 \in Field
  BY <1>0, <1>1, <1>4, FieldCloses
<1>6. st4 \in Field
  BY <1>1, <1>5, FieldCloses
<1>7. tanRh(t).ref \in Field
  <2>1. tanRh(t).ref = (aR \otimes (1 \oplus phi)) \oplus LowVal
    BY DEF tanRh
  <2>2. 1 \oplus phi \in Field
    BY <1>0, <1>2, FieldCloses
  <2>. QED  BY <1>1, <1>3, <2>1, <2>2, FieldCloses
<1>8. tanRh(t).dotref \in Field
  <2>1. tanRh(t).dotref = aR \otimes (sigma \otimes phi2_1)
    BY DEF tanRh
  <2>. HIDE DEF phi2_1
  <2>. QED  BY <1>1, <1>3, <1>5, <2>1, FieldCloses
<1>9. tanRh(t).ddotref \in Field
  <2>1. tanRh(t).ddotref = 2 \otimes (aR \otimes (st2 \otimes (phi \otimes phi2_1)))
    BY DEF tanRh
  <2>2. phi \otimes phi2_1 \in Field
    BY <1>2, <1>5, FieldCloses
  <2>3. st2 \otimes (phi \otimes phi2_1) \in Field
    BY <1>4, <2>2, FieldCloses
  <2>4. aR \otimes (st2 \otimes (phi \otimes phi2_1)) \in Field
    BY <1>3, <2>3, FieldCloses
  <2>. HIDE DEF phi, phi2_1, st2
  <2>. QED  BY <1>0, <2>1, <2>4, FieldCloses
<1>10. tanRh(t).d3dotref \in Field
  <2>. DEFINE factor == 1 \ominus (3 \otimes phiSquared)
  <2>1. tanRh(t).d3dotref = Negative(2 \otimes (aR \otimes (st3 \otimes (phi2_1 \otimes factor))))
    BY DEF tanRh
  <2>2. factor \in Field
    BY <1>0, <1>4, FieldCloses
  <2>3. phi2_1 \otimes factor \in Field
    <3>. HIDE DEF factor, phi2_1
    <3>. QED  BY <1>5, <2>2, FieldCloses
  <2>. HIDE DEF factor, phi2_1, st3
  <2>4. aR \otimes (st3 \otimes (phi2_1 \otimes factor)) \in Field
    BY <1>3, <1>5, <2>3, FieldCloses
  <2>. QED  BY <1>0, <2>1, <2>4, FieldCloses
<1>11. tanRh(t).d4dotref \in Field
  <2>1. tanRh(t).d4dotref = 8 \otimes four
    BY DEF tanRh
  <2>2. three \in Field /\ five \in Field
    BY <1>0, <1>4, FieldCloses
  <2>3. four \in Field
    <3>. HIDE DEF three, five, st4, phi
    <3>1. three \ominus five \oplus 2 \in Field
      BY <1>0, <2>2, FieldCloses
    <3>2. phi \otimes (three \ominus five \oplus 2) \in Field
      BY <1>2, <3>1, FieldCloses
    <3>. QED  BY <1>3, <1>6, <3>2, FieldCloses
  <2>. HIDE DEF four
  <2>4. 8 \in Int /\ four \in Int
    BY <2>3, FieldIs
  <2>. QED  BY <2>1, <2>4, ProductIsElement
<1>. QED  BY <1>7, <1>8, <1>9, <1>10, <1>11

\* The thrust, what it is to be, and its two derivatives, as server_calculations has them.
LEMMA ThrustIs ==
  ASSUME NEW V3 \in Field, NEW w \in Field
  PROVE  /\ (m \otimes (g \oplus V3)) \oslash m = g \oplus V3
         /\ (g \oplus V3) \ominus g = V3
         /\ (m \otimes w) \oslash m = w
         /\ g \oplus V3 \in Field
<1>1. m \in Field \ {0} /\ g \in Field
  BY ControlAssumption
<1>2. g \oplus V3 \in Field
  BY <1>1, FieldCloses
<1>. QED  BY <1>1, <1>2, QuotientUndoes, SumsCancel

\* The second and the third derivative of x, of the thrust a.
LEMMA ForceIs ==
  ASSUME NEW a \in Field, NEW da \in Field, NEW angle \in Field, NEW rate \in Field
  PROVE  /\ (angle \otimes (m \otimes a)) \oslash m = angle \otimes a
         /\ ((rate \otimes (m \otimes a)) \oplus (angle \otimes (m \otimes da))) \oslash m
              = (rate \otimes a) \oplus (angle \otimes da)
<1>1. m \in Field \ {0}
  BY ControlAssumption
<1>2. ASSUME NEW k \in Field, NEW w \in Field
      PROVE  k \otimes (m \otimes w) = m \otimes (k \otimes w)
  <2>1. k \otimes (m \otimes w) = (k \otimes m) \otimes w
    BY <1>1, ProductAssociates
  <2>2. k \otimes m = m \otimes k
    BY <1>1, ProductCommutes
  <2>3. (m \otimes k) \otimes w = m \otimes (k \otimes w)
    BY <1>1, ProductAssociates
  <2>. QED  BY <2>1, <2>2, <2>3
<1>3. angle \otimes a \in Field /\ rate \otimes a \in Field /\ angle \otimes da \in Field
  BY FieldCloses
<1>4. (m \otimes (rate \otimes a)) \oplus (m \otimes (angle \otimes da))
        = m \otimes ((rate \otimes a) \oplus (angle \otimes da))
  <2>. DEFINE p == rate \otimes a
              q == angle \otimes da
  <2>1. p \in Field /\ q \in Field /\ p \oplus q \in Field
    BY <1>3, FieldCloses
  <2>. HIDE DEF p, q
  <2>2. (p \oplus q) \otimes m = (p \otimes m) \oplus (q \otimes m)
    BY <1>1, <2>1, ProductDistributes
  <2>3. p \otimes m = m \otimes p /\ q \otimes m = m \otimes q
        /\ (p \oplus q) \otimes m = m \otimes (p \oplus q)
    BY <1>1, <2>1, ProductCommutes
  <2>4. (m \otimes p) \oplus (m \otimes q) = m \otimes (p \oplus q)
    BY <2>2, <2>3
  <2>. QED  BY <2>4 DEF p, q
<1>5. (rate \otimes a) \oplus (angle \otimes da) \in Field
  BY <1>3, FieldCloses
<1>6. (m \otimes (angle \otimes a)) \oslash m = angle \otimes a
  BY <1>1, <1>3, QuotientUndoes
<1>7. (m \otimes ((rate \otimes a) \oplus (angle \otimes da))) \oslash m
        = (rate \otimes a) \oplus (angle \otimes da)
  BY <1>1, <1>5, QuotientUndoes
<1>8. /\ angle \otimes (m \otimes a) = m \otimes (angle \otimes a)
      /\ rate \otimes (m \otimes a) = m \otimes (rate \otimes a)
      /\ angle \otimes (m \otimes da) = m \otimes (angle \otimes da)
  BY <1>2
<1>. QED  BY <1>4, <1>6, <1>7, <1>8

\* The fourth derivative: what the torque of the angle adds makes it the wanted one.
LEMMA FourthDerivativeIs ==
  ASSUME NEW inertia \in Field \ {0}, NEW a \in Field \ {0}, NEW V \in Field,
         NEW angle \in Field, NEW rate \in Field, NEW da \in Field, NEW dda \in Field,
         NEW torque,
         torque = (inertia \oslash a) \otimes
                    (V \ominus ((2 \otimes rate) \otimes da) \ominus (angle \otimes dda))
  PROVE  (((torque \oslash inertia) \otimes a) \oplus (2 \otimes (rate \otimes da)))
           \oplus (angle \otimes dda) = V
<1>. DEFINE m1 == (2 \otimes rate) \otimes da
            m2 == angle \otimes dda
            w == V \ominus m1 \ominus m2
<1>0. torque = (inertia \oslash a) \otimes w
  OBVIOUS
<1>1. 2 \in Field /\ m1 = 2 \otimes (rate \otimes da)
  BY FieldIs, ProductAssociates
<1>2. m1 \in Field /\ m2 \in Field
  BY <1>1, FieldCloses
<1>. HIDE DEF m1, m2
<1>3. V \ominus m1 \in Field /\ w \in Field
  BY <1>2, FieldCloses
<1>4. (w \oplus m1) \oplus m2 = V
  <2>. DEFINE v1 == V \ominus m1
  <2>1. v1 \oplus m1 = V /\ v1 \in Field
    BY <1>2, <1>3, SumsCancel
  <2>. HIDE DEF v1
  <2>. DEFINE nm2 == v1 \ominus m2
  <2>2. nm2 \oplus m2 = v1 /\ nm2 \in Field
    BY <1>2, <2>1, FieldCloses, SumsCancel
  <2>3. w = nm2
    BY DEF v1
  <2>. HIDE DEF nm2
  <2>4. (nm2 \oplus m1) \oplus m2 = (nm2 \oplus m2) \oplus m1
    BY <1>2, <2>2, SumsExchange
  <2>. QED  BY <2>1, <2>2, <2>3, <2>4
<1>. HIDE DEF w
<1>5. (torque \oslash inertia) \otimes a = w
  BY <1>0, <1>3, QuotientsCancel
<1>6. (((torque \oslash inertia) \otimes a) \oplus m1) \oplus m2 = V
  BY <1>4, <1>5
<1>. QED  BY <1>1, <1>6 DEF w, m1, m2

\* What the signs of y and phi come to: they are the other way round than those of x and theta.
LEMMA WithNegatives ==
  ASSUME NEW a \in Field, NEW b \in Field, NEW c \in Field
  PROVE  /\ a \ominus Negative(b) = a \oplus b
         /\ Negative(b) \otimes c = Negative(b \otimes c)
         /\ Negative(Negative(b) \oslash c) = b \oslash c
         /\ a \otimes Negative(b) = Negative(a \otimes b)
<1>1. a \ominus Negative(b) = a \oplus b
  <2>. DEFINE n == Negative(b)
  <2>1. n \in Field /\ n = IF b = 0 THEN 0 ELSE P - b
    BY NegativeIs
  <2>. HIDE DEF n
  <2>2. a \ominus n = IF a < n THEN a - n + P ELSE a - n
    BY <2>1, DifferenceIs
  <2>3. a \oplus b = IF a + b < P THEN a + b ELSE a + b - P
    BY SumIs
  <2>4. a \in 0 .. P - 1 /\ b \in 0 .. P - 1
    BY FieldIs
  <2>5. a \ominus n = a \oplus b
    BY <2>1, <2>2, <2>3, <2>4, FieldIs
  <2>. QED  BY <2>5 DEF n
<1>2. Negative(b) \otimes c = Negative(b \otimes c)
  BY ProductWithNegative
<1>3. Negative(Negative(b) \oslash c) = b \oslash c
  <2>1. CASE c = 0
    <3>1. Negative(0) = 0
      BY FieldIs, NegativeIs
    <3>. QED  BY <2>1, <3>1 DEF \oslash
  <2>2. CASE c # 0
    <3>1. Reciprocal[c] \in Field
      BY <2>2, ReciprocalExists
    <3>2. Negative(b) \oslash c = Negative(b) \otimes Reciprocal[c]
      BY <2>2 DEF \oslash
    <3>3. Negative(b) \otimes Reciprocal[c] = Negative(b \otimes Reciprocal[c])
      BY <3>1, ProductWithNegative
    <3>4. b \otimes Reciprocal[c] \in Field
      BY <3>1, ProductCloses
    <3>5. Negative(Negative(b \otimes Reciprocal[c])) = b \otimes Reciprocal[c]
      BY <3>4, SumsCancel
    <3>6. b \oslash c = b \otimes Reciprocal[c]
      BY <2>2 DEF \oslash
    <3>. QED  BY <3>2, <3>3, <3>5, <3>6
  <2>. QED  BY <2>1, <2>2
<1>4. a \otimes Negative(b) = Negative(a \otimes b)
  <2>1. Negative(b) \in Field
    BY NegativeIs
  <2>2. a \otimes Negative(b) = Negative(b) \otimes a /\ a \otimes b = b \otimes a
    BY <2>1, ProductCommutes
  <2>. QED  BY <2>2, ProductWithNegative
<1>. QED  BY <1>1, <1>2, <1>3, <1>4

\* The equation of fourth order, when the fourth derivative is the wanted one.
LEMMA WantedIsFourthOrder ==
  ASSUME NEW r, r.ref \in Field, r.dotref \in Field, r.ddotref \in Field,
         r.d3dotref \in Field, r.d4dotref \in Field,
         NEW pos \in Field, NEW vel \in Field, NEW angle \in Field, NEW rate \in Field,
         NEW accel, NEW a \in Field, NEW da \in Field, NEW dda \in Field,
         ((accel \otimes a) \oplus (2 \otimes (rate \otimes da))) \oplus (angle \otimes dda)
           = Wanted(r, pos, vel, angle \otimes a, (rate \otimes a) \oplus (angle \otimes da))
  PROVE  FourthOrder(r, pos, vel, angle, rate, accel, a, da, dda)
<1>. DEFINE acc == angle \otimes a
            jerk == (rate \otimes a) \oplus (angle \otimes da)
            t1 == L0 \otimes (pos \ominus r.ref)
            t2 == L1 \otimes (vel \ominus r.dotref)
            t3 == L2 \otimes (acc \ominus r.ddotref)
            t4 == L3 \otimes (jerk \ominus r.d3dotref)
            fourth == ((accel \otimes a) \oplus (2 \otimes (rate \otimes da))) \oplus (angle \otimes dda)
<1>1. L0 \in Field /\ L1 \in Field /\ L2 \in Field /\ L3 \in Field
  BY ControlAssumption
<1>2. acc \in Field /\ jerk \in Field
  <2>1. rate \otimes a \in Field /\ angle \otimes da \in Field
    BY FieldCloses
  <2>. QED  BY <2>1, FieldCloses
<1>3. t1 \in Field /\ t2 \in Field /\ t3 \in Field /\ t4 \in Field
  <2>. HIDE DEF acc, jerk
  <2>1. /\ pos \ominus r.ref \in Field /\ vel \ominus r.dotref \in Field
        /\ acc \ominus r.ddotref \in Field /\ jerk \ominus r.d3dotref \in Field
    BY <1>2, FieldCloses
  <2>. QED  BY <1>1, <2>1, FieldCloses
<1>4. Wanted(r, pos, vel, acc, jerk)
        = r.d4dotref \ominus ((((0 \oplus t1) \oplus t2) \oplus t3) \oplus t4)
  <2>. HIDE DEF acc, jerk
  <2>. QED  BY WeightedIs DEF Wanted
<1>5. 0 \oplus t1 = t1
  <2>. HIDE DEF t1
  <2>. QED  BY <1>3, SumsCancel
<1>6. fourth = r.d4dotref \ominus (((t1 \oplus t2) \oplus t3) \oplus t4)
  <2>1. fourth = Wanted(r, pos, vel, acc, jerk)
    OBVIOUS
  <2>. HIDE DEF fourth, acc, jerk, t1, t2, t3, t4
  <2>. QED  BY <1>4, <1>5, <2>1
<1>7. (fourth \ominus r.d4dotref) \oplus t4 \oplus t3 \oplus t2 \oplus t1 = 0
  <2>. DEFINE d == r.d4dotref
              Vanishes(e, s1, s2, s3, s4) ==
                ((e \ominus (((s1 \oplus s2) \oplus s3) \oplus s4)) \ominus e)
                  \oplus s4 \oplus s3 \oplus s2 \oplus s1 = 0
  <2>1. d \in Field /\ fourth = d \ominus (((t1 \oplus t2) \oplus t3) \oplus t4)
    BY <1>6
  <2>2. ASSUME NEW e \in Field, NEW s1 \in Field, NEW s2 \in Field, NEW s3 \in Field,
               NEW s4 \in Field
        PROVE  Vanishes(e, s1, s2, s3, s4)
    BY ONLY <2>2, FourthOrderHolds, SMTT(30)
  <2>. HIDE DEF fourth, t1, t2, t3, t4, d
  <2>3. Vanishes(d, t1, t2, t3, t4)
    <3>. HIDE DEF Vanishes
    <3>. QED  BY <1>3, <2>1, <2>2
  <2>4. (fourth \ominus d) \oplus t4 \oplus t3 \oplus t2 \oplus t1 = 0
    BY <2>1, <2>3
  <2>. QED  BY <2>4 DEF d
<1>. QED  BY <1>7 DEF FourthOrder

\* ClosedLoop of what the server was told, v, and of the four numbers it answered: the
\* errors of z and psy, and away from free fall those of x and y, follow the gains.
ErrorsFollowGains(v, u1, u2, u3, u4) ==
    LET r == tanRh(v.t)
        acc == Accelerations(v.theta, v.phi, [U1 |-> u1, U2 |-> u2, U3 |-> u3, U4 |-> u4])
        thrust == u1 \oslash m
        dotThrust == r.d3dotref \ominus (L0z \otimes (v.dotZ \ominus r.dotref))
                                \ominus (L1z \otimes (acc.ddotZ \ominus r.ddotref))
        ddotThrust == r.d4dotref \ominus (L0z \otimes (acc.ddotZ \ominus r.ddotref))
                                 \ominus (L1z \otimes (dotThrust \ominus r.d3dotref))
    IN  /\ SecondOrder(r, L0z, L1z, v.z, v.dotZ, acc.ddotZ)
        /\ SecondOrder(r, L0psy, L1psy, v.psy, v.dotPsy, acc.ddotPsy)
        /\ thrust # 0 =>
             /\ FourthOrder(r, v.x, v.dotX, v.theta, v.dotTheta, acc.ddotTheta,
                            thrust, dotThrust, ddotThrust)
             /\ FourthOrder(r, v.y, v.dotY, Negative(v.phi), Negative(v.dotPhi),
                            Negative(acc.ddotPhi), thrust, dotThrust, ddotThrust)

\* Told any thirteen elements, server_calculations answers four, and the accelerations that
\* derivs makes of them give the linear error equations, for every prime modulus that is
\* large enough, every quadrocopter, every gain and every tanh: U1 .. U4 are solved for the
\* accelerations the errors need, and derivs's formulas turn them back into just these.
THEOREM ControlLinearises ==
  ASSUME NEW v, v.x \in Field, v.dotX \in Field, v.y \in Field, v.dotY \in Field,
         v.z \in Field, v.dotZ \in Field, v.theta \in Field, v.dotTheta \in Field,
         v.phi \in Field, v.dotPhi \in Field, v.psy \in Field, v.dotPsy \in Field, v.t \in Field
  PROVE  /\ \A i \in 0 .. 3 : server_calculations(v)[i] \in Field
         /\ ErrorsFollowGains(v, server_calculations(v)[0], server_calculations(v)[1],
                 server_calculations(v)[2], server_calculations(v)[3])
<1>. DEFINE r == tanRh(v.t)
            ez == v.z \ominus r.ref
            dotEz == v.dotZ \ominus r.dotref
            V3 == r.ddotref \ominus (L0z \otimes ez) \ominus (L1z \otimes dotEz)
            U1 == m \otimes (g \oplus V3)
            ddotEz == (U1 \oslash m) \ominus g \ominus r.ddotref
            dotV3 == r.d3dotref \ominus (L0z \otimes dotEz) \ominus (L1z \otimes ddotEz)
            dotU1 == m \otimes dotV3
            ddotV3 == r.d4dotref \ominus (L0z \otimes ddotEz)
                        \ominus (L1z \otimes ((dotU1 \oslash m) \ominus r.d3dotref))
            ddotX == (v.theta \otimes U1) \oslash m
            d3dotX == ((v.dotTheta \otimes U1) \oplus (v.theta \otimes dotU1)) \oslash m
            V1 == Wanted(r, v.x, v.dotX, ddotX, d3dotX)
            WX == V1 \ominus ((2 \otimes v.dotTheta) \otimes dotV3) \ominus (v.theta \otimes ddotV3)
            U2 == (Ix \oslash (g \oplus V3)) \otimes WX
            ddotY == Negative((v.phi \otimes U1) \oslash m)
            d3dotY == Negative(((v.dotPhi \otimes U1) \oplus (v.phi \otimes dotU1)) \oslash m)
            V2 == Wanted(r, v.y, v.dotY, ddotY, d3dotY)
            WY == V2 \oplus ((2 \otimes v.dotPhi) \otimes dotV3) \oplus (v.phi \otimes ddotV3)
            QY == (Iy \oslash (g \oplus V3)) \otimes WY
            U3 == Negative(QY)
            V4 == r.ddotref \ominus (L0psy \otimes (v.psy \ominus r.ref))
                            \ominus (L1psy \otimes (v.dotPsy \ominus r.dotref))
            U4 == Iz \otimes V4
            u == server_calculations(v)
            a == g \oplus V3
<1>0. /\ m \in Field \ {0} /\ Ix \in Field \ {0} /\ Iy \in Field \ {0} /\ Iz \in Field \ {0}
      /\ g \in Field
      /\ L0z \in Field /\ L1z \in Field /\ L0psy \in Field /\ L1psy \in Field
      /\ L0 \in Field /\ L1 \in Field /\ L2 \in Field /\ L3 \in Field
      /\ 2 \in Field
  BY ControlAssumption, FieldIs
<1>1. u[0] = U1 /\ u[1] = U2 /\ u[2] = U3 /\ u[3] = U4
  <2>1. u = [i \in 0 .. 3 |-> <<U1, U2, U3, U4>>[i + 1]]
    BY DEF server_calculations, U1Of, TwiceTheRate
  <2>. HIDE DEF u, U1, U2, U3, U4
  <2>. QED  BY <2>1
<1>2. /\ r.ref \in Field /\ r.dotref \in Field /\ r.ddotref \in Field
      /\ r.d3dotref \in Field /\ r.d4dotref \in Field
  BY ReferenceCloses
<1>. HIDE DEF r, u
<1>3. ez \in Field /\ dotEz \in Field
  BY <1>2, FieldCloses
<1>4. V3 \in Field
  <2>. HIDE DEF ez, dotEz
  <2>1. L0z \otimes ez \in Field /\ L1z \otimes dotEz \in Field
    BY <1>0, <1>3, FieldCloses
  <2>. QED  BY <1>2, <2>1, FieldCloses
<1>5. U1 \oslash m = a /\ a \ominus g = V3 /\ a \in Field
  <2>. HIDE DEF V3
  <2>. QED  BY <1>4, ThrustIs
<1>6. ddotEz = V3 \ominus r.ddotref /\ ddotEz \in Field
  <2>. HIDE DEF V3, U1, a
  <2>. QED  BY <1>2, <1>4, <1>5, FieldCloses
<1>7. dotV3 \in Field
  <2>. HIDE DEF ddotEz, dotEz
  <2>1. L0z \otimes dotEz \in Field /\ L1z \otimes ddotEz \in Field
    BY <1>0, <1>3, <1>6, FieldCloses
  <2>. QED  BY <1>2, <2>1, FieldCloses
<1>8. dotU1 \oslash m = dotV3
  <2>. HIDE DEF dotV3
  <2>. QED  BY <1>4, <1>7, ThrustIs
<1>9. /\ ddotV3 = r.d4dotref \ominus (L0z \otimes ddotEz)
                    \ominus (L1z \otimes (dotV3 \ominus r.d3dotref))
      /\ ddotV3 \in Field
  <2>. HIDE DEF ddotEz, dotV3, dotU1
  <2>1. ddotV3 = r.d4dotref \ominus (L0z \otimes ddotEz)
                   \ominus (L1z \otimes (dotV3 \ominus r.d3dotref))
    BY <1>8
  <2>2. L0z \otimes ddotEz \in Field /\ dotV3 \ominus r.d3dotref \in Field
    BY <1>0, <1>2, <1>6, <1>7, FieldCloses
  <2>3. L1z \otimes (dotV3 \ominus r.d3dotref) \in Field
    BY <1>0, <2>2, FieldCloses
  <2>. QED  BY <1>2, <2>1, <2>2, <2>3, FieldCloses
<1>10. U1 = m \otimes a /\ dotU1 = m \otimes dotV3
  OBVIOUS
<1>. HIDE DEF V3, U1, a, ddotEz, dotV3, dotU1, ddotV3
<1>11. ASSUME NEW pos \in Field, NEW vel \in Field, NEW acc \in Field, NEW jerk \in Field
       PROVE  Wanted(r, pos, vel, acc, jerk) \in Field
  <2>1. /\ pos \ominus r.ref \in Field /\ vel \ominus r.dotref \in Field
        /\ acc \ominus r.ddotref \in Field /\ jerk \ominus r.d3dotref \in Field
    BY <1>2, FieldCloses
  <2>. DEFINE e1 == L0 \otimes (pos \ominus r.ref)
              e2 == L1 \otimes (vel \ominus r.dotref)
              e3 == L2 \otimes (acc \ominus r.ddotref)
              e4 == L3 \otimes (jerk \ominus r.d3dotref)
  <2>2. e1 \in Field /\ e2 \in Field /\ e3 \in Field /\ e4 \in Field /\ 0 \in Field
    BY <1>0, <2>1, FieldCloses, FieldIs
  <2>3. Wanted(r, pos, vel, acc, jerk)
          = r.d4dotref \ominus ((((0 \oplus e1) \oplus e2) \oplus e3) \oplus e4)
    BY WeightedIs DEF Wanted
  <2>. HIDE DEF e1, e2, e3, e4
  <2>4. (0 \oplus e1) \oplus e2 \in Field
    BY <2>2, FieldCloses
  <2>. DEFINE sum == (((0 \oplus e1) \oplus e2) \oplus e3) \oplus e4
  <2>5. sum \in Field
    BY <2>2, <2>4, FieldCloses
  <2>6. Wanted(r, pos, vel, acc, jerk) = r.d4dotref \ominus sum
    BY <2>3
  <2>. HIDE DEF sum
  <2>7. r.d4dotref \ominus sum \in Field
    BY <1>2, <2>5, DifferenceIs
  <2>. QED  BY <2>6, <2>7
<1>12. /\ ddotX = v.theta \otimes a
       /\ d3dotX = (v.dotTheta \otimes a) \oplus (v.theta \otimes dotV3)
  BY <1>5, <1>7, <1>10, ForceIs
<1>13. ddotX \in Field /\ d3dotX \in Field
  <2>1. v.theta \otimes a \in Field /\ v.dotTheta \otimes a \in Field /\ v.theta \otimes dotV3 \in Field
    BY <1>5, <1>7, FieldCloses
  <2>. HIDE DEF ddotX, d3dotX
  <2>. QED  BY <1>12, <2>1, FieldCloses
<1>. HIDE DEF ddotX, d3dotX
<1>14. V1 \in Field
  BY <1>11, <1>13
<1>15. /\ ddotY = Negative(v.phi) \otimes a
       /\ d3dotY = (Negative(v.dotPhi) \otimes a) \oplus (Negative(v.phi) \otimes dotV3)
  <2>. DEFINE p == v.dotPhi \otimes a
              q == v.phi \otimes dotV3
  <2>1. /\ ddotY = Negative(v.phi \otimes a)
        /\ d3dotY = Negative(p \oplus q)
    BY <1>5, <1>7, <1>10, ForceIs
  <2>2. p \in Field /\ q \in Field
    BY <1>5, <1>7, FieldCloses
  <2>3. /\ Negative(v.phi) \otimes a = Negative(v.phi \otimes a)
        /\ Negative(v.dotPhi) \otimes a = Negative(p)
        /\ Negative(v.phi) \otimes dotV3 = Negative(q)
    BY <1>5, <1>7, ProductWithNegative
  <2>. HIDE DEF p, q, ddotY, d3dotY
  <2>4. Negative(p \oplus q) = Negative(p) \oplus Negative(q)
    BY <2>2, SumsCancel
  <2>. QED  BY <2>1, <2>3, <2>4
<1>16. Negative(v.phi) \in Field /\ Negative(v.dotPhi) \in Field
  BY FieldCloses
<1>17. ddotY \in Field /\ d3dotY \in Field
  <2>. DEFINE nphi == Negative(v.phi)
              ndotPhi == Negative(v.dotPhi)
  <2>. HIDE DEF nphi, ndotPhi
  <2>1. nphi \in Field /\ ndotPhi \in Field
    BY <1>16 DEF nphi, ndotPhi
  <2>2. nphi \otimes a \in Field /\ ndotPhi \otimes a \in Field /\ nphi \otimes dotV3 \in Field
    BY <1>5, <1>7, <2>1, FieldCloses
  <2>. HIDE DEF ddotY, d3dotY
  <2>. QED  BY <1>15, <2>2, FieldCloses DEF nphi, ndotPhi
<1>. HIDE DEF ddotY, d3dotY
<1>18. V2 \in Field
  BY <1>11, <1>17
<1>. HIDE DEF V1, V2
<1>19. /\ (2 \otimes v.dotTheta) \otimes dotV3 \in Field /\ v.theta \otimes ddotV3 \in Field
       /\ (2 \otimes v.dotPhi) \otimes dotV3 \in Field /\ v.phi \otimes ddotV3 \in Field
  <2>1. 2 \otimes v.dotTheta \in Field /\ 2 \otimes v.dotPhi \in Field
    BY <1>0, FieldCloses
  <2>. QED  BY <1>7, <1>9, <2>1, FieldCloses
<1>20. WX \in Field /\ WY \in Field
  <2>. DEFINE b1 == (2 \otimes v.dotTheta) \otimes dotV3
              b2 == v.theta \otimes ddotV3
              b3 == (2 \otimes v.dotPhi) \otimes dotV3
              b4 == v.phi \otimes ddotV3
  <2>1. b1 \in Field /\ b2 \in Field /\ b3 \in Field /\ b4 \in Field
    BY <1>19
  <2>. HIDE DEF b1, b2, b3, b4
  <2>2. V1 \ominus b1 \ominus b2 \in Field /\ V2 \oplus b3 \oplus b4 \in Field
    BY <1>14, <1>18, <2>1, FieldCloses
  <2>. QED  BY <2>2 DEF b1, b2, b3, b4
<1>21. U2 \in Field /\ QY \in Field /\ U3 \in Field
  <2>. HIDE DEF WX, WY
  <2>1. Ix \oslash a \in Field /\ Iy \oslash a \in Field
    BY <1>0, <1>5, FieldCloses
  <2>2. U2 = (Ix \oslash a) \otimes WX /\ QY = (Iy \oslash a) \otimes WY
    BY DEF a
  <2>3. U2 \in Field /\ QY \in Field
    <3>. HIDE DEF U2, QY
    <3>. QED  BY <1>20, <2>1, <2>2, FieldCloses
  <2>. HIDE DEF U2, QY
  <2>. QED  BY <2>3, FieldCloses
<1>22. /\ V4 \in Field
       /\ L0psy \otimes (v.psy \ominus r.ref) \in Field
       /\ L1psy \otimes (v.dotPsy \ominus r.dotref) \in Field
  <2>. DEFINE e1 == v.psy \ominus r.ref
              e2 == v.dotPsy \ominus r.dotref
  <2>1. e1 \in Field /\ e2 \in Field
    BY <1>2, FieldCloses
  <2>. HIDE DEF e1, e2
  <2>. DEFINE f1 == L0psy \otimes e1
              f2 == L1psy \otimes e2
  <2>2. f1 \in Field /\ f2 \in Field
    BY <1>0, <2>1, FieldCloses
  <2>. HIDE DEF f1, f2
  <2>3. r.ddotref \ominus f1 \ominus f2 \in Field
    BY <1>2, <2>2, FieldCloses
  <2>. QED  BY <2>2, <2>3 DEF f1, f2, e1, e2
<1>23. U1 \in Field /\ U4 \in Field
  <2>1. U4 = Iz \otimes V4
    OBVIOUS
  <2>. HIDE DEF V4, U4
  <2>2. m \otimes a \in Field /\ Iz \otimes V4 \in Field
    BY <1>0, <1>5, <1>22, ProductCloses
  <2>. QED  BY <1>10, <2>1, <2>2
<1>24. ASSUME NEW i \in 0 .. 3  PROVE u[i] \in Field
  <2>. HIDE DEF U2, U3, U4
  <2>1. i = 0 \/ i = 1 \/ i = 2 \/ i = 3
    OBVIOUS
  <2>. QED  BY <1>1, <1>21, <1>23, <2>1
<1>. DEFINE acc == Accelerations(v.theta, v.phi, [U1 |-> U1, U2 |-> U2, U3 |-> U3, U4 |-> U4])
<1>25. /\ acc.ddotZ = (U1 \oslash m) \ominus g /\ acc.ddotPsy = U4 \oslash Iz
       /\ acc.ddotTheta = U2 \oslash Ix /\ acc.ddotPhi = U3 \oslash Iy
  <2>. HIDE DEF U2, U3, U4
  <2>. QED  BY DEF Accelerations
<1>26. acc.ddotZ = V3 /\ acc.ddotPsy = V4
  <2>. HIDE DEF acc, V4
  <2>. QED  BY <1>0, <1>5, <1>22, <1>25, QuotientUndoes
<1>27. SecondOrder(r, L0z, L1z, v.z, v.dotZ, V3)
  <2>. DEFINE f1 == L0z \otimes ez
              f2 == L1z \otimes dotEz
  <2>1. f1 \in Field /\ f2 \in Field
    <3>. HIDE DEF ez, dotEz
    <3>. QED  BY <1>0, <1>3, FieldCloses
  <2>2. V3 = (r.ddotref \ominus f1) \ominus f2
    BY DEF V3
  <2>3. (V3 \ominus r.ddotref) \oplus f2 \oplus f1 = 0
    <3>. HIDE DEF f1, f2
    <3>. QED  BY <1>2, <2>1, <2>2, SecondOrderHolds
  <2>. QED  BY <2>3 DEF SecondOrder
<1>28. SecondOrder(r, L0psy, L1psy, v.psy, v.dotPsy, V4)
  <2>. DEFINE f1 == L0psy \otimes (v.psy \ominus r.ref)
              f2 == L1psy \otimes (v.dotPsy \ominus r.dotref)
  <2>1. f1 \in Field /\ f2 \in Field
    BY <1>22
  <2>2. V4 = (r.ddotref \ominus f1) \ominus f2
    OBVIOUS
  <2>3. (V4 \ominus r.ddotref) \oplus f2 \oplus f1 = 0
    <3>. HIDE DEF f1, f2, V4
    <3>. QED  BY <1>2, <2>1, <2>2, SecondOrderHolds
  <2>. QED  BY <2>3 DEF SecondOrder
<1>. DEFINE Torque(inertia, V, angle, rate) ==
              (inertia \oslash a) \otimes
                (V \ominus ((2 \otimes rate) \otimes dotV3) \ominus (angle \otimes ddotV3))
            Fourth(accel, angle, rate) ==
              ((accel \otimes a) \oplus (2 \otimes (rate \otimes dotV3)))
                \oplus (angle \otimes ddotV3)
<1>Ready. ASSUME a # 0,
                 NEW inertia \in Field \ {0}, NEW V \in Field,
                 NEW angle \in Field, NEW rate \in Field
          PROVE  Fourth(Torque(inertia, V, angle, rate) \oslash inertia, angle, rate) = V
  <2>. DEFINE torque == Torque(inertia, V, angle, rate)
  <2>1. a \in Field \ {0}
    BY <1>5, <1>Ready
  <2>2. torque = (inertia \oslash a) \otimes
                   (V \ominus ((2 \otimes rate) \otimes dotV3) \ominus (angle \otimes ddotV3))
    OBVIOUS
  <2>. HIDE DEF torque
  <2>3. Fourth(torque \oslash inertia, angle, rate) = V
    BY <1>7, <1>9, <2>1, <2>2, FourthDerivativeIs
  <2>. QED  BY <2>3 DEF torque
<1>29. ASSUME a # 0
       PROVE  FourthOrder(r, v.x, v.dotX, v.theta, v.dotTheta, acc.ddotTheta, a, dotV3, ddotV3)
  <2>1. a \in Field \ {0}
    BY <1>5, <1>29
  <2>2. ((((U2 \oslash Ix) \otimes a) \oplus (2 \otimes (v.dotTheta \otimes dotV3)))
           \oplus (v.theta \otimes ddotV3)) = V1
    <3>1. U2 = Torque(Ix, V1, v.theta, v.dotTheta)
      BY DEF a
    <3>2. Fourth(Torque(Ix, V1, v.theta, v.dotTheta) \oslash Ix, v.theta, v.dotTheta) = V1
      <4>. HIDE DEF Fourth, Torque
      <4>. QED  BY <1>0, <1>14, <1>29, <1>Ready
    <3>3. Fourth(U2 \oslash Ix, v.theta, v.dotTheta) = V1
      <4>. HIDE DEF Fourth, Torque, U2
      <4>. QED  BY <3>1, <3>2
    <3>. HIDE DEF U2
    <3>. QED  BY <3>3
  <2>3. V1 = Wanted(r, v.x, v.dotX, v.theta \otimes a,
                    (v.dotTheta \otimes a) \oplus (v.theta \otimes dotV3))
    BY <1>12 DEF V1
  <2>4. acc.ddotTheta = U2 \oslash Ix
    BY <1>25
  <2>. HIDE DEF acc, U2
  <2>. QED  BY <1>2, <1>5, <1>7, <1>9, <2>2, <2>3, <2>4, WantedIsFourthOrder
<1>30. ASSUME a # 0
       PROVE  FourthOrder(r, v.y, v.dotY, Negative(v.phi), Negative(v.dotPhi),
                          Negative(acc.ddotPhi), a, dotV3, ddotV3)
  <2>. DEFINE nphi == Negative(v.phi)
              ndotPhi == Negative(v.dotPhi)
  <2>1. a \in Field \ {0} /\ nphi \in Field /\ ndotPhi \in Field
    BY <1>5, <1>16, <1>30
  <2>2. WY = V2 \ominus ((2 \otimes ndotPhi) \otimes dotV3) \ominus (nphi \otimes ddotV3)
    <3>. DEFINE b1 == (2 \otimes v.dotPhi) \otimes dotV3
                b2 == v.phi \otimes ddotV3
    <3>1. nphi \otimes ddotV3 = Negative(b2)
      BY <1>9, WithNegatives
    <3>2. (2 \otimes ndotPhi) \otimes dotV3 = Negative(b1)
      <4>1. 2 \otimes ndotPhi = Negative(2 \otimes v.dotPhi) /\ 2 \otimes v.dotPhi \in Field
        BY <1>0, WithNegatives, FieldCloses
      <4>. QED  BY <1>7, <4>1, WithNegatives
    <3>3. b1 \in Field /\ b2 \in Field
      BY <1>19
    <3>. HIDE DEF b1, b2, nphi, ndotPhi
    <3>4. V2 \ominus Negative(b1) = V2 \oplus b1 /\ V2 \oplus b1 \in Field
      BY <1>18, <3>3, WithNegatives, FieldCloses
    <3>. DEFINE c == V2 \oplus b1
    <3>5. c \ominus Negative(b2) = c \oplus b2
      <4>. HIDE DEF c
      <4>1. c \in Field
        BY <3>4 DEF c
      <4>. QED  BY <3>3, <4>1, WithNegatives
    <3>6. WY = c \oplus b2
      BY DEF b1, b2
    <3>. QED  BY <3>1, <3>2, <3>4, <3>5, <3>6
  <2>3. QY = (Iy \oslash a) \otimes WY
    BY DEF a
  <2>4. Negative(acc.ddotPhi) = QY \oslash Iy
    <3>. HIDE DEF QY
    <3>1. acc.ddotPhi = Negative(QY) \oslash Iy
      BY <1>25
    <3>. HIDE DEF acc
    <3>. QED  BY <1>0, <1>21, <3>1, WithNegatives
  <2>. HIDE DEF acc, QY, nphi, ndotPhi, WY
  <2>5. ((((QY \oslash Iy) \otimes a) \oplus (2 \otimes (ndotPhi \otimes dotV3)))
           \oplus (nphi \otimes ddotV3)) = V2
    <3>1. QY = Torque(Iy, V2, nphi, ndotPhi)
      BY <2>2, <2>3
    <3>2. Fourth(Torque(Iy, V2, nphi, ndotPhi) \oslash Iy, nphi, ndotPhi) = V2
      <4>. HIDE DEF Fourth, Torque
      <4>. QED  BY <1>0, <1>18, <1>30, <1>Ready, <2>1
    <3>3. Fourth(QY \oslash Iy, nphi, ndotPhi) = V2
      <4>. HIDE DEF Fourth, Torque
      <4>. QED  BY <3>1, <3>2
    <3>. QED  BY <3>3
  <2>6. V2 = Wanted(r, v.y, v.dotY, nphi \otimes a, (ndotPhi \otimes a) \oplus (nphi \otimes dotV3))
    BY <1>15 DEF V2, nphi, ndotPhi
  <2>7. FourthOrder(r, v.y, v.dotY, nphi, ndotPhi, QY \oslash Iy, a, dotV3, ddotV3)
    BY <1>2, <1>5, <1>7, <1>9, <2>1, <2>5, <2>6, WantedIsFourthOrder
  <2>. QED  BY <2>4, <2>7 DEF nphi, ndotPhi
<1>31. ErrorsFollowGains(v, U1, U2, U3, U4)
  <2>1. /\ U1 \oslash m = a
        /\ dotV3 = r.d3dotref \ominus (L0z \otimes (v.dotZ \ominus r.dotref))
                              \ominus (L1z \otimes (acc.ddotZ \ominus r.ddotref))
        /\ ddotV3 = r.d4dotref \ominus (L0z \otimes (acc.ddotZ \ominus r.ddotref))
                               \ominus (L1z \otimes (dotV3 \ominus r.d3dotref))
    <3>. HIDE DEF acc
    <3>1. dotV3 = r.d3dotref \ominus (L0z \otimes dotEz) \ominus (L1z \otimes ddotEz)
      BY DEF dotV3
    <3>. QED  BY <1>5, <1>6, <1>9, <1>26, <3>1
  <2>2. /\ SecondOrder(r, L0z, L1z, v.z, v.dotZ, acc.ddotZ)
        /\ SecondOrder(r, L0psy, L1psy, v.psy, v.dotPsy, acc.ddotPsy)
    <3>. HIDE DEF acc, V4
    <3>. QED  BY <1>26, <1>27, <1>28
  <2>3. acc = Accelerations(v.theta, v.phi, [U1 |-> U1, U2 |-> U2, U3 |-> U3, U4 |-> U4])
    OBVIOUS
  <2>. HIDE DEF acc, U2, U3, U4
  <2>. QED  BY <1>29, <1>30, <2>1, <2>2, <2>3 DEF ErrorsFollowGains, r
<1>. HIDE DEF U2, U3, U4
<1>. QED  BY <1>1, <1>24, <1>31 DEF u

-----------------------------------------------------------------------------
(* What the packets carry: names and indices.                              *)

LEMMA FieldsAndParams ==
  /\ NVAR = 12 /\ Indices = 1 .. 12
  /\ \A i \in 1 .. 12 : StateFields[i] # Time /\ StateFields[i] \in CalcFields
  /\ \A i, j \in 1 .. 12 : StateFields[i] = StateFields[j] => i = j
  /\ \A i, j \in 1 .. 13 : Params[i] = Params[j] => i = j
  /\ DOMAIN Meaning = {Params[i] : i \in 1 .. 13}
  /\ \A i \in 1 .. 12 : Meaning[Params[i]] = StateFields[i]
  /\ Meaning[Params[13]] = Time
  /\ Time \in CalcFields
<1>1. NVAR = 12 /\ Indices = 1 .. 12
  BY DEF NVAR, Indices
<1>2. \A i \in 1 .. 12 : StateFields[i] # Time
  BY DEF StateFields, Time
<1>3. \A i, j \in 1 .. 12 : StateFields[i] = StateFields[j] => i = j
  BY DEF StateFields
<1>4. \A i, j \in 1 .. 13 : Params[i] = Params[j] => i = j
  BY DEF Params
<1>5. DOMAIN Meaning = {Params[i] : i \in 1 .. 13}
  <2>1. DOMAIN Meaning = {"x", "dotX", "y", "dotY", "z", "dotZ", "theta", "dotTheta",
                          "phi", "dotPhi", "psy", "dotPsy", "t"}
    BY DEF Meaning
  <2>2. \A i \in 1 .. 13 : Params[i] \in DOMAIN Meaning
    BY <2>1 DEF Params
  <2>3. /\ Params[1] = "x" /\ Params[2] = "dotX" /\ Params[3] = "y" /\ Params[4] = "dotY"
        /\ Params[5] = "z" /\ Params[6] = "dotZ" /\ Params[7] = "theta"
        /\ Params[8] = "dotTheta" /\ Params[9] = "phi" /\ Params[10] = "dotPhi"
        /\ Params[11] = "psy" /\ Params[12] = "dotPsy" /\ Params[13] = "t"
    BY DEF Params
  <2>4. \A p \in DOMAIN Meaning : \E i \in 1 .. 13 : Params[i] = p
    BY <2>1, <2>3
  <2>. QED  BY <2>2, <2>4
<1>6. \A i \in 1 .. 12 : Meaning[Params[i]] = StateFields[i]
  BY DEF Meaning, Params, StateFields
<1>7. Meaning[Params[13]] = Time
  BY DEF Meaning, Params, Time
<1>. QED  BY <1>1, <1>2, <1>3, <1>4, <1>5, <1>6, <1>7 DEF CalcFields

\* Both forms of a payload have the floats in the order of the server's parameters.
LEMMA CalcDataGivesFields ==
  ASSUME NEW y, NEW time, NEW i \in 1 .. 12
  PROVE  /\ CalcData(y, time)[StateFields[i]] = y[i]
         /\ CalcData(y, time)[Time] = time
<1>1. IndexOf(StateFields[i]) = i
  BY FieldsAndParams DEF IndexOf
<1>. QED  BY <1>1, FieldsAndParams DEF CalcData

\* Which variable of server_calculations each float of a payload becomes.
LEMMA ParamsByIndex ==
  ASSUME NEW floats, NEW i \in 1 .. 13
  PROVE  server_calculations_params(floats)[Params[i]] = floats[i - 1]
<1>1. (CHOOSE j \in 1 .. 13 : Params[j] = Params[i]) = i
  BY FieldsAndParams
<1>. QED  BY <1>1 DEF server_calculations_params

LEMMA SocketsAndLengths ==
  /\ FIRST \in Sockets /\ SECOND \in Sockets /\ CLIENT_IN \in Sockets
  /\ FIRST # SECOND /\ FIRST # CLIENT_IN /\ SECOND # CLIENT_IN
  /\ Halves = {FIRST, SECOND} /\ Sockets = {FIRST, SECOND, CLIENT_IN}
  /\ Lengths[FIRST] = 6 /\ Lengths[SECOND] = 7 /\ Lengths[CLIENT_IN] = 4
  /\ Floats(FIRST) = first_batch /\ Floats(SECOND) = second_batch
  /\ Floats(CLIENT_IN) = results
BY DEF FIRST, SECOND, CLIENT_IN, Halves, Sockets, Lengths, Floats

-----------------------------------------------------------------------------
(* The inductive invariant of the exchange.                                *)

\* Each half of a meant payload is a buffer of words.
LEMMA HalvesAreWords ==
  ASSUME TypeOK, PayloadIsMeant, NEW s \in Halves
  PROVE  Floats(s) \in [0 .. Lengths[s] - 1 -> Words]
<1>1. \A i \in 0 .. 12 : payload[i] \in Words
  <2>. SUFFICES ASSUME NEW i \in 0 .. 12  PROVE payload[i] \in Words
    OBVIOUS
  <2>1. i + 1 \in 1 .. 13 /\ (i + 1) - 1 = i /\ (i + 1 \in 1 .. 12 \/ i + 1 = 13)
    OBVIOUS
  <2>2. Meaning[Params[i + 1]] \in CalcFields
    BY <2>1, FieldsAndParams
  <2>3. payload[i] = calc_data[Meaning[Params[i + 1]]]
    BY <2>1, FieldsAndParams DEF PayloadIsMeant
  <2>. QED  BY <2>2, <2>3 DEF TypeOK
<1>2. first_batch \in [0 .. 5 -> Words]
  BY <1>1 DEF first_batch
<1>3. second_batch \in [0 .. 6 -> Words]
  BY <1>1 DEF second_batch
<1>4. 6 - 1 = 5 /\ 7 - 1 = 6
  OBVIOUS
<1>5. CASE s = FIRST
  BY <1>2, <1>4, <1>5, SocketsAndLengths
<1>6. CASE s = SECOND
  BY <1>3, <1>4, <1>6, SocketsAndLengths
<1>. QED  BY <1>5, <1>6, SocketsAndLengths

\* A word holds the length of every packet, and every element of the field.
LEMMA WordHoldsLengths ==
  /\ BitValue(WordBits) \in Nat
  /\ 4 * 4 < BitValue(WordBits) /\ 4 * 6 < BitValue(WordBits) /\ 4 * 7 < BitValue(WordBits)
  /\ \A e \in Field : WordOf(e) \in Words /\ NumberOf(WordOf(e)) = e
<1>0. WordBits \in Nat
  BY CodecAssumption DEF WordBits
<1>1. BitValue(WordBits) \in Nat
  BY <1>0, PowerIsNumber DEF BitValue
<1>2. 4 * 7 < BitValue(WordBits) /\ P <= BitValue(WordBits)
  BY PayloadAssumption
<1>3. \A e \in Field : e \in 0 .. BitValue(WordBits) - 1
  BY <1>1, <1>2, FieldIs
<1>. QED  BY <1>1, <1>2, <1>3, NumberRoundTrip

\* A datagram that was sent is read as the packet it was made of, and as the floats in it.
LEMMA SentIsUnderstood ==
  ASSUME NEW s \in Sockets, Floats(s) \in [0 .. Lengths[s] - 1 -> Words],
         NEW old \in [0 .. MAXBUF - 1 -> Bytes]
  PROVE  LET ca == recvfrom(old, Sent(s))
             pack == bytes_to_pack(ca)
         IN  /\ KnownType(ca)
             /\ get_floats(pack) = Floats(s)
             /\ get_floats_count(pack) = Lengths[s]
             /\ ca \in [0 .. MAXBUF - 1 -> Bytes]
             /\ DOMAIN Sent(s) = 0 .. 8 + 4 * Lengths[s] - 1
             /\ DOMAIN Sent(s) \subseteq 0 .. MAXBUF - 1
<1>. DEFINE len == Lengths[s]
            floats == Floats(s)
            pack == gen_packet_from_floats(floats, len)
            ca == recvfrom(old, Sent(s))
<1>1. /\ len \in Nat /\ 8 + 4 * len <= MAXBUF
      /\ MAXBUF \in Nat
      /\ 4 * len \in {4 * 4, 4 * 6, 4 * 7}
  BY PayloadAssumption, SocketsAndLengths
<1>2. Sent(s) = pack_to_bytes(pack)
  BY DEF Sent
<1>3. /\ pack.type = PACK_OF_FLOATS
      /\ pack.length = len * 4
      /\ pack.buf = Flatten(floats, len)
  BY DEF gen_packet_from_floats, fill_packet, FloatsType
<1>4. pack.length \div 4 = len
  BY <1>1, <1>3
<1>5. KnownType(ca) /\ bytes_to_pack(ca) = pack
  <2>1. 4 * len < BitValue(WordBits)
    BY <1>1, PayloadAssumption, WordHoldsLengths
  <2>2. floats \in [0 .. len - 1 -> Words] /\ DOMAIN old = 0 .. MAXBUF - 1
    OBVIOUS
  <2>. HIDE DEF floats, len
  <2>. QED  BY <1>1, <1>2, <2>1, <2>2, PacketRoundTrip
<1>6. get_floats(pack) = floats
  <2>. HIDE DEF floats, len
  <2>1. floats \in [0 .. len - 1 -> Words]
    BY DEF floats, len
  <2>. QED  BY <1>1, <2>1, FloatsRoundTrip
<1>. HIDE DEF pack
<1>7. get_floats_count(pack) = len
  BY <1>3, <1>4 DEF get_floats_count, FloatsCount
<1>8. DOMAIN Sent(s) = 0 .. 8 + 4 * len - 1
  BY <1>1, <1>2, <1>3 DEF pack_to_bytes, get_pack_bytes_size
<1>9. \A k \in DOMAIN Sent(s) : Sent(s)[k] \in Bytes
  <2>1. \A w, i : i \in 0 .. 3 => uint_to_bytes_arr(w)[i] \in Bytes
    BY DEF uint_to_bytes_arr, Bytes, Mask
  <2>. SUFFICES ASSUME NEW k \in 0 .. 8 + 4 * len - 1  PROVE Sent(s)[k] \in Bytes
    BY <1>8
  <2>2. CASE k < 4
    <3>1. Sent(s)[k] = uint_to_bytes_arr(WordOf(pack.type))[k]
      BY <1>1, <1>2, <1>3, <2>2 DEF pack_to_bytes, get_pack_bytes_size
    <3>. QED  BY <1>1, <2>1, <2>2, <3>1
  <2>3. CASE 4 <= k /\ k < 8
    <3>1. Sent(s)[k] = uint_to_bytes_arr(WordOf(pack.length))[k - 4]
      BY <1>1, <1>2, <1>3, <2>3 DEF pack_to_bytes, get_pack_bytes_size
    <3>. QED  BY <1>1, <2>1, <2>3, <3>1
  <2>4. CASE 8 <= k
    <3>1. Sent(s)[k] = pack.buf[k - 8]
      BY <1>1, <1>2, <1>3, <2>4 DEF pack_to_bytes, get_pack_bytes_size
    <3>2. k - 8 \in 0 .. 4 * len - 1 /\ (k - 8) % 4 \in 0 .. 3
      BY <1>1, <2>4
    <3>3. pack.buf[k - 8] = uint_to_bytes_arr(floats[(k - 8) \div 4])[(k - 8) % 4]
      BY <1>3, <3>2 DEF Flatten
    <3>. QED  BY <2>1, <3>1, <3>2, <3>3
  <2>. QED  BY <1>1, <2>2, <2>3, <2>4
<1>10. ca \in [0 .. MAXBUF - 1 -> Bytes]
  BY <1>9 DEF recvfrom
<1>11. DOMAIN Sent(s) \subseteq 0 .. MAXBUF - 1
  BY <1>1, <1>8
<1>. QED  BY <1>5, <1>6, <1>7, <1>8, <1>10, <1>11

\* What a socket carries is told apart from nothing.
LEMMA NothingIsNothing ==
  ASSUME NEW s \in Sockets
  PROVE  Sent(s) # Empty /\ Stored(s) # Fresh
<1>1. Lengths[s] \in Nat \ {0}
  BY SocketsAndLengths
<1>2. 0 \in DOMAIN Sent(s)
  <2>1. get_pack_bytes_size(gen_packet_from_floats(Floats(s), Lengths[s])) = 8 + Lengths[s] * 4
    BY <1>1 DEF get_pack_bytes_size, gen_packet_from_floats, fill_packet
  <2>. QED  BY <1>1, <2>1 DEF Sent, pack_to_bytes
<1>3. DOMAIN Empty = {}
  BY DEF Empty
<1>4. Stored(s).len # Fresh.len
  BY <1>1 DEF Stored, Fresh
<1>. QED  BY <1>2, <1>3, <1>4

\* The floats of a socket change with the payload and the results only.
LEMMA FloatsStay ==
  ASSUME NEW s \in Sockets,
         s \in Halves => payload' = payload, s = CLIENT_IN => results' = results
  PROVE  Floats(s)' = Floats(s) /\ Sent(s)' = Sent(s) /\ Stored(s)' = Stored(s)
<1>1. Floats(s)' = Floats(s)
  <2>1. CASE s = CLIENT_IN
    BY <2>1, SocketsAndLengths DEF Floats
  <2>2. CASE s \in Halves
    BY <2>2, SocketsAndLengths DEF Floats, first_batch, second_batch
  <2>. QED  BY <2>1, <2>2, SocketsAndLengths
<1>. QED  BY <1>1 DEF Sent, Stored

\* The answer changes with what the client means only.
LEMMA AnswerStays ==
  ASSUME calc_data' = calc_data
  PROVE  Answer' = Answer
BY DEF Answer, Meant, Meaning, Time

LEMMA PayloadInitHolds == Init => IInv
<1>. SUFFICES ASSUME Init  PROVE IInv
  OBVIOUS
<1>1. TypeOK
  <2>1. {} \in Words /\ {} \in Bytes
    BY DEF Words, Bytes
  <2>2. DOMAIN Fresh.batch = 0 .. Fresh.len - 1 /\ Fresh.len = 0
    BY DEF Fresh, Empty
  <2>3. MaxExchanges \in Nat
    BY PayloadAssumption
  <2>4. calc_data \in [CalcFields -> Words]
    BY <2>1 DEF Init
  <2>5. ASSUME NEW s \in Sockets
        PROVE  /\ stock[s].len \in {0, Lengths[s]}
               /\ DOMAIN stock[s].batch = 0 .. stock[s].len - 1
               /\ buf[s] \in [0 .. MAXBUF - 1 -> Bytes]
    <3>1. stock[s] = Fresh /\ buf[s] = [k \in 0 .. MAXBUF - 1 |-> {}]
      BY DEF Init
    <3>. QED  BY <2>1, <2>2, <3>1
  <2>. QED  BY <2>3, <2>4, <2>5 DEF Init, TypeOK
<1>2. ServerReadsWhatClientMeant
  BY DEF Init, ServerReadsWhatClientMeant
<1>3. ExchangeIsWhole
  BY DEF Init, ExchangeIsWhole, Quiet, Halves, Sockets
<1>4. AnswerIsOfThisExchange
  <2>1. 0 \in Field /\ NumberOf(WordOf(0)) = 0
    BY FieldIs, WordHoldsLengths
  <2>2. WordOf(0) = {}
    <3>. SUFFICES ASSUME NEW b \in 0 .. WordBits - 1  PROVE (0 \div BitValue(b)) % 2 # 1
      BY DEF WordOf
    <3>. DEFINE d == 2 ^ b
    <3>1. d \in Nat \ {0}
      BY CodecAssumption, PowerIsNumber, PowersGrow DEF WordBits
    <3>. HIDE DEF d
    <3>2. 0 \div d = 0
      BY <3>1, SMT
    <3>3. (0 \div d) % 2 # 1
      BY <3>2
    <3>. QED  BY <3>3 DEF d, BitValue
  <2>3. \A f \in CalcFields : calc_data[f] = {}
    BY DEF Init
  <2>4. \A f \in CalcFields : NumberOf(calc_data[f]) \in Field
    BY <2>1, <2>2, <2>3
  <2>5. at = "derivs" /\ exchanges = 0
    BY DEF Init
  <2>. QED  BY <2>4, <2>5 DEF AnswerIsOfThisExchange
<1>. QED  BY <1>1, <1>2, <1>3, <1>4 DEF IInv

\* The thirteen floats mean the same in both of derivs's ways to call get_u.
LEMMA GetPayloadKeeps ==
  ASSUME IInv, GetPayload
  PROVE  IInv'
<1>0. TypeOK /\ ExchangeIsWhole /\ at = "derivs"
  BY DEF IInv, GetPayload
<1>1. PICK pattern \in Patterns :
        LET yt == [i \in Indices |-> WordOf(pattern[i])]
            time == WordOf(pattern[NVAR + 1])
        IN  /\ calc_data' = CalcData(yt, time)
            /\ \/ payload' = get_payload_from_calc_data(calc_data')
               \/ payload' = normalize_vector(yt, NVAR, time)
  BY DEF GetPayload
<1>. DEFINE yt == [i \in Indices |-> WordOf(pattern[i])]
            time == WordOf(pattern[NVAR + 1])
<1>2. (\A i \in 1 .. 12 : yt[i] \in Words) /\ time \in Words
  BY FieldsAndParams DEF WordOf, Words
<1>3. calc_data' = CalcData(yt, time)
  BY <1>1
<1>4. \/ payload' = get_payload_from_calc_data(calc_data')
      \/ payload' = normalize_vector(yt, NVAR, time)
  BY <1>1
<1>. HIDE DEF yt, time
<1>5. /\ \A i \in 1 .. 12 : calc_data'[StateFields[i]] = yt[i]
      /\ calc_data'[Time] = time
  <2>1. \A i \in 1 .. 12 : /\ CalcData(yt, time)[StateFields[i]] = yt[i]
                           /\ CalcData(yt, time)[Time] = time
    BY CalcDataGivesFields
  <2>2. 1 \in 1 .. 12
    OBVIOUS
  <2>. QED  BY <1>3, <2>1, <2>2
<1>6. calc_data' \in [CalcFields -> Words]
  <2>1. DOMAIN calc_data' = CalcFields /\ calc_data' = [f \in CalcFields |-> calc_data'[f]]
    BY <1>3 DEF CalcData
  <2>2. \A f \in CalcFields : f = Time \/ \E i \in 1 .. 12 : f = StateFields[i]
    BY FieldsAndParams DEF CalcFields
  <2>. QED  BY <1>2, <1>5, <2>1, <2>2
<1>7. /\ DOMAIN payload' = 0 .. 12
      /\ \A i \in 0 .. 11 : payload'[i] = yt[i + 1]
      /\ payload'[12] = time
  <2>1. CASE payload' = get_payload_from_calc_data(calc_data')
    BY <1>5, <2>1, FieldsAndParams DEF get_payload_from_calc_data
  <2>2. CASE payload' = normalize_vector(yt, NVAR, time)
    BY <2>2, FieldsAndParams DEF normalize_vector
  <2>. QED  BY <1>4, <2>1, <2>2
<1>8. PayloadIsMeant'
  <2>1. ASSUME NEW i \in 1 .. 13
        PROVE  payload'[i - 1] = calc_data'[Meaning[Params[i]]]
    <3>1. CASE i = 13
      BY <1>5, <1>7, <3>1, FieldsAndParams
    <3>2. CASE i \in 1 .. 12
      <4>1. i - 1 \in 0 .. 11 /\ (i - 1) + 1 = i
        BY <3>2
      <4>. QED  BY <1>5, <1>7, <3>2, <4>1, FieldsAndParams
    <3>. QED  BY <3>1, <3>2
  <2>. QED  BY <1>7, <2>1, FieldsAndParams DEF PayloadIsMeant
<1>9. /\ exchanges' \in 0 .. MaxExchanges /\ at' = "send"
      /\ datagram' = datagram /\ buf' = buf /\ stock' = stock
      /\ results' = results
  BY <1>0, PayloadAssumption DEF GetPayload, TypeOK
<1>10. TypeOK'
  BY <1>0, <1>6, <1>9 DEF TypeOK
<1>11. ServerReadsWhatClientMeant'
  BY <1>9 DEF ServerReadsWhatClientMeant
<1>12. ExchangeIsWhole'
  BY <1>0, <1>8, <1>9 DEF ExchangeIsWhole, Quiet
<1>13. AnswerIsOfThisExchange'
  <2>1. ASSUME NEW i \in 1 .. 13  PROVE NumberOf(WordOf(pattern[i])) \in Field
    <3>1. pattern[i] \in Field
      BY PayloadAssumption
    <3>. QED  BY <3>1, WordHoldsLengths
  <2>2. \A i \in 1 .. 12 : NumberOf(yt[i]) \in Field
    BY <2>1, FieldsAndParams DEF yt
  <2>3. NumberOf(time) \in Field
    BY <2>1, FieldsAndParams DEF time
  <2>4. \A f \in CalcFields : f = Time \/ \E i \in 1 .. 12 : f = StateFields[i]
    BY FieldsAndParams DEF CalcFields
  <2>5. \A f \in CalcFields : NumberOf(calc_data'[f]) \in Field
    BY <1>5, <2>2, <2>3, <2>4
  <2>. QED  BY <1>9, <2>5 DEF AnswerIsOfThisExchange
<1>. QED  BY <1>10, <1>11, <1>12, <1>13 DEF IInv

LEMMA SendHalvesKeeps ==
  ASSUME IInv, SendHalves
  PROVE  IInv'
<1>0. TypeOK /\ ExchangeIsWhole /\ at = "send"
  BY DEF IInv, SendHalves
<1>1. /\ at' = "listen"
      /\ datagram' = [datagram EXCEPT
           ![FIRST] = pack_to_bytes(gen_packet_from_floats(first_batch, 6)),
           ![SECOND] = pack_to_bytes(gen_packet_from_floats(second_batch, 7))]
      /\ calc_data' = calc_data /\ payload' = payload /\ buf' = buf /\ stock' = stock
      /\ params' = params /\ results' = results /\ exchanges' = exchanges
  BY DEF SendHalves
<1>2. ASSUME NEW s \in Sockets
      PROVE  Floats(s)' = Floats(s) /\ Sent(s)' = Sent(s) /\ Stored(s)' = Stored(s)
  BY <1>1, FloatsStay
<1>3. /\ datagram'[FIRST] = Sent(FIRST) /\ datagram'[SECOND] = Sent(SECOND)
      /\ datagram'[CLIENT_IN] = datagram[CLIENT_IN]
      /\ DOMAIN datagram' = Sockets
  BY <1>0, <1>1, SocketsAndLengths DEF ExchangeIsWhole, Sent
<1>4. \A s \in Halves : Passing(s)'
  BY <1>0, <1>1, <1>2, <1>3, SocketsAndLengths DEF ExchangeIsWhole, Passing, Quiet
<1>5. Quiet(CLIENT_IN)'
  BY <1>0, <1>1, <1>3 DEF ExchangeIsWhole, Quiet
<1>6. PayloadIsMeant'
  BY <1>0, <1>1 DEF ExchangeIsWhole, PayloadIsMeant
<1>7. ExchangeIsWhole'
  BY <1>0, <1>1, <1>3, <1>4, <1>5, <1>6 DEF ExchangeIsWhole
<1>8. TypeOK'
  BY <1>0, <1>1 DEF TypeOK
<1>9. ServerReadsWhatClientMeant'
  BY <1>1 DEF ServerReadsWhatClientMeant
<1>10. AnswerIsOfThisExchange'
  BY <1>1 DEF IInv, AnswerIsOfThisExchange
<1>. QED  BY <1>7, <1>8, <1>9, <1>10 DEF IInv

\* Whatever is on its way is what this exchange sent.
LEMMA OnItsWay ==
  ASSUME IInv, NEW s \in Sockets, datagram[s] # Empty
  PROVE  /\ IF s \in Halves THEN at = "listen" ELSE at = "get_u"
         /\ datagram[s] = Sent(s) /\ stock[s] = Fresh
         /\ Floats(s) \in [0 .. Lengths[s] - 1 -> Words]
<1>1. /\ IF s \in Halves THEN at = "listen" ELSE at = "get_u"
      /\ Passing(s)
  BY SocketsAndLengths DEF IInv, ExchangeIsWhole, Quiet
<1>2. datagram[s] = Sent(s) /\ stock[s] = Fresh
  BY <1>1 DEF Passing
<1>3. CASE s \in Halves
  BY <1>1, <1>2, <1>3, HalvesAreWords DEF IInv, ExchangeIsWhole
<1>4. CASE s = CLIENT_IN
  BY <1>1, <1>2, <1>4, SocketsAndLengths DEF IInv, ExchangeIsWhole
<1>. QED  BY <1>1, <1>2, <1>3, <1>4, SocketsAndLengths

\* A listener stores the floats that were sent, whatever its buffer held before.
LEMMA ListenKeeps ==
  ASSUME IInv, NEW s \in Sockets, Listen(s), UNCHANGED at
  PROVE  IInv'
<1>0. TypeOK /\ ExchangeIsWhole
  BY DEF IInv
<1>1. /\ IF s \in Halves THEN at = "listen" ELSE at = "get_u"
      /\ datagram[s] = Sent(s) /\ stock[s] = Fresh
      /\ Floats(s) \in [0 .. Lengths[s] - 1 -> Words]
  BY OnItsWay DEF Listen
<1>2. /\ datagram' = [datagram EXCEPT ![s] = Empty]
      /\ buf' = [buf EXCEPT ![s] = recvfrom(buf[s], Sent(s))]
      /\ stock' = [stock EXCEPT ![s] = [batch |-> get_floats(bytes_to_pack(buf'[s])),
                                        len |-> get_floats_count(bytes_to_pack(buf'[s]))]]
      /\ calc_data' = calc_data /\ payload' = payload /\ params' = params
      /\ results' = results /\ exchanges' = exchanges /\ at' = at
  BY <1>1 DEF Listen, Received
<1>3. buf[s] \in [0 .. MAXBUF - 1 -> Bytes]
  BY <1>0 DEF TypeOK
<1>4. buf'[s] = recvfrom(buf[s], Sent(s))
  BY <1>0, <1>2 DEF ExchangeIsWhole
<1>5. /\ get_floats(bytes_to_pack(buf'[s])) = Floats(s)
      /\ get_floats_count(bytes_to_pack(buf'[s])) = Lengths[s]
      /\ buf'[s] \in [0 .. MAXBUF - 1 -> Bytes]
  BY <1>1, <1>3, <1>4, SentIsUnderstood
<1>6. stock' = [stock EXCEPT ![s] = Stored(s)]
  BY <1>2, <1>5 DEF Stored
<1>7. /\ datagram'[s] = Empty /\ stock'[s] = Stored(s)
      /\ \A o \in Sockets \ {s} : /\ datagram'[o] = datagram[o] /\ stock'[o] = stock[o]
                                  /\ buf'[o] = buf[o]
      /\ DOMAIN datagram' = Sockets /\ DOMAIN buf' = Sockets /\ DOMAIN stock' = Sockets
  BY <1>0, <1>2, <1>6 DEF ExchangeIsWhole
<1>8. ASSUME NEW o \in Sockets
      PROVE  Floats(o)' = Floats(o) /\ Sent(o)' = Sent(o) /\ Stored(o)' = Stored(o)
  BY <1>2, FloatsStay
<1>9. Passing(s)'
  BY <1>7, <1>8 DEF Passing
<1>10. ASSUME NEW o \in Sockets \ {s}
       PROVE  (Passing(o) => Passing(o)') /\ (Quiet(o) => Quiet(o)')
  BY <1>7, <1>8 DEF Passing, Quiet
<1>11. \A o \in Halves : IF at' = "listen" THEN Passing(o)' ELSE Quiet(o)'
  BY <1>0, <1>1, <1>2, <1>9, <1>10, SocketsAndLengths DEF ExchangeIsWhole
<1>12. IF at' = "get_u" THEN Passing(CLIENT_IN)' ELSE Quiet(CLIENT_IN)'
  BY <1>0, <1>1, <1>2, <1>9, <1>10, SocketsAndLengths DEF ExchangeIsWhole
<1>13. at' \in {"send", "listen"} => PayloadIsMeant'
  BY <1>0, <1>2 DEF ExchangeIsWhole, PayloadIsMeant
<1>14. ExchangeIsWhole'
  BY <1>0, <1>2, <1>7, <1>11, <1>12, <1>13 DEF ExchangeIsWhole
<1>15. TypeOK'
  <2>1. Stored(s).len = Lengths[s] /\ DOMAIN Stored(s).batch = 0 .. Stored(s).len - 1
    BY <1>1 DEF Stored
  <2>. QED  BY <1>0, <1>2, <1>5, <1>7, <2>1 DEF TypeOK
<1>16. ServerReadsWhatClientMeant'
  BY <1>2 DEF IInv, ServerReadsWhatClientMeant
<1>17. AnswerIsOfThisExchange'
  <2>1. at \in {"listen", "get_u"} /\ at' = at /\ results' = results /\ calc_data' = calc_data
    BY <1>1, <1>2
  <2>2. Answer' = Answer
    BY <2>1, AnswerStays
  <2>. QED  BY <2>1, <2>2 DEF IInv, AnswerIsOfThisExchange
<1>. QED  BY <1>14, <1>15, <1>16, <1>17 DEF IInv

\* calculate_res joins the halves to the payload, and reads it by its indices.
LEMMA CalculateResKeeps ==
  ASSUME IInv, CalculateRes
  PROVE  IInv'
<1>0. TypeOK /\ ExchangeIsWhole /\ at = "listen"
  BY DEF IInv, CalculateRes
<1>1. /\ \A l \in Halves : stock[l] # Fresh
      /\ at' = "answer"
      /\ params' = server_calculations_params(received_data)
      /\ stock' = [s \in Sockets |-> IF s \in Halves THEN Fresh ELSE stock[s]]
      /\ calc_data' = calc_data /\ payload' = payload /\ datagram' = datagram
      /\ buf' = buf /\ exchanges' = exchanges
  BY DEF CalculateRes
<1>2. results' \in [0 .. 3 -> Words]
  <2>. DEFINE u == server_calculations(Numbers(params'))
  <2>1. results' = [i \in 0 .. 3 |-> WordOf(u[i])]
    BY DEF CalculateRes
  <2>. HIDE DEF u
  <2>2. \A i \in 0 .. 3 : WordOf(u[i]) \in Words
    BY DEF WordOf, Words
  <2>. QED  BY <2>1, <2>2
<1>3. \A s \in Halves : datagram[s] = Empty /\ stock[s] = Stored(s)
  BY <1>0, <1>1 DEF ExchangeIsWhole, Passing
<1>4. \A i \in 0 .. 12 : received_data[i] = payload[i]
  <2>1. /\ stock[ReceivedOrder[1]] = [batch |-> first_batch, len |-> 6]
        /\ stock[ReceivedOrder[2]] = [batch |-> second_batch, len |-> 7]
    BY <1>3, SocketsAndLengths DEF ReceivedOrder, Stored
  <2>2. received_data = [i \in 0 .. 12 |-> IF i < 6 THEN first_batch[i]
                                                   ELSE second_batch[i - 6]]
    BY <2>1 DEF received_data
  <2>. SUFFICES ASSUME NEW i \in 0 .. 12  PROVE received_data[i] = payload[i]
    OBVIOUS
  <2>3. CASE i < 6
    BY <2>2, <2>3 DEF first_batch
  <2>4. CASE 6 <= i
    <3>1. i - 6 \in 0 .. 6 /\ 6 + (i - 6) = i
      BY <2>4
    <3>. QED  BY <2>2, <2>4, <3>1 DEF second_batch
  <2>. QED  BY <2>3, <2>4
<1>5. ServerReadsWhatClientMeant'
  <2>1. PayloadIsMeant
    BY <1>0 DEF ExchangeIsWhole
  <2>2. ASSUME NEW i \in 1 .. 13
        PROVE  params'[Params[i]] = calc_data'[Meaning[Params[i]]]
    <3>1. i - 1 \in 0 .. 12
      OBVIOUS
    <3>2. params'[Params[i]] = payload[i - 1]
      BY <1>1, <1>4, <3>1, ParamsByIndex
    <3>. QED  BY <1>1, <2>1, <3>2, FieldsAndParams DEF PayloadIsMeant
  <2>3. \A p \in DOMAIN Meaning : params'[p] = calc_data'[Meaning[p]]
    <3>. SUFFICES ASSUME NEW p \in DOMAIN Meaning  PROVE params'[p] = calc_data'[Meaning[p]]
      OBVIOUS
    <3>1. PICK i \in 1 .. 13 : Params[i] = p
      BY FieldsAndParams
    <3>. QED  BY <2>2, <3>1
  <2>4. Meaning' = Meaning
    BY DEF Meaning, Time
  <2>. QED  BY <2>3, <2>4 DEF ServerReadsWhatClientMeant
<1>6. (\A s \in Halves : Quiet(s)') /\ Quiet(CLIENT_IN)'
  BY <1>0, <1>1, <1>3, SocketsAndLengths DEF ExchangeIsWhole, Quiet
<1>7. ExchangeIsWhole'
  BY <1>0, <1>1, <1>2, <1>6 DEF ExchangeIsWhole
<1>8. TypeOK'
  <2>1. Fresh.len = 0 /\ DOMAIN Fresh.batch = 0 .. 0 - 1
    BY DEF Fresh, Empty
  <2>2. ASSUME NEW s \in Sockets
        PROVE  /\ stock'[s].len \in {0, Lengths[s]}
               /\ DOMAIN stock'[s].batch = 0 .. stock'[s].len - 1
    <3>1. stock'[s] = Fresh \/ stock'[s] = stock[s]
      BY <1>1
    <3>. QED  BY <1>0, <2>1, <3>1 DEF TypeOK
  <2>3. \A s \in Sockets : buf'[s] \in [0 .. MAXBUF - 1 -> Bytes]
    BY <1>0, <1>1 DEF TypeOK
  <2>. QED  BY <1>0, <1>1, <2>2, <2>3 DEF TypeOK
<1>9. AnswerIsOfThisExchange'
  <2>1. Numbers(params') = Meant
    <3>1. DOMAIN params' = DOMAIN Meaning
      BY <1>1, FieldsAndParams DEF server_calculations_params
    <3>2. \A p \in DOMAIN Meaning : params'[p] = calc_data[Meaning[p]]
      <4>1. Meaning' = Meaning
        BY DEF Meaning, Time
      <4>. QED  BY <1>1, <1>5, <4>1 DEF ServerReadsWhatClientMeant
    <3>. QED  BY <3>1, <3>2 DEF Numbers, Meant
  <2>2. results' = Answer
    <3>1. results' = LET u == server_calculations(Numbers(params'))
                     IN  [i \in 0 .. 3 |-> WordOf(u[i])]
      BY DEF CalculateRes
    <3>. QED  BY <2>1, <3>1 DEF Answer
  <2>3. Answer' = Answer
    BY <1>1, AnswerStays
  <2>. QED  BY <1>1, <2>2, <2>3 DEF IInv, AnswerIsOfThisExchange
<1>. QED  BY <1>5, <1>7, <1>8, <1>9 DEF IInv

LEMMA SendCalcsKeeps ==
  ASSUME IInv, SendCalcs
  PROVE  IInv'
<1>0. TypeOK /\ ExchangeIsWhole /\ at = "answer"
  BY DEF IInv, SendCalcs
<1>1. /\ at' = "get_u"
      /\ datagram' = [datagram EXCEPT ![CLIENT_IN] =
                        pack_to_bytes(gen_packet_from_floats(results, 4))]
      /\ calc_data' = calc_data /\ payload' = payload /\ buf' = buf /\ stock' = stock
      /\ results' = results /\ exchanges' = exchanges
  BY DEF SendCalcs, SERVER_TO_CLIENT_PARAMS_COUNT
<1>2. Sent(CLIENT_IN)' = Sent(CLIENT_IN)
  BY <1>1, FloatsStay, SocketsAndLengths
<1>3. /\ datagram'[CLIENT_IN] = Sent(CLIENT_IN)
      /\ datagram'[FIRST] = datagram[FIRST] /\ datagram'[SECOND] = datagram[SECOND]
      /\ DOMAIN datagram' = Sockets
  BY <1>0, <1>1, SocketsAndLengths DEF ExchangeIsWhole, Sent
<1>4. Passing(CLIENT_IN)'
  BY <1>0, <1>1, <1>2, <1>3 DEF ExchangeIsWhole, Quiet, Passing
<1>5. \A s \in Halves : Quiet(s)'
  BY <1>0, <1>1, <1>3, SocketsAndLengths DEF ExchangeIsWhole, Quiet
<1>6. ExchangeIsWhole'
  BY <1>0, <1>1, <1>3, <1>4, <1>5 DEF ExchangeIsWhole
<1>7. TypeOK'
  BY <1>0, <1>1 DEF TypeOK
<1>8. ServerReadsWhatClientMeant'
  BY <1>1 DEF ServerReadsWhatClientMeant
<1>9. AnswerIsOfThisExchange'
  <2>1. Answer' = Answer
    BY <1>1, AnswerStays
  <2>. QED  BY <1>0, <1>1, <2>1 DEF IInv, AnswerIsOfThisExchange
<1>. QED  BY <1>6, <1>7, <1>8, <1>9 DEF IInv

LEMMA SetUKeeps ==
  ASSUME IInv, SetU
  PROVE  IInv'
<1>0. TypeOK /\ ExchangeIsWhole /\ at = "get_u"
  BY DEF IInv, SetU
<1>1. /\ stock[CLIENT_IN] # Fresh
      /\ at' = "derivs"
      /\ stock' = [stock EXCEPT ![CLIENT_IN] = Fresh]
      /\ calc_data' = calc_data /\ payload' = payload /\ datagram' = datagram
      /\ buf' = buf /\ results' = results /\ exchanges' = exchanges
  BY DEF SetU
<1>2. \A s \in Sockets : Quiet(s)'
  BY <1>0, <1>1, SocketsAndLengths DEF ExchangeIsWhole, Quiet, Passing
<1>3. ExchangeIsWhole'
  BY <1>0, <1>1, <1>2, SocketsAndLengths DEF ExchangeIsWhole
<1>4. TypeOK'
  <2>1. Fresh.len = 0 /\ DOMAIN Fresh.batch = 0 .. 0 - 1
    BY DEF Fresh, Empty
  <2>2. ASSUME NEW s \in Sockets
        PROVE  /\ stock'[s].len \in {0, Lengths[s]}
               /\ DOMAIN stock'[s].batch = 0 .. stock'[s].len - 1
    <3>1. stock'[s] = Fresh \/ stock'[s] = stock[s]
      BY <1>0, <1>1 DEF ExchangeIsWhole
    <3>. QED  BY <1>0, <2>1, <3>1 DEF TypeOK
  <2>3. \A s \in Sockets : buf'[s] \in [0 .. MAXBUF - 1 -> Bytes]
    BY <1>0, <1>1 DEF TypeOK
  <2>. QED  BY <1>0, <1>1, <2>2, <2>3 DEF TypeOK
<1>5. ServerReadsWhatClientMeant'
  BY <1>1 DEF ServerReadsWhatClientMeant
<1>6. AnswerIsOfThisExchange'
  <2>1. stock[CLIENT_IN] = Stored(CLIENT_IN)
    BY <1>0, <1>1 DEF ExchangeIsWhole, Passing
  <2>2. stock[CLIENT_IN].batch = results
    BY <2>1, SocketsAndLengths DEF Stored
  <2>3. U' = set_u(results)
    BY <2>2 DEF SetU
  <2>4. results = Answer
    BY <1>0 DEF IInv, AnswerIsOfThisExchange
  <2>5. Answer' = Answer
    BY <1>1, AnswerStays
  <2>6. set_u(Answer)' = set_u(Answer)
    BY <2>5 DEF set_u
  <2>7. U' = set_u(Answer)'
    BY <2>3, <2>4, <2>6
  <2>. QED  BY <1>1, <2>7 DEF IInv, AnswerIsOfThisExchange
<1>. QED  BY <1>3, <1>4, <1>5, <1>6 DEF IInv

LEMMA PayloadNextKeeps == IInv /\ [Next]_vars => IInv'
<1>. SUFFICES ASSUME IInv, [Next]_vars  PROVE IInv'
  OBVIOUS
<1>1. CASE GetPayload \/ SendHalves \/ CalculateRes \/ SendCalcs \/ SetU
  BY <1>1, GetPayloadKeeps, SendHalvesKeeps, CalculateResKeeps, SendCalcsKeeps, SetUKeeps
<1>2. CASE ListenerStores \/ ClientStores
  BY <1>2, ListenKeeps, SocketsAndLengths DEF ListenerStores, ClientStores
<1>3. CASE UNCHANGED vars
  <2>1. \A s \in Sockets : Floats(s)' = Floats(s) /\ Sent(s)' = Sent(s) /\ Stored(s)' = Stored(s)
    BY <1>3, FloatsStay DEF vars
  <2>2. \A s \in Sockets : (Passing(s) => Passing(s)') /\ (Quiet(s) => Quiet(s)')
    BY <1>3, <2>1 DEF vars, Passing, Quiet
  <2>3. TypeOK' /\ ServerReadsWhatClientMeant'
    BY <1>3 DEF vars, IInv, TypeOK, ServerReadsWhatClientMeant
  <2>4. PayloadIsMeant => PayloadIsMeant'
    BY <1>3 DEF vars, PayloadIsMeant
  <2>5. ExchangeIsWhole'
    BY <1>3, <2>2, <2>4, SocketsAndLengths DEF vars, IInv, ExchangeIsWhole
  <2>6. Answer' = Answer
    BY <1>3, AnswerStays DEF vars
  <2>7. AnswerIsOfThisExchange'
    BY <1>3, <2>6 DEF vars, IInv, AnswerIsOfThisExchange, set_u
  <2>. QED  BY <2>3, <2>5, <2>7 DEF IInv
<1>. QED  BY <1>1, <1>2, <1>3 DEF Next

\* In every state of the exchanges, each half that is on its way or stored is a half of
\* the payload the client made, and nothing of an earlier exchange is left.
THEOREM PayloadInvariantHolds == Spec => []IInv
BY PayloadInitHolds, PayloadNextKeeps, PTL DEF Spec

\* Types, and with them the lengths of what is stored.
THEOREM PayloadTypes == Spec => []TypeOK
BY PayloadInvariantHolds, PTL DEF IInv

\* Every float arrives in the variable of server_calculations that stands for it, for any
\* floats, bytes of any width, and any number of exchanges through the same buffers.
THEOREM FloatsArrive == Spec => []ServerReadsWhatClientMeant
BY PayloadInvariantHolds, PTL DEF IInv

\* Every datagram fits its receive buffer and is understood by the code that takes it out.
THEOREM PacketsUnderstood == Spec => []PacketsAreUnderstood
<1>. SUFFICES ASSUME IInv  PROVE PacketsAreUnderstood
  BY PayloadInvariantHolds, PTL
<1>. SUFFICES ASSUME NEW s \in Sockets, datagram[s] # Empty
              PROVE  LET ca == recvfrom(buf[s], datagram[s])
                         pack == bytes_to_pack(ca)
                     IN  /\ DOMAIN datagram[s] \subseteq DOMAIN buf[s]
                         /\ KnownType(ca)
                         /\ get_floats_count(pack) # NoCount
                         /\ DOMAIN get_floats(pack) = 0 .. get_floats_count(pack) - 1
  BY DEF PacketsAreUnderstood
<1>1. datagram[s] = Sent(s) /\ Floats(s) \in [0 .. Lengths[s] - 1 -> Words]
  BY OnItsWay
<1>2. buf[s] \in [0 .. MAXBUF - 1 -> Bytes]
  BY DEF IInv, TypeOK
<1>3. LET ca == recvfrom(buf[s], datagram[s])
          pack == bytes_to_pack(ca)
      IN  /\ KnownType(ca)
          /\ get_floats(pack) = Floats(s)
          /\ get_floats_count(pack) = Lengths[s]
          /\ DOMAIN datagram[s] \subseteq 0 .. MAXBUF - 1
  BY <1>1, <1>2, SentIsUnderstood
<1>4. Lengths[s] \in Nat
  BY SocketsAndLengths
<1>5. Lengths[s] # NoCount
  BY <1>4 DEF NoCount
<1>6. DOMAIN buf[s] = 0 .. MAXBUF - 1 /\ DOMAIN Floats(s) = 0 .. Lengths[s] - 1
  BY <1>1, <1>2
<1>. QED  BY <1>3, <1>5, <1>6


\* What the client means and what the server is told have the same names for the same
\* numbers, thirteen elements of the field.
LEMMA MeantIs ==
  ASSUME IInv, NEW c, c = Numbers(calc_data)
  PROVE  /\ Meant.x = c.Vx /\ Meant.dotX = c.VdotX /\ Meant.y = c.Vy /\ Meant.dotY = c.VdotY
         /\ Meant.z = c.Vz /\ Meant.dotZ = c.VdotZ
         /\ Meant.theta = c.Vtheta /\ Meant.dotTheta = c.VdotTheta
         /\ Meant.phi = c.Vphi /\ Meant.dotPhi = c.VdotPhi
         /\ Meant.psy = c.Vpsy /\ Meant.dotPsy = c.VdotPsy
         /\ Meant.t = c[Time]
         /\ \A p \in DOMAIN Meaning : Meant[p] \in Field
<1>1. DOMAIN calc_data = CalcFields /\ \A f \in CalcFields : c[f] = NumberOf(calc_data[f])
  BY DEF IInv, TypeOK, Numbers
<1>2. ASSUME NEW p \in DOMAIN Meaning
      PROVE  Meaning[p] \in CalcFields /\ Meant[p] = c[Meaning[p]] /\ Meant[p] \in Field
  <2>1. Meaning[p] \in CalcFields
    BY FieldsAndParams
  <2>2. Meant[p] = NumberOf(calc_data[Meaning[p]])
    BY DEF Meant
  <2>. QED  BY <1>1, <2>1, <2>2 DEF IInv, AnswerIsOfThisExchange
<1>3. DOMAIN Meaning = {"x", "dotX", "y", "dotY", "z", "dotZ", "theta", "dotTheta",
                        "phi", "dotPhi", "psy", "dotPsy", "t"}
  BY DEF Meaning
<1>4. /\ Meaning.x = "Vx" /\ Meaning.dotX = "VdotX" /\ Meaning.y = "Vy" /\ Meaning.dotY = "VdotY"
      /\ Meaning.z = "Vz" /\ Meaning.dotZ = "VdotZ"
      /\ Meaning.theta = "Vtheta" /\ Meaning.dotTheta = "VdotTheta"
      /\ Meaning.phi = "Vphi" /\ Meaning.dotPhi = "VdotPhi"
      /\ Meaning.psy = "Vpsy" /\ Meaning.dotPsy = "VdotPsy" /\ Meaning.t = Time
  BY DEF Meaning
<1>. QED  BY <1>2, <1>3, <1>4

\* The loop closes: what server_calculations makes of the thirteen floats that arrive, put
\* through the packets and into derivs, gives every error of the exchange the linear
\* equation of its gains, for any elements, any number of exchanges and any buffers.
THEOREM LoopCloses == Spec => []ClosedLoop
<1>. SUFFICES ASSUME IInv  PROVE ClosedLoop
  BY PayloadInvariantHolds, PTL
<1>. SUFFICES ASSUME at = "derivs", exchanges > 0  PROVE ClosedLoop
  BY DEF ClosedLoop
<1>. DEFINE w == server_calculations(Meant)
            u == Numbers(U)
            c == Numbers(calc_data)
<1>1. PICK v : v = Meant
  OBVIOUS
<1>2. /\ v.x \in Field /\ v.dotX \in Field /\ v.y \in Field /\ v.dotY \in Field
      /\ v.z \in Field /\ v.dotZ \in Field /\ v.theta \in Field /\ v.dotTheta \in Field
      /\ v.phi \in Field /\ v.dotPhi \in Field /\ v.psy \in Field /\ v.dotPsy \in Field
      /\ v.t \in Field
  <2>1. \A p \in {"x", "dotX", "y", "dotY", "z", "dotZ", "theta", "dotTheta",
                  "phi", "dotPhi", "psy", "dotPsy", "t"} : v[p] \in Field
    BY <1>1, MeantIs DEF Meaning
  <2>. QED  BY <2>1
<1>3. /\ \A i \in 0 .. 3 : server_calculations(v)[i] \in Field
      /\ ErrorsFollowGains(v, server_calculations(v)[0], server_calculations(v)[1],
                           server_calculations(v)[2], server_calculations(v)[3])
  BY <1>2, ControlLinearises
<1>4. \A i \in 0 .. 3 : w[i] \in Field
  BY <1>1, <1>3
<1>5. ErrorsFollowGains(v, w[0], w[1], w[2], w[3])
  BY <1>1, <1>3
<1>6. U = set_u(Answer) /\ Answer = [i \in 0 .. 3 |-> WordOf(w[i])]
  BY DEF IInv, AnswerIsOfThisExchange, Answer
<1>. HIDE DEF w
<1>7. u = [U1 |-> w[0], U2 |-> w[1], U3 |-> w[2], U4 |-> w[3]]
  <2>1. U = [U1 |-> WordOf(w[0]), U2 |-> WordOf(w[1]), U3 |-> WordOf(w[2]), U4 |-> WordOf(w[3])]
    BY <1>6 DEF set_u
  <2>2. /\ NumberOf(WordOf(w[0])) = w[0] /\ NumberOf(WordOf(w[1])) = w[1]
        /\ NumberOf(WordOf(w[2])) = w[2] /\ NumberOf(WordOf(w[3])) = w[3]
    BY <1>4, WordHoldsLengths
  <2>3. DOMAIN U = {"U1", "U2", "U3", "U4"}
    BY <2>1
  <2>4. u = [n \in {"U1", "U2", "U3", "U4"} |-> NumberOf(U[n])]
    BY <2>3 DEF Numbers
  <2>5. /\ NumberOf(U["U1"]) = w[0] /\ NumberOf(U["U2"]) = w[1]
        /\ NumberOf(U["U3"]) = w[2] /\ NumberOf(U["U4"]) = w[3]
    BY <2>1, <2>2
  <2>. HIDE DEF u
  <2>. QED  BY <2>4, <2>5
<1>8. /\ v.x = c.Vx /\ v.dotX = c.VdotX /\ v.y = c.Vy /\ v.dotY = c.VdotY
      /\ v.z = c.Vz /\ v.dotZ = c.VdotZ
      /\ v.theta = c.Vtheta /\ v.dotTheta = c.VdotTheta
      /\ v.phi = c.Vphi /\ v.dotPhi = c.VdotPhi
      /\ v.psy = c.Vpsy /\ v.dotPsy = c.VdotPsy
      /\ v.t = c[Time]
  <2>1. PICK d : d = Numbers(calc_data)
    OBVIOUS
  <2>. QED  BY <1>1, <2>1, MeantIs
<1>9. u.U1 = w[0]
  BY <1>7
<1>. HIDE DEF u, c
<1>10. LET r == tanRh(c[Time])
           acc == Accelerations(c.Vtheta, c.Vphi, u)
           thrust == u.U1 \oslash m
           dotThrust == r.d3dotref \ominus (L0z \otimes (c.VdotZ \ominus r.dotref))
                                   \ominus (L1z \otimes (acc.ddotZ \ominus r.ddotref))
           ddotThrust == r.d4dotref \ominus (L0z \otimes (acc.ddotZ \ominus r.ddotref))
                                    \ominus (L1z \otimes (dotThrust \ominus r.d3dotref))
       IN  /\ SecondOrder(r, L0z, L1z, c.Vz, c.VdotZ, acc.ddotZ)
           /\ SecondOrder(r, L0psy, L1psy, c.Vpsy, c.VdotPsy, acc.ddotPsy)
           /\ thrust # 0 =>
                /\ FourthOrder(r, c.Vx, c.VdotX, c.Vtheta, c.VdotTheta, acc.ddotTheta,
                               thrust, dotThrust, ddotThrust)
                /\ FourthOrder(r, c.Vy, c.VdotY, Negative(c.Vphi), Negative(c.VdotPhi),
                               Negative(acc.ddotPhi), thrust, dotThrust, ddotThrust)
  BY <1>5, <1>7, <1>8, <1>9 DEF ErrorsFollowGains
<1>. QED  BY <1>10 DEF ClosedLoop, c, u
=============================================================================
