-------------------------- MODULE Serializer_proofs --------------------------
(***************************************************************************)
(* Proofs about the encodings of Serializer, for any even number of values *)
(* of a byte and any number of bytes: what deserialize_int returns for the *)
(* bytes that serialize_int wrote, and where the word of a float has its   *)
(* parts.  Both are recursive, so that this needs induction; it is done    *)
(* with the least counterexample, which WFMin provides.                    *)
(***************************************************************************)
EXTENDS Serializer, WellFoundedInduction, TLAPS

(***************************************************************************)
(* Numbers                                                                 *)
(***************************************************************************)

\* What is not true of every number is not true of a smallest one.
LEMMA Least ==
  ASSUME NEW T, T \subseteq Nat, T # {}
  PROVE  \E n \in T : \A m \in T : ~(m < n)
<1>1. IsWellFoundedOn(OpToRel(<, Nat), Nat)
  BY NatLessThanWellFounded
<1>2. \E n \in T : \A m \in T : ~(<<m, n>> \in OpToRel(<, Nat))
  BY <1>1, WFMin
<1> QED  BY <1>2 DEF OpToRel

\* Division with remainder.
LEMMA Division ==
  ASSUME NEW d \in Nat, d > 0, NEW n \in Int
  PROVE  /\ n \div d \in Int /\ n % d \in 0..(d - 1)
         /\ n = (d * (n \div d)) + (n % d)
BY SMT

\* Quotient and remainder are the only numbers of their kind.
LEMMA DivisionUnique ==
  ASSUME NEW d \in Nat, d > 0, NEW q \in Int, NEW r \in 0..(d - 1)
  PROVE  ((d * q) + r) \div d = q /\ ((d * q) + r) % d = r
<1> DEFINE n == (d * q) + r
           p == n \div d
           s == n % d
<1>1. n \in Int
  BY SMT
<1>2. p \in Int /\ s \in 0..(d - 1) /\ n = (d * p) + s
  BY <1>1, Division
<1>3. d * (p - q) = r - s
  <2>1. d * (p - q) = (d * p) - (d * q)
    BY <1>2, SMT
  <2> QED  BY <1>2, <2>1, SMT
<1>4. p = q
  <2>1. CASE p - q >= 1
    <3>1. d * (p - q) >= d
      BY <1>2, <2>1, SMT
    <3> QED  BY <1>2, <1>3, <3>1, SMT
  <2>2. CASE p - q <= -1
    <3>1. d * (p - q) <= -d
      BY <1>2, <2>2, SMT
    <3> QED  BY <1>2, <1>3, <3>1, SMT
  <2> QED  BY <1>2, <2>1, <2>2, SMT
<1> QED  BY <1>2, <1>4, SMT

\* Numbers that differ by a multiple of d leave the same remainder.
LEMMA SameRemainder ==
  ASSUME NEW d \in Nat, d > 0, NEW n \in Int, NEW c \in Int
  PROVE  (n + (d * c)) % d = n % d
<1>1. n \div d \in Int /\ n % d \in 0..(d - 1) /\ n = (d * (n \div d)) + (n % d)
  BY Division
<1>2. d * ((n \div d) + c) = (d * (n \div d)) + (d * c)
  BY <1>1, SMT
<1>3. n + (d * c) = (d * ((n \div d) + c)) + (n % d)
  BY <1>1, <1>2, SMT
<1>4. ((d * ((n \div d) + c)) + (n % d)) % d = n % d
  <2>1. (n \div d) + c \in Int
    BY <1>1
  <2> QED  BY <1>1, <2>1, DivisionUnique
<1> QED  BY <1>3, <1>4

\* A number that is small enough is its own remainder.
LEMMA SmallRemainder ==
  ASSUME NEW d \in Nat, NEW n \in 0..(d - 1)
  PROVE  n % d = n
BY SMT

\* Division by a product is division by one factor and then by the other.
LEMMA DivisionByProduct ==
  ASSUME NEW a \in Nat, a > 0, NEW b \in Nat, b > 0, NEW n \in Int
  PROVE  n \div (b * a) = (n \div a) \div b
<1> DEFINE q == n \div a
           r == n % a
           p == q \div b
           s == q % b
<1>1. q \in Int /\ r \in 0..(a - 1) /\ n = (a * q) + r
  BY Division
<1>2. p \in Int /\ s \in 0..(b - 1) /\ q = (b * p) + s
  BY <1>1, Division
<1>3. b * a \in Nat /\ b * a > 0
  BY SMT
<1>4. n = ((b * a) * p) + ((a * s) + r)
  <2>1. a * q = (a * (b * p)) + (a * s)
    BY <1>2, SMT
  <2>2. a * (b * p) = (b * a) * p
    BY <1>2, SMT
  <2> QED  BY <1>1, <1>2, <2>1, <2>2, SMT
<1>5. (a * s) + r \in 0..((b * a) - 1)
  <2>1. a * s >= 0 /\ a * s \in Int
    BY <1>2, SMT
  <2>2. a * s <= a * (b - 1)
    BY <1>2, SMT
  <2>3. a * (b - 1) = (b * a) - a
    BY SMT
  <2> QED  BY <1>1, <1>3, <2>1, <2>2, <2>3, SMT
<1> QED  BY <1>2, <1>3, <1>4, <1>5, DivisionUnique

(***************************************************************************)
(* Powers                                                                  *)
(***************************************************************************)

\* A table of the powers of b up to the n-th.
Table(f, b, n) == f = [k \in 0..n |-> IF k = 0 THEN 1 ELSE b * f[k - 1]]

\* Such tables exist, so that Power is not empty words.
LEMMA TableExists ==
  ASSUME NEW b \in Int
  PROVE  \A n \in Nat : \E f : Table(f, b, n)
<1> DEFINE T == {n \in Nat : ~ \E f : Table(f, b, n)}
<1> SUFFICES ASSUME T # {} PROVE FALSE
  OBVIOUS
<1>1. PICK n \in T : \A m \in T : ~(m < n)
  BY Least
<1>2. CASE n = 0
  <2>1. Table([k \in 0..0 |-> 1], b, 0)
    BY DEF Table
  <2> QED  BY <2>1, <1>1, <1>2
<1>3. CASE n # 0
  <2>1. n - 1 \in Nat /\ n - 1 \notin T /\ n \in Nat
    BY <1>1, <1>3
  <2>2. PICK f : Table(f, b, n - 1)
    BY <2>1
  <2> DEFINE g == [k \in 0..n |-> IF k = n THEN b * f[n - 1] ELSE f[k]]
  <2>3. \A k \in 0..(n - 1) : f[k] = IF k = 0 THEN 1 ELSE b * f[k - 1]
    BY <2>1, <2>2 DEF Table
  <2>4. ASSUME NEW k \in 0..n
        PROVE  g[k] = IF k = 0 THEN 1 ELSE b * g[k - 1]
    <3>1. CASE k = n
      BY <3>1, <2>1, <1>3
    <3>2. CASE k # n
      BY <3>2, <2>1, <1>3, <2>3
    <3> QED  BY <3>1, <3>2
  <2>5. Table(g, b, n)
    BY <2>4 DEF Table
  <2> QED  BY <2>5, <1>1
<1> QED  BY <1>2, <1>3

\* Two tables agree as far as both go.
LEMMA TablesAgree ==
  ASSUME NEW b \in Int, NEW n \in Nat, NEW m \in Nat, NEW f, NEW g,
         Table(f, b, n), Table(g, b, m)
  PROVE  \A k \in Nat : k <= n /\ k <= m => f[k] = g[k]
<1> DEFINE T == {k \in Nat : k <= n /\ k <= m /\ f[k] # g[k]}
<1> SUFFICES ASSUME T # {} PROVE FALSE
  OBVIOUS
<1>1. PICK k \in T : \A j \in T : ~(j < k)
  BY Least
<1>2. /\ \A j \in 0..n : f[j] = IF j = 0 THEN 1 ELSE b * f[j - 1]
      /\ \A j \in 0..m : g[j] = IF j = 0 THEN 1 ELSE b * g[j - 1]
  BY DEF Table
<1>3. k # 0
  BY <1>1, <1>2
<1>4. k - 1 \in Nat /\ k - 1 \notin T /\ f[k - 1] = g[k - 1]
  BY <1>1, <1>3
<1> QED  BY <1>1, <1>2, <1>3, <1>4

\* Power is an entry of any table that is long enough.
LEMMA PowerInTable ==
  ASSUME NEW b \in Int, NEW n \in Nat, NEW m \in Nat, n <= m, NEW f, Table(f, b, m)
  PROVE  Power(b, n) = f[n]
<1> DEFINE power[k \in 0..n] == IF k = 0 THEN 1 ELSE b * power[k - 1]
<1>1. Power(b, n) = power[n]
  BY DEF Power
<1>2. power = CHOOSE g : Table(g, b, n)
  BY DEF Table
<1>3. Table(power, b, n)
  BY <1>2, TableExists
<1> HIDE DEF power
<1> QED  BY <1>1, <1>3, TablesAgree

\* The law that Power is defined by.
LEMMA PowerLaw ==
  ASSUME NEW b \in Int
  PROVE  Power(b, 0) = 1 /\ \A n \in Nat : Power(b, n + 1) = b * Power(b, n)
<1>1. Power(b, 0) = 1
  <2>1. PICK f : Table(f, b, 0)
    BY TableExists
  <2>2. f[0] = 1 /\ 0 \in Nat /\ 0 <= 0
    BY <2>1 DEF Table
  <2> QED  BY <2>1, <2>2, PowerInTable
<1>2. ASSUME NEW n \in Nat
      PROVE  Power(b, n + 1) = b * Power(b, n)
  <2>1. PICK f : Table(f, b, n + 1)
    BY TableExists
  <2>2. Power(b, n + 1) = f[n + 1] /\ Power(b, n) = f[n]
    BY <2>1, PowerInTable
  <2>3. f[n + 1] = b * f[n]
    BY <2>1 DEF Table
  <2> QED  BY <2>2, <2>3
<1> QED  BY <1>1, <1>2

\* Powers are positive.
LEMMA PowerType ==
  ASSUME NEW b \in Nat, b > 0
  PROVE  \A n \in Nat : Power(b, n) \in Nat /\ Power(b, n) > 0
<1> DEFINE T == {n \in Nat : ~(Power(b, n) \in Nat /\ Power(b, n) > 0)}
<1> SUFFICES ASSUME T # {} PROVE FALSE
  OBVIOUS
<1>1. PICK n \in T : \A m \in T : ~(m < n)
  BY Least
<1>2. n # 0
  BY <1>1, PowerLaw
<1>3. n - 1 \in Nat /\ Power(b, n - 1) \in Nat /\ Power(b, n - 1) > 0
  BY <1>1, <1>2
<1>4. Power(b, n) = b * Power(b, n - 1)
  BY <1>3, PowerLaw
<1>5. b * Power(b, n - 1) \in Nat /\ b * Power(b, n - 1) > 0
  BY <1>3, SMT
<1> QED  BY <1>1, <1>4, <1>5

\* A shift by m + n is one by m and one by n.
LEMMA PowerSum ==
  ASSUME NEW b \in Nat, b > 0, NEW m \in Nat
  PROVE  \A n \in Nat : Power(b, m + n) = Power(b, m) * Power(b, n)
<1> DEFINE T == {n \in Nat : Power(b, m + n) # Power(b, m) * Power(b, n)}
<1> SUFFICES ASSUME T # {} PROVE FALSE
  OBVIOUS
<1>1. PICK n \in T : \A k \in T : ~(k < n)
  BY Least
<1>2. Power(b, m) \in Nat /\ \A k \in Nat : Power(b, k) \in Nat
  BY PowerType
<1>3. n # 0
  BY <1>1, <1>2, PowerLaw, SMT
<1>4. n - 1 \in Nat /\ Power(b, m + (n - 1)) = Power(b, m) * Power(b, n - 1)
  BY <1>1, <1>3
<1>5. Power(b, m + n) = b * Power(b, m + (n - 1)) /\ Power(b, n) = b * Power(b, n - 1)
  <2>1. m + (n - 1) \in Nat /\ (m + (n - 1)) + 1 = m + n /\ (n - 1) + 1 = n
    BY <1>4
  <2> QED  BY <1>4, <2>1, PowerLaw
<1>6. b * (Power(b, m) * Power(b, n - 1)) = Power(b, m) * (b * Power(b, n - 1))
  BY <1>2, <1>4, SMT
<1> QED  BY <1>1, <1>4, <1>5, <1>6

(***************************************************************************)
(* Integers of w bytes                                                     *)
(***************************************************************************)

\* The number of integers of w bytes is even, so that half of them are negative.
LEMMA LimitFacts ==
  ASSUME NEW w \in Nat, w > 0
  PROVE  /\ Limit(w) \in Nat /\ Limit(w) > 0 /\ Limit(w) \div 2 \in Nat
         /\ Limit(w) = 2 * (Limit(w) \div 2)
<1> DEFINE p == Power(Base, w - 1)
           h == Base \div 2
<1>1. Base \in Nat /\ Base > 0 /\ Base % 2 = 0
  BY BaseAssumption
<1>2. h \in Int /\ Base = (2 * h) + (Base % 2) /\ h \in Nat
  BY <1>1, SMT
<1>3. w - 1 \in Nat /\ (w - 1) + 1 = w
  OBVIOUS
<1>4. p \in Nat /\ Limit(w) = Base * p /\ Limit(w) \in Nat /\ Limit(w) > 0
  <2>1. p \in Nat /\ Limit(w) \in Nat /\ Limit(w) > 0
    BY <1>1, <1>3, PowerType DEF Limit
  <2>2. Power(Base, (w - 1) + 1) = Base * p
    BY <1>1, <1>3, PowerLaw
  <2> QED  BY <1>3, <2>1, <2>2 DEF Limit
<1>5. h * p \in Nat /\ Base * p = (2 * (h * p)) + 0
  <2>1. (2 * h) * p = 2 * (h * p)
    BY <1>2, <1>4, SMT
  <2> QED  BY <1>1, <1>2, <1>4, <2>1, SMT
<1>6. Limit(w) \div 2 = h * p
  BY <1>4, <1>5, DivisionUnique
<1> QED  BY <1>4, <1>5, <1>6

\* A conversion to the signed type gives a number of that type, and changes the
\* number by a multiple of their count.
LEMMA SignedConverts ==
  ASSUME NEW w \in Nat, w > 0, NEW x \in Int
  PROVE  /\ Signed(x, w) \in Ints(w)
         /\ \E c \in Int : Signed(x, w) = x + (Limit(w) * c)
<1> DEFINE d == Limit(w)
           h == d \div 2
           q == (x + h) \div d
<1>1. d \in Nat /\ d > 0 /\ h \in Nat /\ d = 2 * h
  BY LimitFacts
<1>2. /\ q \in Int /\ (x + h) % d \in 0..(d - 1)
      /\ x + h = (d * q) + ((x + h) % d)
  <2>1. x + h \in Int
    BY <1>1
  <2> QED  BY <1>1, <2>1, Division
<1>3. Signed(x, w) = ((x + h) % d) - h
  BY DEF Signed
<1> DEFINE r == (x + h) % d
<1>4. Ints(w) = (-h)..(h - 1)
  BY DEF Ints
<1> HIDE DEF r, q, h, d
<1>5. d * (-q) = -(d * q)
  BY <1>1, <1>2, SMT
<1>6. -q \in Int /\ r - h = x + (d * (-q))
  BY <1>1, <1>2, <1>5, SMT DEF r
<1>7. r - h \in (-h)..(h - 1)
  BY <1>1, <1>2, SMT DEF r
<1>8. Signed(x, w) = r - h
  BY <1>3 DEF r
<1> QED  BY <1>4, <1>6, <1>7, <1>8 DEF d

\* That number is the only one.
LEMMA SignedUnique ==
  ASSUME NEW w \in Nat, w > 0, NEW x \in Int, NEW y \in Ints(w),
         NEW c \in Int, y = x + (Limit(w) * c)
  PROVE  Signed(x, w) = y
<1> DEFINE d == Limit(w)
           h == d \div 2
<1>1. d \in Nat /\ d > 0 /\ h \in Nat /\ d = 2 * h
  BY LimitFacts
<1>2. y \in Int /\ y + h \in 0..(d - 1)
  BY <1>1, SMT DEF Ints
<1>3. y + h = (x + h) + (d * c)
  BY <1>1, <1>2, SMT
<1>4. ((x + h) + (d * c)) % d = (x + h) % d
  <2>1. x + h \in Int
    BY <1>1
  <2> QED  BY <1>1, <2>1, SameRemainder
<1>5. (y + h) % d = y + h
  BY <1>1, <1>2, SmallRemainder
<1>6. Signed(x, w) = ((x + h) % d) - h
  BY DEF Signed
<1> QED  BY <1>1, <1>2, <1>3, <1>4, <1>5, <1>6

\* A cast to the unsigned type undoes the one to the signed type.
LEMMA UnsignedUndoes ==
  ASSUME NEW w \in Nat, w > 0, NEW x \in Int
  PROVE  Unsigned(Signed(x, w), w) = Unsigned(x, w)
<1>1. PICK c \in Int : Signed(x, w) = x + (Limit(w) * c)
  BY SignedConverts
<1>2. Limit(w) \in Nat /\ Limit(w) > 0
  BY LimitFacts
<1> QED  BY <1>1, <1>2, SameRemainder DEF Unsigned

(***************************************************************************)
(* deserialize_int after serialize_int                                     *)
(***************************************************************************)

\* What deserialize_int has in result after each of the first n bytes.
Partial(f, buff, n) ==
  f = [k \in 0..n |-> IF k = 0 THEN 0 ELSE Signed(f[k - 1] * Base + buff[k], Len(buff))]

\* deserialize_int can be executed: there is such a sequence of results.
LEMMA PartialExists == \A buff : \A n \in Nat : \E f : Partial(f, buff, n)
<1> SUFFICES ASSUME NEW buff PROVE \A n \in Nat : \E f : Partial(f, buff, n)
  OBVIOUS
<1> DEFINE T == {n \in Nat : ~ \E f : Partial(f, buff, n)}
<1> SUFFICES ASSUME T # {} PROVE FALSE
  OBVIOUS
<1>1. PICK n \in T : \A m \in T : ~(m < n)
  BY Least
<1>2. CASE n = 0
  <2>1. Partial([k \in 0..0 |-> 0], buff, 0)
    BY DEF Partial
  <2> QED  BY <2>1, <1>1, <1>2
<1>3. CASE n # 0
  <2> DEFINE next(r, k) == Signed(r * Base + buff[k], Len(buff))
  <2>1. n - 1 \in Nat /\ n - 1 \notin T /\ n \in Nat
    BY <1>1, <1>3
  <2>2. PICK f : Partial(f, buff, n - 1)
    BY <2>1
  <2>3. \A k \in 0..(n - 1) : f[k] = IF k = 0 THEN 0 ELSE next(f[k - 1], k)
    BY <2>1, <2>2 DEF Partial
  <2> DEFINE g == [k \in 0..n |-> IF k = n THEN next(f[n - 1], n) ELSE f[k]]
  <2>4. ASSUME NEW k \in 0..n
        PROVE  g[k] = IF k = 0 THEN 0 ELSE next(g[k - 1], k)
    <3> HIDE DEF next
    <3>1. CASE k = n
      BY <3>1, <2>1, <1>3
    <3>2. CASE k # n
      BY <3>2, <2>1, <1>3, <2>3
    <3> QED  BY <3>1, <3>2
  <2>5. Partial(g, buff, n)
    BY <2>4 DEF Partial
  <2> QED  BY <2>5, <1>1
<1> QED  BY <1>2, <1>3

\* deserialize_int returns the last of them.
LEMMA DeserializedUnfolds ==
  ASSUME NEW buff, Len(buff) \in Nat
  PROVE  \E f : Partial(f, buff, Len(buff)) /\ Deserialized(buff) = f[Len(buff)]
<1> DEFINE result[k \in 0..Len(buff)] ==
             IF k = 0 THEN 0 ELSE Signed(result[k - 1] * Base + buff[k], Len(buff))
<1>1. Deserialized(buff) = result[Len(buff)]
  BY DEF Deserialized
<1>2. result = CHOOSE f : Partial(f, buff, Len(buff))
  BY DEF Partial
<1>3. Partial(result, buff, Len(buff))
  BY <1>2, PartialExists
<1> QED  BY <1>1, <1>3

\* The bytes of num from the k-th on are one byte fewer than those from the one
\* before it.
LEMMA NextByte ==
  ASSUME NEW num \in Int, NEW w \in Nat, NEW k \in 1..w
  PROVE  LET high(i) == num \div Power(Base, w - i) IN
         /\ high(k) \in Int /\ high(k - 1) \in Int
         /\ Serialized(num, w)[k] \in 0..(Base - 1)
         /\ high(k) = (Base * high(k - 1)) + Serialized(num, w)[k]
<1> DEFINE p == Power(Base, w - k)
           n == num \div p
<1>1. Base \in Nat /\ Base > 0
  BY BaseAssumption
<1>2. w - k \in Nat /\ w - (k - 1) = (w - k) + 1
  OBVIOUS
<1>3. p \in Nat /\ p > 0 /\ Power(Base, w - (k - 1)) = Base * p
  BY <1>1, <1>2, PowerType, PowerLaw
<1>4. n \in Int
  BY <1>3, Division
<1>5. num \div (Base * p) = n \div Base
  BY <1>1, <1>3, DivisionByProduct
<1>6. n \div Base \in Int /\ n % Base \in 0..(Base - 1) /\ n = (Base * (n \div Base)) + (n % Base)
  BY <1>1, <1>4, Division
<1>7. Serialized(num, w)[k] = n % Base
  BY DEF Serialized
<1> QED  BY <1>3, <1>4, <1>5, <1>6, <1>7

\* Of the bytes read so far, result has the number up to a multiple of what they
\* can express; the bytes that the shifts push out at the top are such multiples.
LEMMA PartialIsHigh ==
  ASSUME NEW num \in Int, NEW w \in Nat, NEW f, Partial(f, Serialized(num, w), w)
  PROVE  \A k \in Nat : k <= w =>
           /\ k > 0 => f[k] \in Ints(w)
           /\ \E c \in Int : f[k] = (num \div Power(Base, w - k)) + (Power(Base, k) * c)
<1> DEFINE high(k) == num \div Power(Base, w - k)
           P(k) == Power(Base, k)
           Good(k) == /\ k > 0 => f[k] \in Ints(w)
                      /\ \E c \in Int : f[k] = high(k) + (P(k) * c)
           T == {k \in Nat : k <= w /\ ~Good(k)}
           buff == Serialized(num, w)
<1> SUFFICES ASSUME T # {} PROVE FALSE
  OBVIOUS
<1>1. PICK k \in T : \A j \in T : ~(j < k)
  BY Least
<1>2. /\ Base \in Nat /\ Base > 0
      /\ \A j \in Nat : P(j) \in Nat /\ P(j) > 0
      /\ k \in Nat /\ k <= w
  <2>1. Base \in Nat /\ Base > 0
    BY BaseAssumption
  <2>2. \A j \in Nat : P(j) \in Nat /\ P(j) > 0
    BY <2>1, PowerType
  <2>3. k \in Nat /\ k <= w
    BY <1>1
  <2> QED  BY <2>1, <2>2, <2>3
<1>3. Len(buff) = w
  BY DEF Serialized
<1>4. \A j \in 0..w : f[j] = IF j = 0 THEN 0 ELSE Signed(f[j - 1] * Base + buff[j], w)
  BY <1>3 DEF Partial
<1>5. CASE k = 0
  <2>1. f[0] = 0 /\ P(0) = 1
    <3>1. f[0] = 0
      <4> HIDE DEF buff
      <4> QED  BY <1>4
    <3>2. P(0) = 1
      BY <1>2, PowerLaw
    <3> QED  BY <3>1, <3>2
  <2>2. high(0) \in Int
    BY <1>2, Division
  <2>3. -high(0) \in Int /\ 0 = high(0) + (1 * (-high(0)))
    <3> HIDE DEF high
    <3> QED  BY <2>2, SMT
  <2>4. \E c \in Int : f[0] = high(0) + (P(0) * c)
    <3> HIDE DEF high, P
    <3> QED  BY <2>1, <2>3
  <2> QED  BY <1>1, <1>5, <2>4
<1>6. CASE k > 0
  <2>1. k - 1 \in Nat /\ k - 1 \notin T /\ k - 1 <= w /\ k \in 1..w /\ w > 0
    BY <1>1, <1>2, <1>6
  <2>2. PICK c \in Int : f[k - 1] = high(k - 1) + (P(k - 1) * c)
    BY <2>1
  <2>3. /\ high(k) \in Int /\ high(k - 1) \in Int /\ buff[k] \in 0..(Base - 1)
        /\ high(k) = (Base * high(k - 1)) + buff[k]
    BY <2>1, NextByte
  <2>4. P(k) = Base * P(k - 1)
    <3>1. (k - 1) + 1 = k
      BY <2>1
    <3> QED  BY <1>2, <2>1, <3>1, PowerLaw
  <2>5. Limit(w) = P(k) * P(w - k)
    <3>1. w - k \in Nat /\ k + (w - k) = w
      BY <2>1
    <3> QED  BY <1>2, <3>1, PowerSum DEF Limit
  <2>6. f[k] = Signed(f[k - 1] * Base + buff[k], w)
    BY <1>4, <2>1
  <2>7. P(k) \in Nat /\ P(k - 1) \in Nat /\ P(w - k) \in Nat
    BY <1>2, <2>1
  <2> HIDE DEF high, P, buff
  <2>8. f[k - 1] \in Int /\ f[k - 1] * Base + buff[k] \in Int
    <3>1. P(k - 1) * c \in Int
      BY <2>7, SMT
    <3>2. f[k - 1] \in Int
      BY <2>2, <2>3, <3>1
    <3>3. f[k - 1] * Base \in Int
      BY <1>2, <3>2, SMT
    <3> QED  BY <2>3, <3>2, <3>3
  <2>9. PICK e \in Int :
          Signed(f[k - 1] * Base + buff[k], w)
            = (f[k - 1] * Base + buff[k]) + (Limit(w) * e)
    BY <2>1, <2>8, SignedConverts
  <2>10. f[k - 1] * Base = (Base * high(k - 1)) + (P(k) * c)
    <3>1. (high(k - 1) + (P(k - 1) * c)) * Base
            = (Base * high(k - 1)) + (Base * (P(k - 1) * c))
      BY <1>2, <2>3, <2>7, SMT
    <3>2. Base * (P(k - 1) * c) = (Base * P(k - 1)) * c
      BY <1>2, <2>7, SMT
    <3> QED  BY <2>2, <2>4, <3>1, <3>2
  <2>11. Limit(w) * e = P(k) * (P(w - k) * e)
    <3>1. (P(k) * P(w - k)) * e = P(k) * (P(w - k) * e)
      BY <2>7, SMT
    <3> QED  BY <2>5, <3>1
  <2>12. c + (P(w - k) * e) \in Int /\ P(w - k) * e \in Int
    BY <2>7, SMT
  <2>13. P(k) * (c + (P(w - k) * e)) = (P(k) * c) + (P(k) * (P(w - k) * e))
    BY <2>7, <2>12, SMT
  <2>14. P(k) * c \in Int /\ P(k) * (P(w - k) * e) \in Int /\ Base * high(k - 1) \in Int
    BY <1>2, <2>3, <2>7, <2>12, SMT
  <2>15. f[k] = high(k) + (P(k) * (c + (P(w - k) * e)))
    BY <2>3, <2>6, <2>9, <2>10, <2>11, <2>13, <2>14
  <2>16. f[k] \in Ints(w)
    BY <2>1, <2>6, <2>8, SignedConverts
  <2>17. \E m \in Int : f[k] = high(k) + (P(k) * m)
    BY <2>12, <2>15
  <2> QED  BY <1>1, <2>16, <2>17 DEF high, P
<1> QED  BY <1>2, <1>5, <1>6

\* deserialize_int undoes serialize_int, for any number of bytes: it returns the
\* number, cut to the low bytes and read as signed.
THEOREM RoundTrip ==
  ASSUME NEW num \in Int, NEW w \in Nat, w > 0
  PROVE  Deserialized(Serialized(num, w)) = Signed(num, w)
<1>1. Len(Serialized(num, w)) = w
  BY DEF Serialized
<1>2. PICK f : /\ Partial(f, Serialized(num, w), w)
               /\ Deserialized(Serialized(num, w)) = f[w]
  BY <1>1, DeserializedUnfolds
<1>3. /\ f[w] \in Ints(w)
      /\ \E c \in Int : f[w] = (num \div Power(Base, w - w)) + (Power(Base, w) * c)
  BY <1>2, PartialIsHigh
<1>4. num \div Power(Base, w - w) = num
  <2>1. w - w = 0 /\ Power(Base, 0) = 1
    BY BaseAssumption, PowerLaw
  <2>2. num \div 1 = num
    BY SMT
  <2> QED  BY <2>1, <2>2
<1>5. PICK c \in Int : f[w] = num + (Limit(w) * c)
  BY <1>3, <1>4 DEF Limit
<1> QED  BY <1>2, <1>3, <1>5, SignedUnique
=============================================================================
