------------------------ MODULE RequestFrames_proofs ------------------------
(***************************************************************************)
(* Theorems about RequestFrames.                                           *)
(***************************************************************************)
EXTENDS RequestFrames, WellFoundedInduction, SequenceTheorems, FiniteSetTheorems, TLAPS

-----------------------------------------------------------------------------
(* Induction over the naturals, and recursive functions. *)

\* Every nonempty set of naturals has a least element.
LEMMA LeastOf == \A T \in SUBSET Nat : T # {} => \E x \in T : \A y \in T : x <= y
<1> SUFFICES ASSUME NEW T \in SUBSET Nat, T # {} PROVE \E x \in T : \A y \in T : x <= y
    OBVIOUS
<1>1. PICK x \in T : \A y \in T : ~ (<<y, x>> \in OpToRel(<, Nat)) BY NatLessThanWellFounded, WFMin
<1>2. \A y \in T : ~(y < x) BY <1>1 DEF OpToRel
<1> QED BY <1>2

\* A set that holds 0 and the successor of each of its naturals holds them all.
LEMMA Induct == \A T : 0 \in T /\ (\A n \in Nat : n \in T => n + 1 \in T) => Nat \subseteq T
<1> SUFFICES ASSUME NEW T, 0 \in T, \A n \in Nat : n \in T => n + 1 \in T PROVE Nat \subseteq T
    OBVIOUS
<1> DEFINE U == Nat \ T
<1> SUFFICES ASSUME U # {} PROVE FALSE OBVIOUS
<1>1. PICK x \in U : \A y \in U : x <= y BY LeastOf
<1>2. x - 1 \in Nat BY <1>1
<1>3. x - 1 \notin U BY <1>1, <1>2
<1>4. x - 1 + 1 \in T BY <1>2, <1>3
<1> QED BY <1>4, <1>2

\* A function given by its first value and by a step from each value to the next exists.
Unfolds(f, n, z, g) == f[0] = z /\ \A k \in 1..n : f[k] = g[<<k, f[k - 1]>>]
Steps(n, V) == [(1..n) \X V -> V]
Values(n, V) == [0..n -> V]

LEMMA Recursion ==
  ASSUME NEW V, NEW z \in V, NEW n \in Nat, NEW g \in Steps(n, V)
  PROVE  \E f \in Values(n, V) : Unfolds(f, n, z, g)
<1>0. g \in [(1..n) \X V -> V] BY DEF Steps
<1> DEFINE Has(m) == \E f \in [0..m -> V] : f[0] = z /\ \A k \in 1..m : f[k] = g[<<k, f[k - 1]>>]
           T == {m \in Nat : m <= n => Has(m)}
<1>1. Has(0)
  <2> DEFINE f == [k \in 0..0 |-> z]
  <2>1. f \in [0..0 -> V] /\ f[0] = z OBVIOUS
  <2>2. \A k \in 1..0 : FALSE OBVIOUS
  <2> HIDE DEF f
  <2> QED BY <2>1, <2>2
<1>2. ASSUME NEW m \in 1..n, Has(m - 1) PROVE Has(m)
  <2>1. PICK f \in [0..(m - 1) -> V] : f[0] = z /\ \A k \in 1..(m - 1) : f[k] = g[<<k, f[k - 1]>>] BY <1>2
  <2> DEFINE e == [k \in 0..m |-> IF k = m THEN g[<<m, f[m - 1]>>] ELSE f[k]]
  <2>2. f[m - 1] \in V BY <2>1
  <2>3. g[<<m, f[m - 1]>>] \in V BY <1>0, <2>2
  <2>4. \A k \in 0..m : k # m => k \in 0..(m - 1) OBVIOUS
  <2>5. e \in [0..m -> V] BY <2>1, <2>3, <2>4
  <2>6. e[0] = z /\ e[m] = g[<<m, f[m - 1]>>] /\ \A k \in 0..(m - 1) : e[k] = f[k] BY <2>1
  <2> HIDE DEF e
  <2>7. ASSUME NEW k \in 1..m PROVE e[k] = g[<<k, e[k - 1]>>]
    <3>1. k - 1 \in 0..(m - 1) /\ m \in Nat OBVIOUS
    <3>2. e[k - 1] = f[k - 1] BY <2>6, <3>1
    <3>3. CASE k = m BY <2>6, <3>2, <3>3
    <3>4. CASE k # m
      <4>1. k \in 1..(m - 1) /\ k \in 0..(m - 1) BY <3>4
      <4> QED BY <2>1, <2>6, <3>2, <4>1
    <3> QED BY <3>3, <3>4
  <2> QED BY <2>5, <2>6, <2>7
<1> HIDE DEF Has
<1>3. 0 \in T BY <1>1
<1>4. ASSUME NEW m \in Nat, m \in T PROVE m + 1 \in T
  <2> SUFFICES ASSUME m + 1 <= n PROVE Has(m + 1)
      OBVIOUS
  <2> DEFINE k == m + 1
  <2>1. k \in 1..n /\ k - 1 = m /\ Has(m) BY <1>4
  <2> HIDE DEF k
  <2>2. Has(k) BY <1>2, <2>1
  <2> QED BY <2>2 DEF k
<1>5. n \in T
  <2> HIDE DEF T
  <2> QED BY <1>3, <1>4, Induct
<1>6. Has(n) BY <1>5
<1> QED BY <1>6 DEF Has, Unfolds, Values

-----------------------------------------------------------------------------
(* Powers. *)

LEMMA Product == \A x, y \in Nat : x * y \in Nat /\ (x # 0 /\ y # 0 => x * y # 0)
OBVIOUS

LEMMA PowerUnfolds ==
  ASSUME NEW b \in Nat, NEW n \in Nat
  PROVE  \E f \in [0..n -> Nat] : Power(b, n) = f[n] /\ f[0] = 1 /\ \A k \in 1..n : f[k] = b * f[k - 1]
<1> DEFINE power[k \in 0..n] == IF k = 0 THEN 1 ELSE b * power[k - 1]
           g == [x \in (1..n) \X Nat |-> b * x[2]]
<1>1. Power(b, n) = power[n] BY DEF Power
<1>2. g \in Steps(n, Nat)
  <2>1. ASSUME NEW x \in (1..n) \X Nat PROVE b * x[2] \in Nat BY Product
  <2> QED BY <2>1 DEF Steps
<1>3. PICK f \in [0..n -> Nat] : f[0] = 1 /\ \A k \in 1..n : f[k] = g[<<k, f[k - 1]>>]
  <2> HIDE DEF g
  <2>1. 1 \in Nat OBVIOUS
  <2>2. \E f \in Values(n, Nat) : Unfolds(f, n, 1, g) BY <1>2, <2>1, Recursion, Zenon
  <2> QED BY <2>2 DEF Values, Unfolds
<1>4. ASSUME NEW k \in 1..n PROVE f[k] = b * f[k - 1]
  <2>1. k - 1 \in 0..n OBVIOUS
  <2>2. <<k, f[k - 1]>> \in (1..n) \X Nat BY <1>3, <2>1
  <2> QED BY <1>3, <2>2
<1>5. f = [k \in 0..n |-> IF k = 0 THEN 1 ELSE b * f[k - 1]]
  <2>1. \A k \in 0..n : k # 0 => k \in 1..n OBVIOUS
  <2>2. \A k \in 0..n : f[k] = IF k = 0 THEN 1 ELSE b * f[k - 1] BY <1>3, <1>4, <2>1, Zenon
  <2> QED BY <2>2
<1>6. power = [k \in 0..n |-> IF k = 0 THEN 1 ELSE b * power[k - 1]] BY <1>5, Zenon DEF power
<1> HIDE DEF power
<1> DEFINE T == {k \in Nat : k <= n => power[k] = f[k]}
<1>7. 0 \in T BY <1>3, <1>6
<1>8. ASSUME NEW k \in Nat, k \in T PROVE k + 1 \in T
  <2> SUFFICES ASSUME k + 1 <= n PROVE power[k + 1] = f[k + 1]
      OBVIOUS
  <2> DEFINE j == k + 1
  <2>1. j \in 0..n /\ j \in 1..n /\ j # 0 /\ j - 1 = k OBVIOUS
  <2>2. power[k] = f[k] BY <1>8
  <2> SUFFICES power[j] = f[j]
      OBVIOUS
  <2> HIDE DEF j
  <2>3. power[j] = b * power[j - 1] BY <1>6, <2>1, Zenon
  <2>4. f[j] = b * f[j - 1] BY <1>4, <2>1, Zenon
  <2> QED BY <2>1, <2>2, <2>3, <2>4, Zenon
<1>9. n \in T
  <2> HIDE DEF T
  <2> QED BY <1>7, <1>8, Induct
<1> QED BY <1>1, <1>3, <1>4, <1>9

LEMMA PowerFacts ==
  ASSUME NEW b \in Nat \ {0}
  PROVE  /\ Power(b, 0) = 1
         /\ \A n \in Nat : Power(b, n) \in Nat \ {0} /\ Power(b, n + 1) = b * Power(b, n)
<1>1. Power(b, 0) = 1
  <2>1. PICK f \in [0..0 -> Nat] : Power(b, 0) = f[0] /\ f[0] = 1 BY PowerUnfolds
  <2> QED BY <2>1
<1>2. ASSUME NEW n \in Nat PROVE Power(b, n) \in Nat /\ Power(b, n + 1) = b * Power(b, n)
  <2> DEFINE m == n + 1
  <2>0. m \in Nat /\ m - 1 = n /\ \A k \in 0..n : k \in 0..m OBVIOUS
  <2> HIDE DEF m
  <2>1. PICK f \in [0..m -> Nat] : Power(b, m) = f[m] /\ f[0] = 1 /\ \A k \in 1..m : f[k] = b * f[k - 1]
        BY <2>0, PowerUnfolds
  <2>2. PICK e \in [0..n -> Nat] : Power(b, n) = e[n] /\ e[0] = 1 /\ \A k \in 1..n : e[k] = b * e[k - 1]
        BY PowerUnfolds
  <2> DEFINE T == {k \in Nat : k <= n => f[k] = e[k]}
  <2>3. 0 \in T BY <2>1, <2>2
  <2>4. ASSUME NEW k \in Nat, k \in T PROVE k + 1 \in T
    <3> SUFFICES ASSUME k + 1 <= n PROVE f[k + 1] = e[k + 1]
        OBVIOUS
    <3> DEFINE j == k + 1
    <3>1. j \in 1..n /\ j - 1 = k OBVIOUS
    <3>2. f[k] = e[k] BY <2>4
    <3> SUFFICES f[j] = e[j]
        OBVIOUS
    <3> HIDE DEF j
    <3>5. j \in 1..m BY <2>0, <3>1
    <3>3. f[j] = b * f[j - 1] BY <2>1, <3>5, Zenon
    <3>4. e[j] = b * e[j - 1] BY <2>2, <3>1, Zenon
    <3> QED BY <3>1, <3>2, <3>3, <3>4, Zenon
  <2>5. n \in T
    <3> HIDE DEF T
    <3> QED BY <2>3, <2>4, Induct
  <2>6. f[n] = e[n] BY <2>5
  <2>7. m \in 1..m BY <2>0
  <2>8. f[m] = b * f[m - 1] BY <2>1, <2>7, Zenon
  <2>9. e[n] \in Nat BY <2>2
  <2> QED BY <2>0, <2>1, <2>2, <2>6, <2>8, <2>9 DEF m
<1> DEFINE T == {n \in Nat : Power(b, n) # 0}
<1>3. 0 \in T BY <1>1
<1>4. ASSUME NEW n \in Nat, n \in T PROVE n + 1 \in T BY <1>2, <1>4, Product
<1>5. \A n \in Nat : n \in T
  <2> HIDE DEF T
  <2> QED BY <1>3, <1>4, Induct
<1> QED BY <1>1, <1>2, <1>5

LEMMA TwoPowers ==
  Power(2, 0) = 1 /\ \A n \in Nat : Power(2, n) \in Nat \ {0} /\ Power(2, n + 1) = 2 * Power(2, n)
<1>1. 2 \in Nat \ {0} OBVIOUS
<1> QED BY <1>1, PowerFacts

LEMMA PowersOfTwo ==
  /\ Power(2, 0) = 1 /\ Power(2, 1) = 2 /\ Power(2, 2) = 4 /\ Power(2, 3) = 8 /\ Power(2, 4) = 16
  /\ Power(2, 5) = 32 /\ Power(2, 6) = 64 /\ Power(2, 7) = 128 /\ Power(2, 8) = 256
<1>1. Power(2, 0) = 1 /\ \A n \in Nat : Power(2, n + 1) = 2 * Power(2, n) BY PowerFacts
<1>2. \A n \in Nat, v \in Nat, w \in Nat : w = n + 1 /\ Power(2, n) = v => Power(2, w) = 2 * v
  BY <1>1
<1>3. Power(2, 1) = 2 BY <1>1, <1>2
<1>4. Power(2, 2) = 4 BY <1>2, <1>3
<1>5. Power(2, 3) = 8 BY <1>2, <1>4
<1>6. Power(2, 4) = 16 BY <1>2, <1>5
<1>7. Power(2, 5) = 32 BY <1>2, <1>6
<1>8. Power(2, 6) = 64 BY <1>2, <1>7
<1>9. Power(2, 7) = 128 BY <1>2, <1>8
<1>10. Power(2, 8) = 256 BY <1>2, <1>9
<1> QED BY <1>1, <1>3, <1>4, <1>5, <1>6, <1>7, <1>8, <1>9, <1>10

LEMMA PowersGrow ==
  /\ \A n \in Nat : n < Power(2, n)
  /\ \A a, b \in Nat : a <= b => Power(2, a) <= Power(2, b)
<1>1. Power(2, 0) = 1 /\ \A n \in Nat : Power(2, n) \in Nat \ {0} /\ Power(2, n + 1) = 2 * Power(2, n) BY PowerFacts
<1>2. ASSUME NEW n \in Nat PROVE n < Power(2, n)
  <2> DEFINE T == {k \in Nat : k < Power(2, k)}
  <2>1. 0 \in T BY <1>1
  <2>2. \A k \in Nat : k \in T => k + 1 \in T BY <1>1
  <2> HIDE DEF T
  <2>3. n \in T BY <2>1, <2>2, Induct
  <2> QED BY <2>3 DEF T
<1>3. ASSUME NEW a \in Nat, NEW b \in Nat, a <= b PROVE Power(2, a) <= Power(2, b)
  <2> DEFINE T == {k \in Nat : Power(2, a) <= Power(2, a + k)}
  <2>1. 0 \in T BY <1>1
  <2>2. ASSUME NEW k \in Nat, k \in T PROVE k + 1 \in T
    <3>1. a + (k + 1) = (a + k) + 1 /\ a + k \in Nat OBVIOUS
    <3>2. Power(2, (a + k) + 1) = 2 * Power(2, a + k) /\ Power(2, a + k) \in Nat BY <1>1, <3>1
    <3>3. Power(2, a) <= Power(2, a + k) /\ Power(2, a) \in Nat BY <1>1, <2>2
    <3>4. Power(2, a) <= Power(2, a + (k + 1)) BY <3>1, <3>2, <3>3
    <3> QED BY <3>4
  <2>3. b - a \in Nat /\ a + (b - a) = b BY <1>3
  <2>4. b - a \in T
    <3> HIDE DEF T
    <3> QED BY <2>1, <2>2, <2>3, Induct
  <2> QED BY <2>3, <2>4
<1> QED BY <1>2, <1>3

-----------------------------------------------------------------------------
(* Division. *)

LEMMA DivFacts ==
  \A n \in Nat, d \in Nat \ {0} :
    n \div d \in Nat /\ n % d \in Nat /\ n % d < d /\ n = d * (n \div d) + (n % d)
BY SMT

LEMMA DivIs ==
  ASSUME NEW n \in Nat, NEW d \in Nat \ {0}, NEW q \in Nat, NEW r \in Nat, r < d, n = d * q + r
  PROVE  n \div d = q /\ n % d = r
<1> DEFINE a == n \div d
           b == n % d
<1>1. a \in Nat /\ b \in Nat /\ b < d /\ n = d * a + b BY DivFacts
<1> HIDE DEF a, b
<1>2. ~(a < q)
  <2> SUFFICES ASSUME a < q PROVE FALSE
      OBVIOUS
  <2>1. PICK e \in Nat : q = a + 1 + e
    <3>1. q - a - 1 \in Nat /\ q = a + 1 + (q - a - 1) BY <1>1
    <3> QED BY <3>1
  <2>2. d * q = d * a + d + d * e /\ d * e \in Nat /\ d * a \in Nat BY <1>1, <2>1
  <2> QED BY <1>1, <2>2
<1>3. ~(q < a)
  <2> SUFFICES ASSUME q < a PROVE FALSE
      OBVIOUS
  <2>1. PICK e \in Nat : a = q + 1 + e
    <3>1. a - q - 1 \in Nat /\ a = q + 1 + (a - q - 1) BY <1>1
    <3> QED BY <3>1
  <2>2. d * a = d * q + d + d * e /\ d * e \in Nat /\ d * q \in Nat BY <1>1, <2>1
  <2> QED BY <1>1, <2>2
<1>4. a = q BY <1>1, <1>2, <1>3
<1>5. d * q \in Nat OBVIOUS
<1>6. b = r BY <1>1, <1>4, <1>5
<1> QED BY <1>4, <1>6 DEF a, b

\* Halving a quotient doubles the divisor.
LEMMA HalfDiv ==
  ASSUME NEW n \in Nat, NEW d \in Nat \ {0}
  PROVE  n \div d = 2 * (n \div (2 * d)) + ((n \div d) % 2)
<1> DEFINE e == 2 * d
           a == n \div e
           r == n % e
<1>1. e \in Nat \ {0} OBVIOUS
<1>2. a \in Nat /\ r \in Nat /\ r < e /\ n = e * a + r BY <1>1, DivFacts
<1>3. e * a = d * (2 * a) /\ d * (2 * a + 1) = d * (2 * a) + d /\ e = 2 * d
  <2>1. a \in Nat BY <1>2
  <2> HIDE DEF a
  <2> QED BY <2>1
<1> HIDE DEF e, a, r
<1>4. CASE r < d
  <2>1. n = d * (2 * a) + r BY <1>2, <1>3
  <2>2. 2 * a \in Nat BY <1>2
  <2>3. n \div d = 2 * a BY <1>2, <1>4, <2>1, <2>2, DivIs
  <2>4. (n \div d) % 2 = 0 BY <1>2, <2>3
  <2> HIDE DEF a
  <2>5. n \div d = 2 * a + ((n \div d) % 2) BY <1>2, <2>3, <2>4
  <2> QED BY <2>5 DEF a, e
<1>5. CASE ~(r < d)
  <2> DEFINE f == r - d
             g == 2 * a + 1
             h == d * (2 * a)
  <2>4. h \in Nat /\ d * g = h + d /\ e * a = h BY <1>2, <1>3
  <2>1. n = d * g + f /\ f \in Nat /\ f < d /\ g \in Nat
    <3>1. f \in Nat /\ f < d /\ g \in Nat BY <1>2, <1>3, <1>5
    <3> HIDE DEF g, h
    <3>2. n = h + r BY <1>2, <2>4
    <3> QED BY <1>2, <2>4, <3>1, <3>2
  <2> HIDE DEF f
  <2>2. n \div d = g
    <3> HIDE DEF g
    <3> QED BY <2>1, DivIs
  <2>3. g % 2 = 1 BY <1>2
  <2>6. (n \div d) % 2 = 1 BY <2>2, <2>3
  <2>5. n \div d = 2 * a + ((n \div d) % 2) BY <1>2, <2>2, <2>6
  <2> QED BY <2>5 DEF a, e
<1> QED BY <1>4, <1>5


-----------------------------------------------------------------------------
(* Bits. *)

Bit == {0, 1}

LEMMA BitFacts == \A x \in Bit : x \in Nat /\ x < 2
BY DEF Bit

LEMMA BitSeq == \A s, n : n \in Nat => (s \in [1..n -> Bit] => s \in Seq(Bit) /\ Len(s) = n /\ DOMAIN s = 1..n)
OBVIOUS

\* Reading binary digits from the front.
LEMMA BinToIntUnfolds ==
  ASSUME NEW s \in Seq(Bit)
  PROVE  \E f \in [0..Len(s) -> Nat] :
           BinToInt(s) = f[Len(s)] /\ f[0] = 0 /\ \A k \in 1..Len(s) : f[k] = 2 * f[k - 1] + s[k]
<1> DEFINE upTo[i \in 0..Len(s)] == IF i = 0 THEN 0 ELSE 2 * upTo[i - 1] + s[i]
           n == Len(s)
           g == [x \in (1..n) \X Nat |-> 2 * x[2] + s[x[1]]]
<1>0. n \in Nat /\ \A k \in 1..n : s[k] \in Nat
  <2>1. \A k \in 1..Len(s) : s[k] \in Bit BY ElementOfSeq
  <2> QED BY <2>1 DEF Bit
<1>1. BinToInt(s) = upTo[n] BY DEF BinToInt
<1>2. g \in Steps(n, Nat)
  <2>1. ASSUME NEW x \in (1..n) \X Nat PROVE 2 * x[2] + s[x[1]] \in Nat
    <3>1. x[1] \in 1..n /\ x[2] \in Nat OBVIOUS
    <3>2. s[x[1]] \in Nat BY <1>0, <3>1
    <3> QED BY <3>1, <3>2
  <2> QED BY <2>1 DEF Steps
<1>3. PICK f \in [0..n -> Nat] : f[0] = 0 /\ \A k \in 1..n : f[k] = g[<<k, f[k - 1]>>]
  <2> HIDE DEF g, n
  <2>1. 0 \in Nat OBVIOUS
  <2>2. \E f \in Values(n, Nat) : Unfolds(f, n, 0, g) BY <1>0, <1>2, <2>1, Recursion, Zenon
  <2> QED BY <2>2 DEF Values, Unfolds
<1>4. ASSUME NEW k \in 1..n PROVE f[k] = 2 * f[k - 1] + s[k]
  <2>1. k - 1 \in 0..n BY <1>0
  <2>2. <<k, f[k - 1]>> \in (1..n) \X Nat BY <1>3, <2>1
  <2> QED BY <1>3, <2>2
<1>5. f = [k \in 0..n |-> IF k = 0 THEN 0 ELSE 2 * f[k - 1] + s[k]]
  <2>1. \A k \in 0..n : k # 0 => k \in 1..n BY <1>0
  <2>2. \A k \in 0..n : f[k] = IF k = 0 THEN 0 ELSE 2 * f[k - 1] + s[k] BY <1>3, <1>4, <2>1, Zenon
  <2> QED BY <2>2
<1>6. upTo = [k \in 0..n |-> IF k = 0 THEN 0 ELSE 2 * upTo[k - 1] + s[k]] BY <1>5, Zenon DEF upTo
<1> HIDE DEF upTo, g
<1> DEFINE T == {k \in Nat : k <= n => upTo[k] = f[k]}
<1>7. 0 \in T BY <1>0, <1>3, <1>6
<1>8. ASSUME NEW k \in Nat, k \in T PROVE k + 1 \in T
  <2> SUFFICES ASSUME k + 1 <= n PROVE upTo[k + 1] = f[k + 1]
      OBVIOUS
  <2> DEFINE j == k + 1
  <2>1. j \in 0..n /\ j \in 1..n /\ j # 0 /\ j - 1 = k BY <1>0
  <2>2. upTo[k] = f[k] BY <1>0, <1>8
  <2> SUFFICES upTo[j] = f[j]
      OBVIOUS
  <2> HIDE DEF j, n
  <2>3. upTo[j] = 2 * upTo[j - 1] + s[j] BY <1>6, <2>1, Zenon
  <2>4. f[j] = 2 * f[j - 1] + s[j] BY <1>4, <2>1, Zenon
  <2> QED BY <2>1, <2>2, <2>3, <2>4, Zenon
<1>9. n \in T
  <2> HIDE DEF T, n
  <2> QED BY <1>0, <1>7, <1>8, Induct
<1>10. upTo[n] = f[n] BY <1>0, <1>9
<1> QED BY <1>1, <1>3, <1>4, <1>10

LEMMA BitsOfFacts ==
  ASSUME NEW n \in Nat, NEW w \in Nat
  PROVE  /\ BitsOf(n, w) \in Seq(Bit) /\ Len(BitsOf(n, w)) = w /\ DOMAIN BitsOf(n, w) = 1..w
         /\ \A i \in 1..w : BitsOf(n, w)[i] = (n \div Power(2, w - i)) % 2
<1>1. ASSUME NEW i \in 1..w PROVE (n \div Power(2, w - i)) % 2 \in Bit
  <2>1. w - i \in Nat OBVIOUS
  <2>2. Power(2, w - i) \in Nat \ {0} BY <2>1, PowerFacts
  <2>3. n \div Power(2, w - i) \in Nat BY <2>2, DivFacts
  <2> QED BY <2>3 DEF Bit
<1>2. BitsOf(n, w) \in [1..w -> Bit] BY <1>1 DEF BitsOf
<1> QED BY <1>2, BitSeq DEF BitsOf

\* The digits of a number that fits read as the number.
LEMMA BitsRead ==
  ASSUME NEW n \in Nat, NEW w \in Nat, n < Power(2, w)
  PROVE  BinToInt(BitsOf(n, w)) = n
<1> DEFINE s == BitsOf(n, w)
<1>1. /\ s \in Seq(Bit) /\ Len(s) = w /\ \A i \in 1..w : s[i] = (n \div Power(2, w - i)) % 2
      BY BitsOfFacts
<1> HIDE DEF s
<1>2. PICK f \in [0..w -> Nat] : BinToInt(s) = f[w] /\ f[0] = 0 /\ \A k \in 1..w : f[k] = 2 * f[k - 1] + s[k]
      BY <1>1, BinToIntUnfolds
<1> DEFINE T == {i \in Nat : i <= w => f[i] = n \div Power(2, w - i)}
<1>3. 0 \in T
  <2> DEFINE d == Power(2, w)
  <2>1. d \in Nat \ {0} /\ n < d BY PowerFacts
  <2> HIDE DEF d
  <2>2. d * 0 = 0 BY <2>1
  <2>3. n \div d = 0 BY <2>1, <2>2, DivIs
  <2>4. w - 0 = w OBVIOUS
  <2> QED BY <1>2, <2>3, <2>4 DEF d
<1>4. ASSUME NEW i \in Nat, i \in T PROVE i + 1 \in T
  <2> SUFFICES ASSUME i + 1 <= w PROVE f[i + 1] = n \div Power(2, w - (i + 1))
      OBVIOUS
  <2> DEFINE j == i + 1
             m == w - j
             d == Power(2, m)
  <2>1. j \in 1..w /\ j - 1 = i /\ m \in Nat /\ w - i = m + 1 OBVIOUS
  <2>2. f[i] = n \div Power(2, w - i) BY <1>4
  <2> SUFFICES f[j] = n \div d
      OBVIOUS
  <2>5. s[j] = (n \div d) % 2 BY <1>1, <2>1
  <2> HIDE DEF j, m
  <2>7. d \in Nat \ {0} /\ Power(2, m + 1) = 2 * d BY <2>1, TwoPowers, Zenon
  <2>3. d \in Nat \ {0} /\ Power(2, w - i) = 2 * d BY <2>1, <2>7, Zenon
  <2>4. f[j] = 2 * f[i] + s[j] BY <1>2, <2>1
  <2> HIDE DEF d
  <2>6. n \div d = 2 * (n \div (2 * d)) + ((n \div d) % 2) BY <2>3, HalfDiv
  <2> QED BY <2>2, <2>3, <2>4, <2>5, <2>6
<1>5. w \in T
  <2> HIDE DEF T
  <2> QED BY <1>3, <1>4, Induct
<1>6. f[w] = n \div Power(2, w - w) /\ w - w = 0 BY <1>5
<1>7. Power(2, 0) = 1 BY PowerFacts
<1>8. n \div 1 = n OBVIOUS
<1> QED BY <1>2, <1>6, <1>7, <1>8 DEF s

\* Eight bits are a byte, and are its bits.
Doubles(f, s) == (\A k \in 1..8 : f[k] = 2 * f[k - 1] + s[k]) /\ (\A k \in 1..8 : s[k] \in Nat) /\ f[0] = 0
Weighted(v, s) == v = 128 * s[1] + 64 * s[2] + 32 * s[3] + 16 * s[4] + 8 * s[5] + 4 * s[6] + 2 * s[7] + s[8]

LEMMA Horner ==
  ASSUME NEW f, NEW s, Doubles(f, s)
  PROVE  Weighted(f[8], s)
<1> USE DEF Doubles
<1>1. f[1] = s[1] OBVIOUS
<1>2. f[2] = 2 * s[1] + s[2] BY <1>1
<1>3. f[3] = 4 * s[1] + 2 * s[2] + s[3] BY <1>2
<1>4. f[4] = 8 * s[1] + 4 * s[2] + 2 * s[3] + s[4] BY <1>3
<1>5. f[5] = 16 * s[1] + 8 * s[2] + 4 * s[3] + 2 * s[4] + s[5] BY <1>4
<1>6. f[6] = 32 * s[1] + 16 * s[2] + 8 * s[3] + 4 * s[4] + 2 * s[5] + s[6] BY <1>5
<1>7. f[7] = 64 * s[1] + 32 * s[2] + 16 * s[3] + 8 * s[4] + 4 * s[5] + 2 * s[6] + s[7] BY <1>6
<1>8. f[8] = 2 * f[7] + s[8] OBVIOUS
<1>9. s[1] \in Nat /\ s[2] \in Nat /\ s[3] \in Nat /\ s[4] \in Nat OBVIOUS
<1>10. s[5] \in Nat /\ s[6] \in Nat /\ s[7] \in Nat /\ s[8] \in Nat OBVIOUS
<1> HIDE DEF Doubles
<1> QED BY <1>7, <1>8, <1>9, <1>10 DEF Weighted

\* The number v of eight binary digits.
Digits(v, a, b, c, d, e, f, g, h) ==
  /\ a \in Nat /\ b \in Nat /\ c \in Nat /\ d \in Nat /\ e \in Nat /\ f \in Nat /\ g \in Nat /\ h \in Nat /\ v \in Nat
  /\ a < 2 /\ b < 2 /\ c < 2 /\ d < 2 /\ e < 2 /\ f < 2 /\ g < 2 /\ h < 2
  /\ v = 128 * a + 64 * b + 32 * c + 16 * d + 8 * e + 4 * f + 2 * g + h

LEMMA DigitsRead ==
  ASSUME NEW a, NEW b, NEW c, NEW d, NEW e, NEW f, NEW g, NEW h, NEW v, Digits(v, a, b, c, d, e, f, g, h)
  PROVE  /\ v \in Byte
         /\ (v \div 128) % 2 = a /\ (v \div 64) % 2 = b /\ (v \div 32) % 2 = c /\ (v \div 16) % 2 = d
         /\ (v \div 8) % 2 = e /\ (v \div 4) % 2 = f /\ (v \div 2) % 2 = g /\ (v \div 1) % 2 = h
<1> USE DEF Digits
<1>1. v \in Byte BY DEF Byte
<1>2. (v \div 128) % 2 = a OBVIOUS
<1>3. (v \div 64) % 2 = b OBVIOUS
<1>4. (v \div 32) % 2 = c OBVIOUS
<1>5. (v \div 16) % 2 = d OBVIOUS
<1>6. (v \div 8) % 2 = e OBVIOUS
<1>7. (v \div 4) % 2 = f OBVIOUS
<1>8. (v \div 2) % 2 = g OBVIOUS
<1>9. (v \div 1) % 2 = h OBVIOUS
<1> HIDE DEF Digits
<1> QED BY <1>1, <1>2, <1>3, <1>4, <1>5, <1>6, <1>7, <1>8, <1>9, Zenon

LEMMA EightBits ==
  ASSUME NEW s \in Seq(Bit), Len(s) = 8
  PROVE  BinToInt(s) \in Byte /\ \A i \in 1..8 : BitsOf(BinToInt(s), 8)[i] = s[i]
<1>1. PICK f \in [0..8 -> Nat] : BinToInt(s) = f[8] /\ f[0] = 0 /\ \A k \in 1..8 : f[k] = 2 * f[k - 1] + s[k]
      BY BinToIntUnfolds
<1> DEFINE v == BinToInt(s)
<1>2. \A k \in 1..8 : s[k] \in Nat /\ s[k] < 2 BY ElementOfSeq, BitFacts
<1>3. Weighted(v, s)
  <2>1. Doubles(f, s) BY <1>1, <1>2 DEF Doubles
  <2>2. Weighted(f[8], s) BY <2>1, Horner, Zenon
  <2> QED BY <1>1, <2>2, Zenon
<1>4. v \in Nat BY <1>1
<1> HIDE DEF v
<1>5. Digits(v, s[1], s[2], s[3], s[4], s[5], s[6], s[7], s[8]) BY <1>2, <1>3, <1>4 DEF Digits, Weighted
<1>6. /\ v \in Byte
      /\ (v \div 128) % 2 = s[1] /\ (v \div 64) % 2 = s[2] /\ (v \div 32) % 2 = s[3] /\ (v \div 16) % 2 = s[4]
      /\ (v \div 8) % 2 = s[5] /\ (v \div 4) % 2 = s[6] /\ (v \div 2) % 2 = s[7] /\ (v \div 1) % 2 = s[8]
  BY <1>5, DigitsRead, SMTT(20)
<1> DEFINE B == BitsOf(v, 8)
<1>20. \A i \in 1..8 : B[i] = (v \div Power(2, 8 - i)) % 2
  <2>1. 8 \in Nat OBVIOUS
  <2> QED BY <1>4, <2>1, BitsOfFacts
<1> HIDE DEF B
<1>21. /\ B[1] = (v \div 128) % 2 /\ B[2] = (v \div 64) % 2 /\ B[3] = (v \div 32) % 2 /\ B[4] = (v \div 16) % 2
       /\ B[5] = (v \div 8) % 2 /\ B[6] = (v \div 4) % 2 /\ B[7] = (v \div 2) % 2 /\ B[8] = (v \div 1) % 2
  BY <1>20, PowersOfTwo
<1>22. /\ B[1] = s[1] /\ B[2] = s[2] /\ B[3] = s[3] /\ B[4] = s[4]
       /\ B[5] = s[5] /\ B[6] = s[6] /\ B[7] = s[7] /\ B[8] = s[8]
  BY <1>6, <1>21, Zenon
<1>23. ASSUME NEW i \in 1..8 PROVE B[i] = s[i]
  <2>1. i = 1 \/ i = 2 \/ i = 3 \/ i = 4 \/ i = 5 \/ i = 6 \/ i = 7 \/ i = 8 OBVIOUS
  <2> QED BY <1>22, <2>1, Zenon
<1> QED BY <1>6, <1>23 DEF v, B

\* A number has as many binary digits as it takes, and no more.
LEMMA BitLengthFacts ==
  ASSUME NEW n \in Nat
  PROVE  /\ BitLength(n) \in Nat /\ BitLength(n) >= 1
         /\ \A w \in Nat : w >= 1 /\ n < Power(2, w) => BitLength(n) <= w
<1> DEFINE W == {w \in Nat : w >= 1 /\ n < Power(2, w)}
           l == BitLength(n)
           Fit(w) == n < Power(2, w) /\ (w = 1 \/ n >= Power(2, w - 1))
<1>0. \A k \in Nat : Power(2, k) \in Nat BY TwoPowers
<1>1. n + 1 \in W
  <2>1. n + 1 \in Nat /\ n + 1 >= 1 OBVIOUS
  <2>2. n + 1 < Power(2, n + 1) BY <2>1, PowersGrow
  <2> QED BY <1>0, <2>1, <2>2
<1>2. PICK x \in W : \A y \in W : x <= y
  <2>1. W \in SUBSET Nat /\ W # {} BY <1>1
  <2> HIDE DEF W
  <2> QED BY <2>1, LeastOf
<1>3. x \in 1..(n + 1)
  <2>1. x \in Nat /\ x >= 1 OBVIOUS
  <2>2. x <= n + 1
    <3> HIDE DEF W
    <3> QED BY <1>1, <1>2
  <2> QED BY <2>1, <2>2
<1>4. Fit(x)
  <2>1. n < Power(2, x) OBVIOUS
  <2>2. ASSUME x # 1 PROVE n >= Power(2, x - 1)
    <3>1. x - 1 \in Nat /\ x - 1 >= 1 /\ ~(x <= x - 1) BY <1>3, <2>2
    <3>2. x - 1 \notin W
      <4> HIDE DEF W
      <4> QED BY <1>2, <3>1
    <3>3. ~(n < Power(2, x - 1)) BY <3>1, <3>2
    <3> QED BY <1>0, <3>1, <3>3
  <2> QED BY <2>1, <2>2
<1>5. l \in 1..(n + 1) /\ Fit(l)
  <2>1. l = CHOOSE w \in 1..(n + 1) : Fit(w) BY DEF BitLength
  <2> HIDE DEF Fit, l
  <2> QED BY <1>3, <1>4, <2>1
<1>6. ASSUME NEW w \in Nat, w >= 1, n < Power(2, w) PROVE l <= w
  <2> HIDE DEF l
  <2> SUFFICES ASSUME l > w PROVE FALSE
      BY <1>5
  <2>1. l # 1 /\ l - 1 \in Nat /\ w <= l - 1 BY <1>5, <1>6
  <2>2. Power(2, w) <= Power(2, l - 1) BY <2>1, PowersGrow
  <2>3. n >= Power(2, l - 1) BY <1>5, <2>1
  <2>4. Power(2, w) \in Nat /\ Power(2, l - 1) \in Nat BY <1>0, <2>1
  <2> QED BY <1>6, <2>2, <2>3, <2>4
<1> QED BY <1>5, <1>6

LEMMA ZfillFacts ==
  ASSUME NEW n \in Nat, NEW w \in Nat, w >= 1
  PROVE  /\ \A i \in 1..w : Zfill(n, w)[i] \in Bit
         /\ n < Power(2, w) => Zfill(n, w) = BitsOf(n, w)
<1> DEFINE m == Most(w, BitLength(n))
<1>1. Zfill(n, w) = BitsOf(n, m) BY DEF Zfill
<1>2. m \in Nat /\ w <= m BY BitLengthFacts DEF Most
<1>3. n < Power(2, w) => m = w BY BitLengthFacts DEF Most
<1> HIDE DEF m
<1>4. BitsOf(n, m) \in Seq(Bit) /\ Len(BitsOf(n, m)) = m BY <1>2, BitsOfFacts
<1>5. \A i \in 1..w : BitsOf(n, m)[i] \in Bit
  <2> TAKE i \in 1..w
  <2>1. i \in 1..m BY <1>2
  <2> QED BY <1>4, <2>1, ElementOfSeq
<1> QED BY <1>1, <1>3, <1>5

\* Every bit is one of eight of some byte.
LEMMA BitPlace ==
  \A b \in Nat : b >= 1 =>
    /\ ((b - 1) \div 8) + 1 \in Nat /\ ((b - 1) \div 8) + 1 >= 1 /\ ((b - 1) % 8) + 1 \in 1..8
    /\ b = 8 * (((b - 1) \div 8) + 1 - 1) + (((b - 1) % 8) + 1)
OBVIOUS

LEMMA BitPlaceIs ==
  \A j \in Nat, i \in 1..8 : j >= 1 =>
    ((8 * (j - 1) + i - 1) \div 8) + 1 = j /\ ((8 * (j - 1) + i - 1) % 8) + 1 = i
OBVIOUS

LEMMA ByteFacts == \A x \in Byte : x \in Nat
BY DEF Byte

LEMMA HexToBinFacts ==
  ASSUME NEW bytes \in Seq(Byte)
  PROVE  /\ HexToBin(bytes) \in Seq(Bit) /\ Len(HexToBin(bytes)) = 8 * Len(bytes)
         /\ DOMAIN HexToBin(bytes) = 1..(8 * Len(bytes))
         /\ \A j \in 1..Len(bytes), i \in 1..8 : HexToBin(bytes)[8 * (j - 1) + i] = BitsOf(bytes[j], 8)[i]
<1> DEFINE n == Len(bytes)
           J(b) == ((b - 1) \div 8) + 1
           I(b) == ((b - 1) % 8) + 1
           h == [b \in 1..(8 * n) |-> BitsOf(bytes[J(b)], 8)[I(b)]]
<1>1. HexToBin(bytes) = h BY DEF HexToBin
<1>2. n \in Nat /\ \A j \in 1..n : bytes[j] \in Nat
  <2>1. \A j \in 1..Len(bytes) : bytes[j] \in Byte BY ElementOfSeq
  <2>2. n \in Nat BY LenProperties
  <2> QED BY <2>1, <2>2, ByteFacts, Zenon
<1>3. ASSUME NEW j \in 1..n, NEW i \in 1..8 PROVE BitsOf(bytes[j], 8)[i] \in Bit
  <2>1. bytes[j] \in Nat /\ 8 \in Nat BY <1>2
  <2>2. BitsOf(bytes[j], 8) \in Seq(Bit) /\ Len(BitsOf(bytes[j], 8)) = 8 BY <2>1, BitsOfFacts
  <2> QED BY <2>2, ElementOfSeq
<1>4. ASSUME NEW b \in 1..(8 * n) PROVE J(b) \in 1..n /\ I(b) \in 1..8
  <2>1. b \in Nat /\ b >= 1 OBVIOUS
  <2> DEFINE x == J(b)
             y == I(b)
  <2>2. x \in Nat /\ x >= 1 /\ y \in 1..8 /\ b = 8 * (x - 1) + y BY <2>1, BitPlace
  <2> HIDE DEF x, y
  <2>3. x <= n BY <1>2, <2>2
  <2> QED BY <2>2, <2>3 DEF x, y
<1> HIDE DEF n
<1>5. h \in [1..(8 * n) -> Bit]
  <2> HIDE DEF J, I
  <2> QED BY <1>3, <1>4
<1>6. 8 * n \in Nat BY <1>2
<1>7. h \in Seq(Bit) /\ Len(h) = 8 * n /\ DOMAIN h = 1..(8 * n)
  <2> HIDE DEF h
  <2> QED BY <1>5, <1>6, BitSeq
<1>8. ASSUME NEW j \in 1..n, NEW i \in 1..8 PROVE h[8 * (j - 1) + i] = BitsOf(bytes[j], 8)[i]
  <2> DEFINE b == 8 * (j - 1) + i
  <2>1. b \in 1..(8 * n) BY <1>2
  <2>2. J(b) = j /\ I(b) = i
    <3>1. j \in Nat /\ j >= 1 BY <1>2
    <3> QED BY <3>1, BitPlaceIs
  <2> SUFFICES h[b] = BitsOf(bytes[j], 8)[i]
      OBVIOUS
  <2> HIDE DEF b, J, I
  <2> QED BY <2>1, <2>2
<1> HIDE DEF h
<1> QED BY <1>1, <1>7, <1>8 DEF n

\* The bits of some bytes of a frame are bits of the frame.
LEMMA Window ==
  ASSUME NEW bytes \in Seq(Byte), NEW a \in Nat, NEW m \in Nat, a >= 1, a - 1 + m <= Len(bytes)
  PROVE  /\ SubSeq(bytes, a, a - 1 + m) \in Seq(Byte) /\ Len(SubSeq(bytes, a, a - 1 + m)) = m
         /\ \A b \in 1..(8 * m) : HexToBin(SubSeq(bytes, a, a - 1 + m))[b] = HexToBin(bytes)[8 * (a - 1) + b]
<1> DEFINE w == SubSeq(bytes, a, a - 1 + m)
           n == Len(bytes)
           c == a - 1 + m
<1>1. n \in Nat /\ c \in Nat /\ c <= n BY LenProperties
<1>2. w \in Seq(Byte) /\ Len(w) = m /\ \A j \in 1..m : w[j] = bytes[a - 1 + j]
  <2>1. \A j \in a..c : j \in 1..n BY <1>1
  <2>2. \A j \in a..c : bytes[j] \in Byte BY <2>1, ElementOfSeq
  <2>3. /\ SubSeq(bytes, a, c) \in Seq(Byte) /\ Len(SubSeq(bytes, a, c)) = IF a <= c THEN c - a + 1 ELSE 0
        /\ \A j \in 1..(c - a + 1) : SubSeq(bytes, a, c)[j] = bytes[a + j - 1]
        BY <1>1, <2>2, SubSeqProperties
  <2>4. Len(w) = m BY <2>3
  <2>5. \A j \in 1..m : j \in 1..(c - a + 1) /\ a + j - 1 = a - 1 + j OBVIOUS
  <2> QED BY <2>3, <2>4, <2>5
<1>3. ASSUME NEW b \in 1..(8 * m) PROVE HexToBin(w)[b] = HexToBin(bytes)[8 * (a - 1) + b]
  <2>1. PICK j \in Nat, i \in 1..8 : j >= 1 /\ b = 8 * (j - 1) + i
    <3>1. b \in Nat /\ b >= 1 OBVIOUS
    <3> DEFINE x == ((b - 1) \div 8) + 1
               y == ((b - 1) % 8) + 1
    <3>2. x \in Nat /\ x >= 1 /\ y \in 1..8 /\ b = 8 * (x - 1) + y BY <3>1, BitPlace
    <3> HIDE DEF x, y
    <3> QED BY <3>2
  <2>2. j \in 1..m BY <2>1
  <2> DEFINE k == a - 1 + j
  <2>3. k \in 1..n /\ 8 * (a - 1) + b = 8 * (k - 1) + i BY <1>1, <2>1, <2>2
  <2>4. w[j] = bytes[k] BY <1>2, <2>2
  <2> HIDE DEF k, w, n
  <2>5. HexToBin(w)[8 * (j - 1) + i] = BitsOf(w[j], 8)[i] BY <1>2, <2>2, HexToBinFacts
  <2>6. HexToBin(bytes)[8 * (k - 1) + i] = BitsOf(bytes[k], 8)[i] BY <2>3, HexToBinFacts DEF n
  <2> QED BY <2>1, <2>3, <2>4, <2>5, <2>6
<1> QED BY <1>2, <1>3

\* A slice between two places of which the first is not behind the second.
LEMMA Sliced ==
  ASSUME NEW S, NEW s \in Seq(S), NEW a \in Nat, NEW b \in Nat, a <= b
  PROVE  /\ PySlice(s, a, b) \in Seq(S)
         /\ PySlice(s, a, b) = SubSeq(s, Least(a, Len(s)) + 1, Least(b, Len(s)))
         /\ Len(PySlice(s, a, b)) = Least(b, Len(s)) - Least(a, Len(s))
         /\ \A i \in 1..(Least(b, Len(s)) - Least(a, Len(s))) : PySlice(s, a, b)[i] = s[Least(a, Len(s)) + i]
<1> DEFINE n == Len(s)
           x == Least(a, n)
           y == Least(b, n)
<1>1. n \in Nat BY LenProperties
<1>2. PySlice(s, a, b) = SubSeq(s, x + 1, y)
  <2>1. ~(a < 0) /\ ~(b < 0) OBVIOUS
  <2> QED BY <2>1, Zenon DEF PySlice
<1>3. x \in Nat /\ y \in Nat /\ x <= y /\ y <= n BY <1>1 DEF Least
<1> HIDE DEF x, y
<1>4. \A j \in (x + 1)..y : s[j] \in S
  <2> TAKE j \in (x + 1)..y
  <2>1. j \in 1..n BY <1>1, <1>3
  <2> QED BY <2>1, ElementOfSeq
<1>5. x + 1 \in Int /\ y \in Int BY <1>3
<1>6. /\ SubSeq(s, x + 1, y) \in Seq(S)
      /\ Len(SubSeq(s, x + 1, y)) = IF x + 1 <= y THEN y - (x + 1) + 1 ELSE 0
      /\ \A j \in 1..(y - (x + 1) + 1) : SubSeq(s, x + 1, y)[j] = s[(x + 1) + j - 1]
      BY <1>4, <1>5, SubSeqProperties
<1>7. Len(SubSeq(s, x + 1, y)) = y - x BY <1>3, <1>6
<1>8. ASSUME NEW i \in 1..(y - x) PROVE SubSeq(s, x + 1, y)[i] = s[x + i]
  <2>1. i \in 1..(y - (x + 1) + 1) /\ (x + 1) + i - 1 = x + i BY <1>3
  <2> QED BY <1>6, <2>1
<1> QED BY <1>2, <1>6, <1>7, <1>8 DEF x, y

-----------------------------------------------------------------------------
(* Where the bits of a field are written. *)

LEMMA CeilFacts ==
  \A n \in Nat : CeilDiv(n, 8) \in Nat /\ n <= 8 * CeilDiv(n, 8) /\ 8 * CeilDiv(n, 8) < n + 8
BY DEF CeilDiv

LEMMA EighthsFacts ==
  \A n \in Nat : n \div 8 \in Nat /\ n % 8 \in 0..7 /\ n = 8 * (n \div 8) + (n % 8)
OBVIOUS

\* A little-endian field in its first byte, and one that goes on in the next ones.
LEMMA OrderLittleShort ==
  ASSUME NEW f, NEW e, IsField(f), IsLittleEndian(f, e), f.bits <= 8 - f.offset
  PROVE  WriteOrder(f, e) = [i \in 1..f.bits |-> 8 - f.offset - f.bits + i]
<1> DEFINE bits == f.bits
           room == 8 - f.offset
           first == Most(room - bits, 0)
<1>1. bits \in Nat \ {0} /\ room \in 1..8 /\ bits <= room BY DEF IsField
<1> HIDE DEF bits, room
<1>2. first = room - bits BY <1>1 DEF Most
<1> HIDE DEF first
<1> DEFINE head == room - first
           whole == 8 * ((bits - head) \div 8)
           rest == (bits - head) % 8
           Place(i) == CASE i <= head -> first + i
                         [] i > head /\ i <= head + whole -> 8 + i - head
                         [] OTHER -> 8 + whole + (8 - rest) + (i - head - whole)
<1>3. WriteOrder(f, e) = [i \in 1..bits |-> Place(i)] BY Zenon DEF WriteOrder, bits, room, first
<1>4. ASSUME NEW i \in 1..bits PROVE Place(i) = room - bits + i
  <2>1. i <= head /\ ~(i > head) /\ first + i = room - bits + i BY <1>1, <1>2
  <2> HIDE DEF head, whole, rest
  <2> QED BY <2>1, Zenon
<1> HIDE DEF Place
<1>5. WriteOrder(f, e) = [i \in 1..bits |-> room - bits + i] BY <1>3, <1>4
<1> QED BY <1>5 DEF bits, room

Shape(f, e, room, q, r) ==
  /\ room = 8 - f.offset /\ q = (f.bits - room) \div 8 /\ r = (f.bits - room) % 8
  /\ f.bits = room + 8 * q + r
  /\ WriteOrder(f, e) = [i \in 1..f.bits |->
        IF i <= room THEN i ELSE IF i <= room + 8 * q THEN 8 + i - room ELSE 16 - r + (i - room)]

LEMMA OrderLittleLong ==
  ASSUME NEW f, NEW e, IsField(f), IsLittleEndian(f, e), f.bits > 8 - f.offset
  PROVE  \E room \in 1..8, q \in Nat, r \in 0..7 : Shape(f, e, room, q, r)
<1> DEFINE bits == f.bits
           room == 8 - f.offset
           first == Most(room - bits, 0)
           q == (bits - room) \div 8
           r == (bits - room) % 8
<1>1. bits \in Nat \ {0} /\ room \in 1..8 /\ bits > room BY DEF IsField
<1> HIDE DEF bits, room
<1>2. first = 0 BY <1>1 DEF Most
<1> HIDE DEF first
<1> DEFINE head == room - first
           whole == 8 * ((bits - head) \div 8)
           rest == (bits - head) % 8
           Place(i) == CASE i <= head -> first + i
                         [] i > head /\ i <= head + whole -> 8 + i - head
                         [] OTHER -> 8 + whole + (8 - rest) + (i - head - whole)
           Spot(i) == IF i <= room THEN i ELSE IF i <= room + 8 * q THEN 8 + i - room ELSE 16 - r + (i - room)
<1>3. WriteOrder(f, e) = [i \in 1..bits |-> Place(i)] BY Zenon DEF WriteOrder, bits, room, first
<1>4. head = room BY <1>1, <1>2
<1>5. q \in Nat /\ r \in 0..7 /\ bits = room + 8 * q + r
  <2>1. bits - room \in Nat BY <1>1
  <2>2. bits - room = 8 * q + r /\ q \in Nat /\ r \in 0..7 BY <2>1, EighthsFacts
  <2> HIDE DEF q, r
  <2> QED BY <1>1, <2>2
<1>6. whole = 8 * q /\ rest = r BY <1>4
<1> HIDE DEF q, r, head, whole, rest
<1>7. ASSUME NEW i \in 1..bits PROVE Place(i) = Spot(i)
  <2>1. CASE i <= head
    <3>1. ~(i > head) BY <1>1, <1>4, <2>1
    <3>2. Place(i) = first + i BY <2>1, <3>1, Zenon
    <3> QED BY <1>1, <1>2, <1>4, <2>1, <3>2
  <2>2. CASE i > head /\ i <= head + whole
    <3>1. ~(i <= head) BY <1>1, <1>4, <2>2
    <3>2. Place(i) = 8 + i - head BY <2>2, <3>1, Zenon
    <3> QED BY <1>1, <1>4, <1>5, <1>6, <2>2, <3>1, <3>2
  <2>3. CASE ~(i <= head) /\ ~(i <= head + whole)
    <3>1. Place(i) = 8 + whole + (8 - rest) + (i - head - whole) BY <2>3, Zenon
    <3>2. Place(i) = 16 - r + (i - room) BY <1>1, <1>4, <1>5, <1>6, <3>1
    <3> QED BY <1>4, <1>6, <2>3, <3>2
  <2> QED BY <1>1, <1>4, <2>1, <2>2, <2>3
<1> HIDE DEF Place
<1>9. WriteOrder(f, e) = [i \in 1..bits |-> Spot(i)]
  <2> HIDE DEF Spot
  <2> QED BY <1>3, <1>7
<1>10. Shape(f, e, room, q, r) BY <1>5, <1>9 DEF Shape, bits, room, q, r
<1> QED BY <1>1, <1>5, <1>10

\* The order is increasing, in the bytes the field reaches into, and its places are the field's own bits.
LEMMA OrderFacts ==
  ASSUME NEW f, NEW e, IsField(f), f.first >= 1
  PROVE  /\ Reach(f) \in Nat /\ Reach(f) >= 1
         /\ DOMAIN WriteOrder(f, e) = 1..f.bits
         /\ \A i \in 1..f.bits : /\ WriteOrder(f, e)[i] \in 1..(8 * Reach(f))
                                 /\ 8 * (f.first - 1) + WriteOrder(f, e)[i] \in Own(f, IsLittleEndian(f, e))
         /\ \A i, k \in 1..f.bits : i < k => WriteOrder(f, e)[i] < WriteOrder(f, e)[k]
<1> DEFINE bits == f.bits
           offset == f.offset
           start == 8 * (f.first - 1)
           R == Reach(f)
           order == WriteOrder(f, e)
           own == Own(f, IsLittleEndian(f, e))
<1>1. bits \in Nat \ {0} /\ offset \in 0..7 /\ start \in Nat BY DEF IsField
<1>2. R \in Nat /\ bits + offset <= 8 * R /\ 8 * R < bits + offset + 8
  <2>1. bits + offset \in Nat BY <1>1
  <2>2. R = CeilDiv(bits + offset, 8) BY DEF Reach
  <2> QED BY <2>1, <2>2, CeilFacts
<1>3. R >= 1 BY <1>1, <1>2
<1>4. CASE ~IsLittleEndian(f, e)
  <2>1. order = [i \in 1..bits |-> i + offset] BY <1>4, Zenon DEF WriteOrder
  <2>2. own = (start + offset + 1)..(start + offset + bits) BY <1>4, Zenon DEF Own
  <2> HIDE DEF order, own, bits, offset, start, R
  <2>3. \A i \in 1..bits : order[i] \in 1..(8 * R) /\ start + order[i] \in own BY <1>1, <1>2, <2>1, <2>2
  <2>4. \A i, k \in 1..bits : i < k => order[i] < order[k] BY <1>1, <2>1
  <2>5. DOMAIN order = 1..bits BY <2>1
  <2> QED BY <1>2, <1>3, <2>3, <2>4, <2>5, Zenon DEF order, own, bits, offset, start, R
<1>5. CASE IsLittleEndian(f, e) /\ bits <= 8 - offset
  <2>1. order = [i \in 1..bits |-> 8 - offset - bits + i] BY <1>5, OrderLittleShort
  <2>2. own = (start + (8 - offset) - bits + 1)..(start + (8 - offset))
    <3>1. bits - (8 - offset) <= 0 BY <1>1, <1>5
    <3> QED BY <1>5, <3>1, Zenon DEF Own
  <2> HIDE DEF order, own, bits, offset, start, R
  <2>3. \A i \in 1..bits : order[i] \in 1..(8 * R) /\ start + order[i] \in own BY <1>1, <1>2, <1>3, <1>5, <2>1, <2>2
  <2>4. \A i, k \in 1..bits : i < k => order[i] < order[k] BY <1>1, <2>1
  <2>5. DOMAIN order = 1..bits BY <2>1
  <2> QED BY <1>2, <1>3, <2>3, <2>4, <2>5, Zenon DEF order, own, bits, offset, start, R
<1>6. CASE IsLittleEndian(f, e) /\ ~(bits <= 8 - offset)
  <2>0. bits > 8 - offset BY <1>1, <1>6
  <2>9. PICK room \in 1..8, q \in Nat, r \in 0..7 : Shape(f, e, room, q, r) BY <1>6, <2>0, OrderLittleLong
  <2>1. /\ room = 8 - offset /\ q = (bits - room) \div 8 /\ r = (bits - room) % 8
        /\ bits = room + 8 * q + r
        /\ order = [i \in 1..bits |->
             IF i <= room THEN i ELSE IF i <= room + 8 * q THEN 8 + i - room ELSE 16 - r + (i - room)]
        BY <2>9, Zenon DEF Shape
  <2>7. room \in Nat /\ room >= 1 /\ room <= 8 OBVIOUS
  <2>2. own = ((start + 1)..(start + room)) \cup ((start + 9)..(start + 8 + 8 * q))
              \cup ((start + 16 + 8 * q - r + 1)..(IF r = 0 THEN start + 16 + 8 * q - 1 ELSE start + 16 + 8 * q))
    <3>1. ~(bits - room <= 0) BY <1>1, <2>0, <2>1
    <3>2. ~(bits - (8 - offset) <= 0) BY <2>1, <3>1
    <3> DEFINE little == IsLittleEndian(f, e)
               over == bits - (8 - offset)
               last == start + 16 + 8 * (over \div 8)
               Across == ((start + 1)..(start + (8 - offset))) \cup ((start + 9)..(start + 8 + 8 * (over \div 8)))
                         \cup ((last - (over % 8) + 1)..(IF over % 8 = 0 THEN last - 1 ELSE last))
               Ahead == (start + offset + 1)..(start + offset + bits)
               Within == (start + (8 - offset) - bits + 1)..(start + (8 - offset))
    <3>3. own = IF ~little THEN Ahead ELSE IF over <= 0 THEN Within ELSE Across BY DEF Own
    <3>4. own = Across
      <4> HIDE DEF own, Ahead, Within, Across, over
      <4> QED BY <1>6, <3>2, <3>3 DEF over
    <3> HIDE DEF own, start, bits, offset
    <3>5. over \div 8 = q /\ over % 8 = r /\ 8 - offset = room BY <2>1
    <3> HIDE DEF over
    <3>6. (start + 1)..(start + (8 - offset)) = (start + 1)..(start + room) BY <3>5
    <3>7. (start + 9)..(start + 8 + 8 * (over \div 8)) = (start + 9)..(start + 8 + 8 * q) BY <3>5
    <3>8. last = start + 16 + 8 * q BY <3>5
    <3> HIDE DEF last
    <3>9. (last - (over % 8) + 1)..(IF over % 8 = 0 THEN last - 1 ELSE last)
            = (start + 16 + 8 * q - r + 1)..(IF r = 0 THEN start + 16 + 8 * q - 1 ELSE start + 16 + 8 * q)
      BY <1>1, <3>5, <3>8
    <3> QED BY <3>4, <3>6, <3>7, <3>9
  <2> HIDE DEF order, own, bits, offset, start, R
  <2>6. 8 * R >= 8 + 8 * q + r /\ (r > 0 => 8 * R >= 16 + 8 * q)
    <3>1. bits + offset = 8 + 8 * q + r BY <1>1, <2>1
    <3> QED BY <1>1, <1>2, <2>1, <3>1
  <2>3. ASSUME NEW i \in 1..bits PROVE order[i] \in 1..(8 * R) /\ start + order[i] \in own
    <3>1. CASE i <= room
      <4>1. order[i] = i BY <2>1, <3>1
      <4>2. start + i \in (start + 1)..(start + room) BY <1>1, <2>1, <3>1
      <4>4. i \in Nat /\ i >= 1 /\ i <= 8 BY <1>1, <2>7, <3>1
      <4>3. i \in 1..(8 * R) BY <1>2, <1>3, <4>4
      <4> QED BY <2>2, <4>1, <4>2, <4>3, Zenon
    <3>2. CASE i > room /\ i <= room + 8 * q
      <4> DEFINE p == 8 + i - room
      <4>1. order[i] = p
        <5>1. ~(i <= room) BY <2>1, <3>2
        <5> QED BY <2>1, <3>2, <5>1
      <4>2. start + p \in (start + 9)..(start + 8 + 8 * q) BY <1>1, <2>1, <3>2
      <4>3. p \in 1..(8 * R) BY <1>1, <1>2, <2>1, <2>6, <3>2
      <4> HIDE DEF p
      <4> QED BY <2>2, <4>1, <4>2, <4>3
    <3>3. CASE i > room + 8 * q
      <4> DEFINE p == 16 - r + (i - room)
      <4>1. order[i] = p
        <5>1. ~(i <= room) /\ ~(i <= room + 8 * q) BY <1>1, <2>1, <3>3
        <5> QED BY <2>1, <5>1
      <4>2. r > 0 BY <1>1, <2>1, <3>3
      <4>3. start + p \in (start + 16 + 8 * q - r + 1)..(start + 16 + 8 * q) BY <1>1, <2>1, <3>3
      <4>4. p \in 1..(8 * R) BY <1>1, <1>2, <2>1, <2>6, <3>3, <4>2
      <4> HIDE DEF p
      <4> QED BY <2>2, <4>1, <4>2, <4>3, <4>4
    <3> QED BY <1>1, <2>1, <3>1, <3>2, <3>3
  <2>4. \A i, k \in 1..bits : i < k => order[i] < order[k]
    <3>1. \A i \in 1..bits : order[i] = IF i <= room THEN i ELSE IF i <= room + 8 * q THEN 8 + i - room ELSE 16 - r + (i - room)
          BY <2>1
    <3> QED BY <1>1, <2>1, <3>1
  <2>5. DOMAIN order = 1..bits BY <2>1
  <2> QED BY <1>2, <1>3, <2>3, <2>4, <2>5, Zenon DEF order, own, bits, offset, start, R
<1> QED BY <1>4, <1>5, <1>6


LEMMA PlaceInWindow ==
  /\ \A a, j, r \in Nat, i \in 1..8 : a >= 1 /\ j >= 1 /\ 8 * (j - 1) + i <= 8 * r =>
       /\ a - 1 + j \in a..(a - 1 + r) /\ 8 * (a - 1 + j - a) + i = 8 * (j - 1) + i
       /\ 8 * (a - 1) + (8 * (j - 1) + i) = 8 * (a - 1 + j - 1) + i
  /\ \A a, j, r \in Nat, i \in 1..8 : a >= 1 /\ j \in a..(a - 1 + r) =>
       8 * (j - a) + i \in 1..(8 * r) /\ 8 * (a - 1) + (8 * (j - a) + i) = 8 * (j - 1) + i
OBVIOUS

\* Packing rewrites the field's places with the leading bits of the value and nothing else.
LEMMA ChunkPlace ==
  \A j, first, r \in Int : first <= j /\ j <= (first - 1) + r =>
    /\ 8 * (j - first) + 1 \in Int /\ 8 * (j - first) + 8 \in Int
    /\ 8 * (j - first) + 1 >= 1 /\ 8 * (j - first) + 8 <= 8 * r
    /\ 8 * (j - first) + 8 = (8 * (j - first) + 1) + 7
OBVIOUS

LEMMA ChunkIndex == \A j, first, i \in Int : (8 * (j - first) + 1) + i - 1 = 8 * (j - first) + i
OBVIOUS

LEMMA PackFacts ==
  ASSUME NEW f, NEW e, IsField(f), NEW n \in Nat, NEW frame \in Seq(Byte), CanPack(f, e, frame)
  PROVE  /\ f.first >= 1
         /\ Pack(f, e, n, frame) \in Seq(Byte) /\ Len(Pack(f, e, n, frame)) = Len(frame)
         /\ \A i \in 1..f.bits :
              HexToBin(Pack(f, e, n, frame))[8 * (f.first - 1) + WriteOrder(f, e)[i]] = Zfill(n, f.bits)[i]
         /\ \A b \in 1..(8 * Len(frame)) :
              HexToBin(Pack(f, e, n, frame))[b] # HexToBin(frame)[b]
                => \E i \in 1..f.bits : b = 8 * (f.first - 1) + WriteOrder(f, e)[i]
<1> DEFINE bits == f.bits
           first == f.first
           R == Reach(f)
           order == WriteOrder(f, e)
           bin == Zfill(n, bits)
           last == first - 1 + R
           window == SubSeq(frame, first, last)
           old == HexToBin(window)
           At(b) == \E i \in DOMAIN order : order[i] = b
           Pick(b) == CHOOSE i \in DOMAIN order : order[i] = b
           new == [b \in DOMAIN old |-> IF At(b) THEN bin[Pick(b)] ELSE old[b]]
           Chunk(j) == SubSeq(new, 8 * (j - first) + 1, 8 * (j - first) + 8)
           N == Len(frame)
           packed == [j \in DOMAIN frame |-> IF j \in first..last THEN BinToInt(Chunk(j)) ELSE frame[j]]
<1>1. Pack(f, e, n, frame) = packed BY DEF Pack
<1>2. bits \in Nat \ {0} /\ first \in Int BY DEF IsField
<1>3. first >= 1
  <2>1. ~(first < 1) BY DEF CanPack, Outside
  <2> QED BY <1>2, <2>1
<1>4. /\ R \in Nat /\ R >= 1 /\ DOMAIN order = 1..bits
      /\ \A i \in 1..bits : order[i] \in 1..(8 * R)
      /\ \A i, k \in 1..bits : i < k => order[i] < order[k]
      BY <1>3, OrderFacts
<1>5. N \in Nat /\ first \in Nat /\ last \in Nat /\ last <= N /\ DOMAIN frame = 1..N
  <2>1. ~(last > N) BY DEF CanPack, Outside
  <2>2. N \in Nat /\ DOMAIN frame = 1..N BY LenProperties
  <2> HIDE DEF N, R
  <2> QED BY <1>2, <1>3, <1>4, <2>1, <2>2
<1>6. /\ window \in Seq(Byte) /\ Len(window) = R
      /\ \A b \in 1..(8 * R) : old[b] = HexToBin(frame)[8 * (first - 1) + b]
  BY <1>3, <1>4, <1>5, Window
<1>7. old \in Seq(Bit) /\ DOMAIN old = 1..(8 * R) BY <1>6, HexToBinFacts
<1> HIDE DEF window, old
<1>8. \A i \in 1..bits : bin[i] \in Bit BY <1>2, ZfillFacts
<1> HIDE DEF bin, order, bits
<1>9. ASSUME NEW i \in 1..bits PROVE At(order[i]) /\ Pick(order[i]) = i
  <2>1. At(order[i]) BY <1>4
  <2>2. Pick(order[i]) \in 1..bits /\ order[Pick(order[i])] = order[i] BY <1>4
  <2> DEFINE k == Pick(order[i])
  <2> HIDE DEF k
  <2>3. k \in 1..bits /\ order[k] = order[i] BY <2>2 DEF k
  <2>4. order[k] \in Int /\ order[i] \in Int BY <1>4, <2>3
  <2>5. ~(k < i) /\ ~(i < k) BY <1>4, <2>3, <2>4
  <2>6. k = i BY <1>2, <2>3, <2>5
  <2> QED BY <2>1, <2>6 DEF k
<1>10. new \in [1..(8 * R) -> Bit]
  <2> SUFFICES ASSUME NEW b \in 1..(8 * R) PROVE (IF At(b) THEN bin[Pick(b)] ELSE old[b]) \in Bit
      BY <1>7
  <2>1. CASE At(b)
    <3>1. Pick(b) \in 1..bits BY <1>4, <2>1
    <3> HIDE DEF Pick, At
    <3> QED BY <1>8, <2>1, <3>1
  <2>2. CASE ~At(b)
    <3>1. old[b] \in Bit
      <4>1. 8 * R \in Nat BY <1>4
      <4>2. Len(old) = 8 * R BY <1>6, HexToBinFacts DEF old
      <4> QED BY <1>7, <4>1, <4>2, ElementOfSeq
    <3> HIDE DEF Pick, At
    <3> QED BY <2>2, <3>1
  <2> QED BY <2>1, <2>2
<1>11. new \in Seq(Bit) /\ Len(new) = 8 * R
  <2>1. 8 * R \in Nat BY <1>4
  <2> HIDE DEF new
  <2> QED BY <1>10, <2>1, BitSeq
<1>12. /\ \A i \in 1..bits : new[order[i]] = bin[i]
       /\ \A b \in 1..(8 * R) : ~At(b) => new[b] = old[b]
  <2>1. \A b \in 1..(8 * R) : new[b] = IF At(b) THEN bin[Pick(b)] ELSE old[b] BY <1>7
  <2> HIDE DEF new, At, Pick
  <2> QED BY <1>4, <1>9, <2>1
<1> HIDE DEF new
<1>13. ASSUME NEW j \in first..last
       PROVE  Chunk(j) \in Seq(Bit) /\ Len(Chunk(j)) = 8 /\ \A i \in 1..8 : Chunk(j)[i] = new[8 * (j - first) + i]
  <2> DEFINE a == 8 * (j - first) + 1
             z == 8 * (j - first) + 8
  <2> HIDE DEF R
  <2>7. j \in Int /\ first \in Int /\ R \in Int /\ first <= j /\ j <= (first - 1) + R BY <1>4, <1>5
  <2>1. a \in Int /\ z \in Int /\ a >= 1 /\ z <= 8 * R /\ z = a + 7
    <3> HIDE DEF first
    <3> QED BY <2>7, ChunkPlace
  <2>2. \A k \in a..z : new[k] \in Bit
    <3> TAKE k \in a..z
    <3>1. k \in 1..(8 * R) BY <1>4, <2>1
    <3> QED BY <1>10, <3>1
  <2>3. Chunk(j) = SubSeq(new, a, z) OBVIOUS
  <2>6. \A i \in 1..8 : a + i - 1 = 8 * (j - first) + i
    <3> HIDE DEF first
    <3> QED BY <2>7, ChunkIndex
  <2> HIDE DEF a, z, Chunk
  <2>4. /\ SubSeq(new, a, z) \in Seq(Bit)
        /\ Len(SubSeq(new, a, z)) = IF a <= z THEN z - a + 1 ELSE 0
        /\ \A i \in 1..(z - a + 1) : SubSeq(new, a, z)[i] = new[a + i - 1]
        BY <2>1, <2>2, SubSeqProperties
  <2>5. z - a + 1 = 8 /\ a <= z BY <2>1
  <2> QED BY <2>3, <2>4, <2>5, <2>6
<1> HIDE DEF Chunk, last
<1>14. packed \in Seq(Byte) /\ Len(packed) = N /\ DOMAIN packed = 1..N
  <2>1. ASSUME NEW j \in 1..N PROVE (IF j \in first..last THEN BinToInt(Chunk(j)) ELSE frame[j]) \in Byte
    <3>1. j \in first..last => BinToInt(Chunk(j)) \in Byte BY <1>13, EightBits
    <3>2. frame[j] \in Byte BY <2>1, ElementOfSeq
    <3> QED BY <3>1, <3>2
  <2>2. packed \in [1..N -> Byte] BY <1>5, <2>1
  <2> HIDE DEF packed, N
  <2> QED BY <1>5, <2>2
<1>15. \A j \in 1..N : packed[j] = IF j \in first..last THEN BinToInt(Chunk(j)) ELSE frame[j] BY <1>5
<1> HIDE DEF packed
<1> DEFINE P == 8 * (first - 1)
           H == HexToBin(packed)
           S == HexToBin(frame)
<1>16. /\ \A j \in 1..N, i \in 1..8 : H[8 * (j - 1) + i] = BitsOf(packed[j], 8)[i]
       /\ \A j \in 1..N, i \in 1..8 : S[8 * (j - 1) + i] = BitsOf(frame[j], 8)[i]
  BY <1>14, HexToBinFacts
<1> HIDE DEF H, S, N
<1>17. ASSUME NEW j \in first..last, NEW i \in 1..8 PROVE H[8 * (j - 1) + i] = new[8 * (j - first) + i]
  <2>1. j \in 1..N BY <1>3, <1>5
  <2>2. packed[j] = BinToInt(Chunk(j)) BY <1>15, <2>1
  <2>3. BitsOf(BinToInt(Chunk(j)), 8)[i] = Chunk(j)[i] BY <1>13, EightBits
  <2>4. Chunk(j)[i] = new[8 * (j - first) + i] BY <1>13
  <2>5. H[8 * (j - 1) + i] = BitsOf(packed[j], 8)[i] BY <1>16, <2>1
  <2> QED BY <2>2, <2>3, <2>4, <2>5, Zenon
<1>18. ASSUME NEW b \in 1..(8 * R) PROVE H[P + b] = new[b]
  <2>1. PICK j \in Nat, i \in 1..8 : j >= 1 /\ b = 8 * (j - 1) + i
    <3>1. b \in Nat /\ b >= 1 OBVIOUS
    <3> DEFINE x == ((b - 1) \div 8) + 1
               y == ((b - 1) % 8) + 1
    <3>2. x \in Nat /\ x >= 1 /\ y \in 1..8 /\ b = 8 * (x - 1) + y BY <3>1, BitPlace
    <3> HIDE DEF x, y
    <3> QED BY <3>2
  <2> DEFINE k == first - 1 + j
  <2>2. k \in first..last /\ P + b = 8 * (k - 1) + i /\ 8 * (k - first) + i = b
    <3>1. R \in Nat /\ 8 * (j - 1) + i <= 8 * R BY <1>4, <2>1
    <3> HIDE DEF R, first
    <3> QED BY <1>3, <1>5, <2>1, <3>1, PlaceInWindow DEF last
  <2> HIDE DEF k, P
  <2>3. H[8 * (k - 1) + i] = new[8 * (k - first) + i] BY <1>17, <2>2
  <2> QED BY <2>2, <2>3
<1>19. \A i \in 1..bits : H[P + order[i]] = bin[i] BY <1>4, <1>12, <1>18
<1>20. ASSUME NEW b \in 1..(8 * N), H[b] # S[b] PROVE \E i \in 1..bits : b = P + order[i]
  <2>1. PICK j \in Nat, i \in 1..8 : j >= 1 /\ b = 8 * (j - 1) + i
    <3>1. b \in Nat /\ b >= 1 OBVIOUS
    <3> DEFINE x == ((b - 1) \div 8) + 1
               y == ((b - 1) % 8) + 1
    <3>2. x \in Nat /\ x >= 1 /\ y \in 1..8 /\ b = 8 * (x - 1) + y BY <3>1, BitPlace
    <3> HIDE DEF x, y
    <3> QED BY <3>2
  <2>2. j \in 1..N BY <1>5, <2>1
  <2>3. CASE j \notin first..last
    <3>1. packed[j] = frame[j] BY <1>15, <2>2, <2>3
    <3>2. H[8 * (j - 1) + i] = BitsOf(packed[j], 8)[i] BY <1>16, <2>2
    <3>3. S[8 * (j - 1) + i] = BitsOf(frame[j], 8)[i] BY <1>16, <2>2
    <3>4. H[8 * (j - 1) + i] = S[8 * (j - 1) + i] BY <3>1, <3>2, <3>3, Zenon
    <3> QED BY <1>20, <2>1, <3>4
  <2>4. CASE j \in first..last
    <3> DEFINE c == 8 * (j - first) + i
    <3>1. c \in 1..(8 * R) /\ P + c = b
      <4>1. R \in Nat /\ j \in first..(first - 1 + R) BY <1>4, <2>4 DEF last
      <4> HIDE DEF R, first
      <4>2. c \in 1..(8 * R) /\ P + c = 8 * (j - 1) + i BY <1>3, <1>5, <2>1, <4>1, PlaceInWindow
      <4> HIDE DEF c, P
      <4> QED BY <2>1, <4>2
    <3> HIDE DEF c, P
    <3>2. H[b] = new[c] BY <1>18, <3>1
    <3>3. old[c] = S[b] BY <1>6, <3>1 DEF P, S
    <3>4. At(c) BY <1>12, <1>20, <3>1, <3>2, <3>3
    <3>5. PICK k \in 1..bits : order[k] = c BY <1>4, <3>4
    <3> QED BY <3>1, <3>5
  <2> QED BY <2>3, <2>4
<1> QED BY <1>1, <1>3, <1>14, <1>19, <1>20 DEF H, S, N, P, order, bits, bin


-----------------------------------------------------------------------------
(* Reading a field where it was written. *)

\* A slice that lies inside the sequence.
LEMMA SlicedInside ==
  ASSUME NEW S, NEW s \in Seq(S), NEW a \in Nat, NEW b \in Nat, a <= b, b <= Len(s)
  PROVE  /\ PySlice(s, a, b) = SubSeq(s, a + 1, b) /\ PySlice(s, a, b) \in Seq(S)
         /\ Len(PySlice(s, a, b)) = b - a /\ \A i \in 1..(b - a) : PySlice(s, a, b)[i] = s[a + i]
<1>1. Len(s) \in Nat BY LenProperties
<1> DEFINE n == Len(s)
<1>2. Least(a, n) = a /\ Least(b, n) = b BY <1>1 DEF Least
<1>3. /\ PySlice(s, a, b) \in Seq(S)
      /\ PySlice(s, a, b) = SubSeq(s, Least(a, n) + 1, Least(b, n))
      /\ Len(PySlice(s, a, b)) = Least(b, n) - Least(a, n)
      /\ \A i \in 1..(Least(b, n) - Least(a, n)) : PySlice(s, a, b)[i] = s[Least(a, n) + i]
      BY Sliced, Zenon
<1> HIDE DEF n
<1> QED BY <1>2, <1>3

Reaches(s, a, b, n) == s \in Seq(Bit) /\ a \in Nat /\ b \in Nat /\ n \in Nat /\ a <= b /\ b <= Len(s) /\ b - a = n
Taken(t, s, a, n) == t \in Seq(Bit) /\ Len(t) = n /\ \A i \in 1..n : t[i] = s[a + i]

LEMMA BitsSliced == \A s, a, b, n : Reaches(s, a, b, n) => Taken(PySlice(s, a, b), s, a, n)
<1> TAKE s, a, b, n
<1> HAVE Reaches(s, a, b, n)
<1>1. s \in Seq(Bit) /\ a \in Nat /\ b \in Nat /\ a <= b /\ b <= Len(s) /\ b - a = n BY DEF Reaches
<1>2. /\ PySlice(s, a, b) \in Seq(Bit) /\ Len(PySlice(s, a, b)) = b - a
      /\ \A i \in 1..(b - a) : PySlice(s, a, b)[i] = s[a + i]
      BY <1>1, SlicedInside
<1> QED BY <1>1, <1>2 DEF Taken

\* The bytes a field reaches into.
LEMMA Shorter == \A w, r, first, n \in Int : w <= r /\ (first - 1) + r <= n => ~((first - 1) + w > n)
OBVIOUS

LEMMA FieldWindow ==
  ASSUME NEW f, IsField(f), f.first >= 1, NEW frame \in Seq(Byte), f.first - 1 + Reach(f) <= Len(frame)
  PROVE  /\ Reach(f) \in Nat /\ Reach(f) >= 1 /\ f.bits + f.offset <= 8 * Reach(f)
         /\ 8 * Reach(f) < f.bits + f.offset + 8
         /\ PySlice(frame, f.first - 1, f.first - 1 + Reach(f)) = SubSeq(frame, f.first, f.first - 1 + Reach(f))
         /\ PySlice(frame, f.first - 1, f.first - 1 + Reach(f)) \in Seq(Byte)
         /\ Len(PySlice(frame, f.first - 1, f.first - 1 + Reach(f))) = Reach(f)
         /\ ~TooShort(f, frame)
<1> DEFINE bits == f.bits
           first == f.first
           offset == f.offset
           R == Reach(f)
           N == Len(frame)
           slice == PySlice(frame, first - 1, first - 1 + R)
<1>1. bits \in Nat \ {0} /\ first \in Nat /\ offset \in 0..7 BY DEF IsField
<1>2. R \in Nat /\ R >= 1 BY OrderFacts
<1>3. bits + offset <= 8 * R /\ 8 * R < bits + offset + 8 /\ Width(f) <= R
  <2>1. bits \in Nat /\ bits + offset \in Nat BY <1>1
  <2>2. R = CeilDiv(bits + offset, 8) /\ Width(f) = CeilDiv(bits, 8) BY DEF Reach, Width
  <2> HIDE DEF R
  <2>3. bits + offset <= 8 * R /\ 8 * R < bits + offset + 8 BY <2>1, <2>2, CeilFacts
  <2> DEFINE w == Width(f)
  <2>4. w \in Nat /\ 8 * w < bits + 8 BY <2>1, <2>2, CeilFacts
  <2> HIDE DEF w, bits, offset
  <2>5. w <= R BY <1>1, <1>2, <2>3, <2>4
  <2> QED BY <2>3, <2>5 DEF w
<1>4. N \in Nat /\ first - 1 \in Nat /\ first - 1 + R \in Nat /\ first - 1 <= first - 1 + R /\ first - 1 + R <= N
  <2>1. N \in Nat BY LenProperties
  <2> HIDE DEF N, R
  <2> QED BY <1>1, <1>2, <2>1 DEF N, R
<1>5. /\ slice = SubSeq(frame, first, first - 1 + R) /\ slice \in Seq(Byte) /\ Len(slice) = R
  <2> DEFINE a == first - 1
             z == first - 1 + R
  <2>1. a \in Nat /\ z \in Nat /\ a <= z /\ z <= Len(frame) BY <1>4
  <2>2. a + 1 = first /\ z - a = R BY <1>1, <1>2
  <2> HIDE DEF a, z, R
  <2>3. PySlice(frame, a, z) = SubSeq(frame, a + 1, z) /\ PySlice(frame, a, z) \in Seq(Byte) /\ Len(PySlice(frame, a, z)) = z - a
        BY <2>1, SlicedInside
  <2> QED BY <2>2, <2>3 DEF a, z
<1>8. ~TooShort(f, frame)
  <2>1. ~(bits <= 0) BY <1>1
  <2>2. ~(first - 1 + Width(f) > Len(frame))
    <3> DEFINE w == Width(f)
    <3>1. w \in Int
      <4>1. w \in Nat BY <1>1, CeilFacts DEF Width
      <4> QED BY <4>1
    <3>3. w <= R BY <1>3
    <3> HIDE DEF w, R, N
    <3>4. R \in Int /\ N \in Int /\ first \in Int BY <1>1, <1>2, <1>4
    <3>5. (first - 1) + R <= N BY <1>4
    <3> HIDE DEF first
    <3>2. ~(first - 1 + w > N) BY <3>1, <3>3, <3>4, <3>5, Shorter
    <3> QED BY <3>2 DEF w, N
  <2>3. slice # <<>> BY <1>2, <1>5
  <2> QED BY <2>1, <2>2, <2>3 DEF TooShort
<1> QED BY <1>2, <1>3, <1>5, <1>8

LEMMA ReadPlaced ==
  ASSUME NEW f, NEW e, IsField(f), f.first >= 1, NEW frame \in Seq(Byte), f.first - 1 + Reach(f) <= Len(frame),
         NEW n \in Nat, n < Power(2, f.bits), ~IsLittleEndian(f, e) \/ Reach(f) = 1,
         \A i \in 1..f.bits : HexToBin(frame)[8 * (f.first - 1) + WriteOrder(f, e)[i]] = BitsOf(n, f.bits)[i]
  PROVE  GetHexValue(f, e, frame) = n
<1> DEFINE bits == f.bits
           first == f.first
           offset == f.offset
           R == Reach(f)
           order == WriteOrder(f, e)
           N == Len(frame)
           slice == PySlice(frame, first - 1, first - 1 + R)
           W == HexToBin(slice)
           got == IF IsLittleEndian(f, e) THEN LittleBits(f, W) ELSE PySlice(W, offset, offset + bits)
           sent == BitsOf(n, bits)
<1>1. bits \in Nat \ {0} /\ first \in Nat /\ offset \in 0..7 BY DEF IsField
<1>2. /\ R \in Nat /\ R >= 1
      /\ \A i \in 1..bits : order[i] \in 1..(8 * R)
      BY OrderFacts
<1>3. bits + offset <= 8 * R BY FieldWindow
<1>4. first - 1 + R <= N /\ N \in Nat BY LenProperties
<1>5. slice = SubSeq(frame, first, first - 1 + R) /\ slice \in Seq(Byte) /\ Len(slice) = R BY FieldWindow
<1>6. /\ W \in Seq(Bit) /\ Len(W) = 8 * R
      /\ \A i \in 1..bits : W[order[i]] = sent[i]
  <2>1. W \in Seq(Bit) /\ Len(W) = 8 * R BY <1>5, HexToBinFacts
  <2>2. \A b \in 1..(8 * R) : W[b] = HexToBin(frame)[8 * (first - 1) + b]
    <3> HIDE DEF R
    <3>1. \A b \in 1..(8 * R) : HexToBin(SubSeq(frame, first, first - 1 + R))[b] = HexToBin(frame)[8 * (first - 1) + b]
          BY <1>1, <1>2, <1>4, Window
    <3> QED BY <1>5, <3>1
  <2> QED BY <1>2, <2>1, <2>2
<1>7. sent \in Seq(Bit) /\ Len(sent) = bits /\ BinToInt(sent) = n BY <1>1, BitsOfFacts, BitsRead
<1>8. ~TooShort(f, frame) BY FieldWindow
<1>9. got = sent
  <2>1. CASE ~IsLittleEndian(f, e)
    <3> DEFINE s == PySlice(W, offset, offset + bits)
    <3>1. \A i \in 1..bits : order[i] = offset + i
      <4>1. order = [i \in 1..bits |-> i + offset] BY <2>1, Zenon DEF WriteOrder
      <4> HIDE DEF order
      <4> QED BY <1>1, <4>1
    <3>2. s \in Seq(Bit) /\ Len(s) = bits /\ \A i \in 1..bits : s[i] = W[offset + i]
      <4> DEFINE z == offset + bits
      <4> HIDE DEF W, R
      <4>0. W \in Seq(Bit) /\ Len(W) = 8 * R BY <1>6
      <4> HIDE DEF offset, bits
      <4>1. offset \in Nat /\ z \in Nat /\ offset <= z /\ z <= 8 * R BY <1>1, <1>3
      <4>2. z - offset = bits BY <1>1
      <4> HIDE DEF z
      <4>4. z <= Len(W) /\ bits \in Nat BY <1>1, <4>0, <4>1
      <4>3. Reaches(W, offset, z, bits) BY <4>0, <4>1, <4>2, <4>4 DEF Reaches
      <4>5. Taken(PySlice(W, offset, z), W, offset, bits) BY <4>3, BitsSliced
      <4> QED BY <4>5 DEF z, Taken
    <3> HIDE DEF s, W, order, sent
    <3>3. \A i \in 1..bits : s[i] = sent[i] BY <1>6, <3>1, <3>2
    <3>4. s = sent BY <1>7, <3>2, <3>3, SeqEqual
    <3> QED BY <2>1, <3>4 DEF s
  <2>2. CASE IsLittleEndian(f, e)
    <3> DEFINE p == 8 - offset - bits
               s == PySlice(W, p, 8 - offset)
    <3>0. R = 1 BY <2>2
    <3>1. p \in Nat /\ 8 - offset \in Nat /\ p <= 8 - offset /\ bits <= 8 - offset /\ Len(W) = 8 /\ 8 - offset - p = bits
      <4> HIDE DEF W, R, bits, offset
      <4>1. Len(W) = 8 /\ bits + offset <= 8 BY <1>3, <1>6, <3>0
      <4> QED BY <1>1, <4>1
    <3>2. \A i \in 1..bits : order[i] = p + i
      <4>1. order = [i \in 1..bits |-> 8 - offset - bits + i] BY <2>2, <3>1, OrderLittleShort
      <4> HIDE DEF order
      <4> QED BY <1>1, <4>1
    <3>11. W \in Seq(Bit) BY <1>6
    <3>12. p \in Nat BY <3>1
    <3>3. s \in Seq(Bit) /\ Len(s) = bits /\ \A i \in 1..bits : s[i] = W[p + i]
      <4> DEFINE z == 8 - offset
      <4> HIDE DEF p, W, bits
      <4>5. z \in Nat /\ p <= z /\ z - p = bits BY <3>1
      <4>6. Len(W) = 8 /\ z <= 8
        <5>1. Len(W) = 8 BY <3>1, Zenon
        <5>2. \A o \in 0..7 : 8 - o <= 8 OBVIOUS
        <5>3. offset \in 0..7 BY <1>1
        <5> HIDE DEF offset
        <5>4. 8 - offset <= 8 BY <5>2, <5>3, Zenon
        <5> QED BY <5>1, <5>4, Zenon DEF z
      <4>1. z \in Nat /\ p <= z /\ z <= Len(W) /\ z - p = bits BY <4>5, <4>6, Zenon
      <4> HIDE DEF z
      <4>2. bits \in Nat BY <1>1
      <4>3. Reaches(W, p, z, bits) BY <3>11, <3>12, <4>1, <4>2 DEF Reaches
      <4>4. Taken(PySlice(W, p, z), W, p, bits) BY <4>3, BitsSliced
      <4> QED BY <4>4 DEF z, Taken
    <3>4. PySlice(W, 8, 8) = <<>>
      <4> HIDE DEF W
      <4>1. 8 \in Nat /\ 8 <= Len(W) BY <3>1
      <4>2. PySlice(W, 8, 8) \in Seq(Bit) /\ Len(PySlice(W, 8, 8)) = 8 - 8 BY <1>6, <4>1, SlicedInside
      <4> QED BY <4>2, EmptySeq
    <3>5. LittleBits(f, W) = s \o <<>> \o <<>>
      <4> DEFINE room == 8 - offset
                 firstbit == Most(room - bits, 0)
                 after == bits - (room - firstbit)
                 inner == IF after > 8 THEN 8 * (R - 2) ELSE 0
                 afterInner == after - inner
                 end == 8 * (R - 1)
      <4>1. LittleBits(f, W) = PySlice(W, firstbit, room) \o PySlice(W, 8, 8 + inner)
                                 \o (IF afterInner > 0 THEN PySlice(W, end - afterInner, end) ELSE <<>>)
        BY DEF LittleBits
      <4> HIDE DEF W, bits, offset, R
      <4>2. firstbit = p BY <1>1, <3>1 DEF Most
      <4> HIDE DEF firstbit, p
      <4>3. after = 0 BY <1>1, <3>1, <4>2
      <4> HIDE DEF after
      <4>4. inner = 0 /\ 8 + inner = 8 BY <4>3
      <4> HIDE DEF inner
      <4>5. ~(afterInner > 0) BY <4>3, <4>4
      <4> HIDE DEF afterInner, end
      <4> QED BY <3>4, <4>1, <4>2, <4>4, <4>5
    <3> HIDE DEF s, W, order, sent
    <3>6. \A i \in 1..bits : s[i] = sent[i] BY <1>6, <3>2, <3>3
    <3>7. s = sent BY <1>7, <3>3, <3>6, SeqEqual
    <3>8. s \o <<>> \o <<>> = s BY <3>3, ConcatEmptySeq
    <3> QED BY <2>2, <3>5, <3>7, <3>8
  <2> QED BY <2>1, <2>2
<1>10. GetHexValue(f, e, frame) = IF TooShort(f, frame) \/ got = <<>> THEN Null ELSE BinToInt(got)
  BY DEF GetHexValue
<1>11. sent # <<>> BY <1>1, <1>7
<1> HIDE DEF got, sent
<1> QED BY <1>7, <1>8, <1>9, <1>10, <1>11


-----------------------------------------------------------------------------
(* The integer an input stands for. *)

LEMMA TruncatedInt == \A num \in Int, den \in Int : den # 0 => Truncated(num, den) \in Int
<1> TAKE num \in Int, den \in Int
<1> HAVE den # 0
<1> DEFINE Abs(n) == IF n < 0 THEN -n ELSE n
           a == Abs(num)
           b == Abs(den)
           q == a \div b
<1>1. a \in Nat /\ b \in Nat \ {0} OBVIOUS
<1> HIDE DEF a, b
<1>2. q \in Nat BY <1>1, DivFacts
<1>3. Truncated(num, den) = IF num * den >= 0 THEN q ELSE -q BY DEF Truncated, a, b
<1> HIDE DEF q
<1> QED BY <1>2, <1>3

LEMMA TextRead ==
  ASSUME NEW f, IsField(f), NEW chars \in Seq(16..255)
  PROVE  BinToInt(HexToBin(TextBytes(f, chars))) \in Nat
<1> DEFINE n == f.bytescount
           t == TextBytes(f, chars)
           h == HexToBin(t)
<1>1. n \in Nat BY DEF IsField
<1>2. ASSUME NEW i \in 1..n PROVE (IF i <= Len(chars) THEN chars[i] ELSE 32) \in Byte
  <2>1. CASE i <= Len(chars)
    <3>1. i \in 1..Len(chars) BY <2>1, LenProperties
    <3>2. chars[i] \in 16..255 BY <3>1, ElementOfSeq
    <3> QED BY <2>1, <3>2 DEF Byte
  <2>2. CASE ~(i <= Len(chars)) BY <2>2 DEF Byte
  <2> QED BY <2>1, <2>2
<1>3. t \in [1..n -> Byte] BY <1>2 DEF TextBytes
<1> HIDE DEF t, n
<1>4. t \in Seq(Byte) BY <1>1, <1>3
<1>5. h \in Seq(Bit) BY <1>4, HexToBinFacts
<1> HIDE DEF h
<1>6. PICK r \in [0..Len(h) -> Nat] : BinToInt(h) = r[Len(h)] BY <1>5, BinToIntUnfolds
<1>7. Len(h) \in Nat BY <1>5, LenProperties
<1> QED BY <1>6, <1>7 DEF h, t

Readable(f, i) ==
  /\ i.chars \in Seq(16..255)
  /\ i.kind = "number" => i.value \in Int /\ (~f.scaled => i.value \in Nat)

LEMMA ToIntegerFacts ==
  ASSUME NEW f, IsField(f), NEW i, Readable(f, i)
  PROVE  ToInteger(f, i) \in Nat \cup {Null, Throws}
<1>1. f.ascii \in BOOLEAN /\ f.scaled \in BOOLEAN /\ f.step \in Int /\ f.shift \in Int /\ f.divideby \in Int
  BY DEF IsField
<1>2. CASE f.ascii
  <2>1. ToInteger(f, i) = BinToInt(HexToBin(TextBytes(f, i.chars))) BY <1>2, Zenon DEF ToInteger
  <2>2. i.chars \in Seq(16..255) BY <1>2 DEF Readable
  <2>3. BinToInt(HexToBin(TextBytes(f, i.chars))) \in Nat BY <2>2, TextRead
  <2> QED BY <2>1, <2>3
<1>3. CASE ~f.ascii /\ f.scaled
  <2> DEFINE v == IF ~ReadsAsFloat(i) THEN Null
                  ELSE IF i.kind = "infinite" \/ f.step = 0 THEN Throws
                  ELSE Most(Truncated(i.value * f.divideby - f.shift, f.step), Null)
  <2>1. ToInteger(f, i) = v BY <1>3, Zenon DEF ToInteger
  <2>2. CASE ~ReadsAsFloat(i) \/ i.kind = "infinite" \/ f.step = 0 BY <2>1, <2>2
  <2>3. CASE ReadsAsFloat(i) /\ i.kind # "infinite" /\ f.step # 0
    <3>1. i.value \in Int BY <2>3 DEF ReadsAsFloat, Readable
    <3>2. i.value * f.divideby - f.shift \in Int BY <1>1, <3>1
    <3> DEFINE t == Truncated(i.value * f.divideby - f.shift, f.step)
    <3>3. t \in Int BY <1>1, <2>3, <3>2, TruncatedInt
    <3> HIDE DEF t
    <3>4. Most(t, Null) \in Nat \cup {Null} BY <3>3 DEF Most, Null
    <3>5. v = Most(t, Null) BY <2>3 DEF t
    <3> HIDE DEF v
    <3> QED BY <2>1, <3>4, <3>5
  <2> QED BY <2>2, <2>3
<1>4. CASE ~f.ascii /\ ~f.scaled
  <2>1. ToInteger(f, i) = IF ReadsAsHex(i) THEN i.value ELSE Null BY <1>4, Zenon DEF ToInteger
  <2>2. ReadsAsHex(i) => i.value \in Nat BY <1>4 DEF ReadsAsHex, Readable
  <2> QED BY <2>1, <2>2
<1> QED BY <1>1, <1>2, <1>3, <1>4

\* The digits of a number in base sixteen.
Digit == 0..15

LEMMA HexDigitsFacts ==
  ASSUME NEW n \in Nat
  PROVE  HexDigits(n) \in Seq(Digit)
<1> DEFINE l == BitLength(n)
           w == CeilDiv(l, 4)
<1>1. l \in Nat BY BitLengthFacts
<1> HIDE DEF l
<1>2. w \in Int BY <1>1 DEF CeilDiv
<1> HIDE DEF w
<1>3. ASSUME NEW i \in 1..w PROVE (n \div Power(16, w - i)) % 16 \in Digit
  <2> DEFINE p == Power(16, w - i)
             q == n \div p
  <2>1. w - i \in Nat BY <1>2
  <2>2. p \in Nat \ {0} BY <2>1, PowerFacts
  <2> HIDE DEF p
  <2>3. q \in Nat BY <2>2, DivFacts
  <2> HIDE DEF q
  <2>4. q % 16 \in Digit BY <2>3 DEF Digit
  <2> QED BY <2>4 DEF q, p
<1>4. HexDigits(n) = [i \in 1..w |-> (n \div Power(16, w - i)) % 16] BY DEF HexDigits, w, l
<1>5. HexDigits(n) \in [1..w -> Digit] BY <1>3, <1>4
<1>6. w \in Nat \/ 1..w = {} BY <1>2
<1>7. CASE w \in Nat BY <1>5, <1>7
<1>8. CASE 1..w = {}
  <2>1. 1..w = 1..0 BY <1>8
  <2>2. HexDigits(n) \in [1..0 -> Digit] BY <1>5, <2>1
  <2> QED BY <2>2
<1> QED BY <1>6, <1>7, <1>8

\* Reading decimal digits from the front.
LEMMA DecimalUnfolds ==
  ASSUME NEW s \in Seq(Digit)
  PROVE  \E f \in [0..Len(s) -> Nat] :
           Decimal(s) = f[Len(s)] /\ f[0] = 0 /\ \A k \in 1..Len(s) : f[k] = 10 * f[k - 1] + s[k]
<1> DEFINE upTo[i \in 0..Len(s)] == IF i = 0 THEN 0 ELSE 10 * upTo[i - 1] + s[i]
           n == Len(s)
           g == [x \in (1..n) \X Nat |-> 10 * x[2] + s[x[1]]]
<1>0. n \in Nat /\ \A k \in 1..n : s[k] \in Nat
  <2>1. \A k \in 1..Len(s) : s[k] \in Digit BY ElementOfSeq
  <2> QED BY <2>1 DEF Digit
<1>1. Decimal(s) = upTo[n] BY DEF Decimal
<1>2. g \in Steps(n, Nat)
  <2>1. ASSUME NEW x \in (1..n) \X Nat PROVE 10 * x[2] + s[x[1]] \in Nat
    <3>1. x[1] \in 1..n /\ x[2] \in Nat OBVIOUS
    <3>2. s[x[1]] \in Nat BY <1>0, <3>1
    <3> QED BY <3>1, <3>2
  <2> QED BY <2>1 DEF Steps
<1>3. PICK f \in [0..n -> Nat] : f[0] = 0 /\ \A k \in 1..n : f[k] = g[<<k, f[k - 1]>>]
  <2> HIDE DEF g, n
  <2>1. 0 \in Nat OBVIOUS
  <2>2. \E f \in Values(n, Nat) : Unfolds(f, n, 0, g) BY <1>0, <1>2, <2>1, Recursion, Zenon
  <2> QED BY <2>2 DEF Values, Unfolds
<1>4. ASSUME NEW k \in 1..n PROVE f[k] = 10 * f[k - 1] + s[k]
  <2>1. k - 1 \in 0..n BY <1>0
  <2>2. <<k, f[k - 1]>> \in (1..n) \X Nat BY <1>3, <2>1
  <2> QED BY <1>3, <2>2
<1>5. f = [k \in 0..n |-> IF k = 0 THEN 0 ELSE 10 * f[k - 1] + s[k]]
  <2>1. \A k \in 0..n : k # 0 => k \in 1..n BY <1>0
  <2>2. \A k \in 0..n : f[k] = IF k = 0 THEN 0 ELSE 10 * f[k - 1] + s[k] BY <1>3, <1>4, <2>1, Zenon
  <2> QED BY <2>2
<1>6. upTo = [k \in 0..n |-> IF k = 0 THEN 0 ELSE 10 * upTo[k - 1] + s[k]] BY <1>5, Zenon DEF upTo
<1> HIDE DEF upTo, g
<1> DEFINE T == {k \in Nat : k <= n => upTo[k] = f[k]}
<1>7. 0 \in T BY <1>0, <1>3, <1>6
<1>8. ASSUME NEW k \in Nat, k \in T PROVE k + 1 \in T
  <2> SUFFICES ASSUME k + 1 <= n PROVE upTo[k + 1] = f[k + 1]
      OBVIOUS
  <2> DEFINE j == k + 1
  <2>1. j \in 0..n /\ j \in 1..n /\ j # 0 /\ j - 1 = k BY <1>0
  <2>2. upTo[k] = f[k] BY <1>0, <1>8
  <2> SUFFICES upTo[j] = f[j]
      OBVIOUS
  <2> HIDE DEF j, n
  <2>3. upTo[j] = 10 * upTo[j - 1] + s[j] BY <1>6, <2>1, Zenon
  <2>4. f[j] = 10 * f[j - 1] + s[j] BY <1>4, <2>1, Zenon
  <2> QED BY <2>1, <2>2, <2>3, <2>4, Zenon
<1>9. n \in T
  <2> HIDE DEF T, n
  <2> QED BY <1>0, <1>7, <1>8, Induct
<1>10. upTo[n] = f[n] BY <1>0, <1>9
<1> QED BY <1>1, <1>3, <1>4, <1>10

LEMMA LabelTextFacts ==
  ASSUME NEW f, IsField(f), NEW n \in Int
  PROVE  Readable(f, LabelText(f, n))
<1> DEFINE digits == HexDigits(Size(n))
           sign == IF n < 0 THEN <<45>> ELSE <<>>
           body == [i \in 1..Len(digits) |-> IF digits[i] < 10 THEN 48 + digits[i] ELSE 55 + digits[i]]
           chars == sign \o body
           decimal == \A i \in 1..Len(digits) : digits[i] < 10
           value == IF n < 0 THEN -Decimal(digits) ELSE Decimal(digits)
           typed == LabelText(f, n)
<1>1. Size(n) \in Nat BY DEF Size
<1>2. digits \in Seq(Digit) BY <1>1, HexDigitsFacts
<1>3. typed = CASE f.scaled /\ decimal -> [kind |-> "number", value |-> value, chars |-> chars]
                [] ~f.scaled /\ n >= 0 -> [kind |-> "number", value |-> n, chars |-> chars]
                [] OTHER -> [kind |-> "word", chars |-> chars]
  BY DEF LabelText
<1> HIDE DEF digits
<1>4. body \in Seq(16..255)
  <2>1. Len(digits) \in Nat BY <1>2, LenProperties
  <2>2. ASSUME NEW i \in 1..Len(digits)
        PROVE  (IF digits[i] < 10 THEN 48 + digits[i] ELSE 55 + digits[i]) \in 16..255
    <3> DEFINE d == digits[i]
    <3>1. d \in Digit BY <1>2, ElementOfSeq
    <3> HIDE DEF d
    <3>2. (IF d < 10 THEN 48 + d ELSE 55 + d) \in 16..255 BY <3>1 DEF Digit
    <3> QED BY <3>2 DEF d
  <2> DEFINE m == Len(digits)
  <2>3. body \in [1..m -> 16..255] BY <2>2
  <2> HIDE DEF body, m
  <2>4. m \in Nat BY <2>1 DEF m
  <2> QED BY <2>3, <2>4
<1>5. sign \in Seq(16..255)
  <2>1. 45 \in 16..255 OBVIOUS
  <2>2. <<45>> \in Seq(16..255) BY <2>1
  <2>3. <<>> \in Seq(16..255) BY EmptySeq
  <2> QED BY <2>2, <2>3
<1> HIDE DEF body, sign
<1>6. chars \in Seq(16..255) BY <1>4, <1>5, ConcatProperties
<1>7. Decimal(digits) \in Nat
  <2>1. PICK r \in [0..Len(digits) -> Nat] : Decimal(digits) = r[Len(digits)] BY <1>2, DecimalUnfolds
  <2>2. Len(digits) \in Nat BY <1>2, LenProperties
  <2> QED BY <2>1, <2>2
<1>8. value \in Int BY <1>7
<1> HIDE DEF value, chars, decimal
<1>9. typed.chars = chars /\ (typed.kind = "number" => typed.value \in Int /\ (~f.scaled => typed.value \in Nat))
  <2> HIDE DEF typed
  <2>1. CASE f.scaled /\ decimal
    <3>1. typed = [kind |-> "number", value |-> value, chars |-> chars] BY <1>3, <2>1
    <3> QED BY <1>8, <2>1, <3>1
  <2>2. CASE ~f.scaled /\ n >= 0
    <3>1. typed = [kind |-> "number", value |-> n, chars |-> chars] BY <1>3, <2>2
    <3> QED BY <2>2, <3>1
  <2>3. CASE ~(f.scaled /\ decimal) /\ ~(~f.scaled /\ n >= 0)
    <3>1. typed = [kind |-> "word", chars |-> chars] BY <1>3, <2>3
    <3> QED BY <3>1
  <2> QED BY <2>1, <2>2, <2>3
<1> QED BY <1>6, <1>9 DEF Readable, typed

LEMMA IntegerFacts ==
  ASSUME NEW f, IsField(f), NEW i \in Inputs
  PROVE  Integer(f, i) \in Nat \cup {Null, Throws}
<1>1. Readable(f, i) BY InputsAssumption DEF Readable
<1> DEFINE keys == {n \in DOMAIN f.lists : i.kind = "word" /\ f.lists[n] = i.label}
           n == CHOOSE n \in keys : TRUE
           typed == LabelText(f, n)
<1>2. Integer(f, i) = IF keys = {} THEN ToInteger(f, i) ELSE ToInteger(f, typed)
  BY DEF Integer
<1>3. CASE keys = {} BY <1>1, <1>2, <1>3, ToIntegerFacts
<1>4. CASE keys # {}
  <2>1. n \in Int
    <3>1. n \in DOMAIN f.lists BY <1>4
    <3> HIDE DEF n
    <3> QED BY <3>1 DEF IsField
  <2> HIDE DEF n, keys
  <2>2. Readable(f, typed) BY <2>1, LabelTextFacts
  <2>3. Integer(f, i) = ToInteger(f, typed) BY <1>2, <1>4
  <2> HIDE DEF typed
  <2> QED BY <2>2, <2>3, ToIntegerFacts
<1> QED BY <1>3, <1>4


-----------------------------------------------------------------------------
(* The invariant. *)

Working == {"building", "built", "answered", "decoded"}
Resting == {"idle", "refused", "threw", "formatted", "text"}

\* Where bit i of a field stands in a frame.
Spot(f, e, i) == 8 * (f.first - 1) + WriteOrder(f, e)[i]

\* A frame holds the bits of a number at a field's places.
Bears(frame, f, e, n) == \A i \in 1..f.bits : HexToBin(frame)[Spot(f, e, i)] = BitsOf(n, f.bits)[i]

Endian == Requests[request].endian
FieldOf(j) == Field(supplied[j][1])
NumberOf(j) == Integer(FieldOf(j), supplied[j][2])
Parted(j, k) == OwnHere(FieldOf(j)) \cap OwnHere(FieldOf(k)) = {}

\* Input j is in the frame, unless a later one overlaps it.
Holds(j) ==
  /\ NumberOf(j) \in Nat
  /\ FieldOf(j).first >= 1 /\ FieldOf(j).first - 1 + Reach(FieldOf(j)) <= Len(stream)
  /\ NumberOf(j) < Power(2, FieldOf(j).bits) /\ (\A k \in (j + 1)..at : Parted(j, k))
       => Bears(stream, FieldOf(j), Endian, NumberOf(j))

InWork ==
  /\ request \in DOMAIN Requests
  /\ supplied \in Seq((DOMAIN Requests[request].sends) \X Inputs)
  /\ at <= Len(supplied) /\ (phase # "building" => at = Len(supplied))
  /\ stream \in Seq(Byte) /\ stream # <<>>
  /\ \A j \in 1..at : Holds(j)

\* The generated answer of the request itself is as long as its fields need.
Generated ==
  result.fill # "canned" /\ result.as = request => reply \in Seq(Byte) /\ Needed(request) <= Len(reply)

FramesInv ==
  /\ phase \in Working \cup Resting
  /\ at \in Nat
  /\ phase \in Working => InWork
  /\ phase \in {"answered", "decoded"} => Generated
  /\ phase = "decoded" => result.shown = Shown
  /\ phase = "formatted" => result.of \in Nat \X Nat \X Nat /\ result.digits = FormatFixed(result.of[1], result.of[2], result.of[3])
  /\ phase = "text" => result.of \in Seq(Byte) /\ result.chars = DecodeUtf8Ignore(result.of)

\* The field and the number of an input are what the step packs.
LEMMA InputFacts ==
  ASSUME InWork, NEW j \in 1..Len(supplied)
  PROVE  IsField(FieldOf(j)) /\ NumberOf(j) \in Nat \cup {Null, Throws}
<1>1. supplied[j] \in (DOMAIN Requests[request].sends) \X Inputs BY ElementOfSeq DEF InWork
<1>2. IsField(FieldOf(j)) BY <1>1, FieldsAssumption DEF InWork, FieldOf, Field
<1>3. supplied[j][2] \in Inputs BY <1>1
<1> QED BY <1>2, <1>3, IntegerFacts DEF NumberOf

LEMMA Started == Init => FramesInv
BY DEF Init, FramesInv, Working, Resting

LEMMA SpotInFrame ==
  \A a \in Int, r, n \in Nat : \A o \in 1..(8 * r) : a >= 1 /\ a - 1 + r <= n => 8 * (a - 1) + o \in 1..(8 * n)
OBVIOUS

\* A number that is packed is in the frame, and what is packed already stays unless it is overlapped.
LEMMA PackedHolds ==
  ASSUME InWork, phase = "building", at \in Nat, at < Len(supplied), NEW last \in Nat, last = at + 1,
         NumberOf(last) \in Nat, CanPack(FieldOf(last), Endian, stream),
         stream' = Pack(FieldOf(last), Endian, NumberOf(last), stream),
         at' = last, UNCHANGED <<request, supplied>>
  PROVE  stream' \in Seq(Byte) /\ Len(stream') = Len(stream) /\ \A j \in 1..at' : Holds(j)'
<1> DEFINE f == FieldOf(last)
           n == NumberOf(last)
           old == HexToBin(stream)
           new == HexToBin(stream')
<1>1. last \in 1..Len(supplied) BY LenProperties DEF InWork
<1>2. IsField(f) BY <1>1, InputFacts
<1>3. stream \in Seq(Byte) BY DEF InWork
<1>4. /\ f.first >= 1 /\ stream' \in Seq(Byte) /\ Len(stream') = Len(stream)
      /\ \A i \in 1..f.bits : new[Spot(f, Endian, i)] = Zfill(n, f.bits)[i]
      /\ \A b \in 1..(8 * Len(stream)) : old[b] # new[b] => \E i \in 1..f.bits : b = Spot(f, Endian, i)
  <2>1. stream' = Pack(f, Endian, n, stream) OBVIOUS
  <2> HIDE DEF f, n
  <2>2. n \in Nat /\ CanPack(f, Endian, stream) BY DEF f, n
  <2>3. /\ f.first >= 1
        /\ Pack(f, Endian, n, stream) \in Seq(Byte) /\ Len(Pack(f, Endian, n, stream)) = Len(stream)
        /\ \A i \in 1..f.bits :
             HexToBin(Pack(f, Endian, n, stream))[8 * (f.first - 1) + WriteOrder(f, Endian)[i]] = Zfill(n, f.bits)[i]
        /\ \A b \in 1..(8 * Len(stream)) :
             HexToBin(Pack(f, Endian, n, stream))[b] # HexToBin(stream)[b]
               => \E i \in 1..f.bits : b = 8 * (f.first - 1) + WriteOrder(f, Endian)[i]
    BY <1>2, <1>3, <2>2, PackFacts
  <2> QED BY <2>1, <2>3 DEF Spot
<1>5. Endian' = Endian /\ \A j \in 1..at' : FieldOf(j)' = FieldOf(j) /\ NumberOf(j)' = NumberOf(j)
  BY DEF Endian, FieldOf, NumberOf, Field
<1>6. \A j, k : Parted(j, k)' = Parted(j, k) BY DEF Parted, OwnHere, FieldOf, Field
<1>7. f.first - 1 + Reach(f) <= Len(stream)
  <2>1. ~Outside(f, stream) BY DEF CanPack
  <2>2. Len(stream) \in Nat BY <1>3, LenProperties
  <2>3. Reach(f) \in Nat BY <1>2, <1>4, OrderFacts
  <2>4. f.first \in Int BY <1>2 DEF IsField
  <2> HIDE DEF f
  <2> QED BY <2>1, <2>2, <2>3, <2>4 DEF Outside
<1> HIDE DEF f, n, old, new
<1>8. ASSUME NEW j \in 1..at PROVE Holds(j)'
  <2> DEFINE g == FieldOf(j)
             m == NumberOf(j)
  <2>1. j \in 1..Len(supplied) BY <1>1
  <2>2. IsField(g) BY <2>1, InputFacts
  <2>3. Holds(j) BY DEF InWork
  <2>4. m \in Nat /\ g.first >= 1 /\ g.first - 1 + Reach(g) <= Len(stream) BY <2>3 DEF Holds
  <2>5. ASSUME m < Power(2, g.bits), \A k \in (j + 1)..last : Parted(j, k) PROVE Bears(stream', g, Endian, m)
    <3>1. \A k \in (j + 1)..at : k \in (j + 1)..last OBVIOUS
    <3>2. Bears(stream, g, Endian, m) BY <2>3, <2>5, <3>1 DEF Holds
    <3>3. Parted(j, last)
      <4>1. last \in (j + 1)..last OBVIOUS
      <4> QED BY <2>5, <4>1
    <3>4. ASSUME NEW i \in 1..g.bits PROVE new[Spot(g, Endian, i)] = BitsOf(m, g.bits)[i]
      <4> DEFINE b == Spot(g, Endian, i)
                 R == Reach(g)
                 o == WriteOrder(g, Endian)[i]
                 N == Len(stream)
      <4>1. R \in Nat /\ o \in 1..(8 * R) /\ b \in OwnHere(g)
        <5>1. /\ Reach(g) \in Nat /\ WriteOrder(g, Endian)[i] \in 1..(8 * Reach(g))
              /\ 8 * (g.first - 1) + WriteOrder(g, Endian)[i] \in Own(g, IsLittleEndian(g, Endian))
          BY <2>2, <2>4, OrderFacts
        <5> QED BY <5>1 DEF Spot, OwnHere, Endian
      <4>2. b \in 1..(8 * N)
        <5>1. g.first \in Int /\ N \in Nat BY <1>3, <2>2, LenProperties DEF IsField
        <5>2. g.first - 1 + R <= N BY <2>4
        <5>3. b = 8 * (g.first - 1) + o BY DEF Spot
        <5> HIDE DEF b, R, o, N, g
        <5> QED BY <2>4, <4>1, <5>1, <5>2, <5>3, SpotInFrame
      <4>3. old[b] = new[b]
        <5> SUFFICES ASSUME old[b] # new[b] PROVE FALSE
            OBVIOUS
        <5> HIDE DEF b, g
        <5>1. PICK k \in 1..f.bits : b = Spot(f, Endian, k) BY <1>4, <4>2
        <5>2. b \in OwnHere(f)
          <6>1. 8 * (f.first - 1) + WriteOrder(f, Endian)[k] \in Own(f, IsLittleEndian(f, Endian))
                BY <1>2, <1>4, OrderFacts
          <6> QED BY <5>1, <6>1 DEF Spot, OwnHere, Endian
        <5> QED BY <3>3, <4>1, <5>2 DEF Parted, f, g
      <4>4. old[b] = BitsOf(m, g.bits)[i] BY <3>2 DEF Bears, old
      <4> QED BY <4>3, <4>4
    <3> QED BY <3>4 DEF Bears, new
  <2>6. j \in 1..at' BY <1>1
  <2>7. FieldOf(j)' = g /\ NumberOf(j)' = m /\ Endian' = Endian BY <1>5, <2>6
  <2> HIDE DEF g, m
  <2> QED BY <1>4, <1>6, <2>4, <2>5, <2>7 DEF Holds
<1>9. Holds(last)'
  <2>1. FieldOf(last)' = f /\ NumberOf(last)' = n /\ Endian' = Endian BY <1>1, <1>5 DEF f, n
  <2>2. n < Power(2, f.bits) => Bears(stream', f, Endian, n)
    <3> SUFFICES ASSUME n < Power(2, f.bits) PROVE Bears(stream', f, Endian, n)
        OBVIOUS
    <3>1. f.bits \in Nat /\ f.bits >= 1 BY <1>2 DEF IsField
    <3>2. n \in Nat BY DEF n
    <3>3. Zfill(n, f.bits) = BitsOf(n, f.bits) BY <3>1, <3>2, ZfillFacts
    <3> QED BY <1>4, <3>3 DEF Bears, new
  <2>3. n \in Nat BY DEF n
  <2> QED BY <1>4, <1>7, <2>1, <2>2, <2>3 DEF Holds
<1>10. \A j \in 1..at' : j \in 1..at \/ j = last OBVIOUS
<1> QED BY <1>4, <1>8, <1>9, <1>10


-----------------------------------------------------------------------------
(* How many bytes the fields of an answer reach into. *)

\* A bounded set of integers has a greatest element.
LEMMA GreatestOf ==
  \A S \in SUBSET Int, n \in Int : S # {} /\ (\A x \in S : x <= n) => \E x \in S : \A y \in S : y <= x
<1> SUFFICES ASSUME NEW S \in SUBSET Int, NEW n \in Int, S # {}, \A x \in S : x <= n
             PROVE  \E x \in S : \A y \in S : y <= x
    OBVIOUS
<1> DEFINE T == {n - x : x \in S}
<1>1. T \in SUBSET Nat /\ T # {}
  <2>1. ASSUME NEW x \in S PROVE n - x \in Nat
    <3>1. x \in Int /\ x <= n OBVIOUS
    <3> QED BY <3>1
  <2>2. T \in SUBSET Nat BY <2>1
  <2>3. T # {} OBVIOUS
  <2> QED BY <2>2, <2>3
<1>2. PICK t \in T : \A u \in T : t <= u
  <2> HIDE DEF T
  <2> QED BY <1>1, LeastOf
<1>3. PICK x \in S : t = n - x OBVIOUS
<1>4. ASSUME NEW y \in S PROVE y <= x
  <2>1. n - y \in T OBVIOUS
  <2>2. n - x <= n - y
    <3> HIDE DEF T
    <3> QED BY <1>2, <1>3, <2>1
  <2>3. x \in Int /\ y \in Int OBVIOUS
  <2> HIDE DEF T
  <2> QED BY <2>2, <2>3
<1> QED BY <1>4

\* The byte a field ends in.
End(f) == f.first - 1 + Reach(f)

LEMMA EndInt == \A f : IsField(f) => End(f) \in Int
<1> TAKE f
<1> HAVE IsField(f)
<1>1. f.first \in Int /\ f.bits + f.offset \in Nat BY DEF IsField
<1>2. Reach(f) \in Nat BY <1>1, CeilFacts DEF Reach
<1> QED BY <1>1, <1>2 DEF End

\* Finitely many fields end before some byte.
LEMMA EndsBounded ==
  \A F : IsFiniteSet(F) /\ (\A f \in F : IsField(f)) => \E n \in Int : \A f \in F : End(f) <= n
<1> DEFINE Bounded(F) == \E n \in Int : \A f \in F : End(f) <= n
           Fields(F) == IsFiniteSet(F) /\ (\A f \in F : IsField(f))
           T == {c \in Nat : \A F : Fields(F) /\ Cardinality(F) = c => Bounded(F)}
<1>1. 0 \in T
  <2> SUFFICES ASSUME NEW F, Fields(F), Cardinality(F) = 0 PROVE Bounded(F)
      OBVIOUS
  <2>1. F = {} BY FS_EmptySet
  <2> QED BY <2>1
<1>2. ASSUME NEW c \in Nat, c \in T PROVE c + 1 \in T
  <2> SUFFICES ASSUME NEW F, Fields(F), Cardinality(F) = c + 1 PROVE Bounded(F)
      OBVIOUS
  <2>0. \A G : Fields(G) /\ Cardinality(G) = c => Bounded(G) BY <1>2
  <2> HIDE DEF T
  <2>1. PICK f : f \in F
    <3>1. F # {} BY FS_EmptySet
    <3> QED BY <3>1
  <2> DEFINE G == F \ {f}
  <2>2. IsFiniteSet(G) /\ Cardinality(G) = Cardinality(F) - 1 BY <2>1, FS_RemoveElement
  <2>3. Fields(G) /\ Cardinality(G) = c BY <2>2
  <2>4. Bounded(G)
    <3> HIDE DEF Bounded, Fields, G
    <3> QED BY <2>0, <2>3
  <2>5. PICK n \in Int : \A g \in G : End(g) <= n BY <2>4
  <2>6. End(f) \in Int BY <2>1, EndInt
  <2> DEFINE m == Most(n, End(f))
  <2>7. m \in Int /\ n <= m /\ End(f) <= m BY <2>6 DEF Most
  <2>8. ASSUME NEW g \in F PROVE End(g) <= m
    <3> HIDE DEF m
    <3>1. End(g) \in Int BY EndInt
    <3>2. CASE g = f BY <2>7, <3>2
    <3>3. CASE g # f
      <4>1. End(g) <= n BY <2>5, <3>3
      <4> QED BY <2>7, <3>1, <4>1
    <3> QED BY <3>2, <3>3
  <2> HIDE DEF m
  <2> QED BY <2>7, <2>8
<1>3. Nat \subseteq T
  <2> HIDE DEF T
  <2> QED BY <1>1, <1>2, Induct
<1>4. ASSUME NEW F, Fields(F) PROVE Bounded(F)
  <2>1. Cardinality(F) \in Nat BY <1>4, FS_CardinalityType
  <2> HIDE DEF Bounded, Fields
  <2> QED BY <1>3, <1>4, <2>1
<1> QED BY <1>4

LEMMA NeededFacts ==
  ASSUME NEW r \in DOMAIN Requests
  PROVE  Needed(r) \in Int /\ \A f \in Requests[r].receives : End(f) <= Needed(r)
<1> DEFINE F == Requests[r].receives
           least == Requests[r].minbytes
           ends == {End(f) : f \in F} \cup {least}
<1>1. IsFiniteSet(F) /\ (\A f \in F : IsField(f)) /\ least \in Nat BY FieldsAssumption
<1>2. Needed(r) = CHOOSE n \in ends : \A o \in ends : o <= n BY DEF Needed, RequiredResponseBytes, End
<1> HIDE DEF F, least
<1>3. PICK n \in Int : \A f \in F : End(f) <= n BY <1>1, EndsBounded
<1>4. ends \in SUBSET Int /\ ends # {} BY <1>1, EndInt
<1>5. Most(n, least) \in Int /\ n <= Most(n, least) /\ least <= Most(n, least) BY <1>1 DEF Most
<1>6. \A x \in ends : x <= Most(n, least)
  <2> TAKE x \in ends
  <2> DEFINE m == Most(n, least)
  <2>1. m \in Int /\ n <= m /\ least <= m BY <1>5
  <2> HIDE DEF m
  <2>2. ASSUME x = least PROVE x <= m BY <1>1, <2>1, <2>2
  <2>3. ASSUME NEW f \in F, x = End(f) PROVE x <= m
    <3>1. x \in Int /\ x <= n BY <1>1, <1>3, <2>3, EndInt
    <3> QED BY <2>1, <3>1
  <2> QED BY <2>2, <2>3 DEF m
<1> HIDE DEF ends
<1>7. \E x \in ends : \A y \in ends : y <= x BY <1>4, <1>5, <1>6, GreatestOf
<1>8. Needed(r) \in ends /\ \A o \in ends : o <= Needed(r) BY <1>2, <1>7
<1>9. \A f \in F : End(f) \in ends BY DEF ends
<1> QED BY <1>4, <1>8, <1>9 DEF F

LEMMA PaddedFacts ==
  ASSUME NEW base \in Seq(Byte), NEW n \in Int
  PROVE  Padded(base, n) \in Seq(Byte) /\ n <= Len(Padded(base, n))
<1> DEFINE m == Most(Len(base), n)
<1>1. Len(base) \in Nat BY LenProperties
<1>2. m \in Nat /\ n <= m BY <1>1 DEF Most
<1>3. Padded(base, n) = [i \in 1..m |-> IF i <= Len(base) THEN base[i] ELSE Fill] BY DEF Padded
<1> HIDE DEF m
<1>4. ASSUME NEW i \in 1..m PROVE (IF i <= Len(base) THEN base[i] ELSE Fill) \in Byte
  <2>1. CASE i <= Len(base)
    <3>1. i \in 1..Len(base) BY <1>1, <1>2, <2>1
    <3>2. base[i] \in Byte BY <3>1, ElementOfSeq
    <3> QED BY <2>1, <3>2
  <2>2. CASE ~(i <= Len(base)) BY <2>2, NumbersAssumption
  <2> QED BY <2>1, <2>2
<1>5. Padded(base, n) \in [1..m -> Byte] BY <1>3, <1>4
<1> DEFINE p == Padded(base, n)
<1> HIDE DEF p
<1>6. p \in [1..m -> Byte] BY <1>5 DEF p
<1>7. p \in Seq(Byte) /\ Len(p) = m BY <1>2, <1>6
<1> QED BY <1>2, <1>7 DEF p

\* A generated answer is as long as the fields need.
LEMMA SimulatedFacts ==
  ASSUME NEW r \in DOMAIN Requests, NEW frame \in Seq(Byte), frame # <<>>, NEW fill, fill # "canned"
  PROVE  Simulated(r, frame, fill) \in Seq(Byte) /\ Needed(r) <= Len(Simulated(r, frame, fill))
<1> DEFINE canned == Requests[r].canned
           lead == IF canned = <<>> THEN PositiveSid(frame) ELSE canned
           n == Needed(r)
<1>1. n \in Int BY NeededFacts
<1>2. canned \in Seq(Byte) BY FieldsAssumption
<1>3. PositiveSid(frame) \in Seq(Byte) /\ PositiveSid(frame) # <<>>
  <2>1. Len(frame) \in Nat \ {0} BY EmptySeq
  <2>2. frame[1] \in Byte BY <2>1, ElementOfSeq
  <2>5. \A v \in Byte : (v + 64) % 256 \in Byte BY DEF Byte
  <2>3. (frame[1] + 64) % 256 \in Byte BY <2>2, <2>5
  <2> DEFINE x == (frame[1] + 64) % 256
  <2>4. PositiveSid(frame) = <<x>> BY DEF PositiveSid
  <2> HIDE DEF x
  <2> QED BY <2>3, <2>4 DEF x
<1>4. lead \in Seq(Byte) /\ lead # <<>> BY <1>2, <1>3
<1>5. Simulated(r, frame, fill) = IF fill = "pad" THEN Padded(lead, n) ELSE Padded(SubSeq(lead, 1, 1), n)
  BY Zenon DEF Simulated
<1> HIDE DEF lead, n
<1>6. SubSeq(lead, 1, 1) \in Seq(Byte)
  <2>1. Len(lead) \in Nat \ {0} BY <1>4, EmptySeq
  <2>2. lead[1] \in Byte BY <1>4, <2>1, ElementOfSeq
  <2>3. \A i \in 1..1 : lead[i] \in Byte BY <2>2
  <2> QED BY <2>3, SubSeqProperties
<1> QED BY <1>1, <1>4, <1>5, <1>6, PaddedFacts DEF n


-----------------------------------------------------------------------------
(* Every step keeps the invariant. *)

LEMMA InWorkKept ==
  ASSUME InWork, UNCHANGED <<request, supplied, at, stream>>, phase' = "building" \/ at = Len(supplied)
  PROVE  InWork'
<1>1. \A j : FieldOf(j)' = FieldOf(j) /\ NumberOf(j)' = NumberOf(j) BY DEF FieldOf, NumberOf, Field
<1>2. Endian' = Endian BY DEF Endian
<1>3. \A j, k : Parted(j, k)' = Parted(j, k) BY DEF Parted, OwnHere, FieldOf, Field
<1>4. \A j : Holds(j)' <=> Holds(j) BY <1>1, <1>2, <1>3 DEF Holds
<1> QED BY <1>4 DEF InWork

LEMMA BegunKept ==
  ASSUME FramesInv, NEW r \in DOMAIN Requests, NEW s \in Supplies(r), Begin(r, s)
  PROVE  FramesInv'
<1>1. phase' = "building" /\ request' = r /\ supplied' = s /\ at' = 0 /\ stream' = Requests[r].sent BY DEF Begin
<1> DEFINE D == (DOMAIN Requests[r].sends) \X Inputs
<1>2. s \in Seq(D)
  <2>1. PICK n \in 0..MaxSupplied : s \in [1..n -> D] BY DEF Supplies
  <2>2. n \in Nat BY NumbersAssumption
  <2> QED BY <2>1, <2>2
<1>3. Len(s) \in Nat BY <1>2, LenProperties
<1>4. Requests[r].sent \in Seq(Byte) /\ Requests[r].sent # <<>> BY FieldsAssumption
<1>5. \A j \in 1..at' : FALSE BY <1>1
<1>6. InWork' BY <1>1, <1>2, <1>3, <1>4, <1>5 DEF InWork
<1> QED BY <1>1, <1>6 DEF FramesInv, Working, Resting

LEMMA SetKept ==
  ASSUME FramesInv, SetValue
  PROVE  FramesInv'
<1>1. /\ phase = "building" /\ at \in Nat /\ InWork /\ at < Len(supplied) /\ UNCHANGED <<request, supplied, reply, result>>
      BY DEF FramesInv, SetValue, Working
<1>2. PICK last \in Nat : last = at + 1 BY <1>1
<1>3. last \in 1..Len(supplied) /\ Len(supplied) \in Nat BY <1>1, <1>2, LenProperties DEF InWork
<1>4. NumberOf(last) \in Nat \cup {Null, Throws} BY <1>1, <1>3, InputFacts
<1> DEFINE n == NumberOf(last)
           f == FieldOf(last)
<1>5. IF n = Throws THEN phase' = "threw" /\ UNCHANGED <<at, stream>>
      ELSE IF n = Null \/ ~CanPack(f, Endian, stream)
      THEN phase' = "refused" /\ UNCHANGED <<at, stream>>
      ELSE stream' = Pack(f, Endian, n, stream) /\ at' = last /\ UNCHANGED phase
  BY <1>2, Zenon DEF SetValue, Current, NumberOf, FieldOf, Endian
<1>6. CASE n = Throws \/ n = Null \/ ~CanPack(f, Endian, stream)
  <2>1. phase' \in {"threw", "refused"} /\ at' = at BY <1>5, <1>6
  <2> QED BY <1>1, <2>1 DEF FramesInv, Working, Resting
<1>7. CASE n # Throws /\ n # Null /\ CanPack(f, Endian, stream)
  <2>1. stream' = Pack(f, Endian, n, stream) /\ at' = last /\ UNCHANGED phase BY <1>5, <1>7
  <2>2. n \in Nat BY <1>4, <1>7
  <2>3. UNCHANGED <<request, supplied>> BY <1>1
  <2>4. stream' \in Seq(Byte) /\ Len(stream') = Len(stream) /\ \A j \in 1..at' : Holds(j)'
    BY <1>1, <1>2, <1>7, <2>1, <2>2, <2>3, PackedHolds
  <2>5. stream' # <<>>
    <3>1. stream \in Seq(Byte) /\ stream # <<>> BY <1>1 DEF InWork
    <3>2. Len(stream) \in Nat \ {0} BY <3>1, EmptySeq
    <3> QED BY <2>4, <3>2
  <2>6. at' \in Nat /\ at' <= Len(supplied') BY <1>1, <1>3, <2>1
  <2>7. phase' = "building" BY <1>1, <2>1
  <2>8. request' \in DOMAIN Requests /\ supplied' \in Seq((DOMAIN Requests[request'].sends) \X Inputs)
    BY <1>1 DEF InWork
  <2> HIDE DEF n, f
  <2>9. InWork' BY <2>4, <2>5, <2>6, <2>7, <2>8 DEF InWork
  <2> QED BY <2>6, <2>7, <2>9 DEF FramesInv, Working, Resting
<1> QED BY <1>6, <1>7

LEMMA AskedKept ==
  ASSUME FramesInv, NEW fill, NEW hinted, Ask(fill, hinted)
  PROVE  FramesInv'
<1>1. /\ phase = "built" /\ phase' = "answered" /\ at \in Nat /\ InWork
      /\ UNCHANGED <<request, supplied, at, stream>>
      BY DEF FramesInv, Ask, Working
<1>2. InWork' BY <1>1, InWorkKept DEF InWork
<1>3. Generated'
  <2> SUFFICES ASSUME result'.fill # "canned", result'.as = request
               PROVE  reply' \in Seq(Byte) /\ Needed(request) <= Len(reply')
      BY <1>1 DEF Generated
  <2>1. PICK r : /\ reply' = Simulated(r, stream, fill) /\ result' = [kind |-> "asked", as |-> r, fill |-> fill]
                 \/ /\ result' = [kind |-> "asked", as |-> None, fill |-> fill]
    BY DEF Ask
  <2>2. request # None /\ request \in DOMAIN Requests BY <1>1, FieldsAssumption DEF InWork
  <2>3. result'.as # None BY <2>2
  <2>4. reply' = Simulated(r, stream, fill) /\ result'.as = r /\ result'.fill = fill BY <2>1, <2>3
  <2>5. stream \in Seq(Byte) /\ stream # <<>> BY <1>1 DEF InWork
  <2>6. reply' = Simulated(request, stream, fill) /\ fill # "canned" BY <2>4
  <2> QED BY <2>2, <2>5, <2>6, SimulatedFacts
<1> QED BY <1>1, <1>2, <1>3 DEF FramesInv, Working, Resting

LEMMA DecodedKept ==
  ASSUME FramesInv, Decode
  PROVE  FramesInv'
<1>1. /\ phase = "answered" /\ phase' = "decoded" /\ at \in Nat /\ InWork /\ Generated
      /\ UNCHANGED <<request, supplied, at, stream, reply>>
      /\ result' = [kind |-> "decoded", as |-> result.as, fill |-> result.fill, shown |-> Shown]
      BY DEF FramesInv, Decode, Working
<1>2. InWork' BY <1>1, InWorkKept DEF InWork
<1>3. result'.as = result.as /\ result'.fill = result.fill /\ result'.shown = Shown BY <1>1
<1>4. Generated' BY <1>1, <1>3 DEF Generated
<1>5. Shown' = Shown BY <1>1 DEF Shown
<1> QED BY <1>1, <1>2, <1>3, <1>4, <1>5 DEF FramesInv, Working, Resting

LEMMA Stepped == FramesInv /\ [Next]_vars => FramesInv'
<1> SUFFICES ASSUME FramesInv, [Next]_vars PROVE FramesInv'
    OBVIOUS
<1>1. ASSUME NEW r \in DOMAIN Requests, NEW s \in Supplies(r), Begin(r, s) PROVE FramesInv' BY <1>1, BegunKept
<1>2. CASE SetValue BY <1>2, SetKept
<1>3. CASE Built
  <2>1. /\ phase = "building" /\ at = Len(supplied) /\ phase' = "built" /\ at \in Nat /\ InWork
        /\ UNCHANGED <<request, supplied, at, stream>>
        BY <1>3 DEF Built, FramesInv, Working
  <2>2. InWork' BY <2>1, InWorkKept
  <2> QED BY <2>1, <2>2 DEF FramesInv, Working, Resting
<1>4. CASE Decode BY <1>4, DecodedKept
<1>5. CASE Done BY <1>5 DEF Done, FramesInv, Working, Resting
<1>6. ASSUME NEW fill \in Fills, NEW hinted \in BOOLEAN, Ask(fill, hinted) PROVE FramesInv' BY <1>6, AskedKept
<1>7. ASSUME NEW n \in Numbers, Format(n) PROVE FramesInv'
  <2>1. phase' = "formatted" /\ at' = at /\ result'.of = n /\ result'.digits = FormatFixed(n[1], n[2], n[3])
    BY <1>7 DEF Format
  <2>2. n \in Nat \X Nat \X Nat BY NumbersAssumption
  <2> QED BY <2>1, <2>2 DEF FramesInv, Working, Resting
<1>8. ASSUME NEW length \in 0..TextLength, NEW bytes \in [1..length -> Alphabet], Text(bytes) PROVE FramesInv'
  <2>1. phase' = "text" /\ at' = at /\ result'.of = bytes /\ result'.chars = DecodeUtf8Ignore(bytes) BY <1>8 DEF Text
  <2>2. bytes \in Seq(Byte)
    <3>1. length \in Nat /\ bytes \in [1..length -> Byte] BY NumbersAssumption
    <3> QED BY <3>1
  <2> QED BY <2>1, <2>2 DEF FramesInv, Working, Resting
<1>9. CASE UNCHANGED vars
  <2>1. UNCHANGED <<phase, request, supplied, at, stream, reply, result>> BY <1>9 DEF vars
  <2>2. InWork => InWork' BY <2>1, InWorkKept DEF InWork
  <2>3. Generated => Generated' BY <2>1 DEF Generated
  <2>4. Shown' = Shown BY <2>1 DEF Shown
  <2> QED BY <2>1, <2>2, <2>3, <2>4 DEF FramesInv, Working, Resting
<1> QED BY <1>1, <1>2, <1>3, <1>4, <1>5, <1>6, <1>7, <1>8, <1>9 DEF Next

LEMMA Invariant == Spec => []FramesInv
<1> QED BY Started, Stepped, PTL DEF Spec


-----------------------------------------------------------------------------
(* Packing, and reading back. *)

NeighbourStep ==
  at' = at + 1 =>
    LET old == HexToBin(stream)
        new == HexToBin(stream')
    IN \A b \in DOMAIN old : old[b] # new[b] => b \in OwnHere(Current)

LEMMA PackedStep == FramesInv /\ SetValue => NeighbourStep
<1> SUFFICES ASSUME FramesInv, SetValue, at' = at + 1,
                    NEW b \in DOMAIN HexToBin(stream), HexToBin(stream)[b] # HexToBin(stream')[b]
             PROVE  b \in OwnHere(Current)
    BY DEF NeighbourStep
<1>1. at \in Nat /\ InWork /\ at < Len(supplied) BY DEF FramesInv, SetValue, Working
<1> DEFINE last == at + 1
           n == NumberOf(last)
           f == FieldOf(last)
<1>2. last \in 1..Len(supplied)
  <2>1. Len(supplied) \in Nat BY <1>1, LenProperties DEF InWork
  <2> QED BY <1>1, <2>1
<1>3. n \in Nat \cup {Null, Throws} /\ IsField(f) BY <1>1, <1>2, InputFacts
<1>4. Current = f BY DEF Current, FieldOf
<1>5. IF n = Throws THEN phase' = "threw" /\ UNCHANGED <<at, stream>>
      ELSE IF n = Null \/ ~CanPack(f, Endian, stream)
      THEN phase' = "refused" /\ UNCHANGED <<at, stream>>
      ELSE stream' = Pack(f, Endian, n, stream) /\ at' = last /\ UNCHANGED phase
  BY Zenon DEF SetValue, Current, NumberOf, FieldOf, Endian
<1> HIDE DEF n, f
<1>6. at' # at BY <1>1
<1>7. n \in Nat /\ CanPack(f, Endian, stream) /\ stream' = Pack(f, Endian, n, stream) BY <1>3, <1>5, <1>6
<1>8. stream \in Seq(Byte) BY <1>1 DEF InWork
<1>9. b \in 1..(8 * Len(stream)) BY <1>8, HexToBinFacts
<1>10. f.first >= 1 BY <1>3, <1>7, <1>8, PackFacts
<1>11. PICK i \in 1..f.bits : b = 8 * (f.first - 1) + WriteOrder(f, Endian)[i]
  <2>1. \A c \in 1..(8 * Len(stream)) :
          HexToBin(Pack(f, Endian, n, stream))[c] # HexToBin(stream)[c]
            => \E i \in 1..f.bits : c = 8 * (f.first - 1) + WriteOrder(f, Endian)[i]
    BY <1>3, <1>7, <1>8, PackFacts
  <2>2. HexToBin(Pack(f, Endian, n, stream))[b] # HexToBin(stream)[b] BY <1>7
  <2> QED BY <1>9, <2>1, <2>2
<1>12. 8 * (f.first - 1) + WriteOrder(f, Endian)[i] \in Own(f, IsLittleEndian(f, Endian)) BY <1>3, <1>10, OrderFacts
<1> QED BY <1>4, <1>11, <1>12 DEF OwnHere, Endian

LEMMA NeighbourStepped == FramesInv /\ [Next]_vars => [NeighbourStep]_vars
<1> SUFFICES ASSUME FramesInv, Next PROVE NeighbourStep
    OBVIOUS
<1>0. at \in Nat /\ 0 # at + 1 /\ at # at + 1 BY DEF FramesInv
<1>1. ASSUME NEW r, NEW s, Begin(r, s) PROVE NeighbourStep BY <1>0, <1>1 DEF Begin, NeighbourStep
<1>2. CASE SetValue BY <1>2, PackedStep
<1>3. CASE Built \/ Decode \/ Done BY <1>0, <1>3 DEF Built, Decode, Done, NeighbourStep
<1>4. ASSUME NEW fill, NEW hinted, Ask(fill, hinted) PROVE NeighbourStep BY <1>0, <1>4 DEF Ask, NeighbourStep
<1>5. ASSUME NEW n, Format(n) PROVE NeighbourStep BY <1>0, <1>5 DEF Format, NeighbourStep
<1>6. ASSUME NEW bytes, Text(bytes) PROVE NeighbourStep BY <1>0, <1>6 DEF Text, NeighbourStep
<1> QED BY <1>1, <1>2, <1>3, <1>4, <1>5, <1>6 DEF Next

\* Packing an input never changes a bit outside the field's own: setValue rewrites whole bytes with what was there
\* (ecuData.ts:352, 410).
THEOREM NeighboursStay == Spec => NeighboursKept
<1>1. FramesInv /\ [Next]_vars => [NeighbourStep]_vars BY NeighbourStepped
<1>2. Spec => [][NeighbourStep]_vars BY <1>1, Invariant, PTL DEF Spec
<1> QED BY <1>2 DEF NeighboursKept, NeighbourStep

\* In the finished request every supplied field that no later input overlaps, and whose layout is read as it is
\* written, reads as the input's number: getHexValue after setValue.
THEOREM InputsReadBack == Spec => []ReadsBack
<1>1. FramesInv => ReadsBack
  <2> SUFFICES ASSUME FramesInv, phase = "built", NEW j \in DOMAIN supplied,
                      OneLayout(FieldOf(j)), Fits(FieldOf(j), NumberOf(j)),
                      \A k \in (j + 1)..Len(supplied) : OwnHere(FieldOf(j)) \cap OwnHere(FieldOf(k)) = {}
               PROVE  GetHexValue(FieldOf(j), Endian, stream) = NumberOf(j)
      BY DEF ReadsBack, FieldOf, NumberOf, Endian
  <2> DEFINE f == FieldOf(j)
             n == NumberOf(j)
  <2>1. InWork /\ at = Len(supplied) BY DEF FramesInv, Working, InWork
  <2>2. j \in 1..Len(supplied) BY <2>1, LenProperties DEF InWork
  <2>3. IsField(f) BY <2>1, <2>2, InputFacts
  <2>4. Holds(j) BY <2>1, <2>2 DEF InWork
  <2>5. n \in Nat /\ f.first >= 1 /\ f.first - 1 + Reach(f) <= Len(stream) BY <2>4 DEF Holds
  <2>6. n < Power(2, f.bits) BY DEF Fits
  <2>7. Bears(stream, f, Endian, n) BY <2>1, <2>4, <2>6 DEF Holds, Parted
  <2>8. ~IsLittleEndian(f, Endian) \/ Reach(f) = 1 BY DEF OneLayout, Endian
  <2>9. stream \in Seq(Byte) BY <2>1 DEF InWork
  <2> HIDE DEF f, n
  <2>10. \A i \in 1..f.bits : HexToBin(stream)[8 * (f.first - 1) + WriteOrder(f, Endian)[i]] = BitsOf(n, f.bits)[i]
    BY <2>7 DEF Bears, Spot
  <2>11. GetHexValue(f, Endian, stream) = n BY <2>3, <2>5, <2>6, <2>8, <2>9, <2>10, ReadPlaced
  <2> QED BY <2>11 DEF f, n
<1> QED BY <1>1, Invariant, PTL


-----------------------------------------------------------------------------
(* Every field of a generated answer. *)

LEMMA OwnBound ==
  ASSUME NEW f, NEW little \in BOOLEAN, IsField(f), f.first >= 1
  PROVE  \A b \in Own(f, little) : b \in Int /\ b <= 8 * End(f)
<1> DEFINE bits == f.bits
           offset == f.offset
           start == 8 * (f.first - 1)
           R == Reach(f)
           own == Own(f, little)
           room == 8 - offset
           over == bits - room
           last == start + 16 + 8 * (over \div 8)
           Across == ((start + 1)..(start + room)) \cup ((start + 9)..(start + 8 + 8 * (over \div 8)))
                     \cup ((last - (over % 8) + 1)..(IF over % 8 = 0 THEN last - 1 ELSE last))
           Ahead == (start + offset + 1)..(start + offset + bits)
           Within == (start + room - bits + 1)..(start + room)
<1>1. bits \in Nat \ {0} /\ offset \in 0..7 /\ start \in Nat BY DEF IsField
<1>2. R \in Nat /\ R >= 1 /\ bits + offset <= 8 * R
  <2>1. bits + offset \in Nat BY <1>1
  <2>2. R = CeilDiv(bits + offset, 8) BY DEF Reach
  <2> HIDE DEF R, bits, offset
  <2>3. R \in Nat /\ bits + offset <= 8 * R BY <2>1, <2>2, CeilFacts
  <2> QED BY <1>1, <2>3
<1>3. own = IF ~little THEN Ahead ELSE IF over <= 0 THEN Within ELSE Across BY DEF Own
<1>4. 8 * End(f) = start + 8 * R
  <2>1. f.first \in Int BY DEF IsField
  <2> DEFINE a == f.first
             e == a - 1 + R
  <2>2. End(f) = e BY DEF End
  <2>3. 8 * e = start + 8 * R
    <3> HIDE DEF R, a
    <3> QED BY <1>2, <2>1 DEF a
  <2> QED BY <2>2, <2>3
<1> HIDE DEF own, bits, offset, start, R
<1>5. CASE ~little
  <2>1. own = Ahead BY <1>3, <1>5
  <2> QED BY <1>1, <1>2, <1>4, <2>1 DEF own
<1>6. CASE little /\ over <= 0
  <2>1. own = Within BY <1>3, <1>6
  <2> QED BY <1>1, <1>2, <1>4, <2>1 DEF own
<1>7. CASE little /\ ~(over <= 0)
  <2>1. own = Across
    <3> HIDE DEF Across, Within, Ahead, over
    <3> QED BY <1>3, <1>7
  <2> DEFINE q == over \div 8
             r == over % 8
  <2>2. q \in Nat /\ r \in 0..7 /\ over = 8 * q + r
    <3>1. over \in Nat BY <1>1, <1>7
    <3> HIDE DEF over
    <3> QED BY <3>1, EighthsFacts
  <2>3. bits + offset = 8 + over BY <1>1
  <2>4. 8 + 8 * q <= 8 * R /\ (r # 0 => 16 + 8 * q <= 8 * R)
    <3> HIDE DEF q, r, over
    <3> QED BY <1>1, <1>2, <2>2, <2>3
  <2>5. own = ((start + 1)..(start + room)) \cup ((start + 9)..(start + 8 + 8 * q))
              \cup ((start + 16 + 8 * q - r + 1)..(IF r = 0 THEN start + 16 + 8 * q - 1 ELSE start + 16 + 8 * q))
    <3>1. over \div 8 = q /\ over % 8 = r OBVIOUS
    <3> HIDE DEF over, q, r
    <3>2. (start + 9)..(start + 8 + 8 * (over \div 8)) = (start + 9)..(start + 8 + 8 * q) BY <3>1
    <3>3. last = start + 16 + 8 * q BY <3>1
    <3> HIDE DEF last
    <3>4. (last - (over % 8) + 1)..(IF over % 8 = 0 THEN last - 1 ELSE last)
            = (start + 16 + 8 * q - r + 1)..(IF r = 0 THEN start + 16 + 8 * q - 1 ELSE start + 16 + 8 * q)
      BY <1>1, <2>2, <3>1, <3>3
    <3> QED BY <2>1, <3>2, <3>4
  <2> HIDE DEF q, r, over
  <2>6. ASSUME NEW b \in own PROVE b \in Int /\ b <= start + 8 * R
    <3>1. CASE b \in (start + 1)..(start + room) BY <1>1, <1>2, <3>1
    <3>2. CASE b \in (start + 9)..(start + 8 + 8 * q) BY <1>1, <1>2, <2>2, <2>4, <3>2
    <3>3. CASE b \in (start + 16 + 8 * q - r + 1)..(IF r = 0 THEN start + 16 + 8 * q - 1 ELSE start + 16 + 8 * q)
      <4>1. CASE r = 0 BY <1>1, <1>2, <2>2, <2>4, <3>3, <4>1
      <4>2. CASE r # 0 BY <1>1, <1>2, <2>2, <2>4, <3>3, <4>2
      <4> QED BY <4>1, <4>2
    <3> QED BY <2>5, <2>6, <3>1, <3>2, <3>3
  <2> QED BY <1>4, <2>6 DEF own
<1> QED BY <1>5, <1>6, <1>7

\* The head, the middle and the tail of a little-endian field are bits, and there is a head.
LEMMA LittleRead ==
  ASSUME NEW f, IsField(f), NEW w \in Seq(Bit), Reach(f) \in Nat, Len(w) = 8 * Reach(f),
         f.bits + f.offset <= 8 * Reach(f), 8 * Reach(f) < f.bits + f.offset + 8
  PROVE  LittleBits(f, w) \in Seq(Bit) /\ LittleBits(f, w) # <<>>
<1> DEFINE bits == f.bits
           offset == f.offset
           R == Reach(f)
           lastbit == 8 - offset
           firstbit == Most(lastbit - bits, 0)
           after == bits - (lastbit - firstbit)
           inner == IF after > 8 THEN 8 * (R - 2) ELSE 0
           afterInner == after - inner
           end == 8 * (R - 1)
           head == PySlice(w, firstbit, lastbit)
           middle == PySlice(w, 8, 8 + inner)
           tail == IF afterInner > 0 THEN PySlice(w, end - afterInner, end) ELSE <<>>
<1>1. LittleBits(f, w) = head \o middle \o tail BY DEF LittleBits
<1>2. bits \in Nat \ {0} /\ offset \in 0..7 BY DEF IsField
<1> HIDE DEF R
<1>3. R \in Nat /\ bits + offset <= 8 * R /\ 8 * R < bits + offset + 8 /\ Len(w) = 8 * R BY DEF R
<1> HIDE DEF bits, offset
<1>4. R >= 1 BY <1>2, <1>3
<1>5. /\ lastbit \in Nat /\ firstbit \in Nat /\ firstbit < lastbit /\ lastbit <= 8
      /\ (firstbit = 0 \/ (firstbit = lastbit - bits /\ firstbit >= 0))
  BY <1>2 DEF Most
<1>6. bits = after + (lastbit - firstbit) BY <1>2, <1>5
<1>7. after \in Int /\ (firstbit # 0 => after = 0) BY <1>2, <1>5
<1> HIDE DEF firstbit, after
<1>8. after > 0 => firstbit = 0 /\ bits + offset = 8 + after
  <2>1. lastbit = 8 - offset OBVIOUS
  <2> HIDE DEF lastbit
  <2> QED BY <1>2, <1>5, <1>6, <1>7, <2>1
<1>9. inner \in Nat /\ (afterInner > 0 => end - afterInner \in Nat /\ end \in Nat /\ end - afterInner <= end)
  <2>1. CASE after > 8
    <3>1. R >= 2 /\ after <= 8 * (R - 1) BY <1>2, <1>3, <1>4, <1>7, <1>8, <2>1
    <3> QED BY <1>3, <1>7, <2>1, <3>1
  <2>2. CASE ~(after > 8)
    <3>1. after > 0 => R >= 2 BY <1>2, <1>3, <1>4, <1>7, <1>8, <2>2
    <3> QED BY <1>3, <1>7, <2>2, <3>1
  <2> QED BY <2>1, <2>2
<1> HIDE DEF inner, afterInner, end, lastbit
<1>10. Reaches(w, firstbit, lastbit, lastbit - firstbit)
  <2>1. lastbit <= 8 * R BY <1>3, <1>4, <1>5
  <2> QED BY <1>3, <1>5, <2>1 DEF Reaches
<1>11. head \in Seq(Bit) /\ Len(head) = lastbit - firstbit BY <1>10, BitsSliced DEF Taken
<1>12. middle \in Seq(Bit)
  <2> DEFINE z == 8 + inner
  <2>1. z \in Nat /\ 8 \in Nat /\ 8 <= z BY <1>9
  <2> HIDE DEF z
  <2>2. PySlice(w, 8, z) \in Seq(Bit) BY <2>1, Sliced
  <2> QED BY <2>2 DEF z
<1>13. tail \in Seq(Bit)
  <2>1. CASE afterInner > 0
    <3> DEFINE a == end - afterInner
    <3>1. a \in Nat /\ end \in Nat /\ a <= end BY <1>9, <2>1
    <3> HIDE DEF a
    <3>2. PySlice(w, a, end) \in Seq(Bit) BY <3>1, Sliced
    <3> QED BY <2>1, <3>2 DEF a
  <2>2. CASE ~(afterInner > 0)
    <3>1. tail = <<>> BY <2>2
    <3> HIDE DEF tail
    <3> QED BY <3>1
  <2> QED BY <2>1, <2>2
<1> HIDE DEF head, middle, tail
<1>14. head \o middle \in Seq(Bit) /\ (head \o middle) \o tail \in Seq(Bit) BY <1>11, <1>12, <1>13, ConcatProperties
<1>15. head # <<>> BY <1>5, <1>11
<1>16. (head \o middle) \o tail # <<>> BY <1>11, <1>12, <1>13, <1>14, <1>15, ConcatSimplifications
<1> QED BY <1>1, <1>14, <1>16

\* A field that lies inside the frame has a number.
LEMMA FieldRead ==
  ASSUME NEW f, NEW e, IsField(f), f.first >= 1, NEW frame \in Seq(Byte), End(f) <= Len(frame)
  PROVE  GetHexValue(f, e, frame) \in Nat
<1> DEFINE bits == f.bits
           offset == f.offset
           R == Reach(f)
           slice == PySlice(frame, f.first - 1, f.first - 1 + R)
           W == HexToBin(slice)
           got == IF IsLittleEndian(f, e) THEN LittleBits(f, W) ELSE PySlice(W, offset, offset + bits)
<1>1. f.first - 1 + Reach(f) <= Len(frame) BY DEF End
<1>2. /\ R \in Nat /\ R >= 1 /\ bits + offset <= 8 * R /\ 8 * R < bits + offset + 8
      /\ slice \in Seq(Byte) /\ Len(slice) = R /\ ~TooShort(f, frame)
  BY <1>1, FieldWindow
<1>3. W \in Seq(Bit) /\ Len(W) = 8 * R BY <1>2, HexToBinFacts
<1>4. GetHexValue(f, e, frame) = IF TooShort(f, frame) \/ got = <<>> THEN Null ELSE BinToInt(got) BY DEF GetHexValue
<1> HIDE DEF slice, W
<1>5. got \in Seq(Bit) /\ got # <<>>
  <2>1. CASE IsLittleEndian(f, e) BY <1>2, <1>3, <2>1, LittleRead
  <2>2. CASE ~IsLittleEndian(f, e)
    <3> DEFINE z == offset + bits
    <3>1. bits \in Nat \ {0} /\ offset \in Nat BY DEF IsField
    <3>2. got = PySlice(W, offset, z) BY <2>2
    <3> HIDE DEF got
    <3>3. Reaches(W, offset, z, bits)
      <4>1. W \in Seq(Bit) /\ Len(W) = 8 * R BY <1>3
      <4> HIDE DEF R, bits, offset
      <4>2. z \in Nat /\ z - offset = bits /\ offset <= z /\ z <= 8 * R BY <1>2, <3>1
      <4> QED BY <3>1, <4>1, <4>2 DEF Reaches
    <3>4. PySlice(W, offset, z) \in Seq(Bit) /\ Len(PySlice(W, offset, z)) = bits BY <3>3, BitsSliced DEF Taken
    <3> HIDE DEF z
    <3> QED BY <3>1, <3>2, <3>4
  <2> QED BY <2>1, <2>2
<1> HIDE DEF got
<1>6. PICK r \in [0..Len(got) -> Nat] : BinToInt(got) = r[Len(got)] BY <1>5, BinToIntUnfolds
<1>7. Len(got) \in Nat BY <1>5, LenProperties
<1>8. BinToInt(got) \in Nat BY <1>6, <1>7
<1> QED BY <1>2, <1>4, <1>5, <1>8

\* Demo mode populates every widget: an answer generated for the request itself has all the bits of every field, and
\* none of them is shown empty (simulated.ts:50).
THEOREM WidgetsWhole == Spec => []EveryWidgetWhole
<1>1. FramesInv => EveryWidgetWhole
  <2> SUFFICES ASSUME FramesInv, phase = "decoded", result.fill # "canned", result.as = request,
                      NEW f \in Requests[request].receives, f.first >= 1
               PROVE  /\ \A b \in OwnHere(f) : b <= 8 * Len(reply)
                      /\ f.divideby # 0 => result.shown[f].kind # "none"
      BY DEF EveryWidgetWhole
  <2>1. InWork /\ Generated /\ result.shown = Shown BY DEF FramesInv, Working
  <2>2. request \in DOMAIN Requests /\ reply \in Seq(Byte) /\ Needed(request) <= Len(reply) BY <2>1 DEF Generated, InWork
  <2>3. IsField(f) BY <2>2, FieldsAssumption
  <2>4. End(f) <= Len(reply)
    <3>1. End(f) <= Needed(request) /\ Needed(request) \in Int BY <2>2, NeededFacts
    <3>2. End(f) \in Int /\ Len(reply) \in Nat BY <2>2, <2>3, EndInt, LenProperties
    <3> QED BY <2>2, <3>1, <3>2
  <2>5. ASSUME NEW b \in OwnHere(f) PROVE b <= 8 * Len(reply)
    <3>1. IsLittleEndian(f, Endian) \in BOOLEAN BY Zenon DEF IsLittleEndian
    <3>2. b \in Int /\ b <= 8 * End(f) BY <2>3, <2>5, <3>1, OwnBound DEF OwnHere, Endian
    <3>3. End(f) \in Int /\ Len(reply) \in Nat BY <2>2, <2>3, EndInt, LenProperties
    <3> QED BY <2>4, <3>2, <3>3
  <2>6. ASSUME f.divideby # 0 PROVE result.shown[f].kind # "none"
    <3> DEFINE v == GetHexValue(f, Endian, reply)
    <3>1. v \in Nat BY <2>2, <2>3, <2>4, FieldRead
    <3>2. v # Null BY <3>1 DEF Null
    <3>3. result.shown[f] = GetDisplayValue(f, Endian, reply) BY <2>1 DEF Shown, Endian
    <3>4. f.ascii \in BOOLEAN /\ f.scaled \in BOOLEAN BY <2>3 DEF IsField
    <3>5. GetDisplayValue(f, Endian, reply).kind # "none"
      <4> DEFINE signed == ApplySign(v, f)
                 number == [kind |-> "number", num |-> signed * f.step + f.shift, den |-> f.divideby]
      <4>1. CASE f.ascii
        <5>1. GetDisplayValue(f, Endian, reply) = [kind |-> "text", chars |-> DecodeUtf8Ignore(Bytes(v, Width(f)))]
          BY <3>2, <4>1, Zenon DEF GetDisplayValue
        <5> QED BY <5>1
      <4>2. CASE ~f.ascii /\ ~f.scaled
        <5>1. GetDisplayValue(f, Endian, reply) =
                IF signed \in DOMAIN f.lists THEN [kind |-> "label", label |-> f.lists[signed]] ELSE [kind |-> "hex", value |-> v]
          BY <3>2, <4>2, Zenon DEF GetDisplayValue
        <5> HIDE DEF v, signed
        <5> QED BY <5>1
      <4>3. CASE ~f.ascii /\ f.scaled
        <5>1. GetDisplayValue(f, Endian, reply) = number BY <2>6, <3>2, <4>3, Zenon DEF GetDisplayValue
        <5> QED BY <5>1
      <4> QED BY <3>4, <4>1, <4>2, <4>3
    <3> QED BY <3>3, <3>5
  <2> QED BY <2>5, <2>6
<1> QED BY <1>1, Invariant, PTL


-----------------------------------------------------------------------------
(* Rounding. *)

LEMMA TenPowers ==
  /\ \A n \in Nat : Power(10, n) = Power(2, n) * Power(5, n)
  /\ \A a, b \in Nat : Power(10, a + b) = Power(10, a) * Power(10, b)
<1>0. 2 \in Nat \ {0} /\ 5 \in Nat \ {0} /\ 10 \in Nat \ {0} OBVIOUS
<1>1. /\ Power(2, 0) = 1 /\ Power(5, 0) = 1 /\ Power(10, 0) = 1
      /\ \A n \in Nat : Power(2, n) \in Nat /\ Power(2, n + 1) = 2 * Power(2, n)
      /\ \A n \in Nat : Power(5, n) \in Nat /\ Power(5, n + 1) = 5 * Power(5, n)
      /\ \A n \in Nat : Power(10, n) \in Nat /\ Power(10, n + 1) = 10 * Power(10, n)
      BY <1>0, PowerFacts
<1>2. \A x, y \in Nat : (2 * x) * (5 * y) = 10 * (x * y) OBVIOUS
<1>3. ASSUME NEW n \in Nat PROVE Power(10, n) = Power(2, n) * Power(5, n)
  <2> DEFINE T == {k \in Nat : Power(10, k) = Power(2, k) * Power(5, k)}
  <2>1. 0 \in T BY <1>1
  <2>2. ASSUME NEW k \in Nat, k \in T PROVE k + 1 \in T
    <3>1. Power(10, k) = Power(2, k) * Power(5, k) BY <2>2
    <3>2. Power(2, k + 1) * Power(5, k + 1) = 10 * (Power(2, k) * Power(5, k)) BY <1>1, <1>2
    <3> QED BY <1>1, <3>1, <3>2
  <2>3. n \in T
    <3> HIDE DEF T
    <3> QED BY <2>1, <2>2, Induct
  <2> QED BY <2>3
<1>4. \A x, y \in Nat : 10 * (x * y) = x * (10 * y) OBVIOUS
<1>5. ASSUME NEW a \in Nat, NEW b \in Nat PROVE Power(10, a + b) = Power(10, a) * Power(10, b)
  <2> DEFINE T == {k \in Nat : Power(10, a + k) = Power(10, a) * Power(10, k)}
  <2>1. 0 \in T
    <3> DEFINE p == Power(10, a)
    <3>1. p \in Nat /\ Power(10, 0) = 1 BY <1>1
    <3>2. a + 0 = a OBVIOUS
    <3>3. Power(10, a + 0) = p BY <3>2
    <3> HIDE DEF p
    <3>4. p = p * 1 BY <3>1
    <3> QED BY <3>1, <3>3, <3>4 DEF p
  <2>2. ASSUME NEW k \in Nat, k \in T PROVE k + 1 \in T
    <3> DEFINE c == a + k
               j == k + 1
    <3>1. Power(10, c) = Power(10, a) * Power(10, k) BY <2>2
    <3>2. c \in Nat /\ a + j = c + 1 /\ j \in Nat OBVIOUS
    <3>3. Power(10, j) = 10 * Power(10, k) BY <1>1
    <3> HIDE DEF c, j
    <3>4. Power(10, a + j) = 10 * Power(10, c) BY <1>1, <3>2
    <3>5. Power(10, a) * (10 * Power(10, k)) = 10 * (Power(10, a) * Power(10, k)) BY <1>1, <1>4
    <3>6. Power(10, a + j) = Power(10, a) * Power(10, j) BY <3>1, <3>3, <3>4, <3>5
    <3> QED BY <3>2, <3>6 DEF j
  <2>3. b \in T
    <3> HIDE DEF T
    <3> QED BY <2>1, <2>2, Induct
  <2> QED BY <2>3
<1> QED BY <1>3, <1>5

LEMMA Cancel == \A x, y \in Int, d \in Nat \ {0} : x * d <= y * d => x <= y
<1> SUFFICES ASSUME NEW x \in Int, NEW y \in Int, NEW d \in Nat \ {0}, x * d <= y * d, x > y PROVE FALSE
    OBVIOUS
<1>1. PICK c \in Nat : x = y + 1 + c
  <2>1. x - y - 1 \in Nat /\ x = y + 1 + (x - y - 1) OBVIOUS
  <2> QED BY <2>1
<1>2. x * d = y * d + d + c * d /\ c * d \in Nat /\ y * d \in Int BY <1>1
<1> QED BY <1>2

LEMMA Scales == \A x, y, p \in Nat : x <= y => p * x <= p * y
<1> TAKE x, y, p \in Nat
<1> HAVE x <= y
<1>1. PICK c \in Nat : y = x + c
  <2>1. y - x \in Nat /\ y = x + (y - x) OBVIOUS
  <2> QED BY <2>1
<1>2. p * y = p * x + p * c /\ p * c \in Nat /\ p * x \in Nat BY <1>1
<1> QED BY <1>2

\* An error of at most half a unit.
LEMMA HalfUnit ==
  ASSUME NEW e \in Int, NEW t \in Nat, NEW d \in Nat \ {0}, NEW p \in Nat \ {0}, e * d = p * t, 2 * t <= d
  PROVE  0 <= e /\ 2 * e <= p /\ (2 * e = p => 2 * t = d)
<1>1. p * t \in Nat /\ p * (2 * t) = 2 * (p * t) /\ 2 * t \in Nat OBVIOUS
<1>2. p * (2 * t) <= p * d BY <1>1, Scales
<1>3. 0 <= e
  <2>1. 0 * d = 0 OBVIOUS
  <2>2. 0 * d <= e * d BY <1>1, <2>1
  <2>3. 0 \in Int OBVIOUS
  <2> QED BY <2>2, <2>3, Cancel
<1>4. (2 * e) * d = 2 * (e * d) /\ 2 * e \in Int OBVIOUS
<1>5. (2 * e) * d = p * (2 * t) BY <1>1, <1>4
<1>6. 2 * e <= p
  <2>1. (2 * e) * d <= p * d BY <1>2, <1>5
  <2> QED BY <1>4, <2>1, Cancel
<1>7. ASSUME 2 * e = p PROVE 2 * t = d
  <2>1. p * d = p * (2 * t) BY <1>5, <1>7
  <2>2. d * p <= (2 * t) * p
    <3>1. d * p = p * d /\ (2 * t) * p = p * (2 * t) /\ d * p \in Int OBVIOUS
    <3> QED BY <2>1, <3>1
  <2>3. d <= 2 * t BY <1>1, <2>2, Cancel
  <2> QED BY <1>1, <2>3
<1> QED BY <1>3, <1>6, <1>7

LEMMA Rounded ==
  ASSUME NEW m \in Nat, NEW k \in Nat, NEW d \in Nat
  PROVE  LET g == FormatFixed(m, k, d)
             unit == Power(2, k)
             error == g * unit - m * Power(10, d)
         IN /\ 2 * error <= unit /\ -2 * error <= unit
            /\ (2 * error = unit \/ -2 * error = unit) => g % 2 = 0
<1> DEFINE g == FormatFixed(m, k, d)
           p == Power(2, k)
           f == Power(5, k)
           ten == Power(10, d)
           error == g * p - m * ten
<1>1. p \in Nat \ {0} /\ f \in Nat /\ ten \in Nat /\ Power(10, k) = p * f
  <2>1. 2 \in Nat \ {0} /\ 5 \in Nat \ {0} /\ 10 \in Nat \ {0} OBVIOUS
  <2> QED BY <2>1, PowerFacts, TenPowers
<1>2. CASE d >= k
  <2> DEFINE x == Power(10, d - k)
  <2>1. x \in Nat /\ ten = (p * f) * x
    <3>1. 10 \in Nat \ {0} /\ d - k \in Nat /\ k + (d - k) = d BY <1>2
    <3>2. Power(10, k + (d - k)) = Power(10, k) * Power(10, d - k) BY <3>1, TenPowers
    <3> QED BY <1>1, <3>1, <3>2, PowerFacts
  <2>2. g = (m * f) * x BY <1>2 DEF FormatFixed
  <2> HIDE DEF g, p, f, ten, x
  <2>3. ((m * f) * x) * p = m * ((p * f) * x) BY <1>1, <2>1
  <2>4. error = 0
    <3>1. m * ten \in Nat BY <1>1
    <3> QED BY <2>1, <2>2, <2>3, <3>1
  <2> HIDE DEF error
  <2>5. 2 * error <= p /\ -2 * error <= p /\ 2 * error # p /\ -2 * error # p BY <1>1, <2>4
  <2> QED BY <2>5 DEF g, p, ten, error
<1>3. CASE ~(d >= k)
  <2> DEFINE D == Power(10, k - d)
             n == m * f
             q == n \div D
             r == n % D
             up == 2 * r > D \/ (2 * r = D /\ q % 2 = 1)
  <2>1. D \in Nat \ {0} /\ p * f = ten * D
    <3>1. 10 \in Nat \ {0} /\ k - d \in Nat /\ d + (k - d) = k BY <1>3
    <3>2. Power(10, d + (k - d)) = Power(10, d) * Power(10, k - d) BY <3>1, TenPowers
    <3> QED BY <1>1, <3>1, <3>2, PowerFacts
  <2>2. g = IF up THEN q + 1 ELSE q BY <1>3 DEF FormatFixed
  <2> HIDE DEF g, p, f, ten, D
  <2>3. n \in Nat BY <1>1
  <2>4. p * n = (m * ten) * D
    <3>1. p * (m * f) = m * (p * f) BY <1>1
    <3>2. m * (ten * D) = (m * ten) * D BY <1>1, <2>1
    <3> QED BY <2>1, <3>1, <3>2
  <2> HIDE DEF n
  <2>5. q \in Nat /\ r \in Nat /\ r < D /\ n = D * q + r BY <2>1, <2>3, DivFacts
  <2> HIDE DEF q, r
  <2> DEFINE exact == m * ten
  <2>6. exact \in Nat BY <1>1
  <2>7. p * n = exact * D BY <2>4
  <2>12. error = g * p - exact OBVIOUS
  <2> HIDE DEF exact, error
  <2>8. p * n = (q * p) * D + p * r /\ p * r \in Nat /\ q * p \in Nat
    <3>1. p * (D * q + r) = (q * p) * D + p * r BY <1>1, <2>1, <2>5
    <3> QED BY <1>1, <2>5, <3>1
  <2>9. CASE ~up
    <3>1. g = q BY <2>2, <2>9
    <3> DEFINE e == exact - q * p
    <3>2. e \in Int /\ e * D = p * r
      <4>1. (exact - q * p) * D = exact * D - (q * p) * D BY <2>1, <2>6, <2>8
      <4>2. exact * D \in Int /\ (q * p) * D \in Int BY <2>1, <2>6, <2>8
      <4> QED BY <2>6, <2>7, <2>8, <4>1, <4>2
    <3>3. 2 * r <= D BY <2>1, <2>5, <2>9
    <3>4. error = -e BY <2>6, <2>8, <2>12, <3>1
    <3> HIDE DEF e
    <3>5. 0 <= e /\ 2 * e <= p /\ (2 * e = p => 2 * r = D) BY <1>1, <2>1, <2>5, <3>2, <3>3, HalfUnit
    <3>6. 2 * error <= p /\ -2 * error <= p /\ 2 * error # p /\ (-2 * error = p => 2 * r = D)
      BY <1>1, <3>2, <3>4, <3>5
    <3>7. 2 * r = D => q % 2 = 0
      <4>1. q % 2 = 0 \/ q % 2 = 1 BY <2>5
      <4> QED BY <2>9, <4>1
    <3> QED BY <3>1, <3>6, <3>7 DEF g, p, ten, error
  <2>10. CASE up
    <3>1. g = q + 1 BY <2>2, <2>10
    <3> DEFINE t == D - r
    <3>2. t \in Nat /\ 2 * t <= D /\ (2 * t = D => 2 * r = D) BY <2>1, <2>5, <2>10
    <3>3. error \in Int /\ error * D = p * t
      <4>1. (q + 1) * p = q * p + p BY <1>1, <2>5
      <4>7. g * p = (q + 1) * p BY <3>1, Zenon
      <4>2. error = (q * p + p) - exact BY <2>12, <4>1, <4>7, Zenon
      <4>3. ((q * p + p) - exact) * D = (q * p) * D + p * D - exact * D BY <1>1, <2>1, <2>6, <2>8
      <4>4. p * (D - r) = p * D - p * r BY <1>1, <2>1, <2>5
      <4>5. exact * D \in Int /\ (q * p) * D \in Int /\ p * D \in Int BY <1>1, <2>1, <2>6, <2>8
      <4>6. (q * p) * D + p * D - exact * D = p * D - p * r BY <2>7, <2>8, <4>5
      <4> QED BY <1>1, <2>6, <2>8, <4>2, <4>3, <4>4, <4>6
    <3> HIDE DEF t
    <3>4. 0 <= error /\ 2 * error <= p /\ (2 * error = p => 2 * t = D) BY <1>1, <2>1, <3>2, <3>3, HalfUnit
    <3>5. -2 * error <= p /\ -2 * error # p BY <1>1, <3>3, <3>4
    <3>6. 2 * r = D => (q + 1) % 2 = 0
      <4>1. 2 * r = D => q % 2 = 1 BY <2>1, <2>5, <2>10
      <4> QED BY <2>5, <4>1
    <3> QED BY <3>1, <3>2, <3>4, <3>5, <3>6 DEF g, p, ten, error
  <2> QED BY <2>9, <2>10
<1> QED BY <1>2, <1>3

\* A number is shown rounded to the nearest, and to the even digit when halfway (python.ts:71).
THEOREM Rounds == Spec => []RoundsHalfEven
<1>1. FramesInv => RoundsHalfEven
  <2> SUFFICES ASSUME FramesInv, phase = "formatted" PROVE RoundsHalfEven
      BY DEF RoundsHalfEven
  <2> DEFINE m == result.of[1]
             k == result.of[2]
             d == result.of[3]
  <2>1. m \in Nat /\ k \in Nat /\ d \in Nat /\ result.digits = FormatFixed(m, k, d) BY DEF FramesInv
  <2> HIDE DEF m, k, d
  <2>2. LET g == FormatFixed(m, k, d)
             unit == Power(2, k)
             error == g * unit - m * Power(10, d)
         IN /\ 2 * error <= unit /\ -2 * error <= unit
            /\ (2 * error = unit \/ -2 * error = unit) => g % 2 = 0
    BY <2>1, Rounded
  <2> QED BY <2>1, <2>2, Zenon DEF RoundsHalfEven, m, k, d
<1> QED BY <1>1, Invariant, PTL


-----------------------------------------------------------------------------
(* Decoding text. *)

\* A function whose value at each place up to n is put before its value at a later place.
Suffixes(f, n, N, add, next) == \A i \in 1..N : f[i] = IF i > n THEN <<>> ELSE add[i] \o f[next[i]]
Later(n, N, next) == \A i \in 1..n : next[i] \in (i + 1)..N

LEMMA SuffixRecursion ==
  ASSUME NEW A, NEW n \in Nat, NEW N \in Nat, n <= N, NEW add, NEW next,
         \A i \in 1..n : add[i] \in Seq(A), Later(n, N, next)
  PROVE  \E f \in [1..N -> Seq(A)] : Suffixes(f, n, N, add, next)
<1> DEFINE Solves(f, a) == \A i \in a..N : f[i] = IF i > n THEN <<>> ELSE add[i] \o f[next[i]]
           Has(a) == \E f \in [a..N -> Seq(A)] : Solves(f, a)
           T == {c \in Nat : c <= N => Has(N + 1 - c)}
<1>1. 0 \in T
  <2> DEFINE b == N + 1
             f == [i \in b..N |-> <<>>]
  <2>1. b..N = {} OBVIOUS
  <2>2. f \in [b..N -> Seq(A)] BY <2>1
  <2>3. Solves(f, b) BY <2>1
  <2>4. N + 1 - 0 = b OBVIOUS
  <2> HIDE DEF f, b, Solves
  <2>5. Has(b) BY <2>2, <2>3
  <2> HIDE DEF Has
  <2> QED BY <2>4, <2>5
<1>2. ASSUME NEW j \in 1..N, Has(j + 1) PROVE Has(j)
  <2>1. PICK f \in [(j + 1)..N -> Seq(A)] : Solves(f, j + 1) BY <1>2
  <2> DEFINE v == IF j > n THEN <<>> ELSE add[j] \o f[next[j]]
             e == [i \in j..N |-> IF i = j THEN v ELSE f[i]]
  <2>2. v \in Seq(A)
    <3>1. CASE j > n
      <4>1. v = <<>> BY <3>1
      <4>2. <<>> \in Seq(A) BY EmptySeq
      <4> QED BY <4>1, <4>2, Zenon
    <3>2. CASE ~(j > n)
      <4>1. j \in 1..n BY <3>2
      <4>2. add[j] \in Seq(A) /\ next[j] \in (j + 1)..N BY <4>1 DEF Later
      <4>3. f[next[j]] \in Seq(A) BY <2>1, <4>2
      <4>4. add[j] \o f[next[j]] \in Seq(A) BY <4>2, <4>3, ConcatProperties
      <4> QED BY <3>2, <4>4, Zenon
    <3> QED BY <3>1, <3>2
  <2> HIDE DEF v
  <2>3. \A i \in j..N : i # j => i \in (j + 1)..N OBVIOUS
  <2>4. e \in [j..N -> Seq(A)] BY <2>1, <2>2, <2>3
  <2>5. e[j] = v /\ \A i \in (j + 1)..N : e[i] = f[i] OBVIOUS
  <2> HIDE DEF e
  <2>6. ASSUME NEW i \in j..N PROVE e[i] = IF i > n THEN <<>> ELSE add[i] \o e[next[i]]
    <3>1. ASSUME ~(i > n) PROVE e[next[i]] = f[next[i]]
      <4>1. i \in 1..n BY <3>1
      <4>2. next[i] \in (i + 1)..N BY <4>1 DEF Later
      <4>3. next[i] \in (j + 1)..N BY <4>2
      <4> QED BY <2>5, <4>3
    <3>2. CASE i = j BY <2>5, <3>1, <3>2, Zenon DEF v
    <3>3. CASE i # j
      <4>1. i \in (j + 1)..N BY <2>3, <3>3
      <4>2. e[i] = f[i] BY <2>5, <4>1
      <4>3. f[i] = IF i > n THEN <<>> ELSE add[i] \o f[next[i]] BY <2>1, <4>1
      <4> QED BY <3>1, <4>2, <4>3, Zenon
    <3> QED BY <3>2, <3>3
  <2>7. Solves(e, j) BY <2>6
  <2> HIDE DEF Solves
  <2> QED BY <2>4, <2>7
<1> HIDE DEF Has
<1>3. ASSUME NEW c \in Nat, c \in T PROVE c + 1 \in T
  <2> SUFFICES ASSUME c + 1 <= N PROVE Has(N + 1 - (c + 1))
      OBVIOUS
  <2> DEFINE j == N - c
  <2>1. j \in 1..N /\ N + 1 - c = j + 1 /\ N + 1 - (c + 1) = j OBVIOUS
  <2>2. Has(N + 1 - c) BY <1>3
  <2> HIDE DEF j
  <2>3. Has(j) BY <1>2, <2>1, <2>2
  <2> QED BY <2>1, <2>3
<1>4. N \in T
  <2> HIDE DEF T
  <2> QED BY <1>1, <1>3, Induct
<1>5. N + 1 - N = 1 OBVIOUS
<1>6. Has(1) BY <1>4, <1>5
<1> QED BY <1>6 DEF Has, Suffixes

\* What holds at the end, and at a place whenever it holds at all later ones, holds from the front.
LEMMA Backwards ==
  ASSUME NEW N \in Nat, NEW T, \A i \in 1..N : (\A j \in (i + 1)..N : j \in T) => i \in T
  PROVE  1..N \subseteq T
<1> SUFFICES ASSUME NEW x \in 1..N, x \notin T PROVE FALSE
    OBVIOUS
<1> DEFINE S == {i \in 1..N : i \notin T}
<1>1. S \in SUBSET Int /\ S # {} /\ \A i \in S : i <= N OBVIOUS
<1>2. PICK y \in S : \A i \in S : i <= y
  <2>1. N \in Int OBVIOUS
  <2> HIDE DEF S
  <2> QED BY <1>1, <2>1, GreatestOf
<1>3. ASSUME NEW j \in (y + 1)..N PROVE j \in T
  <2>1. j \in 1..N /\ ~(j <= y) OBVIOUS
  <2>2. j \notin S
    <3> HIDE DEF S
    <3> QED BY <1>2, <2>1
  <2> QED BY <2>1, <2>2
<1>4. y \in 1..N /\ y \notin T OBVIOUS
<1> QED BY <1>3, <1>4


Places(s) == 1..(Len(s) + 1)
Unrolls(f, s) == Concatenated(s) = f[1] /\ f[Len(s) + 1] = <<>> /\ \A i \in 1..Len(s) : f[i] = s[i] \o f[i + 1]

LEMMA ConcatenatedFacts ==
  ASSUME NEW A, NEW s \in Seq(Seq(A))
  PROVE  \E f \in [Places(s) -> Seq(A)] : Unrolls(f, s)
<1> DEFINE n == Len(s)
           N == n + 1
           from[i \in 1..N] == IF i > n THEN <<>> ELSE s[i] \o from[i + 1]
           next == [i \in 1..n |-> i + 1]
<1>0. n \in Nat /\ N \in Nat /\ n <= N BY LenProperties
<1>1. Concatenated(s) = from[1] BY DEF Concatenated
<1>3. \A i \in 1..n : s[i] \in Seq(A) BY ElementOfSeq
<1> HIDE DEF n
<1>4. Later(n, N, next) BY <1>0 DEF Later
<1>5. PICK f \in [1..N -> Seq(A)] : Suffixes(f, n, N, s, next)
  <2> HIDE DEF next, N
  <2> QED BY <1>0, <1>3, <1>4, SuffixRecursion
<1>6. \A i \in 1..N : f[i] = IF i > n THEN <<>> ELSE s[i] \o f[i + 1]
  <2> TAKE i \in 1..N
  <2>1. f[i] = IF i > n THEN <<>> ELSE s[i] \o f[next[i]] BY <1>5 DEF Suffixes
  <2>2. ~(i > n) => next[i] = i + 1 BY <1>0
  <2> HIDE DEF next
  <2> QED BY <2>1, <2>2, Zenon
<1>7. f = [i \in 1..N |-> IF i > n THEN <<>> ELSE s[i] \o f[i + 1]] BY <1>6
<1>8. from = [i \in 1..N |-> IF i > n THEN <<>> ELSE s[i] \o from[i + 1]] BY <1>7, Zenon DEF from
<1> HIDE DEF from
<1> DEFINE T == {i \in 1..N : from[i] = f[i]}
<1>9. ASSUME NEW i \in 1..N, \A j \in (i + 1)..N : j \in T PROVE i \in T
  <2>1. ~(i > n) => i + 1 \in (i + 1)..N BY <1>0
  <2>2. ~(i > n) => from[i + 1] = f[i + 1] BY <1>9, <2>1
  <2>3. from[i] = IF i > n THEN <<>> ELSE s[i] \o from[i + 1] BY <1>8
  <2>4. from[i] = f[i] BY <1>6, <2>2, <2>3, Zenon
  <2> QED BY <2>4
<1>10. 1..N \subseteq T
  <2> HIDE DEF T, N
  <2> QED BY <1>0, <1>9, Backwards
<1>11. from[1] = f[1]
  <2>1. 1 \in 1..N BY <1>0
  <2> QED BY <1>10, <2>1
<1>12. f[N] = <<>>
  <2>1. N \in 1..N /\ N > n BY <1>0
  <2> HIDE DEF N
  <2> QED BY <1>6, <2>1
<1>13. \A i \in 1..n : f[i] = s[i] \o f[i + 1]
  <2>1. \A i \in 1..n : i \in 1..N /\ ~(i > n) BY <1>0
  <2> QED BY <1>6, <2>1
<1>14. Unrolls(f, s) BY <1>1, <1>11, <1>12, <1>13 DEF Unrolls, n
<1> QED BY <1>14 DEF Places, n


LEMMA ConcatenatedEmpty == Concatenated(<<>>) = <<>>
<1>1. <<>> \in Seq(Seq(Byte)) /\ Len(<<>>) = 0 BY EmptySeq
<1>2. PICK f \in [Places(<<>>) -> Seq(Byte)] : Unrolls(f, <<>>) BY <1>1, ConcatenatedFacts
<1>3. Len(<<>>) + 1 = 1 BY <1>1
<1> QED BY <1>2, <1>3 DEF Unrolls

LEMMA ConsFacts ==
  ASSUME NEW A, NEW x \in A, NEW t \in Seq(A)
  PROVE  /\ <<x>> \o t \in Seq(A) /\ Len(<<x>> \o t) = Len(t) + 1 /\ (<<x>> \o t)[1] = x
         /\ \A i \in 1..Len(t) : (<<x>> \o t)[i + 1] = t[i]
<1>1. <<x>> \in Seq(A) /\ Len(<<x>>) = 1 /\ <<x>>[1] = x OBVIOUS
<1> DEFINE h == <<x>>
           s == h \o t
<1>2. h \in Seq(A) /\ Len(h) = 1 /\ h[1] = x BY <1>1
<1> HIDE DEF h
<1>3. Len(t) \in Nat BY LenProperties
<1>4. /\ s \in Seq(A) /\ Len(s) = Len(h) + Len(t)
      /\ \A i \in 1..(Len(h) + Len(t)) : s[i] = IF i <= Len(h) THEN h[i] ELSE t[i - Len(h)]
  BY <1>2, ConcatProperties
<1> HIDE DEF s
<1>5. s[1] = x BY <1>2, <1>3, <1>4
<1>6. \A i \in 1..Len(t) : s[i + 1] = t[i]
  <2> TAKE i \in 1..Len(t)
  <2> DEFINE j == i + 1
  <2>1. j \in 1..(Len(h) + Len(t)) /\ ~(j <= Len(h)) /\ j - Len(h) = i BY <1>2, <1>3
  <2> SUFFICES s[j] = t[i]
      OBVIOUS
  <2> HIDE DEF j
  <2> QED BY <1>4, <2>1
<1> QED BY <1>2, <1>3, <1>4, <1>5, <1>6 DEF s, h

LEMMA ConcatenatedCons ==
  ASSUME NEW A, NEW x \in Seq(A), NEW t \in Seq(Seq(A))
  PROVE  Concatenated(<<x>> \o t) = x \o Concatenated(t)
<1> DEFINE s == <<x>> \o t
           n == Len(t)
           N == n + 1
<1>0. n \in Nat /\ N \in Nat BY LenProperties
<1>1. s \in Seq(Seq(A)) /\ Len(s) = N /\ s[1] = x /\ \A i \in 1..n : s[i + 1] = t[i] BY ConsFacts
<1> HIDE DEF s
<1>2. PICK f \in [Places(s) -> Seq(A)] : Unrolls(f, s) BY <1>1, ConcatenatedFacts
<1>9. PICK g \in [Places(t) -> Seq(A)] : Unrolls(g, t) BY ConcatenatedFacts
<1>3. Concatenated(t) = g[1] /\ g[N] = <<>> /\ \A i \in 1..n : g[i] = t[i] \o g[i + 1] BY <1>9 DEF Unrolls
<1>4. f[N + 1] = <<>> /\ \A i \in 1..N : f[i] = s[i] \o f[i + 1] BY <1>1, <1>2 DEF Unrolls
<1> HIDE DEF n
<1> DEFINE T == {i \in 1..N : f[i + 1] = g[i]}
<1>5. ASSUME NEW i \in 1..N, \A j \in (i + 1)..N : j \in T PROVE i \in T
  <2>1. CASE i = N BY <1>3, <1>4, <2>1
  <2>2. CASE i # N
    <3> DEFINE j == i + 1
    <3>1. j \in (i + 1)..N /\ j \in 1..N /\ i \in 1..n BY <1>0, <2>2
    <3>2. f[j + 1] = g[j] BY <1>5, <3>1
    <3>3. s[j] = t[i] BY <1>1, <3>1
    <3>4. g[i] = t[i] \o g[j] BY <1>3, <3>1
    <3> HIDE DEF j
    <3>5. f[j] = s[j] \o f[j + 1] BY <1>4, <3>1
    <3>6. f[j] = g[i] BY <3>2, <3>3, <3>4, <3>5
    <3> QED BY <3>6 DEF j
  <2> QED BY <2>1, <2>2
<1>6. 1..N \subseteq T
  <2> HIDE DEF T, N
  <2> QED BY <1>0, <1>5, Backwards
<1>7. f[2] = g[1]
  <2>1. 1 \in 1..N /\ 1 + 1 = 2 BY <1>0
  <2> QED BY <1>6, <2>1
<1>8. f[1] = s[1] \o f[2]
  <2>1. 1 \in 1..N /\ 1 + 1 = 2 BY <1>0
  <2> HIDE DEF N
  <2> QED BY <1>4, <2>1
<1> QED BY <1>1, <1>2, <1>3, <1>7, <1>8 DEF s, Unrolls

Piece(c) == IF Len(c) = 1 THEN c ELSE <<>>

LEMMA SinglesFacts ==
  /\ Singles(<<>>) = <<>>
  /\ \A c \in Seq(Byte), rest \in Seq(Seq(Byte)) : Singles(<<c>> \o rest) = Piece(c) \o Singles(rest)
<1>1. Singles(<<>>) = <<>>
  <2> DEFINE p == [i \in 1..Len(<<>>) |-> IF Len(<<>>[i]) = 1 THEN <<>>[i] ELSE <<>>]
  <2>1. Len(<<>>) = 0 BY EmptySeq
  <2>2. 1..Len(<<>>) = {} BY <2>1
  <2>3. p = <<>> BY <2>2
  <2>4. Singles(<<>>) = Concatenated(p) BY DEF Singles
  <2> HIDE DEF p
  <2> QED BY <2>3, <2>4, ConcatenatedEmpty
<1>2. ASSUME NEW c \in Seq(Byte), NEW rest \in Seq(Seq(Byte))
      PROVE  Singles(<<c>> \o rest) = Piece(c) \o Singles(rest)
  <2> DEFINE s == <<c>> \o rest
             n == Len(rest)
             p == [i \in 1..Len(s) |-> Piece(s[i])]
             q == [i \in 1..n |-> Piece(rest[i])]
             w == <<Piece(c)>> \o q
  <2>0. n \in Nat BY LenProperties
  <2>1. Singles(s) = Concatenated(p) /\ Singles(rest) = Concatenated(q) BY DEF Singles, Piece
  <2>2. s \in Seq(Seq(Byte)) /\ Len(s) = n + 1 /\ s[1] = c /\ \A i \in 1..n : s[i + 1] = rest[i] BY ConsFacts
  <2>3. \A d \in Seq(Byte) : Piece(d) \in Seq(Byte) BY EmptySeq DEF Piece
  <2>4. \A i \in 1..n : rest[i] \in Seq(Byte) BY ElementOfSeq
  <2>5. \A i \in 1..Len(s) : s[i] \in Seq(Byte) BY <2>2, ElementOfSeq
  <2> HIDE DEF n, s
  <2>6. q \in Seq(Seq(Byte)) /\ Len(q) = n /\ \A i \in 1..n : q[i] = Piece(rest[i])
    <3>1. q \in [1..n -> Seq(Byte)] BY <2>3, <2>4
    <3>2. \A i \in 1..n : q[i] = Piece(rest[i]) OBVIOUS
    <3> HIDE DEF q
    <3> QED BY <2>0, <3>1, <3>2
  <2>7. p \in Seq(Seq(Byte)) /\ Len(p) = n + 1 /\ \A i \in 1..(n + 1) : p[i] = Piece(s[i])
    <3>1. p \in [1..(n + 1) -> Seq(Byte)] BY <2>2, <2>3, <2>5
    <3>2. \A i \in 1..(n + 1) : p[i] = Piece(s[i]) BY <2>2
    <3> HIDE DEF p
    <3> QED BY <2>0, <3>1, <3>2
  <2> HIDE DEF p, q
  <2>8. w \in Seq(Seq(Byte)) /\ Len(w) = n + 1 /\ w[1] = Piece(c) /\ \A i \in 1..n : w[i + 1] = q[i]
    <3>1. Piece(c) \in Seq(Byte) BY <2>3
    <3> QED BY <2>6, <3>1, ConsFacts
  <2> HIDE DEF w
  <2>9. \A k \in 1..(n + 1) : p[k] = w[k]
    <3> TAKE k \in 1..(n + 1)
    <3>1. CASE k = 1 BY <2>2, <2>7, <2>8, <3>1
    <3>2. CASE k # 1
      <4> DEFINE i == k - 1
      <4>1. i \in 1..n /\ i + 1 = k BY <2>0, <3>2
      <4> HIDE DEF i
      <4>2. s[k] = rest[i] /\ w[k] = q[i] BY <2>2, <2>8, <4>1
      <4> QED BY <2>6, <2>7, <4>1, <4>2
    <3> QED BY <3>1, <3>2
  <2>10. p = w BY <2>7, <2>8, <2>9, SeqEqual
  <2>11. Concatenated(w) = Piece(c) \o Concatenated(q)
    <3>1. Piece(c) \in Seq(Byte) BY <2>3
    <3> QED BY <2>6, <3>1, ConcatenatedCons DEF w
  <2> QED BY <2>1, <2>10, <2>11 DEF s
<1> QED BY <1>1, <1>2


LEMMA ByteSides == \A b \in Byte : (b < 128 \/ b >= 128) /\ ~(b < 128 /\ b >= 128)
BY DEF Byte

\* The bytes that belong to a sequence after its lead byte are no ASCII bytes.
LEMMA ConsumedFacts ==
  ASSUME NEW bytes \in Seq(Byte), NEW i \in 1..Len(bytes)
  PROVE  /\ Consumed(bytes, i) \in 1..4 /\ i + Consumed(bytes, i) <= Len(bytes) + 1
         /\ SequenceLength(bytes[i]) \in 2..4
         /\ \A k \in 1..(Consumed(bytes, i) - 1) : i + k <= Len(bytes) /\ bytes[i + k] >= 128
<1> DEFINE m == SequenceLength(bytes[i])
           L == Len(bytes)
           Ok(n) == \A k \in 1..(n - 1) : i + k <= L /\ Continues(bytes[i], k, bytes[i + k])
           ok == {n \in 1..m : Ok(n)}
           c == Consumed(bytes, i)
<1>1. m \in 2..4 BY DEF SequenceLength
<1>2. c = CHOOSE n \in ok : \A o \in ok : o <= n BY DEF Consumed
<1> HIDE DEF m, L
<1>3. 1 \in ok
  <2>1. \A k \in 1..(1 - 1) : FALSE OBVIOUS
  <2>2. Ok(1) BY <2>1
  <2> HIDE DEF Ok
  <2> QED BY <1>1, <2>2
<1> HIDE DEF Ok
<1>4. ok \in SUBSET Int /\ ok # {} /\ m \in Int /\ \A n \in ok : n <= m BY <1>1, <1>3
<1>5. \E n \in ok : \A o \in ok : o <= n
  <2> HIDE DEF ok
  <2> QED BY <1>4, GreatestOf
<1>6. c \in ok
  <2> HIDE DEF ok
  <2> QED BY <1>2, <1>5
<1> HIDE DEF c
<1>7. c \in 1..m /\ Ok(c) BY <1>6
<1>8. ASSUME NEW k \in 1..(c - 1) PROVE i + k <= L /\ bytes[i + k] >= 128
  <2>1. i + k <= L /\ Continues(bytes[i], k, bytes[i + k]) BY <1>7 DEF Ok
  <2> DEFINE b == bytes[i + k]
             least == CASE k = 1 /\ bytes[i] = 224 -> 160 [] k = 1 /\ bytes[i] = 240 -> 144 [] OTHER -> 128
  <2>2. b >= least BY <2>1 DEF Continues
  <2>3. i + k \in 1..Len(bytes) BY <2>1 DEF L
  <2>4. b \in Byte BY <2>3, ElementOfSeq
  <2>5. least \in Nat /\ least >= 128 OBVIOUS
  <2> HIDE DEF b, least
  <2>6. b >= 128 BY <2>2, <2>4, <2>5 DEF Byte
  <2> QED BY <2>1, <2>6 DEF b
<1>9. L \in Nat BY LenProperties DEF L
<1>10. i + c <= L + 1
  <2>1. CASE c = 1
    <3>1. i <= L BY DEF L
    <3> QED BY <1>9, <2>1, <3>1
  <2>2. CASE c # 1
    <3>1. c - 1 \in 1..(c - 1) BY <1>1, <1>7, <2>2
    <3>2. i + (c - 1) <= L BY <1>8, <3>1
    <3> QED BY <1>1, <1>7, <1>9, <3>2
  <2> QED BY <2>1, <2>2
<1>11. c \in 1..4 BY <1>1, <1>7
<1> QED BY <1>1, <1>8, <1>10, <1>11 DEF c, L, m

\* What decoding does at a place, where it goes on, and what it gives.
Lead(b) == ~(b < 194 \/ b > 244)
After(bytes, i) == IF bytes[i] < 128 \/ ~Lead(bytes[i]) THEN i + 1 ELSE Resume(bytes, i)
Given(bytes, i) ==
  IF bytes[i] < 128 THEN <<<<bytes[i]>>>>
  ELSE IF Lead(bytes[i]) /\ Consumed(bytes, i) = SequenceLength(bytes[i])
  THEN <<SubSeq(bytes, i, i + Consumed(bytes, i) - 1)>> ELSE <<>>

LEMMA AfterFacts ==
  ASSUME NEW bytes \in Seq(Byte), NEW i \in 1..Len(bytes)
  PROVE  /\ After(bytes, i) \in (i + 1)..(Len(bytes) + 1)
         /\ Given(bytes, i) \in Seq(Seq(Byte))
         /\ \A k \in (i + 1)..(After(bytes, i) - 1) : bytes[k] >= 128
         /\ bytes[i] >= 128 => Given(bytes, i) = <<>> \/ \E c \in Seq(Byte) : Len(c) # 1 /\ Given(bytes, i) = <<c>>
<1> DEFINE n == Consumed(bytes, i)
           L == Len(bytes)
           m == SequenceLength(bytes[i])
           c == SubSeq(bytes, i, i + n - 1)
           a == After(bytes, i)
           g == Given(bytes, i)
<1>1. /\ n \in 1..4 /\ i + n <= L + 1 /\ m \in 2..4 /\ \A k \in 1..(n - 1) : i + k <= L /\ bytes[i + k] >= 128
  BY ConsumedFacts
<1>2. L \in Nat BY LenProperties
<1>3. bytes[i] \in Byte BY ElementOfSeq
<1>9. g = IF bytes[i] < 128 THEN <<<<bytes[i]>>>> ELSE IF Lead(bytes[i]) /\ n = m THEN <<c>> ELSE <<>> BY DEF Given
<1>10. a = IF bytes[i] < 128 \/ ~Lead(bytes[i]) THEN i + 1 ELSE i + n BY DEF After, Resume
<1>11. i \in Nat /\ i >= 1 /\ i <= L BY <1>2
<1>4. n \in Nat /\ n >= 1 BY <1>1
<1>5. c \in Seq(Byte) /\ Len(c) = n
  <2> DEFINE z == i + n - 1
  <2>1. z \in Int /\ i <= z /\ z <= L /\ z - i + 1 = n /\ i \in Int BY <1>1, <1>2, <1>11
  <2>2. \A j \in i..z : bytes[j] \in Byte
    <3> TAKE j \in i..z
    <3> HIDE DEF n, z
    <3>1. j \in 1..L BY <1>2, <1>11, <2>1
    <3> QED BY <3>1, ElementOfSeq
  <2> HIDE DEF z, n
  <2>3. SubSeq(bytes, i, z) \in Seq(Byte) /\ Len(SubSeq(bytes, i, z)) = IF i <= z THEN z - i + 1 ELSE 0
    BY <2>1, <2>2, SubSeqProperties
  <2> QED BY <2>1, <2>3 DEF z
<1> HIDE DEF n, L, m, c, a, g
<1>6. a \in (i + 1)..(L + 1) BY <1>1, <1>2, <1>4, <1>10, <1>11
<1>7. ASSUME NEW k \in (i + 1)..(a - 1) PROVE bytes[k] >= 128
  <2>1. a = i + n
    <3>1. a # i + 1 BY <1>6, <1>7, <1>11
    <3> QED BY <1>10, <3>1
  <2> DEFINE j == k - i
  <2>2. j \in 1..(n - 1) /\ i + j = k BY <1>4, <1>11, <2>1
  <2> HIDE DEF j
  <2> QED BY <1>1, <2>2
<1>8. g \in Seq(Seq(Byte)) /\ (bytes[i] >= 128 => g = <<>> \/ \E d \in Seq(Byte) : Len(d) # 1 /\ g = <<d>>)
  <2>1. CASE bytes[i] < 128
    <3>1. <<bytes[i]>> \in Seq(Byte) BY <1>3
    <3> DEFINE d == <<bytes[i]>>
    <3>2. g = <<d>> /\ d \in Seq(Byte) BY <1>9, <2>1, <3>1
    <3> HIDE DEF d
    <3>3. ~(bytes[i] >= 128) BY <1>3, <2>1, ByteSides
    <3> QED BY <3>2, <3>3
  <2>2. CASE ~(bytes[i] < 128) /\ Lead(bytes[i]) /\ n = m
    <3>1. g = <<c>> BY <1>9, <2>2
    <3>2. Len(c) # 1 BY <1>1, <1>5, <2>2
    <3>3. <<c>> \in Seq(Seq(Byte)) BY <1>5
    <3>4. \E d \in Seq(Byte) : Len(d) # 1 /\ g = <<d>> BY <1>5, <3>1, <3>2, Zenon
    <3> QED BY <3>1, <3>3, <3>4, Zenon
  <2>3. CASE ~(bytes[i] < 128) /\ ~(Lead(bytes[i]) /\ n = m)
    <3>1. g = <<>> BY <1>9, <2>3
    <3> QED BY <3>1, EmptySeq
  <2> QED BY <2>1, <2>2, <2>3
<1> QED BY <1>6, <1>7, <1>8 DEF a, g, L

Beyond(bytes) == Len(bytes) + 5
Decodes(f, bytes) ==
  /\ DecodeUtf8Ignore(bytes) = f[1]
  /\ \A i \in 1..Beyond(bytes) : f[i] = IF i > Len(bytes) THEN <<>> ELSE Given(bytes, i) \o f[After(bytes, i)]

LEMMA DecodeFacts ==
  ASSUME NEW bytes \in Seq(Byte)
  PROVE  \E f \in [1..Beyond(bytes) -> Seq(Seq(Byte))] : Decodes(f, bytes)
<1> DEFINE n == Len(bytes)
           N == Beyond(bytes)
           Body(f, i) ==
             CASE i > n -> <<>>
               [] i <= n /\ bytes[i] < 128 -> <<<<bytes[i]>>>> \o f[i + 1]
               [] i <= n /\ bytes[i] >= 128 /\ (bytes[i] < 194 \/ bytes[i] > 244) -> f[i + 1]
               [] OTHER ->
                    (IF Consumed(bytes, i) = SequenceLength(bytes[i])
                     THEN <<SubSeq(bytes, i, i + Consumed(bytes, i) - 1)>> ELSE <<>>)
                    \o f[Resume(bytes, i)]
           Plain(f, i) == IF i > n THEN <<>> ELSE Given(bytes, i) \o f[After(bytes, i)]
           from[i \in 1..N] == Body(from, i)
           add == [i \in 1..n |-> Given(bytes, i)]
           next == [i \in 1..n |-> After(bytes, i)]
<1>0. n \in Nat /\ N \in Nat /\ n <= N /\ N = n + 5 BY LenProperties DEF Beyond
<1>1. DecodeUtf8Ignore(bytes) = from[1] BY DEF DecodeUtf8Ignore, Beyond
<1>2. \A i \in 1..n : Given(bytes, i) \in Seq(Seq(Byte)) /\ After(bytes, i) \in (i + 1)..(n + 1) /\ bytes[i] \in Byte
  BY AfterFacts, ElementOfSeq
<1> HIDE DEF n, N
<1>3. \A i \in 1..n : add[i] \in Seq(Seq(Byte)) BY <1>2
<1>4. Later(n, N, next)
  <2>1. \A i \in 1..n : After(bytes, i) \in (i + 1)..N BY <1>0, <1>2
  <2> QED BY <2>1 DEF Later
<1>5. PICK f \in [1..N -> Seq(Seq(Byte))] : Suffixes(f, n, N, add, next)
  <2> HIDE DEF add, next
  <2> QED BY <1>0, <1>3, <1>4, SuffixRecursion
<1>6. \A i \in 1..N : f[i] = Plain(f, i)
  <2> TAKE i \in 1..N
  <2>1. f[i] = IF i > n THEN <<>> ELSE add[i] \o f[next[i]] BY <1>5 DEF Suffixes
  <2>2. ~(i > n) => add[i] = Given(bytes, i) /\ next[i] = After(bytes, i) BY <1>0
  <2> HIDE DEF add, next
  <2> QED BY <2>1, <2>2, Zenon
<1>7. \A e \in [1..N -> Seq(Seq(Byte))] : \A i \in 1..N : Plain(e, i) = Body(e, i)
  <2> TAKE e \in [1..N -> Seq(Seq(Byte))]
  <2> TAKE i \in 1..N
  <2>1. CASE i > n
    <3>1. ~(i <= n) BY <1>0, <2>1
    <3> QED BY <2>1, <3>1, Zenon
  <2>2. CASE i <= n /\ bytes[i] < 128
    <3>1. ~(i > n) /\ i \in 1..n BY <1>0, <2>2
    <3>2. ~(bytes[i] >= 128) BY <1>2, <2>2, <3>1, ByteSides
    <3> QED BY <2>2, <3>1, <3>2, Zenon DEF Given, After
  <2>3. CASE i <= n /\ bytes[i] >= 128 /\ (bytes[i] < 194 \/ bytes[i] > 244)
    <3>1. ~(i > n) /\ i \in 1..n BY <1>0, <2>3
    <3>2. ~(bytes[i] < 128) BY <1>2, <2>3, <3>1, ByteSides
    <3>3. ~Lead(bytes[i]) BY <2>3 DEF Lead
    <3>4. Plain(e, i) = <<>> \o e[i + 1] BY <3>1, <3>2, <3>3, Zenon DEF Given, After
    <3>5. i + 1 \in 1..N BY <1>0, <3>1
    <3>6. e[i + 1] \in Seq(Seq(Byte)) BY <3>5
    <3>7. <<>> \o e[i + 1] = e[i + 1] BY <3>6, ConcatEmptySeq
    <3>8. Body(e, i) = e[i + 1] BY <2>3, <3>1, <3>2, Zenon
    <3> QED BY <3>4, <3>7, <3>8, Zenon
  <2>4. CASE i <= n /\ bytes[i] >= 128 /\ ~(bytes[i] < 194 \/ bytes[i] > 244)
    <3>1. ~(i > n) /\ i \in 1..n BY <1>0, <2>4
    <3>2. ~(bytes[i] < 128) BY <1>2, <2>4, <3>1, ByteSides
    <3> DEFINE whole == Consumed(bytes, i) = SequenceLength(bytes[i])
               c == SubSeq(bytes, i, i + Consumed(bytes, i) - 1)
               r == Resume(bytes, i)
    <3>3. Body(e, i) = (IF whole THEN <<c>> ELSE <<>>) \o e[r] BY <2>4, <3>1, <3>2, Zenon
    <3>4. Lead(bytes[i]) BY <2>4 DEF Lead
    <3>5. Given(bytes, i) = IF whole THEN <<c>> ELSE <<>> BY <3>2, <3>4, Zenon DEF Given
    <3>6. After(bytes, i) = r BY <3>2, <3>4, Zenon DEF After
    <3> HIDE DEF whole, c, r
    <3>7. Plain(e, i) = (IF whole THEN <<c>> ELSE <<>>) \o e[r] BY <3>1, <3>5, <3>6, Zenon
    <3> QED BY <3>3, <3>7, Zenon
  <2>5. i <= n => i \in 1..n BY <1>0
  <2>6. i <= n => bytes[i] < 128 \/ bytes[i] >= 128 BY <1>2, <2>5, ByteSides
  <2>7. i <= n \/ i > n BY <1>0
  <2> HIDE DEF Body, Plain
  <2> QED BY <2>1, <2>2, <2>3, <2>4, <2>6, <2>7
<1>8. f = [i \in 1..N |-> Body(f, i)]
  <2> HIDE DEF Body, Plain
  <2>1. \A i \in 1..N : f[i] = Body(f, i) BY <1>6, <1>7
  <2> QED BY <2>1
<1>9. from = [i \in 1..N |-> Body(from, i)]
  <2> HIDE DEF Body
  <2> QED BY <1>8, Zenon DEF from
<1> HIDE DEF from
<1> DEFINE T == {i \in 1..N : from[i] = f[i]}
<1>10. ASSUME NEW i \in 1..N, \A j \in (i + 1)..N : j \in T PROVE i \in T
  <2>1. ASSUME i <= n PROVE from[i + 1] = f[i + 1] /\ (bytes[i] >= 128 /\ ~(bytes[i] < 194 \/ bytes[i] > 244)
                              => from[Resume(bytes, i)] = f[Resume(bytes, i)])
    <3>1. i \in 1..n /\ i + 1 \in (i + 1)..N BY <1>0, <2>1
    <3>2. i + 1 \in T BY <1>10, <3>1
    <3>3. ASSUME bytes[i] >= 128, ~(bytes[i] < 194 \/ bytes[i] > 244) PROVE Resume(bytes, i) \in T
      <4>1. ~(bytes[i] < 128) BY <1>2, <3>1, <3>3, ByteSides
      <4>2. After(bytes, i) = Resume(bytes, i) BY <3>3, <4>1, Zenon DEF After, Lead
      <4>3. Resume(bytes, i) \in (i + 1)..N BY <1>0, <1>2, <3>1, <4>2
      <4> QED BY <1>10, <4>3
    <3> QED BY <3>2, <3>3
  <2>2. Body(from, i) = Body(f, i)
    <3>1. CASE i > n
      <4>1. ~(i <= n) BY <1>0, <3>1
      <4> QED BY <3>1, <4>1, Zenon
    <3>2. CASE i <= n /\ bytes[i] < 128
      <4>1. ~(i > n) /\ i \in 1..n BY <1>0, <3>2
      <4>2. ~(bytes[i] >= 128) BY <1>2, <3>2, <4>1, ByteSides
      <4>3. Body(from, i) = <<<<bytes[i]>>>> \o from[i + 1] BY <3>2, <4>1, <4>2, Zenon
      <4>4. Body(f, i) = <<<<bytes[i]>>>> \o f[i + 1] BY <3>2, <4>1, <4>2, Zenon
      <4> QED BY <2>1, <3>2, <4>3, <4>4, Zenon
    <3>3. CASE i <= n /\ bytes[i] >= 128 /\ (bytes[i] < 194 \/ bytes[i] > 244)
      <4>1. ~(i > n) /\ i \in 1..n BY <1>0, <3>3
      <4>2. ~(bytes[i] < 128) BY <1>2, <3>3, <4>1, ByteSides
      <4>3. Body(from, i) = from[i + 1] /\ Body(f, i) = f[i + 1] BY <3>3, <4>1, <4>2, Zenon
      <4> QED BY <2>1, <3>3, <4>3, Zenon
    <3>4. CASE i <= n /\ bytes[i] >= 128 /\ ~(bytes[i] < 194 \/ bytes[i] > 244)
      <4>1. ~(i > n) /\ i \in 1..n BY <1>0, <3>4
      <4>2. ~(bytes[i] < 128) BY <1>2, <3>4, <4>1, ByteSides
      <4> DEFINE whole == Consumed(bytes, i) = SequenceLength(bytes[i])
                 c == SubSeq(bytes, i, i + Consumed(bytes, i) - 1)
                 r == Resume(bytes, i)
      <4>3. Body(from, i) = (IF whole THEN <<c>> ELSE <<>>) \o from[r] BY <3>4, <4>1, <4>2, Zenon
      <4>4. Body(f, i) = (IF whole THEN <<c>> ELSE <<>>) \o f[r] BY <3>4, <4>1, <4>2, Zenon
      <4>5. from[r] = f[r] BY <2>1, <3>4
      <4> HIDE DEF whole, c, r
      <4> QED BY <4>3, <4>4, <4>5, Zenon
    <3>5. i <= n => i \in 1..n BY <1>0
    <3>6. i <= n => bytes[i] < 128 \/ bytes[i] >= 128 BY <1>2, <3>5, ByteSides
    <3>7. i <= n \/ i > n BY <1>0
    <3> HIDE DEF Body
    <3> QED BY <3>1, <3>2, <3>3, <3>4, <3>6, <3>7
  <2> HIDE DEF Body
  <2>3. from[i] = Body(from, i) BY <1>9
  <2>4. f[i] = Body(f, i) BY <1>8
  <2>5. from[i] = f[i] BY <2>2, <2>3, <2>4
  <2> QED BY <2>5
<1>11. 1..N \subseteq T
  <2> HIDE DEF T
  <2> QED BY <1>0, <1>10, Backwards
<1>12. from[1] = f[1]
  <2>1. 1 \in 1..N BY <1>0
  <2> QED BY <1>11, <2>1
<1> HIDE DEF from
<1>13. Decodes(f, bytes) BY <1>1, <1>6, <1>12 DEF Decodes, n, N
<1> QED BY <1>13 DEF N


\* The ASCII bytes of a text from each place on.
Keeps(f, bytes) ==
  /\ Ascii(bytes) = f[1] /\ f[Len(bytes) + 1] = <<>>
  /\ \A i \in 1..Len(bytes) : /\ bytes[i] < 128 => f[i] = <<bytes[i]>> \o f[i + 1]
                              /\ bytes[i] >= 128 => f[i] = f[i + 1]

LEMMA AsciiFacts ==
  ASSUME NEW bytes \in Seq(Byte)
  PROVE  \E f \in [1..(Len(bytes) + 1) -> Seq(Byte)] : Keeps(f, bytes)
<1> DEFINE n == Len(bytes)
           p == [i \in 1..n |-> IF bytes[i] < 128 THEN <<bytes[i]>> ELSE <<>>]
<1>0. n \in Nat BY LenProperties
<1>1. Ascii(bytes) = Concatenated(p) BY DEF Ascii
<1>2. \A i \in 1..n : bytes[i] \in Byte BY ElementOfSeq
<1> HIDE DEF n
<1>3. \A i \in 1..n : p[i] = IF bytes[i] < 128 THEN <<bytes[i]>> ELSE <<>> OBVIOUS
<1>4. p \in Seq(Seq(Byte)) /\ Len(p) = n
  <2>1. <<>> \in Seq(Byte) BY EmptySeq
  <2>2. \A i \in 1..n : <<bytes[i]>> \in Seq(Byte) BY <1>2
  <2>3. p \in [1..n -> Seq(Byte)] BY <2>1, <2>2
  <2> HIDE DEF p
  <2> QED BY <1>0, <2>3
<1> HIDE DEF p
<1>5. PICK f \in [Places(p) -> Seq(Byte)] : Unrolls(f, p) BY <1>4, ConcatenatedFacts
<1>6. f \in [1..(n + 1) -> Seq(Byte)] BY <1>4 DEF Places
<1>7. Concatenated(p) = f[1] /\ f[n + 1] = <<>> /\ \A i \in 1..n : f[i] = p[i] \o f[i + 1] BY <1>4, <1>5 DEF Unrolls
<1>8. ASSUME NEW i \in 1..n
      PROVE  (bytes[i] < 128 => f[i] = <<bytes[i]>> \o f[i + 1]) /\ (bytes[i] >= 128 => f[i] = f[i + 1])
  <2>1. f[i] = p[i] \o f[i + 1] BY <1>7
  <2>2. ASSUME bytes[i] >= 128 PROVE f[i] = f[i + 1]
    <3>1. ~(bytes[i] < 128) BY <1>2, <2>2, ByteSides
    <3>2. p[i] = <<>> BY <1>3, <3>1
    <3>3. i + 1 \in 1..(n + 1) BY <1>0
    <3>4. f[i + 1] \in Seq(Byte) BY <1>6, <3>3
    <3>5. <<>> \o f[i + 1] = f[i + 1] BY <3>4, ConcatEmptySeq
    <3> QED BY <2>1, <3>2, <3>5, Zenon
  <2> QED BY <1>3, <2>1, <2>2
<1>9. Keeps(f, bytes) BY <1>1, <1>7, <1>8 DEF Keeps, n
<1> QED BY <1>6, <1>9 DEF n

High(bytes, a, b) == \A k \in a..b : bytes[k] >= 128

\* No ASCII byte among those skipped, nothing lost.
LEMMA Skipped ==
  ASSUME NEW bytes, NEW n \in Nat, n = Len(bytes), NEW f, Keeps(f, bytes), NEW i \in 1..n, NEW e \in (i + 1)..(n + 1),
         High(bytes, i + 1, e - 1)
  PROVE  f[i + 1] = f[e]
<1> DEFINE b == i + 1
           T == {m \in Nat : b + m <= e => f[b] = f[b + m]}
<1>0. b \in Nat /\ b >= 1 /\ e - b \in Nat /\ b + (e - b) = e /\ b + 0 = b /\ e <= n + 1 OBVIOUS
<1>1. \A k \in b..(e - 1) : bytes[k] >= 128 BY DEF High
<1>2. \A k \in 1..n : bytes[k] >= 128 => f[k] = f[k + 1] BY DEF Keeps
<1> HIDE DEF b
<1>3. 0 \in T BY <1>0
<1>4. ASSUME NEW m \in Nat, m \in T PROVE m + 1 \in T
  <2> SUFFICES ASSUME b + (m + 1) <= e PROVE f[b] = f[b + (m + 1)]
      OBVIOUS
  <2> DEFINE k == b + m
  <2>1. k \in b..(e - 1) /\ k \in 1..n /\ k + 1 = b + (m + 1) /\ k <= e BY <1>0
  <2>2. f[b] = f[k] BY <1>4, <2>1
  <2> HIDE DEF k
  <2>3. f[k] = f[k + 1] BY <1>1, <1>2, <2>1
  <2> QED BY <2>1, <2>2, <2>3
<1>5. Nat \subseteq T
  <2> HIDE DEF T
  <2> QED BY <1>3, <1>4, Induct
<1>6. e - b \in T BY <1>0, <1>5
<1>7. f[b] = f[e] BY <1>0, <1>6
<1> QED BY <1>7 DEF b

LEMMA DecodedAscii ==
  ASSUME NEW bytes \in Seq(Byte)
  PROVE  Ascii(bytes) = Singles(DecodeUtf8Ignore(bytes))
<1> DEFINE n == Len(bytes)
           N == Beyond(bytes)
<1>0. n \in Nat /\ N \in Nat /\ N = n + 5 BY LenProperties DEF Beyond
<1>1. PICK kept \in [1..(n + 1) -> Seq(Byte)] : Keeps(kept, bytes) BY AsciiFacts
<1>2. PICK f \in [1..N -> Seq(Seq(Byte))] : Decodes(f, bytes) BY DecodeFacts
<1>3. DecodeUtf8Ignore(bytes) = f[1] BY <1>2 DEF Decodes
<1>4. \A i \in 1..N : f[i] = IF i > n THEN <<>> ELSE Given(bytes, i) \o f[After(bytes, i)] BY <1>2 DEF Decodes
<1>5. Ascii(bytes) = kept[1] /\ kept[n + 1] = <<>> BY <1>1 DEF Keeps
<1>6. \A i \in 1..n : (bytes[i] < 128 => kept[i] = <<bytes[i]>> \o kept[i + 1]) /\ (bytes[i] >= 128 => kept[i] = kept[i + 1])
  BY <1>1 DEF Keeps
<1>7. ASSUME NEW i \in 1..n
      PROVE  /\ After(bytes, i) \in (i + 1)..(n + 1)
             /\ \A k \in (i + 1)..(After(bytes, i) - 1) : bytes[k] >= 128
             /\ bytes[i] >= 128 => Given(bytes, i) = <<>> \/ \E c \in Seq(Byte) : Len(c) # 1 /\ Given(bytes, i) = <<c>>
  BY AfterFacts
<1>8. \A i \in 1..n : bytes[i] \in Byte BY ElementOfSeq
<1>9. \A i \in 1..n : kept[i + 1] = kept[After(bytes, i)]
  <2> TAKE i \in 1..n
  <2> DEFINE e == After(bytes, i)
  <2>1. e \in (i + 1)..(n + 1) /\ High(bytes, i + 1, e - 1) BY <1>7 DEF High
  <2> HIDE DEF e
  <2>2. n = Len(bytes) OBVIOUS
  <2> HIDE DEF n
  <2>3. kept[i + 1] = kept[e] BY <1>0, <1>1, <2>1, <2>2, Skipped
  <2> QED BY <2>3 DEF e
<1> HIDE DEF n, N
<1> DEFINE T == {i \in 1..N : Singles(f[i]) = IF i > n THEN <<>> ELSE kept[i]}
<1>10. ASSUME NEW i \in 1..N, \A j \in (i + 1)..N : j \in T PROVE i \in T
  <2>1. CASE i > n
    <3>1. f[i] = <<>> BY <1>4, <2>1
    <3>2. Singles(f[i]) = <<>> BY <3>1, SinglesFacts
    <3> QED BY <2>1, <3>2
  <2>2. CASE ~(i > n)
    <3> DEFINE a == After(bytes, i)
               g == Given(bytes, i)
    <3>1. i \in 1..n BY <1>0, <2>2
    <3>2. a \in (i + 1)..(n + 1) BY <1>7, <3>1
    <3>3. f[i] = g \o f[a] BY <1>4, <2>2
    <3>4. kept[i + 1] = kept[a] BY <1>9, <3>1
    <3>5. bytes[i] >= 128 => g = <<>> \/ \E c \in Seq(Byte) : Len(c) # 1 /\ g = <<c>> BY <1>7, <3>1
    <3>6. bytes[i] < 128 => g = <<<<bytes[i]>>>> BY Zenon DEF Given
    <3> HIDE DEF a, g
    <3>7. a \in (i + 1)..N /\ a \in 1..N /\ a \in 1..(n + 1) /\ (a > n => a = n + 1) BY <1>0, <3>1, <3>2
    <3>8. Singles(f[a]) = IF a > n THEN <<>> ELSE kept[a] BY <1>10, <3>7
    <3>9. Singles(f[a]) = kept[a] BY <1>5, <3>7, <3>8, Zenon
    <3>10. f[a] \in Seq(Seq(Byte)) /\ kept[a] \in Seq(Byte) BY <1>1, <1>2, <3>7
    <3>11. bytes[i] \in Byte BY <1>8, <3>1
    <3>12. Singles(f[i]) = kept[i]
      <4>1. CASE bytes[i] < 128
        <5> DEFINE c == <<bytes[i]>>
        <5>1. c \in Seq(Byte) /\ Len(c) = 1 BY <3>11
        <5>2. f[i] = <<c>> \o f[a] BY <3>3, <3>6, <4>1
        <5>3. kept[i] = c \o kept[a] BY <1>6, <3>1, <3>4, <4>1
        <5> HIDE DEF c
        <5>4. Singles(f[i]) = Piece(c) \o Singles(f[a]) BY <3>10, <5>1, <5>2, SinglesFacts
        <5>5. Piece(c) = c BY <5>1 DEF Piece
        <5> QED BY <3>9, <5>3, <5>4, <5>5, Zenon
      <4>2. CASE bytes[i] >= 128
        <5>1. kept[i] = kept[a] BY <1>6, <3>1, <3>4, <4>2
        <5>2. CASE g = <<>>
          <6>1. <<>> \o f[a] = f[a] BY <3>10, ConcatEmptySeq
          <6>2. f[i] = f[a] BY <3>3, <5>2, <6>1, Zenon
          <6> QED BY <3>9, <5>1, <6>2, Zenon
        <5>3. ASSUME NEW c \in Seq(Byte), Len(c) # 1, g = <<c>> PROVE Singles(f[i]) = kept[i]
          <6>1. f[i] = <<c>> \o f[a] BY <3>3, <5>3, Zenon
          <6>2. Singles(f[i]) = Piece(c) \o Singles(f[a]) BY <3>10, <6>1, SinglesFacts
          <6>3. Piece(c) = <<>> BY <5>3 DEF Piece
          <6>4. <<>> \o kept[a] = kept[a] BY <3>10, ConcatEmptySeq
          <6> QED BY <3>9, <5>1, <6>2, <6>3, <6>4, Zenon
        <5> QED BY <3>5, <4>2, <5>2, <5>3, Zenon
      <4> QED BY <3>11, <4>1, <4>2, ByteSides
    <3> QED BY <2>2, <3>12
  <2> QED BY <2>1, <2>2
<1>11. 1..N \subseteq T
  <2> HIDE DEF T
  <2> QED BY <1>0, <1>10, Backwards
<1>12. Singles(f[1]) = kept[1]
  <2>1. 1 \in 1..N BY <1>0
  <2>2. Singles(f[1]) = IF 1 > n THEN <<>> ELSE kept[1] BY <1>11, <2>1
  <2>3. 1 > n => n + 1 = 1 BY <1>0
  <2>4. 1 > n => kept[1] = <<>> BY <1>5, <2>3
  <2> QED BY <2>2, <2>4, Zenon
<1> QED BY <1>3, <1>5, <1>12


\* Decoding text drops invalid bytes and nothing else: every ASCII byte of the input is a character
\* of the output, in order, whatever incomplete sequence comes before it (python.ts:199).
THEOREM TextKept == Spec => []AsciiKept
<1>1. FramesInv => AsciiKept BY DecodedAscii DEF FramesInv, AsciiKept
<1> QED BY <1>1, Invariant, PTL

=============================================================================
