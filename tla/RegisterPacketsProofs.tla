------------------------- MODULE RegisterPacketsProofs -------------------------
(***************************************************************************)
(* Proofs about the register packets, for any base, width and number of    *)
(* registers: the codecs are inverse to one another, and the debugger's    *)
(* copy of the registers is true.                                          *)
(***************************************************************************)
EXTENDS RegisterPackets, Integers, TLAPS, WellFoundedInduction

(***************************************************************************)
(* Arithmetic.                                                             *)
(***************************************************************************)
\* A nonempty set of naturals has a least element.
LEMMA Least ==
  ASSUME NEW S \in SUBSET Nat, S # {}
  PROVE  \E n \in S : \A m \in S : n <= m
<1>1. IsWellFoundedOn(OpToRel(<, Nat), Nat)
  BY NatLessThanWellFounded
<1>2. PICK n \in S : \A m \in S : ~ (<<m, n>> \in OpToRel(<, Nat))
  BY <1>1, WFMin
<1>3. \A m \in S : ~ (m < n)
  BY <1>2 DEF OpToRel
<1> QED BY <1>3

LEMMA Inductive ==
  ASSUME NEW T, T \subseteq Nat, 0 \in T, \A n \in T : n + 1 \in T
  PROVE  \A n \in Nat : n \in T
<1> DEFINE C == Nat \ T
<1>1. SUFFICES ASSUME C # {} PROVE FALSE
  OBVIOUS
<1>2. PICK n \in C : \A m \in C : n <= m
  BY <1>1, Least
<1>3. n # 0 /\ n - 1 \in Nat
  BY <1>2
<1>4. n - 1 \in T
  BY <1>2, <1>3
<1> QED BY <1>2, <1>4

LEMMA Product ==
  ASSUME NEW a \in Nat \ {0}, NEW b \in Nat \ {0}
  PROVE  a * b \in Nat \ {0} /\ a * b = b * a
OBVIOUS

LEMMA Division ==
  ASSUME NEW a \in Nat, NEW b \in Nat \ {0}
  PROVE  /\ a \div b \in Nat
         /\ a % b \in 0 .. (b - 1)
         /\ a = b * (a \div b) + (a % b)
OBVIOUS

\* Quotient and rest are determined by their equation.
LEMMA QuotientAndRest ==
  ASSUME NEW b \in Nat \ {0}, NEW q \in Nat, NEW r \in 0 .. (b - 1)
  PROVE  (b * q + r) \div b = q /\ (b * q + r) % b = r
<1> DEFINE a == b * q + r
           p == a \div b
           s == a % b
<1>1. b * q \in Nat /\ a \in Nat
  OBVIOUS
<1>2. p \in Nat /\ s \in 0 .. (b - 1) /\ b * p + s = b * q + r
  BY <1>1, Division
<1> HIDE DEF p, s
<1>3. b * p \in Nat
  BY <1>2
<1>4. ~ (p < q)
  <2> SUFFICES ASSUME p < q PROVE FALSE
    OBVIOUS
  <2>1. b * (p + 1) <= b * q
    BY <1>2
  <2>2. b * (p + 1) = b * p + b
    BY <1>2
  <2> QED BY <1>1, <1>2, <1>3, <2>1, <2>2
<1>5. ~ (q < p)
  <2> SUFFICES ASSUME q < p PROVE FALSE
    OBVIOUS
  <2>1. b * (q + 1) <= b * p
    BY <1>2
  <2>2. b * (q + 1) = b * q + b
    OBVIOUS
  <2> QED BY <1>1, <1>2, <1>3, <2>1, <2>2
<1>6. p = q
  BY <1>2, <1>4, <1>5
<1>7. s = r
  BY <1>1, <1>2, <1>6
<1> QED BY <1>6, <1>7 DEF p, s

\* The rest of a division by a product, from the rests of two divisions.
LEMMA RestOfProduct ==
  ASSUME NEW v \in Nat, NEW P \in Nat \ {0}, NEW B \in Nat \ {0}
  PROVE  v % (P * B) = (v % P) + ((v \div P) % B) * P
<1> DEFINE q == v \div P
           d == q % B
           k == q \div B
           r == v % P
<1>1. q \in Nat /\ r \in 0 .. (P - 1) /\ v = P * q + r
  BY Division
<1>2. k \in Nat /\ d \in 0 .. (B - 1) /\ q = B * k + d
  BY <1>1, Division
<1>3. P * B \in Nat \ {0}
  BY Product
<1> HIDE DEF q, d, k, r
<1>4. v = (P * B) * k + (r + d * P)
  <2>1. P * q = P * (B * k) + P * d
    BY <1>1, <1>2
  <2>2. P * (B * k) = (P * B) * k /\ P * d = d * P
    BY <1>2
  <2>3. P * q = (P * B) * k + d * P
    BY <2>1, <2>2
  <2>4. (P * B) * k \in Nat /\ d * P \in Nat /\ r \in Nat
    BY <1>1, <1>2
  <2> DEFINE x == (P * B) * k
             y == d * P
  <2>5. v = (x + y) + r
    BY <1>1, <2>3
  <2> HIDE DEF x, y
  <2>6. v = x + (r + y)
    BY <2>4, <2>5 DEF x, y
  <2> QED BY <2>6 DEF x, y
<1>5. r + d * P \in 0 .. (P * B - 1)
  <2>1. (d + 1) * P <= B * P
    BY <1>2
  <2>2. (d + 1) * P = d * P + P /\ B * P = P * B /\ d * P \in Nat
    BY <1>2
  <2> QED BY <1>1, <1>3, <2>1, <2>2
<1>6. v % (P * B) = r + d * P
  <2> DEFINE M == P * B
             e == r + d * P
  <2>1. M \in Nat \ {0} /\ e \in 0 .. (M - 1) /\ v = M * k + e
    BY <1>3, <1>4, <1>5
  <2> HIDE DEF M, e
  <2>2. v % M = e
    BY <1>2, <2>1, QuotientAndRest
  <2> QED BY <2>2 DEF M, e
<1> QED BY <1>6 DEF q, d, r

(***************************************************************************)
(* Place is what its recursive definition says: tables of its first values *)
(* exist, agree with one another, and together are the function.           *)
(***************************************************************************)
Table(g, n) == /\ g \in [0 .. n -> Nat \ {0}] /\ g[0] = 1
               /\ \A i \in 1 .. n : g[i] = Digits * g[i - 1]

LEMMA TableExists == \A n \in Nat : \E g : Table(g, n)
<1> DEFINE T == {n \in Nat : \E g : Table(g, n)}
<1>1. 0 \in T
  <2>1. Table([i \in 0 .. 0 |-> 1], 0)
    BY DEF Table
  <2> QED BY <2>1
<1>2. \A n \in T : n + 1 \in T
  <2> SUFFICES ASSUME NEW n \in Nat, NEW g, Table(g, n) PROVE \E h : Table(h, n + 1)
    OBVIOUS
  <2> DEFINE last == Digits * g[n]
             h == [i \in 0 .. (n + 1) |-> IF i <= n THEN g[i] ELSE last]
  <2>1. \A i \in 0 .. n : g[i] \in Nat \ {0}
    BY DEF Table
  <2>2. last \in Nat \ {0}
    BY <2>1, Product, SizeAssumption
  <2> HIDE DEF last
  <2>3. h \in [0 .. (n + 1) -> Nat \ {0}] /\ h[0] = 1
    BY <2>1, <2>2 DEF Table
  <2>4. ASSUME NEW i \in 1 .. (n + 1) PROVE h[i] = Digits * h[i - 1]
    <3>1. CASE i <= n
      BY <2>4, <3>1 DEF Table
    <3>2. CASE i = n + 1
      <4>1. h[i] = last /\ h[i - 1] = g[n]
        BY <3>2
      <4> QED BY <4>1 DEF last
    <3> QED BY <2>4, <3>1, <3>2
  <2>5. Table(h, n + 1)
    BY <2>3, <2>4 DEF Table
  <2> QED BY <2>5
<1> HIDE DEF T
<1>3. \A n \in Nat : n \in T
  BY <1>1, <1>2, Inductive DEF T
<1> QED BY <1>3 DEF T

LEMMA TablesAgree ==
  ASSUME NEW m \in Nat, NEW n \in Nat, NEW g, NEW h, Table(g, m), Table(h, n)
  PROVE  \A i \in Nat : i <= m /\ i <= n => g[i] = h[i]
<1> DEFINE T == {i \in Nat : i <= m /\ i <= n => g[i] = h[i]}
<1>1. 0 \in T
  BY DEF Table
<1>2. ASSUME NEW i \in T PROVE i + 1 \in T
  <2> SUFFICES ASSUME i + 1 <= m, i + 1 <= n PROVE g[i + 1] = h[i + 1]
    OBVIOUS
  <2>1. g[i] = h[i]
    OBVIOUS
  <2>2. g[i + 1] = Digits * g[(i + 1) - 1] /\ h[i + 1] = Digits * h[(i + 1) - 1]
    BY DEF Table
  <2>3. (i + 1) - 1 = i
    OBVIOUS
  <2> QED BY <2>1, <2>2, <2>3
<1> HIDE DEF T
<1>3. \A i \in Nat : i \in T
  BY <1>1, <1>2, Inductive DEF T
<1> QED BY <1>3 DEF T

LEMMA PlaceFacts ==
  /\ Place[0] = 1
  /\ \A n \in Nat : Place[n] \in Nat \ {0} /\ Place[n + 1] = Digits * Place[n]
<1> DEFINE tab(n) == CHOOSE g : Table(g, n)
           f == [n \in Nat |-> tab(n)[n]]
           Step(p) == [n \in Nat |-> IF n = 0 THEN 1 ELSE Digits * p[n - 1]]
<1>1. \A n \in Nat : Table(tab(n), n)
  BY TableExists
<1> HIDE DEF tab
<1>2. f[0] = 1 /\ \A n \in Nat : f[n] \in Nat \ {0}
  BY <1>1 DEF Table
<1>3. ASSUME NEW n \in Nat, n # 0 PROVE f[n] = Digits * f[n - 1]
  <2>1. n - 1 \in Nat /\ n - 1 <= n - 1 /\ n - 1 <= n
    BY <1>3
  <2>2. tab(n)[n - 1] = tab(n - 1)[n - 1]
    BY <1>1, <2>1, TablesAgree
  <2>3. tab(n)[n] = Digits * tab(n)[n - 1]
    BY <1>1, <1>3 DEF Table
  <2> QED BY <2>1, <2>2, <2>3
<1> HIDE DEF f
<1>4. f = Step(f)
  <2>1. f = [n \in Nat |-> f[n]]
    BY DEF f
  <2>2. \A n \in Nat : f[n] = IF n = 0 THEN 1 ELSE Digits * f[n - 1]
    BY <1>2, <1>3
  <2> QED BY <2>1, <2>2
<1>5. Place = CHOOSE p : p = Step(p)
  BY DEF Place
<1> HIDE DEF Step
<1>6. Place = Step(Place)
  BY <1>4, <1>5
<1>7. Place[0] = 1 /\ \A n \in Nat : Place[n + 1] = Digits * Place[n]
  <2>1. \A n \in Nat : Place[n] = IF n = 0 THEN 1 ELSE Digits * Place[n - 1]
    BY <1>6 DEF Step
  <2>2. \A n \in Nat : n + 1 \in Nat /\ n + 1 # 0 /\ (n + 1) - 1 = n
    OBVIOUS
  <2> QED BY <2>1, <2>2
<1> DEFINE T == {n \in Nat : Place[n] \in Nat \ {0}}
<1>8. 0 \in T
  BY <1>7
<1>9. ASSUME NEW n \in T PROVE n + 1 \in T
  BY <1>7, <1>9, Product, SizeAssumption
<1> HIDE DEF T
<1>10. \A n \in Nat : n \in T
  BY <1>8, <1>9, Inductive DEF T
<1> QED BY <1>7, <1>10 DEF T

(***************************************************************************)
(* The codecs.                                                             *)
(***************************************************************************)
LEMMA Sizes ==
  /\ Digits \in Nat \ {0, 1} /\ RegBytes \in Nat \ {0} /\ NumRegs \in Nat \ {0, 1}
  /\ Chars \in Nat \ {0} /\ Chars = 2 * RegBytes
  /\ ByteValues \in Nat \ {0} /\ RegValues \in Nat \ {0} /\ RegValues = Place[Chars]
  /\ PC \in RegNum /\ 0 \in RegNum /\ PC # 0 /\ RegNum \subseteq Nat
  /\ 0 \in Value /\ NoValue \notin Value /\ NoValue \in Nat /\ Value \subseteq Nat
  /\ 0 \in Digit /\ Digit \subseteq Nat
<1>1. Digits \in Nat \ {0, 1} /\ RegBytes \in Nat \ {0} /\ NumRegs \in Nat \ {0, 1}
  BY SizeAssumption
<1>2. Chars \in Nat \ {0} /\ Chars = 2 * RegBytes
  BY <1>1 DEF Chars
<1>3. ByteValues \in Nat \ {0}
  BY <1>1, Product DEF ByteValues
<1>4. RegValues \in Nat \ {0} /\ RegValues = Place[Chars]
  BY <1>2, PlaceFacts DEF RegValues
<1> QED BY <1>1, <1>2, <1>3, <1>4 DEF PC, RegNum, NoValue, Value, Digit

LEMMA BytePlaces ==
  ASSUME NEW i \in Nat
  PROVE  Place[2 * i] \in Nat \ {0} /\ Place[2 * (i + 1)] = Place[2 * i] * ByteValues
<1>1. 2 * i \in Nat /\ 2 * i + 1 \in Nat /\ 2 * (i + 1) = (2 * i + 1) + 1
  OBVIOUS
<1> DEFINE p == Place[2 * i]
<1>2. p \in Nat \ {0} /\ Place[2 * i + 1] = Digits * p
      /\ Place[2 * (i + 1)] = Digits * Place[2 * i + 1]
  BY <1>1, PlaceFacts
<1> HIDE DEF p
<1>3. Digits * (Digits * p) = p * (Digits * Digits)
  BY <1>2, Sizes
<1> QED BY <1>2, <1>3 DEF ByteValues, p

LEMMA ByteDigits ==
  ASSUME NEW b \in 0 .. (ByteValues - 1)
  PROVE  b \div Digits \in Digit /\ b % Digits \in Digit
         /\ (b \div Digits) * Digits + (b % Digits) = b
<1>1. Digits \in Nat \ {0} /\ b \in Nat
  BY Sizes
<1> DEFINE q == b \div Digits
           r == b % Digits
<1>2. q \in Nat /\ r \in 0 .. (Digits - 1) /\ b = Digits * q + r
  BY <1>1, Division
<1> HIDE DEF q, r
<1>3. q < Digits
  <2> SUFFICES ASSUME Digits <= q PROVE FALSE
    BY <1>1, <1>2
  <2>1. Digits * Digits <= Digits * q
    BY <1>1, <1>2
  <2>2. b < Digits * Digits
    BY <1>1, Sizes DEF ByteValues
  <2>3. Digits * q \in Nat /\ Digits * Digits \in Nat
    BY <1>1, <1>2
  <2> QED BY <1>1, <1>2, <2>1, <2>2, <2>3
<1>4. q * Digits = Digits * q
  BY <1>1, <1>2
<1>5. q \in Digit /\ r \in Digit /\ q * Digits + r = b
  BY <1>1, <1>2, <1>3, <1>4 DEF Digit
<1> QED BY <1>5 DEF q, r

LEMMA ByteOfType ==
  ASSUME NEW v \in Nat, NEW i \in Nat
  PROVE  ByteOf(v, i) \in 0 .. (ByteValues - 1)
<1>1. Place[2 * i] \in Nat \ {0}
  BY BytePlaces
<1>2. v \div Place[2 * i] \in Nat
  BY <1>1, Division
<1> QED BY <1>2, Division, Sizes DEF ByteOf

LEMMA Halves ==
  ASSUME NEW i \in Nat
  PROVE  /\ (2 * i) \div 2 = i /\ (2 * i) % 2 = 0
         /\ (2 * i + 1) \div 2 = i /\ (2 * i + 1) % 2 = 1
OBVIOUS

\* The digits of a register: for every byte the high digit and then the low one.
LEMMA EncodedDigits ==
  ASSUME NEW v \in Nat
  PROVE  /\ encode_hex(v) \in Seq(Digit) /\ Len(encode_hex(v)) = Chars
         /\ \A i \in 1 .. RegBytes :
              /\ encode_hex(v)[2 * i - 1] = ByteOf(v, i - 1) \div Digits
              /\ encode_hex(v)[2 * i] = ByteOf(v, i - 1) % Digits
<1> DEFINE D(d) == LET byte == ByteOf(v, (d - 1) \div 2)
                   IN  IF d % 2 = 1 THEN byte \div Digits ELSE byte % Digits
<1>0. encode_hex(v) = [d \in 1 .. 2 * RegBytes |-> D(d)]
  BY DEF encode_hex
<1>1. ASSUME NEW d \in 1 .. 2 * RegBytes PROVE D(d) \in Digit
  <2>1. (d - 1) \div 2 \in Nat
    BY Sizes
  <2>2. ByteOf(v, (d - 1) \div 2) \in 0 .. (ByteValues - 1)
    BY <2>1, ByteOfType
  <2> QED BY <2>2, ByteDigits
<1>2. ASSUME NEW i \in 1 .. RegBytes
      PROVE  /\ 2 * i - 1 \in 1 .. 2 * RegBytes /\ 2 * i \in 1 .. 2 * RegBytes
             /\ D(2 * i - 1) = ByteOf(v, i - 1) \div Digits
             /\ D(2 * i) = ByteOf(v, i - 1) % Digits
  <2>1. i - 1 \in Nat /\ 2 * i - 1 = 2 * (i - 1) + 1 /\ (2 * i - 1) - 1 = 2 * (i - 1)
        /\ 2 * i \in Nat /\ i \in Nat
    BY Sizes
  <2>2. /\ ((2 * i - 1) - 1) \div 2 = i - 1 /\ (2 * i - 1) % 2 = 1
        /\ (2 * i - 1) \div 2 = i - 1 /\ (2 * i) % 2 = 0
    BY <2>1, Halves
  <2>3. 2 * i - 1 \in 1 .. 2 * RegBytes /\ 2 * i \in 1 .. 2 * RegBytes
    BY Sizes
  <2> QED BY <2>2, <2>3
<1> HIDE DEF D
<1>3. encode_hex(v) \in Seq(Digit) /\ Len(encode_hex(v)) = 2 * RegBytes
  BY <1>0, <1>1, Sizes
<1>4. \A i \in 1 .. RegBytes :
              /\ encode_hex(v)[2 * i - 1] = ByteOf(v, i - 1) \div Digits
              /\ encode_hex(v)[2 * i] = ByteOf(v, i - 1) % Digits
  BY <1>0, <1>2
<1> QED BY <1>3, <1>4, Sizes

\* What byte i of a string of digits adds to its value.
Term(str, i) == (str[2 * i - 1] * Digits + str[2 * i]) * Place[2 * (i - 1)]

\* The loop of parse_hex_le computes any function that adds up these terms.
LEMMA ParseIs ==
  ASSUME NEW str, NEW n \in Nat, Len(str) \div 2 = n,
         NEW f, \A i \in 0 .. n : f[i] \in Nat, f[0] = 0,
         \A i \in 1 .. n : f[i] = f[i - 1] + Term(str, i)
  PROVE  parse_hex_le(str) = f[n]
<1> DEFINE Step(s) == [i \in 0 .. n |-> IF i = 0 THEN 0 ELSE s[i - 1] + Term(str, i)]
           g   == [i \in 0 .. n |-> f[i]]
           sum == CHOOSE s : s = Step(s)
<1>1. g = Step(g)
  <2>1. \A i \in 0 .. n : g[i] = IF i = 0 THEN 0 ELSE g[i - 1] + Term(str, i)
    <3> SUFFICES ASSUME NEW i \in 0 .. n, i # 0 PROVE g[i] = g[i - 1] + Term(str, i)
      OBVIOUS
    <3>1. i \in 1 .. n /\ i - 1 \in 0 .. n
      OBVIOUS
    <3> QED BY <3>1
  <2> QED BY <2>1
<1>2. parse_hex_le(str) = sum[n]
  BY DEF parse_hex_le, Term
<1> HIDE DEF g, Step
<1>3. sum = Step(sum)
  BY <1>1
<1> HIDE DEF sum
<1>4. sum[0] = 0 /\ \A i \in 1 .. n : sum[i] = sum[i - 1] + Term(str, i)
  BY <1>3 DEF Step
<1> DEFINE T == {i \in Nat : i <= n => sum[i] = f[i]}
<1>5. 0 \in T
  BY <1>4
<1>6. ASSUME NEW i \in T PROVE i + 1 \in T
  <2> SUFFICES ASSUME i + 1 <= n PROVE sum[i + 1] = f[i + 1]
    OBVIOUS
  <2>1. i + 1 \in 1 .. n /\ (i + 1) - 1 = i /\ sum[i] = f[i]
    BY <1>6
  <2> QED BY <1>4, <2>1
<1> HIDE DEF T
<1>7. \A i \in Nat : i \in T
  BY <1>5, <1>6, Inductive DEF T
<1> QED BY <1>2, <1>7 DEF T

\* parse_hex_le undoes encode_hex, for every value of a register of any width and for any
\* base: the loops agree on the order of bytes and on that of the two digits of a byte.
THEOREM RoundTrip ==
  ASSUME NEW v \in Value
  PROVE  parse_hex_le(encode_hex(v)) = v
<1> DEFINE str == encode_hex(v)
           f   == [i \in 0 .. RegBytes |-> v % Place[2 * i]]
<1>0. v \in Nat /\ RegBytes \in Nat
  BY Sizes
<1>1. Len(str) \div 2 = RegBytes
  BY <1>0, EncodedDigits, Sizes, Halves
<1>2. \A i \in 0 .. RegBytes : f[i] = v % Place[2 * i] /\ f[i] \in Nat
  <2> SUFFICES ASSUME NEW i \in 0 .. RegBytes PROVE v % Place[2 * i] \in Nat
    OBVIOUS
  <2> DEFINE P == Place[2 * i]
  <2>1. P \in Nat \ {0}
    BY BytePlaces
  <2> HIDE DEF P
  <2>2. v % P \in 0 .. (P - 1)
    BY <1>0, <2>1, Division
  <2>3. v % P \in Nat
    BY <2>1, <2>2
  <2> QED BY <2>3 DEF P
<1>3. f[0] = 0
  <2>1. 2 * 0 = 0 /\ v % 1 = 0
    BY <1>0
  <2> QED BY <1>0, <1>2, <2>1, PlaceFacts
<1>4. ASSUME NEW i \in 1 .. RegBytes PROVE f[i] = f[i - 1] + Term(str, i)
  <2> DEFINE P == Place[2 * (i - 1)]
  <2>1. i - 1 \in Nat /\ (i - 1) + 1 = i /\ i \in 0 .. RegBytes /\ i - 1 \in 0 .. RegBytes
    BY <1>0
  <2>2. P \in Nat \ {0} /\ Place[2 * i] = P * ByteValues
    BY <2>1, BytePlaces
  <2>3. f[i] = v % (P * ByteValues) /\ f[i - 1] = v % P
    BY <1>2, <2>1, <2>2
  <2>4. Term(str, i) = ByteOf(v, i - 1) * P
    <3> DEFINE b == ByteOf(v, i - 1)
    <3>1. b \in 0 .. (ByteValues - 1)
      BY <1>0, <2>1, ByteOfType
    <3>2. str[2 * i - 1] = b \div Digits /\ str[2 * i] = b % Digits
      BY <1>0, EncodedDigits
    <3> HIDE DEF b, str
    <3>3. str[2 * i - 1] * Digits + str[2 * i] = b
      BY <3>1, <3>2, ByteDigits
    <3> QED BY <3>3 DEF Term, b
  <2>5. ByteOf(v, i - 1) = (v \div P) % ByteValues
    BY DEF ByteOf
  <2> HIDE DEF P, f
  <2>6. v % (P * ByteValues) = (v % P) + ((v \div P) % ByteValues) * P
    BY <1>0, <2>2, Sizes, RestOfProduct
  <2> QED BY <2>3, <2>4, <2>5, <2>6
<1> HIDE DEF f, str
<1>5. parse_hex_le(str) = f[RegBytes]
  <2>1. \A i \in 0 .. RegBytes : f[i] \in Nat
    BY <1>2
  <2> QED BY <1>0, <1>1, <1>3, <1>4, <2>1, ParseIs
<1>6. f[RegBytes] = v % RegValues
  BY <1>0, <1>2 DEF RegValues
<1>7. v % RegValues = v
  <2>1. RegValues \in Nat \ {0} /\ v \in 0 .. (RegValues - 1) /\ RegValues * 0 + v = v
    BY Sizes DEF Value
  <2> QED BY <2>1, QuotientAndRest
<1> QED BY <1>5, <1>6, <1>7 DEF str

\* Field r of a packet of all registers holds register r.
LEMMA FieldOfAll ==
  ASSUME NEW rs \in [RegNum -> Nat], NEW r \in RegNum
  PROVE  Field(AllRegs(rs), r) = encode_hex(rs[r])
<1> DEFINE all == AllRegs(rs)
           A(d) == encode_hex(rs[(d - 1) \div Chars])[((d - 1) % Chars) + 1]
           N   == NumRegs * Chars
<1>0. N \in Nat /\ r \in Nat /\ r * Chars \in Nat /\ (r + 1) * Chars <= N
      /\ (r + 1) * Chars = r * Chars + Chars /\ Chars * r = r * Chars
  <2>1. r \in Nat /\ r + 1 <= NumRegs
    BY Sizes DEF RegNum, PC
  <2> QED BY <2>1, Sizes
<1>1. all = [d \in 1 .. N |-> A(d)]
  BY DEF AllRegs
<1> HIDE DEF A, N, all
<1>2. Field(all, r) = [i \in 1 .. Chars |-> all[r * Chars + i]]
  <2> DEFINE x == r * Chars
  <2>1. Field(all, r) = SubSeq(all, x + 1, x + Chars)
    BY <1>0 DEF Field
  <2>2. SubSeq(all, x + 1, x + Chars) = [i \in 1 .. Chars |-> all[x + i]]
    <3> HIDE DEF x
    <3>1. x \in Nat
      BY <1>0 DEF x
    <3>2. 1 .. ((x + Chars) - (x + 1) + 1) = 1 .. Chars
      BY <3>1, Sizes
    <3>3. \A i \in 1 .. Chars : (x + 1) + i - 1 = x + i
      BY <3>1, Sizes
    <3> QED BY <3>1, <3>2, <3>3, Sizes
  <2> QED BY <2>1, <2>2
<1>3. ASSUME NEW i \in 1 .. Chars PROVE all[r * Chars + i] = encode_hex(rs[r])[i]
  <2> DEFINE d == r * Chars + i
  <2>1. d \in 1 .. N /\ d - 1 = Chars * r + (i - 1) /\ i - 1 \in 0 .. (Chars - 1)
    BY <1>0, Sizes
  <2>2. (d - 1) \div Chars = r /\ (d - 1) % Chars = i - 1
    BY <1>0, <2>1, Sizes, QuotientAndRest
  <2>3. (i - 1) + 1 = i
    BY Sizes
  <2> HIDE DEF d
  <2>4. all[d] = A(d)
    BY <1>1, <2>1
  <2>5. all[d] = encode_hex(rs[r])[i]
    BY <2>2, <2>3, <2>4 DEF A
  <2> QED BY <2>5 DEF d
<1>4. rs[r] \in Nat
  OBVIOUS
<1>5. encode_hex(rs[r]) = [i \in 1 .. Chars |-> encode_hex(rs[r])[i]]
  BY Sizes DEF encode_hex
<1> QED BY <1>2, <1>3, <1>5 DEF all

\* Partial sums of a sequence of naturals.
LEMMA SumExists ==
  ASSUME NEW n \in Nat, NEW c, \A i \in 1 .. n : c[i] \in Nat
  PROVE  \E f : /\ \A i \in 0 .. n : f[i] \in Nat
                /\ f[0] = 0
                /\ \A i \in 1 .. n : f[i] = f[i - 1] + c[i]
<1> DEFINE Sums(f, k) == /\ \A i \in 0 .. k : f[i] \in Nat
                         /\ f[0] = 0
                         /\ \A i \in 1 .. k : f[i] = f[i - 1] + c[i]
           T == {k \in Nat : k <= n => \E f : Sums(f, k)}
<1>1. 0 \in T
  <2>1. Sums([i \in 0 .. 0 |-> 0], 0)
    OBVIOUS
  <2> QED BY <2>1
<1>2. ASSUME NEW k \in T PROVE k + 1 \in T
  <2> SUFFICES ASSUME k + 1 <= n PROVE \E f : Sums(f, k + 1)
    OBVIOUS
  <2>1. PICK f : Sums(f, k)
    BY <1>2
  <2> DEFINE last == f[k] + c[k + 1]
             g == [i \in 0 .. (k + 1) |-> IF i <= k THEN f[i] ELSE last]
  <2>2. last \in Nat
    BY <2>1
  <2> HIDE DEF last
  <2>3. (\A i \in 0 .. (k + 1) : g[i] \in Nat) /\ g[0] = 0
    BY <2>1, <2>2
  <2>4. ASSUME NEW i \in 1 .. (k + 1) PROVE g[i] = g[i - 1] + c[i]
    <3>1. CASE i <= k
      BY <2>1, <2>4, <3>1
    <3>2. CASE i = k + 1
      <4>1. g[i] = last /\ g[i - 1] = f[k]
        BY <3>2
      <4> QED BY <3>2, <4>1 DEF last
    <3> QED BY <2>4, <3>1, <3>2
  <2>5. Sums(g, k + 1)
    BY <2>3, <2>4
  <2> QED BY <2>5
<1> HIDE DEF T
<1>3. \A k \in Nat : k \in T
  BY <1>1, <1>2, Inductive DEF T
<1>4. \E f : Sums(f, n)
  BY <1>3 DEF T
<1> QED BY <1>4

\* A field of digits, whatever they are, is the value of a register.
LEMMA ParsedType ==
  ASSUME NEW str \in Seq(Digit), Len(str) = Chars
  PROVE  parse_hex_le(str) \in Value
<1> DEFINE c == [i \in 1 .. RegBytes |-> Term(str, i)]
<1>0. RegBytes \in Nat /\ Len(str) \div 2 = RegBytes
  BY Sizes, Halves
<1>1. ASSUME NEW i \in 1 .. RegBytes
      PROVE  /\ Place[2 * (i - 1)] \in Nat \ {0} /\ Term(str, i) \in Nat
             /\ Place[2 * i] = Place[2 * (i - 1)] * ByteValues
             /\ Term(str, i) + Place[2 * (i - 1)] <= Place[2 * i]
  <2> DEFINE P == Place[2 * (i - 1)]
             b == str[2 * i - 1] * Digits + str[2 * i]
  <2>1. i - 1 \in Nat /\ (i - 1) + 1 = i
    BY <1>0
  <2>2. P \in Nat \ {0} /\ Place[2 * i] = P * ByteValues
    BY <2>1, BytePlaces
  <2>3. str[2 * i - 1] \in Digit /\ str[2 * i] \in Digit
    BY <1>0, Sizes
  <2>4. b \in Nat /\ b + 1 <= ByteValues
    <3> DEFINE x == str[2 * i - 1]
               y == str[2 * i]
    <3>1. x \in Nat /\ y \in Nat /\ x + 1 <= Digits /\ y + 1 <= Digits /\ Digits \in Nat
      BY <2>3, Sizes DEF Digit
    <3> HIDE DEF x, y
    <3>2. (x + 1) * Digits <= Digits * Digits /\ (x + 1) * Digits = x * Digits + Digits
          /\ x * Digits \in Nat
      BY <3>1
    <3>3. x * Digits + y \in Nat /\ (x * Digits + y) + 1 <= Digits * Digits
      BY <3>1, <3>2
    <3> QED BY <3>3 DEF x, y, ByteValues
  <2>5. Term(str, i) = b * P
    BY DEF Term
  <2> HIDE DEF P, b
  <2>6. b * P \in Nat /\ b * P + P = (b + 1) * P /\ (b + 1) * P <= ByteValues * P
        /\ ByteValues * P = P * ByteValues
    BY <2>2, <2>4, Sizes
  <2> QED BY <2>2, <2>5, <2>6 DEF P
<1>2. \A i \in 1 .. RegBytes : c[i] = Term(str, i) /\ c[i] \in Nat
  BY <1>1
<1> HIDE DEF c
<1>3. PICK f : /\ \A i \in 0 .. RegBytes : f[i] \in Nat
               /\ f[0] = 0
               /\ \A i \in 1 .. RegBytes : f[i] = f[i - 1] + c[i]
  BY <1>0, <1>2, SumExists
<1>4. parse_hex_le(str) = f[RegBytes]
  <2>1. \A i \in 1 .. RegBytes : f[i] = f[i - 1] + Term(str, i)
    BY <1>2, <1>3
  <2> QED BY <1>0, <1>3, <2>1, ParseIs
<1> DEFINE T == {i \in Nat : i <= RegBytes => f[i] < Place[2 * i]}
<1>5. 0 \in T
  <2>1. 2 * 0 = 0
    OBVIOUS
  <2>2. Place[0] = 1
    BY PlaceFacts
  <2>3. f[0] < Place[2 * 0]
    BY <1>3, <2>1, <2>2
  <2> QED BY <2>3
<1>6. ASSUME NEW i \in T PROVE i + 1 \in T
  <2> SUFFICES ASSUME i + 1 <= RegBytes PROVE f[i + 1] < Place[2 * (i + 1)]
    OBVIOUS
  <2>1. i + 1 \in 1 .. RegBytes /\ (i + 1) - 1 = i /\ f[i] < Place[2 * i] /\ f[i] \in Nat
    BY <1>0, <1>3, <1>6
  <2>2. f[i + 1] = f[i] + Term(str, i + 1) /\ Term(str, i + 1) \in Nat
    BY <1>2, <1>3, <2>1
  <2>3. Term(str, i + 1) + Place[2 * i] <= Place[2 * (i + 1)] /\ Place[2 * i] \in Nat
    BY <1>1, <2>1
  <2>4. Place[2 * (i + 1)] \in Nat
    <3> DEFINE j == i + 1
    <3>1. j \in Nat
      OBVIOUS
    <3> HIDE DEF j
    <3>2. Place[2 * j] \in Nat
      BY <3>1, BytePlaces
    <3> QED BY <3>2 DEF j
  <2> QED BY <2>1, <2>2, <2>3, <2>4
<1> HIDE DEF T
<1>7. \A i \in Nat : i \in T
  BY <1>5, <1>6, Inductive DEF T
<1>8. f[RegBytes] < RegValues /\ f[RegBytes] \in Nat
  BY <1>0, <1>3, <1>7 DEF T, RegValues
<1> QED BY <1>4, <1>8, Sizes DEF Value

\* The digits of a pc in a stop reply, and those of all registers.
LEMMA FormatType ==
  ASSUME NEW v \in Nat
  PROVE  format_addr(v) \in Seq(Digit) /\ Len(format_addr(v)) = Chars
<1>1. ASSUME NEW d \in 1 .. 2 * RegBytes
      PROVE  (v \div Place[2 * RegBytes - d]) % Digits \in Digit
  <2>1. 2 * RegBytes - d \in Nat
    BY Sizes
  <2>2. v \div Place[2 * RegBytes - d] \in Nat
    BY <2>1, PlaceFacts, Division
  <2> QED BY <2>2, Division, Sizes DEF Digit
<1> QED BY <1>1, Sizes DEF format_addr

LEMMA AllRegsType ==
  ASSUME NEW rs \in [RegNum -> Nat]
  PROVE  AllRegs(rs) \in Seq(Digit) /\ AllRegs(rs) # <<>>
<1> DEFINE A(d) == encode_hex(rs[(d - 1) \div Chars])[((d - 1) % Chars) + 1]
           N   == NumRegs * Chars
<1>0. N \in Nat \ {0}
  BY Sizes, Product
<1>1. AllRegs(rs) = [d \in 1 .. N |-> A(d)]
  BY DEF AllRegs
<1>2. ASSUME NEW d \in 1 .. N PROVE A(d) \in Digit
  <2> DEFINE q == (d - 1) \div Chars
             k == (d - 1) % Chars
  <2>1. d - 1 \in Nat /\ d <= N
    BY <1>0
  <2>2. q \in Nat /\ k \in 0 .. (Chars - 1) /\ d - 1 = Chars * q + k
    BY <2>1, Sizes, Division
  <2> HIDE DEF q, k
  <2>3. q < NumRegs
    <3> SUFFICES ASSUME NumRegs <= q PROVE FALSE
      BY <2>2, Sizes
    <3>1. Chars * NumRegs <= Chars * q /\ Chars * NumRegs = N /\ Chars * q \in Nat
      BY <2>2, Sizes
    <3> QED BY <1>0, <2>1, <2>2, <3>1
  <2>4. q \in RegNum
    BY <2>2, <2>3, Sizes DEF RegNum, PC
  <2>5. rs[q] \in Nat
    BY <2>4
  <2>6. k + 1 \in 1 .. Chars
    BY <2>2, Sizes
  <2>7. encode_hex(rs[q])[k + 1] \in Digit
    BY <2>5, <2>6, EncodedDigits
  <2> QED BY <2>7 DEF q, k
<1> HIDE DEF A, N
<1> QED BY <1>0, <1>1, <1>2

(***************************************************************************)
(* The inductive invariant.  Exchange says what an answer under way holds, *)
(* Kept that the debugger's copy is true but for the register that the     *)
(* packet under way has just written.                                      *)
(***************************************************************************)
Exchange ==
  /\ asked.cmd = "" => tx = <<>>
  /\ asked.cmd \in {"P", "G"} => asked.num # 0
  /\ asked.cmd = "G" => \A r \in RegNum : copy[r] # NoValue
  /\ tx # <<>> /\ asked.cmd = "g" => tx = AllRegs(regs)
  /\ tx # <<>> /\ asked.cmd = "p" => tx = encode_hex(regs[asked.num])
  /\ tx # <<>> /\ asked.cmd \in {"P", "G"} => regs[asked.num] = asked.value

Kept ==
  ~StopPcs =>
    \/ tx # <<>> /\ asked.cmd = "run"
    \/ \A r \in RegNum : \/ tx # <<>> /\ asked.cmd \in {"P", "G"} /\ r = asked.num
                         \/ copy[r] \in {regs[r], NoValue}

RInv == TypeOK /\ Exchange /\ Kept

LEMMA Nothing == <<>> \in Seq(Digit)
OBVIOUS

LEMMA InitInv == Init => RInv
<1> SUFFICES ASSUME Init PROVE RInv
  OBVIOUS
<1>1. TypeOK
  <2>1. MaxSteps \in Nat
    BY SizeAssumption
  <2>2. regs \in [RegNum -> Value] /\ regs[0] = 0 /\ copy \in [RegNum -> Value \cup {NoValue}]
    BY Sizes DEF Init
  <2>3. asked \in [cmd : {"", "run", "g", "G", "p", "P"}, num : RegNum, value : Value]
    BY Sizes DEF Init
  <2>4. tx \in Seq(Digit)
    <3>1. tx = <<>> BY DEF Init
    <3> QED BY <3>1, Nothing
  <2>5. steps \in 0 .. MaxSteps
    <3>1. steps = 0 BY DEF Init
    <3> QED BY <2>1, <3>1
  <2> QED BY <2>2, <2>3, <2>4, <2>5 DEF TypeOK
<1>2. Exchange
  BY DEF Init, Exchange
<1>3. Kept
  BY DEF Init, Kept
<1> QED BY <1>1, <1>2, <1>3 DEF RInv

LEMMA ReadIsReg ==
  ASSUME TypeOK
  PROVE  /\ \A r \in RegNum : rv32_cpu_read_reg(r) = regs[r]
         /\ [r \in RegNum |-> rv32_cpu_read_reg(r)] = regs
         /\ regs \in [RegNum -> Nat]
<1>1. \A r \in RegNum : rv32_cpu_read_reg(r) = regs[r]
  BY DEF TypeOK, rv32_cpu_read_reg
<1>2. regs = [r \in RegNum |-> regs[r]]
  BY DEF TypeOK
<1>3. regs \in [RegNum -> Nat]
  BY Sizes DEF TypeOK
<1> QED BY <1>1, <1>2, <1>3

LEMMA ReadStep ==
  ASSUME RInv, handle_read_registers \/ handle_read_single_register
  PROVE  RInv'
<1>0. TypeOK /\ asked.num \in RegNum /\ regs \in [RegNum -> Nat]
  BY ReadIsReg DEF RInv, TypeOK
<1>1. /\ UNCHANGED <<regs, asked, copy, steps>> /\ tx = <<>>
      /\ asked.cmd \in {"g", "p"}
  BY DEF handle_read_registers, handle_read_single_register, Answers
<1>2. /\ asked.cmd = "g" => tx' = AllRegs(regs)
      /\ asked.cmd = "p" => tx' = encode_hex(regs[asked.num])
  BY <1>0, ReadIsReg DEF handle_read_registers, handle_read_single_register, Answers
<1>3. tx' \in Seq(Digit)
  <2>1. regs[asked.num] \in Nat
    BY <1>0
  <2> QED BY <1>0, <1>1, <1>2, <2>1, AllRegsType, EncodedDigits
<1>4. TypeOK'
  BY <1>0, <1>1, <1>3 DEF TypeOK
<1>5. Exchange'
  BY <1>1, <1>2 DEF RInv, Exchange
<1>6. Kept'
  BY <1>1 DEF RInv, Kept
<1> QED BY <1>4, <1>5, <1>6 DEF RInv

LEMMA OkIsAnswer == <<0>> \in Seq(Digit) /\ <<0>> # <<>>
BY Sizes

\* G: the registers become the debugger's copy, with the one that it changes.
LEMMA WriteAllStep ==
  ASSUME RInv, handle_write_registers
  PROVE  RInv'
<1> DEFINE rs == [copy EXCEPT ![asked.num] = asked.value]
<1>0. /\ TypeOK /\ asked.cmd = "G" /\ tx = <<>> /\ tx' = <<0>>
      /\ UNCHANGED <<asked, copy, steps>>
      /\ asked.num \in RegNum /\ asked.num # 0 /\ asked.value \in Value
      /\ \A r \in RegNum : copy[r] \in Value
  BY DEF RInv, TypeOK, Exchange, handle_write_registers, Answers
<1>1. /\ rs \in [RegNum -> Value] /\ rs \in [RegNum -> Nat] /\ rs[asked.num] = asked.value
      /\ \A r \in RegNum : r # asked.num => rs[r] = copy[r]
  BY <1>0, Sizes DEF TypeOK
<1>2. regs' = [r \in RegNum |->
                 rv32_cpu_write_reg(regs, r, parse_hex_le(Field(AllRegs(rs), r)))[r]]
  BY DEF handle_write_registers
<1> HIDE DEF rs
<1>3. ASSUME NEW r \in RegNum, r # 0 PROVE regs'[r] = rs[r]
  <2>1. Field(AllRegs(rs), r) = encode_hex(rs[r]) /\ rs[r] \in Value
    BY <1>1, FieldOfAll
  <2>2. parse_hex_le(Field(AllRegs(rs), r)) = rs[r]
    BY <2>1, RoundTrip
  <2> QED BY <1>0, <1>2, <1>3, <2>2 DEF rv32_cpu_write_reg, TypeOK
<1>4. regs'[0] = regs[0]
  BY <1>0, <1>2, Sizes DEF rv32_cpu_write_reg
<1>5. regs' \in [RegNum -> Value] /\ regs'[0] = 0
  <2>1. regs' = [r \in RegNum |-> regs'[r]]
    BY <1>2
  <2>2. \A r \in RegNum : regs'[r] \in Value
    BY <1>0, <1>1, <1>3, <1>4 DEF TypeOK
  <2> QED BY <1>0, <1>4, <2>1, <2>2 DEF TypeOK
<1>6. TypeOK'
  BY <1>0, <1>5, OkIsAnswer DEF TypeOK
<1>7. Exchange'
  BY <1>0, <1>1, <1>3 DEF RInv, Exchange
<1>8. Kept'
  <2> SUFFICES ASSUME ~StopPcs, NEW r \in RegNum, r # asked.num
               PROVE  copy[r] \in {regs'[r], NoValue}
    BY <1>0, OkIsAnswer DEF Kept
  <2>1. CASE r = 0
    BY <1>0, <1>4, <2>1 DEF RInv, Kept
  <2>2. CASE r # 0
    BY <1>1, <1>3, <2>2
  <2> QED BY <2>1, <2>2
<1> QED BY <1>6, <1>7, <1>8 DEF RInv

LEMMA WriteOneStep ==
  ASSUME RInv, handle_write_single_register
  PROVE  RInv'
<1>0. /\ TypeOK /\ asked.cmd = "P" /\ tx = <<>> /\ tx' = <<0>>
      /\ UNCHANGED <<asked, copy, steps>>
      /\ asked.num \in RegNum /\ asked.num # 0 /\ asked.value \in Value
  BY DEF RInv, TypeOK, Exchange, handle_write_single_register, Answers
<1>1. regs' = [regs EXCEPT ![asked.num] = asked.value]
  BY <1>0, RoundTrip DEF handle_write_single_register, rv32_cpu_write_reg
<1>2. /\ regs' \in [RegNum -> Value] /\ regs'[0] = 0 /\ regs'[asked.num] = asked.value
      /\ \A r \in RegNum : r # asked.num => regs'[r] = regs[r]
  BY <1>0, <1>1, Sizes DEF TypeOK
<1>3. TypeOK'
  BY <1>0, <1>2, OkIsAnswer DEF TypeOK
<1>4. Exchange'
  BY <1>0, <1>2 DEF RInv, Exchange
<1>5. Kept'
  BY <1>0, <1>2, OkIsAnswer DEF RInv, Kept
<1> QED BY <1>3, <1>4, <1>5 DEF RInv

LEMMA RunStep ==
  ASSUME RInv, RunAndStop
  PROVE  RInv'
<1>0. /\ TypeOK /\ asked.cmd = "run" /\ UNCHANGED <<asked, copy>>
      /\ steps < MaxSteps /\ steps' = steps + 1
  BY DEF RInv, RunAndStop, Answers
<1>1. regs' \in [RegNum -> Value] /\ regs'[0] = 0
  <2>1. regs \in [RegNum -> Value] /\ regs[0] = 0 /\ 0 \in RegNum
    BY <1>0, Sizes DEF TypeOK
  <2>2. PICK r \in RegNum \ {0}, value \in Value : regs' = [regs EXCEPT ![r] = value]
    BY DEF RunAndStop
  <2> QED BY <2>1, <2>2
<1>2. tx' \in Seq(Digit) /\ tx' # <<>>
  <2>1. regs'[PC] \in Nat
    BY <1>1, Sizes
  <2>2. format_addr(regs'[PC]) \in Seq(Digit) /\ format_addr(regs'[PC]) # <<>>
    BY <2>1, FormatType, Sizes
  <2> QED BY <2>2, OkIsAnswer DEF RunAndStop
<1>3. TypeOK'
  <2>1. steps' \in 0 .. MaxSteps
    <3>1. steps \in 0 .. MaxSteps /\ MaxSteps \in Nat
      BY <1>0, SizeAssumption DEF TypeOK
    <3>2. steps < MaxSteps /\ steps' = steps + 1
      BY <1>0
    <3> QED BY <3>1, <3>2
  <2>2. /\ asked' \in [cmd : {"", "run", "g", "G", "p", "P"}, num : RegNum, value : Value]
        /\ copy' \in [RegNum -> Value \cup {NoValue}]
    BY <1>0 DEF TypeOK
  <2> QED BY <1>1, <1>2, <2>1, <2>2 DEF TypeOK
<1>4. Exchange'
  BY <1>0 DEF Exchange
<1>5. Kept'
  BY <1>0, <1>2 DEF Kept
<1> QED BY <1>3, <1>4, <1>5 DEF RInv

LEMMA AskStep ==
  ASSUME RInv, ClientAsks
  PROVE  RInv'
<1>1. PICK cmd \in {"run", "g", "G", "p", "P"}, num \in RegNum, value \in Value :
         /\ Ask(cmd, num, value)
         /\ cmd \in {"P", "G"} => num # 0
  BY Sizes DEF ClientAsks
<1>2. /\ asked.cmd = "" /\ tx = <<>> /\ UNCHANGED <<regs, tx, copy, steps>>
      /\ cmd = "G" => \A r \in RegNum : copy[r] # NoValue
      /\ asked'.cmd = cmd /\ asked'.num = num /\ asked'.value = value
      /\ asked' \in [cmd : {"", "run", "g", "G", "p", "P"}, num : RegNum, value : Value]
  BY <1>1 DEF Ask, RInv, Exchange
<1>3. TypeOK'
  BY <1>2 DEF RInv, TypeOK
<1>4. Exchange'
  BY <1>1, <1>2 DEF Exchange
<1>5. Kept'
  BY <1>2 DEF RInv, Kept
<1> QED BY <1>3, <1>4, <1>5 DEF RInv

LEMMA TakeStep ==
  ASSUME RInv, ClientTakesAnswer
  PROVE  RInv'
<1>0. /\ TypeOK /\ tx # <<>> /\ asked.cmd \in {"run", "g", "G", "p", "P"}
      /\ asked.num \in RegNum /\ asked.value \in Value
      /\ UNCHANGED <<regs, steps>> /\ tx' = <<>>
      /\ asked' = [cmd |-> "", num |-> 0, value |-> 0]
      /\ regs \in [RegNum -> Value] /\ copy \in [RegNum -> Value \cup {NoValue}]
  BY DEF RInv, TypeOK, Exchange, ClientTakesAnswer
<1>1. /\ copy' \in [RegNum -> Value \cup {NoValue}]
      /\ ~StopPcs => \A r \in RegNum : copy'[r] \in {regs[r], NoValue}
  <2>1. CASE asked.cmd = "g"
    <3>1. copy' = [r \in RegNum |-> parse_hex_le(Field(tx, r))] /\ tx = AllRegs(regs)
      BY <1>0, <2>1 DEF ClientTakesAnswer, RInv, Exchange
    <3>2. ASSUME NEW r \in RegNum PROVE parse_hex_le(Field(tx, r)) = regs[r]
      <4>1. Field(AllRegs(regs), r) = encode_hex(regs[r]) /\ regs[r] \in Value
        BY <1>0, ReadIsReg, FieldOfAll
      <4> QED BY <3>1, <4>1, RoundTrip
    <3> QED BY <1>0, <3>1, <3>2
  <2>2. CASE asked.cmd = "p"
    <3>1. copy' = [copy EXCEPT ![asked.num] = parse_hex_le(tx)]
          /\ tx = encode_hex(regs[asked.num])
      BY <1>0, <2>2 DEF ClientTakesAnswer, RInv, Exchange
    <3>2. parse_hex_le(tx) = regs[asked.num] /\ regs[asked.num] \in Value
      BY <1>0, <3>1, RoundTrip
    <3>3. ~StopPcs => \A r \in RegNum : copy[r] \in {regs[r], NoValue}
      BY <2>2 DEF RInv, Kept
    <3> QED BY <1>0, <3>1, <3>2, <3>3
  <2>3. CASE asked.cmd \in {"P", "G"}
    <3>1. copy' = [copy EXCEPT ![asked.num] = asked.value] /\ regs[asked.num] = asked.value
      BY <1>0, <2>3 DEF ClientTakesAnswer, RInv, Exchange
    <3>2. ~StopPcs => \A r \in RegNum : r = asked.num \/ copy[r] \in {regs[r], NoValue}
      BY <2>3 DEF RInv, Kept
    <3> QED BY <1>0, <3>1, <3>2
  <2>4. CASE asked.cmd = "run"
    <3>1. copy' = [r \in RegNum |-> IF r = PC /\ StopPcs /\ Len(tx) = Chars
                                      THEN parse_hex_le(tx) ELSE NoValue]
      BY <1>0, <2>4 DEF ClientTakesAnswer
    <3>2. Len(tx) = Chars => parse_hex_le(tx) \in Value
      BY <1>0, ParsedType DEF TypeOK
    <3> QED BY <3>1, <3>2
  <2> QED BY <1>0, <2>1, <2>2, <2>3, <2>4
<1>2. TypeOK'
  <2>1. asked' \in [cmd : {"", "run", "g", "G", "p", "P"}, num : RegNum, value : Value]
    BY <1>0, Sizes
  <2>2. tx' \in Seq(Digit)
    BY <1>0, Nothing
  <2>3. regs' \in [RegNum -> Value] /\ regs'[0] = 0 /\ steps' \in 0 .. MaxSteps
    BY <1>0 DEF TypeOK
  <2> QED BY <1>1, <2>1, <2>2, <2>3 DEF TypeOK
<1>3. Exchange'
  BY <1>0 DEF Exchange
<1>4. Kept'
  BY <1>0, <1>1 DEF Kept
<1> QED BY <1>2, <1>3, <1>4 DEF RInv

LEMMA InvStep ==
  ASSUME RInv, [Next]_vars
  PROVE  RInv'
<1>1. CASE Stub
  BY <1>1, ReadStep, WriteAllStep, WriteOneStep, RunStep DEF Stub
<1>2. CASE ClientAsks
  BY <1>2, AskStep
<1>3. CASE ClientTakesAnswer
  BY <1>3, TakeStep
<1>4. CASE UNCHANGED vars
  BY <1>4 DEF RInv, TypeOK, Exchange, Kept, vars
<1> QED BY <1>1, <1>2, <1>3, <1>4 DEF Next

LEMMA Invariance == Spec => []RInv
BY InitInv, InvStep, PTL DEF Spec

\* Every register keeps a value of its width and x0 stays 0, whatever the debugger writes
\* with G and P; what parse_hex_le returns for a field of digits fits a register.
THEOREM TypeCorrect == Spec => []TypeOK
<1>1. RInv => TypeOK
  BY DEF RInv
<1> QED BY <1>1, Invariance, PTL

\* For registers of any width and any number of them, and a debugger that reads the pc with
\* p or g: its copy of a register is the register, whatever it read and wrote and however
\* the target ran in between.  It rests on parse_hex_le being the inverse of encode_hex
\* (RoundTrip) and on the fields of g and G being where both sides look for them.
THEOREM CopiesTrue ==
  ASSUME ~StopPcs
  PROVE  Spec => []CopyTrue
<1>1. RInv => CopyTrue
  BY DEF RInv, Exchange, Kept, CopyTrue, Settled
<1> QED BY <1>1, Invariance, PTL
==============================================================================
