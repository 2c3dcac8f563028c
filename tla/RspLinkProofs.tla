---------------------------- MODULE RspLinkProofs ----------------------------
(***************************************************************************)
(* Proofs about RspLink, for every size of the buffer, every set of        *)
(* packets, any noise and any bounds: what checksum and digits guarantee,  *)
(* and how the bytes on the line, the packets sent and the packets         *)
(* delivered belong together.                                              *)
(***************************************************************************)
EXTENDS RspLink, WellFoundedInduction, TLAPS

LEMMA LeastNat ==
  ASSUME NEW T, T \subseteq Nat, T # {}
  PROVE  \E n \in T : \A m \in T : n <= m
<1>1. IsWellFoundedOn(OpToRel(<, Nat), Nat) BY NatLessThanWellFounded
<1>2. PICK n \in T : \A m \in T : ~(<<m, n>> \in OpToRel(<, Nat)) BY <1>1, WFMin
<1>3. \A m \in T : ~(m < n) BY <1>2 DEF OpToRel
<1> QED BY <1>3

\* Induction over the naturals, for a set given by a property.
LEMMA Induction ==
  ASSUME NEW T, T \subseteq Nat, 0 \in T, \A n \in T : n + 1 \in T
  PROVE  Nat = T
<1> DEFINE C == Nat \ T
<1>1. SUFFICES ASSUME C # {} PROVE FALSE OBVIOUS
<1>2. PICK n \in C : \A m \in C : n <= m BY <1>1, LeastNat
<1>3. n # 0 /\ n - 1 \in Nat BY <1>2
<1>4. n - 1 \in T BY <1>2, <1>3
<1> QED BY <1>4, <1>2

------------------------------------------------------------------------------
(***************************************************************************)
(* Checksums and digits.                                                   *)
(***************************************************************************)
LEMMA ByteSum ==
  /\ \A a, b \in Byte : (a + b) % 256 \in Byte
  /\ \A a, b, c \in Byte : (a + c) % 256 = (b + c) % 256 => a = b
<1>1. \A a, b \in 0 .. 255 : (a + b) % 256 \in 0 .. 255 OBVIOUS
<1>2. \A a, b, c \in 0 .. 255 : (a + c) % 256 = (b + c) % 256 => a = b
  <2>1. \A s \in 0 .. 510 : s % 256 = IF s < 256 THEN s ELSE s - 256 OBVIOUS
  <2> SUFFICES ASSUME NEW a \in 0 .. 255, NEW b \in 0 .. 255, NEW c \in 0 .. 255,
                      (a + c) % 256 = (b + c) % 256
               PROVE  a = b
    OBVIOUS
  <2>2. a + c \in 0 .. 510 /\ b + c \in 0 .. 510 OBVIOUS
  <2>3. (IF a + c < 256 THEN a + c ELSE a + c - 256) = (IF b + c < 256 THEN b + c ELSE b + c - 256)
    BY <2>1, <2>2
  <2> QED BY <2>3
<1> QED BY <1>1, <1>2 DEF Byte

LEMMA SumDiffers ==
  ASSUME NEW a \in Byte, NEW b \in Byte, NEW c \in Byte, a # b
  PROVE  (a + c) % 256 # (b + c) % 256 /\ (c + a) % 256 # (c + b) % 256
<1>1. c + a = a + c /\ c + b = b + c BY DEF Byte
<1> QED BY <1>1, ByteSum

Sums(data, n, s) ==
  /\ s \in [0 .. n -> Byte]
  /\ s[0] = 0
  /\ \A i \in 1 .. n : s[i] = (s[i - 1] + data[i]) % 256

LEMMA SumsExist ==
  ASSUME NEW data \in Seq(Byte)
  PROVE  \A n \in 0 .. Len(data) : \E s : Sums(data, n, s)
<1> DEFINE T == {n \in Nat : n <= Len(data) => \E s : Sums(data, n, s)}
<1>0. Len(data) \in Nat OBVIOUS
<1>1. 0 \in T
  <2>1. Sums(data, 0, [i \in 0 .. 0 |-> 0]) BY DEF Sums, Byte
  <2> QED BY <2>1
<1>2. ASSUME NEW n \in T PROVE n + 1 \in T
  <2>1. SUFFICES ASSUME n + 1 <= Len(data) PROVE \E s : Sums(data, n + 1, s) BY <1>0
  <2>2. PICK s : Sums(data, n, s) BY <1>0, <2>1
  <2> DEFINE t == [i \in 0 .. (n + 1) |-> IF i = n + 1 THEN (s[n] + data[n + 1]) % 256 ELSE s[i]]
  <2>3. n \in Nat /\ n + 1 \in 1 .. Len(data) BY <1>0, <2>1
  <2>4. data[n + 1] \in Byte BY <2>3
  <2>5. s[n] \in Byte /\ \A i \in 0 .. n : s[i] \in Byte BY <2>2, <2>3 DEF Sums
  <2>6. (s[n] + data[n + 1]) % 256 \in Byte BY <2>4, <2>5, ByteSum
  <2>7. \A i \in 0 .. (n + 1) : t[i] \in Byte
    <3> SUFFICES ASSUME NEW i \in 0 .. (n + 1) PROVE t[i] \in Byte OBVIOUS
    <3>1. i = n + 1 \/ i \in 0 .. n BY <2>3
    <3> QED BY <2>5, <2>6, <3>1
  <2>8. t \in [0 .. (n + 1) -> Byte] BY <2>7
  <2>9. t[0] = 0 BY <2>2, <2>3 DEF Sums
  <2>10. ASSUME NEW i \in 1 .. (n + 1) PROVE t[i] = (t[i - 1] + data[i]) % 256
    <3>1. i - 1 \in 0 .. (n + 1) /\ i - 1 # n + 1 /\ i \in 0 .. (n + 1) BY <2>3
    <3>2. t[i - 1] = s[i - 1] BY <3>1
    <3>3. CASE i = n + 1 BY <2>3, <3>1, <3>2, <3>3
    <3>4. CASE i # n + 1
      <4>1. i \in 1 .. n BY <2>3, <3>4
      <4>2. s[i] = (s[i - 1] + data[i]) % 256 BY <2>2, <4>1 DEF Sums
      <4>3. t[i] = s[i] BY <3>1, <3>4
      <4> QED BY <3>2, <4>2, <4>3
    <3> QED BY <3>3, <3>4
  <2>11. Sums(data, n + 1, t) BY <2>8, <2>9, <2>10 DEF Sums
  <2> QED BY <2>11
<1> HIDE DEF T
<1>3. T \subseteq Nat BY DEF T
<1>4. Nat = T BY <1>1, <1>2, <1>3, Induction
<1> QED BY <1>0, <1>4 DEF T

\* calculate_checksum is the last of the partial sums, and a byte.
LEMMA ChecksumSums ==
  ASSUME NEW data \in Seq(Byte)
  PROVE  \E s : Sums(data, Len(data), s) /\ calculate_checksum(data) = s[Len(data)]
<1> DEFINE n == Len(data)
           F(s) == [i \in 0 .. n |-> IF i = 0 THEN 0 ELSE (s[i - 1] + data[i]) % 256]
           sum == CHOOSE s : s = F(s)
<1>0. n \in Nat OBVIOUS
<1>1. PICK s : Sums(data, n, s) BY <1>0, SumsExist
<1>2. s = F(s) BY <1>0, <1>1 DEF Sums
<1>3. sum = F(sum) BY <1>2
<1>4. calculate_checksum(data) = sum[n] BY DEF calculate_checksum
<1> HIDE DEF sum
<1> QED
  <2>1. sum[0] = 0 /\ \A i \in 1 .. n : sum[i] = (sum[i - 1] + data[i]) % 256
    BY <1>0, <1>3
  <2> DEFINE T == {i \in Nat : i <= n => sum[i] \in Byte}
  <2>2. 0 \in T BY <2>1 DEF Byte
  <2>3. ASSUME NEW i \in T PROVE i + 1 \in T
    <3>1. SUFFICES ASSUME i + 1 <= n PROVE sum[i + 1] \in Byte BY <1>0
    <3>2. sum[i] \in Byte /\ i + 1 \in 1 .. n BY <1>0, <3>1
    <3>3. sum[i + 1] = (sum[i] + data[i + 1]) % 256 BY <2>1, <3>2
    <3>4. data[i + 1] \in Byte BY <3>2
    <3> QED BY <3>2, <3>3, <3>4, ByteSum
  <2> HIDE DEF T
  <2>4. Nat = T
    <3>1. T \subseteq Nat BY DEF T
    <3> QED BY <2>2, <2>3, <3>1, Induction
  <2>5. \A i \in 0 .. n : sum[i] \in Byte BY <1>0, <2>4 DEF T
  <2>6. sum \in [0 .. n -> Byte] BY <1>3, <2>5
  <2> QED BY <1>4, <2>1, <2>6 DEF Sums

LEMMA ChecksumType == ASSUME NEW data \in Seq(Byte) PROVE calculate_checksum(data) \in Byte
BY ChecksumSums DEF Sums

\* A packet of which one byte was changed has another checksum.
LEMMA ChecksumSeesOneByte ==
  ASSUME NEW data \in Seq(Byte), NEW other \in Seq(Byte), Len(other) = Len(data),
         NEW x \in 1 .. Len(data), other[x] # data[x],
         \A y \in 1 .. Len(data) : y # x => other[y] = data[y]
  PROVE  calculate_checksum(other) # calculate_checksum(data)
<1> DEFINE n == Len(data)
<1>0. n \in Nat OBVIOUS
<1>1. PICK s : Sums(data, n, s) /\ calculate_checksum(data) = s[n] BY ChecksumSums
<1>2. PICK t : Sums(other, n, t) /\ calculate_checksum(other) = t[n] BY ChecksumSums
<1> HIDE DEF n
<1> DEFINE T == {i \in Nat : i <= n => (t[i] = s[i] <=> i < x)}
<1>3. x \in Nat /\ x >= 1 /\ x <= n BY <1>0 DEF n
<1>4. 0 \in T BY <1>1, <1>2, <1>3 DEF Sums
<1>5. ASSUME NEW i \in T PROVE i + 1 \in T
  <2>1. SUFFICES ASSUME i + 1 <= n PROVE t[i + 1] = s[i + 1] <=> i + 1 < x BY <1>0
  <2>2. i \in 0 .. n /\ i + 1 \in 1 .. n BY <1>0, <2>1
  <2>3. s[i] \in Byte /\ t[i] \in Byte /\ data[i + 1] \in Byte /\ other[i + 1] \in Byte
    BY <1>1, <1>2, <2>2 DEF Sums, n
  <2>4. s[i + 1] = (s[i] + data[i + 1]) % 256 /\ t[i + 1] = (t[i] + other[i + 1]) % 256
    BY <1>1, <1>2, <2>2 DEF Sums
  <2>5. t[i] = s[i] <=> i < x BY <2>2
  <2>6. CASE i + 1 < x
    <3>1. other[i + 1] = data[i + 1] BY <1>3, <2>2, <2>6 DEF n
    <3> QED BY <1>3, <2>2, <2>4, <2>5, <2>6, <3>1
  <2>7. CASE i + 1 = x
    <3>1. t[i] = s[i] BY <1>3, <2>2, <2>5, <2>7
    <3>2. data[x] \in Byte /\ other[x] \in Byte BY <2>3, <2>7
    <3>3. (s[i] + data[x]) % 256 # (s[i] + other[x]) % 256 BY <2>3, <3>2, SumDiffers
    <3> QED BY <1>3, <2>4, <2>7, <3>1, <3>3
  <2>8. CASE i + 1 > x
    <3>1. other[i + 1] = data[i + 1] BY <1>3, <2>2, <2>8 DEF n
    <3>2. t[i] # s[i] BY <1>3, <2>2, <2>5, <2>8
    <3>3. (t[i] + data[i + 1]) % 256 # (s[i] + data[i + 1]) % 256 BY <2>3, <3>2, SumDiffers
    <3> QED BY <1>3, <2>2, <2>4, <2>8, <3>1, <3>3
  <2> QED BY <1>3, <2>2, <2>6, <2>7, <2>8
<1> HIDE DEF T
<1>6. Nat = T
  <2>1. T \subseteq Nat BY DEF T
  <2> QED BY <1>4, <1>5, <2>1, Induction
<1>7. n \in T BY <1>0, <1>6
<1> QED BY <1>0, <1>1, <1>2, <1>3, <1>7 DEF T

\* hex_to_int undoes int_to_hex, and no digit is mistaken for the end of the data.
LEMMA Digits ==
  /\ \A v \in 0 .. 15 : /\ int_to_hex(v) \in Byte /\ int_to_hex(v) # HASH
                        /\ hex_to_int(int_to_hex(v)) = v
  /\ \A c \in Byte : hex_to_int(c) \in 0 .. 15
<1>1. ASSUME NEW v \in 0 .. 15
      PROVE  /\ int_to_hex(v) \in Byte /\ int_to_hex(v) # HASH
             /\ hex_to_int(int_to_hex(v)) = v
  <2>1. CASE v < 10 BY <2>1 DEF int_to_hex, hex_to_int, Byte, HASH
  <2>2. CASE v >= 10 BY <2>2 DEF int_to_hex, hex_to_int, Byte, HASH
  <2> QED BY <2>1, <2>2
<1>2. ASSUME NEW c \in Byte PROVE hex_to_int(c) \in 0 .. 15 BY DEF hex_to_int, Byte
<1> QED BY <1>1, <1>2

Received(old, c) == (old * 16 + hex_to_int(c)) % 256

LEMMA TwoDigits ==
  ASSUME NEW s \in Byte
  PROVE  /\ s \div 16 \in 0 .. 15 /\ s % 16 \in 0 .. 15
         /\ Received(Received(0, int_to_hex(s \div 16)), int_to_hex(s % 16)) = s
<1>0. s \in 0 .. 255 BY DEF Byte
<1>1. s \div 16 \in 0 .. 15 /\ s % 16 \in 0 .. 15 /\ s = 16 * (s \div 16) + (s % 16) BY <1>0
<1>2. Received(0, int_to_hex(s \div 16)) = s \div 16
  <2>1. hex_to_int(int_to_hex(s \div 16)) = s \div 16 BY <1>1, Digits
  <2> QED BY <1>1, <2>1 DEF Received
<1>3. hex_to_int(int_to_hex(s % 16)) = s % 16 BY <1>1, Digits
<1>4. (s \div 16) * 16 + (s % 16) = s BY <1>0, <1>1
<1>5. Received(s \div 16, int_to_hex(s % 16)) = s % 256 BY <1>3, <1>4 DEF Received
<1> QED BY <1>0, <1>1, <1>2, <1>5

LEMMA ReceivedType == ASSUME NEW old \in Byte, NEW c \in Byte PROVE Received(old, c) \in Byte
<1>1. hex_to_int(c) \in 0 .. 15 BY Digits
<1>2. old * 16 + hex_to_int(c) \in Nat BY <1>1 DEF Byte
<1> QED BY <1>2 DEF Received, Byte

LEMMA Joined ==
  ASSUME NEW S, NEW a \in Seq(S), NEW z \in Seq(S)
  PROVE  /\ a \o z \in Seq(S) /\ Len(a \o z) = Len(a) + Len(z)
         /\ \A i \in 1 .. Len(a) : (a \o z)[i] = a[i]
         /\ \A i \in 1 .. Len(z) : (a \o z)[Len(a) + i] = z[i]
OBVIOUS

\* The frame of a packet.
LEMMA FrameFacts ==
  ASSUME NEW p \in Seq(Byte)
  PROVE  LET f == Framed(p)
             s == calculate_checksum(p)
         IN  /\ f \in Seq(Byte) /\ Len(f) = Len(p) + 4
             /\ f[1] = DOLLAR
             /\ \A i \in 1 .. Len(p) : f[i + 1] = p[i]
             /\ f[Len(p) + 2] = HASH
             /\ f[Len(p) + 3] = int_to_hex(s \div 16)
             /\ f[Len(p) + 4] = int_to_hex(s % 16)
<1> DEFINE s == calculate_checksum(p)
           d1 == int_to_hex(s \div 16)
           d2 == int_to_hex(s % 16)
<1>1. s \in Byte BY ChecksumType
<1>2. d1 \in Byte /\ d2 \in Byte BY <1>1, TwoDigits, Digits
<1>3. Framed(p) = <<DOLLAR>> \o p \o <<HASH, d1, d2>> BY DEF Framed
<1>4. DOLLAR \in Byte /\ HASH \in Byte BY DEF DOLLAR, HASH, Byte
<1> HIDE DEF s, d1, d2
<1> DEFINE a == <<DOLLAR>> \o p
           z == <<HASH, d1, d2>>
<1>5. <<DOLLAR>> \in Seq(Byte) /\ z \in Seq(Byte) /\ Len(z) = 3 BY <1>2, <1>4
<1>6. /\ a \in Seq(Byte) /\ Len(a) = Len(p) + 1 /\ a[1] = DOLLAR
      /\ \A i \in 1 .. Len(p) : a[i + 1] = p[i]
  BY <1>4, <1>5
<1>7. z[1] = HASH /\ z[2] = d1 /\ z[3] = d2 OBVIOUS
<1> HIDE DEF a, z
<1>9. Len(p) \in Nat OBVIOUS
<1>8. /\ a \o z \in Seq(Byte) /\ Len(a \o z) = Len(p) + 4
      /\ \A i \in 1 .. (Len(p) + 1) : (a \o z)[i] = a[i]
      /\ \A i \in 1 .. 3 : (a \o z)[Len(p) + 1 + i] = z[i]
  <2>0. a \in Seq(Byte) /\ z \in Seq(Byte) BY <1>5, <1>6
  <2>1. /\ a \o z \in Seq(Byte) /\ Len(a \o z) = Len(a) + Len(z)
        /\ \A i \in 1 .. Len(a) : (a \o z)[i] = a[i]
        /\ \A i \in 1 .. Len(z) : (a \o z)[Len(a) + i] = z[i]
    BY <2>0, Joined
  <2>2. Len(a) = Len(p) + 1 /\ Len(z) = 3 /\ Len(a) + Len(z) = Len(p) + 4 BY <1>5, <1>6, <1>9
  <2> QED BY <2>1, <2>2
<1> QED BY <1>3, <1>6, <1>7, <1>8, <1>9 DEF a, z, s, d1, d2

------------------------------------------------------------------------------
(***************************************************************************)
(* The stream.  h is everything the debugger has sent, b how many bytes of *)
(* it the stub has read, and q[k] the place in h where the k-th packet     *)
(* starts: a Ctrl-C, or a frame with one damaged byte at most.  Everything *)
(* else in h is + and -.                                                   *)
(***************************************************************************)
Packet == Payloads \cup {Intr}

SizeAt(h, s, p) == IF h[s] = DOLLAR THEN Len(p) + 4 ELSE 1

CleanAt(h, s, p) == \A y \in 1 .. (Len(p) + 3) : h[s + y] = Framed(p)[y + 1]

FrameAt(h, s, p) ==
  /\ s + Len(p) + 3 <= Len(h)
  /\ h[s] = DOLLAR /\ h[s + Len(p) + 1] = HASH
  /\ \A i \in 1 .. Len(p) : h[s + i] # HASH
  /\ \E x \in 1 .. (Len(p) + 3) : \A y \in 1 .. (Len(p) + 3) : y # x => h[s + y] = Framed(p)[y + 1]

Starts(h, q, ps) == h \in Seq(Byte) /\ ps \in Seq(Packet) /\ q \in [1 .. Len(ps) -> 1 .. Len(h)]

Kinds(h, q, ps, clean) ==
  \A k \in 1 .. Len(ps) :
    \/ h[q[k]] = CTRLC /\ ps[k] = Intr
    \/ FrameAt(h, q[k], ps[k]) /\ (clean => CleanAt(h, q[k], ps[k]))

Ordered(h, q, ps) ==
  \A j, k \in 1 .. Len(ps) : j < k => q[j] + SizeAt(h, q[j], ps[j]) <= q[k]

Gaps(h, q, ps) ==
  \A a \in 1 .. Len(h) :
    \/ h[a] \in {PLUS, MINUS}
    \/ \E k \in 1 .. Len(ps) : q[k] <= a /\ a < q[k] + SizeAt(h, q[k], ps[k])

Layout(h, q, ps, clean) ==
  Starts(h, q, ps) /\ Kinds(h, q, ps, clean) /\ Ordered(h, q, ps) /\ Gaps(h, q, ps)

\* The bytes that are not read yet.
Rest(h, b, r) == /\ b \in 0 .. Len(h) /\ r \in Seq(Byte) /\ Len(r) = Len(h) - b
                 /\ \A i \in 1 .. Len(r) : r[i] = h[b + i]

Held(n) == IF n < BufSize THEN n ELSE BufSize - 1

\* receive_packet inside the frame of p that starts at s.
InFrame(h, b, s, p, r) ==
  /\ h[s] = DOLLAR
  /\ r.buf \in Seq(Byte) /\ \A i \in 1 .. Len(r.buf) : r.buf[i] = h[s + i]
  /\ \/ /\ r.state = 1
        /\ b \in s .. (s + Len(p))
        /\ r.index = Held(b - s) /\ Len(r.buf) = r.index
        /\ r.received = 0
     \/ /\ r.state = 2
        /\ r.index \in {0, 1} /\ b = s + Len(p) + 1 + r.index
        /\ Len(r.buf) = Held(Len(p))
        /\ r.expected = calculate_checksum(r.buf)
        /\ r.received = IF r.index = 0 THEN 0 ELSE Received(0, h[s + Len(p) + 2])

Between(r) == r.state = 0 /\ r.received = 0

\* Where the stub is in the stream: n packets are delivered and behind it.
Cursor(h, q, b, ps, n, inside, r) ==
  /\ n \in 0 .. Len(ps)
  /\ \A k \in 1 .. n : q[k] + SizeAt(h, q[k], ps[k]) <= b + 1
  /\ ~inside /\ n < Len(ps) => b < q[n + 1]
  /\ inside  => n < Len(ps) /\ InFrame(h, b, q[n + 1], ps[n + 1], r)

LEMMA PacketType ==
  ASSUME NEW p \in Packet
  PROVE  p \in Seq(Byte) /\ Len(p) \in Nat /\ \A i \in 1 .. Len(p) : p[i] \in Byte /\ p[i] # HASH
<1>1. CASE p = Intr BY <1>1 DEF Intr, CTRLC, HASH, Byte
<1>2. CASE p \in Payloads
  <2>1. p \in Seq(Byte \ {HASH}) BY <1>2, PayloadAssumption
  <2> QED BY <2>1
<1> QED BY <1>1, <1>2 DEF Packet

\* A frame that arrives with a checksum that fits holds the packet that was sent.
LEMMA FrameDelivers ==
  ASSUME NEW h \in Seq(Byte), NEW s \in Nat, NEW p \in Packet, FrameAt(h, s, p), s >= 1,
         NEW buf \in Seq(Byte), Len(buf) = Len(p), \A i \in 1 .. Len(buf) : buf[i] = h[s + i],
         calculate_checksum(buf) = Received(Received(0, h[s + Len(p) + 2]), h[s + Len(p) + 3])
  PROVE  buf = p
<1>1. p \in Seq(Byte) /\ Len(p) \in Nat BY PacketType
<1>2. PICK x \in 1 .. (Len(p) + 3) :
        \A y \in 1 .. (Len(p) + 3) : y # x => h[s + y] = Framed(p)[y + 1]
  BY DEF FrameAt
<1>3. \A i \in 1 .. Len(p) : Framed(p)[i + 1] = p[i] BY <1>1, FrameFacts
<1>4. \A i \in 1 .. Len(p) : i # x => buf[i] = p[i]
  <2> SUFFICES ASSUME NEW i \in 1 .. Len(p), i # x PROVE buf[i] = p[i] OBVIOUS
  <2>1. i \in 1 .. (Len(p) + 3) BY <1>1
  <2> QED BY <1>2, <1>3, <2>1
<1>5. CASE \A i \in 1 .. Len(p) : buf[i] = p[i] BY <1>1, <1>5
<1>6. CASE \E i \in 1 .. Len(p) : buf[i] # p[i]
  <2>1. x \in 1 .. Len(p) /\ buf[x] # p[x] BY <1>4, <1>6
  <2>2. calculate_checksum(buf) # calculate_checksum(p)
    BY <1>1, <1>4, <2>1, ChecksumSeesOneByte
  <2>3. /\ h[s + (Len(p) + 2)] = Framed(p)[(Len(p) + 2) + 1]
        /\ h[s + (Len(p) + 3)] = Framed(p)[(Len(p) + 3) + 1]
    <3>1. Len(p) + 2 \in 1 .. (Len(p) + 3) /\ Len(p) + 3 \in 1 .. (Len(p) + 3) BY <1>1
    <3>2. Len(p) + 2 # x /\ Len(p) + 3 # x BY <1>1, <2>1
    <3> QED BY <1>2, <3>1, <3>2
  <2>4. /\ h[s + Len(p) + 2] = Framed(p)[Len(p) + 3] /\ h[s + Len(p) + 3] = Framed(p)[Len(p) + 4]
    <3>1. /\ s + (Len(p) + 2) = s + Len(p) + 2 /\ s + (Len(p) + 3) = s + Len(p) + 3
          /\ (Len(p) + 2) + 1 = Len(p) + 3 /\ (Len(p) + 3) + 1 = Len(p) + 4
      BY <1>1
    <3> QED BY <2>3, <3>1
  <2>5. calculate_checksum(p) \in Byte BY <1>1, ChecksumType
  <2>6. calculate_checksum(buf) = calculate_checksum(p)
    BY <1>1, <2>4, <2>5, FrameFacts, TwoDigits
  <2> QED BY <2>2, <2>6
<1> QED BY <1>5, <1>6

\* A frame that was not damaged arrives with a checksum that fits.
LEMMA CleanFits ==
  ASSUME NEW h \in Seq(Byte), NEW s \in Nat, NEW p \in Packet, CleanAt(h, s, p), s >= 1,
         NEW buf \in Seq(Byte), Len(buf) = Len(p), \A i \in 1 .. Len(buf) : buf[i] = h[s + i]
  PROVE  calculate_checksum(buf) = Received(Received(0, h[s + Len(p) + 2]), h[s + Len(p) + 3])
<1>1. p \in Seq(Byte) /\ Len(p) \in Nat BY PacketType
<1>2. \A i \in 1 .. Len(p) : Framed(p)[i + 1] = p[i] BY <1>1, FrameFacts
<1>3. \A i \in 1 .. Len(p) : buf[i] = p[i]
  <2> SUFFICES ASSUME NEW i \in 1 .. Len(p) PROVE buf[i] = p[i] OBVIOUS
  <2>1. i \in 1 .. (Len(p) + 3) BY <1>1
  <2> QED BY <1>2, <2>1 DEF CleanAt
<1>4. buf = p BY <1>1, <1>3
<1>5. /\ h[s + Len(p) + 2] = Framed(p)[Len(p) + 3] /\ h[s + Len(p) + 3] = Framed(p)[Len(p) + 4]
  <2>1. /\ s + (Len(p) + 2) = s + Len(p) + 2 /\ s + (Len(p) + 3) = s + Len(p) + 3
        /\ (Len(p) + 2) + 1 = Len(p) + 3 /\ (Len(p) + 3) + 1 = Len(p) + 4
    BY <1>1
  <2>2. Len(p) + 2 \in 1 .. (Len(p) + 3) /\ Len(p) + 3 \in 1 .. (Len(p) + 3) BY <1>1
  <2> QED BY <2>1, <2>2 DEF CleanAt
<1>6. calculate_checksum(p) \in Byte BY <1>1, ChecksumType
<1> QED BY <1>1, <1>4, <1>5, <1>6, FrameFacts, TwoDigits

------------------------------------------------------------------------------
(***************************************************************************)
(* The stub reads a byte.                                                  *)
(***************************************************************************)
RecvRec == [state : 0 .. 2, index : Nat, buf : Seq(Byte), expected : Byte, received : Byte]

LEMMA TailFacts ==
  ASSUME NEW S, NEW r \in Seq(S), r # <<>>
  PROVE  /\ Len(r) \in Nat /\ Len(r) >= 1 /\ Head(r) = r[1] /\ Head(r) \in S
         /\ Tail(r) \in Seq(S) /\ Len(Tail(r)) = Len(r) - 1
         /\ \A i \in 1 .. Len(Tail(r)) : Tail(r)[i] = r[i + 1]
OBVIOUS

LEMMA RestRead ==
  ASSUME NEW h \in Seq(Byte), NEW b, NEW r, Rest(h, b, r), r # <<>>
  PROVE  /\ b \in Nat /\ b + 1 \in 1 .. Len(h) /\ Head(r) = h[b + 1] /\ Head(r) \in Byte
         /\ Rest(h, b + 1, Tail(r))
<1>1. /\ Len(r) \in Nat /\ Len(r) >= 1 /\ Head(r) = r[1] /\ Head(r) \in Byte
      /\ Tail(r) \in Seq(Byte) /\ Len(Tail(r)) = Len(r) - 1
      /\ \A i \in 1 .. Len(Tail(r)) : Tail(r)[i] = r[i + 1]
  BY TailFacts DEF Rest
<1>2. b \in Nat /\ Len(h) \in Nat /\ Len(r) = Len(h) - b BY DEF Rest
<1>3. b + 1 \in 1 .. Len(h) BY <1>1, <1>2
<1>4. Head(r) = h[b + 1] BY <1>1 DEF Rest
<1>5. Len(Tail(r)) = Len(h) - (b + 1) BY <1>1, <1>2
<1>6. ASSUME NEW i \in 1 .. Len(Tail(r)) PROVE Tail(r)[i] = h[b + 1 + i]
  <2>1. i + 1 \in 1 .. Len(r) /\ b + (i + 1) = b + 1 + i BY <1>1, <1>2
  <2>2. r[i + 1] = h[b + (i + 1)] BY <2>1 DEF Rest
  <2> QED BY <1>1, <2>1, <2>2
<1> QED BY <1>1, <1>2, <1>3, <1>4, <1>5, <1>6 DEF Rest

LEMMA LayoutFacts ==
  ASSUME NEW h, NEW q, NEW ps, NEW clean, Layout(h, q, ps, clean)
  PROVE  /\ Len(h) \in Nat /\ Len(ps) \in Nat
         /\ \A k \in 1 .. Len(ps) :
              /\ q[k] \in Nat /\ q[k] >= 1 /\ ps[k] \in Packet /\ Len(ps[k]) \in Nat
              /\ SizeAt(h, q[k], ps[k]) \in Nat /\ SizeAt(h, q[k], ps[k]) >= 1
<1>1. h \in Seq(Byte) /\ ps \in Seq(Packet) /\ q \in [1 .. Len(ps) -> 1 .. Len(h)]
  BY DEF Layout, Starts
<1>2. Len(h) \in Nat /\ Len(ps) \in Nat BY <1>1
<1>3. ASSUME NEW k \in 1 .. Len(ps)
      PROVE  /\ q[k] \in Nat /\ q[k] >= 1 /\ ps[k] \in Packet /\ Len(ps[k]) \in Nat
             /\ SizeAt(h, q[k], ps[k]) \in Nat /\ SizeAt(h, q[k], ps[k]) >= 1
  <2>1. q[k] \in Nat /\ q[k] >= 1 BY <1>1, <1>2
  <2>2. ps[k] \in Packet BY <1>1
  <2>3. Len(ps[k]) \in Nat BY <2>2, PacketType
  <2> QED BY <2>1, <2>2, <2>3 DEF SizeAt
<1> QED BY <1>2, <1>3

\* Outside of a frame the next byte is + or -, or starts the next packet.
Upcoming(h, q, b, ps, n) ==
  \/ h[b + 1] \in {PLUS, MINUS} /\ (n < Len(ps) => b + 1 < q[n + 1])
  \/ /\ n < Len(ps) /\ b + 1 = q[n + 1]
     /\ (h[b + 1] = CTRLC /\ ps[n + 1] = Intr) \/ h[b + 1] = DOLLAR

LEMMA NextItem ==
  ASSUME NEW h, NEW q, NEW ps, NEW clean, Layout(h, q, ps, clean),
         NEW b \in Nat, b + 1 \in 1 .. Len(h), NEW n, NEW rc, Cursor(h, q, b, ps, n, FALSE, rc)
  PROVE  Upcoming(h, q, b, ps, n)
<1>1. n \in 0 .. Len(ps) /\ (n < Len(ps) => b < q[n + 1]) BY DEF Cursor
<1>2. /\ Len(ps) \in Nat /\ n \in Nat
      /\ \A k \in 1 .. Len(ps) : /\ q[k] \in Nat /\ SizeAt(h, q[k], ps[k]) \in Nat
                                 /\ SizeAt(h, q[k], ps[k]) >= 1
  BY <1>1, LayoutFacts
<1>3. n < Len(ps) => n + 1 \in 1 .. Len(ps) BY <1>2
<1>4. n < Len(ps) => (h[q[n + 1]] = CTRLC /\ ps[n + 1] = Intr) \/ h[q[n + 1]] = DOLLAR
  BY <1>3 DEF Layout, Kinds, FrameAt
<1>5. CASE n < Len(ps) /\ b + 1 = q[n + 1] BY <1>4, <1>5 DEF Upcoming
<1>6. CASE ~(n < Len(ps) /\ b + 1 = q[n + 1])
  <2>1. n < Len(ps) => b + 1 < q[n + 1] BY <1>1, <1>2, <1>3, <1>6
  <2>2. ASSUME NEW k \in 1 .. Len(ps), q[k] <= b + 1, b + 1 < q[k] + SizeAt(h, q[k], ps[k])
        PROVE  FALSE
    <3>1. CASE k <= n
      <4>1. q[k] + SizeAt(h, q[k], ps[k]) <= b + 1 BY <1>2, <3>1 DEF Cursor
      <4> QED BY <1>2, <2>2, <4>1
    <3>2. CASE k = n + 1 BY <1>2, <2>1, <2>2, <3>2
    <3>3. CASE k > n + 1
      <4>1. n + 1 \in 1 .. Len(ps) /\ n < Len(ps) /\ n + 1 < k BY <1>2, <3>3
      <4>2. q[n + 1] + SizeAt(h, q[n + 1], ps[n + 1]) <= q[k] BY <4>1 DEF Layout, Ordered
      <4>3. q[n + 1] \in Nat /\ SizeAt(h, q[n + 1], ps[n + 1]) \in Nat /\ q[k] \in Nat
        BY <1>2, <4>1
      <4>4. b + 1 < q[n + 1] BY <2>1, <4>1
      <4> QED BY <2>2, <4>2, <4>3, <4>4
    <3> QED BY <1>2, <3>1, <3>2, <3>3
  <2>3. h[b + 1] \in {PLUS, MINUS} BY <2>2 DEF Layout, Gaps
  <2> QED BY <2>1, <2>3 DEF Upcoming
<1> QED BY <1>5, <1>6

\* A byte between packets is dropped.
LEMMA PassGap ==
  ASSUME NEW h, NEW q, NEW ps, NEW clean, Layout(h, q, ps, clean), NEW b \in Nat,
         NEW n, NEW rc, NEW rn, Cursor(h, q, b, ps, n, FALSE, rc), n < Len(ps) => b + 1 < q[n + 1]
  PROVE  Cursor(h, q, b + 1, ps, n, FALSE, rn)
<1>1. n \in 0 .. Len(ps) /\ Len(ps) \in Nat BY LayoutFacts DEF Cursor
<1>2. ASSUME NEW k \in 1 .. n PROVE q[k] + SizeAt(h, q[k], ps[k]) <= b + 1 + 1
  <2>1. k \in 1 .. Len(ps) BY <1>1
  <2>2. q[k] \in Nat /\ SizeAt(h, q[k], ps[k]) \in Nat BY <2>1, LayoutFacts
  <2>3. q[k] + SizeAt(h, q[k], ps[k]) <= b + 1 BY DEF Cursor
  <2> QED BY <2>2, <2>3
<1> QED BY <1>1, <1>2 DEF Cursor

\* A packet is read to its last byte.
LEMMA ItemDone ==
  ASSUME NEW h, NEW q, NEW ps, NEW clean, Layout(h, q, ps, clean), NEW b \in Nat, NEW n,
         NEW inside, NEW rc, NEW rn, Cursor(h, q, b, ps, n, inside, rc), n < Len(ps),
         b + 1 = q[n + 1] + SizeAt(h, q[n + 1], ps[n + 1]) - 1
  PROVE  Cursor(h, q, b + 1, ps, n + 1, FALSE, rn)
<1>1. n \in Nat /\ Len(ps) \in Nat /\ n + 1 \in 1 .. Len(ps) BY LayoutFacts DEF Cursor
<1>2. q[n + 1] \in Nat /\ SizeAt(h, q[n + 1], ps[n + 1]) \in Nat BY <1>1, LayoutFacts
<1>3. ASSUME NEW k \in 1 .. (n + 1) PROVE q[k] + SizeAt(h, q[k], ps[k]) <= b + 1 + 1
  <2>1. CASE k = n + 1 BY <1>2, <2>1
  <2>2. CASE k # n + 1
    <3>1. k \in 1 .. n /\ k \in 1 .. Len(ps) BY <1>1, <2>2
    <3>2. q[k] \in Nat /\ SizeAt(h, q[k], ps[k]) \in Nat BY <3>1, LayoutFacts
    <3>3. q[k] + SizeAt(h, q[k], ps[k]) <= b + 1 BY <3>1 DEF Cursor
    <3> QED BY <3>2, <3>3
  <2> QED BY <2>1, <2>2
<1>4. n + 1 < Len(ps) => b + 1 < q[n + 1 + 1]
  <2> SUFFICES ASSUME n + 1 < Len(ps) PROVE b + 1 < q[n + 1 + 1] OBVIOUS
  <2>1. n + 1 + 1 \in 1 .. Len(ps) /\ n + 1 < n + 1 + 1 BY <1>1
  <2>2. q[n + 1] + SizeAt(h, q[n + 1], ps[n + 1]) <= q[n + 1 + 1]
    BY <1>1, <2>1 DEF Layout, Ordered
  <2>3. q[n + 1 + 1] \in Nat BY <2>1, LayoutFacts
  <2> QED BY <1>2, <2>2, <2>3
<1>5. n + 1 \in 0 .. Len(ps) BY <1>1
<1> QED BY <1>3, <1>4, <1>5 DEF Cursor

\* $ starts a frame.
LEMMA EnterFrame ==
  ASSUME NEW h, NEW q, NEW ps, NEW clean, Layout(h, q, ps, clean), NEW b \in Nat,
         NEW n, NEW rc \in RecvRec, Between(rc), Cursor(h, q, b, ps, n, FALSE, rc),
         n < Len(ps), b + 1 = q[n + 1], h[b + 1] = DOLLAR
  PROVE  Cursor(h, q, b + 1, ps, n, TRUE, [rc EXCEPT !.state = 1, !.index = 0, !.buf = <<>>])
<1> DEFINE r == [rc EXCEPT !.state = 1, !.index = 0, !.buf = <<>>]
<1>0. n \in 0 .. Len(ps) /\ n \in Nat /\ n + 1 \in 1 .. Len(ps)
  BY LayoutFacts DEF Cursor
<1>1. r.state = 1 /\ r.index = 0 /\ r.buf = <<>> /\ r.received = 0 BY DEF RecvRec, Between
<1>2. ps[n + 1] \in Packet /\ Len(ps[n + 1]) \in Nat /\ q[n + 1] \in Nat BY <1>0, LayoutFacts
<1>3. Held(0) = 0 /\ (b + 1) - q[n + 1] = 0 /\ b + 1 \in q[n + 1] .. (q[n + 1] + Len(ps[n + 1]))
  BY <1>2, SizeAssumption DEF Held
<1> HIDE DEF r
<1>4. InFrame(h, b + 1, q[n + 1], ps[n + 1], r) BY <1>1, <1>3 DEF InFrame
<1>5. ASSUME NEW k \in 1 .. n PROVE q[k] + SizeAt(h, q[k], ps[k]) <= b + 1 + 1
  <2>1. k \in 1 .. Len(ps) BY <1>0
  <2>2. q[k] \in Nat /\ SizeAt(h, q[k], ps[k]) \in Nat BY <2>1, LayoutFacts
  <2>3. q[k] + SizeAt(h, q[k], ps[k]) <= b + 1 BY DEF Cursor
  <2> QED BY <2>2, <2>3
<1> QED BY <1>0, <1>4, <1>5 DEF Cursor, r

\* Inside a frame it is enough to follow InFrame.
LEMMA FrameGoesOn ==
  ASSUME NEW h, NEW q, NEW ps, NEW clean, Layout(h, q, ps, clean), NEW b \in Nat,
         NEW n, NEW rc, NEW rn, Cursor(h, q, b, ps, n, TRUE, rc),
         InFrame(h, b + 1, q[n + 1], ps[n + 1], rn)
  PROVE  Cursor(h, q, b + 1, ps, n, TRUE, rn)
<1>0. n \in 0 .. Len(ps) /\ n \in Nat /\ Len(ps) \in Nat /\ n < Len(ps)
  BY LayoutFacts DEF Cursor
<1>5. ASSUME NEW k \in 1 .. n PROVE q[k] + SizeAt(h, q[k], ps[k]) <= b + 1 + 1
  <2>1. k \in 1 .. Len(ps) BY <1>0
  <2>2. q[k] \in Nat /\ SizeAt(h, q[k], ps[k]) \in Nat BY <2>1, LayoutFacts
  <2>3. q[k] + SizeAt(h, q[k], ps[k]) <= b + 1 BY DEF Cursor
  <2> QED BY <2>2, <2>3
<1> QED BY <1>0, <1>5 DEF Cursor

\* # ends the data, and only # does.
LEMMA HashByte ==
  ASSUME NEW h \in Seq(Byte), NEW s \in Nat, NEW p \in Packet, FrameAt(h, s, p), NEW b \in Nat,
         NEW rc \in RecvRec, InFrame(h, b, s, p, rc), rc.state = 1
  PROVE  /\ h[b + 1] = HASH <=> b = s + Len(p)
         /\ h[b + 1] = HASH =>
              InFrame(h, b + 1, s, p, [rc EXCEPT !.state = 2, !.index = 0,
                                                 !.expected = calculate_checksum(rc.buf)])
<1>0. Len(p) \in Nat BY PacketType
<1>1. /\ b \in s .. (s + Len(p)) /\ rc.index = Held(b - s) /\ Len(rc.buf) = rc.index
      /\ rc.received = 0 /\ h[s] = DOLLAR /\ rc.buf \in Seq(Byte)
      /\ \A i \in 1 .. Len(rc.buf) : rc.buf[i] = h[s + i]
  BY DEF InFrame
<1>2. h[b + 1] = HASH <=> b = s + Len(p)
  <2>1. CASE b = s + Len(p) BY <2>1 DEF FrameAt
  <2>2. CASE b # s + Len(p)
    <3>0. b \in s .. (s + Len(p)) BY <1>1
    <3>1. b + 1 - s \in 1 .. Len(p) /\ s + (b + 1 - s) = b + 1 BY <1>0, <2>2, <3>0
    <3>2. h[s + (b + 1 - s)] # HASH BY <3>1 DEF FrameAt
    <3> QED BY <2>2, <3>1, <3>2
  <2> QED BY <2>1, <2>2
<1>3. ASSUME h[b + 1] = HASH
      PROVE  InFrame(h, b + 1, s, p, [rc EXCEPT !.state = 2, !.index = 0,
                                                !.expected = calculate_checksum(rc.buf)])
  <2> DEFINE r == [rc EXCEPT !.state = 2, !.index = 0, !.expected = calculate_checksum(rc.buf)]
  <2>1. /\ r.state = 2 /\ r.index = 0 /\ r.expected = calculate_checksum(rc.buf)
        /\ r.buf = rc.buf /\ r.received = 0
    BY <1>1 DEF RecvRec
  <2>2. b + 1 = s + Len(p) + 1 + 0 /\ b - s = Len(p) BY <1>0, <1>2, <1>3
  <2> HIDE DEF r
  <2>3. InFrame(h, b + 1, s, p, r) BY <1>1, <2>1, <2>2 DEF InFrame
  <2> QED BY <2>3 DEF r
<1> QED BY <1>2, <1>3

LEMMA AppendFacts ==
  ASSUME NEW S, NEW r \in Seq(S), NEW x \in S
  PROVE  /\ Append(r, x) \in Seq(S) /\ Len(Append(r, x)) = Len(r) + 1 /\ Len(r) \in Nat
         /\ \A i \in 1 .. Len(r) : Append(r, x)[i] = r[i]
         /\ Append(r, x)[Len(r) + 1] = x
OBVIOUS

\* Other bytes are kept as long as they fit.
LEMMA DataByte ==
  ASSUME NEW h \in Seq(Byte), NEW s \in Nat, NEW p \in Packet, FrameAt(h, s, p), NEW b \in Nat,
         b + 1 \in 1 .. Len(h),
         NEW rc \in RecvRec, InFrame(h, b, s, p, rc), rc.state = 1, h[b + 1] # HASH
  PROVE  InFrame(h, b + 1, s, p,
                 IF Fits(rc.index)
                   THEN [rc EXCEPT !.buf = Append(@, h[b + 1]), !.index = @ + 1] ELSE rc)
<1>0. Len(p) \in Nat /\ BufSize \in Nat /\ BufSize >= 1 BY PacketType, SizeAssumption
<1>1. /\ b \in s .. (s + Len(p)) /\ rc.index = Held(b - s) /\ Len(rc.buf) = rc.index
      /\ rc.received = 0 /\ h[s] = DOLLAR /\ rc.buf \in Seq(Byte)
      /\ \A i \in 1 .. Len(rc.buf) : rc.buf[i] = h[s + i]
  BY DEF InFrame
<1>2. b + 1 \in s .. (s + Len(p)) /\ (b + 1) - s = (b - s) + 1 /\ b - s \in Nat
  <2>1. b \in s .. (s + Len(p)) BY <1>1
  <2>2. b # s + Len(p) BY DEF FrameAt
  <2> QED BY <1>0, <2>1, <2>2
<1>3. CASE Fits(rc.index)
  <2> DEFINE r == [rc EXCEPT !.buf = Append(@, h[b + 1]), !.index = @ + 1]
  <2>1. h[b + 1] \in Byte OBVIOUS
  <2>2. /\ r.state = 1 /\ r.index = rc.index + 1 /\ r.buf = Append(rc.buf, h[b + 1])
        /\ r.received = 0
    BY <1>1 DEF RecvRec
  <2>3. rc.index = b - s /\ Held((b + 1) - s) = rc.index + 1
    BY <1>0, <1>1, <1>2, <1>3 DEF Held, Fits
  <2>4. /\ r.buf \in Seq(Byte) /\ Len(r.buf) = Len(rc.buf) + 1
        /\ \A i \in 1 .. Len(rc.buf) : r.buf[i] = rc.buf[i]
        /\ r.buf[Len(rc.buf) + 1] = h[b + 1]
    BY <1>1, <2>1, <2>2, AppendFacts
  <2> HIDE DEF r
  <2>5. ASSUME NEW i \in 1 .. Len(r.buf) PROVE r.buf[i] = h[s + i]
    <3>1. CASE i = Len(rc.buf) + 1
      <4>1. s + i = b + 1 BY <1>1, <1>2, <2>3, <3>1
      <4> QED BY <2>4, <3>1, <4>1
    <3>2. CASE i # Len(rc.buf) + 1
      <4>1. i \in 1 .. Len(rc.buf) BY <1>1, <1>2, <2>3, <2>4, <3>2
      <4> QED BY <1>1, <2>4, <4>1
    <3> QED BY <3>1, <3>2
  <2>6. InFrame(h, b + 1, s, p, r) BY <1>1, <1>2, <2>2, <2>3, <2>4, <2>5 DEF InFrame
  <2> QED BY <1>3, <2>6 DEF r
<1>4. CASE ~Fits(rc.index)
  <2>1. Held((b + 1) - s) = rc.index BY <1>0, <1>1, <1>2, <1>4 DEF Held, Fits
  <2>2. InFrame(h, b + 1, s, p, rc) BY <1>1, <1>2, <2>1 DEF InFrame
  <2> QED BY <1>4, <2>2
<1> QED BY <1>3, <1>4

\* The first digit of the checksum.
LEMMA FirstDigitByte ==
  ASSUME NEW h \in Seq(Byte), NEW s \in Nat, NEW p \in Packet, NEW b \in Nat,
         NEW rc \in RecvRec, InFrame(h, b, s, p, rc), rc.state = 2, rc.index = 0
  PROVE  InFrame(h, b + 1, s, p, [rc EXCEPT !.received = Received(@, h[b + 1]), !.index = 1])
<1> DEFINE r == [rc EXCEPT !.received = Received(@, h[b + 1]), !.index = 1]
<1>0. Len(p) \in Nat BY PacketType
<1>1. /\ b = s + Len(p) + 1 + 0 /\ Len(rc.buf) = Held(Len(p))
      /\ rc.expected = calculate_checksum(rc.buf) /\ rc.received = 0 /\ h[s] = DOLLAR
      /\ rc.buf \in Seq(Byte) /\ \A i \in 1 .. Len(rc.buf) : rc.buf[i] = h[s + i]
  BY DEF InFrame
<1>2. /\ r.state = 2 /\ r.index = 1 /\ r.buf = rc.buf /\ r.expected = rc.expected
      /\ r.received = Received(0, h[b + 1])
  BY <1>1 DEF RecvRec
<1>3. b + 1 = s + Len(p) + 2 /\ b + 1 = s + Len(p) + 1 + 1 BY <1>0, <1>1
<1> HIDE DEF r
<1>4. InFrame(h, b + 1, s, p, r) BY <1>1, <1>2, <1>3 DEF InFrame
<1> QED BY <1>4 DEF r

------------------------------------------------------------------------------
(***************************************************************************)
(* The debugger sends bytes.                                               *)
(***************************************************************************)
Extends(h, g) == /\ h \in Seq(Byte) /\ g \in Seq(Byte) /\ Len(h) <= Len(g)
                 /\ \A i \in 1 .. Len(h) : g[i] = h[i]

LEMMA HeldBound == ASSUME NEW n \in Nat PROVE Held(n) \in Nat /\ Held(n) <= n /\ Held(n) < BufSize
BY SizeAssumption DEF Held

LEMMA CarryFrame ==
  ASSUME NEW h, NEW g, Extends(h, g), NEW s \in 1 .. Len(h), NEW p \in Packet
  PROVE  /\ g[s] = h[s] /\ SizeAt(g, s, p) = SizeAt(h, s, p)
         /\ FrameAt(h, s, p) => /\ FrameAt(g, s, p)
                                /\ CleanAt(h, s, p) => CleanAt(g, s, p)
                                /\ \A b, r : InFrame(h, b, s, p, r) => InFrame(g, b, s, p, r)
<1>0. Len(p) \in Nat /\ Len(h) \in Nat /\ Len(g) \in Nat /\ s \in Nat /\ s >= 1
  BY PacketType DEF Extends
<1>1. g[s] = h[s] BY DEF Extends
<1>2. SizeAt(g, s, p) = SizeAt(h, s, p) BY <1>1 DEF SizeAt
<1>3. ASSUME FrameAt(h, s, p)
      PROVE  /\ FrameAt(g, s, p)
             /\ CleanAt(h, s, p) => CleanAt(g, s, p)
             /\ \A b, r : InFrame(h, b, s, p, r) => InFrame(g, b, s, p, r)
  <2>1. s + Len(p) + 3 <= Len(h) BY <1>3 DEF FrameAt
  <2>2. \A y \in 1 .. (Len(p) + 3) : g[s + y] = h[s + y]
    <3> SUFFICES ASSUME NEW y \in 1 .. (Len(p) + 3) PROVE g[s + y] = h[s + y] OBVIOUS
    <3>1. s + y \in 1 .. Len(h) BY <1>0, <2>1
    <3> QED BY <3>1 DEF Extends
  <2>3. CleanAt(h, s, p) => CleanAt(g, s, p) BY <2>2 DEF CleanAt
  <2>4. FrameAt(g, s, p)
    <3>1. s + Len(p) + 3 <= Len(g)
      <4>1. Len(h) <= Len(g) BY DEF Extends
      <4> QED BY <1>0, <2>1, <4>1
    <3>2. g[s + Len(p) + 1] = HASH
      <4>1. Len(p) + 1 \in 1 .. (Len(p) + 3) /\ s + (Len(p) + 1) = s + Len(p) + 1 BY <1>0
      <4>2. g[s + (Len(p) + 1)] = h[s + (Len(p) + 1)] BY <2>2, <4>1
      <4>3. h[s + Len(p) + 1] = HASH BY <1>3 DEF FrameAt
      <4> QED BY <4>1, <4>2, <4>3
    <3>3. ASSUME NEW i \in 1 .. Len(p) PROVE g[s + i] # HASH
      <4>1. i \in 1 .. (Len(p) + 3) BY <1>0
      <4>2. h[s + i] # HASH BY <1>3 DEF FrameAt
      <4> QED BY <2>2, <4>1, <4>2
    <3>4. PICK x \in 1 .. (Len(p) + 3) :
            \A y \in 1 .. (Len(p) + 3) : y # x => h[s + y] = Framed(p)[y + 1]
      BY <1>3 DEF FrameAt
    <3>5. \A y \in 1 .. (Len(p) + 3) : y # x => g[s + y] = Framed(p)[y + 1] BY <2>2, <3>4
    <3>6. h[s] = DOLLAR BY <1>3 DEF FrameAt
    <3> QED BY <1>1, <3>1, <3>2, <3>3, <3>5, <3>6 DEF FrameAt
  <2>5. ASSUME NEW b, NEW r, InFrame(h, b, s, p, r) PROVE InFrame(g, b, s, p, r)
    <3>1. Len(r.buf) \in Nat /\ Len(r.buf) <= Len(p)
      <4>1. CASE r.state = 1
        <5>1. b \in s .. (s + Len(p)) /\ Len(r.buf) = Held(b - s) BY <2>5, <4>1 DEF InFrame
        <5>2. b - s \in Nat /\ b - s <= Len(p) BY <1>0, <5>1
        <5>3. Held(b - s) \in Nat /\ Held(b - s) <= b - s BY <5>2, HeldBound
        <5> QED BY <1>0, <5>1, <5>2, <5>3
      <4>2. CASE r.state = 2
        <5>1. Len(r.buf) = Held(Len(p)) BY <2>5, <4>2 DEF InFrame
        <5> QED BY <1>0, <5>1, HeldBound
      <4> QED BY <2>5, <4>1, <4>2 DEF InFrame
    <3>2. ASSUME NEW i \in 1 .. Len(r.buf) PROVE r.buf[i] = g[s + i]
      <4>1. i \in 1 .. (Len(p) + 3) BY <1>0, <3>1
      <4>2. r.buf[i] = h[s + i] BY <2>5 DEF InFrame
      <4> QED BY <2>2, <4>1, <4>2
    <3>3. g[s + Len(p) + 2] = h[s + Len(p) + 2]
      <4>1. Len(p) + 2 \in 1 .. (Len(p) + 3) /\ s + (Len(p) + 2) = s + Len(p) + 2 BY <1>0
      <4>2. g[s + (Len(p) + 2)] = h[s + (Len(p) + 2)] BY <2>2, <4>1
      <4> QED BY <4>1, <4>2
    <3> QED BY <1>1, <2>5, <3>2, <3>3 DEF InFrame
  <2> QED BY <2>3, <2>4, <2>5
<1> QED BY <1>1, <1>2, <1>3

\* More bytes behind the ones that were there.
LEMMA JoinExtends ==
  ASSUME NEW h \in Seq(Byte), NEW f \in Seq(Byte)
  PROVE  /\ Extends(h, h \o f) /\ Len(h \o f) = Len(h) + Len(f) /\ Len(h) \in Nat
         /\ Len(f) \in Nat /\ \A i \in 1 .. Len(f) : (h \o f)[Len(h) + i] = f[i]
<1>1. /\ h \o f \in Seq(Byte) /\ Len(h \o f) = Len(h) + Len(f)
      /\ \A i \in 1 .. Len(h) : (h \o f)[i] = h[i]
      /\ \A i \in 1 .. Len(f) : (h \o f)[Len(h) + i] = f[i]
  BY Joined
<1>2. Len(h) \in Nat /\ Len(f) \in Nat OBVIOUS
<1> QED BY <1>1, <1>2 DEF Extends

LEMMA RestGrows ==
  ASSUME NEW h \in Seq(Byte), NEW b, NEW r, Rest(h, b, r), NEW f \in Seq(Byte)
  PROVE  Rest(h \o f, b, r \o f)
<1>1. b \in 0 .. Len(h) /\ r \in Seq(Byte) /\ Len(r) = Len(h) - b
      /\ \A i \in 1 .. Len(r) : r[i] = h[b + i]
  BY DEF Rest
<1>2. /\ h \o f \in Seq(Byte) /\ Len(h \o f) = Len(h) + Len(f)
      /\ \A i \in 1 .. Len(h) : (h \o f)[i] = h[i]
      /\ \A i \in 1 .. Len(f) : (h \o f)[Len(h) + i] = f[i]
  BY Joined
<1>3. /\ r \o f \in Seq(Byte) /\ Len(r \o f) = Len(r) + Len(f)
      /\ \A i \in 1 .. Len(r) : (r \o f)[i] = r[i]
      /\ \A i \in 1 .. Len(f) : (r \o f)[Len(r) + i] = f[i]
  <2>1. r \in Seq(Byte) BY <1>1
  <2> QED BY <2>1, Joined
<1>4. Len(h) \in Nat /\ Len(f) \in Nat /\ b \in Nat /\ b <= Len(h) /\ Len(r) \in Nat BY <1>1
<1>5. b \in 0 .. Len(h \o f) /\ Len(r \o f) = Len(h \o f) - b BY <1>1, <1>2, <1>3, <1>4
<1>6. ASSUME NEW i \in 1 .. Len(r \o f) PROVE (r \o f)[i] = (h \o f)[b + i]
  <2>1. CASE i <= Len(r)
    <3>1. i \in 1 .. Len(r) /\ b + i \in 1 .. Len(h) BY <1>1, <1>4, <2>1
    <3> QED BY <1>1, <1>2, <1>3, <3>1
  <2>2. CASE i > Len(r)
    <3>1. i - Len(r) \in 1 .. Len(f) /\ Len(r) + (i - Len(r)) = i
          /\ Len(h) + (i - Len(r)) = b + i
      BY <1>1, <1>3, <1>4, <2>2
    <3>2. (r \o f)[Len(r) + (i - Len(r))] = f[i - Len(r)] BY <1>3, <3>1
    <3>3. (h \o f)[Len(h) + (i - Len(r))] = f[i - Len(r)] BY <1>2, <3>1
    <3> QED BY <3>1, <3>2, <3>3
  <2>3. i \in Nat /\ Len(r) \in Nat BY <1>4
  <2>4. i <= Len(r) \/ i > Len(r) BY <2>3
  <2> QED BY <2>1, <2>2, <2>4
<1> QED BY <1>3, <1>5, <1>6 DEF Rest

\* Every packet lies within the bytes that were sent.
LEMMA ItemEnds ==
  ASSUME NEW h, NEW q, NEW ps, NEW clean, Layout(h, q, ps, clean), NEW k \in 1 .. Len(ps)
  PROVE  /\ q[k] \in 1 .. Len(h) /\ q[k] + SizeAt(h, q[k], ps[k]) <= Len(h) + 1
         /\ h[q[k]] = DOLLAR => FrameAt(h, q[k], ps[k]) /\ (clean => CleanAt(h, q[k], ps[k]))
<1>1. q[k] \in 1 .. Len(h) BY DEF Layout, Starts
<1>2. Len(h) \in Nat /\ Len(ps[k]) \in Nat BY LayoutFacts
<1>3. CASE h[q[k]] = CTRLC
  <2>1. SizeAt(h, q[k], ps[k]) = 1 /\ h[q[k]] # DOLLAR BY <1>3 DEF SizeAt, CTRLC, DOLLAR
  <2> QED BY <1>1, <1>2, <2>1
<1>4. CASE FrameAt(h, q[k], ps[k]) /\ (clean => CleanAt(h, q[k], ps[k]))
  <2>1. SizeAt(h, q[k], ps[k]) = Len(ps[k]) + 4 BY <1>4 DEF SizeAt, FrameAt
  <2>2. q[k] + Len(ps[k]) + 3 <= Len(h) BY <1>4 DEF FrameAt
  <2>3. q[k] + (Len(ps[k]) + 4) <= Len(h) + 1 BY <1>1, <1>2, <2>2
  <2> QED BY <1>1, <1>4, <2>1, <2>3
<1> QED BY <1>3, <1>4 DEF Layout, Kinds

\* A frame at the end of the stream.
LEMMA FrameShifts ==
  ASSUME NEW h \in Seq(Byte), NEW f \in Seq(Byte), NEW p \in Packet, FrameAt(f, 1, p)
  PROVE  /\ FrameAt(h \o f, Len(h) + 1, p)
         /\ CleanAt(f, 1, p) => CleanAt(h \o f, Len(h) + 1, p)
<1> DEFINE g == h \o f
           s == Len(h) + 1
<1>1. /\ Len(g) = Len(h) + Len(f) /\ Len(h) \in Nat /\ Len(f) \in Nat
      /\ \A i \in 1 .. Len(f) : g[Len(h) + i] = f[i]
  BY JoinExtends
<1>2. Len(p) \in Nat BY PacketType
<1>3. 1 + Len(p) + 3 <= Len(f) BY DEF FrameAt
<1> HIDE DEF g
<1>4. ASSUME NEW y \in 0 .. (Len(p) + 3) PROVE g[s + y] = f[1 + y]
  <2>1. 1 + y \in 1 .. Len(f) /\ Len(h) + (1 + y) = s + y BY <1>1, <1>2, <1>3
  <2> QED BY <1>1, <2>1
<1>5. s + Len(p) + 3 <= Len(g) BY <1>1, <1>2, <1>3
<1>6. g[s] = DOLLAR
  <2>1. 0 \in 0 .. (Len(p) + 3) /\ s + 0 = s /\ 1 + 0 = 1 BY <1>1, <1>2
  <2>2. g[s + 0] = f[1 + 0] BY <1>4, <2>1
  <2>3. f[1] = DOLLAR BY DEF FrameAt
  <2> QED BY <2>1, <2>2, <2>3
<1>7. g[s + Len(p) + 1] = HASH
  <2>1. Len(p) + 1 \in 0 .. (Len(p) + 3) /\ s + (Len(p) + 1) = s + Len(p) + 1
        /\ 1 + (Len(p) + 1) = 1 + Len(p) + 1
    BY <1>1, <1>2
  <2>2. g[s + (Len(p) + 1)] = f[1 + (Len(p) + 1)] BY <1>4, <2>1
  <2>3. f[1 + Len(p) + 1] = HASH BY DEF FrameAt
  <2> QED BY <2>1, <2>2, <2>3
<1>8. ASSUME NEW i \in 1 .. Len(p) PROVE g[s + i] # HASH
  <2>1. i \in 0 .. (Len(p) + 3) BY <1>2
  <2>2. f[1 + i] # HASH BY DEF FrameAt
  <2> QED BY <1>4, <2>1, <2>2
<1>9. \A y \in 1 .. (Len(p) + 3) : g[s + y] = f[1 + y] BY <1>2, <1>4
<1>10. PICK x \in 1 .. (Len(p) + 3) :
         \A y \in 1 .. (Len(p) + 3) : y # x => f[1 + y] = Framed(p)[y + 1]
  BY DEF FrameAt
<1>11. \A y \in 1 .. (Len(p) + 3) : y # x => g[s + y] = Framed(p)[y + 1] BY <1>9, <1>10
<1>12. FrameAt(g, s, p) BY <1>5, <1>6, <1>7, <1>8, <1>11 DEF FrameAt
<1>13. CleanAt(f, 1, p) => CleanAt(g, s, p) BY <1>9 DEF CleanAt
<1> QED BY <1>12, <1>13 DEF g

\* A packet is sent: it starts behind the last byte.
Placed(q, n, at) == [k \in 1 .. (n + 1) |-> IF k <= n THEN q[k] ELSE at]

Unit(f, p, clean) ==
  \/ f = Intr /\ p = Intr
  \/ FrameAt(f, 1, p) /\ Len(f) = Len(p) + 4 /\ (clean => CleanAt(f, 1, p))

LEMMA LayoutGrows ==
  ASSUME NEW h, NEW q, NEW ps, NEW clean, Layout(h, q, ps, clean), NEW f \in Seq(Byte),
         NEW p \in Packet, NEW still, still => clean, Unit(f, p, still)
  PROVE  Layout(h \o f, Placed(q, Len(ps), Len(h) + 1), Append(ps, p), still)
<1> DEFINE n == Len(ps)
           at == Len(h) + 1
           g == h \o f
           z == Placed(q, n, at)
           ss == Append(ps, p)
<1>0. h \in Seq(Byte) /\ ps \in Seq(Packet) /\ q \in [1 .. n -> 1 .. Len(h)]
  BY DEF Layout, Starts
<1>1. /\ Extends(h, g) /\ Len(g) = Len(h) + Len(f) /\ Len(h) \in Nat /\ Len(f) \in Nat
      /\ \A i \in 1 .. Len(f) : g[Len(h) + i] = f[i]
  <2>1. h \in Seq(Byte) BY <1>0
  <2> QED BY <2>1, JoinExtends
<1>2. /\ ss \in Seq(Packet) /\ Len(ss) = n + 1 /\ n \in Nat
      /\ \A i \in 1 .. n : ss[i] = ps[i]
      /\ ss[n + 1] = p
  <2>1. ps \in Seq(Packet) BY <1>0
  <2> QED BY <2>1, AppendFacts
<1>3. Len(p) \in Nat BY PacketType
<1>4. Len(f) >= 1 /\ g[at] = f[1] /\ Len(f) = SizeAt(g, at, p)
  <2>1. Len(f) >= 1 BY <1>3 DEF Unit, Intr
  <2>2. g[at] = f[1] BY <1>1, <2>1
  <2>3. Len(f) = SizeAt(g, at, p)
    <3>1. CASE f = Intr BY <2>2, <3>1 DEF SizeAt, Intr, CTRLC, DOLLAR
    <3>2. CASE FrameAt(f, 1, p) /\ Len(f) = Len(p) + 4 BY <2>2, <3>2 DEF SizeAt, FrameAt
    <3> QED BY <3>1, <3>2 DEF Unit
  <2> QED BY <2>1, <2>2, <2>3
<1> HIDE DEF g, ss
<1>5. z \in [1 .. (n + 1) -> Nat] /\ z[n + 1] = at /\ \A k \in 1 .. n : z[k] = q[k]
  <2>1. \A k \in 1 .. n : q[k] \in Nat BY <1>0, <1>1
  <2>2. at \in Nat BY <1>1
  <2>3. \A k \in 1 .. (n + 1) : (IF k <= n THEN q[k] ELSE at) \in Nat
    <3> SUFFICES ASSUME NEW k \in 1 .. (n + 1), k <= n PROVE q[k] \in Nat BY <2>2
    <3>1. k \in 1 .. n BY <1>2
    <3> QED BY <2>1, <3>1
  <2>4. z \in [1 .. (n + 1) -> Nat] BY <2>3 DEF Placed
  <2>5. n + 1 \in 1 .. (n + 1) /\ ~(n + 1 <= n) /\ \A k \in 1 .. n : k \in 1 .. (n + 1) /\ k <= n
    BY <1>2
  <2> QED BY <2>4, <2>5 DEF Placed
<1> HIDE DEF z
<1>6. ASSUME NEW k \in 1 .. n
      PROVE  /\ ss[k] = ps[k] /\ z[k] = q[k] /\ q[k] \in 1 .. Len(h) /\ ps[k] \in Packet
             /\ g[q[k]] = h[q[k]] /\ SizeAt(g, q[k], ps[k]) = SizeAt(h, q[k], ps[k])
             /\ q[k] + SizeAt(h, q[k], ps[k]) <= at
             /\ FrameAt(h, q[k], ps[k]) => FrameAt(g, q[k], ps[k])
                                           /\ (CleanAt(h, q[k], ps[k]) => CleanAt(g, q[k], ps[k]))
  <2>1. ss[k] = ps[k] /\ z[k] = q[k] BY <1>2, <1>5
  <2>2. q[k] \in 1 .. Len(h) /\ q[k] + SizeAt(h, q[k], ps[k]) <= at BY ItemEnds
  <2>3. ps[k] \in Packet BY LayoutFacts
  <2>4. /\ g[q[k]] = h[q[k]] /\ SizeAt(g, q[k], ps[k]) = SizeAt(h, q[k], ps[k])
        /\ FrameAt(h, q[k], ps[k]) => FrameAt(g, q[k], ps[k])
                                      /\ (CleanAt(h, q[k], ps[k]) => CleanAt(g, q[k], ps[k]))
    <3>1. Extends(h, g) BY <1>1
    <3> QED BY <2>2, <2>3, <3>1, CarryFrame
  <2> QED BY <2>1, <2>2, <2>3, <2>4
<1>7. \A k \in 1 .. (n + 1) : k = n + 1 \/ k \in 1 .. n BY <1>2
<1>8. Starts(g, z, ss)
  <2>1. ASSUME NEW k \in 1 .. (n + 1) PROVE z[k] \in 1 .. Len(g)
    <3>1. CASE k = n + 1 BY <1>1, <1>4, <1>5, <3>1
    <3>2. CASE k \in 1 .. n
      <4>1. z[k] = q[k] /\ q[k] \in 1 .. Len(h) BY <1>6, <3>2
      <4> QED BY <1>1, <4>1
    <3> QED BY <1>7, <3>1, <3>2
  <2>2. z \in [1 .. (n + 1) -> 1 .. Len(g)] BY <1>5, <2>1
  <2>3. g \in Seq(Byte) BY <1>1 DEF Extends
  <2> QED BY <1>2, <2>2, <2>3 DEF Starts
<1>9. Kinds(g, z, ss, still)
  <2> SUFFICES ASSUME NEW k \in 1 .. (n + 1)
               PROVE  \/ g[z[k]] = CTRLC /\ ss[k] = Intr
                      \/ FrameAt(g, z[k], ss[k]) /\ (still => CleanAt(g, z[k], ss[k]))
    BY <1>2 DEF Kinds
  <2>1. CASE k = n + 1
    <3>1. z[k] = at /\ ss[k] = p BY <1>2, <1>5, <2>1
    <3>2. CASE f = Intr /\ p = Intr BY <1>4, <3>1, <3>2 DEF Intr
    <3>3. CASE FrameAt(f, 1, p) /\ (still => CleanAt(f, 1, p))
      <4>1. h \in Seq(Byte) /\ FrameAt(f, 1, p) BY <1>0, <3>3
      <4>2. FrameAt(g, at, p) /\ (CleanAt(f, 1, p) => CleanAt(g, at, p))
        BY <4>1, FrameShifts DEF g
      <4> QED BY <3>1, <3>3, <4>2
    <3> QED BY <3>2, <3>3 DEF Unit
  <2>2. CASE k \in 1 .. n
    <3>1. \/ h[q[k]] = CTRLC /\ ps[k] = Intr
          \/ FrameAt(h, q[k], ps[k]) /\ (clean => CleanAt(h, q[k], ps[k]))
      BY <2>2 DEF Layout, Kinds
    <3> QED BY <1>6, <2>2, <3>1
  <2> QED BY <1>7, <2>1, <2>2
<1>10. Ordered(g, z, ss)
  <2> SUFFICES ASSUME NEW j \in 1 .. (n + 1), NEW k \in 1 .. (n + 1), j < k
               PROVE  z[j] + SizeAt(g, z[j], ss[j]) <= z[k]
    BY <1>2 DEF Ordered
  <2>1. j \in 1 .. n BY <1>2
  <2>2. z[j] + SizeAt(g, z[j], ss[j]) = q[j] + SizeAt(h, q[j], ps[j])
        /\ q[j] + SizeAt(h, q[j], ps[j]) <= at
    BY <1>6, <2>1
  <2>3. CASE k = n + 1 BY <1>5, <2>2, <2>3
  <2>4. CASE k \in 1 .. n
    <3>1. q[j] + SizeAt(h, q[j], ps[j]) <= q[k] BY <2>1, <2>4 DEF Layout, Ordered
    <3>2. z[k] = q[k] BY <1>6, <2>4
    <3> QED BY <2>2, <3>1, <3>2
  <2> QED BY <1>7, <2>3, <2>4
<1>11. Gaps(g, z, ss)
  <2> SUFFICES ASSUME NEW a \in 1 .. Len(g)
               PROVE  \/ g[a] \in {PLUS, MINUS}
                      \/ \E k \in 1 .. (n + 1) : z[k] <= a /\ a < z[k] + SizeAt(g, z[k], ss[k])
    BY <1>2 DEF Gaps
  <2>1. CASE a <= Len(h)
    <3>1. a \in 1 .. Len(h) BY <1>1, <2>1
    <3>2. g[a] = h[a] BY <1>1, <3>1 DEF Extends
    <3>3. CASE h[a] \in {PLUS, MINUS} BY <3>2, <3>3
    <3>4. CASE \E k \in 1 .. n : q[k] <= a /\ a < q[k] + SizeAt(h, q[k], ps[k])
      <4>1. PICK k \in 1 .. n : q[k] <= a /\ a < q[k] + SizeAt(h, q[k], ps[k]) BY <3>4
      <4>2. z[k] <= a /\ a < z[k] + SizeAt(g, z[k], ss[k]) BY <1>6, <4>1
      <4>3. k \in 1 .. (n + 1) BY <1>2
      <4> QED BY <4>2, <4>3
    <3> QED BY <3>1, <3>3, <3>4 DEF Layout, Gaps
  <2>2. CASE a > Len(h)
    <3>1. at <= a /\ a < at + Len(f) BY <1>1, <2>2
    <3>2. n + 1 \in 1 .. (n + 1) BY <1>2
    <3> QED BY <1>2, <1>4, <1>5, <3>1, <3>2
  <2>3. a \in Nat BY <1>1
  <2>4. a <= Len(h) \/ a > Len(h) BY <1>1, <2>3
  <2> QED BY <2>1, <2>2, <2>4
<1> QED BY <1>8, <1>9, <1>10, <1>11 DEF Layout, g, z, ss

\* An acknowledgement of the debugger.
LEMMA LayoutPads ==
  ASSUME NEW h, NEW q, NEW ps, NEW clean, Layout(h, q, ps, clean), NEW c \in {PLUS, MINUS}
  PROVE  Layout(h \o <<c>>, q, ps, clean)
<1> DEFINE g == h \o <<c>>
<1>0. h \in Seq(Byte) /\ ps \in Seq(Packet) /\ q \in [1 .. Len(ps) -> 1 .. Len(h)]
  BY DEF Layout, Starts
<1>1. <<c>> \in Seq(Byte) /\ Len(<<c>>) = 1 BY DEF PLUS, MINUS, Byte
<1>2. /\ Extends(h, g) /\ Len(g) = Len(h) + 1 /\ Len(h) \in Nat /\ g[Len(h) + 1] = c
  <2>1. h \in Seq(Byte) /\ <<c>> \in Seq(Byte) BY <1>0, <1>1
  <2>2. /\ Extends(h, g) /\ Len(g) = Len(h) + Len(<<c>>) /\ Len(h) \in Nat
        /\ \A i \in 1 .. Len(<<c>>) : g[Len(h) + i] = <<c>>[i]
    BY <2>1, JoinExtends
  <2> HIDE DEF g
  <2> QED BY <1>1, <2>2
<1> HIDE DEF g
<1>3. ASSUME NEW k \in 1 .. Len(ps)
      PROVE  /\ q[k] \in 1 .. Len(h) /\ g[q[k]] = h[q[k]]
             /\ SizeAt(g, q[k], ps[k]) = SizeAt(h, q[k], ps[k])
             /\ FrameAt(h, q[k], ps[k]) => FrameAt(g, q[k], ps[k])
                                           /\ (CleanAt(h, q[k], ps[k]) => CleanAt(g, q[k], ps[k]))
  <2>1. Extends(h, g) /\ ps[k] \in Packet BY <1>2, LayoutFacts
  <2>2. q[k] \in 1 .. Len(h) BY ItemEnds
  <2> QED BY <2>1, <2>2, CarryFrame
<1>4. Starts(g, q, ps)
  <2>1. \A k \in 1 .. Len(ps) : q[k] \in 1 .. Len(g) BY <1>0, <1>2
  <2>2. q \in [1 .. Len(ps) -> 1 .. Len(g)] BY <1>0, <2>1
  <2>3. g \in Seq(Byte) BY <1>2 DEF Extends
  <2> QED BY <1>0, <2>2, <2>3 DEF Starts
<1>5. Kinds(g, q, ps, clean) BY <1>3 DEF Layout, Kinds
<1>6. Ordered(g, q, ps) BY <1>3 DEF Layout, Ordered
<1>7. Gaps(g, q, ps)
  <2> SUFFICES ASSUME NEW a \in 1 .. Len(g)
               PROVE  \/ g[a] \in {PLUS, MINUS}
                      \/ \E k \in 1 .. Len(ps) : q[k] <= a /\ a < q[k] + SizeAt(g, q[k], ps[k])
    BY DEF Gaps
  <2>1. CASE a = Len(h) + 1 BY <1>2, <2>1
  <2>2. CASE a # Len(h) + 1
    <3>1. a \in 1 .. Len(h) BY <1>2, <2>2
    <3>2. g[a] = h[a] BY <1>2, <3>1 DEF Extends
    <3>3. \/ h[a] \in {PLUS, MINUS}
          \/ \E k \in 1 .. Len(ps) : q[k] <= a /\ a < q[k] + SizeAt(h, q[k], ps[k])
      BY <3>1 DEF Layout, Gaps
    <3> QED BY <1>3, <3>2, <3>3
  <2> QED BY <2>1, <2>2
<1> QED BY <1>4, <1>5, <1>6, <1>7 DEF Layout, g

\* The stub does not notice what comes later.
LEMMA CursorGrows ==
  ASSUME NEW h, NEW q, NEW ps, NEW clean, Layout(h, q, ps, clean), NEW g, Extends(h, g),
         NEW b \in 0 .. Len(h), NEW n, NEW inside, NEW r, Cursor(h, q, b, ps, n, inside, r),
         NEW p \in Packet
  PROVE  /\ Cursor(g, q, b, ps, n, inside, r)
         /\ Cursor(g, Placed(q, Len(ps), Len(h) + 1), b, Append(ps, p), n, inside, r)
<1> DEFINE at == Len(h) + 1
           z == Placed(q, Len(ps), at)
           ss == Append(ps, p)
<1>0. h \in Seq(Byte) /\ ps \in Seq(Packet) /\ Len(h) \in Nat /\ Len(ps) \in Nat
  BY DEF Layout, Starts
<1>1. /\ Len(ss) = Len(ps) + 1 /\ \A i \in 1 .. Len(ps) : ss[i] = ps[i]
  <2>1. ps \in Seq(Packet) BY <1>0
  <2> QED BY <2>1, AppendFacts
<1>2. z[Len(ps) + 1] = at /\ \A k \in 1 .. Len(ps) : z[k] = q[k] BY <1>0 DEF Placed
<1> HIDE DEF z, ss
<1>3. ASSUME NEW k \in 1 .. Len(ps)
      PROVE  /\ q[k] \in 1 .. Len(h) /\ ps[k] \in Packet
             /\ SizeAt(g, q[k], ps[k]) = SizeAt(h, q[k], ps[k])
             /\ InFrame(h, b, q[k], ps[k], r) => InFrame(g, b, q[k], ps[k], r)
  <2>1. Extends(h, g) /\ ps[k] \in Packet BY LayoutFacts
  <2>2. q[k] \in 1 .. Len(h) /\ (h[q[k]] = DOLLAR => FrameAt(h, q[k], ps[k])) BY ItemEnds
  <2>3. /\ SizeAt(g, q[k], ps[k]) = SizeAt(h, q[k], ps[k])
        /\ FrameAt(h, q[k], ps[k]) =>
             \A bb, rr : InFrame(h, bb, q[k], ps[k], rr) => InFrame(g, bb, q[k], ps[k], rr)
    BY <2>1, <2>2, CarryFrame
  <2>4. InFrame(h, b, q[k], ps[k], r) => h[q[k]] = DOLLAR BY DEF InFrame
  <2> QED BY <2>1, <2>2, <2>3, <2>4
<1>4. n \in 0 .. Len(ps) /\ n \in Nat BY <1>0 DEF Cursor
<1>5. n < Len(ps) => n + 1 \in 1 .. Len(ps) BY <1>0, <1>4
<1>6. ASSUME NEW k \in 1 .. n
      PROVE  /\ q[k] + SizeAt(g, q[k], ps[k]) <= b + 1 /\ z[k] + SizeAt(g, z[k], ss[k]) <= b + 1
  <2>1. k \in 1 .. Len(ps) BY <1>0, <1>4
  <2>2. q[k] + SizeAt(h, q[k], ps[k]) <= b + 1 BY DEF Cursor
  <2>3. SizeAt(g, q[k], ps[k]) = SizeAt(h, q[k], ps[k]) BY <1>3, <2>1
  <2>4. z[k] = q[k] /\ ss[k] = ps[k] BY <1>1, <1>2, <2>1
  <2> QED BY <2>2, <2>3, <2>4
<1>7. ASSUME inside
      PROVE  /\ n < Len(ps) /\ InFrame(g, b, q[n + 1], ps[n + 1], r)
             /\ n < Len(ss) /\ InFrame(g, b, z[n + 1], ss[n + 1], r)
  <2>1. n < Len(ps) /\ InFrame(h, b, q[n + 1], ps[n + 1], r) BY <1>7 DEF Cursor
  <2>2. n + 1 \in 1 .. Len(ps) BY <1>5, <2>1
  <2>3. z[n + 1] = q[n + 1] /\ ss[n + 1] = ps[n + 1] BY <1>1, <1>2, <2>2
  <2>4. InFrame(g, b, q[n + 1], ps[n + 1], r) BY <1>3, <2>1, <2>2
  <2>5. n < Len(ss) BY <1>0, <1>1, <1>4, <2>1
  <2> QED BY <2>1, <2>3, <2>4, <2>5
<1>8. ASSUME ~inside
      PROVE  (n < Len(ps) => b < q[n + 1]) /\ (n < Len(ss) => b < z[n + 1])
  <2>1. n < Len(ps) => b < q[n + 1] BY <1>8 DEF Cursor
  <2>2. CASE n < Len(ps)
    <3>1. z[n + 1] = q[n + 1] BY <1>2, <1>5, <2>2
    <3> QED BY <2>1, <2>2, <3>1
  <2>3. CASE n = Len(ps) BY <1>0, <1>2, <2>1, <2>3
  <2> QED BY <1>0, <1>4, <2>2, <2>3
<1>9. n \in 0 .. Len(ss) BY <1>0, <1>1, <1>4
<1>10. Cursor(g, q, b, ps, n, inside, r) BY <1>4, <1>6, <1>7, <1>8 DEF Cursor
<1>11. Cursor(g, z, b, ss, n, inside, r) BY <1>6, <1>7, <1>8, <1>9 DEF Cursor
<1> QED BY <1>10, <1>11 DEF z, ss

\* What the debugger sends is a unit of the stream, also with a damaged byte.
LEMMA SentUnits ==
  ASSUME NEW p \in Packet
  PROVE  /\ Framed(p) \in Seq(Byte) /\ Len(Framed(p)) \in Nat /\ Unit(Framed(p), p, TRUE)
         /\ \A i \in 2 .. Len(Framed(p)), b \in Noise :
              Framed(p)[i] # HASH /\ b # HASH => /\ [Framed(p) EXCEPT ![i] = b] \in Seq(Byte)
                                                 /\ Unit([Framed(p) EXCEPT ![i] = b], p, FALSE)
<1> DEFINE f == Framed(p)
           n == Len(p)
<1>1. p \in Seq(Byte) /\ n \in Nat /\ \A i \in 1 .. n : p[i] # HASH BY PacketType
<1>2. /\ f \in Seq(Byte) /\ Len(f) = n + 4 /\ f[1] = DOLLAR
      /\ \A i \in 1 .. n : f[i + 1] = p[i]
      /\ f[n + 2] = HASH
  BY <1>1, FrameFacts
<1> HIDE DEF f, n
<1>3. 1 + n + 3 = n + 4 /\ 1 + n + 1 = n + 2 BY <1>1
<1>4. \A i \in 1 .. n : f[1 + i] # HASH
  <2> SUFFICES ASSUME NEW i \in 1 .. n PROVE f[1 + i] # HASH OBVIOUS
  <2>1. 1 + i = i + 1 BY <1>1
  <2> QED BY <1>1, <1>2, <2>1
<1>5. \A y \in 1 .. (n + 3) : f[1 + y] = f[y + 1]
  <2> SUFFICES ASSUME NEW y \in 1 .. (n + 3) PROVE f[1 + y] = f[y + 1] OBVIOUS
  <2>1. 1 + y = y + 1 BY <1>1
  <2> QED BY <2>1
<1>6. 1 \in 1 .. (n + 3) BY <1>1
<1>7. FrameAt(f, 1, p) /\ CleanAt(f, 1, p)
  BY <1>1, <1>2, <1>3, <1>4, <1>5, <1>6 DEF FrameAt, CleanAt, f, n
<1>8. Unit(f, p, TRUE) BY <1>2, <1>7 DEF Unit, n
<1>9. ASSUME NEW i \in 2 .. Len(f), NEW b \in Noise, f[i] # HASH, b # HASH
      PROVE  [f EXCEPT ![i] = b] \in Seq(Byte) /\ Unit([f EXCEPT ![i] = b], p, FALSE)
  <2> DEFINE g == [f EXCEPT ![i] = b]
  <2>1. b \in Byte /\ b # HASH BY <1>9, NoiseAssumption
  <2>2. i \in Nat /\ i >= 2 /\ i <= n + 4 BY <1>1, <1>2
  <2>3. g \in Seq(Byte) /\ Len(g) = n + 4 BY <1>2, <2>1
  <2>4. \A y \in 1 .. (n + 4) : g[y] = IF y = i THEN b ELSE f[y]
    <3>1. DOMAIN f = 1 .. (n + 4) BY <1>2
    <3> QED BY <3>1
  <2> HIDE DEF g
  <2>5. 1 \in 1 .. (n + 4) /\ 1 # i /\ n + 2 \in 1 .. (n + 4) BY <1>1, <2>2
  <2>6. i # n + 2 BY <1>2, <1>9
  <2>7. g[1] = DOLLAR /\ g[n + 2] = HASH BY <1>2, <2>4, <2>5, <2>6
  <2>8. \A y \in 1 .. n : g[1 + y] # HASH
    <3> SUFFICES ASSUME NEW y \in 1 .. n PROVE g[1 + y] # HASH OBVIOUS
    <3>1. 1 + y \in 1 .. (n + 4) BY <1>1
    <3>2. f[1 + y] # HASH BY <1>4
    <3> QED BY <2>1, <2>4, <3>1, <3>2
  <2>9. i - 1 \in 1 .. (n + 3) BY <1>1, <2>2
  <2>10. \A y \in 1 .. (n + 3) : y # i - 1 => g[1 + y] = f[y + 1]
    <3> SUFFICES ASSUME NEW y \in 1 .. (n + 3), y # i - 1 PROVE g[1 + y] = f[y + 1] OBVIOUS
    <3>1. 1 + y \in 1 .. (n + 4) /\ 1 + y # i BY <1>1, <2>2
    <3> QED BY <1>5, <2>4, <3>1
  <2>11. 1 + n + 3 <= Len(g) BY <1>1, <1>3, <2>3
  <2>12. FrameAt(g, 1, p) BY <1>3, <2>7, <2>8, <2>9, <2>10, <2>11 DEF FrameAt, f, n
  <2>13. Unit(g, p, FALSE) BY <2>3, <2>12 DEF Unit, n
  <2> QED BY <2>3, <2>13 DEF g
<1>10. Len(f) \in Nat BY <1>1, <1>2
<1> QED BY <1>2, <1>8, <1>9, <1>10 DEF f

------------------------------------------------------------------------------
(***************************************************************************)
(* The stream in the states of the system, and what each kind of step does *)
(* to it.                                                                  *)
(***************************************************************************)
Inside == phase = "receive" /\ recv.state # 0

StreamAt(h, q, b) ==
  /\ Layout(h, q, sent, bad.requests = 0)
  /\ Rest(h, b, rx)
  /\ Cursor(h, q, b, sent, Len(delivered), Inside, recv)

Fresh == phase = "receive" /\ recv.state = 0 => recv.received = 0

\* Steps that neither read nor write the bytes.
LEMMA StreamRests ==
  ASSUME NEW h, NEW q, NEW b, StreamAt(h, q, b), UNCHANGED <<rx, sent, delivered>>,
         bad'.requests = bad.requests,
         (Inside' = Inside /\ recv' = recv) \/ (~Inside /\ ~Inside')
  PROVE  StreamAt(h, q, b)'
<1>1. Layout(h, q, sent', bad'.requests = 0) BY DEF StreamAt
<1>2. Rest(h, b, rx') BY DEF StreamAt
<1>3. Cursor(h, q, b, sent', Len(delivered'), Inside', recv') BY DEF StreamAt, Cursor
<1> QED BY <1>1, <1>2, <1>3 DEF StreamAt

LEMMA StreamSends ==
  ASSUME NEW h, NEW q, NEW b, StreamAt(h, q, b), UNCHANGED StubVars,
         NEW p \in Packet, NEW f \in Seq(Byte), sent' = Append(sent, p), rx' = rx \o f,
         bad'.requests = 0 => bad.requests = 0, Unit(f, p, bad'.requests = 0),
         NEW z, z = Placed(q, Len(sent), Len(h) + 1)
  PROVE  StreamAt(h \o f, z, b)'
<1>0. h \in Seq(Byte) /\ b \in 0 .. Len(h) BY DEF StreamAt, Layout, Starts, Rest
<1>1. Layout(h \o f, z, sent', bad'.requests = 0)
  <2>1. Layout(h, q, sent, bad.requests = 0) BY DEF StreamAt
  <2> QED BY <2>1, LayoutGrows
<1>2. Rest(h \o f, b, rx')
  <2>1. Rest(h, b, rx) BY DEF StreamAt
  <2> QED BY <1>0, <2>1, RestGrows
<1>3. Cursor(h \o f, z, b, sent', Len(delivered'), Inside', recv')
  <2>1. Layout(h, q, sent, bad.requests = 0) /\ Cursor(h, q, b, sent, Len(delivered), Inside, recv)
    BY DEF StreamAt
  <2>2. Extends(h, h \o f) BY <1>0, JoinExtends
  <2>3. Inside' = Inside /\ delivered' = delivered /\ recv' = recv BY DEF StubVars, Inside
  <2>4. Cursor(h \o f, z, b, Append(sent, p), Len(delivered),
               Inside, recv)
    BY <1>0, <2>1, <2>2, CursorGrows
  <2> QED BY <2>3, <2>4
<1> QED BY <1>1, <1>2, <1>3 DEF StreamAt

LEMMA StreamPads ==
  ASSUME NEW h, NEW q, NEW b, StreamAt(h, q, b), UNCHANGED <<StubVars, sent, bad>>,
         NEW c \in {PLUS, MINUS}, rx' = Append(rx, c)
  PROVE  StreamAt(h \o <<c>>, q, b)'
<1>0. h \in Seq(Byte) /\ b \in 0 .. Len(h) /\ rx \in Seq(Byte) BY DEF StreamAt, Layout, Starts, Rest
<1>1. <<c>> \in Seq(Byte) /\ c \in Byte BY DEF PLUS, MINUS, Byte
<1>2. rx' = rx \o <<c>> BY <1>0, <1>1
<1>3. Layout(h \o <<c>>, q, sent', bad'.requests = 0)
  <2>1. Layout(h, q, sent, bad.requests = 0) BY DEF StreamAt
  <2>2. Layout(h \o <<c>>, q, sent, bad.requests = 0) BY <2>1, LayoutPads
  <2> QED BY <2>2
<1>4. Rest(h \o <<c>>, b, rx')
  <2>1. Rest(h, b, rx) BY DEF StreamAt
  <2> QED BY <1>0, <1>1, <1>2, <2>1, RestGrows
<1>5. Cursor(h \o <<c>>, q, b, sent', Len(delivered'), Inside', recv')
  <2>1. Layout(h, q, sent, bad.requests = 0) /\ Cursor(h, q, b, sent, Len(delivered), Inside, recv)
    BY DEF StreamAt
  <2>2. Extends(h, h \o <<c>>) BY <1>0, <1>1, JoinExtends
  <2>3. Inside' = Inside /\ delivered' = delivered /\ recv' = recv /\ sent' = sent
    BY DEF StubVars, Inside
  <2>4. Intr \in Packet BY DEF Packet
  <2>5. Cursor(h \o <<c>>, q, b, sent, Len(delivered), Inside, recv)
    BY <1>0, <2>1, <2>2, <2>4, CursorGrows
  <2> QED BY <2>3, <2>5
<1> QED BY <1>3, <1>4, <1>5 DEF StreamAt

\* The byte the stub reads.
LEMMA StreamRead ==
  ASSUME NEW h, NEW q, NEW b, StreamAt(h, q, b), NEW c, Read(c)
  PROVE  /\ h \in Seq(Byte) /\ b \in Nat /\ b + 1 \in 1 .. Len(h) /\ c = h[b + 1] /\ c \in Byte
         /\ Rest(h, b + 1, rx') /\ Layout(h, q, sent', bad'.requests = 0)
         /\ sent' = sent /\ phase = "receive" /\ bad' = bad
         /\ sent \in Seq(Packet) /\ Len(sent) \in Nat /\ Len(delivered) \in 0 .. Len(sent)
<1>1. h \in Seq(Byte) /\ sent \in Seq(Packet) /\ Len(sent) \in Nat /\ Len(delivered) \in 0 .. Len(sent)
  BY DEF StreamAt, Layout, Starts, Cursor
<1>2. Rest(h, b, rx) /\ rx # <<>> /\ c = Head(rx) /\ rx' = Tail(rx) /\ UNCHANGED <<sent, bad>>
      /\ phase = "receive"
  BY DEF StreamAt, Read
<1>3. /\ b \in Nat /\ b + 1 \in 1 .. Len(h) /\ Head(rx) = h[b + 1] /\ Head(rx) \in Byte
      /\ Rest(h, b + 1, Tail(rx))
  <2>1. h \in Seq(Byte) /\ Rest(h, b, rx) /\ rx # <<>> BY <1>1, <1>2
  <2> QED BY <2>1, RestRead
<1>4. Layout(h, q, sent', bad'.requests = 0) BY <1>2 DEF StreamAt
<1> QED BY <1>1, <1>2, <1>3, <1>4

LEMMA OutsideFrame ==
  ASSUME NEW h, NEW q, NEW b, StreamAt(h, q, b), ~Inside
  PROVE  /\ Layout(h, q, sent, bad.requests = 0)
         /\ Cursor(h, q, b, sent, Len(delivered), FALSE, recv)
<1>1. Cursor(h, q, b, sent, Len(delivered), Inside, recv) BY DEF StreamAt
<1>2. Cursor(h, q, b, sent, Len(delivered), FALSE, recv) BY <1>1 DEF Cursor
<1> QED BY <1>2 DEF StreamAt

\* Cursor depends on its flag by value.
LEMMA CursorFlag ==
  ASSUME NEW h, NEW q, NEW b, NEW ps, NEW n, NEW r, NEW i, NEW j,
         Cursor(h, q, b, ps, n, i, r), i <=> j
  PROVE  Cursor(h, q, b, ps, n, j, r)
BY DEF Cursor

LEMMA ReadsGap ==
  ASSUME NEW h, NEW q, NEW b, StreamAt(h, q, b), recv \in RecvRec, Fresh,
         NEW c, Read(c), WaitForDollar(c)
  PROVE  StreamAt(h, q, b + 1)'
<1> DEFINE n == Len(delivered)
<1>1. /\ b \in Nat /\ b + 1 \in 1 .. Len(h) /\ c = h[b + 1] /\ phase = "receive"
      /\ Rest(h, b + 1, rx') /\ Layout(h, q, sent', bad'.requests = 0)
      /\ sent' = sent /\ bad' = bad
  BY StreamRead
<1>2. /\ recv.state = 0 /\ c # CTRLC /\ delivered' = delivered /\ phase' = phase
      /\ recv' = IF c = DOLLAR THEN [recv EXCEPT !.state = 1, !.index = 0, !.buf = <<>>] ELSE recv
  BY DEF WaitForDollar, Stay
<1>3. ~Inside /\ Between(recv) BY <1>1, <1>2 DEF Inside, Between, Fresh
<1>4. Layout(h, q, sent, bad.requests = 0) /\ Cursor(h, q, b, sent, n, FALSE, recv)
  BY <1>3, OutsideFrame
<1>5. \/ h[b + 1] \in {PLUS, MINUS} /\ (n < Len(sent) => b + 1 < q[n + 1])
      \/ n < Len(sent) /\ b + 1 = q[n + 1] /\ h[b + 1] = DOLLAR
  <2>1. Upcoming(h, q, b, sent, n)
    <3>1. b \in Nat /\ b + 1 \in 1 .. Len(h) BY <1>1
    <3> QED BY <1>4, <3>1, NextItem
  <2> QED BY <1>1, <1>2, <2>1 DEF Upcoming
<1>6. Cursor(h, q, b + 1, sent', Len(delivered'), Inside', recv')
  <2>1. CASE n < Len(sent) /\ b + 1 = q[n + 1] /\ h[b + 1] = DOLLAR
    <3>1. recv' = [recv EXCEPT !.state = 1, !.index = 0, !.buf = <<>>] BY <1>1, <1>2, <2>1
    <3>2. recv'.state = 1 BY <3>1 DEF RecvRec
    <3>3. Inside' = TRUE BY <1>1, <1>2, <3>2 DEF Inside
    <3>4. Cursor(h, q, b + 1, sent, n, TRUE, [recv EXCEPT !.state = 1, !.index = 0, !.buf = <<>>])
      BY <1>1, <1>3, <1>4, <2>1, EnterFrame
    <3> QED BY <1>1, <1>2, <3>1, <3>3, <3>4
  <2>2. CASE h[b + 1] \in {PLUS, MINUS} /\ (n < Len(sent) => b + 1 < q[n + 1])
    <3>1. c # DOLLAR BY <1>1, <2>2 DEF PLUS, MINUS, DOLLAR
    <3>2. recv' = recv BY <1>2, <3>1
    <3>3. Inside' = FALSE BY <1>2, <3>2 DEF Inside
    <3>4. Cursor(h, q, b + 1, sent, n, FALSE, recv) BY <1>1, <1>4, <2>2, PassGap
    <3> QED BY <1>1, <1>2, <3>2, <3>3, <3>4
  <2> QED BY <1>5, <2>1, <2>2
<1> QED BY <1>1, <1>6 DEF StreamAt

\* A Ctrl-C between packets is the next thing that was sent.
LEMMA ReadsInterrupt ==
  ASSUME NEW h, NEW q, NEW b, StreamAt(h, q, b), NEW c, Read(c), CtrlC(c),
         delivered \in Seq(Seq(Byte))
  PROVE  /\ StreamAt(h, q, b + 1)'
         /\ Len(delivered) < Len(sent) /\ sent[Len(delivered) + 1] = Intr
         /\ b + 1 = q[Len(delivered) + 1] /\ h[b + 1] = CTRLC
<1> DEFINE n == Len(delivered)
<1>1. /\ b \in Nat /\ b + 1 \in 1 .. Len(h) /\ c = h[b + 1] /\ phase = "receive"
      /\ Rest(h, b + 1, rx') /\ Layout(h, q, sent', bad'.requests = 0)
      /\ sent' = sent /\ bad' = bad
  BY StreamRead
<1>2. recv.state = 0 /\ c = CTRLC /\ delivered' = Append(delivered, Intr) BY DEF CtrlC, Dispatch
<1>3. Layout(h, q, sent, bad.requests = 0) /\ Cursor(h, q, b, sent, n, FALSE, recv)
  <2>1. ~Inside BY <1>2 DEF Inside
  <2> QED BY <2>1, OutsideFrame
<1>4. n < Len(sent) /\ b + 1 = q[n + 1] /\ sent[n + 1] = Intr
  <2>1. h[b + 1] \notin {PLUS, MINUS} /\ h[b + 1] # DOLLAR
    BY <1>1, <1>2 DEF CTRLC, PLUS, MINUS, DOLLAR
  <2>2. Upcoming(h, q, b, sent, n)
    <3>1. b \in Nat /\ b + 1 \in 1 .. Len(h) BY <1>1
    <3> QED BY <1>3, <3>1, NextItem
  <2> QED BY <2>1, <2>2 DEF Upcoming
<1>5. b + 1 = q[n + 1] + SizeAt(h, q[n + 1], sent[n + 1]) - 1
  <2>1. h[q[n + 1]] = CTRLC BY <1>1, <1>2, <1>4
  <2>3. SizeAt(h, q[n + 1], sent[n + 1]) = 1 BY <2>1 DEF SizeAt, CTRLC, DOLLAR
  <2>2. b \in Nat /\ b + 1 = q[n + 1] BY <1>1, <1>4
  <2> QED BY <2>2, <2>3
<1>6. Len(delivered') = n + 1
  <2>1. Intr \in Seq(Byte) BY DEF Intr, CTRLC, Byte
  <2> QED BY <1>2, <2>1, AppendFacts
<1>7. ~Inside' BY DEF CtrlC, Dispatch, Inside, Leave
<1>8. Cursor(h, q, b + 1, sent, n + 1, FALSE, recv') BY <1>1, <1>3, <1>4, <1>5, ItemDone
<1>9. Cursor(h, q, b + 1, sent', Len(delivered'), Inside', recv')
  BY <1>1, <1>6, <1>7, <1>8, CursorFlag
<1> QED BY <1>1, <1>2, <1>4, <1>9 DEF StreamAt

\* The frame the stub is in.
LEMMA InsideFrame ==
  ASSUME NEW h, NEW q, NEW b, StreamAt(h, q, b), Inside
  PROVE  LET n == Len(delivered)
         IN  /\ n \in Nat /\ n < Len(sent) /\ n + 1 \in 1 .. Len(sent) /\ q[n + 1] \in Nat
             /\ q[n + 1] >= 1 /\ sent[n + 1] \in Packet /\ Len(sent[n + 1]) \in Nat
             /\ InFrame(h, b, q[n + 1], sent[n + 1], recv) /\ FrameAt(h, q[n + 1], sent[n + 1])
             /\ bad.requests = 0 => CleanAt(h, q[n + 1], sent[n + 1])
             /\ Layout(h, q, sent, bad.requests = 0) /\ Cursor(h, q, b, sent, n, TRUE, recv)
<1> DEFINE n == Len(delivered)
<1>1. Layout(h, q, sent, bad.requests = 0) /\ Cursor(h, q, b, sent, n, TRUE, recv) BY DEF StreamAt
<1>2. n \in 0 .. Len(sent) /\ n < Len(sent) /\ InFrame(h, b, q[n + 1], sent[n + 1], recv)
  BY <1>1 DEF Cursor
<1>3. Len(sent) \in Nat BY <1>1, LayoutFacts
<1>4. n \in Nat /\ n + 1 \in 1 .. Len(sent) BY <1>2, <1>3
<1>5. q[n + 1] \in Nat /\ q[n + 1] >= 1 /\ sent[n + 1] \in Packet /\ Len(sent[n + 1]) \in Nat
  BY <1>1, <1>4, LayoutFacts
<1>6. h[q[n + 1]] = DOLLAR BY <1>2 DEF InFrame
<1>7. FrameAt(h, q[n + 1], sent[n + 1]) /\ (bad.requests = 0 => CleanAt(h, q[n + 1], sent[n + 1]))
  BY <1>1, <1>4, <1>6, ItemEnds
<1> QED BY <1>1, <1>2, <1>4, <1>5, <1>7

LEMMA ReadsData ==
  ASSUME NEW h, NEW q, NEW b, StreamAt(h, q, b), recv \in RecvRec, NEW c, Read(c), ReadData(c)
  PROVE  StreamAt(h, q, b + 1)'
<1> DEFINE n == Len(delivered)
           s == q[n + 1]
           p == sent[n + 1]
<1>1. /\ h \in Seq(Byte) /\ b \in Nat /\ b + 1 \in 1 .. Len(h) /\ c = h[b + 1]
      /\ phase = "receive"
      /\ Rest(h, b + 1, rx') /\ Layout(h, q, sent', bad'.requests = 0)
      /\ sent' = sent /\ bad' = bad
  BY StreamRead
<1>2. /\ recv.state = 1 /\ delivered' = delivered /\ phase' = phase
      /\ recv' = IF c = HASH
                   THEN [recv EXCEPT !.state = 2, !.index = 0,
                                     !.expected = calculate_checksum(recv.buf)]
                 ELSE IF Fits(recv.index)
                   THEN [recv EXCEPT !.buf = Append(@, c), !.index = @ + 1]
                 ELSE recv
  BY DEF ReadData, Stay
<1>3. Inside BY <1>1, <1>2 DEF Inside
<1>4. /\ s \in Nat /\ p \in Packet /\ FrameAt(h, s, p) /\ InFrame(h, b, s, p, recv)
      /\ Layout(h, q, sent, bad.requests = 0) /\ Cursor(h, q, b, sent, n, TRUE, recv)
  BY <1>3, InsideFrame
<1> HIDE DEF s, p
<1>5. recv'.state # 0
  <2>1. [recv EXCEPT !.state = 2, !.index = 0, !.expected = calculate_checksum(recv.buf)].state = 2
    BY DEF RecvRec
  <2>2. [recv EXCEPT !.buf = Append(@, c), !.index = @ + 1].state = 1 BY <1>2 DEF RecvRec
  <2> QED BY <1>2, <2>1, <2>2
<1>6. InFrame(h, b + 1, s, p, recv')
  <2>1. CASE c = HASH
    <3>1. InFrame(h, b + 1, s, p, [recv EXCEPT !.state = 2, !.index = 0,
                                               !.expected = calculate_checksum(recv.buf)])
      BY <1>1, <1>2, <1>4, <2>1, HashByte
    <3> QED BY <1>2, <2>1, <3>1
  <2>2. CASE c # HASH
    <3>1. InFrame(h, b + 1, s, p,
                  IF Fits(recv.index)
                    THEN [recv EXCEPT !.buf = Append(@, h[b + 1]), !.index = @ + 1] ELSE recv)
      BY <1>1, <1>2, <1>4, <2>2, DataByte
    <3>2. recv' = IF Fits(recv.index)
                    THEN [recv EXCEPT !.buf = Append(@, h[b + 1]), !.index = @ + 1] ELSE recv
      BY <1>1, <1>2, <2>2
    <3> QED BY <3>1, <3>2
  <2> QED BY <2>1, <2>2
<1>7. Cursor(h, q, b + 1, sent, n, TRUE, recv') BY <1>1, <1>4, <1>6, FrameGoesOn DEF s, p
<1>8. Inside' = TRUE BY <1>1, <1>2, <1>5 DEF Inside
<1> QED BY <1>1, <1>2, <1>7, <1>8 DEF StreamAt

LEMMA ReadsFirstDigit ==
  ASSUME NEW h, NEW q, NEW b, StreamAt(h, q, b), recv \in RecvRec, NEW c, Read(c), FirstDigit(c)
  PROVE  StreamAt(h, q, b + 1)'
<1> DEFINE n == Len(delivered)
           s == q[n + 1]
           p == sent[n + 1]
<1>1. /\ h \in Seq(Byte) /\ b \in Nat /\ b + 1 \in 1 .. Len(h) /\ c = h[b + 1]
      /\ phase = "receive"
      /\ Rest(h, b + 1, rx') /\ Layout(h, q, sent', bad'.requests = 0)
      /\ sent' = sent /\ bad' = bad
  BY StreamRead
<1>2. /\ recv.state = 2 /\ recv.index = 0 /\ delivered' = delivered /\ phase' = phase
      /\ recv' = [recv EXCEPT !.received = Received(@, c), !.index = 1]
  BY DEF FirstDigit, Stay, Digit, Received
<1>3. Inside BY <1>1, <1>2 DEF Inside
<1>4. /\ s \in Nat /\ p \in Packet /\ FrameAt(h, s, p) /\ InFrame(h, b, s, p, recv)
      /\ Layout(h, q, sent, bad.requests = 0) /\ Cursor(h, q, b, sent, n, TRUE, recv)
  BY <1>3, InsideFrame
<1> HIDE DEF s, p
<1>5. recv'.state # 0 BY <1>2 DEF RecvRec
<1>6. InFrame(h, b + 1, s, p, recv') BY <1>1, <1>2, <1>4, FirstDigitByte
<1>7. Cursor(h, q, b + 1, sent, n, TRUE, recv') BY <1>1, <1>4, <1>6, FrameGoesOn DEF s, p
<1>8. Inside' = TRUE BY <1>1, <1>2, <1>5 DEF Inside
<1> QED BY <1>1, <1>2, <1>7, <1>8 DEF StreamAt

\* The last byte of a frame: the stub has the packet that was sent, if it fits.
LastByte(h, q, b, n, p, c) ==
  /\ n < Len(sent) /\ p = sent[n + 1] /\ p \in Packet /\ n + 1 \in 1 .. Len(sent)
  /\ b + 1 = q[n + 1] + Len(p) + 3 /\ h[q[n + 1]] = DOLLAR
  /\ Len(p) < BufSize /\ ChecksumOk(Digit(c)) => recv.buf = p
  /\ Len(p) < BufSize /\ bad.requests = 0 => ChecksumOk(Digit(c))

LEMMA ReadsLastByte ==
  ASSUME NEW h, NEW q, NEW b, StreamAt(h, q, b), recv \in RecvRec, NEW c, Read(c),
         recv.state = 2, recv.index = 1
  PROVE  /\ LastByte(h, q, b, Len(delivered), sent[Len(delivered) + 1], c)
         /\ \A r : Cursor(h, q, b + 1, sent, Len(delivered) + 1, FALSE, r)
<1> DEFINE n == Len(delivered)
           s == q[n + 1]
           p == sent[n + 1]
<1>1. /\ h \in Seq(Byte) /\ b \in Nat /\ b + 1 \in 1 .. Len(h) /\ c = h[b + 1] /\ c \in Byte
      /\ phase = "receive"
  BY StreamRead
<1>3. Inside BY <1>1 DEF Inside
<1>4. /\ s \in Nat /\ s >= 1 /\ p \in Packet /\ FrameAt(h, s, p) /\ InFrame(h, b, s, p, recv)
      /\ Layout(h, q, sent, bad.requests = 0) /\ Cursor(h, q, b, sent, n, TRUE, recv)
      /\ n < Len(sent) /\ Len(p) \in Nat /\ (bad.requests = 0 => CleanAt(h, s, p))
      /\ n + 1 \in 1 .. Len(sent)
  BY <1>3, InsideFrame
<1> HIDE DEF s, p
<1>5. /\ b = s + Len(p) + 1 + 1 /\ Len(recv.buf) = Held(Len(p))
      /\ recv.expected = calculate_checksum(recv.buf)
      /\ recv.received = Received(0, h[s + Len(p) + 2])
      /\ recv.buf \in Seq(Byte) /\ \A i \in 1 .. Len(recv.buf) : recv.buf[i] = h[s + i]
  BY <1>4 DEF InFrame
<1>6. b + 1 = s + Len(p) + 3
  <2>1. b = s + Len(p) + 1 + 1 /\ s \in Nat /\ Len(p) \in Nat BY <1>4, <1>5
  <2> QED BY <2>1
<1>7. h[s] = DOLLAR BY <1>4 DEF FrameAt
<1>8. /\ Digit(c).expected = calculate_checksum(recv.buf)
      /\ Digit(c).received = Received(Received(0, h[s + Len(p) + 2]), h[s + Len(p) + 3])
  <2>1. Digit(c) = [recv EXCEPT !.received = Received(recv.received, c), !.index = 1]
    BY DEF Digit, Received
  <2>2. Digit(c).expected = recv.expected /\ Digit(c).received = Received(recv.received, c)
    BY <2>1 DEF RecvRec
  <2> QED BY <1>1, <1>5, <1>6, <2>2
<1>9. ASSUME Len(p) < BufSize
      PROVE  /\ ChecksumOk(Digit(c)) => recv.buf = p
             /\ bad.requests = 0 => ChecksumOk(Digit(c))
  <2>1. Len(recv.buf) = Len(p) BY <1>5, <1>9 DEF Held
  <2>2. ASSUME ChecksumOk(Digit(c)) PROVE recv.buf = p
    <3>1. calculate_checksum(recv.buf)
            = Received(Received(0, h[s + Len(p) + 2]), h[s + Len(p) + 3])
      BY <1>8, <2>2 DEF ChecksumOk
    <3> QED BY <1>1, <1>4, <1>5, <2>1, <3>1, FrameDelivers
  <2>3. ASSUME bad.requests = 0 PROVE ChecksumOk(Digit(c))
    <3>1. CleanAt(h, s, p) BY <1>4, <2>3
    <3>2. calculate_checksum(recv.buf)
            = Received(Received(0, h[s + Len(p) + 2]), h[s + Len(p) + 3])
      BY <1>1, <1>4, <1>5, <2>1, <3>1, CleanFits
    <3> QED BY <1>8, <3>2 DEF ChecksumOk
  <2> QED BY <2>2, <2>3
<1>10. LastByte(h, q, b, n, p, c) BY <1>4, <1>6, <1>7, <1>9 DEF LastByte, s, p
<1>11. b + 1 = q[n + 1] + SizeAt(h, q[n + 1], sent[n + 1]) - 1
  <2>1. SizeAt(h, s, p) = Len(p) + 4 BY <1>7 DEF SizeAt
  <2>2. b + 1 = s + SizeAt(h, s, p) - 1 BY <1>4, <1>6, <2>1
  <2> QED BY <2>2 DEF s, p
<1>12. ASSUME NEW r PROVE Cursor(h, q, b + 1, sent, n + 1, FALSE, r)
  <2>1. b \in Nat BY <1>1
  <2> QED BY <1>4, <1>11, <2>1, ItemDone
<1> QED BY <1>10, <1>12 DEF p

\* A packet is delivered.
LEMMA StreamDelivers ==
  ASSUME NEW h, NEW q, NEW b, StreamAt(h, q, b), recv \in RecvRec, NEW c, Read(c),
         recv.state = 2, recv.index = 1, delivered \in Seq(Seq(Byte)),
         delivered' = Append(delivered, recv.buf), phase' # "receive"
  PROVE  StreamAt(h, q, b + 1)'
<1>1. Rest(h, b + 1, rx') /\ Layout(h, q, sent', bad'.requests = 0) /\ sent' = sent BY StreamRead
<1>2. Cursor(h, q, b + 1, sent, Len(delivered) + 1, FALSE, recv') BY ReadsLastByte
<1>3. Len(delivered') = Len(delivered) + 1
  <2>1. recv.buf \in Seq(Byte) BY DEF RecvRec
  <2> QED BY <2>1, AppendFacts
<1>4. ~Inside' BY DEF Inside
<1>5. Cursor(h, q, b + 1, sent', Len(delivered'), Inside', recv')
  BY <1>1, <1>2, <1>3, <1>4, CursorFlag
<1> QED BY <1>1, <1>5 DEF StreamAt

------------------------------------------------------------------------------
(***************************************************************************)
(* The invariant that needs no hypothesis: types, the failure counter, and *)
(* the stream as long as the stub has not left.                            *)
(***************************************************************************)
RecvOK(r) ==
  /\ r \in [state : 0 .. 2, index : 0 .. (BufSize - 1) \cup {0, 1}, buf : Seq(Byte),
            expected : Byte, received : Byte]
  /\ Len(r.buf) < BufSize

StubRec == [connected : BOOLEAN, no_ack_mode : BOOLEAN, failures : 0 .. MaxFailures]

Base ==
  /\ TypeOK
  /\ client.cur <= Len(sent) /\ Len(delivered) <= Len(sent)
  /\ client.mode # "idle" => client.cur >= 1
  /\ phase = "receive" => stub.failures < MaxFailures
  /\ Fresh
  /\ \A i \in 1 .. Len(tx) : tx[i].kind = "-" => phase = "exit"
  /\ NoFailureWithoutFault

LEMMA RecvFacts ==
  /\ TypeOK => RecvOK(recv) /\ recv \in RecvRec
  /\ RecvOK(Start)
<1>1. \A i \in 0 .. (BufSize - 1) \cup {0, 1} : i \in Nat BY SizeAssumption
<1>2. ASSUME TypeOK PROVE RecvOK(recv) /\ recv \in RecvRec BY <1>1, <1>2 DEF TypeOK, RecvOK, RecvRec
<1>3. RecvOK(Start) BY SizeAssumption DEF RecvOK, Start, Byte
<1> QED BY <1>2, <1>3

LEMMA ItemTypes ==
  /\ Ack \in Item /\ Nack \in Item /\ Ack.kind = "+" /\ Nack.kind = "-"
  /\ \A n \in 0 .. MaxPackets : Reply(n) \in Item /\ Reply(n).kind = "reply" /\ Reply(n).to = n
BY BoundAssumption DEF Item, Ack, Nack, Reply

LEMMA InitBase == Init => Base
<1> SUFFICES ASSUME Init PROVE Base OBVIOUS
<1>1. RecvOK(recv) BY RecvFacts DEF Init
<1>2. TypeOK
  <2>1. stub \in StubRec BY SizeAssumption DEF Init, StubRec
  <2>2. client \in [mode : {"idle", "ack", "reply"}, noack : BOOLEAN, cur : 0 .. MaxPackets]
    BY BoundAssumption DEF Init
  <2>3. bad \in [requests : 0 .. MaxBadRequests, replies : 0 .. MaxBadReplies]
    BY BoundAssumption DEF Init
  <2>4. /\ rx \in Seq(Byte) /\ tx \in Seq(Item) /\ sent \in Seq(Payloads \cup {Intr})
        /\ delivered \in Seq(Seq(Byte)) /\ Len(sent) <= MaxPackets
        /\ closed \in BOOLEAN /\ phase \in {"process", "receive", "run", "exit"}
    <3>1. \A S : <<>> \in Seq(S) OBVIOUS
    <3>2. Len(sent) <= MaxPackets
      <4>1. Len(<<>>) = 0 OBVIOUS
      <4> QED BY <4>1, BoundAssumption DEF Init
    <3> QED BY <3>1, <3>2 DEF Init
  <2> QED BY <1>1, <2>1, <2>2, <2>3, <2>4 DEF TypeOK, RecvOK, StubRec
<1>3. stub.failures < MaxFailures BY SizeAssumption DEF Init
<1> QED BY <1>2, <1>3 DEF Init, Base, Fresh, Start, NoFailureWithoutFault

\* Steps of the debugger that send a packet.
LEMMA SendBase ==
  ASSUME Base, NEW p \in Packet, NEW f \in Seq(Byte), NEW c, SendBytes(p, f, c),
         c \in [mode : {"idle", "ack", "reply"}, noack : BOOLEAN, cur : 1 .. (Len(sent) + 1)],
         bad' \in [requests : 0 .. MaxBadRequests, replies : 0 .. MaxBadReplies],
         bad'.requests = 0 => bad.requests = 0
  PROVE  Base'
<1>1. /\ Len(sent) < MaxPackets /\ sent' = Append(sent, p) /\ rx' = rx \o f /\ client' = c
      /\ UNCHANGED <<stub, recv, phase, delivered, closed, tx>>
  BY DEF SendBytes, StubVars
<1>2. TypeOK BY DEF Base
<1>3. /\ sent' \in Seq(Packet) /\ Len(sent') = Len(sent) + 1 /\ Len(sent) \in Nat
      /\ \A i \in 1 .. Len(sent) : sent'[i] = sent[i]
  <2>1. sent \in Seq(Packet) BY <1>2 DEF TypeOK, Packet
  <2> QED BY <1>1, <2>1, AppendFacts
<1>4. rx' \in Seq(Byte)
  <2>1. rx \in Seq(Byte) BY <1>2 DEF TypeOK
  <2> QED BY <1>1, <2>1, Joined
<1>5. Len(sent') <= MaxPackets BY <1>1, <1>3, BoundAssumption
<1>6. client' \in [mode : {"idle", "ack", "reply"}, noack : BOOLEAN, cur : 0 .. MaxPackets]
      /\ client'.cur <= Len(sent') /\ client'.cur >= 1
  BY <1>1, <1>3, <1>5, BoundAssumption
<1>7. TypeOK' BY <1>1, <1>2, <1>3, <1>4, <1>5, <1>6 DEF TypeOK, Packet
<1>8. Len(delivered') <= Len(sent')
  <2>1. Len(delivered) \in Nat /\ Len(delivered) <= Len(sent) BY <1>2 DEF Base, TypeOK
  <2> QED BY <1>1, <1>3, <2>1
<1>9. Undamaged' => Undamaged
  <2> SUFFICES ASSUME Undamaged' PROVE Undamaged OBVIOUS
  <2>1. bad.requests = 0 /\ ~closed BY <1>1 DEF Undamaged
  <2>2. \A i \in DOMAIN sent' : Len(sent'[i]) < BufSize BY DEF Undamaged
  <2>3. DOMAIN sent' = 1 .. (Len(sent) + 1) BY <1>3
  <2>4. DOMAIN sent = 1 .. Len(sent) BY <1>2 DEF TypeOK
  <2>5. ASSUME NEW i \in 1 .. Len(sent) PROVE Len(sent[i]) < BufSize
    <3>1. i \in 1 .. (Len(sent) + 1) BY <1>3
    <3> QED BY <1>3, <2>2, <2>3, <3>1
  <2> QED BY <2>1, <2>4, <2>5 DEF Undamaged
<1>10. NoFailureWithoutFault' BY <1>1, <1>9 DEF Base, NoFailureWithoutFault
<1>11. Fresh' BY <1>1 DEF Base, Fresh
<1>12. \A i \in 1 .. Len(tx') : tx'[i].kind = "-" => phase' = "exit" BY <1>1 DEF Base
<1>13. phase' = "receive" => stub'.failures < MaxFailures BY <1>1 DEF Base
<1> QED BY <1>6, <1>7, <1>8, <1>10, <1>11, <1>12, <1>13 DEF Base

\* Steps of the debugger that take something from tx, or spoil or close.
LEMMA TakeBase ==
  ASSUME Base, UNCHANGED <<stub, recv, phase, delivered, sent>>,
         rx' \in Seq(Byte), closed' \in BOOLEAN, closed => closed',
         tx' \in Seq(Item), \A i \in 1 .. Len(tx') : tx'[i].kind = "-" => phase = "exit",
         client' \in [mode : {"idle", "ack", "reply"}, noack : BOOLEAN, cur : {client.cur}],
         client.mode = "idle" => client'.mode = "idle",
         bad' \in [requests : {bad.requests}, replies : 0 .. MaxBadReplies]
  PROVE  Base'
<1>1. TypeOK BY DEF Base
<1>2. client'.cur = client.cur /\ bad'.requests = bad.requests OBVIOUS
<1>3. client' \in [mode : {"idle", "ack", "reply"}, noack : BOOLEAN, cur : 0 .. MaxPackets]
  BY <1>1 DEF TypeOK
<1>4. bad' \in [requests : 0 .. MaxBadRequests, replies : 0 .. MaxBadReplies] BY <1>1 DEF TypeOK
<1>5. TypeOK' BY <1>1, <1>3, <1>4 DEF TypeOK
<1>6. NoFailureWithoutFault' BY <1>2 DEF Base, NoFailureWithoutFault, Undamaged
<1>7. Fresh' BY DEF Base, Fresh
<1>8. client'.mode # "idle" => client'.cur >= 1 BY <1>2 DEF Base
<1> QED BY <1>2, <1>5, <1>6, <1>7, <1>8 DEF Base

\* Steps of the stub that read a byte and stay in receive_packet.
LEMMA StayBase ==
  ASSUME Base, NEW c, Read(c), Stay, RecvOK(recv'), recv'.state = 0 => recv'.received = 0
  PROVE  Base'
<1>1. TypeOK BY DEF Base
<1>2. UNCHANGED <<stub, phase, tx, delivered, closed, client, sent, bad>> BY DEF Read, Stay
<1>3. rx' \in Seq(Byte)
  <2>1. rx \in Seq(Byte) /\ rx # <<>> /\ rx' = Tail(rx) BY <1>1 DEF TypeOK, Read
  <2> QED BY <2>1, TailFacts
<1>4. TypeOK' BY <1>1, <1>2, <1>3 DEF TypeOK, RecvOK
<1>5. NoFailureWithoutFault' BY <1>2 DEF Base, NoFailureWithoutFault, Undamaged
<1>6. Fresh' BY DEF Fresh
<1> QED BY <1>2, <1>4, <1>5, <1>6 DEF Base

\* The stub reads a byte or the end of file, and leaves.
LEMMA LeaveBase ==
  ASSUME Base, phase = "receive", Leave(Failed(stub)), RecvOK(recv'), ~Undamaged,
         tx' = tx \/ tx' = Append(tx, Nack), rx' = rx \/ (rx # <<>> /\ rx' = Tail(rx)),
         UNCHANGED <<closed, client, sent, bad, delivered>>
  PROVE  Base'
<1>1. TypeOK BY DEF Base
<1>2. rx' \in Seq(Byte)
  <2>1. rx \in Seq(Byte) BY <1>1 DEF TypeOK
  <2> QED BY <2>1, TailFacts
<1>3. tx' \in Seq(Item)
  <2>1. tx \in Seq(Item) BY <1>1 DEF TypeOK
  <2>2. Append(tx, Nack) \in Seq(Item) BY <2>1, ItemTypes, AppendFacts
  <2> QED BY <2>1, <2>2
<1>4. stub' \in StubRec /\ phase' = "exit"
  <2>1. stub \in StubRec /\ stub.failures < MaxFailures BY <1>1 DEF Base, TypeOK, StubRec
  <2>2. stub.failures + 1 \in 0 .. MaxFailures BY <2>1, SizeAssumption DEF StubRec
  <2>3. stub' = [Failed(stub) EXCEPT !.connected = FALSE] /\ phase' = "exit" BY DEF Leave
  <2> QED BY <2>1, <2>2, <2>3 DEF Failed, StubRec
<1>5. TypeOK' BY <1>1, <1>2, <1>3, <1>4 DEF TypeOK, RecvOK, StubRec
<1>6. NoFailureWithoutFault' BY DEF NoFailureWithoutFault, Undamaged
<1>7. Fresh' BY <1>4 DEF Fresh
<1> QED BY <1>4, <1>5, <1>6, <1>7 DEF Base

\* A packet reaches its handler.
LEMMA DispatchBase ==
  ASSUME Base, NEW c, Read(c), NEW p \in Seq(Byte), NEW s \in StubRec, NEW ack \in {<<>>, <<Ack>>},
         Dispatch(p, s, ack), RecvOK(recv'), Len(delivered) < Len(sent),
         Undamaged => s.failures = 0
  PROVE  Base'
<1>1. TypeOK BY DEF Base
<1>2. /\ phase = "receive" /\ delivered' = Append(delivered, p)
      /\ tx' = tx \o ack \o Replies(p, Len(delivered) + 1)
      /\ UNCHANGED <<closed, client, sent, bad>>
  BY DEF Dispatch, Read
<1>3. rx' \in Seq(Byte)
  <2>1. rx \in Seq(Byte) /\ rx # <<>> /\ rx' = Tail(rx) BY <1>1 DEF TypeOK, Read
  <2> QED BY <2>1, TailFacts
<1>4. delivered' \in Seq(Seq(Byte)) /\ Len(delivered') = Len(delivered) + 1
      /\ Len(delivered) \in Nat
  <2>1. delivered \in Seq(Seq(Byte)) BY <1>1 DEF TypeOK
  <2> QED BY <1>2, <2>1, AppendFacts
<1>5. Len(delivered') <= Len(sent') /\ Len(delivered) + 1 \in 0 .. MaxPackets
  <2>1. Len(sent) \in Nat /\ Len(sent) <= MaxPackets BY <1>1 DEF TypeOK
  <2> QED BY <1>2, <1>4, <2>1, BoundAssumption
<1>6. tx' \in Seq(Item) /\ \A i \in 1 .. Len(tx') : tx'[i].kind # "-"
  <2> DEFINE S == {it \in Item : it.kind # "-"}
             n == Len(delivered) + 1
  <2>0. tx \in Seq(Item) /\ \A i \in 1 .. Len(tx) : tx[i].kind # "-"
    BY <1>1, <1>2 DEF Base, TypeOK
  <2>1. tx \in Seq(S)
    <3>1. \A i \in 1 .. Len(tx) : tx[i] \in S BY <2>0
    <3> HIDE DEF S
    <3> QED BY <2>0, <3>1
  <2>2. Ack \in S /\ Reply(n) \in S BY <1>5, ItemTypes
  <2> HIDE DEF S, n
  <2>3. ack \in Seq(S) /\ Replies(p, n) \in Seq(S)
    <3>0. <<>> \in Seq(S) /\ <<Ack>> \in Seq(S) BY <2>2
    <3>1. ack \in Seq(S) BY <3>0
    <3>2. Replies(p, n) \in Seq(S) BY <2>2 DEF Replies
    <3> QED BY <3>1, <3>2
  <2>4. tx \o ack \in Seq(S) BY <2>1, <2>3, Joined
  <2>5. tx \o ack \o Replies(p, n) \in Seq(S) BY <2>3, <2>4, Joined
  <2>6. tx' \in Seq(S) BY <1>2, <2>5 DEF n
  <2>7. S \subseteq Item BY DEF S
  <2>8. \A i \in 1 .. Len(tx') : tx'[i] \in S BY <2>6
  <2>9. tx' \in Seq(Item) BY <2>6, <2>7, <2>8
  <2> QED BY <2>8, <2>9 DEF S
<1>7. stub' \in StubRec /\ stub'.failures = s.failures /\ phase' \in {"exit", "run", "process"}
  <2>1. CASE Kill(p) \/ Detach(p)
    <3>1. stub' = [s EXCEPT !.connected = FALSE] /\ phase' = "exit" BY <2>1 DEF Dispatch, Leave
    <3> QED BY <3>1 DEF StubRec
  <2>2. CASE ~(Kill(p) \/ Detach(p))
    <3>1. stub' = [s EXCEPT !.no_ack_mode = s.no_ack_mode \/ NoAck(p)]
          /\ phase' = IF Resumes(p) THEN "run" ELSE "process"
      BY <2>2 DEF Dispatch
    <3>2. (s.no_ack_mode \/ NoAck(p)) \in BOOLEAN OBVIOUS
    <3>3. stub' \in StubRec /\ stub'.failures = s.failures BY <3>1, <3>2 DEF StubRec
    <3> QED BY <3>1, <3>3
  <2> QED BY <2>1, <2>2
<1>8. TypeOK' BY <1>1, <1>2, <1>3, <1>4, <1>6, <1>7 DEF TypeOK, RecvOK, StubRec
<1>9. NoFailureWithoutFault' BY <1>2, <1>7 DEF NoFailureWithoutFault, Undamaged
<1>10. Fresh' BY <1>7 DEF Fresh
<1> QED BY <1>2, <1>5, <1>6, <1>7, <1>8, <1>9, <1>10 DEF Base

\* The steps of the stub.
LEMMA EntryStep ==
  ASSUME Base, ProcessEntry, NEW h, NEW q, NEW b, StreamAt(h, q, b)
  PROVE  Base' /\ (phase' = "exit" \/ StreamAt(h, q, b)')
<1>1. TypeOK BY DEF Base
<1>2. phase = "process" /\ UNCHANGED <<rx, closed, tx, client, sent, delivered, bad>>
  BY DEF ProcessEntry
<1>3. CASE ~stub.connected \/ stub.failures >= MaxFailures
  <2>1. Leave(stub) /\ UNCHANGED recv BY <1>3 DEF ProcessEntry
  <2>2. phase' = "exit" /\ stub' = [stub EXCEPT !.connected = FALSE] BY <2>1 DEF Leave
  <2>3. stub' \in StubRec /\ stub'.failures = stub.failures BY <1>1, <2>2 DEF TypeOK, StubRec
  <2>4. TypeOK' BY <1>1, <1>2, <2>1, <2>2, <2>3 DEF TypeOK, StubRec
  <2>5. NoFailureWithoutFault' BY <1>2, <2>3 DEF Base, NoFailureWithoutFault, Undamaged
  <2>6. Fresh' BY <2>2 DEF Fresh
  <2> QED BY <1>2, <2>2, <2>4, <2>5, <2>6 DEF Base
<1>4. CASE ~(~stub.connected \/ stub.failures >= MaxFailures)
  <2>1. phase' = "receive" /\ recv' = Start /\ UNCHANGED stub BY <1>4 DEF ProcessEntry
  <2>2. RecvOK(recv') /\ recv'.state = 0 /\ recv'.received = 0 BY <2>1, RecvFacts DEF Start
  <2>3. TypeOK' BY <1>1, <1>2, <2>1, <2>2 DEF TypeOK, RecvOK
  <2>4. NoFailureWithoutFault' BY <1>2, <2>1 DEF Base, NoFailureWithoutFault, Undamaged
  <2>5. stub'.failures < MaxFailures
    <3>1. stub.failures \in Nat /\ MaxFailures \in Nat BY <1>1, SizeAssumption DEF TypeOK
    <3>2. ~(stub.failures >= MaxFailures) BY <1>4
    <3> QED BY <2>1, <3>1, <3>2
  <2>6. Base' BY <1>2, <2>1, <2>2, <2>3, <2>4, <2>5 DEF Base, Fresh
  <2>7. ~Inside /\ ~Inside' BY <1>2, <2>2 DEF Inside
  <2>8. StreamAt(h, q, b)' BY <1>2, <2>7, StreamRests
  <2> QED BY <2>6, <2>8
<1> QED BY <1>3, <1>4

LEMMA EofStep ==
  ASSUME Base, ReadEof
  PROVE  Base' /\ phase' = "exit"
<1>1. TypeOK BY DEF Base
<1>2. /\ phase = "receive" /\ closed /\ Leave(Failed(stub))
      /\ UNCHANGED <<recv, rx, closed, tx, client, sent, delivered, bad>>
  BY DEF ReadEof
<1>3. ~Undamaged BY <1>2 DEF Undamaged
<1>4. RecvOK(recv') BY <1>1, <1>2, RecvFacts
<1>5. Base' BY <1>2, <1>3, <1>4, LeaveBase
<1> QED BY <1>2, <1>5 DEF Leave

LEMMA DigitOK ==
  ASSUME TypeOK, NEW c \in Byte
  PROVE  RecvOK(Digit(c)) /\ Digit(c).state = recv.state
<1>1. recv.received \in Byte BY DEF TypeOK
<1>2. Received(recv.received, c) \in Byte BY <1>1, ReceivedType
<1>3. Digit(c) = [recv EXCEPT !.received = Received(recv.received, c), !.index = 1]
  BY DEF Digit, Received
<1>4. RecvOK(recv) BY RecvFacts
<1> QED BY <1>2, <1>3, <1>4 DEF RecvOK

LEMMA GapStep ==
  ASSUME Base, NEW h, NEW q, NEW b, StreamAt(h, q, b), NEW c, Read(c), WaitForDollar(c)
  PROVE  Base' /\ StreamAt(h, q, b + 1)'
<1>1. TypeOK /\ Fresh BY DEF Base
<1>2. recv \in RecvRec /\ RecvOK(recv) BY <1>1, RecvFacts
<1>3. /\ recv.state = 0 /\ Stay
      /\ recv' = IF c = DOLLAR THEN [recv EXCEPT !.state = 1, !.index = 0, !.buf = <<>>] ELSE recv
  BY DEF WaitForDollar
<1>4. RecvOK([recv EXCEPT !.state = 1, !.index = 0, !.buf = <<>>])
      /\ [recv EXCEPT !.state = 1, !.index = 0, !.buf = <<>>].state = 1
  <2> DEFINE e == <<>>
             r == [recv EXCEPT !.state = 1, !.index = 0, !.buf = e]
  <2>1. e \in Seq(Byte) /\ Len(e) < BufSize BY SizeAssumption
  <2> HIDE DEF e
  <2>2. r.buf = e /\ r.state = 1 BY <1>2 DEF RecvRec
  <2>3. r \in [state : 0 .. 2, index : 0 .. (BufSize - 1) \cup {0, 1}, buf : Seq(Byte),
               expected : Byte, received : Byte]
    <3> DEFINE I == 0 .. (BufSize - 1) \cup {0, 1}
               B == Seq(Byte)
    <3>1. 0 \in I /\ 1 \in 0 .. 2 /\ e \in B BY <2>1
    <3>2. recv \in [state : 0 .. 2, index : I, buf : B, expected : Byte, received : Byte]
      BY <1>2 DEF RecvOK
    <3> HIDE DEF I, B
    <3>3. r \in [state : 0 .. 2, index : I, buf : B, expected : Byte, received : Byte]
      BY <3>1, <3>2
    <3> QED BY <3>3 DEF I, B
  <2> HIDE DEF r
  <2>4. RecvOK(r) /\ r.state = 1 BY <2>1, <2>2, <2>3 DEF RecvOK
  <2> QED BY <2>4 DEF r, e
<1>5. RecvOK(recv') /\ (recv'.state = 0 => recv'.received = 0)
  <2>1. recv.received = 0 BY <1>1, <1>3 DEF Fresh, Read
  <2> QED BY <1>2, <1>3, <1>4, <2>1
<1>6. Base' BY <1>3, <1>5, StayBase
<1>7. StreamAt(h, q, b + 1)' BY <1>1, <1>2, ReadsGap
<1> QED BY <1>6, <1>7

LEMMA CtrlCStep ==
  ASSUME Base, NEW h, NEW q, NEW b, StreamAt(h, q, b), NEW c, Read(c), CtrlC(c)
  PROVE  Base' /\ StreamAt(h, q, b + 1)'
<1>1. TypeOK BY DEF Base
<1>2. delivered \in Seq(Seq(Byte)) /\ stub \in StubRec BY <1>1 DEF TypeOK, StubRec
<1>3. StreamAt(h, q, b + 1)' /\ Len(delivered) < Len(sent) BY <1>2, ReadsInterrupt
<1>4. Dispatch(Intr, stub, <<>>) /\ recv' = recv BY DEF CtrlC
<1>5. Intr \in Seq(Byte) BY DEF Intr, CTRLC, Byte
<1>6. Undamaged => stub.failures = 0 BY DEF Base, NoFailureWithoutFault
<1>7. RecvOK(recv') BY <1>1, <1>4, RecvFacts
<1>8. Base' BY <1>2, <1>3, <1>4, <1>5, <1>6, <1>7, DispatchBase
<1> QED BY <1>3, <1>8

LEMMA DataStep ==
  ASSUME Base, NEW h, NEW q, NEW b, StreamAt(h, q, b), NEW c, Read(c), ReadData(c)
  PROVE  Base' /\ StreamAt(h, q, b + 1)'
<1>1. TypeOK BY DEF Base
<1>2. recv \in RecvRec /\ RecvOK(recv) BY <1>1, RecvFacts
<1>3. StreamAt(h, q, b + 1)' BY <1>2, ReadsData
<1>4. c \in Byte /\ phase = "receive" BY StreamRead
<1>5. /\ recv.state = 1 /\ Stay
      /\ recv' = IF c = HASH
                   THEN [recv EXCEPT !.state = 2, !.index = 0,
                                     !.expected = calculate_checksum(recv.buf)]
                 ELSE IF Fits(recv.index)
                   THEN [recv EXCEPT !.buf = Append(@, c), !.index = @ + 1]
                 ELSE recv
  BY DEF ReadData
<1>6. recv.buf \in Seq(Byte) /\ recv.index \in Nat BY <1>2 DEF RecvRec
<1>7. Len(recv.buf) = recv.index
  <2>1. Inside BY <1>4, <1>5 DEF Inside
  <2>2. InFrame(h, b, q[Len(delivered) + 1], sent[Len(delivered) + 1], recv) BY <2>1, InsideFrame
  <2> QED BY <1>5, <2>2 DEF InFrame
<1>8. CASE c = HASH
  <2>1. calculate_checksum(recv.buf) \in Byte BY <1>6, ChecksumType
  <2>2. recv' = [recv EXCEPT !.state = 2, !.index = 0, !.expected = calculate_checksum(recv.buf)]
    BY <1>5, <1>8
  <2>4. recv'.buf = recv.buf /\ recv'.state = 2 BY <1>2, <2>2 DEF RecvRec
  <2>5. recv' \in [state : 0 .. 2, index : 0 .. (BufSize - 1) \cup {0, 1}, buf : Seq(Byte),
                   expected : Byte, received : Byte]
    <3> DEFINE I == 0 .. (BufSize - 1) \cup {0, 1}
               B == Seq(Byte)
    <3>1. 0 \in I /\ 2 \in 0 .. 2 OBVIOUS
    <3>2. recv \in [state : 0 .. 2, index : I, buf : B, expected : Byte, received : Byte]
      BY <1>2 DEF RecvOK
    <3> HIDE DEF I, B
    <3>3. recv' \in [state : 0 .. 2, index : I, buf : B, expected : Byte, received : Byte]
      BY <2>1, <2>2, <3>1, <3>2
    <3> QED BY <3>3 DEF I, B
  <2>3. RecvOK(recv') /\ recv'.state = 2 BY <1>2, <2>4, <2>5 DEF RecvOK
  <2> QED BY <1>3, <1>5, <2>3, StayBase
<1>9. CASE c # HASH /\ Fits(recv.index)
  <2>1. recv' = [recv EXCEPT !.buf = Append(recv.buf, c), !.index = recv.index + 1]
    BY <1>5, <1>9
  <2>2. Append(recv.buf, c) \in Seq(Byte) /\ Len(Append(recv.buf, c)) = recv.index + 1
    BY <1>4, <1>6, <1>7, AppendFacts
  <2>3. recv.index + 1 < BufSize /\ recv.index + 1 \in 0 .. (BufSize - 1)
    BY <1>6, <1>9, SizeAssumption DEF Fits
  <2>4. RecvOK(recv') /\ recv'.state = 1 BY <1>2, <1>5, <2>1, <2>2, <2>3 DEF RecvOK
  <2> QED BY <1>3, <1>5, <2>4, StayBase
<1>10. CASE c # HASH /\ ~Fits(recv.index)
  <2>1. recv' = recv BY <1>5, <1>10
  <2>2. RecvOK(recv') /\ recv'.state = 1 BY <1>2, <1>5, <2>1
  <2> QED BY <1>3, <1>5, <2>2, StayBase
<1> QED BY <1>8, <1>9, <1>10

LEMMA FirstDigitStep ==
  ASSUME Base, NEW h, NEW q, NEW b, StreamAt(h, q, b), NEW c, Read(c), FirstDigit(c)
  PROVE  Base' /\ StreamAt(h, q, b + 1)'
<1>1. TypeOK BY DEF Base
<1>2. recv \in RecvRec BY <1>1, RecvFacts
<1>3. StreamAt(h, q, b + 1)' BY <1>2, ReadsFirstDigit
<1>4. c \in Byte BY StreamRead
<1>5. recv.state = 2 /\ recv' = Digit(c) /\ Stay BY DEF FirstDigit
<1>6. RecvOK(recv') /\ recv'.state = 2 BY <1>1, <1>4, <1>5, DigitOK
<1>7. Base' BY <1>5, <1>6, StayBase
<1> QED BY <1>3, <1>7

LEMMA SecondDigitStep ==
  ASSUME Base, NEW h, NEW q, NEW b, StreamAt(h, q, b), NEW c, Read(c),
         SecondDigit(c) \/ AckFails(c)
  PROVE  Base' /\ (phase' = "exit" \/ StreamAt(h, q, b + 1)')
<1> DEFINE n == Len(delivered)
           p == sent[n + 1]
<1>1. TypeOK BY DEF Base
<1>2. recv \in RecvRec BY <1>1, RecvFacts
<1>3. c \in Byte /\ phase = "receive" BY StreamRead
<1>4. recv.state = 2 /\ recv.index = 1 /\ recv' = Digit(c) BY DEF SecondDigit, AckFails
<1>5. RecvOK(recv') BY <1>1, <1>3, <1>4, DigitOK
<1>6. LastByte(h, q, b, n, p, c) BY <1>2, <1>4, ReadsLastByte
<1>7. n < Len(sent) /\ n + 1 \in 1 .. Len(sent) BY <1>6 DEF LastByte
<1>8. stub \in StubRec /\ delivered \in Seq(Seq(Byte)) BY <1>1 DEF TypeOK, StubRec
<1>9. CASE SecondDigit(c) /\ ChecksumOk(Digit(c))
  <2>1. Dispatch(recv.buf, [stub EXCEPT !.failures = 0], IF Acks(stub) THEN <<Ack>> ELSE <<>>)
    BY <1>9 DEF SecondDigit
  <2>2. recv.buf \in Seq(Byte) BY <1>2 DEF RecvRec
  <2>3. [stub EXCEPT !.failures = 0] \in StubRec /\ [stub EXCEPT !.failures = 0].failures = 0
    BY <1>8, SizeAssumption DEF StubRec
  <2>4. (IF Acks(stub) THEN <<Ack>> ELSE <<>>) \in {<<>>, <<Ack>>} OBVIOUS
  <2>5. Base' BY <1>5, <1>7, <2>1, <2>2, <2>3, <2>4, DispatchBase
  <2>6. delivered' = Append(delivered, recv.buf) /\ phase' # "receive"
    BY <2>1 DEF Dispatch, Leave
  <2>7. StreamAt(h, q, b + 1)' BY <1>2, <1>4, <1>8, <2>6, StreamDelivers
  <2> QED BY <2>5, <2>7
<1>10. CASE SecondDigit(c) /\ ~ChecksumOk(Digit(c))
  <2>1. /\ Leave(Failed(stub)) /\ delivered' = delivered
        /\ tx' = IF Acks(stub) THEN Append(tx, Nack) ELSE tx
    BY <1>10 DEF SecondDigit
  <2>2. ~Undamaged
    <3>1. ~(Len(p) < BufSize /\ bad.requests = 0) BY <1>6, <1>10 DEF LastByte
    <3>2. n + 1 \in DOMAIN sent BY <1>1, <1>7 DEF TypeOK
    <3> QED BY <3>1, <3>2 DEF Undamaged
  <2>3. tx' = tx \/ tx' = Append(tx, Nack) BY <2>1
  <2>4. rx # <<>> /\ rx' = Tail(rx) /\ UNCHANGED <<closed, client, sent, bad>> BY DEF Read
  <2>5. Base' BY <1>3, <1>5, <2>1, <2>2, <2>3, <2>4, LeaveBase
  <2> QED BY <2>1, <2>5 DEF Leave
<1>11. CASE AckFails(c)
  <2>1. Leave(Failed(stub)) /\ closed /\ UNCHANGED <<tx, delivered>> BY <1>11 DEF AckFails
  <2>2. ~Undamaged BY <2>1 DEF Undamaged
  <2>4. rx # <<>> /\ rx' = Tail(rx) /\ UNCHANGED <<closed, client, sent, bad>> BY DEF Read
  <2>5. Base' BY <1>3, <1>5, <2>1, <2>2, <2>4, LeaveBase
  <2> QED BY <2>1, <2>5 DEF Leave
<1> QED BY <1>9, <1>10, <1>11

LEMMA RunStep ==
  ASSUME Base, TargetStops \/ Poll, NEW h, NEW q, NEW b, StreamAt(h, q, b)
  PROVE  Base' /\ StreamAt(h, q, b)'
<1>1. TypeOK BY DEF Base
<1>2. /\ phase = "run" /\ phase' = "process" /\ tx' = Append(tx, Reply(Len(delivered)))
      /\ UNCHANGED <<stub, recv, rx, closed, client, sent, delivered, bad>>
  BY DEF TargetStops, Poll, StopReply
<1>3. Len(delivered) \in 0 .. MaxPackets
  <2>1. Len(delivered) \in Nat /\ Len(sent) \in Nat /\ Len(delivered) <= Len(sent)
        /\ Len(sent) <= MaxPackets
    BY <1>1 DEF Base, TypeOK
  <2> QED BY <2>1, BoundAssumption
<1>4. tx \in Seq(Item) /\ Reply(Len(delivered)) \in Item /\ Reply(Len(delivered)).kind = "reply"
  BY <1>1, <1>3, ItemTypes DEF TypeOK
<1>5. /\ tx' \in Seq(Item) /\ Len(tx') = Len(tx) + 1 /\ Len(tx) \in Nat
      /\ \A i \in 1 .. Len(tx) : tx'[i] = tx[i]
      /\ tx'[Len(tx) + 1] = Reply(Len(delivered))
  BY <1>2, <1>4, AppendFacts
<1>6. ASSUME NEW i \in 1 .. Len(tx') PROVE tx'[i].kind # "-"
  <2>1. CASE i = Len(tx) + 1 BY <1>4, <1>5, <2>1
  <2>2. CASE i # Len(tx) + 1
    <3>1. i \in 1 .. Len(tx) BY <1>5, <2>2
    <3> QED BY <1>2, <1>5, <3>1 DEF Base
  <2> QED BY <2>1, <2>2
<1>7. TypeOK' BY <1>1, <1>2, <1>5 DEF TypeOK
<1>8. NoFailureWithoutFault' BY <1>2 DEF Base, NoFailureWithoutFault, Undamaged
<1>9. Fresh' BY <1>2 DEF Fresh
<1>10. Base' BY <1>2, <1>6, <1>7, <1>8, <1>9 DEF Base
<1>11. ~Inside /\ ~Inside' BY <1>2 DEF Inside
<1>12. StreamAt(h, q, b)' BY <1>2, <1>11, StreamRests
<1> QED BY <1>10, <1>12

\* The steps of the debugger.
Sends(p, f) ==
  /\ p \in Packet /\ f \in Seq(Byte) /\ sent' = Append(sent, p) /\ rx' = rx \o f
  /\ UNCHANGED StubVars
  /\ bad'.requests = 0 => bad.requests = 0
  /\ Unit(f, p, bad'.requests = 0)

LEMMA WaitingType ==
  ASSUME TypeOK
  PROVE  /\ Waiting \in [mode : {"idle", "ack", "reply"}, noack : BOOLEAN, cur : 1 .. (Len(sent) + 1)]
         /\ Waiting.mode = (IF client.noack THEN "reply" ELSE "ack")
         /\ Waiting.noack = client.noack /\ Waiting.cur = Len(sent) + 1
<1>1. Len(sent) + 1 \in 1 .. (Len(sent) + 1) BY DEF TypeOK
<1> QED BY <1>1 DEF TypeOK, Waiting

LEMMA SendStep ==
  ASSUME Base, NEW p \in Payloads, ClientSend(p)
  PROVE  Base' /\ Sends(p, Framed(p)) /\ Len(Framed(p)) = Len(p) + 4
<1>1. TypeOK BY DEF Base
<1>2. SendBytes(p, Framed(p), Waiting) /\ bad' = bad BY DEF ClientSend
<1>3. p \in Packet BY DEF Packet
<1>4. Framed(p) \in Seq(Byte) /\ Unit(Framed(p), p, TRUE) BY <1>3, SentUnits
<1>5. Unit(Framed(p), p, bad'.requests = 0) BY <1>4 DEF Unit
<1>6. bad' \in [requests : 0 .. MaxBadRequests, replies : 0 .. MaxBadReplies]
  BY <1>1, <1>2 DEF TypeOK
<1>7. Base' BY <1>1, <1>2, <1>3, <1>4, <1>6, WaitingType, SendBase
<1>8. Len(Framed(p)) = Len(p) + 4 BY <1>3, PacketType, FrameFacts
<1> QED BY <1>2, <1>3, <1>4, <1>5, <1>7, <1>8 DEF Sends, SendBytes

LEMMA SendBadStep ==
  ASSUME ~Reframing, Base, NEW p \in Payloads, ClientSendBad(p)
  PROVE  Base' /\ \E f : Sends(p, f) /\ SendBytes(p, f, Waiting) /\ Len(f) = Len(p) + 4
<1> DEFINE g == Framed(p)
<1>1. TypeOK BY DEF Base
<1>2. PICK i \in 2 .. Len(g), b \in Noise :
        g[i] # HASH /\ b # HASH /\ SendBytes(p, [g EXCEPT ![i] = b], Waiting)
  <2>1. Len(g) \in Nat BY SentUnits DEF Packet
  <2>2. PICK i \in 1 .. Len(g), b \in Noise :
          i > 1 /\ HASH \notin {g[i], b} /\ SendBytes(p, [g EXCEPT ![i] = b], Waiting)
    BY DEF ClientSendBad
  <2>3. i \in 2 .. Len(g) BY <2>1, <2>2
  <2> QED BY <2>2, <2>3
<1> DEFINE f == [g EXCEPT ![i] = b]
<1>3. p \in Packet BY DEF Packet
<1>4. f \in Seq(Byte) /\ Unit(f, p, FALSE) BY <1>2, <1>3, SentUnits
<1>12. Len(f) = Len(p) + 4
  <2>1. p \in Seq(Byte) /\ g \in Seq(Byte) /\ Len(g) = Len(p) + 4 BY <1>3, PacketType, FrameFacts
  <2>2. DOMAIN f = DOMAIN g OBVIOUS
  <2> HIDE DEF f, g
  <2>3. Len(f) = Len(g) BY <1>4, <2>1, <2>2
  <2> QED BY <2>1, <2>3
<1>5. bad' = [bad EXCEPT !.requests = bad.requests + 1] /\ bad.requests < MaxBadRequests
  BY DEF ClientSendBad
<1>6. bad.requests \in Nat /\ bad.requests + 1 \in 0 .. MaxBadRequests
  BY <1>1, <1>5, BoundAssumption DEF TypeOK
<1>7. /\ bad' \in [requests : 0 .. MaxBadRequests, replies : 0 .. MaxBadReplies]
      /\ bad'.requests # 0
  <2>1. bad \in [requests : 0 .. MaxBadRequests, replies : 0 .. MaxBadReplies] BY <1>1 DEF TypeOK
  <2>2. bad' \in [requests : 0 .. MaxBadRequests, replies : 0 .. MaxBadReplies]
        /\ bad'.requests = bad.requests + 1
    BY <1>5, <1>6, <2>1
  <2> QED BY <1>6, <2>2
<1> HIDE DEF f
<1>8. SendBytes(p, f, Waiting) BY <1>2 DEF f
<1>9. Unit(f, p, bad'.requests = 0) BY <1>4, <1>7 DEF Unit
<1>10. Base' BY <1>1, <1>3, <1>4, <1>7, <1>8, WaitingType, SendBase
<1>11. Sends(p, f) BY <1>3, <1>4, <1>7, <1>8, <1>9 DEF Sends, SendBytes
<1> QED BY <1>8, <1>10, <1>11, <1>12

LEMMA InterruptStep ==
  ASSUME Base, ClientInterrupt
  PROVE  Base' /\ Sends(Intr, Intr)
<1>1. TypeOK BY DEF Base
<1>2. SendBytes(Intr, Intr, client) /\ bad' = bad /\ client.mode = "reply" BY DEF ClientInterrupt
<1>3. Intr \in Packet /\ Intr \in Seq(Byte) BY DEF Packet, Intr, CTRLC, Byte
<1>4. Unit(Intr, Intr, bad'.requests = 0) BY DEF Unit
<1>5. client \in [mode : {"idle", "ack", "reply"}, noack : BOOLEAN, cur : 1 .. (Len(sent) + 1)]
  <2>1. client.cur \in Nat /\ client.cur >= 1 /\ client.cur <= Len(sent) /\ Len(sent) \in Nat
    BY <1>1, <1>2 DEF Base, TypeOK
  <2>2. client.cur \in 1 .. (Len(sent) + 1) BY <2>1
  <2> QED BY <1>1, <2>2 DEF TypeOK
<1>6. bad' \in [requests : 0 .. MaxBadRequests, replies : 0 .. MaxBadReplies]
  BY <1>1, <1>2 DEF TypeOK
<1>7. Base' BY <1>2, <1>3, <1>5, <1>6, SendBase
<1> QED BY <1>2, <1>3, <1>4, <1>7 DEF Sends, SendBytes

LEMMA TakenFacts ==
  ASSUME Base, Receive
  PROVE  /\ tx # <<>> /\ tx \in Seq(Item) /\ tx' = Tail(tx) /\ tx' \in Seq(Item) /\ Head(tx) = tx[1]
         /\ Len(tx) \in Nat /\ Len(tx) >= 1 /\ Len(tx') = Len(tx) - 1
         /\ \A i \in 1 .. Len(tx') : tx'[i] = tx[i + 1] /\ i + 1 \in 1 .. Len(tx)
         /\ \A i \in 1 .. Len(tx') : tx'[i].kind = "-" => phase = "exit"
         /\ Head(tx).kind = "-" => phase = "exit"
         /\ UNCHANGED <<stub, recv, phase, delivered, closed, sent, bad>>
<1>1. tx \in Seq(Item) /\ tx # <<>> /\ tx' = Tail(tx)
      /\ UNCHANGED <<stub, recv, phase, delivered, closed, sent, bad>>
  BY DEF Base, TypeOK, Receive, StubVars
<1>2. /\ Len(tx) \in Nat /\ Len(tx) >= 1 /\ Head(tx) = tx[1]
      /\ tx' \in Seq(Item) /\ Len(tx') = Len(tx) - 1
      /\ \A i \in 1 .. Len(tx') : tx'[i] = tx[i + 1]
  <2>1. tx \in Seq(Item) /\ tx # <<>> BY <1>1
  <2>2. /\ Len(tx) \in Nat /\ Len(tx) >= 1 /\ Head(tx) = tx[1]
        /\ Tail(tx) \in Seq(Item) /\ Len(Tail(tx)) = Len(tx) - 1
        /\ \A i \in 1 .. Len(Tail(tx)) : Tail(tx)[i] = tx[i + 1]
    BY <2>1, TailFacts
  <2> QED BY <1>1, <2>2
<1>3. \A i \in 1 .. Len(tx') : i + 1 \in 1 .. Len(tx)
  <2>1. Len(tx) \in Nat /\ Len(tx') = Len(tx) - 1 BY <1>2
  <2> QED BY <2>1
<1>4. \A i \in 1 .. Len(tx) : tx[i].kind = "-" => phase = "exit" BY DEF Base
<1>5. 1 \in 1 .. Len(tx) BY <1>2
<1>6. \A i \in 1 .. Len(tx') : tx'[i].kind = "-" => phase = "exit" BY <1>2, <1>3, <1>4
<1>7. Head(tx).kind = "-" => phase = "exit" BY <1>2, <1>4, <1>5
<1> QED BY <1>1, <1>2, <1>3, <1>6, <1>7

LEMMA BadSame == TypeOK => bad \in [requests : {bad.requests}, replies : 0 .. MaxBadReplies]
BY DEF TypeOK

\* A packet that comes where a + is expected is acknowledged.
Gobbles == Head(tx).kind \notin {"+", "-"} /\ rx' = Append(rx, PLUS)

LEMMA AwaitsAckStep ==
  ASSUME Base, ClientAwaitsAck
  PROVE  Base' /\ (phase = "exit" \/ rx' = rx \/ Gobbles)
<1>1. TypeOK BY DEF Base
<1>2. Receive /\ client.mode = "ack" BY DEF ClientAwaitsAck
<1>3. rx' \in Seq(Byte) /\ (phase = "exit" \/ rx' = rx \/ Gobbles)
  <2>1. rx \in Seq(Byte) /\ PLUS \in Byte BY <1>1 DEF TypeOK, PLUS, Byte
  <2>2. client.cur \in 1 .. Len(sent) /\ sent \in Seq(Packet)
    <3>1. client.cur \in Nat /\ client.cur >= 1 /\ client.cur <= Len(sent) /\ Len(sent) \in Nat
      BY <1>1, <1>2 DEF Base, TypeOK
    <3> QED BY <1>1, <3>1 DEF TypeOK, Packet
  <2>3. sent[client.cur] \in Packet BY <2>2
  <2>4. Framed(sent[client.cur]) \in Seq(Byte) BY <2>3, SentUnits
  <2>5. rx \o Framed(sent[client.cur]) \in Seq(Byte) BY <2>1, <2>4, Joined
  <2>6. Append(rx, PLUS) \in Seq(Byte) BY <2>1, AppendFacts
  <2>7. Head(tx).kind = "-" => phase = "exit" BY <1>2, TakenFacts
  <2>8. CASE Head(tx).kind = "+" BY <2>1, <2>8 DEF ClientAwaitsAck
  <2>9. CASE Head(tx).kind = "-"
    <3>1. rx' = rx \o Framed(sent[client.cur]) BY <2>9 DEF ClientAwaitsAck
    <3> QED BY <2>5, <2>7, <2>9, <3>1
  <2>10. CASE Head(tx).kind \notin {"+", "-"}
    <3>1. rx' = Append(rx, PLUS) BY <2>10 DEF ClientAwaitsAck
    <3> QED BY <2>6, <2>10, <3>1 DEF Gobbles
  <2> QED BY <2>8, <2>9, <2>10
<1>4. client' \in [mode : {"idle", "ack", "reply"}, noack : BOOLEAN, cur : {client.cur}]
  BY <1>1 DEF TypeOK, ClientAwaitsAck
<1>5. tx' \in Seq(Item) /\ (\A i \in 1 .. Len(tx') : tx'[i].kind = "-" => phase = "exit")
      /\ UNCHANGED <<stub, recv, phase, delivered, closed, sent, bad>>
  BY <1>2, TakenFacts
<1>6. closed' \in BOOLEAN /\ bad' \in [requests : {bad.requests}, replies : 0 .. MaxBadReplies]
  BY <1>1, <1>5, BadSame DEF TypeOK
<1>7. Base' BY <1>2, <1>3, <1>4, <1>5, <1>6, TakeBase
<1> QED BY <1>3, <1>7

LEMMA TakesReplyStep ==
  ASSUME Base, ClientTakesReply
  PROVE  Base' /\ rx' = IF client.noack THEN rx ELSE Append(rx, PLUS)
<1>1. TypeOK BY DEF Base
<1>2. Receive /\ client.mode = "reply" BY DEF ClientTakesReply
<1>3. rx' = IF client.noack THEN rx ELSE Append(rx, PLUS) BY DEF ClientTakesReply
<1>4. rx' \in Seq(Byte)
  <2>1. rx \in Seq(Byte) /\ PLUS \in Byte BY <1>1 DEF TypeOK, PLUS, Byte
  <2> QED BY <1>3, <2>1, AppendFacts
<1>5. client' \in [mode : {"idle", "ack", "reply"}, noack : BOOLEAN, cur : {client.cur}]
  <2>1. (client.noack \/ NoAck(sent[client.cur])) \in BOOLEAN OBVIOUS
  <2>2. client' = [client EXCEPT !.mode = "idle", !.noack = client.noack \/ NoAck(sent[client.cur])]
    BY DEF ClientTakesReply
  <2> QED BY <1>1, <2>1, <2>2 DEF TypeOK
<1>6. tx' \in Seq(Item) /\ (\A i \in 1 .. Len(tx') : tx'[i].kind = "-" => phase = "exit")
      /\ UNCHANGED <<stub, recv, phase, delivered, closed, sent, bad>>
  BY <1>2, TakenFacts
<1>7. closed' \in BOOLEAN /\ bad' \in [requests : {bad.requests}, replies : 0 .. MaxBadReplies]
  BY <1>1, <1>6, BadSame DEF TypeOK
<1>8. Base' BY <1>2, <1>4, <1>5, <1>6, <1>7, TakeBase
<1> QED BY <1>3, <1>8

LEMMA RejectsReplyStep ==
  ASSUME Base, ClientRejectsReply
  PROVE  Base' /\ rx' = Append(rx, MINUS)
<1>1. TypeOK BY DEF Base
<1>2. Receive /\ client.mode = "reply" /\ client' = client BY DEF ClientRejectsReply
<1>3. rx' = Append(rx, MINUS) BY DEF ClientRejectsReply
<1>4. rx' \in Seq(Byte)
  <2>1. rx \in Seq(Byte) /\ MINUS \in Byte BY <1>1 DEF TypeOK, MINUS, Byte
  <2> QED BY <1>3, <2>1, AppendFacts
<1>5. client' \in [mode : {"idle", "ack", "reply"}, noack : BOOLEAN, cur : {client.cur}]
  BY <1>1, <1>2 DEF TypeOK
<1>6. tx' \in Seq(Item) /\ (\A i \in 1 .. Len(tx') : tx'[i].kind = "-" => phase = "exit")
      /\ UNCHANGED <<stub, recv, phase, delivered, closed, sent, bad>>
  BY <1>2, TakenFacts
<1>7. closed' \in BOOLEAN /\ bad' \in [requests : {bad.requests}, replies : 0 .. MaxBadReplies]
  BY <1>1, <1>6, BadSame DEF TypeOK
<1>8. Base' BY <1>2, <1>4, <1>5, <1>6, <1>7, TakeBase
<1> QED BY <1>3, <1>8

\* A damaged reply keeps its place and its number.
Spoiled(i) == /\ i \in 1 .. Len(tx) /\ tx[i].kind = "reply" /\ tx' \in Seq(Item) /\ Len(tx') = Len(tx)
              /\ \A j \in 1 .. Len(tx) : j # i => tx'[j] = tx[j]
              /\ tx'[i].kind = "spoilt" /\ tx'[i].to = tx[i].to

LEMMA SpoilStep ==
  ASSUME Base, SpoilReply
  PROVE  Base' /\ (\E i : Spoiled(i)) /\ UNCHANGED <<StubVars, rx, closed, client, sent>>
         /\ bad'.replies = bad.replies + 1 /\ bad'.requests = bad.requests /\ bad.replies \in Nat
<1>1. TypeOK BY DEF Base
<1>2. tx \in Seq(Item) /\ Len(tx) \in Nat /\ DOMAIN tx = 1 .. Len(tx) BY <1>1 DEF TypeOK
<1>3. PICK i \in 1 .. Len(tx) : tx[i].kind = "reply" /\ tx' = [tx EXCEPT ![i].kind = "spoilt"]
  BY <1>2 DEF SpoilReply
<1> DEFINE x == [tx[i] EXCEPT !.kind = "spoilt"]
<1>4. x \in Item /\ x.kind = "spoilt" /\ x.to = tx[i].to
  <2>1. tx[i] \in Item BY <1>2
  <2> QED BY <2>1 DEF Item
<1>5. tx' = [tx EXCEPT ![i] = x] BY <1>3
<1> HIDE DEF x
<1>6. tx' \in Seq(Item) /\ Len(tx') = Len(tx) BY <1>2, <1>4, <1>5
<1>7. tx'[i] = x /\ \A j \in 1 .. Len(tx) : j # i => tx'[j] = tx[j] BY <1>2, <1>5
<1>8. Spoiled(i) BY <1>3, <1>4, <1>6, <1>7 DEF Spoiled
<1>9. \A j \in 1 .. Len(tx') : tx'[j].kind = "-" => phase = "exit"
  BY <1>4, <1>6, <1>7 DEF Base
<1>10. /\ UNCHANGED <<stub, recv, phase, delivered, rx, closed, client, sent>>
       /\ bad' = [bad EXCEPT !.replies = bad.replies + 1] /\ bad.replies < MaxBadReplies
  BY DEF SpoilReply, StubVars
<1>11. bad.replies \in Nat /\ bad.replies + 1 \in 0 .. MaxBadReplies
  BY <1>1, <1>10, BoundAssumption DEF TypeOK
<1>12. /\ bad' \in [requests : {bad.requests}, replies : 0 .. MaxBadReplies]
       /\ bad'.replies = bad.replies + 1 /\ bad'.requests = bad.requests
  BY <1>1, <1>10, <1>11 DEF TypeOK
<1>13. client' \in [mode : {"idle", "ack", "reply"}, noack : BOOLEAN, cur : {client.cur}]
       /\ rx' \in Seq(Byte) /\ closed' \in BOOLEAN
  BY <1>1, <1>10 DEF TypeOK
<1>14. Base' BY <1>6, <1>9, <1>10, <1>12, <1>13, TakeBase
<1> QED BY <1>8, <1>10, <1>11, <1>12, <1>14 DEF StubVars

LEMMA CloseStep ==
  ASSUME Base, ClientClose
  PROVE  Base' /\ UNCHANGED <<StubVars, rx, tx, client, sent, bad>>
<1>1. TypeOK BY DEF Base
<1>2. closed' = TRUE /\ UNCHANGED <<stub, recv, phase, delivered, rx, tx, client, sent, bad>>
  BY DEF ClientClose, StubVars
<1>3. client' \in [mode : {"idle", "ack", "reply"}, noack : BOOLEAN, cur : {client.cur}]
       /\ rx' \in Seq(Byte) /\ tx' \in Seq(Item) /\ closed' \in BOOLEAN
  BY <1>1, <1>2 DEF TypeOK
<1>4. bad' \in [requests : {bad.requests}, replies : 0 .. MaxBadReplies]
  BY <1>1, <1>2, BadSame
<1>5. \A j \in 1 .. Len(tx') : tx'[j].kind = "-" => phase = "exit" BY <1>2 DEF Base
<1>6. Base' BY <1>2, <1>3, <1>4, <1>5, TakeBase
<1> QED BY <1>2, <1>6 DEF StubVars

------------------------------------------------------------------------------
LinkInv == Base /\ (phase # "exit" => \E h, q, b : StreamAt(h, q, b))

LEMMA InitStream == Init => StreamAt(<<>>, <<>>, 0)
<1> SUFFICES ASSUME Init PROVE StreamAt(<<>>, <<>>, 0) OBVIOUS
<1>1. /\ sent = <<>> /\ rx = <<>> /\ Len(sent) = 0 /\ Len(delivered) = 0 /\ ~Inside
  BY DEF Init, Inside
<1>2. /\ <<>> \in Seq(Byte) /\ <<>> \in Seq(Packet) /\ Len(<<>>) = 0 /\ 1 .. 0 = {} OBVIOUS
<1>3. <<>> \in [1 .. 0 -> 1 .. 0]
  <2>1. <<>> = [i \in 1 .. 0 |-> 0] OBVIOUS
  <2> QED BY <2>1, <1>2
<1>4. Layout(<<>>, <<>>, sent, bad.requests = 0)
  BY <1>1, <1>2, <1>3 DEF Layout, Starts, Kinds, Ordered, Gaps
<1>5. Rest(<<>>, 0, rx) BY <1>1, <1>2 DEF Rest
<1>6. Cursor(<<>>, <<>>, 0, sent, Len(delivered), Inside, recv) BY <1>1, <1>2 DEF Cursor
<1> QED BY <1>4, <1>5, <1>6 DEF StreamAt

LEMMA ClientStream ==
  ASSUME NEW h, NEW q, NEW b, StreamAt(h, q, b), NEW p, NEW f, Sends(p, f)
  PROVE  \E z : z = Placed(q, Len(sent), Len(h) + 1) /\ StreamAt(h \o f, z, b)'
<1> DEFINE z == Placed(q, Len(sent), Len(h) + 1)
<1>1. PICK y : y = z OBVIOUS
<1>2. /\ p \in Packet /\ f \in Seq(Byte) /\ sent' = Append(sent, p) /\ rx' = rx \o f
      /\ UNCHANGED StubVars
      /\ bad'.requests = 0 => bad.requests = 0
      /\ Unit(f, p, bad'.requests = 0)
  BY DEF Sends
<1>3. StreamAt(h \o f, y, b)' BY <1>1, <1>2, StreamSends
<1> QED BY <1>1, <1>3

LEMMA LinkInductive == ~Reframing /\ LinkInv /\ [Next]_vars => LinkInv'
<1> SUFFICES ASSUME ~Reframing, LinkInv, [Next]_vars PROVE LinkInv' OBVIOUS
<1>0. Base /\ TypeOK BY DEF LinkInv, Base
<1>1. CASE UNCHANGED vars
  <2>1. Base' BY <1>0, <1>1 DEF vars, Base, TypeOK, Fresh, NoFailureWithoutFault, Undamaged
  <2>2. ASSUME NEW h, NEW q, NEW b, StreamAt(h, q, b) PROVE StreamAt(h, q, b)'
    <3>1. Inside' = Inside BY <1>1 DEF vars, Inside
    <3> QED BY <1>1, <2>2, <3>1, StreamRests DEF vars
  <2>3. phase' = phase BY <1>1 DEF vars
  <2> QED BY <2>1, <2>2, <2>3 DEF LinkInv
<1>2. CASE ProcessEntry
  <2>1. phase # "exit" BY <1>2 DEF ProcessEntry
  <2>2. PICK h, q, b : StreamAt(h, q, b) BY <2>1 DEF LinkInv
  <2>3. Base' /\ (phase' = "exit" \/ StreamAt(h, q, b)') BY <1>0, <1>2, <2>2, EntryStep
  <2> QED BY <2>3 DEF LinkInv
<1>3. CASE ReadEof
  <2>1. Base' /\ phase' = "exit" BY <1>0, <1>3, EofStep
  <2> QED BY <2>1 DEF LinkInv
<1>4. ASSUME NEW c \in Byte, Read(c),
             \/ WaitForDollar(c) \/ CtrlC(c) \/ ReadData(c)
             \/ FirstDigit(c) \/ SecondDigit(c) \/ AckFails(c)
      PROVE  LinkInv'
  <2>1. phase # "exit" BY <1>4 DEF Read
  <2>2. PICK h, q, b : StreamAt(h, q, b) BY <2>1 DEF LinkInv
  <2>3. CASE WaitForDollar(c)
    <3>1. Base' /\ StreamAt(h, q, b + 1)' BY <1>0, <1>4, <2>2, <2>3, GapStep
    <3> QED BY <3>1 DEF LinkInv
  <2>4. CASE CtrlC(c)
    <3>1. Base' /\ StreamAt(h, q, b + 1)' BY <1>0, <1>4, <2>2, <2>4, CtrlCStep
    <3> QED BY <3>1 DEF LinkInv
  <2>5. CASE ReadData(c)
    <3>1. Base' /\ StreamAt(h, q, b + 1)' BY <1>0, <1>4, <2>2, <2>5, DataStep
    <3> QED BY <3>1 DEF LinkInv
  <2>6. CASE FirstDigit(c)
    <3>1. Base' /\ StreamAt(h, q, b + 1)' BY <1>0, <1>4, <2>2, <2>6, FirstDigitStep
    <3> QED BY <3>1 DEF LinkInv
  <2>7. CASE SecondDigit(c) \/ AckFails(c)
    <3>1. Base' /\ (phase' = "exit" \/ StreamAt(h, q, b + 1)')
      BY <1>0, <1>4, <2>2, <2>7, SecondDigitStep
    <3> QED BY <3>1 DEF LinkInv
  <2> QED BY <1>4, <2>3, <2>4, <2>5, <2>6, <2>7
<1>5. CASE TargetStops \/ Poll
  <2>1. phase # "exit" BY <1>5 DEF TargetStops, Poll
  <2>2. PICK h, q, b : StreamAt(h, q, b) BY <2>1 DEF LinkInv
  <2>3. Base' /\ StreamAt(h, q, b)' BY <1>0, <1>5, <2>2, RunStep
  <2> QED BY <2>3 DEF LinkInv
<1>6. ASSUME NEW p, NEW f, Base', Sends(p, f) PROVE LinkInv'
  <2>1. phase' = phase BY <1>6 DEF Sends, StubVars
  <2>2. ASSUME NEW h, NEW q, NEW b, StreamAt(h, q, b) PROVE \E x, y, z : StreamAt(x, y, z)'
    BY <1>6, <2>2, ClientStream
  <2> QED BY <1>6, <2>1, <2>2 DEF LinkInv
<1>7. ASSUME NEW p \in Payloads, ClientSend(p) PROVE LinkInv' BY <1>0, <1>6, <1>7, SendStep
<1>8. ASSUME NEW p \in Payloads, ClientSendBad(p) PROVE LinkInv' BY <1>0, <1>6, <1>8, SendBadStep
<1>9. CASE ClientInterrupt BY <1>0, <1>6, <1>9, InterruptStep
<1>10. ASSUME Base', phase' = phase, UNCHANGED <<StubVars, rx, sent>>, bad'.requests = bad.requests
       PROVE  LinkInv'
  <2>1. Inside' = Inside /\ recv' = recv /\ delivered' = delivered
    BY <1>10 DEF StubVars, Inside
  <2>2. ASSUME NEW h, NEW q, NEW b, StreamAt(h, q, b) PROVE StreamAt(h, q, b)'
    BY <1>10, <2>1, <2>2, StreamRests
  <2> QED BY <1>10, <2>2 DEF LinkInv
<1>11. ASSUME Base', NEW c \in {PLUS, MINUS}, rx' = Append(rx, c), UNCHANGED <<StubVars, sent, bad>>
       PROVE  LinkInv'
  <2>1. phase' = phase BY <1>11 DEF StubVars
  <2>2. ASSUME NEW h, NEW q, NEW b, StreamAt(h, q, b) PROVE StreamAt(h \o <<c>>, q, b)'
    BY <1>11, <2>2, StreamPads
  <2> QED BY <1>11, <2>1, <2>2 DEF LinkInv
<1>12. CASE ClientAwaitsAck
  <2>1. Base' /\ (phase = "exit" \/ rx' = rx \/ Gobbles) BY <1>0, <1>12, AwaitsAckStep
  <2>2. UNCHANGED <<StubVars, sent, bad>> /\ phase' = phase
    BY <1>12 DEF ClientAwaitsAck, Receive, StubVars
  <2>3. CASE phase = "exit" BY <2>1, <2>2, <2>3 DEF LinkInv
  <2>4. CASE rx' = rx BY <1>10, <2>1, <2>2, <2>4
  <2>5. CASE Gobbles BY <1>11, <2>1, <2>2, <2>5 DEF Gobbles
  <2> QED BY <2>1, <2>3, <2>4, <2>5
<1>13. CASE ClientTakesReply
  <2>1. Base' /\ rx' = IF client.noack THEN rx ELSE Append(rx, PLUS) BY <1>0, <1>13, TakesReplyStep
  <2>2. UNCHANGED <<StubVars, sent, bad>> /\ phase' = phase
    BY <1>13 DEF ClientTakesReply, Receive, StubVars
  <2>3. CASE client.noack BY <1>10, <2>1, <2>2, <2>3
  <2>4. CASE ~client.noack BY <1>11, <2>1, <2>2, <2>4
  <2> QED BY <2>3, <2>4
<1>14. CASE ClientRejectsReply
  <2>1. Base' /\ rx' = Append(rx, MINUS) BY <1>0, <1>14, RejectsReplyStep
  <2>2. UNCHANGED <<StubVars, sent, bad>> BY <1>14 DEF ClientRejectsReply, Receive
  <2> QED BY <1>11, <2>1, <2>2
<1>15. CASE SpoilReply
  <2>1. Base' /\ UNCHANGED <<StubVars, rx, closed, client, sent>> /\ bad'.requests = bad.requests
    BY <1>0, <1>15, SpoilStep
  <2>2. phase' = phase BY <2>1 DEF StubVars
  <2> QED BY <1>10, <2>1, <2>2
<1>16. CASE ClientClose
  <2>1. Base' /\ UNCHANGED <<StubVars, rx, tx, client, sent, bad>> BY <1>0, <1>16, CloseStep
  <2>2. phase' = phase BY <2>1 DEF StubVars
  <2> QED BY <1>10, <2>1, <2>2
<1>17. ~ClientTimeout BY DEF ClientTimeout
<1> QED
  BY <1>1, <1>2, <1>3, <1>4, <1>5, <1>7, <1>8, <1>9, <1>12, <1>13, <1>14, <1>15, <1>16, <1>17
  DEF Next, Stub, receive_packet, ClientReads

LEMMA LinkInvariant == ~Reframing => (Spec => []LinkInv)
<1> SUFFICES ASSUME ~Reframing PROVE Spec => []LinkInv OBVIOUS
<1>1. Init => LinkInv BY InitBase, InitStream DEF LinkInv
<1>2. LinkInv /\ [Next]_vars => LinkInv' BY LinkInductive
<1> QED BY <1>1, <1>2, PTL DEF Spec

\* If damage leaves the $ and the # of every packet in their places, every variable of the
\* connection keeps its type: in particular the buffer of receive_packet is never filled
\* beyond its last byte but one, the failure counter never passes its limit, and no reply
\* is numbered beyond the packets that were sent.
THEOREM TypeCorrect == ~Reframing => (Spec => []TypeOK)
<1>1. LinkInv => TypeOK BY DEF LinkInv, Base
<1> QED BY <1>1, LinkInvariant, PTL

\* Under the same hypothesis, as long as no byte was damaged, every packet fits the buffer
\* and the debugger has not closed, receive_packet has never counted a failure.
THEOREM SoundLinkNeverFails == ~Reframing => (Spec => []NoFailureWithoutFault)
<1>1. LinkInv => NoFailureWithoutFault BY DEF LinkInv, Base
<1> QED BY <1>1, LinkInvariant, PTL

------------------------------------------------------------------------------
(***************************************************************************)
(* The refinement of PacketChannel.  A packet longer than the buffer is    *)
(* cut, and the checksum is taken over what was kept: the check notices    *)
(* the loss only when the dropped bytes do not sum to 0, so the theorem    *)
(* is about packets that fit.                                              *)
(***************************************************************************)
Fitting == \A p \in Packet : Len(p) < BufSize

LEMMA ChannelSends ==
  ASSUME NEW p, NEW f, Sends(p, f)
  PROVE  Channel!Next
<1>1. p \in Packet /\ sent' = Append(sent, p) /\ delivered' = delivered BY DEF Sends, StubVars
<1> QED BY <1>1 DEF Packet, Channel!Next, Channel!Send

LEMMA ChannelStep ==
  ASSUME ~Reframing, Fitting, LinkInv, [Next]_vars
  PROVE  [Channel!Next]_<<sent, delivered>>
<1>0. Base /\ TypeOK BY DEF LinkInv, Base
<1>1. CASE UNCHANGED <<sent, delivered>> BY <1>1
<1>2. ASSUME NEW c \in Byte, Read(c), CtrlC(c) \/ SecondDigit(c), delivered' # delivered
      PROVE  Channel!Next
  <2>1. phase # "exit" BY <1>2 DEF Read
  <2>2. PICK h, q, b : StreamAt(h, q, b) BY <2>1 DEF LinkInv
  <2>3. delivered \in Seq(Seq(Byte)) /\ recv \in RecvRec /\ sent' = sent
    BY <1>0, <1>2, RecvFacts DEF TypeOK, Read
  <2>4. CASE CtrlC(c)
    <3>1. Len(delivered) < Len(sent) /\ sent[Len(delivered) + 1] = Intr
      BY <1>2, <2>2, <2>3, <2>4, ReadsInterrupt
    <3>2. delivered' = Append(delivered, Intr) BY <2>4 DEF CtrlC, Dispatch
    <3> QED BY <2>3, <3>1, <3>2 DEF Channel!Next, Channel!Deliver
  <2>5. CASE SecondDigit(c)
    <3>1. recv.state = 2 /\ recv.index = 1 BY <2>5 DEF SecondDigit
    <3>2. LastByte(h, q, b, Len(delivered), sent[Len(delivered) + 1], c)
      BY <1>2, <2>2, <2>3, <3>1, ReadsLastByte
    <3>3. ChecksumOk(Digit(c)) /\ delivered' = Append(delivered, recv.buf)
      BY <1>2, <2>5 DEF SecondDigit, Dispatch
    <3>4. Len(sent[Len(delivered) + 1]) < BufSize /\ Len(delivered) < Len(sent)
      BY <3>2 DEF LastByte, Fitting
    <3>5. recv.buf = sent[Len(delivered) + 1] BY <3>2, <3>3, <3>4 DEF LastByte
    <3> QED BY <2>3, <3>3, <3>4, <3>5 DEF Channel!Next, Channel!Deliver
  <2> QED BY <1>2, <2>4, <2>5
<1>3. ASSUME NEW p \in Payloads, ClientSend(p) PROVE Channel!Next
  BY <1>0, <1>3, SendStep, ChannelSends
<1>4. ASSUME NEW p \in Payloads, ClientSendBad(p) PROVE Channel!Next
  BY <1>0, <1>4, SendBadStep, ChannelSends
<1>5. CASE ClientInterrupt BY <1>0, <1>5, InterruptStep, ChannelSends
<1>6. CASE UNCHANGED vars BY <1>1, <1>6 DEF vars
<1>7. CASE Stub \/ TargetStops
  <2>1. CASE ProcessEntry \/ ReadEof \/ TargetStops \/ Poll
    BY <1>1, <2>1 DEF ProcessEntry, ReadEof, TargetStops, Poll, StopReply
  <2>2. ASSUME NEW c \in Byte, Read(c), WaitForDollar(c) \/ ReadData(c) \/ FirstDigit(c) \/ AckFails(c)
        PROVE  UNCHANGED <<sent, delivered>>
    BY <2>2 DEF Read, WaitForDollar, ReadData, FirstDigit, AckFails, Stay
  <2>3. ASSUME NEW c \in Byte, Read(c), CtrlC(c) \/ SecondDigit(c)
        PROVE  Channel!Next \/ UNCHANGED <<sent, delivered>>
    <3>1. sent' = sent BY <2>3 DEF Read
    <3> QED BY <1>2, <2>3, <3>1
  <2> QED BY <1>7, <2>1, <2>2, <2>3 DEF Stub, receive_packet
<1>8. CASE ClientReads \/ SpoilReply \/ ClientClose
  BY <1>1, <1>8 DEF ClientReads, ClientAwaitsAck, ClientTakesReply, ClientRejectsReply, ClientTimeout,
     Receive, SpoilReply, ClientClose, StubVars
<1> QED BY <1>3, <1>4, <1>5, <1>6, <1>7, <1>8 DEF Next

\* receive_packet hands the packets of the debugger to the handlers whole, in the order
\* in which they were sent and at most once each, whatever byte of the data or of the
\* checksum of a packet is damaged and whatever lies between the packets, if the packets
\* fit packet_buffer with its terminator and damage does not make or unmake a #.
THEOREM ChannelImplemented == ~Reframing /\ Fitting => (Spec => ImplementsPacketChannel)
<1> SUFFICES ASSUME ~Reframing, Fitting PROVE Spec => ImplementsPacketChannel OBVIOUS
<1>1. Init => Channel!Init BY DEF Init, Channel!Init
<1>2. LinkInv /\ [Next]_vars => [Channel!Next]_<<sent, delivered>> BY ChannelStep
<1> QED BY <1>1, <1>2, LinkInvariant, PTL DEF Spec, ImplementsPacketChannel, Channel!Spec

------------------------------------------------------------------------------
(***************************************************************************)
(* The conversation, for packets that fit and a debugger that does not     *)
(* interrupt a run in no-ack mode, and for any debugger until it goes on   *)
(* after its first interrupt.                                              *)
(***************************************************************************)
Polite == TRUE \notin Interrupts
Civil  == Polite \/ Calm

\* What the debugger can have on its way to it while it waits for packet n: nothing that
\* confirms a packet, or one confirmation with the reply, if there is one, behind it.
Silent(t) == \A i \in 1 .. Len(t) : t[i].kind # "+"

ConfirmedBy(t, n, ph, j) ==
  /\ j \in 1 .. Len(t) /\ t[j].kind = "+"
  /\ \A i \in 1 .. Len(t) : t[i].kind = "+" => i = j
  /\ \/ j = Len(t) /\ ph \in {"run", "exit"}
     \/ j + 1 = Len(t) /\ ph # "run" /\ t[j + 1].to = n

Confirmed(t, n, ph) == \E j : ConfirmedBy(t, n, ph, j)

\* Nobody has interrupted: requests and replies take turns.
Alternating ==
  /\ client.mode = "idle" => Len(delivered) = client.cur /\ tx = <<>>
  /\ tx # <<>> => Len(delivered) = client.cur /\ tx = <<Reply(client.cur)>> /\ phase # "run"
  /\ Len(delivered) = client.cur /\ tx = <<>> /\ client.mode = "reply" => phase \in {"run", "exit"}

\* The debugger works without acknowledgements.
Settled ==
  client.noack =>
    /\ client.cur >= 1 /\ client.cur <= Len(delivered) + 1
    /\ stub.no_ack_mode /\ client.mode # "ack"
    /\ Polite => Len(sent) = client.cur
    /\ client.mode = "idle" => Len(delivered) >= client.cur
    /\ Len(delivered) < client.cur => tx = <<>>
    /\ \A i \in 1 .. Len(tx) : tx[i].kind = "reply"
    /\ Len(sent) = client.cur => Alternating

\* The debugger waits for a +, ...
Asking ==
  ~client.noack /\ client.mode = "ack" =>
    /\ Len(sent) = client.cur
    /\ Len(delivered) < client.cur => Silent(tx)
    /\ Len(delivered) = client.cur => Confirmed(tx, client.cur, phase)

\* ... for a reply, or for nothing.
Heard ==
  ~client.noack /\ client.mode # "ack" => Len(delivered) >= client.cur /\ Silent(tx)

Listening ==
  ~client.noack /\ client.mode = "reply" =>
    /\ ~Resumes(sent[client.cur]) => Len(sent) = client.cur /\ Len(tx) <= 1
    /\ bad.replies = 0 /\ tx # <<>> => tx[1].to = client.cur
    /\ bad.replies = 0 /\ tx = <<>> => Len(delivered) = client.cur /\ phase \in {"run", "exit"}

\* The stub has stopped to acknowledge when the packet that asks for it was delivered.
Agreed ==
  /\ ~client.noack /\ stub.no_ack_mode =>
       /\ client.cur >= 1 /\ Len(delivered) >= client.cur /\ client.mode # "idle"
       /\ NoAck(sent[client.cur])
  /\ client.cur >= 1 /\ Len(delivered) >= client.cur /\ NoAck(sent[client.cur])
       => stub.no_ack_mode

Running ==
  phase = "run" =>
    /\ client.mode # "idle" /\ Resumes(sent[client.cur]) /\ Len(delivered) = client.cur
    /\ client.mode = "reply" => tx = <<>>

SpoiltCounted == \A i \in 1 .. Len(tx) : tx[i].kind = "spoilt" => bad.replies # 0

Talk == Settled /\ Asking /\ Heard /\ Listening /\ Agreed /\ Running /\ SpoiltCounted

\* Before the first interrupt, and while packets are acknowledged, the debugger is in
\* front of nothing but the answer it waits for.  Behind the packet it has sent last
\* there are at most interrupts.
Later == \A i \in 1 .. Len(sent) : client.cur < i => sent[i] = Intr

Prompt ==
  Calm /\ phase # "exit" /\ Len(sent) = client.cur /\ ~client.noack =>
    /\ client.cur <= Len(delivered) + 1
    /\ client.mode = "idle" => tx = <<>>
    /\ client.mode = "ack" => /\ Len(delivered) < client.cur => tx = <<>>
                              /\ Len(delivered) = client.cur => tx # <<>> /\ tx[1].kind = "+"
    /\ client.mode = "reply" => Len(tx) <= 1

\* Of the packets not yet delivered only the one the debugger waits for is a frame; up to
\* the first interrupted run, only interrupts are behind it or behind the target's start.
Solo(h, q, b) ==
  /\ \A k \in 1 .. Len(sent) : Len(delivered) < k => (h[q[k]] = DOLLAR <=> k = client.cur)
  /\ Calm /\ Len(delivered) < client.cur =>
       \A a \in 1 .. Len(h) : q[client.cur] + Len(sent[client.cur]) + 3 < a => h[a] = CTRLC
  /\ Calm /\ phase = "run" => \A a \in 1 .. Len(h) : b < a => h[a] = CTRLC

LEMMA EmptyFacts == ASSUME NEW S, NEW t \in Seq(S) PROVE Len(t) \in Nat /\ (t = <<>> <=> Len(t) = 0)
OBVIOUS

LEMMA SilentAppend ==
  ASSUME NEW t \in Seq(Item), NEW x \in Item, x.kind # "+", Silent(t)
  PROVE  Silent(Append(t, x))
<1>1. /\ Len(Append(t, x)) = Len(t) + 1 /\ Len(t) \in Nat
      /\ \A i \in 1 .. Len(t) : Append(t, x)[i] = t[i]
      /\ Append(t, x)[Len(t) + 1] = x
  BY AppendFacts
<1> SUFFICES ASSUME NEW i \in 1 .. Len(Append(t, x)) PROVE Append(t, x)[i].kind # "+" BY DEF Silent
<1>2. CASE i = Len(t) + 1 BY <1>1, <1>2
<1>3. CASE i # Len(t) + 1
  <2>1. i \in 1 .. Len(t) BY <1>1, <1>3
  <2> QED BY <1>1, <2>1 DEF Silent
<1> QED BY <1>2, <1>3

\* A packet is confirmed: without a reply, or with one.
LEMMA ConfirmedNew ==
  ASSUME NEW t \in Seq(Item), Silent(t), NEW n \in 0 .. MaxPackets, NEW ph
  PROVE  /\ ph \in {"run", "exit"} => Confirmed(Append(t, Ack), n, ph)
         /\ ph # "run" => Confirmed(Append(Append(t, Ack), Reply(n)), n, ph)
<1> DEFINE u == Append(t, Ack)
           v == Append(u, Reply(n))
           j == Len(t) + 1
<1>0. Ack \in Item /\ Ack.kind = "+" /\ Reply(n) \in Item /\ Reply(n).kind = "reply" /\ Reply(n).to = n
  BY ItemTypes
<1>1. /\ u \in Seq(Item) /\ Len(u) = Len(t) + 1 /\ Len(t) \in Nat
      /\ \A i \in 1 .. Len(t) : u[i] = t[i]
      /\ u[Len(t) + 1] = Ack
  BY <1>0, AppendFacts
<1>2. /\ v \in Seq(Item) /\ Len(v) = Len(u) + 1 /\ Len(u) \in Nat
      /\ \A i \in 1 .. Len(u) : v[i] = u[i]
      /\ v[Len(u) + 1] = Reply(n)
  <2>1. u \in Seq(Item) /\ Reply(n) \in Item BY <1>0, <1>1
  <2> HIDE DEF u
  <2> QED BY <2>1, AppendFacts
<1> HIDE DEF u, v
<1>3. ASSUME NEW i \in 1 .. Len(u), u[i].kind = "+" PROVE i = j
  <2>1. CASE i \in 1 .. Len(t) BY <1>1, <1>3, <2>1 DEF Silent
  <2> QED BY <1>1, <2>1
<1>4. j \in 1 .. Len(u) /\ u[j].kind = "+" /\ j = Len(u) BY <1>0, <1>1
<1>5. ph \in {"run", "exit"} => ConfirmedBy(u, n, ph, j) BY <1>3, <1>4 DEF ConfirmedBy
<1>6. j \in 1 .. Len(v) /\ v[j].kind = "+" /\ j + 1 = Len(v) /\ v[j + 1] = Reply(n)
  BY <1>1, <1>2, <1>4
<1>7. ASSUME NEW i \in 1 .. Len(v), v[i].kind = "+" PROVE i = j
  <2>1. CASE i = Len(u) + 1
    <3>1. v[i].kind = "reply" BY <1>0, <1>2, <2>1
    <3> QED BY <1>7, <3>1
  <2>2. CASE i # Len(u) + 1
    <3>1. i \in 1 .. Len(u) BY <1>2, <2>2
    <3> QED BY <1>2, <1>3, <1>7, <3>1
  <2> QED BY <2>1, <2>2
<1>8. ph # "run" => ConfirmedBy(v, n, ph, j) BY <1>0, <1>6, <1>7 DEF ConfirmedBy
<1> QED BY <1>5, <1>8 DEF Confirmed, u, v

\* The run that was confirmed ends.
LEMMA ConfirmedStop ==
  ASSUME NEW t \in Seq(Item), NEW n \in 0 .. MaxPackets, Confirmed(t, n, "run")
  PROVE  Confirmed(Append(t, Reply(n)), n, "process")
<1> DEFINE v == Append(t, Reply(n))
<1>0. Reply(n) \in Item /\ Reply(n).kind = "reply" /\ Reply(n).to = n BY ItemTypes
<1>1. PICK j : ConfirmedBy(t, n, "run", j) BY DEF Confirmed
<1>2. /\ Len(v) = Len(t) + 1 /\ Len(t) \in Nat
      /\ \A i \in 1 .. Len(t) : v[i] = t[i]
      /\ v[Len(t) + 1] = Reply(n)
  BY <1>0, AppendFacts
<1> HIDE DEF v
<1>3. j \in 1 .. Len(t) /\ j = Len(t) /\ t[j].kind = "+" BY <1>1 DEF ConfirmedBy
<1>4. j \in 1 .. Len(v) /\ v[j].kind = "+" /\ j + 1 = Len(v) /\ v[j + 1].to = n BY <1>0, <1>2, <1>3
<1>5. ASSUME NEW i \in 1 .. Len(v), v[i].kind = "+" PROVE i = j
  <2>1. CASE i = Len(t) + 1
    <3>1. v[i].kind = "reply" BY <1>0, <1>2, <2>1
    <3> QED BY <1>5, <3>1
  <2>2. CASE i # Len(t) + 1
    <3>1. i \in 1 .. Len(t) BY <1>2, <2>2
    <3> QED BY <1>1, <1>2, <1>5, <3>1 DEF ConfirmedBy
  <2> QED BY <2>1, <2>2
<1>6. ConfirmedBy(v, n, "process", j) BY <1>4, <1>5 DEF ConfirmedBy
<1> QED BY <1>6 DEF Confirmed, v

\* The debugger takes something.
LEMMA ConfirmedTail ==
  ASSUME NEW t \in Seq(Item), NEW u \in Seq(Item), NEW n, NEW ph, Confirmed(t, n, ph),
         Len(t) >= 1, Len(u) = Len(t) - 1, \A i \in 1 .. Len(u) : u[i] = t[i + 1]
  PROVE  /\ t[1].kind # "+" => Confirmed(u, n, ph)
         /\ t[1].kind = "+" => /\ Silent(u)
                               /\ \/ Len(u) = 0 /\ ph \in {"run", "exit"}
                                  \/ Len(u) = 1 /\ ph # "run" /\ u[1].to = n
<1>0. Len(t) \in Nat /\ Len(u) \in Nat OBVIOUS
<1>1. PICK j : ConfirmedBy(t, n, ph, j) BY DEF Confirmed
<1>2. /\ j \in 1 .. Len(t) /\ t[j].kind = "+" /\ \A i \in 1 .. Len(t) : t[i].kind = "+" => i = j
      /\ \/ j = Len(t) /\ ph \in {"run", "exit"}
         \/ j + 1 = Len(t) /\ ph # "run" /\ t[j + 1].to = n
  BY <1>1 DEF ConfirmedBy
<1>3. \A i \in 1 .. Len(u) : i + 1 \in 1 .. Len(t) BY <1>0
<1>4. ASSUME NEW i \in 1 .. Len(u), u[i].kind = "+" PROVE i + 1 = j BY <1>2, <1>3, <1>4
<1>5. ASSUME t[1].kind # "+" PROVE Confirmed(u, n, ph)
  <2>1. j # 1 BY <1>2, <1>5
  <2>2. j - 1 \in 1 .. Len(u) /\ (j - 1) + 1 = j
    <3>1. j \in 1 .. Len(t) BY <1>2
    <3> QED BY <1>0, <2>1, <3>1
  <2>3. u[j - 1] = t[j] BY <2>2
  <2>4. ASSUME NEW i \in 1 .. Len(u), u[i].kind = "+" PROVE i = j - 1
    <3>1. i + 1 = j /\ i \in Nat BY <1>4, <2>4
    <3> QED BY <3>1
  <2>5. CASE j = Len(t) /\ ph \in {"run", "exit"}
    <3>1. j - 1 = Len(u) BY <1>0, <2>5
    <3>2. ConfirmedBy(u, n, ph, j - 1) BY <1>2, <2>2, <2>3, <2>4, <2>5, <3>1 DEF ConfirmedBy
    <3> QED BY <3>2 DEF Confirmed
  <2>6. CASE j + 1 = Len(t) /\ ph # "run" /\ t[j + 1].to = n
    <3>1. j \in Nat /\ (j - 1) + 1 = Len(u) /\ j \in 1 .. Len(u) BY <1>0, <2>2, <2>6
    <3>2. u[(j - 1) + 1] = t[j + 1] BY <2>2, <3>1
    <3>3. ConfirmedBy(u, n, ph, j - 1)
      BY <1>2, <2>2, <2>3, <2>4, <2>6, <3>1, <3>2 DEF ConfirmedBy
    <3> QED BY <3>3 DEF Confirmed
  <2> QED BY <1>2, <2>5, <2>6
<1>6. ASSUME t[1].kind = "+"
      PROVE  /\ Silent(u)
             /\ \/ Len(u) = 0 /\ ph \in {"run", "exit"}
                \/ Len(u) = 1 /\ ph # "run" /\ u[1].to = n
  <2>1. 1 \in 1 .. Len(t) BY <1>0
  <2>2. j = 1 BY <1>2, <1>6, <2>1
  <2>3. ASSUME NEW i \in 1 .. Len(u) PROVE u[i].kind # "+"
    <3>1. i + 1 # 1 /\ i \in Nat OBVIOUS
    <3> QED BY <1>4, <2>2, <3>1
  <2>6. Silent(u) BY <2>3 DEF Silent
  <2>4. CASE j = Len(t) /\ ph \in {"run", "exit"}
    <3>1. Len(t) = 1 BY <2>2, <2>4
    <3>2. Len(u) = 0 BY <3>1
    <3> QED BY <2>4, <2>6, <3>2
  <2>5. CASE j + 1 = Len(t) /\ ph # "run" /\ t[j + 1].to = n
    <3>3. 1 + 1 = Len(t) BY <2>2, <2>5
    <3>4. \A x \in Nat : 1 + 1 = x => x = 2 OBVIOUS
    <3>0. Len(t) = 2 BY <1>0, <3>3, <3>4
    <3>1. Len(u) = 1 /\ 1 \in 1 .. Len(u) BY <3>0
    <3>2. u[1] = t[j + 1] BY <2>2, <3>1
    <3> QED BY <2>5, <2>6, <3>1, <3>2
  <2> QED BY <1>2, <2>4, <2>5
<1> QED BY <1>5, <1>6

Shape ==
  /\ Len(delivered) \in Nat /\ Len(sent) \in Nat /\ client.cur \in Nat /\ bad.replies \in Nat
  /\ Len(delivered) <= Len(sent) /\ client.cur <= Len(sent) /\ Len(sent) <= MaxPackets
  /\ client.mode # "idle" => client.cur >= 1
  /\ client.mode \in {"idle", "ack", "reply"} /\ client.noack \in BOOLEAN
  /\ tx \in Seq(Item) /\ Len(tx) \in Nat /\ sent \in Seq(Packet) /\ delivered \in Seq(Seq(Byte))
  /\ stub.no_ack_mode \in BOOLEAN

LEMMA BaseShape == Base => Shape
<1> SUFFICES ASSUME Base PROVE Shape OBVIOUS
<1>1. TypeOK BY DEF Base
<1>2. tx \in Seq(Item) /\ sent \in Seq(Packet) /\ delivered \in Seq(Seq(Byte)) BY <1>1 DEF TypeOK, Packet
<1>3. Len(tx) \in Nat /\ Len(sent) \in Nat /\ Len(delivered) \in Nat BY <1>2
<1>4. client.cur \in Nat /\ client.mode \in {"idle", "ack", "reply"} /\ client.noack \in BOOLEAN
  BY <1>1 DEF TypeOK
<1>5. bad.replies \in Nat /\ stub.no_ack_mode \in BOOLEAN BY <1>1 DEF TypeOK
<1>6. Len(sent) <= MaxPackets BY <1>1 DEF TypeOK
<1> QED BY <1>2, <1>3, <1>4, <1>5, <1>6 DEF Shape, Base

LEMMA CmdFacts ==
  ASSUME NEW p
  PROVE  /\ NoAck(p) => ~Resumes(p) /\ ~Kill(p) /\ ~Detach(p) /\ AnswersNow(p)
         /\ Resumes(p) => ~Kill(p) /\ ~Detach(p) /\ ~AnswersNow(p)
         /\ ~AnswersNow(p) <=> Resumes(p) \/ Kill(p)
         /\ AnswersNow(Intr) /\ ~NoAck(Intr) /\ ~Kill(Intr) /\ ~Detach(Intr) /\ ~Resumes(Intr)
<1>1. Cmd(Intr) = 3 BY DEF Cmd, Intr, CTRLC
<1>2. \A r : /\ NoAck(r) <=> Cmd(r) = 81
             /\ Resumes(r) <=> Cmd(r) = 99 \/ Cmd(r) = 115
             /\ Detach(r) <=> Cmd(r) = 68
             /\ Kill(r) <=> Cmd(r) = 107
             /\ AnswersNow(r) <=> ~Resumes(r) /\ ~Kill(r)
  BY DEF NoAck, Resumes, Detach, Kill, AnswersNow
<1> QED BY <1>1, <1>2

\* Steps that only move the stub.
LEMMA TalkRests ==
  ASSUME Talk, UNCHANGED <<tx, client, sent, delivered, bad>>,
         stub'.no_ack_mode = stub.no_ack_mode,
         \/ phase' = phase
         \/ phase # "run" /\ phase' # "run" /\ (phase = "exit" => phase' = "exit")
  PROVE  Talk'
<1>1. Settled' BY DEF Talk, Settled, Alternating
<1>2. \A t, n : Confirmed(t, n, phase) => Confirmed(t, n, phase') BY DEF Confirmed, ConfirmedBy
<1>3. Asking' BY <1>2 DEF Talk, Asking
<1>4. Heard' BY DEF Talk, Heard
<1>5. Listening' BY DEF Talk, Listening
<1>6. Agreed' BY DEF Talk, Agreed
<1>7. Running' BY DEF Talk, Running
<1>8. SpoiltCounted' BY DEF Talk, SpoiltCounted
<1> QED BY <1>1, <1>3, <1>4, <1>5, <1>6, <1>7, <1>8 DEF Talk

\* The stub rejects the packet the debugger waits for, and leaves.
LEMMA TalkNack ==
  ASSUME Shape, Talk, Len(delivered) < client.cur, ~stub.no_ack_mode, tx' = Append(tx, Nack),
         UNCHANGED <<client, sent, delivered, bad>>, stub'.no_ack_mode = stub.no_ack_mode,
         phase' = "exit"
  PROVE  Talk'
<1>0. Nack \in Item /\ Nack.kind = "-" BY ItemTypes
<1>1. ~client.noack BY DEF Talk, Settled
<1>2. client.mode = "ack" BY <1>1 DEF Talk, Heard, Shape
<1>3. Len(sent) = client.cur /\ Silent(tx) BY <1>1, <1>2 DEF Talk, Asking
<1>4. Silent(tx') BY <1>0, <1>3, SilentAppend DEF Shape
<1>5. Asking'
  <2>1. Len(delivered') # client'.cur BY DEF Shape
  <2> QED BY <1>3, <1>4, <2>1 DEF Asking
<1>6. SpoiltCounted'
  <2>1. /\ Len(tx') = Len(tx) + 1 /\ Len(tx) \in Nat
        /\ \A i \in 1 .. Len(tx) : tx'[i] = tx[i]
        /\ tx'[Len(tx) + 1] = Nack
    BY <1>0, AppendFacts DEF Shape
  <2> SUFFICES ASSUME NEW i \in 1 .. Len(tx'), tx'[i].kind = "spoilt" PROVE bad'.replies # 0
    BY DEF SpoiltCounted
  <2>2. i # Len(tx) + 1 BY <1>0, <2>1
  <2>3. i \in 1 .. Len(tx) BY <2>1, <2>2
  <2> QED BY <2>1, <2>3 DEF Talk, SpoiltCounted
<1>7. Settled' /\ Heard' /\ Listening' BY <1>1, <1>2 DEF Settled, Heard, Listening
<1>8. Agreed' BY <1>1 DEF Talk, Agreed
<1>9. Running' BY DEF Running
<1> QED BY <1>5, <1>6, <1>7, <1>8, <1>9 DEF Talk

\* An interrupt is delivered.
LEMMA TalkInterrupt ==
  ASSUME Shape, Talk, phase = "receive", Len(delivered) < Len(sent),
         Len(delivered) + 1 # client.cur, CtrlC(CTRLC), UNCHANGED <<client, sent, bad>>
  PROVE  Talk'
<1> DEFINE d == Len(delivered)
<1>1. /\ delivered' = Append(delivered, Intr) /\ tx' = tx \o <<>> \o Replies(Intr, d + 1)
      /\ stub' = [stub EXCEPT !.no_ack_mode = @ \/ NoAck(Intr)] /\ phase' = "process"
  BY CmdFacts DEF CtrlC, Dispatch
<1>2. d + 1 \in 0 .. MaxPackets BY BoundAssumption DEF Shape
<1>3. Reply(d + 1) \in Item /\ Reply(d + 1).kind = "reply" BY <1>2, ItemTypes
<1>4. tx' = Append(tx, Reply(d + 1))
  <2>1. Replies(Intr, d + 1) = <<Reply(d + 1)>> BY CmdFacts DEF Replies
  <2>2. tx \in Seq(Item) BY DEF Shape
  <2>3. tx \o <<>> = tx BY <2>2
  <2>4. tx \o <<Reply(d + 1)>> = Append(tx, Reply(d + 1)) BY <1>3, <2>2
  <2> QED BY <1>1, <2>1, <2>3, <2>4
<1>5. Len(delivered') = d + 1 /\ d \in Nat
  <2>1. Intr \in Seq(Byte) BY DEF Intr, CTRLC, Byte
  <2> QED BY <1>1, <2>1, AppendFacts DEF Shape
<1>6. /\ tx' \in Seq(Item) /\ Len(tx') = Len(tx) + 1 /\ Len(tx) \in Nat
      /\ \A i \in 1 .. Len(tx) : tx'[i] = tx[i]
      /\ tx'[Len(tx) + 1] = Reply(d + 1)
  BY <1>3, <1>4, AppendFacts DEF Shape
<1>7. client.noack => client.cur <= d /\ Len(sent) # client.cur /\ ~Polite
  <2> SUFFICES ASSUME client.noack PROVE client.cur <= d /\ Len(sent) # client.cur /\ ~Polite OBVIOUS
  <2>1. client.cur <= d + 1 /\ (Polite => Len(sent) = client.cur) BY DEF Talk, Settled
  <2>2. client.cur <= d BY <1>5, <2>1 DEF Shape
  <2>3. Len(sent) # client.cur BY <1>5, <2>2 DEF Shape
  <2> QED BY <2>1, <2>2, <2>3
<1>8. stub'.no_ack_mode = stub.no_ack_mode
  <2>1. ~NoAck(Intr) BY CmdFacts
  <2> QED BY <1>1, <2>1 DEF Shape
<1>9. Silent(tx) => Silent(tx') BY <1>3, <1>4, SilentAppend DEF Shape
<1>10. Asking'
  <2> SUFFICES ASSUME ~client.noack, client.mode = "ack"
               PROVE  Len(sent) = client.cur /\ d + 1 < client.cur /\ Silent(tx')
    BY <1>5 DEF Asking, Shape
  <2>1. Len(sent) = client.cur BY DEF Talk, Asking
  <2>2. d < client.cur /\ d + 1 < client.cur BY <1>5, <2>1 DEF Shape
  <2> QED BY <1>9, <2>1, <2>2 DEF Talk, Asking
<1>11. Heard' BY <1>5, <1>9 DEF Talk, Heard, Shape
<1>12. Listening'
  <2> SUFFICES ASSUME ~client.noack, client.mode = "reply" PROVE Listening' BY DEF Listening
  <2>1. d >= client.cur BY DEF Talk, Heard
  <2>2. Resumes(sent[client.cur]) BY <1>5, <2>1 DEF Talk, Listening, Shape
  <2>3. tx' # <<>> BY <1>6, EmptyFacts
  <2>4. ASSUME bad.replies = 0 PROVE tx'[1].to = client.cur
    <3>1. tx # <<>> BY <2>4 DEF Talk, Listening
    <3>2. tx[1].to = client.cur BY <2>4, <3>1 DEF Talk, Listening
    <3>3. 1 \in 1 .. Len(tx) BY <1>6, <3>1, EmptyFacts DEF Shape
    <3> QED BY <1>6, <3>2, <3>3
  <2> QED BY <2>2, <2>3, <2>4 DEF Listening
<1>13. Agreed'
  <2>1. client.cur >= 1 /\ d + 1 >= client.cur => d >= client.cur BY <1>5 DEF Shape
  <2>2. d >= client.cur => d + 1 >= client.cur BY <1>5 DEF Shape
  <2> QED BY <1>5, <1>8, <2>1, <2>2 DEF Talk, Agreed
<1>14. Settled'
  <2> SUFFICES ASSUME client.noack PROVE Settled' BY DEF Settled
  <2>1. client.cur <= d /\ Len(sent) # client.cur /\ ~Polite BY <1>7
  <2>2. client.cur <= (d + 1) + 1 /\ d + 1 >= client.cur /\ ~(d + 1 < client.cur)
    BY <1>5, <2>1 DEF Shape
  <2>3. client.cur >= 1 /\ stub.no_ack_mode /\ client.mode # "ack" BY DEF Talk, Settled
  <2>4. \A i \in 1 .. Len(tx') : tx'[i].kind = "reply"
    <3> SUFFICES ASSUME NEW i \in 1 .. Len(tx') PROVE tx'[i].kind = "reply" OBVIOUS
    <3>1. CASE i = Len(tx) + 1 BY <1>3, <1>6, <3>1
    <3>2. CASE i # Len(tx) + 1
      <4>1. i \in 1 .. Len(tx) BY <1>6, <3>2
      <4> QED BY <1>6, <4>1 DEF Talk, Settled
    <3> QED BY <3>1, <3>2
  <2> QED BY <1>5, <1>8, <2>1, <2>2, <2>3, <2>4 DEF Settled
<1>15. Running' BY <1>1 DEF Running
<1>16. SpoiltCounted'
  <2> SUFFICES ASSUME NEW i \in 1 .. Len(tx'), tx'[i].kind = "spoilt" PROVE bad'.replies # 0
    BY DEF SpoiltCounted
  <2>2. i # Len(tx) + 1 BY <1>3, <1>6
  <2>3. i \in 1 .. Len(tx) BY <1>6, <2>2
  <2> QED BY <1>6, <2>3 DEF Talk, SpoiltCounted
<1> QED BY <1>10, <1>11, <1>12, <1>13, <1>14, <1>15, <1>16 DEF Talk

\* The packet the debugger waits for is delivered.
LEMMA TalkDeliver ==
  ASSUME Shape, Talk, phase = "receive", NEW p, p = sent[client.cur],
         Len(delivered) + 1 = client.cur, p \in Seq(Byte), NEW s,
         stub \in StubRec, s = [stub EXCEPT !.failures = 0],
         Dispatch(p, s, IF Acks(stub) THEN <<Ack>> ELSE <<>>), UNCHANGED <<client, sent, bad>>
  PROVE  Talk' /\ (phase' = "run" => Resumes(p))
<1> DEFINE d == Len(delivered)
           n == client.cur
           ack == IF Acks(stub) THEN <<Ack>> ELSE <<>>
<1>1. /\ delivered' = Append(delivered, p) /\ tx' = tx \o ack \o Replies(p, d + 1)
  BY DEF Dispatch
<1>2. d + 1 = n /\ d \in Nat /\ n \in Nat /\ d < n /\ n >= 1 /\ Len(delivered') = n
  <2>1. d \in Nat /\ n \in Nat /\ delivered \in Seq(Seq(Byte)) BY DEF Shape
  <2>2. Len(delivered') = d + 1 BY <1>1, <2>1, AppendFacts
  <2>3. d + 1 = n OBVIOUS
  <2> QED BY <2>1, <2>2, <2>3
<1>3. /\ ~Kill(p) /\ ~Detach(p) => /\ stub'.no_ack_mode = (stub.no_ack_mode \/ NoAck(p))
                                   /\ phase' = IF Resumes(p) THEN "run" ELSE "process"
      /\ Kill(p) \/ Detach(p) => stub'.no_ack_mode = stub.no_ack_mode /\ phase' = "exit"
  <2>1. s \in StubRec /\ s.no_ack_mode = stub.no_ack_mode BY SizeAssumption DEF StubRec
  <2>2. CASE Kill(p) \/ Detach(p)
    <3>1. phase' = "exit" /\ stub' = [s EXCEPT !.connected = FALSE] BY <2>2 DEF Dispatch, Leave
    <3>2. stub'.no_ack_mode = s.no_ack_mode BY <2>1, <3>1 DEF StubRec
    <3> QED BY <2>1, <2>2, <3>1, <3>2
  <2>3. CASE ~(Kill(p) \/ Detach(p))
    <3>1. /\ stub' = [s EXCEPT !.no_ack_mode = s.no_ack_mode \/ NoAck(p)]
          /\ phase' = IF Resumes(p) THEN "run" ELSE "process"
      BY <2>3 DEF Dispatch
    <3>2. stub'.no_ack_mode = (s.no_ack_mode \/ NoAck(p)) BY <2>1, <3>1 DEF StubRec
    <3> QED BY <2>1, <2>3, <3>1, <3>2
  <2> QED BY <2>2, <2>3
<1>4. phase' = "run" <=> Resumes(p) BY <1>3, CmdFacts
<1>5. ~AnswersNow(p) => phase' \in {"run", "exit"} BY <1>3, CmdFacts
<1>6. AnswersNow(p) => phase' # "run" BY <1>4, CmdFacts
<1>7. n \in 0 .. MaxPackets /\ Reply(n) \in Item /\ Reply(n).kind = "reply"
  BY <1>2, ItemTypes, BoundAssumption DEF Shape
<1>8. Replies(p, d + 1) = IF AnswersNow(p) THEN <<Reply(n)>> ELSE <<>> BY <1>2 DEF Replies
<1>9. NoAck(p) => stub'.no_ack_mode BY <1>3, CmdFacts
<1>10. tx \in Seq(Item) BY DEF Shape
<1> HIDE DEF n, d
<1>11. CASE client.noack
  <2>1. /\ Polite => Len(sent) = n
        /\ stub.no_ack_mode /\ client.mode = "reply" /\ tx = <<>>
    BY <1>2, <1>11 DEF Talk, Settled, Shape, n, d
  <2>2. ack = <<>> BY <2>1 DEF Acks
  <2>3. tx' = Replies(p, d + 1)
    <3> HIDE DEF ack
    <3>1. <<>> \o <<>> = <<>> /\ <<>> \o <<Reply(n)>> = <<Reply(n)>> OBVIOUS
    <3> QED BY <1>1, <1>8, <2>1, <2>2, <3>1
  <2>4. stub'.no_ack_mode BY <1>3, <2>1
  <2>5. <<Reply(n)>> # <<>> OBVIOUS
  <2>6. Settled'
    <3>1. tx' # <<>> => tx' = <<Reply(n)>> /\ phase' # "run" BY <1>6, <1>8, <2>3
    <3>2. tx' = <<>> => phase' \in {"run", "exit"} BY <1>5, <1>8, <2>3, <2>5
    <3>3. \A i \in 1 .. Len(tx') : tx'[i].kind = "reply"
      <4>1. CASE tx' = <<>> BY <4>1
      <4>2. CASE tx' = <<Reply(n)>>
        <5>1. Len(tx') = 1 /\ tx'[1] = Reply(n) BY <4>2
        <5> QED BY <1>7, <5>1
      <4> QED BY <3>1, <4>1, <4>2
    <3>4. Alternating' BY <1>2, <2>1, <3>1, <3>2 DEF Alternating, n
    <3>5. n <= n + 1 /\ ~(n < n) /\ n >= n BY <1>2
    <3> QED BY <1>2, <2>1, <2>4, <3>3, <3>4, <3>5 DEF Settled, n
  <2>7. Running' BY <1>2, <1>4, <1>8, <2>1, <2>3, CmdFacts DEF Running, n
  <2>8. SpoiltCounted'
    <3>1. CASE tx' = <<>> BY <3>1 DEF SpoiltCounted
    <3>2. CASE tx' = <<Reply(n)>>
      <4>1. Len(tx') = 1 /\ tx'[1] = Reply(n) BY <3>2
      <4> QED BY <1>7, <4>1 DEF SpoiltCounted
    <3> QED BY <1>8, <2>3, <3>1, <3>2
  <2>9. Agreed' BY <1>11, <2>4 DEF Agreed
  <2>10. Asking' /\ Heard' /\ Listening' BY <1>11 DEF Asking, Heard, Listening
  <2> QED BY <1>4, <2>6, <2>7, <2>8, <2>9, <2>10 DEF Talk
<1>12. CASE ~client.noack
  <2>1. client.mode = "ack" BY <1>2, <1>12 DEF Talk, Heard, Shape, n, d
  <2>2. Len(sent) = n /\ Silent(tx) BY <1>2, <1>12, <2>1 DEF Talk, Asking, n, d
  <2>3. ~stub.no_ack_mode BY <1>2, <1>12 DEF Talk, Agreed, n, d
  <2>4. ack = <<Ack>> BY <2>3 DEF Acks
  <2> HIDE DEF ack
  <2>5. Ack \in Item /\ Ack.kind = "+" BY ItemTypes
  <2>6. tx' = IF AnswersNow(p) THEN Append(Append(tx, Ack), Reply(n)) ELSE Append(tx, Ack)
    <3>1. tx \o ack = Append(tx, Ack) BY <1>10, <2>4, <2>5
    <3>2. Append(tx, Ack) \in Seq(Item) BY <1>10, <2>5, AppendFacts
    <3>3. \A u \in Seq(Item) : u \o <<>> = u /\ u \o <<Reply(n)>> = Append(u, Reply(n)) BY <1>7
    <3> QED BY <1>1, <1>8, <3>1, <3>2, <3>3
  <2>7. Confirmed(tx', n, phase')
    <3>1. /\ phase' \in {"run", "exit"} => Confirmed(Append(tx, Ack), n, phase')
          /\ phase' # "run" => Confirmed(Append(Append(tx, Ack), Reply(n)), n, phase')
      BY <1>7, <1>10, <2>2, ConfirmedNew
    <3> QED BY <1>5, <1>6, <2>6, <3>1
  <2>8. Asking' BY <1>2, <2>2, <2>7 DEF Asking, n
  <2>9. Settled' /\ Heard' /\ Listening' BY <1>12, <2>1 DEF Settled, Heard, Listening
  <2>10. Agreed'
    <3>1. stub'.no_ack_mode => NoAck(p) BY <1>3, <2>3
    <3> QED BY <1>2, <1>9, <2>1, <3>1 DEF Agreed, n
  <2>11. Running' BY <1>2, <1>4, <2>1 DEF Running, n
  <2>12. SpoiltCounted'
    <3>1. /\ Append(tx, Ack) \in Seq(Item) /\ Len(Append(tx, Ack)) = Len(tx) + 1 /\ Len(tx) \in Nat
          /\ \A i \in 1 .. Len(tx) : Append(tx, Ack)[i] = tx[i]
          /\ Append(tx, Ack)[Len(tx) + 1] = Ack
      BY <1>10, <2>5, AppendFacts
    <3> DEFINE u == Append(tx, Ack)
    <3>2. ASSUME NEW i \in 1 .. Len(u), u[i].kind = "spoilt" PROVE bad.replies # 0
      <4>1. i # Len(tx) + 1 BY <2>5, <3>1, <3>2
      <4>2. i \in 1 .. Len(tx) BY <3>1, <4>1
      <4> QED BY <3>1, <3>2, <4>2 DEF Talk, SpoiltCounted
    <3> HIDE DEF u
    <3>3. CASE tx' = u BY <3>2, <3>3 DEF SpoiltCounted
    <3>4. CASE tx' = Append(u, Reply(n))
      <4>0. u \in Seq(Item) BY <3>1 DEF u
      <4>1. /\ Len(tx') = Len(u) + 1 /\ Len(u) \in Nat
            /\ \A i \in 1 .. Len(u) : tx'[i] = u[i]
            /\ tx'[Len(u) + 1] = Reply(n)
        BY <1>7, <3>4, <4>0, AppendFacts
      <4> SUFFICES ASSUME NEW i \in 1 .. Len(tx'), tx'[i].kind = "spoilt" PROVE bad'.replies # 0
        BY DEF SpoiltCounted
      <4>2. i # Len(u) + 1 BY <1>7, <4>1
      <4>3. i \in 1 .. Len(u) BY <4>1, <4>2
      <4> QED BY <3>2, <4>1, <4>3
    <3> QED BY <2>6, <3>3, <3>4 DEF u
  <2> QED BY <1>4, <2>8, <2>9, <2>10, <2>11, <2>12 DEF Talk
<1> QED BY <1>11, <1>12

\* A run ends.
LEMMA TalkStop ==
  ASSUME Shape, Talk, TargetStops \/ Poll
  PROVE  Talk'
<1> DEFINE n == client.cur
<1>1. /\ phase = "run" /\ phase' = "process" /\ tx' = Append(tx, Reply(Len(delivered)))
      /\ UNCHANGED <<stub, client, sent, delivered, bad>>
  BY DEF TargetStops, Poll, StopReply
<1>2. /\ client.mode # "idle" /\ Resumes(sent[n]) /\ Len(delivered) = n
      /\ client.mode = "reply" => tx = <<>>
  BY <1>1 DEF Talk, Running
<1>3. n \in 0 .. MaxPackets /\ Reply(n) \in Item /\ Reply(n).kind = "reply" /\ Reply(n).to = n
  <2>1. n \in 0 .. MaxPackets BY BoundAssumption DEF Shape
  <2> QED BY <2>1, ItemTypes
<1>4. /\ tx' \in Seq(Item) /\ Len(tx') = Len(tx) + 1 /\ Len(tx) \in Nat
      /\ \A i \in 1 .. Len(tx) : tx'[i] = tx[i]
      /\ tx'[Len(tx) + 1] = Reply(n)
  BY <1>1, <1>2, <1>3, AppendFacts DEF Shape
<1>5. tx' # <<>> BY <1>4, EmptyFacts
<1>6. tx = <<>> => tx' = <<Reply(n)>> /\ tx'[1] = Reply(n) BY <1>1, <1>2, <1>4
<1>7. client.mode \in {"ack", "reply"} BY <1>2 DEF Shape
<1>8. Settled'
  <2> SUFFICES ASSUME client.noack PROVE Settled' BY <1>1 DEF Settled
  <2>1. /\ client.mode = "reply" /\ n >= 1 /\ n <= Len(delivered) + 1 /\ stub.no_ack_mode
        /\ Polite => Len(sent) = n
    BY <1>7 DEF Talk, Settled
  <2>2. tx' = <<Reply(n)>> BY <1>2, <1>6, <2>1
  <2>3. Len(tx') = 1 /\ tx'[1] = Reply(n) BY <2>2
  <2>4. \A i \in 1 .. Len(tx') : tx'[i].kind = "reply" BY <1>3, <2>3
  <2>5. Alternating' BY <1>1, <1>2, <1>5, <2>1, <2>2 DEF Alternating
  <2>6. ~(Len(delivered) < n) BY <1>2 DEF Shape
  <2> QED BY <1>1, <1>2, <2>1, <2>4, <2>5, <2>6 DEF Settled
<1>9. Asking'
  <2> SUFFICES ASSUME ~client.noack, client.mode = "ack"
               PROVE  Len(sent) = n /\ Confirmed(tx', n, "process")
    BY <1>1, <1>2 DEF Asking, Shape
  <2>1. Len(sent) = n /\ Confirmed(tx, n, "run") BY <1>1, <1>2 DEF Talk, Asking
  <2>2. Confirmed(Append(tx, Reply(n)), n, "process") BY <1>3, <2>1, ConfirmedStop DEF Shape
  <2> QED BY <1>1, <1>2, <2>1, <2>2
<1>10. Heard'
  <2>1. Silent(tx) => Silent(tx') BY <1>1, <1>2, <1>3, SilentAppend DEF Shape
  <2> QED BY <1>1, <2>1 DEF Talk, Heard
<1>11. Listening' BY <1>1, <1>2, <1>3, <1>5, <1>6 DEF Listening
<1>12. Agreed' BY <1>1 DEF Talk, Agreed
<1>13. Running' BY <1>1 DEF Running
<1>14. SpoiltCounted'
  <2> SUFFICES ASSUME NEW i \in 1 .. Len(tx'), tx'[i].kind = "spoilt" PROVE bad'.replies # 0
    BY DEF SpoiltCounted
  <2>2. i # Len(tx) + 1 BY <1>3, <1>4
  <2>3. i \in 1 .. Len(tx) BY <1>4, <2>2
  <2> QED BY <1>1, <1>4, <2>3 DEF Talk, SpoiltCounted
<1> QED BY <1>8, <1>9, <1>10, <1>11, <1>12, <1>13, <1>14 DEF Talk

\* The debugger sends a packet.
LEMMA TalkSend ==
  ASSUME Shape, TypeOK, Talk, client.mode = "idle", NEW p \in Packet, NEW f, SendBytes(p, f, Waiting),
         bad'.replies = bad.replies, client.noack => Len(sent) = client.cur
  PROVE  Talk'
<1> DEFINE n == Len(sent) + 1
<1>1. /\ sent' = Append(sent, p) /\ client' = Waiting
      /\ UNCHANGED <<stub, phase, delivered, tx>>
  BY DEF SendBytes, StubVars
<1>2. /\ client'.mode = (IF client.noack THEN "reply" ELSE "ack")
      /\ client'.noack = client.noack /\ client'.cur = n
  BY <1>1, WaitingType
<1>3. Len(sent') = n /\ n \in Nat /\ Len(delivered) < n /\ n >= 1
  BY <1>1, AppendFacts DEF Shape
<1>4. phase # "run" BY DEF Talk, Running
<1>5. Len(delivered') < n /\ ~(Len(delivered') >= n) /\ Len(delivered') # n BY <1>1, <1>3 DEF Shape
<1>6. CASE client.noack
  <2>1. Len(delivered) = client.cur /\ Len(sent) = client.cur /\ tx = <<>> /\ stub.no_ack_mode
    BY <1>6 DEF Talk, Settled, Alternating
  <2>2. n <= Len(delivered) + 1 BY <2>1
  <2>8. Alternating' BY <1>1, <1>2, <1>5, <1>6, <2>1 DEF Alternating
  <2>9. \A i \in 1 .. Len(tx') : tx'[i].kind = "reply" BY <1>1, <2>1
  <2>3. Settled' BY <1>1, <1>2, <1>3, <1>5, <1>6, <2>1, <2>2, <2>8, <2>9 DEF Settled
  <2>4. Asking' /\ Heard' /\ Listening' BY <1>2, <1>6 DEF Asking, Heard, Listening
  <2>5. Agreed' BY <1>1, <1>2, <1>6, <2>1 DEF Agreed
  <2>6. Running' BY <1>1, <1>4 DEF Running
  <2>7. SpoiltCounted' BY <1>1 DEF Talk, SpoiltCounted
  <2> QED BY <2>3, <2>4, <2>5, <2>6, <2>7 DEF Talk
<1>7. CASE ~client.noack
  <2>1. Silent(tx) BY <1>7 DEF Talk, Heard
  <2>2. ~stub.no_ack_mode BY <1>7 DEF Talk, Agreed
  <2>3. Settled' BY <1>2, <1>7 DEF Settled
  <2>4. Asking' BY <1>1, <1>2, <1>3, <1>5, <2>1 DEF Asking
  <2>5. Heard' /\ Listening' BY <1>2, <1>7 DEF Heard, Listening
  <2>6. Agreed' BY <1>1, <1>2, <1>5, <2>2 DEF Agreed
  <2>7. Running' BY <1>1, <1>4 DEF Running
  <2>8. SpoiltCounted' BY <1>1 DEF Talk, SpoiltCounted
  <2> QED BY <2>3, <2>4, <2>5, <2>6, <2>7, <2>8 DEF Talk
<1> QED BY <1>6, <1>7 DEF Shape

\* The debugger interrupts a run.
LEMMA TalkAsk ==
  ASSUME Shape, Talk, ClientInterrupt
  PROVE  Talk' /\ client' = client /\ client.cur >= 1
<1> DEFINE n == client.cur
<1>1. /\ client.mode = "reply" /\ Resumes(sent[n]) /\ client.noack \in Interrupts /\ bad' = bad
      /\ SendBytes(Intr, Intr, client)
  BY DEF ClientInterrupt
<1>2. /\ sent' = Append(sent, Intr) /\ client' = client
      /\ UNCHANGED <<stub, phase, delivered, tx>>
  BY <1>1 DEF SendBytes, StubVars
<1>3. client.noack => ~Polite BY <1>1 DEF Polite, Shape
<1>4. sent'[n] = sent[n] /\ Len(sent') # n /\ n >= 1
  <2>1. n \in 1 .. Len(sent) /\ Len(sent) + 1 # n BY <1>1 DEF Shape
  <2>2. Intr \in Packet /\ sent \in Seq(Packet) BY DEF Packet, Shape
  <2> QED BY <1>2, <2>1, <2>2, AppendFacts
<1>5. Settled' BY <1>2, <1>3, <1>4 DEF Talk, Settled
<1>12. Asking' BY <1>1, <1>2 DEF Asking
<1>6. Heard' BY <1>2 DEF Talk, Heard
<1>7. Listening' BY <1>1, <1>2, <1>4 DEF Talk, Listening
<1>8. Agreed' BY <1>2, <1>4 DEF Talk, Agreed
<1>9. Running' BY <1>2, <1>4 DEF Talk, Running
<1>10. SpoiltCounted' BY <1>1, <1>2 DEF Talk, SpoiltCounted
<1> QED BY <1>2, <1>4, <1>5, <1>6, <1>7, <1>8, <1>9, <1>10, <1>12 DEF Talk

\* What is left when the debugger takes something.
LEMMA TailTalk ==
  ASSUME Base, Receive
  PROVE  /\ Silent(tx) => Silent(tx')
         /\ SpoiltCounted => SpoiltCounted'
<1>1. /\ \A i \in 1 .. Len(tx') : tx'[i] = tx[i + 1] /\ i + 1 \in 1 .. Len(tx)
      /\ bad' = bad
  BY TakenFacts
<1>2. Silent(tx) => Silent(tx') BY <1>1 DEF Silent
<1>3. SpoiltCounted => SpoiltCounted' BY <1>1 DEF SpoiltCounted
<1> QED BY <1>2, <1>3

LEMMA TalkAwait ==
  ASSUME Base, Talk, ClientAwaitsAck
  PROVE  Talk'
<1> DEFINE n == client.cur
<1>0. Shape /\ TypeOK BY BaseShape DEF Base
<1>1. client.mode = "ack" /\ Receive BY DEF ClientAwaitsAck
<1>2. /\ tx # <<>> /\ tx \in Seq(Item) /\ tx' \in Seq(Item) /\ Head(tx) = tx[1]
      /\ Len(tx) \in Nat /\ Len(tx) >= 1 /\ Len(tx') = Len(tx) - 1
      /\ \A i \in 1 .. Len(tx') : tx'[i] = tx[i + 1]
      /\ UNCHANGED <<stub, phase, delivered, sent, bad>>
  BY <1>1, TakenFacts
<1>3. ~client.noack BY <1>1 DEF Talk, Settled
<1>4. Len(sent) = n BY <1>1, <1>3 DEF Talk, Asking
<1>5. SpoiltCounted' BY <1>1, TailTalk DEF Talk
<1>6. Len(delivered) < n \/ Len(delivered) = n BY <1>0, <1>4 DEF Shape
<1>7. Len(delivered) < n => Silent(tx) BY <1>1, <1>3 DEF Talk, Asking
<1>8. ASSUME Len(delivered) = n
      PROVE  /\ tx[1].kind # "+" => Confirmed(tx', n, phase)
             /\ tx[1].kind = "+" => /\ Silent(tx')
                                    /\ \/ Len(tx') = 0 /\ phase \in {"run", "exit"}
                                       \/ Len(tx') = 1 /\ phase # "run" /\ tx'[1].to = n
  <2>1. Confirmed(tx, n, phase) BY <1>1, <1>3, <1>8 DEF Talk, Asking
  <2> QED BY <1>2, <2>1, ConfirmedTail
<1>9. CASE tx[1].kind # "+"
  <2>1. client' = client BY <1>2, <1>9 DEF ClientAwaitsAck
  <2>2. Asking'
    <3>1. Len(delivered) < n => Silent(tx') BY <1>1, <1>7, TailTalk
    <3> QED BY <1>2, <1>4, <1>8, <1>9, <2>1, <3>1 DEF Asking
  <2>3. Settled' /\ Heard' /\ Listening' BY <1>1, <1>3, <2>1 DEF Settled, Heard, Listening
  <2>4. Agreed' BY <1>2, <2>1 DEF Talk, Agreed
  <2>5. Running' BY <1>1, <1>2, <2>1 DEF Talk, Running
  <2> QED BY <1>5, <2>2, <2>3, <2>4, <2>5 DEF Talk
<1>10. CASE tx[1].kind = "+"
  <2>1. client' = [client EXCEPT !.mode = "reply"] BY <1>2, <1>10 DEF ClientAwaitsAck
  <2>2. client'.mode = "reply" /\ client'.noack = client.noack /\ client'.cur = n
    BY <1>0, <2>1 DEF TypeOK
  <2>3. Len(delivered) = n
    <3>1. 1 \in 1 .. Len(tx) BY <1>2
    <3>2. ~Silent(tx) BY <1>10, <3>1 DEF Silent
    <3> QED BY <1>6, <1>7, <3>2
  <2>4. /\ Silent(tx')
        /\ \/ Len(tx') = 0 /\ phase \in {"run", "exit"}
           \/ Len(tx') = 1 /\ phase # "run" /\ tx'[1].to = n
    BY <1>8, <1>10, <2>3
  <2>5. tx' = <<>> <=> Len(tx') = 0 BY <1>2, EmptyFacts
  <2>6. Heard' BY <1>0, <1>2, <2>2, <2>3, <2>4 DEF Heard, Shape
  <2>7. Listening' BY <1>2, <1>4, <2>2, <2>3, <2>4, <2>5 DEF Listening
  <2>8. Settled' /\ Asking' BY <1>3, <2>2 DEF Settled, Asking
  <2>9. Agreed' BY <1>2, <1>3, <2>2 DEF Talk, Agreed
  <2>10. Running' BY <1>1, <1>2, <2>2, <2>4, <2>5 DEF Talk, Running
  <2> QED BY <1>5, <2>6, <2>7, <2>8, <2>9, <2>10 DEF Talk
<1> QED BY <1>9, <1>10

LEMMA TalkTake ==
  ASSUME Base, Talk, ClientTakesReply
  PROVE  Talk'
<1> DEFINE n == client.cur
           P == sent[n]
<1>0. Shape /\ TypeOK BY BaseShape DEF Base
<1>1. /\ client.mode = "reply" /\ Receive
      /\ client' = [client EXCEPT !.mode = "idle", !.noack = client.noack \/ NoAck(P)]
  BY DEF ClientTakesReply
<1>2. /\ tx # <<>> /\ tx' \in Seq(Item) /\ Len(tx) \in Nat /\ Len(tx) >= 1 /\ Len(tx') = Len(tx) - 1
      /\ UNCHANGED <<stub, phase, delivered, sent, bad>>
  BY <1>1, TakenFacts
<1>3. client'.mode = "idle" /\ client'.noack = (client.noack \/ NoAck(P)) /\ client'.cur = n
  BY <1>0, <1>1 DEF TypeOK
<1>4. SpoiltCounted' BY <1>1, TailTalk DEF Talk
<1>5. phase # "run" BY <1>1, <1>2 DEF Talk, Running
<1>6. n >= 1 BY <1>0, <1>1 DEF Shape
<1>7. Asking' /\ Listening' /\ Running' BY <1>2, <1>3, <1>5 DEF Asking, Listening, Running
<1>8. CASE client'.noack
  <2>1. CASE Len(sent) # n
    <3>1. client.noack
      <4> SUFFICES ASSUME ~client.noack PROVE FALSE OBVIOUS
      <4>1. NoAck(P) BY <1>3, <1>8
      <4>2. ~Resumes(P) BY <4>1, CmdFacts
      <4> QED BY <1>1, <2>1, <4>2 DEF Talk, Listening
    <3>2. /\ n <= Len(delivered) + 1 /\ stub.no_ack_mode /\ ~(Len(delivered) < n) /\ ~Polite
          /\ \A i \in 1 .. Len(tx) : tx[i].kind = "reply"
      BY <1>2, <2>1, <3>1 DEF Talk, Settled
    <3>3. \A i \in 1 .. Len(tx') : tx'[i].kind = "reply"
      <4>1. \A i \in 1 .. Len(tx') : tx'[i] = tx[i + 1] /\ i + 1 \in 1 .. Len(tx)
        BY <1>1, TakenFacts
      <4> QED BY <3>2, <4>1
    <3>4. Len(delivered) >= n BY <1>0, <3>2 DEF Shape
    <3>5. Settled' BY <1>2, <1>3, <1>6, <2>1, <3>2, <3>3, <3>4 DEF Settled
    <3>6. Heard' BY <1>8 DEF Heard
    <3>7. Agreed' BY <1>2, <1>8, <3>2 DEF Agreed
    <3> QED BY <1>4, <1>7, <3>5, <3>6, <3>7 DEF Talk
  <2>2. CASE Len(sent) = n
    <3>1. Len(tx) <= 1 /\ Len(delivered) = n /\ stub.no_ack_mode
      <4>1. CASE client.noack
        <5>1. tx = <<Reply(n)>> BY <1>2, <2>2, <4>1 DEF Talk, Settled, Alternating
        <5>2. Len(tx) = 1 BY <5>1
        <5> QED BY <1>2, <2>2, <4>1, <5>2 DEF Talk, Settled, Alternating
      <4>2. CASE ~client.noack
        <5>1. NoAck(P) BY <1>3, <1>8, <4>2
        <5>2. ~Resumes(P) BY <5>1, CmdFacts
        <5>3. Len(tx) <= 1 BY <1>1, <4>2, <5>2 DEF Talk, Listening
        <5>4. Len(delivered) >= n BY <1>1, <4>2 DEF Talk, Heard
        <5>5. stub.no_ack_mode BY <1>6, <5>1, <5>4 DEF Talk, Agreed
        <5> QED BY <1>0, <2>2, <5>3, <5>4, <5>5 DEF Shape
      <4> QED BY <1>0, <4>1, <4>2 DEF Shape
    <3>2. Len(tx') = 0 BY <1>2, <3>1
    <3>3. tx' = <<>> BY <1>2, <3>2, EmptyFacts
    <3>4. n <= Len(delivered) + 1 /\ Len(delivered) >= n BY <1>0, <3>1 DEF Shape
    <3>8. Alternating' BY <1>2, <1>3, <3>1, <3>3 DEF Alternating
    <3>9. \A i \in 1 .. Len(tx') : tx'[i].kind = "reply" BY <3>2
    <3>5. Settled' BY <1>2, <1>3, <1>6, <2>2, <3>1, <3>3, <3>4, <3>8, <3>9 DEF Settled
    <3>6. Heard' BY <1>8 DEF Heard
    <3>7. Agreed' BY <1>2, <1>8, <3>1 DEF Agreed
    <3> QED BY <1>4, <1>7, <3>5, <3>6, <3>7 DEF Talk
  <2> QED BY <2>1, <2>2
<1>9. CASE ~client'.noack
  <2>1. ~client.noack /\ ~NoAck(P) BY <1>3, <1>9
  <2>2. Len(delivered) >= n /\ Silent(tx) BY <1>1, <2>1 DEF Talk, Heard
  <2>3. Heard' BY <1>1, <1>2, <1>3, <2>2, TailTalk DEF Heard
  <2>4. ~stub.no_ack_mode BY <2>1 DEF Talk, Agreed
  <2>5. Agreed' BY <1>2, <1>3, <2>1, <2>4 DEF Agreed
  <2>6. Settled' BY <1>9 DEF Settled
  <2> QED BY <1>4, <1>7, <2>3, <2>5, <2>6 DEF Talk
<1> QED BY <1>8, <1>9

LEMMA TalkReject ==
  ASSUME Base, Talk, ClientRejectsReply
  PROVE  Talk' /\ ~client.noack
<1> DEFINE n == client.cur
<1>0. Shape BY BaseShape
<1>1. /\ client.mode = "reply" /\ Receive /\ client' = client /\ Head(tx).kind = "spoilt"
  BY DEF ClientRejectsReply
<1>2. /\ tx # <<>> /\ tx' \in Seq(Item) /\ Len(tx) \in Nat /\ Len(tx) >= 1 /\ Len(tx') = Len(tx) - 1
      /\ Head(tx) = tx[1]
      /\ UNCHANGED <<stub, phase, delivered, sent, bad>>
  BY <1>1, TakenFacts
<1>3. ~client.noack
  <2> SUFFICES ASSUME client.noack PROVE FALSE OBVIOUS
  <2>1. 1 \in 1 .. Len(tx) BY <1>2
  <2>2. tx[1].kind = "reply" BY <2>1 DEF Talk, Settled
  <2> QED BY <1>1, <1>2, <2>2
<1>4. bad.replies # 0
  <2>1. 1 \in 1 .. Len(tx) BY <1>2
  <2> QED BY <1>1, <1>2, <2>1 DEF Talk, SpoiltCounted
<1>5. SpoiltCounted' BY <1>1, TailTalk DEF Talk
<1>6. phase # "run" BY <1>1, <1>2 DEF Talk, Running
<1>7. Settled' /\ Asking' /\ Running' BY <1>1, <1>2, <1>3, <1>6 DEF Settled, Asking, Running
<1>8. Heard' BY <1>1, <1>2, TailTalk DEF Talk, Heard
<1>9. Listening'
  <2>1. Len(tx) <= 1 => Len(tx') <= 1 BY <1>2
  <2> QED BY <1>1, <1>2, <1>3, <1>4, <2>1 DEF Talk, Listening
<1>10. Agreed' BY <1>1, <1>2 DEF Talk, Agreed
<1> QED BY <1>3, <1>5, <1>7, <1>8, <1>9, <1>10 DEF Talk

LEMMA TalkSpoil ==
  ASSUME Shape, Talk, ~client.noack, NEW i, Spoiled(i), UNCHANGED <<StubVars, client, sent>>,
         bad'.replies = bad.replies + 1
  PROVE  Talk'
<1>1. UNCHANGED <<stub, phase, delivered>> BY DEF StubVars
<1>2. /\ i \in 1 .. Len(tx) /\ Len(tx') = Len(tx) /\ Len(tx) \in Nat
      /\ \A j \in 1 .. Len(tx) : /\ tx'[j].kind = "+" <=> tx[j].kind = "+"
                                 /\ tx'[j].to = tx[j].to
  BY DEF Spoiled, Shape
<1>3. bad'.replies # 0 BY DEF Shape
<1>4. tx # <<>> BY <1>2, EmptyFacts DEF Shape
<1>5. Silent(tx) => Silent(tx') BY <1>2 DEF Silent
<1>6. ASSUME NEW n, NEW ph, Confirmed(tx, n, ph) PROVE Confirmed(tx', n, ph)
  <2>1. PICK j : ConfirmedBy(tx, n, ph, j) BY <1>6 DEF Confirmed
  <2>2. j \in 1 .. Len(tx) /\ (j + 1 = Len(tx) => j + 1 \in 1 .. Len(tx))
    <3>1. j \in 1 .. Len(tx) BY <2>1 DEF ConfirmedBy
    <3> QED BY <1>2, <3>1
  <2>3. ConfirmedBy(tx', n, ph, j) BY <1>2, <2>1, <2>2 DEF ConfirmedBy
  <2> QED BY <2>3 DEF Confirmed
<1>7. Asking' BY <1>1, <1>5, <1>6 DEF Talk, Asking
<1>8. Heard' BY <1>1, <1>5 DEF Talk, Heard
<1>9. Listening' BY <1>1, <1>2, <1>3 DEF Talk, Listening
<1>10. Settled' /\ SpoiltCounted' BY <1>3 DEF Settled, SpoiltCounted
<1>11. Agreed' BY <1>1 DEF Talk, Agreed
<1>12. Running' BY <1>1, <1>4 DEF Talk, Running
<1> QED BY <1>7, <1>8, <1>9, <1>10, <1>11, <1>12 DEF Talk

\* What is behind the stub in the stream.
LEMMA SoloRests ==
  ASSUME NEW h, NEW q, NEW b, NEW a, Solo(h, q, b), UNCHANGED <<client, sent, delivered>>,
         phase' # "run" \/ (phase' = phase /\ a = b)
  PROVE  Solo(h, q, a)'
<1>0. Calm' <=> Calm BY DEF Calm
<1>1. \A k \in 1 .. Len(sent') : Len(delivered') < k => (h[q[k]] = DOLLAR <=> k = client'.cur)
  BY DEF Solo
<1>2. Calm /\ Len(delivered') < client'.cur =>
        \A x \in 1 .. Len(h) : q[client'.cur] + Len(sent'[client'.cur]) + 3 < x => h[x] = CTRLC
  BY DEF Solo
<1>3. Calm /\ phase' = "run" => \A x \in 1 .. Len(h) : a < x => h[x] = CTRLC BY DEF Solo
<1> QED BY <1>0, <1>1, <1>2, <1>3 DEF Solo

LEMMA SoloInterrupt ==
  ASSUME Shape, NEW h, NEW q, NEW b, Solo(h, q, b), Len(delivered) < Len(sent),
         h[q[Len(delivered) + 1]] = CTRLC, CtrlC(CTRLC), UNCHANGED <<client, sent>>
  PROVE  Len(delivered) + 1 # client.cur /\ Solo(h, q, b + 1)'
<1> DEFINE d == Len(delivered)
<1>1. delivered' = Append(delivered, Intr) /\ phase' # "run" BY CmdFacts DEF CtrlC, Dispatch
<1>2. Len(delivered') = d + 1 /\ d \in Nat
  <2>1. Intr \in Seq(Byte) BY DEF Intr, CTRLC, Byte
  <2> QED BY <1>1, <2>1, AppendFacts DEF Shape
<1>3. d + 1 # client.cur
  <2>1. d + 1 \in 1 .. Len(sent) /\ d < d + 1 BY <1>2 DEF Shape
  <2>2. h[q[d + 1]] # DOLLAR BY DEF CTRLC, DOLLAR
  <2> QED BY <2>1, <2>2 DEF Solo
<1>4. ASSUME NEW k \in 1 .. Len(sent), d + 1 < k PROVE h[q[k]] = DOLLAR <=> k = client.cur
  <2>1. d < k BY <1>2, <1>4 DEF Shape
  <2> QED BY <2>1 DEF Solo
<1>5. ASSUME Calm, d + 1 < client.cur
      PROVE  \A a \in 1 .. Len(h) : q[client.cur] + Len(sent[client.cur]) + 3 < a => h[a] = CTRLC
  <2>1. d < client.cur BY <1>2, <1>5 DEF Shape
  <2> QED BY <1>5, <2>1 DEF Solo
<1>6. Calm' <=> Calm BY DEF Calm
<1> QED BY <1>1, <1>2, <1>3, <1>4, <1>5, <1>6 DEF Solo

LEMMA SoloDeliver ==
  ASSUME Shape, NEW h \in Seq(Byte), NEW q, NEW b \in Nat, Solo(h, q, b), NEW p, NEW c,
         LastByte(h, q, b, Len(delivered), p, c), NEW r \in Seq(Byte), delivered' = Append(delivered, r),
         UNCHANGED <<client, sent>>
  PROVE  Len(delivered) + 1 = client.cur /\ p = sent[client.cur] /\ Solo(h, q, b + 1)'
<1> DEFINE d == Len(delivered)
<1>1. Len(delivered') = d + 1 /\ d \in Nat BY AppendFacts DEF Shape
<1>2. d + 1 \in 1 .. Len(sent) /\ h[q[d + 1]] = DOLLAR /\ b + 1 = q[d + 1] + Len(p) + 3 /\ p = sent[d + 1]
  BY DEF LastByte
<1>3. d < d + 1 BY <1>1
<1>4. d + 1 = client.cur BY <1>2, <1>3 DEF Solo
<1>5. ASSUME Calm PROVE \A a \in 1 .. Len(h) : b + 1 < a => h[a] = CTRLC
  BY <1>2, <1>3, <1>4, <1>5 DEF Solo
<1>6. ASSUME NEW k \in 1 .. Len(sent), d + 1 < k PROVE h[q[k]] = DOLLAR <=> k = client.cur
  <2>1. d < k BY <1>1, <1>6 DEF Shape
  <2> QED BY <2>1 DEF Solo
<1>7. ~(d + 1 < client.cur) BY <1>1, <1>4
<1>8. Calm' <=> Calm BY DEF Calm
<1> QED BY <1>1, <1>2, <1>4, <1>5, <1>6, <1>7, <1>8 DEF Solo

\* The places of the packets in a stream that has grown.
Grown(h, q, g, f, z, N) ==
  /\ Len(g) = Len(h) + Len(f) /\ Len(h) \in Nat /\ Len(f) \in Nat /\ N \in Nat
  /\ z[N + 1] = Len(h) + 1 /\ g[z[N + 1]] = f[1]
  /\ \A k \in 1 .. N : g[z[k]] = h[q[k]] /\ g[q[k]] = h[q[k]] /\ z[k] = q[k]
  /\ \A a \in 1 .. Len(h) : g[a] = h[a]

LEMMA Replaced ==
  ASSUME NEW h, NEW q, NEW b, StreamAt(h, q, b), NEW f \in Seq(Byte), Len(f) >= 1,
         NEW z, z = Placed(q, Len(sent), Len(h) + 1), NEW N, N = Len(sent)
  PROVE  Grown(h, q, h \o f, f, z, N)
<1>1. h \in Seq(Byte) /\ sent \in Seq(Packet) /\ q \in [1 .. Len(sent) -> 1 .. Len(h)]
  BY DEF StreamAt, Layout, Starts
<1>2. Len(h) \in Nat /\ N \in Nat /\ Len(f) \in Nat BY <1>1
<1>3. /\ Len(h \o f) = Len(h) + Len(f)
      /\ \A a \in 1 .. Len(h) : (h \o f)[a] = h[a]
      /\ (h \o f)[Len(h) + 1] = f[1]
  BY <1>1, <1>2
<1>4. N + 1 \in 1 .. (N + 1) /\ ~(N + 1 <= N) BY <1>2
<1>5. z[N + 1] = Len(h) + 1 BY <1>4 DEF Placed
<1>6. \A k \in 1 .. N : z[k] = q[k] /\ q[k] \in 1 .. Len(h)
  <2>1. \A k \in 1 .. N : k \in 1 .. (N + 1) /\ k <= N BY <1>2
  <2> QED BY <1>1, <2>1 DEF Placed
<1> QED BY <1>2, <1>3, <1>5, <1>6 DEF Grown

LEMMA SoloSend ==
  ASSUME Shape, TypeOK, Talk, client.mode = "idle", NEW h, NEW q, NEW b, StreamAt(h, q, b), Solo(h, q, b),
         NEW p, NEW f, Sends(p, f), SendBytes(p, f, Waiting), Len(f) = Len(p) + 4,
         NEW z, z = Placed(q, Len(sent), Len(h) + 1)
  PROVE  Solo(h \o f, z, b)'
<1> DEFINE d == Len(delivered)
           g == h \o f
<1> PICK N : N = Len(sent) OBVIOUS
<1>0. p \in Packet /\ f \in Seq(Byte) BY DEF Sends
<1>1. sent' = Append(sent, p) /\ client' = Waiting /\ UNCHANGED <<phase, delivered>>
  BY DEF SendBytes, StubVars
<1>2. client'.cur = N + 1 BY <1>1, WaitingType
<1>3. N \in Nat /\ Len(sent') = N + 1 /\ sent'[N + 1] = p /\ d \in Nat /\ d <= N
  BY <1>0, <1>1, AppendFacts DEF Shape
<1>4. d >= client.cur BY DEF Talk, Settled, Heard, Shape
<1>5. Len(p) \in Nat /\ Len(f) >= 1 /\ Len(f) = Len(p) + 4
  <2>1. Len(p) \in Nat BY <1>0, PacketType
  <2> QED BY <2>1
<1>6. f[1] = DOLLAR
  <2>1. Unit(f, p, bad'.requests = 0) BY DEF Sends
  <2>2. CASE f = Intr /\ p = Intr
    <3>1. Len(Intr) = 1 BY DEF Intr
    <3> QED BY <1>5, <2>2, <3>1
  <2>3. CASE FrameAt(f, 1, p) BY <2>3 DEF FrameAt
  <2> QED BY <2>1, <2>2, <2>3 DEF Unit
<1>7. /\ Len(g) = Len(h) + Len(f) /\ Len(h) \in Nat
      /\ z[N + 1] = Len(h) + 1 /\ g[z[N + 1]] = f[1]
      /\ \A k \in 1 .. N : g[z[k]] = h[q[k]]
  <2>1. Grown(h, q, h \o f, f, z, N) BY <1>0, <1>5, Replaced
  <2> QED BY <2>1 DEF Grown
<1> HIDE DEF g
<1>8. ASSUME NEW k \in 1 .. (N + 1), d < k PROVE g[z[k]] = DOLLAR <=> k = N + 1
  <2>1. CASE k = N + 1 BY <1>6, <1>7, <2>1
  <2>2. CASE k # N + 1
    <3>1. k \in 1 .. N BY <1>3, <2>2
    <3>2. k # client.cur BY <1>3, <1>4, <1>8 DEF Shape
    <3>3. h[q[k]] # DOLLAR BY <1>8, <3>1, <3>2 DEF Solo
    <3> QED BY <1>7, <2>2, <3>1, <3>3
  <2> QED BY <2>1, <2>2
<1>9. Len(g) = z[N + 1] + Len(p) + 3 BY <1>5, <1>7
<1>10. phase' # "run" BY <1>1 DEF Talk, Running
<1>11. \A k \in 1 .. Len(sent') : Len(delivered') < k => (g[z[k]] = DOLLAR <=> k = client'.cur)
  BY <1>1, <1>2, <1>3, <1>8
<1>12. Len(g) = z[client'.cur] + Len(sent'[client'.cur]) + 3 BY <1>2, <1>3, <1>9
<1>14. \A a \in 1 .. Len(g) : ~(z[client'.cur] + Len(sent'[client'.cur]) + 3 < a)
  <2>1. Len(g) \in Nat BY <1>5, <1>7
  <2> QED BY <1>12, <2>1
<1>13. Solo(g, z, b)' BY <1>10, <1>11, <1>14 DEF Solo
<1> QED BY <1>13 DEF g

LEMMA SoloAsk ==
  ASSUME Shape, NEW h, NEW q, NEW b, StreamAt(h, q, b), Solo(h, q, b),
         Sends(Intr, Intr), client' = client, client.cur >= 1, Calm' => Calm,
         NEW z, z = Placed(q, Len(sent), Len(h) + 1)
  PROVE  Solo(h \o Intr, z, b)'
<1> DEFINE d == Len(delivered)
           g == h \o Intr
<1> PICK N : N = Len(sent) OBVIOUS
<1>0. Intr \in Packet /\ Intr \in Seq(Byte) /\ Len(Intr) = 1 /\ Intr[1] = CTRLC /\ CTRLC # DOLLAR
  BY DEF Packet, Intr, CTRLC, DOLLAR, Byte
<1>1. sent' = Append(sent, Intr) /\ UNCHANGED <<phase, delivered>> BY DEF Sends, StubVars
<1>3. N \in Nat /\ Len(sent') = N + 1 BY <1>0, <1>1, AppendFacts DEF Shape
<1>7. /\ Len(g) = Len(h) + 1 /\ Len(h) \in Nat
      /\ z[N + 1] = Len(h) + 1 /\ g[z[N + 1]] = CTRLC
      /\ \A k \in 1 .. N : g[z[k]] = h[q[k]] /\ z[k] = q[k]
      /\ \A a \in 1 .. Len(h) : g[a] = h[a]
  <2>1. Len(Intr) >= 1 BY <1>0
  <2>2. PICK f : f = Intr OBVIOUS
  <2>3. f \in Seq(Byte) /\ Len(f) = 1 /\ Len(f) >= 1 /\ f[1] = CTRLC BY <1>0, <2>1, <2>2
  <2>4. Grown(h, q, h \o f, f, z, N) BY <2>3, Replaced
  <2>5. Grown(h, q, g, f, z, N) BY <2>2, <2>4
  <2> HIDE DEF g
  <2> QED BY <2>3, <2>5 DEF Grown
<1> HIDE DEF g
<1>8. ASSUME NEW k \in 1 .. (N + 1), d < k PROVE g[z[k]] = DOLLAR <=> k = client.cur
  <2>1. CASE k = N + 1
    <3>1. client.cur # N + 1 BY <1>3 DEF Shape
    <3> QED BY <1>0, <1>7, <2>1, <3>1
  <2>2. CASE k # N + 1
    <3>1. k \in 1 .. N BY <1>3, <2>2
    <3>3. h[q[k]] = DOLLAR <=> k = client.cur BY <1>8, <3>1 DEF Solo
    <3> QED BY <1>7, <3>1, <3>3
  <2> QED BY <2>1, <2>2
<1>9. ASSUME Calm, d < client.cur, NEW a \in 1 .. Len(g), z[client.cur] + Len(sent'[client.cur]) + 3 < a
      PROVE  g[a] = CTRLC
  <2>1. client.cur \in 1 .. N BY DEF Shape
  <2>2. z[client.cur] = q[client.cur] /\ sent'[client.cur] = sent[client.cur]
    <3>1. sent'[client.cur] = sent[client.cur] BY <1>0, <1>1, <2>1, AppendFacts DEF Shape
    <3> QED BY <1>7, <2>1, <3>1
  <2>3. CASE a = Len(h) + 1 BY <1>7, <2>3
  <2>4. CASE a # Len(h) + 1
    <3>1. a \in 1 .. Len(h) BY <1>7, <2>4
    <3>2. h[a] = CTRLC BY <1>9, <2>2, <3>1 DEF Solo
    <3> QED BY <1>7, <3>1, <3>2
  <2> QED BY <2>3, <2>4
<1>10. ASSUME Calm, phase = "run", NEW a \in 1 .. Len(g), b < a PROVE g[a] = CTRLC
  <2>1. CASE a = Len(h) + 1 BY <1>7, <2>1
  <2>2. CASE a # Len(h) + 1
    <3>1. a \in 1 .. Len(h) BY <1>7, <2>2
    <3>2. h[a] = CTRLC BY <1>10, <3>1 DEF Solo
    <3> QED BY <1>7, <3>1, <3>2
  <2> QED BY <2>1, <2>2
<1>11. \A k \in 1 .. Len(sent') : Len(delivered') < k => (g[z[k]] = DOLLAR <=> k = client'.cur)
  BY <1>1, <1>3, <1>8
<1>13. Solo(g, z, b)' BY <1>1, <1>9, <1>10, <1>11 DEF Solo
<1> QED BY <1>13 DEF g

\* The debugger acknowledges a reply, or rejects it.
LEMMA SoloPads ==
  ASSUME Shape, NEW h, NEW q, NEW b, StreamAt(h, q, b), Solo(h, q, b), NEW c \in {PLUS, MINUS},
         UNCHANGED <<StubVars, sent>>, client'.cur = client.cur, Calm' => Calm,
         ~Calm \/ (Len(delivered) >= client.cur /\ phase # "run")
  PROVE  Solo(h \o <<c>>, q, b)'
<1> DEFINE g == h \o <<c>>
<1> PICK N : N = Len(sent) OBVIOUS
<1>0. <<c>> \in Seq(Byte) /\ Len(<<c>>) >= 1
  <2>1. c \in Byte BY DEF PLUS, MINUS, Byte
  <2> QED BY <2>1
<1>1. UNCHANGED <<phase, delivered>> BY DEF StubVars
<1>2. \A k \in 1 .. N : g[q[k]] = h[q[k]]
  <2>1. PICK z : z = Placed(q, Len(sent), Len(h) + 1) OBVIOUS
  <2>2. PICK f : f = <<c>> OBVIOUS
  <2>3. f \in Seq(Byte) /\ Len(f) >= 1 BY <1>0, <2>2
  <2>4. Grown(h, q, h \o f, f, z, N) BY <2>1, <2>3, Replaced
  <2>5. Grown(h, q, g, f, z, N) BY <2>2, <2>4
  <2> HIDE DEF g
  <2> QED BY <2>5 DEF Grown
<1> HIDE DEF g
<1>3. \A k \in 1 .. Len(sent') : Len(delivered') < k => (g[q[k]] = DOLLAR <=> k = client'.cur)
  BY <1>1, <1>2 DEF Solo
<1>4. ~Calm' \/ (~(Len(delivered') < client'.cur) /\ phase' # "run") BY <1>1 DEF Shape
<1>5. Solo(g, q, b)' BY <1>3, <1>4 DEF Solo
<1> QED BY <1>5 DEF g

LEMMA LeaveMode ==
  ASSUME TypeOK, NEW s \in {stub, Failed(stub)}, Leave(s)
  PROVE  phase' = "exit" /\ stub'.no_ack_mode = stub.no_ack_mode
<1>1. s.no_ack_mode = stub.no_ack_mode /\ [s EXCEPT !.connected = FALSE].no_ack_mode = s.no_ack_mode
  BY DEF TypeOK, Failed
<1> QED BY <1>1 DEF Leave

TalkAt(h, q, b) == StreamAt(h, q, b) /\ Solo(h, q, b)

Exchange == Base /\ Talk /\ (phase # "exit" => \E h, q, b : TalkAt(h, q, b))

Conversation == Exchange /\ Later /\ Prompt

LEMMA TalkInit == Init => Conversation
<1> SUFFICES ASSUME Init PROVE Conversation OBVIOUS
<1>1. /\ phase = "process" /\ tx = <<>> /\ sent = <<>> /\ delivered = <<>> /\ client.cur = 0
      /\ client.mode = "idle" /\ client.noack = FALSE /\ stub.no_ack_mode = FALSE
      /\ Len(tx) = 0 /\ Len(sent) = 0 /\ Len(delivered) = 0
  BY DEF Init
<1>2. Silent(tx) /\ SpoiltCounted BY <1>1 DEF Silent, SpoiltCounted
<1>3. Talk BY <1>1, <1>2 DEF Talk, Settled, Asking, Heard, Listening, Agreed, Running
<1>6. Later /\ Prompt BY <1>1 DEF Later, Prompt
<1>4. Solo(<<>>, <<>>, 0) BY <1>1 DEF Solo
<1>5. TalkAt(<<>>, <<>>, 0) BY <1>4, InitStream DEF TalkAt
<1> QED BY <1>3, <1>5, <1>6, InitBase DEF Conversation, Exchange

\* What a step does to the packets sent and to the number the debugger waits for.
Moves ==
  \/ sent' = sent /\ client'.cur = client.cur
  \/ \E p \in Packet : sent' = Append(sent, p) /\ client'.cur = Len(sent) + 1
  \/ sent' = Append(sent, Intr) /\ client'.cur = client.cur

LEMMA SentMoves ==
  ASSUME Base, [Next]_vars
  PROVE  Moves
<1>0. TypeOK BY DEF Base
<1>1. CASE UNCHANGED <<sent, client>> BY <1>1 DEF Moves
<1>2. CASE Stub \/ TargetStops
  BY <1>1, <1>2 DEF Stub, ProcessEntry, receive_packet, ReadEof, Read, Poll, TargetStops, StopReply
<1>3. ASSUME NEW p \in Payloads, ClientSend(p) \/ ClientSendBad(p) PROVE Moves
  <2>1. p \in Packet BY DEF Packet
  <2>2. sent' = Append(sent, p) /\ client' = Waiting BY <1>3 DEF ClientSend, ClientSendBad, SendBytes
  <2>3. client'.cur = Len(sent) + 1 BY <1>0, <2>2, WaitingType
  <2> QED BY <2>1, <2>2, <2>3 DEF Moves
<1>4. CASE ClientInterrupt BY <1>4 DEF ClientInterrupt, SendBytes, Moves
<1>5. CASE ClientReads
  BY <1>0, <1>5 DEF ClientReads, ClientAwaitsAck, ClientTakesReply, ClientRejectsReply, ClientTimeout,
     Receive, TypeOK, Moves
<1>6. CASE SpoilReply \/ ClientClose BY <1>1, <1>6 DEF SpoilReply, ClientClose
<1>7. CASE UNCHANGED vars BY <1>1, <1>7 DEF vars
<1> QED BY <1>2, <1>3, <1>4, <1>5, <1>6, <1>7 DEF Next

LEMMA CalmMoves ==
  ASSUME Shape, Moves
  PROVE  (Calm' => Calm) /\ (Later => Later')
<1>0. sent \in Seq(Packet) /\ Len(sent) \in Nat /\ DOMAIN sent = 1 .. Len(sent) /\ client.cur \in Nat
      /\ client.cur <= Len(sent)
  BY DEF Shape
<1>1. CASE sent' = sent /\ client'.cur = client.cur BY <1>1 DEF Calm, Later
<1>2. ASSUME NEW p \in Packet, sent' = Append(sent, p),
             client'.cur = Len(sent) + 1 \/ (p = Intr /\ client'.cur = client.cur)
      PROVE  (Calm' => Calm) /\ (Later => Later')
  <2>1. /\ Len(sent') = Len(sent) + 1 /\ sent'[Len(sent) + 1] = p /\ sent' \in Seq(Packet)
        /\ \A i \in 1 .. Len(sent) : sent'[i] = sent[i]
    BY <1>0, <1>2, AppendFacts
  <2>2. DOMAIN sent' = 1 .. (Len(sent) + 1) BY <2>1
  <2>3. ASSUME Calm', NEW i \in DOMAIN sent, sent[i] = Intr PROVE i > client.cur
    <3>1. i \in 1 .. Len(sent) /\ i \in DOMAIN sent' /\ sent'[i] = Intr BY <1>0, <2>1, <2>2, <2>3
    <3>2. i > client'.cur BY <2>3, <3>1 DEF Calm
    <3> QED BY <1>0, <1>2, <3>1, <3>2
  <2>4. ASSUME Later, NEW i \in 1 .. Len(sent'), client'.cur < i PROVE sent'[i] = Intr
    <3>1. p = Intr /\ client'.cur = client.cur BY <1>0, <1>2, <2>1, <2>4
    <3>2. CASE i = Len(sent) + 1 BY <2>1, <3>1, <3>2
    <3>3. CASE i # Len(sent) + 1
      <4>1. i \in 1 .. Len(sent) BY <1>0, <2>1, <3>3
      <4> QED BY <2>1, <2>4, <3>1, <4>1 DEF Later
    <3> QED BY <3>2, <3>3
  <2> QED BY <2>3, <2>4 DEF Calm, Later
<1>3. Intr \in Packet BY DEF Packet
<1> QED BY <1>1, <1>2, <1>3 DEF Moves

\* A debugger that is still calm when it sends a packet has not interrupted the last one.
LEMMA CalmSends ==
  ASSUME Shape, Later, NEW p \in Packet, sent' = Append(sent, p), client'.cur = Len(sent) + 1, Calm'
  PROVE  Len(sent) = client.cur
<1> SUFFICES ASSUME Len(sent) # client.cur PROVE FALSE OBVIOUS
<1>0. sent \in Seq(Packet) /\ Len(sent) \in Nat /\ client.cur \in Nat /\ client.cur < Len(sent)
  BY DEF Shape
<1>1. Len(sent) \in 1 .. Len(sent) BY <1>0
<1>2. sent[Len(sent)] = Intr BY <1>0, <1>1 DEF Later
<1>3. sent'[Len(sent)] = Intr /\ sent' \in Seq(Packet) /\ Len(sent') = Len(sent) + 1
  BY <1>0, <1>1, <1>2, AppendFacts
<1>4. Len(sent) \in DOMAIN sent' BY <1>0, <1>3
<1>5. Len(sent) > client'.cur BY <1>3, <1>4 DEF Calm
<1> QED BY <1>0, <1>5

LEMMA AtMostOne == ASSUME NEW k, k = 0 \/ k = 1 PROVE k <= 1
OBVIOUS

LEMMA RepliesType ==
  ASSUME NEW p, NEW k \in 0 .. MaxPackets
  PROVE  Replies(p, k) \in Seq(Item)
<1>1. Reply(k) \in Item BY ItemTypes
<1>2. <<Reply(k)>> \in Seq(Item) BY <1>1
<1> QED BY <1>2 DEF Replies

LEMMA AckFirst ==
  ASSUME NEW r \in Seq(Item)
  PROVE  <<>> \o <<Ack>> \o r # <<>> /\ (<<>> \o <<Ack>> \o r)[1].kind = "+"
<1>1. PICK x \in Item : x = Ack /\ x.kind = "+" BY ItemTypes
<1>2. PICK a : a = <<x>> OBVIOUS
<1>3. a \in Seq(Item) /\ Len(a) = 1 /\ a[1] = x BY <1>2
<1>4. PICK t : t = <<>> \o a OBVIOUS
<1>5. t \in Seq(Item) /\ Len(t) = 1 /\ t[1] = x BY <1>3, <1>4
<1>6. t \o r \in Seq(Item) /\ Len(t \o r) = 1 + Len(r) /\ (t \o r)[1] = x
  <2>1. /\ t \o r \in Seq(Item) /\ Len(t \o r) = Len(t) + Len(r)
        /\ \A i \in 1 .. Len(t) : (t \o r)[i] = t[i]
    BY <1>5, Joined
  <2>2. 1 \in 1 .. Len(t) BY <1>5
  <2> QED BY <1>5, <2>1, <2>2
<1>7. Len(r) \in Nat OBVIOUS
<1>8. t \o r # <<>> BY <1>6, <1>7
<1>9. t \o r = <<>> \o <<Ack>> \o r BY <1>1, <1>2, <1>4
<1> QED BY <1>1, <1>6, <1>8, <1>9

LEMMA PromptStep ==
  ASSUME Fitting, ~Reframing, Conversation, [Next]_vars
  PROVE  Prompt'
<1> DEFINE d == Len(delivered)
           n == client.cur
<1>0. Base /\ TypeOK /\ Talk /\ Shape /\ Later /\ Prompt BY BaseShape DEF Conversation, Exchange, Base
<1>1. Calm' => Calm BY <1>0, SentMoves, CalmMoves
<1> SUFFICES ASSUME Calm', phase' # "exit", Len(sent') = client'.cur, ~client'.noack
             PROVE  /\ client'.cur <= Len(delivered') + 1
                    /\ client'.mode = "idle" => tx' = <<>>
                    /\ client'.mode = "ack" =>
                         /\ Len(delivered') < client'.cur => tx' = <<>>
                         /\ Len(delivered') = client'.cur => tx' # <<>> /\ tx'[1].kind = "+"
                    /\ client'.mode = "reply" => Len(tx') <= 1
  BY DEF Prompt
<1>2. d \in Nat /\ n \in Nat /\ d <= Len(sent) /\ Len(sent) \in Nat /\ tx \in Seq(Item) BY <1>0 DEF Shape
<1>3. ASSUME phase # "exit", Len(sent) = n, ~client.noack
      PROVE  /\ n <= d + 1
             /\ client.mode = "idle" => tx = <<>>
             /\ client.mode = "ack" => /\ d < n => tx = <<>>
                                       /\ d = n => tx # <<>> /\ tx[1].kind = "+"
             /\ client.mode = "reply" => Len(tx) <= 1
  BY <1>0, <1>1, <1>3 DEF Prompt
<1>4. CASE UNCHANGED <<tx, client, sent, delivered>> /\ phase # "exit" BY <1>3, <1>4
<1>5. CASE UNCHANGED vars BY <1>4, <1>5 DEF vars
<1>6. CASE ProcessEntry BY <1>4, <1>6 DEF ProcessEntry
<1>7. CASE ReadEof BY <1>7 DEF ReadEof, Leave
<1>8. ASSUME NEW c \in Byte, Read(c), WaitForDollar(c) \/ ReadData(c) \/ FirstDigit(c)
      PROVE  UNCHANGED <<tx, client, sent, delivered>> /\ phase # "exit"
  BY <1>8 DEF Read, WaitForDollar, ReadData, FirstDigit, Stay
<1>9. ASSUME NEW c \in Byte, Read(c), CtrlC(c) PROVE FALSE
  <2>1. phase # "exit" /\ UNCHANGED <<client, sent>> /\ c = CTRLC BY <1>9 DEF Read, CtrlC
  <2>2. PICK h, q, b : TalkAt(h, q, b) BY <2>1 DEF Conversation, Exchange
  <2>3. StreamAt(h, q, b) /\ Solo(h, q, b) BY <2>2 DEF TalkAt
  <2>4. d < Len(sent) /\ b + 1 = q[d + 1] /\ h[b + 1] = CTRLC
    BY <1>0, <1>9, <2>3, ReadsInterrupt DEF Shape
  <2>5. h[q[d + 1]] = CTRLC /\ CtrlC(CTRLC) BY <1>9, <2>1, <2>4
  <2>6. d + 1 # n BY <1>0, <2>1, <2>3, <2>4, <2>5, SoloInterrupt
  <2>7. n <= d + 1 /\ Len(sent) = n BY <1>3, <2>1
  <2> QED BY <1>2, <2>4, <2>6, <2>7
<1>10. ASSUME NEW c \in Byte, Read(c), SecondDigit(c) \/ AckFails(c)
       PROVE  /\ n <= Len(delivered') /\ Len(delivered') = n /\ client' = client /\ client.mode = "ack"
              /\ tx' # <<>> /\ tx'[1].kind = "+"
  <2>1. phase # "exit" /\ UNCHANGED <<client, sent>> /\ recv.state = 2 /\ recv.index = 1
    BY <1>10 DEF Read, SecondDigit, AckFails
  <2>2. PICK h, q, b : TalkAt(h, q, b) BY <2>1 DEF Conversation, Exchange
  <2>3. StreamAt(h, q, b) /\ Solo(h, q, b) BY <2>2 DEF TalkAt
  <2>4. LastByte(h, q, b, d, sent[d + 1], c)
    <3>1. recv \in RecvRec /\ delivered \in Seq(Seq(Byte)) BY <1>0, RecvFacts DEF Shape
    <3> QED BY <1>0, <1>10, <2>1, <2>3, <3>1, ReadsLastByte
  <2>5. d + 1 \in 1 .. Len(sent) /\ h[q[d + 1]] = DOLLAR BY <2>4 DEF LastByte
  <2>6. d + 1 = n /\ d < n BY <1>2, <2>3, <2>5 DEF Solo
  <2>7. Len(sent) = n /\ ~client.noack BY <2>1
  <2>8. client.mode = "ack" BY <1>0, <2>6, <2>7 DEF Talk, Heard, Shape
  <2>9. tx = <<>> BY <1>3, <2>1, <2>6, <2>7, <2>8
  <2>10. ~stub.no_ack_mode BY <1>0, <2>6, <2>7 DEF Talk, Agreed, Shape
  <2>11. /\ delivered' = Append(delivered, recv.buf)
         /\ tx' = tx \o <<Ack>> \o Replies(recv.buf, d + 1)
    <3>1. ~AckFails(c) BY DEF AckFails, Leave
    <3>2. ~(SecondDigit(c) /\ ~ChecksumOk(Digit(c))) BY DEF SecondDigit, Leave
    <3>3. Dispatch(recv.buf, [stub EXCEPT !.failures = 0], IF Acks(stub) THEN <<Ack>> ELSE <<>>)
      BY <1>10, <3>1, <3>2 DEF SecondDigit
    <3> QED BY <2>10, <3>3 DEF Dispatch, Acks
  <2>12. Len(delivered') = n
    <3>1. recv.buf \in Seq(Byte) BY <1>0 DEF TypeOK
    <3> QED BY <1>0, <2>6, <2>11, <3>1, AppendFacts DEF Shape
  <2>13. n \in 0 .. MaxPackets BY <1>0, BoundAssumption DEF Shape
  <2>14. PICK r \in Seq(Item) : r = Replies(recv.buf, d + 1) BY <2>6, <2>13, RepliesType
  <2>15. tx' = <<>> \o <<Ack>> \o r BY <2>9, <2>11, <2>14
  <2>16. tx' # <<>> /\ tx'[1].kind = "+" BY <2>15, AckFirst
  <2> QED BY <1>2, <2>1, <2>8, <2>12, <2>16
<1>11. CASE TargetStops \/ Poll
  <2>1. /\ phase = "run" /\ tx' = Append(tx, Reply(d)) /\ UNCHANGED <<client, sent, delivered>>
    BY <1>11 DEF TargetStops, Poll, StopReply
  <2>2. client.mode # "idle" /\ d = n /\ (client.mode = "reply" => tx = <<>>)
    BY <1>0, <2>1 DEF Talk, Running
  <2>3. Reply(d) \in Item
    <3>1. d \in 0 .. MaxPackets BY <1>0, BoundAssumption DEF Shape
    <3> QED BY <3>1, ItemTypes
  <2>4. /\ tx' \in Seq(Item) /\ Len(tx') = Len(tx) + 1 /\ Len(tx) \in Nat
        /\ \A i \in 1 .. Len(tx) : tx'[i] = tx[i]
    BY <1>2, <2>1, <2>3, AppendFacts
  <2>5. tx' # <<>> BY <2>4, EmptyFacts
  <2>6. client.mode = "reply" => Len(tx') <= 1
    <3>1. tx = <<>> => Len(tx) = 0 BY <1>2, EmptyFacts
    <3> QED BY <2>2, <2>4, <3>1
  <2>7. client.mode = "ack" => tx'[1].kind = "+"
    <3> SUFFICES ASSUME client.mode = "ack" PROVE tx'[1].kind = "+" OBVIOUS
    <3>1. tx # <<>> /\ tx[1].kind = "+" BY <1>3, <2>1, <2>2
    <3>2. 1 \in 1 .. Len(tx) BY <1>2, <2>4, <3>1, EmptyFacts
    <3> QED BY <2>4, <3>1, <3>2
  <2>8. n <= d + 1 /\ ~(d < n) BY <1>2, <2>2
  <2> QED BY <2>1, <2>2, <2>5, <2>6, <2>7, <2>8
<1>12. ASSUME NEW p \in Payloads, ClientSend(p) \/ ClientSendBad(p)
       PROVE  /\ client'.cur <= Len(delivered') + 1 /\ client'.mode = "ack" /\ tx' = <<>>
              /\ Len(delivered') # client'.cur
  <2>1. /\ client.mode = "idle" /\ sent' = Append(sent, p) /\ client' = Waiting
        /\ UNCHANGED <<phase, delivered, tx>>
    BY <1>12 DEF ClientSend, ClientSendBad, SendBytes, StubVars
  <2>2. /\ client'.cur = Len(sent) + 1 /\ client'.noack = client.noack
        /\ client'.mode = (IF client.noack THEN "reply" ELSE "ack")
    BY <1>0, <2>1, WaitingType
  <2>3. Len(sent) = n BY <1>0, <2>1, <2>2, CalmSends DEF Packet
  <2>4. tx = <<>> /\ d >= n BY <1>0, <1>3, <2>1, <2>2, <2>3 DEF Talk, Heard
  <2> QED BY <1>2, <2>1, <2>2, <2>3, <2>4
<1>13. ~ClientInterrupt
  <2> SUFFICES ASSUME ClientInterrupt PROVE FALSE OBVIOUS
  <2>1. sent' = Append(sent, Intr) /\ client' = client BY DEF ClientInterrupt, SendBytes
  <2>2. Len(sent') = Len(sent) + 1 BY <1>0, <2>1, AppendFacts DEF Shape, Packet
  <2> QED BY <1>0, <2>1, <2>2 DEF Shape
<1>14. ASSUME Receive
       PROVE  /\ tx # <<>> /\ Head(tx) = tx[1] /\ Len(tx) \in Nat /\ Len(tx) >= 1 /\ Len(tx') = Len(tx) - 1
              /\ tx' \in Seq(Item) /\ UNCHANGED <<phase, delivered, sent>>
  BY <1>0, <1>14, TakenFacts
<1>15. CASE ClientAwaitsAck
  <2>1. Receive /\ client.mode = "ack" BY <1>15 DEF ClientAwaitsAck
  <2>2. ~client.noack BY <1>0, <2>1 DEF Talk, Settled
  <2>3. Len(sent) = n BY <1>0, <2>1, <2>2 DEF Talk, Asking
  <2>4. d = n /\ tx[1].kind = "+" BY <1>2, <1>3, <1>14, <2>1, <2>2, <2>3
  <2>5. client' = [client EXCEPT !.mode = "reply"] BY <1>14, <1>15, <2>1, <2>4 DEF ClientAwaitsAck
  <2>6. client'.mode = "reply" /\ client'.cur = n BY <1>0, <2>5 DEF TypeOK
  <2>7. Confirmed(tx, n, phase) BY <1>0, <2>1, <2>2, <2>4 DEF Talk, Asking
  <2>8. \/ Len(tx') = 0
        \/ Len(tx') = 1
    <3>1. \A i \in 1 .. Len(tx') : tx'[i] = tx[i + 1] BY <1>0, <2>1, TakenFacts
    <3> QED BY <1>2, <1>14, <2>1, <2>4, <2>7, <3>1, ConfirmedTail
  <2>10. delivered' = delivered BY <1>14, <2>1
  <2>11. Len(tx') <= 1 BY <2>8, AtMostOne
  <2>9. Len(delivered') = d /\ n <= d + 1 /\ Len(tx') <= 1 BY <1>2, <2>4, <2>10, <2>11
  <2> QED BY <2>6, <2>9
<1>16. CASE ClientTakesReply
  <2>1. Receive /\ client.mode = "reply"
        /\ client' = [client EXCEPT !.mode = "idle", !.noack = client.noack \/ NoAck(sent[n])]
    BY <1>16 DEF ClientTakesReply
  <2>2. client'.mode = "idle" /\ client'.cur = n /\ client'.noack = (client.noack \/ NoAck(sent[n]))
    BY <1>0, <2>1 DEF TypeOK
  <2>3. ~client.noack /\ phase # "exit" /\ Len(sent) = n BY <1>14, <2>1, <2>2
  <2>4. Len(tx) <= 1 /\ n <= d + 1 BY <1>3, <2>1, <2>3
  <2>5. Len(tx') = 0 BY <1>14, <2>1, <2>4
  <2>6. tx' = <<>> BY <1>14, <2>1, <2>5, EmptyFacts
  <2> QED BY <1>14, <2>1, <2>2, <2>4, <2>6
<1>17. CASE ClientRejectsReply
  <2>1. Receive /\ client.mode = "reply" /\ client' = client BY <1>17 DEF ClientRejectsReply
  <2>2. Len(tx) <= 1 /\ n <= d + 1 BY <1>3, <1>14, <2>1
  <2>3. Len(tx') <= 1 BY <1>14, <2>1, <2>2
  <2> QED BY <1>14, <2>1, <2>2, <2>3
<1>18. CASE SpoilReply
  <2>1. UNCHANGED <<phase, delivered, client, sent>> BY <1>18 DEF SpoilReply, StubVars
  <2>2. PICK i : Spoiled(i) BY <1>0, <1>18, SpoilStep
  <2>3. /\ i \in 1 .. Len(tx) /\ tx' \in Seq(Item) /\ Len(tx') = Len(tx) /\ Len(tx) \in Nat
        /\ \A j \in 1 .. Len(tx) : tx'[j].kind = "+" <=> tx[j].kind = "+"
    BY <1>0, <2>2 DEF Spoiled, Shape
  <2>4. tx # <<>> /\ tx' # <<>> /\ 1 \in 1 .. Len(tx)
    <3>1. Len(tx) >= 1 BY <2>3
    <3> QED BY <1>2, <2>3, <3>1, EmptyFacts
  <2> QED BY <1>3, <2>1, <2>3, <2>4
<1>19. CASE ClientClose
  <2>1. phase' = phase /\ UNCHANGED <<tx, client, sent, delivered>> BY <1>19 DEF ClientClose, StubVars
  <2> QED BY <1>4, <2>1
<1>20. ~ClientTimeout BY DEF ClientTimeout
<1>21. CASE receive_packet
  <2>1. ASSUME NEW c \in Byte, Read(c), SecondDigit(c) \/ AckFails(c) PROVE Prompt'
    BY <1>2, <1>10, <2>1 DEF Prompt
  <2> QED BY <1>2, <1>4, <1>7, <1>8, <1>9, <1>10, <1>21 DEF receive_packet
<1>22. CASE \E p \in Payloads : ClientSend(p) \/ ClientSendBad(p) BY <1>12, <1>22
<1> QED
  BY <1>5, <1>6, <1>11, <1>13, <1>15, <1>16, <1>17, <1>18, <1>19, <1>20, <1>21, <1>22
  DEF Next, Stub, ClientReads

\* A byte is read that changes nothing but the position in the stream.
LEMMA TalkReads ==
  ASSUME Talk, NEW h, NEW q, NEW b, TalkAt(h, q, b), NEW c, Read(c), Stay, StreamAt(h, q, b + 1)'
  PROVE  Talk' /\ TalkAt(h, q, b + 1)'
<1>1. /\ UNCHANGED <<tx, client, sent, delivered, bad, stub, phase>> /\ phase = "receive"
  BY DEF Read, Stay
<1>2. Talk' BY <1>1, TalkRests
<1>3. Solo(h, q, b) BY DEF TalkAt
<1>4. Solo(h, q, b + 1)' BY <1>1, <1>3, SoloRests
<1> QED BY <1>2, <1>4 DEF TalkAt

LEMMA TalkHearsInterrupt ==
  ASSUME Base, Talk, NEW h, NEW q, NEW b, TalkAt(h, q, b), NEW c, Read(c), CtrlC(c),
         StreamAt(h, q, b + 1)'
  PROVE  Talk' /\ TalkAt(h, q, b + 1)'
<1>0. Shape /\ delivered \in Seq(Seq(Byte)) BY BaseShape DEF Shape
<1>1. StreamAt(h, q, b) /\ Solo(h, q, b) BY DEF TalkAt
<1>2. Len(delivered) < Len(sent) /\ b + 1 = q[Len(delivered) + 1] /\ h[b + 1] = CTRLC
  BY <1>0, <1>1, ReadsInterrupt
<1>3. c = CTRLC /\ phase = "receive" /\ UNCHANGED <<client, sent, bad>> BY DEF CtrlC, Read
<1>4. CtrlC(CTRLC) BY <1>3
<1>5. h[q[Len(delivered) + 1]] = CTRLC BY <1>2
<1>6. Len(delivered) + 1 # client.cur /\ Solo(h, q, b + 1)'
  BY <1>0, <1>1, <1>2, <1>3, <1>4, <1>5, SoloInterrupt
<1>7. Talk' BY <1>0, <1>2, <1>3, <1>4, <1>6, TalkInterrupt
<1> QED BY <1>6, <1>7 DEF TalkAt

LEMMA TalkHearsPacket ==
  ASSUME Fitting, Base, Talk, NEW h, NEW q, NEW b, TalkAt(h, q, b), NEW c, Read(c),
         SecondDigit(c) \/ AckFails(c), phase' = "exit" \/ StreamAt(h, q, b + 1)'
  PROVE  Talk' /\ (phase' = "exit" \/ TalkAt(h, q, b + 1)')
<1> DEFINE d == Len(delivered)
           p == sent[d + 1]
<1>0. Shape /\ TypeOK /\ recv \in RecvRec BY BaseShape, RecvFacts DEF Base
<1>1. StreamAt(h, q, b) /\ Solo(h, q, b) BY DEF TalkAt
<1>2. recv.state = 2 /\ recv.index = 1 BY DEF SecondDigit, AckFails
<1>3. LastByte(h, q, b, d, p, c) BY <1>0, <1>1, <1>2, ReadsLastByte
<1>4. h \in Seq(Byte) /\ b \in Nat /\ phase = "receive" BY <1>1, StreamRead
<1>5. UNCHANGED <<client, sent, bad>> BY DEF Read
<1>6. d \in Nat /\ d < d + 1 BY <1>0 DEF Shape
<1>7. p \in Packet /\ d + 1 \in 1 .. Len(sent) /\ h[q[d + 1]] = DOLLAR BY <1>3 DEF LastByte
<1>8. d + 1 = client.cur /\ d < client.cur BY <1>1, <1>6, <1>7 DEF Solo
<1>9. p \in Seq(Byte) /\ Len(p) < BufSize BY <1>7, PacketType DEF Fitting
<1>10. CASE SecondDigit(c) /\ ChecksumOk(Digit(c))
  <2>1. Dispatch(recv.buf, [stub EXCEPT !.failures = 0], IF Acks(stub) THEN <<Ack>> ELSE <<>>)
    BY <1>10 DEF SecondDigit
  <2>2. recv.buf = p BY <1>3, <1>9, <1>10 DEF LastByte
  <2>3. stub \in StubRec BY <1>0 DEF TypeOK, StubRec
  <2>4. p = sent[client.cur] BY <1>8
  <2>5. PICK r : r = p OBVIOUS
  <2>6. Dispatch(r, [stub EXCEPT !.failures = 0], IF Acks(stub) THEN <<Ack>> ELSE <<>>)
    BY <2>1, <2>2, <2>5
  <2>7. delivered' = Append(delivered, r) /\ r \in Seq(Byte) BY <1>9, <2>5, <2>6 DEF Dispatch
  <2>8. LastByte(h, q, b, d, r, c) BY <1>3, <2>5
  <2>9. PICK s : s = [stub EXCEPT !.failures = 0] OBVIOUS
  <2>10. Dispatch(r, s, IF Acks(stub) THEN <<Ack>> ELSE <<>>) BY <2>6, <2>9
  <2>11. r = sent[client.cur] BY <2>4, <2>5
  <2>12. Talk' BY <1>0, <1>4, <1>5, <1>8, <2>3, <2>7, <2>9, <2>10, <2>11, TalkDeliver
  <2>13. Solo(h, q, b + 1)' BY <1>0, <1>1, <1>4, <1>5, <2>7, <2>8, SoloDeliver
  <2> QED BY <2>12, <2>13 DEF TalkAt
<1>11. CASE SecondDigit(c) /\ ~ChecksumOk(Digit(c))
  <2>1. /\ Leave(Failed(stub)) /\ delivered' = delivered
        /\ tx' = IF Acks(stub) THEN Append(tx, Nack) ELSE tx
    BY <1>11 DEF SecondDigit
  <2>2. phase' = "exit" /\ stub'.no_ack_mode = stub.no_ack_mode BY <1>0, <2>1, LeaveMode
  <2>3. CASE Acks(stub)
    <3>1. tx' = Append(tx, Nack) /\ ~stub.no_ack_mode BY <2>1, <2>3 DEF Acks
    <3> QED BY <1>0, <1>5, <1>8, <2>1, <2>2, <3>1, TalkNack
  <2>4. CASE ~Acks(stub)
    <3>1. tx' = tx BY <2>1, <2>4
    <3> QED BY <1>4, <1>5, <2>1, <2>2, <3>1, TalkRests
  <2> QED BY <2>3, <2>4
<1>12. CASE AckFails(c)
  <2>1. Leave(Failed(stub)) /\ UNCHANGED <<tx, delivered>> BY <1>12 DEF AckFails
  <2>2. phase' = "exit" /\ stub'.no_ack_mode = stub.no_ack_mode BY <1>0, <2>1, LeaveMode
  <2> QED BY <1>4, <1>5, <2>1, <2>2, TalkRests
<1> QED BY <1>10, <1>11, <1>12

LEMMA TalkInductive ==
  ASSUME Fitting, ~Reframing, Conversation, [Next]_vars, Civil'
  PROVE  Exchange'
<1>0. Base /\ TypeOK /\ Talk /\ Shape /\ Later /\ Prompt BY BaseShape DEF Conversation, Exchange, Base
<1>18. Calm' => Calm BY <1>0, SentMoves, CalmMoves
<1>19. ASSUME NEW p \in Packet, sent' = Append(sent, p), client'.cur = Len(sent) + 1
       PROVE  client.noack => Len(sent) = client.cur
  <2>1. CASE Polite BY <1>0, <2>1 DEF Talk, Settled
  <2>2. CASE Calm' BY <1>0, <1>19, <2>2, CalmSends
  <2> QED BY <2>1, <2>2 DEF Civil, Polite
<1>1. CASE UNCHANGED vars
  <2>1. Base' BY <1>0, <1>1 DEF vars, Base, TypeOK, Fresh, NoFailureWithoutFault, Undamaged
  <2>2. ASSUME NEW h, NEW q, NEW b, TalkAt(h, q, b) PROVE TalkAt(h, q, b)'
    <3>1. Inside' = Inside BY <1>1 DEF vars, Inside
    <3>2. StreamAt(h, q, b)' BY <1>1, <2>2, <3>1, StreamRests DEF vars, TalkAt
    <3>3. Solo(h, q, b)' BY <1>1, <2>2, SoloRests DEF vars, TalkAt
    <3> QED BY <3>2, <3>3 DEF TalkAt
  <2>3. phase' = phase /\ Talk' BY <1>0, <1>1, TalkRests DEF vars
  <2> QED BY <2>1, <2>2, <2>3 DEF Conversation, Exchange
<1>2. CASE ProcessEntry
  <2>1. phase = "process" /\ UNCHANGED <<rx, closed, tx, client, sent, delivered, bad>>
    BY <1>2 DEF ProcessEntry
  <2>2. PICK h, q, b : TalkAt(h, q, b) BY <2>1 DEF Conversation, Exchange
  <2>3. Base' /\ (phase' = "exit" \/ StreamAt(h, q, b)') BY <1>0, <1>2, <2>2, EntryStep DEF TalkAt
  <2>4. phase' # "run" /\ stub'.no_ack_mode = stub.no_ack_mode
    <3>1. CASE ~stub.connected \/ stub.failures >= MaxFailures
      <4>1. Leave(stub) BY <1>2, <3>1 DEF ProcessEntry
      <4> QED BY <1>0, <4>1, LeaveMode
    <3>2. CASE ~(~stub.connected \/ stub.failures >= MaxFailures)
      BY <1>2, <3>2 DEF ProcessEntry
    <3> QED BY <3>1, <3>2
  <2>5. Talk' BY <1>0, <2>1, <2>4, TalkRests
  <2>6. Solo(h, q, b)' BY <2>1, <2>2, <2>4, SoloRests DEF TalkAt
  <2> QED BY <2>3, <2>5, <2>6 DEF Conversation, Exchange, TalkAt
<1>3. CASE ReadEof
  <2>1. Base' /\ phase' = "exit" BY <1>0, <1>3, EofStep
  <2>2. phase = "receive" /\ Leave(Failed(stub)) /\ UNCHANGED <<tx, client, sent, delivered, bad>>
    BY <1>3 DEF ReadEof
  <2>3. stub'.no_ack_mode = stub.no_ack_mode BY <1>0, <2>2, LeaveMode
  <2>4. Talk' BY <1>0, <2>1, <2>2, <2>3, TalkRests
  <2> QED BY <2>1, <2>4 DEF Conversation, Exchange
<1>4. ASSUME NEW c \in Byte, Read(c),
             \/ WaitForDollar(c) \/ CtrlC(c) \/ ReadData(c)
             \/ FirstDigit(c) \/ SecondDigit(c) \/ AckFails(c)
      PROVE  Exchange'
  <2>1. phase # "exit" BY <1>4 DEF Read
  <2>2. PICK h, q, b : TalkAt(h, q, b) BY <2>1 DEF Conversation, Exchange
  <2>0. StreamAt(h, q, b) BY <2>2 DEF TalkAt
  <2>3. CASE WaitForDollar(c)
    <3>1. Base' /\ StreamAt(h, q, b + 1)' BY <1>0, <1>4, <2>0, <2>3, GapStep
    <3>2. Stay BY <2>3 DEF WaitForDollar
    <3>3. Talk' /\ TalkAt(h, q, b + 1)' BY <1>0, <1>4, <2>2, <3>1, <3>2, TalkReads
    <3> QED BY <3>1, <3>3 DEF Conversation, Exchange
  <2>4. CASE CtrlC(c)
    <3>1. Base' /\ StreamAt(h, q, b + 1)' BY <1>0, <1>4, <2>0, <2>4, CtrlCStep
    <3>3. Talk' /\ TalkAt(h, q, b + 1)' BY <1>0, <1>4, <2>2, <2>4, <3>1, TalkHearsInterrupt
    <3> QED BY <3>1, <3>3 DEF Conversation, Exchange
  <2>5. CASE ReadData(c)
    <3>1. Base' /\ StreamAt(h, q, b + 1)' BY <1>0, <1>4, <2>0, <2>5, DataStep
    <3>2. Stay BY <2>5 DEF ReadData
    <3>3. Talk' /\ TalkAt(h, q, b + 1)' BY <1>0, <1>4, <2>2, <3>1, <3>2, TalkReads
    <3> QED BY <3>1, <3>3 DEF Conversation, Exchange
  <2>6. CASE FirstDigit(c)
    <3>1. Base' /\ StreamAt(h, q, b + 1)' BY <1>0, <1>4, <2>0, <2>6, FirstDigitStep
    <3>2. Stay BY <2>6 DEF FirstDigit
    <3>3. Talk' /\ TalkAt(h, q, b + 1)' BY <1>0, <1>4, <2>2, <3>1, <3>2, TalkReads
    <3> QED BY <3>1, <3>3 DEF Conversation, Exchange
  <2>7. CASE SecondDigit(c) \/ AckFails(c)
    <3>1. Base' /\ (phase' = "exit" \/ StreamAt(h, q, b + 1)')
      BY <1>0, <1>4, <2>0, <2>7, SecondDigitStep
    <3>2. Talk' /\ (phase' = "exit" \/ TalkAt(h, q, b + 1)')
      BY <1>0, <1>4, <2>2, <2>7, <3>1, TalkHearsPacket
    <3> QED BY <3>1, <3>2 DEF Conversation, Exchange
  <2> QED BY <1>4, <2>3, <2>4, <2>5, <2>6, <2>7
<1>5. CASE TargetStops \/ Poll
  <2>1. phase # "exit" BY <1>5 DEF TargetStops, Poll
  <2>2. PICK h, q, b : TalkAt(h, q, b) BY <2>1 DEF Conversation, Exchange
  <2>3. Base' /\ StreamAt(h, q, b)' BY <1>0, <1>5, <2>2, RunStep DEF TalkAt
  <2>4. Talk' BY <1>0, <1>5, TalkStop
  <2>5. phase' = "process" /\ UNCHANGED <<client, sent, delivered>>
    BY <1>5 DEF TargetStops, Poll, StopReply
  <2>6. Solo(h, q, b)' BY <2>2, <2>5, SoloRests DEF TalkAt
  <2> QED BY <2>3, <2>4, <2>6 DEF Conversation, Exchange, TalkAt
<1>6. ASSUME NEW p, NEW f, Base', Sends(p, f), SendBytes(p, f, Waiting), Len(f) = Len(p) + 4,
             client.mode = "idle", bad'.replies = bad.replies
      PROVE  Exchange'
  <2>1. phase' = phase /\ p \in Packet BY <1>6 DEF Sends, StubVars
  <2>2. ASSUME NEW h, NEW q, NEW b, TalkAt(h, q, b) PROVE \E x, y, z : TalkAt(x, y, z)'
    <3>0. StreamAt(h, q, b) /\ Solo(h, q, b) BY <2>2 DEF TalkAt
    <3>1. PICK z : z = Placed(q, Len(sent), Len(h) + 1) /\ StreamAt(h \o f, z, b)'
      BY <1>6, <3>0, ClientStream
    <3>2. Solo(h \o f, z, b)' BY <1>0, <1>6, <3>0, <3>1, SoloSend
    <3>3. TalkAt(h \o f, z, b)' BY <3>1, <3>2 DEF TalkAt
    <3> QED BY <3>3
  <2>4. sent' = Append(sent, p) /\ client'.cur = Len(sent) + 1 BY <1>0, <1>6, WaitingType DEF SendBytes
  <2>5. client.noack => Len(sent) = client.cur BY <1>19, <2>1, <2>4
  <2>3. Talk' BY <1>0, <1>6, <2>1, <2>5, TalkSend
  <2> QED BY <1>6, <2>1, <2>2, <2>3 DEF Conversation, Exchange
<1>7. ASSUME NEW p \in Payloads, ClientSend(p) PROVE Exchange'
  <2>1. Base' /\ Sends(p, Framed(p)) /\ Len(Framed(p)) = Len(p) + 4 BY <1>0, <1>7, SendStep
  <2>2. SendBytes(p, Framed(p), Waiting) /\ client.mode = "idle" /\ bad' = bad BY <1>7 DEF ClientSend
  <2> QED BY <1>6, <2>1, <2>2
<1>8. ASSUME NEW p \in Payloads, ClientSendBad(p) PROVE Exchange'
  <2>1. Base' BY <1>0, <1>8, SendBadStep
  <2>2. PICK f : Sends(p, f) /\ SendBytes(p, f, Waiting) /\ Len(f) = Len(p) + 4
    BY <1>0, <1>8, SendBadStep
  <2>3. client.mode = "idle" /\ bad' = [bad EXCEPT !.requests = @ + 1] BY <1>8 DEF ClientSendBad
  <2>4. bad'.replies = bad.replies BY <1>0, <2>3 DEF TypeOK
  <2> QED BY <1>6, <2>1, <2>2, <2>3, <2>4
<1>9. CASE ClientInterrupt
  <2>1. Base' /\ Sends(Intr, Intr) BY <1>0, <1>9, InterruptStep
  <2>2. Talk' /\ client' = client /\ client.cur >= 1 BY <1>0, <1>9, TalkAsk
  <2>3. phase' = phase BY <2>1 DEF Sends, StubVars
  <2>4. ASSUME NEW h, NEW q, NEW b, TalkAt(h, q, b) PROVE \E x, y, z : TalkAt(x, y, z)'
    <3>0. StreamAt(h, q, b) /\ Solo(h, q, b) BY <2>4 DEF TalkAt
    <3>1. PICK z : z = Placed(q, Len(sent), Len(h) + 1) /\ StreamAt(h \o Intr, z, b)'
      BY <2>1, <3>0, ClientStream
    <3>2. Solo(h \o Intr, z, b)' BY <1>0, <1>18, <2>1, <2>2, <3>0, <3>1, SoloAsk
    <3>3. TalkAt(h \o Intr, z, b)' BY <3>1, <3>2 DEF TalkAt
    <3> QED BY <3>3
  <2> QED BY <2>1, <2>2, <2>3, <2>4 DEF Conversation, Exchange
<1>10. ASSUME Base', Talk', UNCHANGED <<StubVars, rx, sent>>, client'.cur = client.cur,
              bad'.requests = bad.requests
       PROVE  Exchange'
  <2>1. /\ Inside' = Inside /\ recv' = recv /\ delivered' = delivered /\ phase' = phase
        /\ sent' = sent /\ rx' = rx
    BY <1>10 DEF StubVars, Inside
  <2>2. ASSUME NEW h, NEW q, NEW b, TalkAt(h, q, b) PROVE TalkAt(h, q, b)'
    <3>1. StreamAt(h, q, b)' BY <1>10, <2>1, <2>2, StreamRests DEF TalkAt
    <3>2. Solo(h, q, b) BY <2>2 DEF TalkAt
    <3>3. Calm' <=> Calm BY <1>10, <2>1 DEF Calm
    <3>4. Solo(h, q, b)' BY <1>10, <2>1, <3>2, <3>3 DEF Solo
    <3> QED BY <3>1, <3>4 DEF TalkAt
  <2> QED BY <1>10, <2>1, <2>2 DEF Conversation, Exchange
<1>11. ASSUME Base', Talk', NEW c \in {PLUS, MINUS}, rx' = Append(rx, c), UNCHANGED <<StubVars, sent, bad>>,
              client'.cur = client.cur, ~Calm \/ (Len(delivered) >= client.cur /\ phase # "run")
       PROVE  Exchange'
  <2>1. phase' = phase BY <1>11 DEF StubVars
  <2>2. ASSUME NEW h, NEW q, NEW b, TalkAt(h, q, b) PROVE TalkAt(h \o <<c>>, q, b)'
    <3>0. StreamAt(h, q, b) /\ Solo(h, q, b) BY <2>2 DEF TalkAt
    <3>1. StreamAt(h \o <<c>>, q, b)' BY <1>11, <3>0, StreamPads
    <3>2. Solo(h \o <<c>>, q, b)' BY <1>0, <1>11, <1>18, <3>0, SoloPads
    <3> QED BY <3>1, <3>2 DEF TalkAt
  <2> QED BY <1>11, <2>1, <2>2 DEF Conversation, Exchange
<1>12. CASE ClientAwaitsAck
  <2>1. Base' /\ (phase = "exit" \/ rx' = rx \/ Gobbles) BY <1>0, <1>12, AwaitsAckStep
  <2>2. UNCHANGED <<StubVars, sent, bad>> /\ phase' = phase
    BY <1>12 DEF ClientAwaitsAck, Receive, StubVars
  <2>3. Talk' BY <1>0, <1>12, TalkAwait
  <2>4. client'.cur = client.cur BY <1>0, <1>12 DEF ClientAwaitsAck, TypeOK
  <2>5. CASE phase = "exit" BY <2>1, <2>2, <2>3, <2>5 DEF Conversation, Exchange
  <2>6. CASE rx' = rx BY <1>10, <2>1, <2>2, <2>3, <2>4, <2>6
  <2>7. CASE Gobbles /\ phase # "exit"
    <3>1. rx' = Append(rx, PLUS) /\ Head(tx).kind # "+" BY <2>7 DEF Gobbles
    <3>2. ~Calm
      <4> SUFFICES ASSUME Calm PROVE FALSE OBVIOUS
      <4>1. client.mode = "ack" /\ tx # <<>> /\ Head(tx) = tx[1]
        BY <1>0, <1>12, TakenFacts DEF ClientAwaitsAck
      <4>2. ~client.noack BY <1>0, <4>1 DEF Talk, Settled
      <4>3. Len(sent) = client.cur BY <1>0, <4>1, <4>2 DEF Talk, Asking
      <4>4. Len(delivered) < client.cur => tx = <<>> BY <1>0, <2>7, <4>1, <4>2, <4>3 DEF Prompt
      <4>5. Len(delivered) = client.cur => tx[1].kind = "+" BY <1>0, <2>7, <4>1, <4>2, <4>3 DEF Prompt
      <4>6. Len(delivered) < client.cur \/ Len(delivered) = client.cur BY <1>0, <4>3 DEF Shape
      <4> QED BY <3>1, <4>1, <4>4, <4>5, <4>6
    <3> QED BY <1>11, <2>1, <2>2, <2>3, <2>4, <3>1, <3>2
  <2> QED BY <2>1, <2>5, <2>6, <2>7
<1>13. CASE ClientTakesReply
  <2>1. Base' /\ rx' = IF client.noack THEN rx ELSE Append(rx, PLUS) BY <1>0, <1>13, TakesReplyStep
  <2>2. UNCHANGED <<StubVars, sent, bad>> /\ client.mode = "reply" /\ tx # <<>>
    BY <1>13 DEF ClientTakesReply, Receive
  <2>3. Talk' BY <1>0, <1>13, TalkTake
  <2>4. client'.cur = client.cur BY <1>0, <1>13 DEF ClientTakesReply, TypeOK
  <2>5. CASE client.noack BY <1>10, <2>1, <2>2, <2>3, <2>4, <2>5
  <2>6. CASE ~client.noack
    <3>1. Len(delivered) >= client.cur /\ phase # "run" BY <1>0, <2>2, <2>6 DEF Talk, Heard, Running
    <3> QED BY <1>11, <2>1, <2>2, <2>3, <2>4, <2>6, <3>1
  <2> QED BY <2>5, <2>6
<1>14. CASE ClientRejectsReply
  <2>1. Base' /\ rx' = Append(rx, MINUS) BY <1>0, <1>14, RejectsReplyStep
  <2>2. UNCHANGED <<StubVars, sent, bad, client>> /\ client.mode = "reply" /\ tx # <<>>
    BY <1>14 DEF ClientRejectsReply, Receive
  <2>3. Talk' /\ ~client.noack BY <1>0, <1>14, TalkReject
  <2>4. Len(delivered) >= client.cur /\ phase # "run" BY <1>0, <2>2, <2>3 DEF Talk, Heard, Running
  <2> QED BY <1>11, <2>1, <2>2, <2>3, <2>4
<1>15. CASE SpoilReply
  <2>1. /\ Base' /\ UNCHANGED <<StubVars, rx, closed, client, sent>> /\ bad'.requests = bad.requests
        /\ bad'.replies = bad.replies + 1
    BY <1>0, <1>15, SpoilStep
  <2>2. PICK i : Spoiled(i) BY <1>0, <1>15, SpoilStep
  <2>3. ~client.noack BY <1>15 DEF SpoilReply
  <2>4. Talk' BY <1>0, <2>1, <2>2, <2>3, TalkSpoil
  <2> QED BY <1>10, <2>1, <2>4
<1>16. CASE ClientClose
  <2>1. Base' /\ UNCHANGED <<StubVars, rx, tx, client, sent, bad>> BY <1>0, <1>16, CloseStep
  <2>2. UNCHANGED <<stub, phase, delivered>> BY <2>1 DEF StubVars
  <2>3. Talk' BY <1>0, <2>1, <2>2, TalkRests
  <2> QED BY <1>10, <2>1, <2>3
<1>17. ~ClientTimeout BY DEF ClientTimeout
<1> QED
  BY <1>1, <1>2, <1>3, <1>4, <1>5, <1>7, <1>8, <1>9, <1>12, <1>13, <1>14, <1>15, <1>16, <1>17
  DEF Next, Stub, receive_packet, ClientReads

\* The debugger that has gone on after an interrupt in no-ack mode is not described.
TalkInv == Civil => Conversation

LEMMA TalkStep ==
  ASSUME Fitting, ~Reframing, LinkInv, TalkInv, [Next]_vars
  PROVE  TalkInv'
<1> SUFFICES ASSUME Civil' PROVE Conversation' BY DEF TalkInv
<1>1. Base /\ Shape BY BaseShape DEF LinkInv
<1>2. (Calm' => Calm) /\ (Later => Later') BY <1>1, SentMoves, CalmMoves
<1>3. Civil BY <1>2 DEF Civil, Polite
<1>4. Conversation BY <1>3 DEF TalkInv
<1>5. Exchange' BY <1>4, TalkInductive
<1>6. Prompt' BY <1>4, PromptStep
<1> QED BY <1>2, <1>4, <1>5, <1>6 DEF Conversation

LEMMA TalkInvariant == ~Reframing /\ Fitting => (Spec => []TalkInv)
<1> SUFFICES ASSUME ~Reframing, Fitting PROVE Spec => []TalkInv OBVIOUS
<1>1. Spec => []LinkInv BY LinkInvariant
<1>2. Init => TalkInv BY TalkInit DEF TalkInv
<1>3. LinkInv /\ TalkInv /\ [Next]_vars => TalkInv' BY TalkStep
<1> QED BY <1>1, <1>2, <1>3, PTL DEF Spec

LEMMA PoliteTalk == ~Reframing /\ Polite /\ Fitting => (Spec => []Conversation)
<1> SUFFICES ASSUME ~Reframing, Polite, Fitting PROVE Spec => []Conversation OBVIOUS
<1>1. TalkInv => Conversation BY DEF TalkInv, Civil
<1> QED BY <1>1, TalkInvariant, PTL

\* For packets that fit and a debugger that does not interrupt runs in no-ack mode: once
\* the debugger has stopped to expect acknowledgements, Acks of the stub is false, and
\* nothing that it would take for one is left on the way.
THEOREM ModesAgree == ~Reframing /\ Polite /\ Fitting => (Spec => []AckModesAgree)
<1>1. Conversation => AckModesAgree
  <2> SUFFICES ASSUME Conversation, client.noack
               PROVE  stub.no_ack_mode /\ \A i \in DOMAIN tx : tx[i].kind \notin {"+", "-"}
    BY DEF AckModesAgree
  <2>1. Talk /\ Shape BY BaseShape DEF Conversation, Exchange
  <2>2. stub.no_ack_mode BY <2>1 DEF Talk, Settled
  <2>3. \A i \in 1 .. Len(tx) : tx[i].kind = "reply" BY <2>1 DEF Talk, Settled
  <2>4. DOMAIN tx = 1 .. Len(tx) BY <2>1 DEF Shape
  <2> QED BY <2>2, <2>3, <2>4
<1> QED BY <1>1, PoliteTalk, PTL

\* For packets that fit, with and without acknowledgements and whatever the debugger
\* interrupts: the poll of a running target, which ends the run on any readable byte,
\* finds nothing but interrupts, up to and including the first run that is interrupted.
THEOREM PollFindsInterrupts == ~Reframing /\ Fitting => (Spec => []RunsUndisturbed)
<1>1. TalkInv => RunsUndisturbed
  <2> SUFFICES ASSUME TalkInv, phase = "run", Calm, NEW i \in DOMAIN rx PROVE rx[i] = CTRLC
    BY DEF RunsUndisturbed, OnlyInterrupts
  <2>0. Conversation BY DEF TalkInv, Civil
  <2>1. PICK h, q, b : TalkAt(h, q, b) BY <2>0 DEF Conversation, Exchange
  <2>2. Rest(h, b, rx) /\ h \in Seq(Byte) BY <2>1 DEF TalkAt, StreamAt, Layout, Starts
  <2>3. rx \in Seq(Byte) /\ b \in 0 .. Len(h) /\ Len(rx) = Len(h) - b /\ Len(h) \in Nat
    BY <2>2 DEF Rest
  <2>4. i \in 1 .. Len(rx) BY <2>3
  <2>5. rx[i] = h[b + i] BY <2>2, <2>4 DEF Rest
  <2>6. b + i \in 1 .. Len(h) /\ b < b + i BY <2>3, <2>4
  <2> QED BY <2>1, <2>5, <2>6 DEF TalkAt, Solo
<1> QED BY <1>1, TalkInvariant, PTL

\* Under the hypotheses of ModesAgree, and as long as no reply was damaged, the debugger only ever
\* takes the reply of send_packet that was made for the packet it waits on.
THEOREM RepliesMatch == ~Reframing /\ Polite /\ Fitting => (Spec => RepliesInStep)
<1> DEFINE A == client.mode = "reply" /\ client'.mode = "idle" /\ bad.replies = 0
                    /\ InterruptsAcked
                  => Head(tx).to = client.cur
<1>1. Polite /\ Conversation /\ [Next]_vars => [A]_vars
  <2> SUFFICES ASSUME Polite, Conversation, Next, client.mode = "reply", client'.mode = "idle",
                      bad.replies = 0
               PROVE  Head(tx).to = client.cur
    OBVIOUS
  <2>0. Base /\ TypeOK /\ Talk /\ Shape BY BaseShape DEF Conversation, Exchange, Base
  <2>1. client' # client OBVIOUS
  <2>2. ClientTakesReply
    <3>1. ~ClientAwaitsAck BY DEF ClientAwaitsAck
    <3>2. \A p \in Payloads : ~ClientSend(p) /\ ~ClientSendBad(p) BY DEF ClientSend, ClientSendBad
    <3>3. ~ClientInterrupt /\ ~ClientRejectsReply /\ ~SpoilReply /\ ~ClientClose
      BY <2>1 DEF ClientInterrupt, SendBytes, ClientRejectsReply, SpoilReply, ClientClose
    <3>4. ~Stub /\ ~TargetStops
      BY <2>1 DEF Stub, ProcessEntry, receive_packet, ReadEof, Read, Poll, TargetStops, StopReply
    <3>5. ~ClientTimeout BY <2>1 DEF ClientTimeout
    <3> QED BY <3>1, <3>2, <3>3, <3>4, <3>5 DEF Next, ClientReads
  <2>3. Receive BY <2>2 DEF ClientTakesReply
  <2>4. tx # <<>> /\ Head(tx) = tx[1] BY <2>0, <2>3, TakenFacts
  <2>5. CASE client.noack
    <3>1. tx = <<Reply(client.cur)>> BY <2>0, <2>4, <2>5 DEF Talk, Settled, Alternating
    <3>2. client.cur \in 0 .. MaxPackets BY <2>0, BoundAssumption DEF Shape
    <3>3. Reply(client.cur).to = client.cur BY <3>2, ItemTypes
    <3> QED BY <2>4, <3>1, <3>3
  <2>6. CASE ~client.noack BY <2>0, <2>4, <2>6 DEF Talk, Listening
  <2> QED BY <2>5, <2>6
<1> HIDE DEF A
<1>2. ASSUME ~Reframing, Polite, Fitting PROVE Spec => [][A]_vars
  <2>1. Conversation /\ [Next]_vars => [A]_vars BY <1>1, <1>2
  <2>2. Spec => []Conversation BY <1>2, PoliteTalk
  <2> QED BY <2>1, <2>2, PTL DEF Spec
<1> QED BY <1>2 DEF RepliesInStep, A
==============================================================================
