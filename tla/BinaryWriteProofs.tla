-------------------------- MODULE BinaryWriteProofs --------------------------
(***************************************************************************)
(* For every payload, length and address: the decoder stays within the     *)
(* length the packet asks for, an X packet is carried out whole or leaves  *)
(* memory as it was, and what a debugger escaped is restored.              *)
(***************************************************************************)
EXTENDS BinaryWrite, TLAPS, WellFoundedInduction

Index(a) == ((a - request.addr) % AddrSpace) + 1

\* What the loop over write_mem has done by its turn number stored.
StoredSoFar ==
  mem = [a \in Ram |-> IF Index(a) \in 1 .. stored THEN dst[Index(a)] ELSE before[a]]

WriteInv ==
  /\ TypeOK
  /\ NoOverflow
  /\ phase \in {"check", "decode"} => stored = 0 /\ mem = before
  /\ phase = "check" => dst = <<>>
  /\ phase = "decode" => request.len <= BufSize
  /\ phase = "store" => Len(dst) = request.len /\ request.len <= BufSize /\ StoredSoFar
  /\ AllOrNothing

------------------------------------------------------------------------------
LEMMA RequestOK ==
  ASSUME TypeOK
  PROVE  /\ request \in Request /\ request.addr \in 0 .. (AddrSpace - 1) /\ request.len \in Nat
         /\ request.payload \in Seq(Byte) /\ Len(request.payload) \in Nat
         /\ DOMAIN request.payload = 1 .. Len(request.payload)
<1>1. request \in Request BY RequestsAssumption DEF TypeOK
<1>2. request.payload \in Seq(Byte) BY <1>1 DEF Request
<1>3. request.addr \in 0 .. (AddrSpace - 1) /\ request.len \in Nat BY <1>1 DEF Request
<1> QED BY <1>1, <1>2, <1>3

LEMMA Xor20Type == \A b \in Byte : Xor20(b) \in Byte
BY DEF Xor20, Byte

LEMMA NotAtEnd ==
  ASSUME TypeOK, NEW q \in Nat, ~AtEnd(q)
  PROVE  q \in 1 .. Len(request.payload) /\ request.payload[q] \in Byte
<1>1. q \in DOMAIN request.payload BY DEF AtEnd
<1> QED BY <1>1, RequestOK

LEMMA InitOK == Init => WriteInv
<1> SUFFICES ASSUME Init PROVE WriteInv OBVIOUS
<1>1. mem \in [Ram -> Byte] /\ before \in [Ram -> Byte] BY DEF Init, Byte
<1>2. request \in Requests /\ request \in Request BY RequestsAssumption DEF Init
<1>3. request.payload \in Seq(Byte) /\ request.len \in Nat BY <1>2 DEF Request
<1>4. p \in 1 .. (Len(request.payload) + 1) BY <1>3 DEF Init
<1>5. dst \in Seq(Byte) /\ Len(dst) = 0 BY DEF Init
<1>6. TypeOK BY <1>1, <1>2, <1>4, <1>5, SizeAssumption DEF Init, TypeOK
<1> QED BY <1>3, <1>5, <1>6 DEF Init, WriteInv, NoOverflow, AllOrNothing

LEMMA AskOK == ASSUME WriteInv, NEW r \in Requests, ClientAsks(r) PROVE WriteInv'
<1>1. r \in Request BY RequestsAssumption
<1>2. r.payload \in Seq(Byte) /\ r.len \in Nat BY <1>1 DEF Request
<1>3. request' = r /\ p' = 1 /\ dst' = <<>> /\ stored' = 0 BY DEF ClientAsks
<1>4. p' \in 1 .. (Len(request'.payload) + 1) BY <1>2, <1>3
<1>5. dst' \in Seq(Byte) /\ Len(dst') = 0 BY <1>3
<1>6. sent' \in 0 .. Packets BY SizeAssumption DEF ClientAsks, WriteInv, TypeOK
<1>7. TypeOK' BY <1>3, <1>4, <1>5, <1>6 DEF ClientAsks, WriteInv, TypeOK
<1> QED BY <1>2, <1>3, <1>5, <1>7 DEF ClientAsks, WriteInv, NoOverflow, AllOrNothing

LEMMA CheckOK == ASSUME WriteInv, Check PROVE WriteInv'
<1>1. request.len \in Nat BY RequestOK DEF WriteInv
<1>2. UNCHANGED <<mem, before, request, p, dst, stored, sent>> BY DEF Check
<1>3. TypeOK' BY <1>2 DEF Check, Answer, WriteInv, TypeOK
<1>4. mem = before /\ stored = 0 BY DEF Check, WriteInv
<1>5. CASE request.len = 0 \/ request.len > BufSize
  BY <1>2, <1>3, <1>4, <1>5 DEF Check, Answer, WriteInv, NoOverflow, AllOrNothing
<1>6. CASE ~(request.len = 0 \/ request.len > BufSize)
  <2>1. request.len <= BufSize BY <1>1, <1>6, SizeAssumption
  <2> QED BY <1>2, <1>3, <1>4, <1>6, <2>1 DEF Check, WriteInv, NoOverflow, AllOrNothing
<1> QED BY <1>5, <1>6

\* A turn of the decoder that appends the bytes more, or gives up.
LEMMA DecodeOK ==
  ASSUME WriteInv, phase = "decode", UNCHANGED <<mem, before, request, stored, sent>>,
         \/ Answer("E03") /\ UNCHANGED <<p, dst>>
         \/ /\ p' \in 1 .. (Len(request.payload) + 1)
            /\ dst' \in Seq(Byte) /\ Len(dst') <= request.len
            /\ UNCHANGED <<phase, reply>>
  PROVE  WriteInv'
<1>1. mem = before /\ stored = 0 BY DEF WriteInv
<1>2. TypeOK' BY <1>1 DEF WriteInv, TypeOK, Answer
<1>3. NoOverflow' BY DEF WriteInv, NoOverflow
<1> QED BY <1>1, <1>2, <1>3 DEF WriteInv, AllOrNothing, Answer

LEMMA RunOK == ASSUME WriteInv, Run PROVE WriteInv'
<1>1. phase = "decode" /\ Room > 0 /\ ~AtEnd(p) BY DEF Run, Decoding
<1>2. UNCHANGED <<mem, before, request, stored, sent>> BY DEF Run
<1>3. p \in Nat /\ p + 1 \in Nat BY RequestOK DEF WriteInv, TypeOK
<1>4. CASE dst = <<>> \/ AtEnd(p + 1)
  BY <1>1, <1>2, <1>4, DecodeOK DEF Run
<1>5. CASE ~(dst = <<>> \/ AtEnd(p + 1))
  <2> DEFINE count == request.payload[p + 1]
  <2>1. p + 1 \in 1 .. Len(request.payload) /\ count \in Byte
    BY <1>3, <1>5, NotAtEnd DEF WriteInv
  <2>2. dst \in Seq(Byte) /\ Len(dst) \in Nat /\ Len(dst) > 0 /\ dst[Len(dst)] \in Byte
    BY <1>5 DEF WriteInv, TypeOK
  <2>3. Room \in Nat /\ Len(dst) + Room = request.len
    BY <1>1, <2>2, RequestOK DEF Room, WriteInv
  <2> DEFINE n == IF count < Room THEN count ELSE Room
  <2>4. n \in Nat /\ n <= Room
    <3> HIDE DEF count
    <3>1. count \in Nat BY <2>1 DEF Byte
    <3> QED BY <2>3, <3>1
  <2>5. RunOf(count) \in [1 .. n -> Byte] BY <2>2 DEF RunOf
  <2>6. RunOf(count) \in Seq(Byte) /\ Len(RunOf(count)) = n
    <3> HIDE DEF n
    <3> QED BY <2>4, <2>5
  <2>7. dst' = dst \o RunOf(count) /\ p' = p + 2 /\ UNCHANGED <<phase, reply>>
    BY <1>5 DEF Run
  <2>8. dst' \in Seq(Byte) /\ Len(dst') = Len(dst) + n
    <3> DEFINE run == RunOf(count)
    <3>1. run \in Seq(Byte) /\ Len(run) = n /\ dst' = dst \o run BY <2>6, <2>7
    <3> HIDE DEF run, n
    <3> QED BY <2>2, <3>1
  <2>9. Len(dst') <= request.len BY <2>2, <2>3, <2>4, <2>8
  <2>10. p' \in 1 .. (Len(request.payload) + 1) BY <1>3, <2>1, <2>7
  <2> QED BY <1>1, <1>2, <2>7, <2>8, <2>9, <2>10, DecodeOK
<1> QED BY <1>4, <1>5

\* One byte more fits.
LEMMA AppendOK ==
  ASSUME WriteInv, Room > 0, NEW b \in Byte
  PROVE  Append(dst, b) \in Seq(Byte) /\ Len(Append(dst, b)) <= request.len
<1>1. dst \in Seq(Byte) /\ Len(dst) \in Nat BY DEF WriteInv, TypeOK
<1>2. Len(dst) < request.len BY <1>1, RequestOK DEF Room, WriteInv
<1> QED BY <1>1, <1>2, RequestOK DEF WriteInv

LEMMA EscapeOK == ASSUME WriteInv, Escape PROVE WriteInv'
<1>1. phase = "decode" /\ Room > 0 /\ ~AtEnd(p) BY DEF Escape, Decoding
<1>2. UNCHANGED <<mem, before, request, stored, sent>> BY DEF Escape
<1>3. p \in Nat /\ p + 1 \in Nat BY RequestOK DEF WriteInv, TypeOK
<1>4. CASE AtEnd(p + 1) BY <1>1, <1>2, <1>4, DecodeOK DEF Escape
<1>5. CASE ~AtEnd(p + 1)
  <2>1. p + 1 \in 1 .. Len(request.payload) /\ request.payload[p + 1] \in Byte
    BY <1>3, <1>5, NotAtEnd DEF WriteInv
  <2>2. /\ dst' = Append(dst, Xor20(request.payload[p + 1])) /\ p' = p + 2
        /\ UNCHANGED <<phase, reply>>
    BY <1>5 DEF Escape
  <2>3. dst' \in Seq(Byte) /\ Len(dst') <= request.len
    BY <1>1, <2>1, <2>2, Xor20Type, AppendOK
  <2>4. p' \in 1 .. (Len(request.payload) + 1) BY <1>3, <2>1, <2>2
  <2> QED BY <1>1, <1>2, <2>2, <2>3, <2>4, DecodeOK
<1> QED BY <1>4, <1>5

LEMMA PlainOK == ASSUME WriteInv, Plain PROVE WriteInv'
<1>1. PICK c \in Byte : Decoding(c) /\ dst' = Append(dst, c) BY DEF Plain
<1>2. phase = "decode" /\ Room > 0 /\ ~AtEnd(p) BY <1>1 DEF Decoding
<1>3. p \in Nat BY RequestOK DEF WriteInv, TypeOK
<1>4. p \in 1 .. Len(request.payload) BY <1>2, <1>3, NotAtEnd DEF WriteInv
<1>5. /\ p' = p + 1 /\ UNCHANGED <<phase, reply>>
      /\ UNCHANGED <<mem, before, request, stored, sent>>
  BY DEF Plain
<1>6. dst' \in Seq(Byte) /\ Len(dst') <= request.len BY <1>1, <1>2, AppendOK
<1>7. p' \in 1 .. (Len(request.payload) + 1) BY <1>4, <1>5
<1> QED BY <1>2, <1>5, <1>6, <1>7, DecodeOK

LEMMA NothingStored ==
  ASSUME TypeOK, stored = 0, mem = before
  PROVE  StoredSoFar
<1>1. mem \in [Ram -> Byte] BY DEF TypeOK
<1>2. \A a \in Ram : Index(a) \notin 1 .. stored OBVIOUS
<1> QED BY <1>1, <1>2 DEF StoredSoFar

LEMMA DecodeEndsOK == ASSUME WriteInv, DecodeEnds PROVE WriteInv'
<1>1. phase = "decode" /\ UNCHANGED <<mem, before, request, p, dst, stored, sent>>
  BY DEF DecodeEnds
<1>2. mem = before /\ stored = 0 BY <1>1 DEF WriteInv
<1>3. TypeOK' BY <1>1 DEF DecodeEnds, Answer, WriteInv, TypeOK
<1>4. CASE Room = 0
  <2>1. Len(dst) = request.len
    BY <1>4, RequestOK DEF Room, WriteInv, TypeOK
  <2>2. StoredSoFar BY <1>2, NothingStored DEF WriteInv
  <2>3. StoredSoFar' BY <1>1, <2>2 DEF StoredSoFar, Index
  <2>4. phase' = "store" BY <1>4 DEF DecodeEnds
  <2> QED BY <1>1, <1>2, <1>3, <2>1, <2>3, <2>4 DEF WriteInv, NoOverflow, AllOrNothing
<1>5. CASE Room # 0
  BY <1>1, <1>2, <1>3, <1>5 DEF DecodeEnds, Answer, WriteInv, NoOverflow, AllOrNothing
<1> QED BY <1>4, <1>5

\* The loop's turn number n is the one that writes a.
LEMMA TurnOf ==
  ASSUME NEW a \in 0 .. (AddrSpace - 1), NEW s \in 0 .. (AddrSpace - 1),
         NEW n \in 0 .. (AddrSpace - 1)
  PROVE  (a - s) % AddrSpace = n <=> a = (s + n) % AddrSpace
<1>1. AddrSpace \in Nat /\ AddrSpace > 0 BY SizeAssumption
<1>2. \A k \in 0 .. (AddrSpace - 1) : k % AddrSpace = k BY <1>1
<1>3. \A k \in Int : -AddrSpace < k /\ k < 0 => k % AddrSpace = k + AddrSpace
  <2> SUFFICES ASSUME NEW k \in Int, -AddrSpace < k, k < 0
               PROVE  k % AddrSpace = k + AddrSpace
    OBVIOUS
  <2> QED BY <1>1
<1>4. \A k \in Int : AddrSpace <= k /\ k < AddrSpace + AddrSpace => k % AddrSpace = k - AddrSpace
  <2> SUFFICES ASSUME NEW k \in Int, AddrSpace <= k, k < AddrSpace + AddrSpace
               PROVE  k % AddrSpace = k - AddrSpace
    OBVIOUS
  <2> QED BY <1>1
<1>5. (a - s) % AddrSpace = (IF a >= s THEN a - s ELSE a - s + AddrSpace)
  BY <1>1, <1>2, <1>3
<1>6. (s + n) % AddrSpace = (IF s + n < AddrSpace THEN s + n ELSE s + n - AddrSpace)
  BY <1>1, <1>2, <1>4
<1> QED BY <1>1, <1>5, <1>6

LEMMA StoreOK == ASSUME WriteInv, Store PROVE WriteInv'
<1>1. phase = "store" /\ UNCHANGED <<before, request, p, dst, sent>> BY DEF Store
<1>2. Len(dst) = request.len /\ request.len <= BufSize /\ StoredSoFar BY <1>1 DEF WriteInv
<1>3. stored \in 0 .. Len(dst) /\ dst \in Seq(Byte) /\ Len(dst) \in Nat
      /\ DOMAIN dst = 1 .. Len(dst)
  BY DEF WriteInv, TypeOK
<1>4. request.addr \in 0 .. (AddrSpace - 1) BY RequestOK DEF WriteInv
<1>5. AddrSpace \in Nat /\ BufSize \in Nat /\ BufSize <= AddrSpace BY SizeAssumption
<1>6. mem \in [Ram -> Byte] /\ before \in [Ram -> Byte] BY DEF WriteInv, TypeOK
<1>7. CASE stored < request.len
  <2> DEFINE to == (request.addr + stored) % AddrSpace
  <2>1. /\ mem' = write_mem(mem, to, dst[stored + 1])
        /\ stored' = stored + 1 /\ UNCHANGED <<phase, reply>>
    BY <1>7, <1>2, <1>3 DEF Store
  <2>2. stored + 1 \in DOMAIN dst /\ dst[stored + 1] \in Byte BY <1>2, <1>3, <1>7
  <2>3. mem' \in [Ram -> Byte] BY <1>6, <2>1, <2>2 DEF write_mem
  <2>4. stored' \in 0 .. Len(dst) BY <1>2, <1>3, <1>7, <2>1
  <2>5. TypeOK' BY <1>1, <2>1, <2>3, <2>4 DEF WriteInv, TypeOK
  <2>6. ASSUME NEW a \in Ram
        PROVE  mem'[a] = (IF Index(a) \in 1 .. (stored + 1) THEN dst[Index(a)] ELSE before[a])
    <3>1. a \in 0 .. (AddrSpace - 1) BY SizeAssumption
    <3>2. stored \in 0 .. (AddrSpace - 1) BY <1>2, <1>3, <1>5, <1>7
    <3>3. (a - request.addr) % AddrSpace = stored <=> a = to
      BY <1>4, <3>1, <3>2, TurnOf
    <3>4. (a - request.addr) % AddrSpace \in Int
      BY <1>4, <1>5, <3>1
    <3>5. Index(a) = stored + 1 <=> a = to BY <1>3, <3>3, <3>4 DEF Index
    <3>6. mem[a] = (IF Index(a) \in 1 .. stored THEN dst[Index(a)] ELSE before[a])
      BY <1>2 DEF StoredSoFar
    <3>7. Index(a) \in Int BY <3>4 DEF Index
    <3>8. CASE a = to
      <4>1. mem'[a] = dst[stored + 1] BY <1>6, <2>1, <3>8 DEF write_mem
      <4> QED BY <1>3, <3>5, <3>8, <4>1
    <3>9. CASE a # to
      <4>1. mem'[a] = mem[a] BY <1>6, <2>1, <3>9 DEF write_mem
      <4>2. Index(a) \in 1 .. (stored + 1) <=> Index(a) \in 1 .. stored
        BY <1>3, <3>5, <3>7, <3>9
      <4> QED BY <3>6, <4>1, <4>2
    <3> QED BY <3>8, <3>9
  <2>7. StoredSoFar'
    <3>1. mem' = [a \in Ram |-> mem'[a]] BY <2>3
    <3> QED BY <1>1, <2>1, <2>6, <3>1 DEF StoredSoFar, Index
  <2> QED BY <1>1, <1>2, <2>1, <2>5, <2>7 DEF WriteInv, NoOverflow, AllOrNothing
<1>8. CASE ~(stored < request.len)
  <2>1. stored = Len(dst) BY <1>2, <1>3, <1>8
  <2>2. Answer("OK") /\ UNCHANGED <<mem, stored>> BY <1>8 DEF Store
  <2>3. TypeOK' BY <1>1, <2>2 DEF Answer, WriteInv, TypeOK
  <2>4. mem = Patched(before, request.addr, dst)
    BY <1>2, <1>3, <2>1 DEF StoredSoFar, Index, Patched
  <2> QED BY <1>1, <1>2, <2>2, <2>3, <2>4 DEF Answer, WriteInv, NoOverflow, AllOrNothing, Patched
<1> QED BY <1>7, <1>8

LEMMA StepOK == WriteInv /\ [Next]_vars => WriteInv'
<1> SUFFICES ASSUME WriteInv, [Next]_vars PROVE WriteInv' OBVIOUS
<1>1. CASE \E r \in Requests : ClientAsks(r) BY <1>1, AskOK
<1>2. CASE Check BY <1>2, CheckOK
<1>3. CASE Run BY <1>3, RunOK
<1>4. CASE Escape BY <1>4, EscapeOK
<1>5. CASE Plain BY <1>5, PlainOK
<1>6. CASE DecodeEnds BY <1>6, DecodeEndsOK
<1>7. CASE Store BY <1>7, StoreOK
<1>8. CASE UNCHANGED vars
  BY <1>8 DEF vars, WriteInv, TypeOK, NoOverflow, AllOrNothing, StoredSoFar, Index, Patched
<1> QED BY <1>1, <1>2, <1>3, <1>4, <1>5, <1>6, <1>7, <1>8 DEF Next, handle_write_memory_binary

\* handle_write_memory_binary writes the whole of the decoded bytes or nothing, for any
\* payload.
THEOREM WholeOrNothing == Spec => []AllOrNothing
<1>1. WriteInv => AllOrNothing BY DEF WriteInv
<1> QED BY InitOK, StepOK, <1>1, PTL DEF Spec

\* decode_rsp_binary never stores behind the length it was given, for any payload.
THEOREM DecoderInBounds == Spec => []NoOverflow
<1>1. WriteInv => NoOverflow BY DEF WriteInv
<1> QED BY InitOK, StepOK, <1>1, PTL DEF Spec

\* The decoder, the packet and memory are well typed throughout.
THEOREM TypeCorrect == Spec => []TypeOK
<1>1. WriteInv => TypeOK BY DEF WriteInv
<1> QED BY InitOK, StepOK, <1>1, PTL DEF Spec

(***************************************************************************)
(* What the debugger's encoder makes of data: FlattenSeq joins the pieces  *)
(* from left to right, so that each begins where the one before it ends.   *)
(***************************************************************************)
\* Induction over the naturals up to n, by way of a least counterexample.
LEMMA UpTo ==
  ASSUME NEW n \in Nat, NEW T, 0 \in T, \A k \in Nat : k \in T /\ k < n => k + 1 \in T
  PROVE  n \in T
<1> DEFINE C == {k \in Nat : k <= n /\ k \notin T}
<1>1. SUFFICES ASSUME C # {} PROVE FALSE
  <2>1. n \in C \/ n \in T
    OBVIOUS
  <2> QED BY <2>1
<1>2. C \in SUBSET Nat
  OBVIOUS
<1>3. IsWellFoundedOn(OpToRel(<, Nat), Nat)
  BY NatLessThanWellFounded
<1> HIDE DEF C
<1>4. PICK k \in C : \A m \in C : ~ (<<m, k>> \in OpToRel(<, Nat))
  BY <1>1, <1>2, <1>3, WFMin
<1>5. \A m \in C : ~ (m < k)
  BY <1>2, <1>4 DEF OpToRel
<1>6. k \in Nat /\ k <= n /\ k \notin T
  BY <1>4 DEF C
<1>7. k - 1 \in Nat /\ k - 1 < k /\ k - 1 < n /\ (k - 1) + 1 = k
  BY <1>6
<1>8. k - 1 \in T
  BY <1>5, <1>6, <1>7 DEF C
<1> QED BY <1>6, <1>7, <1>8

Cat(s, t) == s \o t

LEMMA CatType == \A s, t \in Seq(Byte) : Cat(s, t) \in Seq(Byte)
BY DEF Cat

\* f[i] is the pieces c[1] to c[i], joined.
Joined(f, c, k) ==
  \A i \in 1 .. k : f[i] \in Seq(Byte) /\ f[i] = IF i = 1 THEN c[i] ELSE Cat(f[i - 1], c[i])

LEMMA JoinExists ==
  ASSUME NEW n \in Nat, NEW c, \A i \in 1 .. n : c[i] \in Seq(Byte)
  PROVE  \E f : f = [i \in 1 .. n |-> f[i]] /\ Joined(f, c, n)
<1> DEFINE T == {k \in Nat : \E f : f = [i \in 1 .. k |-> f[i]] /\ Joined(f, c, k)}
<1>1. 0 \in T
  <2> DEFINE f == [i \in 1 .. 0 |-> <<>>]
  <2>1. f = [i \in 1 .. 0 |-> f[i]] /\ Joined(f, c, 0)
    BY DEF Joined
  <2> QED BY <2>1
<1>2. ASSUME NEW k \in Nat, k \in T, k < n PROVE k + 1 \in T
  <2>1. PICK f : f = [i \in 1 .. k |-> f[i]] /\ Joined(f, c, k)
    BY <1>2
  <2>2. Joined(f, c, k)
    BY <2>1
  <2>3. \A i \in 1 .. k : f[i] \in Seq(Byte) /\ f[i] = IF i = 1 THEN c[i] ELSE Cat(f[i - 1], c[i])
    BY <2>2 DEF Joined
  <2>4. k + 1 \in 1 .. n
    BY <1>2
  <2> DEFINE last == IF k = 0 THEN c[1] ELSE Cat(f[k], c[k + 1])
             g == [i \in 1 .. (k + 1) |-> IF i <= k THEN f[i] ELSE last]
  <2>5. last \in Seq(Byte)
    <3>1. CASE k = 0
      BY <1>2, <3>1
    <3>2. CASE k # 0
      <4>1. f[k] \in Seq(Byte) /\ c[k + 1] \in Seq(Byte)
        BY <2>3, <2>4, <3>2
      <4> QED BY <3>2, <4>1, CatType
    <3> QED BY <3>1, <3>2
  <2>6. ASSUME NEW i \in 1 .. (k + 1)
        PROVE  g[i] \in Seq(Byte) /\ g[i] = IF i = 1 THEN c[i] ELSE Cat(g[i - 1], c[i])
    <3>1. CASE i <= k
      <4>1. f[i] \in Seq(Byte) /\ f[i] = IF i = 1 THEN c[i] ELSE Cat(f[i - 1], c[i])
        BY <2>3, <2>6, <3>1
      <4>2. g[i] = f[i] /\ (i # 1 => g[i - 1] = f[i - 1])
        BY <1>2, <2>6, <3>1
      <4> QED BY <4>1, <4>2
    <3>2. CASE i = k + 1
      <4>1. g[i] = last /\ (i # 1 => g[i - 1] = f[k] /\ k # 0) /\ (i = 1 => k = 0)
        BY <1>2, <3>2
      <4> QED BY <2>5, <3>2, <4>1
    <3> QED BY <1>2, <2>6, <3>1, <3>2
  <2> HIDE DEF last
  <2>7. g = [i \in 1 .. (k + 1) |-> g[i]] /\ Joined(g, c, k + 1)
    BY <2>6 DEF Joined
  <2> QED BY <1>2, <2>7
<1> HIDE DEF T
<1>3. n \in T
  BY <1>1, <1>2, UpTo
<1> QED BY <1>3 DEF T

LEMMA FlattenIs ==
  ASSUME NEW n \in Nat \ {0}, NEW c, c = [i \in 1 .. n |-> c[i]],
         \A i \in 1 .. n : c[i] \in Seq(Byte)
  PROVE  \E f : Joined(f, c, n) /\ FlattenSeq(c) = f[n]
<1> DEFINE Step(f) == [i \in 1 .. n |-> IF i = 1 THEN c[i] ELSE Cat(f[i - 1], c[i])]
           flatten == CHOOSE f : f = Step(f)
<1>1. Len(c) = n /\ n # 0
  <2>1. c \in [1 .. n -> Seq(Byte)]
    OBVIOUS
  <2> QED BY <2>1
<1>2. FlattenSeq(c) = flatten[n]
  BY <1>1 DEF FlattenSeq, Cat
<1>3. PICK f : f = [i \in 1 .. n |-> f[i]] /\ Joined(f, c, n)
  BY JoinExists
<1>4. f = Step(f)
  BY <1>3 DEF Joined
<1> HIDE DEF Step
<1>5. flatten = Step(flatten)
  BY <1>4
<1> HIDE DEF flatten
<1> DEFINE T == {k \in Nat : \A i \in 1 .. k : flatten[i] = f[i]}
<1>6. 0 \in T
  OBVIOUS
<1>7. ASSUME NEW k \in Nat, k \in T, k < n PROVE k + 1 \in T
  <2>1. flatten[k + 1] = IF k + 1 = 1 THEN c[k + 1] ELSE Cat(flatten[(k + 1) - 1], c[k + 1])
    BY <1>5, <1>7 DEF Step
  <2>2. f[k + 1] = IF k + 1 = 1 THEN c[k + 1] ELSE Cat(f[(k + 1) - 1], c[k + 1])
    <3>1. Joined(f, c, n) /\ k + 1 \in 1 .. n
      BY <1>3, <1>7
    <3> QED BY <3>1 DEF Joined
  <2>3. (k + 1) - 1 = k /\ (k # 0 => flatten[k] = f[k]) /\ (k = 0 => k + 1 = 1)
    BY <1>7
  <2>4. flatten[k + 1] = f[k + 1]
    BY <2>1, <2>2, <2>3
  <2>5. \A i \in 1 .. (k + 1) : i \in 1 .. k \/ i = k + 1
    BY <1>7
  <2> QED BY <1>7, <2>4, <2>5
<1> HIDE DEF T
<1>8. n \in T
  BY <1>6, <1>7, UpTo
<1>9. flatten[n] = f[n]
  BY <1>8 DEF T
<1> QED BY <1>2, <1>3, <1>9

Special == {35, 36, STAR, BRACE}
Piece(b) == IF b \in Special THEN <<BRACE, Xor20(b)>> ELSE <<b>>

\* The piece of data[i] is in the payload from at[i] on, and that of data[i + 1] follows.
Layout(payload, data, at) ==
  /\ at[1] = 1
  /\ \A i \in 1 .. Len(data) :
       /\ at[i] \in Nat \ {0} /\ at[i + 1] = at[i] + Len(Piece(data[i]))
       /\ at[i + 1] <= Len(payload) + 1
       /\ \A j \in 1 .. Len(Piece(data[i])) : payload[at[i] + j - 1] = Piece(data[i])[j]

LEMMA PieceType ==
  ASSUME NEW b \in Byte
  PROVE  /\ Piece(b) \in Seq(Byte)
         /\ b \in Special => Len(Piece(b)) = 2 /\ Piece(b)[1] = BRACE /\ Piece(b)[2] = Xor20(b)
         /\ b \notin Special => Len(Piece(b)) = 1 /\ Piece(b)[1] = b
<1>1. Xor20(b) \in Byte
  BY Xor20Type
<1>0. BRACE \in Byte
  BY DEF BRACE, Byte
<1>2. CASE b \in Special
  BY <1>0, <1>1, <1>2 DEF Piece
<1>3. CASE b \notin Special
  BY <1>3 DEF Piece
<1> QED BY <1>2, <1>3

\* What is escaped is restored, and is no zero byte on the way.
LEMMA SpecialRestored ==
  ASSUME NEW b \in Special
  PROVE  Xor20(b) \in Byte /\ Xor20(b) # NUL /\ Xor20(Xor20(b)) = b
BY DEF Special, Xor20, STAR, BRACE, NUL, Byte

IsCat(z, s, t) == /\ Len(s) \in Nat /\ Len(t) \in Nat /\ Len(z) = Len(s) + Len(t)
                  /\ \A q \in 1 .. Len(s) : z[q] = s[q]
                  /\ \A j \in 1 .. Len(t) : z[Len(s) + j] = t[j]

LEMMA CatIs ==
  ASSUME NEW s \in Seq(Byte), NEW t \in Seq(Byte)
  PROVE  IsCat(Cat(s, t), s, t)
BY DEF Cat, IsCat

Begins(s, t) == /\ s \in Seq(Byte) /\ t \in Seq(Byte) /\ Len(s) <= Len(t)
                /\ \A q \in 1 .. Len(s) : t[q] = s[q]

\* What was joined stays where it is.
LEMMA JoinedGrows ==
  ASSUME NEW n \in Nat, NEW c, \A i \in 1 .. n : c[i] \in Seq(Byte), NEW f, Joined(f, c, n),
         NEW i \in 1 .. n
  PROVE  Begins(f[i], f[n])
<1> DEFINE Below(k) == Len(f[i]) <= Len(f[k]) /\ \A q \in 1 .. Len(f[i]) : f[k][q] = f[i][q]
           T == {k \in Nat : k < i \/ Below(k)}
<1>1. \A k \in 1 .. n : f[k] \in Seq(Byte) /\ Len(f[k]) \in Nat
  BY DEF Joined
<1>2. 0 \in T
  OBVIOUS
<1>3. ASSUME NEW k \in Nat, k \in T, k < n PROVE k + 1 \in T
  <2>1. CASE k + 1 < i
    BY <2>1
  <2>2. CASE k + 1 = i
    BY <1>1, <2>2
  <2>3. CASE k >= i
    <3>1. Below(k) /\ k \in 1 .. n /\ k + 1 \in 1 .. n /\ k + 1 # 1 /\ (k + 1) - 1 = k
      BY <1>3, <2>3
    <3> DEFINE x == f[i]
               s == f[k]
               d == c[k + 1]
               z == f[k + 1]
    <3>2. z = Cat(s, d)
      BY <3>1 DEF Joined
    <3>3. s \in Seq(Byte) /\ d \in Seq(Byte) /\ x \in Seq(Byte)
      BY <1>1, <3>1
    <3>4. Len(x) <= Len(s) /\ \A q \in 1 .. Len(x) : s[q] = x[q]
      BY <3>1
    <3> HIDE DEF T, x, s, d, z
    <3>5. /\ Len(s) \in Nat /\ Len(d) \in Nat /\ Len(z) = Len(s) + Len(d)
          /\ \A q \in 1 .. Len(s) : z[q] = s[q]
      <4>1. IsCat(Cat(s, d), s, d)
        BY <3>3, CatIs
      <4> QED BY <3>2, <4>1 DEF IsCat
    <3>6. Len(x) \in Nat
      BY <3>3
    <3>7. Len(x) <= Len(z) /\ \A q \in 1 .. Len(x) : z[q] = x[q]
      BY <3>4, <3>5, <3>6
    <3>8. Below(k + 1)
      BY <3>7 DEF x, z
    <3> QED BY <3>8 DEF T
  <2> QED BY <1>3, <2>1, <2>2, <2>3
<1> HIDE DEF T
<1>4. n \in T
  BY <1>2, <1>3, UpTo
<1> QED BY <1>1, <1>4 DEF T, Begins

LEMMA EscapedLayout ==
  ASSUME NEW data \in Seq(Byte), Len(data) # 0
  PROVE  \E at : Layout(Escaped(data), data, at)
<1> DEFINE n == Len(data)
           c == [i \in DOMAIN data |-> Piece(data[i])]
<1>1. n \in Nat \ {0} /\ DOMAIN data = 1 .. n /\ \A i \in 1 .. n : data[i] \in Byte
  OBVIOUS
<1>2. \A i \in 1 .. n : c[i] = Piece(data[i]) /\ c[i] \in Seq(Byte)
  BY <1>1, PieceType
<1>3. c = [i \in 1 .. n |-> c[i]]
  BY <1>1
<1>4. Escaped(data) = FlattenSeq(c)
  BY DEF Escaped, Piece, Special
<1> HIDE DEF n, c
<1>5. PICK f : Joined(f, c, n) /\ FlattenSeq(c) = f[n]
  BY <1>1, <1>2, <1>3, FlattenIs
<1> DEFINE s == f[n]
           at == [i \in 1 .. (n + 1) |-> IF i = 1 THEN 1 ELSE Len(f[i - 1]) + 1]
<1>6. at[1] = 1
  BY <1>1
<1>7. ASSUME NEW i \in 1 .. n
      PROVE  /\ at[i] \in Nat \ {0} /\ at[i + 1] = at[i] + Len(c[i])
             /\ at[i + 1] <= Len(s) + 1
             /\ \A j \in 1 .. Len(c[i]) : s[at[i] + j - 1] = c[i][j]
  <2>1. /\ f[i] \in Seq(Byte) /\ s \in Seq(Byte) /\ Len(f[i]) <= Len(s)
        /\ \A q \in 1 .. Len(f[i]) : s[q] = f[i][q]
    <3>1. n \in Nat /\ Joined(f, c, n) /\ \A k \in 1 .. n : c[k] \in Seq(Byte)
      BY <1>1, <1>2, <1>5
    <3> HIDE DEF s, at
    <3>2. Begins(f[i], f[n])
      BY <3>1, JoinedGrows
    <3> QED BY <3>2 DEF s, Begins
  <2>2. at[i + 1] = Len(f[i]) + 1
    BY <1>1
  <2>3. c[i] \in Seq(Byte) /\ Len(c[i]) \in Nat /\ Len(f[i]) \in Nat /\ Len(s) \in Nat
    BY <1>2, <2>1
  <2> HIDE DEF s
  <2>4. CASE i = 1
    <3>1. f[i] = c[i] /\ at[i] = 1
      BY <1>1, <1>5, <2>4 DEF Joined
    <3> HIDE DEF at
    <3>2. \A j \in 1 .. Len(c[i]) : at[i] + j - 1 = j /\ s[j] = c[i][j]
      BY <2>1, <2>3, <3>1
    <3>3. \A j \in 1 .. Len(c[i]) : s[at[i] + j - 1] = c[i][j]
      BY <3>2
    <3>4. at[i + 1] = at[i] + Len(c[i]) /\ at[i + 1] <= Len(s) + 1
      BY <2>1, <2>2, <2>3, <3>1
    <3> QED BY <3>1, <3>3, <3>4
  <2>5. CASE i # 1
    <3> DEFINE h == i - 1
               x == f[h]
               y == f[i]
               d == c[i]
               a == at[i]
    <3>1. h \in 1 .. n /\ y = Cat(x, d) /\ a = Len(x) + 1
      BY <1>1, <1>5, <2>5 DEF Joined
    <3>2. x \in Seq(Byte) /\ d \in Seq(Byte)
      BY <1>5, <2>3, <3>1 DEF Joined
    <3>3. Len(y) <= Len(s) /\ (\A q \in 1 .. Len(y) : s[q] = y[q]) /\ at[i + 1] = Len(y) + 1
      BY <2>1, <2>2
    <3> HIDE DEF at, h, x, y, d, a
    <3>4. /\ Len(x) \in Nat /\ Len(d) \in Nat /\ Len(y) = Len(x) + Len(d)
          /\ \A j \in 1 .. Len(d) : y[Len(x) + j] = d[j]
      <4>1. IsCat(Cat(x, d), x, d)
        BY <3>2, CatIs
      <4> QED BY <3>1, <4>1 DEF IsCat
    <3>5. ASSUME NEW j \in 1 .. Len(d) PROVE s[a + j - 1] = d[j]
      <4>1. a + j - 1 = Len(x) + j /\ Len(x) + j \in 1 .. Len(y)
        BY <3>1, <3>4
      <4> QED BY <3>3, <3>4, <4>1
    <3>6. a \in Nat \ {0} /\ at[i + 1] = a + Len(d) /\ at[i + 1] <= Len(s) + 1
      BY <2>3, <3>1, <3>3, <3>4
    <3> QED BY <3>5, <3>6 DEF a, d
  <2> QED BY <2>4, <2>5
<1> HIDE DEF at, s
<1>8. ASSUME NEW i \in 1 .. n
      PROVE  /\ at[i] \in Nat \ {0} /\ at[i + 1] = at[i] + Len(Piece(data[i]))
             /\ at[i + 1] <= Len(s) + 1
             /\ \A j \in 1 .. Len(Piece(data[i])) : s[at[i] + j - 1] = Piece(data[i])[j]
  <2>1. Piece(data[i]) = c[i]
    BY <1>2
  <2> DEFINE d == Piece(data[i])
  <2>2. d = c[i]
    BY <2>1
  <2> HIDE DEF d
  <2>3. /\ at[i] \in Nat \ {0} /\ at[i + 1] = at[i] + Len(d) /\ at[i + 1] <= Len(s) + 1
        /\ \A j \in 1 .. Len(d) : s[at[i] + j - 1] = d[j]
    BY <1>7, <2>2
  <2> QED BY <2>3 DEF d
<1>9. Layout(s, data, at)
  <2>1. n = Len(data)
    BY DEF n
  <2> QED BY <1>6, <1>8, <2>1 DEF Layout
<1> QED BY <1>4, <1>5, <1>9 DEF s

(***************************************************************************)
(* Data a debugger has encoded is written as it was.  The decoder is in    *)
(* step with the encoder: behind every turn of its loop it is at the       *)
(* beginning of a piece, and what it has decoded is the data before it.    *)
(***************************************************************************)
\* A request that is marked as encoded is: for its own length, which the buffer holds, and
\* without zero bytes, which the stub takes for the end of the packet.
Faithful ==
  \A r \in Requests : r.kind = "escaped" =>
    /\ r.len = Len(r.data) /\ r.len \in 1 .. BufSize
    /\ \A i \in 1 .. r.len : r.data[i] # NUL
    /\ r.payload = Escaped(r.data)

InStep ==
  /\ \A i \in 1 .. Len(dst) : dst[i] = request.data[i]
  /\ \E at : Layout(request.payload, request.data, at) /\ p = at[Len(dst) + 1]

Sent ==
  request.kind = "escaped" =>
    /\ phase \in {"check", "decode"} => InStep
    /\ phase = "store" => dst = request.data
    /\ phase = "answered" => reply = "OK" /\ dst = request.data

SentInv == WriteInv /\ Sent

LEMMA DataOK ==
  ASSUME Faithful, NEW r \in Requests, r.kind = "escaped"
  PROVE  /\ r.data \in Seq(Byte) /\ r.payload \in Seq(Byte) /\ Len(r.payload) \in Nat
         /\ r.len \in Nat \ {0} /\ r.len <= BufSize /\ Len(r.data) = r.len
         /\ \A i \in 1 .. r.len : r.data[i] \in Byte /\ r.data[i] # NUL
         /\ \E at : Layout(r.payload, r.data, at)
<1>1. r \in Request
  BY RequestsAssumption
<1>2. r.data \in Seq(Byte) /\ r.payload \in Seq(Byte)
  BY <1>1 DEF Request
<1>3. /\ r.len = Len(r.data) /\ r.len \in 1 .. BufSize /\ r.payload = Escaped(r.data)
      /\ \A i \in 1 .. r.len : r.data[i] # NUL
  BY DEF Faithful
<1>4. r.len \in Nat \ {0} /\ r.len <= BufSize
  BY <1>3, SizeAssumption
<1>5. \A i \in 1 .. r.len : r.data[i] \in Byte
  BY <1>2, <1>3
<1>6. \E at : Layout(r.payload, r.data, at)
  BY <1>2, <1>3, <1>4, EscapedLayout
<1> QED BY <1>2, <1>3, <1>4, <1>5, <1>6

\* Where the decoder stands while there is room: at the piece of the next byte of the data.
LEMMA AtPiece ==
  ASSUME Faithful, SentInv, request.kind = "escaped", phase = "decode", Room > 0
  PROVE  \E at, k : /\ k = Len(dst) + 1 /\ k \in 1 .. Len(request.data)
                    /\ Layout(request.payload, request.data, at) /\ p = at[k]
                    /\ request.data[k] \in Byte /\ request.data[k] # NUL
                    /\ p \in Nat \ {0} /\ at[k + 1] = p + Len(Piece(request.data[k]))
                    /\ at[k + 1] <= Len(request.payload) + 1
                    /\ \A j \in 1 .. Len(Piece(request.data[k])) :
                         request.payload[p + j - 1] = Piece(request.data[k])[j]
<1> DEFINE k == Len(dst) + 1
<1>1. TypeOK /\ InStep
  BY DEF SentInv, Sent, WriteInv
<1>2. request \in Requests /\ dst \in Seq(Byte)
  BY <1>1 DEF TypeOK
<1>3. Len(dst) \in Nat /\ request.len = Len(request.data) /\ request.len \in Nat
  BY <1>2, DataOK
<1>4. k \in 1 .. Len(request.data)
  BY <1>3 DEF Room
<1>5. request.data[k] \in Byte /\ request.data[k] # NUL
  BY <1>2, <1>3, <1>4, DataOK
<1>6. PICK at : Layout(request.payload, request.data, at) /\ p = at[k]
  BY <1>1 DEF InStep
<1> HIDE DEF k
<1>7. /\ at[k] \in Nat \ {0} /\ at[k + 1] = at[k] + Len(Piece(request.data[k]))
      /\ at[k + 1] <= Len(request.payload) + 1
      /\ \A j \in 1 .. Len(Piece(request.data[k])) :
           request.payload[at[k] + j - 1] = Piece(request.data[k])[j]
  BY <1>4, <1>6 DEF Layout
<1>8. k = Len(dst) + 1
  BY DEF k
<1> QED BY <1>4, <1>5, <1>6, <1>7, <1>8

\* The bytes of the piece: the first is there, and the second if the byte was escaped.
LEMMA PieceRead ==
  ASSUME Faithful, SentInv, request.kind = "escaped", phase = "decode", Room > 0
  PROVE  \E at, k : /\ k = Len(dst) + 1 /\ k \in 1 .. Len(request.data)
                    /\ Layout(request.payload, request.data, at) /\ p \in Nat \ {0}
                    /\ ~AtEnd(p)
                    /\ \/ /\ request.data[k] \notin Special
                          /\ request.payload[p] = request.data[k] /\ at[k + 1] = p + 1
                       \/ /\ request.data[k] \in Special /\ request.payload[p] = BRACE
                          /\ ~AtEnd(p + 1) /\ Xor20(request.payload[p + 1]) = request.data[k]
                          /\ at[k + 1] = p + 2
<1>1. PICK at, k : /\ k = Len(dst) + 1 /\ k \in 1 .. Len(request.data)
                   /\ Layout(request.payload, request.data, at) /\ p = at[k]
                   /\ request.data[k] \in Byte /\ request.data[k] # NUL
                   /\ p \in Nat \ {0} /\ at[k + 1] = p + Len(Piece(request.data[k]))
                   /\ at[k + 1] <= Len(request.payload) + 1
                   /\ \A j \in 1 .. Len(Piece(request.data[k])) :
                        request.payload[p + j - 1] = Piece(request.data[k])[j]
  BY AtPiece
<1>2. DOMAIN request.payload = 1 .. Len(request.payload) /\ Len(request.payload) \in Nat
  BY RequestOK DEF SentInv, WriteInv
<1> DEFINE b == request.data[k]
           w == request.payload
           e == at[k + 1]
<1>3. /\ b \in Byte /\ b # NUL /\ p \in Nat \ {0} /\ e = p + Len(Piece(b)) /\ e <= Len(w) + 1
      /\ \A j \in 1 .. Len(Piece(b)) : w[p + j - 1] = Piece(b)[j]
      /\ DOMAIN w = 1 .. Len(w) /\ Len(w) \in Nat
  BY <1>1, <1>2
<1>4. \A q : AtEnd(q) <=> (q \in DOMAIN w => w[q] = NUL)
  BY DEF AtEnd
<1> HIDE DEF b, w, e
<1>5. CASE b \notin Special
  <2>1. Len(Piece(b)) = 1 /\ Piece(b)[1] = b
    BY <1>3, <1>5, PieceType
  <2>2. e = p + 1 /\ p + 1 - 1 = p /\ p \in 1 .. Len(w)
    BY <1>3, <2>1
  <2>3. w[p] = b
    BY <1>3, <2>1, <2>2
  <2>4. ~AtEnd(p)
    BY <1>3, <1>4, <2>2, <2>3
  <2> QED BY <1>1, <1>5, <2>2, <2>3, <2>4 DEF b, w, e
<1>6. CASE b \in Special
  <2>1. Len(Piece(b)) = 2 /\ Piece(b)[1] = BRACE /\ Piece(b)[2] = Xor20(b)
    BY <1>3, <1>6, PieceType
  <2>2. /\ e = p + 2 /\ p + 1 - 1 = p /\ p + 2 - 1 = p + 1
        /\ p \in 1 .. Len(w) /\ p + 1 \in 1 .. Len(w)
    BY <1>3, <2>1
  <2>3. w[p] = BRACE /\ w[p + 1] = Xor20(b)
    BY <1>3, <2>1, <2>2
  <2>4. Xor20(b) # NUL /\ Xor20(Xor20(b)) = b
    BY <1>6, SpecialRestored
  <2>5. BRACE # NUL
    BY DEF BRACE, NUL
  <2>6. ~AtEnd(p) /\ ~AtEnd(p + 1)
    BY <1>3, <1>4, <2>2, <2>3, <2>4, <2>5
  <2>7. Xor20(w[p + 1]) = b
    BY <2>3, <2>4
  <2> QED BY <1>1, <1>6, <2>2, <2>3, <2>6, <2>7 DEF b, w, e
<1> QED BY <1>5, <1>6

\* One byte more, the right one.
LEMMA InStepGrows ==
  ASSUME TypeOK, InStep, UNCHANGED request, NEW k, k = Len(dst) + 1, NEW at,
         Layout(request.payload, request.data, at), NEW b \in Byte, b = request.data[k],
         dst' = Append(dst, b), p' = at[k + 1]
  PROVE  InStep'
<1>1. dst \in Seq(Byte) /\ Len(dst) \in Nat
  BY DEF TypeOK
<1>2. Len(dst') = k /\ dst'[k] = b /\ \A i \in 1 .. Len(dst) : dst'[i] = dst[i]
  BY <1>1
<1>3. \A i \in 1 .. k : i \in 1 .. Len(dst) \/ i = k
  BY <1>1
<1>4. \A i \in 1 .. k : dst'[i] = request.data[i]
  BY <1>2, <1>3 DEF InStep
<1> QED BY <1>2, <1>4 DEF InStep

LEMMA SentInit == ASSUME Init PROVE SentInv
BY InitOK DEF Init, SentInv, Sent

LEMMA SentAsk == ASSUME Faithful, SentInv, NEW r \in Requests, ClientAsks(r) PROVE SentInv'
<1>1. WriteInv'
  BY AskOK DEF SentInv
<1>2. request' = r /\ phase' = "check" /\ dst' = <<>> /\ p' = 1
  BY DEF ClientAsks
<1>3. SUFFICES ASSUME r.kind = "escaped" PROVE InStep'
  BY <1>1, <1>2 DEF SentInv, Sent
<1>4. PICK at : Layout(r.payload, r.data, at)
  BY <1>3, DataOK
<1>5. at[1] = 1
  BY <1>4 DEF Layout
<1>6. Len(dst') = 0 /\ Len(dst') + 1 = 1
  BY <1>2
<1> QED BY <1>2, <1>4, <1>5, <1>6 DEF InStep

LEMMA SentCheck == ASSUME Faithful, SentInv, Check PROVE SentInv'
<1>1. WriteInv'
  BY CheckOK DEF SentInv
<1>2. phase = "check" /\ UNCHANGED <<request, dst, p>>
  BY DEF Check
<1>3. SUFFICES ASSUME request.kind = "escaped" PROVE Sent'
  BY <1>1, <1>2 DEF SentInv, Sent
<1>4. request \in Requests
  BY DEF SentInv, WriteInv, TypeOK
<1>5. ~ (request.len = 0 \/ request.len > BufSize)
  BY <1>3, <1>4, DataOK, SizeAssumption
<1>6. phase' = "decode"
  BY <1>5 DEF Check
<1>7. InStep'
  BY <1>2, <1>3 DEF SentInv, Sent, InStep
<1> QED BY <1>6, <1>7 DEF Sent

LEMMA SentRun == ASSUME Faithful, SentInv, Run PROVE SentInv'
<1>1. WriteInv'
  BY RunOK DEF SentInv
<1>2. phase = "decode" /\ Room > 0 /\ request.payload[p] = STAR /\ UNCHANGED request
  BY DEF Run, Decoding
<1>3. SUFFICES ASSUME request.kind = "escaped" PROVE FALSE
  BY <1>1, <1>2 DEF SentInv, Sent
<1>4. \E k : \/ request.data[k] \notin Special /\ request.payload[p] = request.data[k]
             \/ request.payload[p] = BRACE
  BY <1>2, <1>3, PieceRead
<1>5. STAR \in Special /\ STAR # BRACE
  BY DEF Special, STAR, BRACE
<1> QED BY <1>2, <1>4, <1>5

LEMMA SentEscape == ASSUME Faithful, SentInv, Escape PROVE SentInv'
<1>1. WriteInv'
  BY EscapeOK DEF SentInv
<1>2. phase = "decode" /\ Room > 0 /\ request.payload[p] = BRACE /\ UNCHANGED request
  BY DEF Escape, Decoding
<1>3. SUFFICES ASSUME request.kind = "escaped" PROVE Sent'
  BY <1>1, <1>2 DEF SentInv, Sent
<1>4. PICK at, k : /\ k = Len(dst) + 1 /\ k \in 1 .. Len(request.data)
                   /\ Layout(request.payload, request.data, at)
                   /\ \/ /\ request.data[k] \notin Special
                         /\ request.payload[p] = request.data[k]
                      \/ /\ request.data[k] \in Special
                         /\ ~AtEnd(p + 1) /\ Xor20(request.payload[p + 1]) = request.data[k]
                         /\ at[k + 1] = p + 2
  BY <1>2, <1>3, PieceRead
<1>5. BRACE \in Special
  BY DEF Special
<1>6. /\ request.data[k] \in Special /\ ~AtEnd(p + 1) /\ at[k + 1] = p + 2
      /\ Xor20(request.payload[p + 1]) = request.data[k]
  BY <1>2, <1>4, <1>5
<1>7. dst' = Append(dst, request.data[k]) /\ p' = at[k + 1] /\ phase' = "decode"
  BY <1>2, <1>6 DEF Escape
<1>8. request.data[k] \in Byte
  BY <1>6 DEF Special, STAR, BRACE, Byte
<1>9. TypeOK /\ InStep
  BY <1>2, <1>3 DEF SentInv, WriteInv, Sent
<1>10. InStep'
  BY <1>2, <1>4, <1>7, <1>8, <1>9, InStepGrows
<1> QED BY <1>7, <1>10 DEF Sent

LEMMA SentPlain == ASSUME Faithful, SentInv, Plain PROVE SentInv'
<1>1. WriteInv'
  BY PlainOK DEF SentInv
<1>2. PICK c \in Byte : c # BRACE /\ Decoding(c) /\ dst' = Append(dst, c)
  BY DEF Plain
<1>3. phase = "decode" /\ Room > 0 /\ request.payload[p] = c /\ UNCHANGED <<request, phase>>
  BY <1>2 DEF Plain, Decoding
<1>4. SUFFICES ASSUME request.kind = "escaped" PROVE Sent'
  BY <1>1, <1>3 DEF SentInv, Sent
<1>5. PICK at, k : /\ k = Len(dst) + 1 /\ k \in 1 .. Len(request.data)
                   /\ Layout(request.payload, request.data, at)
                   /\ \/ request.payload[p] = request.data[k] /\ at[k + 1] = p + 1
                      \/ request.payload[p] = BRACE
  BY <1>3, <1>4, PieceRead
<1>6. request.data[k] = c /\ at[k + 1] = p + 1
  BY <1>2, <1>3, <1>5
<1>7. p' = at[k + 1]
  BY <1>6 DEF Plain
<1>8. TypeOK /\ InStep
  BY <1>3, <1>4 DEF SentInv, WriteInv, Sent
<1>9. InStep'
  BY <1>2, <1>3, <1>5, <1>6, <1>7, <1>8, InStepGrows
<1> QED BY <1>3, <1>9 DEF Sent

LEMMA SentDecodeEnds == ASSUME Faithful, SentInv, DecodeEnds PROVE SentInv'
<1>1. WriteInv'
  BY DecodeEndsOK DEF SentInv
<1>2. phase = "decode" /\ (Room = 0 \/ AtEnd(p)) /\ UNCHANGED <<request, dst>>
  BY DEF DecodeEnds
<1>3. SUFFICES ASSUME request.kind = "escaped" PROVE Sent'
  BY <1>1, <1>2 DEF SentInv, Sent
<1>4. TypeOK /\ InStep /\ NoOverflow
  BY <1>2, <1>3 DEF SentInv, WriteInv, Sent
<1>5. request \in Requests /\ dst \in Seq(Byte) /\ Len(dst) \in Nat
  BY <1>4 DEF TypeOK
<1>6. request.data \in Seq(Byte) /\ Len(request.data) = request.len /\ request.len \in Nat
  BY <1>3, <1>5, DataOK
<1>7. Room \in Nat
  BY <1>4, <1>5, <1>6 DEF Room, NoOverflow
<1>8. Room = 0
  <2> SUFFICES ASSUME Room # 0 PROVE FALSE
    OBVIOUS
  <2>1. Room > 0
    BY <1>7
  <2>2. ~AtEnd(p)
    BY <1>2, <1>3, <2>1, PieceRead
  <2> QED BY <1>2, <2>2
<1>9. Len(dst) = Len(request.data)
  BY <1>5, <1>6, <1>8 DEF Room
<1>10. dst = request.data
  <2>1. \A i \in 1 .. Len(dst) : dst[i] = request.data[i]
    BY <1>4 DEF InStep
  <2> QED BY <1>5, <1>6, <1>9, <2>1
<1>11. phase' = "store"
  BY <1>8 DEF DecodeEnds
<1> QED BY <1>2, <1>10, <1>11 DEF Sent

LEMMA SentStore == ASSUME SentInv, Store PROVE SentInv'
<1>1. WriteInv'
  BY StoreOK DEF SentInv
<1>2. phase = "store" /\ UNCHANGED <<request, dst>>
  BY DEF Store
<1>3. phase' = "store" \/ (phase' = "answered" /\ reply' = "OK")
  BY <1>2 DEF Store, Answer
<1> QED BY <1>1, <1>2, <1>3 DEF SentInv, Sent

LEMMA SentStep == Faithful /\ SentInv /\ [Next]_vars => SentInv'
<1> SUFFICES ASSUME Faithful, SentInv, [Next]_vars PROVE SentInv'
  OBVIOUS
<1>1. CASE \E r \in Requests : ClientAsks(r)
  BY <1>1, SentAsk
<1>2. CASE Check
  BY <1>2, SentCheck
<1>3. CASE Run
  BY <1>3, SentRun
<1>4. CASE Escape
  BY <1>4, SentEscape
<1>5. CASE Plain
  BY <1>5, SentPlain
<1>6. CASE DecodeEnds
  BY <1>6, SentDecodeEnds
<1>7. CASE Store
  BY <1>7, SentStore
<1>8. CASE UNCHANGED vars
  <2>1. WriteInv'
    BY <1>8, StepOK DEF SentInv
  <2> QED BY <1>8, <2>1 DEF vars, SentInv, Sent, InStep
<1> QED BY <1>1, <1>2, <1>3, <1>4, <1>5, <1>6, <1>7, <1>8 DEF Next, handle_write_memory_binary

\* What the debugger escapes, decode_rsp_binary restores and handle_write_memory_binary
\* writes, byte for byte, for data of any length that fits and has no zero byte.
THEOREM DataArrives == ASSUME Faithful PROVE Spec => []WrittenAsSent
<1>1. Init => SentInv
  BY SentInit
<1>2. SentInv /\ [Next]_vars => SentInv'
  BY SentStep
<1>3. SentInv => WrittenAsSent
  BY DEF SentInv, Sent, WriteInv, AllOrNothing, WrittenAsSent
<1> QED BY <1>1, <1>2, <1>3, PTL DEF Spec
==============================================================================
