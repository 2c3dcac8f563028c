-------------------------- MODULE GuestMemoryProofs --------------------------
(***************************************************************************)
(* For every number of harts, every size and place of RAM within the       *)
(* address space and every set of accesses: no access leaves the array,    *)
(* and the arrays and pointers behave as one memory.                       *)
(***************************************************************************)
EXTENDS GuestMemory, TLAPS

\* The pointers init_system sets are never changed: every access goes to hart 0's array.
OneArray == shared_ram = [h \in Harts |-> IF h > 0 THEN 0 ELSE NONE]

MemInv == TypeOK /\ OneArray /\ InBounds

Ram == RamBase .. (RamBase + RamSize - 1)

------------------------------------------------------------------------------
LEMMA Layout ==
  /\ AddrSpace \in Nat /\ RamBase \in Nat /\ RamSize \in Nat /\ SyncBase \in Nat
  /\ 4 <= RamSize /\ RamBase + RamSize < AddrSpace
  /\ RamBase <= SyncBase /\ SyncBase + 64 <= RamBase + RamSize
  /\ Ipi \in Nat /\ Ipi < RamBase
  /\ NumHarts \in Nat /\ 0 < NumHarts /\ NumHarts <= 8
  /\ MaxHarts \in Nat /\ NumHarts <= MaxHarts /\ MaxHarts <= 8
BY LayoutAssumption, HartsAssumption

LEMMA HartZero == 0 \in Harts
BY Layout DEF Harts

LEMMA SeqOfBytes ==
  ASSUME NEW n \in Nat, NEW f \in [1 .. n -> Byte]
  PROVE  f \in Seq(Byte)
OBVIOUS

LEMMA AllOnOneArray ==
  ASSUME OneArray, NEW h \in Harts
  PROVE  rv32_cpu_ram(h) = 0
<1>1. h \in Nat BY Layout DEF Harts
<1> QED BY <1>1 DEF OneArray, rv32_cpu_ram, NONE

LEMMA SyncArray == OneArray => sync_ram = 0
BY HartZero, AllOnOneArray DEF sync_ram

\* The unsigned comparison of rv32_cpu_read_mem is the one that was meant.
LEMMA InRamMeans ==
  ASSUME NEW a \in Addr, NEW size \in Size
  PROVE  InRam(a, size) <=> RamBase <= a /\ a + size <= RamBase + RamSize
<1> DEFINE top == RamBase + RamSize - size + 1
<1>1. a \in Nat /\ size \in 1 .. 4 BY Layout DEF Addr, Size
<1>2. top \in 0 .. (AddrSpace - 1) BY <1>1, Layout
<1>3. \A n \in 0 .. (AddrSpace - 1) : n % AddrSpace = n BY Layout
<1>4. top % AddrSpace = top BY <1>2, <1>3
<1> QED BY <1>1, <1>4, Layout DEF InRam

LEMMA ModAddr == \A n \in Int : n % AddrSpace \in Addr
BY Layout DEF Addr

LEMMA PutAtType ==
  ASSUME NEW ram \in [Offset -> Byte], NEW o \in Int, NEW data \in Seq(Byte)
  PROVE  PutAt(ram, o, data) \in [Offset -> Byte]
<1>1. \A i \in DOMAIN data : data[i] \in Byte OBVIOUS
<1> QED BY <1>1 DEF PutAt

LEMMA UsedIn ==
  ASSUME NEW o \in Nat, NEW n \in Nat, o + n <= RamSize
  PROVE  Used(o, n) \subseteq Offset
<1> SUFFICES ASSUME NEW i \in 0 .. (n - 1) PROVE o + i \in Offset BY DEF Used
<1> QED BY Layout DEF Offset

LEMMA WordType == \A n \in Byte : Word(n) \in Seq(Byte) /\ Len(Word(n)) = 4
BY DEF Word, Byte

LEMMA SyncOffsets ==
  /\ SMP_OFF_LOCK \in Nat /\ SMP_OFF_LOCK + 64 <= RamSize
  /\ SMP_OFF_WORK_ITEM = SMP_OFF_LOCK + 4
  /\ SMP_OFF_WORK_READY = SMP_OFF_LOCK + 8
  /\ SMP_OFF_SHARED_DONE = SMP_OFF_LOCK + 12
  /\ SMP_OFF_NUM_HARTS = SMP_OFF_LOCK + 48
BY Layout DEF SMP_OFF_LOCK, SMP_OFF_WORK_ITEM, SMP_OFF_WORK_READY, SMP_OFF_SHARED_DONE,
              SMP_OFF_NUM_HARTS

LEMMA PendingOffset ==
  ASSUME NEW h \in Harts
  PROVE  /\ SMP_OFF_IPI_PENDING(h) \in Nat
         /\ SMP_OFF_LOCK + 16 <= SMP_OFF_IPI_PENDING(h)
         /\ SMP_OFF_IPI_PENDING(h) + 4 <= SMP_OFF_LOCK + 48
<1>1. h \in Nat /\ h <= 7 BY Layout DEF Harts
<1> QED BY <1>1, SyncOffsets DEF SMP_OFF_IPI_PENDING

------------------------------------------------------------------------------
LEMMA RamInitType ==
  ASSUME NEW ram \in [Offset -> Byte]
  PROVE  smp_sync_ram_init(ram) \in [Offset -> Byte]
<1> DEFINE z == [i \in 1 .. (16 + 4 * MaxHarts) |-> 0]
<1>1. z \in Seq(Byte)
  <2>1. 16 + 4 * MaxHarts \in Nat BY Layout
  <2>2. z \in [1 .. (16 + 4 * MaxHarts) -> Byte] BY DEF Byte
  <2> QED BY <2>1, <2>2, SeqOfBytes
<1>2. PutAt(ram, SMP_OFF_LOCK, z) \in [Offset -> Byte]
  <2> HIDE DEF z
  <2>1. SMP_OFF_LOCK \in Int BY SyncOffsets
  <2> QED BY <1>1, <2>1, PutAtType
<1>3. NumHarts \in Byte BY Layout DEF Byte
<1>4. Word(NumHarts) \in Seq(Byte) BY <1>3, WordType
<1>5. SMP_OFF_NUM_HARTS \in Int BY SyncOffsets
<1> QED BY <1>2, <1>4, <1>5, PutAtType DEF smp_sync_ram_init

LEMMA InitOK == Init => MemInv
<1> SUFFICES ASSUME Init PROVE MemInv OBVIOUS
<1> DEFINE zero == [x \in Offset |-> 0]
<1>1. zero \in [Offset -> Byte] BY DEF Byte
<1>2. Program \in Seq(Byte) BY RequestsAssumption
<1>3. rv32_cpu_load_program(zero) \in [Offset -> Byte]
  BY <1>1, <1>2, PutAtType DEF rv32_cpu_load_program
<1>4. smp_sync_ram_init(rv32_cpu_load_program(zero)) \in [Offset -> Byte]
  BY <1>3, RamInitType
<1>5. memory \in [Harts -> [Offset -> Byte]] BY <1>1, <1>4 DEF Init
<1>6. shared_ram \in [Harts -> {0, NONE}] BY DEF Init
<1>7. answer \in Seq(Byte) /\ touched = {} BY DEF Init
<1>8. OneArray BY DEF Init, OneArray
<1> QED BY <1>5, <1>6, <1>7, <1>8 DEF MemInv, TypeOK, InBounds

LEMMA LoadOK ==
  ASSUME MemInv, NEW h \in Harts, NEW r \in Loads, Load(h, r.addr, r.len)
  PROVE  MemInv'
<1>1. r.addr \in Addr /\ r.len \in Size BY RequestsAssumption
<1>2. r.addr \in Nat /\ r.len \in Nat BY <1>1, Layout DEF Addr, Size
<1>3. memory[rv32_cpu_ram(h)] \in [Offset -> Byte]
  BY AllOnOneArray, HartZero DEF MemInv, TypeOK
<1>4. \A o \in Int : At(memory[rv32_cpu_ram(h)], o) \in Byte BY <1>3 DEF At, Byte
<1>5. answer' \in [1 .. r.len -> Byte]
  <2>1. 0 \in Byte BY DEF Byte
  <2>2. \A i \in 1 .. r.len : r.addr - RamBase + i - 1 \in Int BY <1>2, Layout
  <2> QED BY <1>4, <2>1, <2>2 DEF Load
<1>6. answer' \in Seq(Byte) BY <1>2, <1>5, SeqOfBytes
<1>7. touched' \subseteq Offset
  <2>1. CASE InRam(r.addr, r.len)
    <3>1. RamBase <= r.addr /\ r.addr + r.len <= RamBase + RamSize BY <1>1, <2>1, InRamMeans
    <3>2. r.addr - RamBase \in Nat /\ r.addr - RamBase + r.len <= RamSize BY <1>2, <3>1, Layout
    <3> QED BY <1>2, <2>1, <3>2, UsedIn DEF Load
  <2>2. CASE ~InRam(r.addr, r.len) BY <2>2 DEF Load
  <2> QED BY <2>1, <2>2
<1>8. touched' \subseteq Int BY <1>7, Layout DEF Offset
<1>9. UNCHANGED <<memory, shared_ram>> BY DEF Load
<1> QED BY <1>6, <1>7, <1>8, <1>9 DEF MemInv, TypeOK, OneArray, InBounds

LEMMA StoreOK ==
  ASSUME MemInv, NEW h \in Harts, NEW w \in Stores, Store(h, w.addr, w.data)
  PROVE  MemInv'
<1>1. w.addr \in Addr /\ w.data \in Seq(Byte) /\ Len(w.data) \in Size BY RequestsAssumption
<1>2. w.addr \in Nat /\ Len(w.data) \in Nat BY <1>1, Layout DEF Addr
<1>3. rv32_cpu_ram(h) = 0 /\ memory[0] \in [Offset -> Byte]
  BY AllOnOneArray, HartZero DEF MemInv, TypeOK
<1>4. PutAt(memory[0], w.addr - RamBase, w.data) \in [Offset -> Byte]
  BY <1>1, <1>2, <1>3, PutAtType, Layout
<1>5. memory' \in [Harts -> [Offset -> Byte]]
  BY <1>3, <1>4, HartZero DEF Store, MemInv, TypeOK
<1>6. touched' \subseteq Offset
  <2>1. CASE InRam(w.addr, Len(w.data))
    <3>1. RamBase <= w.addr /\ w.addr + Len(w.data) <= RamBase + RamSize
      BY <1>1, <2>1, InRamMeans
    <3>2. w.addr - RamBase \in Nat /\ w.addr - RamBase + Len(w.data) <= RamSize
      BY <1>2, <3>1, Layout
    <3> QED BY <1>2, <2>1, <3>2, UsedIn DEF Store
  <2>2. CASE ~InRam(w.addr, Len(w.data)) BY <2>2 DEF Store
  <2> QED BY <2>1, <2>2
<1>7. touched' \subseteq Int BY <1>6, Layout DEF Offset
<1>8. UNCHANGED shared_ram /\ answer' \in Seq(Byte) BY DEF Store
<1> QED BY <1>5, <1>6, <1>7, <1>8 DEF MemInv, TypeOK, OneArray, InBounds

\* What the debugger's path reaches lies in the array.
LEMMA SourceIn ==
  ASSUME NEW a \in Addr, Reaches(a)
  PROVE  Source(a) \in Offset
<1>1. a \in Nat BY Layout DEF Addr
<1>2. InRam(a, 1) => RamBase <= a /\ a + 1 <= RamBase + RamSize BY InRamMeans DEF Size
<1> QED BY <1>1, <1>2, Layout, SyncOffsets DEF Source, Reaches, InSync, Offset

LEMMA ReadOK ==
  ASSUME MemInv, NEW r \in Reads, handle_read_memory(r.addr, r.len)
  PROVE  MemInv'
<1>1. r.addr \in Addr /\ r.len \in Nat BY RequestsAssumption
<1>2. r.addr \in Nat BY <1>1, Layout DEF Addr
<1>3. \A i \in 1 .. r.len : Nth(r.addr, i) \in Addr
  <2>1. \A i \in 1 .. r.len : r.addr + i - 1 \in Int BY <1>2
  <2> QED BY <2>1, ModAddr DEF Nth
<1>4. memory[0] \in [Offset -> Byte] BY HartZero DEF MemInv, TypeOK
<1>5. rv32_cpu_ram(0) = 0 /\ sync_ram = 0 BY AllOnOneArray, HartZero, SyncArray DEF MemInv
<1>6. \A a \in Addr : sys_read_mem(a) \in Byte
  BY <1>4, <1>5, SourceIn DEF sys_read_mem, At, Byte
<1>7. answer' \in [1 .. r.len -> Byte] BY <1>3, <1>6 DEF handle_read_memory
<1>8. answer' \in Seq(Byte) BY <1>1, <1>7, SeqOfBytes
<1>9. touched' \subseteq Offset BY <1>3, SourceIn DEF handle_read_memory
<1>10. touched' \subseteq Int BY <1>9, Layout DEF Offset
<1>11. UNCHANGED <<memory, shared_ram>> BY DEF handle_read_memory
<1> QED BY <1>8, <1>9, <1>10, <1>11 DEF MemInv, TypeOK, OneArray, InBounds

LEMMA WriteOK ==
  ASSUME MemInv, NEW f \in Harts, NEW w \in Writes, handle_write_memory(f, w.addr, w.data)
  PROVE  MemInv'
<1>1. w.addr \in Addr /\ w.data \in Seq(Byte) BY RequestsAssumption
<1>2. w.addr \in Nat /\ Len(w.data) \in Nat /\ DOMAIN w.data = 1 .. Len(w.data)
  BY <1>1, Layout DEF Addr
<1>3. \A i \in DOMAIN w.data : Nth(w.addr, i) \in Addr
  <2>1. \A i \in DOMAIN w.data : w.addr + i - 1 \in Int BY <1>2
  <2> QED BY <2>1, ModAddr DEF Nth
<1>4. \A i \in DOMAIN w.data : w.data[i] \in Byte BY <1>1
<1>5. memory' \in [Harts -> [Offset -> Byte]]
  BY <1>4 DEF handle_write_memory, Written, MemInv, TypeOK
<1>6. \A a \in Addr : InSync(a) \/ InRam(a, 1) => a - RamBase \in Offset
  <2> SUFFICES ASSUME NEW a \in Addr, InSync(a) \/ InRam(a, 1) PROVE a - RamBase \in Offset
    OBVIOUS
  <2>1. a \in Nat BY Layout DEF Addr
  <2>2. InRam(a, 1) => RamBase <= a /\ a + 1 <= RamBase + RamSize BY InRamMeans DEF Size
  <2> QED BY <2>1, <2>2, Layout DEF InSync, Offset
<1>7. touched' \subseteq Offset BY <1>3, <1>6 DEF handle_write_memory
<1>8. touched' \subseteq Int BY <1>7, Layout DEF Offset
<1>9. UNCHANGED shared_ram /\ answer' \in Seq(Byte) BY DEF handle_write_memory
<1> QED BY <1>5, <1>7, <1>8, <1>9 DEF MemInv, TypeOK, OneArray, InBounds

\* The worker smp_worker_target picks exists.
LEMMA TargetIn ==
  ASSUME NEW n \in Items, NumHarts > 1
  PROVE  (n % (NumHarts - 1)) + 1 \in Harts
<1>1. n \in Nat BY RequestsAssumption DEF Byte
<1> DEFINE k == NumHarts - 1
<1>2. k \in Nat /\ k > 0 BY Layout
<1> HIDE DEF k
<1>3. n % k \in 0 .. (k - 1) BY <1>1, <1>2
<1> QED BY <1>3, Layout DEF Harts, k

LEMMA CounterOK ==
  ASSUME MemInv, NEW n \in Items, CounterStore(n)
  PROVE  MemInv'
<1> DEFINE t == (n % (NumHarts - 1)) + 1
           m1 == PutAt(memory[0], SMP_OFF_WORK_ITEM, Word(n))
           m2 == PutAt(m1, SMP_OFF_WORK_READY, Word(1))
           m3 == PutAt(m2, SMP_OFF_IPI_PENDING(t), Word(1))
<1>1. t \in Harts BY TargetIn DEF CounterStore
<1>2. n \in Byte /\ 1 \in Byte BY RequestsAssumption DEF Byte
<1>3. Word(n) \in Seq(Byte) /\ Word(1) \in Seq(Byte) BY <1>2, WordType
<1>4. /\ SMP_OFF_WORK_ITEM \in Int /\ SMP_OFF_WORK_READY \in Int
      /\ SMP_OFF_IPI_PENDING(t) \in Int
  BY <1>1, SyncOffsets, PendingOffset
<1>5. memory[0] \in [Offset -> Byte] BY HartZero DEF MemInv, TypeOK
<1>6. m1 \in [Offset -> Byte] BY <1>3, <1>4, <1>5, PutAtType
<1>7. m2 \in [Offset -> Byte] BY <1>3, <1>4, <1>6, PutAtType
<1>8. m3 \in [Offset -> Byte] BY <1>3, <1>4, <1>7, PutAtType
<1>9. memory' = [memory EXCEPT ![0] = m3]
  BY SyncArray DEF CounterStore, smp_deliver_ipi, MemInv
<1>10. memory' \in [Harts -> [Offset -> Byte]] BY <1>8, <1>9, HartZero DEF MemInv, TypeOK
<1>11. touched' \subseteq Offset
  <2>1. Used(SMP_OFF_WORK_ITEM, 8) \subseteq Offset BY SyncOffsets, UsedIn, Layout
  <2>2. Used(SMP_OFF_IPI_PENDING(t), 4) \subseteq Offset
    BY <1>1, SyncOffsets, PendingOffset, UsedIn, Layout
  <2> QED BY <2>1, <2>2 DEF CounterStore, smp_deliver_ipi
<1>12. touched' \subseteq Int BY <1>11, Layout DEF Offset
<1>13. UNCHANGED shared_ram /\ answer' \in Seq(Byte) BY DEF CounterStore, smp_deliver_ipi
<1> QED BY <1>10, <1>11, <1>12, <1>13 DEF MemInv, TypeOK, OneArray, InBounds

LEMMA ResetOK == ASSUME MemInv, gdb_reset PROVE MemInv'
<1>1. shared_ram' = shared_ram
  BY DEF gdb_reset, rv32_cpu_reset, MemInv, TypeOK
<1>2. memory' = [memory EXCEPT ![0] = smp_sync_ram_init(memory[0])]
  BY SyncArray DEF gdb_reset, MemInv
<1>3. memory' \in [Harts -> [Offset -> Byte]]
  BY <1>2, RamInitType, HartZero DEF MemInv, TypeOK
<1>4. touched' \subseteq Offset
  <2>1. Used(SMP_OFF_LOCK, 16 + 4 * MaxHarts) \subseteq Offset
    <3>1. 16 + 4 * MaxHarts \in Nat /\ 16 + 4 * MaxHarts <= 48 BY Layout
    <3> QED BY <3>1, SyncOffsets, UsedIn, Layout
  <2>2. Used(SMP_OFF_NUM_HARTS, 4) \subseteq Offset BY SyncOffsets, UsedIn, Layout
  <2> QED BY <2>1, <2>2 DEF gdb_reset
<1>5. touched' \subseteq Int BY <1>4, Layout DEF Offset
<1>6. answer' \in Seq(Byte) BY DEF gdb_reset
<1> QED BY <1>1, <1>3, <1>4, <1>5, <1>6 DEF MemInv, TypeOK, OneArray, InBounds

LEMMA StepOK == MemInv /\ [Next]_vars => MemInv'
<1> SUFFICES ASSUME MemInv, [Next]_vars PROVE MemInv' OBVIOUS
<1>1. CASE \E h \in Harts, r \in Loads : Load(h, r.addr, r.len) BY <1>1, LoadOK
<1>2. CASE \E h \in Harts, w \in Stores : Store(h, w.addr, w.data) BY <1>2, StoreOK
<1>3. CASE \E r \in Reads : handle_read_memory(r.addr, r.len) BY <1>3, ReadOK
<1>4. CASE \E f \in Harts, w \in Writes : handle_write_memory(f, w.addr, w.data)
  BY <1>4, WriteOK
<1>5. CASE \E n \in Items : CounterStore(n) BY <1>5, CounterOK
<1>6. CASE gdb_reset BY <1>6, ResetOK
<1>7. CASE UNCHANGED vars BY <1>7 DEF vars, MemInv, TypeOK, OneArray, InBounds
<1> QED BY <1>1, <1>2, <1>3, <1>4, <1>5, <1>6, <1>7 DEF Next

\* Every access of a hart, the debugger or smp_sync.c stays inside the array, for every
\* address and size: the unsigned bounds of rv32_cpu.c, main.c and smp_sync.c suffice.
THEOREM AccessesInBounds == Spec => []InBounds
<1>1. MemInv => InBounds BY DEF MemInv
<1> QED BY InitOK, StepOK, <1>1, PTL DEF Spec

\* Memory holds bytes, and every hart keeps a pointer to an array that exists.
THEOREM TypeCorrect == Spec => []TypeOK
<1>1. MemInv => TypeOK BY DEF MemInv
<1> QED BY InitOK, StepOK, <1>1, PTL DEF Spec

------------------------------------------------------------------------------
\* The contents of the abstract memory.
Cells == [a \in Ram |-> memory[0][a - RamBase]]

LEMMA RamOffsets == \A a \in Ram : a \in Nat /\ a - RamBase \in Offset /\ a < AddrSpace
BY Layout DEF Ram, Offset

LEMMA ModSmall == \A k \in 0 .. (AddrSpace - 1) : k % AddrSpace = k
BY Layout

LEMMA ModNegative == \A k \in Int : -AddrSpace < k /\ k < 0 => k % AddrSpace = k + AddrSpace
<1> SUFFICES ASSUME NEW k \in Int, -AddrSpace < k, k < 0 PROVE k % AddrSpace = k + AddrSpace
  OBVIOUS
<1> QED BY Layout

\* An access is in the code's bounds if all its bytes are in RAM.
LEMMA InRamFits ==
  ASSUME NEW a \in Addr, NEW n \in Size
  PROVE  InRam(a, n) <=> \A i \in 0 .. (n - 1) : (a + i) \in Ram
<1>1. a \in Nat /\ n \in Nat /\ n > 0 BY Layout DEF Addr, Size
<1>2. InRam(a, n) => \A i \in 0 .. (n - 1) : (a + i) \in Ram
  BY <1>1, InRamMeans, Layout DEF Ram
<1>3. (\A i \in 0 .. (n - 1) : (a + i) \in Ram) => InRam(a, n)
  <2> SUFFICES ASSUME \A i \in 0 .. (n - 1) : (a + i) \in Ram PROVE InRam(a, n) OBVIOUS
  <2>1. 0 \in 0 .. (n - 1) /\ n - 1 \in 0 .. (n - 1) BY <1>1
  <2>2. a + 0 \in Ram /\ a + (n - 1) \in Ram BY <2>1
  <2>3. RamBase <= a /\ a + n <= RamBase + RamSize BY <1>1, <2>2, Layout DEF Ram
  <2> QED BY <2>3, InRamMeans
<1> QED BY <1>2, <1>3

LEMMA LoadImplements ==
  ASSUME MemInv, NEW h \in Harts, NEW r \in Loads, Load(h, r.addr, r.len)
  PROVE  Memory!HartLoads(r.addr, r.len)
<1>1. r.addr \in Addr /\ r.len \in Size BY RequestsAssumption
<1>2. r.addr \in Nat /\ r.len \in Nat BY <1>1, Layout DEF Addr, Size
<1>3. rv32_cpu_ram(h) = 0 BY AllOnOneArray DEF MemInv
<1>4. InRam(r.addr, r.len) <=> Memory!Fits(r.addr, r.len)
  BY <1>1, InRamFits DEF Memory!Fits, Ram
<1>5. ASSUME InRam(r.addr, r.len), NEW i \in 1 .. r.len
      PROVE  At(memory[0], r.addr - RamBase + i - 1) = Cells[r.addr + i - 1]
  <2>1. RamBase <= r.addr /\ r.addr + r.len <= RamBase + RamSize BY <1>1, <1>5, InRamMeans
  <2>2. r.addr + i - 1 \in Ram BY <1>2, <2>1, Layout DEF Ram
  <2>3. r.addr - RamBase + i - 1 = (r.addr + i - 1) - RamBase BY <1>2, Layout
  <2>4. (r.addr + i - 1) - RamBase \in Offset BY <2>2, RamOffsets
  <2> QED BY <2>2, <2>3, <2>4 DEF At, Cells
<1>6. answer' = [i \in 1 .. r.len |-> IF Memory!Fits(r.addr, r.len)
                                        THEN Cells[r.addr + i - 1] ELSE 0]
  BY <1>3, <1>4, <1>5 DEF Load
<1>7. Cells' = Cells BY DEF Load, Cells
<1> QED BY <1>6, <1>7 DEF Memory!HartLoads, Cells, Ram

LEMMA StoreImplements ==
  ASSUME MemInv, NEW h \in Harts, NEW w \in Stores, Store(h, w.addr, w.data)
  PROVE  Memory!HartStores(w.addr, w.data)
<1>1. w.addr \in Addr /\ w.data \in Seq(Byte) /\ Len(w.data) \in Size BY RequestsAssumption
<1>2. w.addr \in Nat /\ Len(w.data) \in Nat /\ DOMAIN w.data = 1 .. Len(w.data)
  BY <1>1, Layout DEF Addr
<1>3. rv32_cpu_ram(h) = 0 BY AllOnOneArray DEF MemInv
<1>4. InRam(w.addr, Len(w.data)) <=> Memory!Fits(w.addr, Len(w.data))
  BY <1>1, InRamFits DEF Memory!Fits, Ram
<1>5. CASE InRam(w.addr, Len(w.data))
  <2>1. RamBase <= w.addr /\ w.addr + Len(w.data) <= RamBase + RamSize
    BY <1>1, <1>5, InRamMeans
  <2>2. memory' = [memory EXCEPT ![0] = PutAt(memory[0], w.addr - RamBase, w.data)]
    BY <1>3, <1>5 DEF Store
  <2>3. memory'[0] = PutAt(memory[0], w.addr - RamBase, w.data)
    BY <2>2, HartZero DEF MemInv, TypeOK
  <2>4. ASSUME NEW a \in Ram
        PROVE  memory'[0][a - RamBase] =
                 (IF ((a - w.addr) % AddrSpace) + 1 \in DOMAIN w.data
                    THEN w.data[((a - w.addr) % AddrSpace) + 1] ELSE Cells[a])
    <3>1. a \in Nat /\ a - RamBase \in Offset /\ a < AddrSpace BY RamOffsets
    <3>2. memory'[0][a - RamBase] =
            (IF a - w.addr + 1 \in DOMAIN w.data THEN w.data[a - w.addr + 1] ELSE Cells[a])
      <4>1. (a - RamBase) - (w.addr - RamBase) + 1 = a - w.addr + 1 BY <1>2, <3>1, Layout
      <4> QED BY <2>3, <3>1, <4>1 DEF PutAt, Cells
    <3>3. CASE w.addr <= a
      <4>1. a - w.addr \in 0 .. (AddrSpace - 1) BY <1>2, <3>1, <3>3, Layout
      <4>2. (a - w.addr) % AddrSpace = a - w.addr BY <4>1, ModSmall
      <4> QED BY <3>2, <4>2
    <3>4. CASE a < w.addr
      <4>1. a - w.addr \in Int /\ -AddrSpace < a - w.addr /\ a - w.addr < 0
        BY <1>2, <2>1, <3>1, <3>4, Layout
      <4>2. (a - w.addr) % AddrSpace = a - w.addr + AddrSpace BY <4>1, ModNegative
      <4>3. a - w.addr + AddrSpace + 1 > Len(w.data) BY <1>2, <2>1, <3>1, Layout
      <4>4. ((a - w.addr) % AddrSpace) + 1 \notin DOMAIN w.data BY <1>2, <4>2, <4>3
      <4>5. a - w.addr + 1 \notin DOMAIN w.data BY <1>2, <4>1
      <4> QED BY <3>2, <4>4, <4>5
    <3> QED BY <1>2, <3>1, <3>3, <3>4
  <2>5. Cells' = Memory!Patched(w.addr, w.data)
    BY <2>4 DEF Memory!Patched, Cells, Ram
  <2> QED BY <1>4, <1>5, <2>5 DEF Memory!HartStores, Store, Cells, Ram
<1>6. CASE ~InRam(w.addr, Len(w.data))
  BY <1>4, <1>6 DEF Memory!HartStores, Store
<1> QED BY <1>5, <1>6

LEMMA ReadImplements ==
  ASSUME MemInv, NEW r \in Reads, handle_read_memory(r.addr, r.len)
  PROVE  Memory!DebuggerReads(r.addr, r.len)
<1>1. r.addr \in Addr /\ r.len \in Nat BY RequestsAssumption
<1>2. r.addr \in Nat BY <1>1, Layout DEF Addr
<1>3. rv32_cpu_ram(0) = 0 /\ sync_ram = 0 BY AllOnOneArray, HartZero, SyncArray DEF MemInv
<1>4. ASSUME NEW a \in Addr PROVE sys_read_mem(a) = Memory!Shown(a)
  <2> DEFINE b == IF a = Ipi THEN SyncBase + 12 ELSE a
  <2>1. a \in Nat BY Layout DEF Addr
  <2>2. InRam(a, 1) <=> RamBase <= a /\ a + 1 <= RamBase + RamSize BY InRamMeans DEF Size
  <2>3. Memory!Shown(a) = (IF b \in Ram THEN memory[0][b - RamBase] ELSE 0)
    BY DEF Memory!Shown, Ram
  <2>4. Reaches(a) <=> b \in Ram
    BY <2>1, <2>2, Layout DEF Reaches, InSync, Ram
  <2>5. Reaches(a) => Source(a) = b - RamBase
    BY <2>1, Layout DEF Source, InSync, SMP_OFF_SHARED_DONE, SMP_OFF_LOCK
  <2>6. Reaches(a) => Source(a) \in Offset BY SourceIn
  <2> QED BY <1>3, <2>3, <2>4, <2>5, <2>6 DEF sys_read_mem, At
<1>5. \A i \in 1 .. r.len : Nth(r.addr, i) \in Addr
  <2>1. \A i \in 1 .. r.len : r.addr + i - 1 \in Int BY <1>2
  <2> QED BY <2>1, ModAddr DEF Nth
<1>6. answer' = [i \in 1 .. r.len |-> Memory!Shown((r.addr + i - 1) % AddrSpace)]
  BY <1>4, <1>5 DEF handle_read_memory, Nth
<1> QED BY <1>6 DEF Memory!DebuggerReads, handle_read_memory

LEMMA WriteImplements ==
  ASSUME MemInv, NEW f \in Harts, NEW w \in Writes, handle_write_memory(f, w.addr, w.data)
  PROVE  Memory!DebuggerWrites(w.addr, w.data)
<1>1. rv32_cpu_ram(f) = 0 /\ sync_ram = 0 BY AllOnOneArray, SyncArray DEF MemInv
<1>2. memory'[0] = Written(0, f, w.addr, w.data) BY HartZero DEF handle_write_memory
<1>3. ASSUME NEW a \in Ram
      PROVE  memory'[0][a - RamBase] =
               (IF ((a - w.addr) % AddrSpace) + 1 \in DOMAIN w.data
                  THEN w.data[((a - w.addr) % AddrSpace) + 1] ELSE memory[0][a - RamBase])
  <2>1. a \in Nat /\ a - RamBase \in Offset /\ a < AddrSpace BY RamOffsets
  <2>2. RamBase + (a - RamBase) = a BY <2>1, Layout
  <2>3. InRam(a, 1)
    <3>1. a \in Addr /\ RamBase <= a /\ a + 1 <= RamBase + RamSize
      BY <2>1, Layout DEF Addr, Ram
    <3> QED BY <3>1, InRamMeans DEF Size
  <2> QED BY <1>1, <1>2, <2>1, <2>2, <2>3 DEF Written
<1>4. Cells' = Memory!Patched(w.addr, w.data) BY <1>3 DEF Memory!Patched, Cells, Ram
<1> QED BY <1>4 DEF Memory!DebuggerWrites, handle_write_memory, Cells, Ram

\* Bytes outside of the words written are kept.
LEMMA PutAtKeeps ==
  ASSUME NEW ram, NEW o \in Int, NEW data \in Seq(Byte), NEW x \in Offset,
         x < o \/ x >= o + Len(data)
  PROVE  PutAt(ram, o, data)[x] = ram[x]
<1>1. x \in Int BY Layout DEF Offset
<1>2. DOMAIN data = 1 .. Len(data) /\ Len(data) \in Nat OBVIOUS
<1>3. x - o + 1 \notin DOMAIN data BY <1>1, <1>2
<1> QED BY <1>3 DEF PutAt

LEMMA EmulatorImplements ==
  ASSUME MemInv, MemInv', answer' = <<>>,
         \A x \in Offset : x < SMP_OFF_LOCK \/ x >= SMP_OFF_LOCK + 64
                             => memory'[0][x] = memory[0][x]
  PROVE  Memory!EmulatorWrites
<1>1. memory'[0] \in [Offset -> Byte] BY HartZero DEF MemInv, TypeOK
<1>2. Cells' \in [Ram -> Byte] BY <1>1, RamOffsets DEF Cells
<1>3. \A a \in Ram \ (SyncBase .. (SyncBase + 63)) : Cells'[a] = Cells[a]
  <2> SUFFICES ASSUME NEW a \in Ram, a \notin SyncBase .. (SyncBase + 63)
               PROVE  Cells'[a] = Cells[a]
    OBVIOUS
  <2>1. a \in Nat /\ a - RamBase \in Offset BY RamOffsets
  <2>2. a - RamBase < SMP_OFF_LOCK \/ a - RamBase >= SMP_OFF_LOCK + 64
    BY <2>1, Layout DEF SMP_OFF_LOCK
  <2> QED BY <2>1, <2>2 DEF Cells
<1> QED BY <1>2, <1>3 DEF Memory!EmulatorWrites, Cells, Ram

LEMMA CounterImplements ==
  ASSUME MemInv, NEW n \in Items, CounterStore(n)
  PROVE  Memory!EmulatorWrites
<1> DEFINE t == (n % (NumHarts - 1)) + 1
           m1 == PutAt(memory[0], SMP_OFF_WORK_ITEM, Word(n))
           m2 == PutAt(m1, SMP_OFF_WORK_READY, Word(1))
           m3 == PutAt(m2, SMP_OFF_IPI_PENDING(t), Word(1))
<1>1. t \in Harts BY TargetIn DEF CounterStore
<1>2. n \in Byte /\ 1 \in Byte BY RequestsAssumption DEF Byte
<1>3. /\ Word(n) \in Seq(Byte) /\ Len(Word(n)) = 4
      /\ Word(1) \in Seq(Byte) /\ Len(Word(1)) = 4
  BY <1>2, WordType
<1>4. memory'[0] = m3
  BY SyncArray, HartZero DEF CounterStore, smp_deliver_ipi, MemInv, TypeOK
<1>5. ASSUME NEW x \in Offset, x < SMP_OFF_LOCK \/ x >= SMP_OFF_LOCK + 64
      PROVE  m3[x] = memory[0][x]
  <2>1. x \in Int BY Layout DEF Offset
  <2>2. /\ SMP_OFF_IPI_PENDING(t) \in Int
        /\ x < SMP_OFF_IPI_PENDING(t) \/ x >= SMP_OFF_IPI_PENDING(t) + 4
    BY <1>1, <1>5, <2>1, SyncOffsets, PendingOffset
  <2>3. /\ SMP_OFF_WORK_READY \in Int
        /\ x < SMP_OFF_WORK_READY \/ x >= SMP_OFF_WORK_READY + 4
    BY <1>5, <2>1, SyncOffsets
  <2>4. /\ SMP_OFF_WORK_ITEM \in Int
        /\ x < SMP_OFF_WORK_ITEM \/ x >= SMP_OFF_WORK_ITEM + 4
    BY <1>5, <2>1, SyncOffsets
  <2> HIDE DEF t
  <2>5. m1[x] = memory[0][x] BY <1>3, <2>4, PutAtKeeps
  <2>6. m2[x] = m1[x]
    <3> HIDE DEF m1
    <3> QED BY <1>3, <2>3, PutAtKeeps
  <2>7. m3[x] = m2[x]
    <3> HIDE DEF m2
    <3> QED BY <1>3, <2>2, PutAtKeeps
  <2> QED BY <2>5, <2>6, <2>7
<1>6. answer' = <<>> BY DEF CounterStore, smp_deliver_ipi
<1>7. MemInv' BY CounterOK
<1> HIDE DEF m3
<1> QED BY <1>4, <1>5, <1>6, <1>7, EmulatorImplements

LEMMA ResetImplements ==
  ASSUME MemInv, gdb_reset
  PROVE  Memory!EmulatorWrites
<1> DEFINE z == [i \in 1 .. (16 + 4 * MaxHarts) |-> 0]
           m1 == PutAt(memory[0], SMP_OFF_LOCK, z)
           m2 == PutAt(m1, SMP_OFF_NUM_HARTS, Word(NumHarts))
<1>1. z \in Seq(Byte) /\ Len(z) <= 48
  <2>1. 16 + 4 * MaxHarts \in Nat /\ 16 + 4 * MaxHarts <= 48 BY Layout
  <2>2. z \in [1 .. (16 + 4 * MaxHarts) -> Byte] BY DEF Byte
  <2>3. z \in Seq(Byte) BY <2>1, <2>2, SeqOfBytes
  <2> QED BY <2>1, <2>3
<1>2. NumHarts \in Byte BY Layout DEF Byte
<1>3. Word(NumHarts) \in Seq(Byte) /\ Len(Word(NumHarts)) = 4 BY <1>2, WordType
<1>4. memory'[0] = m2
  BY SyncArray, HartZero DEF gdb_reset, smp_sync_ram_init, MemInv, TypeOK
<1>5. ASSUME NEW x \in Offset, x < SMP_OFF_LOCK \/ x >= SMP_OFF_LOCK + 64
      PROVE  m2[x] = memory[0][x]
  <2> HIDE DEF z
  <2>1. x \in Int BY Layout DEF Offset
  <2>2. Len(z) \in Nat BY <1>1
  <2>3. SMP_OFF_LOCK \in Int /\ (x < SMP_OFF_LOCK \/ x >= SMP_OFF_LOCK + Len(z))
    BY <1>1, <1>5, <2>1, <2>2, SyncOffsets
  <2>4. /\ SMP_OFF_NUM_HARTS \in Int
        /\ x < SMP_OFF_NUM_HARTS \/ x >= SMP_OFF_NUM_HARTS + 4
    BY <1>5, <2>1, SyncOffsets
  <2>5. m1[x] = memory[0][x] BY <1>1, <2>3, PutAtKeeps
  <2>6. m2[x] = m1[x]
    <3> HIDE DEF m1
    <3> QED BY <1>3, <2>4, PutAtKeeps
  <2> QED BY <2>5, <2>6
<1>6. answer' = <<>> BY DEF gdb_reset
<1>7. MemInv' BY ResetOK
<1> HIDE DEF m2
<1> QED BY <1>4, <1>5, <1>6, <1>7, EmulatorImplements

LEMMA InitImplements == Init => Memory!Init
<1> SUFFICES ASSUME Init PROVE Memory!Init OBVIOUS
<1>1. memory[0] \in [Offset -> Byte] BY InitOK, HartZero DEF MemInv, TypeOK
<1>2. Cells \in [Ram -> Byte] BY <1>1, RamOffsets DEF Cells
<1> QED BY <1>2 DEF Init, Memory!Init, Cells, Ram

LEMMA StepImplements == MemInv /\ [Next]_vars => [Memory!Next]_(Memory!vars)
<1> SUFFICES ASSUME MemInv, [Next]_vars PROVE [Memory!Next]_(Memory!vars) OBVIOUS
<1>1. CASE \E h \in Harts, r \in Loads : Load(h, r.addr, r.len)
  BY <1>1, LoadImplements DEF Memory!Next
<1>2. CASE \E h \in Harts, w \in Stores : Store(h, w.addr, w.data)
  BY <1>2, StoreImplements DEF Memory!Next
<1>3. CASE \E r \in Reads : handle_read_memory(r.addr, r.len)
  BY <1>3, ReadImplements DEF Memory!Next
<1>4. CASE \E f \in Harts, w \in Writes : handle_write_memory(f, w.addr, w.data)
  BY <1>4, WriteImplements DEF Memory!Next
<1>5. CASE \E n \in Items : CounterStore(n) BY <1>5, CounterImplements DEF Memory!Next
<1>6. CASE gdb_reset BY <1>6, ResetImplements DEF Memory!Next
<1>7. CASE UNCHANGED vars BY <1>7 DEF vars, Memory!vars
<1> QED BY <1>1, <1>2, <1>3, <1>4, <1>5, <1>6, <1>7 DEF Next

\* Harts, debugger and emulator share one memory: arrays, pointers and the paths through
\* main.c and smp_sync.c implement FlatMemory.
THEOREM OneMemory == Spec => ImplementsFlatMemory
<1>1. Spec => []MemInv BY InitOK, StepOK, PTL DEF Spec
<1> QED BY <1>1, InitImplements, StepImplements, PTL DEF Spec, Memory!Spec, ImplementsFlatMemory
==============================================================================
