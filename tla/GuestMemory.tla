------------------------------ MODULE GuestMemory ------------------------------
(***************************************************************************)
(* RAM as the code keeps it: every hart has an array of its own, and a     *)
(* pointer shared_ram that sends the accesses of all harts to the array of *)
(* hart 0.  Instructions get at it through rv32_cpu_read_mem and           *)
(* rv32_cpu_write_mem of their hart, the debugger byte by byte through     *)
(* sys_read_mem and sys_write_mem of main.c, which take the variables of   *)
(* the worker protocol and the IPI device away from that path, and         *)
(* smp_sync.c through ram_write32.  Bounds are tested in unsigned          *)
(* arithmetic modulo the address space.                                    *)
(*                                                                         *)
(* A word is the sequence of its bytes, lowest first.  What a watchpoint   *)
(* makes of an access is in RunControl.                                    *)
(***************************************************************************)
EXTENDS Integers, Sequences

CONSTANTS
  NumHarts,        \* num_harts
  MaxHarts,        \* RV32_MAX_HARTS
  AddrSpace,       \* 2^32: addresses are modulo this
  RamBase, RamSize,\* RAM_BASE, RAM_SIZE
  SyncBase,        \* SMP_SYNC_BASE
  Ipi,             \* SMP_IPI_MMIO
  Program,         \* the bytes of the demo program
  Items,           \* numbers hart 0 publishes as work
  Loads, Reads,    \* [addr, len]: loads of the harts, reads of the debugger
  Stores, Writes   \* [addr, data]

NONE == -1

Harts  == 0 .. (NumHarts - 1)
Addr   == 0 .. (AddrSpace - 1)
Byte   == 0 .. 255
Offset == 0 .. (RamSize - 1)
Size   == {1, 2, 4}

ASSUME HartsAssumption == NumHarts \in Nat /\ 0 < NumHarts /\ NumHarts <= MaxHarts
                          /\ MaxHarts \in Nat /\ MaxHarts <= 8
\* RAM ends below the end of the address space; the shared variables are in RAM,
\* the device is not.
ASSUME LayoutAssumption ==
  /\ AddrSpace \in Nat /\ RamBase \in Nat /\ RamSize \in Nat /\ SyncBase \in Nat
  /\ 4 <= RamSize /\ RamBase + RamSize < AddrSpace
  /\ RamBase <= SyncBase /\ SyncBase + 64 <= RamBase + RamSize
  /\ Ipi \in 0 .. (RamBase - 1)
ASSUME RequestsAssumption ==
  /\ Loads  \subseteq [addr : Addr, len : Size]
  /\ Stores \subseteq {w \in [addr : Addr, data : Seq(Byte)] : Len(w.data) \in Size}
  /\ Reads  \subseteq [addr : Addr, len : Nat]
  /\ Writes \subseteq [addr : Addr, data : Seq(Byte)]
  /\ \A w \in Writes : Len(w.data) <= AddrSpace
  /\ Items \subseteq Byte
  /\ Program \in Seq(Byte)

VARIABLES
  memory,      \* memory[] of each hart
  shared_ram,  \* whose array the hart's accesses go to (NONE: its own)
  answer,      \* the bytes the last access returned
  touched      \* the offsets it used to index the array

vars == <<memory, shared_ram, answer, touched>>

TypeOK ==
  /\ memory \in [Harts -> [Offset -> Byte]]
  /\ shared_ram \in [Harts -> {0, NONE}]
  /\ answer \in Seq(Byte)
  /\ touched \subseteq Int

------------------------------------------------------------------------------
\* What indexing the array at o returns; behind its ends, whatever is there.
At(ram, o) == IF o \in Offset THEN ram[o] ELSE 255

rv32_cpu_ram(h) == IF shared_ram[h] = NONE THEN h ELSE shared_ram[h]
sync_ram == rv32_cpu_ram(0)

OffByOne(a, size) ==        \* mutant: - size is dropped
  RamBase <= a /\ a < (RamBase + RamSize + 1) % AddrSpace

InRam(a, size) == RamBase <= a /\ a < (RamBase + RamSize - size + 1) % AddrSpace

\* The array with the bytes of data from offset o.
PutAt(ram, o, data) ==
  [x \in Offset |-> IF x - o + 1 \in DOMAIN data THEN data[x - o + 1] ELSE ram[x]]

Used(o, n) == {o + i : i \in 0 .. (n - 1)}

\* rv32_cpu_read_mem of hart h, of len bytes at a.
Load(h, a, len) ==
  /\ answer' = [i \in 1 .. len |-> IF InRam(a, len)
                                     THEN At(memory[rv32_cpu_ram(h)], a - RamBase + i - 1)
                                     ELSE 0]
  /\ touched' = (IF InRam(a, len) THEN Used(a - RamBase, len) ELSE {})
  /\ UNCHANGED <<memory, shared_ram>>

\* rv32_cpu_write_mem of hart h.
Store(h, a, data) ==
  /\ IF InRam(a, Len(data))
       THEN /\ memory' = [memory EXCEPT ![rv32_cpu_ram(h)] = PutAt(@, a - RamBase, data)]
            /\ touched' = Used(a - RamBase, Len(data))
       ELSE UNCHANGED memory /\ touched' = {}
  /\ answer' = <<>> /\ UNCHANGED shared_ram

------------------------------------------------------------------------------
\* Offsets in RAM of the shared variables, each a word.
SMP_OFF_LOCK           == SyncBase - RamBase
SMP_OFF_WORK_ITEM      == SMP_OFF_LOCK + 4
SMP_OFF_WORK_READY     == SMP_OFF_LOCK + 8
SMP_OFF_SHARED_DONE    == SMP_OFF_LOCK + 12
SMP_OFF_IPI_PENDING(h) == SMP_OFF_LOCK + 16 + 4 * h
SMP_OFF_NUM_HARTS      == SMP_OFF_LOCK + 48

InSync(a) == SyncBase <= a /\ a < SyncBase + 64

Word(n) == <<n, 0, 0, 0>>

\* smp_deliver_ipi: three ram_write32.
smp_deliver_ipi(target, item) ==
  /\ memory' = [memory EXCEPT ![sync_ram] =
        PutAt(PutAt(PutAt(@, SMP_OFF_WORK_ITEM, Word(item)),
                    SMP_OFF_WORK_READY, Word(1)),
              SMP_OFF_IPI_PENDING(target), Word(1))]
  /\ touched' = Used(SMP_OFF_WORK_ITEM, 8) \cup Used(SMP_OFF_IPI_PENDING(target), 4)
  /\ answer' = <<>> /\ UNCHANGED shared_ram

smp_sync_ram_init(ram) ==
  PutAt(PutAt(ram, SMP_OFF_LOCK, [i \in 1 .. (16 + 4 * MaxHarts) |-> 0]),
        SMP_OFF_NUM_HARTS, Word(NumHarts))

\* smp_sync_on_counter_store: hart 0 has stored its counter.
CounterStore(item) ==
  /\ NumHarts > 1
  /\ smp_deliver_ipi((item % (NumHarts - 1)) + 1, item)

------------------------------------------------------------------------------
\* A byte for the debugger: sys_read_mem, and where it comes from.
Source(a) == IF InSync(a) THEN a - RamBase
             ELSE IF a = Ipi THEN SMP_OFF_SHARED_DONE ELSE a - RamBase
Reaches(a) == InSync(a) \/ a = Ipi \/ InRam(a, 1)

sys_read_mem(a) == IF Reaches(a) THEN At(memory[IF InSync(a) THEN sync_ram
                                                 ELSE rv32_cpu_ram(0)], Source(a))
                   ELSE 0

Nth(a, i) == (a + i - 1) % AddrSpace

\* m, and the reads of qSearch.
handle_read_memory(a, len) ==
  /\ answer' = [i \in 1 .. len |-> sys_read_mem(Nth(a, i))]
  /\ touched' = {Source(Nth(a, i)) : i \in {j \in 1 .. len : Reaches(Nth(a, j))}}
  /\ UNCHANGED <<memory, shared_ram>>

\* The array of hart r after a debugger's write of data from a, with the focus on f:
\* the place x gets the byte whose turn of the loop was its address's.
Written(r, f, a, data) ==
  [x \in Offset |->
     LET b == RamBase + x
         i == ((b - a) % AddrSpace) + 1
         to == IF InSync(b) THEN sync_ram ELSE rv32_cpu_ram(f)
      IN IF i \in DOMAIN data /\ to = r /\ (InSync(b) \/ InRam(b, 1))
           THEN data[i] ELSE memory[r][x]]

\* M and X.  Bytes sent to the device are lost: smp_sync_handle_mmio wants a word.
handle_write_memory(f, a, data) ==
  /\ memory' = [r \in Harts |-> Written(r, f, a, data)]
  /\ touched' = {Nth(a, i) - RamBase : i \in {j \in DOMAIN data :
                   InSync(Nth(a, j)) \/ InRam(Nth(a, j), 1)}}
  /\ answer' = <<>> /\ UNCHANGED shared_ram

OwnArray(h) == h            \* mutant: the pointer is set to the hart's own array
NoKeep(h) == NONE           \* mutant: rv32_cpu_reset clears the pointer
\* rv32_cpu_reset saves the pointer and puts it back; RAM stays as it is.
rv32_cpu_reset(h) == shared_ram[h]

\* R, gdb_reset.
gdb_reset ==
  /\ shared_ram' = [h \in Harts |-> rv32_cpu_reset(h)]
  /\ memory' = [memory EXCEPT ![sync_ram] = smp_sync_ram_init(@)]
  /\ answer' = <<>>
  /\ touched' = Used(SMP_OFF_LOCK, 16 + 4 * MaxHarts) \cup Used(SMP_OFF_NUM_HARTS, 4)

------------------------------------------------------------------------------
rv32_cpu_load_program(ram) ==
  IF Len(Program) <= RamSize THEN PutAt(ram, 0, Program) ELSE ram

\* init_system and create_test_program.
Init ==
  LET zero == [x \in Offset |-> 0]
   IN /\ memory = [h \in Harts |-> IF h = 0 THEN smp_sync_ram_init(rv32_cpu_load_program(zero))
                                   ELSE zero]
      /\ shared_ram = [h \in Harts |-> IF h > 0 THEN 0 ELSE NONE]
      /\ answer = <<>> /\ touched = {}

Next ==
  \/ \E h \in Harts, r \in Loads  : Load(h, r.addr, r.len)
  \/ \E h \in Harts, w \in Stores : Store(h, w.addr, w.data)
  \/ \E r \in Reads : handle_read_memory(r.addr, r.len)
  \/ \E f \in Harts, w \in Writes : handle_write_memory(f, w.addr, w.data)
  \/ \E n \in Items : CounterStore(n)
  \/ gdb_reset

Spec == Init /\ [][Next]_vars

------------------------------------------------------------------------------
\* No access indexes the array outside of its ends, whatever the address and the size
\* (the comparisons of rv32_cpu_read_mem, rv32_cpu_write_mem and the windows of main.c).
InBounds == touched \subseteq Offset

\* Harts, debugger and emulator work on one memory, before and after every reset:
\* what one of them reads is what another wrote last.
Memory == INSTANCE FlatMemory WITH
            cells  <- [a \in RamBase .. (RamBase + RamSize - 1) |-> memory[0][a - RamBase]],
            Ram    <- RamBase .. (RamBase + RamSize - 1),
            Shared <- SyncBase .. (SyncBase + 63),
            Done   <- SyncBase + 12
ImplementsFlatMemory == Memory!Spec
==============================================================================
