------------------------------ MODULE FlatMemory ------------------------------
(***************************************************************************)
(* What the harts and the debugger are promised of RAM: one memory, the    *)
(* same for all.  What anyone reads is what was written last, by whomever; *)
(* an instruction's access reaches all of its bytes or none; the emulator  *)
(* itself writes nothing but the variables the harts share with it.        *)
(***************************************************************************)
EXTENDS Integers, Sequences

CONSTANTS
  AddrSpace,     \* addresses are modulo this
  Ram,           \* addresses with memory behind them
  Byte,          \* values of a byte
  Shared,        \* addresses of the variables shared with the emulator
  Ipi, Done,     \* the device address, and what the debugger is shown there
  Loads, Reads,  \* [addr, len]: loads of the harts, reads of the debugger
  Stores, Writes \* [addr, data]

VARIABLES cells,    \* the contents
          answer    \* what the last access returned

vars == <<cells, answer>>

Fits(a, n) == \A i \in 0 .. (n - 1) : (a + i) \in Ram

\* The contents with data at addr and up, round the end of the address space.
Patched(addr, data) ==
  [a \in Ram |-> LET i == ((a - addr) % AddrSpace) + 1
                  IN IF i \in DOMAIN data THEN data[i] ELSE cells[a]]

Shown(a) == LET b == IF a = Ipi THEN Done ELSE a
             IN IF b \in Ram THEN cells[b] ELSE 0

HartLoads(a, n) ==
  /\ answer' = [i \in 1 .. n |-> IF Fits(a, n) THEN cells[a + i - 1] ELSE 0]
  /\ UNCHANGED cells

HartStores(a, data) ==
  /\ cells' = (IF Fits(a, Len(data)) THEN Patched(a, data) ELSE cells)
  /\ answer' = <<>>

DebuggerReads(a, n) ==
  /\ answer' = [i \in 1 .. n |-> Shown((a + i - 1) % AddrSpace)]
  /\ UNCHANGED cells

DebuggerWrites(a, data) == cells' = Patched(a, data) /\ answer' = <<>>

EmulatorWrites ==
  /\ cells' \in [Ram -> Byte] /\ \A a \in Ram \ Shared : cells'[a] = cells[a]
  /\ answer' = <<>>

Init == cells \in [Ram -> Byte] /\ answer = <<>>

Next ==
  \/ \E r \in Loads  : HartLoads(r.addr, r.len)
  \/ \E w \in Stores : HartStores(w.addr, w.data)
  \/ \E r \in Reads  : DebuggerReads(r.addr, r.len)
  \/ \E w \in Writes : DebuggerWrites(w.addr, w.data)
  \/ EmulatorWrites

Spec == Init /\ [][Next]_vars
==============================================================================
