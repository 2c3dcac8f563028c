----------------------------- MODULE PointTables -----------------------------
(***************************************************************************)
(* The breakpoint and watchpoint tables of gdb_stub.c: two fixed arrays    *)
(* with a fill count.  A slot, once taken, is never given back: removal    *)
(* only clears its enabled flag, and clearing a table resets the count.    *)
(*                                                                         *)
(* Only the slots below the count are ever read, so a table is modelled by *)
(* the sequence of those slots and its count by the sequence's length.  A  *)
(* breakpoint's key is its address; a watchpoint's key is the record of    *)
(* its address, length and type.  Addresses are 32 bits wide (the build    *)
(* defines GDB_STUB_RISCV32) and range ends are computed in 64 bits, so    *)
(* the range arithmetic is exact and naturals model it.                    *)
(***************************************************************************)
EXTENDS Naturals, Sequences, FiniteSets

CONSTANTS
  Addr,             \* target addresses used by the debugger and the program
  WatchAddr,        \* those of them the debugger watches
  PacketLen,        \* lengths a Z/z packet may carry, zero included
  MaxBreakpoints,   \* MAX_BREAKPOINTS
  MaxWatchpoints,   \* MAX_WATCHPOINTS
  Frugal            \* TRUE: the debugger never counts on a removed point's slot

ASSUME AddrAssumption == Addr \subseteq Nat /\ WatchAddr \subseteq Addr
ASSUME LenAssumption  == PacketLen \subseteq Nat
ASSUME MaxAssumption  == MaxBreakpoints \in Nat /\ MaxWatchpoints \in Nat

VARIABLES
  breakpoints,            \* slots 0 .. breakpoint_count - 1
  watchpoints,            \* slots 0 .. watchpoint_count - 1
  breakpoint_hit,
  last_watchpoint_addr,
  result                  \* return value or reply of the last call

vars == <<breakpoints, watchpoints, breakpoint_hit, last_watchpoint_addr, result>>

DefaultLen  == 4
AccessLen   == (PacketLen \ {0}) \cup {DefaultLen}
WatchTypes  == {2, 3, 4}   \* WATCHPOINT_WRITE, _READ, _ACCESS
ReadTypes   == {3, 4}
WriteTypes  == {2, 4}
WatchKey    == [addr : WatchAddr, len : AccessLen, type : WatchTypes]
Slot(K)     == [key : K, enabled : BOOLEAN]
\* A failed insertion, a failed removal and a packet without a point all get E01
\* (or an empty reply); they are told apart here.
Results     == {"OK", "full", "absent", "malformed", "hit", "miss", "swbreak", "watch", "plain"}

TypeOK ==
  /\ breakpoints \in Seq(Slot(Addr)) /\ Len(breakpoints) <= MaxBreakpoints
  /\ watchpoints \in Seq(Slot(WatchKey)) /\ Len(watchpoints) <= MaxWatchpoints
  /\ breakpoint_hit \in BOOLEAN
  /\ last_watchpoint_addr \in WatchAddr \cup {0}
  /\ result \in Results

(***************************************************************************)
(* The table operations, shared by the two tables.                         *)
(***************************************************************************)
Holds(table, k) == \E i \in DOMAIN table : table[i].key = k

\* The loops scan from slot 0 and stop at the first match.
FirstSlot(table, k) ==
  CHOOSE i \in DOMAIN table :
     table[i].key = k /\ \A j \in DOMAIN table : j < i => table[j].key # k

SetEnabled(table, k, b) ==
  LET s == FirstSlot(table, k)
  IN  [i \in DOMAIN table |->
         IF i = s THEN [key |-> k, enabled |-> b] ELSE table[i]]

NoLookup(table, k, max) ==      \* mutant: the search for an existing slot dropped
  IF Len(table) >= max THEN table ELSE Append(table, [key |-> k, enabled |-> TRUE])

FullTooLate(table, k, max) ==   \* mutant: capacity test off by one
  IF Len(table) > max THEN table
  ELSE IF Holds(table, k) THEN SetEnabled(table, k, TRUE)
  ELSE Append(table, [key |-> k, enabled |-> TRUE])

AddSlot(table, k, max) ==
  IF Len(table) >= max THEN table
  ELSE IF Holds(table, k) THEN SetEnabled(table, k, TRUE)
  ELSE Append(table, [key |-> k, enabled |-> TRUE])

AddResult(table, max) == IF Len(table) >= max THEN "full" ELSE "OK"

ReleaseLast(table, k) ==        \* mutant: removal also gives back the last slot
  IF Holds(table, k)
    THEN SubSeq(SetEnabled(table, k, FALSE), 1, Len(table) - 1)
    ELSE table

RemoveSlot(table, k) == IF Holds(table, k) THEN SetEnabled(table, k, FALSE) ELSE table

RemoveResult(table, k) == IF Holds(table, k) THEN "OK" ELSE "absent"

ranges_overlap(addr1, len1, addr2, len2) ==
  /\ len1 # 0 /\ len2 # 0
  /\ addr1 < addr2 + len2
  /\ addr2 < addr1 + len1

(***************************************************************************)
(* handle_breakpoint: Z (insert) and z (remove) packets.                   *)
(***************************************************************************)
gdb_stub_add_breakpoint(a) ==
  /\ breakpoints' = AddSlot(breakpoints, a, MaxBreakpoints)
  /\ result' = AddResult(breakpoints, MaxBreakpoints)
  /\ UNCHANGED <<watchpoints, breakpoint_hit, last_watchpoint_addr>>

gdb_stub_remove_breakpoint(a) ==
  /\ breakpoints' = RemoveSlot(breakpoints, a)
  /\ result' = RemoveResult(breakpoints, a)
  /\ UNCHANGED <<watchpoints, breakpoint_hit, last_watchpoint_addr>>

\* A watchpoint packet with length zero watches DefaultLen bytes.
WatchKeyOf(a, n, t) == [addr |-> a, len |-> IF n = 0 THEN DefaultLen ELSE n, type |-> t]

gdb_stub_add_watchpoint(a, n, t) ==
  /\ watchpoints' = AddSlot(watchpoints, WatchKeyOf(a, n, t), MaxWatchpoints)
  /\ result' = AddResult(watchpoints, MaxWatchpoints)
  /\ UNCHANGED <<breakpoints, breakpoint_hit, last_watchpoint_addr>>

gdb_stub_remove_watchpoint(a, n, t) ==
  /\ watchpoints' = RemoveSlot(watchpoints, WatchKeyOf(a, n, t))
  /\ result' = RemoveResult(watchpoints, WatchKeyOf(a, n, t))
  /\ UNCHANGED <<breakpoints, breakpoint_hit, last_watchpoint_addr>>

\* A packet with a comma missing gets E01, one with an unknown type an empty reply.
RejectPacket ==
  /\ result' = "malformed"
  /\ UNCHANGED <<breakpoints, watchpoints, breakpoint_hit, last_watchpoint_addr>>

\* A frugal debugger inserts a point while a slot is free, or when every slot
\* is armed with another point: never where the table is full with a slot that
\* a removal has left unused, or with the point itself.
Affords(table, k, max) ==
  Frugal => \/ Len(table) < max
            \/ ~Holds(table, k) /\ \A i \in DOMAIN table : table[i].enabled

handle_breakpoint ==
  \/ \E a \in Addr : \/ /\ Affords(breakpoints, a, MaxBreakpoints)
                        /\ gdb_stub_add_breakpoint(a)
                     \/ gdb_stub_remove_breakpoint(a)
  \/ \E a \in WatchAddr, n \in PacketLen, t \in WatchTypes :
        \/ /\ Affords(watchpoints, WatchKeyOf(a, n, t), MaxWatchpoints)
           /\ gdb_stub_add_watchpoint(a, n, t)
        \/ gdb_stub_remove_watchpoint(a, n, t)
  \/ RejectPacket

\* handle_reset empties both tables; a pending watchpoint report survives it.
handle_reset ==
  /\ breakpoints' = <<>>
  /\ watchpoints' = <<>>
  /\ breakpoint_hit' = FALSE
  /\ result' = "OK"
  /\ UNCHANGED last_watchpoint_addr

(***************************************************************************)
(* The checks made by the run loop and by every memory access.             *)
(***************************************************************************)
gdb_stub_check_breakpoint(pc) ==
  /\ IF \E i \in DOMAIN breakpoints : breakpoints[i].enabled /\ breakpoints[i].key = pc
       THEN breakpoint_hit' = TRUE /\ result' = "hit"
       ELSE breakpoint_hit' = breakpoint_hit /\ result' = "miss"
  /\ UNCHANGED <<breakpoints, watchpoints, last_watchpoint_addr>>

Covers(slot, types, a, n) ==
  /\ slot.enabled
  /\ slot.key.type \in types
  /\ ranges_overlap(a, n, slot.key.addr, slot.key.len)

CheckWatchpoint(types, a, n) ==
  LET matching == {i \in DOMAIN watchpoints : Covers(watchpoints[i], types, a, n)}
      first    == CHOOSE i \in matching : \A j \in matching : i <= j
  IN  /\ IF matching = {}
           THEN result' = "miss" /\ UNCHANGED last_watchpoint_addr
           ELSE result' = "hit" /\ last_watchpoint_addr' = watchpoints[first].key.addr
      /\ UNCHANGED <<breakpoints, watchpoints, breakpoint_hit>>

gdb_stub_check_watchpoint_read(a, n)  == CheckWatchpoint(ReadTypes, a, n)
gdb_stub_check_watchpoint_write(a, n) == CheckWatchpoint(WriteTypes, a, n)

\* The flags gdb_stub_send_stop_reason consumes, in its order of preference.
gdb_stub_send_stop_reason ==
  /\ \/ /\ breakpoint_hit
        /\ breakpoint_hit' = FALSE
        /\ result' = "swbreak"
        /\ UNCHANGED last_watchpoint_addr
     \/ /\ ~breakpoint_hit /\ last_watchpoint_addr # 0
        /\ last_watchpoint_addr' = 0
        /\ result' = "watch"
        /\ UNCHANGED breakpoint_hit
     \/ /\ ~breakpoint_hit /\ last_watchpoint_addr = 0
        /\ result' = "plain"
        /\ UNCHANGED <<breakpoint_hit, last_watchpoint_addr>>
  /\ UNCHANGED <<breakpoints, watchpoints>>

\* "?" consumes a pending watchpoint first, and its breakpoint test leaves
\* breakpoint_hit set.  While single_step is pending it looks at neither.
handle_halt_reason(single_step, pc) ==
  \/ /\ single_step
     /\ result' = "plain"
     /\ UNCHANGED <<breakpoints, watchpoints, breakpoint_hit, last_watchpoint_addr>>
  \/ /\ ~single_step /\ last_watchpoint_addr # 0
     /\ last_watchpoint_addr' = 0
     /\ result' = "watch"
     /\ UNCHANGED <<breakpoints, watchpoints, breakpoint_hit>>
  \/ ~single_step /\ last_watchpoint_addr = 0 /\ gdb_stub_check_breakpoint(pc)

------------------------------------------------------------------------------
\* gdb_stub_init zeroes the context.
Init ==
  /\ breakpoints = <<>>
  /\ watchpoints = <<>>
  /\ breakpoint_hit = FALSE
  /\ last_watchpoint_addr = 0
  /\ result = "OK"

Next ==
  \/ handle_breakpoint
  \/ handle_reset
  \/ \E pc \in Addr : gdb_stub_check_breakpoint(pc)
  \/ \E a \in Addr, n \in AccessLen :
        gdb_stub_check_watchpoint_read(a, n) \/ gdb_stub_check_watchpoint_write(a, n)
  \/ gdb_stub_send_stop_reason
  \/ \E single_step \in BOOLEAN, pc \in Addr : handle_halt_reason(single_step, pc)

Spec == Init /\ [][Next]_vars

------------------------------------------------------------------------------
Distinct(table) == \A i, j \in DOMAIN table : table[i].key = table[j].key => i = j

\* Insertion never gives a point two slots (gdb_stub_add_breakpoint and
\* gdb_stub_add_watchpoint look for the point first), so that disabling the
\* first matching slot really disarms it.
NoDuplicateSlots == Distinct(breakpoints) /\ Distinct(watchpoints)

Armed(table) == {table[i].key : i \in {j \in DOMAIN table : table[j].enabled}}

\* last_watchpoint_addr holds the address of the hit to be reported, 0 for none.
Points == INSTANCE ArmedPoints WITH
            bpArmed   <- Armed(breakpoints),
            wpArmed   <- Armed(watchpoints),
            watch_hit <- {last_watchpoint_addr} \ {0}

\* The tables behave as the documentation's sets of armed points: a check hits
\* exactly the points inserted and not removed since the last reset, a watched
\* range is hit by every access that shares a byte with it and by no other, a
\* hit is reported, and an insertion is refused only at capacity.  The code
\* keeps this promise for a frugal debugger that does not watch address 0.
ImplementsArmedPoints == Points!Spec
==============================================================================
