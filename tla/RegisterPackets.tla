--------------------------- MODULE RegisterPackets ---------------------------
(***************************************************************************)
(* Register contents on the wire: g, G, p, P and the pc in a stop reply,   *)
(* with the codecs of gdb_stub.c, seen by a debugger that keeps a copy of  *)
(* the registers as gdb does: what it has read or written is valid until   *)
(* the target runs, and from a stop reply it takes the pc.                 *)
(*                                                                         *)
(* A register is a number of RegBytes bytes, a byte two digits, and a      *)
(* packet the sequence of its digits.  x0 is hardwired to zero; the last   *)
(* register, number 32 in the protocol, is the pc.                         *)
(***************************************************************************)
EXTENDS Naturals, Sequences

CONSTANTS
  Digits,     \* 16
  RegBytes,   \* GDB_REG_HEX_BYTES, 4 or 8
  NumRegs,    \* 33: x0 .. x31 and the pc
  StopPcs,    \* whether the debugger takes the pc from a stop reply
  MaxSteps    \* bound on the runs of the target

ASSUME SizeAssumption == /\ Digits \in Nat \ {0, 1} /\ RegBytes \in Nat \ {0}
                         /\ NumRegs \in Nat \ {0, 1}
                         /\ StopPcs \in BOOLEAN /\ MaxSteps \in Nat

\* What a digit counts that has n digits below it, and so how many numbers n digits write.
Place[n \in Nat] == IF n = 0 THEN 1 ELSE Digits * Place[n - 1]

ByteValues == Digits * Digits
RegValues  == Place[2 * RegBytes]
Value  == 0 .. (RegValues - 1)
PC     == NumRegs - 1
RegNum == 0 .. PC
Digit  == 0 .. (Digits - 1)

VARIABLES
  regs,     \* the registers of the hart in focus
  tx,       \* the stub's answer on its way to the debugger
  asked,    \* what the debugger asked for: [cmd, num, value]
  copy,     \* the debugger's copy of the registers, NoValue where it has none
  steps     \* runs so far

vars == <<regs, tx, asked, copy, steps>>

NoValue == RegValues

TypeOK ==
  /\ regs \in [RegNum -> Value] /\ regs[0] = 0
  /\ tx \in Seq(Digit)
  /\ asked \in [cmd : {"", "run", "g", "G", "p", "P"}, num : RegNum, value : Value]
  /\ copy \in [RegNum -> Value \cup {NoValue}]
  /\ steps \in 0 .. MaxSteps

(***************************************************************************)
(* The codecs.                                                             *)
(***************************************************************************)
Unmasked(value, i) == value \div Place[2 * i]             \* mutant: & 0xFF dropped
ByteOf(value, i) == (value \div Place[2 * i]) % ByteValues

\* encode_hex for a whole register: least significant byte first.
encode_hex(value) ==
  [d \in 1 .. 2 * RegBytes |->
     LET byte == ByteOf(value, (d - 1) \div 2)
     IN  IF d % 2 = 1 THEN byte \div Digits ELSE byte % Digits]

\* "%0*x" of a number, as in GDB_ADDR_HEX_FMT: most significant digit first.
format_addr(value) ==
  [d \in 1 .. 2 * RegBytes |-> (value \div Place[2 * RegBytes - d]) % Digits]

ParseSwapped(str) ==     \* mutant: the two digits of a byte swapped
  LET sum[i \in 0 .. (Len(str) \div 2)] ==
        IF i = 0 THEN 0
        ELSE sum[i - 1] + (str[2 * i] * Digits + str[2 * i - 1]) * Place[2 * (i - 1)]
  IN  sum[Len(str) \div 2]

parse_hex_le(str) ==
  LET sum[i \in 0 .. (Len(str) \div 2)] ==
        IF i = 0 THEN 0
        ELSE sum[i - 1] + (str[2 * i - 1] * Digits + str[2 * i]) * Place[2 * (i - 1)]
  IN  sum[Len(str) \div 2]

Chars == 2 * RegBytes     \* GDB_REG_HEX_CHARS
Field(packet, i) == SubSeq(packet, i * Chars + 1, (i + 1) * Chars)

\* A packet of all registers, x0 first.
AllRegs(rs) == [d \in 1 .. NumRegs * Chars |->
                  encode_hex(rs[(d - 1) \div Chars])[((d - 1) % Chars) + 1]]

(***************************************************************************)
(* The emulator's callbacks.                                               *)
(***************************************************************************)
rv32_cpu_read_reg(r) == IF r = 0 THEN 0 ELSE regs[r]

rv32_cpu_write_reg(rs, r, value) == IF r = 0 THEN rs ELSE [rs EXCEPT ![r] = value]

(***************************************************************************)
(* The handlers.                                                           *)
(***************************************************************************)
Answers(cmd) == asked.cmd = cmd /\ tx = <<>>

handle_read_registers ==
  /\ Answers("g")
  /\ tx' = AllRegs([r \in RegNum |-> rv32_cpu_read_reg(r)])
  /\ UNCHANGED <<regs, asked, copy, steps>>

handle_read_single_register ==
  /\ Answers("p")
  /\ tx' = encode_hex(rv32_cpu_read_reg(asked.num))
  /\ UNCHANGED <<regs, asked, copy, steps>>

\* The packet of G holds the debugger's copy, with one register replaced.
handle_write_registers ==
  /\ Answers("G")
  /\ LET packet == AllRegs([copy EXCEPT ![asked.num] = asked.value])
     IN  regs' = [r \in RegNum |-> rv32_cpu_write_reg(regs, r, parse_hex_le(Field(packet, r)))[r]]
  /\ tx' = <<0>>                                         \* OK
  /\ UNCHANGED <<asked, copy, steps>>

handle_write_single_register ==
  /\ Answers("P")
  /\ regs' = rv32_cpu_write_reg(regs, asked.num, parse_hex_le(encode_hex(asked.value)))
  /\ tx' = <<0>>
  /\ UNCHANGED <<asked, copy, steps>>

\* The target runs; a stop reply of format_stop_reply without swbreak and watch fields
\* carries the pc if that is not 0.
RunAndStop ==
  /\ Answers("run") /\ steps < MaxSteps
  /\ \E r \in RegNum \ {0}, value \in Value : regs' = [regs EXCEPT ![r] = value]
  /\ \/ regs'[PC] # 0 /\ tx' = format_addr(regs'[PC])
     \/ tx' = <<0>>
  /\ steps' = steps + 1
  /\ UNCHANGED <<asked, copy>>

(***************************************************************************)
(* The debugger.                                                           *)
(***************************************************************************)
Ask(cmd, num, value) ==
  /\ asked.cmd = ""
  /\ cmd = "G" => \A r \in RegNum : copy[r] # NoValue
  /\ cmd = "run" => steps < MaxSteps
  /\ asked' = [cmd |-> cmd, num |-> num, value |-> value]
  /\ UNCHANGED <<regs, tx, copy, steps>>

\* x0 is not written: gdb knows it to be constant.
ClientAsks ==
  \/ \E r \in RegNum : Ask("p", r, 0)
  \/ \E r \in RegNum \ {0}, value \in Value : Ask("P", r, value) \/ Ask("G", r, value)
  \/ \E cmd \in {"g", "run"} : Ask(cmd, 0, 0)

ClientTakesAnswer ==
  /\ tx # <<>>
  /\ copy' =
       CASE asked.cmd = "g" -> [r \in RegNum |-> parse_hex_le(Field(tx, r))]
         [] asked.cmd = "p" -> [copy EXCEPT ![asked.num] = parse_hex_le(tx)]
         [] asked.cmd \in {"P", "G"} -> [copy EXCEPT ![asked.num] = asked.value]
         [] OTHER -> [r \in RegNum |-> IF r = PC /\ StopPcs /\ Len(tx) = Chars THEN parse_hex_le(tx)
                                              ELSE NoValue]
  /\ tx' = <<>> /\ asked' = [cmd |-> "", num |-> 0, value |-> 0]
  /\ UNCHANGED <<regs, steps>>

------------------------------------------------------------------------------
Init ==
  /\ regs = [r \in RegNum |-> 0]
  /\ tx = <<>> /\ asked = [cmd |-> "", num |-> 0, value |-> 0]
  /\ copy = [r \in RegNum |-> NoValue] /\ steps = 0

Stub == \/ handle_read_registers \/ handle_read_single_register
        \/ handle_write_registers \/ handle_write_single_register
        \/ RunAndStop

Next == Stub \/ ClientAsks \/ ClientTakesAnswer

Spec == Init /\ [][Next]_vars

------------------------------------------------------------------------------
Settled == asked.cmd = ""

\* Whatever was read or written, in whatever order, and however the target changed its
\* registers in between: the debugger's copy of a register is the register.
CopyTrue == Settled => \A r \in RegNum : copy[r] \in {regs[r], NoValue}
==============================================================================
