------------------------------ MODULE BinaryWrite ------------------------------
(***************************************************************************)
(* X, the binary write: decode_rsp_binary and handle_write_memory_binary   *)
(* of gdb_stub.c, loop by loop, on the payload behind the colon.  Bytes    *)
(* are real bytes.  The payload is a C string: a zero byte ends it.        *)
(*                                                                         *)
(* The debugger sends data with the bytes $, #, } and * escaped; data with *)
(* runs encoded as the protocol does it, a repeat count n as the byte      *)
(* n + 29 behind a *; or a payload that encodes nothing.                   *)
(***************************************************************************)
EXTENDS Integers, Sequences, SequencesExt

CONSTANTS
  BufSize,    \* GDB_BUFFER_SIZE
  AddrSpace,  \* addresses are modulo this
  Ram,        \* addresses with memory behind them
  Packets,    \* bound on the packets of a behaviour
  Requests    \* [addr, len, kind, data, payload]: what the debugger sends

NUL   == 0
STAR  == 42
BRACE == 125
Byte  == 0 .. 255

Request == [addr : 0 .. (AddrSpace - 1), len : Nat, kind : {"escaped", "raw"},
            data : Seq(Byte), payload : Seq(Byte)]

ASSUME SizeAssumption ==
  /\ BufSize \in Nat /\ AddrSpace \in Nat \ {0} /\ BufSize <= AddrSpace
  /\ Ram \subseteq 0 .. (AddrSpace - 1)
  /\ Packets \in Nat
ASSUME RequestsAssumption == Requests \subseteq Request

VARIABLES
  mem,       \* the contents of RAM
  before,    \* the contents before the packet
  request,   \* the packet being answered
  phase,     \* where the handler is
  p,         \* the position in the payload, as the pointer p of decode_rsp_binary
  dst,       \* the bytes decoded so far
  stored,    \* how many of them were written
  reply,
  sent       \* packets sent so far

vars == <<mem, before, request, phase, p, dst, stored, reply, sent>>

TypeOK ==
  /\ mem \in [Ram -> Byte] /\ before \in [Ram -> Byte]
  /\ request \in Requests
  /\ phase \in {"idle", "check", "decode", "store", "answered"}
  /\ p \in 1 .. (Len(request.payload) + 1)
  /\ dst \in Seq(Byte)
  /\ stored \in 0 .. Len(dst)
  /\ reply \in {"OK", "E02", "E03"}
  /\ sent \in 0 .. Packets

Xor20(b) == IF (b \div 32) % 2 = 1 THEN b - 32 ELSE b + 32

\* What gdb makes of data: remote_escape_output of a debugger, not of the stub.
Escaped(data) ==
  FlattenSeq([i \in DOMAIN data |-> IF data[i] \in {35, 36, STAR, BRACE}
                                      THEN <<BRACE, Xor20(data[i])>> ELSE <<data[i]>>])

AtEnd(q) == q \in DOMAIN request.payload => request.payload[q] = NUL

Room == request.len - Len(dst)

NoCap(count) == [i \in 1 .. count |-> dst[Len(dst)]]      \* mutant: di < dst_len dropped
RunOf(count) ==
  [i \in 1 .. (IF count < Room THEN count ELSE Room) |-> dst[Len(dst)]]

Answer(r) == phase' = "answered" /\ reply' = r

\* m with the bytes of data at addr.
Patched(m, addr, data) ==
  [a \in Ram |-> LET i == ((a - addr) % AddrSpace) + 1
                  IN IF i \in DOMAIN data THEN data[i] ELSE m[a]]

Check ==
  /\ phase = "check"
  /\ IF request.len = 0 \/ request.len > BufSize
       THEN Answer("E02")
       ELSE phase' = "decode" /\ UNCHANGED reply
  /\ UNCHANGED <<mem, before, request, p, dst, stored, sent>>

\* One turn of the while loop of decode_rsp_binary.
Decoding(c) == phase = "decode" /\ Room > 0 /\ ~AtEnd(p) /\ request.payload[p] = c

Run ==
  /\ Decoding(STAR)
  /\ IF dst = <<>> \/ AtEnd(p + 1)
       THEN Answer("E03") /\ UNCHANGED <<p, dst>>
       ELSE /\ dst' = dst \o RunOf(request.payload[p + 1])
            /\ p' = p + 2 /\ UNCHANGED <<phase, reply>>
  /\ UNCHANGED <<mem, before, request, stored, sent>>

KeptEscape ==        \* mutant: the escaped byte is not restored
  /\ Decoding(BRACE)
  /\ IF AtEnd(p + 1)
       THEN Answer("E03") /\ UNCHANGED <<p, dst>>
       ELSE /\ dst' = Append(dst, request.payload[p + 1])
            /\ p' = p + 2 /\ UNCHANGED <<phase, reply>>
  /\ UNCHANGED <<mem, before, request, stored, sent>>

Unchecked ==         \* mutant: an escape at the end of the payload is taken
  /\ Decoding(BRACE)
  /\ dst' = Append(dst, Xor20(IF AtEnd(p + 1) THEN NUL ELSE request.payload[p + 1]))
  /\ p' = p + 2 /\ UNCHANGED <<mem, before, request, phase, stored, reply, sent>>

Escape ==
  /\ Decoding(BRACE)
  /\ IF AtEnd(p + 1)
       THEN Answer("E03") /\ UNCHANGED <<p, dst>>
       ELSE /\ dst' = Append(dst, Xor20(request.payload[p + 1]))
            /\ p' = p + 2 /\ UNCHANGED <<phase, reply>>
  /\ UNCHANGED <<mem, before, request, stored, sent>>

Plain ==
  /\ \E c \in Byte \ {STAR, BRACE} : Decoding(c) /\ dst' = Append(dst, c)
  /\ p' = p + 1
  /\ UNCHANGED <<mem, before, request, phase, stored, reply, sent>>

Short ==             \* mutant: the bytes of a payload that is too short are written
  /\ phase = "decode" /\ (Room = 0 \/ AtEnd(p))
  /\ IF Room = 0
       THEN phase' = "store" /\ UNCHANGED <<mem, reply>>
       ELSE Answer("E03") /\ mem' = Patched(mem, request.addr, dst)
  /\ UNCHANGED <<before, request, p, dst, stored, sent>>

DecodeEnds ==
  /\ phase = "decode" /\ (Room = 0 \/ AtEnd(p))
  /\ IF Room = 0 THEN phase' = "store" /\ UNCHANGED reply ELSE Answer("E03")
  /\ UNCHANGED <<mem, before, request, p, dst, stored, sent>>

write_mem(m, a, b) == IF a \in Ram THEN [m EXCEPT ![a] = b] ELSE m

\* One turn of the loop over write_mem, and the answer behind it.
Store ==
  /\ phase = "store"
  /\ \/ /\ stored < request.len
        /\ mem' = write_mem(mem, (request.addr + stored) % AddrSpace, dst[stored + 1])
        /\ stored' = stored + 1
        /\ UNCHANGED <<phase, reply>>
     \/ stored = request.len /\ Answer("OK") /\ UNCHANGED <<mem, stored>>
  /\ UNCHANGED <<before, request, p, dst, sent>>

ClientAsks(r) ==
  /\ phase \in {"idle", "answered"} /\ sent < Packets /\ sent' = sent + 1
  /\ phase' = "check" /\ request' = r /\ before' = mem
  /\ p' = 1 /\ dst' = <<>> /\ stored' = 0
  /\ UNCHANGED <<mem, reply>>

------------------------------------------------------------------------------
Init ==
  /\ mem = [a \in Ram |-> 0] /\ before = mem
  /\ request \in Requests /\ phase = "idle"
  /\ p = 1 /\ dst = <<>> /\ stored = 0 /\ reply = "OK" /\ sent = 0

handle_write_memory_binary == Check \/ Run \/ Escape \/ Plain \/ DecodeEnds \/ Store

Next == handle_write_memory_binary \/ \E r \in Requests : ClientAsks(r)

Spec == Init /\ [][Next]_vars

------------------------------------------------------------------------------
\* The decoder never writes behind the length the packet asked for.
NoOverflow == Len(dst) <= request.len

\* A packet is carried out or it changes nothing: until the whole payload is decoded no
\* byte is written, and an error leaves memory as it was.
AllOrNothing ==
  /\ phase \in {"check", "decode"} \/ (phase = "answered" /\ reply # "OK") => mem = before
  /\ phase = "answered" /\ reply = "OK" =>
       Len(dst) = request.len /\ mem = Patched(before, request.addr, dst)

\* Data the debugger has encoded is written as it was.
WrittenAsSent ==
  phase = "answered" /\ request.kind = "escaped" =>
    reply = "OK" /\ mem = Patched(before, request.addr, request.data)
==============================================================================
