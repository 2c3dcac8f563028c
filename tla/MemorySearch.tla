----------------------------- MODULE MemorySearch -----------------------------
(***************************************************************************)
(* qSearch:memory, handle_search_memory of gdb_stub.c: a scan of a window  *)
(* of the address space for a pattern, with addresses of the width of      *)
(* gdb_addr_t.  What lies outside of RAM reads as zero.                    *)
(***************************************************************************)
EXTENDS Naturals, Sequences

CONSTANTS
  AddrSpace,   \* 2^32, or 2^64 in a 64-bit build: addresses are modulo this
  Ram,         \* addresses with memory behind them
  Byte,        \* values of a byte
  Requests     \* what the debugger asks for

Addr == 0 .. (AddrSpace - 1)

\* separator is what stands between the fields of the packet.
Request == [start : Addr, len : Addr, pattern : Seq(Byte), separator : {":", ";"}]

ASSUME SpaceAssumption == AddrSpace \in Nat \ {0} /\ Ram \subseteq Addr
ASSUME ByteAssumption == 0 \in Byte
ASSUME RequestsAssumption == Requests \subseteq Request

VARIABLES
  mem,       \* the contents of RAM
  request,   \* the packet being answered
  phase,     \* where handle_search_memory is
  addr,      \* its loop variable
  reply      \* "E01", "0" (not found), or "1" for 1,<addr>

vars == <<mem, request, phase, addr, reply>>

TypeOK ==
  /\ mem \in [Ram -> Byte]
  /\ request \in Request
  /\ phase \in {"idle", "parse", "scan", "answered"}
  /\ addr \in Addr
  /\ reply \in {"E01", "0", "1"}

Wider(n) == n              \* mutant: kept in a wider type
Wrap(n) == n % AddrSpace

read_mem(a) == IF a \in Ram THEN mem[a] ELSE 0

pattern_len == Len(request.pattern)

Matches(a) ==
  \A i \in 1 .. pattern_len : request.pattern[i] = read_mem(Wrap(a + (i - 1)))

LastPastEnd == Wrap(request.start + request.len)   \* mutant: pattern length not subtracted
LastClamped ==                                     \* mutant: the window ends with the space
  IF request.start + request.len - pattern_len < AddrSpace
    THEN request.start + request.len - pattern_len ELSE AddrSpace - 1
LastStart == Wrap(request.start + request.len - pattern_len)

Answer(r) == phase' = "answered" /\ reply' = r

handle_search_memory ==
  /\ phase = "parse"
  /\ \/ /\ request.separator # ":"
        /\ Answer("E01") /\ UNCHANGED addr
     \/ /\ request.separator = ":"
        /\ pattern_len = 0 \/ request.len < pattern_len
        /\ Answer("0") /\ UNCHANGED addr
     \/ /\ request.separator = ":"
        /\ pattern_len # 0 /\ request.len >= pattern_len
        /\ addr' = request.start /\ phase' = "scan" /\ UNCHANGED reply
  /\ UNCHANGED <<mem, request>>

\* One turn of the loop over the addresses.
Scan ==
  /\ phase = "scan"
  /\ \/ addr > LastStart /\ Answer("0") /\ UNCHANGED addr
     \/ addr <= LastStart /\ Matches(addr) /\ Answer("1") /\ UNCHANGED addr
     \/ addr <= LastStart /\ ~Matches(addr) /\ addr' = Wrap(addr + 1) /\ UNCHANGED <<phase, reply>>
  /\ UNCHANGED <<mem, request>>

\* The debugger, while no packet is being answered: it writes memory, or searches it.
ClientWrites(a, b) ==
  /\ phase = "idle" /\ mem' = [mem EXCEPT ![a] = b]
  /\ UNCHANGED <<request, phase, addr, reply>>

ClientSearches(r) ==
  /\ phase = "idle" /\ phase' = "parse" /\ request' = r
  /\ UNCHANGED <<mem, addr, reply>>

ClientTakesAnswer ==
  /\ phase = "answered" /\ phase' = "idle"
  /\ UNCHANGED <<mem, request, addr, reply>>

------------------------------------------------------------------------------
Init ==
  /\ mem = [a \in Ram |-> 0]
  /\ request = [start |-> 0, len |-> 0, pattern |-> <<>>, separator |-> ":"]
  /\ phase = "idle" /\ addr = 0 /\ reply = "0"

Stub == handle_search_memory \/ Scan

Client ==
  \/ \E a \in Ram, b \in Byte : ClientWrites(a, b)
  \/ \E r \in Requests : ClientSearches(r)
  \/ ClientTakesAnswer

Next == Stub \/ Client

Spec == Init /\ [][Next]_vars

\* The handler is straight-line code: nothing holds it up.
FairSpec == Spec /\ WF_vars(Stub)

------------------------------------------------------------------------------
\* The window lies within the address space.
Bounded == request.start + request.len <= AddrSpace

\* The places where the pattern could start.
Window == {a \in Addr : a >= request.start /\ a + pattern_len <= request.start + request.len}

\* A search reports the first place in its window where the pattern starts, and
\* reports nothing only if there is none.
FirstMatch ==
  phase = "answered" /\ Bounded /\ request.separator = ":" /\ pattern_len > 0 =>
    \/ /\ reply = "1" /\ addr \in Window /\ Matches(addr)
       /\ \A a \in Window : a < addr => ~Matches(a)
    \/ reply = "0" /\ \A a \in Window : ~Matches(a)

\* Every search is answered.
SearchEnds == phase = "parse" ~> phase = "answered"
==============================================================================
