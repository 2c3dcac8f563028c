----------------------------- MODULE ArmedPoints -----------------------------
(***************************************************************************)
(* What the stub's documentation promises of breakpoints and watchpoints,  *)
(* without tables: a set of armed breakpoints and a set of armed           *)
(* watchpoints.  A check answers from these sets alone, and a watchpoint   *)
(* is the set of bytes it covers.                                          *)
(*                                                                         *)
(* README.md of the source promises "Up to 64 concurrent breakpoints" and  *)
(* "Up to 32 watchpoints": an insertion is refused only while that many    *)
(* points are armed.  It also promises a "watch:" field for every          *)
(* watchpoint stop: whatever the watched address, a hit is a pending hit.  *)
(***************************************************************************)
EXTENDS Naturals, FiniteSets

CONSTANTS
  Addr,             \* target addresses used by the debugger and the program
  WatchAddr,        \* those of them the debugger watches
  AccessLen,        \* sizes in bytes of a watched range or of an access
  MaxBreakpoints,   \* MAX_BREAKPOINTS
  MaxWatchpoints    \* MAX_WATCHPOINTS

VARIABLES
  bpArmed,         \* the armed breakpoints
  wpArmed,         \* the armed watchpoints
  breakpoint_hit,  \* a breakpoint stop waits to be reported
  watch_hit,       \* the address of a watchpoint stop to be reported, or none
  result           \* outcome of the last operation

vars == <<bpArmed, wpArmed, breakpoint_hit, watch_hit, result>>

hitVars == <<breakpoint_hit, watch_hit>>

WatchTypes  == {2, 3, 4}
ReadTypes   == {3, 4}
WriteTypes  == {2, 4}

\* The access of len bytes at addr and the watched range share a byte.
Touches(w, addr, len) == \E b \in addr .. (addr + len - 1) :
                            w.addr <= b /\ b < w.addr + w.len

Init ==
  /\ bpArmed = {}
  /\ wpArmed = {}
  /\ breakpoint_hit = FALSE
  /\ watch_hit = {}
  /\ result = "OK"

\* There is room for a point that is armed already, and for a new one while
\* fewer than max are armed.
Room(armed, p, max) == p \in armed \/ Cardinality(armed) < max

\* What removing p may answer: success if p is armed; for a point that is not,
\* success and failure are both in order.
Removal(armed, p) == IF p \in armed THEN {"OK"} ELSE {"OK", "absent"}

InsertBreakpoint(a) ==
  /\ \/ /\ Room(bpArmed, a, MaxBreakpoints)
        /\ bpArmed' = bpArmed \cup {a} /\ result' = "OK"
     \/ /\ ~Room(bpArmed, a, MaxBreakpoints)
        /\ bpArmed' = bpArmed /\ result' = "full"
  /\ UNCHANGED <<wpArmed, hitVars>>

RemoveBreakpoint(a) ==
  /\ bpArmed' = bpArmed \ {a}
  /\ result' \in Removal(bpArmed, a)
  /\ UNCHANGED <<wpArmed, hitVars>>

InsertWatchpoint(w) ==
  /\ \/ /\ Room(wpArmed, w, MaxWatchpoints)
        /\ wpArmed' = wpArmed \cup {w} /\ result' = "OK"
     \/ /\ ~Room(wpArmed, w, MaxWatchpoints)
        /\ wpArmed' = wpArmed /\ result' = "full"
  /\ UNCHANGED <<bpArmed, hitVars>>

RemoveWatchpoint(w) ==
  /\ wpArmed' = wpArmed \ {w}
  /\ result' \in Removal(wpArmed, w)
  /\ UNCHANGED <<bpArmed, hitVars>>

\* A packet that names no point: refused, and nothing changes.
Refuse ==
  /\ result' = "malformed"
  /\ UNCHANGED <<bpArmed, wpArmed, hitVars>>

Reset ==
  /\ bpArmed' = {}
  /\ wpArmed' = {}
  /\ breakpoint_hit' = FALSE
  /\ result' = "OK"
  /\ UNCHANGED watch_hit

CheckBreakpoint(pc) ==
  /\ IF pc \in bpArmed
       THEN breakpoint_hit' = TRUE /\ result' = "hit"
       ELSE breakpoint_hit' = breakpoint_hit /\ result' = "miss"
  /\ UNCHANGED <<bpArmed, wpArmed, watch_hit>>

CheckWatchpoint(types, addr, len) ==
  /\ LET matching == {w \in wpArmed : w.type \in types /\ Touches(w, addr, len)}
     IN  \/ /\ matching = {}
            /\ result' = "miss"
            /\ UNCHANGED watch_hit
         \/ \E w \in matching : watch_hit' = {w.addr} /\ result' = "hit"
  /\ UNCHANGED <<bpArmed, wpArmed, breakpoint_hit>>

\* The stop reply reports one pending reason; a breakpoint comes first.
ReportStop ==
  /\ \/ /\ breakpoint_hit
        /\ breakpoint_hit' = FALSE
        /\ result' = "swbreak"
        /\ UNCHANGED watch_hit
     \/ /\ ~breakpoint_hit /\ watch_hit # {}
        /\ watch_hit' = {}
        /\ result' = "watch"
        /\ UNCHANGED breakpoint_hit
     \/ /\ ~breakpoint_hit /\ watch_hit = {}
        /\ result' = "plain"
        /\ UNCHANGED hitVars
  /\ UNCHANGED <<bpArmed, wpArmed>>

\* An inquiry that does not end a run: a watchpoint report may be consumed, a
\* breakpoint report is only noted.
Inquire(pc) ==
  \/ /\ result' = "plain"
     /\ UNCHANGED <<bpArmed, wpArmed, hitVars>>
  \/ /\ watch_hit # {}
     /\ watch_hit' = {}
     /\ result' = "watch"
     /\ UNCHANGED <<bpArmed, wpArmed, breakpoint_hit>>
  \/ watch_hit = {} /\ CheckBreakpoint(pc)

Next ==
  \/ \E a \in Addr : \/ InsertBreakpoint(a) \/ RemoveBreakpoint(a)
                     \/ CheckBreakpoint(a) \/ Inquire(a)
  \/ \E w \in [addr : WatchAddr, len : AccessLen, type : WatchTypes] :
        InsertWatchpoint(w) \/ RemoveWatchpoint(w)
  \/ \E a \in Addr, n \in AccessLen :
        CheckWatchpoint(ReadTypes, a, n) \/ CheckWatchpoint(WriteTypes, a, n)
  \/ Refuse \/ Reset \/ ReportStop

Spec == Init /\ [][Next]_vars
==============================================================================
