------------------------------ MODULE RunControl ------------------------------
(***************************************************************************)
(* Run control: the packet handlers of gdb_stub.c that start, stop and     *)
(* direct execution, the emulator's main loop with its single-step and     *)
(* run-all paths (main.c), the SIGINT handler that may interrupt it at any *)
(* point, and a debugger that sends packets and waits for their answers.   *)
(*                                                                         *)
(* Left to other modules: the tables behind the armed points (PointTables, *)
(* which is proved to behave as the sets used here) and packet framing.    *)
(* Instructions are abstract: a step moves the program counter anywhere in *)
(* CodeAddr, may touch one data address, and may trap or be illegal.       *)
(***************************************************************************)
EXTENDS Integers, Sequences

CONSTANTS
  NumHarts,     \* g_sys.num_harts
  CodeAddr,     \* addresses a program counter can take
  DataAddr,     \* addresses a load or a store can touch
  EntryAddr,    \* RAM_BASE, where hart 0 starts
  PollAddr,     \* SMP_WORKER_POLL, where the workers start
  StoreAddr,    \* 0x80000014, the store that hands a job to a worker
  Traps,        \* which of "ebreak", "illegal" the program can execute
  Commands,     \* packets the debugger sends
  Events,       \* which of "ctrlc", "sigint", "close" can happen
  MaxOwed       \* bound on packets sent and not yet answered

Harts   == 0 .. (NumHarts - 1)
Threads == 1 .. NumHarts
Tids    == {-1} \cup (1 .. (NumHarts + 1))   \* NumHarts + 1: no such thread
Addr    == CodeAddr \cup DataAddr

VAction == [act : {"c", "s", "t"}, tid : Tids]
Command ==
       [op : {"c", "s", "?", "R", "g", "p", "q", "Q", "k", "D"}, arg : {0}, actions : {<<>>}]
  \cup [op : {"Hg", "Hc", "T"}, arg : Tids, actions : {<<>>}]
  \cup [op : {"Z0", "z0", "G"}, arg : CodeAddr, actions : {<<>>}]
  \cup [op : {"P"}, arg : CodeAddr \cup {0}, actions : {<<>>}]   \* 0: another register
  \cup [op : {"Z4", "z4", "m", "mlong", "M", "X", "qSearch"}, arg : Addr, actions : {<<>>}]
  \cup [op : {"vCont"}, arg : {0}, actions : Seq(VAction)]
Intr == [op |-> "intr", arg |-> 0, actions |-> <<>>]

ASSUME HartsAssumption == NumHarts \in Nat \ {0}
ASSUME AddrAssumption ==
  /\ CodeAddr \subseteq Nat \ {0} /\ DataAddr \subseteq Nat \ {0}
  /\ EntryAddr \in CodeAddr /\ PollAddr \in CodeAddr
ASSUME CommandsAssumption == Commands \subseteq Command
ASSUME BoundAssumption == MaxOwed \in Nat

VARIABLES
  ctx,                    \* run-control fields of gdb_context_t
  bp, wp,                 \* armed breakpoints and (access) watchpoints
  harts,                  \* pc, running, halted of every hart
  focus_hart, stop_hart,  \* of rv32_system_t; stop_hart = -1: none
  g_interrupt_received,
  handler,                \* sigint_handler is installed
  phase,                  \* where the emulator's thread of control is
  hart,                   \* index of the for loop of continue_all_harts
  inbox, closed,          \* packets on their way to the stub; end of file after them
  outbox,                 \* packets on their way to the debugger
  client,                 \* what the debugger is waiting for
  owed,                   \* packets sent by the debugger minus answers received
  hc, asked,              \* the debugger's Hc selection and its last resume request
  sched                   \* instructions of each hart's turns since that request, at most 2

ctlVars    == <<phase, hart>>
pointVars  == <<bp, wp>>
sysVars    == <<harts, focus_hart, stop_hart>>
sigVars    == <<g_interrupt_received, handler>>
clientVars == <<client, owed, closed>>
askVars    == <<hc, asked, sched>>
vars == <<ctx, pointVars, sysVars, sigVars, ctlVars, inbox, outbox, clientVars, askVars>>

Phases == {"process",  \* in gdb_stub_process, waiting for a packet
           "resumed",  \* gdb_stub_process returned 1
           "step",     \* at step_focus_hart
           "loop",     \* at the while condition of continue_all_harts
           "hart",     \* in its for loop, before the turn of a hart
           "ran",      \* after the instruction of that hart
           "poll",     \* at select
           "after",    \* behind the while loop
           "exit"}
Running == Phases \ {"process", "exit"}

Cpu     == [pc : CodeAddr, running : BOOLEAN, halted : BOOLEAN]
Context == [single_step : BOOLEAN, should_stop : BOOLEAN, breakpoint_hit : BOOLEAN,
            last_watchpoint_addr : Addr \cup {0}, current_thread : Threads,
            continue_thread : Tids, stop_thread : 0 .. NumHarts]
Reply   == [kind : {"stop", "OK", "E01", "", "data"}, sig : {0, 2, 4, 5},
            tid : 0 .. NumHarts, reason : {"swbreak", "watch", "pc", "none"},
            addr : Addr \cup {0}]

TypeOK ==
  /\ ctx \in Context
  /\ bp \subseteq CodeAddr /\ wp \subseteq Addr
  /\ harts \in [Harts -> Cpu]
  /\ focus_hart \in Harts /\ stop_hart \in Harts \cup {-1}
  /\ g_interrupt_received \in BOOLEAN /\ handler \in BOOLEAN
  /\ phase \in Phases /\ hart \in Harts
  /\ inbox \in Seq(Commands \cup {Intr}) /\ closed \in BOOLEAN
  /\ outbox \in Seq(Reply)
  /\ client \in {"idle", "reply", "stop", "gone"}
  /\ owed \in 0 .. MaxOwed
  /\ hc \in Tids /\ asked \in [step : BOOLEAN, tid : Tids]
  /\ sched \in [Harts -> 0 .. 2]

(***************************************************************************)
(* Replies.                                                                *)
(***************************************************************************)
Answer(k) == [kind |-> k, sig |-> 0, tid |-> 0, reason |-> "none", addr |-> 0]

send_packet(r) == outbox' = Append(outbox, r)

StopTid(c) == IF c.stop_thread # 0 THEN c.stop_thread ELSE c.current_thread

\* format_stop_reply and the order in which gdb_stub_send_stop_reason prefers reasons.
StopReply(c, sig, pc) ==
  [kind |-> "stop", sig |-> sig, tid |-> StopTid(c),
   reason |-> IF c.breakpoint_hit THEN "swbreak"
              ELSE IF c.last_watchpoint_addr # 0 THEN "watch"
              ELSE IF pc # 0 THEN "pc" ELSE "none",
   addr |-> IF c.breakpoint_hit THEN 0
            ELSE IF c.last_watchpoint_addr # 0 THEN c.last_watchpoint_addr ELSE pc]

KeepHit(c) ==    \* mutant: a reported breakpoint is not consumed
  IF c.breakpoint_hit THEN c ELSE [c EXCEPT !.last_watchpoint_addr = 0]

\* The flags gdb_stub_send_stop_reason consumes.
Reported(c) == IF c.breakpoint_hit THEN [c EXCEPT !.breakpoint_hit = FALSE]
               ELSE [c EXCEPT !.last_watchpoint_addr = 0]

gdb_stub_send_stop_reason(c, sig, pc) ==
  /\ ctx' = Reported(c)
  /\ send_packet(StopReply(c, sig, pc))

notify_stop(c, sig, pc) ==
  gdb_stub_send_stop_reason(
    [c EXCEPT !.stop_thread = (IF stop_hart >= 0 THEN stop_hart ELSE focus_hart) + 1], sig, pc)

\* handle_hart_stop: the run ends on hart h, which becomes the focus.
handle_hart_stop(c, h, sig, pc) ==
  /\ stop_hart' = h
  /\ focus_hart' = h
  /\ gdb_stub_send_stop_reason(
       [c EXCEPT !.should_stop = TRUE, !.stop_thread = h + 1], sig, pc)
  /\ phase' = "process"

(***************************************************************************)
(* The harts.                                                              *)
(***************************************************************************)
sys_any_running == \E h \in Harts : harts[h].running /\ ~harts[h].halted

RunAnyThread(c, t) == TRUE      \* mutant: the selected thread is not looked at
HartNumber(c, t) ==             \* mutant: compared with the hart, which counts from 0
  c.continue_thread < 0 \/ c.continue_thread = t - 1

gdb_stub_should_run_thread(c, t) == c.continue_thread < 0 \/ c.continue_thread = t

sys_halt_all == harts' = [h \in Harts |-> [harts[h] EXCEPT !.halted = TRUE]]

sys_resume_runnable(c) ==
  harts' = [h \in Harts |->
              IF gdb_stub_should_run_thread(c, h + 1)
                THEN [harts[h] EXCEPT !.halted = FALSE] ELSE harts[h]]

\* The watchpoint an instruction of cpu hits that touches d (0: none): the fetch reads
\* the pc before a load or store touches the data, and the last hit is kept.
Hit(cpu, d) == IF d \in wp THEN d ELSE IF cpu.pc \in wp THEN cpu.pc ELSE 0

\* A hart that executed an instruction of kind k, at p now, with watchpoint hit a.
Executed(cpu, k, a, p) ==
  [cpu |-> [pc |-> p, running |-> k # "illegal",
            halted |-> cpu.halted \/ k = "ebreak" \/ a # 0],
   hit |-> a]

\* One instruction: a load, store or neither (d = 0), or a trap.
rv32_cpu_step(cpu) ==
  IF ~cpu.running
    THEN {[cpu |-> cpu, hit |-> 0]}
    ELSE {Executed(cpu, "access", Hit(cpu, d), p) : d \in DataAddr \cup {0}, p \in CodeAddr}
         \cup {Executed(cpu, k, Hit(cpu, 0), p) : k \in Traps, p \in CodeAddr}

\* smp_sync_run_worker_jobs on a worker with a pending IPI: a run of instructions
\* that ends early when one of them halts or stops the worker.  No breakpoint is
\* checked, and nothing is reported.
smp_sync_run_worker_jobs(cpu) ==
  IF ~cpu.running \/ cpu.halted THEN {[cpu |-> cpu, hit |-> 0]}
  ELSE IF cpu.pc \in wp THEN rv32_cpu_step(cpu)
  ELSE {Executed(cpu, "access", a, p) : a \in wp \cup {0}, p \in CodeAddr}
       \cup {Executed(cpu, k, a, p) : k \in Traps, a \in (wp \cap CodeAddr) \cup {0},
                                     p \in CodeAddr}

\* sys_cpu_step: the instruction, and the job that hart 0's store gives a worker.
\* The outcome: all harts, the hart whose access hit a watchpoint last, and where.
sys_cpu_step(h) ==
  LET Outcome(o) == [harts |-> [harts EXCEPT ![h] = o.cpu], hit |-> o.hit,
                     by |-> IF o.hit # 0 THEN h ELSE stop_hart]
      Posted(o, w, j) ==
        [harts |-> [harts EXCEPT ![h] = o.cpu, ![w] = j.cpu],
         hit |-> IF j.hit # 0 THEN j.hit ELSE o.hit,
         by |-> IF j.hit # 0 THEN w ELSE IF o.hit # 0 THEN h ELSE stop_hart]
  IN  IF h = 0 /\ harts[0].pc = StoreAddr /\ NumHarts > 1
        THEN UNION {{Posted(o, w, j) : o \in rv32_cpu_step(harts[0]),
                                       j \in smp_sync_run_worker_jobs(harts[w])} :
                      w \in Harts \ {0}}
        ELSE {Outcome(o) : o \in rv32_cpu_step(harts[h])}

WithHit(c, a) == IF a = 0 THEN c ELSE [c EXCEPT !.last_watchpoint_addr = a]

\* A turn of hart h in step_focus_hart or the run loop.  A hart that is not running
\* executes nothing, and a worker's job inside hart 0's store is no turn of the worker.
Count(h) == sched' = [sched EXCEPT ![h] = IF ~harts[h].running \/ @ = 2 THEN @ ELSE @ + 1]

(***************************************************************************)
(* gdb_stub_process: one action per packet.  A packet that does not resume *)
(* the target is answered before the next one is read.                     *)
(***************************************************************************)
Take(op) ==
  /\ phase = "process"
  /\ inbox # <<>> /\ Head(inbox).op = op
  /\ inbox' = Tail(inbox)

Stay == UNCHANGED <<sigVars, ctlVars, clientVars>>

\* Packets that change nothing but the way packets are written.
handle_read_registers ==
  /\ Take("g") /\ send_packet(Answer("data"))
  /\ UNCHANGED <<ctx, pointVars, sysVars, askVars>> /\ Stay

handle_read_single_register ==
  /\ Take("p")
  /\ \E k \in {"data", "E01"} : send_packet(Answer(k))
  /\ UNCHANGED <<ctx, pointVars, sysVars, askVars>> /\ Stay

handle_query ==
  /\ Take("q")
  /\ \E k \in {"data", ""} : send_packet(Answer(k))
  /\ UNCHANGED <<ctx, pointVars, sysVars, askVars>> /\ Stay

handle_general_set ==
  /\ Take("Q")
  /\ \E k \in {"OK", ""} : send_packet(Answer(k))
  /\ UNCHANGED <<ctx, pointVars, sysVars, askVars>> /\ Stay

handle_thread_alive ==
  /\ Take("T")
  /\ send_packet(Answer(IF Head(inbox).arg \in Threads THEN "OK" ELSE "E01"))
  /\ UNCHANGED <<ctx, pointVars, sysVars, askVars>> /\ Stay

\* 0x03: all harts halt, and the stop is reported with signal 2.
CtrlC ==
  /\ Take("intr")
  /\ sys_halt_all
  /\ stop_hart' = focus_hart
  /\ LET c == [ctx EXCEPT !.should_stop = TRUE,
                          !.stop_thread = IF @ = 0 THEN ctx.current_thread ELSE @]
     IN  gdb_stub_send_stop_reason(c, 2, 0)
  /\ UNCHANGED <<pointVars, focus_hart, askVars>> /\ Stay

\* "?": the answer is a stop reply.  The breakpoint test sets breakpoint_hit.
handle_halt_reason ==
  /\ Take("?")
  /\ LET atBp == harts[focus_hart].pc \in bp
         quiet == [ctx EXCEPT !.breakpoint_hit = FALSE]
     IN  \/ /\ ctx.single_step
            /\ ctx' = ctx
            /\ send_packet(StopReply([quiet EXCEPT !.last_watchpoint_addr = 0], 5, 0))
         \/ /\ ~ctx.single_step /\ ctx.last_watchpoint_addr # 0
            /\ ctx' = [ctx EXCEPT !.last_watchpoint_addr = 0]
            /\ send_packet(StopReply(quiet, 5, 0))
         \/ /\ ~ctx.single_step /\ ctx.last_watchpoint_addr = 0
            /\ ctx' = [ctx EXCEPT !.breakpoint_hit = @ \/ atBp]
            /\ send_packet(StopReply([ctx EXCEPT !.breakpoint_hit = atBp], 5, 0))
  /\ UNCHANGED <<pointVars, sysVars, askVars>> /\ Stay

\* Z and z.  A full table refuses; a point that never had a slot cannot be removed.
handle_breakpoint ==
  /\ \/ /\ Take("Z0")
        /\ \/ bp' = bp \cup {Head(inbox).arg} /\ send_packet(Answer("OK"))
           \/ bp' = bp /\ send_packet(Answer("E01"))
        /\ UNCHANGED wp
     \/ /\ Take("z0")
        /\ bp' = bp \ {Head(inbox).arg}
        /\ \/ send_packet(Answer("OK"))
           \/ Head(inbox).arg \notin bp /\ send_packet(Answer("E01"))
        /\ UNCHANGED wp
     \/ /\ Take("Z4")
        /\ \/ wp' = wp \cup {Head(inbox).arg} /\ send_packet(Answer("OK"))
           \/ wp' = wp /\ send_packet(Answer("E01"))
        /\ UNCHANGED bp
     \/ /\ Take("z4")
        /\ wp' = wp \ {Head(inbox).arg}
        /\ \/ send_packet(Answer("OK"))
           \/ Head(inbox).arg \notin wp /\ send_packet(Answer("E01"))
        /\ UNCHANGED bp
  /\ UNCHANGED <<ctx, sysVars, askVars>> /\ Stay

\* The debugger's own access goes through a hart's memory functions, and with it
\* through the watchpoint checks: hart 0's for a read, the focus hart's for a write.
DebugAccess(h, a) ==
  IF a \in wp
    THEN /\ ctx' = [ctx EXCEPT !.last_watchpoint_addr = a]
         /\ stop_hart' = h
         /\ harts' = [harts EXCEPT ![h].halted = TRUE]
    ELSE UNCHANGED <<ctx, stop_hart, harts>>

\* A packet that cannot be parsed, is too long or cannot be decoded: E01, E02, E03.
Malformed(op) ==
  /\ Take(op)
  /\ send_packet(Answer("E01"))
  /\ UNCHANGED <<ctx, pointVars, sysVars, askVars>> /\ Stay

\* m.  "mlong" is a read of 2046 to 2048 bytes: the handler accepts it, but its reply
\* with the framing exceeds send_packet's buffer and is dropped.
handle_read_memory ==
  /\ \E op \in {"m", "mlong"} : Take(op)
  /\ DebugAccess(0, Head(inbox).arg)
  /\ IF Head(inbox).op = "m" THEN send_packet(Answer("data")) ELSE UNCHANGED outbox
  /\ UNCHANGED <<pointVars, focus_hart, askVars>> /\ Stay

\* qSearch:memory, which stops at the first match and so may not reach the address.
handle_search_memory ==
  /\ Take("qSearch")
  /\ DebugAccess(0, Head(inbox).arg) \/ UNCHANGED <<ctx, stop_hart, harts>>
  /\ send_packet(Answer("data"))
  /\ UNCHANGED <<pointVars, focus_hart, askVars>> /\ Stay

handle_write_memory ==
  /\ Take("M")
  /\ DebugAccess(focus_hart, Head(inbox).arg)
  /\ send_packet(Answer("OK"))
  /\ UNCHANGED <<pointVars, focus_hart, askVars>> /\ Stay

handle_write_memory_binary ==
  /\ Take("X")
  /\ DebugAccess(focus_hart, Head(inbox).arg)
  /\ send_packet(Answer("OK"))
  /\ UNCHANGED <<pointVars, focus_hart, askVars>> /\ Stay

\* G writes all registers of the focus hart, the pc last.
handle_write_registers ==
  /\ Take("G")
  /\ harts' = [harts EXCEPT ![focus_hart].pc = Head(inbox).arg]
  /\ send_packet(Answer("OK"))
  /\ UNCHANGED <<ctx, pointVars, focus_hart, stop_hart, askVars>> /\ Stay

handle_write_single_register ==
  /\ Take("P")
  /\ harts' = IF Head(inbox).arg = 0 THEN harts
              ELSE [harts EXCEPT ![focus_hart].pc = Head(inbox).arg]
  /\ send_packet(Answer("OK"))
  /\ UNCHANGED <<ctx, pointVars, focus_hart, stop_hart, askVars>> /\ Stay

ResetHarts == [h \in Harts |-> [pc |-> IF h = 0 THEN EntryAddr ELSE PollAddr,
                                running |-> TRUE, halted |-> FALSE]]

handle_reset ==
  /\ Take("R")
  /\ harts' = ResetHarts
  /\ focus_hart' = 0 /\ stop_hart' = -1
  /\ bp' = {} /\ wp' = {}
  /\ ctx' = [ctx EXCEPT !.should_stop = TRUE, !.single_step = FALSE,
                        !.breakpoint_hit = FALSE, !.current_thread = 1,
                        !.continue_thread = -1, !.stop_thread = 0]
  /\ send_packet(Answer("OK"))
  /\ hc' = -1
  /\ UNCHANGED <<asked, sched>> /\ Stay

AnyThread(tid)   == TRUE        \* mutant: the range test of Hg dropped
ValidThread(tid) == tid \in Threads

\* Hg validates the thread and moves the focus; Hc takes any thread number.
handle_set_thread ==
  \/ /\ Take("Hg")
     /\ LET want == Head(inbox).arg
            tid  == IF want > 0 THEN want
                    ELSE (IF stop_hart >= 0 THEN stop_hart ELSE focus_hart) + 1
        IN  \/ /\ ValidThread(tid)
               /\ ctx' = [ctx EXCEPT !.current_thread = tid]
               /\ focus_hart' = tid - 1
               /\ send_packet(Answer("OK"))
            \/ /\ ~ValidThread(tid)
               /\ UNCHANGED <<ctx, focus_hart>>
               /\ send_packet(Answer("E01"))
     /\ UNCHANGED <<pointVars, harts, stop_hart, askVars>> /\ Stay
  \/ /\ Take("Hc")
     /\ ctx' = [ctx EXCEPT !.continue_thread = Head(inbox).arg]
     /\ hc' = Head(inbox).arg
     /\ send_packet(Answer("OK"))
     /\ UNCHANGED <<pointVars, sysVars, asked, sched>> /\ Stay

(***************************************************************************)
(* Packets that resume the target: c, s and vCont.                         *)
(***************************************************************************)
Resume(step, continue_thread, request) ==
  LET c == [ctx EXCEPT !.should_stop = FALSE, !.stop_thread = 0,
                       !.single_step = step, !.continue_thread = continue_thread]
  IN  /\ ctx' = c
      /\ sys_resume_runnable(c)
      /\ phase' = "resumed"
      /\ asked' = request
      /\ sched' = [h \in Harts |-> 0]
      /\ UNCHANGED <<pointVars, focus_hart, stop_hart, sigVars, hart, outbox, clientVars, hc>>

Continue ==
  /\ Take("c")
  /\ Resume(FALSE, -1, [step |-> FALSE, tid |-> hc])

SingleStep ==
  /\ Take("s")
  /\ Resume(TRUE, IF ctx.continue_thread < 0 THEN ctx.current_thread ELSE ctx.continue_thread,
            [step |-> TRUE, tid |-> IF hc > 0 THEN hc ELSE ctx.current_thread])

\* The last action of each sort counts; a step action outranks every continue.
\* "t" is treated as a step.  A packet without a usable action is refused.
handle_vcont ==
  /\ Take("vCont")
  /\ LET acts  == Head(inbox).actions
         steps == {i \in DOMAIN acts : acts[i].act # "c"}
         Last(S, i) == i \in S /\ \A j \in S : j <= i
     IN  \/ /\ acts = <<>>
            /\ \E k \in {"E01", ""} : send_packet(Answer(k))
            /\ UNCHANGED <<ctx, pointVars, sysVars, askVars>> /\ Stay
         \/ \E i \in steps :
              LET t == IF acts[i].tid > 0 THEN acts[i].tid ELSE ctx.current_thread
              IN  Last(steps, i) /\ Resume(TRUE, t, [step |-> TRUE, tid |-> t])
         \/ \E i \in DOMAIN acts :
              /\ steps = {} /\ Last(DOMAIN acts, i)
              /\ Resume(FALSE, acts[i].tid, [step |-> FALSE, tid |-> acts[i].tid])

\* k, D, a closed connection: gdb_stub_process returns -1 and main leaves its loop.
Kill ==
  /\ Take("k")
  /\ phase' = "exit"
  /\ UNCHANGED <<ctx, pointVars, sysVars, sigVars, hart, outbox, clientVars, askVars>>

Detach ==
  /\ Take("D")
  /\ send_packet(Answer("OK"))
  /\ phase' = "exit"
  /\ UNCHANGED <<ctx, pointVars, sysVars, sigVars, hart, clientVars, askVars>>

EndOfFile ==
  /\ phase = "process" /\ inbox = <<>> /\ closed
  /\ phase' = "exit"
  /\ UNCHANGED <<ctx, pointVars, sysVars, sigVars, hart, inbox, outbox, clientVars, askVars>>

gdb_stub_process ==
  \/ handle_read_registers \/ handle_read_single_register \/ handle_query
  \/ handle_general_set \/ handle_thread_alive
  \/ CtrlC \/ handle_halt_reason \/ handle_breakpoint
  \/ handle_read_memory \/ handle_search_memory
  \/ handle_write_memory \/ handle_write_memory_binary
  \/ handle_write_registers \/ handle_write_single_register
  \/ \E op \in {"m", "M", "X", "P", "qSearch", "Z0", "Z4", "Hg", "Hc", "T"} : Malformed(op)
  \/ handle_reset \/ handle_set_thread
  \/ Continue \/ SingleStep \/ handle_vcont
  \/ Kill \/ Detach \/ EndOfFile

(***************************************************************************)
(* main: resume, then one instruction or the run loop.                     *)
(***************************************************************************)
MainResume ==
  /\ phase = "resumed"
  /\ sys_resume_runnable(ctx)
  /\ phase' = IF ctx.single_step THEN "step" ELSE "loop"
  /\ UNCHANGED <<ctx, pointVars, focus_hart, stop_hart, sigVars, hart, inbox, outbox,
                 clientVars, askVars>>

\* The focus hart is not the one that was selected: nothing runs, signal 0.
StepRefused ==
  LET h == focus_hart
  IN  /\ ~gdb_stub_should_run_thread(ctx, h + 1)
      /\ gdb_stub_send_stop_reason([ctx EXCEPT !.stop_thread = h + 1], 0, harts[h].pc)
      /\ phase' = "process"
      /\ UNCHANGED <<sysVars, sched>>

StepAtBreakpoint ==
  LET h == focus_hart
  IN  /\ gdb_stub_should_run_thread(ctx, h + 1)
      /\ harts[h].pc \in bp
      /\ handle_hart_stop([ctx EXCEPT !.breakpoint_hit = TRUE], h, 5, harts[h].pc)
      /\ UNCHANGED <<harts, sched>>

StepExecutes ==
  LET h == focus_hart
  IN  /\ gdb_stub_should_run_thread(ctx, h + 1)
      /\ harts[h].pc \notin bp
      /\ \E o \in sys_cpu_step(h) :
           LET cpu == o.harts[h]
               sig == IF cpu.running \/ cpu.halted THEN 5 ELSE 4
           IN  /\ harts' = o.harts
               /\ handle_hart_stop([WithHit(ctx, o.hit) EXCEPT !.single_step = FALSE],
                                   h, sig, cpu.pc)
      /\ Count(h)

step_focus_hart ==
  /\ phase = "step"
  /\ StepRefused \/ StepAtBreakpoint \/ StepExecutes
  /\ UNCHANGED <<pointVars, sigVars, hart, inbox, clientVars, hc, asked>>

(***************************************************************************)
(* continue_all_harts.                                                     *)
(***************************************************************************)
Quiet == UNCHANGED <<pointVars, sigVars, inbox, clientVars, hc, asked>>

LoopTest ==
  /\ phase = "loop"
  /\ IF sys_any_running /\ ~ctx.should_stop /\ ~g_interrupt_received
       THEN phase' = "hart" /\ hart' = 0
       ELSE phase' = "after" /\ hart' = hart
  /\ UNCHANGED <<ctx, sysVars, outbox, sched>> /\ Quiet

NextHart == IF hart + 1 \in Harts
              THEN hart' = hart + 1 /\ phase' = "hart"
              ELSE hart' = hart /\ phase' = "poll"

\* The values should_step_hart can return.  A worker runs when it is in its handler
\* or has an IPI pending, which this module leaves open.
should_step_hart(h) ==
  IF ~gdb_stub_should_run_thread(ctx, h + 1) THEN {FALSE}
  ELSE IF NumHarts = 1 \/ h = 0 \/ ctx.continue_thread > 0 THEN {TRUE}
  ELSE BOOLEAN

SkipHart ==
  /\ phase = "hart"
  /\ \/ FALSE \in should_step_hart(hart)
     \/ ~harts[hart].running \/ harts[hart].halted
  /\ NextHart
  /\ UNCHANGED <<ctx, sysVars, outbox, sched>> /\ Quiet

Scheduled == /\ phase = "hart"
             /\ TRUE \in should_step_hart(hart)
             /\ harts[hart].running /\ ~harts[hart].halted

HartAtBreakpoint ==
  /\ Scheduled
  /\ harts[hart].pc \in bp
  /\ handle_hart_stop([ctx EXCEPT !.breakpoint_hit = TRUE], hart, 5, harts[hart].pc)
  /\ UNCHANGED <<harts, hart, sched>> /\ Quiet

HartExecutes ==
  /\ Scheduled
  /\ harts[hart].pc \notin bp
  /\ \E o \in sys_cpu_step(hart) :
       /\ harts' = o.harts
       /\ stop_hart' = o.by
       /\ ctx' = WithHit(ctx, o.hit)
  /\ phase' = "ran"
  /\ Count(hart)
  /\ UNCHANGED <<focus_hart, hart, outbox>> /\ Quiet

OnlyDead(cpu)    == ~cpu.running               \* mutant: a halted hart runs on
HartStopped(cpu) == cpu.halted \/ ~cpu.running

HartInspected ==
  /\ phase = "ran"
  /\ \/ /\ HartStopped(harts[hart])
        /\ handle_hart_stop(ctx, hart, IF harts[hart].halted THEN 5 ELSE 4, harts[hart].pc)
        /\ UNCHANGED hart
     \/ /\ ~HartStopped(harts[hart])
        /\ NextHart
        /\ UNCHANGED <<ctx, focus_hart, stop_hart, outbox>>
  /\ UNCHANGED <<harts, sched>> /\ Quiet

PollForgets ==   \* mutant: the loop is left without noting that the run was stopped
  /\ phase = "poll"
  /\ phase' = IF inbox # <<>> \/ closed THEN "after" ELSE "loop"
  /\ UNCHANGED <<ctx, sysVars, hart, outbox, sched>> /\ Quiet

PollNever ==     \* mutant: the connection is not polled while the target runs
  /\ phase = "poll"
  /\ phase' = "loop"
  /\ UNCHANGED <<ctx, sysVars, hart, outbox, sched>> /\ Quiet

\* A packet or an end of file makes the connection readable.
Poll ==
  /\ phase = "poll"
  /\ IF inbox # <<>> \/ closed
       THEN ctx' = [ctx EXCEPT !.should_stop = TRUE] /\ phase' = "after"
       ELSE ctx' = ctx /\ phase' = "loop"
  /\ UNCHANGED <<sysVars, hart, outbox, sched>> /\ Quiet

\* Behind the loop, when no hart stop was reported inside it.
AfterLoop ==
  /\ phase = "after"
  /\ LET pc == harts[focus_hart].pc
         c  == [ctx EXCEPT !.should_stop = TRUE]
     IN  IF ~sys_any_running
           THEN notify_stop(c, 4, pc) /\ UNCHANGED g_interrupt_received
         ELSE IF g_interrupt_received
           THEN notify_stop(c, 2, pc) /\ g_interrupt_received' = FALSE
         ELSE IF ctx.should_stop
           THEN notify_stop(c, 2, pc) /\ UNCHANGED g_interrupt_received
         ELSE UNCHANGED <<ctx, outbox, g_interrupt_received>>
  /\ phase' = "process"
  /\ UNCHANGED <<pointVars, sysVars, handler, hart, inbox, clientVars, askVars>>

continue_all_harts ==
  \/ LoopTest \/ SkipHart \/ HartAtBreakpoint \/ HartExecutes \/ HartInspected
  \/ Poll \/ AfterLoop

Stub == gdb_stub_process \/ MainResume \/ step_focus_hart \/ continue_all_harts

(***************************************************************************)
(* SIGINT, between any two steps of the emulator.  What signal() promises  *)
(* depends on the system: the handler may stay installed or be one-shot,   *)
(* and a blocked read may be restarted or fail (then the emulator leaves). *)
(***************************************************************************)
sigint_handler ==
  /\ "sigint" \in Events /\ handler /\ phase # "exit"
  /\ g_interrupt_received' = TRUE
  /\ handler' \in BOOLEAN
  /\ ctx' = [ctx EXCEPT !.should_stop = TRUE]
  /\ sys_halt_all
  /\ stop_hart' = focus_hart
  /\ \/ phase' = phase
     \/ phase = "process" /\ inbox = <<>> /\ phase' = "exit"
  /\ UNCHANGED <<pointVars, focus_hart, hart, inbox, outbox, clientVars, askVars>>

DefaultSigint ==
  /\ "sigint" \in Events /\ ~handler /\ phase # "exit"
  /\ phase' = "exit"
  /\ UNCHANGED <<ctx, pointVars, sysVars, sigVars, hart, inbox, outbox, clientVars, askVars>>

\* A write to a connection the debugger has closed may raise SIGPIPE, which nothing
\* catches.
BrokenPipe ==
  /\ closed
  /\ \/ phase = "process" /\ inbox # <<>>
     \/ phase \in {"step", "hart", "ran", "after"}
  /\ phase' = "exit"
  /\ UNCHANGED <<ctx, pointVars, sysVars, sigVars, hart, inbox, outbox, clientVars, askVars>>

(***************************************************************************)
(* The debugger (outside the repository): it sends a packet when it waits  *)
(* for nothing, takes the next packet that arrives as the answer, and may  *)
(* send the interrupt byte while it waits for a stop.                      *)
(***************************************************************************)
EmuVars == <<ctx, pointVars, sysVars, sigVars, ctlVars, askVars>>

Send(p) == /\ owed < MaxOwed /\ owed' = owed + 1
           /\ inbox' = Append(inbox, p)
           /\ UNCHANGED <<EmuVars, outbox, closed>>

ClientSend(p) ==
  /\ client = "idle"
  /\ client' = IF p.op \in {"c", "s", "vCont", "?"} THEN "stop" ELSE "reply"
  /\ Send(p)

ClientInterrupt ==
  /\ "ctrlc" \in Events /\ client = "stop"
  /\ UNCHANGED client
  /\ Send(Intr)

ClientReceive ==
  /\ client \in {"reply", "stop"} /\ outbox # <<>>
  /\ client' = "idle" /\ owed' = owed - 1
  /\ outbox' = Tail(outbox)
  /\ UNCHANGED <<EmuVars, inbox, closed>>

ClientClose ==
  /\ "close" \in Events /\ client # "gone"
  /\ client' = "gone" /\ closed' = TRUE
  /\ UNCHANGED <<EmuVars, inbox, outbox, owed>>

Client == \/ \E p \in Commands : ClientSend(p)
          \/ ClientInterrupt \/ ClientReceive \/ ClientClose

------------------------------------------------------------------------------
\* init_system, gdb_stub_init and gdb_stub_accept: a debugger has connected.
Init ==
  /\ ctx = [single_step |-> FALSE, should_stop |-> FALSE, breakpoint_hit |-> FALSE,
            last_watchpoint_addr |-> 0, current_thread |-> 1, continue_thread |-> -1,
            stop_thread |-> 0]
  /\ bp = {} /\ wp = {}
  /\ harts = ResetHarts
  /\ focus_hart = 0 /\ stop_hart = -1
  /\ g_interrupt_received = FALSE /\ handler = TRUE
  /\ phase = "process" /\ hart = 0
  /\ inbox = <<>> /\ closed = FALSE /\ outbox = <<>>
  /\ client = "idle" /\ owed = 0
  /\ hc = -1 /\ asked = [step |-> FALSE, tid |-> -1]
  /\ sched = [h \in Harts |-> 0]

Next == Stub \/ sigint_handler \/ DefaultSigint \/ BrokenPipe \/ Client

Spec == Init /\ [][Next]_vars

\* The emulator is one process that never waits except for a packet.
FairSpec == Spec /\ WF_vars(Stub)

------------------------------------------------------------------------------
\* Every packet the debugger sends, the interrupt byte included, is answered by
\* exactly one packet, whatever ends the run: no handler and no way out of
\* continue_all_harts answers twice or leaves the debugger waiting.
AnsweredOnce ==
  phase # "exit" =>
    owed = Len(inbox) + Len(outbox) + (IF phase \in Running THEN 1 ELSE 0)

Newest == outbox'[Len(outbox')]
StopSent == Len(outbox') > Len(outbox) /\ Newest.kind = "stop"

\* A stop reply says swbreak only when the thread it names stands on an armed
\* breakpoint: breakpoint_hit never survives the stop it belongs to.
SwbreakTruth ==
  [][StopSent /\ Newest.reason = "swbreak" => harts'[Newest.tid - 1].pc \in bp]_vars

\* No hart gets another turn while a watchpoint hit is still unreported.
NoRunPastWatchHit == phase \in {"loop", "hart", "poll"} => ctx.last_watchpoint_addr = 0

\* A run gives turns only to the harts the debugger asked to run, and a step lets
\* one of them execute at most one instruction.  The job that a worker does inside
\* hart 0's store is hart 0's doing and not counted: it runs whoever was asked to.
RunsAsAsked ==
  /\ \A h \in Harts : sched[h] > 0 => asked.tid \in {-1, h + 1}
  /\ asked.step => \A h \in Harts : sched[h] <= 1

\* A step of the thread in focus executes one instruction of it, unless the thread
\* stands on a breakpoint or an illegal instruction has stopped it for good.
StepHappens ==
  [][phase = "step" /\ StopSent /\ asked.tid = focus_hart + 1
       => \/ sched'[focus_hart] = 1
          \/ harts[focus_hart].pc \in bp
          \/ ~harts[focus_hart].running]_vars

\* A run the debugger interrupts (Ctrl-C) or the terminal interrupts (SIGINT) is
\* answered: continue_all_harts polls the connection in every round.
InterruptAnswered ==
  client = "stop" /\ (g_interrupt_received \/ \E i \in DOMAIN inbox : inbox[i] = Intr)
     ~> outbox # <<>> \/ phase = "exit"
==============================================================================
