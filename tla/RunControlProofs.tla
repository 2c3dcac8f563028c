--------------------------- MODULE RunControlProofs ---------------------------
(***************************************************************************)
(* Proofs about run control, for any number of harts, any addresses, any   *)
(* set of packets and events and any bound on outstanding packets.         *)
(***************************************************************************)
EXTENDS RunControl, TLAPS

(***************************************************************************)
(* The building blocks keep their types.                                   *)
(***************************************************************************)
LEMMA ThreadFacts ==
  /\ Threads \subseteq Tids /\ -1 \in Tids /\ 1 \in Threads /\ 0 \in Harts
  /\ 0 \in 0 .. NumHarts
  /\ \A h \in Harts : h + 1 \in Threads /\ h + 1 \in 0 .. NumHarts
  /\ \A t \in Threads : t - 1 \in Harts /\ t \in 0 .. NumHarts
  /\ \A t \in Tids : t \in Int
BY HartsAssumption DEF Threads, Tids, Harts

\* The reply and the context that gdb_stub_send_stop_reason leaves are well typed.
LEMMA StopReplyType ==
  ASSUME NEW c \in Context, NEW sig \in {0, 2, 4, 5}, NEW pc \in Addr \cup {0}
  PROVE  StopReply(c, sig, pc) \in Reply /\ Reported(c) \in Context
<1>1. StopTid(c) \in 0 .. NumHarts
  BY ThreadFacts DEF StopTid, Context
<1>2. c.last_watchpoint_addr \in Addr \cup {0}
  BY DEF Context
<1>3. StopReply(c, sig, pc) \in Reply
  BY <1>1, <1>2 DEF StopReply, Reply
<1>4. Reported(c) \in Context
  BY DEF Reported, Context
<1> QED BY <1>3, <1>4

\* A hart after an instruction, or a worker after a job, is a hart again, and the
\* watchpoint it hit is an armed one.
LEMMA ExecutedType ==
  ASSUME NEW cpu \in Cpu, NEW k, NEW a \in Addr \cup {0}, NEW p \in CodeAddr
  PROVE  Executed(cpu, k, a, p).cpu \in Cpu /\ Executed(cpu, k, a, p).hit = a
<1>1. (k # "illegal") \in BOOLEAN /\ (cpu.halted \/ k = "ebreak" \/ a # 0) \in BOOLEAN
  OBVIOUS
<1> QED BY <1>1 DEF Executed, Cpu

LEMMA CpuStepType ==
  ASSUME NEW cpu \in Cpu, wp \subseteq Addr
  PROVE  /\ \A o \in rv32_cpu_step(cpu) : o.cpu \in Cpu /\ o.hit \in Addr \cup {0}
         /\ \A o \in smp_sync_run_worker_jobs(cpu) : o.cpu \in Cpu /\ o.hit \in Addr \cup {0}
<1> DEFINE Good(o) == o.cpu \in Cpu /\ o.hit \in Addr \cup {0}
<1>0. \A k, a, p : a \in Addr \cup {0} /\ p \in CodeAddr => Good(Executed(cpu, k, a, p))
  BY ExecutedType
<1>h. \A d : Hit(cpu, d) \in Addr \cup {0}
  BY DEF Hit
<1>s. Good([cpu |-> cpu, hit |-> 0])
  OBVIOUS
<1> HIDE DEF Good
<1>1. \A o \in rv32_cpu_step(cpu) : Good(o)
  <2> SUFFICES ASSUME NEW o \in rv32_cpu_step(cpu) PROVE Good(o)
    OBVIOUS
  <2>1. CASE ~cpu.running
    BY <2>1, <1>s DEF rv32_cpu_step
  <2>2. CASE cpu.running
    <3>1. \/ \E d \in DataAddr \cup {0}, p \in CodeAddr : o = Executed(cpu, "access", Hit(cpu, d), p)
          \/ \E k \in Traps, p \in CodeAddr : o = Executed(cpu, k, Hit(cpu, 0), p)
      BY <2>2 DEF rv32_cpu_step
    <3> QED BY <3>1, <1>0, <1>h, Zenon
  <2> QED BY <2>1, <2>2
<1>2. \A o \in smp_sync_run_worker_jobs(cpu) : Good(o)
  <2>1. \A a \in wp \cup {0} : a \in Addr \cup {0}
    OBVIOUS
  <2>2. \A a \in (wp \cap CodeAddr) \cup {0} : a \in Addr \cup {0}
    OBVIOUS
  <2> SUFFICES ASSUME NEW o \in smp_sync_run_worker_jobs(cpu) PROVE Good(o)
    OBVIOUS
  <2>3. \/ o = [cpu |-> cpu, hit |-> 0]
        \/ o \in rv32_cpu_step(cpu)
        \/ \E a \in wp \cup {0}, p \in CodeAddr : o = Executed(cpu, "access", a, p)
        \/ \E k \in Traps, a \in (wp \cap CodeAddr) \cup {0}, p \in CodeAddr :
             o = Executed(cpu, k, a, p)
    BY DEF smp_sync_run_worker_jobs
  <2> QED BY <1>0, <1>1, <1>s, <2>1, <2>2, <2>3, Zenon
<1> QED BY <1>1, <1>2 DEF Good

LEMMA SysCpuStepType ==
  ASSUME TypeOK, NEW h \in Harts, NEW o \in sys_cpu_step(h)
  PROVE  /\ o.harts \in [Harts -> Cpu]
         /\ o.hit \in Addr \cup {0}
         /\ o.by \in Harts \cup {-1}
<1>1. wp \subseteq Addr /\ harts \in [Harts -> Cpu] /\ stop_hart \in Harts \cup {-1}
  BY DEF TypeOK
<1>2. CASE h = 0 /\ harts[0].pc = StoreAddr /\ NumHarts > 1
  <2>1. PICK w \in Harts \ {0} :
             \E a \in rv32_cpu_step(harts[0]), j \in smp_sync_run_worker_jobs(harts[w]) :
               o = [harts |-> [harts EXCEPT ![h] = a.cpu, ![w] = j.cpu],
                    hit |-> IF j.hit # 0 THEN j.hit ELSE a.hit,
                    by |-> IF j.hit # 0 THEN w ELSE IF a.hit # 0 THEN h ELSE stop_hart]
    BY <1>2 DEF sys_cpu_step
  <2>0. PICK a \in rv32_cpu_step(harts[0]), j \in smp_sync_run_worker_jobs(harts[w]) :
               o = [harts |-> [harts EXCEPT ![h] = a.cpu, ![w] = j.cpu],
                    hit |-> IF j.hit # 0 THEN j.hit ELSE a.hit,
                    by |-> IF j.hit # 0 THEN w ELSE IF a.hit # 0 THEN h ELSE stop_hart]
    BY <2>1
  <2>2. /\ a.cpu \in Cpu /\ a.hit \in Addr \cup {0}
        /\ j.cpu \in Cpu /\ j.hit \in Addr \cup {0}
    BY <1>1, <1>2, CpuStepType
  <2> QED BY <1>1, <2>0, <2>2
<1>3. CASE ~ (h = 0 /\ harts[0].pc = StoreAddr /\ NumHarts > 1)
  <2>1. PICK a \in rv32_cpu_step(harts[h]) :
               o = [harts |-> [harts EXCEPT ![h] = a.cpu], hit |-> a.hit,
                    by |-> IF a.hit # 0 THEN h ELSE stop_hart]
    BY <1>3 DEF sys_cpu_step
  <2>2. a.cpu \in Cpu /\ a.hit \in Addr \cup {0}
    BY <1>1, CpuStepType
  <2> QED BY <1>1, <2>1, <2>2
<1> QED BY <1>2, <1>3

(***************************************************************************)
(* The inductive invariant.  LoopExit says why the code behind the loop of *)
(* continue_all_harts always sends a stop reply; Covered keeps the count of *)
(* owed answers from dropping below zero once the emulator has left.       *)
(***************************************************************************)
CoreOK ==
  /\ ctx \in Context
  /\ bp \subseteq CodeAddr /\ wp \subseteq Addr
  /\ harts \in [Harts -> Cpu]
  /\ focus_hart \in Harts /\ stop_hart \in Harts \cup {-1}
  /\ g_interrupt_received \in BOOLEAN /\ handler \in BOOLEAN
  /\ phase \in Phases /\ hart \in Harts
  /\ hc \in Tids /\ asked \in [step : BOOLEAN, tid : Tids]
  /\ sched \in [Harts -> 0 .. 2]

LinkOK ==
  /\ inbox \in Seq(Commands \cup {Intr}) /\ closed \in BOOLEAN
  /\ outbox \in Seq(Reply)
  /\ client \in {"idle", "reply", "stop", "gone"}
  /\ owed \in 0 .. MaxOwed

Covered  == Len(outbox) <= owed
LoopExit == phase = "after" => ~sys_any_running \/ ctx.should_stop \/ g_interrupt_received

\* Every packet the debugger sends asks for a reply that send_packet can hold.
RepliesFit == \A p \in Commands : p.op # "mlong"

\* Answers never exceed requests; with RepliesFit they match them.
Balance ==
  LET due == Len(inbox) + Len(outbox) + (IF phase \in Running THEN 1 ELSE 0)
  IN  phase # "exit" => due <= owed /\ (RepliesFit => owed = due)

Accounts == LinkOK /\ Balance /\ Covered
IInv     == CoreOK /\ Accounts /\ LoopExit

LEMMA TypeSplit == TypeOK <=> CoreOK /\ LinkOK
BY DEF TypeOK, CoreOK, LinkOK

(***************************************************************************)
(* The accounting of answers, by the shape of a step.                      *)
(***************************************************************************)
LEMMA AnswerNow ==      \* a packet is taken and answered at once
  ASSUME Accounts, phase = "process", inbox # <<>>, inbox' = Tail(inbox),
         NEW r \in Reply, outbox' = Append(outbox, r),
         phase' = "process" \/ phase' = "exit", UNCHANGED clientVars
  PROVE  Accounts'
<1>1. /\ inbox \in Seq(Commands \cup {Intr}) /\ outbox \in Seq(Reply) /\ owed \in Int
      /\ Len(inbox') = Len(inbox) - 1 /\ Len(outbox') = Len(outbox) + 1
      /\ Len(inbox) \in Nat /\ Len(outbox) \in Nat /\ Len(inbox) > 0
      /\ inbox' \in Seq(Commands \cup {Intr}) /\ outbox' \in Seq(Reply)
  BY DEF Accounts, LinkOK
<1>2. LinkOK'
  BY <1>1 DEF Accounts, LinkOK, clientVars
<1>3. Len(inbox) + Len(outbox) <= owed /\ (RepliesFit => owed = Len(inbox) + Len(outbox))
  BY <1>1 DEF Accounts, Balance, Running, Phases
<1>4. Len(inbox') + Len(outbox') = Len(inbox) + Len(outbox) /\ owed' = owed
  BY <1>1 DEF clientVars
<1>5. Covered'
  BY <1>1, <1>3, <1>4 DEF Covered
<1>6. Balance'
  <2>1. CASE phase' = "exit"
    BY <2>1 DEF Balance
  <2>2. CASE phase' = "process"
    <3>1. ~(phase' \in Running)
      BY <2>2 DEF Running
    <3>2. (Len(inbox) + Len(outbox) + (IF phase \in Running THEN 1 ELSE 0))'
            = Len(inbox) + Len(outbox)
      BY <1>1, <3>1
    <3> QED BY <1>3, <1>4, <3>2 DEF Balance
  <2> QED BY <2>1, <2>2
<1> QED BY <1>2, <1>5, <1>6 DEF Accounts

LEMMA AnswerLater ==    \* a packet is taken and starts a run, or ends the program
  ASSUME Accounts, phase = "process", inbox # <<>>, inbox' = Tail(inbox),
         UNCHANGED outbox, phase' = "resumed" \/ phase' = "exit", UNCHANGED clientVars
  PROVE  Accounts'
BY DEF Accounts, LinkOK, Balance, Covered, Running, Phases, clientVars

LEMMA StillRunning ==   \* the run goes on
  ASSUME Accounts, phase \in Running, phase' \in Running,
         UNCHANGED <<inbox, outbox>>, UNCHANGED clientVars
  PROVE  Accounts'
BY DEF Accounts, LinkOK, Balance, Covered, Running, Phases, clientVars

LEMMA RunEnds ==        \* the run ends with a stop reply
  ASSUME Accounts, phase \in Running, phase' = "process", UNCHANGED inbox,
         NEW r \in Reply, outbox' = Append(outbox, r), UNCHANGED clientVars
  PROVE  Accounts'
BY DEF Accounts, LinkOK, Balance, Covered, Running, Phases, clientVars

LEMMA Leaves ==         \* the emulator leaves, or a signal arrives
  ASSUME Accounts, phase' = phase \/ phase' = "exit", UNCHANGED <<inbox, outbox>>,
         UNCHANGED clientVars
  PROVE  Accounts'
BY DEF Accounts, LinkOK, Balance, Covered, Running, Phases, clientVars

LEMMA NoAnswer ==       \* a packet is taken and its reply is dropped
  ASSUME Accounts, phase = "process", inbox # <<>>, inbox' = Tail(inbox), ~RepliesFit,
         UNCHANGED outbox, phase' = "process", UNCHANGED clientVars
  PROVE  Accounts'
BY DEF Accounts, LinkOK, Balance, Covered, Running, Phases, clientVars

(***************************************************************************)
(* gdb_stub_process.                                                       *)
(***************************************************************************)
LEMMA AnswerType == \A k \in {"OK", "E01", "", "data"} : Answer(k) \in Reply
<1>1. 0 \in 0 .. NumHarts
  BY HartsAssumption
<1> SUFFICES ASSUME NEW k \in {"OK", "E01", "", "data"} PROVE Answer(k) \in Reply
  OBVIOUS
<1>2. k \in {"stop", "OK", "E01", "", "data"}
  BY Zenon
<1> QED BY <1>1, <1>2, Zenon DEF Answer, Reply

\* The argument of a packet has the type its operation gives it.
LEMMA ArgType ==
  ASSUME LinkOK, NEW op, Take(op)
  PROVE  /\ op \in {"Hg", "Hc", "T"} => Head(inbox).arg \in Tids
         /\ op \in {"Z0", "z0", "G"} => Head(inbox).arg \in CodeAddr
         /\ op = "P" => Head(inbox).arg \in CodeAddr \cup {0}
         /\ op \in {"Z4", "z4", "m", "mlong", "M", "X", "qSearch"} => Head(inbox).arg \in Addr
         /\ op # "intr" => Head(inbox) \in Commands
         /\ op = "vCont" => Head(inbox).actions \in Seq(VAction)
<1>1. Head(inbox) \in Commands \cup {Intr} /\ Head(inbox).op = op
  BY DEF LinkOK, Take
<1>2. Head(inbox) \in Command \/ Head(inbox) = Intr
  BY <1>1, CommandsAssumption
<1> DEFINE p == Head(inbox)
<1>3. CASE p = Intr
  BY <1>1, <1>3 DEF Intr
<1>4. CASE p \in Command
  <2> HIDE DEF p
  <2>1. CASE p \in [op : {"c", "s", "?", "R", "g", "p", "q", "Q", "k", "D"}, arg : {0},
                    actions : {<<>>}]
    BY <1>1, <2>1 DEF p, Intr
  <2>2. CASE p \in [op : {"Hg", "Hc", "T"}, arg : Tids, actions : {<<>>}]
    BY <1>1, <2>2 DEF p, Intr
  <2>3. CASE p \in [op : {"Z0", "z0", "G"}, arg : CodeAddr, actions : {<<>>}]
    BY <1>1, <2>3 DEF p, Intr
  <2>4. CASE p \in [op : {"P"}, arg : CodeAddr \cup {0}, actions : {<<>>}]
    BY <1>1, <2>4 DEF p, Intr
  <2>5. CASE p \in [op : {"Z4", "z4", "m", "mlong", "M", "X", "qSearch"}, arg : Addr,
                    actions : {<<>>}]
    BY <1>1, <2>5 DEF p, Intr
  <2>6. CASE p \in [op : {"vCont"}, arg : {0}, actions : Seq(VAction)]
    BY <1>1, <2>6 DEF p, Intr
  <2> QED BY <1>4, <2>1, <2>2, <2>3, <2>4, <2>5, <2>6 DEF Command
<1> QED BY <1>2, <1>3, <1>4

\* A packet that changes nothing and is answered.
LEMMA QueryStep ==
  ASSUME IInv, NEW op, Take(op), NEW k \in {"OK", "E01", "", "data"}, send_packet(Answer(k)),
         UNCHANGED <<ctx, pointVars, sysVars, askVars>>, Stay
  PROVE  IInv'
<1>1. CoreOK' /\ LoopExit'
  BY DEF IInv, CoreOK, LoopExit, Take, Stay, ctlVars, sigVars, pointVars, sysVars, askVars
<1>2. Accounts'
  BY AnswerType, AnswerNow DEF IInv, Take, Stay, ctlVars, send_packet
<1> QED BY <1>1, <1>2 DEF IInv

LEMMA QuerySteps ==
  ASSUME IInv,
         \/ handle_read_registers \/ handle_read_single_register \/ handle_query
         \/ handle_general_set \/ handle_thread_alive \/ \E op : Malformed(op)
  PROVE  IInv'
<1>1. CASE handle_read_registers
  BY <1>1, QueryStep DEF handle_read_registers
<1>2. CASE handle_read_single_register
  BY <1>2, QueryStep DEF handle_read_single_register
<1>3. CASE handle_query
  BY <1>3, QueryStep DEF handle_query
<1>4. CASE handle_general_set
  BY <1>4, QueryStep DEF handle_general_set
<1>5. CASE handle_thread_alive
  BY <1>5, QueryStep DEF handle_thread_alive
<1>6. CASE \E op : Malformed(op)
  BY <1>6, QueryStep DEF Malformed
<1> QED BY <1>1, <1>2, <1>3, <1>4, <1>5, <1>6

LEMMA CtrlCStep ==
  ASSUME IInv, CtrlC
  PROVE  IInv'
<1> DEFINE c == [ctx EXCEPT !.should_stop = TRUE,
                            !.stop_thread = IF @ = 0 THEN ctx.current_thread ELSE @]
<1>1. c \in Context
  BY ThreadFacts DEF IInv, CoreOK, Context
<1>2. ctx' = Reported(c) /\ outbox' = Append(outbox, StopReply(c, 2, 0))
  BY DEF CtrlC, gdb_stub_send_stop_reason, send_packet
<1> HIDE DEF c
<1>3. StopReply(c, 2, 0) \in Reply /\ ctx' \in Context
  BY <1>1, <1>2, StopReplyType
<1>4. CoreOK' /\ LoopExit'
  <2>1. harts' \in [Harts -> Cpu]
    BY DEF IInv, CoreOK, CtrlC, sys_halt_all, Cpu
  <2> QED BY <1>3, <2>1 DEF IInv, CoreOK, LoopExit, CtrlC, Take, Stay, ctlVars, sigVars,
            pointVars, askVars
<1>5. Accounts'
  BY <1>2, <1>3, AnswerNow DEF IInv, CtrlC, Take, Stay, ctlVars
<1> QED BY <1>4, <1>5 DEF IInv

LEMMA HaltReasonStep ==
  ASSUME IInv, handle_halt_reason
  PROVE  IInv'
<1>0. ctx \in Context
  BY DEF IInv, CoreOK
<1>1. PICK d \in Context : ctx' \in Context /\ outbox' = Append(outbox, StopReply(d, 5, 0))
  <2> DEFINE atBp  == harts[focus_hart].pc \in bp
             quiet == [ctx EXCEPT !.breakpoint_hit = FALSE]
  <2>1. CASE ctx' = ctx /\ send_packet(StopReply([quiet EXCEPT !.last_watchpoint_addr = 0], 5, 0))
    <3>1. [quiet EXCEPT !.last_watchpoint_addr = 0] \in Context
      BY <1>0 DEF Context
    <3> QED BY <1>0, <2>1, <3>1 DEF send_packet
  <2>2. CASE ctx' = [ctx EXCEPT !.last_watchpoint_addr = 0] /\ send_packet(StopReply(quiet, 5, 0))
    <3>1. quiet \in Context /\ ctx' \in Context
      BY <1>0, <2>2 DEF Context
    <3> QED BY <2>2, <3>1 DEF send_packet
  <2>3. CASE /\ ctx' = [ctx EXCEPT !.breakpoint_hit = @ \/ atBp]
             /\ send_packet(StopReply([ctx EXCEPT !.breakpoint_hit = atBp], 5, 0))
    <3>1. atBp \in BOOLEAN /\ (ctx.breakpoint_hit \/ atBp) \in BOOLEAN
      OBVIOUS
    <3> HIDE DEF atBp
    <3>2. [ctx EXCEPT !.breakpoint_hit = atBp] \in Context /\ ctx' \in Context
      BY <1>0, <2>3, <3>1 DEF Context
    <3> QED BY <2>3, <3>2 DEF send_packet
  <2> QED BY <2>1, <2>2, <2>3 DEF handle_halt_reason
<1>2. StopReply(d, 5, 0) \in Reply
  BY StopReplyType
<1>3. CoreOK' /\ LoopExit'
  BY <1>1 DEF IInv, CoreOK, LoopExit, handle_halt_reason, Take, Stay, ctlVars, sigVars,
         pointVars, sysVars, askVars
<1>4. Accounts'
  BY <1>1, <1>2, AnswerNow DEF IInv, handle_halt_reason, Take, Stay, ctlVars
<1> QED BY <1>3, <1>4 DEF IInv

LEMMA BreakpointStep ==
  ASSUME IInv, handle_breakpoint
  PROVE  IInv'
<1>1. bp' \subseteq CodeAddr /\ wp' \subseteq Addr
  <2>1. /\ Take("Z0") \/ Take("z0") => Head(inbox).arg \in CodeAddr
        /\ Take("Z4") \/ Take("z4") => Head(inbox).arg \in Addr
    BY ArgType DEF IInv, Accounts
  <2> QED BY <2>1 DEF IInv, CoreOK, handle_breakpoint
<1>2. CoreOK' /\ LoopExit'
  BY <1>1 DEF IInv, CoreOK, LoopExit, handle_breakpoint, Take, Stay, ctlVars, sigVars,
         sysVars, askVars
<1>3. PICK k \in {"OK", "E01"} : send_packet(Answer(k))
  BY DEF handle_breakpoint
<1>4. Accounts'
  BY <1>3, AnswerType, AnswerNow DEF IInv, handle_breakpoint, Take, Stay, ctlVars, send_packet
<1> QED BY <1>2, <1>4 DEF IInv

LEMMA DebugAccessType ==
  ASSUME CoreOK, NEW h \in Harts, NEW a \in Addr,
         DebugAccess(h, a) \/ UNCHANGED <<ctx, stop_hart, harts>>
  PROVE  ctx' \in Context /\ stop_hart' \in Harts \cup {-1} /\ harts' \in [Harts -> Cpu]
<1>0. /\ ctx \in Context /\ stop_hart \in Harts \cup {-1} /\ harts \in [Harts -> Cpu]
  BY DEF CoreOK
<1>1. ctx' \in Context
  BY <1>0 DEF DebugAccess, Context
<1>2. harts' \in [Harts -> Cpu]
  BY <1>0 DEF DebugAccess, Cpu
<1>3. stop_hart' \in Harts \cup {-1}
  BY <1>0 DEF DebugAccess
<1> QED BY <1>1, <1>2, <1>3

LEMMA MemoryStep ==
  ASSUME IInv,
         \/ handle_read_memory \/ handle_search_memory
         \/ handle_write_memory \/ handle_write_memory_binary
  PROVE  IInv'
<1>1. PICK op \in {"m", "mlong", "qSearch", "M", "X"}, h \in Harts :
         /\ Take(op)
         /\ DebugAccess(h, Head(inbox).arg) \/ UNCHANGED <<ctx, stop_hart, harts>>
  BY ThreadFacts DEF handle_read_memory, handle_search_memory, handle_write_memory,
         handle_write_memory_binary, IInv, CoreOK
<1>2. ctx' \in Context /\ stop_hart' \in Harts \cup {-1} /\ harts' \in [Harts -> Cpu]
  <2>1. Head(inbox).arg \in Addr
    BY <1>1, ArgType DEF IInv, Accounts
  <2> QED BY <1>1, <2>1, DebugAccessType DEF IInv
<1>3. /\ UNCHANGED <<pointVars, focus_hart, askVars>> /\ Stay
      /\ phase = "process" /\ inbox # <<>> /\ inbox' = Tail(inbox)
      /\ \/ \E k \in {"OK", "data"} : outbox' = Append(outbox, Answer(k))
         \/ UNCHANGED outbox /\ Head(inbox).op = "mlong"
  BY DEF handle_read_memory, handle_search_memory, handle_write_memory,
         handle_write_memory_binary, Take, send_packet
<1>4. CoreOK' /\ LoopExit'
  BY <1>2, <1>3 DEF IInv, CoreOK, LoopExit, Stay, ctlVars, sigVars, pointVars, askVars
<1>5. CASE \E k \in {"OK", "data"} : outbox' = Append(outbox, Answer(k))
  BY <1>3, <1>4, <1>5, AnswerType, AnswerNow DEF IInv, Stay, ctlVars
<1>6. CASE UNCHANGED outbox /\ Head(inbox).op = "mlong"
  <2>1. ~RepliesFit
    BY <1>1, <1>6, ArgType DEF RepliesFit, IInv, Accounts
  <2> QED BY <1>3, <1>4, <1>6, <2>1, NoAnswer DEF IInv, Stay, ctlVars
<1> QED BY <1>3, <1>5, <1>6

LEMMA WriteRegistersStep ==
  ASSUME IInv, handle_write_registers \/ handle_write_single_register
  PROVE  IInv'
<1>1. /\ phase = "process" /\ inbox # <<>> /\ inbox' = Tail(inbox)
      /\ outbox' = Append(outbox, Answer("OK"))
      /\ UNCHANGED <<ctx, pointVars, focus_hart, stop_hart, askVars>> /\ Stay
  BY DEF handle_write_registers, handle_write_single_register, Take, send_packet
<1>2. harts' \in [Harts -> Cpu]
  <2>1. /\ Take("G") => Head(inbox).arg \in CodeAddr
        /\ Take("P") => Head(inbox).arg \in CodeAddr \cup {0}
    BY ArgType DEF IInv, Accounts
  <2>2. \/ harts' = harts
        \/ \E a \in CodeAddr : harts' = [harts EXCEPT ![focus_hart].pc = a]
    BY <2>1 DEF handle_write_registers, handle_write_single_register
  <2> QED BY <2>2 DEF IInv, CoreOK, Cpu
<1>3. CoreOK' /\ LoopExit'
  BY <1>1, <1>2 DEF IInv, CoreOK, LoopExit, Stay, ctlVars, sigVars, pointVars, askVars
<1>4. Accounts'
  BY <1>1, AnswerType, AnswerNow DEF IInv, Stay, ctlVars
<1> QED BY <1>3, <1>4 DEF IInv

LEMMA ResetHartsType == ResetHarts \in [Harts -> Cpu]
BY AddrAssumption DEF ResetHarts, Cpu

LEMMA ResetStep ==
  ASSUME IInv, handle_reset
  PROVE  IInv'
<1>1. ctx' \in Context
  <2>1. 1 \in Threads /\ -1 \in Tids /\ 0 \in 0 .. NumHarts
    BY ThreadFacts
  <2> QED BY <2>1 DEF handle_reset, IInv, CoreOK, Context
<1>2. CoreOK' /\ LoopExit'
  BY <1>1, ResetHartsType, ThreadFacts DEF IInv, CoreOK, LoopExit, handle_reset, Take, Stay,
         ctlVars, sigVars
<1>3. Accounts'
  BY AnswerType, AnswerNow DEF IInv, handle_reset, Take, Stay, ctlVars, send_packet
<1> QED BY <1>2, <1>3 DEF IInv

LEMMA SetThreadStep ==
  ASSUME IInv, handle_set_thread
  PROVE  IInv'
<1>1. /\ ctx' \in Context /\ focus_hart' \in Harts /\ hc' \in Tids
      /\ UNCHANGED <<pointVars, harts, stop_hart, asked, sched>> /\ Stay
      /\ phase = "process" /\ inbox # <<>> /\ inbox' = Tail(inbox)
      /\ \E k \in {"OK", "E01"} : outbox' = Append(outbox, Answer(k))
  <2>1. CASE Take("Hc")
    <3>1. Head(inbox).arg \in Tids
      BY <2>1, ArgType DEF IInv, Accounts
    <3>2. ~Take("Hg")
      BY <2>1 DEF Take
    <3> QED BY <2>1, <3>1, <3>2 DEF handle_set_thread, IInv, CoreOK, Context, Take,
               send_packet, sysVars
  <2>2. CASE Take("Hg")
    <3>1. ~Take("Hc")
      BY <2>2 DEF Take
    <3> DEFINE tid == IF Head(inbox).arg > 0 THEN Head(inbox).arg
                      ELSE (IF stop_hart >= 0 THEN stop_hart ELSE focus_hart) + 1
    <3>2. \/ /\ tid \in Threads
             /\ ctx' = [ctx EXCEPT !.current_thread = tid]
             /\ focus_hart' = tid - 1
             /\ send_packet(Answer("OK"))
          \/ UNCHANGED <<ctx, focus_hart>> /\ send_packet(Answer("E01"))
      BY <2>2, <3>1 DEF handle_set_thread, ValidThread
    <3> HIDE DEF tid
    <3>3. ctx' \in Context /\ focus_hart' \in Harts
      BY <3>2, ThreadFacts DEF IInv, CoreOK, Context
    <3>4. \E k \in {"OK", "E01"} : outbox' = Append(outbox, Answer(k))
      BY <3>2 DEF send_packet
    <3>5. UNCHANGED <<pointVars, harts, stop_hart, askVars>> /\ Stay
      BY <2>2, <3>1 DEF handle_set_thread
    <3> QED BY <2>2, <3>3, <3>4, <3>5 DEF Take, askVars, IInv, CoreOK
  <2> QED BY <2>1, <2>2 DEF handle_set_thread
<1>2. CoreOK' /\ LoopExit'
  BY <1>1 DEF IInv, CoreOK, LoopExit, Stay, ctlVars, sigVars, pointVars
<1>3. Accounts'
  BY <1>1, AnswerType, AnswerNow DEF IInv, Stay, ctlVars
<1> QED BY <1>2, <1>3 DEF IInv

(***************************************************************************)
(* Packets that resume the target.                                         *)
(***************************************************************************)
LEMMA ResumeRunnableType ==
  ASSUME NEW c, harts \in [Harts -> Cpu], sys_resume_runnable(c)
  PROVE  harts' \in [Harts -> Cpu]
<1>1. \A h \in Harts : [harts[h] EXCEPT !.halted = FALSE] \in Cpu
  BY DEF Cpu
<1> QED BY <1>1 DEF sys_resume_runnable

LEMMA ResumeFacts ==
  ASSUME IInv, NEW step \in BOOLEAN, NEW t \in Tids,
         NEW request \in [step : BOOLEAN, tid : Tids],
         phase = "process", inbox # <<>>, inbox' = Tail(inbox),
         Resume(step, t, request)
  PROVE  IInv'
<1>1. ctx' \in Context
  <2>1. 0 \in 0 .. NumHarts
    BY ThreadFacts
  <2> QED BY <2>1 DEF Resume, IInv, CoreOK, Context
<1>2. harts' \in [Harts -> Cpu]
  BY ResumeRunnableType DEF Resume, IInv, CoreOK
<1>3. sched' \in [Harts -> 0 .. 2]
  BY DEF Resume
<1>4. CoreOK' /\ LoopExit'
  BY <1>1, <1>2, <1>3 DEF Resume, IInv, CoreOK, LoopExit, Phases, pointVars, sigVars
<1>5. Accounts'
  BY AnswerLater DEF Resume, IInv
<1> QED BY <1>4, <1>5 DEF IInv

LEMMA ContinueStep ==
  ASSUME IInv, Continue
  PROVE  IInv'
<1>1. [step |-> FALSE, tid |-> hc] \in [step : BOOLEAN, tid : Tids] /\ -1 \in Tids
  BY ThreadFacts DEF IInv, CoreOK
<1> QED BY <1>1, ResumeFacts DEF Continue, Take

LEMMA SingleStepStep ==
  ASSUME IInv, SingleStep
  PROVE  IInv'
<1>1. ctx.current_thread \in Tids /\ ctx.continue_thread \in Tids /\ hc \in Tids
  BY ThreadFacts DEF IInv, CoreOK, Context
<1> DEFINE t == IF ctx.continue_thread < 0 THEN ctx.current_thread ELSE ctx.continue_thread
           r == [step |-> TRUE, tid |-> IF hc > 0 THEN hc ELSE ctx.current_thread]
<1>2. t \in Tids /\ r \in [step : BOOLEAN, tid : Tids]
  BY <1>1
<1>3. Resume(TRUE, t, r) /\ Take("s")
  BY DEF SingleStep
<1> HIDE DEF t, r
<1> QED BY <1>2, <1>3, ResumeFacts DEF Take

LEMMA VContStep ==
  ASSUME IInv, handle_vcont
  PROVE  IInv'
<1> DEFINE acts == Head(inbox).actions
<1>0. Take("vCont") /\ acts \in Seq(VAction)
  BY ArgType DEF handle_vcont, IInv, Accounts
<1>1. \A i \in DOMAIN acts : acts[i].tid \in Tids
  <2> SUFFICES ASSUME NEW i \in DOMAIN acts PROVE acts[i].tid \in Tids
    OBVIOUS
  <2>1. acts[i] \in VAction
    <3> HIDE DEF acts
    <3> QED BY <1>0
  <2> QED BY <2>1 DEF VAction
<1>2. ctx.current_thread \in Tids
  BY ThreadFacts DEF IInv, CoreOK, Context
<1>3. CASE /\ \E k \in {"E01", ""} : send_packet(Answer(k))
           /\ UNCHANGED <<ctx, pointVars, sysVars, askVars>> /\ Stay
  <2>1. CoreOK' /\ LoopExit'
    BY <1>0, <1>3 DEF IInv, CoreOK, LoopExit, Take, Stay, ctlVars, sigVars, pointVars,
           sysVars, askVars
  <2>2. Accounts'
    BY <1>0, <1>3, AnswerType, AnswerNow DEF IInv, Take, Stay, ctlVars, send_packet
  <2> QED BY <2>1, <2>2 DEF IInv
<1>4. CASE \E i \in DOMAIN acts :
             LET t == IF acts[i].tid > 0 THEN acts[i].tid ELSE ctx.current_thread
             IN  Resume(TRUE, t, [step |-> TRUE, tid |-> t])
  <2>1. PICK t \in Tids : Resume(TRUE, t, [step |-> TRUE, tid |-> t])
    BY <1>1, <1>2, <1>4
  <2>2. [step |-> TRUE, tid |-> t] \in [step : BOOLEAN, tid : Tids]
    OBVIOUS
  <2> QED BY <1>0, <2>1, <2>2, ResumeFacts DEF Take
<1>5. CASE \E i \in DOMAIN acts :
             Resume(FALSE, acts[i].tid, [step |-> FALSE, tid |-> acts[i].tid])
  <2>1. PICK t \in Tids : Resume(FALSE, t, [step |-> FALSE, tid |-> t])
    BY <1>1, <1>5
  <2>2. [step |-> FALSE, tid |-> t] \in [step : BOOLEAN, tid : Tids]
    OBVIOUS
  <2> QED BY <1>0, <2>1, <2>2, ResumeFacts DEF Take
<1> QED BY <1>3, <1>4, <1>5 DEF handle_vcont

LEMMA LeaveStep ==
  ASSUME IInv, Kill \/ Detach \/ EndOfFile \/ DefaultSigint \/ BrokenPipe
  PROVE  IInv'
<1>1. /\ phase' = "exit"
      /\ UNCHANGED <<ctx, pointVars, sysVars, sigVars, hart, clientVars, askVars>>
  BY DEF Kill, Detach, EndOfFile, DefaultSigint, BrokenPipe
<1>2. CoreOK' /\ LoopExit'
  BY <1>1 DEF IInv, CoreOK, LoopExit, Phases, sigVars, pointVars, sysVars, askVars
<1>3. CASE Kill
  BY <1>1, <1>3, AnswerLater, <1>2 DEF IInv, Kill, Take
<1>4. CASE Detach
  BY <1>1, <1>2, <1>4, AnswerType, AnswerNow DEF IInv, Detach, Take, send_packet
<1>5. CASE EndOfFile \/ DefaultSigint \/ BrokenPipe
  BY <1>1, <1>2, <1>5, Leaves DEF IInv, EndOfFile, DefaultSigint, BrokenPipe
<1> QED BY <1>3, <1>4, <1>5

LEMMA ProcessStep ==
  ASSUME IInv, gdb_stub_process
  PROVE  IInv'
BY QuerySteps, CtrlCStep, HaltReasonStep, BreakpointStep, MemoryStep, WriteRegistersStep,
   ResetStep, SetThreadStep, ContinueStep, SingleStepStep, VContStep, LeaveStep
   DEF gdb_stub_process

(***************************************************************************)
(* main, step_focus_hart and continue_all_harts.                           *)
(***************************************************************************)
LEMMA HartStop ==       \* handle_hart_stop ends a run with one stop reply
  ASSUME IInv, phase \in Running,
         NEW c \in Context, NEW h \in Harts, NEW sig \in {4, 5}, NEW pc \in CodeAddr,
         handle_hart_stop(c, h, sig, pc),
         harts' \in [Harts -> Cpu], sched' \in [Harts -> 0 .. 2],
         UNCHANGED <<pointVars, sigVars, inbox, clientVars, hc, asked, hart>>
  PROVE  IInv'
<1> DEFINE d == [c EXCEPT !.should_stop = TRUE, !.stop_thread = h + 1]
<1>1. d \in Context
  BY ThreadFacts DEF Context
<1>2. /\ ctx' = Reported(d) /\ outbox' = Append(outbox, StopReply(d, sig, pc))
      /\ stop_hart' = h /\ focus_hart' = h /\ phase' = "process"
  BY DEF handle_hart_stop, gdb_stub_send_stop_reason, send_packet
<1> HIDE DEF d
<1>3. StopReply(d, sig, pc) \in Reply /\ ctx' \in Context
  BY <1>1, <1>2, StopReplyType DEF Addr
<1>4. CoreOK' /\ LoopExit'
  BY <1>2, <1>3 DEF IInv, CoreOK, LoopExit, Phases, sigVars, pointVars
<1>5. Accounts'
  BY <1>2, <1>3, RunEnds DEF IInv
<1> QED BY <1>4, <1>5 DEF IInv

LEMMA CountType ==
  ASSUME NEW h \in Harts, sched \in [Harts -> 0 .. 2], Count(h)
  PROVE  sched' \in [Harts -> 0 .. 2]
BY DEF Count

LEMMA WithHitType ==
  ASSUME NEW c \in Context, NEW a \in Addr \cup {0}
  PROVE  WithHit(c, a) \in Context
BY DEF WithHit, Context

LEMMA MainResumeStep ==
  ASSUME IInv, MainResume
  PROVE  IInv'
<1>1. harts' \in [Harts -> Cpu]
  BY ResumeRunnableType DEF MainResume, IInv, CoreOK
<1>2. CoreOK' /\ LoopExit'
  BY <1>1 DEF MainResume, IInv, CoreOK, LoopExit, Phases, sigVars, pointVars, askVars
<1>3. Accounts'
  BY StillRunning DEF MainResume, IInv, Running, Phases
<1> QED BY <1>2, <1>3 DEF IInv

LEMMA StepFocusStep ==
  ASSUME IInv, step_focus_hart
  PROVE  IInv'
<1>0. /\ phase \in Running /\ ctx \in Context /\ focus_hart \in Harts
      /\ harts \in [Harts -> Cpu] /\ harts[focus_hart] \in Cpu
      /\ harts[focus_hart].pc \in CodeAddr
      /\ sched \in [Harts -> 0 .. 2]
      /\ UNCHANGED <<pointVars, sigVars, hart, inbox, clientVars, hc, asked>>
  BY DEF step_focus_hart, Running, Phases, IInv, CoreOK, Cpu
<1>1. CASE StepRefused
  <2> DEFINE d == [ctx EXCEPT !.stop_thread = focus_hart + 1]
  <2>1. d \in Context
    BY <1>0, ThreadFacts DEF Context
  <2>2. /\ ctx' = Reported(d)
        /\ outbox' = Append(outbox, StopReply(d, 0, harts[focus_hart].pc))
        /\ phase' = "process" /\ UNCHANGED <<sysVars, sched>>
    BY <1>1 DEF StepRefused, gdb_stub_send_stop_reason, send_packet
  <2> HIDE DEF d
  <2>3. StopReply(d, 0, harts[focus_hart].pc) \in Reply /\ ctx' \in Context
    BY <1>0, <2>1, <2>2, StopReplyType DEF Addr
  <2>4. CoreOK' /\ LoopExit'
    BY <1>0, <2>2, <2>3 DEF IInv, CoreOK, LoopExit, Phases, sigVars, pointVars, sysVars
  <2>5. Accounts'
    BY <1>0, <2>2, <2>3, RunEnds DEF IInv
  <2> QED BY <2>4, <2>5 DEF IInv
<1>2. CASE StepAtBreakpoint
  <2> DEFINE c == [ctx EXCEPT !.breakpoint_hit = TRUE]
  <2>1. c \in Context
    BY <1>0 DEF Context
  <2>2. handle_hart_stop(c, focus_hart, 5, harts[focus_hart].pc) /\ UNCHANGED <<harts, sched>>
    BY <1>2 DEF StepAtBreakpoint
  <2> HIDE DEF c
  <2> QED BY <1>0, <2>1, <2>2, HartStop
<1>3. CASE StepExecutes
  <2>1. PICK o \in sys_cpu_step(focus_hart) :
             /\ harts' = o.harts
             /\ handle_hart_stop([WithHit(ctx, o.hit) EXCEPT !.single_step = FALSE], focus_hart,
                   IF o.harts[focus_hart].running \/ o.harts[focus_hart].halted THEN 5 ELSE 4,
                   o.harts[focus_hart].pc)
    BY <1>3 DEF StepExecutes
  <2>2. o.harts \in [Harts -> Cpu] /\ o.hit \in Addr \cup {0}
    BY <1>0, SysCpuStepType, TypeSplit DEF IInv, Accounts
  <2>3. WithHit(ctx, o.hit) \in Context
    BY <1>0, <2>2, WithHitType
  <2>4. [WithHit(ctx, o.hit) EXCEPT !.single_step = FALSE] \in Context
    BY <2>3 DEF Context
  <2>5. o.harts[focus_hart].pc \in CodeAddr
    BY <1>0, <2>2 DEF Cpu
  <2>6. sched' \in [Harts -> 0 .. 2]
    BY <1>0, <1>3, CountType DEF StepExecutes
  <2> QED BY <1>0, <2>1, <2>2, <2>4, <2>5, <2>6, HartStop
<1> QED BY <1>1, <1>2, <1>3 DEF step_focus_hart

LEMMA NextHartType ==
  ASSUME hart \in Harts, NextHart
  PROVE  hart' \in Harts /\ phase' \in {"hart", "poll"}
BY DEF NextHart

\* Steps of the loop that only move through it.
LEMMA LoopMoves ==
  ASSUME IInv, LoopTest \/ SkipHart \/ Poll
  PROVE  IInv'
<1>1. /\ ctx' \in Context /\ hart' \in Harts /\ phase' \in {"hart", "after", "poll", "loop"}
      /\ UNCHANGED <<sysVars, outbox, sched>> /\ Quiet /\ phase \in Running
  <2>1. CASE LoopTest
    BY <2>1, ThreadFacts DEF LoopTest, IInv, CoreOK, Running, Phases
  <2>2. CASE SkipHart
    BY <2>2, NextHartType DEF SkipHart, IInv, CoreOK, Running, Phases
  <2>3. CASE Poll
    BY <2>3 DEF Poll, IInv, CoreOK, Context, Running, Phases
  <2> QED BY <2>1, <2>2, <2>3
<1>2. CoreOK'
  BY <1>1 DEF IInv, CoreOK, Phases, Quiet, sysVars, pointVars, sigVars
<1>3. Accounts'
  BY <1>1, StillRunning DEF IInv, Quiet, Running, Phases
<1>4. LoopExit'
  <2>1. CASE LoopTest
    BY <2>1 DEF LoopTest, LoopExit, Quiet, sigVars, sysVars, sys_any_running
  <2>2. CASE SkipHart
    BY <2>2, NextHartType DEF SkipHart, LoopExit, IInv, CoreOK
  <2>3. CASE Poll
    BY <2>3 DEF Poll, LoopExit, IInv, CoreOK, Context
  <2> QED BY <2>1, <2>2, <2>3
<1> QED BY <1>2, <1>3, <1>4 DEF IInv

LEMMA HartAtBreakpointStep ==
  ASSUME IInv, HartAtBreakpoint
  PROVE  IInv'
<1> DEFINE c == [ctx EXCEPT !.breakpoint_hit = TRUE]
<1>1. c \in Context
  BY DEF IInv, CoreOK, Context
<1>2. /\ handle_hart_stop(c, hart, 5, harts[hart].pc)
      /\ UNCHANGED <<pointVars, sigVars, inbox, clientVars, hc, asked, hart, harts, sched>>
      /\ phase \in Running
  BY DEF HartAtBreakpoint, Scheduled, Quiet, Running, Phases
<1>3. hart \in Harts /\ harts[hart].pc \in CodeAddr /\ harts' \in [Harts -> Cpu]
      /\ sched' \in [Harts -> 0 .. 2]
  BY <1>2 DEF IInv, CoreOK, Cpu
<1> HIDE DEF c
<1> QED BY <1>1, <1>2, <1>3, HartStop

LEMMA HartExecutesStep ==
  ASSUME IInv, HartExecutes
  PROVE  IInv'
<1>0. hart \in Harts /\ ctx \in Context /\ sched \in [Harts -> 0 .. 2]
  BY DEF IInv, CoreOK
<1>1. PICK o \in sys_cpu_step(hart) :
           harts' = o.harts /\ stop_hart' = o.by /\ ctx' = WithHit(ctx, o.hit)
  BY DEF HartExecutes
<1>2. o.harts \in [Harts -> Cpu] /\ o.hit \in Addr \cup {0} /\ o.by \in Harts \cup {-1}
  BY <1>0, SysCpuStepType, TypeSplit DEF IInv, Accounts
<1>3. ctx' \in Context
  BY <1>0, <1>1, <1>2, WithHitType
<1>4. sched' \in [Harts -> 0 .. 2]
  BY <1>0, CountType DEF HartExecutes
<1>5. CoreOK' /\ LoopExit'
  BY <1>1, <1>2, <1>3, <1>4 DEF IInv, CoreOK, LoopExit, HartExecutes, Quiet, Phases,
         pointVars, sigVars
<1>6. Accounts'
  BY StillRunning DEF IInv, HartExecutes, Scheduled, Quiet, Running, Phases
<1> QED BY <1>5, <1>6 DEF IInv

LEMMA HartInspectedStep ==
  ASSUME IInv, HartInspected
  PROVE  IInv'
<1>0. /\ hart \in Harts /\ ctx \in Context /\ harts[hart].pc \in CodeAddr
      /\ harts' \in [Harts -> Cpu] /\ sched' \in [Harts -> 0 .. 2]
      /\ phase \in Running /\ Quiet /\ UNCHANGED <<harts, sched>>
  BY DEF IInv, CoreOK, Cpu, HartInspected, Running, Phases
<1>1. CASE /\ handle_hart_stop(ctx, hart, IF harts[hart].halted THEN 5 ELSE 4, harts[hart].pc)
           /\ UNCHANGED hart
  BY <1>0, <1>1, HartStop DEF Quiet
<1>2. CASE NextHart /\ UNCHANGED <<ctx, focus_hart, stop_hart, outbox>>
  <2>1. hart' \in Harts /\ phase' \in {"hart", "poll"}
    BY <1>0, <1>2, NextHartType
  <2>2. CoreOK' /\ LoopExit'
    BY <1>0, <1>2, <2>1 DEF IInv, CoreOK, LoopExit, Quiet, Phases, pointVars, sigVars
  <2>3. Accounts'
    BY <1>0, <1>2, <2>1, StillRunning DEF IInv, Quiet, Running, Phases
  <2> QED BY <2>2, <2>3 DEF IInv
<1> QED BY <1>1, <1>2 DEF HartInspected

\* Behind the loop one of the three conditions holds, so exactly one reply is sent.
LEMMA AfterLoopStep ==
  ASSUME IInv, AfterLoop
  PROVE  IInv'
<1>0. /\ ctx \in Context /\ focus_hart \in Harts /\ stop_hart \in Harts \cup {-1}
      /\ harts[focus_hart].pc \in CodeAddr /\ phase = "after"
      /\ phase \in Running /\ phase' = "process" /\ g_interrupt_received \in BOOLEAN
      /\ UNCHANGED <<pointVars, sysVars, handler, hart, inbox, clientVars, askVars>>
  BY DEF AfterLoop, IInv, CoreOK, Cpu, Running, Phases
<1> DEFINE c == [ctx EXCEPT !.should_stop = TRUE]
           n == (IF stop_hart >= 0 THEN stop_hart ELSE focus_hart) + 1
           d == [c EXCEPT !.stop_thread = n]
<1>1. g_interrupt_received' \in BOOLEAN
      /\ \E sig \in {2, 4} : notify_stop(c, sig, harts[focus_hart].pc)
  BY <1>0 DEF AfterLoop, IInv, LoopExit
<1>2. PICK sig \in {2, 4} : notify_stop(c, sig, harts[focus_hart].pc)
  BY <1>1
<1>3. d \in Context
  <2>1. n \in 0 .. NumHarts
    BY <1>0, ThreadFacts
  <2>2. c \in Context
    BY <1>0 DEF Context
  <2> HIDE DEF c, n
  <2> QED BY <2>1, <2>2 DEF Context
<1>4. ctx' = Reported(d) /\ outbox' = Append(outbox, StopReply(d, sig, harts[focus_hart].pc))
  BY <1>2 DEF notify_stop, gdb_stub_send_stop_reason, send_packet
<1> HIDE DEF c, d, n
<1>5. StopReply(d, sig, harts[focus_hart].pc) \in Reply /\ ctx' \in Context
  BY <1>0, <1>3, <1>4, StopReplyType DEF Addr
<1>6. CoreOK' /\ LoopExit'
  BY <1>0, <1>1, <1>5 DEF IInv, CoreOK, LoopExit, Phases, pointVars, sysVars, askVars
<1>7. Accounts'
  BY <1>0, <1>4, <1>5, RunEnds DEF IInv
<1> QED BY <1>6, <1>7 DEF IInv

LEMMA StubStep ==
  ASSUME IInv, Stub
  PROVE  IInv'
BY ProcessStep, MainResumeStep, StepFocusStep, LoopMoves, HartAtBreakpointStep,
   HartExecutesStep, HartInspectedStep, AfterLoopStep
   DEF Stub, continue_all_harts

(***************************************************************************)
(* The signal handler and the debugger.                                    *)
(***************************************************************************)
LEMMA SignalStep ==
  ASSUME IInv, sigint_handler
  PROVE  IInv'
<1>1. ctx' \in Context /\ ctx'.should_stop
  BY DEF IInv, CoreOK, sigint_handler, Context
<1>2. harts' \in [Harts -> Cpu]
  BY DEF IInv, CoreOK, sigint_handler, sys_halt_all, Cpu
<1>3. phase' = phase \/ phase' = "exit"
  BY DEF sigint_handler
<1>4. CoreOK' /\ LoopExit'
  BY <1>1, <1>2, <1>3 DEF IInv, CoreOK, LoopExit, sigint_handler, Phases, pointVars, askVars
<1>5. Accounts'
  BY <1>3, Leaves DEF IInv, sigint_handler
<1> QED BY <1>4, <1>5 DEF IInv

LEMMA ClientStep ==
  ASSUME IInv, Client
  PROVE  IInv'
<1>1. UNCHANGED EmuVars
  BY DEF Client, ClientSend, ClientInterrupt, ClientReceive, ClientClose, Send
<1>2. CoreOK' /\ LoopExit'
  BY <1>1 DEF IInv, CoreOK, LoopExit, EmuVars, pointVars, sysVars, sigVars, ctlVars, askVars,
         sys_any_running
<1>3. UNCHANGED phase
  BY <1>1 DEF EmuVars, ctlVars
<1>4. ASSUME NEW p \in Commands \cup {Intr}, Send(p), client' \in {"reply", "stop"}
      PROVE  Accounts'
  BY <1>3, <1>4, BoundAssumption DEF IInv, Accounts, LinkOK, Balance, Covered, Send
<1>5. CASE \E p \in Commands : ClientSend(p)
  <2>1. PICK p \in Commands : ClientSend(p)
    BY <1>5
  <2> QED BY <1>2, <1>4, <2>1 DEF IInv, ClientSend
<1>6. CASE ClientInterrupt
  BY <1>2, <1>4, <1>6 DEF IInv, ClientInterrupt
<1>7. CASE ClientReceive
  <2>1. Accounts'
    BY <1>3, <1>7, BoundAssumption DEF IInv, Accounts, LinkOK, Balance, Covered,
           ClientReceive
  <2> QED BY <1>2, <2>1 DEF IInv
<1>8. CASE ClientClose
  <2>1. Accounts'
    BY <1>3, <1>8 DEF IInv, Accounts, LinkOK, Balance, Covered, ClientClose
  <2> QED BY <1>2, <2>1 DEF IInv
<1> QED BY <1>5, <1>6, <1>7, <1>8 DEF Client

(***************************************************************************)
(* The theorems.                                                           *)
(***************************************************************************)
LEMMA InitFacts == Init => IInv
<1> SUFFICES ASSUME Init PROVE IInv
  OBVIOUS
<1>1. ctx \in Context
  <2>1. 1 \in Threads /\ -1 \in Tids /\ 0 \in 0 .. NumHarts
    BY ThreadFacts
  <2> QED BY <2>1 DEF Init, Context
<1>2. CoreOK /\ LoopExit
  <2>1. g_interrupt_received \in BOOLEAN /\ handler \in BOOLEAN
    BY Zenon DEF Init
  <2>2. sched \in [Harts -> 0 .. 2] /\ asked \in [step : BOOLEAN, tid : Tids]
    <3>1. sched = [h \in Harts |-> 0] /\ asked = [step |-> FALSE, tid |-> -1]
      BY Zenon DEF Init
    <3> QED BY <3>1, ThreadFacts
  <2>3. harts \in [Harts -> Cpu] /\ bp \subseteq CodeAddr /\ wp \subseteq Addr
    BY ResetHartsType, Zenon DEF Init
  <2>4. focus_hart = 0 /\ stop_hart = -1 /\ hart = 0 /\ hc = -1 /\ phase = "process"
    BY Zenon DEF Init
  <2> QED BY <1>1, <2>1, <2>2, <2>3, <2>4, ThreadFacts DEF CoreOK, LoopExit, Phases
<1>3. Accounts
  <2>1. /\ inbox = <<>> /\ outbox = <<>> /\ owed = 0 /\ phase = "process"
        /\ closed \in BOOLEAN /\ client \in {"idle", "reply", "stop", "gone"}
    BY Zenon DEF Init
  <2> QED BY <2>1, BoundAssumption DEF Accounts, LinkOK, Balance, Covered, Running, Phases
<1> QED BY <1>2, <1>3 DEF IInv

LEMMA StepFacts ==
  ASSUME IInv, [Next]_vars
  PROVE  IInv'
<1>1. CASE Stub
  BY <1>1, StubStep
<1>2. CASE sigint_handler
  BY <1>2, SignalStep
<1>3. CASE DefaultSigint \/ BrokenPipe
  BY <1>3, LeaveStep
<1>4. CASE Client
  BY <1>4, ClientStep
<1>5. CASE UNCHANGED vars
  BY <1>5 DEF IInv, CoreOK, Accounts, LinkOK, Balance, Covered, LoopExit, vars,
         pointVars, sysVars, sigVars, ctlVars, clientVars, askVars, sys_any_running
<1> QED BY <1>1, <1>2, <1>3, <1>4, <1>5 DEF Next

LEMMA Invariance == Spec => []IInv
BY InitFacts, StepFacts, PTL DEF Spec

\* Types hold in every state of every run-control execution.  In particular
\* current_thread always names an existing hart, which Hg's range test in
\* handle_set_thread is there to ensure, and focus_hart can index harts.
THEOREM TypeCorrect == Spec => []TypeOK
<1>1. IInv => TypeOK
  BY TypeSplit DEF IInv, Accounts
<1> QED BY <1>1, Invariance, PTL

\* Every packet, the interrupt byte included, is answered exactly once, as long as no
\* read asks for more than a reply can hold: by its handler in gdb_stub_process, or by
\* the one stop reply that ends the run it started, wherever a signal or another
\* packet interrupts that run.
THEOREM AnswersMatch ==
  ASSUME RepliesFit
  PROVE  Spec => []AnsweredOnce
<1>1. IInv => AnsweredOnce
  BY DEF IInv, Accounts, Balance, AnsweredOnce
<1> QED BY <1>1, Invariance, PTL

(***************************************************************************)
(* Whom a run serves.  Order ties the phase to the request behind it.      *)
(* Obeyed relates continue_thread, by which the loop and step_focus_hart   *)
(* choose harts, to the thread the debugger asked for, and Chosen says     *)
(* which thread a later s would step.                                      *)
(***************************************************************************)
Looping == {"loop", "hart", "ran", "poll", "after"}

\* The debugger resumes with c and s only and selects no thread with Hc: c ignores the
\* selection, and s does not replace one that is left from an earlier s.
Plain == \A p \in Commands : p.op # "vCont" /\ (p.op = "Hc" => p.arg = -1)

\* The debugger resumes with vCont only, as one that finds vCont supported does.
Direct == \A p \in Commands : p.op \notin {"c", "s"}

\* The debugger never steps with s.
NoPlainStep == \A p \in Commands : p.op # "s"

Order ==
  /\ phase \in {"resumed", "step"} => \A h \in Harts : sched[h] = 0
  /\ phase = "resumed" => asked.step = ctx.single_step
  /\ phase = "step" => asked.step
  /\ phase \in Looping => ~asked.step
  /\ NoPlainStep /\ phase \in Running /\ asked.step => ctx.continue_thread = asked.tid

Obeyed ==
  Plain \/ Direct =>
    /\ phase \in Running /\ ~asked.step => ctx.continue_thread = asked.tid
    /\ phase \in Running /\ asked.step =>
         /\ ctx.continue_thread > 0
         /\ ctx.continue_thread = focus_hart + 1 => asked.tid = ctx.continue_thread
    /\ RunsAsAsked

Chosen ==
  Plain => /\ hc = -1 /\ (~asked.step => asked.tid = -1)
           /\ \/ ctx.continue_thread < 0 \/ ctx.continue_thread = ctx.current_thread
              \/ focus_hart + 1 = ctx.current_thread

Requests == Order /\ Obeyed /\ Chosen

\* A step that leaves the request and the choice of threads alone.
Calm ==
  /\ UNCHANGED <<asked, sched, hc, focus_hart>>
  /\ ctx'.single_step = ctx.single_step
  /\ ctx'.continue_thread = ctx.continue_thread
  /\ ctx'.current_thread = ctx.current_thread
  /\ phase' \in {phase, "process", "exit"} \/ (phase \in Looping /\ phase' \in Looping)

LEMMA CalmRests ==
  ASSUME Requests, Calm
  PROVE  Requests'
<1>1. /\ phase' \in Running => phase \in Running
      /\ phase' \in {"resumed", "step"} => phase' = phase
      /\ phase' \in Looping => phase \in Looping
  BY DEF Calm, Looping, Running, Phases
<1>2. Order'
  BY <1>1 DEF Requests, Order, Calm
<1>3. Obeyed'
  BY <1>1 DEF Requests, Obeyed, RunsAsAsked, Calm
<1>4. Chosen'
  BY DEF Requests, Chosen, Calm
<1> QED BY <1>2, <1>3, <1>4 DEF Requests

\* gdb_stub_send_stop_reason consumes its flags and nothing else.
LEMMA ReportedKeeps ==
  ASSUME NEW c \in Context
  PROVE  /\ Reported(c).single_step = c.single_step
         /\ Reported(c).continue_thread = c.continue_thread
         /\ Reported(c).current_thread = c.current_thread
         /\ ~Reported(c).breakpoint_hit
         /\ ~c.breakpoint_hit => Reported(c).last_watchpoint_addr = 0
         /\ c.last_watchpoint_addr = 0 => Reported(c).last_watchpoint_addr = 0
BY DEF Reported, Context

LEMMA CalmSteps ==
  ASSUME IInv,
         \/ handle_read_registers \/ handle_read_single_register \/ handle_query
         \/ handle_general_set \/ handle_thread_alive \/ \E op : Malformed(op)
         \/ CtrlC \/ handle_halt_reason \/ handle_breakpoint
         \/ handle_read_memory \/ handle_search_memory
         \/ handle_write_memory \/ handle_write_memory_binary
         \/ handle_write_registers \/ handle_write_single_register
         \/ Kill \/ Detach \/ EndOfFile \/ DefaultSigint \/ BrokenPipe
         \/ sigint_handler \/ Client \/ UNCHANGED vars
         \/ LoopTest \/ SkipHart \/ Poll \/ AfterLoop
  PROVE  Calm
<1>0. ctx \in Context /\ phase \in Phases
  BY DEF IInv, CoreOK
<1>1. CASE \/ handle_read_registers \/ handle_read_single_register \/ handle_query
           \/ handle_general_set \/ handle_thread_alive \/ \E op : Malformed(op)
           \/ handle_breakpoint \/ handle_write_registers \/ handle_write_single_register
  BY <1>1 DEF Calm, handle_read_registers, handle_read_single_register, handle_query,
       handle_general_set, handle_thread_alive, Malformed, handle_breakpoint,
       handle_write_registers, handle_write_single_register, sysVars, askVars, Stay, ctlVars
<1>2. CASE CtrlC
  <2> DEFINE c == [ctx EXCEPT !.should_stop = TRUE,
                              !.stop_thread = IF @ = 0 THEN ctx.current_thread ELSE @]
  <2>1. /\ c \in Context /\ c.single_step = ctx.single_step
        /\ c.continue_thread = ctx.continue_thread /\ c.current_thread = ctx.current_thread
    BY <1>0, ThreadFacts DEF Context
  <2>2. ctx' = Reported(c)
    BY <1>2 DEF CtrlC, gdb_stub_send_stop_reason
  <2> HIDE DEF c
  <2> QED BY <1>2, <2>1, <2>2, ReportedKeeps DEF CtrlC, Calm, askVars, Stay, ctlVars
<1>3. CASE handle_halt_reason
  <2>1. /\ ctx'.single_step = ctx.single_step
        /\ ctx'.continue_thread = ctx.continue_thread
        /\ ctx'.current_thread = ctx.current_thread
    BY <1>0, <1>3 DEF handle_halt_reason, Context
  <2> QED BY <1>3, <2>1 DEF handle_halt_reason, Calm, askVars, sysVars, Stay, ctlVars
<1>4. CASE \/ handle_read_memory \/ handle_search_memory
           \/ handle_write_memory \/ handle_write_memory_binary
  <2>1. /\ UNCHANGED ctx \/ \E a : ctx' = [ctx EXCEPT !.last_watchpoint_addr = a]
        /\ UNCHANGED <<pointVars, focus_hart, askVars>> /\ Stay
    BY <1>4 DEF handle_read_memory, handle_search_memory, handle_write_memory,
         handle_write_memory_binary, DebugAccess
  <2>2. /\ ctx'.single_step = ctx.single_step
        /\ ctx'.continue_thread = ctx.continue_thread
        /\ ctx'.current_thread = ctx.current_thread
    BY <1>0, <2>1 DEF Context
  <2> QED BY <2>1, <2>2 DEF Calm, askVars, Stay, ctlVars
<1>5. CASE Kill \/ Detach \/ EndOfFile \/ DefaultSigint \/ BrokenPipe
  BY <1>5 DEF Calm, Kill, Detach, EndOfFile, DefaultSigint, BrokenPipe, sysVars, askVars
<1>6. CASE sigint_handler
  <2>1. /\ ctx'.single_step = ctx.single_step
        /\ ctx'.continue_thread = ctx.continue_thread
        /\ ctx'.current_thread = ctx.current_thread
    BY <1>0, <1>6 DEF sigint_handler, Context
  <2> QED BY <1>6, <2>1 DEF sigint_handler, Calm, askVars
<1>7. CASE Client
  <2>1. UNCHANGED EmuVars
    BY <1>7 DEF Client, ClientSend, ClientInterrupt, ClientReceive, ClientClose, Send
  <2> QED BY <2>1 DEF EmuVars, Calm, askVars, sysVars, ctlVars
<1>8. CASE UNCHANGED vars
  BY <1>8 DEF vars, Calm, askVars, sysVars, ctlVars
<1>9. CASE LoopTest \/ SkipHart
  BY <1>9 DEF LoopTest, SkipHart, NextHart, Calm, Looping, sysVars, Quiet
<1>10. CASE Poll
  <2>1. /\ ctx'.single_step = ctx.single_step
        /\ ctx'.continue_thread = ctx.continue_thread
        /\ ctx'.current_thread = ctx.current_thread
    BY <1>0, <1>10 DEF Poll, Context
  <2> QED BY <1>10, <2>1 DEF Poll, Calm, Looping, sysVars, Quiet
<1>11. CASE AfterLoop
  <2>1. PICK n : \/ UNCHANGED ctx
                 \/ /\ ctx' = Reported([ctx EXCEPT !.should_stop = TRUE, !.stop_thread = n])
                    /\ n \in 0 .. NumHarts
    <3>1. (IF stop_hart >= 0 THEN stop_hart ELSE focus_hart) + 1 \in 0 .. NumHarts
      BY ThreadFacts DEF IInv, CoreOK
    <3> QED BY <1>0, <1>11, <3>1 DEF AfterLoop, notify_stop, gdb_stub_send_stop_reason, Context
  <2> DEFINE c == [ctx EXCEPT !.should_stop = TRUE, !.stop_thread = n]
  <2>2. n \in 0 .. NumHarts =>
          /\ c \in Context /\ c.single_step = ctx.single_step
          /\ c.continue_thread = ctx.continue_thread /\ c.current_thread = ctx.current_thread
    BY <1>0 DEF Context
  <2>3. UNCHANGED ctx \/ (ctx' = Reported(c) /\ n \in 0 .. NumHarts)
    BY <2>1
  <2> HIDE DEF c
  <2>4. /\ ctx'.single_step = ctx.single_step
        /\ ctx'.continue_thread = ctx.continue_thread
        /\ ctx'.current_thread = ctx.current_thread
    BY <2>2, <2>3, ReportedKeeps
  <2> QED BY <1>11, <2>4 DEF AfterLoop, Calm, sysVars, askVars
<1> QED BY <1>1, <1>2, <1>3, <1>4, <1>5, <1>6, <1>7, <1>8, <1>9, <1>10, <1>11

\* A packet handled while no run is in progress: only the selections may change.
LEMMA SelectionRests ==
  ASSUME Requests, phase' = "process", UNCHANGED <<asked, sched>>,
         Plain => /\ hc' = -1
                  /\ \/ ctx'.continue_thread < 0 \/ ctx'.continue_thread = ctx'.current_thread
                     \/ focus_hart' + 1 = ctx'.current_thread
  PROVE  Requests'
<1>1. phase' \notin Running /\ phase' \notin Looping /\ phase' \notin {"resumed", "step"}
  BY DEF Running, Phases, Looping
<1>2. Order'
  BY <1>1 DEF Order
<1>3. Obeyed'
  BY <1>1 DEF Requests, Obeyed, RunsAsAsked
<1>4. Chosen'
  BY DEF Requests, Chosen
<1> QED BY <1>2, <1>3, <1>4 DEF Requests

LEMMA ResetServes ==
  ASSUME IInv, Requests, handle_reset
  PROVE  Requests'
<1>1. ctx'.continue_thread = -1
  BY DEF handle_reset, IInv, CoreOK, Context
<1> QED BY <1>1, SelectionRests DEF handle_reset, Take, Stay, ctlVars

LEMMA SetThreadServes ==
  ASSUME IInv, Requests, handle_set_thread
  PROVE  Requests'
<1>0. phase' = "process" /\ UNCHANGED <<asked, sched>>
  BY DEF handle_set_thread, Take, Stay, ctlVars, askVars
<1>1. CASE Take("Hc")
  <2>1. ~Take("Hg")
    BY <1>1 DEF Take
  <2>2. ctx' = [ctx EXCEPT !.continue_thread = Head(inbox).arg] /\ hc' = Head(inbox).arg
    BY <1>1, <2>1 DEF handle_set_thread
  <2>3. Plain => Head(inbox).arg = -1
    <3>1. Head(inbox) \in Commands /\ Head(inbox).op = "Hc"
      BY <1>1, ArgType DEF IInv, Accounts, Take
    <3> QED BY <3>1 DEF Plain
  <2>4. ctx'.continue_thread = Head(inbox).arg
    BY <2>2 DEF IInv, CoreOK, Context
  <2> QED BY <1>0, <2>2, <2>3, <2>4, SelectionRests
<1>2. CASE Take("Hg")
  <2>1. ~Take("Hc")
    BY <1>2 DEF Take
  <2> DEFINE tid == IF Head(inbox).arg > 0 THEN Head(inbox).arg
                    ELSE (IF stop_hart >= 0 THEN stop_hart ELSE focus_hart) + 1
  <2>2. /\ \/ /\ tid \in Threads
              /\ ctx' = [ctx EXCEPT !.current_thread = tid]
              /\ focus_hart' = tid - 1
           \/ UNCHANGED <<ctx, focus_hart>>
        /\ UNCHANGED hc
    BY <1>2, <2>1 DEF handle_set_thread, ValidThread, askVars
  <2> HIDE DEF tid
  <2>3. CASE UNCHANGED <<ctx, focus_hart>>
    BY <1>0, <2>2, <2>3, SelectionRests DEF Requests, Chosen
  <2>4. CASE /\ tid \in Threads
             /\ ctx' = [ctx EXCEPT !.current_thread = tid]
             /\ focus_hart' = tid - 1
    <3>1. ctx'.current_thread = tid /\ focus_hart' + 1 = tid
      BY <2>4 DEF IInv, CoreOK, Context, Threads
    <3> QED BY <1>0, <2>2, <3>1, SelectionRests DEF Requests, Chosen
  <2> QED BY <2>2, <2>3, <2>4
<1> QED BY <1>1, <1>2 DEF handle_set_thread

\* What c, s and vCont leave behind.
LEMMA ResumeLeaves ==
  ASSUME IInv, NEW step \in BOOLEAN, NEW t \in Tids,
         NEW request \in [step : BOOLEAN, tid : Tids],
         Resume(step, t, request)
  PROVE  /\ ctx'.single_step = step /\ ctx'.continue_thread = t
         /\ ctx'.current_thread = ctx.current_thread
         /\ ctx'.breakpoint_hit = ctx.breakpoint_hit
         /\ ctx'.last_watchpoint_addr = ctx.last_watchpoint_addr
         /\ asked' = request /\ phase' = "resumed" /\ UNCHANGED <<focus_hart, hc, wp>>
         /\ \A h \in Harts : sched'[h] = 0
BY DEF Resume, IInv, CoreOK, Context, pointVars

LEMMA ResumeServes ==
  ASSUME IInv, Requests, NEW step \in BOOLEAN, NEW t \in Tids,
         NEW request \in [step : BOOLEAN, tid : Tids],
         Resume(step, t, request), request.step = step,
         step /\ NoPlainStep => t = request.tid,
         Plain \/ Direct => /\ ~step => t = request.tid
                            /\ step => t > 0 /\ (t = focus_hart + 1 => request.tid = t),
         Plain => /\ ~step => request.tid = -1
                  /\ \/ t < 0 \/ t = ctx.current_thread
                     \/ focus_hart + 1 = ctx.current_thread
  PROVE  Requests'
<1>1. /\ ctx'.single_step = step /\ ctx'.continue_thread = t
      /\ ctx'.current_thread = ctx.current_thread
      /\ asked' = request /\ phase' = "resumed" /\ UNCHANGED <<focus_hart, hc>>
      /\ \A h \in Harts : sched'[h] = 0
  BY ResumeLeaves
<1>2. phase' \notin Looping /\ phase' # "step"
  BY <1>1 DEF Looping
<1>3. Order'
  BY <1>1, <1>2 DEF Order
<1>4. RunsAsAsked'
  BY <1>1 DEF RunsAsAsked
<1>5. Obeyed'
  BY <1>1, <1>4 DEF Obeyed
<1>6. Chosen'
  BY <1>1 DEF Requests, Chosen
<1> QED BY <1>3, <1>5, <1>6 DEF Requests

LEMMA ContinueServes ==
  ASSUME IInv, Requests, Continue
  PROVE  Requests'
<1> DEFINE r == [step |-> FALSE, tid |-> hc]
<1>1. r \in [step : BOOLEAN, tid : Tids] /\ -1 \in Tids /\ r.step = FALSE /\ r.tid = hc
  BY ThreadFacts DEF IInv, CoreOK
<1>2. Head(inbox) \in Commands /\ Head(inbox).op = "c" /\ Resume(FALSE, -1, r)
  BY ArgType DEF Continue, IInv, Accounts, Take
<1>3. ~Direct
  BY <1>2 DEF Direct
<1>4. Plain => hc = -1
  BY DEF Requests, Chosen
<1> HIDE DEF r
<1>5. PICK step \in BOOLEAN, t \in Tids : step = FALSE /\ t = -1 /\ Resume(step, t, r)
  BY <1>1, <1>2
<1>6. /\ ~step /\ r.step = step /\ t < 0
      /\ Plain \/ Direct => t = r.tid
      /\ Plain => r.tid = -1
  BY <1>1, <1>3, <1>4, <1>5
<1> QED BY <1>1, <1>5, <1>6, ResumeServes

LEMMA SingleStepServes ==
  ASSUME IInv, Requests, SingleStep
  PROVE  Requests'
<1>1. /\ ctx.current_thread \in Threads /\ ctx.continue_thread \in Tids /\ hc \in Tids
      /\ ctx.current_thread \in Tids /\ ctx.current_thread > 0
      /\ ctx.continue_thread < 0 \/ ctx.continue_thread > 0
  BY ThreadFacts DEF IInv, CoreOK, Context, Threads, Tids
<1> DEFINE t == IF ctx.continue_thread < 0 THEN ctx.current_thread ELSE ctx.continue_thread
           r == [step |-> TRUE, tid |-> IF hc > 0 THEN hc ELSE ctx.current_thread]
<1>2. /\ t \in Tids /\ r \in [step : BOOLEAN, tid : Tids] /\ r.step = TRUE /\ t > 0
      /\ hc = -1 => r.tid = ctx.current_thread
  BY <1>1
<1>3. Head(inbox) \in Commands /\ Head(inbox).op = "s" /\ Resume(TRUE, t, r)
  BY ArgType DEF SingleStep, IInv, Accounts, Take
<1>4. ~Direct /\ ~NoPlainStep
  BY <1>3 DEF Direct, NoPlainStep
<1>5. Plain => /\ hc = -1 /\ (t = focus_hart + 1 => ctx.current_thread = t)
               /\ t = ctx.current_thread \/ focus_hart + 1 = ctx.current_thread
  BY <1>1 DEF Requests, Chosen
<1> HIDE DEF t, r
<1> QED BY <1>2, <1>3, <1>4, <1>5, ResumeServes

LEMMA VContServes ==
  ASSUME IInv, Requests, handle_vcont
  PROVE  Requests'
<1> DEFINE acts == Head(inbox).actions
<1>0. /\ Take("vCont") /\ acts \in Seq(VAction)
      /\ Head(inbox) \in Commands /\ Head(inbox).op = "vCont"
  BY ArgType DEF handle_vcont, IInv, Accounts, Take
<1>p. ~Plain
  BY <1>0 DEF Plain
<1>1. \A i \in DOMAIN acts : acts[i].tid \in Tids
  <2> SUFFICES ASSUME NEW i \in DOMAIN acts PROVE acts[i].tid \in Tids
    OBVIOUS
  <2>1. acts[i] \in VAction
    <3> HIDE DEF acts
    <3> QED BY <1>0
  <2> QED BY <2>1 DEF VAction
<1>2. ctx.current_thread \in Tids /\ ctx.current_thread > 0
  BY ThreadFacts DEF IInv, CoreOK, Context, Threads
<1>3. CASE UNCHANGED <<ctx, pointVars, sysVars, askVars>> /\ Stay
  <2>1. Calm
    BY <1>3 DEF Calm, sysVars, askVars, Stay, ctlVars
  <2> QED BY <2>1, CalmRests
<1>4. CASE \E i \in DOMAIN acts :
             LET t == IF acts[i].tid > 0 THEN acts[i].tid ELSE ctx.current_thread
             IN  Resume(TRUE, t, [step |-> TRUE, tid |-> t])
  <2>1. PICK t \in Tids : t > 0 /\ Resume(TRUE, t, [step |-> TRUE, tid |-> t])
    BY <1>1, <1>2, <1>4
  <2>2. [step |-> TRUE, tid |-> t] \in [step : BOOLEAN, tid : Tids]
    OBVIOUS
  <2> QED BY <1>p, <2>1, <2>2, ResumeServes
<1>5. CASE \E i \in DOMAIN acts :
             Resume(FALSE, acts[i].tid, [step |-> FALSE, tid |-> acts[i].tid])
  <2>1. PICK t \in Tids : Resume(FALSE, t, [step |-> FALSE, tid |-> t])
    BY <1>1, <1>5
  <2>2. [step |-> FALSE, tid |-> t] \in [step : BOOLEAN, tid : Tids]
    OBVIOUS
  <2> QED BY <1>p, <2>1, <2>2, ResumeServes
<1> QED BY <1>3, <1>4, <1>5 DEF handle_vcont

LEMMA MainResumeServes ==
  ASSUME IInv, Requests, MainResume
  PROVE  Requests'
<1>1. /\ phase = "resumed" /\ UNCHANGED <<ctx, focus_hart, hc, asked, sched>>
      /\ phase' = IF ctx.single_step THEN "step" ELSE "loop"
  BY DEF MainResume, askVars
<1>2. asked.step = ctx.single_step /\ \A h \in Harts : sched[h] = 0
  BY <1>1 DEF Requests, Order
<1>3. phase \in Running /\ phase' \in Running
  BY <1>1 DEF Running, Phases
<1>4. Order'
  BY <1>1, <1>2, <1>3 DEF Requests, Order, Looping
<1>5. Obeyed'
  BY <1>1, <1>3 DEF Requests, Obeyed, RunsAsAsked
<1>6. Chosen'
  BY <1>1 DEF Requests, Chosen
<1> QED BY <1>4, <1>5, <1>6 DEF Requests

(***************************************************************************)
(* The steps that give a hart an instruction or end a run.                 *)
(***************************************************************************)
\* What handle_hart_stop leaves behind.
LEMMA HartStopLeaves ==
  ASSUME NEW c \in Context, NEW h \in Harts, NEW sig, NEW pc, handle_hart_stop(c, h, sig, pc)
  PROVE  /\ ctx'.single_step = c.single_step
         /\ ctx'.continue_thread = c.continue_thread
         /\ ctx'.current_thread = c.current_thread
         /\ ~ctx'.breakpoint_hit
         /\ ~c.breakpoint_hit => ctx'.last_watchpoint_addr = 0
         /\ c.last_watchpoint_addr = 0 => ctx'.last_watchpoint_addr = 0
         /\ focus_hart' = h /\ phase' = "process"
<1> DEFINE d == [c EXCEPT !.should_stop = TRUE, !.stop_thread = h + 1]
<1>1. /\ d \in Context /\ d.single_step = c.single_step
      /\ d.continue_thread = c.continue_thread /\ d.current_thread = c.current_thread
      /\ d.breakpoint_hit = c.breakpoint_hit
      /\ d.last_watchpoint_addr = c.last_watchpoint_addr
  BY ThreadFacts DEF Context
<1>2. ctx' = Reported(d) /\ focus_hart' = h /\ phase' = "process"
  BY DEF handle_hart_stop, gdb_stub_send_stop_reason
<1> HIDE DEF d
<1> QED BY <1>1, <1>2, ReportedKeeps

\* In the loop of a plain c every thread is chosen.
LEMMA PlainLoop ==
  ASSUME IInv, Requests, phase \in Looping, Plain
  PROVE  ctx.continue_thread = -1
<1>1. phase \in Running
  BY DEF Looping, Running, Phases
<1> QED BY <1>1 DEF Requests, Order, Obeyed, Chosen

\* A hart that gets an instruction is one the debugger asked to run.
LEMMA ChosenHart ==
  ASSUME IInv, Requests, Plain \/ Direct, phase \in {"step", "hart"}, NEW h \in Harts,
         phase = "step" => h = focus_hart,
         gdb_stub_should_run_thread(ctx, h + 1)
  PROVE  asked.tid \in {-1, h + 1}
<1>1. phase \in Running /\ ctx.continue_thread \in Tids
  BY DEF Running, Phases, IInv, CoreOK, Context
<1>2. ctx.continue_thread = -1 \/ ctx.continue_thread = h + 1
  BY <1>1, HartsAssumption DEF gdb_stub_should_run_thread, Tids
<1>3. CASE phase = "hart"
  <2>1. ~asked.step
    BY <1>3 DEF Requests, Order, Looping
  <2> QED BY <1>1, <1>2, <2>1 DEF Requests, Obeyed
<1>4. CASE phase = "step"
  <2>1. asked.step
    BY <1>4 DEF Requests, Order
  <2>2. ctx.continue_thread = focus_hart + 1
    BY <1>1, <1>2, <1>4, <2>1 DEF Requests, Obeyed
  <2> QED BY <1>1, <1>4, <2>1, <2>2 DEF Requests, Obeyed
<1> QED BY <1>3, <1>4

LEMMA CountServes ==
  ASSUME IInv, Requests, Plain \/ Direct, phase \in {"step", "hart"}, NEW h \in Harts,
         phase = "step" => h = focus_hart,
         gdb_stub_should_run_thread(ctx, h + 1), Count(h), UNCHANGED asked
  PROVE  RunsAsAsked'
<1>1. asked.tid \in {-1, h + 1} /\ sched \in [Harts -> 0 .. 2]
  BY ChosenHart DEF IInv, CoreOK
<1>2. /\ \A g \in Harts : g # h => sched'[g] = sched[g]
      /\ sched'[h] \in {sched[h], sched[h] + 1}
  BY <1>1 DEF Count
<1>3. \A g \in Harts : sched'[g] > 0 => asked'.tid \in {-1, g + 1}
  BY <1>1, <1>2 DEF Requests, Obeyed, RunsAsAsked
<1>4. asked'.step => \A g \in Harts : sched'[g] <= 1
  <2>1. phase = "step" => \A g \in Harts : sched[g] = 0
    BY DEF Requests, Order
  <2>2. phase = "hart" => ~asked.step
    BY DEF Requests, Order, Looping
  <2> QED BY <1>2, <2>1, <2>2
<1> QED BY <1>3, <1>4 DEF RunsAsAsked

\* A run that ends on a hart.
LEMMA StopRests ==
  ASSUME Requests, phase' = "process", UNCHANGED <<hc, asked>>,
         Plain \/ Direct => RunsAsAsked',
         ctx'.continue_thread = ctx.continue_thread,
         ctx'.current_thread = ctx.current_thread,
         Plain => ctx.continue_thread < 0 \/ focus_hart' = focus_hart
  PROVE  Requests'
<1>1. phase' \notin Running /\ phase' \notin Looping /\ phase' \notin {"resumed", "step"}
  BY DEF Running, Phases, Looping
<1>2. Order'
  BY <1>1 DEF Order
<1>3. Obeyed'
  BY <1>1 DEF Obeyed
<1>4. Chosen'
  BY DEF Requests, Chosen
<1> QED BY <1>2, <1>3, <1>4 DEF Requests

LEMMA StepFocusServes ==
  ASSUME IInv, Requests, step_focus_hart
  PROVE  Requests'
<1>0. /\ phase = "step" /\ ctx \in Context /\ focus_hart \in Harts
      /\ UNCHANGED <<hc, asked>>
  BY DEF step_focus_hart, IInv, CoreOK
<1>1. CASE StepRefused
  <2> DEFINE d == [ctx EXCEPT !.stop_thread = focus_hart + 1]
  <2>1. /\ d \in Context /\ d.single_step = ctx.single_step
        /\ d.continue_thread = ctx.continue_thread /\ d.current_thread = ctx.current_thread
    BY <1>0, ThreadFacts DEF Context
  <2>2. ctx' = Reported(d) /\ phase' = "process" /\ UNCHANGED <<sysVars, sched>>
    BY <1>1 DEF StepRefused, gdb_stub_send_stop_reason
  <2> HIDE DEF d
  <2>3. Calm
    BY <1>0, <2>1, <2>2, ReportedKeeps DEF Calm, sysVars
  <2> QED BY <2>3, CalmRests
<1>2. CASE StepAtBreakpoint
  <2> DEFINE c == [ctx EXCEPT !.breakpoint_hit = TRUE]
  <2>1. /\ c \in Context
        /\ c.continue_thread = ctx.continue_thread /\ c.current_thread = ctx.current_thread
    BY <1>0 DEF Context
  <2>2. handle_hart_stop(c, focus_hart, 5, harts[focus_hart].pc) /\ UNCHANGED sched
    BY <1>2 DEF StepAtBreakpoint
  <2> HIDE DEF c
  <2>3. Plain \/ Direct => RunsAsAsked'
    BY <1>0, <2>2 DEF Requests, Obeyed, RunsAsAsked
  <2>4. /\ ctx'.continue_thread = ctx.continue_thread
        /\ ctx'.current_thread = ctx.current_thread
        /\ focus_hart' = focus_hart /\ phase' = "process"
    BY <1>0, <2>1, <2>2, HartStopLeaves
  <2> QED BY <1>0, <2>3, <2>4, StopRests
<1>3. CASE StepExecutes
  <2>1. PICK o \in sys_cpu_step(focus_hart) :
             handle_hart_stop([WithHit(ctx, o.hit) EXCEPT !.single_step = FALSE], focus_hart,
                   IF o.harts[focus_hart].running \/ o.harts[focus_hart].halted THEN 5 ELSE 4,
                   o.harts[focus_hart].pc)
    BY <1>3 DEF StepExecutes
  <2>2. o.hit \in Addr \cup {0}
    BY <1>0, SysCpuStepType, TypeSplit DEF IInv, Accounts
  <2> DEFINE c == [WithHit(ctx, o.hit) EXCEPT !.single_step = FALSE]
  <2>3. /\ c \in Context
        /\ c.continue_thread = ctx.continue_thread /\ c.current_thread = ctx.current_thread
    BY <1>0, <2>2 DEF WithHit, Context
  <2>4. PICK sig, pc : handle_hart_stop(c, focus_hart, sig, pc)
    BY <2>1
  <2> HIDE DEF c
  <2>5. /\ ctx'.continue_thread = ctx.continue_thread
        /\ ctx'.current_thread = ctx.current_thread
        /\ focus_hart' = focus_hart /\ phase' = "process"
    BY <1>0, <2>3, <2>4, HartStopLeaves
  <2>6. Plain \/ Direct => RunsAsAsked'
    BY <1>0, <1>3, CountServes DEF StepExecutes
  <2> QED BY <1>0, <2>5, <2>6, StopRests
<1> QED BY <1>1, <1>2, <1>3 DEF step_focus_hart

LEMMA HartAtBreakpointServes ==
  ASSUME IInv, Requests, HartAtBreakpoint
  PROVE  Requests'
<1> DEFINE c == [ctx EXCEPT !.breakpoint_hit = TRUE]
<1>1. /\ c \in Context /\ hart \in Harts
      /\ c.continue_thread = ctx.continue_thread /\ c.current_thread = ctx.current_thread
  BY DEF IInv, CoreOK, Context
<1>2. /\ handle_hart_stop(c, hart, 5, harts[hart].pc)
      /\ UNCHANGED <<hc, asked, sched>> /\ phase \in Looping
  BY DEF HartAtBreakpoint, Scheduled, Quiet, Looping
<1> HIDE DEF c
<1>3. Plain \/ Direct => RunsAsAsked'
  BY <1>2 DEF Requests, Obeyed, RunsAsAsked
<1>4. /\ ctx'.continue_thread = ctx.continue_thread
      /\ ctx'.current_thread = ctx.current_thread /\ phase' = "process"
  BY <1>1, <1>2, HartStopLeaves
<1>5. Plain => ctx.continue_thread < 0
  BY <1>2, PlainLoop
<1> QED BY <1>2, <1>3, <1>4, <1>5, StopRests

LEMMA HartExecutesServes ==
  ASSUME IInv, Requests, HartExecutes
  PROVE  Requests'
<1>0. /\ hart \in Harts /\ ctx \in Context /\ phase = "hart" /\ phase' = "ran"
      /\ UNCHANGED <<hc, asked, focus_hart>> /\ Count(hart)
      /\ gdb_stub_should_run_thread(ctx, hart + 1)
  BY DEF IInv, CoreOK, HartExecutes, Scheduled, should_step_hart, Quiet
<1>1. PICK o \in sys_cpu_step(hart) : ctx' = WithHit(ctx, o.hit)
  BY DEF HartExecutes
<1>2. /\ ctx'.single_step = ctx.single_step
      /\ ctx'.continue_thread = ctx.continue_thread
      /\ ctx'.current_thread = ctx.current_thread
  BY <1>0, <1>1 DEF WithHit, Context
<1>3. Plain \/ Direct => RunsAsAsked'
  BY <1>0, CountServes
<1>4. /\ phase \in Looping /\ phase' \in Looping /\ phase \in Running /\ phase' \in Running
      /\ phase' \notin {"resumed", "step"}
  BY <1>0 DEF Looping, Running, Phases
<1>5. Order'
  BY <1>0, <1>2, <1>4 DEF Requests, Order
<1>6. Obeyed'
  BY <1>0, <1>2, <1>3, <1>4 DEF Requests, Obeyed
<1>7. Chosen'
  BY <1>0, <1>2 DEF Requests, Chosen
<1> QED BY <1>5, <1>6, <1>7 DEF Requests

LEMMA HartInspectedServes ==
  ASSUME IInv, Requests, HartInspected
  PROVE  Requests'
<1>0. /\ hart \in Harts /\ ctx \in Context /\ phase = "ran" /\ phase \in Looping
      /\ UNCHANGED <<hc, asked, sched>>
  BY DEF IInv, CoreOK, HartInspected, Quiet, Looping
<1>1. CASE handle_hart_stop(ctx, hart, IF harts[hart].halted THEN 5 ELSE 4, harts[hart].pc)
  <2>1. Plain \/ Direct => RunsAsAsked'
    BY <1>0 DEF Requests, Obeyed, RunsAsAsked
  <2>2. /\ ctx'.continue_thread = ctx.continue_thread
        /\ ctx'.current_thread = ctx.current_thread /\ phase' = "process"
    BY <1>0, <1>1, HartStopLeaves
  <2>3. Plain => ctx.continue_thread < 0
    BY <1>0, PlainLoop
  <2> QED BY <1>0, <2>1, <2>2, <2>3, StopRests
<1>2. CASE NextHart /\ UNCHANGED <<ctx, focus_hart, stop_hart, outbox>>
  <2>1. Calm
    BY <1>0, <1>2 DEF Calm, NextHart, Looping
  <2> QED BY <2>1, CalmRests
<1> QED BY <1>1, <1>2 DEF HartInspected

LEMMA RequestsInit == Init => Requests
<1> SUFFICES ASSUME Init PROVE Requests
  OBVIOUS
<1>1. /\ phase = "process" /\ hc = -1 /\ asked = [step |-> FALSE, tid |-> -1]
      /\ sched = [h \in Harts |-> 0]
      /\ ctx = [single_step |-> FALSE, should_stop |-> FALSE, breakpoint_hit |-> FALSE,
                last_watchpoint_addr |-> 0, current_thread |-> 1, continue_thread |-> -1,
                stop_thread |-> 0]
  BY Zenon DEF Init
<1>2. ctx.continue_thread < 0 /\ ~asked.step /\ asked.tid = -1
  BY <1>1
<1>3. RunsAsAsked
  BY <1>1 DEF RunsAsAsked
<1> QED BY <1>1, <1>2, <1>3 DEF Requests, Order, Obeyed, Chosen, Running, Phases, Looping

LEMMA RequestsStep ==
  ASSUME IInv, Requests, [Next]_vars
  PROVE  Requests'
<1>1. CASE gdb_stub_process
  BY <1>1, CalmSteps, CalmRests, ResetServes, SetThreadServes, ContinueServes,
     SingleStepServes, VContServes DEF gdb_stub_process
<1>2. CASE MainResume \/ step_focus_hart
  BY <1>2, MainResumeServes, StepFocusServes
<1>3. CASE continue_all_harts
  BY <1>3, CalmSteps, CalmRests, HartAtBreakpointServes, HartExecutesServes,
     HartInspectedServes DEF continue_all_harts
<1>4. CASE sigint_handler \/ DefaultSigint \/ BrokenPipe \/ Client \/ UNCHANGED vars
  BY <1>4, CalmSteps, CalmRests
<1> QED BY <1>1, <1>2, <1>3, <1>4 DEF Next, Stub

LEMMA RequestsInvariance == Spec => [](IInv /\ Requests)
BY InitFacts, StepFacts, RequestsInit, RequestsStep, PTL DEF Spec

(***************************************************************************)
(* The flags behind a stop reply.  Consumed says that no breakpoint hit    *)
(* survives the reply that reports it, Fresh that a watchpoint hit is      *)
(* pending only between the instruction and the end of the run.            *)
(***************************************************************************)
\* The debugger does not ask "?", whose breakpoint test sets breakpoint_hit without a stop.
NoQuery == \A p \in Commands : p.op # "?"

Watched(a) == \E p \in Commands : p.op = "Z4" /\ p.arg = a

\* The debugger does not itself read or write what it watches.
Unseen == \A p \in Commands : p.op \in {"m", "mlong", "M", "X", "qSearch"} => ~Watched(p.arg)

\* No worker runs jobs inside hart 0's store, where its hits go unreported.
NoJobs == NumHarts = 1 \/ StoreAddr \notin CodeAddr

Reporting == NoQuery /\ Unseen /\ NoJobs

Consumed == NoQuery => ~ctx.breakpoint_hit

Fresh ==
  Reporting =>
    /\ \A a \in wp : Watched(a)
    /\ ctx.last_watchpoint_addr # 0 => phase = "exit" \/ (phase = "ran" /\ harts[hart].halted)

Flags == Consumed /\ Fresh

\* A step that sets no flag.
Steady ==
  /\ ctx'.breakpoint_hit => ctx.breakpoint_hit
  /\ ctx'.last_watchpoint_addr \in {0, ctx.last_watchpoint_addr}
  /\ wp' \subseteq wp
  /\ \/ phase \notin {"exit", "ran"}
     \/ phase' = "exit"
     \/ UNCHANGED <<phase, hart>> /\ (harts[hart].halted => harts'[hart].halted)

LEMMA SteadyRests ==
  ASSUME Flags, Steady
  PROVE  Flags'
<1>1. Consumed'
  BY DEF Flags, Consumed, Steady
<1>2. Fresh'
  BY DEF Flags, Fresh, Steady
<1> QED BY <1>1, <1>2 DEF Flags

\* A stop reply is sent and what it reported is consumed.
LEMMA ReportRests ==
  ASSUME Flags, NEW c \in Context, ctx' = Reported(c), wp' \subseteq wp,
         NoQuery => ~c.breakpoint_hit \/ c.last_watchpoint_addr = 0
  PROVE  Flags'
<1>1. ~ctx'.breakpoint_hit /\ (NoQuery => ctx'.last_watchpoint_addr = 0)
  BY ReportedKeeps
<1> QED BY <1>1 DEF Flags, Consumed, Fresh, Reporting

LEMMA SteadySteps ==
  ASSUME IInv,
         \/ handle_read_registers \/ handle_read_single_register \/ handle_query
         \/ handle_general_set \/ handle_thread_alive \/ \E op : Malformed(op)
         \/ handle_write_registers \/ handle_write_single_register
         \/ handle_reset \/ handle_set_thread
         \/ Kill \/ Detach \/ EndOfFile \/ DefaultSigint \/ BrokenPipe
         \/ sigint_handler \/ Client \/ UNCHANGED vars
         \/ MainResume \/ LoopTest \/ SkipHart \/ Poll
  PROVE  Steady
<1>0. ctx \in Context /\ harts \in [Harts -> Cpu] /\ hart \in Harts
  BY DEF IInv, CoreOK
<1>1. CASE \/ handle_read_registers \/ handle_read_single_register \/ handle_query
           \/ handle_general_set \/ handle_thread_alive \/ \E op : Malformed(op)
           \/ handle_write_registers \/ handle_write_single_register
  BY <1>1 DEF Steady, handle_read_registers, handle_read_single_register, handle_query,
       handle_general_set, handle_thread_alive, Malformed, Take,
       handle_write_registers, handle_write_single_register, pointVars
<1>2. CASE handle_reset
  <2>1. /\ ~ctx'.breakpoint_hit /\ ctx'.last_watchpoint_addr = ctx.last_watchpoint_addr
    BY <1>0, <1>2 DEF handle_reset, Context
  <2> QED BY <1>2, <2>1 DEF handle_reset, Steady, Take
<1>3. CASE handle_set_thread
  <2>1. UNCHANGED ctx \/ (\E t : ctx' = [ctx EXCEPT !.current_thread = t])
                      \/ (\E t : ctx' = [ctx EXCEPT !.continue_thread = t])
    BY <1>3 DEF handle_set_thread
  <2>2. UNCHANGED <<ctx.breakpoint_hit, ctx.last_watchpoint_addr>>
    BY <1>0, <2>1 DEF Context
  <2> QED BY <1>3, <2>2 DEF handle_set_thread, Steady, Take, pointVars
<1>4. CASE Kill \/ Detach \/ EndOfFile \/ DefaultSigint \/ BrokenPipe
  BY <1>4 DEF Steady, Kill, Detach, EndOfFile, DefaultSigint, BrokenPipe, pointVars
<1>5. CASE sigint_handler
  <2>1. UNCHANGED <<ctx.breakpoint_hit, ctx.last_watchpoint_addr>>
    BY <1>0, <1>5 DEF sigint_handler, Context
  <2>2. harts'[hart].halted
    BY <1>0, <1>5 DEF sigint_handler, sys_halt_all, Cpu
  <2> QED BY <1>5, <2>1, <2>2 DEF sigint_handler, Steady, pointVars
<1>6. CASE Client
  <2>1. UNCHANGED EmuVars
    BY <1>6 DEF Client, ClientSend, ClientInterrupt, ClientReceive, ClientClose, Send
  <2> QED BY <2>1 DEF EmuVars, Steady, sysVars, ctlVars, pointVars
<1>7. CASE UNCHANGED vars
  BY <1>7 DEF vars, Steady, sysVars, ctlVars, pointVars
<1>8. CASE MainResume \/ LoopTest \/ SkipHart
  BY <1>8 DEF MainResume, LoopTest, SkipHart, Steady, Quiet, pointVars
<1>9. CASE Poll
  <2>1. UNCHANGED <<ctx.breakpoint_hit, ctx.last_watchpoint_addr>>
    BY <1>0, <1>9 DEF Poll, Context
  <2> QED BY <1>9, <2>1 DEF Poll, Steady, Quiet, pointVars
<1> QED BY <1>1, <1>2, <1>3, <1>4, <1>5, <1>6, <1>7, <1>8, <1>9

LEMMA ProcessFlags ==
  ASSUME IInv, Flags,
         \/ CtrlC \/ handle_halt_reason \/ handle_breakpoint
         \/ handle_read_memory \/ handle_search_memory
         \/ handle_write_memory \/ handle_write_memory_binary
         \/ Continue \/ SingleStep \/ handle_vcont
  PROVE  Flags'
<1>0. ctx \in Context /\ (NoQuery => ~ctx.breakpoint_hit)
  BY DEF IInv, CoreOK, Flags, Consumed
<1>1. CASE CtrlC
  <2> DEFINE c == [ctx EXCEPT !.should_stop = TRUE,
                              !.stop_thread = IF @ = 0 THEN ctx.current_thread ELSE @]
  <2>1. c \in Context /\ c.breakpoint_hit = ctx.breakpoint_hit
    BY <1>0, ThreadFacts DEF Context
  <2>2. ctx' = Reported(c) /\ UNCHANGED wp
    BY <1>1 DEF CtrlC, gdb_stub_send_stop_reason, pointVars
  <2> HIDE DEF c
  <2> QED BY <1>0, <2>1, <2>2, ReportRests
<1>2. CASE handle_halt_reason
  <2>1. Head(inbox) \in Commands /\ Head(inbox).op = "?"
    BY <1>2, ArgType DEF handle_halt_reason, IInv, Accounts, Take
  <2>2. ~NoQuery
    BY <2>1 DEF NoQuery
  <2> QED BY <2>2 DEF Flags, Consumed, Fresh, Reporting
<1>3. CASE handle_breakpoint
  <2>1. UNCHANGED ctx /\ phase' = "process" /\ phase = "process"
    BY <1>3 DEF handle_breakpoint, Stay, ctlVars, Take
  <2>2. \A a \in wp' : a \in wp \/ Watched(a)
    <3>1. Take("Z4") => Watched(Head(inbox).arg)
      <4> SUFFICES ASSUME Take("Z4") PROVE Watched(Head(inbox).arg)
        OBVIOUS
      <4>1. Head(inbox) \in Commands /\ Head(inbox).op = "Z4"
        BY ArgType DEF IInv, Accounts, Take
      <4> QED BY <4>1 DEF Watched
    <3> QED BY <1>3, <3>1 DEF handle_breakpoint
  <2> QED BY <2>1, <2>2 DEF Flags, Consumed, Fresh
<1>4. CASE \/ handle_read_memory \/ handle_search_memory
           \/ handle_write_memory \/ handle_write_memory_binary
  <2>1. PICK op \in {"m", "mlong", "qSearch", "M", "X"} :
           /\ Take(op)
           /\ \/ UNCHANGED ctx
              \/ /\ Head(inbox).arg \in wp
                 /\ ctx' = [ctx EXCEPT !.last_watchpoint_addr = Head(inbox).arg]
    BY <1>4 DEF handle_read_memory, handle_search_memory, handle_write_memory,
         handle_write_memory_binary, DebugAccess
  <2>2. UNCHANGED wp /\ phase = "process"
    BY <1>4, <2>1 DEF handle_read_memory, handle_search_memory, handle_write_memory,
         handle_write_memory_binary, pointVars, Take
  <2>3. Head(inbox) \in Commands /\ Head(inbox).op = op
    BY <2>1, ArgType DEF IInv, Accounts, Take
  <2>4. Reporting => UNCHANGED ctx
    <3>1. Unseen => ~Watched(Head(inbox).arg)
      BY <2>3 DEF Unseen
    <3> QED BY <2>1, <3>1 DEF Flags, Fresh, Reporting
  <2>5. ctx'.breakpoint_hit = ctx.breakpoint_hit
    BY <1>0, <2>1 DEF Context
  <2> QED BY <2>2, <2>4, <2>5 DEF Flags, Consumed, Fresh
<1>5. CASE Continue \/ SingleStep \/ handle_vcont
  <2>0. phase = "process"
    BY <1>5 DEF Continue, SingleStep, handle_vcont, Take
  <2>1. \/ \E step, t, r : Resume(step, t, r)
        \/ UNCHANGED <<ctx, pointVars>>
    <3>1. CASE Continue
      BY <3>1, Zenon DEF Continue
    <3>2. CASE SingleStep
      BY <3>2, Zenon DEF SingleStep
    <3>3. CASE handle_vcont
      BY <3>3, Zenon DEF handle_vcont
    <3> QED BY <1>5, <3>1, <3>2, <3>3
  <2>2. ASSUME NEW step, NEW t, NEW r, Resume(step, t, r)
        PROVE  UNCHANGED <<ctx.breakpoint_hit, ctx.last_watchpoint_addr, wp>>
    BY <1>0, <2>2 DEF Resume, Context, pointVars
  <2>3. UNCHANGED <<ctx.breakpoint_hit, ctx.last_watchpoint_addr, wp>>
    BY <2>1, <2>2 DEF pointVars
  <2> QED BY <2>0, <2>3, SteadyRests DEF Steady
<1> QED BY <1>1, <1>2, <1>3, <1>4, <1>5

\* Outside a store that starts a job, the instruction that hits a watchpoint halts its hart.
LEMMA HitHalts ==
  ASSUME TypeOK, NoJobs, NEW h \in Harts, NEW o \in sys_cpu_step(h), o.hit # 0
  PROVE  o.harts[h].halted
<1>0. harts \in [Harts -> Cpu] /\ harts[h] \in Cpu /\ harts[h].pc \in CodeAddr
  BY DEF TypeOK, Cpu
<1>1. ~ (h = 0 /\ harts[0].pc = StoreAddr /\ NumHarts > 1)
  BY <1>0 DEF NoJobs
<1>2. PICK a \in rv32_cpu_step(harts[h]) :
             o = [harts |-> [harts EXCEPT ![h] = a.cpu], hit |-> a.hit,
                  by |-> IF a.hit # 0 THEN h ELSE stop_hart]
  BY <1>1 DEF sys_cpu_step
<1>3. o.hit = a.hit /\ o.harts[h] = a.cpu
  BY <1>0, <1>2
<1>4. harts[h].running
  BY <1>3 DEF rv32_cpu_step
<1>5. PICK k, d, p : a = Executed(harts[h], k, d, p)
  <2>1. \/ \E d \in DataAddr \cup {0}, p \in CodeAddr :
             a = Executed(harts[h], "access", Hit(harts[h], d), p)
        \/ \E k \in Traps, p \in CodeAddr : a = Executed(harts[h], k, Hit(harts[h], 0), p)
    BY <1>4 DEF rv32_cpu_step
  <2> QED BY <2>1, Zenon
<1>6. a.hit = d
  BY <1>5 DEF Executed
<1>7. (harts[h].halted \/ k = "ebreak" \/ d # 0) = TRUE
  BY <1>3, <1>6
<1>8. a.cpu = [pc |-> p, running |-> k # "illegal", halted |-> TRUE]
  BY <1>5, <1>7 DEF Executed
<1> QED BY <1>3, <1>8

LEMMA StepFocusFlags ==
  ASSUME IInv, Flags, step_focus_hart
  PROVE  Flags'
<1>0. /\ ctx \in Context /\ (NoQuery => ~ctx.breakpoint_hit) /\ focus_hart \in Harts
      /\ Reporting => ctx.last_watchpoint_addr = 0
      /\ UNCHANGED wp
  BY DEF IInv, CoreOK, Flags, Consumed, Fresh, step_focus_hart, pointVars
<1>1. CASE StepRefused
  <2> DEFINE d == [ctx EXCEPT !.stop_thread = focus_hart + 1]
  <2>1. d \in Context /\ d.breakpoint_hit = ctx.breakpoint_hit
    BY <1>0, ThreadFacts DEF Context
  <2>2. ctx' = Reported(d)
    BY <1>1 DEF StepRefused, gdb_stub_send_stop_reason
  <2> HIDE DEF d
  <2> QED BY <1>0, <2>1, <2>2, ReportRests
<1>2. CASE StepAtBreakpoint
  <2> DEFINE c == [ctx EXCEPT !.breakpoint_hit = TRUE]
  <2>1. c \in Context /\ c.last_watchpoint_addr = ctx.last_watchpoint_addr
    BY <1>0 DEF Context
  <2>2. handle_hart_stop(c, focus_hart, 5, harts[focus_hart].pc)
    BY <1>2 DEF StepAtBreakpoint
  <2> HIDE DEF c
  <2>3. ~ctx'.breakpoint_hit /\ (Reporting => ctx'.last_watchpoint_addr = 0)
    BY <1>0, <2>1, <2>2, HartStopLeaves
  <2> QED BY <1>0, <2>3 DEF Flags, Consumed, Fresh
<1>3. CASE StepExecutes
  <2>1. PICK o \in sys_cpu_step(focus_hart) :
             handle_hart_stop([WithHit(ctx, o.hit) EXCEPT !.single_step = FALSE], focus_hart,
                   IF o.harts[focus_hart].running \/ o.harts[focus_hart].halted THEN 5 ELSE 4,
                   o.harts[focus_hart].pc)
    BY <1>3 DEF StepExecutes
  <2>2. o.hit \in Addr \cup {0}
    BY <1>0, SysCpuStepType, TypeSplit DEF IInv, Accounts
  <2> DEFINE c == [WithHit(ctx, o.hit) EXCEPT !.single_step = FALSE]
  <2>3. c \in Context /\ c.breakpoint_hit = ctx.breakpoint_hit
    BY <1>0, <2>2 DEF WithHit, Context
  <2>4. PICK sig, pc : handle_hart_stop(c, focus_hart, sig, pc)
    BY <2>1
  <2> HIDE DEF c
  <2>5. ~ctx'.breakpoint_hit /\ (Reporting => ctx'.last_watchpoint_addr = 0)
    BY <1>0, <2>3, <2>4, HartStopLeaves DEF Reporting
  <2> QED BY <1>0, <2>5 DEF Flags, Consumed, Fresh
<1> QED BY <1>1, <1>2, <1>3 DEF step_focus_hart

LEMMA LoopFlags ==
  ASSUME IInv, Flags, HartAtBreakpoint \/ HartExecutes \/ HartInspected \/ AfterLoop
  PROVE  Flags'
<1>0. /\ ctx \in Context /\ (NoQuery => ~ctx.breakpoint_hit) /\ hart \in Harts
      /\ UNCHANGED wp
  BY DEF IInv, CoreOK, Flags, Consumed, HartAtBreakpoint, HartExecutes, HartInspected,
         AfterLoop, Quiet, pointVars
<1>1. CASE HartAtBreakpoint
  <2> DEFINE c == [ctx EXCEPT !.breakpoint_hit = TRUE]
  <2>1. c \in Context /\ c.last_watchpoint_addr = ctx.last_watchpoint_addr
    BY <1>0 DEF Context
  <2>2. handle_hart_stop(c, hart, 5, harts[hart].pc) /\ phase = "hart"
    BY <1>1 DEF HartAtBreakpoint, Scheduled
  <2>3. Reporting => ctx.last_watchpoint_addr = 0
    BY <2>2 DEF Flags, Fresh
  <2> HIDE DEF c
  <2>4. ~ctx'.breakpoint_hit /\ (Reporting => ctx'.last_watchpoint_addr = 0)
    BY <1>0, <2>1, <2>2, <2>3, HartStopLeaves
  <2> QED BY <1>0, <2>4 DEF Flags, Consumed, Fresh
<1>2. CASE HartExecutes
  <2>1. PICK o \in sys_cpu_step(hart) : harts' = o.harts /\ ctx' = WithHit(ctx, o.hit)
    BY <1>2 DEF HartExecutes
  <2>2. phase = "hart" /\ phase' = "ran" /\ hart' = hart
    BY <1>2 DEF HartExecutes, Scheduled
  <2>3. /\ ctx'.breakpoint_hit = ctx.breakpoint_hit
        /\ o.hit = 0 => ctx'.last_watchpoint_addr = ctx.last_watchpoint_addr
    BY <1>0, <2>1 DEF WithHit, Context
  <2>4. NoJobs /\ o.hit # 0 => harts'[hart'].halted
    BY <1>0, <2>1, <2>2, HitHalts, TypeSplit DEF IInv, Accounts
  <2> QED BY <1>0, <2>2, <2>3, <2>4 DEF Flags, Consumed, Fresh, Reporting
<1>3. CASE HartInspected
  <2>1. CASE handle_hart_stop(ctx, hart, IF harts[hart].halted THEN 5 ELSE 4, harts[hart].pc)
    <3>1. ~ctx'.breakpoint_hit /\ (Reporting => ctx'.last_watchpoint_addr = 0)
      BY <1>0, <2>1, HartStopLeaves DEF Reporting
    <3> QED BY <1>0, <3>1 DEF Flags, Consumed, Fresh
  <2>2. CASE ~HartStopped(harts[hart]) /\ UNCHANGED ctx
    <3>1. phase = "ran" /\ ~harts[hart].halted
      BY <1>3, <2>2 DEF HartInspected, HartStopped
    <3> QED BY <1>0, <2>2, <3>1 DEF Flags, Consumed, Fresh
  <2> QED BY <1>3, <2>1, <2>2 DEF HartInspected
<1>4. CASE AfterLoop
  <2>1. PICK n \in 0 .. NumHarts :
             \/ UNCHANGED ctx
             \/ ctx' = Reported([ctx EXCEPT !.should_stop = TRUE, !.stop_thread = n])
    <3>1. (IF stop_hart >= 0 THEN stop_hart ELSE focus_hart) + 1 \in 0 .. NumHarts
      BY ThreadFacts DEF IInv, CoreOK
    <3> QED BY <1>0, <1>4, <3>1 DEF AfterLoop, notify_stop, gdb_stub_send_stop_reason, Context
  <2> DEFINE c == [ctx EXCEPT !.should_stop = TRUE, !.stop_thread = n]
  <2>2. c \in Context /\ c.breakpoint_hit = ctx.breakpoint_hit
    BY <1>0 DEF Context
  <2>3. UNCHANGED ctx \/ ctx' = Reported(c)
    BY <2>1
  <2> HIDE DEF c
  <2>4. CASE ctx' = Reported(c)
    BY <1>0, <2>2, <2>4, ReportRests
  <2>5. CASE UNCHANGED ctx
    <3>1. phase = "after"
      BY <1>4 DEF AfterLoop
    <3> QED BY <1>0, <2>5, <3>1, SteadyRests DEF Steady
  <2> QED BY <2>3, <2>4, <2>5
<1> QED BY <1>1, <1>2, <1>3, <1>4

LEMMA FlagsInit == Init => Flags
<1> SUFFICES ASSUME Init PROVE Flags
  OBVIOUS
<1>1. /\ wp = {}
      /\ ctx = [single_step |-> FALSE, should_stop |-> FALSE, breakpoint_hit |-> FALSE,
                last_watchpoint_addr |-> 0, current_thread |-> 1, continue_thread |-> -1,
                stop_thread |-> 0]
  BY Zenon DEF Init
<1>2. ~ctx.breakpoint_hit /\ ctx.last_watchpoint_addr = 0
  BY <1>1
<1> QED BY <1>1, <1>2 DEF Flags, Consumed, Fresh

LEMMA FlagsStep ==
  ASSUME IInv, Flags, [Next]_vars
  PROVE  Flags'
<1>1. CASE gdb_stub_process
  BY <1>1, SteadySteps, SteadyRests, ProcessFlags DEF gdb_stub_process
<1>2. CASE MainResume \/ step_focus_hart
  BY <1>2, SteadySteps, SteadyRests, StepFocusFlags
<1>3. CASE continue_all_harts
  BY <1>3, SteadySteps, SteadyRests, LoopFlags DEF continue_all_harts
<1>4. CASE sigint_handler \/ DefaultSigint \/ BrokenPipe \/ Client \/ UNCHANGED vars
  BY <1>4, SteadySteps, SteadyRests
<1> QED BY <1>1, <1>2, <1>3, <1>4 DEF Next, Stub

LEMMA FlagsInvariance == Spec => [](IInv /\ Flags)
BY InitFacts, StepFacts, FlagsInit, FlagsStep, PTL DEF Spec

(***************************************************************************)
(* Who sends a stop reply, and what it says.                               *)
(***************************************************************************)
LEMMA NewestIs ==
  ASSUME IInv, NEW r \in Reply, send_packet(r)
  PROVE  Newest = r
BY DEF IInv, Accounts, LinkOK, send_packet, Newest

LEMMA AnswerIsNoStop ==
  ASSUME IInv, NEW k \in {"OK", "E01", "", "data"}, send_packet(Answer(k))
  PROVE  ~StopSent
<1>1. Newest = Answer(k)
  BY AnswerType, NewestIs
<1>2. Answer(k).kind = k /\ k # "stop"
  BY DEF Answer
<1> QED BY <1>1, <1>2 DEF StopSent

LEMMA SilenceIsNoStop ==
  ASSUME IInv, outbox' = outbox \/ (outbox' = Tail(outbox) /\ outbox # <<>>)
  PROVE  ~StopSent
<1>1. Len(outbox') <= Len(outbox) /\ Len(outbox) \in Nat /\ Len(outbox') \in Nat
  BY DEF IInv, Accounts, LinkOK
<1> QED BY <1>1 DEF StopSent

\* Only an interrupt, "?" and the ways out of a run send a stop reply.
LEMMA StopSenders ==
  ASSUME IInv, [Next]_vars, StopSent
  PROVE  \/ CtrlC \/ handle_halt_reason \/ step_focus_hart
         \/ HartAtBreakpoint \/ HartInspected \/ AfterLoop
<1>1. CASE \/ handle_read_registers \/ handle_read_single_register \/ handle_query
           \/ handle_general_set \/ handle_thread_alive \/ \E op : Malformed(op)
           \/ handle_breakpoint \/ handle_search_memory
           \/ handle_write_memory \/ handle_write_memory_binary
           \/ handle_write_registers \/ handle_write_single_register
           \/ handle_reset \/ handle_set_thread \/ Detach
  <2>1. \E k \in {"OK", "E01", "", "data"} : send_packet(Answer(k))
    BY <1>1 DEF handle_read_registers, handle_read_single_register, handle_query,
         handle_general_set, handle_thread_alive, Malformed, handle_breakpoint,
         handle_search_memory, handle_write_memory, handle_write_memory_binary,
         handle_write_registers, handle_write_single_register, handle_reset,
         handle_set_thread, Detach
  <2> QED BY <2>1, AnswerIsNoStop
<1>2. CASE handle_read_memory \/ handle_vcont
  <2>1. \/ UNCHANGED outbox
        \/ \E k \in {"OK", "E01", "", "data"} : send_packet(Answer(k))
    BY <1>2 DEF handle_read_memory, handle_vcont, Resume
  <2> QED BY <2>1, AnswerIsNoStop, SilenceIsNoStop
<1>3. CASE \/ Continue \/ SingleStep \/ Kill \/ EndOfFile \/ MainResume
           \/ LoopTest \/ SkipHart \/ HartExecutes \/ Poll
           \/ sigint_handler \/ DefaultSigint \/ BrokenPipe \/ UNCHANGED vars
  <2>1. UNCHANGED outbox
    BY <1>3 DEF Continue, SingleStep, Resume, Kill, EndOfFile, MainResume, LoopTest, SkipHart,
         HartExecutes, Poll, sigint_handler, DefaultSigint, BrokenPipe, vars
  <2> QED BY <2>1, SilenceIsNoStop
<1>4. CASE Client
  <2>1. outbox' = outbox \/ (outbox' = Tail(outbox) /\ outbox # <<>>)
    BY <1>4 DEF Client, ClientSend, ClientInterrupt, ClientReceive, ClientClose, Send
  <2> QED BY <2>1, SilenceIsNoStop
<1> QED BY <1>1, <1>2, <1>3, <1>4 DEF Next, Stub, gdb_stub_process, continue_all_harts

LEMMA StepHappensStep ==
  ASSUME NoPlainStep, IInv, Requests, [Next]_vars,
         phase = "step", StopSent, asked.tid = focus_hart + 1
  PROVE  \/ sched'[focus_hart] = 1
         \/ harts[focus_hart].pc \in bp
         \/ ~harts[focus_hart].running
<1>1. step_focus_hart
  BY StopSenders DEF CtrlC, handle_halt_reason, Take, HartAtBreakpoint, Scheduled,
       HartInspected, AfterLoop
<1>2. asked.step /\ phase \in Running /\ sched[focus_hart] = 0
  BY DEF Requests, Order, Running, Phases, IInv, CoreOK
<1>3. ~StepRefused
  BY <1>2 DEF Requests, Order, StepRefused, gdb_stub_should_run_thread
<1>4. CASE StepExecutes
  BY <1>2, <1>4 DEF StepExecutes, Count, IInv, CoreOK
<1> QED BY <1>1, <1>3, <1>4 DEF step_focus_hart, StepAtBreakpoint

\* A reply that says swbreak was made from a context with breakpoint_hit set.
LEMMA SwbreakMeansHit ==
  ASSUME IInv, NEW c \in Context, NEW sig \in {0, 2, 4, 5}, NEW pc \in Addr \cup {0},
         gdb_stub_send_stop_reason(c, sig, pc), Newest.reason = "swbreak"
  PROVE  c.breakpoint_hit /\ Newest.tid = StopTid(c)
<1>1. Newest = StopReply(c, sig, pc)
  BY StopReplyType, NewestIs DEF gdb_stub_send_stop_reason
<1> QED BY <1>1 DEF StopReply

LEMMA SwbreakAtStop ==
  ASSUME IInv, NEW c \in Context, NEW h \in Harts, NEW sig \in {4, 5}, NEW pc \in CodeAddr,
         handle_hart_stop(c, h, sig, pc), Newest.reason = "swbreak"
  PROVE  c.breakpoint_hit /\ Newest.tid - 1 = h
<1> DEFINE d == [c EXCEPT !.should_stop = TRUE, !.stop_thread = h + 1]
<1>1. d \in Context /\ d.breakpoint_hit = c.breakpoint_hit /\ d.stop_thread = h + 1
  BY ThreadFacts DEF Context
<1>2. gdb_stub_send_stop_reason(d, sig, pc)
  BY DEF handle_hart_stop
<1> HIDE DEF d
<1>3. c.breakpoint_hit /\ Newest.tid = StopTid(d)
  BY <1>1, <1>2, SwbreakMeansHit DEF Addr
<1>4. StopTid(d) - 1 = h
  BY <1>1 DEF StopTid, Harts
<1> QED BY <1>3, <1>4

LEMMA SwbreakStep ==
  ASSUME NoQuery, IInv, Flags, [Next]_vars, StopSent, Newest.reason = "swbreak"
  PROVE  harts'[Newest.tid - 1].pc \in bp
<1>0. /\ ctx \in Context /\ ~ctx.breakpoint_hit /\ focus_hart \in Harts /\ hart \in Harts
      /\ harts \in [Harts -> Cpu] /\ \A h \in Harts : harts[h].pc \in CodeAddr
      /\ stop_hart \in Harts \cup {-1}
  BY DEF IInv, CoreOK, Flags, Consumed, Cpu
<1>1. CASE CtrlC
  <2> DEFINE c == [ctx EXCEPT !.should_stop = TRUE,
                              !.stop_thread = IF @ = 0 THEN ctx.current_thread ELSE @]
  <2>1. c \in Context /\ ~c.breakpoint_hit
    BY <1>0, ThreadFacts DEF Context
  <2>2. gdb_stub_send_stop_reason(c, 2, 0)
    BY <1>1 DEF CtrlC
  <2> HIDE DEF c
  <2> QED BY <2>1, <2>2, SwbreakMeansHit
<1>2. CASE handle_halt_reason
  <2>1. Head(inbox) \in Commands /\ Head(inbox).op = "?"
    BY <1>2, ArgType DEF handle_halt_reason, IInv, Accounts, Take
  <2> QED BY <2>1 DEF NoQuery
<1>3. CASE step_focus_hart
  <2>1. CASE StepRefused
    <3> DEFINE d == [ctx EXCEPT !.stop_thread = focus_hart + 1]
    <3>1. d \in Context /\ ~d.breakpoint_hit
      BY <1>0, ThreadFacts DEF Context
    <3>2. gdb_stub_send_stop_reason(d, 0, harts[focus_hart].pc)
      BY <2>1 DEF StepRefused
    <3> HIDE DEF d
    <3> QED BY <1>0, <3>1, <3>2, SwbreakMeansHit DEF Addr
  <2>2. CASE StepAtBreakpoint
    <3> DEFINE c == [ctx EXCEPT !.breakpoint_hit = TRUE]
    <3>1. c \in Context
      BY <1>0 DEF Context
    <3>2. /\ handle_hart_stop(c, focus_hart, 5, harts[focus_hart].pc)
          /\ harts' = harts /\ harts[focus_hart].pc \in bp
      BY <2>2 DEF StepAtBreakpoint
    <3> HIDE DEF c
    <3>3. Newest.tid - 1 = focus_hart
      BY <1>0, <3>1, <3>2, SwbreakAtStop
    <3> QED BY <3>2, <3>3
  <2>3. CASE StepExecutes
    <3>1. PICK o \in sys_cpu_step(focus_hart) :
             handle_hart_stop([WithHit(ctx, o.hit) EXCEPT !.single_step = FALSE], focus_hart,
                   IF o.harts[focus_hart].running \/ o.harts[focus_hart].halted THEN 5 ELSE 4,
                   o.harts[focus_hart].pc)
      BY <2>3 DEF StepExecutes
    <3>2. o.harts \in [Harts -> Cpu] /\ o.hit \in Addr \cup {0}
      BY <1>0, SysCpuStepType, TypeSplit DEF IInv, Accounts
    <3> DEFINE c == [WithHit(ctx, o.hit) EXCEPT !.single_step = FALSE]
    <3>3. c \in Context /\ ~c.breakpoint_hit
      BY <1>0, <3>2 DEF WithHit, Context
    <3>4. PICK sig \in {4, 5}, pc \in CodeAddr : handle_hart_stop(c, focus_hart, sig, pc)
      BY <1>0, <3>1, <3>2 DEF Cpu
    <3> HIDE DEF c
    <3> QED BY <1>0, <3>3, <3>4, SwbreakAtStop
  <2> QED BY <1>3, <2>1, <2>2, <2>3 DEF step_focus_hart
<1>4. CASE HartAtBreakpoint
  <2> DEFINE c == [ctx EXCEPT !.breakpoint_hit = TRUE]
  <2>1. c \in Context
    BY <1>0 DEF Context
  <2>2. /\ handle_hart_stop(c, hart, 5, harts[hart].pc)
        /\ harts' = harts /\ harts[hart].pc \in bp
    BY <1>4 DEF HartAtBreakpoint
  <2> HIDE DEF c
  <2>3. Newest.tid - 1 = hart
    BY <1>0, <2>1, <2>2, SwbreakAtStop
  <2> QED BY <2>2, <2>3
<1>5. CASE HartInspected
  <2>1. CASE handle_hart_stop(ctx, hart, IF harts[hart].halted THEN 5 ELSE 4, harts[hart].pc)
    <3>1. PICK sig \in {4, 5} : handle_hart_stop(ctx, hart, sig, harts[hart].pc)
      BY <2>1
    <3> QED BY <1>0, <3>1, SwbreakAtStop
  <2>2. CASE UNCHANGED outbox
    BY <2>2, SilenceIsNoStop
  <2> QED BY <1>5, <2>1, <2>2 DEF HartInspected
<1>6. CASE AfterLoop
  <2> DEFINE n == (IF stop_hart >= 0 THEN stop_hart ELSE focus_hart) + 1
             e == [ctx EXCEPT !.should_stop = TRUE]
             c == [e EXCEPT !.stop_thread = n]
  <2>1. n \in 0 .. NumHarts
    BY <1>0, ThreadFacts
  <2>2. \/ UNCHANGED outbox
        \/ \E sig \in {2, 4} : gdb_stub_send_stop_reason(c, sig, harts[focus_hart].pc)
    BY <1>6 DEF AfterLoop, notify_stop
  <2>3. c \in Context /\ ~c.breakpoint_hit
    <3> HIDE DEF n
    <3> QED BY <1>0, <2>1 DEF Context
  <2> HIDE DEF c
  <2>4. CASE UNCHANGED outbox
    BY <2>4, SilenceIsNoStop
  <2>5. CASE \E sig \in {2, 4} : gdb_stub_send_stop_reason(c, sig, harts[focus_hart].pc)
    BY <1>0, <2>3, <2>5, SwbreakMeansHit DEF Addr
  <2> QED BY <2>2, <2>4, <2>5
<1> QED BY <1>1, <1>2, <1>3, <1>4, <1>5, <1>6, StopSenders

(***************************************************************************)
(* What a run does to the harts, and what its stop reply says.             *)
(***************************************************************************)
\* A run gives instructions only to the harts the debugger asked to run and a step
\* gives at most one, whether the debugger resumes with vCont or with plain c and s.
\* The two styles must not be mixed with an Hc selection: c runs every thread whatever
\* Hc selected.
THEOREM RunsObey ==
  ASSUME Plain \/ Direct
  PROVE  Spec => []RunsAsAsked
<1>1. IInv /\ Requests => RunsAsAsked
  BY DEF Requests, Obeyed
<1> QED BY <1>1, RequestsInvariance, PTL

\* A vCont step of the thread in focus executes one instruction of it, unless it stands on a
\* breakpoint or no longer runs: step_focus_hart does not refuse it, whatever was selected before.  A plain s
\* may be refused, since it steps the thread that an earlier s left in continue_thread.
THEOREM StepsHappen ==
  ASSUME NoPlainStep
  PROVE  Spec => StepHappens
<1>1. IInv /\ Requests /\ [Next]_vars =>
        [phase = "step" /\ StopSent /\ asked.tid = focus_hart + 1
           => \/ sched'[focus_hart] = 1
              \/ harts[focus_hart].pc \in bp
              \/ ~harts[focus_hart].running]_vars
  BY StepHappensStep
<1> QED BY <1>1, RequestsInvariance, PTL DEF Spec, StepHappens

\* A stop reply that says swbreak names a thread that stands on an armed breakpoint, as long
\* as the debugger does not ask "?", which sets breakpoint_hit for a later reply to find.
THEOREM SwbreakTrue ==
  ASSUME NoQuery
  PROVE  Spec => SwbreakTruth
<1>1. IInv /\ Flags /\ [Next]_vars =>
        [StopSent /\ Newest.reason = "swbreak" => harts'[Newest.tid - 1].pc \in bp]_vars
  BY SwbreakStep
<1> QED BY <1>1, FlagsInvariance, PTL DEF Spec, SwbreakTruth

\* No hart gets another turn while a watchpoint hit is unreported.  The three conditions are
\* the three ways in which the code leaves a hit behind: a reply that finds breakpoint_hit
\* set by "?" instead, the debugger's own access, and a hit in a worker's job.
THEOREM HitsEndRuns ==
  ASSUME Reporting
  PROVE  Spec => []NoRunPastWatchHit
<1>1. IInv /\ Flags => NoRunPastWatchHit
  BY DEF Flags, Fresh, NoRunPastWatchHit
<1> QED BY <1>1, FlagsInvariance, PTL
==============================================================================
