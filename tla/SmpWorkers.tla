------------------------------ MODULE SmpWorkers ------------------------------
(***************************************************************************)
(* The SMP demo at instruction level: hart 0's loop (main.c), the workers' *)
(* poll and handler code (smp_program.h), the mailbox, lock and counter in *)
(* shared RAM, and smp_sync.c, which publishes a job for every loop store  *)
(* and runs the worker inside that store.  Around them the run loop, and a *)
(* debugger that stops, steps, continues one thread, moves hart 0 back to  *)
(* the loop, resets and interrupts.                                        *)
(*                                                                         *)
(* A program counter is the index of its word, (pc - RAM_BASE) / 4.  Kept  *)
(* of the registers is what the two programs compare and store; the        *)
(* address arithmetic of worker_poll always yields the hart's own word of  *)
(* ipi_pending, as s0 and tp are constant.                                 *)
(***************************************************************************)
EXTENDS Integers, FiniteSets

CONSTANTS
  NumHarts,    \* g_sys.num_harts
  JobBudget,   \* 128, the instructions smp_sync_run_worker_jobs may spend
  Limit,       \* 5, the value of t2
  MaxStores,   \* bound: no jump back to the loop after so many stores
  MaxResumes,  \* bound on resumes and resets
  Events       \* which of the debugger's doings and of the signals can happen

EventNames == {"stop", "step", "thread", "jump", "reset", "ctrlc", "sigint", "watch", "ipi"}

ASSUME HartsAssumption == NumHarts \in Nat \ {0}
ASSUME BudgetAssumption == JobBudget \in Nat /\ Limit \in Nat
ASSUME BoundAssumption == MaxStores \in Nat /\ MaxResumes \in Nat
ASSUME EventsAssumption == Events \subseteq EventNames

Harts   == 0 .. (NumHarts - 1)
Workers == Harts \ {0}

ENTRY   == 0
LOOP    == 5      \* 0x80000014, the store
POLL    == 13     \* SMP_WORKER_POLL
SPIN    == 20     \* SMP_WORKER_SPIN
HANDLE  == 21     \* SMP_WORKER_HANDLE
RELEASE == 34     \* SMP_WORKER_RELEASE
END     == 36     \* SMP_WORKER_END
Critical == 25 .. RELEASE   \* between the store that takes the lock and the one that frees it

VARIABLES
  harts,    \* pc, halted and registers of every hart
  mem,      \* the words at SMP_SYNC_BASE
  ctl,      \* where the emulator's thread of control is, and g_interrupt_received
  stores,   \* loop stores since the last reset
  manual,   \* writes of the debugger to the IPI register
  resumes   \* resumes and resets so far

vars == <<harts, mem, ctl, stores, manual, resumes>>

TypeOK ==
  /\ harts \in [Harts -> [pc : 0 .. (END - 1), halted : BOOLEAN, t0 : Nat, t1 : Nat,
                          t2 : Nat, s1 : Nat, s2 : Nat]]
  /\ mem \in [lock : Nat, item : Nat, ready : {0, 1}, done : Nat, ipi : [Harts -> {0, 1}]]
  /\ ctl \in [at : {"stopped", "test", "turn", "look", "job", "poll"}, step : BOOLEAN,
              continue_thread : {-1} \cup (1 .. NumHarts), hart : Harts, job : Harts,
              guard : 0 .. JobBudget, interrupted : BOOLEAN]
  /\ stores \in Nat /\ manual \in Nat /\ resumes \in 0 .. MaxResumes

(***************************************************************************)
(* One instruction of either program: the next pc, the registers and the   *)
(* memory it leaves.  0..11 is hart 0's code, 12..35 the workers'.         *)
(***************************************************************************)
NextPc(r) ==
  CASE r.pc = 8  -> IF r.t1 # r.t2 THEN 10 ELSE 9       \* 0x00731463
    [] r.pc = 9  -> LOOP
    [] r.pc = 11 -> 11
    [] r.pc = 17 -> IF r.t1 = 0 THEN SPIN ELSE 18
    [] r.pc = 19 -> HANDLE
    [] r.pc = SPIN -> POLL
    [] r.pc = 22 -> IF r.t0 # 0 THEN HANDLE ELSE 23
    [] r.pc = 26 -> IF r.t2 = 0 THEN RELEASE ELSE 27
    [] r.pc = 35 -> POLL
    [] OTHER -> r.pc + 1

Regs(h, r, m) ==
  CASE r.pc = 1  -> [r EXCEPT !.t1 = 0]
    [] r.pc = 2  -> [r EXCEPT !.t2 = Limit]
    [] r.pc = 7  -> [r EXCEPT !.t1 = @ + 1]
    [] r.pc = 16 -> [r EXCEPT !.t1 = m.ipi[h]]
    [] r.pc = HANDLE -> [r EXCEPT !.t0 = m.lock]
    [] r.pc = 23 -> [r EXCEPT !.t0 = h + 1]
    [] r.pc = 25 -> [r EXCEPT !.t2 = m.ready]
    [] r.pc = 27 -> [r EXCEPT !.t1 = m.item]
    [] r.pc = 29 -> [r EXCEPT !.s1 = r.t1]
    [] r.pc = 30 -> [r EXCEPT !.t2 = m.done]
    [] r.pc = 31 -> [r EXCEPT !.t2 = @ + 1]
    [] r.pc = 33 -> [r EXCEPT !.s2 = r.t2]
    [] OTHER -> r

ReleaseLate(h, r, m) ==   \* mutant: worker_release does not store
  CASE r.pc = 18 -> [m EXCEPT !.ipi[h] = 0]
    [] r.pc = 24 -> [m EXCEPT !.lock = r.t0]
    [] r.pc = 28 -> [m EXCEPT !.ready = 0]
    [] r.pc = 32 -> [m EXCEPT !.done = r.t2]
    [] OTHER -> m

ReadyKept(h, r, m) ==     \* mutant: the mailbox is not emptied
  CASE r.pc = 18 -> [m EXCEPT !.ipi[h] = 0]
    [] r.pc = 24 -> [m EXCEPT !.lock = r.t0]
    [] r.pc = 32 -> [m EXCEPT !.done = r.t2]
    [] r.pc = RELEASE -> [m EXCEPT !.lock = 0]
    [] OTHER -> m

IpiKept(h, r, m) ==       \* mutant: the handler does not clear its interrupt
  CASE r.pc = 24 -> [m EXCEPT !.lock = r.t0]
    [] r.pc = 28 -> [m EXCEPT !.ready = 0]
    [] r.pc = 32 -> [m EXCEPT !.done = r.t2]
    [] r.pc = RELEASE -> [m EXCEPT !.lock = 0]
    [] OTHER -> m

Memory(h, r, m) ==
  CASE r.pc = 18 -> [m EXCEPT !.ipi[h] = 0]
    [] r.pc = 24 -> [m EXCEPT !.lock = r.t0]
    [] r.pc = 28 -> [m EXCEPT !.ready = 0]
    [] r.pc = 32 -> [m EXCEPT !.done = r.t2]
    [] r.pc = RELEASE -> [m EXCEPT !.lock = 0]
    [] OTHER -> m

\* The words with a load or a store of data, where a watchpoint can halt the hart.
Accesses == {5, 6, 10, 16, 18, HANDLE, 24, 25, 27, 28, 30, 32, RELEASE}

\* The hart after rv32_cpu_step; halted if the access hits a watchpoint.
Stepped(h, hit) ==
  LET r == harts[h]
  IN  [Regs(h, r, mem) EXCEPT !.pc = NextPc(r), !.halted = @ \/ hit]

MayHit(h, hit) == hit => "watch" \in Events /\ harts[h].pc \in Accesses

(***************************************************************************)
(* smp_sync.c.                                                             *)
(***************************************************************************)
smp_worker_target(item) == (item % (NumHarts - 1)) + 1

smp_deliver_ipi(m, w, v) == [m EXCEPT !.item = v, !.ready = 1, !.ipi[w] = 1]

OnlyPending(h) == h \in Workers /\ mem.ipi[h] # 0   \* mutant: a handler is not resumed

smp_sync_worker_should_run(h) ==
  h \in Workers /\ (harts[h].pc \in HANDLE .. (END - 1) \/ mem.ipi[h] # 0)

NoGuard(g) == g      \* mutant: the budget is not used up
Spend(g) == g - 1

\* A turn of the while loop of smp_sync_run_worker_jobs.
JobStep ==
  /\ ctl.at = "job" /\ ctl.guard > 0 /\ ~harts[ctl.job].halted
  /\ \E hit \in BOOLEAN :
       /\ MayHit(ctl.job, hit)
       /\ harts' = [harts EXCEPT ![ctl.job] = Stepped(ctl.job, hit)]
  /\ mem' = Memory(ctl.job, harts[ctl.job], mem)
  /\ ctl' = [ctl EXCEPT !.guard = Spend(@),
                        !.at = IF /\ NextPc(harts[ctl.job]) \in {POLL, SPIN}
                                  /\ mem'.ipi[ctl.job] = 0
                               THEN "look" ELSE "job"]
  /\ UNCHANGED <<stores, manual, resumes>>

JobEnds ==
  /\ ctl.at = "job" /\ (ctl.guard = 0 \/ harts[ctl.job].halted)
  /\ ctl' = [ctl EXCEPT !.at = "look"]
  /\ UNCHANGED <<harts, mem, stores, manual, resumes>>

(***************************************************************************)
(* continue_all_harts and step_focus_hart.                                 *)
(***************************************************************************)
ShouldRun(h) == ctl.continue_thread \in {-1, h + 1}    \* gdb_stub_should_run_thread

should_step_hart(h) ==
  /\ ShouldRun(h)
  /\ NumHarts > 1 /\ ctl.continue_thread = -1 /\ ~ctl.step
        => h = 0 \/ smp_sync_worker_should_run(h)

NextHart ==               \* mutant: the for loop runs one hart too far
  IF ctl.hart = NumHarts THEN [ctl EXCEPT !.at = "poll"]
                         ELSE [ctl EXCEPT !.at = "turn", !.hart = @ + 1]

NextTurn == IF ctl.hart = NumHarts - 1
              THEN [ctl EXCEPT !.at = "poll"]
              ELSE [ctl EXCEPT !.at = "turn", !.hart = @ + 1]

Stop == ctl' = [ctl EXCEPT !.at = "stopped"]

sys_any_running == \E h \in Harts : ~harts[h].halted

\* The condition of the while loop.  A run that finds g_interrupt_received set ends
\* before its first instruction and clears it; a run that ends because no hart is
\* running leaves it set.  should_stop, which sigint_handler sets as well, changes
\* nothing here: every resume clears it, and the loop ends on either.
LoopTest ==
  /\ ctl.at = "test"
  /\ \/ /\ sys_any_running /\ ~ctl.interrupted
        /\ ctl' = [ctl EXCEPT !.at = "turn", !.hart = 0]
     \/ /\ sys_any_running /\ ctl.interrupted
        /\ ctl' = [ctl EXCEPT !.at = "stopped", !.interrupted = FALSE]
     \/ /\ ~sys_any_running
        /\ Stop
  /\ UNCHANGED <<harts, mem, stores, manual, resumes>>

\* The run loop passes over a halted hart; a single step does not look.
Passed(h) == ~ctl.step /\ (~should_step_hart(h) \/ harts[h].halted)

SkipHart ==
  /\ ctl.at = "turn" /\ Passed(ctl.hart)
  /\ ctl' = NextTurn
  /\ UNCHANGED <<harts, mem, stores, manual, resumes>>

\* sys_cpu_step: after hart 0's store, sys_post_step publishes a job for a worker
\* and enters smp_sync_run_worker_jobs.
Execute ==
  /\ ctl.at = "turn" /\ ~Passed(ctl.hart)
  /\ LET h == ctl.hart
         w == smp_worker_target(harts[h].t1)
     IN  /\ \E hit \in BOOLEAN :
              /\ MayHit(h, hit)
              /\ harts' = [harts EXCEPT ![h] = Stepped(h, hit)]
         /\ IF h = 0 /\ harts[h].pc = LOOP /\ NumHarts > 1
              THEN /\ stores' = stores + 1
                   /\ mem' = smp_deliver_ipi(mem, w, harts[h].t1)
                   /\ ctl' = [ctl EXCEPT !.at = "job", !.job = w, !.guard = JobBudget]
              ELSE /\ mem' = Memory(h, harts[h], mem)
                   /\ ctl' = [ctl EXCEPT !.at = "look"]
                   /\ UNCHANGED stores
  /\ UNCHANGED <<manual, resumes>>

\* handle_hart_stop for a halted hart, and after every single step.
Look ==
  /\ ctl.at = "look"
  /\ IF ctl.step \/ harts[ctl.hart].halted
       THEN Stop
       ELSE ctl' = NextTurn
  /\ UNCHANGED <<harts, mem, stores, manual, resumes>>

\* The end of a round: the run ends if the debugger sent something.
Poll ==
  /\ ctl.at = "poll"
  /\ \/ ctl' = [ctl EXCEPT !.at = "test"]
     \/ "stop" \in Events /\ Stop
  /\ UNCHANGED <<harts, mem, stores, manual, resumes>>

(***************************************************************************)
(* The debugger, while the target is stopped, and SIGINT at any moment.    *)
(***************************************************************************)
\* sys_resume_runnable, for continue_thread = tid.
Resumed(tid) == [h \in Harts |-> IF tid \in {-1, h + 1}
                                   THEN [harts[h] EXCEPT !.halted = FALSE] ELSE harts[h]]

Resume(tid, step, h) ==
  /\ ctl.at = "stopped" /\ resumes < MaxResumes
  /\ resumes' = resumes + 1
  /\ harts' = Resumed(tid)
  /\ ctl' = [ctl EXCEPT !.at = IF step THEN "turn" ELSE "test", !.step = step,
                        !.continue_thread = tid, !.hart = h]
  /\ UNCHANGED <<mem, stores, manual>>

ContinueAll == Resume(-1, FALSE, 0)
ContinueThread(h) == "thread" \in Events /\ Resume(h + 1, FALSE, 0)
StepThread(h) == "step" \in Events /\ Resume(h + 1, TRUE, h)

\* Hart 0 is sent back to the loop by a write to its pc.
JumpToLoop ==
  /\ "jump" \in Events /\ ctl.at = "stopped" /\ stores < MaxStores
  /\ harts' = [harts EXCEPT ![0].pc = LOOP]
  /\ UNCHANGED <<mem, ctl, stores, manual, resumes>>

HaltAll == [h \in Harts |-> [harts[h] EXCEPT !.halted = TRUE]]

CtrlC ==
  /\ "ctrlc" \in Events /\ ctl.at = "stopped"
  /\ harts' = HaltAll
  /\ UNCHANGED <<mem, ctl, stores, manual, resumes>>

sigint_handler ==
  /\ "sigint" \in Events
  /\ harts' = HaltAll
  /\ ctl' = [ctl EXCEPT !.interrupted = TRUE]
  /\ UNCHANGED <<mem, stores, manual, resumes>>

Fresh(h) == [pc |-> IF h = 0 THEN ENTRY ELSE POLL, halted |-> FALSE,
             t0 |-> 0, t1 |-> 0, t2 |-> 0, s1 |-> 0, s2 |-> 0]

KeepsDone(m) ==           \* mutant: the counter survives the reset
  [lock |-> 0, item |-> 0, ready |-> 0, done |-> m.done, ipi |-> [h \in Harts |-> 0]]

smp_sync_ram_init(m) ==
  [m EXCEPT !.lock = 0, !.item = 0, !.ready = 0, !.done = 0, !.ipi = [h \in Harts |-> 0]]

ZeroMem == [lock |-> 0, item |-> 0, ready |-> 0, done |-> 0, ipi |-> [h \in Harts |-> 0]]

gdb_reset ==
  /\ "reset" \in Events /\ ctl.at = "stopped" /\ resumes < MaxResumes
  /\ harts' = [h \in Harts |-> Fresh(h)]
  /\ mem' = smp_sync_ram_init(mem)
  /\ stores' = 0
  /\ resumes' = resumes + 1
  /\ UNCHANGED <<ctl, manual>>

\* smp_sync_handle_mmio, for a write of size bytes to SMP_IPI_MMIO: the mailbox it leaves.
smp_sync_handle_mmio(m, w, v, size) == IF size = 4 THEN smp_deliver_ipi(m, w, v) ELSE m

\* set *(int*)0x10000004 = (w << 16) | v in gdb: M and X write memory byte by byte.
ManualIpi(w, v) ==
  /\ "ipi" \in Events /\ ctl.at = "stopped" /\ stores + manual < MaxStores
  /\ mem' = smp_sync_handle_mmio(mem, w, v, 1)
  /\ manual' = manual + 1
  /\ UNCHANGED <<harts, ctl, stores, resumes>>

------------------------------------------------------------------------------
\* init_system and create_test_program; the debugger has just connected.
Init ==
  /\ harts = [h \in Harts |-> Fresh(h)]
  /\ mem = smp_sync_ram_init(ZeroMem)
  /\ ctl = [at |-> "stopped", step |-> FALSE, continue_thread |-> -1, hart |-> 0,
            job |-> 0, guard |-> 0, interrupted |-> FALSE]
  /\ stores = 0 /\ manual = 0 /\ resumes = 0

Emulator == LoopTest \/ SkipHart \/ Execute \/ JobStep \/ JobEnds \/ Look \/ Poll

Debugger ==
  \/ ContinueAll \/ JumpToLoop \/ CtrlC \/ gdb_reset
  \/ \E h \in Harts : ContinueThread(h) \/ StepThread(h)
  \/ \E w \in Workers : ManualIpi(w, Limit)

Next == Emulator \/ Debugger \/ sigint_handler

Spec == Init /\ [][Next]_vars

\* The emulator is one process, and the run loop never blocks.
FairSpec == Spec /\ WF_vars(Emulator)

------------------------------------------------------------------------------
\* The lock word never names a worker that is outside its critical section: however
\* the debugger stops, steps, continues, resets and interrupts the harts, a lock that
\* is held is held by a worker that will release it.  (The debugger writes neither
\* the lock nor the pc of a worker.)
LockHolder ==
  mem.lock # 0 => \E h \in Workers : mem.lock = h + 1 /\ harts[h].pc \in Critical

\* At most one worker is between taking and releasing the lock.
MutualExclusion ==
  \A h, k \in Workers : harts[h].pc \in Critical /\ harts[k].pc \in Critical => h = k

IdlePc == {12, 13, 14, 15, 16, 17, SPIN}

\* If no worker is halted in the middle of a job, then outside of hart 0's store all
\* workers are idle, the mailbox is empty, the lock is free, and every store was counted.
JobsInline ==
  ctl.at # "job" =>
    /\ mem.lock = 0 /\ mem.ready = 0 /\ mem.done = stores
    /\ \A w \in Workers : mem.ipi[w] = 0 /\ harts[w].pc \in IdlePc

\* A job always ends within the budget of smp_sync_run_worker_jobs.
WithinBudget == ctl.at = "job" => ctl.guard > 0

\* Workers never count more jobs than hart 0 has handed out.
NoJobInvented == mem.done <= stores

\* Hart 0's store ends, also when its worker waits for a lock whose holder is halted.
StoreEnds == ctl.at = "job" ~> ctl.at # "job"

HolderHalted == \E w \in Workers : mem.lock = w + 1 /\ harts[w].halted

\* A run of all harts finishes interrupted handlers: the lock is freed, unless the
\* run ends or the holder hits a watchpoint, which halts it and not the run.
LockFreed ==
  mem.lock # 0 /\ ctl.at # "stopped" /\ ctl.continue_thread = -1
     ~> mem.lock = 0 \/ ctl.at = "stopped" \/ HolderHalted
==============================================================================
