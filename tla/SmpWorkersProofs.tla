--------------------------- MODULE SmpWorkersProofs ---------------------------
(***************************************************************************)
(* Proofs about SmpWorkers, for any number of harts, any budget and any    *)
(* bounds: types, the worth of the lock word, jobs inside hart 0's store,  *)
(* and the count of jobs.                                                  *)
(***************************************************************************)
EXTENDS SmpWorkers, FiniteSetTheorems, TLAPS

RegFile == [pc : 0 .. (END - 1), halted : BOOLEAN, t0 : Nat, t1 : Nat,
            t2 : Nat, s1 : Nat, s2 : Nat]
MemFile == [lock : Nat, item : Nat, ready : {0, 1}, done : Nat, ipi : [Harts -> {0, 1}]]

\* Hart 0 and the workers stay in their own programs, and a worker about to take the
\* lock has its own number in t0.
Places ==
  /\ harts[0].pc \in 0 .. 11
  /\ \A w \in Workers : /\ harts[w].pc \in 12 .. (END - 1)
                        /\ harts[w].pc = 24 => harts[w].t0 = w + 1

HartInv == TypeOK /\ Places
LockInv == HartInv /\ LockHolder

USE DEF ENTRY, LOOP, POLL, SPIN, HANDLE, RELEASE, END

------------------------------------------------------------------------------
\* The code of hart 0 is left by no instruction of it, the code of the workers neither.
LEMMA StaysInProgram ==
  ASSUME NEW r
  PROVE  /\ r.pc \in 0 .. 11 => NextPc(r) \in 0 .. 11
         /\ r.pc \in 12 .. (END - 1) => NextPc(r) \in 12 .. (END - 1)
<1>1. ASSUME r.pc \in 0 .. 11 PROVE NextPc(r) \in 0 .. 11
  BY <1>1, SMTT(30) DEF NextPc
<1>2. ASSUME r.pc \in 12 .. (END - 1) PROVE NextPc(r) \in 12 .. (END - 1)
  BY <1>2, SMTT(60) DEF NextPc
<1> QED BY <1>1, <1>2

\* rv32_cpu_step keeps registers and memory well formed.
LEMMA InstructionTypes ==
  ASSUME NEW h \in Harts, NEW r \in RegFile, NEW m \in MemFile
  PROVE  /\ Regs(h, r, m) \in RegFile
         /\ Memory(h, r, m) \in MemFile
         /\ NextPc(r) \in 0 .. (END - 1)
<1>0. h \in Nat /\ h + 1 \in Nat BY HartsAssumption DEF Harts
<1>1. m.ipi[h] \in Nat BY DEF MemFile
<1>2. Regs(h, r, m) \in RegFile
  <2>1. CASE r.pc \in {1, 2, 7, 16} BY <1>0, <1>1, <2>1, BudgetAssumption, SMTT(30) DEF Regs, RegFile
  <2>2. CASE r.pc \in {HANDLE, 23, 25, 27} BY <1>0, <2>2, SMTT(30) DEF Regs, RegFile, MemFile
  <2>3. CASE r.pc \in {29, 30, 31, 33} BY <2>3, SMTT(30) DEF Regs, RegFile, MemFile
  <2>4. CASE r.pc \notin {1, 2, 7, 16, HANDLE, 23, 25, 27, 29, 30, 31, 33}
    BY <2>4 DEF Regs, RegFile
  <2> QED BY <2>1, <2>2, <2>3, <2>4
<1>3. Memory(h, r, m) \in MemFile BY <1>0 DEF Memory, RegFile, MemFile
<1>4. NextPc(r) \in 0 .. (END - 1) BY DEF NextPc, RegFile
<1> QED BY <1>2, <1>3, <1>4

\* The only instruction before the store at 24 loads the hart's number into t0.
LEMMA NumberLoaded ==
  ASSUME NEW h \in Harts, NEW r \in RegFile, NEW m \in MemFile,
         r.pc \in 12 .. (END - 1), NextPc(r) = 24
  PROVE  Regs(h, r, m).t0 = h + 1
<1>1. r.pc = 23 BY DEF NextPc, RegFile
<1> QED BY <1>1 DEF Regs, RegFile

LEMMA SteppedOK ==
  ASSUME HartInv, NEW h \in Harts, NEW hit \in BOOLEAN
  PROVE  /\ Stepped(h, hit) \in RegFile
         /\ Memory(h, harts[h], mem) \in MemFile
         /\ Stepped(h, hit).pc = NextPc(harts[h])
         /\ h = 0 => Stepped(h, hit).pc \in 0 .. 11
         /\ h \in Workers => /\ Stepped(h, hit).pc \in 12 .. (END - 1)
                             /\ Stepped(h, hit).pc = 24 => Stepped(h, hit).t0 = h + 1
<1> DEFINE r == harts[h]
<1>1. r \in RegFile /\ mem \in MemFile BY DEF HartInv, TypeOK, RegFile, MemFile
<1>2. /\ Regs(h, r, mem) \in RegFile /\ NextPc(r) \in 0 .. (END - 1)
      /\ Memory(h, r, mem) \in MemFile
  BY <1>1, InstructionTypes
<1>3. /\ Stepped(h, hit) \in RegFile /\ Stepped(h, hit).pc = NextPc(r)
      /\ Stepped(h, hit).t0 = Regs(h, r, mem).t0
  BY <1>2 DEF Stepped, RegFile
<1>4. /\ h = 0 => r.pc \in 0 .. 11
      /\ h \in Workers => r.pc \in 12 .. (END - 1)
  BY DEF HartInv, Places, Workers
<1>5. /\ h = 0 => NextPc(r) \in 0 .. 11
      /\ h \in Workers => NextPc(r) \in 12 .. (END - 1)
  BY <1>1, <1>4, StaysInProgram
<1>6. h \in Workers /\ NextPc(r) = 24 => Regs(h, r, mem).t0 = h + 1
  BY <1>1, <1>4, NumberLoaded
<1> QED BY <1>2, <1>3, <1>5, <1>6

\* A hart that executes one instruction, and memory it leaves well formed.
LEMMA OneStep ==
  ASSUME HartInv, NEW h \in Harts, NEW hit \in BOOLEAN,
         harts' = [harts EXCEPT ![h] = Stepped(h, hit)]
  PROVE  harts' \in [Harts -> RegFile] /\ Places'
<1>1. harts \in [Harts -> RegFile] BY DEF HartInv, TypeOK, RegFile
<1>2. harts' \in [Harts -> RegFile] BY <1>1, SteppedOK
<1>3. 0 \in Harts BY HartsAssumption DEF Harts
<1>4. harts'[0].pc \in 0 .. 11
  BY <1>1, <1>3, SteppedOK DEF HartInv, Places
<1>5. ASSUME NEW w \in Workers
      PROVE  harts'[w].pc \in 12 .. (END - 1) /\ (harts'[w].pc = 24 => harts'[w].t0 = w + 1)
  <2>1. w \in Harts BY DEF Workers
  <2>2. CASE w = h BY <1>1, <2>1, <2>2, SteppedOK
  <2>3. CASE w # h BY <1>1, <2>1, <2>3 DEF HartInv, Places
  <2> QED BY <2>2, <2>3
<1> QED BY <1>2, <1>4, <1>5 DEF Places

LEMMA Remainder ==
  ASSUME NEW a \in Nat, NEW b \in Nat, b > 0
  PROVE  a % b \in 0 .. (b - 1)
OBVIOUS

\* smp_worker_target names a worker.
LEMMA TargetIsWorker ==
  ASSUME NEW item \in Nat, NumHarts > 1
  PROVE  smp_worker_target(item) \in Workers
<1>1. NumHarts - 1 \in Nat /\ NumHarts - 1 > 0 BY HartsAssumption
<1>2. item % (NumHarts - 1) \in 0 .. ((NumHarts - 1) - 1) BY <1>1, Remainder
<1> QED BY <1>1, <1>2, HartsAssumption DEF smp_worker_target, Workers, Harts

LEMMA DeliverOK ==
  ASSUME NEW m \in MemFile, NEW w \in Harts, NEW v \in Nat
  PROVE  smp_deliver_ipi(m, w, v) \in MemFile /\ smp_deliver_ipi(m, w, v).lock = m.lock
BY DEF smp_deliver_ipi, MemFile

\* What an instruction does to the lock word.
LEMMA LockWord ==
  ASSUME NEW h, NEW r, NEW m \in MemFile
  PROVE  Memory(h, r, m).lock = IF r.pc = 24 THEN r.t0 ELSE IF r.pc = RELEASE THEN 0 ELSE m.lock
BY DEF Memory, MemFile

\* The critical section is left only by the store that frees the lock.
LEMMA StaysCritical ==
  ASSUME NEW r, r.pc \in Critical, r.pc # RELEASE
  PROVE  NextPc(r) \in Critical
BY SMTT(30) DEF NextPc, Critical

\* One instruction keeps the lock word truthful.
LEMMA LockStep ==
  ASSUME LockInv, NEW h \in Harts, NEW hit \in BOOLEAN,
         harts' = [harts EXCEPT ![h] = Stepped(h, hit)],
         mem' = Memory(h, harts[h], mem)
  PROVE  LockHolder'
<1> DEFINE r == harts[h]
<1>1. HartInv /\ LockHolder /\ mem \in MemFile /\ harts \in [Harts -> RegFile]
  BY DEF LockInv, HartInv, TypeOK, MemFile, RegFile
<1>2. harts'[h].pc = NextPc(r) BY <1>1, SteppedOK
<1>3. mem'.lock = IF r.pc = 24 THEN r.t0 ELSE IF r.pc = RELEASE THEN 0 ELSE mem.lock
  BY <1>1, LockWord
<1>4. CASE r.pc = 24
  <2>1. h \in Workers /\ r.t0 = h + 1 BY <1>1, <1>4 DEF HartInv, Places, Workers
  <2>2. NextPc(r) = 25 BY <1>4 DEF NextPc
  <2>3. mem'.lock = h + 1 /\ harts'[h].pc \in Critical BY <1>2, <1>3, <1>4, <2>1, <2>2 DEF Critical
  <2> QED BY <2>1, <2>3 DEF LockHolder
<1>5. CASE r.pc = RELEASE BY <1>3, <1>5 DEF LockHolder
<1>6. CASE r.pc \notin {24, RELEASE}
  <2>1. mem'.lock = mem.lock BY <1>3, <1>6
  <2>2. CASE mem.lock = 0 BY <2>1, <2>2 DEF LockHolder
  <2>3. CASE mem.lock # 0
    <3>1. PICK k \in Workers : mem.lock = k + 1 /\ harts[k].pc \in Critical
      BY <1>1, <2>3 DEF LockHolder
    <3>2. k \in Harts BY DEF Workers
    <3>3. CASE k = h
      <4>1. harts'[k].pc \in Critical BY <1>2, <1>6, <3>1, <3>3, StaysCritical
      <4> QED BY <2>1, <3>1, <4>1 DEF LockHolder
    <3>4. CASE k # h
      <4>1. harts'[k] = harts[k] BY <1>1, <3>2, <3>4
      <4> QED BY <2>1, <3>1, <4>1 DEF LockHolder
    <3> QED BY <3>3, <3>4
  <2> QED BY <2>2, <2>3
<1> QED BY <1>4, <1>5, <1>6

\* Halting and resuming harts changes neither their places nor the lock.
LEMMA OnlyHalted ==
  ASSUME LockInv, harts' \in [Harts -> RegFile], mem' = mem,
         \A h \in Harts : harts'[h].pc = harts[h].pc /\ harts'[h].t0 = harts[h].t0
  PROVE  Places' /\ LockHolder'
<1>1. 0 \in Harts /\ \A w \in Workers : w \in Harts BY HartsAssumption DEF Harts, Workers
<1>2. Places' BY <1>1 DEF LockInv, HartInv, Places
<1>3. LockHolder' BY <1>1 DEF LockInv, LockHolder
<1> QED BY <1>2, <1>3

LEMMA ResumedOK ==
  ASSUME HartInv, NEW tid
  PROVE  /\ Resumed(tid) \in [Harts -> RegFile]
         /\ \A h \in Harts : /\ Resumed(tid)[h].pc = harts[h].pc
                             /\ Resumed(tid)[h].t0 = harts[h].t0
<1>1. harts \in [Harts -> RegFile] BY DEF HartInv, TypeOK, RegFile
<1> QED BY <1>1 DEF Resumed, RegFile

LEMMA HaltAllOK ==
  ASSUME HartInv
  PROVE  /\ HaltAll \in [Harts -> RegFile]
         /\ \A h \in Harts : HaltAll[h].pc = harts[h].pc /\ HaltAll[h].t0 = harts[h].t0
<1>1. harts \in [Harts -> RegFile] BY DEF HartInv, TypeOK, RegFile
<1> QED BY <1>1 DEF HaltAll, RegFile

Control == [at : {"stopped", "test", "turn", "look", "job", "poll"}, step : BOOLEAN,
            continue_thread : {-1} \cup (1 .. NumHarts), hart : Harts, job : Harts,
            guard : 0 .. JobBudget, interrupted : BOOLEAN]

LEMMA NextTurnOK == ASSUME ctl \in Control PROVE NextTurn \in Control
<1>1. ctl.hart \in Harts /\ ctl.hart # NumHarts - 1 => ctl.hart + 1 \in Harts
  BY HartsAssumption DEF Control, Harts
<1> QED BY <1>1 DEF NextTurn, Control

LEMMA EnterJobOK ==
  ASSUME ctl \in Control, NEW w \in Harts
  PROVE  [ctl EXCEPT !.at = "job", !.job = w, !.guard = JobBudget] \in Control
<1>1. JobBudget \in 0 .. JobBudget BY BudgetAssumption
<1> QED BY <1>1 DEF Control

\* Every loop store publishes the job for a worker that exists.
LEMMA MailboxOK ==
  ASSUME HartInv, NEW h \in Harts, NumHarts > 1
  PROVE  /\ smp_worker_target(harts[h].t1) \in Workers
         /\ smp_deliver_ipi(mem, smp_worker_target(harts[h].t1), harts[h].t1) \in MemFile
         /\ smp_deliver_ipi(mem, smp_worker_target(harts[h].t1), harts[h].t1).lock = mem.lock
<1>1. harts[h].t1 \in Nat /\ mem \in MemFile BY DEF HartInv, TypeOK, RegFile, MemFile
<1>2. smp_worker_target(harts[h].t1) \in Workers BY <1>1, TargetIsWorker
<1>3. smp_worker_target(harts[h].t1) \in Harts BY <1>2 DEF Workers
<1> QED BY <1>1, <1>2, <1>3, DeliverOK

LEMMA InitOK == Init => LockInv
<1> SUFFICES ASSUME Init PROVE LockInv OBVIOUS
<1>1. ZeroMem \in MemFile /\ smp_sync_ram_init(ZeroMem) \in MemFile
  BY DEF ZeroMem, smp_sync_ram_init, MemFile
<1>2. \A h \in Harts : Fresh(h) \in RegFile BY SMT DEF Fresh, RegFile
<1>3. 0 \in Harts BY HartsAssumption DEF Harts
<1>4. ctl \in Control BY <1>3, BudgetAssumption DEF Init, Control
<1>5. TypeOK BY <1>1, <1>2, <1>4, BoundAssumption DEF Init, TypeOK, RegFile, MemFile, Control
<1>6. Places BY <1>3 DEF Init, Places, Fresh, Workers
<1>7. LockHolder BY DEF Init, LockHolder, smp_sync_ram_init, ZeroMem
<1> QED BY <1>5, <1>6, <1>7 DEF LockInv, HartInv

LEMMA ExecuteOK == LockInv /\ Execute => LockInv'
<1> SUFFICES ASSUME LockInv, Execute PROVE LockInv' OBVIOUS
<1> DEFINE h == ctl.hart
<1>1. HartInv /\ h \in Harts /\ ctl \in Control /\ mem \in MemFile /\ harts \in [Harts -> RegFile]
  BY DEF LockInv, HartInv, TypeOK, Control, RegFile, MemFile
<1>2. PICK hit \in BOOLEAN : harts' = [harts EXCEPT ![h] = Stepped(h, hit)] BY DEF Execute
<1>3. harts' \in [Harts -> RegFile] /\ Places' BY <1>1, <1>2, OneStep
<1>4. manual' = manual /\ resumes' = resumes BY DEF Execute
<1>5. CASE h = 0 /\ harts[h].pc = LOOP /\ NumHarts > 1
  <2> DEFINE w == smp_worker_target(harts[h].t1)
  <2>1. mem' = smp_deliver_ipi(mem, w, harts[h].t1) /\ stores' = stores + 1
        /\ ctl' = [ctl EXCEPT !.at = "job", !.job = w, !.guard = JobBudget]
    BY <1>5 DEF Execute
  <2>2. w \in Harts /\ mem' \in MemFile /\ mem'.lock = mem.lock
    BY <1>1, <1>5, <2>1, MailboxOK DEF Workers
  <2>3. ctl' \in Control BY <1>1, <2>1, <2>2, EnterJobOK
  <2>4. TypeOK'
    BY <1>1, <1>3, <1>4, <2>1, <2>2, <2>3 DEF LockInv, HartInv, TypeOK, RegFile, MemFile, Control
  <2>5. LockHolder'
    <3>1. CASE mem.lock = 0 BY <2>2, <3>1 DEF LockHolder
    <3>2. CASE mem.lock # 0
      <4>1. PICK k \in Workers : mem.lock = k + 1 /\ harts[k].pc \in Critical
        BY <3>2 DEF LockInv, LockHolder
      <4>2. k \in Harts /\ k # h BY <1>5 DEF Workers
      <4>3. harts'[k] = harts[k] BY <1>1, <1>2, <4>2
      <4> QED BY <2>2, <4>1, <4>3 DEF LockHolder
    <3> QED BY <3>1, <3>2
  <2> QED BY <1>3, <2>4, <2>5 DEF LockInv, HartInv
<1>6. CASE ~(h = 0 /\ harts[h].pc = LOOP /\ NumHarts > 1)
  <2>1. mem' = Memory(h, harts[h], mem) /\ stores' = stores /\ ctl' = [ctl EXCEPT !.at = "look"]
    BY <1>6 DEF Execute
  <2>2. mem' \in MemFile BY <1>1, <2>1, SteppedOK
  <2>3. ctl' \in Control BY <1>1, <2>1 DEF Control
  <2>4. TypeOK'
    BY <1>1, <1>3, <1>4, <2>1, <2>2, <2>3 DEF LockInv, HartInv, TypeOK, RegFile, MemFile, Control
  <2>5. LockHolder' BY <1>1, <1>2, <2>1, LockStep
  <2> QED BY <1>3, <2>4, <2>5 DEF LockInv, HartInv
<1> QED BY <1>5, <1>6

LEMMA JobStepOK == LockInv /\ JobStep => LockInv'
<1> SUFFICES ASSUME LockInv, JobStep PROVE LockInv' OBVIOUS
<1> DEFINE w == ctl.job
<1>1. HartInv /\ w \in Harts /\ ctl \in Control /\ mem \in MemFile /\ harts \in [Harts -> RegFile]
  BY DEF LockInv, HartInv, TypeOK, Control, RegFile, MemFile
<1>2. PICK hit \in BOOLEAN : harts' = [harts EXCEPT ![w] = Stepped(w, hit)] BY DEF JobStep
<1>3. harts' \in [Harts -> RegFile] /\ Places' BY <1>1, <1>2, OneStep
<1>4. mem' = Memory(w, harts[w], mem) BY DEF JobStep
<1>5. mem' \in MemFile BY <1>1, <1>4, SteppedOK
<1>6. ctl' \in Control
  <2>1. Spend(ctl.guard) \in 0 .. JobBudget BY <1>1, BudgetAssumption DEF JobStep, Control, Spend
  <2> QED BY <1>1, <2>1 DEF JobStep, Control
<1>7. TypeOK'
  BY <1>3, <1>5, <1>6 DEF JobStep, LockInv, HartInv, TypeOK, RegFile, MemFile, Control
<1>8. LockHolder' BY <1>1, <1>2, <1>4, LockStep
<1> QED BY <1>3, <1>7, <1>8 DEF LockInv, HartInv

\* Steps of the emulator that only move its thread of control.
LEMMA ControlOnlyOK ==
  ASSUME LockInv, UNCHANGED <<harts, mem, stores, manual, resumes>>, ctl' \in Control
  PROVE  LockInv'
BY DEF LockInv, HartInv, TypeOK, Places, LockHolder, Control

LEMMA EmulatorOK == LockInv /\ Emulator => LockInv'
<1> SUFFICES ASSUME LockInv, Emulator PROVE LockInv' OBVIOUS
<1>0. ctl \in Control /\ 0 \in Harts BY HartsAssumption DEF LockInv, HartInv, TypeOK, Control, Harts
<1>1. CASE SkipHart BY <1>0, <1>1, NextTurnOK, ControlOnlyOK DEF SkipHart
<1>2. CASE JobEnds
  <2>1. ctl' \in Control BY <1>0, <1>2 DEF JobEnds, Control
  <2> QED BY <1>2, <2>1, ControlOnlyOK DEF JobEnds
<1>3. CASE Look
  <2>1. ctl' \in Control BY <1>0, <1>3, NextTurnOK DEF Look, Stop, Control
  <2> QED BY <1>3, <2>1, ControlOnlyOK DEF Look
<1>4. CASE Poll
  <2>1. ctl' \in Control BY <1>0, <1>4 DEF Poll, Stop, Control
  <2> QED BY <1>4, <2>1, ControlOnlyOK DEF Poll
<1>5. CASE LoopTest
  <2>1. ctl' \in Control BY <1>0, <1>5 DEF LoopTest, Stop, Control
  <2> QED BY <1>5, <2>1, ControlOnlyOK DEF LoopTest
<1> QED BY <1>1, <1>2, <1>3, <1>4, <1>5, ExecuteOK, JobStepOK DEF Emulator

\* The debugger and the signal handler.
LEMMA ResumeOK ==
  ASSUME LockInv, NEW tid \in {-1} \cup (1 .. NumHarts), NEW step \in BOOLEAN, NEW h \in Harts,
         Resume(tid, step, h)
  PROVE  LockInv'
<1>1. HartInv BY DEF LockInv
<1>2. harts' = Resumed(tid) /\ mem' = mem BY DEF Resume
<1>3. harts' \in [Harts -> RegFile] BY <1>1, <1>2, ResumedOK
<1>4. Places' /\ LockHolder' BY <1>1, <1>2, <1>3, ResumedOK, OnlyHalted
<1>5. ctl' \in Control BY <1>1 DEF Resume, HartInv, TypeOK, Control
<1>6. resumes' \in 0 .. MaxResumes BY <1>1, BoundAssumption DEF Resume, HartInv, TypeOK
<1>7. TypeOK' BY <1>1, <1>3, <1>5, <1>6 DEF Resume, HartInv, TypeOK, RegFile, Control
<1> QED BY <1>4, <1>7 DEF LockInv, HartInv

LEMMA HaltOK ==
  ASSUME LockInv, harts' = HaltAll, ctl' \in Control,
         UNCHANGED <<mem, stores, manual, resumes>>
  PROVE  LockInv'
<1>1. HartInv BY DEF LockInv
<1>2. harts' \in [Harts -> RegFile] BY <1>1, HaltAllOK
<1>3. Places' /\ LockHolder' BY <1>1, <1>2, HaltAllOK, OnlyHalted
<1>4. TypeOK' BY <1>1, <1>2 DEF HartInv, TypeOK, RegFile, Control
<1> QED BY <1>3, <1>4 DEF LockInv, HartInv

LEMMA JumpOK == LockInv /\ JumpToLoop => LockInv'
<1> SUFFICES ASSUME LockInv, JumpToLoop PROVE LockInv' OBVIOUS
<1>0. harts \in [Harts -> RegFile] BY DEF LockInv, HartInv, TypeOK, RegFile
<1>1. harts \in [Harts -> RegFile] /\ 0 \in Harts /\ \A w \in Workers : w \in Harts /\ w # 0
  BY <1>0, HartsAssumption DEF Harts, Workers
<1>2. harts' = [harts EXCEPT ![0] = [harts[0] EXCEPT !.pc = LOOP]] BY DEF JumpToLoop
<1>3. [harts[0] EXCEPT !.pc = LOOP] \in RegFile BY <1>1 DEF RegFile
<1>4. harts' \in [Harts -> RegFile] BY <1>1, <1>2, <1>3
<1>5. harts'[0].pc = LOOP BY <1>1, <1>2 DEF RegFile
<1>6. \A w \in Workers : harts'[w] = harts[w] BY <1>1, <1>2
<1>7. Places' BY <1>5, <1>6 DEF LockInv, HartInv, Places
<1>8. LockHolder' BY <1>6 DEF LockInv, LockHolder, JumpToLoop
<1>9. TypeOK' BY <1>4 DEF JumpToLoop, LockInv, HartInv, TypeOK, RegFile
<1> QED BY <1>7, <1>8, <1>9 DEF LockInv, HartInv

LEMMA ResetOK == LockInv /\ gdb_reset => LockInv'
<1> SUFFICES ASSUME LockInv, gdb_reset PROVE LockInv' OBVIOUS
<1>1. mem \in MemFile BY DEF LockInv, HartInv, TypeOK, MemFile
<1>2. mem' \in MemFile /\ mem'.lock = 0
  BY <1>1 DEF gdb_reset, smp_sync_ram_init, MemFile
<1>3. \A h \in Harts : Fresh(h) \in RegFile BY DEF Fresh, RegFile
<1>4. TypeOK'
  BY <1>2, <1>3, BoundAssumption DEF gdb_reset, LockInv, HartInv, TypeOK, RegFile, MemFile
<1>5. 0 \in Harts /\ \A w \in Workers : w \in Harts /\ w # 0
  BY HartsAssumption DEF Harts, Workers
<1>6. Places' BY <1>5 DEF gdb_reset, Places, Fresh
<1>7. LockHolder' BY <1>2 DEF LockHolder
<1> QED BY <1>4, <1>6, <1>7 DEF LockInv, HartInv

LEMMA ManualIpiOK == ASSUME LockInv, NEW w \in Workers, ManualIpi(w, Limit) PROVE LockInv'
<1>1. mem' = mem BY DEF ManualIpi, smp_sync_handle_mmio
<1>2. manual' = manual + 1 /\ UNCHANGED <<harts, ctl, stores, resumes>> BY DEF ManualIpi
<1> QED BY <1>1, <1>2 DEF LockInv, HartInv, TypeOK, Places, LockHolder

LEMMA DebuggerOK == LockInv /\ Debugger => LockInv'
<1> SUFFICES ASSUME LockInv, Debugger PROVE LockInv' OBVIOUS
<1>0. 0 \in Harts /\ \A h \in Harts : h + 1 \in 1 .. NumHarts BY HartsAssumption DEF Harts
<1>1. CASE ContinueAll BY <1>0, <1>1, ResumeOK DEF ContinueAll
<1>2. ASSUME NEW h \in Harts, ContinueThread(h) PROVE LockInv'
  BY <1>0, <1>2, ResumeOK DEF ContinueThread
<1>3. ASSUME NEW h \in Harts, StepThread(h) PROVE LockInv'
  BY <1>0, <1>3, ResumeOK DEF StepThread
<1>4. CASE CtrlC
  <2>1. ctl' \in Control BY <1>4 DEF CtrlC, LockInv, HartInv, TypeOK, Control
  <2> QED BY <1>4, <2>1, HaltOK DEF CtrlC
<1>5. ASSUME NEW w \in Workers, ManualIpi(w, Limit) PROVE LockInv' BY <1>5, ManualIpiOK
<1> QED BY <1>1, <1>2, <1>3, <1>4, <1>5, JumpOK, ResetOK DEF Debugger

LEMMA Inductive == LockInv /\ [Next]_vars => LockInv'
<1> SUFFICES ASSUME LockInv, [Next]_vars PROVE LockInv' OBVIOUS
<1>1. CASE sigint_handler
  <2>1. ctl' \in Control BY <1>1 DEF sigint_handler, LockInv, HartInv, TypeOK, Control
  <2> QED BY <1>1, <2>1, HaltOK DEF sigint_handler
<1>2. CASE UNCHANGED vars
  BY <1>2 DEF vars, LockInv, HartInv, TypeOK, Places, LockHolder
<1> QED BY <1>1, <1>2, EmulatorOK, DebuggerOK DEF Next

LEMMA Invariant == Spec => []LockInv
BY InitOK, Inductive, PTL DEF Spec

\* The state is well typed: every job is handed to a worker that exists, and no hart
\* leaves its program.
THEOREM TypeCorrect == Spec => []TypeOK
<1>1. LockInv => TypeOK BY DEF LockInv, HartInv
<1> QED BY <1>1, Invariant, PTL

\* However the debugger stops, steps, continues and resets the harts, and whenever a
\* signal arrives, a lock that is held is held by a worker inside its critical section.
THEOREM LockTruthful == Spec => []LockHolder
<1>1. LockInv => LockHolder BY DEF LockInv
<1> QED BY <1>1, Invariant, PTL

------------------------------------------------------------------------------
(***************************************************************************)
(* Jobs.  If no event halts a worker in the middle of a job, a job runs    *)
(* from hart 0's store to its end while everybody else stands still.       *)
(***************************************************************************)
Unhalted == /\ {"ctrlc", "sigint", "watch"} \cap Events = {}
            /\ JobBudget >= 24

Idle(w) == /\ harts[w].pc \in IdlePc
           /\ harts[w].pc = 17 => harts[w].t1 = 0
           /\ mem.ipi[w] = 0

AllDone == /\ mem.lock = 0 /\ mem.ready = 0 /\ mem.done = stores
           /\ \A w \in Workers : Idle(w)

\* The stages of a job, by the worker's pc: its interrupt is pending, it goes for the
\* lock, holds it with the job in the mailbox, has taken and not yet counted the job,
\* and has counted it.
Called(r, w) ==
  /\ r.pc \in IdlePc \cup {18} /\ (r.pc = 17 => r.t1 \in {0, 1})
  /\ mem.ipi[w] = 1 /\ mem.lock = 0 /\ mem.ready = 1 /\ mem.done + 1 = stores
Entering(r, w) ==
  /\ r.pc \in {19, 21, 22, 23, 24} /\ (r.pc = 22 => r.t0 = 0)
  /\ mem.ipi[w] = 0 /\ mem.lock = 0 /\ mem.ready = 1 /\ mem.done + 1 = stores
Taking(r, w) ==
  /\ r.pc \in 25 .. 28 /\ (r.pc = 26 => r.t2 = 1)
  /\ mem.ipi[w] = 0 /\ mem.lock = w + 1 /\ mem.ready = 1 /\ mem.done + 1 = stores
Counting(r, w) ==
  /\ r.pc \in 29 .. 32
  /\ r.pc = 31 => r.t2 = mem.done
  /\ r.pc = 32 => r.t2 = mem.done + 1
  /\ mem.ipi[w] = 0 /\ mem.lock = w + 1 /\ mem.ready = 0 /\ mem.done + 1 = stores
Leaving(r, w) ==
  /\ r.pc \in 33 .. 35
  /\ mem.ipi[w] = 0 /\ mem.lock = (IF r.pc = 35 THEN 0 ELSE w + 1)
  /\ mem.ready = 0 /\ mem.done = stores

\* Instructions to the end of the job.
Need(r) == IF r.pc = 17 /\ r.t1 = 0 THEN 24
           ELSE IF r.pc = SPIN THEN 23
           ELSE IF r.pc < SPIN THEN 35 - r.pc ELSE 36 - r.pc

Working(w) ==
  /\ \/ Called(harts[w], w) \/ Entering(harts[w], w) \/ Taking(harts[w], w)
     \/ Counting(harts[w], w) \/ Leaving(harts[w], w)
  /\ ctl.guard >= Need(harts[w])

JobInv ==
  /\ \A h \in Harts : ~harts[h].halted
  /\ ctl.at # "job" => AllDone
  /\ ctl.at = "job" => \E w \in Workers : /\ ctl.job = w /\ Working(w)
                                          /\ \A k \in Workers : k # w => Idle(k)

LEMMA JobInit == Unhalted /\ Init => JobInv
<1> SUFFICES ASSUME Init PROVE JobInv OBVIOUS
<1>1. \A w \in Workers : w \in Harts /\ w # 0 BY DEF Workers
<1>2. mem.lock = 0 /\ mem.ready = 0 /\ mem.done = 0 /\ \A h \in Harts : mem.ipi[h] = 0
  BY DEF Init, smp_sync_ram_init, ZeroMem
<1>3. \A h \in Harts : ~harts[h].halted BY DEF Init, Fresh
<1>4. \A w \in Workers : harts[w].pc = POLL BY <1>1 DEF Init, Fresh
<1>5. AllDone BY <1>1, <1>2, <1>4 DEF AllDone, Idle, IdlePc, Init
<1> QED BY <1>3, <1>5 DEF JobInv, Init

\* The fields of a hart after an instruction that cannot hit a watchpoint.
LEMMA SteppedFields ==
  ASSUME Unhalted, LockInv, NEW h \in Harts, NEW hit \in BOOLEAN, MayHit(h, hit),
         ~harts[h].halted
  PROVE  /\ ~Stepped(h, hit).halted
         /\ Stepped(h, hit).pc = NextPc(harts[h])
         /\ Stepped(h, hit).t0 = Regs(h, harts[h], mem).t0
         /\ Stepped(h, hit).t1 = Regs(h, harts[h], mem).t1
         /\ Stepped(h, hit).t2 = Regs(h, harts[h], mem).t2
<1>1. ~hit BY DEF Unhalted, MayHit
<1>2. harts[h] \in RegFile /\ mem \in MemFile
  BY DEF LockInv, HartInv, TypeOK, RegFile, MemFile
<1>3. Regs(h, harts[h], mem) \in RegFile /\ NextPc(harts[h]) \in 0 .. (END - 1)
  BY <1>2, InstructionTypes
<1>4. Regs(h, harts[h], mem).halted = harts[h].halted
  BY <1>2, SMTT(30) DEF Regs, RegFile
<1> QED BY <1>1, <1>3, <1>4 DEF Stepped, RegFile

\* An idle worker that is stepped stays idle and touches nothing.
LEMMA IdleStep ==
  ASSUME Unhalted, LockInv, NEW w \in Workers, NEW hit \in BOOLEAN, MayHit(w, hit),
         ~harts[w].halted, Idle(w)
  PROVE  /\ Stepped(w, hit).pc \in IdlePc
         /\ Stepped(w, hit).pc = 17 => Stepped(w, hit).t1 = 0
         /\ Memory(w, harts[w], mem) = mem
<1> DEFINE r == harts[w]
<1>1. w \in Harts BY DEF Workers
<1>2. r \in RegFile BY <1>1 DEF LockInv, HartInv, TypeOK, RegFile
<1>3. NextPc(r) \in IdlePc BY SMTT(30) DEF NextPc, Idle, IdlePc
<1>4. NextPc(r) = 17 => r.pc = 16 BY DEF NextPc, Idle, IdlePc
<1>5. r.pc = 16 => Regs(w, r, mem).t1 = 0 BY <1>2 DEF Regs, RegFile, Idle
<1>6. Memory(w, r, mem) = mem BY DEF Memory, Idle, IdlePc
<1> QED BY <1>1, <1>3, <1>4, <1>5, <1>6, SteppedFields

\* What the instructions of a job do to the mailbox.
LEMMA JobMemory ==
  ASSUME NEW w \in Harts, NEW r, NEW m \in MemFile
  PROVE  LET n == Memory(w, r, m)
         IN  /\ n \in [lock : {m.lock, r.t0, 0}, item : Nat, ready : {0, 1},
                       done : {m.done, r.t2}, ipi : [Harts -> {0, 1}]]
             /\ n.ipi[w] = IF r.pc = 18 THEN 0 ELSE m.ipi[w]
             /\ \A k \in Harts : k # w => n.ipi[k] = m.ipi[k]
             /\ n.lock = IF r.pc = 24 THEN r.t0 ELSE IF r.pc = RELEASE THEN 0 ELSE m.lock
             /\ n.ready = IF r.pc = 28 THEN 0 ELSE m.ready
             /\ n.done = IF r.pc = 32 THEN r.t2 ELSE m.done
BY SMTT(30) DEF Memory, MemFile

\* The registers a job depends on.
LEMMA JobRegisters ==
  ASSUME NEW w \in Harts, NEW r \in RegFile, NEW m \in MemFile, r.pc \in 12 .. (END - 1)
  PROVE  LET n == Regs(w, r, m)
         IN  /\ n.t0 = IF r.pc = HANDLE THEN m.lock ELSE IF r.pc = 23 THEN w + 1 ELSE r.t0
             /\ n.t1 = IF r.pc = 16 THEN m.ipi[w] ELSE IF r.pc = 27 THEN m.item ELSE r.t1
             /\ n.t2 = IF r.pc = 25 THEN m.ready ELSE IF r.pc = 30 THEN m.done
                       ELSE IF r.pc = 31 THEN r.t2 + 1 ELSE r.t2
BY SMTT(60) DEF Regs, RegFile

\* An instruction of a job reaches the next stage of the job, or ends it; either way
\* it needs one instruction less.
LEMMA StageStep ==
  ASSUME NEW w \in Workers, NEW r \in RegFile, NEW q, mem \in MemFile, mem' \in MemFile,
         stores \in Nat, stores' = stores,
         q.pc = NextPc(r), r.pc = 24 => r.t0 = w + 1,
         q.t0 = IF r.pc = HANDLE THEN mem.lock ELSE IF r.pc = 23 THEN w + 1 ELSE r.t0,
         q.t1 = IF r.pc = 16 THEN mem.ipi[w] ELSE IF r.pc = 27 THEN mem.item ELSE r.t1,
         q.t2 = IF r.pc = 25 THEN mem.ready ELSE IF r.pc = 30 THEN mem.done
                ELSE IF r.pc = 31 THEN r.t2 + 1 ELSE r.t2,
         mem'.ipi[w] = IF r.pc = 18 THEN 0 ELSE mem.ipi[w],
         mem'.lock = IF r.pc = 24 THEN r.t0 ELSE IF r.pc = RELEASE THEN 0 ELSE mem.lock,
         mem'.ready = IF r.pc = 28 THEN 0 ELSE mem.ready,
         mem'.done = IF r.pc = 32 THEN r.t2 ELSE mem.done,
         Called(r, w) \/ Entering(r, w) \/ Taking(r, w) \/ Counting(r, w) \/ Leaving(r, w)
  PROVE  \/ /\ q.pc # POLL \/ mem'.ipi[w] = 1
            /\ q.pc # SPIN \/ mem'.ipi[w] = 1
            /\ Need(q) + 1 <= Need(r)
            /\ \/ Called(q, w)' \/ Entering(q, w)' \/ Taking(q, w)' \/ Counting(q, w)'
               \/ Leaving(q, w)'
         \/ /\ q.pc = POLL /\ mem'.ipi[w] = 0
            /\ mem'.lock = 0 /\ mem'.ready = 0 /\ mem'.done = stores'
<1>0. w \in Nat /\ mem.done \in Nat /\ r.t2 \in Nat
  <2>1. w \in Nat BY HartsAssumption DEF Workers, Harts
  <2>2. mem.done \in Nat BY DEF MemFile
  <2>3. r.t2 \in Nat BY DEF RegFile
  <2> QED BY <2>1, <2>2, <2>3
<1>1. CASE Called(r, w)
  <2>1. CASE r.pc = 18
    <3>1. q.pc = 19 BY <2>1 DEF NextPc
    <3>2. Entering(q, w)' BY <1>1, <2>1, <3>1 DEF Called, Entering
    <3>3. Need(q) + 1 <= Need(r) BY <2>1, <3>1 DEF Need
    <3> QED BY <3>1, <3>2, <3>3
  <2>2. CASE r.pc = 17 /\ r.t1 = 1
    <3>1. q.pc = 18 BY <2>2 DEF NextPc
    <3>2. Called(q, w)' BY <1>1, <2>2, <3>1 DEF Called
    <3>3. Need(q) + 1 <= Need(r) BY <2>2, <3>1 DEF Need
    <3> QED BY <3>1, <3>2, <3>3
  <2>3. CASE r.pc = 17 /\ r.t1 = 0
    <3>1. q.pc = SPIN BY <2>3 DEF NextPc
    <3>2. Called(q, w)' /\ mem'.ipi[w] = 1 BY <1>1, <2>3, <3>1 DEF Called, IdlePc
    <3>3. Need(q) + 1 <= Need(r) BY <2>3, <3>1 DEF Need
    <3> QED BY <3>1, <3>2, <3>3
  <2>4. CASE r.pc = SPIN
    <3>1. q.pc = POLL BY <2>4 DEF NextPc
    <3>2. Called(q, w)' /\ mem'.ipi[w] = 1 BY <1>1, <2>4, <3>1 DEF Called, IdlePc
    <3>3. Need(q) + 1 <= Need(r) BY <2>4, <3>1 DEF Need
    <3> QED BY <3>1, <3>2, <3>3
  <2>5. CASE r.pc \in {12, 13, 14, 15}
    <3>1. q.pc = r.pc + 1 BY <2>5 DEF NextPc
    <3>2. Called(q, w)' /\ mem'.ipi[w] = 1 BY <1>1, <2>5, <3>1 DEF Called, IdlePc
    <3>3. Need(q) + 1 <= Need(r) BY <2>5, <3>1 DEF Need
    <3> QED BY <3>1, <3>2, <3>3
  <2>6. CASE r.pc = 16
    <3>1. q.pc = 17 /\ q.t1 = 1 BY <1>1, <2>6 DEF NextPc, Called
    <3>2. Called(q, w)' /\ mem'.ipi[w] = 1 BY <1>1, <2>6, <3>1 DEF Called, IdlePc
    <3>3. Need(q) + 1 <= Need(r) BY <2>6, <3>1 DEF Need
    <3> QED BY <3>1, <3>2, <3>3
  <2> QED BY <1>1, <2>1, <2>2, <2>3, <2>4, <2>5, <2>6 DEF Called, IdlePc
<1>2. CASE Entering(r, w)
  <2>1. CASE r.pc \in {19, 21, 22, 23}
    <3>1. q.pc \in {21, 22, 23, 24} /\ q.pc = (IF r.pc = 19 THEN 21 ELSE r.pc + 1)
      BY <1>2, <2>1 DEF NextPc, Entering
    <3>2. Entering(q, w)' BY <1>2, <2>1, <3>1 DEF Entering
    <3>3. Need(q) + 1 <= Need(r) BY <2>1, <3>1 DEF Need
    <3> QED BY <3>1, <3>2, <3>3
  <2>2. CASE r.pc = 24
    <3>1. q.pc = 25 BY <2>2 DEF NextPc
    <3>2. Taking(q, w)' BY <1>2, <2>2, <3>1 DEF Entering, Taking
    <3>3. Need(q) + 1 <= Need(r) BY <2>2, <3>1 DEF Need
    <3> QED BY <3>1, <3>2, <3>3
  <2> QED BY <1>2, <2>1, <2>2 DEF Entering
<1>3. CASE Taking(r, w)
  <2>0. r.pc \in {25, 26, 27, 28} BY <1>3 DEF Taking
  <2>1. q.pc = r.pc + 1 BY <1>3, <2>0 DEF NextPc, Taking
  <2>2. Need(q) + 1 <= Need(r) BY <2>0, <2>1 DEF Need
  <2>3. CASE r.pc = 28
    <3>1. Counting(q, w)' BY <1>3, <2>1, <2>3 DEF Taking, Counting
    <3> QED BY <2>1, <2>2, <2>3, <3>1
  <2>4. CASE r.pc \in {25, 26, 27}
    <3>1. Taking(q, w)' BY <1>3, <2>1, <2>4 DEF Taking
    <3> QED BY <2>1, <2>2, <2>4, <3>1
  <2> QED BY <2>0, <2>3, <2>4
<1>4. CASE Counting(r, w)
  <2>0. r.pc \in {29, 30, 31, 32} BY <1>4 DEF Counting
  <2>1. q.pc = r.pc + 1 BY <2>0 DEF NextPc
  <2>2. Need(q) + 1 <= Need(r) BY <2>0, <2>1 DEF Need
  <2>3. CASE r.pc = 32
    <3>1. Leaving(q, w)' BY <1>0, <1>4, <2>1, <2>3 DEF Counting, Leaving
    <3> QED BY <2>1, <2>2, <2>3, <3>1
  <2>4. CASE r.pc \in {29, 30, 31}
    <3>1. Counting(q, w)' BY <1>0, <1>4, <2>1, <2>4 DEF Counting
    <3> QED BY <2>1, <2>2, <2>4, <3>1
  <2> QED BY <2>0, <2>3, <2>4
<1>5. CASE Leaving(r, w)
  <2>0. r.pc \in {33, 34, 35} BY <1>5 DEF Leaving
  <2>1. CASE r.pc = 35
    <3>1. q.pc = POLL BY <2>1 DEF NextPc
    <3> QED BY <1>5, <2>1, <3>1 DEF Leaving
  <2>2. CASE r.pc \in {33, 34}
    <3>1. q.pc = r.pc + 1 BY <2>2 DEF NextPc
    <3>2. Need(q) + 1 <= Need(r) BY <2>2, <3>1 DEF Need
    <3>3. Leaving(q, w)' BY <1>5, <2>2, <3>1 DEF Leaving
    <3> QED BY <2>2, <3>1, <3>2, <3>3
  <2> QED BY <2>0, <2>1, <2>2
<1> QED BY <1>1, <1>2, <1>3, <1>4, <1>5

LEMMA NeedPositive == ASSUME NEW r, r.pc \in 12 .. (END - 1) PROVE Need(r) \in 1 .. 24
BY DEF Need

LEMMA IdleUnchanged ==
  ASSUME NEW w, Idle(w), harts'[w].pc = harts[w].pc, harts'[w].t1 = harts[w].t1,
         mem'.ipi[w] = mem.ipi[w]
  PROVE  Idle(w)'
BY DEF Idle

\* The job's worker runs one instruction inside hart 0's store.
LEMMA JobRuns == ASSUME Unhalted, LockInv, JobInv, JobStep PROVE JobInv'
<1>0. PICK w, r, q : w = ctl.job /\ r = harts[w] /\ q = harts'[w] OBVIOUS
<1>1. /\ w \in Workers /\ w \in Harts /\ Working(w) /\ ~r.halted
      /\ \A k \in Workers : k # w => Idle(k)
  BY <1>0 DEF JobStep, JobInv, Workers
<1>2. /\ r \in RegFile /\ mem \in MemFile /\ harts \in [Harts -> RegFile] /\ ctl \in Control
      /\ stores \in Nat
  BY <1>0, <1>1 DEF LockInv, HartInv, TypeOK, RegFile, MemFile, Control
<1>3. PICK hit \in BOOLEAN : MayHit(w, hit) /\ harts' = [harts EXCEPT ![w] = Stepped(w, hit)]
  BY <1>0 DEF JobStep
<1>4. /\ mem' = Memory(w, r, mem) /\ stores' = stores
      /\ ctl' = [ctl EXCEPT !.guard = Spend(@),
                            !.at = IF NextPc(r) \in {POLL, SPIN} /\ mem'.ipi[w] = 0
                                   THEN "look" ELSE "job"]
  BY <1>0 DEF JobStep
<1>5. q = Stepped(w, hit) /\ \A k \in Harts : k # w => harts'[k] = harts[k]
  BY <1>0, <1>1, <1>2, <1>3
<1>6. LockInv' BY JobStepOK
<1>7. mem' \in MemFile BY <1>6 DEF LockInv, HartInv, TypeOK, MemFile
<1>8. r.pc \in 12 .. (END - 1) /\ (r.pc = 24 => r.t0 = w + 1)
  BY <1>0, <1>1 DEF LockInv, HartInv, Places
<1>9. q.pc = NextPc(r) /\ ~q.halted BY <1>0, <1>1, <1>3, <1>5, SteppedFields
<1>10. /\ q.t0 = IF r.pc = HANDLE THEN mem.lock ELSE IF r.pc = 23 THEN w + 1 ELSE r.t0
       /\ q.t1 = IF r.pc = 16 THEN mem.ipi[w] ELSE IF r.pc = 27 THEN mem.item ELSE r.t1
       /\ q.t2 = IF r.pc = 25 THEN mem.ready ELSE IF r.pc = 30 THEN mem.done
                 ELSE IF r.pc = 31 THEN r.t2 + 1 ELSE r.t2
  BY <1>0, <1>1, <1>2, <1>3, <1>5, <1>8, SteppedFields, JobRegisters
<1>11. /\ mem'.ipi[w] = IF r.pc = 18 THEN 0 ELSE mem.ipi[w]
       /\ \A k \in Harts : k # w => mem'.ipi[k] = mem.ipi[k]
       /\ mem'.lock = IF r.pc = 24 THEN r.t0 ELSE IF r.pc = RELEASE THEN 0 ELSE mem.lock
       /\ mem'.ready = IF r.pc = 28 THEN 0 ELSE mem.ready
       /\ mem'.done = IF r.pc = 32 THEN r.t2 ELSE mem.done
  BY <1>1, <1>2, <1>4, JobMemory
<1>12. Called(r, w) \/ Entering(r, w) \/ Taking(r, w) \/ Counting(r, w) \/ Leaving(r, w)
  BY <1>0, <1>1 DEF Working
<1>13. \A h \in Harts : ~harts'[h].halted BY <1>0, <1>5, <1>9 DEF JobInv
<1>14. \A k \in Workers : k # w => Idle(k)'
  BY <1>1, <1>5, <1>11, IdleUnchanged DEF Workers
<1>15. ctl'.job = w /\ ctl'.guard = ctl.guard - 1 BY <1>0, <1>2, <1>4 DEF Control, Spend
<1>16. CASE /\ q.pc # POLL \/ mem'.ipi[w] = 1
            /\ q.pc # SPIN \/ mem'.ipi[w] = 1
            /\ Need(q) + 1 <= Need(r)
            /\ \/ Called(q, w)' \/ Entering(q, w)' \/ Taking(q, w)' \/ Counting(q, w)'
               \/ Leaving(q, w)'
  <2>1. ctl'.at = "job" BY <1>2, <1>4, <1>9, <1>16 DEF Control
  <2>2. q.pc \in 12 .. (END - 1) BY <1>0, <1>1, <1>6 DEF LockInv, HartInv, Places
  <2>3. ctl'.guard >= Need(q)
    <3>1. Need(q) \in 1 .. 24 /\ Need(r) \in 1 .. 24 BY <1>8, <2>2, NeedPositive
    <3>2. ctl.guard >= Need(r) /\ ctl.guard \in Nat BY <1>0, <1>1, <1>2, BudgetAssumption DEF Working, Control
    <3> QED BY <1>15, <1>16, <3>1, <3>2
  <2>4. Working(w)'
    BY <1>0, <1>15, <1>16, <2>3 DEF Working, Called, Entering, Taking, Counting, Leaving
  <2> QED BY <1>1, <1>13, <1>14, <1>15, <2>1, <2>4 DEF JobInv
<1>17. CASE /\ q.pc = POLL /\ mem'.ipi[w] = 0
            /\ mem'.lock = 0 /\ mem'.ready = 0 /\ mem'.done = stores'
  <2>1. ctl'.at = "look" BY <1>2, <1>4, <1>9, <1>17 DEF Control
  <2>2. Idle(w)' BY <1>0, <1>17 DEF Idle, IdlePc
  <2>3. AllDone' BY <1>14, <1>17, <2>2 DEF AllDone
  <2> QED BY <1>13, <2>1, <2>3 DEF JobInv
<1> QED BY <1>1, <1>2, <1>4, <1>7, <1>8, <1>9, <1>10, <1>11, <1>12, <1>16, <1>17, StageStep
\* The budget does not run out and nobody is halted, so a job is not abandoned.
LEMMA NotAbandoned == ASSUME LockInv, JobInv PROVE ~JobEnds
<1> SUFFICES ASSUME JobEnds PROVE FALSE OBVIOUS
<1>1. ctl.job \in Workers /\ ctl.job \in Harts /\ Working(ctl.job) /\ ctl.guard = 0
  BY DEF JobEnds, JobInv, Workers
<1>2. harts[ctl.job].pc \in 12 .. (END - 1) BY <1>1 DEF LockInv, HartInv, Places
<1>3. Need(harts[ctl.job]) \in 1 .. 24 BY <1>2, NeedPositive
<1> QED BY <1>1, <1>3 DEF Working

\* A hart of the run loop executes one instruction; hart 0's store calls its worker.
LEMMA ExecuteRuns == ASSUME Unhalted, LockInv, JobInv, Execute PROVE JobInv'
<1>0. PICK h, r : h = ctl.hart /\ r = harts[h] OBVIOUS
<1>1. /\ h \in Harts /\ AllDone /\ ~r.halted /\ 0 \in Harts
      /\ \A w \in Workers : w \in Harts /\ w # 0 /\ Idle(w)
  <2>1. h \in Harts BY <1>0 DEF LockInv, HartInv, TypeOK
  <2>2. AllDone /\ ~r.halted BY <1>0, <2>1 DEF Execute, JobInv
  <2>3. 0 \in Harts /\ \A w \in Workers : w \in Harts /\ w # 0
    BY HartsAssumption DEF Workers, Harts
  <2> QED BY <2>1, <2>2, <2>3 DEF AllDone
<1>2. /\ mem \in MemFile /\ harts \in [Harts -> RegFile] /\ ctl \in Control /\ stores \in Nat
  BY DEF LockInv, HartInv, TypeOK, RegFile, MemFile, Control
<1>3. PICK hit \in BOOLEAN : MayHit(h, hit) /\ harts' = [harts EXCEPT ![h] = Stepped(h, hit)]
  BY <1>0 DEF Execute
<1>4. harts'[h] = Stepped(h, hit) /\ \A k \in Harts : k # h => harts'[k] = harts[k]
  BY <1>1, <1>2, <1>3
<1>5. \A k \in Harts : ~harts'[k].halted BY <1>0, <1>1, <1>3, <1>4, SteppedFields DEF JobInv
<1>6. CASE h = 0 /\ r.pc = LOOP /\ NumHarts > 1
  <2>0. PICK w : w = smp_worker_target(r.t1) OBVIOUS
  <2>1. mem' = smp_deliver_ipi(mem, w, r.t1) /\ stores' = stores + 1
        /\ ctl' = [ctl EXCEPT !.at = "job", !.job = w, !.guard = JobBudget]
    BY <1>0, <1>6, <2>0 DEF Execute
  <2>2. w \in Workers BY <1>0, <1>1, <1>2, <1>6, <2>0, MailboxOK DEF LockInv
  <2>3. /\ mem'.lock = 0 /\ mem'.ready = 1 /\ mem'.done + 1 = stores' /\ mem'.ipi[w] = 1
        /\ \A k \in Harts : k # w => mem'.ipi[k] = mem.ipi[k]
    BY <1>1, <1>2, <2>1, <2>2 DEF smp_deliver_ipi, MemFile, AllDone
  <2>4. ctl'.at = "job" /\ ctl'.job = w /\ ctl'.guard = JobBudget BY <1>2, <2>1 DEF Control
  <2>5. \A k \in Workers : k # w => Idle(k)' BY <1>1, <1>4, <1>6, <2>3, IdleUnchanged
  <2>6. harts'[w] = harts[w] /\ Idle(w) /\ harts[w].pc \in 12 .. (END - 1)
    BY <1>1, <1>4, <1>6, <2>2 DEF LockInv, HartInv, Places
  <2>7. Need(harts[w]) \in 1 .. 24 BY <2>6, NeedPositive
  <2>8. Called(harts[w], w)' BY <2>3, <2>6 DEF Called, Idle
  <2>9. Working(w)' BY <2>4, <2>6, <2>7, <2>8, BudgetAssumption DEF Working, Unhalted
  <2> QED BY <1>5, <2>2, <2>4, <2>5, <2>9 DEF JobInv
<1>7. CASE ~(h = 0 /\ r.pc = LOOP /\ NumHarts > 1)
  <2>1. mem' = Memory(h, r, mem) /\ stores' = stores /\ ctl' = [ctl EXCEPT !.at = "look"]
    BY <1>0, <1>7 DEF Execute
  <2>2. ctl'.at = "look" BY <1>2, <2>1 DEF Control
  <2>3. mem' = mem
    <3>1. CASE h = 0
      <4>1. r.pc \in 0 .. 11 BY <1>0, <3>1 DEF LockInv, HartInv, Places
      <4> QED BY <2>1, <4>1 DEF Memory
    <3>2. CASE h # 0 BY <1>0, <1>1, <1>3, <2>1, <3>2, IdleStep DEF Workers
    <3> QED BY <3>1, <3>2
  <2>4. ASSUME NEW k \in Workers PROVE Idle(k)'
    <3>1. CASE k = h
      <4>1. /\ Stepped(h, hit).pc \in IdlePc
            /\ Stepped(h, hit).pc = 17 => Stepped(h, hit).t1 = 0
        BY <1>0, <1>1, <1>3, <3>1, IdleStep
      <4> QED BY <1>0, <1>1, <1>4, <2>3, <3>1, <4>1 DEF Idle
    <3>2. CASE k # h BY <1>1, <1>4, <2>3, <3>2, IdleUnchanged
    <3> QED BY <3>1, <3>2
  <2>5. AllDone' BY <1>1, <2>1, <2>3, <2>4 DEF AllDone
  <2> QED BY <1>5, <2>2, <2>5 DEF JobInv
<1> QED BY <1>6, <1>7

\* Steps that change neither places nor memory, outside of a job.
LEMMA ControlRuns ==
  ASSUME JobInv, ctl.at # "job", ctl'.at # "job", mem' = mem, stores' = stores,
         \A h \in Harts : ~harts'[h].halted,
         \A w \in Workers : harts'[w].pc = harts[w].pc /\ harts'[w].t1 = harts[w].t1
  PROVE  JobInv'
<1>1. \A w \in Workers : Idle(w)' BY IdleUnchanged DEF JobInv, AllDone
<1> QED BY <1>1 DEF JobInv, AllDone

LEMMA EmulatorRuns == ASSUME Unhalted, LockInv, JobInv, Emulator PROVE JobInv'
<1>0. ctl \in Control BY DEF LockInv, HartInv, TypeOK, Control
<1>1. NextTurn.at # "job" BY <1>0 DEF NextTurn, Control
<1>2. CASE SkipHart BY <1>1, <1>2, ControlRuns DEF SkipHart, JobInv, Workers
<1>3. CASE Look BY <1>0, <1>1, <1>3, ControlRuns DEF Look, Stop, Control, JobInv, Workers
<1>4. CASE Poll BY <1>0, <1>4, ControlRuns DEF Poll, Stop, Control, JobInv, Workers
<1>5. CASE LoopTest
  <2>0. \/ ctl' = [ctl EXCEPT !.at = "turn", !.hart = 0]
        \/ ctl' = [ctl EXCEPT !.at = "stopped", !.interrupted = FALSE]
        \/ ctl' = [ctl EXCEPT !.at = "stopped"]
    BY <1>5, Zenon DEF LoopTest, Stop
  <2>1. ctl.at # "job" /\ ctl'.at # "job" BY <1>0, <1>5, <2>0 DEF LoopTest, Control
  <2> QED BY <1>5, <2>1, ControlRuns DEF LoopTest, JobInv, Workers
<1> QED BY <1>2, <1>3, <1>4, <1>5, ExecuteRuns, JobRuns, NotAbandoned DEF Emulator

LEMMA ResumeRuns ==
  ASSUME LockInv, JobInv, NEW tid, NEW step, NEW h, Resume(tid, step, h)
  PROVE  JobInv'
<1>1. ctl \in Control /\ harts \in [Harts -> RegFile]
  BY DEF LockInv, HartInv, TypeOK, Control, RegFile
<1>2. \A k \in Harts : /\ ~harts'[k].halted /\ harts'[k].pc = harts[k].pc
                       /\ harts'[k].t1 = harts[k].t1
  BY <1>1 DEF Resume, Resumed, JobInv, RegFile
<1> QED BY <1>1, <1>2, ControlRuns DEF Resume, Control, Workers

LEMMA JumpRuns == ASSUME LockInv, JobInv, JumpToLoop PROVE JobInv'
<1>1. harts \in [Harts -> RegFile] BY DEF LockInv, HartInv, TypeOK, RegFile
<1>2. /\ \A k \in Harts : ~harts'[k].halted
      /\ \A w \in Workers : harts'[w] = harts[w]
  BY <1>1 DEF JumpToLoop, JobInv, RegFile, Workers
<1> QED BY <1>2, ControlRuns DEF JumpToLoop

LEMMA ResetRuns == ASSUME LockInv, gdb_reset PROVE JobInv'
<1>1. \A w \in Workers : w \in Harts /\ w # 0 BY DEF Workers
<1>2. mem \in MemFile BY DEF LockInv, HartInv, TypeOK, MemFile
<1>3. mem'.lock = 0 /\ mem'.ready = 0 /\ mem'.done = 0 /\ \A h \in Harts : mem'.ipi[h] = 0
  BY <1>2 DEF gdb_reset, smp_sync_ram_init, MemFile
<1>4. \A h \in Harts : ~harts'[h].halted BY DEF gdb_reset, Fresh
<1>5. \A w \in Workers : harts'[w].pc = POLL BY <1>1 DEF gdb_reset, Fresh
<1>6. AllDone' BY <1>1, <1>3, <1>5 DEF AllDone, Idle, IdlePc, gdb_reset
<1> QED BY <1>4, <1>6 DEF JobInv, gdb_reset

LEMMA DebuggerRuns == ASSUME Unhalted, LockInv, JobInv, Debugger PROVE JobInv'
<1>1. CASE ContinueAll BY <1>1, ResumeRuns DEF ContinueAll
<1>2. ASSUME NEW h \in Harts, ContinueThread(h) PROVE JobInv'
  BY <1>2, ResumeRuns DEF ContinueThread
<1>3. ASSUME NEW h \in Harts, StepThread(h) PROVE JobInv' BY <1>3, ResumeRuns DEF StepThread
<1>4. ~CtrlC BY DEF CtrlC, Unhalted
<1>5. ASSUME NEW w \in Workers, ManualIpi(w, Limit) PROVE JobInv'
  BY <1>5, ControlRuns DEF ManualIpi, smp_sync_handle_mmio, JobInv, Workers
<1> QED BY <1>1, <1>2, <1>3, <1>4, <1>5, JumpRuns, ResetRuns DEF Debugger

LEMMA JobInductive == Unhalted /\ LockInv /\ JobInv /\ [Next]_vars => JobInv'
<1> SUFFICES ASSUME Unhalted, LockInv, JobInv, [Next]_vars PROVE JobInv' OBVIOUS
<1>1. ~sigint_handler BY DEF sigint_handler, Unhalted
<1>2. CASE UNCHANGED vars
  BY <1>2 DEF vars, JobInv, AllDone, Idle, Working, Called, Entering, Taking, Counting, Leaving
<1> QED BY <1>1, <1>2, EmulatorRuns, DebuggerRuns DEF Next

LEMMA JobMeans == LockInv /\ JobInv => JobsInline /\ WithinBudget /\ MutualExclusion
<1> SUFFICES ASSUME LockInv, JobInv PROVE JobsInline /\ WithinBudget /\ MutualExclusion OBVIOUS
<1>1. JobsInline BY DEF JobsInline, JobInv, AllDone, Idle
<1>2. ASSUME ctl.at = "job" PROVE ctl.guard > 0
  <2>1. ctl.job \in Workers /\ Working(ctl.job) BY <1>2 DEF JobInv
  <2>2. harts[ctl.job].pc \in 12 .. (END - 1) BY <2>1 DEF LockInv, HartInv, Places
  <2>3. ctl.guard \in Nat BY BudgetAssumption DEF LockInv, HartInv, TypeOK
  <2> QED BY <2>1, <2>2, <2>3, NeedPositive DEF Working
<1>3. \A w \in Workers : Idle(w) => harts[w].pc \notin Critical BY DEF Idle, IdlePc, Critical
<1>4. MutualExclusion BY <1>3 DEF MutualExclusion, JobInv, AllDone
<1> QED BY <1>1, <1>2, <1>4 DEF WithinBudget

\* With a budget of at least 24 instructions, and as long as no signal, interrupt or
\* watchpoint halts a hart, every loop store runs its job to the end: outside the store
\* the mailbox is empty, the lock free and all workers idle, every store was counted,
\* and no two workers were ever in the critical section.
THEOREM JobsRunInline == Unhalted => (Spec => [](JobsInline /\ MutualExclusion))
<1> SUFFICES ASSUME Unhalted PROVE Spec => [](JobsInline /\ MutualExclusion) OBVIOUS
<1>1. Init => LockInv /\ JobInv BY InitOK, JobInit
<1>2. LockInv /\ JobInv /\ [Next]_vars => (LockInv /\ JobInv)' BY Inductive, JobInductive
<1>3. LockInv /\ JobInv => JobsInline /\ MutualExclusion BY JobMeans
<1> QED BY <1>1, <1>2, <1>3, PTL DEF Spec
------------------------------------------------------------------------------
(***************************************************************************)
(* Counting.  Two workers may be in the critical section at once and their *)
(* increments may be lost, but every increment is paid for: a store of     *)
(* hart 0 raises one interrupt, an interrupt lets its worker through the   *)
(* handler once, and a handler adds one to a value of done it has read.    *)
(***************************************************************************)
Handler  == {19} \cup (HANDLE .. 32)
Summoned == {w \in Workers : mem.ipi[w] = 1}
Busy     == {w \in Workers : harts[w].pc \in Handler}
Due      == Cardinality(Summoned) + Cardinality(Busy)

CountInv ==
  /\ mem.done + Due <= stores
  /\ \A w \in Workers :
       /\ harts[w].pc = 17 /\ harts[w].t1 # 0 => mem.ipi[w] = 1
       /\ harts[w].pc = 18 => mem.ipi[w] = 1
       /\ harts[w].pc = 31 => harts[w].t2 + Due <= stores
       /\ harts[w].pc = 32 => harts[w].t2 + Due <= stores + 1

LEMMA FiniteWorkers ==
  /\ IsFiniteSet(Workers) /\ IsFiniteSet(Summoned) /\ IsFiniteSet(Busy)
  /\ Cardinality(Summoned) \in Nat /\ Cardinality(Busy) \in Nat /\ Due \in Nat
<1>1. IsFiniteSet(Harts) BY HartsAssumption, FS_Interval DEF Harts
<1>2. IsFiniteSet(Workers) BY <1>1, FS_Subset DEF Workers
<1>3. IsFiniteSet(Summoned) /\ IsFiniteSet(Busy) BY <1>2, FS_Subset DEF Summoned, Busy
<1> QED BY <1>2, <1>3, FS_CardinalityType DEF Due

\* The fields of a hart after an instruction, a watchpoint hit or not.
LEMMA FieldsAfter ==
  ASSUME LockInv, NEW h \in Harts, NEW hit \in BOOLEAN
  PROVE  /\ Stepped(h, hit).pc = NextPc(harts[h])
         /\ Stepped(h, hit).t1 = Regs(h, harts[h], mem).t1
         /\ Stepped(h, hit).t2 = Regs(h, harts[h], mem).t2
<1>2. harts[h] \in RegFile /\ mem \in MemFile
  BY DEF LockInv, HartInv, TypeOK, RegFile, MemFile
<1>3. Regs(h, harts[h], mem) \in RegFile /\ NextPc(harts[h]) \in 0 .. (END - 1)
  BY <1>2, InstructionTypes
<1> QED BY <1>3 DEF Stepped, RegFile

\* How an instruction of worker w moves the two sets: the store at 18 turns an interrupt
\* into a running handler, and the handler ends at the latest with the store at 32.
LEMMA SetsAfter ==
  ASSUME NEW w \in Workers, NEW pc, pc \in 12 .. (END - 1), harts[w].pc = pc,
         harts'[w].pc = NextPc(harts[w]),
         pc = 17 /\ harts[w].t1 # 0 => mem.ipi[w] = 1,
         pc = 18 => mem.ipi[w] = 1,
         mem'.ipi[w] = IF pc = 18 THEN 0 ELSE mem.ipi[w],
         \A k \in Workers : k # w => mem'.ipi[k] = mem.ipi[k] /\ harts'[k] = harts[k]
  PROVE  /\ Due' \in Nat /\ Due' <= Due
         /\ pc = 32 => Due' + 1 = Due
<1>1. /\ IsFiniteSet(Summoned) /\ Cardinality(Summoned) \in Nat
      /\ IsFiniteSet(Busy) /\ Cardinality(Busy) \in Nat /\ Due \in Nat
  BY FiniteWorkers
<1>2. CASE pc = 18
  <2>1. NextPc(harts[w]) = 19 BY <1>2 DEF NextPc
  <2>2. w \in Summoned /\ w \notin Busy BY <1>2 DEF Summoned, Busy, Handler
  <2>3. Summoned' = Summoned \ {w} BY <1>2 DEF Summoned
  <2>4. Busy' = Busy \cup {w} BY <2>1 DEF Busy, Handler
  <2>5. Cardinality(Summoned') = Cardinality(Summoned) - 1
    BY <1>1, <2>2, <2>3, FS_RemoveElement
  <2>6. Cardinality(Busy') = Cardinality(Busy) + 1 BY <1>1, <2>2, <2>4, FS_AddElement
  <2> QED BY <1>1, <1>2, <2>5, <2>6 DEF Due
<1>3. CASE pc # 18
  <2>1. Summoned' = Summoned BY <1>3 DEF Summoned
  <2>2. NextPc(harts[w]) \in Handler => pc \in Handler
    BY <1>3, SMTT(60) DEF NextPc, Handler
  <2>3. pc = 32 => NextPc(harts[w]) \notin Handler BY DEF NextPc, Handler
  <2>4. CASE w \in Busy /\ NextPc(harts[w]) \notin Handler
    <3>1. Busy' = Busy \ {w} BY <2>4 DEF Busy
    <3>2. Cardinality(Busy') = Cardinality(Busy) - 1 BY <1>1, <2>4, <3>1, FS_RemoveElement
    <3>3. Cardinality(Busy) - 1 \in Nat BY <1>1, <3>1, <3>2, FS_RemoveElement, FS_CardinalityType
    <3> QED BY <1>1, <2>1, <3>2, <3>3 DEF Due
  <2>5. CASE ~(w \in Busy /\ NextPc(harts[w]) \notin Handler)
    <3>1. Busy' = Busy BY <2>2, <2>5 DEF Busy
    <3>2. pc # 32 BY <2>3, <2>5 DEF Busy, Handler
    <3> QED BY <1>1, <2>1, <3>1, <3>2 DEF Due
  <2> QED BY <2>4, <2>5
<1> QED BY <1>2, <1>3

\* An instruction of a worker, in the run loop or inside hart 0's store.
LEMMA WorkerCounts ==
  ASSUME LockInv, CountInv, NEW w \in Workers, NEW hit \in BOOLEAN,
         harts' = [harts EXCEPT ![w] = Stepped(w, hit)],
         mem' = Memory(w, harts[w], mem), stores' = stores
  PROVE  CountInv'
<1>0. PICK r, q : r = harts[w] /\ q = harts'[w] OBVIOUS
<1>1. w \in Harts /\ \A k \in Workers : k \in Harts BY DEF Workers
<1>2. /\ r \in RegFile /\ mem \in MemFile /\ harts \in [Harts -> RegFile] /\ stores \in Nat
      /\ r.pc \in 12 .. (END - 1)
  BY <1>0, <1>1 DEF LockInv, HartInv, TypeOK, RegFile, MemFile, Places
<1>3. q = Stepped(w, hit) /\ \A k \in Harts : k # w => harts'[k] = harts[k]
  BY <1>0, <1>1, <1>2
<1>4. /\ q.pc = NextPc(r)
      /\ q.t1 = IF r.pc = 16 THEN mem.ipi[w] ELSE IF r.pc = 27 THEN mem.item ELSE r.t1
      /\ q.t2 = IF r.pc = 25 THEN mem.ready ELSE IF r.pc = 30 THEN mem.done
                ELSE IF r.pc = 31 THEN r.t2 + 1 ELSE r.t2
  BY <1>0, <1>1, <1>2, <1>3, FieldsAfter, JobRegisters
<1>5. /\ mem'.ipi[w] = IF r.pc = 18 THEN 0 ELSE mem.ipi[w]
      /\ \A k \in Harts : k # w => mem'.ipi[k] = mem.ipi[k]
      /\ mem'.done = IF r.pc = 32 THEN r.t2 ELSE mem.done
  BY <1>0, <1>1, <1>2, JobMemory
<1>6. /\ r.pc = 17 /\ r.t1 # 0 => mem.ipi[w] = 1
      /\ r.pc = 18 => mem.ipi[w] = 1
      /\ r.pc = 31 => r.t2 + Due <= stores
      /\ r.pc = 32 => r.t2 + Due <= stores + 1
      /\ mem.done + Due <= stores
  BY <1>0 DEF CountInv
<1>7. Due \in Nat /\ Due' \in Nat /\ Due' <= Due /\ (r.pc = 32 => Due' + 1 = Due)
  BY <1>0, <1>1, <1>2, <1>3, <1>4, <1>5, <1>6, SetsAfter, FiniteWorkers
<1>8. mem.done \in Nat /\ r.t2 \in Nat /\ mem.ipi[w] \in {0, 1} BY <1>1, <1>2 DEF MemFile, RegFile
<1>9. mem'.done + Due' <= stores' BY <1>2, <1>5, <1>6, <1>7, <1>8
<1>10. q.pc = 17 => r.pc = 16 BY <1>2, <1>4 DEF NextPc
<1>11. q.pc = 18 => r.pc = 17 /\ r.t1 # 0 BY <1>2, <1>4 DEF NextPc
<1>12. q.pc = 31 => r.pc = 30 BY <1>2, <1>4 DEF NextPc
<1>13. q.pc = 32 => r.pc = 31 BY <1>2, <1>4 DEF NextPc
<1>14. /\ q.pc = 17 /\ q.t1 # 0 => mem'.ipi[w] = 1
       /\ q.pc = 18 => mem'.ipi[w] = 1
  BY <1>4, <1>5, <1>6, <1>8, <1>10, <1>11
<1>15. q.pc = 31 => q.t2 + Due' <= stores' BY <1>2, <1>4, <1>6, <1>7, <1>8, <1>12
<1>16. q.pc = 32 => q.t2 + Due' <= stores' + 1 BY <1>2, <1>4, <1>6, <1>7, <1>8, <1>13
<1>17. ASSUME NEW k \in Workers, k # w
       PROVE  /\ harts'[k].pc = 17 /\ harts'[k].t1 # 0 => mem'.ipi[k] = 1
              /\ harts'[k].pc = 18 => mem'.ipi[k] = 1
              /\ harts'[k].pc = 31 => harts'[k].t2 + Due' <= stores'
              /\ harts'[k].pc = 32 => harts'[k].t2 + Due' <= stores' + 1
  <2>1. harts'[k] = harts[k] /\ mem'.ipi[k] = mem.ipi[k] BY <1>1, <1>3, <1>5, <1>17
  <2>2. harts[k].t2 \in Nat BY <1>1, <1>2 DEF RegFile
  <2>3. /\ harts[k].pc = 17 /\ harts[k].t1 # 0 => mem.ipi[k] = 1
        /\ harts[k].pc = 18 => mem.ipi[k] = 1
        /\ harts[k].pc = 31 => harts[k].t2 + Due <= stores
        /\ harts[k].pc = 32 => harts[k].t2 + Due <= stores + 1
    BY DEF CountInv
  <2> QED BY <1>2, <1>7, <2>1, <2>2, <2>3
<1> QED BY <1>0, <1>9, <1>14, <1>15, <1>16, <1>17 DEF CountInv

\* Steps that change neither the workers' places nor the mailbox.
LEMMA CountKept ==
  ASSUME CountInv, mem' = mem, stores' = stores,
         \A w \in Workers : /\ harts'[w].pc = harts[w].pc /\ harts'[w].t1 = harts[w].t1
                            /\ harts'[w].t2 = harts[w].t2
  PROVE  CountInv'
<1>1. Summoned' = Summoned /\ Busy' = Busy BY DEF Summoned, Busy
<1>2. Due' = Due BY <1>1 DEF Due
<1> QED BY <1>2 DEF CountInv

\* Hart 0's store raises one interrupt more at most.
LEMMA StoreCounts ==
  ASSUME LockInv, CountInv, NEW w \in Workers, NEW v \in Nat,
         mem' = smp_deliver_ipi(mem, w, v), stores' = stores + 1,
         \A k \in Workers : harts'[k] = harts[k]
  PROVE  CountInv'
<1>1. \A k \in Workers : k \in Harts BY DEF Workers
<1>2. /\ mem \in MemFile /\ harts \in [Harts -> RegFile] /\ stores \in Nat
  BY DEF LockInv, HartInv, TypeOK, RegFile, MemFile
<1>3. mem'.done = mem.done /\ \A k \in Workers : mem'.ipi[k] = IF k = w THEN 1 ELSE mem.ipi[k]
  BY <1>1, <1>2 DEF smp_deliver_ipi, MemFile
<1>4. /\ IsFiniteSet(Summoned) /\ Cardinality(Summoned) \in Nat
      /\ IsFiniteSet(Busy) /\ Cardinality(Busy) \in Nat /\ Due \in Nat
  BY FiniteWorkers
<1>5. Summoned' = Summoned \cup {w} /\ Busy' = Busy BY <1>3 DEF Summoned, Busy
<1>6. Cardinality(Summoned') \in {Cardinality(Summoned), Cardinality(Summoned) + 1}
  BY <1>4, <1>5, FS_AddElement
<1>7. Due' \in Nat /\ Due' <= Due + 1 BY <1>4, <1>5, <1>6 DEF Due
<1>8. mem.done \in Nat BY <1>2 DEF MemFile
<1>9. mem'.done + Due' <= stores' BY <1>2, <1>3, <1>4, <1>7, <1>8 DEF CountInv
<1>10. ASSUME NEW k \in Workers
       PROVE  /\ harts'[k].pc = 17 /\ harts'[k].t1 # 0 => mem'.ipi[k] = 1
              /\ harts'[k].pc = 18 => mem'.ipi[k] = 1
              /\ harts'[k].pc = 31 => harts'[k].t2 + Due' <= stores'
              /\ harts'[k].pc = 32 => harts'[k].t2 + Due' <= stores' + 1
  <2>1. harts[k].t2 \in Nat BY <1>1, <1>2 DEF RegFile
  <2> QED BY <1>2, <1>3, <1>4, <1>7, <2>1 DEF CountInv
<1> QED BY <1>9, <1>10 DEF CountInv

LEMMA ExecuteCounts == ASSUME LockInv, CountInv, Execute PROVE CountInv'
<1>0. PICK h, r : h = ctl.hart /\ r = harts[h] OBVIOUS
<1>1. h \in Harts /\ \A w \in Workers : w \in Harts /\ w # 0
  BY <1>0 DEF LockInv, HartInv, TypeOK, Workers
<1>2. /\ mem \in MemFile /\ harts \in [Harts -> RegFile] /\ stores \in Nat
  BY DEF LockInv, HartInv, TypeOK, RegFile, MemFile
<1>3. PICK hit \in BOOLEAN : harts' = [harts EXCEPT ![h] = Stepped(h, hit)]
  BY <1>0 DEF Execute
<1>4. CASE h = 0 /\ r.pc = LOOP /\ NumHarts > 1
  <2>0. PICK w : w = smp_worker_target(r.t1) OBVIOUS
  <2>1. mem' = smp_deliver_ipi(mem, w, r.t1) /\ stores' = stores + 1
    BY <1>0, <1>4, <2>0 DEF Execute
  <2>2. w \in Workers BY <1>0, <1>1, <1>4, <2>0, MailboxOK DEF LockInv
  <2>3. \A k \in Workers : harts'[k] = harts[k] BY <1>1, <1>2, <1>3, <1>4
  <2>4. r.t1 \in Nat BY <1>0, <1>1, <1>2 DEF RegFile
  <2> QED BY <2>1, <2>2, <2>3, <2>4, StoreCounts
<1>5. CASE ~(h = 0 /\ r.pc = LOOP /\ NumHarts > 1)
  <2>1. mem' = Memory(h, r, mem) /\ stores' = stores BY <1>0, <1>5 DEF Execute
  <2>2. CASE h = 0
    <3>1. r.pc \in 0 .. 11 BY <1>0, <2>2 DEF LockInv, HartInv, Places
    <3>2. mem' = mem BY <2>1, <3>1 DEF Memory
    <3>3. \A k \in Workers : harts'[k] = harts[k] BY <1>1, <1>2, <1>3, <2>2
    <3> QED BY <2>1, <3>2, <3>3, CountKept
  <2>3. CASE h # 0
    <3>1. h \in Workers BY <1>1, <2>3 DEF Workers
    <3> QED BY <1>0, <1>3, <2>1, <3>1, WorkerCounts
  <2> QED BY <2>2, <2>3
<1> QED BY <1>4, <1>5

LEMMA JobCounts == ASSUME LockInv, CountInv, JobStep PROVE CountInv'
<1>0. PICK h, r : h = ctl.job /\ r = harts[h] OBVIOUS
<1>1. h \in Harts /\ \A w \in Workers : w \in Harts /\ w # 0
  BY <1>0 DEF LockInv, HartInv, TypeOK, Workers
<1>2. harts \in [Harts -> RegFile] BY DEF LockInv, HartInv, TypeOK, RegFile
<1>3. PICK hit \in BOOLEAN : harts' = [harts EXCEPT ![h] = Stepped(h, hit)]
  BY <1>0 DEF JobStep
<1>4. mem' = Memory(h, r, mem) /\ stores' = stores BY <1>0 DEF JobStep
<1>5. CASE h = 0
  <2>1. r.pc \in 0 .. 11 BY <1>0, <1>5 DEF LockInv, HartInv, Places
  <2>2. mem' = mem BY <1>4, <2>1 DEF Memory
  <2>3. \A k \in Workers : harts'[k] = harts[k] BY <1>1, <1>2, <1>3, <1>5
  <2> QED BY <1>4, <2>2, <2>3, CountKept
<1>6. CASE h # 0
  <2>1. h \in Workers BY <1>1, <1>6 DEF Workers
  <2> QED BY <1>0, <1>3, <1>4, <2>1, WorkerCounts
<1> QED BY <1>5, <1>6

LEMMA ResumeCounts ==
  ASSUME LockInv, CountInv, NEW tid, NEW step, NEW h, Resume(tid, step, h)
  PROVE  CountInv'
<1>1. harts \in [Harts -> RegFile] BY DEF LockInv, HartInv, TypeOK, RegFile
<1>2. \A k \in Workers : /\ harts'[k].pc = harts[k].pc /\ harts'[k].t1 = harts[k].t1
                         /\ harts'[k].t2 = harts[k].t2
  BY <1>1 DEF Resume, Resumed, RegFile, Workers
<1> QED BY <1>2, CountKept DEF Resume

LEMMA HaltCounts ==
  ASSUME LockInv, CountInv, harts' = HaltAll, UNCHANGED <<mem, stores>>
  PROVE  CountInv'
<1>1. harts \in [Harts -> RegFile] BY DEF LockInv, HartInv, TypeOK, RegFile
<1>2. \A k \in Workers : /\ harts'[k].pc = harts[k].pc /\ harts'[k].t1 = harts[k].t1
                         /\ harts'[k].t2 = harts[k].t2
  BY <1>1 DEF HaltAll, RegFile, Workers
<1> QED BY <1>2, CountKept

LEMMA FreshCounts ==
  ASSUME \A w \in Workers : harts[w].pc = POLL /\ mem.ipi[w] = 0, mem.done = 0, stores = 0
  PROVE  CountInv
<1>1. Summoned = {} /\ Busy = {} BY DEF Summoned, Busy, Handler
<1>2. Due = 0 BY <1>1, FS_EmptySet DEF Due
<1> QED BY <1>2 DEF CountInv

LEMMA CountInit == Init => CountInv
<1> SUFFICES ASSUME Init PROVE CountInv OBVIOUS
<1>1. \A w \in Workers : w \in Harts /\ w # 0 BY DEF Workers
<1>2. mem.done = 0 /\ stores = 0 /\ \A h \in Harts : mem.ipi[h] = 0
  BY DEF Init, smp_sync_ram_init, ZeroMem
<1>3. \A w \in Workers : harts[w].pc = POLL BY <1>1 DEF Init, Fresh
<1> QED BY <1>1, <1>2, <1>3, FreshCounts

LEMMA ResetCounts == ASSUME LockInv, gdb_reset PROVE CountInv'
<1>1. \A w \in Workers : w \in Harts /\ w # 0 BY DEF Workers
<1>2. mem \in MemFile BY DEF LockInv, HartInv, TypeOK, MemFile
<1>3. mem'.done = 0 /\ stores' = 0 /\ \A h \in Harts : mem'.ipi[h] = 0
  BY <1>2 DEF gdb_reset, smp_sync_ram_init, MemFile
<1>4. \A w \in Workers : harts'[w].pc = POLL BY <1>1 DEF gdb_reset, Fresh
<1>5. Summoned' = {} /\ Busy' = {} BY <1>1, <1>3, <1>4 DEF Summoned, Busy, Handler
<1>6. Due' = 0 BY <1>5, FS_EmptySet DEF Due
<1> QED BY <1>3, <1>4, <1>6 DEF CountInv

LEMMA CountInductive == LockInv /\ CountInv /\ [Next]_vars => CountInv'
<1> SUFFICES ASSUME LockInv, CountInv, [Next]_vars PROVE CountInv' OBVIOUS
<1>1. CASE LoopTest \/ SkipHart \/ JobEnds \/ Look \/ Poll
  BY <1>1, CountKept DEF LoopTest, SkipHart, JobEnds, Look, Poll
<1>2. CASE ContinueAll BY <1>2, ResumeCounts DEF ContinueAll
<1>3. ASSUME NEW h \in Harts, ContinueThread(h) \/ StepThread(h) PROVE CountInv'
  BY <1>3, ResumeCounts DEF ContinueThread, StepThread
<1>4. CASE CtrlC \/ sigint_handler BY <1>4, HaltCounts DEF CtrlC, sigint_handler
<1>5. ASSUME NEW w \in Workers, ManualIpi(w, Limit) PROVE CountInv'
  BY <1>5, CountKept DEF ManualIpi, smp_sync_handle_mmio
<1>6. CASE JumpToLoop
  <2>1. harts \in [Harts -> RegFile] BY DEF LockInv, HartInv, TypeOK, RegFile
  <2>2. \A w \in Workers : harts'[w] = harts[w] BY <1>6, <2>1 DEF JumpToLoop, Workers
  <2> QED BY <1>6, <2>2, CountKept DEF JumpToLoop
<1>7. CASE UNCHANGED vars BY <1>7, CountKept DEF vars
<1> QED BY <1>1, <1>2, <1>3, <1>4, <1>5, <1>6, <1>7, ExecuteCounts, JobCounts, ResetCounts
        DEF Next, Emulator, Debugger

\* The workers never count more jobs than hart 0 has stored, for any number of harts and
\* budget, and although signals, watchpoints and the debugger can put several of them
\* into the critical section at once: the unlocked increments lose counts, they never
\* make one up.
THEOREM NothingInvented == Spec => []NoJobInvented
<1>1. Init => LockInv /\ CountInv BY InitOK, CountInit
<1>2. LockInv /\ CountInv /\ [Next]_vars => (LockInv /\ CountInv)' BY Inductive, CountInductive
<1>3. LockInv /\ CountInv => NoJobInvented
  <2>1. Due \in Nat BY FiniteWorkers
  <2> QED BY <2>1 DEF LockInv, HartInv, TypeOK, CountInv, NoJobInvented
<1> QED BY <1>1, <1>2, <1>3, PTL DEF Spec

\* If no signal, interrupt or watchpoint halts a hart, the budget of at least 24
\* instructions of smp_sync_run_worker_jobs never ends a job early.
THEOREM BudgetSuffices == Unhalted => (Spec => []WithinBudget)
<1> SUFFICES ASSUME Unhalted PROVE Spec => []WithinBudget OBVIOUS
<1>1. Init => LockInv /\ JobInv BY InitOK, JobInit
<1>2. LockInv /\ JobInv /\ [Next]_vars => (LockInv /\ JobInv)' BY Inductive, JobInductive
<1>3. LockInv /\ JobInv => WithinBudget BY JobMeans
<1> QED BY <1>1, <1>2, <1>3, PTL DEF Spec
==============================================================================
