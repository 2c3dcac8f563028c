# gdb-stub: a verification development

TLA+ models of the GDB remote stub (`src/src/gdb_stub.c`) and of the RISC-V
emulator that drives it (`src/emu/`), the TLC runs that check them, and TLAPS
proofs for every value of the constants. Source references below are relative to
the repository.

## 1. The system

One process, one thread. `main` accepts one debugger over TCP and then loops:
`gdb_stub_process` blocks for a packet and handles it; if the packet resumes the
target, `main` either steps one instruction (`step_focus_hart`) or runs all
eligible harts round-robin (`continue_all_harts`), polling the socket once per
round. Every run ends with one stop reply. A SIGINT handler may run between any
two statements.

| component | state | operations | talks to |
|---|---|---|---|
| breakpoint / watchpoint tables (`gdb_stub.c`) | two arrays with fill counts; `breakpoint_hit`, `last_watchpoint_addr` | insert, remove, clear, check pc / read / write, report | packet handlers, run loop, every memory access (through CPU callbacks) |
| packet dispatch (`gdb_stub_process` and `handle_*`) | `single_step`, `should_stop`, `current_thread`, `continue_thread`, `stop_thread` | one handler per packet | emulator, by callbacks |
| main loop (`main.c`) | `focus_hart`, `stop_hart`, per hart `pc`, `running`, `halted` | resume, step, run loop, poll, stop notification | handlers, tables, workers |
| signal handler (`main.c`) | `g_interrupt_received` | `sigint_handler` | writes the state of both of the above |
| framing (`receive_packet`, `send_packet`) | packet buffer, `no_ack_mode`, `consecutive_failures` | bytes to packets, checksum, ACK/NACK | socket |
| register packets, `X` data, memory search | none of their own; registers and RAM | `g G p P`, `X`, `qSearch:memory` with their codecs | handlers, emulator callbacks |
| guest memory (`rv32_cpu.c`, `main.c`, `smp_sync.c`) | one array per hart, a pointer to the array in use | loads, stores, debugger reads and writes, reset | instructions, debugger, workers |
| SMP workers (`smp_sync.c`, `smp_program.h`) | mailbox, lock and counters in RAM | publish a job, run a worker, MMIO | hart 0's store, run loop |
| RV32 processor (`rv32_cpu.c`) | registers | `rv32_cpu_step`, memory access with watchpoint callbacks | tables, memory |

What is hard in it, and what correctness means:

* **Answers.** The protocol is strictly one answer per request. A resume packet is
  answered by the stop reply that ends its run, and a run has many ways to end
  (breakpoint, watchpoint, trap, illegal opcode, packet, closed connection, SIGINT),
  several of which may be true at once.
* **Flags that outlive their stop.** `breakpoint_hit`, `last_watchpoint_addr`,
  `stop_hart`, `should_stop`, `g_interrupt_received` are set in one place and
  consumed in another.
* **Who runs.** Focus, current thread, continue thread and stop thread are separate
  variables, written by different packets and by every stop.
* **Tables.** Slots are never given back, only disabled; removal disables one match.
* **Workers.** A worker's job runs inside hart 0's instruction, unless something halts
  the worker in the middle of it; then the rest is interleaved with everything else.
* **Bytes.** Acknowledgements, interrupts and packets share one stream that the stub
  reads and the run loop only polls; packets may be damaged or too long.
* **Edges.** Address arithmetic wraps, payloads are C strings, lengths come from
  the packet.
* **Paths to memory.** Instructions, the debugger and `smp_sync.c` each have their own.

The complete list, each item at its line, is under `hazards` in `PROJECT.json`.

## 2. Modules

| module | models | kind |
|---|---|---|
| `ArmedPoints` | what the documentation promises of points: sets of armed ones | abstract specification |
| `PointTables` | the tables, their checks and the flags they set | specification, refines `ArmedPoints` |
| `MCPointTables` | three addresses, lengths 1 and 4 | TLC instance |
| `PointTablesProofs` | invariants and refinement | proofs |
| `RunControl` | all packet handlers, the main loop, SIGINT, the debugger | composed specification |
| `MCRunControl` | command sets for the runs | TLC instance |
| `RunControlProofs` | types, the accounting of answers, who runs, the truth of stop replies | proofs |
| `PacketChannel` | what framing promises: whole packets, in order, at most once | abstract specification |
| `RspLink` | bytes, checksums, acknowledgements, poll, failure counter, a gdb-like client | specification, refines `PacketChannel` |
| `MCRspLink` | packets that fit a buffer of 4 bytes and that do not, kinds of noise | TLC instance |
| `RspLinkProofs` | types, failures, refinement, both ends in step | proofs |
| `SmpWorkers` | both demo programs, mailbox, lock, `smp_sync.c`, the run loop | specification |
| `MCSmpWorkers` | sets of events for the runs | TLC instance |
| `SmpWorkersProofs` | types, the lock, jobs and their budget | proofs |
| `MemorySearch` | `qSearch:memory` with wrapping addresses | specification |
| `MCMemorySearch` | eight addresses, four of them RAM | TLC instance |
| `MemorySearchProofs` | correctness of the answer | proofs |
| `RegisterPackets` | `g G p P`, the pc in a stop reply, the debugger's register cache | specification and TLC instance |
| `RegisterPacketsProofs` | the codecs are inverse, the cache is true | proofs |
| `BinaryWrite` | `X`: decoder and write loop | specification |
| `MCBinaryWrite` | escaped and malformed payloads | TLC instance |
| `BinaryWriteProofs` | no overflow, whole or nothing, encoded data restored | proofs |
| `FlatMemory` | what harts and debugger are promised of RAM: one memory | abstract specification |
| `GuestMemory` | arrays, pointers, bounds, the three paths to memory | specification, refines `FlatMemory` |
| `MCGuestMemory` | accesses at and across every edge | TLC instance |
| `GuestMemoryProofs` | bounds and refinement | proofs |

The modules meet at named seams. `RunControl` takes packets whole and in order, which
is what `RspLink` is shown to deliver; it has points as sets, which is what `PointTables` is
shown to provide; `SmpWorkers` and the handlers have one memory, which is what
`GuestMemory` is shown to be. `SmpWorkers` repeats the run loop in the detail its
questions need (turn, look, poll, job) and leaves replies to `RunControl`.

### PointTables

A table is the sequence of its slots below the fill count, a slot a key and the
enabled flag. `AddSlot` and `RemoveSlot` are the loops of `gdb_stub_add_*` and
`gdb_stub_remove_*`; a watchpoint's key is address, length and type, with the
default length 4 that `handle_breakpoint` puts in for 0. The checks scan for the
first matching enabled slot and set `breakpoint_hit` or `last_watchpoint_addr`;
`gdb_stub_send_stop_reason` and `handle_halt_reason` consume them. Addresses are
naturals: the build is 32 bits wide and `ranges_overlap` computes ends in 64 bits, so
nothing wraps.

`ArmedPoints` has no tables: a check answers from a set, a watchpoint is the bytes it
covers, every hit is reported, and an insertion is refused only while the
documented number of points is armed. `PointTables` maps its enabled slots to the armed
sets. The code keeps less than that promise in two cases, which are hypotheses on the
debugger: `Frugal`, it never inserts a point into a table that is full with a slot left by a
removal, or with that point itself; and 0 is not in `WatchAddr`. With `Frugal = FALSE`, or with 0
among the watched addresses, TLC finds the refinement violated: an insertion is refused with
nothing armed, a hit is followed by a plain stop (section 5).

### RunControl

`phase` is where the emulator's thread of control is. In `"process"` it waits in
`gdb_stub_process`: each handler is one action that takes the packet, changes the
state and answers. Resume packets go to `"resumed"`, then `MainResume` to `"step"`
or `"loop"`. `continue_all_harts` is cut where a signal or a packet can make a
difference: the loop test, the turn of each hart, the look at the hart after its
instruction, the poll, and the code behind the loop.

Data is abstract. An instruction moves the pc to any code address, touches at most
one data address, and may trap or be illegal; a worker's job is a run of such
instructions. Armed points are plain sets (this is what `PointTables` is shown to
provide), a refusal by a full table is a nondeterministic `E01`, and watchpoints are of
access type. Malformed packets are answered with an error and change nothing.
Packets are whole: framing is below this model.

The debugger sends a packet when it waits for nothing, takes the next packet that
arrives as the answer, may send the interrupt byte while it waits for a stop, and may
close. `owed`, `hc`, `asked` and `sched` record what it sent and what it asked for,
and how many instructions (up to 2) each hart executed in its turns since (a hart whose `running` flag
is clear executes none, and a worker's job inside hart 0's store is not a turn); they guard
nothing but the bound `MaxOwed`.

What `signal()` leaves to the system is nondeterministic: the handler may stay or be
one-shot, a blocked read may restart or fail. A write to a closed connection may
kill the process (SIGPIPE has no handler).

Granularity: SIGINT falls between actions, not inside one. The handler's own effect
is idempotent, and a signal inside a packet handler has the effect of one after it;
inside the code behind the loop it may lead to signal number 2 where the model has 4.

### RspLink

One action per byte read: `receive_packet` is its state machine with the local
variables in `recv`. Bytes to the stub are real bytes with real checksums; to the
debugger travel `+`, `-` and replies marked with the number of the packet they answer.
A handler is one reply, now or, for `c` and `s`, when the run ends. `Poll` ends a run as
soon as any byte is readable, as `select` in the run loop does.

The debugger follows gdb. After a packet it waits for `+`; there it repeats its packet after a
`-`, and a packet that arrives instead is acknowledged and dropped. Then it waits for a
reply, which it acknowledges. After `QStartNoAckMode` it does neither. `Interrupts` says in which
of the two modes it interrupts runs. A reply may be damaged where the debugger can ask for it
again.

One byte of a request may arrive damaged, as any byte of `Noise`. With `Reframing` this is any byte of
the frame: the `$` may be lost, the `#` may be lost or appear inside the data, and when both sides wait
for each other the debugger's timer goes off and it sends the packet again. It does so only while
packets are acknowledged: without acknowledgements nobody would notice a lost packet, and the
mode is meant for connections that lose nothing. A `$` damaged into Ctrl-C is left out: it is an
interrupt, and nothing in the protocol can tell. Without `Reframing`, `$` and `#` stay where they
are, and that is what the theorems are about.

### SmpWorkers

A program counter is the index of its word in the image; one instruction is one step,
whether the run loop executes it or `smp_sync_run_worker_jobs` does. Registers are those
the two programs compare or store. `ctl.at` is the thread of control: `"turn"` of a hart
in `continue_all_harts`, `"job"` inside a store of hart 0, `"look"` at the hart after its
instruction, `"poll"` at the end of a round, `"test"` at the condition of the loop, `"stopped"` in the
debugger's hands. `sigint_handler` halts all harts and sets `g_interrupt_received`; the run that is under way
ends because no hart is running and leaves it set, so that the next run ends before its first
instruction and clears it. A single step looks neither at this flag nor at the hart's
halted flag: it executes. The
debugger continues all harts or one, steps, moves hart 0 back to the loop (the
demo as it is leaves the loop after one store, see section 5), resets, and
interrupts; SIGINT comes at any moment; a data access may hit a watchpoint. Breakpoints are
stops between turns, as `Poll` has them.

### MemorySearch, RegisterPackets, BinaryWrite

These three follow a handler loop by loop, with a debugger that sets up the state,
sends requests and keeps what it was told. Addresses in `MemorySearch` and `BinaryWrite` are
modulo `AddrSpace`. A register is a number of `RegBytes` bytes, and a packet the sequence of
its hexadecimal digits; the debugger's `copy` is what gdb's register cache would hold. In
`BinaryWrite` bytes are real bytes (`*`, `}` and zero have their values) and a request also carries
the data the debugger meant, so that the result can be compared with the intent.
Missing separators and registers that do not exist are refused before anything happens;
they are in `RunControl`. The debugger does not write `x0` and its `G` packets are complete.

### GuestMemory

`memory` is the array in every hart's structure, `shared_ram` the pointer that makes all of
them use hart 0's. Loads and stores of instructions have the test of
`rv32_cpu_read_mem` and `rv32_cpu_write_mem` in unsigned arithmetic; the debugger's
accesses go byte by byte through `sys_read_mem` and `sys_write_mem`, which take the window of
the worker protocol and the IPI register away from that path; `smp_sync.c` writes words.
`touched` records the offsets an access used, so that an index outside of the array is
visible. Reads are of lengths `handle_read_memory` accepts. `FlatMemory` knows neither
arrays nor paths.

## 3. Runs

| run | expects | what it shows |
|---|---|---|
| `point_tables` | pass | `TypeOK` (no overflow), `NoDuplicateSlots`, refinement of `ArmedPoints`, for a frugal debugger that does not watch address 0 |
| `rc_one_core` | pass | `TypeOK`, `AnsweredOnce`, `NoRunPastWatchHit`, `SwbreakTruth` with one hart, packets of nearly every kind, malformed ones included, traps, Ctrl-C and close at any moment |
| `rc_two_harts` | pass | `RunsAsAsked`, `StepHappens` with two harts, `vCont` in its forms, changes of focus, a thread that does not exist |
| `rc_signals` | pass | `AnsweredOnce` and `InterruptAnswered` (liveness) with SIGINT and Ctrl-C at any moment, `?`, and watchpoints hit by workers and by the debugger itself |
| `rsp_link` | pass | `TypeOK` (no buffer overflow), `NoFailureWithoutFault`, refinement of `PacketChannel`, `AckModesAgree`, `RunsUndisturbed`, `RepliesInStep`, `RequestAnswered` (liveness), with damage in both directions, lost starts, lost ends and false ends of packets and their repetition, no-ack mode, interrupts in both modes, closing |
| `smp_workers` | pass | `TypeOK`, `LockHolder`, `NoJobInvented`, `StoreEnds`, `LockFreed` (the last two liveness), three harts, jobs cut off by signals and watchpoints, steps, resets |
| `smp_inline` | pass | `JobsInline`, `WithinBudget` while nothing halts a worker inside a job |
| `search` | pass | `TypeOK`, `FirstMatch`, `SearchEnds` (liveness) for all memory contents |
| `registers` | pass | `TypeOK`, `CopyTrue` |
| `binary_write` | pass | `TypeOK`, `NoOverflow`, `AllOrNothing`, `WrittenAsSent` |
| `guest_memory` | pass | `TypeOK`, `InBounds`, refinement of `FlatMemory` |
| `smp_mutex` | violation | `MutualExclusion`: two interrupted workers are both in the critical section |

The run that expects a violation is a disagreement between the code and its documentation,
and a finding in `PROJECT.json`. Where the code disagrees with its documentation elsewhere
(section 5), inputs or hypotheses are chosen so that the property still says what the code does get right:
`ImplementsArmedPoints` for a frugal debugger that does not watch address 0;
`SwbreakTruth` without `?`; `RunsAsAsked` with `vCont` instead of `Hc` and `c`; `StepHappens`
for the thread in focus; `NoRunPastWatchHit` on one hart and without debugger accesses to
watched memory (which trigger watchpoints themselves and leave the hit pending into the
next run); `AnsweredOnce` with replies that fit; `RepliesInStep` until a run was interrupted
in no-ack mode (`InterruptsAcked`; while packets are acknowledged the debugger waits for `+` when
the second stop reply comes, and drops it) or a reply was damaged; `RunsUndisturbed` up to and
including the first interrupted run (`Calm`); `RequestAnswered` until anything was damaged
or cut, or the debugger has gone; `ImplementsPacketChannel` for packets that fit or whose cut changes
their sum;
`SearchEnds` away from the last address; `CopyTrue` for a debugger that reads the pc with
`p` or `g`; `WrittenAsSent` for escaped data without zero bytes.

Bounds. `MaxOwed = 2` is the most a debugger of this kind has outstanding (a resume
and one interrupt byte). Two harts are enough for a focus that differs from the
hart that runs, and for hart 0 handing a job to a worker; two code addresses give a
breakpoint to stand on and one to be away from. In the table runs the capacities (1
and 2) are reached, exceeded, and reached with disabled slots; addresses 0, 2 and 3 with
lengths 1 and 4 overlap at one end, contain one another, or are apart. `RspLink` has a buffer of 4 bytes, reached and passed by one byte; four packets are enough
for a change of mode, a run, an interrupt and a packet behind them, and for a damaged packet
that runs on into its repetition, with one before and one behind. `SmpWorkers` has three harts
in `smp_workers`, so that two workers can meet at the lock, and four elsewhere; the
budget is 128 where it matters and 26 where workers run out of it, which is
two more than a job needs. Two stores and three resumes let a job be cut off, the run that
finds `g_interrupt_received` set end at once, and the next one resume the job; seven, in
`smp_mutex`, let two jobs be cut off and interleaved. `MemorySearch` has windows below, inside, across and behind RAM and
around the end of eight addresses; `RegisterPackets` two bytes of two binary digits and
three registers (`x0`, one other, the pc), the least that tells byte orders and digit
orders apart; `BinaryWrite` all payloads up to three bytes over zero, a count and the two special
bytes, for two packets in a row; `GuestMemory` the real layout of the shared words in a RAM of 72
bytes, with accesses of 1, 2 and 4 bytes at, before and behind both ends. Deadlock
checking is off only where `k`, `D`, a closed connection or a signal ends the program, or
where the debugger of a bounded run has nothing left to send.

Fairness. `FairSpec` adds `WF_vars(Stub)`: the emulator is a single process that never
blocks except for a packet, so that it takes a step whenever one is enabled. `SmpWorkers` and
`MemorySearch` assume the same of the emulator and of the handler, `RspLink` of the stub and,
since the question is whether an exchange completes, of the debugger's reading what has
arrived and repeating what is not answered; a running target need not stop by itself there. Nothing else is assumed of the
debugger, and nothing of signals.

What the less obvious properties say:

* `ImplementsPacketChannel`: whatever byte is damaged and whatever is mixed in, what reaches
  a handler is what was sent, in order, once.
* `RunsUndisturbed`: while the target runs no byte but interrupts is on its way; a late `+`
  ends the run at once, as the poll does not look at what is readable. Without its hypothesis
  `Calm` it is false: section 5.
* `RequestAnswered`: leaving is not an answer; the session may end only for one of the reasons
  the formula names.
* `JobsInline`: outside of hart 0's store workers are idle, the mailbox is empty, the lock free,
  and the count equals the stores. It is why the demo works although its lock is not
  atomic; `smp_mutex` shows what a halt inside a job does to it.
* `LockHolder`: the lock word is never stale, however the debugger stops, steps, continues and
  resets (it writes neither the lock nor a worker's pc).
* `LockFreed`: a lock is freed in a run of all harts, unless its holder was itself halted.
* `AllOrNothing`: an `X` packet is stored completely or leaves memory alone.

`InterruptAnswered`: in a run in which Ctrl-C is on its way or SIGINT was taken, and the
debugger waits for a stop, a packet reaches the debugger or the emulator has left.

## 4. Proofs

`PointTablesProofs`, for any set of addresses and lengths of naturals and any two
capacities:

* `TypeCorrect`, `SlotsUnique`: `TypeOK` and `NoDuplicateSlots`. Their conjunction is
  inductive: a slot is appended only below the capacity and only for a key that no slot
  has, and everything else keeps the keys.
* `OverlapIsSharedByte`: the two comparisons of `ranges_overlap` say exactly that the
  ranges have a byte in common.
* `Refinement`: for a frugal debugger that does not watch address 0 (`Considerate`) every step
  of the tables is a step of `ArmedPoints`. Uniqueness is what makes it true: disabling the
  first matching slot removes the key from the armed set only if no other slot has it, and
  a full table of enabled slots is a full set of armed points only if keys are distinct.

`RunControlProofs`, for any number of harts, code and data addresses, packets, events
and `MaxOwed`:

* `TypeCorrect`: `TypeOK`; `Hg`'s range test keeps `focus_hart` an index of a hart.
* `AnswersMatch`: if the debugger sends no read whose reply cannot fit
  (`RepliesFit`), `AnsweredOnce` holds.
* `RunsObey`: `RunsAsAsked` for a debugger that resumes with `vCont` only (`Direct`), or
  with `c` and `s` and no thread chosen by `Hc` (`Plain`); `c` forgets that choice (section
  5), so that with it the property is false.
* `StepsHappen`: `StepHappens` for a debugger that does not step with `s`
  (`NoPlainStep`), which leaves the thread of the last resume in place. A thread on a
  breakpoint or stopped by an illegal instruction executes nothing.
* `SwbreakTrue`: `SwbreakTruth` for a debugger that does not ask `?` (`NoQuery`), which sets
  `breakpoint_hit` and does not consume it.
* `HitsEndRuns`: `NoRunPastWatchHit` if in addition the debugger does not itself access
  what it watches (`Unseen`) and no worker runs jobs (`NoJobs`): both leave
  `last_watchpoint_addr` set with nothing stopped.

The hypotheses are on the packets a debugger sends, and each is there for a behaviour of the
code for which the property fails. Signals, interrupts, closing and refusals at any
moment, and all other packets, are in.

The inductive invariant for the first two is `CoreOK /\ Accounts /\ LoopExit`. `AnsweredOnce` alone is not
inductive: behind the loop three conditions are tried and nothing is sent if none holds.
`LoopExit` says one always does, and is preserved because the signal handler only
makes them true. `Covered` (answers under way never exceed what is owed) keeps the
count a natural number after the emulator has left. Each action of the stub
falls under one of six shapes (`AnswerNow`, `AnswerLater`, `NoAnswer`, `StillRunning`,
`RunEnds`, `Leaves`), and the accounting is proved once per shape.

The other four rest on two more invariants. `Requests` relates what the debugger asked for
to `single_step`, `continue_thread` and the focus from the resume packet to the end of the
run; under `Plain` it has to say between runs that the thread of the last resume is the
current one or the focus is, as a step follows `continue_thread`, which is whatever earlier
packets left. `Flags` says that `breakpoint_hit` is never set between actions and that a
watchpoint hit is pending only while the hart that made it is halted and has not been looked
at. An action that touches neither is `Calm` or `Steady`, and for those the
invariants are proved once.

`SmpWorkersProofs`, for any number of harts, budget, limit and bounds:

* `TypeCorrect`, and `LockTruthful`: `LockHolder` with all events. It is inductive with types
  and the fact that a worker at the store that takes the lock has its own number in `t0`:
  only that store makes the lock non-zero, and only the release leaves the section.
* `NothingInvented`: `NoJobInvented` with all events. The invariant `CountInv` counts the
  workers that are summoned or busy: finished jobs and these together never exceed hart 0's
  stores, also while a worker holds a count it has loaded and not yet stored.
* `JobsRunInline`, `BudgetSuffices`: without Ctrl-C, SIGINT and watchpoints (`Unhalted`), and
  with a budget of at least 24, `JobsInline`, `WithinBudget` and `MutualExclusion` hold. The invariant `JobInv`
  describes the one job under way: which of five stages the worker is in (called, entering,
  taking, counting, leaving), what the mailbox, lock and registers hold there, and that the
  instructions still needed (`Need`) are within the guard. Other workers are
  idle. `MutualExclusion` alone is far from inductive, as load and store of the lock are
  two steps.

`MemorySearchProofs`, for any address space, RAM, byte values and requests: `TypeCorrect`, and
`SearchCorrect`: `FirstMatch` for requests that do not let a pattern start at the last address
(`BelowTop`). The invariant adds that no place before the loop variable matches.

`BinaryWriteProofs`, for any requests, any buffer and an address space at least as large:

* `TypeCorrect`, `DecoderInBounds` (`NoOverflow`), `WholeOrNothing` (`AllOrNothing`). The
  invariant `WriteInv` says that memory is untouched before the write loop and that in it
  exactly the first `stored` bytes are in place; the lemma `TurnOf` says which turn of the
  loop an address has, with wrapping.
* `DataArrives`: `WrittenAsSent`, if requests marked as encoded are (`Faithful`): the payload is
  `Escaped` of the data, of the length the packet gives, within the buffer and without zero
  bytes, which the stub takes for the end (section 5). The invariant `InStep` is that behind
  every turn of its loop the decoder stands at the beginning of an encoded byte and has
  decoded the data before it. Where the encoded bytes begin is the lemma `EscapedLayout`, an
  induction over the join that `FlattenSeq` computes.

`RspLinkProofs`, for any set of packets, buffer size, noise and bounds, without `Reframing`:

* `TypeCorrect`, and `SoundLinkNeverFails`: `NoFailureWithoutFault`. The invariant `LinkInv` says
  what the bytes on their way are: there is a history `h` of bytes and a cursor `b` so that `rx`
  is the rest of `h`, `h` is laid out as acknowledgements, interrupts and the packets
  sent, and the state of `receive_packet` is that of a reader at `b` (`StreamAt`). A
  packet is assembled over many steps, during which more bytes arrive behind it, so
  nothing weaker is inductive.
* `ChannelImplemented`: `ImplementsPacketChannel` if every packet is shorter than the buffer
  (`Fitting`). A longer one is cut and the checksum taken over what was kept, so that it passes if
  the lost bytes sum to 0 modulo 256.
* `PollFindsInterrupts`: `RunsUndisturbed` if packets fit, for a debugger that interrupts runs whenever
  it likes, with and without acknowledgements.
* `ModesAgree`, `RepliesMatch`: `AckModesAgree` and `RepliesInStep`, if in addition the debugger
  does not interrupt a run in no-ack mode (`Polite`). In the run it may: `AckModesAgree` holds all the
  same, and `RepliesInStep` until it happens.

  The invariant `TalkInv` of these three says, for a polite debugger and for any debugger until it goes on
  after its first interrupt, where the two ends are in their exchange: which confirmations and replies are on their way
  to a debugger that waits for one (`Talk`); that only the packet the debugger waits for is
  ahead of the stub, with nothing but interrupts behind it (`Solo`); and that before the first interrupt
  a debugger that waits for `+` finds it in front (`Prompt`), so that it never drops and
  acknowledges a packet whose acknowledgement could meet a run. Interrupts after the packet the
  debugger waits for are counted by `Later`: sending the next packet ends the calm.

`RegisterPacketsProofs`, for any base, any width of registers and any number of them:

* `RoundTrip`: `parse_hex_le(encode_hex(v)) = v` for the value of a register.
* `TypeCorrect`, and `CopiesTrue`: `CopyTrue` for a debugger that does not take the pc from a stop
  reply, where its most significant byte comes first (section 5). The invariant says what an
  answer on its way stands for (`Exchange`) and that what the debugger holds is true but
  for the one register it is writing (`Kept`).

Recursive functions. `Place`, the loop of `parse_hex_le` and `FlattenSeq` are recursive function
definitions, of which TLA+ only says that they satisfy their equation if some function
does. The proofs construct that function from tables of its first values, and
argue by a least counterexample (`Inductive`, `UpTo`), since the library's induction theorems
take an operator as a parameter and cannot be instantiated.

`GuestMemoryProofs`, for any layout that satisfies `LayoutAssumption`, any number of harts and
any accesses:

* `TypeCorrect`, and `AccessesInBounds`: `InBounds`.
* `OneMemory`: `Spec => ImplementsFlatMemory`. The invariant is `TypeOK`, `InBounds` and
  `OneArray` (every hart's accesses go to hart 0's array); with it each path writes the
  cells that its addresses name, also across the end of the address space.

Assumptions on constants: addresses and lengths are naturals, capacities and `MaxOwed`
natural numbers, at least one hart, code and data addresses positive, packets in
`Command`; payloads without `#`; a base of at least 2; RAM ends below the end of the
address space, holds the shared words and not the device. TLC evaluates them in every run.

Every invariant, safety property and refinement that a passing run checks is also a theorem,
under the hypotheses above. Only model-checked: liveness (`InterruptAnswered`,
`RequestAnswered`, `StoreEnds`, `LockFreed`, `SearchEnds`), which needs `ENABLED` and fairness and is
beyond the prover. `RspLink` is checked by TLC also with packets longer than the buffer and with
`Reframing`, which its theorems leave out.

## 5. Known disagreements between code and documentation

The models follow the code in each of these; the first column is where it happens, the
last what it contradicts. `README` is the repository's. A run in parentheses shows it; the
others are behind the hypotheses and inputs named in section 3.

| code | what happens | contradicts |
|---|---|---|
| `gdb_stub.c:1164` | slots of removed points are not given back: the 65th distinct address since a reset is refused with nothing armed | README:215, 64 concurrent breakpoints |
| `gdb_stub.c:842` | `?` at a breakpoint sets `breakpoint_hit`, and the next stop, wherever it is, says `swbreak` | README:431 |
| `main.c:332` | `vCont;s:p1.2` executes nothing while the focus is another hart | README:430 |
| `gdb_stub.c:1118` | `c` forgets the thread chosen with `Hc` and runs all harts | README:283, 505 |
| `smp_sync.c:99` | a watchpoint hit inside a worker's job does not stop the run | README:486 |
| `main.c:100` | a stop behind the run loop may name one thread with the pc of another | README:404 |
| `gdb_stub.c:219` | a read of 2046 to 2048 bytes is accepted and never answered | README:168 |
| `gdb_stub.c:1322` | a hit of a watchpoint at address 0 is reported without a reason | README:431 |
| `gdb_stub.c:270`, `main.c:564` | one bad checksum ends the session, so that the retry the `-` asks for finds nobody | README:208 |
| `gdb_stub.c:241` | a reply the debugger rejects with `-` is not sent again | README:200 |
| `gdb_stub.c:1039`, `main.c:414` | one Ctrl-C in a run gives two stop replies; in no-ack mode the debugger is one reply behind from then on | README:207 |
| `main.c:414` | the debugger's acknowledgement of the second of these stop replies ends its next run | README:27, 493 |
| `gdb_stub.c:260` | a packet of the announced size is truncated, and refused or, if the lost byte is 0, delivered short | README:200, 376; `gdb_stub.c:388`, PacketSize |
| `smp_program.h:26` | the lock is not atomic (`smp_mutex`) | README:25, 437 |
| `smp_sync.c:40` | a job published while its worker is halted is overwritten by the next | README:427 |
| `main.c:267` | the word commented as `beq` is a `bne`: the demo leaves its loop after one round | README:534 |
| `smp_sync.c:112` | the debugger's write to the IPI register arrives as bytes and has no effect | README:281 |
| `rv32_cpu.c:122` | a hart's store to the IPI register has no effect | README:428 |
| `gdb_stub.c:998` | a search in which the pattern may start at the last address never ends | README:191 |
| `gdb_stub.c:975` | `qSearch:memory` is split at colons; the protocol has semicolons | the protocol |
| `gdb_stub.c:169` | the pc in a stop reply has its most significant byte first | README:201 |
| `gdb_stub.c:664` | `X` data with a zero byte is refused | README:170 |
| `gdb_stub.c:672` | run-length counts are taken 29 too high | README:209 |

## 6. Not modelled, and the plan

Modelled first was what the program is for, points and run control; then the link below
it, the worker protocol beside it, and the data paths. What is worth adding:

1. `ChannelImplemented` without `Fitting`, for packets whose cut the check notices, and with
   `Reframing`.
2. `RunsObey` for debuggers that mix `vCont` with `c` and `s`.

Left out, and why:

* Decoding and arithmetic of RV32I instructions beyond the demo programs: 32-bit words exceed
  TLC's integers, and each case would restate one expression of the code.
* The disassembler and printed state, the `-d` trace (which reads memory at the pc before a
  step), the `-i` prompt, option parsing, socket set-up: formatting and blocking I/O
  without protocol state.
* The spelling of thread ids: `parse_thread_spec` turns it into the numbers `RunControl`
  has.
* `M` packets whose length field and data disagree: what is written then depends on what
  earlier packets left in the buffer, and nothing says what should be.
* Output of the UART.
