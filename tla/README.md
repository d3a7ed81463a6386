# A TLA+ verification of Zero-CPU

Zero-CPU is a small 64-bit computer in C++: a CPU with User and Kernel mode, two
stacks and interrupts, a timer, a table of processes that share the CPU by
preemption, system calls with a filesystem in memory, an executable format, traces
that can be stored and compared, debuggers, and a bridge that lets guest programs
reach the pins of an ESP32 over a serial line. This directory holds TLA+ modules
translated from its source, TLC configurations that check them on small instances,
and TLAPS proofs for all instances. `PROJECT.json` maps every definition to the
lines it models and lists runs, mutants, hazards and theorems.

Paths below are relative to the repository's root.

## 1. Inventory

Everything runs on one host thread. Concurrency is *inside* the simulated
machine (processes interleaved by the timer, interrupts between instructions)
and *outside* it (the serial line and the device).

| Component | State | Operations | Used by / uses |
|---|---|---|---|
| `core/CPU` | registers, pc, sp, flags, memory, privilege level, kernel stack pointer, halted, error | `step`, `run`, `execute`, `executeBinaryInstruction`, `pushInterruptFrame`, `restoreInterruptFrame`, `serviceHostSoftwareInterrupt` | polls the interrupt controller before, ticks devices after each instruction |
| `core/InterruptController`, `core/TimerDevice` | queue of requests, enable bit, masks, vectors; tick count, interval | `request`, `acknowledge`, `tick` | timer requests, CPU or preemptive scheduler acknowledges |
| `core/ALU`, `Memory`, `RegisterFile`, `Flags`, `MMIOBus` | bytes, words, bits, ranges | arithmetic, reads, writes | CPU |
| `isa/*`, `binary/*` | none that lasts | encode, decode, write, read, load | CPU, images |
| `kernel/ProcessImageLoader`, `ProcessImage`, `ExecutableMetadata` | none that lasts | inspect, validate, place | process table |
| `kernel/ProcessTable`, `ProcessControlBlock` | PCBs by PID, `running_pid_`, `next_pid_` | create, update, transition, terminate, fault | every kernel part |
| `kernel/RoundRobinScheduler` | last selected PID | `scheduleNext` | table |
| `kernel/ProcessDispatcher` | none; stages copies of CPU, table, scheduler | `dispatchNext` | scheduler, contexts |
| `kernel/TimerPreemptiveScheduler` | preemption count | `step`, `servicePendingPreemption` | CPU, controller, dispatcher |
| `kernel/ProcessLifecycleManager` | runtime state, counters | `start`, `step` | preemptive scheduler, table |
| `kernel/ProtectedSyscallDispatcher`, `ProtectedFilesystemService`, `system/ZeroFS` | files and directories; devices | INT 80 services | called by the CPU as host service |
| `system/MultiProcessRunner`, `MultiProcessInvariantVerifier` | records and counters of a run | `runImages`, `verify` | lifecycle manager |
| `trace/*`, `system/MultiProcessTraceJsonWriter` | events | derive details, print, write JSON, compare | CPU, runners |
| `debug/DebugSession`, `DebugCondition`, `DebugSymbols` | image, points, last stop | load, edit points, `step`, `continueExecution`, `stepSourceLine` | console, Studio |
| `debug/MultiProcessDebugSession` | points, selection, resume skip, last stop | edit points, `step`, `continueExecution`, `stepSelectedSourceLine` | lifecycle manager |
| `debug/DebugSnapshotJson` | none | `toJson`, `writeJsonFile` | consoles, Studio |
| `hardware/SerialHardwareBus`, `WindowsSerialTransport`, `HardwareMMIODevice`, firmware | port handle; lines under way; registers of the device | connect, read, write; `handleLine` | LOAD and STORE of the guest |
| assembler, consoles, Studio, CLI | text | parse, format | users |

What is hard here, and what makes the parts correct:

* **Process runtime.** A process can end, fault, or lose the CPU at any
  instruction, also when its quantum ends with its last instruction. Table,
  scheduler, saved contexts and CPU must agree after each step; nobody may see
  another's registers or memory; a fault must stay with its process; a Ready
  process must get the CPU.
* **Process table.** Its calls come from several owners in no fixed order, up to
  the last PID.
* **Interrupts.** They nest in any order on two stacks; the frame is in memory
  that kernel code can write.
* **Two interpreters.** The same program runs as a list of instructions or as
  bytes, through separate code, and must do the same.
* **Arithmetic.** Flags at the ends of the range, and the order of two words told
  from flags.
* **Executables.** Files may be cut or damaged, and sections may end exactly where
  another region begins.
* **System calls.** Ranges the guest chooses, several effects of which one may
  fail, a tree that is stored as a flat map.
* **Trace and verifier.** Events are attributed after a step that may have
  switched processes, and explained afterwards from two snapshots; stored traces
  may be incomplete.
* **Debuggers.** "Skip the breakpoint I stand on, once" while other processes run,
  points are edited and the selected process is not the running one.
* **Serial bridge.** Timeouts race with late answers; messages have no number;
  writes may be cut; opening the port may reset the device.

The full list of hazards, each with its line and the properties that cover it,
is in `PROJECT.json`.

## 2. Modules

```
GuestMachine ----> IsolatedMachines              (what a process is promised)
     |                  ^ refinement
     +--> ProcessRuntime <-- RoundRobin
              |        \
              |         +--> ProcessRuntimeProofs
              +--> MultiProcessRunner --> MultiProcessRunnerProofs
              +--> MultiProcessDebugSession ----+--> DebugSessionProofs
                              DebugSession -----+
BinaryFormat   --> ProcessImage --+              (file, image, process)
                   ProcessTable --+--> ProcessTableProofs
ALU            --> ALUMachine ----------------------------------------------------+
ALU            --> InstructionSet --> Execution --> BinaryExecution --> TraceEvents --> ExecutionProofs
ProtectedCPU   --> ProtectedCPUProofs
ZeroFS         --> ProtectedSyscalls --> ProtectedSyscallsProofs
Json           --> TraceJson --> TraceDiff
Json           --> DebugSnapshotJson
SerialHardware --> SerialHardwareProofs
MC*            instances for TLC
```

Some MC modules put related specifications next to each other: `MCProtected` (the
protected CPU, the system calls), `MCExecution` (programs, single ALU operations),
`MCProcesses` (executables, the table), `MCMultiProcessDebugSession` (a session of
several processes, a session of one), `MCExchanges` (traces, snapshots, the serial
bridge). The variable `subject` is chosen at the
start, and only the specification it names takes steps; a property of the run is
the property of one of them, or the conjunction where both have it. Some proofs about
such a pair extend the MC module, so that a theorem speaks of the very specification
and property that the run checks; what the MC module defines for TLC (sets of
programs, contexts and the like) stands there for constants that the proofs leave
open.

### GuestMachine, RoundRobin, ProcessRuntime

`GuestMachine` is what one instruction does to the machine of one process: a
program counter, one register and one word of memory, enough to tell whether a
context switch loses or mixes something. Registers that a service overwrites
(R0, R1) are that one register; other registers and memory words travel the same
way. `Exec` returns the new context and an outcome: `ok`, `exit` (the exit
service), `done` (end of the code, found by the runner), `fault`, or `wedge`, the
failed return of a host service that leaves the kernel stack active.

`ProcessRuntime` has one action per result of a call of
`ProcessLifecycleManager::step`; all it calls is part of that action.

| Variable | Code |
|---|---|
| `pstate`, `saved`, `result`, `runningPid` | `ProcessTable` and its PCBs |
| `lastSelected` | `RoundRobinScheduler::last_selected_pid_` |
| `cpu` | the CPU: whose executable it holds, context, halted, error, kernel stack |
| `ticks`, `pending` | `TimerDevice`, timer requests in `InterruptController` |
| `phase`, `thrown` | `ProcessLifecycleManager::state_`; an exception left `step` |
| `host` | the device behind the host services, the one thing processes share |

| Action | Code path |
|---|---|
| `Start` | `start`: first dispatch, or nothing to run |
| `PreemptBeforeStep` | a request already pending is served, no instruction runs |
| `StepAndContinue`, `StepAndPreempt` | an instruction, with or without the end of the quantum |
| `StepAndTerminate` | exit, completion or fault, hand-over or end of the run |
| `StepThrows` | any of the checks on contexts throws |

`Driver` tells two callers apart: `"runner"` halts a process at its code's end
and discards its timer request; `"direct"` only calls `step`, and a process
running over its end faults.

`IsolatedMachines` is the abstract specification: each process owns a machine and
steps it; there is no CPU and no scheduler. `ProcessRuntime` implements it under
the mapping `Machine`: the Running process's machine is in the CPU, the others'
in their PCBs.

### ProcessTable

The table on its own, under every call in any order, host calls included: creation
from a context, from a CPU that may be on the kernel stack, from an image; updates
of contexts and memory; transitions; the forms of `terminate` and `fault`. A call
that throws changes nothing, because the code stages copies, so its checks are
guards. `ContextValid` and `SpaceValid` are the validation of
`ProcessContext.cpp` and `ProcessAddressSpace.cpp`, and `LiveStaysValid` says that a
process that has not ended keeps passing them. It does not say that its dispatch
succeeds: `updateContext` accepts any non-empty code range, and the dispatcher
(`ProcessDispatcher.cpp:64`, `CPU.cpp:346`) compares the range with the executable
it loads, of which the table knows nothing. A host that stores a context with a range
of its own making has the next dispatch refused. For the processes of the runner, whose
contexts come from images and from the CPU, `ProcessRuntime` shows that it never is.

### BinaryFormat, ProcessImage

The header byte by byte in both versions and both byte orders, with a smaller byte
(`Radix`) and instruction. One behaviour writes a program, may damage the file
(one byte, one byte less, one more), reads it, places it in memory and creates a
process. `Executables` is the type of a `BinaryProgram`: sections of any length, header
fields that fit in a word of four bytes. Every check that throws is a conjunct of a predicate (`HeaderValid`,
`MetadataValid`, `ImageValid`, ...).

### ALU, ALUMachine

The operations of `ALU.cpp` for words of any width. `mulSignedOverflow` goes through
`long double`, modelled with its number of mantissa bits: 64 with GCC on x86, where
a word is exact, and 53 with Visual Studio, for which the repository is written. There
a product just beyond the range does not set the flags (finding 5). `ProductIsNear`
says what holds with either: no false alarm, and no silent product that is beyond the
range by more than four parts in `2^Mantissa`. `MantissaAssumption` is what C++
grants: ten decimal digits are more than half the bits of a word. The bitwise operations are digit by digit (`Digit`,
`FromDigits`), as are the bytes of a word in memory; both are recursive functions of
the number of digits, so that they can be reasoned about.

### InstructionSet, Execution, BinaryExecution, TraceEvents

Operands, instructions, their bytes, and the two interpreters with all checks on
operands, addresses, targets, privilege and stacks. A program is run in both forms
in step; self-modifying programs end the comparison (`TouchesCode`), since only the
binary form can execute what it wrote. `TraceEvents` derives what `TraceEvent.cpp`
says of a step from the states before and after it, and both printed forms.
The code takes the value of a PUSH and the return address of CALL and INT from a list
of changed bytes, so `DetailIsTrue` claims of PUSH and CALL that the value shown has
the lowest byte of the word, and nothing of INT. `PushIsExplained` states the whole
word, as the documents do (finding 4).

### ProtectedCPU

Privilege, stacks and frames. Guest code is arbitrary: at each step any
instruction may come next, with operands from small sets, so what is shown holds
for every program over them. Memory is counted in 8-byte slots, hence a misaligned
stack pointer in a forged frame appears as one of the words that are refused.
Requests name the handler their vector leads to; masked vectors and vectors
without a handler are left out. `Disciplined` restricts Kernel-mode code to what
a correct handler does (pops what it pushed, returns with `IRET` at the place it
was entered, does not store into the stacks); with `Disciplined = FALSE` it may
do anything, forged frames included: that case is proved, not run. `frames` is a
history of suspended contexts.

### ZeroFS, ProtectedSyscalls

`ZeroFS` has the operations on the map from normalized paths to nodes, each with
the map it leaves and its error. `ProtectedSyscalls` has INT 80 with the services
for exit, hardware and files: a request block, a path and a buffer lie anywhere in
or across the user data, and one cell holds what a field or a byte holds. Where a
field has to lie at a multiple of eight, `Aligned` says which cells these are.
A device that throws may have executed the write before (over the serial line, an
answer that was lost), so `HardwareWrite` with the failure status leaves the
register old or new.
`SyscallAssumption` says that `normalizePath` yields a sequence of names for every
path it does not refuse; what it computes is a fold over the components, which TLC
checks on the paths of the run. `Found` is what a walk by listings reaches from the root within n
levels; `ListingsFindEverything` says that a walk reaches every node.

### Json, TraceJson, TraceDiff, DebugSnapshotJson

Documents as sequences of tokens, written field by field as the writers do, with
their commas, and read by the parser of `TraceJsonDiff.cpp`. Indentation is left
out; escaping is modelled by what it does. `TraceDiff` has the schema checks, the
reduction to architectural fields and the comparison; some records differ from the
others in each of their fields. `Losing` drops a record from any list. The reader has
a count to compare for events and processes; it never compares `violation_count` with
the violations, so a trace that lost one of these is accepted, and `TraceDamageNoticed`
says that it is then different from the undamaged one. In `DebugSnapshotJson` a
session of one or several processes is loaded, gets symbols and points, steps and is
exported with options, over an existing file or not; lists have up to two items, so
that there is a comma between them.

### MultiProcessRunner

Adds the records of `runImages` and its counters, with its step limit, and
`MultiProcessInvariantVerifier::verify` as the predicate `Verify`, which rebuilds
the timeline of running PIDs from the two traces as the code does.

### DebugSession, MultiProcessDebugSession

Points, stops and the loops of the commands. A pass of a loop is one action, so the
state between two steps of a `continue` is visible, as it is to the session itself.
In `DebugSession` the commands of `DebugConsole` and `StudioDebugBackend` load
executables with and without symbols at any time and edit points; a word has two
bytes, so that a watched range can overlap an access by one. Points with ids are
sets, and where several hold at an address the session reports the one with the
least id, as the loops over the code's vectors do. A step that leaves the code is
refused by the CPU, as a jump out of it is. `loadFile` throws when
the symbol file cannot be read, and by then the image is loaded. In both sessions
only LOAD and STORE have a memory detail, so a watchpoint does not see the words
that PUSH, CALL and interrupts write; the properties speak of LOAD and STORE.
In `MultiProcessDebugSession` each executable address is one source line when it is
in `Mapped`. After an exception the session is over. Its `NoMissedBreakpoint`
exempts an instruction that jumps to itself (an unconditional jump, or a conditional
one that is taken): `refreshResumeSkip` compares PID and
address only and cannot see that it was executed. `DebugSession` needs no such
exemption.

### SerialHardware

The host's bus and transport, the line, the driver's buffer and the firmware.
Messages are whole lines of kind, register and value; `id` is a history and is not
in the protocol. Modelled failures: a write that fails before, within or after a
line; a timeout; a read error; a line lost or damaged beyond parsing in either
direction; a half line joined to the next request; reconnecting with answers still
under way; a device reset by opening the port. A timeout in the middle of a line is
the damage of that line followed by the timeout. Damage that yields another valid
message is not modelled: the protocol has no checksum, so nothing could be said.

`dirty` records that a transaction was abandoned. `transact` neither purges the
buffer nor numbers its requests, so from then until a clean reconnect an answer
may be taken by a later request. The documentation promises nothing else; the
properties say exactly how far the guarantee goes (`~dirty`) and what holds in
any case (order, no answer and no write used twice).

## 3. Runs

| Run | Instance | States | What it shows |
|---|---|---|---|
| `runtime` | 3 processes, 8 programs, any subset blocked, bare `step`, quantum 2 | 25,882 | the inductive invariant, the one reason for an exception, classification of the end, round robin, refinement of `IsolatedMachines`, no starvation |
| `runtime_wedge` | the same, as the runner drives it | violation | finding 1 |
| `runner` | 3 processes, 14 steps | 3,638 | the verifier accepts every prefix of every run, traces account for the machines, no inherited request, preemptions are paid for |
| `processes` | 3 PIDs, contexts on and beside each border; files of a few bytes, damaged in every single byte | 401,005 | files read back, accepted images start, the table stays consistent, an end is final |
| `execution` | 4,933 programs of up to 4 instructions in 2-byte words; ALU operations on 14-bit words around the powers of two, a long double of 11 bits | 85,882 | the interpreters agree, traces replay and are true, values, flags and order are right |
| `trace_branch` | the same | violation | finding 3 |
| `trace_push` | the same | violation | finding 4 |
| `product_overflow` | the same | violation | finding 5 |
| `protected` | the CPU: user stack 1, kernel stack 9 slots, 7 steps; the services: 4 names, files of up to 3 bytes, a window of 8 cells | 1,053,683 | interrupts are transparent, two levels deep and with one that does not fit; the tree, listings, what calls write, what failed calls leave |
| `debug_session` | 2 processes with 4 programs, or 1 with 6; 2 points, limits up to 2 | 288,442 | breakpoints neither missed nor repeated, watchpoints, source steps, every command returns |
| `debug_source_start` | several processes, breakpoints only | violation | finding 2 |
| `exchanges` | two runs of up to 2 records; sessions with up to 2 items in a list and every combination of options; 4 requests to registers pwm, gpioIn, command | 81,750 | comparisons are exact, damaged traces are refused or differ, snapshots are readable; answers, confirmed writes, order, termination |

Why the bounds are enough. Three processes are the least for which round robin can
pass over a Ready one; the programs between them loop, fall off their end, jump to
the end, exit, fault and use services in first, middle and last place; a quantum of
2 ends at, before and after each of these. Fourteen steps let three processes of
three instructions finish, and looping ones be preempted repeatedly. Three PIDs
include the last one and what comes after it. A radix of 4 keeps headers to a few
dozen bytes and still lets every field be wrong. The programs of `execution` use
every opcode with every shape of operands, at the borders of each region of memory;
14-bit words have the edges of 64-bit ones, and 11 bits of a long double are to them
what 53 are to 64: fewer than a word has, more than half of it. Nine kernel slots hold two frames and a
word, so a third nested interrupt is refused. Eight cells hold a request block, a
path and a buffer side by side, and blocks that reach out of the window. Two records
are what it takes to lose one and to differ in the second, and two items what it takes
for a comma between them. Two points are what it
takes for a breakpoint and a conditional one, or a watchpoint, at the same place.
Four requests are a handshake, an abandoned request, and two that can meet its late
answer.

Deadlock is checked except where a behaviour has an end: executions, and the path of
an executable to a process. A document, once written and read, stutters.

Fairness. `runImages` and the debuggers' commands are loops over `step`, so weak
fairness of the next-state relation (of the loop's pass in the debuggers) is the
loop itself. For the serial bridge only `WF(Timeout \/ Receive)` is assumed:
`ReadFile` returns within the configured timeout. Nothing is assumed of the line or
the device, which may be silent forever.

Each property has a mutant: a plausible error in one mapped definition, written
before it, under which TLC finds that property violated.

## 4. Proofs

Proved for every value of the constants, under the named assumptions of the
modules: types, non-zero sizes, borders in order, and for the filesystem the one on
`normalizePath` above. TLC evaluates the assumptions on every run.

**The process runtime** (`ProcessRuntimeProofs`)

* `RuntimeInvariant`: `Spec => []RuntimeInv`. That one process is Running is not
  inductive by itself: that the next dispatch is accepted needs `ReadyIsDispatchable`,
  that the executed code is the Running process's needs `CpuHoldsRunning`, and that
  the saved program counter is in the code needs `CursorFollows`, which bounds the
  live one. The argument is one lemma on what any dispatch establishes
  (`DispatchedInv`) and one case per action.
* `RuntimeNeverThrows`: an exception leaves `lifecycle.step` only when the Running
  process ends in a returning service (finding 1).
* `RoundRobinApproaches`: each selection that passes over a Ready process strictly
  shortens the cyclic distance to it, so at most `NumProcs - 1` do. This is the
  measure behind `NoStarvation`.
* `RuntimeIsolates`: the runtime implements `IsolatedMachines` (safety part),
  exceptions included.
* `RunEndsClassified`, `NoTimerRequestInherited`: from the same invariant. A timer
  request cannot outlive the process it was raised for because every way out of the
  CPU either serves or drops it.

**The runner and its verifier** (`MultiProcessRunnerProofs`)

* `TraceIsComplete`: the records account for the machines step by step (`TraceInv`).
* `PreemptionsPaid`: a preemption costs a full quantum (`QuantaArePaid`: instructions
  since the last switch and the timer's ticks agree).
* `VerifierNeverRejects`: `MultiProcessInvariantVerifier::verify` accepts every prefix
  of every run. Its timeline is a recursive function of the number of records
  (`TimelineOf`); what it computes for a longer trace follows from an argument by the
  least number of records at which it would differ.

**The process table and the way into it** (`ProcessTableProofs`)

* `TableStaysConsistent`, `EndFinal`: for any sequence of calls to the table.
  `TableConsistent` becomes inductive with the types of control blocks alone: that the
  next PID is above all PIDs in use, or 0 with the last one used, is part of it, and so
  are the checks of a live process's context and memory that the table itself makes.
* `FilesAreFaithful`: the reader and the writer are inverse to each other, for bytes of
  any radix from 4 on, sections of any length, both versions and both byte orders. The
  core is one equivalence per part of the file: the parts that the writer concatenates
  stand at their offsets (`HoldsBoth`), and a number is read at an offset exactly where
  its four bytes stand there (`WordAt`, from uniqueness of quotient and remainder). Both
  directions of the property are the two directions of it.
* `ImagesAlwaysStart`: every check that process creation repeats follows from those of
  `loadProgram`; a whole instruction is left at the entry point because entry point and
  code size are multiples of the instruction size.

**The protected CPU** (`ProtectedCPUProofs`)

* `StacksStayConfined` for any guest, forged frames included; `FramesSurvive`,
  `KernelStackReturns`, `InterruptsResume` for disciplined handlers at any nesting
  depth; `HostServicesReturn`. The invariant `ProtectedInv` adds `FramesNested`: frames
  lie on the stacks in the order of the interrupts, only the first can be of User mode,
  and the kernel stack is in use exactly when it is.

**ALU, interpreters and trace** (`ExecutionProofs`)

Every set of programs, every layout of memory and every width of words and bytes, under
the assumptions of `ALU`, `InstructionSet` and `Execution`: a word is a whole number of
bytes and of bits (`HalfAssumption`, `ByteAssumption`); operands have the ranges of their
C++ types (`ProgramAssumption`); as the assembler gives it, a label is at most the length
of the code, and an address is parsed as a word (`AssembledAssumption`,
`src/assembler/Assembler.cpp:822`, `:1030`); a run is shorter than the largest word
(`StepsAssumption`, needed because a load from the output device yields the number of
words put out).

* `ComparisonCorrect`, `CarryCorrect`, `SumsCorrect`, `DivisionCorrect`, `ProductsCorrect`,
  `BitsCorrect`, and together `ArithmeticCorrect`: SF and OF after a subtraction give the
  signed order of its operands, CF of an addition or subtraction is the carry or borrow,
  OF says that the true sum or difference is not a word, values are right modulo
  the word, division truncates towards zero, and the bitwise operations fit the
  arithmetic. Of products, `ProductIsNear` holds with every long double C++ allows, 53
  and 64 bits included. One operand of a product that is a word has at most half its
  bits, so by `MantissaAssumption` it is converted exactly, and the other one changes by
  one part in `2^Mantissa` at most (`RoundingError`); a number rounds beyond the range
  only if it is beyond it by more than that part (`RoundsBeyond`), so there is no false
  alarm. The other way round, two rounded operands and the product add up to at most
  four such parts (`MissIsSmall`).
* `TraceInvariantHolds`: both CPUs stay in `CPUs(count)`, the type of a state in which at
  most `count` words were put out, and each recorded event leads from one such state to
  another and is true. `TraceIsTrue` alone is not inductive, nor is the type without the
  bound on the output. The work is one lemma per kind of instruction and
  interpreter, and the round trip of a word through its bytes
  (`WordRoundTrip`).
* `LinesCorrect`: a printed line and the state before it give the state after it, since
  the filtered lists of changes (`Selected`) hold exactly what differs.
* `TraceCorrect`: the details are what the CPU did, as far as `DetailIsTrue` goes:
  branches on flags without overflow, the lowest byte of a word that PUSH or CALL put on
  the stack. Findings 3 and 4 are the rest.
* `FormsCorrect`: for every program without CALL, RET, INT and IRET, as long as it does not
  touch its code, the interpreter of instructions and that of bytes agree on registers,
  flags, stack, data, output, privilege and program counter after every step. Equal states
  are not an invariant: a jump to the end of the list is accepted by one form and refused by
  the other. `FormsInvariant` says that the two are at the same instruction (`Agree`) or in
  that one situation (`Stuck`). It rests on the decoder undoing the encoder for every
  encodable instruction, and on the image in memory being what was loaded while `apart`
  holds.

The provers cannot instantiate the library's induction schemes. `Induction` and
`Recursion` state them over sets and functions instead, which are first-order, and prove
them from the well-foundedness of `<` on the naturals; each recursive function of the
model is then shown to solve its recursion.

**System calls** (`ProtectedSyscallsProofs`)

* `FilesystemStaysTree`, whatever host and guests do, failures half way included.
* `SyscallInvariant`: the invariant is the type of nodes, memory and devices together
  with the tree.
* `GuestStaysInRange`: no call shortens a file or changes a byte of one outside the range
  that FS_WRITE named, nor a byte of memory outside the buffer of FS_READ or FS_STAT.
* `FailureIsHarmless`: a call that fails changes no result register and no byte of a
  file; all it may have done is grow a file by zeros, or, as a HARDWARE_WRITE whose
  device failed, set the register it named to the value it gave.
* `ListingsComplete`: a walk by listings finds every node. `Found` is recursive in the
  depth; a node that is not found and has the shortest path leads to a contradiction
  with its parent, and the bound on the depth is the number of nodes.

**Debug sessions** (`DebugSessionProofs`)

* `BreakpointsAreHonoured`, `WatchpointsAreHonoured`: no instruction at a breakpoint
  runs unreported, in the session of several processes and in that of one, up to the
  exemption of §2; no watched access goes by.
* `ResumingProgresses`: a process that was reported at a breakpoint is not reported there
  again before it has executed the instruction, whatever comes between; `SourceStepsAlwaysMove` for source steps. The
  invariants `DebugInv` and `OneInv` say that the skip is set exactly while the last
  stop is where the CPU still stands.

**Serial bridge** (`SerialHardwareProofs`)

* `SerialInvariant`, `TransactionsMatch`, `ConfirmedWritesHold`: while nothing was
  abandoned the line holds one message at most, of the request in progress, and an OK
  under way means that the register has the value.
* `TrafficStaysInOrder`: abandoned or not, no answer and no write is used twice or out
  of order. `OrderInv` says that the numbers rise along the whole way, from the buffer
  of the driver over the line to the device, between what was used and what was sent.

Only model-checked, and why:

* `NoStarvation`, `CommandsReturn`, `TransactionsEnd` are liveness under fairness.
* `TracesCompared`, `TraceDamageNoticed`, `SnapshotsReadable`: writer, parser and
  comparison of documents are recursive operators.
* `FormsAlwaysAgree` for programs with CALL, RET, INT or IRET. These save code addresses,
  an index in one form and a byte address in the other, so a program that computes with a
  return address it popped tells the two apart: the property does not hold of every such
  program. TLC checks it for those of the run, which only return.

Of the 40 properties that passing runs check, 34 are stated by a theorem.

## 5. Findings

1. **`runtime_wedge`.** When a returning INT 80 is the last instruction of an
   executable, `restoreInterruptFrame` refuses the return address after the
   service ran and the CPU stays on the kernel stack; `captureProcessContextSnapshot`
   then throws out of `lifecycle.step`, and no other process continues
   (`src/core/CPU.cpp:615`). `docs/architecture.md:132` says that a faulted process
   is terminated in isolation.
2. **`debug_source_start`.** `stepSelectedSourceLine` computes the skip of its
   starting breakpoint anew after every step, so a breakpoint there is ignored on
   every pass of an instruction that jumps to itself
   (`src/debug/MultiProcessDebugSession.cpp:1114`); the comment at line 1008 says
   "once".
3. **`trace_branch`.** The trace decides JG and JL without the overflow flag
   (`src/trace/TraceEvent.cpp:338`), the CPU with it: after a CMP that overflows, a
   branch that was taken is shown as not taken, with its target as the fallthrough.
   `docs/semantics.md:479` says that both flags are used.
4. **`trace_push`.** The trace replaces the value of a PUSH by the first byte that
   changed at its slot (`src/trace/TraceEvent.cpp:1341`), so a value of more than a byte
   is shown as its lowest byte. The return address of CALL (lines 1386, 1503) and of INT
   (1557) is taken in the same way, and left out where that byte did not change.
   `docs/v0.3-stack-trace-detail.md` lists "pushed value" (line 93) and "return address
   pushed onto the stack" (110), with 656 as an example (149);
   `docs/v0.3-control-flow-trace-detail.md:103` asks "What return address was saved?".
5. **`product_overflow`.** `mulSignedOverflow` compares in `long double`
   (`src/core/ALU.cpp:49`). Where that has 53 bits, as in Visual Studio, which
   `README.md:298` asks for, `2^32 * 2^31` is not greater than the largest word
   converted, and neither flag is set. `docs/semantics.md:348` says that both are set
   when a signed multiplication overflows.

## 6. Not modelled, and the plan

* The **assembler** is text processing; programs are modelled from the `Instruction`
  on, where its output begins.
* **Studio's window and the command line tool** are the largest files and hold no
  protocol of their own: they parse, draw and call the modelled parts. The same goes
  for the parsing and printing of the consoles, the inspector's listings, the parser
  of conditions and the dumps of the CPU state.
* The **Bio OS runner** and the **showcase** assemble, run and report in a straight
  line. The **mocks** are test doubles.
* **Vector masks, handler tables and the timer's registers on the bus** are partly
  left out: a request names its handler, and the timer is on.

Open: `FormsAlwaysAgree` for programs that use return addresses only to return, which
takes a relation that says which words of the stack are code addresses; documents as
recursive functions instead of recursive operators, so that reading back what was written
can be proved.

## 7. Running it

`tlc -config X.cfg MCModule` for the pairs in `PROJECT.json`, and `tlapm M.tla` for
the modules whose name ends in `Proofs`. The longest of them, `ExecutionProofs`, takes
about ten minutes.
