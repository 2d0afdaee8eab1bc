# A verification development for x86Simulator

x86Simulator assembles a small subset of x86 assembly in two passes, loads the
machine code into a simulated memory, decodes it, translates each decoded
instruction into an intermediate representation (IR) and executes that, with a
terminal user interface or headless. This directory holds TLA+ models of that
program, TLC configurations that check them on small instances, and proofs for
TLAPS. Everything is translated from the C++ sources in `src/`; where a
comment, a header or a test was found to claim something else of what is
modelled, a run shows the difference.

## The system

| Component | State | Operations | Hard behaviour | What makes it correct |
|---|---|---|---|---|
| Assembler passes (`x86_simulator_input.cpp`, `parser_utils.cpp`) | program lines, three location counters, symbol table | `firstPass`, `secondPass` | the first pass sizes a line with a half-filled symbol table, the second generates it with the whole one; errors in the middle | labels stand where the code is; storage does not overlap |
| Code generator (`CodeGenerator.cpp`, `operand_parser.h`) | machine code, its own address | `process_line` | branches that emit bytes and do not count them, or stop halfway | displacements lead to instructions |
| Decoder, program decoder (`decoder.cpp`, `program_decoder.cpp`) | the decoded program and its address index | `decodeInstruction`, `decode` | lengths are computed independently of the generator; length 0; reading past the end | the sweep finds the generated instructions and ends |
| Run loop (`x86_simulator_state.cpp`, `x86_simulator_core.cpp`) | rip, registers, flags, running | `runProgram`, `runSingleInstruction`, `executeInstruction` | rip unchanged means "no branch"; two modes test for the end at different places | a program does what its lines say; it ends |
| IR translation and executor (`x86_to_ir.cpp`, `ir_executor_helpers.cpp`, `register_map.cpp`) | registers, flags | one handler for each opcode | operand sizes, carries, unsupported conditions, exceptions halfway | results and flags are those of the arithmetic |
| Memory (`memory.cpp`) | one byte vector, segment bounds | reads, writes, `reset` | no limit on the stack; 64-bit sums in the bounds check | nothing is written outside the vector |
| System bus (`system_bus.cpp`, `main.cpp`) | processes, the file system device | `load_configuration`, `run`, destructor | an exception anywhere passes `main` and no destructor runs; all processes are loaded, the first runs | all or nothing runs; only a finished run saves |
| File system device (`file_system_device.cpp`) | a tree, mirrored in a JSON file | create, append, load, save | two devices on one file; a save cut short | what was saved is found again |
| User interface (`ui_manager.cpp`) | scroll offsets, view settings, what each window was drawn with | one per key, drawing, tear-down | each key redraws some of the windows; labels take rows; an empty program is stepped once | while a key is awaited the screen shows the state |
| Vector arithmetic (`avx_core.cpp`) | - | lane-wise operations | operand order, NaN, aliasing of the operands | each lane is the formula's |
| Legacy handlers (`x86_simulator_private_helpers.cpp`) | registers and flags | the handlers the IR replaces | the same operation written twice, with other flags | where both exist, they agree |
| Database log, descriptions and formatting | - | - | - | not modelled, see below |

Interaction is by calls in one thread: the bus builds a simulator for each
process and calls `loadProgram`, `firstPass`, `secondPass`; the second pass
calls the generator and the program decoder; the run loop fetches from memory,
calls the translator and the executor, and shares registers and memory with
both; with the user interface the run loop draws, waits for a key and takes a
step in turn. Simulators, and other programs with a device of their own,
interact through the persistence file only; the dump files are written and
never read.

## Modules

**Assembler.** `InstructionSet` holds the tables both sides of the machine
code depend on: for each form of instruction the generator tells apart, the
number of bytes emitted, what is added to `current_address_`, and the length
the decoder finds. `Assembler` is one load: each action is one iteration of
`firstPass`, of the generator's loop or of `ProgramDecoder::decode`, errors
included (unknown section, a count that is no number, full data segment, text
too long, read past the end, zero length). A line is a record of what sizes and symbols depend on;
tokens are not characters. `placed` is a history variable: where the first
pass put each line. `AssemblerProperties` states the promises and the
conditions on a file (`WellOrdered`: all code in .text, memory operands refer
to symbols of earlier lines). `MCAssembler` lists the source files to load.

**Simulator.** `Simulator` extends `Assembler`: after the load, `runProgram`
runs, one action for each handler an assembled program can reach. Control is
exact (rip, flags, return addresses on the stack, both modes of the loop), and
`esp` is the low half of rsp. Of memory only the return addresses are kept, as
nothing separates the stack from the segments below; a load from memory yields
any word. When rip is no longer at an intact generated instruction, the code
goes on decoding and executing whatever bytes are there. The model calls such a
run `astray`: from there it may go on, end, fault or write outside the memory
(`Stray`), and the registers and the stack keep the values they had when it
left the generated code. Nothing is claimed of what it does with them. `SourceMachine` is the abstract specification: source lines run in
order, labels are lines, calls remember lines; no addresses, bytes or symbol
table. `SimulatorProperties` instantiates it under a refinement mapping that
turns addresses into lines, and says which files are `Regular`, that is,
within what is encoded and executed as written. `Words` and `Bits` are
machine arithmetic, with powers of two and bitwise operations written as
tables so that they can be proved about; `MCSimulator` lists the programs.

**Executor.** One call of `execute_ir_instruction` from any registers and
flags: arithmetic, logic, shifts, division with its divide error, moves,
`inc`, `dec`, `mul`, `imul`, the packed operations on two vector registers,
and opcodes without a case, in the four operand sizes. Undefined C++ (a shift
by 32 or more) is a nondeterministic result. `Vectors` holds the lane loops of
`avx_core.cpp`; what the floating-point unit rounds to is a constant operator,
kept as a term. `ExecutorProperties` compares with integer arithmetic.
`LegacyHandlers` translates the 32-bit handlers of
`x86_simulator_private_helpers.cpp`, among them rotations, signed division and
the conditional jumps the IR does not have yet, and states where old and new
agree.

**File system device.** `FileSystem`: devices, each with its tree, on one
persistence file; load in the constructor, save in the destructor in two steps
(truncate, write), crashes between any two steps, overlapping saves, and a file
that exists but cannot be opened, which counts as absent (`LoadUnopened`) or
leaves nothing saved (`SaveNowhere`). `FileStore` is the abstract specification
(texts by file, a view for each open client, which may have been opened blind);
`FileSystemProperties` gives the refinement mapping.

**System bus.** `SystemBus` extends `FileSystem`: each simulator goes through
`main`, from the construction of its device over `load_configuration` and
`run` to the destructor; an exception at any point terminates it without
saving, and a kill may come at any time. The other devices belong to programs
that use the file system directly. A step of a simulator composes a step of
its device with one of the bus. The dump files of a process are left out:
nothing reads them, and one that cannot be opened is passed over.

**User interface.** `UserInterface`: `runProgram`'s loop with `UIManager`, one
action for each key. A window is a record of everything its text depends on,
so that a stale window is a difference between two records. Instructions are
indices; a step moves rip anywhere, as the processor is modelled elsewhere.

## Runs

| Run | Module | What it shows |
|---|---|---|
| `passes` | MCAssembler | `TypeOK`, `LabelsMeetCode`, `ControlMeetsInstructions`, `LabelInvariant`, `StorageIsDisjoint`, `SweepFindsInstructions` and, under fairness, `LoadEnds`, for every file of up to five code lines (labels, a datum, sections in any order), of up to four storage lines, and of all pairs and many triples of instruction forms, truncated ones included |
| `programs` | MCSimulator | of regular files `RunsAsWritten`, load and run implement `SourceMachine`, and `HeadlessEnds`; of these and of others, calls that fill the memory included, `RunTypeOK`, `ControlStays`, `NeverWraps`, `WrapInvariant` |
| `executor` | MCExecutor | every operand value: `RegisterParts`, `ArithmeticExact`, `ShiftsRepeat`, `ShortShiftsRepeat`, `DivisionExact`; every pair of lanes: `PackedExact`; the handlers the IR replaces: `MigrationAgrees`, `JumpsDecide`, `RotatesRepeat`, `IdivExact` |
| `store` | MCSystemBus | a simulator and another program on one persistence file: `StoresTexts` (the refinement), `SizesCount`, `StaysUnreadable`, `RunsAllOrNothing`, `SavesAfterRun` |
| `ui` | MCUserInterface | all sequences of keys and steps: `ScreenShowsState`, `CurrentIsShown`, `NothingScrollsOut` and, under fairness, `EndTearsDown` |
| `order` | MCAssembler | violation: with .data behind .text, labels are not where the code is |
| `sameline` | MCAssembler | violation: an instruction behind a label on one line is not generated |
| `bss` | MCAssembler | violation: symbols reserved with resw and resd share bytes |
| `selfjump` | MCSimulator | violation: a jump to itself falls through |
| `jge` | MCSimulator | violation: after a comparison that finds greater or equal, jge is not taken |
| `shl` | MCExecutor | violation: 1011 shifted left by two places does not set CF, as a test expects |
| `scroll` | MCUserInterface | violation: Down redraws the text for address 0 and does not scroll |

The last seven quote, in `PROJECT.json`, the comment, header or test that says
otherwise. The passing runs check the same operations under the conditions
that exclude these cases (`WellOrdered`, `Regular`), so that they say how far
the code can be relied upon. In `shl` the code is right and the test is not:
`ShiftsRepeat`, in the run `executor`, holds of it.

### Bounds

- `MaxLines` bounds files. A disagreement of the passes needs a line of
  another size, a label behind it and a branch: three or four lines, with room
  for a section directive or two.
- Segment starts are chosen so that both the files that fit and those that
  overflow occur (`DataStart` 14 to 40, `BssStart` 2 to 6 bytes later).
- In the runs of programs words have 2 bits (`WordSize` 4), immediates 1
  (`ByteSize` 2), so that carry, sign and cut-off immediates occur; the memory
  has 48 bytes, so that a few calls fill it down to the code; `AddressSize`
  128 keeps the wrap-around of 64-bit addresses. Nothing else is bounded: the
  state spaces are finite.
- Operand sizes 8, 16, 32, 64 are 3, 4, 5, 6 bits in `executor`: all values of
  both operands, and shift counts on both sides of the width. `Highs` keeps
  the values of rdx that a division distinguishes: none, those a quotient
  fits, those it does not, and the least signed dividend. Two lanes, one in
  each 128-bit half, words of 2 and integers of 3 bits; the floats are two
  numbers, both zeros and a NaN. `shl` has 6 bits for 32, so that the result
  of the test's shift fits, and nothing in the vectors.
- `MaxFiles` 2 and `MaxSize` 4 (files, lines and characters of a tree) with two
  devices: duplicates, empty lines, files in a subdirectory. One of the two is
  a simulator's, with configurations of up to two programs; the other edits.
- `ui`: a window of 3 rows for 20, 4 registers for 16, programs shorter than,
  as long as and longer than the window, without labels, with some, and with
  one on every instruction. Nothing is bounded: the state space is finite.
- Deadlock is checked except in `executor`, whose behaviour is one call, and
  in `ui`, whose session ends.

### Fairness

The simulator is one thread of straight-line code and loops, so `FairSpec` of
`Assembler` assumes weak fairness of the steps of a load, and `FairRunSpec` of
the steps of a load and of a headless run: a step that can be taken is taken.
With the user interface each step waits for a key, and nothing is assumed of
the user: `FairSpec` of `UserInterface` makes drawing, stepping and tear-down
happen, never a key. The file system and the bus claim no liveness.

## Proofs

Every invariant and action property of the passing runs is a theorem, and so
are the two refinements; the three liveness properties are checked by TLC only.
The theorems hold for all values of the constants that meet the assumptions of
their modules (`AssemblerAssumption`, `SimulatorAssumption`,
`ExecutorAssumption`, `VectorsAssumption` and those of the other components),
which say that segments are in order, that words have some number of bits, that
the four operand sizes are ascending and that there is a vector register.

`NumberProofs` holds what the other modules need of numbers: induction for sets
(`SetInduction`, `BoundedInduction`, from a least element of any set of
numbers), the existence of a recursive function (`RecursionExists`), division
and remainders (`DivideUnique`, `DivideShifted`, `DivideTwice`), powers of two,
the bits of a quotient and of a remainder, and `CombineBits`: the bits of
`Combine` are those of its table. So that the provers can reason about them,
powers of two are the recursive function `TwoTo`, and an operation on bits is a
table with the four values of two bits.

### Assembler

`AssemblerProofs` proves `TypeCorrect` (`Spec => []TypeOK`): each reservation
adds a natural number, each table lookup is within the tables.

It proves `PlacesAgree` (`Spec => []LabelInvariant`) and from it
`LabelsCorrect` (`Spec => []LabelsMeetCode`), for every set of source files,
every symbol set and every layout that meets `AssemblerAssumption`.
`LabelsMeetCode` is not inductive: it speaks of the state after the second
pass only. `LabelInvariant` says why it comes true:

1. `PassProgress` and `PlacedInOrder`: the history `placed` has an entry for
   each line passed and one more, starting at `TextStart`, in ascending order.
2. `SymbolsRecorded`: labels and data symbols of the lines passed are in the
   table, a text label with one definition at the place of its line.
3. `PlacedBySize`: in a well ordered file each line took the room it takes
   when all symbols are known. This is the crux: a memory operand's size
   depends on the table, but its symbol is defined by an earlier line
   (`SymbolsRecorded`), and all other forms have one size (`SizeIsFinal`).
4. `CodeAtPlaces`: the second pass emits each line at its place.

The step lemma has one case for each action of the passes; the walk of the
first pass is divided into lemmas on places, symbols and sizes. The other
promises of a load have an inductive invariant each:

- `StorageCorrect` (`StorageIsDisjoint`): behind each line of the first pass,
  the storage of every symbol recorded so far ends at or below the counter of
  its section, and counters never move back (`WalkStores`).
- `SweepCorrect` (`SweepFindsInstructions`): the instructions tile the text,
  each as long as the decoder will find it (`Tiled`), and the sweep stands at
  the start of one, having found those before it (`Swept`). `LengthsAgree` is
  the fact about the two tables: outside the truncated forms, the decoder's
  length is the generator's number of bytes.
- `ControlCorrect` (`ControlMeetsInstructions`): every address in the symbol
  table is the place of a line or outside .text (`SymbolsPlaced`); in a well
  ordered file every place of a generated line is the start of an instruction
  or the end of the code (`PlacesMeetStarts`, from `LabelInvariant`); and the
  generator's own address is the real one (`BranchesPlaced`), so displacements
  lead where the table says.

### Load and run

`SimulatorProofs` proves `CallsStayInMemory` (`RunSpec => []NeverWraps`) for
every file, layout, word size and address size that meets
`SimulatorAssumption`. `check_bounds` adds 8 to the address in 64 bits, so a
call with rsp 0 would write at 2^64 - 8, outside the vector. That no call the
generator emitted gets there follows from an invariant, `WrapInvariant` (theorem
`StackFillsDown`, with `TypeOK`, theorem `RunKeepsTypes`):

1. `CodeInText`: every instruction has a byte or more and lies within the text
   segment, which ends below `DataStart`; nothing runs before the load is done.
2. `StackFilled`: until the run is astray, rsp is a multiple of 8, and calls
   have written every slot from rsp to `StackBottom`.

When rsp is 0, every slot is written, the one that holds the first byte of the
call included (`CallFindsRoom`): that call is no longer there to be fetched.
This is all the theorem says. What is executed in its place is a return address,
and that can be a call again: with a call at 0x3E3 the bytes of its return
address, E8 03 00 00 00, are one to the next slot, and enough of them take rsp
below 0 and write outside the vector. The model has that end (`run` becomes
"undefined" while `astray`); it does not trace the bytes that lead there.

`ControlStaysInCode` (`RunSpec => []ControlStays`) composes load and run. Its
invariant, `CourseInvariant`, carries the invariants of the load up to the
start, then says that rip is at an instruction or behind the text: the next
instruction by `Tiled`, a target by `ControlMeetsInstructions`. A run goes
astray only at an instruction that a return address overlaps, and as every slot
written is at or above rsp, rsp has come down to the code. The property asks
that no branch leads past the address space: location counters have no bound
in the model, while in the code they would wrap at 2^64.

`SourceProofs` proves `RunTypeCorrect` (`RunSpec => []RunTypeOK`) and
`FilesRunAsWritten` (`RunSpec => RunsAsWritten`): that the load and the run of
a regular file implement `SourceMachine`. The types need `CodeOfLines`, every
instruction is that of a line of the file, because the handlers read their
operands from that line. The refinement rests on `SourceInvariant`, which joins
the invariants above with one of its own, `Assembled`: in a regular file the
second pass has emitted every generated line behind the one before it, and
given each branch the address of its symbol. While the file is loaded, the
mapping stays at the line the program will start with. From the start on:

1. `PlaceLine`: the address of a line is that of the first instruction at or
   after it, so `LineAt` undoes the placing of lines, and behind the last
   instruction it is the end of the program (`LineBeyond`).
2. `FetchedLine`: the instruction at rip is that of the line the source machine
   is at; the next address is that of the line after it, and a branch leads to
   the line of its label.
3. One lemma for each handler (`SourceMove` to `SourceSystem`): from those two,
   the handler's step is a step of the source machine on the same line, and the
   return addresses on the stack are the lines the source machine remembers
   (`CallsNow`).
4. What remains (a fault, the end, a key, going astray) is a step the source
   machine takes as well or does not see.

### Handlers

`ExecutorProofs` is about one call of a handler, for all widths of the operand
sizes, all operands and all contents of the vector registers. The inductive
invariant is `CallInvariant`: the types, `StartKept` (a handler finds the
registers and flags it is called with) and `Prepared` (those are of their
types). A property of the result is then shown of each handler's step.

- `ExecutorTypeCorrect` and `PartsKept`: what `Set` leaves of a register, from
  one fact about remainders by a size that divides another (`SizesDivide`).
- `ArithmeticIsExact` and `DivisionIsExact`: the carry, the sign and the
  quotient are those of the integers (`SignIs`, `CarryIs`, `ExactModulo`;
  a quotient is unique).
- `PackedIsExact`: lane by lane, from `CombineBits` and, for products, from
  congruence (`ProductCongruent`).
- `MigrationIsFaithful`: `CallsEndNew` says in closed form where each handler
  of the IR ends on 32 bits (`New`); a lemma for each opcode compares that with
  the handler it replaces. The only difficult ones are the products, where one
  side tests the high half and the other the whole, and the shifts, where one
  keeps the carry as the last bit out of a number of 64 bits.
- `JumpsAreDecided`: the flags of a comparison against the signed and the
  unsigned order of the operands (`Comparison`), then one case for each of the
  fourteen conditions. Because the new comparison leaves OF alone, the six
  conditions that look at OF are shown to hold exactly when OF was right
  already (or the operands are equal, for le and g).
- `ShiftsAreRepeated`, `ShortShiftsAreRepeated`, `RotatesAreRepeated`: the
  properties compare with a recursion, the shift or rotation by one. It is
  solved first: `ShiftedIs` and `RotatedIs` show, by `BoundedInduction`, that n
  steps give `Moved` and `RotatedBy`, a division or a product by `TwoTo[n]`
  (`MovedOnce`, `RotationStep`), which is what the handlers compute.
- `SignedDivisionIsExact`: a quotient cut off towards zero has a remainder of
  the sign of the dividend (`TruncatedDivides`), there is only one such
  (`SignedPartsUnique`), and a number in range is what its low 32 bits stand
  for (`SignedRemainder`).

### Interface, bus and files

`UserInterfaceProofs`, for every program, window height and number of
registers: `InterfaceTypeCorrect`, `ScrollingStaysInside` (centring clamps to
the last page), `ScreenIsCurrent` (invariant `Drawn`: every window equals the
view computed from the state) and `CurrentStaysShown` (the row of an
instruction is its distance from the first one shown plus the labels between).

`SystemBusProofs`: `BusImplementsFileSystem` shows that a step of a simulator
or another program is a step of `FileSystem` or leaves it alone, so whatever is
proved of the devices holds of the composition. `AllOrNothingRuns` follows
from an invariant that relates the stage of a simulator, the state of its device
and how much of its configuration is loaded. `SavedOnlyAfterRun` and
`UnreadableForever` are action properties: a file left unreadable by a save
stays so while no device is in use, each start throws, and only a device that
could not open the file at all gets past it, with an empty tree.

`FileSystemProofs`, for every set of devices, names and characters:
`FileSystemTypeCorrect` and `SizesAreCounts`, and `DevicesImplementStore`
(`Spec => StoresTexts`), the refinement. Sizes and texts are recursive
functions over the lines of a file, which exist by `RecursionExists`. For the
refinement, the text of a file is joined line by line: appending to the last
line or behind it extends the text by one character, a file behind another of
the same name is never found, and saving then loading returns the same texts.

### Only model-checked

`LoadEnds`, `HeadlessEnds` and `EndTearsDown`: liveness under fairness, which
is out of reach of the proof system. That the conditions of the conditional
theorems are met (`Regular` files, well ordered ones, operands for which an
operation is defined) is shown by the runs, which contain such files and
operands.

## Not modelled

- Byte values of machine code (lengths and destinations stand for them), the
  contents of data, numbers in the source text: sizes and control do not
  depend on them.
- Flags AF and PF, handlers with memory operands, `ret`: no assembled program
  contains them.
- Of `avx_core.cpp`, loads, stores, sets and extracts, which no handler calls.
- Of `x86_simulator_private_helpers.cpp`, which nothing calls, the stack,
  string, conversion and vector handlers; `INTEL_helpers.*`, a second copy of
  the IR handlers.
- The database log (`DatabaseManager.cpp`): rows written to an external
  database, with no state of its own; that `createSession` may throw is part
  of `SystemBus`.
- Descriptions and formatting (`instruction_describer.cpp`,
  `formatting_utils.cpp`): text. What they depend on is part of the windows of
  `UserInterface`.
- What a run does with bytes that are no generated instruction, beyond how it
  may end.
- The dump files, which nothing reads.
- The layout of the windows, and the parameters of a configured device, which
  the code records and never reads.
- Concurrency: there is one thread. Several simulators interact only as
  separate programs on the same files, and that is modelled.

## Plan

1. Assembler with the proofs of its promises - done.
2. Simulator against `SourceMachine`, and the composition proof - done.
3. Executor in all operand sizes, vectors, the handlers being replaced - done.
4. File system device and its refinement; system bus; user interface - done.
5. Proofs of every invariant, action property and refinement - done.
6. Left: memory operands and `ret`, once the generator encodes them.
