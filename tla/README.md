# Verification of Nova Studio

Nova Studio is a C compiler (NovaC), a bytecode virtual machine (NovaVM) and a
WPF workbench (Studio) around both. This directory holds TLA+ models of the
parts whose correctness depends on *sequences* of operations, TLC
configurations that check them on small instances, and TLAPS proofs of the
results that matter for every size.

Paths below are relative to the repository. Line numbers of every definition
are in `PROJECT.json` (`map`).

## 1. Inventory

| Part | Source | State | Operations | What makes it hard |
| --- | --- | --- | --- | --- |
| Guest heap | `native/src/nova_vm.c` 175-436 | block headers in VM memory, `next_allocation_id` | ALLOC, FREE, statistics, block list, init | boundary tags: each split or merge keeps the link of a third block; mistakes surface in a later call |
| Execution, debugger | `nova_vm.c` 437-948 | `pc`, `sp`, stack words, `call_frames`, `breakpoints`, resume latch, `halted`, `last_status` | step, run, add/remove/clear breakpoint, reset, load | two copies of the return addresses; a one-shot latch that outlives the call; faults without roll-back, resumed by the host |
| Event ring, console | `nova_vm.c` 130-174, 996-1010, `studio/MainWindow.xaml.cs` 1127-1219, 1336-1352 | `events`, `event_read`, `event_write`; console text | console store, poll, drain | bounded ring filled by up to 100 000 instructions before it is drained |
| Workspace | `MainWindow.xaml.cs` 157-596, 988-1007, `Services/NovaWorkspaceService.cs`, `Models/ProjectSourceFile.cs` | file list, texts, dirty flags, selected and active file, manifest; the disk | new, open, save, save all, add, rename, remove, edit, close | several writes per command, each may throw; objects replaced while a command holds one |
| Debug session | `MainWindow.xaml.cs` 1030-1380, 1432-1549, 1630-1785 | source map, symbols and functions shown, selected frame, the turns of a source step | run, step, step into, over and out, breakpoints by address and by line, frame selection, reset, compile | a command is many host calls; stepping composed of single steps and a final `nova_vm_run`; registers of waiting frames reconstructed from the stack |
| Preprocessor | `compiler/src/nova_compiler.c` 6946-8516, 8797-8834 | conditional stack, macro environments, include and event tables, visibility | scan of a file, replay of a header, visibility passes, second pass, parse order | every file is read twice, and a header only once for all its includers, by way of two tables with fixed capacities |
| Statements | `nova_compiler.c` 1975-2495 (parser), 4516-4840, 5264-5392, 6184-6766 (generator) | syntax tree; symbols, scopes, break and continue contexts, patch lists, labels; the emitted code | every kind of statement, goto, switch, static locals, promotion of a local whose address is taken | one pass with back-patching; the storage of a local changes after code was emitted; cleanup on every way out |
| Expressions | `nova_compiler.c` 1298-1651 (parser), 3417-3602, 3797-3820 (constants), 4583-5924 (generator), 7667-8034 (`#if`) | tokens, tree, temporaries, flags of the machine | parse, fold, emit, execute | three evaluators of one language; six temporaries; flags that other instructions overwrite |
| Declarations | `nova_compiler.c` 741-1297, 1695-1974, 2496-3416, 3603-3959, 8517-8710 | symbol, type and declaration tables | declare, merge, validate units | linkage across translation units, fixed capacities |
| Public interface, driver | `nova_compiler.c` 8710-9092, `compiler/cli/novac.c` | the last compilation of the process | compile, queries | results are valid until the next compile |
| Interop, disassembler, graph, views | `studio/Interop`, `studio/Services/BytecodeDisassembler.cs`, `studio/Controls`, XAML | display state | marshalling, decoding, drawing | no interesting sequences |

Interaction: Studio calls the compiler, resets the VM and loads the bytecode,
then drives it with run, step and breakpoint calls on its UI thread; after each
it polls events and reads registers, frames and heap. The VM executes the guest;
guest ALLOC and FREE work on the heap in the same memory the guest can store
into. The workspace gives the compiler its sources and keeps them on disk.
Nothing in the repository runs concurrently: what is interleaved are *calls* –
the host's with the guest's instructions, the user's with each other, and
failing writes and process ends with everything.

The hazards found in this code, each at its line and with the properties that
watch it, are listed in `PROJECT.json` (`hazards`).

## 2. Modules

    AllocatorSpec  <--implements--  NovaHeap  <--implements--  NovaHeapWords
                                       |                            |
                                  NovaHeapProofs  <--cites--  NovaHeapWordsProofs
    NovaRun  <--  StudioDebugSession  (its machine)       NovaImage  (its programs)
                      |
              StudioDebugSessionProofs  (of both)
    EventQueueSpec  <--implements--  NovaEvents  <--  NovaEventsProofs
    StudioWorkspace  <--  StudioWorkspaceProofs
    NovaPreprocessor  <--  NovaPreprocessorProofs
    NovaStatements  <--  NovaStatementsProofs  <--  NovaStatementsJumpsProofs
    NovaExpressions
    MCNovaHeap, MCNovaHeapWords, MCNovaRun, MCStudioWorkspace, MCNovaStatements,
    MCNovaExpressions, MCStudioDebugSession: values of constants

### AllocatorSpec, NovaHeap, NovaHeapWords

`AllocatorSpec` is what a guest program is promised: live allocations are
extents, a request takes the lowest hole it fits in, fails only when there is
none, FREE gives back exactly one live allocation, everything else is refused.

`NovaHeap` is `nova_vm_heap_alloc` and `nova_vm_heap_free` on the chain of
headers. `hdr` maps addresses to `[total, prev, flags, id]`; its domain is the
chain. Every check of the C code is there with what has been written before it
fails (`FreeLeft`, `FreeUsed`, `AllocSplit`), so the proof that HEAP_CORRUPT is
never reported is about those checks. A walk (`Reaches`) is the loop over the
headers in closed form: it gets to an address if all headers below it can be
read and tile. This makes it a formula the provers can use.

`NovaHeapWords` is the same code on 32-bit words of memory: walks follow totals
found in memory, a merged header leaves its words behind, payload words lie
between headers, ALLOC zeroes. It implements `NovaHeap` through the headers that
a walk visits (`ChainSpec`), which justifies the closed form above. `Walk` is
the loop over the headers as a recursive function of the address, `StatsAfter` the
loop of the statistics as one of the number of turns (`Counted` is one turn), so that
both are within the provers' reach. Memory is a function of aligned words, of which
`ReadWord`, `PutByte` and `PutWord` take any byte or unaligned word, lowest byte first:
FREE reads the header that a forged `prev_size` points to wherever that is. The guest
stores words and bytes (`Store`) in its payloads; up to `MaxWild` stores may hit any
address of the arena. From the first of these on until a reset, the only promise left
is that ALLOC and FREE stay inside the arena and hand out zeroed memory.

Correspondence: `lastStatus` is `vm->last_status` after the operation; ALLOC of
0 leaves it alone, as the C function does (the ALLOC instruction then traps).
Allocation ids count modulo `IdMod` (2^32 in the code).

### NovaRun

One action per turn of the loop in `nova_vm_run` (`RunStop`, `RunStep`,
`RunEnd`) and one per host call. `Instruction` is the switch of `nova_vm_step`
up to what it does to `pc`, `sp`, stack words, frames and status. The bytes of
the program are abstracted: at an address of `Code` any instruction may be found,
a different one each time, elsewhere NOP. This covers every program over those
addresses, also one that overwrites itself; register contents and flags are
arbitrary values. Operand fetches run field by field against the end of memory
(`Fetches`), because a fault leaves `pc` behind what was fetched and the host
may go on from there.

`reported` is a history variable: where the last run stopped at a breakpoint,
as long as nothing that a debugger would call progress has happened since. It
states what the latch is *for*; the code has only the latch.

`Disciplined = 1` restricts the guest to what NovaC emits
(`compiler/src/nova_compiler.c` 4677-4732): it pops only what it pushed in the
current call, returns with `sp` at its return address, and does not store over
return addresses. `RawLoads = 1` lets the host call `nova_vm_load` right after a
stop at a breakpoint, without the reset that Studio always does before it.

### EventQueueSpec, NovaEvents

The ring with its two indices, the console store of `nova_write_u8` and
`nova_write_u32`, and Studio's commands as phases: idle, in a run with some
budget left, draining. `printed` is a history of what the guest wrote since
the last reset. `EventQueueSpec` is a bounded queue that pushes out its oldest
entry.

### StudioWorkspace

One action per event handler of the main window. A handler is a *set of
outcomes*, one for each answer to its dialogs and, while `faults` lasts, one
for each write that throws, with memory and disk as they are at that point.
`Then` sequences the parts of a handler in the order of the code. `ended` says
how the handler ended: "ok", "cancelled", "error" (caught and shown) or "crash"
(nobody catches it). Paths are names; texts are a small set; a manifest is the
sequence of paths it lists. `loose` is the removed file that stays in the
editor when the manifest of a removal could not be written.

### NovaPreprocessor

`nc_pp_collect_project` and all it calls, then the part of
`nc_compile_project_debug_ex5_workspace` that hands files to the parser. One
action per line the scan reads (`ScanConditional`, `ScanText`, `ScanInclude`,
`ScanDefine`, `ScanUndef`, or `ScanError` with the diagnostic the code would give
first), per call and return of the recursion (`frames`; `StoreDependency` is the
code behind the recursive call), and per step of the recursion of the parser
(`visits`). The text of a file is not given beforehand: the scan chooses each
line as it reads it, so one behaviour is one project. A line is its directive; a
macro's replacement is a number or undefined, which is what `#if`, `#ifdef` and
the conflict check tell apart.

`Replays` is `nc_pp_import_file_effects`: what a file does to an environment, line
by line, with the effect of every file a call less deep; `Import` is the call the
scan and the second pass make. `MakeLines` is `nc_pp_make_source` line by line,
`SpreadAll` one pass of `nc_compute_include_visibility`. All are recursive functions
over numbers, about which the proofs can reason. The code leaves the visibility loop
as soon as a pass changes nothing, which gives the same as the passes it skips.
`UnitsAssumption` bounds the files by `MaxUnits`, as
`nc_validate_translation_units` does (`nova_compiler.c` 8527). What the expansion of text and
the parser themselves refuse is one nondeterministic outcome, `"TEXT"`.
`seen` is a history variable: the text lines the scan passed in active regions
with the macros it had there, which the code does not keep and the second pass
has to find again.

Between the check of the include table and the store the header is scanned, so
the store may find the table full. What a write behind the array does is the C
compiler's choice: `StoreBehindTable` only marks the behaviour (`"overrun"`).

### NovaStatements

The body of one function on its whole way. The statement parser writes the
syntax tree as a sequence of nodes, an opening and a closing one for each
construct; `expect` is what its recursive descent still has to read, so that one
action is one statement head or one closing brace, and a behaviour chooses the
program while it is read. The generator visits the nodes in that order with one
action per node kind, which does all that `nc_emit_statement` does for it:
contexts pushed and popped, jumps emitted and patched, labels, scope cleanup. The
machine executes one abstract instruction per step; a branch goes both ways, so
that the runs cover every value of the conditions. The capacities of the
generator are constants.

Of an expression only what touches storage is there: a local is updated, or its
address is taken, as a statement, in an argument of a call, or as the second
operand of `&&`. That is where promotion (`nc_promote_scalar_symbol`) and the save
area of calls meet control flow. `src` is a history variable: the value the
source program gives each local. `Disciplined = 1` keeps to programs in which the
address of an int is first taken among the statements that follow its
declaration, no argument of a call updates a register, declarations stand in
braces, and a goto leads to a construct that holds it, forwards only out of
blocks and loops. Section 6 says what the other programs do.

### NovaExpressions

A tree is written down with the parentheses that C's grammar asks for, parsed
again token by token (`nc_parse_binary_level` and its neighbours), and evaluated
in one of the three ways the compiler has: by the `#if` evaluator, which computes
while it reads; by the constant evaluator, which folds the tree and resolves enum
constants through one another; and by the code of `nc_emit_expr`, executed on a
machine with the flags of `nova_vm_step`. `Means` is the reference. Each operator
has the value C gives it on a signed int of `Width` bits (`CBinary`, `CUnary`: division
truncates, comparisons are signed), so that where C defines an expression, and none
of the departures below is met, the three evaluators are compared with C. Where C
leaves an operation open (overflow, shifts of negative numbers or by the width), and
where an `#if` leaves the range of an int, in which C would go on in `intmax_t`, the
reference is the machine's word operation and the claim is that the three agree.
The departures, at which the reference follows NovaC:

* `/` and `%` of a negative operand divide unsigned words (`nova_compiler.c` 3551,
  3557, 7842, 7884 and the VM's DIV): `-1 / 2` is 0x7FFFFFFF, in C it is 0;
* `#if` has no conditional operator (8026-8031 refuses it as trailing tokens);
* a call restores the caller's registers (4689-4730), so that `f(x++)` leaves `x` as
  it was;
* an enum constant may refer to a later one.

Operands are evaluated from the left, an order C leaves open. `FitsIn` says how many
temporaries an expression needs. These and the parser are recursive, so this module is
TLC's.

### NovaImage, StudioDebugSession

`NovaImage` is what the compiler hands to a debugger: the instructions of small
functions at their addresses with the save area of each call, the source map,
the lifetimes of locals. The emitter appends instructions and marks where the code
notes `cg->size`; offsets and jump targets are computed from the finished
sequence, which stands for the single pass with back-patching of the code.

`StudioDebugSession` is the main window on top of `NovaRun`: the machine's
instructions and host calls are used as they are there, restricted to what the image
holds at `pc`, with registers. One step is one host call or one instruction. A
handler that makes several calls keeps its name in `mode` and, for a source line
with several breakpoints, the rows left in `pending`; the user clicks only while
no handler runs, because all of it is on the UI thread. `turns` and `start` are
the locals of `ExecuteSourceStep`. `locals` is a history variable: the value that the
program last gave each variable, for each call that is active.
`MCStudioDebugSession` holds two programs and their images; TLC checks in the
assumption `CompiledAssumption` that the images are those of `NovaImage`.

`LayoutAssumption` says what the debugger takes for granted of compiled code, in
terms of instructions only: control stays inside a function but for CALL and RET
(`StaysInFunction`); each address has one list of words that the function has
pushed there, on every path (`Balances`, `Area`); a variable changes only by a
move to its register and outside of a call sequence, which pushes R1 to
`LastSaved` in this order and pops them after the call (`KeepsLocals`). This is
what `nc_emit_user_call` and `nc_emit_function` emit as long as no argument of a
call assigns to a variable. No function pushes more than `FrameWords` words, and
the stack has room for `FrameCap` frames of this size: with the 128 KiB and 64
frames of the code that allows 511 words.

## 3. Runs

| Run | Instance | Shows |
| --- | --- | --- |
| NovaHeap | arena of 112 bytes (up to four blocks), nine request sizes around the boundaries, all aligned and some unaligned FREE addresses, ids modulo 3 | inductive invariant and its parts; implements AllocatorSpec |
| NovaHeapWords | arena of 80 bytes (three blocks); words at an aligned and an unaligned place of a payload; one store anywhere: 0, a used flag, a total of 64 or a `prev_size` of 21 into any aligned word, 24 across two words, a single byte | words implement the chain; live payload kept; fresh payload zero; statistics exact; damage contained |
| NovaMachine | 24 bytes of memory, instructions at 0 and at the last bytes (19), jumps to 0, 19 and out of memory, breakpoints at 0 and an invalid address, a table of one, budgets 0 and 2, two frames, arbitrary stores and pops | for any program that overwrites its stack: tables in range, breakpoints honoured, returns go to callers |
| NovaEvents | ring of 4, budget 5, six instructions | queue refinement, order, nothing lost but by overflow |
| StudioWorkspace | three names, two texts, one directory, one failing write anywhere | workspaces open and clean means saved while no write has failed; a clean manifest opens and no edit is lost silently even then |
| StudioUnsaved | remove or rename before the workspace has a directory | *violation*: the workspace cannot be opened again |
| NovaPreprocessor | two sources, two headers, one macro with two replacements, up to five lines in the whole project in any distribution, three rows in each table, conditionals two deep | both passes agree; replay is exact; visibility is the closure; include table in post-order; headers parsed first; tables within their arrays |
| NovaIncludes | the same | *violation*: a row stored behind a full include table |
| NovaStatements | functions of one parameter with one name and one label, weight 5 (the kinds that add little count 2), scopes 4, locals 3, one static, break and loop depth 2, 2 loop patches, 1 goto patch, 4 heap objects, disciplined programs | tables within their arrays; no execution frees or uses what is not there or finds another value than the source gives; nothing leaks on any way out; every jump lands where C sends the statement; names mean the innermost declaration |
| NovaAddressTaken | weight 4, all programs | *violation*: an address first taken on one path, or in an argument |
| NovaExpressions | words of 4 bits, chars of 2, three temporaries; all trees of weight 6 (leaves 0 and 1; 6 and 8 count 1; `+`, `&&`, `<`, calls and unary operators 2; other operators, casts and conditionals 3), with conditionals in `#if` and `f(x++)`, 100 pairs of enum definitions, cycles included | what is written is what is parsed; the three evaluators agree with each other, and with C but for the departures named in section 2; every temporary is given back, and a refusal for want of one is justified |
| StudioDebug | two programs (a loop below a call with statements on lines of their own; a recursive function on one line), three saved registers, three frames, two breakpoints; at most 4 pushed words per call (`FrameWords`), budget of a run 24, of a source step 40; breakpoints on two lines and on a POP inside a call sequence; the user selects the first frame | no statement is missed by Into, no step of Over or Out ends deeper, breakpoints pause every command, resuming progresses, breakpoints belong to the image, frames and WATCH are true, every command ends |

Why the bounds are enough. A merge involves at most four consecutive headers
(left, own, right, and the one relinked), so an arena of four smallest blocks
reaches every case; the proofs cover the rest. Breakpoint behaviour depends on
whether `pc`, the latch and one other address coincide, so two code addresses
suffice; a budget of 2 contains a stop after progress; the proofs cover the rest. A
ring of 4 wraps in each position within six instructions. Two texts tell saved from unsaved, three names with two sources exercise the last-source
rule, and one fault per behaviour is one more than any handler recovers from.

Five lines
hold a header with a define, included by a header, included by a source with a
conditional group on the macro; or includes that close a cycle behind a define and an undef; three rows are enough
to fill each table from inside a header. The ids interleave sources and headers
(0 and 3 are sources), so the parse order is not the order of ids. `MaxUnits` is
the number of files, as many as the code would accept, so that the depth limit of the replay
is as far away as it is in a full project.

In five units of weight two constructs nest around a jump and an object, or a
label, its goto and the object between them; each table of the generator has a size
that such a program fills, so that its refusal is reached. Trees of two
operators of any kind, three of the light ones, show every pair of precedences and
associativities; four bits are enough for signs, wrap-around and shifts by the width
and more. The two images of
StudioDebug have nested rows, two rows on one line, a jump backwards, an endless
loop, a recursion that outgrows the frame table, and a register of a waiting frame that
differs from that of the callee. Forty turns are more than any step that ends by
itself needs there, so that the budget ends only those that loop; a run of 24
turns stops in all parts of both programs.

`MaxCount` (instructions between resets), `MaxWild` (wild stores), `MaxFaults`
(failing writes), `MaxLines` (lines of a project), `MaxWeight` (of a program),
`MaxObjects` and `Values` (heap objects of an execution, values of a word) are the only
bounds on behaviours; the other constants are sizes. The heap runs switch deadlock
checking off, because the set of requests may leave nothing to do but stutter;
the compiler's models stutter when they are done.

Two assumptions of the passing Studio workspace run keep it to what users are
told to do: `UnsavedOps = {}` (a new workspace is saved before files are
renamed or removed; the run StudioUnsaved lifts it) and `CleanTargets = TRUE`
(workspaces are created in empty directories; with FALSE `ended = "crash"` is
reached, see section 6). One directory holds one manifest.

## 4. Fairness

`NovaEvents` and `StudioDebugSession`: weak fairness of `Handler`, what is left
of a click handler on the UI thread. It is synchronous code: once entered, it
executes until it returns. No fairness is assumed of the user or of the guest: a
program may loop forever, and it is the budgets of the handlers that end a
command (`CommandsEnd`). The other models have no liveness property: their
operations are single calls that end.

## 5. Proofs

`NovaHeapProofs` proves, for every arena, request size and FREE address that
satisfy `HeapAssumption`:

* `HeapInvariant`: `IInv`, the conjunction of types, `Tiled`, `PrevLinks`,
  `Coalesced`, `IdsMarkUse`, `NeverCorrupt`. The conjunction is inductive as it
  stands and none of the middle three would be alone: a merge trusts the links,
  links are only meaningful on a tiling, and one merge on each side restores
  coalescing only if there was never a free pair before. The proof follows the code: a
  lemma for the split, one for each merge, and one that a reachable header can
  be read. `NeverCorrupt` comes out as: under the invariant each check of ALLOC
  and FREE succeeds.
* `BlocksTile`, `LinksNameNeighbours`, `FreesCoalesce`, `NoSelfCorruption`: its
  parts.
* `ImplementsAllocator`: every step of `NovaHeap` is a step of `AllocatorSpec`
  on the used blocks. The key lemma is that, because free blocks are coalesced,
  the holes between live allocations are exactly the free blocks.

`NovaHeapWordsProofs` proves, for every arena and request and any words and bytes a
guest stores, at any address of the arena (`WordsAssumption` asks of a store only that
it lies in the arena):

* `DamageStaysInside` (`DamageContained`) and `PayloadsAreZeroed`
  (`FreshPayloadZero`), whatever the guest has stored and wherever. `WordsInv`
  says only that memory is words and that none outside the arena has changed;
  what it rests on is that each header is compared with the arena when it is read and
  again when it is written (`Readable`, `WriteStays`). A forged `prev_size` may
  point between two words; a header read there is used only if its total is that
  `prev_size` and a multiple of eight, which it then is not (`FreeLeftStays`).
* `WordsImplementChain` (`ChainSpec`): as long as the guest keeps to its
  payloads, each step on the words is a step of `NovaHeap`; by
  `ImplementsAllocator` the words implement the allocator. `Holds` says that
  memory has the headers of a chain at their addresses and nothing of what
  lies between. A walk over such a memory visits the chain and nothing else
  (`ChainSeen`), so ALLOC and FREE find in the words what `NovaHeap` finds in the
  chain, and what they write is the words of the chain it makes
  (`AllocWholeWords`, `AllocSplitWords`, `FreeAtWords`). That this is
  a well-formed chain again, which the next walk relies on, comes from the
  lemmas of `NovaHeapProofs`, instantiated for the headers the walk visits
  (`TameInv`).
* `LiveDataStays` (`LivePayloadKept`): ALLOC writes in the free block it takes and in
  headers (`InBlock`), FREE in headers only (`InHeaders`).
* `StatsRight` (`StatsAccount`). `CountOK` is the invariant of the counting loop: used and
  free bytes and the headers seen so far reach up to `address`. Every block has 24
  bytes at least, so that `MaxBlocks` turns are enough (`StatsEnd`).

The first part of `StudioDebugSessionProofs` proves of `NovaRun`, for every memory
layout that satisfies `RunAssumption`:

* `TypeCorrect` and `TablesStayInRange`, for arbitrary code and any host.
* `FramesAlwaysMirror` and `ReturnsNeverRefused`, for disciplined code: the
  frames nest strictly, `sp` is at or below the innermost, and each return slot
  holds the recorded address.
* `FramesReturnToCallers`, for arbitrary code: a frame leaves the table only by a
  return to the recorded address, or by a reset.
* `LatchIsExact`, `BreakpointsHonoured`, `ResumeMakesProgress`, under
  `RawLoads = 0`: the latch is armed exactly while the host has been told of a
  stop at this `pc` and nothing has happened since. The assumption is needed: with
  the constants of NovaMachine but `RawLoads = 1` TLC finds `RunHonoursBreakpoints` violated
  (section 6).

The rest of `StudioDebugSessionProofs` proves, for every set of compiled programs that
satisfies `SessionAssumption` (the instructions of an image name registers and
targets there are; its source rows begin at instructions and nest, `RowsNest`):

* `SessionsAreRuns`: every step of a session is a step of `NovaRun`, or leaves the
  machine alone. The invariant `SInv` joins that of `NovaRun` with `ValuesOK`
  (registers and stack hold words, which is what makes a PUSH of the image a PUSH
  of the machine) and `WindowOK` (what the window keeps between the calls of a
  handler). What is proved of the machine therefore holds in every session.
* `SessionsResume`: what `ResumeMakesProgress` says, in a session, under the
  same assumption `RawLoads = 0`.
* `BreakpointsPauseCommands`: no command passes a breakpoint after its first
  instruction. `LatchQuiet` is the reason: the first instruction of a command
  disarms the latch and only the end of a command arms it, so that the check of
  `ExecuteSourceStep` and that of `nova_vm_run` agree.
* `BreakpointsStayInCode`: a breakpoint is always at an instruction of the image
  that is loaded.
* `StepsEndAtDepth` (`NoStepEndsDeeper`): Step Over and Step Out end inside a call
  only where something stops the program. `StepOK` is what it needs beyond `SInv`:
  while a source step goes on the machine has not halted, and it hands over to
  `nova_vm_run` only at a breakpoint and for one instruction, which `LatchQuiet`
  makes that call report instead of executing. Like `BreakpointsPauseCommands` it
  assumes `RawLoads = 0`.
* `StatementsNotMissed` (`NoStatementMissed`): because rows nest, the innermost
  statement that begins at an address is the row `FindSourceRow` finds there
  (`InnermostIsFound`), so that the loop of a step stops at it.
* `FramesAlwaysTrue` (`FramesTrue`), for disciplined code: the frames in the
  window name the calls that are active, and WATCH shows what the program last
  gave each variable, also in a frame that waits, whose registers
  `ReconstructFrameRegisters` reads from the stack. `FramesTrue` speaks of the
  registers the window finds and is not inductive: it says nothing of words
  that are on the stack below them. `CallsOK` does. For each active call it has the
  address where the call is (its pc, or in front of its return address), that
  this is in the function of the frame, that the stack between its
  frame and the next holds one word for each entry of `Area` there, and that a variable
  which is `Trusted` is in its register, any other in its word of the save
  area. Each kind of instruction keeps this because of one part of
  `LayoutAssumption` (`ComputesKeeps`, `PushesKeep`, `PopsKeep`, `CallGoesKeeps`,
  `ReturnsKeep`); `StackRoom` turns `FrameWords` into the fact that the table of
  frames is full before the stack is.

`NovaPreprocessorProofs` proves, for every set of files and every capacity:

* `IncludesInPostOrder` (`DependencyOrder`): the invariant says that a file on the
  stack of the scan is in state 1 and occurs once, and that the file below waits
  for the one above; a row is stored only when its target is in state 2, after
  which no row of the target is added. The table is therefore acyclic, which the
  replay and the parser rely on and do not check.
* `ParsedHeadersFirst` (`HeadersFirst`): the rows the parser has taken decrease
  from the bottom of its recursion to the top, because the table is in
  post-order; so no file is entered twice (`VisitsDescend`, `VisitsOpen`), and
  when a file is parsed all its rows lead to parsed files. It needs
  `IncludesInPostOrder`: with a cycle in the table the recursion would not end.
* `HeadersReplayExactly` (`ReplayIsExact`). The invariant `ReplayInv` says it of every
  file at any moment, of the lines whose rows and events are stored (`Known`): a file
  that waits for a header is known up to the line before. Two facts carry it.
  In a table in post-order no chain of includes is longer than there
  are files, so the bound on the depth is never met and the effects of a file are
  determined by the file and the effects of its targets (`EffectsExact`); and a row or
  event of a file that is being read changes the replay of no file that is scanned
  (`SameEffects`), since none of those includes it. What is added at the end is
  replayed last (`GrowFile`), and does there what the scan did.
* `SecondPassAgrees` (`PassesAgree`). The invariant `PassInv` says that the second pass
  over the known lines would end with the macros, the open groups and the text
  that the scan has there; the step at an `#include` is where it needs `ReplayInv`.
  That every scanned file is parsed takes the converse of headers first: a scanned
  header is the target of some row, and so reached from a source (`ReachInv`,
  `AllParsed`).
* `FilesSeeWhatTheyReach` (`VisibilityIsClosure`). A pass adds nothing that a file does
  not reach, and after a pass over a table in post-order every file sees what the files
  it includes see: behind the row of a target no row of the target follows,
  so what was copied is complete (`SpreadRow`, `VisibilityCloses`).
* `TablesFit` (`TypeOK`), from all of these: the macros of a file stay within the
  table also through a replay.


`NovaEventsProofs` proves, for every capacity of at least 2, every budget and any
number of instructions:

* `RingIsQueue`: each step is a step of `EventQueueSpec` on the entries between the
  indices, or leaves them alone.
* `ConsoleKeepsOrder` (`ConsoleInOrder`) and `LossIsOverflow` (`OnlyOverflowLoses`).
  The invariant is that the ring holds the last `Held` events of `printed`, in
  order (`Suffix`); that what the console shows is older (`Shown`); and that an event that
  is in neither has at least `Capacity - 1` younger ones (`MadeRoom`), which
  stays true forever because `printed` only grows. The arithmetic of the indices is
  confined to one lemma (`Cursors`).

`StudioWorkspaceProofs` proves, for every set of names, texts and directories and
any number of failing writes, under `UnsavedOps = {}`:

* `WorkspaceTyped`, `EveryWorkspaceOpens` (`WorkspacesOpen`), `TitleIsTrue`
  (`CleanMeansSaved`), `FlagIsTrue` (`CleanReopens`), and `NoEditIsLost`
  (`NoSilentLoss`), an action property.
  The invariant has two layers. `Sound` holds whatever fails: types, the links between
  the list, the selection and the editor, the manifest's flag. `Whole` is
  claimed only of behaviours in which no write has failed: every manifest opens
  and every clean file is on disk as it is in memory. Each part of a handler gets
  a lemma about all its outcomes, and handlers are composed of them as `Then`
  composes the parts; a handler is `Fine` when each of its outcomes, the failed
  ones included, leaves a sound state. `UnsavedOps = {}` cannot be dropped:
  StudioUnsaved is the counterexample.

`NovaStatementsProofs` proves, for every function and every capacity, disciplined
or not, what the parser promises the generator:

* `TreesAreNested` (`ParseOK`). The recursive descent has its context in the stack
  of the C program, in two counters and in the order of the nodes; the model has
  it in `expect`, `parser` and `within`. `ParseOK` says that all are views of one
  stack: what each node opens or closes determines the stack of open
  constructs behind it (`TreeOK`); the items of `expect` own that stack piece by piece, from
  the bottom to the top (`Hangs`); the counters count its blocks and loops. None
  of the three is inductive without the others: a closing brace is accepted because of
  `expect`, and shortens the stack, from which the next `break` is judged. There is one
  lemma for each kind of statement, on three about the tree: a leaf, a
  construct that opens, one that ends.
* `JumpsHaveTargets` (`JumpsInside`): the parser counts loops and searches
  `expect` for a switch, which is enough to accept `break` and `continue` exactly
  inside what they leave; the generator takes the top of its stacks of contexts
  without asking again.

* `NamesBindInnermost` (`BindsInnermost`), under `Disciplined = 1`. The invariant `Bound` says of the
  generator at a node: the symbols are the parameters and then, in the order
  of the source, exactly the declarations that can be seen from the node
  (`Named`), and each frame of `nc_emit_statement` remembers for its construct the number of
  symbols that are older than the construct (`Framed`). Cutting the list back to that number
  when the construct ends forgets what can no longer be seen, and nothing else
  (`NamedCuts`). The newest symbol of a name is then the innermost declaration, because a
  declaration that is seen and is newer has the longer path (`Binding`). The
  assumption is needed: a declaration that is the body of a `while` without braces
  stays in the list of symbols behind the loop.

`NovaStatementsJumpsProofs` proves of the finished code, for every function and every
capacity, disciplined or not:

* `JumpsReachTheirTargets` (`JumpsLand`). The property speaks of the finished code only
  and names targets by the tree; while code is emitted a target is wrong until it is
  patched, and one list of patches is shared by all loops. The invariant `JumpOK` says of
  each jump that it has landed (`Lands`: its target is that of the node it stands for,
  by the stacks of open constructs) or waits (`Waiting`: the frame of an if, a loop
  or a switch, `break_patches`, `continue_patches` or `goto_patches` will patch
  it). What a list holds is cut into segments by the marks that the contexts of `break`
  and `continue` keep (`Contexts`): behind the mark of a construct are the jumps of
  just that construct and of those within it, so that `nc_patch_jump_list_from` at its
  end patches its own jumps and leaves the others. Targets are positions in code
  that is still growing; they stay right because each is the first instruction of a
  node (`CodeAt`), and instructions come in the order of nodes (`Coded`). Behind the
  last node nothing is open, so nothing waits (`AllLand`), and what has landed is at the
  `Destination` (`Arrives`). That a switch has one default and a name one label is part of
  the invariant: the parser refuses a second default (`DefaultsKept`), the scan for
  labels a second label (`LabelsCollected`).

Several of these have no run property of their own because their conjunction is one:
`IInv` contains `Tiled`, `PrevLinks`, `Coalesced` and `NeverCorrupt`; `FramesTrue`
contains `FramesMirrorStack`; `HeadersFirst` rests on `DependencyOrder`.

The assumptions are those named `ASSUME` in the modules, which TLC evaluates in
every run. Only model-checked:

* liveness (`DrainEnds`, `CommandsEnd`);
* `NovaExpressions`, whose parser and evaluators are recursive over the data;
* of `NovaStatements` what the generated code does when it runs (`NeverFaults`,
  `NothingLeaks`) and `TypeOK`: they take an invariant that relates the registers and
  objects at each instruction to the symbols of the generator when it emitted it, on all
  ways that lead there.

## 6. Findings

1. An address first taken on one path (`nova_compiler.c` 4806, run
   NovaAddressTaken): `nc_promote_scalar_symbol` emits the move of a local to the
   heap where the `&` stands and treats the local as memory from there on. In
   `x && &x == p`, in a branch, or in an argument of a call, whose caller
   restores the register afterwards, later code takes a plain value for an
   address, and the cleanup frees it. On the real compiler and VM `inc(&x)` as
   the first use of the address ends in status -9 at FREE.
2. Remove and rename in a workspace that has no directory yet leave a manifest
   that names a missing file (`MainWindow.xaml.cs` 555, 516; run StudioUnsaved): the
   handler holds a file object that `EnsureWorkspaceOnDisk` has replaced.
3. The include table is written behind its end (`nova_compiler.c` 8207; run
   NovaIncludes): there is room when the `#include` is read, and none after its
   header was scanned. With the real capacities: a header with 256 includes,
   included once. Observed with the compiler of this commit: the project, which
   has no cycle, is refused with "macro import recursion exceeded
   translation-unit bound"; with 257 includes the capacity diagnostic is given
   as documented.

Behaviours a reader should know of, that have no run of their own.

* Debugger views. `docs/DEVELOPMENT_HISTORY.md:106` asks to confirm source,
  frame and WATCH after a step. A step that ends at a return (`MainWindow.xaml.cs`
  1180) stops at the POPs behind the call, before they have restored the caller:
  WATCH shows the callee's registers under the caller's names. And
  `RefreshCallStack` (1736) stores the frame it chose itself as the user's
  selection, so that after Step Into the caller stays on display. Checking
  `WatchCoherentAfterStep` and `SourceFollowsSteps` with the constants of
  StudioDebug (`Picks = {}` for the second) gives both traces.
* `nova_vm_load` does not clear the resume latch (`nova_vm.c` 499-512). Latent:
  Studio resets first. After a step onto a breakpoint, Run reports that
  breakpoint once more before it goes on.
* A source step without a source map (after a failed compile) runs until its
  budget, since no instruction has a place.
* An exception of `Create` under `EnsureWorkspaceOnDisk` is not caught by five
  of its callers (`MainWindow.xaml.cs` 338, 446, 468, 516, 555): saving into a
  directory that holds a source of that name ends Studio. `CleanTargets = FALSE`
  reaches it.
* Expressions whose value is not C's (`NovaExpressions` in section 2): division and
  remainder of negative operands, `f(x++)`, `?:` in `#if`. `README.md:222` of the
  repository claims no conformance to ISO C.
* Programs that `Disciplined = 1` keeps out of NovaStatements: `f(x++)`; a goto out of the scope of a `for` or a
  case leaks its objects; a goto back into a sibling block that has ended frees
  twice; a declaration as an unbraced branch is allocated on one path and freed
  on all.
* A run that prints more than 255 characters loses the oldest without a word
  (`OnlyOverflowLoses` is tight). After a removal whose manifest could not be
  written, the removed file stays in the editor under a file id that another file
  now has: `CleanMeansSaved` is therefore claimed only while no write has failed.

## 7. Not modelled, and plan

Not modelled: global declarations, linkage and merging across translation units;
macros with parameters and the expansion of text; typedefs, struct layout,
pointers, arrays and aggregate copies in code generation; the capacities of the
debug tables; the public interface between two compilations; variables in memory or
shadowed ones in WATCH; path normalisation; the overlay of the architecture
graph.

What would add most next:

1. *Declarations* across translation units: tentative definitions, conflicts and
   the order of files against one reference definition of the merged program.
2. *Pointers and aggregates* in `NovaStatements`: initializers that take
   addresses, copies, members.
3. *Proofs*: what holds of registers and objects at each instruction that
   `NovaStatements` emits, hence `NeverFaults` and `NothingLeaks`.

Left out for good: marshalling, drawing, layout, and file-system crashes inside
one write.
