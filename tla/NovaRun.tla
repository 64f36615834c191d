------------------------------- MODULE NovaRun -------------------------------
(***************************************************************************)
(* Execution and debugging in NovaVM (native/src/nova_vm.c): nova_vm_step,  *)
(* the loop of nova_vm_run with its breakpoints and resume latch, the guest *)
(* stack with the shadow call frames beside it, and the calls a host makes  *)
(* between runs.                                                           *)
(*                                                                         *)
(* The bytes of the program are not kept.  At an address in Code any        *)
(* instruction may be found, a different one each time it is reached: this  *)
(* covers every program, those that overwrite their own code included.      *)
(* Everywhere else memory is zero, which is NOP.  Registers and arithmetic  *)
(* flags are arbitrary: a conditional jump may be taken or not, an operand  *)
(* may hold any value.  What the guest heap does is NovaHeap, what a store  *)
(* to the console address does is NovaEvents.                               *)
(***************************************************************************)
EXTENDS Integers, Sequences, FiniteSets

CONSTANTS
  MemSize,             (* NOVA_MEMORY_SIZE                                  *)
  StackBase, StackTop, (* NOVA_STACK_BASE, NOVA_STACK_TOP                   *)
  LoadLimit,           (* NOVA_HEAP_BASE, the end of the program area       *)
  FrameCap,            (* NOVA_CALL_FRAME_CAPACITY                          *)
  BreakCap,            (* NOVA_BREAKPOINT_CAPACITY                          *)
  Code,                (* addresses at which an instruction may be found    *)
  Targets,             (* operands of jumps and calls                       *)
  Words,               (* register values that reach the stack              *)
  BreakAddresses,      (* addresses the host names                          *)
  Images,              (* the <<address, size>> of the images it loads      *)
  Budgets,             (* instruction budgets it passes to nova_vm_run      *)
  Disciplined,         (* 1: the guest keeps the compiler's stack discipline*)
  RawLoads             (* 1: it also loads without a reset after a stop     *)

Word == 4              (* bytes of a stack word                             *)

ASSUME RunAssumption ==
  /\ StackBase \in Nat /\ StackTop \in Nat /\ MemSize \in Nat
  /\ LoadLimit \in Nat /\ LoadLimit <= StackBase
  /\ StackBase % Word = 0 /\ StackTop % Word = 0
  /\ StackBase + Word <= StackTop /\ StackTop < MemSize
  /\ FrameCap \in Nat /\ BreakCap \in Nat
  /\ Code \subseteq Nat /\ Targets \subseteq Nat /\ Words \subseteq Nat
  /\ BreakAddresses \subseteq Nat /\ Images \subseteq Nat \X Nat
  /\ Budgets \subseteq Nat
  /\ Disciplined \in {0, 1} /\ RawLoads \in {0, 1}

(* A disciplined program is a compiled image: it lies below the heap.       *)
ASSUME ImageAssumption == Disciplined = 1 => Code \subseteq 0..(LoadLimit - 1)

VARIABLES
  pc, sp, halted, lastStatus,
  stack,               (* the words of memory between StackBase and StackTop*)
  frames,              (* vm->call_frames                                   *)
  breakpoints,         (* vm->breakpoints                                   *)
  resumePc, armed,     (* vm->breakpoint_resume_pc, breakpoint_resume_armed *)
  running, left,       (* nova_vm_run is active; budget it has left         *)
  reported             (* history: where the last run stopped at a          *)
                       (* breakpoint, while nothing has happened since      *)

guest == <<pc, sp, halted, lastStatus, stack, frames>>
latch == <<resumePc, armed>>
vars == <<guest, breakpoints, latch, running, left, reported>>

Slots == {a \in StackBase..(StackTop - Word) : a % Word = 0}
Nowhere == -1
RangeValid(a) == a < MemSize

Errors == {"BOUNDS", "STACK", "ALLOCATION", "TRAP"}
Statuses == {"OK", "HALTED", "BREAKPOINT"} \cup Errors

-----------------------------------------------------------------------------
(* Fetching.  A form is the set of offsets behind the opcode at which an    *)
(* operand field ends: 0 for no operand, 1 for a register, 5 for a register *)
(* and an immediate.  Fields are fetched one by one; those that lie inside  *)
(* memory move pc even if a later one does not.                            *)

Forms == {{0}, {0, 1}, {0, 1, 2}, {0, 1, 2, 3}, {0, 1, 5}, {0, 4}}

At(o) == pc + 1 + o
Fetches(form, o) ==
  /\ RangeValid(pc) /\ pc \in Code
  /\ o \in form /\ At(o) <= MemSize
  /\ \A x \in form : At(x) <= MemSize => x <= o
Operands(form, o) == Fetches(form, o) /\ \A x \in form : x <= o

(* nova_fail: a fault leaves pc behind what was fetched, and nothing else.  *)
Fail(status, at) ==
  /\ pc' = at /\ lastStatus' = status
  /\ UNCHANGED <<sp, halted, stack, frames>>

Ok(at) == pc' = at /\ lastStatus' = "OK" /\ UNCHANGED halted

-----------------------------------------------------------------------------
(* The instructions *)

FetchFault ==
  \/ ~RangeValid(pc) /\ Fail("BOUNDS", pc)
  \/ \E form \in Forms, o \in 0..5 :
       Fetches(form, o) /\ ~Operands(form, o) /\ Fail("BOUNDS", At(o))

(* Unknown opcodes, bad registers, division by zero, a bad address in a     *)
(* load or store, a failed ALLOC or FREE: TRAP stands for their codes.      *)
Trap == \E form \in Forms, o \in 0..5 : Operands(form, o) /\ Fail("TRAP", At(o))

(* Whatever falls through without touching the stack: NOP, moves,           *)
(* arithmetic, loads, ALLOC, FREE, jumps not taken, stores elsewhere.       *)
Plain ==
  \/ \E form \in Forms, o \in 0..5 :
       Operands(form, o) /\ Ok(At(o)) /\ UNCHANGED <<sp, stack, frames>>
  \/ RangeValid(pc) /\ pc \notin Code /\ Ok(At(0)) /\ UNCHANGED <<sp, stack, frames>>

Halt ==
  /\ Operands({0}, 0)
  /\ pc' = At(0) /\ halted' = 1 /\ lastStatus' = "HALTED"
  /\ UNCHANGED <<sp, stack, frames>>

Jump(target) ==
  /\ Operands({0, 4}, 4)
  /\ IF RangeValid(target) THEN Ok(target) /\ UNCHANGED <<sp, stack, frames>>
     ELSE Fail("BOUNDS", At(4))

(* Mutant: a push below the last word.                                      *)
CanPushAtBase == sp >= StackBase
CanPush == sp >= StackBase + Word
CanPop == sp <= StackTop - Word
Pushed(v) == sp' = sp - Word /\ stack' = [stack EXCEPT ![sp - Word] = v]

(* STORE8, STORE32 into the stack: one word, or two when unaligned.         *)
ReturnSlots == {frames[i].stackPointer : i \in 1..Len(frames)}
Touched(s) == {{s}, {s, s + Word} \cap Slots}
Store(touched, values) ==
  /\ Operands({0, 1, 2}, 2)
  /\ Disciplined = 1 => touched \cap ReturnSlots = {}
  /\ Ok(At(2))
  /\ stack' = [s \in Slots |-> IF s \in touched THEN values[s] ELSE stack[s]]
  /\ UNCHANGED <<sp, frames>>

Push(v) ==
  /\ Operands({0, 1}, 1)
  /\ IF CanPush THEN Ok(At(1)) /\ Pushed(v) /\ UNCHANGED frames
     ELSE Fail("STACK", At(1))

TopFrame == frames[Len(frames)]

Pop ==
  /\ Operands({0, 1}, 1)
  /\ Disciplined = 1 /\ frames # <<>> => sp < TopFrame.stackPointer
  /\ IF CanPop THEN Ok(At(1)) /\ sp' = sp + Word /\ UNCHANGED <<stack, frames>>
     ELSE Fail("STACK", At(1))

Frame(target) ==
  [target |-> target, returnAddress |-> At(4), stackPointer |-> sp - Word]

Call(target) ==
  /\ Operands({0, 4}, 4)
  /\ IF ~RangeValid(target) THEN Fail("BOUNDS", At(4))
     ELSE IF Len(frames) >= FrameCap \/ ~CanPush THEN Fail("STACK", At(4))
     ELSE /\ Ok(target)
          /\ Pushed(At(4))
          /\ frames' = Append(frames, Frame(target))

(* RET pops the return address before it looks at it: when the address is   *)
(* out of range or not the one the frame recorded, sp stays advanced and    *)
(* the frame stays.                                                        *)
RetFail(status) ==
  /\ pc' = At(0) /\ sp' = sp + Word /\ lastStatus' = status
  /\ UNCHANGED <<halted, stack, frames>>

(* Mutant: the recorded address is not compared.                            *)
RetUncompared ==
  /\ Operands({0}, 0)
  /\ Disciplined = 1 /\ frames # <<>> => sp = TopFrame.stackPointer
  /\ IF frames = <<>> \/ ~CanPop THEN Fail("STACK", At(0))
     ELSE IF ~RangeValid(stack[sp]) THEN RetFail("BOUNDS")
     ELSE /\ Ok(stack[sp])
          /\ sp' = sp + Word
          /\ frames' = SubSeq(frames, 1, Len(frames) - 1)
          /\ UNCHANGED stack

Ret ==
  /\ Operands({0}, 0)
  /\ Disciplined = 1 /\ frames # <<>> => sp = TopFrame.stackPointer
  /\ IF frames = <<>> \/ ~CanPop THEN Fail("STACK", At(0))
     ELSE IF ~RangeValid(stack[sp]) THEN RetFail("BOUNDS")
     ELSE IF TopFrame.returnAddress # stack[sp] THEN RetFail("STACK")
     ELSE /\ Ok(stack[sp])
          /\ sp' = sp + Word
          /\ frames' = SubSeq(frames, 1, Len(frames) - 1)
          /\ UNCHANGED stack

Instruction ==
  \/ FetchFault \/ Trap \/ Plain \/ Halt \/ Pop \/ Ret
  \/ \E t \in Targets : Jump(t) \/ Call(t)
  \/ \E v \in Words : Push(v)
  \/ \E s \in Slots : \E touched \in Touched(s) :
       \E values \in [touched -> Words] : Store(touched, values)

(* Mutant: the latch stays armed.                                           *)
StepCoreArmed ==
  /\ halted = 0
  /\ Instruction
  /\ reported' = Nowhere
  /\ UNCHANGED <<breakpoints, latch>>

(* An instruction clears the latch of the address it was at.                *)
Progress ==
  /\ armed' = IF resumePc = pc THEN 0 ELSE armed
  /\ reported' = Nowhere
  /\ UNCHANGED <<breakpoints, resumePc>>

(* nova_vm_step on a machine that is not halted.                            *)
StepCore == halted = 0 /\ Instruction /\ Progress

-----------------------------------------------------------------------------
(* nova_vm_run *)

RunStart(budget) ==
  /\ running = 0
  /\ running' = 1 /\ left' = budget
  /\ UNCHANGED <<guest, breakpoints, latch, reported>>

RunEnd ==
  /\ running = 1 /\ (halted = 1 \/ left = 0)
  /\ running' = 0 /\ left' = 0
  /\ UNCHANGED <<guest, breakpoints, latch, reported>>

Latched == armed = 1 /\ resumePc = pc

(* Mutant: the latch is not armed.                                          *)
RunStopUnarmed ==
  /\ running = 1 /\ halted = 0 /\ left > 0
  /\ pc \in breakpoints /\ ~Latched
  /\ lastStatus' = "BREAKPOINT"
  /\ running' = 0 /\ left' = 0
  /\ reported' = pc
  /\ UNCHANGED <<pc, sp, halted, stack, frames, breakpoints, latch>>

RunStop ==
  /\ running = 1 /\ halted = 0 /\ left > 0
  /\ pc \in breakpoints /\ ~Latched
  /\ resumePc' = pc /\ armed' = 1 /\ lastStatus' = "BREAKPOINT"
  /\ running' = 0 /\ left' = 0
  /\ reported' = pc
  /\ UNCHANGED <<pc, sp, halted, stack, frames, breakpoints>>

(* One turn of the loop: a fault or HALT returns, otherwise executed++.     *)
PassesBreakpoint == running = 1 /\ left > 0 /\ (pc \in breakpoints => Latched)
Executed ==
  IF lastStatus' = "OK" THEN running' = 1 /\ left' = left - 1
  ELSE running' = 0 /\ left' = 0
RunStep == PassesBreakpoint /\ StepCore /\ Executed

-----------------------------------------------------------------------------
(* The host between runs *)

Step == running = 0 /\ StepCore /\ UNCHANGED <<running, left>>

StepHalted ==
  /\ running = 0 /\ halted = 1
  /\ lastStatus' = "HALTED"
  /\ UNCHANGED <<pc, sp, halted, stack, frames, breakpoints, latch, running,
                 left, reported>>

AddBreakpoint(a) ==
  /\ running = 0
  /\ IF ~RangeValid(a) THEN lastStatus' = "BOUNDS" /\ UNCHANGED breakpoints
     ELSE IF a \in breakpoints THEN UNCHANGED <<lastStatus, breakpoints>>
     ELSE IF Cardinality(breakpoints) >= BreakCap
          THEN lastStatus' = "ALLOCATION" /\ UNCHANGED breakpoints
     ELSE breakpoints' = breakpoints \cup {a} /\ UNCHANGED lastStatus
  /\ UNCHANGED <<pc, sp, halted, stack, frames, latch, running, left, reported>>

RemoveBreakpoint(a) ==
  /\ running = 0
  /\ a \in breakpoints
  /\ breakpoints' = breakpoints \ {a}
  /\ armed' = IF resumePc = a THEN 0 ELSE armed
  /\ reported' = IF reported = a THEN Nowhere ELSE reported
  /\ UNCHANGED <<guest, resumePc, running, left>>

ClearBreakpoints ==
  /\ running = 0
  /\ breakpoints' = {} /\ resumePc' = 0 /\ armed' = 0
  /\ reported' = Nowhere
  /\ UNCHANGED <<guest, running, left>>

Zeroed == [s \in Slots |-> 0]

Reset ==
  /\ running = 0
  /\ pc' = 0 /\ sp' = StackTop /\ halted' = 0 /\ lastStatus' = "OK"
  /\ stack' = Zeroed /\ frames' = <<>>
  /\ resumePc' = 0 /\ armed' = 0
  /\ reported' = Nowhere
  /\ UNCHANGED <<breakpoints, running, left>>

(* nova_range_valid(address, size), then the two tests against the heap.    *)
Loadable(a, size) ==
  /\ a < MemSize /\ size <= MemSize - a
  /\ a <= LoadLimit /\ size <= LoadLimit - a

(* nova_vm_load: neither the stack, the frames nor the latch are touched.   *)
Load(a, size) ==
  /\ running = 0 /\ (armed = 0 \/ RawLoads = 1)
  /\ IF Loadable(a, size)
     THEN pc' = a /\ halted' = 0 /\ lastStatus' = "OK" /\ reported' = Nowhere
     ELSE lastStatus' = "BOUNDS" /\ UNCHANGED <<pc, halted, reported>>
  /\ UNCHANGED <<sp, stack, frames, breakpoints, latch, running, left>>

(* What Studio does (LoadDemoProgram): reset, then load.                    *)
ResetAndLoad(a, size) ==
  /\ running = 0
  /\ IF Loadable(a, size) THEN pc' = a /\ lastStatus' = "OK"
     ELSE pc' = 0 /\ lastStatus' = "BOUNDS"
  /\ sp' = StackTop /\ halted' = 0
  /\ stack' = Zeroed /\ frames' = <<>>
  /\ resumePc' = 0 /\ armed' = 0
  /\ reported' = Nowhere
  /\ UNCHANGED <<breakpoints, running, left>>

-----------------------------------------------------------------------------
Init ==
  /\ pc = 0 /\ sp = StackTop /\ halted = 0 /\ lastStatus = "OK"
  /\ stack = Zeroed /\ frames = <<>>
  /\ breakpoints = {} /\ resumePc = 0 /\ armed = 0
  /\ running = 0 /\ left = 0
  /\ reported = Nowhere

Run == RunStop \/ RunStep \/ RunEnd

Host ==
  \/ \E b \in Budgets : RunStart(b)
  \/ Step \/ StepHalted \/ ClearBreakpoints \/ Reset
  \/ \E a \in BreakAddresses : AddBreakpoint(a) \/ RemoveBreakpoint(a)
  \/ \E i \in Images : Load(i[1], i[2]) \/ ResetAndLoad(i[1], i[2])

Next == Run \/ Host

Spec == Init /\ [][Next]_vars

-----------------------------------------------------------------------------
(* Properties *)

FrameType == [target : Nat, returnAddress : Nat, stackPointer : Slots]

(* Each field of NovaVM keeps a value of its kind; pc is at most the end of  *)
(* memory, where the next fetch faults.                                     *)
TypeOK ==
  /\ pc \in 0..MemSize /\ sp \in Nat
  /\ halted \in {0, 1} /\ lastStatus \in Statuses
  /\ stack \in [Slots -> Nat]
  /\ frames \in Seq(FrameType)
  /\ breakpoints \subseteq 0..(MemSize - 1)
  /\ resumePc \in Nat /\ armed \in {0, 1}
  /\ running \in {0, 1} /\ left \in Nat
  /\ reported \in Nat \cup {Nowhere}

(* Whatever the guest does, its stack pointer stays a word boundary of the  *)
(* stack region, the frame table never overflows, and neither does the      *)
(* breakpoint table: the pushes, pops, calls and failed returns of any      *)
(* program, resumed after faults or not, keep the VM's own arrays in range. *)
TablesInRange ==
  /\ StackBase <= sp /\ sp <= StackTop /\ sp % Word = 0
  /\ Len(frames) <= FrameCap
  /\ IsFiniteSet(breakpoints) /\ Cardinality(breakpoints) <= BreakCap

(* The one-shot latch is armed exactly while the host has been told of a    *)
(* stop at the current pc and nothing has happened since (the comparison in *)
(* nova_vm_step, the resets in remove, clear and reset).                    *)
LatchIsReport ==
  /\ armed = 1 <=> reported # Nowhere
  /\ armed = 1 => resumePc = reported /\ reported = pc /\ pc \in breakpoints

(* nova_vm_run executes the instruction at a breakpoint only to resume from *)
(* a stop that it reported there.                                          *)
RunHonoursBreakpoints ==
  [][running = 1 /\ RunStep /\ pc \in breakpoints => reported = pc]_vars

(* Resuming makes progress: a run never stops twice at a breakpoint with    *)
(* nothing in between.                                                     *)
ResumeProgresses == [][RunStop => reported # pc]_vars

(* A frame leaves the table by returning to the caller it recorded, even if *)
(* the guest overwrote its return address, unless the host resets.          *)
ReturnsToCaller ==
  [][Len(frames') < Len(frames) =>
       \/ frames' = <<>> /\ sp' = StackTop /\ running = 0
       \/ /\ frames' = SubSeq(frames, 1, Len(frames) - 1)
          /\ pc' = TopFrame.returnAddress]_vars

(* For a guest that keeps the stack discipline the frames and the stack     *)
(* agree: frames nest, each return slot still holds the recorded address,   *)
(* and sp is at or below the innermost one.                                *)
FramesNest ==
  /\ \A i, j \in 1..Len(frames) :
       i < j => frames[j].stackPointer < frames[i].stackPointer
  /\ \A i \in 1..Len(frames) : sp <= frames[i].stackPointer
SlotsHoldReturns ==
  \A i \in 1..Len(frames) :
    /\ stack[frames[i].stackPointer] = frames[i].returnAddress
    /\ RangeValid(frames[i].returnAddress)
(* The two together, for compiled code: nova_vm_step keeps call_frames and the*)
(* return addresses in memory the same sequence.                            *)
FramesMirrorStack == Disciplined = 1 => FramesNest /\ SlotsHoldReturns

(* So such a guest is never refused a return while a frame is active.       *)
DisciplinedReturns ==
  [][Disciplined = 1 /\ Ret /\ frames # <<>> => lastStatus' = "OK"]_vars

=============================================================================
