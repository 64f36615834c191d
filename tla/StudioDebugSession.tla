-------------------------- MODULE StudioDebugSession --------------------------
(***************************************************************************)
(* The debugging commands of the main window (studio/MainWindow.xaml.cs):   *)
(* run, step one instruction, step into, over and out, breakpoints by       *)
(* address and by line, the selected frame and its WATCH values, compiling  *)
(* anew in the middle of a session.                                        *)
(*                                                                         *)
(* The machine is NovaRun, its instructions and host calls are used here.   *)
(* A command is a sequence of these calls, one step each; at every address  *)
(* it executes what the image holds there, with the registers NovaRun       *)
(* leaves open.                                                            *)
(***************************************************************************)
EXTENDS NovaRun

CONSTANTS
  Programs,            (* images of NovaC, see NovaImage, by number         *)
  LastSaved,           (* NovaCLastSavedRegister                            *)
  SourceStepBudget,    (* instructions of one source step                   *)
  RunBudget,           (* instructions of one Run                           *)
  ToggleAddresses,     (* rows of the disassembly the user clicks on        *)
  ToggleLines,         (* lines of the source map the user clicks on        *)
  FrameWords,          (* words of saved registers and arguments that a     *)
                       (* compiled function has on the stack at most        *)
  Picks                (* frames the user selects                           *)

CallInstructionSize == 5

(* An instruction names registers and targets there are, and puts nothing   *)
(* but words of the model into them.                                       *)
WellFormed(a, i) ==
  /\ i.op \in {"movi", "mov", "push", "pop"} => i.reg \in 0..(LastSaved + 1)
  /\ i.op = "movi" => i.value \in Words
  /\ i.op = "mov" => i.from \in 0..(LastSaved + 1)
  /\ i.op \in {"call", "jmp", "je"} => i.target \in Targets
  /\ i.op = "call" => a + CallInstructionSize \in Words

(* Rows are noted around the code of a statement (nc_emit_statement): one    *)
(* that begins inside another ends there.                                  *)
Row == [fn : Nat \ {0}, line : Nat, from : Nat, to : Nat]
RowsNest(rows) ==
  /\ rows \in Seq(Row)
  /\ \A i, j \in DOMAIN rows :
       rows[j].from < rows[i].from /\ rows[i].from < rows[j].to => rows[i].to <= rows[j].to

ASSUME SessionAssumption ==
  /\ 0 \in Words
  /\ LastSaved \in Nat \ {0}
  /\ SourceStepBudget \in Nat \ {0} /\ RunBudget \in Nat \ {0}
  /\ {1, RunBudget} \subseteq Budgets
  /\ Picks \subseteq Nat /\ ToggleAddresses \subseteq BreakAddresses
  /\ \A p \in DOMAIN Programs :
       /\ <<0, Programs[p].size>> \in Images
       /\ RowsNest(Programs[p].rows)
       /\ \A i \in DOMAIN Programs[p].rows :
            Programs[p].rows[i].from \in BreakAddresses \cap DOMAIN Programs[p].code
       /\ \A a \in DOMAIN Programs[p].code : WellFormed(a, Programs[p].code[a])

VARIABLES
  program,             (* the image in the machine, _demoProgram            *)
  mapped,              (* the source map and symbols of it are shown        *)
  regs,                (* vm->registers                                     *)
  selected,            (* _selectedNativeFrameIndex + 1, or 0 for null      *)
  mode,                (* the command whose handler runs, or "idle"         *)
  turns, start,        (* ExecuteSourceStep: i, and where it started        *)
  pending,             (* source map rows whose breakpoint is still to be   *)
                       (* changed                                           *)
  locals               (* history: the value the source program last gave   *)
                       (* each variable, for each call that is active       *)

window == <<program, mapped, mode, turns, start, pending>>
sessionVars == <<vars, window, regs, selected, locals>>

SourceSteps == {"into", "over", "out"}
HostCalls == {"set", "unset", "clear", "load"}
Image == Programs[program]
Listing == Image.code
Depth == Len(frames)

-----------------------------------------------------------------------------
(* What the window shows *)

Rows == IF mapped THEN Image.rows ELSE <<>>
Symbols == IF mapped THEN Image.symbols ELSE <<>>
Covers(x, a) == x.from <= a /\ a < x.to
Span(row) == row.to - row.from
NoPlace == <<0, 0>>
PlaceOf(row) == <<row.fn, row.line>>

(* FindSourceRow: the shortest row around an address, the first of them.    *)
(* Mutant: the longest.                                                    *)
LongestRow(a) ==
  LET around == {i \in DOMAIN Rows : Covers(Rows[i], a)}
      best == CHOOSE i \in around : \A j \in around :
                Span(Rows[i]) > Span(Rows[j]) \/ (Span(Rows[i]) = Span(Rows[j]) /\ i <= j)
  IN IF around = {} THEN NoPlace ELSE PlaceOf(Rows[best])
FindSourceRow(a) ==
  LET around == {i \in DOMAIN Rows : Covers(Rows[i], a)}
      best == CHOOSE i \in around : \A j \in around :
                Span(Rows[i]) < Span(Rows[j]) \/ (Span(Rows[i]) = Span(Rows[j]) /\ i <= j)
  IN IF around = {} THEN NoPlace ELSE PlaceOf(Rows[best])

(* FindFunctionIndexByTarget, FindFunctionIndexByAddress.  The functions    *)
(* tile the image behind its trampoline: at most one holds an address.      *)
FunctionIn(image, a) ==
  IF \E f \in DOMAIN image.functions : Covers(image.functions[f], a)
  THEN CHOOSE f \in DOMAIN image.functions : Covers(image.functions[f], a) ELSE 0
FunctionAt(a) == IF mapped THEN FunctionIn(Image, a) ELSE 0

(* ResolveFrameSourceAddress: a frame that waits stands at its call.        *)
FrameAddress(k) ==
  IF k = Depth THEN pc ELSE frames[k + 1].returnAddress - CallInstructionSize

(* ResolveSelectedFrameIndex                                               *)
Resolve(choice, depth) == IF choice \in 1..depth THEN choice ELSE depth

(* TryReadSelectedFrameRegister: what the callee's frame sits on is the     *)
(* save area of the call, the last register lowest.                        *)
(* Mutant: the return address is not counted.                              *)
ReadAtReturnSlot(k, r) ==
  IF k = Depth THEN regs[r]
  ELSE stack[frames[k + 1].stackPointer + (LastSaved - r) * Word]
ReadRegister(k, r) ==
  IF k = Depth THEN regs[r]
  ELSE stack[frames[k + 1].stackPointer + (1 + LastSaved - r) * Word]

(* RefreshWatchValues: the variables of the selected frame.                 *)
Watches(k) ==
  {Symbols[i].reg : i \in {j \in DOMAIN Symbols :
     /\ Symbols[j].fn = FunctionAt(frames[k].target)
     /\ Covers(Symbols[j], FrameAddress(k))}}

-----------------------------------------------------------------------------
(* Compiled code, as nc_emit_user_call and nc_emit_function lay it out: what *)
(* the debugger's reading of frames and save areas relies on.               *)

After(image, a) == a + image.code[a].size
Earlier(image, a, op) ==
  {b \in DOMAIN image.code :
     b < a /\ image.code[b].op = op /\ FunctionIn(image, b) = FunctionIn(image, a)}

(* The registers whose values a call has on the stack at an address: pushes *)
(* and pops balance along the code of a function.                           *)
Height(image, a) ==
  Cardinality(Earlier(image, a, "push")) - Cardinality(Earlier(image, a, "pop"))
Area(image, a) ==
  [j \in 1..Height(image, a) |->
     LET pushes == {b \in Earlier(image, a, "push") : Height(image, b) = j - 1}
         last == CHOOSE b \in pushes : \A c \in pushes : c <= b
     IN  image.code[last].reg]

(* The variables that live in registers, and those that have their values   *)
(* back among the POPs behind a call; elsewhere all of them have.           *)
LocalRegs(image) == {image.symbols[j].reg : j \in DOMAIN image.symbols}
Restored(image, a) ==
  LET Between(c, x) == c < x /\ x < a
      calls == {c \in DOMAIN image.code :
                  /\ c < a /\ image.code[c].op = "call"
                  /\ \A x \in DOMAIN image.code : Between(c, x) => image.code[x].op = "pop"}
  IN  {image.code[b].reg : b \in {x \in DOMAIN image.code : \E c \in calls : Between(c, x)}}
Trusted(image, a) ==
  IF image.code[a].op \in {"pop", "call"} THEN Restored(image, a) \cap LocalRegs(image)
  ELSE LocalRegs(image)

(* Control stays in a function but for CALL and RET.                        *)
StaysInFunction(image, a) ==
  LET i == image.code[a]
      Inside(b) == b \in DOMAIN image.code /\ FunctionIn(image, b) = FunctionIn(image, a)
  IN  /\ i.op \in {"push", "pop"} => i.size = 2
      /\ i.op = "call" => i.size = CallInstructionSize
      /\ i.op \notin {"jmp", "ret", "halt"} => Inside(After(image, a))
      /\ i.op \in {"jmp", "je"} => Inside(i.target)
      /\ i.op \in {"jmp", "je", "call"} => i.target < MemSize
      /\ i.op = "call" => i.target \in DOMAIN image.code /\ FunctionIn(image, i.target) # 0
      /\ i.op = "halt" <=> FunctionIn(image, a) = 0 /\ i.op # "call"

(* Every word pushed is popped, whatever way is taken through a function.   *)
Balances(image, a) ==
  LET i == image.code[a]
      area == Area(image, a)
  IN  /\ area \in Seq(0..(LastSaved + 1)) /\ Len(area) <= FrameWords
      /\ i.op = "push" => Area(image, After(image, a)) = Append(area, i.reg)
      /\ i.op = "pop" => /\ area # <<>>
                         /\ Area(image, After(image, a)) = SubSeq(area, 1, Len(area) - 1)
      /\ i.op \notin {"push", "pop", "jmp", "ret", "halt"} => Area(image, After(image, a)) = area
      /\ i.op \in {"jmp", "je"} => Area(image, i.target) = area
      /\ i.op = "call" => Area(image, i.target) = <<>>
      /\ i.op = "ret" \/ FunctionIn(image, a) = 0 => area = <<>>

(* Variables change by moves to their registers, never within a call        *)
(* sequence; a call sequence saves all registers and restores them.         *)
KeepsLocals(image, a) ==
  LET i == image.code[a]
      area == Area(image, a)
      next == Trusted(image, After(image, a))
  IN  /\ i.op = "movi" \/ (i.op = "mov" /\ area # <<>>) => i.reg \notin LocalRegs(image)
      /\ i.op = "pop" =>
           IF i.reg = area[Len(area)] THEN next \subseteq Trusted(image, a) \cup {i.reg}
           ELSE next \subseteq Trusted(image, a) \ {i.reg}
      /\ i.op = "call" /\ FunctionIn(image, a) # 0 =>
           /\ Len(area) >= LastSaved
           /\ \A r \in 1..LastSaved : area[Len(area) - LastSaved + r] = r
           /\ next = {}

LaidOut(image) ==
  /\ 0 \in DOMAIN image.code /\ FunctionIn(image, 0) = 0
  /\ LocalRegs(image) \subseteq 1..LastSaved
  /\ \A a \in DOMAIN image.code :
       StaysInFunction(image, a) /\ Balances(image, a) /\ KeepsLocals(image, a)

(* The stack holds as many of these frames as the machine records.          *)
ASSUME LayoutAssumption ==
  /\ FrameWords \in Nat /\ FrameCap * (FrameWords + 1) * Word <= StackTop - StackBase
  /\ \A p \in DOMAIN Programs : LaidOut(Programs[p])

-----------------------------------------------------------------------------
(* One instruction of the image *)

Falls(i) == Plain /\ pc' = pc + i.size
Unset == -1
Entered(i) ==
  [r \in 1..LastSaved |-> IF r <= Image.functions[i.callee].params THEN regs[r] ELSE Unset]

Computes(i) ==
  /\ i.op \in {"movi", "mov"} /\ Falls(i)
  /\ LET v == IF i.op = "movi" THEN i.value ELSE regs[i.from]
     IN /\ regs' = [regs EXCEPT ![i.reg] = v]
        /\ locals' = IF i.op = "mov" /\ i.reg # 0
                     THEN [locals EXCEPT ![Depth][i.reg] = v] ELSE locals

Transfers(i) ==
  /\ UNCHANGED <<regs, locals>>
  /\ \/ i.op = "cmp" /\ Falls(i)
     \/ i.op = "je" /\ (Falls(i) \/ Jump(i.target))
     \/ i.op = "jmp" /\ Jump(i.target)
     \/ i.op = "halt" /\ Halt

Stacks(i) ==
  \/ i.op = "push" /\ Push(regs[i.reg]) /\ UNCHANGED <<regs, locals>>
  \/ /\ i.op = "pop" /\ Pop /\ UNCHANGED locals
     /\ regs' = IF lastStatus' = "OK" THEN [regs EXCEPT ![i.reg] = stack[sp]] ELSE regs

Calls(i) ==
  \/ /\ i.op = "call" /\ Call(i.target) /\ UNCHANGED regs
     /\ locals' = IF lastStatus' = "OK" THEN Append(locals, Entered(i)) ELSE locals
  \/ /\ i.op = "ret" /\ Ret /\ UNCHANGED regs
     /\ locals' = IF lastStatus' = "OK" THEN SubSeq(locals, 1, Len(locals) - 1) ELSE locals

Executes ==
  /\ halted = 0 /\ pc \in DOMAIN Listing
  /\ LET i == Listing[pc] IN Computes(i) \/ Transfers(i) \/ Stacks(i) \/ Calls(i)
  /\ Progress

(* nova_vm_step as the window calls it.                                     *)
StepsOne ==
  \/ running = 0 /\ Executes /\ UNCHANGED <<running, left>>
  \/ StepHalted /\ UNCHANGED <<regs, locals>>
StepEnds == lastStatus' # "OK"

-----------------------------------------------------------------------------
(* Commands.  Done is the end of a handler: RefreshSnapshot, which resolves *)
(* the selected frame anew.                                                *)

Idle == mode = "idle"
Done == mode' = "idle" /\ turns' = 0 /\ start' = [place |-> NoPlace, depth |-> 0] /\ UNCHANGED pending
Refreshed == selected' = Resolve(selected, Len(frames'))

(* Step_Click *)
StepClick ==
  /\ Idle /\ StepsOne /\ Refreshed
  /\ UNCHANGED window

(* Run_Click *)
RunClick ==
  /\ Idle /\ RunStart(RunBudget)
  /\ mode' = "run"
  /\ UNCHANGED <<program, mapped, turns, start, pending, regs, selected, locals>>

(* ExecuteSourceStep, up to its loop.                                       *)
SourceStepClick(kind) ==
  /\ Idle /\ (kind = "out" => Depth > 0)
  /\ mode' = kind /\ start' = [place |-> FindSourceRow(pc), depth |-> Depth]
  /\ UNCHANGED <<vars, program, mapped, turns, pending, regs, selected, locals>>

(* Its loop goes on as long as none of the stops in its body holds.         *)
(* Mutant: Over does not skip what is deeper.                               *)
GoesOnDeeper ==
  /\ ~StepEnds
  /\ Len(frames') >= start.depth
  /\ mode = "out" \/ FindSourceRow(pc') \in {NoPlace, start.place}
GoesOn ==
  /\ ~StepEnds
  /\ \/ mode = "over" /\ Len(frames') > start.depth
     \/ /\ Len(frames') >= start.depth
        /\ mode = "out" \/ FindSourceRow(pc') \in {NoPlace, start.place}

(* Mutant: a breakpoint is looked for only where the step began.            *)
AtBreakpointFirst == turns = 0 /\ pc \in breakpoints
AtBreakpoint == turns > 0 /\ pc \in breakpoints

(* Mutant: the turns are not counted.                                       *)
SourceTurnUncounted ==
  /\ mode \in SourceSteps /\ running = 0 /\ ~AtBreakpoint
  /\ StepsOne
  /\ IF GoesOn
     THEN turns' = 1 /\ UNCHANGED <<mode, start, pending, selected>>
     ELSE Done /\ Refreshed
  /\ UNCHANGED <<program, mapped>>
SourceTurn ==
  /\ mode \in SourceSteps /\ running = 0 /\ ~AtBreakpoint
  /\ StepsOne
  /\ IF GoesOn /\ turns + 1 < SourceStepBudget
     THEN turns' = turns + 1 /\ UNCHANGED <<mode, start, pending, selected>>
     ELSE Done /\ Refreshed
  /\ UNCHANGED <<program, mapped>>

(* A breakpoint inside the step is reported by a run of one instruction.    *)
SourceStepPauses ==
  /\ mode \in SourceSteps /\ running = 0 /\ AtBreakpoint
  /\ RunStart(1)
  /\ UNCHANGED <<window, regs, selected, locals>>

(* A turn of nova_vm_run, called by Run or at the end of a source step.     *)
RunTurn ==
  /\ mode \in SourceSteps \cup {"run"} /\ running = 1
  /\ \/ RunStop /\ UNCHANGED <<regs, locals>>
     \/ RunEnd /\ UNCHANGED <<regs, locals>>
     \/ PassesBreakpoint /\ Executes /\ Executed
  /\ IF running' = 1 THEN UNCHANGED <<mode, turns, start, pending, selected>>
     ELSE Done /\ Refreshed
  /\ UNCHANGED <<program, mapped>>

(* Reset_Click: LoadDemoProgram.                                            *)
Loads(p) ==
  /\ ResetAndLoad(0, Programs[p].size)
  /\ regs' = [r \in DOMAIN regs |-> 0] /\ locals' = <<>>
  /\ Refreshed
ResetClick ==
  /\ Idle /\ Loads(program)
  /\ UNCHANGED window

(* ToggleBreakpointAtAddress *)
ToggleAddress(a) ==
  /\ Idle /\ a \in DOMAIN Listing
  /\ IF a \in breakpoints THEN RemoveBreakpoint(a) ELSE AddBreakpoint(a)
  /\ UNCHANGED <<window, regs, selected, locals>>

(* SourceMapList_MouseDoubleClick: all rows of the line and function, set   *)
(* if none of them is, one host call after the other.                       *)
LineRows(place) == {i \in DOMAIN Rows : PlaceOf(Rows[i]) = place}
ToggleLine(place) ==
  /\ Idle /\ LineRows(place) # {}
  /\ pending' = LineRows(place)
  /\ mode' = IF \A i \in pending' : Rows[i].from \notin breakpoints THEN "set" ELSE "unset"
  /\ UNCHANGED <<vars, program, mapped, turns, start, regs, selected, locals>>

ToggleRow(i) ==
  \/ mode = "set" /\ AddBreakpoint(Rows[i].from)
  \/ /\ mode = "unset"
     /\ IF Rows[i].from \in breakpoints THEN RemoveBreakpoint(Rows[i].from) ELSE UNCHANGED vars
LineTurn ==
  \E i \in pending :
    /\ \A j \in pending : i <= j
    /\ ToggleRow(i)
    /\ pending' = pending \ {i}
    /\ mode' = IF pending' = {} THEN "idle" ELSE mode
    /\ UNCHANGED <<program, mapped, turns, start, regs, selected, locals>>

(* CompileCurrentProject, when it succeeds: the views are those of the new  *)
(* image, then the machine is.                                             *)
(* Mutant: the breakpoints of the old image stay.                           *)
CompileKeepsBreakpoints(p) ==
  /\ Idle
  /\ program' = p /\ mapped' = TRUE /\ mode' = "load"
  /\ UNCHANGED <<vars, turns, start, pending, regs, selected, locals>>
Compile(p) ==
  /\ Idle
  /\ program' = p /\ mapped' = TRUE /\ mode' = "clear"
  /\ UNCHANGED <<vars, turns, start, pending, regs, selected, locals>>

CompileTurn ==
  /\ \/ mode = "clear" /\ ClearBreakpoints /\ mode' = "load" /\ UNCHANGED <<regs, selected, locals>>
     \/ mode = "load" /\ Loads(program) /\ mode' = "idle"
  /\ UNCHANGED <<program, mapped, turns, start, pending>>

(* When it fails, ClearSourceDebugViews: machine and breakpoints stay.      *)
CompileFails ==
  /\ Idle /\ mapped' = FALSE
  /\ UNCHANGED <<vars, program, mode, turns, start, pending, regs, selected, locals>>

(* CallStackList_SelectionChanged *)
SelectFrame(k) ==
  /\ Idle /\ k \in 1..Depth /\ selected' = k
  /\ UNCHANGED <<vars, window, regs, locals>>

-----------------------------------------------------------------------------
SessionInit ==
  /\ Init
  /\ program \in DOMAIN Programs /\ mapped = TRUE
  /\ regs = [r \in 0..(LastSaved + 1) |-> 0]
  /\ selected = 0 /\ mode = "idle" /\ turns = 0 /\ start = [place |-> NoPlace, depth |-> 0]
  /\ pending = {} /\ locals = <<>>

Handler == SourceTurn \/ SourceStepPauses \/ RunTurn \/ LineTurn \/ CompileTurn
Clicks ==
  \/ StepClick \/ RunClick \/ ResetClick \/ CompileFails
  \/ \E kind \in SourceSteps : SourceStepClick(kind)
  \/ \E a \in ToggleAddresses : ToggleAddress(a)
  \/ \E place \in ToggleLines : ToggleLine(place)
  \/ \E p \in DOMAIN Programs : Compile(p)
  \/ \E k \in Picks : SelectFrame(k)
SessionNext == Handler \/ Clicks

(* A handler runs on the UI thread until it returns.                        *)
SessionSpec == SessionInit /\ [][SessionNext]_sessionVars /\ WF_sessionVars(Handler)

-----------------------------------------------------------------------------
(* Properties *)

(* The window's own fields keep values of their kinds; between commands the *)
(* selected frame is one of the call stack.                                *)
SessionTypeOK ==
  /\ program \in DOMAIN Programs /\ mapped \in BOOLEAN
  /\ regs \in [0..(LastSaved + 1) -> Words]
  /\ selected \in 0..FrameCap /\ (mode = "idle" => selected <= Depth)
  /\ mode \in SourceSteps \cup HostCalls \cup {"idle", "run"}
  /\ turns \in 0..(SourceStepBudget - 1) /\ start.depth \in 0..FrameCap
  /\ locals \in Seq([1..LastSaved -> Words \cup {Unset}]) /\ Len(locals) = Depth

(* The call stack names, for every frame, the function that runs there: a   *)
(* waiting frame stands at the CALL of the frame above it, and the target   *)
(* of a frame and its address lie in one function (RefreshCallStack,         *)
(* ShowSelectedFrameSource).                                               *)
FramesNameCalls ==
  mode \notin HostCalls =>
    \A k \in 1..Depth :
      /\ FunctionAt(FrameAddress(k)) = FunctionAt(frames[k].target)
      /\ k < Depth => /\ FrameAddress(k) \in DOMAIN Listing
                      /\ Listing[FrameAddress(k)].op = "call"
                      /\ Listing[FrameAddress(k)].target = frames[k + 1].target

(* Between the first POP of an argument and the last POP behind the call    *)
(* the registers hold what is passed, or what the callee left.              *)
Marshalling == Listing[pc].op \in {"pop", "call"}
ShowsLocals(k) ==
  \A r \in Watches(k) : locals[k][r] # Unset => ReadRegister(k, r) = locals[k][r]

(* WATCH shows the variables of the selected frame with the values the      *)
(* program gave them, registers of waiting frames reconstructed from the    *)
(* stack of the frame above (RefreshWatchValues), except for the frame that *)
(* is in the middle of a call sequence.                                    *)
WatchesTrue ==
  mode \notin HostCalls =>
    \A k \in 1..Depth : (k = Depth /\ Marshalling) \/ ShowsLocals(k)

(* All three views of a call, the frame table beside the stack words, the   *)
(* call stack list and WATCH, tell of the same calls.                       *)
FramesTrue == FramesMirrorStack /\ FramesNameCalls /\ WatchesTrue

(* A statement begins at a, and of those that do the innermost one (the     *)
(* shortest, the first of them) is on another line than the step began.     *)
Innermost(i, a) ==
  /\ Rows[i].from = a /\ Span(Rows[i]) > 0
  /\ \A j \in DOMAIN Rows : Rows[j].from = a /\ Span(Rows[j]) > 0 =>
       Span(Rows[i]) < Span(Rows[j]) \/ (Span(Rows[i]) = Span(Rows[j]) /\ i <= j)
StatementElsewhere(a) ==
  \E i \in DOMAIN Rows : Innermost(i, a) /\ PlaceOf(Rows[i]) # start.place
StepContinues ==
  /\ mode \in {"into", "over"} /\ mode' = mode /\ running' = 0
  /\ mode = "into" \/ Depth' <= start.depth

(* Step Into stops at the first statement of another line, in whatever      *)
(* function, and Step Over at the first in its own frame: neither goes on   *)
(* past the beginning of one.                                              *)
NoStatementMissed ==
  [][StepContinues => ~StatementElsewhere(pc')]_sessionVars

(* Step Over and Step Out end in a deeper call than they began in only at a *)
(* breakpoint, a fault or the end of the program or of their budget.        *)
NoStepEndsDeeper ==
  [][mode' = "idle" /\ mode \in {"over", "out"} /\ Len(frames') > start.depth
     => lastStatus' # "OK" \/ turns + 1 = SourceStepBudget]_sessionVars

(* Only the first instruction of a command may be one at a breakpoint: what *)
(* a source step checks itself and what nova_vm_run checks fit together.    *)
FirstOfCommand == IF mode = "run" THEN left = RunBudget ELSE turns = 0
BreakpointsPaused ==
  [][~FirstOfCommand /\ mode \in SourceSteps \cup {"run"} /\ pc \in breakpoints
     => UNCHANGED <<pc, sp, stack, frames, regs>>]_sessionVars

(* A breakpoint belongs to the image it was set in: nothing else is reported*)
(* as one, also after compiling anew.                                      *)
BreakpointsInCode == mode \notin HostCalls => breakpoints \subseteq DOMAIN Listing

(* Every command ends, whatever the program does.                           *)
CommandsEnd == mode # "idle" ~> mode = "idle"

(* What the smoke sequence of docs/DEVELOPMENT_HISTORY.md asks to confirm   *)
(* after a source step: the WATCH values of the selected frame.             *)
WatchCoherentAfterStep ==
  [][mode' = "idle" /\ mode \in SourceSteps /\ mapped /\ selected' > 0
     => ShowsLocals(selected)']_sessionVars

(* And the current source: the frame shown is the one that runs, as long as *)
(* the user has not picked another.                                        *)
SourceFollowsSteps ==
  [][mode' = "idle" /\ mode \in SourceSteps => selected' = Len(frames')]_sessionVars
=============================================================================
