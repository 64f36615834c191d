----------------------------- MODULE NovaEvents -----------------------------
(***************************************************************************)
(* Console output: stores of the guest to the MMIO console address become   *)
(* events in a ring of NOVA_EVENT_CAPACITY entries (native/src/nova_vm.c),  *)
(* which Studio polls empty after each run or step and appends to its       *)
(* console (studio/MainWindow.xaml.cs).                                     *)
(*                                                                         *)
(* An event is told apart by its character and the instruction count it     *)
(* carries.  The rest of the program is any number of instructions that do  *)
(* not write to the console.  MaxCount bounds the instructions executed     *)
(* between two resets.                                                     *)
(***************************************************************************)
EXTENDS Integers, Sequences, Functions

CONSTANTS
  Capacity,            (* NOVA_EVENT_CAPACITY                               *)
  Console, MemSize,    (* NOVA_MMIO_CONSOLE = NOVA_MMIO_BASE, memory size   *)
  Addresses,           (* addresses of the stores the guest makes           *)
  Chars,               (* characters it writes                              *)
  Budget,              (* instructions in one nova_vm_run of Studio         *)
  MaxCount

ASSUME EventsAssumption ==
  /\ Capacity \in Nat /\ Capacity >= 2
  /\ Console \in Nat /\ MemSize \in Nat /\ Console + 4 <= MemSize
  /\ Addresses \subseteq Nat /\ Budget \in Nat /\ MaxCount \in Nat

VARIABLES
  ring, read, write,   (* vm->events, event_read, event_write               *)
  count,               (* vm->instruction_count                             *)
  phase, left,         (* Studio: idle, in a run with left to go, draining  *)
  console,             (* the text of Studio's console                      *)
  printed              (* history: the events of the guest since the reset  *)

vars == <<ring, read, write, count, phase, left, console, printed>>

Empty == [char |-> "none", count |-> 0]
Event(char) == [char |-> char, count |-> count + 1]
Indices == 0..(Capacity - 1)
After(i) == (i + 1) % Capacity

-----------------------------------------------------------------------------
(* nova_vm.c *)

(* nova_enqueue_event.  The instruction that stores has been counted.       *)
(* Mutants: a full ring refuses the event, the ring drops one too early.    *)
EnqueueRefuses(event) ==
  /\ ring' = IF After(write) = read THEN ring ELSE [ring EXCEPT ![write] = event]
  /\ write' = IF After(write) = read THEN write ELSE After(write)
  /\ printed' = Append(printed, event)
  /\ UNCHANGED read
EnqueueEarly(event) ==
  /\ read' = IF After(After(write)) = read THEN After(read) ELSE read
  /\ ring' = [ring EXCEPT ![write] = event]
  /\ write' = After(write)
  /\ printed' = Append(printed, event)
Enqueue(event) ==
  /\ read' = IF After(write) = read THEN After(read) ELSE read
  /\ ring' = [ring EXCEPT ![write] = event]
  /\ write' = After(write)
  /\ printed' = Append(printed, event)

NoEvent == UNCHANGED <<ring, read, write, printed>>

(* nova_write_u8 and nova_write_u32: a word that starts in the MMIO region  *)
(* is stored byte by byte, any other as plain memory.  A store out of range *)
(* is a fault.                                                             *)
InRange(a, width) == a < MemSize /\ width <= MemSize - a
HitsConsole(a, width) ==
  IF width = 1 THEN a = Console
  ELSE a >= Console /\ Console \in a..(a + 3)

Store(a, width, char) ==
  IF InRange(a, width) /\ HitsConsole(a, width) THEN Enqueue(Event(char))
  ELSE NoEvent

(* nova_vm_step as far as the console goes.                                 *)
Execute ==
  /\ count < MaxCount
  /\ count' = count + 1
  /\ \/ NoEvent
     \/ \E a \in Addresses, width \in {1, 4}, char \in Chars :
          Store(a, width, char)

(* Mutant: the event stays in the ring.                                     *)
PollKeeps ==
  /\ read # write
  /\ console' = Append(console, ring[read])
  /\ UNCHANGED <<ring, read, write>>
Poll ==
  /\ read # write
  /\ console' = Append(console, ring[read])
  /\ read' = After(read)
  /\ UNCHANGED <<ring, write>>

-----------------------------------------------------------------------------
(* MainWindow.xaml.cs *)

(* Run_Click, and ExecuteSourceStep, which has the same budget and may stop *)
(* after any instruction.                                                  *)
RunClick ==
  /\ phase = "idle"
  /\ phase' = "run" /\ left' = Budget
  /\ UNCHANGED <<ring, read, write, count, console, printed>>

(* The run goes on after an instruction that succeeds.                      *)
RunInstruction ==
  /\ phase = "run" /\ left > 0
  /\ Execute
  /\ left' = left - 1
  /\ UNCHANGED <<phase, console>>

(* It returns when the budget is spent, at a breakpoint, and on an           *)
(* instruction that halts or faults, which has been counted.                *)
RunReturns ==
  /\ phase = "run"
  /\ count' \in {count, count + 1} /\ count' <= MaxCount
  /\ phase' = "drain" /\ left' = 0
  /\ UNCHANGED <<ring, read, write, console, printed>>

StepClick ==
  /\ phase = "idle"
  /\ Execute
  /\ phase' = "drain"
  /\ UNCHANGED <<left, console>>

(* DrainEvents polls until the VM has no event left.                        *)
DrainOne ==
  /\ phase = "drain"
  /\ Poll
  /\ UNCHANGED <<count, phase, left, printed>>

(* Mutant: the loop goes on when the ring is empty.                         *)
DrainStays == phase = "drain" /\ read = write /\ UNCHANGED vars
DrainEnd ==
  /\ phase = "drain" /\ read = write
  /\ phase' = "idle"
  /\ UNCHANGED <<ring, read, write, count, left, console, printed>>

(* Reset_Click: nova_vm_reset and a cleared console.                        *)
ResetClick ==
  /\ phase = "idle"
  /\ ring' = [i \in Indices |-> Empty] /\ read' = 0 /\ write' = 0
  /\ count' = 0
  /\ console' = <<>> /\ printed' = <<>>
  /\ UNCHANGED <<phase, left>>

Init ==
  /\ ring = [i \in Indices |-> Empty] /\ read = 0 /\ write = 0
  /\ count = 0
  /\ phase = "idle" /\ left = 0
  /\ console = <<>> /\ printed = <<>>

Click == RunClick \/ StepClick \/ ResetClick
Handler == RunInstruction \/ RunReturns \/ DrainOne \/ DrainEnd
Next == Click \/ Handler

(* A click handler runs to its end on the UI thread.                        *)
Spec == Init /\ [][Next]_vars /\ WF_vars(Handler)

-----------------------------------------------------------------------------
(* Properties *)

(* The events between read and write, oldest first.                         *)
Pending ==
  LET n == (write - read + Capacity) % Capacity
  IN  [i \in 1..n |-> ring[(read + i - 1) % Capacity]]

AllEvents == [char : Chars, count : 1..MaxCount]

(* The ring is a first-in first-out queue of Capacity - 1 events that drops *)
(* its oldest event when full: no index arithmetic loses, duplicates or     *)
(* reorders another one.                                                   *)
Queue == INSTANCE EventQueueSpec
           WITH queue <- Pending, Room <- Capacity - 1, Events <- AllEvents
(* Every step of the ring and of Studio is a step of that queue.            *)
QueueSpec == Queue!Spec

(* What reaches the console is in program order and without repetition,     *)
(* whatever was dropped, across any number of runs and drains.              *)
ConsoleInOrder ==
  \A i, j \in 1..Len(console) : i < j => console[i].count < console[j].count

(* Output is lost only by overflow: when Studio is idle, a character that is *)
(* not on the console was followed by as many others as the ring holds.     *)
OnlyOverflowLoses ==
  phase = "idle" =>
    \A i \in 1..Len(printed) :
      printed[i] \in Range(console) \/ Len(printed) - i >= Capacity - 1

(* DrainEvents ends: polling outpaces a machine that stands still.          *)
DrainEnds == phase = "drain" ~> phase = "idle"
=============================================================================
