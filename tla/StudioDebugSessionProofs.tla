----------------------- MODULE StudioDebugSessionProofs -----------------------
(***************************************************************************)
(* Proofs about the machine, NovaRun, for every memory layout, and about a  *)
(* debugging session on it, StudioDebugSession, for every set of compiled   *)
(* programs.                                                                *)
(* The machine's invariant is split by owner: GuestOK is what instructions  *)
(* maintain, HostOK what the breakpoint calls maintain, LatchOK ties the    *)
(* two together, and FramesMirrorStack relates the frame table to the       *)
(* guest's stack.  Each step of a session is a step of the machine or       *)
(* leaves it alone, so that this invariant carries over; SInv adds what the *)
(* window keeps, and LatchQuiet that inside a command the resume latch is   *)
(* disarmed.                                                                *)
(***************************************************************************)
EXTENDS StudioDebugSession, FiniteSetTheorems, SequenceTheorems, TLAPS

GuestOK ==
  /\ pc \in 0..MemSize /\ halted \in {0, 1} /\ lastStatus \in Statuses
  /\ stack \in [Slots -> Nat]
  /\ frames \in Seq(FrameType) /\ Len(frames) <= FrameCap
  /\ sp \in StackBase..StackTop /\ sp % Word = 0

HostOK ==
  /\ breakpoints \subseteq 0..(MemSize - 1)
  /\ IsFiniteSet(breakpoints) /\ Cardinality(breakpoints) <= BreakCap
  /\ resumePc \in Nat /\ armed \in {0, 1}
  /\ running \in {0, 1} /\ left \in Nat
  /\ reported \in Nat \cup {Nowhere}

LatchOK == RawLoads = 0 => LatchIsReport

RInv == GuestOK /\ HostOK /\ LatchOK /\ FramesMirrorStack

-----------------------------------------------------------------------------
(* Two word boundaries that differ are a word apart.                        *)
LEMMA NextWord ==
  ASSUME NEW a \in Nat, NEW b \in Nat, a % Word = 0, b % Word = 0, a < b
  PROVE  a + Word <= b
  BY SMT DEF Word

(* sp moves by words inside the stack; where it may be read or written is a *)
(* slot.                                                                   *)
LEMMA StackMoves ==
  ASSUME GuestOK
  PROVE  /\ CanPush => sp - Word \in Slots /\ sp - Word \in StackBase..StackTop
                       /\ (sp - Word) % Word = 0
         /\ CanPop => sp \in Slots /\ sp + Word \in StackBase..StackTop
                      /\ (sp + Word) % Word = 0
  BY RunAssumption, SMT DEF GuestOK, CanPush, CanPop, Slots, Word

(* A fetch leaves pc inside memory or just behind it.                       *)
LEMMA FetchStays ==
  ASSUME GuestOK
  PROVE  /\ \A form \in Forms, o \in 0..5 : Fetches(form, o) => At(o) \in 0..MemSize
         /\ RangeValid(pc) => At(0) \in 0..MemSize
  BY RunAssumption DEF GuestOK, Fetches, At, RangeValid

(* The facts about fetching in the shape the fixed forms need.              *)
LEMMA FormStays ==
  ASSUME GuestOK
  PROVE  /\ Operands({0}, 0) => At(0) \in 0..MemSize
         /\ Operands({0, 1}, 1) => At(1) \in 0..MemSize
         /\ Operands({0, 1, 2}, 2) => At(2) \in 0..MemSize
         /\ Operands({0, 4}, 4) => At(4) \in 0..MemSize
  BY RunAssumption DEF GuestOK, Operands, Fetches, At, RangeValid

(* Every fault but a failed return leaves the guest sound.                  *)
LEMMA FailKeeps ==
  ASSUME GuestOK, NEW status \in Errors, NEW at \in 0..MemSize, Fail(status, at)
  PROVE  GuestOK'
  BY DEF GuestOK, Fail, Statuses

(* A store changes only words of the stack.                                 *)
LEMMA StoreKeeps ==
  ASSUME GuestOK, NEW s \in Slots, NEW touched \in Touched(s),
         NEW values \in [touched -> Words], Store(touched, values)
  PROVE  GuestOK'
<1>1. At(2) \in 0..MemSize  BY FormStays DEF Store
<1>2. touched \subseteq Slots  BY DEF Touched
<1>3. \A x \in touched : values[x] \in Nat  BY RunAssumption
<1>4. stack' \in [Slots -> Nat]  BY <1>2, <1>3 DEF Store, GuestOK
<1> QED BY <1>1, <1>4 DEF Store, Ok, GuestOK, Statuses

(* PUSH writes a slot and moves sp to it, or faults.                       *)
LEMMA PushKeeps ==
  ASSUME GuestOK, NEW v \in Words, Push(v)
  PROVE  GuestOK'
<1>1. At(1) \in 0..MemSize  BY FormStays DEF Push
<1>2. CASE CanPush
  <2>1. stack' \in [Slots -> Nat]
    BY <1>2, StackMoves, RunAssumption DEF Push, Pushed, GuestOK
  <2>2. sp' \in StackBase..StackTop /\ sp' % Word = 0
    BY <1>2, StackMoves DEF Push, Pushed
  <2> QED BY <1>1, <1>2, <2>1, <2>2 DEF Push, Ok, GuestOK, Statuses
<1>3. CASE ~CanPush
  BY <1>1, <1>3, FailKeeps DEF Push, Errors
<1> QED BY <1>2, <1>3

(* POP moves sp up by a word, or faults.                                   *)
LEMMA PopKeeps ==
  ASSUME GuestOK, Pop
  PROVE  GuestOK'
<1>1. At(1) \in 0..MemSize  BY FormStays DEF Pop
<1>2. CASE CanPop
  BY <1>1, <1>2, StackMoves DEF Pop, Ok, GuestOK, Statuses
<1>3. CASE ~CanPop
  BY <1>1, <1>3, FailKeeps DEF Pop, Errors
<1> QED BY <1>2, <1>3

(* CALL records a frame whose slot it has just written, or faults.         *)
LEMMA CallKeeps ==
  ASSUME GuestOK, NEW t \in Targets, Call(t)
  PROVE  GuestOK'
<1>1. At(4) \in 0..MemSize  BY FormStays DEF Call
<1>2. CASE RangeValid(t) /\ Len(frames) < FrameCap /\ CanPush
  <2>1. Ok(t) /\ Pushed(At(4)) /\ frames' = Append(frames, Frame(t))
    BY <1>2, RunAssumption DEF Call, GuestOK
  <2>2. stack' \in [Slots -> Nat]
    BY <1>1, <1>2, <2>1, StackMoves DEF Pushed, GuestOK
  <2>3. sp' \in StackBase..StackTop /\ sp' % Word = 0
    BY <1>2, <2>1, StackMoves DEF Pushed
  <2>4. Frame(t) \in FrameType
    BY <1>1, <1>2, StackMoves, RunAssumption DEF Frame, FrameType
  <2>5. frames' \in Seq(FrameType) /\ Len(frames') <= FrameCap
    BY <1>2, <2>1, <2>4, RunAssumption DEF GuestOK
  <2>6. t \in 0..MemSize  BY <1>2, RunAssumption DEF RangeValid
  <2> QED BY <2>1, <2>2, <2>3, <2>5, <2>6 DEF Ok, GuestOK, Statuses
<1>3. CASE ~(RangeValid(t) /\ Len(frames) < FrameCap /\ CanPush)
  <2>1. PICK status \in {"BOUNDS", "STACK"} : Fail(status, At(4))
    BY <1>3, RunAssumption DEF Call, GuestOK
  <2> QED BY <1>1, <2>1, FailKeeps DEF Errors
<1> QED BY <1>2, <1>3

(* What RET does, case by case.                                             *)
LEMMA RetCases ==
  ASSUME GuestOK, Ret
  PROVE  \/ Fail("STACK", At(0))
         \/ /\ frames # <<>> /\ CanPop
            /\ \E status \in {"BOUNDS", "STACK"} : RetFail(status)
            /\ RangeValid(stack[sp]) => TopFrame.returnAddress # stack[sp]
         \/ /\ frames # <<>> /\ CanPop /\ RangeValid(stack[sp])
            /\ TopFrame.returnAddress = stack[sp]
            /\ Ok(stack[sp]) /\ sp' = sp + Word /\ stack' = stack
            /\ frames' = SubSeq(frames, 1, Len(frames) - 1)
  BY DEF Ret

(* Dropping the last frame leaves a frame table.                            *)
LEMMA DropFrame ==
  ASSUME GuestOK, frames # <<>>, NEW rest, rest = SubSeq(frames, 1, Len(frames) - 1)
  PROVE  /\ rest \in Seq(FrameType) /\ Len(rest) = Len(frames) - 1
         /\ Len(frames) \in Nat \ {0}
         /\ \A i \in 1..Len(rest) : rest[i] = frames[i]
<1>1. frames \in Seq(FrameType)  BY DEF GuestOK
<1>2. Len(frames) \in Nat \ {0}  BY <1>1, EmptySeq
<1>3. \A i \in 1..Len(frames) : frames[i] \in FrameType
  BY <1>1, ElementOfSeq
<1>4. \A i \in 1..(Len(frames) - 1) : frames[i] \in FrameType
  BY <1>2, <1>3
<1>5. /\ rest \in Seq(FrameType)
      /\ Len(rest) = IF 1 <= Len(frames) - 1 THEN Len(frames) - 1 - 1 + 1 ELSE 0
      /\ \A i \in 1..(Len(frames) - 1 - 1 + 1) : rest[i] = frames[1 + i - 1]
  BY <1>2, <1>4, SubSeqProperties
<1>6. Len(rest) = Len(frames) - 1
  <2> DEFINE n == Len(frames)
  <2>1. n \in Nat /\ n >= 1  BY <1>2
  <2>2. Len(rest) = IF 1 <= n - 1 THEN n - 1 - 1 + 1 ELSE 0  BY <1>5
  <2> HIDE DEF n
  <2>3. Len(rest) = n - 1  BY <2>1, <2>2
  <2> QED BY <2>3 DEF n
<1>7. ASSUME NEW i \in 1..Len(rest) PROVE rest[i] = frames[i]
  BY <1>2, <1>5, <1>6
<1> QED BY <1>2, <1>5, <1>6, <1>7

(* RET drops a frame, or faults with or without moving sp.                 *)
LEMMA RetKeeps ==
  ASSUME GuestOK, Ret
  PROVE  GuestOK'
<1>1. At(0) \in 0..MemSize  BY FormStays DEF Ret
<1>2. CASE Fail("STACK", At(0))
  BY <1>1, <1>2, FailKeeps DEF Errors
<1>3. CASE CanPop /\ \E status \in {"BOUNDS", "STACK"} : RetFail(status)
  BY <1>1, <1>3, StackMoves DEF RetFail, GuestOK, Statuses, Errors
<1>4. CASE /\ frames # <<>> /\ CanPop /\ RangeValid(stack[sp])
           /\ Ok(stack[sp]) /\ sp' = sp + Word /\ stack' = stack
           /\ frames' = SubSeq(frames, 1, Len(frames) - 1)
  <2>1. stack[sp] \in 0..MemSize
    BY <1>4, StackMoves, RunAssumption DEF GuestOK, RangeValid
  <2>2. frames' \in Seq(FrameType) /\ Len(frames') <= FrameCap
    BY <1>4, DropFrame, RunAssumption DEF GuestOK
  <2> QED BY <1>4, <2>1, <2>2, StackMoves DEF Ok, GuestOK, Statuses
<1> QED BY <1>2, <1>3, <1>4, RetCases

(* Every instruction, fault and all, leaves the guest sound.                *)
LEMMA InstructionKeeps ==
  ASSUME GuestOK, Instruction
  PROVE  GuestOK'
<1>1. CASE FetchFault
  <2>1. PICK at \in 0..MemSize : Fail("BOUNDS", at)
    BY <1>1, FetchStays DEF FetchFault, GuestOK
  <2> QED BY <2>1, FailKeeps DEF Errors
<1>2. CASE Trap
  <2>1. PICK at \in 0..MemSize : Fail("TRAP", at)
    BY <1>2, FetchStays DEF Trap, Operands
  <2> QED BY <2>1, FailKeeps DEF Errors
<1>3. CASE Plain
  <2>1. PICK at \in 0..MemSize : Ok(at) /\ UNCHANGED <<sp, stack, frames>>
    BY <1>3, FetchStays DEF Plain, Operands
  <2> QED BY <2>1 DEF Ok, GuestOK, Statuses
<1>4. CASE Halt
  BY <1>4, FormStays DEF Halt, GuestOK, Statuses
<1>5. CASE Pop  BY <1>5, PopKeeps
<1>6. CASE Ret  BY <1>6, RetKeeps
<1>7. ASSUME NEW t \in Targets, Jump(t) PROVE GuestOK'
  <2>1. CASE RangeValid(t)
    BY <1>7, <2>1, RunAssumption DEF Jump, Ok, RangeValid, GuestOK, Statuses
  <2>2. CASE ~RangeValid(t)
    BY <1>7, <2>2, FormStays, FailKeeps DEF Jump, Errors
  <2> QED BY <2>1, <2>2
<1>8. ASSUME NEW t \in Targets, Call(t) PROVE GuestOK'
  BY <1>8, CallKeeps
<1>9. ASSUME NEW v \in Words, Push(v) PROVE GuestOK'
  BY <1>9, PushKeeps
<1>10. ASSUME NEW s \in Slots, NEW touched \in Touched(s),
              NEW values \in [touched -> Words], Store(touched, values)
       PROVE  GuestOK'
  BY <1>10, StoreKeeps
<1> QED BY <1>1, <1>2, <1>3, <1>4, <1>5, <1>6, <1>7, <1>8, <1>9, <1>10
        DEF Instruction

-----------------------------------------------------------------------------
(* The frames and the stack of a disciplined guest *)

(* The frame table as the discipline needs it.                              *)
LEMMA FrameFacts ==
  ASSUME GuestOK
  PROVE  /\ Len(frames) \in Nat
         /\ \A i \in 1..Len(frames) : /\ frames[i] \in FrameType
                                     /\ frames[i].stackPointer \in Slots
         /\ frames # <<>> => Len(frames) \in 1..Len(frames)
<1>1. frames \in Seq(FrameType)  BY DEF GuestOK
<1>2. Len(frames) \in Nat /\ (frames # <<>> => Len(frames) \in Nat \ {0})
  BY <1>1, EmptySeq
<1>3. \A i \in 1..Len(frames) : frames[i] \in FrameType
  BY <1>1, ElementOfSeq
<1> QED BY <1>2, <1>3 DEF FrameType

(* A slot at or above sp lies above the next word to be pushed.             *)
LEMMA AboveNextPush ==
  ASSUME GuestOK, NEW a \in Slots, sp <= a
  PROVE  sp - Word < a /\ sp - Word <= a
<1>1. a \in Int /\ sp \in Int  BY RunAssumption DEF Slots, GuestOK
<1> QED BY <1>1 DEF Word

(* An instruction that leaves sp, the stack and the frames alone.           *)
LEMMA MirrorStays ==
  ASSUME FramesMirrorStack, UNCHANGED <<sp, stack, frames>>
  PROVE  FramesMirrorStack'
  BY DEF FramesMirrorStack, FramesNest, SlotsHoldReturns, RangeValid

(* A fault before anything is popped.                                      *)
LEMMA MirrorFail ==
  ASSUME FramesMirrorStack, NEW status, NEW at, Fail(status, at)
  PROVE  FramesMirrorStack'
  BY MirrorStays DEF Fail

(* A disciplined store misses the return slots.                            *)
LEMMA MirrorStore ==
  ASSUME GuestOK, FramesMirrorStack, NEW s \in Slots, NEW touched \in Touched(s),
         NEW values \in [touched -> Words], Store(touched, values)
  PROVE  FramesMirrorStack'
<1> SUFFICES ASSUME Disciplined = 1
             PROVE  FramesNest' /\ SlotsHoldReturns'
  BY DEF FramesMirrorStack
<1>1. FramesNest /\ SlotsHoldReturns  BY DEF FramesMirrorStack
<1>2. sp' = sp /\ frames' = frames  BY DEF Store
<1>3. \A i \in 1..Len(frames) : stack'[frames[i].stackPointer]
                                = stack[frames[i].stackPointer]
  <2> TAKE i \in 1..Len(frames)
  <2>1. frames[i].stackPointer \in Slots  BY FrameFacts
  <2>2. frames[i].stackPointer \notin touched  BY DEF Store, ReturnSlots
  <2> QED BY <2>1, <2>2 DEF Store
<1> QED BY <1>1, <1>2, <1>3 DEF FramesNest, SlotsHoldReturns, RangeValid

(* PUSH writes below every return slot.                                    *)
LEMMA MirrorPush ==
  ASSUME GuestOK, FramesMirrorStack, NEW v \in Words, Push(v)
  PROVE  FramesMirrorStack'
<1>1. CASE ~CanPush  BY <1>1, MirrorFail DEF Push
<1>2. CASE CanPush
  <2> SUFFICES ASSUME Disciplined = 1
               PROVE  FramesNest' /\ SlotsHoldReturns'
    BY DEF FramesMirrorStack
  <2>1. FramesNest /\ SlotsHoldReturns  BY DEF FramesMirrorStack
  <2>2. Pushed(v) /\ frames' = frames  BY <1>2 DEF Push
  <2>3. \A i \in 1..Len(frames) : /\ sp - Word < frames[i].stackPointer
                                  /\ sp - Word <= frames[i].stackPointer
                                  /\ frames[i].stackPointer \in Slots
    BY <2>1, FrameFacts, AboveNextPush DEF FramesNest
  <2>4. \A i \in 1..Len(frames) : stack'[frames[i].stackPointer]
                                  = stack[frames[i].stackPointer]
    BY <2>2, <2>3 DEF Pushed, GuestOK
  <2>5. SlotsHoldReturns'
    BY <2>1, <2>2, <2>4 DEF SlotsHoldReturns, RangeValid
  <2>6. FramesNest'
    BY <2>1, <2>2, <2>3 DEF FramesNest, Pushed
  <2> QED BY <2>5, <2>6
<1> QED BY <1>1, <1>2

(* sp can move up a word without passing a return slot other than the       *)
(* innermost.                                                              *)
LEMMA RoomAbove ==
  ASSUME GuestOK, FramesNest, NEW i \in 1..Len(frames),
         i < Len(frames) \/ sp < frames[i].stackPointer
  PROVE  sp + Word <= frames[i].stackPointer
<1>1. /\ Len(frames) \in 1..Len(frames) /\ Len(frames) \in Nat
      /\ frames[i].stackPointer \in Slots
      /\ frames[Len(frames)].stackPointer \in Slots
  BY FrameFacts
<1>2. sp < frames[i].stackPointer
  <2>1. i < Len(frames) => /\ frames[Len(frames)].stackPointer < frames[i].stackPointer
                           /\ sp <= frames[Len(frames)].stackPointer
    <3>1. \A j \in 1..Len(frames) :
            /\ i < j => frames[j].stackPointer < frames[i].stackPointer
            /\ sp <= frames[j].stackPointer
      BY DEF FramesNest
    <3> QED BY <1>1, <3>1
  <2>2. /\ sp \in Int /\ frames[i].stackPointer \in Int
        /\ frames[Len(frames)].stackPointer \in Int
    BY <1>1, RunAssumption DEF Slots, GuestOK, Word
  <2> QED BY <2>1, <2>2
<1>3. /\ sp \in Nat /\ frames[i].stackPointer \in Nat
      /\ frames[i].stackPointer % Word = 0 /\ sp % Word = 0
  BY <1>1, RunAssumption DEF Slots, GuestOK, Word
<1> QED BY <1>2, <1>3, NextWord

(* POP stops at the innermost return slot.                                 *)
LEMMA MirrorPop ==
  ASSUME GuestOK, FramesMirrorStack, Pop
  PROVE  FramesMirrorStack'
<1>1. CASE ~CanPop  BY <1>1, MirrorFail DEF Pop
<1>2. CASE CanPop
  <2> SUFFICES ASSUME Disciplined = 1
               PROVE  FramesNest' /\ SlotsHoldReturns'
    BY DEF FramesMirrorStack
  <2>1. FramesNest /\ SlotsHoldReturns  BY DEF FramesMirrorStack
  <2>2. sp' = sp + Word /\ stack' = stack /\ frames' = frames
    BY <1>2 DEF Pop
  <2>3. \A i \in 1..Len(frames) : sp + Word <= frames[i].stackPointer
    <3> SUFFICES ASSUME NEW i \in 1..Len(frames)
                 PROVE  sp + Word <= frames[i].stackPointer
      OBVIOUS
    <3>1. frames # <<>> /\ Len(frames) \in Nat  BY FrameFacts
    <3>2. sp < frames[Len(frames)].stackPointer  BY <3>1 DEF Pop, TopFrame
    <3> QED BY <2>1, <3>1, <3>2, RoomAbove
  <2> QED BY <2>1, <2>2, <2>3 DEF FramesNest, SlotsHoldReturns, RangeValid
<1> QED BY <1>1, <1>2

(* A disciplined call stores the address it recorded, and the address is    *)
(* one a return can go to: the image ends below the stack.                  *)
LEMMA MirrorCall ==
  ASSUME GuestOK, FramesMirrorStack, NEW t \in Targets, Call(t)
  PROVE  FramesMirrorStack'
<1>1. CASE RangeValid(t) /\ Len(frames) < FrameCap /\ CanPush
  <2> SUFFICES ASSUME Disciplined = 1
               PROVE  FramesNest' /\ SlotsHoldReturns'
    BY DEF FramesMirrorStack
  <2>1. FramesNest /\ SlotsHoldReturns  BY DEF FramesMirrorStack
  <2>2. Pushed(At(4)) /\ frames' = Append(frames, Frame(t))
    BY <1>1, FrameFacts, RunAssumption DEF Call
  <2>3. sp - Word \in Slots  BY <1>1, StackMoves
  <2>4. RangeValid(At(4)) /\ At(4) \in Nat
    BY RunAssumption, ImageAssumption
       DEF Call, Operands, Fetches, At, RangeValid, GuestOK, Word
  <2>5. Frame(t) \in FrameType
    BY <2>3, <2>4, RunAssumption DEF Frame, FrameType
  <2>6. frames \in Seq(FrameType)  BY DEF GuestOK
  <2>7. /\ Len(frames') = Len(frames) + 1
        /\ \A i \in 1..Len(frames) : frames'[i] = frames[i]
        /\ frames'[Len(frames) + 1] = Frame(t)
    BY <2>2, <2>5, <2>6, AppendProperties
  <2>8. \A i \in 1..Len(frames) : /\ frames[i].stackPointer \in Slots
                                  /\ sp - Word < frames[i].stackPointer
    BY <2>1, FrameFacts, AboveNextPush DEF FramesNest
  <2>9. \A i \in 1..Len(frames') :
          i \in 1..Len(frames) \/ i = Len(frames) + 1
    BY <2>7, FrameFacts
  <2>10. Frame(t).stackPointer = sp - Word /\ Frame(t).returnAddress = At(4)
    BY DEF Frame
  <2>11. FramesNest'
    <3>1. \A i \in 1..Len(frames') : sp' <= frames'[i].stackPointer
      BY <2>2, <2>3, <2>7, <2>8, <2>9, <2>10, RunAssumption DEF Pushed, Slots, Word
    <3>2. ASSUME NEW i \in 1..Len(frames'), NEW j \in 1..Len(frames'), i < j
          PROVE  frames'[j].stackPointer < frames'[i].stackPointer
      <4>1. i \in 1..Len(frames)  BY <2>7, <3>2, FrameFacts
      <4>2. CASE j \in 1..Len(frames)
        BY <2>1, <2>7, <3>2, <4>1, <4>2 DEF FramesNest
      <4>3. CASE j = Len(frames) + 1
        BY <2>7, <2>8, <2>10, <4>1, <4>3
      <4> QED BY <2>9, <4>2, <4>3
    <3> QED BY <3>1, <3>2 DEF FramesNest
  <2>12. SlotsHoldReturns'
    <3> SUFFICES ASSUME NEW i \in 1..Len(frames')
                 PROVE  /\ stack'[frames'[i].stackPointer] = frames'[i].returnAddress
                        /\ RangeValid(frames'[i].returnAddress)
      BY DEF SlotsHoldReturns, RangeValid
    <3>1. CASE i \in 1..Len(frames)
      <4>1. stack'[frames[i].stackPointer] = stack[frames[i].stackPointer]
        BY <2>2, <2>8, <3>1 DEF Pushed, GuestOK
      <4> QED BY <2>1, <2>7, <3>1, <4>1 DEF SlotsHoldReturns
    <3>2. CASE i = Len(frames) + 1
      <4>1. stack'[sp - Word] = At(4)
        BY <2>2, <2>3 DEF Pushed, GuestOK
      <4> QED BY <2>4, <2>7, <2>10, <3>2, <4>1
    <3> QED BY <2>9, <3>1, <3>2
  <2> QED BY <2>11, <2>12
<1>2. CASE ~(RangeValid(t) /\ Len(frames) < FrameCap /\ CanPush)
  <2>1. PICK status \in {"BOUNDS", "STACK"} : Fail(status, At(4))
    BY <1>2, FrameFacts, RunAssumption DEF Call
  <2> QED BY <2>1, MirrorFail
<1> QED BY <1>1, <1>2

(* A disciplined return with a frame active goes through.                   *)
LEMMA ReturnGoesThrough ==
  ASSUME GuestOK, FramesMirrorStack, Disciplined = 1, Ret, frames # <<>>
  PROVE  /\ Ok(stack[sp]) /\ sp' = sp + Word /\ stack' = stack
         /\ frames' = SubSeq(frames, 1, Len(frames) - 1)
<1>1. Len(frames) \in 1..Len(frames) /\ TopFrame.stackPointer \in Slots
  BY FrameFacts DEF TopFrame
<1>2. sp = TopFrame.stackPointer  BY DEF Ret
<1>3. stack[sp] = TopFrame.returnAddress /\ RangeValid(stack[sp])
  BY <1>1, <1>2 DEF FramesMirrorStack, SlotsHoldReturns, TopFrame
<1>4. CanPop  BY <1>1, <1>2, RunAssumption DEF CanPop, Slots, Word
<1> QED BY <1>3, <1>4 DEF Ret

(* RET uncovers the frame below.                                           *)
LEMMA MirrorRet ==
  ASSUME GuestOK, FramesMirrorStack, Ret
  PROVE  FramesMirrorStack'
<1>1. CASE frames = <<>>  BY <1>1, MirrorFail DEF Ret
<1>2. CASE frames # <<>>
  <2> SUFFICES ASSUME Disciplined = 1
               PROVE  FramesNest' /\ SlotsHoldReturns'
    BY DEF FramesMirrorStack
  <2>1. FramesNest /\ SlotsHoldReturns  BY DEF FramesMirrorStack
  <2>2. /\ sp' = sp + Word /\ stack' = stack
        /\ frames' = SubSeq(frames, 1, Len(frames) - 1)
    BY <1>2, ReturnGoesThrough
  <2>3. /\ Len(frames') = Len(frames) - 1
        /\ Len(frames) \in Nat \ {0}
        /\ \A i \in 1..Len(frames') : frames'[i] = frames[i]
    BY <1>2, <2>2, DropFrame
  <2>4. \A i \in 1..Len(frames') : i \in 1..Len(frames) /\ i < Len(frames)
    BY <2>3
  <2>5. \A i \in 1..Len(frames') : sp + Word <= frames[i].stackPointer
    BY <2>1, <2>4, RoomAbove
  <2> QED BY <2>1, <2>2, <2>3, <2>4, <2>5
          DEF FramesNest, SlotsHoldReturns, RangeValid
<1> QED BY <1>1, <1>2

(* Every instruction keeps frames and stack in agreement.                  *)
LEMMA InstructionMirrors ==
  ASSUME GuestOK, FramesMirrorStack, Instruction
  PROVE  FramesMirrorStack'
<1>1. CASE FetchFault  BY <1>1, MirrorFail DEF FetchFault
<1>2. CASE Trap  BY <1>2, MirrorFail DEF Trap
<1>3. CASE Plain  BY <1>3, MirrorStays DEF Plain
<1>4. CASE Halt  BY <1>4, MirrorStays DEF Halt
<1>5. CASE Pop  BY <1>5, MirrorPop
<1>6. CASE Ret  BY <1>6, MirrorRet
<1>7. ASSUME NEW t \in Targets, Jump(t) PROVE FramesMirrorStack'
  BY <1>7, MirrorStays, MirrorFail DEF Jump
<1>8. ASSUME NEW t \in Targets, Call(t) PROVE FramesMirrorStack'
  BY <1>8, MirrorCall
<1>9. ASSUME NEW v \in Words, Push(v) PROVE FramesMirrorStack'
  BY <1>9, MirrorPush
<1>10. ASSUME NEW s \in Slots, NEW touched \in Touched(s),
              NEW values \in [touched -> Words], Store(touched, values)
       PROVE  FramesMirrorStack'
  BY <1>10, MirrorStore
<1> QED BY <1>1, <1>2, <1>3, <1>4, <1>5, <1>6, <1>7, <1>8, <1>9, <1>10
        DEF Instruction

-----------------------------------------------------------------------------
(* The breakpoint table and the latch *)

(* A new VM has no breakpoint and an unarmed latch.                        *)
LEMMA HostInit == Init => HostOK /\ LatchOK
<1> SUFFICES ASSUME Init PROVE HostOK /\ LatchOK
  OBVIOUS
<1>1. HostOK
  BY FS_EmptySet, RunAssumption DEF Init, HostOK, Nowhere
<1>2. LatchIsReport
  BY DEF Init, LatchIsReport, Nowhere
<1> QED BY <1>1, <1>2 DEF LatchOK

(* An instruction disarms the latch if it was armed for this pc, which it   *)
(* was if it was armed at all.                                             *)
LEMMA StepLatch ==
  ASSUME GuestOK, HostOK, LatchOK, StepCore
  PROVE  LatchOK'
<1> SUFFICES ASSUME RawLoads = 0
             PROVE  LatchIsReport'
  BY DEF LatchOK
<1>1. LatchIsReport  BY DEF LatchOK
<1>2. armed' = 0
  BY <1>1 DEF StepCore, Progress, LatchIsReport, HostOK
<1>3. reported' = Nowhere  BY DEF StepCore, Progress
<1> QED BY <1>2, <1>3 DEF LatchIsReport

(* An instruction leaves the breakpoint table alone.                       *)
LEMMA StepHost ==
  ASSUME HostOK, StepCore, running' \in {0, 1}, left' \in Nat
  PROVE  HostOK'
  BY DEF HostOK, StepCore, Progress

(* The invariant holds in a new VM.                                        *)
LEMMA InitHolds == Init => RInv
<1> SUFFICES ASSUME Init PROVE RInv
  OBVIOUS
<1>1. GuestOK
  <2>1. <<>> \in Seq(FrameType) /\ Len(<<>>) = 0  BY EmptySeq
  <2> QED BY <2>1, RunAssumption DEF Init, GuestOK, Zeroed, Statuses, Word
<1>2. FramesMirrorStack
  BY DEF Init, FramesMirrorStack, FramesNest, SlotsHoldReturns
<1> QED BY <1>1, <1>2, HostInit DEF RInv

(* A fresh machine: what Reset and a load after it leave.                   *)
LEMMA FreshHolds ==
  ASSUME pc' \in 0..MemSize, sp' = StackTop, halted' = 0, lastStatus' \in Statuses,
         stack' = Zeroed, frames' = <<>>
  PROVE  GuestOK' /\ FramesMirrorStack'
<1>1. <<>> \in Seq(FrameType) /\ Len(<<>>) = 0  BY EmptySeq
<1>2. GuestOK'  BY <1>1, RunAssumption DEF GuestOK, Zeroed, Word
<1>3. FramesMirrorStack'
  BY DEF FramesMirrorStack, FramesNest, SlotsHoldReturns
<1> QED BY <1>2, <1>3

(* Calls that leave the guest alone, or touch only lastStatus.              *)
LEMMA GuestUntouched ==
  ASSUME GuestOK, FramesMirrorStack, UNCHANGED <<sp, stack, frames>>,
         pc' \in 0..MemSize, halted' \in {0, 1}, lastStatus' \in Statuses
  PROVE  GuestOK' /\ FramesMirrorStack'
<1>1. GuestOK'  BY DEF GuestOK
<1> QED BY <1>1, MirrorStays

(* nova_vm_step, in a run or alone, preserves it.                          *)
LEMMA StepHolds ==
  ASSUME RInv, StepCore, running' \in {0, 1}, left' \in Nat
  PROVE  RInv'
<1>1. GuestOK' /\ FramesMirrorStack'
  BY InstructionKeeps, InstructionMirrors DEF RInv, StepCore
<1>2. HostOK' /\ LatchOK'
  BY StepLatch, StepHost DEF RInv
<1> QED BY <1>1, <1>2 DEF RInv

(* Every action preserves the invariant.                                    *)
LEMMA RInvStep == RInv /\ [Next]_vars => RInv'
<1> SUFFICES ASSUME RInv, [Next]_vars PROVE RInv'
  OBVIOUS
<1> USE RunAssumption
<1>a. GuestOK /\ HostOK /\ LatchOK /\ FramesMirrorStack  BY DEF RInv
<1>b. /\ pc \in 0..MemSize /\ halted \in {0, 1} /\ lastStatus \in Statuses
  BY <1>a DEF GuestOK
<1>1. CASE RunStop
  <2>1. GuestOK' /\ FramesMirrorStack'
    BY <1>1, <1>a, <1>b, GuestUntouched DEF RunStop, Statuses
  <2>2. HostOK'  BY <1>1, <1>a, <1>b DEF RunStop, HostOK
  <2>3. LatchOK'
    BY <1>1, <1>a, <1>b DEF RunStop, LatchOK, LatchIsReport, Nowhere
  <2> QED BY <2>1, <2>2, <2>3 DEF RInv
<1>2. CASE RunStep
  <2>1. running' \in {0, 1} /\ left' \in Nat
    BY <1>2, <1>a DEF RunStep, PassesBreakpoint, Executed, HostOK
  <2> QED BY <1>2, <2>1, StepHolds DEF RunStep, PassesBreakpoint
<1>3. CASE RunEnd
  <2>1. GuestOK' /\ FramesMirrorStack'
    BY <1>3, <1>a, <1>b, GuestUntouched DEF RunEnd, guest
  <2>2. HostOK'  BY <1>3, <1>a DEF RunEnd, HostOK, latch
  <2>3. LatchOK'
    BY <1>3, <1>a DEF RunEnd, LatchOK, LatchIsReport, guest, latch
  <2> QED BY <2>1, <2>2, <2>3 DEF RInv
<1>4. ASSUME NEW b \in Budgets, RunStart(b) PROVE RInv'
  <2>1. GuestOK' /\ FramesMirrorStack'
    BY <1>4, <1>a, <1>b, GuestUntouched DEF RunStart, guest
  <2>2. HostOK'  BY <1>4, <1>a DEF RunStart, HostOK, latch
  <2>3. LatchOK'
    BY <1>4, <1>a DEF RunStart, LatchOK, LatchIsReport, guest, latch
  <2> QED BY <2>1, <2>2, <2>3 DEF RInv
<1>5. CASE Step
  BY <1>5, <1>a, StepHolds DEF Step, HostOK
<1>6. CASE StepHalted
  <2>1. GuestOK' /\ FramesMirrorStack'
    BY <1>6, <1>a, <1>b, GuestUntouched DEF StepHalted, Statuses
  <2>2. HostOK'  BY <1>6, <1>a DEF StepHalted, HostOK, latch
  <2>3. LatchOK'
    BY <1>6, <1>a DEF StepHalted, LatchOK, LatchIsReport, latch
  <2> QED BY <2>1, <2>2, <2>3 DEF RInv
<1>7. CASE ClearBreakpoints
  <2>1. GuestOK' /\ FramesMirrorStack'
    BY <1>7, <1>a, <1>b, GuestUntouched DEF ClearBreakpoints, guest
  <2>2. HostOK'
    BY <1>7, <1>a, FS_EmptySet DEF ClearBreakpoints, HostOK
  <2>3. LatchOK'
    BY <1>7 DEF ClearBreakpoints, LatchOK, LatchIsReport
  <2> QED BY <2>1, <2>2, <2>3 DEF RInv
<1>8. CASE Reset
  <2>1. GuestOK' /\ FramesMirrorStack'
    BY <1>8, FreshHolds DEF Reset, Statuses
  <2>2. HostOK'  BY <1>8, <1>a DEF Reset, HostOK
  <2>3. LatchOK'  BY <1>8 DEF Reset, LatchOK, LatchIsReport
  <2> QED BY <2>1, <2>2, <2>3 DEF RInv
<1>9. ASSUME NEW a \in BreakAddresses, AddBreakpoint(a) PROVE RInv'
  <2>1. GuestOK' /\ FramesMirrorStack'
    BY <1>9, <1>a, <1>b, GuestUntouched DEF AddBreakpoint, Statuses, Errors
  <2>2. HostOK'
    <3>1. CASE breakpoints' = breakpoints
      BY <1>9, <1>a, <3>1 DEF AddBreakpoint, HostOK, latch
    <3>2. CASE /\ breakpoints' = breakpoints \cup {a} /\ RangeValid(a)
               /\ a \notin breakpoints /\ ~(Cardinality(breakpoints) >= BreakCap)
      <4>1. /\ IsFiniteSet(breakpoints')
            /\ Cardinality(breakpoints') = Cardinality(breakpoints) + 1
            /\ Cardinality(breakpoints) \in Nat
        BY <3>2, <1>a, FS_AddElement, FS_CardinalityType DEF HostOK
      <4>2. breakpoints' \subseteq 0..(MemSize - 1)
        BY <3>2, <1>a DEF HostOK, RangeValid
      <4>3. Cardinality(breakpoints') <= BreakCap  BY <3>2, <4>1
      <4> QED BY <1>9, <1>a, <4>1, <4>2, <4>3 DEF AddBreakpoint, HostOK, latch
    <3> QED BY <1>9, <3>1, <3>2 DEF AddBreakpoint
  <2>3. LatchOK'
    BY <1>9, <1>a DEF AddBreakpoint, LatchOK, LatchIsReport, latch
  <2> QED BY <2>1, <2>2, <2>3 DEF RInv
<1>10. ASSUME NEW a \in BreakAddresses, RemoveBreakpoint(a) PROVE RInv'
  <2>1. GuestOK' /\ FramesMirrorStack'
    BY <1>10, <1>a, <1>b, GuestUntouched DEF RemoveBreakpoint, guest
  <2>2. HostOK'
    <3>1. /\ IsFiniteSet(breakpoints')
          /\ Cardinality(breakpoints') = Cardinality(breakpoints) - 1
          /\ Cardinality(breakpoints) \in Nat
      BY <1>10, <1>a, FS_RemoveElement, FS_CardinalityType
         DEF HostOK, RemoveBreakpoint
    <3>2. Cardinality(breakpoints') <= BreakCap  BY <3>1, <1>a DEF HostOK
    <3> QED BY <1>10, <1>a, <3>1, <3>2 DEF RemoveBreakpoint, HostOK, Nowhere
  <2>3. LatchOK'
    BY <1>10, <1>a
       DEF RemoveBreakpoint, LatchOK, LatchIsReport, HostOK, guest, Nowhere
  <2> QED BY <2>1, <2>2, <2>3 DEF RInv
<1>11. ASSUME NEW i \in Images, Load(i[1], i[2]) PROVE RInv'
  <2>0. i[1] \in Nat /\ i[2] \in Nat  OBVIOUS
  <2>1. GuestOK' /\ FramesMirrorStack'
    BY <1>11, <2>0, <1>a, <1>b, GuestUntouched DEF Load, Loadable, Statuses, Errors
  <2>2. HostOK'  BY <1>11, <1>a DEF Load, HostOK, latch, Nowhere
  <2>3. LatchOK'
    BY <1>11, <1>a DEF Load, LatchOK, LatchIsReport, HostOK, latch, Nowhere
  <2> QED BY <2>1, <2>2, <2>3 DEF RInv
<1>12. ASSUME NEW i \in Images, ResetAndLoad(i[1], i[2]) PROVE RInv'
  <2>0. i[1] \in Nat /\ i[2] \in Nat  OBVIOUS
  <2>1. pc' \in 0..MemSize /\ lastStatus' \in Statuses
    BY <1>12, <2>0 DEF ResetAndLoad, Loadable, Statuses, Errors
  <2>2. GuestOK' /\ FramesMirrorStack'
    BY <1>12, <2>1, FreshHolds DEF ResetAndLoad
  <2>3. HostOK'  BY <1>12, <1>a DEF ResetAndLoad, HostOK
  <2>4. LatchOK'  BY <1>12 DEF ResetAndLoad, LatchOK, LatchIsReport
  <2> QED BY <2>2, <2>3, <2>4 DEF RInv
<1>13. CASE UNCHANGED vars
  <2>1. GuestOK' /\ FramesMirrorStack'
    BY <1>13, <1>a, <1>b, GuestUntouched DEF vars, guest
  <2>2. HostOK'  BY <1>13, <1>a DEF HostOK, vars, latch
  <2>3. LatchOK'
    BY <1>13, <1>a DEF LatchOK, LatchIsReport, vars, guest, latch
  <2> QED BY <2>1, <2>2, <2>3 DEF RInv
<1> QED BY <1>1, <1>2, <1>3, <1>4, <1>5, <1>6, <1>7, <1>8, <1>9, <1>10, <1>11,
           <1>12, <1>13 DEF Next, Run, Host

(* So it always holds.                                                     *)
LEMMA RInvAlways == Spec => []RInv
  BY InitHolds, RInvStep, PTL DEF Spec

-----------------------------------------------------------------------------
(* nova_vm_step and nova_vm_run never leave the machine in a state its      *)
(* types do not allow.                                                     *)
THEOREM TypeCorrect == Spec => []TypeOK
<1>1. RInv => TypeOK
  BY RunAssumption DEF RInv, GuestOK, HostOK, TypeOK
<1> QED BY <1>1, RInvAlways, PTL

(* No program drives the stack pointer out of the stack, and neither the    *)
(* frame table nor the breakpoint table overflows.                         *)
THEOREM TablesStayInRange == Spec => []TablesInRange
<1>1. RInv => TablesInRange
  BY RunAssumption DEF RInv, GuestOK, HostOK, TablesInRange
<1> QED BY <1>1, RInvAlways, PTL

(* For a guest that keeps the discipline of compiled code, the frame table  *)
(* always mirrors the stack.                                               *)
THEOREM FramesAlwaysMirror == Spec => []FramesMirrorStack
<1>1. RInv => FramesMirrorStack  BY DEF RInv
<1> QED BY <1>1, RInvAlways, PTL

(* Such a guest is never refused a return while a frame is active.          *)
THEOREM ReturnsNeverRefused == Spec => DisciplinedReturns
<1>1. RInv /\ [Next]_vars =>
        [Disciplined = 1 /\ Ret /\ frames # <<>> => lastStatus' = "OK"]_vars
  BY ReturnGoesThrough DEF RInv, Ok
<1> QED BY <1>1, RInvAlways, PTL DEF Spec, DisciplinedReturns

(* The only instruction that takes a frame off the table is a RET that goes *)
(* to the address the frame recorded.                                      *)
LEMMA FrameLeavesByReturn ==
  ASSUME GuestOK, Instruction, Len(frames') < Len(frames)
  PROVE  /\ frames' = SubSeq(frames, 1, Len(frames) - 1)
         /\ pc' = TopFrame.returnAddress
<1>1. Len(frames) \in Nat  BY LenProperties DEF GuestOK
<1>2. frames' # frames  BY <1>1
<1>3. ASSUME NEW t \in Targets, Call(t) PROVE FALSE
  <2>1. frames' = Append(frames, Frame(t))
    BY <1>2, <1>3 DEF Call, Fail
  <2>2. Len(frames') = Len(frames) + 1
    BY <2>1, SMT DEF GuestOK
  <2> QED BY <1>1, <2>2
<1>4. CASE Ret
  <2>1. frames' = SubSeq(frames, 1, Len(frames) - 1)
        /\ TopFrame.returnAddress = stack[sp] /\ Ok(stack[sp])
    BY <1>2, <1>4, RetCases DEF Fail, RetFail
  <2> QED BY <2>1 DEF Ok
<1> QED
  BY <1>2, <1>3, <1>4
     DEF Instruction, FetchFault, Trap, Plain, Halt, Pop, Jump, Push, Store, Fail

(* Whatever the guest does to its stack, a frame goes away only by a return *)
(* to the caller it recorded, or by a reset of the machine.                *)
THEOREM FramesReturnToCallers == Spec => ReturnsToCaller
<1>1. ASSUME RInv, [Next]_vars, Len(frames') < Len(frames)
      PROVE  \/ frames' = <<>> /\ sp' = StackTop /\ running = 0
             \/ /\ frames' = SubSeq(frames, 1, Len(frames) - 1)
                /\ pc' = TopFrame.returnAddress
  <2>1. GuestOK  BY <1>1 DEF RInv
  <2>2. Len(frames) \in Nat  BY <2>1, LenProperties DEF GuestOK
  <2>3. frames' # frames  BY <1>1, <2>2
  <2>4. CASE StepCore
    BY <1>1, <2>1, <2>4, FrameLeavesByReturn DEF StepCore
  <2>5. CASE Reset  BY <2>5 DEF Reset
  <2>6. ASSUME NEW i \in Images, ResetAndLoad(i[1], i[2])
        PROVE  frames' = <<>> /\ sp' = StackTop /\ running = 0
    BY <2>6 DEF ResetAndLoad
  <2> QED
    BY <1>1, <2>3, <2>4, <2>5, <2>6
       DEF Next, Run, Host, RunStop, RunStep, PassesBreakpoint, RunEnd, RunStart, Step, StepHalted,
           ClearBreakpoints, AddBreakpoint, RemoveBreakpoint, Load, vars, guest
<1>2. RInv /\ [Next]_vars =>
        [Len(frames') < Len(frames) =>
           \/ frames' = <<>> /\ sp' = StackTop /\ running = 0
           \/ /\ frames' = SubSeq(frames, 1, Len(frames) - 1)
              /\ pc' = TopFrame.returnAddress]_vars
  BY <1>1
<1> QED BY <1>2, RInvAlways, PTL DEF Spec, ReturnsToCaller

(* A host that resets before it loads, as Studio does, finds the latch      *)
(* armed exactly while it stands at a reported breakpoint; so no run passes *)
(* a breakpoint it has not reported, and none stops twice without progress. *)
THEOREM LatchIsExact == RawLoads = 0 => (Spec => []LatchIsReport)
<1> SUFFICES ASSUME RawLoads = 0 PROVE Spec => []LatchIsReport
  OBVIOUS
<1>1. RInv => LatchIsReport  BY DEF RInv, LatchOK
<1> QED BY <1>1, RInvAlways, PTL

(* nova_vm_run executes the instruction at a breakpoint only to resume.     *)
THEOREM BreakpointsHonoured == RawLoads = 0 => (Spec => RunHonoursBreakpoints)
<1> SUFFICES ASSUME RawLoads = 0 PROVE Spec => RunHonoursBreakpoints
  OBVIOUS
<1>1. RInv /\ [Next]_vars =>
        [running = 1 /\ RunStep /\ pc \in breakpoints => reported = pc]_vars
  BY DEF RInv, LatchOK, LatchIsReport, RunStep, PassesBreakpoint, Latched
<1> QED BY <1>1, RInvAlways, PTL DEF Spec, RunHonoursBreakpoints

(* A run resumed at a breakpoint executes at least one instruction.         *)
THEOREM ResumeMakesProgress == RawLoads = 0 => (Spec => ResumeProgresses)
<1> SUFFICES ASSUME RawLoads = 0 PROVE Spec => ResumeProgresses
  OBVIOUS
<1>1. RInv /\ [Next]_vars => [RunStop => reported # pc]_vars
  BY RunAssumption
     DEF RInv, GuestOK, LatchOK, LatchIsReport, RunStop, Latched, Nowhere
<1> QED BY <1>1, RInvAlways, PTL DEF Spec, ResumeProgresses

-----------------------------------------------------------------------------
(* A session: what the window keeps                                         *)

Registers == 0..(LastSaved + 1)

ValuesOK == regs \in [Registers -> Words] /\ stack \in [Slots -> Words]

WindowOK ==
  /\ program \in DOMAIN Programs /\ mapped \in BOOLEAN
  /\ turns \in Nat /\ (mode \notin SourceSteps => turns = 0)
  /\ pending \subseteq DOMAIN Rows
  /\ mode \notin {"set", "unset"} => pending = {}
  /\ mode # "clear" => breakpoints \subseteq DOMAIN Listing

LatchQuiet ==
  /\ mode \in SourceSteps /\ turns # 0 => armed = 0
  /\ mode = "run" /\ running = 1 /\ left # RunBudget => armed = 0

SInv == RInv /\ ValuesOK /\ WindowOK /\ (RawLoads = 0 => LatchQuiet)

-----------------------------------------------------------------------------
(* The machine under the window *)

(* What the image holds at an address is an instruction of the machine, and *)
(* leaves words in registers and stack.                                    *)
LEMMA ImageStep ==
  ASSUME SInv, Executes
  PROVE  StepCore /\ ValuesOK'
<1> DEFINE i == Listing[pc]
<1>1. WellFormed(pc, i)
  BY SessionAssumption DEF SInv, WindowOK, Executes, Listing, Image
<1>2. regs \in [Registers -> Words] /\ stack \in [Slots -> Words] /\ GuestOK
  BY DEF SInv, ValuesOK, RInv
<1>3. halted = 0 /\ Progress /\ (Computes(i) \/ Transfers(i) \/ Stacks(i) \/ Calls(i))
  BY DEF Executes
<1> HIDE DEF i
<1>4. CASE Computes(i)
  <2>1. Plain /\ UNCHANGED stack  BY <1>4 DEF Computes, Falls, Plain
  <2>2. regs' \in [Registers -> Words]
    BY <1>1, <1>2, <1>4 DEF Computes, WellFormed, Registers
  <2> QED BY <1>2, <1>3, <2>1, <2>2 DEF StepCore, Instruction, ValuesOK
<1>5. CASE Transfers(i)
  <2>1. Plain \/ Halt \/ \E t \in Targets : Jump(t)
    BY <1>1, <1>5 DEF Transfers, Falls, WellFormed
  <2>2. UNCHANGED <<regs, stack>>
    BY <1>5, <2>1 DEF Transfers, Falls, Plain, Halt, Jump, Fail
  <2> QED BY <1>2, <1>3, <2>1, <2>2 DEF StepCore, Instruction, ValuesOK
<1>6. CASE Stacks(i)
  <2>1. CASE i.op = "push" /\ Push(regs[i.reg]) /\ UNCHANGED <<regs, locals>>
    <3>1. regs[i.reg] \in Words  BY <1>1, <1>2, <2>1 DEF WellFormed, Registers
    <3>2. stack' \in [Slots -> Words]
      BY <1>2, <2>1, <3>1 DEF Push, Pushed, Fail
    <3> QED BY <1>2, <1>3, <2>1, <3>1, <3>2 DEF StepCore, Instruction, ValuesOK
  <2>2. CASE /\ i.op = "pop" /\ Pop
             /\ regs' = IF lastStatus' = "OK" THEN [regs EXCEPT ![i.reg] = stack[sp]] ELSE regs
    <3>1. UNCHANGED stack  BY <2>2 DEF Pop, Fail
    <3>2. lastStatus' = "OK" => stack[sp] \in Words
      BY <1>2, <2>2, StackMoves DEF Pop, Fail
    <3>3. regs' \in [Registers -> Words]
      BY <1>1, <1>2, <2>2, <3>2 DEF WellFormed, Registers
    <3> QED BY <1>2, <1>3, <2>2, <3>1, <3>3 DEF StepCore, Instruction, ValuesOK
  <2> QED BY <1>6, <2>1, <2>2 DEF Stacks
<1>7. CASE Calls(i)
  <2>1. CASE i.op = "call" /\ Call(i.target) /\ UNCHANGED regs
    <3>1. i.target \in Targets /\ At(4) \in Words
      BY <1>1, <1>2, <2>1 DEF WellFormed, At, CallInstructionSize, GuestOK
    <3>2. stack' \in [Slots -> Words]
      BY <1>2, <2>1, <3>1 DEF Call, Pushed, Fail
    <3> QED BY <1>2, <1>3, <2>1, <3>1, <3>2 DEF StepCore, Instruction, ValuesOK
  <2>2. CASE i.op = "ret" /\ Ret /\ UNCHANGED regs
    <3>1. UNCHANGED stack  BY <2>2 DEF Ret, RetFail, Fail
    <3> QED BY <1>2, <1>3, <2>2, <3>1 DEF StepCore, Instruction, ValuesOK
  <2> QED BY <1>7, <2>1, <2>2 DEF Calls
<1> QED BY <1>3, <1>4, <1>5, <1>6, <1>7

(* nova_vm_step, called by the window.                                     *)
LEMMA StepsOneIsStep ==
  ASSUME SInv, StepsOne
  PROVE  (Step \/ StepHalted) /\ ValuesOK' /\ UNCHANGED breakpoints
<1>1. CASE running = 0 /\ Executes /\ UNCHANGED <<running, left>>
  BY <1>1, ImageStep DEF Step, StepCore, Progress
<1>2. CASE StepHalted /\ UNCHANGED <<regs, locals>>
  BY <1>2 DEF StepHalted, SInv, ValuesOK
<1> QED BY <1>1, <1>2 DEF StepsOne

(* Loading the image that is shown.                                        *)
LEMMA LoadIsLoad ==
  ASSUME SInv, Loads(program)
  PROVE  (\E i \in Images : ResetAndLoad(i[1], i[2])) /\ ValuesOK' /\ UNCHANGED breakpoints
<1>1. <<0, Programs[program].size>> \in Images
  BY SessionAssumption DEF SInv, WindowOK
<1>2. ResetAndLoad(0, Programs[program].size)  BY DEF Loads
<1>3. \E i \in Images : ResetAndLoad(i[1], i[2])
  <2> DEFINE loaded == <<0, Programs[program].size>>
  <2>1. loaded[1] = 0 /\ loaded[2] = Programs[program].size  OBVIOUS
  <2>2. ResetAndLoad(loaded[1], loaded[2])  BY <1>2, <2>1
  <2> QED BY <1>1, <2>2
<1>4. regs' \in [Registers -> Words]
  BY SessionAssumption DEF SInv, ValuesOK, Loads, Registers
<1>5. stack' \in [Slots -> Words] /\ UNCHANGED breakpoints
  BY <1>2, SessionAssumption DEF ResetAndLoad, Zeroed
<1> QED BY <1>3, <1>4, <1>5 DEF ValuesOK

(* Calls that leave registers and stack alone.                             *)
LEMMA ValuesStay == ASSUME SInv, UNCHANGED <<regs, stack>> PROVE ValuesOK'
  BY DEF SInv, ValuesOK

(* The rows shown are rows of the image in the machine.                     *)
LEMMA RowAddress ==
  ASSUME SInv, NEW i \in DOMAIN Rows
  PROVE  Rows[i].from \in BreakAddresses /\ Rows[i].from \in DOMAIN Listing
<1>1. mapped = TRUE /\ Rows = Image.rows
  BY DEF SInv, WindowOK, Rows
<1> QED BY <1>1, SessionAssumption DEF SInv, WindowOK, Image, Listing

(* A turn of a handler is a step of the machine.                            *)
LEMMA HandlerIsStep ==
  ASSUME SInv, Handler
  PROVE  [Next]_vars /\ ValuesOK'
<1>1. CASE SourceTurn
  BY <1>1, StepsOneIsStep DEF SourceTurn, Next, Host
<1>2. CASE SourceStepPauses
  <2>1. RunStart(1) /\ 1 \in Budgets /\ UNCHANGED <<regs, stack>>
    BY <1>2, SessionAssumption DEF SourceStepPauses, RunStart, guest
  <2> QED BY <2>1, ValuesStay DEF Next, Host
<1>3. CASE RunTurn
  <2>1. CASE (RunStop \/ RunEnd) /\ UNCHANGED <<regs, locals>>
    <3>1. UNCHANGED <<regs, stack>>  BY <2>1 DEF RunStop, RunEnd, guest
    <3> QED BY <2>1, <3>1, ValuesStay DEF Next, Run
  <2>2. CASE PassesBreakpoint /\ Executes /\ Executed
    BY <2>2, ImageStep DEF RunStep, Next, Run
  <2> QED BY <1>3, <2>1, <2>2 DEF RunTurn
<1>4. CASE LineTurn
  <2>1. PICK i \in pending : ToggleRow(i) /\ UNCHANGED regs
    BY <1>4 DEF LineTurn
  <2>2. Rows[i].from \in BreakAddresses
    BY <2>1, RowAddress DEF SInv, WindowOK
  <2>3. AddBreakpoint(Rows[i].from) \/ RemoveBreakpoint(Rows[i].from) \/ UNCHANGED vars
    BY <2>1 DEF ToggleRow
  <2>4. UNCHANGED stack
    BY <2>3 DEF AddBreakpoint, RemoveBreakpoint, vars, guest
  <2> QED BY <2>1, <2>2, <2>3, <2>4, ValuesStay DEF Next, Host
<1>5. CASE CompileTurn
  <2>1. CASE ClearBreakpoints /\ UNCHANGED regs
    <3>1. UNCHANGED stack  BY <2>1 DEF ClearBreakpoints, guest
    <3> QED BY <2>1, <3>1, ValuesStay DEF Next, Host
  <2>2. CASE Loads(program)
    BY <2>2, LoadIsLoad DEF Next, Host
  <2> QED BY <1>5, <2>1, <2>2 DEF CompileTurn
<1> QED BY <1>1, <1>2, <1>3, <1>4, <1>5 DEF Handler

(* And so is a click.                                                      *)
LEMMA ClickIsStep ==
  ASSUME SInv, Clicks
  PROVE  [Next]_vars /\ ValuesOK'
<1>1. CASE StepClick  BY <1>1, StepsOneIsStep DEF StepClick, Next, Host
<1>2. CASE RunClick
  <2>1. RunStart(RunBudget) /\ RunBudget \in Budgets /\ UNCHANGED <<regs, stack>>
    BY <1>2, SessionAssumption DEF RunClick, RunStart, guest
  <2> QED BY <2>1, ValuesStay DEF Next, Host
<1>3. CASE ResetClick  BY <1>3, LoadIsLoad DEF ResetClick, Next, Host
<1>4. ASSUME NEW a \in ToggleAddresses, ToggleAddress(a)
      PROVE  [Next]_vars /\ ValuesOK'
  <2>1. a \in BreakAddresses /\ (AddBreakpoint(a) \/ RemoveBreakpoint(a)) /\ UNCHANGED regs
    BY <1>4, SessionAssumption DEF ToggleAddress
  <2>2. UNCHANGED stack  BY <2>1 DEF AddBreakpoint, RemoveBreakpoint, guest
  <2> QED BY <2>1, <2>2, ValuesStay DEF Next, Host
<1>5. ASSUME UNCHANGED <<vars, regs>> PROVE [Next]_vars /\ ValuesOK'
  BY <1>5, ValuesStay DEF vars, guest
<1> QED BY <1>1, <1>2, <1>3, <1>4, <1>5
        DEF Clicks, CompileFails, SourceStepClick, ToggleLine, Compile, SelectFrame

(* A session is a behaviour of NovaRun.                                     *)
LEMMA SessionIsStep ==
  ASSUME SInv, [SessionNext]_sessionVars
  PROVE  [Next]_vars /\ ValuesOK'
<1>1. CASE UNCHANGED sessionVars
  <2>1. UNCHANGED vars /\ UNCHANGED <<regs, stack>>
    BY <1>1 DEF sessionVars, vars, guest
  <2> QED BY <2>1, ValuesStay
<1> QED BY <1>1, HandlerIsStep, ClickIsStep DEF SessionNext

-----------------------------------------------------------------------------
(* What the window keeps *)

LEMMA HandlerWindow ==
  ASSUME SInv, Handler
  PROVE  WindowOK'
<1> USE DEF SInv, WindowOK
<1>1. CASE SourceTurn
  <2>1. UNCHANGED <<breakpoints, program, mapped, pending>>
    BY <1>1, StepsOneIsStep DEF SourceTurn, Done
  <2>2. turns' \in Nat /\ (mode' \in SourceSteps \/ (mode' = "idle" /\ turns' = 0))
    BY <1>1 DEF SourceTurn, Done
  <2>3. pending = {} /\ breakpoints \subseteq DOMAIN Listing
    BY <1>1 DEF SourceTurn, SourceSteps
  <2> QED BY <2>1, <2>2, <2>3 DEF Rows, Image, Listing, SourceSteps
<1>2. CASE SourceStepPauses
  BY <1>2 DEF SourceStepPauses, RunStart, window, Rows, Image, Listing
<1>3. CASE RunTurn
  <2>1. UNCHANGED <<breakpoints, program, mapped, pending>>
    BY <1>3, ImageStep DEF RunTurn, Done, RunStop, RunEnd, Executes, Progress
  <2>2. (mode' = mode /\ turns' = turns) \/ (mode' = "idle" /\ turns' = 0)
    BY <1>3 DEF RunTurn, Done
  <2>3. pending = {} /\ breakpoints \subseteq DOMAIN Listing
    BY <1>3 DEF RunTurn, SourceSteps
  <2> QED BY <2>1, <2>2, <2>3 DEF Rows, Image, Listing
<1>4. CASE LineTurn
  <2>1. PICK i \in pending :
          /\ ToggleRow(i) /\ pending' = pending \ {i}
          /\ mode' = IF pending' = {} THEN "idle" ELSE mode
          /\ UNCHANGED <<program, mapped, turns>>
    BY <1>4 DEF LineTurn
  <2>2. mode \in {"set", "unset"} /\ turns = 0
    BY <2>1 DEF ToggleRow, SourceSteps
  <2>3. breakpoints' \subseteq breakpoints \cup {Rows[i].from}
    BY <2>1 DEF ToggleRow, AddBreakpoint, RemoveBreakpoint, vars
  <2>4. Rows[i].from \in DOMAIN Listing  BY RowAddress
  <2> QED BY <2>1, <2>2, <2>3, <2>4 DEF Rows, Image, Listing, SourceSteps
<1>5. CASE CompileTurn
  <2>1. turns' = 0 /\ pending' = {} /\ UNCHANGED <<program, mapped>>
    BY <1>5 DEF CompileTurn, SourceSteps
  <2>2. CASE mode = "clear" /\ ClearBreakpoints
    BY <2>1, <2>2 DEF ClearBreakpoints
  <2>3. CASE mode = "load" /\ Loads(program)
    <3>1. UNCHANGED breakpoints  BY <2>3, LoadIsLoad
    <3> QED BY <2>1, <2>3, <3>1 DEF Image, Listing
  <2> QED BY <1>5, <2>2, <2>3 DEF CompileTurn
<1> QED BY <1>1, <1>2, <1>3, <1>4, <1>5 DEF Handler

LEMMA ClickWindow ==
  ASSUME SInv, Clicks
  PROVE  WindowOK'
<1> USE DEF SInv, WindowOK
<1>1. Idle  BY DEF Clicks, StepClick, RunClick, ResetClick, CompileFails, SourceStepClick,
                   ToggleAddress, ToggleLine, Compile, SelectFrame
<1>2. turns = 0 /\ pending = {} /\ breakpoints \subseteq DOMAIN Listing
  BY <1>1 DEF Idle, SourceSteps
<1>3. ASSUME UNCHANGED window, breakpoints' \subseteq DOMAIN Listing PROVE WindowOK'
  BY <1>3 DEF window, Rows, Image, Listing
<1>4. CASE StepClick  BY <1>2, <1>3, <1>4, StepsOneIsStep DEF StepClick
<1>5. CASE ResetClick  BY <1>2, <1>3, <1>5, LoadIsLoad DEF ResetClick
<1>6. ASSUME NEW a \in ToggleAddresses, ToggleAddress(a) PROVE WindowOK'
  BY <1>2, <1>3, <1>6 DEF ToggleAddress, AddBreakpoint, RemoveBreakpoint
<1>7. ASSUME NEW k \in Picks, SelectFrame(k) PROVE WindowOK'
  BY <1>2, <1>3, <1>7 DEF SelectFrame, vars
<1>8. CASE RunClick \/ \E kind \in SourceSteps : SourceStepClick(kind)
  <2>1. UNCHANGED <<program, mapped, turns, pending, breakpoints>> /\ mode' # "clear"
    BY <1>8 DEF RunClick, RunStart, SourceStepClick, vars, SourceSteps
  <2> QED BY <1>2, <2>1 DEF Rows, Image, Listing
<1>9. ASSUME NEW place \in ToggleLines, ToggleLine(place) PROVE WindowOK'
  <2>1. UNCHANGED <<program, mapped, turns, breakpoints>> /\ mode' \in {"set", "unset"}
        /\ pending' = LineRows(place)
    BY <1>9 DEF ToggleLine, vars
  <2> QED BY <1>2, <2>1 DEF LineRows, Rows, Image, Listing, SourceSteps
<1>10. ASSUME NEW p \in DOMAIN Programs, Compile(p) PROVE WindowOK'
  <2>1. program' \in DOMAIN Programs /\ mapped' = TRUE /\ mode' = "clear"
        /\ turns' = 0 /\ pending' = {}
    BY <1>2, <1>10 DEF Compile
  <2> QED BY <2>1
<1>11. CASE CompileFails
  <2>1. UNCHANGED <<program, breakpoints, mode>> /\ mapped' = FALSE /\ turns' = 0 /\ pending' = {}
    BY <1>2, <1>11 DEF CompileFails, vars
  <2> QED BY <1>2, <2>1 DEF Image, Listing
<1> QED BY <1>4, <1>5, <1>6, <1>7, <1>8, <1>9, <1>10, <1>11 DEF Clicks

(* A command disarms the latch with its first instruction, and only its end *)
(* arms it again.                                                          *)
LEMMA LatchStaysQuiet ==
  ASSUME SInv, RawLoads = 0, [SessionNext]_sessionVars
  PROVE  LatchQuiet'
<1>1. LatchQuiet /\ LatchIsReport /\ armed \in {0, 1} /\ (mode \notin SourceSteps => turns = 0)
  BY DEF SInv, RInv, LatchOK, HostOK, WindowOK
<1>2. Progress => armed' = 0  BY <1>1 DEF Progress, LatchIsReport
<1>3. CASE SourceTurn
  <2>1. CASE mode' \in SourceSteps
    <3>1. GoesOn  BY <1>3, <2>1 DEF SourceTurn, Done, SourceSteps
    <3>2. ~StepHalted  BY <3>1 DEF GoesOn, StepEnds, StepHalted
    <3>3. Progress  BY <1>3, <3>2 DEF SourceTurn, StepsOne, Executes
    <3> QED BY <1>2, <2>1, <3>3 DEF LatchQuiet, SourceSteps
  <2>2. mode' \in SourceSteps \/ mode' = "idle"
    BY <1>3 DEF SourceTurn, Done
  <2> QED BY <2>1, <2>2 DEF LatchQuiet, SourceSteps
<1>4. CASE SourceStepPauses
  BY <1>1, <1>4 DEF SourceStepPauses, RunStart, window, latch, LatchQuiet, SourceSteps
<1>5. CASE RunTurn
  <2>1. CASE running' = 1
    <3>1. Progress  BY <1>5, <2>1 DEF RunTurn, RunStop, RunEnd, Executes
    <3> QED BY <1>2, <3>1 DEF LatchQuiet
  <2>2. CASE running' # 1
    <3>1. mode' = "idle"  BY <1>5, <2>2 DEF RunTurn, Done
    <3> QED BY <3>1 DEF LatchQuiet, SourceSteps
  <2> QED BY <2>1, <2>2
<1>6. CASE LineTurn
  <2>1. mode \in {"set", "unset"} /\ mode' \in {mode, "idle"}
    BY <1>6 DEF LineTurn, ToggleRow
  <2> QED BY <2>1 DEF LatchQuiet, SourceSteps
<1>7. CASE CompileTurn
  <2>1. mode' \in {"load", "idle"}  BY <1>7 DEF CompileTurn
  <2> QED BY <2>1 DEF LatchQuiet, SourceSteps
<1>8. CASE RunClick
  <2>1. mode' = "run" /\ left' = RunBudget  BY <1>8 DEF RunClick, RunStart
  <2> QED BY <2>1 DEF LatchQuiet, SourceSteps
<1>9. ASSUME NEW kind \in SourceSteps, SourceStepClick(kind) PROVE LatchQuiet'
  <2>1. mode' = kind /\ turns' = 0
    BY <1>1, <1>9 DEF SourceStepClick, Idle, SourceSteps
  <2> QED BY <2>1 DEF LatchQuiet, SourceSteps
<1>10. ASSUME mode' \in HostCalls \cup {"idle"} PROVE LatchQuiet'
  BY <1>10 DEF LatchQuiet, SourceSteps, HostCalls
<1>11. CASE StepClick \/ ResetClick \/ CompileFails
  BY <1>10, <1>11 DEF StepClick, ResetClick, CompileFails, Idle, window
<1>12. ASSUME NEW a \in ToggleAddresses, ToggleAddress(a) PROVE LatchQuiet'
  BY <1>10, <1>12 DEF ToggleAddress, Idle, window
<1>13. ASSUME NEW place \in ToggleLines, ToggleLine(place) PROVE LatchQuiet'
  BY <1>10, <1>13 DEF ToggleLine, HostCalls
<1>14. ASSUME NEW p \in DOMAIN Programs, Compile(p) PROVE LatchQuiet'
  BY <1>10, <1>14 DEF Compile, HostCalls
<1>15. ASSUME NEW k \in Picks, SelectFrame(k) PROVE LatchQuiet'
  BY <1>10, <1>15 DEF SelectFrame, Idle, window
<1>16. CASE UNCHANGED sessionVars
  BY <1>1, <1>16 DEF sessionVars, vars, window, latch, LatchQuiet
<1> QED BY <1>3, <1>4, <1>5, <1>6, <1>7, <1>8, <1>9, <1>11, <1>12, <1>13, <1>14, <1>15, <1>16
        DEF SessionNext, Handler, Clicks

-----------------------------------------------------------------------------
LEMMA SessionStarts == SessionInit => SInv
<1> SUFFICES ASSUME SessionInit PROVE SInv
  OBVIOUS
<1>1. RInv  BY InitHolds DEF SessionInit
<1>2. ValuesOK
  BY SessionAssumption DEF SessionInit, Init, Zeroed, ValuesOK, Registers
<1>3. WindowOK
  BY DEF SessionInit, Init, WindowOK, SourceSteps
<1>4. LatchQuiet  BY DEF SessionInit, LatchQuiet, SourceSteps
<1> QED BY <1>1, <1>2, <1>3, <1>4 DEF SInv

LEMMA SInvStep == SInv /\ [SessionNext]_sessionVars => SInv'
<1> SUFFICES ASSUME SInv, [SessionNext]_sessionVars PROVE SInv'
  OBVIOUS
<1>1. [Next]_vars /\ ValuesOK'  BY SessionIsStep
<1>2. RInv'  BY <1>1, RInvStep DEF SInv
<1>3. WindowOK'
  <2>1. CASE UNCHANGED sessionVars
    BY <2>1 DEF sessionVars, vars, window, SInv, WindowOK, Rows, Image, Listing
  <2> QED BY <2>1, HandlerWindow, ClickWindow DEF SessionNext
<1>4. RawLoads = 0 => LatchQuiet'  BY LatchStaysQuiet
<1> QED BY <1>1, <1>2, <1>3, <1>4 DEF SInv

LEMMA SInvAlways == SessionSpec => []SInv
  BY SessionStarts, SInvStep, PTL DEF SessionSpec

(* Whatever the user clicks on, the machine sees a sequence of instructions *)
(* and host calls of NovaRun: what is proved of it holds of every session.  *)
THEOREM SessionsAreRuns == SessionSpec => Init /\ [][Next]_vars
<1>1. SessionInit => Init  BY DEF SessionInit
<1>2. SInv /\ [SessionNext]_sessionVars => [Next]_vars  BY SessionIsStep
<1> QED BY <1>1, <1>2, SInvAlways, PTL DEF SessionSpec

(* For every program: continuing from a breakpoint makes progress, whether  *)
(* a run or a source step stopped there.                                    *)
THEOREM SessionsResume == RawLoads = 0 => (SessionSpec => ResumeProgresses)
<1> SUFFICES ASSUME RawLoads = 0 PROVE SessionSpec => ResumeProgresses
  OBVIOUS
<1>1. SInv /\ [Next]_vars => [RunStop => reported # pc]_vars
  BY RunAssumption
     DEF SInv, RInv, GuestOK, LatchOK, LatchIsReport, RunStop, Latched, Nowhere
<1> QED BY <1>1, SInvAlways, SessionsAreRuns, PTL DEF ResumeProgresses

(* For every program: no command executes the instruction at a breakpoint   *)
(* but as its first, because inside a command the latch is disarmed.        *)
THEOREM BreakpointsPauseCommands == RawLoads = 0 => (SessionSpec => BreakpointsPaused)
<1> SUFFICES ASSUME RawLoads = 0 PROVE SessionSpec => BreakpointsPaused
  OBVIOUS
<1>1. ASSUME SInv, SessionNext, ~FirstOfCommand, mode \in SourceSteps \cup {"run"},
             pc \in breakpoints
      PROVE  UNCHANGED <<pc, sp, stack, frames, regs>>
  <2>1. ~Clicks
    BY <1>1 DEF Clicks, StepClick, RunClick, ResetClick, CompileFails, SourceStepClick,
       ToggleAddress, ToggleLine, Compile, SelectFrame, Idle, SourceSteps
  <2>2. ~LineTurn /\ ~CompileTurn
    BY <1>1 DEF LineTurn, ToggleRow, CompileTurn, SourceSteps
  <2>3. ~SourceTurn
    <3>1. SUFFICES ASSUME SourceTurn PROVE FALSE  OBVIOUS
    <3>2. mode \in SourceSteps /\ ~(turns > 0)  BY <1>1, <3>1 DEF SourceTurn, AtBreakpoint
    <3> QED BY <1>1, <3>2 DEF FirstOfCommand, SourceSteps, SInv, WindowOK
  <2>4. CASE SourceStepPauses  BY <2>4 DEF SourceStepPauses, RunStart, guest
  <2>5. CASE RunTurn
    <3>1. armed = 0
      BY <1>1, <2>5 DEF RunTurn, FirstOfCommand, SInv, LatchQuiet, SourceSteps
    <3>2. ~PassesBreakpoint  BY <1>1, <3>1 DEF PassesBreakpoint, Latched
    <3> QED BY <2>5, <3>2 DEF RunTurn, RunStop, RunEnd, guest
  <2> QED BY <1>1, <2>1, <2>2, <2>3, <2>4, <2>5 DEF SessionNext, Handler
<1>2. SInv /\ [SessionNext]_sessionVars =>
        [~FirstOfCommand /\ mode \in SourceSteps \cup {"run"} /\ pc \in breakpoints
         => UNCHANGED <<pc, sp, stack, frames, regs>>]_sessionVars
  BY <1>1
<1> QED BY <1>2, SInvAlways, PTL DEF SessionSpec, BreakpointsPaused

(* For every set of programs: breakpoints never outlive the image they were *)
(* set in, though add, remove and clear know nothing of images.             *)
THEOREM BreakpointsStayInCode == SessionSpec => []BreakpointsInCode
<1>1. SInv => BreakpointsInCode
  BY DEF SInv, WindowOK, BreakpointsInCode, HostCalls
<1> QED BY <1>1, SInvAlways, PTL

-----------------------------------------------------------------------------
(* Where a source step ends *)

(* Where a step started, ExecuteSourceStep notes a depth of the call stack.  *)
StartOK == start.depth \in Nat

LEMMA StartStaysOK ==
  ASSUME SInv, StartOK, [SessionNext]_sessionVars
  PROVE  StartOK'
<1>1. Depth \in Nat  BY DEF SInv, RInv, GuestOK, Depth
<1>2. UNCHANGED start \/ start'.depth \in {0, Depth}
  <2>1. CASE Handler
    BY <2>1 DEF Handler, SourceTurn, SourceStepPauses, RunTurn, LineTurn, CompileTurn, Done, window
  <2>2. CASE Clicks
    BY <2>2 DEF Clicks, StepClick, RunClick, ResetClick, CompileFails, SourceStepClick,
       ToggleAddress, ToggleLine, Compile, SelectFrame, window
  <2>3. CASE UNCHANGED sessionVars  BY <2>3 DEF sessionVars, window
  <2> QED BY <2>1, <2>2, <2>3 DEF SessionNext
<1> QED BY <1>1, <1>2 DEF StartOK

LEMMA StartAlways == SessionSpec => [](SInv /\ StartOK)
<1>1. SessionInit => StartOK  BY DEF SessionInit, StartOK
<1> QED BY <1>1, SInvAlways, StartStaysOK, PTL DEF SessionSpec

(* A source step stays within its budget.  While one goes on the machine    *)
(* has not halted, and when it hands over to nova_vm_run, it does so at a   *)
(* breakpoint, for one instruction.                                        *)
StepOK ==
  /\ turns < SourceStepBudget
  /\ mode \notin SourceSteps \cup {"run"} => running = 0
  /\ mode \in SourceSteps /\ turns # 0 => halted = 0
  /\ mode \in SourceSteps /\ running = 1 => left = 1 /\ turns # 0 /\ pc \in breakpoints

StepInv == SInv /\ StartOK /\ StepOK

(* Only HALT halts, and says so.                                            *)
LEMMA HaltIsReported ==
  ASSUME StepCore, lastStatus' = "OK"
  PROVE  halted' = 0
<1>1. halted = 0 /\ Instruction  BY DEF StepCore
<1>2. UNCHANGED halted \/ lastStatus' = "HALTED"
  BY <1>1 DEF Instruction, FetchFault, Trap, Plain, Halt, Pop, Ret, Jump, Call, Push, Store,
     RetFail, Fail, Ok
<1> QED BY <1>1, <1>2

(* No handler leaves the machine in a run.                                  *)
LEMMA HandlerStep ==
  ASSUME StepInv, RawLoads = 0, Handler
  PROVE  StepOK'
<1>1. /\ running \in {0, 1} /\ turns \in Nat /\ SourceStepBudget \in Nat \ {0}
      /\ Depth \in Nat /\ (mode \notin SourceSteps => turns = 0)
  BY SessionAssumption DEF StepInv, SInv, RInv, GuestOK, HostOK, WindowOK, Depth
<1>2. ASSUME mode' \notin SourceSteps \cup {"run"}, running' = 0, turns' = 0
      PROVE  StepOK'
  BY <1>1, <1>2 DEF StepOK
<1>3. ASSUME Done, running' = 0 PROVE StepOK'
  BY <1>2, <1>3 DEF Done, SourceSteps
<1>4. CASE SourceTurn
  <2>1. running = 0 /\ mode \in SourceSteps /\ StepsOne  BY <1>4 DEF SourceTurn
  <2>2. running' = 0  BY <2>1 DEF StepsOne, StepHalted
  <2>3. CASE GoesOn /\ turns + 1 < SourceStepBudget
    <3>1. turns' = turns + 1 /\ UNCHANGED <<mode, start>>  BY <1>4, <2>3 DEF SourceTurn
    <3>2. Executes /\ lastStatus' = "OK"
      BY <2>1, <2>3 DEF GoesOn, StepEnds, StepsOne, StepHalted
    <3>3. halted' = 0  BY <3>2, ImageStep, HaltIsReported DEF StepInv
    <3> QED BY <1>1, <2>1, <2>2, <2>3, <3>1, <3>3 DEF StepInv, StepOK
  <2>4. CASE ~(GoesOn /\ turns + 1 < SourceStepBudget)
    BY <1>3, <1>4, <2>2, <2>4 DEF SourceTurn
  <2> QED BY <2>3, <2>4
<1>5. CASE SourceStepPauses
  <2>1. left' = 1 /\ UNCHANGED <<pc, halted, breakpoints, mode, turns, start>>
    BY <1>5 DEF SourceStepPauses, RunStart, guest, window
  <2>2. turns # 0 /\ pc \in breakpoints /\ mode \in SourceSteps
    BY <1>1, <1>5 DEF SourceStepPauses, AtBreakpoint
  <2> QED BY <2>1, <2>2 DEF StepInv, StepOK
<1>6. CASE RunTurn
  <2>1. CASE running' = 1
    <3>1. PassesBreakpoint /\ Executes
      BY <1>6, <2>1 DEF RunTurn, RunStop, RunEnd
    <3>2. mode \notin SourceSteps
      <4>1. SUFFICES ASSUME mode \in SourceSteps PROVE FALSE  OBVIOUS
      <4>2. turns # 0 /\ pc \in breakpoints
        BY <3>1, <4>1 DEF StepInv, StepOK, PassesBreakpoint
      <4>3. armed = 0  BY <4>1, <4>2 DEF StepInv, SInv, LatchQuiet
      <4> QED BY <3>1, <4>2, <4>3 DEF PassesBreakpoint, Latched
    <3>3. UNCHANGED <<mode, turns, start>>  BY <1>6, <2>1 DEF RunTurn
    <3> QED BY <1>6, <3>2, <3>3 DEF StepInv, StepOK, RunTurn
  <2>2. CASE running' # 1
    <3>1. running' = 0  BY <1>6, <2>2 DEF RunTurn, RunStop, RunEnd, Executed
    <3> QED BY <1>3, <1>6, <2>2, <3>1 DEF RunTurn
  <2> QED BY <2>1, <2>2
<1>7. CASE LineTurn
  <2>1. mode \in {"set", "unset"} /\ mode' \in {mode, "idle"} /\ UNCHANGED <<turns, start, running>>
    BY <1>7 DEF LineTurn, ToggleRow, AddBreakpoint, RemoveBreakpoint, vars
  <2> QED BY <1>1, <1>2, <2>1 DEF StepInv, StepOK, SourceSteps
<1>8. CASE CompileTurn
  <2>1. mode \in {"clear", "load"} /\ mode' \in {"load", "idle"} /\ UNCHANGED <<turns, start, running>>
    BY <1>8 DEF CompileTurn, ClearBreakpoints, Loads, ResetAndLoad
  <2> QED BY <1>1, <1>2, <2>1 DEF StepInv, StepOK, SourceSteps
<1> QED BY <1>4, <1>5, <1>6, <1>7, <1>8 DEF Handler

LEMMA ClickStep ==
  ASSUME StepInv, Clicks
  PROVE  StepOK'
<1>1. Idle  BY DEF Clicks, StepClick, RunClick, ResetClick, CompileFails, SourceStepClick,
                   ToggleAddress, ToggleLine, Compile, SelectFrame
<1>2. /\ mode = "idle" /\ running = 0 /\ turns = 0 /\ Depth \in Nat
      /\ turns < SourceStepBudget
  BY <1>1 DEF Idle, StepInv, StepOK, SInv, RInv, GuestOK, WindowOK, SourceSteps, Depth
<1>3. ASSUME mode' \notin SourceSteps, UNCHANGED turns,
             running' = 0 \/ mode' = "run"
      PROVE  StepOK'
  BY <1>2, <1>3 DEF StepOK
<1>4. ASSUME NEW kind \in SourceSteps, SourceStepClick(kind) PROVE StepOK'
  BY <1>2, <1>4 DEF SourceStepClick, StepOK, vars
<1>5. CASE StepClick  BY <1>2, <1>3, <1>5 DEF StepClick, StepsOne, StepHalted, window, SourceSteps
<1>6. CASE RunClick  BY <1>2, <1>3, <1>6 DEF RunClick, SourceSteps
<1>7. CASE ResetClick
  BY <1>2, <1>3, <1>7 DEF ResetClick, Loads, ResetAndLoad, window, SourceSteps
<1>8. CASE CompileFails  BY <1>2, <1>3, <1>8 DEF CompileFails, vars, SourceSteps
<1>9. ASSUME NEW a \in ToggleAddresses, ToggleAddress(a) PROVE StepOK'
  BY <1>2, <1>3, <1>9 DEF ToggleAddress, AddBreakpoint, RemoveBreakpoint, window, SourceSteps
<1>10. ASSUME NEW place \in ToggleLines, ToggleLine(place) PROVE StepOK'
  BY <1>2, <1>3, <1>10 DEF ToggleLine, vars, SourceSteps
<1>11. ASSUME NEW p \in DOMAIN Programs, Compile(p) PROVE StepOK'
  BY <1>2, <1>3, <1>11 DEF Compile, vars, SourceSteps
<1>12. ASSUME NEW k \in Picks, SelectFrame(k) PROVE StepOK'
  BY <1>2, <1>3, <1>12 DEF SelectFrame, vars, window, SourceSteps
<1> QED BY <1>4, <1>5, <1>6, <1>7, <1>8, <1>9, <1>10, <1>11, <1>12 DEF Clicks

LEMMA StepInvAlways == RawLoads = 0 => (SessionSpec => []StepInv)
<1> SUFFICES ASSUME RawLoads = 0 PROVE SessionSpec => []StepInv
  OBVIOUS
<1>1. SessionInit => StepInv
  BY SessionStarts, SessionAssumption DEF StepInv, StepOK, StartOK, SessionInit, Init, SourceSteps
<1>2. StepInv /\ [SessionNext]_sessionVars => StepInv'
  <2>1. ASSUME StepInv, SessionNext PROVE StepOK'
    BY <2>1, HandlerStep, ClickStep DEF SessionNext
  <2>2. ASSUME StepInv, UNCHANGED sessionVars PROVE StepOK'
    BY <2>2 DEF StepInv, StepOK, sessionVars, vars, guest, window
  <2> QED BY <2>1, <2>2, SInvStep, StartStaysOK DEF StepInv
<1> QED BY <1>1, <1>2, PTL DEF SessionSpec

(* For every set of programs, recursive ones included: Over and Out do not  *)
(* end inside a call, unless something stops the program there.             *)
THEOREM StepsEndAtDepth == RawLoads = 0 => (SessionSpec => NoStepEndsDeeper)
<1> SUFFICES ASSUME RawLoads = 0 PROVE SessionSpec => NoStepEndsDeeper
  OBVIOUS
<1>1. ASSUME StepInv, SessionNext, mode' = "idle", mode \in {"over", "out"},
             Len(frames') > start.depth, lastStatus' = "OK"
      PROVE  turns + 1 = SourceStepBudget
  <2>1. mode \in SourceSteps /\ ~Idle  BY <1>1 DEF Idle, SourceSteps
  <2>2. ~Clicks
    BY <2>1 DEF Clicks, StepClick, RunClick, ResetClick, CompileFails, SourceStepClick,
       ToggleAddress, ToggleLine, Compile, SelectFrame
  <2>3. ~LineTurn /\ ~CompileTurn
    BY <2>1 DEF LineTurn, ToggleRow, CompileTurn, SourceSteps
  <2>4. ~SourceStepPauses  BY <1>1 DEF SourceStepPauses, window
  <2>5. ~RunTurn
    <3>1. SUFFICES ASSUME RunTurn PROVE FALSE  OBVIOUS
    <3>2. left = 1 /\ halted = 0 /\ turns # 0 /\ pc \in breakpoints
      BY <1>1, <2>1, <3>1 DEF StepInv, StepOK, RunTurn
    <3>3. armed = 0  BY <1>1, <2>1, <3>2 DEF StepInv, SInv, LatchQuiet
    <3>4. ~PassesBreakpoint /\ ~RunEnd  BY <3>2, <3>3 DEF PassesBreakpoint, Latched, RunEnd
    <3> QED BY <1>1, <3>1, <3>4 DEF RunTurn, RunStop
  <2>6. SourceTurn  BY <1>1, <2>2, <2>3, <2>4, <2>5 DEF SessionNext, Handler
  <2>7. GoesOn
    <3>1. start.depth \in Nat /\ Len(frames') \in Nat
      <4>1. frames' \in Seq(FrameType)
        BY <1>1, SInvStep DEF StepInv, SInv, RInv, GuestOK
      <4> QED BY <1>1, <4>1 DEF StepInv, StartOK
    <3> QED BY <1>1, <3>1 DEF GoesOn, StepEnds
  <2>8. ~(turns + 1 < SourceStepBudget)  BY <1>1, <2>6, <2>7 DEF SourceTurn
  <2> QED BY <1>1, <2>8, SessionAssumption DEF StepInv, StepOK, SInv, WindowOK
<1>2. StepInv /\ [SessionNext]_sessionVars =>
        [mode' = "idle" /\ mode \in {"over", "out"} /\ Len(frames') > start.depth
         => lastStatus' # "OK" \/ turns + 1 = SourceStepBudget]_sessionVars
  BY <1>1
<1> QED BY <1>2, StepInvAlways, PTL DEF SessionSpec, NoStepEndsDeeper

LEMMA ShownRowsNest ==
  ASSUME SInv
  PROVE  RowsNest(Rows)
<1>1. CASE mapped
  <2>1. Rows = Programs[program].rows /\ program \in DOMAIN Programs
    BY <1>1 DEF SInv, WindowOK, Rows, Image
  <2> QED BY <2>1, SessionAssumption
<1>2. CASE ~mapped
  <2>1. Rows = <<>>  BY <1>2 DEF Rows
  <2> QED BY <2>1 DEF RowsNest
<1> QED BY <1>1, <1>2

(* The innermost statement that begins at an address is the one              *)
(* FindSourceRow gives for it.                                              *)
LEMMA InnermostIsFound ==
  ASSUME SInv, NEW a, NEW i \in DOMAIN Rows, Innermost(i, a)
  PROVE  FindSourceRow(a) = PlaceOf(Rows[i])
<1> DEFINE around == {j \in DOMAIN Rows : Covers(Rows[j], a)}
           Best(b) == b \in around /\ \A j \in around :
                        Span(Rows[b]) < Span(Rows[j]) \/ (Span(Rows[b]) = Span(Rows[j]) /\ b <= j)
<1>1. RowsNest(Rows)  BY ShownRowsNest
<1>2. \A j \in DOMAIN Rows : j \in Nat /\ Rows[j] \in Row
  BY <1>1 DEF RowsNest
<1>3. a \in Nat /\ Rows[i].from = a /\ a < Rows[i].to
  BY <1>2 DEF Innermost, Span, Row
<1>4. Best(i)
  <2>1. i \in around  BY <1>2, <1>3 DEF Covers, Row
  <2>2. ASSUME NEW j \in around
        PROVE  Span(Rows[i]) < Span(Rows[j]) \/ (Span(Rows[i]) = Span(Rows[j]) /\ i <= j)
    <3>1. j \in DOMAIN Rows /\ Rows[j].from <= a /\ a < Rows[j].to  BY <2>2 DEF Covers
    <3>2. CASE Rows[j].from = a
      <4>1. Span(Rows[j]) > 0  BY <1>2, <1>3, <3>1, <3>2 DEF Span, Row
      <4> QED BY <3>1, <3>2, <4>1 DEF Innermost
    <3>3. CASE Rows[j].from < a
      <4>1. Rows[i].to <= Rows[j].to  BY <1>1, <1>3, <3>1, <3>3 DEF RowsNest
      <4> QED BY <1>2, <1>3, <3>1, <3>3, <4>1 DEF Span, Row
    <3> QED BY <1>2, <1>3, <3>1, <3>2, <3>3 DEF Row
  <2> QED BY <2>1, <2>2
<1>5. ASSUME NEW b, Best(b) PROVE b = i
  <2>1. b \in DOMAIN Rows  BY <1>5
  <2>2. Span(Rows[b]) \in Int /\ Span(Rows[i]) \in Int /\ b \in Nat /\ i \in Nat
    BY <1>2, <2>1 DEF Span, Row
  <2>3. Span(Rows[b]) < Span(Rows[i]) \/ (Span(Rows[b]) = Span(Rows[i]) /\ b <= i)
    BY <1>4, <1>5
  <2>4. Span(Rows[i]) < Span(Rows[b]) \/ (Span(Rows[i]) = Span(Rows[b]) /\ i <= b)
    BY <1>4, <1>5
  <2> QED BY <2>2, <2>3, <2>4
<1> DEFINE best == CHOOSE b \in around : \A j \in around :
              Span(Rows[b]) < Span(Rows[j]) \/ (Span(Rows[b]) = Span(Rows[j]) /\ b <= j)
<1>6. Best(best)  BY <1>4
<1>7. best = i  BY <1>5, <1>6
<1>8. around # {}  BY <1>4
<1>9. FindSourceRow(a) = PlaceOf(Rows[best])  BY <1>8 DEF FindSourceRow
<1> QED BY <1>7, <1>9

(* For every set of programs whose rows nest: neither Into nor Over runs    *)
(* past the beginning of a statement it should stop at.                     *)
THEOREM StatementsNotMissed == SessionSpec => NoStatementMissed
<1>1. ASSUME SInv, StartOK, SessionNext, StepContinues, StatementElsewhere(pc')
      PROVE  FALSE
  <2>1. mode \in SourceSteps /\ mode' = mode /\ mode # "out" /\ ~Idle
    BY <1>1 DEF StepContinues, SourceSteps, Idle
  <2>2. ~Clicks
    BY <2>1 DEF Clicks, StepClick, RunClick, ResetClick, CompileFails, SourceStepClick,
       ToggleAddress, ToggleLine, Compile, SelectFrame
  <2>3. ~LineTurn /\ ~CompileTurn
    BY <2>1 DEF LineTurn, ToggleRow, CompileTurn, SourceSteps
  <2>4. ~SourceStepPauses
    BY <1>1 DEF SourceStepPauses, RunStart, StepContinues
  <2>5. ~RunTurn
    BY <1>1, <2>1 DEF RunTurn, Done, StepContinues, SourceSteps
  <2>6. SourceTurn  BY <1>1, <2>2, <2>3, <2>4, <2>5 DEF SessionNext, Handler
  <2>7. GoesOn  BY <2>1, <2>6 DEF SourceTurn, Done, SourceSteps
  <2>8. FindSourceRow(pc') \in {NoPlace, start.place}
    <3>1. start.depth \in Nat /\ Len(frames') \in Nat
      <4>1. frames' \in Seq(FrameType)  BY <1>1, SInvStep DEF SInv, RInv, GuestOK
      <4> QED BY <1>1, <4>1 DEF StartOK
    <3> QED BY <1>1, <2>1, <2>7, <3>1 DEF GoesOn, StepContinues, Depth
  <2>9. PICK i \in DOMAIN Rows : Innermost(i, pc') /\ PlaceOf(Rows[i]) # start.place
    BY <1>1 DEF StatementElsewhere
  <2>10. FindSourceRow(pc') = PlaceOf(Rows[i])  BY <1>1, <2>9, InnermostIsFound
  <2>11. PlaceOf(Rows[i]) # NoPlace
    <3>1. Rows[i] \in Row  BY <1>1, ShownRowsNest DEF RowsNest
    <3> QED BY <3>1 DEF Row, PlaceOf, NoPlace
  <2> QED BY <2>8, <2>9, <2>10, <2>11
<1>2. SInv /\ StartOK /\ [SessionNext]_sessionVars =>
        [StepContinues => ~StatementElsewhere(pc')]_sessionVars
  BY <1>1
<1> QED BY <1>2, StartAlways, PTL DEF SessionSpec, NoStatementMissed

-----------------------------------------------------------------------------
(* Frames and WATCH.  Each call of a compiled program stands in the function*)
(* it was made to, and has on the stack what the layout says of the address *)
(* where it stands; a variable is found in its register, or in the word the *)
(* call sequence saved it to.                                               *)

Stands(k) == FrameAddress(k)
AreaOf(k) == Area(Image, Stands(k))
Slot(k, j) == frames[k].stackPointer - j * Word
Below(k) == IF k = Depth THEN sp ELSE frames[k + 1].stackPointer + Word
Holds(k, r, v) == locals[k][r] # Unset => v = locals[k][r]
FrameBytes == (FrameWords + 1) * Word

FrameRuns(k) ==
  /\ Stands(k) \in DOMAIN Listing
  /\ FunctionIn(Image, Stands(k)) # 0
  /\ FunctionIn(Image, Stands(k)) = FunctionIn(Image, frames[k].target)
  /\ k < Depth => /\ Listing[Stands(k)].op = "call"
                  /\ Listing[Stands(k)].target = frames[k + 1].target
FrameSaves(k) ==
  /\ Below(k) = Slot(k, Len(AreaOf(k)))
  /\ frames[k].stackPointer >= StackTop - Word - (k - 1) * FrameBytes
  /\ \A j \in DOMAIN AreaOf(k) :
       AreaOf(k)[j] \in LocalRegs(Image) => Holds(k, AreaOf(k)[j], stack[Slot(k, j)])

LocalsOK == locals \in Seq([1..LastSaved -> Words \cup {Unset}]) /\ Len(locals) = Depth
InTrampoline(a) == a \in DOMAIN Listing /\ FunctionIn(Image, a) = 0
Trampoline ==
  /\ Depth = 0 => sp = StackTop /\ (halted = 1 \/ InTrampoline(pc))
  /\ Depth > 0 => InTrampoline(frames[1].returnAddress)
RegistersHold == Depth > 0 => \A r \in Trusted(Image, pc) : Holds(Depth, r, regs[r])

CallsOK ==
  /\ LocalsOK /\ Trampoline /\ RegistersHold
  /\ \A k \in 1..Depth : FrameRuns(k) /\ FrameSaves(k)
ShownOK == mode \notin {"clear", "load"} => CallsOK

(* What the layout says of the image in the machine.                        *)
LEMMA LayoutHolds ==
  ASSUME SInv
  PROVE  /\ LaidOut(Image)
         /\ \A a \in DOMAIN Listing :
              StaysInFunction(Image, a) /\ Balances(Image, a) /\ KeepsLocals(Image, a)
         /\ LocalRegs(Image) \subseteq 1..LastSaved
         /\ \A a : Trusted(Image, a) \subseteq LocalRegs(Image)
<1>1. LaidOut(Image)  BY LayoutAssumption DEF SInv, WindowOK, Image
<1>2. \A a : Trusted(Image, a) \subseteq LocalRegs(Image)  BY DEF Trusted
<1> QED BY <1>1, <1>2 DEF LaidOut, Listing

(* The words of a call lie between sp and its return address.               *)
LEMMA FrameWordsAbove ==
  ASSUME SInv, CallsOK, Disciplined = 1, NEW k \in 1..Depth, NEW j \in DOMAIN AreaOf(k)
  PROVE  Slot(k, j) \in Slots /\ sp <= Slot(k, j)
<1>1. /\ frames[k].stackPointer \in Slots /\ sp \in StackBase..StackTop /\ sp % Word = 0
      /\ frames \in Seq(FrameType) /\ Depth \in Nat
  BY FrameFacts DEF SInv, RInv, GuestOK, Depth
<1>2. AreaOf(k) \in Seq(0..(LastSaved + 1))
  BY LayoutHolds DEF CallsOK, FrameRuns, Balances, AreaOf
<1>3. j \in 1..Len(AreaOf(k)) /\ Len(AreaOf(k)) \in Nat  BY <1>2
<1>4. Below(k) = frames[k].stackPointer - Len(AreaOf(k)) * Word
  BY DEF CallsOK, FrameSaves, Slot
<1>5. sp <= Below(k)
  <2>1. CASE k = Depth  BY <1>1, <2>1, RunAssumption DEF Below
  <2>2. CASE k # Depth
    <3>1. k + 1 \in 1..Len(frames)  BY <1>1, <2>2 DEF Depth
    <3>2. sp <= frames[k + 1].stackPointer /\ frames[k + 1].stackPointer \in Slots
      BY <3>1, FrameFacts DEF SInv, RInv, FramesMirrorStack, FramesNest
    <3> QED BY <1>1, <2>2, <3>2, RunAssumption DEF Below, Slots, Word
  <2> QED BY <2>1, <2>2
<1>6. /\ frames[k].stackPointer \in Nat /\ frames[k].stackPointer <= StackTop - Word
      /\ frames[k].stackPointer % Word = 0
  BY <1>1, RunAssumption DEF Slots
<1> DEFINE n == Len(AreaOf(k))
           p == frames[k].stackPointer
<1>7. n \in Nat /\ j \in 1..n /\ p \in Nat /\ p <= StackTop - Word /\ p % Word = 0
      /\ sp <= p - n * Word
  BY <1>3, <1>4, <1>5, <1>6
<1> HIDE DEF n, p
<1>8. sp <= p - j * Word  BY <1>1, <1>7, RunAssumption DEF Word
<1>9. p - j * Word \in StackBase..(StackTop - Word) /\ (p - j * Word) % Word = 0
  BY <1>1, <1>7, <1>8, RunAssumption DEF Word
<1> QED BY <1>8, <1>9 DEF Slot, Slots, p

(* A step within the innermost call.                                        *)
LEMMA SameFrames ==
  ASSUME SInv, CallsOK, Disciplined = 1, Depth > 0,
         frames' = frames, program' = program,
         pc' \in DOMAIN Listing, FunctionIn(Image, pc') = FunctionIn(Image, pc),
         LocalsOK', \A k \in 1..(Depth - 1) : locals'[k] = locals[k],
         \A x \in Slots : sp <= x => stack'[x] = stack[x],
         sp' = Slot(Depth, Len(Area(Image, pc'))),
         \A j \in DOMAIN Area(Image, pc') :
           LET r == Area(Image, pc')[j]
           IN  r \in LocalRegs(Image) /\ locals'[Depth][r] # Unset =>
                 stack'[Slot(Depth, j)] = locals'[Depth][r],
         \A r \in Trusted(Image, pc') :
           locals'[Depth][r] # Unset => regs'[r] = locals'[Depth][r]
  PROVE  CallsOK'
<1>1. Depth' = Depth /\ Image' = Image /\ Listing' = Listing /\ Depth \in Nat
  <2>1. frames \in Seq(FrameType)  BY DEF SInv, RInv, GuestOK
  <2> QED BY <2>1 DEF Depth, Image, Listing
<1>2. Depth \in 1..Depth /\ FrameRuns(Depth) /\ FrameSaves(Depth) /\ Stands(Depth) = pc
  BY <1>1 DEF CallsOK, Stands, FrameAddress
<1>3. ASSUME NEW k \in 1..Depth, k # Depth PROVE FrameRuns(k)' /\ FrameSaves(k)'
  <2>1. FrameRuns(k) /\ FrameSaves(k) /\ k \in 1..(Depth - 1)  BY <1>1, <1>3 DEF CallsOK
  <2>2. Stands(k)' = Stands(k)  BY <1>1, <1>3 DEF Stands, FrameAddress
  <2>3. AreaOf(k)' = AreaOf(k)  BY <1>1, <2>2 DEF AreaOf
  <2>4. Below(k)' = Below(k)  BY <1>1, <1>3 DEF Below
  <2>5. FrameRuns(k)'  BY <1>1, <2>1, <2>2 DEF FrameRuns
  <2>6. \A j \in DOMAIN AreaOf(k) : Slot(k, j)' = Slot(k, j) /\ stack'[Slot(k, j)] = stack[Slot(k, j)]
    <3> TAKE j \in DOMAIN AreaOf(k)
    <3>1. Slot(k, j) \in Slots /\ sp <= Slot(k, j)  BY FrameWordsAbove
    <3> QED BY <3>1 DEF Slot
  <2>7. locals'[k] = locals[k]  BY <2>1
  <2>8. \A j \in DOMAIN AreaOf(k)' : AreaOf(k)'[j] \in LocalRegs(Image)' =>
          Holds(k, AreaOf(k)[j], stack[Slot(k, j)])'
    BY <1>1, <2>1, <2>3, <2>6, <2>7 DEF FrameSaves, Holds
  <2>9. Below(k)' = Slot(k, Len(AreaOf(k)))'  BY <2>1, <2>3, <2>4 DEF FrameSaves, Slot
  <2>10. (frames[k].stackPointer >= StackTop - Word - (k - 1) * FrameBytes)'
    BY <2>1 DEF FrameSaves
  <2> QED BY <2>5, <2>8, <2>9, <2>10 DEF FrameSaves
<1>4. ASSUME NEW k \in 1..Depth, k = Depth PROVE FrameRuns(k)' /\ FrameSaves(k)'
  <2>1. Stands(k)' = pc' /\ Below(k)' = sp'  BY <1>1, <1>4 DEF Stands, FrameAddress, Below
  <2>2. AreaOf(k)' = Area(Image, pc')  BY <1>1, <2>1 DEF AreaOf
  <2>3. FrameRuns(k)'  BY <1>1, <1>2, <1>4, <2>1 DEF FrameRuns
  <2>4. \A j : Slot(k, j)' = Slot(k, j)  BY DEF Slot
  <2>5. Below(k)' = Slot(k, Len(AreaOf(k)))'  BY <1>4, <2>1, <2>2 DEF Slot
  <2>6. \A j \in DOMAIN AreaOf(k)' : AreaOf(k)'[j] \in LocalRegs(Image)' =>
          Holds(k, AreaOf(k)[j], stack[Slot(k, j)])'
    BY <1>1, <1>4, <2>2, <2>4 DEF Holds
  <2>7. (frames[k].stackPointer >= StackTop - Word - (k - 1) * FrameBytes)'
    BY <1>2, <1>4 DEF FrameSaves
  <2> QED BY <2>3, <2>5, <2>6, <2>7 DEF FrameSaves
<1>5. RegistersHold'  BY <1>1 DEF RegistersHold, Holds
<1>6. Trampoline'  BY <1>1 DEF CallsOK, Trampoline, InTrampoline
<1> QED BY <1>1, <1>3, <1>4, <1>5, <1>6 DEF CallsOK

(* The call that runs stands at pc.                                         *)
LEMMA InnermostCall ==
  ASSUME SInv, CallsOK, Disciplined = 1, Depth > 0
  PROVE  /\ Depth \in Nat /\ Depth \in 1..Depth /\ Depth <= FrameCap
         /\ pc \in DOMAIN Listing /\ FunctionIn(Image, pc) # 0
         /\ FunctionIn(Image, pc) = FunctionIn(Image, frames[Depth].target)
         /\ sp = Slot(Depth, Len(Area(Image, pc)))
         /\ frames[Depth].stackPointer \in Slots
         /\ frames[Depth].stackPointer >= StackTop - Word - (Depth - 1) * FrameBytes
         /\ Area(Image, pc) \in Seq(0..(LastSaved + 1)) /\ Len(Area(Image, pc)) <= FrameWords
         /\ StaysInFunction(Image, pc) /\ Balances(Image, pc) /\ KeepsLocals(Image, pc)
         /\ LocalsOK /\ RegistersHold /\ FrameSaves(Depth)
         /\ locals[Depth] \in [1..LastSaved -> Words \cup {Unset}]
         /\ LocalRegs(Image) \subseteq 1..LastSaved
         /\ Trusted(Image, pc) \subseteq LocalRegs(Image)
<1>1. Depth \in Nat /\ Depth <= FrameCap /\ Depth \in 1..Depth
  BY FrameFacts DEF SInv, RInv, GuestOK, Depth
<1>2. FrameRuns(Depth) /\ FrameSaves(Depth) /\ LocalsOK /\ RegistersHold
  BY <1>1 DEF CallsOK
<1>3. Stands(Depth) = pc /\ AreaOf(Depth) = Area(Image, pc) /\ Below(Depth) = sp
  BY DEF Stands, FrameAddress, AreaOf, Below
<1>4. /\ pc \in DOMAIN Listing /\ FunctionIn(Image, pc) # 0
      /\ FunctionIn(Image, pc) = FunctionIn(Image, frames[Depth].target)
  BY <1>2, <1>3 DEF FrameRuns
<1>5. StaysInFunction(Image, pc) /\ Balances(Image, pc) /\ KeepsLocals(Image, pc)
  BY <1>4, LayoutHolds
<1>6. Area(Image, pc) \in Seq(0..(LastSaved + 1)) /\ Len(Area(Image, pc)) <= FrameWords
  BY <1>5 DEF Balances
<1>7. frames[Depth].stackPointer \in Slots
  BY <1>1, FrameFacts DEF SInv, RInv, GuestOK, Depth
<1>8. /\ sp = Slot(Depth, Len(Area(Image, pc)))
      /\ frames[Depth].stackPointer >= StackTop - Word - (Depth - 1) * FrameBytes
  BY <1>2, <1>3 DEF FrameSaves
<1>9. locals[Depth] \in [1..LastSaved -> Words \cup {Unset}]
  <2>1. locals \in Seq([1..LastSaved -> Words \cup {Unset}]) /\ Depth \in 1..Len(locals)
    BY <1>1, <1>2 DEF LocalsOK
  <2> QED BY <2>1, ElementOfSeq
<1>10. LocalRegs(Image) \subseteq 1..LastSaved /\ Trusted(Image, pc) \subseteq LocalRegs(Image)
  BY LayoutHolds
<1> QED BY <1>1, <1>2, <1>4, <1>5, <1>6, <1>7, <1>8, <1>9, <1>10

(* Outside its call sequences a call has all variables in their registers.  *)
LEMMA AllInRegisters ==
  ASSUME SInv, CallsOK, Disciplined = 1, Depth > 0, Listing[pc].op \notin {"pop", "call"},
         NEW r \in LocalRegs(Image)
  PROVE  Holds(Depth, r, regs[r])
<1>1. Trusted(Image, pc) = LocalRegs(Image)  BY DEF Trusted, Listing
<1> QED BY <1>1, InnermostCall DEF RegistersHold

(* The word a call has of a variable on the stack.                          *)
LEMMA SavedWord ==
  ASSUME SInv, CallsOK, Disciplined = 1, Depth > 0, NEW j \in DOMAIN Area(Image, pc),
         Area(Image, pc)[j] \in LocalRegs(Image)
  PROVE  Holds(Depth, Area(Image, pc)[j], stack[Slot(Depth, j)])
<1>1. FrameSaves(Depth)  BY InnermostCall
<1>2. AreaOf(Depth) = Area(Image, pc)  BY DEF Stands, FrameAddress, AreaOf
<1> QED BY <1>1, <1>2 DEF FrameSaves

LEMMA ComputesKeeps ==
  ASSUME SInv, CallsOK, Disciplined = 1, Depth > 0, program' = program, Computes(Listing[pc])
  PROVE  CallsOK'
<1> DEFINE i == Listing[pc]
           area == Area(Image, pc)
           given == i.op = "mov" /\ i.reg # 0
           v == IF i.op = "movi" THEN i.value ELSE regs[i.from]
<1>1. /\ i.op \in {"movi", "mov"} /\ Falls(i) /\ regs' = [regs EXCEPT ![i.reg] = v]
      /\ locals' = IF given THEN [locals EXCEPT ![Depth][i.reg] = v] ELSE locals
  BY DEF Computes
<1>2. i.reg \in Registers /\ v \in Words /\ regs \in [Registers -> Words]
  <2>1. WellFormed(pc, i)
    BY InnermostCall, SessionAssumption DEF SInv, WindowOK, Listing, Image
  <2> QED BY <1>1, <2>1 DEF WellFormed, SInv, ValuesOK, Registers
<1>3. /\ pc' = After(Image, pc) /\ frames' = frames /\ sp' = sp /\ stack' = stack
  BY <1>1 DEF Falls, Plain, After, Listing
<1>4. /\ After(Image, pc) \in DOMAIN Listing
      /\ FunctionIn(Image, After(Image, pc)) = FunctionIn(Image, pc)
      /\ Area(Image, After(Image, pc)) = area
      /\ i.op = "movi" \/ area # <<>> => i.reg \notin LocalRegs(Image)
  BY <1>1, InnermostCall DEF StaysInFunction, Balances, KeepsLocals, Listing
<1>5. /\ locals \in Seq([1..LastSaved -> Words \cup {Unset}]) /\ Len(locals) = Depth
      /\ locals[Depth] \in [1..LastSaved -> Words \cup {Unset}]
      /\ Depth \in Nat /\ Depth \in 1..Depth /\ LocalRegs(Image) \subseteq 1..LastSaved
      /\ sp = Slot(Depth, Len(area)) /\ area \in Seq(Registers)
  BY InnermostCall DEF LocalsOK, Registers
<1> HIDE DEF i, area, v
<1>6. /\ LocalsOK' /\ \A k \in 1..(Depth - 1) : locals'[k] = locals[k]
      /\ \A r \in 1..LastSaved : locals'[Depth][r] = IF given /\ r = i.reg THEN v ELSE locals[Depth][r]
  <2>1. CASE given
    <3>1. locals' = [locals EXCEPT ![Depth] = [locals[Depth] EXCEPT ![i.reg] = v]]
      BY <1>1, <2>1
    <3>2. [locals[Depth] EXCEPT ![i.reg] = v] \in [1..LastSaved -> Words \cup {Unset}]
      BY <1>2, <1>5
    <3>3. locals' \in Seq([1..LastSaved -> Words \cup {Unset}]) /\ Len(locals') = Depth
      BY <1>5, <3>1, <3>2
    <3>4. locals'[Depth] = [locals[Depth] EXCEPT ![i.reg] = v] /\ \A k \in 1..(Depth - 1) : locals'[k] = locals[k]
      BY <1>5, <3>1
    <3> QED BY <1>3, <1>5, <2>1, <3>3, <3>4 DEF LocalsOK, Depth
  <2>2. CASE ~given
    BY <1>1, <1>3, <1>5, <2>2 DEF LocalsOK, Depth
  <2> QED BY <2>1, <2>2
<1> HIDE DEF given
<1>7. \A j \in DOMAIN Area(Image, pc') :
        LET r == Area(Image, pc')[j]
        IN  r \in LocalRegs(Image) /\ locals'[Depth][r] # Unset =>
              stack'[Slot(Depth, j)] = locals'[Depth][r]
  <2> SUFFICES ASSUME NEW j \in DOMAIN area, area[j] \in LocalRegs(Image),
                      locals'[Depth][area[j]] # Unset
               PROVE  stack[Slot(Depth, j)] = locals'[Depth][area[j]]
    BY <1>3, <1>4
  <2>1. area # <<>>  BY <1>5
  <2>2. locals'[Depth][area[j]] = locals[Depth][area[j]]  BY <1>4, <1>5, <1>6, <2>1
  <2>3. Holds(Depth, area[j], stack[Slot(Depth, j)])  BY SavedWord DEF area
  <2> QED BY <2>2, <2>3 DEF Holds
<1>8. \A r \in Trusted(Image, pc') : locals'[Depth][r] # Unset => regs'[r] = locals'[Depth][r]
  <2> SUFFICES ASSUME NEW r \in LocalRegs(Image), locals'[Depth][r] # Unset
               PROVE  regs'[r] = locals'[Depth][r]
    BY LayoutHolds
  <2>1. r \in 1..LastSaved /\ r \in Registers /\ r # 0  BY <1>5, SessionAssumption DEF Registers
  <2>2. CASE r = i.reg
    <3>1. regs'[r] = v /\ given  BY <1>1, <1>2, <1>4, <2>1, <2>2 DEF given
    <3> QED BY <1>6, <2>1, <2>2, <3>1
  <2>3. CASE r # i.reg
    <3>1. regs'[r] = regs[r] /\ locals'[Depth][r] = locals[Depth][r]
      BY <1>1, <1>2, <1>6, <2>1, <2>3
    <3>2. Holds(Depth, r, regs[r])  BY <1>1, AllInRegisters DEF i
    <3> QED BY <3>1, <3>2 DEF Holds
  <2> QED BY <2>2, <2>3
<1> QED BY <1>3, <1>4, <1>5, <1>6, <1>7, <1>8, SameFrames

LEMMA TransfersKeeps ==
  ASSUME SInv, CallsOK, Disciplined = 1, Depth > 0, program' = program, Transfers(Listing[pc])
  PROVE  CallsOK'
<1> DEFINE i == Listing[pc]
           area == Area(Image, pc)
<1>1. UNCHANGED <<regs, locals>> /\ i.op \in {"cmp", "je", "jmp"}
  <2>1. i.op # "halt"  BY InnermostCall DEF StaysInFunction, Listing
  <2> QED BY <2>1 DEF Transfers
<1>2. /\ UNCHANGED <<sp, stack, frames>>
      /\ \/ pc' = After(Image, pc) /\ i.op # "jmp"
         \/ pc' = i.target /\ i.op # "cmp"
  <2>1. i.op # "cmp" => RangeValid(i.target)
    BY <1>1, InnermostCall DEF StaysInFunction, RangeValid, Listing
  <2>2. CASE i.op \in {"cmp", "je"} /\ Falls(i)
    <3>1. i.op # "jmp"  BY <2>2
    <3>2. Plain /\ pc' = pc + i.size  BY <2>2 DEF Falls
    <3>3. After(Image, pc) = pc + i.size  BY DEF After, Listing
    <3>4. UNCHANGED <<sp, stack, frames>>  BY <3>2 DEF Plain
    <3> QED BY <3>1, <3>2, <3>3, <3>4
  <2>3. CASE i.op \in {"je", "jmp"} /\ Jump(i.target)
    BY <2>1, <2>3 DEF Jump, Ok
  <2> QED BY <1>1, <2>2, <2>3 DEF Transfers
<1>3. /\ pc' \in DOMAIN Listing /\ FunctionIn(Image, pc') = FunctionIn(Image, pc)
      /\ Area(Image, pc') = area
  BY <1>1, <1>2, InnermostCall DEF StaysInFunction, Balances, Listing
<1>4. LocalsOK' /\ Depth \in Nat /\ sp = Slot(Depth, Len(area))
  BY <1>1, <1>2, InnermostCall DEF LocalsOK, Depth
<1>5. i.op \notin {"pop", "call"}  BY <1>1
<1> HIDE DEF i, area
<1>6. \A j \in DOMAIN Area(Image, pc') :
        LET r == Area(Image, pc')[j]
        IN  r \in LocalRegs(Image) /\ locals'[Depth][r] # Unset =>
              stack'[Slot(Depth, j)] = locals'[Depth][r]
  BY <1>1, <1>2, <1>3, SavedWord DEF area, Holds
<1>7. \A r \in Trusted(Image, pc') : locals'[Depth][r] # Unset => regs'[r] = locals'[Depth][r]
  <2> SUFFICES ASSUME NEW r \in LocalRegs(Image), locals'[Depth][r] # Unset
               PROVE  regs'[r] = locals'[Depth][r]
    BY LayoutHolds
  <2>1. Holds(Depth, r, regs[r])  BY <1>5, AllInRegisters DEF i
  <2> QED BY <1>1, <2>1 DEF Holds
<1> QED BY <1>1, <1>2, <1>3, <1>4, <1>6, <1>7, SameFrames

(* The stack has room for all frames the machine records.                   *)
LEMMA FramesFit ==
  ASSUME NEW d \in Nat, d <= FrameCap
  PROVE  FrameBytes \in Nat /\ d * FrameBytes \in Nat /\ d * FrameBytes <= StackTop - StackBase
<1> DEFINE b == FrameBytes
           rest == FrameCap - d
<1>1. b \in Nat /\ FrameCap \in Nat /\ FrameCap * b <= StackTop - StackBase
  <2>1. FrameWords \in Nat /\ FrameCap \in Nat  BY RunAssumption, LayoutAssumption
  <2>2. FrameCap * (FrameWords + 1) * Word <= StackTop - StackBase  BY LayoutAssumption
  <2> DEFINE w == FrameWords + 1
  <2>3. w \in Nat  BY <2>1
  <2>4. FrameCap * w * Word <= StackTop - StackBase  BY <2>2
  <2> HIDE DEF w
  <2>5. FrameCap * (w * Word) = FrameCap * w * Word  BY <2>1, <2>3 DEF Word
  <2>6. b = w * Word  BY DEF FrameBytes, w
  <2> QED BY <2>1, <2>3, <2>4, <2>5, <2>6 DEF Word
<1>2. rest \in Nat /\ FrameCap = d + rest  BY <1>1
<1> HIDE DEF b, rest
<1>3. (d + rest) * b = d * b + rest * b  BY <1>1, <1>2
<1>4. rest * b \in Nat /\ d * b \in Nat  BY <1>1, <1>2
<1>5. FrameCap * b = d * b + rest * b  BY <1>2, <1>3
<1>6. d * b <= StackTop - StackBase
  <2> DEFINE x == d * b
             y == rest * b
             z == FrameCap * b
  <2>1. x \in Nat /\ y \in Nat /\ z = x + y /\ z <= StackTop - StackBase
    BY <1>1, <1>4, <1>5
  <2> HIDE DEF x, y, z
  <2>2. x <= StackTop - StackBase  BY <2>1, RunAssumption
  <2> QED BY <2>2 DEF x
<1> QED BY <1>1, <1>4, <1>6 DEF b

(* Where the words of the innermost call end.                               *)
LEMMA StackRoom ==
  ASSUME SInv, CallsOK, Disciplined = 1, Depth > 0
  PROVE  /\ sp - Word >= StackTop - Word - Depth * FrameBytes
         /\ Len(Area(Image, pc)) < FrameWords => CanPush
<1> DEFINE n == Len(Area(Image, pc))
           p == frames[Depth].stackPointer
           below == (Depth - 1) * FrameBytes
           all == Depth * FrameBytes
<1>1. /\ Depth \in Nat /\ Depth <= FrameCap /\ n \in Nat /\ n <= FrameWords
      /\ sp = p - n * Word /\ p >= StackTop - Word - below /\ p \in Nat
  BY InnermostCall, RunAssumption DEF Slot, Slots
<1>2. all \in Nat /\ all <= StackTop - StackBase /\ FrameBytes \in Nat
  BY <1>1, FramesFit
<1>3. below \in Int /\ all = below + FrameBytes
  BY <1>1, <1>2
<1>4. FrameBytes = FrameWords * Word + Word /\ FrameWords \in Nat
  BY LayoutAssumption DEF FrameBytes, Word
<1>5. StackTop \in Nat /\ StackBase \in Nat  BY RunAssumption
<1> HIDE DEF n, p, below, all
<1>6. sp - Word >= StackTop - Word - all  BY <1>1, <1>3, <1>4, <1>5 DEF Word
<1>7. n < FrameWords => sp >= StackBase + Word
  BY <1>1, <1>2, <1>3, <1>4, <1>5 DEF Word
<1> QED BY <1>6, <1>7 DEF CanPush, n, all

(* A sequence without its last element.                                     *)
IsFront(rest, s) ==
  /\ Len(rest) = Len(s) - 1 /\ DOMAIN rest = 1..(Len(s) - 1)
  /\ \A j \in 1..(Len(s) - 1) : rest[j] = s[j]
LEMMA FrontOf ==
  ASSUME NEW S, NEW s \in Seq(S), s # <<>>, NEW rest, rest = SubSeq(s, 1, Len(s) - 1)
  PROVE  Len(s) \in Nat \ {0} /\ rest \in Seq(S) /\ IsFront(rest, s)
<1> DEFINE n == Len(s)
<1>1. n \in Nat \ {0}  BY EmptySeq
<1>2. \A j \in 1..(n - 1) : s[j] \in S
  <2>1. \A j \in 1..n : s[j] \in S  BY ElementOfSeq
  <2> QED BY <1>1, <2>1
<1> HIDE DEF n
<1>3. n - 1 \in Int /\ rest = SubSeq(s, 1, n - 1)  BY <1>1 DEF n
<1>4. /\ rest \in Seq(S) /\ Len(rest) = IF 1 <= n - 1 THEN n - 1 - 1 + 1 ELSE 0
      /\ \A j \in 1..(n - 1 - 1 + 1) : rest[j] = s[1 + j - 1]
  BY <1>2, <1>3, SubSeqProperties
<1>5. Len(rest) = n - 1  BY <1>1, <1>4
<1>6. \A j \in 1..(n - 1) : rest[j] = s[j]  BY <1>1, <1>4
<1>7. DOMAIN rest = 1..(n - 1)  BY <1>4, <1>5
<1> QED BY <1>1, <1>4, <1>5, <1>6, <1>7 DEF IsFront, n

LEMMA PushesKeep ==
  ASSUME SInv, CallsOK, Disciplined = 1, Depth > 0, program' = program,
         Listing[pc].op = "push", Push(regs[Listing[pc].reg]), UNCHANGED <<regs, locals>>
  PROVE  CallsOK'
<1> DEFINE i == Listing[pc]
           area == Area(Image, pc)
           n == Len(area)
           top == frames[Depth].stackPointer
<1>1. /\ After(Image, pc) \in DOMAIN Listing
      /\ FunctionIn(Image, After(Image, pc)) = FunctionIn(Image, pc)
      /\ After(Image, pc) = pc + 2
  BY InnermostCall DEF StaysInFunction, Listing, After
<1>2. /\ Area(Image, After(Image, pc)) = Append(area, i.reg) /\ area \in Seq(Registers)
      /\ n \in Nat /\ i.reg \in Registers
  <2>1. WellFormed(pc, i)
    BY InnermostCall, SessionAssumption DEF SInv, WindowOK, Listing, Image
  <2> QED BY <2>1, InnermostCall DEF Balances, WellFormed, Listing, Registers
<1>3. Len(Append(area, i.reg)) <= FrameWords
  BY <1>1, <1>2, LayoutHolds DEF Balances
<1>4. n < FrameWords  BY <1>2, <1>3, LayoutAssumption
<1>5. CanPush /\ sp - Word \in Slots  BY <1>4, StackRoom, StackMoves DEF SInv, RInv
<1>6. /\ pc' = After(Image, pc) /\ frames' = frames /\ sp' = sp - Word
      /\ stack' = [stack EXCEPT ![sp - Word] = regs[i.reg]]
  <2>1. pc \in Nat /\ At(1) = After(Image, pc)
    BY <1>1, RunAssumption DEF SInv, RInv, GuestOK, At
  <2>2. Ok(At(1)) /\ Pushed(regs[i.reg]) /\ UNCHANGED frames  BY <1>5 DEF Push
  <2> QED BY <2>1, <2>2 DEF Ok, Pushed
<1>7. sp = top - n * Word /\ top \in Nat /\ Depth \in Nat /\ LocalsOK'
  BY <1>6, InnermostCall, RunAssumption DEF Slot, Slots, LocalsOK, Depth
<1>8. stack \in [Slots -> Words]  BY DEF SInv, ValuesOK
<1>9. i.op \notin {"pop", "call"}  OBVIOUS
<1> HIDE DEF i, area, n, top
<1>10. sp - Word = top - (n + 1) * Word  BY <1>2, <1>7 DEF Word
<1>11. sp' = Slot(Depth, Len(Area(Image, pc')))
  BY <1>2, <1>6, <1>10 DEF Slot, n, top
<1>12. \A x \in Slots : sp <= x => stack'[x] = stack[x]
  BY <1>6, <1>7, <1>8, <1>2 DEF Word
<1>13. \A j \in DOMAIN Area(Image, pc') :
        LET r == Area(Image, pc')[j]
        IN  r \in LocalRegs(Image) /\ locals'[Depth][r] # Unset =>
              stack'[Slot(Depth, j)] = locals'[Depth][r]
  <2> DEFINE new == Append(area, i.reg)
  <2> SUFFICES ASSUME NEW j \in DOMAIN new, new[j] \in LocalRegs(Image),
                      locals[Depth][new[j]] # Unset
               PROVE  stack'[Slot(Depth, j)] = locals[Depth][new[j]]
    BY <1>2, <1>6
  <2>1. CASE j = n + 1
    <3>1. new[j] = i.reg  BY <1>2, <2>1 DEF n
    <3>2. Slot(Depth, j) = sp - Word  BY <1>10, <2>1 DEF Slot, top
    <3>3. stack'[Slot(Depth, j)] = regs[i.reg]  BY <1>5, <1>6, <1>8, <3>2
    <3>4. Holds(Depth, i.reg, regs[i.reg])  BY <1>9, <3>1, AllInRegisters DEF i
    <3> QED BY <3>1, <3>3, <3>4 DEF Holds
  <2>2. CASE j # n + 1
    <3>1. j \in DOMAIN area /\ new[j] = area[j]  BY <1>2, <2>2 DEF n
    <3>2. Holds(Depth, area[j], stack[Slot(Depth, j)])  BY <3>1, SavedWord DEF area
    <3>3. AreaOf(Depth) = area  BY DEF AreaOf, Stands, FrameAddress, area
    <3>4. Slot(Depth, j) \in Slots /\ sp <= Slot(Depth, j)
      BY <3>1, <3>3, FrameWordsAbove, InnermostCall
    <3> QED BY <1>12, <3>1, <3>2, <3>4 DEF Holds
  <2> QED BY <2>1, <2>2
<1>14. \A r \in Trusted(Image, pc') : locals'[Depth][r] # Unset => regs'[r] = locals'[Depth][r]
  <2> SUFFICES ASSUME NEW r \in LocalRegs(Image), locals[Depth][r] # Unset
               PROVE  regs[r] = locals[Depth][r]
    BY LayoutHolds
  <2>1. Holds(Depth, r, regs[r])  BY <1>9, AllInRegisters DEF i
  <2> QED BY <2>1 DEF Holds
<1> QED BY <1>1, <1>6, <1>7, <1>11, <1>12, <1>13, <1>14, SameFrames

LEMMA PopsKeep ==
  ASSUME SInv, CallsOK, Disciplined = 1, Depth > 0, program' = program,
         Listing[pc].op = "pop", Pop, UNCHANGED locals,
         regs' = IF lastStatus' = "OK" THEN [regs EXCEPT ![Listing[pc].reg] = stack[sp]] ELSE regs
  PROVE  CallsOK'
<1> DEFINE i == Listing[pc]
           area == Area(Image, pc)
           n == Len(area)
           top == frames[Depth].stackPointer
           rest == SubSeq(area, 1, n - 1)
           next == Trusted(Image, After(Image, pc))
<1>1. /\ After(Image, pc) \in DOMAIN Listing
      /\ FunctionIn(Image, After(Image, pc)) = FunctionIn(Image, pc)
      /\ After(Image, pc) = pc + 2
  BY InnermostCall DEF StaysInFunction, Listing, After
<1>2. /\ Area(Image, After(Image, pc)) = rest /\ area \in Seq(Registers) /\ area # <<>>
      /\ i.reg \in Registers
  <2>1. WellFormed(pc, i)
    BY InnermostCall, SessionAssumption DEF SInv, WindowOK, Listing, Image
  <2> QED BY <2>1, InnermostCall DEF Balances, WellFormed, Listing, Registers
<1>3. /\ n \in Nat \ {0} /\ Len(rest) = n - 1 /\ \A j \in 1..(n - 1) : rest[j] = area[j]
      /\ DOMAIN rest = 1..(n - 1) /\ n \in DOMAIN area
  <2>1. area \in Seq(Registers) /\ area # <<>>  BY <1>2
  <2> HIDE DEF area
  <2>2. n \in Nat \ {0}  BY <2>1, EmptySeq
  <2>3. n \in DOMAIN area  BY <2>1, <2>2
  <2>4. IsFront(rest, area)  BY <2>1, FrontOf
  <2> QED BY <2>2, <2>3, <2>4 DEF IsFront
<1>4. IF i.reg = area[n] THEN next \subseteq Trusted(Image, pc) \cup {i.reg}
      ELSE next \subseteq Trusted(Image, pc) \ {i.reg}
  BY InnermostCall DEF KeepsLocals, Listing
<1>5. /\ sp = top - n * Word /\ top \in Nat /\ top <= StackTop - Word /\ Depth \in Nat
      /\ LocalsOK /\ RegistersHold
  BY InnermostCall, RunAssumption DEF Slot, Slots
<1>6. CanPop  BY <1>3, <1>5, RunAssumption DEF CanPop, Word
<1>7. /\ pc' = After(Image, pc) /\ frames' = frames /\ sp' = sp + Word /\ stack' = stack
      /\ regs' = [regs EXCEPT ![i.reg] = stack[sp]]
  <2>1. pc \in Nat /\ At(1) = After(Image, pc)
    BY <1>1, RunAssumption DEF SInv, RInv, GuestOK, At
  <2>2. Ok(At(1)) /\ sp' = sp + Word /\ UNCHANGED <<stack, frames>>  BY <1>6 DEF Pop
  <2> QED BY <2>1, <2>2 DEF Ok
<1>8. regs \in [Registers -> Words] /\ sp = Slot(Depth, n)
  BY InnermostCall DEF SInv, ValuesOK
<1> HIDE DEF i, area, n, top, rest, next
<1>9. LocalsOK'  BY <1>5, <1>7 DEF LocalsOK, Depth
<1>10. sp' = Slot(Depth, Len(Area(Image, pc')))
  <2>1. sp + Word = top - (n - 1) * Word  BY <1>3, <1>5 DEF Word
  <2> QED BY <1>2, <1>3, <1>7, <2>1 DEF Slot, top
<1>11. \A j \in DOMAIN Area(Image, pc') :
        LET r == Area(Image, pc')[j]
        IN  r \in LocalRegs(Image) /\ locals'[Depth][r] # Unset =>
              stack'[Slot(Depth, j)] = locals'[Depth][r]
  <2> SUFFICES ASSUME NEW j \in DOMAIN rest, rest[j] \in LocalRegs(Image),
                      locals[Depth][rest[j]] # Unset
               PROVE  stack[Slot(Depth, j)] = locals[Depth][rest[j]]
    BY <1>2, <1>7
  <2>1. j \in DOMAIN area /\ rest[j] = area[j]  BY <1>2, <1>3 DEF n
  <2>2. Holds(Depth, area[j], stack[Slot(Depth, j)])  BY <2>1, SavedWord DEF area
  <2> QED BY <2>1, <2>2 DEF Holds
<1>12. \A r \in Trusted(Image, pc') : locals'[Depth][r] # Unset => regs'[r] = locals'[Depth][r]
  <2> SUFFICES ASSUME NEW r \in next, locals[Depth][r] # Unset
               PROVE  regs'[r] = locals[Depth][r]
    BY <1>7 DEF next
  <2>1. r \in LocalRegs(Image) /\ r \in Registers
    BY LayoutHolds, SessionAssumption DEF next, Registers
  <2>2. CASE r = i.reg
    <3>1. i.reg = area[n]  BY <1>4, <2>2
    <3>2. Holds(Depth, area[n], stack[Slot(Depth, n)])
      BY <1>3, <2>1, <2>2, <3>1, SavedWord DEF area
    <3>3. regs'[r] = stack[sp]  BY <1>7, <1>8, <2>1, <2>2
    <3> QED BY <1>8, <2>2, <3>1, <3>2, <3>3 DEF Holds
  <2>3. CASE r # i.reg
    <3>1. r \in Trusted(Image, pc)  BY <1>4, <2>3
    <3>2. regs'[r] = regs[r]  BY <1>7, <1>8, <2>1, <2>3
    <3> QED BY <1>5, <3>1, <3>2 DEF RegistersHold, Holds
  <2> QED BY <2>2, <2>3
<1>13. /\ \A k \in 1..(Depth - 1) : locals'[k] = locals[k]
       /\ \A x \in Slots : sp <= x => stack'[x] = stack[x]
  BY <1>7
<1> QED BY <1>1, <1>7, <1>9, <1>10, <1>11, <1>12, <1>13, SameFrames

(* A call below, that a step leaves where it stands.                        *)
LEMMA FrameStays ==
  ASSUME SInv, CallsOK, Disciplined = 1, program' = program,
         NEW k \in 1..Depth, frames'[k] = frames[k], locals'[k] = locals[k],
         Stands(k)' = Stands(k), Below(k)' = Below(k),
         \A x \in Slots : sp <= x => stack'[x] = stack[x],
         k < Depth' => /\ Listing[Stands(k)].op = "call"
                       /\ Listing[Stands(k)].target = frames'[k + 1].target
  PROVE  FrameRuns(k)' /\ FrameSaves(k)'
<1>1. Image' = Image /\ Listing' = Listing  BY DEF Image, Listing
<1>2. FrameRuns(k) /\ FrameSaves(k)  BY DEF CallsOK
<1>3. AreaOf(k)' = AreaOf(k)  BY <1>1 DEF AreaOf
<1>4. \A j \in DOMAIN AreaOf(k) : Slot(k, j)' = Slot(k, j) /\ stack'[Slot(k, j)] = stack[Slot(k, j)]
  <2> TAKE j \in DOMAIN AreaOf(k)
  <2>1. Slot(k, j) \in Slots /\ sp <= Slot(k, j)  BY FrameWordsAbove
  <2> QED BY <2>1 DEF Slot
<1>5. \A j \in DOMAIN AreaOf(k)' : AreaOf(k)'[j] \in LocalRegs(Image)' =>
        Holds(k, AreaOf(k)[j], stack[Slot(k, j)])'
  BY <1>1, <1>2, <1>3, <1>4 DEF FrameSaves, Holds
<1>6. Below(k)' = Slot(k, Len(AreaOf(k)))'  BY <1>2, <1>3 DEF FrameSaves, Slot
<1>7. (frames[k].stackPointer >= StackTop - Word - (k - 1) * FrameBytes)'
  BY <1>2 DEF FrameSaves
<1>8. FrameRuns(k)'  BY <1>1, <1>2 DEF FrameRuns
<1> QED BY <1>5, <1>6, <1>7, <1>8 DEF FrameSaves

(* Where a program is that executes an instruction.                         *)
LEMMA ExecutesAt ==
  ASSUME SInv, CallsOK, Disciplined = 1, halted = 0
  PROVE  /\ pc \in DOMAIN Listing /\ pc \in Nat /\ Depth \in Nat /\ FrameBytes \in Nat
         /\ WellFormed(pc, Listing[pc])
         /\ StaysInFunction(Image, pc) /\ Balances(Image, pc) /\ KeepsLocals(Image, pc)
         /\ Depth = 0 => InTrampoline(pc) /\ sp = StackTop
<1>1. Depth \in Nat /\ pc \in Nat
  BY FrameFacts, RunAssumption DEF SInv, RInv, GuestOK, Depth
<1>2. Depth = 0 => InTrampoline(pc) /\ sp = StackTop  BY DEF CallsOK, Trampoline
<1>3. pc \in DOMAIN Listing  BY <1>1, <1>2, InnermostCall DEF InTrampoline
<1>4. WellFormed(pc, Listing[pc])
  BY <1>3, SessionAssumption DEF SInv, WindowOK, Listing, Image
<1>5. FrameBytes \in Nat  BY LayoutAssumption DEF FrameBytes, Word
<1> QED BY <1>1, <1>2, <1>3, <1>4, <1>5, LayoutHolds

(* A CALL that the machine makes.                                           *)
CallGoes(i) ==
  /\ Pushed(pc + CallInstructionSize) /\ pc' = i.target
  /\ frames' = Append(frames, [target |-> i.target, stackPointer |-> sp - Word,
                               returnAddress |-> pc + CallInstructionSize])
  /\ locals' = Append(locals, Entered(i))

LEMMA CallEither ==
  ASSUME SInv, CallsOK, Disciplined = 1, halted = 0, Listing[pc].op = "call",
         Call(Listing[pc].target),
         locals' = IF lastStatus' = "OK" THEN Append(locals, Entered(Listing[pc])) ELSE locals
  PROVE  \/ CallGoes(Listing[pc]) /\ CanPush
         \/ pc' = pc + CallInstructionSize /\ UNCHANGED <<sp, stack, frames, locals>>
<1> DEFINE i == Listing[pc]
<1>1. pc \in Nat /\ At(4) = pc + CallInstructionSize
  BY ExecutesAt DEF At, CallInstructionSize
<1>2. ASSUME NEW s, s # "OK", Fail(s, At(4))
      PROVE  pc' = pc + CallInstructionSize /\ UNCHANGED <<sp, stack, frames, locals>>
  BY <1>1, <1>2 DEF Fail
<1>3. ASSUME RangeValid(i.target), ~(Len(frames) >= FrameCap \/ ~CanPush)
      PROVE  CallGoes(i) /\ CanPush
  <2>1. Ok(i.target) /\ Pushed(At(4)) /\ frames' = Append(frames, Frame(i.target))
    BY <1>3 DEF Call
  <2>2. frames' = Append(frames, [target |-> i.target, stackPointer |-> sp - Word,
                                  returnAddress |-> pc + CallInstructionSize])
    BY <1>1, <2>1 DEF Frame
  <2> QED BY <1>1, <1>3, <2>1, <2>2 DEF CallGoes, Ok
<1>4. ASSUME ~RangeValid(i.target) PROVE Fail("BOUNDS", At(4))  BY <1>4 DEF Call
<1>5. ASSUME RangeValid(i.target), Len(frames) >= FrameCap \/ ~CanPush
      PROVE  Fail("STACK", At(4))
  BY <1>5 DEF Call
<1> QED BY <1>2, <1>3, <1>4, <1>5

(* After a call, made or not, nothing in the registers is trusted.           *)
LEMMA CallFails ==
  ASSUME SInv, CallsOK, Disciplined = 1, halted = 0, Listing[pc].op = "call",
         program' = program, pc' = pc + CallInstructionSize,
         UNCHANGED <<regs, sp, stack, frames, locals>>
  PROVE  CallsOK'
<1>1. /\ pc' \in DOMAIN Listing /\ FunctionIn(Image, pc') = FunctionIn(Image, pc)
      /\ Area(Image, pc') = Area(Image, pc)
  <2>1. pc' = After(Image, pc)
    BY ExecutesAt DEF StaysInFunction, After, Listing
  <2> QED BY <2>1, ExecutesAt DEF StaysInFunction, Balances, Listing
<1>2. LocalsOK'  BY DEF CallsOK, LocalsOK, Depth
<1>3. CASE Depth = 0
  <2>1. Depth' = 0 /\ InTrampoline(pc)  BY <1>3, ExecutesAt DEF Depth
  <2>2. Trampoline'
    BY <1>1, <1>3, <2>1, ExecutesAt DEF Trampoline, InTrampoline, Listing, Image
  <2> QED BY <1>2, <2>1, <2>2 DEF CallsOK, RegistersHold
<1>4. CASE Depth # 0
  <2>1. Depth > 0 /\ Depth \in Nat  BY <1>4, ExecutesAt
  <2>2. Trusted(Image, pc') = {}
    <3>1. pc' = After(Image, pc)
      BY ExecutesAt DEF StaysInFunction, After, Listing
    <3> QED BY <2>1, <3>1, InnermostCall DEF KeepsLocals, Listing
  <2>3. \A j \in DOMAIN Area(Image, pc') :
          LET r == Area(Image, pc')[j]
          IN  r \in LocalRegs(Image) /\ locals'[Depth][r] # Unset =>
                stack'[Slot(Depth, j)] = locals'[Depth][r]
    BY <1>1, <2>1, SavedWord DEF Holds
  <2>4. sp' = Slot(Depth, Len(Area(Image, pc')))  BY <1>1, <2>1, InnermostCall
  <2> QED BY <1>1, <1>2, <2>1, <2>2, <2>3, <2>4, SameFrames
<1> QED BY <1>3, <1>4

LEMMA CallGoesKeeps ==
  ASSUME SInv, CallsOK, Disciplined = 1, halted = 0, Listing[pc].op = "call",
         program' = program, CallGoes(Listing[pc]), CanPush, UNCHANGED regs
  PROVE  CallsOK'
<1> DEFINE i == Listing[pc]
           new == [target |-> i.target, stackPointer |-> sp - Word,
                   returnAddress |-> pc + CallInstructionSize]
<1> PICK top \in Int : top = Depth + 1  BY ExecutesAt
<1>1. /\ sp' = sp - Word /\ stack' = [stack EXCEPT ![sp - Word] = pc + CallInstructionSize]
      /\ pc' = i.target /\ frames' = Append(frames, new) /\ locals' = Append(locals, Entered(i))
  BY DEF CallGoes, Pushed
<1>2. /\ new.target = i.target /\ new.stackPointer = sp - Word
      /\ new.returnAddress = pc + CallInstructionSize
  OBVIOUS
<1>3. /\ pc \in DOMAIN Listing /\ pc \in Nat /\ Depth \in Nat /\ FrameBytes \in Nat
      /\ i.target \in DOMAIN Listing /\ FunctionIn(Image, i.target) # 0
      /\ Area(Image, i.target) = <<>>
      /\ After(Image, pc) = pc + CallInstructionSize
      /\ After(Image, pc) \in DOMAIN Listing
      /\ FunctionIn(Image, After(Image, pc)) = FunctionIn(Image, pc)
  BY ExecutesAt DEF StaysInFunction, Balances, After, Listing
<1>4. /\ frames \in Seq(FrameType) /\ sp \in Nat /\ sp - Word \in Slots /\ sp \in StackBase..StackTop
  BY StackMoves, RunAssumption DEF SInv, RInv, GuestOK
<1>5. Image' = Image /\ Listing' = Listing  BY DEF Image, Listing
<1>6. LocalsOK  BY DEF CallsOK
<1>7. Entered(i) \in [1..LastSaved -> Words \cup {Unset}]
  <2>1. \A r \in 1..LastSaved : regs[r] \in Words
    BY SessionAssumption DEF SInv, ValuesOK, Registers
  <2> QED BY <2>1 DEF Entered
<1> HIDE DEF i, new
<1>8. /\ Depth' = top /\ top \in Nat /\ frames'[top] = new
      /\ \A k \in 1..Depth : frames'[k] = frames[k]
  BY <1>1, <1>3, <1>4 DEF Depth
<1>9. /\ locals' \in Seq([1..LastSaved -> Words \cup {Unset}]) /\ Len(locals') = top
      /\ locals'[top] = Entered(i) /\ \A k \in 1..Depth : locals'[k] = locals[k]
  BY <1>1, <1>3, <1>6, <1>7 DEF LocalsOK
<1>10. \A x \in Slots : sp <= x => stack'[x] = stack[x]
  <2>1. stack \in [Slots -> Words]  BY DEF SInv, ValuesOK
  <2> QED BY <1>1, <1>4, <2>1 DEF Word, Slots
<1>11. ASSUME NEW k \in 1..Depth PROVE FrameRuns(k)' /\ FrameSaves(k)'
  <2>1. FrameRuns(k)  BY <1>11 DEF CallsOK
  <2>2. CASE k = Depth
    <3>1. Stands(k) = pc /\ Below(k) = sp  BY <2>2 DEF Stands, FrameAddress, Below
    <3>2. k # Depth' /\ frames'[k + 1] = new  BY <1>3, <1>8, <2>2
    <3>3. Stands(k)' = pc
      BY <1>2, <1>3, <3>2 DEF Stands, FrameAddress, CallInstructionSize
    <3>4. Below(k)' = sp  BY <1>2, <1>4, <3>2 DEF Below, Word
    <3>5. Listing[Stands(k)].op = "call" /\ Listing[Stands(k)].target = frames'[k + 1].target
      BY <1>2, <3>1, <3>2 DEF i
    <3> QED BY <1>8, <1>9, <1>10, <1>11, <3>1, <3>3, <3>4, <3>5, FrameStays
  <2>3. CASE k # Depth
    <3>1. k + 1 \in 1..Depth /\ k # Depth' /\ k < Depth  BY <1>3, <1>8, <1>11, <2>3
    <3>2. frames'[k + 1] = frames[k + 1]  BY <1>8, <3>1
    <3>3. Stands(k)' = Stands(k)  BY <2>3, <3>1, <3>2 DEF Stands, FrameAddress
    <3>4. Below(k)' = Below(k)  BY <2>3, <3>1, <3>2 DEF Below
    <3>5. Listing[Stands(k)].op = "call" /\ Listing[Stands(k)].target = frames'[k + 1].target
      BY <2>1, <3>1, <3>2 DEF FrameRuns
    <3> QED BY <1>8, <1>9, <1>10, <1>11, <3>3, <3>4, <3>5, FrameStays
  <2> QED BY <2>2, <2>3
<1>12. FrameRuns(top)' /\ FrameSaves(top)'
  <2>1. Stands(top)' = i.target /\ Below(top)' = sp - Word
    BY <1>1, <1>8 DEF Stands, FrameAddress, Below
  <2>2. FrameRuns(top)'
    BY <1>2, <1>3, <1>5, <1>8, <2>1 DEF FrameRuns
  <2>3. AreaOf(top)' = <<>>  BY <1>3, <1>5, <2>1 DEF AreaOf
  <2>4. Slot(top, Len(AreaOf(top)))' = sp - Word
    BY <1>2, <1>4, <1>8, <2>3 DEF Slot, Word
  <2>5. sp - Word >= StackTop - Word - Depth * FrameBytes
    <3>1. CASE Depth = 0
      <4>1. sp = StackTop  BY <3>1, ExecutesAt
      <4> QED BY <1>3, <1>4, <3>1, <4>1, RunAssumption DEF Word
    <3>2. CASE Depth # 0
      <4>1. Depth > 0  BY <1>3, <3>2
      <4> QED BY <4>1, StackRoom
    <3> QED BY <3>1, <3>2
  <2>6. (frames[top].stackPointer >= StackTop - Word - (top - 1) * FrameBytes)'
    <3>1. top - 1 = Depth  BY <1>3
    <3>2. frames'[top].stackPointer = sp - Word  BY <1>2, <1>8
    <3> QED BY <2>5, <3>1, <3>2 DEF FrameBytes
  <2>7. DOMAIN AreaOf(top)' = {}  BY <2>3
  <2> QED BY <2>1, <2>2, <2>4, <2>6, <2>7 DEF FrameSaves
<1>13. LocalsOK'  BY <1>8, <1>9 DEF LocalsOK
<1>14. Trampoline'
  <2>1. Depth' > 0  BY <1>3, <1>8
  <2>2. InTrampoline(frames[1].returnAddress)'
    <3>1. CASE Depth = 0
      <4>1. frames'[1] = new /\ InTrampoline(pc)  BY <1>8, <3>1, ExecutesAt
      <4> QED BY <1>2, <1>3, <1>5, <4>1 DEF InTrampoline
    <3>2. CASE Depth # 0
      <4>1. Depth > 0 /\ 1 \in 1..Depth  BY <1>3, <3>2
      <4>2. frames'[1] = frames[1]  BY <1>8, <4>1
      <4>3. InTrampoline(frames[1].returnAddress)  BY <4>1 DEF CallsOK, Trampoline
      <4> QED BY <1>5, <4>2, <4>3 DEF InTrampoline
    <3> QED BY <3>1, <3>2
  <2> QED BY <2>1, <2>2 DEF Trampoline
<1>15. RegistersHold'
  <2> SUFFICES ASSUME NEW r \in Trusted(Image, i.target), Entered(i)[r] # Unset
               PROVE  regs[r] = Entered(i)[r]
    BY <1>1, <1>5, <1>8, <1>9 DEF RegistersHold, Holds
  <2>1. r \in 1..LastSaved  BY LayoutHolds
  <2> QED BY <2>1 DEF Entered
<1>16. \A k \in 1..top : FrameRuns(k)' /\ FrameSaves(k)'
  <2> SUFFICES ASSUME NEW k \in 1..top PROVE FrameRuns(k)' /\ FrameSaves(k)'  OBVIOUS
  <2>1. CASE k = top  BY <1>12, <2>1
  <2>2. CASE k # top
    <3>1. k \in 1..Depth  BY <1>3, <2>2
    <3> QED BY <1>11, <3>1
  <2> QED BY <2>1, <2>2
<1> QED BY <1>8, <1>13, <1>14, <1>15, <1>16 DEF CallsOK

(* A RET leads behind the CALL of the frame, with what that call had.        *)
LEMMA ReturnsTo ==
  ASSUME SInv, CallsOK, Disciplined = 1, halted = 0, Listing[pc].op = "ret", Ret,
         locals' = IF lastStatus' = "OK" THEN SubSeq(locals, 1, Len(locals) - 1) ELSE locals
  PROVE  /\ Depth \in Nat \ {0} /\ frames[Depth].stackPointer \in Slots
         /\ pc' = frames[Depth].returnAddress /\ sp' = frames[Depth].stackPointer + Word
         /\ stack' = stack
         /\ frames' \in Seq(FrameType) /\ Depth' = Depth - 1 /\ IsFront(frames', frames)
         /\ LocalsOK' /\ IsFront(locals', locals)
<1>1. Depth \in Nat \ {0}
  <2>1. ASSUME Depth = 0 PROVE FALSE
    BY <2>1, ExecutesAt DEF InTrampoline, StaysInFunction, Listing
  <2> QED BY <2>1, ExecutesAt
<1>2. Depth > 0 /\ frames # <<>> /\ frames \in Seq(FrameType)
  BY <1>1, EmptySeq DEF SInv, RInv, GuestOK, Depth
<1>3. GuestOK /\ FramesMirrorStack  BY DEF SInv, RInv
<1>4. /\ Ok(stack[sp]) /\ sp' = sp + Word /\ stack' = stack
      /\ frames' = SubSeq(frames, 1, Len(frames) - 1)
  BY <1>2, <1>3, ReturnGoesThrough
<1>5. /\ Area(Image, pc) = <<>> /\ sp = Slot(Depth, Len(Area(Image, pc)))
      /\ frames[Depth].stackPointer \in Slots
  BY <1>2, InnermostCall DEF Balances, Listing
<1>6. sp = frames[Depth].stackPointer
  <2>1. frames[Depth].stackPointer \in Nat  BY <1>5, RunAssumption DEF Slots
  <2> QED BY <1>5, <2>1 DEF Slot, Word
<1>7. stack[sp] = frames[Depth].returnAddress
  <2>1. SlotsHoldReturns /\ Depth \in 1..Len(frames)
    BY <1>1, <1>3 DEF FramesMirrorStack, Depth
  <2> QED BY <1>6, <2>1 DEF SlotsHoldReturns
<1>8. frames' \in Seq(FrameType) /\ IsFront(frames', frames)
  BY <1>2, <1>4, FrontOf
<1>9. Depth' = Depth - 1  BY <1>8 DEF IsFront, Depth
<1>10. LocalsOK' /\ IsFront(locals', locals)
  <2>1. locals' = SubSeq(locals, 1, Len(locals) - 1)  BY <1>4 DEF Ok
  <2>2. LocalsOK  BY DEF CallsOK
  <2>3. locals # <<>>  BY <1>1, <2>2 DEF LocalsOK
  <2>4. locals' \in Seq([1..LastSaved -> Words \cup {Unset}]) /\ IsFront(locals', locals)
    BY <2>1, <2>2, <2>3, FrontOf DEF LocalsOK
  <2> QED BY <1>9, <2>2, <2>4 DEF LocalsOK, IsFront
<1> QED BY <1>1, <1>4, <1>5, <1>6, <1>7, <1>8, <1>9, <1>10 DEF Ok

LEMMA ReturnsKeep ==
  ASSUME SInv, CallsOK, Disciplined = 1, halted = 0, Listing[pc].op = "ret",
         program' = program, Ret, UNCHANGED regs,
         locals' = IF lastStatus' = "OK" THEN SubSeq(locals, 1, Len(locals) - 1) ELSE locals
  PROVE  CallsOK'
<1> DEFINE top == frames[Depth]
<1>1. /\ Depth \in Nat \ {0} /\ top.stackPointer \in Slots
      /\ pc' = top.returnAddress /\ sp' = top.stackPointer + Word /\ stack' = stack
      /\ Depth' = Depth - 1 /\ LocalsOK'
      /\ IsFront(frames', frames) /\ IsFront(locals', locals) /\ Len(locals) = Depth
  BY ReturnsTo DEF CallsOK, LocalsOK
<1>2. Image' = Image /\ Listing' = Listing  BY DEF Image, Listing
<1>3. \A k \in 1..(Depth - 1) : frames'[k] = frames[k] /\ locals'[k] = locals[k]
  BY <1>1 DEF IsFront, Depth
<1>4. CASE Depth = 1
  <2>1. Depth' = 0  BY <1>1, <1>4
  <2>2. InTrampoline(pc)'
    <3>1. InTrampoline(frames[1].returnAddress)  BY <1>4 DEF CallsOK, Trampoline
    <3> QED BY <1>1, <1>2, <1>4, <3>1 DEF InTrampoline
  <2>3. sp' = StackTop
    <3>1. top.stackPointer >= StackTop - Word
      <4>1. top.stackPointer >= StackTop - Word - (Depth - 1) * FrameBytes
        BY <1>1, InnermostCall
      <4>2. FrameBytes \in Nat  BY ExecutesAt
      <4>3. (Depth - 1) * FrameBytes = 0  BY <1>4, <4>2
      <4> QED BY <1>1, <4>1, <4>3, RunAssumption DEF Slots, Word
    <3> QED BY <1>1, <3>1, RunAssumption DEF Slots, Word
  <2>4. Trampoline'  BY <2>1, <2>2, <2>3 DEF Trampoline
  <2> QED BY <1>1, <2>1, <2>4 DEF CallsOK, RegistersHold
<1>5. CASE Depth # 1
  <2>1. PICK d \in Nat \ {0} : d = Depth - 1  BY <1>1, <1>5
  <2>2. d \in 1..Depth /\ d # Depth /\ d < Depth /\ d + 1 = Depth /\ d \in 1..(Depth - 1)
    BY <1>1, <2>1
  <2>3. FrameRuns(d) /\ FrameSaves(d)  BY <2>2 DEF CallsOK
  <2>4. Stands(d) \in DOMAIN Listing /\ Listing[Stands(d)].op = "call"
        /\ FunctionIn(Image, Stands(d)) # 0
    BY <2>2, <2>3 DEF FrameRuns
  <2>5. StaysInFunction(Image, Stands(d)) /\ Balances(Image, Stands(d)) /\ KeepsLocals(Image, Stands(d))
    BY <2>4, LayoutHolds
  <2>6. pc' = After(Image, Stands(d))
    <3>1. Listing[Stands(d)].size = CallInstructionSize
      BY <2>4, <2>5 DEF StaysInFunction, Listing
    <3>2. Stands(d) = top.returnAddress - CallInstructionSize
      BY <2>2 DEF Stands, FrameAddress
    <3>3. top.returnAddress \in Int
      <4>1. top \in FrameType  BY <1>1, FrameFacts DEF SInv, RInv, Depth
      <4> QED BY <4>1, RunAssumption DEF FrameType
    <3> QED BY <1>1, <3>1, <3>2, <3>3 DEF After, Listing, CallInstructionSize
  <2>7. /\ pc' \in DOMAIN Listing /\ FunctionIn(Image, pc') = FunctionIn(Image, Stands(d))
        /\ Area(Image, pc') = AreaOf(d) /\ Trusted(Image, pc') = {}
    BY <2>4, <2>5, <2>6 DEF StaysInFunction, Balances, KeepsLocals, AreaOf, Listing
  <2>8. frames'[d] = frames[d] /\ locals'[d] = locals[d] /\ Depth' = d
    BY <1>1, <1>3, <2>1, <2>2
  <2>9. Stands(d)' = pc' /\ Below(d)' = sp'
    BY <2>8 DEF Stands, FrameAddress, Below
  <2>10. AreaOf(d)' = AreaOf(d)  BY <1>2, <2>7, <2>9 DEF AreaOf
  <2>11. FrameRuns(d)'
    BY <1>2, <2>3, <2>7, <2>8, <2>9 DEF FrameRuns
  <2>12. FrameSaves(d)'
    <3>1. Below(d)' = Below(d)  BY <1>1, <2>2, <2>9 DEF Below
    <3>2. \A j : Slot(d, j)' = Slot(d, j)  BY <2>8 DEF Slot
    <3>3. Below(d)' = Slot(d, Len(AreaOf(d)))'  BY <2>3, <2>10, <3>1, <3>2 DEF FrameSaves, Slot
    <3>4. \A j \in DOMAIN AreaOf(d)' : AreaOf(d)'[j] \in LocalRegs(Image)' =>
            Holds(d, AreaOf(d)[j], stack[Slot(d, j)])'
      BY <1>1, <1>2, <2>3, <2>8, <2>10, <3>2 DEF FrameSaves, Holds
    <3>5. (frames[d].stackPointer >= StackTop - Word - (d - 1) * FrameBytes)'
      BY <2>3, <2>8 DEF FrameSaves, FrameBytes
    <3> QED BY <3>3, <3>4, <3>5 DEF FrameSaves
  <2>13. ASSUME NEW k \in 1..d, k # d PROVE FrameRuns(k)' /\ FrameSaves(k)'
    <3>1. k \in 1..Depth /\ k \in 1..(Depth - 1) /\ k + 1 \in 1..(Depth - 1) /\ k # Depth
          /\ k # Depth' /\ k < Depth
      BY <1>1, <2>1, <2>8, <2>13
    <3>2. frames'[k] = frames[k] /\ frames'[k + 1] = frames[k + 1] /\ locals'[k] = locals[k]
      BY <1>3, <3>1
    <3>3. Stands(k)' = Stands(k) /\ Below(k)' = Below(k)
      BY <3>1, <3>2 DEF Stands, FrameAddress, Below
    <3>4. Listing[Stands(k)].op = "call" /\ Listing[Stands(k)].target = frames'[k + 1].target
      BY <3>1, <3>2 DEF CallsOK, FrameRuns
    <3>5. \A x \in Slots : sp <= x => stack'[x] = stack[x]  BY <1>1
    <3> QED BY <3>1, <3>2, <3>3, <3>4, <3>5, FrameStays
  <2>14. \A k \in 1..d : FrameRuns(k)' /\ FrameSaves(k)'
    <3> SUFFICES ASSUME NEW k \in 1..d PROVE FrameRuns(k)' /\ FrameSaves(k)'  OBVIOUS
    <3>1. CASE k = d  BY <2>11, <2>12, <3>1
    <3>2. CASE k # d  BY <2>13, <3>2
    <3> QED BY <3>1, <3>2
  <2>15. Trampoline'
    <3>1. InTrampoline(frames[1].returnAddress)  BY <1>1 DEF CallsOK, Trampoline
    <3>2. frames'[1] = frames[1]  BY <1>3, <2>2
    <3> QED BY <1>2, <2>1, <2>8, <3>1, <3>2 DEF Trampoline, InTrampoline
  <2>16. RegistersHold'  BY <1>2, <2>7 DEF RegistersHold
  <2> QED BY <1>1, <2>8, <2>14, <2>15, <2>16 DEF CallsOK
<1> QED BY <1>4, <1>5

(* Any instruction of a compiled program.                                   *)
LEMMA ExecutesKeeps ==
  ASSUME SInv, CallsOK, Disciplined = 1, program' = program, Executes
  PROVE  CallsOK'
<1> DEFINE i == Listing[pc]
<1>1. halted = 0 /\ Depth \in Nat /\ (Computes(i) \/ Transfers(i) \/ Stacks(i) \/ Calls(i))
  BY FrameFacts DEF Executes, SInv, RInv, Depth
<1>2. CASE Calls(i)
  <2>1. CASE /\ i.op = "call" /\ Call(i.target) /\ UNCHANGED regs
             /\ locals' = IF lastStatus' = "OK" THEN Append(locals, Entered(i)) ELSE locals
    <3>1. CASE CallGoes(i) /\ CanPush  BY <1>1, <2>1, <3>1, CallGoesKeeps
    <3>2. CASE pc' = pc + CallInstructionSize /\ UNCHANGED <<sp, stack, frames, locals>>
      BY <1>1, <2>1, <3>2, CallFails
    <3> QED BY <1>1, <2>1, <3>1, <3>2, CallEither
  <2>2. CASE /\ i.op = "ret" /\ Ret /\ UNCHANGED regs
             /\ locals' = IF lastStatus' = "OK" THEN SubSeq(locals, 1, Len(locals) - 1) ELSE locals
    BY <1>1, <2>2, ReturnsKeep
  <2> QED BY <1>2, <2>1, <2>2 DEF Calls
<1>3. CASE Depth = 0 /\ ~Calls(i)
  <2>1. InTrampoline(pc) /\ StaysInFunction(Image, pc)  BY <1>1, <1>3, ExecutesAt
  <2>2. i.op \in {"call", "halt"}  BY <2>1 DEF InTrampoline, StaysInFunction, Listing
  <2>3. Halt /\ UNCHANGED <<regs, locals>>
    BY <1>1, <1>3, <2>2 DEF Computes, Transfers, Stacks
  <2>4. Depth' = 0 /\ halted' = 1 /\ sp' = sp /\ locals' = locals
    BY <1>3, <2>3 DEF Halt, Depth
  <2>5. LocalsOK'  BY <1>3, <2>4 DEF CallsOK, LocalsOK
  <2>6. Trampoline'  BY <1>3, <2>4 DEF CallsOK, Trampoline
  <2> QED BY <2>4, <2>5, <2>6 DEF CallsOK, RegistersHold
<1>4. CASE Depth # 0 /\ ~Calls(i)
  <2>1. Depth > 0  BY <1>1, <1>4
  <2>2. CASE Computes(i)  BY <2>1, <2>2, ComputesKeeps
  <2>3. CASE Transfers(i)  BY <2>1, <2>3, TransfersKeeps
  <2>4. CASE Stacks(i)  BY <2>1, <2>4, PushesKeep, PopsKeep DEF Stacks
  <2> QED BY <1>1, <1>4, <2>2, <2>3, <2>4
<1> QED BY <1>2, <1>3, <1>4

LEMMA CallsStay ==
  ASSUME CallsOK, UNCHANGED <<pc, sp, halted, stack, frames, regs, locals, program>>
  PROVE  CallsOK'
<1>1. /\ Depth' = Depth /\ Image' = Image /\ Listing' = Listing
      /\ pc' = pc /\ sp' = sp /\ halted' = halted /\ stack' = stack /\ frames' = frames
      /\ regs' = regs /\ locals' = locals
  BY DEF Depth, Image, Listing
<1>2. ASSUME NEW k \in 1..Depth PROVE FrameRuns(k)' /\ FrameSaves(k)'
  <2>1. Stands(k)' = Stands(k) /\ Below(k)' = Below(k)
    BY <1>1 DEF Stands, FrameAddress, Below
  <2>2. AreaOf(k)' = AreaOf(k) /\ \A j : Slot(k, j)' = Slot(k, j)
    BY <1>1, <2>1 DEF AreaOf, Slot
  <2> QED BY <1>1, <2>1, <2>2 DEF CallsOK, FrameRuns, FrameSaves, Holds
<1>3. LocalsOK' /\ Trampoline' /\ RegistersHold'
  BY <1>1 DEF CallsOK, LocalsOK, Trampoline, InTrampoline, RegistersHold, Holds
<1> QED BY <1>1, <1>2, <1>3 DEF CallsOK

(* A program that has just been loaded.                                     *)
LEMMA FreshCalls ==
  ASSUME program' \in DOMAIN Programs, pc' = 0, sp' = StackTop, frames' = <<>>, locals' = <<>>
  PROVE  CallsOK'
<1>1. Depth' = 0 /\ LocalsOK'
  <2>1. <<>> \in Seq([1..LastSaved -> Words \cup {Unset}]) /\ Len(<<>>) = 0  BY EmptySeq
  <2> QED BY <2>1 DEF Depth, LocalsOK
<1>2. LaidOut(Image)'  BY LayoutAssumption DEF LaidOut, Image
<1>3. Trampoline'  BY <1>1, <1>2 DEF LaidOut, Trampoline, InTrampoline, Listing
<1> QED BY <1>1, <1>3 DEF CallsOK, RegistersHold

LEMMA ShownStep ==
  ASSUME SInv, ShownOK, Disciplined = 1, [SessionNext]_sessionVars
  PROVE  ShownOK'
<1>1. ASSUME Loads(program), program' = program PROVE CallsOK'
  <2>1. pc' = 0 /\ sp' = StackTop /\ frames' = <<>> /\ locals' = <<>>
    BY <1>1 DEF Loads, ResetAndLoad
  <2> QED BY <1>1, <2>1, FreshCalls DEF SInv, WindowOK
<1>2. ASSUME CallsOK, StepsOne, program' = program PROVE CallsOK'
  <2>1. CASE Executes  BY <1>2, <2>1, ExecutesKeeps
  <2>2. CASE StepHalted /\ UNCHANGED <<regs, locals>>
    BY <1>2, <2>2, CallsStay DEF StepHalted
  <2> QED BY <1>2, <2>1, <2>2 DEF StepsOne
<1>3. ASSUME CallsOK, UNCHANGED <<pc, sp, halted, stack, frames>>, UNCHANGED <<regs, locals>>,
             program' = program
      PROVE  CallsOK'
  BY <1>3, CallsStay
<1>4. mode \in SourceSteps \cup {"set", "unset", "idle", "run"} => CallsOK
  BY DEF ShownOK, SourceSteps
<1>5. CASE Handler
  <2>1. CASE SourceTurn  BY <1>2, <1>4, <2>1 DEF SourceTurn, ShownOK
  <2>2. CASE SourceStepPauses
    BY <1>3, <1>4, <2>2 DEF SourceStepPauses, RunStart, guest, window, ShownOK
  <2>3. CASE RunTurn
    <3>1. CallsOK /\ program' = program  BY <1>4, <2>3 DEF RunTurn
    <3>2. CASE Executes  BY <3>1, <3>2, ExecutesKeeps DEF ShownOK
    <3>3. CASE (RunStop \/ RunEnd) /\ UNCHANGED <<regs, locals>>
      BY <1>3, <3>1, <3>3 DEF RunStop, RunEnd, guest, ShownOK
    <3> QED BY <2>3, <3>2, <3>3 DEF RunTurn
  <2>4. CASE LineTurn
    <3>1. PICK row \in pending : ToggleRow(row) /\ UNCHANGED <<program, regs, locals>>
      BY <2>4 DEF LineTurn
    <3>2. CallsOK  BY <1>4, <3>1 DEF ToggleRow
    <3>3. UNCHANGED <<pc, sp, halted, stack, frames>>
      BY <3>1 DEF ToggleRow, AddBreakpoint, RemoveBreakpoint, vars, guest
    <3> QED BY <1>3, <3>1, <3>2, <3>3 DEF ShownOK
  <2>5. CASE CompileTurn
    <3>1. CASE mode' = "load"  BY <3>1 DEF ShownOK
    <3>2. CASE Loads(program)  BY <1>1, <2>5, <3>2 DEF CompileTurn, ShownOK
    <3> QED BY <2>5, <3>1, <3>2 DEF CompileTurn
  <2> QED BY <1>5, <2>1, <2>2, <2>3, <2>4, <2>5 DEF Handler
<1>6. CASE Clicks
  <2>1. Idle  BY <1>6 DEF Clicks, StepClick, RunClick, ResetClick, CompileFails, SourceStepClick,
                          ToggleAddress, ToggleLine, Compile, SelectFrame
  <2>2. CallsOK  BY <1>4, <2>1 DEF Idle
  <2>3. CASE StepClick  BY <1>2, <2>2, <2>3 DEF StepClick, window, ShownOK
  <2>4. CASE RunClick  BY <1>3, <2>2, <2>4 DEF RunClick, RunStart, guest, ShownOK
  <2>5. CASE ResetClick  BY <1>1, <2>5 DEF ResetClick, window, ShownOK
  <2>6. ASSUME UNCHANGED <<vars, program, regs, locals>> PROVE CallsOK'
    BY <1>3, <2>2, <2>6 DEF vars, guest
  <2>7. CASE CompileFails  BY <2>6, <2>7 DEF CompileFails, ShownOK
  <2>8. ASSUME NEW kind \in SourceSteps, SourceStepClick(kind) PROVE ShownOK'
    BY <2>6, <2>8 DEF SourceStepClick, ShownOK
  <2>9. ASSUME NEW a \in ToggleAddresses, ToggleAddress(a) PROVE ShownOK'
    <3>1. UNCHANGED <<pc, sp, halted, stack, frames>> /\ UNCHANGED <<program, regs, locals>>
      BY <2>9 DEF ToggleAddress, AddBreakpoint, RemoveBreakpoint, guest, window
    <3> QED BY <1>3, <2>2, <3>1 DEF ShownOK
  <2>10. ASSUME NEW place \in ToggleLines, ToggleLine(place) PROVE ShownOK'
    BY <2>6, <2>10 DEF ToggleLine, ShownOK
  <2>11. ASSUME NEW p \in DOMAIN Programs, Compile(p) PROVE ShownOK'
    BY <2>11 DEF Compile, ShownOK
  <2>12. ASSUME NEW k \in Picks, SelectFrame(k) PROVE ShownOK'
    BY <2>6, <2>12 DEF SelectFrame, window, ShownOK
  <2> QED BY <1>6, <2>3, <2>4, <2>5, <2>7, <2>8, <2>9, <2>10, <2>11, <2>12 DEF Clicks
<1>7. CASE UNCHANGED sessionVars
  <2>1. UNCHANGED <<pc, sp, halted, stack, frames>> /\ UNCHANGED <<program, regs, locals, mode>>
    BY <1>7 DEF sessionVars, vars, guest, window
  <2> QED BY <1>3, <2>1 DEF ShownOK
<1> QED BY <1>5, <1>6, <1>7 DEF SessionNext

(* What the debugger shows of a call follows from what the call has.        *)
LEMMA FramesShown ==
  ASSUME SInv, CallsOK, Disciplined = 1, NEW k \in 1..Depth
  PROVE  /\ FunctionAt(FrameAddress(k)) = FunctionAt(frames[k].target)
         /\ k < Depth => /\ FrameAddress(k) \in DOMAIN Listing
                         /\ Listing[FrameAddress(k)].op = "call"
                         /\ Listing[FrameAddress(k)].target = frames[k + 1].target
  BY DEF CallsOK, FrameRuns, Stands, FunctionAt

LEMMA WatchShown ==
  ASSUME SInv, CallsOK, Disciplined = 1, NEW k \in 1..Depth, NEW r \in Watches(k),
         k = Depth => ~Marshalling
  PROVE  Holds(k, r, ReadRegister(k, r))
<1>1. r \in LocalRegs(Image)
  <2>1. Symbols = <<>> \/ Symbols = Image.symbols  BY DEF Symbols
  <2>2. PICK j \in DOMAIN Symbols : r = Symbols[j].reg  BY DEF Watches
  <2> QED BY <2>1, <2>2 DEF LocalRegs
<1>2. r \in 1..LastSaved /\ Depth \in Nat /\ frames \in Seq(FrameType)
  BY <1>1, LayoutHolds, FrameFacts DEF SInv, RInv, GuestOK, Depth
<1>3. CASE k = Depth
  <2>1. Holds(k, r, regs[r])
    BY <1>1, <1>2, <1>3, AllInRegisters DEF Marshalling
  <2> QED BY <1>3, <2>1 DEF ReadRegister
<1>4. CASE k # Depth
  <2>1. FrameRuns(k) /\ FrameSaves(k) /\ k < Depth /\ k + 1 \in 1..Len(frames)
    BY <1>2, <1>4 DEF CallsOK, Depth
  <2> DEFINE area == AreaOf(k)
             n == Len(area)
             low == frames[k + 1].stackPointer
             high == frames[k].stackPointer
  <2>2. KeepsLocals(Image, Stands(k)) /\ Balances(Image, Stands(k))
    BY <2>1, LayoutHolds DEF FrameRuns
  <2>3. n >= LastSaved /\ area[n - LastSaved + r] = r /\ area \in Seq(Registers)
    BY <1>2, <2>1, <2>2 DEF KeepsLocals, Balances, FrameRuns, AreaOf, Listing, Registers
  <2>4. low + Word = high - n * Word /\ low \in Int /\ high \in Int
    <3>1. low + Word = high - n * Word  BY <1>4, <2>1 DEF FrameSaves, Below, Slot
    <3>2. low \in Slots /\ high \in Slots
      BY <2>1, FrameFacts DEF SInv, RInv, Depth
    <3> QED BY <3>1, <3>2, RunAssumption DEF Slots
  <2>5. n \in Nat /\ DOMAIN area = 1..n  BY <2>3
  <2> HIDE DEF area, n, low, high
  <2> DEFINE j == n - LastSaved + r
  <2>6. j \in DOMAIN area  BY <1>2, <2>3, <2>5, SessionAssumption
  <2>7. high - j * Word = low + (1 + LastSaved - r) * Word
    BY <1>2, <2>4, <2>5, SessionAssumption DEF Word
  <2>8. ReadRegister(k, r) = stack[Slot(k, j)]
    BY <1>4, <2>7 DEF ReadRegister, Slot, low, high
  <2>9. Holds(k, area[j], stack[Slot(k, j)])
    BY <1>1, <2>1, <2>3, <2>6 DEF FrameSaves, area
  <2> QED BY <2>3, <2>8, <2>9
<1> QED BY <1>3, <1>4

(* For every set of programs laid out as the compiler lays them out, and    *)
(* however the user steps, runs, sets breakpoints and compiles anew: frame  *)
(* table, call stack list and WATCH (RefreshCallStack, RefreshWatchValues,   *)
(* TryReadSelectedFrameRegister) tell of the calls there are.               *)
THEOREM FramesAlwaysTrue == Disciplined = 1 => (SessionSpec => []FramesTrue)
<1> SUFFICES ASSUME Disciplined = 1 PROVE SessionSpec => []FramesTrue
  OBVIOUS
<1>1. SessionInit => ShownOK
  <2> SUFFICES ASSUME SessionInit PROVE CallsOK  BY DEF ShownOK
  <2>1. pc = 0 /\ sp = StackTop /\ frames = <<>> /\ locals = <<>> /\ program \in DOMAIN Programs
    BY DEF SessionInit, Init
  <2>2. Depth = 0 /\ LocalsOK
    <3>1. <<>> \in Seq([1..LastSaved -> Words \cup {Unset}]) /\ Len(<<>>) = 0  BY EmptySeq
    <3> QED BY <2>1, <3>1 DEF Depth, LocalsOK
  <2>3. LaidOut(Image)  BY <2>1, LayoutAssumption DEF Image
  <2>4. Trampoline  BY <2>1, <2>2, <2>3 DEF LaidOut, Trampoline, InTrampoline, Listing
  <2> QED BY <2>2, <2>4 DEF CallsOK, RegistersHold
<1>2. SInv /\ ShownOK /\ [SessionNext]_sessionVars => ShownOK'
  BY ShownStep
<1>3. SInv /\ ShownOK => FramesTrue
  <2> SUFFICES ASSUME SInv, ShownOK PROVE FramesTrue  OBVIOUS
  <2>1. mode \notin HostCalls => CallsOK  BY DEF ShownOK, HostCalls
  <2>2. FramesNameCalls
    BY <2>1, FramesShown DEF FramesNameCalls
  <2>3. WatchesTrue
    <3> SUFFICES ASSUME CallsOK, NEW k \in 1..Depth, ~(k = Depth /\ Marshalling)
                 PROVE  ShowsLocals(k)
      BY <2>1 DEF WatchesTrue
    <3> QED BY WatchShown DEF ShowsLocals, Holds
  <2> QED BY <2>2, <2>3 DEF SInv, RInv, FramesTrue
<1> QED BY <1>1, <1>2, <1>3, SInvAlways, PTL DEF SessionSpec
=============================================================================
