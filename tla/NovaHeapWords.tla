---------------------------- MODULE NovaHeapWords ----------------------------
(***************************************************************************)
(* The heap of NovaVM at the level of 32-bit memory words: header words sit  *)
(* between payloads, freed payloads and merged headers leave stale words     *)
(* behind, ALLOC zeroes what it hands out, every walk follows the totals     *)
(* found in memory, and the guest program stores words of its own.           *)
(*                                                                         *)
(* mem is indexed by the byte address of an aligned word; a word or byte at  *)
(* any other address is a part of these.  A few words on either side of the  *)
(* arena are kept to see a write that leaves it.  The guest stores words and *)
(* bytes, aligned or not, into its payloads; after at most MaxWild stores    *)
(* anywhere in the arena nothing is promised but that the VM contains the    *)
(* damage.                                                                   *)
(***************************************************************************)
EXTENDS Integers, FiniteSets

CONSTANTS
  Base, Limit, IdMod, Sizes, FreeAddresses,
  PayloadStores,    (* what a guest stores in a payload: from which byte of *)
                    (* it on, how many bytes, of which value                *)
  WildStores,       (* what it stores anywhere in the arena                 *)
  MaxWild           (* bound on the number of such stores                   *)

HeaderSize == 16
Alignment == 8
FlagUsed == 1
MinPayload == 8
Word == 4
Margin == 16

Store == [at : Nat, bytes : {1, Word}, value : Nat]

ASSUME WordsAssumption ==
  /\ Base \in Nat /\ Limit \in Nat /\ Base >= Margin
  /\ Base % Alignment = 0 /\ Limit % Alignment = 0
  /\ HeaderSize + MinPayload <= Limit - Base
  /\ IdMod \in Nat /\ IdMod >= 2
  /\ Sizes \subseteq Nat /\ FreeAddresses \subseteq Nat
  /\ PayloadStores \cup WildStores \subseteq Store
  /\ \A s \in WildStores : Base <= s.at /\ s.at + s.bytes <= Limit
  /\ MaxWild \in Nat

VARIABLES
  mem,              (* vm->memory around the heap                          *)
  nextId,           (* vm->next_allocation_id                              *)
  lastStatus,       (* the status the last heap operation left             *)
  payload,          (* *address_out of the last operation, 0 if none       *)
  wildStores        (* wild stores since the last reset, up to MaxWild      *)

vars == <<mem, nextId, lastStatus, payload, wildStores>>

Cells == {a \in Base - Margin .. Limit + Margin - 1 : a % Word = 0}

-----------------------------------------------------------------------------
(* Bytes and words, lowest byte first *)

Cell(c) == c - (c % Word)
Place(c) == CASE c % Word = 0 -> 1
              [] c % Word = 1 -> 256
              [] c % Word = 2 -> 65536
              [] c % Word = 3 -> 16777216
ByteAt(m, c) == (m[Cell(c)] \div Place(c)) % 256
ReadWord(m, a) ==
  IF a % Word = 0 THEN m[a]
  ELSE ByteAt(m, a) + 256 * ByteAt(m, a + 1) + 65536 * ByteAt(m, a + 2)
         + 16777216 * ByteAt(m, a + 3)

PutByte(m, c, b) == [m EXCEPT ![Cell(c)] = @ + (b - ByteAt(m, c)) * Place(c)]
PutWord(m, c, v) ==
  LET m1 == PutByte(m, c, v % 256)
      m2 == PutByte(m1, c + 1, (v \div 256) % 256)
      m3 == PutByte(m2, c + 2, (v \div 65536) % 256)
  IN  PutByte(m3, c + 3, (v \div 16777216) % 256)

-----------------------------------------------------------------------------
(* Headers in memory *)

ReadHeader(m, a) ==
  [total |-> ReadWord(m, a), prev |-> ReadWord(m, a + 4), flags |-> ReadWord(m, a + 8),
   id |-> ReadWord(m, a + 12)]
(* Mutant: total_size is not compared with the limit.                       *)
ReadOKUnbounded(m, a) ==
  /\ a >= Base /\ a <= Limit - HeaderSize
  /\ ReadWord(m, a) >= HeaderSize /\ ReadWord(m, a) % Alignment = 0
  /\ ReadWord(m, a + 8) \in {0, FlagUsed}
ReadOK(m, a) ==
  /\ a >= Base /\ a <= Limit - HeaderSize
  /\ ReadWord(m, a) >= HeaderSize /\ ReadWord(m, a) % Alignment = 0
  /\ ReadWord(m, a) <= Limit - a
  /\ ReadWord(m, a + 8) \in {0, FlagUsed}
WriteOK(a, total) ==
  /\ a >= Base /\ a <= Limit - HeaderSize
  /\ total >= HeaderSize /\ total <= Limit - a
WriteHeader(m, a, total, prev, flags, id) ==
  [m EXCEPT ![a] = total, ![a + 4] = prev, ![a + 8] = flags, ![a + 12] = id]
UpdatePrevOK(m, a) == a = Limit \/ ReadOK(m, a)
(* Mutant: nothing is updated.                                              *)
UpdatePrevNever(m, a, prev) == m
UpdatePrev(m, a, prev) == IF a = Limit THEN m ELSE [m EXCEPT ![a + 4] = prev]
(* Mutant: the first word is left out.                                      *)
ZeroBytesLate(m, from, to) == [c \in DOMAIN m |-> IF from < c /\ c < to THEN 0 ELSE m[c]]
ZeroBytes(m, from, to) == [c \in DOMAIN m |-> IF from <= c /\ c < to THEN 0 ELSE m[c]]

Total(m, a) == ReadWord(m, a)
Prev(m, a) == ReadWord(m, a + 4)
Used(m, a) == ReadWord(m, a + 8) = FlagUsed

(* The headers that the loop "while (address < NOVA_HEAP_LIMIT)" comes to    *)
(* from an address on, the last of them possibly unreadable.                *)
Aligned == {a \in Nat : a % Alignment = 0}
Walk(m) ==
  LET from[a \in Aligned] ==
        IF a >= Limit THEN {}
        ELSE {a} \cup (IF ReadOK(m, a) THEN from[a + Total(m, a)] ELSE {})
  IN from
Visited(m) == Walk(m)[Base]
Blocks(m) == {a \in Visited(m) : ReadOK(m, a)}
Broken(m) == Visited(m) # Blocks(m)

-----------------------------------------------------------------------------
(* nova_vm_heap_alloc *)

AlignUp(size) == ((size + (Alignment - 1)) \div Alignment) * Alignment
MaxRequest == (Limit - Base) - HeaderSize - (Alignment - 1)
TakenId == IF nextId = 0 THEN 1 ELSE nextId

Result(m, status, out) == [mem |-> m, status |-> status, payload |-> out]

AllocAt(m, a, needed) ==
  LET rest  == Total(m, a) - needed
      split == rest >= HeaderSize + MinPayload
      m1    == WriteHeader(m, a + needed, rest, needed, 0, 0)
      m2    == IF split THEN UpdatePrev(m1, a + needed + rest, rest) ELSE m
      size  == IF split THEN needed ELSE Total(m, a)
  IN IF split /\ ~WriteOK(a + needed, rest) THEN Result(m, "HEAP_CORRUPT", 0)
     ELSE IF split /\ ~UpdatePrevOK(m1, a + needed + rest) THEN Result(m1, "HEAP_CORRUPT", 0)
     ELSE Result(ZeroBytes(WriteHeader(m2, a, size, Prev(m, a), FlagUsed, TakenId),
                           a + HeaderSize, a + size),
                 "OK", a + HeaderSize)

(* Mutant: the flag is not looked at.                                       *)
FirstFitUsed(m, size, a) ==
  LET Fits(b) == Total(m, b) - HeaderSize >= AlignUp(size)
  IN a \in Blocks(m) /\ Fits(a) /\ \A b \in Blocks(m) : Fits(b) => a <= b
FirstFit(m, size, a) ==
  LET Fits(b) == ~Used(m, b) /\ Total(m, b) - HeaderSize >= AlignUp(size)
  IN a \in Blocks(m) /\ Fits(a) /\ \A b \in Blocks(m) : Fits(b) => a <= b

Install(r) ==
  /\ mem' = r.mem /\ lastStatus' = r.status /\ payload' = r.payload
  /\ UNCHANGED wildStores

AllocFit(size) ==
  /\ size # 0 /\ size <= MaxRequest
  /\ \E a \in Blocks(mem) :
       /\ FirstFit(mem, size, a)
       /\ Install(AllocAt(mem, a, HeaderSize + AlignUp(size)))
  /\ nextId' = (TakenId + 1) % IdMod

AllocFail(size) ==
  /\ size # 0
  /\ LET none == \A a \in Blocks(mem) : ~FirstFit(mem, size, a) IN
       IF size > MaxRequest THEN Install(Result(mem, "OUT_OF_MEMORY", 0))
       ELSE none /\ Install(Result(mem, IF Broken(mem) THEN "HEAP_CORRUPT"
                                        ELSE "OUT_OF_MEMORY", 0))
  /\ UNCHANGED nextId

-----------------------------------------------------------------------------
(* nova_vm_heap_free *)

FreeLeft(m, a, total) ==
  LET prev == Prev(m, a)
      p    == a - prev
      m1   == WriteHeader(m, p, Total(m, p) + total, Prev(m, p), 0, 0)
      end  == p + Total(m, p) + total
  IN IF prev = 0 THEN Result(m, "OK", 0)
     ELSE IF prev > a - Base THEN Result(m, "HEAP_CORRUPT", 0)
     ELSE IF ~ReadOK(m, p) \/ Total(m, p) # prev THEN Result(m, "HEAP_CORRUPT", 0)
     ELSE IF Used(m, p) THEN Result(m, "OK", 0)
     ELSE IF ~WriteOK(p, Total(m, p) + total) THEN Result(m, "HEAP_CORRUPT", 0)
     ELSE IF ~UpdatePrevOK(m1, end) THEN Result(m1, "HEAP_CORRUPT", 0)
     ELSE Result(UpdatePrev(m1, end, Total(m, p) + total), "OK", 0)

FreeAt(m0, a) ==
  LET total == Total(m0, a)
      n     == a + total
      m     == WriteHeader(m0, a, total, Prev(m0, a), 0, 0)
      grown == total + Total(m, n)
      m1    == WriteHeader(m, a, grown, Prev(m, a), 0, 0)
  IN IF n >= Limit THEN FreeLeft(m, a, total)
     ELSE IF ~ReadOK(m, n) \/ Prev(m, n) # total THEN Result(m, "HEAP_CORRUPT", 0)
     ELSE IF Used(m, n) THEN FreeLeft(m, a, total)
     ELSE IF ~WriteOK(a, grown) THEN Result(m, "HEAP_CORRUPT", 0)
     ELSE IF ~UpdatePrevOK(m1, a + grown) THEN Result(m1, "HEAP_CORRUPT", 0)
     ELSE FreeLeft(UpdatePrev(m1, a + grown, grown), a, grown)

Free(p) ==
  LET a == p - HeaderSize IN
  /\ Install(IF a \in Blocks(mem)
             THEN IF Used(mem, a) THEN FreeAt(mem, a) ELSE Result(mem, "INVALID_FREE", 0)
             ELSE Result(mem, IF Broken(mem) THEN "HEAP_CORRUPT" ELSE "INVALID_FREE", 0))
  /\ UNCHANGED nextId

-----------------------------------------------------------------------------
(* nova_vm_get_heap_stats and nova_vm_get_heap_block *)

(* The loops count their turns: stats_out and address after n of them.      *)
MaxBlocks == (Limit - Base) \div HeaderSize
NoBlocks == [address |-> Base, total |-> 0, used |-> 0, free |-> 0, largest |-> 0,
             blocks |-> 0, allocations |-> 0]
Counted(m, s) ==
  LET a    == s.address
      room == Total(m, a) - HeaderSize
      seen == [s EXCEPT !.address = a + Total(m, a), !.total = @ + room, !.blocks = @ + 1]
  IN CASE ~ReadOK(m, a) -> s
       [] ReadOK(m, a) /\ Used(m, a) ->
            [seen EXCEPT !.used = @ + room, !.allocations = @ + 1]
       [] ReadOK(m, a) /\ ~Used(m, a) ->
            [seen EXCEPT !.free = @ + room, !.largest = IF room > @ THEN room ELSE @]
StatsAfter(m) ==
  LET after[n \in Nat] == IF n = 0 THEN NoBlocks ELSE Counted(m, after[n - 1])
  IN after
HeapStats(m) == StatsAfter(m)[MaxBlocks]

(* Mutant: the last block is out of reach.                                  *)
HeapBlockButLast(m, index) ==
  LET a == StatsAfter(m)[index].address
  IN IF ReadOK(m, a) /\ a + Total(m, a) < Limit
     THEN [found |-> TRUE, payload |-> a + HeaderSize, used |-> Used(m, a)]
     ELSE [found |-> FALSE, payload |-> 0, used |-> FALSE]

(* The block the Studio's heap list shows at an index, or none. *)
HeapBlock(m, index) ==
  LET a == StatsAfter(m)[index].address
  IN IF ReadOK(m, a)
     THEN [found |-> TRUE, payload |-> a + HeaderSize, used |-> Used(m, a)]
     ELSE [found |-> FALSE, payload |-> 0, used |-> FALSE]

-----------------------------------------------------------------------------
(* STORE8 and STORE32 of the guest, through nova_write_u8 and nova_write_u32 *)

LivePayload(m) ==
  {c \in Cells : \E a \in Blocks(m) :
     Used(m, a) /\ a + HeaderSize <= c /\ c < a + Total(m, a)}

GuestStore(c, bytes, value) ==
  /\ mem' = IF bytes = 1 THEN PutByte(mem, c, value % 256) ELSE PutWord(mem, c, value)
  /\ payload' = 0
  /\ UNCHANGED <<nextId, lastStatus>>

PayloadStore ==
  /\ wildStores = 0
  /\ \E a \in Blocks(mem), s \in PayloadStores :
       /\ Used(mem, a) /\ s.at + s.bytes <= Total(mem, a) - HeaderSize
       /\ GuestStore(a + HeaderSize + s.at, s.bytes, s.value)
  /\ UNCHANGED wildStores

WildStore ==
  /\ wildStores < MaxWild
  /\ \E s \in WildStores : GuestStore(s.at, s.bytes, s.value)
  /\ wildStores' = wildStores + 1

InitMem ==
  WriteHeader([c \in Cells |-> 0], Base, Limit - Base, 0, 0, 0)

Init ==
  mem = InitMem /\ nextId = 1 /\ lastStatus = "OK" /\ payload = 0 /\ wildStores = 0

Reset ==
  /\ mem' = InitMem /\ nextId' = 1 /\ lastStatus' = "OK" /\ payload' = 0
  /\ wildStores' = 0

Next ==
  \/ \E size \in Sizes : AllocFit(size)
  \/ \E size \in Sizes : AllocFail(size)
  \/ \E p \in FreeAddresses : Free(p)
  \/ PayloadStore \/ WildStore
  \/ Reset

Spec == Init /\ [][Next]_vars

-----------------------------------------------------------------------------
(* Properties.  Tame says that the guest has kept to its payloads.           *)

Tame == wildStores = 0

(* The words implement the chain of headers of NovaHeap, whatever stale      *)
(* headers and payload words lie between: no walk or merge reads one.        *)
(* Every operation on the words is the operation of NovaHeap on the chain.   *)
ChainHeaders == [a \in Visited(mem) |-> ReadHeader(mem, a)]
Chain == INSTANCE NovaHeap WITH hdr <- ChainHeaders
(* As long as the guest is tame, every step is a step of NovaHeap.           *)
ChainSpec == Chain!Init /\ [][Tame' => Chain!Next]_(Chain!vars)

(* ALLOC and FREE never touch a word of a block that is live before and      *)
(* after: header writes and zeroing stay off other programs' data.           *)
LivePayloadKept ==
  [][Tame /\ Tame' /\ ~PayloadStore /\ ~Reset =>
       \A c \in LivePayload(mem) \cap LivePayload(mem') : mem'[c] = mem[c]]_vars

(* ALLOC hands out zeroed memory even where stale headers and old data lay.  *)
FreshPayloadZero ==
  [][payload' # 0 =>
       \A c \in Cells : payload' <= c /\ c < payload' - HeaderSize + Total(mem', payload' - HeaderSize)
                        => mem'[c] = 0]_vars

(* The statistics shown by the Studio account for every byte of the arena,   *)
(* and the block list is exactly the blocks they count.                      *)
StatsAccount ==
  LET s == HeapStats(mem) IN
  Tame =>
    /\ s.address = Limit
    /\ s.used + s.free + s.blocks * HeaderSize = Limit - Base
    /\ s.total = s.used + s.free
    /\ \A i \in 0 .. s.blocks + 1 : HeapBlock(mem, i).found <=> i < s.blocks
    /\ s.allocations = Cardinality({i \in 0 .. s.blocks : HeapBlock(mem, i).used})

(* Whatever the guest has stored over the headers, ALLOC and FREE write only *)
(* inside the arena, and a payload handed out lies in it with its block.     *)
DamageContained ==
  /\ \A c \in Cells : c < Base \/ c >= Limit => mem[c] = 0
  /\ payload # 0 =>
       /\ payload >= Base + HeaderSize
       /\ payload - HeaderSize + Total(mem, payload - HeaderSize) <= Limit
=============================================================================
