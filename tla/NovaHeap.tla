------------------------------ MODULE NovaHeap ------------------------------
(***************************************************************************)
(* The guest heap of NovaVM (native/src/nova_vm.c): the block headers that  *)
(* nova_vm_heap_alloc and nova_vm_heap_free keep inside VM memory.          *)
(*                                                                         *)
(* hdr maps the address of every header on the block chain to its four      *)
(* words.  A header absorbed by a merge leaves the domain; what the stale   *)
(* words hold is the concern of NovaHeapWords.  Reading a header at an      *)
(* address off the chain is taken as HEAP_CORRUPT, so a proof that the      *)
(* allocator never reports corruption covers every read it performs.        *)
(*                                                                         *)
(* The module assumes what NovaHeapWords leaves open: the guest program     *)
(* does not itself store into a header.                                     *)
(***************************************************************************)
EXTENDS Integers

CONSTANTS
  Base, Limit,      (* NOVA_HEAP_BASE, NOVA_HEAP_LIMIT                     *)
  IdMod,            (* allocation ids are numbers modulo IdMod (2^32)      *)
  Sizes,            (* payload sizes a program asks for                    *)
  FreeAddresses     (* addresses a program passes to FREE                  *)

HeaderSize == 16    (* NOVA_HEAP_HEADER_SIZE                               *)
Alignment == 8      (* NOVA_HEAP_ALIGNMENT                                 *)
FlagUsed == 1       (* NOVA_HEAP_FLAG_USED                                 *)
MinPayload == 8     (* NOVA_HEAP_MIN_PAYLOAD                               *)
Arena == Limit - Base

(* What the C constants satisfy: the arena is aligned and holds at least one *)
(* block.                                                                   *)
ASSUME HeapAssumption ==
  /\ Base \in Nat /\ Limit \in Nat
  /\ Base % Alignment = 0 /\ Limit % Alignment = 0
  /\ HeaderSize + MinPayload <= Arena
  /\ IdMod \in Nat /\ IdMod >= 2
  /\ Sizes \subseteq Nat /\ FreeAddresses \subseteq Nat

VARIABLES
  hdr,              (* address -> header, for the headers on the chain     *)
  nextId,           (* vm->next_allocation_id                              *)
  lastStatus        (* vm->last_status                                     *)

vars == <<hdr, nextId, lastStatus>>

Header == [total : Nat, prev : Nat, flags : Nat, id : Nat]
Statuses == {"OK", "OUT_OF_MEMORY", "INVALID_FREE", "HEAP_CORRUPT"}

-----------------------------------------------------------------------------
(* Header access *)

(* nova_heap_read_header succeeds at address a. *)
HeaderOK(h, a) ==
  /\ a >= Base /\ a <= Limit - HeaderSize
  /\ a \in DOMAIN h
  /\ h[a].total >= HeaderSize
  /\ h[a].total % Alignment = 0
  /\ h[a].total <= Limit - a
  /\ h[a].flags \in {0, FlagUsed}

Used(h, a) == h[a].flags = FlagUsed

(* The argument check of nova_heap_write_header. *)
WriteOK(a, total) ==
  /\ a >= Base /\ a <= Limit - HeaderSize
  /\ total >= HeaderSize /\ total <= Limit - a

(* The memory after nova_heap_write_header. *)
Write(h, a, total, prev, flags, id) ==
  [x \in DOMAIN h \cup {a} |->
     IF x = a THEN [total |-> total, prev |-> prev, flags |-> flags, id |-> id]
     ELSE h[x]]

(* nova_heap_update_prev_size: nothing to do at the end of the arena. *)
UpdatePrevOK(h, a) == a = Limit \/ HeaderOK(h, a)
UpdatePrev(h, a, prev) == IF a = Limit THEN h ELSE [h EXCEPT ![a].prev = prev]

(* The header at a is absorbed by its left neighbour. *)
Absorb(h, a) == [x \in DOMAIN h \ {a} |-> h[x]]

End(h, a) == a + h[a].total

(* The loop "while (address < NOVA_HEAP_LIMIT)" gets from Base to address a, *)
(* reading one header after the other and adding total_size.  Any disorder  *)
(* below a is taken as a header the loop fails to read.                     *)
Reaches(h, a) ==
  /\ Base \in DOMAIN h
  /\ \A b \in DOMAIN h : b < a =>
       /\ HeaderOK(h, b)
       /\ End(h, b) \in DOMAIN h \cup {Limit}
       /\ End(h, b) <= a

-----------------------------------------------------------------------------
(* ALLOC *)

AlignUp(size) == ((size + (Alignment - 1)) \div Alignment) * Alignment
MaxRequest == Arena - HeaderSize - (Alignment - 1)

Fits(h, size, a) == ~Used(h, a) /\ h[a].total - HeaderSize >= AlignUp(size)
(* Mutant: any fit.                                                         *)
AnyFit(h, size, a) == Fits(h, size, a)
FirstFit(h, size, a) ==
  /\ Fits(h, size, a)
  /\ \A b \in DOMAIN h : Fits(h, size, b) => a <= b

(* next_allocation_id++, skipping 0 after a wrap. *)
TakenId == IF nextId = 0 THEN 1 ELSE nextId
IdAfter == (TakenId + 1) % IdMod

(* The remainder of the block at a is worth a block of its own. *)
Splits(h, a, needed) == h[a].total - needed >= HeaderSize + MinPayload

(* The free remainder is written first, then the prev link of the block     *)
(* after it, then the used header.                                          *)
WithRemainder(h, a, needed) ==
  Write(h, a + needed, h[a].total - needed, needed, 0, 0)
SplitOK(h, a, needed) ==
  /\ WriteOK(a + needed, h[a].total - needed)
  /\ UpdatePrevOK(WithRemainder(h, a, needed), End(h, a))
AfterSplit(h, a, needed) ==
  UpdatePrev(WithRemainder(h, a, needed), End(h, a), h[a].total - needed)

AllocSplit(a, needed) ==
  IF SplitOK(hdr, a, needed)
  THEN /\ hdr' = Write(AfterSplit(hdr, a, needed), a, needed, hdr[a].prev, FlagUsed, TakenId)
       /\ lastStatus' = "OK"
  ELSE /\ hdr' = IF WriteOK(a + needed, hdr[a].total - needed)
                 THEN WithRemainder(hdr, a, needed) ELSE hdr
       /\ lastStatus' = "HEAP_CORRUPT"

AllocWhole(a) ==
  /\ hdr' = Write(hdr, a, hdr[a].total, hdr[a].prev, FlagUsed, TakenId)
  /\ lastStatus' = "OK"

AllocFit(size) ==
  \E a \in DOMAIN hdr :
    LET needed == HeaderSize + AlignUp(size) IN
    /\ FirstFit(hdr, size, a)
    /\ Reaches(hdr, a) /\ HeaderOK(hdr, a)
    /\ nextId' = IdAfter
    /\ IF Splits(hdr, a, needed) THEN AllocSplit(a, needed) ELSE AllocWhole(a)

AllocCorrupt(size) ==
  /\ IF \E a \in DOMAIN hdr : FirstFit(hdr, size, a)
     THEN \E a \in DOMAIN hdr :
            FirstFit(hdr, size, a) /\ ~(Reaches(hdr, a) /\ HeaderOK(hdr, a))
     ELSE ~Reaches(hdr, Limit)
  /\ lastStatus' = "HEAP_CORRUPT"
  /\ UNCHANGED <<hdr, nextId>>

AllocFull(size) ==
  /\ \A a \in DOMAIN hdr : ~Fits(hdr, size, a)
  /\ Reaches(hdr, Limit)
  /\ lastStatus' = "OUT_OF_MEMORY"
  /\ UNCHANGED <<hdr, nextId>>

AllocTooBig(size) ==
  /\ size > MaxRequest
  /\ lastStatus' = "OUT_OF_MEMORY"
  /\ UNCHANGED <<hdr, nextId>>

(* nova_vm_heap_alloc.  Size 0 is refused before anything is written; it is *)
(* the ALLOC instruction that then records ERR_ARGUMENT.                    *)
Alloc(size) ==
  \/ size = 0 /\ UNCHANGED vars
  \/ AllocTooBig(size)
  \/ /\ size # 0 /\ size <= MaxRequest
     /\ AllocFit(size) \/ AllocFull(size) \/ AllocCorrupt(size)

-----------------------------------------------------------------------------
(* FREE *)

(* The block at a with its own header rewritten as free. *)
Freed(h, a) == Write(h, a, h[a].total, h[a].prev, 0, 0)

(* Merging the block at a with a free right neighbour n. *)
NextOK(h, a) == LET n == End(h, a) IN n < Limit => HeaderOK(h, n) /\ h[n].prev = h[a].total
MergesNext(h, a) == End(h, a) < Limit /\ ~Used(h, End(h, a))
Grown(h, a) ==
  LET n == End(h, a)
  IN Write(Absorb(h, n), a, h[a].total + h[n].total, h[a].prev, 0, 0)
(* Mutant: the block after the merged one keeps its link.                   *)
AfterNextStale(h, a) == IF MergesNext(h, a) THEN Grown(h, a) ELSE h
AfterNext(h, a) ==
  IF MergesNext(h, a)
  THEN UpdatePrev(Grown(h, a), End(h, End(h, a)), h[a].total + h[End(h, a)].total)
  ELSE h

(* Merging the block at a into a free left neighbour. *)
Left(h, a) == a - h[a].prev
PrevOK(h, a) ==
  h[a].prev # 0 =>
    /\ h[a].prev <= a - Base
    /\ HeaderOK(h, Left(h, a))
    /\ h[Left(h, a)].total = h[a].prev
MergesPrev(h, a) == h[a].prev # 0 /\ ~Used(h, Left(h, a))
Joined(h, a) ==
  LET p == Left(h, a)
  IN Write(Absorb(h, a), p, h[p].total + h[a].total, h[p].prev, 0, 0)
AfterPrev(h, a) ==
  IF MergesPrev(h, a)
  THEN UpdatePrev(Joined(h, a), End(h, a), h[Left(h, a)].total + h[a].total)
  ELSE h

(* Each check that fails returns HEAP_CORRUPT and leaves in memory what was *)
(* written before it.                                                       *)
Corrupt(h) == hdr' = h /\ lastStatus' = "HEAP_CORRUPT"
FreeLeft(h, a) ==
  IF ~PrevOK(h, a) THEN Corrupt(h)
  ELSE IF MergesPrev(h, a) /\ ~WriteOK(Left(h, a), h[Left(h, a)].total + h[a].total)
       THEN Corrupt(h)
  ELSE IF MergesPrev(h, a) /\ ~UpdatePrevOK(Joined(h, a), End(h, a))
       THEN Corrupt(Joined(h, a))
  ELSE hdr' = AfterPrev(h, a) /\ lastStatus' = "OK"
FreeUsed(h, a) ==
  IF ~NextOK(h, a) THEN Corrupt(h)
  ELSE IF MergesNext(h, a) /\ ~WriteOK(a, h[a].total + h[End(h, a)].total)
       THEN Corrupt(h)
  ELSE IF MergesNext(h, a) /\ ~UpdatePrevOK(Grown(h, a), End(h, End(h, a)))
       THEN Corrupt(Grown(h, a))
  ELSE FreeLeft(AfterNext(h, a), a)

(* The walk ends at the block whose payload starts at p. *)
Found(p) ==
  LET a == p - HeaderSize
  IN a \in DOMAIN hdr /\ Reaches(hdr, a) /\ HeaderOK(hdr, a)

FreeMiss(p) ==
  /\ ~Found(p)
  /\ lastStatus' = IF Reaches(hdr, Limit) THEN "INVALID_FREE" ELSE "HEAP_CORRUPT"
  /\ UNCHANGED hdr

FreeUnused(p) ==
  /\ Found(p) /\ ~Used(hdr, p - HeaderSize)
  /\ lastStatus' = "INVALID_FREE"
  /\ UNCHANGED hdr

(* nova_vm_heap_free *)
Free(p) ==
  /\ UNCHANGED nextId
  /\ \/ FreeMiss(p)
     \/ FreeUnused(p)
     \/ /\ Found(p) /\ Used(hdr, p - HeaderSize)
        /\ FreeUsed(Freed(hdr, p - HeaderSize), p - HeaderSize)

-----------------------------------------------------------------------------
InitHeader == [x \in {Base} |-> [total |-> Arena, prev |-> 0, flags |-> 0, id |-> 0]]

Init == hdr = InitHeader /\ nextId = 1 /\ lastStatus = "OK"

(* nova_vm_reset, through nova_heap_init. *)
Reset == hdr' = InitHeader /\ nextId' = 1 /\ lastStatus' = "OK"

Next ==
  \/ \E size \in Sizes : Alloc(size)
  \/ \E p \in FreeAddresses : Free(p)
  \/ Reset

Spec == Init /\ [][Next]_vars
-----------------------------------------------------------------------------
(* Properties *)

(* Every variable holds a value of its C type; the chain is a map from       *)
(* addresses to headers.                                                    *)
TypeOK ==
  /\ DOMAIN hdr \subseteq Nat
  /\ hdr \in [DOMAIN hdr -> Header]
  /\ nextId \in 0 .. IdMod - 1
  /\ lastStatus \in Statuses

(* The blocks tile the arena: each header is readable, each block is worth   *)
(* keeping and ends where the next one starts or at the limit, and no block *)
(* starts inside another.  The walks of ALLOC and FREE, the heap statistics *)
(* and the block list rely on it.                                           *)
Tiled ==
  /\ Base \in DOMAIN hdr
  /\ \A a \in DOMAIN hdr :
       /\ HeaderOK(hdr, a)
       /\ hdr[a].total >= HeaderSize + MinPayload
       /\ a % Alignment = 0
       /\ End(hdr, a) \in DOMAIN hdr \cup {Limit}
       /\ \A b \in DOMAIN hdr : a < b => End(hdr, a) <= b

(* Each prev_size names the block on the left, so FREE merges with the       *)
(* block that is really there; splits and both merges must keep it right.   *)
PrevLinks ==
  \A a \in DOMAIN hdr :
    IF a = Base THEN hdr[a].prev = 0
    ELSE /\ Left(hdr, a) \in DOMAIN hdr
         /\ hdr[a].prev > 0
         /\ hdr[Left(hdr, a)].total = hdr[a].prev

(* FREE leaves no two free neighbours, whatever the order of the frees.      *)
Coalesced ==
  \A a \in DOMAIN hdr :
    ~Used(hdr, a) /\ End(hdr, a) < Limit => Used(hdr, End(hdr, a))

(* A live block has a non-zero allocation id even after the 32-bit counter   *)
(* wraps, a free one has none.                                              *)
IdsMarkUse == \A a \in DOMAIN hdr : Used(hdr, a) <=> hdr[a].id # 0

(* The allocator never finds its own headers corrupt: every HEAP_CORRUPT     *)
(* path of ALLOC and FREE needs a guest store into a header.                *)
NeverCorrupt == lastStatus # "HEAP_CORRUPT"

(* The inductive invariant: together these survive each ALLOC, FREE and      *)
(* reset; the links need the tiling, the merges both of them.               *)
IInv ==
  /\ TypeOK
  /\ Tiled
  /\ PrevLinks
  /\ Coalesced
  /\ IdsMarkUse
  /\ NeverCorrupt

(* The chain of headers implements the abstract allocator: what is live is   *)
(* what is marked used.                                                     *)
Live == [a \in {x \in DOMAIN hdr : Used(hdr, x)} |-> End(hdr, a)]
Abstract == INSTANCE AllocatorSpec WITH live <- Live
(* Every ALLOC, FREE and reset is one of the allocator without headers: the *)
(* same block is chosen, the same calls are refused with the same status.   *)
AbstractSpec == Abstract!Spec
=============================================================================
