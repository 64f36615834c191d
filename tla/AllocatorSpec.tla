---------------------------- MODULE AllocatorSpec ----------------------------
(***************************************************************************)
(* What the NovaVM heap promises a guest program, without headers, links or *)
(* free blocks: live allocations are extents of the arena, a request takes  *)
(* the lowest hole it fits in and fails only when no hole is large enough,  *)
(* and a free gives back exactly one live allocation.  NovaHeap implements  *)
(* this module.                                                            *)
(***************************************************************************)
EXTENDS Integers

CONSTANTS Base, Limit, HeaderSize, Alignment, MinPayload, Sizes, FreeAddresses

VARIABLES
  live,             (* start -> end of each live allocation, header included *)
  lastStatus

vars == <<live, lastStatus>>

AlignUp(size) == ((size + (Alignment - 1)) \div Alignment) * Alignment
Needed(size) == HeaderSize + AlignUp(size)
MaxRequest == (Limit - Base) - HeaderSize - (Alignment - 1)

(* From s up to e nothing is live, and the hole cannot be made larger. *)
Hole(s, e) ==
  /\ s < e
  /\ s = Base \/ \E x \in DOMAIN live : live[x] = s
  /\ e = Limit \/ e \in DOMAIN live
  /\ \A x \in DOMAIN live : x < s \/ e <= x

Starts == {Base} \cup {live[x] : x \in DOMAIN live}
Ends == {Limit} \cup DOMAIN live

Serves(s, e, size) == Hole(s, e) /\ e - s >= Needed(size)

Init == live = [x \in {} |-> 0] /\ lastStatus = "OK"

(* A hole whose rest is too small for another block is taken whole. *)
Taken(s, e, size) ==
  IF (e - s) - Needed(size) >= HeaderSize + MinPayload THEN s + Needed(size) ELSE e

Alloc(size) ==
  /\ size # 0 /\ size <= MaxRequest
  /\ \E s \in Starts, e \in Ends :
       /\ Serves(s, e, size)
       /\ \A s2 \in Starts, e2 \in Ends : Serves(s2, e2, size) => s <= s2
       /\ live' = [x \in DOMAIN live \cup {s} |->
                     IF x = s THEN Taken(s, e, size) ELSE live[x]]
  /\ lastStatus' = "OK"

OutOfMemory(size) ==
  /\ size > MaxRequest \/ \A s \in Starts, e \in Ends : ~Serves(s, e, size)
  /\ lastStatus' = "OUT_OF_MEMORY"
  /\ UNCHANGED live

Free(p) ==
  /\ p - HeaderSize \in DOMAIN live
  /\ live' = [x \in DOMAIN live \ {p - HeaderSize} |-> live[x]]
  /\ lastStatus' = "OK"

InvalidFree(p) ==
  /\ p - HeaderSize \notin DOMAIN live
  /\ lastStatus' = "INVALID_FREE"
  /\ UNCHANGED live

Reset == live' = [x \in {} |-> 0] /\ lastStatus' = "OK"

Next ==
  \/ \E size \in Sizes : Alloc(size) \/ OutOfMemory(size)
  \/ \E p \in FreeAddresses : Free(p) \/ InvalidFree(p)
  \/ Reset

Spec == Init /\ [][Next]_vars
=============================================================================
