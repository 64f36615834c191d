--------------------------- MODULE NovaHeapProofs ---------------------------
(***************************************************************************)
(* Proofs about NovaHeap: the chain of headers stays a tiling of the arena  *)
(* with correct back links, so the allocator never meets a corrupt header   *)
(* of its own making, and the chain implements AllocatorSpec.               *)
(***************************************************************************)
EXTENDS NovaHeap, TLAPS

(* The invariants on hdr as one predicate on a chain h, so that it can be    *)
(* asked of the intermediate memories inside one FREE or ALLOC.             *)
Block(h, a) ==
  /\ a % 8 = 0
  /\ a >= Base
  /\ h[a].total \in Nat /\ h[a].total % 8 = 0 /\ h[a].total >= 24
  /\ h[a].flags \in {0, 1}
  /\ End(h, a) <= Limit
  /\ End(h, a) \in DOMAIN h \cup {Limit}
Apart(h) == \A a, b \in DOMAIN h : a < b => End(h, a) <= b
Linked(h, a) ==
  IF a = Base THEN h[a].prev = 0
  ELSE /\ Left(h, a) \in DOMAIN h
       /\ h[a].prev > 0
       /\ h[Left(h, a)].total = h[a].prev
Marked(h, a) == Used(h, a) <=> h[a].id # 0
Chain(h) ==
  /\ DOMAIN h \subseteq Nat
  /\ h \in [DOMAIN h -> Header]
  /\ Base \in DOMAIN h
  /\ \A a \in DOMAIN h : Block(h, a)
  /\ Apart(h)
  /\ \A a \in DOMAIN h : Linked(h, a)
  /\ \A a \in DOMAIN h : Marked(h, a)

(* Chain is the conjunction of the invariants the runs check. *)
LEMMA ChainIsInvariant ==
  ASSUME DOMAIN hdr \subseteq Nat, hdr \in [DOMAIN hdr -> Header]
  PROVE  Chain(hdr) <=> Tiled /\ PrevLinks /\ IdsMarkUse
<1> USE HeapAssumption DEF HeaderSize, Alignment, MinPayload, FlagUsed, End, Left
<1>1. ASSUME Chain(hdr) PROVE Tiled
  <2>1. Base \in DOMAIN hdr
    BY <1>1 DEF Chain
  <2>2. ASSUME NEW a \in DOMAIN hdr
        PROVE  /\ HeaderOK(hdr, a)
               /\ hdr[a].total >= HeaderSize + MinPayload
               /\ a % Alignment = 0
               /\ End(hdr, a) \in DOMAIN hdr \cup {Limit}
    BY <1>1 DEF Chain, Block, HeaderOK, Header
  <2>3. \A a, b \in DOMAIN hdr : a < b => End(hdr, a) <= b
    BY <1>1 DEF Chain, Apart
  <2>4. QED
    BY <2>1, <2>2, <2>3 DEF Tiled
<1>2. ASSUME Tiled PROVE \A a \in DOMAIN hdr : Block(hdr, a)
  BY <1>2 DEF Tiled, HeaderOK, Block, Header
<1>3. ASSUME Tiled PROVE Apart(hdr)
  BY <1>3 DEF Tiled, Apart
<1>4. PrevLinks <=> \A a \in DOMAIN hdr : Linked(hdr, a)
  BY DEF PrevLinks, Linked
<1>5. IdsMarkUse <=> \A a \in DOMAIN hdr : Marked(hdr, a)
  BY DEF IdsMarkUse, Marked
<1>6. Tiled => Base \in DOMAIN hdr
  BY DEF Tiled
<1>7. QED
  BY <1>1, <1>2, <1>3, <1>4, <1>5, <1>6 DEF Chain

-----------------------------------------------------------------------------
(* Neighbours on a chain *)

(* nova_heap_read_header accepts every block. *)
LEMMA BlockReadable ==
  ASSUME NEW h, NEW b \in DOMAIN h, b \in Nat, Block(h, b)
  PROVE  HeaderOK(h, b)
<1> USE HeapAssumption DEF HeaderSize, Alignment, MinPayload, FlagUsed
<1>1. h[b].total \in Nat /\ h[b].total >= 24 /\ b >= Base /\ b + h[b].total <= Limit
  BY DEF Block, End
<1>2. h[b].total <= Limit - b /\ b <= Limit - 16
  BY <1>1
<1>3. h[b].total % 8 = 0 /\ h[b].flags \in {0, 1}
  BY DEF Block
<1>4. QED
  BY <1>1, <1>2, <1>3 DEF HeaderOK

(* A block's right neighbour has a readable header whose back link names the *)
(* block: the check FREE makes before it merges to the right.               *)
LEMMA RightNeighbour ==
  ASSUME NEW h, Chain(h), NEW a \in DOMAIN h, End(h, a) < Limit
  PROVE  /\ End(h, a) \in DOMAIN h
         /\ a < End(h, a)
         /\ HeaderOK(h, End(h, a))
         /\ h[End(h, a)].prev = h[a].total
         /\ Left(h, End(h, a)) = a
<1> DEFINE n == End(h, a)
           l == Left(h, n)
<1> USE HeapAssumption DEF HeaderSize, Alignment, MinPayload, FlagUsed
<1>1. a \in Nat /\ h[a].total \in Nat /\ h[a].total >= 24 /\ n \in DOMAIN h /\ a >= Base
  BY DEF Chain, Block, End
<1>2. n \in Nat /\ n > a /\ n # Base
  BY <1>1 DEF End
<1>3. Block(h, n) /\ Linked(h, n)
  BY <1>1 DEF Chain
<1>4. HeaderOK(h, n)
  BY <1>1, <1>2, <1>3, BlockReadable
<1>5. /\ l \in DOMAIN h /\ l \in Nat
      /\ h[n].prev \in Nat /\ h[n].prev > 0 /\ h[l].total = h[n].prev
  BY <1>1, <1>2, <1>3 DEF Linked, Chain, Header
<1>6. End(h, l) = n /\ l < n
  BY <1>2, <1>5 DEF End, Left
<1>7. ~(l < a)
  BY <1>1, <1>2, <1>5, <1>6 DEF Chain, Apart
<1>8. ~(a < l)
  BY <1>1, <1>2, <1>5, <1>6 DEF Chain, Apart
<1>9. l = a
  BY <1>1, <1>5, <1>7, <1>8
<1>10. QED
  BY <1>1, <1>2, <1>4, <1>5, <1>9

(* Likewise to the left, for every block but the first. *)
LEMMA LeftNeighbour ==
  ASSUME NEW h, Chain(h), NEW a \in DOMAIN h, h[a].prev # 0
  PROVE  /\ Left(h, a) \in DOMAIN h
         /\ Left(h, a) < a
         /\ h[a].prev <= a - Base
         /\ HeaderOK(h, Left(h, a))
         /\ h[Left(h, a)].total = h[a].prev
         /\ End(h, Left(h, a)) = a
<1> DEFINE l == Left(h, a)
<1> USE HeapAssumption DEF HeaderSize, Alignment, MinPayload, FlagUsed
<1>1. a \in Nat /\ h[a].prev \in Nat /\ Linked(h, a)
  BY DEF Chain, Header
<1>2. l \in DOMAIN h /\ h[a].prev > 0 /\ h[l].total = h[a].prev
  BY <1>1 DEF Linked
<1>3. Block(h, l) /\ l \in Nat
  BY <1>2 DEF Chain
<1>4. l < a /\ End(h, l) = a /\ h[a].prev <= a - Base
  BY <1>1, <1>2, <1>3 DEF Left, End, Block
<1>5. HeaderOK(h, l)
  BY <1>2, <1>3, BlockReadable
<1>6. QED
  BY <1>2, <1>4, <1>5

(* The loops of ALLOC and FREE get to any block, and to the limit. *)
LEMMA ChainReaches ==
  ASSUME NEW h, Chain(h), NEW a \in DOMAIN h \cup {Limit}
  PROVE  /\ Reaches(h, a)
         /\ a # Limit => HeaderOK(h, a)
<1> USE HeapAssumption DEF HeaderSize, Alignment, MinPayload, FlagUsed
<1>1. ASSUME NEW b \in DOMAIN h PROVE HeaderOK(h, b) /\ End(h, b) \in DOMAIN h \cup {Limit}
  <2>1. Block(h, b) /\ b \in Nat
    BY DEF Chain
  <2>2. QED
    BY <2>1, BlockReadable DEF Block
<1>2. ASSUME NEW b \in DOMAIN h, b < a PROVE End(h, b) <= a
  <2>1. CASE a = Limit
    BY <2>1 DEF Chain, Block
  <2>2. CASE a \in DOMAIN h
    BY <1>2, <2>2 DEF Chain, Apart
  <2>3. QED
    BY <2>1, <2>2
<1>3. Base \in DOMAIN h
  BY DEF Chain
<1>4. QED
  BY <1>1, <1>2, <1>3 DEF Reaches

-----------------------------------------------------------------------------
(* FREE *)

(* Rewriting flags and id of a header where it stands keeps the chain. *)
LEMMA RemarkedChain ==
  ASSUME NEW h, Chain(h), NEW a \in DOMAIN h,
         NEW flags \in {0, 1}, NEW id \in Nat, flags = 1 <=> id # 0
  PROVE  LET g == Write(h, a, h[a].total, h[a].prev, flags, id)
         IN /\ Chain(g)
            /\ DOMAIN g = DOMAIN h
            /\ \A x \in DOMAIN h : /\ End(g, x) = End(h, x)
                                   /\ Used(g, x) <=> IF x = a THEN flags = 1 ELSE Used(h, x)
<1> DEFINE g == Write(h, a, h[a].total, h[a].prev, flags, id)
<1>1. DOMAIN g = DOMAIN h
  BY DEF Write
<1>2. ASSUME NEW x \in DOMAIN h
      PROVE  g[x] = IF x = a THEN [total |-> h[a].total, prev |-> h[a].prev,
                                   flags |-> flags, id |-> id] ELSE h[x]
  BY DEF Write
<1>3. ASSUME NEW x \in DOMAIN h
      PROVE  /\ g[x] \in Header
             /\ g[x].total = h[x].total
             /\ g[x].prev = h[x].prev
             /\ g[x].flags = IF x = a THEN flags ELSE h[x].flags
             /\ Marked(g, x)
  <2>0. h[x] \in Header /\ h[a] \in Header /\ Marked(h, x)
    BY DEF Chain
  <2>1. CASE x = a
    BY <1>2, <2>0, <2>1 DEF Header, Marked, Used, FlagUsed
  <2>2. CASE x # a
    BY <1>2, <2>0, <2>2 DEF Marked, Used
  <2>3. QED
    BY <2>1, <2>2
<1>4. g \in [DOMAIN g -> Header]
  BY <1>1, <1>3 DEF Write
<1>5. \A x \in DOMAIN g : Block(g, x)
  BY <1>1, <1>3 DEF Chain, Block, End
<1>6. Apart(g)
  BY <1>1, <1>3 DEF Chain, Apart, End
<1>7. \A x \in DOMAIN g : Linked(g, x)
  BY <1>1, <1>3 DEF Chain, Linked, Left
<1>8. ASSUME NEW x \in DOMAIN h
      PROVE  End(g, x) = End(h, x) /\ (Used(g, x) <=> IF x = a THEN flags = 1 ELSE Used(h, x))
  BY <1>3 DEF End, Used, FlagUsed
<1> HIDE DEF g
<1>9. Chain(g)
  BY <1>1, <1>3, <1>4, <1>5, <1>6, <1>7 DEF Chain
<1>10. QED
  BY <1>1, <1>8, <1>9 DEF g

(* Merging a block with its free right neighbour: no write fails, and what   *)
(* comes out is a chain in which only the merged block has changed size.    *)
LEMMA GrownChain ==
  ASSUME NEW h, Chain(h), NEW a \in DOMAIN h,
         ~Used(h, a), MergesNext(h, a)
  PROVE  LET n == End(h, a)
             g == AfterNext(h, a)
         IN /\ WriteOK(a, h[a].total + h[n].total)
            /\ UpdatePrevOK(Grown(h, a), End(h, n))
            /\ Chain(g)
            /\ DOMAIN g = DOMAIN h \ {n}
            /\ End(g, a) = End(h, n)
            /\ \A x \in DOMAIN g : /\ x # a => End(g, x) = End(h, x)
                                   /\ Used(g, x) <=> Used(h, x)
            /\ g[a].prev = h[a].prev
<1> DEFINE n == End(h, a)
           m == End(h, n)
           t == h[a].total + h[n].total
           w == Grown(h, a)
           g == AfterNext(h, a)
<1> USE HeapAssumption DEF HeaderSize, Alignment, MinPayload, FlagUsed
<1>1. /\ n < Limit /\ n \in DOMAIN h /\ a < n
      /\ ~Used(h, n)
  BY RightNeighbour DEF MergesNext
<1>2. /\ a \in Nat /\ n \in Nat /\ Block(h, a) /\ Block(h, n)
      /\ h[a] \in Header /\ h[n] \in Header
  BY <1>1 DEF Chain
<1>3. /\ m = a + t /\ m \in DOMAIN h \cup {Limit} /\ m <= Limit /\ m > n
      /\ t \in Nat /\ t % 8 = 0 /\ t >= 48 /\ a >= Base
  BY <1>2 DEF Block, End
<1>4. WriteOK(a, t)
  BY <1>2, <1>3 DEF WriteOK
<1>5. /\ DOMAIN w = DOMAIN h \ {n}
      /\ \A x \in DOMAIN w :
           w[x] = IF x = a THEN [total |-> t, prev |-> h[a].prev, flags |-> 0, id |-> 0]
                  ELSE h[x]
  BY <1>1, <1>2 DEF Grown, Write, Absorb
<1>6. m # Limit => HeaderOK(w, m)
  <2>1. ASSUME m # Limit PROVE HeaderOK(w, m)
    <3>1. m \in DOMAIN h /\ m \in Nat /\ HeaderOK(h, m)
      BY <1>3, <2>1, ChainReaches DEF Chain
    <3>2. m \in DOMAIN w /\ w[m] = h[m]
      BY <3>1, <1>2, <1>3, <1>5
    <3>3. QED
      BY <3>1, <3>2 DEF HeaderOK
  <2>2. QED
    BY <2>1
<1>7. UpdatePrevOK(w, m)
  BY <1>6 DEF UpdatePrevOK
<1>8. g = UpdatePrev(w, m, t)
  BY DEF AfterNext, MergesNext
<1>9. DOMAIN g = DOMAIN w
  BY <1>8 DEF UpdatePrev
<1>10. ASSUME NEW x \in DOMAIN g
       PROVE  /\ x \in DOMAIN h /\ x # n
              /\ g[x].total = IF x = a THEN t ELSE h[x].total
              /\ g[x].prev = IF x = m THEN t ELSE h[x].prev
              /\ g[x].flags = h[x].flags
              /\ g[x].id = IF x = a THEN 0 ELSE h[x].id
              /\ g[x] \in Header
  <2>1. x \in DOMAIN w /\ x \in DOMAIN h /\ x # n /\ w[x] \in Header
    <3>1. x \in DOMAIN w /\ x \in DOMAIN h /\ x # n
      BY <1>5, <1>9
    <3>2. h[x] \in Header
      BY <3>1 DEF Chain
    <3>3. QED
      BY <3>1, <3>2, <1>2, <1>3, <1>5 DEF Header
  <2>2. h[a].flags = 0
    BY <1>2 DEF Block, Used
  <2>3. a # m
    BY <1>2, <1>3
  <2>4. /\ w[x].total = IF x = a THEN t ELSE h[x].total
        /\ w[x].prev = h[x].prev
        /\ w[x].flags = h[x].flags
        /\ w[x].id = IF x = a THEN 0 ELSE h[x].id
    BY <2>1, <2>2, <1>5
  <2>5. CASE x = m /\ m # Limit
    <3>1. g[x] = [w[x] EXCEPT !.prev = t]
      BY <2>1, <2>5, <1>8 DEF UpdatePrev
    <3>2. QED
      BY <2>1, <2>4, <2>5, <3>1, <1>3 DEF Header
  <2>6. CASE x # m
    <3>1. g[x] = w[x]
      BY <2>1, <2>6, <1>8 DEF UpdatePrev
    <3>2. QED
      BY <2>1, <2>4, <2>6, <3>1
  <2>7. CASE m = Limit
    <3>1. x # Limit
      <4>1. Block(h, x) /\ x \in Nat
        BY <2>1 DEF Chain
      <4>2. QED
        BY <4>1 DEF Block, End
    <3>2. QED
      BY <2>6, <2>7, <3>1
  <2>8. QED
    BY <2>5, <2>6, <2>7
<1> HIDE DEF g, w
<1>11. /\ End(g, a) = m
       /\ a \in DOMAIN g
       /\ \A x \in DOMAIN g : x # a => End(g, x) = End(h, x)
       /\ \A x \in DOMAIN g : Used(g, x) <=> Used(h, x)
  BY <1>1, <1>2, <1>3, <1>5, <1>9, <1>10 DEF End, Used
<1>12. g \in [DOMAIN g -> Header]
  <2>1. g = [x \in DOMAIN g |-> g[x]]
    BY <1>8 DEF UpdatePrev, g, w, Grown, Write
  <2>2. QED
    BY <2>1, <1>10
<1>13. ASSUME NEW x \in DOMAIN g PROVE Block(g, x)
  <2>1. x \in DOMAIN h /\ x # n /\ Block(h, x) /\ x \in Nat
    BY <1>10 DEF Chain
  <2>2. CASE x = a
    BY <1>1, <1>2, <1>3, <1>5, <1>9, <1>10, <1>11, <2>1, <2>2 DEF Block
  <2>3. CASE x # a
    <3>1. End(h, x) # n
      <4>1. SUFFICES ASSUME End(h, x) = n PROVE FALSE
        OBVIOUS
      <4>2. x < a => End(h, x) <= a
        BY <2>1 DEF Chain, Apart
      <4>3. a < x => n <= x
        BY <2>1 DEF Chain, Apart
      <4>4. x < n
        BY <2>1, <4>1 DEF Block, End
      <4>5. QED
        BY <4>1, <4>2, <4>3, <4>4, <2>1, <2>3, <1>1, <1>2
    <3>2. End(g, x) \in DOMAIN g \cup {Limit}
      BY <3>1, <2>1, <2>3, <1>5, <1>9, <1>11 DEF Block
    <3>3. QED
      BY <3>2, <2>1, <2>3, <1>10, <1>11 DEF Block
  <2>4. QED
    BY <2>2, <2>3
<1>14. ASSUME NEW x \in DOMAIN g, NEW y \in DOMAIN g, x < y PROVE End(g, x) <= y
  <2>1. /\ x \in DOMAIN h /\ y \in DOMAIN h /\ x \in Nat /\ y \in Nat /\ y # n
        /\ End(h, x) <= y
    BY <1>10, <1>14 DEF Chain, Apart
  <2>2. CASE x = a
    <3>1. n < y => m <= y
      BY <2>1, <1>1 DEF Chain, Apart
    <3>2. QED
      BY <3>1, <2>1, <2>2, <1>2, <1>3, <1>11
  <2>3. CASE x # a
    BY <2>1, <2>3, <1>11
  <2>4. QED
    BY <2>2, <2>3
<1>15. ASSUME NEW x \in DOMAIN g PROVE Linked(g, x)
  <2>1. x \in DOMAIN h /\ x # n /\ x \in Nat /\ Linked(h, x) /\ Block(h, x)
    BY <1>10 DEF Chain
  <2>2. CASE x = Base
    BY <2>1, <2>2, <1>2, <1>3, <1>10 DEF Linked
  <2>3. CASE x = m /\ x # Base
    <3>1. Left(g, x) = a
      BY <2>3, <1>2, <1>3, <1>10 DEF Left
    <3>2. QED
      BY <3>1, <2>3, <1>3, <1>10, <1>11 DEF Linked
  <2>4. CASE x # m /\ x # Base
    <3>1. Left(g, x) = Left(h, x) /\ g[x].prev = h[x].prev
      BY <2>4, <1>10 DEF Left
    <3>2. /\ Left(h, x) \in DOMAIN h /\ h[x].prev > 0
          /\ h[Left(h, x)].total = h[x].prev
          /\ End(h, Left(h, x)) = x
      <4>1. h[x].prev \in Nat /\ h[x].prev > 0
        BY <2>1, <2>4 DEF Linked, Chain, Header
      <4>2. QED
        BY <4>1, <2>1, LeftNeighbour
    <3>3. Left(h, x) # n /\ Left(h, x) # a
      <4>1. Left(h, x) = n => x = m
        BY <3>2
      <4>2. Left(h, x) = a => x = n
        BY <3>2
      <4>3. QED
        BY <4>1, <4>2, <2>1, <2>4
    <3>4. QED
      BY <3>1, <3>2, <3>3, <2>4, <1>5, <1>9, <1>10 DEF Linked
  <2>5. QED
    BY <2>2, <2>3, <2>4
<1>16. ASSUME NEW x \in DOMAIN g PROVE Marked(g, x)
  <2>1. Marked(h, x) /\ x \in DOMAIN h
    BY <1>10 DEF Chain
  <2>2. QED
    BY <2>1, <1>10, <1>11 DEF Marked
<1>17. Chain(g)
  <2>1. Base \in DOMAIN g /\ DOMAIN g \subseteq Nat
    BY <1>1, <1>2, <1>3, <1>5, <1>9 DEF Chain
  <2>2. QED
    BY <2>1, <1>12, <1>13, <1>14, <1>15, <1>16 DEF Chain, Apart
<1>18. g[a].prev = h[a].prev
  BY <1>2, <1>3, <1>10, <1>11
<1>19. QED
  BY <1>4, <1>5, <1>7, <1>9, <1>11, <1>17, <1>18 DEF g, w

(* Merging a block into its free left neighbour is the same merge seen from  *)
(* the other side.                                                          *)
LEMMA JoinedIsGrown ==
  ASSUME NEW h, Chain(h), NEW a \in DOMAIN h, ~Used(h, a), MergesPrev(h, a)
  PROVE  LET p == Left(h, a)
         IN /\ p \in DOMAIN h /\ ~Used(h, p) /\ End(h, p) = a /\ MergesNext(h, p)
            /\ Joined(h, a) = Grown(h, p)
            /\ AfterPrev(h, a) = AfterNext(h, p)
<1> DEFINE p == Left(h, a)
<1>1. p \in DOMAIN h /\ End(h, p) = a /\ ~Used(h, p)
  BY LeftNeighbour DEF MergesPrev
<1>2. a < Limit
  <2>1. Block(h, a) /\ a \in Nat
    BY DEF Chain
  <2>2. QED
    BY <2>1, HeapAssumption DEF Block, End
<1>3. MergesNext(h, p)
  BY <1>1, <1>2 DEF MergesNext
<1>4. Joined(h, a) = Grown(h, p)
  BY <1>1 DEF Joined, Grown
<1>5. AfterPrev(h, a) = AfterNext(h, p)
  BY <1>1, <1>3, <1>4 DEF AfterPrev, AfterNext
<1>6. QED
  BY <1>1, <1>3, <1>4, <1>5

CoalescedBut(h, a) ==
  \A x \in DOMAIN h :
    ~Used(h, x) /\ End(h, x) < Limit /\ End(h, x) # a => Used(h, End(h, x))
SameUse(g, h) ==
  \A x : /\ x \in DOMAIN g /\ Used(g, x) <=> x \in DOMAIN h /\ Used(h, x)
         /\ x \in DOMAIN g /\ Used(g, x) => End(g, x) = End(h, x)

(* The right half of FREE: from a chain whose block a has just been marked   *)
(* free to one where the only free pair left may end at a.                  *)
LEMMA RightMerge ==
  ASSUME NEW h, Chain(h), NEW a \in DOMAIN h, ~Used(h, a), 
         \A x \in DOMAIN h : x # a /\ ~Used(h, x) /\ End(h, x) < Limit /\ End(h, x) # a
                             => Used(h, End(h, x))
  PROVE  LET g == AfterNext(h, a)
         IN /\ NextOK(h, a)
            /\ MergesNext(h, a) => /\ WriteOK(a, h[a].total + h[End(h, a)].total)
                                   /\ UpdatePrevOK(Grown(h, a), End(h, End(h, a)))
            /\ Chain(g) /\ a \in DOMAIN g /\ ~Used(g, a)
            /\ CoalescedBut(g, a)
            /\ SameUse(g, h)
<1> DEFINE n == End(h, a)
           g == AfterNext(h, a)
<1>1. NextOK(h, a)
  BY RightNeighbour DEF NextOK
<1>2. CASE ~MergesNext(h, a)
  <2>1. g = h
    BY <1>2 DEF AfterNext
  <2>2. CoalescedBut(h, a)
    BY <1>2 DEF CoalescedBut, MergesNext
  <2>3. QED
    BY <1>1, <1>2, <2>1, <2>2 DEF SameUse
<1>3. CASE MergesNext(h, a)
  <2>1. /\ WriteOK(a, h[a].total + h[n].total)
        /\ UpdatePrevOK(Grown(h, a), End(h, n))
        /\ Chain(g)
        /\ DOMAIN g = DOMAIN h \ {n}
        /\ End(g, a) = End(h, n)
        /\ \A x \in DOMAIN g : /\ x # a => End(g, x) = End(h, x)
                               /\ Used(g, x) <=> Used(h, x)
    BY <1>3, GrownChain
  <2>2. n < Limit /\ n \in DOMAIN h /\ a < n /\ ~Used(h, n)
    BY <1>3, RightNeighbour DEF MergesNext
  <2>3. a \in Nat /\ n \in Nat /\ End(h, n) > n
    BY <2>2, HeapAssumption DEF Chain, Block, End
  <2>4. a \in DOMAIN g /\ ~Used(g, a)
    BY <2>1, <2>2, <2>3
  <2>5. ASSUME NEW x \in DOMAIN g, ~Used(g, x), End(g, x) < Limit, End(g, x) # a
        PROVE  Used(g, End(g, x))
    <3>1. x \in DOMAIN h /\ x # n /\ ~Used(h, x) /\ End(g, x) \in DOMAIN g
      <4>1. Block(g, x)
        BY <2>1 DEF Chain
      <4>2. End(g, x) \in DOMAIN g
        BY <4>1, <2>5, HeapAssumption DEF Block
      <4>3. QED
        BY <4>2, <2>1, <2>5
    <3>2. CASE x = a
      <4>1. Used(h, End(h, n))
        BY <3>2, <2>1, <2>2, <2>3, <2>5
      <4>2. QED
        BY <4>1, <3>1, <3>2, <2>1
    <3>3. CASE x # a
      BY <3>1, <3>3, <2>1, <2>5
    <3>4. QED
      BY <3>2, <3>3
  <2>6. CoalescedBut(g, a)
    BY <2>5 DEF CoalescedBut
  <2>7. SameUse(g, h)
    BY <2>1, <2>2, <2>4 DEF SameUse
  <2>8. QED
    BY <1>1, <2>1, <2>4, <2>6, <2>7
<1>4. QED
  BY <1>2, <1>3

(* The left half: no free pair is left. *)
LEMMA LeftMerge ==
  ASSUME NEW h, Chain(h), NEW a \in DOMAIN h, ~Used(h, a), CoalescedBut(h, a)
  PROVE  LET g == AfterPrev(h, a)
             p == Left(h, a)
         IN /\ PrevOK(h, a)
            /\ MergesPrev(h, a) => /\ WriteOK(p, h[p].total + h[a].total)
                                   /\ UpdatePrevOK(Joined(h, a), End(h, a))
            /\ Chain(g)
            /\ \A x \in DOMAIN g : ~Used(g, x) /\ End(g, x) < Limit => Used(g, End(g, x))
            /\ SameUse(g, h)
<1> DEFINE g == AfterPrev(h, a)
           p == Left(h, a)
<1>1. PrevOK(h, a)
  BY LeftNeighbour DEF PrevOK
<1>2. CASE ~MergesPrev(h, a)
  <2>1. g = h
    BY <1>2 DEF AfterPrev
  <2>2. ASSUME NEW x \in DOMAIN h, ~Used(h, x), End(h, x) < Limit PROVE Used(h, End(h, x))
    <3>1. CASE End(h, x) # a
      BY <2>2, <3>1 DEF CoalescedBut
    <3>2. CASE End(h, x) = a
      <4>1. Left(h, a) = x /\ h[a].prev = h[x].total
        BY <2>2, <3>2, RightNeighbour
      <4>2. h[x].total # 0
        BY HeapAssumption DEF Chain, Block
      <4>3. MergesPrev(h, a)
        BY <4>1, <4>2, <2>2 DEF MergesPrev
      <4>4. QED
        BY <4>3, <1>2
    <3>3. QED
      BY <3>1, <3>2
  <2>3. QED
    BY <1>1, <1>2, <2>1, <2>2 DEF SameUse
<1>3. CASE MergesPrev(h, a)
  <2>1. /\ p \in DOMAIN h /\ ~Used(h, p) /\ End(h, p) = a /\ MergesNext(h, p)
        /\ Joined(h, a) = Grown(h, p)
        /\ g = AfterNext(h, p)
    BY <1>3, JoinedIsGrown
  <2>2. /\ WriteOK(p, h[p].total + h[a].total)
        /\ UpdatePrevOK(Joined(h, a), End(h, a))
        /\ Chain(g)
        /\ DOMAIN g = DOMAIN h \ {a}
        /\ End(g, p) = End(h, a)
        /\ \A x \in DOMAIN g : /\ x # p => End(g, x) = End(h, x)
                               /\ Used(g, x) <=> Used(h, x)
    <3>1. /\ WriteOK(p, h[p].total + h[End(h, p)].total)
          /\ UpdatePrevOK(Grown(h, p), End(h, End(h, p)))
          /\ Chain(AfterNext(h, p))
          /\ DOMAIN AfterNext(h, p) = DOMAIN h \ {End(h, p)}
          /\ End(AfterNext(h, p), p) = End(h, End(h, p))
          /\ \A x \in DOMAIN AfterNext(h, p) :
               /\ x # p => End(AfterNext(h, p), x) = End(h, x)
               /\ Used(AfterNext(h, p), x) <=> Used(h, x)
      BY <2>1, GrownChain
    <3>2. QED
      BY <2>1, <3>1
  <2>3. p < a /\ p \in Nat /\ a \in Nat /\ p \in DOMAIN g /\ End(h, a) # a
    <3>1. p < a /\ p \in Nat /\ a \in Nat
      BY <1>3, LeftNeighbour DEF MergesPrev, Chain
    <3>2. Block(h, a)
      BY DEF Chain
    <3>3. End(h, a) # a
      BY <3>1, <3>2 DEF Block, End
    <3>4. QED
      BY <3>1, <3>3, <2>1, <2>2
  <2>4. ASSUME NEW x \in DOMAIN g, ~Used(g, x), End(g, x) < Limit
        PROVE  Used(g, End(g, x))
    <3>1. x \in DOMAIN h /\ x # a /\ ~Used(h, x) /\ End(g, x) \in DOMAIN g
      <4>1. Block(g, x)
        BY <2>2 DEF Chain
      <4>2. End(g, x) \in DOMAIN g
        BY <4>1, <2>4, HeapAssumption DEF Block
      <4>3. QED
        BY <4>2, <2>2, <2>4
    <3>2. CASE x = p
      <4>1. Used(h, End(h, a))
        BY <3>2, <2>2, <2>3, <2>4 DEF CoalescedBut
      <4>2. QED
        BY <4>1, <3>1, <3>2, <2>2
    <3>3. CASE x # p
      <4>1. End(h, x) # a
        <5>1. End(h, x) = a => End(h, x) < Limit
          BY <2>1 DEF MergesNext
        <5>2. End(h, x) = a => Left(h, a) = x
          BY <3>1, <5>1, RightNeighbour
        <5>3. QED
          BY <5>2, <3>3
      <4>2. QED
        BY <4>1, <3>1, <3>3, <2>2, <2>4 DEF CoalescedBut
    <3>4. QED
      BY <3>2, <3>3
  <2>5. SameUse(g, h)
    BY <2>1, <2>2, <2>3 DEF SameUse
  <2>6. QED
    BY <1>1, <2>2, <2>4, <2>5
<1>4. QED
  BY <1>2, <1>3

-----------------------------------------------------------------------------
(* ALLOC *)

(* align_up_u32 rounds to the next multiple of eight. *)
LEMMA AlignUpRounds ==
  ASSUME NEW size \in Nat, size > 0
  PROVE  /\ AlignUp(size) \in Nat /\ AlignUp(size) % 8 = 0
         /\ AlignUp(size) >= size /\ AlignUp(size) < size + 8 /\ AlignUp(size) >= 8
BY DEF AlignUp, Alignment

(* next_allocation_id stays a counter modulo IdMod, and no block gets id 0. *)
LEMMA IdsCount ==
  ASSUME nextId \in 0 .. IdMod - 1
  PROVE  TakenId \in Nat /\ TakenId # 0 /\ IdAfter \in 0 .. IdMod - 1
<1>1. TakenId \in Nat /\ TakenId # 0 /\ TakenId <= IdMod - 1
  BY HeapAssumption DEF TakenId
<1>2. IdMod \in Nat /\ IdMod > 0 /\ TakenId + 1 \in Nat
  BY <1>1, HeapAssumption
<1>3. (TakenId + 1) % IdMod \in 0 .. IdMod - 1
  BY <1>2
<1>4. QED
  BY <1>1, <1>3 DEF IdAfter

CoalescedIn(h) ==
  \A x \in DOMAIN h : ~Used(h, x) /\ End(h, x) < Limit => Used(h, End(h, x))

(* Splitting a free block in two and using the left part. *)
LEMMA SplitChain ==
  ASSUME NEW h, Chain(h), CoalescedIn(h), NEW a \in DOMAIN h, ~Used(h, a),
         NEW needed \in Nat, needed % 8 = 0, needed >= 24, Splits(h, a, needed),
         NEW id \in Nat, id # 0
  PROVE  LET s == a + needed
             g == Write(AfterSplit(h, a, needed), a, needed, h[a].prev, FlagUsed, id)
         IN /\ SplitOK(h, a, needed)
            /\ Chain(g) /\ CoalescedIn(g)
            /\ DOMAIN g = DOMAIN h \cup {s}
            /\ Used(g, a) /\ End(g, a) = s /\ ~Used(g, s)
            /\ \A x \in DOMAIN h : x # a => /\ Used(g, x) <=> Used(h, x)
                                            /\ End(g, x) = End(h, x)
<1> DEFINE s == a + needed
           m == End(h, a)
           r == h[a].total - needed
           w == WithRemainder(h, a, needed)
           v == AfterSplit(h, a, needed)
           g == Write(v, a, needed, h[a].prev, FlagUsed, id)
<1> USE HeapAssumption DEF HeaderSize, Alignment, MinPayload, FlagUsed
<1>1. /\ a \in Nat /\ Block(h, a) /\ h[a] \in Header
  BY DEF Chain
<1>2. /\ s \in Nat /\ a < s /\ s < m /\ m <= Limit /\ m \in DOMAIN h \cup {Limit}
      /\ r \in Nat /\ r >= 24 /\ r % 8 = 0 /\ s % 8 = 0 /\ s + r = m /\ s >= Base
      /\ a >= Base /\ a % 8 = 0
  BY <1>1 DEF Block, End, Splits, Header
<1>3. s \notin DOMAIN h
  BY <1>1, <1>2 DEF Chain, Apart
<1>4. WriteOK(s, r)
  BY <1>2 DEF WriteOK
<1>5. /\ DOMAIN w = DOMAIN h \cup {s}
      /\ w[s] = [total |-> r, prev |-> needed, flags |-> 0, id |-> 0]
      /\ \A x \in DOMAIN h : w[x] = h[x]
  BY <1>3 DEF WithRemainder, Write
<1>6. UpdatePrevOK(w, m)
  <2>1. ASSUME m # Limit PROVE HeaderOK(w, m)
    <3>1. m \in DOMAIN h /\ HeaderOK(h, m)
      BY <1>2, <2>1, ChainReaches
    <3>2. m \in DOMAIN w /\ w[m] = h[m]
      BY <3>1, <1>5
    <3>3. QED
      BY <3>1, <3>2 DEF HeaderOK
  <2>2. QED
    BY <2>1 DEF UpdatePrevOK
<1>7. SplitOK(h, a, needed)
  BY <1>4, <1>6 DEF SplitOK
<1>8. DOMAIN v = DOMAIN w /\ v = UpdatePrev(w, m, r)
  BY DEF AfterSplit, UpdatePrev
<1>9. DOMAIN g = DOMAIN h \cup {s}
  BY <1>5, <1>8 DEF Write
<1>10. g[a] = [total |-> needed, prev |-> h[a].prev, flags |-> 1, id |-> id]
  BY <1>9 DEF Write
<1>11. g[s] = [total |-> r, prev |-> needed, flags |-> 0, id |-> 0]
  <2>1. s # a /\ s # m
    BY <1>1, <1>2
  <2>2. v[s] = w[s]
    BY <2>1, <1>5, <1>8 DEF UpdatePrev
  <2>3. QED
    BY <2>1, <2>2, <1>5, <1>8, <1>9 DEF Write
<1>12. ASSUME NEW x \in DOMAIN h, x # a
       PROVE  /\ g[x].total = h[x].total
              /\ g[x].prev = IF x = m THEN r ELSE h[x].prev
              /\ g[x].flags = h[x].flags
              /\ g[x].id = h[x].id
              /\ g[x] \in Header
              /\ x # s /\ x # Limit
  <2>1. h[x] \in Header /\ Block(h, x) /\ x \in Nat
    BY DEF Chain
  <2>2. x # s /\ x # Limit
    BY <2>1, <1>3, <1>12 DEF Block, End
  <2>3. g[x] = v[x]
    BY <1>5, <1>8, <1>12 DEF Write
  <2>4. CASE x = m
    <3>1. v[x] = [h[x] EXCEPT !.prev = r]
      BY <2>2, <2>4, <1>5, <1>8 DEF UpdatePrev
    <3>2. QED
      BY <2>1, <2>2, <2>3, <2>4, <3>1, <1>2 DEF Header
  <2>5. CASE x # m
    <3>1. v[x] = h[x]
      BY <2>2, <2>5, <1>5, <1>8 DEF UpdatePrev
    <3>2. QED
      BY <2>1, <2>2, <2>3, <2>5, <3>1
  <2>6. QED
    BY <2>4, <2>5
<1>13. g = [x \in DOMAIN g |-> g[x]]
  BY DEF Write
<1> HIDE DEF g, w, v
<1>14. ASSUME NEW x \in DOMAIN g PROVE g[x] \in Header
  <2>1. g[a] \in Header /\ g[s] \in Header
    BY <1>1, <1>2, <1>10, <1>11 DEF Header
  <2>2. QED
    BY <2>1, <1>9, <1>12
<1>15. /\ End(g, a) = s /\ End(g, s) = m
       /\ Used(g, a) /\ ~Used(g, s)
       /\ \A x \in DOMAIN h : x # a => /\ End(g, x) = End(h, x)
                                       /\ Used(g, x) <=> Used(h, x)
  BY <1>1, <1>2, <1>10, <1>11, <1>12 DEF End, Used
<1>16. ASSUME NEW x \in DOMAIN g PROVE Block(g, x)
  <2>1. Block(g, a)
    BY <1>1, <1>2, <1>9, <1>10, <1>15 DEF Block
  <2>2. Block(g, s)
    BY <1>1, <1>2, <1>9, <1>11, <1>15 DEF Block
  <2>3. ASSUME x \in DOMAIN h, x # a PROVE Block(g, x)
    <3>1. Block(h, x)
      BY <2>3 DEF Chain
    <3>2. End(g, x) \in DOMAIN g \cup {Limit} /\ End(g, x) <= Limit
      BY <2>3, <3>1, <1>9, <1>15 DEF Block
    <3>3. QED
      BY <2>3, <3>1, <3>2, <1>12 DEF Block
  <2>4. QED
    BY <2>1, <2>2, <2>3, <1>9
<1>17. ASSUME NEW x \in DOMAIN g, NEW y \in DOMAIN g, x < y PROVE End(g, x) <= y
  <2>1. /\ x \in DOMAIN h /\ y \in DOMAIN h => End(h, x) <= y
        /\ x \in DOMAIN h => x \in Nat
        /\ y \in DOMAIN h => y \in Nat
    BY <1>17 DEF Chain, Apart
  <2>2. ASSUME x \in DOMAIN h, y = s, x # a PROVE End(g, x) <= y
    <3>1. x < a => End(h, x) <= a
      BY <2>2 DEF Chain, Apart
    <3>2. a < x => m <= x
      BY <2>2 DEF Chain, Apart
    <3>3. x < a
      BY <3>2, <2>1, <2>2, <1>1, <1>2, <1>17
    <3>4. End(h, x) \in Nat
      BY <2>1, <2>2 DEF Chain, Block, End
    <3>5. QED
      BY <3>1, <3>3, <3>4, <2>2, <1>1, <1>2, <1>15
  <2>3. ASSUME x = s, y \in DOMAIN h PROVE End(g, x) <= y
    <3>1. a < y
      BY <2>1, <2>3, <1>1, <1>2, <1>17
    <3>2. m <= y
      BY <3>1, <2>3 DEF Chain, Apart
    <3>3. QED
      BY <3>2, <2>3, <1>15
  <2>4. ASSUME x = a PROVE End(g, x) <= y
    <3>1. y # s => m <= y
      BY <2>1, <2>4, <1>9
    <3>2. QED
      BY <3>1, <2>1, <2>4, <1>1, <1>2, <1>9, <1>15
  <2>5. ASSUME x \in DOMAIN h, y \in DOMAIN h, x # a PROVE End(g, x) <= y
    BY <2>1, <2>5, <1>15
  <2>6. QED
    BY <2>1, <2>2, <2>3, <2>4, <2>5, <1>2, <1>9, <1>17
<1>18. ASSUME NEW x \in DOMAIN g PROVE Linked(g, x)
  <2>1. ASSUME x = a PROVE Linked(g, x)
    <3>1. Linked(h, a) /\ Left(g, a) = Left(h, a)
      BY <1>10 DEF Chain, Left
    <3>2. CASE a = Base
      BY <2>1, <3>1, <3>2, <1>10 DEF Linked
    <3>3. CASE a # Base
      <4>1. Left(h, a) \in DOMAIN h /\ h[a].prev > 0 /\ h[Left(h, a)].total = h[a].prev
        BY <3>1, <3>3 DEF Linked
      <4>2. Left(h, a) # a
        BY <4>1, <1>1 DEF Left, Header
      <4>3. QED
        BY <2>1, <3>1, <3>3, <4>1, <4>2, <1>9, <1>10, <1>12 DEF Linked
    <3>4. QED
      BY <3>2, <3>3
  <2>2. ASSUME x = s PROVE Linked(g, x)
    <3>1. Left(g, s) = a
      BY <1>1, <1>2, <1>11 DEF Left
    <3>2. QED
      BY <3>1, <2>2, <1>1, <1>2, <1>9, <1>10, <1>11 DEF Linked
  <2>3. ASSUME x \in DOMAIN h, x # a, x = m PROVE Linked(g, x)
    <3>1. Left(g, x) = s
      BY <2>3, <1>1, <1>2, <1>12 DEF Left
    <3>2. QED
      BY <3>1, <2>3, <1>1, <1>2, <1>9, <1>11, <1>12 DEF Linked
  <2>4. ASSUME x \in DOMAIN h, x # a, x # m PROVE Linked(g, x)
    <3>1. Linked(h, x) /\ h[x].prev \in Nat
      BY <2>4 DEF Chain, Header
    <3>2. Left(g, x) = Left(h, x) /\ g[x].prev = h[x].prev
      BY <2>4, <1>12 DEF Left
    <3>3. CASE x = Base
      BY <3>1, <3>2, <3>3 DEF Linked
    <3>4. CASE x # Base
      <4>1. /\ Left(h, x) \in DOMAIN h /\ h[x].prev > 0
            /\ h[Left(h, x)].total = h[x].prev
        BY <3>1, <3>4 DEF Linked
      <4>2. End(h, Left(h, x)) = x
        BY <2>4, <3>1, <4>1, LeftNeighbour
      <4>3. Left(h, x) # a
        BY <2>4, <4>2
      <4>4. QED
        BY <2>4, <3>2, <3>4, <4>1, <4>3, <1>9, <1>12 DEF Linked
    <3>5. QED
      BY <3>3, <3>4
  <2>5. QED
    BY <2>1, <2>2, <2>3, <2>4, <1>9
<1>19. ASSUME NEW x \in DOMAIN g PROVE Marked(g, x)
  <2>1. Marked(g, a) /\ Marked(g, s)
    BY <1>10, <1>11, <1>15 DEF Marked
  <2>2. ASSUME x \in DOMAIN h, x # a PROVE Marked(g, x)
    <3>1. Marked(h, x)
      BY <2>2 DEF Chain
    <3>2. QED
      BY <2>2, <3>1, <1>12, <1>15 DEF Marked
  <2>3. QED
    BY <2>1, <2>2, <1>9
<1>20. Chain(g)
  <2>1. Base \in DOMAIN g /\ DOMAIN g \subseteq Nat
    BY <1>2, <1>9 DEF Chain
  <2>2. g \in [DOMAIN g -> Header]
    BY <1>13, <1>14
  <2>3. QED
    BY <2>1, <2>2, <1>16, <1>17, <1>18, <1>19 DEF Chain, Apart
<1>21. ASSUME NEW x \in DOMAIN g, ~Used(g, x), End(g, x) < Limit PROVE Used(g, End(g, x))
  <2>1. CASE x = s
    <3>1. m < Limit /\ m \in DOMAIN h /\ m # a
      BY <2>1, <1>1, <1>2, <1>15, <1>21
    <3>2. Used(h, m)
      BY <3>1 DEF CoalescedIn
    <3>3. QED
      BY <2>1, <3>1, <3>2, <1>15
  <2>2. CASE x \in DOMAIN h /\ x # a
    <3>1. ~Used(h, x) /\ End(h, x) < Limit /\ End(g, x) = End(h, x)
      BY <2>2, <1>15, <1>21
    <3>2. End(h, x) \in DOMAIN h /\ Used(h, End(h, x))
      BY <2>2, <3>1 DEF CoalescedIn, Chain, Block
    <3>3. QED
      BY <3>1, <3>2, <1>15
  <2>3. QED
    BY <2>1, <2>2, <1>9, <1>15, <1>21
<1>22. QED
  BY <1>7, <1>9, <1>15, <1>20, <1>21 DEF CoalescedIn, g, v

(* The same, for a chain with a name. *)
LEMMA SplitKeeps ==
  ASSUME NEW h, Chain(h), CoalescedIn(h), NEW a \in DOMAIN h, ~Used(h, a),
         NEW needed \in Nat, needed % 8 = 0, needed >= 24, Splits(h, a, needed),
         NEW id \in Nat, id # 0
  PROVE  \A g : g = Write(AfterSplit(h, a, needed), a, needed, h[a].prev, FlagUsed, id)
                 => SplitOK(h, a, needed) /\ Chain(g) /\ CoalescedIn(g)
<1> DEFINE w == Write(AfterSplit(h, a, needed), a, needed, h[a].prev, FlagUsed, id)
<1>1. SplitOK(h, a, needed) /\ Chain(w) /\ CoalescedIn(w)
  <2>1. LET g == Write(AfterSplit(h, a, needed), a, needed, h[a].prev, FlagUsed, id)
        IN /\ SplitOK(h, a, needed)
           /\ Chain(g) /\ CoalescedIn(g)
           /\ DOMAIN g = DOMAIN h \cup {a + needed}
           /\ Used(g, a) /\ End(g, a) = a + needed /\ ~Used(g, a + needed)
           /\ \A x \in DOMAIN h : x # a => /\ Used(g, x) <=> Used(h, x)
                                           /\ End(g, x) = End(h, x)
    BY SplitChain
  <2>2. QED
    BY <2>1
<1> HIDE DEF w
<1>2. QED
  BY <1>1 DEF w

(* Using a free block as it is.                                             *)
LEMMA TakenKeeps ==
  ASSUME NEW h, Chain(h), CoalescedIn(h), NEW a \in DOMAIN h, NEW id \in Nat, id # 0
  PROVE  \A g : g = Write(h, a, h[a].total, h[a].prev, FlagUsed, id)
                => Chain(g) /\ CoalescedIn(g)
<1> DEFINE g == Write(h, a, h[a].total, h[a].prev, FlagUsed, id)
<1>1. /\ Chain(g)
      /\ DOMAIN g = DOMAIN h
      /\ \A x \in DOMAIN h : /\ End(g, x) = End(h, x)
                             /\ Used(g, x) <=> IF x = a THEN FlagUsed = 1 ELSE Used(h, x)
  BY RemarkedChain DEF FlagUsed
<1> HIDE DEF g
<1>2. CoalescedIn(g)
  <2>1. ASSUME NEW x \in DOMAIN g, ~Used(g, x), End(g, x) < Limit PROVE Used(g, End(g, x))
    <3>1. x \in DOMAIN h /\ ~Used(h, x) /\ End(h, x) < Limit
      BY <2>1, <1>1 DEF FlagUsed
    <3>2. End(h, x) \in DOMAIN h /\ Used(h, End(h, x))
      BY <3>1, <1>1, RightNeighbour DEF CoalescedIn
    <3>3. QED
      BY <3>1, <3>2, <1>1 DEF FlagUsed
  <2>2. QED
    BY <2>1 DEF CoalescedIn
<1>3. QED
  BY <1>1, <1>2 DEF g

-----------------------------------------------------------------------------
(* The operations *)

(* What holds of the chains inside a FREE: f after the block is marked free, *)
(* g after the merge to the right, r after the merge to the left.           *)
FreeParts(h, a, f, g, r) ==
  /\ Chain(f) /\ DOMAIN f = DOMAIN h /\ ~Used(f, a)
  /\ \A x \in DOMAIN h : End(f, x) = End(h, x) /\ (Used(f, x) <=> (x # a /\ Used(h, x)))
  /\ NextOK(f, a)
  /\ MergesNext(f, a) => /\ WriteOK(a, f[a].total + f[End(f, a)].total)
                         /\ UpdatePrevOK(Grown(f, a), End(f, End(f, a)))
  /\ Chain(g) /\ a \in DOMAIN g /\ ~Used(g, a)
  /\ SameUse(g, f)
  /\ PrevOK(g, a)
  /\ MergesPrev(g, a) => /\ WriteOK(Left(g, a), g[Left(g, a)].total + g[a].total)
                         /\ UpdatePrevOK(Joined(g, a), End(g, a))
  /\ Chain(r) /\ CoalescedIn(r)
  /\ SameUse(r, g)

(* On a coalesced chain no check of FREE fails, and both merges leave a       *)
(* chain in which no other block has changed hands.                         *)
LEMMA FreedMerges ==
  ASSUME NEW h, Chain(h), CoalescedIn(h), NEW a \in DOMAIN h, Used(h, a)
  PROVE  \A f, g, r : f = Freed(h, a) /\ g = AfterNext(f, a) /\ r = AfterPrev(g, a)
                       => FreeParts(h, a, f, g, r)
<1> DEFINE f == Freed(h, a)
           g == AfterNext(f, a)
           r == AfterPrev(g, a)
<1>1. /\ Chain(f) /\ DOMAIN f = DOMAIN h /\ ~Used(f, a)
      /\ \A x \in DOMAIN h : /\ End(f, x) = End(h, x)
                             /\ Used(f, x) <=> (x # a /\ Used(h, x))
  <2>1. 0 \in {0, 1} /\ 0 \in Nat
    OBVIOUS
  <2>2. LET w == Write(h, a, h[a].total, h[a].prev, 0, 0)
        IN /\ Chain(w)
           /\ DOMAIN w = DOMAIN h
           /\ \A x \in DOMAIN h : /\ End(w, x) = End(h, x)
                                  /\ Used(w, x) <=> IF x = a THEN 0 = 1 ELSE Used(h, x)
    BY <2>1, RemarkedChain
  <2>3. QED
    BY <2>2 DEF Freed
<1> HIDE DEF f
<1>2. \A x \in DOMAIN f : x # a /\ ~Used(f, x) /\ End(f, x) < Limit /\ End(f, x) # a
                         => Used(f, End(f, x))
  <2>1. ASSUME NEW x \in DOMAIN f, x # a, ~Used(f, x), End(f, x) < Limit, End(f, x) # a
        PROVE  Used(f, End(f, x))
    <3>1. ~Used(h, x) /\ End(h, x) = End(f, x)
      BY <2>1, <1>1
    <3>2. End(h, x) \in DOMAIN h /\ Used(h, End(h, x))
      BY <3>1, <2>1, <1>1, RightNeighbour DEF CoalescedIn
    <3>3. QED
      BY <3>1, <3>2, <2>1, <1>1
  <2>2. QED
    BY <2>1
<1>3. /\ NextOK(f, a)
      /\ MergesNext(f, a) => /\ WriteOK(a, f[a].total + f[End(f, a)].total)
                             /\ UpdatePrevOK(Grown(f, a), End(f, End(f, a)))
      /\ Chain(g) /\ a \in DOMAIN g /\ ~Used(g, a)
      /\ CoalescedBut(g, a)
      /\ SameUse(g, f)
  BY <1>1, <1>2, RightMerge
<1> HIDE DEF g
<1>4. /\ PrevOK(g, a)
      /\ MergesPrev(g, a) => /\ WriteOK(Left(g, a), g[Left(g, a)].total + g[a].total)
                             /\ UpdatePrevOK(Joined(g, a), End(g, a))
      /\ Chain(r)
      /\ CoalescedIn(r)
      /\ SameUse(r, g)
  <2>1. LET j == AfterPrev(g, a)
            p == Left(g, a)
        IN /\ PrevOK(g, a)
           /\ MergesPrev(g, a) => /\ WriteOK(p, g[p].total + g[a].total)
                                  /\ UpdatePrevOK(Joined(g, a), End(g, a))
           /\ Chain(j)
           /\ \A x \in DOMAIN j : ~Used(j, x) /\ End(j, x) < Limit => Used(j, End(j, x))
           /\ SameUse(j, g)
    BY <1>3, LeftMerge
  <2>2. QED
    BY <2>1 DEF CoalescedIn
<1> HIDE DEF r
<1>5. FreeParts(h, a, f, g, r)
  BY <1>1, <1>3, <1>4 DEF FreeParts
<1>6. QED
  BY <1>5, Zenon DEF f, g, r

(* FREE of a live block: no check of the code fails, and nothing but that    *)
(* block stops being live.                                                  *)
LEMMA FreeOutcome ==
  ASSUME Chain(hdr), CoalescedIn(hdr), NEW a \in DOMAIN hdr, Used(hdr, a),
         FreeUsed(Freed(hdr, a), a)
  PROVE  /\ lastStatus' = "OK"
         /\ Chain(hdr') /\ CoalescedIn(hdr')
         /\ \A x : /\ (x \in DOMAIN hdr' /\ Used(hdr', x))
                        <=> (x \in DOMAIN hdr /\ Used(hdr, x) /\ x # a)
                   /\ (x \in DOMAIN hdr' /\ Used(hdr', x)) => End(hdr', x) = End(hdr, x)
<1> DEFINE f == Freed(hdr, a)
           g == AfterNext(f, a)
           r == AfterPrev(g, a)
<1>0. FreeParts(hdr, a, f, g, r)
  BY FreedMerges, Zenon
<1>1. FreeLeft(g, a)
  BY <1>0 DEF FreeUsed, FreeParts
<1> HIDE DEF f, g
<1>2. hdr' = r /\ lastStatus' = "OK"
  BY <1>0, <1>1 DEF FreeLeft, FreeParts
<1> HIDE DEF r
<1>3. ASSUME NEW x
      PROVE  /\ (x \in DOMAIN r /\ Used(r, x))
                   <=> (x \in DOMAIN hdr /\ Used(hdr, x) /\ x # a)
             /\ (x \in DOMAIN r /\ Used(r, x)) => End(r, x) = End(hdr, x)
  <2>1. /\ (x \in DOMAIN r /\ Used(r, x)) <=> (x \in DOMAIN g /\ Used(g, x))
        /\ (x \in DOMAIN r /\ Used(r, x)) => End(r, x) = End(g, x)
    <3>1. SameUse(r, g)
      BY <1>0 DEF FreeParts
    <3>2. QED
      BY <3>1, Zenon DEF SameUse
  <2>2. /\ (x \in DOMAIN g /\ Used(g, x)) <=> (x \in DOMAIN f /\ Used(f, x))
        /\ (x \in DOMAIN g /\ Used(g, x)) => End(g, x) = End(f, x)
    <3>1. SameUse(g, f)
      BY <1>0 DEF FreeParts
    <3>2. QED
      BY <3>1, Zenon DEF SameUse
  <2>3. /\ (x \in DOMAIN f /\ Used(f, x)) <=> (x \in DOMAIN hdr /\ Used(hdr, x) /\ x # a)
        /\ x \in DOMAIN f => End(f, x) = End(hdr, x)
    BY <1>0 DEF FreeParts
  <2>4. QED
    BY <2>1, <2>2, <2>3
<1>4. QED
  BY <1>0, <1>2, <1>3 DEF FreeParts

(* A FREE never ends in HEAP_CORRUPT because the walk broke off. *)
LEMMA FreeMissOutcome ==
  ASSUME Chain(hdr), NEW p, FreeMiss(p)
  PROVE  /\ lastStatus' = "INVALID_FREE" /\ hdr' = hdr
         /\ p - HeaderSize \notin DOMAIN hdr
<1>1. Reaches(hdr, Limit)
  BY ChainReaches
<1>2. ASSUME p - HeaderSize \in DOMAIN hdr PROVE FALSE
  <2>1. p - HeaderSize # Limit
    BY <1>2, HeapAssumption DEF Chain, Block, End
  <2>2. Found(p)
    BY <1>2, <2>1, ChainReaches DEF Found
  <2>3. QED
    BY <2>2 DEF FreeMiss
<1>3. QED
  BY <1>1, <1>2 DEF FreeMiss

(* ALLOC takes the first free block that is large enough, whole or split.    *)
LEMMA AllocOutcome ==
  ASSUME Chain(hdr), CoalescedIn(hdr), nextId \in 0 .. IdMod - 1,
         NEW size \in Nat, size # 0, AllocFit(size)
  PROVE  \E a \in DOMAIN hdr :
           LET needed == HeaderSize + AlignUp(size) IN
           /\ FirstFit(hdr, size, a)
           /\ lastStatus' = "OK"
           /\ Chain(hdr') /\ CoalescedIn(hdr')
           /\ a \in DOMAIN hdr' /\ Used(hdr', a)
           /\ End(hdr', a) = IF Splits(hdr, a, needed) THEN a + needed ELSE End(hdr, a)
           /\ \A x : x # a =>
                /\ (x \in DOMAIN hdr' /\ Used(hdr', x)) <=> (x \in DOMAIN hdr /\ Used(hdr, x))
                /\ (x \in DOMAIN hdr' /\ Used(hdr', x)) => End(hdr', x) = End(hdr, x)
<1> DEFINE needed == HeaderSize + AlignUp(size)
<1>1. PICK a \in DOMAIN hdr :
        /\ FirstFit(hdr, size, a)
        /\ IF Splits(hdr, a, needed) THEN AllocSplit(a, needed) ELSE AllocWhole(a)
  BY DEF AllocFit
<1>2. ~Used(hdr, a)
  BY <1>1 DEF FirstFit, Fits
<1>3. needed \in Nat /\ needed % 8 = 0 /\ needed >= 24
  BY AlignUpRounds DEF HeaderSize
<1>4. TakenId \in Nat /\ TakenId # 0
  BY IdsCount
<1> HIDE DEF needed
<1>5. CASE Splits(hdr, a, needed)
  <2> DEFINE g == Write(AfterSplit(hdr, a, needed), a, needed, hdr[a].prev, FlagUsed, TakenId)
             s == a + needed
  <2>1. /\ SplitOK(hdr, a, needed)
        /\ Chain(g) /\ CoalescedIn(g)
        /\ DOMAIN g = DOMAIN hdr \cup {s}
        /\ Used(g, a) /\ End(g, a) = s /\ ~Used(g, s)
        /\ \A x \in DOMAIN hdr : x # a => /\ Used(g, x) <=> Used(hdr, x)
                                          /\ End(g, x) = End(hdr, x)
    <3>1. ASSUME NEW n \in Nat, n % 8 = 0, n >= 24, Splits(hdr, a, n), NEW id \in Nat, id # 0
          PROVE  LET w == Write(AfterSplit(hdr, a, n), a, n, hdr[a].prev, FlagUsed, id)
                 IN /\ SplitOK(hdr, a, n)
                    /\ Chain(w) /\ CoalescedIn(w)
                    /\ DOMAIN w = DOMAIN hdr \cup {a + n}
                    /\ Used(w, a) /\ End(w, a) = a + n /\ ~Used(w, a + n)
                    /\ \A x \in DOMAIN hdr : x # a => /\ Used(w, x) <=> Used(hdr, x)
                                                      /\ End(w, x) = End(hdr, x)
      BY <3>1, <1>2, SplitChain
    <3>2. QED
      BY <3>1, <1>3, <1>4, <1>5
  <2>2. hdr' = g /\ lastStatus' = "OK"
    BY <1>1, <1>5, <2>1 DEF AllocSplit
  <2>3. s \notin DOMAIN hdr
    <3>1. Block(hdr, a) /\ a \in Nat /\ DOMAIN hdr \subseteq Nat
      BY DEF Chain
    <3>2. a < s /\ s < End(hdr, a)
      BY <3>1, <1>3, <1>5 DEF Block, End, Splits, HeaderSize, MinPayload
    <3>3. QED
      BY <3>1, <3>2, <1>3 DEF Chain, Apart, Block, End
  <2> HIDE DEF g
  <2>4. ASSUME NEW x, x # a
        PROVE  /\ (x \in DOMAIN g /\ Used(g, x)) <=> (x \in DOMAIN hdr /\ Used(hdr, x))
               /\ (x \in DOMAIN g /\ Used(g, x)) => End(g, x) = End(hdr, x)
    BY <2>1, <2>3, <2>4
  <2>5. QED
    BY <1>1, <1>5, <2>1, <2>2, <2>4 DEF needed
<1>6. CASE ~Splits(hdr, a, needed)
  <2> DEFINE g == Write(hdr, a, hdr[a].total, hdr[a].prev, FlagUsed, TakenId)
  <2>1. /\ Chain(g)
        /\ DOMAIN g = DOMAIN hdr
        /\ \A x \in DOMAIN hdr : /\ End(g, x) = End(hdr, x)
                                 /\ Used(g, x) <=> IF x = a THEN FlagUsed = 1 ELSE Used(hdr, x)
    BY <1>4, RemarkedChain DEF FlagUsed
  <2>2. hdr' = g /\ lastStatus' = "OK"
    BY <1>1, <1>6 DEF AllocWhole
  <2> HIDE DEF g
  <2>3. CoalescedIn(g)
    BY <1>4, TakenKeeps DEF g
  <2>4. QED
    BY <1>1, <1>6, <2>1, <2>2, <2>3 DEF needed, FlagUsed
<1>7. QED
  BY <1>5, <1>6

(* ALLOC never ends in HEAP_CORRUPT because the walk broke off. *)
LEMMA AllocNeverBreaks ==
  ASSUME Chain(hdr), NEW size
  PROVE  ~AllocCorrupt(size)
<1>1. \A a \in DOMAIN hdr : Reaches(hdr, a) /\ HeaderOK(hdr, a)
  <2>1. \A a \in DOMAIN hdr : a # Limit
    BY HeapAssumption DEF Chain, Block, End
  <2>2. QED
    BY <2>1, ChainReaches
<1>2. Reaches(hdr, Limit)
  BY ChainReaches
<1>3. QED
  BY <1>1, <1>2 DEF AllocCorrupt

(* nova_heap_init leaves one free block, a chain. *)
LEMMA InitChain == Chain(InitHeader) /\ CoalescedIn(InitHeader) /\ ~Used(InitHeader, Base)
<1> DEFINE h == InitHeader
<1>1. DOMAIN h = {Base} /\ h[Base] = [total |-> Arena, prev |-> 0, flags |-> 0, id |-> 0]
  BY DEF InitHeader
<1>2. Arena \in Nat /\ Arena >= 24 /\ Arena % 8 = 0 /\ Base + Arena = Limit
      /\ Base \in Nat /\ Base % 8 = 0 /\ Limit \in Nat
  BY HeapAssumption DEF Arena, HeaderSize, MinPayload, Alignment
<1>3. h[Base] \in Header
  BY <1>1, <1>2 DEF Header
<1>4. h \in [DOMAIN h -> Header]
  BY <1>1, <1>3 DEF InitHeader
<1> HIDE DEF h
<1>5. Block(h, Base) /\ End(h, Base) = Limit
  BY <1>1, <1>2 DEF Block, End
<1>6. Linked(h, Base) /\ Marked(h, Base) /\ ~Used(h, Base)
  BY <1>1 DEF Linked, Marked, Used, FlagUsed
<1>7. Apart(h)
  BY <1>1, <1>2 DEF Apart
<1>8. Chain(h)
  BY <1>1, <1>2, <1>4, <1>5, <1>6, <1>7 DEF Chain
<1>9. CoalescedIn(h)
  BY <1>1, <1>2, <1>5 DEF CoalescedIn
<1>10. QED
  BY <1>6, <1>8, <1>9 DEF h

-----------------------------------------------------------------------------
(* Inductive invariant *)

HInv ==
  /\ Chain(hdr) /\ CoalescedIn(hdr)
  /\ nextId \in 0 .. IdMod - 1
  /\ lastStatus \in Statuses \ {"HEAP_CORRUPT"}

(* The inductive invariant holds initially and gives the checked ones. *)
LEMMA HInvInit == Init => HInv
BY InitChain, HeapAssumption DEF Init, HInv, Statuses

(* It gives the invariants the runs check.                                 *)
LEMMA HInvGives == HInv => IInv
<1> SUFFICES ASSUME HInv PROVE IInv
  OBVIOUS
<1>1. Tiled /\ PrevLinks /\ IdsMarkUse
  BY ChainIsInvariant DEF HInv, Chain
<1>2. Coalesced
  BY DEF HInv, CoalescedIn, Coalesced
<1>3. TypeOK /\ NeverCorrupt
  BY DEF HInv, Chain, TypeOK, NeverCorrupt
<1>4. QED
  BY <1>1, <1>2, <1>3 DEF IInv

(* One step per operation. *)
LEMMA HInvStep == HInv /\ [Next]_vars => HInv'
<1> SUFFICES ASSUME HInv, [Next]_vars PROVE HInv'
  OBVIOUS
<1>0. Chain(hdr) /\ CoalescedIn(hdr) /\ nextId \in 0 .. IdMod - 1
  BY DEF HInv
<1>1. ASSUME NEW size \in Sizes, Alloc(size) PROVE HInv'
  <2>1. size \in Nat
    BY HeapAssumption
  <2>2. CASE UNCHANGED vars
    BY <2>2 DEF HInv, vars
  <2>3. CASE AllocTooBig(size) \/ AllocFull(size)
    BY <2>3 DEF HInv, AllocTooBig, AllocFull, Statuses
  <2>4. CASE size # 0 /\ AllocFit(size)
    <3>1. lastStatus' = "OK" /\ Chain(hdr') /\ CoalescedIn(hdr')
      BY <1>0, <2>1, <2>4, AllocOutcome
    <3>2. nextId' \in 0 .. IdMod - 1
      BY <1>0, <2>4, IdsCount DEF AllocFit
    <3>3. QED
      BY <3>1, <3>2 DEF HInv, Statuses
  <2>5. QED
    BY <1>0, <1>1, <2>2, <2>3, <2>4, AllocNeverBreaks DEF Alloc
<1>2. ASSUME NEW p \in FreeAddresses, Free(p) PROVE HInv'
  <2>1. nextId' = nextId
    BY <1>2 DEF Free
  <2>2. CASE FreeMiss(p)
    BY <1>0, <2>1, <2>2, FreeMissOutcome DEF HInv, Statuses
  <2>3. CASE FreeUnused(p)
    BY <2>1, <2>3 DEF HInv, FreeUnused, Statuses
  <2>4. CASE /\ Found(p) /\ Used(hdr, p - HeaderSize)
             /\ FreeUsed(Freed(hdr, p - HeaderSize), p - HeaderSize)
    <3>1. p - HeaderSize \in DOMAIN hdr
      BY <2>4 DEF Found
    <3>2. lastStatus' = "OK" /\ Chain(hdr') /\ CoalescedIn(hdr')
      BY <1>0, <2>4, <3>1, FreeOutcome
    <3>3. QED
      BY <1>0, <2>1, <3>2 DEF HInv, Statuses
  <2>5. QED
    BY <1>2, <2>2, <2>3, <2>4 DEF Free
<1>3. CASE Reset
  BY <1>3, InitChain, HeapAssumption DEF Reset, HInv, Statuses
<1>4. CASE UNCHANGED vars
  BY <1>4 DEF HInv, vars
<1>5. QED
  BY <1>1, <1>2, <1>3, <1>4 DEF Next

(* Every reachable heap is a coalesced chain of well-formed blocks, and no   *)
(* operation ever reports HEAP_CORRUPT: nova_vm_heap_alloc and              *)
(* nova_vm_heap_free cannot break their own headers.                        *)
THEOREM HeapInvariant == Spec => []IInv
<1>1. Spec => []HInv
  BY HInvInit, HInvStep, PTL DEF Spec
<1>2. QED
  BY <1>1, HInvGives, PTL

(* The blocks tile the arena after every operation: the walks of ALLOC,     *)
(* FREE, the statistics and the block list end exactly at the limit.        *)
THEOREM BlocksTile == Spec => []Tiled
BY HeapInvariant, PTL DEF IInv

(* Every prev_size names the left neighbour, after any splits and merges.   *)
THEOREM LinksNameNeighbours == Spec => []PrevLinks
BY HeapInvariant, PTL DEF IInv

(* No two free blocks are neighbours, whatever the order of the frees.      *)
THEOREM FreesCoalesce == Spec => []Coalesced
BY HeapInvariant, PTL DEF IInv

(* In particular HEAP_CORRUPT is never reported. *)
THEOREM NoSelfCorruption == Spec => []NeverCorrupt
BY HeapInvariant, PTL DEF IInv

-----------------------------------------------------------------------------
(* Refinement *)

(* The holes of the abstract allocator are the free blocks of the chain:     *)
(* coalescing has left no hole in two pieces.                               *)
LEMMA HolesAreFreeBlocks ==
  ASSUME Chain(hdr), CoalescedIn(hdr), NEW s, NEW e
  PROVE  Abstract!Hole(s, e) <=> s \in DOMAIN hdr /\ ~Used(hdr, s) /\ e = End(hdr, s)
<1>1. /\ DOMAIN Live = {x \in DOMAIN hdr : Used(hdr, x)}
      /\ \A x \in DOMAIN Live : Live[x] = End(hdr, x)
  BY DEF Live
<1>2. ASSUME NEW x \in DOMAIN hdr
      PROVE  /\ x \in Nat /\ End(hdr, x) \in Nat /\ x < End(hdr, x)
             /\ End(hdr, x) <= Limit /\ End(hdr, x) \in DOMAIN hdr \cup {Limit}
             /\ Base <= x /\ x < Limit
  <2>1. Block(hdr, x) /\ x \in Nat
    BY DEF Chain
  <2>2. QED
    BY <2>1, HeapAssumption DEF Block, End
<1>3. ASSUME NEW x \in DOMAIN hdr, NEW y \in DOMAIN hdr, x < y PROVE End(hdr, x) <= y
  BY <1>3 DEF Chain, Apart
<1>4. ASSUME s \in DOMAIN hdr, ~Used(hdr, s), e = End(hdr, s) PROVE Abstract!Hole(s, e)
  <2>1. s < e
    BY <1>2, <1>4
  <2>2. s = Base \/ \E x \in DOMAIN Live : Live[x] = s
    <3>1. CASE s # Base
      <4>1. hdr[s].prev # 0
        BY <1>4, <3>1 DEF Chain, Linked, Header
      <4>2. /\ Left(hdr, s) \in DOMAIN hdr /\ End(hdr, Left(hdr, s)) = s
        BY <1>4, <4>1, LeftNeighbour
      <4>3. Used(hdr, Left(hdr, s))
        BY <1>2, <1>4, <4>2 DEF CoalescedIn
      <4>4. QED
        BY <1>1, <4>2, <4>3
    <3>2. QED
      BY <3>1
  <2>3. e = Limit \/ e \in DOMAIN Live
    BY <1>1, <1>2, <1>4, HeapAssumption DEF CoalescedIn
  <2>4. ASSUME NEW x \in DOMAIN Live PROVE x < s \/ e <= x
    <3>1. x \in DOMAIN hdr /\ x # s
      BY <1>1, <1>4
    <3>2. s < x => e <= x
      BY <1>3, <1>4, <3>1
    <3>3. QED
      BY <3>1, <3>2, <1>2, <1>4
  <2>5. QED
    BY <2>1, <2>2, <2>3, <2>4 DEF Abstract!Hole
<1>5. ASSUME Abstract!Hole(s, e)
      PROVE  s \in DOMAIN hdr /\ ~Used(hdr, s) /\ e = End(hdr, s)
  <2>1. /\ s < e
        /\ s = Base \/ \E x \in DOMAIN Live : Live[x] = s
        /\ e = Limit \/ e \in DOMAIN Live
        /\ \A x \in DOMAIN Live : x < s \/ e <= x
    BY <1>5 DEF Abstract!Hole
  <2>2. e \in Nat /\ e <= Limit
    BY <2>1, <1>1, <1>2, HeapAssumption
  <2>3. s \in DOMAIN hdr
    <3>1. CASE s = Base
      BY <3>1 DEF Chain
    <3>2. CASE \E x \in DOMAIN Live : Live[x] = s
      BY <3>2, <2>1, <2>2, <1>1, <1>2, HeapAssumption
    <3>3. QED
      BY <2>1, <3>1, <3>2
  <2>4. ~Used(hdr, s)
    BY <2>1, <2>2, <2>3, <1>1, <1>2
  <2>5. End(hdr, s) = Limit \/ End(hdr, s) \in DOMAIN Live
    BY <2>3, <2>4, <1>1, <1>2, HeapAssumption DEF CoalescedIn
  <2>6. End(hdr, s) <= e
    <3>1. e \in DOMAIN Live => e \in DOMAIN hdr
      BY <1>1
    <3>2. QED
      BY <3>1, <2>1, <2>2, <2>3, <1>2, <1>3
  <2>7. e <= End(hdr, s)
    BY <2>1, <2>2, <2>3, <2>5, <1>2
  <2>8. QED
    BY <2>2, <2>3, <2>4, <2>6, <2>7, <1>2
<1>6. QED
  BY <1>4, <1>5

(* A free block that fits a request is a hole that serves it.                *)
LEMMA FitsIsServes ==
  ASSUME Chain(hdr), CoalescedIn(hdr), NEW size \in Nat, size # 0, NEW s, NEW e
  PROVE  Abstract!Serves(s, e, size)
           <=> s \in DOMAIN hdr /\ Fits(hdr, size, s) /\ e = End(hdr, s)
<1>1. ASSUME s \in DOMAIN hdr, e = End(hdr, s)
      PROVE  e - s >= Abstract!Needed(size) <=> hdr[s].total - HeaderSize >= AlignUp(size)
  <2>1. s \in Nat /\ hdr[s].total \in Nat
    BY <1>1 DEF Chain, Block
  <2>2. AlignUp(size) \in Nat
    BY AlignUpRounds
  <2>3. Abstract!Needed(size) = HeaderSize + AlignUp(size)
    BY DEF Abstract!Needed, Abstract!AlignUp, AlignUp
  <2>4. QED
    BY <1>1, <2>1, <2>2, <2>3 DEF End, HeaderSize
<1>2. QED
  BY <1>1, HolesAreFreeBlocks DEF Abstract!Serves, Fits

(* Starts and ends of the abstract allocator include those of free blocks. *)
LEMMA FreeBlockEnds ==
  ASSUME Chain(hdr), CoalescedIn(hdr), NEW a \in DOMAIN hdr, ~Used(hdr, a)
  PROVE  a \in Abstract!Starts /\ End(hdr, a) \in Abstract!Ends
<1>1. Abstract!Hole(a, End(hdr, a))
  BY HolesAreFreeBlocks
<1>2. QED
  BY <1>1 DEF Abstract!Hole, Abstract!Starts, Abstract!Ends

(* ALLOC is Alloc or OutOfMemory of the abstract allocator.                *)
LEMMA AllocRefines ==
  ASSUME HInv, NEW size \in Nat, size # 0, size <= MaxRequest, AllocFit(size)
  PROVE  Abstract!Alloc(size)
<1> USE DEF HInv
<1> DEFINE needed == HeaderSize + AlignUp(size)
<1>1. PICK a \in DOMAIN hdr :
           /\ FirstFit(hdr, size, a)
           /\ lastStatus' = "OK"
           /\ Chain(hdr') /\ CoalescedIn(hdr')
           /\ a \in DOMAIN hdr' /\ Used(hdr', a)
           /\ End(hdr', a) = IF Splits(hdr, a, needed) THEN a + needed ELSE End(hdr, a)
           /\ \A x : x # a =>
                /\ (x \in DOMAIN hdr' /\ Used(hdr', x)) <=> (x \in DOMAIN hdr /\ Used(hdr, x))
                /\ (x \in DOMAIN hdr' /\ Used(hdr', x)) => End(hdr', x) = End(hdr, x)
  BY AllocOutcome
<1> DEFINE e == End(hdr, a)
<1>2. /\ Abstract!Serves(a, e, size) /\ a \in Abstract!Starts /\ e \in Abstract!Ends
  <2>1. Fits(hdr, size, a)
    BY <1>1 DEF FirstFit
  <2>2. QED
    BY <2>1, FitsIsServes, FreeBlockEnds DEF Fits
<1>3. ASSUME NEW s2 \in Abstract!Starts, NEW e2 \in Abstract!Ends, Abstract!Serves(s2, e2, size)
      PROVE  a <= s2
  BY <1>1, <1>3, FitsIsServes DEF FirstFit
<1>4. Abstract!Taken(a, e, size) = End(hdr', a)
  <2>1. Abstract!Needed(size) = needed
    BY DEF Abstract!Needed, Abstract!AlignUp, AlignUp
  <2>2. e - a = hdr[a].total
    BY DEF Chain, Block, End
  <2>3. QED
    BY <1>1, <2>1, <2>2 DEF Abstract!Taken, Splits
<1>5. Live' = [x \in DOMAIN Live \cup {a} |-> IF x = a THEN Abstract!Taken(a, e, size) ELSE Live[x]]
  <2>1. DOMAIN Live = {x \in DOMAIN hdr : Used(hdr, x)}
    BY DEF Live
  <2>2. {x \in DOMAIN hdr' : Used(hdr', x)} = DOMAIN Live \cup {a}
    BY <1>1, <2>1
  <2>3. Live' = [x \in {y \in DOMAIN hdr' : Used(hdr', y)} |-> End(hdr', x)]
    BY DEF Live, Used, End
  <2>4. \A x \in DOMAIN Live : x # a => Live[x] = End(hdr', x)
    BY <1>1, <2>1 DEF Live
  <2>5. QED
    BY <1>4, <2>2, <2>3, <2>4
<1>6. QED
  <2>1. size # 0 /\ size <= Abstract!MaxRequest
    BY DEF Abstract!MaxRequest, MaxRequest, Arena
  <2>2. QED
    BY <1>1, <1>2, <1>3, <1>5, <2>1 DEF Abstract!Alloc

(* FREE is its Free or InvalidFree.                                        *)
LEMMA FreeRefines ==
  ASSUME HInv, NEW p, Free(p)
  PROVE  Abstract!Free(p) \/ Abstract!InvalidFree(p)
<1> USE DEF HInv
<1> DEFINE a == p - HeaderSize
<1>1. DOMAIN Live = {x \in DOMAIN hdr : Used(hdr, x)}
  BY DEF Live
<1>2. CASE FreeMiss(p)
  <2>1. lastStatus' = "INVALID_FREE" /\ hdr' = hdr /\ a \notin DOMAIN hdr
    BY <1>2, FreeMissOutcome
  <2>2. Live' = Live
    BY <2>1 DEF Live, Used, End
  <2>3. QED
    BY <1>1, <2>1, <2>2 DEF Abstract!InvalidFree
<1>3. CASE FreeUnused(p)
  <2>1. lastStatus' = "INVALID_FREE" /\ hdr' = hdr /\ ~Used(hdr, a)
    BY <1>3 DEF FreeUnused
  <2>2. Live' = Live
    BY <2>1 DEF Live, Used, End
  <2>3. QED
    BY <1>1, <2>1, <2>2 DEF Abstract!InvalidFree
<1>4. CASE Found(p) /\ Used(hdr, a) /\ FreeUsed(Freed(hdr, a), a)
  <2>1. a \in DOMAIN hdr /\ Used(hdr, a)
    BY <1>4 DEF Found
  <2> HIDE DEF a
  <2>2. /\ lastStatus' = "OK"
        /\ \A x : /\ (x \in DOMAIN hdr' /\ Used(hdr', x))
                       <=> (x \in DOMAIN hdr /\ Used(hdr, x) /\ x # a)
                  /\ (x \in DOMAIN hdr' /\ Used(hdr', x)) => End(hdr', x) = End(hdr, x)
    BY <1>4, <2>1, FreeOutcome
  <2>3. Live' = [x \in {y \in DOMAIN hdr' : Used(hdr', y)} |-> End(hdr', x)]
    BY DEF Live, Used, End
  <2>4. {x \in DOMAIN hdr' : Used(hdr', x)} = DOMAIN Live \ {a}
    BY <1>1, <2>2
  <2>5. \A x \in DOMAIN Live \ {a} : Live[x] = End(hdr', x)
    BY <1>1, <2>2 DEF Live
  <2>6. Live' = [x \in DOMAIN Live \ {a} |-> Live[x]]
    BY <2>3, <2>4, <2>5
  <2>7. a \in DOMAIN Live
    BY <1>1, <2>1
  <2>8. QED
    BY <2>2, <2>6, <2>7 DEF Abstract!Free, a
<1>5. QED
  BY <1>2, <1>3, <1>4 DEF Free

(* The header chain implements the abstract allocator: a request is served   *)
(* from the lowest hole and refused only when no hole is large enough, and  *)
(* a free returns exactly its own allocation, for every arena, every         *)
(* request and every argument of FREE.                                      *)
THEOREM ImplementsAllocator == Spec => AbstractSpec
<1>1. Init => Abstract!Init
  <2> SUFFICES ASSUME Init PROVE Abstract!Init
    OBVIOUS
  <2>1. {x \in DOMAIN hdr : Used(hdr, x)} = {}
    <3>1. DOMAIN InitHeader = {Base}
      BY DEF InitHeader
    <3>2. QED
      BY <3>1, InitChain DEF Init
  <2>2. Live = [x \in {} |-> 0]
    BY <2>1 DEF Live
  <2>3. QED
    BY <2>2 DEF Init, Abstract!Init
<1>2. HInv /\ [Next]_vars => [Abstract!Next]_(Abstract!vars)
  <2> SUFFICES ASSUME HInv, [Next]_vars PROVE [Abstract!Next]_(Abstract!vars)
    OBVIOUS
  <2>1. ASSUME UNCHANGED vars PROVE UNCHANGED Abstract!vars
    BY <2>1 DEF vars, Abstract!vars, Live, Used, End
  <2>2. ASSUME NEW size \in Sizes, Alloc(size) PROVE [Abstract!Next]_(Abstract!vars)
    <3>1. size \in Nat
      BY HeapAssumption
    <3>2. CASE UNCHANGED vars
      BY <2>1, <3>2
    <3>3. CASE AllocTooBig(size)
      <4>1. hdr' = hdr /\ lastStatus' = "OUT_OF_MEMORY" /\ size > MaxRequest
        BY <3>3 DEF AllocTooBig
      <4>2. Live' = Live
        BY <4>1 DEF Live, Used, End
      <4>3. Abstract!OutOfMemory(size)
        BY <4>1, <4>2 DEF Abstract!OutOfMemory, Abstract!MaxRequest, MaxRequest, Arena
      <4>4. QED
        BY <4>3 DEF Abstract!Next
    <3>4. CASE size # 0 /\ size <= MaxRequest /\ AllocFull(size)
      <4>1. /\ hdr' = hdr /\ lastStatus' = "OUT_OF_MEMORY"
            /\ \A a \in DOMAIN hdr : ~Fits(hdr, size, a)
        BY <3>4 DEF AllocFull
      <4>2. Live' = Live
        BY <4>1 DEF Live, Used, End
      <4>3. \A s \in Abstract!Starts, e \in Abstract!Ends : ~Abstract!Serves(s, e, size)
        BY <3>1, <3>4, <4>1, FitsIsServes DEF HInv
      <4>4. Abstract!OutOfMemory(size)
        BY <4>1, <4>2, <4>3 DEF Abstract!OutOfMemory
      <4>5. QED
        BY <4>4 DEF Abstract!Next
    <3>5. CASE size # 0 /\ size <= MaxRequest /\ AllocFit(size)
      <4>1. Abstract!Alloc(size)
        BY <3>1, <3>5, AllocRefines
      <4>2. QED
        BY <4>1 DEF Abstract!Next
    <3>6. QED
      BY <2>2, <3>2, <3>3, <3>4, <3>5, AllocNeverBreaks DEF Alloc, HInv
  <2>3. ASSUME NEW p \in FreeAddresses, Free(p) PROVE [Abstract!Next]_(Abstract!vars)
    BY <2>3, FreeRefines DEF Abstract!Next
  <2>4. CASE Reset
    <3>1. {x \in DOMAIN hdr' : Used(hdr', x)} = {}
      <4>1. DOMAIN InitHeader = {Base}
        BY DEF InitHeader
      <4>2. QED
        BY <4>1, <2>4, InitChain DEF Reset
    <3>2. Live' = [x \in {y \in DOMAIN hdr' : Used(hdr', y)} |-> End(hdr', x)]
      BY DEF Live, Used, End
    <3>3. Live' = [x \in {} |-> 0]
      BY <3>1, <3>2
    <3>4. QED
      BY <2>4, <3>3 DEF Reset, Abstract!Next, Abstract!Reset
  <2>5. QED
    BY <2>1, <2>2, <2>3, <2>4 DEF Next
<1>3. Spec => []HInv
  BY HInvInit, HInvStep, PTL DEF Spec
<1>4. QED
  BY <1>1, <1>2, <1>3, PTL DEF Spec, AbstractSpec, Abstract!Spec
=============================================================================
