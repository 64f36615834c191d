------------------------ MODULE NovaHeapWordsProofs ------------------------
(***************************************************************************)
(* Proofs about NovaHeapWords, for every arena, request and word a guest     *)
(* stores.  They go in two parts.  Whatever lies in memory, a header that    *)
(* is read or written fits the arena (WordsInv): ALLOC and FREE cannot       *)
(* leave it.  And while the guest keeps to its payloads the words Hold a     *)
(* well-formed chain of NovaHeap (TameInv): the walk visits its headers and  *)
(* nothing else (ChainSeen), and each operation writes the words that hold   *)
(* the chain NovaHeap makes of it.  That such a chain is well formed again   *)
(* is what the lemmas of NovaHeapProofs say, cited here of the headers the   *)
(* walk finds in mem.                                                        *)
(***************************************************************************)
EXTENDS NovaHeapWords, FiniteSetTheorems, WellFoundedInduction, TLAPS

H == INSTANCE NovaHeapProofs WITH hdr <- ChainHeaders


-----------------------------------------------------------------------------
(* Addresses and cells *)

\* Where a walk may come to.
Addresses == {a \in Base .. Limit : a % Alignment = 0}

\* A memory of words; an address at which a header fits.
MemOK(m) == m \in [Cells -> Nat]
HeaderAt(a) == a \in Addresses /\ a <= Limit - HeaderSize

LEMMA Assumed == H!HeapAssumption
BY WordsAssumption DEF H!HeapAssumption, H!Arena, H!HeaderSize, H!MinPayload, H!Alignment,
                       HeaderSize, MinPayload, Alignment

LEMMA Ends ==
  /\ Base \in Addresses /\ Limit \in Addresses
  /\ Base \in Nat /\ Limit \in Nat /\ Base + 24 <= Limit /\ Base >= 16
BY WordsAssumption DEF Addresses, Alignment, HeaderSize, MinPayload, Margin

LEMMA HeaderCells ==
  ASSUME NEW a, HeaderAt(a)
  PROVE  /\ a \in Nat /\ a >= Base /\ a + 16 <= Limit /\ a % 8 = 0
         /\ a \in Cells /\ a + 4 \in Cells /\ a + 8 \in Cells /\ a + 12 \in Cells
<1>1. /\ a \in Nat /\ a >= Base /\ a + 16 <= Limit /\ a % 8 = 0 /\ Base \in Nat /\ Limit \in Nat
  BY Ends DEF HeaderAt, Addresses, HeaderSize, Alignment
<1>2. a % 4 = 0 /\ (a + 4) % 4 = 0 /\ (a + 8) % 4 = 0 /\ (a + 12) % 4 = 0  BY <1>1
<1> QED BY <1>1, <1>2 DEF Cells, Margin, Word

(* The words of a header lie in one cell each.                               *)
LEMMA HeaderRead ==
  ASSUME NEW m, NEW a \in Addresses
  PROVE  /\ ReadWord(m, a) = m[a] /\ ReadWord(m, a + 4) = m[a + 4]
         /\ ReadWord(m, a + 8) = m[a + 8] /\ ReadWord(m, a + 12) = m[a + 12]
         /\ Total(m, a) = m[a] /\ Prev(m, a) = m[a + 4]
         /\ Used(m, a) <=> m[a + 8] = 1
<1>1. a \in Nat /\ a % 8 = 0  BY Ends DEF Addresses, Alignment
<1>2. a % 4 = 0 /\ (a + 4) % 4 = 0 /\ (a + 8) % 4 = 0 /\ (a + 12) % 4 = 0  BY <1>1
<1> QED BY <1>2 DEF ReadWord, Total, Prev, Used, FlagUsed, Word

LEMMA Onward ==
  ASSUME NEW a \in Addresses, NEW t \in Nat, t % 8 = 0, t <= Limit - a
  PROVE  a + t \in Addresses /\ a + t >= a
<1>1. a \in Nat /\ a % 8 = 0 /\ a >= Base /\ Limit \in Nat /\ Base \in Nat  BY Ends DEF Addresses, Alignment
<1>2. (a + t) % 8 = 0  BY <1>1
<1> QED BY <1>1, <1>2 DEF Addresses, Alignment

LEMMA Readable ==
  ASSUME NEW m, MemOK(m), NEW a \in Addresses, ReadOK(m, a)
  PROVE  /\ HeaderAt(a)
         /\ Total(m, a) \in Nat /\ Total(m, a) % 8 = 0 /\ Total(m, a) >= 16
         /\ a + Total(m, a) \in Addresses /\ a + Total(m, a) > a
         /\ Prev(m, a) \in Nat
<1>1. HeaderAt(a)  BY DEF ReadOK, HeaderAt
<1>2. a \in Cells /\ a + 4 \in Cells /\ a \in Nat  BY <1>1, HeaderCells
<1>3. m[a] \in Nat /\ m[a + 4] \in Nat  BY <1>2 DEF MemOK
<1>4. m[a] % 8 = 0 /\ m[a] >= 16 /\ m[a] <= Limit - a
  BY HeaderRead DEF ReadOK, HeaderSize, Alignment
<1>5. a + m[a] \in Addresses  BY <1>3, <1>4, Onward
<1> QED BY <1>1, <1>2, <1>3, <1>4, <1>5, HeaderRead

(* What holds of an address when it holds of all higher ones holds of all.   *)
LEMMA FromTop ==
  ASSUME NEW T,
         \A a \in Addresses : (\A b \in Addresses : b > a => b \in T) => a \in T
  PROVE  Addresses \subseteq T
<1> DEFINE U == {Limit - a : a \in Addresses \ T}
<1> SUFFICES ASSUME NEW z \in Addresses \ T PROVE FALSE  OBVIOUS
<1>1. Limit \in Nat /\ \A a \in Addresses : a \in Nat /\ a <= Limit  BY Ends DEF Addresses
<1>2. U \subseteq Nat /\ U # {}  BY <1>1
<1> HIDE DEF U
<1>3. \E u \in U : \A v \in U : ~(<<v, u>> \in OpToRel(<, Nat))
  BY <1>2, WFMin, NatLessThanWellFounded, Zenon
<1>4. PICK u \in U : \A v \in U : ~(<<v, u>> \in OpToRel(<, Nat))  BY <1>3
<1>5. \A v \in U : ~(v < u)  BY <1>2, <1>4, Zenon DEF OpToRel
<1>6. PICK a \in Addresses \ T : u = Limit - a  BY <1>4 DEF U
<1>7. ASSUME NEW b \in Addresses, b > a PROVE b \in T
  <2>1. b \notin T => Limit - b \in U  BY DEF U
  <2>2. Limit - b < u  BY <1>1, <1>6, <1>7
  <2> QED BY <1>5, <2>1, <2>2
<1> QED BY <1>6, <1>7

-----------------------------------------------------------------------------
(* The walk *)

\* What the definition of Walk says, provided there is such a function.
From(m, f, a) ==
  IF a >= Limit THEN {}
  ELSE {a} \cup (IF ReadOK(m, a) THEN f[a + Total(m, a)] ELSE {})

Closed(m, S) == S \subseteq Addresses /\ \A x \in S : ReadOK(m, x) => x + Total(m, x) \in S
Reach(m, a) == {b \in Addresses \ {Limit} : \A S : Closed(m, S) /\ a \in S => b \in S}

LEMMA ReachIs ==
  ASSUME NEW m, MemOK(m), NEW a \in Addresses
  PROVE  Reach(m, a) = IF a = Limit THEN {}
                       ELSE {a} \cup (IF ReadOK(m, a) THEN Reach(m, a + Total(m, a)) ELSE {})
<1> DEFINE n == a + Total(m, a)
<1>1. ~ReadOK(m, Limit)  BY Ends DEF ReadOK, HeaderSize
<1>2. CASE ~ReadOK(m, a)
  <2>1. Closed(m, {a})  BY <1>2 DEF Closed
  <2>2. Reach(m, a) \subseteq {a} \ {Limit}  BY <2>1 DEF Reach
  <2>3. a # Limit => a \in Reach(m, a)  BY DEF Reach
  <2> QED BY <1>2, <2>2, <2>3
<1>3. CASE ReadOK(m, a)
  <2>1. a # Limit /\ n \in Addresses  BY <1>1, <1>3, Readable
  <2> HIDE DEF n
  <2>2. ASSUME NEW b \in Reach(m, a), b # a PROVE b \in Reach(m, n)
    <3>1. ASSUME NEW S, Closed(m, S), n \in S PROVE b \in S
      <4>1. Closed(m, S \cup {a})  BY <2>1, <3>1 DEF Closed, n
      <4> QED BY <2>2, <4>1 DEF Reach
    <3> QED BY <2>2, <3>1 DEF Reach
  <2>3. ASSUME NEW b \in Reach(m, n) PROVE b \in Reach(m, a)
    <3>1. ASSUME NEW S, Closed(m, S), a \in S PROVE b \in S
      <4>1. n \in S  BY <1>3, <3>1 DEF Closed, n
      <4> QED BY <2>3, <3>1, <4>1 DEF Reach
    <3> QED BY <2>3, <3>1 DEF Reach
  <2>4. a \in Reach(m, a)  BY <2>1 DEF Reach
  <2>5. Reach(m, a) = {a} \cup Reach(m, n)  BY <2>2, <2>3, <2>4
  <2> QED BY <1>3, <2>1, <2>5 DEF n
<1> QED BY <1>2, <1>3

LEMMA WalkIs ==
  ASSUME NEW m, MemOK(m)
  PROVE  \A a \in Addresses : Walk(m)[a] = From(m, Walk(m), a)
<1> DEFINE r == [a \in Aligned |-> IF a \in Addresses THEN Reach(m, a)
                                   ELSE IF a >= Limit THEN {} ELSE {a}]
<1>0. /\ \A a \in Aligned : a \in Nat /\ (a \in Addresses <=> a >= Base /\ a <= Limit)
      /\ Addresses \subseteq Aligned
  BY Ends DEF Aligned, Addresses
<1>1. r = [a \in Aligned |-> From(m, r, a)]
  <2>1. ASSUME NEW a \in Addresses PROVE r[a] = From(m, r, a)
    <3>1. ReadOK(m, a) => r[a + Total(m, a)] = Reach(m, a + Total(m, a))  BY <1>0, Readable
    <3>2. a >= Limit <=> a = Limit  BY Ends DEF Addresses
    <3>3. r[a] = Reach(m, a)  BY <1>0
    <3> HIDE DEF r
    <3> QED BY <3>1, <3>2, <3>3, ReachIs DEF From
  <2>2. ASSUME NEW a \in Aligned \ Addresses PROVE r[a] = From(m, r, a)
    <3>1. CASE a >= Limit  BY <3>1 DEF From
    <3>2. CASE ~(a >= Limit)
      <4>1. ~ReadOK(m, a)  BY <1>0, <2>2, <3>2, Ends DEF ReadOK
      <4> QED BY <3>2, <4>1 DEF From
    <3> QED BY <3>1, <3>2
  <2>3. \A a \in Aligned : r[a] = From(m, r, a)  BY <2>1, <2>2
  <2> QED BY <2>3
<1> HIDE DEF r
<1>2. Walk(m) = [a \in Aligned |-> From(m, Walk(m), a)]
  BY <1>1, Zenon DEF Walk, From
<1> DEFINE w == Walk(m)
<1> HIDE DEF w
<1>3. w = [a \in Aligned |-> From(m, w, a)]  BY <1>2 DEF w
<1>4. \A a \in Addresses : w[a] = From(m, w, a)  BY <1>0, <1>3
<1> QED BY <1>4 DEF w

LEMMA VisitedTyped ==
  ASSUME NEW m, MemOK(m)
  PROVE  Visited(m) \subseteq Addresses \ {Limit}
<1> DEFINE w == Walk(m)
           T == {a \in Addresses : w[a] \subseteq Addresses \ {Limit}}
<1>1. ASSUME NEW a \in Addresses, \A b \in Addresses : b > a => b \in T
      PROVE  a \in T
  <2>1. w[a] = From(m, w, a)  BY WalkIs
  <2>2. ReadOK(m, a) => a + Total(m, a) \in Addresses /\ a + Total(m, a) > a  BY Readable
  <2>3. ReadOK(m, a) => w[a + Total(m, a)] \subseteq Addresses \ {Limit}  BY <1>1, <2>2
  <2>4. a >= Limit <=> a = Limit  BY Ends DEF Addresses
  <2> QED BY <2>1, <2>3, <2>4 DEF From
<1>2. Addresses \subseteq T
  <2> HIDE DEF T
  <2> QED BY <1>1, FromTop
<1> QED BY <1>2, Ends DEF Visited

-----------------------------------------------------------------------------
(* Writes stay inside the arena *)

\* m2 is m with that header written at a.
Wrote(m2, m, a, total, prev, flags, id) ==
  /\ MemOK(m2)
  /\ m2[a] = total /\ m2[a + 4] = prev /\ m2[a + 8] = flags /\ m2[a + 12] = id
  /\ \A c \in Cells : c \notin {a, a + 4, a + 8, a + 12} => m2[c] = m[c]

LEMMA HeaderWritten ==
  ASSUME NEW m, MemOK(m), NEW a, HeaderAt(a),
         NEW total \in Nat, NEW prev \in Nat, NEW flags \in Nat, NEW id \in Nat,
         NEW m2, m2 = WriteHeader(m, a, total, prev, flags, id)
  PROVE  Wrote(m2, m, a, total, prev, flags, id)
<1>1. /\ a \in Nat /\ a \in Cells /\ a + 4 \in Cells /\ a + 8 \in Cells /\ a + 12 \in Cells
  BY HeaderCells
<1>2. PICK w1, w2, w3 : w1 = [m EXCEPT ![a] = total] /\ w2 = [w1 EXCEPT ![a + 4] = prev]
                        /\ w3 = [w2 EXCEPT ![a + 8] = flags]
  OBVIOUS
<1>3. m2 = [w3 EXCEPT ![a + 12] = id]  BY <1>2 DEF WriteHeader
<1>4. w1 \in [Cells -> Nat] /\ w2 \in [Cells -> Nat] /\ w3 \in [Cells -> Nat]
      /\ m2 \in [Cells -> Nat]
  BY <1>1, <1>2, <1>3 DEF MemOK
<1> QED BY <1>1, <1>2, <1>3, <1>4 DEF Wrote, MemOK

(* What an operation may do to memory outside the arena: nothing.            *)
Stays(m, m2) ==
  /\ MemOK(m2)
  /\ \A c \in Cells : c < Base \/ c >= Limit => m2[c] = m[c]

LEMMA StaysOn ==
  ASSUME NEW m, NEW m1, NEW m2, Stays(m, m1), Stays(m1, m2)
  PROVE  Stays(m, m2)
BY DEF Stays

LEMMA WriteStays ==
  ASSUME NEW m, MemOK(m), NEW a, HeaderAt(a),
         NEW total \in Nat, NEW prev \in Nat, NEW flags \in Nat, NEW id \in Nat
  PROVE  Stays(m, WriteHeader(m, a, total, prev, flags, id))
<1>1. PICK m2 : m2 = WriteHeader(m, a, total, prev, flags, id)  OBVIOUS
<1>2. Wrote(m2, m, a, total, prev, flags, id)  BY <1>1, HeaderWritten
<1>3. a \in Nat /\ a >= Base /\ a + 16 <= Limit  BY HeaderCells
<1>4. \A c \in Cells : c \in Int  BY Ends DEF Cells, Margin
<1>5. Stays(m, m2)
  BY <1>2, <1>3, <1>4, Ends DEF Wrote, Stays
<1> QED BY <1>1, <1>5

LEMMA UpdateStays ==
  ASSUME NEW m, MemOK(m), NEW a \in Addresses, UpdatePrevOK(m, a), NEW prev \in Nat
  PROVE  Stays(m, UpdatePrev(m, a, prev))
<1>1. CASE a = Limit  BY <1>1 DEF UpdatePrev, Stays
<1>2. CASE a # Limit
  <2>1. HeaderAt(a)  BY <1>2, Readable DEF UpdatePrevOK
  <2>2. a \in Nat /\ a >= Base /\ a + 16 <= Limit /\ a + 4 \in Cells  BY <2>1, HeaderCells
  <2>3. \A c \in Cells : c \in Int  BY Ends DEF Cells, Margin
  <2> QED BY <1>2, <2>2, <2>3, Ends DEF UpdatePrev, Stays, MemOK
<1> QED BY <1>1, <1>2

LEMMA ZeroStays ==
  ASSUME NEW m, MemOK(m), NEW from \in Nat, NEW to \in Nat, from >= Base, to <= Limit
  PROVE  Stays(m, ZeroBytes(m, from, to))
<1>1. \A c \in Cells : c \in Int  BY Ends DEF Cells, Margin
<1>2. PICK z : z = ZeroBytes(m, from, to)  OBVIOUS
<1>3. z = [c \in Cells |-> IF from <= c /\ c < to THEN 0 ELSE m[c]]
  BY <1>2 DEF ZeroBytes, MemOK
<1>4. Stays(m, z)  BY <1>1, <1>3, Ends DEF Stays, MemOK
<1> QED BY <1>2, <1>4

(* FREE, whatever the memory holds: an address read from a prev_size is only *)
(* used when the header there has that size.                                *)
LEMMA FreeLeftStays ==
  ASSUME NEW m, MemOK(m), NEW a, HeaderAt(a), NEW total \in Nat, total % 8 = 0
  PROVE  Stays(m, FreeLeft(m, a, total).mem) /\ FreeLeft(m, a, total).payload = 0
<1> DEFINE prev == Prev(m, a)
           p    == a - prev
           m1   == WriteHeader(m, p, Total(m, p) + total, Prev(m, p), 0, 0)
           end  == p + Total(m, p) + total
           merges == /\ prev # 0 /\ ~(prev > a - Base) /\ ReadOK(m, p) /\ Total(m, p) = prev
                     /\ ~Used(m, p) /\ WriteOK(p, Total(m, p) + total)
<1>1. a \in Nat /\ a % 8 = 0 /\ prev \in Nat /\ Base \in Nat
  BY HeaderCells, HeaderRead, Ends DEF MemOK, HeaderAt
<1>2. Stays(m, m)  BY DEF Stays
<1>3. CASE ~merges
  <2>1. FreeLeft(m, a, total).mem = m /\ FreeLeft(m, a, total).payload = 0
    BY <1>3 DEF FreeLeft, Result
  <2> QED BY <1>2, <2>1
<1>4. CASE merges
  <2>1. p \in Addresses
    <3>1. prev % 8 = 0  BY <1>4 DEF ReadOK, Total, Alignment
    <3>2. p \in Nat /\ p >= Base /\ p <= a  BY <1>1, <1>4
    <3>3. p % 8 = 0  BY <1>1, <3>1
    <3> QED BY <3>2, <3>3, HeaderCells, Ends DEF Addresses, Alignment
  <2>2. /\ HeaderAt(p) /\ Total(m, p) \in Nat /\ Total(m, p) % 8 = 0 /\ Prev(m, p) \in Nat
    BY <1>4, <2>1, Readable
  <2>3. end \in Addresses
    <3>1. (Total(m, p) + total) % 8 = 0  BY <2>2
    <3>2. Total(m, p) + total \in Nat /\ Total(m, p) + total <= Limit - p
      BY <1>4, <2>2 DEF WriteOK
    <3>3. p + (Total(m, p) + total) \in Addresses  BY <2>1, <3>1, <3>2, Onward
    <3>4. p \in Int  BY <2>1, Ends DEF Addresses
    <3>5. PICK t : t = Total(m, p)  OBVIOUS
    <3>6. p + t + total = p + (t + total)  BY <2>2, <3>4, <3>5
    <3> QED BY <3>3, <3>5, <3>6
  <2>4. Stays(m, m1)
    <3>1. Total(m, p) + total \in Nat  BY <2>2
    <3> QED BY <2>2, <3>1, WriteStays
  <2> DEFINE r == FreeLeft(m, a, total)
  <2>5. r = IF UpdatePrevOK(m1, end)
            THEN Result(UpdatePrev(m1, end, Total(m, p) + total), "OK", 0)
            ELSE Result(m1, "HEAP_CORRUPT", 0)
    BY <1>4 DEF FreeLeft
  <2> HIDE DEF r, m1, end
  <2>6. CASE UpdatePrevOK(m1, end)
    <3>1. MemOK(m1) /\ Total(m, p) + total \in Nat  BY <2>2, <2>4 DEF Stays
    <3>2. Stays(m1, UpdatePrev(m1, end, Total(m, p) + total))  BY <2>3, <2>6, <3>1, UpdateStays
    <3>3. r.mem = UpdatePrev(m1, end, Total(m, p) + total) /\ r.payload = 0
      BY <2>5, <2>6 DEF Result
    <3>4. Stays(m, r.mem)  BY <2>4, <3>2, <3>3, StaysOn
    <3> QED BY <3>3, <3>4 DEF r
  <2>7. CASE ~UpdatePrevOK(m1, end)
    <3>1. r.mem = m1 /\ r.payload = 0  BY <2>5, <2>7 DEF Result
    <3> QED BY <2>4, <3>1 DEF r
  <2> QED BY <2>6, <2>7
<1> QED BY <1>3, <1>4

LEMMA FreeAtStays ==
  ASSUME NEW m0, MemOK(m0), NEW a \in Addresses, ReadOK(m0, a)
  PROVE  Stays(m0, FreeAt(m0, a).mem) /\ FreeAt(m0, a).payload = 0
<1> DEFINE total == Total(m0, a)
           n     == a + total
           m     == WriteHeader(m0, a, total, Prev(m0, a), 0, 0)
           grown == total + Total(m, n)
           m1    == WriteHeader(m, a, grown, Prev(m, a), 0, 0)
           r     == FreeAt(m0, a)
<1>1. /\ HeaderAt(a) /\ total \in Nat /\ total % 8 = 0 /\ n \in Addresses /\ Prev(m0, a) \in Nat
  BY Readable
<1>2. Stays(m0, m) /\ MemOK(m)
  <2>1. Stays(m0, m)
    <3> HIDE DEF total
    <3> QED BY <1>1, WriteStays
  <2> HIDE DEF m
  <2> QED BY <2>1 DEF Stays
<1>3. r = IF n >= Limit THEN FreeLeft(m, a, total)
          ELSE IF ~ReadOK(m, n) \/ Prev(m, n) # total THEN Result(m, "HEAP_CORRUPT", 0)
          ELSE IF Used(m, n) THEN FreeLeft(m, a, total)
          ELSE IF ~WriteOK(a, grown) THEN Result(m, "HEAP_CORRUPT", 0)
          ELSE IF ~UpdatePrevOK(m1, a + grown) THEN Result(m1, "HEAP_CORRUPT", 0)
          ELSE FreeLeft(UpdatePrev(m1, a + grown, grown), a, grown)
  BY Zenon DEF FreeAt
<1>4. Stays(m, FreeLeft(m, a, total).mem) /\ FreeLeft(m, a, total).payload = 0
  BY <1>1, <1>2, FreeLeftStays
<1>5. Result(m, "HEAP_CORRUPT", 0).mem = m /\ Result(m, "HEAP_CORRUPT", 0).payload = 0
      /\ Result(m1, "HEAP_CORRUPT", 0).mem = m1 /\ Result(m1, "HEAP_CORRUPT", 0).payload = 0
  BY DEF Result
<1>6. ASSUME ~(n >= Limit), ReadOK(m, n), WriteOK(a, grown)
      PROVE  /\ Stays(m, m1) /\ MemOK(m1)
             /\ UpdatePrevOK(m1, a + grown) =>
                  /\ Stays(m, FreeLeft(UpdatePrev(m1, a + grown, grown), a, grown).mem)
                  /\ FreeLeft(UpdatePrev(m1, a + grown, grown), a, grown).payload = 0
  <2>1. Total(m, n) \in Nat /\ Total(m, n) % 8 = 0  BY <1>1, <1>2, <1>6, Readable
  <2>2. grown \in Nat /\ grown % 8 = 0 /\ grown <= Limit - a
    BY <1>1, <1>6, <2>1 DEF WriteOK
  <2>3. a + grown \in Addresses  BY <2>2, Onward
  <2>4. Prev(m, a) \in Nat  BY <1>1, <1>2, HeaderCells, HeaderRead DEF MemOK
  <2> HIDE DEF grown, m
  <2>5. Stays(m, m1) /\ MemOK(m1)
    <3>1. Stays(m, m1)  BY <1>1, <1>2, <2>2, <2>4, WriteStays
    <3> HIDE DEF m1
    <3> QED BY <3>1 DEF Stays
  <2>6. ASSUME UpdatePrevOK(m1, a + grown), NEW m2, m2 = UpdatePrev(m1, a + grown, grown)
        PROVE  Stays(m, FreeLeft(m2, a, grown).mem) /\ FreeLeft(m2, a, grown).payload = 0
    <3> HIDE DEF m1
    <3>1. Stays(m1, m2) /\ MemOK(m2)  BY <2>2, <2>3, <2>5, <2>6, UpdateStays DEF Stays
    <3>2. Stays(m2, FreeLeft(m2, a, grown).mem) /\ FreeLeft(m2, a, grown).payload = 0
      BY <1>1, <2>2, <3>1, FreeLeftStays
    <3> QED BY <2>5, <3>1, <3>2, StaysOn
  <2> QED BY <2>5, <2>6
<1>7. Stays(m, r.mem) /\ r.payload = 0
  <2>1. Stays(m, m)  BY <1>2 DEF Stays
  <2> HIDE DEF r, m, m1, n, grown, total
  <2> QED BY <1>3, <1>4, <1>5, <1>6, <2>1
<1> HIDE DEF m, r
<1>8. Stays(m0, r.mem) /\ r.payload = 0  BY <1>2, <1>7, StaysOn
<1> QED BY <1>8 DEF r

(* ALLOC: what it hands out ends where its header says, inside the arena,    *)
(* and is zeroed.                                                           *)
HandsOut(m, out) ==
  out # 0 =>
    /\ out >= Base + HeaderSize
    /\ out - HeaderSize + Total(m, out - HeaderSize) <= Limit
    /\ \A c \in Cells :
         out <= c /\ c < out - HeaderSize + Total(m, out - HeaderSize) => m[c] = 0

LEMMA HandedOut ==
  ASSUME NEW m, MemOK(m), NEW a, HeaderAt(a), NEW size \in Nat, size >= 16, size <= Limit - a,
         NEW prev \in Nat, NEW id \in Nat,
         NEW m3, m3 = ZeroBytes(WriteHeader(m, a, size, prev, FlagUsed, id), a + HeaderSize, a + size)
  PROVE  Stays(m, m3) /\ HandsOut(m3, a + HeaderSize)
<1>1. PICK w : w = WriteHeader(m, a, size, prev, FlagUsed, id)  OBVIOUS
<1>2. FlagUsed \in Nat  BY DEF FlagUsed
<1>3. Wrote(w, m, a, size, prev, FlagUsed, id)  BY <1>1, <1>2, HeaderWritten
<1>4. Stays(m, w)  BY <1>1, <1>2, WriteStays
<1>5. a \in Nat /\ a >= Base /\ a + 16 <= Limit /\ a \in Cells /\ Base \in Nat /\ Limit \in Nat
  BY HeaderCells, Ends
<1>6. MemOK(w) /\ w[a] = size  BY <1>3 DEF Wrote
<1>7. m3 = ZeroBytes(w, a + 16, a + size)  BY <1>1 DEF HeaderSize
<1>8. Stays(w, m3)
  <2>1. a + 16 \in Nat /\ a + size \in Nat /\ a + 16 >= Base /\ a + size <= Limit  BY <1>5
  <2> QED BY <1>6, <1>7, <2>1, ZeroStays
<1>9. \A c \in Cells : m3[c] = IF a + 16 <= c /\ c < a + size THEN 0 ELSE w[c]
  BY <1>6, <1>7 DEF ZeroBytes, MemOK
<1>10. m3[a] = size  BY <1>5, <1>6, <1>9
<1>11. HandsOut(m3, a + HeaderSize)
  <2>1. (a + HeaderSize) - HeaderSize = a  BY <1>5 DEF HeaderSize
  <2>2. \A c \in Cells : c \in Int  BY Ends DEF Cells, Margin
  <2>3. \A c \in Cells : a + 16 <= c /\ c < a + size => m3[c] = 0  BY <1>9
  <2>4. Total(m3, a) = size  BY <1>10, HeaderRead DEF HeaderAt
  <2> QED BY <1>5, <2>1, <2>2, <2>3, <2>4 DEF HandsOut, HeaderSize
<1> QED BY <1>4, <1>8, <1>11, StaysOn

LEMMA AllocAtStays ==
  ASSUME NEW m, MemOK(m), NEW a \in Addresses, ReadOK(m, a), nextId \in Nat,
         NEW needed \in Nat, needed % 8 = 0, needed >= 16, needed <= Total(m, a)
  PROVE  /\ Stays(m, AllocAt(m, a, needed).mem)
         /\ HandsOut(AllocAt(m, a, needed).mem, AllocAt(m, a, needed).payload)
<1> DEFINE total == Total(m, a)
           rest  == total - needed
           m1    == WriteHeader(m, a + needed, rest, needed, 0, 0)
           end   == a + needed + rest
           m2    == UpdatePrev(m1, end, rest)
           split == rest >= HeaderSize + MinPayload
           r     == AllocAt(m, a, needed)
           Out(w, size) == ZeroBytes(WriteHeader(w, a, size, Prev(m, a), FlagUsed, TakenId),
                                     a + HeaderSize, a + size)
<1>1. /\ HeaderAt(a) /\ total \in Nat /\ total % 8 = 0 /\ total >= 16
      /\ a + total \in Addresses /\ Prev(m, a) \in Nat
  BY Readable
<1>2. TakenId \in Nat  BY DEF TakenId
<1>3. a \in Nat /\ a >= Base /\ a + 16 <= Limit /\ Base \in Nat /\ Limit \in Nat /\ a % 8 = 0
      /\ total <= Limit - a
  BY <1>1, HeaderCells, Ends DEF ReadOK, Total
<1>4. rest \in Nat /\ rest % 8 = 0 /\ end = a + total  BY <1>1, <1>3
<1>5. Stays(m, m) /\ HandsOut(m, 0)  BY DEF Stays, HandsOut
<1>6. ASSUME NEW w, Stays(m, w), NEW size \in Nat, size >= 16, size <= Limit - a
      PROVE  Stays(m, Out(w, size)) /\ HandsOut(Out(w, size), a + HeaderSize)
  <2>1. PICK m3 : m3 = Out(w, size)  OBVIOUS
  <2>2. MemOK(w)  BY <1>6 DEF Stays
  <2>3. Stays(w, m3) /\ HandsOut(m3, a + HeaderSize)
    BY <1>1, <1>2, <1>6, <2>1, <2>2, HandedOut
  <2> QED BY <1>6, <2>1, <2>3, StaysOn
<1>7. CASE ~split
  <2>1. r = Result(Out(m, total), "OK", a + HeaderSize)  BY <1>7 DEF AllocAt
  <2> HIDE DEF Out, r, total
  <2>2. r.mem = Out(m, total) /\ r.payload = a + HeaderSize  BY <2>1 DEF Result
  <2>3. Stays(m, Out(m, total)) /\ HandsOut(Out(m, total), a + HeaderSize)
    BY <1>1, <1>3, <1>5, <1>6
  <2> QED BY <2>2, <2>3 DEF r
<1>8. CASE split
  <2>1. HeaderAt(a + needed)
    <3>1. rest >= 24  BY <1>8 DEF HeaderSize, MinPayload
    <3>2. a + needed <= Limit - 16  BY <1>1, <1>3, <3>1
    <3>3. a + needed \in Addresses  BY <1>3, <3>2, Onward
    <3> QED BY <3>2, <3>3 DEF HeaderAt, HeaderSize
  <2>2. Stays(m, m1) /\ MemOK(m1)
    <3>1. Stays(m, m1)
      <4> HIDE DEF rest
      <4> QED BY <1>4, <2>1, WriteStays
    <3> HIDE DEF m1
    <3> QED BY <3>1 DEF Stays
  <2>3. r = IF ~WriteOK(a + needed, rest) THEN Result(m, "HEAP_CORRUPT", 0)
            ELSE IF ~UpdatePrevOK(m1, end) THEN Result(m1, "HEAP_CORRUPT", 0)
            ELSE Result(Out(m2, needed), "OK", a + HeaderSize)
    BY <1>8 DEF AllocAt
  <2>4. HandsOut(m1, 0)  BY DEF HandsOut
  <2> HIDE DEF Out, r, m1
  <2>5. CASE ~WriteOK(a + needed, rest)
    <3>1. r.mem = m /\ r.payload = 0  BY <2>3, <2>5 DEF Result
    <3> QED BY <1>5, <3>1 DEF r
  <2>6. CASE WriteOK(a + needed, rest) /\ ~UpdatePrevOK(m1, end)
    <3>1. r.mem = m1 /\ r.payload = 0  BY <2>3, <2>6 DEF Result
    <3> QED BY <2>2, <2>4, <3>1 DEF r
  <2>7. CASE WriteOK(a + needed, rest) /\ UpdatePrevOK(m1, end)
    <3>1. r.mem = Out(m2, needed) /\ r.payload = a + HeaderSize  BY <2>3, <2>7 DEF Result
    <3>2. end \in Addresses  BY <1>1, <1>4
    <3>3. Stays(m, m2)
      <4> HIDE DEF end, rest
      <4>1. Stays(m1, m2)  BY <1>4, <2>2, <2>7, <3>2, UpdateStays
      <4> QED BY <2>2, <4>1, StaysOn
    <3>4. needed <= Limit - a  BY <1>1, <1>3
    <3> HIDE DEF m2
    <3>5. Stays(m, Out(m2, needed)) /\ HandsOut(Out(m2, needed), a + HeaderSize)
      BY <1>6, <3>3, <3>4
    <3> QED BY <3>1, <3>5 DEF r
  <2> QED BY <2>5, <2>6, <2>7
<1> QED BY <1>7, <1>8

-----------------------------------------------------------------------------
(* Whatever the guest stores *)

\* The inductive invariant that needs no tame guest, and what of it an
\* operation's result must satisfy.
WordsInv == MemOK(mem) /\ nextId \in Nat /\ DamageContained

Contained(m, out) ==
  /\ MemOK(m)
  /\ \A c \in Cells : c < Base \/ c >= Limit => m[c] = 0
  /\ out # 0 =>
       /\ out >= Base + HeaderSize
       /\ out - HeaderSize + Total(m, out - HeaderSize) <= Limit

LEMMA InitMemContained == Contained(InitMem, 0)
<1> DEFINE z == [c \in Cells |-> 0]
<1>1. MemOK(z) /\ \A c \in Cells : z[c] = 0  BY DEF MemOK
<1>2. HeaderAt(Base) /\ Limit - Base \in Nat  BY Ends DEF HeaderAt, HeaderSize
<1>3. InitMem = WriteHeader(z, Base, Limit - Base, 0, 0, 0)  BY DEF InitMem
<1> HIDE DEF z
<1>4. Stays(z, InitMem)  BY <1>1, <1>2, <1>3, WriteStays
<1> QED BY <1>1, <1>4 DEF Stays, Contained

LEMMA StaysContained ==
  ASSUME NEW m2, WordsInv, Stays(mem, m2), NEW out, HandsOut(m2, out)
  PROVE  Contained(m2, out)
BY DEF WordsInv, DamageContained, Stays, HandsOut, Contained

LEMMA AllocFitStays ==
  ASSUME WordsInv, NEW size \in Sizes, AllocFit(size)
  PROVE  Stays(mem, mem') /\ HandsOut(mem', payload') /\ nextId' \in Nat
<1> DEFINE needed == HeaderSize + AlignUp(size)
<1>1. PICK a \in Blocks(mem) : FirstFit(mem, size, a) /\ Install(AllocAt(mem, a, needed))
  BY DEF AllocFit
<1>2. size \in Nat /\ size > 0  BY WordsAssumption DEF AllocFit
<1>3. AlignUp(size) \in Nat /\ AlignUp(size) % 8 = 0  BY <1>2 DEF AlignUp, Alignment
<1>4. needed \in Nat /\ needed % 8 = 0 /\ needed >= 16  BY <1>3 DEF HeaderSize
<1>5. MemOK(mem) /\ nextId \in Nat  BY DEF WordsInv
<1>6. a \in Addresses /\ ReadOK(mem, a)  BY <1>1, <1>5, VisitedTyped DEF Blocks
<1>7. Total(mem, a) \in Nat  BY <1>5, <1>6, Readable
<1>8. Total(mem, a) - HeaderSize >= AlignUp(size)  BY <1>1 DEF FirstFit
<1>9. needed <= Total(mem, a)  BY <1>3, <1>7, <1>8 DEF HeaderSize
<1> HIDE DEF needed
<1>10. PICK r : r = AllocAt(mem, a, needed)  OBVIOUS
<1>11. Stays(mem, r.mem) /\ HandsOut(r.mem, r.payload)
  BY <1>4, <1>5, <1>6, <1>9, <1>10, AllocAtStays
<1>12. mem' = r.mem /\ payload' = r.payload  BY <1>1, <1>10 DEF Install
<1>13. nextId' \in Nat
  <2>1. nextId' = (TakenId + 1) % IdMod  BY DEF AllocFit
  <2>2. TakenId \in Nat  BY <1>5 DEF TakenId
  <2> QED BY <2>1, <2>2, WordsAssumption
<1> QED BY <1>11, <1>12, <1>13

LEMMA FreeStays ==
  ASSUME WordsInv, NEW p \in FreeAddresses, Free(p)
  PROVE  Stays(mem, mem') /\ payload' = 0 /\ nextId' = nextId
<1>1. MemOK(mem)  BY DEF WordsInv
<1>2. Stays(mem, mem)  BY <1>1 DEF Stays
<1> DEFINE a == p - HeaderSize
<1>3. CASE a \in Blocks(mem) /\ Used(mem, a)
  <2>1. Install(FreeAt(mem, a))  BY <1>3 DEF Free
  <2>2. a \in Addresses /\ ReadOK(mem, a)  BY <1>1, <1>3, VisitedTyped DEF Blocks
  <2> HIDE DEF a
  <2>3. Stays(mem, FreeAt(mem, a).mem) /\ FreeAt(mem, a).payload = 0  BY <1>1, <2>2, FreeAtStays
  <2> QED BY <2>1, <2>3 DEF Install, Free
<1>4. CASE ~(a \in Blocks(mem) /\ Used(mem, a))
  <2>1. \E s : Install(Result(mem, s, 0))  BY <1>4 DEF Free
  <2>2. mem' = mem /\ payload' = 0  BY <2>1 DEF Install, Result
  <2> QED BY <1>2, <2>2 DEF Free
<1> QED BY <1>3, <1>4

(* A store of the guest, aligned or not, changes the cells of its bytes.     *)
Stored(m, m2, c, bytes) ==
  /\ MemOK(m2)
  /\ \A d \in Cells : (\A x \in c .. c + bytes - 1 : d # Cell(x)) => m2[d] = m[d]

LEMMA CellOf ==
  ASSUME NEW x \in Nat, NEW lo \in Nat, lo % 4 = 0, lo <= x
  PROVE  Cell(x) \in Nat /\ Cell(x) % 4 = 0 /\ lo <= Cell(x) /\ Cell(x) <= x
BY DEF Cell, Word

LEMMA CellInArena ==
  ASSUME NEW x \in Nat, Base <= x, x < Limit
  PROVE  Cell(x) \in Cells /\ Base <= Cell(x) /\ Cell(x) < Limit
<1>1. /\ Base \in Nat /\ Limit \in Nat /\ Base % 4 = 0
  <2>1. Base \in Nat /\ Limit \in Nat /\ Base % 8 = 0  BY WordsAssumption DEF Alignment
  <2> QED BY <2>1
<1>2. Cell(x) \in Nat /\ Cell(x) % 4 = 0 /\ Base <= Cell(x) /\ Cell(x) <= x  BY <1>1, CellOf
<1> QED BY <1>1, <1>2 DEF Cells, Margin, Word

LEMMA ByteFits ==
  ASSUME NEW v \in Nat, NEW place \in {1, 256, 65536, 16777216}, NEW b \in Nat
  PROVE  v + (b - ((v \div place) % 256)) * place \in Nat
<1>1. CASE place = 1  BY <1>1
<1>2. CASE place = 256  BY <1>2
<1>3. CASE place = 65536  BY <1>3
<1>4. CASE place = 16777216  BY <1>4
<1> QED BY <1>1, <1>2, <1>3, <1>4

OneCell(m, m2, c) == MemOK(m2) /\ \A d \in Cells : d # Cell(c) => m2[d] = m[d]

LEMMA BytePut ==
  ASSUME NEW m, MemOK(m), NEW c \in Nat, Base <= c, c < Limit, NEW b \in Nat
  PROVE  OneCell(m, PutByte(m, c, b), c)
<1>1. Cell(c) \in Cells  BY CellInArena
<1>2. Place(c) \in {1, 256, 65536, 16777216}
  <2>1. c % 4 \in 0 .. 3  OBVIOUS
  <2> QED BY <2>1 DEF Place, Word
<1>3. m[Cell(c)] \in Nat  BY <1>1 DEF MemOK
<1>4. m[Cell(c)] + (b - ByteAt(m, c)) * Place(c) \in Nat
  <2>1. PICK v \in Nat, place \in {1, 256, 65536, 16777216} :
          v = m[Cell(c)] /\ place = Place(c)
    BY <1>2, <1>3
  <2>2. ByteAt(m, c) = (v \div place) % 256  BY <2>1 DEF ByteAt
  <2> QED BY <2>1, <2>2, ByteFits
<1> QED BY <1>1, <1>4 DEF PutByte, MemOK, OneCell

LEMMA WordPut ==
  ASSUME NEW m, MemOK(m), NEW c \in Nat, Base <= c, c + 4 <= Limit, NEW v \in Nat
  PROVE  Stored(m, PutWord(m, c, v), c, 4)
<1>1. /\ v % 256 \in Nat /\ (v \div 256) % 256 \in Nat
      /\ (v \div 65536) % 256 \in Nat /\ (v \div 16777216) % 256 \in Nat
  OBVIOUS
<1>2. PICK b0 \in Nat, b1 \in Nat, b2 \in Nat, b3 \in Nat :
        /\ b0 = v % 256 /\ b1 = (v \div 256) % 256
        /\ b2 = (v \div 65536) % 256 /\ b3 = (v \div 16777216) % 256
  BY <1>1
<1>3. PICK c1 \in Nat, c2 \in Nat, c3 \in Nat : c1 = c + 1 /\ c2 = c + 2 /\ c3 = c + 3
  OBVIOUS
<1>4. PICK m1 : m1 = PutByte(m, c, b0)  OBVIOUS
<1>5. PICK m2 : m2 = PutByte(m1, c1, b1)  OBVIOUS
<1>6. PICK m3 : m3 = PutByte(m2, c2, b2)  OBVIOUS
<1>7. PICK m4 : m4 = PutByte(m3, c3, b3) /\ m4 = PutWord(m, c, v)
  BY <1>2, <1>3, <1>4, <1>5, <1>6 DEF PutWord
<1>8. /\ Base <= c1 /\ Base <= c2 /\ Base <= c3
      /\ c < Limit /\ c1 < Limit /\ c2 < Limit /\ c3 < Limit
  BY <1>3, Ends
<1>9. OneCell(m, m1, c)
  BY <1>4, <1>8, BytePut
<1>10. OneCell(m1, m2, c1)
  <2>1. MemOK(m1)  BY <1>9 DEF OneCell
  <2> QED BY <1>5, <1>8, <2>1, BytePut
<1>11. OneCell(m2, m3, c2)
  <2>1. MemOK(m2)  BY <1>10 DEF OneCell
  <2> QED BY <1>6, <1>8, <2>1, BytePut
<1>12. OneCell(m3, m4, c3)
  <2>1. MemOK(m3)  BY <1>11 DEF OneCell
  <2> QED BY <1>7, <1>8, <2>1, BytePut
<1>13. {c, c1, c2, c3} \subseteq c .. c + 4 - 1  BY <1>3
<1>14. ASSUME NEW d \in Cells, \A x \in c .. c + 4 - 1 : d # Cell(x)
       PROVE  m4[d] = m[d]
  <2>1. d # Cell(c) /\ d # Cell(c1) /\ d # Cell(c2) /\ d # Cell(c3)  BY <1>13, <1>14
  <2> QED BY <1>9, <1>10, <1>11, <1>12, <2>1 DEF OneCell
<1> QED BY <1>7, <1>12, <1>14 DEF Stored, OneCell

LEMMA GuestStored ==
  ASSUME NEW c \in Nat, NEW bytes \in {1, 4}, NEW value \in Nat,
         MemOK(mem), Base <= c, c + bytes <= Limit, GuestStore(c, bytes, value)
  PROVE  Stored(mem, mem', c, bytes)
<1>1. CASE bytes = 1
  <2>1. mem' = PutByte(mem, c, value % 256)  BY <1>1 DEF GuestStore
  <2>2. value % 256 \in Nat /\ c < Limit /\ c \in c .. c + 1 - 1  BY <1>1, Ends
  <2>3. OneCell(mem, mem', c)  BY <2>1, <2>2, BytePut
  <2> QED BY <1>1, <2>2, <2>3 DEF Stored, OneCell
<1>2. CASE bytes = 4
  <2>1. mem' = PutWord(mem, c, value)  BY <1>2 DEF GuestStore
  <2> QED BY <1>2, <2>1, WordPut
<1> QED BY <1>1, <1>2

LEMMA StoreContained ==
  ASSUME WordsInv, NEW c \in Nat, NEW bytes \in {1, 4}, NEW value \in Nat,
         Base <= c, c + bytes <= Limit, GuestStore(c, bytes, value)
  PROVE  Contained(mem', payload')
<1>1. MemOK(mem) /\ \A d \in Cells : d < Base \/ d >= Limit => mem[d] = 0
  BY DEF WordsInv, DamageContained
<1>2. Stored(mem, mem', c, bytes)  BY <1>1, GuestStored
<1>3. ASSUME NEW d \in Cells, d < Base \/ d >= Limit PROVE mem'[d] = 0
  <2>1. ASSUME NEW x \in c .. c + bytes - 1 PROVE d # Cell(x)
    <3>1. x \in Nat /\ Base <= x /\ x < Limit  BY Ends
    <3>2. Base <= Cell(x) /\ Cell(x) < Limit  BY <3>1, CellInArena
    <3>3. d \in Int /\ Cell(x) \in Int  BY <3>1, CellInArena, Ends DEF Cells, Margin
    <3> QED BY <1>3, <3>2, <3>3, Ends
  <2> QED BY <1>1, <1>2, <1>3, <2>1 DEF Stored
<1>4. MemOK(mem') /\ payload' = 0  BY <1>2 DEF Stored, GuestStore
<1> QED BY <1>3, <1>4 DEF Contained

(* A store the model allows a guest lies where the store says.               *)
LEMMA StoreKinds ==
  ASSUME NEW s \in PayloadStores \cup WildStores
  PROVE  s.at \in Nat /\ s.bytes \in {1, 4} /\ s.value \in Nat
<1>1. s \in Store  BY WordsAssumption
<1> QED BY <1>1 DEF Store, Word

LEMMA WordsStep ==
  ASSUME WordsInv, Next
  PROVE  /\ Contained(mem', payload') /\ nextId' \in Nat
         /\ payload' # 0 => HandsOut(mem', payload')
<1>1. MemOK(mem) /\ nextId \in Nat  BY DEF WordsInv
<1>2. ASSUME NEW size \in Sizes, AllocFit(size)
      PROVE  Contained(mem', payload') /\ HandsOut(mem', payload') /\ nextId' \in Nat
  <2>1. Stays(mem, mem') /\ HandsOut(mem', payload') /\ nextId' \in Nat  BY <1>2, AllocFitStays
  <2> QED BY <2>1, StaysContained
<1>3. ASSUME mem' = mem, payload' = 0
      PROVE  Contained(mem', payload')
  BY <1>3 DEF WordsInv, DamageContained, Contained
<1>4. ASSUME NEW size \in Sizes, AllocFail(size)
      PROVE  Contained(mem', payload') /\ payload' = 0 /\ nextId' \in Nat
  <2>1. \E s : Install(Result(mem, s, 0))  BY <1>4 DEF AllocFail
  <2>2. mem' = mem /\ payload' = 0  BY <2>1 DEF Install, Result
  <2> QED BY <1>1, <1>3, <1>4, <2>2 DEF AllocFail
<1>5. ASSUME NEW p \in FreeAddresses, Free(p)
      PROVE  Contained(mem', payload') /\ payload' = 0 /\ nextId' \in Nat
  <2>1. Stays(mem, mem') /\ payload' = 0 /\ nextId' = nextId  BY <1>5, FreeStays
  <2>2. HandsOut(mem', payload')  BY <2>1 DEF HandsOut
  <2> QED BY <1>1, <2>1, <2>2, StaysContained
<1>6. CASE PayloadStore
  <2>1. PICK a \in Blocks(mem), s \in PayloadStores :
          /\ s.at + s.bytes <= Total(mem, a) - HeaderSize
          /\ GuestStore(a + HeaderSize + s.at, s.bytes, s.value)
    BY <1>6 DEF PayloadStore
  <2>2. s.at \in Nat /\ s.bytes \in {1, 4} /\ s.value \in Nat  BY StoreKinds
  <2>3. a \in Addresses /\ ReadOK(mem, a)  BY <1>1, <2>1, VisitedTyped DEF Blocks
  <2>4. a + Total(mem, a) \in Addresses /\ Total(mem, a) \in Nat  BY <1>1, <2>3, Readable
  <2>5. /\ a + HeaderSize + s.at \in Nat /\ Base <= a + HeaderSize + s.at
        /\ a + HeaderSize + s.at + s.bytes <= Limit
    BY <2>1, <2>2, <2>3, <2>4, Ends DEF Addresses, HeaderSize
  <2>6. Contained(mem', payload')  BY <2>1, <2>2, <2>5, StoreContained
  <2> QED BY <1>1, <2>1, <2>6 DEF GuestStore
<1>7. CASE WildStore
  <2>1. PICK s \in WildStores : GuestStore(s.at, s.bytes, s.value)  BY <1>7 DEF WildStore
  <2>2. s.at \in Nat /\ s.bytes \in {1, 4} /\ s.value \in Nat  BY StoreKinds
  <2>3. Base <= s.at /\ s.at + s.bytes <= Limit  BY WordsAssumption
  <2>4. Contained(mem', payload')  BY <2>1, <2>2, <2>3, StoreContained
  <2> QED BY <1>1, <2>1, <2>4 DEF GuestStore
<1>8. CASE Reset
  BY <1>8, InitMemContained DEF Reset
<1> QED BY <1>2, <1>4, <1>5, <1>6, <1>7, <1>8 DEF Next

LEMMA WordsInvariant == Spec => []WordsInv
<1>1. Init => WordsInv
  BY InitMemContained DEF Init, Contained, WordsInv, DamageContained
<1>2. ASSUME WordsInv, [Next]_vars PROVE WordsInv'
  <2>1. CASE Next
    <3>1. Contained(mem', payload') /\ nextId' \in Nat  BY <1>2, <2>1, WordsStep
    <3> QED BY <3>1 DEF Contained, WordsInv, DamageContained, MemOK, Total
  <2>2. CASE UNCHANGED vars
    BY <1>2, <2>2 DEF vars, WordsInv, DamageContained, MemOK, Total
  <2> QED BY <1>2, <2>1, <2>2
<1> QED BY <1>1, <1>2, PTL DEF Spec

(* Whatever the guest has stored over the headers, nova_vm_heap_alloc and    *)
(* nova_vm_heap_free write only inside the arena, and a payload handed out   *)
(* lies in it with its block.                                               *)
THEOREM DamageStaysInside == Spec => []DamageContained
<1>1. WordsInv => DamageContained  BY DEF WordsInv
<1> QED BY <1>1, WordsInvariant, PTL

(* ALLOC hands out zeroed memory, even out of a chain the guest has forged.  *)
THEOREM PayloadsAreZeroed == Spec => FreshPayloadZero
<1>1. ASSUME WordsInv, [Next]_vars
      PROVE  [payload' # 0 =>
                \A c \in Cells : payload' <= c /\ c < payload' - HeaderSize + Total(mem', payload' - HeaderSize)
                  => mem'[c] = 0]_vars
  <2>1. CASE Next
    <3>1. payload' # 0 => HandsOut(mem', payload')  BY <1>1, <2>1, WordsStep
    <3> QED BY <3>1 DEF HandsOut
  <2> QED BY <1>1, <2>1
<1> QED BY <1>1, WordsInvariant, PTL DEF Spec, FreshPayloadZero

-----------------------------------------------------------------------------
(* A chain of headers and the words that hold it *)

\* The words of m at the headers of h are those headers; h's headers do not
\* overlap; both, and m is a memory: m holds h.
Agrees(m, h) ==
  \A a \in DOMAIN h : /\ m[a] = h[a].total /\ m[a + 4] = h[a].prev
                      /\ m[a + 8] = h[a].flags /\ m[a + 12] = h[a].id
Spaced(D) ==
  \A a \in D : HeaderAt(a) /\ \A b \in D : a < b => a + 16 <= b
Holds(m, h) == MemOK(m) /\ Spaced(DOMAIN h) /\ Agrees(m, h)

LEMMA SpacedCells ==
  ASSUME NEW D, Spaced(D), NEW a \in D, NEW b \in D, a # b
  PROVE  /\ {a, a + 4, a + 8, a + 12} \cap {b, b + 4, b + 8, b + 12} = {}
         /\ a + 4 \notin {b, b + 4, b + 8, b + 12}
<1>1. a \in Nat /\ b \in Nat  BY HeaderCells DEF Spaced
<1>2. a + 16 <= b \/ b + 16 <= a  BY <1>1 DEF Spaced
<1> QED BY <1>1, <1>2

LEMMA WriteHolds ==
  ASSUME NEW m, NEW h, Holds(m, h), NEW a, Spaced(DOMAIN h \cup {a}),
         NEW total \in Nat, NEW prev \in Nat, NEW flags \in Nat, NEW id \in Nat
  PROVE  Holds(WriteHeader(m, a, total, prev, flags, id),
               H!Write(h, a, total, prev, flags, id))
<1>1. PICK w, g : /\ w = WriteHeader(m, a, total, prev, flags, id)
                  /\ g = H!Write(h, a, total, prev, flags, id)
  OBVIOUS
<1>2. Wrote(w, m, a, total, prev, flags, id)
  BY <1>1, HeaderWritten DEF Holds, Spaced
<1>3. DOMAIN g = DOMAIN h \cup {a}  BY <1>1 DEF H!Write
<1>4. ASSUME NEW b \in DOMAIN g
      PROVE  /\ w[b] = g[b].total /\ w[b + 4] = g[b].prev
             /\ w[b + 8] = g[b].flags /\ w[b + 12] = g[b].id
  <2>1. CASE b = a
    <3>1. g[a] = [total |-> total, prev |-> prev, flags |-> flags, id |-> id]
      BY <1>1, <1>3, <2>1 DEF H!Write
    <3> QED BY <1>2, <2>1, <3>1 DEF Wrote
  <2>2. CASE b # a
    <3>1. g[b] = h[b] /\ b \in DOMAIN h  BY <1>1, <1>3, <2>2 DEF H!Write
    <3>2. HeaderAt(b)  BY <3>1 DEF Holds, Spaced
    <3>3. b \in Cells /\ b + 4 \in Cells /\ b + 8 \in Cells /\ b + 12 \in Cells
      BY <3>2, HeaderCells
    <3>4. {a, a + 4, a + 8, a + 12} \cap {b, b + 4, b + 8, b + 12} = {}
      BY <2>2, <3>1, SpacedCells
    <3>5. w[b] = m[b] /\ w[b + 4] = m[b + 4] /\ w[b + 8] = m[b + 8] /\ w[b + 12] = m[b + 12]
      BY <1>2, <3>3, <3>4 DEF Wrote
    <3> QED BY <3>1, <3>5 DEF Holds, Agrees
  <2> QED BY <2>1, <2>2
<1>5. Holds(w, g)  BY <1>2, <1>3, <1>4 DEF Holds, Agrees, Wrote
<1> QED BY <1>1, <1>5

LEMMA UpdateHolds ==
  ASSUME NEW m, NEW h, Holds(m, h), NEW a \in DOMAIN h \cup {Limit}, NEW prev \in Nat,
         \A b \in DOMAIN h : h[b] \in H!Header
  PROVE  Holds(UpdatePrev(m, a, prev), H!UpdatePrev(h, a, prev))
<1>1. CASE a = Limit  BY <1>1 DEF UpdatePrev, H!UpdatePrev
<1>2. CASE a # Limit
  <2>1. PICK w, g : w = [m EXCEPT ![a + 4] = prev] /\ g = [h EXCEPT ![a].prev = prev]
    OBVIOUS
  <2>2. a \in DOMAIN h  BY <1>2
  <2>3. HeaderAt(a)  BY <2>2 DEF Holds, Spaced
  <2>4. a + 4 \in Cells  BY <2>3, HeaderCells
  <2>5. MemOK(w)  BY <2>1, <2>4 DEF MemOK, Holds
  <2>6. DOMAIN g = DOMAIN h  BY <2>1
  <2>7. ASSUME NEW b \in DOMAIN h
        PROVE  /\ w[b] = g[b].total /\ w[b + 4] = g[b].prev
               /\ w[b + 8] = g[b].flags /\ w[b + 12] = g[b].id
    <3>1. HeaderAt(b)  BY DEF Holds, Spaced
    <3>2. /\ b \in Nat /\ b \in Cells /\ b + 4 \in Cells /\ b + 8 \in Cells /\ b + 12 \in Cells
      BY <3>1, HeaderCells
    <3>3. m[b] = h[b].total /\ m[b + 4] = h[b].prev /\ m[b + 8] = h[b].flags /\ m[b + 12] = h[b].id
      BY DEF Holds, Agrees
    <3>4. CASE b = a
      <4>1. /\ g[a].prev = prev /\ g[a].total = h[a].total /\ g[a].flags = h[a].flags
            /\ g[a].id = h[a].id
        BY <2>1, <2>2 DEF H!Header
      <4>2. w[a + 4] = prev /\ w[a] = m[a] /\ w[a + 8] = m[a + 8] /\ w[a + 12] = m[a + 12]
        BY <2>1, <2>4, <3>2, <3>4 DEF MemOK, Holds
      <4> QED BY <3>3, <3>4, <4>1, <4>2
    <3>5. CASE b # a
      <4>1. g[b] = h[b]  BY <2>1, <3>5
      <4>2. a + 4 \notin {b, b + 4, b + 8, b + 12}  BY <2>2, <3>5, SpacedCells DEF Holds
      <4>3. w[b] = m[b] /\ w[b + 4] = m[b + 4] /\ w[b + 8] = m[b + 8] /\ w[b + 12] = m[b + 12]
        BY <2>1, <3>2, <4>2 DEF MemOK, Holds
      <4> QED BY <3>3, <4>1, <4>3
    <3> QED BY <3>4, <3>5
  <2>8. Holds(w, g)  BY <2>5, <2>6, <2>7 DEF Holds, Agrees
  <2> QED BY <1>2, <2>1, <2>8 DEF UpdatePrev, H!UpdatePrev
<1> QED BY <1>1, <1>2

LEMMA AbsorbHolds ==
  ASSUME NEW m, NEW h, Holds(m, h), NEW a
  PROVE  Holds(m, H!Absorb(h, a))
BY DEF Holds, Agrees, Spaced, H!Absorb

(* Zeroing leaves the headers that lie outside the zeroed payload.           *)
LEMMA ZeroHolds ==
  ASSUME NEW m, NEW h, Holds(m, h), NEW from \in Nat, NEW to \in Nat,
         \A b \in DOMAIN h : b + 16 <= from \/ b >= to
  PROVE  Holds(ZeroBytes(m, from, to), h)
<1>1. PICK z : z = ZeroBytes(m, from, to)  OBVIOUS
<1>2. MemOK(z) /\ \A c \in Cells : z[c] = IF from <= c /\ c < to THEN 0 ELSE m[c]
  BY <1>1 DEF ZeroBytes, Holds, MemOK
<1>3. ASSUME NEW b \in DOMAIN h
      PROVE  z[b] = m[b] /\ z[b + 4] = m[b + 4] /\ z[b + 8] = m[b + 8] /\ z[b + 12] = m[b + 12]
  <2>1. HeaderAt(b)  BY DEF Holds, Spaced
  <2>2. /\ b \in Nat /\ b \in Cells /\ b + 4 \in Cells /\ b + 8 \in Cells /\ b + 12 \in Cells
    BY <2>1, HeaderCells
  <2> QED BY <1>2, <2>2
<1>4. Holds(z, h)  BY <1>2, <1>3 DEF Holds, Agrees
<1> QED BY <1>1, <1>4

LEMMA ChainSpaced ==
  ASSUME NEW h, H!Chain(h)
  PROVE  /\ Spaced(DOMAIN h)
         /\ \A a \in DOMAIN h : h[a] \in H!Header
         /\ \A a \in DOMAIN h : a + h[a].total <= Limit /\ h[a].total >= 24
<1>1. ASSUME NEW a \in DOMAIN h
      PROVE  /\ HeaderAt(a) /\ h[a] \in H!Header /\ a \in Nat
             /\ h[a].total \in Nat /\ h[a].total >= 24 /\ a + h[a].total <= Limit
  <2>1. a \in Nat /\ h[a] \in H!Header /\ H!Block(h, a)  BY DEF H!Chain
  <2>2. a % 8 = 0 /\ a >= Base /\ h[a].total \in Nat /\ h[a].total >= 24 /\ a + h[a].total <= Limit
    BY <2>1 DEF H!Block, H!End
  <2> QED BY <2>1, <2>2, Ends DEF HeaderAt, Addresses, Alignment, HeaderSize
<1>2. ASSUME NEW a \in DOMAIN h, NEW b \in DOMAIN h, a < b PROVE a + 16 <= b
  <2>1. a + h[a].total <= b  BY <1>2 DEF H!Chain, H!Apart, H!End
  <2> QED BY <1>1, <2>1
<1> QED BY <1>1, <1>2 DEF Spaced

(* The walks see exactly the chain, whatever lies between its headers.       *)
LEMMA ChainReadable ==
  ASSUME NEW m, NEW h, H!Chain(h), Holds(m, h), NEW a \in DOMAIN h
  PROVE  /\ ReadOK(m, a) /\ HeaderAt(a)
         /\ Total(m, a) = h[a].total /\ Prev(m, a) = h[a].prev
         /\ Used(m, a) <=> H!Used(h, a)
         /\ a + Total(m, a) = H!End(h, a)
         /\ a + Total(m, a) \in DOMAIN h \cup {Limit}
         /\ ReadHeader(m, a) = h[a]
<1>1. m[a] = h[a].total /\ m[a + 4] = h[a].prev /\ m[a + 8] = h[a].flags /\ m[a + 12] = h[a].id
  BY DEF Holds, Agrees
<1>2. HeaderAt(a) /\ h[a] \in H!Header  BY ChainSpaced DEF Spaced
<1>0. /\ ReadWord(m, a) = m[a] /\ ReadWord(m, a + 4) = m[a + 4]
      /\ ReadWord(m, a + 8) = m[a + 8] /\ ReadWord(m, a + 12) = m[a + 12]
      /\ Total(m, a) = m[a] /\ Prev(m, a) = m[a + 4] /\ (Used(m, a) <=> m[a + 8] = 1)
  BY <1>2, HeaderRead DEF HeaderAt
<1>3. /\ h[a].total \in Nat /\ h[a].total % 8 = 0 /\ h[a].total >= 24 /\ h[a].flags \in {0, 1}
      /\ a + h[a].total <= Limit /\ a + h[a].total \in DOMAIN h \cup {Limit}
  BY DEF H!Chain, H!Block, H!End
<1>4. a \in Nat /\ a >= Base /\ a <= Limit - 16  BY <1>2, HeaderCells, Ends
<1>5. ReadOK(m, a)
  BY <1>0, <1>1, <1>3, <1>4, Ends DEF ReadOK, HeaderSize, Alignment, FlagUsed
<1>6. ReadHeader(m, a) = h[a]
  BY <1>0, <1>1, <1>2 DEF ReadHeader, H!Header
<1> QED
  BY <1>0, <1>1, <1>2, <1>3, <1>5, <1>6 DEF H!Used, H!FlagUsed, H!End

LEMMA ChainSeen ==
  ASSUME NEW m, NEW h, H!Chain(h), Holds(m, h)
  PROVE  /\ Visited(m) = DOMAIN h /\ Blocks(m) = DOMAIN h /\ ~Broken(m)
         /\ [a \in Visited(m) |-> ReadHeader(m, a)] = h
<1> DEFINE w == Walk(m)
           D == DOMAIN h \cup {Limit}
           T == {a \in Addresses : a \in D => w[a] = {b \in DOMAIN h : b >= a}}
<1>1. MemOK(m) /\ Limit \in Nat  BY Ends DEF Holds
<1>2. \A a \in DOMAIN h : /\ HeaderAt(a) /\ a \in Nat /\ a < Limit /\ h[a].total \in Nat
                          /\ h[a].total >= 24
  <2>1. ASSUME NEW a \in DOMAIN h
        PROVE  HeaderAt(a) /\ a \in Nat /\ a < Limit /\ h[a].total \in Nat /\ h[a].total >= 24
    <3>1. HeaderAt(a)  BY ChainSpaced DEF Spaced
    <3>2. a \in Nat /\ a + 16 <= Limit  BY <3>1, HeaderCells
    <3>3. h[a].total \in Nat /\ h[a].total >= 24  BY DEF H!Chain, H!Block
    <3> QED BY <1>1, <3>1, <3>2, <3>3
  <2> QED BY <2>1
<1>3. ASSUME NEW a \in Addresses, \A b \in Addresses : b > a => b \in T
      PROVE  a \in T
  <2>1. SUFFICES ASSUME a \in D PROVE w[a] = {b \in DOMAIN h : b >= a}  OBVIOUS
  <2>2. w[a] = From(m, w, a) /\ (a >= Limit <=> a = Limit)
    BY <1>1, WalkIs, Ends DEF Addresses
  <2>3. CASE a = Limit
    <3>1. w[a] = {}  BY <2>2, <2>3 DEF From
    <3>2. \A b \in DOMAIN h : ~(b >= a)  BY <1>1, <1>2, <2>3
    <3> QED BY <3>1, <3>2
  <2>4. CASE a # Limit
    <3>1. a \in DOMAIN h  BY <2>1, <2>4
    <3>2. PICK n : n = a + Total(m, a)  OBVIOUS
    <3>3. ReadOK(m, a) /\ n \in D /\ n = H!End(h, a)  BY <3>1, <3>2, ChainReadable
    <3>4. w[a] = {a} \cup w[n]  BY <2>2, <2>4, <3>2, <3>3 DEF From
    <3>5. a \in Addresses /\ n \in Addresses  BY <1>2, <3>3, Ends DEF HeaderAt
    <3>6. n > a  BY <1>2, <3>1, <3>3 DEF H!End
    <3>7. w[n] = {b \in DOMAIN h : b >= n}  BY <1>3, <3>3, <3>5, <3>6
    <3>8. ASSUME NEW b \in DOMAIN h PROVE b >= a <=> (b = a \/ b >= n)
      <4>1. b > a => n <= b  BY <3>1, <3>3 DEF H!Chain, H!Apart
      <4>2. b \in Nat /\ a \in Nat /\ n \in Int  BY <1>1, <1>2, <3>1, <3>3
      <4> QED BY <3>6, <4>1, <4>2
    <3> QED BY <3>1, <3>4, <3>7, <3>8
  <2> QED BY <2>3, <2>4
<1>4. Addresses \subseteq T
  <2> HIDE DEF T
  <2> QED BY <1>3, FromTop
<1>5. Visited(m) = DOMAIN h
  <2>1. Base \in Addresses /\ Base \in DOMAIN h  BY Ends DEF H!Chain
  <2>2. w[Base] = {b \in DOMAIN h : b >= Base}  BY <1>4, <2>1
  <2>3. \A b \in DOMAIN h : b >= Base
    <3>1. ASSUME NEW b \in DOMAIN h PROVE b >= Base
      <4>1. HeaderAt(b)  BY <1>2
      <4> QED BY <4>1, HeaderCells
    <3> QED BY <3>1
  <2> QED BY <2>2, <2>3 DEF Visited
<1>6. Blocks(m) = DOMAIN h /\ ~Broken(m)
  <2>1. \A a \in DOMAIN h : ReadOK(m, a)  BY ChainReadable
  <2> QED BY <1>5, <2>1 DEF Blocks, Broken
<1>7. [a \in Visited(m) |-> ReadHeader(m, a)] = h
  <2>1. \A a \in DOMAIN h : ReadHeader(m, a) = h[a]  BY ChainReadable
  <2>2. h = [a \in DOMAIN h |-> h[a]]  BY DEF H!Chain
  <2> QED BY <1>5, <2>1, <2>2
<1> QED BY <1>5, <1>6, <1>7

-----------------------------------------------------------------------------
(* ALLOC on the words is ALLOC on the chain *)

LEMMA OKHolds ==
  ASSUME NEW m, NEW h, Holds(m, h), NEW a, H!HeaderOK(h, a)
  PROVE  ReadOK(m, a)
<1>1. a \in Addresses  BY DEF Holds, Spaced, HeaderAt, H!HeaderOK
<1>2. m[a] = h[a].total /\ m[a + 8] = h[a].flags  BY DEF Holds, Agrees, H!HeaderOK
<1> QED BY <1>1, <1>2, HeaderRead
    DEF H!HeaderOK, ReadOK, H!HeaderSize, H!Alignment, H!FlagUsed,
        HeaderSize, Alignment, FlagUsed

LEMMA UpdateOKHolds ==
  ASSUME NEW m, NEW h, Holds(m, h), NEW a, H!UpdatePrevOK(h, a)
  PROVE  UpdatePrevOK(m, a)
BY OKHolds DEF H!UpdatePrevOK, UpdatePrevOK

\* The words that change lie in the block of length size at a, or are the
\* prev_size of the block after it.
InBlock(m2, m, a, size) ==
  \A c \in Cells : m2[c] # m[c] => (a <= c /\ c < a + size) \/ c = a + size + 4

LEMMA MakeUsed ==
  ASSUME NEW m, NEW h, Holds(m, h), NEW a \in DOMAIN h, NEW size \in Nat, size >= 16,
         NEW prev \in Nat, NEW id \in Nat,
         \A b \in DOMAIN h : b <= a \/ b >= a + size
  PROVE  LET w == ZeroBytes(WriteHeader(m, a, size, prev, FlagUsed, id),
                            a + HeaderSize, a + size)
         IN /\ Holds(w, H!Write(h, a, size, prev, H!FlagUsed, id))
            /\ \A c \in Cells : w[c] # m[c] => a <= c /\ c < a + size
<1>1. PICK v, w, g : /\ v = WriteHeader(m, a, size, prev, FlagUsed, id)
                     /\ w = ZeroBytes(v, a + 16, a + size)
                     /\ g = H!Write(h, a, size, prev, 1, id)
  OBVIOUS
<1>2. HeaderAt(a) /\ Spaced(DOMAIN h) /\ FlagUsed = 1 /\ H!FlagUsed = 1 /\ MemOK(m)
  BY DEF Holds, Spaced, FlagUsed, H!FlagUsed
<1>3. a \in Nat  BY <1>2, HeaderCells
<1>4. DOMAIN h \cup {a} = DOMAIN h  OBVIOUS
<1>5. Holds(v, g)  BY <1>1, <1>2, <1>4, WriteHolds
<1>6. DOMAIN g = DOMAIN h  BY <1>1, <1>4 DEF H!Write
<1>7. \A b \in DOMAIN g : b + 16 <= a + 16 \/ b >= a + size
  <2>1. ASSUME NEW b \in DOMAIN h PROVE b + 16 <= a + 16 \/ b >= a + size
    <3>1. HeaderAt(b)  BY <1>2 DEF Spaced
    <3>2. b \in Nat  BY <3>1, HeaderCells
    <3> QED BY <1>3, <3>2
  <2> QED BY <1>6, <2>1
<1>8. Holds(w, g)
  <2>1. a + 16 \in Nat /\ a + size \in Nat  BY <1>3
  <2> QED BY <1>1, <1>5, <1>7, <2>1, ZeroHolds
<1>9. ASSUME NEW c \in Cells, w[c] # m[c] PROVE a <= c /\ c < a + size
  <2>1. Wrote(v, m, a, size, prev, FlagUsed, id)  BY <1>1, <1>2, HeaderWritten
  <2>2. w[c] = IF a + 16 <= c /\ c < a + size THEN 0 ELSE v[c]
    BY <1>1, <2>1 DEF ZeroBytes, Wrote, MemOK
  <2>3. c \in {a, a + 4, a + 8, a + 12} \/ (a + 16 <= c /\ c < a + size)
    BY <1>9, <2>1, <2>2 DEF Wrote
  <2>4. c \in Int  BY Ends DEF Cells, Margin
  <2> QED BY <1>3, <2>3, <2>4
<1> QED BY <1>1, <1>2, <1>8, <1>9 DEF HeaderSize

LEMMA AllocWholeWords ==
  ASSUME NEW m, NEW h, Holds(m, h), H!Chain(h), NEW a \in DOMAIN h,
         NEW needed \in Nat, ~H!Splits(h, a, needed), nextId \in Nat
  PROVE  LET r == AllocAt(m, a, needed)
         IN /\ r.status = "OK"
            /\ Holds(r.mem, H!Write(h, a, h[a].total, h[a].prev, H!FlagUsed, TakenId))
            /\ InBlock(r.mem, m, a, h[a].total)
<1> DEFINE w == ZeroBytes(WriteHeader(m, a, h[a].total, h[a].prev, FlagUsed, TakenId),
                          a + HeaderSize, a + h[a].total)
           r == AllocAt(m, a, needed)
<1>1. Total(m, a) = h[a].total /\ Prev(m, a) = h[a].prev  BY ChainReadable
<1>2. /\ h[a].total \in Nat /\ h[a].total >= 24 /\ h[a].prev \in Nat /\ TakenId \in Nat
  BY DEF H!Chain, H!Block, H!Header, TakenId
<1>3. r = Result(w, "OK", a + HeaderSize)
  BY <1>1 DEF AllocAt, H!Splits, H!HeaderSize, H!MinPayload, HeaderSize, MinPayload
<1>4. \A b \in DOMAIN h : b <= a \/ b >= a + h[a].total
  <2>1. ASSUME NEW b \in DOMAIN h PROVE b <= a \/ b >= a + h[a].total
    <3>1. a \in Nat /\ b \in Nat  BY DEF H!Chain
    <3>2. a < b => a + h[a].total <= b  BY DEF H!Chain, H!Apart, H!End
    <3> QED BY <1>2, <3>1, <3>2
  <2> QED BY <2>1
<1>5. PICK t, p, id : t = h[a].total /\ p = h[a].prev /\ id = TakenId  OBVIOUS
<1>6. /\ Holds(w, H!Write(h, a, t, p, H!FlagUsed, id))
      /\ \A c \in Cells : w[c] # m[c] => a <= c /\ c < a + t
  <2>1. t \in Nat /\ t >= 16 /\ p \in Nat /\ id \in Nat /\ \A b \in DOMAIN h : b <= a \/ b >= a + t
    BY <1>2, <1>4, <1>5
  <2>2. w = ZeroBytes(WriteHeader(m, a, t, p, FlagUsed, id), a + HeaderSize, a + t)  BY <1>5
  <2> HIDE DEF w
  <2> QED BY <2>1, <2>2, MakeUsed
<1> HIDE DEF w, r
<1>7. r.mem = w /\ r.status = "OK"  BY <1>3 DEF Result
<1>8. InBlock(r.mem, m, a, h[a].total)  BY <1>5, <1>6, <1>7 DEF InBlock
<1> QED BY <1>5, <1>6, <1>7, <1>8 DEF r

LEMMA AllocSplitWords ==
  ASSUME NEW m, NEW h, Holds(m, h), H!Chain(h), H!CoalescedIn(h), NEW a \in DOMAIN h, ~H!Used(h, a),
         NEW needed \in Nat, needed % 8 = 0, needed >= 24, H!Splits(h, a, needed),
         nextId \in Nat
  PROVE  LET r == AllocAt(m, a, needed)
         IN /\ r.status = "OK"
            /\ Holds(r.mem, H!Write(H!AfterSplit(h, a, needed), a, needed, h[a].prev,
                                    H!FlagUsed, TakenId))
            /\ InBlock(r.mem, m, a, h[a].total)
<1>1. PICK t, p, rest, s, end, id :
        /\ t = h[a].total /\ p = h[a].prev /\ rest = t - needed /\ s = a + needed
        /\ end = a + t /\ id = TakenId
  OBVIOUS
<1>2. Total(m, a) = t /\ Prev(m, a) = p  BY <1>1, ChainReadable
<1>3. /\ a \in Nat /\ t \in Nat /\ t >= 24 /\ t % 8 = 0 /\ p \in Nat /\ id \in Nat
      /\ a >= Base /\ a % 8 = 0 /\ end <= Limit /\ end \in DOMAIN h \cup {Limit}
  BY <1>1 DEF H!Chain, H!Block, H!Header, H!End, TakenId
<1>4. rest \in Nat /\ rest >= 24 /\ s + rest = end
  BY <1>1, <1>3 DEF H!Splits, H!HeaderSize, H!MinPayload
<1>5. \A b \in DOMAIN h : b \in Nat /\ (b <= a \/ b >= end)
  <2>1. ASSUME NEW b \in DOMAIN h PROVE b \in Nat /\ (b <= a \/ b >= end)
    <3>1. b \in Nat  BY DEF H!Chain
    <3>2. a < b => end <= b  BY <1>1 DEF H!Chain, H!Apart, H!End
    <3> QED BY <1>3, <3>1, <3>2
  <2> QED BY <2>1
<1>6. Spaced(DOMAIN h \cup {s})
  <2>1. HeaderAt(s)
    <3>1. s \in Nat /\ s % 8 = 0 /\ s >= Base /\ s <= Limit - 16  BY <1>1, <1>3, <1>4, Ends
    <3> QED BY <3>1, Ends DEF HeaderAt, Addresses, Alignment, HeaderSize
  <2>2. Spaced(DOMAIN h)  BY DEF Holds
  <2>3. ASSUME NEW b \in DOMAIN h PROVE (s < b => s + 16 <= b) /\ (b < s => b + 16 <= s)
    BY <1>1, <1>3, <1>4, <1>5
  <2>4. ~(s < s)  BY <1>1, <1>3
  <2> QED BY <2>1, <2>2, <2>3, <2>4 DEF Spaced
<1>7. PICK m1, h1 : m1 = WriteHeader(m, s, rest, needed, 0, 0) /\ h1 = H!Write(h, s, rest, needed, 0, 0)
  OBVIOUS
<1>8. Holds(m1, h1)  BY <1>4, <1>6, <1>7, WriteHolds
<1>9. DOMAIN h1 = DOMAIN h \cup {s} /\ \A b \in DOMAIN h1 : h1[b] \in H!Header
  <2>1. DOMAIN h1 = DOMAIN h \cup {s}  BY <1>7 DEF H!Write
  <2>2. ASSUME NEW b \in DOMAIN h1 PROVE h1[b] \in H!Header
    <3>1. b # s => h1[b] = h[b] /\ h[b] \in H!Header  BY <1>7, <2>1 DEF H!Write, H!Chain
    <3>2. b = s => h1[b] = [total |-> rest, prev |-> needed, flags |-> 0, id |-> 0]
      BY <1>7, <2>1 DEF H!Write
    <3> QED BY <1>4, <3>1, <3>2 DEF H!Header
  <2> QED BY <2>1, <2>2
<1>10. H!SplitOK(h, a, needed)
  <2>1. PICK i \in Nat : i # 0  OBVIOUS
  <2>2. \A g : g = H!Write(H!AfterSplit(h, a, needed), a, needed, h[a].prev, H!FlagUsed, i)
                => H!SplitOK(h, a, needed) /\ H!Chain(g) /\ H!CoalescedIn(g)
    BY <2>1, H!SplitKeeps, Assumed
  <2> QED BY <2>2
<1>11. h1 = H!WithRemainder(h, a, needed) /\ H!End(h, a) = end
  BY <1>1, <1>7 DEF H!WithRemainder, H!End
<1>12. WriteOK(s, rest)
  BY <1>1, <1>10 DEF H!SplitOK, H!WriteOK, WriteOK, H!HeaderSize, HeaderSize
<1>13. UpdatePrevOK(m1, end)
  BY <1>8, <1>10, <1>11, UpdateOKHolds DEF H!SplitOK
<1>14. PICK m2, h2 : m2 = UpdatePrev(m1, end, rest) /\ h2 = H!UpdatePrev(h1, end, rest)  OBVIOUS
<1>15. Holds(m2, h2)  BY <1>3, <1>4, <1>8, <1>9, <1>14, UpdateHolds
<1>16. h2 = H!AfterSplit(h, a, needed)  BY <1>1, <1>11, <1>14 DEF H!AfterSplit
<1>17. DOMAIN h2 = DOMAIN h \cup {s}  BY <1>9, <1>14 DEF H!UpdatePrev
<1>18. PICK w : w = ZeroBytes(WriteHeader(m2, a, needed, p, FlagUsed, id), a + HeaderSize, a + needed)
  OBVIOUS
<1>19. /\ Holds(w, H!Write(h2, a, needed, p, H!FlagUsed, id))
       /\ \A c \in Cells : w[c] # m2[c] => a <= c /\ c < a + needed
  <2>1. \A b \in DOMAIN h2 : b <= a \/ b >= a + needed  BY <1>1, <1>3, <1>4, <1>5, <1>17
  <2>2. a \in DOMAIN h2  BY <1>17
  <2> QED BY <1>3, <1>15, <1>18, <2>1, <2>2, MakeUsed
<1>20. PICK r : r = AllocAt(m, a, needed)  OBVIOUS
<1>21. r = Result(w, "OK", a + HeaderSize)
  <2>1. rest >= HeaderSize + MinPayload  BY <1>4 DEF HeaderSize, MinPayload
  <2>2. a + needed + rest = end  BY <1>1, <1>4
  <2> QED BY <1>1, <1>2, <1>7, <1>12, <1>13, <1>14, <1>18, <1>20, <2>1, <2>2 DEF AllocAt
<1>22. r.mem = w /\ r.status = "OK"  BY <1>21 DEF Result
<1>23. InBlock(w, m, a, t)
  <2>1. ASSUME NEW c \in Cells, w[c] # m[c] PROVE (a <= c /\ c < a + t) \/ c = a + t + 4
    <3>1. c \in Int  BY Ends DEF Cells, Margin
    <3>2. CASE w[c] # m2[c]  BY <1>1, <1>3, <1>4, <1>19, <3>1, <3>2
    <3>3. CASE m2[c] # m1[c]
      <4>1. c = end + 4  BY <1>8, <1>14, <3>3 DEF UpdatePrev, Holds, MemOK
      <4> QED BY <1>1, <4>1
    <3>4. CASE m1[c] # m[c]
      <4>1. HeaderAt(s) /\ MemOK(m)  BY <1>6 DEF Spaced, Holds
      <4>2. Wrote(m1, m, s, rest, needed, 0, 0)  BY <1>4, <1>7, <4>1, HeaderWritten
      <4>3. c \in {s, s + 4, s + 8, s + 12}  BY <3>4, <4>2 DEF Wrote
      <4> QED BY <1>1, <1>3, <1>4, <4>3
    <3> QED BY <2>1, <3>2, <3>3, <3>4
  <2> QED BY <2>1 DEF InBlock
<1>24. Holds(r.mem, H!Write(H!AfterSplit(h, a, needed), a, needed, h[a].prev, H!FlagUsed, TakenId))
  BY <1>1, <1>16, <1>19, <1>22
<1> QED BY <1>1, <1>20, <1>22, <1>23, <1>24

-----------------------------------------------------------------------------
(* FREE on the words is FREE on the chain *)

\* Every word that changes belongs to a header on the chain.
InHeaders(m2, m, D) ==
  \A c \in Cells : m2[c] # m[c] => \E b \in D : c \in {b, b + 4, b + 8, b + 12}

LEMMA MergeWords ==
  ASSUME NEW m, NEW h, Holds(m, h), H!Chain(h), NEW p \in DOMAIN h, NEW x \in DOMAIN h \ {p},
         NEW t \in Nat, NEW q \in Nat, NEW end \in (DOMAIN h \ {x}) \cup {Limit},
         NEW g, g = H!Write(H!Absorb(h, x), p, t, q, 0, 0), H!UpdatePrevOK(g, end),
         NEW m1, m1 = WriteHeader(m, p, t, q, 0, 0)
  PROVE  /\ UpdatePrevOK(m1, end)
         /\ Holds(UpdatePrev(m1, end, t), H!UpdatePrev(g, end, t))
         /\ InHeaders(UpdatePrev(m1, end, t), m, DOMAIN h)
<1>1. PICK h0 : h0 = H!Absorb(h, x)  OBVIOUS
<1>2. DOMAIN h0 = DOMAIN h \ {x} /\ \A b \in DOMAIN h0 : h0[b] = h[b]  BY <1>1 DEF H!Absorb
<1>3. Holds(m, h0)  BY <1>1, AbsorbHolds
<1>4. Spaced(DOMAIN h0 \cup {p})  BY <1>2 DEF Holds, Spaced
<1>5. Holds(m1, g)
  <2>1. 0 \in Nat  OBVIOUS
  <2>2. g = H!Write(h0, p, t, q, 0, 0)  BY <1>1
  <2> QED BY <1>3, <1>4, <2>1, <2>2, WriteHolds
<1>6. DOMAIN g = DOMAIN h0 \cup {p}  BY <1>1 DEF H!Write
<1>7. ASSUME NEW b \in DOMAIN g PROVE g[b] \in H!Header
  <2>1. b = p => g[b] = [total |-> t, prev |-> q, flags |-> 0, id |-> 0]
    BY <1>1, <1>6 DEF H!Write
  <2>2. b # p => g[b] = h[b] /\ b \in DOMAIN h  BY <1>1, <1>2, <1>6 DEF H!Write
  <2>3. b # p => h[b] \in H!Header  BY <2>2 DEF H!Chain
  <2> QED BY <2>1, <2>2, <2>3 DEF H!Header
<1>8. UpdatePrevOK(m1, end)  BY <1>5, UpdateOKHolds
<1>9. end \in DOMAIN g \cup {Limit}  BY <1>2, <1>6
<1>10. Holds(UpdatePrev(m1, end, t), H!UpdatePrev(g, end, t))
  BY <1>5, <1>7, <1>9, UpdateHolds
<1>11. PICK m2 : m2 = UpdatePrev(m1, end, t)  OBVIOUS
<1>12. ASSUME NEW c \in Cells, m2[c] # m[c]
       PROVE  \E b \in DOMAIN h : c \in {b, b + 4, b + 8, b + 12}
  <2>1. CASE m2[c] # m1[c]
    <3>1. c = end + 4 /\ end # Limit  BY <1>5, <1>11, <2>1 DEF UpdatePrev, Holds, MemOK
    <3> QED BY <3>1
  <2>2. CASE m1[c] # m[c]
    <3>1. HeaderAt(p) /\ MemOK(m) /\ 0 \in Nat  BY DEF Holds, Spaced
    <3>2. Wrote(m1, m, p, t, q, 0, 0)  BY <3>1, HeaderWritten
    <3>3. c \in {p, p + 4, p + 8, p + 12}  BY <2>2, <3>2 DEF Wrote
    <3> QED BY <3>3
  <2> QED BY <1>12, <2>1, <2>2
<1> QED BY <1>8, <1>10, <1>11, <1>12 DEF InHeaders

LEMMA FreeLeftWords ==
  ASSUME NEW m, NEW g, Holds(m, g), H!Chain(g), NEW a \in DOMAIN g, ~H!Used(g, a),
         H!PrevOK(g, a),
         H!MergesPrev(g, a) => /\ H!WriteOK(H!Left(g, a), g[H!Left(g, a)].total + g[a].total)
                               /\ H!UpdatePrevOK(H!Joined(g, a), H!End(g, a)),
         NEW total, total = g[a].total
  PROVE  LET r == FreeLeft(m, a, total)
         IN r.status = "OK" /\ Holds(r.mem, H!AfterPrev(g, a)) /\ InHeaders(r.mem, m, DOMAIN g)
<1>1. PICK prev, p, end : prev = g[a].prev /\ p = a - prev /\ end = a + total  OBVIOUS
<1>2. /\ Prev(m, a) = prev /\ Total(m, a) = total
      /\ end \in DOMAIN g \cup {Limit} /\ end = H!End(g, a) /\ p = H!Left(g, a)
  BY <1>1, ChainReadable DEF H!Left
<1>3. a \in Nat /\ total \in Nat /\ total >= 24 /\ prev \in Nat
  BY <1>1 DEF H!Chain, H!Block, H!Header
<1>4. PICK r : r = FreeLeft(m, a, total)  OBVIOUS
<1>5. InHeaders(m, m, DOMAIN g)  BY DEF InHeaders
<1>6. CASE prev = 0
  <2>1. r = Result(m, "OK", 0)  BY <1>2, <1>4, <1>6 DEF FreeLeft
  <2>2. H!AfterPrev(g, a) = g  BY <1>1, <1>6 DEF H!AfterPrev, H!MergesPrev
  <2> QED BY <1>4, <1>5, <2>1, <2>2 DEF Result
<1>7. CASE prev # 0
  <2>1. prev <= a - Base /\ H!HeaderOK(g, p) /\ g[p].total = prev
    BY <1>1, <1>2, <1>7 DEF H!PrevOK
  <2>2. p \in DOMAIN g  BY <2>1 DEF H!HeaderOK
  <2>3. ReadOK(m, p) /\ Total(m, p) = prev /\ Prev(m, p) = g[p].prev
        /\ (Used(m, p) <=> H!Used(g, p))
    BY <2>1, <2>2, ChainReadable
  <2>4. ~(prev > a - Base) /\ p = a - Prev(m, a)  BY <1>1, <1>2, <1>3, <2>1, Ends
  <2>5. CASE H!Used(g, p)
    <3>1. r = Result(m, "OK", 0)  BY <1>2, <1>4, <1>7, <2>3, <2>4, <2>5 DEF FreeLeft
    <3>2. H!AfterPrev(g, a) = g  BY <1>2, <2>5 DEF H!AfterPrev, H!MergesPrev
    <3> QED BY <1>4, <1>5, <3>1, <3>2 DEF Result
  <2>6. CASE ~H!Used(g, p)
    <3>1. PICK t, q, j, m1 : /\ t = prev + total /\ q = g[p].prev /\ j = H!Joined(g, a)
                             /\ m1 = WriteHeader(m, p, t, q, 0, 0)
      OBVIOUS
    <3>2. H!MergesPrev(g, a)  BY <1>1, <1>2, <1>7, <2>6 DEF H!MergesPrev
    <3>3. H!WriteOK(p, t) /\ H!UpdatePrevOK(j, end)
      BY <1>2, <2>1, <3>1, <3>2
    <3>4. t \in Nat /\ q \in Nat /\ p + t = end
      <4>1. g[p] \in H!Header  BY <2>2 DEF H!Chain
      <4> QED BY <1>1, <1>3, <3>1, <4>1 DEF H!Header
    <3>5. j = H!Write(H!Absorb(g, a), p, t, q, 0, 0)
      BY <1>2, <2>1, <3>1 DEF H!Joined
    <3>6. a \in DOMAIN g \ {p} /\ end \in (DOMAIN g \ {a}) \cup {Limit}  BY <1>1, <1>2, <1>3, <1>7
    <3>7. /\ UpdatePrevOK(m1, end)
          /\ Holds(UpdatePrev(m1, end, t), H!UpdatePrev(j, end, t))
          /\ InHeaders(UpdatePrev(m1, end, t), m, DOMAIN g)
      BY <2>2, <3>1, <3>3, <3>4, <3>5, <3>6, MergeWords
    <3>8. WriteOK(p, t)  BY <3>3 DEF H!WriteOK, WriteOK, H!HeaderSize, HeaderSize
    <3>9. p + prev + total = end  BY <1>1, <1>3
    <3>10. r = Result(UpdatePrev(m1, end, t), "OK", 0)
      BY <1>2, <1>4, <1>7, <2>3, <2>4, <2>6, <3>1, <3>7, <3>8, <3>9 DEF FreeLeft
    <3>11. H!AfterPrev(g, a) = H!UpdatePrev(j, end, t)
      BY <1>2, <2>1, <3>1, <3>2 DEF H!AfterPrev
    <3> QED BY <1>4, <3>7, <3>10, <3>11 DEF Result
  <2> QED BY <2>5, <2>6
<1> QED BY <1>6, <1>7

LEMMA InHeadersOn ==
  ASSUME NEW m, NEW m1, NEW m2, NEW D, NEW E, E \subseteq D,
         InHeaders(m1, m, D), InHeaders(m2, m1, E)
  PROVE  InHeaders(m2, m, D)
<1>1. ASSUME NEW c \in Cells, m2[c] # m[c]
      PROVE  \E b \in D : c \in {b, b + 4, b + 8, b + 12}
  <2>1. CASE m2[c] # m1[c]  BY <2>1 DEF InHeaders
  <2>2. CASE m1[c] # m[c]  BY <2>2 DEF InHeaders
  <2> QED BY <1>1, <2>1, <2>2
<1> QED BY <1>1 DEF InHeaders

LEMMA FreeAtWords ==
  ASSUME NEW m0, NEW h, Holds(m0, h), H!Chain(h), NEW a \in DOMAIN h,
         NEW f, f = H!Freed(h, a), NEW g, g = H!AfterNext(f, a),
         NEW k, k = H!AfterPrev(g, a), H!FreeParts(h, a, f, g, k)
  PROVE  LET r == FreeAt(m0, a)
         IN r.status = "OK" /\ Holds(r.mem, k) /\ InHeaders(r.mem, m0, DOMAIN h)
<1>1. PICK total, prev, n, m :
        /\ total = h[a].total /\ prev = h[a].prev /\ n = a + total
        /\ m = WriteHeader(m0, a, total, prev, 0, 0)
  OBVIOUS
<1>2. Total(m0, a) = total /\ Prev(m0, a) = prev  BY <1>1, ChainReadable
<1>3. a \in Nat /\ total \in Nat /\ total >= 24 /\ prev \in Nat
  BY <1>1 DEF H!Chain, H!Block, H!Header
<1>4. Holds(m, f)
  <2>1. DOMAIN h \cup {a} = DOMAIN h /\ 0 \in Nat  OBVIOUS
  <2>2. Spaced(DOMAIN h \cup {a})  BY <2>1 DEF Holds
  <2>3. f = H!Write(h, a, total, prev, 0, 0)  BY <1>1 DEF H!Freed
  <2> QED BY <1>1, <1>3, <2>1, <2>2, <2>3, WriteHolds
<1>5. /\ H!Chain(f) /\ DOMAIN f = DOMAIN h /\ ~H!Used(f, a) /\ H!Chain(g)
      /\ a \in DOMAIN g /\ ~H!Used(g, a) /\ H!PrevOK(g, a)
      /\ H!MergesPrev(g, a) => /\ H!WriteOK(H!Left(g, a), g[H!Left(g, a)].total + g[a].total)
                               /\ H!UpdatePrevOK(H!Joined(g, a), H!End(g, a))
      /\ H!NextOK(f, a)
  BY DEF H!FreeParts
<1>6. f[a].total = total /\ f[a].prev = prev /\ H!End(f, a) = n
  BY <1>1 DEF H!Freed, H!Write, H!End
<1>7. n \in DOMAIN f \cup {Limit} /\ n \in Nat
  <2>1. H!Block(f, a)  BY <1>5 DEF H!Chain
  <2> QED BY <1>1, <1>3, <1>6, <2>1 DEF H!Block
<1>8. Total(m, a) = total /\ Prev(m, a) = prev
  BY <1>4, <1>5, <1>6, ChainReadable
<1>9. InHeaders(m, m0, DOMAIN h)
  <2>1. HeaderAt(a) /\ MemOK(m0) /\ 0 \in Nat  BY DEF Holds, Spaced
  <2>2. Wrote(m, m0, a, total, prev, 0, 0)  BY <1>1, <1>3, <2>1, HeaderWritten
  <2> QED BY <2>2 DEF Wrote, InHeaders
<1>10. PICK r : r = FreeAt(m0, a)  OBVIOUS
\* What remains after the merge to the right.
<1>11. ASSUME NEW m2, NEW t, Holds(m2, g), t = g[a].total, InHeaders(m2, m, DOMAIN h),
              DOMAIN g \subseteq DOMAIN h, r = FreeLeft(m2, a, t)
       PROVE  r.status = "OK" /\ Holds(r.mem, k) /\ InHeaders(r.mem, m0, DOMAIN h)
  <2>1. r.status = "OK" /\ Holds(r.mem, H!AfterPrev(g, a)) /\ InHeaders(r.mem, m2, DOMAIN g)
    BY <1>5, <1>11, FreeLeftWords
  <2>2. InHeaders(m2, m0, DOMAIN h)  BY <1>9, <1>11, InHeadersOn
  <2>3. PICK m3 : m3 = r.mem  OBVIOUS
  <2>4. InHeaders(m3, m0, DOMAIN h)  BY <1>11, <2>1, <2>2, <2>3, InHeadersOn
  <2> QED BY <2>1, <2>3, <2>4
<1>12. InHeaders(m, m, DOMAIN h)  BY DEF InHeaders
<1>13. CASE ~H!MergesNext(f, a)
  <2>1. g = f  BY <1>13 DEF H!AfterNext
  <2>2. r = FreeLeft(m, a, total)
    <3>1. CASE n >= Limit
      BY <1>1, <1>2, <1>10, <3>1 DEF FreeAt
    <3>2. CASE ~(n >= Limit)
      <4>1. n \in DOMAIN f /\ n < Limit  BY <1>7, <3>2, Ends
      <4>2. H!Used(f, n) /\ f[n].prev = total
        BY <1>5, <1>6, <1>13, <4>1 DEF H!MergesNext, H!NextOK
      <4>3. ReadOK(m, n) /\ Prev(m, n) = total /\ Used(m, n)
        BY <1>4, <1>5, <4>1, <4>2, ChainReadable
      <4> QED BY <1>1, <1>2, <1>10, <3>2, <4>3 DEF FreeAt
    <3> QED BY <3>1, <3>2
  <2>3. Holds(m, g) /\ total = g[a].total /\ DOMAIN g \subseteq DOMAIN h
    BY <1>4, <1>5, <1>6, <2>1
  <2>4. r.status = "OK" /\ Holds(r.mem, k) /\ InHeaders(r.mem, m0, DOMAIN h)
    BY <1>11, <1>12, <2>2, <2>3
  <2> QED BY <1>10, <2>4
<1>14. CASE H!MergesNext(f, a)
  <2>1. n \in DOMAIN f /\ n < Limit /\ ~H!Used(f, n)
    BY <1>6, <1>7, <1>14 DEF H!MergesNext
  <2>2. f[n].prev = total  BY <1>5, <1>6, <2>1 DEF H!NextOK
  <2>3. ReadOK(m, n) /\ Prev(m, n) = total /\ ~Used(m, n) /\ Total(m, n) = f[n].total
    BY <1>4, <1>5, <2>1, <2>2, ChainReadable
  <2>4. PICK grown, end, j, m1 :
          /\ grown = total + f[n].total /\ end = n + f[n].total
          /\ j = H!Grown(f, a) /\ m1 = WriteHeader(m, a, grown, prev, 0, 0)
    OBVIOUS
  <2>5. /\ f[n].total \in Nat /\ f[n].total >= 24
        /\ end \in DOMAIN f \cup {Limit} /\ end = H!End(f, n)
    BY <1>5, <2>1, <2>4 DEF H!Chain, H!Block, H!End
  <2>6. grown \in Nat /\ a + grown = end /\ end > n /\ n # a  BY <1>1, <1>3, <1>7, <2>4, <2>5
  <2>7. H!WriteOK(a, grown) /\ H!UpdatePrevOK(j, end)
    BY <1>6, <1>14, <2>4, <2>5 DEF H!FreeParts
  <2>8. j = H!Write(H!Absorb(f, n), a, grown, prev, 0, 0)
    BY <1>6, <2>4 DEF H!Grown
  <2>9. /\ UpdatePrevOK(m1, end)
        /\ Holds(UpdatePrev(m1, end, grown), H!UpdatePrev(j, end, grown))
        /\ InHeaders(UpdatePrev(m1, end, grown), m, DOMAIN f)
    <3>1. n \in DOMAIN f \ {a} /\ end \in (DOMAIN f \ {n}) \cup {Limit} /\ a \in DOMAIN f
      BY <1>5, <1>7, <2>1, <2>5, <2>6
    <3> QED BY <1>3, <1>4, <1>5, <2>4, <2>6, <2>7, <2>8, <3>1, MergeWords
  <2>10. g = H!UpdatePrev(j, end, grown)
    BY <1>6, <1>14, <2>4, <2>5 DEF H!AfterNext
  <2>11. DOMAIN g \subseteq DOMAIN h /\ g[a].total = grown
    <3>1. DOMAIN j = (DOMAIN f \ {n}) \cup {a} /\ j[a].total = grown
      BY <2>8 DEF H!Write, H!Absorb
    <3>2. DOMAIN g = DOMAIN j  BY <2>10 DEF H!UpdatePrev
    <3>3. end # a  BY <1>1, <1>3, <2>6
    <3>4. g[a] = j[a]  BY <2>10, <3>1, <3>3 DEF H!UpdatePrev
    <3> QED BY <1>5, <3>1, <3>2, <3>4
  <2>12. PICK m2 : m2 = UpdatePrev(m1, end, grown)  OBVIOUS
  <2>13. r = FreeLeft(m2, a, grown)
    <3>1. ~(n >= Limit)  BY <1>7, <2>1, Ends
    <3>2. WriteOK(a, grown)  BY <2>7 DEF H!WriteOK, WriteOK, H!HeaderSize, HeaderSize
    <3>3. total + Total(m, n) = grown  BY <2>3, <2>4
    <3> QED BY <1>1, <1>2, <1>8, <1>10, <2>3, <2>4, <2>6, <2>9, <2>12, <3>1, <3>2, <3>3 DEF FreeAt
  <2>14. r.status = "OK" /\ Holds(r.mem, k) /\ InHeaders(r.mem, m0, DOMAIN h)
    <3>1. Holds(m2, g) /\ InHeaders(m2, m, DOMAIN h)  BY <1>5, <2>9, <2>10, <2>12
    <3> QED BY <1>11, <2>11, <2>13, <3>1
  <2> QED BY <1>10, <2>14
<1> QED BY <1>13, <1>14

-----------------------------------------------------------------------------
(* ChainSpec speaks of Chain!..., the lemmas of NovaHeapProofs of H!...: the  *)
(* same operators, defined by the same formulas.                            *)

LEMMA SameHeaders ==
  /\ \A h, a : Chain!HeaderOK(h, a) <=> H!HeaderOK(h, a)
  /\ \A h, a : Chain!Used(h, a) <=> H!Used(h, a)
  /\ \A h, a : Chain!End(h, a) = H!End(h, a)
  /\ \A a, t : Chain!WriteOK(a, t) <=> H!WriteOK(a, t)
  /\ \A h, a, t, p, f, i : Chain!Write(h, a, t, p, f, i) = H!Write(h, a, t, p, f, i)
  /\ \A h, a, p : Chain!UpdatePrev(h, a, p) = H!UpdatePrev(h, a, p)
  /\ \A h, a : Chain!Absorb(h, a) = H!Absorb(h, a)
  /\ \A h, a : Chain!Left(h, a) = H!Left(h, a)
  /\ Chain!HeaderSize = H!HeaderSize /\ Chain!MinPayload = H!MinPayload /\ Chain!FlagUsed = H!FlagUsed
  /\ Chain!Alignment = H!Alignment /\ Chain!Arena = H!Arena
BY Zenon DEF Chain!HeaderOK, H!HeaderOK, Chain!Used, H!Used, Chain!End, H!End,
       Chain!WriteOK, H!WriteOK, Chain!Write, H!Write, Chain!UpdatePrev, H!UpdatePrev,
       Chain!Absorb, H!Absorb, Chain!Left, H!Left, Chain!HeaderSize, H!HeaderSize,
       Chain!MinPayload, H!MinPayload, Chain!FlagUsed, H!FlagUsed, Chain!Alignment, H!Alignment,
       Chain!Arena, H!Arena

LEMMA SameSteps ==
  /\ \A h, a : Chain!UpdatePrevOK(h, a) <=> H!UpdatePrevOK(h, a)
  /\ \A h, a : Chain!Reaches(h, a) <=> H!Reaches(h, a)
  /\ \A h, a, n : Chain!Splits(h, a, n) <=> H!Splits(h, a, n)
  /\ \A h, a, n : Chain!WithRemainder(h, a, n) = H!WithRemainder(h, a, n)
  /\ \A h, a, n : Chain!SplitOK(h, a, n) <=> H!SplitOK(h, a, n)
  /\ \A h, a, n : Chain!AfterSplit(h, a, n) = H!AfterSplit(h, a, n)
  /\ \A h, a : Chain!Freed(h, a) = H!Freed(h, a)
  /\ \A h, a : Chain!NextOK(h, a) <=> H!NextOK(h, a)
  /\ \A h, a : Chain!MergesNext(h, a) <=> H!MergesNext(h, a)
  /\ \A h, a : Chain!Grown(h, a) = H!Grown(h, a)
  /\ \A h, a : Chain!AfterNext(h, a) = H!AfterNext(h, a)
  /\ \A h, a : Chain!PrevOK(h, a) <=> H!PrevOK(h, a)
  /\ \A h, a : Chain!MergesPrev(h, a) <=> H!MergesPrev(h, a)
  /\ \A h, a : Chain!Joined(h, a) = H!Joined(h, a)
  /\ \A h, a : Chain!AfterPrev(h, a) = H!AfterPrev(h, a)
<1>1. ASSUME NEW h, NEW a PROVE Chain!UpdatePrevOK(h, a) <=> H!UpdatePrevOK(h, a)
  BY SameHeaders DEF Chain!UpdatePrevOK, H!UpdatePrevOK
<1>2. ASSUME NEW h, NEW a PROVE Chain!Reaches(h, a) <=> H!Reaches(h, a)
  BY SameHeaders DEF Chain!Reaches, H!Reaches
<1>3. ASSUME NEW h, NEW a, NEW n PROVE Chain!Splits(h, a, n) <=> H!Splits(h, a, n)
  BY SameHeaders DEF Chain!Splits, H!Splits
<1>4. ASSUME NEW h, NEW a, NEW n PROVE Chain!WithRemainder(h, a, n) = H!WithRemainder(h, a, n)
  BY SameHeaders DEF Chain!WithRemainder, H!WithRemainder
<1>5. ASSUME NEW h, NEW a, NEW n PROVE Chain!SplitOK(h, a, n) <=> H!SplitOK(h, a, n)
  BY SameHeaders, <1>1, <1>4 DEF Chain!SplitOK, H!SplitOK
<1>6. ASSUME NEW h, NEW a, NEW n PROVE Chain!AfterSplit(h, a, n) = H!AfterSplit(h, a, n)
  BY SameHeaders, <1>4 DEF Chain!AfterSplit, H!AfterSplit
<1>7. ASSUME NEW h, NEW a PROVE Chain!Freed(h, a) = H!Freed(h, a)
  BY SameHeaders DEF Chain!Freed, H!Freed
<1>8. ASSUME NEW h, NEW a PROVE Chain!NextOK(h, a) <=> H!NextOK(h, a)
  BY SameHeaders DEF Chain!NextOK, H!NextOK
<1>9. ASSUME NEW h, NEW a PROVE Chain!MergesNext(h, a) <=> H!MergesNext(h, a)
  BY SameHeaders DEF Chain!MergesNext, H!MergesNext
<1>10. ASSUME NEW h, NEW a PROVE Chain!Grown(h, a) = H!Grown(h, a)
  BY SameHeaders DEF Chain!Grown, H!Grown
<1>11. ASSUME NEW h, NEW a PROVE Chain!AfterNext(h, a) = H!AfterNext(h, a)
  BY SameHeaders, <1>9, <1>10 DEF Chain!AfterNext, H!AfterNext
<1>12. ASSUME NEW h, NEW a PROVE Chain!PrevOK(h, a) <=> H!PrevOK(h, a)
  BY SameHeaders DEF Chain!PrevOK, H!PrevOK
<1>13. ASSUME NEW h, NEW a PROVE Chain!MergesPrev(h, a) <=> H!MergesPrev(h, a)
  BY SameHeaders DEF Chain!MergesPrev, H!MergesPrev
<1>14. ASSUME NEW h, NEW a PROVE Chain!Joined(h, a) = H!Joined(h, a)
  BY SameHeaders DEF Chain!Joined, H!Joined
<1>15. ASSUME NEW h, NEW a PROVE Chain!AfterPrev(h, a) = H!AfterPrev(h, a)
  BY SameHeaders, <1>13, <1>14 DEF Chain!AfterPrev, H!AfterPrev
<1> QED BY <1>1, <1>2, <1>3, <1>4, <1>5, <1>6, <1>7, <1>8, <1>9, <1>10, <1>11, <1>12, <1>13, <1>14, <1>15

-----------------------------------------------------------------------------
(* As long as the guest is tame *)

\* The inductive invariant for a tame guest.
ChainInv == H!Chain(ChainHeaders) /\ H!CoalescedIn(ChainHeaders)
TameInv ==
  /\ WordsInv
  /\ nextId \in 0 .. IdMod - 1
  /\ wildStores \in Nat
  /\ Tame => ChainInv

(* What an operation makes of a memory that holds the chain h. *)
Makes(g) == Holds(mem', g) /\ H!Chain(g) /\ H!CoalescedIn(g)
Kept == \A c \in LivePayload(mem) : mem'[c] = mem[c]

LEMMA MakesChain ==
  ASSUME NEW g, Makes(g)
  PROVE  ChainHeaders' = g /\ ChainInv'
<1>1. PICK m : m = mem'  OBVIOUS
<1>2. [a \in Visited(m) |-> ReadHeader(m, a)] = g  BY <1>1, ChainSeen DEF Makes
<1>3. ChainHeaders' = g  BY <1>1, <1>2 DEF ChainHeaders, Visited, Walk, ReadHeader, ReadOK, Total
<1> QED BY <1>3 DEF Makes, ChainInv, H!Chain, H!CoalescedIn

LEMMA ChainHeld ==
  ASSUME TameInv, Tame
  PROVE  /\ Holds(mem, ChainHeaders) /\ H!Chain(ChainHeaders) /\ H!CoalescedIn(ChainHeaders)
         /\ Blocks(mem) = DOMAIN ChainHeaders /\ ~Broken(mem)
<1>1. PICK h : h = ChainHeaders  OBVIOUS
<1>2. H!Chain(h) /\ H!CoalescedIn(h)  BY <1>1 DEF TameInv, ChainInv
<1>3. Agrees(mem, h)
  <2>1. DOMAIN h \subseteq Addresses  BY <1>1, VisitedTyped DEF ChainHeaders, TameInv, WordsInv
  <2> QED BY <1>1, <2>1, HeaderRead DEF Agrees, ChainHeaders, ReadHeader
<1>4. Holds(mem, h)  BY <1>2, <1>3, ChainSpaced DEF TameInv, WordsInv, Holds
<1>5. Blocks(mem) = DOMAIN h /\ ~Broken(mem)  BY <1>2, <1>4, ChainSeen
<1> QED BY <1>1, <1>2, <1>4, <1>5

(* The live payload lies off the headers and outside every other block.      *)
LEMMA LiveCells ==
  ASSUME NEW m, NEW h, Holds(m, h), H!Chain(h), NEW c \in LivePayload(m)
  PROVE  /\ c \in Cells /\ c \in Int /\ c < Limit
         /\ \A b \in DOMAIN h : c \notin {b, b + 4, b + 8, b + 12}
         /\ \A b \in DOMAIN h : ~H!Used(h, b) => c < b \/ c >= b + h[b].total
<1>1. Blocks(m) = DOMAIN h  BY ChainSeen
<1>2. PICK a \in DOMAIN h : Used(m, a) /\ a + HeaderSize <= c /\ c < a + Total(m, a) /\ c \in Cells
  BY <1>1 DEF LivePayload
<1>3. Total(m, a) = h[a].total /\ H!Used(h, a)  BY <1>2, ChainReadable
<1>4. c \in Int  BY <1>2, Ends DEF Cells, Margin
<1>5. ASSUME NEW b \in DOMAIN h
      PROVE  /\ c \notin {b, b + 4, b + 8, b + 12}
             /\ ~H!Used(h, b) => c < b \/ c >= b + h[b].total
  <2>1. /\ a \in Nat /\ b \in Nat /\ h[a].total \in Nat /\ h[b].total \in Nat /\ h[b].total >= 24
        /\ a < b => a + h[a].total <= b
        /\ b < a => b + h[b].total <= a
    BY DEF H!Chain, H!Block, H!Apart, H!End
  <2>2. a + 16 <= c /\ c < a + h[a].total  BY <1>2, <1>3 DEF HeaderSize
  <2>3. CASE a = b  BY <1>3, <1>4, <2>1, <2>2, <2>3
  <2>4. CASE a < b  BY <1>4, <2>1, <2>2, <2>4
  <2>5. CASE b < a  BY <1>4, <2>1, <2>2, <2>5
  <2> QED BY <2>1, <2>3, <2>4, <2>5
<1>6. c < Limit
  <2>1. a \in Nat /\ h[a].total \in Nat /\ a + h[a].total <= Limit
    BY DEF H!Chain, H!Block, H!End
  <2> QED BY <1>2, <1>3, <1>4, <2>1, Ends
<1> QED BY <1>2, <1>4, <1>5, <1>6

LEMMA InitMemHolds == Holds(InitMem, H!InitHeader)
<1>1. PICK z, h, g, t : /\ z = [c \in Cells |-> 0] /\ h = [x \in {} |-> 0] /\ g = H!InitHeader
                        /\ t = Limit - Base
  OBVIOUS
<1>2. HeaderAt(Base) /\ t \in Nat /\ Base \in Nat  BY <1>1, Ends DEF HeaderAt, HeaderSize
<1>3. Holds(z, h)  BY <1>1 DEF Holds, Spaced, Agrees, MemOK
<1>4. Spaced(DOMAIN h \cup {Base})  BY <1>1, <1>2 DEF Spaced
<1>5. g = H!Write(h, Base, t, 0, 0, 0)  BY <1>1 DEF H!InitHeader, H!Write, H!Arena
<1>6. InitMem = WriteHeader(z, Base, t, 0, 0, 0)  BY <1>1 DEF InitMem
<1>7. Holds(InitMem, g)  BY <1>2, <1>3, <1>4, <1>5, <1>6, WriteHolds
<1> QED BY <1>1, <1>7

LEMMA InitMakes ==
  ASSUME mem' = InitMem
  PROVE  Makes(H!InitHeader)
BY InitMemHolds, H!InitChain, Assumed DEF Makes

LEMMA LeastNat ==
  ASSUME NEW S, S \subseteq Nat, NEW x \in S
  PROVE  \E y \in S : \A z \in S : y <= z
<1>1. \E y \in S : \A z \in S : ~(<<z, y>> \in OpToRel(<, Nat))
  BY WFMin, NatLessThanWellFounded, Zenon
<1>2. PICK y \in S : \A z \in S : ~(<<z, y>> \in OpToRel(<, Nat))  BY <1>1
<1>3. \A z \in S : ~(z < y)  BY <1>2, Zenon DEF OpToRel
<1>4. y \in Nat /\ \A z \in S : z \in Nat  OBVIOUS
<1>5. \A z \in S : y <= z  BY <1>3, <1>4
<1> QED BY <1>5

LEMMA BlockKept ==
  ASSUME NEW h, Holds(mem, h), H!Chain(h), NEW a \in DOMAIN h, ~H!Used(h, a),
         InBlock(mem', mem, a, h[a].total)
  PROVE  Kept
<1>1. ASSUME NEW c \in LivePayload(mem) PROVE mem'[c] = mem[c]
  <2>1. PICK end : end = a + h[a].total  OBVIOUS
  <2>2. /\ c \in Cells /\ c \in Int /\ c < Limit /\ (c < a \/ c >= end)
        /\ \A b \in DOMAIN h : c \notin {b, b + 4, b + 8, b + 12}
    BY <2>1, LiveCells
  <2>3. end \in DOMAIN h \cup {Limit} /\ a \in Nat /\ end \in Nat
    BY <2>1 DEF H!Chain, H!Block, H!End
  <2>4. c # end + 4  BY <2>2, <2>3, Ends
  <2>5. ~((a <= c /\ c < end) \/ c = end + 4)  BY <2>2, <2>3, <2>4
  <2> QED BY <2>1, <2>2, <2>5 DEF InBlock
<1> QED BY <1>1 DEF Kept

LEMMA HeadersKept ==
  ASSUME NEW h, Holds(mem, h), H!Chain(h), InHeaders(mem', mem, DOMAIN h)
  PROVE  Kept
<1>1. ASSUME NEW c \in LivePayload(mem) PROVE mem'[c] = mem[c]
  <2>1. c \in Cells /\ \A b \in DOMAIN h : c \notin {b, b + 4, b + 8, b + 12}  BY LiveCells
  <2> QED BY <2>1 DEF InHeaders
<1> QED BY <1>1 DEF Kept

\* The request is rounded up and compared with the blocks alike.
LEMMA SameFit ==
  ASSUME NEW h, Holds(mem, h), H!Chain(h), NEW size
  PROVE  /\ Chain!AlignUp(size) = AlignUp(size) /\ Chain!MaxRequest = MaxRequest
         /\ Chain!HeaderSize = HeaderSize /\ Chain!TakenId = TakenId
         /\ \A a \in DOMAIN h :
              Chain!Fits(h, size, a) <=>
                ~Used(mem, a) /\ Total(mem, a) - HeaderSize >= AlignUp(size)
<1>1. /\ Chain!AlignUp(size) = AlignUp(size) /\ Chain!MaxRequest = MaxRequest
      /\ Chain!HeaderSize = HeaderSize /\ Chain!TakenId = TakenId
  BY DEF Chain!AlignUp, AlignUp, Chain!Alignment, Alignment, Chain!MaxRequest, MaxRequest,
         Chain!Arena, Chain!HeaderSize, HeaderSize, Chain!TakenId, TakenId
<1>2. ASSUME NEW a \in DOMAIN h
      PROVE  Chain!Fits(h, size, a) <=>
                ~Used(mem, a) /\ Total(mem, a) - HeaderSize >= AlignUp(size)
  <2>1. Total(mem, a) = h[a].total /\ (Used(mem, a) <=> H!Used(h, a))  BY ChainReadable
  <2>2. Chain!Used(h, a) <=> H!Used(h, a)  BY SameHeaders
  <2> QED BY <1>1, <2>1, <2>2 DEF Chain!Fits
<1> QED BY <1>1, <1>2

LEMMA AllocFitTame ==
  ASSUME TameInv, Tame, NEW size \in Sizes, AllocFit(size)
  PROVE  ChainInv' /\ Kept /\ Chain!Alloc(size)
<1>1. PICK h, needed : h = ChainHeaders /\ needed = HeaderSize + AlignUp(size)  OBVIOUS
<1>2. Holds(mem, h) /\ H!Chain(h) /\ H!CoalescedIn(h) /\ Blocks(mem) = DOMAIN h
  BY <1>1, ChainHeld
<1>3. PICK a \in DOMAIN h : FirstFit(mem, size, a) /\ Install(AllocAt(mem, a, needed))
  BY <1>1, <1>2 DEF AllocFit
<1>4. size \in Nat /\ size # 0 /\ size <= MaxRequest  BY WordsAssumption DEF AllocFit
<1>5. AlignUp(size) \in Nat /\ AlignUp(size) % 8 = 0 /\ AlignUp(size) >= 8
  BY <1>4 DEF AlignUp, Alignment
<1>6. needed \in Nat /\ needed % 8 = 0 /\ needed >= 24  BY <1>1, <1>5 DEF HeaderSize
<1>7. nextId \in Nat /\ TakenId \in Nat /\ TakenId # 0  BY DEF TameInv, TakenId
<1>8. ~H!Used(h, a)
  <2>1. Used(mem, a) <=> H!Used(h, a)  BY <1>2, ChainReadable
  <2> QED BY <1>3, <2>1 DEF FirstFit
<1>9. PICK r : r = AllocAt(mem, a, needed)  OBVIOUS
<1>10. mem' = r.mem /\ lastStatus' = r.status /\ nextId' = (TakenId + 1) % IdMod
  BY <1>3, <1>9 DEF Install, AllocFit
<1>11. /\ Chain!FirstFit(h, size, a) /\ Chain!Reaches(h, a) /\ Chain!HeaderOK(h, a)
       /\ needed = Chain!HeaderSize + Chain!AlignUp(size) /\ nextId' = Chain!IdAfter
  <2>1. Chain!FirstFit(h, size, a)
    BY <1>2, <1>3, SameFit DEF Chain!FirstFit, FirstFit
  <2>2. Limit \notin DOMAIN h  BY <1>2, ChainSpaced, Ends DEF Spaced, HeaderAt, HeaderSize
  <2>3. H!Reaches(h, a) /\ H!HeaderOK(h, a)  BY <1>2, <2>2, H!ChainReaches, Assumed
  <2>4. Chain!Reaches(h, a) /\ Chain!HeaderOK(h, a)  BY <2>3, SameHeaders, SameSteps
  <2>5. needed = Chain!HeaderSize + Chain!AlignUp(size)  BY <1>1, <1>2, SameFit
  <2>6. Chain!TakenId = TakenId  BY <1>2, SameFit
  <2> QED BY <1>10, <2>1, <2>4, <2>5, <2>6 DEF Chain!IdAfter
<1>12. CASE H!Splits(h, a, needed)
  <2>1. PICK g : g = H!Write(H!AfterSplit(h, a, needed), a, needed, h[a].prev, H!FlagUsed, TakenId)
    OBVIOUS
  <2>2. H!SplitOK(h, a, needed) /\ H!Chain(g) /\ H!CoalescedIn(g)
    <3>1. PICK id : id = TakenId  OBVIOUS
    <3>2. \A w : w = H!Write(H!AfterSplit(h, a, needed), a, needed, h[a].prev, H!FlagUsed, id)
                => H!SplitOK(h, a, needed) /\ H!Chain(w) /\ H!CoalescedIn(w)
      BY <1>2, <1>6, <1>7, <1>8, <1>12, <3>1, H!SplitKeeps, Assumed
    <3> QED BY <2>1, <3>1, <3>2
  <2>3. r.status = "OK" /\ Holds(r.mem, g) /\ InBlock(r.mem, mem, a, h[a].total)
    BY <1>2, <1>6, <1>7, <1>8, <1>9, <1>12, <2>1, AllocSplitWords
  <2>4. Makes(g)  BY <1>10, <2>2, <2>3 DEF Makes
  <2>5. ChainHeaders' = g /\ ChainInv'  BY <2>4, MakesChain
  <2>6. Kept  BY <1>2, <1>8, <1>10, <2>3, BlockKept
  <2>7. Chain!AllocSplit(a, needed)
    <3>1. Chain!SplitOK(h, a, needed)  BY <2>2, SameSteps
    <3>2. Chain!TakenId = TakenId  BY <1>2, SameFit
    <3>3. g = Chain!Write(Chain!AfterSplit(h, a, needed), a, needed, h[a].prev, Chain!FlagUsed, TakenId)
      BY <2>1, SameHeaders, SameSteps
    <3>4. ChainHeaders' = g /\ lastStatus' = "OK"  BY <1>10, <2>3, <2>5
    <3> QED BY <1>1, <3>1, <3>2, <3>3, <3>4 DEF Chain!AllocSplit
  <2>8. Chain!Splits(h, a, needed)  BY <1>12, SameSteps
  <2>9. Chain!AllocFit(size)
    BY <1>1, <1>11, <2>7, <2>8 DEF Chain!AllocFit
  <2>10. size # 0 /\ size <= Chain!MaxRequest  BY <1>2, <1>4, SameFit
  <2> QED BY <2>5, <2>6, <2>9, <2>10 DEF Chain!Alloc
<1>13. CASE ~H!Splits(h, a, needed)
  <2>1. PICK g : g = H!Write(h, a, h[a].total, h[a].prev, H!FlagUsed, TakenId)
    OBVIOUS
  <2>2. H!Chain(g) /\ H!CoalescedIn(g)
    <3>1. PICK id : id = TakenId  OBVIOUS
    <3>2. \A w : w = H!Write(h, a, h[a].total, h[a].prev, H!FlagUsed, id)
                => H!Chain(w) /\ H!CoalescedIn(w)
      BY <1>2, <1>7, <3>1, H!TakenKeeps, Assumed
    <3> QED BY <2>1, <3>1, <3>2
  <2>3. r.status = "OK" /\ Holds(r.mem, g) /\ InBlock(r.mem, mem, a, h[a].total)
    BY <1>2, <1>6, <1>7, <1>9, <1>13, <2>1, AllocWholeWords
  <2>4. Makes(g)  BY <1>10, <2>2, <2>3 DEF Makes
  <2>5. ChainHeaders' = g /\ ChainInv'  BY <2>4, MakesChain
  <2>6. Kept  BY <1>2, <1>8, <1>10, <2>3, BlockKept
  <2>7. Chain!AllocWhole(a)
    <3>1. Chain!TakenId = TakenId  BY <1>2, SameFit
    <3>2. g = Chain!Write(h, a, h[a].total, h[a].prev, Chain!FlagUsed, TakenId)
      BY <2>1, SameHeaders
    <3>3. ChainHeaders' = g /\ lastStatus' = "OK"  BY <1>10, <2>3, <2>5
    <3> QED BY <1>1, <3>1, <3>2, <3>3 DEF Chain!AllocWhole
  <2>8. ~Chain!Splits(h, a, needed)  BY <1>13, SameSteps
  <2>9. Chain!AllocFit(size)
    BY <1>1, <1>11, <2>7, <2>8 DEF Chain!AllocFit
  <2>10. size # 0 /\ size <= Chain!MaxRequest  BY <1>2, <1>4, SameFit
  <2> QED BY <2>5, <2>6, <2>9, <2>10 DEF Chain!Alloc
<1> QED BY <1>12, <1>13

LEMMA SameMakes ==
  ASSUME TameInv, Tame, mem' = mem
  PROVE  ChainHeaders' = ChainHeaders /\ ChainInv' /\ Kept
<1>1. PICK h : h = ChainHeaders  OBVIOUS
<1>2. Makes(h)  BY <1>1, ChainHeld DEF Makes
<1> QED BY <1>1, <1>2, MakesChain DEF Kept

LEMMA AllocFailTame ==
  ASSUME TameInv, Tame, NEW size \in Sizes, AllocFail(size)
  PROVE  ChainInv' /\ Kept /\ Chain!Alloc(size)
<1>1. PICK h : h = ChainHeaders  OBVIOUS
<1>2. Holds(mem, h) /\ H!Chain(h) /\ Blocks(mem) = DOMAIN h /\ ~Broken(mem)
  BY <1>1, ChainHeld
<1>3. /\ size # 0 /\ nextId' = nextId
      /\ IF size > MaxRequest THEN Install(Result(mem, "OUT_OF_MEMORY", 0))
         ELSE /\ \A a \in Blocks(mem) : ~FirstFit(mem, size, a)
              /\ Install(Result(mem, "OUT_OF_MEMORY", 0))
  BY <1>2 DEF AllocFail
<1>4. mem' = mem /\ lastStatus' = "OUT_OF_MEMORY"  BY <1>3 DEF Install, Result
<1>5. ChainHeaders' = ChainHeaders /\ ChainInv' /\ Kept  BY <1>4, SameMakes
<1>6. Chain!MaxRequest = MaxRequest  BY <1>2, SameFit
<1>7. CASE size > MaxRequest
  BY <1>3, <1>4, <1>5, <1>6, <1>7 DEF Chain!Alloc, Chain!AllocTooBig
<1>8. CASE ~(size > MaxRequest)
  <2>1. \A a \in DOMAIN h : ~Chain!Fits(h, size, a)
    <3> DEFINE F == {a \in DOMAIN h : ~Used(mem, a) /\ Total(mem, a) - HeaderSize >= AlignUp(size)}
    <3>1. SUFFICES ASSUME NEW x \in F PROVE FALSE  BY <1>2, SameFit
    <3>2. F \subseteq Nat  BY <1>2 DEF H!Chain
    <3>3. PICK y \in F : \A z \in F : y <= z
      <4> HIDE DEF F
      <4> QED BY <3>1, <3>2, LeastNat
    <3>4. FirstFit(mem, size, y)  BY <1>2, <3>3 DEF FirstFit
    <3> QED BY <1>2, <1>3, <1>8, <3>3, <3>4
  <2>2. Chain!Reaches(h, Limit)
    <3>1. H!Reaches(h, Limit)  BY <1>2, H!ChainReaches, Assumed
    <3> QED BY <3>1, SameSteps
  <2>3. Chain!AllocFull(size)  BY <1>1, <1>3, <1>4, <1>5, <2>1, <2>2 DEF Chain!AllocFull
  <2>4. size \in Nat /\ MaxRequest \in Int  BY WordsAssumption DEF MaxRequest, HeaderSize, Alignment
  <2>5. size <= Chain!MaxRequest  BY <1>6, <1>8, <2>4
  <2> QED BY <1>3, <1>5, <2>3, <2>5 DEF Chain!Alloc
<1> QED BY <1>7, <1>8

LEMMA FreeTame ==
  ASSUME TameInv, Tame, NEW p \in FreeAddresses, Free(p)
  PROVE  ChainInv' /\ Kept /\ Chain!Free(p)
<1>1. PICK h, a : h = ChainHeaders /\ a = p - HeaderSize  OBVIOUS
<1>2. Holds(mem, h) /\ H!Chain(h) /\ H!CoalescedIn(h) /\ Blocks(mem) = DOMAIN h /\ ~Broken(mem)
  BY <1>1, ChainHeld
<1>3. a = p - Chain!HeaderSize  BY <1>1 DEF HeaderSize, Chain!HeaderSize
<1>4. nextId' = nextId  BY DEF Free
<1>5. CASE a \notin DOMAIN h
  <2>1. Install(Result(mem, "INVALID_FREE", 0))  BY <1>1, <1>2, <1>5 DEF Free
  <2>2. mem' = mem /\ lastStatus' = "INVALID_FREE"  BY <2>1 DEF Install, Result
  <2>3. ChainHeaders' = ChainHeaders /\ ChainInv' /\ Kept  BY <2>2, SameMakes
  <2>4. Chain!Reaches(h, Limit)
    <3>1. H!Reaches(h, Limit)  BY <1>2, H!ChainReaches, Assumed
    <3> QED BY <3>1, SameSteps
  <2>5. Chain!FreeMiss(p)
    BY <1>1, <1>3, <1>5, <2>2, <2>3, <2>4 DEF Chain!FreeMiss, Chain!Found
  <2> QED BY <1>4, <2>3, <2>5 DEF Chain!Free
<1>6. CASE a \in DOMAIN h
  <2>1. Chain!Found(p)
    <3>1. Limit \notin DOMAIN h  BY <1>2, ChainSpaced, Ends DEF Spaced, HeaderAt, HeaderSize
    <3>2. H!Reaches(h, a) /\ H!HeaderOK(h, a)  BY <1>2, <1>6, <3>1, H!ChainReaches, Assumed
    <3>3. Chain!Reaches(h, a) /\ Chain!HeaderOK(h, a)  BY <3>2, SameHeaders, SameSteps
    <3> QED BY <1>1, <1>3, <1>6, <3>3 DEF Chain!Found
  <2>2. Used(mem, a) <=> Chain!Used(h, a)
    <3>1. Used(mem, a) <=> H!Used(h, a)  BY <1>2, <1>6, ChainReadable
    <3> QED BY <3>1, SameHeaders
  <2>3. CASE ~Used(mem, a)
    <3>1. Install(Result(mem, "INVALID_FREE", 0))  BY <1>1, <1>2, <1>6, <2>3 DEF Free
    <3>2. mem' = mem /\ lastStatus' = "INVALID_FREE"  BY <3>1 DEF Install, Result
    <3>3. ChainHeaders' = ChainHeaders /\ ChainInv' /\ Kept  BY <3>2, SameMakes
    <3>4. Chain!FreeUnused(p)
      BY <1>1, <1>3, <2>1, <2>2, <2>3, <3>2, <3>3 DEF Chain!FreeUnused
    <3> QED BY <1>4, <3>3, <3>4 DEF Chain!Free
  <2>4. CASE Used(mem, a)
    <3>1. PICK f, g, k : f = H!Freed(h, a) /\ g = H!AfterNext(f, a) /\ k = H!AfterPrev(g, a)
      OBVIOUS
    <3>2. H!FreeParts(h, a, f, g, k)
      <4>1. H!Used(h, a)  BY <2>2, <2>4, SameHeaders
      <4> QED BY <1>2, <1>6, <3>1, <4>1, H!FreedMerges, Assumed
    <3>3. PICK r : r = FreeAt(mem, a)  OBVIOUS
    <3>4. Install(r)  BY <1>1, <1>2, <1>6, <2>4, <3>3 DEF Free
    <3>5. r.status = "OK" /\ Holds(r.mem, k) /\ InHeaders(r.mem, mem, DOMAIN h)
      BY <1>2, <1>6, <3>1, <3>2, <3>3, FreeAtWords
    <3>6. mem' = r.mem /\ lastStatus' = "OK"  BY <3>4, <3>5 DEF Install
    <3>7. H!Chain(k) /\ H!CoalescedIn(k)  BY <3>2 DEF H!FreeParts
    <3>8. Makes(k)  BY <3>5, <3>6, <3>7 DEF Makes
    <3>9. ChainHeaders' = k /\ ChainInv'  BY <3>8, MakesChain
    <3>10. Kept  BY <1>2, <3>5, <3>6, HeadersKept
    <3>11. f = Chain!Freed(h, a) /\ g = Chain!AfterNext(f, a) /\ k = Chain!AfterPrev(g, a)
      BY <3>1, SameSteps
    <3>12. /\ Chain!NextOK(f, a)
           /\ Chain!MergesNext(f, a) =>
                /\ Chain!WriteOK(a, f[a].total + f[Chain!End(f, a)].total)
                /\ Chain!UpdatePrevOK(Chain!Grown(f, a), Chain!End(f, Chain!End(f, a)))
      <4>1. /\ H!NextOK(f, a)
            /\ H!MergesNext(f, a) =>
                 /\ H!WriteOK(a, f[a].total + f[H!End(f, a)].total)
                 /\ H!UpdatePrevOK(H!Grown(f, a), H!End(f, H!End(f, a)))
        BY <3>2 DEF H!FreeParts
      <4> QED BY <4>1, SameHeaders, SameSteps
    <3>13. /\ Chain!PrevOK(g, a)
           /\ Chain!MergesPrev(g, a) =>
                /\ Chain!WriteOK(Chain!Left(g, a), g[Chain!Left(g, a)].total + g[a].total)
                /\ Chain!UpdatePrevOK(Chain!Joined(g, a), Chain!End(g, a))
      <4>1. /\ H!PrevOK(g, a)
            /\ H!MergesPrev(g, a) =>
                 /\ H!WriteOK(H!Left(g, a), g[H!Left(g, a)].total + g[a].total)
                 /\ H!UpdatePrevOK(H!Joined(g, a), H!End(g, a))
        BY <3>2 DEF H!FreeParts
      <4> QED BY <4>1, SameHeaders, SameSteps
    <3>14. Chain!FreeLeft(g, a)
      BY <3>6, <3>9, <3>11, <3>13 DEF Chain!FreeLeft
    <3>15. Chain!FreeUsed(f, a)
      BY <3>11, <3>12, <3>14 DEF Chain!FreeUsed
    <3>16. Chain!FreeUsed(Chain!Freed(ChainHeaders, p - Chain!HeaderSize), p - Chain!HeaderSize)
           /\ Chain!Used(ChainHeaders, p - Chain!HeaderSize)
      BY <1>1, <1>3, <2>2, <2>4, <3>11, <3>15
    <3> QED BY <1>4, <2>1, <3>9, <3>10, <3>16 DEF Chain!Free
  <2> QED BY <2>3, <2>4
<1> QED BY <1>5, <1>6

LEMMA StoreTame ==
  ASSUME TameInv, Tame, PayloadStore
  PROVE  ChainInv' /\ UNCHANGED Chain!vars
<1>1. PICK h : h = ChainHeaders  OBVIOUS
<1>2. Holds(mem, h) /\ H!Chain(h) /\ H!CoalescedIn(h) /\ Blocks(mem) = DOMAIN h
  BY <1>1, ChainHeld
<1>3. PICK a \in Blocks(mem), s \in PayloadStores :
        /\ Used(mem, a) /\ s.at + s.bytes <= Total(mem, a) - HeaderSize
        /\ GuestStore(a + HeaderSize + s.at, s.bytes, s.value)
  BY DEF PayloadStore
<1> DEFINE c == a + HeaderSize + s.at
<1>4. /\ MemOK(mem) /\ a \in Addresses /\ ReadOK(mem, a)
      /\ s.at \in Nat /\ s.bytes \in {1, 4} /\ s.value \in Nat
  BY <1>2, <1>3, VisitedTyped, StoreKinds DEF Blocks, Holds
<1>5. a \in Nat /\ a % 8 = 0 /\ a >= Base /\ Total(mem, a) \in Nat /\ a + Total(mem, a) <= Limit
  BY <1>4, Readable, Ends DEF Addresses, Alignment
<1>6. Stored(mem, mem', c, s.bytes)
  <2>1. c \in Nat /\ Base <= c /\ c + s.bytes <= Limit  BY <1>3, <1>4, <1>5, Ends DEF HeaderSize
  <2> QED BY <1>3, <1>4, <2>1, GuestStored
<1>7. nextId' = nextId /\ lastStatus' = lastStatus  BY <1>3 DEF GuestStore
<1>8. Holds(mem', h)
  <2>1. ASSUME NEW x \in c .. c + s.bytes - 1, NEW b \in DOMAIN h
        PROVE  Cell(x) \notin {b, b + 4, b + 8, b + 12}
    <3>1. x \in Nat /\ a + 16 <= x /\ x < a + Total(mem, a)
      BY <1>3, <1>4, <1>5 DEF HeaderSize
    <3>2. (a + 16) % 4 = 0 /\ a + 16 \in Nat  BY <1>5
    <3>3. Cell(x) \in Nat /\ a + 16 <= Cell(x) /\ Cell(x) <= x  BY <3>1, <3>2, CellOf
    <3>4. Base <= x /\ x < Limit  BY <1>5, <3>1, Ends
    <3>5. Cell(x) \in Cells  BY <3>1, <3>4, CellInArena
    <3>6. Cell(x) < a + Total(mem, a)  BY <1>5, <3>1, <3>3
    <3>7. Cell(x) \in LivePayload(mem)
      BY <1>3, <3>3, <3>5, <3>6 DEF LivePayload, HeaderSize
    <3> QED BY <1>2, <3>7, LiveCells
  <2> HIDE DEF c
  <2>2. ASSUME NEW b \in DOMAIN h
        PROVE  /\ mem'[b] = mem[b] /\ mem'[b + 4] = mem[b + 4]
               /\ mem'[b + 8] = mem[b + 8] /\ mem'[b + 12] = mem[b + 12]
    <3>1. HeaderAt(b)  BY <1>2 DEF Holds, Spaced
    <3>2. b \in Cells /\ b + 4 \in Cells /\ b + 8 \in Cells /\ b + 12 \in Cells
      BY <3>1, HeaderCells
    <3>3. ASSUME NEW d \in {b, b + 4, b + 8, b + 12} PROVE mem'[d] = mem[d]
      <4>1. d \in Cells /\ \A x \in c .. c + s.bytes - 1 : d # Cell(x)  BY <2>1, <3>2
      <4> QED BY <1>6, <4>1 DEF Stored
    <3> QED BY <3>3
  <2>3. MemOK(mem')  BY <1>6 DEF Stored
  <2> QED BY <1>2, <2>2, <2>3 DEF Holds, Agrees
<1>9. Makes(h)  BY <1>2, <1>8 DEF Makes
<1> QED BY <1>1, <1>7, <1>9, MakesChain DEF Chain!vars

LEMMA TameStep ==
  ASSUME TameInv, [Next]_vars
  PROVE  /\ TameInv'
         /\ Tame' => Chain!Next \/ UNCHANGED Chain!vars
         /\ Tame /\ Tame' /\ ~PayloadStore /\ ~Reset => Kept
<1>1. WordsInv /\ nextId \in 0 .. IdMod - 1 /\ wildStores \in Nat /\ IdMod \in Nat /\ IdMod >= 2
  BY WordsAssumption DEF TameInv
<1>2. WordsInv'
  <2>1. CASE Next
    <3>1. Contained(mem', payload') /\ nextId' \in Nat  BY <1>1, <2>1, WordsStep
    <3> QED BY <3>1 DEF Contained, WordsInv, DamageContained, MemOK, Total
  <2>2. CASE UNCHANGED vars
    BY <1>1, <2>2 DEF vars, WordsInv, DamageContained, MemOK, Total
  <2> QED BY <2>1, <2>2
<1>3. (TakenId + 1) % IdMod \in 0 .. IdMod - 1
  <2>1. TakenId \in Nat  BY <1>1 DEF TakenId
  <2>2. TakenId + 1 \in Nat /\ IdMod > 0  BY <1>1, <2>1
  <2> QED BY <1>1, <2>2
\* Any step that keeps the guest tame as it was, given what it does then.
<1>4. ASSUME nextId' \in 0 .. IdMod - 1, wildStores' = wildStores,
             Tame => ChainInv' /\ (Chain!Next \/ UNCHANGED Chain!vars) /\ (Kept \/ PayloadStore)
      PROVE  /\ TameInv'
             /\ Tame' => Chain!Next \/ UNCHANGED Chain!vars
             /\ Tame /\ Tame' /\ ~PayloadStore /\ ~Reset => Kept
  <2>1. Tame' <=> Tame  BY <1>4 DEF Tame
  <2> QED BY <1>1, <1>2, <1>4, <2>1 DEF TameInv
<1>5. ASSUME NEW size \in Sizes, AllocFit(size)
      PROVE  /\ TameInv'
             /\ Tame' => Chain!Next \/ UNCHANGED Chain!vars
             /\ Tame /\ Tame' /\ ~PayloadStore /\ ~Reset => Kept
  <2>1. wildStores' = wildStores /\ nextId' = (TakenId + 1) % IdMod  BY <1>5 DEF AllocFit, Install
  <2>2. Tame => ChainInv' /\ Kept /\ Chain!Alloc(size)  BY <1>5, AllocFitTame
  <2>3. Chain!Alloc(size) => Chain!Next  BY DEF Chain!Next
  <2> QED BY <1>3, <1>4, <2>1, <2>2, <2>3
<1>6. ASSUME NEW size \in Sizes, AllocFail(size)
      PROVE  /\ TameInv'
             /\ Tame' => Chain!Next \/ UNCHANGED Chain!vars
             /\ Tame /\ Tame' /\ ~PayloadStore /\ ~Reset => Kept
  <2>1. wildStores' = wildStores /\ nextId' = nextId  BY <1>6 DEF AllocFail, Install
  <2>2. Tame => ChainInv' /\ Kept /\ Chain!Alloc(size)  BY <1>6, AllocFailTame
  <2>3. Chain!Alloc(size) => Chain!Next  BY DEF Chain!Next
  <2> QED BY <1>1, <1>4, <2>1, <2>2, <2>3
<1>7. ASSUME NEW p \in FreeAddresses, Free(p)
      PROVE  /\ TameInv'
             /\ Tame' => Chain!Next \/ UNCHANGED Chain!vars
             /\ Tame /\ Tame' /\ ~PayloadStore /\ ~Reset => Kept
  <2>1. wildStores' = wildStores /\ nextId' = nextId  BY <1>7 DEF Free, Install
  <2>2. Tame => ChainInv' /\ Kept /\ Chain!Free(p)  BY <1>7, FreeTame
  <2>3. Chain!Free(p) => Chain!Next  BY DEF Chain!Next
  <2> QED BY <1>1, <1>4, <2>1, <2>2, <2>3
<1>8. CASE PayloadStore
  <2>1. wildStores' = wildStores /\ nextId' = nextId /\ Tame
    BY <1>8 DEF PayloadStore, GuestStore, Tame
  <2>2. ChainInv' /\ UNCHANGED Chain!vars  BY <1>8, <2>1, StoreTame
  <2> QED BY <1>1, <1>4, <1>8, <2>1, <2>2
<1>9. CASE WildStore
  <2>1. nextId' = nextId /\ wildStores' = wildStores + 1  BY <1>9 DEF WildStore, GuestStore
  <2>2. ~Tame' /\ wildStores' \in Nat  BY <1>1, <2>1 DEF Tame
  <2> QED BY <1>1, <1>2, <2>1, <2>2 DEF TameInv
<1>10. CASE Reset
  <2>1. /\ mem' = InitMem /\ nextId' = 1 /\ lastStatus' = "OK" /\ wildStores' = 0
    BY <1>10 DEF Reset
  <2>2. Makes(H!InitHeader)  BY <2>1, InitMakes
  <2>3. ChainHeaders' = H!InitHeader /\ ChainInv'  BY <2>2, MakesChain
  <2>4. Chain!InitHeader = H!InitHeader  BY SameHeaders DEF Chain!InitHeader, H!InitHeader
  <2>5. Chain!Next  BY <2>1, <2>3, <2>4 DEF Chain!Next, Chain!Reset
  <2> QED BY <1>1, <1>2, <1>10, <2>1, <2>3, <2>5 DEF TameInv
<1>11. CASE UNCHANGED vars
  <2>1. mem' = mem /\ nextId' = nextId /\ lastStatus' = lastStatus /\ wildStores' = wildStores
    BY <1>11 DEF vars
  <2>2. Tame => ChainHeaders' = ChainHeaders /\ ChainInv' /\ Kept  BY <2>1, SameMakes
  <2> QED BY <1>1, <1>4, <2>1, <2>2 DEF Chain!vars
<1> QED BY <1>5, <1>6, <1>7, <1>8, <1>9, <1>10, <1>11 DEF Next

LEMMA TameInit == Init => TameInv /\ Chain!Init
<1> SUFFICES ASSUME Init PROVE TameInv /\ Chain!Init  OBVIOUS
<1>1. PICK m : m = InitMem  OBVIOUS
<1>2. mem = m /\ nextId = 1 /\ lastStatus = "OK" /\ wildStores = 0 /\ payload = 0
  BY <1>1 DEF Init
<1>3. WordsInv  BY InitMemContained DEF Init, Contained, WordsInv, DamageContained
<1>4. Holds(m, H!InitHeader)  BY <1>1, InitMemHolds
<1>5. H!Chain(H!InitHeader) /\ H!CoalescedIn(H!InitHeader)  BY H!InitChain, Assumed
<1>6. ChainHeaders = H!InitHeader  BY <1>2, <1>4, <1>5, ChainSeen DEF ChainHeaders
<1>7. Chain!InitHeader = H!InitHeader  BY SameHeaders DEF Chain!InitHeader, H!InitHeader
<1>8. 1 \in 0 .. IdMod - 1  BY WordsAssumption
<1>9. TameInv  BY <1>2, <1>3, <1>5, <1>6, <1>8 DEF TameInv, ChainInv
<1> QED BY <1>2, <1>6, <1>7, <1>9 DEF Chain!Init

LEMMA TameInvariant == Spec => []TameInv
<1>1. Init => TameInv  BY TameInit
<1>2. TameInv /\ [Next]_vars => TameInv'  BY TameStep
<1> QED BY <1>1, <1>2, PTL DEF Spec

(* The words implement the chain of headers: while the guest keeps to its     *)
(* payloads, every walk of ALLOC and FREE sees the chain and nothing stale,  *)
(* and what each of them writes is what NovaHeap writes to the chain.        *)
THEOREM WordsImplementChain == Spec => ChainSpec
<1>1. Init => Chain!Init  BY TameInit
<1>2. TameInv /\ [Next]_vars => [Tame' => Chain!Next]_(Chain!vars)
  BY TameStep
<1> QED BY <1>1, <1>2, TameInvariant, PTL DEF Spec, ChainSpec

(* ALLOC and FREE leave the payload of every live block as it is.            *)
THEOREM LiveDataStays == Spec => LivePayloadKept
<1>1. TameInv /\ [Next]_vars =>
        [Tame /\ Tame' /\ ~PayloadStore /\ ~Reset =>
           \A c \in LivePayload(mem) \cap LivePayload(mem') : mem'[c] = mem[c]]_vars
  BY TameStep DEF Kept
<1> QED BY <1>1, TameInvariant, PTL DEF Spec, LivePayloadKept

-----------------------------------------------------------------------------
(* The loops that count their turns *)

LEMMA AllNat ==
  ASSUME NEW T, 0 \in T, \A n \in Nat : n \in T => n + 1 \in T
  PROVE  Nat \subseteq T
<1> SUFFICES ASSUME NEW x \in Nat \ T PROVE FALSE  OBVIOUS
<1> DEFINE S == Nat \ T
<1>1. S \subseteq Nat /\ x \in S  OBVIOUS
<1>2. PICK y \in S : \A z \in S : y <= z
  <2> HIDE DEF S
  <2> QED BY <1>1, LeastNat
<1>3. y \in Nat /\ y # 0  BY <1>2
<1>4. y - 1 \in Nat  BY <1>3
<1>5. y - 1 \in T  BY <1>2, <1>3, <1>4
<1>6. y - 1 + 1 \in T  BY <1>4, <1>5
<1> QED BY <1>2, <1>3, <1>6

\* The values a loop goes through, turn by turn.
Turns(S, F, s0, r) == r \in [Nat -> S] /\ r[0] = s0 /\ \A n \in Nat : r[n + 1] = F[r[n]]

LEMMA Iterate ==
  ASSUME NEW S, NEW F \in [S -> S], NEW s0 \in S
  PROVE  \E r : Turns(S, F, s0, r)
<1> DEFINE Good(n, f) == f \in [0 .. n -> S] /\ f[0] = s0 /\ \A i \in 1 .. n : f[i] = F[f[i - 1]]
           P == {n \in Nat : \E f : Good(n, f)}
<1>1. Nat \subseteq P
  <2>1. 0 \in P
    <3>1. Good(0, [i \in 0 .. 0 |-> s0])  OBVIOUS
    <3> QED BY <3>1
  <2>2. ASSUME NEW n \in Nat, n \in P PROVE n + 1 \in P
    <3>1. PICK f : Good(n, f)  BY <2>2
    <3>2. PICK g : g = [i \in 0 .. n + 1 |-> IF i <= n THEN f[i] ELSE F[f[n]]]  OBVIOUS
    <3>3. f[n] \in S  BY <3>1
    <3>4. g \in [0 .. n + 1 -> S] /\ g[0] = s0  BY <3>1, <3>2, <3>3
    <3>5. ASSUME NEW i \in 1 .. n + 1 PROVE g[i] = F[g[i - 1]]
      <4>1. i - 1 \in 0 .. n /\ g[i - 1] = f[i - 1]  BY <3>2
      <4>2. CASE i <= n  BY <3>1, <3>2, <4>1, <4>2
      <4>3. CASE i = n + 1  BY <3>2, <4>1, <4>3
      <4> QED BY <4>2, <4>3
    <3>6. Good(n + 1, g)  BY <3>4, <3>5
    <3> QED BY <3>6
  <2> HIDE DEF P
  <2> QED BY <2>1, <2>2, AllNat
<1>2. ASSUME NEW n \in Nat, NEW k \in Nat, n <= k, NEW f, Good(n, f), NEW g, Good(k, g)
      PROVE  f[n] = g[n]
  <2> DEFINE T == {i \in Nat : i <= n => f[i] = g[i]}
  <2>1. 0 \in T  BY <1>2
  <2>2. ASSUME NEW i \in Nat, i \in T PROVE i + 1 \in T
    <3>1. SUFFICES ASSUME i + 1 <= n PROVE f[i + 1] = g[i + 1]  OBVIOUS
    <3>2. i + 1 \in 1 .. n /\ i + 1 \in 1 .. k /\ (i + 1) - 1 = i  BY <1>2, <3>1
    <3>3. f[i + 1] = F[f[i]] /\ g[i + 1] = F[g[i]]  BY <1>2, <3>2
    <3> QED BY <2>2, <3>1, <3>3
  <2>3. Nat \subseteq T
    <3> HIDE DEF T
    <3> QED BY <2>1, <2>2, AllNat
  <2> QED BY <2>3
<1> DEFINE b == [n \in Nat |-> CHOOSE f : Good(n, f)]
           r == [n \in Nat |-> b[n][n]]
<1>3. \A n \in Nat : Good(n, b[n])  BY <1>1
<1>4. ASSUME NEW n \in Nat PROVE b[n][n] \in S
  <2> HIDE DEF b
  <2>1. Good(n, b[n])  BY <1>3
  <2>2. n \in 0 .. n  OBVIOUS
  <2> QED BY <2>1, <2>2
<1>5. b[0][0] = s0  BY <1>3
<1>6. ASSUME NEW n \in Nat PROVE b[n + 1][n + 1] = F[b[n][n]]
  <2> HIDE DEF b
  <2>1. Good(n, b[n]) /\ Good(n + 1, b[n + 1])  BY <1>3
  <2>2. n <= n + 1 /\ n + 1 \in Nat  OBVIOUS
  <2>3. b[n + 1][n] = b[n][n]
    <3> HIDE DEF Good
    <3> QED BY <1>2, <2>1, <2>2
  <2>4. n + 1 \in 1 .. n + 1 /\ (n + 1) - 1 = n  OBVIOUS
  <2> QED BY <2>1, <2>3, <2>4
<1> HIDE DEF b
<1>7. r \in [Nat -> S] /\ r[0] = s0 /\ \A n \in Nat : r[n + 1] = F[r[n]]
  BY <1>4, <1>5, <1>6
<1> QED BY <1>7 DEF Turns

Stats == [address : Addresses, total : Nat, used : Nat, free : Nat, largest : Nat,
          blocks : Nat, allocations : Nat]

LEMMA CountedIs ==
  ASSUME NEW m, MemOK(m), NEW s \in Stats
  PROVE  /\ ~ReadOK(m, s.address) => Counted(m, s) = s
         /\ Counted(m, s) \in Stats
         /\ ReadOK(m, s.address) =>
              LET room == Total(m, s.address) - 16
              IN /\ Counted(m, s).address = s.address + Total(m, s.address)
                 /\ Counted(m, s).total = s.total + room
                 /\ Counted(m, s).blocks = s.blocks + 1
                 /\ Counted(m, s).used = s.used + (IF Used(m, s.address) THEN room ELSE 0)
                 /\ Counted(m, s).free = s.free + (IF Used(m, s.address) THEN 0 ELSE room)
                 /\ Counted(m, s).allocations
                      = s.allocations + (IF Used(m, s.address) THEN 1 ELSE 0)
<1>1. PICK a, room, seen : /\ a = s.address /\ room = Total(m, a) - 16
                           /\ seen = [s EXCEPT !.address = a + Total(m, a), !.total = @ + room,
                                               !.blocks = @ + 1]
  OBVIOUS
<1>2. a \in Addresses  BY <1>1 DEF Stats
<1>3. CASE ~ReadOK(m, a)
  <2>1. Counted(m, s) = s  BY <1>1, <1>3 DEF Counted
  <2> QED BY <1>1, <1>3, <2>1
<1>4. CASE ReadOK(m, a)
  <2>1. room \in Nat /\ a + Total(m, a) \in Addresses  BY <1>1, <1>2, <1>4, Readable
  <2>2. /\ seen \in Stats
        /\ seen.address = a + Total(m, a) /\ seen.total = s.total + room /\ seen.blocks = s.blocks + 1
        /\ seen.used = s.used /\ seen.free = s.free /\ seen.allocations = s.allocations
        /\ seen.largest = s.largest
    <3>1. PICK u, v : /\ u = [s EXCEPT !.address = a + Total(m, a)]
                      /\ v = [u EXCEPT !.total = u.total + room]
      OBVIOUS
    <3>2. /\ u \in Stats
          /\ u.address = a + Total(m, a) /\ u.total = s.total /\ u.blocks = s.blocks
          /\ u.used = s.used /\ u.free = s.free /\ u.allocations = s.allocations
          /\ u.largest = s.largest
      BY <2>1, <3>1 DEF Stats
    <3>3. /\ v \in Stats
          /\ v.address = u.address /\ v.total = u.total + room /\ v.blocks = u.blocks
          /\ v.used = u.used /\ v.free = u.free /\ v.allocations = u.allocations
          /\ v.largest = u.largest
      <4>1. u \in Stats /\ room \in Nat /\ v = [u EXCEPT !.total = u.total + room]
        BY <2>1, <3>1, <3>2
      <4>2. u.total \in Nat  BY <4>1 DEF Stats
      <4>3. PICK x : x = u.total + room  OBVIOUS
      <4>4. x \in Nat /\ v = [u EXCEPT !.total = x]  BY <4>1, <4>2, <4>3
      <4>5. /\ v \in Stats
            /\ v.address = u.address /\ v.total = x /\ v.blocks = u.blocks
            /\ v.used = u.used /\ v.free = u.free /\ v.allocations = u.allocations
            /\ v.largest = u.largest
        BY <4>1, <4>4 DEF Stats
      <4> QED BY <4>3, <4>5
    <3>4. seen = [v EXCEPT !.blocks = v.blocks + 1]  BY <1>1, <3>1, <3>2, <3>3
    <3>5. /\ seen \in Stats
          /\ seen.address = v.address /\ seen.total = v.total /\ seen.blocks = v.blocks + 1
          /\ seen.used = v.used /\ seen.free = v.free /\ seen.allocations = v.allocations
          /\ seen.largest = v.largest
      BY <3>3, <3>4 DEF Stats
    <3> QED BY <3>2, <3>3, <3>5
  <2>3. CASE Used(m, a)
    <3>1. PICK t : t = [seen EXCEPT !.used = @ + room, !.allocations = @ + 1]  OBVIOUS
    <3>2. Counted(m, s) = t  BY <1>1, <1>4, <2>3, <3>1 DEF Counted, HeaderSize
    <3>3. /\ t \in Stats
          /\ t.address = seen.address /\ t.total = seen.total /\ t.blocks = seen.blocks
          /\ t.used = seen.used + room /\ t.free = seen.free
          /\ t.allocations = seen.allocations + 1
      <4>1. PICK u : u = [seen EXCEPT !.used = seen.used + room]  OBVIOUS
      <4>2. /\ u \in Stats
            /\ u.address = seen.address /\ u.total = seen.total /\ u.blocks = seen.blocks
            /\ u.used = seen.used + room /\ u.free = seen.free
            /\ u.allocations = seen.allocations
        BY <2>1, <2>2, <4>1 DEF Stats
      <4>3. t = [u EXCEPT !.allocations = u.allocations + 1]  BY <2>2, <3>1, <4>1, <4>2
      <4>4. /\ t \in Stats
            /\ t.address = u.address /\ t.total = u.total /\ t.blocks = u.blocks
            /\ t.used = u.used /\ t.free = u.free /\ t.allocations = u.allocations + 1
        BY <4>2, <4>3 DEF Stats
      <4> QED BY <4>2, <4>4
    <3>4. s.free \in Nat  BY DEF Stats
    <3> QED BY <1>1, <1>4, <2>2, <2>3, <3>2, <3>3, <3>4
  <2>4. CASE ~Used(m, a)
    <3>1. PICK t, big : t = [seen EXCEPT !.free = @ + room, !.largest = big]
                        /\ big = IF room > seen.largest THEN room ELSE seen.largest
      OBVIOUS
    <3>2. Counted(m, s) = t  BY <1>1, <1>4, <2>4, <3>1 DEF Counted, HeaderSize
    <3>3. big \in Nat  BY <2>1, <2>2, <3>1 DEF Stats
    <3>4. /\ t \in Stats
          /\ t.address = seen.address /\ t.total = seen.total /\ t.blocks = seen.blocks
          /\ t.used = seen.used /\ t.free = seen.free + room
          /\ t.allocations = seen.allocations
      <4>1. PICK u : u = [seen EXCEPT !.free = seen.free + room]  OBVIOUS
      <4>2. /\ u \in Stats
            /\ u.address = seen.address /\ u.total = seen.total /\ u.blocks = seen.blocks
            /\ u.used = seen.used /\ u.free = seen.free + room
            /\ u.allocations = seen.allocations
        BY <2>1, <2>2, <4>1 DEF Stats
      <4>3. t = [u EXCEPT !.largest = big]  BY <2>2, <3>1, <4>1, <4>2
      <4>4. /\ t \in Stats
            /\ t.address = u.address /\ t.total = u.total /\ t.blocks = u.blocks
            /\ t.used = u.used /\ t.free = u.free /\ t.allocations = u.allocations
        BY <3>3, <4>2, <4>3 DEF Stats
      <4> QED BY <4>2, <4>4
    <3>5. s.used \in Nat /\ s.allocations \in Nat  BY DEF Stats
    <3> QED BY <1>1, <1>4, <2>2, <2>4, <3>2, <3>4, <3>5
  <2> QED BY <2>3, <2>4
<1> QED BY <1>3, <1>4

LEMMA StatsAre ==
  ASSUME NEW m, MemOK(m)
  PROVE  \E A \in [Nat -> Stats] :
           A = StatsAfter(m) /\ A[0] = NoBlocks /\ \A n \in Nat : A[n + 1] = Counted(m, A[n])
<1>1. PICK F : F = [s \in Stats |-> Counted(m, s)]  OBVIOUS
<1>2. F \in [Stats -> Stats]  BY <1>1, CountedIs
<1>3. NoBlocks \in Stats  BY Ends DEF NoBlocks, Stats
<1>4. PICK r \in [Nat -> Stats] : r[0] = NoBlocks /\ \A n \in Nat : r[n + 1] = F[r[n]]
  <2>1. PICK S, s0 : S = Stats /\ s0 = NoBlocks  OBVIOUS
  <2>2. F \in [S -> S] /\ s0 \in S  BY <1>2, <1>3, <2>1
  <2>3. \E r : Turns(S, F, s0, r)  BY <2>2, Iterate
  <2> QED BY <2>1, <2>3 DEF Turns
<1>5. \A n \in Nat : r[n + 1] = Counted(m, r[n])  BY <1>1, <1>4
<1>6. r = [n \in Nat |-> IF n = 0 THEN NoBlocks ELSE Counted(m, r[n - 1])]
  <2>1. ASSUME NEW n \in Nat PROVE r[n] = IF n = 0 THEN NoBlocks ELSE Counted(m, r[n - 1])
    <3>1. CASE n = 0  BY <1>4, <3>1
    <3>2. CASE n # 0
      <4>1. n - 1 \in Nat /\ (n - 1) + 1 = n  BY <3>2
      <4>2. r[(n - 1) + 1] = Counted(m, r[n - 1])  BY <1>5, <4>1
      <4> QED BY <3>2, <4>1, <4>2
    <3> QED BY <3>1, <3>2
  <2> QED BY <1>4, <2>1
<1>7. StatsAfter(m) = [n \in Nat |-> IF n = 0 THEN NoBlocks ELSE Counted(m, StatsAfter(m)[n - 1])]
  BY <1>6, Zenon DEF StatsAfter
<1> DEFINE A == StatsAfter(m)
<1> HIDE DEF A
<1>8. A = [n \in Nat |-> IF n = 0 THEN NoBlocks ELSE Counted(m, A[n - 1])]  BY <1>7 DEF A
<1>9. A[0] = NoBlocks  BY <1>8
<1>10. ASSUME NEW n \in Nat PROVE A[n + 1] = Counted(m, A[n])
  <2>1. n + 1 \in Nat /\ n + 1 # 0 /\ (n + 1) - 1 = n  OBVIOUS
  <2>2. A[n + 1] = IF n + 1 = 0 THEN NoBlocks ELSE Counted(m, A[(n + 1) - 1])  BY <1>8, <2>1
  <2> QED BY <2>1, <2>2
<1>11. A \in [Nat -> Stats]
  <2> DEFINE T == {n \in Nat : A[n] \in Stats}
  <2>1. 0 \in T  BY <1>3, <1>9
  <2>2. ASSUME NEW n \in Nat, n \in T PROVE n + 1 \in T  BY <1>10, <2>2, CountedIs
  <2>3. Nat \subseteq T
    <3> HIDE DEF T
    <3> QED BY <2>1, <2>2, AllNat
  <2>4. \A n \in Nat : A[n] \in Stats  BY <2>3
  <2>5. A = [n \in Nat |-> A[n]]
    <3>1. PICK B : B = [n \in Nat |-> IF n = 0 THEN NoBlocks ELSE Counted(m, A[n - 1])]  OBVIOUS
    <3>2. B = [n \in Nat |-> B[n]]  BY <3>1
    <3>3. A = B  BY <1>8, <3>1
    <3> QED BY <3>2, <3>3
  <2> QED BY <2>4, <2>5
<1> QED BY <1>9, <1>10, <1>11 DEF A

\* What the turns of the loop have counted, over a chain.
CountOK(h, s, n) ==
  /\ s.address \in DOMAIN h \cup {Limit}
  /\ s.used + s.free + s.blocks * 16 = s.address - Base
  /\ s.total = s.used + s.free
  /\ s.blocks * 24 <= s.address - Base
  /\ s.blocks <= n
  /\ s.address # Limit => s.blocks = n

LEMMA CountGoesOn ==
  ASSUME NEW m, NEW h, Holds(m, h), H!Chain(h), NEW n \in Nat, NEW s \in Stats, CountOK(h, s, n)
  PROVE  /\ CountOK(h, Counted(m, s), n + 1)
         /\ s.address = Limit => Counted(m, s) = s
         /\ Counted(m, s).blocks >= s.blocks
         /\ s.address # Limit => Counted(m, s).blocks = s.blocks + 1
<1>1. PICK t, a : t = Counted(m, s) /\ a = s.address  OBVIOUS
<1>2. MemOK(m)  BY DEF Holds
<1>3. s.blocks \in Nat /\ s.used \in Nat /\ s.free \in Nat /\ s.total \in Nat /\ a \in Addresses
  BY <1>1 DEF Stats
<1>4. CASE a = Limit
  <2>1. ~ReadOK(m, a)  BY <1>4, Ends DEF ReadOK, HeaderSize
  <2>2. t = s  BY <1>1, <1>2, <2>1, CountedIs
  <2>3. CountOK(h, s, n + 1)  BY <1>1, <1>3, <1>4 DEF CountOK
  <2> QED BY <1>1, <1>3, <1>4, <2>2, <2>3
<1>5. CASE a # Limit
  <2>1. a \in DOMAIN h  BY <1>1, <1>5 DEF CountOK
  <2>2. PICK w, x, y : /\ w = Total(m, a) /\ x = (IF Used(m, a) THEN w - 16 ELSE 0)
                       /\ y = (IF Used(m, a) THEN 0 ELSE w - 16)
    OBVIOUS
  <2>3. ReadOK(m, a) /\ a + w \in DOMAIN h \cup {Limit} /\ w \in Nat /\ w >= 24
    <3>1. ReadOK(m, a) /\ Total(m, a) = h[a].total /\ a + Total(m, a) \in DOMAIN h \cup {Limit}
      BY <2>1, ChainReadable
    <3>2. h[a].total \in Nat /\ h[a].total >= 24  BY <2>1 DEF H!Chain, H!Block
    <3> QED BY <2>2, <3>1, <3>2
  <2>4. /\ t.address = a + w /\ t.total = s.total + (w - 16) /\ t.blocks = s.blocks + 1
        /\ t.used = s.used + x /\ t.free = s.free + y
    BY <1>1, <1>2, <2>2, <2>3, CountedIs
  <2>5. x \in Nat /\ y \in Nat /\ x + y = w - 16  BY <2>2, <2>3
  <2>6. /\ s.used + s.free + s.blocks * 16 = a - Base /\ s.total = s.used + s.free
        /\ s.blocks * 24 <= a - Base /\ s.blocks = n
    BY <1>1, <1>5 DEF CountOK
  <2>7. a \in Nat /\ Base \in Nat  BY <1>3, Ends DEF Addresses
  <2>8. PICK u, f, b : u = s.used /\ f = s.free /\ b = s.blocks  OBVIOUS
  <2>9. /\ (u + x) + (f + y) + (b + 1) * 16 = (a + w) - Base
        /\ (u + f) + (w - 16) = (u + x) + (f + y)
        /\ (b + 1) * 24 <= (a + w) - Base
    BY <1>3, <2>3, <2>5, <2>6, <2>7, <2>8
  <2>10. CountOK(h, t, n + 1)
    BY <1>3, <2>3, <2>4, <2>6, <2>8, <2>9 DEF CountOK
  <2> QED BY <1>1, <1>3, <1>5, <2>4, <2>10
<1> QED BY <1>4, <1>5

\* A count never goes back, and stays as it is at the limit.
Settled(A, n, k) ==
  A[n].blocks <= A[k].blocks /\ (A[n].address = Limit => A[k] = A[n])

LEMMA StatsSettle ==
  ASSUME NEW m, NEW h, Holds(m, h), H!Chain(h), NEW A \in [Nat -> Stats],
         A[0] = NoBlocks, \A n \in Nat : A[n + 1] = Counted(m, A[n])
  PROVE  /\ \A n \in Nat : CountOK(h, A[n], n)
         /\ \A n \in Nat, k \in Nat : n <= k => Settled(A, n, k)
<1>1. ASSUME NEW n \in Nat PROVE CountOK(h, A[n], n)
  <2> DEFINE T == {i \in Nat : CountOK(h, A[i], i)}
  <2>1. 0 \in T
    <3>1. Base \in DOMAIN h /\ Base \in Nat  BY Ends DEF H!Chain
    <3> QED BY <3>1 DEF CountOK, NoBlocks
  <2>2. ASSUME NEW i \in Nat, i \in T PROVE i + 1 \in T
    <3>1. CountOK(h, Counted(m, A[i]), i + 1)  BY <2>2, CountGoesOn
    <3> QED BY <3>1
  <2>3. Nat \subseteq T
    <3> HIDE DEF T
    <3> QED BY <2>1, <2>2, AllNat
  <2> QED BY <2>3
<1>2. ASSUME NEW i \in Nat
      PROVE  /\ A[i].blocks <= A[i + 1].blocks /\ A[i].blocks \in Nat
             /\ A[i].address = Limit => A[i + 1] = A[i]
  <2>1. PICK s : s = A[i]  OBVIOUS
  <2>2. s \in Stats /\ CountOK(h, s, i)  BY <1>1, <2>1
  <2>3. Counted(m, s).blocks >= s.blocks /\ (s.address = Limit => Counted(m, s) = s)
    BY <2>2, CountGoesOn
  <2>4. A[i + 1] = Counted(m, s) /\ A[i + 1] \in Stats  BY <2>1
  <2>5. s.blocks \in Nat /\ A[i + 1].blocks \in Nat  BY <2>2, <2>4 DEF Stats
  <2> QED BY <2>1, <2>3, <2>4, <2>5
<1>3. ASSUME NEW n \in Nat, NEW d \in Nat
      PROVE  /\ A[n].blocks <= A[n + d].blocks
             /\ A[n].address = Limit => A[n + d] = A[n]
  <2> DEFINE T == {i \in Nat : /\ A[n].blocks <= A[n + i].blocks
                               /\ A[n].address = Limit => A[n + i] = A[n]}
  <2>1. 0 \in T
    <3>1. n + 0 = n  OBVIOUS
    <3> QED BY <1>2, <3>1
  <2>2. ASSUME NEW i \in Nat, i \in T PROVE i + 1 \in T
    <3>1. n + i \in Nat /\ n + (i + 1) = (n + i) + 1  OBVIOUS
    <3>2. PICK k : k = n + i  OBVIOUS
    <3>3. /\ A[k].blocks <= A[k + 1].blocks /\ A[k].blocks \in Nat /\ A[k + 1].blocks \in Nat
          /\ A[k].address = Limit => A[k + 1] = A[k]
      BY <1>2, <3>1, <3>2
    <3>4. A[n].blocks \in Nat  BY <1>2
    <3> QED BY <2>2, <3>1, <3>2, <3>3, <3>4
  <2>3. Nat \subseteq T
    <3> HIDE DEF T
    <3> QED BY <2>1, <2>2, AllNat
  <2> QED BY <2>3
<1>4. ASSUME NEW n \in Nat, NEW k \in Nat, n <= k PROVE Settled(A, n, k)
  <2>1. PICK d \in Nat : n + d = k
    <3>1. k - n \in Nat /\ n + (k - n) = k  BY <1>4
    <3> QED BY <3>1
  <2>2. /\ A[n].blocks <= A[n + d].blocks
        /\ A[n].address = Limit => A[n + d] = A[n]
    BY <1>3
  <2> QED BY <2>1, <2>2 DEF Settled
<1> QED BY <1>1, <1>4

LEMMA EnoughTurns ==
  /\ MaxBlocks \in Nat /\ Limit - Base < MaxBlocks * 16 + 16
BY Ends DEF MaxBlocks, HeaderSize

\* The loops stop at the limit; the list of blocks is as long as their count.
LEMMA StatsEnd ==
  ASSUME NEW m, NEW h, Holds(m, h), H!Chain(h), NEW A \in [Nat -> Stats],
         A[0] = NoBlocks, \A n \in Nat : A[n + 1] = Counted(m, A[n])
  PROVE  /\ A[MaxBlocks].address = Limit
         /\ \A i \in Nat : A[i].address # Limit <=> i < A[MaxBlocks].blocks
<1>0. \A n \in Nat, k \in Nat : n <= k => Settled(A, n, k)  BY StatsSettle
<1>1. PICK M \in Nat : M = MaxBlocks /\ Limit - Base < M * 16 + 16  BY EnoughTurns
<1>2. PICK e \in Stats : e = A[M]  OBVIOUS
<1>3. e.blocks \in Nat  BY DEF Stats
<1>4. e.address = Limit
  <2>1. SUFFICES ASSUME e.address # Limit PROVE FALSE  OBVIOUS
  <2>2. CountOK(h, e, M)  BY <1>2, StatsSettle
  <2>3. e.address \in DOMAIN h /\ e.blocks = M /\ M * 24 <= e.address - Base
    BY <2>1, <2>2 DEF CountOK
  <2>4. PICK a \in DOMAIN h : a = e.address  BY <2>3
  <2>5. a \in Nat /\ a + 16 <= Limit  BY <2>4, HeaderCells DEF Holds, Spaced
  <2> QED BY <1>1, <2>3, <2>4, <2>5, Ends
<1>5. ASSUME NEW i \in Nat, A[i].address # Limit PROVE i < e.blocks
  <2>1. PICK s \in Stats : s = A[i]  OBVIOUS
  <2>2. CountOK(h, s, i)  BY <2>1, StatsSettle
  <2>3. s.blocks = i /\ s.address # Limit  BY <1>5, <2>1, <2>2 DEF CountOK
  <2>4. Counted(m, s).blocks = s.blocks + 1  BY <2>2, <2>3, CountGoesOn
  <2>5. A[i + 1].blocks = i + 1  BY <2>1, <2>3, <2>4
  <2>6. i < M
    <3>1. SUFFICES ASSUME i >= M PROVE FALSE  OBVIOUS
    <3>2. Settled(A, M, i)  BY <1>0, <3>1
    <3> QED BY <1>2, <1>4, <1>5, <3>2 DEF Settled
  <2>7. PICK k \in Nat : k = i + 1  OBVIOUS
  <2>8. Settled(A, k, M)  BY <1>0, <2>6, <2>7
  <2> QED BY <1>2, <1>3, <2>5, <2>7, <2>8 DEF Settled
<1>6. ASSUME NEW i \in Nat, A[i].address = Limit PROVE ~(i < e.blocks)
  <2>1. PICK s \in Stats : s = A[i]  OBVIOUS
  <2>2. s.blocks <= i /\ s.blocks \in Nat
    <3>1. CountOK(h, s, i)  BY <2>1, StatsSettle
    <3> QED BY <3>1 DEF CountOK, Stats
  <2>3. e = s
    <3>1. CASE i <= M
      <4>1. Settled(A, i, M)  BY <1>0, <3>1
      <4> QED BY <1>2, <1>6, <2>1, <4>1 DEF Settled
    <3>2. CASE i > M
      <4>1. Settled(A, M, i)  BY <1>0, <3>2
      <4> QED BY <1>2, <1>4, <2>1, <4>1 DEF Settled
    <3> QED BY <3>1, <3>2
  <2> QED BY <2>2, <2>3
<1> QED BY <1>1, <1>2, <1>4, <1>5, <1>6

\* The turns that found a block in use.
InUse(m, A, n) == {i \in 0 .. n - 1 : ReadOK(m, A[i].address) /\ Used(m, A[i].address)}

LEMMA InUseGrows ==
  ASSUME NEW m, NEW A, NEW n \in Nat
  PROVE  /\ IsFiniteSet(InUse(m, A, n)) /\ n \notin InUse(m, A, n)
         /\ InUse(m, A, n + 1)
              = IF ReadOK(m, A[n].address) /\ Used(m, A[n].address)
                THEN InUse(m, A, n) \cup {n} ELSE InUse(m, A, n)
<1>1. IsFiniteSet(0 .. n - 1)  BY FS_Interval
<1>2. IsFiniteSet(InUse(m, A, n))  BY <1>1, FS_Subset DEF InUse
<1>3. n \notin 0 .. n - 1 /\ (n + 1) - 1 = n /\ 0 .. n = (0 .. n - 1) \cup {n}  OBVIOUS
<1>4. InUse(m, A, n + 1) = {i \in (0 .. n - 1) \cup {n} :
                              ReadOK(m, A[i].address) /\ Used(m, A[i].address)}
  BY <1>3 DEF InUse
<1>5. InUse(m, A, n + 1)
        = IF ReadOK(m, A[n].address) /\ Used(m, A[n].address)
          THEN InUse(m, A, n) \cup {n} ELSE InUse(m, A, n)
  BY <1>4, Zenon DEF InUse
<1> QED BY <1>2, <1>3, <1>5 DEF InUse

LEMMA AllocationsAre ==
  ASSUME NEW m, MemOK(m), NEW A \in [Nat -> Stats],
         A[0] = NoBlocks, \A n \in Nat : A[n + 1] = Counted(m, A[n])
  PROVE  \A n \in Nat : A[n].allocations = Cardinality(InUse(m, A, n))
<1> DEFINE T == {n \in Nat : A[n].allocations = Cardinality(InUse(m, A, n))}
<1>1. 0 \in T
  <2>1. InUse(m, A, 0) = {}  BY DEF InUse
  <2>2. Cardinality({}) = 0  BY FS_EmptySet
  <2>3. A[0].allocations = 0  BY DEF NoBlocks
  <2> QED BY <2>1, <2>2, <2>3
<1>2. ASSUME NEW n \in Nat, n \in T PROVE n + 1 \in T
  <2>1. PICK s, U, V : s = A[n] /\ U = InUse(m, A, n) /\ V = InUse(m, A, n + 1)  OBVIOUS
  <2>2. /\ s \in Stats /\ A[n + 1] = Counted(m, s)
        /\ s.allocations = Cardinality(U) /\ s.allocations \in Nat
    BY <1>2, <2>1 DEF Stats
  <2>3. IsFiniteSet(U) /\ n \notin U  BY <2>1, InUseGrows
  <2>4. Counted(m, s).allocations = Cardinality(V)
    <3>1. CASE ReadOK(m, s.address) /\ Used(m, s.address)
      <4>1. V = U \cup {n}  BY <2>1, <3>1, InUseGrows
      <4>2. Cardinality(V) = Cardinality(U) + 1  BY <2>3, <4>1, FS_AddElement
      <4>3. Counted(m, s).allocations = s.allocations + 1  BY <2>2, <3>1, CountedIs
      <4> QED BY <2>2, <4>2, <4>3
    <3>2. CASE ReadOK(m, s.address) /\ ~Used(m, s.address)
      <4>1. V = U  BY <2>1, <3>2, InUseGrows
      <4>2. Counted(m, s).allocations = s.allocations + 0  BY <2>2, <3>2, CountedIs
      <4> QED BY <2>2, <4>1, <4>2
    <3>3. CASE ~ReadOK(m, s.address)
      <4>1. V = U  BY <2>1, <3>3, InUseGrows
      <4>2. Counted(m, s) = s  BY <2>2, <3>3, CountedIs
      <4> QED BY <2>2, <4>1, <4>2
    <3> QED BY <3>1, <3>2, <3>3
  <2> QED BY <2>1, <2>2, <2>4
<1>3. Nat \subseteq T
  <2> HIDE DEF T
  <2> QED BY <1>1, <1>2, AllNat
<1> QED BY <1>3

LEMMA TameCounts ==
  ASSUME TameInv
  PROVE  StatsAccount
<1> SUFFICES ASSUME Tame PROVE StatsAccount  BY DEF StatsAccount
<1>1. PICK m, h : m = mem /\ h = ChainHeaders  OBVIOUS
<1>2. Holds(m, h) /\ H!Chain(h)  BY <1>1, ChainHeld
<1>3. MemOK(m)  BY <1>2 DEF Holds
<1>4. PICK A \in [Nat -> Stats] :
        A = StatsAfter(m) /\ A[0] = NoBlocks /\ \A n \in Nat : A[n + 1] = Counted(m, A[n])
  BY <1>3, StatsAre
<1>5. PICK M \in Nat : M = MaxBlocks  BY EnoughTurns
<1>6. PICK s \in Stats : s = A[M]  OBVIOUS
<1>7. HeapStats(m) = s  BY <1>4, <1>5, <1>6 DEF HeapStats
<1>8. s.blocks \in Nat  BY DEF Stats
<1>9. s.address = Limit /\ \A i \in Nat : A[i].address # Limit <=> i < s.blocks
  BY <1>2, <1>4, <1>5, <1>6, StatsEnd
<1>10. \A n \in Nat : CountOK(h, A[n], n)  BY <1>2, <1>4, StatsSettle
<1>11. CountOK(h, s, M)  BY <1>6, <1>10
<1>12. /\ s.used + s.free + s.blocks * HeaderSize = Limit - Base
       /\ s.total = s.used + s.free /\ s.blocks <= M
  BY <1>9, <1>11 DEF CountOK, HeaderSize
<1>13. ASSUME NEW i \in Nat
       PROVE  ReadOK(m, A[i].address) <=> i < s.blocks
  <2>1. CASE A[i].address = Limit
    <3>1. ~ReadOK(m, A[i].address)  BY <2>1, Ends DEF ReadOK, HeaderSize
    <3> QED BY <1>9, <2>1, <3>1
  <2>2. CASE A[i].address # Limit
    <3>1. A[i].address \in DOMAIN h  BY <1>10, <2>2 DEF CountOK
    <3>2. ReadOK(m, A[i].address)  BY <1>2, <3>1, ChainReadable
    <3> QED BY <1>9, <2>2, <3>2
  <2> QED BY <2>1, <2>2
<1>14. ASSUME NEW i \in Nat
       PROVE  /\ HeapBlock(m, i).found <=> i < s.blocks
              /\ HeapBlock(m, i).used <=> ReadOK(m, A[i].address) /\ Used(m, A[i].address)
  BY <1>4, <1>13 DEF HeapBlock, Used
<1>15. s.allocations = Cardinality({i \in 0 .. s.blocks : HeapBlock(m, i).used})
  <2>1. PICK U : U = {i \in 0 .. s.blocks : HeapBlock(m, i).used}  OBVIOUS
  <2>2. ASSUME NEW i PROVE i \in U <=> i \in InUse(m, A, M)
    <3>1. i \in U => i \in InUse(m, A, M)
      <4>1. SUFFICES ASSUME i \in U PROVE i \in InUse(m, A, M)  OBVIOUS
      <4>2. i \in Nat /\ HeapBlock(m, i).used  BY <1>8, <2>1, <4>1
      <4>3. ReadOK(m, A[i].address) /\ Used(m, A[i].address)  BY <1>14, <4>2
      <4>4. i < s.blocks  BY <1>13, <4>2, <4>3
      <4>5. i \in 0 .. M - 1  BY <1>8, <1>12, <4>2, <4>4
      <4> QED BY <4>3, <4>5 DEF InUse
    <3>2. i \in InUse(m, A, M) => i \in U
      <4>1. SUFFICES ASSUME i \in InUse(m, A, M) PROVE i \in U  OBVIOUS
      <4>2. i \in Nat /\ ReadOK(m, A[i].address) /\ Used(m, A[i].address)
        BY <4>1 DEF InUse
      <4>3. i < s.blocks /\ HeapBlock(m, i).used  BY <1>13, <1>14, <4>2
      <4>4. i \in 0 .. s.blocks  BY <1>8, <4>2, <4>3
      <4> QED BY <2>1, <4>3, <4>4
    <3> QED BY <3>1, <3>2
  <2>3. U = InUse(m, A, M)  BY <2>2
  <2>4. s.allocations = Cardinality(InUse(m, A, M))
    BY <1>3, <1>4, <1>6, AllocationsAre
  <2> QED BY <2>1, <2>3, <2>4
<1>16. \A i \in 0 .. s.blocks + 1 : HeapBlock(m, i).found <=> i < s.blocks  BY <1>8, <1>14
<1> QED BY <1>1, <1>7, <1>9, <1>12, <1>15, <1>16 DEF StatsAccount

\* The statistics the Studio shows are true of the heap that a tame guest
\* leaves: the walk ends at the limit, used and free bytes and the headers
\* make up the arena, and the block list has as many entries as are counted.
THEOREM StatsRight == Spec => []StatsAccount
<1> QED BY TameInvariant, TameCounts, PTL
=============================================================================
