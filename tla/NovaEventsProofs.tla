-------------------------- MODULE NovaEventsProofs --------------------------
(***************************************************************************)
(* Proofs about NovaEvents, for every capacity of the ring, every budget    *)
(* and every program.  The invariant is one sentence: the ring holds the    *)
(* last events the guest printed (Suffix).  What it was before that is on   *)
(* the console or was pushed out by a full ring.                           *)
(***************************************************************************)
EXTENDS NovaEvents, SequenceTheorems, TLAPS

(* How many events the ring holds, and where the i-th oldest is.            *)
Held == (write - read + Capacity) % Capacity
Slot(r, i) == (r + i - 1) % Capacity
Gone == Len(printed) - Held

TypeOK ==
  /\ ring \in [Indices -> AllEvents \cup {Empty}]
  /\ read \in Indices /\ write \in Indices
  /\ count \in 0..MaxCount /\ left \in Nat
  /\ phase \in {"idle", "run", "drain"}
  /\ console \in Seq(AllEvents) /\ printed \in Seq(AllEvents)

(* What the guest printed is told apart by its counts.                      *)
Counted ==
  /\ \A k \in 1..Len(printed) : printed[k].count <= count
  /\ \A j, k \in 1..Len(printed) : j < k => printed[j].count < printed[k].count

(* The ring holds the last events of the guest.                             *)
Suffix ==
  /\ Held \in 0..Len(printed)
  /\ \A i \in 1..Held : ring[Slot(read, i)] = printed[Gone + i]

(* The console shows older ones.                                            *)
Shown == \A i \in 1..Len(console) : \E k \in 1..Gone : console[i] = printed[k]

(* An event that is in neither had to make room.                            *)
MadeRoom ==
  \A k \in 1..Gone :
    \/ \E i \in 1..Len(console) : console[i] = printed[k]
    \/ Len(printed) - k >= Capacity - 1

EInv ==
  /\ TypeOK /\ Counted /\ Suffix /\ Shown /\ MadeRoom /\ ConsoleInOrder
  /\ phase = "idle" => read = write

-----------------------------------------------------------------------------
(* The ring *)

LEMMA Wraps ==
  ASSUME NEW a \in 0..(2 * Capacity - 1)
  PROVE  a % Capacity = IF a < Capacity THEN a ELSE a - Capacity
BY EventsAssumption

LEMMA Cursors ==
  ASSUME NEW r \in Indices, NEW w \in Indices
  PROVE  /\ (w - r + Capacity) % Capacity = IF r <= w THEN w - r ELSE w - r + Capacity
         /\ After(r) = IF r = Capacity - 1 THEN 0 ELSE r + 1
         /\ \A i \in 1..Capacity :
              Slot(r, i) = IF r + i - 1 < Capacity THEN r + i - 1 ELSE r + i - 1 - Capacity
<1>1. r \in Nat /\ w \in Nat /\ r < Capacity /\ w < Capacity /\ Capacity \in Nat /\ Capacity >= 2
  BY EventsAssumption DEF Indices
<1>2. (w - r + Capacity) % Capacity = IF r <= w THEN w - r ELSE w - r + Capacity
  <2> DEFINE a == w - r + Capacity
  <2>1. a \in 0..(2 * Capacity - 1) /\ (a < Capacity <=> ~(r <= w)) /\ a - Capacity = w - r
    BY <1>1
  <2> HIDE DEF a
  <2>2. a % Capacity = IF r <= w THEN w - r ELSE a  BY <2>1, Wraps
  <2> QED BY <2>2 DEF a
<1>3. After(r) = IF r = Capacity - 1 THEN 0 ELSE r + 1
  <2> DEFINE a == r + 1
  <2>1. a \in 0..(2 * Capacity - 1) /\ (a < Capacity <=> r # Capacity - 1)
        /\ (r = Capacity - 1 => a - Capacity = 0)
    BY <1>1
  <2> HIDE DEF a
  <2>2. a % Capacity = IF r = Capacity - 1 THEN 0 ELSE a  BY <2>1, Wraps
  <2> QED BY <2>2 DEF After, a
<1>4. ASSUME NEW i \in 1..Capacity
      PROVE  Slot(r, i) = IF r + i - 1 < Capacity THEN r + i - 1 ELSE r + i - 1 - Capacity
  <2> DEFINE a == r + i - 1
  <2>1. a \in 0..(2 * Capacity - 1)  BY <1>1
  <2> HIDE DEF a
  <2>2. a % Capacity = IF a < Capacity THEN a ELSE a - Capacity  BY <2>1, Wraps
  <2>3. Slot(r, i) = a % Capacity  BY DEF Slot, a
  <2>4. Slot(r, i) = IF a < Capacity THEN a ELSE a - Capacity  BY <2>2, <2>3
  <2> QED BY <1>1, <2>4 DEF a
<1> QED BY <1>2, <1>3, <1>4

LEMMA RingShape ==
  ASSUME read \in Indices, write \in Indices
  PROVE  /\ Held = IF read <= write THEN write - read ELSE write - read + Capacity
         /\ Held \in 0..(Capacity - 1)
         /\ After(read) = IF read = Capacity - 1 THEN 0 ELSE read + 1
         /\ After(write) = IF write = Capacity - 1 THEN 0 ELSE write + 1
         /\ \A i \in 1..Capacity :
              Slot(read, i) = IF read + i - 1 < Capacity THEN read + i - 1
                        ELSE read + i - 1 - Capacity
<1>1. Held = IF read <= write THEN write - read ELSE write - read + Capacity
  BY Cursors DEF Held
<1>2. Held \in 0..(Capacity - 1)  BY <1>1, EventsAssumption DEF Indices
<1> QED BY <1>1, <1>2, Cursors

(* A full ring keeps its size and forgets its oldest event.                 *)
LEMMA EnqueueRing ==
  ASSUME read \in Indices, write \in Indices, NEW event, Enqueue(event),
         ring \in [Indices -> AllEvents \cup {Empty}]
  PROVE  /\ read' \in Indices /\ write' \in Indices
         /\ Held' = IF Held = Capacity - 1 THEN Held ELSE Held + 1
         /\ \A i \in 1..(Held' - 1) :
              ring'[Slot(read', i)] = ring[Slot(read, IF Held = Capacity - 1 THEN i + 1 ELSE i)]
         /\ ring'[Slot(read', Held')] = event
<1>1. /\ read' = IF After(write) = read THEN After(read) ELSE read
      /\ write' = After(write) /\ ring' = [ring EXCEPT ![write] = event]
  BY DEF Enqueue
<1>2. read' \in Indices /\ write' \in Indices
  BY <1>1, RingShape, EventsAssumption DEF Indices
<1>3. /\ Held' = IF read' <= write' THEN write' - read' ELSE write' - read' + Capacity
      /\ \A i \in 1..Capacity :
           Slot(read', i) = IF read' + i - 1 < Capacity THEN read' + i - 1
                      ELSE read' + i - 1 - Capacity
  BY <1>2, Cursors DEF Held
<1>4. Held' = IF Held = Capacity - 1 THEN Held ELSE Held + 1
  <2>1. /\ Held = IF read <= write THEN write - read ELSE write - read + Capacity
        /\ After(read) = IF read = Capacity - 1 THEN 0 ELSE read + 1
        /\ After(write) = IF write = Capacity - 1 THEN 0 ELSE write + 1
    BY RingShape
  <2> QED BY <1>1, <1>2, <1>3, <2>1, EventsAssumption DEF Indices
<1>5. After(write) = read <=> Held = Capacity - 1
  <2>1. /\ Held = IF read <= write THEN write - read ELSE write - read + Capacity
        /\ After(write) = IF write = Capacity - 1 THEN 0 ELSE write + 1
    BY RingShape
  <2> QED BY <2>1, EventsAssumption DEF Indices
<1>6. ASSUME NEW i \in 1..(Held' - 1)
      PROVE  ring'[Slot(read', i)] = ring[Slot(read, IF Held = Capacity - 1 THEN i + 1 ELSE i)]
  <2> DEFINE j == IF Held = Capacity - 1 THEN i + 1 ELSE i
  <2>1. i \in 1..Capacity /\ j \in 1..Held /\ j \in 1..Capacity
    BY <1>4, RingShape, EventsAssumption
  <2>2. Slot(read', i) = Slot(read, j)
    <3>1. /\ Slot(read', i) = IF read' + i - 1 < Capacity THEN read' + i - 1
                               ELSE read' + i - 1 - Capacity
          /\ Slot(read, j) = IF read + j - 1 < Capacity THEN read + j - 1
                              ELSE read + j - 1 - Capacity
      BY <1>3, <2>1, RingShape
    <3>2. read' = IF Held = Capacity - 1 THEN (IF read = Capacity - 1 THEN 0 ELSE read + 1)
                  ELSE read
      BY <1>1, <1>5, RingShape
    <3> QED BY <3>1, <3>2, <2>1, EventsAssumption DEF Indices
  <2>3. Slot(read, j) \in Indices /\ Slot(read, j) # write
    BY <2>1, RingShape, EventsAssumption DEF Indices
  <2> QED BY <1>1, <2>2, <2>3
<1>7. Slot(read', Held') = write
  <2>1. Held' \in 1..Capacity  BY <1>4, RingShape, EventsAssumption
  <2>2. Slot(read', Held') = IF read' + Held' - 1 < Capacity THEN read' + Held' - 1
                             ELSE read' + Held' - 1 - Capacity
    BY <1>3, <2>1
  <2>3. /\ read' = IF Held = Capacity - 1 THEN (IF read = Capacity - 1 THEN 0 ELSE read + 1)
                   ELSE read
        /\ Held = IF read <= write THEN write - read ELSE write - read + Capacity
    BY <1>1, <1>5, RingShape
  <2> QED BY <1>4, <2>1, <2>2, <2>3, EventsAssumption DEF Indices
<1> QED BY <1>1, <1>2, <1>4, <1>6, <1>7

LEMMA PollRing ==
  ASSUME read \in Indices, write \in Indices, Poll
  PROVE  /\ read' \in Indices /\ Held > 0 /\ Held' = Held - 1
         /\ \A i \in 1..Held' : Slot(read', i) = Slot(read, i + 1)
         /\ Slot(read, 1) = read
<1>1. read # write /\ read' = After(read) /\ write' = write  BY DEF Poll
<1>2. read' \in Indices /\ write' \in Indices  BY <1>1, RingShape, EventsAssumption DEF Indices
<1>3. /\ Held' = IF read' <= write' THEN write' - read' ELSE write' - read' + Capacity
      /\ \A i \in 1..Capacity :
           Slot(read', i) = IF read' + i - 1 < Capacity THEN read' + i - 1
                      ELSE read' + i - 1 - Capacity
  BY <1>2, Cursors DEF Held
<1>4. Held > 0 /\ Held' = Held - 1
  BY <1>1, <1>3, RingShape, EventsAssumption DEF Indices
<1>5. ASSUME NEW i \in 1..Held' PROVE Slot(read', i) = Slot(read, i + 1)
  <2>1. i \in 1..Capacity /\ i + 1 \in 1..Capacity  BY <1>4, RingShape, EventsAssumption
  <2> QED BY <1>1, <1>3, <2>1, RingShape, EventsAssumption DEF Indices
<1>6. Slot(read, 1) = read  BY RingShape, EventsAssumption DEF Indices
<1> QED BY <1>2, <1>4, <1>5, <1>6

-----------------------------------------------------------------------------
(* One step of the machine *)

LEMMA CountsAreNumbers ==
  ASSUME NEW s \in Seq(AllEvents), NEW k \in 1..Len(s)
  PROVE  s[k].count \in Nat
<1>1. s[k] \in AllEvents  OBVIOUS
<1> QED BY <1>1, EventsAssumption DEF AllEvents

(* What an instruction prints is newer than all the guest printed before.   *)
LEMMA EnqueueStep ==
  ASSUME EInv, count < MaxCount, count' = count + 1, NEW char \in Chars,
         Enqueue(Event(char)), UNCHANGED console
  PROVE  /\ Event(char) \in AllEvents /\ printed' \in Seq(AllEvents)
         /\ read' \in Indices /\ write' \in Indices
         /\ ring' \in [Indices -> AllEvents \cup {Empty}]
         /\ (Counted /\ Suffix /\ Shown /\ MadeRoom)'
<1> DEFINE e == Event(char)
<1>1. e \in AllEvents /\ e.count = count + 1
  BY EventsAssumption DEF EInv, TypeOK, Event, AllEvents
<1>2. /\ read \in Indices /\ write \in Indices /\ ring \in [Indices -> AllEvents \cup {Empty}]
      /\ printed \in Seq(AllEvents) /\ console \in Seq(AllEvents) /\ count \in Nat
      /\ Capacity \in Nat /\ Capacity >= 2
  BY EventsAssumption DEF EInv, TypeOK
<1>3. Enqueue(e) /\ printed' = Append(printed, e) /\ ring' = [ring EXCEPT ![write] = e]
  BY DEF Enqueue
<1> HIDE DEF e
<1>4. /\ read' \in Indices /\ write' \in Indices
      /\ Held' = IF Held = Capacity - 1 THEN Held ELSE Held + 1
      /\ \A i \in 1..(Held' - 1) :
           ring'[Slot(read', i)] = ring[Slot(read, IF Held = Capacity - 1 THEN i + 1 ELSE i)]
      /\ ring'[Slot(read', Held')] = e
  BY <1>2, <1>3, EnqueueRing
<1>5. /\ printed' \in Seq(AllEvents) /\ Len(printed') = Len(printed) + 1
      /\ \A k \in 1..Len(printed) : printed'[k] = printed[k]
      /\ printed'[Len(printed) + 1] = e
      /\ Len(printed) \in Nat
  BY <1>1, <1>2, <1>3
<1>6. Held \in 0..Len(printed) /\ Held \in 0..(Capacity - 1) /\ Held' \in 1..(Capacity - 1)
  BY <1>2, <1>4, RingShape DEF EInv, Suffix
<1>7. Gone' = IF Held = Capacity - 1 THEN Gone + 1 ELSE Gone
  BY <1>4, <1>5, <1>6 DEF Gone
<1>8. Counted'
  <2>1. \A k \in 1..Len(printed) : printed[k].count <= count
    BY DEF EInv, Counted
  <2>2. \A k \in 1..Len(printed) : printed[k].count \in Nat
    BY <1>2, CountsAreNumbers
  <2>3. \A k \in 1..Len(printed') : k = Len(printed) + 1 \/ k \in 1..Len(printed)
    BY <1>5
  <2>4. \A k \in 1..Len(printed') : printed'[k].count <= count'
    BY <1>1, <1>2, <1>5, <2>1, <2>2, <2>3
  <2>5. \A j, k \in 1..Len(printed') : j < k => printed'[j].count < printed'[k].count
    BY <1>1, <1>2, <1>5, <2>1, <2>2, <2>3 DEF EInv, Counted
  <2> QED BY <2>4, <2>5 DEF Counted
<1>9. Suffix'
  <2>1. ASSUME NEW i \in 1..Held' PROVE ring'[Slot(read', i)] = printed'[Gone' + i]
    <3>1. CASE i = Held'
      <4>1. Gone' + i = Len(printed) + 1  BY <1>4, <1>5, <1>6, <3>1 DEF Gone
      <4> QED BY <1>4, <1>5, <3>1, <4>1
    <3>2. CASE i # Held'
      <4> DEFINE j == IF Held = Capacity - 1 THEN i + 1 ELSE i
      <4>1. i \in 1..(Held' - 1) /\ j \in 1..Held /\ Gone' + i = Gone + j
            /\ Gone + j \in 1..Len(printed)
        BY <1>4, <1>5, <1>6, <1>7, <3>2 DEF Gone
      <4>2. ring'[Slot(read', i)] = ring[Slot(read, j)]  BY <1>4, <4>1
      <4>3. ring[Slot(read, j)] = printed[Gone + j]  BY <4>1 DEF EInv, Suffix
      <4> QED BY <1>5, <4>1, <4>2, <4>3
    <3> QED BY <3>1, <3>2
  <2>2. Held' \in 0..Len(printed')  BY <1>4, <1>5, <1>6
  <2> QED BY <2>1, <2>2 DEF Suffix
<1>10. Gone \in 0..Len(printed) /\ Gone <= Gone' /\ Gone' \in 0..Len(printed)
  BY <1>5, <1>6, <1>7 DEF Gone
<1>11. Shown'
  BY <1>5, <1>10 DEF EInv, Shown
<1>12. MadeRoom'
  <2>1. ASSUME NEW k \in 1..Gone'
        PROVE  \/ \E i \in 1..Len(console') : console'[i] = printed'[k]
               \/ Len(printed') - k >= Capacity - 1
    <3>1. k \in 1..Len(printed) /\ printed'[k] = printed[k]  BY <1>5, <1>10
    <3>2. CASE k \in 1..Gone
      BY <1>2, <1>5, <3>1, <3>2 DEF EInv, MadeRoom
    <3>3. CASE k \notin 1..Gone
      BY <1>2, <1>5, <1>6, <1>7, <1>10, <3>3 DEF Gone
    <3> QED BY <3>2, <3>3
  <2> QED BY <2>1 DEF MadeRoom
<1>13. ring' \in [Indices -> AllEvents \cup {Empty}]  BY <1>1, <1>2, <1>3
<1> QED BY <1>1, <1>4, <1>5, <1>8, <1>9, <1>11, <1>12, <1>13 DEF e

(* Nothing is printed: more instructions have been counted at most.         *)
LEMMA QuietStep ==
  ASSUME EInv, NoEvent, UNCHANGED console, count' \in 0..MaxCount, count <= count'
  PROVE  Counted' /\ Suffix' /\ Shown' /\ MadeRoom'
<1>1. UNCHANGED <<ring, read, write, printed, console>>  BY DEF NoEvent
<1>2. Held' = Held /\ Gone' = Gone /\ read' = read
  BY <1>1 DEF Held, Gone
<1>3. Counted'
  <2>1. \A k \in 1..Len(printed) : printed[k].count \in Nat
    BY CountsAreNumbers DEF EInv, TypeOK
  <2> QED BY <1>1, <2>1, EventsAssumption DEF EInv, TypeOK, Counted
<1> QED BY <1>1, <1>2, <1>3 DEF EInv, Suffix, Shown, MadeRoom

LEMMA ExecuteStep ==
  ASSUME EInv, Execute, UNCHANGED console
  PROVE  /\ printed' \in Seq(AllEvents) /\ read' \in Indices /\ write' \in Indices
         /\ ring' \in [Indices -> AllEvents \cup {Empty}]
         /\ count' \in 0..MaxCount
         /\ Counted' /\ Suffix' /\ Shown' /\ MadeRoom'
<1>1. count < MaxCount /\ count' = count + 1 /\ count' \in 0..MaxCount /\ count <= count'
  BY EventsAssumption DEF Execute, EInv, TypeOK
<1>2. CASE NoEvent
  <2>1. UNCHANGED <<ring, read, write, printed>>  BY <1>2 DEF NoEvent
  <2> QED BY <1>1, <1>2, <2>1, QuietStep DEF EInv, TypeOK
<1>3. ASSUME NEW char \in Chars, Enqueue(Event(char))
      PROVE  /\ printed' \in Seq(AllEvents) /\ read' \in Indices /\ write' \in Indices
             /\ ring' \in [Indices -> AllEvents \cup {Empty}]
             /\ Counted' /\ Suffix' /\ Shown' /\ MadeRoom'
  BY <1>1, <1>3, EnqueueStep
<1> QED BY <1>1, <1>2, <1>3 DEF Execute, Store

(* What is drained is the oldest event of the ring, newer than all the      *)
(* console shows.                                                          *)
LEMMA DrainStep ==
  ASSUME EInv, Poll, UNCHANGED <<count, printed>>
  PROVE  /\ console' \in Seq(AllEvents) /\ read' \in Indices
         /\ Counted' /\ Suffix' /\ Shown' /\ MadeRoom' /\ ConsoleInOrder'
<1>1. /\ read \in Indices /\ write \in Indices /\ console \in Seq(AllEvents)
      /\ printed \in Seq(AllEvents) /\ Capacity \in Nat
  BY EventsAssumption DEF EInv, TypeOK
<1>2. /\ console' = Append(console, ring[read]) /\ UNCHANGED <<ring, write>>
  BY DEF Poll
<1>3. /\ read' \in Indices /\ Held > 0 /\ Held' = Held - 1
      /\ \A i \in 1..Held' : Slot(read', i) = Slot(read, i + 1)
      /\ Slot(read, 1) = read
  BY <1>1, PollRing
<1>4. Held \in 1..Len(printed) /\ Len(printed) \in Nat
  BY <1>1, <1>3 DEF EInv, Suffix
<1>5. Gone' = Gone + 1 /\ Gone \in 0..Len(printed) /\ Gone + 1 \in 1..Len(printed)
  BY <1>3, <1>4 DEF Gone
<1>6. ring[read] = printed[Gone + 1]
  BY <1>3, <1>4 DEF EInv, Suffix
<1>7. /\ console' \in Seq(AllEvents) /\ Len(console') = Len(console) + 1 /\ Len(console) \in Nat
      /\ \A i \in 1..Len(console) : console'[i] = console[i]
      /\ console'[Len(console) + 1] = printed[Gone + 1]
  BY <1>1, <1>2, <1>5, <1>6
<1>8. Counted'  BY DEF EInv, Counted
<1>9. Suffix'
  <2>1. ASSUME NEW i \in 1..Held' PROVE ring'[Slot(read', i)] = printed'[Gone' + i]
    <3>1. i + 1 \in 1..Held  BY <1>3, <1>4
    <3>2. ring[Slot(read, i + 1)] = printed[Gone + (i + 1)]  BY <3>1 DEF EInv, Suffix
    <3>3. Gone + (i + 1) = Gone' + i  BY <1>5
    <3> QED BY <1>2, <1>3, <3>2, <3>3
  <2> QED BY <1>3, <1>4, <2>1 DEF Suffix
<1>10. \A i \in 1..Len(console') : i = Len(console) + 1 \/ i \in 1..Len(console)
  BY <1>7
<1>11. Shown'
  <2>1. ASSUME NEW i \in 1..Len(console')
        PROVE  \E k \in 1..Gone' : console'[i] = printed'[k]
    <3>1. CASE i = Len(console) + 1  BY <1>5, <1>7, <3>1
    <3>2. CASE i \in 1..Len(console)
      <4>1. PICK k \in 1..Gone : console[i] = printed[k]  BY <3>2 DEF EInv, Shown
      <4>2. k \in 1..Gone'  BY <1>5
      <4> QED BY <1>7, <3>2, <4>1, <4>2
    <3> QED BY <1>10, <3>1, <3>2
  <2> QED BY <2>1 DEF Shown
<1>12. MadeRoom'
  <2>1. ASSUME NEW k \in 1..Gone'
        PROVE  \/ \E i \in 1..Len(console') : console'[i] = printed'[k]
               \/ Len(printed') - k >= Capacity - 1
    <3>1. CASE k = Gone + 1  BY <1>7, <3>1
    <3>2. CASE k \in 1..Gone
      <4>1. CASE \E i \in 1..Len(console) : console[i] = printed[k]
        BY <1>7, <4>1
      <4> QED BY <3>2, <4>1 DEF EInv, MadeRoom
    <3> QED BY <1>5, <3>1, <3>2
  <2> QED BY <2>1 DEF MadeRoom
<1>13. ConsoleInOrder'
  <2>1. \A i \in 1..Len(console) : console[i].count < printed[Gone + 1].count
    <3>1. SUFFICES ASSUME NEW i \in 1..Len(console)
                   PROVE  console[i].count < printed[Gone + 1].count
      OBVIOUS
    <3>2. PICK k \in 1..Gone : console[i] = printed[k]  BY DEF EInv, Shown
    <3>3. k \in 1..Len(printed) /\ k < Gone + 1  BY <1>5
    <3> QED BY <1>5, <3>2, <3>3 DEF EInv, Counted
  <2> QED BY <1>7, <1>10, <2>1 DEF EInv, ConsoleInOrder
<1> QED BY <1>3, <1>7, <1>8, <1>9, <1>11, <1>12, <1>13

-----------------------------------------------------------------------------
(* The invariant *)

LEMMA FreshRing ==
  ASSUME read = 0, write = 0, printed = <<>>
  PROVE  Held = 0 /\ Gone = 0
<1>1. Held = 0  BY EventsAssumption, RingShape DEF Indices
<1> QED BY <1>1 DEF Gone

LEMMA EInvStarts == Init => EInv
<1> SUFFICES ASSUME Init PROVE EInv  OBVIOUS
<1>1. Held = 0 /\ Gone = 0  BY FreshRing DEF Init
<1>2. TypeOK  BY EventsAssumption DEF Init, TypeOK, Indices
<1> QED BY <1>1, <1>2 DEF Init, EInv, Counted, Suffix, Shown, MadeRoom, ConsoleInOrder

LEMMA EInvStep == EInv /\ [Next]_vars => EInv'
<1> SUFFICES ASSUME EInv, [Next]_vars PROVE EInv'  OBVIOUS
<1>1. CASE RunClick
  <2>1. NoEvent /\ UNCHANGED <<console, count>> /\ phase' = "run" /\ left' = Budget
    BY <1>1 DEF RunClick, NoEvent
  <2>2. Counted' /\ Suffix' /\ Shown' /\ MadeRoom'
    BY <2>1, QuietStep, EventsAssumption DEF EInv, TypeOK
  <2> QED BY <2>1, <2>2, EventsAssumption DEF EInv, TypeOK, NoEvent, ConsoleInOrder
<1>2. CASE StepClick
  <2>1. Execute /\ UNCHANGED console /\ phase' = "drain" /\ left' = left
    BY <1>2 DEF StepClick
  <2> QED BY <2>1, ExecuteStep DEF EInv, TypeOK, ConsoleInOrder
<1>3. CASE ResetClick
  <2>1. /\ ring' = [i \in Indices |-> Empty] /\ read' = 0 /\ write' = 0
        /\ count' = 0 /\ console' = <<>> /\ printed' = <<>> /\ phase' = "idle" /\ left' = left
    BY <1>3 DEF ResetClick
  <2>2. Held' = 0 /\ Gone' = 0
    BY <2>1, EventsAssumption DEF Held, Gone
  <2>3. TypeOK'  BY <2>1, EventsAssumption DEF EInv, TypeOK, Indices
  <2> QED BY <2>1, <2>2, <2>3 DEF EInv, Counted, Suffix, Shown, MadeRoom, ConsoleInOrder
<1>4. CASE RunInstruction
  <2>1. Execute /\ UNCHANGED <<phase, console>> /\ left > 0 /\ left' = left - 1 /\ phase = "run"
    BY <1>4 DEF RunInstruction
  <2> QED BY <2>1, ExecuteStep DEF EInv, TypeOK, ConsoleInOrder
<1>5. CASE RunReturns
  <2>1. NoEvent /\ UNCHANGED console /\ phase' = "drain" /\ left' = 0
        /\ count' \in 0..MaxCount /\ count <= count'
    BY <1>5, EventsAssumption DEF RunReturns, NoEvent, EInv, TypeOK
  <2>2. Counted' /\ Suffix' /\ Shown' /\ MadeRoom'  BY <2>1, QuietStep
  <2> QED BY <2>1, <2>2 DEF EInv, TypeOK, NoEvent, ConsoleInOrder
<1>6. CASE DrainOne
  <2>1. Poll /\ UNCHANGED <<count, phase, left, printed>> /\ phase = "drain"
    BY <1>6 DEF DrainOne
  <2>2. UNCHANGED <<ring, write>>  BY <2>1 DEF Poll
  <2> QED BY <2>1, <2>2, DrainStep DEF EInv, TypeOK
<1>7. CASE DrainEnd
  <2>1. NoEvent /\ UNCHANGED <<console, count, left>> /\ phase' = "idle" /\ read = write
    BY <1>7 DEF DrainEnd, NoEvent
  <2>2. Counted' /\ Suffix' /\ Shown' /\ MadeRoom'
    BY <2>1, QuietStep, EventsAssumption DEF EInv, TypeOK
  <2> QED BY <2>1, <2>2 DEF EInv, TypeOK, NoEvent, ConsoleInOrder
<1>8. CASE UNCHANGED vars
  BY <1>8 DEF vars, EInv, TypeOK, Counted, Suffix, Shown, MadeRoom, ConsoleInOrder, Held, Gone, Slot
<1> QED BY <1>1, <1>2, <1>3, <1>4, <1>5, <1>6, <1>7, <1>8 DEF Next, Click, Handler

LEMMA EInvAlways == Spec => []EInv
BY EInvStarts, EInvStep, PTL DEF Spec

-----------------------------------------------------------------------------
(* The ring as a queue *)

(* By Suffix the queue is the end of what was printed: a step changes how   *)
(* much of it, and the index arithmetic is done with.                      *)
Recent(p, n) == [i \in 1..n |-> p[Len(p) - n + i]]

LEMMA PendingIsRecent ==
  EInv => Pending = Recent(printed, Held) /\ Held \in 0..Len(printed)
<1> SUFFICES ASSUME EInv
             PROVE  Pending = Recent(printed, Held) /\ Held \in 0..Len(printed)
  OBVIOUS
<1>1. Held \in 0..Len(printed) /\ \A i \in 1..Held : ring[Slot(read, i)] = printed[Gone + i]
  BY DEF EInv, Suffix
<1>2. Pending = [i \in 1..Held |-> ring[Slot(read, i)]]  BY DEF Pending, Held, Slot
<1> QED BY <1>1, <1>2 DEF Recent, Gone

LEMMA RecentIsSeq ==
  ASSUME NEW p \in Seq(AllEvents), NEW n \in 0..Len(p)
  PROVE  Recent(p, n) \in Seq(AllEvents) /\ Len(Recent(p, n)) = n
<1>1. \A i \in 1..n : Len(p) - n + i \in 1..Len(p)  OBVIOUS
<1> QED BY <1>1 DEF Recent

LEMMA RecentGrows ==
  ASSUME NEW p \in Seq(AllEvents), NEW n \in 0..Len(p), NEW e \in AllEvents
  PROVE  Recent(Append(p, e), n + 1) = Append(Recent(p, n), e)
<1> DEFINE q == Append(p, e)
           longest == Recent(q, n + 1)
           extended == Append(Recent(p, n), e)
<1>1. q \in Seq(AllEvents) /\ Len(q) = Len(p) + 1 /\ q[Len(p) + 1] = e
      /\ \A k \in 1..Len(p) : q[k] = p[k]
  OBVIOUS
<1>2. Recent(p, n) \in Seq(AllEvents) /\ Len(Recent(p, n)) = n  BY RecentIsSeq
<1>3. longest \in Seq(AllEvents) /\ Len(longest) = n + 1
  <2>1. n + 1 \in 0..Len(q)  BY <1>1
  <2> HIDE DEF q
  <2> QED BY <1>1, <2>1, RecentIsSeq
<1>4. extended \in Seq(AllEvents) /\ Len(extended) = n + 1  BY <1>2
<1>0. n \in Nat /\ Len(p) \in Nat  OBVIOUS
<1>5. ASSUME NEW i \in 1..(n + 1) PROVE longest[i] = extended[i]
  <2>1. longest[i] = q[Len(p) - n + i]  BY <1>1 DEF Recent
  <2>2. CASE i = n + 1  BY <1>1, <1>2, <2>1, <2>2
  <2>3. CASE i \in 1..n
    <3>1. extended[i] = p[Len(p) - n + i]  BY <1>2, <2>3 DEF Recent
    <3> QED BY <1>1, <2>1, <2>3, <3>1
  <2>4. i = n + 1 \/ i \in 1..n  BY <1>0
  <2> QED BY <2>2, <2>3, <2>4
<1> HIDE DEF longest, extended
<1>6. longest = extended  BY <1>3, <1>4, <1>5, SeqEqual
<1> QED BY <1>6 DEF longest, extended

LEMMA RecentShrinks ==
  ASSUME NEW p \in Seq(AllEvents), NEW n \in 1..Len(p)
  PROVE  Recent(p, n) # <<>> /\ Recent(p, n - 1) = Tail(Recent(p, n))
<1>1. Recent(p, n) \in Seq(AllEvents) /\ Len(Recent(p, n)) = n  BY RecentIsSeq
<1>2. Recent(p, n - 1) \in Seq(AllEvents) /\ Len(Recent(p, n - 1)) = n - 1  BY RecentIsSeq
<1>3. Recent(p, n) # <<>> /\ Tail(Recent(p, n)) \in Seq(AllEvents)
      /\ Len(Tail(Recent(p, n))) = n - 1
      /\ \A i \in 1..(n - 1) : Tail(Recent(p, n))[i] = Recent(p, n)[i + 1]
  BY <1>1
<1>4. ASSUME NEW i \in 1..(n - 1) PROVE Recent(p, n - 1)[i] = Tail(Recent(p, n))[i]
  <2>1. Recent(p, n)[i + 1] = p[Len(p) - n + (i + 1)]  BY DEF Recent
  <2>2. Recent(p, n - 1)[i] = p[Len(p) - (n - 1) + i]  BY DEF Recent
  <2>3. Len(p) - n + (i + 1) = Len(p) - (n - 1) + i  OBVIOUS
  <2> QED BY <1>3, <2>1, <2>2, <2>3
<1> QED BY <1>2, <1>3, <1>4, SeqEqual

LEMMA EnqueueIsHappens ==
  ASSUME EInv, EInv', NEW event \in AllEvents, Enqueue(event)
  PROVE  Queue!Happens(event)
<1> DEFINE full == Held = Capacity - 1
<1>1. /\ read \in Indices /\ write \in Indices /\ ring \in [Indices -> AllEvents \cup {Empty}]
      /\ printed \in Seq(AllEvents) /\ Capacity \in Nat /\ Capacity >= 2
  BY EventsAssumption DEF EInv, TypeOK
<1>2. Held' = IF full THEN Held ELSE Held + 1  BY <1>1, EnqueueRing
<1>3. printed' = Append(printed, event)  BY DEF Enqueue
<1>4. Pending = Recent(printed, Held) /\ Held \in 0..Len(printed) /\ Held \in 0..(Capacity - 1)
  BY <1>1, PendingIsRecent, RingShape
<1>5. (Pending = Recent(printed, Held))'  BY PendingIsRecent, PTL
<1> DEFINE longer == Append(Pending, event)
<1>6. longer = Recent(printed', Held + 1) /\ Len(longer) = Held + 1
  BY <1>1, <1>3, <1>4, RecentGrows, RecentIsSeq
<1>7. CASE ~full
  <2>1. ~(Len(longer) > Capacity - 1)  BY <1>1, <1>4, <1>6, <1>7
  <2> QED BY <1>2, <1>5, <1>6, <1>7, <2>1 DEF Queue!Happens
<1>8. CASE full
  <2>1. Len(longer) > Capacity - 1  BY <1>1, <1>4, <1>6, <1>8
  <2>2. printed' \in Seq(AllEvents) /\ Held + 1 \in 1..Len(printed')  BY <1>1, <1>3, <1>4
  <2>3. Recent(printed', Held) = Tail(longer)  BY <1>4, <1>6, <2>2, RecentShrinks
  <2> QED BY <1>2, <1>5, <1>8, <2>1, <2>3 DEF Queue!Happens
<1> QED BY <1>7, <1>8

LEMMA QuietIsStutter ==
  ASSUME NoEvent
  PROVE  Pending' = Pending
BY DEF NoEvent, Pending

LEMMA ExecuteIsQueueStep ==
  ASSUME EInv, EInv', Execute
  PROVE  Queue!Next \/ Pending' = Pending
<1>1. CASE NoEvent  BY <1>1, QuietIsStutter
<1>2. ASSUME NEW char \in Chars, Enqueue(Event(char)) PROVE Queue!Next
  <2>1. Event(char) \in AllEvents
    BY EventsAssumption DEF Execute, EInv, TypeOK, Event, AllEvents
  <2> QED BY <1>2, <2>1, EnqueueIsHappens DEF Queue!Next
<1> QED BY <1>1, <1>2 DEF Execute, Store

LEMMA QueueStep ==
  ASSUME EInv, EInv', [Next]_vars
  PROVE  [Queue!Next]_Pending
<1>1. CASE RunClick  BY <1>1, QuietIsStutter DEF RunClick, NoEvent
<1>2. CASE StepClick  BY <1>2, ExecuteIsQueueStep DEF StepClick
<1>3. CASE ResetClick
  <2>1. Held' = 0  BY <1>3, EventsAssumption DEF ResetClick, Held
  <2>2. (Pending = Recent(printed, Held))'  BY PendingIsRecent, PTL
  <2>3. Recent(printed', 0) = <<>>  BY DEF Recent
  <2> QED BY <2>1, <2>2, <2>3 DEF Queue!Next, Queue!Reset
<1>4. CASE RunInstruction  BY <1>4, ExecuteIsQueueStep DEF RunInstruction
<1>5. CASE RunReturns  BY <1>5, QuietIsStutter DEF RunReturns, NoEvent
<1>6. CASE DrainOne
  <2>1. Poll /\ printed' = printed  BY <1>6 DEF DrainOne
  <2>2. Held \in 1..Len(printed) /\ Held' = Held - 1 /\ printed \in Seq(AllEvents)
        /\ Pending = Recent(printed, Held)
    BY <2>1, PollRing, PendingIsRecent DEF EInv, TypeOK
  <2>3. (Pending = Recent(printed, Held))'  BY PendingIsRecent, PTL
  <2> QED BY <2>1, <2>2, <2>3, RecentShrinks DEF Queue!Next, Queue!Poll
<1>7. CASE DrainEnd  BY <1>7, QuietIsStutter DEF DrainEnd, NoEvent
<1>8. CASE UNCHANGED vars  BY <1>8, QuietIsStutter DEF vars, NoEvent
<1> QED BY <1>1, <1>2, <1>3, <1>4, <1>5, <1>6, <1>7, <1>8 DEF Next, Click, Handler

(* For every capacity the ring implements a first-in first-out queue of one *)
(* event less: nova_enqueue_event, nova_vm_poll_event and the drain lose,   *)
(* duplicate or reorder no event but the oldest of a full ring.            *)
THEOREM RingIsQueue == Spec => QueueSpec
<1>1. Init => Queue!Init
  <2> SUFFICES ASSUME Init PROVE Pending = <<>>  BY DEF Queue!Init
  <2>1. EInv /\ Held = 0  BY EInvStarts, FreshRing DEF Init
  <2> QED BY <2>1, PendingIsRecent DEF Recent
<1>2. EInv /\ EInv' /\ [Next]_vars => [Queue!Next]_Pending  BY QueueStep
<1> QED BY <1>1, <1>2, EInvAlways, PTL DEF Spec, QueueSpec, Queue!Spec

-----------------------------------------------------------------------------
(* What reaches the console *)

(* The console shows what the guest printed in program order and without    *)
(* repetition, for every capacity, budget and program.                     *)
THEOREM ConsoleKeepsOrder == Spec => []ConsoleInOrder
<1>1. EInv => ConsoleInOrder  BY DEF EInv
<1> QED BY <1>1, EInvAlways, PTL

(* When Studio is idle the ring is empty, so what is not on the console made *)
(* room for Capacity - 1 later events.                                     *)
THEOREM LossIsOverflow == Spec => []OnlyOverflowLoses
<1>1. EInv => OnlyOverflowLoses
  <2> SUFFICES ASSUME EInv, phase = "idle", NEW k \in 1..Len(printed)
               PROVE  printed[k] \in Range(console) \/ Len(printed) - k >= Capacity - 1
    BY DEF OnlyOverflowLoses
  <2>1. Held = 0  BY RingShape, EventsAssumption DEF EInv, TypeOK, Indices
  <2>2. Gone = Len(printed)  BY <2>1 DEF Gone, EInv, TypeOK
  <2>3. DOMAIN console = 1..Len(console)  BY DEF EInv, TypeOK
  <2> QED BY <2>2, <2>3 DEF EInv, MadeRoom, Range
<1> QED BY <1>1, EInvAlways, PTL
=============================================================================
