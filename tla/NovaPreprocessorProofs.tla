----------------------- MODULE NovaPreprocessorProofs -----------------------
(***************************************************************************)
(* Proofs about NovaPreprocessor.  What nc_pp_scan_file, the replay and     *)
(* nc_pp_make_source agree about is proved from six invariants, each of     *)
(* which needs those before it:                                             *)
(*   OrderInv    the calls of the scan, and the include table in post-order; *)
(*   ReplayInv   the tables replay to the environment of every file, as far  *)
(*               as it is known;                                            *)
(*   PassInv     the second pass makes of every file what was scanned of it; *)
(*   ReachInv    a file is scanned because a source reaches it;             *)
(*   ParseInv    the calls of the parser, and the files it has parsed;      *)
(*   OutcomeInv  a second pass has nothing to refuse.                       *)
(* SeesInv and RoomInv, of the visibility and of the room in the tables,    *)
(* come last.                                                               *)
(***************************************************************************)
EXTENDS NovaPreprocessor, FiniteSetTheorems, SequenceTheorems, WellFoundedInduction, TLAPS

FrameType == [unit : Units, include : Headers \cup {None}]
RowType == [unit : Units, target : Units, line : Nat]
VisitType == [unit : Units, row : Nat]

Shape ==
  /\ source \in [Units -> Seq(ActiveLines)]
  /\ scanState \in [Units -> 0..2]
  /\ dependencies \in Seq(RowType)
  /\ frames \in Seq(FrameType)

\* A file below the top of the stack waits for the file above it; the file on
\* top may wait for one that is scanned.
ScanInv ==
  /\ \A k \in DOMAIN frames : scanState[frames[k].unit] = 1
  /\ \A j, k \in DOMAIN frames : j # k => frames[j].unit # frames[k].unit
  /\ \A k \in DOMAIN frames : k + 1 \in DOMAIN frames =>
       frames[k].include = frames[k + 1].unit
  /\ frames # <<>> /\ Top.include # None => scanState[Top.include] = 2

OrderInv == Shape /\ ScanInv /\ DependencyOrder

\* A visit below the top has taken the row just before the one it will look at
\* next, and went through it to the visit above.
Taken(k) == visits[k].row - 1
Below == 1..(Len(visits) - 1)

VisitsDescend ==
  /\ \A k \in Below : /\ Taken(k) \in RowsOf(dependencies, visits[k].unit)
                      /\ dependencies[Taken(k)].target = visits[k + 1].unit
  /\ \A j, k \in Below : j < k => Taken(k) < Taken(j)

VisitsOpen ==
  /\ \A k \in DOMAIN visits : ~WasParsed(visits[k].unit)
  /\ \A j, k \in DOMAIN visits : j # k => visits[j].unit # visits[k].unit
  /\ \A k \in DOMAIN visits : \A r \in RowsOf(dependencies, visits[k].unit) :
       r < visits[k].row =>
         WasParsed(dependencies[r].target) \/ (k \in Below /\ r = Taken(k))

ParseInv ==
  /\ visits \in Seq(VisitType)
  /\ parsed \in Seq(Units)
  /\ phase = "scan" => visits = <<>> /\ parsed = <<>>
  /\ phase = "parse" => VisitsDescend /\ VisitsOpen
  /\ HeadersFirst
-----------------------------------------------------------------------------
LEMMA LastFront ==
  ASSUME NEW S, NEW s \in Seq(S), s # <<>>
  PROVE  /\ Len(s) \in DOMAIN s /\ Last(s) \in S /\ Last(s) = s[Len(s)]
         /\ Front(s) \in Seq(S) /\ Len(Front(s)) = Len(s) - 1
         /\ DOMAIN Front(s) = 1..(Len(s) - 1)
         /\ \A i \in 1..(Len(s) - 1) : Front(s)[i] = s[i]
  <1>1. /\ Len(s) \in Nat \ {0} /\ DOMAIN s = 1..Len(s)
        /\ \A i \in 1..Len(s) : s[i] \in S
    BY EmptySeq, LenProperties, ElementOfSeq
  <1>2. \A i \in 1..(Len(s) - 1) : s[i] \in S
    BY <1>1
  <1>3. /\ SubSeq(s, 1, Len(s) - 1) \in Seq(S)
        /\ Len(SubSeq(s, 1, Len(s) - 1)) = Len(s) - 1
        /\ \A i \in 1..(Len(s) - 1) : SubSeq(s, 1, Len(s) - 1)[i] = s[i]
    BY <1>1, <1>2, SubSeqProperties
  <1>4. DOMAIN SubSeq(s, 1, Len(s) - 1) = 1..(Len(s) - 1)
    BY <1>3, LenProperties
  <1> QED
    BY <1>1, <1>3, <1>4 DEF Last, Front

LEMMA Elements ==
  ASSUME Shape
  PROVE  /\ DOMAIN frames = 1..Len(frames) /\ Len(frames) \in Nat
         /\ \A k \in DOMAIN frames : /\ frames[k] \in FrameType
                                     /\ frames[k].unit \in Units
                                     /\ frames[k].include \in Headers \cup {None}
         /\ DOMAIN dependencies = 1..Len(dependencies) /\ Len(dependencies) \in Nat
         /\ \A i \in DOMAIN dependencies : /\ dependencies[i].unit \in Units
                                           /\ dependencies[i].target \in Units
  <1>1. /\ DOMAIN frames = 1..Len(frames) /\ Len(frames) \in Nat
        /\ \A k \in DOMAIN frames : frames[k] \in FrameType
    BY LenProperties, ElementOfSeq DEF Shape
  <1>2. /\ DOMAIN dependencies = 1..Len(dependencies) /\ Len(dependencies) \in Nat
        /\ \A i \in DOMAIN dependencies : dependencies[i] \in RowType
    BY LenProperties, ElementOfSeq DEF Shape
  <1> QED
    BY <1>1, <1>2 DEF FrameType, RowType

LEMMA InitOrder == Init => OrderInv
  BY EmptySeq DEF Init, OrderInv, Shape, ScanInv, DependencyOrder

\* The steps that leave the scan alone.
LEMMA StutterOrder ==
  ASSUME OrderInv, UNCHANGED <<source, scanState, dependencies, frames>>
  PROVE  OrderInv'
  BY DEF OrderInv, Shape, ScanInv, DependencyOrder, RowsOf, Top

LEMMA TopFacts ==
  ASSUME OrderInv, frames # <<>>
  PROVE  /\ Len(frames) \in DOMAIN frames /\ Top = frames[Len(frames)]
         /\ Top.unit \in Units /\ Top.include \in Headers \cup {None}
         /\ scanState[Top.unit] = 1
  <1>1. frames \in Seq(FrameType)
    BY DEF OrderInv, Shape
  <1>2. /\ Len(frames) \in DOMAIN frames /\ Top \in FrameType /\ Top = frames[Len(frames)]
    BY <1>1, LastFront DEF Top
  <1> QED
    BY <1>2 DEF OrderInv, ScanInv, FrameType

\* A file is entered: it was not seen, so no row names it.
LEMMA PushOrder ==
  ASSUME OrderInv, NEW u \in Units, scanState[u] = 0,
         NEW below \in Seq(FrameType),
         Len(below) = Len(frames),
         \A k \in DOMAIN frames : below[k].unit = frames[k].unit,
         \A k \in DOMAIN frames : below[k].include =
            IF k = Len(frames) THEN u ELSE frames[k].include,
         frames' = Append(below, Frame(u)),
         scanState' = [scanState EXCEPT ![u] = 1],
         source' \in [Units -> Seq(ActiveLines)],
         UNCHANGED dependencies
  PROVE  OrderInv'
  <1>1. Frame(u) \in FrameType
    BY DEF Frame, FrameType
  <1>2. /\ frames' \in Seq(FrameType) /\ Len(frames') = Len(below) + 1
        /\ \A k \in 1..Len(below) : frames'[k] = below[k]
        /\ frames'[Len(below) + 1] = Frame(u)
    BY <1>1, AppendProperties
  <1>3. DOMAIN frames = 1..Len(below) /\ DOMAIN frames' = 1..(Len(below) + 1)
        /\ Len(below) \in Nat
    BY <1>2, LenProperties DEF OrderInv, Shape
  <1>4. Frame(u).unit = u /\ Frame(u).include = None
    BY DEF Frame
  <1>0. /\ scanState' \in [Units -> 0..2] /\ scanState'[u] = 1
        /\ \A v \in Units : v # u => scanState'[v] = scanState[v]
    BY DEF OrderInv, Shape
  <1>5. Shape'
    BY <1>2, <1>0 DEF OrderInv, Shape
  <1>6. \A k \in DOMAIN frames : frames[k].unit \in Units /\ frames[k].unit # u
    BY Elements DEF OrderInv, ScanInv
  <1>7. (\A k \in DOMAIN frames : scanState[frames[k].unit] = 1)'
    <2> SUFFICES ASSUME NEW k \in 1..(Len(below) + 1)
                 PROVE  scanState'[frames'[k].unit] = 1
      BY <1>3
    <2>1. CASE k = Len(below) + 1
      BY <2>1, <1>2, <1>4, <1>0
    <2>2. CASE k # Len(below) + 1
      <3>0. k \in 1..Len(below)
        BY <2>2, <1>3
      <3>1. k \in DOMAIN frames /\ frames'[k].unit = frames[k].unit
        BY <3>0, <1>2, <1>3
      <3> QED
        BY <3>1, <1>6, <1>0 DEF OrderInv, ScanInv
    <2> QED
      BY <2>1, <2>2
  <1>8. (\A j, k \in DOMAIN frames : j # k => frames[j].unit # frames[k].unit)'
    BY <1>2, <1>3, <1>4, <1>6 DEF OrderInv, ScanInv
  <1>9. (\A k \in DOMAIN frames : k + 1 \in DOMAIN frames =>
           frames[k].include = frames[k + 1].unit)'
    <2> SUFFICES ASSUME NEW k \in 1..Len(below)
                 PROVE  frames'[k].include = frames'[k + 1].unit
      BY <1>3
    <2>1. CASE k = Len(below)
      BY <2>1, <1>2, <1>3, <1>4
    <2>2. CASE k # Len(below)
      <3>1. k \in DOMAIN frames /\ k + 1 \in DOMAIN frames
        BY <2>2, <1>3
      <3>2. frames'[k] = below[k] /\ frames'[k + 1] = below[k + 1]
        BY <3>1, <1>2, <1>3
      <3> QED
        BY <2>2, <3>1, <3>2 DEF OrderInv, ScanInv
    <2> QED
      BY <2>1, <2>2
  <1>10. Top'.include = None
    BY <1>2, <1>3, <1>4 DEF Top, Last
  <1>11. DependencyOrder'
    <2>1. \A i \in DOMAIN dependencies : /\ dependencies[i].target \in Units
                                         /\ dependencies[i].target # u
      BY Elements DEF OrderInv, DependencyOrder
    <2> QED
      BY <2>1, <1>0 DEF OrderInv, DependencyOrder, RowsOf
  <1> QED
    BY <1>5, <1>7, <1>8, <1>9, <1>10, <1>11 DEF OrderInv, ScanInv

\* The file on top waits for another, or no longer.
LEMMA SetInclude ==
  ASSUME OrderInv, frames # <<>>, NEW x \in Headers \cup {None},
         NEW next, next = [frames EXCEPT ![Len(frames)].include = x]
  PROVE  /\ next \in Seq(FrameType) /\ Len(next) = Len(frames)
         /\ DOMAIN next = DOMAIN frames
         /\ \A k \in DOMAIN frames : /\ next[k].unit = frames[k].unit
                                     /\ next[k].include = IF k = Len(frames) THEN x
                                                          ELSE frames[k].include
  <1> DEFINE n == Len(frames)
  <1>1. n \in 1..Len(frames) /\ frames[n] \in FrameType /\ frames \in Seq(FrameType)
    BY TopFacts, Elements DEF OrderInv, Shape
  <1>2. /\ [frames[n] EXCEPT !.include = x] \in FrameType
        /\ [frames[n] EXCEPT !.include = x].unit = frames[n].unit
        /\ [frames[n] EXCEPT !.include = x].include = x
    BY <1>1 DEF FrameType
  <1>3. next = [frames EXCEPT ![n] = [frames[n] EXCEPT !.include = x]]
    OBVIOUS
  <1> DEFINE e == [frames[n] EXCEPT !.include = x]
  <1>4. /\ next \in Seq(FrameType) /\ Len(next) = Len(frames)
        /\ \A k \in 1..Len(frames) : next[k] = IF k = n THEN e ELSE frames[k]
    <2> HIDE DEF e
    <2>1. e \in FrameType /\ next = [frames EXCEPT ![n] = e]
      BY <1>2, <1>3 DEF e
    <2> QED
      BY <2>1, <1>1, ExceptSeq
  <1>5. DOMAIN next = DOMAIN frames /\ DOMAIN frames = 1..Len(frames)
    BY <1>4, <1>1, LenProperties
  <1> QED
    BY <1>2, <1>4, <1>5

\* The include on top is answered: its row is the last of the table.
LEMMA StoreOrder ==
  ASSUME OrderInv, frames # <<>>, Top.include # None,
         dependencies' = Append(dependencies, Row),
         frames' = [frames EXCEPT ![Len(frames)].include = None],
         UNCHANGED <<source, scanState>>
  PROVE  OrderInv'
  <1> DEFINE n == Len(frames)
             d == Len(dependencies)
  <1>1. /\ n \in DOMAIN frames /\ Top = frames[n] /\ Top.unit \in Units
        /\ Top.include \in Headers /\ Top.include \in Units
        /\ scanState[Top.unit] = 1 /\ scanState[Top.include] = 2
    BY TopFacts DEF OrderInv, ScanInv, Units
  <1>2. /\ frames' \in Seq(FrameType) /\ Len(frames') = n /\ DOMAIN frames' = DOMAIN frames
        /\ \A k \in DOMAIN frames : /\ frames'[k].unit = frames[k].unit
                                    /\ frames'[k].include = IF k = n THEN None
                                                            ELSE frames[k].include
    BY SetInclude
  <1>3. Row \in RowType /\ Row.unit = Top.unit /\ Row.target = Top.include
    <2>1. Len(source[Top.unit]) \in Nat
      BY <1>1, LenProperties DEF OrderInv, Shape
    <2> QED
      BY <1>1, <2>1 DEF Row, RowType
  <1>4. /\ dependencies' \in Seq(RowType) /\ Len(dependencies') = d + 1
        /\ \A i \in 1..d : dependencies'[i] = dependencies[i]
        /\ dependencies'[d + 1] = Row
    BY <1>3, AppendProperties DEF OrderInv, Shape
  <1>5. DOMAIN dependencies = 1..d /\ d \in Nat /\ DOMAIN dependencies' = 1..(d + 1)
    BY <1>4, Elements, LenProperties DEF OrderInv
  <1>6. Shape'
    BY <1>2, <1>4 DEF OrderInv, Shape
  <1>7. (\A k \in DOMAIN frames : scanState[frames[k].unit] = 1)'
    BY <1>2 DEF OrderInv, ScanInv
  <1>8. (\A j, k \in DOMAIN frames : j # k => frames[j].unit # frames[k].unit)'
    BY <1>2 DEF OrderInv, ScanInv
  <1>9. (\A k \in DOMAIN frames : k + 1 \in DOMAIN frames =>
           frames[k].include = frames[k + 1].unit)'
    <2>1. \A k \in DOMAIN frames : k + 1 \in DOMAIN frames => k # n
      BY Elements DEF OrderInv
    <2> QED
      BY <2>1, <1>2 DEF OrderInv, ScanInv
  <1>10. (frames # <<>> /\ Top.include # None => scanState[Top.include] = 2)'
    BY <1>1, <1>2 DEF Top, Last
  <1>11. DependencyOrder'
    <2> SUFFICES ASSUME NEW i \in 1..(d + 1)
                 PROVE  /\ scanState[dependencies'[i].target] = 2
                        /\ \A j \in 1..(d + 1) :
                             dependencies'[j].unit = dependencies'[i].target => j < i
      BY <1>5 DEF DependencyOrder, RowsOf
    <2>1. scanState[dependencies'[i].target] = 2
      <3>1. CASE i = d + 1
        BY <3>1, <1>1, <1>3, <1>4
      <3>2. CASE i \in 1..d
        BY <3>2, <1>4, <1>5 DEF OrderInv, DependencyOrder
      <3> QED
        BY <3>1, <3>2, <1>5
    <2>2. ASSUME NEW j \in 1..(d + 1), dependencies'[j].unit = dependencies'[i].target
          PROVE  j < i
      <3>1. j # d + 1
        BY <2>1, <2>2, <1>1, <1>3, <1>4
      <3>2. j \in 1..d
        BY <3>1, <1>5
      <3>3. CASE i = d + 1
        BY <3>2, <3>3, <1>5
      <3>4. CASE i \in 1..d
        <4>1. dependencies[j].unit = dependencies[i].target
          BY <2>2, <3>2, <3>4, <1>4
        <4> QED
          BY <4>1, <3>2, <3>4, <1>5 DEF OrderInv, DependencyOrder, RowsOf
      <3> QED
        BY <3>3, <3>4, <1>5
    <2> QED
      BY <2>1, <2>2
  <1> QED
    BY <1>6, <1>7, <1>8, <1>9, <1>10, <1>11 DEF OrderInv, ScanInv

\* The file on top is read to its end.
LEMMA PopOrder ==
  ASSUME OrderInv, frames # <<>>, Top.include = None,
         frames' = Front(frames),
         scanState' = [scanState EXCEPT ![Top.unit] = 2],
         UNCHANGED <<source, dependencies>>
  PROVE  OrderInv'
  <1> DEFINE n == Len(frames)
  <1>1. /\ n \in DOMAIN frames /\ Top = frames[n] /\ Top.unit \in Units
        /\ DOMAIN frames = 1..n /\ n \in Nat
    BY TopFacts, Elements DEF OrderInv
  <1>2. /\ frames' \in Seq(FrameType) /\ Len(frames') = n - 1
        /\ DOMAIN frames' = 1..(n - 1)
        /\ \A k \in 1..(n - 1) : frames'[k] = frames[k]
    BY LastFront DEF OrderInv, Shape
  <1>3. /\ scanState' \in [Units -> 0..2] /\ scanState'[Top.unit] = 2
        /\ \A v \in Units : v # Top.unit => scanState'[v] = scanState[v]
    BY <1>1 DEF OrderInv, Shape
  <1>4. Shape'
    BY <1>2, <1>3 DEF OrderInv, Shape
  <1>5. (\A k \in DOMAIN frames : scanState[frames[k].unit] = 1)'
    <2> SUFFICES ASSUME NEW k \in 1..(n - 1)
                 PROVE  scanState'[frames[k].unit] = 1
      BY <1>2
    <2>0. \A m \in Nat : k \in 1..(m - 1) => k \in 1..m /\ k # m
      OBVIOUS
    <2>1. k \in DOMAIN frames /\ k # n
      <3>1. n \in Nat /\ DOMAIN frames = 1..n
        BY <1>1
      <3> QED
        BY ONLY <2>0, <3>1, k \in 1..(n - 1)
    <2>2. frames[k].unit \in Units /\ frames[k].unit # Top.unit
      BY <2>1, <1>1, Elements DEF OrderInv, ScanInv
    <2> QED
      BY <2>1, <2>2, <1>3 DEF OrderInv, ScanInv
  <1>6. (\A j, k \in DOMAIN frames : j # k => frames[j].unit # frames[k].unit)'
    BY <1>1, <1>2 DEF OrderInv, ScanInv
  <1>7. (\A k \in DOMAIN frames : k + 1 \in DOMAIN frames =>
           frames[k].include = frames[k + 1].unit)'
    BY <1>1, <1>2 DEF OrderInv, ScanInv
  <1>8. (frames # <<>> /\ Top.include # None => scanState[Top.include] = 2)'
    <2> SUFFICES ASSUME frames' # <<>>
                 PROVE  scanState'[Top'.include] = 2
      OBVIOUS
    <2>1. n - 1 \in 1..(n - 1) /\ Top' = frames'[n - 1]
      BY <1>2, LastFront DEF Top
    <2>2. Top' = frames[n - 1] /\ n - 1 \in DOMAIN frames /\ (n - 1) + 1 = n
      BY <2>1, <1>1, <1>2
    <2>3. Top'.include = Top.unit
      BY <2>2, <1>1 DEF OrderInv, ScanInv
    <2> QED
      BY <2>3, <1>3
  <1>9. DependencyOrder'
    BY <1>3, Elements DEF OrderInv, DependencyOrder, RowsOf
  <1> QED
    BY <1>4, <1>5, <1>6, <1>7, <1>8, <1>9 DEF OrderInv, ScanInv

-----------------------------------------------------------------------------
LEMMA ReadLineOrder ==
  ASSUME OrderInv, ReadLine
  PROVE  OrderInv'
  <1>1. frames # <<>> /\ Top.include = None /\ Top.unit \in Units
    BY TopFacts DEF ReadLine, Reading
  <1>2. PICK line \in ActiveLines : ScanLine(line)
    BY DEF ReadLine, NextLines, InactiveLines
  <1>3. Reads(line) => source' \in [Units -> Seq(ActiveLines)]
    <2>1. source[Top.unit] \in Seq(ActiveLines)
      BY <1>1 DEF OrderInv, Shape
    <2>2. Append(source[Top.unit], line) \in Seq(ActiveLines)
      BY <2>1, <1>2, AppendProperties
    <2> QED
      BY <2>2, <1>1 DEF OrderInv, Shape, Reads
  <1>4. ASSUME Reads(line), UNCHANGED <<scanState, dependencies, frames>>
        PROVE  OrderInv'
    BY <1>3, <1>4 DEF OrderInv, Shape, ScanInv, DependencyOrder, RowsOf, Top
  <1>5. CASE ScanConditional(line)
    BY <1>4, <1>5 DEF ScanConditional
  <1>6. CASE ScanText(line)
    BY <1>4, <1>6 DEF ScanText
  <1>7. CASE ScanDefine(line)
    BY <1>4, <1>7 DEF ScanDefine
  <1>8. CASE ScanUndef(line)
    BY <1>4, <1>8 DEF ScanUndef
  <1>9. CASE ScanError(line)
    BY <1>9, StutterOrder DEF ScanError, Fail, scanVars
  <1>10. CASE ScanInclude(line)
    <2> DEFINE target == line.arg
               waiting == [frames EXCEPT ![Len(frames)].include = line.arg]
    <2>1. /\ target \in Headers /\ target \in Units /\ target \in Headers \cup {None}
          /\ scanState[target] # 1
          /\ source' \in [Units -> Seq(ActiveLines)] /\ UNCHANGED dependencies
      BY <1>10, <1>3 DEF ScanInclude, Includable, Units
    <2>2. /\ waiting \in Seq(FrameType) /\ Len(waiting) = Len(frames)
          /\ DOMAIN waiting = DOMAIN frames
          /\ \A k \in DOMAIN frames :
               /\ waiting[k].unit = frames[k].unit
               /\ waiting[k].include = IF k = Len(frames) THEN target ELSE frames[k].include
      <3>1. waiting = [frames EXCEPT ![Len(frames)].include = target]
        OBVIOUS
      <3> HIDE DEF waiting, target
      <3> QED
        BY <3>1, <2>1, <1>1, SetInclude, Zenon
    <2>3. CASE /\ scanState[target] = 0
               /\ scanState' = [scanState EXCEPT ![target] = 1]
               /\ frames' = Append(waiting, Frame(target))
      <3> HIDE DEF waiting, target
      <3> QED
        BY <2>1, <2>2, <2>3, PushOrder
    <2>4. CASE /\ scanState[target] # 0 /\ frames' = waiting /\ UNCHANGED scanState
      <3>1. scanState[target] = 2
        BY <2>1, <2>4 DEF OrderInv, Shape
      <3>2. Shape'
        BY <2>1, <2>2, <2>4 DEF OrderInv, Shape
      <3>3. (\A k \in DOMAIN frames : scanState[frames[k].unit] = 1)'
        BY <2>2, <2>4 DEF OrderInv, ScanInv
      <3>4. (\A j, k \in DOMAIN frames : j # k => frames[j].unit # frames[k].unit)'
        BY <2>2, <2>4 DEF OrderInv, ScanInv
      <3>5. (\A k \in DOMAIN frames : k + 1 \in DOMAIN frames =>
               frames[k].include = frames[k + 1].unit)'
        <4>1. \A k \in DOMAIN frames : k + 1 \in DOMAIN frames => k # Len(frames)
          BY Elements DEF OrderInv
        <4> QED
          BY <4>1, <2>2, <2>4 DEF OrderInv, ScanInv
      <3>6. Top'.include = target
        BY <2>2, <2>4, <1>1, TopFacts DEF Top, Last
      <3>7. DependencyOrder'
        BY <2>1, <2>4 DEF OrderInv, DependencyOrder, RowsOf
      <3> QED
        BY <3>1, <3>2, <3>3, <3>4, <3>5, <3>6, <3>7, <2>4 DEF OrderInv, ScanInv
    <2> QED
      BY <1>10, <2>3, <2>4 DEF ScanInclude
  <1> QED
    BY <1>2, <1>5, <1>6, <1>7, <1>8, <1>9, <1>10 DEF ScanLine

LEMMA NextOrder ==
  ASSUME OrderInv, [Next]_vars
  PROVE  OrderInv'
  <1>1. ASSUME NEW u \in Sources, ScanSource(u)
        PROVE  OrderInv'
    <2>1. /\ u \in Units /\ scanState[u] = 0 /\ frames = <<>>
          /\ scanState' = [scanState EXCEPT ![u] = 1]
          /\ frames' = <<Frame(u)>> /\ UNCHANGED <<source, dependencies>>
      BY <1>1 DEF ScanSource, Units
    <2>2. frames \in Seq(FrameType) /\ frames' = Append(frames, Frame(u))
      BY <2>1 DEF OrderInv, Shape
    <2>3. /\ \A k \in DOMAIN frames : frames[k].include =
                IF k = Len(frames) THEN u ELSE frames[k].include
          /\ source' \in [Units -> Seq(ActiveLines)]
      <3>1. DOMAIN frames = {}
        BY <2>1
      <3> QED
        BY <3>1, <2>1 DEF OrderInv, Shape
    <2> QED
      BY <2>1, <2>2, <2>3, PushOrder
  <1>2. ASSUME NEW u \in Sources, ParseSource(u)
        PROVE  OrderInv'
    BY <1>2, StutterOrder DEF ParseSource, scanVars
  <1>3. CASE ReadLine
    BY <1>3, ReadLineOrder
  <1>4. CASE StoreDependency
    <2>1. Top.include # None /\ frames # <<>>
      BY <1>4 DEF StoreDependency, Returned
    <2>2. CASE /\ dependencies' = Append(dependencies, Row)
               /\ frames' = [frames EXCEPT ![Len(frames)].include = None]
               /\ UNCHANGED <<source, scanState>>
      BY <2>1, <2>2, StoreOrder
    <2>3. CASE UNCHANGED scanVars
      BY <2>3, StutterOrder DEF scanVars
    <2> QED
      BY <1>4, <2>2, <2>3 DEF StoreDependency, Fail
  <1>5. CASE StoreBehindTable
    BY <1>5, StutterOrder DEF StoreBehindTable, scanVars
  <1>6. CASE EndOfFile
    BY <1>6, PopOrder DEF EndOfFile, Reading
  <1>7. CASE Unterminated
    BY <1>7, StutterOrder DEF Unterminated, Fail, scanVars
  <1>8. CASE ScanDone
    BY <1>8, StutterOrder DEF ScanDone, scanVars
  <1>9. CASE ParseDependency
    BY <1>9, StutterOrder DEF ParseDependency, scanVars
  <1>10. CASE ParseUnit
    BY <1>10, StutterOrder DEF ParseUnit, scanVars
  <1>11. CASE ParseDone
    BY <1>11, StutterOrder DEF ParseDone, scanVars
  <1>12. CASE Ended \/ UNCHANGED vars
    BY <1>12, StutterOrder DEF Ended, vars, scanVars
  <1> QED
    BY <1>1, <1>2, <1>3, <1>4, <1>5, <1>6, <1>7, <1>8, <1>9, <1>10, <1>11, <1>12 DEF Next

\* The include table is in post-order and so without cycles, for any project:
\* what nc_pp_import_file_effects and the parser follow down comes to an end.
THEOREM IncludesInPostOrder == Spec => []DependencyOrder
  <1>1. Init => OrderInv
    BY InitOrder
  <1>2. OrderInv /\ [Next]_vars => OrderInv'
    BY NextOrder
  <1>3. OrderInv => DependencyOrder
    BY DEF OrderInv
  <1> QED
    BY <1>1, <1>2, <1>3, PTL DEF Spec
-----------------------------------------------------------------------------
LEMMA FirstRowIsLeast ==
  ASSUME OrderInv, RowsLeft # {}
  PROVE  FirstRow \in RowsLeft /\ \A j \in RowsLeft : FirstRow <= j
  <1>1. RowsLeft \subseteq Nat
    BY Elements DEF OrderInv, RowsLeft, RowsOf
  <1>2. PICK i \in RowsLeft : \A j \in RowsLeft : <<j, i>> \notin OpToRel(<, Nat)
    BY <1>1, WFMin, NatLessThanWellFounded, Zenon
  <1>3. \A j \in RowsLeft : ~(j < i)
    BY <1>1, <1>2, Zenon DEF OpToRel
  <1>4. \E m \in RowsLeft : \A j \in RowsLeft : m <= j
    BY <1>1, <1>3
  <1> QED
    BY <1>4 DEF FirstRow

LEMMA VisitFacts ==
  ASSUME visits \in Seq(VisitType), visits # <<>>
  PROVE  /\ Len(visits) \in Nat \ {0} /\ DOMAIN visits = 1..Len(visits)
         /\ Visited = visits[Len(visits)] /\ Len(visits) \in DOMAIN visits
         /\ \A k \in DOMAIN visits : /\ visits[k] \in VisitType
                                     /\ visits[k].unit \in Units /\ visits[k].row \in Nat
  <1>1. /\ Len(visits) \in Nat \ {0} /\ DOMAIN visits = 1..Len(visits)
        /\ \A k \in DOMAIN visits : visits[k] \in VisitType
    BY EmptySeq, LenProperties, ElementOfSeq
  <1> QED
    BY <1>1 DEF Visited, Last, VisitType

\* The steps that leave the parser alone.
LEMMA StutterParse ==
  ASSUME ParseInv, UNCHANGED <<dependencies, visits, parsed>>, phase' = "parse" => phase = "parse",
         phase' = "scan" => phase = "scan"
  PROVE  ParseInv'
  BY DEF ParseInv, VisitsDescend, VisitsOpen, HeadersFirst, WasParsed, RowsOf, Taken, Below

\* The table grows while nothing is parsed yet.
LEMMA ScanParse ==
  ASSUME ParseInv, phase = "scan", phase' \in {"scan", "parse", "failed", "overrun"},
         UNCHANGED <<visits, parsed>>
  PROVE  ParseInv'
  <1>1. /\ visits' = <<>> /\ parsed' = <<>> /\ visits' \in Seq(VisitType)
        /\ parsed' \in Seq(Units) /\ DOMAIN visits' = {} /\ DOMAIN parsed' = {}
    BY DEF ParseInv
  <1>2. Below' = {}
    BY <1>1, EmptySeq DEF Below
  <1> QED
    BY <1>1, <1>2 DEF ParseInv, VisitsDescend, VisitsOpen, HeadersFirst, RowsOf

LEMMA SourceParse ==
  ASSUME OrderInv, ParseInv, NEW u \in Sources, ParseSource(u)
  PROVE  ParseInv'
  <1>1. /\ visits = <<>> /\ visits' = <<Visit(u)>> /\ ~WasParsed(u)
        /\ phase = "parse" /\ UNCHANGED <<phase, parsed, dependencies>>
    BY DEF ParseSource, scanVars
  <1>2. /\ Visit(u) \in VisitType /\ Visit(u).unit = u /\ Visit(u).row = 1
    BY DEF Visit, VisitType, Units
  <1>3. /\ visits' \in Seq(VisitType) /\ Len(visits') = 1 /\ DOMAIN visits' = {1}
        /\ visits'[1] = Visit(u)
    BY <1>1, <1>2
  <1>4. Below' = {}
    BY <1>3 DEF Below
  <1>5. VisitsOpen'
    <2>1. \A r \in RowsOf(dependencies, u) : ~(r < 1)
      BY Elements DEF RowsOf, OrderInv
    <2> QED
      BY <2>1, <1>1, <1>2, <1>3 DEF VisitsOpen, WasParsed, RowsOf
  <1> QED
    BY <1>1, <1>3, <1>4, <1>5 DEF ParseInv, VisitsDescend, HeadersFirst, RowsOf

LEMMA SetRow ==
  ASSUME visits \in Seq(VisitType), visits # <<>>, NEW x \in Nat,
         NEW next, next = [visits EXCEPT ![Len(visits)].row = x]
  PROVE  /\ next \in Seq(VisitType) /\ Len(next) = Len(visits)
         /\ \A k \in DOMAIN visits : /\ next[k].unit = visits[k].unit
                                     /\ next[k].row = IF k = Len(visits) THEN x
                                                      ELSE visits[k].row
  <1> DEFINE n == Len(visits)
             e == [visits[n] EXCEPT !.row = x]
  <1>1. n \in 1..Len(visits) /\ visits[n] \in VisitType /\ DOMAIN visits = 1..Len(visits)
    BY VisitFacts
  <1>2. e \in VisitType /\ e.unit = visits[n].unit /\ e.row = x
    BY <1>1 DEF VisitType
  <1>3. next = [visits EXCEPT ![n] = e]
    OBVIOUS
  <1>4. /\ next \in Seq(VisitType) /\ Len(next) = Len(visits)
        /\ \A k \in 1..Len(visits) : next[k] = IF k = n THEN e ELSE visits[k]
    <2> HIDE DEF e
    <2> QED
      BY <1>1, <1>2, <1>3, ExceptSeq
  <1> QED
    BY <1>1, <1>2, <1>4

\* The visit on top looks at its next row, and goes through it if the target
\* is not parsed yet: by the order of the table no visit below is of that file.
LEMMA DependencyParse ==
  ASSUME OrderInv, ParseInv, ParseDependency
  PROVE  ParseInv'
  <1>1. /\ visits \in Seq(VisitType) /\ visits # <<>> /\ RowsLeft # {} /\ phase = "parse"
        /\ UNCHANGED <<phase, parsed, dependencies>>
        /\ VisitsDescend /\ VisitsOpen /\ HeadersFirst
    BY DEF ParseDependency, scanVars, ParseInv
  <1>10. PICK n \in Nat \ {0} : n = Len(visits)
    BY <1>1, VisitFacts
  <1>2. /\ DOMAIN visits = 1..n /\ n \in DOMAIN visits /\ Visited = visits[n]
        /\ \A k \in 1..n : visits[k].unit \in Units /\ visits[k].row \in Nat
        /\ Below = 1..(n - 1)
    BY <1>1, <1>10, VisitFacts DEF Below
  <1>11. PICK F \in RowsLeft : F = FirstRow /\ \A r \in RowsLeft : F <= r
    BY <1>1, FirstRowIsLeast
  <1>3. /\ F \in RowsOf(dependencies, visits[n].unit) /\ F >= visits[n].row
        /\ \A r \in RowsOf(dependencies, visits[n].unit) : r >= visits[n].row => F <= r
    BY <1>11, <1>2 DEF RowsLeft
  <1>12. PICK t : t = dependencies[F].target
    OBVIOUS
  <1>4. /\ F \in DOMAIN dependencies /\ F \in Nat /\ t \in Units
        /\ DOMAIN dependencies \subseteq Nat
    BY <1>3, <1>12, Elements DEF RowsOf, OrderInv
  <1>13. PICK onward : onward = [visits EXCEPT ![Len(visits)].row = F + 1]
    OBVIOUS
  <1>14. visits' = IF WasParsed(t) THEN onward ELSE Append(onward, Visit(t))
    BY <1>11, <1>12, <1>13 DEF ParseDependency
  <1>5. /\ onward \in Seq(VisitType) /\ Len(onward) = n
        /\ \A k \in 1..n : /\ onward[k].unit = visits[k].unit
                            /\ onward[k].row = IF k = n THEN F + 1 ELSE visits[k].row
    <2>1. F + 1 \in Nat
      BY <1>4
    <2>2. /\ onward \in Seq(VisitType) /\ Len(onward) = Len(visits)
          /\ \A k \in DOMAIN visits : /\ onward[k].unit = visits[k].unit
                                      /\ onward[k].row = IF k = Len(visits) THEN F + 1
                                                         ELSE visits[k].row
      BY <2>1, <1>1, <1>13, SetRow
    <2> QED
      BY <2>2, <1>10, <1>2
  <1>6. \A r \in RowsOf(dependencies, visits[n].unit) :
          r < F + 1 => WasParsed(dependencies[r].target) \/ r = F
    <2> SUFFICES ASSUME NEW r \in RowsOf(dependencies, visits[n].unit), r < F + 1, r # F
                 PROVE  WasParsed(dependencies[r].target)
      OBVIOUS
    <2>1. r \in Nat
      BY <1>4 DEF RowsOf
    <2>2. r < F
      BY <2>1, <1>4
    <2>3. r < visits[n].row
      BY <2>1, <2>2, <1>2, <1>3, <1>4
    <2>4. n \notin Below
      BY <1>2
    <2> QED
      BY <2>3, <2>4, <1>1, <1>2 DEF VisitsOpen
  <1>7. CASE WasParsed(t)
    <2>1. /\ visits' = onward /\ DOMAIN visits' = 1..n /\ Below' = Below
      BY <1>10, <1>14, <1>5, <1>7, LenProperties DEF Below
    <2>0. \A k \in Below : k \in 1..n /\ k + 1 \in 1..n /\ k # n
      BY <1>2
    <2>2. \A k \in Below : Taken(k)' = Taken(k) /\ k \in 1..n /\ k + 1 \in 1..n /\ k # n
      BY <2>0, <1>5, <2>1 DEF Taken
    <2>3. VisitsDescend'
      BY <1>1, <1>5, <2>1, <2>2 DEF VisitsDescend, RowsOf
    <2>4. VisitsOpen'
      <3>1. (\A k \in DOMAIN visits : ~WasParsed(visits[k].unit))'
        BY <1>1, <1>2, <1>5, <2>1 DEF VisitsOpen, WasParsed
      <3>2. (\A j, k \in DOMAIN visits : j # k => visits[j].unit # visits[k].unit)'
        BY <1>1, <1>2, <1>5, <2>1 DEF VisitsOpen
      <3>3. ASSUME NEW k \in 1..n, NEW r \in RowsOf(dependencies, visits[k].unit),
                   r < onward[k].row
            PROVE  WasParsed(dependencies[r].target) \/ (k \in Below /\ r = Taken(k))
        <4>1. CASE k = n
          BY <3>3, <4>1, <1>5, <1>6, <1>7, <1>12
        <4>2. CASE k # n
          BY <3>3, <4>2, <1>1, <1>2, <1>5 DEF VisitsOpen
        <4> QED
          BY <4>1, <4>2
      <3> QED
        BY <3>1, <3>2, <3>3, <1>1, <1>5, <2>1, <2>2 DEF VisitsOpen, WasParsed, RowsOf
    <2> QED
      BY <1>1, <1>5, <2>1, <2>3, <2>4 DEF ParseInv, HeadersFirst, RowsOf
  <1>8. CASE ~WasParsed(t)
    <2>1. Visit(t) \in VisitType /\ Visit(t).unit = t /\ Visit(t).row = 1
      BY <1>4 DEF Visit, VisitType
    <2>2. /\ visits' \in Seq(VisitType) /\ Len(visits') = n + 1
          /\ DOMAIN visits' = 1..(n + 1) /\ Below' = 1..n
          /\ \A k \in 1..n : visits'[k] = onward[k]
          /\ visits'[n + 1] = Visit(t)
      <3>1. visits' = Append(onward, Visit(t))
        BY <1>14, <1>8
      <3>2. /\ visits' \in Seq(VisitType) /\ Len(visits') = n + 1
            /\ \A k \in 1..n : visits'[k] = onward[k]
            /\ visits'[n + 1] = Visit(t)
        BY <3>1, <1>5, <2>1, AppendProperties
      <3> QED
        BY <3>2, LenProperties DEF Below
    <2>3. /\ Taken(n)' = F /\ \A k \in 1..(n - 1) : Taken(k)' = Taken(k)
      <3>1. \A k \in 1..(n - 1) : k \in 1..n /\ k # n
        OBVIOUS
      <3> QED
        BY <3>1, <1>2, <1>4, <1>5, <2>2 DEF Taken
    <2>4. \A j \in 1..(n - 1) : F < Taken(j) /\ Taken(j) \in Nat
      <3> SUFFICES ASSUME NEW j \in 1..(n - 1)
                   PROVE  F < Taken(j) /\ Taken(j) \in Nat
        OBVIOUS
      <3>1. /\ n - 1 \in Below /\ j \in Below /\ (n - 1) + 1 = n
        BY <1>2, <2>3
      <3>2. /\ Taken(n - 1) \in DOMAIN dependencies /\ Taken(j) \in DOMAIN dependencies
            /\ dependencies[Taken(n - 1)].target = visits[n].unit
        BY <3>1, <1>1 DEF VisitsDescend, RowsOf
      <3>3. F < Taken(n - 1)
        BY <3>2, <1>3 DEF OrderInv, DependencyOrder
      <3>4. j = n - 1 \/ Taken(n - 1) < Taken(j)
        BY <3>1, <1>1, <1>2 DEF VisitsDescend
      <3> QED
        BY <3>2, <3>3, <3>4, <1>4
    <2>5. VisitsDescend'
      <3>1. ASSUME NEW k \in 1..n
            PROVE  /\ Taken(k)' \in RowsOf(dependencies, visits[k].unit)
                   /\ dependencies[Taken(k)'].target = visits'[k + 1].unit
        <4>1. CASE k = n
          BY <4>1, <2>1, <2>2, <2>3, <1>3, <1>12
        <4>2. CASE k # n
          <5>1. k \in 1..(n - 1) /\ k \in Below /\ k + 1 \in 1..n
            BY <4>2, <1>2, <2>3
          <5> QED
            BY <5>1, <2>2, <2>3, <1>1, <1>5 DEF VisitsDescend
        <4> QED
          BY <4>1, <4>2
      <3>2. ASSUME NEW j \in 1..n, NEW k \in 1..n, j < k
            PROVE  Taken(k)' < Taken(j)'
        <4>1. j \in 1..(n - 1)
          BY <3>2, <1>2
        <4>2. CASE k = n
          BY <4>1, <4>2, <2>3, <2>4
        <4>3. CASE k # n
          BY <4>1, <4>3, <3>2, <2>3, <1>1, <1>2 DEF VisitsDescend
        <4> QED
          BY <4>2, <4>3
      <3>3. \A k \in 1..n : visits'[k].unit = visits[k].unit
        BY <1>5, <2>2
      <3> QED
        BY <3>1, <3>2, <3>3, <2>2, <1>1 DEF VisitsDescend, RowsOf
    <2>6. \A k \in 1..n : visits[k].unit # t
      <3> SUFFICES ASSUME NEW k \in 1..n, visits[k].unit = t
                   PROVE  FALSE
        OBVIOUS
      <3>1. \A r \in RowsOf(dependencies, t) : r < F
        BY <1>4, <1>12 DEF OrderInv, DependencyOrder
      <3>2. CASE k = n
        BY <3>1, <3>2, <1>3, <1>4
      <3>3. CASE k # n
        <4>1. k \in 1..(n - 1) /\ k \in Below
          BY <3>3, <1>2, <2>3
        <4>2. Taken(k) \in RowsOf(dependencies, t)
          BY <4>1, <1>1 DEF VisitsDescend
        <4> QED
          BY <4>1, <4>2, <3>1, <2>4, <1>4
      <3> QED
        BY <3>2, <3>3
    <2>7. VisitsOpen'
      <3>0. \A k \in 1..n : visits'[k].unit = visits[k].unit /\ visits'[k].row = onward[k].row
        BY <1>5, <2>2
      <3>1. (\A k \in DOMAIN visits : ~WasParsed(visits[k].unit))'
        <4>1. \A k \in 1..n : ~WasParsed(visits'[k].unit)
          BY <3>0, <1>1, <1>2, <1>5 DEF VisitsOpen
        <4>2. ~WasParsed(visits'[n + 1].unit)
          BY <2>1, <2>2, <1>8
        <4> QED
          BY <4>1, <4>2, <2>2, <1>1, <1>2 DEF WasParsed
      <3>2. (\A j, k \in DOMAIN visits : j # k => visits[j].unit # visits[k].unit)'
        <4>1. \A j, k \in 1..n : j # k => visits'[j].unit # visits'[k].unit
          BY <3>0, <1>1, <1>2 DEF VisitsOpen
        <4>2. \A k \in 1..n : visits'[k].unit # visits'[n + 1].unit
          BY <2>1, <2>2, <2>6, <1>5
        <4>3. \A k \in 1..(n + 1) : k \in 1..n \/ k = n + 1
          BY <1>2
        <4> QED
          BY <4>1, <4>2, <4>3, <2>2
      <3>3. ASSUME NEW k \in 1..(n + 1), NEW r \in RowsOf(dependencies, visits'[k].unit),
                   r < visits'[k].row
            PROVE  WasParsed(dependencies[r].target) \/ (k \in 1..n /\ r = Taken(k)')
        <4>1. CASE k = n + 1
          <5>1. r < 1 /\ r \in DOMAIN dependencies
            BY <3>3, <4>1, <2>1, <2>2 DEF RowsOf
          <5> QED
            BY <5>1, Elements DEF OrderInv
        <4>2. CASE k = n
          BY <3>3, <4>2, <3>0, <1>2, <1>5, <1>6, <2>2, <2>3
        <4>3. CASE k \in 1..(n - 1)
          <5>1. /\ k \in DOMAIN visits /\ r \in RowsOf(dependencies, visits[k].unit)
                /\ r < visits[k].row /\ Taken(k)' = Taken(k) /\ k \in 1..n
            BY <3>3, <4>3, <3>0, <1>2, <1>5, <2>3
          <5> QED
            BY <5>1, <1>1 DEF VisitsOpen
        <4> QED
          BY <4>1, <4>2, <4>3, <1>2
      <3> QED
        BY <3>1, <3>2, <3>3, <2>2, <1>1 DEF VisitsOpen, WasParsed, RowsOf
    <2> QED
      BY <1>1, <2>2, <2>5, <2>7 DEF ParseInv, HeadersFirst, RowsOf
  <1> QED
    BY <1>7, <1>8

\* The visit on top has no row left: all that its file includes is parsed, and
\* so is the row the visit below took to come here.
LEMMA UnitParse ==
  ASSUME OrderInv, ParseInv, ParseUnit
  PROVE  ParseInv'
  <1>1. /\ visits \in Seq(VisitType) /\ visits # <<>> /\ RowsLeft = {} /\ phase = "parse"
        /\ visits' = Front(visits) /\ UNCHANGED dependencies
        /\ parsed \in Seq(Units)
        /\ VisitsDescend /\ VisitsOpen /\ HeadersFirst
    BY DEF ParseUnit, scanVars, ParseInv
  <1>2. PICK n \in Nat \ {0} : n = Len(visits)
    BY <1>1, VisitFacts
  <1>3. /\ DOMAIN visits = 1..n /\ n \in DOMAIN visits /\ Visited = visits[n]
        /\ \A k \in 1..n : visits[k].unit \in Units /\ visits[k].row \in Nat
        /\ Below = 1..(n - 1)
    BY <1>1, <1>2, VisitFacts DEF Below
  <1>4. PICK u \in Units : u = Visited.unit
    BY <1>3
  <1>5. /\ visits' \in Seq(VisitType) /\ Len(visits') = n - 1
        /\ DOMAIN visits' = 1..(n - 1) /\ Below' = 1..(n - 2)
        /\ \A k \in 1..(n - 1) : visits'[k] = visits[k]
    <2>1. /\ Front(visits) \in Seq(VisitType) /\ Len(Front(visits)) = Len(visits) - 1
          /\ DOMAIN Front(visits) = 1..(Len(visits) - 1)
          /\ \A k \in 1..(Len(visits) - 1) : Front(visits)[k] = visits[k]
      BY <1>1, LastFront
    <2>2. (n - 1) - 1 = n - 2
      OBVIOUS
    <2> QED
      BY <2>1, <2>2, <1>1, <1>2 DEF Below
  <1>6. \A r \in RowsOf(dependencies, u) : WasParsed(dependencies[r].target)
    <2> SUFFICES ASSUME NEW r \in RowsOf(dependencies, u)
                 PROVE  WasParsed(dependencies[r].target)
      OBVIOUS
    <2>1. r \in Nat
      BY Elements DEF RowsOf, OrderInv
    <2>2. r < visits[n].row
      BY <2>1, <1>1, <1>3, <1>4 DEF RowsLeft
    <2>3. n \notin Below
      BY <1>3
    <2> QED
      BY <2>2, <2>3, <1>1, <1>3, <1>4 DEF VisitsOpen
  <1>7. ~WasParsed(u)
    BY <1>1, <1>3, <1>4 DEF VisitsOpen
  <1>8. CASE status' = "OK"
    <2>1. parsed' = Append(parsed, u) /\ phase' = "parse"
      BY <1>4, <1>8 DEF ParseUnit
    <2>2. PICK m \in Nat : m = Len(parsed) /\ DOMAIN parsed = 1..m
      BY <1>1, LenProperties
    <2>3. /\ parsed' \in Seq(Units) /\ DOMAIN parsed' = 1..(m + 1)
          /\ \A i \in 1..m : parsed'[i] = parsed[i]
          /\ parsed'[m + 1] = u
      <3>1. /\ parsed' \in Seq(Units) /\ Len(parsed') = m + 1
            /\ \A i \in 1..m : parsed'[i] = parsed[i]
            /\ parsed'[m + 1] = u
        BY <1>1, <2>1, <2>2, AppendProperties
      <3> QED
        BY <3>1, LenProperties
    <2>4. \A i \in 1..(m + 1) : i \in 1..m \/ i = m + 1
      OBVIOUS
    <2>5. \A x : (\E i \in DOMAIN parsed' : parsed'[i] = x) <=> (WasParsed(x) \/ x = u)
      BY <2>2, <2>3, <2>4 DEF WasParsed
    <2>6. HeadersFirst'
      <3>1. \A i, j \in 1..(m + 1) : parsed'[i] = parsed'[j] => i = j
        <4>1. \A i \in 1..m : parsed[i] # u
          BY <1>7, <2>2 DEF WasParsed
        <4> QED
          BY <4>1, <1>1, <2>2, <2>3, <2>4 DEF HeadersFirst
      <3>2. ASSUME NEW i \in 1..(m + 1), NEW r \in RowsOf(dependencies, parsed'[i])
            PROVE  \E j \in 1..(i - 1) : parsed'[j] = dependencies[r].target
        <4>1. CASE i = m + 1
          <5>1. PICK j \in 1..m : parsed[j] = dependencies[r].target
            BY <3>2, <4>1, <1>6, <2>2, <2>3 DEF WasParsed
          <5> QED
            BY <5>1, <4>1, <2>3
        <4>2. CASE i \in 1..m
          <5>1. r \in RowsOf(dependencies, parsed[i])
            BY <3>2, <4>2, <2>3
          <5>2. PICK j \in 1..(i - 1) : parsed[j] = dependencies[r].target
            BY <5>1, <4>2, <1>1, <2>2 DEF HeadersFirst
          <5>3. j \in 1..m
            BY <5>2, <4>2
          <5> QED
            BY <5>2, <5>3, <2>3
        <4> QED
          BY <4>1, <4>2, <2>4
      <3> QED
        BY <3>1, <3>2, <2>3, <1>1 DEF HeadersFirst, RowsOf
    <2>7. \A k \in 1..(n - 1) : Taken(k)' = Taken(k) /\ k \in 1..n /\ k \in Below /\ k # n
      BY <1>3, <1>5 DEF Taken
    <2>8. \A k \in 1..(n - 2) : k \in 1..(n - 1) /\ k + 1 \in 1..(n - 1)
      OBVIOUS
    <2>9. VisitsDescend'
      <3>1. \A k \in 1..(n - 2) : /\ Taken(k)' \in RowsOf(dependencies, visits'[k].unit)
                                  /\ dependencies[Taken(k)'].target = visits'[k + 1].unit
        BY <2>7, <2>8, <1>1, <1>5 DEF VisitsDescend
      <3>2. \A j, k \in 1..(n - 2) : j < k => Taken(k)' < Taken(j)'
        BY <2>7, <2>8, <1>1 DEF VisitsDescend
      <3> QED
        BY <3>1, <3>2, <1>1, <1>5 DEF VisitsDescend, RowsOf
    <2>10. VisitsOpen'
      <3>1. \A k \in 1..(n - 1) : visits'[k].unit # u /\ ~WasParsed(visits'[k].unit)
        BY <2>7, <1>1, <1>3, <1>4, <1>5 DEF VisitsOpen
      <3>2. \A j, k \in 1..(n - 1) : j # k => visits'[j].unit # visits'[k].unit
        BY <2>7, <1>1, <1>3, <1>5 DEF VisitsOpen
      <3>3. ASSUME NEW k \in 1..(n - 1), NEW r \in RowsOf(dependencies, visits'[k].unit),
                   r < visits'[k].row
            PROVE  \/ WasParsed(dependencies[r].target) \/ dependencies[r].target = u
                   \/ (k \in 1..(n - 2) /\ r = Taken(k)')
        <4>1. WasParsed(dependencies[r].target) \/ r = Taken(k)
          BY <3>3, <2>7, <1>1, <1>3, <1>5 DEF VisitsOpen
        <4>2. CASE k = n - 1
          <5>1. k + 1 = n
            BY <4>2, <1>2
          <5>2. dependencies[Taken(k)].target = u
            BY <5>1, <2>7, <1>1, <1>3, <1>4 DEF VisitsDescend
          <5> QED
            BY <4>1, <5>2
        <4>3. CASE k # n - 1
          <5>1. k \in 1..(n - 2)
            BY <4>3, <1>2
          <5> QED
            BY <4>1, <5>1, <2>7
        <4> QED
          BY <4>2, <4>3
      <3>4. \A k \in DOMAIN visits' : \A r \in RowsOf(dependencies, visits'[k].unit) :
              r < visits'[k].row =>
                \/ \E i \in DOMAIN parsed' : parsed'[i] = dependencies[r].target
                \/ k \in Below' /\ r = Taken(k)'
        BY <3>3, <2>5, <1>5
      <3>5. \A k \in DOMAIN visits' : ~\E i \in DOMAIN parsed' : parsed'[i] = visits'[k].unit
        BY <3>1, <2>5, <1>5
      <3> QED
        BY <3>2, <3>4, <3>5, <1>1, <1>5 DEF VisitsOpen, RowsOf, WasParsed
    <2> QED
      BY <1>5, <2>1, <2>3, <2>6, <2>9, <2>10 DEF ParseInv
  <1>9. CASE status' # "OK"
    <2>1. parsed' = parsed /\ phase' = "failed"
      BY <1>9 DEF ParseUnit
    <2> QED
      BY <2>1, <1>1, <1>5 DEF ParseInv, HeadersFirst, RowsOf
  <1> QED
    BY <1>8, <1>9

LEMMA InitParse == Init => ParseInv
  BY EmptySeq DEF Init, ParseInv, HeadersFirst

LEMMA NextParse ==
  ASSUME OrderInv, ParseInv, [Next]_vars
  PROVE  ParseInv'
  <1>1. ASSUME NEW u \in Sources, ScanSource(u)
        PROVE  ParseInv'
    BY <1>1, ScanParse DEF ScanSource, parseVars
  <1>2. ASSUME NEW u \in Sources, ParseSource(u)
        PROVE  ParseInv'
    BY <1>2, SourceParse
  <1>3. CASE ReadLine
    <2>1. PICK line \in NextLines : ScanLine(line)
      BY <1>3 DEF ReadLine
    <2>2. /\ phase = "scan" /\ phase' \in {"scan", "failed"} /\ UNCHANGED <<visits, parsed>>
      BY <1>3, <2>1 DEF ReadLine, Reading, ScanLine, ScanConditional, ScanText, ScanInclude,
                        ScanDefine, ScanUndef, ScanError, Fail, parseVars
    <2> QED
      BY <2>2, ScanParse
  <1>4. CASE StoreDependency
    <2>1. /\ phase = "scan" /\ phase' \in {"scan", "failed"} /\ UNCHANGED <<visits, parsed>>
      BY <1>4 DEF StoreDependency, Returned, Fail, parseVars
    <2> QED
      BY <2>1, ScanParse
  <1>5. CASE StoreBehindTable
    BY <1>5, ScanParse DEF StoreBehindTable, Returned, parseVars
  <1>6. CASE EndOfFile
    BY <1>6, ScanParse DEF EndOfFile, Reading, parseVars
  <1>7. CASE Unterminated
    BY <1>7, ScanParse DEF Unterminated, Reading, Fail, parseVars
  <1>8. CASE ScanDone
    BY <1>8, ScanParse DEF ScanDone
  <1>9. CASE ParseDependency
    BY <1>9, DependencyParse
  <1>10. CASE ParseUnit
    BY <1>10, UnitParse
  <1>11. CASE ParseDone
    BY <1>11, StutterParse DEF ParseDone, scanVars, parseVars
  <1>12. CASE Ended \/ UNCHANGED vars
    BY <1>12, StutterParse DEF Ended, vars, scanVars, parseVars
  <1> QED
    BY <1>1, <1>2, <1>3, <1>4, <1>5, <1>6, <1>7, <1>8, <1>9, <1>10, <1>11, <1>12 DEF Next

\* The parser meets no file twice, and every file after all that it includes,
\* for any project: it marks a file as parsed only on the way back and has no
\* guard against cycles, so the argument needs the order of the include table.
THEOREM ParsedHeadersFirst == Spec => []HeadersFirst
  <1>1. Init => OrderInv /\ ParseInv
    BY InitOrder, InitParse
  <1>2. OrderInv /\ ParseInv /\ [Next]_vars => (OrderInv /\ ParseInv)'
    BY NextOrder, NextParse
  <1>3. ParseInv => HeadersFirst
    BY DEF ParseInv
  <1> QED
    BY <1>1, <1>2, <1>3, PTL DEF Spec

-----------------------------------------------------------------------------
(* What is computed line by line, row by row or call by call: the values a   *)
(* recursive function over 0..N takes exist, and are the ones it is said to  *)
(* take.                                                                     *)

\* Counting up to N.
LEMMA Counting ==
  ASSUME NEW N \in Nat, NEW T, 0 \in T, \A n \in 1..N : n - 1 \in T => n \in T
  PROVE  \A n \in 0..N : n \in T
  <1> SUFFICES ASSUME NEW x \in 0..N, x \notin T
               PROVE  FALSE
    OBVIOUS
  <1> DEFINE S == (0..N) \ T
  <1>1. S \subseteq Nat /\ S # {}
    OBVIOUS
  <1>2. PICK y \in S : \A z \in S : <<z, y>> \notin OpToRel(<, Nat)
    <2> HIDE DEF S
    <2> QED
      BY <1>1, WFMin, NatLessThanWellFounded, Zenon
  <1>3. \A z \in S : ~(z < y)
    <2> HIDE DEF S
    <2> QED
      BY <1>1, <1>2, Zenon DEF OpToRel
  <1>6. y \in S
    OBVIOUS
  <1>4. y \in 1..N /\ y - 1 \in 0..N
    BY ONLY <1>6, N \in Nat, 0 \in T
  <1>5. y - 1 \in T
    BY <1>3, <1>4
  <1> QED
    BY <1>2, <1>4, <1>5

\* f goes from s in N steps, the n-th of them H[n].
Steps(f, S, s, H, N) ==
  f \in [0..N -> S] /\ f[0] = s /\ \A n \in 1..N : f[n] = H[n][f[n - 1]]

LEMMA Recursion ==
  ASSUME NEW N \in Nat, NEW S, NEW s \in S, NEW H \in [1..N -> [S -> S]]
  PROVE  \E f : Steps(f, S, s, H, N)
  <1> DEFINE Upto(m, f) == /\ f \in [0..m -> S] /\ f[0] = s
                           /\ \A n \in 1..m : f[n] = H[n][f[n - 1]]
             T == {m \in 0..N : \E f : Upto(m, f)}
  <1>1. 0 \in T
    <2>1. Upto(0, [n \in 0..0 |-> s])
      OBVIOUS
    <2> HIDE DEF Upto
    <2> QED
      BY <2>1
  <1>2. ASSUME NEW n \in 1..N, n - 1 \in T
        PROVE  n \in T
    <2>1. PICK f : Upto(n - 1, f)
      BY <1>2
    <2> DEFINE v == H[n][f[n - 1]]
               g == [i \in 0..n |-> IF i = n THEN v ELSE f[i]]
    <2>2. v \in S
      BY <2>1
    <2>3. g \in [0..n -> S] /\ g[0] = s /\ g[n] = v
      <3> HIDE DEF v
      <3> QED
        BY <2>1, <2>2
    <2>4. \A i \in 1..(n - 1) : g[i] = f[i] /\ g[i - 1] = f[i - 1]
      OBVIOUS
    <2>5. g[n - 1] = f[n - 1]
      OBVIOUS
    <2>6. Upto(n, g)
      <3> HIDE DEF g
      <3>1. ASSUME NEW i \in 1..n
            PROVE  g[i] = H[i][g[i - 1]]
        <4>1. CASE i = n
          BY <4>1, <2>3, <2>5
        <4>2. CASE i \in 1..(n - 1)
          BY <4>2, <2>4, <2>1
        <4> QED
          BY <4>1, <4>2
      <3> QED
        BY <3>1, <2>3
    <2> HIDE DEF Upto, g
    <2> QED
      BY <2>6
  <1>3. \A m \in 0..N : m \in T
    <2> HIDE DEF T
    <2> QED
      BY <1>1, <1>2, Counting
  <1> QED
    BY <1>3 DEF Steps

-----------------------------------------------------------------------------
(* Macro environments that fit, and the replay of a file into one.           *)

Fits(macros) == IsFiniteSet(Defined(macros)) /\ Cardinality(Defined(macros)) <= MaxMacros

Tables(includes, defines) == includes \in Seq(RowType) /\ defines \in Seq(Events)

\* What the replay of every file does to an environment.
Replayers ==
  {g \in [Units -> [Results -> Results]] :
     \A u \in Units, r \in Results : Fits(r.macros) => Fits(g[u][r].macros)}

LEMMA NoMacrosFit == NoMacros \in Envs /\ Fits(NoMacros)
  <1>1. Defined(NoMacros) = {}
    BY DEF Defined, NoMacros
  <1>2. IsFiniteSet({}) /\ Cardinality({}) = 0
    BY FS_EmptySet
  <1> QED
    BY <1>1, <1>2, CapacityAssumption DEF NoMacros, Envs, Fits

\* One macro is defined or undefined.
LEMMA DefineFits ==
  ASSUME NEW m \in Envs, NEW x \in Macros, NEW b \in Bodies \cup {None},
         NEW m2, m2 = [m EXCEPT ![x] = b]
  PROVE  /\ m2 \in Envs
         /\ Fits(m) /\ (b # None => ~EnvFull(m, x)) => Fits(m2)
  <1>1. m2 \in Envs /\ m2[x] = b /\ \A y \in Macros : y # x => m2[y] = m[y]
    BY DEF Envs
  <1>2. ASSUME Fits(m), b # None => ~EnvFull(m, x)
        PROVE  Fits(m2)
    <2>1. IsFiniteSet(Defined(m)) /\ Cardinality(Defined(m)) \in Nat
          /\ Cardinality(Defined(m)) <= MaxMacros
      BY <1>2, FS_CardinalityType DEF Fits
    <2>2. CASE b = None
      <3>1. Defined(m2) \subseteq Defined(m)
        BY <1>1, <2>2 DEF Defined
      <3>2. IsFiniteSet(Defined(m2)) /\ Cardinality(Defined(m2)) <= Cardinality(Defined(m))
        BY <2>1, <3>1, FS_Subset
      <3>3. Cardinality(Defined(m2)) \in Nat
        BY <3>2, FS_CardinalityType
      <3> QED
        BY <2>1, <3>2, <3>3, CapacityAssumption DEF Fits
    <2>3. CASE b # None /\ m[x] # None
      <3>1. Defined(m2) = Defined(m)
        BY <1>1, <2>3 DEF Defined
      <3> QED
        BY <1>2, <3>1 DEF Fits
    <2>4. CASE b # None /\ m[x] = None
      <3>1. Defined(m2) = Defined(m) \cup {x} /\ x \notin Defined(m)
        BY <1>1, <2>4 DEF Defined
      <3>2. IsFiniteSet(Defined(m2)) /\ Cardinality(Defined(m2)) = Cardinality(Defined(m)) + 1
        <4>1. PICK D : D = Defined(m)
          OBVIOUS
        <4>2. IsFiniteSet(D \cup {x}) /\ Cardinality(D \cup {x}) = Cardinality(D) + 1
          BY ONLY <4>1, <2>1, <3>1, FS_AddElement
        <4> QED
          BY <4>1, <4>2, <3>1
      <3>3. ~(Cardinality(Defined(m)) >= MaxMacros)
        BY <1>2, <2>4 DEF EnvFull
      <3> QED
        BY <2>1, <3>2, <3>3, CapacityAssumption DEF Fits
    <2> QED
      BY <2>2, <2>3, <2>4
  <1> QED
    BY <1>1, <1>2

LEMMA ApplyEventType ==
  ASSUME NEW r \in Results, NEW e \in Events
  PROVE  /\ ApplyEvent(r, e) \in Results
         /\ Fits(r.macros) => Fits(ApplyEvent(r, e).macros)
  <1> DEFINE m == r.macros
             x == e.name
             b == e.body
             m2 == [m EXCEPT ![x] = b]
  <1>1. m \in Envs /\ r.status \in Statuses /\ x \in Macros /\ b \in Bodies \cup {None}
    BY DEF Results, Events
  <1>2. \A s \in Statuses : [r EXCEPT !.status = s] \in Results /\ [r EXCEPT !.status = s].macros = m
    BY DEF Results
  <1>3. "CONFLICTING_DECLARATION" \in Statuses /\ "MACRO_CAPACITY" \in Statuses
    BY DEF Statuses
  <1>4. m2 \in Envs /\ (Fits(m) /\ (b # None => ~EnvFull(m, x)) => Fits(m2))
    <2> HIDE DEF m, x, b
    <2> QED
      BY <1>1, DefineFits
  <1>5. [r EXCEPT !.macros[x] = b] = [r EXCEPT !.macros = m2]
    OBVIOUS
  <1>6. [r EXCEPT !.macros = m2] \in Results /\ [r EXCEPT !.macros = m2].macros = m2
    <2> HIDE DEF m2
    <2> QED
      BY <1>4 DEF Results
  <1>7. CASE b # None /\ Conflicts(m, x, b)
    <2>1. ApplyEvent(r, e) = [r EXCEPT !.status = "CONFLICTING_DECLARATION"]
      BY <1>7 DEF ApplyEvent
    <2> QED
      BY <2>1, <1>2, <1>3
  <1>8. CASE b # None /\ ~Conflicts(m, x, b) /\ EnvFull(m, x)
    <2>1. ApplyEvent(r, e) = [r EXCEPT !.status = "MACRO_CAPACITY"]
      BY <1>8 DEF ApplyEvent
    <2> QED
      BY <2>1, <1>2, <1>3
  <1>9. CASE b = None \/ (~Conflicts(m, x, b) /\ ~EnvFull(m, x))
    <2>1. ApplyEvent(r, e) = [r EXCEPT !.macros[x] = b]
      BY <1>9 DEF ApplyEvent
    <2> QED
      BY <2>1, <1>4, <1>5, <1>6, <1>9
  <1> QED
    BY <1>7, <1>8, <1>9

LEMMA ReplayLineType ==
  ASSUME NEW inc, NEW def, Tables(inc, def), NEW g \in Replayers,
         NEW u \in Units, NEW l, NEW r \in Results
  PROVE  /\ ReplayLine(inc, def, g, u, l, r) \in Results
         /\ Fits(r.macros) => Fits(ReplayLine(inc, def, g, u, l, r).macros)
  <1> DEFINE i == CHOOSE j \in RowsAt(inc, u, l) : TRUE
             e == CHOOSE j \in RowsAt(def, u, l) : TRUE
  <1>1. CASE r.status # "OK"
    BY <1>1 DEF ReplayLine
  <1>2. CASE r.status = "OK" /\ RowsAt(inc, u, l) # {}
    <2>1. i \in DOMAIN inc
      BY <1>2 DEF RowsAt, RowsOf
    <2>2. inc[i] \in RowType
      <3> HIDE DEF i
      <3> QED
        BY <2>1, ElementOfSeq, LenProperties DEF Tables
    <2>3. inc[i].target \in Units
      <3> HIDE DEF i
      <3> QED
        BY <2>2 DEF RowType
    <2>4. ReplayLine(inc, def, g, u, l, r) = g[inc[i].target][r]
      BY <1>2 DEF ReplayLine
    <2> HIDE DEF i
    <2> QED
      BY <2>3, <2>4 DEF Replayers
  <1>3. CASE r.status = "OK" /\ RowsAt(inc, u, l) = {} /\ RowsAt(def, u, l) # {}
    <2>1. e \in DOMAIN def
      BY <1>3 DEF RowsAt, RowsOf
    <2>2. def[e] \in Events
      <3> HIDE DEF e
      <3> QED
        BY <2>1, ElementOfSeq, LenProperties DEF Tables
    <2>4. ReplayLine(inc, def, g, u, l, r) = ApplyEvent(r, def[e])
      BY <1>3 DEF ReplayLine
    <2> HIDE DEF e
    <2> QED
      BY <2>2, <2>4, ApplyEventType
  <1>4. CASE r.status = "OK" /\ RowsAt(inc, u, l) = {} /\ RowsAt(def, u, l) = {}
    BY <1>4 DEF ReplayLine
  <1> QED
    BY <1>1, <1>2, <1>3, <1>4

\* f is the replay of file u into r, after each of its lines.
FileRun(f, inc, def, len, g, u, r) ==
  /\ f \in [0..len[u] -> Results] /\ f[0] = r
  /\ \A l \in 1..len[u] : f[l] = ReplayLine(inc, def, g, u, l, f[l - 1])
  /\ ReplayFile(inc, def, len, g, u, r) = f[len[u]]

LEMMA FileLines ==
  ASSUME NEW inc, NEW def, Tables(inc, def), NEW len \in [Units -> Nat],
         NEW g \in Replayers, NEW u \in Units, NEW r \in Results
  PROVE  \E f : FileRun(f, inc, def, len, g, u, r)
  <1> DEFINE N == len[u]
             H == [l \in 1..N |-> [x \in Results |-> ReplayLine(inc, def, g, u, l, x)]]
             Is(F) == F = [l \in 0..N |-> IF l = 0 THEN r
                                          ELSE ReplayLine(inc, def, g, u, l, F[l - 1])]
             U == CHOOSE F : Is(F)
  <1>1. N \in Nat
    OBVIOUS
  <1>2. H \in [1..N -> [Results -> Results]]
    BY ReplayLineType
  <1>3. PICK f : Steps(f, Results, r, H, N)
    <2> HIDE DEF H, N
    <2> QED
      BY <1>1, <1>2, Recursion
  <1>4. /\ f \in [0..N -> Results] /\ f[0] = r
        /\ \A l \in 1..N : f[l] = ReplayLine(inc, def, g, u, l, f[l - 1])
    <2>1. /\ f \in [0..N -> Results] /\ f[0] = r
          /\ \A l \in 1..N : f[l] = H[l][f[l - 1]]
      <3> HIDE DEF H, N
      <3> QED
        BY <1>3 DEF Steps
    <2>2. \A l \in 1..N : f[l - 1] \in Results
      <3> HIDE DEF N
      <3> QED
        BY <2>1, <1>1
    <2> QED
      BY <2>1, <2>2
  <1>5. Is(f)
    <2> HIDE DEF N
    <2> QED
      BY <1>1, <1>4
  <1>6. Is(U)
    <2> HIDE DEF Is
    <2> QED
      BY <1>5
  <1>7. ReplayFile(inc, def, len, g, u, r) = U[N]
    BY Zenon DEF ReplayFile
  <1>8. \A l \in 0..N : U[l] = f[l]
    <2> HIDE DEF U, N
    <2> DEFINE T == {l \in 0..N : U[l] = f[l]}
    <2>1. 0 \in T
      BY <1>1, <1>4, <1>6
    <2>2. ASSUME NEW n \in 1..N, n - 1 \in T
          PROVE  n \in T
      <3>1. U[n] = ReplayLine(inc, def, g, u, n, U[n - 1])
        BY <1>1, <1>6
      <3> QED
        BY <3>1, <2>2, <1>4
    <2>3. \A n \in 0..N : n \in T
      <3> HIDE DEF T
      <3> QED
        BY <2>1, <2>2, <1>1, Counting
    <2> QED
      BY <2>3
  <1>9. ReplayFile(inc, def, len, g, u, r) = f[N]
    BY <1>1, <1>7, <1>8
  <1> QED
    <2> HIDE DEF H, U, Is
    <2>1. FileRun(f, inc, def, len, g, u, r)
      BY <1>4, <1>9 DEF FileRun
    <2> QED
      BY <2>1

LEMMA FileType ==
  ASSUME NEW inc, NEW def, Tables(inc, def), NEW len \in [Units -> Nat],
         NEW g \in Replayers, NEW u \in Units, NEW r \in Results
  PROVE  /\ ReplayFile(inc, def, len, g, u, r) \in Results
         /\ Fits(r.macros) => Fits(ReplayFile(inc, def, len, g, u, r).macros)
  <1>1. PICK f : FileRun(f, inc, def, len, g, u, r)
    BY FileLines
  <1> DEFINE N == len[u]
             T == {l \in 0..N : Fits(r.macros) => Fits(f[l].macros)}
  <1>2. N \in Nat
    OBVIOUS
  <1>3. /\ f \in [0..N -> Results] /\ f[0] = r
        /\ \A l \in 1..N : f[l] = ReplayLine(inc, def, g, u, l, f[l - 1])
        /\ ReplayFile(inc, def, len, g, u, r) = f[N]
    BY <1>1 DEF FileRun
  <1> HIDE DEF N
  <1>4. 0 \in T
    BY <1>2, <1>3
  <1>5. ASSUME NEW n \in 1..N, n - 1 \in T
        PROVE  n \in T
    <2>1. n - 1 \in 0..N /\ f[n - 1] \in Results /\ n \in 0..N
      BY <1>2, <1>3
    <2>2. PICK x \in Results : x = f[n - 1]
      BY <2>1
    <2>3. f[n] = ReplayLine(inc, def, g, u, n, x)
      BY <2>2, <1>3
    <2>4. Fits(x.macros) => Fits(f[n].macros)
      BY <2>3, ReplayLineType
    <2> QED
      BY <2>1, <2>2, <2>4, <1>5
  <1>6. \A n \in 0..N : n \in T
    <2> HIDE DEF T
    <2> QED
      BY <1>4, <1>5, <1>2, Counting
  <1>7. N \in 0..N
    BY <1>2
  <1> QED
    BY <1>3, <1>6, <1>7

\* R is the replay of every file, by the number of nested calls allowed.
Exhausted(r) == [r EXCEPT !.status = "INCLUDE_CYCLE"]

ReplaysRun(R, inc, def, len) ==
  /\ R \in [0..(MaxUnits + 1) -> Replayers]
  /\ \A u \in Units, r \in Results : R[0][u][r] = Exhausted(r)
  /\ \A n \in 1..(MaxUnits + 1) : \A u \in Units, r \in Results :
       R[n][u][r] = ReplayFile(inc, def, len, R[n - 1], u, r)

LEMMA ReplaysCalls ==
  ASSUME NEW inc, NEW def, Tables(inc, def), NEW len \in [Units -> Nat]
  PROVE  ReplaysRun(Replays(inc, def, len), inc, def, len)
  <1> DEFINE N == MaxUnits + 1
             base == [u \in Units |-> [r \in Results |-> [r EXCEPT !.status = "INCLUDE_CYCLE"]]]
             Step(g) == [u \in Units |-> [r \in Results |-> ReplayFile(inc, def, len, g, u, r)]]
             H == [n \in 1..N |-> [g \in Replayers |-> Step(g)]]
             Is(F) == F = [n \in 0..N |-> IF n = 0 THEN base ELSE Step(F[n - 1])]
             U == CHOOSE F : Is(F)
  <1>1. N \in Nat
    BY CapacityAssumption
  <1>2. base \in Replayers
    <2>1. "INCLUDE_CYCLE" \in Statuses
      BY DEF Statuses
    <2>2. \A r \in Results : /\ [r EXCEPT !.status = "INCLUDE_CYCLE"] \in Results
                             /\ [r EXCEPT !.status = "INCLUDE_CYCLE"].macros = r.macros
      BY <2>1 DEF Results
    <2> QED
      BY <2>2 DEF Replayers
  <1>3. \A g \in Replayers : Step(g) \in Replayers
    <2> TAKE g \in Replayers
    <2>1. \A u \in Units, r \in Results :
            /\ Step(g)[u][r] = ReplayFile(inc, def, len, g, u, r)
            /\ ReplayFile(inc, def, len, g, u, r) \in Results
            /\ Fits(r.macros) => Fits(ReplayFile(inc, def, len, g, u, r).macros)
      BY FileType
    <2>2. Step(g) \in [Units -> [Results -> Results]]
      BY <2>1
    <2>3. \A u \in Units, r \in Results : Fits(r.macros) => Fits(Step(g)[u][r].macros)
      BY <2>1
    <2> HIDE DEF Step
    <2> QED
      BY <2>2, <2>3 DEF Replayers
  <1>4. H \in [1..N -> [Replayers -> Replayers]]
    <2> HIDE DEF Step
    <2> QED
      BY <1>3
  <1>5. PICK f : Steps(f, Replayers, base, H, N)
    <2> HIDE DEF H, N, base
    <2> QED
      BY <1>1, <1>2, <1>4, Recursion
  <1>6. /\ f \in [0..N -> Replayers] /\ f[0] = base
        /\ \A n \in 1..N : f[n - 1] \in Replayers /\ f[n] = Step(f[n - 1])
    <2> HIDE DEF base, Step, N
    <2>1. /\ f \in [0..N -> Replayers] /\ f[0] = base
          /\ \A n \in 1..N : f[n] = H[n][f[n - 1]]
      <3> HIDE DEF H
      <3> QED
        BY <1>5 DEF Steps
    <2>2. \A n \in 1..N : f[n - 1] \in Replayers
      BY <2>1, <1>1
    <2> QED
      BY <2>1, <2>2
  <1>7. Is(f)
    <2> HIDE DEF N, base, Step
    <2> QED
      BY <1>1, <1>6
  <1>8. Is(U)
    <2> HIDE DEF Is
    <2> QED
      BY <1>7
  <1>9. Replays(inc, def, len) = U
    BY Zenon DEF Replays
  <1>10. /\ U \in [0..N -> Replayers] /\ U[0] = base
         /\ \A n \in 1..N : U[n] = Step(U[n - 1])
    <2> HIDE DEF U, N, base, Step
    <2> DEFINE T == {n \in 0..N : U[n] = f[n]}
    <2>1. 0 \in T
      BY <1>1, <1>6, <1>8
    <2>2. ASSUME NEW n \in 1..N, n - 1 \in T
          PROVE  n \in T
      <3>1. U[n] = Step(U[n - 1])
        BY <1>1, <1>8
      <3> QED
        BY <3>1, <2>2, <1>6
    <2>3. \A n \in 0..N : n \in T
      <3> HIDE DEF T
      <3> QED
        BY <2>1, <2>2, <1>1, Counting
    <2>4. U = [n \in 0..N |-> IF n = 0 THEN base ELSE Step(U[n - 1])]
      BY <1>8
    <2>5. DOMAIN U = 0..N /\ DOMAIN f = 0..N
      BY <2>4, <1>6
    <2>6. U = [n \in 0..N |-> f[n]]
      BY <2>3, <2>4
    <2>7. U \in [0..N -> Replayers]
      BY <2>6, <1>6
    <2>8. U[0] = base
      BY <2>4, <1>1
    <2>9. \A n \in 1..N : U[n] = Step(U[n - 1])
      BY <1>1, <1>8
    <2> QED
      BY <2>7, <2>8, <2>9
  <1>11. /\ \A u \in Units, r \in Results : base[u][r] = [r EXCEPT !.status = "INCLUDE_CYCLE"]
         /\ \A g : \A u \in Units, r \in Results :
              Step(g)[u][r] = ReplayFile(inc, def, len, g, u, r)
    OBVIOUS
  <1> QED
    <2> HIDE DEF U, Is, H, base, Step
    <2>1. U \in [0..(MaxUnits + 1) -> Replayers]
      BY <1>10
    <2>2. \A u \in Units, r \in Results : U[0][u][r] = Exhausted(r)
      BY <1>10, <1>11 DEF Exhausted
    <2>3. \A n \in 1..(MaxUnits + 1) : \A u \in Units, r \in Results :
             U[n][u][r] = ReplayFile(inc, def, len, U[n - 1], u, r)
      BY <1>10, <1>11
    <2> QED
      BY <1>9, <2>1, <2>2, <2>3 DEF ReplaysRun

-----------------------------------------------------------------------------
(* Two replays of a file that meet the same rows, events and effects on each *)
(* of their lines.                                                           *)

SameLine(inc, def, g, inc2, def2, g2, u, l) ==
  /\ RowsAt(inc, u, l) = RowsAt(inc2, u, l)
  /\ RowsAt(def, u, l) = RowsAt(def2, u, l)
  /\ \A i \in RowsAt(inc, u, l) :
       /\ inc2[i] = inc[i]
       /\ \A x \in Results : g[inc[i].target][x] = g2[inc[i].target][x]
  /\ \A i \in RowsAt(def, u, l) : def2[i] = def[i]

SameUpto(inc, def, g, inc2, def2, g2, u, n) ==
  \A l \in 1..n : SameLine(inc, def, g, inc2, def2, g2, u, l)

AgreeUpto(f, f2, n) == \A l \in 0..n : f[l] = f2[l]

LEMMA SameReplayLine ==
  ASSUME NEW inc, NEW def, NEW g, NEW inc2, NEW def2, NEW g2, NEW u, NEW l,
         SameLine(inc, def, g, inc2, def2, g2, u, l), NEW r \in Results
  PROVE  ReplayLine(inc, def, g, u, l, r) = ReplayLine(inc2, def2, g2, u, l, r)
  <1> DEFINE i == CHOOSE j \in RowsAt(inc, u, l) : TRUE
             e == CHOOSE j \in RowsAt(def, u, l) : TRUE
  <1>1. CASE r.status # "OK"
    BY <1>1 DEF ReplayLine
  <1>2. CASE r.status = "OK" /\ RowsAt(inc, u, l) # {}
    <2>1. i \in RowsAt(inc, u, l)
      BY <1>2
    <2>2. ReplayLine(inc, def, g, u, l, r) = g[inc[i].target][r]
      BY <1>2 DEF ReplayLine
    <2>3. ReplayLine(inc2, def2, g2, u, l, r) = g2[inc2[i].target][r]
      BY <1>2 DEF ReplayLine, SameLine
    <2> HIDE DEF i
    <2> QED
      BY <2>1, <2>2, <2>3 DEF SameLine
  <1>3. CASE r.status = "OK" /\ RowsAt(inc, u, l) = {} /\ RowsAt(def, u, l) # {}
    <2>1. e \in RowsAt(def, u, l)
      BY <1>3
    <2>2. ReplayLine(inc, def, g, u, l, r) = ApplyEvent(r, def[e])
      BY <1>3 DEF ReplayLine
    <2>3. ReplayLine(inc2, def2, g2, u, l, r) = ApplyEvent(r, def2[e])
      BY <1>3 DEF ReplayLine, SameLine
    <2> HIDE DEF e
    <2> QED
      BY <2>1, <2>2, <2>3 DEF SameLine
  <1>4. CASE r.status = "OK" /\ RowsAt(inc, u, l) = {} /\ RowsAt(def, u, l) = {}
    BY <1>4 DEF ReplayLine, SameLine
  <1> QED
    BY <1>1, <1>2, <1>3, <1>4

LEMMA SameLines ==
  ASSUME NEW inc, NEW def, NEW g, NEW inc2, NEW def2, NEW g2,
         NEW len \in [Units -> Nat], NEW len2 \in [Units -> Nat],
         NEW u \in Units, NEW r \in Results, NEW f, NEW f2,
         FileRun(f, inc, def, len, g, u, r), FileRun(f2, inc2, def2, len2, g2, u, r),
         NEW n \in Nat, n <= len[u], n <= len2[u],
         SameUpto(inc, def, g, inc2, def2, g2, u, n)
  PROVE  AgreeUpto(f, f2, n)
  <1> DEFINE T == {l \in 0..n : f[l] = f2[l]}
  <1>1. /\ f[0] = r /\ f2[0] = r
        /\ \A l \in 1..n : /\ f[l - 1] \in Results
                           /\ f[l] = ReplayLine(inc, def, g, u, l, f[l - 1])
                           /\ f2[l] = ReplayLine(inc2, def2, g2, u, l, f2[l - 1])
    <2>1. PICK N \in Nat, N2 \in Nat : N = len[u] /\ N2 = len2[u]
      OBVIOUS
    <2>2. /\ f \in [0..N -> Results] /\ f[0] = r /\ f2[0] = r
          /\ \A l \in 1..N : f[l] = ReplayLine(inc, def, g, u, l, f[l - 1])
          /\ \A l \in 1..N2 : f2[l] = ReplayLine(inc2, def2, g2, u, l, f2[l - 1])
      BY <2>1 DEF FileRun
    <2>3. ASSUME NEW l \in 1..n
          PROVE  l \in 1..N /\ l \in 1..N2 /\ l - 1 \in 0..N
      BY <2>1
    <2> QED
      BY <2>2, <2>3
  <1>2. 0 \in T
    BY <1>1
  <1>3. ASSUME NEW l \in 1..n, l - 1 \in T
        PROVE  l \in T
    <2>1. PICK x \in Results : x = f[l - 1] /\ x = f2[l - 1]
      BY <1>1, <1>3
    <2>2. ReplayLine(inc, def, g, u, l, x) = ReplayLine(inc2, def2, g2, u, l, x)
      BY SameReplayLine DEF SameUpto
    <2>3. f[l] = ReplayLine(inc, def, g, u, l, x) /\ f2[l] = ReplayLine(inc2, def2, g2, u, l, x)
      BY <2>1, <1>1
    <2> QED
      BY <2>2, <2>3
  <1> QED
    <2> HIDE DEF T
    <2>1. \A l \in 0..n : l \in T
      BY <1>2, <1>3, Counting
    <2> QED
      BY <2>1 DEF T, AgreeUpto

LEMMA SameFile ==
  ASSUME NEW inc, NEW def, Tables(inc, def), NEW g \in Replayers,
         NEW inc2, NEW def2, Tables(inc2, def2), NEW g2 \in Replayers,
         NEW len \in [Units -> Nat], NEW len2 \in [Units -> Nat],
         NEW u \in Units, NEW r \in Results, len2[u] = len[u],
         SameUpto(inc, def, g, inc2, def2, g2, u, len[u])
  PROVE  ReplayFile(inc, def, len, g, u, r) = ReplayFile(inc2, def2, len2, g2, u, r)
  <1>1. PICK f : FileRun(f, inc, def, len, g, u, r)
    BY FileLines
  <1>2. PICK f2 : FileRun(f2, inc2, def2, len2, g2, u, r)
    BY FileLines
  <1>3. PICK n \in Nat : n = len[u]
    OBVIOUS
  <1>4. AgreeUpto(f, f2, n)
    <2>1. n <= len[u] /\ n <= len2[u] /\ SameUpto(inc, def, g, inc2, def2, g2, u, n)
      BY <1>3
    <2> QED
      BY <1>1, <1>2, <2>1, SameLines
  <1> QED
    BY <1>1, <1>2, <1>3, <1>4 DEF FileRun, AgreeUpto

-----------------------------------------------------------------------------
(* A table in post-order is no deeper than there are files, so that the bound *)
(* on the nested calls is never met.                                         *)

Ordered(inc) == \A i \in DOMAIN inc : \A j \in RowsOf(inc, inc[i].target) : j < i

\* The last row of u stands behind all rows of v.
Behind(inc, u, v) == \E i \in RowsOf(inc, u) : \A j \in RowsOf(inc, v) : j < i
Height(inc, u) == Cardinality({v \in Units : Behind(inc, u, v)})

LEMMA HeightFalls ==
  ASSUME NEW inc \in Seq(RowType), Ordered(inc)
  PROVE  /\ \A u \in Units : Height(inc, u) \in Nat /\ Height(inc, u) < MaxUnits
         /\ \A i \in DOMAIN inc : Height(inc, inc[i].target) < Height(inc, inc[i].unit)
  <1>0. /\ \A i \in DOMAIN inc : inc[i].unit \in Units /\ inc[i].target \in Units
        /\ DOMAIN inc \subseteq Nat
    <2>1. \A i \in DOMAIN inc : inc[i] \in RowType
      BY ElementOfSeq, LenProperties
    <2> QED
      BY <2>1, LenProperties DEF RowType
  <1> DEFINE H(u) == {v \in Units : Behind(inc, u, v)}
  <1>1. IsFiniteSet(Units) /\ Cardinality(Units) \in Nat /\ Cardinality(Units) <= MaxUnits
        /\ MaxUnits \in Nat
    BY UnitsAssumption, CapacityAssumption, FS_CardinalityType
  <1>2. \A S, U : IsFiniteSet(U) /\ S \subseteq U /\ S # U =>
          /\ IsFiniteSet(S) /\ Cardinality(S) \in Nat /\ Cardinality(U) \in Nat
          /\ Cardinality(S) < Cardinality(U)
    BY FS_Subset, FS_CardinalityType
  <1>3. ASSUME NEW u \in Units
        PROVE  IsFiniteSet(H(u)) /\ Height(inc, u) \in Nat /\ Height(inc, u) < MaxUnits
    <2>1. ~Behind(inc, u, u)
      BY <1>0 DEF Behind, RowsOf
    <2>2. H(u) \subseteq Units /\ H(u) # Units
      BY <2>1
    <2>3. Height(inc, u) = Cardinality(H(u))
      BY DEF Height
    <2> HIDE DEF H
    <2> QED
      BY <2>2, <2>3, <1>1, <1>2
  <1>4. ASSUME NEW i \in DOMAIN inc
        PROVE  Height(inc, inc[i].target) < Height(inc, inc[i].unit)
    <2>1. PICK u \in Units, t \in Units : u = inc[i].unit /\ t = inc[i].target
      BY <1>0
    <2>2. i \in RowsOf(inc, u) /\ \A j \in RowsOf(inc, t) : j < i
      BY <2>1 DEF RowsOf, Ordered
    <2>3. Behind(inc, u, t)
      BY <2>2 DEF Behind
    <2>4. ~Behind(inc, t, t)
      BY <1>0 DEF Behind, RowsOf
    <2>5. \A v \in Units : Behind(inc, t, v) => Behind(inc, u, v)
      <3> SUFFICES ASSUME NEW v \in Units, Behind(inc, t, v)
                   PROVE  Behind(inc, u, v)
        OBVIOUS
      <3>1. PICK k \in RowsOf(inc, t) : \A j \in RowsOf(inc, v) : j < k
        BY DEF Behind
      <3>2. k < i /\ k \in Nat /\ i \in Nat /\ RowsOf(inc, v) \subseteq Nat
        BY <2>2, <1>0 DEF RowsOf
      <3>3. \A j \in RowsOf(inc, v) : j < i
        BY <3>1, <3>2
      <3> QED
        BY <3>3, <2>2 DEF Behind
    <2>6. H(t) \subseteq H(u) /\ H(t) # H(u)
      BY <2>3, <2>4, <2>5
    <2>7. Height(inc, t) = Cardinality(H(t)) /\ Height(inc, u) = Cardinality(H(u))
      BY DEF Height
    <2> HIDE DEF H
    <2> QED
      BY <2>1, <2>6, <2>7, <1>2, <1>3
  <1> QED
    BY <1>3, <1>4

\* More calls than a file is high change nothing.
LEMMA DeepEnough ==
  ASSUME NEW inc, NEW def, Tables(inc, def), NEW len \in [Units -> Nat], Ordered(inc),
         NEW R, ReplaysRun(R, inc, def, len)
  PROVE  \A n \in 0..MaxUnits : \A u \in Units : Height(inc, u) < n =>
           \A left \in n..MaxUnits : \A r \in Results : R[left][u][r] = R[left + 1][u][r]
  <1> DEFINE Q(n) == \A u \in Units : Height(inc, u) < n =>
               \A left \in n..MaxUnits : \A r \in Results : R[left][u][r] = R[left + 1][u][r]
             T == {n \in 0..MaxUnits : Q(n)}
  <1>0. MaxUnits \in Nat /\ inc \in Seq(RowType)
    BY CapacityAssumption DEF Tables
  <1>1. /\ \A u \in Units : Height(inc, u) \in Nat
        /\ \A i \in DOMAIN inc : Height(inc, inc[i].target) < Height(inc, inc[i].unit)
        /\ \A i \in DOMAIN inc : inc[i].target \in Units
    <2>1. \A i \in DOMAIN inc : inc[i] \in RowType
      BY <1>0, ElementOfSeq, LenProperties
    <2> QED
      BY <1>0, <2>1, HeightFalls DEF RowType
  <1>2. 0 \in T
    BY <1>0, <1>1
  <1>3. ASSUME NEW n \in 1..MaxUnits, n - 1 \in T
        PROVE  n \in T
    <2> SUFFICES ASSUME NEW u \in Units, Height(inc, u) < n,
                        NEW left \in n..MaxUnits, NEW r \in Results
                 PROVE  R[left][u][r] = R[left + 1][u][r]
      BY <1>0
    <2>1. PICK g \in Replayers, g2 \in Replayers : g = R[left - 1] /\ g2 = R[left]
      <3>1. left - 1 \in 0..(MaxUnits + 1) /\ left \in 0..(MaxUnits + 1)
        BY <1>0
      <3> QED
        BY <3>1 DEF ReplaysRun
    <2>2. /\ R[left][u][r] = ReplayFile(inc, def, len, g, u, r)
          /\ R[left + 1][u][r] = ReplayFile(inc, def, len, g2, u, r)
      <3>1. left \in 1..(MaxUnits + 1) /\ left + 1 \in 1..(MaxUnits + 1) /\ left + 1 - 1 = left
        BY <1>0
      <3>2. \A m \in 1..(MaxUnits + 1) :
               R[m][u][r] = ReplayFile(inc, def, len, R[m - 1], u, r)
        BY DEF ReplaysRun
      <3> QED
        BY <3>1, <3>2, <2>1
    <2>3. \A i \in RowsOf(inc, u) : \A x \in Results :
            g[inc[i].target][x] = g2[inc[i].target][x]
      <3> SUFFICES ASSUME NEW i \in RowsOf(inc, u), NEW x \in Results
                   PROVE  g[inc[i].target][x] = g2[inc[i].target][x]
        OBVIOUS
      <3>1. PICK t \in Units : t = inc[i].target /\ Height(inc, t) < Height(inc, u)
        BY <1>1 DEF RowsOf
      <3>2. Height(inc, t) < n - 1 /\ left - 1 \in (n - 1)..MaxUnits
        BY <3>1, <1>0, <1>1
      <3>3. PICK k : k = left - 1
        OBVIOUS
      <3>4. R[k][t][x] = R[k + 1][t][x]
        BY <3>2, <3>3, <1>3
      <3> QED
        BY <3>1, <3>3, <3>4, <2>1
    <2>4. \A l : SameLine(inc, def, g, inc, def, g2, u, l)
      BY <2>3 DEF SameLine, RowsAt
    <2>5. ReplayFile(inc, def, len, g, u, r) = ReplayFile(inc, def, len, g2, u, r)
      BY <2>4, SameFile DEF SameUpto
    <2> QED
      BY <2>2, <2>5
  <1> QED
    <2> HIDE DEF T
    <2>1. \A n \in 0..MaxUnits : n \in T
      BY <1>0, <1>2, <1>3, Counting
    <2> QED
      BY <2>1 DEF T

\* g is what every file does to its includer, no bound on the calls in sight.
IsEffects(g, inc, def, len) ==
  /\ g \in Replayers
  /\ \A u \in Units, r \in Results : g[u][r] = ReplayFile(inc, def, len, g, u, r)

LEMMA EffectsExact ==
  ASSUME NEW inc, NEW def, Tables(inc, def), NEW len \in [Units -> Nat], Ordered(inc)
  PROVE  IsEffects(Replays(inc, def, len)[MaxUnits + 1], inc, def, len)
  <1>1. PICK R : R = Replays(inc, def, len) /\ ReplaysRun(R, inc, def, len)
    BY ReplaysCalls
  <1>2. PICK m \in Nat : m = MaxUnits
    BY CapacityAssumption
  <1>3. PICK g \in Replayers, g2 \in Replayers : g = R[m] /\ g2 = R[m + 1]
    BY <1>1, <1>2 DEF ReplaysRun
  <1>4. ASSUME NEW u \in Units, NEW r \in Results
        PROVE  g2[u][r] = ReplayFile(inc, def, len, g2, u, r)
    <2>1. R[m + 1][u][r] = ReplayFile(inc, def, len, g, u, r)
      <3>1. \A n \in 1..(m + 1) : R[n][u][r] = ReplayFile(inc, def, len, R[n - 1], u, r)
        BY <1>1, <1>2 DEF ReplaysRun
      <3>2. m + 1 \in 1..(m + 1) /\ m + 1 - 1 = m
        OBVIOUS
      <3> QED
        BY <3>1, <3>2, <1>3
    <2>2. \A i \in RowsOf(inc, u) : \A x \in Results :
            g[inc[i].target][x] = g2[inc[i].target][x]
      <3> SUFFICES ASSUME NEW i \in RowsOf(inc, u), NEW x \in Results
                   PROVE  g[inc[i].target][x] = g2[inc[i].target][x]
        OBVIOUS
      <3>0. inc[i] \in RowType
        BY ElementOfSeq, LenProperties DEF Tables, RowsOf
      <3>1. PICK t \in Units : t = inc[i].target
        BY <3>0 DEF RowType
      <3>2. Height(inc, t) < m
        BY <1>2, HeightFalls DEF Tables
      <3>3. m \in 0..m /\ m \in m..m
        OBVIOUS
      <3>4. R[m][t][x] = R[m + 1][t][x]
        BY <1>1, <1>2, <3>2, <3>3, DeepEnough
      <3> QED
        BY <3>1, <3>4, <1>3
    <2>3. \A l : SameLine(inc, def, g, inc, def, g2, u, l)
      BY <2>2 DEF SameLine, RowsAt
    <2>4. ReplayFile(inc, def, len, g, u, r) = ReplayFile(inc, def, len, g2, u, r)
      BY <2>3, SameFile DEF SameUpto
    <2> QED
      BY <2>1, <2>4, <1>3
  <1> QED
    BY <1>1, <1>2, <1>3, <1>4 DEF IsEffects

\* The effects of files whose own rows and events, and those of all they
\* include, are the same in two tables.
SameRows(rows, rows2, C) ==
  \A u \in C : /\ \A l : RowsAt(rows, u, l) = RowsAt(rows2, u, l)
               /\ \A i \in RowsOf(rows, u) : rows2[i] = rows[i]

ClosedRows(rows, C) == \A u \in C : \A i \in RowsOf(rows, u) : rows[i].target \in C
SameLengths(len, len2, C) == \A u \in C : len2[u] = len[u]

SameEffectsOn(C, g, g2) == \A u \in C, r \in Results : g[u][r] = g2[u][r]

LEMMA SameEffects ==
  ASSUME NEW inc, NEW def, Tables(inc, def), NEW len \in [Units -> Nat],
         NEW inc2, NEW def2, Tables(inc2, def2), NEW len2 \in [Units -> Nat],
         NEW E, E = Replays(inc, def, len)[MaxUnits + 1],
         NEW E2, E2 = Replays(inc2, def2, len2)[MaxUnits + 1],
         NEW C \in SUBSET Units,
         SameLengths(len, len2, C), ClosedRows(inc, C),
         SameRows(inc, inc2, C), SameRows(def, def2, C)
  PROVE  SameEffectsOn(C, E, E2)
  <1>1. PICK R : R = Replays(inc, def, len) /\ ReplaysRun(R, inc, def, len)
    BY ReplaysCalls
  <1>2. PICK R2 : R2 = Replays(inc2, def2, len2) /\ ReplaysRun(R2, inc2, def2, len2)
    BY ReplaysCalls
  <1>3. PICK m \in Nat : m = MaxUnits + 1
    BY CapacityAssumption
  <1> DEFINE T == {n \in 0..m : \A u \in C, r \in Results : R[n][u][r] = R2[n][u][r]}
  <1>4. 0 \in T
    <2>1. \A u \in Units, r \in Results :
            /\ R[0][u][r] = Exhausted(r)
            /\ R2[0][u][r] = Exhausted(r)
      BY <1>1, <1>2, Zenon DEF ReplaysRun
    <2>2. \A u \in Units, r \in Results : R[0][u][r] = R2[0][u][r]
      BY <2>1, Zenon
    <2> QED
      BY <2>2
  <1>5. ASSUME NEW n \in 1..m, n - 1 \in T
        PROVE  n \in T
    <2> SUFFICES ASSUME NEW u \in C, NEW r \in Results
                 PROVE  R[n][u][r] = R2[n][u][r]
      OBVIOUS
    <2>1. PICK g \in Replayers, g2 \in Replayers : g = R[n - 1] /\ g2 = R2[n - 1]
      BY <1>1, <1>2, <1>3 DEF ReplaysRun
    <2>2. /\ R[n][u][r] = ReplayFile(inc, def, len, g, u, r)
          /\ R2[n][u][r] = ReplayFile(inc2, def2, len2, g2, u, r)
      BY <1>1, <1>2, <1>3, <2>1 DEF ReplaysRun
    <2>3. \A v \in C, x \in Results : g[v][x] = g2[v][x]
      BY <1>5, <2>1
    <2>4. \A l : SameLine(inc, def, g, inc2, def2, g2, u, l)
      BY <2>3 DEF SameLine, RowsAt, SameRows, ClosedRows
    <2>5. u \in Units /\ len2[u] = len[u]
      BY DEF SameLengths
    <2>6. ReplayFile(inc, def, len, g, u, r) = ReplayFile(inc2, def2, len2, g2, u, r)
      BY <2>4, <2>5, SameFile DEF SameUpto
    <2> QED
      BY <2>2, <2>6
  <1>6. \A n \in 0..m : n \in T
    <2> HIDE DEF T
    <2> QED
      BY <1>4, <1>5, Counting
  <1>7. m \in 0..m
    OBVIOUS
  <1> QED
    BY <1>1, <1>2, <1>3, <1>6, <1>7 DEF SameEffectsOn

-----------------------------------------------------------------------------
(* A file of which one more line is known: its text grew by the line, or the *)
(* row or the event of its last line was stored.                             *)

\* rows2 is rows and what line L of file t added to it.
GrowsAt(rows, rows2, t, L) ==
  /\ \A i \in DOMAIN rows : i \in DOMAIN rows2 /\ rows2[i] = rows[i]
  /\ \A i \in DOMAIN rows2 : i \in DOMAIN rows \/ (rows2[i].unit = t /\ rows2[i].line = L)
  /\ \A i \in RowsOf(rows, t) : rows[i].line < L

LEMMA GrowElsewhere ==
  ASSUME NEW rows, NEW rows2, NEW t, NEW L, GrowsAt(rows, rows2, t, L),
         NEW u, NEW l, u # t \/ l # L
  PROVE  RowsAt(rows, u, l) = RowsAt(rows2, u, l)
  BY DEF GrowsAt, RowsAt, RowsOf

LEMMA EmptyLine ==
  ASSUME NEW inc, NEW def, NEW g, NEW u, NEW l, NEW r,
         RowsAt(inc, u, l) = {}, RowsAt(def, u, l) = {}
  PROVE  ReplayLine(inc, def, g, u, l, r) = r
  BY DEF ReplayLine

\* What line L adds to file t changes the effects of t, and of no other file.
Grown(E, E2, inc2, def2, len2, t, L) ==
  /\ IsEffects(E2, inc2, def2, len2)
  /\ \A u \in Units \ {t}, r \in Results : E2[u][r] = E[u][r]
  /\ \A r \in Results : E2[t][r] = ReplayLine(inc2, def2, E2, t, L, E[t][r])

LEMMA GrowFile ==
  ASSUME NEW inc, NEW def, Tables(inc, def), NEW len \in [Units -> Nat], Ordered(inc),
         NEW inc2, NEW def2, Tables(inc2, def2), NEW len2 \in [Units -> Nat], Ordered(inc2),
         NEW t \in Units, NEW L \in Nat \ {0}, L = len[t] \/ L = len[t] + 1,
         len2 = [len EXCEPT ![t] = L],
         GrowsAt(inc, inc2, t, L), GrowsAt(def, def2, t, L),
         \A i \in DOMAIN inc2 : inc2[i].target # t,
         NEW E, E = Replays(inc, def, len)[MaxUnits + 1],
         NEW E2, E2 = Replays(inc2, def2, len2)[MaxUnits + 1]
  PROVE  Grown(E, E2, inc2, def2, len2, t, L)
  <1>1. IsEffects(E, inc, def, len) /\ IsEffects(E2, inc2, def2, len2)
    BY EffectsExact
  <1>2. /\ \A i \in DOMAIN inc : /\ inc[i] \in RowType /\ inc[i].target \in Units
                                 /\ inc2[i] = inc[i] /\ inc[i].target # t
        /\ \A i \in DOMAIN def : def2[i] = def[i]
    <2>1. \A i \in DOMAIN inc : inc[i] \in RowType
      BY ElementOfSeq, LenProperties DEF Tables
    <2>2. \A i \in DOMAIN inc : i \in DOMAIN inc2 /\ inc2[i] = inc[i]
      BY DEF GrowsAt
    <2> QED
      BY <2>1, <2>2 DEF RowType, GrowsAt
  <1>3. \A u \in Units \ {t}, r \in Results : E2[u][r] = E[u][r]
    <2>1. PICK C \in SUBSET Units : C = Units \ {t}
      OBVIOUS
    <2>2. \A u \in C : len2[u] = len[u]
      BY <2>1
    <2>3. \A u \in C : \A l : /\ RowsAt(inc, u, l) = RowsAt(inc2, u, l)
                              /\ RowsAt(def, u, l) = RowsAt(def2, u, l)
      BY <2>1, GrowElsewhere
    <2>4. \A u \in C : \A i \in RowsOf(inc, u) : inc2[i] = inc[i] /\ inc[i].target \in C
      BY <2>1, <1>2 DEF RowsOf
    <2>5. \A u \in C : \A i \in RowsOf(def, u) : def2[i] = def[i]
      BY <1>2 DEF RowsOf
    <2>6. /\ SameRows(inc, inc2, C) /\ SameRows(def, def2, C)
          /\ ClosedRows(inc, C) /\ SameLengths(len, len2, C)
      BY <2>2, <2>3, <2>4, <2>5 DEF SameRows, ClosedRows, SameLengths
    <2>7. SameEffectsOn(C, E, E2)
      BY <2>6, SameEffects
    <2> QED
      BY <2>1, <2>7 DEF SameEffectsOn
  <1>4. ASSUME NEW r \in Results
        PROVE  E2[t][r] = ReplayLine(inc2, def2, E2, t, L, E[t][r])
    <2>1. E \in Replayers /\ E2 \in Replayers
      BY <1>1 DEF IsEffects
    <2>2. PICK f : FileRun(f, inc, def, len, E, t, r)
      BY <2>1, FileLines
    <2>3. PICK f2 : FileRun(f2, inc2, def2, len2, E2, t, r)
      BY <2>1, FileLines
    <2>4. PICK N \in Nat, N2 \in Nat, n \in Nat :
            N = len[t] /\ N2 = len2[t] /\ N2 = L /\ n = L - 1
      OBVIOUS
    <2>5. /\ E[t][r] = f[N] /\ E2[t][r] = f2[N2]
          /\ f \in [0..N -> Results]
          /\ \A l \in 1..N : f[l] = ReplayLine(inc, def, E, t, l, f[l - 1])
          /\ \A l \in 1..N2 : f2[l] = ReplayLine(inc2, def2, E2, t, l, f2[l - 1])
      <3>1. /\ E[t][r] = ReplayFile(inc, def, len, E, t, r)
            /\ E2[t][r] = ReplayFile(inc2, def2, len2, E2, t, r)
        BY <1>1 DEF IsEffects
      <3> QED
        BY <3>1, <2>2, <2>3, <2>4 DEF FileRun
    <2>6. SameUpto(inc, def, E, inc2, def2, E2, t, n)
      <3> SUFFICES ASSUME NEW l \in 1..n
                   PROVE  SameLine(inc, def, E, inc2, def2, E2, t, l)
        BY DEF SameUpto
      <3>1. l # L
        BY <2>4
      <3>2. RowsAt(inc, t, l) = RowsAt(inc2, t, l) /\ RowsAt(def, t, l) = RowsAt(def2, t, l)
        BY <3>1, GrowElsewhere
      <3>3. \A i \in RowsAt(inc, t, l) : inc2[i] = inc[i] /\ inc[i].target \in Units \ {t}
        BY <1>2 DEF RowsAt, RowsOf
      <3>4. \A i \in RowsAt(def, t, l) : def2[i] = def[i]
        BY <1>2 DEF RowsAt, RowsOf
      <3>5. ASSUME NEW i \in RowsAt(inc, t, l), NEW x \in Results
            PROVE  E[inc[i].target][x] = E2[inc[i].target][x]
        <4>1. PICK v \in Units \ {t} : v = inc[i].target
          BY <3>3
        <4> QED
          BY <4>1, <1>3
      <3> QED
        BY <3>2, <3>3, <3>4, <3>5 DEF SameLine
    <2>7. AgreeUpto(f, f2, n)
      <3>1. n <= len[t] /\ n <= len2[t]
        BY <2>4
      <3> QED
        BY <2>2, <2>3, <2>6, <3>1, SameLines
    <2>8. f[n] = f2[n]
      BY <2>7 DEF AgreeUpto
    <2>9. f[N] = f[n]
      <3>1. CASE N = n
        BY <3>1
      <3>2. CASE N = L
        <4>1. RowsAt(inc, t, L) = {} /\ RowsAt(def, t, L) = {}
          <5>1. \A i \in RowsOf(inc, t) : inc[i].line < L
            BY DEF GrowsAt
          <5>2. \A i \in RowsOf(def, t) : def[i].line < L
            BY DEF GrowsAt
          <5> QED
            BY <5>1, <5>2 DEF RowsAt
        <4>0. N \in 1..N /\ N - 1 = n
          <5>1. N \in Nat \ {0} /\ n = N - 1
            BY <3>2, <2>4
          <5> QED
            BY ONLY <5>1
        <4>2. f[N] = ReplayLine(inc, def, E, t, L, f[n])
          BY <4>0, <3>2, <2>5
        <4> QED
          BY <4>1, <4>2, EmptyLine
      <3> QED
        BY <3>1, <3>2, <2>4
    <2>10. f2[N2] = ReplayLine(inc2, def2, E2, t, L, f2[n])
      <3>1. N2 \in 1..N2 /\ N2 - 1 = n
        BY <2>4
      <3> QED
        BY <3>1, <2>4, <2>5
    <2> QED
      BY <2>5, <2>8, <2>9, <2>10
  <1> QED
    BY <1>1, <1>3, <1>4 DEF Grown

\* A row or an event added to its table.
LEMMA AppendGrows ==
  ASSUME NEW S, NEW rows \in Seq(S), NEW row \in S, NEW t, NEW L \in Nat,
         row.unit = t, row.line = L,
         \A i \in RowsOf(rows, t) : rows[i].line < L
  PROVE  GrowsAt(rows, Append(rows, row), t, L)
  <1>1. PICK next : next = Append(rows, row)
    OBVIOUS
  <1>2. PICK n \in Nat : n = Len(rows)
    BY LenProperties
  <1>3. /\ next \in Seq(S) /\ Len(next) = n + 1
        /\ \A i \in 1..n : next[i] = rows[i]
        /\ next[n + 1] = row
    BY <1>1, <1>2, AppendProperties
  <1>4. DOMAIN rows = 1..n /\ DOMAIN next = 1..(n + 1)
    BY <1>2, <1>3, LenProperties
  <1>5. GrowsAt(rows, next, t, L)
    BY <1>3, <1>4 DEF GrowsAt
  <1> QED
    BY <1>1, <1>5

LEMMA SameGrows ==
  ASSUME NEW rows, NEW t, NEW L, \A i \in RowsOf(rows, t) : rows[i].line < L
  PROVE  GrowsAt(rows, rows, t, L)
  BY DEF GrowsAt

-----------------------------------------------------------------------------
(* What the tables say of a file while it is scanned.                        *)

\* The last line of a file that waits for a header has no row yet.
Awaiting(calls, u) == \E k \in DOMAIN calls : calls[k].unit = u /\ calls[k].include # None
Known(u) == IF Awaiting(frames, u) THEN Len(source[u]) - 1 ELSE Len(source[u])

RowsWithin(rows, u, n) == \A i \in RowsOf(rows, u) : rows[i].line \in 1..n

\* The replay of the rows and events of a file's known lines, from no macros,
\* arrives at the file's own environment, without a conflict or a full table.
ReplayInv ==
  /\ env \in [Units -> Envs] /\ \A u \in Units : Fits(env[u])
  /\ events \in Seq(Events)
  /\ \A u \in Units : /\ Known(u) \in Nat
                      /\ RowsWithin(dependencies, u, Known(u))
                      /\ RowsWithin(events, u, Known(u))
  /\ \A u \in Units : scanState[u] = 0 => source[u] = <<>>
  /\ \A u \in Units : Import(dependencies, events, u, NoMacros) = Unimpeded(env[u])

LEMMA LengthsType ==
  ASSUME Shape
  PROVE  /\ Lengths \in [Units -> Nat]
         /\ \A u \in Units : Lengths[u] = Len(source[u]) /\ Len(source[u]) \in Nat
  <1>1. \A u \in Units : source[u] \in Seq(ActiveLines)
    BY DEF Shape
  <1>2. \A u \in Units : Len(source[u]) \in Nat
    BY <1>1, LenProperties
  <1> QED
    BY <1>2 DEF Lengths

LEMMA UnimpededType ==
  /\ \A m \in Envs : /\ Unimpeded(m) \in Results /\ Unimpeded(m).macros = m
                     /\ Unimpeded(m).status = "OK"
  /\ \A m, m2 : Unimpeded(m) = Unimpeded(m2) => m = m2
  /\ \A r \in Results : r.status = "OK" => r = Unimpeded(r.macros)
  <1>1. \A m \in Envs : /\ Unimpeded(m) \in Results /\ Unimpeded(m).macros = m
                        /\ Unimpeded(m).status = "OK"
    BY DEF Unimpeded, Results, Statuses
  <1>2. \A m, m2 : Unimpeded(m) = Unimpeded(m2) => m = m2
    <2> SUFFICES ASSUME NEW m, NEW m2, Unimpeded(m) = Unimpeded(m2)
                 PROVE  m = m2
      OBVIOUS
    <2>1. Unimpeded(m).macros = m /\ Unimpeded(m2).macros = m2
      BY DEF Unimpeded
    <2> QED
      BY <2>1
  <1>3. \A r \in Results : r.status = "OK" => r = Unimpeded(r.macros)
    BY DEF Unimpeded, Results
  <1> QED
    BY <1>1, <1>2, <1>3

\* A file not seen yet has the environment it starts with.
LEMMA Untouched ==
  ASSUME OrderInv, ReplayInv, NEW u \in Units, scanState[u] = 0
  PROVE  env[u] = NoMacros /\ [env EXCEPT ![u] = NoMacros] = env
  <1>1. Lengths \in [Units -> Nat] /\ Lengths[u] = 0
    BY LengthsType, EmptySeq DEF OrderInv, ReplayInv
  <1>2. Tables(dependencies, events) /\ Ordered(dependencies)
    BY DEF OrderInv, Shape, ReplayInv, Tables, DependencyOrder, Ordered
  <1>3. PICK E : E = Effects(dependencies, events)
    OBVIOUS
  <1>4. IsEffects(E, dependencies, events, Lengths)
    BY <1>1, <1>2, <1>3, EffectsExact DEF Effects
  <1>5. PICK r \in Results : r = Unimpeded(NoMacros)
    BY UnimpededType, NoMacrosFit
  <1>6. E \in Replayers /\ E[u][r] = ReplayFile(dependencies, events, Lengths, E, u, r)
    BY <1>4 DEF IsEffects
  <1>7. PICK f : FileRun(f, dependencies, events, Lengths, E, u, r)
    BY <1>1, <1>2, <1>6, FileLines
  <1>8. E[u][r] = r
    BY <1>1, <1>6, <1>7 DEF FileRun
  <1>9. E[u][r] = Unimpeded(env[u])
    BY <1>3, <1>5 DEF ReplayInv, Import
  <1>10. env[u] = NoMacros
    BY <1>5, <1>8, <1>9, UnimpededType
  <1> QED
    BY <1>10 DEF ReplayInv

LEMMA InitReplay ==
  ASSUME Init, OrderInv
  PROVE  ReplayInv
  <1>1. env \in [Units -> Envs] /\ \A u \in Units : env[u] = NoMacros /\ Fits(env[u])
    BY NoMacrosFit DEF Init
  <1>2. events \in Seq(Events) /\ events = <<>> /\ dependencies = <<>> /\ frames = <<>>
    BY EmptySeq DEF Init
  <1>3. \A u \in Units : source[u] = <<>> /\ Len(source[u]) = 0
    BY EmptySeq DEF Init
  <1>4. \A u \in Units : ~Awaiting(frames, u)
    BY <1>2 DEF Awaiting
  <1>5. \A u \in Units : Known(u) = 0
    BY <1>3, <1>4 DEF Known
  <1>6. \A u, n : RowsWithin(dependencies, u, n) /\ RowsWithin(events, u, n)
    BY <1>2 DEF RowsWithin, RowsOf
  <1>7. Lengths \in [Units -> Nat] /\ \A u \in Units : Lengths[u] = 0
    BY <1>3, LengthsType DEF OrderInv
  <1>8. Tables(dependencies, events) /\ Ordered(dependencies)
    BY <1>2 DEF OrderInv, Shape, Tables, DependencyOrder, Ordered
  <1>9. PICK E : E = Effects(dependencies, events)
    OBVIOUS
  <1>10. IsEffects(E, dependencies, events, Lengths)
    BY <1>7, <1>8, <1>9, EffectsExact DEF Effects
  <1>11. PICK r \in Results : r = Unimpeded(NoMacros)
    BY UnimpededType, NoMacrosFit
  <1>12. ASSUME NEW u \in Units
         PROVE  Import(dependencies, events, u, NoMacros) = Unimpeded(env[u])
    <2>1. E \in Replayers /\ E[u][r] = ReplayFile(dependencies, events, Lengths, E, u, r)
      BY <1>10 DEF IsEffects
    <2>2. PICK f : FileRun(f, dependencies, events, Lengths, E, u, r)
      BY <1>7, <1>8, <2>1, FileLines
    <2>3. E[u][r] = r
      BY <1>7, <2>1, <2>2 DEF FileRun
    <2> QED
      BY <2>3, <1>1, <1>9, <1>11 DEF Import
  <1> QED
    BY <1>1, <1>2, <1>3, <1>5, <1>6, <1>12 DEF ReplayInv

\* One more line of file t is known, the others are as they were.
Learnt(E, E2, t, envs) ==
  /\ E[t][Unimpeded(NoMacros)] = Unimpeded(envs[t])
  /\ \A u \in Units \ {t} : E2[u][Unimpeded(NoMacros)] = Unimpeded(envs[u])

LEMMA LineStep ==
  ASSUME OrderInv, OrderInv', ReplayInv, NEW t \in Units, NEW L \in Nat \ {0},
         L = Len(source[t]) \/ L = Len(source[t]) + 1,
         RowsWithin(dependencies, t, L - 1), RowsWithin(events, t, L - 1),
         Lengths' = [Lengths EXCEPT ![t] = L],
         events' \in Seq(Events),
         GrowsAt(dependencies, dependencies', t, L), GrowsAt(events, events', t, L),
         scanState'[t] = 1,
         NEW E, E = Effects(dependencies, events),
         NEW E2, E2 = Effects(dependencies, events)'
  PROVE  Grown(E, E2, dependencies', events', Lengths', t, L) /\ Learnt(E, E2, t, env)
  <1>1. Tables(dependencies, events) /\ Ordered(dependencies)
    BY DEF OrderInv, Shape, ReplayInv, Tables, DependencyOrder, Ordered
  <1>2. Tables(dependencies', events') /\ Ordered(dependencies')
    BY DEF OrderInv, Shape, Tables, DependencyOrder, Ordered, RowsOf
  <1>3. \A i \in DOMAIN dependencies' : dependencies'[i].target # t
    BY DEF OrderInv, DependencyOrder
  <1>4. Lengths \in [Units -> Nat] /\ Lengths' \in [Units -> Nat]
        /\ Lengths[t] = Len(source[t])
    BY LengthsType DEF OrderInv
  <1>5. /\ E = Replays(dependencies, events, Lengths)[MaxUnits + 1]
        /\ E2 = Replays(dependencies', events', Lengths')[MaxUnits + 1]
    BY DEF Effects
  <1>6. PICK len, len2, inc2, def2 :
          len = Lengths /\ len2 = Lengths' /\ inc2 = dependencies' /\ def2 = events'
    OBVIOUS
  <1>7. Grown(E, E2, inc2, def2, len2, t, L)
    BY <1>1, <1>2, <1>3, <1>4, <1>5, <1>6, GrowFile
  <1>8. \A u \in Units : E[u][Unimpeded(NoMacros)] = Unimpeded(env[u])
    BY DEF ReplayInv, Import
  <1>9. Unimpeded(NoMacros) \in Results
    BY UnimpededType, NoMacrosFit
  <1> QED
    BY <1>6, <1>7, <1>8, <1>9 DEF Grown, Learnt

\* A step learns nothing of any file but t.
OthersKept(t) ==
  \A u \in Units \ {t} :
    /\ Known(u)' = Known(u) /\ source'[u] = source[u] /\ env'[u] = env[u]
    /\ \A r \in Results :
         Effects(dependencies, events)'[u][r] = Effects(dependencies, events)[u][r]

LEMMA ReplayStep ==
  ASSUME OrderInv, OrderInv', ReplayInv, NEW t \in Units, NEW L \in Nat \ {0},
         L = Len(source[t]) \/ L = Len(source[t]) + 1,
         RowsWithin(dependencies, t, L - 1), RowsWithin(events, t, L - 1),
         Lengths' = [Lengths EXCEPT ![t] = L],
         events' \in Seq(Events),
         GrowsAt(dependencies, dependencies', t, L), GrowsAt(events, events', t, L),
         scanState'[t] = 1,
         \A u \in Units \ {t} : /\ env'[u] = env[u] /\ source'[u] = source[u]
                                /\ Known(u)' = Known(u)
                                /\ scanState'[u] = 0 => scanState[u] = 0,
         env' \in [Units -> Envs], Fits(env'[t]), Known(t)' \in Nat,
         RowsWithin(dependencies', t, Known(t)'), RowsWithin(events', t, Known(t)'),
         ReplayLine(dependencies', events', Effects(dependencies, events)', t, L,
                    Unimpeded(env[t])) = Unimpeded(env'[t])
  PROVE  ReplayInv' /\ OthersKept(t)
  <1>1. PICK E, E2 : E = Effects(dependencies, events) /\ E2 = Effects(dependencies, events)'
    OBVIOUS
  <1>0. Grown(E, E2, dependencies', events', Lengths', t, L) /\ Learnt(E, E2, t, env)
    BY <1>1, LineStep
  <1>2. /\ \A r \in Results :
             E2[t][r] = ReplayLine(dependencies', events', E2, t, L, E[t][r])
        /\ E[t][Unimpeded(NoMacros)] = Unimpeded(env[t])
        /\ \A u \in Units \ {t} : E2[u][Unimpeded(NoMacros)] = Unimpeded(env[u])
    BY <1>0 DEF Grown, Learnt
  <1>3. Unimpeded(NoMacros) \in Results
    BY UnimpededType, NoMacrosFit
  <1>4. \A u \in Units : E2[u][Unimpeded(NoMacros)] = Unimpeded(env'[u])
    <2>1. E2[t][Unimpeded(NoMacros)] = Unimpeded(env'[t])
      BY <1>1, <1>2, <1>3
    <2> QED
      BY <2>1, <1>2
  <1>5. (\A u \in Units : Import(dependencies, events, u, NoMacros) = Unimpeded(env[u]))'
    BY <1>1, <1>4 DEF Import
  <1>6. ASSUME NEW u \in Units \ {t}
        PROVE  /\ Known(u)' \in Nat
               /\ RowsWithin(dependencies', u, Known(u)')
               /\ RowsWithin(events', u, Known(u)')
    <2>1. PICK n \in Nat : n = Known(u) /\ n = Known(u)'
      BY DEF ReplayInv
    <2>2. RowsWithin(dependencies, u, n) /\ RowsWithin(events, u, n)
      BY <2>1 DEF ReplayInv
    <2>3. RowsWithin(dependencies', u, n)
      BY <2>2 DEF RowsWithin, RowsOf, GrowsAt
    <2>4. RowsWithin(events', u, n)
      BY <2>2 DEF RowsWithin, RowsOf, GrowsAt
    <2> QED
      BY <2>1, <2>3, <2>4
  <1>7. (\A u \in Units : /\ Known(u) \in Nat
                          /\ RowsWithin(dependencies, u, Known(u))
                          /\ RowsWithin(events, u, Known(u)))'
    BY <1>6
  <1>8. \A u \in Units : Fits(env'[u])
    BY DEF ReplayInv
  <1>9. \A u \in Units : scanState'[u] = 0 => source'[u] = <<>>
    BY DEF ReplayInv
  <1>10. OthersKept(t)
    <2>1. \A u \in Units \ {t}, r \in Results : E2[u][r] = E[u][r]
      BY <1>0 DEF Grown
    <2> QED
      BY <1>1, <2>1 DEF OthersKept
  <1> QED
    BY <1>5, <1>7, <1>8, <1>9, <1>10 DEF ReplayInv

LEMMA StutterReplay ==
  ASSUME ReplayInv, UNCHANGED <<source, scanState, env, events, dependencies, frames>>
  PROVE  ReplayInv' /\ \A t : OthersKept(t)
  <1>1. Lengths' = Lengths
    BY DEF Lengths
  <1>2. \A u \in Units :
          Import(dependencies, events, u, NoMacros)' = Import(dependencies, events, u, NoMacros)
    BY <1>1 DEF Import, Effects
  <1>3. \A u \in Units : Known(u)' = Known(u)
    BY DEF Known
  <1> QED
    BY <1>1, <1>2, <1>3 DEF ReplayInv, OthersKept, Effects

\* The file on top, while it is read, waits for nothing.
LEMMA ReadingTop ==
  ASSUME OrderInv, frames # <<>>
  PROVE  Awaiting(frames, Top.unit) <=> Top.include # None
  <1>1. /\ Len(frames) \in DOMAIN frames /\ Top = frames[Len(frames)]
    BY TopFacts
  <1>2. \A k \in DOMAIN frames : frames[k].unit = Top.unit => k = Len(frames)
    BY <1>1 DEF OrderInv, ScanInv
  <1> QED
    BY <1>1, <1>2 DEF Awaiting

LEMMA ReadsLine ==
  ASSUME OrderInv, NEW t \in Units, NEW line \in ActiveLines,
         source' = [source EXCEPT ![t] = Append(@, line)]
  PROVE  /\ Len(source'[t]) = Len(source[t]) + 1 /\ Len(source[t]) \in Nat
         /\ source'[t] = Append(source[t], line)
         /\ \A u \in Units \ {t} : source'[u] = source[u]
         /\ Lengths' = [Lengths EXCEPT ![t] = Len(source[t]) + 1]
  <1>1. source[t] \in Seq(ActiveLines) /\ source \in [Units -> Seq(ActiveLines)]
    BY DEF OrderInv, Shape
  <1>2. Len(source'[t]) = Len(source[t]) + 1 /\ source'[t] = Append(source[t], line)
        /\ Len(source[t]) \in Nat
    <2>1. source'[t] = Append(source[t], line)
      BY <1>1
    <2> QED
      BY <1>1, <2>1, AppendProperties, LenProperties
  <1>3. \A u \in Units \ {t} : source'[u] = source[u]
    BY <1>1
  <1>4. Lengths' = [Lengths EXCEPT ![t] = Len(source[t]) + 1]
    <2> DEFINE n == Len(source[t]) + 1
    <2>1. \A u \in Units : Len(source'[u]) = IF u = t THEN n ELSE Len(source[u])
      BY <1>2, <1>3
    <2>2. Lengths' = [u \in Units |-> Len(source'[u])] /\ Lengths = [u \in Units |-> Len(source[u])]
      BY DEF Lengths
    <2> HIDE DEF n
    <2>3. Lengths' = [Lengths EXCEPT ![t] = n]
      BY <2>1, <2>2
    <2> QED
      BY <2>3 DEF n
  <1> QED
    BY <1>2, <1>3, <1>4

LEMMA NothingAt ==
  ASSUME NEW rows, NEW t, NEW n \in Nat, RowsWithin(rows, t, n)
  PROVE  RowsAt(rows, t, n + 1) = {} /\ \A i \in RowsOf(rows, t) : rows[i].line < n + 1
  <1>1. \A i \in RowsOf(rows, t) : rows[i].line \in 1..n
    BY DEF RowsWithin
  <1>2. \A x \in 1..n : x # n + 1 /\ x < n + 1
    OBVIOUS
  <1>3. \A i \in RowsOf(rows, t) : rows[i].line # n + 1 /\ rows[i].line < n + 1
    BY <1>1, <1>2
  <1> QED
    BY <1>3 DEF RowsAt

\* A line that does nothing to the macros, or will when its header is scanned.
LEMMA PlainReplay ==
  ASSUME OrderInv, OrderInv', ReplayInv, frames # <<>>, Top.include = None,
         NEW line \in ActiveLines, Reads(line),
         UNCHANGED <<env, events, dependencies>>,
         \A u \in Units : scanState'[u] = 0 => scanState[u] = 0,
         scanState'[Top.unit] = 1,
         \A u \in Units \ {Top.unit} : Awaiting(frames', u) <=> Awaiting(frames, u)
  PROVE  ReplayInv' /\ OthersKept(Top.unit)
  <1>1. PICK t \in Units : t = Top.unit
    BY TopFacts
  <1>2. PICK n \in Nat : n = Len(source[t]) /\ n = Known(t)
    <2>1. ~Awaiting(frames, t)
      BY <1>1, ReadingTop
    <2> QED
      BY <2>1 DEF ReplayInv, Known
  <1>3. /\ Len(source'[t]) = n + 1 /\ \A u \in Units \ {t} : source'[u] = source[u]
        /\ Lengths' = [Lengths EXCEPT ![t] = n + 1]
    BY <1>1, <1>2, ReadsLine DEF Reads
  <1>4. /\ RowsWithin(dependencies, t, n) /\ RowsWithin(events, t, n)
    BY <1>2 DEF ReplayInv
  <1>5. PICK L \in Nat \ {0} : L = n + 1 /\ L - 1 = n
    OBVIOUS
  <1>6. /\ GrowsAt(dependencies, dependencies', t, L) /\ GrowsAt(events, events', t, L)
        /\ RowsAt(dependencies', t, L) = {} /\ RowsAt(events', t, L) = {}
    BY <1>4, <1>5, NothingAt, SameGrows
  <1>7. ReplayLine(dependencies', events', Effects(dependencies, events)', t, L,
                   Unimpeded(env[t])) = Unimpeded(env'[t])
    BY <1>6, EmptyLine
  <1>8. \A u \in Units \ {t} : Known(u)' = Known(u)
    BY <1>1, <1>3 DEF Known
  <1>9. /\ Known(t)' \in Nat /\ RowsWithin(dependencies', t, Known(t)')
        /\ RowsWithin(events', t, Known(t)')
    <2>1. PICK m \in Nat : m = Known(t)' /\ m >= n
      BY <1>2, <1>3 DEF Known
    <2>2. RowsWithin(dependencies, t, m) /\ RowsWithin(events, t, m)
      <3>1. \A x \in 1..n : x \in 1..m
        BY <2>1
      <3> QED
        BY <3>1, <1>4 DEF RowsWithin
    <2> QED
      BY <2>1, <2>2
  <1>10. /\ RowsWithin(dependencies, t, L - 1) /\ RowsWithin(events, t, L - 1)
         /\ L = Len(source[t]) + 1 /\ Lengths' = [Lengths EXCEPT ![t] = L]
         /\ scanState'[t] = 1 /\ events' \in Seq(Events)
    BY <1>1, <1>2, <1>3, <1>4, <1>5 DEF ReplayInv
  <1>11. env' \in [Units -> Envs] /\ Fits(env'[t])
         /\ \A u \in Units \ {t} : env'[u] = env[u]
    BY DEF ReplayInv
  <1>12. ReplayInv' /\ OthersKept(t)
    BY <1>3, <1>6, <1>7, <1>8, <1>9, <1>10, <1>11, ReplayStep
  <1> QED
    BY <1>1, <1>12

LineKinds == ConditionalKinds \cup {"include", "define", "undef", "text", "bad"}

LEMMA LineTypes ==
  ASSUME NEW line \in ActiveLines
  PROVE  /\ line.kind = "define" => line.arg \in Macros /\ line.body \in Bodies
         /\ line.kind = "undef" => line.arg \in Macros
         /\ line.kind \in Opening => line.arg \in Macros
         /\ line.kind = "include" => line.arg \in Units \cup {None}
         /\ line.kind \in LineKinds
  <1>1. CASE line \in {Line("include", target, None) : target \in Units \cup {None}}
    BY <1>1 DEF Line, Opening, LineKinds, ConditionalKinds
  <1>2. CASE line \in {Line("define", name, body) : name \in Macros, body \in Bodies}
    BY <1>2 DEF Line, Opening, LineKinds, ConditionalKinds
  <1>3. CASE line \in {Line(kind, name, None) : kind \in Opening \cup {"undef"}, name \in Macros}
    BY <1>3 DEF Line, Opening, LineKinds, ConditionalKinds
  <1>4. CASE line \in {Line(kind, None, None) : kind \in {"else", "endif", "text", "bad"}}
    BY <1>4 DEF Line, Opening, LineKinds, ConditionalKinds
  <1> QED
    BY <1>1, <1>2, <1>3, <1>4 DEF ActiveLines

\* A #define or an #undef, with its event.
LEMMA EventReplay ==
  ASSUME OrderInv, OrderInv', ReplayInv, frames # <<>>, Top.include = None,
         NEW line \in ActiveLines, Reads(line),
         NEW x \in Macros, NEW b \in Bodies \cup {None},
         b # None => ~Conflicts(env[Top.unit], x, b) /\ ~EnvFull(env[Top.unit], x),
         env' = [env EXCEPT ![Top.unit][x] = b],
         events' = Append(events, Event(Top.unit, Here, x, b)),
         UNCHANGED <<scanState, frames, dependencies>>
  PROVE  ReplayInv' /\ OthersKept(Top.unit)
  <1>1. PICK t \in Units : t = Top.unit /\ scanState[t] = 1
    BY TopFacts
  <1>2. PICK n \in Nat : n = Len(source[t]) /\ n = Known(t)
    <2>1. ~Awaiting(frames, t)
      BY <1>1, ReadingTop
    <2> QED
      BY <2>1 DEF ReplayInv, Known
  <1>3. /\ Len(source'[t]) = n + 1 /\ \A u \in Units \ {t} : source'[u] = source[u]
        /\ Lengths' = [Lengths EXCEPT ![t] = n + 1]
    BY <1>1, <1>2, ReadsLine DEF Reads
  <1>4. /\ RowsWithin(dependencies, t, n) /\ RowsWithin(events, t, n)
    BY <1>2 DEF ReplayInv
  <1>5. PICK L \in Nat \ {0} : L = n + 1 /\ L - 1 = n
    OBVIOUS
  <1>6. PICK ev \in Events : /\ ev = Event(t, L, x, b)
                             /\ ev.unit = t /\ ev.line = L /\ ev.name = x /\ ev.body = b
    <2>1. Event(t, L, x, b) \in Events
      BY DEF Event, Events
    <2> QED
      BY <2>1 DEF Event
  <1>7. events' = Append(events, ev) /\ events \in Seq(Events)
    BY <1>1, <1>2, <1>5, <1>6 DEF Here, ReplayInv
  <1>8. /\ GrowsAt(dependencies, dependencies', t, L) /\ GrowsAt(events, events', t, L)
        /\ RowsAt(dependencies', t, L) = {} /\ RowsAt(events, t, L) = {}
    <2>1. /\ RowsAt(dependencies, t, L) = {} /\ RowsAt(events, t, L) = {}
          /\ \A i \in RowsOf(dependencies, t) : dependencies[i].line < L
          /\ \A i \in RowsOf(events, t) : events[i].line < L
      BY <1>4, <1>5, NothingAt
    <2>2. GrowsAt(events, events', t, L)
      BY <2>1, <1>5, <1>6, <1>7, AppendGrows
    <2> QED
      BY <2>1, <2>2, SameGrows
  <1>9. PICK e : RowsAt(events', t, L) = {e} /\ events'[e] = ev
    <2>1. PICK m \in Nat : m = Len(events)
      BY <1>7, LenProperties
    <2>2. /\ events' \in Seq(Events) /\ Len(events') = m + 1
          /\ \A i \in 1..m : events'[i] = events[i]
          /\ events'[m + 1] = ev
      BY <1>6, <1>7, <2>1, AppendProperties
    <2>3. DOMAIN events' = 1..(m + 1) /\ DOMAIN events = 1..m
      BY <1>7, <2>1, <2>2, LenProperties
    <2>4. RowsAt(events', t, L) = {m + 1}
      BY <1>6, <1>8, <2>2, <2>3 DEF RowsAt, RowsOf
    <2> QED
      BY <2>2, <2>4
  <1>10. PICK m, m2 : m = env[t] /\ m2 = env'[t]
    OBVIOUS
  <1>11. /\ m \in Envs /\ m2 = [m EXCEPT ![x] = b] /\ Fits(m)
         /\ env' \in [Units -> Envs] /\ \A u \in Units \ {t} : env'[u] = env[u]
    <2>1. m \in Envs /\ env \in [Units -> Envs] /\ Fits(m)
      BY <1>10 DEF ReplayInv
    <2>2. m2 = [m EXCEPT ![x] = b] /\ \A u \in Units \ {t} : env'[u] = env[u]
      BY <2>1, <1>1, <1>10
    <2>5. env' = [env EXCEPT ![t] = m2]
      BY <2>1, <2>2, <1>1, <1>10
    <2>3. m2 \in Envs
      BY <2>1, <2>2, DefineFits
    <2>4. env' \in [Units -> Envs]
      BY ONLY <1>1, <2>1, <2>3, <2>5
    <2> QED
      BY <2>1, <2>2, <2>4
  <1>12. Fits(m2)
    BY <1>1, <1>10, <1>11, DefineFits
  <1>13. ApplyEvent(Unimpeded(m), ev) = Unimpeded(m2)
    <2>1. PICK r : r = Unimpeded(m) /\ r.macros = m /\ r = [macros |-> m, status |-> "OK"]
      BY DEF Unimpeded
    <2>2. /\ b # None => ~Conflicts(r.macros, x, b) /\ ~EnvFull(r.macros, x)
      BY <1>1, <1>10, <2>1
    <2>3. ApplyEvent(r, ev) = [r EXCEPT !.macros[x] = b]
      BY <2>2, <1>6 DEF ApplyEvent
    <2>4. [r EXCEPT !.macros[x] = b] = [macros |-> [m EXCEPT ![x] = b], status |-> "OK"]
      BY <2>1
    <2> QED
      BY <2>1, <2>3, <2>4, <1>11 DEF Unimpeded
  <1>14. ReplayLine(dependencies', events', Effects(dependencies, events)', t, L,
                    Unimpeded(env[t])) = Unimpeded(env'[t])
    <2>1. Unimpeded(m).status = "OK"
      BY DEF Unimpeded
    <2>2. (CHOOSE j \in RowsAt(events', t, L) : TRUE) = e
      BY <1>9
    <2>3. PICK r, inc, def, g : /\ r = Unimpeded(m) /\ inc = dependencies' /\ def = events'
                                /\ g = Effects(dependencies, events)'
      OBVIOUS
    <2>4. ReplayLine(inc, def, g, t, L, r) = ApplyEvent(r, def[e])
      BY <2>1, <2>2, <2>3, <1>8, <1>9 DEF ReplayLine
    <2> QED
      BY <2>3, <2>4, <1>9, <1>10, <1>13
  <1>15. \A u \in Units : Awaiting(frames', u) <=> Awaiting(frames, u)
    OBVIOUS
  <1>16. (\A u \in Units \ {t} : Known(u)' = Known(u)) /\ Known(t)' = L
    <2>1. ~Awaiting(frames', t)
      BY <1>1, ReadingTop
    <2> QED
      BY <2>1, <1>1, <1>3, <1>5, <1>15 DEF Known
  <1>17. RowsWithin(dependencies', t, L) /\ RowsWithin(events', t, L)
    <2>1. \A i \in 1..n : i \in 1..L
      BY <1>5
    <2>2. L \in 1..L
      OBVIOUS
    <2>3. RowsWithin(dependencies, t, L) /\ RowsWithin(events, t, L)
      BY <2>1, <1>4 DEF RowsWithin
    <2>4. RowsWithin(events', t, L)
      BY <2>2, <2>3, <1>8 DEF RowsWithin, RowsOf, GrowsAt
    <2> QED
      BY <2>3, <2>4
  <1>18. /\ RowsWithin(dependencies, t, L - 1) /\ RowsWithin(events, t, L - 1)
         /\ L = Len(source[t]) + 1 /\ Lengths' = [Lengths EXCEPT ![t] = L]
         /\ scanState'[t] = 1 /\ events' \in Seq(Events)
    <2>1. events' \in Seq(Events)
      BY <1>6, <1>7, AppendProperties
    <2> QED
      BY <2>1, <1>1, <1>2, <1>3, <1>4, <1>5
  <1>19. Fits(env'[t]) /\ env' \in [Units -> Envs] /\ Known(t)' \in Nat
         /\ RowsWithin(dependencies', t, Known(t)') /\ RowsWithin(events', t, Known(t)')
    BY <1>10, <1>11, <1>12, <1>16, <1>17
  <1>20. \A u \in Units \ {t} : /\ env'[u] = env[u] /\ source'[u] = source[u]
                                /\ Known(u)' = Known(u)
                                /\ scanState'[u] = 0 => scanState[u] = 0
    BY <1>3, <1>11, <1>16
  <1> QED
    BY <1>1, <1>8, <1>14, <1>18, <1>19, <1>20, ReplayStep

\* The include on top is answered: its row is stored and its effects imported.
LEMMA StoreReplay ==
  ASSUME OrderInv, OrderInv', ReplayInv, frames # <<>>, Top.include # None,
         dependencies' = Append(dependencies, Row),
         NEW imported, imported = Import(dependencies', events, Top.include, env[Top.unit]),
         imported.status = "OK",
         env' = [env EXCEPT ![Top.unit] = imported.macros],
         frames' = [frames EXCEPT ![Len(frames)].include = None],
         UNCHANGED <<source, scanState, events>>
  PROVE  ReplayInv' /\ OthersKept(Top.unit)
  <1>1. PICK t \in Units : t = Top.unit /\ scanState[t] = 1
    BY TopFacts
  <1>2. PICK L \in Nat \ {0} : L = Len(source[t]) /\ L - 1 = Known(t)
    <2>1. Awaiting(frames, t)
      BY <1>1, ReadingTop
    <2>2. Len(source[t]) \in Nat /\ Known(t) = Len(source[t]) - 1 /\ Known(t) \in Nat
      BY <2>1, LengthsType DEF ReplayInv, Known, OrderInv
    <2> QED
      BY <2>2
  <1>3. RowsWithin(dependencies, t, L - 1) /\ RowsWithin(events, t, L - 1)
    BY <1>2 DEF ReplayInv
  <1>4. PICK h \in Units : h = Top.include
    BY TopFacts DEF Units
  <1>5. PICK row \in RowType : /\ row = Row /\ row.unit = t /\ row.line = L /\ row.target = h
    BY <1>1, <1>2, <1>4 DEF Row, RowType
  <1>6. dependencies' = Append(dependencies, row) /\ dependencies \in Seq(RowType)
    BY <1>5 DEF OrderInv, Shape
  <1>7. /\ GrowsAt(dependencies, dependencies', t, L) /\ GrowsAt(events, events', t, L)
        /\ RowsAt(dependencies, t, L) = {} /\ RowsAt(events', t, L) = {}
    <2>1. PICK n \in Nat : n = L - 1 /\ L = n + 1
      OBVIOUS
    <2>2. /\ RowsAt(dependencies, t, L) = {} /\ RowsAt(events, t, L) = {}
          /\ \A i \in RowsOf(dependencies, t) : dependencies[i].line < L
          /\ \A i \in RowsOf(events, t) : events[i].line < L
      BY <1>3, <2>1, NothingAt
    <2>3. GrowsAt(dependencies, dependencies', t, L)
      BY <2>2, <1>5, <1>6, AppendGrows
    <2> QED
      BY <2>2, <2>3, SameGrows
  <1>8. PICK d : RowsAt(dependencies', t, L) = {d} /\ dependencies'[d] = row
    <2>1. PICK m \in Nat : m = Len(dependencies)
      BY <1>6, LenProperties
    <2>2. /\ dependencies' \in Seq(RowType) /\ Len(dependencies') = m + 1
          /\ \A i \in 1..m : dependencies'[i] = dependencies[i]
          /\ dependencies'[m + 1] = row
      BY <1>5, <1>6, <2>1, AppendProperties
    <2>3. DOMAIN dependencies' = 1..(m + 1) /\ DOMAIN dependencies = 1..m
      BY <1>6, <2>1, <2>2, LenProperties
    <2>4. RowsAt(dependencies', t, L) = {m + 1}
      BY <1>5, <1>7, <2>2, <2>3 DEF RowsAt, RowsOf
    <2> QED
      BY <2>2, <2>4
  <1>9. Lengths' = Lengths /\ Lengths' = [Lengths EXCEPT ![t] = L]
    <2>1. Lengths \in [Units -> Nat] /\ Lengths[t] = L
      BY <1>2, LengthsType DEF OrderInv
    <2> QED
      BY <2>1 DEF Lengths
  <1>10. PICK E2 : /\ E2 = Effects(dependencies, events)'
                   /\ E2 = Effects(dependencies', events)
    BY <1>9 DEF Effects
  <1>11. E2 \in Replayers
    <2>1. Tables(dependencies', events') /\ Ordered(dependencies') /\ Lengths' \in [Units -> Nat]
      BY <1>9, LengthsType DEF OrderInv, Shape, ReplayInv, Tables, DependencyOrder, Ordered, RowsOf
    <2>2. IsEffects(Replays(dependencies', events', Lengths')[MaxUnits + 1],
                    dependencies', events', Lengths')
      BY <2>1, EffectsExact
    <2> QED
      BY <2>2, <1>10 DEF IsEffects, Effects
  <1>12. PICK m \in Envs : m = env[t] /\ Fits(m)
    BY DEF ReplayInv
  <1>13. /\ imported = E2[h][Unimpeded(m)]
         /\ imported \in Results /\ Fits(imported.macros)
    <2>1. imported = E2[h][Unimpeded(m)]
      BY <1>1, <1>4, <1>10, <1>12 DEF Import
    <2>2. Unimpeded(m) \in Results /\ Fits(Unimpeded(m).macros)
      BY <1>12, UnimpededType
    <2> QED
      BY <2>1, <2>2, <1>11 DEF Replayers
  <1>14. /\ env'[t] = imported.macros /\ imported.macros \in Envs
         /\ env' \in [Units -> Envs] /\ \A u \in Units \ {t} : env'[u] = env[u]
    <2>1. imported.macros \in Envs
      BY <1>13 DEF Results
    <2>2. env \in [Units -> Envs]
      BY DEF ReplayInv
    <2> QED
      BY <2>1, <2>2, <1>1
  <1>15. imported = Unimpeded(env'[t])
    BY <1>13, <1>14, UnimpededType
  <1>16. ReplayLine(dependencies', events', Effects(dependencies, events)', t, L,
                    Unimpeded(env[t])) = Unimpeded(env'[t])
    <2>1. Unimpeded(m).status = "OK"
      BY DEF Unimpeded
    <2>2. (CHOOSE j \in RowsAt(dependencies', t, L) : TRUE) = d
      BY <1>8
    <2>3. PICK r, inc, def : r = Unimpeded(m) /\ inc = dependencies' /\ def = events'
      OBVIOUS
    <2>4. ReplayLine(inc, def, E2, t, L, r) = E2[inc[d].target][r]
      BY <2>1, <2>2, <2>3, <1>8 DEF ReplayLine
    <2>5. inc[d].target = h
      BY <2>3, <1>8, <1>5
    <2> QED
      BY <2>3, <2>4, <2>5, <1>10, <1>12, <1>13, <1>15
  <1>17. (\A u \in Units \ {t} : Known(u)' = Known(u)) /\ Known(t)' = L
    <2>1. /\ DOMAIN frames' = DOMAIN frames
          /\ \A k \in DOMAIN frames : /\ frames'[k].unit = frames[k].unit
                                      /\ frames'[k].include = IF k = Len(frames) THEN None
                                                              ELSE frames[k].include
      BY SetInclude
    <2>2. /\ Len(frames) \in DOMAIN frames /\ frames[Len(frames)].unit = t
          /\ \A k \in DOMAIN frames : frames[k].unit = t => k = Len(frames)
      BY <1>1, TopFacts DEF OrderInv, ScanInv
    <2>3. ~Awaiting(frames', t)
      BY <2>1, <2>2 DEF Awaiting
    <2>4. \A u \in Units \ {t} : Awaiting(frames', u) <=> Awaiting(frames, u)
      BY <2>1, <2>2 DEF Awaiting
    <2> QED
      BY <2>3, <2>4, <1>2 DEF Known
  <1>18. RowsWithin(dependencies', t, L) /\ RowsWithin(events', t, L)
    <2>1. \A i \in 1..(L - 1) : i \in 1..L
      OBVIOUS
    <2>2. L \in 1..L
      OBVIOUS
    <2>3. RowsWithin(dependencies, t, L) /\ RowsWithin(events, t, L)
      BY <2>1, <1>3 DEF RowsWithin
    <2>4. RowsWithin(dependencies', t, L)
      BY <2>2, <2>3, <1>7 DEF RowsWithin, RowsOf, GrowsAt
    <2> QED
      BY <2>3, <2>4
  <1>19. scanState'[t] = 1 /\ events' \in Seq(Events)
         /\ \A u \in Units : scanState'[u] = 0 => scanState[u] = 0
    BY <1>1 DEF ReplayInv
  <1> QED
    BY <1>1, <1>2, <1>3, <1>7, <1>9, <1>13, <1>14, <1>16, <1>17, <1>18, <1>19, ReplayStep

LEMMA ReadLineReplay ==
  ASSUME OrderInv, OrderInv', ReplayInv, ReadLine
  PROVE  ReplayInv' /\ OthersKept(Top.unit)
  <1>1. frames # <<>> /\ Top.include = None /\ Top.unit \in Units /\ scanState[Top.unit] = 1
    BY TopFacts DEF ReadLine, Reading
  <1>2. PICK line \in ActiveLines : ScanLine(line)
    BY DEF ReadLine, NextLines, InactiveLines
  <1>3. ASSUME Reads(line), UNCHANGED <<scanState, env, events, dependencies, frames>>
        PROVE  ReplayInv' /\ OthersKept(Top.unit)
    BY <1>1, <1>3, PlainReplay
  <1>4. CASE ScanConditional(line)
    BY <1>3, <1>4 DEF ScanConditional
  <1>5. CASE ScanText(line)
    BY <1>3, <1>5 DEF ScanText
  <1>6. CASE ScanDefine(line)
    <2>1. PICK x \in Macros, b \in Bodies : x = line.arg /\ b = line.body
      BY <1>6, LineTypes DEF ScanDefine
    <2>2. b \in Bodies \cup {None}
      OBVIOUS
    <2>3. /\ ~Conflicts(env[Top.unit], x, b) /\ ~EnvFull(env[Top.unit], x)
          /\ env' = [env EXCEPT ![Top.unit][x] = b]
          /\ events' = Append(events, Event(Top.unit, Here, x, b))
          /\ Reads(line) /\ UNCHANGED <<scanState, frames, dependencies>>
      BY <1>6, <2>1 DEF ScanDefine
    <2> QED
      BY <1>1, <2>2, <2>3, EventReplay
  <1>7. CASE ScanUndef(line)
    <2>1. PICK x \in Macros : x = line.arg
      BY <1>7, LineTypes DEF ScanUndef
    <2>2. PICK b \in Bodies \cup {None} : b = None
      OBVIOUS
    <2>3. /\ env' = [env EXCEPT ![Top.unit][x] = b]
          /\ events' = Append(events, Event(Top.unit, Here, x, b))
          /\ Reads(line) /\ UNCHANGED <<scanState, frames, dependencies>>
      BY <1>7, <2>1, <2>2 DEF ScanUndef
    <2> QED
      BY <1>1, <2>2, <2>3, EventReplay
  <1>8. CASE ScanError(line)
    BY <1>8, StutterReplay DEF ScanError, Fail, scanVars
  <1>9. CASE ScanInclude(line)
    <2> DEFINE waiting == [frames EXCEPT ![Len(frames)].include = line.arg]
    <2>1. PICK h \in Headers : h = line.arg /\ h \in Units /\ h \in Headers \cup {None}
      BY <1>9 DEF ScanInclude, Includable, Units
    <2>2. /\ waiting \in Seq(FrameType) /\ Len(waiting) = Len(frames)
          /\ DOMAIN waiting = DOMAIN frames
          /\ \A k \in DOMAIN frames :
               /\ waiting[k].unit = frames[k].unit
               /\ waiting[k].include = IF k = Len(frames) THEN h ELSE frames[k].include
      <3>1. waiting = [frames EXCEPT ![Len(frames)].include = h]
        BY <2>1
      <3> HIDE DEF waiting
      <3> QED
        <4>1. h \in Headers \cup {None} /\ frames # <<>>
          BY <2>1, <1>1
        <4> QED
          BY ONLY <4>1, <3>1, OrderInv, SetInclude, Zenon
    <2>3. /\ Len(frames) \in DOMAIN frames /\ Top = frames[Len(frames)]
      BY <1>1, TopFacts
    <2> HIDE DEF waiting
    <2>4. \A u \in Units \ {Top.unit} : Awaiting(waiting, u) <=> Awaiting(frames, u)
      BY <2>2, <2>3 DEF Awaiting
    <2>5. /\ Reads(line) /\ UNCHANGED <<events, dependencies>>
      BY <1>9 DEF ScanInclude
    <2>6. CASE /\ scanState[h] = 0
               /\ scanState' = [scanState EXCEPT ![h] = 1]
               /\ env' = [env EXCEPT ![h] = NoMacros]
               /\ frames' = Append(waiting, Frame(h))
      <3>1. env' = env
        BY <2>1, <2>6, Untouched
      <3>2. h # Top.unit /\ scanState'[Top.unit] = 1
            /\ \A u \in Units : scanState'[u] = 0 => scanState[u] = 0
        BY <2>1, <2>6, <1>1 DEF OrderInv, Shape
      <3>3. \A u \in Units : Awaiting(frames', u) <=> Awaiting(waiting, u)
        <4>1. Frame(h) \in FrameType /\ Frame(h).include = None
          BY <2>1 DEF Frame, FrameType
        <4>2. PICK n \in Nat : n = Len(waiting)
          BY <2>2, LenProperties
        <4>3. /\ frames' \in Seq(FrameType) /\ Len(frames') = n + 1
              /\ \A k \in 1..n : frames'[k] = waiting[k]
              /\ frames'[n + 1] = Frame(h)
          BY <2>2, <2>6, <4>1, <4>2, AppendProperties
        <4>4. DOMAIN waiting = 1..n /\ DOMAIN frames' = 1..(n + 1)
          BY <2>2, <4>2, <4>3, LenProperties
        <4> QED
          BY <4>1, <4>3, <4>4 DEF Awaiting
      <3> QED
        BY <1>1, <2>4, <2>5, <3>1, <3>2, <3>3, PlainReplay
    <2>7. CASE /\ scanState[h] # 0 /\ frames' = waiting /\ UNCHANGED <<scanState, env>>
      BY <1>1, <2>4, <2>5, <2>7, PlainReplay
    <2> QED
      BY <1>9, <2>1, <2>6, <2>7 DEF ScanInclude, waiting
  <1> QED
    BY <1>2, <1>4, <1>5, <1>6, <1>7, <1>8, <1>9 DEF ScanLine

\* A file is entered from outside, or read to its end: the tables stay.
LEMMA SameTables ==
  ASSUME ReplayInv, UNCHANGED <<source, env, events, dependencies>>,
         \A u \in Units : scanState'[u] = 0 => scanState[u] = 0,
         \A u \in Units : Awaiting(frames', u) <=> Awaiting(frames, u)
  PROVE  ReplayInv'
  <1>1. Lengths' = Lengths
    BY DEF Lengths
  <1>2. \A u \in Units :
          Import(dependencies, events, u, NoMacros)' = Import(dependencies, events, u, NoMacros)
    BY <1>1 DEF Import, Effects
  <1>3. \A u \in Units : Known(u)' = Known(u)
    BY DEF Known
  <1>4. (\A u \in Units : Import(dependencies, events, u, NoMacros) = Unimpeded(env[u]))'
    BY <1>2 DEF ReplayInv
  <1>5. (\A u \in Units : /\ Known(u) \in Nat
                          /\ RowsWithin(dependencies, u, Known(u))
                          /\ RowsWithin(events, u, Known(u)))'
    BY <1>3 DEF ReplayInv
  <1>6. (\A u \in Units : scanState[u] = 0 => source[u] = <<>>)'
    BY DEF ReplayInv
  <1> QED
    BY <1>4, <1>5, <1>6 DEF ReplayInv

LEMMA PopAwaits ==
  ASSUME OrderInv, frames # <<>>, Top.include = None, frames' = Front(frames)
  PROVE  \A u : Awaiting(frames', u) <=> Awaiting(frames, u)
  <1>1. PICK n \in Nat : n = Len(frames) /\ DOMAIN frames = 1..n /\ n \in DOMAIN frames
    BY TopFacts, Elements DEF OrderInv
  <1>2. DOMAIN frames' = 1..(n - 1) /\ \A k \in 1..(n - 1) : frames'[k] = frames[k]
    BY <1>1, LastFront DEF OrderInv, Shape
  <1>3. frames[n].include = None
    BY <1>1, TopFacts
  <1>4. \A k \in 1..n : k \in 1..(n - 1) \/ k = n
    OBVIOUS
  <1>5. \A k \in 1..(n - 1) : k \in 1..n
    OBVIOUS
  <1> QED
    BY <1>1, <1>2, <1>3, <1>4, <1>5 DEF Awaiting

LEMMA NextReplay ==
  ASSUME OrderInv, OrderInv', ReplayInv, [Next]_vars
  PROVE  ReplayInv'
  <1>0. ASSUME UNCHANGED scanVars
        PROVE  ReplayInv'
    BY <1>0, StutterReplay DEF scanVars
  <1>1. ASSUME NEW u \in Sources, ScanSource(u)
        PROVE  ReplayInv'
    <2>1. /\ u \in Units /\ scanState[u] = 0 /\ frames = <<>>
          /\ scanState' = [scanState EXCEPT ![u] = 1]
          /\ env' = [env EXCEPT ![u] = NoMacros]
          /\ frames' = <<Frame(u)>> /\ UNCHANGED <<source, events, dependencies>>
      BY <1>1 DEF ScanSource, Units
    <2>2. env' = env
      BY <2>1, Untouched
    <2>3. \A v \in Units : scanState'[v] = 0 => scanState[v] = 0
      BY <2>1 DEF OrderInv, Shape
    <2>4. \A v \in Units : ~Awaiting(frames', v) /\ ~Awaiting(frames, v)
      BY <2>1 DEF Awaiting, Frame
    <2> QED
      BY <2>1, <2>2, <2>3, <2>4, SameTables
  <1>2. ASSUME NEW u \in Sources, ParseSource(u)
        PROVE  ReplayInv'
    BY <1>0, <1>2 DEF ParseSource
  <1>3. CASE ReadLine
    BY <1>3, ReadLineReplay
  <1>4. CASE StoreDependency
    <2>1. Top.include # None /\ frames # <<>>
      BY <1>4 DEF StoreDependency, Returned
    <2>2. CASE UNCHANGED scanVars
      BY <2>2, <1>0
    <2>3. CASE /\ dependencies' = Append(dependencies, Row)
               /\ Import(dependencies', events, Top.include, env[Top.unit]).status = "OK"
               /\ env' = [env EXCEPT ![Top.unit] =
                            Import(dependencies', events, Top.include, env[Top.unit]).macros]
               /\ frames' = [frames EXCEPT ![Len(frames)].include = None]
               /\ UNCHANGED <<source, scanState, events>>
      <3>1. PICK imported : imported = Import(dependencies', events, Top.include, env[Top.unit])
        OBVIOUS
      <3> QED
        BY <2>1, <2>3, <3>1, StoreReplay
    <2> QED
      BY <1>4, <2>2, <2>3 DEF StoreDependency, Fail
  <1>5. CASE StoreBehindTable
    BY <1>0, <1>5 DEF StoreBehindTable
  <1>6. CASE EndOfFile
    <2>1. /\ frames # <<>> /\ Top.include = None /\ frames' = Front(frames)
          /\ scanState' = [scanState EXCEPT ![Top.unit] = 2]
          /\ UNCHANGED <<source, env, events, dependencies>>
      BY <1>6 DEF EndOfFile, Reading
    <2>2. \A u : Awaiting(frames', u) <=> Awaiting(frames, u)
      BY <2>1, PopAwaits
    <2>3. \A u \in Units : scanState'[u] = 0 => scanState[u] = 0
      BY <2>1 DEF OrderInv, Shape
    <2> QED
      BY <2>1, <2>2, <2>3, SameTables
  <1>7. CASE Unterminated
    BY <1>0, <1>7 DEF Unterminated, Fail
  <1>8. CASE ScanDone
    BY <1>0, <1>8 DEF ScanDone
  <1>9. CASE ParseDependency
    BY <1>0, <1>9 DEF ParseDependency
  <1>10. CASE ParseUnit
    BY <1>0, <1>10 DEF ParseUnit
  <1>11. CASE ParseDone
    BY <1>0, <1>11 DEF ParseDone
  <1>12. CASE UNCHANGED vars
    BY <1>0, <1>12 DEF vars
  <1> QED
    BY <1>1, <1>2, <1>3, <1>4, <1>5, <1>6, <1>7, <1>8, <1>9, <1>10, <1>11, <1>12
    DEF Next, Ended

-----------------------------------------------------------------------------
(* The second pass over the lines the scan has dealt with.                   *)

\* f is what nc_pp_make_source has after each of the first n lines.
MakeRun(f, g, lines, n) ==
  /\ DOMAIN f = 0..n /\ f[0] = Unmade(NoMacros)
  /\ \A i \in 1..n : f[i] = MakeLine(g, f[i - 1], lines[i])
  /\ \A i \in 0..n : f[i].macros \in Envs

Made(g, lines, n, x) == \E f : MakeRun(f, g, lines, n) /\ f[n] = x

\* The same lines, and the same effects of the headers they include.
SameSoFar(g, g2, lines, lines2, n) ==
  \A i \in 1..n :
    /\ lines2[i] = lines[i] /\ lines[i].kind \in LineKinds
    /\ lines[i].kind = "include" =>
         \A r \in Results : g[lines[i].arg][r] = g2[lines[i].arg][r]

\* What it has after n lines, with nothing to report.
Making(m, st, n, tx) ==
  [macros |-> m, stack |-> st, line |-> n, text |-> tx, status |-> "OK"]

Scanned(u) == Making(env[u], conditional[u], Known(u), seen[u])

\* The headers a file has included in its first n lines are scanned.
IncludesScanned(states, lines, n) ==
  \A i \in 1..n : lines[i].kind = "include" =>
    lines[i].arg \in Units /\ states[lines[i].arg] = 2

\* No include of a known line waits, so that its effects are in the tables.
MakesWhatWasScanned(u) ==
  /\ Made(Effects(dependencies, events), source[u], Known(u), Scanned(u))
  /\ IncludesScanned(scanState, source[u], Known(u))

\* A file that waits for a header stands in an active region, at an #include.
WaitsAtInclude(k) ==
  LET u == frames[k].unit
  IN  /\ source[u] # <<>>
      /\ source[u][Len(source[u])].kind = "include"
      /\ source[u][Len(source[u])].arg = frames[k].include
      /\ Active(conditional[u])

IsOpen(u) == \E k \in DOMAIN frames : frames[k].unit = u

\* The second pass over the lines the scan has dealt with would arrive at the
\* scan's own macros, open groups and text.
PassInv ==
  /\ conditional \in [Units -> Seq(Conditionals)]
  /\ \A u \in Units : Len(conditional[u]) <= MaxConditionalDepth
  /\ seen \in [Units -> Seq([line : Nat, macros : Envs])]
  /\ \A u \in Units : MakesWhatWasScanned(u)
  /\ \A k \in DOMAIN frames : frames[k].include # None => WaitsAtInclude(k)
  /\ \A u \in Units : conditional[u] # <<>> => IsOpen(u)

\* The second pass looks at the effects of a header at its #include only.
LEMMA SameMakeLine ==
  ASSUME NEW g, NEW g2, NEW x, NEW line, line.kind \in LineKinds,
         line.kind = "include" =>
           g[line.arg][Unimpeded(x.macros)] = g2[line.arg][Unimpeded(x.macros)]
  PROVE  MakeLine(g, x, line) = MakeLine(g2, x, line)
  <1>1. CASE line.kind = "include"
    BY <1>1, Zenon DEF MakeLine
  <1>2. CASE line.kind # "include"
    <2>1. CASE x.status # "OK"
      BY <2>1 DEF MakeLine
    <2>2. CASE x.status = "OK" /\ line.kind \in ConditionalKinds
      BY <2>2 DEF MakeLine
    <2>3. CASE x.status = "OK" /\ line.kind \notin ConditionalKinds /\ ~Active(x.stack)
      BY <2>3 DEF MakeLine
    <2>4. CASE x.status = "OK" /\ line.kind \notin ConditionalKinds /\ Active(x.stack)
      <3>1. line.kind \in {"define", "undef", "text", "bad"}
        BY <2>4, <1>2 DEF LineKinds
      <3> QED
        BY <2>4, <3>1 DEF MakeLine
    <2> QED
      BY <2>1, <2>2, <2>3, <2>4
  <1> QED
    BY <1>1, <1>2

\* A made text, one more line.
LEMMA MakeExtends ==
  ASSUME NEW g, NEW lines, NEW n \in Nat, NEW y, Made(g, lines, n, y),
         NEW x, x.macros \in Envs, x = MakeLine(g, y, lines[n + 1])
  PROVE  Made(g, lines, n + 1, x)
  <1>0. PICK f : MakeRun(f, g, lines, n) /\ f[n] = y
    BY DEF Made
  <1> DEFINE h == [i \in 0..(n + 1) |-> IF i = n + 1 THEN x ELSE f[i]]
  <1>1. DOMAIN h = 0..(n + 1) /\ h[n + 1] = x /\ \A i \in 0..n : h[i] = f[i]
    OBVIOUS
  <1> HIDE DEF h
  <1>2. ASSUME NEW i \in 1..(n + 1)
        PROVE  h[i] = MakeLine(g, h[i - 1], lines[i])
    <2>1. CASE i = n + 1
      <3>1. i - 1 = n /\ n \in 0..n
        BY <2>1
      <3> QED
        BY <2>1, <3>1, <1>0, <1>1
    <2>2. CASE i # n + 1
      <3>1. i \in 1..n /\ i \in 0..n /\ i - 1 \in 0..n
        BY <2>2
      <3>2. h[i] = f[i] /\ h[i - 1] = f[i - 1]
        BY <3>1, <1>1
      <3> QED
        BY <3>1, <3>2, <1>0 DEF MakeRun
    <2> QED
      BY <2>1, <2>2
  <1>3. \A i \in 0..(n + 1) : h[i].macros \in Envs
    <2> SUFFICES ASSUME NEW i \in 0..(n + 1)
                 PROVE  h[i].macros \in Envs
      OBVIOUS
    <2>1. i = n + 1 \/ i \in 0..n
      OBVIOUS
    <2> QED
      BY <2>1, <1>0, <1>1 DEF MakeRun
  <1>4. h[0] = Unmade(NoMacros)
    BY <1>0, <1>1 DEF MakeRun
  <1>5. MakeRun(h, g, lines, n + 1)
    BY <1>1, <1>2, <1>3, <1>4 DEF MakeRun
  <1> QED
    BY <1>1, <1>5 DEF Made

\* The same lines, made with effects that agree on the headers they include.
LEMMA MakeSame ==
  ASSUME NEW g, NEW g2, NEW lines, NEW lines2, NEW n \in Nat, NEW y,
         Made(g, lines, n, y), SameSoFar(g, g2, lines, lines2, n)
  PROVE  Made(g2, lines2, n, y)
  <1>0. PICK f : MakeRun(f, g, lines, n) /\ f[n] = y
    BY DEF Made
  <1>1. ASSUME NEW i \in 1..n
        PROVE  f[i] = MakeLine(g2, f[i - 1], lines2[i])
    <2>1. i - 1 \in 0..n
      OBVIOUS
    <2>2. PICK x, line : /\ x = f[i - 1] /\ x.macros \in Envs
                         /\ line = lines[i] /\ line = lines2[i] /\ line.kind \in LineKinds
                         /\ f[i] = MakeLine(g, x, line)
      BY <2>1, <1>0 DEF MakeRun, SameSoFar
    <2>3. Unimpeded(x.macros) \in Results
      BY <2>2, UnimpededType
    <2>4. line.kind = "include" =>
            g[line.arg][Unimpeded(x.macros)] = g2[line.arg][Unimpeded(x.macros)]
      BY <2>2, <2>3 DEF SameSoFar
    <2>5. MakeLine(g, x, line) = MakeLine(g2, x, line)
      BY <2>2, <2>4, SameMakeLine
    <2> QED
      BY <2>2, <2>5
  <1> QED
    BY <1>0, <1>1 DEF MakeRun, Made

LEMMA MakeLinesIs ==
  ASSUME NEW f, NEW g, NEW lines, NEW n \in Nat, n = Len(lines), MakeRun(f, g, lines, n)
  PROVE  MakeLines(g, lines, NoMacros) = f[n]
  <1> DEFINE Is(F) == F = [i \in 0..Len(lines) |->
                             IF i = 0 THEN Unmade(NoMacros) ELSE MakeLine(g, F[i - 1], lines[i])]
             U == CHOOSE F : Is(F)
             T == {i \in 0..n : U[i] = f[i]}
  <1>1. /\ DOMAIN f = 0..n /\ f[0] = Unmade(NoMacros)
        /\ \A i \in 1..n : f[i] = MakeLine(g, f[i - 1], lines[i])
    BY DEF MakeRun
  <1>2. f = [i \in 0..n |-> IF i = 0 THEN Unmade(NoMacros) ELSE MakeLine(g, f[i - 1], lines[i])]
    <2> DEFINE h == [i \in 0..n |-> IF i = 0 THEN Unmade(NoMacros)
                                    ELSE MakeLine(g, f[i - 1], lines[i])]
    <2>1. \A i \in 0..n : h[i] = f[i]
      BY <1>1
    <2>2. f = [i \in 0..n |-> f[i]]
      BY <1>1
    <2> QED
      BY <2>1, <2>2
  <1>3. Is(f)
    BY <1>2
  <1>4. Is(U)
    <2> HIDE DEF Is
    <2> QED
      BY <1>3
  <1>5. MakeLines(g, lines, NoMacros) = U[n]
    BY Zenon DEF MakeLines
  <1>6. 0 \in T
    <2> HIDE DEF U
    <2> QED
      BY <1>1, <1>4
  <1>7. ASSUME NEW i \in 1..n, i - 1 \in T
        PROVE  i \in T
    <2> HIDE DEF U
    <2>1. U[i] = MakeLine(g, U[i - 1], lines[i])
      BY <1>4
    <2>2. U[i - 1] = f[i - 1]
      BY <1>7
    <2> QED
      BY <2>1, <2>2, <1>1
  <1>8. \A i \in 0..n : i \in T
    <2> HIDE DEF T
    <2> QED
      BY <1>6, <1>7, Counting
  <1>9. n \in 0..n
    OBVIOUS
  <1> QED
    BY <1>5, <1>8, <1>9

\* What was made of every file so far is made of it after a step about file t.
LEMMA RunsKept ==
  ASSUME OrderInv, ReplayInv, PassInv, NEW t \in Units, scanState[t] = 1, OthersKept(t),
         \A u \in Units : scanState[u] = 2 => scanState'[u] = 2,
         \A i \in 1..Known(t) : source'[t][i] = source[t][i]
  PROVE  \A u \in Units :
           /\ Made(Effects(dependencies, events)', source'[u], Known(u), Scanned(u))
           /\ IncludesScanned(scanState', source'[u], Known(u))
  <1> SUFFICES ASSUME NEW u \in Units
               PROVE  /\ Made(Effects(dependencies, events)', source'[u], Known(u), Scanned(u))
                      /\ IncludesScanned(scanState', source'[u], Known(u))
    OBVIOUS
  <1>0. PICK n \in Nat : n = Known(u)
    BY DEF ReplayInv
  <1>1. PICK g, g2, y, lines, lines2 :
          /\ n = Known(u) /\ y = Scanned(u) /\ lines = source[u] /\ lines2 = source'[u]
          /\ g = Effects(dependencies, events) /\ g2 = Effects(dependencies, events)'
    BY <1>0
  <1>2. Made(g, lines, n, y) /\ IncludesScanned(scanState, lines, n)
    BY <1>1 DEF PassInv, MakesWhatWasScanned
  <1>3. \A i \in 1..n : lines2[i] = lines[i]
    BY <1>1 DEF OthersKept
  <1>4. \A i \in 1..n : lines[i] \in ActiveLines
    <2>1. lines \in Seq(ActiveLines)
      BY <1>1 DEF OrderInv, Shape
    <2>2. PICK m \in Nat : m = Len(lines) /\ n <= m
      BY <2>1, <1>1, LenProperties DEF Known
    <2>3. \A i \in 1..n : i \in 1..m
      BY <2>2
    <2> QED
      BY <2>1, <2>2, <2>3, ElementOfSeq
  <1>5. \A i \in 1..n : lines[i].kind \in LineKinds
    BY <1>4, LineTypes
  <1>6. ASSUME NEW i \in 1..n, lines[i].kind = "include"
        PROVE  /\ lines[i].arg \in Units /\ scanState'[lines[i].arg] = 2
               /\ \A r \in Results : g[lines[i].arg][r] = g2[lines[i].arg][r]
    <2>1. PICK h \in Units : h = lines[i].arg /\ scanState[h] = 2
      BY <1>2, <1>6 DEF IncludesScanned
    <2>2. h \in Units \ {t}
      BY <2>1
    <2> QED
      BY <2>1, <2>2, <1>1 DEF OthersKept
  <1>7. SameSoFar(g, g2, lines, lines2, n)
    BY <1>3, <1>5, <1>6 DEF SameSoFar
  <1>8. Made(g2, lines2, n, y)
    BY <1>2, <1>7, MakeSame
  <1>9. IncludesScanned(scanState', lines2, n)
    BY <1>3, <1>6 DEF IncludesScanned
  <1> QED
    BY <1>1, <1>8, <1>9

\* The second pass takes the step the scan took over the line.
Follows(t, line) ==
  /\ Scanned(t)' = MakeLine(Effects(dependencies, events)', Scanned(t), line)
  /\ line.kind = "include" => line.arg \in Units /\ scanState'[line.arg] = 2

LEMMA RunStep ==
  ASSUME OrderInv, ReplayInv, PassInv, NEW t \in Units, scanState[t] = 1, OthersKept(t),
         \A u \in Units : scanState[u] = 2 => scanState'[u] = 2,
         \A i \in 1..Known(t) : source'[t][i] = source[t][i],
         \A u \in Units \ {t} : conditional'[u] = conditional[u] /\ seen'[u] = seen[u],
         env'[t] \in Envs,
         \/ Known(t)' = Known(t) /\ Scanned(t)' = Scanned(t)
         \/ Known(t)' = Known(t) + 1 /\ Follows(t, source'[t][Known(t) + 1])
  PROVE  \A u \in Units : MakesWhatWasScanned(u)'
  <1>1. \A u \in Units :
           /\ Made(Effects(dependencies, events)', source'[u], Known(u), Scanned(u))
           /\ IncludesScanned(scanState', source'[u], Known(u))
    BY RunsKept
  <1>2. ASSUME NEW u \in Units, Known(u)' = Known(u), Scanned(u)' = Scanned(u)
        PROVE  MakesWhatWasScanned(u)'
    BY <1>1, <1>2 DEF MakesWhatWasScanned
  <1>3. ASSUME NEW u \in Units \ {t}
        PROVE  MakesWhatWasScanned(u)'
    <2>1. Known(u)' = Known(u) /\ Scanned(u)' = Scanned(u)
      BY DEF OthersKept, Scanned
    <2> QED
      BY <2>1, <1>2
  <1>4. MakesWhatWasScanned(t)'
    <2>1. CASE Known(t)' = Known(t) /\ Scanned(t)' = Scanned(t)
      BY <2>1, <1>2
    <2>2. CASE Known(t)' = Known(t) + 1 /\ Follows(t, source'[t][Known(t) + 1])
      <3>0. PICK n \in Nat : n = Known(t)
        BY DEF ReplayInv
      <3>1. PICK g2, y, x, lines2 :
              /\ n = Known(t) /\ y = Scanned(t) /\ x = Scanned(t)' /\ lines2 = source'[t]
              /\ g2 = Effects(dependencies, events)'
        BY <3>0
      <3>2. Made(g2, lines2, n, y) /\ IncludesScanned(scanState', lines2, n)
        BY <1>1, <3>1
      <3>3. x = MakeLine(g2, y, lines2[n + 1])
            /\ (lines2[n + 1].kind = "include" =>
                  lines2[n + 1].arg \in Units /\ scanState'[lines2[n + 1].arg] = 2)
        BY <2>2, <3>1 DEF Follows
      <3>4. x.macros \in Envs
        BY <3>1 DEF Scanned, Making
      <3>5. Made(g2, lines2, n + 1, x)
        BY <3>2, <3>3, <3>4, MakeExtends
      <3>6. IncludesScanned(scanState', lines2, n + 1)
        <4>1. \A i \in 1..(n + 1) : i \in 1..n \/ i = n + 1
          OBVIOUS
        <4> QED
          BY <4>1, <3>2, <3>3 DEF IncludesScanned
      <3> QED
        BY <2>2, <3>1, <3>5, <3>6 DEF MakesWhatWasScanned
    <2> QED
      BY <2>1, <2>2
  <1> QED
    BY <1>3, <1>4

\* The tables and the texts stay, and no file is forgotten.
LEMMA RunsStay ==
  ASSUME PassInv, UNCHANGED <<source, env, events, dependencies, conditional, seen>>,
         \A u \in Units : scanState[u] = 2 => scanState'[u] = 2,
         \A u \in Units : Awaiting(frames', u) <=> Awaiting(frames, u)
  PROVE  \A u \in Units : MakesWhatWasScanned(u)'
  <1> SUFFICES ASSUME NEW u \in Units
               PROVE  MakesWhatWasScanned(u)'
    OBVIOUS
  <1>1. Known(u)' = Known(u)
    BY DEF Known
  <1>2. Scanned(u)' = Scanned(u)
    BY <1>1 DEF Scanned
  <1>3. Effects(dependencies, events)' = Effects(dependencies, events)
    BY DEF Effects, Lengths
  <1>4. /\ Made(Effects(dependencies, events), source[u], Known(u), Scanned(u))
        /\ IncludesScanned(scanState, source[u], Known(u))
    BY DEF PassInv, MakesWhatWasScanned
  <1>5. IncludesScanned(scanState', source[u], Known(u))
    BY <1>4 DEF IncludesScanned
  <1> QED
    BY <1>1, <1>2, <1>3, <1>4, <1>5 DEF MakesWhatWasScanned

-----------------------------------------------------------------------------
(* One line in the second pass, by what it is.                               *)

Changed(m, x, b) == [m EXCEPT ![x] = b]
Noted(tx, n, m) == Append(tx, [line |-> n, macros |-> m])

LEMMA MakeConditional ==
  ASSUME NEW g, NEW m, NEW st, NEW n \in Nat, NEW tx, NEW line,
         line.kind \in ConditionalKinds, ~Refused(st, line)
  PROVE  MakeLine(g, Making(m, st, n, tx), line)
           = Making(m, AfterConditional(m, st, line), n + 1, tx)
  <1>0. PICK x : x = Making(m, st, n, tx)
    OBVIOUS
  <1>1. /\ x = Making(m, st, n, tx)
        /\ x.macros = m /\ x.stack = st /\ x.line = n /\ x.text = tx /\ x.status = "OK"
    BY <1>0 DEF Making
  <1>2. PICK a : a = AfterConditional(m, st, line)
    OBVIOUS
  <1>3. MakeLine(g, x, line) = [[x EXCEPT !.line = @ + 1] EXCEPT !.stack = a]
    BY <1>1, <1>2 DEF MakeLine, Making
  <1> QED
    BY <1>1, <1>2, <1>3 DEF Making

LEMMA MakePassed ==
  ASSUME NEW g, NEW m, NEW st, NEW n \in Nat, NEW tx, NEW line,
         line.kind \notin ConditionalKinds, ~Active(st)
  PROVE  MakeLine(g, Making(m, st, n, tx), line) = Making(m, st, n + 1, tx)
  BY DEF MakeLine, Making

LEMMA MakeText ==
  ASSUME NEW g, NEW m, NEW st, NEW n \in Nat, NEW tx, NEW line,
         line.kind = "text", Active(st),
         NEW tx2, tx2 = Noted(tx, n + 1, m)
  PROVE  MakeLine(g, Making(m, st, n, tx), line) = Making(m, st, n + 1, tx2)
  <1>1. line.kind \notin ConditionalKinds
    BY DEF ConditionalKinds, Opening
  <1> QED
    BY <1>1 DEF MakeLine, Making, Changed, Noted

LEMMA MakeDefine ==
  ASSUME NEW g, NEW m, NEW st, NEW n \in Nat, NEW tx, NEW line,
         line.kind = "define", Active(st),
         ~Conflicts(m, line.arg, line.body), ~EnvFull(m, line.arg),
         NEW m2, m2 = Changed(m, line.arg, line.body)
  PROVE  MakeLine(g, Making(m, st, n, tx), line) = Making(m2, st, n + 1, tx)
  <1>1. line.kind \notin ConditionalKinds
    BY DEF ConditionalKinds, Opening
  <1> QED
    BY <1>1 DEF MakeLine, Making, Changed, Noted

LEMMA MakeUndef ==
  ASSUME NEW g, NEW m, NEW st, NEW n \in Nat, NEW tx, NEW line,
         line.kind = "undef", Active(st),
         NEW m2, m2 = Changed(m, line.arg, None)
  PROVE  MakeLine(g, Making(m, st, n, tx), line) = Making(m2, st, n + 1, tx)
  <1>1. line.kind \notin ConditionalKinds
    BY DEF ConditionalKinds, Opening
  <1> QED
    BY <1>1 DEF MakeLine, Making, Changed, Noted

LEMMA MakeInclude ==
  ASSUME NEW g, NEW m, NEW st, NEW n \in Nat, NEW tx, NEW line,
         line.kind = "include", Active(st),
         NEW m2, g[line.arg][Unimpeded(m)] = Unimpeded(m2)
  PROVE  MakeLine(g, Making(m, st, n, tx), line) = Making(m2, st, n + 1, tx)
  <1>1. line.kind \notin ConditionalKinds
    BY DEF ConditionalKinds, Opening
  <1>2. PICK e : e = g[line.arg][Unimpeded(m)] /\ e.macros = m2 /\ e.status = "OK"
    BY DEF Unimpeded
  <1> QED
    BY <1>1, <1>2 DEF MakeLine, Making

\* The conditional stack stays within its array.
LEMMA AfterConditionalType ==
  ASSUME NEW st \in Seq(Conditionals), Len(st) <= MaxConditionalDepth, NEW m,
         NEW line, line.kind \in ConditionalKinds, ~Refused(st, line)
  PROVE  /\ AfterConditional(m, st, line) \in Seq(Conditionals)
         /\ Len(AfterConditional(m, st, line)) <= MaxConditionalDepth
  <1>0. Len(st) \in Nat /\ MaxConditionalDepth \in Nat
    BY LenProperties, CapacityAssumption
  <1>1. CASE line.kind \in Opening
    <2>1. AfterConditional(m, st, line) = Opened(m, st, line)
      BY <1>1 DEF AfterConditional, Opening
    <2>2. PICK a \in BOOLEAN, c \in BOOLEAN :
            a = Active(st) /\ c = (Active(st) /\ Holds(m, line))
      <3>1. (Active(st) /\ Holds(m, line)) \in BOOLEAN
        OBVIOUS
      <3>2. Active(st) \in BOOLEAN
        BY DEF Active
      <3> QED
        BY <3>1, <3>2
    <2>3. PICK e \in Conditionals :
            e = [parentActive |-> a, active |-> c, branchTaken |-> c, sawElse |-> FALSE]
      BY DEF Conditionals
    <2>4. Opened(m, st, line) = Append(st, e)
      BY <2>2, <2>3 DEF Opened
    <2>5. Append(st, e) \in Seq(Conditionals) /\ Len(Append(st, e)) = Len(st) + 1
      BY <2>3, AppendProperties
    <2>6. Len(st) < MaxConditionalDepth
      BY <1>0, <1>1 DEF Refused
    <2> QED
      BY <1>0, <2>1, <2>4, <2>5, <2>6
  <1>2. CASE line.kind \in {"else", "endif"}
    <2>1. st # <<>>
      BY <1>2 DEF Refused
    <2>2. /\ Last(st) \in Conditionals /\ Front(st) \in Seq(Conditionals)
          /\ Len(Front(st)) = Len(st) - 1
      BY <2>1, LastFront
    <2>3. CASE line.kind = "else"
      <3>1. AfterConditional(m, st, line) = Flipped(st)
        BY <2>3 DEF AfterConditional, Opening
      <3>2. PICK top \in Conditionals : top = Last(st)
        BY <2>2
      <3>3. PICK c \in BOOLEAN : c = (top.parentActive /\ ~top.branchTaken)
        OBVIOUS
      <3>4. PICK e \in Conditionals :
              e = [top EXCEPT !.active = c, !.branchTaken = TRUE, !.sawElse = TRUE]
        BY DEF Conditionals
      <3>5. Flipped(st) = Append(Front(st), e)
        BY <3>2, <3>3, <3>4 DEF Flipped
      <3>6. /\ Append(Front(st), e) \in Seq(Conditionals)
            /\ Len(Append(Front(st), e)) = Len(Front(st)) + 1
        BY <2>2, AppendProperties
      <3> QED
        BY <1>0, <2>2, <3>1, <3>5, <3>6
    <2>4. CASE line.kind = "endif"
      <3>1. AfterConditional(m, st, line) = Front(st)
        BY <2>4 DEF AfterConditional, Opening
      <3> QED
        BY <1>0, <2>2, <3>1
    <2> QED
      BY <1>2, <2>3, <2>4
  <1> QED
    BY <1>1, <1>2 DEF ConditionalKinds

\* Another line of the file on top is read, and it does not wait for a header.
LEMMA ReadPass ==
  ASSUME OrderInv, OrderInv', ReplayInv, ReplayInv', PassInv, frames # <<>>, Top.include = None,
         NEW t, t = Top.unit, OthersKept(t),
         NEW line \in ActiveLines, Reads(line), line.kind # "include",
         UNCHANGED <<scanState, frames>>,
         conditional' \in [Units -> Seq(Conditionals)],
         Len(conditional'[t]) <= MaxConditionalDepth,
         seen' \in [Units -> Seq([line : Nat, macros : Envs])],
         \A u \in Units \ {t} : conditional'[u] = conditional[u] /\ seen'[u] = seen[u],
         Making(env'[t], conditional'[t], Len(source[t]) + 1, seen'[t])
           = MakeLine(Effects(dependencies, events)',
                      Making(env[t], conditional[t], Len(source[t]), seen[t]), line)
  PROVE  PassInv'
  <1>1. t \in Units /\ scanState[t] = 1
    BY TopFacts
  <1>2. PICK n \in Nat : n = Len(source[t]) /\ n = Known(t)
    <2>1. ~Awaiting(frames, t)
      BY ReadingTop
    <2> QED
      BY <1>1, <2>1 DEF ReplayInv, Known
  <1>3. /\ Len(source'[t]) = n + 1 /\ source'[t] = Append(source[t], line)
        /\ \A u \in Units \ {t} : source'[u] = source[u]
    BY <1>1, <1>2, ReadsLine DEF Reads
  <1>4. Known(t)' = n + 1
    <2>1. ~Awaiting(frames', t)
      BY ReadingTop
    <2> QED
      BY <2>1, <1>3 DEF Known
  <1>5. source'[t][n + 1] = line /\ \A i \in 1..n : source'[t][i] = source[t][i]
    <2>1. source[t] \in Seq(ActiveLines)
      BY <1>1 DEF OrderInv, Shape
    <2> QED
      BY <2>1, <1>2, <1>3, AppendProperties
  <1>6. \A u \in Units : MakesWhatWasScanned(u)'
    <2>1. Follows(t, source'[t][n + 1])
      BY <1>2, <1>4, <1>5 DEF Follows, Scanned
    <2>2. Known(t)' = Known(t) + 1 /\ Follows(t, source'[t][Known(t) + 1])
      BY <1>2, <1>4, <2>1
    <2>3. env'[t] \in Envs /\ \A i \in 1..Known(t) : source'[t][i] = source[t][i]
      BY <1>1, <1>2, <1>5 DEF ReplayInv
    <2>4. \A u \in Units : scanState[u] = 2 => scanState'[u] = 2
      OBVIOUS
    <2> QED
      BY <1>1, <2>2, <2>3, <2>4, RunStep
  <1>7. (\A u \in Units : Len(conditional[u]) <= MaxConditionalDepth)'
    BY DEF PassInv
  <1>8. (\A k \in DOMAIN frames : frames[k].include # None => WaitsAtInclude(k))'
    <2> SUFFICES ASSUME NEW k \in DOMAIN frames, frames[k].include # None
                 PROVE  WaitsAtInclude(k)'
      OBVIOUS
    <2>1. PICK u \in Units \ {t} : u = frames[k].unit
      <3>1. k # Len(frames)
        BY TopFacts
      <3>2. Len(frames) \in DOMAIN frames /\ frames[Len(frames)].unit = t
        BY TopFacts
      <3>3. frames[k].unit # t /\ frames[k].unit \in Units
        <4>1. frames[k].unit \in Units
          BY Elements DEF OrderInv
        <4>2. \A i, j \in DOMAIN frames : i # j => frames[i].unit # frames[j].unit
          BY DEF OrderInv, ScanInv
        <4> QED
          BY ONLY <3>1, <3>2, <4>1, <4>2, k \in DOMAIN frames
      <3> QED
        BY <3>3
    <2>2. source'[u] = source[u] /\ conditional'[u] = conditional[u] /\ WaitsAtInclude(k)
      BY <2>1, <1>3 DEF PassInv
    <2> QED
      BY <2>1, <2>2 DEF WaitsAtInclude
  <1>9. (\A u \in Units : conditional[u] # <<>> => IsOpen(u))'
    <2>1. IsOpen(t)
      BY TopFacts DEF IsOpen
    <2> QED
      BY <2>1 DEF PassInv, IsOpen
  <1> QED
    BY <1>6, <1>7, <1>8, <1>9 DEF PassInv

\* The frames while a header is scanned, or found scanned.
LEMMA IncludeFrames ==
  ASSUME OrderInv, frames # <<>>, NEW line, ScanInclude(line)
  PROVE  /\ \A k \in DOMAIN frames :
              /\ k \in DOMAIN frames' /\ frames'[k].unit = frames[k].unit
              /\ frames'[k].include = IF k = Len(frames) THEN line.arg ELSE frames[k].include
         /\ \A k \in DOMAIN frames' : k \in DOMAIN frames \/ frames'[k].include = None
  <1>1. PICK h \in Headers : h = line.arg /\ h \in Units /\ h \in Headers \cup {None}
    BY DEF ScanInclude, Includable, Units
  <1>2. PICK waiting : waiting = [frames EXCEPT ![Len(frames)].include = h]
    OBVIOUS
  <1>3. /\ waiting \in Seq(FrameType) /\ Len(waiting) = Len(frames)
        /\ DOMAIN waiting = DOMAIN frames
        /\ \A k \in DOMAIN frames :
             /\ waiting[k].unit = frames[k].unit
             /\ waiting[k].include = IF k = Len(frames) THEN h ELSE frames[k].include
    <2>1. h \in Headers \cup {None} /\ frames # <<>>
      BY <1>1
    <2> QED
      BY ONLY <2>1, <1>2, OrderInv, SetInclude, Zenon
  <1>4. CASE frames' = waiting
    BY <1>1, <1>3, <1>4
  <1>5. CASE frames' = Append(waiting, Frame(h))
    <2>1. Frame(h) \in FrameType /\ Frame(h).include = None
      BY <1>1 DEF Frame, FrameType
    <2>2. PICK n \in Nat : n = Len(waiting)
      BY <1>3, LenProperties
    <2>3. /\ frames' \in Seq(FrameType) /\ Len(frames') = n + 1
          /\ \A k \in 1..n : frames'[k] = waiting[k]
          /\ frames'[n + 1] = Frame(h)
      BY <1>3, <1>5, <2>1, <2>2, AppendProperties
    <2>4. DOMAIN waiting = 1..n /\ DOMAIN frames' = 1..(n + 1)
      BY <1>3, <2>2, <2>3, LenProperties
    <2>5. \A k \in 1..(n + 1) : k \in 1..n \/ k = n + 1
      OBVIOUS
    <2>6. \A k \in 1..n : k \in 1..(n + 1)
      OBVIOUS
    <2> QED
      BY <1>1, <1>3, <2>1, <2>3, <2>4, <2>5, <2>6
  <1> QED
    BY <1>1, <1>2, <1>4, <1>5 DEF ScanInclude

LEMMA IncludePass ==
  ASSUME OrderInv, OrderInv', ReplayInv, ReplayInv', PassInv, frames # <<>>, Top.include = None,
         NEW t, t = Top.unit, OthersKept(t),
         NEW line \in ActiveLines, ScanInclude(line), Active(Stack)
  PROVE  PassInv'
  <1>1. t \in Units /\ scanState[t] = 1 /\ Len(frames) \in DOMAIN frames
        /\ frames[Len(frames)].unit = t
    BY TopFacts
  <1>2. PICK n \in Nat : n = Len(source[t]) /\ n = Known(t)
    <2>1. ~Awaiting(frames, t)
      BY ReadingTop
    <2> QED
      BY <1>1, <2>1 DEF ReplayInv, Known
  <1>3. /\ line.kind = "include" /\ UNCHANGED <<conditional, seen, dependencies, events>>
        /\ Reads(line) /\ line.arg \in Headers
    BY DEF ScanInclude, Includable
  <1>4. /\ Len(source'[t]) = n + 1 /\ source'[t] = Append(source[t], line)
        /\ \A u \in Units \ {t} : source'[u] = source[u]
    BY <1>1, <1>2, <1>3, ReadsLine DEF Reads
  <1>5. source'[t][n + 1] = line /\ \A i \in 1..n : source'[t][i] = source[t][i]
    <2>1. source[t] \in Seq(ActiveLines)
      BY <1>1 DEF OrderInv, Shape
    <2> QED
      BY <2>1, <1>2, <1>4, AppendProperties
  <1>6. /\ \A k \in DOMAIN frames :
             /\ k \in DOMAIN frames' /\ frames'[k].unit = frames[k].unit
             /\ frames'[k].include = IF k = Len(frames) THEN line.arg ELSE frames[k].include
        /\ \A k \in DOMAIN frames' : k \in DOMAIN frames \/ frames'[k].include = None
    BY IncludeFrames
  <1>7. line.arg # None
    BY <1>3, NoneAssumption DEF Units
  <1>8. Awaiting(frames', t)
    BY <1>1, <1>6, <1>7 DEF Awaiting
  <1>9. Known(t)' = n
    BY <1>4, <1>8 DEF Known
  <1>10. env' = env /\ \A u \in Units : scanState[u] = 2 => scanState'[u] = 2
    <2>1. line.arg \in Units
      BY <1>3 DEF Units
    <2>2. CASE /\ scanState[line.arg] = 0
               /\ scanState' = [scanState EXCEPT ![line.arg] = 1]
               /\ env' = [env EXCEPT ![line.arg] = NoMacros]
      <3>1. env' = env
        BY <2>1, <2>2, Untouched
      <3> QED
        BY <2>1, <2>2, <3>1 DEF OrderInv, Shape
    <2> QED
      BY <2>2 DEF ScanInclude
  <1>11. \A u \in Units : MakesWhatWasScanned(u)'
    <2>1. Known(t)' = Known(t) /\ Scanned(t)' = Scanned(t)
      BY <1>2, <1>3, <1>9, <1>10 DEF Scanned
    <2>2. env'[t] \in Envs /\ \A i \in 1..Known(t) : source'[t][i] = source[t][i]
      BY <1>1, <1>2, <1>5 DEF ReplayInv
    <2>3. \A u \in Units \ {t} : conditional'[u] = conditional[u] /\ seen'[u] = seen[u]
      BY <1>3
    <2> QED
      BY <1>1, <1>10, <2>1, <2>2, <2>3, RunStep
  <1>12. (\A k \in DOMAIN frames : frames[k].include # None => WaitsAtInclude(k))'
    <2> SUFFICES ASSUME NEW k \in DOMAIN frames, frames'[k].include # None
                 PROVE  WaitsAtInclude(k)'
      BY <1>6
    <2>1. CASE k = Len(frames)
      <3>1. frames'[k].unit = t /\ frames'[k].include = line.arg
        BY <2>1, <1>1, <1>6
      <3>2. source'[t] # <<>>
        BY <1>4, EmptySeq
      <3>3. source'[t][Len(source'[t])] = line
        BY <1>4, <1>5
      <3>4. Active(conditional'[t])
        BY <1>3 DEF Stack
      <3> QED
        BY <3>1, <3>2, <3>3, <3>4, <1>3 DEF WaitsAtInclude
    <2>2. CASE k # Len(frames)
      <3>1. PICK u \in Units \ {t} : u = frames[k].unit
        <4>1. frames[k].unit # t /\ frames[k].unit \in Units
          BY <2>2, <1>1, Elements DEF OrderInv, ScanInv
        <4> QED
          BY <4>1
      <3>2. /\ source'[u] = source[u] /\ conditional' = conditional
            /\ frames'[k].unit = u /\ frames'[k].include = frames[k].include
            /\ WaitsAtInclude(k)
        BY <3>1, <2>2, <1>3, <1>4, <1>6 DEF PassInv
      <3> QED
        BY <3>1, <3>2 DEF WaitsAtInclude
    <2> QED
      BY <2>1, <2>2
  <1>13. (\A u \in Units : conditional[u] # <<>> => IsOpen(u))'
    <2>1. \A u : IsOpen(u) => IsOpen(u)'
      BY <1>6 DEF IsOpen
    <2> QED
      BY <2>1, <1>3 DEF PassInv
  <1> QED
    BY <1>3, <1>11, <1>12, <1>13 DEF PassInv

LEMMA ReadLinePass ==
  ASSUME OrderInv, OrderInv', ReplayInv, ReplayInv', PassInv, ReadLine
  PROVE  PassInv'
  <1>1. /\ frames # <<>> /\ Top.include = None /\ scanState[Top.unit] = 1
        /\ OthersKept(Top.unit)
    BY TopFacts, ReadLineReplay DEF ReadLine, Reading
  <1>2. PICK t \in Units : t = Top.unit
    BY TopFacts, <1>1
  <1>3. PICK line \in ActiveLines : ScanLine(line) /\ line \in NextLines
    BY DEF ReadLine, NextLines, InactiveLines
  <1>4. line.kind \notin ConditionalKinds \cup {"text", "bad"} => Active(Stack)
    BY <1>3 DEF NextLines, InactiveLines
  <1>5. PICK st \in Seq(Conditionals), m \in Envs,
              tx \in Seq([line : Nat, macros : Envs]), n \in Nat :
          /\ st = conditional[t] /\ m = env[t] /\ tx = seen[t] /\ n = Len(source[t])
          /\ Len(st) <= MaxConditionalDepth
    <2>1. /\ conditional[t] \in Seq(Conditionals) /\ env[t] \in Envs
          /\ seen[t] \in Seq([line : Nat, macros : Envs]) /\ Len(source[t]) \in Nat
          /\ Len(conditional[t]) <= MaxConditionalDepth
      BY LengthsType DEF PassInv, ReplayInv, OrderInv
    <2> QED
      BY <2>1
  <1>6. Stack = st
    BY <1>2, <1>5 DEF Stack
  <1>7. PICK g : g = Effects(dependencies, events)'
    OBVIOUS
  <1>9. /\ conditional \in [Units -> Seq(Conditionals)]
        /\ seen \in [Units -> Seq([line : Nat, macros : Envs])]
        /\ env \in [Units -> Envs]
    BY DEF PassInv, ReplayInv
  <1>10. ASSUME NEW st2 \in Seq(Conditionals), Len(st2) <= MaxConditionalDepth,
                NEW tx2 \in Seq([line : Nat, macros : Envs]), NEW m2,
                conditional' = [conditional EXCEPT ![t] = st2],
                seen' = [seen EXCEPT ![t] = tx2], env'[t] = m2,
                Reads(line), line.kind # "include", UNCHANGED <<scanState, frames>>,
                MakeLine(g, Making(m, st, n, tx), line)
                  = Making(m2, st2, n + 1, tx2)
         PROVE  PassInv'
    <2>1. /\ conditional' \in [Units -> Seq(Conditionals)]
          /\ conditional'[t] = st2 /\ \A u \in Units \ {t} : conditional'[u] = conditional[u]
      BY <1>9, <1>10
    <2>2. /\ seen' \in [Units -> Seq([line : Nat, macros : Envs])]
          /\ seen'[t] = tx2 /\ \A u \in Units \ {t} : seen'[u] = seen[u]
      BY <1>9, <1>10
    <2>3. Making(env'[t], conditional'[t], Len(source[t]) + 1, seen'[t])
            = MakeLine(Effects(dependencies, events)',
                       Making(env[t], conditional[t], Len(source[t]), seen[t]), line)
      BY <2>1, <2>2, <1>5, <1>7, <1>10
    <2>4. OthersKept(t) /\ Len(conditional'[t]) <= MaxConditionalDepth
      BY <1>1, <1>2, <1>10, <2>1
    <2>5. \A u \in Units \ {t} : conditional'[u] = conditional[u] /\ seen'[u] = seen[u]
      BY <2>1, <2>2
    <2> QED
      BY <1>1, <1>2, <1>10, <2>1, <2>2, <2>3, <2>4, <2>5, ReadPass
  <1>11. conditional = [conditional EXCEPT ![t] = st] /\ seen = [seen EXCEPT ![t] = tx]
    BY <1>5, <1>9
  <1>12. CASE ScanConditional(line)
    <2>1. /\ line.kind \in ConditionalKinds /\ ~Refused(st, line)
          /\ Reads(line) /\ UNCHANGED <<scanState, frames, env, seen>>
          /\ line.kind # "include"
      BY <1>6, <1>12 DEF ScanConditional, ConditionalKinds, Opening
    <2>2. PICK st2 \in Seq(Conditionals) :
            st2 = AfterConditional(m, st, line) /\ Len(st2) <= MaxConditionalDepth
      BY <1>5, <2>1, AfterConditionalType
    <2>3. conditional' = [conditional EXCEPT ![t] = st2]
      BY <1>2, <1>5, <1>12, <2>2 DEF ScanConditional
    <2>4. MakeLine(g, Making(m, st, n, tx), line) = Making(m, st2, n + 1, tx)
      BY <2>1, <2>2, MakeConditional
    <2>5. seen' = [seen EXCEPT ![t] = tx] /\ env'[t] = m
      BY <1>5, <1>11, <2>1
    <2> QED
      BY <1>10, <2>1, <2>2, <2>3, <2>4, <2>5
  <1>13. CASE ScanText(line)
    <2>1. /\ line.kind = "text" /\ line.kind # "include" /\ line.kind \notin ConditionalKinds
          /\ Reads(line) /\ UNCHANGED <<scanState, frames, env, conditional>>
      BY <1>13 DEF ScanText, ConditionalKinds, Opening
    <2>2. conditional' = [conditional EXCEPT ![t] = st] /\ env'[t] = m
      BY <1>5, <1>11, <2>1
    <2>3. CASE Active(st)
      <3>0. [line |-> n + 1, macros |-> m] \in [line : Nat, macros : Envs]
        OBVIOUS
      <3>1. PICK e \in [line : Nat, macros : Envs] : e = [line |-> n + 1, macros |-> m]
        BY <3>0
      <3>2. PICK tx2 \in Seq([line : Nat, macros : Envs]) : tx2 = Noted(tx, n + 1, m)
        BY <3>1, AppendProperties DEF Noted
      <3>3. seen' = [seen EXCEPT ![t] = tx2]
        BY <1>2, <1>5, <1>6, <1>13, <2>3, <3>1, <3>2 DEF ScanText, Here, Noted
      <3>4. MakeLine(g, Making(m, st, n, tx), line) = Making(m, st, n + 1, tx2)
        BY <2>1, <2>3, <3>2, MakeText
      <3> QED
        BY <1>5, <1>10, <2>1, <2>2, <3>3, <3>4
    <2>4. CASE ~Active(st)
      <3>1. seen' = [seen EXCEPT ![t] = tx]
        BY <1>6, <1>11, <1>13, <2>4 DEF ScanText
      <3>2. MakeLine(g, Making(m, st, n, tx), line) = Making(m, st, n + 1, tx)
        BY <2>1, <2>4, MakePassed
      <3> QED
        BY <1>5, <1>10, <2>1, <2>2, <3>1, <3>2
    <2> QED
      BY <2>3, <2>4
  <1>14. CASE ScanDefine(line)
    <2>1. /\ line.kind = "define" /\ line.kind # "include"
          /\ Reads(line) /\ UNCHANGED <<scanState, frames, seen, conditional>>
          /\ ~Conflicts(m, line.arg, line.body) /\ ~EnvFull(m, line.arg)
      BY <1>2, <1>5, <1>14 DEF ScanDefine
    <2>2. PICK m2 : m2 = Changed(m, line.arg, line.body)
      OBVIOUS
    <2>3. env'[t] = m2
      BY <1>2, <1>5, <1>9, <1>14, <2>2 DEF ScanDefine, Changed
    <2>4. Active(st)
      BY <1>4, <1>6, <2>1 DEF ConditionalKinds, Opening
    <2>5. MakeLine(g, Making(m, st, n, tx), line) = Making(m2, st, n + 1, tx)
      BY <2>1, <2>2, <2>4, MakeDefine
    <2>6. conditional' = [conditional EXCEPT ![t] = st] /\ seen' = [seen EXCEPT ![t] = tx]
      BY <1>11, <2>1
    <2> QED
      BY <1>5, <1>10, <2>1, <2>3, <2>5, <2>6
  <1>15. CASE ScanUndef(line)
    <2>1. /\ line.kind = "undef" /\ line.kind # "include"
          /\ Reads(line) /\ UNCHANGED <<scanState, frames, seen, conditional>>
      BY <1>15 DEF ScanUndef
    <2>2. PICK m2 : m2 = Changed(m, line.arg, None)
      OBVIOUS
    <2>3. env'[t] = m2
      BY <1>2, <1>5, <1>9, <1>15, <2>2 DEF ScanUndef, Changed
    <2>4. Active(st)
      BY <1>4, <1>6, <2>1 DEF ConditionalKinds, Opening
    <2>5. MakeLine(g, Making(m, st, n, tx), line) = Making(m2, st, n + 1, tx)
      BY <2>1, <2>2, <2>4, MakeUndef
    <2>6. conditional' = [conditional EXCEPT ![t] = st] /\ seen' = [seen EXCEPT ![t] = tx]
      BY <1>11, <2>1
    <2> QED
      BY <1>5, <1>10, <2>1, <2>3, <2>5, <2>6
  <1>16. CASE ScanInclude(line)
    <2>1. Active(Stack)
      BY <1>4, <1>16 DEF ScanInclude, ConditionalKinds, Opening
    <2> QED
      BY <1>1, <1>16, <2>1, IncludePass
  <1>17. CASE ScanError(line)
    <2>1. UNCHANGED scanVars
      BY <1>17 DEF ScanError, Fail
    <2>2. \A u \in Units : MakesWhatWasScanned(u)'
      BY <2>1, RunsStay DEF scanVars
    <2> QED
      BY <2>1, <2>2 DEF scanVars, PassInv, WaitsAtInclude, IsOpen
  <1> QED
    BY <1>3, <1>12, <1>13, <1>14, <1>15, <1>16, <1>17 DEF ScanLine

LEMMA StorePass ==
  ASSUME OrderInv, OrderInv', ReplayInv, ReplayInv', PassInv, frames # <<>>, Top.include # None,
         dependencies' = Append(dependencies, Row),
         NEW imported, imported = Import(dependencies', events, Top.include, env[Top.unit]),
         imported.status = "OK",
         env' = [env EXCEPT ![Top.unit] = imported.macros],
         frames' = [frames EXCEPT ![Len(frames)].include = None],
         UNCHANGED <<source, scanState, events, conditional, seen>>
  PROVE  PassInv'
  <1>1. PICK t \in Units : /\ t = Top.unit /\ scanState[t] = 1
                           /\ Len(frames) \in DOMAIN frames /\ frames[Len(frames)] = Top
    BY TopFacts
  <1>2. OthersKept(t)
    BY <1>1, StoreReplay
  <1>3. PICK n \in Nat : n = Known(t) /\ Len(source[t]) = n + 1
    <2>1. Awaiting(frames, t)
      BY <1>1, ReadingTop
    <2>2. Len(source[t]) \in Nat /\ Known(t) = Len(source[t]) - 1 /\ Known(t) \in Nat
      BY <2>1, LengthsType DEF ReplayInv, Known, OrderInv
    <2> QED
      BY <2>2
  <1>4. /\ DOMAIN frames' = DOMAIN frames
        /\ \A k \in DOMAIN frames : /\ frames'[k].unit = frames[k].unit
                                    /\ frames'[k].include = IF k = Len(frames) THEN None
                                                            ELSE frames[k].include
    BY SetInclude
  <1>5. Known(t)' = n + 1
    <2>1. \A k \in DOMAIN frames : frames[k].unit = t => k = Len(frames)
      BY <1>1 DEF OrderInv, ScanInv
    <2>2. ~Awaiting(frames', t)
      BY <2>1, <1>4 DEF Awaiting
    <2> QED
      BY <2>2, <1>3 DEF Known
  <1>6. PICK line : /\ line = source[t][n + 1] /\ line.kind = "include"
                    /\ line.arg = Top.include /\ Active(conditional[t])
    <2>1. WaitsAtInclude(Len(frames))
      BY <1>1 DEF PassInv
    <2> QED
      BY <2>1, <1>1, <1>3 DEF WaitsAtInclude
  <1>7. PICK h \in Units : h = Top.include /\ scanState[h] = 2
    BY TopFacts DEF Units, OrderInv, ScanInv
  <1>0. PICK m \in Envs, m2 \in Envs : m = env[t] /\ m2 = env'[t]
    BY DEF ReplayInv
  <1>8. PICK st, tx, g :
          /\ m = env[t] /\ m2 = env'[t] /\ st = conditional[t] /\ tx = seen[t]
          /\ g = Effects(dependencies, events)'
    BY <1>0
  <1>9. g[h][Unimpeded(m)] = Unimpeded(m2)
    <2>1. g = Effects(dependencies', events)
      BY <1>8 DEF Effects, Lengths
    <2>2. imported = g[h][Unimpeded(m)]
      BY <2>1, <1>1, <1>7, <1>8 DEF Import
    <2>3. m2 = imported.macros
      <3>1. env \in [Units -> Envs]
        BY DEF ReplayInv
      <3> QED
        BY <3>1, <1>1, <1>8
    <2>4. imported \in Results
      <3>1. Tables(dependencies', events') /\ Ordered(dependencies') /\ Lengths' \in [Units -> Nat]
        BY LengthsType
        DEF OrderInv, Shape, ReplayInv, Tables, DependencyOrder, Ordered, RowsOf, Lengths
      <3>2. IsEffects(Replays(dependencies', events', Lengths')[MaxUnits + 1],
                      dependencies', events', Lengths')
        BY <3>1, EffectsExact
      <3>3. g \in Replayers
        BY <3>2, <1>8 DEF IsEffects, Effects
      <3>4. Unimpeded(m) \in Results
        BY UnimpededType
      <3> QED
        BY <3>3, <3>4, <2>2 DEF Replayers
    <2> QED
      BY <2>2, <2>3, <2>4, UnimpededType
  <1>10. MakeLine(g, Making(m, st, n, tx), line)
           = Making(m2, st, n + 1, tx)
    BY <1>6, <1>7, <1>8, <1>9, MakeInclude
  <1>11. Follows(t, line)
    BY <1>3, <1>5, <1>6, <1>7, <1>8, <1>10 DEF Follows, Scanned
  <1>12. \A u \in Units : MakesWhatWasScanned(u)'
    <2>1. Known(t)' = Known(t) + 1 /\ Follows(t, source'[t][Known(t) + 1])
      BY <1>3, <1>5, <1>6, <1>11
    <2>2. env'[t] \in Envs /\ \A i \in 1..Known(t) : source'[t][i] = source[t][i]
      BY <1>8
    <2>3. \A u \in Units \ {t} : conditional'[u] = conditional[u] /\ seen'[u] = seen[u]
      OBVIOUS
    <2>4. \A u \in Units : scanState[u] = 2 => scanState'[u] = 2
      OBVIOUS
    <2> QED
      BY <1>1, <1>2, <2>1, <2>2, <2>3, <2>4, RunStep
  <1>13. (\A k \in DOMAIN frames : frames[k].include # None => WaitsAtInclude(k))'
    BY <1>4 DEF PassInv, WaitsAtInclude
  <1>14. (\A u \in Units : conditional[u] # <<>> => IsOpen(u))'
    BY <1>4 DEF PassInv, IsOpen
  <1> QED
    BY <1>12, <1>13, <1>14 DEF PassInv

LEMMA InitPass ==
  ASSUME Init, ReplayInv
  PROVE  PassInv
  <1>1. \A u \in Units : /\ source[u] = <<>> /\ env[u] = NoMacros /\ conditional[u] = <<>>
                         /\ seen[u] = <<>> /\ Len(source[u]) = 0 /\ Len(conditional[u]) = 0
    BY EmptySeq DEF Init
  <1>2. frames = <<>>
    BY DEF Init
  <1>3. \A u \in Units : Known(u) = 0
    BY <1>1, <1>2 DEF Known, Awaiting
  <1>4. PICK g : g = Effects(dependencies, events)
    OBVIOUS
  <1>5. \A lines : Made(g, lines, 0, Unmade(NoMacros))
    <2> SUFFICES ASSUME NEW lines
                 PROVE  Made(g, lines, 0, Unmade(NoMacros))
      OBVIOUS
    <2>1. PICK f : f = [i \in 0..0 |-> Unmade(NoMacros)]
      OBVIOUS
    <2>2. DOMAIN f = 0..0 /\ f[0] = Unmade(NoMacros) /\ Unmade(NoMacros).macros \in Envs
      BY <2>1, NoMacrosFit DEF Unmade
    <2>3. MakeRun(f, g, lines, 0)
      BY <2>2 DEF MakeRun
    <2> QED
      BY <2>2, <2>3 DEF Made
  <1>6. \A u \in Units : MakesWhatWasScanned(u)
    <2> SUFFICES ASSUME NEW u \in Units
                 PROVE  MakesWhatWasScanned(u)
      OBVIOUS
    <2>1. Scanned(u) = Unmade(NoMacros)
      BY <1>1, <1>3 DEF Scanned, Making, Unmade
    <2>2. IncludesScanned(scanState, source[u], 0)
      BY DEF IncludesScanned
    <2> QED
      BY <1>3, <1>4, <1>5, <2>1, <2>2 DEF MakesWhatWasScanned
  <1>7. /\ conditional \in [Units -> Seq(Conditionals)]
        /\ seen \in [Units -> Seq([line : Nat, macros : Envs])]
    BY EmptySeq DEF Init
  <1>8. \A u \in Units : Len(conditional[u]) <= MaxConditionalDepth
    BY <1>1, CapacityAssumption
  <1> QED
    BY <1>1, <1>2, <1>6, <1>7, <1>8 DEF PassInv

\* The file on top is read to its end, and no group is open in it.
LEMMA PopPass ==
  ASSUME OrderInv, OrderInv', PassInv, EndOfFile
  PROVE  PassInv'
  <1>1. /\ frames # <<>> /\ Top.include = None /\ frames' = Front(frames)
        /\ scanState' = [scanState EXCEPT ![Top.unit] = 2]
        /\ conditional[Top.unit] = <<>>
        /\ UNCHANGED <<source, env, events, dependencies, conditional, seen>>
    BY DEF EndOfFile, Reading, Stack
  <1>2. \A u \in Units : MakesWhatWasScanned(u)'
    <2>1. \A u : Awaiting(frames', u) <=> Awaiting(frames, u)
      BY <1>1, PopAwaits
    <2>2. \A u \in Units : scanState[u] = 2 => scanState'[u] = 2
      BY <1>1 DEF OrderInv, Shape
    <2> QED
      BY <1>1, <2>1, <2>2, RunsStay
  <1>3. PICK n \in Nat : n = Len(frames) /\ DOMAIN frames = 1..n /\ n \in DOMAIN frames
                         /\ frames[n] = Top
    BY <1>1, TopFacts, Elements DEF OrderInv
  <1>4. DOMAIN frames' = 1..(n - 1) /\ \A k \in 1..(n - 1) : frames'[k] = frames[k]
    <2>1. frames \in Seq(FrameType) /\ frames # <<>> /\ frames' = Front(frames)
      BY <1>1 DEF OrderInv, Shape
    <2>2. /\ DOMAIN Front(frames) = 1..(Len(frames) - 1)
          /\ \A k \in 1..(Len(frames) - 1) : Front(frames)[k] = frames[k]
      BY ONLY <2>1, LastFront
    <2> QED
      BY <1>3, <2>1, <2>2
  <1>5. (\A k \in DOMAIN frames : frames[k].include # None => WaitsAtInclude(k))'
    <2> SUFFICES ASSUME NEW k \in 1..(n - 1), frames[k].include # None
                 PROVE  WaitsAtInclude(k)'
      BY <1>4
    <2>1. k \in 1..n
      OBVIOUS
    <2>2. WaitsAtInclude(k)
      BY <2>1, <1>3 DEF PassInv
    <2>3. frames'[k] = frames[k]
      BY <1>4
    <2> QED
      BY <2>2, <2>3, <1>1 DEF WaitsAtInclude
  <1>6. (\A u \in Units : conditional[u] # <<>> => IsOpen(u))'
    <2> SUFFICES ASSUME NEW u \in Units, conditional[u] # <<>>
                 PROVE  IsOpen(u)'
      BY <1>1
    <2>1. PICK k \in 1..n : frames[k].unit = u
      BY <1>3 DEF PassInv, IsOpen
    <2>2. k # n
      BY <2>1, <1>1, <1>3
    <2>3. k \in 1..(n - 1)
      BY <2>2, <1>3
    <2> QED
      BY <2>1, <2>3, <1>4 DEF IsOpen
  <1> QED
    BY <1>1, <1>2, <1>5, <1>6 DEF PassInv

LEMMA NextPass ==
  ASSUME OrderInv, OrderInv', ReplayInv, ReplayInv', PassInv, [Next]_vars
  PROVE  PassInv'
  <1>0. ASSUME UNCHANGED scanVars
        PROVE  PassInv'
    <2>1. \A u \in Units : MakesWhatWasScanned(u)'
      BY <1>0, RunsStay DEF scanVars
    <2> QED
      BY <1>0, <2>1 DEF scanVars, PassInv, WaitsAtInclude, IsOpen
  <1>1. ASSUME NEW u \in Sources, ScanSource(u)
        PROVE  PassInv'
    <2>1. /\ u \in Units /\ scanState[u] = 0 /\ frames = <<>>
          /\ scanState' = [scanState EXCEPT ![u] = 1]
          /\ env' = [env EXCEPT ![u] = NoMacros]
          /\ frames' = <<Frame(u)>>
          /\ UNCHANGED <<source, events, dependencies, conditional, seen>>
      BY <1>1 DEF ScanSource, Units
    <2>2. env' = env
      BY <2>1, Untouched
    <2>3. \A v \in Units : scanState[v] = 2 => scanState'[v] = 2
      BY <2>1 DEF OrderInv, Shape
    <2>4. \A v \in Units : ~Awaiting(frames', v) /\ ~Awaiting(frames, v)
      BY <2>1 DEF Awaiting, Frame
    <2>5. \A v \in Units : MakesWhatWasScanned(v)'
      BY <2>1, <2>2, <2>3, <2>4, RunsStay
    <2>6. (\A k \in DOMAIN frames : frames[k].include # None => WaitsAtInclude(k))'
      BY <2>1 DEF Frame
    <2>7. (\A v \in Units : conditional[v] # <<>> => IsOpen(v))'
      BY <2>1 DEF PassInv, IsOpen
    <2> QED
      BY <2>1, <2>5, <2>6, <2>7 DEF PassInv
  <1>2. ASSUME NEW u \in Sources, ParseSource(u)
        PROVE  PassInv'
    BY <1>0, <1>2 DEF ParseSource
  <1>3. CASE ReadLine
    BY <1>3, ReadLinePass
  <1>4. CASE StoreDependency
    <2>1. Top.include # None /\ frames # <<>>
      BY <1>4 DEF StoreDependency, Returned
    <2>2. CASE UNCHANGED scanVars
      BY <2>2, <1>0
    <2>3. CASE /\ dependencies' = Append(dependencies, Row)
               /\ Import(dependencies', events, Top.include, env[Top.unit]).status = "OK"
               /\ env' = [env EXCEPT ![Top.unit] =
                            Import(dependencies', events, Top.include, env[Top.unit]).macros]
               /\ frames' = [frames EXCEPT ![Len(frames)].include = None]
               /\ UNCHANGED <<source, scanState, events, conditional, seen>>
      <3>1. PICK imported : imported = Import(dependencies', events, Top.include, env[Top.unit])
        OBVIOUS
      <3> QED
        BY <2>1, <2>3, <3>1, StorePass
    <2> QED
      BY <1>4, <2>2, <2>3 DEF StoreDependency, Fail
  <1>5. CASE StoreBehindTable
    BY <1>0, <1>5 DEF StoreBehindTable
  <1>6. CASE EndOfFile
    BY <1>6, PopPass
  <1>7. CASE Unterminated
    BY <1>0, <1>7 DEF Unterminated, Fail
  <1>8. CASE ScanDone
    BY <1>0, <1>8 DEF ScanDone
  <1>9. CASE ParseDependency
    BY <1>0, <1>9 DEF ParseDependency
  <1>10. CASE ParseUnit
    BY <1>0, <1>10 DEF ParseUnit
  <1>11. CASE ParseDone
    BY <1>0, <1>11 DEF ParseDone
  <1>12. CASE UNCHANGED vars
    BY <1>0, <1>12 DEF vars
  <1> QED
    BY <1>1, <1>2, <1>3, <1>4, <1>5, <1>6, <1>7, <1>8, <1>9, <1>10, <1>11, <1>12
    DEF Next, Ended

-----------------------------------------------------------------------------
(* Every file the scan reached is reached from a source, so that the parser   *)
(* reaches it too.                                                            *)

\* Every header the scan saw is in a row or in a call that has not returned.
ReachInv ==
  /\ \A h \in Headers : scanState[h] # 0 =>
       \/ \E i \in DOMAIN dependencies : dependencies[i].target = h
       \/ \E k \in DOMAIN frames : frames[k].include = h
  /\ \A i \in DOMAIN dependencies : scanState[dependencies[i].unit] # 0
  /\ \A u \in Units : scanState[u] = 1 => IsOpen(u)
  /\ phase \in {"parse", "done"} => frames = <<>>
  /\ phase = "done" => \A u \in Sources : WasParsed(u)

LEMMA IncludeReach ==
  ASSUME OrderInv, ReachInv, frames # <<>>, Top.include = None, phase = "scan",
         NEW line, ScanInclude(line)
  PROVE  ReachInv'
  <1>1. /\ \A k \in DOMAIN frames :
             /\ k \in DOMAIN frames' /\ frames'[k].unit = frames[k].unit
             /\ frames'[k].include = IF k = Len(frames) THEN line.arg ELSE frames[k].include
    BY IncludeFrames
  <1>2. /\ Len(frames) \in DOMAIN frames /\ frames[Len(frames)].include = None
    BY TopFacts
  <1>3. /\ line.arg \in Headers /\ line.arg \in Units /\ None \notin Headers
        /\ UNCHANGED <<dependencies, phase>>
    BY NoneAssumption DEF ScanInclude, Includable, Units
  <1>4. CASE /\ scanState[line.arg] = 0
             /\ scanState' = [scanState EXCEPT ![line.arg] = 1]
             /\ frames' = Append([frames EXCEPT ![Len(frames)].include = line.arg],
                                 Frame(line.arg))
    <2>1. IsOpen(line.arg)'
      <3>1. PICK waiting, h : /\ waiting = [frames EXCEPT ![Len(frames)].include = line.arg]
                              /\ h = line.arg
        OBVIOUS
      <3>2. waiting \in Seq(FrameType)
        <4>1. h \in Headers \cup {None} /\ frames # <<>>
              /\ waiting = [frames EXCEPT ![Len(frames)].include = h]
          BY <1>3, <3>1
        <4> QED
          BY ONLY <4>1, OrderInv, SetInclude, Zenon
      <3>3. Frame(h) \in FrameType /\ Frame(h).unit = h
        BY <1>3, <3>1 DEF Frame, FrameType
      <3>4. /\ frames' \in Seq(FrameType) /\ Len(frames') = Len(waiting) + 1
            /\ frames'[Len(waiting) + 1] = Frame(h)
        BY <1>4, <3>1, <3>2, <3>3, AppendProperties
      <3>5. Len(waiting) + 1 \in DOMAIN frames'
        BY <3>2, <3>4, LenProperties
      <3> QED
        BY <3>1, <3>3, <3>4, <3>5 DEF IsOpen
    <2>2. /\ scanState'[line.arg] = 1
          /\ \A u \in Units : u # line.arg => scanState'[u] = scanState[u]
      BY <1>3, <1>4 DEF OrderInv, Shape
    <2>3. (\A h \in Headers : scanState[h] # 0 =>
             \/ \E i \in DOMAIN dependencies : dependencies[i].target = h
             \/ \E k \in DOMAIN frames : frames[k].include = h)'
      <3> SUFFICES ASSUME NEW h \in Headers, scanState'[h] # 0
                   PROVE  \/ \E i \in DOMAIN dependencies : dependencies[i].target = h
                          \/ \E k \in DOMAIN frames' : frames'[k].include = h
        BY <1>3
      <3>1. h = line.arg \/ scanState[h] # 0
        BY <2>2 DEF Units
      <3>2. ASSUME NEW k \in DOMAIN frames, frames[k].include = h
            PROVE  frames'[k].include = h /\ k \in DOMAIN frames'
        BY <3>2, <1>1, <1>2, <1>3
      <3> QED
        BY <3>1, <3>2, <1>1, <1>2 DEF ReachInv
    <2>4. (\A i \in DOMAIN dependencies : scanState[dependencies[i].unit] # 0)'
      BY <1>3, <2>2, Elements DEF ReachInv, OrderInv
    <2>5. (\A u \in Units : scanState[u] = 1 => IsOpen(u))'
      <3>1. \A u : IsOpen(u) => IsOpen(u)'
        BY <1>1 DEF IsOpen
      <3> QED
        BY <2>1, <2>2, <3>1 DEF ReachInv
    <2> QED
      BY <1>3, <2>3, <2>4, <2>5 DEF ReachInv
  <1>5. CASE UNCHANGED scanState
    <2>1. (\A h \in Headers : scanState[h] # 0 =>
             \/ \E i \in DOMAIN dependencies : dependencies[i].target = h
             \/ \E k \in DOMAIN frames : frames[k].include = h)'
      <3>2. ASSUME NEW h \in Headers, NEW k \in DOMAIN frames, frames[k].include = h
            PROVE  frames'[k].include = h /\ k \in DOMAIN frames'
        BY <3>2, <1>1, <1>2, <1>3
      <3> QED
        BY <3>2, <1>3, <1>5 DEF ReachInv
    <2>2. \A u : IsOpen(u) => IsOpen(u)'
      BY <1>1 DEF IsOpen
    <2> QED
      BY <1>3, <1>5, <2>1, <2>2 DEF ReachInv
  <1> QED
    BY <1>4, <1>5 DEF ScanInclude

LEMMA StoreReach ==
  ASSUME OrderInv, ReachInv, frames # <<>>, Top.include # None, phase = "scan",
         dependencies' = Append(dependencies, Row),
         frames' = [frames EXCEPT ![Len(frames)].include = None],
         UNCHANGED <<source, scanState, phase>>
  PROVE  ReachInv'
  <1>1. /\ Len(frames) \in DOMAIN frames /\ Top = frames[Len(frames)] /\ Top.unit \in Units
        /\ Top.include \in Units /\ scanState[Top.unit] = 1
    BY TopFacts DEF Units
  <1>2. /\ DOMAIN frames' = DOMAIN frames
        /\ \A k \in DOMAIN frames : /\ frames'[k].unit = frames[k].unit
                                    /\ frames'[k].include = IF k = Len(frames) THEN None
                                                            ELSE frames[k].include
    BY SetInclude
  <1>3. Row \in RowType /\ Row.unit = Top.unit /\ Row.target = Top.include
    <2>1. Len(source[Top.unit]) \in Nat
      BY <1>1, LengthsType DEF OrderInv
    <2> QED
      BY <1>1, <2>1 DEF Row, RowType
  <1>4. PICK d \in Nat : /\ d = Len(dependencies) /\ DOMAIN dependencies = 1..d
                         /\ DOMAIN dependencies' = 1..(d + 1)
                         /\ \A i \in 1..d : dependencies'[i] = dependencies[i] /\ i \in 1..(d + 1)
                         /\ dependencies'[d + 1] = Row /\ d + 1 \in 1..(d + 1)
    <2>1. PICK d \in Nat : d = Len(dependencies) /\ DOMAIN dependencies = 1..d
      BY Elements DEF OrderInv
    <2>2. /\ dependencies' \in Seq(RowType) /\ Len(dependencies') = d + 1
          /\ \A i \in 1..d : dependencies'[i] = dependencies[i]
          /\ dependencies'[d + 1] = Row
      BY <1>3, <2>1, AppendProperties DEF OrderInv, Shape
    <2>3. DOMAIN dependencies' = 1..(d + 1) /\ d + 1 \in 1..(d + 1)
      BY <2>2, LenProperties
    <2>4. \A i \in 1..d : i \in 1..(d + 1)
      OBVIOUS
    <2> QED
      BY <2>1, <2>2, <2>3, <2>4
  <1>5. (\A h \in Headers : scanState[h] # 0 =>
           \/ \E i \in DOMAIN dependencies : dependencies[i].target = h
           \/ \E k \in DOMAIN frames : frames[k].include = h)'
    <2> SUFFICES ASSUME NEW h \in Headers, scanState[h] # 0
                 PROVE  \/ \E i \in DOMAIN dependencies' : dependencies'[i].target = h
                        \/ \E k \in DOMAIN frames' : frames'[k].include = h
      OBVIOUS
    <2>1. CASE h = Top.include
      BY <2>1, <1>3, <1>4
    <2>2. CASE \E i \in DOMAIN dependencies : dependencies[i].target = h
      BY <2>2, <1>4
    <2>3. CASE h # Top.include /\ \E k \in DOMAIN frames : frames[k].include = h
      BY <2>3, <1>1, <1>2
    <2> QED
      BY <2>1, <2>2, <2>3 DEF ReachInv
  <1>6. (\A i \in DOMAIN dependencies : scanState[dependencies[i].unit] # 0)'
    <2>1. \A i \in 1..(d + 1) : i \in 1..d \/ i = d + 1
      OBVIOUS
    <2> QED
      BY <2>1, <1>1, <1>3, <1>4 DEF ReachInv
  <1>7. (\A u \in Units : scanState[u] = 1 => IsOpen(u))'
    BY <1>2 DEF ReachInv, IsOpen
  <1> QED
    BY <1>5, <1>6, <1>7 DEF ReachInv

LEMMA PopReach ==
  ASSUME OrderInv, ReachInv, EndOfFile
  PROVE  ReachInv'
  <1>1. /\ frames # <<>> /\ Top.include = None /\ frames' = Front(frames) /\ phase = "scan"
        /\ scanState' = [scanState EXCEPT ![Top.unit] = 2]
        /\ UNCHANGED <<dependencies, phase>>
    BY DEF EndOfFile, Reading
  <1>2. PICK n \in Nat : n = Len(frames) /\ DOMAIN frames = 1..n /\ n \in DOMAIN frames
                         /\ frames[n] = Top
    BY <1>1, TopFacts, Elements DEF OrderInv
  <1>3. DOMAIN frames' = 1..(n - 1) /\ \A k \in 1..(n - 1) : frames'[k] = frames[k]
    BY <1>1, <1>2, LastFront DEF OrderInv, Shape
  <1>4. \A k \in 1..n : k = n \/ k \in 1..(n - 1)
    OBVIOUS
  <1>5. /\ Top.unit \in Units /\ scanState[Top.unit] = 1 /\ scanState'[Top.unit] = 2
        /\ \A u \in Units : u # Top.unit => scanState'[u] = scanState[u]
    BY <1>1, TopFacts DEF OrderInv, Shape
  <1>6. (\A h \in Headers : scanState[h] # 0 =>
           \/ \E i \in DOMAIN dependencies : dependencies[i].target = h
           \/ \E k \in DOMAIN frames : frames[k].include = h)'
    <2> SUFFICES ASSUME NEW h \in Headers, scanState[h] # 0
                 PROVE  \/ \E i \in DOMAIN dependencies : dependencies[i].target = h
                        \/ \E k \in DOMAIN frames' : frames'[k].include = h
      BY <1>1, <1>5 DEF Units
    <2>1. h # None
      BY NoneAssumption DEF Units
    <2> QED
      BY <2>1, <1>1, <1>2, <1>3, <1>4 DEF ReachInv
  <1>7. (\A i \in DOMAIN dependencies : scanState[dependencies[i].unit] # 0)'
    BY <1>1, <1>5, Elements DEF ReachInv, OrderInv
  <1>8. (\A u \in Units : scanState[u] = 1 => IsOpen(u))'
    <2> SUFFICES ASSUME NEW u \in Units, scanState'[u] = 1
                 PROVE  IsOpen(u)'
      OBVIOUS
    <2>1. u # Top.unit /\ IsOpen(u)
      BY <1>5 DEF ReachInv
    <2>2. PICK k \in 1..n : frames[k].unit = u
      BY <2>1, <1>2 DEF IsOpen
    <2>3. k # n
      BY <2>1, <2>2, <1>2
    <2> QED
      BY <2>2, <2>3, <1>3, <1>4 DEF IsOpen
  <1> QED
    BY <1>1, <1>6, <1>7, <1>8 DEF ReachInv

LEMMA NextReach ==
  ASSUME OrderInv, OrderInv', ReachInv, [Next]_vars
  PROVE  ReachInv'
  <1>0. ASSUME UNCHANGED <<scanState, dependencies, frames>>,
               phase' \in {"parse", "done"} => frames = <<>>,
               phase' = "done" => \A u \in Sources : WasParsed(u)'
        PROVE  ReachInv'
    BY <1>0 DEF ReachInv, IsOpen
  <1>1. ASSUME NEW u \in Sources, ScanSource(u)
        PROVE  ReachInv'
    <2>1. /\ u \in Units /\ u \notin Headers /\ frames = <<>>
          /\ scanState' = [scanState EXCEPT ![u] = 1]
          /\ frames' = <<Frame(u)>> /\ phase = "scan" /\ UNCHANGED <<dependencies, phase>>
      BY <1>1, UnitsAssumption DEF ScanSource, Units
    <2>2. scanState'[u] = 1 /\ \A v \in Units : v # u => scanState'[v] = scanState[v]
      BY <2>1 DEF OrderInv, Shape
    <2>3. IsOpen(u)'
      <3>1. 1 \in DOMAIN frames' /\ frames'[1] = Frame(u)
        BY <2>1
      <3> QED
        BY <3>1 DEF IsOpen, Frame
    <2>4. \A v : ~IsOpen(v)
      BY <2>1 DEF IsOpen
    <2>5. (\A v \in Units : scanState[v] = 1 => IsOpen(v))'
      BY <2>2, <2>3, <2>4 DEF ReachInv
    <2>6. (\A h \in Headers : scanState[h] # 0 =>
             \/ \E i \in DOMAIN dependencies : dependencies[i].target = h
             \/ \E k \in DOMAIN frames : frames[k].include = h)'
      BY <2>1, <2>2 DEF ReachInv, Units
    <2>7. (\A i \in DOMAIN dependencies : scanState[dependencies[i].unit] # 0)'
      BY <2>1, <2>2, Elements DEF ReachInv, OrderInv
    <2> QED
      BY <2>1, <2>5, <2>6, <2>7 DEF ReachInv
  <1>2. ASSUME NEW u \in Sources, ParseSource(u)
        PROVE  ReachInv'
    BY <1>0, <1>2 DEF ParseSource, scanVars, ReachInv
  <1>3. CASE ReadLine
    <2>1. PICK line : ScanLine(line)
      BY <1>3 DEF ReadLine
    <2>2. frames # <<>> /\ Top.include = None /\ phase = "scan"
      BY <1>3 DEF ReadLine, Reading
    <2>3. CASE ScanInclude(line)
      BY <2>2, <2>3, IncludeReach
    <2>4. CASE ~ScanInclude(line)
      <3>1. UNCHANGED <<scanState, dependencies, frames>> /\ phase' \in {"scan", "failed"}
        BY <2>1, <2>2, <2>4 DEF ScanLine, ScanConditional, ScanText, ScanDefine, ScanUndef,
                                ScanError, Fail, scanVars
      <3> QED
        BY <3>1, <1>0
    <2> QED
      BY <2>3, <2>4
  <1>4. CASE StoreDependency
    <2>1. Top.include # None /\ frames # <<>> /\ phase = "scan"
      BY <1>4 DEF StoreDependency, Returned
    <2>2. CASE UNCHANGED scanVars /\ phase' = "failed"
      BY <2>2, <1>0 DEF scanVars
    <2>3. CASE /\ dependencies' = Append(dependencies, Row)
               /\ frames' = [frames EXCEPT ![Len(frames)].include = None]
               /\ UNCHANGED <<source, scanState, phase>>
      BY <2>1, <2>3, StoreReach
    <2> QED
      BY <1>4, <2>2, <2>3 DEF StoreDependency, Fail
  <1>5. CASE StoreBehindTable
    BY <1>0, <1>5 DEF StoreBehindTable, scanVars
  <1>6. CASE EndOfFile
    BY <1>6, PopReach
  <1>7. CASE Unterminated
    BY <1>0, <1>7 DEF Unterminated, Fail, scanVars
  <1>8. CASE ScanDone
    BY <1>0, <1>8 DEF ScanDone, scanVars
  <1>9. CASE ParseDependency
    BY <1>0, <1>9 DEF ParseDependency, scanVars, ReachInv
  <1>10. CASE ParseUnit
    BY <1>0, <1>10 DEF ParseUnit, scanVars, ReachInv
  <1>11. CASE ParseDone
    BY <1>0, <1>11 DEF ParseDone, scanVars, parseVars, ReachInv, WasParsed
  <1>12. CASE UNCHANGED vars
    BY <1>0, <1>12 DEF vars, scanVars, parseVars, ReachInv, WasParsed
  <1> QED
    BY <1>1, <1>2, <1>3, <1>4, <1>5, <1>6, <1>7, <1>8, <1>9, <1>10, <1>11, <1>12
    DEF Next, Ended

\* A file all of whose includers are parsed is parsed, from the last row of the
\* table to the first.
LEMMA AllParsed ==
  ASSUME OrderInv, ParseInv, ReachInv, phase = "done",
         NEW u \in Units, scanState[u] = 2
  PROVE  WasParsed(u)
  <1>1. /\ frames = <<>> /\ \A v \in Sources : WasParsed(v)
        /\ \A v \in Units : scanState[v] # 1
    BY DEF ReachInv, IsOpen
  <1>2. \A h \in Headers : scanState[h] = 2 =>
          \E i \in DOMAIN dependencies : dependencies[i].target = h
    BY <1>1 DEF ReachInv
  <1>3. PICK N \in Nat : DOMAIN dependencies = 1..N
    BY Elements DEF OrderInv
  <1>4. \A i \in 1..N : /\ dependencies[i].unit \in Units /\ dependencies[i].target \in Units
                        /\ scanState[dependencies[i].unit] = 2
    <2> SUFFICES ASSUME NEW i \in 1..N
                 PROVE  /\ dependencies[i].unit \in Units /\ dependencies[i].target \in Units
                        /\ scanState[dependencies[i].unit] = 2
      OBVIOUS
    <2>1. dependencies[i].unit \in Units /\ dependencies[i].target \in Units
      BY <1>3, Elements DEF OrderInv
    <2>2. scanState[dependencies[i].unit] # 0 /\ scanState \in [Units -> 0..2]
      BY <1>3 DEF ReachInv, OrderInv, Shape
    <2> QED
      BY <2>1, <2>2, <1>1
  <1>5. \A i \in 1..N : WasParsed(dependencies[i].unit) => WasParsed(dependencies[i].target)
    <2> SUFFICES ASSUME NEW i \in 1..N, NEW k \in DOMAIN parsed,
                        parsed[k] = dependencies[i].unit
                 PROVE  WasParsed(dependencies[i].target)
      BY DEF WasParsed
    <2>1. i \in RowsOf(dependencies, parsed[k])
      BY <1>3 DEF RowsOf
    <2>2. PICK j \in 1..(k - 1) : parsed[j] = dependencies[i].target
      BY <2>1 DEF ParseInv, HeadersFirst
    <2>3. DOMAIN parsed = 1..Len(parsed) /\ Len(parsed) \in Nat
      BY LenProperties DEF ParseInv
    <2>4. j \in DOMAIN parsed
      BY <2>3
    <2> QED
      BY <2>2, <2>4 DEF WasParsed
  <1> DEFINE T == {n \in 0..N : \A i \in 1..N : i > N - n => WasParsed(dependencies[i].target)}
  <1>6. 0 \in T
    OBVIOUS
  <1>7. ASSUME NEW n \in 1..N, n - 1 \in T
        PROVE  n \in T
    <2> SUFFICES ASSUME NEW i \in 1..N, i > N - n
                 PROVE  WasParsed(dependencies[i].target)
      OBVIOUS
    <2>1. \A j \in 1..N : j > i => WasParsed(dependencies[j].target)
      BY <1>7
    <2>2. PICK v \in Units : v = dependencies[i].unit /\ scanState[v] = 2
      BY <1>4
    <2>3. WasParsed(v)
      <3>1. CASE v \in Sources
        BY <3>1, <1>1
      <3>2. CASE v \in Headers
        <4>1. PICK j \in 1..N : dependencies[j].target = v
          BY <3>2, <2>2, <1>2, <1>3
        <4>2. i < j
          BY <4>1, <2>2, <1>3 DEF OrderInv, DependencyOrder, RowsOf
        <4> QED
          BY <4>1, <4>2, <2>1
      <3> QED
        BY <3>1, <3>2 DEF Units
    <2> QED
      BY <2>2, <2>3, <1>5
  <1>8. \A i \in 1..N : WasParsed(dependencies[i].target)
    <2>1. \A n \in 0..N : n \in T
      <3> HIDE DEF T
      <3> QED
        BY <1>6, <1>7, Counting
    <2>2. N \in T /\ \A i \in 1..N : i > N - N
      BY <2>1
    <2> QED
      BY <2>2
  <1>9. CASE u \in Sources
    BY <1>9, <1>1
  <1>10. CASE u \in Headers
    BY <1>10, <1>2, <1>3, <1>8
  <1> QED
    BY <1>9, <1>10 DEF Units

-----------------------------------------------------------------------------
\* No file is parsed before the scan has accepted the project, and from then
\* on only the expansion of text and the parser can refuse it.
OutcomeInv ==
  /\ phase \in {"scan", "overrun"} => ~SecondPass
  /\ phase \in {"scan", "parse", "done"} => status = "OK"
  /\ SecondPass => status \in {"OK", "TEXT"}
  /\ DOMAIN output = Units
  /\ \A i \in DOMAIN parsed : output[parsed[i]] = seen[parsed[i]]

\* Outside the scan the second pass makes of a file what the scan saw of it.
LEMMA MadeAsScanned ==
  ASSUME OrderInv, PassInv, frames = <<>>, NEW u \in Units
  PROVE  /\ MakeSource(u).status = "OK" /\ MakeSource(u).stack = <<>>
         /\ MakeSource(u).text = seen[u]
  <1>1. PICK n \in Nat : n = Len(source[u]) /\ n = Known(u)
    <2>1. ~Awaiting(frames, u)
      BY DEF Awaiting
    <2> QED
      BY <2>1, LengthsType DEF Known, OrderInv
  <1>2. PICK g, lines : g = Effects(dependencies, events) /\ lines = source[u]
    OBVIOUS
  <1>3. PICK f : MakeRun(f, g, lines, n) /\ f[n] = Scanned(u)
    BY <1>1, <1>2 DEF PassInv, MakesWhatWasScanned, Made
  <1>4. MakeLines(g, lines, NoMacros) = f[n]
    <2>1. n = Len(lines)
      BY <1>1, <1>2
    <2> QED
      BY <2>1, <1>3, MakeLinesIs
  <1>5. MakeSource(u) = Scanned(u)
    BY <1>2, <1>3, <1>4 DEF MakeSource
  <1>6. conditional[u] = <<>>
    BY DEF PassInv, IsOpen
  <1> QED
    BY <1>5, <1>6 DEF Scanned, Making

LEMMA NextOutcome ==
  ASSUME OrderInv, PassInv, ParseInv, ReachInv, OutcomeInv, [Next]_vars
  PROVE  OutcomeInv'
  <1>1. ASSUME phase = "scan", phase' \in {"scan", "failed", "overrun"}, UNCHANGED parseVars,
               phase' = "scan" => status' = status
        PROVE  OutcomeInv'
    BY <1>1 DEF OutcomeInv, parseVars, SecondPass, ParseInv
  <1>2. ASSUME UNCHANGED <<phase, status, visibility, parsed, output, seen>>
        PROVE  OutcomeInv'
    BY <1>2 DEF OutcomeInv, SecondPass
  <1>3. ASSUME NEW u \in Sources, ScanSource(u) \/ ParseSource(u)
        PROVE  OutcomeInv'
    BY <1>2, <1>3 DEF ScanSource, ParseSource, scanVars, parseVars
  <1>4. CASE ReadLine
    <2>1. PICK line : ScanLine(line)
      BY <1>4 DEF ReadLine
    <2> QED
      BY <1>1, <1>4, <2>1 DEF ReadLine, Reading, ScanLine, ScanConditional, ScanText, ScanInclude,
                              ScanDefine, ScanUndef, ScanError, Fail
  <1>5. CASE StoreDependency
    BY <1>1, <1>5 DEF StoreDependency, Returned, Fail
  <1>6. CASE StoreBehindTable
    BY <1>1, <1>6 DEF StoreBehindTable, Returned
  <1>7. CASE EndOfFile
    BY <1>1, <1>7 DEF EndOfFile, Reading
  <1>8. CASE Unterminated
    BY <1>1, <1>8 DEF Unterminated, Reading, Fail
  <1>9. CASE ScanDone
    BY <1>9 DEF ScanDone, OutcomeInv, scanVars, SecondPass
  <1>10. CASE ParseDependency
    BY <1>2, <1>10 DEF ParseDependency, scanVars
  <1>11. CASE ParseUnit
    <2>1. PICK u \in Units : u = Visited.unit
      BY <1>11, VisitFacts DEF ParseUnit, ParseInv
    <2>2. /\ MakeSource(u).status = "OK" /\ MakeSource(u).stack = <<>>
          /\ MakeSource(u).text = seen[u]
      BY <1>11, MadeAsScanned DEF ParseUnit, ReachInv
    <2>3. /\ output' = [output EXCEPT ![u] = seen[u]]
          /\ status' \in {"OK", "TEXT"}
          /\ parsed' = IF status' = "OK" THEN Append(parsed, u) ELSE parsed
          /\ phase' = IF status' = "OK" THEN "parse" ELSE "failed"
          /\ UNCHANGED <<visibility, seen>>
      BY <1>11, <2>1, <2>2 DEF ParseUnit, scanVars
    <2>4. \A v \in Units : output'[v] = IF v = u THEN seen[u] ELSE output[v]
      BY <2>3 DEF OutcomeInv
    <2>5. parsed \in Seq(Units) /\ \A i \in DOMAIN parsed : parsed[i] \in Units
      BY LenProperties, ElementOfSeq DEF ParseInv
    <2>6. \A i \in DOMAIN parsed' : output'[parsed'[i]] = seen[parsed'[i]]
      <3>1. CASE parsed' = parsed
        BY <3>1, <2>4, <2>5 DEF OutcomeInv
      <3>2. CASE parsed' = Append(parsed, u)
        <4>1. PICK m \in Nat : m = Len(parsed) /\ DOMAIN parsed = 1..m
          BY <2>5, LenProperties
        <4>2. /\ parsed' \in Seq(Units) /\ Len(parsed') = m + 1
              /\ \A i \in 1..m : parsed'[i] = parsed[i]
              /\ parsed'[m + 1] = u
          BY <3>2, <2>5, <4>1, AppendProperties
        <4>3. DOMAIN parsed' = 1..(m + 1)
          BY <4>2, LenProperties
        <4>4. \A i \in 1..(m + 1) : i \in 1..m \/ i = m + 1
          OBVIOUS
        <4> QED
          BY <4>1, <4>2, <4>3, <4>4, <2>4, <2>5 DEF OutcomeInv
      <3> QED
        BY <3>1, <3>2, <2>3
    <2> QED
      BY <2>3, <2>6 DEF OutcomeInv, SecondPass
  <1>12. CASE ParseDone
    BY <1>12 DEF ParseDone, OutcomeInv, scanVars, parseVars, SecondPass
  <1>13. CASE UNCHANGED vars
    BY <1>2, <1>13 DEF vars, scanVars, parseVars
  <1> QED
    BY <1>3, <1>4, <1>5, <1>6, <1>7, <1>8, <1>9, <1>10, <1>11, <1>12, <1>13
    DEF Next, Ended

\* The inductive invariant of the two passes.
Inv == OrderInv /\ ReplayInv /\ PassInv /\ ReachInv /\ ParseInv /\ OutcomeInv

LEMMA InvAlways == Spec => []Inv
  <1>1. Init => Inv
    <2> SUFFICES ASSUME Init
                 PROVE  Inv
      OBVIOUS
    <2>1. OrderInv /\ ReplayInv /\ PassInv /\ ParseInv
      BY InitOrder, InitReplay, InitPass, InitParse
    <2>2. ReachInv
      BY DEF Init, ReachInv, Units
    <2>3. OutcomeInv
      BY DEF Init, OutcomeInv, SecondPass
    <2> QED
      BY <2>1, <2>2, <2>3 DEF Inv
  <1>2. Inv /\ [Next]_vars => Inv'
    BY NextOrder, NextReplay, NextPass, NextReach, NextParse, NextOutcome DEF Inv
  <1> QED
    BY <1>1, <1>2, PTL DEF Spec

\* nc_pp_import_file_effects: what the two tables say a file does to its
\* includer is what nc_pp_scan_file found that it does.
THEOREM HeadersReplayExactly == Spec => []ReplayIsExact
  <1>1. Inv => ReplayIsExact
    BY DEF Inv, ReplayInv, ReplayIsExact
  <1> QED
    BY <1>1, InvAlways, PTL

\* nc_pp_make_source keeps the lines nc_pp_scan_file saw active, with the macros
\* it saw them under, refuses no directive the scan accepted, and is made of
\* every file the scan reached.
THEOREM SecondPassAgrees == Spec => []PassesAgree
  <1>1. Inv => PassesAgree
    BY AllParsed DEF Inv, OutcomeInv, PassesAgree
  <1> QED
    BY <1>1, InvAlways, PTL

-----------------------------------------------------------------------------
(* The files a file sees.                                                    *)

AllSees == [Units -> SUBSET Units]
Reflexive(sees) == \A u \in Units : u \in sees[u]

\* Every row is spread: a file sees what the files it includes see.
SpreadUpto(sees, rows, n) == \A i \in 1..n : sees[rows[i].target] \subseteq sees[rows[i].unit]

\* The rows between files, and no row of a target behind its own row.
InOrder(rows, N) ==
  /\ N \in Nat /\ N = Len(rows)
  /\ \A i \in 1..N : rows[i].unit \in Units /\ rows[i].target \in Units
  /\ \A i, j \in 1..N : rows[j].unit = rows[i].target => j < i

Within(rows, N, files) == \A i \in 1..N : rows[i].unit \in files => rows[i].target \in files

\* A file sees nothing but what it reaches.
OnlyReached(sees, rows, N) ==
  \A files \in SUBSET Units : Within(rows, N, files) => \A u \in files : sees[u] \subseteq files

Sound(sees, rows, N) == sees \in AllSees /\ Reflexive(sees) /\ OnlyReached(sees, rows, N)

LEMMA SpreadRow ==
  ASSUME NEW rows, NEW N, InOrder(rows, N), NEW n \in 1..N, NEW sees \in AllSees
  PROVE  /\ Spread(sees, rows[n]) \in AllSees
         /\ Sound(sees, rows, N) => Sound(Spread(sees, rows[n]), rows, N)
         /\ Reflexive(sees) /\ SpreadUpto(sees, rows, n - 1)
              => SpreadUpto(Spread(sees, rows[n]), rows, n)
  <1>1. PICK a \in Units, b \in Units : a = rows[n].unit /\ b = rows[n].target
    BY DEF InOrder
  <1>2. PICK next : next = Spread(sees, rows[n])
    OBVIOUS
  <1>3. next = [sees EXCEPT ![a] = sees[a] \cup sees[b] \cup {b}]
    BY <1>1, <1>2 DEF Spread
  <1>4. /\ next \in AllSees /\ next[a] = sees[a] \cup sees[b] \cup {b}
        /\ \A u \in Units : u # a => next[u] = sees[u]
    BY <1>3 DEF AllSees
  <1>5. ASSUME Sound(sees, rows, N)
        PROVE  Sound(next, rows, N)
    <2>1. Reflexive(next)
      BY <1>4, <1>5 DEF Sound, Reflexive
    <2>2. OnlyReached(next, rows, N)
      <3> SUFFICES ASSUME NEW files \in SUBSET Units, Within(rows, N, files), NEW u \in files
                   PROVE  next[u] \subseteq files
        BY DEF OnlyReached
      <3>1. \A v \in files : sees[v] \subseteq files
        BY <1>5 DEF Sound, OnlyReached
      <3>2. a \in files => b \in files
        BY <1>1 DEF Within
      <3> QED
        BY <3>1, <3>2, <1>4
    <2> QED
      BY <2>1, <2>2, <1>4 DEF Sound
  <1>6. ASSUME Reflexive(sees), SpreadUpto(sees, rows, n - 1)
        PROVE  SpreadUpto(next, rows, n)
    <2> SUFFICES ASSUME NEW i \in 1..n
                 PROVE  next[rows[i].target] \subseteq next[rows[i].unit]
      BY DEF SpreadUpto
    <2>1. i \in 1..N /\ N \in Nat
      BY DEF InOrder
    <2>2. PICK x \in Units, y \in Units : x = rows[i].unit /\ y = rows[i].target
      BY <2>1 DEF InOrder
    <2>3. y # a
      <3>1. ~(n < i)
        OBVIOUS
      <3> QED
        BY <3>1, <2>1, <2>2, <1>1 DEF InOrder
    <2>4. next[y] = sees[y] /\ sees[x] \subseteq next[x]
      BY <2>3, <1>4
    <2>5. CASE i = n
      BY <2>5, <2>2, <2>4, <1>1, <1>4
    <2>6. CASE i # n
      <3>1. i \in 1..(n - 1)
        BY <2>6
      <3>2. sees[y] \subseteq sees[x]
        BY <3>1, <2>2, <1>6 DEF SpreadUpto
      <3> QED
        BY <3>2, <2>2, <2>4
    <2> QED
      BY <2>5, <2>6
  <1> QED
    BY <1>2, <1>4, <1>5, <1>6

\* One pass over the table.
LEMMA SpreadPass ==
  ASSUME NEW rows, NEW N, InOrder(rows, N), NEW sees \in AllSees
  PROVE  /\ SpreadAll(sees, rows) \in AllSees
         /\ Sound(sees, rows, N) => /\ Sound(SpreadAll(sees, rows), rows, N)
                                    /\ SpreadUpto(SpreadAll(sees, rows), rows, N)
  <1> DEFINE H == [n \in 1..N |-> [s \in AllSees |-> Spread(s, rows[n])]]
             Is(F) == F = [n \in 0..Len(rows) |->
                             IF n = 0 THEN sees ELSE Spread(F[n - 1], rows[n])]
             U == CHOOSE F : Is(F)
  <1>1. N \in Nat /\ N = Len(rows)
    BY DEF InOrder
  <1>2. H \in [1..N -> [AllSees -> AllSees]]
    BY SpreadRow
  <1>3. PICK f : Steps(f, AllSees, sees, H, N)
    <2> HIDE DEF H
    <2> QED
      BY <1>1, <1>2, Recursion
  <1>4. /\ f \in [0..N -> AllSees] /\ f[0] = sees
        /\ \A n \in 1..N : f[n - 1] \in AllSees /\ f[n] = Spread(f[n - 1], rows[n])
    <2>1. /\ f \in [0..N -> AllSees] /\ f[0] = sees
          /\ \A n \in 1..N : f[n] = H[n][f[n - 1]]
      <3> HIDE DEF H
      <3> QED
        BY <1>3 DEF Steps
    <2>2. \A n \in 1..N : f[n - 1] \in AllSees
      <3> HIDE DEF H
      <3> QED
        BY <2>1, <1>1
    <2> QED
      BY <2>1, <2>2
  <1>5. Is(f)
    BY <1>1, <1>4
  <1>6. Is(U)
    <2> HIDE DEF Is
    <2> QED
      BY <1>5
  <1>7. SpreadAll(sees, rows) = U[N]
    <2>1. SpreadAll(sees, rows) = U[Len(rows)]
      BY Zenon DEF SpreadAll
    <2> QED
      BY <2>1, <1>1
  <1> DEFINE T == {n \in 0..N : /\ U[n] = f[n]
                                /\ Sound(sees, rows, N) => /\ Sound(f[n], rows, N)
                                                           /\ SpreadUpto(f[n], rows, n)}
  <1>8. 0 \in T
    <2> HIDE DEF U
    <2>1. U[0] = sees
      BY <1>1, <1>6
    <2>2. SpreadUpto(f[0], rows, 0)
      BY DEF SpreadUpto
    <2> QED
      BY <2>1, <2>2, <1>1, <1>4
  <1>9. ASSUME NEW n \in 1..N, n - 1 \in T
        PROVE  n \in T
    <2> HIDE DEF U
    <2>1. U[n] = Spread(U[n - 1], rows[n])
      BY <1>1, <1>6
    <2>2. U[n] = f[n]
      BY <2>1, <1>4, <1>9
    <2>3. PICK s \in AllSees : s = f[n - 1] /\ f[n] = Spread(s, rows[n])
      BY <1>4
    <2>4. ASSUME Sound(sees, rows, N)
          PROVE  Sound(f[n], rows, N) /\ SpreadUpto(f[n], rows, n)
      <3>1. Sound(s, rows, N) /\ SpreadUpto(s, rows, n - 1) /\ Reflexive(s)
        BY <1>9, <2>3, <2>4 DEF Sound
      <3> QED
        BY <3>1, <2>3, SpreadRow
    <2> QED
      BY <2>2, <2>4, <1>1
  <1>10. N \in T
    <2>1. \A n \in 0..N : n \in T
      <3> HIDE DEF T
      <3> QED
        BY <1>8, <1>9, <1>1, Counting
    <2> HIDE DEF T
    <2> QED
      BY <2>1, <1>1
  <1>11. U[N] = f[N] /\ f[N] \in AllSees
    <2> HIDE DEF U
    <2> QED
      BY <1>10, <1>4, <1>1
  <1> QED
    <2> HIDE DEF U
    <2> QED
      BY <1>7, <1>10, <1>11

\* What every file sees is closed, and no less than what it reaches.
Closed(sees, rows, N) == Sound(sees, rows, N) /\ SpreadUpto(sees, rows, N)

LEMMA VisibilityCloses ==
  ASSUME NEW rows, NEW N, InOrder(rows, N)
  PROVE  /\ Visibility(rows) \in AllSees
         /\ Units # {} => Closed(Visibility(rows), rows, N)
  <1>1. PICK M \in Nat : M = Cardinality(Units)
    BY UnitsAssumption, FS_CardinalityType
  <1> DEFINE base == [u \in Units |-> {u}]
             H == [n \in 1..M |-> [s \in AllSees |-> SpreadAll(s, rows)]]
             Is(F) == F = [n \in 0..Cardinality(Units) |->
                             IF n = 0 THEN [u \in Units |-> {u}] ELSE SpreadAll(F[n - 1], rows)]
             U == CHOOSE F : Is(F)
  <1>2. base \in AllSees /\ Sound(base, rows, N)
    BY DEF AllSees, Sound, Reflexive, OnlyReached
  <1>3. H \in [1..M -> [AllSees -> AllSees]]
    BY SpreadPass
  <1>4. PICK f : Steps(f, AllSees, base, H, M)
    <2> HIDE DEF H, base
    <2> QED
      BY <1>1, <1>2, <1>3, Recursion
  <1>5. /\ f \in [0..M -> AllSees] /\ f[0] = base
        /\ \A n \in 1..M : f[n - 1] \in AllSees /\ f[n] = SpreadAll(f[n - 1], rows)
    <2> HIDE DEF base
    <2>1. /\ f \in [0..M -> AllSees] /\ f[0] = base
          /\ \A n \in 1..M : f[n] = H[n][f[n - 1]]
      <3> HIDE DEF H
      <3> QED
        BY <1>4 DEF Steps
    <2>2. \A n \in 1..M : f[n - 1] \in AllSees
      <3> HIDE DEF H
      <3> QED
        BY <2>1, <1>1
    <2> QED
      BY <2>1, <2>2
  <1>6. Is(f)
    BY <1>1, <1>5
  <1>7. Is(U)
    <2> HIDE DEF Is
    <2> QED
      BY <1>6
  <1>8. Visibility(rows) = U[M]
    <2>1. Visibility(rows) = U[Cardinality(Units)]
      BY Zenon DEF Visibility
    <2> QED
      BY <2>1, <1>1
  <1> DEFINE T == {n \in 0..M : /\ U[n] = f[n] /\ Sound(f[n], rows, N)
                                /\ n # 0 => SpreadUpto(f[n], rows, N)}
  <1>9. 0 \in T
    <2> HIDE DEF U
    <2>1. U[0] = base
      BY <1>1, <1>7
    <2> HIDE DEF base
    <2> QED
      BY <2>1, <1>1, <1>2, <1>5
  <1>10. ASSUME NEW n \in 1..M, n - 1 \in T
         PROVE  n \in T
    <2> HIDE DEF U
    <2>1. U[n] = SpreadAll(U[n - 1], rows)
      <3>1. U = [i \in 0..M |-> IF i = 0 THEN base ELSE SpreadAll(U[i - 1], rows)]
        BY <1>1, <1>7
      <3> HIDE DEF base
      <3>2. n \in 0..M /\ n # 0
        BY <1>1
      <3> QED
        BY ONLY <3>1, <3>2
    <2>2. U[n] = f[n]
      BY <2>1, <1>5, <1>10
    <2>3. PICK s \in AllSees : s = f[n - 1] /\ f[n] = SpreadAll(s, rows)
      BY <1>5
    <2>4. Sound(s, rows, N)
      BY <1>10, <2>3
    <2>5. Sound(f[n], rows, N) /\ SpreadUpto(f[n], rows, N)
      BY <2>3, <2>4, SpreadPass
    <2> QED
      BY <2>2, <2>5, <1>1
  <1>11. M \in T
    <2>1. \A n \in 0..M : n \in T
      <3> HIDE DEF T
      <3> QED
        BY <1>9, <1>10, <1>1, Counting
    <2> HIDE DEF T
    <2> QED
      BY <2>1, <1>1
  <1>12. /\ U[M] = f[M] /\ f[M] \in AllSees /\ Sound(f[M], rows, N)
         /\ M # 0 => SpreadUpto(f[M], rows, N)
    <2> HIDE DEF U
    <2> QED
      BY <1>11, <1>5, <1>1
  <1>13. Units # {} => M # 0
    BY <1>1, UnitsAssumption, FS_EmptySet
  <1> QED
    <2> HIDE DEF U
    <2> QED
      BY <1>8, <1>12, <1>13 DEF Closed

\* Closed under the rows, a file sees all that the files it sees do.
LEMMA ClosedIsLeast ==
  ASSUME NEW rows, NEW N, InOrder(rows, N), NEW sees, Closed(sees, rows, N), NEW u \in Units
  PROVE  /\ u \in sees[u] /\ Within(rows, N, sees[u])
         /\ \A files \in SUBSET Units :
              u \in files /\ Within(rows, N, files) => sees[u] \subseteq files
  <1>1. /\ sees \in [Units -> SUBSET Units] /\ \A v \in Units : v \in sees[v]
        /\ OnlyReached(sees, rows, N)
    BY DEF Closed, Sound, AllSees, Reflexive
  <1>2. \A i \in 1..N : sees[rows[i].target] \subseteq sees[rows[i].unit]
    BY DEF Closed, SpreadUpto
  <1>3. \A i \in 1..N : rows[i].unit \in Units /\ rows[i].target \in Units
    BY DEF InOrder
  <1> DEFINE same == {v \in Units : sees[v] \subseteq sees[u]}
  <1>4. Within(rows, N, same)
    BY <1>2, <1>3 DEF Within
  <1>5. sees[u] \subseteq same
    <2>1. same \in SUBSET Units /\ u \in same
      OBVIOUS
    <2> HIDE DEF same
    <2> QED
      BY <2>1, <1>1, <1>4 DEF OnlyReached
  <1>6. Within(rows, N, sees[u])
    BY <1>1, <1>2, <1>3, <1>5 DEF Within
  <1> QED
    BY <1>1, <1>6 DEF OnlyReached

\* From ScanDone on every file sees what it reaches; the table is complete.
SeesInv == visibility \in AllSees /\ VisibilityIsClosure

\* The row of a table in post-order stands behind the rows of its target.
LEMMA DependenciesInOrder ==
  ASSUME OrderInv
  PROVE  /\ InOrder(dependencies, Len(dependencies))
         /\ \A files : IncludesWithin(files) <=> Within(dependencies, Len(dependencies), files)
  <1>1. PICK N \in Nat : DOMAIN dependencies = 1..N /\ N = Len(dependencies)
    BY Elements, LenProperties DEF OrderInv, Shape
  <1>2. \A i \in 1..N : dependencies[i].unit \in Units /\ dependencies[i].target \in Units
    BY <1>1, Elements DEF OrderInv
  <1>3. \A i, j \in 1..N : dependencies[j].unit = dependencies[i].target => j < i
    BY <1>1 DEF OrderInv, DependencyOrder, RowsOf
  <1> QED
    BY <1>1, <1>2, <1>3 DEF InOrder, IncludesWithin, Within

LEMMA NextSees ==
  ASSUME OrderInv, SeesInv, [Next]_vars
  PROVE  SeesInv'
  <1>1. ASSUME UNCHANGED visibility, phase' \in {"scan", "failed", "overrun"}
        PROVE  SeesInv'
    BY <1>1 DEF SeesInv, VisibilityIsClosure
  <1>2. ASSUME UNCHANGED <<visibility, dependencies>>, phase' = phase
        PROVE  SeesInv'
    BY <1>2 DEF SeesInv, VisibilityIsClosure, IncludesWithin
  <1>3. ASSUME NEW u \in Sources, ScanSource(u) \/ ParseSource(u)
        PROVE  SeesInv'
    BY <1>2, <1>3 DEF ScanSource, ParseSource, parseVars, scanVars
  <1>4. CASE ReadLine
    <2>1. PICK line : ScanLine(line)
      BY <1>4 DEF ReadLine
    <2> QED
      BY <1>1, <1>4, <2>1 DEF ReadLine, Reading, ScanLine, ScanConditional, ScanText, ScanInclude,
                              ScanDefine, ScanUndef, ScanError, Fail, parseVars
  <1>5. CASE StoreDependency
    BY <1>1, <1>5 DEF StoreDependency, Returned, Fail, parseVars
  <1>6. CASE StoreBehindTable
    BY <1>1, <1>6 DEF StoreBehindTable, parseVars
  <1>7. CASE EndOfFile
    BY <1>2, <1>7 DEF EndOfFile, parseVars
  <1>8. CASE Unterminated
    BY <1>1, <1>8 DEF Unterminated, Fail, parseVars
  <1>9. CASE ScanDone
    <2>1. visibility' = Visibility(dependencies) /\ dependencies' = dependencies
      BY <1>9 DEF ScanDone, scanVars
    <2>2. PICK N, sees : N = Len(dependencies) /\ sees = Visibility(dependencies)
      OBVIOUS
    <2>3. /\ InOrder(dependencies, N)
          /\ \A files : IncludesWithin(files) <=> Within(dependencies, N, files)
      BY <2>2, DependenciesInOrder
    <2>4. sees \in AllSees /\ (Units # {} => Closed(sees, dependencies, N))
      BY <2>2, <2>3, VisibilityCloses
    <2>5. \A u \in Units :
            /\ u \in sees[u] /\ IncludesWithin(sees[u])
            /\ \A files \in SUBSET Units :
                 u \in files /\ IncludesWithin(files) => sees[u] \subseteq files
      <3> TAKE u \in Units
      <3>1. Closed(sees, dependencies, N)
        BY <2>4
      <3>2. /\ u \in sees[u] /\ Within(dependencies, N, sees[u])
            /\ \A files \in SUBSET Units :
                 u \in files /\ Within(dependencies, N, files) => sees[u] \subseteq files
        BY <3>1, <2>3, ClosedIsLeast
      <3> QED
        BY <3>2, <2>3
    <2> QED
      BY <2>1, <2>2, <2>4, <2>5 DEF SeesInv, VisibilityIsClosure, IncludesWithin
  <1>10. CASE ParseDependency
    BY <1>2, <1>10 DEF ParseDependency, scanVars
  <1>11. CASE ParseUnit
    <2>1. /\ UNCHANGED <<visibility, dependencies>> /\ phase = "parse"
          /\ phase' \in {"parse", "failed"}
      BY <1>11 DEF ParseUnit, scanVars
    <2> QED
      BY <2>1, <1>1, <1>2
  <1>12. CASE ParseDone
    BY <1>12 DEF ParseDone, scanVars, parseVars, SeesInv, VisibilityIsClosure, IncludesWithin
  <1>13. CASE UNCHANGED vars
    BY <1>2, <1>13 DEF vars, scanVars, parseVars
  <1> QED
    BY <1>3, <1>4, <1>5, <1>6, <1>7, <1>8, <1>9, <1>10, <1>11, <1>12, <1>13
    DEF Next, Ended

\* nc_compute_include_visibility: a file sees the least set that holds it and
\* whatever its files include.
THEOREM FilesSeeWhatTheyReach == Spec => []VisibilityIsClosure
  <1>1. Init => OrderInv /\ SeesInv
    <2>1. Init => SeesInv
      BY DEF Init, SeesInv, AllSees, VisibilityIsClosure
    <2> QED
      BY <2>1, InitOrder
  <1>2. OrderInv /\ SeesInv /\ [Next]_vars => (OrderInv /\ SeesInv)'
    BY NextOrder, NextSees
  <1>3. SeesInv => VisibilityIsClosure
    BY DEF SeesInv
  <1> QED
    BY <1>1, <1>2, <1>3, PTL DEF Spec

-----------------------------------------------------------------------------
(* The tables stay within their arrays.                                      *)

\* What TypeOK says beyond the invariants of the two passes.
RoomInv ==
  /\ Len(dependencies) <= MaxDependencies
  /\ Len(events) <= MaxMacros
  /\ phase \in Phases /\ status \in Statuses
  /\ \A k \in DOMAIN visits : visits[k].row # 0

\* The replay of a header ends with an environment and a diagnostic.
LEMMA ImportType ==
  ASSUME OrderInv, ReplayInv, NEW rows \in Seq(RowType), NEW h \in Units, NEW u \in Units
  PROVE  Import(rows, events, h, env[u]) \in Results
  <1>1. Tables(rows, events) /\ Lengths \in [Units -> Nat]
    BY LengthsType DEF OrderInv, ReplayInv, Tables
  <1>2. PICK R : R = Replays(rows, events, Lengths) /\ ReplaysRun(R, rows, events, Lengths)
    BY <1>1, ReplaysCalls
  <1>3. MaxUnits + 1 \in 0..(MaxUnits + 1)
    BY CapacityAssumption
  <1>4. Effects(rows, events) \in Replayers
    BY <1>2, <1>3 DEF ReplaysRun, Effects
  <1>5. PICK m \in Envs : m = env[u] /\ Fits(m)
    BY DEF ReplayInv
  <1>6. Unimpeded(m) \in Results
    BY <1>5, UnimpededType
  <1> QED
    BY <1>4, <1>5, <1>6 DEF Import, Replayers

LEMMA ErrorType ==
  ASSUME NEW line \in ActiveLines, Error(line) # "OK"
  PROVE  Error(line) \in Statuses
  <1>1. line.kind \in LineKinds
    BY LineTypes
  <1>2. CASE line.kind \in ConditionalKinds
    BY <1>2 DEF Error, Statuses, ConditionalKinds, Opening
  <1>3. CASE line.kind = "include"
    BY <1>3 DEF Error, Statuses, ConditionalKinds, Opening
  <1>4. CASE line.kind = "define"
    BY <1>4 DEF Error, Statuses, ConditionalKinds, Opening
  <1>5. CASE line.kind = "undef"
    BY <1>5 DEF Error, Statuses, ConditionalKinds, Opening
  <1>6. CASE line.kind \in {"text", "bad"}
    BY <1>6 DEF Error, Statuses, ConditionalKinds, Opening
  <1> QED
    BY <1>1, <1>2, <1>3, <1>4, <1>5, <1>6 DEF LineKinds

LEMMA LineRoom ==
  ASSUME OrderInv, ReplayInv, RoomInv, ReadLine
  PROVE  RoomInv'
  <1>1. PICK line \in NextLines : ScanLine(line)
    BY DEF ReadLine
  <1>2. line \in ActiveLines
    BY DEF NextLines, InactiveLines
  <1>3. UNCHANGED <<dependencies, visits>>
    BY <1>1 DEF ScanLine, ScanConditional, ScanText, ScanInclude, ScanDefine, ScanUndef,
                ScanError, Fail, scanVars, parseVars
  <1>4. CASE ScanError(line)
    <2>1. phase' = "failed" /\ status' = Error(line) /\ events' = events
      BY <1>4 DEF ScanError, Fail, scanVars
    <2>2. Error(line) \in Statuses
      BY <1>4, <1>2, ErrorType DEF ScanError
    <2> QED
      BY <2>1, <2>2, <1>3 DEF RoomInv, Phases
  <1>5. CASE ~ScanError(line)
    <2>1. UNCHANGED <<phase, status>>
      BY <1>1, <1>5 DEF ScanLine, ScanConditional, ScanText, ScanInclude, ScanDefine, ScanUndef
    <2>2. Len(events') <= MaxMacros
      <3>1. CASE events' = events
        BY <3>1 DEF RoomInv
      <3>2. ASSUME NEW e, events' = Append(events, e), EventsFit
            PROVE  Len(events') <= MaxMacros
        <4>1. PICK n \in Nat : n = Len(events) /\ n < MaxMacros
          BY <3>2 DEF ReplayInv, EventsFit
        <4>2. Len(events') = n + 1
          BY <3>2, <4>1 DEF ReplayInv
        <4> QED
          BY <4>1, <4>2, CapacityAssumption
      <3> QED
        BY <1>1, <1>5, <3>1, <3>2 DEF ScanLine, ScanConditional, ScanText, ScanInclude,
                                      ScanDefine, ScanUndef
    <2> QED
      BY <2>1, <2>2, <1>3 DEF RoomInv
  <1> QED
    BY <1>4, <1>5

LEMMA StoreRoom ==
  ASSUME OrderInv, ReplayInv, RoomInv, StoreDependency
  PROVE  RoomInv'
  <1>1. /\ frames # <<>> /\ Top.include # None /\ Len(dependencies) < MaxDependencies
    BY DEF StoreDependency, Returned
  <1>2. PICK t \in Units : t = Top.unit
    BY <1>1, TopFacts
  <1>3. PICK h \in Units : h = Top.include
    BY <1>1, TopFacts DEF Units
  <1>4. PICK longer : longer = Append(dependencies, Row)
    OBVIOUS
  <1>5. PICK m \in Nat : m = Len(dependencies) /\ m < MaxDependencies
    BY <1>1 DEF OrderInv, Shape
  <1>6. longer \in Seq(RowType) /\ Len(longer) = m + 1
    <2>1. Row \in RowType
      BY <1>2, <1>3, LengthsType DEF Row, RowType, OrderInv
    <2> QED
      BY <2>1, <1>4, <1>5, AppendProperties DEF OrderInv, Shape
  <1>7. Import(longer, events, h, env[t]) \in Results
    BY <1>6, ImportType
  <1>8. UNCHANGED <<events, visits>>
    BY DEF StoreDependency, Fail, scanVars, parseVars
  <1>9. CASE phase' = "failed" /\ status' = Import(longer, events, h, env[t]).status
             /\ dependencies' = dependencies
    BY <1>7, <1>8, <1>9 DEF RoomInv, Results, Phases
  <1>10. CASE UNCHANGED <<phase, status>> /\ dependencies' = longer
    <2>1. m + 1 <= MaxDependencies
      BY <1>5, CapacityAssumption
    <2> QED
      BY <2>1, <1>6, <1>8, <1>10 DEF RoomInv
  <1> QED
    BY <1>2, <1>3, <1>4, <1>9, <1>10 DEF StoreDependency, Fail, scanVars

LEMMA VisitRoom ==
  ASSUME OrderInv, ParseInv, RoomInv, ParseDependency
  PROVE  \A k \in DOMAIN visits' : visits'[k].row # 0
  <1>1. visits \in Seq(VisitType) /\ visits # <<>> /\ RowsLeft # {}
    BY DEF ParseDependency, ParseInv
  <1>2. PICK n \in Nat : n = Len(visits) /\ DOMAIN visits = 1..n
    BY <1>1, VisitFacts
  <1>3. PICK F \in Nat : F = FirstRow
    BY <1>1, FirstRowIsLeast, Elements DEF RowsLeft, RowsOf, OrderInv
  <1>4. PICK t, onward : /\ t = dependencies[F].target
                         /\ onward = [visits EXCEPT ![Len(visits)].row = F + 1]
    OBVIOUS
  <1>5. /\ onward \in Seq(VisitType) /\ Len(onward) = n
        /\ \A k \in 1..n : onward[k].row = IF k = n THEN F + 1 ELSE visits[k].row
    <2>1. F + 1 \in Nat
      BY <1>3
    <2>2. /\ onward \in Seq(VisitType) /\ Len(onward) = Len(visits)
          /\ \A k \in DOMAIN visits : /\ onward[k].unit = visits[k].unit
                                      /\ onward[k].row = IF k = Len(visits) THEN F + 1
                                                         ELSE visits[k].row
      BY <2>1, <1>1, <1>4, SetRow
    <2> QED
      BY <2>2, <1>2
  <1>6. \A k \in 1..n : onward[k].row # 0
    <2>1. F + 1 # 0
      BY <1>3
    <2> QED
      BY <2>1, <1>2, <1>5 DEF RoomInv
  <1>7. CASE visits' = onward
    BY <1>5, <1>6, <1>7, LenProperties
  <1>8. CASE visits' = Append(onward, Visit(t))
    <2>1. t \in Units
      BY <1>1, <1>3, <1>4, FirstRowIsLeast, Elements DEF RowsLeft, RowsOf, OrderInv
    <2>2. Visit(t) \in VisitType /\ Visit(t).row = 1
      BY <2>1 DEF Visit, VisitType
    <2>3. PICK v \in VisitType : v = Visit(t) /\ v.row = 1
      BY <2>2
    <2>4. /\ visits' \in Seq(VisitType) /\ Len(visits') = n + 1
          /\ \A k \in 1..n : visits'[k] = onward[k]
          /\ visits'[n + 1] = v
      BY <2>3, <1>5, <1>8, AppendProperties
    <2>5. DOMAIN visits' = 1..(n + 1)
      BY <2>4, LenProperties
    <2>6. \A k \in 1..(n + 1) : k \in 1..n \/ k = n + 1
      OBVIOUS
    <2> QED
      BY <2>3, <2>4, <2>5, <2>6, <1>6
  <1> QED
    BY <1>3, <1>4, <1>7, <1>8 DEF ParseDependency

LEMMA NextRoom ==
  ASSUME OrderInv, ReplayInv, PassInv, ReachInv, ParseInv, RoomInv, [Next]_vars
  PROVE  RoomInv'
  <1>1. ASSUME UNCHANGED <<dependencies, events, visits>>, phase' \in Phases, status' \in Statuses
        PROVE  RoomInv'
    BY <1>1 DEF RoomInv
  <1>2. phase \in Phases /\ status \in Statuses
    BY DEF RoomInv
  <1>3. ASSUME NEW u \in Sources, ScanSource(u)
        PROVE  RoomInv'
    BY <1>1, <1>2, <1>3 DEF ScanSource, parseVars
  <1>4. ASSUME NEW u \in Sources, ParseSource(u)
        PROVE  RoomInv'
    <2>1. visits' = <<Visit(u)>> /\ UNCHANGED <<dependencies, events, phase, status>>
      BY <1>4 DEF ParseSource, scanVars
    <2>2. \A k \in DOMAIN <<Visit(u)>> : <<Visit(u)>>[k].row = 1
      BY DEF Visit
    <2> QED
      BY <2>1, <2>2 DEF RoomInv
  <1>5. CASE ReadLine
    BY <1>5, LineRoom
  <1>6. CASE StoreDependency
    BY <1>6, StoreRoom
  <1>7. CASE StoreBehindTable
    BY <1>1, <1>2, <1>7 DEF StoreBehindTable, scanVars, parseVars, Phases
  <1>8. CASE EndOfFile
    BY <1>1, <1>2, <1>8 DEF EndOfFile, parseVars
  <1>9. CASE Unterminated
    BY <1>1, <1>9 DEF Unterminated, Fail, scanVars, parseVars, Phases, Statuses
  <1>10. CASE ScanDone
    BY <1>1, <1>2, <1>10 DEF ScanDone, scanVars, Phases
  <1>11. CASE ParseDependency
    <2>1. UNCHANGED <<dependencies, events, phase, status>>
      BY <1>11 DEF ParseDependency, scanVars
    <2> QED
      BY <2>1, <1>11, VisitRoom DEF RoomInv
  <1>12. CASE ParseUnit
    <2>1. PICK u \in Units : u = Visited.unit
      BY <1>12, VisitFacts DEF ParseUnit, ParseInv
    <2>2. MakeSource(u).status = "OK" /\ MakeSource(u).stack = <<>>
      BY <1>12, MadeAsScanned DEF ParseUnit, ReachInv
    <2>3. /\ status' \in {"OK", "TEXT"} /\ phase' \in {"parse", "failed"}
          /\ UNCHANGED <<dependencies, events>> /\ visits' = Front(visits)
      BY <1>12, <2>1, <2>2 DEF ParseUnit, scanVars
    <2>4. \A k \in DOMAIN visits' : visits'[k].row # 0
      <3>1. visits \in Seq(VisitType) /\ visits # <<>> /\ visits' = Front(visits)
        BY <1>12 DEF ParseUnit, ParseInv
      <3>2. /\ DOMAIN Front(visits) = 1..(Len(visits) - 1) /\ DOMAIN visits = 1..Len(visits)
            /\ \A k \in 1..(Len(visits) - 1) : Front(visits)[k] = visits[k]
        BY ONLY <3>1, LastFront, LenProperties
      <3> QED
        BY <3>1, <3>2 DEF RoomInv
    <2> QED
      BY <2>3, <2>4 DEF RoomInv, Phases, Statuses
  <1>13. CASE ParseDone
    BY <1>1, <1>2, <1>13 DEF ParseDone, scanVars, parseVars, Phases
  <1>14. CASE UNCHANGED vars
    BY <1>1, <1>2, <1>14 DEF vars, scanVars, parseVars
  <1> QED
    BY <1>3, <1>4, <1>5, <1>6, <1>7, <1>8, <1>9, <1>10, <1>11, <1>12, <1>13, <1>14
    DEF Next, Ended

\* A sequence with its elements in a smaller set.
LEMMA Narrow ==
  ASSUME NEW S, NEW R, NEW s \in Seq(S), \A i \in DOMAIN s : s[i] \in R
  PROVE  s \in Seq(R)
  <1>1. PICK n \in Nat : n = Len(s) /\ s \in [1..n -> S] /\ DOMAIN s = 1..n
    BY LenProperties
  <1>2. s \in [1..n -> R]
    BY <1>1
  <1> QED
    BY <1>2, SeqDef

LEMMA InvGivesType ==
  ASSUME Inv, SeesInv, RoomInv
  PROVE  TypeOK
  <1>1. /\ source \in [Units -> Seq(ActiveLines)] /\ scanState \in [Units -> 0..2]
        /\ dependencies \in Seq(RowType) /\ frames \in Seq(FrameType)
    BY DEF Inv, OrderInv, Shape
  <1>2. env \in [Units -> Envs] /\ \A u \in Units : Cardinality(Defined(env[u])) <= MaxMacros
    BY DEF Inv, ReplayInv, Fits
  <1>3. dependencies \in Seq(Rows)
    <2>1. \A i \in DOMAIN dependencies : dependencies[i] \in Rows
      <3> TAKE i \in DOMAIN dependencies
      <3>1. dependencies[i] \in RowType
        BY <1>1, ElementOfSeq, LenProperties
      <3>2. PICK u \in Units : u = dependencies[i].unit
        BY <3>1 DEF RowType
      <3>3. i \in RowsOf(dependencies, u)
        BY <3>2 DEF RowsOf
      <3>4. Known(u) \in Nat /\ dependencies[i].line \in 1..Known(u)
        BY <3>3 DEF Inv, ReplayInv, RowsWithin
      <3>5. dependencies[i].line \in Nat \ {0}
        BY <3>4
      <3> QED
        BY <3>1, <3>5 DEF RowType, Rows
    <2> QED
      BY <2>1, <1>1, Narrow
  <1>4. conditional \in [Units -> Seq(Conditionals)]
        /\ \A u \in Units : Len(conditional[u]) <= MaxConditionalDepth
    BY DEF Inv, PassInv
  <1>5. visits \in Seq([unit : Units, row : Nat \ {0}])
    <2>1. visits \in Seq(VisitType)
      BY DEF Inv, ParseInv
    <2>2. \A k \in DOMAIN visits : visits[k] \in [unit : Units, row : Nat \ {0}]
      <3> TAKE k \in DOMAIN visits
      <3>1. visits[k] \in VisitType
        BY <2>1, ElementOfSeq, LenProperties
      <3>2. visits[k].row # 0
        BY DEF RoomInv
      <3> QED
        BY <3>1, <3>2 DEF VisitType
    <2> QED
      BY <2>1, <2>2, Narrow
  <1>6. events \in Seq(Events)
    BY DEF Inv, ReplayInv
  <1>7. parsed \in Seq(Units)
    BY DEF Inv, ParseInv
  <1> QED
    BY <1>1, <1>2, <1>3, <1>4, <1>5, <1>6, <1>7 DEF TypeOK, RoomInv, SeesInv, AllSees, FrameType

\* Every table of the compile workspace stays within its array, and every
\* entry names a file of the project and a line of a text.
THEOREM TablesFit == Spec => []TypeOK
  <1>1. Init => SeesInv /\ RoomInv
    <2> SUFFICES ASSUME Init
                 PROVE  SeesInv /\ RoomInv
      OBVIOUS
    <2>1. SeesInv
      BY DEF Init, SeesInv, AllSees, VisibilityIsClosure
    <2>2. RoomInv
      BY EmptySeq, CapacityAssumption DEF Init, RoomInv, Phases, Statuses
    <2> QED
      BY <2>1, <2>2
  <1>2. Inv /\ SeesInv /\ RoomInv /\ [Next]_vars => (SeesInv /\ RoomInv)'
    BY NextSees, NextRoom DEF Inv
  <1>3. Inv /\ SeesInv /\ RoomInv => TypeOK
    BY InvGivesType
  <1> QED
    BY <1>1, <1>2, <1>3, InvAlways, PTL DEF Spec
=============================================================================
